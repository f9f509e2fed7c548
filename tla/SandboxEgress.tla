---------------------------- MODULE SandboxEgress ----------------------------
(***************************************************************************)
(* Brokered egress: the gateway that admits a request to the outside, the  *)
(* session that follows its redirects under quotas, and the audit log that *)
(* must hold a record before the caller gets an answer:                    *)
(*   src/src/sandbox/sandbox-network-gateway.ts  (requestEgress)           *)
(*   src/src/sandbox/egress-broker.ts     (session, JsonlEgressAuditSink)  *)
(*   src/src/sandbox/egress-policy.ts     (authorizeEgressRequest)         *)
(*   src/src/sandbox/egress-audit-retention.ts   (rotation at boot)        *)
(*                                                                         *)
(* Each request has a session of its own.  Its code is cut at its awaits:  *)
(* name resolution, the exchange, and the append to the log, which runs in *)
(* the order of the calls.  The server and the stdio MCP server are two    *)
(* processes with a gateway each and one log; the server rotates the log   *)
(* while it boots.  `env` says which failures there are; `redirect` is the *)
(* policy's; neither changes.                                              *)
(***************************************************************************)
EXTENDS Integers, Sequences, FiniteSets

CONSTANTS
    Request,      \* calls of requestEgress, one each
    Process,      \* processes with a gateway
    Server,       \* the one that rotates the log when it boots
    Slots,        \* limit of the pool sandbox-egress
    MaxRedirects, \* policy.limits, in exchanges
    MaxRequests,
    MaxSent,      \* in bodies
    MaxReceived,  \* in response bodies
    Host,
    Allowed,      \* policy.allowedHosts
    Environment,  \* the environments env is chosen from
    Nowhere       \* no process, host or request

ASSUME PolicyAssumption ==
    /\ Slots \in Nat \ {0} /\ MaxRequests \in Nat \ {0} /\ MaxRedirects \in Nat
    /\ MaxSent \in Nat /\ MaxReceived \in Nat
    /\ Allowed \subseteq Host /\ Server \in Process /\ Nowhere \notin Host \cup Process \cup Request

VARIABLES
    req,          \* the requests: where each is, its session's counters, and as
                  \* history `wire`: the exchanges the session has begun
    active,       \* process -> slots in use
    chain,        \* process -> appends that were called and are not done
    broken,       \* process -> an append failed: `pending` is rejected for good
    live,         \* the lines of sandbox-egress-audit.jsonl
    archive,      \* the records in its .1
    rotation,     \* how far the rotation of a booting server is
    env, redirect,
    revoked,      \* the policy was disabled or replaced
    retired       \* history: records an archive was overwritten with

log == <<live, archive, rotation, retired>>
vars == <<req, active, chain, broken, live, archive, rotation, env, redirect,
          revoked, retired>>

RedirectPolicy == {"denied", "same-host", "allowlisted"}
Decision == {"allowed", "denied"}

(* A line is a record, the beginning of one without a newline, or a line   *)
(* that does not parse.                                                    *)
Torn == <<Nowhere, "torn">>
Malformed == <<Nowhere, "malformed">>

NewRequest == [at |-> "new", by |-> Nowhere, host |-> Nowhere, body |-> 0, count |-> 0,
               sent |-> 0, received |-> 0, hops |-> 0, slot |-> FALSE, wire |-> <<>>]

Init ==
    /\ req = [r \in Request |-> NewRequest]
    /\ active = [p \in Process |-> 0]
    /\ chain = [p \in Process |-> <<>>] /\ broken = [p \in Process |-> FALSE]
    /\ live = <<>> /\ archive = {} /\ retired = {}
    /\ rotation = [at |-> "none", kept |-> {}]
    /\ env \in Environment /\ redirect \in RedirectPolicy
    /\ revoked = FALSE

Serving(p) == p = Server => rotation.at = "none"

-----------------------------------------------------------------------------
(* The session.  Each of these ends a stretch of code with an await: of    *)
(* the resolver, of the exchange, or of the append of a decision.          *)

(* appendAudit of a decision about request x. *)
Decide(r, x, decision) ==
    /\ req' = [req EXCEPT ![r] = [x EXCEPT !.at = decision]]
    /\ chain' = [chain EXCEPT ![x.by] = Append(@, <<r, decision>>)]

(* reserveRequest counts the exchange before it looks at the quotas. *)
Reserved(x) == [x EXCEPT !.count = @ + 1, !.sent = @ + x.body]
WithinQuota(x) == x.count <= MaxRequests /\ x.sent <= MaxSent

(* One turn of the loop of request(): the checks, the reservation, and the *)
(* resolver.                                                               *)
NextHop(r, x) ==
    IF revoked THEN Decide(r, x, "denied")
    ELSE IF WithinQuota(Reserved(x))
         THEN /\ req' = [req EXCEPT ![r] = [Reserved(x) EXCEPT !.at = "resolving"]]
              /\ UNCHANGED chain
         ELSE Decide(r, Reserved(x), "denied")

(* requestEgress: a slot of the pool, the session, and its first hop.      *)
(* Without a policy or a slot, or for a host that authorizeEgressRequest   *)
(* refuses, the denial is audited.                                         *)
Submit(r, p, h, b) ==
    /\ req[r].at = "new" /\ Serving(p) /\ (env.alone => p = Server)
    /\ LET x == [req[r] EXCEPT !.by = p, !.host = h, !.body = b]
           y == [x EXCEPT !.slot = TRUE]
       IN IF revoked \/ active[p] >= Slots
          THEN Decide(r, x, "denied") /\ UNCHANGED active
          ELSE /\ active' = [active EXCEPT ![p] = @ + 1]
               /\ IF h \in Allowed THEN NextHop(r, y) ELSE Decide(r, y, "denied")
    /\ UNCHANGED <<broken, log, env, redirect, revoked>>

Exchange(r) == [host |-> req[r].host, body |-> req[r].body]

(* Mutant: the policy is looked at before the resolver only. *)
MutResolve(r) ==
    /\ req[r].at = "resolving"
    /\ req' = [req EXCEPT ![r].at = "exchanging", ![r].wire = Append(@, Exchange(r))]
    /\ UNCHANGED <<active, chain, broken, log, env, redirect, revoked>>

(* The name resolves to public addresses; the policy is checked again and  *)
(* the exchange begins.                                                    *)
Resolve(r) ==
    /\ req[r].at = "resolving"
    /\ IF revoked
       THEN Decide(r, req[r], "denied")
       ELSE /\ req' = [req EXCEPT ![r].at = "exchanging", ![r].wire = Append(@, Exchange(r))]
            /\ UNCHANGED chain
    /\ UNCHANGED <<active, broken, log, env, redirect, revoked>>

(* The name does not resolve or resolves to a forbidden address, the       *)
(* exchange fails, the time of the session is over, or the caller cancels. *)
HopFails(r) ==
    /\ req[r].at \in {"resolving", "exchanging"}
    /\ Decide(r, req[r], "denied")
    /\ UNCHANGED <<active, broken, log, env, redirect, revoked>>

Received(r, size) == [req[r] EXCEPT !.received = @ + size]

(* A response that is no redirect: allowed if it fits the quota. *)
Respond(r, size) ==
    /\ req[r].at = "exchanging"
    /\ LET x == Received(r, size)
           ok == ~revoked /\ x.received <= MaxReceived
       IN Decide(r, x, IF ok THEN "allowed" ELSE "denied")
    /\ UNCHANGED <<active, broken, log, env, redirect, revoked>>

(* Mutant: a redirect is followed without asking the policy again. *)
MutMayFollow(x, h) ==
    /\ redirect # "denied" /\ x.hops <= MaxRedirects
    /\ redirect = "same-host" => h = x.host

(* A redirect to h may be followed: h is authorized like a first request.  *)
(* One without a Location is refused, like one to a host not allowed.      *)
MayFollow(x, h) ==
    /\ redirect # "denied" /\ x.hops <= MaxRedirects /\ h \in Allowed
    /\ redirect = "same-host" => h = x.host

(* A redirect to h.  A 303, and a 301 or 302 of a POST, drops the body. *)
Redirected(r, size, h, keep) ==
    /\ req[r].at = "exchanging"
    /\ LET x == [Received(r, size) EXCEPT !.hops = @ + 1]
           next == [x EXCEPT !.host = h, !.body = IF keep THEN @ ELSE 0]
       IN IF ~revoked /\ x.received <= MaxReceived /\ MayFollow(x, h)
          THEN NextHop(r, next)
          ELSE Decide(r, x, "denied")
    /\ UNCHANGED <<active, broken, log, env, redirect, revoked>>

-----------------------------------------------------------------------------
(* JsonlEgressAuditSink: appends run one after the other, each after the   *)
(* one before; once one has failed, every later one fails without writing. *)

(* A record goes behind what the file ends with: behind a torn line it     *)
(* makes one malformed line of both.                                       *)
Written(line) ==
    IF live # <<>> /\ live[Len(live)] = Torn
    THEN [live EXCEPT ![Len(live)] = IF line = Torn THEN Torn ELSE Malformed]
    ELSE Append(live, line)

(* What a write that does not succeed may leave in the file. *)
Leftover(line) ==
    {live, Written(line)} \cup (IF env.torn THEN {Written(Torn)} ELSE {})

(* What is left of a request whose session is closed. *)
Closed(r, at) == [NewRequest EXCEPT !.at = at, !.by = req[r].by]

(* Mutant: the slot is given back when the request succeeded. *)
MutSettle(p, at) ==
    LET r == Head(chain[p])[1] IN
    /\ req' = [req EXCEPT ![r] = Closed(r, at)]
    /\ active' = [active EXCEPT ![p] = IF req[r].slot /\ at = "answered" THEN @ - 1 ELSE @]
    /\ chain' = [chain EXCEPT ![p] = Tail(@)]

(* The append has settled: the gateway closes the session, gives back the  *)
(* slot and answers or throws.                                             *)
Settle(p, at) ==
    LET r == Head(chain[p])[1] IN
    /\ req' = [req EXCEPT ![r] = Closed(r, at)]
    /\ active' = [active EXCEPT ![p] = IF req[r].slot THEN @ - 1 ELSE @]
    /\ chain' = [chain EXCEPT ![p] = Tail(@)]

(* Mutant: the caller is answered when the line was handed to the file. *)
MutAppendDone(p) ==
    /\ chain[p] # <<>> /\ ~broken[p]
    /\ live' \in Leftover(Head(chain[p]))
    /\ Settle(p, IF Head(chain[p])[2] = "allowed" THEN "answered" ELSE "refused")
    /\ UNCHANGED <<broken, archive, rotation, retired, env, redirect, revoked>>

AppendDone(p) ==
    /\ chain[p] # <<>> /\ ~broken[p]
    /\ live' = Written(Head(chain[p]))
    /\ Settle(p, IF Head(chain[p])[2] = "allowed" THEN "answered" ELSE "refused")
    /\ UNCHANGED <<broken, archive, rotation, retired, env, redirect, revoked>>

(* The open, the write or the sync fails: EGRESS_AUDIT_WRITE_FAILED, which *)
(* is not audited again.                                                   *)
AppendFails(p) ==
    /\ env.io /\ chain[p] # <<>> /\ ~broken[p]
    /\ live' \in Leftover(Head(chain[p]))
    /\ broken' = [broken EXCEPT ![p] = TRUE]
    /\ Settle(p, "unaudited")
    /\ UNCHANGED <<archive, rotation, retired, env, redirect, revoked>>

(* Mutant: an append behind a failed one never settles. *)
MutAppendRejected(p) == FALSE /\ UNCHANGED vars

AppendRejected(p) ==
    /\ chain[p] # <<>> /\ broken[p]
    /\ Settle(p, "unaudited")
    /\ UNCHANGED <<broken, log, env, redirect, revoked>>

-----------------------------------------------------------------------------
(* readEgressAuditRecords: the lines that parse. *)
Readable == {live[i] : i \in DOMAIN live} \ {Torn, Malformed}

(* A process dies and starts again, its log in whatever state the append   *)
(* in progress left it.  A booting server looks at the log: `due` when it  *)
(* is large or old.                                                        *)
Crash(p, due) ==
    /\ env.crash
    /\ due => env.rotate /\ p = Server
    /\ live' \in IF chain[p] = <<>> \/ broken[p] THEN {live} ELSE Leftover(Head(chain[p]))
    /\ req' = [r \in Request |->
                 IF req[r].by = p /\ req[r].at \in {"resolving", "exchanging"} \cup Decision
                 THEN Closed(r, "lost") ELSE req[r]]
    /\ active' = [active EXCEPT ![p] = 0]
    /\ chain' = [chain EXCEPT ![p] = <<>>]
    /\ broken' = [broken EXCEPT ![p] = FALSE]
    /\ rotation' = IF p # Server THEN rotation
                   ELSE [at |-> IF due THEN "read" ELSE "none", kept |-> {}]
    /\ UNCHANGED <<archive, retired, env, redirect, revoked>>

(* rotateEgressAuditLogIfNeeded, at its awaits. *)
ReadLog ==
    /\ rotation.at = "read"
    /\ rotation' = [at |-> "archive", kept |-> Readable]
    /\ UNCHANGED <<req, active, chain, broken, live, archive, retired, env, redirect,
                   revoked>>

Archive ==
    /\ rotation.at = "archive"
    /\ archive' = rotation.kept
    /\ retired' = retired \cup (archive \ rotation.kept)
    /\ rotation' = [at |-> "reset", kept |-> {}]
    /\ UNCHANGED <<req, active, chain, broken, live, env, redirect, revoked>>

ResetLog ==
    /\ rotation.at = "reset"
    /\ live' = <<>>
    /\ rotation' = [at |-> "none", kept |-> {}]
    /\ UNCHANGED <<req, active, chain, broken, archive, retired, env, redirect, revoked>>

(* The kill switch, or another version of the policy. *)
Revoke ==
    /\ env.revoke /\ ~revoked /\ revoked' = TRUE
    /\ UNCHANGED <<req, active, chain, broken, log, env, redirect>>

RequestNext(r) ==
    \/ HopFails(r) \/ Resolve(r)
    \/ \E size \in 0..1 :
          \/ Respond(r, size)
          \/ \E h \in Host, keep \in BOOLEAN : Redirected(r, size, h, keep)

SinkNext(p) == AppendDone(p) \/ AppendFails(p) \/ AppendRejected(p)

RotationNext == ReadLog \/ Archive \/ ResetLog

Next ==
    \/ \E r \in Request :
          \/ RequestNext(r)
          \/ \E p \in Process, h \in Host, b \in 0..1 : Submit(r, p, h, b)
    \/ \E p \in Process : SinkNext(p) \/ \E due \in BOOLEAN : Crash(p, due)
    \/ RotationNext \/ Revoke

Spec == Init /\ [][Next]_vars

(* The resolver and the exchange have time-outs; file operations end. *)
FairSpec ==
    /\ Spec
    /\ \A r \in Request : WF_req(RequestNext(r))
    /\ \A p \in Process : WF_req(SinkNext(p))

-----------------------------------------------------------------------------
InSession == {"resolving", "exchanging", "allowed", "denied"}
Over == {"answered", "refused", "unaudited", "lost"}
Record == Request \X Decision

RequestType ==
    [at : {"new"} \cup InSession \cup Over, by : Process \cup {Nowhere},
     host : Host \cup {Nowhere}, body : 0..1, count : Nat, sent : Nat, received : Nat,
     hops : Nat, slot : BOOLEAN, wire : Seq([host : Host, body : 0..1])]

(* Types, and the pool: its counter is the number of requests that hold a  *)
(* slot, on every path of every session.                                   *)
TypeOK ==
    /\ req \in [Request -> RequestType]
    /\ active \in [Process -> 0..Slots]
    /\ chain \in [Process -> Seq(Record)] /\ broken \in [Process -> BOOLEAN]
    /\ live \in Seq(Record \cup {Torn, Malformed})
    /\ archive \subseteq Record /\ retired \subseteq Record
    /\ rotation \in [at : {"none", "read", "archive", "reset"}, kept : SUBSET Record]
    /\ env \in Environment /\ redirect \in RedirectPolicy /\ revoked \in BOOLEAN
    /\ \A p \in Process :
          active[p] = Cardinality({r \in Request : req[r].slot /\ req[r].by = p})

(* Whoever was answered or refused has a record of it that can be read, or *)
(* that was in an archive which a later rotation replaced: whatever fails, *)
(* crashes, or is rotated (egress-audit-retention.ts:68).                  *)
Audited(r, decision) == <<r, decision>> \in Readable \cup archive \cup retired

AnswerIsAudited ==
    \A r \in Request :
        /\ req[r].at = "answered" => Audited(r, "allowed")
        /\ req[r].at = "refused" => Audited(r, "denied")

(* What was sent out for one request is what its policy allows, however it *)
(* was redirected: hosts of the allowlist, and one host only if the policy *)
(* says so; no more exchanges than redirects and quota allow, and no more  *)
(* bodies than the quota (egress-broker.ts:531).                           *)
WireWithinPolicy ==
    \A r \in Request :
        LET w == req[r].wire IN
        /\ \A i \in DOMAIN w : w[i].host \in Allowed
        /\ redirect = "same-host" => \A i \in DOMAIN w : w[i].host = w[1].host
        /\ redirect = "denied" => Len(w) <= 1
        /\ Len(w) <= MaxRequests /\ Len(w) <= MaxRedirects + 1
        /\ Cardinality({i \in DOMAIN w : w[i].body = 1}) <= MaxSent

(* After a revocation nothing is sent, and no response is let through that *)
(* was not already being audited (egress-broker.ts:656).                   *)
QuietWhenRevoked ==
    [][revoked => \A r \in Request :
                      /\ Len(req'[r].wire) <= Len(req[r].wire)
                      /\ req'[r].at = "allowed" => req[r].at = "allowed"]_vars

(* Every request ends, with an answer, a refusal or its process, also when *)
(* the log cannot be written any more (egress-broker.ts:213).              *)
RequestEnds == \A r \in Request : req[r].at \in InSession ~> req[r].at \in Over
=============================================================================
