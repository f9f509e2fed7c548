------------------------------ MODULE AccessGrants ------------------------------
(***************************************************************************)
(* The life of one delegated access grant: its record, credentials,         *)
(* sessions and approval requests (AccessGrantService, AuthorizationService, *)
(* DeviceAuthorizationService), each a JSON file of AccessStore that is read *)
(* and replaced on its own.                                                *)
(*                                                                         *)
(* Every method is synchronous, so one process runs one at a time from its  *)
(* reads to its last write; but the stdio MCP server is a process of its     *)
(* own on the same directory, and a crash may fall between two writes.  A    *)
(* method is therefore one step that reads and decides what is to be written *)
(* (the programs below) and one step for each write.                       *)
(***************************************************************************)
EXTENDS Naturals, Sequences, FiniteSets

CONSTANTS
    Process,        \* the processes that share the store
    Server,         \* the one that serves the operator's routes
    Credential,     \* credential ids that can be minted
    NoCredential,
    MaxClock,       \* bound on the clock
    MaxVersion,     \* bound on the grant's version
    MaxUses,        \* bound on the counted authorizations
    Crashes         \* whether processes may die

ASSUME ServerAssumption == Server \in Process
ASSUME CredentialAssumption == NoCredential \notin Credential
ASSUME BoundAssumption == MaxClock \in Nat /\ MaxVersion \in Nat \ {0} /\ MaxUses \in Nat
ASSUME CrashesAssumption == Crashes \in BOOLEAN

VARIABLES
    now,        \* the clock
    grant,      \* the grant's file
    cred,       \* the credential files
    session,    \* the credentials whose implicit session is live
    approval,   \* the live approval request of the operation under study, by the
                \*   grant version it was made for
    device,     \* the device authorization and the in-memory token handoff
    proc,       \* the method each process is in
    held,       \* tokens that were handed to an agent
    conn,       \* authenticated contexts: <<process, credential>>
    told,       \* history: what the operator was told about the grant
    count       \* history: approvals given, authorizations, tokens handed over

vars == <<now, grant, cred, session, approval, device, proc, held, conn, told, count>>

GrantStatus == {"pending", "active", "paused", "expired", "revoked"}
Grant == [status : GrantStatus, version : 1..MaxVersion, starts : 0..MaxClock,
          expires : 0..MaxClock, denied : BOOLEAN, asks : BOOLEAN]
NoGrant == [status |-> "none"]
DeletedGrant == [status |-> "deleted"]

Kind == {"none", "create", "device", "rotate", "pause", "resume", "revoke", "narrow",
         "delete", "authenticate", "expire", "approved"}
Idle == [kind |-> "none", todo |-> <<>>, snap |-> NoGrant, cred |-> NoCredential]

(* The writes of each method, in the order of the code.                    *)
Program(kind) ==
    CASE kind = "create"       -> <<"grant", "issue", "grant">>
      [] kind = "device"       -> <<"grant", "issue", "grant", "device">>
      [] kind = "rotate"       -> <<"credentials", "sessions", "issue", "grant">>
      [] kind = "pause"        -> <<"grant", "sessions">>
      [] kind = "resume"       -> <<"grant">>
      [] kind = "revoke"       -> <<"grant", "sessions", "credentials">>
      [] kind = "narrow"       -> <<"grant">>
      [] kind = "delete"       -> <<"sessions", "remove">>
      [] kind = "authenticate" -> <<"session", "grant">>
      [] kind = "expire"       -> <<"grant">>
      [] kind = "approved"     -> <<"consume">>

TypeOK ==
    /\ now \in 0..MaxClock
    /\ grant \in Grant \cup {NoGrant, DeletedGrant}
    /\ cred \in [Credential -> {"unused", "live", "revoked"}]
    /\ session \subseteq Credential
    /\ approval \in [1..MaxVersion -> {"none", "pending", "approved"}]
    /\ device \in [status : {"none", "pending", "approved", "closed"},
                   handoff : Credential \cup {NoCredential}]
    /\ proc \in [Process -> [kind : Kind, snap : Grant \cup {NoGrant},
                             cred : Credential \cup {NoCredential},
                             todo : Seq({"grant", "issue", "device", "credentials", "sessions",
                                         "remove", "session", "consume"})]]
    /\ held \subseteq Credential
    /\ conn \subseteq Process \X Credential
    /\ told \in [stopped : BOOLEAN, revoked : BOOLEAN, approved : BOOLEAN]
    /\ count \in [given : 0..MaxUses, used : 0..MaxUses, handed : 0..MaxUses]

Init ==
    /\ now = 0
    /\ grant = NoGrant
    /\ cred = [c \in Credential |-> "unused"]
    /\ session = {}
    /\ approval = [v \in 1..MaxVersion |-> "none"]
    /\ device = [status |-> "none", handoff |-> NoCredential]
    /\ proc = [p \in Process |-> Idle]
    /\ held = {}
    /\ conn = {}
    /\ told = [stopped |-> FALSE, revoked |-> FALSE, approved |-> FALSE]
    /\ count = [given |-> 0, used |-> 0, handed |-> 0]

Exists == grant \notin {NoGrant, DeletedGrant}
Free(p) == proc[p].todo = <<>>
Begin(p, kind, snap, c) ==
    /\ Free(p)
    /\ proc' = [proc EXCEPT ![p] = [kind |-> kind, todo |-> Program(kind), snap |-> snap,
                                    cred |-> c]]

-----------------------------------------------------------------------------
(* The operator's routes, served by one process.                           *)

NewGrant(starts, expires, asks) ==
    [status |-> IF starts > now THEN "pending" ELSE "active", version |-> 1,
     starts |-> starts, expires |-> expires, denied |-> FALSE, asks |-> asks]

Create(kind) ==
    /\ grant = NoGrant
    /\ kind = "device" => device.status = "pending"
    /\ \E starts, expires \in now..MaxClock, asks \in BOOLEAN :
          starts < expires /\ Begin(Server, kind, NewGrant(starts, expires, asks), NoCredential)
    /\ UNCHANGED <<now, grant, cred, session, approval, device, held, conn, told, count>>

NextVersion == [grant EXCEPT !.version = @ + 1]
Change(kind, g) ==
    /\ Exists /\ grant.version < MaxVersion
    /\ Begin(Server, kind, g, NoCredential)
    /\ UNCHANGED <<now, grant, cred, session, approval, device, held, conn, told, count>>

Pause == Change("pause", [NextVersion EXCEPT !.status = "paused"])

Resume ==
    /\ Exists /\ grant.status = "paused" /\ now < grant.expires
    /\ Change("resume", [NextVersion EXCEPT !.status = "active"])

Revoke == Change("revoke", [NextVersion EXCEPT !.status = "revoked"])

MutNarrow ==
    \E earlier \in 0..MaxClock :
       /\ Exists /\ earlier < grant.expires
       /\ Change("narrow", [grant EXCEPT !.expires = earlier])

Narrow ==
    \/ Change("narrow", [NextVersion EXCEPT !.denied = TRUE])
    \/ \E earlier \in 0..MaxClock :
          /\ Exists /\ earlier < grant.expires
          /\ Change("narrow", [NextVersion EXCEPT !.expires = earlier])

Rotate ==
    /\ Exists
    /\ \E c \in Credential : cred[c] = "unused"
    /\ Begin(Server, "rotate", NoGrant, NoCredential)
    /\ UNCHANGED <<now, grant, cred, session, approval, device, held, conn, told, count>>

Delete ==
    /\ Exists
    /\ Begin(Server, "delete", NoGrant, NoCredential)
    /\ UNCHANGED <<now, grant, cred, session, approval, device, held, conn, told, count>>

(* Approving is a decision on the request alone, outdated or not; the next  *)
(* matching operation looks at the grant again.                            *)
Approve(v) ==
    /\ Free(Server)
    /\ approval[v] = "pending"
    /\ count.given < MaxUses
    /\ approval' = [approval EXCEPT ![v] = "approved"]
    /\ count' = [count EXCEPT !.given = @ + 1]
    /\ told' = [told EXCEPT !.approved = TRUE]
    /\ UNCHANGED <<now, grant, cred, session, device, proc, held, conn>>

Deny(v) ==
    /\ Free(Server)
    /\ approval[v] = "pending"
    /\ approval' = [approval EXCEPT ![v] = "none"]
    /\ UNCHANGED <<now, grant, cred, session, device, proc, held, conn, told, count>>

-----------------------------------------------------------------------------
(* Device authorization: approval creates the grant and leaves the token    *)
(* in memory until the agent's next poll.                                  *)

RequestDevice ==
    /\ device.status = "none"
    /\ Free(Server)
    /\ device' = [device EXCEPT !.status = "pending"]
    /\ UNCHANGED <<now, grant, cred, session, approval, proc, held, conn, told, count>>

(* An operator's denial, or the first poll after ten minutes.               *)
CloseDevice ==
    /\ device.status = "pending"
    /\ Free(Server)
    /\ device' = [device EXCEPT !.status = "closed"]
    /\ UNCHANGED <<now, grant, cred, session, approval, proc, held, conn, told, count>>

MutPoll ==
    /\ device.status = "approved" /\ device.handoff # NoCredential
    /\ Free(Server)
    /\ count.handed < MaxUses
    /\ count' = [count EXCEPT !.handed = @ + 1]
    /\ held' = held \cup {device.handoff}
    /\ UNCHANGED <<now, grant, cred, session, approval, device, proc, conn, told>>

Poll ==
    /\ device.status = "approved" /\ device.handoff # NoCredential
    /\ Free(Server)
    /\ count.handed < MaxUses
    /\ device' = [status |-> "closed", handoff |-> NoCredential]
    /\ count' = [count EXCEPT !.handed = @ + 1]
    /\ held' = held \cup {device.handoff}
    /\ UNCHANGED <<now, grant, cred, session, approval, proc, conn, told>>

(* The handoff ages out after five minutes.                                *)
LoseHandoff ==
    /\ device.handoff # NoCredential
    /\ device' = [device EXCEPT !.handoff = NoCredential]
    /\ UNCHANGED <<now, grant, cred, session, approval, proc, held, conn, told, count>>

-----------------------------------------------------------------------------
(* An agent's request, in any process: authenticate the token, and then     *)
(* authorize operations against the grant as it is on disk.                 *)

Expired == now >= grant.expires
Presented(c) == c \in held /\ cred[c] = "live" /\ Exists
Authenticate(p, c) ==
    /\ Presented(c)
    /\ grant.status = "active" /\ ~Expired
    /\ <<p, c>> \notin conn
    /\ Begin(p, "authenticate", grant, c)
    /\ UNCHANGED <<now, grant, cred, session, approval, device, held, conn, told, count>>

(* A session idle for too long is ended and the request is refused.         *)
EndIdleSession(p, c) ==
    /\ Free(p)
    /\ Presented(c)
    /\ grant.status = "active" /\ ~Expired
    /\ c \in session
    /\ session' = session \ {c}
    /\ UNCHANGED <<now, grant, cred, approval, device, proc, held, conn, told, count>>

(* The lazy expiry of authenticateAgentToken (any status but expired) and   *)
(* of checkGrantStatus (an active one).                                    *)
MarkExpired(p, c) ==
    /\ Exists /\ Expired
    /\ \/ Presented(c) /\ grant.status # "expired"
       \/ <<p, c>> \in conn /\ grant.status = "active"
    /\ Begin(p, "expire", [grant EXCEPT !.status = "expired"], c)
    /\ UNCHANGED <<now, grant, cred, session, approval, device, held, conn, told, count>>

MutMayAct(p, c) ==
    /\ Free(p) /\ <<p, c>> \in conn
    /\ Exists /\ ~Expired /\ grant.status \in {"active", "paused"} /\ grant.starts <= now /\ ~grant.denied

MayAct(p, c) ==
    /\ Free(p) /\ <<p, c>> \in conn
    /\ Exists /\ ~Expired /\ grant.status = "active" /\ grant.starts <= now /\ ~grant.denied

Matches(status) == approval[grant.version] = status

Allow(p, c) ==
    /\ MayAct(p, c) /\ ~grant.asks
    /\ count.used < MaxUses
    /\ count' = [count EXCEPT !.used = @ + 1]
    /\ UNCHANGED <<now, grant, cred, session, approval, device, proc, held, conn, told>>

UseApproval(p, c) ==
    /\ MayAct(p, c) /\ grant.asks
    /\ Matches("approved")
    /\ Begin(p, "approved", grant, c)
    /\ UNCHANGED <<now, grant, cred, session, approval, device, held, conn, told, count>>

RequestApproval(p, c) ==
    /\ MayAct(p, c) /\ grant.asks
    /\ Matches("none")
    /\ approval' = [approval EXCEPT ![grant.version] = "pending"]
    /\ UNCHANGED <<now, grant, cred, session, device, proc, held, conn, told, count>>

Disconnect(p, c) ==
    /\ Free(p) /\ <<p, c>> \in conn
    /\ conn' = conn \ {<<p, c>>}
    /\ UNCHANGED <<now, grant, cred, session, approval, device, proc, held, told, count>>

-----------------------------------------------------------------------------
(* The writes.                                                             *)

Writing(p, what) == proc[p].todo # <<>> /\ Head(proc[p].todo) = what
Last(p) == Len(proc[p].todo) = 1
Written(p) ==
    proc' = [proc EXCEPT ![p] = IF Last(p) THEN Idle
                                ELSE [proc[p] EXCEPT !.todo = Tail(proc[p].todo)]]

(* What the operator knows once a route has answered, and, from the first   *)
(* write, that an approval given before a narrowing one is outdated.        *)
Restricts(kind) == kind \in {"pause", "revoke", "narrow"}
ToldAfter(p) ==
    LET kind == proc[p].kind
    IN  [stopped |-> IF Last(p) /\ kind \in {"pause", "revoke", "delete"} THEN TRUE
                     ELSE IF kind = "resume" THEN FALSE ELSE told.stopped,
         revoked |-> told.revoked \/ (Last(p) /\ kind = "revoke"),
         approved |-> told.approved /\ ~Restricts(kind)]

WriteGrant(p) ==
    /\ Writing(p, "grant")
    /\ grant' = proc[p].snap
    /\ conn' = IF proc[p].kind = "authenticate" THEN conn \cup {<<p, proc[p].cred>>} ELSE conn
    /\ held' = IF Last(p) /\ proc[p].kind \in {"create", "rotate"} THEN held \cup {proc[p].cred} ELSE held
    /\ told' = ToldAfter(p)
    /\ Written(p)
    /\ UNCHANGED <<now, cred, session, approval, device, count>>

(* issueCredential reads the grant again and writes it back with the        *)
(* credential's metadata.                                                  *)
IssueCredential(p) ==
    /\ Writing(p, "issue") /\ Exists
    /\ \E c \in Credential :
          /\ cred[c] = "unused"
          /\ cred' = [cred EXCEPT ![c] = "live"]
          /\ proc' = [proc EXCEPT ![p].todo = Tail(@), ![p].snap = grant, ![p].cred = c]
    /\ UNCHANGED <<now, grant, session, approval, device, held, conn, told, count>>

MutRevokeCredentials(p) ==
    /\ Writing(p, "credentials")
    /\ Written(p)
    /\ told' = ToldAfter(p)
    /\ UNCHANGED <<now, grant, cred, session, approval, device, held, conn, count>>

RevokeCredentials(p) ==
    /\ Writing(p, "credentials")
    /\ cred' = [c \in Credential |-> IF cred[c] = "live" THEN "revoked" ELSE cred[c]]
    /\ Written(p)
    /\ told' = ToldAfter(p)
    /\ UNCHANGED <<now, grant, session, approval, device, held, conn, count>>

MutRevokeSessions(p) ==
    /\ Writing(p, "sessions")
    /\ Written(p)
    /\ told' = ToldAfter(p)
    /\ UNCHANGED <<now, grant, cred, session, approval, device, held, conn, count>>

RevokeSessions(p) ==
    /\ Writing(p, "sessions")
    /\ session' = {}
    /\ Written(p)
    /\ told' = ToldAfter(p)
    /\ UNCHANGED <<now, grant, cred, approval, device, held, conn, count>>

MutRemoveGrant(p) ==
    /\ Writing(p, "remove")
    /\ grant' = [grant EXCEPT !.status = "deleted"]
    /\ Written(p)
    /\ told' = ToldAfter(p)
    /\ UNCHANGED <<now, cred, session, approval, device, held, conn, count>>

RemoveGrant(p) ==
    /\ Writing(p, "remove")
    /\ grant' = DeletedGrant
    /\ Written(p)
    /\ told' = ToldAfter(p)
    /\ UNCHANGED <<now, cred, session, approval, device, held, conn, count>>

WriteSession(p) ==
    /\ Writing(p, "session")
    /\ session' = session \cup {proc[p].cred}
    /\ Written(p)
    /\ UNCHANGED <<now, grant, cred, approval, device, held, conn, told, count>>

WriteDevice(p) ==
    /\ Writing(p, "device")
    /\ device' = [status |-> "approved", handoff |-> proc[p].cred]
    /\ Written(p)
    /\ UNCHANGED <<now, grant, cred, session, approval, held, conn, told, count>>

MutConsume(p) ==
    /\ Writing(p, "consume")
    /\ count.used < MaxUses
    /\ count' = [count EXCEPT !.used = @ + 1]
    /\ Written(p)
    /\ UNCHANGED <<now, grant, cred, session, approval, device, held, conn, told>>

Consume(p) ==
    /\ Writing(p, "consume")
    /\ count.used < MaxUses
    /\ approval' = [approval EXCEPT ![proc[p].snap.version] = "none"]
    /\ count' = [count EXCEPT !.used = @ + 1]
    /\ Written(p)
    /\ UNCHANGED <<now, grant, cred, session, device, held, conn, told>>

-----------------------------------------------------------------------------
(* Environment.                                                            *)

Tick ==
    /\ now < MaxClock
    /\ \A p \in Process : Free(p)
    /\ now' = now + 1
    /\ UNCHANGED <<grant, cred, session, approval, device, proc, held, conn, told, count>>

(* A request's 24 hours pass, pending or approved.                         *)
ApprovalExpires(v) ==
    /\ \A p \in Process : Free(p)
    /\ approval[v] # "none"
    /\ approval' = [approval EXCEPT ![v] = "none"]
    /\ UNCHANGED <<now, grant, cred, session, device, proc, held, conn, told, count>>

Crash(p) ==
    /\ Crashes
    /\ proc' = [proc EXCEPT ![p] = Idle]
    /\ conn' = {x \in conn : x[1] # p}
    /\ device' = IF p = Server THEN [device EXCEPT !.handoff = NoCredential] ELSE device
    /\ UNCHANGED <<now, grant, cred, session, approval, told, count, held>>

-----------------------------------------------------------------------------

Operator ==
    \/ \E kind \in {"create", "device"} : Create(kind)
    \/ Pause \/ Resume \/ Revoke \/ Narrow \/ Rotate \/ Delete
    \/ \E v \in 1..MaxVersion : Approve(v) \/ Deny(v)
    \/ RequestDevice \/ CloseDevice \/ Poll

Agent(p, c) ==
    \/ Authenticate(p, c) \/ EndIdleSession(p, c) \/ MarkExpired(p, c)
    \/ Allow(p, c) \/ UseApproval(p, c) \/ RequestApproval(p, c) \/ Disconnect(p, c)

Write(p) ==
    \/ WriteGrant(p) \/ IssueCredential(p) \/ RevokeCredentials(p) \/ RevokeSessions(p)
    \/ RemoveGrant(p) \/ WriteSession(p) \/ WriteDevice(p) \/ Consume(p)

Next ==
    \/ Operator
    \/ \E p \in Process, c \in Credential : Agent(p, c)
    \/ \E p \in Process : Write(p) \/ Crash(p)
    \/ LoseHandoff \/ Tick \/ \E v \in 1..MaxVersion : ApprovalExpires(v)

Spec == Init /\ [][Next]_vars

-----------------------------------------------------------------------------
(* Properties.                                                             *)

Authorized == count'.used > count.used

(* Pause, revoke and delete take effect at once: between the answer of the  *)
(* route and a later resume nothing is authorized, not even for requests    *)
(* that were authenticated before it.                                      *)
StopTakesEffect == [][Authorized => ~told.stopped]_vars

(* Stopping a grant ends the sessions opened under it, and none is opened    *)
(* before it is resumed.                                                   *)
SessionsEnded == told.stopped => session = {}

(* An approval authorizes one operation: however often requests are made,   *)
(* outdated, expired and repeated, no more operations pass than the         *)
(* operator approved.                                                      *)
ApprovalUsedOnce == Exists /\ grant.asks => count.used <= count.given

(* No operation passes on an approval given before the grant was paused,    *)
(* revoked or narrowed.                                                    *)
ApprovalIsFresh == [][Authorized /\ grant.asks => told.approved]_vars

(* Rotation replaces: whatever interrupts it, one token at most is usable.  *)
OneLiveCredential == Cardinality({c \in Credential : cred[c] = "live"}) <= 1

(* A device authorization hands its token over at most once: no token still *)
(* waits in memory when an agent holds it.                                 *)
DeviceTokenOnce ==
    /\ count.handed <= 1
    /\ device.handoff # NoCredential => device.handoff \notin held
=============================================================================
