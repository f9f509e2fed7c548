-------------------------- MODULE SandboxEgressProofs --------------------------
(***************************************************************************)
(* Theorems about SandboxEgress for every number of requests and processes, *)
(* hosts, quotas, redirect policies and environments.                      *)
(*                                                                         *)
(* Each exchange is checked alone, against counters of the session; what is *)
(* proved is about all of a session's exchanges together.  OnPath ties the  *)
(* two: how the counters of a session stand to what it has sent out.       *)
(***************************************************************************)
EXTENDS SandboxEgress, FiniteSetTheorems, SequenceTheorems, TLAPS

Exchanges == [host : Host, body : 0..1]
Bodies(w) == Cardinality({i \in DOMAIN w : w[i].body = 1})

(* WireWithinPolicy of one session's exchanges.                            *)
Fits(w, policy) ==
    /\ \A i \in DOMAIN w : w[i].host \in Allowed
    /\ policy = "same-host" => \A i \in DOMAIN w : w[i].host = w[1].host
    /\ policy = "denied" => Len(w) <= 1
    /\ Len(w) <= MaxRequests /\ Len(w) <= MaxRedirects + 1
    /\ Bodies(w) <= MaxSent

(* The counters of a session that may still send, against what it has sent. *)
Counters(x, policy) ==
    /\ x.host \in Allowed /\ x.count <= MaxRequests /\ x.sent <= MaxSent
    /\ x.hops <= MaxRedirects /\ x.count = x.hops + 1
    /\ policy = "denied" => x.hops = 0
    /\ \A i \in DOMAIN x.wire : x.wire[i].host \in Allowed
    /\ policy = "same-host" => \A i \in DOMAIN x.wire : x.wire[i].host = x.host

OnPath(x, policy) ==
    /\ x.at \in {"new"} \cup Over => x = [NewRequest EXCEPT !.at = x.at, !.by = x.by]
    /\ x.at = "resolving" =>
          Counters(x, policy) /\ Len(x.wire) = x.hops /\ Bodies(x.wire) + x.body <= x.sent
    /\ x.at = "exchanging" =>
          Counters(x, policy) /\ Len(x.wire) = x.hops + 1 /\ Bodies(x.wire) <= x.sent
    /\ x.at \in Decision => Fits(x.wire, policy)

(* The inductive invariant.                                                *)
IInv ==
    /\ req \in [Request -> RequestType]
    /\ \A r \in Request : OnPath(req[r], redirect)

-----------------------------------------------------------------------------
(* Counting bodies.                                                        *)

LEMMA BodiesType ==
    ASSUME NEW w \in Seq(Exchanges)
    PROVE  /\ IsFiniteSet({i \in DOMAIN w : w[i].body = 1}) /\ Bodies(w) \in Nat
           /\ w = <<>> => Bodies(w) = 0
<1>1. DOMAIN w = 1..Len(w) /\ Len(w) \in Nat
  OBVIOUS
<1>2. IsFiniteSet(DOMAIN w)
  BY <1>1, FS_Interval
<1>3. IsFiniteSet({i \in DOMAIN w : w[i].body = 1})
  BY <1>2, FS_Subset
<1>4. w = <<>> => {i \in DOMAIN w : w[i].body = 1} = {}
  OBVIOUS
<1> QED
  BY <1>3, <1>4, FS_CardinalityType, FS_EmptySet DEF Bodies

LEMMA AppendBodies ==
    ASSUME NEW w \in Seq(Exchanges), NEW e \in Exchanges
    PROVE  Bodies(Append(w, e)) = Bodies(w) + e.body
<1> DEFINE B(v) == {i \in DOMAIN v : v[i].body = 1}
<1>1. /\ DOMAIN w = 1..Len(w) /\ Len(w) \in Nat
      /\ DOMAIN Append(w, e) = 1..(Len(w) + 1)
      /\ \A i \in 1..Len(w) : Append(w, e)[i] = w[i]
      /\ Append(w, e)[Len(w) + 1] = e
  BY AppendProperties
<1>2. CASE e.body = 1
  <2>1. B(Append(w, e)) = B(w) \cup {Len(w) + 1} /\ Len(w) + 1 \notin B(w)
    BY <1>1, <1>2
  <2>2. Cardinality(B(w) \cup {Len(w) + 1}) = Cardinality(B(w)) + 1
    BY <2>1, BodiesType, FS_AddElement
  <2> QED
    BY <1>2, <2>1, <2>2 DEF Bodies
<1>3. CASE e.body = 0
  <2>1. B(Append(w, e)) = B(w)
    BY <1>1, <1>3
  <2>2. Bodies(w) \in Nat
    BY BodiesType
  <2>3. Bodies(Append(w, e)) = Bodies(w)
    BY <2>1 DEF Bodies
  <2> QED
    BY <1>3, <2>2, <2>3, SMT
<1> QED
  BY <1>2, <1>3 DEF Exchanges

-----------------------------------------------------------------------------
(* Records of sessions.                                                    *)

LEMMA RequestFields ==
    ASSUME NEW x \in RequestType
    PROVE  /\ x.wire \in Seq(Exchanges) /\ x.body \in 0..1 /\ x.count \in Nat /\ x.sent \in Nat
           /\ x.hops \in Nat /\ x.received \in Nat /\ x.host \in Host \cup {Nowhere}
           /\ Len(x.wire) \in Nat /\ DOMAIN x.wire = 1..Len(x.wire) /\ Bodies(x.wire) \in Nat
<1>1. x.wire \in Seq(Exchanges)
  BY DEF RequestType, Exchanges
<1>2. /\ x.body \in 0..1 /\ x.count \in Nat /\ x.sent \in Nat
      /\ x.hops \in Nat /\ x.received \in Nat /\ x.host \in Host \cup {Nowhere}
  BY DEF RequestType
<1>3. Bodies(x.wire) \in Nat
  BY <1>1, BodiesType
<1> QED
  BY <1>1, <1>2, <1>3

(* Within the counters' limits is within the policy.                       *)
LEMMA CountersFit ==
    ASSUME NEW x \in RequestType, NEW policy, Counters(x, policy),
           Len(x.wire) <= x.hops + 1, Bodies(x.wire) <= x.sent
    PROVE  Fits(x.wire, policy)
<1>1. /\ Len(x.wire) <= MaxRequests /\ Len(x.wire) <= MaxRedirects + 1
      /\ policy = "denied" => Len(x.wire) <= 1
      /\ Bodies(x.wire) <= MaxSent
  BY RequestFields, PolicyAssumption DEF Counters, PolicyAssumption
<1>2. ASSUME policy = "same-host", NEW i \in DOMAIN x.wire
      PROVE  x.wire[i].host = x.wire[1].host
  <2>1. 1 \in DOMAIN x.wire
    BY <1>2, RequestFields
  <2> QED
    BY <1>2, <2>1 DEF Counters
<1> QED
  BY <1>1, <1>2 DEF Fits, Counters

LEMMA EmptyFits ==
    ASSUME NEW policy
    PROVE  Fits(<<>>, policy)
<1>1. Bodies(<<>>) = 0
  <2>1. <<>> \in Seq(Exchanges)
    OBVIOUS
  <2> QED
    BY <2>1, BodiesType
<1> QED
  BY <1>1, PolicyAssumption DEF Fits, PolicyAssumption

(* What is on its way fits.                                                *)
LEMMA OnPathFits ==
    ASSUME NEW x \in RequestType, NEW policy, OnPath(x, policy)
    PROVE  Fits(x.wire, policy)
<1>1. CASE x.at \in {"new"} \cup Over
  <2>1. x.wire = <<>>
    BY <1>1 DEF OnPath, NewRequest
  <2> QED
    BY <2>1, EmptyFits
<1>2. CASE x.at = "resolving" \/ x.at = "exchanging"
  BY <1>2, CountersFit, RequestFields DEF OnPath
<1>3. CASE x.at \in Decision
  BY <1>3 DEF OnPath
<1> QED
  BY <1>1, <1>2, <1>3 DEF RequestType, InSession, Decision

(* One session moves, the others stay.                                     *)
LEMMA Moved ==
    ASSUME IInv, NEW r, NEW y \in RequestType, redirect' = redirect,
           OnPath(y, redirect), req' = [req EXCEPT ![r] = y]
    PROVE  IInv'
BY DEF IInv

LEMMA DecideStep ==
    ASSUME IInv, redirect' = redirect, NEW r \in Request, NEW x \in RequestType,
           NEW decision \in Decision, Fits(x.wire, redirect), Decide(r, x, decision)
    PROVE  IInv'
<1> DEFINE y == [x EXCEPT !.at = decision]
<1>1. y \in RequestType /\ y.at = decision /\ y.wire = x.wire
  BY DEF RequestType, Decision, InSession
<1>2. OnPath(y, redirect)
  BY <1>1 DEF OnPath, Decision, Over
<1>3. req' = [req EXCEPT ![r] = y]
  BY DEF Decide
<1> HIDE DEF y
<1> QED
  BY <1>1, <1>2, <1>3, Moved

(* A session about to go on, its first hop or a redirect.                  *)
Going(x, policy) ==
    /\ x.host \in Allowed /\ x.hops <= MaxRedirects /\ x.count = x.hops
    /\ policy = "denied" => x.hops = 0
    /\ Len(x.wire) = x.hops /\ Bodies(x.wire) <= x.sent
    /\ \A i \in DOMAIN x.wire : x.wire[i].host \in Allowed
    /\ policy = "same-host" => \A i \in DOMAIN x.wire : x.wire[i].host = x.host

LEMMA NextHopStep ==
    ASSUME IInv, redirect' = redirect, NEW r \in Request, NEW x \in RequestType,
           Going(x, redirect), Fits(x.wire, redirect), NextHop(r, x)
    PROVE  IInv'
<1>1. /\ Reserved(x) \in RequestType /\ Reserved(x).wire = x.wire
      /\ Reserved(x).count = x.count + 1 /\ Reserved(x).sent = x.sent + x.body
      /\ Reserved(x).host = x.host /\ Reserved(x).hops = x.hops /\ Reserved(x).body = x.body
  <2>1. x.count + 1 \in Nat /\ x.sent + x.body \in Nat
    BY RequestFields
  <2> QED
    BY <2>1 DEF Reserved, RequestType
<1>2. CASE revoked \/ ~WithinQuota(Reserved(x))
  <2>1. Decide(r, x, "denied") \/ Decide(r, Reserved(x), "denied")
    BY <1>2 DEF NextHop
  <2> QED
    BY <1>1, <2>1, DecideStep DEF Decision
<1>3. CASE ~revoked /\ WithinQuota(Reserved(x))
  <2> DEFINE y == [Reserved(x) EXCEPT !.at = "resolving"]
  <2>1. /\ y \in RequestType /\ y.at = "resolving" /\ y.wire = x.wire /\ y.count = x.count + 1
        /\ y.sent = x.sent + x.body /\ y.host = x.host /\ y.hops = x.hops /\ y.body = x.body
    BY <1>1 DEF RequestType, InSession
  <2>2. y.count <= MaxRequests /\ y.sent <= MaxSent
    BY <1>1, <1>3, <2>1 DEF WithinQuota
  <2>3. req' = [req EXCEPT ![r] = y]
    BY <1>3 DEF NextHop
  <2> HIDE DEF y
  <2>4. Counters(y, redirect)
    BY <2>1, <2>2 DEF Counters, Going
  <2>5. Bodies(y.wire) + y.body <= y.sent
    BY <2>1, RequestFields DEF Going
  <2>6. OnPath(y, redirect)
    BY <2>1, <2>4, <2>5 DEF OnPath, Going, Over, Decision
  <2> QED
    BY <2>1, <2>3, <2>6, Moved
<1> QED
  BY <1>2, <1>3

-----------------------------------------------------------------------------
(* The steps of a session.                                                 *)

LEMMA SubmitStep ==
    ASSUME IInv, NEW r \in Request, NEW p \in Process, NEW h \in Host, NEW b \in 0..1,
           Submit(r, p, h, b)
    PROVE  IInv'
<1> DEFINE x == [req[r] EXCEPT !.by = p, !.host = h, !.body = b]
           y == [x EXCEPT !.slot = TRUE]
<1>1. req[r] \in RequestType /\ req[r].at = "new" /\ redirect' = redirect
  BY DEF IInv, Submit
<1>2. req[r] = [NewRequest EXCEPT !.at = req[r].at, !.by = req[r].by]
  BY <1>1 DEF IInv, OnPath
<1>3. req[r].wire = <<>> /\ req[r].count = 0 /\ req[r].hops = 0 /\ req[r].sent = 0
  BY <1>2 DEF NewRequest
<1>4. /\ x \in RequestType /\ x.wire = <<>>
      /\ y \in RequestType /\ y.wire = <<>> /\ y.count = 0 /\ y.hops = 0 /\ y.sent = 0
      /\ y.host = h
  BY <1>1, <1>3 DEF RequestType
<1>5. \/ Decide(r, x, "denied") \/ Decide(r, y, "denied")
      \/ h \in Allowed /\ NextHop(r, y)
  BY DEF Submit
<1>6. Bodies(<<>>) = 0
  <2>1. <<>> \in Seq(Exchanges)
    OBVIOUS
  <2> QED
    BY <2>1, BodiesType
<1> HIDE DEF x, y
<1>7. CASE Decide(r, x, "denied")
  BY <1>1, <1>4, <1>7, EmptyFits, DecideStep DEF Decision
<1>8. CASE Decide(r, y, "denied")
  BY <1>1, <1>4, <1>8, EmptyFits, DecideStep DEF Decision
<1>9. CASE h \in Allowed /\ NextHop(r, y)
  <2>1. Going(y, redirect)
    BY <1>4, <1>6, <1>9, PolicyAssumption DEF Going, PolicyAssumption
  <2> QED
    BY <1>1, <1>4, <1>9, <2>1, EmptyFits, NextHopStep
<1> QED
  BY <1>5, <1>7, <1>8, <1>9

LEMMA ResolveStep ==
    ASSUME IInv, NEW r \in Request, Resolve(r)
    PROVE  IInv'
<1> DEFINE x == req[r]
           y == [x EXCEPT !.at = "exchanging", !.wire = Append(@, Exchange(r))]
<1>1. /\ x \in RequestType /\ x.at = "resolving" /\ redirect' = redirect
      /\ OnPath(x, redirect)
  BY DEF IInv, Resolve
<1>2. /\ Counters(x, redirect) /\ Len(x.wire) = x.hops
      /\ Bodies(x.wire) + x.body <= x.sent
  BY <1>1 DEF OnPath
<1>3. CASE revoked
  <2>1. Decide(r, x, "denied")
    BY <1>3 DEF Resolve
  <2> HIDE DEF x
  <2> QED
    BY <1>1, <2>1, OnPathFits, DecideStep DEF Decision
<1>4. CASE ~revoked
  <2>1. Exchange(r) \in Exchanges /\ Exchange(r).host = x.host /\ Exchange(r).body = x.body
    BY <1>1, <1>2, RequestFields, PolicyAssumption
       DEF Exchange, Exchanges, Counters, PolicyAssumption
  <2>2. x.wire \in Seq(Exchanges) /\ Append(x.wire, Exchange(r)) \in Seq(Exchanges)
    BY <1>1, <2>1, RequestFields
  <2>3. y \in RequestType
    BY <1>1, <2>2 DEF RequestType, Exchanges, InSession
  <2>4. /\ y.at = "exchanging" /\ y.wire = Append(x.wire, Exchange(r)) /\ y.count = x.count
        /\ y.sent = x.sent /\ y.host = x.host /\ y.hops = x.hops
    BY <1>1 DEF RequestType
  <2>5. req' = [req EXCEPT ![r] = y]
    BY <1>1, <1>4 DEF Resolve, IInv
  <2> HIDE DEF x, y
  <2>6. /\ Len(y.wire) = Len(x.wire) + 1 /\ DOMAIN y.wire = 1..(Len(x.wire) + 1)
        /\ \A i \in DOMAIN x.wire : y.wire[i] = x.wire[i]
        /\ y.wire[Len(x.wire) + 1] = Exchange(r) /\ DOMAIN x.wire = 1..Len(x.wire)
    BY <2>1, <2>2, <2>4, AppendProperties
  <2>7. ASSUME NEW i \in DOMAIN y.wire
        PROVE  y.wire[i].host \in Allowed /\ (redirect = "same-host" => y.wire[i].host = y.host)
    <3>1. i \in DOMAIN x.wire \/ i = Len(x.wire) + 1
      BY <1>1, <2>6, RequestFields
    <3> QED
      BY <1>2, <2>1, <2>4, <2>6, <3>1 DEF Counters
  <2>8. Counters(y, redirect)
    BY <1>2, <2>4, <2>7 DEF Counters
  <2>9. Bodies(y.wire) <= y.sent
    BY <1>2, <2>1, <2>2, <2>4, AppendBodies
  <2>10. OnPath(y, redirect)
    BY <1>2, <2>4, <2>6, <2>8, <2>9 DEF OnPath, Over, Decision
  <2> QED
    BY <1>1, <2>3, <2>5, <2>10, Moved
<1> QED
  BY <1>3, <1>4

(* A response, counted.                                                    *)
LEMMA ReceivedFields ==
    ASSUME IInv, NEW r \in Request, NEW size \in 0..1
    PROVE  /\ Received(r, size) \in RequestType
           /\ \A k \in {"at", "by", "host", "body", "count", "sent", "hops", "slot", "wire"} :
                 Received(r, size)[k] = req[r][k]
<1>1. req[r] \in RequestType /\ req[r].received + size \in Nat
  BY RequestFields DEF IInv
<1> QED
  BY <1>1 DEF Received, RequestType

LEMMA ExchangeStep ==
    ASSUME IInv, NEW r \in Request, NEW size \in 0..1,
           \/ HopFails(r) \/ Respond(r, size)
           \/ \E h \in Host, keep \in BOOLEAN : Redirected(r, size, h, keep)
    PROVE  IInv'
<1>1. req[r] \in RequestType /\ OnPath(req[r], redirect) /\ Fits(req[r].wire, redirect)
  BY OnPathFits DEF IInv
<1>2. CASE HopFails(r)
  <2>1. Decide(r, req[r], "denied") /\ redirect' = redirect
    BY <1>2 DEF HopFails
  <2> QED
    BY <1>1, <2>1, DecideStep DEF Decision
<1>3. CASE Respond(r, size)
  <2>1. /\ Decide(r, Received(r, size), "allowed") \/ Decide(r, Received(r, size), "denied")
        /\ redirect' = redirect
    BY <1>3 DEF Respond
  <2>2. Received(r, size) \in RequestType /\ Received(r, size).wire = req[r].wire
    BY ReceivedFields
  <2> QED
    BY <1>1, <2>1, <2>2, DecideStep DEF Decision
<1>4. ASSUME NEW h \in Host, NEW keep \in BOOLEAN, Redirected(r, size, h, keep)
      PROVE  IInv'
  <2> DEFINE z == Received(r, size)
             x == [z EXCEPT !.hops = @ + 1]
             next == [x EXCEPT !.host = h, !.body = IF keep THEN @ ELSE 0]
  <2>1. /\ z \in RequestType /\ z.wire = req[r].wire /\ z.hops = req[r].hops
        /\ z.count = req[r].count /\ z.sent = req[r].sent /\ z.host = req[r].host
        /\ req[r].at = "exchanging" /\ redirect' = redirect
    BY <1>4, ReceivedFields DEF Redirected
  <2>2. z.hops + 1 \in Nat /\ z.body \in 0..1
    BY <2>1, RequestFields
  <2>3. x \in RequestType /\ x.wire = z.wire /\ x.hops = z.hops + 1 /\ x.host = z.host
        /\ x.count = z.count /\ x.sent = z.sent
    BY <2>1, <2>2 DEF RequestType
  <2>4. /\ next \in RequestType /\ next.wire = z.wire /\ next.hops = z.hops + 1
        /\ next.host = h /\ next.count = z.count /\ next.sent = z.sent
    <3>1. \A b \in 0..1 :
             LET n == [x EXCEPT !.host = h, !.body = b]
             IN  /\ n \in RequestType /\ n.wire = x.wire /\ n.hops = x.hops
                 /\ n.host = h /\ n.count = x.count /\ n.sent = x.sent
      <4> HIDE DEF x
      <4> QED
        BY <2>3 DEF RequestType
    <3>2. (IF keep THEN x.body ELSE 0) \in 0..1
      <4> HIDE DEF x
      <4>1. x.body \in 0..1
        BY <2>3, RequestFields
      <4> QED
        BY <4>1
    <3> QED
      BY <2>3, <3>1, <3>2
  <2>5. \/ Decide(r, x, "denied")
        \/ MayFollow(x, h) /\ NextHop(r, next)
    BY <1>4 DEF Redirected
  <2> HIDE DEF z, x, next
  <2>6. CASE Decide(r, x, "denied")
    BY <1>1, <2>1, <2>3, <2>6, DecideStep DEF Decision
  <2>7. CASE MayFollow(x, h) /\ NextHop(r, next)
    <3>1. /\ Counters(req[r], redirect) /\ Len(req[r].wire) = req[r].hops + 1
          /\ Bodies(req[r].wire) <= req[r].sent
      BY <1>1, <2>1 DEF OnPath
    <3>2. Going(next, redirect)
      BY <2>1, <2>3, <2>4, <2>7, <3>1 DEF Going, Counters, MayFollow
    <3> QED
      BY <1>1, <2>1, <2>4, <2>7, <3>2, NextHopStep
  <2> QED
    BY <2>5, <2>6, <2>7
<1> QED
  BY <1>2, <1>3, <1>4

LEMMA NewType == NewRequest \in RequestType
<1>1. <<>> \in Seq([host : Host, body : 0..1])
  OBVIOUS
<1> QED
  BY <1>1 DEF NewRequest, RequestType

(* A session that is closed has sent nothing any more.                     *)
LEMMA ClosedStep ==
    ASSUME NEW x \in RequestType, NEW at \in Over, NEW policy
    PROVE  LET y == [NewRequest EXCEPT !.at = at, !.by = x.by]
           IN  y \in RequestType /\ OnPath(y, policy)
<1> DEFINE y == [NewRequest EXCEPT !.at = at, !.by = x.by]
<1>1. x.by \in Process \cup {Nowhere}
  BY DEF RequestType
<1>2. y \in RequestType
  BY <1>1, NewType DEF RequestType
<1>3. y.at = at /\ y.by = x.by
  BY DEF NewRequest
<1>4. OnPath(y, policy)
  BY <1>3 DEF OnPath, Over, Decision
<1> QED
  BY <1>2, <1>4

LEMMA SinkStep ==
    ASSUME IInv, NEW p \in Process, SinkNext(p)
    PROVE  IInv'
<1>1. PICK at \in Over : Settle(p, at) /\ redirect' = redirect
  BY DEF SinkNext, AppendDone, AppendFails, AppendRejected, Over
<1> DEFINE r == Head(chain[p])[1]
<1>2. req' = [req EXCEPT ![r] = Closed(r, at)]
  BY <1>1 DEF Settle
<1> HIDE DEF r
<1>3. CASE r \in Request
  <2>1. req[r] \in RequestType
    BY <1>3 DEF IInv
  <2>2. Closed(r, at) \in RequestType /\ OnPath(Closed(r, at), redirect)
    BY <2>1, ClosedStep DEF Closed
  <2> QED
    BY <1>1, <1>2, <2>2, Moved
<1>4. CASE r \notin Request
  BY <1>1, <1>2, <1>4 DEF IInv
<1> QED
  BY <1>3, <1>4

LEMMA CrashStep ==
    ASSUME IInv, NEW p \in Process, NEW due \in BOOLEAN, Crash(p, due)
    PROVE  IInv'
<1>1. redirect' = redirect
  BY DEF Crash
<1>2. ASSUME NEW r \in Request
      PROVE  Closed(r, "lost") \in RequestType /\ OnPath(Closed(r, "lost"), redirect)
  <2>1. req[r] \in RequestType
    BY DEF IInv
  <2> QED
    BY <2>1, ClosedStep DEF Closed, Over
<1>3. \A r \in Request : req'[r] = req[r] \/ req'[r] = Closed(r, "lost")
  BY DEF Crash
<1>4. req' = [r \in Request |-> req'[r]]
  BY DEF Crash
<1>5. \A r \in Request : req'[r] \in RequestType /\ OnPath(req'[r], redirect)
  BY <1>2, <1>3 DEF IInv
<1> QED
  BY <1>1, <1>4, <1>5 DEF IInv

LEMMA Inductive ==
    /\ Init => IInv
    /\ IInv /\ [Next]_vars => IInv'
<1>1. ASSUME Init PROVE IInv
  <2>1. NewRequest \in RequestType
    BY NewType
  <2>2. NewRequest = [NewRequest EXCEPT !.at = NewRequest.at, !.by = NewRequest.by]
    BY DEF NewRequest
  <2>3. NewRequest.at = "new"
    BY DEF NewRequest
  <2>4. OnPath(NewRequest, redirect)
    BY <2>2, <2>3 DEF OnPath, Over, Decision
  <2> QED
    BY <1>1, <2>1, <2>4 DEF Init, IInv
<1>2. ASSUME IInv, [Next]_vars PROVE IInv'
  <2>1. ASSUME UNCHANGED <<req, redirect>> PROVE IInv'
    BY <1>2, <2>1 DEF IInv
  <2>2. ASSUME NEW r \in Request, RequestNext(r) PROVE IInv'
    BY <1>2, <2>2, ResolveStep, ExchangeStep DEF RequestNext
  <2>3. ASSUME RotationNext \/ Revoke \/ UNCHANGED vars PROVE IInv'
    BY <2>1, <2>3 DEF RotationNext, ReadLog, Archive, ResetLog, Revoke, vars
  <2> QED
    BY <1>2, <2>2, <2>3, SubmitStep, SinkStep, CrashStep DEF Next
<1> QED
  BY <1>1, <1>2

LEMMA Invariance == Spec => []IInv
BY Inductive, PTL DEF Spec

(* What a session sends out, however it is redirected, is within its       *)
(* policy: egress-broker.ts:request, with each exchange checked alone.     *)
THEOREM WireIsWithinPolicy == Spec => []WireWithinPolicy
<1>1. IInv => WireWithinPolicy
  BY OnPathFits DEF IInv, WireWithinPolicy, Fits, Bodies
<1> QED
  BY <1>1, Invariance, PTL

-----------------------------------------------------------------------------
(* After a revocation.                                                     *)

Quiet == \A r \in Request : /\ Len(req'[r].wire) <= Len(req[r].wire)
                            /\ req'[r].at = "allowed" => req[r].at = "allowed"

LEMMA SameIsQuiet ==
    ASSUME IInv, NEW r \in Request, NEW y, Len(y.wire) <= Len(req[r].wire), y.at # "allowed",
           req' = [req EXCEPT ![r] = y]
    PROVE  Quiet
<1>1. \A s \in Request : Len(req[s].wire) \in Nat
  BY RequestFields DEF IInv
<1> QED
  BY <1>1 DEF IInv, Quiet

LEMMA DeniedIsQuiet ==
    ASSUME IInv, NEW r \in Request, NEW x \in RequestType, x.wire = req[r].wire,
           Decide(r, x, "denied")
    PROVE  Quiet
<1> DEFINE y == [x EXCEPT !.at = "denied"]
<1>1. y.wire = req[r].wire /\ y.at = "denied"
  BY DEF RequestType
<1>2. req' = [req EXCEPT ![r] = y] /\ Len(req[r].wire) \in Nat
  BY RequestFields DEF Decide, IInv
<1>3. Len(y.wire) <= Len(req[r].wire) /\ y.at # "allowed"
  BY <1>1, <1>2
<1> HIDE DEF y
<1> QED
  BY <1>2, <1>3, SameIsQuiet

LEMMA RevokedStep ==
    ASSUME IInv, revoked, [Next]_vars
    PROVE  Quiet
<1>1. \A r \in Request : req[r] \in RequestType /\ Len(req[r].wire) \in Nat
  BY RequestFields DEF IInv
<1>2. ASSUME req' = req PROVE Quiet
  BY <1>1, <1>2 DEF Quiet
<1>3. ASSUME NEW r \in Request, NEW p \in Process, NEW h \in Host, NEW b \in 0..1,
             Submit(r, p, h, b)
      PROVE  Quiet
  <2> DEFINE x == [req[r] EXCEPT !.by = p, !.host = h, !.body = b]
  <2>1. x \in RequestType /\ x.wire = req[r].wire
    BY <1>1 DEF RequestType
  <2>2. Decide(r, x, "denied")
    BY <1>3 DEF Submit
  <2> HIDE DEF x
  <2> QED
    BY <2>1, <2>2, DeniedIsQuiet
<1>4. ASSUME NEW r \in Request, Resolve(r) \/ HopFails(r)
      PROVE  Quiet
  BY <1>1, <1>4, DeniedIsQuiet DEF Resolve, HopFails
<1>5. ASSUME NEW r \in Request, NEW size \in 0..1,
             Respond(r, size) \/ \E h \in Host, keep \in BOOLEAN : Redirected(r, size, h, keep)
      PROVE  Quiet
  <2> DEFINE z == Received(r, size)
             x == [z EXCEPT !.hops = @ + 1]
  <2>1. z \in RequestType /\ z.wire = req[r].wire
    BY ReceivedFields
  <2>2. z.hops + 1 \in Nat
    BY <2>1, RequestFields
  <2>3. x \in RequestType /\ x.wire = z.wire
    BY <2>1, <2>2 DEF RequestType
  <2>4. Decide(r, z, "denied") \/ Decide(r, x, "denied")
    BY <1>5 DEF Respond, Redirected
  <2> HIDE DEF z, x
  <2> QED
    BY <2>1, <2>3, <2>4, DeniedIsQuiet
<1>6. ASSUME NEW p \in Process, SinkNext(p)
      PROVE  Quiet
  <2>1. PICK at \in Over : Settle(p, at)
    BY <1>6 DEF SinkNext, AppendDone, AppendFails, AppendRejected, Over
  <2> DEFINE r == Head(chain[p])[1]
  <2>2. req' = [req EXCEPT ![r] = Closed(r, at)]
    BY <2>1 DEF Settle
  <2>3. Closed(r, at).wire = <<>> /\ Closed(r, at).at = at
    BY DEF Closed, NewRequest
  <2> HIDE DEF r
  <2>4. Len(Closed(r, at).wire) = 0 /\ Closed(r, at).at # "allowed"
    BY <2>1, <2>3 DEF Over
  <2>5. CASE r \in Request
    <3>1. Len(Closed(r, at).wire) <= Len(req[r].wire)
      BY <1>1, <2>4, <2>5
    <3> QED
      BY <2>2, <2>4, <2>5, <3>1, SameIsQuiet
  <2>6. CASE r \notin Request
    BY <1>2, <2>2, <2>6 DEF IInv
  <2> QED
    BY <2>5, <2>6
<1>7. ASSUME NEW p \in Process, NEW due \in BOOLEAN, Crash(p, due)
      PROVE  Quiet
  <2>1. \A r \in Request : req'[r] = req[r] \/ req'[r] = Closed(r, "lost")
    BY <1>7 DEF Crash
  <2>2. \A r \in Request : Closed(r, "lost").wire = <<>> /\ Closed(r, "lost").at = "lost"
    BY DEF Closed, NewRequest
  <2>3. Len(<<>>) = 0
    OBVIOUS
  <2> QED
    BY <1>1, <2>1, <2>2, <2>3 DEF Quiet
<1>8. ASSUME RotationNext \/ Revoke \/ UNCHANGED vars
      PROVE  Quiet
  <2>1. req' = req
    BY <1>8 DEF RotationNext, ReadLog, Archive, ResetLog, Revoke, vars
  <2> QED
    BY <1>2, <2>1
<1> QED
  BY <1>3, <1>4, <1>5, <1>6, <1>7, <1>8 DEF Next, RequestNext

(* Once the policy was revoked no exchange begins and no response is let    *)
(* through that was not already being audited, in any session at any await: *)
(* egress-broker.ts:assertPolicyCurrent.                                          *)
THEOREM RevocationQuiets == Spec => QuietWhenRevoked
<1>1. IInv /\ [Next]_vars =>
         [revoked => \A r \in Request : /\ Len(req'[r].wire) <= Len(req[r].wire)
                                        /\ req'[r].at = "allowed" => req[r].at = "allowed"]_vars
  BY RevokedStep DEF Quiet
<1> QED
  BY <1>1, Invariance, PTL DEF Spec, QuietWhenRevoked
-----------------------------------------------------------------------------
(* The pool and the appends.  Each request holds a slot of its process from *)
(* its admission until its append settles, and each decided request has one *)
(* append in the chain of its process: that is why a settled append gives   *)
(* back a slot once, and one that is held.                                  *)

Holders(p) == {r \in Request : req[r].slot /\ req[r].by = p}
Line == Record \cup {Torn, Malformed}

SinkType ==
    /\ chain \in [Process -> Seq(Record)] /\ broken \in [Process -> BOOLEAN]
    /\ live \in Seq(Line)
    /\ archive \subseteq Record /\ retired \subseteq Record
    /\ rotation \in [at : {"none", "read", "archive", "reset"}, kept : SUBSET Record]
    /\ env \in Environment /\ redirect \in RedirectPolicy /\ revoked \in BOOLEAN

Pool ==
    /\ active \in [Process -> 0..Slots]
    /\ \A p \in Process : IsFiniteSet(Holders(p)) /\ active[p] = Cardinality(Holders(p))

Chained ==
    \A p \in Process : \A i \in DOMAIN chain[p] :
        /\ req[chain[p][i][1]].by = p /\ req[chain[p][i][1]].at = chain[p][i][2]
        /\ \A j \in DOMAIN chain[p] : chain[p][j][1] = chain[p][i][1] => j = i

Sessions ==
    \A r \in Request : /\ req[r].at \in InSession => req[r].by \in Process
                       /\ req[r].slot => req[r].at \in InSession

PoolInv == IInv /\ SinkType /\ Pool /\ Chained /\ Sessions

(* A session goes to y; if that is a decision, it has an append.           *)
Progress(r, y) ==
    /\ req' = [req EXCEPT ![r] = y]
    /\ \/ y.at \in {"resolving", "exchanging"} /\ chain' = chain
       \/ y.at \in Decision /\ chain' = [chain EXCEPT ![y.by] = Append(@, <<r, y.at>>)]

LEMMA DecideProgress ==
    ASSUME NEW r, NEW x \in RequestType, NEW decision \in Decision, Decide(r, x, decision)
    PROVE  \E y \in RequestType : Progress(r, y) /\ y.by = x.by /\ y.slot = x.slot
<1> DEFINE y == [x EXCEPT !.at = decision]
<1>1. y \in RequestType /\ y.at = decision /\ y.by = x.by /\ y.slot = x.slot
  BY DEF RequestType, Decision, InSession
<1>2. req' = [req EXCEPT ![r] = y]
  BY DEF Decide
<1>3. chain' = [chain EXCEPT ![y.by] = Append(@, <<r, y.at>>)]
  BY <1>1 DEF Decide
<1> HIDE DEF y
<1> QED
  BY <1>1, <1>2, <1>3 DEF Progress

LEMMA NextHopProgress ==
    ASSUME NEW r, NEW x \in RequestType, NextHop(r, x)
    PROVE  \E y \in RequestType : Progress(r, y) /\ y.by = x.by /\ y.slot = x.slot
<1>1. /\ Reserved(x) \in RequestType /\ Reserved(x).by = x.by /\ Reserved(x).slot = x.slot
  <2>1. x.count + 1 \in Nat /\ x.sent + x.body \in Nat
    BY RequestFields
  <2> QED
    BY <2>1 DEF Reserved, RequestType
<1>2. CASE revoked \/ ~WithinQuota(Reserved(x))
  <2>1. Decide(r, x, "denied") \/ Decide(r, Reserved(x), "denied")
    BY <1>2 DEF NextHop
  <2> QED
    BY <1>1, <2>1, DecideProgress DEF Decision
<1>3. CASE ~revoked /\ WithinQuota(Reserved(x))
  <2> DEFINE y == [Reserved(x) EXCEPT !.at = "resolving"]
  <2>1. y \in RequestType /\ y.at = "resolving" /\ y.by = x.by /\ y.slot = x.slot
    BY <1>1 DEF RequestType, InSession
  <2>2. req' = [req EXCEPT ![r] = y] /\ chain' = chain
    BY <1>3 DEF NextHop
  <2> HIDE DEF y
  <2> QED
    BY <2>1, <2>2 DEF Progress
<1> QED
  BY <1>2, <1>3

(* Where a request stands, its appends follow.                             *)
LEMMA ChainedStep ==
    ASSUME PoolInv, NEW r \in Request, NEW y \in RequestType, y.by \in Process,
           req[r].at \notin Decision, Progress(r, y)
    PROVE  /\ chain' \in [Process -> Seq(Record)] /\ Chained' /\ Sessions'
           /\ \A p \in Process : p # y.by => chain'[p] = chain[p]
<1>1. /\ req \in [Request -> RequestType] /\ chain \in [Process -> Seq(Record)]
      /\ req'[r] = y /\ \A s \in Request \ {r} : req'[s] = req[s]
  BY DEF PoolInv, IInv, SinkType, Progress
<1>2. y.at \in {"resolving", "exchanging", "allowed", "denied"}
  BY DEF Progress, Decision
<1>3. Sessions'
  BY <1>1, <1>2 DEF PoolInv, Sessions, InSession
<1>4. ASSUME NEW p \in Process, NEW i \in DOMAIN chain[p]
      PROVE  /\ chain[p][i] \in Record /\ chain[p][i][1] \in Request \ {r}
             /\ chain[p][i][2] \in Decision
  <2>1. chain[p] \in Seq(Record)
    BY <1>1
  <2>2. chain[p][i] \in Record
    BY <2>1
  <2>3. chain[p][i][1] \in Request /\ chain[p][i][2] \in Decision
    BY <2>2 DEF Record
  <2>4. req[chain[p][i][1]].at = chain[p][i][2]
    BY DEF PoolInv, Chained
  <2> QED
    BY <2>2, <2>3, <2>4
<1>5. CASE chain' = chain
  BY <1>1, <1>3, <1>4, <1>5 DEF PoolInv, Chained
<1>6. CASE /\ y.at \in Decision
           /\ chain' = [chain EXCEPT ![y.by] = Append(@, <<r, y.at>>)]
  <2> DEFINE q == y.by
             old == chain[q]
             new == Append(old, <<r, y.at>>)
  <2>1. old \in Seq(Record) /\ <<r, y.at>> \in Record
    BY <1>1, <1>6 DEF Record
  <2>2. /\ new \in Seq(Record) /\ DOMAIN new = 1..(Len(old) + 1) /\ Len(old) \in Nat
        /\ DOMAIN old = 1..Len(old)
        /\ \A i \in DOMAIN old : new[i] = old[i]
        /\ new[Len(old) + 1] = <<r, y.at>>
    BY <2>1, AppendProperties
  <2>3. chain' = [chain EXCEPT ![q] = new]
    BY <1>6
  <2>4. q \in Process
    OBVIOUS
  <2> HIDE DEF q, new, old
  <2>5. /\ chain' \in [Process -> Seq(Record)] /\ chain'[q] = new
        /\ \A p \in Process \ {q} : chain'[p] = chain[p]
    BY <1>1, <2>2, <2>3, <2>4
  <2>6. ASSUME NEW p \in Process, NEW i \in DOMAIN chain'[p]
        PROVE  /\ req'[chain'[p][i][1]].by = p /\ req'[chain'[p][i][1]].at = chain'[p][i][2]
               /\ \A j \in DOMAIN chain'[p] : chain'[p][j][1] = chain'[p][i][1] => j = i
    <3>1. CASE p # q
      BY <1>1, <1>4, <2>5, <3>1 DEF PoolInv, Chained
    <3>2. CASE p = q
      <4>1. new[Len(old) + 1][1] = r /\ new[Len(old) + 1][2] = y.at
        BY <2>2
      <4>2. \A j \in DOMAIN old : new[j] = chain[q][j] /\ new[j][1] \in Request \ {r}
        BY <1>4, <2>2, <2>4 DEF old
      <4>3. \A j \in DOMAIN new : j \in DOMAIN old \/ j = Len(old) + 1
        BY <2>2
      <4>4. CASE i \in DOMAIN old
        <5>1. /\ req'[new[i][1]] = req[chain[q][i][1]]
              /\ req[chain[q][i][1]].by = q /\ req[chain[q][i][1]].at = new[i][2]
          BY <1>1, <2>4, <4>2, <4>4 DEF PoolInv, Chained, old
        <5>2. \A j \in DOMAIN old : new[j][1] = new[i][1] => j = i
          BY <2>4, <4>2, <4>4 DEF PoolInv, Chained, old
        <5>3. new[Len(old) + 1][1] # new[i][1]
          BY <4>1, <4>2, <4>4
        <5> QED
          BY <2>5, <3>2, <4>3, <5>1, <5>2, <5>3
      <4>5. CASE i = Len(old) + 1
        <5>1. req'[new[i][1]] = y /\ y.by = q /\ new[i][2] = y.at
          BY <1>1, <4>1, <4>5 DEF q
        <5>2. \A j \in DOMAIN old : new[j][1] # new[i][1]
          BY <4>1, <4>2, <4>5
        <5> QED
          BY <2>5, <3>2, <4>3, <4>5, <5>1, <5>2
      <4> QED
        BY <2>5, <3>2, <4>3, <4>4, <4>5
    <3> QED
      BY <3>1, <3>2
  <2>7. Chained'
    BY <2>6 DEF Chained
  <2> QED
    BY <1>3, <2>5, <2>7 DEF q
<1> QED
  BY <1>5, <1>6 DEF Progress

(* The slots: kept, or one taken.                                          *)
LEMMA SlotKept ==
    ASSUME PoolInv, NEW r \in Request, NEW y, req' = [req EXCEPT ![r] = y],
           active' = active, y.slot = req[r].slot, y.slot => y.by = req[r].by,
           req[r].slot \in BOOLEAN
    PROVE  Pool'
<1>1. \A s \in Request : req'[s] = IF s = r THEN y ELSE req[s]
  BY DEF PoolInv, IInv
<1>2. \A p \in Process : Holders(p)' = Holders(p)
  BY <1>1 DEF Holders
<1> QED
  BY <1>2 DEF PoolInv, Pool

LEMMA SlotTaken ==
    ASSUME PoolInv, NEW r \in Request, NEW y, NEW p \in Process,
           req' = [req EXCEPT ![r] = y], active[p] < Slots,
           active' = [active EXCEPT ![p] = @ + 1], req[r].slot = FALSE, y.slot = TRUE, y.by = p
    PROVE  Pool'
<1>1. \A s \in Request : req'[s] = IF s = r THEN y ELSE req[s]
  BY DEF PoolInv, IInv
<1>2. Holders(p)' = Holders(p) \cup {r} /\ r \notin Holders(p)
  BY <1>1 DEF Holders
<1>3. \A q \in Process \ {p} : Holders(q)' = Holders(q)
  BY <1>1 DEF Holders
<1>4. IsFiniteSet(Holders(p)) /\ active[p] = Cardinality(Holders(p))
  BY DEF PoolInv, Pool
<1>5. IsFiniteSet(Holders(p)') /\ Cardinality(Holders(p)') = active[p] + 1
  BY <1>2, <1>4, FS_AddElement
<1>6. /\ active' \in [Process -> 0..Slots] /\ active'[p] = active[p] + 1
      /\ \A q \in Process \ {p} : active'[q] = active[q]
  BY PolicyAssumption DEF PoolInv, Pool, PolicyAssumption
<1>7. ASSUME NEW q \in Process
      PROVE  IsFiniteSet(Holders(q)') /\ active'[q] = Cardinality(Holders(q)')
  <2>1. CASE q = p
    BY <1>5, <1>6, <2>1
  <2>2. CASE q # p
    BY <1>3, <1>6, <2>2 DEF PoolInv, Pool
  <2> QED
    BY <2>1, <2>2
<1> QED
  BY <1>6, <1>7 DEF Pool

(* The append at the head has settled.                                     *)
LEMMA HeadOfChain ==
    ASSUME PoolInv, NEW p \in Process, chain[p] # <<>>
    PROVE  /\ Head(chain[p]) \in Record /\ Head(chain[p]) = chain[p][1]
           /\ Head(chain[p])[1] \in Request /\ Head(chain[p])[2] \in Decision
           /\ req[Head(chain[p])[1]].by = p
           /\ req[Head(chain[p])[1]].at = Head(chain[p])[2]
<1>1. chain[p] \in Seq(Record)
  BY DEF PoolInv, SinkType
<1>2. Head(chain[p]) \in Record /\ Head(chain[p]) = chain[p][1] /\ 1 \in DOMAIN chain[p]
  BY <1>1
<1>3. Head(chain[p])[1] \in Request /\ Head(chain[p])[2] \in Decision
  BY <1>2 DEF Record
<1> QED
  BY <1>2, <1>3 DEF PoolInv, Chained

LEMMA ClosedFields ==
    ASSUME NEW r, NEW at
    PROVE  Closed(r, at).at = at /\ Closed(r, at).by = req[r].by /\ Closed(r, at).slot = FALSE
BY DEF Closed, NewRequest

LEMMA SettleStep ==
    ASSUME PoolInv, NEW p \in Process, chain[p] # <<>>, NEW at \in Over, Settle(p, at)
    PROVE  chain' \in [Process -> Seq(Record)] /\ Pool' /\ Chained' /\ Sessions'
<1> DEFINE r == Head(chain[p])[1]
           old == chain[p]
           new == Tail(old)
<1>1. /\ r \in Request /\ req[r].by = p /\ req[r].at \in Decision /\ r = old[1][1]
  BY HeadOfChain
<1>2. old \in Seq(Record)
  BY DEF PoolInv, SinkType
<1>3. /\ new \in Seq(Record) /\ DOMAIN new = 1..(Len(old) - 1) /\ Len(old) \in Nat
      /\ DOMAIN old = 1..Len(old) /\ 1 \in DOMAIN old
      /\ \A i \in DOMAIN new : new[i] = old[i + 1]
  BY <1>2
<1>4. /\ req' = [req EXCEPT ![r] = Closed(r, at)]
      /\ active' = [active EXCEPT ![p] = IF req[r].slot THEN active[p] - 1 ELSE active[p]]
      /\ chain' = [chain EXCEPT ![p] = new]
  BY DEF Settle
<1> HIDE DEF r, new, old
<1>5. /\ req \in [Request -> RequestType] /\ chain \in [Process -> Seq(Record)]
      /\ active \in [Process -> 0..Slots]
  BY DEF PoolInv, IInv, SinkType, Pool
<1>6. /\ req'[r] = Closed(r, at) /\ \A s \in Request \ {r} : req'[s] = req[s]
      /\ chain' \in [Process -> Seq(Record)] /\ chain'[p] = new
      /\ \A q \in Process \ {p} : chain'[q] = chain[q]
  BY <1>1, <1>3, <1>4, <1>5
<1> DEFINE y == Closed(r, at)
<1>12. y.at = at /\ y.by = p /\ y.slot = FALSE
  BY <1>1, ClosedFields
<1>13. req'[r] = y
  BY <1>6
<1> HIDE DEF y
<1>7. Sessions'
  BY <1>6, <1>12, <1>13 DEF PoolInv, Sessions, InSession, Over
<1>8. ASSUME NEW q \in Process, NEW i \in DOMAIN chain'[q]
      PROVE  /\ req'[chain'[q][i][1]].by = q /\ req'[chain'[q][i][1]].at = chain'[q][i][2]
             /\ \A j \in DOMAIN chain'[q] : chain'[q][j][1] = chain'[q][i][1] => j = i
  <2>1. CASE q # p
    <3>1. i \in DOMAIN chain[q] /\ chain'[q] = chain[q]
      BY <1>6, <2>1
    <3>2. chain[q] \in Seq(Record)
      BY <1>5
    <3>3. chain[q][i] \in Record
      BY <3>1, <3>2
    <3>4. chain[q][i][1] \in Request /\ req[chain[q][i][1]].by = q
      BY <3>1, <3>3 DEF PoolInv, Chained, Record
    <3> QED
      BY <1>1, <1>6, <2>1, <3>1, <3>4 DEF PoolInv, Chained
  <2>2. CASE q = p
    <3>1. i \in DOMAIN new /\ i + 1 \in DOMAIN old /\ i + 1 # 1 /\ i \in Nat
      BY <1>3, <1>6, <2>2
    <3>2. old[i + 1] \in Record
      BY <1>2, <3>1
    <3>3. old[i + 1][1] \in Request
      BY <3>2 DEF Record
    <3>4. /\ req[old[i + 1][1]].by = p /\ req[old[i + 1][1]].at = old[i + 1][2]
          /\ \A j \in DOMAIN old : old[j][1] = old[i + 1][1] => j = i + 1
      BY <3>1 DEF PoolInv, Chained, old
    <3>5. old[i + 1][1] # r
      BY <1>1, <1>3, <3>1, <3>4
    <3>6. \A j \in DOMAIN new : j + 1 \in DOMAIN old /\ new[j] = old[j + 1] /\ j \in Nat
      BY <1>3
    <3>7. \A j \in DOMAIN new : new[j][1] = new[i][1] => j + 1 = i + 1
      BY <3>1, <3>4, <3>6
    <3>8. \A j \in DOMAIN new : new[j][1] = new[i][1] => j = i
      BY <3>1, <3>6, <3>7
    <3>9. new[i] = old[i + 1]
      BY <3>1, <3>6
    <3> QED
      BY <1>6, <2>2, <3>3, <3>4, <3>5, <3>8, <3>9
  <2> QED
    BY <2>1, <2>2
<1>9. Chained'
  BY <1>8 DEF Chained
<1>10. Pool'
  <2>1. CASE req[r].slot
    <3>1. Holders(p)' = Holders(p) \ {r} /\ r \in Holders(p)
      BY <1>1, <1>6, <1>12, <1>13, <2>1 DEF Holders
    <3>2. \A q \in Process \ {p} : Holders(q)' = Holders(q)
      BY <1>1, <1>6, <1>12, <1>13 DEF Holders
    <3>3. IsFiniteSet(Holders(p)) /\ active[p] = Cardinality(Holders(p))
      BY DEF PoolInv, Pool
    <3>4. IsFiniteSet(Holders(p)') /\ Cardinality(Holders(p)') = active[p] - 1
      BY <3>1, <3>3, FS_RemoveElement
    <3>5. Cardinality(Holders(p)') \in Nat
      BY <3>4, FS_CardinalityType
    <3>6. active[p] \in 0..Slots /\ active[p] - 1 \in 0..Slots
      BY <1>5, <3>4, <3>5, PolicyAssumption DEF PolicyAssumption
    <3>7. /\ active' \in [Process -> 0..Slots] /\ active'[p] = active[p] - 1
          /\ \A q \in Process \ {p} : active'[q] = active[q]
      BY <1>4, <1>5, <2>1, <3>6
    <3>8. ASSUME NEW q \in Process
          PROVE  IsFiniteSet(Holders(q)') /\ active'[q] = Cardinality(Holders(q)')
      <4>1. CASE q = p
        BY <3>4, <3>7, <4>1
      <4>2. CASE q # p
        BY <3>2, <3>7, <4>2 DEF PoolInv, Pool
      <4> QED
        BY <4>1, <4>2
    <3> QED
      BY <3>7, <3>8 DEF Pool
  <2>2. CASE ~req[r].slot
    <3>1. active' = active
      BY <1>4, <1>5, <2>2
    <3>2. req[r].slot \in BOOLEAN
      BY <1>1, <1>5 DEF RequestType
    <3>3. req[r].slot = FALSE
      BY <2>2, <3>2
    <3> QED
      BY <1>1, <1>4, <1>12, <3>1, <3>2, <3>3, SlotKept DEF y
  <2> QED
    BY <2>1, <2>2
<1> QED
  BY <1>6, <1>7, <1>9, <1>10

(* A process dies with all its slots and appends.                          *)
LEMMA CrashedStep ==
    ASSUME PoolInv, NEW p \in Process, NEW due \in BOOLEAN, Crash(p, due)
    PROVE  chain' \in [Process -> Seq(Record)] /\ Pool' /\ Chained' /\ Sessions'
<1>1. /\ req \in [Request -> RequestType] /\ chain \in [Process -> Seq(Record)]
      /\ active \in [Process -> 0..Slots]
  BY DEF PoolInv, IInv, SinkType, Pool
<1>2. \A r \in Request :
         req'[r] = IF req[r].by = p /\ req[r].at \in InSession THEN Closed(r, "lost") ELSE req[r]
  BY DEF Crash, InSession, Decision
<1>3. /\ chain' \in [Process -> Seq(Record)] /\ chain'[p] = <<>>
      /\ \A q \in Process \ {p} : chain'[q] = chain[q]
  <2>1. <<>> \in Seq(Record)
    OBVIOUS
  <2> QED
    BY <1>1, <2>1 DEF Crash
<1>4. /\ active' \in [Process -> 0..Slots] /\ active'[p] = 0
      /\ \A q \in Process \ {p} : active'[q] = active[q]
  BY <1>1, PolicyAssumption DEF Crash, PolicyAssumption
<1>10. ASSUME NEW r \in Request
       PROVE  \/ req'[r] = req[r] /\ ~(req[r].by = p /\ req[r].at \in InSession)
              \/ /\ req'[r].at = "lost" /\ req'[r].by = p /\ req'[r].slot = FALSE
                 /\ req[r].by = p /\ req[r].at \in InSession
  <2>1. Closed(r, "lost").at = "lost" /\ Closed(r, "lost").by = req[r].by
        /\ Closed(r, "lost").slot = FALSE
    BY ClosedFields
  <2> QED
    BY <1>2, <2>1
<1>5. Sessions'
  BY <1>10 DEF PoolInv, Sessions, InSession, Over
<1>6. Holders(p)' = {} /\ \A q \in Process \ {p} : Holders(q)' = Holders(q)
  BY <1>10 DEF Holders, PoolInv, Sessions
<1>7. Pool'
  <2>1. IsFiniteSet({}) /\ Cardinality({}) = 0
    BY FS_EmptySet
  <2>2. ASSUME NEW q \in Process
        PROVE  IsFiniteSet(Holders(q)') /\ active'[q] = Cardinality(Holders(q)')
    <3>1. CASE q = p
      BY <1>4, <1>6, <2>1, <3>1
    <3>2. CASE q # p
      BY <1>4, <1>6, <3>2 DEF PoolInv, Pool
    <3> QED
      BY <3>1, <3>2
  <2> QED
    BY <1>4, <2>2 DEF Pool
<1>8. ASSUME NEW q \in Process, NEW i \in DOMAIN chain'[q]
      PROVE  /\ req'[chain'[q][i][1]].by = q /\ req'[chain'[q][i][1]].at = chain'[q][i][2]
             /\ \A j \in DOMAIN chain'[q] : chain'[q][j][1] = chain'[q][i][1] => j = i
  <2>1. q # p /\ chain'[q] = chain[q]
    BY <1>3
  <2>2. chain[q] \in Seq(Record)
    BY <1>1
  <2>3. chain[q][i] \in Record
    BY <2>1, <2>2
  <2>4. chain[q][i][1] \in Request /\ req[chain[q][i][1]].by = q
    BY <2>1, <2>3 DEF PoolInv, Chained, Record
  <2>5. req'[chain[q][i][1]] = req[chain[q][i][1]]
    BY <1>10, <2>1, <2>4
  <2> QED
    BY <2>1, <2>4, <2>5 DEF PoolInv, Chained
<1>9. Chained'
  BY <1>8 DEF Chained
<1> QED
  BY <1>3, <1>5, <1>7, <1>9

(* What an await of a session leaves alone.                                *)
SessionFrame == UNCHANGED <<broken, log, env, redirect, revoked>>

LEMMA SessionProgress ==
    ASSUME PoolInv, NEW r \in Request, RequestNext(r)
    PROVE  /\ req[r].at \in {"resolving", "exchanging"}
           /\ active' = active /\ SessionFrame
           /\ \E y \in RequestType :
                 Progress(r, y) /\ y.by = req[r].by /\ y.slot = req[r].slot
<1> DEFINE Goal == /\ req[r].at \in {"resolving", "exchanging"}
                   /\ active' = active /\ SessionFrame
                   /\ \E y \in RequestType :
                         Progress(r, y) /\ y.by = req[r].by /\ y.slot = req[r].slot
<1>1. IInv /\ req[r] \in RequestType /\ req \in [Request -> RequestType]
  BY DEF PoolInv, IInv
<1>2. CASE HopFails(r)
  BY <1>1, <1>2, DecideProgress DEF HopFails, Decision, SessionFrame
<1>3. CASE Resolve(r)
  <2>1. CASE revoked
    BY <1>1, <1>3, <2>1, DecideProgress DEF Resolve, Decision, SessionFrame
  <2>2. CASE ~revoked
    <3> DEFINE x == req[r]
               y == [x EXCEPT !.at = "exchanging", !.wire = Append(@, Exchange(r))]
    <3>1. /\ x \in RequestType /\ x.at = "resolving" /\ OnPath(x, redirect)
      BY <1>1, <1>3 DEF IInv, Resolve
    <3>2. Exchange(r) \in Exchanges
      BY <3>1, RequestFields, PolicyAssumption
         DEF Exchange, Exchanges, Counters, OnPath, PolicyAssumption
    <3>3. x.wire \in Seq(Exchanges) /\ Append(x.wire, Exchange(r)) \in Seq(Exchanges)
      BY <3>1, <3>2, RequestFields
    <3>4. y \in RequestType
      BY <3>1, <3>3 DEF RequestType, Exchanges, InSession
    <3>5. y.at = "exchanging" /\ y.by = x.by /\ y.slot = x.slot
      BY <3>1 DEF RequestType
    <3>6. req' = [req EXCEPT ![r] = y] /\ chain' = chain /\ active' = active
      BY <1>1, <1>3, <2>2 DEF Resolve
    <3>7. SessionFrame
      BY <1>3 DEF Resolve, SessionFrame
    <3>8. y \in RequestType /\ Progress(r, y)
      <4> HIDE DEF y
      <4> QED
        BY <3>4, <3>5, <3>6 DEF Progress
    <3> HIDE DEF y
    <3> QED
      BY <3>1, <3>5, <3>6, <3>7, <3>8
  <2> QED
    BY <2>1, <2>2
<1>4. ASSUME NEW size \in 0..1,
             Respond(r, size) \/ \E h \in Host, keep \in BOOLEAN : Redirected(r, size, h, keep)
      PROVE  Goal
  <2> DEFINE z == Received(r, size)
             x == [z EXCEPT !.hops = @ + 1]
  <2>1. /\ z \in RequestType /\ z.by = req[r].by /\ z.slot = req[r].slot
        /\ req[r].at = "exchanging" /\ active' = active /\ SessionFrame
    BY <1>1, <1>4, ReceivedFields DEF Respond, Redirected, SessionFrame
  <2>2. z.hops + 1 \in Nat /\ z.body \in 0..1
    BY <2>1, RequestFields
  <2>3. x \in RequestType /\ x.by = z.by /\ x.slot = z.slot
    BY <2>1, <2>2 DEF RequestType
  <2>4. CASE Respond(r, size)
    <3>1. Decide(r, z, "allowed") \/ Decide(r, z, "denied")
      BY <2>4 DEF Respond
    <3> HIDE DEF z
    <3> QED
      BY <2>1, <3>1, DecideProgress DEF Decision
  <2>5. ASSUME NEW h \in Host, NEW keep \in BOOLEAN, Redirected(r, size, h, keep)
        PROVE  Goal
    <3> DEFINE next == [x EXCEPT !.host = h, !.body = IF keep THEN @ ELSE 0]
    <3>1. \A b \in 0..1 :
             LET n == [x EXCEPT !.host = h, !.body = b]
             IN  n \in RequestType /\ n.by = x.by /\ n.slot = x.slot
      <4> HIDE DEF x
      <4> QED
        BY <2>3 DEF RequestType
    <3>2. (IF keep THEN x.body ELSE 0) \in 0..1
      <4> HIDE DEF x
      <4>1. x.body \in 0..1
        BY <2>3, RequestFields
      <4> QED
        BY <4>1
    <3>3. next \in RequestType /\ next.by = x.by /\ next.slot = x.slot
      BY <3>1, <3>2
    <3>4. Decide(r, x, "denied") \/ NextHop(r, next)
      BY <2>5 DEF Redirected
    <3> HIDE DEF z, x, next
    <3> QED
      BY <2>1, <2>3, <3>3, <3>4, DecideProgress, NextHopProgress DEF Decision
  <2> QED
    BY <1>4, <2>4, <2>5
<1> QED
  BY <1>2, <1>3, <1>4 DEF RequestNext

LEMMA SubmitProgress ==
    ASSUME PoolInv, NEW r \in Request, NEW p \in Process, NEW h \in Host, NEW b \in 0..1,
           Submit(r, p, h, b)
    PROVE  /\ req[r].at = "new" /\ req[r].slot = FALSE /\ SessionFrame
           /\ \E y \in RequestType :
                 /\ Progress(r, y) /\ y.by = p
                 /\ \/ y.slot = FALSE /\ active' = active
                    \/ /\ y.slot = TRUE /\ active[p] < Slots
                       /\ active' = [active EXCEPT ![p] = @ + 1]
<1> DEFINE x == [req[r] EXCEPT !.by = p, !.host = h, !.body = b]
           y == [x EXCEPT !.slot = TRUE]
<1>1. req[r] \in RequestType /\ req[r].at = "new" /\ SessionFrame
  BY DEF PoolInv, IInv, Submit, SessionFrame
<1>2. req[r].slot = FALSE
  <2>1. ~ req[r].slot
    BY <1>1 DEF PoolInv, Sessions, InSession
  <2>2. req[r].slot \in BOOLEAN
    BY <1>1 DEF RequestType
  <2> QED
    BY <2>1, <2>2
<1>3. x \in RequestType /\ x.by = p /\ x.slot = FALSE
  BY <1>1, <1>2 DEF RequestType
<1>4. y \in RequestType /\ y.by = p /\ y.slot = TRUE
  BY <1>1 DEF RequestType
<1>5. active[p] \in 0..Slots /\ Slots \in Nat
  BY PolicyAssumption DEF PoolInv, Pool, PolicyAssumption
<1>6. \/ Decide(r, x, "denied") /\ active' = active
      \/ /\ active[p] < Slots /\ active' = [active EXCEPT ![p] = @ + 1]
         /\ Decide(r, y, "denied") \/ NextHop(r, y)
  BY <1>5 DEF Submit
<1> HIDE DEF x, y
<1>7. CASE Decide(r, x, "denied") /\ active' = active
  BY <1>1, <1>2, <1>3, <1>7, DecideProgress DEF Decision
<1>8. CASE /\ active[p] < Slots /\ active' = [active EXCEPT ![p] = @ + 1]
           /\ Decide(r, y, "denied") \/ NextHop(r, y)
  <2>1. PICK z \in RequestType : Progress(r, z) /\ z.by = y.by /\ z.slot = y.slot
    BY <1>4, <1>8, DecideProgress, NextHopProgress DEF Decision
  <2> QED
    BY <1>1, <1>2, <1>4, <1>8, <2>1
<1> QED
  BY <1>6, <1>7, <1>8

(* What a write may leave in the log.                                      *)
LEMMA WrittenType ==
    ASSUME live \in Seq(Line), NEW line \in Record \cup {Torn}
    PROVE  /\ Written(line) \in Seq(Line)
           /\ Leftover(line) \subseteq Seq(Line)
<1>1. ASSUME NEW l \in Record \cup {Torn} PROVE Written(l) \in Seq(Line)
  <2>1. l \in Line /\ Torn \in Line /\ Malformed \in Line
    BY DEF Line
  <2>2. Append(live, l) \in Seq(Line)
    BY <2>1
  <2>3. ASSUME NEW e \in Line, live # <<>>
        PROVE  [live EXCEPT ![Len(live)] = e] \in Seq(Line)
    <3>1. Len(live) \in 1..Len(live)
      BY <2>3
    <3> QED
      BY <2>3, <3>1, ExceptSeq
  <2>4. \/ Written(l) = Append(live, l)
        \/ /\ live # <<>>
           /\ \/ Written(l) = [live EXCEPT ![Len(live)] = Torn]
              \/ Written(l) = [live EXCEPT ![Len(live)] = Malformed]
    BY DEF Written
  <2> QED
    BY <2>1, <2>2, <2>3, <2>4
<1> QED
  BY <1>1 DEF Leftover

LEMMA ReadableType ==
    ASSUME live \in Seq(Line)
    PROVE  Readable \subseteq Record
<1>1. \A i \in DOMAIN live : live[i] \in Line
  OBVIOUS
<1> QED
  BY <1>1 DEF Readable, Line

LEMMA PoolInit == Init => PoolInv
<1> SUFFICES ASSUME Init PROVE PoolInv
  OBVIOUS
<1>1. IInv
  BY Inductive
<1>2. <<>> \in Seq(Record) /\ <<>> \in Seq(Line) /\ DOMAIN <<>> = {}
  OBVIOUS
<1>3. NewRequest.slot = FALSE /\ NewRequest.at = "new"
  BY DEF NewRequest
<1>4. SinkType
  BY <1>2 DEF Init, SinkType
<1>5. Pool
  <2>1. \A p \in Process : Holders(p) = {}
    BY <1>3 DEF Init, Holders
  <2> QED
    <3>1. IsFiniteSet({}) /\ Cardinality({}) = 0 /\ 0 \in 0..Slots
      BY FS_EmptySet, PolicyAssumption DEF PolicyAssumption
    <3>2. active = [p \in Process |-> 0]
      BY DEF Init
    <3> QED
      BY <2>1, <3>1, <3>2 DEF Pool
<1>6. Chained
  BY <1>2 DEF Init, Chained
<1>7. Sessions
  BY <1>3 DEF Init, Sessions, InSession
<1> QED
  BY <1>1, <1>4, <1>5, <1>6, <1>7 DEF PoolInv

LEMMA SessionPool ==
    ASSUME PoolInv, NEW r \in Request,
           \/ RequestNext(r)
           \/ \E p \in Process, h \in Host, b \in 0..1 : Submit(r, p, h, b)
    PROVE  SinkType' /\ Pool' /\ Chained' /\ Sessions'
<1>1. CASE RequestNext(r)
  <2>1. PICK y \in RequestType : Progress(r, y) /\ y.by = req[r].by /\ y.slot = req[r].slot
    BY <1>1, SessionProgress
  <2>2. /\ req[r].at \in {"resolving", "exchanging"} /\ active' = active /\ SessionFrame
        /\ req[r] \in RequestType
    BY <1>1, SessionProgress DEF PoolInv, IInv
  <2>3. req[r].at \notin Decision /\ y.by \in Process /\ req[r].slot \in BOOLEAN
    BY <2>1, <2>2 DEF PoolInv, Sessions, InSession, Decision, RequestType
  <2>4. chain' \in [Process -> Seq(Record)] /\ Chained' /\ Sessions'
    BY <2>1, <2>3, ChainedStep
  <2>5. Pool'
    BY <2>1, <2>2, <2>3, SlotKept DEF Progress
  <2> QED
    BY <2>2, <2>4, <2>5 DEF PoolInv, SinkType, SessionFrame, log
<1>2. ASSUME NEW p \in Process, NEW h \in Host, NEW b \in 0..1, Submit(r, p, h, b)
      PROVE  SinkType' /\ Pool' /\ Chained' /\ Sessions'
  <2>1. PICK y \in RequestType :
           /\ Progress(r, y) /\ y.by = p
           /\ \/ y.slot = FALSE /\ active' = active
              \/ /\ y.slot = TRUE /\ active[p] < Slots
                 /\ active' = [active EXCEPT ![p] = @ + 1]
    BY <1>2, SubmitProgress
  <2>2. /\ req[r].at = "new" /\ req[r].slot = FALSE /\ SessionFrame
    BY <1>2, SubmitProgress
  <2>3. req[r].at \notin Decision /\ y.by \in Process /\ req' = [req EXCEPT ![r] = y]
    BY <2>1, <2>2 DEF Decision, Progress
  <2>4. chain' \in [Process -> Seq(Record)] /\ Chained' /\ Sessions'
    BY <2>1, <2>3, ChainedStep
  <2>5. CASE y.slot = FALSE /\ active' = active
    BY <2>2, <2>3, <2>4, <2>5, SlotKept DEF PoolInv, SinkType, SessionFrame, log
  <2>6. CASE /\ y.slot = TRUE /\ active[p] < Slots
             /\ active' = [active EXCEPT ![p] = @ + 1]
    <3>1. Pool'
      BY <2>1, <2>2, <2>3, <2>6, SlotTaken
    <3> QED
      BY <2>2, <2>4, <3>1 DEF PoolInv, SinkType, SessionFrame, log
  <2> QED
    BY <2>1, <2>5, <2>6
<1> QED
  BY <1>1, <1>2

LEMMA SinkPool ==
    ASSUME PoolInv, NEW p \in Process, SinkNext(p)
    PROVE  SinkType' /\ Pool' /\ Chained' /\ Sessions'
<1>1. PICK at \in Over : Settle(p, at)
  BY DEF SinkNext, AppendDone, AppendFails, AppendRejected, Over
<1>2. chain[p] # <<>>
  BY DEF SinkNext, AppendDone, AppendFails, AppendRejected
<1>3. chain' \in [Process -> Seq(Record)] /\ Pool' /\ Chained' /\ Sessions'
  BY <1>1, <1>2, SettleStep
<1>4. live' \in Seq(Line)
  <2>1. Head(chain[p]) \in Record \cup {Torn} /\ live \in Seq(Line)
    BY <1>2, HeadOfChain DEF PoolInv, SinkType
  <2>2. Written(Head(chain[p])) \in Seq(Line) /\ Leftover(Head(chain[p])) \subseteq Seq(Line)
    BY <2>1, WrittenType
  <2>3. live' = Written(Head(chain[p])) \/ live' \in Leftover(Head(chain[p])) \/ live' = live
    BY DEF SinkNext, AppendDone, AppendFails, AppendRejected, log
  <2> QED
    BY <2>1, <2>2, <2>3
<1>5. broken' \in [Process -> BOOLEAN]
  <2>1. broken' = broken \/ broken' = [broken EXCEPT ![p] = TRUE]
    BY DEF SinkNext, AppendDone, AppendFails, AppendRejected
  <2> QED
    BY <2>1 DEF PoolInv, SinkType
<1>6. UNCHANGED <<archive, rotation, retired, env, redirect, revoked>>
  BY DEF SinkNext, AppendDone, AppendFails, AppendRejected, log
<1> QED
  BY <1>3, <1>4, <1>5, <1>6 DEF PoolInv, SinkType

LEMMA CrashPool ==
    ASSUME PoolInv, NEW p \in Process, NEW due \in BOOLEAN, Crash(p, due)
    PROVE  SinkType' /\ Pool' /\ Chained' /\ Sessions'
<1>1. chain' \in [Process -> Seq(Record)] /\ Pool' /\ Chained' /\ Sessions'
  BY CrashedStep
<1>2. live' \in Seq(Line)
  <2>1. live \in Seq(Line)
    BY DEF PoolInv, SinkType
  <2>2. CASE chain[p] = <<>> \/ broken[p]
    BY <2>1, <2>2 DEF Crash
  <2>3. CASE ~(chain[p] = <<>> \/ broken[p])
    <3>1. Head(chain[p]) \in Record \cup {Torn}
      BY <2>3, HeadOfChain
    <3>2. live' \in Leftover(Head(chain[p]))
      BY <2>3 DEF Crash
    <3> QED
      BY <2>1, <3>1, <3>2, WrittenType
  <2> QED
    BY <2>2, <2>3
<1>3. broken' \in [Process -> BOOLEAN]
  BY DEF Crash, PoolInv, SinkType
<1>4. rotation' \in [at : {"none", "read", "archive", "reset"}, kept : SUBSET Record]
  <2>1. \A at \in {"none", "read"} :
           [at |-> at, kept |-> {}] \in
              [at : {"none", "read", "archive", "reset"}, kept : SUBSET Record]
    OBVIOUS
  <2>2. \/ rotation' = rotation \/ rotation' = [at |-> "read", kept |-> {}]
        \/ rotation' = [at |-> "none", kept |-> {}]
    BY DEF Crash
  <2> QED
    BY <2>1, <2>2 DEF PoolInv, SinkType
<1> QED
  BY <1>1, <1>2, <1>3, <1>4 DEF PoolInv, SinkType, Crash

LEMMA RotationPool ==
    ASSUME PoolInv, RotationNext \/ Revoke \/ UNCHANGED vars
    PROVE  SinkType' /\ Pool' /\ Chained' /\ Sessions'
<1>1. UNCHANGED <<req, active, chain, broken, env, redirect>>
  BY DEF RotationNext, ReadLog, Archive, ResetLog, Revoke, vars
<1>2. Pool' /\ Chained' /\ Sessions'
  BY <1>1 DEF PoolInv, Pool, Chained, Sessions, Holders
<1>3. <<>> \in Seq(Line) /\ rotation.kept \subseteq Record /\ Readable \subseteq Record
  BY ReadableType DEF PoolInv, SinkType
<1>4. SinkType'
  <2>1. CASE ReadLog
    BY <1>3, <2>1 DEF PoolInv, SinkType, ReadLog
  <2>2. CASE Archive
    BY <1>3, <2>2 DEF PoolInv, SinkType, Archive
  <2>3. CASE ResetLog
    BY <1>3, <2>3 DEF PoolInv, SinkType, ResetLog
  <2>4. CASE Revoke
    BY <2>4 DEF PoolInv, SinkType, Revoke, log
  <2>5. CASE UNCHANGED vars
    BY <2>5 DEF PoolInv, SinkType, vars
  <2> QED
    BY <2>1, <2>2, <2>3, <2>4, <2>5 DEF RotationNext
<1> QED
  BY <1>2, <1>4

LEMMA PoolNext == PoolInv /\ [Next]_vars => PoolInv'
<1> SUFFICES ASSUME PoolInv, [Next]_vars PROVE PoolInv'
  OBVIOUS
<1>1. IInv'
  BY Inductive DEF PoolInv
<1>2. SinkType' /\ Pool' /\ Chained' /\ Sessions'
  BY SessionPool, SinkPool, CrashPool, RotationPool DEF Next
<1> QED
  BY <1>1, <1>2 DEF PoolInv

LEMMA PoolInvariance == Spec => []PoolInv
BY PoolInit, PoolNext, PTL DEF Spec

(* The pool sandbox-egress never loses or doubles a slot: its counter is the *)
(* number of requests that hold one, in sessions that end by any answer, a   *)
(* failed append or a crash; with it, the types of all the state.            *)
THEOREM TypeCorrect == Spec => []TypeOK
<1>1. PoolInv => TypeOK
  BY DEF PoolInv, IInv, SinkType, Pool, Holders, TypeOK, Line
<1> QED
  BY <1>1, PoolInvariance, PTL

-----------------------------------------------------------------------------
(* The records.  A log without torn lines holds every record in the order   *)
(* of the appends.  While a booting server rotates it, no append is under   *)
(* way, because no other process writes: what it copies is then all there   *)
(* is, and only that is removed.                                            *)

(* No line is cut off, and the log is rotated only where one process has it. *)
SoundLog ==
    \A e \in Environment : ~e.torn /\ (e.rotate => e.alone)

Rotating ==
    /\ \A r \in Request : req[r].at \in InSession =>
          /\ env.alone => req[r].by = Server
          /\ rotation.at # "none" => req[r].by # Server
    /\ rotation.at # "none" => env.rotate
    /\ rotation.at = "archive" => Readable \subseteq rotation.kept
    /\ rotation.at = "reset" => Readable \subseteq archive

Recorded == Readable \cup archive \cup retired

AuditInv == PoolInv /\ live \in Seq(Record) /\ Rotating /\ AnswerIsAudited

LEMMA NoRecordIsTorn == Torn \notin Record /\ Malformed \notin Record
BY PolicyAssumption DEF PolicyAssumption, Torn, Malformed, Record

(* In a whole log a record is written behind the others.                   *)
LEMMA WholeWritten ==
    ASSUME live \in Seq(Record), NEW line \in Record
    PROVE  Written(line) = Append(live, line)
<1>1. live # <<>> => live[Len(live)] \in Record
  <2>1. ASSUME live # <<>> PROVE Len(live) \in DOMAIN live
    BY <2>1
  <2> QED
    BY <2>1
<1> QED
  BY <1>1, NoRecordIsTorn DEF Written

LEMMA AppendReadable ==
    ASSUME live \in Seq(Record), NEW line \in Record, live' = Append(live, line)
    PROVE  live' \in Seq(Record) /\ Readable' = Readable \cup {line}
<1>1. /\ live' \in Seq(Record) /\ DOMAIN live' = 1..(Len(live) + 1) /\ Len(live) \in Nat
      /\ DOMAIN live = 1..Len(live)
      /\ \A i \in DOMAIN live : live'[i] = live[i]
      /\ live'[Len(live) + 1] = line
  BY AppendProperties
<1>2. \A i \in DOMAIN live' : i \in DOMAIN live \/ i = Len(live) + 1
  BY <1>1
<1>3. \A i \in DOMAIN live : i \in DOMAIN live'
  BY <1>1
<1>4. Len(live) + 1 \in DOMAIN live'
  BY <1>1
<1>5. {live'[i] : i \in DOMAIN live'} = {live[i] : i \in DOMAIN live} \cup {line}
  BY <1>1, <1>2, <1>3, <1>4, Zenon
<1> QED
  BY <1>1, <1>5, NoRecordIsTorn DEF Readable

(* The log after the append at the head of p's chain, however it ends.     *)
LEMMA WriteStep ==
    ASSUME SoundLog, AuditInv, NEW p \in Process, chain[p] # <<>>,
           live' \in Leftover(Head(chain[p]))
    PROVE  /\ live' \in Seq(Record) /\ Readable \subseteq Readable'
           /\ live' = Written(Head(chain[p])) => Head(chain[p]) \in Readable'
<1>1. Head(chain[p]) \in Record /\ live \in Seq(Record) /\ ~env.torn
  BY HeadOfChain DEF AuditInv, PoolInv, SinkType, SoundLog
<1>2. live' = live \/ live' = Append(live, Head(chain[p]))
  BY <1>1, WholeWritten DEF Leftover
<1>3. Written(Head(chain[p])) = Append(live, Head(chain[p]))
  BY <1>1, WholeWritten
<1>4. CASE live' = Append(live, Head(chain[p]))
  BY <1>1, <1>4, AppendReadable
<1>5. CASE live' = live /\ live' # Append(live, Head(chain[p]))
  BY <1>1, <1>3, <1>5 DEF Readable
<1> QED
  BY <1>2, <1>4, <1>5

(* No record is lost and nobody is answered: whoever was still has one.    *)
LEMMA StillAudited ==
    ASSUME AnswerIsAudited, Recorded \subseteq Recorded',
           \A r \in Request : req'[r].at \in {"answered", "refused"} => req'[r].at = req[r].at
    PROVE  AnswerIsAudited'
<1>1. \A r \in Request, d \in Decision : Audited(r, d) => Audited(r, d)'
  BY DEF Audited, Recorded
<1> QED
  BY <1>1 DEF AnswerIsAudited, Decision

(* While the log is rotated there is no session.                           *)
LEMMA QuietRotation ==
    ASSUME SoundLog, AuditInv, NEW r \in Request, req[r].at \in InSession
    PROVE  rotation.at = "none"
<1>1. env \in Environment
  BY DEF AuditInv, PoolInv, SinkType
<1> QED
  BY <1>1 DEF AuditInv, Rotating, SoundLog

LEMMA SessionAudit ==
    ASSUME SoundLog, AuditInv, NEW r \in Request,
           \/ RequestNext(r)
           \/ \E p \in Process, h \in Host, b \in 0..1 : Submit(r, p, h, b)
    PROVE  live' \in Seq(Record) /\ Rotating' /\ AnswerIsAudited'
<1>1. PICK y \in RequestType :
         Progress(r, y) /\ SessionFrame /\ (env.alone => y.by = Server)
  <2>1. CASE RequestNext(r)
    <3>1. PICK y \in RequestType : Progress(r, y) /\ y.by = req[r].by /\ y.slot = req[r].slot
      BY <2>1, SessionProgress DEF AuditInv
    <3>2. SessionFrame /\ req[r].at \in {"resolving", "exchanging"}
      BY <2>1, SessionProgress DEF AuditInv
    <3>3. env.alone => y.by = Server
      BY <3>1, <3>2 DEF AuditInv, Rotating, InSession
    <3> QED
      BY <3>1, <3>2, <3>3
  <2>2. ASSUME NEW p \in Process, NEW h \in Host, NEW b \in 0..1, Submit(r, p, h, b)
        PROVE  \E y \in RequestType :
                  Progress(r, y) /\ SessionFrame /\ (env.alone => y.by = Server)
    <3>1. PICK y \in RequestType : Progress(r, y) /\ y.by = p
      BY <2>2, SubmitProgress DEF AuditInv
    <3>2. SessionFrame
      BY <2>2, SubmitProgress DEF AuditInv
    <3>3. env.alone => p = Server
      BY <2>2 DEF Submit
    <3> QED
      BY <3>1, <3>2, <3>3
  <2> QED
    BY <2>1, <2>2
<1>2. rotation.at = "none"
  <2>1. CASE RequestNext(r)
    <3>1. req[r].at \in InSession
      BY <2>1, SessionProgress DEF AuditInv, InSession
    <3> QED
      BY <3>1, QuietRotation
  <2>2. ASSUME NEW p \in Process, NEW h \in Host, NEW b \in 0..1, Submit(r, p, h, b)
        PROVE  rotation.at = "none"
    BY <2>2 DEF Submit, Serving, AuditInv, PoolInv, SinkType, Rotating, SoundLog
  <2> QED
    BY <2>1, <2>2
<1>3. \A s \in Request : req'[s] = IF s = r THEN y ELSE req[s]
  BY <1>1 DEF Progress, AuditInv, PoolInv, IInv
<1>4. Recorded' = Recorded /\ Readable' = Readable
  BY <1>1 DEF SessionFrame, log, Recorded, Readable
<1>5. AnswerIsAudited'
  <2>1. y.at \notin {"answered", "refused"}
    BY <1>1 DEF Progress, Decision
  <2> QED
    BY <1>3, <1>4, <2>1, StillAudited DEF AuditInv
<1>6. Rotating'
  <2>1. rotation' = rotation /\ env' = env /\ archive' = archive
    BY <1>1 DEF SessionFrame, log
  <2> QED
    BY <1>1, <1>2, <1>3, <2>1 DEF AuditInv, Rotating
<1>7. live' \in Seq(Record)
  BY <1>1 DEF SessionFrame, log, AuditInv
<1> QED
  BY <1>5, <1>6, <1>7

LEMMA SinkAudit ==
    ASSUME SoundLog, AuditInv, NEW p \in Process, SinkNext(p)
    PROVE  live' \in Seq(Record) /\ Rotating' /\ AnswerIsAudited'
<1>1. chain[p] # <<>> /\ PoolInv
  BY DEF SinkNext, AppendDone, AppendFails, AppendRejected, AuditInv
<1>2. PICK r \in Request, d \in Decision :
         Head(chain[p]) = <<r, d>> /\ req[r].by = p /\ req[r].at = d
  <2>1. /\ Head(chain[p]) \in Record
        /\ req[Head(chain[p])[1]].by = p /\ req[Head(chain[p])[1]].at = Head(chain[p])[2]
    BY <1>1, HeadOfChain
  <2>2. PICK r \in Request, d \in Decision : Head(chain[p]) = <<r, d>>
    BY <2>1 DEF Record
  <2>3. Head(chain[p])[1] = r /\ Head(chain[p])[2] = d
    BY <2>2
  <2> QED
    BY <2>1, <2>2, <2>3
<1>3. rotation.at = "none"
  BY <1>2, QuietRotation DEF InSession, Decision
<1>4. UNCHANGED <<archive, rotation, retired, env>>
  BY DEF SinkNext, AppendDone, AppendFails, AppendRejected, log
<1>5. PICK at \in Over :
         /\ Settle(p, at)
         /\ \/ /\ live' = Written(<<r, d>>)
               /\ at = IF d = "allowed" THEN "answered" ELSE "refused"
            \/ live' \in Leftover(<<r, d>>) \cup {live} /\ at = "unaudited"
  <2>1. Head(chain[p])[2] = d
    BY <1>2
  <2> QED
    BY <1>2, <2>1 DEF SinkNext, AppendDone, AppendFails, AppendRejected, log, Over
<1>6. req' = [req EXCEPT ![r] = Closed(r, at)]
  <2>1. Head(chain[p])[1] = r
    BY <1>2
  <2> QED
    BY <1>5, <2>1 DEF Settle
<1>7. live' \in Leftover(<<r, d>>)
  BY <1>5 DEF Leftover
<1>8. /\ live' \in Seq(Record) /\ Readable \subseteq Readable'
      /\ live' = Written(<<r, d>>) => <<r, d>> \in Readable'
  BY <1>1, <1>2, <1>7, WriteStep
<1>9. Recorded \subseteq Recorded'
  BY <1>4, <1>8 DEF Recorded
<1>10. \A s \in Request : req'[s] = IF s = r THEN Closed(r, at) ELSE req[s]
  BY <1>1, <1>6 DEF PoolInv, IInv
<1>11. Closed(r, at).at = at
  BY ClosedFields
<1>12. AnswerIsAudited'
  <2>1. CASE at = "unaudited"
    BY <1>9, <1>10, <1>11, <2>1, StillAudited DEF AuditInv
  <2>2. CASE at # "unaudited"
    <3>1. <<r, d>> \in Readable' /\ at = IF d = "allowed" THEN "answered" ELSE "refused"
      BY <1>2, <1>5, <1>8, <2>2
    <3>2. Audited(r, d)'
      BY <1>2, <3>1 DEF Audited
    <3>3. (at = "answered" => Audited(r, "allowed")') /\ (at = "refused" => Audited(r, "denied")')
      BY <1>2, <3>1, <3>2 DEF Decision
    <3>4. \A s \in Request, e \in Decision : Audited(s, e) => Audited(s, e)'
      BY <1>9 DEF Audited, Recorded
    <3>5. ASSUME NEW s \in Request
          PROVE  /\ req'[s].at = "answered" => Audited(s, "allowed")'
                 /\ req'[s].at = "refused" => Audited(s, "denied")'
      <4>1. CASE s = r
        BY <1>10, <1>11, <3>3, <4>1
      <4>2. CASE s # r
        BY <1>10, <3>4, <4>2 DEF AuditInv, AnswerIsAudited, Decision
      <4> QED
        BY <4>1, <4>2
    <3> QED
      BY <3>5 DEF AnswerIsAudited
  <2> QED
    BY <2>1, <2>2
<1>13. Rotating'
  BY <1>3, <1>4, <1>5, <1>10, <1>11 DEF AuditInv, Rotating, InSession, Over
<1> QED
  BY <1>8, <1>12, <1>13

LEMMA CrashAudit ==
    ASSUME SoundLog, AuditInv, NEW p \in Process, NEW due \in BOOLEAN, Crash(p, due)
    PROVE  live' \in Seq(Record) /\ Rotating' /\ AnswerIsAudited'
<1>1. PoolInv /\ env' = env /\ archive' = archive /\ retired' = retired
  BY DEF AuditInv, Crash
<1>2. \A r \in Request :
         \/ req'[r] = req[r] /\ ~(req[r].by = p /\ req[r].at \in InSession)
         \/ req'[r] = Closed(r, "lost")
  BY DEF Crash, InSession, Decision
<1>3. \A r \in Request : Closed(r, "lost").at = "lost"
  BY ClosedFields
<1>4. /\ live' \in Seq(Record) /\ Readable \subseteq Readable'
      /\ rotation.at # "none" => Readable' = Readable
  <2>1. CASE chain[p] = <<>> \/ broken[p]
    BY <2>1 DEF Crash, AuditInv, Readable
  <2>2. CASE ~(chain[p] = <<>> \/ broken[p])
    <3>1. live' \in Leftover(Head(chain[p]))
      BY <2>2 DEF Crash
    <3>2. live' \in Seq(Record) /\ Readable \subseteq Readable'
      BY <2>2, <3>1, WriteStep
    <3>3. rotation.at = "none"
      <4>1. Head(chain[p])[1] \in Request /\ req[Head(chain[p])[1]].at \in InSession
        BY <1>1, <2>2, HeadOfChain DEF InSession, Decision
      <4> QED
        BY <4>1, QuietRotation
    <3> QED
      BY <3>2, <3>3
  <2> QED
    BY <2>1, <2>2
<1>5. AnswerIsAudited'
  BY <1>1, <1>2, <1>3, <1>4, StillAudited DEF AuditInv, Recorded
<1>6. Rotating'
  <2>1. CASE p = Server
    <3>1. /\ rotation'.at \in {"none", "read"}
          /\ rotation'.at # "none" => env.rotate
      BY <2>1 DEF Crash
    <3> QED
      BY <1>1, <1>2, <1>3, <2>1, <3>1 DEF AuditInv, Rotating, InSession
  <2>2. CASE p # Server
    <3>1. rotation' = rotation
      BY <2>2 DEF Crash
    <3> QED
      BY <1>1, <1>2, <1>3, <1>4, <3>1 DEF AuditInv, Rotating, InSession
  <2> QED
    BY <2>1, <2>2
<1> QED
  BY <1>4, <1>5, <1>6

LEMMA RotationAudit ==
    ASSUME SoundLog, AuditInv, RotationNext \/ Revoke \/ UNCHANGED vars
    PROVE  live' \in Seq(Record) /\ Rotating' /\ AnswerIsAudited'
<1>1. req' = req /\ env' = env
  BY DEF RotationNext, ReadLog, Archive, ResetLog, Revoke, vars
<1>2. Readable \subseteq Record
  BY ReadableType DEF AuditInv, PoolInv, SinkType
<1>3. CASE ReadLog
  BY <1>1, <1>3, StillAudited DEF ReadLog, AuditInv, Rotating, Readable, Recorded
<1>4. CASE Archive
  BY <1>1, <1>4, StillAudited DEF Archive, AuditInv, Rotating, Readable, Recorded
<1>5. CASE ResetLog
  <2>1. <<>> \in Seq(Record) /\ DOMAIN <<>> = {}
    OBVIOUS
  <2>2. live' \in Seq(Record) /\ Readable' = {}
    BY <1>5, <2>1 DEF ResetLog, Readable
  <2>3. Recorded \subseteq Recorded'
    BY <1>5 DEF ResetLog, AuditInv, Rotating, Recorded
  <2>4. AnswerIsAudited'
    BY <1>1, <2>3, StillAudited DEF AuditInv
  <2>5. Rotating'
    BY <1>1, <1>5 DEF ResetLog, AuditInv, Rotating
  <2> QED
    BY <2>2, <2>4, <2>5
<1>6. CASE Revoke \/ UNCHANGED vars
  <2>1. UNCHANGED log
    BY <1>6 DEF Revoke, vars, log
  <2> QED
    BY <1>1, <2>1, StillAudited DEF log, AuditInv, Rotating, Readable, Recorded
<1> QED
  BY <1>3, <1>4, <1>5, <1>6 DEF RotationNext

LEMMA AuditInductive ==
    ASSUME SoundLog
    PROVE  /\ Init => AuditInv
           /\ AuditInv /\ [Next]_vars => AuditInv'
<1>1. ASSUME Init PROVE AuditInv
  <2>1. <<>> \in Seq(Record) /\ NewRequest.at = "new"
    BY DEF NewRequest
  <2>2. live \in Seq(Record) /\ rotation.at = "none" /\ \A r \in Request : req[r].at = "new"
    BY <1>1, <2>1 DEF Init
  <2> QED
    BY <1>1, <2>2, PoolInit DEF AuditInv, Rotating, AnswerIsAudited, InSession
<1>2. ASSUME AuditInv, [Next]_vars PROVE AuditInv'
  <2>1. PoolInv'
    BY <1>2, PoolNext DEF AuditInv
  <2>2. live' \in Seq(Record) /\ Rotating' /\ AnswerIsAudited'
    BY <1>2, SessionAudit, SinkAudit, CrashAudit, RotationAudit DEF Next
  <2> QED
    BY <2>1, <2>2 DEF AuditInv
<1> QED
  BY <1>1, <1>2

(* Whoever was answered or refused has a record, across failed appends,     *)
(* crashes in any append or step of a rotation, and rotations, as long as    *)
(* no line is cut off and only a log of one process is rotated               *)
(* (egress-broker.ts:JsonlEgressAuditSink, egress-audit-retention.ts).       *)
THEOREM AnswersAreAudited ==
    ASSUME SoundLog
    PROVE  Spec => []AnswerIsAudited
<1>1. AuditInv => AnswerIsAudited
  BY DEF AuditInv
<1> QED
  BY <1>1, AuditInductive, PTL DEF Spec
=============================================================================
