------------------------- MODULE UsageGovernanceProofs -------------------------
(***************************************************************************)
(* Theorems about UsageGovernance for every number of turns, calls, days,  *)
(* cap, estimate, cost and pool limits.                                    *)
(*                                                                         *)
(* A turn's slots follow from where it is (Held), so the pools' counters   *)
(* can be compared with a set.  The overshoot follows from the same        *)
(* counters: a reservation is open only while its turn waits for its call,  *)
(* and every such turn holds a slot of the provider pool.                  *)
(*                                                                         *)
(* The ledger is compared with sums over sets of reservations.  What a sum  *)
(* is, and that it grows by what is added to the set, is proved by the      *)
(* smallest set for which it would not hold.                               *)
(***************************************************************************)
EXTENDS UsageGovernance, FiniteSetTheorems, WellFoundedInduction, TLAPS

Waiting == {t \in Turn : turn[t].pc = "call"}

(* Without a crash an open reservation is the current call of its turn.    *)
OpenIsWaiting ==
    "crash" \notin env =>
        \A c \in Call : res[c].status = "open" => c[1] \in Waiting /\ c[2] = turn[c[1]].calls

(* A turn that waits has made a call.                                      *)
Counted == \A t \in Waiting : turn[t].calls # 0

(* The inductive invariant.                                                *)
IInv == TypeOK /\ SlotsMatchHolders /\ OpenIsWaiting /\ Counted /\ OvershootBounded

-----------------------------------------------------------------------------
Assumptions ==
    /\ IsFiniteSet(Turn) /\ MaxIterations \in Nat /\ MaxCalls \in Nat
    /\ Day \subseteq Nat /\ 0 \in Day
    /\ Estimate \in Nat /\ Cap \in Nat /\ MaxCost \in Nat /\ Estimate <= MaxCost
    /\ ProviderLimit \in Nat /\ SseLimit \in Nat

LEMMA Constants == Assumptions
BY TurnAssumption, MaxIterationsAssumption, DayAssumption, MoneyAssumption, LimitAssumption
   DEF Assumptions

(* Calls are finitely many, and so is every set of them.                   *)
LEMMA CallsFinite ==
    ASSUME NEW S \in SUBSET Call
    PROVE  IsFiniteSet(S) /\ Cardinality(S) \in Nat
<1>1. IsFiniteSet(1..MaxIterations)
  BY Constants, FS_Interval DEF Assumptions
<1>2. IsFiniteSet(Call)
  BY Constants, <1>1, FS_Product DEF Assumptions, Call
<1> QED
  BY <1>2, FS_Subset, FS_CardinalityType

LEMMA TurnsFinite ==
    ASSUME NEW S \in SUBSET Turn
    PROVE  IsFiniteSet(S) /\ Cardinality(S) \in Nat
BY Constants, FS_Subset, FS_CardinalityType DEF Assumptions

TotalsType == daily \in [Day -> Nat] /\ mission \in Nat /\ res \in [Call -> Reservation]

(* A settle, whole or cut off, keeps the ledger's records in their ranges.  *)
LEMMA SettleType ==
    ASSUME TypeOK, NEW c \in Call, NEW amount \in 0..MaxCost, NEW n \in 1..3,
           SettleStatements(c, amount, n)
    PROVE  TotalsType'
<1> USE Constants DEF Assumptions
<1>1. amount \in Nat /\ res[c].day \in Day
  BY DEF TypeOK, Reservation
<1>2. res' \in [Call -> Reservation]
  <2>1. CASE StillOpen(c)
    <3>1. res' = [res EXCEPT ![c].status = "settled", ![c].amount = amount]
      BY <2>1 DEF SettleStatements
    <3>2. \A x \in Call : res[x] \in Reservation
      BY DEF TypeOK
    <3> QED
      BY <3>1, <3>2 DEF TypeOK, Reservation
  <2>2. CASE ~StillOpen(c)
    BY <2>2 DEF SettleStatements, TypeOK
  <2> QED
    BY <2>1, <2>2
<1>3. mission' \in Nat /\ daily' \in [Day -> Nat]
  BY <1>1 DEF SettleStatements, TypeOK, ChargedDay
<1> QED
  BY <1>2, <1>3 DEF TotalsType

LEMMA SettleExpiredType ==
    ASSUME TypeOK, SettleExpired
    PROVE  TotalsType'
<1> USE Constants DEF Assumptions
<1>1. Cardinality(Expired) \in Nat
  BY CallsFinite DEF Expired
<1>2. \A d \in Day : Cardinality({c \in Expired : res[c].day = d}) \in Nat
  BY CallsFinite DEF Expired
<1>3. ASSUME NEW n \in Nat PROVE Estimate * n \in Nat
  BY <1>3
<1>4. mission' \in Nat
  <2> DEFINE charge == Estimate * Cardinality(Expired)
  <2>1. charge \in Nat
    BY <1>1, <1>3
  <2>2. mission' = mission + charge /\ mission \in Nat
    BY DEF SettleExpired, TypeOK
  <2> HIDE DEF charge
  <2> QED
    BY <2>1, <2>2
<1>5. daily' \in [Day -> Nat]
  <2> DEFINE charge(d) == Estimate * Cardinality({c \in Expired : res[c].day = d})
  <2>1. \A d \in Day : charge(d) \in Nat
    BY <1>2, <1>3
  <2>2. daily' = [d \in Day |-> daily[d] + charge(d)] /\ \A d \in Day : daily[d] \in Nat
    BY DEF SettleExpired, TypeOK
  <2> HIDE DEF charge
  <2> QED
    BY <2>1, <2>2
<1>6. res' \in [Call -> Reservation]
  <2>1. ASSUME NEW c \in Call
        PROVE  [res[c] EXCEPT !.status = "settled", !.amount = Estimate] \in Reservation
    <3>1. res[c] \in Reservation /\ Estimate \in 0..MaxCost
      BY DEF TypeOK
    <3>2. ASSUME NEW r \in Reservation, NEW a \in 0..MaxCost
          PROVE  [r EXCEPT !.status = "settled", !.amount = a] \in Reservation
      BY <3>2 DEF Reservation
    <3> QED
      BY <3>1, <3>2
  <2> QED
    BY <2>1 DEF SettleExpired, TypeOK
<1> QED
  BY <1>4, <1>5, <1>6 DEF TotalsType

(* The call a waiting turn waits for.                                      *)
LEMMA CurrentIsCall ==
    ASSUME TypeOK, Counted, NEW t \in Turn, turn[t].pc = "call"
    PROVE  CurrentCall(t) \in Call
BY Constants DEF Assumptions, TypeOK, Counted, Waiting, CurrentCall, Call

TurnsType ==
    /\ turn \in [Turn -> [pc : TurnPc, stream : BOOLEAN, calls : 0..MaxIterations]]
    /\ today \in Day /\ env \in Environment

(* The ranges of all but the pools' counters.                              *)
LEMMA TypeStep ==
    ASSUME TypeOK, Counted, [Next]_vars
    PROVE  TurnsType' /\ TotalsType'
<1> USE Constants DEF Assumptions
<1>1. ASSUME NEW t \in Turn, NEW stream \in BOOLEAN, Admit(t, stream) \/ Refuse(t, stream)
      PROVE  TurnsType' /\ TotalsType'
  <2>1. TotalsType'
    BY <1>1, SettleExpiredType DEF Admit, Refuse
  <2>2. TurnsType'
    BY <1>1 DEF Admit, Refuse, TypeOK, TurnsType, TurnPc
  <2> QED
    BY <2>1, <2>2
<1>2. ASSUME NEW t \in Turn, Reserve(t)
      PROVE  TurnsType' /\ TotalsType'
  <2>1. turn[t].calls + 1 \in 1..MaxIterations
    BY <1>2 DEF Reserve, TypeOK
  <2>2. [status |-> "open", day |-> today, amount |-> 0, expired |-> FALSE] \in Reservation
    BY DEF TypeOK, Reservation
  <2>3. TotalsType'
    BY <1>2, <2>1, <2>2 DEF Reserve, TypeOK, TotalsType
  <2>4. TurnsType'
    BY <1>2, <2>1 DEF Reserve, TypeOK, TurnsType, TurnPc
  <2> QED
    BY <2>3, <2>4
<1>3. ASSUME NEW t \in Turn, Deny(t) \/ IterationLimit(t) \/ Finish(t)
      PROVE  TurnsType' /\ TotalsType'
  BY <1>3 DEF Deny, IterationLimit, Finish, TypeOK, TurnsType, TotalsType, TurnPc
<1>4. ASSUME NEW t \in Turn, NEW amount \in 0..MaxCost, NEW next \in {"top", "end"},
             CallReturns(t, amount, next)
      PROVE  TurnsType' /\ TotalsType'
  <2>1. TotalsType'
    BY <1>4, CurrentIsCall, SettleType DEF CallReturns, Settle
  <2> QED
    BY <1>4, <2>1 DEF CallReturns, TypeOK, TurnsType, TurnPc
<1>5. ASSUME NEW t \in Turn, CallThrows(t)
      PROVE  TurnsType' /\ TotalsType'
  <2>1. TotalsType'
    BY <1>5, CurrentIsCall, SettleType DEF CallThrows, Settle
  <2> QED
    BY <1>5, <2>1 DEF CallThrows, TypeOK, TurnsType, TurnPc
<1>6. ASSUME (\E c \in Call : Expire(c)) \/ Midnight
      PROVE  TurnsType' /\ TotalsType'
  BY <1>6 DEF Expire, Midnight, TypeOK, TurnsType, TotalsType, Reservation
<1>7. ASSUME Crash
      PROVE  TurnsType' /\ TotalsType'
  <2>1. TurnsType'
    BY <1>7 DEF Crash, Killed, TypeOK, TurnsType, TurnPc
  <2>2. CASE UNCHANGED <<res, daily, mission>>
    BY <2>1, <2>2 DEF TypeOK, TotalsType
  <2>3. ASSUME NEW t \in Turn, NEW amount \in 0..MaxCost, NEW n \in 1..2,
               turn[t].pc = "call", SettleStatements(CurrentCall(t), amount, n)
        PROVE  TotalsType'
    BY <2>3, CurrentIsCall, SettleType
  <2> QED
    BY <1>7, <2>1, <2>2, <2>3 DEF Crash
<1>8. ASSUME Sweep
      PROVE  TurnsType' /\ TotalsType'
  BY <1>8, SettleExpiredType DEF Sweep, TypeOK, TurnsType
<1>9. ASSUME UNCHANGED vars
      PROVE  TurnsType' /\ TotalsType'
  BY <1>9 DEF vars, TypeOK, TurnsType, TotalsType
<1> QED
  BY <1>1, <1>2, <1>3, <1>4, <1>5, <1>6, <1>7, <1>8, <1>9
     DEF Next, TurnStep, EnvironmentStep

LEMMA CountedStep ==
    ASSUME TypeOK, Counted, [Next]_vars
    PROVE  Counted'
<1>1. ASSUME NEW t \in Turn, Reserve(t)
      PROVE  Counted'
  BY <1>1 DEF Reserve, Counted, Waiting, TypeOK
<1>2. ASSUME turn' = turn
      PROVE  Counted'
  BY <1>2 DEF Counted, Waiting
<1>3. ASSUME NEW t \in Turn,
             \/ \E stream \in BOOLEAN : Admit(t, stream) \/ Refuse(t, stream)
             \/ Deny(t) \/ IterationLimit(t) \/ Finish(t) \/ CallThrows(t)
             \/ \E amount \in 0..MaxCost, next \in {"top", "end"} : CallReturns(t, amount, next)
      PROVE  Counted'
  BY <1>3 DEF Admit, Refuse, Deny, IterationLimit, Finish, CallThrows, CallReturns,
              Counted, Waiting, TypeOK
<1>4. ASSUME Crash
      PROVE  Counted'
  BY <1>4 DEF Crash, Killed, Counted, Waiting, TypeOK
<1> QED
  BY <1>1, <1>2, <1>3, <1>4
     DEF Next, vars, TurnStep, EnvironmentStep, Expire, Midnight, Sweep

-----------------------------------------------------------------------------
(* Slots.                                                                  *)

LEMMA SlotsStep ==
    ASSUME TypeOK, SlotsMatchHolders, [Next]_vars
    PROVE  SlotsMatchHolders' /\ active' \in [Pool -> Nat]
<1> USE Constants DEF Assumptions
<1>0. /\ \A p \in Pool : /\ IsFiniteSet(Holders(p)) /\ Cardinality(Holders(p)) \in Nat
                         /\ active[p] = Cardinality(Holders(p)) /\ active[p] <= Limit(p)
      /\ active \in [Pool -> Nat]
  BY TurnsFinite DEF Holders, SlotsMatchHolders, TypeOK
<1>1. ASSUME active' = active, \A p \in Pool : Holders(p)' = Holders(p)
      PROVE  SlotsMatchHolders' /\ active' \in [Pool -> Nat]
  BY <1>0, <1>1 DEF SlotsMatchHolders, Limit
<1>2. ASSUME NEW t \in Turn, NEW stream \in BOOLEAN, Admit(t, stream)
      PROVE  SlotsMatchHolders' /\ active' \in [Pool -> Nat]
  <2>1. /\ turn' = [turn EXCEPT ![t].pc = "top", ![t].stream = stream] /\ turn[t].pc = "new"
        /\ active' = [p \in Pool |->
                         IF p = "provider" \/ stream THEN active[p] + 1 ELSE active[p]]
        /\ active["provider"] < Limit("provider")
        /\ stream => active["sse"] < Limit("sse")
    BY <1>2 DEF Admit, HasRoom
  <2>2. ASSUME NEW p \in Pool
        PROVE  Holders(p)' = IF p = "provider" \/ stream THEN Holders(p) \cup {t} ELSE Holders(p)
    BY <2>1 DEF Holders, Held, TypeOK, Pool
  <2>3. \A p \in Pool : t \notin Holders(p)
    BY <2>1 DEF Holders, Held
  <2>4. \A p \in Pool : Cardinality(Holders(p) \cup {t}) = Cardinality(Holders(p)) + 1
    BY <1>0, <2>3, FS_AddElement
  <2>5. \A p \in Pool : p = "provider" \/ stream => active[p] + 1 <= Limit(p)
    BY <1>0, <2>1 DEF Pool, Limit
  <2>6. active' \in [Pool -> Nat]
    BY <1>0, <2>1
  <2>7. ASSUME NEW p \in Pool
        PROVE  active'[p] = Cardinality(Holders(p)') /\ active'[p] <= Limit(p)
    BY <1>0, <2>1, <2>2, <2>4, <2>5
  <2> QED
    BY <2>6, <2>7 DEF SlotsMatchHolders, Limit
<1>3. ASSUME NEW t \in Turn, Finish(t)
      PROVE  SlotsMatchHolders' /\ active' \in [Pool -> Nat]
  <2>1. /\ turn' = [turn EXCEPT ![t].pc = "done"]
        /\ active' = [p \in Pool |-> IF p \in Held(t) THEN active[p] - 1 ELSE active[p]]
    BY <1>3 DEF Finish
  <2>2. \A p \in Pool : Holders(p)' = Holders(p) \ {t}
    BY <2>1 DEF Holders, Held, TypeOK
  <2>3. \A p \in Pool : p \in Held(t) <=> t \in Holders(p)
    BY DEF Holders
  <2>4. \A p \in Pool : /\ Cardinality(Holders(p) \ {t}) \in Nat
                        /\ Cardinality(Holders(p) \ {t}) =
                              IF p \in Held(t) THEN active[p] - 1 ELSE active[p]
    BY <1>0, <2>3, FS_RemoveElement, FS_CardinalityType
  <2>5. \A p \in Pool : Limit(p)' = Limit(p) /\ Limit(p) \in Nat
    BY DEF Limit
  <2>6. active' \in [Pool -> Nat]
    BY <1>0, <2>1, <2>4
  <2>7. ASSUME NEW p \in Pool
        PROVE  active'[p] = Cardinality(Holders(p)') /\ active'[p] <= Limit(p)'
    BY <1>0, <2>1, <2>2, <2>4, <2>5
  <2> QED
    BY <2>6, <2>7 DEF SlotsMatchHolders
<1>4. ASSUME NEW t \in Turn,
             \/ \E stream \in BOOLEAN : Refuse(t, stream)
             \/ Reserve(t) \/ Deny(t) \/ IterationLimit(t) \/ CallThrows(t)
             \/ \E amount \in 0..MaxCost, next \in {"top", "end"} : CallReturns(t, amount, next)
      PROVE  SlotsMatchHolders' /\ active' \in [Pool -> Nat]
  <2>1. /\ active' = active
        /\ \A u \in Turn :
              /\ turn'[u].stream = turn[u].stream
              /\ turn'[u].pc \in {"top", "call", "end"} <=> turn[u].pc \in {"top", "call", "end"}
    BY <1>4 DEF Refuse, Reserve, Deny, IterationLimit, CallThrows, CallReturns, TypeOK
  <2>2. \A p \in Pool : Holders(p)' = Holders(p)
    BY <2>1 DEF Holders, Held
  <2> QED
    BY <1>1, <2>1, <2>2
<1>5. ASSUME Crash
      PROVE  SlotsMatchHolders' /\ active' \in [Pool -> Nat]
  <2>1. /\ active' = [p \in Pool |-> 0] /\ \A t \in Turn : turn'[t].pc \in {"new", "done"}
    BY <1>5 DEF Crash, Killed, TypeOK
  <2>2. \A p \in Pool : Holders(p)' = {}
    BY <2>1 DEF Holders, Held
  <2>3. \A p \in Pool : active'[p] = Cardinality(Holders(p)') /\ active'[p] <= Limit(p)
    BY <2>1, <2>2, FS_EmptySet DEF Limit
  <2>4. active' \in [Pool -> Nat]
    BY <2>1
  <2> QED
    BY <2>3, <2>4 DEF SlotsMatchHolders, Limit
<1>6. ASSUME turn' = turn, active' = active
      PROVE  SlotsMatchHolders' /\ active' \in [Pool -> Nat]
  BY <1>1, <1>6 DEF Holders, Held
<1> QED
  BY <1>2, <1>3, <1>4, <1>5, <1>6
     DEF Next, vars, TurnStep, EnvironmentStep, Expire, Midnight, Sweep

-----------------------------------------------------------------------------
(* The overshoot.                                                          *)

(* Settling closes reservations and opens none.                            *)
LEMMA SettleCloses ==
    ASSUME TypeOK, NEW c \in Call, NEW amount \in 0..MaxCost, Settle(c, amount)
    PROVE  /\ res'[c].status # "open"
           /\ \A x \in Call : /\ res'[x].status = "open" => res[x].status = "open" /\ x # c
                              /\ res'[x].day = res[x].day
                              /\ x # c => res'[x] = res[x]
<1>1. \A x \in Call : res[x] \in Reservation
  BY DEF TypeOK
<1>2. CASE StillOpen(c)
  <2>1. res' = [res EXCEPT ![c].status = "settled", ![c].amount = amount]
    BY <1>2 DEF Settle, SettleStatements
  <2> QED
    BY <1>1, <2>1 DEF TypeOK, Reservation
<1>3. CASE ~StillOpen(c)
  BY <1>3 DEF Settle, SettleStatements, StillOpen
<1> QED
  BY <1>2, <1>3

LEMMA SettleExpiredCloses ==
    ASSUME TypeOK, SettleExpired
    PROVE  \A x \in Call : /\ res'[x].status = "open" <=> res[x].status = "open" /\ x \notin Expired
                           /\ res'[x].day = res[x].day
<1>1. \A x \in Call : res[x] \in Reservation
  BY DEF TypeOK
<1> QED
  BY <1>1 DEF SettleExpired, Reservation, Expired, StillOpen

LEMMA OpenIsWaitingStep ==
    ASSUME TypeOK, Counted, OpenIsWaiting, [Next]_vars
    PROVE  OpenIsWaiting'
<1> USE Constants DEF Assumptions
<1>0. env' = env
  BY DEF Next, vars, TurnStep, EnvironmentStep, Admit, Refuse, Reserve, Deny, IterationLimit,
         CallReturns, CallThrows, Finish, Expire, Midnight, Crash, Sweep
<1>1. SUFFICES ASSUME "crash" \notin env, NEW c \in Call, res'[c].status = "open"
               PROVE  c[1] \in Waiting' /\ c[2] = turn'[c[1]].calls
  BY <1>0 DEF OpenIsWaiting
<1>2. c[1] \in Turn /\ c[2] \in 1..MaxIterations /\ c = <<c[1], c[2]>>
  BY DEF Call
<1>3. ASSUME res[c].status = "open", turn'[c[1]] = turn[c[1]]
      PROVE  c[1] \in Waiting' /\ c[2] = turn'[c[1]].calls
  BY <1>1, <1>2, <1>3 DEF OpenIsWaiting, Waiting
<1>4. ASSUME NEW t \in Turn, NEW stream \in BOOLEAN, Admit(t, stream) \/ Refuse(t, stream)
      PROVE  c[1] \in Waiting' /\ c[2] = turn'[c[1]].calls
  <2>1. res[c].status = "open" /\ turn[t].pc = "new" /\ \A u \in Turn \ {t} : turn'[u] = turn[u]
    BY <1>1, <1>4, SettleExpiredCloses DEF Admit, Refuse, TypeOK
  <2>2. c[1] # t
    BY <1>1, <2>1 DEF OpenIsWaiting, Waiting
  <2> QED
    BY <1>2, <1>3, <2>1, <2>2
<1>5. ASSUME NEW t \in Turn, Reserve(t)
      PROVE  c[1] \in Waiting' /\ c[2] = turn'[c[1]].calls
  <2>1. CASE c = <<t, turn[t].calls + 1>>
    BY <1>5, <2>1 DEF Reserve, Waiting, TypeOK
  <2>2. CASE c # <<t, turn[t].calls + 1>>
    <3>1. res[c].status = "open"
      BY <1>1, <1>5, <2>2 DEF Reserve, TypeOK
    <3>2. c[1] # t
      BY <1>1, <1>5, <3>1 DEF OpenIsWaiting, Waiting, Reserve
    <3> QED
      BY <1>2, <1>3, <1>5, <3>1, <3>2 DEF Reserve, TypeOK
  <2> QED
    BY <2>1, <2>2
<1>6. ASSUME NEW t \in Turn, turn[t].pc # "call", res' = res,
             \A u \in Turn \ {t} : turn'[u] = turn[u]
      PROVE  c[1] \in Waiting' /\ c[2] = turn'[c[1]].calls
  <2>1. c[1] # t
    BY <1>1, <1>6 DEF OpenIsWaiting, Waiting
  <2> QED
    BY <1>1, <1>2, <1>3, <1>6, <2>1
<1>7. ASSUME NEW t \in Turn, Deny(t) \/ IterationLimit(t) \/ Finish(t)
      PROVE  c[1] \in Waiting' /\ c[2] = turn'[c[1]].calls
  BY <1>6, <1>7 DEF Deny, IterationLimit, Finish, TypeOK
<1>8. ASSUME NEW t \in Turn, NEW amount \in 0..MaxCost,
             turn[t].pc = "call", Settle(CurrentCall(t), amount),
             \A u \in Turn \ {t} : turn'[u] = turn[u]
      PROVE  c[1] \in Waiting' /\ c[2] = turn'[c[1]].calls
  <2>1. res[c].status = "open" /\ c # CurrentCall(t)
    BY <1>1, <1>8, CurrentIsCall, SettleCloses
  <2>2. c[2] = turn[c[1]].calls
    BY <1>1, <2>1 DEF OpenIsWaiting
  <2>3. c[1] # t
    BY <1>2, <2>1, <2>2 DEF CurrentCall
  <2> QED
    BY <1>2, <1>3, <1>8, <2>1, <2>3
<1>9. ASSUME NEW t \in Turn,
             \/ CallThrows(t)
             \/ \E amount \in 0..MaxCost, next \in {"top", "end"} : CallReturns(t, amount, next)
      PROVE  c[1] \in Waiting' /\ c[2] = turn'[c[1]].calls
  <2>1. /\ \A u \in Turn \ {t} : turn'[u] = turn[u]
        /\ turn[t].pc = "call"
        /\ \E amount \in 0..MaxCost : Settle(CurrentCall(t), amount)
    BY <1>9 DEF CallThrows, CallReturns, TypeOK
  <2> QED
    BY <1>8, <2>1
<1>10. ASSUME (\E x \in Call : Expire(x)) \/ Midnight \/ Sweep \/ UNCHANGED vars
       PROVE  c[1] \in Waiting' /\ c[2] = turn'[c[1]].calls
  <2>1. turn' = turn
    BY <1>10 DEF Expire, Midnight, Sweep, vars
  <2>2. res[c].status = "open"
    <3>1. CASE Sweep
      BY <1>1, <3>1, SettleExpiredCloses DEF Sweep
    <3>2. CASE \E x \in Call : Expire(x)
      <4>1. res[c] \in Reservation
        BY DEF TypeOK
      <4> QED
        BY <1>1, <3>2, <4>1 DEF Expire, TypeOK, Reservation
    <3>3. CASE Midnight \/ UNCHANGED vars
      BY <1>1, <3>3 DEF Midnight, vars
    <3> QED
      BY <1>10, <3>1, <3>2, <3>3
  <2> QED
    BY <1>3, <2>1, <2>2
<1> QED
  BY <1>1, <1>4, <1>5, <1>7, <1>9, <1>10 DEF Next, TurnStep, EnvironmentStep, Crash

(* The open reservations of a day are at most as many as the waiting turns,  *)
(* and those hold slots of the provider pool.                              *)
LEMMA OpenBound ==
    TypeOK /\ SlotsMatchHolders /\ OpenIsWaiting /\ "crash" \notin env =>
        \A d \in Day : Cardinality(OpenOn(d)) <= ProviderLimit
<1> SUFFICES ASSUME TypeOK, SlotsMatchHolders, OpenIsWaiting, "crash" \notin env, NEW d \in Day
             PROVE  Cardinality(OpenOn(d)) <= ProviderLimit
  OBVIOUS
<1> USE Constants DEF Assumptions
<1>1. Waiting \subseteq Holders("provider")
  BY DEF Waiting, Holders, Held, Pool
<1>2. /\ IsFiniteSet(Holders("provider")) /\ IsFiniteSet(Waiting)
      /\ Cardinality(Waiting) <= Cardinality(Holders("provider"))
      /\ Cardinality(Waiting) \in Nat /\ Cardinality(Holders("provider")) \in Nat
  BY <1>1, TurnsFinite, FS_Subset DEF Waiting, Holders
<1>3. Cardinality(Holders("provider")) <= ProviderLimit
  BY <1>2 DEF SlotsMatchHolders, Pool, Limit
<1> DEFINE turnOf == [c \in OpenOn(d) |-> c[1]]
<1>4. turnOf \in Injection(OpenOn(d), Waiting)
  <2>1. \A c \in OpenOn(d) : /\ c[1] \in Waiting /\ c = <<c[1], c[2]>>
                             /\ c[2] = turn[c[1]].calls
    BY DEF OpenOn, OpenIsWaiting, Call
  <2>2. turnOf \in [OpenOn(d) -> Waiting]
    BY <2>1
  <2>3. ASSUME NEW x \in OpenOn(d), NEW y \in OpenOn(d), turnOf[x] = turnOf[y]
        PROVE  x = y
    BY <2>1, <2>3
  <2> QED
    BY <2>2, <2>3 DEF Injection, IsInjective
<1>5. Cardinality(OpenOn(d)) <= Cardinality(Waiting)
  BY <1>2, <1>4, FS_Injection
<1>6. Cardinality(OpenOn(d)) \in Nat
  BY CallsFinite DEF OpenOn
<1> QED
  BY <1>2, <1>3, <1>5, <1>6

(* What products of the amounts are needed for.                            *)
LEMMA Products ==
    /\ \A n \in Nat : MaxCost * n \in Nat
    /\ \A n \in Nat, m \in Nat : n <= m => MaxCost * n <= MaxCost * m
    /\ \A n \in Nat, m \in Nat : MaxCost * (n + m) = MaxCost * n + MaxCost * m
    /\ MaxCost * 1 = MaxCost
    /\ \A n \in Nat : Estimate * n \in Nat /\ Estimate * n <= MaxCost * n
BY Constants, SMT DEF Assumptions

(* A day's charge only grows by an admitted call.                          *)
NoMore == \A d \in Day : Charged(d)' <= Charged(d) /\ Charged(d)' \in Nat

LEMMA ChargedType ==
    ASSUME TypeOK
    PROVE  \A d \in Day : /\ Charged(d) \in Nat
                          /\ Cardinality(OpenOn(d)) \in Nat /\ IsFiniteSet(OpenOn(d))
<1>1. \A d \in Day : Cardinality(OpenOn(d)) \in Nat /\ IsFiniteSet(OpenOn(d))
  BY CallsFinite DEF OpenOn
<1>2. \A d \in Day : MaxCost * Cardinality(OpenOn(d)) \in Nat
  BY <1>1, Products
<1>3. \A d \in Day : daily[d] \in Nat
  BY DEF TypeOK
<1>4. \A x \in Nat, y \in Nat : x + y \in Nat
  OBVIOUS
<1> QED
  BY <1>1, <1>2, <1>3, <1>4 DEF Charged

(* A settle moves at most MaxCost from the reservation to the total.   *)
LEMMA SettleNoMore ==
    ASSUME TypeOK, NEW c \in Call, NEW amount \in 0..MaxCost, Settle(c, amount)
    PROVE  NoMore
<1> USE Constants DEF Assumptions
<1>1. ASSUME NEW d \in Day
      PROVE  Charged(d)' <= Charged(d) /\ Charged(d)' \in Nat
  <2>1. daily[d] \in Nat /\ Charged(d) \in Nat /\ Cardinality(OpenOn(d)) \in Nat
        /\ IsFiniteSet(OpenOn(d)) /\ amount \in Nat /\ amount <= MaxCost
    BY ChargedType DEF TypeOK
  <2>2. CASE ~StillOpen(c)
    BY <2>1, <2>2 DEF Settle, SettleStatements, Charged, OpenOn
  <2>3. CASE StillOpen(c) /\ res[c].day # d
    <3>1. daily'[d] = daily[d]
      BY <2>3 DEF Settle, SettleStatements, ChargedDay, TypeOK
    <3>2. OpenOn(d)' = OpenOn(d)
      BY <2>3, SettleCloses DEF OpenOn
    <3> QED
      BY <2>1, <3>1, <3>2 DEF Charged
  <2>4. CASE StillOpen(c) /\ res[c].day = d
    <3>1. daily'[d] = daily[d] + amount
      BY <2>4 DEF Settle, SettleStatements, ChargedDay, TypeOK
    <3>2. OpenOn(d)' = OpenOn(d) \ {c} /\ c \in OpenOn(d)
      BY <2>4, SettleCloses DEF OpenOn, StillOpen
    <3> DEFINE n == Cardinality(OpenOn(d) \ {c})
    <3>3. n \in Nat /\ Cardinality(OpenOn(d)) = n + 1
      <4>1. n \in Nat
        BY CallsFinite DEF OpenOn
      <4>2. n = Cardinality(OpenOn(d)) - 1
        BY <2>1, <3>2, FS_RemoveElement
      <4> QED
        BY <2>1, <4>1, <4>2
    <3>4. MaxCost * Cardinality(OpenOn(d)) = MaxCost * n + MaxCost /\ MaxCost * n \in Nat
      BY <3>3, Products
    <3>5. Charged(d)' = daily[d] + amount + MaxCost * n
      BY <3>1, <3>2 DEF Charged
    <3>6. Charged(d) = daily[d] + (MaxCost * n + MaxCost)
      BY <3>4 DEF Charged
    <3> DEFINE e == MaxCost * n
    <3>7. e \in Nat
      BY <3>4
    <3> HIDE DEF e, n
    <3> QED
      BY <2>1, <3>5, <3>6, <3>7 DEF e
  <2> QED
    BY <2>2, <2>3, <2>4
<1> QED
  BY <1>1 DEF NoMore

(* The expiry sweep moves the estimate of each.                            *)
LEMMA SettleExpiredNoMore ==
    ASSUME TypeOK, SettleExpired
    PROVE  NoMore
<1> USE Constants DEF Assumptions
<1>1. ASSUME NEW d \in Day
      PROVE  Charged(d)' <= Charged(d) /\ Charged(d)' \in Nat
  <2> DEFINE Late == {c \in Expired : res[c].day = d}
             k == Cardinality(Late)
             n == Cardinality(OpenOn(d) \ Late)
  <2>1. /\ daily[d] \in Nat /\ Charged(d) \in Nat /\ Cardinality(OpenOn(d)) \in Nat
        /\ IsFiniteSet(OpenOn(d))
    BY ChargedType DEF TypeOK
  <2>2. daily'[d] = daily[d] + Estimate * k
    BY DEF SettleExpired
  <2>3. OpenOn(d)' = OpenOn(d) \ Late /\ OpenOn(d) \cap Late = Late
    BY SettleExpiredCloses DEF OpenOn, Expired, StillOpen
  <2>4. k \in Nat /\ n \in Nat
    BY CallsFinite DEF Expired, OpenOn
  <2>5. n = Cardinality(OpenOn(d)) - k
    BY <2>1, <2>3, FS_Difference
  <2>6. Cardinality(OpenOn(d)) = n + k
    BY <2>1, <2>4, <2>5
  <2>7. /\ MaxCost * Cardinality(OpenOn(d)) = MaxCost * n + MaxCost * k
        /\ MaxCost * n \in Nat /\ MaxCost * k \in Nat
        /\ Estimate * k \in Nat /\ Estimate * k <= MaxCost * k
    BY <2>4, <2>6, Products
  <2>8. Charged(d)' = daily[d] + Estimate * k + MaxCost * n
    BY <2>2, <2>3 DEF Charged
  <2>9. Charged(d) = daily[d] + (MaxCost * n + MaxCost * k)
    BY <2>7 DEF Charged
  <2> DEFINE e == MaxCost * n
             f == MaxCost * k
             g == Estimate * k
  <2>10. e \in Nat /\ f \in Nat /\ g \in Nat /\ g <= f
    BY <2>7
  <2> HIDE DEF e, f, g, n, k, Late
  <2> QED
    BY <2>1, <2>8, <2>9, <2>10 DEF e, f, g
<1> QED
  BY <1>1 DEF NoMore

(* What was charged stays below the bound; an admitted call was admitted    *)
(* with room for itself, beside at most the other waiting turns.           *)
LEMMA OvershootStep ==
    ASSUME TypeOK, Counted, OvershootBounded, [Next]_vars,
           "crash" \notin env,
           \A d \in Day : /\ Cardinality(OpenOn(d)') <= ProviderLimit
                          /\ Cardinality(OpenOn(d)') \in Nat /\ Charged(d)' \in Nat
    PROVE  \A d \in Day : Charged(d)' > 0 =>
              Charged(d)' + Estimate <= Cap + MaxCost * ProviderLimit
<1> USE Constants DEF Assumptions
<1>1. MaxCost * ProviderLimit \in Nat
  BY Products
<1>2. ASSUME NoMore
      PROVE  \A d \in Day : Charged(d)' > 0 =>
                Charged(d)' + Estimate <= Cap + MaxCost * ProviderLimit
  BY <1>1, <1>2, ChargedType DEF NoMore, OvershootBounded
<1>3. ASSUME UNCHANGED <<daily, res>>
      PROVE  NoMore
  <2>1. \A d \in Day : OpenOn(d)' = OpenOn(d) /\ daily'[d] = daily[d]
    BY <1>3 DEF OpenOn
  <2>2. \A d \in Day : Charged(d)' = Charged(d)
    BY <2>1 DEF Charged
  <2>3. \A d \in Day : Charged(d) \in Nat
    BY ChargedType
  <2>4. \A n \in Nat : n <= n
    OBVIOUS
  <2> QED
    BY <2>2, <2>3, <2>4 DEF NoMore
<1>4. ASSUME NEW t \in Turn, Reserve(t)
      PROVE  \A d \in Day : Charged(d)' > 0 =>
                Charged(d)' + Estimate <= Cap + MaxCost * ProviderLimit
  <2> SUFFICES ASSUME NEW d \in Day, Charged(d)' > 0
               PROVE  Charged(d)' + Estimate <= Cap + MaxCost * ProviderLimit
    OBVIOUS
  <2>1. /\ daily' = daily /\ daily[today] + Estimate <= Cap
        /\ res' = [res EXCEPT ![<<t, turn[t].calls + 1>>] =
                      [status |-> "open", day |-> today, amount |-> 0, expired |-> FALSE]]
    BY <1>4 DEF Reserve, BudgetAllows
  <2>2. CASE d = today
    <3> DEFINE e == MaxCost * Cardinality(OpenOn(d)')
               f == MaxCost * ProviderLimit
    <3>1. e \in Nat /\ f \in Nat /\ e <= f
      BY <1>1, Products
    <3>2. Charged(d)' = daily[d] + e /\ daily[d] \in Nat /\ daily[d] + Estimate <= Cap
      BY <2>1, <2>2 DEF Charged, TypeOK
    <3> HIDE DEF e, f
    <3> QED
      BY <3>1, <3>2 DEF f
  <2>3. CASE d # today
    <3>1. OpenOn(d)' \subseteq OpenOn(d)
      BY <2>1, <2>3 DEF OpenOn, TypeOK
    <3>2. Cardinality(OpenOn(d)') <= Cardinality(OpenOn(d))
      BY <3>1, ChargedType, FS_Subset
    <3>3. MaxCost * Cardinality(OpenOn(d)') <= MaxCost * Cardinality(OpenOn(d))
      BY <3>2, ChargedType, Products
    <3> DEFINE e == MaxCost * Cardinality(OpenOn(d)')
               f == MaxCost * Cardinality(OpenOn(d))
    <3>4. e \in Nat /\ f \in Nat /\ e <= f
      BY <3>3, ChargedType, Products
    <3>5. Charged(d)' = daily[d] + e /\ Charged(d) = daily[d] + f /\ daily[d] \in Nat
      BY <2>1 DEF Charged, TypeOK
    <3> HIDE DEF e, f
    <3>6. Charged(d)' <= Charged(d) /\ Charged(d) \in Nat
      BY <3>4, <3>5
    <3> QED
      BY <1>1, <3>6 DEF OvershootBounded
  <2> QED
    BY <2>2, <2>3
<1>5. ASSUME NEW t \in Turn, NEW stream \in BOOLEAN, Admit(t, stream) \/ Refuse(t, stream)
      PROVE  NoMore
  BY <1>5, SettleExpiredNoMore DEF Admit, Refuse
<1>6. ASSUME NEW t \in Turn, Deny(t) \/ IterationLimit(t) \/ Finish(t)
      PROVE  NoMore
  BY <1>3, <1>6 DEF Deny, IterationLimit, Finish
<1>7. ASSUME NEW t \in Turn, NEW amount \in 0..MaxCost, NEW next \in {"top", "end"},
             CallReturns(t, amount, next)
      PROVE  NoMore
  BY <1>7, CurrentIsCall, SettleNoMore DEF CallReturns
<1>8. ASSUME NEW t \in Turn, CallThrows(t)
      PROVE  NoMore
  BY <1>8, CurrentIsCall, SettleNoMore DEF CallThrows
<1>9. ASSUME NEW c \in Call, Expire(c)
      PROVE  NoMore
  <2>1. daily' = daily /\ \A x \in Call : res[x] \in Reservation
    BY <1>9 DEF Expire, TypeOK
  <2>2. \A x \in Call : res'[x].status = res[x].status /\ res'[x].day = res[x].day
    BY <1>9, <2>1 DEF Expire, TypeOK, Reservation
  <2>3. \A d \in Day : OpenOn(d)' = OpenOn(d)
    BY <2>2 DEF OpenOn
  <2> QED
    BY <2>1, <2>3, ChargedType DEF NoMore, Charged
<1>10. ASSUME Sweep
       PROVE  NoMore
  BY <1>10, SettleExpiredNoMore DEF Sweep
<1>11. ASSUME Midnight \/ UNCHANGED vars
       PROVE  NoMore
  BY <1>3, <1>11 DEF Midnight, vars
<1> QED
  BY <1>2, <1>4, <1>5, <1>6, <1>7, <1>8, <1>9, <1>10, <1>11
     DEF Next, TurnStep, EnvironmentStep, Crash

-----------------------------------------------------------------------------
(* Sums over finite sets of calls.  SumFunctionOnSet is defined by          *)
(* recursion over the sets; that it has a value, and that the order of the  *)
(* summands does not matter, is shown by the least counterexample.          *)

LEMMA Least ==
    ASSUME NEW T \in SUBSET Nat, T # {}
    PROVE  \E n \in T : \A m \in T : n <= m
<1>1. PICK n \in T : \A m \in T : ~(<<m, n>> \in OpToRel(<, Nat))
  BY NatLessThanWellFounded, WFMin
<1>2. \A m \in T : ~(m < n)
  BY <1>1 DEF OpToRel
<1>3. \A m \in T : n <= m
  BY <1>2
<1> QED
  BY <1>3

Pick(s) == CHOOSE x \in s : TRUE
SumStep(a, g, s) == IF s = {} THEN 0 ELSE a[Pick(s)] + g[s \ {Pick(s)}]
Sums(a, P, g) == g \in [P -> Nat] /\ \A s \in P : g[s] = SumStep(a, g, s)
Solves(a, C, g) == \A s \in SUBSET C : g[s] = SumStep(a, g, s)
Summable(a, C) == IsFiniteSet(C) /\ \A c \in C : a[c] \in Nat
Agree(a, b, C) == \A c \in C : a[c] = b[c]
UpTo(C, n) == {s \in SUBSET C : Cardinality(s) <= n}

LEMMA Picked ==
    ASSUME NEW C, IsFiniteSet(C), NEW s \in SUBSET C
    PROVE  /\ IsFiniteSet(s) /\ Cardinality(s) \in Nat
           /\ Cardinality(s) = 0 <=> s = {}
           /\ \A x \in s : /\ s \ {x} \in SUBSET C
                           /\ Cardinality(s \ {x}) \in Nat
                           /\ Cardinality(s \ {x}) + 1 = Cardinality(s)
           /\ s # {} => Pick(s) \in s
<1>1. IsFiniteSet(s) /\ Cardinality(s) \in Nat
  BY FS_Subset, FS_CardinalityType
<1>2. Cardinality(s) = 0 <=> s = {}
  BY <1>1, FS_EmptySet
<1>3. ASSUME NEW x \in s
      PROVE  s \ {x} \in SUBSET C /\ Cardinality(s \ {x}) \in Nat
             /\ Cardinality(s \ {x}) + 1 = Cardinality(s)
  <2>1. IsFiniteSet(s \ {x}) /\ Cardinality(s \ {x}) = Cardinality(s) - 1
    BY <1>1, FS_RemoveElement
  <2>2. Cardinality(s \ {x}) \in Nat
    BY <2>1, FS_CardinalityType
  <2> QED
    BY <1>1, <2>1, <2>2
<1>4. s # {} => Pick(s) \in s
  BY DEF Pick
<1> QED
  BY <1>1, <1>2, <1>3, <1>4

LEMMA SumExists ==
    ASSUME NEW C, NEW a, Summable(a, C)
    PROVE  \E g : Sums(a, SUBSET C, g)
<1> USE DEF Summable
<1> DEFINE Bad == {n \in Nat : ~\E g : Sums(a, UpTo(C, n), g)}
<1>1. \E g : Sums(a, UpTo(C, 0), g)
  <2> DEFINE g == [s \in UpTo(C, 0) |-> 0]
  <2>1. \A s \in UpTo(C, 0) : s = {}
    <3> SUFFICES ASSUME NEW s \in UpTo(C, 0) PROVE s = {}
      OBVIOUS
    <3>1. s \in SUBSET C /\ Cardinality(s) <= 0
      BY DEF UpTo
    <3> QED
      BY <3>1, Picked
  <2>2. Sums(a, UpTo(C, 0), g)
    BY <2>1 DEF Sums, SumStep
  <2> QED
    BY <2>2
<1>2. ASSUME NEW n \in Nat, NEW h, Sums(a, UpTo(C, n), h)
      PROVE  \E g : Sums(a, UpTo(C, n + 1), g)
  <2> DEFINE g == [s \in UpTo(C, n + 1) |-> SumStep(a, h, s)]
  <2>1. ASSUME NEW s \in UpTo(C, n + 1)
        PROVE  /\ s # {} => /\ Pick(s) \in C /\ s \ {Pick(s)} \in UpTo(C, n)
                            /\ s \ {Pick(s)} \in UpTo(C, n + 1)
               /\ SumStep(a, h, s) \in Nat
    <3>1. s \in SUBSET C /\ Cardinality(s) <= n + 1
      BY DEF UpTo
    <3>2. s # {} => Pick(s) \in C /\ s \ {Pick(s)} \in UpTo(C, n) /\ s \ {Pick(s)} \in UpTo(C, n + 1)
      BY <3>1, Picked DEF UpTo
    <3>3. \A r \in UpTo(C, n) : h[r] \in Nat
      BY <1>2 DEF Sums
    <3>4. s # {} => a[Pick(s)] \in Nat /\ h[s \ {Pick(s)}] \in Nat
      BY <3>2, <3>3
    <3> QED
      BY <3>2, <3>4 DEF SumStep
  <2>2. ASSUME NEW s \in UpTo(C, n) PROVE s \in UpTo(C, n + 1) /\ g[s] = h[s]
    <3>1. s \in UpTo(C, n + 1)
      BY Picked DEF UpTo
    <3> QED
      BY <1>2, <3>1 DEF Sums
  <2>3. g \in [UpTo(C, n + 1) -> Nat]
    BY <2>1
  <2>4. ASSUME NEW s \in UpTo(C, n + 1) PROVE g[s] = SumStep(a, g, s)
    <3>1. g[s] = SumStep(a, h, s)
      OBVIOUS
    <3>2. s # {} => g[s \ {Pick(s)}] = h[s \ {Pick(s)}]
      BY <2>1, <2>2
    <3> HIDE DEF g
    <3> QED
      BY <3>1, <3>2 DEF SumStep
  <2> HIDE DEF g
  <2> QED
    BY <2>3, <2>4 DEF Sums
<1>3. Bad = {}
  <2> SUFFICES ASSUME Bad # {} PROVE FALSE
    OBVIOUS
  <2>1. PICK n \in Bad : \A m \in Bad : n <= m
    BY Least
  <2>2. n # 0
    BY <1>1
  <2>3. n - 1 \in Nat /\ n - 1 \notin Bad /\ (n - 1) + 1 = n
    BY <2>1, <2>2
  <2>4. PICK h : Sums(a, UpTo(C, n - 1), h)
    BY <2>3
  <2>5. \E g : Sums(a, UpTo(C, (n - 1) + 1), g)
    BY <1>2, <2>3, <2>4
  <2> QED
    BY <2>3, <2>5
<1>4. Cardinality(C) \in Nat /\ UpTo(C, Cardinality(C)) = SUBSET C
  BY FS_Subset, FS_CardinalityType DEF UpTo
<1> DEFINE k == Cardinality(C)
<1>5. k \notin Bad
  BY <1>3
<1>6. \E g : Sums(a, UpTo(C, k), g)
  BY <1>4, <1>5
<1> QED
  BY <1>4, <1>6

(* Two solutions agree where their summands do.                            *)
LEMMA SumUnique ==
    ASSUME NEW C, IsFiniteSet(C), NEW D, NEW a, NEW b, NEW g, NEW h,
           Solves(a, C, g), Solves(b, D, h), NEW r \in SUBSET (C \cap D), Agree(a, b, r)
    PROVE  g[r] = h[r]
<1> USE DEF Solves, Agree
<1> DEFINE Bad == {n \in Nat : \E s \in SUBSET r : Cardinality(s) = n /\ g[s] # h[s]}
<1>1. Bad = {}
  <2> SUFFICES ASSUME Bad # {} PROVE FALSE
    OBVIOUS
  <2>1. PICK n \in Bad : \A m \in Bad : n <= m
    BY Least
  <2>2. PICK s \in SUBSET r : Cardinality(s) = n /\ g[s] # h[s]
    OBVIOUS
  <2>3. s \in SUBSET C /\ s \in SUBSET D
    OBVIOUS
  <2>4. g[s] = SumStep(a, g, s) /\ h[s] = SumStep(b, h, s)
    BY <2>3
  <2>5. s # {}
    BY <2>2, <2>4 DEF SumStep
  <2> DEFINE q == s \ {Pick(s)}
  <2>6. Pick(s) \in s /\ q \in SUBSET r /\ Cardinality(q) \in Nat /\ Cardinality(q) + 1 = n
    BY <2>2, <2>3, <2>5, Picked
  <2>7. g[q] = h[q]
    <3> SUFFICES ASSUME g[q] # h[q] PROVE FALSE
      OBVIOUS
    <3>1. Cardinality(q) \in Bad
      BY <2>6
    <3> HIDE DEF Bad, q
    <3> QED
      BY <2>1, <2>6, <3>1
  <2> QED
    BY <2>2, <2>4, <2>5, <2>6, <2>7 DEF SumStep
<1>2. IsFiniteSet(r) /\ Cardinality(r) \in Nat
  BY Picked
<1> QED
  BY <1>1, <1>2

(* SumFunctionOnSet satisfies the recursion.                               *)
LEMMA SumUnfolds ==
    ASSUME NEW a, NEW C
    PROVE  SumFunctionOnSet(a, C) =
              (CHOOSE g : g = [s \in SUBSET C |-> SumStep(a, g, s)])[C]
BY DEF SumFunctionOnSet, FoldFunctionOnSet, MapThenFoldSet, SumStep, Pick

LEMMA SumSolves ==
    ASSUME NEW C, NEW a, Summable(a, C)
    PROVE  \E g : /\ Solves(a, C, g)
                  /\ \A s \in SUBSET C : g[s] \in Nat /\ SumFunctionOnSet(a, s) = g[s]
<1>1. PICK g : Sums(a, SUBSET C, g)
  BY SumExists
<1>2. Solves(a, C, g) /\ \A s \in SUBSET C : g[s] \in Nat
  BY <1>1 DEF Sums, Solves
<1>3. ASSUME NEW s \in SUBSET C PROVE SumFunctionOnSet(a, s) = g[s]
  <2> DEFINE P(f) == f = [r \in SUBSET s |-> SumStep(a, f, r)]
             h == CHOOSE f : P(f)
  <2>1. Summable(a, s)
    BY FS_Subset DEF Summable
  <2>2. PICK f : Sums(a, SUBSET s, f)
    BY <2>1, SumExists
  <2>3. P(f)
    BY <2>2 DEF Sums
  <2>4. P(h)
    BY <2>3
  <2>5. Solves(a, s, h)
    <3> HIDE DEF h
    <3> QED
      BY <2>4 DEF Solves
  <2>6. SumFunctionOnSet(a, s) = h[s]
    BY SumUnfolds
  <2> HIDE DEF h
  <2>7. s \in SUBSET (C \cap s) /\ Agree(a, a, s) /\ IsFiniteSet(C)
    BY DEF Agree, Summable
  <2>8. g[s] = h[s]
    BY <1>2, <2>5, <2>7, SumUnique
  <2> QED
    BY <2>6, <2>8
<1> QED
  BY <1>2, <1>3

LEMMA SumBasic ==
    ASSUME NEW C, NEW a, Summable(a, C)
    PROVE  /\ \A s \in SUBSET C : SumFunctionOnSet(a, s) \in Nat
           /\ SumFunctionOnSet(a, {}) = 0
           /\ \A s \in SUBSET C : s # {} =>
                 SumFunctionOnSet(a, s) = a[Pick(s)] + SumFunctionOnSet(a, s \ {Pick(s)})
<1>1. PICK g : /\ Solves(a, C, g)
               /\ \A s \in SUBSET C : g[s] \in Nat /\ SumFunctionOnSet(a, s) = g[s]
  BY SumSolves
<1>2. \A s \in SUBSET C : s \ {Pick(s)} \in SUBSET C
  OBVIOUS
<1> QED
  BY <1>1, <1>2 DEF Solves, SumStep

LEMMA SumAgrees ==
    ASSUME NEW C, NEW a, NEW b, Summable(a, C), Agree(a, b, C)
    PROVE  SumFunctionOnSet(a, C) = SumFunctionOnSet(b, C)
<1>1. Summable(b, C)
  BY DEF Summable, Agree
<1>2. PICK g : /\ Solves(a, C, g)
               /\ \A s \in SUBSET C : g[s] \in Nat /\ SumFunctionOnSet(a, s) = g[s]
  BY SumSolves
<1>3. PICK h : /\ Solves(b, C, h)
               /\ \A s \in SUBSET C : h[s] \in Nat /\ SumFunctionOnSet(b, s) = h[s]
  BY <1>1, SumSolves
<1>4. C \in SUBSET (C \cap C) /\ C \in SUBSET C /\ IsFiniteSet(C)
  BY DEF Summable
<1>5. g[C] = h[C]
  BY <1>2, <1>3, <1>4, SumUnique
<1> QED
  BY <1>2, <1>3, <1>4, <1>5

(* Any element may be added last.                                          *)
LEMMA SumTake ==
    ASSUME NEW C, NEW a, Summable(a, C), NEW x \in C
    PROVE  SumFunctionOnSet(a, C) = a[x] + SumFunctionOnSet(a, C \ {x})
<1> DEFINE S(s) == SumFunctionOnSet(a, s)
           Off(s) == \E y \in s : S(s) # a[y] + S(s \ {y})
           Bad == {n \in Nat : \E s \in SUBSET C : Cardinality(s) = n /\ Off(s)}
<1>0. /\ \A s \in SUBSET C : S(s) \in Nat
      /\ \A s \in SUBSET C : s # {} => S(s) = a[Pick(s)] + S(s \ {Pick(s)})
  BY SumBasic
<1> HIDE DEF S
<1> USE DEF Summable
<1>1. Bad = {}
  <2> SUFFICES ASSUME Bad # {} PROVE FALSE
    OBVIOUS
  <2>1. PICK n \in Bad : \A m \in Bad : n <= m
    BY Least
  <2>2. PICK s \in SUBSET C : Cardinality(s) = n /\ Off(s)
    OBVIOUS
  <2>3. PICK y \in s : S(s) # a[y] + S(s \ {y})
    BY <2>2
  <2> DEFINE p == Pick(s)
             q == s \ {p}
             r == s \ {y}
  <2>4. p \in s /\ S(s) = a[p] + S(q)
    BY <1>0, Picked
  <2>5. p # y
    BY <2>3, <2>4
  <2>6. /\ q \in SUBSET C /\ Cardinality(q) \in Nat /\ Cardinality(q) + 1 = n
        /\ r \in SUBSET C /\ Cardinality(r) \in Nat /\ Cardinality(r) + 1 = n
    BY <2>2, <2>4, Picked
  <2>7. y \in q /\ p \in r /\ q \ {y} = r \ {p} /\ q \ {y} \in SUBSET C
    BY <2>4, <2>5
  <2>8. ASSUME NEW u \in SUBSET C, Cardinality(u) \in Nat, Cardinality(u) + 1 = n PROVE ~Off(u)
    <3> SUFFICES ASSUME Off(u) PROVE FALSE
      OBVIOUS
    <3>1. Cardinality(u) \in Bad
      BY <2>8
    <3> HIDE DEF Bad
    <3> QED
      BY <2>1, <2>8, <3>1
  <2> HIDE DEF p, q, r
  <2>9. S(q) = a[y] + S(q \ {y}) /\ S(r) = a[p] + S(r \ {p})
    BY <2>6, <2>7, <2>8
  <2>10. a[p] \in Nat /\ a[y] \in Nat /\ S(q \ {y}) \in Nat
    BY <1>0, <2>3, <2>4, <2>7
  <2>11. S(s) = a[p] + (a[y] + S(q \ {y})) /\ S(r) = a[p] + S(q \ {y})
    BY <2>4, <2>7, <2>9
  <2>12. S(s) = a[y] + S(r)
    BY <2>10, <2>11
  <2> QED
    BY <2>3, <2>12 DEF r
<1>2. C \in SUBSET C /\ Cardinality(C) \in Nat
  BY Picked
<1>3. ~Off(C)
  BY <1>1, <1>2
<1> QED
  BY <1>3 DEF S

(* A set of summands of one value.                                         *)
LEMMA SumAdds ==
    ASSUME NEW C, NEW E, NEW a, NEW k \in Nat, Summable(a, C \cup E), C \cap E = {},
           \A c \in E : a[c] = k
    PROVE  SumFunctionOnSet(a, C \cup E) = SumFunctionOnSet(a, C) + k * Cardinality(E)
<1> DEFINE S(s) == SumFunctionOnSet(a, s)
           Off(s) == S(C \cup s) # S(C) + k * Cardinality(s)
           Bad == {n \in Nat : \E s \in SUBSET E : Cardinality(s) = n /\ Off(s)}
<1>0. IsFiniteSet(C \cup E) /\ \A s \in SUBSET (C \cup E) : S(s) \in Nat
  BY SumBasic DEF Summable
<1>1. IsFiniteSet(E) /\ Cardinality(E) \in Nat
  BY <1>0, FS_Subset, FS_CardinalityType
<1>2. ASSUME NEW s \in SUBSET E, NEW x \in s PROVE S(C \cup s) = k + S(C \cup (s \ {x}))
  <2>1. Summable(a, C \cup s)
    BY <1>0, FS_Subset DEF Summable
  <2>2. x \in C \cup s /\ (C \cup s) \ {x} = C \cup (s \ {x}) /\ a[x] = k
    OBVIOUS
  <2>3. S(C \cup s) = a[x] + S((C \cup s) \ {x})
    BY <2>1, <2>2, SumTake
  <2> QED
    BY <2>2, <2>3
<1> HIDE DEF S
<1>3. Bad = {}
  <2> SUFFICES ASSUME Bad # {} PROVE FALSE
    OBVIOUS
  <2>1. PICK n \in Bad : \A m \in Bad : n <= m
    BY Least
  <2>2. PICK s \in SUBSET E : Cardinality(s) = n /\ Off(s)
    OBVIOUS
  <2>3. CASE s = {}
    <3>1. Cardinality(s) = 0 /\ C \cup s = C /\ S(C) \in Nat
      BY <1>0, <2>3, FS_EmptySet
    <3>2. k * 0 = 0 /\ \A i \in Nat : i + 0 = i
      OBVIOUS
    <3>3. S(C \cup s) = S(C) + k * Cardinality(s)
      BY <3>1, <3>2, Zenon
    <3> QED
      BY <2>2, <3>3
  <2>4. CASE s # {}
    <3>1. PICK x \in s : TRUE
      BY <2>4
    <3> DEFINE q == s \ {x}
               j == Cardinality(q)
    <3>2. q \in SUBSET E /\ j \in Nat /\ j + 1 = n
      BY <1>1, <2>2, Picked
    <3>3. ~Off(q)
      <4> SUFFICES ASSUME Off(q) PROVE FALSE
        OBVIOUS
      <4>1. j \in Bad
        BY <3>2
      <4> HIDE DEF Bad, j
      <4> QED
        BY <2>1, <3>2, <4>1
    <3>4. S(C \cup s) = k + S(C \cup q) /\ S(C \cup q) = S(C) + k * j /\ S(C) \in Nat
      BY <1>0, <1>2, <3>3
    <3> HIDE DEF j, q
    <3>5. k * (j + 1) = k * j + k /\ k * j \in Nat
      BY <3>2
    <3> DEFINE p == k * j
    <3>6. k * n = p + k /\ p \in Nat
      BY <3>2, <3>5
    <3>7. S(C \cup s) = k + (S(C) + p)
      BY <3>4
    <3> HIDE DEF p
    <3>8. S(C \cup s) = S(C) + (p + k)
      BY <3>4, <3>6, <3>7
    <3> QED
      BY <2>2, <3>6, <3>8
  <2> QED
    BY <2>3, <2>4
<1>4. E \in SUBSET E
  OBVIOUS
<1>5. ~Off(E)
  BY <1>1, <1>3, <1>4
<1> QED
  BY <1>5 DEF S

-----------------------------------------------------------------------------
(* The ledger.                                                             *)

(* A call that a turn has not come to was not reserved.                    *)
Unmade == \A c \in Call : c[2] > turn[c[1]].calls => res[c].status = "none"

LEMMA SpentBasic ==
    ASSUME TypeOK, NEW C \in SUBSET Call
    PROVE  /\ Summable([c \in Call |-> res[c].amount], C)
           /\ Spent(C) \in Nat /\ Spent({}) = 0
<1> DEFINE a == [c \in Call |-> res[c].amount]
<1>1. Summable(a, C)
  <2>1. \A c \in Call : a[c] \in Nat
    BY Constants DEF TypeOK, Reservation, Assumptions
  <2> HIDE DEF a
  <2> QED
    BY <2>1, CallsFinite DEF Summable
<1>2. C \in SUBSET C
  OBVIOUS
<1>3. SumFunctionOnSet(a, C) \in Nat /\ SumFunctionOnSet(a, {}) = 0
  BY <1>1, <1>2, SumBasic
<1> QED
  BY <1>1, <1>3 DEF Spent

(* Settled amounts stay; E has been settled at k each.                     *)
LEMMA SpentGrows ==
    ASSUME TypeOK, TypeOK', NEW C \in SUBSET Call, NEW E \in SUBSET Call, C \cap E = {},
           NEW k \in Nat,
           \A c \in C : res'[c].amount = res[c].amount,
           \A c \in E : res'[c].amount = k
    PROVE  SumFunctionOnSet([c \in Call |-> res'[c].amount], C \cup E)
              = Spent(C) + k * Cardinality(E)
<1> PICK a : a = [c \in Call |-> res[c].amount]
  OBVIOUS
<1> PICK b : b = [c \in Call |-> res'[c].amount]
  OBVIOUS
<1>1. Summable(a, C)
  BY SpentBasic
<1>2. Summable(b, C \cup E)
  <2>1. \A c \in Call : b[c] \in Nat
    BY Constants DEF TypeOK, Reservation, Assumptions
  <2> QED
    BY <2>1, CallsFinite DEF Summable
<1>3. Agree(a, b, C) /\ \A c \in E : b[c] = k
  BY DEF Agree
<1>4. SumFunctionOnSet(b, C \cup E) = SumFunctionOnSet(b, C) + k * Cardinality(E)
  BY <1>2, <1>3, SumAdds
<1>5. SumFunctionOnSet(a, C) = SumFunctionOnSet(b, C)
  BY <1>1, <1>3, SumAgrees
<1> QED
  BY <1>4, <1>5 DEF Spent

LEMMA UnmadeStep ==
    ASSUME TypeOK, Counted, Unmade, [Next]_vars
    PROVE  Unmade'
<1> USE Constants DEF Assumptions
<1>0. \A c \in Call : c[1] \in Turn /\ c[2] \in Nat /\ c = <<c[1], c[2]>> /\ res[c] \in Reservation
                      /\ turn[c[1]].calls \in Nat
  BY DEF Call, TypeOK
<1>1. ASSUME \A t \in Turn : turn'[t].calls = turn[t].calls,
             \A c \in Call : res[c].status = "none" => res'[c].status = "none"
      PROVE  Unmade'
  BY <1>0, <1>1 DEF Unmade
<1>2. ASSUME SettleExpired
      PROVE  \A c \in Call : res[c].status = "none" => res'[c].status = "none"
  BY <1>2, <1>0 DEF SettleExpired, Expired, StillOpen
<1>3. ASSUME NEW x \in Call, NEW amount, NEW n, SettleStatements(x, amount, n)
      PROVE  \A c \in Call : res[c].status = "none" => res'[c].status = "none"
  <2>1. res' = res \/ (StillOpen(x) /\ res' = [res EXCEPT ![x].status = "settled", ![x].amount = amount])
    BY <1>3 DEF SettleStatements
  <2> QED
    BY <2>1, <1>0 DEF StillOpen, TypeOK
<1>4. ASSUME NEW t \in Turn, NEW stream \in BOOLEAN, Admit(t, stream) \/ Refuse(t, stream)
      PROVE  Unmade'
  <2>1. \A u \in Turn : turn'[u].calls = turn[u].calls
    BY <1>4 DEF Admit, Refuse, TypeOK
  <2> QED
    BY <1>1, <1>2, <1>4, <2>1 DEF Admit, Refuse
<1>5. ASSUME NEW t \in Turn, Reserve(t)
      PROVE  Unmade'
  <2>1. /\ turn'[t].calls = turn[t].calls + 1
        /\ \A u \in Turn : u # t => turn'[u].calls = turn[u].calls
        /\ \A c \in Call : c # <<t, turn[t].calls + 1>> => res'[c] = res[c]
    BY <1>5 DEF Reserve, TypeOK
  <2>2. ASSUME NEW c \in Call, c[2] > turn'[c[1]].calls PROVE res'[c].status = "none"
    <3>1. c[2] > turn[c[1]].calls /\ c # <<t, turn[t].calls + 1>>
      BY <1>0, <2>1, <2>2
    <3> QED
      BY <2>1, <3>1 DEF Unmade
  <2> QED
    BY <2>2 DEF Unmade
<1>6. ASSUME NEW t \in Turn, Deny(t) \/ IterationLimit(t) \/ Finish(t)
      PROVE  Unmade'
  <2>1. res' = res /\ \A u \in Turn : turn'[u].calls = turn[u].calls
    BY <1>6 DEF Deny, IterationLimit, Finish, TypeOK
  <2> QED
    BY <1>1, <2>1
<1>7. ASSUME NEW t \in Turn, NEW amount \in 0..MaxCost, NEW next \in {"top", "end"},
             CallReturns(t, amount, next) \/ CallThrows(t)
      PROVE  Unmade'
  <2>1. \A u \in Turn : turn'[u].calls = turn[u].calls
    BY <1>7 DEF CallReturns, CallThrows, TypeOK
  <2>2. CurrentCall(t) \in Call
    BY <1>7, CurrentIsCall DEF CallReturns, CallThrows
  <2>3. \E z : SettleStatements(CurrentCall(t), z, 3)
    BY <1>7 DEF CallReturns, CallThrows, Settle
  <2> QED
    BY <1>1, <1>3, <2>1, <2>2, <2>3
<1>8. ASSUME NEW x \in Call, Expire(x)
      PROVE  Unmade'
  <2>1. turn' = turn /\ \A c \in Call : res'[c].status = res[c].status
    BY <1>8, <1>0 DEF Expire, TypeOK, Reservation
  <2> QED
    BY <1>1, <2>1
<1>9. ASSUME Midnight \/ UNCHANGED vars
      PROVE  Unmade'
  BY <1>1, <1>9 DEF Midnight, vars
<1>10. ASSUME Crash
       PROVE  Unmade'
  <2>1. \A u \in Turn : turn'[u].calls = turn[u].calls
    BY <1>10 DEF Crash, Killed, TypeOK
  <2>2. \/ res' = res
        \/ \E t \in Turn : turn[t].pc = "call" /\ \E z, n : SettleStatements(CurrentCall(t), z, n)
    BY <1>10 DEF Crash
  <2> QED
    BY <1>1, <1>3, <2>1, <2>2, CurrentIsCall
<1>11. ASSUME Sweep
       PROVE  Unmade'
  BY <1>1, <1>2, <1>11 DEF Sweep
<1> QED
  BY <1>4, <1>5, <1>6, <1>7, <1>8, <1>9, <1>10, <1>11 DEF Next, TurnStep, EnvironmentStep

(* The three totals of the ledger against the reservations.                *)
LedgerIs(grant, total) ==
    /\ \A d \in Day : daily[d] <= grant[d]
    /\ mission <= total
    /\ "crash" \notin env => (\A d \in Day : daily[d] = grant[d]) /\ mission = total

LEMMA LedgerMeans ==
    LedgerMatches <=> LedgerIs([d \in Day |-> Spent(SettledOn(d))], Spent(Settled))
BY DEF LedgerMatches, LedgerIs

SpentNext(C) == SumFunctionOnSet([c \in Call |-> res'[c].amount], C)

(* The sets of settled calls after a step, with what was settled by it.    *)
LEMMA LedgerSettles ==
    ASSUME TypeOK, TypeOK', NEW E \in SUBSET Call, NEW k \in Nat,
           \A c \in E : res[c].status # "settled" /\ res'[c].status = "settled" /\ res'[c].amount = k,
           \A c \in Call \ E : /\ res'[c].status = "settled" <=> res[c].status = "settled"
                               /\ res[c].status = "settled" => res'[c].amount = res[c].amount
                               /\ res[c].status = "settled" => res'[c].day = res[c].day,
           \A c \in E : res'[c].day = res[c].day
    PROVE  /\ SpentNext(Settled') = Spent(Settled) + k * Cardinality(E)
           /\ \A d \in Day : SpentNext(SettledOn(d)')
                                = Spent(SettledOn(d)) + k * Cardinality({c \in E : res[c].day = d})
<1>1. SpentNext(Settled') = Spent(Settled) + k * Cardinality(E)
  <2>1. Settled' = Settled \cup E /\ Settled \cap E = {} /\ Settled \in SUBSET Call
    BY DEF Settled
  <2>2. \A c \in Settled : res'[c].amount = res[c].amount
    BY <2>1 DEF Settled
  <2> QED
    BY <2>1, <2>2, SpentGrows DEF SpentNext
<1>2. ASSUME NEW d \in Day
      PROVE  SpentNext(SettledOn(d)')
                = Spent(SettledOn(d)) + k * Cardinality({c \in E : res[c].day = d})
  <2> DEFINE F == {c \in E : res[c].day = d}
  <2>1. /\ SettledOn(d)' = SettledOn(d) \cup F /\ SettledOn(d) \cap F = {}
        /\ SettledOn(d) \in SUBSET Call /\ F \in SUBSET Call
    BY DEF SettledOn
  <2>2. \A c \in SettledOn(d) : res'[c].amount = res[c].amount
    BY <2>1 DEF SettledOn
  <2>3. \A c \in F : res'[c].amount = k
    OBVIOUS
  <2> HIDE DEF F
  <2>4. SpentNext(SettledOn(d) \cup F) = Spent(SettledOn(d)) + k * Cardinality(F)
    BY <2>1, <2>2, <2>3, SpentGrows DEF SpentNext
  <2> QED
    BY <2>1, <2>4 DEF F
<1> QED
  BY <1>1, <1>2

(* A step settles the calls of E at k each and leaves the settled ones.     *)
Settles(E, k) ==
    /\ \A c \in E : /\ res[c].status # "settled" /\ res'[c].status = "settled"
                    /\ res'[c].amount = k /\ res'[c].day = res[c].day
    /\ \A c \in Call \ E : /\ res'[c].status = "settled" <=> res[c].status = "settled"
                           /\ res[c].status = "settled" => res'[c].amount = res[c].amount
                           /\ res[c].status = "settled" => res'[c].day = res[c].day

(* It charges them to both totals, or a crash keeps it from doing so.       *)
Charges(E, k) ==
    /\ mission' = mission + k * Cardinality(E)
    /\ \A d \in Day : daily'[d] = daily[d] + k * Cardinality({c \in E : res[c].day = d})

Interrupted(E, k) ==
    /\ "crash" \in env
    /\ mission' = mission \/ mission' = mission + k * Cardinality(E)
    /\ \A d \in Day : daily'[d] = daily[d]

LEMMA Times == ASSUME NEW k \in Nat, NEW n \in Nat PROVE k * n \in Nat
OBVIOUS

LEMMA LedgerGrows ==
    ASSUME TypeOK, TypeOK', LedgerMatches, env' = env, NEW E \in SUBSET Call, NEW k \in Nat,
           Settles(E, k), Charges(E, k) \/ Interrupted(E, k)
    PROVE  LedgerMatches'
<1>1. /\ SpentNext(Settled') = Spent(Settled) + k * Cardinality(E)
      /\ \A d \in Day : SpentNext(SettledOn(d)')
                           = Spent(SettledOn(d)) + k * Cardinality({c \in E : res[c].day = d})
  BY LedgerSettles DEF Settles
<1>2. \A s \in SUBSET Call : Spent(s) \in Nat
  BY SpentBasic
<1>3. ASSUME NEW d \in Day
      PROVE  /\ daily'[d] <= SpentNext(SettledOn(d)')
             /\ "crash" \notin env => daily'[d] = SpentNext(SettledOn(d)')
  <2> PICK g \in Nat : g = k * Cardinality({c \in E : res[c].day = d})
    BY CallsFinite, Times
  <2> PICK s \in Nat : s = Spent(SettledOn(d))
    BY <1>2 DEF SettledOn
  <2>1. SpentNext(SettledOn(d)') = s + g
    BY <1>1
  <2>2. daily[d] \in Nat /\ daily[d] <= s /\ ("crash" \notin env => daily[d] = s)
    BY DEF LedgerMatches, TypeOK
  <2>3. daily'[d] = daily[d] + g \/ ("crash" \in env /\ daily'[d] = daily[d])
    BY DEF Charges, Interrupted
  <2> QED
    BY <2>1, <2>2, <2>3
<1>4. /\ mission' <= SpentNext(Settled')
      /\ "crash" \notin env => mission' = SpentNext(Settled')
  <2> PICK g \in Nat : g = k * Cardinality(E)
    BY CallsFinite, Times
  <2> PICK s \in Nat : s = Spent(Settled)
    BY <1>2 DEF Settled
  <2>1. SpentNext(Settled') = s + g
    BY <1>1
  <2>2. mission \in Nat /\ mission <= s /\ ("crash" \notin env => mission = s)
    BY DEF LedgerMatches, TypeOK
  <2>3. mission' = mission + g \/ ("crash" \in env /\ mission' = mission)
    BY DEF Charges, Interrupted
  <2> QED
    BY <2>1, <2>2, <2>3
<1> QED
  BY <1>3, <1>4 DEF LedgerMatches, Spent, SpentNext

(* A step that settles and charges nothing.                                *)
LEMMA LedgerStays ==
    ASSUME TypeOK, TypeOK', LedgerMatches, env' = env, mission' = mission, daily' = daily,
           Settles({}, 0)
    PROVE  LedgerMatches'
<1>1. Cardinality({}) = 0 /\ \A d \in Day : {c \in {} : res[c].day = d} = {}
  BY FS_EmptySet
<1>2. \A n \in Nat : n + 0 * 0 = n
  OBVIOUS
<1>3. mission \in Nat /\ \A d \in Day : daily[d] \in Nat
  BY DEF TypeOK
<1>4. Charges({}, 0)
  BY <1>1, <1>2, <1>3 DEF Charges
<1> QED
  BY <1>4, LedgerGrows

LEMMA LedgerSettled ==
    ASSUME TypeOK, TypeOK', LedgerMatches, env' = env, NEW c \in Call,
           NEW amount \in 0..MaxCost, NEW n \in 1..3, SettleStatements(c, amount, n),
           n = 3 \/ "crash" \in env
    PROVE  LedgerMatches'
<1>0. amount \in Nat /\ \A x \in Call : res[x] \in Reservation
  BY Constants DEF Assumptions, TypeOK
<1>1. CASE ~StillOpen(c)
  <2>1. res' = res /\ mission' = mission /\ daily' = daily
    BY <1>1 DEF SettleStatements
  <2> QED
    BY <2>1, LedgerStays DEF Settles
<1>2. CASE StillOpen(c)
  <2>1. /\ res' = [res EXCEPT ![c].status = "settled", ![c].amount = amount]
        /\ mission' = IF n >= 2 THEN mission + amount ELSE mission
        /\ daily' = IF n >= 3 THEN [daily EXCEPT ![res[c].day] = daily[res[c].day] + amount]
                    ELSE daily
    BY <1>2 DEF SettleStatements, ChargedDay
  <2>2. /\ res'[c].status = "settled" /\ res'[c].amount = amount /\ res'[c].day = res[c].day
        /\ \A x \in Call : x # c => res'[x] = res[x]
    BY <1>0, <2>1 DEF TypeOK, Reservation
  <2>3. res[c].status # "settled"
    BY <1>2 DEF StillOpen
  <2>4. Settles({c}, amount)
    BY <2>2, <2>3 DEF Settles
  <2>5. Cardinality({c}) = 1 /\ Cardinality({}) = 0 /\ amount * 1 = amount /\ amount * 0 = 0
    BY <1>0, FS_Singleton, FS_EmptySet
  <2>6. \A d \in Day : {x \in {c} : res[x].day = d} = IF res[c].day = d THEN {c} ELSE {}
    OBVIOUS
  <2>7. mission \in Nat /\ daily \in [Day -> Nat] /\ res[c].day \in Day
    BY <1>0 DEF TypeOK, Reservation
  <2>8. CASE n = 3
    <3>1. \A d \in Day : daily'[d] = IF res[c].day = d THEN daily[d] + amount ELSE daily[d]
      BY <2>1, <2>7, <2>8
    <3>2. ASSUME NEW d \in Day
          PROVE  daily'[d] = daily[d] + amount * Cardinality({x \in {c} : res[x].day = d})
      <4> PICK g \in Nat : g = amount * Cardinality({x \in {c} : res[x].day = d})
        <5>1. {x \in {c} : res[x].day = d} \in SUBSET Call
          OBVIOUS
        <5>2. Cardinality({x \in {c} : res[x].day = d}) \in Nat
          BY <5>1, CallsFinite
        <5> QED
          BY <1>0, <5>2, Times
      <4>1. CASE res[c].day = d
        <5>1. {x \in {c} : res[x].day = d} = {c}
          BY <4>1
        <5>2. g = amount * Cardinality({c})
          BY <5>1, Zenon
        <5>3. g = amount * 1
          BY <2>5, <5>2, Zenon
        <5>4. g = amount
          BY <2>5, <5>3, Zenon
        <5> QED
          BY <3>1, <4>1, <5>4
      <4>2. CASE res[c].day # d
        <5>1. {x \in {c} : res[x].day = d} = {}
          BY <4>2
        <5>2. g = amount * Cardinality({})
          BY <5>1, Zenon
        <5>3. g = amount * 0
          BY <2>5, <5>2, Zenon
        <5>4. g = 0
          BY <2>5, <5>3, Zenon
        <5> QED
          BY <2>7, <3>1, <4>2, <5>4
      <4> QED
        BY <4>1, <4>2
    <3>3. Charges({c}, amount)
      BY <2>1, <2>5, <2>8, <3>2 DEF Charges
    <3> QED
      BY <1>0, <2>4, <3>3, LedgerGrows
  <2>9. CASE n # 3
    <3>1. Interrupted({c}, amount)
      BY <2>1, <2>5, <2>9 DEF Interrupted
    <3> QED
      BY <1>0, <2>4, <3>1, LedgerGrows
  <2> QED
    BY <2>8, <2>9
<1> QED
  BY <1>1, <1>2

LEMMA LedgerExpired ==
    ASSUME TypeOK, TypeOK', LedgerMatches, env' = env, SettleExpired
    PROVE  LedgerMatches'
<1>0. Estimate \in Nat /\ Expired \in SUBSET Call /\ \A x \in Call : res[x] \in Reservation
  BY Constants DEF Assumptions, TypeOK, Expired
<1>1. \A c \in Expired : /\ res'[c].status = "settled" /\ res'[c].amount = Estimate
                         /\ res'[c].day = res[c].day /\ res[c].status # "settled"
  BY <1>0 DEF SettleExpired, Reservation, Expired, StillOpen
<1>2. \A c \in Call \ Expired : res'[c] = res[c]
  BY DEF SettleExpired
<1>3. Settles(Expired, Estimate)
  BY <1>1, <1>2 DEF Settles
<1>4. Charges(Expired, Estimate)
  BY DEF SettleExpired, Charges
<1> QED
  BY <1>0, <1>3, <1>4, LedgerGrows

LEMMA LedgerStep ==
    ASSUME TypeOK, TypeOK', Counted, Unmade, LedgerMatches, [Next]_vars
    PROVE  LedgerMatches'
<1> USE Constants DEF Assumptions
<1>0. env' = env
  BY DEF Next, vars, TurnStep, EnvironmentStep, Admit, Refuse, Reserve, Deny, IterationLimit,
         CallReturns, CallThrows, Finish, Expire, Midnight, Crash, Sweep
<1>1. ASSUME NEW t \in Turn, NEW stream \in BOOLEAN, Admit(t, stream) \/ Refuse(t, stream)
      PROVE  LedgerMatches'
  BY <1>0, <1>1, LedgerExpired DEF Admit, Refuse
<1>2. ASSUME NEW t \in Turn, Reserve(t)
      PROVE  LedgerMatches'
  <2> DEFINE made == <<t, turn[t].calls + 1>>
  <2>1. turn[t].calls \in Nat /\ turn[t].calls + 1 \in 1..MaxIterations
    BY <1>2 DEF Reserve, TypeOK
  <2>2. made \in Call /\ made[1] = t /\ made[2] = turn[t].calls + 1
    BY <2>1 DEF Call
  <2>3. res[made].status = "none"
    BY <2>1, <2>2 DEF Unmade
  <2> HIDE DEF made
  <2>4. /\ res' = [res EXCEPT ![made] =
                     [status |-> "open", day |-> today, amount |-> 0, expired |-> FALSE]]
        /\ mission' = mission /\ daily' = daily
    BY <1>2 DEF Reserve, made
  <2>5. res'[made].status = "open" /\ \A c \in Call : c # made => res'[c] = res[c]
    BY <2>2, <2>4 DEF TypeOK
  <2>6. Settles({}, 0)
    BY <2>3, <2>5 DEF Settles
  <2> QED
    BY <1>0, <2>4, <2>6, LedgerStays
<1>3. ASSUME res' = res, mission' = mission, daily' = daily
      PROVE  LedgerMatches'
  BY <1>0, <1>3, LedgerStays DEF Settles
<1>4. ASSUME NEW t \in Turn, NEW amount \in 0..MaxCost, NEW next \in {"top", "end"},
             CallReturns(t, amount, next)
      PROVE  LedgerMatches'
  BY <1>0, <1>4, CurrentIsCall, LedgerSettled DEF CallReturns, Settle
<1>5. ASSUME NEW t \in Turn, CallThrows(t)
      PROVE  LedgerMatches'
  BY <1>0, <1>5, CurrentIsCall, LedgerSettled DEF CallThrows, Settle
<1>6. ASSUME NEW x \in Call, Expire(x)
      PROVE  LedgerMatches'
  <2>1. /\ mission' = mission /\ daily' = daily
        /\ \A c \in Call : /\ res'[c].status = res[c].status /\ res'[c].amount = res[c].amount
                           /\ res'[c].day = res[c].day
    BY <1>6 DEF Expire, TypeOK, Reservation
  <2>2. Settles({}, 0)
    BY <2>1 DEF Settles
  <2> QED
    BY <1>0, <2>1, <2>2, LedgerStays
<1>7. ASSUME Crash
      PROVE  LedgerMatches'
  <2>1. ASSUME NEW t \in Turn, NEW amount \in 0..MaxCost, NEW n \in 1..2,
               turn[t].pc = "call", SettleStatements(CurrentCall(t), amount, n)
        PROVE  LedgerMatches'
    <3>1. "crash" \in env /\ n \in 1..3 /\ CurrentCall(t) \in Call
      BY <1>7, <2>1, CurrentIsCall DEF Crash
    <3> QED
      BY <1>0, <2>1, <3>1, LedgerSettled
  <2> QED
    BY <1>3, <1>7, <2>1 DEF Crash
<1>8. ASSUME Sweep
      PROVE  LedgerMatches'
  BY <1>0, <1>8, LedgerExpired DEF Sweep
<1>9. ASSUME Midnight \/ UNCHANGED vars
      PROVE  LedgerMatches'
  BY <1>3, <1>9 DEF Midnight, vars
<1>10. ASSUME NEW t \in Turn, Deny(t) \/ IterationLimit(t) \/ Finish(t)
       PROVE  LedgerMatches'
  BY <1>3, <1>10 DEF Deny, IterationLimit, Finish
<1> QED
  BY <1>1, <1>2, <1>4, <1>5, <1>6, <1>7, <1>8, <1>9, <1>10 DEF Next, TurnStep, EnvironmentStep

LEMMA LedgerInit == Init /\ TypeOK => LedgerMatches /\ Unmade
<1> SUFFICES ASSUME Init, TypeOK PROVE LedgerMatches /\ Unmade
  OBVIOUS
<1>1. \A c \in Call : res[c].status = "none"
  BY DEF Init, NoReservation
<1>2. Settled = {} /\ \A d \in Day : SettledOn(d) = {}
  BY <1>1 DEF Settled, SettledOn
<1>3. Spent({}) = 0
  <2>1. {} \in SUBSET Call
    OBVIOUS
  <2> QED
    BY <2>1, SpentBasic
<1>4. mission = 0 /\ \A d \in Day : daily[d] = 0
  BY DEF Init
<1> QED
  BY <1>1, <1>2, <1>3, <1>4 DEF LedgerMatches, Unmade

-----------------------------------------------------------------------------
LEMMA ChargedIsNat == TypeOK => \A d \in Day : Charged(d) \in Nat /\ Cardinality(OpenOn(d)) \in Nat
BY ChargedType

(* The inductive invariant holds at the start, and every step keeps it.    *)
LEMMA Inductive ==
    /\ Init => IInv
    /\ IInv /\ [Next]_vars => IInv'
<1> USE Constants DEF Assumptions
<1>1. ASSUME Init PROVE IInv
  <2>1. TypeOK
    BY <1>1 DEF Init, TypeOK, TurnPc, Reservation, NoReservation
  <2>2. SlotsMatchHolders
    <3>1. \A p \in Pool : Holders(p) = {}
      BY <1>1 DEF Init, Holders, Held
    <3>2. \A p \in Pool : active[p] = 0 /\ 0 <= Limit(p)
      BY <1>1 DEF Init, Limit
    <3>3. \A p \in Pool : Cardinality(Holders(p)) = 0
      BY <3>1, FS_EmptySet
    <3> QED
      BY <3>2, <3>3 DEF SlotsMatchHolders
  <2>3. OpenIsWaiting /\ Counted
    BY <1>1 DEF Init, OpenIsWaiting, Counted, Waiting, NoReservation
  <2>4. OvershootBounded
    <3>1. \A d \in Day : OpenOn(d) = {} /\ daily[d] = 0
      BY <1>1 DEF Init, OpenOn, NoReservation
    <3>2. MaxCost * 0 = 0
      OBVIOUS
    <3>3. \A d \in Day : Charged(d) = 0
      BY <3>1, <3>2, FS_EmptySet DEF Charged
    <3> QED
      BY <3>3 DEF OvershootBounded
  <2> QED
    BY <2>1, <2>2, <2>3, <2>4 DEF IInv
<1>2. ASSUME IInv, [Next]_vars PROVE IInv'
  <2> USE <1>2 DEF IInv
  <2>1. TurnsType' /\ TotalsType' /\ active' \in [Pool -> Nat] /\ SlotsMatchHolders'
    BY TypeStep, SlotsStep
  <2>2. TypeOK'
    BY <2>1 DEF TypeOK, TurnsType, TotalsType
  <2>3. OpenIsWaiting' /\ Counted'
    BY OpenIsWaitingStep, CountedStep
  <2>4. OvershootBounded'
    <3>1. ASSUME "crash" \notin env
          PROVE  \A d \in Day : Cardinality(OpenOn(d)') <= ProviderLimit
      <4>1. env' = env
        BY DEF Next, vars, TurnStep, EnvironmentStep, Admit, Refuse, Reserve, Deny,
               IterationLimit, CallReturns, CallThrows, Finish, Expire, Midnight, Crash, Sweep
      <4>2. (TypeOK /\ SlotsMatchHolders /\ OpenIsWaiting /\ "crash" \notin env =>
                \A d \in Day : Cardinality(OpenOn(d)) <= ProviderLimit)'
        BY OpenBound, PTL
      <4> QED
        BY <2>1, <2>2, <2>3, <3>1, <4>1, <4>2
    <3>2. \A d \in Day : Charged(d)' \in Nat /\ Cardinality(OpenOn(d)') \in Nat
      <4>1. (TypeOK => \A d \in Day : Charged(d) \in Nat /\ Cardinality(OpenOn(d)) \in Nat)'
        BY ChargedIsNat, PTL
      <4> QED
        BY <2>2, <4>1
    <3>3. env' = env
      BY DEF Next, vars, TurnStep, EnvironmentStep, Admit, Refuse, Reserve, Deny,
             IterationLimit, CallReturns, CallThrows, Finish, Expire, Midnight, Crash, Sweep
    <3> QED
      BY <3>1, <3>2, <3>3, OvershootStep DEF OvershootBounded
  <2> QED
    BY <2>1, <2>2, <2>3, <2>4
<1> QED
  BY <1>1, <1>2

LEMMA Invariance == Spec => []IInv
BY Inductive, PTL DEF Spec

(* The ledger, the turns and the pools' counters stay in their ranges:      *)
(* governance-store.ts and provider-concurrency-guard.ts.                  *)
THEOREM TypeCorrect == Spec => []TypeOK
BY Invariance, PTL DEF IInv

(* However turns are admitted, refused, denied, fail or are killed, a pool's *)
(* counter is the number of turns that hold a slot of it, and within its     *)
(* limit: ProviderConcurrencyGuard and the exits of handleAgent.           *)
THEOREM SlotsBalanced == Spec => []SlotsMatchHolders
BY Invariance, PTL DEF IInv

(* Turns that check the cap beside each other pass it by what the calls the  *)
(* provider pool lets be in flight cost, whatever was estimated, whatever    *)
(* expires and whenever midnight comes:                                    *)
(* createReservation and settleReservation.                                *)
THEOREM OvershootHasBound == Spec => []OvershootBounded
BY Invariance, PTL DEF IInv

(* The ledger's own strengthening: no call is reserved before its turn      *)
(* comes to it, so what a new reservation replaces was never settled.       *)
LEMMA LedgerInvariance == Spec => [](Unmade /\ LedgerMatches)
<1>1. Init => Unmade /\ LedgerMatches
  <2>1. Init => TypeOK
    BY Inductive DEF IInv
  <2> QED
    BY <2>1, LedgerInit
<1>2. IInv /\ IInv' /\ [Next]_vars /\ Unmade /\ LedgerMatches
      => (Unmade /\ LedgerMatches)'
  BY UnmadeStep, LedgerStep DEF IInv
<1> QED
  BY <1>1, <1>2, Invariance, PTL DEF Spec

(* Whatever settles a reservation, nothing is charged twice or to another    *)
(* day, and without a crash inside a settle nothing is left uncharged:      *)
(* settleReservation and settleExpiredReservations.                        *)
THEOREM LedgerBalances == Spec => []LedgerMatches
BY LedgerInvariance, PTL
=============================================================================
