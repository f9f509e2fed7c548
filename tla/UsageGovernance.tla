----------------------------- MODULE UsageGovernance -----------------------------
(***************************************************************************)
(* Agent turns of one grant with a daily cost cap: /api/agent (handleAgent), *)
(* the provider and SSE slots (ProviderConcurrencyGuard), the provider calls *)
(* of runAgentLoop with the reserve/settle hook around each, and the ledger  *)
(* of GovernanceStore (usage_reservations, grant_daily_usage,               *)
(* mission_usage).                                                         *)
(*                                                                         *)
(* The ledger's methods are synchronous, so each is one step; every SQL     *)
(* statement commits on its own, so a crash may fall between two of them.    *)
(***************************************************************************)
EXTENDS Naturals, FiniteSets, Functions

CONSTANTS
    Turn,            \* agent requests of the grant
    MaxIterations,   \* provider calls a turn may make
    MaxCalls,        \* bound: provider calls of all turns together
    Day,             \* accounting days, 0..LastDay
    Estimate,        \* what a call is estimated to cost when it is reserved
    MaxCost,         \* the most a call is charged: computeFixedCostMicrodollars of the usage
                     \* the provider reports, which nothing caps at the estimate, or the
                     \* estimate itself, if its reservation expires
    Cap,             \* maxDailyEstimatedCostUsd in microdollars
    ProviderLimit,   \* configured limit of the provider pool
    SseLimit,        \* configured limit of the SSE pool
    Environment      \* the sets of environment events, each a subset of FaultKind, that
                     \* the behaviours of this instance may face

FaultKind == {"crash", "expiry"}

ASSUME TurnAssumption == IsFiniteSet(Turn)
ASSUME MaxIterationsAssumption == MaxIterations \in Nat /\ MaxCalls \in Nat
ASSUME DayAssumption == Day \subseteq Nat /\ 0 \in Day
ASSUME MoneyAssumption ==
    Estimate \in Nat /\ MaxCost \in Nat /\ Cap \in Nat /\ Estimate <= MaxCost
ASSUME LimitAssumption == ProviderLimit \in Nat /\ SseLimit \in Nat
ASSUME EnvironmentAssumption == Environment \subseteq SUBSET FaultKind

VARIABLES
    turn,      \* the agent requests
    res,       \* usage_reservations, keyed by the call they were made for
    daily,     \* grant_daily_usage of the grant
    mission,   \* mission_usage of the mission the turns belong to
    active,    \* ProviderConcurrencyGuard's counters
    today,     \* the clock's accounting day
    env        \* the environment events of this behaviour; never changes

vars == <<turn, res, daily, mission, active, today, env>>

Call == Turn \X (1..MaxIterations)
Pool == {"provider", "sse"}
Limit(p) == IF p = "provider" THEN ProviderLimit ELSE SseLimit

TurnPc == {"new", "top", "call", "end", "done"}
NoReservation == [status |-> "none", day |-> 0, amount |-> 0, expired |-> FALSE]
Reservation == [status : {"none", "open", "settled"}, day : Day, amount : 0..MaxCost,
                expired : BOOLEAN]

Made == {c \in Call : res[c].status # "none"}
CurrentCall(t) == <<t, turn[t].calls>>
Held(t) == IF turn[t].pc \in {"top", "call", "end"}
           THEN IF turn[t].stream THEN Pool ELSE {"provider"}
           ELSE {}
Holders(p) == {t \in Turn : p \in Held(t)}

TypeOK ==
    /\ turn \in [Turn -> [pc : TurnPc, stream : BOOLEAN, calls : 0..MaxIterations]]
    /\ res \in [Call -> Reservation]
    /\ daily \in [Day -> Nat]
    /\ mission \in Nat
    /\ active \in [Pool -> Nat]
    /\ today \in Day
    /\ env \in Environment

Init ==
    /\ turn = [t \in Turn |-> [pc |-> "new", stream |-> FALSE, calls |-> 0]]
    /\ res = [c \in Call |-> NoReservation]
    /\ daily = [d \in Day |-> 0]
    /\ mission = 0
    /\ active = [p \in Pool |-> 0]
    /\ today = 0
    /\ env \in Environment

-----------------------------------------------------------------------------
(* The ledger.                                                             *)

MutStillOpen(c) == res[c].status \in {"open", "settled"}
StillOpen(c) == res[c].status = "open"

ChargedDay(c) == res[c].day

(* settleReservation as its first n statements: the reservation row, the    *)
(* mission's total, the grant's total of the day it was reserved on.        *)
SettleStatements(c, amount, n) ==
    /\ res' = IF n >= 1 /\ StillOpen(c)
              THEN [res EXCEPT ![c].status = "settled", ![c].amount = amount] ELSE res
    /\ mission' = IF n >= 2 /\ StillOpen(c) THEN mission + amount ELSE mission
    /\ daily' = IF n >= 3 /\ StillOpen(c)
                THEN [daily EXCEPT ![ChargedDay(c)] = @ + amount] ELSE daily

Settle(c, amount) == SettleStatements(c, amount, 3)

(* settleExpiredReservations: every open reservation past its expiry, at    *)
(* the full amount.                                                        *)
Expired == {c \in Call : StillOpen(c) /\ res[c].expired}
SettleExpired ==
    /\ res' = [c \in Call |-> IF c \in Expired
                              THEN [res[c] EXCEPT !.status = "settled", !.amount = Estimate]
                              ELSE res[c]]
    /\ mission' = mission + Estimate * Cardinality(Expired)
    /\ daily' = [d \in Day |->
                    daily[d] + Estimate * Cardinality({c \in Expired : res[c].day = d})]

MutBudgetAllows == daily[today] <= Cap
BudgetAllows == daily[today] + Estimate <= Cap

-----------------------------------------------------------------------------
(* A turn.  getGovernanceStore settles what has expired; the slots are      *)
(* taken in the order SSE, provider, and a refusal gives back what was      *)
(* taken.                                                                  *)

HasRoom(p) == active[p] < Limit(p)

Admit(t, stream) ==
    /\ turn[t].pc = "new"
    /\ SettleExpired
    /\ HasRoom("provider") /\ (stream => HasRoom("sse"))
    /\ turn' = [turn EXCEPT ![t].pc = "top", ![t].stream = stream]
    /\ active' = [p \in Pool |->
                    IF p = "provider" \/ stream THEN active[p] + 1 ELSE active[p]]
    /\ UNCHANGED <<today, env>>

MutRefuse(t, stream) ==
    /\ turn[t].pc = "new"
    /\ SettleExpired
    /\ ~(HasRoom("provider") /\ (stream => HasRoom("sse")))
    /\ turn' = [turn EXCEPT ![t].pc = "done"]
    /\ active' = IF stream /\ HasRoom("sse") THEN [active EXCEPT !["sse"] = @ + 1] ELSE active
    /\ UNCHANGED <<today, env>>

Refuse(t, stream) ==
    /\ turn[t].pc = "new"
    /\ SettleExpired
    /\ ~(HasRoom("provider") /\ (stream => HasRoom("sse")))
    /\ turn' = [turn EXCEPT ![t].pc = "done"]
    /\ UNCHANGED <<active, today, env>>

(* The top of runAgentLoop's for loop: reserve, or stop.                    *)
MutReserve(t) ==
    /\ turn[t].pc = "top" /\ turn[t].calls <= MaxIterations
    /\ BudgetAllows
    /\ turn' = [turn EXCEPT ![t].pc = "call", ![t].calls = @ + 1]
    /\ UNCHANGED <<res, daily, mission, active, today, env>>

Reserve(t) ==
    /\ turn[t].pc = "top" /\ turn[t].calls < MaxIterations
    /\ BudgetAllows /\ Cardinality(Made) < MaxCalls
    /\ turn' = [turn EXCEPT ![t].pc = "call", ![t].calls = @ + 1]
    /\ res' = [res EXCEPT ![<<t, turn[t].calls + 1>>] =
                  [status |-> "open", day |-> today, amount |-> 0, expired |-> FALSE]]
    /\ UNCHANGED <<daily, mission, active, today, env>>

Deny(t) ==
    /\ turn[t].pc = "top" /\ turn[t].calls < MaxIterations
    /\ ~BudgetAllows
    /\ turn' = [turn EXCEPT ![t].pc = "end"]
    /\ UNCHANGED <<res, daily, mission, active, today, env>>

IterationLimit(t) ==
    /\ turn[t].pc = "top" /\ turn[t].calls = MaxIterations
    /\ turn' = [turn EXCEPT ![t].pc = "end"]
    /\ UNCHANGED <<res, daily, mission, active, today, env>>

(* The stream ended, and the call is settled at the cost of the usage that  *)
(* was reported: more than the estimate when the context or the cache was   *)
(* larger than estimated, zero when no usage was reported                   *)
(* (collectStreamEvents starts from none).  The call either asked for tools *)
(* (another iteration) or was the last.                                     *)
CallReturns(t, amount, next) ==
    /\ turn[t].pc = "call"
    /\ Settle(CurrentCall(t), amount)
    /\ turn' = [turn EXCEPT ![t].pc = next]
    /\ UNCHANGED <<active, today, env>>

(* The stream threw: the call is settled at the full reservation.           *)
CallThrows(t) ==
    /\ turn[t].pc = "call"
    /\ Settle(CurrentCall(t), Estimate)
    /\ turn' = [turn EXCEPT ![t].pc = "end"]
    /\ UNCHANGED <<active, today, env>>

(* The handler's finally: both slots go back.                              *)
Finish(t) ==
    /\ turn[t].pc = "end"
    /\ turn' = [turn EXCEPT ![t].pc = "done"]
    /\ active' = [p \in Pool |-> IF p \in Held(t) THEN active[p] - 1 ELSE active[p]]
    /\ UNCHANGED <<res, daily, mission, today, env>>

-----------------------------------------------------------------------------
(* Environment.                                                            *)

(* A reservation's five minutes pass.                                      *)
Expire(c) ==
    /\ "expiry" \in env
    /\ StillOpen(c) /\ ~res[c].expired
    /\ res' = [res EXCEPT ![c].expired = TRUE]
    /\ UNCHANGED <<turn, daily, mission, active, today, env>>

Midnight ==
    /\ today + 1 \in Day
    /\ today' = today + 1
    /\ UNCHANGED <<turn, res, daily, mission, active, env>>

Killed == /\ turn' = [t \in Turn |-> IF turn[t].pc = "new" THEN turn[t]
                                     ELSE [turn[t] EXCEPT !.pc = "done"]]
          /\ active' = [p \in Pool |-> 0]

(* The process dies between two steps, or inside a settle after its first   *)
(* or second statement; the next process starts.                           *)
Crash ==
    /\ "crash" \in env
    /\ Killed
    /\ \/ UNCHANGED <<res, daily, mission>>
       \/ \E t \in Turn, amount \in 0..MaxCost, n \in 1..2 :
             turn[t].pc = "call" /\ SettleStatements(CurrentCall(t), amount, n)
    /\ UNCHANGED <<today, env>>

(* The server's bootstrap, and every later lookup of the store.            *)
Sweep ==
    /\ Expired # {}
    /\ SettleExpired
    /\ UNCHANGED <<turn, active, today, env>>

-----------------------------------------------------------------------------

TurnStep(t) ==
    \/ Reserve(t) \/ Deny(t) \/ IterationLimit(t)
    \/ \E next \in {"top", "end"} :
          \E amount \in 0..MaxCost : CallReturns(t, amount, next)
    \/ CallThrows(t)
    \/ Finish(t)

EnvironmentStep ==
    \/ \E t \in Turn, stream \in BOOLEAN : Admit(t, stream) \/ Refuse(t, stream)
    \/ \E c \in Call : Expire(c)
    \/ Midnight \/ Crash \/ Sweep

Next == (\E t \in Turn : TurnStep(t)) \/ EnvironmentStep

Spec == Init /\ [][Next]_vars

-----------------------------------------------------------------------------
(* Properties.                                                             *)

SettledOn(d) == {c \in Call : res[c].status = "settled" /\ res[c].day = d}
OpenOn(d) == {c \in Call : res[c].status = "open" /\ res[c].day = d}
Settled == {c \in Call : res[c].status = "settled"}
Spent(C) == SumFunctionOnSet([c \in Call |-> res[c].amount], C)

(* Whatever settles a reservation, its turn or the expiry sweep, before or  *)
(* after midnight or a crash, nothing is charged twice or to another day:   *)
(* the totals never pass the settled reservations, and as long as no crash  *)
(* falls inside a settle they equal them.                                  *)
LedgerMatches ==
    /\ \A d \in Day : daily[d] <= Spent(SettledOn(d))
    /\ mission <= Spent(Settled)
    /\ "crash" \notin env => (\A d \in Day : daily[d] = Spent(SettledOn(d))) /\ mission = Spent(Settled)

(* Without a crash what a day is charged, open reservations included at what *)
(* they may turn out to cost, passes the cap by at most what the last       *)
(* admitted call costs beyond its estimate and what the calls in flight     *)
(* beside it cost, of which the provider pool lets there be no more than    *)
(* its other slots.                                                        *)
Charged(d) == daily[d] + MaxCost * Cardinality(OpenOn(d))
OvershootBounded ==
    "crash" \notin env =>
        \A d \in Day : Charged(d) > 0 =>
            Charged(d) + Estimate <= Cap + MaxCost * ProviderLimit

(* A slot is counted exactly while a turn holds it, whichever way the turn  *)
(* is refused, denied, failed or finished; the limits are never passed.     *)
SlotsMatchHolders ==
    \A p \in Pool : active[p] = Cardinality(Holders(p)) /\ active[p] <= Limit(p)
=============================================================================
