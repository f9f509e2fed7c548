----------------------- MODULE WorkspaceRetentionProofs -----------------------
(***************************************************************************)
(* Theorems about WorkspaceRetention for every set of workspaces and       *)
(* missions, every grace window, clock and environment.                    *)
(*                                                                         *)
(* The sweeps and the server share the disk and no lock, so what keeps a   *)
(* workspace that a mission relies on is spread over both of them.  RInv   *)
(* puts it together: a reason to keep a workspace (Wanted) is either among *)
(* the references the second sweep reads again, or younger than the window *)
(* that it waits (Dated); so what it is about to erase is not wanted       *)
(* (Spared), and what is wanted is in its place or can be restored (Kept). *)
(***************************************************************************)
EXTENDS WorkspaceRetention, FiniteSetTheorems, TLAPS

(* The types of TypeOK.                                                    *)
Typed ==
    /\ root \in SUBSET Workspace
    /\ quarantine \in SUBSET Entry /\ used \in SUBSET Entry
    /\ meta \in [Entry -> Time \cup {None}]
    /\ record \in [Mission -> Workspace \cup {None}]
    /\ index \in SUBSET Mission /\ anchored \in SUBSET Mission
    /\ up \in {"boot", "serving"} /\ clock \in Time /\ env \in Environment
    /\ queue \in Seq(Workspace)
    /\ intake \in [Workspace -> IntakeStep]
    /\ op \in OpType \cup {None}
    /\ sweep \in [Sweep -> SweepType]
    /\ started \in [Workspace -> Time]

Pair == Entry \X (Time \cup {None})
Moving == {"move", "describe"}
Judging == {"judge", "restore", "forget", "unmark", "erase"}
Naming == {"describe", "restore", "forget", "unmark", "erase"}

(* What a sweep holds between its steps.                                   *)
Holding(x) ==
    /\ x.at \in Moving => x.todo \in SUBSET Workspace
    /\ x.at \in Judging => /\ x.todo \in SUBSET Pair
                           /\ Cardinality(x.todo) <= x.left
    /\ x.at \notin Moving \cup Judging => x.todo = {}
Sweeping == \A s \in Sweep : Holding(sweep[s])

(* The server and its store: what is acknowledged is listed and was made.  *)
Serving ==
    /\ sweep["boot"].at # "idle" <=> up = "boot"
    /\ op # None /\ op.kind = "create" => Holds(op.to) /\ intake[op.to] = "creating"
    /\ \A w \in Workspace : InFlight(w) => Holds(w)
    /\ up = "boot" => op = None /\ \A w \in Workspace : ~InFlight(w)
Stored ==
    /\ op # None => /\ record[op.mission] = IF op.kind = "delete" THEN None ELSE op.to
                    /\ op.mission \notin anchored
                    /\ op.kind \in {"import", "patch"} => intake[op.to] = "created"
                    /\ op.at = "event" => op.mission \in index
    /\ \A m \in anchored : m \in Listed /\ intake[record[m]] = "created"

(* A workspace is in one place, under a name it never had before.          *)
Acquiring(w) == intake[w] \notin {"new", "queued"}
Named(s) ==
    /\ sweep[s].at \in Naming => sweep[s].cur \in used
    /\ sweep[s].at \in Judging => \A x \in sweep[s].todo : x[1] \in used
    /\ sweep[s].at = "forget" => sweep[s].cur \notin quarantine
OnePlace ==
    /\ quarantine \subseteq used
    /\ \A e \in Entry : meta[e] # None => e \in used
    /\ \A e \in used : Acquiring(e[1])
    /\ \A w \in root : Acquiring(w)
    /\ \A e \in quarantine : e[1] \notin root
    /\ \A e, f \in quarantine : e[1] = f[1] => e = f
    /\ \A s \in Sweep : Named(s)

(* The reasons to keep a workspace: its intake goes on, a reference to it  *)
(* is being stored, or one was acknowledged.                               *)
Brought(w) == intake[w] \in {"cloning", "creating"}
Pending(w) == op # None /\ op.kind \in {"import", "patch"} /\ op.inPlace /\ op.to = w
Anchored(w) == \E m \in anchored : record[m] = w
Wanted(w) == Brought(w) \/ Pending(w) \/ Anchored(w)

(* An intake is younger than the grace window, and what was written in the *)
(* metadata of a workspace is younger than the reasons that are not yet    *)
(* among the references.                                                   *)
Recent(e, t) ==
    /\ Brought(e[1]) => started[e[1]] <= t
    /\ Pending(e[1]) /\ e \in quarantine => clock <= t
Dated ==
    /\ \A w \in Workspace : Brought(w) => started[w] <= clock /\ clock - started[w] < Grace
    /\ \A e \in Entry : meta[e] # None => Recent(e, meta[e])
    /\ \A s \in Sweep : sweep[s].at \in Judging =>
          \A x \in sweep[s].todo : x[2] # None => Recent(x[1], x[2])

(* What is about to be erased is not wanted; what is wanted is in place, or *)
(* in the quarantine and known there.                                      *)
Condemned(s) == sweep[s].at \in {"unmark", "erase"} /\ sweep[s].cur \in quarantine
Spared == \A s \in Sweep : Condemned(s) => ~Wanted(sweep[s].cur[1])
Described(e) == \/ env.crash \/ meta[e] # None
                \/ \E s \in Sweep : sweep[s].at = "describe" /\ sweep[s].cur = e
Safe(w) == w \in root \/ \E e \in quarantine : e[1] = w /\ Described(e)
Kept == \A w \in Workspace : Wanted(w) => Safe(w)

(* Without the prune command nothing that is wanted is moved at all: the   *)
(* references do not change while the server boots.                        *)
BootAlone ==
    /\ sweep["prune"].at = "idle"
    /\ sweep["boot"].at = "list" => sweep["boot"].refs = Referenced
    /\ sweep["boot"].at \in Moving => sweep["boot"].todo \cap Referenced = {}
    /\ \A w \in Workspace : Wanted(w) => w \in root

(* The inductive invariant of the server alone.                            *)
RInv == /\ Typed /\ Sweeping /\ Serving /\ Stored /\ OnePlace /\ Dated
        /\ ~env.cli => BootAlone

(* The quarantine is never over its budget, so no sweep counts too many    *)
(* entries; and the inductive invariant of the two processes then.         *)
WithinBudget == env.cli => Cardinality(quarantine) <= env.maxCount
InBudget == \A s \in Sweep : sweep[s].at \in Judging => sweep[s].left <= env.maxCount
KInv == RInv /\ (env.cli => InBudget /\ Spared /\ Kept)

-----------------------------------------------------------------------------
(* Types and cardinalities.                                                *)

LEMMA FiniteEntry == IsFiniteSet(Entry) /\ Cardinality(Entry) \in Nat
BY BoundAssumption, FS_Product, FS_CardinalityType DEF Entry

LEMMA FinitePairs ==
    ASSUME NEW S \in SUBSET Pair
    PROVE  IsFiniteSet(S) /\ Cardinality(S) \in Nat
<1>1. IsFiniteSet(Time)
  BY BoundAssumption, FS_Interval DEF Time
<1>2. IsFiniteSet(Time \cup {None})
  BY <1>1, FS_AddElement
<1>3. IsFiniteSet(Pair)
  BY <1>2, FiniteEntry, FS_Product DEF Pair
<1> QED
  BY <1>3, FS_Subset, FS_CardinalityType

(* Taking an entry from a list that is no longer than `left`.              *)
LEMMA TakePair ==
    ASSUME NEW S \in SUBSET Pair, NEW x \in S, NEW n \in Nat, Cardinality(S) <= n
    PROVE  S \ {x} \in SUBSET Pair /\ n - 1 \in Nat /\ Cardinality(S \ {x}) <= n - 1
<1>1. IsFiniteSet(S) /\ Cardinality(S) \in Nat
  BY FinitePairs
<1>2. IsFiniteSet(S \ {x}) /\ Cardinality(S \ {x}) = Cardinality(S) - 1
  BY <1>1, FS_RemoveElement
<1>3. Cardinality(S \ {x}) \in Nat
  BY <1>2, FS_CardinalityType
<1> QED
  BY <1>1, <1>2, <1>3

(* The quarantine as the second sweep lists it.                            *)
LEMMA ListPairs ==
    ASSUME NEW Q \in SUBSET Entry, NEW g \in [Entry -> Time \cup {None}]
    PROVE  /\ {<<e, g[e]>> : e \in Q} \in SUBSET Pair
           /\ Cardinality({<<e, g[e]>> : e \in Q}) <= Cardinality(Q)
           /\ Cardinality(Q) \in Nat
<1> DEFINE T == {<<e, g[e]>> : e \in Q}
           f == [e \in Q |-> <<e, g[e]>>]
<1>1. IsFiniteSet(Q) /\ Cardinality(Q) \in Nat
  BY FiniteEntry, FS_Subset, FS_CardinalityType
<1>2. T \in SUBSET Pair
  BY DEF Pair
<1>3. f \in Surjection(Q, T)
  BY DEF Surjection
<1>4. Cardinality(T) <= Cardinality(Q)
  <2> HIDE DEF T, f
  <2> QED
    BY <1>1, <1>3, FS_Surjection
<1> QED
  BY <1>1, <1>2, <1>4

LEMMA EmptyPairs == {} \in SUBSET Pair /\ Cardinality({}) = 0
BY FS_EmptySet

LEMMA IdleHolds == Idle \in SweepType /\ Holding(Idle)
BY DEF Idle, SweepType, SweepStep, Holding, Moving, Judging

LEMMA Turn ==
    ASSUME Typed, NEW s \in Sweep, NEW y, y \in SweepType, SetSweep(s, y)
    PROVE  /\ sweep' \in [Sweep -> SweepType]
           /\ sweep'[s] = y
           /\ \A t \in Sweep : t # s => sweep'[t] = sweep[t]
BY DEF SetSweep, Typed

LEMMA TurnHolds ==
    ASSUME Typed, Sweeping, NEW s \in Sweep, NEW y, y \in SweepType, Holding(y), SetSweep(s, y)
    PROVE  sweep' \in [Sweep -> SweepType] /\ Sweeping'
<1>1. /\ sweep' \in [Sweep -> SweepType]
      /\ sweep'[s] = y
      /\ \A t \in Sweep : t # s => sweep'[t] = sweep[t]
  BY Turn
<1>2. ASSUME NEW t \in Sweep PROVE Holding(sweep'[t])
  BY <1>1 DEF Sweeping
<1> QED
  BY <1>1, <1>2 DEF Sweeping

-----------------------------------------------------------------------------
(* What a sweep's step leaves alone, and the types it keeps.               *)

LEMMA SweepFrame ==
    ASSUME NEW s \in Sweep, SweepNext(s)
    PROVE  /\ Runs(s)
           /\ UNCHANGED <<record, index, anchored, queue, intake, op, clock, env, started>>
           /\ up' = up \/ (s = "boot" /\ up' = "serving" /\ sweep' = [sweep EXCEPT ![s] = Idle])
<1>1. Collect(s) \/ List(s) \/ Describe(s) \/ Read(s) \/ Unmark(s) \/ Erase(s)
      => UNCHANGED <<record, index, anchored, queue, intake, op, clock, env, started, up>> /\ Runs(s)
  BY DEF Collect, List, Describe, Read, Unmark, Erase, refs
<1>2. Moved(s) \/ Restore(s) \/ Judged(s) => 
      /\ Runs(s)
      /\ UNCHANGED <<record, index, anchored, queue, intake, op, clock, env, started>>
      /\ up' = up \/ (s = "boot" /\ up' = "serving" /\ sweep' = [sweep EXCEPT ![s] = Idle])
  BY DEF Moved, Restore, Judged, EndSweep, SetSweep, refs
<1>3. ASSUME NEW w \in Workspace, MoveFails(s, w) \/ \E e \in Entry : Move(s, w, e)
      PROVE  /\ Runs(s)
             /\ UNCHANGED <<record, index, anchored, queue, intake, op, clock, env, started>>
             /\ up' = up \/ (s = "boot" /\ up' = "serving" /\ sweep' = [sweep EXCEPT ![s] = Idle])
  BY <1>3 DEF MoveFails, Move, EndSweep, SetSweep, refs
<1>4. ASSUME NEW x \in sweep[s].todo, Keep(s, x) \/ Judge(s, x)
      PROVE  /\ Runs(s)
             /\ UNCHANGED <<record, index, anchored, queue, intake, op, clock, env, started, up>>
  BY <1>4 DEF Keep, Judge, refs
<1> QED
  BY <1>1, <1>2, <1>3, <1>4 DEF SweepNext

LEMMA SweepTypes ==
    ASSUME Typed, Sweeping, NEW s \in Sweep, SweepNext(s)
    PROVE  Typed' /\ Sweeping'
<1> DEFINE x == sweep[s]
<1>0. x \in SweepType /\ Holding(x)
  BY DEF Typed, Sweeping
<1> DEFINE Keeps == /\ \E y : y \in SweepType /\ Holding(y) /\ SetSweep(s, y)
                    /\ root' \in SUBSET Workspace
                    /\ quarantine' \in SUBSET Entry /\ used' \in SUBSET Entry
                    /\ meta' \in [Entry -> Time \cup {None}]
<1>1. SUFFICES Keeps
  <2>1. sweep' \in [Sweep -> SweepType] /\ Sweeping'
    BY <1>1, TurnHolds
  <2>2. up' \in {"boot", "serving"}
    BY SweepFrame DEF Typed
  <2> QED
    BY <1>1, <2>1, <2>2, SweepFrame DEF Typed
<1>2. CASE Collect(s)
  <2> DEFINE y == [x EXCEPT !.at = "list", !.refs = Referenced]
  <2>1. Referenced \in SUBSET Workspace
    BY DEF Referenced, Listed, Typed
  <2>2. y \in SweepType /\ Holding(y)
    BY <1>0, <1>2, <2>1 DEF Collect, SweepType, SweepStep, Holding, Moving, Judging
  <2> QED
    BY <1>2, <2>2 DEF Collect, disk, Typed
<1>3. CASE List(s)
  <2> DEFINE y == [x EXCEPT !.at = "move", !.refs = {}, !.todo = root \ x.refs]
  <2>2. y \in SweepType /\ Holding(y)
    BY <1>0, <1>3 DEF List, SweepType, SweepStep, Holding, Moving, Judging, Typed, Work
  <2> QED
    BY <1>3, <2>2 DEF List, disk, Typed
<1>4. CASE Describe(s)
  <2> DEFINE y == [x EXCEPT !.at = "move"]
  <2>2. y \in SweepType /\ Holding(y)
    BY <1>0, <1>4 DEF Describe, SweepType, SweepStep, Holding, Moving, Judging
  <2> QED
    BY <1>4, <2>2 DEF Describe, Goto, disk, Typed
<1>5. CASE Moved(s)
  <2> DEFINE y == [Idle EXCEPT !.at = "read"]
  <2>2. y \in SweepType /\ Holding(y)
    BY DEF Idle, SweepType, SweepStep, Holding, Moving, Judging
  <2> QED
    BY <1>5, <2>2, IdleHolds DEF Moved, EndSweep, disk, Typed
<1>6. CASE Read(s)
  <2> DEFINE Q == {<<e, meta[e]>> : e \in quarantine}
             y == [x EXCEPT !.at = "judge", !.todo = Q, !.left = Cardinality(quarantine)]
  <2>1. /\ Q \in SUBSET Pair /\ Cardinality(Q) <= Cardinality(quarantine)
        /\ Cardinality(quarantine) \in Nat
    BY ListPairs DEF Typed
  <2>2. SetSweep(s, y)
    BY <1>6 DEF Read
  <2>3. y \in SweepType /\ Holding(y)
    <3> HIDE DEF Q
    <3> QED
      BY <1>0, <2>1 DEF SweepType, SweepStep, Holding, Moving, Judging, Pair, Work
  <2> QED
    BY <1>6, <2>2, <2>3 DEF Read, disk, Typed
<1>7. CASE Restore(s)
  <2> DEFINE y == [x EXCEPT !.at = "forget"]
  <2>2. x.at = "restore" => y \in SweepType /\ Holding(y)
    BY <1>0 DEF SweepType, SweepStep, Holding, Moving, Judging
  <2> QED
    BY <1>7, <2>2, IdleHolds DEF Restore, EndSweep, Goto, Typed, Entry
<1>8. CASE Unmark(s)
  <2> DEFINE y == [x EXCEPT !.at = IF x.at = "forget" THEN "judge" ELSE "erase"]
  <2>2. y \in SweepType /\ Holding(y)
    BY <1>0, <1>8 DEF Unmark, SweepType, SweepStep, Holding, Moving, Judging
  <2> QED
    BY <1>8, <2>2 DEF Unmark, Goto, Typed
<1>9. CASE Erase(s)
  <2> DEFINE y == [x EXCEPT !.at = "judge"]
  <2>2. y \in SweepType /\ Holding(y)
    BY <1>0, <1>9 DEF Erase, SweepType, SweepStep, Holding, Moving, Judging
  <2> QED
    BY <1>9, <2>2 DEF Erase, Goto, Typed
<1>10. CASE Judged(s)
  BY <1>10, IdleHolds DEF Judged, EndSweep, disk, Typed
<1>11. ASSUME NEW w \in Workspace, MoveFails(s, w) PROVE Keeps
  BY <1>11, IdleHolds DEF MoveFails, EndSweep, disk, Typed
<1>12. ASSUME NEW w \in Workspace, NEW e \in Entry, Move(s, w, e) PROVE Keeps
  <2> DEFINE y == [x EXCEPT !.at = "describe", !.cur = e, !.todo = @ \ {w}]
  <2>2. y \in SweepType /\ Holding(y)
    BY <1>0, <1>12 DEF Move, SweepType, SweepStep, Holding, Moving, Judging
  <2> QED
    BY <1>12, <2>2 DEF Move, disk, Typed
<1>13. ASSUME NEW p \in x.todo, x.at = "judge", Keep(s, p) PROVE Keeps
  <2> DEFINE y == [x EXCEPT !.todo = @ \ {p}]
  <2>1. x.todo \in SUBSET Pair /\ x.left \in Nat /\ Cardinality(x.todo) <= x.left
    BY <1>0, <1>13 DEF SweepType, Holding, Judging
  <2>2. x.todo \ {p} \in SUBSET Pair /\ Cardinality(x.todo \ {p}) <= x.left - 1
    BY <2>1, TakePair
  <2>3. Cardinality(x.todo \ {p}) <= x.left
    BY <2>1, <2>2, FinitePairs
  <2>4. y \in SweepType /\ Holding(y)
    BY <1>0, <1>13, <2>1, <2>2, <2>3 DEF SweepType, SweepStep, Holding, Moving, Judging, Work
  <2> QED
    BY <1>13, <2>4 DEF Keep, disk, Typed
<1>14. ASSUME NEW p \in x.todo, x.at = "judge", Judge(s, p) PROVE Keeps
  <2> DEFINE y == [x EXCEPT !.at = IF StillReferenced(p) THEN "restore" ELSE "unmark",
                      !.cur = p[1], !.todo = @ \ {p}, !.left = @ - 1]
  <2>1. x.todo \in SUBSET Pair /\ x.left \in Nat /\ Cardinality(x.todo) <= x.left
    BY <1>0, <1>14 DEF SweepType, Holding, Judging
  <2>2. /\ x.todo \ {p} \in SUBSET Pair /\ x.left - 1 \in Nat
        /\ Cardinality(x.todo \ {p}) <= x.left - 1
    BY <2>1, TakePair
  <2>3. p[1] \in Entry
    BY <2>1 DEF Pair
  <2>4. y \in SweepType /\ Holding(y)
    BY <1>0, <1>14, <2>1, <2>2, <2>3 DEF SweepType, SweepStep, Holding, Moving, Judging, Work
  <2> QED
    BY <1>14, <2>4 DEF Judge, disk, Typed
<1> QED
  BY <1>2, <1>3, <1>4, <1>5, <1>6, <1>7, <1>8, <1>9, <1>10, <1>11, <1>12, <1>13, <1>14
  DEF SweepNext

-----------------------------------------------------------------------------
(* What the server's steps leave alone, and the types they keep.           *)

ServerNext ==
    \/ \E w \in Workspace : IntakeNext(w)
    \/ StoreNext
    \/ \E m \in Mission : \/ Delete(m)
                          \/ \E w \in Workspace : Import(m, w) \/ Patch(m, w)
PruneStarts ==
    StartPrune("collect", TRUE) \/ StartPrune("collect", FALSE) \/ StartPrune("read", FALSE)

LEMMA NextCases ==
    ASSUME Next
    PROVE  \/ ServerNext \/ PruneStarts \/ Crash \/ PruneDies \/ Tick
           \/ \E s \in Sweep : SweepNext(s)
BY DEF Next, OperatorNext, ServerNext, PruneStarts

LEMMA ReturnTypes ==
    ASSUME Typed, op # None, NEW ok \in BOOLEAN, Return(ok)
    PROVE  /\ op' = None /\ intake' \in [Workspace -> IntakeStep]
           /\ anchored' \in SUBSET Mission /\ started' \in [Workspace -> Time]
<1>1. op \in OpType
  BY DEF Typed
<1>2. op.to \in Workspace /\ op.mission \in Mission
  BY <1>1 DEF OpType
<1>3. 0 \in Time /\ {"created", "undoing"} \subseteq IntakeStep
  BY BoundAssumption DEF Time, IntakeStep
<1> QED
  BY <1>2, <1>3 DEF Return, Typed

(* A store method runs for the intake that holds the lock, or for none.    *)
LEMMA ReturnQueue ==
    ASSUME Typed, Serving, op # None, NEW ok \in BOOLEAN, Return(ok)
    PROVE  /\ queue' \in Seq(Workspace)
           /\ op.kind # "create" \/ ~ok => queue' = queue
<1>1. op.kind = "create" => queue # <<>>
  BY DEF Serving, Holds
<1>2. queue # <<>> => Tail(queue) \in Seq(Workspace)
  BY DEF Typed
<1> QED
  BY <1>1, <1>2 DEF Return, Typed

LEMMA WriteRecordTypes ==
    ASSUME Typed, NEW kind \in {"create", "import", "patch"}, NEW m \in Mission,
           NEW w \in Workspace, WriteRecord(kind, m, w)
    PROVE  /\ op' \in OpType /\ record' \in [Mission -> Workspace \cup {None}]
           /\ anchored' \in SUBSET Mission
           /\ op'.kind = kind /\ op'.mission = m /\ op'.to = w /\ op'.at = "index"
           /\ op'.inPlace = (kind = "create" \/ w \in root)
BY DEF WriteRecord, OpType, Typed

LEMMA StoreTypes ==
    ASSUME Typed, Serving, StoreNext
    PROVE  Typed'
<1>0. op # None
  BY DEF StoreNext, WriteIndex, AppendEvent, WriteFails
<1>1. op \in OpType
  BY <1>0 DEF Typed
<1>2. CASE WriteIndex
  <2>1. index' \in SUBSET Mission
    BY <1>1, <1>2 DEF WriteIndex, OpType, Typed
  <2>2. CASE op.kind \in {"create", "import"}
    <3>1. op' \in OpType
      BY <1>1, <1>2, <2>2 DEF WriteIndex, OpType
    <3> QED
      BY <1>2, <2>1, <2>2, <3>1 DEF WriteIndex, Typed, disk
  <2>3. CASE op.kind \notin {"create", "import"}
    <3>1. Return(TRUE)
      BY <1>2, <2>3 DEF WriteIndex
    <3> QED
      BY <1>0, <1>2, <2>1, <3>1, ReturnTypes, ReturnQueue DEF WriteIndex, Typed, disk
  <2> QED
    BY <2>2, <2>3
<1>3. CASE AppendEvent
  BY <1>0, <1>3, ReturnTypes, ReturnQueue DEF AppendEvent, Typed, disk
<1>4. CASE WriteFails
  BY <1>0, <1>4, ReturnTypes, ReturnQueue DEF WriteFails, Typed, disk
<1> QED
  BY <1>2, <1>3, <1>4 DEF StoreNext

LEMMA IntakeTypes ==
    ASSUME Typed, Serving, NEW w \in Workspace, IntakeNext(w)
    PROVE  Typed'
<1>1. CASE Request(w)
  <2>1. Append(queue, w) \in Seq(Workspace)
    BY DEF Typed
  <2> QED
    BY <1>1, <2>1 DEF Request, SetIntake, IntakeStep, Typed, disk, refs
<1>2. CASE Acquire(w)
  BY <1>2 DEF Acquire, SetIntake, IntakeStep, Typed, refs
<1>3. CASE Acquired(w)
  BY <1>3 DEF Acquired, SetIntake, IntakeStep, Typed, disk, refs
<1>4. CASE IntakeFails(w)
  BY <1>4 DEF IntakeFails, SetIntake, IntakeStep, Typed, disk, refs
<1>5. CASE Undo(w)
  <2>1. queue # <<>>
    BY <1>5 DEF Undo, Serving, InFlight, Holds
  <2>2. Tail(queue) \in Seq(Workspace)
    BY <2>1 DEF Typed
  <2>3. 0 \in Time
    BY BoundAssumption DEF Time
  <2> QED
    BY <1>5, <2>2, <2>3 DEF Undo, SetIntake, IntakeStep, Typed, refs
<1>6. ASSUME NEW m \in Mission, Create(w, m) PROVE Typed'
  BY <1>6, WriteRecordTypes DEF Create, Typed, disk
<1> QED
  BY <1>1, <1>2, <1>3, <1>4, <1>5, <1>6 DEF IntakeNext

LEMMA ServerTypes ==
    ASSUME Typed, Serving, Sweeping, ServerNext
    PROVE  Typed' /\ Sweeping' /\ UNCHANGED <<sweep, clock, env, up, used, meta, quarantine>>
<1>1. ASSUME NEW w \in Workspace, IntakeNext(w)
      PROVE  Typed' /\ UNCHANGED <<sweep, clock, env, up, used, meta, quarantine>>
  <2>1. UNCHANGED <<sweep, clock, env, up, used, meta, quarantine>>
    BY <1>1 DEF IntakeNext, Request, Acquire, Acquired, IntakeFails, Undo, Create, disk
  <2> QED
    BY <1>1, <2>1, IntakeTypes
<1>2. StoreNext => Typed' /\ UNCHANGED <<sweep, clock, env, up, used, meta, quarantine>>
  BY StoreTypes DEF StoreNext, WriteIndex, AppendEvent, WriteFails, disk
<1>3. ASSUME NEW m \in Mission, Delete(m)
      PROVE  Typed' /\ UNCHANGED <<sweep, clock, env, up, used, meta, quarantine>>
  <2>1. record[m] \in Workspace
    BY <1>3 DEF Delete, Listed, Typed
  <2>2. op' \in OpType
    BY <1>3, <2>1 DEF Delete, OpType
  <2> QED
    BY <1>3, <2>2 DEF Delete, Typed, disk
<1>4. ASSUME NEW m \in Mission, NEW w \in Workspace, Import(m, w) \/ Patch(m, w)
      PROVE  Typed' /\ UNCHANGED <<sweep, clock, env, up, used, meta, quarantine>>
  BY <1>4, WriteRecordTypes DEF Import, Patch, Typed, disk
<1>5. Typed' /\ UNCHANGED <<sweep, clock, env, up, used, meta, quarantine>>
  BY <1>1, <1>2, <1>3, <1>4 DEF ServerNext
<1> QED
  BY <1>5 DEF Sweeping

LEMMA OtherTypes ==
    ASSUME Typed, Sweeping, PruneStarts \/ Crash \/ PruneDies \/ Tick
    PROVE  Typed' /\ Sweeping'
<1>1. ASSUME NEW at \in {"collect", "read"}, NEW both \in BOOLEAN, StartPrune(at, both)
      PROVE  Typed' /\ Sweeping'
  <2> DEFINE y == [Idle EXCEPT !.at = at, !.then = both]
  <2>1. y \in SweepType /\ Holding(y)
    BY DEF Idle, SweepType, SweepStep, Holding, Moving, Judging
  <2>2. sweep' \in [Sweep -> SweepType] /\ Sweeping'
    BY <1>1, <2>1, TurnHolds DEF StartPrune, Sweep
  <2> QED
    BY <1>1, <2>2 DEF StartPrune, Typed, disk, refs
<1>2. CASE Crash
  <2> DEFINE y == [Idle EXCEPT !.at = "collect", !.then = TRUE]
  <2>1. y \in SweepType /\ Holding(y)
    BY DEF Idle, SweepType, SweepStep, Holding, Moving, Judging
  <2>2. sweep' \in [Sweep -> SweepType] /\ Sweeping'
    BY <1>2, <2>1, TurnHolds DEF Crash, Sweep
  <2>3. 0 \in Time /\ <<>> \in Seq(Workspace)
    BY BoundAssumption DEF Time
  <2>4. intake' \in [Workspace -> IntakeStep]
    BY <1>2 DEF Crash, Typed, IntakeStep
  <2> QED
    BY <1>2, <2>2, <2>3, <2>4 DEF Crash, Typed, disk, refs
<1>3. CASE PruneDies
  <2>2. sweep' \in [Sweep -> SweepType] /\ Sweeping'
    BY <1>3, IdleHolds, TurnHolds DEF PruneDies, Sweep
  <2> QED
    BY <1>3, <2>2 DEF PruneDies, Typed, disk, refs
<1>4. CASE Tick
  BY <1>4, BoundAssumption DEF Tick, Typed, disk, refs, Time, Sweeping
<1> QED
  BY <1>1, <1>2, <1>3, <1>4 DEF PruneStarts

-----------------------------------------------------------------------------
(* The steps of a sweep, by what becomes of its record and of the disk.    *)

Going(s, from, to) == sweep[s].at = from /\ sweep'[s].at = to
SameList(s) == sweep'[s].todo = sweep[s].todo /\ sweep'[s].left = sweep[s].left
SameEntry(s) == sweep'[s].cur = sweep[s].cur
SameDisk == UNCHANGED <<root, quarantine, meta, used>>

Collects(s) == Going(s, "collect", "list") /\ sweep'[s].refs = Referenced /\ SameDisk /\ up' = up
Lists(s) == /\ Going(s, "list", "move") /\ sweep'[s].todo = root \ sweep[s].refs
            /\ SameDisk /\ up' = up
Moves(s) == \E w \in sweep[s].todo \cap root : \E e \in Entry :
    /\ Going(s, "move", "describe") /\ sweep'[s].todo = sweep[s].todo \ {w} /\ sweep'[s].cur = e
    /\ e[1] = w /\ e \notin used
    /\ root' = root \ {w} /\ quarantine' = quarantine \cup {e} /\ used' = used \cup {e}
    /\ meta' = meta /\ up' = up
Describes(s) == /\ Going(s, "describe", "move") /\ SameList(s)
                /\ meta' = [meta EXCEPT ![sweep[s].cur] = clock]
                /\ UNCHANGED <<root, quarantine, used, up>>
Ends(s) == /\ sweep[s].at \in {"move", "judge", "restore"} /\ sweep'[s] = Idle
           /\ SameDisk /\ up' = IF s = "boot" THEN "serving" ELSE up
GoesOn(s) == Going(s, "move", "read") /\ sweep'[s].todo = {} /\ SameDisk /\ up' = up
Reads(s) == /\ Going(s, "read", "judge") /\ sweep'[s].todo = {<<e, meta[e]>> : e \in quarantine}
            /\ sweep'[s].left = Cardinality(quarantine) /\ SameDisk /\ up' = up
Keeps(s) == /\ Going(s, "judge", "judge") /\ sweep'[s].todo \subseteq sweep[s].todo
            /\ sweep'[s].left = sweep[s].left /\ SameDisk /\ up' = up
Judges(s) == \E x \in sweep[s].todo :
    /\ sweep[s].at = "judge" /\ Eligible(s, x)
    /\ sweep'[s].at = IF StillReferenced(x) THEN "restore" ELSE "unmark"
    /\ sweep'[s].cur = x[1] /\ sweep'[s].todo \subseteq sweep[s].todo
    /\ sweep'[s].left = sweep[s].left - 1 /\ SameDisk /\ up' = up
Restores(s) == /\ Going(s, "restore", "forget") /\ SameList(s) /\ SameEntry(s)
               /\ sweep[s].cur \in quarantine
               /\ quarantine' = quarantine \ {sweep[s].cur}
               /\ root' = root \cup {sweep[s].cur[1]}
               /\ UNCHANGED <<meta, used, up>>
Unmarks(s) == /\ Going(s, "forget", "judge") \/ Going(s, "unmark", "erase")
              /\ SameList(s) /\ SameEntry(s)
              /\ meta' = [meta EXCEPT ![sweep[s].cur] = None]
              /\ UNCHANGED <<root, quarantine, used, up>>
Erases(s) == /\ Going(s, "erase", "judge") /\ SameList(s)
             /\ quarantine' = quarantine \ {sweep[s].cur}
             /\ UNCHANGED <<root, meta, used, up>>

LEMMA SweepSteps ==
    ASSUME Typed, Sweeping, NEW s \in Sweep, SweepNext(s)
    PROVE  /\ \A t \in Sweep : t # s => sweep'[t] = sweep[t]
           /\ \/ Collects(s) \/ Lists(s) \/ Moves(s) \/ Describes(s) \/ Ends(s) \/ GoesOn(s)
              \/ Reads(s) \/ Keeps(s) \/ Judges(s) \/ Restores(s) \/ Unmarks(s) \/ Erases(s)
<1>0. sweep[s] \in SweepType /\ sweep \in [Sweep -> SweepType]
  BY DEF Typed
<1>1. Collect(s) => (\A t \in Sweep : t # s => sweep'[t] = sweep[t]) /\ Collects(s)
  BY <1>0 DEF Collect, Collects, SetSweep, SweepType, Going, SameDisk, disk
<1>2. List(s) => (\A t \in Sweep : t # s => sweep'[t] = sweep[t]) /\ Lists(s)
  BY <1>0 DEF List, Lists, SetSweep, SweepType, Going, SameDisk, disk
<1>3. Describe(s) => (\A t \in Sweep : t # s => sweep'[t] = sweep[t]) /\ Describes(s)
  BY <1>0 DEF Describe, Describes, SetSweep, Goto, SweepType, Going, SameList
<1>4. Moved(s) => (\A t \in Sweep : t # s => sweep'[t] = sweep[t]) /\ (Ends(s) \/ GoesOn(s))
  <2> SUFFICES ASSUME Moved(s)
               PROVE  (\A t \in Sweep : t # s => sweep'[t] = sweep[t]) /\ (Ends(s) \/ GoesOn(s))
    OBVIOUS
  <2>1. sweep[s].at = "move" /\ SameDisk
    BY DEF Moved, SameDisk, disk
  <2>2. \/ SetSweep(s, [Idle EXCEPT !.at = "read"]) /\ up' = up
        \/ EndSweep(s)
    BY DEF Moved
  <2>3. [Idle EXCEPT !.at = "read"].at = "read" /\ [Idle EXCEPT !.at = "read"].todo = {}
    BY DEF Idle
  <2> QED
    BY <1>0, <2>1, <2>2, <2>3 DEF Ends, GoesOn, EndSweep, SetSweep, Going
<1>5. Read(s) => (\A t \in Sweep : t # s => sweep'[t] = sweep[t]) /\ Reads(s)
  BY <1>0 DEF Read, Reads, SetSweep, SweepType, Going, SameDisk, disk
<1>6. Restore(s) => (\A t \in Sweep : t # s => sweep'[t] = sweep[t]) /\ (Ends(s) \/ Restores(s))
  BY <1>0 DEF Restore, Restores, Ends, EndSweep, SetSweep, Goto, SweepType, Going, SameList,
              SameEntry, SameDisk, disk
<1>7. Unmark(s) => (\A t \in Sweep : t # s => sweep'[t] = sweep[t]) /\ Unmarks(s)
  BY <1>0 DEF Unmark, Unmarks, SetSweep, Goto, SweepType, Going, SameList, SameEntry
<1>8. Erase(s) => (\A t \in Sweep : t # s => sweep'[t] = sweep[t]) /\ Erases(s)
  BY <1>0 DEF Erase, Erases, SetSweep, Goto, SweepType, Going, SameList
<1>9. Judged(s) => (\A t \in Sweep : t # s => sweep'[t] = sweep[t]) /\ Ends(s)
  BY <1>0 DEF Judged, Ends, EndSweep, SetSweep, SameDisk, disk
<1>10. ASSUME NEW w \in Workspace, MoveFails(s, w)
       PROVE  (\A t \in Sweep : t # s => sweep'[t] = sweep[t]) /\ Ends(s)
  BY <1>0, <1>10 DEF MoveFails, Ends, EndSweep, SetSweep, SameDisk, disk
<1>11. ASSUME NEW w \in Workspace, NEW e \in Entry, Move(s, w, e)
       PROVE  (\A t \in Sweep : t # s => sweep'[t] = sweep[t]) /\ Moves(s)
  BY <1>0, <1>11 DEF Move, Moves, NewEntry, SetSweep, SweepType, Going
<1>12. ASSUME NEW x \in sweep[s].todo, sweep[s].at = "judge", Keep(s, x)
       PROVE  (\A t \in Sweep : t # s => sweep'[t] = sweep[t]) /\ Keeps(s)
  BY <1>0, <1>12 DEF Keep, Keeps, SetSweep, SweepType, Going, SameDisk, disk
<1>13. ASSUME NEW x \in sweep[s].todo, sweep[s].at = "judge", Judge(s, x)
       PROVE  (\A t \in Sweep : t # s => sweep'[t] = sweep[t]) /\ Judges(s)
  BY <1>0, <1>13 DEF Judge, Judges, SetSweep, SweepType, SameDisk, disk
<1> QED
  BY <1>1, <1>2, <1>3, <1>4, <1>5, <1>6, <1>7, <1>8, <1>9, <1>10, <1>11, <1>12, <1>13
  DEF SweepNext

-----------------------------------------------------------------------------
(* The server and its lock.                                                *)

LEMMA ServingSweeps ==
    ASSUME Typed, Sweeping, Serving, NEW s \in Sweep, SweepNext(s)
    PROVE  Serving'
<1>1. UNCHANGED <<queue, intake, op>>
  BY SweepFrame
<1>2. up' = "boot" => up = "boot"
  BY SweepFrame
<1>3. \A w : (InFlight(w))' = InFlight(w) /\ (Holds(w))' = Holds(w)
  BY <1>1 DEF InFlight, Holds
<1>4. sweep'["boot"].at # "idle" <=> up' = "boot"
  <2>1. CASE s = "prune"
    BY <2>1, SweepSteps, SweepFrame DEF Serving, Sweep
  <2>2. CASE s = "boot"
    <3>1. up = "boot"
      BY <2>2, SweepFrame DEF Runs
    <3>2. Collects(s) \/ Lists(s) \/ Moves(s) \/ Describes(s) \/ GoesOn(s)
              \/ Reads(s) \/ Keeps(s) \/ Judges(s) \/ Restores(s) \/ Unmarks(s) \/ Erases(s)
          => up' = up /\ sweep'[s].at # "idle"
      BY DEF Collects, Lists, Moves, Describes, GoesOn, Reads, Keeps, Judges, Restores, Unmarks,
             Erases, Going
    <3>3. Ends(s) => up' = "serving" /\ sweep'[s].at = "idle"
      BY <2>2 DEF Ends, Idle
    <3> QED
      BY <2>2, <3>1, <3>2, <3>3, SweepSteps
  <2> QED
    BY <2>1, <2>2 DEF Sweep
<1> QED
  BY <1>1, <1>2, <1>3, <1>4 DEF Serving

(* A store method goes on to its event, or returns.                        *)
Continues ==
    /\ op # None /\ op' \in OpType /\ op.kind # "patch" /\ op.kind # "delete"
    /\ op'.kind = op.kind /\ op'.mission = op.mission /\ op'.to = op.to
    /\ op'.inPlace = op.inPlace
    /\ index' = index \cup {op.mission}
    /\ UNCHANGED <<record, root, intake, queue, anchored, started>>
Returns(ok) ==
    /\ op # None /\ Return(ok)
    /\ index \ {op.mission} \subseteq index'
    /\ ok /\ op.kind # "delete" => op.mission \in index'
    /\ UNCHANGED <<record, root>>

LEMMA StoreSteps ==
    ASSUME Typed, Stored, StoreNext
    PROVE  Continues \/ Returns(TRUE) \/ Returns(FALSE)
<1>0. op # None
  BY DEF StoreNext, WriteIndex, AppendEvent, WriteFails
<1>1. op \in OpType
  BY <1>0 DEF Typed
<1>2. CASE WriteIndex
  <2>1. CASE op.kind \in {"create", "import"}
    BY <1>0, <1>1, <1>2, <2>1 DEF WriteIndex, OpType, Continues, disk
  <2>2. CASE op.kind \notin {"create", "import"}
    BY <1>0, <1>1, <1>2, <2>2 DEF WriteIndex, Returns, disk
  <2> QED
    BY <2>1, <2>2
<1>3. CASE AppendEvent
  BY <1>0, <1>3 DEF AppendEvent, Returns, Stored, disk
<1>4. CASE WriteFails
  BY <1>0, <1>4 DEF WriteFails, Returns, disk
<1> QED
  BY <1>2, <1>3, <1>4 DEF StoreNext

LEMMA QueueGrows ==
    ASSUME Typed, NEW w \in Workspace, NEW v, Holds(v)
    PROVE  Append(queue, w) # <<>> /\ Head(Append(queue, w)) = v
<1>1. PICK n \in Nat : n = Len(queue)
  BY DEF Typed
<1>2. n # 0
  BY <1>1 DEF Holds, Typed
<1>3. Append(queue, w)[1] = queue[1] /\ Len(Append(queue, w)) = n + 1
  BY <1>1, <1>2 DEF Typed
<1>4. Head(queue) = queue[1]
  OBVIOUS
<1> QED
  BY <1>3, <1>4 DEF Holds, Typed

LEMMA ServingIntake ==
    ASSUME Typed, Serving, NEW w \in Workspace, IntakeNext(w)
    PROVE  Serving'
<1>0. /\ op = None /\ up = "serving" /\ UNCHANGED <<sweep, up>>
      /\ intake \in [Workspace -> IntakeStep]
  BY DEF IntakeNext, Request, Acquire, Acquired, IntakeFails, Undo, Create, Running, Typed
<1>1. CASE Request(w)
  <2>1. \A v \in Workspace : InFlight(v)' => InFlight(v)
    BY <1>0, <1>1 DEF Request, SetIntake, InFlight
  <2>2. \A v \in Workspace : Holds(v) => Holds(v)'
    BY <1>1, QueueGrows DEF Request, Holds
  <2> QED
    BY <1>0, <1>1, <2>1, <2>2 DEF Request, Serving
<1>2. CASE Acquire(w)
  BY <1>0, <1>2 DEF Acquire, SetIntake, InFlight, Holds, Serving
<1>3. CASE Acquired(w)
  BY <1>0, <1>3 DEF Acquired, SetIntake, InFlight, Holds, Serving
<1>4. CASE IntakeFails(w)
  BY <1>0, <1>4 DEF IntakeFails, SetIntake, InFlight, Holds, Serving
<1>5. CASE Undo(w)
  <2>1. \A v \in Workspace : v # w => ~InFlight(v)
    BY <1>5 DEF Undo, Serving, InFlight, Holds
  <2>2. \A v \in Workspace : ~InFlight(v)'
    BY <1>0, <1>5, <2>1 DEF Undo, SetIntake, InFlight
  <2> QED
    BY <1>0, <1>5, <2>2 DEF Undo, Serving
<1>6. ASSUME NEW m \in Mission, Create(w, m) PROVE Serving'
  <2>1. op'.to = w /\ UNCHANGED <<intake, queue>>
    BY <1>6 DEF Create, WriteRecord
  <2>2. intake[w] = "creating" /\ Holds(w)
    BY <1>6 DEF Create, Serving, InFlight
  <2> QED
    BY <1>0, <2>1, <2>2 DEF Serving, InFlight, Holds
<1> QED
  BY <1>1, <1>2, <1>3, <1>4, <1>5, <1>6 DEF IntakeNext

LEMMA ServingStore ==
    ASSUME Typed, Serving, Stored, StoreNext
    PROVE  Serving'
<1>0. op # None /\ op \in OpType /\ up # "boot" /\ UNCHANGED <<sweep, up>>
      /\ intake \in [Workspace -> IntakeStep]
  BY DEF StoreNext, WriteIndex, AppendEvent, WriteFails, Typed, Serving
<1>1. CASE Continues
  BY <1>0, <1>1 DEF Continues, Serving, InFlight, Holds
<1>2. ASSUME NEW ok \in BOOLEAN, Returns(ok) PROVE Serving'
  <2>1. op' = None
    BY <1>2 DEF Returns, Return
  <2>2. CASE op.kind = "create" /\ ok = TRUE
    <3>1. \A v \in Workspace : v # op.to => ~InFlight(v)
      BY <1>0, <2>2 DEF Serving, Holds
    <3>2. \A v \in Workspace : ~InFlight(v)'
      BY <1>0, <1>2, <2>2, <3>1 DEF Returns, Return, InFlight
    <3> QED
      BY <1>0, <2>1, <3>2 DEF Serving
  <2>3. CASE op.kind = "create" /\ ok = FALSE
    <3>1. queue' = queue /\ intake' = [intake EXCEPT ![op.to] = "undoing"]
      BY <1>2, <2>3 DEF Returns, Return
    <3> QED
      BY <1>0, <2>1, <2>3, <3>1 DEF Serving, InFlight, Holds
  <2>4. CASE op.kind # "create"
    <3>1. queue' = queue /\ intake' = intake
      BY <1>2, <2>4 DEF Returns, Return
    <3> QED
      BY <1>0, <2>1, <3>1 DEF Serving, InFlight, Holds
  <2> QED
    BY <2>2, <2>3, <2>4
<1> QED
  BY <1>1, <1>2, StoreSteps

LEMMA ServingNext ==
    ASSUME Typed, Sweeping, Serving, Stored, Next
    PROVE  Serving'
<1>1. CASE StoreNext
  BY <1>1, ServingStore
<1>2. ASSUME NEW m \in Mission, Delete(m) PROVE Serving'
  BY <1>2 DEF Delete, Running, Serving, InFlight, Holds
<1>3. ASSUME NEW m \in Mission, NEW w \in Workspace, Import(m, w) \/ Patch(m, w) PROVE Serving'
  BY <1>3 DEF Import, Patch, WriteRecord, Running, Serving, InFlight, Holds
<1>4. ASSUME NEW at, NEW both, StartPrune(at, both) PROVE Serving'
  <2>1. sweep'["boot"] = sweep["boot"]
    BY <1>4 DEF StartPrune, SetSweep, Typed, Sweep
  <2> QED
    BY <1>4, <2>1 DEF StartPrune, Serving, InFlight, Holds
<1>5. CASE PruneDies
  <2>1. sweep'["boot"] = sweep["boot"]
    BY <1>5 DEF PruneDies, SetSweep, Typed, Sweep
  <2> QED
    BY <1>5, <2>1 DEF PruneDies, Serving, InFlight, Holds
<1>6. CASE Crash
  <2>1. \A w \in Workspace : ~InFlight(w)'
    BY <1>6 DEF Crash, InFlight, Typed
  <2>2. sweep'["boot"].at = "collect"
    BY <1>6 DEF Crash, SetSweep, Typed, Sweep, Idle
  <2> QED
    BY <1>6, <2>1, <2>2 DEF Crash, Serving
<1>7. CASE Tick
  BY <1>7 DEF Tick, Serving, InFlight, Holds
<1> QED
  BY <1>1, <1>2, <1>3, <1>4, <1>5, <1>6, <1>7, ServingIntake, ServingSweeps, NextCases
  DEF ServerNext, PruneStarts

-----------------------------------------------------------------------------
(* The store: what is acknowledged is listed, and was made.                *)

LEMMA ListedMeans ==
    \A m : /\ m \in Listed <=> m \in index /\ record[m] # None
           /\ m \in Listed' <=> m \in index' /\ record'[m] # None
BY DEF Listed

LEMMA StoredWrites ==
    ASSUME Typed, Stored, op = None, NEW kind \in {"create", "import", "patch"},
           NEW m \in Mission, NEW w \in Workspace, WriteRecord(kind, m, w),
           kind # "create" => intake[w] = "created", UNCHANGED <<index, intake>>
    PROVE  Stored'
<1>1. /\ op'.kind = kind /\ op'.mission = m /\ op'.to = w /\ op'.at = "index"
      /\ op' # None
  BY WriteRecordTypes, NoOpAssumption
<1>2. record'[m] = w /\ \A n \in Mission : n # m => record'[n] = record[n]
  BY DEF WriteRecord, Typed
<1>3. anchored' = anchored \ {m}
  BY DEF WriteRecord
<1>4. ASSUME NEW n \in anchored' PROVE n \in Listed' /\ intake'[record'[n]] = "created"
  <2>1. n \in Mission /\ n # m /\ n \in anchored
    BY <1>3 DEF Typed
  <2> QED
    BY <1>2, <2>1, ListedMeans DEF Stored
<1> QED
  BY <1>1, <1>2, <1>3, <1>4 DEF Stored

LEMMA StoredSame ==
    ASSUME Typed, Stored, UNCHANGED <<record, index, anchored>>, op' = op \/ op' = None,
           \A w \in Workspace : intake[w] = "created" => intake'[w] = "created"
    PROVE  Stored'
<1>1. ASSUME NEW m \in anchored PROVE m \in Listed' /\ intake'[record[m]] = "created"
  <2>1. m \in Listed /\ record[m] \in Workspace /\ intake[record[m]] = "created"
    BY ListedMeans DEF Stored, Typed
  <2> QED
    BY <2>1, ListedMeans
<1>2. op # None => op.to \in Workspace
  BY DEF Typed, OpType
<1> QED
  BY <1>1, <1>2 DEF Stored

LEMMA StoredStore ==
    ASSUME Typed, Serving, Stored, StoreNext
    PROVE  Stored'
<1>0. op # None /\ op \in OpType /\ op.to \in Workspace /\ op.mission \in Mission
  BY DEF StoreNext, WriteIndex, AppendEvent, WriteFails, Typed, OpType
<1>1. CASE Continues
  <2>1. \A m \in anchored : m \in Listed'
    BY <1>1, ListedMeans DEF Continues, Stored
  <2> QED
    BY <1>1, <2>1 DEF Continues, Stored
<1>2. ASSUME NEW ok \in BOOLEAN, Returns(ok) PROVE Stored'
  <2>1. op' = None
    BY <1>2 DEF Returns, Return
  <2>2. ASSUME NEW m \in anchored PROVE m \in Listed' /\ intake'[record'[m]] = "created"
    <3>1. m \in Listed /\ m # op.mission /\ intake[record[m]] = "created" /\ record[m] \in Workspace
      BY <1>0, ListedMeans DEF Stored, Typed
    <3>2. m \in Listed' /\ record'[m] = record[m]
      BY <1>2, <3>1, ListedMeans DEF Returns
    <3>3. record[m] = op.to => op.kind # "create"
      BY <1>0, <3>1 DEF Serving
    <3>4. intake'[record[m]] = "created"
      BY <1>0, <1>2, <3>1, <3>3 DEF Returns, Return, Typed
    <3> QED
      BY <3>2, <3>4
  <2>3. ASSUME ok = TRUE, op.kind # "delete"
        PROVE  op.mission \in Listed' /\ intake'[record'[op.mission]] = "created"
    <3>1. record'[op.mission] = op.to /\ op.to # None
      BY <1>0, <1>2, <2>3, NoneAssumption DEF Returns, Stored
    <3>2. op.mission \in Listed'
      BY <1>2, <2>3, <3>1, ListedMeans DEF Returns
    <3>3. CASE op.kind = "create"
      BY <1>0, <1>2, <2>3, <3>1, <3>2, <3>3 DEF Returns, Return, Typed
    <3>4. CASE op.kind # "create"
      <4>1. intake[op.to] = "created"
        BY <1>0, <2>3, <3>4 DEF Stored, OpType
      <4> QED
        BY <1>2, <3>1, <3>2, <3>4, <4>1 DEF Returns, Return
    <3> QED
      BY <3>3, <3>4
  <2>4. \A m \in anchored' : m \in anchored \/ (m = op.mission /\ ok = TRUE /\ op.kind # "delete")
    BY <1>2 DEF Returns, Return
  <2> QED
    BY <2>1, <2>2, <2>3, <2>4 DEF Stored
<1> QED
  BY <1>1, <1>2, StoreSteps

LEMMA StoredNext ==
    ASSUME Typed, Sweeping, Serving, Stored, Next
    PROVE  Stored'
<1>1. ASSUME NEW w \in Workspace, IntakeNext(w) PROVE Stored'
  <2>1. CASE Request(w) \/ Acquire(w) \/ Acquired(w) \/ IntakeFails(w) \/ Undo(w)
    <3>1. /\ UNCHANGED <<record, index, anchored, op>>
          /\ \A v \in Workspace : intake[v] = "created" => intake'[v] = "created"
      BY <2>1 DEF Request, Acquire, Acquired, IntakeFails, Undo, SetIntake, refs, Typed
    <3> QED
      BY <3>1, StoredSame
  <2>2. ASSUME NEW m \in Mission, Create(w, m) PROVE Stored'
    BY <2>2, StoredWrites DEF Create, Running
  <2> QED
    BY <1>1, <2>1, <2>2 DEF IntakeNext
<1>2. ASSUME NEW m \in Mission, Delete(m) PROVE Stored'
  <2>1. op'.kind = "delete" /\ op'.mission = m /\ op'.at = "index"
    BY <1>2 DEF Delete
  <2>2. /\ record'[m] = None /\ \A n \in Mission : n # m => record'[n] = record[n]
        /\ anchored' = anchored \ {m} /\ UNCHANGED <<index, intake>>
    BY <1>2 DEF Delete, Typed
  <2>3. ASSUME NEW n \in anchored' PROVE n \in Listed' /\ intake'[record'[n]] = "created"
    <3>1. n \in Mission /\ n # m /\ n \in anchored
      BY <2>2 DEF Typed
    <3> QED
      BY <2>2, <3>1, ListedMeans DEF Stored
  <2> QED
    BY <2>1, <2>2, <2>3 DEF Stored
<1>3. ASSUME NEW m \in Mission, NEW w \in Workspace, Import(m, w) \/ Patch(m, w) PROVE Stored'
  BY <1>3, StoredWrites DEF Import, Patch, Running, Told
<1>4. ASSUME NEW s \in Sweep, SweepNext(s) PROVE Stored'
  BY <1>4, SweepFrame, StoredSame
<1>5. PruneStarts \/ PruneDies \/ Tick => Stored'
  BY StoredSame DEF PruneStarts, StartPrune, PruneDies, Tick, refs
<1>6. CASE Crash
  BY <1>6, StoredSame DEF Crash, refs
<1> QED
  BY <1>1, <1>2, <1>3, <1>4, <1>5, <1>6, StoredStore, NextCases DEF ServerNext

-----------------------------------------------------------------------------
(* A workspace is in one place.                                            *)

LEMMA OnePlaceSweeps ==
    ASSUME Typed, Sweeping, OnePlace, NEW s \in Sweep, SweepNext(s)
    PROVE  OnePlace'
<1>0. /\ \A w : Acquiring(w)' = Acquiring(w)
      /\ \A t \in Sweep : t # s => sweep'[t] = sweep[t]
      /\ sweep[s] \in SweepType /\ sweep'[s] \in SweepType /\ Holding(sweep[s])
  BY SweepFrame, SweepSteps, SweepTypes DEF Acquiring, Typed, Sweeping
<1> DEFINE Places ==
             /\ quarantine' \subseteq used'
             /\ \A e \in Entry : meta'[e] # None => e \in used'
             /\ \A e \in used' : Acquiring(e[1])
             /\ \A w \in root' : Acquiring(w)
             /\ \A e \in quarantine' : e[1] \notin root'
             /\ \A e, f \in quarantine' : e[1] = f[1] => e = f
           Grows == used \subseteq used' /\ \A e \in quarantine' : e \in quarantine \/ e \notin used
           Names == /\ sweep'[s].at \in Naming => sweep'[s].cur \in used'
                    /\ sweep'[s].at \in Judging => \A x \in sweep'[s].todo : x[1] \in used'
                    /\ sweep'[s].at = "forget" => sweep'[s].cur \notin quarantine'
<1>8. SUFFICES Places /\ Grows /\ Names
  <2>1. ASSUME NEW t \in Sweep PROVE Named(t)'
    <3>1. CASE t = s
      BY <1>8, <3>1 DEF Named
    <3>2. CASE t # s
      <4>1. sweep'[t] = sweep[t] /\ Named(t)
        BY <1>0, <3>2 DEF OnePlace
      <4>2. sweep[t].at = "forget" => sweep[t].cur \notin quarantine'
        BY <1>8, <4>1 DEF Named, Naming
      <4> QED
        BY <1>8, <4>1, <4>2 DEF Named
    <3> QED
      BY <3>1, <3>2
  <2>2. \A w : Acquiring(w)' = Acquiring(w)
    BY <1>0
  <2> QED
    BY <1>8, <2>1, <2>2 DEF OnePlace
<1>1. CASE Collects(s) \/ Lists(s) \/ GoesOn(s) \/ Ends(s)
  <2>1. Places /\ Grows
    BY <1>1 DEF Collects, Lists, GoesOn, Ends, SameDisk, OnePlace
  <2>2. Names
    BY <1>1 DEF Collects, Lists, GoesOn, Ends, Going, Naming, Judging, Idle
  <2> QED
    BY <2>1, <2>2
<1>2. CASE Moves(s)
  <2>1. PICK w \in sweep[s].todo \cap root : \E e \in Entry :
            /\ Going(s, "move", "describe") /\ sweep'[s].todo = sweep[s].todo \ {w}
            /\ sweep'[s].cur = e
            /\ e[1] = w /\ e \notin used
            /\ root' = root \ {w} /\ quarantine' = quarantine \cup {e} /\ used' = used \cup {e}
            /\ meta' = meta
    BY <1>2 DEF Moves
  <2>2. PICK e \in Entry :
            /\ Going(s, "move", "describe") /\ sweep'[s].cur = e
            /\ e[1] = w /\ e \notin used
            /\ root' = root \ {w} /\ quarantine' = quarantine \cup {e} /\ used' = used \cup {e}
            /\ meta' = meta
    BY <2>1
  <2>3. Places /\ Grows
    BY <2>2 DEF OnePlace
  <2>4. Names
    BY <2>2 DEF Going, Naming, Judging
  <2> QED
    BY <2>3, <2>4
<1>3. CASE Describes(s) \/ Unmarks(s)
  <2>1. sweep[s].cur \in used
    BY <1>3 DEF Describes, Unmarks, Going, OnePlace, Named, Naming
  <2>2. /\ UNCHANGED <<root, quarantine, used>>
        /\ \A e \in Entry : e # sweep[s].cur => meta'[e] = meta[e]
    BY <1>3 DEF Describes, Unmarks, Typed
  <2>3. Places /\ Grows
    BY <2>1, <2>2 DEF OnePlace
  <2>4. Names
    BY <1>3, <2>2 DEF Describes, Unmarks, Going, SameList, SameEntry, Naming, Judging, OnePlace, Named
  <2> QED
    BY <2>3, <2>4
<1>4. CASE Reads(s) \/ Keeps(s)
  <2>1. Places /\ Grows
    BY <1>4 DEF Reads, Keeps, SameDisk, OnePlace
  <2>2. Names
    BY <1>4 DEF Reads, Keeps, SameDisk, Going, Naming, Judging, OnePlace, Named
  <2> QED
    BY <2>1, <2>2
<1>5. CASE Judges(s)
  <2>1. Places /\ Grows
    BY <1>5 DEF Judges, SameDisk, OnePlace
  <2>2. Names
    BY <1>5 DEF Judges, SameDisk, Naming, Judging, OnePlace, Named
  <2> QED
    BY <2>1, <2>2
<1>6. CASE Restores(s)
  <2>1. Places /\ Grows
    BY <1>6 DEF Restores, OnePlace
  <2>2. Names
    BY <1>6 DEF Restores, Going, SameList, SameEntry, Naming, Judging, OnePlace, Named
  <2> QED
    BY <2>1, <2>2
<1>7. CASE Erases(s)
  <2>1. Places /\ Grows
    BY <1>7 DEF Erases, OnePlace
  <2>2. Names
    BY <1>7 DEF Erases, Going, SameList, Naming, Judging, OnePlace, Named
  <2> QED
    BY <2>1, <2>2
<1> QED
  BY <1>1, <1>2, <1>3, <1>4, <1>5, <1>6, <1>7, SweepSteps

LEMMA OnePlaceServer ==
    ASSUME Typed, OnePlace, UNCHANGED <<quarantine, used, meta>>,
           \A s \in Sweep : sweep'[s] = sweep[s] \/ sweep'[s].at \in {"idle", "collect", "read"},
           \A w \in Workspace : Acquiring(w) => Acquiring(w)',
           \A w \in root' : w \in root \/ (Acquiring(w)' /\ ~Acquiring(w))
    PROVE  OnePlace'
<1>1. \A s \in Sweep : Named(s)'
  BY DEF OnePlace, Named, Naming, Judging
<1>2. /\ \A w \in root : w \in Workspace
      /\ \A e \in used : e[1] \in Workspace
  BY DEF Typed, Entry
<1>3. /\ \A e \in used' : Acquiring(e[1])'
      /\ \A w \in root' : Acquiring(w)'
      /\ \A e \in quarantine' : e[1] \notin root'
  BY <1>2 DEF OnePlace
<1> QED
  BY <1>1, <1>3 DEF OnePlace

LEMMA OnePlaceNext ==
    ASSUME Typed, Sweeping, Serving, Stored, OnePlace, Next
    PROVE  OnePlace'
<1>1. ASSUME NEW w \in Workspace, IntakeNext(w) PROVE OnePlace'
  <2>0. UNCHANGED <<quarantine, used, meta, sweep>>
    BY <1>1 DEF IntakeNext, Request, Acquire, Acquired, IntakeFails, Undo, Create, disk
  <2>1. CASE Request(w) \/ Acquired(w) \/ IntakeFails(w) \/ Undo(w)
    <3>1. root' \subseteq root /\ \A v \in Workspace : Acquiring(v) => Acquiring(v)'
      BY <2>1 DEF Request, Acquired, IntakeFails, Undo, SetIntake, disk, Acquiring, Typed
    <3> QED
      BY <2>0, <3>1, OnePlaceServer
  <2>2. CASE Acquire(w)
    <3>1. /\ root' = root \cup {w} /\ ~Acquiring(w) /\ Acquiring(w)'
          /\ \A v \in Workspace : Acquiring(v) => Acquiring(v)'
      BY <2>2 DEF Acquire, SetIntake, Acquiring, Typed
    <3> QED
      BY <2>0, <3>1, OnePlaceServer
  <2>3. ASSUME NEW m \in Mission, Create(w, m) PROVE OnePlace'
    BY <2>0, <2>3, OnePlaceServer DEF Create, disk, Acquiring
  <2> QED
    BY <1>1, <2>1, <2>2, <2>3 DEF IntakeNext
<1>2. ASSUME NEW m \in Mission, Delete(m) PROVE OnePlace'
  BY <1>2, OnePlaceServer DEF Delete, disk, Acquiring
<1>3. ASSUME NEW m \in Mission, NEW w \in Workspace, Import(m, w) \/ Patch(m, w) PROVE OnePlace'
  BY <1>3, OnePlaceServer DEF Import, Patch, disk, Acquiring
<1>4. CASE StoreNext
  <2>0. op # None /\ UNCHANGED <<quarantine, used, meta, sweep, root>>
    BY <1>4 DEF StoreNext, WriteIndex, AppendEvent, WriteFails, disk
  <2>1. \A w \in Workspace : Acquiring(w) => Acquiring(w)'
    BY <1>4, <2>0, StoreSteps DEF Continues, Returns, Return, Acquiring, Typed
  <2> QED
    BY <2>0, <2>1, OnePlaceServer
<1>5. ASSUME NEW at \in {"collect", "read"}, NEW both, StartPrune(at, both) PROVE OnePlace'
  <2>1. \A s \in Sweep : sweep'[s] = sweep[s] \/ sweep'[s].at \in {"collect", "read"}
    BY <1>5 DEF StartPrune, SetSweep, Idle, Typed
  <2> QED
    BY <1>5, <2>1, OnePlaceServer DEF StartPrune, disk, Acquiring
<1>6. CASE PruneDies
  <2>1. \A s \in Sweep : sweep'[s] = sweep[s] \/ sweep'[s].at = "idle"
    BY <1>6 DEF PruneDies, SetSweep, Idle, Typed
  <2> QED
    BY <1>6, <2>1, OnePlaceServer DEF PruneDies, disk, Acquiring
<1>7. CASE Crash
  <2>1. \A s \in Sweep : sweep'[s] = sweep[s] \/ sweep'[s].at = "collect"
    BY <1>7 DEF Crash, SetSweep, Idle, Typed
  <2>2. \A w \in Workspace : Acquiring(w) => Acquiring(w)'
    BY <1>7 DEF Crash, Acquiring, Typed
  <2> QED
    BY <1>7, <2>1, <2>2, OnePlaceServer DEF Crash, disk
<1>8. CASE Tick
  BY <1>8, OnePlaceServer DEF Tick, disk, Acquiring
<1> QED
  BY <1>1, <1>2, <1>3, <1>4, <1>5, <1>6, <1>7, <1>8, OnePlaceSweeps, NextCases
  DEF ServerNext, PruneStarts

-----------------------------------------------------------------------------
(* The reasons to keep a workspace: where each comes from.                 *)

LEMMA WantedSame ==
    ASSUME UNCHANGED <<intake, op, record, anchored, started>>
    PROVE  \A w : /\ Brought(w)' = Brought(w) /\ Pending(w)' = Pending(w)
                  /\ Anchored(w)' = Anchored(w) /\ Wanted(w)' = Wanted(w)
BY DEF Wanted, Brought, Pending, Anchored

LEMMA WantedWrites ==
    ASSUME Typed, op = None, NEW kind \in {"create", "import", "patch"},
           NEW m \in Mission, NEW v \in Workspace, WriteRecord(kind, m, v),
           NEW w \in Workspace, UNCHANGED intake
    PROVE  /\ Brought(w)' => Brought(w)
           /\ Pending(w)' => w \in root
           /\ Anchored(w)' => Anchored(w)
<1>1. /\ op'.kind = kind /\ op'.to = v /\ op'.inPlace = (kind = "create" \/ v \in root)
  BY WriteRecordTypes
<1>2. anchored' = anchored \ {m} /\ \A n \in Mission : n # m => record'[n] = record[n]
  BY DEF WriteRecord, Typed
<1>3. Anchored(w)' => Anchored(w)
  BY <1>2 DEF Anchored, Typed
<1> QED
  BY <1>1, <1>3 DEF Brought, Pending

LEMMA WantedServer ==
    ASSUME Typed, Serving, Stored, ServerNext \/ Crash, NEW w \in Workspace
    PROVE  /\ Brought(w)' => \/ Brought(w) /\ started'[w] = started[w]
                             \/ ~Acquiring(w) /\ w \in root' /\ started'[w] = clock
           /\ Pending(w)' => Pending(w) \/ (w \in root /\ w \in root')
           /\ Anchored(w)' => Wanted(w)
           /\ Wanted(w)' /\ w \in root => w \in root'
<1> DEFINE Traced ==
           /\ Brought(w)' => \/ Brought(w) /\ started'[w] = started[w]
                             \/ ~Acquiring(w) /\ w \in root' /\ started'[w] = clock
           /\ Pending(w)' => Pending(w) \/ (w \in root /\ w \in root')
           /\ Anchored(w)' => Wanted(w)
           /\ Wanted(w)' /\ w \in root => w \in root'
<1>1. ASSUME NEW v \in Workspace, IntakeNext(v) PROVE Traced
  <2>1. CASE Request(v) \/ Acquired(v) \/ IntakeFails(v)
    <3>1. /\ UNCHANGED <<root, record, anchored, op, started>>
          /\ Brought(w)' => Brought(w)
      BY <2>1 DEF Request, Acquired, IntakeFails, SetIntake, disk, refs, Brought, Typed
    <3> QED
      BY <3>1 DEF Pending, Anchored, Wanted
  <2>2. CASE Acquire(v)
    <3>1. /\ root' = root \cup {v} /\ UNCHANGED <<record, anchored, op>>
          /\ w # v => (Brought(w)' => Brought(w)) /\ started'[w] = started[w]
          /\ w = v => ~Acquiring(w) /\ started'[w] = clock
      BY <2>2 DEF Acquire, SetIntake, refs, Brought, Acquiring, Typed
    <3> QED
      BY <3>1 DEF Pending, Anchored, Wanted
  <2>3. CASE Undo(v)
    <3>1. /\ root' = root \ {v} /\ UNCHANGED <<record, anchored, op>>
          /\ w # v => (Brought(w)' => Brought(w)) /\ started'[w] = started[w]
          /\ ~Brought(v)' /\ op = None /\ intake[v] = "undoing"
      BY <2>3 DEF Undo, SetIntake, refs, Brought, Running, Typed
    <3>2. ~Anchored(v)
      BY <3>1 DEF Anchored, Stored
    <3> QED
      BY <3>1, <3>2 DEF Pending, Anchored, Wanted
  <2>4. ASSUME NEW m \in Mission, Create(v, m) PROVE Traced
    <3>1. op = None /\ UNCHANGED <<root, intake, started>> /\ WriteRecord("create", m, v)
      BY <2>4 DEF Create, Running, disk
    <3> QED
      BY <3>1, WantedWrites DEF Wanted
  <2> QED
    BY <1>1, <2>1, <2>2, <2>3, <2>4 DEF IntakeNext
<1>2. ASSUME NEW m \in Mission, Delete(m) PROVE Traced
  <2>1. /\ anchored' = anchored \ {m} /\ \A n \in Mission : n # m => record'[n] = record[n]
        /\ op'.kind = "delete" /\ UNCHANGED <<root, intake, started>>
    BY <1>2 DEF Delete, disk, Typed
  <2>2. Anchored(w)' => Anchored(w)
    BY <2>1 DEF Anchored, Typed
  <2> QED
    BY <2>1, <2>2 DEF Brought, Pending, Wanted
<1>3. ASSUME NEW m \in Mission, NEW v \in Workspace, Import(m, v) \/ Patch(m, v) PROVE Traced
  <2>1. /\ op = None /\ UNCHANGED <<root, intake, started>>
        /\ WriteRecord("import", m, v) \/ WriteRecord("patch", m, v)
    BY <1>3 DEF Import, Patch, Running, disk
  <2> QED
    BY <2>1, WantedWrites DEF Wanted
<1>4. CASE StoreNext
  <2>0. op # None /\ op \in OpType /\ op.to \in Workspace /\ op.mission \in Mission
    BY <1>4 DEF StoreNext, WriteIndex, AppendEvent, WriteFails, Typed, OpType
  <2>1. CASE Continues
    BY <2>0, <2>1 DEF Continues, Brought, Pending, Anchored, Wanted
  <2>2. ASSUME NEW ok \in BOOLEAN, Returns(ok) PROVE Traced
    <3>1. op' = None /\ UNCHANGED <<root, record>>
      BY <2>2 DEF Returns, Return
    <3>2. Brought(w)' => Brought(w) /\ started'[w] = started[w]
      BY <2>0, <2>2 DEF Returns, Return, Brought, Typed
    <3>3. \A m \in anchored' : m \in anchored \/ (m = op.mission /\ op.kind # "delete" /\ op.inPlace)
      BY <2>2 DEF Returns, Return
    <3>4. op.kind # "delete" /\ op.inPlace => record[op.mission] = op.to /\ Wanted(op.to)
      <4>1. op.kind # "delete" => record[op.mission] = op.to
        BY <2>0 DEF Stored
      <4>2. op.kind = "create" => Brought(op.to)
        BY <2>0 DEF Serving, Brought
      <4>3. op.kind \in {"import", "patch"} /\ op.inPlace => Pending(op.to)
        BY <2>0 DEF Pending
      <4> QED
        BY <2>0, <4>1, <4>2, <4>3 DEF OpType, Wanted
    <3>5. Anchored(w)' => Wanted(w)
      BY <3>1, <3>3, <3>4 DEF Anchored, Wanted
    <3> QED
      BY <3>1, <3>2, <3>5 DEF Pending
  <2> QED
    BY <1>4, <2>1, <2>2, StoreSteps
<1>5. CASE Crash
  <2>1. ~Brought(w)'
    BY <1>5 DEF Crash, Brought, Typed
  <2> QED
    BY <1>5, <2>1 DEF Crash, disk, refs, Pending, Anchored, Wanted
<1> QED
  BY <1>1, <1>2, <1>3, <1>4, <1>5 DEF ServerNext

(* What the server's steps and its death do to the disk and to the sweeps. *)
LEMMA ServerDisk ==
    ASSUME Typed, Serving, Sweeping, ServerNext \/ Crash
    PROVE  /\ UNCHANGED <<quarantine, used, meta, clock, env>>
           /\ sweep'["prune"] = sweep["prune"]
           /\ sweep'["boot"] = sweep["boot"] \/ (env.crash /\ sweep'["boot"].at = "collect")
<1>1. CASE Crash
  BY <1>1 DEF Crash, disk, SetSweep, Idle, Typed, Sweep
<1> QED
  BY <1>1, ServerTypes

-----------------------------------------------------------------------------
(* No reason to keep a workspace that is not among the references is older *)
(* than what the metadata says.                                            *)

LEMMA RecentKept ==
    ASSUME Typed, OnePlace, NEW e \in used, NEW t \in Time, Recent(e, t),
           quarantine' = quarantine, clock' = clock,
           Brought(e[1])' => \/ Brought(e[1]) /\ started'[e[1]] = started[e[1]]
                             \/ ~Acquiring(e[1]),
           Pending(e[1])' => Pending(e[1]) \/ e[1] \in root
    PROVE  Recent(e, t)'
<1>1. Acquiring(e[1])
  BY DEF OnePlace
<1>2. e \in quarantine => e[1] \notin root
  BY DEF OnePlace
<1> QED
  BY <1>1, <1>2 DEF Recent

LEMMA MetaDates ==
    ASSUME Typed, Sweeping, OnePlace
    PROVE  /\ \A e \in Entry : meta[e] # None => e \in used /\ meta[e] \in Time
           /\ \A s \in Sweep : sweep[s].at \in Judging =>
                 \A x \in sweep[s].todo : x[1] \in used /\ (x[2] # None => x[2] \in Time)
<1>1. \A e \in Entry : meta[e] # None => e \in used /\ meta[e] \in Time
  BY DEF OnePlace, Typed
<1>2. ASSUME NEW s \in Sweep, sweep[s].at \in Judging, NEW x \in sweep[s].todo
      PROVE  x[1] \in used /\ (x[2] # None => x[2] \in Time)
  <2>1. x \in Pair
    BY <1>2 DEF Sweeping, Holding
  <2> QED
    BY <1>2, <2>1 DEF OnePlace, Named, Pair
<1> QED
  BY <1>1, <1>2

LEMMA DatedServer ==
    ASSUME Typed, Sweeping, Serving, Stored, OnePlace, Dated, ServerNext \/ Crash
    PROVE  Dated'
<1>0. /\ UNCHANGED <<quarantine, used, meta, clock, env>>
      /\ \A s \in Sweep : sweep'[s] = sweep[s] \/ sweep'[s].at = "collect"
  BY ServerDisk DEF Sweep
<1>1. \A w \in Workspace :
         /\ Brought(w)' => \/ Brought(w) /\ started'[w] = started[w]
                           \/ ~Acquiring(w) /\ started'[w] = clock
         /\ Pending(w)' => Pending(w) \/ w \in root
  BY WantedServer
<1>2. ASSUME NEW e \in used, NEW t \in Time, Recent(e, t) PROVE Recent(e, t)'
  <2>1. e[1] \in Workspace
    BY DEF Typed, Entry
  <2> QED
    BY <1>0, <1>1, <1>2, <2>1, RecentKept
<1>3. clock \in Nat /\ \A w \in Workspace : started[w] \in Nat
  BY BoundAssumption DEF Typed, Time
<1>4. \A w \in Workspace : Brought(w)' => started'[w] <= clock' /\ clock' - started'[w] < Grace
  BY <1>0, <1>1, <1>3, GraceAssumption DEF Dated
<1>5. \A e \in Entry : meta'[e] # None => Recent(e, meta[e])'
  BY <1>0, <1>2, MetaDates DEF Dated
<1>6. ASSUME NEW s \in Sweep, sweep'[s].at \in Judging, NEW x \in sweep'[s].todo, x[2] # None
      PROVE  Recent(x[1], x[2])'
  <2>1. sweep'[s] = sweep[s]
    BY <1>0, <1>6 DEF Judging
  <2>2. x[1] \in used /\ x[2] \in Time /\ Recent(x[1], x[2])
    BY <1>6, <2>1, MetaDates DEF Dated
  <2> QED
    BY <2>2, <1>2
<1> QED
  BY <1>4, <1>5, <1>6 DEF Dated

LEMMA DatedSweeps ==
    ASSUME Typed, Sweeping, OnePlace, Dated, NEW s \in Sweep, SweepNext(s)
    PROVE  Dated'
<1>0. /\ UNCHANGED <<intake, op, record, anchored, started, clock>>
      /\ \A t \in Sweep : t # s => sweep'[t] = sweep[t]
  BY SweepFrame, SweepSteps
<1>1. \A w : Brought(w)' = Brought(w) /\ Pending(w)' = Pending(w)
  BY <1>0, WantedSame
<1>2. \A e \in quarantine' : e \in quarantine \/ e \notin used
  BY SweepSteps DEF Collects, Lists, Moves, Describes, Ends, GoesOn, Reads, Keeps, Judges, Restores,
                    Unmarks, Erases, SameDisk
<1>3. ASSUME NEW e \in used, NEW t, Recent(e, t) PROVE Recent(e, t)'
  BY <1>0, <1>1, <1>2, <1>3 DEF Recent
<1>4. \A w \in Workspace : Brought(w)' => started'[w] <= clock' /\ clock' - started'[w] < Grace
  BY <1>0, <1>1 DEF Dated
<1>5. ASSUME NEW e \in Entry, NEW t, t = meta'[e], t # None PROVE Recent(e, t)'
  <2>1. CASE t = meta[e]
    BY <1>3, <1>5, <2>1, MetaDates DEF Dated
  <2>2. CASE t # meta[e]
    <3>1. t = clock
      BY <1>5, <2>2, SweepSteps
      DEF Collects, Lists, Moves, Describes, Ends, GoesOn, Reads, Keeps, Judges, Restores,
          Unmarks, Erases, SameDisk, Typed
    <3>2. e[1] \in Workspace /\ clock \in Int
      BY BoundAssumption DEF Entry, Typed, Time
    <3> QED
      BY <1>0, <1>4, <3>1, <3>2 DEF Recent
  <2> QED
    BY <2>1, <2>2
<1>6. ASSUME NEW t \in Sweep, sweep'[t].at \in Judging, NEW x \in sweep'[t].todo, x[2] # None
      PROVE  Recent(x[1], x[2])'
  <2>1. CASE sweep[t].at \in Judging /\ x \in sweep[t].todo
    BY <1>3, <1>6, <2>1, MetaDates DEF Dated
  <2>2. CASE ~(sweep[t].at \in Judging /\ x \in sweep[t].todo)
    <3>1. t = s
      BY <1>0, <1>6, <2>2
    <3>2. Reads(s)
      BY <1>6, <2>2, <3>1, SweepSteps
      DEF Collects, Lists, Moves, Describes, Ends, GoesOn, Keeps, Judges, Restores,
          Unmarks, Erases, Going, SameList, Judging, Idle
    <3>3. PICK e \in quarantine : x = <<e, meta[e]>>
      BY <1>6, <3>1, <3>2 DEF Reads
    <3>4. e \in Entry /\ x[1] = e /\ x[2] = meta'[e]
      BY <3>2, <3>3 DEF Typed, Reads, SameDisk
    <3> QED
      BY <1>5, <1>6, <3>4
  <2> QED
    BY <2>1, <2>2
<1>7. ASSUME NEW e \in Entry, meta'[e] # None PROVE Recent(e, meta[e])'
  <2>1. PICK t : t = meta'[e]
    OBVIOUS
  <2>2. Recent(e, t)'
    BY <1>5, <1>7, <2>1
  <2> QED
    BY <2>1, <2>2 DEF Recent
<1> QED
  BY <1>4, <1>6, <1>7 DEF Dated

LEMMA DatedNext ==
    ASSUME Typed, Sweeping, Serving, Stored, OnePlace, Dated, Next
    PROVE  Dated'
<1>1. ASSUME PruneStarts \/ PruneDies PROVE Dated'
  <2>1. /\ UNCHANGED <<intake, op, record, anchored, started, clock, meta, quarantine>>
        /\ \A s \in Sweep : sweep'[s] = sweep[s] \/ sweep'[s].at \in {"idle", "collect", "read"}
    <3>1. ASSUME NEW at \in {"collect", "read"}, NEW both, StartPrune(at, both) PROVE <2>1
      BY <3>1 DEF StartPrune, SetSweep, disk, refs, Idle, Typed
    <3>2. ASSUME PruneDies PROVE <2>1
      BY <3>2 DEF PruneDies, SetSweep, disk, refs, Idle, Typed
    <3> QED
      BY <1>1, <3>1, <3>2 DEF PruneStarts
  <2>2. \A w : Brought(w)' = Brought(w) /\ Pending(w)' = Pending(w)
    BY <2>1, WantedSame
  <2>3. \A e, t : Recent(e, t) => Recent(e, t)'
    BY <2>1, <2>2 DEF Recent
  <2>4. \A s \in Sweep : sweep'[s].at \in Judging => sweep'[s] = sweep[s]
    BY <2>1 DEF Judging
  <2>5. \A e \in Entry : meta'[e] # None => Recent(e, meta[e])'
    BY <2>1, <2>3 DEF Dated
  <2> QED
    BY <2>1, <2>2, <2>3, <2>4, <2>5 DEF Dated
<1>2. CASE Tick
  <2>1. /\ UNCHANGED <<intake, op, record, anchored, started, meta, quarantine, sweep>>
        /\ op = None /\ clock' = clock + 1
        /\ \A w \in Workspace : InFlight(w) => clock + 1 - started[w] < Grace
    BY <1>2 DEF Tick, disk, refs
  <2>2. \A w : Brought(w)' = Brought(w) /\ ~Pending(w)'
    BY <2>1, WantedSame DEF Pending
  <2>3. \A e, t : Recent(e, t) => Recent(e, t)'
    BY <2>1, <2>2 DEF Recent
  <2>4. clock \in Nat /\ \A w \in Workspace : started[w] \in Nat
    BY BoundAssumption DEF Typed, Time
  <2>5. \A w \in Workspace : Brought(w)' => started'[w] <= clock' /\ clock' - started'[w] < Grace
    BY <2>1, <2>2, <2>4 DEF Dated, Brought, InFlight
  <2>6. \A e \in Entry : meta'[e] # None => Recent(e, meta[e])'
    BY <2>1, <2>3 DEF Dated
  <2> QED
    BY <2>1, <2>3, <2>5, <2>6 DEF Dated
<1> QED
  BY <1>1, <1>2, DatedServer, DatedSweeps, NextCases

-----------------------------------------------------------------------------
(* The server alone: what is wanted is in its place.                       *)

LEMMA AnchoredReferenced ==
    ASSUME Stored, NEW w, Anchored(w)
    PROVE  w \in Referenced
BY DEF Stored, Anchored, Referenced

LEMMA ReferencedSame ==
    ASSUME UNCHANGED <<record, index>>
    PROVE  Referenced' = Referenced
BY DEF Referenced, Listed

LEMMA BootAloneSweeps ==
    ASSUME Typed, Sweeping, Serving, Stored, BootAlone, NEW s \in Sweep, SweepNext(s), ~env.cli
    PROVE  BootAlone'
<1>1. s = "boot" /\ up = "boot"
  BY SweepFrame DEF Runs, Sweep
<1>2. sweep'["prune"].at = "idle"
  BY <1>1, SweepSteps DEF BootAlone, Sweep
<1>3. Referenced' = Referenced /\ \A w : Wanted(w)' = Wanted(w)
  BY SweepFrame, ReferencedSame, WantedSame
<1>4. \A w \in Workspace : Wanted(w) => w \in Referenced
  BY <1>1, AnchoredReferenced DEF Serving, InFlight, Wanted, Brought, Pending
<1>5. sweep'["boot"].at = "list" => sweep'["boot"].refs = Referenced
  BY <1>1, SweepSteps
  DEF Collects, Lists, Moves, Describes, Ends, GoesOn, Reads, Keeps, Judges, Restores, Unmarks,
      Erases, Going, Idle
<1>6. sweep'["boot"].at \in Moving => sweep'["boot"].todo \cap Referenced = {}
  BY <1>1, SweepSteps
  DEF Collects, Lists, Moves, Describes, Ends, GoesOn, Reads, Keeps, Judges, Restores, Unmarks,
      Erases, Going, SameList, Idle, Moving, BootAlone
<1>7. ASSUME NEW w \in Workspace, Wanted(w) PROVE w \in root'
  <2>1. w \in root /\ w \in Referenced
    BY <1>4, <1>7 DEF BootAlone
  <2>2. sweep["boot"].at = "move" => w \notin sweep["boot"].todo
    BY <2>1 DEF BootAlone, Moving
  <2> QED
    BY <1>1, <2>1, <2>2, SweepSteps
    DEF Collects, Lists, Moves, Describes, Ends, GoesOn, Reads, Keeps, Judges, Restores, Unmarks,
        Erases, Going, SameDisk
<1> QED
  BY <1>2, <1>3, <1>5, <1>6, <1>7 DEF BootAlone

LEMMA BootAloneNext ==
    ASSUME Typed, Sweeping, Serving, Stored, BootAlone, Next, ~env.cli
    PROVE  BootAlone'
<1>1. CASE ServerNext
  <2>1. sweep' = sweep /\ up = "serving"
    <3>1. sweep' = sweep
      BY <1>1, ServerTypes
    <3>2. up = "serving"
      BY <1>1 DEF ServerNext, IntakeNext, Request, Acquire, Acquired, IntakeFails, Undo, Create,
         StoreNext, WriteIndex, AppendEvent, WriteFails, Delete, Import, Patch, Running, Serving,
         Typed
    <3> QED
      BY <3>1, <3>2
  <2>2. sweep["boot"].at = "idle"
    BY <2>1 DEF Serving
  <2>3. ASSUME NEW w \in Workspace, Wanted(w)' PROVE w \in root'
    <3>1. Wanted(w) \/ w \in root'
      BY <1>1, <2>3, WantedServer DEF Wanted
    <3> QED
      BY <1>1, <2>3, <3>1, WantedServer DEF BootAlone
  <2> QED
    BY <2>1, <2>2, <2>3 DEF BootAlone, Moving
<1>2. CASE Crash
  <2>1. sweep'["prune"].at = "idle" /\ sweep'["boot"].at = "collect"
    BY <1>2 DEF Crash, SetSweep, Idle, Typed, Sweep, BootAlone
  <2>2. ASSUME NEW w \in Workspace, Wanted(w)' PROVE w \in root'
    <3>1. Wanted(w) \/ w \in root'
      BY <1>2, <2>2, WantedServer DEF Wanted
    <3> QED
      BY <1>2, <2>2, <3>1, WantedServer DEF BootAlone
  <2> QED
    BY <2>1, <2>2 DEF BootAlone, Moving
<1>3. ~PruneStarts /\ ~PruneDies
  BY DEF PruneStarts, StartPrune, PruneDies, BootAlone
<1>4. CASE Tick
  <2>1. UNCHANGED <<intake, op, record, index, anchored, started, root, sweep>>
    BY <1>4 DEF Tick, disk, refs
  <2> QED
    BY <2>1, WantedSame, ReferencedSame DEF BootAlone
<1> QED
  BY <1>1, <1>2, <1>3, <1>4, BootAloneSweeps, NextCases

-----------------------------------------------------------------------------
(* With the prune command: what is to be erased is not wanted, and what is *)
(* wanted is there.                                                        *)

(* The second sweep lets go of what no mission refers to, a grace window   *)
(* after it was set aside: nobody wants it.                                *)
LEMMA JudgedUnwanted ==
    ASSUME Typed, Sweeping, Stored, OnePlace, Dated, InBudget, NEW s \in Sweep,
           sweep[s].at = "judge", NEW x \in sweep[s].todo, Eligible(s, x), ~StillReferenced(x),
           x[1] \in quarantine
    PROVE  ~Wanted(x[1][1])
<1>1. x \in Pair /\ sweep[s].left \in Nat
  BY DEF Sweeping, Holding, Judging, Typed, SweepType
<1>2. env.maxCount \in Nat
  BY EnvironmentAssumption DEF Typed
<1>3. ~(sweep[s].left > env.maxCount)
  BY <1>1, <1>2 DEF InBudget, Judging
<1>4. x[2] # None /\ clock - x[2] >= Grace
  BY <1>3 DEF Eligible
<1>5. x[2] \in Nat /\ clock \in Nat /\ x[1][1] \in Workspace /\ started[x[1][1]] \in Nat
  BY <1>1, <1>4, BoundAssumption DEF Pair, Entry, Time, Typed
<1>6. Recent(x[1], x[2])
  BY <1>4 DEF Dated, Judging
<1>7. ~Brought(x[1][1])
  BY <1>4, <1>5, <1>6, GraceAssumption DEF Recent, Dated
<1>8. ~Pending(x[1][1])
  BY <1>4, <1>5, <1>6, GraceAssumption DEF Recent
<1>9. ~Anchored(x[1][1])
  BY <1>4, AnchoredReferenced DEF StillReferenced
<1> QED
  BY <1>7, <1>8, <1>9 DEF Wanted

LEMMA InBudgetNext ==
    ASSUME Typed, Sweeping, Serving, Stored, env.cli, WithinBudget, InBudget, Next
    PROVE  InBudget'
<1>1. CASE ServerNext \/ Crash
  BY <1>1, ServerDisk DEF InBudget, Sweep, Judging
<1>2. ASSUME NEW s \in Sweep, SweepNext(s) PROVE InBudget'
  <2>1. sweep[s].left \in Nat /\ env.maxCount \in Nat /\ env' = env
    BY <1>2, SweepFrame, EnvironmentAssumption DEF Typed, SweepType
  <2>2. sweep'[s].at \in Judging => sweep'[s].left <= env.maxCount
    BY <1>2, <2>1, SweepSteps
    DEF Collects, Lists, Moves, Describes, Ends, GoesOn, Reads, Keeps, Judges, Restores, Unmarks,
        Erases, Going, SameList, Judging, Idle, InBudget, WithinBudget
  <2> QED
    BY <1>2, <2>1, <2>2, SweepSteps DEF InBudget
<1>3. ASSUME NEW at \in {"collect", "read"}, NEW both, StartPrune(at, both) PROVE InBudget'
  BY <1>3 DEF StartPrune, SetSweep, Idle, Typed, InBudget, Judging
<1>4. CASE PruneDies
  BY <1>4 DEF PruneDies, SetSweep, Idle, Typed, InBudget, Judging
<1>5. CASE Tick
  BY <1>5 DEF Tick, InBudget
<1> QED
  BY <1>1, <1>2, <1>3, <1>4, <1>5, NextCases DEF PruneStarts

LEMMA SparedNext ==
    ASSUME Typed, Sweeping, Serving, Stored, OnePlace, Dated, InBudget, Spared, Next
    PROVE  Spared'
<1>1. CASE ServerNext \/ Crash
  <2>1. /\ quarantine' = quarantine
        /\ \A s \in Sweep : sweep'[s] = sweep[s] \/ sweep'[s].at = "collect"
    BY <1>1, ServerDisk DEF Sweep
  <2>2. ASSUME NEW s \in Sweep, Condemned(s)', NEW e, e = sweep'[s].cur, Wanted(e[1])' PROVE FALSE
    <3>1. Condemned(s) /\ e = sweep[s].cur
      BY <2>1, <2>2 DEF Condemned
    <3>2. ~Wanted(e[1]) /\ e \in used /\ e \in quarantine
      BY <3>1 DEF Spared, Condemned, OnePlace
    <3>3. e[1] \in Workspace /\ Acquiring(e[1]) /\ e[1] \notin root
      BY <3>2 DEF OnePlace, Typed, Entry
    <3> QED
      BY <1>1, <2>2, <3>2, <3>3, WantedServer DEF Wanted
  <2> QED
    BY <2>2 DEF Spared
<1>2. ASSUME NEW s \in Sweep, SweepNext(s) PROVE Spared'
  <2>0. /\ \A t \in Sweep : t # s => sweep'[t] = sweep[t]
        /\ \A w : Wanted(w)' = Wanted(w)
        /\ \A e \in quarantine' : e \in quarantine \/ e \notin used
    BY <1>2, SweepSteps, SweepFrame, WantedSame
    DEF Collects, Lists, Moves, Describes, Ends, GoesOn, Reads, Keeps, Judges, Restores,
        Unmarks, Erases, SameDisk
  <2>1. ASSUME NEW t \in Sweep, Condemned(t)', NEW e, e = sweep'[t].cur PROVE ~Wanted(e[1])
    <3>1. CASE Condemned(t) /\ e = sweep[t].cur
      BY <3>1 DEF Spared
    <3>2. CASE ~(Condemned(t) /\ e = sweep[t].cur)
      <4>1. sweep[t].at \in {"unmark", "erase"} /\ e = sweep[t].cur => e \notin quarantine /\ e \in used
        BY <3>2 DEF Condemned, OnePlace, Named, Naming
      <4>2. t = s
        BY <2>0, <2>1, <4>1 DEF Condemned
      <4>3. Judges(s)
        BY <1>2, <2>0, <2>1, <4>1, <4>2, SweepSteps
        DEF Collects, Lists, Moves, Describes, Ends, GoesOn, Reads, Keeps, Restores, Unmarks,
            Erases, Going, SameEntry, Condemned, Idle
      <4>4. PICK x \in sweep[s].todo :
               /\ sweep[s].at = "judge" /\ Eligible(s, x)
               /\ sweep'[s].at = IF StillReferenced(x) THEN "restore" ELSE "unmark"
               /\ sweep'[s].cur = x[1] /\ SameDisk
        BY <4>3 DEF Judges
      <4>5. ~StillReferenced(x) /\ e = x[1] /\ e \in quarantine
        BY <2>1, <4>2, <4>4 DEF Condemned, SameDisk
      <4> QED
        BY <4>4, <4>5, JudgedUnwanted
    <3> QED
      BY <3>1, <3>2
  <2> QED
    BY <2>0, <2>1 DEF Spared
<1>3. CASE PruneStarts \/ PruneDies
  <2>1. /\ UNCHANGED <<intake, op, record, anchored, started, quarantine>>
        /\ \A s \in Sweep : sweep'[s] = sweep[s] \/ sweep'[s].at \in {"idle", "collect", "read"}
    <3>1. ASSUME NEW at \in {"collect", "read"}, NEW both, StartPrune(at, both) PROVE <2>1
      BY <3>1 DEF StartPrune, SetSweep, disk, refs, Idle, Typed
    <3>2. ASSUME PruneDies PROVE <2>1
      BY <3>2 DEF PruneDies, SetSweep, disk, refs, Idle, Typed
    <3> QED
      BY <1>3, <3>1, <3>2 DEF PruneStarts
  <2>2. \A s \in Sweep : Condemned(s)' => Condemned(s) /\ sweep'[s] = sweep[s]
    BY <2>1 DEF Condemned
  <2>3. \A w : Wanted(w)' = Wanted(w)
    BY <2>1, WantedSame
  <2> QED
    BY <2>2, <2>3 DEF Spared
<1>4. CASE Tick
  <2>1. UNCHANGED <<intake, op, record, anchored, started, quarantine, sweep>>
    BY <1>4 DEF Tick, disk, refs
  <2>2. \A w : Wanted(w)' = Wanted(w)
    BY <2>1, WantedSame
  <2> QED
    BY <2>1, <2>2 DEF Spared, Condemned
<1> QED
  BY <1>1, <1>2, <1>3, <1>4, NextCases

LEMMA KeptSweeps ==
    ASSUME Typed, Sweeping, OnePlace, Spared, Kept, NEW s \in Sweep, SweepNext(s)
    PROVE  Kept'
<1>0. /\ \A t \in Sweep : t # s => sweep'[t] = sweep[t]
      /\ \A w : Wanted(w)' = Wanted(w)
      /\ env' = env
  BY SweepFrame, SweepSteps, WantedSame
<1>1. SUFFICES ASSUME NEW w \in Workspace, Wanted(w) PROVE Safe(w)'
  BY <1>0 DEF Kept
<1>2. CASE w \in root
  <2>1. CASE w \in root'
    BY <2>1 DEF Safe
  <2>2. CASE w \notin root'
    <3>1. PICK v \in sweep[s].todo \cap root : \E e \in Entry :
             /\ Going(s, "move", "describe") /\ sweep'[s].cur = e /\ e[1] = v
             /\ root' = root \ {v} /\ quarantine' = quarantine \cup {e}
      BY <1>2, <2>2, SweepSteps
      DEF Collects, Lists, Moves, Describes, Ends, GoesOn, Reads, Keeps, Judges, Restores,
          Unmarks, Erases, SameDisk
    <3>2. PICK e \in Entry :
             /\ Going(s, "move", "describe") /\ sweep'[s].cur = e /\ e[1] = v
             /\ root' = root \ {v} /\ quarantine' = quarantine \cup {e}
      BY <3>1
    <3>3. v = w /\ Described(e)'
      BY <1>2, <2>2, <3>2 DEF Described, Going
    <3> QED
      BY <3>2, <3>3 DEF Safe
  <2> QED
    BY <2>1, <2>2
<1>3. CASE w \notin root
  <2>1. PICK e \in quarantine : e[1] = w /\ Described(e)
    BY <1>1, <1>3 DEF Kept, Safe
  <2>2. ~(Condemned(s) /\ sweep[s].cur = e)
    BY <1>1, <2>1 DEF Spared
  <2>3. sweep[s].at = "forget" => sweep[s].cur # e
    BY <2>1 DEF OnePlace, Named
  <2>4. CASE Restores(s) /\ sweep[s].cur = e
    BY <2>1, <2>4 DEF Restores, Safe
  <2>5. CASE ~(Restores(s) /\ sweep[s].cur = e)
    <3>1. e \in quarantine'
      BY <2>1, <2>2, <2>5, SweepSteps
      DEF Collects, Lists, Moves, Describes, Ends, GoesOn, Reads, Keeps, Judges, Restores,
          Unmarks, Erases, SameDisk, Going, Condemned
    <3>2. CASE env.crash
      BY <1>0, <2>1, <3>1, <3>2 DEF Described, Safe
    <3>3. CASE meta[e] # None
      <4>1. e \in Entry /\ clock # None
        BY <2>1, NoneAssumption DEF Typed
      <4>2. meta'[e] # None
        BY <2>1, <2>2, <2>3, <3>3, <4>1, SweepSteps
        DEF Collects, Lists, Moves, Describes, Ends, GoesOn, Reads, Keeps, Judges, Restores,
            Unmarks, Erases, SameDisk, Going, Condemned, Typed
      <4> QED
        BY <2>1, <3>1, <4>2 DEF Described, Safe
    <3>4. ASSUME NEW t \in Sweep, sweep[t].at = "describe", sweep[t].cur = e PROVE Safe(w)'
      <4>1. CASE t # s
        BY <1>0, <2>1, <3>1, <3>4, <4>1 DEF Described, Safe
      <4>2. CASE t = s
        <5>1. Describes(s)
          BY <3>4, <4>2, SweepSteps
          DEF Collects, Lists, Moves, Ends, GoesOn, Reads, Keeps, Judges, Restores, Unmarks,
              Erases, Going
        <5>2. e \in Entry /\ clock # None
          BY <2>1, NoneAssumption DEF Typed
        <5>3. meta'[e] # None
          BY <3>4, <4>2, <5>1, <5>2 DEF Describes, Typed
        <5> QED
          BY <2>1, <3>1, <5>3 DEF Described, Safe
      <4> QED
        BY <4>1, <4>2
    <3> QED
      BY <2>1, <3>2, <3>3, <3>4 DEF Described
  <2> QED
    BY <2>4, <2>5
<1> QED
  BY <1>2, <1>3

(* The other steps leave the quarantine alone, and end no description      *)
(* unless a process dies.                                                  *)
LEMMA KeptOthers ==
    ASSUME Typed, Kept, UNCHANGED <<quarantine, meta, env>>,
           \/ env.crash
           \/ \A s \in Sweep : sweep[s].at = "describe" => sweep'[s] = sweep[s],
           \A w \in Workspace : /\ Wanted(w)' => Wanted(w) \/ w \in root'
                                /\ Wanted(w)' /\ w \in root => w \in root'
    PROVE  Kept'
<1>1. ASSUME NEW w \in Workspace, Wanted(w)' PROVE Safe(w)'
  <2>1. CASE w \in root'
    BY <2>1 DEF Safe
  <2>2. CASE w \notin root'
    <3>1. PICK e \in quarantine : e[1] = w /\ Described(e)
      BY <1>1, <2>2 DEF Kept, Safe
    <3>2. Described(e)'
      BY <3>1 DEF Described
    <3> QED
      BY <3>1, <3>2 DEF Safe
  <2> QED
    BY <2>1, <2>2
<1> QED
  BY <1>1 DEF Kept

LEMMA KeptNext ==
    ASSUME Typed, Sweeping, Serving, Stored, OnePlace, Spared, Kept, Next
    PROVE  Kept'
<1>1. CASE ServerNext \/ Crash
  <2>1. /\ UNCHANGED <<quarantine, meta, env>>
        /\ env.crash \/ \A s \in Sweep : sweep'[s] = sweep[s]
    BY <1>1, ServerDisk DEF Sweep
  <2>2. \A w \in Workspace : /\ Wanted(w)' => Wanted(w) \/ w \in root'
                             /\ Wanted(w)' /\ w \in root => w \in root'
    BY <1>1, WantedServer DEF Wanted
  <2> QED
    BY <2>1, <2>2, KeptOthers
<1>2. CASE PruneStarts \/ PruneDies
  <2>1. /\ UNCHANGED <<intake, op, record, anchored, started, root, quarantine, meta, env>>
        /\ env.crash \/ \A s \in Sweep : sweep[s].at = "describe" => sweep'[s] = sweep[s]
    <3>1. ASSUME NEW at \in {"collect", "read"}, NEW both, StartPrune(at, both) PROVE <2>1
      BY <3>1 DEF StartPrune, SetSweep, disk, refs, Idle, Typed
    <3>2. ASSUME PruneDies PROVE <2>1
      BY <3>2 DEF PruneDies, disk, refs
    <3> QED
      BY <1>2, <3>1, <3>2 DEF PruneStarts
  <2>2. \A w : Wanted(w)' = Wanted(w)
    BY <2>1, WantedSame
  <2> QED
    BY <2>1, <2>2, KeptOthers
<1>3. CASE Tick
  <2>1. UNCHANGED <<intake, op, record, anchored, started, root, quarantine, meta, env, sweep>>
    BY <1>3 DEF Tick, disk, refs
  <2>2. \A w : Wanted(w)' = Wanted(w)
    BY <2>1, WantedSame
  <2> QED
    BY <2>1, <2>2, KeptOthers
<1> QED
  BY <1>1, <1>2, <1>3, KeptSweeps, NextCases

-----------------------------------------------------------------------------
(* The theorems.                                                           *)

LEMMA InitInv == Init => RInv
<1> SUFFICES ASSUME Init PROVE RInv
  OBVIOUS
<1>1. Typed
  <2>1. 0 \in Time /\ <<>> \in Seq(Workspace)
    BY BoundAssumption DEF Time
  <2> QED
    BY <2>1, IdleHolds DEF Init, Typed, IntakeStep
<1>2. /\ \A s \in Sweep : sweep[s] = Idle
      /\ \A w \in Workspace : intake[w] = "new"
      /\ op = None /\ anchored = {} /\ root = {} /\ quarantine = {} /\ used = {}
      /\ up = "serving" /\ \A e \in Entry : meta[e] = None
  BY DEF Init
<1>3. Sweeping
  BY <1>2, IdleHolds DEF Sweeping
<1>4. Serving /\ Stored
  BY <1>2 DEF Serving, Stored, InFlight, Sweep, Idle
<1>5. OnePlace
  BY <1>2 DEF OnePlace, Named, Idle, Naming, Judging
<1>6. Dated
  BY <1>2 DEF Dated, Brought, Idle, Judging
<1>7. \A w \in Workspace : ~Wanted(w)
  BY <1>2 DEF Wanted, Brought, Pending, Anchored
<1>8. BootAlone
  BY <1>2, <1>7 DEF BootAlone, Sweep, Idle, Moving
<1> QED
  BY <1>1, <1>3, <1>4, <1>5, <1>6, <1>8 DEF RInv

LEMMA InitKept == Init => InBudget /\ Spared /\ Kept
<1> SUFFICES ASSUME Init PROVE InBudget /\ Spared /\ Kept
  OBVIOUS
<1>1. /\ \A s \in Sweep : sweep[s] = Idle
      /\ \A w \in Workspace : intake[w] = "new"
      /\ op = None /\ anchored = {}
  BY DEF Init
<1>2. \A w \in Workspace : ~Wanted(w)
  BY <1>1 DEF Wanted, Brought, Pending, Anchored
<1> QED
  BY <1>1, <1>2 DEF InBudget, Spared, Condemned, Kept, Idle, Judging

LEMMA EnvSame ==
    ASSUME Typed, Serving, Sweeping, [Next]_vars
    PROVE  env' = env
<1>1. CASE Next
  BY <1>1, NextCases, ServerDisk, SweepFrame DEF PruneStarts, StartPrune, PruneDies, Tick
<1> QED
  BY <1>1 DEF vars

LEMMA NextInv == RInv /\ [Next]_vars => RInv'
<1> SUFFICES ASSUME RInv, [Next]_vars PROVE RInv'
  OBVIOUS
<1> USE DEF RInv
<1>1. CASE Next
  <2>1. Typed' /\ Sweeping'
    BY <1>1, ServerTypes, SweepTypes, OtherTypes, NextCases
  <2>2. Serving' /\ Stored' /\ OnePlace' /\ Dated'
    BY <1>1, ServingNext, StoredNext, OnePlaceNext, DatedNext
  <2>3. ~env'.cli => BootAlone'
    BY <1>1, EnvSame, BootAloneNext
  <2> QED
    BY <2>1, <2>2, <2>3
<1>2. CASE UNCHANGED vars
  <2>1. /\ UNCHANGED <<root, quarantine, meta, used, record, index, up, queue, intake, op, sweep>>
        /\ UNCHANGED <<clock, env, started, anchored>>
    BY <1>2 DEF vars
  <2>2. Typed' /\ Sweeping' /\ Serving' /\ Stored'
    BY <2>1 DEF Typed, Sweeping, Serving, Stored, InFlight, Holds, Listed
  <2>3. \A w : Wanted(w)' = Wanted(w) /\ Brought(w)' = Brought(w) /\ Pending(w)' = Pending(w)
    BY <2>1, WantedSame
  <2>4. OnePlace'
    BY <2>1 DEF OnePlace, Named, Acquiring
  <2>5. Dated'
    BY <2>1, <2>3 DEF Dated, Recent
  <2>6. BootAlone => BootAlone'
    BY <2>1, <2>3, ReferencedSame DEF BootAlone
  <2> QED
    BY <2>1, <2>2, <2>4, <2>5, <2>6
<1> QED
  BY <1>1, <1>2

LEMMA NextKept == KInv /\ WithinBudget /\ [Next]_vars => KInv'
<1> SUFFICES ASSUME KInv, WithinBudget, [Next]_vars PROVE KInv'
  OBVIOUS
<1>1. RInv /\ RInv'
  BY NextInv DEF KInv
<1>2. CASE ~env.cli
  <2>1. env' = env
    BY EnvSame, <1>1 DEF vars, RInv
  <2> QED
    BY <1>1, <1>2, <2>1 DEF KInv
<1>3. CASE env.cli /\ Next
  <2>1. InBudget' /\ Spared' /\ Kept'
    BY <1>1, <1>3, InBudgetNext, SparedNext, KeptNext DEF KInv, RInv
  <2> QED
    BY <1>1, <2>1 DEF KInv
<1>4. CASE UNCHANGED vars
  <2>1. /\ UNCHANGED <<root, quarantine, meta, record, intake, op, sweep, env, started, anchored>>
    BY <1>4 DEF vars
  <2>2. \A w : Wanted(w)' = Wanted(w)
    BY <2>1, WantedSame
  <2>3. /\ InBudget => InBudget'
        /\ Spared => Spared'
        /\ Kept => Kept'
    BY <2>1, <2>2 DEF InBudget, Spared, Kept, Condemned, Safe, Described
  <2> QED
    BY <1>1, <2>1, <2>3 DEF KInv
<1> QED
  BY <1>2, <1>3, <1>4

(* Every state is typed; a store method runs for the holder of the lock    *)
(* only, and a sweep of the server while it boots only.                    *)
THEOREM TypeCorrect == Spec => []TypeOK
<1>1. RInv => TypeOK
  BY DEF RInv, Typed, Serving, TypeOK
<1> QED
  BY <1>1, InitInv, NextInv, PTL DEF Spec

(* As long as only the server touches the disk, the workspace of a listed  *)
(* mission that relied on it stays in its place, in spite of failing       *)
(* writes, crashes and the sweep of every boot.                            *)
THEOREM ServerKeepsInPlace == Spec => []ListedInPlace
<1>1. RInv => ListedInPlace
  <2> SUFFICES ASSUME RInv, ~env.cli, NEW m \in Mission, NEW w \in Workspace, Relies(m, w)
               PROVE  w \in root
    BY DEF ListedInPlace
  <2>1. Wanted(w)
    BY DEF Relies, Wanted, Anchored
  <2> QED
    BY <2>1 DEF RInv, BootAlone
<1> QED
  BY <1>1, InitInv, NextInv, PTL DEF Spec

(* With the prune command beside the server, whatever it sweeps and        *)
(* whichever of the two dies, the workspace is in place or can be restored *)
(* from the quarantine: as long as the quarantine is never over its        *)
(* budget, for then the oldest entries are removed before their time.      *)
THEOREM PruneKeepsReferenced == Spec /\ []WithinBudget => []ListedSurvives
<1>1. KInv => ListedSurvives
  <2> SUFFICES ASSUME KInv, NEW m \in Mission, NEW w \in Workspace, Relies(m, w)
               PROVE  \/ w \in root
                      \/ \E e \in quarantine : e[1] = w /\ Described(e)
    BY DEF ListedSurvives, Described
  <2>1. Wanted(w)
    BY DEF Relies, Wanted, Anchored
  <2>2. CASE ~env.cli
    BY <2>1, <2>2 DEF KInv, RInv, BootAlone
  <2>3. CASE env.cli
    BY <2>1, <2>3 DEF KInv, Kept, Safe
  <2> QED
    BY <2>2, <2>3
<1>2. Init => KInv
  BY InitInv, InitKept DEF KInv
<1> QED
  BY <1>1, <1>2, NextKept, PTL DEF Spec
=============================================================================
