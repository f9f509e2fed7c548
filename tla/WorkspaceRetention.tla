-------------------------- MODULE WorkspaceRetention --------------------------
(***************************************************************************)
(* The directories of acquired repositories, the missions that refer to    *)
(* them, and the sweeps that remove what no mission needs:                 *)
(*   src/src/github/external-repository-intake.ts   (acquire, then create) *)
(*   src/src/github/repository-acquisition.ts                              *)
(*   src/src/github/repository-acquisition-retention.ts  (both sweeps)     *)
(*   src/src/mission/mission-store.ts, mission-service.ts (the references) *)
(*   src/src/server/boot-sweep.ts, src/src/cli-prune-repos.ts  (who sweeps)*)
(*                                                                         *)
(* The server sweeps while it boots, before it accepts requests; the       *)
(* prune command sweeps at any time, in a process of its own that shares   *)
(* nothing with the server but the disk.  What one process does between    *)
(* two awaits is one step for itself and not for the other one: the        *)
(* methods of the mission store are cut at the files they replace.         *)
(* `env` says which processes and which failures there are; it never       *)
(* changes.                                                                *)
(***************************************************************************)
EXTENDS Integers, Sequences, FiniteSets

CONSTANTS
    Workspace,    \* the destinations of intakes, each used by one intake
    Mission,      \* mission ids
    Round,        \* how often a workspace may be quarantined, 1..n
    Grace,        \* policy.quarantineGraceMs
    MaxClock,     \* bound of the clock
    Environment,  \* the environments env is chosen from
    None          \* no workspace, time, operation or entry

Entry == Workspace \X Round          \* <quarantine>/<basename>-<timestamp>
Time  == 0..MaxClock
Sweep == {"boot", "prune"}

ASSUME GraceAssumption == Grace \in Nat \ {0}
ASSUME BoundAssumption == MaxClock \in Nat /\ IsFiniteSet(Workspace) /\ IsFiniteSet(Round)
ASSUME EnvironmentAssumption ==
    Environment \subseteq [cli : BOOLEAN, crash : BOOLEAN, io : BOOLEAN, maxCount : Nat]
ASSUME NoneAssumption == None \notin Workspace \cup Time \cup Entry

VARIABLES
    \* on disk
    root,         \* the directories under external-repos
    quarantine,   \* the directories under external-repos-quarantine
    meta,         \* entry -> quarantinedAt of its .meta.json, or None
    record,       \* mission.json: mission -> the workspace it names, or None
    index,        \* index.json
    \* in the server's memory
    up,           \* "boot" while the boot sweep runs, then "serving"
    queue,        \* the intakes on the acquisition-root lock, holder first
    intake,       \* workspace -> how far its intake is
    op,           \* a store method between two of its writes
    \* in the memory of the process that sweeps
    sweep,
    \* the outside
    clock, env,
    \* history
    used,         \* the names a quarantined workspace has had
    started,      \* when the intake that has the lock got it
    anchored      \* missions whose reference was acknowledged and was made by
                  \* an intake, or while the workspace was in place

disk == <<root, quarantine, meta, used>>
refs == <<record, index, anchored>>
vars == <<root, quarantine, meta, used, record, index, up, queue, intake, op, sweep,
          clock, env, started, anchored>>

IntakeStep == {"new", "queued", "cloning", "creating", "undoing",
               "created", "failed"}
SweepStep == {"idle", "collect", "list", "move", "describe", "read", "judge",
              "restore", "forget", "unmark", "erase"}

Idle == [at |-> "idle", refs |-> {}, todo |-> {}, cur |-> None,
         left |-> 0, then |-> FALSE]

Init ==
    /\ root = {} /\ quarantine = {} /\ used = {}
    /\ meta = [e \in Entry |-> None]
    /\ record = [m \in Mission |-> None]
    /\ index = {}
    /\ up = "serving" /\ queue = <<>> /\ op = None
    /\ intake = [w \in Workspace |-> "new"]
    /\ sweep = [s \in Sweep |-> Idle]
    /\ clock = 0 /\ env \in Environment
    /\ started = [w \in Workspace |-> 0]
    /\ anchored = {}

-----------------------------------------------------------------------------
(* The mission store.  A method begins with the record (mission.json and   *)
(* the files beside it) and ends with the index; create and import append  *)
(* an event after that.  Each write may fail, and the caller sees the      *)
(* exception.                                                              *)

Listed == {m \in index : record[m] # None}      \* listMissions
Referenced == {record[m] : m \in Listed}             \* collectReferencedRepositoryRoots

Running == up = "serving" /\ op = None               \* the server's thread is free

SetIntake(w, at) == intake' = [intake EXCEPT ![w] = at]

(* createMission and writeMission replace mission.json. *)
WriteRecord(kind, m, w) ==
    /\ record' = [record EXCEPT ![m] = w]
    /\ op' = [kind |-> kind, mission |-> m, to |-> w,
              inPlace |-> kind = "create" \/ w \in root, at |-> "index"]
    /\ anchored' = anchored \ {m}

Fresh(m) == record[m] = None /\ m \notin index

(* The acquired workspaces an operator has been told of. *)
Told == {w \in Workspace : intake[w] = "created"}

Import(m, w) ==
    /\ Running /\ Fresh(m) /\ w \in Told
    /\ WriteRecord("import", m, w)
    /\ UNCHANGED <<disk, index, up, queue, intake, sweep, clock, env, started>>

Patch(m, w) ==
    /\ Running /\ m \in Listed /\ w \in Told /\ record[m] # w
    /\ WriteRecord("patch", m, w)
    /\ UNCHANGED <<disk, index, up, queue, intake, sweep, clock, env, started>>

Delete(m) ==
    /\ Running /\ m \in Listed
    /\ record' = [record EXCEPT ![m] = None]
    /\ op' = [kind |-> "delete", mission |-> m, to |-> record[m],
              inPlace |-> FALSE, at |-> "index"]
    /\ anchored' = anchored \ {m}
    /\ UNCHANGED <<disk, index, up, queue, intake, sweep, clock, env, started>>

(* The intake goes on when the create it awaits has returned or thrown. *)
Return(ok) ==
    /\ op' = None
    /\ intake' = IF op.kind = "create"
                 THEN [intake EXCEPT ![op.to] = IF ok THEN "created" ELSE "undoing"]
                 ELSE intake
    /\ queue' = IF op.kind = "create" /\ ok THEN Tail(queue) ELSE queue
    /\ anchored' = IF ok /\ op.kind # "delete" /\ op.inPlace
                   THEN anchored \cup {op.mission} ELSE anchored
    /\ started' = IF op.kind = "create" /\ ok THEN [started EXCEPT ![op.to] = 0] ELSE started

(* updateIndex *)
WriteIndex ==
    /\ op # None /\ op.at = "index"
    /\ index' = IF op.kind = "delete" THEN index \ {op.mission}
                                      ELSE index \cup {op.mission}
    /\ IF op.kind \in {"create", "import"}
       THEN /\ op' = [op EXCEPT !.at = "event"]
            /\ UNCHANGED <<intake, queue, anchored, started>>
       ELSE Return(TRUE)
    /\ UNCHANGED <<disk, record, up, sweep, clock, env>>

AppendEvent ==
    /\ op # None /\ op.at = "event"
    /\ Return(TRUE)
    /\ UNCHANGED <<disk, record, index, up, sweep, clock, env>>

(* A full disk, or a temporary file that the other process removed as      *)
(* stale before it was renamed (recoverStaleTemporaryFile).                *)
WriteFails ==
    /\ env.io /\ op # None
    /\ Return(FALSE)
    /\ UNCHANGED <<disk, record, index, up, sweep, clock, env>>

-----------------------------------------------------------------------------
(* performExternalRepositoryIntake                                         *)

Holds(w) == queue # <<>> /\ Head(queue) = w

Request(w) ==
    /\ Running /\ intake[w] = "new"
    /\ queue' = Append(queue, w)
    /\ SetIntake(w, "queued")
    /\ UNCHANGED <<disk, refs, up, op, sweep, clock, env, started>>

(* Mutant: the acquisition does not wait for the lock. *)
MutAcquire(w) ==
    /\ Running /\ intake[w] = "queued"
    /\ root' = root \cup {w}
    /\ SetIntake(w, "cloning")
    /\ started' = [started EXCEPT ![w] = clock]
    /\ UNCHANGED <<quarantine, meta, used, refs, up, queue, op, sweep, clock, env>>

(* acquireExternalRepository makes the directory and fills it. *)
Acquire(w) ==
    /\ Running /\ Holds(w) /\ intake[w] = "queued"
    /\ root' = root \cup {w}
    /\ SetIntake(w, "cloning")
    /\ started' = [started EXCEPT ![w] = clock]
    /\ UNCHANGED <<quarantine, meta, used, refs, up, queue, op, sweep, clock, env>>

(* verifyAcquiredWorkspace finds the directory, enforceAcquisitionCaps and *)
(* buildRepositoryIntakeProfile raise no objection.                        *)
Acquired(w) ==
    /\ Running /\ intake[w] = "cloning" /\ w \in root
    /\ SetIntake(w, "creating")
    /\ UNCHANGED <<disk, refs, up, queue, op, sweep, clock, env, started>>

(* The clone, a check, the profile or the creation of the mission fails. *)
IntakeFails(w) ==
    /\ Running /\ intake[w] \in {"cloning", "creating"}
    /\ SetIntake(w, "undoing")
    /\ UNCHANGED <<disk, refs, up, queue, op, sweep, clock, env, started>>

(* MissionService.create, after it has read the state of the repository:   *)
(* a path that is not there is no error to it.                             *)
Create(w, m) ==
    /\ Running /\ intake[w] = "creating" /\ Fresh(m)
    /\ WriteRecord("create", m, w)
    /\ UNCHANGED <<disk, index, up, queue, intake, sweep, clock, env, started>>

(* removeWorkspaceSafely, and the error is answered. *)
Undo(w) ==
    /\ Running /\ intake[w] = "undoing"
    /\ root' = root \ {w}
    /\ SetIntake(w, "failed")
    /\ queue' = Tail(queue)
    /\ started' = [started EXCEPT ![w] = 0]
    /\ UNCHANGED <<quarantine, meta, used, refs, up, op, sweep, clock, env>>

-----------------------------------------------------------------------------
(* The sweeps                                                              *)

Runs(s) == IF s = "boot" THEN up = "boot" ELSE env.cli

SetSweep(s, new) == sweep' = [sweep EXCEPT ![s] = new]
Goto(s, at) == SetSweep(s, [sweep[s] EXCEPT !.at = at])

(* The sweep is over, or threw; the server goes on to serve either way. *)
EndSweep(s) ==
    /\ SetSweep(s, Idle)
    /\ up' = IF s = "boot" THEN "serving" ELSE up

(* quarantineOrphanedWorkspaces, finalizeQuarantine, or one after the      *)
(* other (pruneAcquisitionRoot); the boot sweep does both.                 *)
StartPrune(at, both) ==
    /\ env.cli /\ sweep["prune"].at = "idle"
    /\ SetSweep("prune", [Idle EXCEPT !.at = at, !.then = both])
    /\ UNCHANGED <<disk, refs, up, queue, intake, op, clock, env, started>>

Collect(s) ==
    /\ Runs(s) /\ sweep[s].at = "collect"
    /\ SetSweep(s, [sweep[s] EXCEPT !.at = "list", !.refs = Referenced])
    /\ UNCHANGED <<disk, refs, up, queue, intake, op, clock, env, started>>

(* Mutant: the references are collected and not looked at. *)
MutList(s) ==
    /\ Runs(s) /\ sweep[s].at = "list"
    /\ SetSweep(s, [sweep[s] EXCEPT !.at = "move", !.refs = {}, !.todo = root])
    /\ UNCHANGED <<disk, refs, up, queue, intake, op, clock, env, started>>

(* listAcquiredWorkspaceDirs *)
List(s) ==
    /\ Runs(s) /\ sweep[s].at = "list"
    /\ SetSweep(s, [sweep[s] EXCEPT !.at = "move", !.refs = {}, !.todo = root \ sweep[s].refs])
    /\ UNCHANGED <<disk, refs, up, queue, intake, op, clock, env, started>>

(* The next name of a quarantined workspace: basename and timestamp. *)
NewEntry(w, e) == /\ e[1] = w /\ e \notin used
                  /\ \A n \in Round : n < e[2] => <<w, n>> \in used

Move(s, w, e) ==
    /\ Runs(s) /\ sweep[s].at = "move" /\ w \in sweep[s].todo
    /\ w \in root /\ NewEntry(w, e)
    /\ root' = root \ {w}
    /\ quarantine' = quarantine \cup {e}
    /\ SetSweep(s, [sweep[s] EXCEPT !.at = "describe", !.cur = e, !.todo = @ \ {w}])
    /\ used' = used \cup {e}
    /\ UNCHANGED <<meta, refs, up, queue, intake, op, clock, env, started>>

Describe(s) ==
    /\ Runs(s) /\ sweep[s].at = "describe"
    /\ meta' = [meta EXCEPT ![sweep[s].cur] = clock]
    /\ Goto(s, "move")
    /\ UNCHANGED <<root, quarantine, used, refs, up, queue, intake, op, clock, env, started>>

(* Another process has moved or removed the directory: rename throws. *)
MoveFails(s, w) ==
    /\ Runs(s) /\ sweep[s].at = "move" /\ w \in sweep[s].todo \ root
    /\ EndSweep(s)
    /\ UNCHANGED <<disk, refs, queue, intake, op, clock, env, started>>

Moved(s) ==
    /\ Runs(s) /\ sweep[s].at = "move" /\ sweep[s].todo = {}
    /\ IF sweep[s].then
       THEN SetSweep(s, [Idle EXCEPT !.at = "read"]) /\ UNCHANGED up
       ELSE EndSweep(s)
    /\ UNCHANGED <<disk, refs, queue, intake, op, clock, env, started>>

(* Entries with their metadata; one without counts as just quarantined. *)
Read(s) ==
    /\ Runs(s) /\ sweep[s].at = "read"
    /\ SetSweep(s, [sweep[s] EXCEPT !.at = "judge",
                      !.todo = {<<e, meta[e]>> : e \in quarantine},
                      !.left = Cardinality(quarantine)])
    /\ UNCHANGED <<disk, refs, up, queue, intake, op, clock, env, started>>

Before(x, y) == x[2] # None /\ (y[2] = None \/ x[2] < y[2])
Oldest(s, x) == x \in sweep[s].todo /\ \A y \in sweep[s].todo : ~Before(y, x)

Eligible(s, x) == \/ x[2] # None /\ clock - x[2] >= Grace
                  \/ sweep[s].left > env.maxCount

(* Too young, and the quarantine is within its budget. *)
Keep(s, x) ==
    /\ Runs(s) /\ sweep[s].at = "judge" /\ Oldest(s, x) /\ ~Eligible(s, x)
    /\ SetSweep(s, [sweep[s] EXCEPT !.todo = @ \ {x}])
    /\ UNCHANGED <<disk, refs, up, queue, intake, op, clock, env, started>>

(* Mutant: the second phase trusts the first one. *)
MutStillReferenced(x) == FALSE

(* The references are read once more.  Without metadata the original path  *)
(* is the quarantine's own, which no mission refers to.                    *)
StillReferenced(x) == x[2] # None /\ x[1][1] \in Referenced

Judge(s, x) ==
    /\ Runs(s) /\ sweep[s].at = "judge" /\ Oldest(s, x) /\ Eligible(s, x)
    /\ SetSweep(s, [sweep[s] EXCEPT !.at = IF StillReferenced(x) THEN "restore" ELSE "unmark",
                      !.cur = x[1], !.todo = @ \ {x}, !.left = @ - 1])
    /\ UNCHANGED <<disk, refs, up, queue, intake, op, clock, env, started>>

Restore(s) ==
    LET e == sweep[s].cur IN
    /\ Runs(s) /\ sweep[s].at = "restore"
    /\ IF e \in quarantine
       THEN /\ quarantine' = quarantine \ {e}
            /\ root' = root \cup {e[1]}
            /\ Goto(s, "forget") /\ UNCHANGED up
       ELSE EndSweep(s) /\ UNCHANGED <<root, quarantine>>
    /\ UNCHANGED <<meta, used, refs, queue, intake, op, clock, env, started>>

(* Removes the metadata: of a restored entry, or of one to be erased. *)
Unmark(s) ==
    /\ Runs(s) /\ sweep[s].at \in {"forget", "unmark"}
    /\ meta' = [meta EXCEPT ![sweep[s].cur] = None]
    /\ Goto(s, IF sweep[s].at = "forget" THEN "judge" ELSE "erase")
    /\ UNCHANGED <<root, quarantine, used, refs, up, queue, intake, op, clock, env, started>>

Erase(s) ==
    /\ Runs(s) /\ sweep[s].at = "erase"
    /\ quarantine' = quarantine \ {sweep[s].cur}
    /\ Goto(s, "judge")
    /\ UNCHANGED <<root, meta, used, refs, up, queue, intake, op, clock, env, started>>

Judged(s) ==
    /\ Runs(s) /\ sweep[s].at = "judge" /\ sweep[s].todo = {}
    /\ EndSweep(s)
    /\ UNCHANGED <<disk, refs, queue, intake, op, clock, env, started>>

-----------------------------------------------------------------------------
(* The server dies, and boots with a sweep. *)
Crash ==
    /\ env.crash
    /\ up' = "boot" /\ queue' = <<>> /\ op' = None
    /\ intake' = [w \in Workspace |->
                    IF intake[w] \in {"new", "created", "failed"} THEN intake[w] ELSE "failed"]
    /\ SetSweep("boot", [Idle EXCEPT !.at = "collect", !.then = TRUE])
    /\ started' = [w \in Workspace |-> 0]
    /\ UNCHANGED <<disk, refs, clock, env>>

PruneDies ==
    /\ env.crash /\ sweep["prune"].at # "idle"
    /\ SetSweep("prune", Idle)
    /\ UNCHANGED <<disk, refs, up, queue, intake, op, clock, env, started>>

InFlight(w) == intake[w] \in {"cloning", "creating", "undoing"}

(* Time passes, but not during a store method.  An intake takes less than  *)
(* the grace window: the time-outs of its git commands are minutes, the    *)
(* window is a day.                                                        *)
Tick ==
    /\ clock < MaxClock /\ op = None
    /\ \A w \in Workspace : InFlight(w) => clock + 1 - started[w] < Grace
    /\ clock' = clock + 1
    /\ UNCHANGED <<disk, refs, up, queue, intake, op, sweep, env, started>>

IntakeNext(w) ==
    \/ Request(w) \/ Acquire(w) \/ Acquired(w) \/ IntakeFails(w)
    \/ Undo(w) \/ \E m \in Mission : Create(w, m)

SweepNext(s) ==
    \/ Collect(s) \/ List(s) \/ Describe(s) \/ Moved(s) \/ Read(s) \/ Restore(s)
    \/ Unmark(s) \/ Erase(s) \/ Judged(s)
    \/ \E w \in Workspace : MoveFails(s, w) \/ \E e \in Entry : Move(s, w, e)
    \/ \E x \in sweep[s].todo : sweep[s].at = "judge" /\ (Keep(s, x) \/ Judge(s, x))

StoreNext == WriteIndex \/ AppendEvent \/ WriteFails

OperatorNext ==
    \/ \E m \in Mission : \/ Delete(m)
                          \/ \E w \in Workspace : Import(m, w) \/ Patch(m, w)
    \/ StartPrune("collect", TRUE) \/ StartPrune("collect", FALSE)
    \/ StartPrune("read", FALSE)

Next ==
    \/ \E w \in Workspace : IntakeNext(w)
    \/ \E s \in Sweep : SweepNext(s)
    \/ StoreNext \/ OperatorNext \/ Crash \/ PruneDies \/ Tick

Spec == Init /\ [][Next]_vars

-----------------------------------------------------------------------------
OpType == [kind : {"create", "import", "patch", "delete"}, mission : Mission,
           to : Workspace, inPlace : BOOLEAN, at : {"index", "event"}]

ASSUME NoOpAssumption == None \notin OpType

Work == Workspace \cup (Entry \X (Time \cup {None}))
SweepType == [at : SweepStep, refs : SUBSET Workspace, todo : SUBSET Work,
              cur : Entry \cup {None}, left : Nat, then : BOOLEAN]

(* Types, and what the program's memory may hold at each point: a store    *)
(* method runs for the intake at the head of the lock only; a sweep of the *)
(* server runs while it boots only.                                        *)
TypeOK ==
    /\ root \subseteq Workspace
    /\ quarantine \subseteq Entry /\ used \subseteq Entry
    /\ meta \in [Entry -> Time \cup {None}]
    /\ record \in [Mission -> Workspace \cup {None}]
    /\ index \subseteq Mission /\ anchored \subseteq Mission
    /\ up \in {"boot", "serving"} /\ clock \in Time /\ env \in Environment
    /\ queue \in Seq(Workspace)
    /\ intake \in [Workspace -> IntakeStep]
    /\ op \in OpType \cup {None}
    /\ sweep \in [Sweep -> SweepType]
    /\ started \in [Workspace -> Time]
    /\ sweep["boot"].at # "idle" <=> up = "boot"
    /\ op # None /\ op.kind = "create" => Holds(op.to) /\ intake[op.to] = "creating"
    /\ \A w \in Workspace : InFlight(w) => Holds(w)

(* A mission that is listed, and that refers to a workspace that stood when *)
(* the reference was acknowledged.                                         *)
Relies(m, w) == m \in Listed \cap anchored /\ record[m] = w

(* As long as only the server touches the disk, the workspace of such a    *)
(* mission is in its place, in spite of failing writes, crashes and the    *)
(* sweep of every boot: the intake that made it undoes its directory only  *)
(* when the mission was not answered, and no sweep runs beside it          *)
(* (external-repository-intake.ts:111).                                    *)
ListedInPlace ==
    ~env.cli => \A m \in Mission, w \in Workspace : Relies(m, w) => w \in root

(* With the prune command beside the server it may be moved away, but it   *)
(* is never erased while the quarantine is within its budget: either the   *)
(* first sweep saw the mission, or the second one does, a grace window     *)
(* later.  Unless a process dies between a move and its metadata, it can   *)
(* be restored (repository-acquisition-retention.ts:9).                    *)
ListedSurvives ==
    \A m \in Mission, w \in Workspace : Relies(m, w) =>
        \/ w \in root
        \/ \E e \in quarantine :
              /\ e[1] = w
              /\ \/ env.crash \/ meta[e] # None
                 \/ \E s \in Sweep : sweep[s].at = "describe" /\ sweep[s].cur = e
=============================================================================
