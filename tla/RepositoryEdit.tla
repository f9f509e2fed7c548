---------------------------- MODULE RepositoryEdit ----------------------------
(***************************************************************************)
(* The edits and repairs of a mission in the working tree of its           *)
(* repository: each is a transaction around an agent that writes files,    *)
(* beside an operator who writes files too.                                *)
(*   src/src/autonomy/transactional-repository-edit.ts   (the transaction) *)
(*   src/src/autonomy/agent-loop-edit-executor.ts        (the attempt)     *)
(*   src/src/autonomy/semantic-edit-orchestrator.ts      (its scope)       *)
(*   src/src/autonomy/persistent-mission-repair-controller.ts              *)
(*   src/src/autonomy/persistent-mission-executor.ts  (what the mission    *)
(*                                                     calls its own)      *)
(* Attempts are cut at their awaits: a git command, a file read or         *)
(* written, a tool call of the agent.  `env` says what else may happen and *)
(* how the repository is laid out; it never changes.                       *)
(*                                                                         *)
(* The transaction knows the tree by the lines of git status, and compares *)
(* lines as strings.  A line names a file, or the folder of files none of  *)
(* which is tracked; of ignored files there is no line.                    *)
(***************************************************************************)
EXTENDS Integers, FiniteSets

CONSTANTS
    File, Folder,
    MaxAttempts,  \* bound of the edits and repairs
    MaxOps,       \* bound of what the operator does (the agent's own use of git included)
    Environment   \* the environments env is chosen from

EnvironmentType ==
    [operator : BOOLEAN,          \* the operator works on during attempts
     strays : BOOLEAN,            \* the agent writes where others have, and uses git
     faults : BOOLEAN,            \* git fails, the server dies
     folder : [File -> Folder],
     kept : SUBSET Folder,        \* folders with another file, which stays tracked
     ignored : SUBSET File,       \* named in .gitignore
     head : SUBSET File]          \* tracked when the mission starts

ASSUME BoundsAssumption == MaxAttempts \in Nat /\ MaxOps \in Nat
ASSUME EnvironmentAssumption == Environment \subseteq EnvironmentType
ASSUME LineAssumption == File \cap Folder = {}

(* What one edit put into a file: its author and its number. *)
OpMark == {"op"} \X (1..MaxOps)
AgentMark == {"agent"} \X (1..MaxAttempts)
Mark == OpMark \cup AgentMark

VARIABLES
    tree,      \* file -> the marks in it that HEAD has not; {}: as in HEAD, or absent
    git,       \* file -> what git knows of it
    owned,     \* execution.modifiedFiles of the mission's record
    try,       \* the attempt in progress, or the last one
    number,    \* how many attempts there were
    ops,       \* how many edits the operator has made
    env,
    entry,     \* history: the tree when the attempt looked at it first
    named,     \* history: the files with a line of their own then, and ever since
    lost       \* history: file -> the operator's marks its rollback removed

vars == <<tree, git, owned, try, number, ops, env, entry, named, lost>>
history == <<entry, named, lost>>

GitState == {"untracked", "staged", "committed"}
Tracked(f) == git[f] # "untracked"

(* git status --porcelain=v1.                                              *)
Listed(f) ==
    \/ git[f] = "staged"
    \/ tree[f] # {} /\ (f \in env.ignored => Tracked(f))

Collapsed(d) == d \notin env.kept /\ \A f \in File : env.folder[f] = d => ~Tracked(f)

Line(f) == IF Collapsed(env.folder[f]) THEN env.folder[f] ELSE f

Changed == {Line(f) : f \in {g \in File : Listed(g)}}

(* The files a line stands for when it is given to git, or removed.        *)
FilesOf(l) == IF l \in File THEN {l} ELSE {f \in File : env.folder[f] = l}

Outcome == {"none", "completed", "failed", "blocked"}
Step == {"idle", "capture", "agent", "inspect", "compare", "restore", "save"}

(* The transaction, and the outcome that the attempt is heading for. *)
NoTry == [at |-> "idle", outcome |-> "none", declared |-> FALSE, allowed |-> {},
          baseline |-> {}, snaps |-> {}, snap |-> [f \in File |-> {}],
          todo |-> {}, modified |-> {}, rollback |-> FALSE]
Ended(outcome) == [NoTry EXCEPT !.outcome = outcome]

Init ==
    /\ tree = [f \in File |-> {}]
    /\ owned = {} /\ try = NoTry /\ number = 0 /\ ops = 0
    /\ env \in Environment
    /\ git = [f \in File |-> IF f \in env.head THEN "committed" ELSE "untracked"]
    /\ entry = tree /\ named = {} /\ lost = [f \in File |-> {}]

-----------------------------------------------------------------------------
(* The scope of an attempt: the declared writes and their importers;       *)
(* without declared writes the policy is discovery, and the scope what the *)
(* index suggests.  A repair declares what the mission has modified, its    *)
(* folder lines included.                                                  *)
Scopes(kind, declared) ==
    IF kind = "repair"
    THEN {owned \cup S : S \in IF declared /\ owned # {} THEN SUBSET File ELSE {}}
    ELSE {S \in SUBSET File : declared => S # {}}

(* begin().  A repair owns what the mission has modified.                  *)
Owned(kind) == IF kind = "repair" THEN owned ELSE {}

(* Mutant: every file of the scope is taken for the mission's own. *)
MutConflicts(kind, allowed) == {}

Conflicts(kind, allowed) == (allowed \cap Changed) \ Owned(kind)

Begin(kind, declared, allowed) ==
    /\ try.at = "idle" /\ number < MaxAttempts
    /\ number' = number + 1
    /\ LET new == [NoTry EXCEPT !.declared = declared, !.allowed = allowed,
                                !.baseline = Changed,
                                !.snaps = allowed \cap Changed \cap Owned(kind)]
       IN try' = IF Conflicts(kind, allowed) # {}
                 THEN Ended("blocked")
                 ELSE [new EXCEPT !.at = "capture", !.todo = new.snaps]
    /\ entry' = tree /\ named' = Changed \cap File /\ lost' = [f \in File |-> {}]
    /\ UNCHANGED <<tree, git, owned, ops, env>>

(* #captureSnapshot of each owned line of the scope; a folder cannot be     *)
(* read as a file, and begin() rejects.                                    *)
Capture(f) ==
    /\ try.at = "capture" /\ f \in try.todo
    /\ try' = [try EXCEPT !.snap[f] = tree[f], !.todo = @ \ {f}]
    /\ UNCHANGED <<tree, git, owned, number, ops, env, history>>

CaptureFails ==
    /\ try.at = "capture" /\ ~(try.todo \subseteq File)
    /\ try' = Ended("failed")
    /\ UNCHANGED <<tree, git, owned, number, ops, env, history>>

Ready ==
    /\ try.at = "capture" /\ try.todo = {}
    /\ try' = [try EXCEPT !.at = "agent"]
    /\ UNCHANGED <<tree, git, owned, number, ops, env, history>>

(* What a file may hold after a tool call of the agent: its change beside  *)
(* what was there, or instead of it, or HEAD's version again.              *)
Written(f) == {tree[f] \cup {<<"agent", number>>}, {<<"agent", number>>}, {}}

(* A file that was changed before and is not in the scope is out of the    *)
(* transaction's sight.                                                    *)
Unseen == (try.baseline \cup {f \in File : entry[f] # {}}) \ try.allowed

AgentWrites(f) ==
    /\ try.at = "agent"
    /\ f \in Unseen => env.strays
    /\ \E new \in Written(f) : tree' = [tree EXCEPT ![f] = new]
    /\ UNCHANGED <<git, owned, try, number, ops, env, history>>

(* The agent loop threw: roll back at once. *)
AgentThrows ==
    /\ try.at = "agent"
    /\ try' = [try EXCEPT !.at = "inspect", !.outcome = "failed", !.rollback = TRUE]
    /\ UNCHANGED <<tree, git, owned, number, ops, env, history>>

(* It returned, with status completed or not: inspect first. *)
AgentReturns(outcome) ==
    /\ try.at = "agent"
    /\ try' = [try EXCEPT !.at = "inspect", !.outcome = outcome]
    /\ UNCHANGED <<tree, git, owned, number, ops, env, history>>

-----------------------------------------------------------------------------
(* Mutant: every changed path counts as introduced. *)
MutInspect ==
    /\ try.at = "inspect"
    /\ try' = [try EXCEPT !.at = "compare", !.modified = Changed, !.todo = try.snaps]
    /\ named' = {f \in named : Line(f) = f}
    /\ UNCHANGED <<tree, git, owned, number, ops, env, entry, lost>>

(* inspect(): the lines introduced since begin, by git status, and the     *)
(* snapshots that differ, one read after the other.                        *)
Inspect ==
    /\ try.at = "inspect"
    /\ try' = [try EXCEPT !.at = "compare", !.modified = Changed \ try.baseline,
                          !.todo = try.snaps]
    /\ named' = {f \in named : Line(f) = f}
    /\ UNCHANGED <<tree, git, owned, number, ops, env, entry, lost>>

Compare(f) ==
    /\ try.at = "compare" /\ f \in try.todo
    /\ try' = [try EXCEPT !.modified = IF tree[f] = try.snap[f] THEN @ ELSE @ \cup {f},
                          !.todo = @ \ {f}]
    /\ UNCHANGED <<tree, git, owned, number, ops, env, history>>

Unexpected == IF try.declared THEN try.modified \ try.allowed ELSE {}

(* What execute() does with the inspection. *)
Decide ==
    /\ try.at = "compare" /\ try.todo = {} /\ ~try.rollback
    /\ try' = CASE try.outcome = "failed" ->
                     [try EXCEPT !.at = "inspect", !.rollback = TRUE]
                [] try.outcome = "completed" /\ Unexpected # {} ->
                     [try EXCEPT !.at = "inspect", !.rollback = TRUE, !.outcome = "blocked"]
                [] try.outcome = "completed" /\ Unexpected = {} /\ try.modified = {} ->
                     Ended("blocked")
                [] OTHER -> [try EXCEPT !.at = "save"]
    /\ UNCHANGED <<tree, git, owned, number, ops, env, history>>

(* rollback() inspects again and restores what it finds. *)
StartRollback ==
    /\ try.at = "compare" /\ try.todo = {} /\ try.rollback
    /\ try' = [try EXCEPT !.at = "restore", !.todo = try.modified]
    /\ UNCHANGED <<tree, git, owned, number, ops, env, history>>

(* A snapshot is written back; `git restore --staged --worktree` takes what *)
(* is tracked under the line back to HEAD; a line with nothing tracked is   *)
(* removed with all that is in it, ignored files too.                      *)
Taken(l) ==
    LET tracked == {f \in FilesOf(l) : Tracked(f)}
    IN IF l \in try.snaps \/ tracked = {} THEN FilesOf(l) ELSE tracked

(* Mutant: HEAD is restored, snapshot or not. *)
MutRestored(l, f) == IF f \in Taken(l) THEN {} ELSE tree[f]

Restored(l, f) ==
    IF f \in Taken(l)
    THEN IF l \in try.snaps THEN try.snap[f] ELSE {}
    ELSE tree[f]

Restore(l) ==
    /\ try.at = "restore" /\ l \in try.todo
    /\ tree' = [f \in File |-> Restored(l, f)]
    /\ git' = [f \in File |-> IF f \in Taken(l) /\ l \notin try.snaps /\ git[f] = "staged"
                             THEN "untracked" ELSE git[f]]
    /\ try' = [try EXCEPT !.todo = @ \ {l}]
    /\ lost' = [f \in File |-> lost[f] \cup (OpMark \cap (tree[f] \ Restored(l, f)))]
    /\ UNCHANGED <<owned, number, ops, env, entry, named>>

RolledBack ==
    /\ try.at = "restore" /\ try.todo = {}
    /\ try' = Ended(try.outcome)
    /\ UNCHANGED <<tree, git, owned, number, ops, env, history>>

(* A git command of the attempt fails; execute() throws. *)
GitFails ==
    /\ env.faults /\ try.at \in {"inspect", "restore"}
    /\ try' = Ended("failed")
    /\ UNCHANGED <<tree, git, owned, number, ops, env, history>>

(* mergeModifiedFiles, and the record is saved. *)
Save ==
    /\ try.at = "save"
    /\ owned' = owned \cup try.modified
    /\ try' = Ended("completed")
    /\ UNCHANGED <<tree, git, number, ops, env, history>>

(* The server dies; the mission is resumed. *)
Crash ==
    /\ env.faults /\ try.at # "idle"
    /\ try' = Ended("failed")
    /\ UNCHANGED <<tree, git, owned, number, ops, env, history>>

-----------------------------------------------------------------------------
OperatorTurn == (try.at = "idle" \/ env.operator) /\ ops < MaxOps
GitTurn == OperatorTurn \/ (try.at = "agent" /\ env.strays /\ ops < MaxOps)

(* The operator edits a file. *)
OperatorEdits(f) ==
    /\ OperatorTurn
    /\ ops' = ops + 1
    /\ tree' = [tree EXCEPT ![f] = @ \cup {<<"op", ops + 1>>}]
    /\ UNCHANGED <<git, owned, try, number, env, history>>

(* git add, and git reset. *)
Stages(f) ==
    /\ GitTurn
    /\ ops' = ops + 1
    /\ \/ git[f] = "untracked" /\ tree[f] # {} /\ git' = [git EXCEPT ![f] = "staged"]
       \/ git[f] = "staged" /\ git' = [git EXCEPT ![f] = "untracked"]
    /\ UNCHANGED <<tree, owned, try, number, env, history>>

(* The file is committed or stashed, or else removed, and git with it. *)
PutsAway(f, new) ==
    /\ GitTurn
    /\ ops' = ops + 1
    /\ tree[f] # {} \/ Tracked(f)
    /\ tree' = [tree EXCEPT ![f] = {}]
    /\ git' = [git EXCEPT ![f] = new]
    /\ UNCHANGED <<owned, try, number, env, history>>

Kind == {"edit", "repair"}

Next ==
    \/ \E kind \in Kind, declared \in BOOLEAN :
          \E allowed \in Scopes(kind, declared) : Begin(kind, declared, allowed)
    \/ \E f \in File :
          \/ Capture(f) \/ AgentWrites(f) \/ Compare(f)
          \/ OperatorEdits(f) \/ Stages(f)
          \/ \E new \in {"untracked", "committed"} : PutsAway(f, new)
    \/ \E l \in File \cup Folder : Restore(l)
    \/ CaptureFails \/ Ready \/ AgentThrows \/ \E o \in {"completed", "failed"} : AgentReturns(o)
    \/ Inspect \/ Decide \/ StartRollback \/ RolledBack \/ GitFails \/ Save \/ Crash

Spec == Init /\ [][Next]_vars

-----------------------------------------------------------------------------
Content == SUBSET Mark

TryType ==
    [at : Step, outcome : Outcome, declared : BOOLEAN, allowed : SUBSET (File \cup Folder),
     baseline : SUBSET (File \cup Folder), snaps : SUBSET (File \cup Folder),
     snap : [File -> Content], todo : SUBSET (File \cup Folder),
     modified : SUBSET (File \cup Folder), rollback : BOOLEAN]

(* Types, and what a transaction is about: of the lines that were there     *)
(* when it began it takes back those it has a snapshot of only.            *)
TypeOK ==
    /\ tree \in [File -> Content] /\ entry \in [File -> Content]
    /\ git \in [File -> GitState]
    /\ owned \subseteq File \cup Folder /\ named \subseteq File
    /\ try \in TryType
    /\ number \in 0..MaxAttempts /\ ops \in 0..MaxOps
    /\ env \in Environment
    /\ lost \in [File -> SUBSET OpMark]
    /\ try.at # "idle" =>
          /\ try.snaps \subseteq try.baseline \cap try.allowed
          /\ try.modified \cap try.baseline \subseteq try.snaps
    /\ try.at = "restore" => try.todo \subseteq try.modified

(* Whatever the operator does meanwhile and wherever the attempt breaks     *)
(* off, its rollback removes nothing the operator had, when the attempt     *)
(* began, in a file that git status names by itself then and when it is     *)
(* inspected (bundle-6-semantic-orchestration.md:23).  It may remove what   *)
(* was in ignored files and in untracked folders, which it cannot tell from *)
(* what the attempt introduced.                                            *)
RollbackSparesEarlierWork == \A f \in named : lost[f] \cap entry[f] = {}

(* Without interference (no operator in the middle of an attempt, no       *)
(* writes of the agent to files that were changed before, no crash or git  *)
(* failure) an attempt is one change of files of its scope, none of which  *)
(* held foreign work, and they become the mission's own; or it is nothing  *)
(* (agent-loop-edit-executor.ts:84).  This is so of the files that always   *)
(* have a line of their own when they are changed, whatever happens in the  *)
(* same attempt to others.                                                 *)
Calm == ~(env.operator \/ env.strays \/ env.faults)

Plain == {f \in File : env.folder[f] \in env.kept /\ f \notin env.ignored}

Visible == [f \in File |-> IF ~Calm \/ f \notin Plain THEN {}
                          ELSE IF try.at = "idle" THEN tree[f] ELSE entry[f]]
VisibleOwned == IF Calm THEN owned \cap Plain ELSE {}
VisibleScope == IF Calm /\ try.declared THEN try.allowed \cap File ELSE File

Atomic == INSTANCE AtomicEdit WITH
             tree <- Visible, owned <- VisibleOwned, scope <- VisibleScope
ImplementsAtomic == Atomic!Spec
=============================================================================
