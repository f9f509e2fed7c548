------------------------- MODULE RepositoryEditProofs -------------------------
(***************************************************************************)
(* Theorems about RepositoryEdit for every set of files and folders, number *)
(* of attempts and of operator's actions, and layout of the repository.    *)
(*                                                                         *)
(* What a rollback may remove is decided by what begin() wrote down, long  *)
(* before: the lines of git status, and a copy of the files of its scope   *)
(* that are the mission's own.  IInv says how the tree, git, the entry     *)
(* tree, the copies and the lists of the transaction hang together at every *)
(* await in between.                                                       *)
(***************************************************************************)
EXTENDS RepositoryEdit, TLAPS

Active == try.at # "idle"
Captured == IF try.at = "capture" THEN try.snaps \ try.todo ELSE try.snaps
Touched == {f \in Plain : tree[f] # entry[f]}

(* The marks the operator has not made yet are nowhere.                    *)
Future == {"op"} \X ((ops + 1)..MaxOps)
Numbered == \A f \in File : Future \cap (tree[f] \cup entry[f] \cup try.snap[f]) = {}

Lists ==
    /\ try.at \in {"capture", "compare"} => try.todo \subseteq try.snaps
    /\ try.at \in {"capture", "agent"} => ~try.rollback
    /\ Active => number # 0
    /\ try.at \in {"inspect", "compare"} /\ ~try.rollback =>
          try.outcome \in {"completed", "failed"}

(* Of what lines the lists are made: copies are of files; a folder among    *)
(* the modified lines has nothing tracked and no file of `named`.          *)
Lines ==
    Active =>
      /\ named \subseteq try.baseline
      /\ Captured \subseteq File
      /\ try.modified \cap env.kept = {}
      /\ try.at \in {"compare", "restore"} => \A f \in named : env.folder[f] \notin try.modified

(* What the operator had in a file at the start and still has there, the   *)
(* copy has.                                                               *)
CopyKeeps ==
    Active => \A f \in Captured \cap File : OpMark \cap tree[f] \cap entry[f] \subseteq try.snap[f]

(* Without interference the transaction's lists are exact about the plain   *)
(* files.                                                                  *)
Exact ==
    /\ try.snaps \subseteq owned /\ try.baseline \cap try.allowed \subseteq try.snaps
    /\ \A f \in Plain : entry[f] # {} \/ git[f] = "staged" => f \in try.baseline
    /\ Touched \cap Unseen = {}
    /\ \A f \in Captured : try.snap[f] = entry[f]
    /\ try.at = "capture" => tree = entry
    /\ try.at = "compare" => try.modified \cap Plain = Touched \ try.todo
    /\ try.at = "restore" => try.todo \cap Plain = Touched
    /\ try.at = "save" => try.modified \cap Plain = Touched /\ Unexpected = {}

Undisturbed == Calm /\ Active => Exact

(* The inductive invariant.                                                *)
IInv ==
    /\ TypeOK /\ Lists /\ Numbered /\ Lines /\ CopyKeeps
    /\ RollbackSparesEarlierWork /\ Undisturbed

-----------------------------------------------------------------------------
(* The layout of the repository.                                           *)
LEMMA LayoutType ==
    ASSUME TypeOK
    PROVE  /\ env.folder \in [File -> Folder] /\ env.kept \subseteq Folder
           /\ Plain \subseteq File
BY EnvironmentAssumption DEF TypeOK, EnvironmentType, Plain

(* git status: lines are files and folders; a folder's line stands for files *)
(* of which none is kept or has a line of its own; a plain file that is     *)
(* changed has its own.                                                    *)
LEMMA StatusLines ==
    ASSUME TypeOK
    PROVE  /\ Changed \subseteq File \cup Folder
           /\ Changed \cap env.kept = {}
           /\ \A f \in File : Line(f) = f => env.folder[f] \notin Changed
           /\ \A f \in Plain : f \in Changed <=> tree[f] # {} \/ git[f] = "staged"
<1>1. env.folder \in [File -> Folder] /\ env.kept \subseteq Folder /\ Plain \subseteq File
  BY LayoutType
<1>2. \A f \in File :
         /\ Line(f) \in {f, env.folder[f]}
         /\ Line(f) = env.folder[f] <=> Collapsed(env.folder[f])
  BY <1>1, LineAssumption DEF Line
<1>3. ASSUME NEW l \in Changed
      PROVE  l \in File \cup Folder /\ (l \in File \/ Collapsed(l))
  <2>1. PICK f \in File : l = Line(f)
    BY DEF Changed
  <2>2. CASE l = f
    BY <2>2
  <2>3. CASE l = env.folder[f]
    <3>1. Collapsed(env.folder[f])
      BY <1>2, <2>1, <2>3
    <3> QED
      BY <1>1, <2>3, <3>1
  <2> QED
    BY <1>2, <2>1, <2>2, <2>3
<1>4. \A d \in Changed \ File : Collapsed(d)
  BY <1>3
<1>5. Changed \cap env.kept = {}
  BY <1>1, <1>4, LineAssumption DEF Collapsed
<1>6. \A f \in File : Line(f) = f => env.folder[f] \notin Changed
  BY <1>1, <1>2, <1>4, LineAssumption
<1>7. ASSUME NEW f \in Plain
      PROVE  f \in Changed <=> tree[f] # {} \/ git[f] = "staged"
  <2>1. f \in File /\ f \notin env.ignored /\ Line(f) = f
    BY <1>2, <1>7 DEF Plain, Collapsed, Line
  <2>2. Listed(f) <=> tree[f] # {} \/ git[f] = "staged"
    BY <2>1 DEF Listed
  <2>3. ASSUME NEW g \in File, Line(g) = f
        PROVE  g = f
    <3>1. env.folder[g] # f
      BY <1>1, <2>1, LineAssumption
    <3> QED
      BY <1>2, <2>3, <3>1
  <2> QED
    BY <2>1, <2>2, <2>3 DEF Changed
<1>8. Changed \subseteq File \cup Folder
  BY <1>3
<1> QED
  BY <1>5, <1>6, <1>7, <1>8

LEMMA ScopeType ==
    ASSUME TypeOK, NEW kind \in Kind, NEW declared \in BOOLEAN,
           NEW allowed \in Scopes(kind, declared)
    PROVE  allowed \in SUBSET (File \cup Folder)
<1>1. CASE kind = "repair"
  <2>1. PICK S \in SUBSET File : allowed = owned \cup S
    BY <1>1 DEF Scopes
  <2> QED
    BY <2>1 DEF TypeOK
<1>2. CASE kind # "repair"
  BY <1>2 DEF Scopes
<1> QED
  BY <1>1, <1>2

(* Restoring a line takes back the file it names, or files of the folder.   *)
LEMMA RestoredFiles ==
    ASSUME TypeOK, NEW l \in File \cup Folder, NEW f \in File
    PROVE  /\ Restored(l, f) \in {tree[f], try.snap[f], {}}
           /\ f # l /\ env.folder[f] # l => Restored(l, f) = tree[f]
           /\ l \in File /\ f # l => Restored(l, f) = tree[f]
           /\ f = l => Restored(l, f) = IF f \in try.snaps THEN try.snap[f] ELSE {}
<1>1. Taken(l) \subseteq FilesOf(l)
  BY DEF Taken
<1>2. FilesOf(l) = IF l \in File THEN {l} ELSE {g \in File : env.folder[g] = l}
  BY DEF FilesOf
<1>3. ASSUME f = l
      PROVE  f \in Taken(l)
  <2>1. FilesOf(l) = {l}
    BY <1>3 DEF FilesOf
  <2>2. Taken(l) = {l}
    BY <2>1 DEF Taken
  <2> QED
    BY <1>3, <2>2
<1> QED
  BY <1>1, <1>2, <1>3 DEF Restored

Begun(declared, allowed) ==
    [NoTry EXCEPT !.at = "capture", !.declared = declared, !.allowed = allowed,
                  !.baseline = Changed, !.snaps = allowed \cap Changed,
                  !.todo = allowed \cap Changed]

(* begin() in the terms of its parameters: a blocked attempt has ended; an  *)
(* admitted one holds a snapshot of every changed line of its scope.        *)
LEMMA BeginEffect ==
    ASSUME NEW kind \in Kind, NEW declared \in BOOLEAN, NEW allowed,
           Begin(kind, declared, allowed)
    PROVE  \/ try' = Ended("blocked")
           \/ /\ allowed \cap Changed \subseteq owned
              /\ try' = Begun(declared, allowed)
<1>1. CASE Conflicts(kind, allowed) # {}
  BY <1>1 DEF Begin
<1>2. CASE Conflicts(kind, allowed) = {}
  <2>1. allowed \cap Changed \cap Owned(kind) = allowed \cap Changed
    BY <1>2 DEF Conflicts
  <2>2. allowed \cap Changed \subseteq owned
    BY <1>2 DEF Conflicts, Owned
  <2> QED
    BY <1>2, <2>1, <2>2 DEF Begin, NoTry, Begun
<1> QED
  BY <1>1, <1>2

(* An attempt that has ended, and one that has just begun, are transactions. *)
LEMMA EndedType ==
    ASSUME NEW outcome \in Outcome
    PROVE  /\ Ended(outcome) \in TryType
           /\ Ended(outcome).at = "idle" /\ Ended(outcome).snap = [f \in File |-> {}]
BY DEF Ended, NoTry, TryType, Step, Outcome, Content

(* A step of the transaction that leaves the tree and its baseline alone.    *)
SameTransaction ==
    /\ UNCHANGED <<tree, git, owned, number, ops, env, entry, lost>> /\ named' \subseteq named
    /\ Active /\ try' \in TryType
    /\ try'.baseline = try.baseline /\ try'.snaps = try.snaps /\ try'.allowed = try.allowed

LEMMA TransactionStep ==
    ASSUME TypeOK, Lists, SameTransaction,
           try'.modified \cap try.baseline \subseteq try.snaps,
           try'.at = "restore" => try'.todo \subseteq try'.modified,
           try'.at \in {"capture", "compare"} => try'.todo \subseteq try.snaps,
           try'.at \in {"capture", "agent"} => ~try'.rollback,
           try'.at \in {"inspect", "compare"} /\ ~try'.rollback =>
              try'.outcome \in {"completed", "failed"}
    PROVE  TypeOK' /\ Lists'
BY DEF SameTransaction, TypeOK, Lists, Active

(* Types, and the lists of the transaction.                                *)
LEMMA TypeStep ==
    ASSUME TypeOK, Lists, [Next]_vars
    PROVE  TypeOK' /\ Lists'
<1> USE BoundsAssumption
<1>0. Changed \subseteq File \cup Folder
  BY StatusLines
<1>1. ASSUME NEW kind \in Kind, NEW declared \in BOOLEAN,
             NEW allowed \in Scopes(kind, declared), Begin(kind, declared, allowed)
      PROVE  TypeOK' /\ Lists'
  <2>1. /\ number' \in 0..MaxAttempts /\ number' # 0 /\ entry' = tree /\ tree' = tree
        /\ owned' = owned /\ ops' = ops /\ env' = env /\ lost' = [f \in File |-> {}]
        /\ git' = git /\ named' \subseteq File
    BY <1>1 DEF Begin, TypeOK
  <2>2. CASE try' = Ended("blocked")
    BY <2>1, <2>2, EndedType DEF TypeOK, Lists, Active, Outcome
  <2>3. CASE try' = Begun(declared, allowed)
    <3>1. allowed \in SUBSET (File \cup Folder)
      BY ScopeType
    <3>2. try' \in TryType
      BY <1>0, <2>3, <3>1 DEF Begun, NoTry, TryType, Step, Outcome, Content
    <3>3. /\ try'.at = "capture" /\ try'.baseline = Changed /\ try'.allowed = allowed
          /\ try'.snaps = allowed \cap Changed /\ try'.todo = allowed \cap Changed
          /\ try'.modified = {} /\ try'.rollback = FALSE
      BY <2>3 DEF Begun, NoTry
    <3> QED
      BY <2>1, <3>2, <3>3 DEF TypeOK, Lists, Active
  <2>4. \/ try' = Ended("blocked")
        \/ allowed \cap Changed \subseteq owned /\ try' = Begun(declared, allowed)
    BY <1>1, BeginEffect, Zenon
  <2> QED
    BY <2>2, <2>3, <2>4
<1>2. ASSUME NEW f \in File, Capture(f)
      PROVE  TypeOK' /\ Lists'
  <2>1. SameTransaction
    BY <1>2 DEF Capture, SameTransaction, Active, TypeOK, TryType, history
  <2>2. /\ try'.at = "capture" /\ try'.modified = try.modified
        /\ try'.todo = try.todo \ {f} /\ try'.rollback = try.rollback /\ try.at = "capture"
    BY <1>2 DEF Capture, TypeOK, TryType
  <2> QED
    BY <2>1, <2>2, TransactionStep DEF TypeOK, Lists
<1>3. ASSUME NEW f \in File, NEW new \in {"untracked", "committed"},
             AgentWrites(f) \/ OperatorEdits(f) \/ Stages(f) \/ PutsAway(f, new)
      PROVE  TypeOK' /\ Lists'
  <2>1. UNCHANGED <<owned, try, number, env, history>> /\ ops' \in 0..MaxOps
    BY <1>3 DEF AgentWrites, OperatorEdits, Stages, PutsAway, GitTurn, OperatorTurn, TypeOK
  <2>2. git' \in [File -> GitState]
    BY <1>3 DEF AgentWrites, OperatorEdits, Stages, PutsAway, GitState, TypeOK
  <2>3. ASSUME AgentWrites(f)
        PROVE  tree' \in [File -> Content]
    <3>1. number \in 1..MaxAttempts
      BY <2>3 DEF AgentWrites, TypeOK, Lists, Active
    <3>2. <<"agent", number>> \in Mark
      BY <3>1 DEF Mark, AgentMark
    <3>3. PICK put \in Written(f) : tree' = [tree EXCEPT ![f] = put]
      BY <2>3 DEF AgentWrites
    <3>4. put \in Content
      BY <3>2, <3>3 DEF Written, Content, TypeOK
    <3> QED
      BY <3>3, <3>4 DEF TypeOK
  <2>4. ASSUME OperatorEdits(f)
        PROVE  tree' \in [File -> Content]
    <3>1. <<"op", ops + 1>> \in Mark
      BY <2>4 DEF OperatorEdits, OperatorTurn, TypeOK, Mark, OpMark
    <3> QED
      BY <2>4, <3>1 DEF OperatorEdits, Content, TypeOK
  <2>5. Stages(f) \/ PutsAway(f, new) => tree' \in [File -> Content]
    BY DEF Stages, PutsAway, Content, TypeOK
  <2> QED
    BY <1>3, <2>1, <2>2, <2>3, <2>4, <2>5 DEF TypeOK, Lists, Active, history
<1>4. ASSUME NEW l \in File \cup Folder, Restore(l)
      PROVE  TypeOK' /\ Lists'
  <2>1. try \in TryType /\ tree \in [File -> Content]
    BY DEF TypeOK
  <2>2. \A f \in File : Restored(l, f) \in Content
    BY <2>1, RestoredFiles DEF TryType, Content
  <2>3. tree' \in [File -> Content] /\ git' \in [File -> GitState]
    BY <1>4, <2>2 DEF Restore, TypeOK, GitState
  <2>4. lost' \in [File -> SUBSET OpMark]
    BY <1>4 DEF Restore, TypeOK
  <2>5. /\ try' = [try EXCEPT !.todo = @ \ {l}] /\ try.at = "restore"
        /\ UNCHANGED <<owned, number, ops, env, entry, named>>
    BY <1>4 DEF Restore
  <2>6. /\ try' \in TryType /\ try'.at = "restore" /\ try'.snaps = try.snaps
        /\ try'.baseline = try.baseline /\ try'.allowed = try.allowed
        /\ try'.modified = try.modified /\ try'.todo = try.todo \ {l}
    BY <2>1, <2>5 DEF TryType
  <2> QED
    BY <2>3, <2>4, <2>5, <2>6 DEF TypeOK, Lists, Active
<1>5. ASSUME NEW f \in File, Compare(f)
      PROVE  TypeOK' /\ Lists'
  <2>1. PICK new \in {try.modified, try.modified \cup {f}} :
              try' = [try EXCEPT !.modified = new, !.todo = @ \ {f}]
    BY <1>5 DEF Compare
  <2>2. f \in try.snaps /\ try.modified \cap try.baseline \subseteq try.snaps
    BY <1>5 DEF Compare, TypeOK, Lists, Active
  <2>3. new \subseteq File \cup Folder /\ new \cap try.baseline \subseteq try.snaps
    BY <2>2 DEF TypeOK, TryType
  <2>4. SameTransaction
    <3>1. try \in TryType
      BY DEF TypeOK
    <3>2. try' \in TryType
      BY <2>1, <2>3, <3>1 DEF TryType
    <3>3. try'.baseline = try.baseline /\ try'.snaps = try.snaps /\ try'.allowed = try.allowed
      BY <2>1, <3>1 DEF TryType
    <3> QED
      BY <1>5, <3>2, <3>3 DEF Compare, SameTransaction, Active, history
  <2>5. /\ try'.at = "compare" /\ try'.modified = new /\ try'.outcome = try.outcome
        /\ try'.todo = try.todo \ {f} /\ try'.rollback = try.rollback /\ try.at = "compare"
    BY <1>5, <2>1 DEF Compare, TypeOK, TryType
  <2> QED
    BY <2>3, <2>4, <2>5, TransactionStep DEF Lists
<1>6. ASSUME \/ Ready \/ AgentThrows \/ \E o \in {"completed", "failed"} : AgentReturns(o)
             \/ Inspect \/ StartRollback
      PROVE  TypeOK' /\ Lists'
  <2>1. /\ try \in TryType /\ Active /\ named' \subseteq named
        /\ UNCHANGED <<tree, git, owned, number, ops, env, entry, lost>>
    BY <1>6 DEF Ready, AgentThrows, AgentReturns, Inspect, StartRollback, Active, TypeOK, history
  <2>2. /\ try'.baseline = try.baseline /\ try'.snaps = try.snaps /\ try'.allowed = try.allowed
    BY <1>6, <2>1 DEF Ready, AgentThrows, AgentReturns, Inspect, StartRollback, TryType
  <2>3. CASE Ready
    <3>1. try' \in TryType /\ try'.at = "agent" /\ ~try'.rollback /\ try'.modified = try.modified
      BY <2>1, <2>3 DEF Ready, TryType, Step, Lists
    <3> QED
      BY <2>1, <2>2, <3>1, TransactionStep DEF SameTransaction, TypeOK, Active
  <2>4. CASE AgentThrows
    <3>1. try' \in TryType /\ try'.at = "inspect" /\ try'.rollback /\ try'.modified = try.modified
      BY <2>1, <2>4 DEF AgentThrows, TryType, Step, Outcome
    <3> QED
      BY <2>1, <2>2, <3>1, TransactionStep DEF SameTransaction, TypeOK, Active
  <2>5. CASE \E o \in {"completed", "failed"} : AgentReturns(o)
    <3>1. /\ try' \in TryType /\ try'.at = "inspect" /\ try'.modified = try.modified
          /\ try'.outcome \in {"completed", "failed"}
      BY <2>1, <2>5 DEF AgentReturns, TryType, Step, Outcome
    <3> QED
      BY <2>1, <2>2, <3>1, TransactionStep DEF SameTransaction, TypeOK, Active
  <2>6. CASE Inspect
    <3>1. /\ try' \in TryType /\ try'.at = "compare" /\ try'.modified = Changed \ try.baseline
          /\ try'.todo = try.snaps /\ try.at = "inspect"
          /\ try'.rollback = try.rollback /\ try'.outcome = try.outcome
      BY <1>0, <2>1, <2>6 DEF Inspect, TryType, Step
    <3> QED
      BY <2>1, <2>2, <3>1, TransactionStep DEF SameTransaction, Lists
  <2>7. CASE StartRollback
    <3>1. /\ try' \in TryType /\ try'.at = "restore" /\ try'.modified = try.modified
          /\ try'.todo = try.modified
      BY <2>1, <2>7 DEF StartRollback, TryType, Step
    <3> QED
      BY <2>1, <2>2, <3>1, TransactionStep DEF SameTransaction, TypeOK, Active
  <2> QED
    BY <1>6, <2>3, <2>4, <2>5, <2>6, <2>7
<1>7. ASSUME CaptureFails \/ RolledBack \/ GitFails \/ Save \/ Crash
      PROVE  TypeOK' /\ Lists'
  <2>1. \E o \in Outcome : try' = Ended(o)
    BY <1>7 DEF CaptureFails, RolledBack, GitFails, Save, Crash, TypeOK, TryType, Outcome
  <2>2. owned' \subseteq File \cup Folder
    BY <1>7 DEF CaptureFails, RolledBack, GitFails, Save, Crash, TypeOK, TryType
  <2> QED
    BY <1>7, <2>1, <2>2, EndedType
       DEF TypeOK, Lists, Active, CaptureFails, RolledBack, GitFails, Save, Crash, history
<1>8. ASSUME Decide
      PROVE  TypeOK' /\ Lists'
  <2>1. UNCHANGED <<tree, git, owned, number, ops, env, history>> /\ try.at = "compare"
    BY <1>8 DEF Decide
  <2>2. CASE try' = Ended("blocked")
    BY <2>1, <2>2, EndedType DEF TypeOK, Lists, Active, Outcome, history
  <2>3. ASSUME \/ try' = [try EXCEPT !.at = "inspect", !.rollback = TRUE]
               \/ try' = [try EXCEPT !.at = "inspect", !.rollback = TRUE, !.outcome = "blocked"]
               \/ try' = [try EXCEPT !.at = "save"]
        PROVE  TypeOK' /\ Lists'
    <3>1. SameTransaction
      BY <2>1, <2>3 DEF SameTransaction, Active, TypeOK, TryType, Step, Outcome, history
    <3>2. try \in TryType
      BY DEF TypeOK
    <3>3. try'.modified = try.modified /\ try'.at \in {"save", "inspect"}
      BY <2>3, <3>2 DEF TryType
    <3>4. try'.at = "inspect" => try'.rollback = TRUE
      BY <2>3, <3>2 DEF TryType
    <3> QED
      BY <2>1, <3>1, <3>3, <3>4, TransactionStep DEF TypeOK, Active
  <2> QED
    BY <1>8, <2>2, <2>3 DEF Decide
<1>9. ASSUME UNCHANGED vars
      PROVE  TypeOK' /\ Lists'
  BY <1>9 DEF vars, history, TypeOK, Lists, Active
<1> QED
  BY <1>1, <1>2, <1>3, <1>4, <1>5, <1>6, <1>7, <1>8, <1>9 DEF Next

(* Marks come into the tree numbered, one after the other.                 *)
LEMMA NumberedStep ==
    ASSUME TypeOK, Numbered, [Next]_vars
    PROVE  Numbered'
<1> USE BoundsAssumption
<1>0. try \in TryType /\ tree \in [File -> Content] /\ ops \in Nat
  BY DEF TypeOK
<1>1. ASSUME ops' \in {ops, ops + 1},
             \A f \in File : Future \cap (tree'[f] \cup entry'[f] \cup try'.snap[f]) = {}
      PROVE  Numbered'
  <2>1. Future' \subseteq Future
    BY <1>0, <1>1 DEF Future
  <2> QED
    BY <1>1, <2>1 DEF Numbered
<1>2. ASSUME NEW kind \in Kind, NEW declared \in BOOLEAN,
             NEW allowed \in Scopes(kind, declared), Begin(kind, declared, allowed)
      PROVE  Numbered'
  <2>1. try' = Ended("blocked") \/ try' = Begun(declared, allowed)
    BY <1>2, BeginEffect, Zenon
  <2>2. try'.snap = [f \in File |-> {}]
    BY <2>1, EndedType DEF Begun, NoTry, Outcome
  <2> QED
    BY <1>1, <1>2, <2>2 DEF Begin, Numbered
<1>3. ASSUME NEW g \in File, Capture(g)
      PROVE  Numbered'
  <2>1. try'.snap = [try.snap EXCEPT ![g] = tree[g]]
    BY <1>0, <1>3 DEF Capture, TryType
  <2> QED
    BY <1>0, <1>1, <1>3, <2>1 DEF Capture, Numbered, history, TryType
<1>4. ASSUME NEW g \in File, NEW state \in {"untracked", "committed"},
             AgentWrites(g) \/ PutsAway(g, state)
      PROVE  Numbered'
  <2>1. PICK new \in {tree[g] \cup {<<"agent", number>>}, {<<"agent", number>>}, {}} :
              tree' = [tree EXCEPT ![g] = new]
    BY <1>4 DEF AgentWrites, Written, PutsAway
  <2>2. Future \cap new \subseteq Future \cap tree[g]
    BY <2>1 DEF Future
  <2>3. UNCHANGED <<try, entry>> /\ ops' \in {ops, ops + 1}
    BY <1>4 DEF AgentWrites, PutsAway, history
  <2> QED
    BY <1>0, <1>1, <2>1, <2>2, <2>3 DEF Numbered
<1>5. ASSUME NEW g \in File, OperatorEdits(g)
      PROVE  Numbered'
  <2>1. /\ UNCHANGED <<try, entry>> /\ ops' = ops + 1
        /\ tree' = [tree EXCEPT ![g] = @ \cup {<<"op", ops + 1>>}]
    BY <1>5 DEF OperatorEdits, history
  <2>2. Future' \subseteq Future /\ <<"op", ops + 1>> \notin Future'
    BY <1>0, <2>1 DEF Future
  <2> QED
    BY <1>0, <2>1, <2>2 DEF Numbered
<1>6. ASSUME NEW l \in File \cup Folder, Restore(l)
      PROVE  Numbered'
  <2>1. \A f \in File : Future \cap Restored(l, f) = {}
    BY RestoredFiles DEF Numbered
  <2>2. try'.snap = try.snap
    BY <1>0, <1>6 DEF Restore, TryType
  <2> QED
    BY <1>0, <1>1, <1>6, <2>1, <2>2 DEF Restore, Numbered
<1>7. ASSUME \/ Ready \/ AgentThrows \/ \E o \in {"completed", "failed"} : AgentReturns(o)
             \/ Inspect \/ Decide \/ StartRollback \/ CaptureFails \/ RolledBack \/ GitFails
             \/ Save \/ Crash \/ \E f \in File : Compare(f) \/ Stages(f)
      PROVE  Numbered'
  <2>1. UNCHANGED <<tree, entry>> /\ ops' \in {ops, ops + 1}
    BY <1>7 DEF Ready, AgentThrows, AgentReturns, Inspect, Decide, StartRollback, RolledBack,
                CaptureFails, GitFails, Save, Crash, Compare, Stages, history
  <2>2. try'.snap = try.snap \/ try'.snap = [f \in File |-> {}]
    <3>1. CASE \/ Ready \/ AgentThrows \/ \E o \in {"completed", "failed"} : AgentReturns(o)
               \/ Inspect \/ StartRollback \/ \E f \in File : Compare(f) \/ Stages(f)
      BY <1>0, <3>1
         DEF Ready, AgentThrows, AgentReturns, Inspect, StartRollback, Compare, Stages, TryType
    <3>2. CASE CaptureFails \/ RolledBack \/ GitFails \/ Save \/ Crash
      BY <1>0, <3>2, EndedType
         DEF CaptureFails, RolledBack, GitFails, Save, Crash, TryType, Outcome
    <3>3. CASE Decide
      BY <1>0, <3>3, EndedType DEF Decide, TryType, Outcome
    <3> QED
      BY <1>7, <3>1, <3>2, <3>3
  <2> QED
    BY <1>1, <2>1, <2>2 DEF Numbered
<1>8. ASSUME UNCHANGED vars
      PROVE  Numbered'
  BY <1>1, <1>8 DEF vars, history, Numbered
<1> QED
  BY <1>2, <1>3, <1>4, <1>5, <1>6, <1>7, <1>8 DEF Next

(* The lines of the lists.  What makes a folder modified is a status in     *)
(* which none of its files has a line, and Inspect takes such files out of  *)
(* `named`.                                                                *)
LEMMA LinesStep ==
    ASSUME TypeOK, Lists, Lines, [Next]_vars
    PROVE  Lines'
<1>0. try \in TryType /\ env.folder \in [File -> Folder] /\ env.kept \subseteq Folder
  BY LayoutType DEF TypeOK
<1>1. ASSUME NEW kind \in Kind, NEW declared \in BOOLEAN,
             NEW allowed \in Scopes(kind, declared), Begin(kind, declared, allowed)
      PROVE  Lines'
  <2>1. try' = Ended("blocked") \/ try' = Begun(declared, allowed)
    BY <1>1, BeginEffect, Zenon
  <2>2. CASE try' = Ended("blocked")
    BY <2>2, EndedType DEF Lines, Active, Outcome
  <2>3. CASE try' = Begun(declared, allowed)
    <3>1. /\ try'.at = "capture" /\ try'.snaps = try'.todo /\ try'.modified = {}
          /\ try'.baseline = Changed
      BY <2>3 DEF Begun, NoTry
    <3>2. named' = Changed \cap File
      BY <1>1 DEF Begin
    <3> QED
      BY <3>1, <3>2 DEF Lines, Captured
  <2> QED
    BY <2>1, <2>2, <2>3
<1>2. ASSUME NEW g \in File, Capture(g)
      PROVE  Lines'
  <2>1. /\ try'.at = "capture" /\ try.at = "capture" /\ try'.snaps = try.snaps
        /\ try'.todo = try.todo \ {g} /\ try'.modified = try.modified
        /\ try'.baseline = try.baseline /\ named' = named /\ env' = env
    BY <1>0, <1>2 DEF Capture, TryType, history
  <2> QED
    BY <2>1 DEF Lines, Captured, Active
<1>3. ASSUME NEW g \in File, NEW new \in {"untracked", "committed"},
             AgentWrites(g) \/ OperatorEdits(g) \/ Stages(g) \/ PutsAway(g, new)
      PROVE  Lines'
  <2>1. UNCHANGED <<try, env, named>>
    BY <1>3 DEF AgentWrites, OperatorEdits, Stages, PutsAway, history
  <2> QED
    BY <2>1 DEF Lines, Captured, Active
<1>4. ASSUME NEW l \in File \cup Folder, Restore(l)
      PROVE  Lines'
  <2>1. /\ try'.at = "restore" /\ try.at = "restore" /\ try'.snaps = try.snaps
        /\ try'.modified = try.modified
        /\ try'.baseline = try.baseline /\ named' = named /\ env' = env
    BY <1>0, <1>4 DEF Restore, TryType
  <2> QED
    BY <2>1 DEF Lines, Captured, Active
<1>5. ASSUME NEW g \in File, Compare(g)
      PROVE  Lines'
  <2>1. /\ try'.at = "compare" /\ try.at = "compare" /\ try'.snaps = try.snaps
        /\ try'.modified \in {try.modified, try.modified \cup {g}}
        /\ try'.baseline = try.baseline /\ named' = named /\ env' = env
    BY <1>0, <1>5 DEF Compare, TryType, history
  <2>2. g \notin Folder
    BY LineAssumption
  <2>3. named \subseteq File
    BY DEF TypeOK
  <2>4. \A f \in named : env.folder[f] # g
    BY <1>0, <2>2, <2>3
  <2> QED
    BY <1>0, <2>1, <2>2, <2>4 DEF Lines, Captured, Active
<1>6. ASSUME \/ Ready \/ AgentThrows \/ \E o \in {"completed", "failed"} : AgentReturns(o)
             \/ StartRollback
      PROVE  Lines'
  <2>1. /\ try'.at \in {"agent", "inspect", "restore"} /\ Active /\ try'.snaps = try.snaps
        /\ try'.modified = try.modified
        /\ try'.baseline = try.baseline /\ named' = named /\ env' = env
        /\ try.at = "capture" => try.todo = {}
        /\ try'.at = "restore" => try.at = "compare"
    BY <1>0, <1>6
       DEF Ready, AgentThrows, AgentReturns, StartRollback, Active, TryType, history
  <2> QED
    BY <2>1 DEF Lines, Captured
<1>7. ASSUME Inspect
      PROVE  Lines'
  <2>1. /\ try'.at = "compare" /\ try.at = "inspect" /\ try'.snaps = try.snaps
        /\ try'.modified = Changed \ try.baseline /\ try'.baseline = try.baseline
        /\ named' = {f \in named : Line(f) = f} /\ env' = env
    BY <1>0, <1>7 DEF Inspect, TryType
  <2>2. named \subseteq File
    BY DEF TypeOK
  <2>3. \A f \in named' : env.folder[f] \notin Changed
    BY <2>1, <2>2, StatusLines
  <2>4. Changed \cap env.kept = {}
    BY StatusLines
  <2> QED
    BY <2>1, <2>3, <2>4 DEF Lines, Captured, Active
<1>8. ASSUME CaptureFails \/ RolledBack \/ GitFails \/ Save \/ Crash
      PROVE  Lines'
  <2>1. try'.at = "idle"
    BY <1>0, <1>8, EndedType
       DEF CaptureFails, RolledBack, GitFails, Save, Crash, TryType, Outcome
  <2> QED
    BY <2>1 DEF Lines, Active
<1>9. ASSUME Decide
      PROVE  Lines'
  <2>1. UNCHANGED <<env, named>> /\ try.at = "compare"
    BY <1>9 DEF Decide, history
  <2>2. CASE try' = Ended("blocked")
    BY <2>2, EndedType DEF Lines, Active, Outcome
  <2>3. ASSUME \/ try' = [try EXCEPT !.at = "inspect", !.rollback = TRUE]
               \/ try' = [try EXCEPT !.at = "inspect", !.rollback = TRUE, !.outcome = "blocked"]
               \/ try' = [try EXCEPT !.at = "save"]
        PROVE  Lines'
    <3>1. /\ try'.at \in {"inspect", "save"} /\ try'.snaps = try.snaps
          /\ try'.modified = try.modified /\ try'.baseline = try.baseline
      BY <1>0, <2>3 DEF TryType
    <3> QED
      BY <2>1, <3>1 DEF Lines, Captured, Active
  <2> QED
    BY <1>9, <2>2, <2>3 DEF Decide
<1>10. ASSUME UNCHANGED vars
       PROVE  Lines'
  BY <1>10 DEF vars, history, Lines, Captured, Active
<1> QED
  BY <1>1, <1>2, <1>3, <1>4, <1>5, <1>6, <1>7, <1>8, <1>9, <1>10 DEF Next

(* A copy keeps what the operator had in the file: after it was made, the   *)
(* operator's marks of the entry tree only disappear from the file, or come *)
(* back from the copy.                                                     *)
LEMMA CopyStep ==
    ASSUME TypeOK, Lists, Numbered, CopyKeeps, [Next]_vars
    PROVE  CopyKeeps'
<1> USE BoundsAssumption
<1>0. try \in TryType /\ tree \in [File -> Content] /\ ops \in Nat
  BY DEF TypeOK
<1>1. ASSUME NEW kind \in Kind, NEW declared \in BOOLEAN,
             NEW allowed \in Scopes(kind, declared), Begin(kind, declared, allowed)
      PROVE  CopyKeeps'
  <2>1. try' = Ended("blocked") \/ try' = Begun(declared, allowed)
    BY <1>1, BeginEffect, Zenon
  <2>2. CASE try' = Ended("blocked")
    BY <2>2, EndedType DEF CopyKeeps, Active, Outcome
  <2>3. CASE try' = Begun(declared, allowed)
    <3>1. try'.at = "capture" /\ try'.snaps = try'.todo
      BY <2>3 DEF Begun, NoTry
    <3> QED
      BY <3>1 DEF CopyKeeps, Captured
  <2> QED
    BY <2>1, <2>2, <2>3
<1>2. ASSUME NEW g \in File, Capture(g)
      PROVE  CopyKeeps'
  <2>1. /\ try'.snap = [try.snap EXCEPT ![g] = tree[g]] /\ try'.at = "capture"
        /\ try'.snaps = try.snaps /\ try'.todo = try.todo \ {g} /\ try.at = "capture"
    BY <1>0, <1>2 DEF Capture, TryType
  <2>2. Captured' \subseteq Captured \cup {g} /\ Active
    BY <2>1 DEF Captured, Active
  <2>3. \A f \in Captured' \cap File : OpMark \cap tree[f] \cap entry[f] \subseteq try'.snap[f]
    BY <1>0, <2>1, <2>2 DEF CopyKeeps, TryType
  <2> QED
    BY <1>2, <2>3 DEF CopyKeeps, Capture, history
<1>3. ASSUME NEW g \in File, NEW state \in {"untracked", "committed"},
             AgentWrites(g) \/ OperatorEdits(g) \/ PutsAway(g, state)
      PROVE  CopyKeeps'
  <2>1. UNCHANGED <<try, entry>> /\ \A f \in File \ {g} : tree'[f] = tree[f]
    BY <1>0, <1>3 DEF AgentWrites, OperatorEdits, PutsAway, history
  <2>2. OpMark \cap tree'[g] \cap entry[g] \subseteq tree[g]
    <3>1. CASE AgentWrites(g)
      <4>1. PICK new \in Written(g) : tree' = [tree EXCEPT ![g] = new]
        BY <3>1 DEF AgentWrites
      <4>2. OpMark \cap new \subseteq tree[g]
        BY DEF Written, OpMark
      <4> QED
        BY <1>0, <4>1, <4>2
    <3>2. CASE PutsAway(g, state)
      BY <1>0, <3>2 DEF PutsAway
    <3>3. CASE OperatorEdits(g)
      <4>1. tree' = [tree EXCEPT ![g] = @ \cup {<<"op", ops + 1>>}] /\ ops < MaxOps
        BY <3>3 DEF OperatorEdits, OperatorTurn
      <4>2. <<"op", ops + 1>> \in Future
        BY <1>0, <4>1 DEF Future
      <4>3. <<"op", ops + 1>> \notin entry[g]
        BY <4>2 DEF Numbered
      <4> QED
        BY <1>0, <4>1, <4>3
    <3> QED
      BY <1>3, <3>1, <3>2, <3>3
  <2>3. Captured' = Captured /\ Active' = Active
    BY <1>0, <2>1 DEF Captured, Active, TryType
  <2> QED
    BY <2>1, <2>2, <2>3 DEF CopyKeeps
<1>4. ASSUME NEW l \in File \cup Folder, Restore(l)
      PROVE  CopyKeeps'
  <2>1. /\ try'.snap = try.snap /\ try'.snaps = try.snaps /\ try'.at = "restore"
        /\ try.at = "restore" /\ entry' = entry /\ tree' = [f \in File |-> Restored(l, f)]
    BY <1>0, <1>4 DEF Restore, TryType
  <2>2. Captured = try.snaps /\ Captured' = try.snaps /\ Active
    BY <1>0, <2>1 DEF Captured, Active, TryType
  <2>3. \A f \in File : tree'[f] \in {tree[f], try.snap[f], {}}
    BY <2>1, RestoredFiles
  <2> QED
    BY <2>1, <2>2, <2>3 DEF CopyKeeps
<1>5. ASSUME \/ Ready \/ AgentThrows \/ \E o \in {"completed", "failed"} : AgentReturns(o)
             \/ Inspect \/ StartRollback \/ \E f \in File : Compare(f)
      PROVE  CopyKeeps'
  <2>1. UNCHANGED <<tree, entry>>
    BY <1>5 DEF Ready, AgentThrows, AgentReturns, Inspect, StartRollback, Compare, history
  <2>2. /\ try'.snap = try.snap /\ try'.snaps = try.snaps /\ Active /\ try'.at # "capture"
        /\ try.at = "capture" => try.todo = {}
    BY <1>0, <1>5 DEF Ready, AgentThrows, AgentReturns, Inspect, StartRollback, Compare,
                      TryType, Active
  <2> QED
    BY <2>1, <2>2 DEF CopyKeeps, Captured
<1>6. ASSUME CaptureFails \/ RolledBack \/ GitFails \/ Save \/ Crash
      PROVE  CopyKeeps'
  <2>1. try'.at = "idle"
    BY <1>0, <1>6, EndedType
       DEF CaptureFails, RolledBack, GitFails, Save, Crash, TryType, Outcome
  <2> QED
    BY <2>1 DEF CopyKeeps, Active
<1>7. ASSUME Decide
      PROVE  CopyKeeps'
  <2>1. UNCHANGED <<tree, entry>> /\ try.at = "compare"
    BY <1>7 DEF Decide, history
  <2>2. CASE try' = Ended("blocked")
    BY <2>2, EndedType DEF CopyKeeps, Active, Outcome
  <2>3. ASSUME \/ try' = [try EXCEPT !.at = "inspect", !.rollback = TRUE]
               \/ try' = [try EXCEPT !.at = "inspect", !.rollback = TRUE, !.outcome = "blocked"]
               \/ try' = [try EXCEPT !.at = "save"]
        PROVE  CopyKeeps'
    <3>1. try'.snap = try.snap /\ try'.snaps = try.snaps /\ try'.at # "capture"
      BY <1>0, <2>3 DEF TryType
    <3> QED
      BY <2>1, <3>1 DEF CopyKeeps, Captured, Active
  <2> QED
    BY <1>7, <2>2, <2>3 DEF Decide
<1>8. ASSUME UNCHANGED vars \/ \E f \in File : Stages(f)
      PROVE  CopyKeeps'
  <2>1. UNCHANGED <<try, tree, entry>>
    BY <1>8 DEF vars, Stages, history
  <2> QED
    BY <2>1 DEF CopyKeeps, Captured, Active
<1> QED
  BY <1>1, <1>2, <1>3, <1>4, <1>5, <1>6, <1>7, <1>8 DEF Next

(* A file of `named` is restored by its own line only; then it had no line  *)
(* when the attempt began, or its copy has what it held.                   *)
LEMMA SparesStep ==
    ASSUME TypeOK, Lines, CopyKeeps, RollbackSparesEarlierWork, [Next]_vars
    PROVE  RollbackSparesEarlierWork'
<1>1. ASSUME NEW l \in File \cup Folder, Restore(l)
      PROVE  RollbackSparesEarlierWork'
  <2>1. /\ try.at = "restore" /\ l \in try.todo /\ entry' = entry /\ named' = named
        /\ lost' = [f \in File |-> lost[f] \cup (OpMark \cap (tree[f] \ Restored(l, f)))]
    BY <1>1 DEF Restore
  <2>2. l \in try.modified /\ Active
    BY <2>1 DEF TypeOK, Active
  <2>3. ASSUME NEW f \in named
        PROVE  OpMark \cap (tree[f] \ Restored(l, f)) \cap entry[f] = {}
    <3>1. f \in File /\ f \in try.baseline /\ env.folder[f] # l
      BY <2>1, <2>2, <2>3 DEF Lines, TypeOK
    <3>2. CASE f = l
      <4>1. f \in try.snaps
        BY <2>2, <3>1, <3>2 DEF TypeOK, Active
      <4>2. f \in Captured
        BY <2>1, <4>1 DEF Captured
      <4>3. Restored(l, f) = try.snap[f]
        BY <3>1, <3>2, <4>1, RestoredFiles
      <4> QED
        BY <2>2, <3>1, <4>2, <4>3 DEF CopyKeeps
    <3>3. CASE f # l
      BY <3>1, <3>3, RestoredFiles
    <3> QED
      BY <3>2, <3>3
  <2>4. named \subseteq File
    BY DEF TypeOK
  <2> QED
    BY <2>1, <2>3, <2>4 DEF RollbackSparesEarlierWork
<1>2. ASSUME entry' = entry, lost' = lost, named' \subseteq named
      PROVE  RollbackSparesEarlierWork'
  BY <1>2 DEF RollbackSparesEarlierWork
<1>3. ASSUME lost' = [f \in File |-> {}], named' \subseteq File
      PROVE  RollbackSparesEarlierWork'
  BY <1>3 DEF RollbackSparesEarlierWork
<1>4. UNCHANGED vars => UNCHANGED history
  BY DEF vars, history
<1>5. ASSUME NEW kind \in Kind, NEW declared \in BOOLEAN,
             NEW allowed \in Scopes(kind, declared), Begin(kind, declared, allowed)
      PROVE  RollbackSparesEarlierWork'
  <2>1. lost' = [f \in File |-> {}] /\ named' \subseteq File
    BY <1>5 DEF Begin
  <2> QED
    BY <1>3, <2>1
<1>6. UNCHANGED history => RollbackSparesEarlierWork'
  BY <1>2 DEF history
<1>7. Inspect => RollbackSparesEarlierWork'
  BY <1>2 DEF Inspect
<1> QED
  BY <1>1, <1>4, <1>5, <1>6, <1>7
     DEF Next, Capture, AgentWrites, Compare, OperatorEdits, Stages, PutsAway,
         CaptureFails, Ready, AgentThrows, AgentReturns, Decide, StartRollback, RolledBack,
         GitFails, Save, Crash

(* Without interference the lists of the transaction stay exact.           *)
LEMMA UndisturbedStep ==
    ASSUME TypeOK, Lists, Lines, Undisturbed, [Next]_vars
    PROVE  Undisturbed'
<1>0. /\ try \in TryType /\ tree \in [File -> Content] /\ entry \in [File -> Content]
      /\ Plain \subseteq File /\ Touched \subseteq File
  BY LayoutType DEF TypeOK, Touched
<1>1. env' = env
  BY DEF Next, vars, Begin, Capture, CaptureFails, AgentWrites, Compare, Restore,
         OperatorEdits, Stages, PutsAway, Ready, AgentThrows, AgentReturns, Inspect, Decide,
         StartRollback, RolledBack, GitFails, Save, Crash
<1>2. SUFFICES ASSUME Calm, Active'
               PROVE  Exact'
  BY <1>1 DEF Undisturbed, Calm
<1>3. Plain' = Plain
  BY <1>1 DEF Plain
<1>4. ASSUME NEW kind \in Kind, NEW declared \in BOOLEAN,
             NEW allowed \in Scopes(kind, declared), Begin(kind, declared, allowed)
      PROVE  Exact'
  <2>1. \/ try' = Ended("blocked")
        \/ allowed \cap Changed \subseteq owned /\ try' = Begun(declared, allowed)
    BY <1>4, BeginEffect, Zenon
  <2>2. tree' = tree /\ entry' = tree /\ owned' = owned /\ git' = git
    BY <1>4 DEF Begin
  <2>3. Touched' = {}
    BY <2>2 DEF Touched
  <2>4. try' # Ended("blocked")
    BY <1>2, EndedType DEF Active, Outcome
  <2>5. /\ try'.at = "capture" /\ try'.baseline = Changed /\ try'.allowed = allowed
        /\ try'.snaps = allowed \cap Changed /\ try'.todo = allowed \cap Changed
    BY <2>1, <2>4 DEF Begun, NoTry
  <2>6. Captured' = {}
    BY <2>5 DEF Captured
  <2>7. \A f \in Plain : tree[f] # {} \/ git[f] = "staged" => f \in Changed
    BY StatusLines
  <2> QED
    BY <1>3, <2>1, <2>2, <2>3, <2>4, <2>5, <2>6, <2>7 DEF Exact
<1>5. ASSUME NEW g \in File, NEW state \in {"untracked", "committed"},
             OperatorEdits(g) \/ Stages(g) \/ PutsAway(g, state)
      PROVE  Exact'
  <2>1. try' = try /\ GitTurn
    BY <1>5 DEF OperatorEdits, Stages, PutsAway, GitTurn
  <2>2. ~env.operator /\ ~env.strays
    BY <1>2 DEF Calm
  <2> QED
    BY <1>2, <2>1, <2>2 DEF GitTurn, OperatorTurn, Active
<1>6. ASSUME CaptureFails \/ RolledBack \/ GitFails \/ Save \/ Crash
      PROVE  Exact'
  <2>1. try'.at = "idle"
    BY <1>0, <1>6, EndedType
       DEF CaptureFails, RolledBack, GitFails, Save, Crash, TryType, Outcome
  <2> QED
    BY <1>2, <2>1 DEF Active
<1>7. Active => Exact
  BY <1>2 DEF Undisturbed
<1>8. ASSUME NEW g \in File, Capture(g)
      PROVE  Exact'
  <2>1. /\ try'.snap = [try.snap EXCEPT ![g] = tree[g]] /\ try'.at = "capture"
        /\ try'.snaps = try.snaps /\ try'.todo = try.todo \ {g} /\ try.at = "capture"
        /\ try'.allowed = try.allowed /\ try'.baseline = try.baseline
    BY <1>0, <1>8 DEF Capture, TryType
  <2>2. tree' = tree /\ entry' = entry /\ owned' = owned /\ git' = git
    BY <1>8 DEF Capture, history
  <2>3. Exact /\ Captured' \subseteq Captured \cup {g} /\ tree = entry /\ Touched' = {}
    BY <1>7, <2>1, <2>2 DEF Captured, Active, Exact, Touched
  <2>4. \A f \in Captured' : try'.snap[f] = entry'[f]
    <3>1. Captured \subseteq File
      BY <2>1 DEF Lines, Active
    <3> QED
      BY <1>0, <2>1, <2>2, <2>3, <3>1 DEF Exact, TryType
  <2> QED
    BY <1>3, <2>1, <2>2, <2>3, <2>4 DEF Exact
<1>9. ASSUME NEW g \in File, AgentWrites(g)
      PROVE  Exact'
  <2>1. /\ try' = try /\ entry' = entry /\ owned' = owned /\ try.at = "agent" /\ git' = git
        /\ \A f \in File \ {g} : tree'[f] = tree[f]
    BY <1>0, <1>9 DEF AgentWrites, history
  <2>2. g \notin Unseen
    BY <1>2, <1>9 DEF AgentWrites, Calm
  <2>3. Touched' \subseteq Touched \cup {g} /\ Captured' = Captured /\ Unseen' = Unseen
    BY <1>0, <1>3, <2>1 DEF Touched, Captured, Unseen
  <2> QED
    BY <1>3, <1>7, <2>1, <2>2, <2>3 DEF Exact, Active
<1>10. ASSUME \/ Ready \/ AgentThrows \/ \E o \in {"completed", "failed"} : AgentReturns(o)
              \/ StartRollback
       PROVE  Exact'
  <2>1. UNCHANGED <<tree, git, owned, entry>> /\ Active
    BY <1>10 DEF Ready, AgentThrows, AgentReturns, StartRollback, history, Active
  <2>2. /\ try'.snap = try.snap /\ try'.snaps = try.snaps
        /\ try'.allowed = try.allowed /\ try'.baseline = try.baseline
        /\ try.at = "capture" => try.todo = {}
        /\ try'.at \in {"agent", "inspect", "restore"}
        /\ try'.at = "restore" => try'.todo = try.modified /\ try.at = "compare" /\ try.todo = {}
    BY <1>0, <1>10 DEF Ready, AgentThrows, AgentReturns, StartRollback, TryType
  <2>3. Touched' = Touched /\ Captured' = Captured /\ Unseen' = Unseen
    BY <1>3, <2>1, <2>2 DEF Touched, Captured, Unseen
  <2> QED
    BY <1>3, <1>7, <2>1, <2>2, <2>3 DEF Exact
<1>11. ASSUME Inspect
       PROVE  Exact'
  <2>1. UNCHANGED <<tree, git, owned, entry>> /\ Active /\ try.at = "inspect"
    BY <1>11 DEF Inspect, Active
  <2>2. /\ try'.snap = try.snap /\ try'.snaps = try.snaps /\ try'.at = "compare"
        /\ try'.allowed = try.allowed /\ try'.baseline = try.baseline
        /\ try'.todo = try.snaps /\ try'.modified = Changed \ try.baseline
    BY <1>0, <1>11 DEF Inspect, TryType
  <2>3. Touched' = Touched /\ Captured' = Captured /\ Unseen' = Unseen
    BY <1>3, <2>1, <2>2 DEF Touched, Captured, Unseen
  <2>4. Exact /\ try.snaps \subseteq try.baseline
    BY <1>7, <2>1 DEF TypeOK, Active
  <2>5. ASSUME NEW f \in Plain
        PROVE  f \in Touched \ try.snaps <=> f \in Changed \ try.baseline
    <3>1. f \in Changed <=> tree[f] # {} \/ git[f] = "staged"
      BY StatusLines
    <3>2. CASE f \in try.baseline
      <4>1. f \in Touched => f \in try.allowed
        BY <1>0, <2>4, <3>2 DEF Exact, Unseen
      <4> QED
        BY <2>4, <3>2, <4>1 DEF Exact
    <3>3. CASE f \notin try.baseline
      <4>1. entry[f] = {} /\ git[f] # "staged" /\ f \notin try.snaps
        BY <2>4, <3>3 DEF Exact
      <4> QED
        BY <3>1, <3>3, <4>1 DEF Touched
    <3> QED
      BY <3>2, <3>3
  <2>6. try'.modified \cap Plain = Touched \ try.snaps
    BY <2>2, <2>5 DEF Touched
  <2> QED
    BY <1>3, <2>1, <2>2, <2>3, <2>4, <2>6 DEF Exact
<1>12. ASSUME NEW g \in File, Compare(g)
       PROVE  Exact'
  <2>1. /\ UNCHANGED <<tree, git, owned, entry>> /\ Active /\ try.at = "compare"
        /\ g \in try.todo /\ g \in try.snaps
    BY <1>12 DEF Compare, history, Active, Lists
  <2>2. /\ try'.snap = try.snap /\ try'.snaps = try.snaps /\ try'.at = "compare"
        /\ try'.allowed = try.allowed /\ try'.baseline = try.baseline
        /\ try'.todo = try.todo \ {g}
    BY <1>0, <1>12 DEF Compare, TryType
  <2>3. try'.modified = IF tree[g] = try.snap[g] THEN try.modified ELSE try.modified \cup {g}
    BY <1>0, <1>12 DEF Compare, TryType
  <2>4. /\ Touched' = Touched /\ Captured' = Captured /\ Unseen' = Unseen
        /\ Captured = try.snaps
    BY <1>3, <2>1, <2>2 DEF Touched, Captured, Unseen
  <2>5. /\ Exact /\ try.snap[g] = entry[g]
        /\ try.modified \cap Plain = Touched \ try.todo
    BY <1>7, <2>1, <2>4 DEF Exact
  <2>6. try'.modified \cap Plain = Touched \ try'.todo
    <3>1. CASE tree[g] = entry[g]
      BY <2>1, <2>2, <2>3, <2>5, <3>1 DEF Touched
    <3>2. CASE tree[g] # entry[g]
      BY <2>1, <2>2, <2>3, <2>5, <3>2 DEF Touched
    <3> QED
      BY <3>1, <3>2
  <2> QED
    BY <1>3, <2>1, <2>2, <2>4, <2>5, <2>6 DEF Exact
<1>13. ASSUME Decide
       PROVE  Exact'
  <2>1. /\ UNCHANGED <<tree, git, owned, entry>> /\ Active /\ try.at = "compare"
        /\ try.todo = {} /\ ~try.rollback /\ try' # Ended("blocked")
    BY <1>2, <1>13, EndedType DEF Decide, history, Active, Outcome
  <2>2. try.outcome \in {"completed", "failed"}
    BY <2>1 DEF Lists
  <2>3. \/ try' = [try EXCEPT !.at = "inspect", !.rollback = TRUE]
        \/ try' = [try EXCEPT !.at = "inspect", !.rollback = TRUE, !.outcome = "blocked"]
        \/ try' = [try EXCEPT !.at = "save"] /\ Unexpected = {}
    BY <1>13, <2>1, <2>2 DEF Decide
  <2>4. /\ try'.snap = try.snap /\ try'.snaps = try.snaps /\ try'.at \in {"inspect", "save"}
        /\ try'.allowed = try.allowed /\ try'.baseline = try.baseline
        /\ try'.modified = try.modified /\ try'.declared = try.declared
    BY <1>0, <2>3 DEF TryType
  <2>5. try'.at = "save" => Unexpected = {}
    BY <1>0, <2>3 DEF TryType
  <2>6. /\ Touched' = Touched /\ Captured' = Captured /\ Unseen' = Unseen
        /\ Unexpected' = Unexpected
    BY <1>3, <2>1, <2>4 DEF Touched, Captured, Unseen, Unexpected
  <2> QED
    BY <1>3, <1>7, <2>1, <2>4, <2>5, <2>6 DEF Exact
<1>14. ASSUME NEW l \in File \cup Folder, Restore(l)
       PROVE  Exact'
  <2>1. /\ entry' = entry /\ owned' = owned /\ Active /\ try.at = "restore"
        /\ l \in try.todo /\ tree' = [f \in File |-> Restored(l, f)]
        /\ \A f \in File : git'[f] = "staged" => git[f] = "staged"
    BY <1>14 DEF Restore, Active
  <2>2. /\ try'.snap = try.snap /\ try'.snaps = try.snaps /\ try'.at = "restore"
        /\ try'.allowed = try.allowed /\ try'.baseline = try.baseline
        /\ try'.todo = try.todo \ {l}
    BY <1>0, <1>14 DEF Restore, TryType
  <2>3. Exact /\ l \in try.modified
    BY <1>7, <2>1 DEF TypeOK
  <2>4. ASSUME NEW f \in Plain
        PROVE  tree'[f] = IF f = l THEN entry[f] ELSE tree[f]
    <3>1. f \in File /\ env.folder[f] \in env.kept
      BY <1>0 DEF Plain
    <3>2. l \notin env.kept
      BY <2>1, <2>3 DEF Lines
    <3>3. CASE f # l
      BY <2>1, <3>1, <3>2, <3>3, RestoredFiles
    <3>4. CASE f = l
      <4>1. Restored(l, f) = IF f \in try.snaps THEN try.snap[f] ELSE {}
        BY <3>1, <3>4, RestoredFiles
      <4>2. f \in try.snaps => try.snap[f] = entry[f]
        BY <2>1, <2>3 DEF Exact, Captured
      <4>3. f \notin try.snaps => entry[f] = {}
        BY <2>1, <2>3, <3>4 DEF Exact, TypeOK
      <4> QED
        BY <2>1, <3>1, <3>4, <4>1, <4>2, <4>3
    <3> QED
      BY <3>3, <3>4
  <2>5. Touched' = Touched \ {l}
    BY <1>0, <1>3, <2>1, <2>4 DEF Touched
  <2>6. Captured' = Captured /\ Unseen' = Unseen
    BY <2>1, <2>2 DEF Captured, Unseen
  <2> QED
    BY <1>0, <1>3, <2>1, <2>2, <2>3, <2>5, <2>6 DEF Exact
<1>15. ASSUME UNCHANGED vars
       PROVE  Exact'
  BY <1>2, <1>3, <1>7, <1>15
     DEF vars, Active, Exact, Touched, Captured, Unseen, Unexpected
<1> QED
  BY <1>4, <1>5, <1>6, <1>8, <1>9, <1>10, <1>11, <1>12, <1>13, <1>14, <1>15 DEF Next

-----------------------------------------------------------------------------
(* The inductive invariant holds at the start, and every step keeps it.    *)
LEMMA Inductive ==
    /\ Init => IInv
    /\ IInv /\ [Next]_vars => IInv'
<1>1. ASSUME Init PROVE IInv
  <2> USE BoundsAssumption
  <2>1. TypeOK
    BY <1>1 DEF Init, TypeOK, NoTry, TryType, Step, Outcome, Content, GitState
  <2>2. try.at = "idle" /\ Lists
    BY <1>1 DEF Init, NoTry, Lists, Active
  <2>3. Numbered /\ RollbackSparesEarlierWork
    BY <1>1 DEF Init, NoTry, Numbered, RollbackSparesEarlierWork
  <2> QED
    BY <2>1, <2>2, <2>3 DEF IInv, Lines, CopyKeeps, Undisturbed, Active
<1>2. ASSUME IInv, [Next]_vars PROVE IInv'
  BY <1>2, TypeStep, NumberedStep, LinesStep, CopyStep, SparesStep, UndisturbedStep DEF IInv
<1> QED
  BY <1>1, <1>2

LEMMA Invariance == Spec => []IInv
BY Inductive, PTL DEF Spec

(* Types, and the bookkeeping of the transaction: it knows which lines were *)
(* there when it began, and restores of those only what it has copies of.   *)
(* transactional-repository-edit.ts:begin, inspect, rollback.              *)
THEOREM TypeCorrect == Spec => []TypeOK
BY Invariance, PTL DEF IInv

(* However the operator, the agent, git and the server interfere, a         *)
(* rollback removes nothing the operator had in a file that git status      *)
(* named by itself when the attempt began and when it was inspected:        *)
(* transactional-repository-edit.ts:rollback.                              *)
THEOREM EarlierWorkSpared == Spec => []RollbackSparesEarlierWork
BY Invariance, PTL DEF IInv

-----------------------------------------------------------------------------
(* Refinement: what an attempt does until its record is saved, or until it  *)
(* has put everything back, is invisible; the save is Land.                *)
LEMMA VisibleStep ==
    ASSUME IInv, [Next]_vars
    PROVE  [Atomic!Next]_(Atomic!vars)
<1>0. /\ try \in TryType /\ tree \in [File -> Content] /\ entry \in [File -> Content]
      /\ env' = env /\ Plain \subseteq File /\ Plain' = Plain
  <2>1. env' = env
    BY DEF Next, vars, Begin, Capture, CaptureFails, AgentWrites, Compare, Restore,
           OperatorEdits, Stages, PutsAway, Ready, AgentThrows, AgentReturns, Inspect, Decide,
           StartRollback, RolledBack, GitFails, Save, Crash
  <2>2. Plain' = Plain
    BY <2>1 DEF Plain
  <2> QED
    BY <2>1, <2>2, LayoutType DEF IInv, TypeOK
<1>1. TypeOK' /\ VisibleScope' \in SUBSET File
  <2>1. TypeOK'
    BY TypeStep DEF IInv
  <2> QED
    BY <2>1 DEF VisibleScope
<1>2. ASSUME Visible' = Visible, VisibleOwned' = VisibleOwned
      PROVE  [Atomic!Next]_(Atomic!vars)
  BY <1>1, <1>2 DEF Atomic!Next, Atomic!Plan, Atomic!vars
<1>3. CASE ~Calm
  BY <1>0, <1>2, <1>3 DEF Calm, Visible, VisibleOwned
<1>4. CASE Calm
  <2>1. Calm'
    BY <1>0, <1>4 DEF Calm
  <2>2. /\ Visible = [f \in File |-> IF f \notin Plain THEN {}
                                    ELSE IF try.at = "idle" THEN tree[f] ELSE entry[f]]
        /\ Visible' = [f \in File |-> IF f \notin Plain THEN {}
                                     ELSE IF try'.at = "idle" THEN tree'[f] ELSE entry'[f]]
        /\ VisibleOwned = owned \cap Plain /\ VisibleOwned' = owned' \cap Plain
    BY <1>0, <1>4, <2>1 DEF Visible, VisibleOwned
  <2>3. Active => Exact
    BY <1>4 DEF IInv, Undisturbed
  <2>4. ASSUME NEW kind \in Kind, NEW declared \in BOOLEAN,
               NEW allowed \in Scopes(kind, declared), Begin(kind, declared, allowed)
        PROVE  Visible' = Visible /\ VisibleOwned' = VisibleOwned
    <3>1. owned' = owned /\ tree' = tree /\ entry' = tree /\ try.at = "idle"
      BY <2>4 DEF Begin
    <3> QED
      BY <2>2, <3>1
  <2>5. ASSUME owned' = owned, entry' = entry, Active, try'.at # "idle"
        PROVE  Visible' = Visible /\ VisibleOwned' = VisibleOwned
    BY <2>2, <2>5 DEF Active
  <2>6. ASSUME \/ \E f \in File : Capture(f) \/ AgentWrites(f) \/ Compare(f)
               \/ \E l \in File \cup Folder : Restore(l)
        PROVE  Visible' = Visible /\ VisibleOwned' = VisibleOwned
    <3>1. owned' = owned /\ entry' = entry /\ Active
      BY <2>6 DEF Capture, AgentWrites, Compare, Restore, history, Active
    <3>2. try'.at = try.at
      BY <1>0, <2>6 DEF Capture, AgentWrites, Compare, Restore, TryType
    <3> QED
      BY <2>5, <3>1, <3>2 DEF Active
  <2>7. ASSUME \/ Ready \/ AgentThrows \/ \E o \in {"completed", "failed"} : AgentReturns(o)
               \/ Inspect \/ StartRollback
        PROVE  Visible' = Visible /\ VisibleOwned' = VisibleOwned
    <3>1. owned' = owned /\ entry' = entry /\ Active
      BY <2>7 DEF Ready, AgentThrows, AgentReturns, Inspect, StartRollback, history, Active
    <3>2. try'.at # "idle"
      BY <1>0, <2>7 DEF Ready, AgentThrows, AgentReturns, Inspect, StartRollback, TryType
    <3> QED
      BY <2>5, <3>1, <3>2
  <2>8. ASSUME UNCHANGED <<tree, owned, entry>>, Active, try'.at = "idle", Touched = {}
        PROVE  Visible' = Visible /\ VisibleOwned' = VisibleOwned
    <3>1. \A f \in Plain : tree[f] = entry[f]
      BY <2>8 DEF Touched
    <3> QED
      BY <2>2, <2>8, <3>1 DEF Active
  <2>9. ASSUME Decide
        PROVE  Visible' = Visible /\ VisibleOwned' = VisibleOwned
    <3>1. /\ UNCHANGED <<tree, owned, entry>> /\ Active /\ try.at = "compare" /\ try.todo = {}
      BY <2>9 DEF Decide, history, Active
    <3>2. try' = Ended("blocked") => try.modified = {}
      <4>1. Ended("blocked").at = "idle"
        BY EndedType DEF Outcome
      <4>2. ASSUME try' = Ended("blocked"), try.modified # {}
            PROVE  FALSE
        <5>1. \/ try' = [try EXCEPT !.at = "inspect", !.rollback = TRUE]
              \/ try' = [try EXCEPT !.at = "inspect", !.rollback = TRUE, !.outcome = "blocked"]
              \/ try' = [try EXCEPT !.at = "save"]
          BY <2>9, <4>2 DEF Decide
        <5>2. try'.at # "idle"
          BY <1>0, <5>1 DEF TryType
        <5> QED
          BY <4>1, <4>2, <5>2
      <4> QED
        BY <4>2
    <3>3. \/ try' = Ended("blocked")
          \/ try' = [try EXCEPT !.at = "inspect", !.rollback = TRUE]
          \/ try' = [try EXCEPT !.at = "inspect", !.rollback = TRUE, !.outcome = "blocked"]
          \/ try' = [try EXCEPT !.at = "save"]
      BY <2>9 DEF Decide
    <3>4. try'.at = "idle" => try' = Ended("blocked")
      BY <1>0, <3>3 DEF TryType
    <3>5. try'.at = "idle" => Touched = {}
      BY <2>3, <3>1, <3>2, <3>4 DEF Exact
    <3> QED
      BY <2>5, <2>8, <3>1, <3>5
  <2>10. ASSUME RolledBack
         PROVE  Visible' = Visible /\ VisibleOwned' = VisibleOwned
    <3>1. /\ UNCHANGED <<tree, owned, entry>> /\ Active /\ try.at = "restore" /\ try.todo = {}
      BY <2>10 DEF RolledBack, history, Active
    <3>2. Touched = {}
      BY <2>3, <3>1 DEF Exact
    <3> QED
      BY <2>5, <2>8, <3>1, <3>2
  <2>11. ASSUME CaptureFails
         PROVE  Visible' = Visible /\ VisibleOwned' = VisibleOwned
    <3>1. /\ UNCHANGED <<tree, owned, entry>> /\ Active /\ try.at = "capture"
      BY <2>11 DEF CaptureFails, history, Active
    <3>2. Touched = {}
      BY <2>3, <3>1 DEF Exact, Touched
    <3> QED
      BY <2>5, <2>8, <3>1, <3>2
  <2>12. ASSUME Save
         PROVE  [Atomic!Next]_(Atomic!vars)
    <3>1. /\ UNCHANGED <<tree, entry>> /\ Active /\ try.at = "save" /\ Exact
          /\ owned' = owned \cup try.modified /\ try' = Ended("completed")
      BY <2>3, <2>12 DEF Save, history, Active
    <3>2. try'.at = "idle" /\ try'.declared = FALSE
      BY <3>1 DEF Ended, NoTry
    <3>3. /\ \A f \in Plain : Visible[f] = entry[f] /\ Visible'[f] = tree[f]
          /\ \A f \in File \ Plain : Visible[f] = {} /\ Visible'[f] = {}
      BY <1>0, <2>2, <3>1, <3>2
    <3>4. Touched = try.modified \cap Plain /\ Unexpected = {}
      BY <3>1 DEF Exact
    <3>5. Atomic!Differ = Touched
      BY <1>0, <3>3 DEF Atomic!Differ, Touched
    <3>6. Touched \subseteq VisibleScope
      BY <1>0, <1>4, <3>4 DEF VisibleScope, Unexpected
    <3>7. \A f \in Touched : entry[f] = {} \/ f \in owned
      BY <1>0, <3>1 DEF Exact, Touched, Unseen
    <3>8. VisibleOwned' = VisibleOwned \cup Touched
      BY <2>2, <3>1, <3>4
    <3>9. VisibleScope' = File
      BY <3>2 DEF VisibleScope
    <3>10. Visible' \in [File -> SUBSET Mark]
      BY <1>0, <2>2, <3>1 DEF Content
    <3>11. \A f \in Touched : Visible[f] = {} \/ f \in VisibleOwned
      BY <2>2, <3>3, <3>4, <3>7
    <3>12. CASE Touched = {}
      <4>1. Visible' = Visible
        BY <2>2, <3>1, <3>2, <3>12 DEF Touched
      <4> QED
        BY <1>2, <3>8, <3>12, <4>1
    <3>13. CASE Touched # {}
      BY <3>5, <3>6, <3>8, <3>9, <3>10, <3>11, <3>13 DEF Atomic!Next, Atomic!Land
    <3> QED
      BY <3>12, <3>13
  <2>13. ASSUME NEW g \in File, NEW state \in {"untracked", "committed"},
                OperatorEdits(g) \/ Stages(g) \/ PutsAway(g, state)
         PROVE  [Atomic!Next]_(Atomic!vars)
    <3>1. UNCHANGED <<owned, try, entry>> /\ GitTurn
      BY <2>13 DEF OperatorEdits, Stages, PutsAway, GitTurn, history
    <3>2. try.at = "idle"
      BY <1>4, <3>1 DEF GitTurn, OperatorTurn, Calm
    <3>3. tree' = [tree EXCEPT ![g] = tree'[g]] /\ tree'[g] \in SUBSET Mark
      BY <1>0, <1>1, <2>13 DEF OperatorEdits, Stages, PutsAway, TypeOK, Content
    <3>4. VisibleScope' = VisibleScope
      BY <1>4, <2>1, <3>1 DEF VisibleScope
    <3>5. /\ Visible = [f \in File |-> IF f \notin Plain THEN {} ELSE tree[f]]
          /\ Visible' = [f \in File |-> IF f \notin Plain THEN {} ELSE tree'[f]]
          /\ VisibleOwned' = VisibleOwned
      BY <2>2, <3>1, <3>2
    <3>6. Visible' = [Visible EXCEPT ![g] = Visible'[g]] /\ Visible'[g] \in SUBSET Mark
      BY <1>0, <3>3, <3>5
    <3>7. Atomic!Operator(g)
      BY <3>4, <3>5, <3>6 DEF Atomic!Operator
    <3> QED
      BY <3>7 DEF Atomic!Next
  <2>14. ~GitFails /\ ~Crash
    BY <1>4 DEF GitFails, Crash, Calm
  <2>15. CASE UNCHANGED vars
    BY <1>2, <2>2, <2>15 DEF vars
  <2> QED
    BY <1>2, <2>4, <2>6, <2>7, <2>9, <2>10, <2>11, <2>12, <2>13, <2>14, <2>15 DEF Next
<1> QED
  BY <1>3, <1>4

(* An attempt nobody interferes with changes plain files of its scope all   *)
(* at once or none, and leaves foreign work in them alone:                  *)
(* agent-loop-edit-executor.ts:execute implements AtomicEdit.              *)
THEOREM EditIsAtomic == Spec => ImplementsAtomic
<1>1. Init => Atomic!Init
  BY DEF Init, NoTry, Atomic!Init, Visible, VisibleOwned, VisibleScope
<1> QED
  BY <1>1, Inductive, VisibleStep, PTL DEF Spec, ImplementsAtomic, Atomic!Spec
=============================================================================
