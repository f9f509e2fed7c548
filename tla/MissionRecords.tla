---------------------------- MODULE MissionRecords ----------------------------
(***************************************************************************)
(* The record of a mission, its event log, and those who write them: the   *)
(* operator's browser tabs, which send the revision they loaded with all   *)
(* but their reports, and agent turns, which send none:                    *)
(*   src/src/mission/mission-service.ts, mission-store.ts, mission-events.ts *)
(*   src/src/app/api/mission-routes.ts                 (the tabs' requests)  *)
(*   src/src/server/symbolwright-chat-server.ts, handleAgent      (the turns)  *)
(*                                                                         *)
(* Only the server writes records, and a method of the service has no      *)
(* await: reading the record, replacing it and appending its event is one  *)
(* step for the other requests.  It is three for the disk: a write that    *)
(* fails may leave the record replaced and the event out, and a crash is   *)
(* such a failure followed by Crash.  A turn and a switch of the branch    *)
(* await between their methods.  Mission creation and the index are in     *)
(* WorkspaceRetention.                                                     *)
(***************************************************************************)
EXTENDS Integers, Sequences, FiniteSets

CONSTANTS
    Tab,          \* browser tabs of the operator
    Turn,         \* agent turns of the mission, each run once
    MaxTools,     \* tool calls of a turn
    MaxRevision,  \* bound: tabs change nothing at this revision
    Fault,        \* what may go wrong: "io", "crash"
    Gone,         \* the record of a deleted mission
    Nothing       \* what a tab that has loaded nothing has seen

ASSUME BoundsAssumption == MaxTools \in Nat /\ MaxRevision \in Nat

Op == Turn \X (1..MaxTools)                   \* tool calls, by toolCallId
MissionStatus == {"ACTIVE", "PAUSED", "COMPLETED", "ABANDONED"}
Message == Turn \X {"user", "reply"}
Branch == Tab \cup {"main"}                   \* the branch a tab wrote last

(* SymbolWrightMission; branch stands for all that a PATCH may set. *)
Record == [revision : Nat, status : MissionStatus, branch : Branch,
           messages : SUBSET Message, tools : [Op -> {"none", "running", "ended"}]]

ASSUME AbsentAssumption == Gone \notin Record /\ Nothing \notin Record \cup {Gone}

VARIABLES
    rec,      \* mission.json
    log,      \* events.jsonl: op -> the types of its events, in order
    turn,     \* the locals of each turn
    switch,   \* tab -> recordedBranch while its switchToRecordedBranch runs
    seen      \* tab -> the mission it was sent last

vars == <<rec, log, turn, switch, seen>>

TurnStep == {"new", "admitted", "stream", "tools", "done"}
Idle == ""                                    \* no switch in progress

Init ==
    /\ rec = [revision |-> 1, status |-> "ACTIVE", branch |-> "main",
              messages |-> {}, tools |-> [o \in Op |-> "none"]]
    /\ log = [o \in Op |-> <<>>]
    /\ turn = [t \in Turn |-> [at |-> "new", prior |-> {}, started |-> 0, ended |-> 0]]
    /\ switch = [c \in Tab |-> Idle]
    /\ seen = [c \in Tab |-> Nothing]

-----------------------------------------------------------------------------
(* MissionService.update and updateLatest: the next revision of a record. *)
Revised(r) == [r EXCEPT !.revision = @ + 1]

Logged(o, type) == [log EXCEPT ![o] = Append(@, type)]

(* Mutant: the writes of a turn keep the revision they found. *)
MutPersist(new, newLog) ==
    IF rec = Gone THEN UNCHANGED <<rec, log>>
    ELSE rec' = [new EXCEPT !.revision = rec.revision] /\ log' = newLog

(* Mutant: the event is appended before the record is replaced. *)
MutPersistLogFirst(new, newLog) ==
    IF rec = Gone THEN UNCHANGED <<rec, log>>
    ELSE \/ rec' = new /\ log' = newLog
         \/ "io" \in Fault /\ rec' = rec /\ log' \in {log, newLog}

(* What handleAgent's persist() makes of a write: it is done, or fails     *)
(* before or after the record was replaced, or there is no mission; the    *)
(* turn goes on in any case.                                               *)
Persist(new, newLog) ==
    IF rec = Gone THEN UNCHANGED <<rec, log>>
    ELSE \/ rec' = new /\ log' = newLog
         \/ "io" \in Fault /\ rec' \in {rec, new} /\ log' = log

SetTurn(t, x) == turn' = [turn EXCEPT ![t] = x]

(* The mission is read and its status looked at; the conversation the turn *)
(* will continue is the one read here.                                     *)
Admit(t) ==
    /\ turn[t].at = "new"
    /\ rec # Gone /\ rec.status = "ACTIVE"
    /\ SetTurn(t, [turn[t] EXCEPT !.at = "admitted", !.prior = rec.messages])
    /\ UNCHANGED <<rec, log, switch, seen>>

(* recordAgentUserMessage, after an await; then the provider pool may      *)
(* refuse the turn.                                                        *)
Begin(t) ==
    /\ turn[t].at = "admitted"
    /\ Persist(Revised([rec EXCEPT !.messages = @ \cup {<<t, "user">>}]), log)
    /\ \E at \in {"stream", "done"} : SetTurn(t, [turn[t] EXCEPT !.at = at])
    /\ UNCHANGED <<switch, seen>>

(* tool_use_start in the provider's stream: recordToolStarted. *)
ToolStarted(t) ==
    LET o == <<t, turn[t].started + 1>> IN
    /\ turn[t].at = "stream" /\ turn[t].started < MaxTools
    /\ Persist(Revised([rec EXCEPT !.tools[o] = "running"]), Logged(o, "started"))
    /\ SetTurn(t, [turn[t] EXCEPT !.started = @ + 1])
    /\ UNCHANGED <<switch, seen>>

(* The stream ends with tool calls, which are executed one by one. *)
StreamEnds(t) ==
    /\ turn[t].at = "stream" /\ turn[t].ended < turn[t].started
    /\ SetTurn(t, [turn[t] EXCEPT !.at = "tools"])
    /\ UNCHANGED <<rec, log, switch, seen>>

(* recordToolCompleted changes an entry that recordToolStarted made; after *)
(* the last call the loop streams again.                                   *)
Ended(o) == [rec EXCEPT !.tools[o] = IF @ = "running" THEN "ended" ELSE @]

ToolEnded(t) ==
    LET o == <<t, turn[t].ended + 1>> IN
    /\ turn[t].at = "tools"
    /\ Persist(Revised(Ended(o)), Logged(o, "completed"))
    /\ SetTurn(t, [turn[t] EXCEPT !.ended = @ + 1,
                     !.at = IF turn[t].ended + 1 = turn[t].started THEN "stream" ELSE "tools"])
    /\ UNCHANGED <<switch, seen>>

(* persistResult: recordAgentResult replaces the conversation with         *)
(* finalMessages, the one the turn began with and its own messages; then   *)
(* recordUsage.  A turn that fails in the stream, is out of budget or out  *)
(* of iterations has no reply.                                             *)
Result(t, r, reply) ==
    Revised([r EXCEPT !.messages = turn[t].prior \cup {<<t, "user">>} \cup reply])

Finish(t) ==
    /\ turn[t].at = "stream"
    /\ \E reply \in {{}, {<<t, "reply">>}} :
          /\ reply # {} => turn[t].ended = turn[t].started
          /\ IF rec = Gone THEN rec' = Gone
             ELSE \/ rec' = Revised(Result(t, rec, reply))
                  \/ "io" \in Fault /\ rec' \in {rec, Result(t, rec, reply), Revised(rec)}
    /\ SetTurn(t, [turn[t] EXCEPT !.at = "done"])
    /\ UNCHANGED <<log, switch, seen>>

-----------------------------------------------------------------------------
(* The tabs.  A request may arrive any time after the load its revision is *)
(* from.                                                                   *)

(* GET, or the 409 that answers a stale revision: both carry the mission. *)
Load(c) ==
    /\ rec # Gone /\ switch[c] = Idle
    /\ seen' = [seen EXCEPT ![c] = rec]
    /\ UNCHANGED <<rec, log, turn, switch>>

Checked(c) ==
    /\ rec # Gone /\ seen[c] \notin {Gone, Nothing} /\ switch[c] = Idle
    /\ seen[c].revision = rec.revision

Bounded == rec.revision < MaxRevision

(* The service saves and the route answers with what it saved; or a write  *)
(* fails, and the answer is an error.                                      *)
Answer(c, new) ==
    \/ rec' = new /\ seen' = [seen EXCEPT ![c] = new]
    \/ "io" \in Fault /\ rec' \in {rec, new} /\ UNCHANGED seen

(* patch and attachScratchWorkspace look at no status. *)
Patch(c) ==
    /\ Checked(c) /\ Bounded
    /\ Answer(c, Revised([rec EXCEPT !.branch = c]))
    /\ UNCHANGED <<log, turn, switch>>

(* handleRecordAction and checkpoint-label: what a tab reports (a file      *)
(* opened or saved, a branch, a commit, a checkpoint, a validation) revises *)
(* whatever the mission is now, in any status; no revision is sent.  The    *)
(* answer carries the mission, as a Load.                                   *)
Reported(c) == {Revised(rec), Revised([rec EXCEPT !.branch = c])}

Report(c) ==
    /\ rec # Gone /\ Bounded
    /\ rec' \in Reported(c)
    /\ UNCHANGED <<log, turn, switch, seen>>

(* transition: pause, complete, abandon *)
Transition(c, status) ==
    /\ Checked(c) /\ Bounded
    /\ rec.status \notin {"COMPLETED", "ABANDONED"}
    /\ Answer(c, Revised([rec EXCEPT !.status = status]))
    /\ UNCHANGED <<log, turn, switch>>

ReopenCompleted(c) ==
    /\ Checked(c) /\ Bounded /\ rec.status = "COMPLETED"
    /\ Answer(c, Revised([rec EXCEPT !.status = "ACTIVE"]))
    /\ UNCHANGED <<log, turn, switch>>

(* recoverInterruptedMissionEvents: what was started and has no terminal   *)
(* event.  Appending the events stops at the first that fails.             *)
Pending == {o \in Op : log[o] # <<>> /\ log[o][Len(log[o])] = "started"}
Interrupted(ops) ==
    [o \in Op |-> IF o \in ops THEN Append(log[o], "interrupted") ELSE log[o]]

(* resume appends the interruptions before it looks at the revision. *)
Resume(c) ==
    /\ Checked(c) /\ Bounded /\ rec.status = "PAUSED"
    /\ \/ log' = Interrupted(Pending) /\ Answer(c, Revised([rec EXCEPT !.status = "ACTIVE"]))
       \/ /\ "io" \in Fault
          /\ \E ops \in SUBSET Pending : log' = Interrupted(ops)
          /\ UNCHANGED <<rec, seen>>
    /\ UNCHANGED <<turn, switch>>

ResumeStale(c) ==
    /\ rec # Gone /\ rec.status = "PAUSED" /\ switch[c] = Idle
    /\ seen[c] \notin {Gone, Nothing} /\ seen[c].revision # rec.revision
    /\ log' = Interrupted(Pending)
    /\ seen' = [seen EXCEPT ![c] = rec]
    /\ UNCHANGED <<rec, turn, switch>>

(* delete: the directory with the record and the log; a removal that fails *)
(* may leave either.                                                       *)
Delete(c) ==
    /\ Checked(c)
    /\ \/ /\ rec' = Gone /\ log' = [o \in Op |-> <<>>]
          /\ seen' = [seen EXCEPT ![c] = Gone]
       \/ /\ "io" \in Fault /\ rec' \in {rec, Gone} /\ log' \in {log, [o \in Op |-> <<>>]}
          /\ UNCHANGED seen
    /\ UNCHANGED <<turn, switch>>

(* switchToRecordedBranch looks at the revision, awaits four git commands, *)
(* and records the branch it read at first in whatever the mission is now. *)
SwitchBegins(c) ==
    /\ Checked(c) /\ Bounded
    /\ switch' = [switch EXCEPT ![c] = rec.branch]
    /\ UNCHANGED <<rec, log, turn, seen>>

SwitchEnds(c) ==
    /\ switch[c] # Idle
    /\ \/ rec # Gone /\ Answer(c, Revised([rec EXCEPT !.branch = switch[c]]))
       \/ UNCHANGED <<rec, seen>>             \* git fails, or there is no mission
    /\ switch' = [switch EXCEPT ![c] = Idle]
    /\ UNCHANGED <<log, turn>>

(* The server dies: its turns and requests are gone, the tabs are not. *)
Crash ==
    /\ "crash" \in Fault
    /\ \E t \in Turn : turn[t].at \notin {"new", "done"}
    /\ turn' = [t \in Turn |-> IF turn[t].at = "new" THEN turn[t]
                               ELSE [turn[t] EXCEPT !.at = "done"]]
    /\ switch' = [c \in Tab |-> Idle]
    /\ UNCHANGED <<rec, log, seen>>

TurnNext(t) == \/ Admit(t) \/ Begin(t) \/ ToolStarted(t) \/ StreamEnds(t)
               \/ ToolEnded(t) \/ Finish(t)
TabNext(c) == \/ Load(c) \/ Patch(c) \/ Report(c)
              \/ \E s \in MissionStatus \ {"ACTIVE"} : Transition(c, s)
              \/ ReopenCompleted(c) \/ Resume(c) \/ ResumeStale(c)
              \/ Delete(c) \/ SwitchBegins(c) \/ SwitchEnds(c)

Next == \/ \E t \in Turn : TurnNext(t)
        \/ \E c \in Tab : TabNext(c)
        \/ Crash
Spec == Init /\ [][Next]_vars

-----------------------------------------------------------------------------
TurnType == [at : TurnStep, prior : SUBSET Message,
             started : 0..MaxTools, ended : 0..MaxTools]

TypeOK ==
    /\ rec \in Record \cup {Gone}
    /\ log \in [Op -> Seq({"started", "completed", "interrupted"})]
    /\ turn \in [Turn -> TurnType]
    /\ switch \in [Tab -> Branch \cup {Idle}]
    /\ seen \in [Tab -> Record \cup {Gone, Nothing}]

(* A tab that is answered that its change was made has changed the mission *)
(* it had seen: nothing that a turn or another tab wrote in between is     *)
(* behind it.  This is promised to requests that send a revision: a report *)
(* sends none, and the switch of a branch, excepted here, looks at its     *)
(* revision before its git commands.                                       *)
NoSilentOverwrite ==
    [][\A c \in Tab : (rec' # rec /\ seen'[c] = rec' /\ switch[c] = Idle) => seen[c] = rec]_vars

(* The log does not run ahead of the record, whatever write fails and      *)
(* wherever the server dies: an operation it calls started is in the       *)
(* evidence, and one it calls completed is not shown as running.           *)
LogFollowsRecord ==
    rec # Gone =>
        \A o \in Op : \A i \in DOMAIN log[o] :
            /\ log[o][i] = "started" => rec.tools[o] # "none"
            /\ log[o][i] = "completed" => rec.tools[o] # "running"
=============================================================================
