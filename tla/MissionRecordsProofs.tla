------------------------- MODULE MissionRecordsProofs -------------------------
(***************************************************************************)
(* For any tabs, turns, number of tool calls and faults: what a tab        *)
(* changes with its revision is what it has seen, and the event log never  *)
(* runs ahead of the record.                                               *)
(*                                                                         *)
(* A revision identifies a state of the record (SeenIsPast): a tab has seen *)
(* the record as it is, or one with a smaller revision, because every      *)
(* replacement of the record has a greater one (RecordStep).  The log of   *)
(* a tool call is empty until the call is started (LogIsNumbered), so a    *)
(* start never follows a completion.                                       *)
(***************************************************************************)
EXTENDS MissionRecords, TLAPS

(* A turn that executes tools has one to execute. *)
ToolsLeft == \A t \in Turn : turn[t].at = "tools" => turn[t].ended < turn[t].started

SeenIsPast ==
    rec # Gone =>
        \A c \in Tab :
            /\ seen[c] # Gone
            /\ seen[c] # Nothing => /\ seen[c].revision <= rec.revision
                                    /\ seen[c].revision = rec.revision => seen[c] = rec

LogIsNumbered ==
    \A t \in Turn : \A i \in 1..MaxTools : i > turn[t].started => log[<<t, i>>] = <<>>

IInv == TypeOK /\ ToolsLeft /\ SeenIsPast /\ LogIsNumbered /\ LogFollowsRecord

-----------------------------------------------------------------------------
LEMMA RevisedRecord ==
    ASSUME NEW r \in Record
    PROVE  /\ Revised(r) \in Record
           /\ Revised(r).revision = r.revision + 1
           /\ Revised(r).tools = r.tools
           /\ Revised(r).revision > r.revision
  BY DEF Revised, Record

LEMMA EndedRecord ==
    ASSUME rec \in Record, NEW o \in Op
    PROVE  /\ Ended(o) \in Record /\ Ended(o).revision = rec.revision
           /\ \A p \in Op : Ended(o).tools[p] = IF p = o /\ rec.tools[p] = "running"
                                                THEN "ended" ELSE rec.tools[p]
  BY DEF Ended, Record

(* The next revision of a record that is not the mission's last. *)
Newer(r) == r \in Record /\ r.revision > rec.revision

(* The two forms of a step: the record stays and tabs may see it, or it is *)
(* replaced by a newer one or by none and tabs may see that.               *)
Stays == rec' = rec /\ \A c \in Tab : seen'[c] \in {seen[c], rec}
Replaced == /\ rec # Gone /\ (Newer(rec') \/ rec' = Gone)
            /\ \A c \in Tab : seen'[c] \in {seen[c], rec'}

LEMMA IsRecord == TypeOK /\ rec # Gone => rec \in Record
  BY DEF TypeOK

(* A revised mutation of the record is newer. *)
LEMMA RevisedIsNewer ==
    ASSUME rec \in Record, NEW r \in Record, r.revision >= rec.revision
    PROVE  Newer(Revised(r))
<1>1. Revised(r) \in Record /\ Revised(r).revision = r.revision + 1
  BY RevisedRecord
<1>2. r.revision \in Int /\ rec.revision \in Int
  BY DEF Record
<1> QED BY <1>1, <1>2 DEF Newer

LEMMA NewerRevised ==
    ASSUME rec \in Record, NEW r, Newer(r)
    PROVE  Newer(Revised(r))
<1>1. r \in Record /\ r.revision >= rec.revision
  BY DEF Newer, Record
<1> QED BY <1>1, RevisedIsNewer

LEMMA PersistStep ==
    ASSUME TypeOK, NEW new, NEW newLog, Persist(new, newLog), rec # Gone => Newer(new)
    PROVE  rec' = rec \/ (rec # Gone /\ Newer(rec'))
  BY DEF Persist

LEMMA AnswerStep ==
    ASSUME TypeOK, rec # Gone, NEW c \in Tab, NEW new, Newer(new), Answer(c, new)
    PROVE  Stays \/ Replaced
  BY DEF Answer, Stays, Replaced, Newer, TypeOK

(* Every step lets the record stay or replaces it by a newer one. *)
LEMMA RecordStep ==
    ASSUME TypeOK, ToolsLeft, Next
    PROVE  Stays \/ Replaced
<1> USE DEF Message, Branch
<1>1. ASSUME NEW t \in Turn, TurnNext(t) PROVE Stays \/ Replaced
  <2>0. turn[t] \in TurnType
    BY DEF TypeOK
  <2>1. CASE Admit(t)
    BY <2>1 DEF Admit, Stays
  <2>2. CASE Begin(t)
    <3>1. ASSUME rec # Gone PROVE Newer(Revised([rec EXCEPT !.messages = @ \cup {<<t, "user">>}]))
      <4>1. rec \in Record /\ rec.messages \cup {<<t, "user">>} \in SUBSET Message
        BY <3>1, IsRecord DEF Record
      <4>2. [rec EXCEPT !.messages = @ \cup {<<t, "user">>}] \in Record
            /\ [rec EXCEPT !.messages = @ \cup {<<t, "user">>}].revision = rec.revision
        BY <4>1 DEF Record
      <4> QED BY <4>1, <4>2, RevisedIsNewer DEF Record
    <3>2. rec' = rec \/ (rec # Gone /\ Newer(rec'))
      BY <2>2, <3>1, PersistStep DEF Begin
    <3> QED BY <2>2, <3>2 DEF Begin, Stays, Replaced
  <2>3. CASE ToolStarted(t)
    <3> DEFINE o == <<t, turn[t].started + 1>>
    <3>0. o \in Op
      BY <2>0, <2>3, BoundsAssumption DEF ToolStarted, TurnType, Op
    <3>1. ASSUME rec # Gone PROVE Newer(Revised([rec EXCEPT !.tools[o] = "running"]))
      <4>1. rec \in Record
        BY <3>1, IsRecord
      <4>2. [rec EXCEPT !.tools[o] = "running"] \in Record
            /\ [rec EXCEPT !.tools[o] = "running"].revision = rec.revision
        BY <4>1, <3>0 DEF Record
      <4> QED BY <4>1, <4>2, RevisedIsNewer DEF Record
    <3>2. rec' = rec \/ (rec # Gone /\ Newer(rec'))
      BY <2>3, <3>1, PersistStep DEF ToolStarted
    <3> QED BY <2>3, <3>2 DEF ToolStarted, Stays, Replaced
  <2>4. CASE StreamEnds(t)
    BY <2>4 DEF StreamEnds, Stays
  <2>5. CASE ToolEnded(t)
    <3> DEFINE o == <<t, turn[t].ended + 1>>
    <3>0. o \in Op
      BY <2>0, <2>5, BoundsAssumption DEF ToolEnded, TurnType, Op, ToolsLeft
    <3>1. ASSUME rec # Gone PROVE Newer(Revised(Ended(o)))
      BY <3>0, <3>1, IsRecord, EndedRecord, RevisedIsNewer DEF Record
    <3>2. rec' = rec \/ (rec # Gone /\ Newer(rec'))
      BY <2>5, <3>1, PersistStep DEF ToolEnded
    <3> QED BY <2>5, <3>2 DEF ToolEnded, Stays, Replaced
  <2>6. CASE Finish(t)
    <3>1. PICK reply \in {{}, {<<t, "reply">>}} :
             IF rec = Gone THEN rec' = Gone
             ELSE \/ rec' = Revised(Result(t, rec, reply))
                  \/ "io" \in Fault /\ rec' \in {rec, Result(t, rec, reply), Revised(rec)}
      BY <2>6 DEF Finish
    <3>2. seen' = seen
      BY <2>6 DEF Finish
    <3>3. CASE rec = Gone
      BY <3>1, <3>2, <3>3 DEF Stays
    <3>4. CASE rec # Gone
      <4> DEFINE r == [rec EXCEPT !.messages = turn[t].prior \cup {<<t, "user">>} \cup reply]
      <4>1. rec \in Record
        BY <3>4, IsRecord
      <4>2. r \in Record /\ r.revision = rec.revision
        BY <4>1, <2>0 DEF Record, TurnType
      <4>3. Newer(Revised(r))
        BY <4>1, <4>2, RevisedIsNewer DEF Record
      <4>4. Result(t, rec, reply) = Revised(r)
        BY DEF Result
      <4>5. Newer(Revised(Revised(r)))
        BY <4>1, <4>3, NewerRevised
      <4>6. Newer(Revised(rec))
        BY <4>1, RevisedIsNewer DEF Record
      <4>7. rec' = rec \/ Newer(rec')
        BY <3>1, <3>4, <4>3, <4>4, <4>5, <4>6
      <4> QED BY <3>2, <3>4, <4>7 DEF Stays, Replaced
    <3> QED BY <3>3, <3>4
  <2> QED BY <1>1, <2>1, <2>2, <2>3, <2>4, <2>5, <2>6 DEF TurnNext
<1>2. ASSUME NEW c \in Tab, TabNext(c) PROVE Stays \/ Replaced
  <2>0. rec # Gone => /\ Newer(Revised(rec))
                      /\ \A b \in Branch : Newer(Revised([rec EXCEPT !.branch = b]))
                      /\ \A s \in MissionStatus : Newer(Revised([rec EXCEPT !.status = s]))
    <3> SUFFICES ASSUME rec # Gone
                 PROVE  /\ Newer(Revised(rec))
                        /\ \A b \in Branch : Newer(Revised([rec EXCEPT !.branch = b]))
                        /\ \A s \in MissionStatus : Newer(Revised([rec EXCEPT !.status = s]))
      OBVIOUS
    <3>1. rec \in Record /\ rec.revision \in Nat
      BY IsRecord DEF Record
    <3>2. \A b \in Branch : [rec EXCEPT !.branch = b] \in Record
                            /\ [rec EXCEPT !.branch = b].revision >= rec.revision
      BY <3>1 DEF Record
    <3>3. \A s \in MissionStatus : [rec EXCEPT !.status = s] \in Record
                                   /\ [rec EXCEPT !.status = s].revision >= rec.revision
      BY <3>1 DEF Record
    <3>4. Newer(Revised(rec))
      BY <3>1, RevisedIsNewer
    <3>5. ASSUME NEW b \in Branch PROVE Newer(Revised([rec EXCEPT !.branch = b]))
      BY <3>1, <3>2, RevisedIsNewer
    <3>6. ASSUME NEW s \in MissionStatus PROVE Newer(Revised([rec EXCEPT !.status = s]))
      BY <3>1, <3>3, RevisedIsNewer
    <3> QED BY <3>4, <3>5, <3>6
  <2>1. CASE Load(c)
    BY <2>1 DEF Load, Stays, TypeOK
  <2>2. CASE Patch(c)
    BY <2>0, <2>2, AnswerStep DEF Patch, Checked
  <2>3. CASE Report(c)
    BY <2>0, <2>3 DEF Report, Reported, Replaced
  <2>4. ASSUME NEW s \in MissionStatus \ {"ACTIVE"}, Transition(c, s) PROVE Stays \/ Replaced
    BY <2>0, <2>4, AnswerStep DEF Transition, Checked
  <2>5. CASE ReopenCompleted(c)
    BY <2>0, <2>5, AnswerStep DEF ReopenCompleted, Checked, MissionStatus
  <2>6. CASE Resume(c)
    <3>1. rec # Gone /\ Newer(Revised([rec EXCEPT !.status = "ACTIVE"]))
      BY <2>0, <2>6 DEF Resume, Checked, MissionStatus
    <3>2. Answer(c, Revised([rec EXCEPT !.status = "ACTIVE"])) \/ (rec' = rec /\ seen' = seen)
      BY <2>6 DEF Resume
    <3> QED BY <3>1, <3>2, AnswerStep DEF Stays
  <2>7. CASE ResumeStale(c)
    BY <2>7 DEF ResumeStale, Stays, TypeOK
  <2>8. CASE Delete(c)
    <3>1. rec # Gone /\ rec' \in {rec, Gone} /\ \A d \in Tab : seen'[d] \in {seen[d], rec'}
      BY <2>8 DEF Delete, Checked, TypeOK
    <3> QED BY <3>1 DEF Stays, Replaced
  <2>9. CASE SwitchBegins(c)
    BY <2>9 DEF SwitchBegins, Stays
  <2>10. CASE SwitchEnds(c)
    <3>1. CASE rec # Gone /\ Answer(c, Revised([rec EXCEPT !.branch = switch[c]]))
      <4>1. switch[c] \in Branch
        BY <2>10 DEF SwitchEnds, TypeOK
      <4> QED BY <2>0, <3>1, <4>1, AnswerStep
    <3>2. CASE rec' = rec /\ seen' = seen
      BY <3>2 DEF Stays
    <3> QED BY <2>10, <3>1, <3>2 DEF SwitchEnds
  <2> QED BY <1>2, <2>1, <2>2, <2>3, <2>4, <2>5, <2>6, <2>7, <2>8, <2>9, <2>10 DEF TabNext
<1>3. CASE Crash
  BY <1>3 DEF Crash, Stays
<1> QED BY <1>1, <1>2, <1>3 DEF Next

-----------------------------------------------------------------------------
(* Types. *)

LogType == [Op -> Seq({"started", "completed", "interrupted"})]

LEMMA InitType == Init => TypeOK
  BY BoundsAssumption DEF Init, TypeOK, Record, TurnType, TurnStep, MissionStatus, Branch, Op

LEMMA LoggedType ==
    ASSUME log \in LogType, NEW o \in Op, NEW type \in {"started", "completed", "interrupted"}
    PROVE  Logged(o, type) \in LogType
  BY DEF Logged, LogType

LEMMA InterruptedType ==
    ASSUME log \in LogType, NEW ops \in SUBSET Op
    PROVE  Interrupted(ops) \in LogType
  BY DEF Interrupted, LogType

(* Where a step of a turn leaves it, and that tools are left to execute. *)
TurnStepped == turn' \in [Turn -> TurnType] /\ ToolsLeft'

LEMMA TypeStep ==
    ASSUME TypeOK, ToolsLeft, Next
    PROVE  TypeOK' /\ ToolsLeft'
<1>1. rec' \in Record \cup {Gone} /\ seen' \in [Tab -> Record \cup {Gone, Nothing}]
  <2>1. rec' \in Record \cup {Gone}
    BY RecordStep DEF Stays, Replaced, Newer, TypeOK
  <2>2. \A c \in Tab : seen'[c] \in Record \cup {Gone, Nothing}
    BY <2>1, RecordStep DEF Stays, Replaced, TypeOK
  <2>3. seen' = [c \in Tab |-> seen'[c]]
    BY DEF Next, TurnNext, TabNext, TypeOK, Admit, Begin, ToolStarted, StreamEnds, ToolEnded,
           Finish, Load, Patch, Report, Transition, ReopenCompleted, Resume, ResumeStale, Delete,
           SwitchBegins, SwitchEnds, Crash, Answer
  <2> QED BY <2>1, <2>2, <2>3
<1>2. log' \in LogType
  <2> USE DEF TypeOK
  <2>0. log \in LogType
    BY DEF LogType
  <2>1. ASSUME NEW t \in Turn, TurnNext(t) PROVE log' \in LogType
    <3>0. /\ turn[t] \in TurnType /\ MaxTools \in Nat
          /\ turn[t].at = "tools" => turn[t].ended < turn[t].started
      BY BoundsAssumption DEF ToolsLeft
    <3>1. CASE ToolStarted(t)
      <4>1. <<t, turn[t].started + 1>> \in Op
        BY <3>0, <3>1, BoundsAssumption DEF ToolStarted, TurnType, Op
      <4> QED BY <2>0, <3>1, <4>1, LoggedType DEF ToolStarted, Persist
    <3>2. CASE ToolEnded(t)
      <4>1. <<t, turn[t].ended + 1>> \in Op
        BY <3>0, <3>2 DEF ToolEnded, TurnType, Op
      <4> QED BY <2>0, <3>2, <4>1, LoggedType DEF ToolEnded, Persist
    <3>3. CASE Begin(t)
      BY <2>0, <3>3 DEF Begin, Persist
    <3>4. CASE Admit(t) \/ StreamEnds(t) \/ Finish(t)
      BY <2>0, <3>4 DEF Admit, StreamEnds, Finish
    <3> QED BY <2>1, <3>1, <3>2, <3>3, <3>4 DEF TurnNext
  <2>2. ASSUME NEW c \in Tab, TabNext(c) PROVE log' \in LogType
    <3>1. \A ops \in SUBSET Pending : Interrupted(ops) \in LogType
      BY <2>0, InterruptedType DEF Pending
    <3>2. CASE Resume(c) \/ ResumeStale(c)
      BY <3>1, <3>2 DEF Resume, ResumeStale
    <3>3. CASE Delete(c)
      <4>1. [o \in Op |-> <<>>] \in LogType
        BY DEF LogType
      <4>2. log' \in {log, [o \in Op |-> <<>>]}
        BY <3>3 DEF Delete
      <4> QED BY <2>0, <4>1, <4>2
    <3>4. CASE \/ Load(c) \/ Patch(c) \/ Report(c) \/ (\E s \in MissionStatus \ {"ACTIVE"} : Transition(c, s))
               \/ ReopenCompleted(c) \/ SwitchBegins(c) \/ SwitchEnds(c)
      BY <2>0, <3>4 DEF Load, Patch, Report, Transition, ReopenCompleted, SwitchBegins, SwitchEnds
    <3> QED BY <2>2, <3>2, <3>3, <3>4 DEF TabNext
  <2> QED BY <2>0, <2>1, <2>2 DEF Next, Crash
<1>3. switch' \in [Tab -> Branch \cup {Idle}]
  <2>1. ASSUME NEW c \in Tab, SwitchBegins(c) PROVE switch' \in [Tab -> Branch \cup {Idle}]
    BY <2>1 DEF SwitchBegins, Checked, TypeOK, Record
  <2>2. ASSUME NEW c \in Tab, SwitchEnds(c) PROVE switch' \in [Tab -> Branch \cup {Idle}]
    BY <2>2 DEF SwitchEnds, TypeOK
  <2>3. CASE Crash
    BY <2>3 DEF Crash
  <2>4. ASSUME NEW t \in Turn, TurnNext(t) PROVE switch' = switch
    BY <2>4 DEF TurnNext, Admit, Begin, ToolStarted, StreamEnds, ToolEnded, Finish
  <2>5. ASSUME NEW c \in Tab, TabNext(c) PROVE SwitchBegins(c) \/ SwitchEnds(c) \/ switch' = switch
    BY <2>5 DEF TabNext, Load, Patch, Report, Transition, ReopenCompleted, Resume, ResumeStale, Delete
  <2> QED BY <2>1, <2>2, <2>3, <2>4, <2>5 DEF Next, TypeOK
<1>4. TurnStepped
  <2> USE DEF TypeOK
  <2>1. ASSUME NEW t \in Turn, TurnNext(t) PROVE TurnStepped
    <3>0. /\ turn[t] \in TurnType /\ MaxTools \in Nat
          /\ turn[t].at = "tools" => turn[t].ended < turn[t].started
      BY BoundsAssumption DEF ToolsLeft
    <3>1. \E x \in TurnType : /\ turn' = [turn EXCEPT ![t] = x]
                              /\ x.at = "tools" => x.ended < x.started
      <4>1. CASE Admit(t)
        <5>1. rec \in Record
          BY <4>1 DEF Admit
        <5>2. [turn[t] EXCEPT !.at = "admitted", !.prior = rec.messages] \in TurnType
          BY <3>0, <5>1 DEF TurnType, TurnStep, Record
        <5> QED BY <3>0, <4>1, <5>2 DEF Admit, SetTurn, TurnType
      <4>2. CASE Begin(t)
        <5>1. \A at \in {"stream", "done"} : [turn[t] EXCEPT !.at = at] \in TurnType
          BY <3>0 DEF TurnType, TurnStep
        <5>2. \A at \in {"stream", "done"} : [turn[t] EXCEPT !.at = at].at # "tools"
          BY <3>0 DEF TurnType
        <5> QED BY <4>2, <5>1, <5>2 DEF Begin, SetTurn
      <4>3. CASE ToolStarted(t)
        <5>0. turn[t].started + 1 \in 0..MaxTools
          BY <3>0, <4>3 DEF ToolStarted, TurnType
        <5>1. [turn[t] EXCEPT !.started = @ + 1] \in TurnType
          BY <3>0, <5>0 DEF TurnType
        <5>2. [turn[t] EXCEPT !.started = @ + 1].at # "tools"
          BY <3>0, <4>3 DEF ToolStarted, TurnType
        <5> QED BY <4>3, <5>1, <5>2 DEF ToolStarted, SetTurn
      <4>4. CASE StreamEnds(t)
        <5> DEFINE x == [turn[t] EXCEPT !.at = "tools"]
        <5>1. x \in TurnType /\ x.ended < x.started
          BY <3>0, <4>4 DEF StreamEnds, TurnType, TurnStep
        <5> QED BY <4>4, <5>1 DEF StreamEnds, SetTurn
      <4>5. CASE ToolEnded(t)
        <5> DEFINE to == IF turn[t].ended + 1 = turn[t].started THEN "stream" ELSE "tools"
                   x == [turn[t] EXCEPT !.ended = @ + 1, !.at = to]
        <5>1. turn[t].ended + 1 <= turn[t].started /\ turn[t].ended + 1 \in 0..MaxTools
          BY <3>0, <4>5 DEF ToolEnded, TurnType
        <5>2. to \in TurnStep
          BY DEF TurnStep
        <5>3. x \in TurnType
          <6> HIDE DEF to
          <6> QED BY <3>0, <5>1, <5>2 DEF TurnType
        <5>4. x.at = to /\ x.ended = turn[t].ended + 1 /\ x.started = turn[t].started
          <6> HIDE DEF to
          <6> QED BY <3>0 DEF TurnType
        <5>5. to = "tools" => turn[t].ended + 1 < turn[t].started
          BY <3>0, <5>1 DEF TurnType
        <5>6. x.at = "tools" => x.ended < x.started
          BY <5>4, <5>5
        <5>7. turn' = [turn EXCEPT ![t] = x]
          BY <4>5 DEF ToolEnded, SetTurn
        <5> QED BY <5>3, <5>6, <5>7
      <4>6. CASE Finish(t)
        <5>1. [turn[t] EXCEPT !.at = "done"] \in TurnType
          BY <3>0 DEF TurnType, TurnStep
        <5>2. [turn[t] EXCEPT !.at = "done"].at # "tools"
          BY <3>0 DEF TurnType
        <5> QED BY <4>6, <5>1, <5>2 DEF Finish, SetTurn
      <4> QED BY <2>1, <4>1, <4>2, <4>3, <4>4, <4>5, <4>6 DEF TurnNext
    <3> QED BY <3>1 DEF TurnStepped, ToolsLeft
  <2>2. ASSUME NEW c \in Tab, TabNext(c) PROVE turn' = turn
    BY <2>2 DEF TabNext, Load, Patch, Report, Transition, ReopenCompleted, Resume, ResumeStale,
                Delete, SwitchBegins, SwitchEnds
  <2>3. CASE Crash
    <3>1. \A t \in Turn : turn'[t] \in TurnType
                          /\ (turn'[t].at = "tools" => turn'[t].ended < turn'[t].started)
      BY <2>3 DEF Crash, TurnType, TurnStep
    <3> QED BY <2>3, <3>1 DEF Crash, TurnStepped, ToolsLeft
  <2> QED BY <2>1, <2>2, <2>3 DEF Next, TurnStepped, ToolsLeft
<1> QED BY <1>1, <1>2, <1>3, <1>4 DEF TypeOK, LogType, TurnStepped

-----------------------------------------------------------------------------
(* What tabs have seen. *)

LEMMA SeenStep ==
    ASSUME TypeOK, ToolsLeft, SeenIsPast, Next
    PROVE  SeenIsPast'
<1> SUFFICES ASSUME rec' # Gone, NEW c \in Tab
             PROVE  /\ seen'[c] # Gone
                    /\ seen'[c] # Nothing => /\ seen'[c].revision <= rec'.revision
                                             /\ seen'[c].revision = rec'.revision => seen'[c] = rec'
  BY DEF SeenIsPast
<1>1. rec # Gone /\ rec \in Record /\ rec.revision \in Nat
  BY RecordStep, IsRecord DEF Stays, Replaced, Record
<1>2. /\ seen[c] # Gone
      /\ seen[c] # Nothing => /\ seen[c].revision \in Nat /\ seen[c].revision <= rec.revision
                              /\ seen[c].revision = rec.revision => seen[c] = rec
  <2>1. seen[c] # Gone /\ seen[c] \in Record \cup {Gone, Nothing}
    BY <1>1 DEF SeenIsPast, TypeOK
  <2>2. seen[c] # Nothing => seen[c].revision \in Nat
    BY <2>1 DEF Record
  <2> QED BY <1>1, <2>1, <2>2 DEF SeenIsPast
<1>3. CASE Stays
  BY <1>1, <1>2, <1>3 DEF Stays
<1>4. CASE Replaced
  <2>1. rec' \in Record /\ rec'.revision \in Nat /\ rec'.revision > rec.revision
    BY <1>4 DEF Replaced, Newer, Record
  <2>2. CASE seen'[c] = rec'
    BY <2>1, <2>2
  <2>3. CASE seen'[c] = seen[c]
    BY <1>1, <1>2, <2>1, <2>3
  <2> QED BY <1>4, <2>2, <2>3 DEF Replaced
<1> QED BY <1>3, <1>4, RecordStep

LEMMA CheckedIsSeen ==
    ASSUME TypeOK, SeenIsPast, NEW c \in Tab, Checked(c)
    PROVE  seen[c] = rec
  BY DEF Checked, SeenIsPast

(* When the record changes, a tab whose view changes with it is one whose  *)
(* request was compared with the record in this step.                      *)
LEMMA AnsweredIsChecked ==
    ASSUME TypeOK, Next, rec' # rec, NEW c \in Tab, switch[c] = Idle
    PROVE  seen'[c] = seen[c] \/ Checked(c)
<1>1. ASSUME NEW t \in Turn, TurnNext(t) PROVE seen' = seen
  BY <1>1 DEF TurnNext, Admit, Begin, ToolStarted, StreamEnds, ToolEnded, Finish
<1>2. ASSUME NEW d \in Tab, TabNext(d)
      PROVE  \/ seen' = seen
             \/ (d = c => Checked(c)) /\ \E x : seen' = [seen EXCEPT ![d] = x]
  <2>1. CASE Load(d) \/ ResumeStale(d)
    BY <2>1 DEF Load, ResumeStale
  <2>2. CASE Patch(d) \/ (\E s \in MissionStatus \ {"ACTIVE"} : Transition(d, s)) \/ ReopenCompleted(d)
    BY <2>2 DEF Patch, Transition, ReopenCompleted, Answer
  <2>3. CASE Resume(d) \/ Delete(d)
    BY <2>3 DEF Resume, Delete, Answer
  <2>4. CASE Report(d) \/ SwitchBegins(d)
    BY <2>4 DEF Report, SwitchBegins
  <2>5. CASE SwitchEnds(d)
    BY <2>5 DEF SwitchEnds, Answer
  <2> QED BY <1>2, <2>1, <2>2, <2>3, <2>4, <2>5 DEF TabNext
<1>3. CASE Crash
  BY <1>3 DEF Crash
<1> QED BY <1>1, <1>2, <1>3 DEF Next, TypeOK

LEMMA OverwriteStep ==
    ASSUME TypeOK, ToolsLeft, SeenIsPast, Next,
           NEW c \in Tab, rec' # rec, seen'[c] = rec', switch[c] = Idle
    PROVE  seen[c] = rec
<1>1. CASE Checked(c)
  BY <1>1, CheckedIsSeen
<1>2. CASE seen'[c] = seen[c]
  <2>1. rec # Gone /\ (Newer(rec') \/ rec' = Gone)
    BY RecordStep DEF Stays, Replaced
  <2>2. rec' # Gone
    BY <1>2, <2>1 DEF SeenIsPast
  <2>3. rec' \in Record /\ rec'.revision > rec.revision
    BY <2>1, <2>2 DEF Newer
  <2>4. rec'.revision <= rec.revision
    BY <1>2, <2>1, <2>3, AbsentAssumption DEF SeenIsPast
  <2>5. rec.revision \in Nat /\ rec'.revision \in Nat
    BY <2>1, <2>3, IsRecord DEF Record
  <2> QED BY <2>3, <2>4, <2>5
<1> QED BY <1>1, <1>2, AnsweredIsChecked

-----------------------------------------------------------------------------
(* The event log. *)

(* What LogFollowsRecord asks of the events l of one tool call whose entry *)
(* in the evidence is e.                                                   *)
Follows(l, e) ==
    \A i \in DOMAIN l : /\ l[i] = "started" => e # "none"
                        /\ l[i] = "completed" => e # "running"

LEMMA FollowsRecord == LogFollowsRecord <=> (rec # Gone => \A o \in Op : Follows(log[o], rec.tools[o]))
  BY DEF LogFollowsRecord, Follows

LEMMA AppendFollows ==
    ASSUME NEW l \in Seq({"started", "completed", "interrupted"}), NEW e,
           NEW type \in {"started", "completed", "interrupted"}, Follows(l, e),
           type = "started" => e # "none", type = "completed" => e # "running"
    PROVE  Follows(Append(l, type), e)
<1> SUFFICES ASSUME NEW i \in 1..Len(l) + 1
             PROVE  /\ Append(l, type)[i] = "started" => e # "none"
                    /\ Append(l, type)[i] = "completed" => e # "running"
  BY DEF Follows
<1>1. CASE i = Len(l) + 1
  BY <1>1
<1>2. CASE i \in 1..Len(l)
  BY <1>2 DEF Follows
<1> QED BY <1>1, <1>2

LEMMA EmptyFollows == \A e : Follows(<<>>, e)
  BY DEF Follows

(* What the other steps do to the tool calls of a record: nothing. *)
LEMMA ToolsKept ==
    ASSUME TypeOK, rec # Gone, rec' # Gone, Next,
           \A t \in Turn : ~ToolStarted(t) /\ ~ToolEnded(t)
    PROVE  rec'.tools = rec.tools
<1>0. rec \in Record
  BY IsRecord
<1>1. ASSUME NEW t \in Turn, TurnNext(t) PROVE rec'.tools = rec.tools
  <2>1. CASE Begin(t)
    BY <1>0, <2>1 DEF Begin, Persist, Revised, Record
  <2>2. CASE Finish(t)
    BY <1>0, <2>2 DEF Finish, Result, Revised, Record
  <2>3. CASE Admit(t) \/ StreamEnds(t)
    BY <2>3 DEF Admit, StreamEnds
  <2> QED BY <1>1, <2>1, <2>2, <2>3 DEF TurnNext
<1>2. ASSUME NEW c \in Tab, TabNext(c) PROVE rec'.tools = rec.tools
  <2>1. CASE Load(c) \/ ResumeStale(c) \/ SwitchBegins(c)
    BY <2>1 DEF Load, ResumeStale, SwitchBegins
  <2>2. CASE Patch(c) \/ Report(c)
    BY <1>0, <2>2 DEF Patch, Report, Reported, Answer, Revised, Record
  <2>3. CASE (\E s \in MissionStatus \ {"ACTIVE"} : Transition(c, s)) \/ ReopenCompleted(c) \/ Resume(c)
    BY <1>0, <2>3 DEF Transition, ReopenCompleted, Resume, Answer, Revised, Record
  <2>4. CASE SwitchEnds(c)
    BY <1>0, <2>4 DEF SwitchEnds, Answer, Revised, Record
  <2>5. CASE Delete(c)
    BY <2>5 DEF Delete
  <2> QED BY <1>2, <2>1, <2>2, <2>3, <2>4, <2>5 DEF TabNext
<1>3. CASE Crash
  BY <1>3 DEF Crash
<1> QED BY <1>1, <1>2, <1>3 DEF Next

(* The log grows by interruptions of what was started, by an event of a    *)
(* tool call, or goes with the mission.                                    *)
LEMMA LogKept ==
    ASSUME Next, \A t \in Turn : ~ToolStarted(t) /\ ~ToolEnded(t)
    PROVE  \/ log' = log
           \/ \E ops \in SUBSET Pending : log' = Interrupted(ops)
           \/ log' = [o \in Op |-> <<>>]
<1>1. ASSUME NEW t \in Turn, TurnNext(t) PROVE log' = log
  BY <1>1 DEF TurnNext, Admit, Begin, Persist, StreamEnds, Finish
<1>2. ASSUME NEW c \in Tab, TabNext(c)
      PROVE  \/ log' = log
             \/ \E ops \in SUBSET Pending : log' = Interrupted(ops)
             \/ log' = [o \in Op |-> <<>>]
  <2>1. CASE Load(c) \/ Patch(c) \/ Report(c) \/ (\E s \in MissionStatus \ {"ACTIVE"} : Transition(c, s))
    BY <2>1 DEF Load, Patch, Report, Transition
  <2>2. CASE ReopenCompleted(c) \/ SwitchBegins(c) \/ SwitchEnds(c)
    BY <2>2 DEF ReopenCompleted, SwitchBegins, SwitchEnds
  <2>3. CASE Resume(c) \/ ResumeStale(c)
    BY <2>3 DEF Resume, ResumeStale
  <2>4. CASE Delete(c)
    BY <2>4 DEF Delete
  <2> QED BY <1>2, <2>1, <2>2, <2>3, <2>4 DEF TabNext
<1>3. CASE Crash
  BY <1>3 DEF Crash
<1> QED BY <1>1, <1>2, <1>3 DEF Next

(* No turn starts a tool in the other steps. *)
LEMMA StartedKept ==
    ASSUME TypeOK, Next, \A t \in Turn : ~ToolStarted(t)
    PROVE  \A t \in Turn : turn'[t].started = turn[t].started
<1>1. ASSUME NEW u \in Turn, TurnNext(u)
      PROVE  \A t \in Turn : turn'[t].started = turn[t].started
  <2>1. turn \in [Turn -> TurnType] /\ turn[u] \in TurnType
    BY DEF TypeOK
  <2>2. \E x : turn' = [turn EXCEPT ![u] = x] /\ x.started = turn[u].started
    <3>1. CASE Admit(u) \/ Begin(u)
      BY <2>1, <3>1 DEF Admit, Begin, SetTurn, TurnType
    <3>2. CASE StreamEnds(u) \/ Finish(u)
      BY <2>1, <3>2 DEF StreamEnds, Finish, SetTurn, TurnType
    <3>3. CASE ToolEnded(u)
      <4> DEFINE to == IF turn[u].ended + 1 = turn[u].started THEN "stream" ELSE "tools"
      <4>1. turn' = [turn EXCEPT ![u] = [turn[u] EXCEPT !.ended = @ + 1, !.at = to]]
        BY <3>3 DEF ToolEnded, SetTurn
      <4> HIDE DEF to
      <4>2. [turn[u] EXCEPT !.ended = @ + 1, !.at = to].started = turn[u].started
        BY <2>1 DEF TurnType
      <4> QED BY <4>1, <4>2
    <3> QED BY <1>1, <3>1, <3>2, <3>3 DEF TurnNext
  <2> QED BY <2>1, <2>2
<1>2. ASSUME NEW c \in Tab, TabNext(c) PROVE turn' = turn
  BY <1>2 DEF TabNext, Load, Patch, Report, Transition, ReopenCompleted, Resume, ResumeStale,
              Delete, SwitchBegins, SwitchEnds
<1>3. CASE Crash
  BY <1>3 DEF Crash, TypeOK, TurnType
<1> QED BY <1>1, <1>2, <1>3 DEF Next

LEMMA LogStep ==
    ASSUME TypeOK, ToolsLeft, LogIsNumbered, LogFollowsRecord, Next
    PROVE  LogIsNumbered' /\ LogFollowsRecord'
<1> USE DEF TypeOK
<1>0. MaxTools \in Nat /\ (rec # Gone => \A p \in Op : Follows(log[p], rec.tools[p]))
  BY BoundsAssumption, FollowsRecord
<1>f. (rec' # Gone => \A p \in Op : Follows(log'[p], rec'.tools[p])) => LogFollowsRecord'
  BY DEF LogFollowsRecord, Follows
<1>g. rec' # Gone => rec # Gone
  BY RecordStep DEF Stays, Replaced
<1>1. ASSUME NEW t \in Turn, ToolStarted(t) PROVE LogIsNumbered' /\ LogFollowsRecord'
  <2> DEFINE o == <<t, turn[t].started + 1>>
             new == Revised([rec EXCEPT !.tools[o] = "running"])
  <2>1. turn[t] \in TurnType /\ turn[t].started + 1 \in 1..MaxTools /\ o \in Op
    BY <1>0, <1>1 DEF ToolStarted, TurnType, Op
  <2>2. turn' = [turn EXCEPT ![t] = [turn[t] EXCEPT !.started = @ + 1]]
    BY <1>1 DEF ToolStarted, SetTurn
  <2>3. /\ turn'[t].started = turn[t].started + 1
        /\ \A u \in Turn : u # t => turn'[u].started = turn[u].started
    BY <2>1, <2>2 DEF TurnType
  <2>4. /\ log' = log \/ log' = [log EXCEPT ![o] = Append(@, "started")]
        /\ rec' # Gone => rec' \in {rec, new}
        /\ rec' # Gone => log' = log \/ rec' = new
    BY <1>1 DEF ToolStarted, Persist, Logged
  <2>5. log[o] = <<>>
    BY <2>1 DEF LogIsNumbered, TurnType
  <2>6. LogIsNumbered'
    <3> SUFFICES ASSUME NEW u \in Turn, NEW i \in 1..MaxTools, i > turn'[u].started
                 PROVE  log'[<<u, i>>] = <<>>
      BY DEF LogIsNumbered
    <3>1. turn[u].started \in Nat
      BY DEF TurnType
    <3>2. <<u, i>> # o /\ i > turn[u].started
      BY <2>1, <2>3, <3>1
    <3>3. log[<<u, i>>] = <<>> /\ <<u, i>> \in Op
      BY <3>2 DEF LogIsNumbered, Op
    <3> QED BY <2>1, <2>4, <3>2, <3>3
  <2>7. ASSUME rec' # Gone, NEW p \in Op PROVE Follows(log'[p], rec'.tools[p])
    <3>1. rec \in Record /\ Follows(log[p], rec.tools[p])
      BY <1>0, <1>g, <2>7, IsRecord
    <3>2. new.tools = [rec.tools EXCEPT ![o] = "running"]
      BY <2>1, <3>1 DEF Revised, Record
    <3> HIDE DEF new
    <3>3. CASE p # o
      <4>1. log'[p] = log[p] /\ rec'.tools[p] = rec.tools[p]
        BY <2>1, <2>4, <2>7, <3>1, <3>2, <3>3 DEF Record
      <4> QED BY <3>1, <4>1
    <3>4. CASE p = o
      <4>1. CASE log' = log
        BY <2>5, <3>4, <4>1, EmptyFollows
      <4>2. CASE log' # log
        <5>1. log'[p] = Append(<<>>, "started") /\ rec'.tools[p] = "running"
          BY <2>1, <2>4, <2>5, <2>7, <3>1, <3>2, <3>4, <4>2 DEF Record
        <5>2. Append(<<>>, "started") = <<"started">>
          OBVIOUS
        <5>3. Follows(<<"started">>, "running")
          BY DEF Follows
        <5> QED BY <5>1, <5>2, <5>3
      <4> QED BY <4>1, <4>2
    <3> QED BY <3>3, <3>4
  <2> QED BY <1>f, <2>6, <2>7
<1>2. ASSUME NEW t \in Turn, ToolEnded(t) PROVE LogIsNumbered' /\ LogFollowsRecord'
  <2> DEFINE o == <<t, turn[t].ended + 1>>
             new == Revised(Ended(o))
  <2>1. turn[t] \in TurnType /\ turn[t].ended < turn[t].started
    BY <1>2 DEF ToolEnded, ToolsLeft
  <2>2. turn[t].ended + 1 \in 1..MaxTools /\ turn[t].ended + 1 <= turn[t].started /\ o \in Op
    BY <1>0, <2>1 DEF TurnType, Op
  <2>3. \A u \in Turn : turn'[u].started = turn[u].started
    <3>1. \A u \in Turn : ~ToolStarted(u)
      <4>1. ASSUME NEW u \in Turn, ToolStarted(u) PROVE FALSE
        <5>1. turn[u].at = "stream" /\ turn[t].at = "tools"
          BY <1>2, <4>1 DEF ToolStarted, ToolEnded
        <5>2. turn' = [turn EXCEPT ![u] = [turn[u] EXCEPT !.started = @ + 1]]
          BY <4>1 DEF ToolStarted, SetTurn
        <5>3. turn'[t] = turn[t]
          BY <5>1, <5>2
        <5>4. turn'[t].ended = turn[t].ended + 1
          BY <1>2, <2>1 DEF ToolEnded, SetTurn, TurnType
        <5> QED BY <2>1, <5>3, <5>4 DEF TurnType
      <4> QED BY <4>1
    <3> QED BY <3>1, StartedKept
  <2>4. /\ log' = log \/ log' = [log EXCEPT ![o] = Append(@, "completed")]
        /\ rec' # Gone => rec' \in {rec, new}
        /\ rec' # Gone => log' = log \/ rec' = new
    BY <1>2 DEF ToolEnded, Persist, Logged
  <2>5. LogIsNumbered'
    <3> SUFFICES ASSUME NEW u \in Turn, NEW i \in 1..MaxTools, i > turn'[u].started
                 PROVE  log'[<<u, i>>] = <<>>
      BY DEF LogIsNumbered
    <3>1. turn[u].started \in Nat
      BY DEF TurnType
    <3>2. <<u, i>> # o /\ i > turn[u].started
      BY <2>1, <2>2, <2>3, <3>1 DEF TurnType
    <3>3. log[<<u, i>>] = <<>> /\ <<u, i>> \in Op
      BY <3>2 DEF LogIsNumbered, Op
    <3> QED BY <2>2, <2>4, <3>2, <3>3
  <2>6. ASSUME rec' # Gone, NEW p \in Op PROVE Follows(log'[p], rec'.tools[p])
    <3>1. rec \in Record /\ Follows(log[p], rec.tools[p])
      BY <1>0, <1>g, <2>6, IsRecord
    <3>2. new.tools[p] = IF p = o /\ rec.tools[p] = "running" THEN "ended" ELSE rec.tools[p]
      <4>1. Ended(o) \in Record
            /\ Ended(o).tools[p] = IF p = o /\ rec.tools[p] = "running" THEN "ended" ELSE rec.tools[p]
        BY <2>2, <3>1, EndedRecord
      <4>2. new.tools = Ended(o).tools
        BY <4>1, RevisedRecord
      <4> HIDE DEF new
      <4> QED BY <4>1, <4>2
    <3> HIDE DEF new
    <3>3. Follows(log[p], rec'.tools[p])
      BY <2>4, <2>6, <3>1, <3>2 DEF Follows
    <3>4. CASE log'[p] = log[p]
      BY <3>3, <3>4
    <3>5. CASE log'[p] # log[p]
      <4>1. p = o /\ log'[p] = Append(log[p], "completed") /\ rec' = new
        BY <2>2, <2>4, <2>6, <3>5
      <4>2. rec'.tools[p] # "running"
        BY <3>2, <4>1
      <4>3. log[p] \in Seq({"started", "completed", "interrupted"})
        OBVIOUS
      <4> QED BY <3>3, <4>1, <4>2, <4>3, AppendFollows
    <3> QED BY <3>4, <3>5
  <2> QED BY <1>f, <2>5, <2>6
<1>3. ASSUME \A t \in Turn : ~ToolStarted(t) /\ ~ToolEnded(t)
      PROVE  LogIsNumbered' /\ LogFollowsRecord'
  <2>1. /\ \A t \in Turn : turn'[t].started = turn[t].started
        /\ rec' # Gone => rec'.tools = rec.tools
    BY <1>3, <1>g, StartedKept, ToolsKept
  <2>2. CASE log' = log
    BY <1>0, <1>f, <1>g, <2>1, <2>2 DEF LogIsNumbered
  <2>3. CASE log' = [p \in Op |-> <<>>]
    <3>1. LogIsNumbered'
      BY <2>3 DEF LogIsNumbered, Op
    <3>2. \A p \in Op : Follows(log'[p], rec'.tools[p])
      BY <2>3 DEF Follows
    <3> QED BY <1>f, <3>1, <3>2
  <2>4. ASSUME NEW ops \in SUBSET Pending, log' = Interrupted(ops)
        PROVE  LogIsNumbered' /\ LogFollowsRecord'
    <3>1. \A p \in Op : log'[p] = IF p \in ops THEN Append(log[p], "interrupted") ELSE log[p]
      BY <2>4 DEF Interrupted
    <3>2. \A p \in Op : log[p] = <<>> => log'[p] = <<>>
      BY <3>1 DEF Pending
    <3>3. LogIsNumbered'
      BY <2>1, <3>2 DEF LogIsNumbered, Op
    <3>4. ASSUME rec' # Gone, NEW p \in Op PROVE Follows(log'[p], rec'.tools[p])
      <4>1. Follows(log[p], rec.tools[p]) /\ rec'.tools = rec.tools
        BY <1>0, <1>g, <2>1, <3>4
      <4>2. log[p] \in Seq({"started", "completed", "interrupted"})
        OBVIOUS
      <4>3. Follows(Append(log[p], "interrupted"), rec.tools[p])
        BY <4>1, <4>2, AppendFollows
      <4> QED BY <3>1, <4>1, <4>3
    <3> QED BY <1>f, <3>3, <3>4
  <2> QED BY <1>3, <2>2, <2>3, <2>4, LogKept
<1> QED BY <1>1, <1>2, <1>3

-----------------------------------------------------------------------------
LEMMA InitIInv == Init => IInv
<1> SUFFICES ASSUME Init PROVE IInv
  OBVIOUS
<1>1. ToolsLeft /\ LogIsNumbered
  BY DEF Init, ToolsLeft, LogIsNumbered, Op
<1>2. SeenIsPast
  BY AbsentAssumption DEF Init, SeenIsPast
<1>3. LogFollowsRecord
  BY DEF Init, LogFollowsRecord
<1> QED BY <1>1, <1>2, <1>3, InitType DEF IInv

LEMMA NextIInv == IInv /\ [Next]_vars => IInv'
<1>1. ASSUME IInv, Next PROVE IInv'
  BY <1>1, TypeStep, SeenStep, LogStep DEF IInv
<1>2. ASSUME IInv, UNCHANGED vars PROVE IInv'
  BY <1>2 DEF IInv, vars, TypeOK, ToolsLeft, SeenIsPast, LogIsNumbered, LogFollowsRecord
<1> QED BY <1>1, <1>2

LEMMA Invariance == Spec => []IInv
  BY InitIInv, NextIInv, PTL DEF Spec

(* The record, the log, the turns and what tabs have seen stay in their    *)
(* ranges.                                                                 *)
THEOREM TypeCorrect == Spec => []TypeOK
<1>1. IInv => TypeOK
  BY DEF IInv
<1> QED BY <1>1, Invariance, PTL

(* updateLatest takes the next revision as update does, so an answered     *)
(* request of a tab has changed what the tab had seen, whatever the turns  *)
(* and the other tabs wrote.                                               *)
THEOREM NothingOverwritten == Spec => NoSilentOverwrite
<1>1. IInv /\ [Next]_vars =>
        [\A c \in Tab : (rec' # rec /\ seen'[c] = rec' /\ switch[c] = Idle) => seen[c] = rec]_vars
  BY OverwriteStep DEF IInv
<1> QED BY <1>1, Invariance, PTL DEF Spec, NoSilentOverwrite

(* recordToolStarted and recordToolCompleted replace the record before     *)
(* they append the event, and a start is never logged after a completion:  *)
(* no failed write and no crash lets the log run ahead.                    *)
THEOREM LogNeverAhead == Spec => []LogFollowsRecord
<1>1. IInv => LogFollowsRecord
  BY DEF IInv
<1> QED BY <1>1, Invariance, PTL
=============================================================================
