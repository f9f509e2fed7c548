-------------------------- MODULE MissionBoundExecutor --------------------------
(***************************************************************************)
(* Several autonomous missions in one server process.  The server builds    *)
(* one autonomy runtime, and with it one MissionBoundTaskExecutor whose      *)
(* #delegate holds the repository root, validation runner, edit executor     *)
(* and repair controller of the mission that was prepared last.  A run       *)
(* prepares once, before its first save, and uses the delegate for every     *)
(* task and repair afterwards; the registry and the lock are per mission,    *)
(* so nothing keeps two runs apart.                                         *)
(***************************************************************************)

CONSTANTS
    Mission,    \* missions of the workspace, each with a repository of its own
    NoMission   \* the delegate before any mission was prepared

VARIABLES
    delegate,   \* the mission #delegate was built for
    run,        \* [Mission -> where its run stands]
    workingFor  \* the mission whose repository and repair loop the task in flight uses

vars == <<delegate, run, workingFor>>

Init ==
    /\ delegate = NoMission
    /\ run = [m \in Mission |-> "off"]
    /\ workingFor = [m \in Mission |-> NoMission]

(* registerIfAbsent: the second start or resume of a mission is rejected.   *)
Register(m) ==
    /\ run[m] = "off"
    /\ run' = [run EXCEPT ![m] = "registered"]
    /\ UNCHANGED <<delegate, workingFor>>

(* prepare(graph) replaces the shared delegate.                            *)
Prepare(m) ==
    /\ run[m] = "registered"
    /\ run' = [run EXCEPT ![m] = "prepared"]
    /\ delegate' = m
    /\ UNCHANGED workingFor

(* execute and repair read #delegate when they are called.                 *)
Execute(m) ==
    /\ run[m] = "prepared"
    /\ run' = [run EXCEPT ![m] = "task"]
    /\ workingFor' = [workingFor EXCEPT ![m] = delegate]
    /\ UNCHANGED delegate

Repair(m) ==
    /\ run[m] = "task"
    /\ run' = [run EXCEPT ![m] = "repair"]
    /\ workingFor' = [workingFor EXCEPT ![m] = delegate]
    /\ UNCHANGED delegate

Settle(m) ==
    /\ run[m] \in {"task", "repair"}
    /\ run' = [run EXCEPT ![m] = "prepared"]
    /\ workingFor' = [workingFor EXCEPT ![m] = NoMission]
    /\ UNCHANGED delegate

(* The coordinator's finally, on every exit; the delegate stays.           *)
Release(m) ==
    /\ run[m] \in {"registered", "prepared"}
    /\ run' = [run EXCEPT ![m] = "off"]
    /\ UNCHANGED <<delegate, workingFor>>

Next == \E m \in Mission :
    Register(m) \/ Prepare(m) \/ Execute(m) \/ Repair(m) \/ Settle(m) \/ Release(m)

Spec == Init /\ [][Next]_vars

(* A mission's task works on that mission's repository, under its sandbox   *)
(* authority and with its repair record.                                   *)
WorksOnOwnRepository ==
    \A m \in Mission : run[m] \in {"task", "repair"} => workingFor[m] = m
=============================================================================
