------------------------------ MODULE AtomicEdit ------------------------------
(***************************************************************************)
(* What the edit transactions of a mission promise: an attempt changes     *)
(* files of its scope all at once or changes nothing, and never touches a  *)
(* file in which there is work that is not the mission's.                  *)
(***************************************************************************)
EXTENDS FiniteSets

CONSTANTS File, Mark

VARIABLES
    tree,    \* file -> what is in it that HEAD has not
    owned,   \* the files the mission has changed
    scope    \* the files the attempt may change

vars == <<tree, owned, scope>>

Init ==
    /\ tree = [f \in File |-> {}]
    /\ owned = {}
    /\ scope = File

Plan ==
    /\ scope' \in SUBSET File
    /\ UNCHANGED <<tree, owned>>

Differ == {f \in File : tree'[f] # tree[f]}

Land ==
    /\ tree' \in [File -> SUBSET Mark]
    /\ Differ # {} /\ Differ \subseteq scope
    /\ \A f \in Differ : tree[f] = {} \/ f \in owned
    /\ owned' = owned \cup Differ
    /\ scope' = File

Operator(f) ==
    /\ \E new \in SUBSET Mark : tree' = [tree EXCEPT ![f] = new]
    /\ UNCHANGED <<owned, scope>>

Next == Plan \/ Land \/ \E f \in File : Operator(f)

Spec == Init /\ [][Next]_vars
=============================================================================
