--------------------------- MODULE AtomicIntegration ---------------------------
(***************************************************************************)
(* What integration promises the users of the canonical repository: a       *)
(* proposal moves the branch from the base it was made for to all of its    *)
(* patches, in order and in one step; a rollback puts a proposal's base     *)
(* back; and nothing else but a push changes the branch.                   *)
(***************************************************************************)
EXTENDS Naturals, Sequences

CONSTANTS Candidate, Request, NoRequest

VARIABLES
    canon,      \* the branch, as a sequence of commits
    proposed    \* the proposals made so far

Init == canon = <<>> /\ proposed = {}

(* A proposal is made for the branch as it is.                             *)
Propose ==
    /\ \E x \in proposed' \ proposed : x.base = canon /\ proposed' = proposed \cup {x}
    /\ UNCHANGED canon

Integrate ==
    /\ canon' # canon
    /\ \E x \in proposed, r \in Request :
          /\ x.ready /\ canon = x.base
          /\ canon' = canon \o [i \in DOMAIN x.cands |-> [by |-> r, patches |-> {x.cands[i]}]]
    /\ UNCHANGED proposed

Rollback ==
    /\ canon' # canon
    /\ \E x \in proposed : canon' = x.base
    /\ UNCHANGED proposed

Push ==
    /\ canon' = Append(canon, [by |-> NoRequest, patches |-> {}])
    /\ UNCHANGED proposed

Next == Propose \/ Integrate \/ Rollback \/ Push

Spec == Init /\ [][Next]_<<canon, proposed>>
=============================================================================
