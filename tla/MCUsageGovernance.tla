---- MODULE MCUsageGovernance ----
(* Instances of UsageGovernance for TLC.                                   *)
EXTENDS UsageGovernance, TLC

TwoDays == 0..1
Expiries == {{"expiry"}, {"crash", "expiry"}}
AnyTurn == Permutations(Turn)
====
