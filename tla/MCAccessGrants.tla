---- MODULE MCAccessGrants ----
(* Instances of AccessGrants for TLC.                                      *)
EXTENDS AccessGrants, TLC

AnyCredential == Permutations(Credential)
====
