---- MODULE MCTeamIntegration ----
(* Instances of TeamIntegration for TLC: two tasks with a candidate each,   *)
(* of which the second depends on the first and only the first has a scope, *)
(* so that the candidates may touch the same file or leave their scope.     *)
EXTENDS TeamIntegration, TLC

CONSTANTS c1, c2, m1, m2, t1, t2, f1, f2

TwoAuthors == (c1 :> m1) @@ (c2 :> m2)
TwoTasks == (c1 :> t2) @@ (c2 :> t1)
SecondNeedsFirst == (t1 :> {}) @@ (t2 :> {t1})
NothingOrOneFile == {{}, {f1}, {f2}}
FirstIsScoped == (t1 :> {f1}) @@ (t2 :> {})
AnyRequest == Permutations(Request)
====
