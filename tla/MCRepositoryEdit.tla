--------------------------- MODULE MCRepositoryEdit ---------------------------
EXTENDS RepositoryEdit, TLC

(* "src" has other files, which stay tracked; "new" has none.              *)
Folders == {"src", "new"}

(* Nothing else happens, or the operator works on while the agent does, and *)
(* git, the agent or the server fail; the files in S are in "src".         *)
Env(noise, S, head, ignored) ==
    [operator |-> noise, strays |-> noise, faults |-> noise,
     folder |-> [f \in File |-> IF f \in S THEN "src" ELSE "new"], kept |-> {"src"},
     head |-> head, ignored |-> ignored]

(* Nothing tracked or ignored; a file tracked; a file ignored in "new".    *)
Layouts(noise) ==
    {Env(noise, S, {}, {}) : S \in SUBSET File}
    \cup {Env(noise, {}, {f}, {}) : f \in File}
    \cup UNION {{Env(noise, File \ S, File \ S, {f}) : f \in S} : S \in (SUBSET File) \ {{}}}
Environments == Layouts(FALSE) \cup Layouts(TRUE)

AnyFile == Permutations(File)
=============================================================================
