--------------------------- MODULE MCSandboxEgress ---------------------------
EXTENDS SandboxEgress

CONSTANTS server, mcp

(* What may happen: revocations, failing writes, lines that are cut off,   *)
(* crashes, rotations of the log, and a second process.                    *)
Nothing == [io |-> FALSE, torn |-> FALSE, crash |-> FALSE, rotate |-> FALSE,
            revoke |-> FALSE, alone |-> FALSE]

TwoProcesses == [Nothing EXCEPT !.io = TRUE, !.crash = TRUE]
Rotations == [Nothing EXCEPT !.io = TRUE, !.crash = TRUE, !.rotate = TRUE,
                               !.revoke = TRUE, !.alone = TRUE]
WholeLines == {TwoProcesses, Rotations}
=============================================================================
