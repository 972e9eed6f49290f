----------------------------- MODULE MCGpSolver -----------------------------
(***************************************************************************)
(* Programs that answer, report an error on either stream, or print more   *)
(* than is kept.  Blocks of two pieces leave an odd last one in the thread *)
(* until the pipe is let go.                                               *)
(***************************************************************************)
EXTENDS GpSolver

Prints(stdout, stderr) == [s \in Streams |-> IF s = "stdout" THEN stdout ELSE stderr]

TheScripts == {
    Prints(<<"identity", "values", "end">>, <<>>),
    Prints(<<"identity", "error", "end">>, <<>>),
    Prints(<<"identity", "values", "end">>, <<"error">>),
    Prints(<<"identity", "values", "values", "values", "end">>, <<"error", "error", "error", "error">>)}

MCScripts == TheScripts

MCDiagnostic == <<"reason", "reason">>
=============================================================================
