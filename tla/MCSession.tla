----------------------------- MODULE MCSession -----------------------------
(***************************************************************************)
(* What is typed at the monitor: commands, a break by itself, and a break   *)
(* behind another character of the same line.                               *)
(***************************************************************************)
EXTENDS MonitorSession

MCChunks ==
  { <<"g", Newline>>, <<"c", Newline>>, <<"t", Newline>>,
    <<"r", Newline, "q", Newline>>, <<".", Newline>>, <<"a", ".", Newline, "q", Newline>> }
=============================================================================
