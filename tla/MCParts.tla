------------------------------- MODULE MCParts -------------------------------
(***************************************************************************)
(* Two parts of the machine, each alone with an arbitrary environment: the  *)
(* processor for a few arbitrary instructions, and the console.  As in      *)
(* MCMonitor each behaviour plays one scene, in which one part moves and    *)
(* the other rests; all they share is that they are checked together.       *)
(***************************************************************************)
EXTENDS MCCpu, Kl8eConsole

VARIABLE part  \* the part that moves

partVars == <<mcVars, consoleVars, part>>

\* Of a processor that rests one initial state is enough.
PartsInit ==
  /\ part \in {"processor", "console"}
  /\ IF part = "processor" THEN MCInit ELSE cpu = PoweredUpCpu /\ spent = 0
  /\ ConsoleInit

PartsNext ==
  \/ part = "processor" /\ MCNext /\ UNCHANGED <<consoleVars, part>>
  \/ part = "console" /\ ConsoleNext /\ UNCHANGED <<mcVars, part>>

PartsSpec == PartsInit /\ [][PartsNext]_partVars
=============================================================================
