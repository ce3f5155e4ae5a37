------------------------------ MODULE MCEvents ------------------------------
(***************************************************************************)
(* What a program does not ask for: interrupts, which come at any of its    *)
(* steps, and the watchdog's alarms, which come at any time.  Two scenes    *)
(* that share no variable: the program of MCInterrupts, with the watchdog   *)
(* at rest; and the watchdog alone, behind a program that has halted        *)
(* without an interrupt.                                                    *)
(***************************************************************************)
EXTENDS MCInterrupts, Watchdog

VARIABLE scene

eventVars == <<mcVars, wdVars, scene>>

EventsInit == scene = "interrupts" /\ MCInit /\ WatchdogInit

InterruptsScene(action) == scene = "interrupts" /\ action /\ UNCHANGED <<wdVars, scene>>

WatchdogScene(action) == scene = "watchdog" /\ action /\ UNCHANGED <<mcVars, scene>>

ChangeScene ==
  /\ scene = "interrupts" /\ cpu.halted /\ requested = 0
  /\ scene' = "watchdog"
  /\ UNCHANGED <<mcVars, wdVars>>

EventsNext == InterruptsScene(MCNext) \/ ChangeScene \/ WatchdogScene(WatchdogNext)

\* The fairness of MCInterrupts and of WatchdogSpec, each in its scene.
EventsSpec ==
  /\ EventsInit /\ [][EventsNext]_eventVars
  /\ WF_eventVars(InterruptsScene(MCNext))
  /\ WF_eventVars(WatchdogScene(ClockAdvances))
  /\ WF_eventVars(WatchdogScene(OtherStep))
=============================================================================
