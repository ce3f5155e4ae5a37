------------------------------ MODULE MCGuests ------------------------------
(***************************************************************************)
(* Two guest programs on the machine.                                       *)
(*                                                                          *)
(* The first polls: the service routine of src/src/emulator/pdp8.h, lines   *)
(* 47-57, asks the watchdog with ISK, then the keyboard, whose flag may be  *)
(* found set or not, and returns with ION, JMP I 07.  The handler of the    *)
(* watchdog counts its calls in word 037.  No operator interferes.          *)
(*                                                                          *)
(*   020 ISK 6551   021 JMP 023   022 JMS 030                               *)
(*   023 ISK 6031   024 JMP 026   025 JMS 034                               *)
(*   026 ION        027 JMP I 07                                            *)
(*   030 (return)   031 ISZ 037   032 JMP I 030                             *)
(*   034 (return)   035 JMP I 034                                           *)
(*   040 TAD 044    041 WRITE 6552    042 ION    043 JMP 043    044 control *)
(*                                                                          *)
(* The second uses the watchdog as a safety net, the way demo programs do   *)
(* (docs/watchdog.md, "Demos and examples"): it arms the watchdog at the    *)
(* reset vector and refreshes it on every turn of its loop, until a device  *)
(* that does not answer sends it into an endless loop.  Meanwhile the       *)
(* operator continues, restarts or resets the processor at any time.        *)
(*                                                                          *)
(*   000 CLA CLL    001 TAD 016   002 WRITE 6552                            *)
(*   003 IOT 6031   004 JMP 007   005 RESTART 6554   006 JMP 003            *)
(*   007 JMP 007    016 control                                             *)
(***************************************************************************)
EXTENDS Machine

CONSTANTS
  PollingControls,  \* the control words the first guest may write
  GuardedControls   \* those the second may write

\* The programs end at 044; the controls are words they hold.
ASSUME GuestsFitAssumption ==
  /\ MemWords > \o44
  /\ WallClockAddress > \o44
  /\ PollingControls \subseteq Word
  /\ GuardedControls \subseteq Word

PollingProgram(control) ==
  [a \in Addr |->
    CASE a = \o20 -> \o6551 [] a = \o21 -> \o5023 [] a = \o22 -> \o4030
      [] a = \o23 -> \o6031 [] a = \o24 -> \o5026 [] a = \o25 -> \o4034
      [] a = \o26 -> \o6001 [] a = \o27 -> \o5407
      [] a = \o31 -> \o2037 [] a = \o32 -> \o5430
      [] a = \o35 -> \o5434
      [] a = \o40 -> \o1044 [] a = \o41 -> \o6552 [] a = \o42 -> \o6001
      [] a = \o43 -> \o5043 [] a = \o44 -> control
      [] OTHER -> 0]

GuardedProgram(control) ==
  [a \in Addr |->
    CASE a = 0 -> \o7300 [] a = 1 -> \o1016 [] a = 2 -> \o6552
      [] a = 3 -> \o6031 [] a = 4 -> \o5007 [] a = 5 -> \o6554
      [] a = 6 -> \o5003 [] a = 7 -> \o5007 [] a = \o16 -> control
      [] OTHER -> 0]

Polling == cpu.mem[\o20] = \o6551

MCInit ==
  \/ \E control \in PollingControls : MachineInit(PollingProgram(control), \o40)
  \/ \E control \in GuardedControls : MachineInit(GuardedProgram(control), 0)

MCNext == MachineStep \/ (~Polling /\ Operator) \/ Idle

MCSpec == MCInit /\ [][MCNext]_machineVars /\ MachineFairness

-----------------------------------------------------------------------------
Serviced == cpu.mem[\o37]

\* An alarm the watchdog raises is identified by the polling routine, handled
\* there, and the main program is back in its loop with interrupts on.
AlarmServiced ==
  cpu.pending > 0 ~> (Serviced > 0 /\ cpu.pc = \o43 /\ cpu.ion)

\* Whenever the routine is entered, on the watchdog's request alone, the flag
\* ISK is about to test is set (watchdog.c:104, "Interrupt Skip if expired flag
\* set"; pdp8.h:48, "Check watchdog").
AlarmIdentified == Polling /\ cpu.pc = \o20 => wd.expired

\* Handled once, and not before it was raised.
NoSpuriousService ==
  Serviced > 0 => Serviced = 1 /\ wd.expired /\ ~wd.enabled /\ cpu.pending = 0

-----------------------------------------------------------------------------
Hung == cpu.pc = 7 /\ cpu.mem[7] = \o5007 /\ ~cpu.halted

\* A guest that hangs is never left unguarded: the countdown it last started is
\* still running, unless a one-shot HALT has stopped the processor before and
\* the operator let it continue.
HangIsGuarded ==
  Hung => \/ wd.enabled /\ wd.count # 0
          \/ wd.cmd = HaltOneShot /\ wd.expired

\* A hang ends: a countdown that is due within the bound on time halts the
\* processor or sends it back to the reset vector.
HangIsCaught ==
  (Hung /\ wd.enabled /\ wd.expiry <= MaxTime) ~> ~Hung

\* After a one-shot reset the restarted guest arms the watchdog again before it
\* reaches its loop; the alarm is not repeated while it does so.
RearmedAfterReset ==
  (wd.cmd = ResetOneShot /\ wd.expired) => cpu.pc \in 0 .. 2 \/ cpu.mem[0] = 0
=============================================================================
