--------------------------- MODULE WatchdogDevice ---------------------------
(***************************************************************************)
(* The watchdog timer of src/emulator/watchdog.c, device 055: its state as  *)
(* one record, what each IOT function and each tick do to it, and the       *)
(* signal a tick raises to the processor.                                   *)
(*                                                                          *)
(* Time is counted in units of which Decisecond make a tenth of a second    *)
(* (100,000,000 in the source, whose clocks count nanoseconds).             *)
(***************************************************************************)
EXTENDS Integers

CONSTANT Decisecond

ASSUME DecisecondAssumption == Decisecond \in Nat \ {0}

Disable         == 0
ResetOneShot    == 1
ResetPeriodic   == 2
HaltOneShot     == 3
HaltPeriodic    == 4
IntrOneShot     == 5
IntrPeriodic    == 6
TickPeriodic    == 7

Commands == 0 .. 7
Counts   == 0 .. \o777

WatchdogState ==
  [ count : Counts, cmd : Commands, enabled : BOOLEAN, expired : BOOLEAN,
    expiry : Nat ]

\* pdp8_watchdog_create
NewWatchdog ==
  [ count |-> 0, cmd |-> Disable, enabled |-> FALSE, expired |-> FALSE,
    expiry |-> 0 ]

Periodic(cmd) == cmd \in {ResetPeriodic, HaltPeriodic, IntrPeriodic, TickPeriodic}

LatchesFlag(cmd) == cmd = TickPeriodic

Delta(d) == d.count * Decisecond

-----------------------------------------------------------------------------
(* watchdog_tick, called at the end of every processor step.                *)

\* Mutant of Fires: only a tick at the very moment of the expiry fires.
FiresExactly(d, t) ==
  d.enabled /\ IF d.count = 0 THEN ~d.expired ELSE t = d.expiry

\* Whether the tick at time t calls watchdog_fire.  A count of zero expires at
\* once, and only until the flag is set.
Fires(d, t) ==
  /\ d.enabled
  /\ IF d.count = 0 THEN ~d.expired ELSE t >= d.expiry

\* Mutant of SignalOf: the periodic commands are forgotten.
SignalOfOneShots(cmd) ==
  CASE cmd = ResetOneShot -> "reset"
    [] cmd = HaltOneShot  -> "halt"
    [] cmd = IntrOneShot  -> "interrupt"
    [] OTHER              -> "none"

\* What watchdog_fire asks of the processor.
SignalOf(cmd) ==
  CASE cmd \in {ResetOneShot, ResetPeriodic} -> "reset"
    [] cmd \in {HaltOneShot, HaltPeriodic}   -> "halt"
    [] cmd \in {IntrOneShot, IntrPeriodic}   -> "interrupt"
    [] OTHER                                 -> "none"

TickSignal(d, t) == IF Fires(d, t) THEN SignalOf(d.cmd) ELSE "none"

\* Mutants of Fired: a one-shot stays enabled; the flag is not set.
FiredStaysEnabled(d) == [d EXCEPT !.enabled = TRUE, !.expired = TRUE]

FiredWithoutFlag(d) == [d EXCEPT !.enabled = Periodic(d.cmd)]

Fired(d) ==
  [ count |-> d.count, cmd |-> d.cmd, enabled |-> Periodic(d.cmd),
    expired |-> TRUE, expiry |-> d.expiry ]

\* Mutant of Rescheduled: the flag is cleared whatever the command.
RescheduledUnlatched(d, t) ==
  [d EXCEPT !.enabled = TRUE, !.expired = FALSE, !.expiry = t + Delta(d)]

\* A periodic command schedules its next expiry and, unless it latches, clears
\* the flag again; with a zero count watchdog_tick returns before it does.
Rescheduled(d, t) ==
  [ count |-> d.count, cmd |-> d.cmd, enabled |-> TRUE,
    expired |-> LatchesFlag(d.cmd), expiry |-> t + Delta(d) ]

Ticked(d, t) ==
  CASE ~Fires(d, t) -> d
    [] Fires(d, t) /\ Periodic(d.cmd) /\ d.count # 0 -> Rescheduled(d, t)
    [] OTHER -> Fired(d)

-----------------------------------------------------------------------------
(* watchdog_iot.  The AC and skip effects of READ and ISK are given apart.  *)

\* Mutants of Written: the count is not masked; the flag is not cleared.
WrittenUnmasked(d, ac, t) ==
  [ count |-> ac, cmd |-> ac \div \o1000, enabled |-> ac \div \o1000 # Disable,
    expired |-> FALSE, expiry |-> t + ac * Decisecond ]

WrittenKeepsFlag(d, ac, t) ==
  [ count |-> ac % \o1000, cmd |-> ac \div \o1000,
    enabled |-> ac \div \o1000 # Disable, expired |-> d.expired,
    expiry |-> t + (ac % \o1000) * Decisecond ]

\* WRITE: AC holds the command in its upper three bits, the count below.  A
\* disabling command keeps the old expiry.
Written(d, ac, t) ==
  LET cmd   == ac \div \o1000
      count == ac % \o1000
  IN  [ count |-> count, cmd |-> cmd, enabled |-> cmd # Disable,
        expired |-> FALSE,
        expiry |-> IF cmd # Disable THEN t + count * Decisecond ELSE d.expiry ]

\* Mutants of Restarted: the countdown is not reloaded; a disabled watchdog is
\* enabled; a watchdog that has rung is not enabled again.
RestartedKeepsExpiry(d, t) ==
  [d EXCEPT !.enabled = (d.cmd # Disable), !.expired = FALSE]

RestartedAlwaysEnabled(d, t) ==
  [d EXCEPT !.enabled = TRUE, !.expired = FALSE, !.expiry = t + Delta(d)]

RestartedKeepsEnable(d, t) ==
  [d EXCEPT !.expired = FALSE, !.expiry = t + Delta(d)]

\* RESTART: reload the countdown of the command last written.
Restarted(d, t) ==
  [ count |-> d.count, cmd |-> d.cmd, enabled |-> d.cmd # Disable,
    expired |-> FALSE, expiry |-> t + Delta(d) ]

FuncIsk     == 1
FuncWrite   == 2
FuncRead    == 3
FuncRestart == 4

WatchdogIot(d, func, ac, t) ==
  CASE func = FuncWrite   -> Written(d, ac, t)
    [] func = FuncRestart -> Restarted(d, t)
    [] OTHER              -> d

ControlWord(d) == d.cmd * \o1000 + d.count
=============================================================================
