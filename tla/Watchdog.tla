------------------------------ MODULE Watchdog ------------------------------
(***************************************************************************)
(* The watchdog driven by any guest program.  A processor step that         *)
(* executes a 655x instruction calls watchdog_iot and then, like every      *)
(* step, watchdog_tick.  Each of the two reads the monotonic clock for      *)
(* itself; the host may be suspended before either, and no tick comes       *)
(* while the processor is halted, so each reading may jump ahead.           *)
(*                                                                          *)
(* armedAt, spent and alarm are history: they record when the countdown     *)
(* was last started, whether it has rung since, and what the last step did. *)
(***************************************************************************)
EXTENDS WatchdogDevice

CONSTANTS
  GuestCounts,  \* counts the guest writes
  MaxPause,     \* bound on the time between two clock readings
  MaxTime       \* bound on the clock

ASSUME WatchdogConstantsAssumption ==
  /\ GuestCounts \subseteq Counts
  /\ MaxPause \in Nat
  /\ MaxTime \in Nat

VARIABLES
  wd,       \* struct pdp8_watchdog
  now,      \* the last reading of the monotonic clock
  armedAt,  \* when the countdown was last started or reloaded
  spent,    \* has it rung since the guest last started it?
  alarm     \* did the last step ring, after what wait, and was it a repeat?

wdVars == <<wd, now, armedAt, spent, alarm>>

NoAlarm == [fired |-> FALSE, waited |-> 0, again |-> FALSE]

WatchdogInit ==
  /\ wd = NewWatchdog
  /\ now = 0
  /\ armedAt = 0
  /\ spent = FALSE
  /\ alarm = NoAlarm

Later(t) == {u \in t .. t + MaxPause : u <= MaxTime}

\* The tick at time t of a step whose IOT left d, started at time start.
Tick(d, start, rung, t) ==
  /\ wd' = Ticked(d, t)
  /\ now' = t
  /\ armedAt' = IF Fires(d, t) /\ Periodic(d.cmd) THEN t ELSE start
  /\ spent' = (rung \/ Fires(d, t))
  /\ alarm' = IF Fires(d, t)
                THEN [fired |-> TRUE, waited |-> t - start, again |-> rung]
                ELSE NoAlarm

\* 6552 with command and count in AC; both clock readings are nondeterministic
Write(cmd, count) ==
  \E t \in Later(now) : \E u \in Later(t) :
    Tick(WatchdogIot(wd, FuncWrite, cmd * \o1000 + count, t), t, FALSE, u)

\* 6554
Restart ==
  \E t \in Later(now) : \E u \in Later(t) :
    Tick(WatchdogIot(wd, FuncRestart, 0, t), t, FALSE, u)

\* any other instruction, or a watchdog function that leaves the device alone
OtherStep == \E u \in Later(now) : Tick(wd, armedAt, spent, u)

WatchdogNext ==
  \/ \E cmd \in Commands, count \in GuestCounts : Write(cmd, count)
  \/ Restart
  \/ OtherStep

\* The front end keeps stepping and the host's clock keeps moving.
ClockAdvances == OtherStep /\ now' > now

WatchdogSpec ==
  WatchdogInit /\ [][WatchdogNext]_wdVars
    /\ WF_wdVars(ClockAdvances) /\ WF_wdVars(OtherStep)

-----------------------------------------------------------------------------
WatchdogTypeOK ==
  /\ wd \in WatchdogState
  /\ now \in Nat
  /\ armedAt \in Nat
  /\ spent \in BOOLEAN
  /\ alarm \in [fired : BOOLEAN, waited : Nat, again : BOOLEAN]

\* The watchdog never rings early: an alarm comes at least the configured count
\* of deciseconds after the countdown was started, restarted or, for a periodic
\* command, after the previous alarm, however the two clock readings of a step
\* and the steps themselves are delayed.
NeverEarly == alarm.fired => alarm.waited >= Delta(wd)

\* The flag ISK tests is never set without an alarm since the guest last
\* started the countdown, and for a one-shot or a TICK command it stays set
\* until then (watchdog.h, "expired ... non-zero if last expiry fired").
FlagTellsAlarm ==
  /\ wd.expired => spent
  /\ (spent /\ (~Periodic(wd.cmd) \/ LatchesFlag(wd.cmd))) => wd.expired

\* A one-shot command rings once until the guest writes or restarts it, and so
\* does any command whose count is zero.
OneShotRingsOnce ==
  alarm.fired /\ alarm.again => Periodic(wd.cmd) /\ wd.count # 0

\* A disabled watchdog is silent, whatever RESTART does to it.
DisabledIsSilent == wd.cmd = Disable => ~wd.enabled /\ ~alarm.fired

\* A countdown that is due within the bound on time rings, unless the guest
\* starts it anew: a tick comes with every step and the clock does not stop.
CountdownRings ==
  \A t \in 0 .. MaxTime :
    (wd.enabled /\ wd.count # 0 /\ wd.expiry = t)
      ~> (alarm.fired \/ wd.expiry # t \/ ~wd.enabled)

\* docs/watchdog.md: "0 means disabled / no countdown".
ZeroCountIsDisabled == wd.count = 0 => ~alarm.fired
=============================================================================
