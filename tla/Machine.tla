------------------------------ MODULE Machine ------------------------------
(***************************************************************************)
(* The processor with the watchdog (device 055) attached, as the monitor    *)
(* assembles it.  One action is one call of pdp8_api_step: a watchdog IOT   *)
(* reads the clock, and so does the tick that ends every step.  No step,    *)
(* hence no tick, happens while the processor is halted; time passes all    *)
(* the same.  Other devices stay abstract: they may skip and load AC.       *)
(***************************************************************************)
EXTENDS Pdp8Cpu, WatchdogDevice

CONSTANTS
  OperatorCommands,  \* which of "continue", "go", "reset" the operator gives
  MaxPause,          \* bound on the time between two clock readings
  MaxTime            \* bound on the clock

ASSUME MachineConstantsAssumption ==
  /\ OperatorCommands \subseteq {"continue", "go", "reset"}
  /\ MaxPause \in Nat
  /\ MaxTime \in Nat

VARIABLES
  wd,   \* struct pdp8_watchdog
  now   \* the last reading of the monotonic clock

machineVars == <<cpu, wd, now>>

WatchdogCode == \o55

Later(t) == {u \in t .. t + MaxPause : u <= MaxTime}

IsWatchdogIot(w) == Opcode(w) = 6 /\ IotDevice(w) = WatchdogCode

\* What watchdog_iot does to the processor: ISK skips on the expired flag,
\* READ loads the control word.
WatchdogIotCpu(c, d, w) ==
  CASE IotFunction(w) = FuncIsk /\ d.expired -> RequestSkip(c)
    [] IotFunction(w) = FuncRead             -> SetAc(c, ControlWord(d))
    [] OTHER                                 -> c

\* A watchdog IOT that reads the clock at t, in a step whose tick reads it at u.
WatchdogIotAt(t, u) ==
  LET w == Fetched(cpu)
      d == WatchdogIot(wd, IotFunction(w), cpu.ac, t)
  IN  /\ EndStep(WatchdogIotCpu(Advanced(cpu), wd, w), TickSignal(d, u))
      /\ wd' = Ticked(d, u)
      /\ now' = u

StepWatchdogIot ==
  /\ CanStep(cpu)
  /\ IsWatchdogIot(Fetched(cpu))
  /\ \E t \in Later(now) : \E u \in Later(t) : WatchdogIotAt(t, u)

StepOther ==
  /\ ~IsWatchdogIot(Fetched(cpu))
  /\ \E u \in Later(now) :
       /\ Step(TickSignal(wd, u))
       /\ wd' = Ticked(wd, u)
       /\ now' = u

MachineStep == StepWatchdogIot \/ StepOther

\* The operator's commands between two runs of the processor.  A reset does not
\* reach the watchdog.
Operator ==
  /\ \/ "continue" \in OperatorCommands /\ HostContinue
     \/ "go" \in OperatorCommands /\ \E a \in HostAddrs : HostStart(a)
     \/ "reset" \in OperatorCommands /\ HostReset
  /\ UNCHANGED <<wd, now>>

\* Time passes at the prompt of a halted processor.
Idle ==
  /\ cpu.halted
  /\ now' \in Later(now) \ {now}
  /\ UNCHANGED <<cpu, wd>>

MachineInit(program, start) ==
  /\ cpu = SetPc([PoweredUpCpu EXCEPT !.mem = program], start)
  /\ wd = NewWatchdog
  /\ now = 0

MachineNext == MachineStep \/ Operator \/ Idle

\* The run loop steps a processor that is not halted, and the clock moves on.
MachineFairness ==
  /\ WF_machineVars(MachineStep)
  /\ WF_machineVars(MachineStep /\ now' > now)

-----------------------------------------------------------------------------
\* The types of the processor and of the watchdog together.
MachineTypeOK ==
  /\ CpuTypeOK
  /\ wd \in WatchdogState
  /\ now \in Nat
=============================================================================
