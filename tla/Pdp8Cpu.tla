------------------------------ MODULE Pdp8Cpu ------------------------------
(***************************************************************************)
(* The processor of src/emulator/main.c with devices left abstract.  One    *)
(* step of pdp8_api_step is one action: fetch, advance PC, execute, skip,   *)
(* interrupt dispatch, tick handlers.  An IOT handler other than interrupt  *)
(* control may request a skip and load AC; a tick handler may raise one of  *)
(* Signals.  The front ends act between steps through the API.              *)
(***************************************************************************)
EXTENDS Pdp8Instructions

CONSTANTS
  DeviceWords,  \* words an IOT handler may load into AC
  HostWords,    \* words the front end deposits, or sets the switches to
  HostAddrs,    \* addresses the front end deposits at or starts from
  Minutes,      \* readings of the wall clock, minutes since midnight
  MaxPending    \* bound on the interrupt count, an int in the source

ASSUME CpuConstantsAssumption ==
  /\ DeviceWords \subseteq Word
  /\ HostWords \subseteq Word
  /\ HostAddrs \subseteq Nat
  /\ Minutes \subseteq 0 .. 1439
  /\ MaxPending \in Nat

VARIABLE cpu

cpuVars == <<cpu>>

\* The clock is read after the dispatch; a step ends with the tick handlers.
EndStep(c, signal) ==
  /\ signal = "interrupt" => Finish(c).pending < MaxPending
  /\ cpu' = Signalled(Finish(c), signal)

StepMemoryReference(signal) ==
  /\ CanStep(cpu)
  /\ Opcode(Fetched(cpu)) \in 0 .. 5
  /\ \E minutes \in Minutes :
       EndStep(MemoryReference(Advanced(cpu), Fetched(cpu), minutes), signal)

StepInterruptControl(signal) ==
  /\ CanStep(cpu)
  /\ Opcode(Fetched(cpu)) = 6
  /\ IotDevice(Fetched(cpu)) = InterruptControlCode
  /\ EndStep(InterruptControlIot(Advanced(cpu), Fetched(cpu)), signal)

\* A handler that skips, one that loads AC, one that does both, or a device
\* code nothing is registered for.
HandlerResults(c) ==
  LET loaded == {c} \cup {SetAc(c, v) : v \in DeviceWords}
  IN  loaded \cup {RequestSkip(l) : l \in loaded}

StepDevice(signal) ==
  /\ CanStep(cpu)
  /\ Opcode(Fetched(cpu)) = 6
  /\ IotDevice(Fetched(cpu)) # InterruptControlCode
  /\ \E c \in HandlerResults(Advanced(cpu)) : EndStep(c, signal)

StepOperate(signal) ==
  /\ CanStep(cpu)
  /\ Opcode(Fetched(cpu)) = 7
  /\ EndStep(Operate(Advanced(cpu), Fetched(cpu)), signal)

Step(signal) ==
  \/ StepMemoryReference(signal)
  \/ StepInterruptControl(signal)
  \/ StepDevice(signal)
  \/ StepOperate(signal)

\* What the front ends do through the API between two steps.
HostDeposit(a, v) == cpu' = WriteMem(cpu, a, v)

HostReset == cpu' = ResetCpu(cpu)

HostSwitches(v) == cpu' = SetSwitchRegister(cpu, v)

HostSetPc(a) == cpu' = SetPc(cpu, a)

HostContinue == cpu' = ClearHalt(cpu)

HostStart(a) == cpu' = ClearHalt(SetPc(cpu, a))

HostAccept == cpu' = ClearInterruptPending(cpu)

Host ==
  \/ \E a \in HostAddrs, v \in HostWords : HostDeposit(a, v)
  \/ HostReset
  \/ \E v \in HostWords : HostSwitches(v)
  \/ \E a \in HostAddrs : HostSetPc(a) \/ HostStart(a)
  \/ HostContinue
  \/ HostAccept

CpuInit == cpu = PoweredUpCpu

CpuNext == (\E signal \in Signals : Step(signal)) \/ Host

CpuSpec == CpuInit /\ [][CpuNext]_cpuVars

-----------------------------------------------------------------------------
\* Type correctness of struct pdp8: PC stays inside memory, registers and
\* memory within twelve bits, the interrupt count is never negative.
CpuTypeOK == cpu \in CpuState

\* No skip is left over between two steps: a skip an instruction or a device
\* asks for is applied in that same step, never to the instruction after an
\* interrupt, a reset or a halt.
SkipSettled == ~cpu.skip

\* The processor states one instruction may leave before the tick handlers run.
Outcomes(c) ==
  LET w == Fetched(c)
      a == Advanced(c)
  IN  { Finish(e) :
          e \in CASE Opcode(w) = 7 -> {Operate(a, w)}
                 [] Opcode(w) = 6 /\ IotDevice(w) = InterruptControlCode ->
                      {InterruptControlIot(a, w)}
                 [] Opcode(w) = 6 /\ IotDevice(w) # InterruptControlCode -> HandlerResults(a)
                 [] OTHER -> {MemoryReference(a, w, m) : m \in Minutes} }

\* Every interrupt dispatch is resumable: it leaves in words 06, 07 and 010 the
\* AC, PC and LINK the same instruction would have left had nothing been
\* pending, skip included; it disturbs nothing else, takes one request and
\* enters 020 with interrupts off (pdp8_api_step, "Interrupt dispatch").
ResumePointSaved ==
  CanStep(cpu) =>
    \A d \in Outcomes(cpu) :
      d.pending # cpu.pending =>
        /\ d.pc = \o20 /\ ~d.ion
        /\ d.pending = cpu.pending - 1
        /\ \E r \in Outcomes([cpu EXCEPT !.pending = 0]) :
             /\ d.mem = [r.mem EXCEPT ![\o6] = r.ac, ![\o7] = r.pc,
                                      ![\o10] = r.link]
             /\ d.halted = r.halted
=============================================================================
