--------------------------- MODULE MachineProofs ---------------------------
(***************************************************************************)
(* The processor and the watchdog together: both keep their types, and      *)
(* every step of the machine is a step of the processor with abstract       *)
(* devices, so that what holds of Pdp8Cpu holds here.  Then the two guests  *)
(* of MCGuests, whatever the clock, the keyboard and the operator do: the   *)
(* invariant says at which points of its program each may be, and what the  *)
(* watchdog is doing meanwhile.                                             *)
(***************************************************************************)
EXTENDS MCGuests, Pdp8CpuProofs

-----------------------------------------------------------------------------
(* Types of what the watchdog's handlers return.                            *)

LEMMA DeltaType ==
  ASSUME NEW d \in WatchdogState
  PROVE  /\ Delta(d) \in Nat
         /\ d.count = 0 => Delta(d) = 0
<1>1. d.count \in Nat /\ Decisecond \in Nat
  BY DecisecondAssumption DEF WatchdogState, Counts
<1>2. d.count * Decisecond \in Nat
  BY <1>1
<1> QED
  BY <1>1, <1>2 DEF Delta

LEMMA WatchdogIotType ==
  ASSUME NEW d \in WatchdogState, NEW func, NEW ac \in Word, NEW t \in Nat
  PROVE  WatchdogIot(d, func, ac, t) \in WatchdogState
<1>1. PICK cmd \in Commands : cmd = ac \div \o1000
  BY DEF Commands, Word
<1>2. PICK count \in Counts : count = ac % \o1000
  BY DEF Counts, Word
<1>3. PICK k \in Nat : k = count * Decisecond
  BY DecisecondAssumption DEF Counts
<1>4. Written(d, ac, t) \in WatchdogState
  <2>1. PICK old \in Nat : old = d.expiry
    BY DEF WatchdogState
  <2>2. Written(d, ac, t)
          = [ count |-> count, cmd |-> cmd, enabled |-> cmd # Disable,
              expired |-> FALSE,
              expiry |-> IF cmd # Disable THEN t + k ELSE old ]
    BY <1>1, <1>2, <1>3, <2>1 DEF Written
  <2> QED
    BY <2>2 DEF WatchdogState
<1>5. Restarted(d, t) \in WatchdogState
  BY DeltaType DEF Restarted, WatchdogState
<1> QED
  BY <1>4, <1>5 DEF WatchdogIot

LEMMA TickedType ==
  ASSUME NEW d \in WatchdogState, NEW t \in Nat
  PROVE  Ticked(d, t) \in WatchdogState
<1>1. Fired(d) \in WatchdogState
  BY DEF Fired, WatchdogState, Periodic
<1>2. Delta(d) \in Nat
  BY DeltaType
<1>3. Rescheduled(d, t) \in WatchdogState
  BY <1>2 DEF Rescheduled, WatchdogState, LatchesFlag
<1> QED
  BY <1>1, <1>3 DEF Ticked

\* What READ loads into AC is a word.
LEMMA ControlWordType ==
  ASSUME NEW d \in WatchdogState
  PROVE  ControlWord(d) \in Word
  BY DEF ControlWord, WatchdogState, Commands, Counts, Word

-----------------------------------------------------------------------------
(* The machine.                                                             *)

MachineInv == CpuInv /\ wd \in WatchdogState /\ now \in Nat

LEMMA ClockType ==
  ASSUME NEW t \in Nat, NEW u \in Later(t)
  PROVE  u \in Nat
  BY MachineConstantsAssumption DEF Later

LEMMA MachineInitEstablishes ==
  ASSUME NEW program \in [Addr -> Word], NEW start \in Nat,
         MachineInit(program, start)
  PROVE  MachineInv
<1> DEFINE p == PoweredUpCpu
<1>1. p \in CpuState /\ ~p.skip
  BY PoweredUpType
<1> HIDE DEF p
<1>2. /\ [p EXCEPT !.mem = program] \in CpuState
      /\ ~[p EXCEPT !.mem = program].skip
  BY <1>1, SetMemType DEF SetMem
<1>3. cpu = SetPc([p EXCEPT !.mem = program], start)
  BY DEF MachineInit, p
<1>4. cpu \in CpuState /\ ~cpu.skip
  <2>1. start \in Int
    OBVIOUS
  <2>2. /\ SetPc([p EXCEPT !.mem = program], start) \in CpuState
        /\ ~SetPc([p EXCEPT !.mem = program], start).skip
    BY <1>2, <2>1, SetPcType
  <2> QED
    BY <1>3, <2>2
<1>5. NewWatchdog \in WatchdogState
  BY DEF NewWatchdog, WatchdogState, Counts, Commands, Disable
<1> QED
  BY <1>4, <1>5 DEF MachineInit, MachineInv, CpuInv, CpuTypeOK, SkipSettled

\* What a watchdog IOT does to the processor is something an abstract device
\* may do, provided it may load every word.
LEMMA WatchdogIotCpuType ==
  ASSUME NEW c \in CpuState, NEW d \in WatchdogState, NEW w \in Word
  PROVE  WatchdogIotCpu(c, d, w) \in CpuState
<1>1. ControlWord(d) \in Int
  BY ControlWordType, WordIsNat
<1> QED
  BY <1>1, RequestSkipType, SetAcType DEF WatchdogIotCpu

LEMMA StepWatchdogIotPreserves ==
  ASSUME MachineInv, StepWatchdogIot
  PROVE  MachineInv'
<1>1. cpu \in CpuState /\ wd \in WatchdogState /\ now \in Nat
  BY DEF MachineInv, CpuInv, CpuTypeOK
<1>2. PICK t \in Later(now) : \E u \in Later(t) : WatchdogIotAt(t, u)
  BY DEF StepWatchdogIot
<1>3. PICK u \in Later(t) : WatchdogIotAt(t, u)
  BY <1>2
<1>4. t \in Nat /\ u \in Nat
  BY <1>1, ClockType
<1> DEFINE w == Fetched(cpu)
           d == WatchdogIot(wd, IotFunction(w), cpu.ac, t)
           c == WatchdogIotCpu(Advanced(cpu), wd, w)
<1>5. w \in Word /\ Advanced(cpu) \in CpuState
  BY <1>1, AdvancedType
<1>6. cpu.ac \in Word
  BY <1>1, FieldTypes
<1>7. d \in WatchdogState
  BY <1>1, <1>4, <1>6, WatchdogIotType
<1>8. c \in CpuState
  BY <1>1, <1>5, WatchdogIotCpuType
<1>9. EndStep(c, TickSignal(d, u)) /\ wd' = Ticked(d, u) /\ now' = u
  BY <1>3 DEF WatchdogIotAt
<1> HIDE DEF c, d
<1>10. CpuInv'
  BY <1>8, <1>9, EndStepEstablishes
<1>11. wd' \in WatchdogState
  BY <1>4, <1>7, <1>9, TickedType
<1> QED
  BY <1>4, <1>9, <1>10, <1>11 DEF MachineInv

LEMMA StepOtherPreserves ==
  ASSUME MachineInv, StepOther
  PROVE  MachineInv'
<1>1. CpuInv /\ wd \in WatchdogState /\ now \in Nat
  BY DEF MachineInv
<1>2. PICK u \in Later(now) :
        Step(TickSignal(wd, u)) /\ wd' = Ticked(wd, u) /\ now' = u
  BY DEF StepOther
<1>3. u \in Nat
  BY <1>1, ClockType
<1>4. CpuInv'
  BY <1>1, <1>2, StepPreserves
<1>5. wd' \in WatchdogState
  BY <1>1, <1>2, <1>3, TickedType
<1> QED
  BY <1>2, <1>3, <1>4, <1>5 DEF MachineInv

LEMMA OperatorIsHost ==
  ASSUME Operator
  PROVE  Host /\ UNCHANGED <<wd, now>>
  BY DEF Operator, Host

LEMMA MachineNextPreserves == MachineInv /\ [MachineNext]_machineVars => MachineInv'
<1> SUFFICES ASSUME MachineInv, [MachineNext]_machineVars PROVE MachineInv'
  OBVIOUS
<1>1. CASE StepWatchdogIot
  BY <1>1, StepWatchdogIotPreserves
<1>2. CASE StepOther
  BY <1>2, StepOtherPreserves
<1>3. CASE Operator
  BY <1>3, OperatorIsHost, HostPreserves DEF MachineInv
<1>4. CASE Idle
  <2>1. PICK u \in Later(now) : now' = u
    BY <1>4 DEF Idle
  <2>2. now' \in Nat
    BY <2>1, ClockType DEF MachineInv
  <2> QED
    BY <1>4, <2>2 DEF Idle, MachineInv, CpuInv, CpuTypeOK, SkipSettled
<1>5. CASE UNCHANGED machineVars
  BY <1>5 DEF machineVars, MachineInv, CpuInv, CpuTypeOK, SkipSettled
<1> QED
  BY <1>1, <1>2, <1>3, <1>4, <1>5 DEF MachineNext, MachineStep

\* The machine keeps its types from any program and any starting address.
THEOREM MachineTypeCorrect ==
  ASSUME NEW program \in [Addr -> Word], NEW start \in Nat
  PROVE  MachineInit(program, start) /\ [][MachineNext]_machineVars
           => []MachineTypeOK
<1>1. MachineInit(program, start) => MachineInv
  BY MachineInitEstablishes
<1>2. MachineInv => MachineTypeOK
  BY DEF MachineInv, MachineTypeOK, CpuInv
<1> QED
  BY <1>1, <1>2, MachineNextPreserves, PTL

-----------------------------------------------------------------------------
(* Refinement of the processor with abstract devices.                       *)

LEMMA WatchdogIotIsDevice ==
  ASSUME MachineInv, StepWatchdogIot,
         \A d \in WatchdogState : ControlWord(d) \in DeviceWords
  PROVE  \E signal \in Signals : StepDevice(signal)
<1>1. PICK t \in Later(now) : \E u \in Later(t) : WatchdogIotAt(t, u)
  BY DEF StepWatchdogIot
<1>2. PICK u \in Later(t) : WatchdogIotAt(t, u)
  BY <1>1
<1> DEFINE w == Fetched(cpu)
           a == Advanced(cpu)
           c == WatchdogIotCpu(a, wd, w)
           s == TickSignal(WatchdogIot(wd, IotFunction(w), cpu.ac, t), u)
           loaded == {a} \cup {SetAc(a, v) : v \in DeviceWords}
<1>3. EndStep(c, s)
  BY <1>2 DEF WatchdogIotAt
<1>4. s \in Signals
  BY DEF TickSignal, SignalOf, Signals
<1>5. CanStep(cpu) /\ Opcode(w) = 6 /\ IotDevice(w) # InterruptControlCode
  BY DEF StepWatchdogIot, IsWatchdogIot, WatchdogCode, InterruptControlCode
<1>6. ControlWord(wd) \in DeviceWords
  BY DEF MachineInv
<1>7. HandlerResults(a) = loaded \cup {RequestSkip(l) : l \in loaded}
  BY DEF HandlerResults
<1>8. a \in loaded /\ SetAc(a, ControlWord(wd)) \in loaded
  BY <1>6
<1>9. c \in {a, RequestSkip(a), SetAc(a, ControlWord(wd))}
  BY DEF WatchdogIotCpu
<1> HIDE DEF a, c, loaded
<1>10. c \in HandlerResults(a)
  BY <1>7, <1>8, <1>9
<1>11. StepDevice(s)
  BY <1>3, <1>5, <1>10 DEF StepDevice, a
<1> QED
  BY <1>4, <1>11

\* Every step of the machine is a step of Pdp8Cpu or leaves the processor alone.
THEOREM MachineImplementsCpu ==
  ASSUME NEW program \in [Addr -> Word], NEW start \in Nat,
         \A d \in WatchdogState : ControlWord(d) \in DeviceWords
  PROVE  MachineInit(program, start) /\ [][MachineNext]_machineVars
           => [][CpuNext]_cpuVars
<1>1. MachineInit(program, start) => MachineInv
  BY MachineInitEstablishes
<1>2. MachineInv /\ [MachineNext]_machineVars => [CpuNext]_cpuVars
  <2> SUFFICES ASSUME MachineInv, [MachineNext]_machineVars
               PROVE  [CpuNext]_cpuVars
    OBVIOUS
  <2>1. CASE StepWatchdogIot
    BY <2>1, WatchdogIotIsDevice DEF CpuNext, Step
  <2>2. CASE StepOther
    <3>1. PICK u \in Later(now) : Step(TickSignal(wd, u))
      BY <2>2 DEF StepOther
    <3>2. TickSignal(wd, u) \in Signals
      BY DEF TickSignal, SignalOf, Signals
    <3> QED
      BY <3>1, <3>2 DEF CpuNext
  <2>3. CASE Operator
    BY <2>3, OperatorIsHost DEF CpuNext
  <2>4. CASE Idle
    BY <2>4 DEF Idle, cpuVars
  <2>5. CASE UNCHANGED machineVars
    BY <2>5 DEF machineVars, cpuVars
  <2> QED
    BY <2>1, <2>2, <2>3, <2>4, <2>5 DEF MachineNext, MachineStep
<1> QED
  BY <1>1, <1>2, MachineNextPreserves, PTL

-----------------------------------------------------------------------------
(* What a step of the machine does, seen from the guest program: the        *)
(* instruction ends in s and leaves the watchdog as d, then the interrupt   *)
(* dispatch, then the watchdog's tick at u.                                 *)

\* What an instruction of c may end in, and what it leaves of the watchdog w.
MachineSettled(c, w, s, d) ==
  \/ ~IsWatchdogIot(Fetched(c)) /\ s \in Settled(c) /\ d = w
  \/ /\ IsWatchdogIot(Fetched(c))
     /\ s = ApplySkip(WatchdogIotCpu(Advanced(c), w, Fetched(c)))
     /\ \E t \in Nat : d = WatchdogIot(w, IotFunction(Fetched(c)), c.ac, t)

LEMMA MachineStepTaken ==
  ASSUME MachineInv, MachineStep
  PROVE  /\ ~cpu.halted
         /\ \E s, d : \E u \in Nat :
              /\ MachineSettled(cpu, wd, s, d)
              /\ cpu' = Signalled(Dispatch(s), TickSignal(d, u))
              /\ wd' = Ticked(d, u)
<1>1. CpuInv /\ now \in Nat
  BY DEF MachineInv
<1>2. CASE StepWatchdogIot
  <2>1. PICK t \in Later(now) : \E u \in Later(t) : WatchdogIotAt(t, u)
    BY <1>2 DEF StepWatchdogIot
  <2>2. PICK u \in Later(t) : WatchdogIotAt(t, u)
    BY <2>1
  <2>3. t \in Nat /\ u \in Nat
    BY <1>1, ClockType
  <2> DEFINE w == Fetched(cpu)
             d == WatchdogIot(wd, IotFunction(w), cpu.ac, t)
             e == WatchdogIotCpu(Advanced(cpu), wd, w)
  <2>4. EndStep(e, TickSignal(d, u)) /\ wd' = Ticked(d, u)
    BY <2>2 DEF WatchdogIotAt
  <2>5. ~cpu.halted /\ IsWatchdogIot(w)
    BY <1>2 DEF StepWatchdogIot, CanStep
  <2>6. MachineSettled(cpu, wd, ApplySkip(e), d)
    BY <2>3, <2>5 DEF MachineSettled
  <2> HIDE DEF d, e
  <2>7. cpu' = Signalled(Dispatch(ApplySkip(e)), TickSignal(d, u))
    BY <2>4 DEF EndStep, Finish
  <2> QED
    BY <2>3, <2>4, <2>5, <2>6, <2>7
<1>3. CASE StepOther
  <2>1. PICK u \in Later(now) : Step(TickSignal(wd, u)) /\ wd' = Ticked(wd, u)
    BY <1>3 DEF StepOther
  <2>2. u \in Nat
    BY <1>1, ClockType
  <2>3. PICK s \in Settled(cpu) : cpu' = Signalled(Dispatch(s), TickSignal(wd, u))
    BY <1>1, <2>1, StepTaken
  <2>4. CanStep(cpu)
    BY <1>1, <2>1, StepTaken
  <2>5. MachineSettled(cpu, wd, s, wd)
    BY <1>3 DEF MachineSettled, StepOther
  <2> QED
    BY <2>1, <2>2, <2>3, <2>4, <2>5 DEF CanStep
<1> QED
  BY <1>2, <1>3 DEF MachineStep

\* Away from the watchdog the instruction is the processor's alone.
LEMMA OtherSettles ==
  ASSUME NEW c, NEW w, NEW s, NEW d, MachineSettled(c, w, s, d),
         ~IsWatchdogIot(Fetched(c))
  PROVE  s \in Settled(c) /\ d = w
  BY DEF MachineSettled

\* The watchdog's skip: taken when the flag is set, and nothing else changes.
LEMMA IskSettles ==
  ASSUME NEW c \in CpuState, NEW w \in WatchdogState, NEW s, NEW d,
         MachineSettled(c, w, s, d), Fetched(c) = \o6551, w.expired,
         ~c.skip, c.pc + 1 \in Addr, c.pc + 2 \in Addr
  PROVE  Leaves(c, s, c.pc + 2, c.ac, c.link, c.mem) /\ d = w
<1> DEFINE x == Advanced(c)
<1>1. Leaves(c, x, c.pc + 1, c.ac, c.link, c.mem) /\ c.pc \in Int
  BY Advancing, FieldInts
<1>2. IsWatchdogIot(\o6551) /\ IotFunction(\o6551) = 1
  BY DEF IsWatchdogIot, Opcode, IotDevice, WatchdogCode, IotFunction
<1>3. s = ApplySkip(WatchdogIotCpu(x, w, \o6551)) /\ d = WatchdogIot(w, 1, c.ac, 0) 
  <2>1. PICK t \in Nat : d = WatchdogIot(w, 1, c.ac, t)
    BY <1>2 DEF MachineSettled
  <2>2. WatchdogIot(w, 1, c.ac, t) = WatchdogIot(w, 1, c.ac, 0)
    BY DEF WatchdogIot, FuncWrite, FuncRestart
  <2> QED
    BY <1>2, <2>1, <2>2 DEF MachineSettled
<1> HIDE DEF x
<1>4. WatchdogIotCpu(x, w, \o6551) = RequestSkip(x)
  BY <1>2 DEF WatchdogIotCpu, FuncIsk, FuncRead
<1>5. WatchdogIot(w, 1, c.ac, 0) = w
  BY DEF WatchdogIot, FuncWrite, FuncRestart
<1>6. (c.pc + 1) + 1 = c.pc + 2
  BY <1>1
<1>7. Leaves(c, ApplySkip(RequestSkip(x)), (c.pc + 1) + 1, c.ac, c.link, c.mem)
  BY <1>1, <1>6, SkipLeaves
<1> QED
  BY <1>3, <1>4, <1>5, <1>6, <1>7

\* The watchdog's WRITE and RESTART touch nothing of the processor.
LEMMA WriteSettles ==
  ASSUME NEW c \in CpuState, NEW w \in WatchdogState, NEW s, NEW d,
         MachineSettled(c, w, s, d), Fetched(c) = \o6552,
         ~c.skip, c.pc + 1 \in Addr
  PROVE  /\ Leaves(c, s, c.pc + 1, c.ac, c.link, c.mem)
         /\ \E t \in Nat : d = Written(w, c.ac, t)
<1> DEFINE x == Advanced(c)
<1>1. Leaves(c, x, c.pc + 1, c.ac, c.link, c.mem)
  BY Advancing
<1>2. IsWatchdogIot(\o6552) /\ IotFunction(\o6552) = 2
  BY DEF IsWatchdogIot, Opcode, IotDevice, WatchdogCode, IotFunction
<1>3. /\ s = ApplySkip(WatchdogIotCpu(x, w, \o6552))
      /\ \E t \in Nat : d = WatchdogIot(w, 2, c.ac, t)
  BY <1>2 DEF MachineSettled
<1> HIDE DEF x
<1>4. WatchdogIotCpu(x, w, \o6552) = x
  BY <1>2 DEF WatchdogIotCpu, FuncIsk, FuncRead
<1>5. \A t \in Nat : WatchdogIot(w, 2, c.ac, t) = Written(w, c.ac, t)
  BY DEF WatchdogIot, FuncWrite, FuncRestart
<1> QED
  BY <1>1, <1>3, <1>4, <1>5, SkipLeaves

LEMMA RestartSettles ==
  ASSUME NEW c \in CpuState, NEW w \in WatchdogState, NEW s, NEW d,
         MachineSettled(c, w, s, d), Fetched(c) = \o6554,
         ~c.skip, c.pc + 1 \in Addr
  PROVE  /\ Leaves(c, s, c.pc + 1, c.ac, c.link, c.mem)
         /\ \E t \in Nat : d = Restarted(w, t)
<1> DEFINE x == Advanced(c)
<1>1. Leaves(c, x, c.pc + 1, c.ac, c.link, c.mem)
  BY Advancing
<1>2. IsWatchdogIot(\o6554) /\ IotFunction(\o6554) = 4
  BY DEF IsWatchdogIot, Opcode, IotDevice, WatchdogCode, IotFunction
<1>3. /\ s = ApplySkip(WatchdogIotCpu(x, w, \o6554))
      /\ \E t \in Nat : d = WatchdogIot(w, 4, c.ac, t)
  BY <1>2 DEF MachineSettled
<1> HIDE DEF x
<1>4. WatchdogIotCpu(x, w, \o6554) = x
  BY <1>2 DEF WatchdogIotCpu, FuncIsk, FuncRead
<1>5. \A t \in Nat : WatchdogIot(w, 4, c.ac, t) = Restarted(w, t)
  BY DEF WatchdogIot, FuncWrite, FuncRestart
<1> QED
  BY <1>1, <1>3, <1>4, <1>5, SkipLeaves

\* The watchdog after any of its operations keeps its type.
LEMMA MachineSettledType ==
  ASSUME NEW c \in CpuState, NEW w \in WatchdogState, NEW s, NEW d,
         MachineSettled(c, w, s, d)
  PROVE  d \in WatchdogState
  BY FieldTypes, WatchdogIotType DEF MachineSettled

LEMMA MachineSettledCpu ==
  ASSUME NEW c \in CpuState, NEW w \in WatchdogState, NEW s, NEW d,
         MachineSettled(c, w, s, d)
  PROVE  s \in CpuState /\ Dispatch(s) \in CpuState
<1>1. s \in CpuState
  <2>1. CASE ~IsWatchdogIot(Fetched(c))
    BY <2>1, SettledType DEF MachineSettled
  <2>2. CASE IsWatchdogIot(Fetched(c))
    <3>1. Advanced(c) \in CpuState /\ Fetched(c) \in Word
      BY AdvancedType
    <3>2. WatchdogIotCpu(Advanced(c), w, Fetched(c)) \in CpuState
      BY <3>1, WatchdogIotCpuType
    <3> QED
      BY <2>2, <3>2, ApplySkipType DEF MachineSettled
  <2> QED
    BY <2>1, <2>2
<1> QED
  BY <1>1, DispatchType

-----------------------------------------------------------------------------
(* The tick.                                                                *)

\* Either the watchdog does not ring, or it was enabled and asks for what its
\* command says.
LEMMA TickTaken ==
  ASSUME NEW d \in WatchdogState, NEW u \in Nat, NEW t, t = Ticked(d, u)
  PROVE  \/ t = d /\ TickSignal(d, u) = "none"
         \/ /\ d.enabled /\ TickSignal(d, u) = SignalOf(d.cmd)
            /\ t.cmd = d.cmd /\ t.count = d.count
            /\ t.enabled <=> Periodic(d.cmd)
            /\ ~Periodic(d.cmd) => t.expired
<1>1. CASE ~Fires(d, u)
  BY <1>1 DEF Ticked, TickSignal
<1>2. CASE Fires(d, u)
  <2>1. d.enabled /\ TickSignal(d, u) = SignalOf(d.cmd)
    BY <1>2 DEF Fires, TickSignal
  <2>2. t = IF Periodic(d.cmd) /\ d.count # 0 THEN Rescheduled(d, u) ELSE Fired(d)
    BY <1>2 DEF Ticked
  <2>3. CASE Periodic(d.cmd) /\ d.count # 0
    <3>1. t = Rescheduled(d, u)
      BY <2>2, <2>3
    <3>2. t.cmd = d.cmd /\ t.count = d.count /\ t.enabled
      BY <3>1 DEF Rescheduled
    <3> QED
      BY <2>1, <2>3, <3>2
  <2>4. CASE ~(Periodic(d.cmd) /\ d.count # 0)
    <3>1. t = Fired(d)
      BY <2>2, <2>4
    <3>2. t.cmd = d.cmd /\ t.count = d.count /\ t.enabled = Periodic(d.cmd) /\ t.expired
      BY <3>1 DEF Fired
    <3> QED
      BY <2>1, <3>2
  <2> QED
    BY <2>3, <2>4
<1> QED
  BY <1>1, <1>2

-----------------------------------------------------------------------------
(* The points the two guests may be at.                                     *)

\* The words of the first guest that nothing may change.
PollingText(m) ==
  /\ m[\o20] = \o6551 /\ m[\o22] = \o4030 /\ m[\o23] = \o6031
  /\ m[\o24] = \o5026 /\ m[\o25] = \o4034 /\ m[\o26] = \o6001 /\ m[\o27] = \o5407
  /\ m[\o31] = \o2037 /\ m[\o32] = \o5430 /\ m[\o35] = \o5434
  /\ m[\o40] = \o1044 /\ m[\o41] = \o6552 /\ m[\o42] = \o6001 /\ m[\o43] = \o5043
  /\ m[\o44] \in PollingControls

\* The countdown to the interrupt is running; the interrupt has been raised.
Waiting(d) == d.cmd = IntrOneShot /\ d.enabled /\ ~d.expired
Rung(d) == d.cmd = IntrOneShot /\ ~d.enabled /\ d.expired

\* Before WRITE.
Arming(c, d) ==
  /\ c.pc \in {\o40, \o41} /\ ~c.ion
  /\ c.ac = IF c.pc = \o40 THEN 0 ELSE c.mem[\o44]
  /\ ~d.enabled /\ ~d.expired /\ c.pending = 0 /\ c.mem[\o37] = 0

\* Waiting for the interrupt, or about to be interrupted, or back for good.
InLoop(c, d) ==
  /\ c.pc \in {\o42, \o43} /\ (c.ion <=> c.pc = \o43)
  /\ \/ Waiting(d) /\ c.pending = 0 /\ c.mem[\o37] = 0
     \/ Rung(d) /\ c.pending = 1 /\ c.mem[\o37] = 0
     \/ Rung(d) /\ c.pending = 0 /\ c.mem[\o37] = 1 /\ c.pc = \o43

\* In the service routine or one of its handlers.
InRoutine(c, d) ==
  /\ c.pc \in {\o20, \o22, \o31, \o32, \o23, \o24, \o25, \o35, \o26, \o27}
  /\ (c.ion <=> c.pc = \o27)
  /\ Rung(d) /\ c.pending = 0 /\ c.mem[\o7] = \o43
  /\ c.mem[\o37] = IF c.pc \in {\o20, \o22, \o31} THEN 0 ELSE 1
  /\ c.pc \in {\o31, \o32} => c.mem[\o30] = \o23
  /\ c.pc = \o35 => c.mem[\o34] = \o26

PollingPoint(c, d) ==
  /\ PollingText(c.mem) /\ ~c.halted
  /\ Arming(c, d) \/ InLoop(c, d) \/ InRoutine(c, d)

GuardedText(m) ==
  /\ m[0] = \o7300 /\ m[1] = \o1016 /\ m[2] = \o6552 /\ m[3] = \o6031
  /\ m[4] = \o5007 /\ m[5] = \o6554 /\ m[6] = \o5003 /\ m[7] = \o5007
  /\ m[\o16] \in GuardedControls
  /\ m[\o20] = 0 /\ m[\o37] = 0

\* The control word is written; the watchdog counts down, or it is a one-shot
\* that has rung, and after a reset the guest is on its way to WRITE again.
Armed(c, d) ==
  /\ d.cmd = c.mem[\o16] \div \o1000 /\ d.count = c.mem[\o16] % \o1000
  /\ d.enabled \/ (d.expired /\ ~Periodic(d.cmd))
  /\ d.cmd = ResetOneShot /\ d.expired => c.pc \in 0 .. 2

GuardedPoint(c, d) ==
  /\ GuardedText(c.mem) /\ ~c.ion
  /\ c.pc \in 0 .. 7
  /\ c.pc = 1 => c.ac = 0
  /\ c.pc = 2 => c.ac = c.mem[\o16]
  /\ (c.pc \in 0 .. 2 /\ d.cmd = Disable /\ ~d.enabled) \/ Armed(c, d)

\* What a reset by the operator leaves.
ClearedPoint(c) == c.mem = [a \in Addr |-> 0] /\ ~c.ion

LEMMA LowWords ==
  ASSUME NEW a \in 0 .. \o44
  PROVE  a \in Addr /\ a # WallClockAddress
  BY MemWordsAssumption, GuestsFitAssumption, WallClockAssumption DEF Addr

LEMMA Undispatched ==
  ASSUME NEW s, s.pending = 0 \/ ~s.ion
  PROVE  Dispatch(s) = s
<1>1. ~WillDispatch(s)
  <2>1. CASE s.pending = 0
    <3>1. ~(0 > 0)
      OBVIOUS
    <3> QED
      BY <2>1, <3>1, Zenon DEF WillDispatch
  <2>2. CASE ~s.ion
    BY <2>2, Zenon DEF WillDispatch
  <2> QED
    BY <2>1, <2>2
<1> QED
  BY <1>1, Zenon DEF Dispatch

\* The words the polling guest and its interrupts write.
PollingData == {\o6, \o7, \o10, \o30, \o34, \o37}

LEMMA PollingWritten ==
  ASSUME NEW m, PollingText(m), NEW n, \A b \in Addr \ PollingData : n[b] = m[b]
  PROVE  PollingText(n)
<1>1. \A b \in 0 .. \o44 : b \in Addr
  BY LowWords
<1>2. \A b \in {\o20, \o22, \o23, \o24, \o25, \o26, \o27, \o31, \o32, \o35,
                \o40, \o41, \o42, \o43, \o44} : n[b] = m[b]
  BY <1>1 DEF PollingData
<1> QED
  BY <1>2 DEF PollingText

-----------------------------------------------------------------------------
(* The polling guest.                                                       *)

\* TAD 044; WRITE: the watchdog counts down to an interrupt.
LEMMA ArmingStep ==
  ASSUME NEW c \in CpuState, ~c.skip, NEW w \in WatchdogState,
         PollingText(c.mem), ~c.halted, Arming(c, w),
         \A v \in PollingControls : v \div \o1000 = IntrOneShot,
         NEW s, NEW d, MachineSettled(c, w, s, d)
  PROVE  PollingPoint(Dispatch(s), d)
<1> DEFINE m == c.mem
<1>1. /\ m[\o40] = \o1044 /\ m[\o41] = \o6552 /\ m[\o44] \in PollingControls
      /\ Fetched(c) = m[c.pc]
  BY DEF PollingText, Fetched
<1>2. c.pc + 1 \in Addr /\ \o44 \in Addr /\ \o44 # WallClockAddress
  BY LowWords DEF Arming
<1>3. /\ c.pc \in {\o40, \o41} /\ ~c.ion /\ ~w.enabled /\ ~w.expired /\ c.pending = 0
      /\ m[\o37] = 0
      /\ c.ac = IF c.pc = \o40 THEN 0 ELSE m[\o44]
  BY DEF Arming
<1>4. m[\o44] \in Word
  BY <1>1, GuestsFitAssumption
<1> HIDE DEF m
<1>5. CASE c.pc = \o40
  <2>1. Fetched(c) = \o1044 /\ c.ac = 0
    BY <1>1, <1>3, <1>5
  <2>2. Opcode(\o1044) = 1 /\ Direct(\o1044, \o44) /\ ~IsWatchdogIot(\o1044)
    BY DEF Opcode, Direct, Indirect, Has, IsWatchdogIot
  <2>3. s \in Settled(c) /\ d = w
    BY <2>1, <2>2, OtherSettles
  <2>4. Leaves(c, s, c.pc + 1, MaskWord(c.ac + m[\o44]),
               IF c.ac + m[\o44] > \o7777 THEN (c.link + 1) % 2 ELSE c.link, m)
    BY <1>2, <2>1, <2>2, <2>3, TadLeaves DEF m
  <2>5. MaskWord(c.ac + m[\o44]) = m[\o44]
    BY <1>4, <2>1, MaskSmall, WordIsNat
  <2>6. s.pc = \o41 /\ s.ac = m[\o44] /\ s.mem = m /\ s.pending = 0 /\ ~s.ion /\ ~s.halted
    BY <1>3, <1>5, <2>4, <2>5 DEF Leaves
  <2>7. Arming(s, d)
    BY <1>3, <2>3, <2>6 DEF Arming
  <2>8. Dispatch(s) = s
    BY <2>6, Undispatched
  <2> QED
    BY <2>6, <2>7, <2>8 DEF PollingPoint, m
<1>6. CASE c.pc = \o41
  <2>1. Fetched(c) = \o6552 /\ c.ac = m[\o44]
    BY <1>1, <1>3, <1>6
  <2>2. Leaves(c, s, c.pc + 1, c.ac, c.link, m)
    BY <1>2, <2>1, WriteSettles DEF m
  <2>3. PICK t \in Nat : d = Written(w, c.ac, t)
    BY <1>2, <2>1, WriteSettles
  <2>4. s.pc = \o42 /\ s.mem = m /\ s.pending = 0 /\ ~s.ion /\ ~s.halted
    BY <1>3, <1>6, <2>2 DEF Leaves
  <2>5. m[\o44] \div \o1000 = IntrOneShot
    BY <1>1
  <2>6. Waiting(d)
    <3>1. d.cmd = IntrOneShot
      BY <2>1, <2>3, <2>5 DEF Written
    <3>2. d.enabled = (IntrOneShot # Disable) /\ d.expired = FALSE
      BY <2>1, <2>3, <2>5 DEF Written
    <3>3. IntrOneShot # Disable
      BY DEF IntrOneShot, Disable
    <3>4. d.enabled /\ ~d.expired
      BY <3>2, <3>3, Zenon
    <3> QED
      BY <3>1, <3>4, Zenon DEF Waiting
  <2>7. InLoop(s, d)
    BY <1>3, <2>4, <2>6 DEF InLoop
  <2>8. Dispatch(s) = s
    BY <2>4, Undispatched
  <2> QED
    BY <2>4, <2>7, <2>8 DEF PollingPoint, m
<1> QED
  BY <1>3, <1>5, <1>6

\* The interrupt leaves the loop for the routine, and 07 points back to it.
LEMMA LoopInterrupted ==
  ASSUME NEW s \in CpuState, ~s.halted, PollingText(s.mem), s.ion, s.pc = \o43,
         s.pending = 1, s.mem[\o37] = 0, NEW d, Rung(d)
  PROVE  PollingPoint(Dispatch(s), d)
<1> DEFINE e == Dispatch(s)
<1>1. s.mem \in [Addr -> Word]
  BY FieldTypes
<1>2. WillDispatch(s)
  BY DEF WillDispatch
<1>3. /\ e.pc = \o20 /\ ~e.ion /\ e.pending = s.pending - 1 /\ e.halted = s.halted
      /\ e.mem = [s.mem EXCEPT ![\o6] = s.ac, ![\o7] = s.pc, ![\o10] = s.link]
  BY <1>2, DispatchTaken
<1> HIDE DEF e
<1>4. PollingText(e.mem) /\ e.mem[\o37] = 0 /\ e.mem[\o7] = \o43
  <2>1. PICK m \in [Addr -> Word] : m = s.mem
    BY <1>1
  <2>2. PICK n : n = e.mem
    OBVIOUS
  <2>3. n = [m EXCEPT ![\o6] = s.ac, ![\o7] = s.pc, ![\o10] = s.link]
    BY <1>3, <2>1, <2>2
  <2>4. \A b \in Addr \ {\o6, \o7, \o10} : n[b] = m[b]
    BY <2>1, <2>3
  <2>5. n[\o7] = \o43 /\ n[\o37] = m[\o37]
    <3>1. \o7 \in Addr /\ \o37 \in Addr
      BY LowWords
    <3> QED
      BY <2>1, <2>3, <3>1
  <2>6. PollingText(n)
    BY <2>1, <2>4, PollingWritten DEF PollingData
  <2> QED
    BY <2>1, <2>2, <2>5, <2>6
<1>5. e.pending = 0
  BY <1>3
<1>6. InRoutine(e, d)
  BY <1>3, <1>4, <1>5 DEF InRoutine
<1> QED
  BY <1>3, <1>4, <1>6 DEF PollingPoint, e

\* ION and the loop: the request is dispatched as soon as interrupts are on.
LEMMA LoopStep ==
  ASSUME NEW c \in CpuState, ~c.skip, NEW w \in WatchdogState,
         PollingText(c.mem), ~c.halted, InLoop(c, w),
         NEW s, NEW d, MachineSettled(c, w, s, d)
  PROVE  PollingPoint(Dispatch(s), d)
<1> DEFINE m == c.mem
<1>1. m[\o42] = \o6001 /\ m[\o43] = \o5043 /\ Fetched(c) = m[c.pc]
  BY DEF PollingText, Fetched
<1>2. c.pc + 1 \in Addr /\ \o43 \in Addr /\ c.pc \in {\o42, \o43}
  BY LowWords DEF InLoop
<1>3. /\ s \in CpuState /\ s.pc = \o43 /\ s.ion /\ s.mem = m /\ ~s.halted
      /\ s.pending = c.pending /\ d = w
  <2>1. CASE c.pc = \o42
    <3>1. Fetched(c) = \o6001
      BY <1>1, <2>1
    <3>2. ~IsWatchdogIot(\o6001)
      BY DEF IsWatchdogIot, IotDevice, WatchdogCode
    <3>3. s \in Settled(c) /\ d = w
      BY <3>1, <3>2, OtherSettles
    <3> QED
      BY <1>2, <2>1, <3>1, <3>3, IonLeaves
  <2>2. CASE c.pc = \o43
    <3>1. Fetched(c) = \o5043
      BY <1>1, <2>2
    <3>2. Opcode(\o5043) = 5 /\ Direct(\o5043, \o43) /\ ~IsWatchdogIot(\o5043)
      BY DEF Opcode, Direct, Indirect, Has, IsWatchdogIot
    <3>3. s \in Settled(c) /\ d = w
      BY <3>1, <3>2, OtherSettles
    <3>4. Leaves(c, s, \o43, c.ac, c.link, c.mem)
      BY <1>2, <3>1, <3>2, <3>3, JmpLeaves
    <3> QED
      BY <2>2, <3>3, <3>4 DEF Leaves, InLoop
  <2> QED
    BY <1>2, <2>1, <2>2
<1>4. CASE c.pending = 1 /\ Rung(w) /\ m[\o37] = 0
  BY <1>3, <1>4, LoopInterrupted DEF m
<1>5. CASE c.pending = 0
  <2>1. Dispatch(s) = s
    BY <1>3, <1>5, Undispatched
  <2>2. InLoop(s, d)
    BY <1>3, <1>5 DEF InLoop, m
  <2> QED
    BY <1>3, <2>1, <2>2 DEF PollingPoint, m
<1> QED
  BY <1>4, <1>5 DEF InLoop, m

\* The routine from one of its instructions to the next, its words kept.
LEMMA RoutineGoesOn ==
  ASSUME NEW c, ~c.halted, NEW w, InRoutine(c, w), c.pc # \o27,
         NEW s, NEW pc, NEW ac, NEW link, NEW m, Leaves(c, s, pc, ac, link, m),
         PollingText(m), m[\o7] = \o43,
         \/ pc \in {\o22, \o31} /\ m[\o37] = 0
         \/ pc \in {\o32, \o23, \o24, \o25, \o35, \o26} /\ m[\o37] = 1,
         pc \in {\o31, \o32} => m[\o30] = \o23,
         pc = \o35 => m[\o34] = \o26
  PROVE  PollingPoint(Dispatch(s), w)
<1>1. /\ s.pc = pc /\ s.mem = m /\ s.pending = 0 /\ ~s.ion /\ ~s.halted
  BY DEF Leaves, InRoutine
<1>2. InRoutine(s, w)
  BY <1>1 DEF InRoutine
<1>3. Dispatch(s) = s
  BY <1>1, Undispatched
<1> QED
  BY <1>1, <1>2, <1>3 DEF PollingPoint

LEMMA RoutineStep ==
  ASSUME NEW c \in CpuState, ~c.skip, NEW w \in WatchdogState,
         PollingText(c.mem), ~c.halted, InRoutine(c, w),
         NEW s, NEW d, MachineSettled(c, w, s, d)
  PROVE  PollingPoint(Dispatch(s), d)
<1> DEFINE m == c.mem
<1>1. /\ m[\o20] = \o6551 /\ m[\o22] = \o4030 /\ m[\o23] = \o6031
      /\ m[\o24] = \o5026 /\ m[\o25] = \o4034 /\ m[\o26] = \o6001 /\ m[\o27] = \o5407
      /\ m[\o31] = \o2037 /\ m[\o32] = \o5430 /\ m[\o35] = \o5434
      /\ Fetched(c) = m[c.pc] /\ m \in [Addr -> Word] /\ PollingText(m)
  BY FieldTypes DEF PollingText, Fetched
<1>2. \A a \in 0 .. \o44 : a \in Addr
  BY LowWords
<1>3. /\ c.pc \in {\o20, \o22, \o31, \o32, \o23, \o24, \o25, \o35, \o26, \o27}
      /\ (c.ion <=> c.pc = \o27) /\ c.pending = 0 /\ m[\o7] = \o43 /\ Rung(w)
      /\ m[\o37] = IF c.pc \in {\o20, \o22, \o31} THEN 0 ELSE 1
      /\ (c.pc \in {\o31, \o32} => m[\o30] = \o23)
      /\ (c.pc = \o35 => m[\o34] = \o26)
  BY DEF InRoutine
<1>4. c.pc + 1 \in Addr /\ c.pc + 2 \in Addr
  BY <1>2, <1>3
<1> HIDE DEF m
<1>5. ASSUME c.pc # \o20 PROVE s \in Settled(c) /\ d = w
  <2>1. /\ ~IsWatchdogIot(\o4030) /\ ~IsWatchdogIot(\o6031) /\ ~IsWatchdogIot(\o5026)
        /\ ~IsWatchdogIot(\o4034) /\ ~IsWatchdogIot(\o6001) /\ ~IsWatchdogIot(\o5407)
        /\ ~IsWatchdogIot(\o2037) /\ ~IsWatchdogIot(\o5430) /\ ~IsWatchdogIot(\o5434)
    BY DEF IsWatchdogIot, Opcode, IotDevice, WatchdogCode
  <2>2. ~IsWatchdogIot(Fetched(c))
    BY <1>1, <1>3, <1>5, <2>1
  <2> QED
    BY <2>2, OtherSettles
<1>6. CASE c.pc = \o20
  <2>1. Fetched(c) = \o6551 /\ w.expired
    BY <1>1, <1>3, <1>6 DEF Rung
  <2>2. Leaves(c, s, c.pc + 2, c.ac, c.link, m) /\ d = w
    BY <1>4, <2>1, IskSettles DEF m
  <2>3. Leaves(c, s, \o22, c.ac, c.link, m)
    BY <1>6, <2>2
  <2> QED
    BY <1>1, <1>3, <1>6, <2>2, <2>3, RoutineGoesOn
<1>7. CASE c.pc = \o22
  <2>1. Fetched(c) = \o4030 /\ c.pc + 1 = \o23
    BY <1>1, <1>7
  <2>2. Opcode(\o4030) = 4 /\ Direct(\o4030, \o30)
    BY DEF Opcode, Direct, Indirect, Has
  <2>3. \o30 \in Addr /\ \o30 + 1 \in Addr /\ \o30 + 1 = \o31
    BY <1>2
  <2> DEFINE n == [m EXCEPT ![\o30] = \o23]
  <2>4. Leaves(c, s, \o31, c.ac, c.link, n)
    BY <1>4, <1>5, <1>7, <2>1, <2>2, <2>3, JmsLeaves DEF m
  <2>5. /\ n[\o30] = \o23 /\ n[\o7] = m[\o7] /\ n[\o37] = m[\o37]
        /\ \A b \in Addr \ {\o30} : n[b] = m[b]
    BY <1>1, <1>2
  <2> HIDE DEF n
  <2>6. PollingText(n)
    BY <1>1, <2>5, PollingWritten DEF PollingData
  <2> QED
    BY <1>3, <1>5, <1>7, <2>4, <2>5, <2>6, RoutineGoesOn
<1>8. CASE c.pc = \o31
  <2>1. Fetched(c) = \o2037 /\ c.pc + 1 = \o32 /\ \o37 \in Addr
    BY <1>1, <1>2, <1>8
  <2>2. Opcode(\o2037) = 2 /\ Direct(\o2037, \o37)
    BY DEF Opcode, Direct, Indirect, Has
  <2>3. MaskWord(m[\o37] + 1) = 1
    BY <1>3, <1>8 DEF MaskWord
  <2> DEFINE n == [m EXCEPT ![\o37] = 1]
  <2>4. Leaves(c, s, \o32, c.ac, c.link, n)
    BY <1>4, <1>5, <1>8, <2>1, <2>2, <2>3, IszLeaves DEF m
  <2>5. /\ n[\o37] = 1 /\ n[\o7] = m[\o7] /\ n[\o30] = m[\o30]
        /\ \A b \in Addr \ {\o37} : n[b] = m[b]
    BY <1>1, <1>2
  <2> HIDE DEF n
  <2>6. PollingText(n)
    BY <1>1, <2>5, PollingWritten DEF PollingData
  <2> QED
    BY <1>3, <1>5, <1>8, <2>4, <2>5, <2>6, RoutineGoesOn
<1>9. CASE c.pc = \o32
  <2>1. Fetched(c) = \o5430 /\ \o30 \in Addr /\ m[\o30] = \o23 /\ \o23 \in Addr
    BY <1>1, <1>2, <1>3, <1>9
  <2>2. Opcode(\o5430) = 5 /\ Through(\o5430, \o30) /\ \o30 \notin \o10 .. \o17
    BY DEF Opcode, Through, Indirect, Has
  <2>3. Leaves(c, s, \o23, c.ac, c.link, m)
    BY <1>4, <1>5, <1>9, <2>1, <2>2, JmpThroughLeaves DEF m
  <2> QED
    BY <1>1, <1>3, <1>5, <1>9, <2>3, RoutineGoesOn
<1>10. CASE c.pc = \o23
  <2>1. Fetched(c) = \o6031 /\ c.pc + 1 = \o24 /\ c.pc + 2 = \o25
    BY <1>1, <1>10
  <2>2. Opcode(\o6031) = 6 /\ IotDevice(\o6031) # InterruptControlCode
    BY DEF Opcode, IotDevice, InterruptControlCode
  <2>3. PICK pc \in {\o24, \o25}, ac \in Word : Leaves(c, s, pc, ac, c.link, m)
    BY <1>4, <1>5, <1>10, <2>1, <2>2, DeviceLeaves DEF m
  <2> QED
    BY <1>1, <1>3, <1>5, <1>10, <2>3, RoutineGoesOn
<1>11. CASE c.pc = \o24
  <2>1. Fetched(c) = \o5026 /\ \o26 \in Addr
    BY <1>1, <1>2, <1>11
  <2>2. Opcode(\o5026) = 5 /\ Direct(\o5026, \o26)
    BY DEF Opcode, Direct, Indirect, Has
  <2>3. Leaves(c, s, \o26, c.ac, c.link, m)
    BY <1>4, <1>5, <1>11, <2>1, <2>2, JmpLeaves DEF m
  <2> QED
    BY <1>1, <1>3, <1>5, <1>11, <2>3, RoutineGoesOn
<1>12. CASE c.pc = \o25
  <2>1. Fetched(c) = \o4034 /\ c.pc + 1 = \o26
    BY <1>1, <1>12
  <2>2. Opcode(\o4034) = 4 /\ Direct(\o4034, \o34)
    BY DEF Opcode, Direct, Indirect, Has
  <2>3. \o34 \in Addr /\ \o34 + 1 \in Addr /\ \o34 + 1 = \o35
    BY <1>2
  <2> DEFINE n == [m EXCEPT ![\o34] = \o26]
  <2>4. Leaves(c, s, \o35, c.ac, c.link, n)
    BY <1>4, <1>5, <1>12, <2>1, <2>2, <2>3, JmsLeaves DEF m
  <2>5. /\ n[\o34] = \o26 /\ n[\o7] = m[\o7] /\ n[\o37] = m[\o37]
        /\ \A b \in Addr \ {\o34} : n[b] = m[b]
    BY <1>1, <1>2
  <2> HIDE DEF n
  <2>6. PollingText(n)
    BY <1>1, <2>5, PollingWritten DEF PollingData
  <2> QED
    BY <1>3, <1>5, <1>12, <2>4, <2>5, <2>6, RoutineGoesOn
<1>13. CASE c.pc = \o35
  <2>1. Fetched(c) = \o5434 /\ \o34 \in Addr /\ m[\o34] = \o26 /\ \o26 \in Addr
    BY <1>1, <1>2, <1>3, <1>13
  <2>2. Opcode(\o5434) = 5 /\ Through(\o5434, \o34) /\ \o34 \notin \o10 .. \o17
    BY DEF Opcode, Through, Indirect, Has
  <2>3. Leaves(c, s, \o26, c.ac, c.link, m)
    BY <1>4, <1>5, <1>13, <2>1, <2>2, JmpThroughLeaves DEF m
  <2> QED
    BY <1>1, <1>3, <1>5, <1>13, <2>3, RoutineGoesOn
<1>14. CASE c.pc = \o26
  <2>1. Fetched(c) = \o6001 /\ c.pc + 1 = \o27
    BY <1>1, <1>14
  <2>2. /\ s.ion /\ s.pc = \o27 /\ s.mem = m /\ ~s.halted /\ s.pending = 0
    BY <1>3, <1>4, <1>5, <1>14, <2>1, IonLeaves DEF m
  <2>3. InRoutine(s, w)
    BY <1>3, <1>14, <2>2 DEF InRoutine
  <2>4. Dispatch(s) = s
    BY <2>2, Undispatched
  <2> QED
    BY <1>1, <1>5, <1>14, <2>2, <2>3, <2>4 DEF PollingPoint
<1>15. CASE c.pc = \o27
  <2>1. Fetched(c) = \o5407 /\ \o7 \in Addr /\ m[\o7] = \o43 /\ \o43 \in Addr
    BY <1>1, <1>2, <1>3, <1>15
  <2>2. Opcode(\o5407) = 5 /\ Through(\o5407, \o7) /\ \o7 \notin \o10 .. \o17
    BY DEF Opcode, Through, Indirect, Has
  <2>3. Leaves(c, s, \o43, c.ac, c.link, m)
    BY <1>4, <1>5, <1>15, <2>1, <2>2, JmpThroughLeaves DEF m
  <2>4. s.ion /\ s.pc = \o43 /\ s.mem = m /\ ~s.halted /\ s.pending = 0
    BY <1>3, <1>15, <2>3 DEF Leaves
  <2>5. InLoop(s, w)
    BY <1>3, <1>15, <2>4 DEF InLoop
  <2>6. Dispatch(s) = s
    BY <2>4, Undispatched
  <2> QED
    BY <1>1, <1>5, <1>15, <2>4, <2>5, <2>6 DEF PollingPoint
<1> QED
  BY <1>3, <1>6, <1>7, <1>8, <1>9, <1>10, <1>11, <1>12, <1>13, <1>14, <1>15

\* The tick rings at most once, and only while the guest is before its loop's
\* first interrupt.
LEMMA PollingTick ==
  ASSUME NEW c \in CpuState, NEW w \in WatchdogState, PollingPoint(c, w),
         NEW u \in Nat, NEW c1, c1 = Signalled(c, TickSignal(w, u)),
         NEW w1, w1 = Ticked(w, u)
  PROVE  PollingPoint(c1, w1)
<1>1. CASE w1 = w /\ TickSignal(w, u) = "none"
  <2>1. c1 = c
    BY <1>1 DEF Signalled
  <2> QED
    BY <1>1, <2>1
<1>2. CASE /\ w.enabled /\ TickSignal(w, u) = SignalOf(w.cmd)
           /\ w1.cmd = w.cmd /\ w1.count = w.count
           /\ w1.enabled <=> Periodic(w.cmd)
           /\ ~Periodic(w.cmd) => w1.expired
  <2>1. InLoop(c, w) /\ Waiting(w) /\ c.pending = 0 /\ c.mem[\o37] = 0
    BY <1>2 DEF PollingPoint, Arming, InRoutine, InLoop, Rung
  <2>2. ~Periodic(w.cmd) /\ SignalOf(w.cmd) = "interrupt"
    BY <2>1 DEF Waiting, Periodic, SignalOf, IntrOneShot, ResetPeriodic, HaltPeriodic,
                IntrPeriodic, TickPeriodic, ResetOneShot, HaltOneShot
  <2>3. Rung(w1)
    BY <1>2, <2>1, <2>2 DEF Waiting, Rung
  <2>4. /\ c1.pc = c.pc /\ c1.mem = c.mem /\ c1.ion = c.ion /\ c1.halted = c.halted
        /\ c1.pending = c.pending + 1
    BY <1>2, <2>2, TickLeaves
  <2>5. c1.pending = 1
    BY <2>1, <2>4
  <2>6. InLoop(c1, w1)
    BY <2>1, <2>3, <2>4, <2>5 DEF InLoop
  <2> QED
    BY <2>4, <2>6 DEF PollingPoint
<1> QED
  BY <1>1, <1>2, TickTaken

\* What the operator and the controls are in the runs of this guest: the first
\* guest asks for one interrupt; the second for a reset or a halt, after a
\* countdown; the operator starts a program at the reset vector only.
GuestsAsIntended ==
  /\ \A v \in PollingControls : v \div \o1000 = IntrOneShot
  /\ \A v \in GuardedControls :
       /\ v \div \o1000 \in {ResetOneShot, ResetPeriodic, HaltOneShot, HaltPeriodic}
       /\ v % \o1000 # 0
  /\ HostAddrs \subseteq {0}

\* Any signal leaves memory, AC and the enable flag alone, and only a reset
\* moves PC.
LEMMA SignalKeeps ==
  ASSUME NEW c \in CpuState, NEW signal, NEW t, t = Signalled(c, signal)
  PROVE  /\ t.mem = c.mem /\ t.ac = c.ac /\ t.ion = c.ion
         /\ t.pc = IF signal = "reset" THEN 0 ELSE c.pc
<1>1. Shaped(c) /\ Normalise(0) = 0
  BY StatesAreShaped, NormaliseSmall
<1>2. CASE signal = "reset"
  <2>1. t = SetPc(c, 0)
    BY <1>2 DEF Signalled
  <2> QED
    BY <1>1, <1>2, <2>1 DEF SetPc, Shaped, CpuFields
<1>3. CASE signal = "halt"
  <2>1. t = SetHalt(c)
    BY <1>3 DEF Signalled
  <2> QED
    BY <1>1, <1>3, <2>1 DEF SetHalt, Shaped, CpuFields
<1>4. CASE signal = "interrupt"
  <2>1. t = RequestInterrupt(c)
    BY <1>4 DEF Signalled
  <2> QED
    BY <1>1, <1>4, <2>1 DEF RequestInterrupt, Shaped, CpuFields
<1>5. CASE signal \notin {"reset", "halt", "interrupt"}
  BY <1>5 DEF Signalled
<1> QED
  BY <1>2, <1>3, <1>4, <1>5

-----------------------------------------------------------------------------
(* The guarded guest.                                                       *)

LEMMA GuardedStep ==
  ASSUME NEW c \in CpuState, ~c.skip, NEW w \in WatchdogState, GuardedPoint(c, w),
         GuestsAsIntended, NEW s, NEW d, MachineSettled(c, w, s, d)
  PROVE  s \in CpuState /\ GuardedPoint(s, d)
<1> DEFINE m == c.mem
<1>1. /\ m[0] = \o7300 /\ m[1] = \o1016 /\ m[2] = \o6552 /\ m[3] = \o6031
      /\ m[4] = \o5007 /\ m[5] = \o6554 /\ m[6] = \o5003 /\ m[7] = \o5007
      /\ m[\o16] \in GuardedControls /\ GuardedText(m)
      /\ Fetched(c) = m[c.pc]
  BY DEF GuardedPoint, GuardedText, Fetched
<1>2. \A a \in 0 .. \o44 : a \in Addr /\ a # WallClockAddress
  BY LowWords
<1>3. /\ c.pc \in 0 .. 7 /\ ~c.ion
      /\ (c.pc = 1 => c.ac = 0) /\ (c.pc = 2 => c.ac = m[\o16])
      /\ (c.pc \in 0 .. 2 /\ w.cmd = Disable /\ ~w.enabled) \/ Armed(c, w)
  BY DEF GuardedPoint
<1>4. c.pc + 1 \in Addr /\ c.pc + 2 \in Addr
  BY <1>2, <1>3
<1>5. /\ m[\o16] \in Word
      /\ m[\o16] \div \o1000 \in {ResetOneShot, ResetPeriodic, HaltOneShot, HaltPeriodic}
  BY <1>1, GuestsFitAssumption DEF GuestsAsIntended
<1> HIDE DEF m
<1>6. ASSUME c.pc \notin {2, 5} PROVE s \in Settled(c) /\ d = w
  <2>1. /\ ~IsWatchdogIot(\o7300) /\ ~IsWatchdogIot(\o1016) /\ ~IsWatchdogIot(\o6031)
        /\ ~IsWatchdogIot(\o5007) /\ ~IsWatchdogIot(\o5003)
    BY DEF IsWatchdogIot, Opcode, IotDevice, WatchdogCode
  <2>2. ~IsWatchdogIot(Fetched(c))
    BY <1>1, <1>3, <1>6, <2>1
  <2> QED
    BY <2>2, OtherSettles
<1>7. ASSUME NEW pc \in 3 .. 7, NEW ac, Leaves(c, s, pc, ac, c.link, m), d = w,
             c.pc \in 3 .. 7
      PROVE  s \in CpuState /\ GuardedPoint(s, d)
  <2>1. s.pc = pc /\ s.mem = m /\ ~s.ion /\ s \in CpuState
    BY <1>3, <1>7 DEF Leaves
  <2>2. Armed(c, w)
    BY <1>3, <1>7
  <2>3. Armed(s, d)
    BY <1>7, <2>1, <2>2 DEF Armed, m
  <2> QED
    BY <1>1, <1>7, <2>1, <2>3 DEF GuardedPoint
<1>8. CASE c.pc = 0
  <2>1. Fetched(c) = \o7300
    BY <1>1, <1>8
  <2>2. Leaves(c, s, 1, 0, 0, m)
    BY <1>4, <1>6, <1>8, <2>1, ClearLeaves DEF m
  <2>3. s.pc = 1 /\ s.mem = m /\ ~s.ion /\ s.ac = 0 /\ s \in CpuState
    BY <1>3, <2>2 DEF Leaves
  <2>4. Armed(c, w) => Armed(s, d)
    BY <1>6, <1>8, <2>3 DEF Armed, m
  <2> QED
    BY <1>1, <1>3, <1>6, <1>8, <2>3, <2>4 DEF GuardedPoint
<1>9. CASE c.pc = 1
  <2>1. Fetched(c) = \o1016 /\ c.ac = 0 /\ \o16 \in Addr /\ \o16 # WallClockAddress
    BY <1>1, <1>2, <1>3, <1>9
  <2>2. Opcode(\o1016) = 1 /\ Direct(\o1016, \o16)
    BY DEF Opcode, Direct, Indirect, Has
  <2>3. Leaves(c, s, c.pc + 1, MaskWord(c.ac + m[\o16]),
               IF c.ac + m[\o16] > \o7777 THEN (c.link + 1) % 2 ELSE c.link, m)
    BY <1>4, <1>6, <1>9, <2>1, <2>2, TadLeaves DEF m
  <2>4. MaskWord(c.ac + m[\o16]) = m[\o16]
    BY <1>5, <2>1, MaskSmall, WordIsNat
  <2>5. s.pc = 2 /\ s.mem = m /\ ~s.ion /\ s.ac = m[\o16] /\ s \in CpuState
    BY <1>3, <1>9, <2>3, <2>4 DEF Leaves
  <2>6. Armed(c, w) => Armed(s, d)
    BY <1>6, <1>9, <2>5 DEF Armed, m
  <2> QED
    BY <1>1, <1>3, <1>6, <1>9, <2>5, <2>6 DEF GuardedPoint
<1>10. CASE c.pc = 2
  <2>1. Fetched(c) = \o6552 /\ c.ac = m[\o16]
    BY <1>1, <1>3, <1>10
  <2>2. Leaves(c, s, c.pc + 1, c.ac, c.link, m)
    BY <1>4, <2>1, WriteSettles DEF m
  <2>3. PICK t \in Nat : d = Written(w, c.ac, t)
    BY <1>4, <2>1, WriteSettles
  <2>4. s.pc = 3 /\ s.mem = m /\ ~s.ion /\ s \in CpuState
    BY <1>3, <1>10, <2>2 DEF Leaves
  <2>5. d.cmd = m[\o16] \div \o1000 /\ d.count = m[\o16] % \o1000
    BY <2>1, <2>3 DEF Written
  <2>6. d.enabled = (m[\o16] \div \o1000 # Disable) /\ d.expired = FALSE
    BY <2>1, <2>3 DEF Written
  <2>7. m[\o16] \div \o1000 # Disable
    BY <1>5 DEF Disable, ResetOneShot, ResetPeriodic, HaltOneShot, HaltPeriodic
  <2>8. d.enabled /\ ~d.expired
    BY <2>6, <2>7, Zenon
  <2>9. Armed(s, d)
    BY <2>4, <2>5, <2>8 DEF Armed
  <2> QED
    BY <1>1, <2>4, <2>9 DEF GuardedPoint
<1>11. CASE c.pc = 3
  <2>1. Fetched(c) = \o6031 /\ c.pc + 1 = 4 /\ c.pc + 2 = 5
    BY <1>1, <1>11
  <2>2. Opcode(\o6031) = 6 /\ IotDevice(\o6031) # InterruptControlCode
    BY DEF Opcode, IotDevice, InterruptControlCode
  <2>3. PICK pc \in {4, 5}, ac \in Word : Leaves(c, s, pc, ac, c.link, m)
    BY <1>4, <1>6, <1>11, <2>1, <2>2, DeviceLeaves DEF m
  <2> QED
    BY <1>6, <1>7, <1>11, <2>3
<1>12. CASE c.pc \in {4, 6, 7}
  <2>1. PICK a \in {3, 7} : Fetched(c) = \o5000 + a
    BY <1>1, <1>12
  <2>2. Opcode(\o5000 + a) = 5 /\ Direct(\o5000 + a, a) /\ a \in Addr
    BY <1>2, <2>1 DEF Opcode, Direct, Indirect, Has
  <2>3. Leaves(c, s, a, c.ac, c.link, m)
    BY <1>4, <1>6, <1>12, <2>1, <2>2, JmpLeaves DEF m
  <2> QED
    BY <1>6, <1>7, <1>12, <2>1, <2>3
<1>13. CASE c.pc = 5
  <2>1. Fetched(c) = \o6554
    BY <1>1, <1>13
  <2>2. Leaves(c, s, c.pc + 1, c.ac, c.link, m)
    BY <1>4, <2>1, RestartSettles DEF m
  <2>3. PICK t \in Nat : d = Restarted(w, t)
    BY <1>4, <2>1, RestartSettles
  <2>4. s.pc = 6 /\ s.mem = m /\ ~s.ion /\ s \in CpuState
    BY <1>3, <1>13, <2>2 DEF Leaves
  <2>5. w.cmd = m[\o16] \div \o1000 /\ w.count = m[\o16] % \o1000
    BY <1>3, <1>13 DEF Armed, m
  <2>6. d.cmd = w.cmd /\ d.count = w.count
    BY <2>3 DEF Restarted
  <2>7. d.enabled = (w.cmd # Disable) /\ d.expired = FALSE
    BY <2>3 DEF Restarted
  <2>8. w.cmd # Disable
    BY <1>5, <2>5 DEF Disable, ResetOneShot, ResetPeriodic, HaltOneShot, HaltPeriodic
  <2>9. d.enabled /\ ~d.expired
    BY <2>7, <2>8, Zenon
  <2>10. Armed(s, d)
    BY <2>4, <2>5, <2>6, <2>9 DEF Armed
  <2> QED
    BY <1>1, <2>4, <2>10 DEF GuardedPoint
<1> QED
  BY <1>3, <1>8, <1>9, <1>10, <1>11, <1>12, <1>13

\* A ring halts the processor where it is, or sends it to the reset vector.
LEMMA GuardedTick ==
  ASSUME NEW c \in CpuState, NEW w \in WatchdogState, GuardedPoint(c, w),
         GuestsAsIntended, NEW u \in Nat,
         NEW c1, c1 = Signalled(c, TickSignal(w, u)), NEW w1, w1 = Ticked(w, u)
  PROVE  GuardedPoint(c1, w1)
<1>1. CASE w1 = w /\ TickSignal(w, u) = "none"
  <2>1. c1 = c
    BY <1>1 DEF Signalled
  <2> QED
    BY <1>1, <2>1
<1>2. CASE /\ w.enabled /\ TickSignal(w, u) = SignalOf(w.cmd)
           /\ w1.cmd = w.cmd /\ w1.count = w.count
           /\ w1.enabled <=> Periodic(w.cmd)
           /\ ~Periodic(w.cmd) => w1.expired
  <2>1. Armed(c, w) /\ GuardedText(c.mem) /\ c.pc \in 0 .. 7
    BY <1>2 DEF GuardedPoint
  <2>2. /\ c1.mem = c.mem /\ c1.ac = c.ac /\ c1.ion = c.ion
        /\ c1.pc = IF SignalOf(w.cmd) = "reset" THEN 0 ELSE c.pc
    BY <1>2, SignalKeeps
  <2>3. w.cmd = ResetOneShot => SignalOf(w.cmd) = "reset"
    BY DEF SignalOf, ResetOneShot, ResetPeriodic, HaltOneShot, HaltPeriodic,
           IntrOneShot, IntrPeriodic
  <2>4. w1.enabled \/ (w1.expired /\ ~Periodic(w1.cmd))
    BY <1>2
  <2>5. Armed(c1, w1)
    BY <1>2, <2>1, <2>2, <2>3, <2>4 DEF Armed
  <2>6. c1.pc = c.pc \/ c1.pc = 0
    BY <2>2
  <2> QED
    BY <2>1, <2>2, <2>5, <2>6 DEF GuardedPoint
<1> QED
  BY <1>1, <1>2, TickTaken

-----------------------------------------------------------------------------
(* Both guests and the operator.                                            *)

\* A step through memory a reset has cleared.
LEMMA ClearedStep ==
  ASSUME NEW c \in CpuState, NEW w \in WatchdogState, ClearedPoint(c),
         NEW s, NEW d, MachineSettled(c, w, s, d)
  PROVE  s \in CpuState /\ ClearedPoint(s)
<1>1. c.pc \in Addr
  BY FieldTypes
<1>2. Fetched(c) = 0
  BY <1>1 DEF Fetched, ClearedPoint
<1>3. ~IsWatchdogIot(0)
  BY DEF IsWatchdogIot, Opcode
<1>4. s \in Settled(c)
  BY <1>2, <1>3, OtherSettles
<1> QED
  BY <1>2, <1>4, AndZeroKeeps DEF ClearedPoint

GuestsInv ==
  /\ MachineInv
  /\ PollingPoint(cpu, wd) \/ GuardedPoint(cpu, wd) \/ ClearedPoint(cpu)

LEMMA GuestsStep ==
  ASSUME GuestsInv, GuestsAsIntended, MachineStep
  PROVE  (PollingPoint(cpu, wd) \/ GuardedPoint(cpu, wd) \/ ClearedPoint(cpu))'
<1>1. /\ MachineInv /\ cpu \in CpuState /\ ~cpu.skip /\ wd \in WatchdogState
      /\ PollingPoint(cpu, wd) \/ GuardedPoint(cpu, wd) \/ ClearedPoint(cpu)
  BY DEF GuestsInv, MachineInv, CpuInv, CpuTypeOK, SkipSettled
<1>2. PICK s, d : \E u \in Nat :
              /\ MachineSettled(cpu, wd, s, d)
              /\ cpu' = Signalled(Dispatch(s), TickSignal(d, u))
              /\ wd' = Ticked(d, u)
  BY <1>1, MachineStepTaken
<1>3. PICK u \in Nat :
              /\ MachineSettled(cpu, wd, s, d)
              /\ cpu' = Signalled(Dispatch(s), TickSignal(d, u))
              /\ wd' = Ticked(d, u)
  BY <1>2
<1>4. d \in WatchdogState
  BY <1>1, <1>3, MachineSettledType
<1>5. PICK c1 : c1 = cpu'
  OBVIOUS
<1>6. PICK w1 : w1 = wd'
  OBVIOUS
<1>7. CASE PollingPoint(cpu, wd)
  <2>1. PollingText(cpu.mem) /\ ~cpu.halted
        /\ (Arming(cpu, wd) \/ InLoop(cpu, wd) \/ InRoutine(cpu, wd))
    BY <1>7 DEF PollingPoint
  <2>2. \A v \in PollingControls : v \div \o1000 = IntrOneShot
    BY DEF GuestsAsIntended
  <2>3. PollingPoint(Dispatch(s), d)
    BY <1>1, <1>3, <2>1, <2>2, ArmingStep, LoopStep, RoutineStep
  <2>4. Dispatch(s) \in CpuState
    BY <1>1, <1>3, MachineSettledCpu
  <2>5. PollingPoint(c1, w1)
    BY <1>3, <1>4, <1>5, <1>6, <2>3, <2>4, PollingTick
  <2> QED
    BY <1>5, <1>6, <2>5
<1>8. CASE GuardedPoint(cpu, wd)
  <2>1. s \in CpuState /\ GuardedPoint(s, d)
    BY <1>1, <1>3, <1>8, GuardedStep
  <2>2. Dispatch(s) = s
    BY <2>1, Undispatched DEF GuardedPoint
  <2>3. GuardedPoint(c1, w1)
    BY <1>3, <1>4, <1>5, <1>6, <2>1, <2>2, GuardedTick
  <2> QED
    BY <1>5, <1>6, <2>3
<1>9. CASE ClearedPoint(cpu)
  <2>1. s \in CpuState /\ ClearedPoint(s)
    BY <1>1, <1>3, <1>9, ClearedStep
  <2>2. Dispatch(s) = s
    BY <2>1, Undispatched DEF ClearedPoint
  <2>3. c1.mem = s.mem /\ c1.ion = s.ion
    BY <1>3, <1>5, <2>1, <2>2, SignalKeeps
  <2>4. ClearedPoint(c1)
    BY <2>1, <2>3 DEF ClearedPoint
  <2> QED
    BY <1>5, <1>6, <2>4
<1> QED
  BY <1>1, <1>7, <1>8, <1>9

\* The operator never interferes with the first guest; a reset clears the
\* second away, and the other commands leave it guarded.
LEMMA GuestsOperator ==
  ASSUME GuestsInv, GuestsAsIntended, ~Polling, Operator
  PROVE  (PollingPoint(cpu, wd) \/ GuardedPoint(cpu, wd) \/ ClearedPoint(cpu))'
<1>1. /\ cpu \in CpuState /\ wd' = wd
      /\ PollingPoint(cpu, wd) \/ GuardedPoint(cpu, wd) \/ ClearedPoint(cpu)
  BY DEF GuestsInv, MachineInv, CpuInv, CpuTypeOK, Operator
<1>2. GuardedPoint(cpu, wd) \/ ClearedPoint(cpu)
  BY <1>1 DEF PollingPoint, PollingText, Polling
<1>3. Shaped(cpu) /\ Normalise(0) = 0
  BY <1>1, StatesAreShaped, NormaliseSmall
<1>4. PICK c1 : c1 = cpu'
  OBVIOUS
<1>5. ASSUME c1.mem = cpu.mem, c1.ac = cpu.ac, c1.ion = cpu.ion,
             c1.pc = cpu.pc \/ c1.pc = 0
      PROVE  GuardedPoint(c1, wd) \/ ClearedPoint(c1)
  <2>1. CASE GuardedPoint(cpu, wd)
    <3>1. Armed(cpu, wd) => Armed(c1, wd)
      BY <1>5 DEF Armed
    <3> QED
      BY <1>5, <2>1, <3>1 DEF GuardedPoint
  <2>2. CASE ClearedPoint(cpu)
    BY <1>5, <2>2 DEF ClearedPoint
  <2> QED
    BY <1>2, <2>1, <2>2
<1>6. CASE HostContinue
  <2>1. c1 = ClearHalt(cpu)
    BY <1>4, <1>6 DEF HostContinue
  <2> QED
    BY <1>1, <1>3, <1>4, <1>5, <2>1 DEF ClearHalt, Shaped, CpuFields
<1>7. ASSUME NEW a \in HostAddrs, HostStart(a)
      PROVE  (PollingPoint(cpu, wd) \/ GuardedPoint(cpu, wd) \/ ClearedPoint(cpu))'
  <2>1. a = 0
    BY DEF GuestsAsIntended
  <2>2. c1 = ClearHalt(SetPc(cpu, 0))
    BY <1>4, <1>7, <2>1 DEF HostStart
  <2>3. SetPc(cpu, 0) = [cpu EXCEPT !.pc = 0]
    BY <1>3 DEF SetPc
  <2>4. c1 = [[cpu EXCEPT !.pc = 0] EXCEPT !.halted = FALSE]
    BY <2>2, <2>3 DEF ClearHalt
  <2> QED
    BY <1>1, <1>3, <1>4, <1>5, <2>4 DEF Shaped, CpuFields
<1>8. CASE HostReset
  <2>1. c1 = [PoweredUpCpu EXCEPT !.sr = cpu.sr]
    BY <1>4, <1>8 DEF HostReset, ResetCpu
  <2>2. c1.mem = [a \in Addr |-> 0] /\ ~c1.ion
    BY <2>1 DEF PoweredUpCpu
  <2> QED
    BY <1>4, <2>2 DEF ClearedPoint
<1> QED
  BY <1>6, <1>7, <1>8 DEF Operator

LEMMA GuestsNext ==
  ASSUME GuestsAsIntended
  PROVE  GuestsInv /\ [MCNext]_machineVars => GuestsInv'
<1> SUFFICES ASSUME GuestsInv, [MCNext]_machineVars PROVE GuestsInv'
  OBVIOUS
<1>1. MachineInv'
  <2>1. MachineInv /\ [MachineNext]_machineVars
    BY DEF GuestsInv, MCNext, MachineNext
  <2> QED
    BY <2>1, MachineNextPreserves
<1>2. CASE MachineStep
  BY <1>1, <1>2, GuestsStep DEF GuestsInv
<1>3. CASE ~Polling /\ Operator
  BY <1>1, <1>3, GuestsOperator DEF GuestsInv
<1>4. CASE Idle \/ UNCHANGED machineVars
  <2>1. cpu' = cpu /\ wd' = wd
    BY <1>4 DEF Idle, machineVars
  <2> QED
    BY <1>1, <2>1 DEF GuestsInv
<1> QED
  BY <1>2, <1>3, <1>4 DEF MCNext

-----------------------------------------------------------------------------
(* The programs.                                                            *)

LEMMA PollingProgramType ==
  ASSUME NEW control \in Word
  PROVE  PollingProgram(control) \in [Addr -> Word]
<1> DEFINE W(a) ==
      CASE a = \o20 -> \o6551 [] a = \o21 -> \o5023 [] a = \o22 -> \o4030
        [] a = \o23 -> \o6031 [] a = \o24 -> \o5026 [] a = \o25 -> \o4034
        [] a = \o26 -> \o6001 [] a = \o27 -> \o5407
        [] a = \o31 -> \o2037 [] a = \o32 -> \o5430
        [] a = \o35 -> \o5434
        [] a = \o40 -> \o1044 [] a = \o41 -> \o6552 [] a = \o42 -> \o6001
        [] a = \o43 -> \o5043 [] a = \o44 -> control
        [] OTHER -> 0
<1>1. ASSUME NEW a \in Addr PROVE W(a) \in Word
  <2>1. a \in Int
    BY AddrIsNat
  <2>2. control \in Int
    BY WordIsNat
  <2> QED
    BY <2>1, <2>2 DEF Word
<1>2. PollingProgram(control) = [a \in Addr |-> W(a)]
  BY DEF PollingProgram
<1> HIDE DEF W
<1> QED
  BY <1>1, <1>2

LEMMA GuardedProgramType ==
  ASSUME NEW control \in Word
  PROVE  GuardedProgram(control) \in [Addr -> Word]
<1> DEFINE W(a) ==
      CASE a = 0 -> \o7300 [] a = 1 -> \o1016 [] a = 2 -> \o6552
        [] a = 3 -> \o6031 [] a = 4 -> \o5007 [] a = 5 -> \o6554
        [] a = 6 -> \o5003 [] a = 7 -> \o5007 [] a = \o16 -> control
        [] OTHER -> 0
<1>1. ASSUME NEW a \in Addr PROVE W(a) \in Word
  <2>1. a \in Int
    BY AddrIsNat
  <2>2. control \in Int
    BY WordIsNat
  <2> QED
    BY <2>1, <2>2 DEF Word
<1>2. GuardedProgram(control) = [a \in Addr |-> W(a)]
  BY DEF GuardedProgram
<1> HIDE DEF W
<1> QED
  BY <1>1, <1>2

LEMMA PollingWords ==
  ASSUME NEW control
  PROVE  LET m == PollingProgram(control)
         IN  /\ m[\o20] = \o6551
             /\ m[\o22] = \o4030
             /\ m[\o23] = \o6031
             /\ m[\o24] = \o5026
             /\ m[\o25] = \o4034
             /\ m[\o26] = \o6001
             /\ m[\o27] = \o5407
             /\ m[\o31] = \o2037
             /\ m[\o32] = \o5430
             /\ m[\o35] = \o5434
             /\ m[\o40] = \o1044
             /\ m[\o41] = \o6552
             /\ m[\o42] = \o6001
             /\ m[\o43] = \o5043
             /\ m[\o44] = control
             /\ m[\o37] = 0
<1> DEFINE m == PollingProgram(control)
<1>1. \A a \in 0 .. \o44 : a \in Addr
  BY LowWords
<1>2. m[\o20] = \o6551
  BY <1>1 DEF PollingProgram
<1>3. m[\o22] = \o4030
  BY <1>1 DEF PollingProgram
<1>4. m[\o23] = \o6031
  BY <1>1 DEF PollingProgram
<1>5. m[\o24] = \o5026
  BY <1>1 DEF PollingProgram
<1>6. m[\o25] = \o4034
  BY <1>1 DEF PollingProgram
<1>7. m[\o26] = \o6001
  BY <1>1 DEF PollingProgram
<1>8. m[\o27] = \o5407
  BY <1>1 DEF PollingProgram
<1>9. m[\o31] = \o2037
  BY <1>1 DEF PollingProgram
<1>10. m[\o32] = \o5430
  BY <1>1 DEF PollingProgram
<1>11. m[\o35] = \o5434
  BY <1>1 DEF PollingProgram
<1>12. m[\o40] = \o1044
  BY <1>1 DEF PollingProgram
<1>13. m[\o41] = \o6552
  BY <1>1 DEF PollingProgram
<1>14. m[\o42] = \o6001
  BY <1>1 DEF PollingProgram
<1>15. m[\o43] = \o5043
  BY <1>1 DEF PollingProgram
<1>16. m[\o44] = control
  BY <1>1 DEF PollingProgram
<1>17. m[\o37] = 0
  BY <1>1 DEF PollingProgram
<1> HIDE DEF m
<1> QED
  BY <1>2, <1>3, <1>4, <1>5, <1>6, <1>7, <1>8, <1>9, <1>10, <1>11,
     <1>12, <1>13, <1>14, <1>15, <1>16, <1>17 DEF m

LEMMA GuardedWords ==
  ASSUME NEW control
  PROVE  LET m == GuardedProgram(control)
         IN  /\ m[\o0] = \o7300
             /\ m[\o1] = \o1016
             /\ m[\o2] = \o6552
             /\ m[\o3] = \o6031
             /\ m[\o4] = \o5007
             /\ m[\o5] = \o6554
             /\ m[\o6] = \o5003
             /\ m[\o7] = \o5007
             /\ m[\o16] = control
             /\ m[\o20] = 0
             /\ m[\o37] = 0
<1> DEFINE m == GuardedProgram(control)
<1>1. \A a \in 0 .. \o44 : a \in Addr
  BY LowWords
<1>2. m[\o0] = \o7300
  BY <1>1 DEF GuardedProgram
<1>3. m[\o1] = \o1016
  BY <1>1 DEF GuardedProgram
<1>4. m[\o2] = \o6552
  BY <1>1 DEF GuardedProgram
<1>5. m[\o3] = \o6031
  BY <1>1 DEF GuardedProgram
<1>6. m[\o4] = \o5007
  BY <1>1 DEF GuardedProgram
<1>7. m[\o5] = \o6554
  BY <1>1 DEF GuardedProgram
<1>8. m[\o6] = \o5003
  BY <1>1 DEF GuardedProgram
<1>9. m[\o7] = \o5007
  BY <1>1 DEF GuardedProgram
<1>10. m[\o16] = control
  BY <1>1 DEF GuardedProgram
<1>11. m[\o20] = 0
  BY <1>1 DEF GuardedProgram
<1>12. m[\o37] = 0
  BY <1>1 DEF GuardedProgram
<1> HIDE DEF m
<1> QED
  BY <1>2, <1>3, <1>4, <1>5, <1>6, <1>7, <1>8, <1>9, <1>10, <1>11,
     <1>12 DEF m

-----------------------------------------------------------------------------
(* The invariant and what it gives.                                         *)

LEMMA MachineStarts ==
  ASSUME NEW program \in [Addr -> Word], NEW start \in Addr,
         MachineInit(program, start)
  PROVE  /\ cpu.pc = start /\ cpu.mem = program /\ cpu.ac = 0 /\ cpu.pending = 0
         /\ ~cpu.ion /\ ~cpu.halted
         /\ wd.cmd = Disable /\ ~wd.enabled /\ ~wd.expired
<1> DEFINE p == PoweredUpCpu
<1>1. /\ p \in CpuState /\ p.ac = 0 /\ p.pending = 0 /\ ~p.ion /\ ~p.halted
  BY PoweredUpType DEF PoweredUpCpu
<1>2. Normalise(start) = start
  BY NormaliseAddr
<1>3. cpu = [[p EXCEPT !.mem = program] EXCEPT !.pc = start]
  BY <1>2 DEF MachineInit, SetPc
<1>4. DOMAIN p = CpuFields
  BY <1>1, StatesAreShaped DEF Shaped
<1> HIDE DEF p
<1>5. /\ cpu.pc = start /\ cpu.mem = program /\ cpu.ac = 0 /\ cpu.pending = 0
      /\ ~cpu.ion /\ ~cpu.halted
  BY <1>1, <1>3, <1>4 DEF CpuFields
<1>6. wd.cmd = Disable /\ ~wd.enabled /\ ~wd.expired
  BY DEF MachineInit, NewWatchdog
<1> QED
  BY <1>5, <1>6

LEMMA GuestsInit ==
  ASSUME MCInit
  PROVE  GuestsInv
<1>1. \o40 \in Addr /\ 0 \in Addr /\ Addr \subseteq Nat
  BY LowWords, AddrIsNat
<1>2. ASSUME NEW control \in PollingControls, MachineInit(PollingProgram(control), \o40)
      PROVE  GuestsInv
  <2> DEFINE m == PollingProgram(control)
  <2>1. m \in [Addr -> Word]
    BY PollingProgramType, GuestsFitAssumption
  <2>2. PollingText(m) /\ m[\o37] = 0
    BY PollingWords DEF PollingText
  <2> HIDE DEF m
  <2>3. MachineInit(m, \o40)
    BY <1>2 DEF m
  <2>4. MachineInv
    BY <1>1, <2>1, <2>3, MachineInitEstablishes
  <2>5. /\ cpu.pc = \o40 /\ cpu.mem = m /\ cpu.ac = 0 /\ cpu.pending = 0
        /\ ~cpu.ion /\ ~cpu.halted /\ ~wd.enabled /\ ~wd.expired
    BY <1>1, <2>1, <2>3, MachineStarts
  <2>6. Arming(cpu, wd)
    BY <2>2, <2>5 DEF Arming
  <2> QED
    BY <2>2, <2>4, <2>5, <2>6 DEF GuestsInv, PollingPoint
<1>3. ASSUME NEW control \in GuardedControls, MachineInit(GuardedProgram(control), 0)
      PROVE  GuestsInv
  <2> DEFINE m == GuardedProgram(control)
  <2>1. m \in [Addr -> Word]
    BY GuardedProgramType, GuestsFitAssumption
  <2>2. GuardedText(m)
    BY GuardedWords DEF GuardedText
  <2> HIDE DEF m
  <2>3. MachineInit(m, 0)
    BY <1>3 DEF m
  <2>4. MachineInv
    BY <1>1, <2>1, <2>3, MachineInitEstablishes
  <2>5. /\ cpu.pc = 0 /\ cpu.mem = m /\ ~cpu.ion /\ wd.cmd = Disable /\ ~wd.enabled
    BY <1>1, <2>1, <2>3, MachineStarts
  <2> QED
    BY <2>2, <2>4, <2>5 DEF GuestsInv, GuardedPoint
<1> QED
  BY <1>2, <1>3 DEF MCInit

LEMMA GuestsInvariant ==
  ASSUME GuestsAsIntended
  PROVE  MCSpec => []GuestsInv
<1>1. MCInit => GuestsInv
  BY GuestsInit
<1>2. GuestsInv /\ [MCNext]_machineVars => GuestsInv'
  BY GuestsNext
<1> QED
  BY <1>1, <1>2, PTL DEF MCSpec

\* The alarm is handled once, and never before the watchdog has raised it:
\* whatever the keyboard answers meanwhile, and whenever the alarm comes
\* (watchdog_tick, watchdog_iot; the service routine of src/src/emulator/pdp8.h).
THEOREM AlarmHandledOnce ==
  ASSUME GuestsAsIntended
  PROVE  MCSpec => []NoSpuriousService
<1>1. GuestsInv => NoSpuriousService
  <2> SUFFICES ASSUME GuestsInv, cpu.mem[\o37] > 0
               PROVE  cpu.mem[\o37] = 1 /\ wd.expired /\ ~wd.enabled /\ cpu.pending = 0
    BY DEF NoSpuriousService, Serviced
  <2>1. \o37 \in Addr /\ ~(0 > 0)
    BY LowWords
  <2>2. cpu.mem[\o37] # 0
    BY <2>1
  <2>3. PollingPoint(cpu, wd)
    BY <2>1, <2>2 DEF GuestsInv, GuardedPoint, GuardedText, ClearedPoint
  <2> QED
    BY <2>2, <2>3 DEF PollingPoint, Arming, InLoop, InRoutine, Rung
<1> QED
  BY <1>1, GuestsInvariant, PTL

\* Wherever the operator continues, restarts or resets the processor, the guest
\* cannot hang without a countdown running, save after a one-shot halt it was
\* continued from (watchdog_iot, WRITE and RESTART; watchdog_fire).
THEOREM HangsAreGuarded ==
  ASSUME GuestsAsIntended
  PROVE  MCSpec => []HangIsGuarded
<1>1. GuestsInv => HangIsGuarded
  <2> SUFFICES ASSUME GuestsInv, cpu.pc = 7, cpu.mem[7] = \o5007
               PROVE  \/ wd.enabled /\ wd.count # 0
                      \/ wd.cmd = HaltOneShot /\ wd.expired
    BY DEF HangIsGuarded, Hung
  <2>1. GuardedPoint(cpu, wd)
    <3>1. ~PollingPoint(cpu, wd)
      BY DEF PollingPoint, Arming, InLoop, InRoutine
    <3>2. ~ClearedPoint(cpu)
      BY LowWords DEF ClearedPoint
    <3> QED
      BY <3>1, <3>2 DEF GuestsInv
  <2>2. Armed(cpu, wd) /\ cpu.mem[\o16] \in GuardedControls
    BY <2>1 DEF GuardedPoint, GuardedText
  <2>3. CASE wd.enabled
    BY <2>2, <2>3 DEF Armed, GuestsAsIntended
  <2>4. CASE ~wd.enabled
    <3>1. wd.expired /\ ~Periodic(wd.cmd) /\ wd.cmd # ResetOneShot
      BY <2>2, <2>4 DEF Armed
    <3>2. wd.cmd \in {ResetOneShot, ResetPeriodic, HaltOneShot, HaltPeriodic}
      BY <2>2 DEF Armed, GuestsAsIntended
    <3> QED
      BY <3>1, <3>2 DEF Periodic
  <2> QED
    BY <2>3, <2>4
<1> QED
  BY <1>1, GuestsInvariant, PTL

\* After a one-shot reset the guest is back before its loop and has not passed
\* the WRITE that arms the watchdog again: the alarm is not repeated on the way
\* (watchdog_fire; pdp8_api_set_pc).
THEOREM ResetRearms ==
  ASSUME GuestsAsIntended
  PROVE  MCSpec => []RearmedAfterReset
<1>1. GuestsInv => RearmedAfterReset
  <2> SUFFICES ASSUME GuestsInv, wd.cmd = ResetOneShot, wd.expired
               PROVE  cpu.pc \in 0 .. 2 \/ cpu.mem[0] = 0
    BY DEF RearmedAfterReset
  <2>1. CASE PollingPoint(cpu, wd)
    BY <2>1 DEF PollingPoint, Arming, InLoop, InRoutine, Waiting, Rung,
                ResetOneShot, IntrOneShot
  <2>2. CASE GuardedPoint(cpu, wd)
    BY <2>2 DEF GuardedPoint, Armed
  <2>3. CASE ClearedPoint(cpu)
    BY <2>3, LowWords DEF ClearedPoint
  <2> QED
    BY <2>1, <2>2, <2>3 DEF GuestsInv
<1> QED
  BY <1>1, GuestsInvariant, PTL
=============================================================================
