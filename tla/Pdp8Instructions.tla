-------------------------- MODULE Pdp8Instructions --------------------------
(***************************************************************************)
(* The state of the emulated processor (struct pdp8) as one record, and    *)
(* what src/emulator/main.c does to it: the pdp8_api_* setters devices and  *)
(* front ends call, the execution of each instruction class, the skip and   *)
(* the interrupt dispatch that end every step.                              *)
(*                                                                          *)
(* Each operator takes a processor state and returns the next one, so that  *)
(* a step is their composition in the order of the C statements.  A device  *)
(* is an operator too; the modules that EXTEND this one say which devices   *)
(* are attached.                                                            *)
(***************************************************************************)
EXTENDS Pdp8Words

CONSTANTS
  MemWords,         \* words of memory; the boards have 4096
  WallClockAddress  \* PDP8_WALL_CLOCK_ADDRESS, 07760 in the source

(***************************************************************************)
(* The interrupt dispatch writes words 06, 07 and 010 and enters at 020     *)
(* without reducing these addresses, and stores PC as a memory word: the    *)
(* code needs a memory that reaches past 020 and has 12-bit addresses.      *)
(***************************************************************************)
ASSUME MemWordsAssumption == MemWords \in 17 .. 4096

ASSUME WallClockAssumption == WallClockAddress \in Nat

Addr == 0 .. MemWords - 1

CpuState ==
  [ pc      : Addr,      ac      : Word,    link : LinkBit,
    sr      : Word,      halted  : BOOLEAN, skip : BOOLEAN,
    ion     : BOOLEAN,   pending : Nat,     mem  : [Addr -> Word] ]

Normalise(address) == address % MemWords

-----------------------------------------------------------------------------
(* The setters of the API.                                                  *)

SetAc(c, value) == [c EXCEPT !.ac = MaskWord(value)]

SetPc(c, value) == [c EXCEPT !.pc = Normalise(value)]

SetLink(c, value) == [c EXCEPT !.link = value % 2]

SetHalt(c) == [c EXCEPT !.halted = TRUE]

ClearHalt(c) == [c EXCEPT !.halted = FALSE]

SetInterruptEnable(c, enable) == [c EXCEPT !.ion = enable]

RequestInterrupt(c) == [c EXCEPT !.pending = @ + 1]

\* Mutants of ClearInterruptPending: the count goes below zero; all requests go.
ClearInterruptPendingUnguarded(c) == [c EXCEPT !.pending = @ - 1]

ClearInterruptPendingAll(c) == [c EXCEPT !.pending = 0]

ClearInterruptPending(c) ==
  [c EXCEPT !.pending = IF @ > 0 THEN @ - 1 ELSE @]

RequestSkip(c) == [c EXCEPT !.skip = TRUE]

SetSwitchRegister(c, value) == [c EXCEPT !.sr = MaskWord(value)]

WriteMem(c, address, value) ==
  [c EXCEPT !.mem = [@ EXCEPT ![Normalise(address)] = MaskWord(value)]]

\* pdp8_api_read_mem: the wall-clock word reads as minutes since midnight
ReadWord(c, address, minutes) ==
  IF Normalise(address) = WallClockAddress
    THEN MaskWord(minutes)
    ELSE c.mem[Normalise(address)]

\* calloc
PoweredUpCpu ==
  [ pc |-> 0, ac |-> 0, link |-> 0, sr |-> 0, halted |-> FALSE,
    skip |-> FALSE, ion |-> FALSE, pending |-> 0, mem |-> [a \in Addr |-> 0] ]

\* A reset keeps the switch register and leaves every attached device alone.
\* Neither board has a ROM image to copy in.
ResetCpu(c) == [PoweredUpCpu EXCEPT !.sr = c.sr]

-----------------------------------------------------------------------------
(* Memory reference instructions.                                           *)

Opcode(w) == (w % \o10000) \div \o1000

Indirect(w) == Has(w, \o400)

\* PC has already been advanced: the page is that of the next instruction.
DirectAddress(c, w) ==
  Normalise((IF Has(w, \o200) THEN c.pc - (c.pc % \o200) ELSE 0) + (w % \o200))

\* Words 010 .. 017 are incremented before they are used as a pointer.
AutoIndexed(c, w) ==
  LET a == DirectAddress(c, w)
  IN  IF Indirect(w) /\ a \in \o10 .. \o17
        THEN WriteMem(c, a, c.mem[a] + 1)
        ELSE c

EffectiveAddress(c, w) ==
  IF Indirect(w) THEN Normalise(c.mem[DirectAddress(c, w)])
                 ELSE DirectAddress(c, w)

AndWord(c, v) == SetAc(c, And(c.ac, v))

\* the carry out of bit 0 complements the link
TadWord(c, v) ==
  IF c.ac + v > \o7777 THEN SetLink(SetAc(c, c.ac + v), c.link + 1)
                       ELSE SetAc(c, c.ac + v)

Isz(c, a) ==
  IF MaskWord(c.mem[a] + 1) = 0 THEN RequestSkip(WriteMem(c, a, c.mem[a] + 1))
                                ELSE WriteMem(c, a, c.mem[a] + 1)

Dca(c, a) == SetAc(WriteMem(c, a, c.ac), 0)

Jms(c, a) == SetPc(WriteMem(c, a, c.pc), a + 1)

MemoryReference(c0, w, minutes) ==
  LET c == AutoIndexed(c0, w)
      a == EffectiveAddress(c, w)
  IN  CASE Opcode(w) = 0 -> AndWord(c, ReadWord(c, a, minutes))
        [] Opcode(w) = 1 -> TadWord(c, ReadWord(c, a, minutes))
        [] Opcode(w) = 2 -> Isz(c, a)
        [] Opcode(w) = 3 -> Dca(c, a)
        [] Opcode(w) = 4 -> Jms(c, a)
        [] OTHER         -> SetPc(c, a)

-----------------------------------------------------------------------------
(* Operate instructions.  The accumulator and the link above it form the    *)
(* 13-bit value the rotations and the increment work on.                    *)

Combined(c) == c.link * \o10000 + c.ac

SetCombined(c, x) == SetLink(SetAc(c, x), x \div \o10000)

ClearAndComplement(c, w) ==
  LET ac   == IF Has(w, \o200) THEN 0 ELSE c.ac
      link == IF Has(w, \o100) THEN 0 ELSE c.link
  IN  SetLink(SetAc(c, IF Has(w, \o40) THEN Complement(ac) ELSE ac),
              IF Has(w, \o20) THEN link + 1 ELSE link)

RotateRight(x) == x \div 2 + (x % 2) * \o10000

RotateLeft(x) == ((2 * x) % \o20000) + x \div \o10000

SwapBytes(ac) == (ac % \o100) * \o100 + ac \div \o100

\* Asking for both directions cancels the rotation, doubled or not.
Rotated(c, w) ==
  LET right == Has(w, \o10)
      left  == Has(w, \o4)
      two   == Has(w, \o2)
      x     == Combined(c)
  IN  CASE right /\ ~left ->
             SetCombined(c, IF two THEN RotateRight(RotateRight(x))
                                   ELSE RotateRight(x))
        [] left /\ ~right ->
             SetCombined(c, IF two THEN RotateLeft(RotateLeft(x))
                                   ELSE RotateLeft(x))
        [] two /\ ~left /\ ~right -> SetAc(c, SwapBytes(c.ac))
        [] OTHER -> c

\* IAC comes last and carries into the link.
OperateGroup1(c, w) ==
  LET r == Rotated(ClearAndComplement(c, w), w)
  IN  IF Has(w, 1) THEN SetCombined(r, (Combined(r) + 1) % \o20000) ELSE r

\* SMA, SZA and SNL, tested on an accumulator CLA has already cleared; bit 010
\* reverses the sense.
SkipCondition(c, w) ==
  LET any == \/ Has(w, \o100) /\ Has(c.ac, \o4000)
             \/ Has(w, \o40) /\ c.ac = 0
             \/ Has(w, \o20) /\ c.link # 0
  IN  IF Has(w, \o10) THEN ~any ELSE any

\* Bit 0 is ION; exactly 7400 is IOFF.
Group2Enable(c, w) ==
  CASE Has(w, 1) -> SetInterruptEnable(c, TRUE)
    [] w % \o400 = 0 -> SetInterruptEnable(c, FALSE)
    [] OTHER -> c

OperateGroup2(c0, w) ==
  LET c1 == IF Has(w, \o200) THEN SetAc(c0, 0) ELSE c0
      c2 == IF Has(w, \o4) THEN SetAc(c1, Or(c1.ac, c1.sr)) ELSE c1
      c3 == IF Has(w, \o2) THEN SetHalt(c2) ELSE c2
      c4 == Group2Enable(c3, w)
  IN  IF SkipCondition(c1, w) THEN RequestSkip(c4) ELSE c4

Operate(c, w) ==
  IF Has(w, \o400) THEN OperateGroup2(c, w) ELSE OperateGroup1(c, w)

-----------------------------------------------------------------------------
(* Input/output transfers: the device code selects a registered handler.    *)

IotDevice(w) == (w \div 8) % 64

IotFunction(w) == w % 8

InterruptControlCode == 0

\* interrupt_control_iot: IOFF, ION and SKON; the other functions do nothing.
InterruptControlIot(c, w) ==
  CASE IotFunction(w) = 0 -> SetInterruptEnable(c, FALSE)
    [] IotFunction(w) = 1 -> SetInterruptEnable(c, TRUE)
    [] IotFunction(w) = 2 /\ c.ion -> RequestSkip(c)
    [] OTHER -> c

-----------------------------------------------------------------------------
(* What a tick handler may ask of the processor once the step is over.      *)

Signals == {"none", "reset", "halt", "interrupt"}

Signalled(c, signal) ==
  CASE signal = "reset"     -> SetPc(c, 0)
    [] signal = "halt"      -> SetHalt(c)
    [] signal = "interrupt" -> RequestInterrupt(c)
    [] OTHER                -> c

-----------------------------------------------------------------------------
(* The frame of pdp8_api_step around the execution of one instruction.      *)

CanStep(c) == ~c.halted

Fetched(c) == c.mem[c.pc]

Advanced(c) == SetPc(c, c.pc + 1)

ClearSkip(c) == [c EXCEPT !.skip = FALSE]

\* Mutant of ApplySkip: the skip is applied but not taken back.
ApplySkipSticky(c) == IF c.skip THEN SetPc(c, c.pc + 1) ELSE c

ApplySkip(c) == IF c.skip THEN ClearSkip(SetPc(c, c.pc + 1)) ELSE c

WillDispatch(c) == c.ion /\ c.pending > 0

\* Mutants of SaveContext: LINK is forgotten; words 06 and 07 are swapped.
SaveContextNoLink(c) == WriteMem(WriteMem(c, \o6, c.ac), \o7, c.pc)

SaveContextSwapped(c) ==
  WriteMem(WriteMem(WriteMem(c, \o6, c.pc), \o7, c.ac), \o10, c.link)

SaveContext(c) ==
  WriteMem(WriteMem(WriteMem(c, \o6, c.ac), \o7, c.pc), \o10, c.link)

\* Mutant of Dispatch: the request is not taken off the count.
DispatchKeepsRequest(c) ==
  IF WillDispatch(c)
    THEN SetPc(SetInterruptEnable(SaveContext(c), FALSE), \o20)
    ELSE c

Dispatch(c) ==
  IF WillDispatch(c)
    THEN SetPc(SetInterruptEnable(ClearInterruptPending(SaveContext(c)), FALSE),
               \o20)
    ELSE c

\* Mutant of Finish: the dispatch comes before the skip.
FinishDispatchFirst(c) == ApplySkip(Dispatch(c))

\* What follows the instruction and precedes the tick handlers.  The enable
\* flag takes effect in the step of the ION itself.
Finish(c) == Dispatch(ApplySkip(c))
=============================================================================
