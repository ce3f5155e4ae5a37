--------------------------- MODULE Pdp8CpuProofs ---------------------------
(***************************************************************************)
(* The processor keeps its types, carries no skip from one step into the    *)
(* next, and dispatches every interrupt so that it can be resumed, whatever *)
(* the program, the devices and the front ends do.  The lemmas come first:  *)
(* each operator of Pdp8Instructions takes a well-typed processor state to  *)
(* a well-typed one, and commutes with clearing the count of requests.      *)
(***************************************************************************)
EXTENDS Pdp8Cpu, BasicProofs

-----------------------------------------------------------------------------
(* The setters.                                                             *)

LEMMA AddrIsNat ==
  ASSUME NEW a \in Addr
  PROVE  a \in Nat /\ a \in Int /\ a + 1 \in Int
  BY MemWordsAssumption DEF Addr

LEMMA FieldTypes ==
  ASSUME NEW c \in CpuState
  PROVE  /\ c.pc \in Addr /\ c.ac \in Word /\ c.link \in LinkBit /\ c.sr \in Word
         /\ c.halted \in BOOLEAN /\ c.skip \in BOOLEAN /\ c.ion \in BOOLEAN
         /\ c.pending \in Nat
         /\ c.mem \in [Addr -> Word]
         /\ \A a \in Addr : c.mem[a] \in Word
  BY DEF CpuState

\* The numeric fields and memory words are integers.
LEMMA FieldInts ==
  ASSUME NEW c \in CpuState
  PROVE  /\ c.pc \in Nat /\ c.pc \in Int /\ c.pc + 1 \in Int
         /\ c.ac \in Nat /\ c.ac \in Int
         /\ c.link \in Nat /\ c.link \in Int
         /\ \A a \in Addr : c.mem[a] \in Nat /\ c.mem[a] \in Int
  BY FieldTypes, WordIsNat, LinkIsNat, AddrIsNat

LEMMA NormaliseType ==
  ASSUME NEW n \in Int
  PROVE  Normalise(n) \in Addr
  BY MemWordsAssumption DEF Normalise, Addr

LEMMA SetAcType ==
  ASSUME NEW c \in CpuState, NEW n \in Int
  PROVE  /\ SetAc(c, n) \in CpuState
         /\ SetAc(c, n).skip = c.skip
<1>1. MaskWord(n) \in Word
  BY MaskIsWord
<1> QED
  BY <1>1 DEF SetAc, CpuState

LEMMA SetPcType ==
  ASSUME NEW c \in CpuState, NEW n \in Int
  PROVE  /\ SetPc(c, n) \in CpuState
         /\ SetPc(c, n).skip = c.skip
<1>1. Normalise(n) \in Addr
  BY NormaliseType
<1> QED
  BY <1>1 DEF SetPc, CpuState

LEMMA SetLinkType ==
  ASSUME NEW c \in CpuState, NEW n \in Int
  PROVE  /\ SetLink(c, n) \in CpuState
         /\ SetLink(c, n).skip = c.skip
<1>1. n % 2 \in LinkBit
  BY DEF LinkBit
<1> QED
  BY <1>1 DEF SetLink, CpuState

LEMMA SetHaltType ==
  ASSUME NEW c \in CpuState
  PROVE  /\ SetHalt(c) \in CpuState
         /\ SetHalt(c).skip = c.skip
  BY DEF SetHalt, CpuState

LEMMA ClearHaltType ==
  ASSUME NEW c \in CpuState
  PROVE  /\ ClearHalt(c) \in CpuState
         /\ ClearHalt(c).skip = c.skip
  BY DEF ClearHalt, CpuState

LEMMA SetInterruptEnableType ==
  ASSUME NEW c \in CpuState, NEW b \in BOOLEAN
  PROVE  /\ SetInterruptEnable(c, b) \in CpuState
         /\ SetInterruptEnable(c, b).skip = c.skip
  BY DEF SetInterruptEnable, CpuState

LEMMA RequestInterruptType ==
  ASSUME NEW c \in CpuState
  PROVE  /\ RequestInterrupt(c) \in CpuState
         /\ RequestInterrupt(c).skip = c.skip
  BY DEF RequestInterrupt, CpuState

\* The interrupt count never goes below zero.
LEMMA ClearInterruptPendingType ==
  ASSUME NEW c \in CpuState
  PROVE  /\ ClearInterruptPending(c) \in CpuState
         /\ ClearInterruptPending(c).skip = c.skip
<1>1. c.pending \in Nat
  BY DEF CpuState
<1>2. (IF c.pending > 0 THEN c.pending - 1 ELSE c.pending) \in Nat
  BY <1>1
<1> QED
  BY <1>2 DEF ClearInterruptPending, CpuState

LEMMA RequestSkipType ==
  ASSUME NEW c \in CpuState
  PROVE  RequestSkip(c) \in CpuState
  BY DEF RequestSkip, CpuState

LEMMA SetSwitchRegisterType ==
  ASSUME NEW c \in CpuState, NEW n \in Int
  PROVE  /\ SetSwitchRegister(c, n) \in CpuState
         /\ SetSwitchRegister(c, n).skip = c.skip
<1>1. MaskWord(n) \in Word
  BY MaskIsWord
<1> QED
  BY <1>1 DEF SetSwitchRegister, CpuState

SetMem(c, m) == [c EXCEPT !.mem = m]

LEMMA SetMemType ==
  ASSUME NEW c \in CpuState, NEW m \in [Addr -> Word]
  PROVE  /\ SetMem(c, m) \in CpuState
         /\ SetMem(c, m).skip = c.skip
  BY DEF SetMem, CpuState

LEMMA WriteMemType ==
  ASSUME NEW c \in CpuState, NEW a \in Int, NEW n \in Int
  PROVE  /\ WriteMem(c, a, n) \in CpuState
         /\ WriteMem(c, a, n).skip = c.skip
<1>1. MaskWord(n) \in Word
  BY MaskIsWord
<1>2. c.mem \in [Addr -> Word]
  BY DEF CpuState
<1>3. [c.mem EXCEPT ![Normalise(a)] = MaskWord(n)] \in [Addr -> Word]
  BY <1>1, <1>2
<1>4. WriteMem(c, a, n) = SetMem(c, [c.mem EXCEPT ![Normalise(a)] = MaskWord(n)])
  BY DEF WriteMem, SetMem
<1> QED
  BY <1>3, <1>4, SetMemType

LEMMA ReadWordType ==
  ASSUME NEW c \in CpuState, NEW a \in Int, NEW minutes \in Int
  PROVE  ReadWord(c, a, minutes) \in Word
<1>1. /\ MaskWord(minutes) \in Word
      /\ Normalise(a) \in Addr
      /\ c.mem \in [Addr -> Word]
  BY MaskIsWord, NormaliseType DEF CpuState
<1> QED
  BY <1>1 DEF ReadWord

LEMMA PoweredUpType ==
  /\ PoweredUpCpu \in CpuState
  /\ ~PoweredUpCpu.skip
<1>1. /\ 0 \in Addr /\ 0 \in Word /\ 0 \in LinkBit /\ 0 \in Nat
      /\ FALSE \in BOOLEAN
  BY MemWordsAssumption DEF Addr, Word, LinkBit
<1>2. [a \in Addr |-> 0] \in [Addr -> Word]
  BY <1>1
<1> QED
  BY <1>1, <1>2 DEF PoweredUpCpu, CpuState

LEMMA ResetType ==
  ASSUME NEW c \in CpuState
  PROVE  /\ ResetCpu(c) \in CpuState
         /\ ~ResetCpu(c).skip
<1>1. c.sr \in Word
  BY DEF CpuState
<1> DEFINE p == PoweredUpCpu
<1>2. p \in CpuState /\ ~p.skip
  BY PoweredUpType
<1> HIDE DEF p
<1>3. /\ [p EXCEPT !.sr = c.sr] \in CpuState
      /\ ~[p EXCEPT !.sr = c.sr].skip
  BY <1>1, <1>2 DEF CpuState
<1> QED
  BY <1>3 DEF ResetCpu, p

-----------------------------------------------------------------------------
(* Memory reference instructions.                                           *)

LEMMA OpcodeRange ==
  ASSUME NEW w \in Word
  PROVE  Opcode(w) \in 0 .. 7
  BY DEF Opcode, Word

LEMMA DirectAddressType ==
  ASSUME NEW c \in CpuState, NEW w \in Word
  PROVE  DirectAddress(c, w) \in Addr
<1>1. c.pc \in Nat /\ w \in Nat
  BY FieldInts, WordIsNat
<1>2. c.pc % \o200 \in Int /\ w % \o200 \in Int
  BY <1>1
<1>3. (IF Has(w, \o200) THEN c.pc - (c.pc % \o200) ELSE 0) + (w % \o200) \in Int
  BY <1>1, <1>2
<1> QED
  BY <1>3, NormaliseType DEF DirectAddress

LEMMA AutoIndexedType ==
  ASSUME NEW c \in CpuState, NEW w \in Word
  PROVE  AutoIndexed(c, w) \in CpuState
<1> DEFINE a == DirectAddress(c, w)
<1>1. a \in Addr
  BY DirectAddressType
<1> HIDE DEF a
<1>2. c.mem[a] \in Int /\ a \in Int
  BY <1>1, AddrIsNat, FieldInts
<1>3. WriteMem(c, a, c.mem[a] + 1) \in CpuState
  <2>1. c.mem[a] + 1 \in Int
    BY <1>2
  <2> QED
    BY <1>2, <2>1, WriteMemType
<1> QED
  BY <1>3 DEF AutoIndexed, a

LEMMA EffectiveAddressType ==
  ASSUME NEW c \in CpuState, NEW w \in Word
  PROVE  EffectiveAddress(c, w) \in Addr
<1>1. DirectAddress(c, w) \in Addr
  BY DirectAddressType
<1>2. c.mem[DirectAddress(c, w)] \in Int
  BY <1>1, FieldInts
<1>3. Normalise(c.mem[DirectAddress(c, w)]) \in Addr
  BY <1>2, NormaliseType
<1> QED
  BY <1>1, <1>3 DEF EffectiveAddress

LEMMA AndWordType ==
  ASSUME NEW c \in CpuState, NEW v \in Word
  PROVE  AndWord(c, v) \in CpuState
<1>1. And(c.ac, v) \in Int
  BY AndIsWord, WordIsNat
<1> QED
  BY <1>1, SetAcType DEF AndWord

LEMMA TadWordType ==
  ASSUME NEW c \in CpuState, NEW v \in Word
  PROVE  TadWord(c, v) \in CpuState
<1>1. c.ac + v \in Int /\ c.link + 1 \in Int
  <2>1. c.ac \in Nat /\ v \in Nat /\ c.link \in Nat
    BY FieldInts, WordIsNat
  <2> QED
    BY <2>1
<1>2. SetAc(c, c.ac + v) \in CpuState
  BY <1>1, SetAcType
<1>3. SetLink(SetAc(c, c.ac + v), c.link + 1) \in CpuState
  BY <1>1, <1>2, SetLinkType
<1> QED
  BY <1>2, <1>3 DEF TadWord

LEMMA IszType ==
  ASSUME NEW c \in CpuState, NEW a \in Addr
  PROVE  Isz(c, a) \in CpuState
<1>1. c.mem[a] + 1 \in Int /\ a \in Int
  <2>1. c.mem[a] \in Int
    BY FieldInts
  <2> QED
    BY <2>1, AddrIsNat
<1>2. WriteMem(c, a, c.mem[a] + 1) \in CpuState
  BY <1>1, WriteMemType
<1>3. RequestSkip(WriteMem(c, a, c.mem[a] + 1)) \in CpuState
  BY <1>2, RequestSkipType
<1> QED
  BY <1>2, <1>3 DEF Isz

LEMMA DcaType ==
  ASSUME NEW c \in CpuState, NEW a \in Addr
  PROVE  Dca(c, a) \in CpuState
<1>1. c.ac \in Int /\ a \in Int
  BY AddrIsNat, FieldInts
<1>2. WriteMem(c, a, c.ac) \in CpuState
  BY <1>1, WriteMemType
<1> QED
  BY <1>2, SetAcType DEF Dca

LEMMA JmsType ==
  ASSUME NEW c \in CpuState, NEW a \in Addr
  PROVE  Jms(c, a) \in CpuState
<1>1. c.pc \in Int /\ a \in Int /\ a + 1 \in Int
  BY AddrIsNat, FieldInts
<1>2. WriteMem(c, a, c.pc) \in CpuState
  BY <1>1, WriteMemType
<1> QED
  BY <1>1, <1>2, SetPcType DEF Jms

LEMMA MemoryReferenceType ==
  ASSUME NEW c0 \in CpuState, NEW w \in Word, NEW minutes \in Int
  PROVE  MemoryReference(c0, w, minutes) \in CpuState
<1> DEFINE c == AutoIndexed(c0, w)
           a == EffectiveAddress(c, w)
           v == ReadWord(c, a, minutes)
<1>1. c \in CpuState
  BY AutoIndexedType
<1> HIDE DEF c
<1>2. a \in Addr /\ a \in Int
  BY <1>1, EffectiveAddressType, AddrIsNat
<1> HIDE DEF a
<1>3. v \in Word
  BY <1>1, <1>2, ReadWordType
<1> HIDE DEF v
<1>4. AndWord(c, v) \in CpuState
  BY <1>1, <1>3, AndWordType
<1>5. TadWord(c, v) \in CpuState
  BY <1>1, <1>3, TadWordType
<1>6. Isz(c, a) \in CpuState /\ Dca(c, a) \in CpuState /\ Jms(c, a) \in CpuState
  BY <1>1, <1>2, IszType, DcaType, JmsType
<1>7. SetPc(c, a) \in CpuState
  BY <1>1, <1>2, SetPcType
<1>8. MemoryReference(c0, w, minutes) =
        CASE Opcode(w) = 0 -> AndWord(c, v)
          [] Opcode(w) = 1 -> TadWord(c, v)
          [] Opcode(w) = 2 -> Isz(c, a)
          [] Opcode(w) = 3 -> Dca(c, a)
          [] Opcode(w) = 4 -> Jms(c, a)
          [] OTHER         -> SetPc(c, a)
  BY DEF MemoryReference, c, a, v
<1> QED
  BY <1>4, <1>5, <1>6, <1>7, <1>8, OpcodeRange

-----------------------------------------------------------------------------
(* Operate instructions.                                                    *)

LEMMA SetCombinedType ==
  ASSUME NEW c \in CpuState, NEW x \in Nat
  PROVE  SetCombined(c, x) \in CpuState
<1>1. SetAc(c, x) \in CpuState
  BY SetAcType
<1>2. x \div \o10000 \in Int
  OBVIOUS
<1> QED
  BY <1>1, <1>2, SetLinkType DEF SetCombined

LEMMA CombinedType ==
  ASSUME NEW c \in CpuState
  PROVE  Combined(c) \in Nat
<1>1. c.ac \in Nat /\ c.link \in Nat
  BY FieldInts
<1> QED
  BY <1>1 DEF Combined

LEMMA ClearAndComplementType ==
  ASSUME NEW c \in CpuState, NEW w \in Word
  PROVE  ClearAndComplement(c, w) \in CpuState
<1> DEFINE ac == IF Has(w, \o200) THEN 0 ELSE c.ac
           link == IF Has(w, \o100) THEN 0 ELSE c.link
           n == IF Has(w, \o40) THEN Complement(ac) ELSE ac
           l == IF Has(w, \o20) THEN link + 1 ELSE link
<1>1. ac \in Word /\ link \in Int
  <2>1. 0 \in Word
    BY DEF Word
  <2>2. c.ac \in Word /\ c.link \in Int
    BY FieldTypes, FieldInts
  <2> QED
    BY <2>1, <2>2
<1> HIDE DEF ac, link
<1>2. n \in Int /\ l \in Int
  <2>1. ac \in Int /\ Complement(ac) \in Int /\ link + 1 \in Int
    BY <1>1, ComplementIsWord, WordIsNat
  <2> QED
    BY <1>1, <2>1
<1> HIDE DEF n, l
<1>3. SetAc(c, n) \in CpuState
  BY <1>2, SetAcType
<1>4. SetLink(SetAc(c, n), l) \in CpuState
  BY <1>2, <1>3, SetLinkType
<1> QED
  BY <1>4 DEF ClearAndComplement, ac, link, n, l

LEMMA RotateType ==
  ASSUME NEW x \in Nat
  PROVE  RotateRight(x) \in Nat /\ RotateLeft(x) \in Nat
  BY DEF RotateRight, RotateLeft

LEMMA RotatedType ==
  ASSUME NEW c \in CpuState, NEW w \in Word
  PROVE  Rotated(c, w) \in CpuState
<1> DEFINE x == Combined(c)
<1>1. x \in Nat
  BY CombinedType
<1> HIDE DEF x
<1>2. /\ RotateRight(x) \in Nat /\ RotateRight(RotateRight(x)) \in Nat
      /\ RotateLeft(x) \in Nat /\ RotateLeft(RotateLeft(x)) \in Nat
  BY <1>1, RotateType
<1>3. /\ SetCombined(c, RotateRight(x)) \in CpuState
      /\ SetCombined(c, RotateRight(RotateRight(x))) \in CpuState
      /\ SetCombined(c, RotateLeft(x)) \in CpuState
      /\ SetCombined(c, RotateLeft(RotateLeft(x))) \in CpuState
  BY <1>2, SetCombinedType
<1>4. SwapBytes(c.ac) \in Int
  <2>1. c.ac \in Nat
    BY FieldInts
  <2> QED
    BY <2>1 DEF SwapBytes
<1>5. SetAc(c, SwapBytes(c.ac)) \in CpuState
  BY <1>4, SetAcType
<1> QED
  BY <1>3, <1>5 DEF Rotated, x

LEMMA OperateGroup1Type ==
  ASSUME NEW c \in CpuState, NEW w \in Word
  PROVE  OperateGroup1(c, w) \in CpuState
<1> DEFINE r == Rotated(ClearAndComplement(c, w), w)
<1>1. r \in CpuState
  BY ClearAndComplementType, RotatedType
<1> HIDE DEF r
<1>2. (Combined(r) + 1) % \o20000 \in Nat
  BY <1>1, CombinedType
<1>3. SetCombined(r, (Combined(r) + 1) % \o20000) \in CpuState
  BY <1>1, <1>2, SetCombinedType
<1> QED
  BY <1>1, <1>3 DEF OperateGroup1, r

LEMMA OperateGroup2Type ==
  ASSUME NEW c \in CpuState, NEW w \in Word
  PROVE  OperateGroup2(c, w) \in CpuState
<1> DEFINE c1 == IF Has(w, \o200) THEN SetAc(c, 0) ELSE c
           c2 == IF Has(w, \o4) THEN SetAc(c1, Or(c1.ac, c1.sr)) ELSE c1
           c3 == IF Has(w, \o2) THEN SetHalt(c2) ELSE c2
           c4 == Group2Enable(c3, w)
<1>1. c1 \in CpuState
  BY SetAcType
<1> HIDE DEF c1
<1>2. Or(c1.ac, c1.sr) \in Int
  BY OrIsWord, WordIsNat
<1>3. c2 \in CpuState
  BY <1>1, <1>2, SetAcType
<1> HIDE DEF c2
<1>4. c3 \in CpuState
  BY <1>3, SetHaltType
<1> HIDE DEF c3
<1>5. c4 \in CpuState
  BY <1>4, SetInterruptEnableType DEF Group2Enable
<1> HIDE DEF c4
<1>6. RequestSkip(c4) \in CpuState
  BY <1>5, RequestSkipType
<1>7. OperateGroup2(c, w) = IF SkipCondition(c1, w) THEN RequestSkip(c4) ELSE c4
  BY DEF OperateGroup2, c1, c2, c3, c4
<1> QED
  BY <1>5, <1>6, <1>7

LEMMA OperateType ==
  ASSUME NEW c \in CpuState, NEW w \in Word
  PROVE  Operate(c, w) \in CpuState
  BY OperateGroup1Type, OperateGroup2Type DEF Operate

-----------------------------------------------------------------------------
(* Interrupt control, tick signals and the frame of a step.                 *)

LEMMA InterruptControlType ==
  ASSUME NEW c \in CpuState, NEW w \in Word
  PROVE  InterruptControlIot(c, w) \in CpuState
<1>1. /\ SetInterruptEnable(c, FALSE) \in CpuState
      /\ SetInterruptEnable(c, TRUE) \in CpuState
      /\ RequestSkip(c) \in CpuState
  BY SetInterruptEnableType, RequestSkipType
<1> QED
  BY <1>1 DEF InterruptControlIot

\* A tick handler leaves the pending skip as it is.
LEMMA SignalledType ==
  ASSUME NEW c \in CpuState, NEW signal
  PROVE  /\ Signalled(c, signal) \in CpuState
         /\ Signalled(c, signal).skip = c.skip
  BY SetPcType, SetHaltType, RequestInterruptType DEF Signalled

LEMMA AdvancedType ==
  ASSUME NEW c \in CpuState
  PROVE  /\ Advanced(c) \in CpuState
         /\ Fetched(c) \in Word
<1>1. c.pc + 1 \in Int /\ c.mem[c.pc] \in Word
  BY FieldTypes, FieldInts
<1> QED
  BY <1>1, SetPcType DEF Advanced, Fetched

LEMMA ClearSkipType ==
  ASSUME NEW c \in CpuState
  PROVE  /\ ClearSkip(c) \in CpuState
         /\ ~ClearSkip(c).skip
  BY DEF ClearSkip, CpuState

LEMMA ApplySkipType ==
  ASSUME NEW c \in CpuState
  PROVE  /\ ApplySkip(c) \in CpuState
         /\ ~ApplySkip(c).skip
<1>1. c.pc + 1 \in Int
  BY FieldInts
<1>2. SetPc(c, c.pc + 1) \in CpuState
  BY <1>1, SetPcType
<1>3. /\ ClearSkip(SetPc(c, c.pc + 1)) \in CpuState
      /\ ~ClearSkip(SetPc(c, c.pc + 1)).skip
  BY <1>2, ClearSkipType
<1>4. CASE c.skip
  BY <1>3, <1>4 DEF ApplySkip
<1>5. CASE ~c.skip
  BY <1>5 DEF ApplySkip
<1> QED
  BY <1>4, <1>5

LEMMA SaveContextType ==
  ASSUME NEW c \in CpuState
  PROVE  /\ SaveContext(c) \in CpuState
         /\ SaveContext(c).skip = c.skip
<1>1. c.ac \in Int /\ c.pc \in Int /\ c.link \in Int
  BY FieldInts
<1> DEFINE c1 == WriteMem(c, \o6, c.ac)
           c2 == WriteMem(c1, \o7, c.pc)
           c3 == WriteMem(c2, \o10, c.link)
<1>2. c1 \in CpuState /\ c1.skip = c.skip
  BY <1>1, WriteMemType
<1> HIDE DEF c1
<1>3. c2 \in CpuState /\ c2.skip = c.skip
  BY <1>1, <1>2, WriteMemType
<1> HIDE DEF c2
<1>4. c3 \in CpuState /\ c3.skip = c.skip
  BY <1>1, <1>3, WriteMemType
<1> HIDE DEF c3
<1>5. SaveContext(c) = c3
  BY DEF SaveContext, c1, c2, c3
<1> QED
  BY <1>4, <1>5

LEMMA DispatchType ==
  ASSUME NEW c \in CpuState
  PROVE  /\ Dispatch(c) \in CpuState
         /\ Dispatch(c).skip = c.skip
<1> DEFINE c1 == SaveContext(c)
           c2 == ClearInterruptPending(c1)
           c3 == SetInterruptEnable(c2, FALSE)
           c4 == SetPc(c3, \o20)
<1>1. c1 \in CpuState /\ c1.skip = c.skip
  BY SaveContextType
<1> HIDE DEF c1
<1>2. c2 \in CpuState /\ c2.skip = c.skip
  BY <1>1, ClearInterruptPendingType
<1> HIDE DEF c2
<1>3. c3 \in CpuState /\ c3.skip = c.skip
  BY <1>2, SetInterruptEnableType
<1> HIDE DEF c3
<1>4. c4 \in CpuState /\ c4.skip = c.skip
  BY <1>3, SetPcType
<1> HIDE DEF c4
<1>5. Dispatch(c) = IF WillDispatch(c) THEN c4 ELSE c
  BY DEF Dispatch, c1, c2, c3, c4
<1> QED
  BY <1>4, <1>5

\* What follows an instruction leaves no skip behind.
LEMMA FinishType ==
  ASSUME NEW c \in CpuState
  PROVE  /\ Finish(c) \in CpuState
         /\ ~Finish(c).skip
  BY ApplySkipType, DispatchType DEF Finish

-----------------------------------------------------------------------------
(* The processor as a state machine.                                        *)

\* CpuTypeOK and SkipSettled together are inductive: ApplySkip consults the
\* flag, so a skip left over by one step would be applied in another.
CpuInv == CpuTypeOK /\ SkipSettled

LEMMA InitEstablishes == CpuInit => CpuInv
  BY PoweredUpType DEF CpuInit, CpuInv, CpuTypeOK, SkipSettled

\* Whatever well-typed state an instruction leaves, the end of the step
\* establishes the invariant.
LEMMA EndStepEstablishes ==
  ASSUME NEW c \in CpuState, NEW signal, EndStep(c, signal)
  PROVE  CpuInv'
<1>1. Finish(c) \in CpuState /\ ~Finish(c).skip
  BY FinishType
<1>2. /\ Signalled(Finish(c), signal) \in CpuState
      /\ ~Signalled(Finish(c), signal).skip
  BY <1>1, SignalledType
<1> QED
  BY <1>2 DEF EndStep, CpuInv, CpuTypeOK, SkipSettled

LEMMA HandlerResultsType ==
  ASSUME NEW c \in CpuState
  PROVE  HandlerResults(c) \subseteq CpuState
<1> DEFINE loaded == {c} \cup {SetAc(c, v) : v \in DeviceWords}
<1>1. \A v \in DeviceWords : SetAc(c, v) \in CpuState
  BY SetAcType, WordIsNat, CpuConstantsAssumption
<1>2. loaded \subseteq CpuState
  BY <1>1
<1> HIDE DEF loaded
<1>3. \A l \in loaded : RequestSkip(l) \in CpuState
  BY <1>2, RequestSkipType
<1>4. HandlerResults(c) = loaded \cup {RequestSkip(l) : l \in loaded}
  BY DEF HandlerResults, loaded
<1> QED
  BY <1>2, <1>3, <1>4

\* One step of the processor, whatever its tick signals.
LEMMA StepPreserves ==
  ASSUME CpuInv, NEW signal, Step(signal)
  PROVE  CpuInv'
<1> DEFINE c == Advanced(cpu)
           w == Fetched(cpu)
<1>1. c \in CpuState /\ w \in Word
  BY AdvancedType DEF CpuInv, CpuTypeOK
<1>2. CASE StepMemoryReference(signal)
  <2>1. PICK minutes \in Minutes : EndStep(MemoryReference(c, w, minutes), signal)
    BY <1>2 DEF StepMemoryReference
  <2>2. minutes \in Int
    BY CpuConstantsAssumption
  <2>3. MemoryReference(c, w, minutes) \in CpuState
    BY <1>1, <2>2, MemoryReferenceType
  <2> QED
    BY <2>1, <2>3, EndStepEstablishes
<1>3. CASE StepInterruptControl(signal)
  <2>1. InterruptControlIot(c, w) \in CpuState
    BY <1>1, InterruptControlType
  <2> QED
    BY <1>3, <2>1, EndStepEstablishes DEF StepInterruptControl
<1>4. CASE StepDevice(signal)
  <2>1. PICK e \in HandlerResults(c) : EndStep(e, signal)
    BY <1>4 DEF StepDevice
  <2>2. e \in CpuState
    BY <1>1, <2>1, HandlerResultsType
  <2> QED
    BY <2>1, <2>2, EndStepEstablishes
<1>5. CASE StepOperate(signal)
  <2>1. Operate(c, w) \in CpuState
    BY <1>1, OperateType
  <2> QED
    BY <1>5, <2>1, EndStepEstablishes DEF StepOperate
<1> QED
  BY <1>2, <1>3, <1>4, <1>5 DEF Step

\* What a front end does between two steps.
LEMMA HostPreserves ==
  ASSUME CpuInv, Host
  PROVE  CpuInv'
<1>1. cpu \in CpuState /\ ~cpu.skip
  BY DEF CpuInv, CpuTypeOK, SkipSettled
<1>2. \A a \in HostAddrs, v \in HostWords : a \in Int /\ v \in Int
  BY CpuConstantsAssumption, WordIsNat
<1>3. ASSUME NEW a \in HostAddrs, NEW v \in HostWords, HostDeposit(a, v)
      PROVE  CpuInv'
  <2>1. WriteMem(cpu, a, v) \in CpuState /\ ~WriteMem(cpu, a, v).skip
    BY <1>1, <1>2, WriteMemType
  <2> QED
    BY <1>3, <2>1 DEF HostDeposit, CpuInv, CpuTypeOK, SkipSettled
<1>4. ASSUME HostReset PROVE CpuInv'
  BY <1>1, <1>4, ResetType DEF HostReset, CpuInv, CpuTypeOK, SkipSettled
<1>5. ASSUME NEW v \in HostWords, HostSwitches(v)
      PROVE  CpuInv'
  <2>1. v \in Int
    BY CpuConstantsAssumption, WordIsNat
  <2> QED
    BY <1>1, <1>5, <2>1, SetSwitchRegisterType
       DEF HostSwitches, CpuInv, CpuTypeOK, SkipSettled
<1>6. ASSUME NEW a \in HostAddrs, HostSetPc(a) \/ HostStart(a)
      PROVE  CpuInv'
  <2>1. a \in Int
    BY CpuConstantsAssumption
  <2>2. SetPc(cpu, a) \in CpuState /\ ~SetPc(cpu, a).skip
    BY <1>1, <2>1, SetPcType
  <2>3. /\ ClearHalt(SetPc(cpu, a)) \in CpuState
        /\ ~ClearHalt(SetPc(cpu, a)).skip
    BY <2>2, ClearHaltType
  <2> QED
    BY <1>6, <2>2, <2>3 DEF HostSetPc, HostStart, CpuInv, CpuTypeOK, SkipSettled
<1>7. ASSUME HostContinue PROVE CpuInv'
  BY <1>1, <1>7, ClearHaltType DEF HostContinue, CpuInv, CpuTypeOK, SkipSettled
<1>8. ASSUME HostAccept PROVE CpuInv'
  BY <1>1, <1>8, ClearInterruptPendingType
     DEF HostAccept, CpuInv, CpuTypeOK, SkipSettled
<1> QED
  BY <1>3, <1>4, <1>5, <1>6, <1>7, <1>8 DEF Host

LEMMA NextPreserves == CpuInv /\ [CpuNext]_cpuVars => CpuInv'
<1> SUFFICES ASSUME CpuInv, [CpuNext]_cpuVars PROVE CpuInv'
  OBVIOUS
<1>1. ASSUME NEW signal \in Signals, Step(signal) PROVE CpuInv'
  BY <1>1, StepPreserves
<1>2. ASSUME Host PROVE CpuInv'
  BY <1>2, HostPreserves
<1>3. CASE UNCHANGED cpuVars
  BY <1>3 DEF cpuVars, CpuInv, CpuTypeOK, SkipSettled
<1> QED
  BY <1>1, <1>2, <1>3 DEF CpuNext

\* The registers, the memory and the interrupt count of struct pdp8 stay in
\* range in every behaviour of the processor.
THEOREM CpuTypeCorrect == CpuSpec => []CpuTypeOK
<1>1. CpuInv => CpuTypeOK
  BY DEF CpuInv
<1> QED
  BY InitEstablishes, NextPreserves, <1>1, PTL DEF CpuSpec

\* No skip survives the step that asked for it.
THEOREM SkipAlwaysSettled == CpuSpec => []SkipSettled
<1>1. CpuInv => SkipSettled
  BY DEF CpuInv
<1> QED
  BY InitEstablishes, NextPreserves, <1>1, PTL DEF CpuSpec

-----------------------------------------------------------------------------
(* An instruction does not read the count of pending interrupts and does    *)
(* not change it: each operator commutes with clearing the count.           *)

CpuFields ==
  {"pc", "ac", "link", "sr", "halted", "skip", "ion", "pending", "mem"}

Shaped(c) == DOMAIN c = CpuFields

Quiet(c) == [c EXCEPT !.pending = 0]

LEMMA StatesAreShaped ==
  ASSUME NEW c \in CpuState
  PROVE  Shaped(c)
  BY DEF Shaped, CpuState, CpuFields

LEMMA QuietReads ==
  ASSUME NEW c, Shaped(c)
  PROVE  /\ Shaped(Quiet(c))
         /\ Quiet(c).pc = c.pc /\ Quiet(c).ac = c.ac /\ Quiet(c).link = c.link
         /\ Quiet(c).sr = c.sr /\ Quiet(c).halted = c.halted
         /\ Quiet(c).skip = c.skip /\ Quiet(c).ion = c.ion
         /\ Quiet(c).mem = c.mem /\ Quiet(c).pending = 0
  BY DEF Shaped, Quiet, CpuFields

LEMMA SetAcQuiet ==
  ASSUME NEW c, Shaped(c), NEW v
  PROVE  /\ Shaped(SetAc(c, v))
         /\ SetAc(Quiet(c), v) = Quiet(SetAc(c, v))
         /\ SetAc(c, v).pending = c.pending
  BY DEF Shaped, Quiet, CpuFields, SetAc

LEMMA SetPcQuiet ==
  ASSUME NEW c, Shaped(c), NEW v
  PROVE  /\ Shaped(SetPc(c, v))
         /\ SetPc(Quiet(c), v) = Quiet(SetPc(c, v))
         /\ SetPc(c, v).pending = c.pending
  BY DEF Shaped, Quiet, CpuFields, SetPc

LEMMA SetLinkQuiet ==
  ASSUME NEW c, Shaped(c), NEW v
  PROVE  /\ Shaped(SetLink(c, v))
         /\ SetLink(Quiet(c), v) = Quiet(SetLink(c, v))
         /\ SetLink(c, v).pending = c.pending
  BY DEF Shaped, Quiet, CpuFields, SetLink

LEMMA SetHaltQuiet ==
  ASSUME NEW c, Shaped(c)
  PROVE  /\ Shaped(SetHalt(c))
         /\ SetHalt(Quiet(c)) = Quiet(SetHalt(c))
         /\ SetHalt(c).pending = c.pending
  BY DEF Shaped, Quiet, CpuFields, SetHalt

LEMMA SetInterruptEnableQuiet ==
  ASSUME NEW c, Shaped(c), NEW b
  PROVE  /\ Shaped(SetInterruptEnable(c, b))
         /\ SetInterruptEnable(Quiet(c), b) = Quiet(SetInterruptEnable(c, b))
         /\ SetInterruptEnable(c, b).pending = c.pending
  BY DEF Shaped, Quiet, CpuFields, SetInterruptEnable

LEMMA RequestSkipQuiet ==
  ASSUME NEW c, Shaped(c)
  PROVE  /\ Shaped(RequestSkip(c))
         /\ RequestSkip(Quiet(c)) = Quiet(RequestSkip(c))
         /\ RequestSkip(c).pending = c.pending
  BY DEF Shaped, Quiet, CpuFields, RequestSkip

LEMMA ClearSkipQuiet ==
  ASSUME NEW c, Shaped(c)
  PROVE  /\ Shaped(ClearSkip(c))
         /\ ClearSkip(Quiet(c)) = Quiet(ClearSkip(c))
         /\ ClearSkip(c).pending = c.pending
  BY DEF Shaped, Quiet, CpuFields, ClearSkip

LEMMA WriteMemQuiet ==
  ASSUME NEW c, Shaped(c), NEW a, NEW v
  PROVE  /\ Shaped(WriteMem(c, a, v))
         /\ WriteMem(Quiet(c), a, v) = Quiet(WriteMem(c, a, v))
         /\ WriteMem(c, a, v).pending = c.pending
  BY DEF Shaped, Quiet, CpuFields, WriteMem

LEMMA MemoryReferenceQuiet ==
  ASSUME NEW c0, Shaped(c0), NEW w, NEW minutes
  PROVE  /\ Shaped(MemoryReference(c0, w, minutes))
         /\ MemoryReference(Quiet(c0), w, minutes)
              = Quiet(MemoryReference(c0, w, minutes))
         /\ MemoryReference(c0, w, minutes).pending = c0.pending
<1> DEFINE d == DirectAddress(c0, w)
           c == AutoIndexed(c0, w)
           a == EffectiveAddress(c, w)
           v == ReadWord(c, a, minutes)
<1>1. DirectAddress(Quiet(c0), w) = d
  BY QuietReads DEF DirectAddress
<1>2. /\ Shaped(c) /\ AutoIndexed(Quiet(c0), w) = Quiet(c)
      /\ c.pending = c0.pending
  <2> HIDE DEF d
  <2>1. Quiet(c0).mem = c0.mem
    BY QuietReads
  <2>2. /\ Shaped(WriteMem(c0, d, c0.mem[d] + 1))
        /\ WriteMem(Quiet(c0), d, c0.mem[d] + 1) = Quiet(WriteMem(c0, d, c0.mem[d] + 1))
        /\ WriteMem(c0, d, c0.mem[d] + 1).pending = c0.pending
    BY WriteMemQuiet
  <2> QED
    BY <1>1, <2>1, <2>2 DEF AutoIndexed, d
<1> HIDE DEF c, d
<1>3. EffectiveAddress(Quiet(c), w) = a
  <2>1. DirectAddress(Quiet(c), w) = DirectAddress(c, w)
    BY <1>2, QuietReads DEF DirectAddress
  <2> QED
    BY <1>2, <2>1, QuietReads DEF EffectiveAddress
<1> HIDE DEF a
<1>4. ReadWord(Quiet(c), a, minutes) = v
  BY <1>2, QuietReads DEF ReadWord
<1> HIDE DEF v
<1> DEFINE Commutes(f, g) == Shaped(f) /\ g = Quiet(f) /\ f.pending = c.pending
<1>5. Commutes(AndWord(c, v), AndWord(Quiet(c), v))
  BY <1>2, QuietReads, SetAcQuiet DEF AndWord
<1>6. Commutes(TadWord(c, v), TadWord(Quiet(c), v))
  BY <1>2, QuietReads, SetAcQuiet, SetLinkQuiet DEF TadWord
<1>7. Commutes(Isz(c, a), Isz(Quiet(c), a))
  BY <1>2, QuietReads, WriteMemQuiet, RequestSkipQuiet DEF Isz
<1>8. Commutes(Dca(c, a), Dca(Quiet(c), a))
  BY <1>2, QuietReads, WriteMemQuiet, SetAcQuiet DEF Dca
<1>9. Commutes(Jms(c, a), Jms(Quiet(c), a))
  BY <1>2, QuietReads, WriteMemQuiet, SetPcQuiet DEF Jms
<1>10. Commutes(SetPc(c, a), SetPc(Quiet(c), a))
  BY <1>2, SetPcQuiet
<1> HIDE DEF Commutes
<1>11. Commutes(MemoryReference(c0, w, minutes),
                MemoryReference(Quiet(c0), w, minutes))
  <2> DEFINE M(x, n) ==
        CASE Opcode(w) = 0 -> AndWord(x, n)
          [] Opcode(w) = 1 -> TadWord(x, n)
          [] Opcode(w) = 2 -> Isz(x, a)
          [] Opcode(w) = 3 -> Dca(x, a)
          [] Opcode(w) = 4 -> Jms(x, a)
          [] OTHER         -> SetPc(x, a)
  <2>1. MemoryReference(c0, w, minutes) = M(c, v)
    BY DEF MemoryReference, c, a, v
  <2>2. MemoryReference(Quiet(c0), w, minutes) = M(Quiet(c), v)
    BY <1>2, <1>3, <1>4 DEF MemoryReference
  <2>3. Commutes(M(c, v), M(Quiet(c), v))
    BY <1>5, <1>6, <1>7, <1>8, <1>9, <1>10
  <2> QED
    BY <2>1, <2>2, <2>3
<1> QED
  BY <1>2, <1>11 DEF Commutes

LEMMA SetCombinedQuiet ==
  ASSUME NEW c, Shaped(c), NEW x
  PROVE  /\ Shaped(SetCombined(c, x))
         /\ SetCombined(Quiet(c), x) = Quiet(SetCombined(c, x))
         /\ SetCombined(c, x).pending = c.pending
  BY SetAcQuiet, SetLinkQuiet DEF SetCombined

LEMMA OperateGroup1Quiet ==
  ASSUME NEW c, Shaped(c), NEW w
  PROVE  /\ Shaped(OperateGroup1(c, w))
         /\ OperateGroup1(Quiet(c), w) = Quiet(OperateGroup1(c, w))
         /\ OperateGroup1(c, w).pending = c.pending
<1> DEFINE k == ClearAndComplement(c, w)
           r == Rotated(k, w)
<1>1. /\ Shaped(k) /\ ClearAndComplement(Quiet(c), w) = Quiet(k)
      /\ k.pending = c.pending
  BY QuietReads, SetAcQuiet, SetLinkQuiet DEF ClearAndComplement
<1> HIDE DEF k
<1>2. Combined(Quiet(k)) = Combined(k)
  BY <1>1, QuietReads DEF Combined
<1>3. /\ Shaped(r) /\ Rotated(Quiet(k), w) = Quiet(r)
      /\ r.pending = k.pending
  <2> DEFINE x == Combined(k)
             R(y) == CASE Has(w, \o10) /\ ~Has(w, \o4) ->
                            SetCombined(y, IF Has(w, \o2)
                                             THEN RotateRight(RotateRight(x))
                                             ELSE RotateRight(x))
                       [] Has(w, \o4) /\ ~Has(w, \o10) ->
                            SetCombined(y, IF Has(w, \o2)
                                             THEN RotateLeft(RotateLeft(x))
                                             ELSE RotateLeft(x))
                       [] Has(w, \o2) /\ ~Has(w, \o4) /\ ~Has(w, \o10) ->
                            SetAc(y, SwapBytes(k.ac))
                       [] OTHER -> y
  <2>1. Rotated(k, w) = R(k)
    BY DEF Rotated
  <2>2. Rotated(Quiet(k), w) = R(Quiet(k))
    BY <1>1, <1>2, QuietReads DEF Rotated
  <2> HIDE DEF x
  <2>3. Shaped(R(k)) /\ R(Quiet(k)) = Quiet(R(k)) /\ R(k).pending = k.pending
    BY <1>1, SetCombinedQuiet, SetAcQuiet
  <2> QED
    BY <2>1, <2>2, <2>3 DEF r
<1> HIDE DEF r
<1>4. Combined(Quiet(r)) = Combined(r)
  BY <1>3, QuietReads DEF Combined
<1> QED
  BY <1>1, <1>3, <1>4, SetCombinedQuiet DEF OperateGroup1, k, r

LEMMA OperateGroup2Quiet ==
  ASSUME NEW c, Shaped(c), NEW w \in Word
  PROVE  /\ Shaped(OperateGroup2(c, w))
         /\ OperateGroup2(Quiet(c), w) = Quiet(OperateGroup2(c, w))
         /\ OperateGroup2(c, w).pending = c.pending
<1> DEFINE C1(x) == IF Has(w, \o200) THEN SetAc(x, 0) ELSE x
           C2(x) == IF Has(w, \o4) THEN SetAc(x, Or(x.ac, x.sr)) ELSE x
           C3(x) == IF Has(w, \o2) THEN SetHalt(x) ELSE x
           C5(x, y) == IF SkipCondition(x, w) THEN RequestSkip(y) ELSE y
           Commutes(f, g) == Shaped(f) /\ g = Quiet(f) /\ f.pending = c.pending
<1>1. Commutes(C1(c), C1(Quiet(c)))
  BY SetAcQuiet
<1>2. ASSUME NEW x, Commutes(x, Quiet(x))
      PROVE  Commutes(C2(x), C2(Quiet(x)))
  BY <1>2, QuietReads, SetAcQuiet
<1>3. ASSUME NEW x, Commutes(x, Quiet(x))
      PROVE  Commutes(C3(x), C3(Quiet(x)))
  BY <1>3, SetHaltQuiet
<1>4. ASSUME NEW x, Commutes(x, Quiet(x))
      PROVE  Commutes(Group2Enable(x, w), Group2Enable(Quiet(x), w))
  <2>1. /\ Commutes(SetInterruptEnable(x, TRUE), SetInterruptEnable(Quiet(x), TRUE))
        /\ Commutes(SetInterruptEnable(x, FALSE), SetInterruptEnable(Quiet(x), FALSE))
    BY <1>4, SetInterruptEnableQuiet
  <2>2. ~(Has(w, 1) /\ w % \o400 = 0)
    BY WordIsNat DEF Has
  <2> HIDE DEF Commutes
  <2> QED
    BY <1>4, <2>1, <2>2 DEF Group2Enable
<1>5. ASSUME NEW x, NEW y, Commutes(x, Quiet(x)), Commutes(y, Quiet(y))
      PROVE  Commutes(C5(x, y), C5(Quiet(x), Quiet(y)))
  <2>1. SkipCondition(Quiet(x), w) <=> SkipCondition(x, w)
    BY <1>5, QuietReads DEF SkipCondition
  <2> QED
    BY <1>5, <2>1, RequestSkipQuiet
<1>6. /\ OperateGroup2(c, w) = C5(C1(c), Group2Enable(C3(C2(C1(c))), w))
      /\ OperateGroup2(Quiet(c), w)
           = C5(C1(Quiet(c)), Group2Enable(C3(C2(C1(Quiet(c)))), w))
  BY DEF OperateGroup2
<1> HIDE DEF C1, C2, C3, C5
<1>7. Commutes(C1(c), Quiet(C1(c))) /\ C1(Quiet(c)) = Quiet(C1(c))
  BY <1>1
<1>8. Commutes(C2(C1(c)), Quiet(C2(C1(c)))) /\ C2(C1(Quiet(c))) = Quiet(C2(C1(c)))
  BY <1>2, <1>7
<1>9. /\ Commutes(C3(C2(C1(c))), Quiet(C3(C2(C1(c)))))
      /\ C3(C2(C1(Quiet(c)))) = Quiet(C3(C2(C1(c))))
  BY <1>3, <1>8
<1> DEFINE e == Group2Enable(C3(C2(C1(c))), w)
<1>10. /\ Commutes(e, Quiet(e))
       /\ Group2Enable(C3(C2(C1(Quiet(c)))), w) = Quiet(e)
  BY <1>4, <1>9
<1> HIDE DEF e
<1>11. Commutes(C5(C1(c), e), C5(Quiet(C1(c)), Quiet(e)))
  BY <1>5, <1>7, <1>10
<1> QED
  BY <1>6, <1>7, <1>10, <1>11 DEF e

LEMMA OperateQuiet ==
  ASSUME NEW c, Shaped(c), NEW w \in Word
  PROVE  /\ Shaped(Operate(c, w))
         /\ Operate(Quiet(c), w) = Quiet(Operate(c, w))
         /\ Operate(c, w).pending = c.pending
  BY OperateGroup1Quiet, OperateGroup2Quiet DEF Operate

LEMMA InterruptControlQuiet ==
  ASSUME NEW c, Shaped(c), NEW w
  PROVE  /\ Shaped(InterruptControlIot(c, w))
         /\ InterruptControlIot(Quiet(c), w) = Quiet(InterruptControlIot(c, w))
         /\ InterruptControlIot(c, w).pending = c.pending
<1> DEFINE Commutes(f, g) == Shaped(f) /\ g = Quiet(f) /\ f.pending = c.pending
<1>1. /\ Commutes(SetInterruptEnable(c, FALSE), SetInterruptEnable(Quiet(c), FALSE))
      /\ Commutes(SetInterruptEnable(c, TRUE), SetInterruptEnable(Quiet(c), TRUE))
      /\ Commutes(RequestSkip(c), RequestSkip(Quiet(c)))
      /\ Commutes(c, Quiet(c))
  BY SetInterruptEnableQuiet, RequestSkipQuiet
<1>2. Quiet(c).ion = c.ion
  BY QuietReads
<1> HIDE DEF Commutes
<1>3. Commutes(InterruptControlIot(c, w), InterruptControlIot(Quiet(c), w))
  <2>1. CASE IotFunction(w) = 0
    <3>1. InterruptControlIot(c, w) = SetInterruptEnable(c, FALSE)
      BY <2>1 DEF InterruptControlIot
    <3>2. InterruptControlIot(Quiet(c), w) = SetInterruptEnable(Quiet(c), FALSE)
      BY <2>1 DEF InterruptControlIot
    <3> QED
      BY <1>1, <3>1, <3>2
  <2>2. CASE IotFunction(w) = 1
    <3>1. InterruptControlIot(c, w) = SetInterruptEnable(c, TRUE)
      BY <2>2 DEF InterruptControlIot
    <3>2. InterruptControlIot(Quiet(c), w) = SetInterruptEnable(Quiet(c), TRUE)
      BY <2>2 DEF InterruptControlIot
    <3> QED
      BY <1>1, <3>1, <3>2
  <2>3. CASE IotFunction(w) = 2 /\ c.ion
    <3>1. InterruptControlIot(c, w) = RequestSkip(c)
      BY <2>3 DEF InterruptControlIot
    <3>2. InterruptControlIot(Quiet(c), w) = RequestSkip(Quiet(c))
      BY <1>2, <2>3 DEF InterruptControlIot
    <3> QED
      BY <1>1, <3>1, <3>2
  <2>4. CASE IotFunction(w) \notin {0, 1} /\ ~(IotFunction(w) = 2 /\ c.ion)
    <3>1. InterruptControlIot(c, w) = c
      BY <2>4 DEF InterruptControlIot
    <3>2. InterruptControlIot(Quiet(c), w) = Quiet(c)
      BY <1>2, <2>4 DEF InterruptControlIot
    <3> QED
      BY <1>1, <3>1, <3>2
  <2> QED
    BY <2>1, <2>2, <2>3, <2>4
<1> QED
  BY <1>3 DEF Commutes

LEMMA HandlerQuiet ==
  ASSUME NEW c, Shaped(c), NEW e \in HandlerResults(c)
  PROVE  /\ Shaped(e) /\ Quiet(e) \in HandlerResults(Quiet(c))
         /\ e.pending = c.pending
<1> DEFINE Loaded(x) == {x} \cup {SetAc(x, v) : v \in DeviceWords}
<1>1. /\ HandlerResults(c) = Loaded(c) \cup {RequestSkip(l) : l \in Loaded(c)}
      /\ HandlerResults(Quiet(c))
           = Loaded(Quiet(c)) \cup {RequestSkip(l) : l \in Loaded(Quiet(c))}
  BY DEF HandlerResults
<1>2. ASSUME NEW l \in Loaded(c)
      PROVE  Shaped(l) /\ Quiet(l) \in Loaded(Quiet(c)) /\ l.pending = c.pending
  <2>1. CASE l = c
    BY <2>1
  <2>2. ASSUME NEW v \in DeviceWords, l = SetAc(c, v)
        PROVE  Shaped(l) /\ Quiet(l) \in Loaded(Quiet(c)) /\ l.pending = c.pending
    <3>1. Shaped(l) /\ SetAc(Quiet(c), v) = Quiet(l) /\ l.pending = c.pending
      BY <2>2, SetAcQuiet
    <3> QED
      BY <3>1
  <2> QED
    BY <2>1, <2>2
<1> HIDE DEF Loaded
<1>3. CASE e \in Loaded(c)
  BY <1>1, <1>2, <1>3
<1>4. ASSUME NEW l \in Loaded(c), e = RequestSkip(l)
      PROVE  /\ Shaped(e) /\ Quiet(e) \in HandlerResults(Quiet(c))
             /\ e.pending = c.pending
  <2>1. Shaped(l) /\ Quiet(l) \in Loaded(Quiet(c)) /\ l.pending = c.pending
    BY <1>2
  <2>2. Shaped(e) /\ RequestSkip(Quiet(l)) = Quiet(e) /\ e.pending = l.pending
    BY <1>4, <2>1, RequestSkipQuiet
  <2> QED
    BY <1>1, <2>1, <2>2
<1> QED
  BY <1>1, <1>3, <1>4

LEMMA ApplySkipQuiet ==
  ASSUME NEW c, Shaped(c)
  PROVE  /\ Shaped(ApplySkip(c))
         /\ ApplySkip(Quiet(c)) = Quiet(ApplySkip(c))
         /\ ApplySkip(c).pending = c.pending
  BY QuietReads, SetPcQuiet, ClearSkipQuiet DEF ApplySkip

LEMMA AdvancedQuiet ==
  ASSUME NEW c, Shaped(c)
  PROVE  /\ Advanced(Quiet(c)) = Quiet(Advanced(c))
         /\ Shaped(Advanced(c)) /\ Advanced(c).pending = c.pending
         /\ Fetched(Quiet(c)) = Fetched(c)
  BY QuietReads, SetPcQuiet DEF Advanced, Fetched

\* The words the dispatch uses are inside every memory the code allows, and
\* what it stores is stored as it is.
LEMMA NormaliseSmall ==
  ASSUME NEW n \in Nat, n <= \o20
  PROVE  Normalise(n) = n
<1>1. MemWords \in Nat /\ n < MemWords
  BY MemWordsAssumption
<1> QED
  BY <1>1 DEF Normalise

LEMMA MaskSmall ==
  ASSUME NEW n, n \in Word \/ n \in Addr \/ n \in LinkBit
  PROVE  MaskWord(n) = n
<1>1. n \in 0 .. 4095
  <2>1. MemWords \in Nat /\ MemWords <= 4096
    BY MemWordsAssumption
  <2>2. CASE n \in Word
    BY <2>2 DEF Word
  <2>3. CASE n \in Addr
    BY <2>1, <2>3 DEF Addr
  <2>4. CASE n \in LinkBit
    BY <2>4 DEF LinkBit
  <2> QED
    BY <2>2, <2>3, <2>4
<1> QED
  BY <1>1 DEF MaskWord

\* What the dispatch takes from the processor and what it leaves.
LEMMA DispatchTaken ==
  ASSUME NEW c \in CpuState, WillDispatch(c)
  PROVE  /\ Dispatch(c).pc = \o20 /\ ~Dispatch(c).ion
         /\ Dispatch(c).pending = c.pending - 1
         /\ Dispatch(c).halted = c.halted
         /\ Dispatch(c).mem = [c.mem EXCEPT ![\o6] = c.ac, ![\o7] = c.pc,
                                            ![\o10] = c.link]
<1> DEFINE s == SaveContext(c)
<1>1. /\ Normalise(\o6) = \o6 /\ Normalise(\o7) = \o7
      /\ Normalise(\o10) = \o10 /\ Normalise(\o20) = \o20
  BY NormaliseSmall
<1>2. MaskWord(c.ac) = c.ac /\ MaskWord(c.pc) = c.pc /\ MaskWord(c.link) = c.link
  <2>1. c.ac \in Word /\ c.pc \in Addr /\ c.link \in LinkBit
    BY FieldTypes
  <2> QED
    BY <2>1, MaskSmall
<1>3. /\ Shaped(s) /\ s.halted = c.halted /\ s.pending = c.pending
      /\ s.mem = [c.mem EXCEPT ![\o6] = c.ac, ![\o7] = c.pc, ![\o10] = c.link]
  <2>1. \A x, a, v : Shaped(x) =>
          /\ Shaped(WriteMem(x, a, v))
          /\ WriteMem(x, a, v).mem = [x.mem EXCEPT ![Normalise(a)] = MaskWord(v)]
          /\ WriteMem(x, a, v).halted = x.halted
          /\ WriteMem(x, a, v).pending = x.pending
    BY DEF Shaped, CpuFields, WriteMem
  <2> DEFINE c1 == WriteMem(c, \o6, c.ac)
             c2 == WriteMem(c1, \o7, c.pc)
  <2>2. /\ Shaped(c1) /\ c1.halted = c.halted /\ c1.pending = c.pending
        /\ c1.mem = [c.mem EXCEPT ![\o6] = c.ac]
    BY <1>1, <1>2, <2>1, StatesAreShaped
  <2> HIDE DEF c1
  <2>3. /\ Shaped(c2) /\ c2.halted = c.halted /\ c2.pending = c.pending
        /\ c2.mem = [c1.mem EXCEPT ![\o7] = c.pc]
    BY <1>1, <1>2, <2>1, <2>2
  <2> HIDE DEF c2
  <2>4. s = WriteMem(c2, \o10, c.link)
    BY DEF s, SaveContext, c1, c2
  <2> HIDE DEF s
  <2>5. /\ Shaped(s) /\ s.halted = c.halted /\ s.pending = c.pending
        /\ s.mem = [c2.mem EXCEPT ![\o10] = c.link]
    <3>1. /\ Shaped(s) /\ s.halted = c2.halted /\ s.pending = c2.pending
          /\ s.mem = [c2.mem EXCEPT ![Normalise(\o10)] = MaskWord(c.link)]
      BY <2>1, <2>3, <2>4
    <3> QED
      BY <1>1, <1>2, <2>3, <3>1
  <2>6. s.mem = [c.mem EXCEPT ![\o6] = c.ac, ![\o7] = c.pc, ![\o10] = c.link]
    BY <2>2, <2>3, <2>5
  <2> QED
    BY <2>2, <2>3, <2>5, <2>6
<1> HIDE DEF s
<1>4. c.pending > 0 /\ c.pending \in Nat
  BY FieldTypes DEF WillDispatch
<1> DEFINE n == IF s.pending > 0 THEN s.pending - 1 ELSE s.pending
<1>5. n = c.pending - 1
  BY <1>3, <1>4
<1> DEFINE t == SetPc(SetInterruptEnable(ClearInterruptPending(s), FALSE), \o20)
<1>6. Dispatch(c) = t
  BY DEF Dispatch, s, t
<1>7. t.pc = \o20 /\ ~t.ion /\ t.pending = n /\ t.halted = s.halted /\ t.mem = s.mem
  BY <1>1, <1>3 DEF SetPc, SetInterruptEnable, ClearInterruptPending, Shaped, CpuFields
<1> QED
  BY <1>3, <1>5, <1>6, <1>7

\* The states one instruction may leave before its skip is applied.
Executed(c) ==
  LET w == Fetched(c)
      a == Advanced(c)
  IN  CASE Opcode(w) = 7 -> {Operate(a, w)}
        [] Opcode(w) = 6 /\ IotDevice(w) = InterruptControlCode ->
             {InterruptControlIot(a, w)}
        [] Opcode(w) = 6 /\ IotDevice(w) # InterruptControlCode -> HandlerResults(a)
        [] OTHER -> {MemoryReference(a, w, m) : m \in Minutes}

LEMMA ExecutedQuiet ==
  ASSUME NEW c \in CpuState, NEW e \in Executed(c)
  PROVE  /\ e \in CpuState /\ Quiet(e) \in Executed(Quiet(c))
         /\ e.pending = c.pending
<1> DEFINE w == Fetched(c)
           a == Advanced(c)
           E(x) == CASE Opcode(w) = 7 -> {Operate(x, w)}
                     [] Opcode(w) = 6 /\ IotDevice(w) = InterruptControlCode ->
                          {InterruptControlIot(x, w)}
                     [] Opcode(w) = 6 /\ IotDevice(w) # InterruptControlCode ->
                          HandlerResults(x)
                     [] OTHER -> {MemoryReference(x, w, m) : m \in Minutes}
<1>1. /\ a \in CpuState /\ Shaped(a) /\ w \in Word /\ a.pending = c.pending
      /\ Advanced(Quiet(c)) = Quiet(a) /\ Fetched(Quiet(c)) = w
  BY AdvancedType, AdvancedQuiet, StatesAreShaped
<1>2. Executed(c) = E(a)
  BY Zenon DEF Executed
<1>3. Executed(Quiet(c)) = E(Quiet(a))
  BY <1>1, Zenon DEF Executed
<1> HIDE DEF w, a
<1>4. e \in CpuState /\ Quiet(e) \in E(Quiet(a)) /\ e.pending = a.pending
  <2>1. CASE Opcode(w) = 7
    <3>1. E(a) = {Operate(a, w)} /\ E(Quiet(a)) = {Operate(Quiet(a), w)}
      BY <2>1
    <3>2. e = Operate(a, w)
      BY <1>2, <3>1
    <3> QED
      BY <1>1, <3>1, <3>2, OperateType, OperateQuiet
  <2>2. CASE Opcode(w) = 6 /\ IotDevice(w) = InterruptControlCode
    <3>1. /\ E(a) = {InterruptControlIot(a, w)}
          /\ E(Quiet(a)) = {InterruptControlIot(Quiet(a), w)}
      BY <2>2
    <3>2. e = InterruptControlIot(a, w)
      BY <1>2, <3>1
    <3> QED
      BY <1>1, <3>1, <3>2, InterruptControlType, InterruptControlQuiet
  <2>3. CASE Opcode(w) = 6 /\ IotDevice(w) # InterruptControlCode
    <3>1. E(a) = HandlerResults(a) /\ E(Quiet(a)) = HandlerResults(Quiet(a))
      BY <2>3
    <3> QED
      BY <1>1, <1>2, <3>1, HandlerResultsType, HandlerQuiet
  <2>4. CASE Opcode(w) \notin {6, 7}
    <3>1. /\ E(a) = {MemoryReference(a, w, m) : m \in Minutes}
          /\ E(Quiet(a)) = {MemoryReference(Quiet(a), w, m) : m \in Minutes}
      BY <2>4
    <3>2. PICK m \in Minutes : e = MemoryReference(a, w, m)
      BY <1>2, <3>1
    <3>3. m \in Int
      BY CpuConstantsAssumption
    <3>4. e \in CpuState
      BY <1>1, <3>2, <3>3, MemoryReferenceType
    <3>5. Quiet(e) = MemoryReference(Quiet(a), w, m) /\ e.pending = a.pending
      BY <1>1, <3>2, MemoryReferenceQuiet
    <3> QED
      BY <3>1, <3>4, <3>5
  <2> QED
    BY <2>1, <2>2, <2>3, <2>4
<1> QED
  BY <1>1, <1>3, <1>4

LEMMA DispatchResumable ==
  ASSUME CpuTypeOK
  PROVE  ResumePointSaved
<1> SUFFICES ASSUME NEW d \in Outcomes(cpu), d.pending # cpu.pending
             PROVE  /\ d.pc = \o20 /\ ~d.ion
                    /\ d.pending = cpu.pending - 1
                    /\ \E r \in Outcomes(Quiet(cpu)) :
                         /\ d.mem = [r.mem EXCEPT ![\o6] = r.ac, ![\o7] = r.pc,
                                                  ![\o10] = r.link]
                         /\ d.halted = r.halted
  BY DEF ResumePointSaved, Quiet
<1>1. \A c : Outcomes(c) = {Finish(e) : e \in Executed(c)}
  BY DEF Outcomes, Executed
<1>2. PICK e \in Executed(cpu) : d = Finish(e)
  BY <1>1
<1>3. e \in CpuState /\ Quiet(e) \in Executed(Quiet(cpu)) /\ e.pending = cpu.pending
  BY ExecutedQuiet DEF CpuTypeOK
<1> DEFINE s == ApplySkip(e)
           r == Finish(Quiet(e))
<1>4. /\ s \in CpuState /\ Shaped(s) /\ s.pending = cpu.pending
      /\ ApplySkip(Quiet(e)) = Quiet(s)
  BY <1>3, ApplySkipType, ApplySkipQuiet, StatesAreShaped
<1>5. d = Dispatch(s) /\ r = Dispatch(Quiet(s))
  BY <1>2, <1>4 DEF Finish
<1> HIDE DEF s
<1>6. WillDispatch(s)
  BY <1>4, <1>5 DEF Dispatch
<1>7. /\ d.pc = \o20 /\ ~d.ion /\ d.pending = s.pending - 1 /\ d.halted = s.halted
      /\ d.mem = [s.mem EXCEPT ![\o6] = s.ac, ![\o7] = s.pc, ![\o10] = s.link]
  BY <1>4, <1>5, <1>6, DispatchTaken
<1>8. r = Quiet(s)
  <2>1. ~WillDispatch(Quiet(s))
    BY <1>4, QuietReads DEF WillDispatch
  <2> QED
    BY <1>5, <2>1 DEF Dispatch
<1>9. r \in Outcomes(Quiet(cpu))
  BY <1>1, <1>3
<1> HIDE DEF r
<1>10. /\ r.mem = s.mem /\ r.ac = s.ac /\ r.pc = s.pc /\ r.link = s.link
       /\ r.halted = s.halted
  BY <1>4, <1>8, QuietReads
<1> QED
  BY <1>4, <1>7, <1>9, <1>10

\* Whatever the instruction and whatever a device answers, an interrupt taken
\* after it leaves in words 06, 07 and 010 the AC, PC and LINK from which the
\* program can be resumed, disturbs no other word and takes one request.
THEOREM EveryDispatchResumable == CpuSpec => []ResumePointSaved
<1>1. CpuInv => ResumePointSaved
  BY DispatchResumable DEF CpuInv
<1> QED
  BY InitEstablishes, NextPreserves, <1>1, PTL DEF CpuSpec

(***************************************************************************)
(* What one instruction leaves behind: for the proofs about a guest program *)
(* run on this CPU.                                                         *)
(***************************************************************************)

\* What an instruction and the skip after it leave: these registers, this
\* memory; the flags and the count of requests as they were.
Leaves(c, s, pc, ac, link, mem) ==
  /\ s \in CpuState /\ ~s.skip
  /\ s.pc = pc /\ s.ac = ac /\ s.link = link /\ s.mem = mem
  /\ s.ion = c.ion /\ s.halted = c.halted /\ s.pending = c.pending

\* The states one instruction of c may end in, the skip applied.
Settled(c) == {ApplySkip(e) : e \in Executed(c)}

LEMMA NormaliseAddr ==
  ASSUME NEW a \in Addr
  PROVE  Normalise(a) = a
<1>1. MemWords \in Nat \ {0} /\ a \in Nat /\ a < MemWords
  BY MemWordsAssumption DEF Addr
<1> QED
  BY <1>1 DEF Normalise

LEMMA Advancing ==
  ASSUME NEW c \in CpuState, ~c.skip, c.pc + 1 \in Addr
  PROVE  Leaves(c, Advanced(c), c.pc + 1, c.ac, c.link, c.mem)
<1>1. Normalise(c.pc + 1) = c.pc + 1
  BY NormaliseAddr
<1>2. Shaped(c) /\ Advanced(c) \in CpuState
  BY StatesAreShaped, AdvancedType
<1> QED
  BY <1>1, <1>2 DEF Leaves, Advanced, SetPc, Shaped, CpuFields

\* What a step of the processor comes to.
LEMMA StepTaken ==
  ASSUME CpuInv, NEW signal, Step(signal)
  PROVE  /\ CanStep(cpu)
         /\ \E s \in Settled(cpu) :
              /\ cpu' = Signalled(Dispatch(s), signal)
              /\ signal = "interrupt" => Dispatch(s).pending < MaxPending
<1> DEFINE a == Advanced(cpu)
           w == Fetched(cpu)
           E == CASE Opcode(w) = 7 -> {Operate(a, w)}
                  [] Opcode(w) = 6 /\ IotDevice(w) = InterruptControlCode ->
                       {InterruptControlIot(a, w)}
                  [] Opcode(w) = 6 /\ IotDevice(w) # InterruptControlCode ->
                       HandlerResults(a)
                  [] OTHER -> {MemoryReference(a, w, m) : m \in Minutes}
<1>1. Executed(cpu) = E
  BY Zenon DEF Executed
<1>2. ASSUME NEW e \in E, EndStep(e, signal)
      PROVE  \E s \in Settled(cpu) :
              /\ cpu' = Signalled(Dispatch(s), signal)
              /\ signal = "interrupt" => Dispatch(s).pending < MaxPending
  <2>1. ApplySkip(e) \in Settled(cpu)
    BY <1>1 DEF Settled
  <2> QED
    BY <1>2, <2>1 DEF EndStep, Finish
<1> HIDE DEF a, w
<1>3. CASE StepMemoryReference(signal)
  <2>1. /\ CanStep(cpu) /\ Opcode(w) \in 0 .. 5
        /\ \E m \in Minutes : EndStep(MemoryReference(a, w, m), signal)
    BY <1>3 DEF StepMemoryReference, a, w
  <2>2. E = {MemoryReference(a, w, m) : m \in Minutes}
    BY <2>1
  <2> QED
    BY <1>2, <2>1, <2>2
<1>4. CASE StepInterruptControl(signal)
  <2>1. /\ CanStep(cpu) /\ Opcode(w) = 6 /\ IotDevice(w) = InterruptControlCode
        /\ EndStep(InterruptControlIot(a, w), signal)
    BY <1>4 DEF StepInterruptControl, a, w
  <2>2. E = {InterruptControlIot(a, w)}
    BY <2>1
  <2> QED
    BY <1>2, <2>1, <2>2
<1>5. CASE StepDevice(signal)
  <2>1. /\ CanStep(cpu) /\ Opcode(w) = 6 /\ IotDevice(w) # InterruptControlCode
        /\ \E e \in HandlerResults(a) : EndStep(e, signal)
    BY <1>5 DEF StepDevice, a, w
  <2>2. E = HandlerResults(a)
    BY <2>1
  <2> QED
    BY <1>2, <2>1, <2>2
<1>6. CASE StepOperate(signal)
  <2>1. CanStep(cpu) /\ Opcode(w) = 7 /\ EndStep(Operate(a, w), signal)
    BY <1>6 DEF StepOperate, a, w
  <2>2. E = {Operate(a, w)}
    BY <2>1
  <2> QED
    BY <1>2, <2>1, <2>2
<1> QED
  BY <1>3, <1>4, <1>5, <1>6 DEF Step

-----------------------------------------------------------------------------
(* What the setters leave.                                                  *)

LEMMA SetPcLeaves ==
  ASSUME NEW c, NEW s, NEW pc, NEW ac, NEW link, NEW mem,
         Leaves(c, s, pc, ac, link, mem), NEW a \in Addr
  PROVE  Leaves(c, SetPc(s, a), a, ac, link, mem)
<1>1. Normalise(a) = a
  BY NormaliseAddr
<1>2. Shaped(s) /\ SetPc(s, a) \in CpuState
  BY StatesAreShaped, SetPcType, AddrIsNat DEF Leaves
<1> QED
  BY <1>1, <1>2 DEF Leaves, SetPc, Shaped, CpuFields

LEMMA SetAcLeaves ==
  ASSUME NEW c, NEW s, NEW pc, NEW ac, NEW link, NEW mem,
         Leaves(c, s, pc, ac, link, mem), NEW n \in Int
  PROVE  Leaves(c, SetAc(s, n), pc, MaskWord(n), link, mem)
<1>1. Shaped(s) /\ SetAc(s, n) \in CpuState
  BY StatesAreShaped, SetAcType DEF Leaves
<1> QED
  BY <1>1 DEF Leaves, SetAc, Shaped, CpuFields

LEMMA SetLinkLeaves ==
  ASSUME NEW c, NEW s, NEW pc, NEW ac, NEW link, NEW mem,
         Leaves(c, s, pc, ac, link, mem), NEW n \in Int
  PROVE  Leaves(c, SetLink(s, n), pc, ac, n % 2, mem)
<1>1. Shaped(s) /\ SetLink(s, n) \in CpuState
  BY StatesAreShaped, SetLinkType DEF Leaves
<1> QED
  BY <1>1 DEF Leaves, SetLink, Shaped, CpuFields

LEMMA WriteMemLeaves ==
  ASSUME NEW c, NEW s, NEW pc, NEW ac, NEW link, NEW mem,
         Leaves(c, s, pc, ac, link, mem), NEW a \in Addr, NEW n \in Int
  PROVE  Leaves(c, WriteMem(s, a, n), pc, ac, link, [mem EXCEPT ![a] = MaskWord(n)])
<1>1. Normalise(a) = a
  BY NormaliseAddr
<1>2. Shaped(s) /\ WriteMem(s, a, n) \in CpuState
  BY StatesAreShaped, WriteMemType, AddrIsNat DEF Leaves
<1> QED
  BY <1>1, <1>2 DEF Leaves, WriteMem, Shaped, CpuFields

\* A skip asked for is taken and forgotten; without one nothing changes.
LEMMA SkipLeaves ==
  ASSUME NEW c, NEW s, NEW pc, NEW ac, NEW link, NEW mem,
         Leaves(c, s, pc, ac, link, mem)
  PROVE  /\ ApplySkip(s) = s
         /\ pc + 1 \in Addr =>
              Leaves(c, ApplySkip(RequestSkip(s)), pc + 1, ac, link, mem)
<1>1. ApplySkip(s) = s
  BY DEF ApplySkip, Leaves
<1>2. ASSUME pc + 1 \in Addr
      PROVE  Leaves(c, ApplySkip(RequestSkip(s)), pc + 1, ac, link, mem)
  <2> DEFINE r == RequestSkip(s)
  <2>1. Shaped(s) /\ r \in CpuState
    BY StatesAreShaped, RequestSkipType DEF Leaves
  <2>2. /\ Shaped(r) /\ r.skip /\ r.pc = pc /\ r.ac = ac /\ r.link = link
        /\ r.mem = mem /\ r.ion = c.ion /\ r.halted = c.halted /\ r.pending = c.pending
    BY <2>1 DEF Leaves, RequestSkip, Shaped, CpuFields
  <2> HIDE DEF r
  <2>3. ApplySkip(r) \in CpuState /\ ~ApplySkip(r).skip
    BY <2>1, ApplySkipType
  <2>4. Normalise(pc + 1) = pc + 1
    BY <1>2, NormaliseAddr
  <2>5. ApplySkip(r) = ClearSkip(SetPc(r, pc + 1))
    BY <2>2 DEF ApplySkip
  <2>6. Leaves(c, ApplySkip(r), pc + 1, ac, link, mem)
    BY <2>2, <2>3, <2>4, <2>5 DEF Leaves, ClearSkip, SetPc, Shaped, CpuFields
  <2> QED
    BY <2>6 DEF r
<1> QED
  BY <1>1, <1>2

-----------------------------------------------------------------------------
(* What the instructions leave.                                             *)

LEMMA ReferenceSettles ==
  ASSUME NEW c, NEW s \in Settled(c), Opcode(Fetched(c)) \in 0 .. 5
  PROVE  \E m \in Minutes : s = ApplySkip(MemoryReference(Advanced(c), Fetched(c), m))
<1> DEFINE a == Advanced(c)
           w == Fetched(c)
           E == CASE Opcode(w) = 7 -> {Operate(a, w)}
                  [] Opcode(w) = 6 /\ IotDevice(w) = InterruptControlCode ->
                       {InterruptControlIot(a, w)}
                  [] Opcode(w) = 6 /\ IotDevice(w) # InterruptControlCode ->
                       HandlerResults(a)
                  [] OTHER -> {MemoryReference(a, w, m) : m \in Minutes}
<1>1. Executed(c) = E
  BY Zenon DEF Executed
<1> HIDE DEF a, w
<1>2. Opcode(w) \in 0 .. 5
  BY DEF w
<1>3. E = {MemoryReference(a, w, m) : m \in Minutes}
  BY <1>2
<1> QED
  BY <1>1, <1>3 DEF Settled, a, w

LEMMA OperateSettles ==
  ASSUME NEW c, NEW s \in Settled(c), Opcode(Fetched(c)) = 7
  PROVE  s = ApplySkip(Operate(Advanced(c), Fetched(c)))
<1>1. Executed(c) = {Operate(Advanced(c), Fetched(c))}
  BY DEF Executed
<1> QED
  BY <1>1 DEF Settled

LEMMA ControlSettles ==
  ASSUME NEW c, NEW s \in Settled(c), Opcode(Fetched(c)) = 6,
         IotDevice(Fetched(c)) = InterruptControlCode
  PROVE  s = ApplySkip(InterruptControlIot(Advanced(c), Fetched(c)))
<1>1. Executed(c) = {InterruptControlIot(Advanced(c), Fetched(c))}
  BY DEF Executed
<1> QED
  BY <1>1 DEF Settled

\* A memory reference to page zero without indirection.
Direct(w, a) == ~Indirect(w) /\ ~Has(w, \o200) /\ w % \o200 = a

LEMMA DirectReference ==
  ASSUME NEW c \in CpuState, NEW w \in Word, NEW a \in Addr, Direct(w, a)
  PROVE  AutoIndexed(c, w) = c /\ EffectiveAddress(c, w) = a
<1>1. DirectAddress(c, w) = Normalise(0 + a)
  BY DEF Direct, DirectAddress
<1>2. Normalise(0 + a) = a
  BY NormaliseAddr, AddrIsNat
<1> QED
  BY <1>1, <1>2 DEF Direct, AutoIndexed, EffectiveAddress

LEMMA TadLeaves ==
  ASSUME NEW c \in CpuState, ~c.skip, c.pc + 1 \in Addr, NEW a \in Addr,
         Opcode(Fetched(c)) = 1, Direct(Fetched(c), a), a # WallClockAddress,
         NEW s \in Settled(c)
  PROVE  Leaves(c, s, c.pc + 1, MaskWord(c.ac + c.mem[a]),
                IF c.ac + c.mem[a] > \o7777 THEN (c.link + 1) % 2 ELSE c.link,
                c.mem)
<1> DEFINE x == Advanced(c)
           w == Fetched(c)
<1>1. Leaves(c, x, c.pc + 1, c.ac, c.link, c.mem) /\ x \in CpuState /\ w \in Word
  BY Advancing, AdvancedType
<1>2. PICK m \in Minutes : s = ApplySkip(MemoryReference(x, w, m))
  BY ReferenceSettles
<1> HIDE DEF x, w
<1>3. AutoIndexed(x, w) = x /\ EffectiveAddress(x, w) = a
  BY <1>1, DirectReference DEF w
<1>4. ReadWord(x, a, m) = c.mem[a]
  BY <1>1, NormaliseAddr DEF ReadWord, Leaves
<1>5. MemoryReference(x, w, m) = TadWord(x, c.mem[a])
  BY <1>3, <1>4 DEF MemoryReference, w
<1>6. c.ac \in Int /\ c.mem[a] \in Int /\ c.link \in Int
  BY FieldInts
<1>7. c.ac + c.mem[a] \in Int /\ c.link + 1 \in Int
  BY <1>6
<1>8. Leaves(c, SetAc(x, c.ac + c.mem[a]), c.pc + 1, MaskWord(c.ac + c.mem[a]), c.link, c.mem)
  BY <1>1, <1>7, SetAcLeaves
<1>9. Leaves(c, SetLink(SetAc(x, c.ac + c.mem[a]), c.link + 1), c.pc + 1,
             MaskWord(c.ac + c.mem[a]), (c.link + 1) % 2, c.mem)
  BY <1>7, <1>8, SetLinkLeaves
<1>10. x.ac = c.ac /\ x.link = c.link
  BY <1>1 DEF Leaves
<1>11. Leaves(c, TadWord(x, c.mem[a]), c.pc + 1, MaskWord(c.ac + c.mem[a]),
                IF c.ac + c.mem[a] > \o7777 THEN (c.link + 1) % 2 ELSE c.link,
                c.mem)
  BY <1>8, <1>9, <1>10 DEF TadWord
<1> QED
  BY <1>2, <1>5, <1>11, SkipLeaves

LEMMA IszLeaves ==
  ASSUME NEW c \in CpuState, ~c.skip, c.pc + 1 \in Addr, NEW a \in Addr,
         Opcode(Fetched(c)) = 2, Direct(Fetched(c), a), NEW s \in Settled(c)
  PROVE  LET v == MaskWord(c.mem[a] + 1)
             m == [c.mem EXCEPT ![a] = v]
         IN  /\ v # 0 => Leaves(c, s, c.pc + 1, c.ac, c.link, m)
             /\ v = 0 /\ c.pc + 2 \in Addr
                  => Leaves(c, s, c.pc + 2, c.ac, c.link, m)
<1> DEFINE x == Advanced(c)
           w == Fetched(c)
           v == MaskWord(c.mem[a] + 1)
           m == [c.mem EXCEPT ![a] = v]
           y == WriteMem(x, a, c.mem[a] + 1)
<1>1. Leaves(c, x, c.pc + 1, c.ac, c.link, c.mem) /\ x \in CpuState /\ w \in Word
  BY Advancing, AdvancedType
<1>2. PICK n \in Minutes : s = ApplySkip(MemoryReference(x, w, n))
  BY ReferenceSettles
<1> HIDE DEF x, w
<1>3. AutoIndexed(x, w) = x /\ EffectiveAddress(x, w) = a
  BY <1>1, DirectReference DEF w
<1>4. MemoryReference(x, w, n) = Isz(x, a) /\ x.mem = c.mem
  BY <1>1, <1>3 DEF MemoryReference, w, Leaves
<1>5. c.mem[a] + 1 \in Int /\ c.pc \in Int
  BY FieldInts
<1>6. Leaves(c, y, c.pc + 1, c.ac, c.link, m)
  BY <1>1, <1>5, WriteMemLeaves
<1>7. Isz(x, a) = IF v = 0 THEN RequestSkip(y) ELSE y
  BY <1>4 DEF Isz
<1> HIDE DEF y, v, m
<1>8. v # 0 => Leaves(c, s, c.pc + 1, c.ac, c.link, m)
  BY <1>2, <1>4, <1>6, <1>7, SkipLeaves
<1>9. v = 0 /\ c.pc + 2 \in Addr => Leaves(c, s, c.pc + 2, c.ac, c.link, m)
  <2> SUFFICES ASSUME v = 0, c.pc + 2 \in Addr PROVE Leaves(c, s, c.pc + 2, c.ac, c.link, m)
    OBVIOUS
  <2>1. (c.pc + 1) + 1 = c.pc + 2
    BY <1>5
  <2>2. s = ApplySkip(RequestSkip(y))
    BY <1>2, <1>4, <1>7
  <2>3. Leaves(c, s, (c.pc + 1) + 1, c.ac, c.link, m)
    BY <1>6, <2>1, <2>2, SkipLeaves
  <2> QED
    BY <2>1, <2>3
<1> QED
  BY <1>8, <1>9 DEF v, m

LEMMA DcaLeaves ==
  ASSUME NEW c \in CpuState, ~c.skip, c.pc + 1 \in Addr, NEW a \in Addr,
         Opcode(Fetched(c)) = 3, Direct(Fetched(c), a), NEW s \in Settled(c)
  PROVE  Leaves(c, s, c.pc + 1, 0, c.link, [c.mem EXCEPT ![a] = c.ac])
<1> DEFINE x == Advanced(c)
           w == Fetched(c)
<1>1. Leaves(c, x, c.pc + 1, c.ac, c.link, c.mem) /\ x \in CpuState /\ w \in Word
  BY Advancing, AdvancedType
<1>2. PICK n \in Minutes : s = ApplySkip(MemoryReference(x, w, n))
  BY ReferenceSettles
<1> HIDE DEF x, w
<1>3. AutoIndexed(x, w) = x /\ EffectiveAddress(x, w) = a
  BY <1>1, DirectReference DEF w
<1>4. MemoryReference(x, w, n) = Dca(x, a) /\ x.ac = c.ac
  BY <1>1, <1>3 DEF MemoryReference, w, Leaves
<1>5. c.ac \in Int /\ MaskWord(c.ac) = c.ac /\ MaskWord(0) = 0
  BY FieldInts, FieldTypes, MaskSmall DEF MaskWord
<1>6. Leaves(c, WriteMem(x, a, c.ac), c.pc + 1, c.ac, c.link, [c.mem EXCEPT ![a] = c.ac])
  BY <1>1, <1>5, WriteMemLeaves
<1>7. Leaves(c, Dca(x, a), c.pc + 1, 0, c.link, [c.mem EXCEPT ![a] = c.ac])
  BY <1>4, <1>5, <1>6, SetAcLeaves DEF Dca
<1> QED
  BY <1>2, <1>4, <1>7, SkipLeaves

LEMMA JmpLeaves ==
  ASSUME NEW c \in CpuState, ~c.skip, c.pc + 1 \in Addr, NEW a \in Addr,
         Opcode(Fetched(c)) = 5, Direct(Fetched(c), a), NEW s \in Settled(c)
  PROVE  Leaves(c, s, a, c.ac, c.link, c.mem)
<1> DEFINE x == Advanced(c)
           w == Fetched(c)
<1>1. Leaves(c, x, c.pc + 1, c.ac, c.link, c.mem) /\ x \in CpuState /\ w \in Word
  BY Advancing, AdvancedType
<1>2. PICK n \in Minutes : s = ApplySkip(MemoryReference(x, w, n))
  BY ReferenceSettles
<1> HIDE DEF x, w
<1>3. AutoIndexed(x, w) = x /\ EffectiveAddress(x, w) = a
  BY <1>1, DirectReference DEF w
<1>4. MemoryReference(x, w, n) = SetPc(x, a)
  BY <1>3 DEF MemoryReference, w
<1>5. Leaves(c, SetPc(x, a), a, c.ac, c.link, c.mem)
  BY <1>1, SetPcLeaves
<1> QED
  BY <1>2, <1>4, <1>5, SkipLeaves

\* Through a pointer in page zero.
Through(w, a) == Indirect(w) /\ ~Has(w, \o200) /\ w % \o200 = a

LEMMA ThroughAddress ==
  ASSUME NEW c, NEW w \in Word, NEW a \in Addr, Through(w, a)
  PROVE  DirectAddress(c, w) = a
<1>1. DirectAddress(c, w) = Normalise(0 + a)
  BY DEF Through, DirectAddress
<1> QED
  BY <1>1, NormaliseAddr, AddrIsNat

LEMMA JmpThroughLeaves ==
  ASSUME NEW c \in CpuState, ~c.skip, c.pc + 1 \in Addr, NEW a \in Addr,
         Opcode(Fetched(c)) = 5, Through(Fetched(c), a), a \notin \o10 .. \o17,
         c.mem[a] \in Addr, NEW s \in Settled(c)
  PROVE  Leaves(c, s, c.mem[a], c.ac, c.link, c.mem)
<1> DEFINE x == Advanced(c)
           w == Fetched(c)
<1>1. Leaves(c, x, c.pc + 1, c.ac, c.link, c.mem) /\ x \in CpuState /\ w \in Word
  BY Advancing, AdvancedType
<1>2. PICK n \in Minutes : s = ApplySkip(MemoryReference(x, w, n))
  BY ReferenceSettles
<1> HIDE DEF x, w
<1>3. AutoIndexed(x, w) = x /\ EffectiveAddress(x, w) = c.mem[a]
  <2>1. DirectAddress(x, w) = a /\ x.mem = c.mem
    BY <1>1, ThroughAddress DEF w, Leaves
  <2> QED
    BY <2>1, NormaliseAddr DEF AutoIndexed, EffectiveAddress, Through, w
<1>4. MemoryReference(x, w, n) = SetPc(x, c.mem[a])
  BY <1>3 DEF MemoryReference, w
<1>5. Leaves(c, SetPc(x, c.mem[a]), c.mem[a], c.ac, c.link, c.mem)
  BY <1>1, SetPcLeaves
<1> QED
  BY <1>2, <1>4, <1>5, SkipLeaves

\* A pointer in an auto-index word is stepped before it is followed.
LEMMA TadThroughLeaves ==
  ASSUME NEW c \in CpuState, ~c.skip, c.pc + 1 \in Addr, NEW a \in Addr,
         Opcode(Fetched(c)) = 1, Through(Fetched(c), a), a \in \o10 .. \o17,
         NEW t \in Addr, t = MaskWord(c.mem[a] + 1), t # WallClockAddress, t # a,
         NEW s \in Settled(c)
  PROVE  Leaves(c, s, c.pc + 1, MaskWord(c.ac + c.mem[t]),
                IF c.ac + c.mem[t] > \o7777 THEN (c.link + 1) % 2 ELSE c.link,
                [c.mem EXCEPT ![a] = t])
<1> DEFINE x == Advanced(c)
           w == Fetched(c)
           m == [c.mem EXCEPT ![a] = t]
           y == WriteMem(x, a, c.mem[a] + 1)
<1>1. Leaves(c, x, c.pc + 1, c.ac, c.link, c.mem) /\ x \in CpuState /\ w \in Word
  BY Advancing, AdvancedType
<1>2. PICK n \in Minutes : s = ApplySkip(MemoryReference(x, w, n))
  BY ReferenceSettles
<1>3. c.ac \in Int /\ c.mem[a] + 1 \in Int /\ c.mem[t] \in Int /\ c.link \in Int
  BY FieldInts
<1> HIDE DEF x, w
<1>4. Leaves(c, y, c.pc + 1, c.ac, c.link, m)
  BY <1>1, <1>3, WriteMemLeaves
<1>5. m[a] = t /\ m[t] = c.mem[t]
  BY FieldTypes
<1>6. AutoIndexed(x, w) = y
  <2>1. DirectAddress(x, w) = a /\ x.mem = c.mem
    BY <1>1, ThroughAddress DEF w, Leaves
  <2> QED
    BY <2>1 DEF AutoIndexed, Through, w
<1> HIDE DEF y, m
<1>7. EffectiveAddress(y, w) = t
  <2>1. DirectAddress(y, w) = a /\ y.mem = m
    BY <1>1, <1>4, ThroughAddress DEF w, Leaves
  <2> QED
    BY <1>5, <2>1, NormaliseAddr DEF EffectiveAddress, Through, w
<1>8. ReadWord(y, t, n) = c.mem[t]
  BY <1>4, <1>5, NormaliseAddr DEF ReadWord, Leaves
<1>9. MemoryReference(x, w, n) = TadWord(y, c.mem[t])
  BY <1>6, <1>7, <1>8 DEF MemoryReference, w
<1>10. c.ac + c.mem[t] \in Int /\ c.link + 1 \in Int
  BY <1>3
<1>11. Leaves(c, SetAc(y, c.ac + c.mem[t]), c.pc + 1, MaskWord(c.ac + c.mem[t]), c.link, m)
  BY <1>4, <1>10, SetAcLeaves
<1>12. Leaves(c, SetLink(SetAc(y, c.ac + c.mem[t]), c.link + 1), c.pc + 1,
              MaskWord(c.ac + c.mem[t]), (c.link + 1) % 2, m)
  BY <1>10, <1>11, SetLinkLeaves
<1>13. y.ac = c.ac /\ y.link = c.link
  BY <1>4 DEF Leaves
<1>14. Leaves(c, TadWord(y, c.mem[t]), c.pc + 1, MaskWord(c.ac + c.mem[t]),
                IF c.ac + c.mem[t] > \o7777 THEN (c.link + 1) % 2 ELSE c.link,
                m)
  BY <1>11, <1>12, <1>13 DEF TadWord
<1>15. s = TadWord(y, c.mem[t])
  BY <1>2, <1>9, <1>14, SkipLeaves
<1> QED
  BY <1>14, <1>15 DEF m

\* CLA CLL
LEMMA ClearLeaves ==
  ASSUME NEW c \in CpuState, ~c.skip, c.pc + 1 \in Addr, Fetched(c) = \o7300,
         NEW s \in Settled(c)
  PROVE  Leaves(c, s, c.pc + 1, 0, 0, c.mem)
<1> DEFINE x == Advanced(c)
<1>1. Leaves(c, x, c.pc + 1, c.ac, c.link, c.mem)
  BY Advancing
<1>2. s = ApplySkip(Operate(x, \o7300))
  BY OperateSettles DEF Opcode
<1> HIDE DEF x
<1>3. Operate(x, \o7300) = SetLink(SetAc(x, 0), 0)
  BY DEF Operate, OperateGroup1, Rotated, ClearAndComplement, Has
<1>4. MaskWord(0) = 0
  BY DEF MaskWord
<1>5. Leaves(c, SetAc(x, 0), c.pc + 1, 0, c.link, c.mem)
  BY <1>1, <1>4, SetAcLeaves
<1>6. Leaves(c, SetLink(SetAc(x, 0), 0), c.pc + 1, 0, 0 % 2, c.mem)
  BY <1>5, SetLinkLeaves
<1> QED
  BY <1>2, <1>3, <1>6, SkipLeaves

LEMMA SetCombinedLeaves ==
  ASSUME NEW c, NEW s, NEW pc, NEW ac, NEW link, NEW mem,
         Leaves(c, s, pc, ac, link, mem), NEW n \in Nat
  PROVE  Leaves(c, SetCombined(s, n), pc, MaskWord(n), (n \div \o10000) % 2, mem)
<1>1. Leaves(c, SetAc(s, n), pc, MaskWord(n), link, mem)
  BY SetAcLeaves
<1>2. n \div \o10000 \in Int
  OBVIOUS
<1> QED
  BY <1>1, <1>2, SetLinkLeaves DEF SetCombined

\* RAR and RAL on the accumulator and the link.
LEMMA RotateLeaves ==
  ASSUME NEW c \in CpuState, ~c.skip, c.pc + 1 \in Addr, NEW s \in Settled(c),
         NEW n, \/ Fetched(c) = \o7010 /\ n = RotateRight(Combined(c))
                \/ Fetched(c) = \o7004 /\ n = RotateLeft(Combined(c))
  PROVE  Leaves(c, s, c.pc + 1, MaskWord(n), (n \div \o10000) % 2, c.mem)
<1> DEFINE x == Advanced(c)
           w == Fetched(c)
           y == ClearAndComplement(x, w)
<1>1. Leaves(c, x, c.pc + 1, c.ac, c.link, c.mem)
  BY Advancing
<1>2. /\ s = ApplySkip(Operate(x, w)) /\ Operate(x, w) = OperateGroup1(x, w)
      /\ OperateGroup1(x, w) = Rotated(y, w)
  <2>1. Opcode(w) = 7 /\ ~Has(w, \o400) /\ ~Has(w, 1)
    BY DEF Opcode, Has
  <2> HIDE DEF w
  <2> QED
    BY <2>1, OperateSettles DEF Operate, OperateGroup1, w
<1> HIDE DEF x
<1>3. Leaves(c, y, c.pc + 1, c.ac, c.link, c.mem)
  <2>1. y = SetLink(SetAc(x, c.ac), c.link)
    <3>1. ~Has(w, \o200) /\ ~Has(w, \o100) /\ ~Has(w, \o40) /\ ~Has(w, \o20)
      BY DEF Has
    <3>2. x.ac = c.ac /\ x.link = c.link
      BY <1>1 DEF Leaves
    <3> HIDE DEF w
    <3> QED
      BY <3>1, <3>2 DEF ClearAndComplement
  <2>2. MaskWord(c.ac) = c.ac /\ c.link % 2 = c.link /\ c.ac \in Int /\ c.link \in Int
    BY FieldTypes, FieldInts, MaskSmall DEF LinkBit
  <2>3. Leaves(c, SetAc(x, c.ac), c.pc + 1, c.ac, c.link, c.mem)
    BY <1>1, <2>2, SetAcLeaves
  <2>4. Leaves(c, SetLink(SetAc(x, c.ac), c.link), c.pc + 1, c.ac, c.link % 2, c.mem)
    BY <2>2, <2>3, SetLinkLeaves
  <2> HIDE DEF y
  <2> QED
    BY <2>1, <2>2, <2>4
<1> HIDE DEF y
<1>4. Combined(y) = Combined(c) /\ Combined(c) \in Nat
  BY <1>3, CombinedType DEF Combined, Leaves
<1>5. n \in Nat
  BY <1>4, RotateType
<1>6. Rotated(y, w) = SetCombined(y, n)
  <2>1. CASE w = \o7010 /\ n = RotateRight(Combined(c))
    <3>1. Has(w, \o10) /\ ~Has(w, \o4) /\ ~Has(w, \o2)
      BY <2>1 DEF Has
    <3> HIDE DEF w
    <3> QED
      BY <1>4, <2>1, <3>1 DEF Rotated
  <2>2. CASE w = \o7004 /\ n = RotateLeft(Combined(c))
    <3>1. ~Has(w, \o10) /\ Has(w, \o4) /\ ~Has(w, \o2)
      BY <2>2 DEF Has
    <3> HIDE DEF w
    <3> QED
      BY <1>4, <2>2, <3>1 DEF Rotated
  <2> QED
    BY <2>1, <2>2
<1>7. Leaves(c, SetCombined(y, n), c.pc + 1, MaskWord(n), (n \div \o10000) % 2, c.mem)
  BY <1>3, <1>5, SetCombinedLeaves
<1> QED
  BY <1>2, <1>6, <1>7, SkipLeaves

LEMMA HltLeaves ==
  ASSUME NEW c \in CpuState, ~c.skip, c.pc + 1 \in Addr, Fetched(c) = \o7402,
         NEW s \in Settled(c)
  PROVE  /\ s \in CpuState /\ ~s.skip /\ s.halted
         /\ s.pc = c.pc + 1 /\ s.ac = c.ac /\ s.link = c.link /\ s.mem = c.mem
         /\ s.ion = c.ion /\ s.pending = c.pending
<1> DEFINE x == Advanced(c)
<1>1. Leaves(c, x, c.pc + 1, c.ac, c.link, c.mem)
  BY Advancing
<1>2. s = ApplySkip(Operate(x, \o7402))
  BY OperateSettles DEF Opcode
<1> HIDE DEF x
<1>3. Operate(x, \o7402) = SetHalt(x)
  <2>1. /\ Has(\o7402, \o400) /\ ~Has(\o7402, \o200) /\ ~Has(\o7402, \o4)
        /\ Has(\o7402, \o2) /\ ~Has(\o7402, 1) /\ \o7402 % \o400 # 0
        /\ ~Has(\o7402, \o100) /\ ~Has(\o7402, \o40) /\ ~Has(\o7402, \o20)
        /\ ~Has(\o7402, \o10)
    BY DEF Has
  <2> QED
    BY <2>1 DEF Operate, OperateGroup2, Group2Enable, SkipCondition
<1>4. SetHalt(x) \in CpuState /\ SetHalt(x).skip = x.skip /\ Shaped(x)
  BY <1>1, SetHaltType, StatesAreShaped DEF Leaves
<1>5. s = SetHalt(x)
  BY <1>1, <1>2, <1>3, <1>4 DEF Leaves, ApplySkip
<1> QED
  BY <1>1, <1>4, <1>5 DEF Leaves, SetHalt, Shaped, CpuFields

LEMMA IonLeaves ==
  ASSUME NEW c \in CpuState, ~c.skip, c.pc + 1 \in Addr, Fetched(c) = \o6001,
         NEW s \in Settled(c)
  PROVE  /\ s \in CpuState /\ ~s.skip /\ s.ion
         /\ s.pc = c.pc + 1 /\ s.ac = c.ac /\ s.link = c.link /\ s.mem = c.mem
         /\ s.halted = c.halted /\ s.pending = c.pending
<1>0. PICK on \in {TRUE, FALSE} : on = TRUE
  OBVIOUS
<1> on \in BOOLEAN
  BY <1>0
<1> DEFINE x == Advanced(c)
           y == SetInterruptEnable(x, on)
<1>1. Leaves(c, x, c.pc + 1, c.ac, c.link, c.mem)
  BY Advancing
<1>2. /\ Opcode(\o6001) = 6 /\ IotDevice(\o6001) = InterruptControlCode
      /\ IotFunction(\o6001) = 1
  BY DEF Opcode, IotDevice, IotFunction, InterruptControlCode
<1>3. s = ApplySkip(InterruptControlIot(x, \o6001))
  BY <1>2, ControlSettles
<1> HIDE DEF x
<1>4. InterruptControlIot(x, \o6001) = y
  BY <1>0, <1>2 DEF InterruptControlIot, SetInterruptEnable
<1>5. y \in CpuState /\ y.skip = x.skip /\ Shaped(x)
  BY <1>1, SetInterruptEnableType, StatesAreShaped DEF Leaves
<1>6. /\ y.ion /\ y.pc = x.pc /\ y.ac = x.ac /\ y.link = x.link /\ y.mem = x.mem
      /\ y.halted = x.halted /\ y.pending = x.pending
  BY <1>0, <1>5 DEF SetInterruptEnable, Shaped, CpuFields
<1> HIDE DEF y
<1>7. s = y
  BY <1>1, <1>3, <1>4, <1>5 DEF Leaves, ApplySkip
<1> QED
  BY <1>1, <1>5, <1>6, <1>7 DEF Leaves

\* A call of a subroutine in page zero: the return address goes to its first
\* word.
LEMMA JmsLeaves ==
  ASSUME NEW c \in CpuState, ~c.skip, c.pc + 1 \in Addr, NEW a \in Addr,
         Opcode(Fetched(c)) = 4, Direct(Fetched(c), a), a + 1 \in Addr,
         NEW s \in Settled(c)
  PROVE  Leaves(c, s, a + 1, c.ac, c.link, [c.mem EXCEPT ![a] = c.pc + 1])
<1> DEFINE x == Advanced(c)
           w == Fetched(c)
           m == [c.mem EXCEPT ![a] = c.pc + 1]
           y == WriteMem(x, a, c.pc + 1)
<1>1. Leaves(c, x, c.pc + 1, c.ac, c.link, c.mem) /\ x \in CpuState /\ w \in Word
  BY Advancing, AdvancedType
<1>2. PICK n \in Minutes : s = ApplySkip(MemoryReference(x, w, n))
  BY ReferenceSettles
<1>3. c.pc + 1 \in Int /\ MaskWord(c.pc + 1) = c.pc + 1
  BY MaskSmall, AddrIsNat
<1> HIDE DEF x, w
<1>4. AutoIndexed(x, w) = x /\ EffectiveAddress(x, w) = a
  BY <1>1, DirectReference DEF w
<1>5. MemoryReference(x, w, n) = SetPc(y, a + 1)
  <2>1. MemoryReference(x, w, n) = Jms(x, a)
    BY <1>4 DEF MemoryReference, w
  <2> QED
    BY <1>1, <2>1 DEF Jms, Leaves
<1>6. Leaves(c, y, c.pc + 1, c.ac, c.link, m)
  BY <1>1, <1>3, WriteMemLeaves
<1> HIDE DEF y, m
<1>7. Leaves(c, SetPc(y, a + 1), a + 1, c.ac, c.link, m)
  BY <1>6, SetPcLeaves
<1> QED
  BY <1>2, <1>5, <1>7, SkipLeaves DEF m

\* A device other than interrupt control may skip, and may load AC.
LEMMA DeviceLeaves ==
  ASSUME NEW c \in CpuState, ~c.skip, c.pc + 1 \in Addr, c.pc + 2 \in Addr,
         Opcode(Fetched(c)) = 6, IotDevice(Fetched(c)) # InterruptControlCode,
         NEW s \in Settled(c)
  PROVE  \E pc \in {c.pc + 1, c.pc + 2}, ac \in Word :
           Leaves(c, s, pc, ac, c.link, c.mem)
<1> DEFINE x == Advanced(c)
           loaded == {x} \cup {SetAc(x, v) : v \in DeviceWords}
<1>1. Leaves(c, x, c.pc + 1, c.ac, c.link, c.mem) /\ c.pc \in Int /\ c.ac \in Word
  BY Advancing, FieldTypes, FieldInts
<1>2. Executed(c) = HandlerResults(x)
  BY DEF Executed
<1>3. HandlerResults(x) = loaded \cup {RequestSkip(l) : l \in loaded}
  BY DEF HandlerResults
<1>4. PICK e \in HandlerResults(x) : s = ApplySkip(e)
  BY <1>2 DEF Settled
<1> HIDE DEF x
<1>5. ASSUME NEW l \in loaded
      PROVE  \E ac \in Word : Leaves(c, l, c.pc + 1, ac, c.link, c.mem)
  <2>1. CASE l = x
    BY <1>1, <2>1
  <2>2. ASSUME NEW v \in DeviceWords, l = SetAc(x, v)
        PROVE  \E ac \in Word : Leaves(c, l, c.pc + 1, ac, c.link, c.mem)
    <3>1. v \in Int
      BY WordIsNat, CpuConstantsAssumption
    <3>2. MaskWord(v) \in Word
      BY <3>1, MaskIsWord
    <3> QED
      BY <1>1, <2>2, <3>1, <3>2, SetAcLeaves
  <2> QED
    BY <2>1, <2>2
<1> HIDE DEF loaded
<1>6. PICK l \in loaded : e = l \/ e = RequestSkip(l)
  BY <1>3, <1>4
<1>7. PICK ac \in Word : Leaves(c, l, c.pc + 1, ac, c.link, c.mem)
  BY <1>5
<1>8. Leaves(c, ApplySkip(l), c.pc + 1, ac, c.link, c.mem)
  BY <1>7, SkipLeaves
<1>9. Leaves(c, ApplySkip(RequestSkip(l)), c.pc + 2, ac, c.link, c.mem)
  <2>1. (c.pc + 1) + 1 = c.pc + 2
    BY <1>1
  <2>2. Leaves(c, ApplySkip(RequestSkip(l)), (c.pc + 1) + 1, ac, c.link, c.mem)
    BY <1>7, <2>1, SkipLeaves
  <2> QED
    BY <2>1, <2>2
<1> QED
  BY <1>4, <1>6, <1>8, <1>9

\* A word of zeros is AND 0: wherever it stands, and though PC may wrap around,
\* it changes neither memory nor the enable flag.
LEMMA AndZeroKeeps ==
  ASSUME NEW c \in CpuState, Fetched(c) = 0, NEW s \in Settled(c)
  PROVE  s \in CpuState /\ s.mem = c.mem /\ s.ion = c.ion
<1> DEFINE x == Advanced(c)
<1>1. x \in CpuState /\ x.mem = c.mem /\ x.ion = c.ion
  BY AdvancedType, StatesAreShaped DEF Advanced, SetPc, Shaped, CpuFields
<1>2. PICK n \in Minutes : s = ApplySkip(MemoryReference(x, 0, n))
  BY ReferenceSettles DEF Opcode
<1> HIDE DEF x
<1>3. PICK a : a = EffectiveAddress(x, 0)
  OBVIOUS
<1>4. PICK v : v = ReadWord(x, a, n)
  OBVIOUS
<1>5. MemoryReference(x, 0, n) = AndWord(x, v)
  BY <1>3, <1>4 DEF MemoryReference, AutoIndexed, Indirect, Has, Opcode
<1> DEFINE y == AndWord(x, v)
<1>6. MemoryReference(x, 0, n) \in CpuState
  <2>1. 0 \in Word
    BY DEF Word
  <2>2. n \in Int
    BY CpuConstantsAssumption
  <2> QED
    BY <1>1, <2>1, <2>2, MemoryReferenceType
<1>7. y \in CpuState /\ y.mem = c.mem /\ y.ion = c.ion
  BY <1>1, <1>5, <1>6, StatesAreShaped DEF AndWord, SetAc, Shaped, CpuFields
<1> HIDE DEF y
<1>8. ApplySkip(y) \in CpuState
  BY <1>7, ApplySkipType
<1> QED
  BY <1>2, <1>5, <1>7, <1>8, StatesAreShaped
     DEF y, ApplySkip, ClearSkip, SetPc, Shaped, CpuFields

\* Whatever an instruction of c ends in is a state of the processor.
LEMMA SettledType ==
  ASSUME NEW c \in CpuState, NEW s \in Settled(c)
  PROVE  s \in CpuState
<1>1. PICK e \in Executed(c) : s = ApplySkip(e)
  BY DEF Settled
<1>2. e \in CpuState
  BY ExecutedQuiet
<1> QED
  BY <1>1, <1>2, ApplySkipType

-----------------------------------------------------------------------------
(* The end of a step: the dispatch, then the tick.                          *)

LEMMA DispatchKeeps ==
  ASSUME NEW c, ~WillDispatch(c)
  PROVE  Dispatch(c) = c
  BY DEF Dispatch

\* A tick that asks for nothing, or for an interrupt.
LEMMA TickLeaves ==
  ASSUME NEW d \in CpuState, NEW signal \in {"none", "interrupt"},
         NEW t, t = Signalled(d, signal)
  PROVE  /\ t \in CpuState /\ t.skip = d.skip
         /\ t.pc = d.pc /\ t.ac = d.ac /\ t.link = d.link /\ t.mem = d.mem
         /\ t.ion = d.ion /\ t.halted = d.halted
         /\ t.pending = IF signal = "interrupt" THEN d.pending + 1 ELSE d.pending
<1>1. Shaped(d) /\ t \in CpuState /\ t.skip = d.skip
  BY StatesAreShaped, SignalledType
<1>2. t = IF signal = "interrupt" THEN RequestInterrupt(d) ELSE d
  BY DEF Signalled
<1> QED
  BY <1>1, <1>2 DEF RequestInterrupt, Shaped, CpuFields
=============================================================================
