---------------------------- MODULE DeviceProofs ----------------------------
(***************************************************************************)
(* Two devices the guest programs talk to.                                  *)
(*                                                                          *)
(* For any keystrokes, guest program and bounds, the console of module      *)
(* Kl8eConsole keeps its invariants and implements the first-in, first-out  *)
(* character stream of module CharacterStream.  The invariant is the        *)
(* conjunction of the four that are model-checked.  NothingStranded is what *)
(* the refinement needs: a keystroke that finds the flag clear goes to the  *)
(* one-character buffer, which keeps the order of arrival only because      *)
(* nothing waits behind a clear flag.                                       *)
(*                                                                          *)
(* For every count, pause and clock, the watchdog never rings early, tells  *)
(* every alarm by its flag, repeats only what is periodic and stays silent  *)
(* when disabled.                                                           *)
(***************************************************************************)
EXTENDS Kl8eConsole, Watchdog, BasicProofs, SequenceTheorems

-----------------------------------------------------------------------------
(* The console.                                                             *)

ConsoleInv ==
  ConsoleTypeOK /\ NothingStranded /\ SkipIsAPromise /\ OutputLogFollowsStream

-----------------------------------------------------------------------------
(* Sequences and characters.                                                *)

LEMMA MaskCharType ==
  ASSUME NEW n \in Int
  PROVE  MaskChar(n) \in Chars
  BY DEF MaskChar, Chars

LEMMA MaskCharFixed ==
  ASSUME NEW c \in Chars
  PROVE  c \in Word /\ MaskChar(c) = c
  BY DEF MaskChar, Chars, Word

LEMMA SingletonType ==
  ASSUME NEW S, NEW e \in S
  PROVE  <<e>> \in Seq(S)
  OBVIOUS

LEMMA HeadThenTail ==
  ASSUME NEW S, NEW s \in Seq(S), s # <<>>
  PROVE  /\ Head(s) \in S
         /\ Tail(s) \in Seq(S)
         /\ <<Head(s)>> \o Tail(s) = s
<1>1. Head(s) \in S /\ Tail(s) \in Seq(S) /\ Len(Tail(s)) = Len(s) - 1
      /\ \A i \in 1 .. Len(Tail(s)) : Tail(s)[i] = s[i + 1]
  BY HeadTailProperties
<1>2. <<Head(s)>> \in Seq(S)
  BY <1>1
<1>3. /\ <<Head(s)>> \o Tail(s) \in Seq(S)
      /\ Len(<<Head(s)>> \o Tail(s)) = 1 + Len(Tail(s))
      /\ \A i \in 1 .. 1 + Len(Tail(s)) :
           (<<Head(s)>> \o Tail(s))[i] = IF i <= 1 THEN Head(s) ELSE Tail(s)[i - 1]
  BY <1>1, <1>2, ConcatProperties
<1>4. Len(s) \in Nat /\ Len(s) > 0 /\ Head(s) = s[1]
  OBVIOUS
<1>5. \A i \in 1 .. Len(s) : (<<Head(s)>> \o Tail(s))[i] = s[i]
  BY <1>1, <1>3, <1>4
<1> QED
  BY <1>1, <1>3, <1>4, <1>5, SeqEqual

LEMMA TailOfCons ==
  ASSUME NEW S, NEW e \in S, NEW s \in Seq(S)
  PROVE  /\ <<e>> \o s # <<>>
         /\ <<e>> \o s \in Seq(S)
         /\ Head(<<e>> \o s) = e
         /\ Tail(<<e>> \o s) = s
<1> DEFINE t == <<e>> \o s
<1>1. /\ t \in Seq(S)
      /\ Len(t) = 1 + Len(s)
      /\ \A i \in 1 .. 1 + Len(s) : t[i] = IF i <= 1 THEN e ELSE s[i - 1]
  BY SingletonType, ConcatProperties
<1>2. Len(s) \in Nat /\ t # <<>>
  BY <1>1
<1> HIDE DEF t
<1>3. Tail(t) \in Seq(S) /\ Len(Tail(t)) = Len(s)
      /\ \A i \in 1 .. Len(Tail(t)) : Tail(t)[i] = t[i + 1]
  BY <1>1, <1>2, HeadTailProperties
<1>4. \A i \in 1 .. Len(s) : Tail(t)[i] = s[i]
  BY <1>1, <1>2, <1>3
<1>5. Tail(t) = s
  BY <1>2, <1>3, <1>4, SeqEqual
<1>6. Head(t) = t[1]
  BY <1>1, <1>2
<1> QED
  BY <1>1, <1>2, <1>5, <1>6 DEF t

LEMMA AppendToConcat ==
  ASSUME NEW S, NEW s \in Seq(S), NEW t \in Seq(S), NEW e \in S
  PROVE  Append(s \o t, e) = s \o Append(t, e)
<1>1. PICK v \in Seq(S) : v = <<e>>
  BY SingletonType
<1>2. s \o t \in Seq(S)
  BY ConcatProperties
<1>3. Append(s \o t, e) = (s \o t) \o v
  BY <1>1, <1>2, AppendIsConcat
<1>4. @ = s \o (t \o v)
  BY ConcatAssociative
<1>5. Append(t, e) = t \o v
  BY <1>1, AppendIsConcat
<1> QED
  BY <1>3, <1>4, <1>5

LEMMA AppendToCons ==
  ASSUME NEW S, NEW e \in S, NEW s \in Seq(S), NEW f \in S
  PROVE  Append(<<e>> \o s, f) = <<e>> \o Append(s, f)
  BY SingletonType, AppendToConcat

LEMMA ConsMovesOver ==
  ASSUME NEW S, NEW s \in Seq(S), NEW e \in S, NEW t \in Seq(S)
  PROVE  s \o (<<e>> \o t) = Append(s, e) \o t
<1>1. PICK v \in Seq(S) : v = <<e>>
  BY SingletonType
<1>2. (s \o v) \o t = s \o (v \o t)
  BY ConcatAssociative
<1>3. Append(s, e) = s \o v
  BY <1>1, AppendIsConcat
<1> QED
  BY <1>1, <1>2, <1>3

-----------------------------------------------------------------------------
(* The keyboard as a line of characters.                                    *)

\* the fields of a keyboard state
LEMMA KeyboardFields ==
  ASSUME NEW k \in KeyboardState
  PROVE  k.flag \in BOOLEAN /\ k.buffer \in Chars /\ k.pending \in Seq(Chars)
  BY DEF KeyboardState

\* nothing waits, and nothing stale remains, behind a clear flag
Clean(k) == ~k.flag => k.pending = <<>> /\ k.buffer = 0

\* A keystroke joins the line at its end and sets the flag.
LEMMA QueuedJoins ==
  ASSUME NEW k \in KeyboardState, Clean(k), NEW byte \in Int
  PROVE  /\ Queued(k, byte) \in KeyboardState
         /\ Queued(k, byte).flag
         /\ Waiting(Queued(k, byte)) = Append(Waiting(k), MaskChar(byte))
<1> DEFINE c == MaskChar(byte)
<1>1. c \in Chars
  BY MaskCharType
<1>2. k.flag \in BOOLEAN /\ k.buffer \in Chars /\ k.pending \in Seq(Chars)
  BY KeyboardFields
<1> HIDE DEF c
<1>3. CASE k.flag
  <2>1. Append(k.pending, c) \in Seq(Chars)
    BY <1>1, <1>2, AppendProperties
  <2>2. Queued(k, byte)
          = [flag |-> TRUE, buffer |-> k.buffer, pending |-> Append(k.pending, c)]
    BY <1>3 DEF Queued, c
  <2>3. Append(<<k.buffer>> \o k.pending, c) = <<k.buffer>> \o Append(k.pending, c)
    BY <1>1, <1>2, AppendToCons
  <2>4. Queued(k, byte) \in KeyboardState /\ Queued(k, byte).flag
    BY <1>2, <2>1, <2>2 DEF KeyboardState
  <2>5. Waiting(Queued(k, byte)) = <<k.buffer>> \o Append(k.pending, c)
    BY <2>2 DEF Waiting
  <2> QED
    BY <1>3, <2>3, <2>4, <2>5 DEF Waiting, c
<1>4. CASE ~k.flag
  <2>1. k.pending = <<>>
    BY <1>4 DEF Clean
  <2>2. Queued(k, byte) = [flag |-> TRUE, buffer |-> c, pending |-> <<>>]
    BY <1>4, <2>1 DEF Queued, c
  <2>3. Waiting(Queued(k, byte)) = <<c>> \o <<>>
    BY <2>2 DEF Waiting
  <2>4. <<c>> \o <<>> = <<c>>
    BY <1>1, SingletonType, ConcatEmptySeq
  <2>5. Append(Waiting(k), c) = <<c>>
    BY <1>4 DEF Waiting
  <2>6. Queued(k, byte) \in KeyboardState /\ Queued(k, byte).flag
    BY <1>1, <1>2, <2>1, <2>2 DEF KeyboardState
  <2> QED
    BY <2>3, <2>4, <2>5, <2>6 DEF c
<1> QED
  BY <1>2, <1>3, <1>4

\* Consuming releases the front of the line, or leaves the empty line empty.
LEMMA ConsumedLeaves ==
  ASSUME NEW k \in KeyboardState, Clean(k)
  PROVE  /\ Consumed(k) \in KeyboardState
         /\ Clean(Consumed(k))
         /\ k.flag => /\ Waiting(k) # <<>>
                      /\ Head(Waiting(k)) = k.buffer
                      /\ Waiting(Consumed(k)) = Tail(Waiting(k))
         /\ ~k.flag => Waiting(Consumed(k)) = Waiting(k)
<1>1. k.flag \in BOOLEAN /\ k.buffer \in Chars /\ k.pending \in Seq(Chars)
  BY KeyboardFields
<1>2. CASE k.pending = <<>>
  <2>1. Consumed(k) = [flag |-> FALSE, buffer |-> 0, pending |-> <<>>]
    BY <1>2 DEF Consumed
  <2>2. Consumed(k) \in KeyboardState /\ Clean(Consumed(k))
    BY <1>1, <1>2, <2>1 DEF KeyboardState, Clean, Chars
  <2>3. Waiting(Consumed(k)) = k.pending
    BY <1>2, <2>1 DEF Waiting
  <2>4. ~k.flag => Waiting(k) = k.pending
    BY <1>2 DEF Waiting
  <2>5. k.flag => Waiting(k) = <<k.buffer>> \o k.pending
    BY DEF Waiting
  <2> QED
    BY <1>1, <2>2, <2>3, <2>4, <2>5, TailOfCons
<1>3. CASE k.pending # <<>>
  <2>1. Consumed(k)
          = [flag |-> TRUE, buffer |-> Head(k.pending), pending |-> Tail(k.pending)]
    BY <1>3 DEF Consumed
  <2>2. /\ Head(k.pending) \in Chars /\ Tail(k.pending) \in Seq(Chars)
        /\ <<Head(k.pending)>> \o Tail(k.pending) = k.pending
    BY <1>1, <1>3, HeadThenTail
  <2>3. Consumed(k) \in KeyboardState /\ Clean(Consumed(k))
    BY <2>1, <2>2 DEF KeyboardState, Clean
  <2>4. Waiting(Consumed(k)) = k.pending
    BY <2>1, <2>2 DEF Waiting
  <2>5. k.flag
    BY <1>3 DEF Clean
  <2>6. Waiting(k) = <<k.buffer>> \o k.pending
    BY <2>5 DEF Waiting
  <2> QED
    BY <1>1, <2>3, <2>4, <2>5, <2>6, TailOfCons
<1> QED
  BY <1>2, <1>3

-----------------------------------------------------------------------------
(* The accumulator.                                                         *)

LEMMA KeyboardAcType ==
  ASSUME NEW k, NEW func, NEW word \in Word
  PROVE  KeyboardAc(k, func, word) \in Word
<1>1. 0 \in Word
  BY DEF Word
<1> QED
  BY <1>1, OrIsWord DEF KeyboardAc

\* KRB, and any function that both clears and reads, loads the character as is.
LEMMA ReadsTheBuffer ==
  ASSUME NEW k \in KeyboardState, NEW func, NEW word, ReadsChar(k, func)
  PROVE  MaskChar(KeyboardAc(k, func, word)) = k.buffer
<1>1. k.buffer \in Chars
  BY KeyboardFields
<1>2. k.buffer \in Word /\ MaskChar(k.buffer) = k.buffer
  BY <1>1, MaskCharFixed
<1>3. KeyboardAc(k, func, word) = Or(0, k.buffer)
  BY DEF ReadsChar, KeyboardAc
<1> QED
  BY <1>2, <1>3, OrZero
-----------------------------------------------------------------------------
(* Invariance: one lemma for each action that has something to keep.        *)

LEMMA ConsoleInitInv == ConsoleInit => ConsoleInv
<1> SUFFICES ASSUME ConsoleInit PROVE ConsoleInv
  OBVIOUS
<1>1. 0 \in Chars /\ 0 \in Word /\ <<>> \in Seq(Chars)
  BY EmptySeq DEF Chars, Word
<1>2. ConsoleTypeOK
  BY <1>1 DEF ConsoleInit, ConsoleTypeOK, KeyboardState, TeleprinterState
<1>3. NothingStranded /\ SkipIsAPromise
  BY DEF ConsoleInit, NothingStranded, SkipIsAPromise
<1>4. OutputLogFollowsStream
  BY ConcatEmptySeq, EmptySeq DEF ConsoleInit, OutputLogFollowsStream
<1> QED
  BY <1>2, <1>3, <1>4 DEF ConsoleInv

LEMMA QueueInputInv ==
  ASSUME ConsoleInv, NEW byte \in HostBytes, QueueInput(byte)
  PROVE  /\ ConsoleInv'
         /\ Waiting(keyboard)' = Append(Waiting(keyboard), MaskChar(byte))
         /\ MaskChar(byte) \in Chars
<1>1. byte \in Int
  BY ConsoleConstantsAssumption
<1>2. keyboard \in KeyboardState /\ Clean(keyboard)
  BY DEF ConsoleInv, ConsoleTypeOK, NothingStranded, Clean
<1>3. /\ keyboard' \in KeyboardState
      /\ keyboard'.flag
      /\ Waiting(keyboard') = Append(Waiting(keyboard), MaskChar(byte))
  BY <1>1, <1>2, QueuedJoins DEF QueueInput
<1>4. ConsoleTypeOK'
  BY <1>3 DEF QueueInput, ConsoleInv, ConsoleTypeOK
<1>5. NothingStranded' /\ SkipIsAPromise' /\ OutputLogFollowsStream'
  BY <1>3 DEF QueueInput, ConsoleInv, NothingStranded, SkipIsAPromise,
              OutputLogFollowsStream
<1> QED
  BY <1>1, <1>3, <1>4, <1>5, MaskCharType DEF ConsoleInv

LEMMA KeyboardIotInv ==
  ASSUME ConsoleInv, NEW func \in Funcs, KeyboardIot(func)
  PROVE  ConsoleInv'
<1>1. /\ keyboard \in KeyboardState /\ Clean(keyboard)
      /\ ac \in Word /\ read \in Seq(Chars) /\ ready \in BOOLEAN
  BY DEF ConsoleInv, ConsoleTypeOK, NothingStranded, Clean
<1>2. keyboard' \in KeyboardState /\ Clean(keyboard')
  BY <1>1, ConsumedLeaves DEF KeyboardIot
<1>3. ac' \in Word
  BY <1>1, KeyboardAcType DEF KeyboardIot
<1>4. MaskChar(ac') \in Chars
  BY <1>3, WordIsNat, MaskCharType
<1>5. read' \in Seq(Chars)
  BY <1>1, <1>4, AppendProperties DEF KeyboardIot
<1>6. ready' \in BOOLEAN
  BY <1>1, KeyboardFields DEF KeyboardIot, KeyboardSkips
<1>7. ConsoleTypeOK'
  BY <1>2, <1>3, <1>5, <1>6 DEF KeyboardIot, ConsoleInv, ConsoleTypeOK
<1>8. NothingStranded'
  BY <1>2 DEF NothingStranded, Clean
<1>9. SkipIsAPromise'
  BY DEF KeyboardIot, KeyboardSkips, ConsoleInv, SkipIsAPromise
<1>10. OutputLogFollowsStream'
  BY DEF KeyboardIot, ConsoleInv, OutputLogFollowsStream
<1> QED
  BY <1>7, <1>8, <1>9, <1>10 DEF ConsoleInv

LEMMA TeleprinterIotInv ==
  ASSUME ConsoleInv, NEW func \in Funcs, TeleprinterIot(func)
  PROVE  ConsoleInv'
<1>1. /\ teleprinter \in TeleprinterState /\ ac \in Word
      /\ printed \in Seq(Chars) /\ popped \in Seq(Chars)
      /\ printed = popped \o teleprinter.log
  BY DEF ConsoleInv, ConsoleTypeOK, OutputLogFollowsStream
<1>2. teleprinter.flag \in BOOLEAN /\ teleprinter.log \in Seq(Chars)
  BY <1>1 DEF TeleprinterState
<1>3. NothingStranded' /\ SkipIsAPromise'
  BY DEF TeleprinterIot, ConsoleInv, NothingStranded, SkipIsAPromise
<1>4. CASE Has(func, 4)
  <2>1. PICK c \in Chars : c = MaskChar(ac)
    BY <1>1, WordIsNat, MaskCharType
  <2>2. /\ teleprinter' = [flag |-> TRUE, log |-> Append(teleprinter.log, c)]
        /\ printed' = Append(printed, c)
        /\ UNCHANGED <<keyboard, ac, popped, read, ready>>
    BY <1>4, <2>1 DEF TeleprinterIot
  <2>3. Append(teleprinter.log, c) \in Seq(Chars) /\ Append(printed, c) \in Seq(Chars)
    BY <1>1, <1>2, AppendProperties
  <2>4. ConsoleTypeOK'
    BY <2>2, <2>3 DEF ConsoleInv, ConsoleTypeOK, TeleprinterState
  <2>5. Append(popped \o teleprinter.log, c) = popped \o Append(teleprinter.log, c)
    <3>1. \A s, t \in Seq(Chars), e \in Chars : Append(s \o t, e) = s \o Append(t, e)
      BY AppendToConcat
    <3>2. popped \in Seq(Chars) /\ teleprinter.log \in Seq(Chars) /\ c \in Chars
      BY <1>1, <1>2
    <3> QED
      BY <3>1, <3>2, Zenon
  <2>6. OutputLogFollowsStream'
    BY <1>1, <2>2, <2>5 DEF OutputLogFollowsStream
  <2> QED
    BY <1>3, <2>4, <2>6 DEF ConsoleInv
<1>5. CASE ~Has(func, 4)
  <2>1. /\ teleprinter' = [flag |-> teleprinter.flag /\ ~Has(func, 2),
                           log  |-> teleprinter.log]
        /\ UNCHANGED <<printed, keyboard, ac, popped, read, ready>>
    BY <1>5 DEF TeleprinterIot
  <2>2. teleprinter' \in TeleprinterState /\ teleprinter'.log = teleprinter.log
    BY <1>2, <2>1 DEF TeleprinterState
  <2>3. ConsoleTypeOK'
    BY <2>1, <2>2 DEF ConsoleInv, ConsoleTypeOK
  <2>4. OutputLogFollowsStream'
    BY <1>1, <2>1, <2>2 DEF OutputLogFollowsStream
  <2> QED
    BY <1>3, <2>3, <2>4 DEF ConsoleInv
<1> QED
  BY <1>4, <1>5

LEMMA PopOutputInv ==
  ASSUME ConsoleInv, PopOutput
  PROVE  ConsoleInv'
<1>1. /\ teleprinter \in TeleprinterState /\ teleprinter.log # <<>>
      /\ popped \in Seq(Chars) /\ printed = popped \o teleprinter.log
  BY DEF ConsoleInv, ConsoleTypeOK, OutputLogFollowsStream, PopOutput
<1>2. teleprinter.flag \in BOOLEAN /\ teleprinter.log \in Seq(Chars)
  BY <1>1 DEF TeleprinterState
<1>3. PICK c \in Chars, rest \in Seq(Chars) :
        /\ c = Head(teleprinter.log) /\ rest = Tail(teleprinter.log)
        /\ <<c>> \o rest = teleprinter.log
  BY <1>1, <1>2, HeadThenTail
<1>4. /\ popped' = Append(popped, c)
      /\ teleprinter' = [flag |-> teleprinter.flag, log |-> rest]
      /\ UNCHANGED <<keyboard, ac, printed, read, ready>>
  BY <1>1, <1>3 DEF PopOutput, TeleprinterState
<1>5. Append(popped, c) \in Seq(Chars)
  BY <1>1, AppendProperties
<1>6. ConsoleTypeOK'
  BY <1>2, <1>4, <1>5 DEF ConsoleInv, ConsoleTypeOK, TeleprinterState
<1>7. printed' = Append(popped, c) \o rest
  <2>1. popped \o (<<c>> \o rest) = Append(popped, c) \o rest
    BY <1>1, ConsMovesOver
  <2> QED
    BY <1>1, <1>3, <1>4, <2>1
<1>8. NothingStranded' /\ SkipIsAPromise' /\ OutputLogFollowsStream'
  BY <1>4, <1>7 DEF ConsoleInv, NothingStranded, SkipIsAPromise,
                    OutputLogFollowsStream
<1> QED
  BY <1>6, <1>8 DEF ConsoleInv

LEMMA ConsoleStepInv == ConsoleInv /\ [ConsoleNext]_consoleVars => ConsoleInv'
<1> SUFFICES ASSUME ConsoleInv, [ConsoleNext]_consoleVars PROVE ConsoleInv'
  OBVIOUS
<1>1. CASE UNCHANGED consoleVars
  BY <1>1 DEF consoleVars, ConsoleInv, ConsoleTypeOK, NothingStranded,
              SkipIsAPromise, OutputLogFollowsStream
<1>2. ASSUME NEW word \in GuestWords, LoadAc(word) PROVE ConsoleInv'
  BY <1>2, ConsoleConstantsAssumption DEF LoadAc, ConsoleInv, ConsoleTypeOK,
     NothingStranded, SkipIsAPromise, OutputLogFollowsStream
<1> QED
  BY <1>1, <1>2, QueueInputInv, KeyboardIotInv, TeleprinterIotInv, PopOutputInv
  DEF ConsoleNext

LEMMA ConsoleInvariant == ConsoleSpec => []ConsoleInv
  BY ConsoleInitInv, ConsoleStepInv, PTL DEF ConsoleSpec

\* The two halves of the console keep their ranges: characters of seven bits,
\* buffers, queue and log within what the code allows.
THEOREM ConsoleTypeCorrect == ConsoleSpec => []ConsoleTypeOK
  BY ConsoleInvariant, PTL DEF ConsoleInv

\* No keystroke is stranded behind a clear keyboard flag (keyboard_consume_current
\* promotes, queue_input bypasses the queue only when the flag is clear).
THEOREM ConsoleStrandsNothing == ConsoleSpec => []NothingStranded
  BY ConsoleInvariant, PTL DEF ConsoleInv

\* Once a keyboard skip has told the guest of a character, the flag stays set
\* until the guest consumes it.
THEOREM ConsoleKeepsPromise == ConsoleSpec => []SkipIsAPromise
  BY ConsoleInvariant, PTL DEF ConsoleInv

\* The host pops from the output log what went to the output stream, in order.
THEOREM ConsoleLogFollowsStream == ConsoleSpec => []OutputLogFollowsStream
  BY ConsoleInvariant, PTL DEF ConsoleInv

-----------------------------------------------------------------------------
(* The console implements the character stream.                             *)

LEMMA KeyboardIotStream ==
  ASSUME ConsoleInv, NEW func \in Funcs, KeyboardIot(func)
  PROVE  [Stream!StreamNext]_(Stream!streamVars)
<1>1. keyboard \in KeyboardState /\ Clean(keyboard)
  BY DEF ConsoleInv, ConsoleTypeOK, NothingStranded, Clean
<1>2. keyboard.flag \in BOOLEAN
  BY <1>1, KeyboardFields
<1>3. CASE ~keyboard.flag \/ ~Consumes(func)
  <2>1. Waiting(keyboard') = Waiting(keyboard)
    BY <1>1, <1>3, ConsumedLeaves DEF KeyboardIot
  <2>2. read' = read
    BY <1>3 DEF KeyboardIot, ReadsChar, Consumes
  <2> QED
    BY <2>1, <2>2 DEF Stream!streamVars
<1>4. CASE keyboard.flag /\ Consumes(func)
  <2>1. /\ Waiting(keyboard) # <<>>
        /\ Head(Waiting(keyboard)) = keyboard.buffer
        /\ Waiting(keyboard') = Tail(Waiting(keyboard))
    BY <1>1, <1>4, ConsumedLeaves DEF KeyboardIot
  <2>2. CASE ReadsChar(keyboard, func)
    <3>1. MaskChar(ac') = keyboard.buffer
      BY <1>1, <2>2, ReadsTheBuffer DEF KeyboardIot
    <3>2. read' = Append(read, keyboard.buffer)
      BY <2>2, <3>1 DEF KeyboardIot
    <3> QED
      BY <2>1, <3>2 DEF Stream!StreamNext, Stream!Read
  <2>3. CASE ~ReadsChar(keyboard, func)
    <3>1. read' = read
      BY <2>3 DEF KeyboardIot
    <3> QED
      BY <2>1, <3>1 DEF Stream!StreamNext, Stream!Discard
  <2> QED
    BY <2>2, <2>3
<1> QED
  BY <1>2, <1>3, <1>4

LEMMA ConsoleStepStream ==
  ConsoleInv /\ [ConsoleNext]_consoleVars => [Stream!StreamNext]_(Stream!streamVars)
<1> SUFFICES ASSUME ConsoleInv, [ConsoleNext]_consoleVars
             PROVE  [Stream!StreamNext]_(Stream!streamVars)
  OBVIOUS
<1>1. ASSUME UNCHANGED <<keyboard, read>>
      PROVE  [Stream!StreamNext]_(Stream!streamVars)
  BY <1>1 DEF Stream!streamVars, Waiting
<1>2. ASSUME NEW byte \in HostBytes, QueueInput(byte)
      PROVE  [Stream!StreamNext]_(Stream!streamVars)
  <2>1. /\ Waiting(keyboard)' = Append(Waiting(keyboard), MaskChar(byte))
        /\ MaskChar(byte) \in Chars /\ read' = read
    BY <1>2, QueueInputInv DEF QueueInput
  <2> QED
    BY <2>1 DEF Stream!StreamNext, Stream!Offer
<1>3. CASE UNCHANGED consoleVars
  BY <1>1, <1>3 DEF consoleVars
<1>4. ASSUME NEW func \in Funcs, TeleprinterIot(func)
      PROVE  [Stream!StreamNext]_(Stream!streamVars)
  BY <1>1, <1>4 DEF TeleprinterIot
<1>5. CASE PopOutput
  BY <1>1, <1>5 DEF PopOutput
<1>6. ASSUME NEW word \in GuestWords, LoadAc(word)
      PROVE  [Stream!StreamNext]_(Stream!streamVars)
  BY <1>1, <1>6 DEF LoadAc
<1> QED
  BY <1>2, <1>3, <1>4, <1>5, <1>6, KeyboardIotStream DEF ConsoleNext

\* The console keyboard is a first-in, first-out stream: the guest reads each
\* character typed once and in order, or throws the oldest one away.
THEOREM ConsoleImplementsStream == ConsoleSpec => ImplementsStream
<1>1. ConsoleInit => Stream!StreamInit
  BY DEF ConsoleInit, Waiting, Stream!StreamInit
<1> QED
  BY <1>1, ConsoleInvariant, ConsoleStepStream, PTL
     DEF ConsoleSpec, ImplementsStream, Stream!StreamSpec

-----------------------------------------------------------------------------
(* The watchdog.                                                            *)

(***************************************************************************)
(* What ties the device d to the time its countdown was started and to      *)
(* whether it has rung since.  The first conjunct is what NeverEarly needs; *)
(* the last three say in which states an alarm can come again.              *)
(***************************************************************************)
Countdown(d, start, rung) ==
  /\ d.enabled /\ d.count # 0 => d.expiry = start + Delta(d)
  /\ d.cmd = Disable => ~d.enabled
  /\ d.expired => rung
  /\ rung /\ (~Periodic(d.cmd) \/ LatchesFlag(d.cmd)) => d.expired
  /\ rung /\ ~Periodic(d.cmd) => ~d.enabled
  /\ rung /\ d.count = 0 => d.expired

-----------------------------------------------------------------------------
(* Starting a countdown.                                                    *)

LEMMA DeltaType ==
  ASSUME NEW d \in WatchdogState
  PROVE  /\ Delta(d) \in Nat
         /\ d.count = 0 => Delta(d) = 0
<1>1. d.count \in Nat /\ Decisecond \in Nat
  BY DecisecondAssumption DEF WatchdogState, Counts
<1>2. d.count * Decisecond \in Nat
  BY <1>1
<1> QED
  BY <1>1, <1>2 DEF Delta

\* A freshly written countdown of k units of time.
Started(cmd, count, t, k, old) ==
  [ count |-> count, cmd |-> cmd, enabled |-> cmd # Disable, expired |-> FALSE,
    expiry |-> IF cmd # Disable THEN t + k ELSE old ]

LEMMA StartedCountdown ==
  ASSUME NEW cmd \in Commands, NEW count \in Counts, NEW t \in Nat,
         NEW k \in Nat, k = count * Decisecond, NEW old \in Nat
  PROVE  /\ Started(cmd, count, t, k, old) \in WatchdogState
         /\ Countdown(Started(cmd, count, t, k, old), t, FALSE)
<1>1. Started(cmd, count, t, k, old) \in WatchdogState
  BY DEF Started, WatchdogState
<1>2. Delta(Started(cmd, count, t, k, old)) = k
  BY DEF Started, Delta
<1>3. Countdown(Started(cmd, count, t, k, old), t, FALSE)
  BY <1>2 DEF Started, Countdown
<1> QED
  BY <1>1, <1>3

\* A WRITE starts the countdown of the command and count found in AC.
LEMMA WrittenCountdown ==
  ASSUME NEW d \in WatchdogState, NEW t \in Nat, NEW v \in Word
  PROVE  /\ Written(d, v, t) \in WatchdogState
         /\ Countdown(Written(d, v, t), t, FALSE)
<1>1. PICK cmd \in Commands : cmd = v \div \o1000
  BY DEF Commands, Word
<1>2. PICK count \in Counts : count = v % \o1000
  BY DEF Counts, Word
<1>3. PICK k \in Nat : k = count * Decisecond
  BY DecisecondAssumption DEF Counts
<1>4. PICK old \in Nat : old = d.expiry
  BY DEF WatchdogState
<1>5. Written(d, v, t) = Started(cmd, count, t, k, old)
  BY <1>1, <1>2, <1>3, <1>4 DEF Written, Started
<1> QED
  BY <1>3, <1>5, StartedCountdown

LEMMA RestartedCountdown ==
  ASSUME NEW d \in WatchdogState, NEW t \in Nat
  PROVE  /\ Restarted(d, t) \in WatchdogState
         /\ Countdown(Restarted(d, t), t, FALSE)
<1>1. Delta(d) \in Nat
  BY DeltaType
<1>2. Delta(Restarted(d, t)) = Delta(d)
  BY DEF Restarted, Delta
<1>3. Restarted(d, t) \in WatchdogState
  BY <1>1 DEF Restarted, WatchdogState
<1>4. Countdown(Restarted(d, t), t, FALSE)
  BY <1>2 DEF Restarted, Countdown
<1> QED
  BY <1>3, <1>4

WatchdogInv ==
  /\ WatchdogTypeOK
  /\ armedAt <= now
  /\ Countdown(wd, armedAt, spent)
  /\ NeverEarly
  /\ OneShotRingsOnce
  /\ DisabledIsSilent

-----------------------------------------------------------------------------
(* The tick that ends every step.                                           *)

\* A quiet tick.
LEMMA QuietTick ==
  ASSUME NEW d \in WatchdogState, NEW start \in Nat, NEW rung \in BOOLEAN,
         NEW t \in Nat, start <= t, Countdown(d, start, rung),
         Tick(d, start, rung, t), ~Fires(d, t)
  PROVE  WatchdogInv'
<1>1. /\ wd' = d /\ now' = t /\ armedAt' = start /\ spent' = rung
      /\ alarm' = NoAlarm
  BY DEF Tick, Ticked
<1>2. NoAlarm \in [fired : BOOLEAN, waited : Nat, again : BOOLEAN] /\ ~NoAlarm.fired
  BY DEF NoAlarm
<1>3. Countdown(wd, armedAt, spent)'
  BY <1>1 DEF Countdown, Delta, Periodic, LatchesFlag
<1>4. WatchdogTypeOK'
  BY <1>1, <1>2 DEF WatchdogTypeOK
<1>5. d.cmd = Disable => ~d.enabled
  BY DEF Countdown
<1> QED
  BY <1>1, <1>2, <1>3, <1>4, <1>5
     DEF WatchdogInv, NeverEarly, OneShotRingsOnce, DisabledIsSilent

\* What an alarm finds and what it leaves.
LEMMA AlarmTick ==
  ASSUME NEW d \in WatchdogState, NEW start \in Nat, NEW rung \in BOOLEAN,
         NEW t \in Nat, start <= t, Countdown(d, start, rung),
         Tick(d, start, rung, t), Fires(d, t)
  PROVE  WatchdogInv'
<1> DEFINE e == Ticked(d, t)
           s == IF Periodic(d.cmd) THEN t ELSE start
<1>1. /\ wd' = e /\ now' = t /\ armedAt' = s /\ spent' = TRUE
      /\ alarm' = [fired |-> TRUE, waited |-> t - start, again |-> rung]
  BY DEF Tick
<1>2. Delta(d) \in Nat /\ (d.count = 0 => Delta(d) = 0)
  BY DeltaType
<1>3. d.enabled /\ d.cmd # Disable
  BY DEF Fires, Countdown
<1>4. t - start \in Nat /\ t - start >= Delta(d)
  <2>1. CASE d.count = 0
    BY <2>1, <1>2
  <2>2. CASE d.count # 0
    BY <2>2, <1>2, <1>3 DEF Fires, Countdown
  <2> QED
    BY <2>1, <2>2
<1>5. rung => Periodic(d.cmd) /\ d.count # 0
  BY <1>3 DEF Fires, Countdown
<1>6. /\ e \in WatchdogState
      /\ e.cmd = d.cmd /\ e.count = d.count
      /\ Delta(e) = Delta(d)
      /\ Countdown(e, s, TRUE)
  <2>1. CASE Periodic(d.cmd) /\ d.count # 0
    <3>1. e = Rescheduled(d, t)
      BY <2>1 DEF Ticked
    <3>2. e \in WatchdogState /\ e.cmd = d.cmd /\ e.count = d.count
      BY <1>2, <3>1 DEF Rescheduled, WatchdogState, LatchesFlag
    <3>3. Delta(e) = Delta(d)
      BY <3>2 DEF Delta
    <3>4. Countdown(e, s, TRUE)
      BY <1>3, <2>1, <3>1, <3>3 DEF Rescheduled, Countdown
    <3> QED
      BY <3>2, <3>3, <3>4
  <2>2. CASE ~(Periodic(d.cmd) /\ d.count # 0)
    <3>1. e = Fired(d)
      BY <2>2 DEF Ticked
    <3>2. e \in WatchdogState /\ e.cmd = d.cmd /\ e.count = d.count
      BY <3>1 DEF Fired, WatchdogState, Periodic
    <3>3. Delta(e) = Delta(d)
      BY <3>2 DEF Delta
    <3>4. Countdown(e, s, TRUE)
      BY <1>3, <2>2, <3>1 DEF Fired, Countdown
    <3> QED
      BY <3>2, <3>3, <3>4
  <2> QED
    BY <2>1, <2>2
<1> HIDE DEF e
<1>7. s \in Nat /\ s <= t
  OBVIOUS
<1> HIDE DEF s
<1>8. WatchdogTypeOK'
  BY <1>1, <1>4, <1>6, <1>7 DEF WatchdogTypeOK
<1>9. Countdown(wd, armedAt, spent)'
  BY <1>1, <1>6 DEF Countdown, Delta, Periodic, LatchesFlag
<1>10. (NeverEarly /\ OneShotRingsOnce /\ DisabledIsSilent)'
  <2>1. Delta(wd)' = Delta(d)
    BY <1>1, <1>6 DEF Delta
  <2>2. Periodic(wd.cmd)' <=> Periodic(d.cmd)
    BY <1>1, <1>6 DEF Periodic
  <2> QED
    BY <1>1, <1>3, <1>4, <1>5, <1>6, <2>1, <2>2
       DEF NeverEarly, OneShotRingsOnce, DisabledIsSilent
<1> QED
  BY <1>1, <1>7, <1>8, <1>9, <1>10 DEF WatchdogInv

LEMMA TickPreserves ==
  ASSUME NEW d \in WatchdogState, NEW start \in Nat, NEW rung \in BOOLEAN,
         NEW t \in Nat, start <= t, Countdown(d, start, rung),
         Tick(d, start, rung, t)
  PROVE  WatchdogInv'
  BY QuietTick, AlarmTick

-----------------------------------------------------------------------------
(* The steps.                                                               *)

LEMMA LaterType ==
  ASSUME NEW t \in Nat, NEW u \in Later(t)
  PROVE  u \in Nat /\ t <= u
  BY WatchdogConstantsAssumption DEF Later

LEMMA WatchdogInitEstablishes == WatchdogInit => WatchdogInv
<1> SUFFICES ASSUME WatchdogInit PROVE WatchdogInv
  OBVIOUS
<1>1. NewWatchdog \in WatchdogState
  BY DEF NewWatchdog, WatchdogState, Counts, Commands, Disable
<1>2. WatchdogTypeOK
  BY <1>1 DEF WatchdogInit, WatchdogTypeOK, NoAlarm
<1>3. Countdown(wd, armedAt, spent)
  BY DEF WatchdogInit, Countdown, NewWatchdog
<1>4. NeverEarly /\ OneShotRingsOnce /\ DisabledIsSilent
  BY DEF WatchdogInit, NewWatchdog, NoAlarm, NeverEarly, OneShotRingsOnce,
         DisabledIsSilent
<1> QED
  BY <1>2, <1>3, <1>4 DEF WatchdogInit, WatchdogInv

LEMMA WatchdogNextPreserves ==
  WatchdogInv /\ [WatchdogNext]_wdVars => WatchdogInv'
<1> SUFFICES ASSUME WatchdogInv, [WatchdogNext]_wdVars PROVE WatchdogInv'
  OBVIOUS
<1>1. /\ wd \in WatchdogState /\ now \in Nat /\ armedAt \in Nat
      /\ spent \in BOOLEAN /\ armedAt <= now
      /\ Countdown(wd, armedAt, spent)
  BY DEF WatchdogInv, WatchdogTypeOK
<1>2. ASSUME NEW cmd \in Commands, NEW count \in GuestCounts, Write(cmd, count)
      PROVE  WatchdogInv'
  <2> DEFINE v == cmd * \o1000 + count
  <2>1. v \in Word
    BY WatchdogConstantsAssumption DEF Commands, Counts, Word
  <2>2. PICK t \in Later(now) : \E u \in Later(t) :
          Tick(WatchdogIot(wd, FuncWrite, v, t), t, FALSE, u)
    BY <1>2 DEF Write
  <2> HIDE DEF v
  <2>3. PICK u \in Later(t) :
          Tick(WatchdogIot(wd, FuncWrite, v, t), t, FALSE, u)
    BY <2>2
  <2>4. t \in Nat /\ u \in Nat /\ t <= u
    BY <1>1, LaterType
  <2>5. /\ Written(wd, v, t) \in WatchdogState
        /\ Countdown(Written(wd, v, t), t, FALSE)
    BY <1>1, <2>1, <2>4, WrittenCountdown
  <2>6. WatchdogIot(wd, FuncWrite, v, t) = Written(wd, v, t)
    BY DEF WatchdogIot, FuncWrite, FuncRestart
  <2> QED
    BY <2>3, <2>4, <2>5, <2>6, TickPreserves
<1>3. ASSUME Restart PROVE WatchdogInv'
  <2>1. PICK t \in Later(now) : \E u \in Later(t) :
          Tick(WatchdogIot(wd, FuncRestart, 0, t), t, FALSE, u)
    BY <1>3 DEF Restart
  <2>2. PICK u \in Later(t) :
          Tick(WatchdogIot(wd, FuncRestart, 0, t), t, FALSE, u)
    BY <2>1
  <2>3. t \in Nat /\ u \in Nat /\ t <= u
    BY <1>1, LaterType
  <2>4. /\ Restarted(wd, t) \in WatchdogState
        /\ Countdown(Restarted(wd, t), t, FALSE)
    BY <1>1, <2>3, RestartedCountdown
  <2>5. WatchdogIot(wd, FuncRestart, 0, t) = Restarted(wd, t)
    BY DEF WatchdogIot, FuncWrite, FuncRestart
  <2> QED
    BY <2>2, <2>3, <2>4, <2>5, TickPreserves
<1>4. ASSUME OtherStep PROVE WatchdogInv'
  <2>1. PICK u \in Later(now) : Tick(wd, armedAt, spent, u)
    BY <1>4 DEF OtherStep
  <2>2. u \in Nat /\ armedAt <= u
    BY <1>1, LaterType
  <2> QED
    BY <1>1, <2>1, <2>2, TickPreserves
<1>5. CASE UNCHANGED wdVars
  BY <1>5 DEF wdVars, WatchdogInv, WatchdogTypeOK, Countdown, Delta, Periodic,
              LatchesFlag, NeverEarly, OneShotRingsOnce, DisabledIsSilent
<1> QED
  BY <1>2, <1>3, <1>4, <1>5 DEF WatchdogNext

LEMMA WatchdogInvariance == WatchdogSpec => []WatchdogInv
  BY WatchdogInitEstablishes, WatchdogNextPreserves, PTL DEF WatchdogSpec

\* The watchdog never rings before its count of deciseconds has passed.
THEOREM WatchdogNeverEarly == WatchdogSpec => []NeverEarly
<1>1. WatchdogInv => NeverEarly
  BY DEF WatchdogInv
<1> QED
  BY <1>1, WatchdogInvariance, PTL

\* The flag is never set without an alarm, and keeps it where it should.
THEOREM WatchdogFlagTellsAlarm == WatchdogSpec => []FlagTellsAlarm
<1>1. WatchdogInv => FlagTellsAlarm
  BY DEF WatchdogInv, Countdown, FlagTellsAlarm
<1> QED
  BY <1>1, WatchdogInvariance, PTL

\* Only a periodic command with a count rings again by itself.
THEOREM WatchdogOneShotRingsOnce == WatchdogSpec => []OneShotRingsOnce
<1>1. WatchdogInv => OneShotRingsOnce
  BY DEF WatchdogInv
<1> QED
  BY <1>1, WatchdogInvariance, PTL

\* A disabled watchdog is silent.
THEOREM WatchdogDisabledIsSilent == WatchdogSpec => []DisabledIsSilent
<1>1. WatchdogInv => DisabledIsSilent
  BY DEF WatchdogInv
<1> QED
  BY <1>1, WatchdogInvariance, PTL
=============================================================================
