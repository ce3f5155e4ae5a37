---------------------------- MODULE Kl8eConsole ----------------------------
(***************************************************************************)
(* The console terminal of src/emulator/kl8e_console.c: keyboard (device    *)
(* 03) and teleprinter (device 04), between a guest that may execute any    *)
(* of their IOT functions at any time and a host that queues keystrokes and *)
(* collects output between two processor steps.                             *)
(*                                                                          *)
(* Keystrokes wait in a one-character buffer with a flag and, behind it, in *)
(* a queue.  A keystroke refused because the queue cannot grow leaves the   *)
(* console as it was, so that failure is a stuttering step here.            *)
(***************************************************************************)
EXTENDS Pdp8Words, Sequences

CONSTANTS
  HostBytes,   \* bytes the host queues
  GuestWords,  \* words the guest loads into AC
  MaxWaiting,  \* bound on the keystrokes waiting
  MaxRead,     \* bound on the characters the guest reads
  MaxPrinted   \* bound on the characters the guest prints

ASSUME ConsoleConstantsAssumption ==
  /\ HostBytes \subseteq 0 .. 255
  /\ GuestWords \subseteq Word
  /\ MaxWaiting \in Nat /\ MaxRead \in Nat /\ MaxPrinted \in Nat

VARIABLES
  keyboard,     \* keyboard_buffer, keyboard_flag and pending_input
  teleprinter,  \* teleprinter_flag and output_log
  ac,           \* the guest's accumulator
  printed,      \* history: what the output stream received
  popped,       \* history: what the host took from output_log
  read,         \* history: what the guest has read
  ready         \* history: has a keyboard skip promised a character since the
                \* last one was consumed?

consoleVars == <<keyboard, teleprinter, ac, printed, popped, read, ready>>

Chars == 0 .. 127

Funcs == 0 .. 7

\* Mutant of MaskChar: eight bits are kept.
MaskCharWide(value) == value % 256

\* value & PDP8_KL8E_ASCII_MASK
MaskChar(value) == value % 128

KeyboardState == [flag : BOOLEAN, buffer : Chars, pending : Seq(Chars)]

TeleprinterState == [flag : BOOLEAN, log : Seq(Chars)]

ConsoleInit ==
  /\ keyboard = [flag |-> FALSE, buffer |-> 0, pending |-> <<>>]
  /\ teleprinter = [flag |-> TRUE, log |-> <<>>]
  /\ ac = 0
  /\ printed = <<>> /\ popped = <<>> /\ read = <<>>
  /\ ready = FALSE

-----------------------------------------------------------------------------
(* The keyboard.  Function bits: 1 skip, 2 clear, 4 read; 0 is KCF.         *)

\* Mutant of Queued: a keystroke replaces the one in the buffer.
QueuedOverwrites(k, byte) ==
  [flag |-> TRUE, buffer |-> MaskChar(byte), pending |-> k.pending]

\* pdp8_kl8e_console_queue_input
Queued(k, byte) ==
  [ flag    |-> TRUE,
    buffer  |-> IF k.flag THEN k.buffer ELSE MaskChar(byte),
    pending |-> IF k.flag THEN Append(k.pending, MaskChar(byte)) ELSE k.pending ]

\* Mutant of Consumed: the next pending character is not promoted.
ConsumedNoPromotion(k) == [flag |-> FALSE, buffer |-> 0, pending |-> k.pending]

\* keyboard_consume_current, and the promotion of the next pending character
Consumed(k) ==
  IF k.pending = <<>>
    THEN [flag |-> FALSE, buffer |-> 0, pending |-> <<>>]
    ELSE [flag |-> TRUE, buffer |-> Head(k.pending), pending |-> Tail(k.pending)]

Consumes(func) == func = 0 \/ Has(func, 2)

KeyboardSkips(k, func) == Has(func, 1) /\ k.flag

\* Clearing AC precedes the read, so KRB loads what KRS alone would merge in.
KeyboardAc(k, func, word) ==
  LET cleared == IF Has(func, 2) THEN 0 ELSE word
  IN  IF Has(func, 4) /\ k.flag THEN Or(cleared, k.buffer) ELSE cleared

\* The guest has read a character once it holds it in AC and has released it.
ReadsChar(k, func) == Has(func, 2) /\ Has(func, 4) /\ k.flag

-----------------------------------------------------------------------------
(* Actions.                                                                 *)

QueueInput(byte) ==
  /\ Len(keyboard.pending) < MaxWaiting
  /\ keyboard' = Queued(keyboard, byte)
  /\ UNCHANGED <<teleprinter, ac, printed, popped, read, ready>>

\* Mutant of KeyboardIot: KRS, which only reads, releases the character too.
KeyboardIotReadReleases(func) ==
  /\ ReadsChar(keyboard, func) => Len(read) < MaxRead
  /\ keyboard' = IF Consumes(func) \/ Has(func, 4) THEN Consumed(keyboard)
                                                  ELSE keyboard
  /\ ac' = KeyboardAc(keyboard, func, ac)
  /\ read' = IF ReadsChar(keyboard, func) THEN Append(read, MaskChar(ac'))
                                          ELSE read
  /\ ready' = (~Consumes(func) /\ (ready \/ KeyboardSkips(keyboard, func)))
  /\ UNCHANGED <<teleprinter, printed, popped>>

KeyboardIot(func) ==
  /\ ReadsChar(keyboard, func) => Len(read) < MaxRead
  /\ keyboard' = IF Consumes(func) THEN Consumed(keyboard) ELSE keyboard
  /\ ac' = KeyboardAc(keyboard, func, ac)
  /\ read' = IF ReadsChar(keyboard, func) THEN Append(read, MaskChar(ac'))
                                          ELSE read
  /\ ready' = (~Consumes(func) /\ (ready \/ KeyboardSkips(keyboard, func)))
  /\ UNCHANGED <<teleprinter, printed, popped>>

\* Function bits: 2 clears the flag, 4 prints, which sets it again; 1 skips on the
\* flag, which changes nothing here.
TeleprinterIot(func) ==
  /\ Has(func, 4) => Len(printed) < MaxPrinted
  /\ IF Has(func, 4)
       THEN /\ teleprinter' = [flag |-> TRUE,
                               log  |-> Append(teleprinter.log, MaskChar(ac))]
            /\ printed' = Append(printed, MaskChar(ac))
       ELSE /\ teleprinter' = [flag |-> teleprinter.flag /\ ~Has(func, 2),
                               log  |-> teleprinter.log]
            /\ UNCHANGED printed
  /\ UNCHANGED <<keyboard, ac, popped, read, ready>>

\* Mutant of PopOutput: the newest character is taken, not the oldest.
PopOutputNewest ==
  LET log == teleprinter.log IN
  /\ log # <<>>
  /\ popped' = Append(popped, log[Len(log)])
  /\ teleprinter' = [teleprinter EXCEPT !.log = SubSeq(log, 1, Len(log) - 1)]
  /\ UNCHANGED <<keyboard, ac, printed, read, ready>>

PopOutput ==
  /\ teleprinter.log # <<>>
  /\ popped' = Append(popped, Head(teleprinter.log))
  /\ teleprinter' = [teleprinter EXCEPT !.log = Tail(@)]
  /\ UNCHANGED <<keyboard, ac, printed, read, ready>>

\* any other instruction of the guest that changes AC
LoadAc(word) ==
  /\ ac' = word
  /\ UNCHANGED <<keyboard, teleprinter, printed, popped, read, ready>>

ConsoleNext ==
  \/ \E byte \in HostBytes : QueueInput(byte)
  \/ \E func \in Funcs : KeyboardIot(func) \/ TeleprinterIot(func)
  \/ PopOutput
  \/ \E word \in GuestWords : LoadAc(word)

ConsoleSpec == ConsoleInit /\ [][ConsoleNext]_consoleVars

-----------------------------------------------------------------------------
ConsoleTypeOK ==
  /\ keyboard \in KeyboardState
  /\ teleprinter \in TeleprinterState
  /\ ac \in Word
  /\ printed \in Seq(Chars) /\ popped \in Seq(Chars) /\ read \in Seq(Chars)
  /\ ready \in BOOLEAN

\* No keystroke is stranded behind a clear flag, where no skip would ever tell
\* the guest of it; and a clear flag leaves no stale character in the buffer.
NothingStranded ==
  ~keyboard.flag => keyboard.pending = <<>> /\ keyboard.buffer = 0

\* A keyboard skip is a promise: until the guest consumes the character, the
\* flag stays set, whatever the host types and the guest does in between.
SkipIsAPromise == ready => keyboard.flag

\* The host takes from the output log exactly what the output stream received,
\* in order, and what it has not taken yet is still there.
OutputLogFollowsStream == printed = popped \o teleprinter.log

\* Buffer and queue together behave as one line of characters, read in order.
Waiting(k) == IF k.flag THEN <<k.buffer>> \o k.pending ELSE <<>>

Stream == INSTANCE CharacterStream WITH waiting <- Waiting(keyboard)

ImplementsStream == Stream!StreamSpec
=============================================================================
