------------------------------- MODULE HardCopy -------------------------------
(***************************************************************************)
(* What the guest leaves on paper: the line printer on IOT 660x             *)
(* (src/emulator/line_printer.c) and the paper tape punch on IOT 602x       *)
(* (src/emulator/paper_tape_punch.c).  Colours and flushing are left out.   *)
(***************************************************************************)
EXTENDS Pdp8Words, Integers, Sequences, SequencesExt

CONSTANTS
  ColumnSize,      \* values of the column counter: 2^16
  ColumnLimits,    \* column limits the configuration may ask for
  HardCopyAcs,     \* what the guest prints and punches
  MaxPrinted,      \* bound on the characters printed
  MaxPunched,      \* bound on the bytes punched
  MaxOpened        \* bound on the output files opened for the punch

ASSUME HardCopyConstantsAssumption ==
  /\ ColumnSize \in Nat \ {0} /\ ColumnSize % 8 = 0
  /\ ColumnLimits \subseteq Nat \ {0} /\ HardCopyAcs \subseteq Word
  /\ MaxPrinted \in Nat /\ MaxPunched \in Nat /\ MaxOpened \in Nat

VARIABLES
  printer,  \* column limit, column, ready
  paper,    \* history: the limit asked for, the open line, characters printed
  punch,    \* stream, ready, bytes_written, callback
  reels     \* the files of the streams opened so far, what the callback got

hardCopyVars == <<printer, paper, punch, reels>>

Closed == 0

HardCopyInit ==
  \E columns \in ColumnLimits :
    /\ printer = [limit |-> columns % ColumnSize, column |-> 0, ready |-> TRUE]
    /\ paper = [limit |-> columns, carriage |-> 0, ink |-> 0, count |-> 0]
    /\ punch = [stream |-> Closed, ready |-> TRUE, written |-> 0, callback |-> FALSE]
    /\ reels = [files |-> <<>>, heard |-> <<>>]

-----------------------------------------------------------------------------
(* The line printer.                                                        *)

\* What becomes of the open line: the carriage, the last column with ink.
Inked(line) ==
  [line EXCEPT !.carriage = @ + 1, !.ink = Max({@, line.carriage + 1})]

Spaced(line, spaces) == [line EXCEPT !.carriage = @ + spaces]

NewLine(line) == [line EXCEPT !.carriage = 0, !.ink = 0]

TabWidth(p) == 8 - (p.column % 8)

\* Mutant of Moved: the counter does not wrap around.
MovedWide(p, columns) == [p EXCEPT !.column = @ + columns]

Moved(p, columns) == [p EXCEPT !.column = (@ + columns) % ColumnSize]

\* Mutant of AtMargin: the line is one column longer.
AtMarginLate(p) == p.limit > 0 /\ p.column > p.limit

\* A limit of zero is none.
AtMargin(p) == p.limit > 0 /\ p.column >= p.limit

\* line_printer_emit.  Carriage return does not feed the paper; a tab stops at
\* no margin; other control characters print as question marks.
Emit(ch) ==
  CASE ch = 13 ->
         /\ printer' = [printer EXCEPT !.column = 0, !.ready = TRUE]
         /\ paper' = [paper EXCEPT !.carriage = 0, !.count = @ + 1]
    [] ch \in {10, 12} ->
         /\ printer' = [printer EXCEPT !.column = 0, !.ready = TRUE]
         /\ paper' = [NewLine(paper) EXCEPT !.count = @ + 1]
    [] ch = 9 ->
         /\ printer' = [Moved(printer, TabWidth(printer)) EXCEPT !.ready = TRUE]
         /\ paper' = [Spaced(paper, TabWidth(printer)) EXCEPT !.count = @ + 1]
    [] OTHER ->
         IF AtMargin(Moved(printer, 1))
           THEN /\ printer' = [printer EXCEPT !.column = 0, !.ready = TRUE]
                /\ paper' = [NewLine(paper) EXCEPT !.count = @ + 1]
           ELSE /\ printer' = [Moved(printer, 1) EXCEPT !.ready = TRUE]
                /\ paper' = [Inked(paper) EXCEPT !.count = @ + 1]

\* line_printer_iot without PRINT; a skip reads ready and changes nothing here.
ClearPrinter ==
  /\ printer' = [printer EXCEPT !.ready = FALSE]
  /\ UNCHANGED <<paper, punch, reels>>

\* With PRINT, whatever else: seven bits of AC.
PrintCharacter(ac) ==
  /\ paper.count < MaxPrinted
  /\ Emit(ac % 128)
  /\ UNCHANGED <<punch, reels>>

-----------------------------------------------------------------------------
(* The punch.                                                               *)

ClearPunch ==
  /\ punch' = [punch EXCEPT !.ready = FALSE]
  /\ UNCHANGED <<printer, paper, reels>>

\* Eight bits of AC, to the stream and to the callback, whichever there is.
Punch(ac) ==
  /\ punch.written < MaxPunched
  /\ punch' = [punch EXCEPT !.written = @ + 1, !.ready = TRUE]
  /\ reels' =
       [reels EXCEPT
          !.files = IF punch.stream = Closed THEN @
                    ELSE [@ EXCEPT ![punch.stream] = Append(reels.files[punch.stream], ac % 256)],
          !.heard = IF punch.callback THEN Append(@, ac % 256) ELSE @]
  /\ UNCHANGED <<printer, paper>>

\* pdp8_paper_tape_punch_set_output_path: the old stream is closed before the
\* new file is opened, and emptied; a path that cannot be opened, like no path,
\* leaves no stream.
SetOutputPath ==
  /\ Len(reels.files) < MaxOpened
  /\ \/ /\ punch' = [punch EXCEPT !.stream = Len(reels.files) + 1]
        /\ reels' = [reels EXCEPT !.files = Append(@, <<>>)]
     \/ /\ punch' = [punch EXCEPT !.stream = Closed]
        /\ UNCHANGED reels
  /\ UNCHANGED <<printer, paper>>

SetCallback(on) ==
  /\ punch' = [punch EXCEPT !.callback = on]
  /\ UNCHANGED <<printer, paper, reels>>

-----------------------------------------------------------------------------
HardCopyNext ==
  \/ ClearPrinter
  \/ \E ac \in HardCopyAcs : PrintCharacter(ac)
  \/ ClearPunch
  \/ \E ac \in HardCopyAcs : Punch(ac)
  \/ SetOutputPath
  \/ \E on \in BOOLEAN : SetCallback(on)

HardCopySpec == HardCopyInit /\ [][HardCopyNext]_hardCopyVars

-----------------------------------------------------------------------------
HardCopyTypeOK ==
  /\ printer \in [limit : 0 .. ColumnSize - 1, column : 0 .. ColumnSize - 1, ready : BOOLEAN]
  /\ paper.carriage \in Nat /\ paper.ink \in Nat
  /\ punch.stream \in 0 .. Len(reels.files)

\* Whatever is printed, no line that is still open has ink at or past the limit
\* the configuration asked for (README.md:51), though tabs carry it across; the
\* exceptions are a limit that does not fit the counter (monitor.c:1759) and a
\* line on which the counter has wrapped around.
InkInsideMargin ==
  /\ printer.column = paper.carriage % ColumnSize
  /\ paper.limit < ColumnSize =>
       paper.ink < paper.limit \/ paper.ink > ColumnSize
=============================================================================
