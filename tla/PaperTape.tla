------------------------------ MODULE PaperTape ------------------------------
(***************************************************************************)
(* Paper tape images (src/emulator/paper_tape.c) and the reader on IOT 667x *)
(* that mounts them (src/emulator/paper_tape_device.c).                     *)
(*                                                                          *)
(* A line names a block and gives its words, as binary digits in groups or  *)
(* as octal character codes; the loader finds out which by trying.  A text  *)
(* is a sequence of tokens, a token a sequence of digits, where 8 stands    *)
(* for every character that is no octal digit.  Comments, blanks between    *)
(* the parts of a line and failures of allocation are left out.             *)
(***************************************************************************)
EXTENDS Pdp8Words, Integers, Sequences, SequencesExt

CONSTANTS
  TapeLines,     \* lines a tape image may consist of
  MaxTapeLines,  \* bound on its lines
  MaxHalfwords,  \* PDP8_PAPER_TAPE_MAX_HALFWORDS: 64
  TapeAcs        \* what the guest has in AC

TapeToken == Seq(0 .. 8)

TapeLine ==
  [ header : {"blank", "good", "bad"},  \* nothing; label, block and colon; else
    label : STRING, block : 0 .. 511, text : Seq(TapeToken) ]

ASSUME PaperTapeConstantsAssumption ==
  /\ TapeLines \subseteq TapeLine
  /\ \A line \in TapeLines : \A i \in DOMAIN line.text : line.text[i] # <<>>
  /\ MaxTapeLines \in Nat /\ MaxHalfwords \in Nat \ {0}
  /\ TapeAcs \subseteq Word

VARIABLES
  load,     \* the image that is being read, and (history) its lines
  reader,   \* the device: image, block, index, ready; (history) the image's lines
  acc,      \* AC of the processor, and whether it is to skip
  heard     \* history: block selected last, words read from it since

tapeVars == <<load, reader, acc, heard>>

NoImage == [label |-> "none", blocks |-> <<>>]

NoBlock == 0

NewLoad == [image |-> NoImage, status |-> "reading", lines |-> <<>>]

TapeInit ==
  /\ load = NewLoad
  /\ reader = [ image |-> NoImage, current |-> NoBlock, index |-> 0,
                ready |-> FALSE, lines |-> <<>> ]
  /\ acc \in [value : TapeAcs, skip : {FALSE}]
  /\ heard = [block |-> -1, words |-> <<>>]

-----------------------------------------------------------------------------
(* The two notations.                                                       *)

NumberIn(digits, base) ==
  LET number[n \in 0 .. Len(digits)] ==
        IF n = 0 THEN 0 ELSE number[n - 1] * base + digits[n]
  IN  number[Len(digits)]

Bits(text) == FlattenSeq(text)

\* parse_bits is tried first, and looks at the digits, not at their groups.
\* Two halfwords make a word.
IsBits(text) ==
  /\ Bits(text) # <<>> /\ Range(Bits(text)) \subseteq {0, 1}
  /\ Len(Bits(text)) % 12 = 0 /\ Len(Bits(text)) <= 6 * MaxHalfwords

BitWords(text) ==
  [w \in 1 .. Len(Bits(text)) \div 12 |->
     NumberIn(SubSeq(Bits(text), 12 * w - 11, 12 * w), 2)]

\* What is longer than three digits is cut, not refused.
Cut(token) == SubSeq(token, 1, Min({3, Len(token)}))

EndOfTape == <<7, 7, 7>>

Markers(text) == {i \in DOMAIN text : Cut(text[i]) = EndOfTape}

\* The tokens in front of the end-of-tape marker, which itself becomes no word.
Codes(text) ==
  IF Markers(text) = {} THEN text ELSE SubSeq(text, 1, Min(Markers(text)) - 1)

CodeWords(text) == [i \in DOMAIN Codes(text) |-> NumberIn(Cut(Codes(text)[i]), 8)]

IsCodes(text) ==
  /\ \A i \in DOMAIN Codes(text) : 8 \notin Range(Cut(Codes(text)[i]))
  /\ Codes(text) # <<>>
  /\ Len(Codes(text)) <= MaxHalfwords
  /\ \A i \in DOMAIN Codes(text) : CodeWords(text)[i] <= 255

\* A line with nothing in front of the marker only ends the tape.
OnlyMarker(text) == Codes(text) = <<>> /\ Markers(text) # {}

-----------------------------------------------------------------------------
(* pdp8_paper_tape_load, line by line.                                      *)

Failed(l) == [l EXCEPT !.status = "failed"]

\* One label for the tape, one line for a block.
AddBlock(l, line, words, ends) ==
  IF \/ l.image.label \notin {"none", line.label}
     \/ \E i \in DOMAIN l.image.blocks : l.image.blocks[i].block = line.block
    THEN Failed(l)
    ELSE [l EXCEPT !.image = [label |-> line.label,
                              blocks |-> Append(@.blocks, [block |-> line.block, words |-> words])],
                   !.status = IF ends THEN "ended" ELSE "reading"]

AfterTapeLine(l, line) ==
  CASE l.status # "reading" \/ line.header = "blank" -> l
    [] l.status = "reading" /\ line.header = "bad"   -> Failed(l)
    [] OTHER ->
         CASE IsBits(line.text) -> AddBlock(l, line, BitWords(line.text), FALSE)
           [] ~IsBits(line.text) /\ OnlyMarker(line.text) ->
                [l EXCEPT !.status = "ended"]
           [] ~IsBits(line.text) /\ IsCodes(line.text) ->
                AddBlock(l, line, CodeWords(line.text), Markers(line.text) # {})
           [] OTHER -> Failed(l)

ReadTapeLine(line) ==
  /\ Len(load.lines) < MaxTapeLines
  /\ load' = [AfterTapeLine(load, line) EXCEPT !.lines = Append(@, line)]
  /\ UNCHANGED <<reader, acc, heard>>

\* pdp8_paper_tape_device_load: a tape without a block, like one that failed,
\* leaves the old tape where it is.
MountTape ==
  /\ load.lines # <<>>
  /\ load' = NewLoad
  /\ IF load.status # "failed" /\ load.image.blocks # <<>>
       THEN /\ reader' = [ image |-> load.image, current |-> NoBlock, index |-> 0,
                           ready |-> FALSE, lines |-> load.lines ]
            /\ heard' = [block |-> -1, words |-> <<>>]
       ELSE UNCHANGED <<reader, heard>>
  /\ UNCHANGED acc

-----------------------------------------------------------------------------
(* The reader.                                                              *)

\* pdp8_paper_tape_find.
Find(image, block) ==
  LET there == {i \in DOMAIN image.blocks : image.blocks[i].block = block}
  IN  IF there = {} THEN NoBlock ELSE Min(there)

BlockWords(d) == d.image.blocks[d.current].words

Select(d, block) ==
  LET found == Find(d.image, block)
  IN  [d EXCEPT !.current = found, !.index = 0,
                !.ready = found # NoBlock /\ d.image.blocks[found].words # <<>>]

HasWord(d) == d.current # NoBlock /\ d.index < Len(BlockWords(d))

\* Mutant of Advance: ready is found before the index moves.
AdvanceReady(d) == [d EXCEPT !.index = @ + 1, !.ready = HasWord(d)]

Advance(d) ==
  [d EXCEPT !.index = @ + 1, !.ready = d.index + 1 < Len(BlockWords(d))]

\* paper_tape_device_iot: skip, select and read, in this order; a selection that
\* finds no block ends the instruction.
ReaderIot(skip, select, read) ==
  /\ load.lines = <<>>
  /\ LET chosen == IF select THEN Select(reader, acc.value) ELSE reader
         reads == read /\ (select => chosen.current # NoBlock)
         told == IF select THEN [block |-> acc.value, words |-> <<>>] ELSE heard
     IN  CASE reads /\ HasWord(chosen) ->
                LET word == BlockWords(chosen)[chosen.index + 1]
                IN  /\ reader' = Advance(chosen)
                    /\ acc' = [value |-> word, skip |-> skip /\ reader.ready]
                    /\ heard' = [told EXCEPT !.words = Append(@, word)]
           [] reads /\ ~HasWord(chosen) ->
                /\ reader' = [chosen EXCEPT !.ready = FALSE]
                /\ acc' = [acc EXCEPT !.skip = skip /\ reader.ready]
                /\ heard' = told
           [] OTHER ->
                /\ reader' = chosen
                /\ acc' = [acc EXCEPT !.skip = skip /\ reader.ready]
                /\ heard' = told
  /\ UNCHANGED load

\* What the guest computes between two instructions of the reader.
SetAc ==
  /\ load.lines = <<>>
  /\ acc' \in [value : TapeAcs, skip : {FALSE}]
  /\ UNCHANGED <<load, reader, heard>>

TapeNext ==
  \/ \E line \in TapeLines : ReadTapeLine(line)
  \/ MountTape
  \/ \E skip, select, read \in BOOLEAN : ReaderIot(skip, select, read)
  \/ SetAc

TapeSpec == TapeInit /\ [][TapeNext]_tapeVars

-----------------------------------------------------------------------------
TapeTypeOK ==
  /\ load.status \in {"reading", "ended", "failed"}
  /\ \A i \in DOMAIN reader.image.blocks :
       reader.image.blocks[i].words \in Seq(Word)
  /\ reader.current \in 0 .. Len(reader.image.blocks)
  /\ reader.current # NoBlock => reader.index \in 0 .. Len(BlockWords(reader))
  /\ reader.ready \in BOOLEAN /\ acc.value \in Word /\ acc.skip \in BOOLEAN

\* Groups of at most three digits are octal codes, longer ones are bits.
MeantAsCodes(text) == \A i \in DOMAIN Codes(text) : Len(Codes(text)[i]) <= 3

\* The words of a line, the end-of-tape marker not among them.
Spells(text) == IF MeantAsCodes(text) THEN CodeWords(text) ELSE BitWords(text)

\* One notation or the other.  Codes of zeros and ones only, in fours, are both,
\* and longer groups of octal digits, which are cut to three, are neither.
Unambiguous(text) == MeantAsCodes(text) # IsBits(text)

Ends(line) == line.header = "good" /\ Markers(line.text) # {}

\* The lines of the mounted tape that name a block, up to the end of the tape.
LinesOf(block) ==
  {i \in DOMAIN reader.lines :
     /\ reader.lines[i].header = "good" /\ reader.lines[i].block = block
     /\ ~OnlyMarker(reader.lines[i].text)
     /\ \A j \in 1 .. i - 1 : ~Ends(reader.lines[j])}

\* What the guest reads after a selection is the text of the one line of the
\* mounted tape that names the block, word by word, up to the end-of-tape marker
\* if there is one, and the reader is ready exactly while more of it is left; no
\* tape that was refused, and no tape mounted earlier, shows through
\* (paper_tape_device.c:26, paper_tape.c:138).  The marker ends the tape and is
\* not read: that is what the loader does, and not what the document says, for
\* which see MarkerIsRead.  Left out are the lines whose notation is in doubt.
ReadsTheTape ==
  LET lines == LinesOf(heard.block)
  IN  IF lines = {}
        THEN heard.words = <<>> /\ ~reader.ready
        ELSE \A i \in lines :
               Unambiguous(reader.lines[i].text) =>
                 /\ lines = {i}
                 /\ IsPrefix(heard.words, Spells(reader.lines[i].text))
                 /\ reader.ready <=> heard.words # Spells(reader.lines[i].text)

\* docs/ascii-papertape.md:11 and 69: "Tapes end with 777 (end-of-tape marker) as
\* the final word", and a program that reads one is to "check for end-of-tape
\* marker (777) to terminate reading".  So who has read a line with the marker to
\* its end has read the marker.
MarkerIsRead ==
  \A i \in LinesOf(heard.block) :
    LET text == reader.lines[i].text
    IN  Unambiguous(text) /\ Markers(text) # {} /\ heard.words # <<>> /\ ~reader.ready
          => Last(heard.words) = NumberIn(EndOfTape, 8)
=============================================================================
