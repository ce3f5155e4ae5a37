------------------------------ MODULE Magtape ------------------------------
(***************************************************************************)
(* The magnetic tape controller of src/emulator/magtape_device.c (devices   *)
(* 070-077), its units, and the directories of the host behind them.        *)
(*                                                                          *)
(* A unit reads the records it found when it last scanned its directory.    *)
(* Words written go to a new file, whose header and end mark are put in     *)
(* place only when the file is closed.  A drive is one unit and one         *)
(* directory; the drives' state and the two effects an IOT has on the       *)
(* processor, AC and the skip, make up the record mt.                       *)
(*                                                                          *)
(* Failures of allocation and of single writes are left out.                *)
(***************************************************************************)
EXTENDS Pdp8Words, Ordering, Integers, Sequences, SequencesExt

CONSTANTS
  Units,        \* numbers of the configured units
  Protected,    \* those that are write-protected
  LengthField,  \* lengths a record header can declare: 4096
  BufferWords,  \* words that fit into the buffer of a stream
  Microcodes,   \* the microcodes the guest executes
  GuestWords,   \* words the guest loads and writes
  HostFiles,    \* pairs of a unit and a file the host drops into its directory
  MaxFiles,     \* bound on the files of a directory
  MaxPending,   \* bound on the words of a record being written
  MaxTime       \* bound on the clock of the file system

ASSUME MagtapeConstantsAssumption ==
  /\ 0 \in Units /\ Units \subseteq 0 .. 7
  /\ Protected \subseteq Units
  /\ LengthField \in Nat \ {0} /\ BufferWords \in Nat \ {0}
  /\ Microcodes \subseteq 0 .. 63
  /\ GuestWords \subseteq Word
  /\ MaxFiles \in Nat /\ MaxPending \in Nat /\ MaxTime \in Nat

VARIABLES
  mt,   \* struct pdp8_magtape_device, its files, and the processor's AC and skip
  now   \* the clock of the file system, in whole seconds

magtapeVars == <<mt, now>>

-----------------------------------------------------------------------------
(* Files.  A .tap file has a header that declares a number of words, a body *)
(* and, when sealed, an end mark.  A .srec file is an image of memory: each *)
(* word is there, half there, or missing.                                   *)

Half == \o10000

Gap == \o10001

\* meant is history: the words the file was to hold.
File ==
  [ index : Nat, format : {"tap", "srec"}, mtime : Nat, declared : Nat,
    body : Seq(Word \cup {Half, Gap}), sealed : BOOLEAN, meant : Seq(Word) ]

WholeWords(f) ==
  FlattenSeq([i \in DOMAIN f.body |-> IF f.body[i] < Half THEN <<f.body[i]>> ELSE <<>>])

\* A .srec file without a whole word fails to load.
Loadable(f) == f.format = "tap" \/ WholeWords(f) # <<>>

Record ==
  [ index : Nat, format : {"tap", "srec"}, words : Seq(Word), partial : BOOLEAN,
    meant : Seq(Word) ]

\* Mutant of TapRecord: the end mark is not looked for.
TapRecordUnchecked(f) ==
  [ index   |-> f.index, format |-> f.format,
    words   |-> SubSeq(f.body, 1, IF f.declared < Len(f.body) THEN f.declared
                                                              ELSE Len(f.body)),
    partial |-> Len(f.body) < f.declared,
    meant   |-> f.meant ]

\* The header is believed; what does not agree with it is partial.
TapRecord(f) ==
  [ index   |-> f.index, format |-> f.format,
    words   |-> SubSeq(f.body, 1, IF f.declared < Len(f.body) THEN f.declared
                                                              ELSE Len(f.body)),
    partial |-> ~(f.sealed /\ f.declared = Len(f.body)),
    meant   |-> f.meant ]

SrecRecord(f) ==
  [ index   |-> f.index, format |-> f.format,
    words   |-> WholeWords(f),
    partial |-> \E i \in DOMAIN f.body : f.body[i] = Half,
    meant   |-> f.meant ]

RecordOf(f) == IF f.format = "tap" THEN TapRecord(f) ELSE SrecRecord(f)

WholeTape(f) == f.format = "tap" => f.body \in Seq(Word)

\* A file of the host was to hold what it does hold.
ASSUME HostFilesAssumption ==
  /\ HostFiles \subseteq Units \X File
  /\ \A drop \in HostFiles :
       WholeTape(drop[2]) /\ drop[2].meant = RecordOf(drop[2]).words

\* Mutant of Before: the newest comes first.
BeforeNewest(f, g) ==
  f.mtime > g.mtime \/ (f.mtime = g.mtime /\ f.index < g.index)

\* By time of modification, then by name: 0001.srec, 0001.tap, 0002.tap.
Before(f, g) ==
  \/ f.mtime < g.mtime
  \/ /\ f.mtime = g.mtime
     /\ \/ f.index < g.index
        \/ f.index = g.index /\ f.format = "srec" /\ g.format = "tap"

LoadedRecords(files) ==
  LET order == InOrder(files, {p \in files \X files : Before(p[1], p[2])})
  IN  [i \in DOMAIN order |-> RecordOf(order[i])]

\* One past the highest octal name of a .tap file.
NextIndex(files) ==
  LET names == {f.index : f \in {g \in files : g.format = "tap"}}
  IN  IF names = {} THEN 0 ELSE Max(names) + 1

NewFile(files, t) ==
  [ index |-> NextIndex(files), format |-> "tap", mtime |-> t, declared |-> 0,
    body |-> <<>>, sealed |-> FALSE, meant |-> <<>> ]

-----------------------------------------------------------------------------
(* One drive.                                                               *)

NoStream == -1

\* stream is the index of the file being written, written what the stream has
\* taken.  History: heard are the words read since the last scan, skipped tells
\* whether the operator has left words behind, accepted are the words the guest
\* has written to the stream with no error, made the indices of the files this
\* unit closed, oldest first.
Drive ==
  [ files : SUBSET File,
    records : Seq(Record), current : Nat, position : Nat,
    ready : BOOLEAN, error : BOOLEAN, endOfRecord : BOOLEAN, endOfTape : BOOLEAN,
    stream : Int, written : Seq(Word),
    heard : Seq(Word), skipped : BOOLEAN, accepted : Seq(Word), made : Seq(Nat) ]

\* Mutant of Cleared: the unit stays at its record.
ClearedInPlace(d) ==
  [d EXCEPT !.records = <<>>, !.position = 0, !.ready = FALSE, !.error = FALSE,
            !.endOfRecord = FALSE, !.endOfTape = FALSE,
            !.heard = <<>>, !.skipped = FALSE]

\* clear_unit_records and reset_unit_runtime
Cleared(d) ==
  [d EXCEPT !.records = <<>>, !.current = 0, !.position = 0,
            !.ready = FALSE, !.error = FALSE,
            !.endOfRecord = FALSE, !.endOfTape = FALSE,
            !.heard = <<>>, !.skipped = FALSE]

\* The scan of the directory, which opens or not.  The error of a directory that
\* does not open is cleared with the records; one file that does not load fails
\* the unit.
Reloaded(d, opens) ==
  IF ~opens THEN Cleared(d)
  ELSE IF \E f \in d.files : ~Loadable(f) THEN [Cleared(d) EXCEPT !.error = TRUE]
  ELSE LET loaded == LoadedRecords(d.files)
       IN  [Cleared(d) EXCEPT !.records = loaded,
                              !.ready = loaded # <<>> /\ loaded[1].words # <<>>,
                              !.endOfTape = loaded = <<>>]

IsOpenFile(d, f) == f.format = "tap" /\ f.index = d.stream

\* The open file with its end mark and its length, twelve bits of it.
SealedFile(d, f, t) ==
  [f EXCEPT !.body = d.written, !.declared = Len(d.written) % LengthField,
            !.sealed = TRUE, !.mtime = t, !.meant = d.accepted]

Closed(d, t) ==
  IF d.stream = NoStream THEN d
  ELSE [d EXCEPT !.files = {IF IsOpenFile(d, f) THEN SealedFile(d, f, t) ELSE f : f \in @},
                 !.stream = NoStream, !.written = <<>>, !.accepted = <<>>,
                 !.made = Append(@, d.stream)]

\* close_write_stream with refresh_manifest
ClosedAndReloaded(d, t, opens) ==
  IF d.stream = NoStream THEN d ELSE Reloaded(Closed(d, t), opens)

Rewound(d, t, opens) == Reloaded(ClosedAndReloaded(d, t, opens), opens)

\* Mutant of Opened: without O_EXCL, on the first name whether taken or not.
OpenedOverwriting(d, t) ==
  LET kept == {f \in d.files : f.format # "tap" \/ f.index # 0}
  IN  IF d.stream # NoStream THEN d
      ELSE [d EXCEPT !.files = kept \cup {NewFile({}, t)}, !.stream = 0,
                     !.written = <<>>]

\* ensure_write_stream, of a directory that opens
Opened(d, t) ==
  IF d.stream # NoStream THEN d
  ELSE [d EXCEPT !.files = @ \cup {NewFile(@, t)}, !.stream = NextIndex(d.files),
                 !.written = <<>>]

CurrentWords(d) == d.records[d.current + 1].words

IsLast(d) == d.current + 1 >= Len(d.records)

Exhausted(d) == d.position >= Len(CurrentWords(d))

\* Mutant of ToNextRecord: the end of record is not forgotten.
ToNextRecordStillAtEnd(d) == [d EXCEPT !.current = @ + 1, !.position = 0]

ToNextRecord(d) ==
  [d EXCEPT !.current = @ + 1, !.position = 0, !.endOfRecord = FALSE]

\* Mutant of Selected: the unit advances from anywhere in its record.
SelectedAlways(d) ==
  LET e == IF ~IsLast(d) THEN [ToNextRecord(d) EXCEPT !.endOfTape = FALSE] ELSE d
  IN  IF d.records = <<>>
      THEN [e EXCEPT !.error = FALSE, !.ready = FALSE, !.endOfTape = TRUE]
      ELSE [e EXCEPT !.error = FALSE, !.ready = CurrentWords(e) # <<>>]

Selected(d) ==
  LET e == IF d.endOfRecord /\ ~IsLast(d)
           THEN [ToNextRecord(d) EXCEPT !.endOfTape = FALSE] ELSE d
  IN  IF d.records = <<>>
      THEN [e EXCEPT !.error = FALSE, !.ready = FALSE, !.endOfTape = TRUE]
      ELSE [e EXCEPT !.error = FALSE, !.ready = CurrentWords(e) # <<>>]

\* perform_read; current never runs past the records, so its check for that is
\* the one for no records.
AtEnd(d) ==
  [d EXCEPT !.ready = FALSE, !.endOfRecord = TRUE, !.endOfTape = @ \/ IsLast(d)]

\* Mutant of ReadFrom: one word too early, no more is announced.
ReadFromEarly(d) ==
  IF d.records = <<>>
  THEN [d EXCEPT !.ready = FALSE, !.endOfTape = TRUE, !.endOfRecord = FALSE]
  ELSE IF Exhausted(d) THEN AtEnd(d)
  ELSE [d EXCEPT !.position = @ + 1,
                 !.heard = Append(@, CurrentWords(d)[d.position + 1]),
                 !.ready = d.position + 2 < Len(CurrentWords(d))]

ReadFrom(d) ==
  IF d.records = <<>>
  THEN [d EXCEPT !.ready = FALSE, !.endOfTape = TRUE, !.endOfRecord = FALSE]
  ELSE IF Exhausted(d) THEN AtEnd(d)
  ELSE LET e == [d EXCEPT !.position = @ + 1,
                          !.heard = Append(@, CurrentWords(d)[d.position + 1])]
       IN  IF Exhausted(e) THEN AtEnd(e) ELSE [e EXCEPT !.ready = TRUE]

WordRead(d, ac) ==
  IF d.records = <<>> \/ Exhausted(d) THEN ac ELSE CurrentWords(d)[d.position + 1]

WrittenTo(d, protected, w, t, opens) ==
  IF protected \/ (d.stream = NoStream /\ ~opens) THEN [d EXCEPT !.error = TRUE]
  ELSE [Opened(d, t) EXCEPT !.written = Append(@, w), !.accepted = Append(@, w),
                            !.endOfRecord = FALSE, !.endOfTape = FALSE]

NextRecord(d) ==
  IF IsLast(d) THEN [d EXCEPT !.endOfTape = TRUE]
  ELSE LET e == ToNextRecord(d)
       IN  [e EXCEPT !.endOfTape = IsLast(e), !.ready = CurrentWords(e) # <<>>,
                     !.skipped = @ \/ ~Exhausted(d)]

-----------------------------------------------------------------------------
(* The controller.                                                          *)

CurrentDrive(m) == m.drives[m.selected]

WithDrive(m, d) == [m EXCEPT !.drives[m.selected] = d]

\* An unknown unit is an error of the unit selected so far.
Go(m) ==
  IF m.ac % 8 \in Units
  THEN [m EXCEPT !.selected = m.ac % 8, !.drives[m.ac % 8] = Selected(@)]
  ELSE WithDrive(m, [CurrentDrive(m) EXCEPT !.error = TRUE])

Skip(m) == [m EXCEPT !.skip = CurrentDrive(m).ready]

Rewind(m, t, opens) == WithDrive(m, Rewound(CurrentDrive(m), t, opens))

Read(m) ==
  [WithDrive(m, ReadFrom(CurrentDrive(m)))
     EXCEPT !.ac = WordRead(CurrentDrive(m), m.ac)]

Write(m, t, opens) ==
  WithDrive(m,
            WrittenTo(CurrentDrive(m), m.selected \in Protected, m.ac, t, opens))

StatusWord(d, unit) ==
  (IF d.ready THEN 1 ELSE 0) + (IF d.error THEN 2 ELSE 0)
    + (IF d.endOfRecord THEN 4 ELSE 0) + (IF d.endOfTape THEN 8 ELSE 0)
    + (IF unit \in Protected THEN 16 ELSE 0) + 128 * unit

Sense(m) == [m EXCEPT !.ac = StatusWord(CurrentDrive(m), m.selected)]

\* The operations of one microcode, in the order of the handler.
MagtapeIot(m, mc, t, opens) ==
  LET selected == IF Has(mc, 1) THEN Go(m) ELSE m
      tested   == IF Has(mc, 8) THEN Skip(selected) ELSE selected
      rewound  == IF Has(mc, 16) THEN Rewind(tested, t, opens) ELSE tested
      readFrom == IF Has(mc, 2) THEN Read(rewound) ELSE rewound
      written  == IF Has(mc, 4) THEN Write(readFrom, t, opens) ELSE readFrom
  IN  IF Has(mc, 32) THEN Sense(written) ELSE written

\* A unit configured at the start of the monitor scans its directory.  Unit 0 is
\* the first and is selected; its files load, or the monitor might have no unit
\* left and drop the controller.
Configured(d) ==
  Reloaded([d EXCEPT !.stream = NoStream, !.written = <<>>, !.accepted = <<>>],
           TRUE)

NewController(drives) ==
  [ drives |-> [u \in Units |-> Configured(drives[u])],
    selected |-> 0, ac |-> 0, skip |-> FALSE ]

-----------------------------------------------------------------------------
(* The guest.                                                               *)

WithinBounds(m) ==
  \A u \in Units : /\ Cardinality(m.drives[u].files) <= MaxFiles
                   /\ Len(m.drives[u].written) <= MaxPending

\* Only REWIND and WRITE open the directory.
Iot(mc, opens) ==
  /\ opens \/ Has(mc, 16) \/ Has(mc, 4)
  /\ Has(mc, 4) => mt.ac \in GuestWords
  /\ mt' = MagtapeIot([mt EXCEPT !.skip = FALSE], mc, now, opens)
  /\ WithinBounds(mt')
  /\ UNCHANGED now

LoadAc(w) ==
  /\ mt' = [mt EXCEPT !.ac = w, !.skip = FALSE]
  /\ UNCHANGED now

(* The operator: magtape rewind, next and new.                              *)

OnDrive(u, d) ==
  /\ mt' = [mt EXCEPT !.drives[u] = d, !.skip = FALSE]
  /\ UNCHANGED now

OperatorRewind(u, opens) == OnDrive(u, Rewound(mt.drives[u], now, opens))

OperatorNext(u) == OnDrive(u, NextRecord(mt.drives[u]))

OperatorNew(u, opens) ==
  OnDrive(u, ClosedAndReloaded(mt.drives[u], now, opens))

(* The host: files come, the clock moves on, and the emulator ends, in      *)
(* order or not, and is started again.                                      *)

HostDrops(u, file) ==
  LET d == mt.drives[u]
      f == [file EXCEPT !.mtime = now]
  IN  /\ \A g \in d.files : g.index # f.index \/ g.format # f.format
      /\ Cardinality(d.files) < MaxFiles
      /\ OnDrive(u, [d EXCEPT !.files = @ \cup {f}])

ClockTicks ==
  /\ now < MaxTime
  /\ now' = now + 1
  /\ UNCHANGED mt

Restart ==
  /\ mt' = NewController([u \in Units |-> Closed(mt.drives[u], now)])
  /\ UNCHANGED now

\* The words that filled a buffer of the stream have reached the file, the last of
\* them at time t, and with them the header, which declares none; the other words
\* are lost, and so is the end mark.
Flushed(words) == SubSeq(words, 1, Len(words) - (Len(words) % BufferWords))

CutShort(d, t) ==
  LET flushed == Flushed(d.written)
  IN  [d EXCEPT !.files =
         {IF IsOpenFile(d, f)
          THEN [f EXCEPT !.body = flushed, !.mtime = IF flushed = <<>> THEN @ ELSE t,
                         !.meant = d.accepted]
          ELSE f : f \in @}]

Crash ==
  \E t \in [Units -> 0 .. now] :
    /\ \A u \in Units : \A f \in mt.drives[u].files :
         IsOpenFile(mt.drives[u], f) => f.mtime <= t[u]
    /\ mt' = NewController([u \in Units |-> CutShort(mt.drives[u], t[u])])
    /\ UNCHANGED now

MagtapeNext ==
  \/ \E mc \in Microcodes, opens \in BOOLEAN : Iot(mc, opens)
  \/ \E w \in GuestWords : LoadAc(w)
  \/ \E u \in Units :
       \/ OperatorNext(u)
       \/ \E opens \in BOOLEAN : OperatorRewind(u, opens) \/ OperatorNew(u, opens)
  \/ \E drop \in HostFiles : HostDrops(drop[1], drop[2])
  \/ ClockTicks
  \/ Restart
  \/ Crash

\* The drives of a host that has put files into the directories of the units.
EmptyDrive ==
  [ files |-> {}, records |-> <<>>, current |-> 0,
    position |-> 0, ready |-> FALSE, error |-> FALSE, endOfRecord |-> FALSE,
    endOfTape |-> FALSE, stream |-> NoStream, written |-> <<>>, heard |-> <<>>,
    skipped |-> FALSE, accepted |-> <<>>, made |-> <<>> ]

MagtapeInit ==
  /\ mt = NewController([u \in Units |-> EmptyDrive])
  /\ now = 0

MagtapeSpec == MagtapeInit /\ [][MagtapeNext]_magtapeVars

-----------------------------------------------------------------------------
MagtapeTypeOK ==
  /\ mt \in [drives : [Units -> Drive], selected : Units, ac : Word, skip : BOOLEAN]
  /\ now \in Nat
  /\ \A u \in Units : LET d == mt.drives[u] IN
       /\ d.records = <<>> => d.current = 0 /\ d.position = 0
       /\ d.records # <<>> => /\ d.current < Len(d.records)
                              /\ d.position <= Len(CurrentWords(d))

ClosedBy(d, r) == r.format = "tap" /\ \E i \in DOMAIN d.made : d.made[i] = r.index

\* What a record gives back is what was written to it, or else it is marked
\* partial; and a record closed in order is marked only if its length does not
\* fit its header (read_tap_record, close_write_stream).
PartialTellsTruth ==
  \A u \in Units : LET d == mt.drives[u] IN
    \A k \in DOMAIN d.records : LET r == d.records[k] IN
      /\ ~r.partial => r.words = r.meant
      /\ ClosedBy(d, r) /\ Len(r.meant) < LengthField => ~r.partial

\* The guest has heard every word up to where the unit stands, each once and in
\* order, unless the operator moved it on (select_unit, perform_read).
NothingSkipped ==
  \A u \in Units : LET d == mt.drives[u] IN
    d.records # <<>> /\ ~d.skipped =>
      d.heard = FlattenSeq([i \in 1 .. d.current |-> d.records[i].words])
                  \o SubSeq(CurrentWords(d), 1, d.position)

\* A guest that waits for READY does not wait for ever while words are left in
\* its record.
WordsLeftAreAnnounced ==
  \A u \in Units : LET d == mt.drives[u] IN
    d.records # <<>> /\ ~Exhausted(d) => d.ready

\* End of record means that its words are read, end of tape that no record
\* follows.
EndFlagsTrue ==
  \A u \in Units : LET d == mt.drives[u] IN
    /\ d.endOfRecord => d.records # <<>> /\ Exhausted(d)
    /\ d.endOfTape => IsLast(d)

\* Records written one after the other are read one after the other, also when
\* they were closed within one second.
RecordsInWritingOrder ==
  \A u \in Units : LET d == mt.drives[u]
                       At(k, i) == d.records[k].format = "tap"
                                     /\ d.records[k].index = d.made[i] IN
    \A i, j \in DOMAIN d.made : \A k, l \in DOMAIN d.records :
      i < j /\ At(k, i) /\ At(l, j) => k < l

\* No file in a directory is ever lost or altered, but for the one being
\* written (ensure_write_stream, O_EXCL).
FilesKept ==
  [][\A u \in Units : LET d == mt.drives[u] IN
       \A f \in d.files :
         \/ f \in mt'.drives[u].files
         \/ IsOpenFile(d, f) /\ f.body = <<>> /\ ~f.sealed]_magtapeVars

\* docs/magtape-usage.md: after a skip on ready, a READ leaves in AC "the word
\* from tape".
ReadyIsAPromise ==
  \A u \in Units : LET d == mt.drives[u] IN d.ready => ~Exhausted(d)
=============================================================================
