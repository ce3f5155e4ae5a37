--------------------------- MODULE MagtapeProofs ---------------------------
(***************************************************************************)
(* For any files, microcodes and words, and whatever the operator and the   *)
(* host do: the flags of a unit tell the truth about where it stands, no    *)
(* file of a directory is lost or altered, no word is skipped, records are  *)
(* read in the order they were written in, and one that does not hold what  *)
(* it was to hold is marked.                                                *)
(*                                                                          *)
(* The first half keeps the flags and the names of the files (DriveInv),    *)
(* the second, which rests on it, what is in them (DriveTrue).              *)
(***************************************************************************)
EXTENDS Magtape, BasicProofs

DriveFields ==
  { "files", "records", "current", "position", "ready", "error", "endOfRecord",
    "endOfTape", "stream", "written", "heard", "skipped", "accepted", "made" }

Shaped(d) == DOMAIN d = DriveFields /\ d.current \in Nat /\ d.position \in Nat

\* The flags of a drive agree with its cursor.
FlagsFit(d) ==
  /\ d.records # <<>> /\ ~Exhausted(d) => d.ready
  /\ d.endOfRecord => d.records # <<>> /\ Exhausted(d)
  /\ d.endOfTape => IsLast(d)

FileFields == {"index", "format", "mtime", "declared", "body", "sealed", "meant"}

Named(f) == DOMAIN f = FileFields /\ f.index \in Nat

OpenIsEmpty(d) ==
  \A f \in d.files : IsOpenFile(d, f) => f.body = <<>> /\ ~f.sealed

\* A file that is open is in the directory and has nothing in it, and some name
\* is past all that are there.
FilesFit(d) ==
  /\ \A f \in d.files : Named(f)
  /\ \E bound \in Nat : \A f \in d.files : f.index < bound
  /\ d.stream # NoStream => \E f \in d.files : IsOpenFile(d, f)
  /\ OpenIsEmpty(d)

DriveInv(d) == Shaped(d) /\ FlagsFit(d) /\ FilesFit(d)

-----------------------------------------------------------------------------
(* The cursor.                                                              *)

SameFiles(d, e) == e.files = d.files /\ e.stream = d.stream

LEMMA EmptyExhausts ==
  ASSUME NEW d, d.position \in Nat, CurrentWords(d) = <<>>
  PROVE  Exhausted(d)
  BY DEF Exhausted

LEMMA ClearedFits ==
  ASSUME NEW d, Shaped(d)
  PROVE  /\ Shaped(Cleared(d)) /\ FlagsFit(Cleared(d)) /\ SameFiles(d, Cleared(d))
         /\ Cleared(d).records = <<>> /\ Cleared(d).position = 0
         /\ Cleared(d).current = 0 /\ ~Cleared(d).endOfRecord
  BY DEF Cleared, Shaped, DriveFields, FlagsFit, SameFiles

LEMMA ReloadedFits ==
  ASSUME NEW d, Shaped(d), NEW opens
  PROVE  /\ Shaped(Reloaded(d, opens)) /\ FlagsFit(Reloaded(d, opens))
         /\ SameFiles(d, Reloaded(d, opens))
<1> DEFINE c == Cleared(d)
           Scanned(l) == [c EXCEPT !.records = l,
                                   !.ready = l # <<>> /\ l[1].words # <<>>,
                                   !.endOfTape = l = <<>>]
           R(l) == IF ~opens THEN c
                   ELSE IF \E f \in d.files : ~Loadable(f)
                        THEN [c EXCEPT !.error = TRUE]
                   ELSE Scanned(l)
<1>1. /\ Shaped(c) /\ FlagsFit(c) /\ SameFiles(d, c) /\ c.records = <<>>
      /\ c.position = 0 /\ c.current = 0 /\ ~c.endOfRecord
  BY ClearedFits
<1>2. Reloaded(d, opens) = R(LoadedRecords(d.files))
  BY DEF Reloaded
<1> HIDE DEF c
<1>3. LET e == [c EXCEPT !.error = TRUE]
      IN  Shaped(e) /\ FlagsFit(e) /\ SameFiles(d, e)
  BY <1>1 DEF Shaped, DriveFields, FlagsFit, SameFiles, IsLast, Exhausted,
              CurrentWords
<1>4. ASSUME NEW l
      PROVE  Shaped(Scanned(l)) /\ FlagsFit(Scanned(l)) /\ SameFiles(d, Scanned(l))
  <2> DEFINE e == Scanned(l)
  <2>1. /\ Shaped(e) /\ SameFiles(d, e)
        /\ e.records = l /\ e.position = 0 /\ e.current = 0 /\ ~e.endOfRecord
        /\ (e.ready <=> l # <<>> /\ l[1].words # <<>>) /\ (e.endOfTape <=> l = <<>>)
    BY <1>1 DEF Shaped, DriveFields, SameFiles
  <2> HIDE DEF e
  <2>2. e.records # <<>> /\ ~Exhausted(e) => e.ready
    <3>1. CurrentWords(e) = l[1].words
      BY <2>1 DEF CurrentWords
    <3> QED
      BY <2>1, <3>1, EmptyExhausts
  <2>3. e.endOfTape => IsLast(e)
    BY <2>1 DEF IsLast
  <2> QED
    BY <2>1, <2>2, <2>3 DEF FlagsFit, e
<1> HIDE DEF Scanned
<1> QED
  BY <1>1, <1>2, <1>3, <1>4

-----------------------------------------------------------------------------
(* The files.                                                               *)

\* What FilesKept asks of one drive.
Kept(d, e) ==
  \A f \in d.files :
    \/ f \in e.files
    \/ IsOpenFile(d, f) /\ f.body = <<>> /\ ~f.sealed

LEMMA SameFilesFit ==
  ASSUME NEW d, NEW e, FilesFit(d), SameFiles(d, e)
  PROVE  FilesFit(e) /\ Kept(d, e)
<1>1. \A f : IsOpenFile(e, f) <=> IsOpenFile(d, f)
  BY DEF SameFiles, IsOpenFile
<1>2. e.files = d.files /\ e.stream = d.stream
  BY DEF SameFiles
<1>3. OpenIsEmpty(e)
  BY <1>1, <1>2 DEF FilesFit, OpenIsEmpty
<1>4. Kept(d, e)
  BY <1>2 DEF Kept
<1> QED
  BY <1>1, <1>2, <1>3, <1>4 DEF FilesFit

\* The open file gives way to another of its name, and nothing is open any more.
LEMMA PutAwayFits ==
  ASSUME NEW d, FilesFit(d), NEW e, e.stream = NoStream,
         \A f \in d.files : IsOpenFile(d, f) \/ f \in e.files,
         \A g \in e.files : Named(g) /\ \E f \in d.files : g.index = f.index
  PROVE  FilesFit(e) /\ Kept(d, e)
<1>1. Kept(d, e)
  <2> SUFFICES ASSUME NEW f \in d.files, f \notin e.files
               PROVE  IsOpenFile(d, f) /\ f.body = <<>> /\ ~f.sealed
    BY DEF Kept
  <2>1. IsOpenFile(d, f)
    OBVIOUS
  <2> QED
    BY <2>1 DEF FilesFit, OpenIsEmpty
<1>2. PICK bound \in Nat : \A f \in d.files : f.index < bound
  BY DEF FilesFit
<1>3. \A g \in e.files : g.index < bound
  BY <1>2
<1>4. \A g \in e.files : ~IsOpenFile(e, g)
  BY DEF IsOpenFile, Named, NoStream
<1> QED
  BY <1>1, <1>2, <1>3, <1>4 DEF FilesFit, OpenIsEmpty

LEMMA ClosedFits ==
  ASSUME NEW d, DriveInv(d), NEW t
  PROVE  /\ DriveInv(Closed(d, t)) /\ Kept(d, Closed(d, t))
         /\ Closed(d, t).stream = NoStream
<1> DEFINE S == {IF IsOpenFile(d, f) THEN SealedFile(d, f, t) ELSE f : f \in d.files}
           e == Closed(d, t)
<1>1. CASE d.stream = NoStream
  BY <1>1, SameFilesFit DEF Closed, SameFiles, DriveInv
<1>2. CASE d.stream # NoStream
  <2>1. e = [d EXCEPT !.files = S, !.stream = NoStream, !.written = <<>>,
                      !.accepted = <<>>, !.made = Append(@, d.stream)]
    BY <1>2 DEF Closed
  <2> HIDE DEF e, S
  <2>2. /\ Shaped(e) /\ e.files = S /\ e.stream = NoStream
        /\ e.records = d.records /\ e.position = d.position /\ e.current = d.current
        /\ e.ready = d.ready /\ e.endOfRecord = d.endOfRecord
        /\ e.endOfTape = d.endOfTape
    BY <2>1 DEF DriveInv, Shaped, DriveFields
  <2>3. FlagsFit(e)
    BY <2>2 DEF DriveInv, FlagsFit, Exhausted, CurrentWords, IsLast
  <2>4. \A f \in d.files : IsOpenFile(d, f) \/ f \in S
    BY DEF S
  <2>5. ASSUME NEW g \in S
        PROVE  Named(g) /\ \E f \in d.files : g.index = f.index
    <3>1. PICK f \in d.files : g = IF IsOpenFile(d, f) THEN SealedFile(d, f, t) ELSE f
      BY DEF S
    <3>2. Named(f)
      BY DEF DriveInv, FilesFit
    <3>3. Named(SealedFile(d, f, t)) /\ SealedFile(d, f, t).index = f.index
      BY <3>2 DEF Named, FileFields, SealedFile
    <3> QED
      BY <3>1, <3>2, <3>3
  <2>6. FilesFit(e) /\ Kept(d, e)
    BY <2>2, <2>4, <2>5, PutAwayFits DEF DriveInv
  <2> QED
    BY <2>2, <2>3, <2>6 DEF DriveInv, e
<1> QED
  BY <1>1, <1>2

LEMMA KeptOnward ==
  ASSUME NEW d, NEW e, NEW f, Kept(d, e), e.files \subseteq f.files
  PROVE  Kept(d, f)
  BY DEF Kept

LEMMA ReloadedInv ==
  ASSUME NEW d, DriveInv(d), NEW opens
  PROVE  /\ DriveInv(Reloaded(d, opens)) /\ SameFiles(d, Reloaded(d, opens))
  BY ReloadedFits, SameFilesFit DEF DriveInv

LEMMA ClosedAndReloadedInv ==
  ASSUME NEW d, DriveInv(d), NEW t, NEW opens
  PROVE  /\ DriveInv(ClosedAndReloaded(d, t, opens))
         /\ Kept(d, ClosedAndReloaded(d, t, opens))
<1>1. CASE d.stream = NoStream
  BY <1>1, SameFilesFit DEF ClosedAndReloaded, DriveInv, SameFiles
<1>2. CASE d.stream # NoStream
  <2> DEFINE c == Closed(d, t)
  <2>1. DriveInv(c) /\ Kept(d, c)
    BY ClosedFits
  <2> HIDE DEF c
  <2>2. DriveInv(Reloaded(c, opens)) /\ SameFiles(c, Reloaded(c, opens))
    BY <2>1, ReloadedInv
  <2>3. Kept(d, Reloaded(c, opens))
    BY <2>1, <2>2, KeptOnward DEF SameFiles
  <2> QED
    BY <1>2, <2>2, <2>3 DEF ClosedAndReloaded, c
<1> QED
  BY <1>1, <1>2

LEMMA RewoundInv ==
  ASSUME NEW d, DriveInv(d), NEW t, NEW opens
  PROVE  DriveInv(Rewound(d, t, opens)) /\ Kept(d, Rewound(d, t, opens))
<1> DEFINE c == ClosedAndReloaded(d, t, opens)
<1>1. DriveInv(c) /\ Kept(d, c)
  BY ClosedAndReloadedInv
<1> HIDE DEF c
<1>2. DriveInv(Reloaded(c, opens)) /\ SameFiles(c, Reloaded(c, opens))
  BY <1>1, ReloadedInv
<1> QED
  BY <1>1, <1>2, KeptOnward DEF Rewound, SameFiles, c

-----------------------------------------------------------------------------
(* A new file.                                                              *)

LEMMA NextIndexIsNew ==
  ASSUME NEW d, FilesFit(d)
  PROVE  /\ NextIndex(d.files) \in Nat
         /\ \A f \in d.files : f.format = "tap" => f.index # NextIndex(d.files)
<1> DEFINE names == {f.index : f \in {g \in d.files : g.format = "tap"}}
<1>1. \A f \in d.files : f.format = "tap" => f.index \in names
  OBVIOUS
<1>2. names \in SUBSET Nat
  BY DEF FilesFit, Named
<1>3. PICK bound \in Nat : \A x \in names : x < bound
  BY DEF FilesFit
<1>4. NextIndex(d.files) = IF names = {} THEN 0 ELSE Max(names) + 1
  BY DEF NextIndex
<1> HIDE DEF names
<1>5. CASE names = {}
  BY <1>1, <1>4, <1>5
<1>6. CASE names # {}
  <2>1. Max(names) \in names /\ \A y \in names : Max(names) >= y
    BY <1>2, <1>3, <1>6, GreatestOfBounded
  <2>2. PICK m \in Nat : m = Max(names)
    BY <1>2, <2>1
  <2>3. \A y \in names : y \in Nat /\ m >= y
    BY <1>2, <2>1, <2>2
  <2> QED
    BY <1>1, <1>4, <1>6, <2>2, <2>3
<1> QED
  BY <1>5, <1>6

LEMMA OpenedInv ==
  ASSUME NEW d, DriveInv(d), NEW t
  PROVE  /\ DriveInv(Opened(d, t)) /\ d.files \subseteq Opened(d, t).files
         /\ Opened(d, t).stream # NoStream
<1>1. CASE d.stream # NoStream
  BY <1>1 DEF Opened
<1>2. CASE d.stream = NoStream
  <2> DEFINE n == NextIndex(d.files)
             f0 == NewFile(d.files, t)
             e == Opened(d, t)
  <2>1. n \in Nat /\ \A f \in d.files : f.format = "tap" => f.index # n
    BY NextIndexIsNew DEF DriveInv
  <2>2. /\ Named(f0) /\ f0.index = n /\ f0.format = "tap" /\ f0.body = <<>>
        /\ ~f0.sealed
    BY <2>1 DEF NewFile, Named, FileFields
  <2>3. e = [d EXCEPT !.files = d.files \cup {f0}, !.stream = n, !.written = <<>>]
    BY <1>2 DEF Opened
  <2> HIDE DEF n, f0, e
  <2>4. /\ Shaped(e) /\ e.files = d.files \cup {f0} /\ e.stream = n
        /\ e.records = d.records /\ e.position = d.position /\ e.current = d.current
        /\ e.ready = d.ready /\ e.endOfRecord = d.endOfRecord
        /\ e.endOfTape = d.endOfTape
    BY <2>3 DEF DriveInv, Shaped, DriveFields
  <2>5. FlagsFit(e)
    BY <2>4 DEF DriveInv, FlagsFit, Exhausted, CurrentWords, IsLast
  <2>6. \A f \in e.files : Named(f)
    BY <2>2, <2>4 DEF DriveInv, FilesFit
  <2>7. \E bound \in Nat : \A f \in e.files : f.index < bound
    <3>1. PICK bound \in Nat : \A f \in d.files : f.index < bound
      BY DEF DriveInv, FilesFit
    <3>2. \A f \in e.files : f.index \in Nat /\ (f.index < bound \/ f.index = n)
      BY <2>2, <2>4, <2>6, <3>1 DEF Named
    <3>3. CASE n < bound
      BY <2>1, <3>2, <3>3
    <3>4. CASE n >= bound
      <4>1. n + 1 \in Nat /\ \A f \in e.files : f.index < n + 1
        BY <2>1, <3>2, <3>4
      <4> QED
        BY <4>1
    <3> QED
      BY <2>1, <3>3, <3>4
  <2>8. IsOpenFile(e, f0)
    BY <2>2, <2>4 DEF IsOpenFile
  <2>9. OpenIsEmpty(e)
    BY <2>1, <2>2, <2>4 DEF OpenIsEmpty, IsOpenFile
  <2>10. e.stream # NoStream
    BY <2>1, <2>4 DEF NoStream
  <2> QED
    BY <2>4, <2>5, <2>6, <2>7, <2>8, <2>9, <2>10 DEF DriveInv, FilesFit, e
<1> QED
  BY <1>1, <1>2

LEMMA WrittenToInv ==
  ASSUME NEW d, DriveInv(d), NEW protected, NEW w, NEW t, NEW opens
  PROVE  /\ DriveInv(WrittenTo(d, protected, w, t, opens))
         /\ d.files \subseteq WrittenTo(d, protected, w, t, opens).files
<1>1. CASE protected \/ (d.stream = NoStream /\ ~opens)
  <2> DEFINE e == [d EXCEPT !.error = TRUE]
  <2>1. WrittenTo(d, protected, w, t, opens) = e
    BY <1>1 DEF WrittenTo
  <2>2. Shaped(e) /\ FlagsFit(e) /\ SameFiles(d, e)
    BY DEF DriveInv, Shaped, DriveFields, FlagsFit, SameFiles, Exhausted,
           CurrentWords, IsLast
  <2> QED
    BY <2>1, <2>2, SameFilesFit DEF DriveInv, SameFiles
<1>2. CASE ~(protected \/ (d.stream = NoStream /\ ~opens))
  <2> DEFINE o == Opened(d, t)
             e == [o EXCEPT !.written = Append(@, w), !.accepted = Append(@, w),
                            !.endOfRecord = FALSE, !.endOfTape = FALSE]
  <2>1. WrittenTo(d, protected, w, t, opens) = e
    BY <1>2 DEF WrittenTo
  <2>2. DriveInv(o) /\ d.files \subseteq o.files
    BY OpenedInv
  <2> HIDE DEF o
  <2>3. Shaped(e) /\ FlagsFit(e) /\ SameFiles(o, e)
    BY <2>2 DEF DriveInv, Shaped, DriveFields, FlagsFit, SameFiles, Exhausted,
                CurrentWords, IsLast
  <2> QED
    BY <2>1, <2>2, <2>3, SameFilesFit DEF DriveInv, SameFiles
<1> QED
  BY <1>1, <1>2

-----------------------------------------------------------------------------
(* Moving along the tape.                                                   *)

\* What a step along the records may change, and what it must re-establish.
LEMMA MovedInv ==
  ASSUME NEW d, DriveInv(d), NEW e, Shaped(e), FlagsFit(e), SameFiles(d, e)
  PROVE  DriveInv(e) /\ SameFiles(d, e)
  BY SameFilesFit DEF DriveInv

LEMMA AtEndFits ==
  ASSUME NEW d, Shaped(d), d.records # <<>>, Exhausted(d), d.endOfTape => IsLast(d)
  PROVE  Shaped(AtEnd(d)) /\ FlagsFit(AtEnd(d)) /\ SameFiles(d, AtEnd(d))
  BY DEF AtEnd, Shaped, DriveFields, FlagsFit, SameFiles, Exhausted, CurrentWords,
         IsLast

LEMMA ReadFromInv ==
  ASSUME NEW d, DriveInv(d)
  PROVE  DriveInv(ReadFrom(d)) /\ SameFiles(d, ReadFrom(d))
<1> USE DEF Shaped, DriveFields, FlagsFit, SameFiles
<1>1. CASE d.records = <<>>
  <2> DEFINE e == [d EXCEPT !.ready = FALSE, !.endOfTape = TRUE, !.endOfRecord = FALSE]
  <2>1. ReadFrom(d) = e
    BY <1>1 DEF ReadFrom
  <2>2. Shaped(e) /\ SameFiles(d, e) /\ e.records = <<>> /\ ~e.endOfRecord
    BY <1>1 DEF DriveInv
  <2>3. IsLast(e)
    BY <2>2 DEF IsLast
  <2> HIDE DEF e
  <2> QED
    BY <2>1, <2>2, <2>3, MovedInv
<1>2. CASE d.records # <<>> /\ Exhausted(d)
  <2>1. ReadFrom(d) = AtEnd(d)
    BY <1>2 DEF ReadFrom
  <2>2. Shaped(d) /\ (d.endOfTape => IsLast(d))
    BY DEF DriveInv
  <2> QED
    BY <1>2, <2>1, <2>2, AtEndFits, MovedInv
<1>3. CASE d.records # <<>> /\ ~Exhausted(d)
  <2> DEFINE e == [d EXCEPT !.position = @ + 1,
                            !.heard = Append(@, CurrentWords(d)[d.position + 1])]
             f == [e EXCEPT !.ready = TRUE]
  <2>1. ReadFrom(d) = IF Exhausted(e) THEN AtEnd(e) ELSE f
    BY <1>3 DEF ReadFrom
  <2>2. /\ Shaped(e) /\ SameFiles(d, e) /\ e.records = d.records
        /\ e.current = d.current /\ e.endOfTape = d.endOfTape
        /\ e.endOfRecord = d.endOfRecord
    BY DEF DriveInv
  <2>3. ~d.endOfRecord
    BY <1>3 DEF DriveInv
  <2>4. e.endOfTape => IsLast(e)
    BY <2>2 DEF DriveInv, IsLast
  <2> HIDE DEF e
  <2>5. CASE Exhausted(e)
    <3>1. Shaped(AtEnd(e)) /\ FlagsFit(AtEnd(e)) /\ SameFiles(e, AtEnd(e))
      BY <1>3, <2>2, <2>4, <2>5, AtEndFits
    <3>2. SameFiles(d, AtEnd(e))
      BY <2>2, <3>1
    <3> QED
      BY <2>1, <2>5, <3>1, <3>2, MovedInv
  <2>6. CASE ~Exhausted(e)
    <3>1. /\ Shaped(f) /\ SameFiles(d, f) /\ f.ready /\ ~f.endOfRecord
          /\ f.endOfTape = e.endOfTape /\ f.records = e.records
          /\ f.current = e.current
      BY <2>2, <2>3
    <3>2. f.endOfTape => IsLast(f)
      BY <2>4, <3>1 DEF IsLast
    <3> HIDE DEF f
    <3> QED
      BY <2>1, <2>6, <3>1, <3>2, MovedInv
  <2> QED
    BY <2>5, <2>6
<1> QED
  BY <1>1, <1>2, <1>3

LEMMA SelectedInv ==
  ASSUME NEW d, DriveInv(d)
  PROVE  DriveInv(Selected(d)) /\ SameFiles(d, Selected(d))
<1> DEFINE e == IF d.endOfRecord /\ ~IsLast(d)
                THEN [ToNextRecord(d) EXCEPT !.endOfTape = FALSE] ELSE d
           f == [e EXCEPT !.error = FALSE, !.ready = FALSE, !.endOfTape = TRUE]
           g == [e EXCEPT !.error = FALSE, !.ready = CurrentWords(e) # <<>>]
<1>1. Selected(d) = IF d.records = <<>> THEN f ELSE g
  BY DEF Selected
<1>2. /\ Shaped(e) /\ SameFiles(d, e) /\ e.records = d.records
      /\ e.endOfRecord => e.records # <<>> /\ Exhausted(e)
      /\ e.endOfTape => IsLast(e)
  <2>1. CASE d.endOfRecord /\ ~IsLast(d)
    <3> DEFINE n == [ToNextRecord(d) EXCEPT !.endOfTape = FALSE]
    <3>1. /\ Shaped(n) /\ SameFiles(d, n) /\ n.records = d.records
          /\ ~n.endOfRecord /\ ~n.endOfTape
      BY DEF DriveInv, Shaped, DriveFields, SameFiles, ToNextRecord
    <3>2. e = n
      BY <2>1
    <3> HIDE DEF e, n
    <3> QED
      BY <3>1, <3>2
  <2>2. CASE ~(d.endOfRecord /\ ~IsLast(d))
    BY <2>2 DEF DriveInv, FlagsFit, SameFiles
  <2> QED
    BY <2>1, <2>2
<1> HIDE DEF e
<1>3. CASE d.records = <<>>
  <2>1. /\ Shaped(f) /\ SameFiles(d, f) /\ f.records = <<>> /\ ~f.endOfRecord
    BY <1>2, <1>3 DEF Shaped, DriveFields, SameFiles
  <2>2. IsLast(f)
    BY <2>1 DEF IsLast, Shaped
  <2> HIDE DEF f
  <2> QED
    BY <1>1, <1>3, <2>1, <2>2, MovedInv DEF FlagsFit
<1>4. CASE d.records # <<>>
  <2>1. /\ Shaped(g) /\ SameFiles(d, g) /\ g.records = e.records
        /\ g.position = e.position /\ g.current = e.current
        /\ g.endOfRecord = e.endOfRecord /\ g.endOfTape = e.endOfTape
        /\ (g.ready <=> CurrentWords(e) # <<>>)
    BY <1>2 DEF Shaped, DriveFields, SameFiles
  <2> HIDE DEF g
  <2>2. CurrentWords(g) = CurrentWords(e)
    BY <2>1 DEF CurrentWords
  <2>3. g.endOfRecord => g.records # <<>> /\ Exhausted(g)
    BY <1>2, <2>1, <2>2 DEF Exhausted
  <2>4. g.endOfTape => IsLast(g)
    BY <1>2, <2>1 DEF IsLast
  <2>5. ~Exhausted(g) => g.ready
    BY <2>1, <2>2, EmptyExhausts DEF Shaped
  <2> QED
    BY <1>1, <1>4, <2>1, <2>3, <2>4, <2>5, MovedInv DEF FlagsFit
<1> QED
  BY <1>3, <1>4

LEMMA NextRecordInv ==
  ASSUME NEW d, DriveInv(d)
  PROVE  DriveInv(NextRecord(d)) /\ SameFiles(d, NextRecord(d))
<1>1. CASE IsLast(d)
  <2> DEFINE e == [d EXCEPT !.endOfTape = TRUE]
  <2>1. NextRecord(d) = e
    BY <1>1 DEF NextRecord
  <2>2. Shaped(e) /\ FlagsFit(e) /\ SameFiles(d, e)
    BY <1>1 DEF DriveInv, Shaped, DriveFields, FlagsFit, SameFiles, Exhausted,
                CurrentWords, IsLast
  <2> QED
    BY <2>1, <2>2, MovedInv
<1>2. CASE ~IsLast(d)
  <2> DEFINE n == ToNextRecord(d)
             e == [n EXCEPT !.endOfTape = IsLast(n), !.ready = CurrentWords(n) # <<>>,
                            !.skipped = @ \/ ~Exhausted(d)]
  <2>1. NextRecord(d) = e
    BY <1>2 DEF NextRecord
  <2>2. /\ Shaped(n) /\ SameFiles(d, n) /\ n.records = d.records /\ ~n.endOfRecord
    BY DEF DriveInv, Shaped, DriveFields, SameFiles, ToNextRecord
  <2> HIDE DEF n
  <2>3. /\ Shaped(e) /\ SameFiles(d, e) /\ e.records = n.records
        /\ e.position = n.position /\ e.current = n.current /\ ~e.endOfRecord
        /\ (e.endOfTape <=> IsLast(n)) /\ (e.ready <=> CurrentWords(n) # <<>>)
    BY <2>2 DEF Shaped, DriveFields, SameFiles
  <2> HIDE DEF e
  <2>4. CurrentWords(e) = CurrentWords(n) /\ (IsLast(e) <=> IsLast(n))
    BY <2>3 DEF CurrentWords, IsLast
  <2>5. ~Exhausted(e) => e.ready
    BY <2>3, <2>4, EmptyExhausts DEF Shaped
  <2> QED
    BY <2>1, <2>3, <2>4, <2>5, MovedInv DEF FlagsFit
<1> QED
  BY <1>1, <1>2

-----------------------------------------------------------------------------
(* The controller.                                                          *)

ControllerFields == {"drives", "selected", "ac", "skip"}

ControllerInv(m) ==
  /\ DOMAIN m = ControllerFields
  /\ DOMAIN m.drives = Units
  /\ m.selected \in Units
  /\ \A u \in Units : DriveInv(m.drives[u])

\* No drive loses a file, or only the one it has open.
AllKept(m, n) == \A u \in Units : Kept(m.drives[u], n.drives[u])

AllGrown(m, n) == \A u \in Units : m.drives[u].files \subseteq n.drives[u].files

AllSame(m, n) == \A u \in Units : SameFiles(m.drives[u], n.drives[u])

Put(m, u, d) == [m EXCEPT !.drives[u] = d]

LEMMA PutInv ==
  ASSUME NEW m, ControllerInv(m), NEW u \in Units, NEW d, DriveInv(d)
  PROVE  /\ ControllerInv(Put(m, u, d))
         /\ Put(m, u, d).drives[u] = d /\ Put(m, u, d).selected = m.selected
         /\ \A v \in Units \ {u} : Put(m, u, d).drives[v] = m.drives[v]
  BY DEF Put, ControllerInv, ControllerFields

LEMMA WithDriveInv ==
  ASSUME NEW m, ControllerInv(m), NEW d, DriveInv(d)
  PROVE  /\ ControllerInv(WithDrive(m, d))
         /\ WithDrive(m, d).drives[m.selected] = d
         /\ WithDrive(m, d).selected = m.selected
         /\ \A v \in Units \ {m.selected} : WithDrive(m, d).drives[v] = m.drives[v]
<1>1. m.selected \in Units
  BY DEF ControllerInv
<1>2. WithDrive(m, d) = Put(m, m.selected, d)
  BY DEF WithDrive, Put
<1> QED
  BY <1>1, <1>2, PutInv

LEMMA SetRegisters ==
  ASSUME NEW m, ControllerInv(m), NEW v, NEW n,
         n = [m EXCEPT !.ac = v] \/ n = [m EXCEPT !.skip = v]
  PROVE  ControllerInv(n) /\ n.drives = m.drives
  BY DEF ControllerInv, ControllerFields

LEMMA GoInv ==
  ASSUME NEW m, ControllerInv(m)
  PROVE  ControllerInv(Go(m)) /\ AllSame(m, Go(m))
<1> DEFINE u == m.ac % 8
<1>1. CASE u \in Units
  <2> DEFINE d == Selected(m.drives[u])
             p == Put(m, u, d)
             n == [p EXCEPT !.selected = u]
  <2>1. Go(m) = n
    BY <1>1 DEF Go, Put, ControllerInv, ControllerFields
  <2>2. DriveInv(d) /\ SameFiles(m.drives[u], d)
    BY <1>1, SelectedInv DEF ControllerInv
  <2> HIDE DEF d
  <2>3. /\ ControllerInv(p) /\ p.drives[u] = d
        /\ \A v \in Units \ {u} : p.drives[v] = m.drives[v]
    BY <1>1, <2>2, PutInv
  <2> HIDE DEF p, u
  <2>4. ControllerInv(n) /\ n.drives = p.drives
    BY <1>1, <2>3 DEF ControllerInv, ControllerFields
  <2> QED
    BY <1>1, <2>1, <2>2, <2>3, <2>4 DEF AllSame, SameFiles
<1>2. CASE u \notin Units
  <2> DEFINE c == CurrentDrive(m)
             d == [c EXCEPT !.error = TRUE]
  <2>1. Go(m) = WithDrive(m, d)
    BY <1>2 DEF Go
  <2>2. DriveInv(c) /\ m.selected \in Units /\ c = m.drives[m.selected]
    BY DEF ControllerInv, CurrentDrive
  <2> HIDE DEF c
  <2>3. Shaped(d) /\ FlagsFit(d) /\ SameFiles(c, d)
    BY <2>2 DEF DriveInv, Shaped, DriveFields, FlagsFit, SameFiles, Exhausted,
                CurrentWords, IsLast
  <2> HIDE DEF d
  <2>4. DriveInv(d)
    BY <2>2, <2>3, MovedInv
  <2> QED
    BY <2>1, <2>2, <2>3, <2>4, WithDriveInv DEF AllSame, SameFiles
<1> QED
  BY <1>1, <1>2

LEMMA SkipInv ==
  ASSUME NEW m, ControllerInv(m)
  PROVE  ControllerInv(Skip(m)) /\ AllSame(m, Skip(m))
  BY SetRegisters DEF Skip, AllSame, SameFiles

LEMMA RewindInv ==
  ASSUME NEW m, ControllerInv(m), NEW t, NEW opens
  PROVE  ControllerInv(Rewind(m, t, opens)) /\ AllKept(m, Rewind(m, t, opens))
<1> DEFINE c == CurrentDrive(m)
           d == Rewound(c, t, opens)
<1>1. DriveInv(c) /\ m.selected \in Units /\ c = m.drives[m.selected]
  BY DEF ControllerInv, CurrentDrive
<1>2. DriveInv(d) /\ Kept(c, d)
  BY <1>1, RewoundInv
<1> HIDE DEF c, d
<1>3. Rewind(m, t, opens) = WithDrive(m, d)
  BY DEF Rewind, c, d
<1>4. \A x : Kept(x, x)
  BY DEF Kept
<1> QED
  BY <1>1, <1>2, <1>3, <1>4, WithDriveInv DEF AllKept

LEMMA ReadInv ==
  ASSUME NEW m, ControllerInv(m)
  PROVE  ControllerInv(Read(m)) /\ AllSame(m, Read(m))
<1> DEFINE c == CurrentDrive(m)
           d == ReadFrom(c)
           p == WithDrive(m, d)
<1>1. DriveInv(c) /\ m.selected \in Units /\ c = m.drives[m.selected]
  BY DEF ControllerInv, CurrentDrive
<1>2. DriveInv(d) /\ SameFiles(c, d)
  BY <1>1, ReadFromInv
<1>3. Read(m) = [p EXCEPT !.ac = WordRead(c, m.ac)]
  BY DEF Read
<1> HIDE DEF c, d
<1>4. /\ ControllerInv(p) /\ p.drives[m.selected] = d
      /\ \A v \in Units \ {m.selected} : p.drives[v] = m.drives[v]
  BY <1>2, WithDriveInv
<1> HIDE DEF p
<1>5. ControllerInv(Read(m)) /\ Read(m).drives = p.drives
  BY <1>3, <1>4, SetRegisters
<1> QED
  BY <1>1, <1>2, <1>4, <1>5 DEF AllSame, SameFiles

LEMMA WriteInv ==
  ASSUME NEW m, ControllerInv(m), NEW t, NEW opens
  PROVE  ControllerInv(Write(m, t, opens)) /\ AllGrown(m, Write(m, t, opens))
<1> DEFINE c == CurrentDrive(m)
           d == WrittenTo(c, m.selected \in Protected, m.ac, t, opens)
<1>1. DriveInv(c) /\ m.selected \in Units /\ c = m.drives[m.selected]
  BY DEF ControllerInv, CurrentDrive
<1>2. DriveInv(d) /\ c.files \subseteq d.files
  BY <1>1, WrittenToInv
<1>3. Write(m, t, opens) = WithDrive(m, d)
  BY DEF Write
<1> HIDE DEF c, d
<1> QED
  BY <1>1, <1>2, <1>3, WithDriveInv DEF AllGrown

LEMMA SenseInv ==
  ASSUME NEW m, ControllerInv(m)
  PROVE  ControllerInv(Sense(m)) /\ AllSame(m, Sense(m))
  BY SetRegisters DEF Sense, AllSame, SameFiles

\* A microcode rewinds at most once, and what it does before that touches no file.
LEMMA MagtapeIotInv ==
  ASSUME NEW m, ControllerInv(m), NEW mc, NEW t, NEW opens
  PROVE  /\ ControllerInv(MagtapeIot(m, mc, t, opens))
         /\ AllKept(m, MagtapeIot(m, mc, t, opens))
<1> DEFINE a == IF Has(mc, 1) THEN Go(m) ELSE m
           b == IF Has(mc, 8) THEN Skip(a) ELSE a
           c == IF Has(mc, 16) THEN Rewind(b, t, opens) ELSE b
           d == IF Has(mc, 2) THEN Read(c) ELSE c
           e == IF Has(mc, 4) THEN Write(d, t, opens) ELSE d
           f == IF Has(mc, 32) THEN Sense(e) ELSE e
<1>0. MagtapeIot(m, mc, t, opens) = f
  BY DEF MagtapeIot
<1>1. /\ \A x : AllSame(x, x) /\ AllKept(x, x) /\ AllGrown(x, x)
  BY DEF AllSame, AllKept, AllGrown, SameFiles, Kept
<1>2. ControllerInv(a) /\ AllSame(m, a)
  BY <1>1, GoInv
<1> HIDE DEF a
<1>3. ControllerInv(b) /\ AllSame(a, b)
  BY <1>1, <1>2, SkipInv
<1> HIDE DEF b
<1>4. ControllerInv(c) /\ AllKept(b, c)
  BY <1>1, <1>3, RewindInv
<1> HIDE DEF c
<1>5. ControllerInv(d) /\ AllSame(c, d)
  BY <1>1, <1>4, ReadInv
<1> HIDE DEF d
<1>6. ControllerInv(e) /\ AllGrown(d, e)
  BY <1>1, <1>5, WriteInv
<1> HIDE DEF e
<1>7. ControllerInv(f) /\ AllSame(e, f)
  BY <1>1, <1>6, SenseInv
<1> HIDE DEF f
<1>8. AllKept(m, f)
  <2> SUFFICES ASSUME NEW u \in Units PROVE Kept(m.drives[u], f.drives[u])
    BY DEF AllKept
  <2>1. SameFiles(m.drives[u], b.drives[u])
    BY <1>2, <1>3 DEF AllSame, SameFiles
  <2>2. Kept(b.drives[u], c.drives[u])
    BY <1>4 DEF AllKept
  <2>3. c.drives[u].files \subseteq f.drives[u].files
    BY <1>5, <1>6, <1>7 DEF AllSame, SameFiles, AllGrown
  <2> QED
    BY <2>1, <2>2, <2>3 DEF Kept, SameFiles, IsOpenFile
<1> QED
  BY <1>0, <1>7, <1>8

-----------------------------------------------------------------------------
(* The monitor starts, in order or after a crash.                           *)

Halted(d) == [d EXCEPT !.stream = NoStream, !.written = <<>>, !.accepted = <<>>]

LEMMA ConfiguredInv ==
  ASSUME NEW d, Shaped(d), FilesFit(Halted(d))
  PROVE  DriveInv(Configured(d)) /\ Configured(d).files = d.files
<1> DEFINE h == Halted(d)
<1>1. Shaped(h) /\ h.files = d.files
  BY DEF Halted, Shaped, DriveFields
<1>2. Configured(d) = Reloaded(h, TRUE)
  BY DEF Configured, Halted
<1> HIDE DEF h
<1>3. /\ Shaped(Reloaded(h, TRUE)) /\ FlagsFit(Reloaded(h, TRUE))
      /\ SameFiles(h, Reloaded(h, TRUE))
  BY <1>1, ReloadedFits
<1>4. FilesFit(Reloaded(h, TRUE))
  BY <1>3, SameFilesFit DEF h
<1> QED
  BY <1>1, <1>2, <1>3, <1>4 DEF DriveInv, SameFiles

LEMMA NewControllerInv ==
  ASSUME NEW drives,
         \A u \in Units : DriveInv(Configured(drives[u]))
  PROVE  /\ ControllerInv(NewController(drives))
         /\ \A u \in Units : NewController(drives).drives[u] = Configured(drives[u])
  BY MagtapeConstantsAssumption DEF NewController, ControllerInv, ControllerFields

LEMMA RestartedInv ==
  ASSUME NEW d, DriveInv(d), NEW t
  PROVE  DriveInv(Configured(Closed(d, t))) /\ Kept(d, Configured(Closed(d, t)))
<1> DEFINE c == Closed(d, t)
<1>1. DriveInv(c) /\ Kept(d, c) /\ c.stream = NoStream
  BY ClosedFits
<1> HIDE DEF c
<1>2. SameFiles(c, Halted(c))
  BY <1>1 DEF Halted, DriveInv, Shaped, DriveFields, SameFiles
<1>3. FilesFit(Halted(c))
  BY <1>1, <1>2, SameFilesFit DEF DriveInv
<1>4. DriveInv(Configured(c)) /\ Configured(c).files = c.files
  BY <1>1, <1>3, ConfiguredInv DEF DriveInv
<1> QED
  BY <1>1, <1>4, KeptOnward DEF c

LEMMA CutShortInv ==
  ASSUME NEW d, DriveInv(d), NEW t
  PROVE  DriveInv(Configured(CutShort(d, t))) /\ Kept(d, Configured(CutShort(d, t)))
<1> DEFINE flushed == Flushed(d.written)
           Cut(f) == [f EXCEPT !.body = flushed,
                               !.mtime = IF flushed = <<>> THEN @ ELSE t,
                               !.meant = d.accepted]
           S == {IF IsOpenFile(d, f) THEN Cut(f) ELSE f : f \in d.files}
           c == CutShort(d, t)
<1>1. c = [d EXCEPT !.files = S]
  BY DEF CutShort
<1>2. \A f \in d.files : IsOpenFile(d, f) \/ f \in S
  OBVIOUS
<1>3. ASSUME NEW g \in S
      PROVE  Named(g) /\ \E f \in d.files : g.index = f.index
  <2>1. PICK f \in d.files : g = IF IsOpenFile(d, f) THEN Cut(f) ELSE f
    OBVIOUS
  <2>2. Named(f)
    BY DEF DriveInv, FilesFit
  <2>3. Named(Cut(f)) /\ Cut(f).index = f.index
    BY <2>2 DEF Named, FileFields
  <2> QED
    BY <2>1, <2>2, <2>3
<1> HIDE DEF S, c, Cut, flushed
<1>4. Shaped(c) /\ c.files = S
  BY <1>1 DEF DriveInv, Shaped, DriveFields
<1>5. Halted(c).files = S /\ Halted(c).stream = NoStream
  BY <1>4 DEF Halted, Shaped, DriveFields
<1>6. FilesFit(Halted(c)) /\ Kept(d, Halted(c))
  BY <1>2, <1>3, <1>5, PutAwayFits DEF DriveInv
<1>7. DriveInv(Configured(c)) /\ Configured(c).files = S
  BY <1>4, <1>6, ConfiguredInv
<1> QED
  BY <1>5, <1>6, <1>7, KeptOnward DEF c

-----------------------------------------------------------------------------
(* The specification.                                                       *)

MagtapeInv == ControllerInv(mt)

KeptHere == \A u \in Units : Kept(mt.drives[u], mt'.drives[u])

LEMMA MagtapeInitInv == MagtapeInit => MagtapeInv
<1> SUFFICES ASSUME MagtapeInit PROVE MagtapeInv
  OBVIOUS
<1> DEFINE d == EmptyDrive
           drives == [u \in Units |-> d]
<1>1. Shaped(d) /\ d.files = {}
  BY DEF EmptyDrive, Shaped, DriveFields
<1>2. mt = NewController(drives)
  BY DEF MagtapeInit
<1> HIDE DEF d
<1>3. Halted(d).files = {} /\ Halted(d).stream = NoStream
  BY <1>1 DEF Halted, Shaped, DriveFields
<1>4. FilesFit(Halted(d))
  BY <1>3 DEF FilesFit, OpenIsEmpty
<1>5. \A u \in Units : DriveInv(Configured(drives[u]))
  BY <1>1, <1>4, ConfiguredInv
<1> HIDE DEF drives
<1> QED
  BY <1>2, <1>5, NewControllerInv DEF MagtapeInv

\* The operator acts on one drive, and the skip of the last IOT is forgotten.
LEMMA OnDriveInv ==
  ASSUME MagtapeInv, NEW u \in Units, NEW d, DriveInv(d), Kept(mt.drives[u], d),
         OnDrive(u, d)
  PROVE  MagtapeInv' /\ KeptHere
<1> DEFINE p == Put(mt, u, d)
           n == [p EXCEPT !.skip = FALSE]
<1>1. mt' = n
  BY DEF OnDrive, Put, MagtapeInv, ControllerInv, ControllerFields
<1>2. /\ ControllerInv(p) /\ p.drives[u] = d
      /\ \A v \in Units \ {u} : p.drives[v] = mt.drives[v]
  BY PutInv DEF MagtapeInv
<1> HIDE DEF p
<1>3. ControllerInv(n) /\ n.drives = p.drives
  BY <1>2, SetRegisters
<1>4. \A x : Kept(x, x)
  BY DEF Kept
<1> HIDE DEF n
<1> QED
  BY <1>1, <1>2, <1>3, <1>4 DEF MagtapeInv, KeptHere

LEMMA HostDropsInv ==
  ASSUME MagtapeInv, NEW drop \in HostFiles, HostDrops(drop[1], drop[2])
  PROVE  MagtapeInv' /\ KeptHere
<1> DEFINE u == drop[1]
           file == drop[2]
           d == mt.drives[u]
           f == [file EXCEPT !.mtime = now]
           e == [d EXCEPT !.files = @ \cup {f}]
<1>1. u \in Units /\ file \in File
  BY HostFilesAssumption
<1>2. /\ \A g \in d.files : g.index # f.index \/ g.format # f.format
      /\ OnDrive(u, e)
  BY DEF HostDrops
<1>3. DriveInv(d)
  BY <1>1 DEF MagtapeInv, ControllerInv
<1>4. Named(f)
  BY <1>1 DEF Named, FileFields, File
<1> HIDE DEF u, file, d, f
<1>5. /\ Shaped(e) /\ e.files = d.files \cup {f} /\ e.stream = d.stream
      /\ e.records = d.records /\ e.position = d.position /\ e.current = d.current
      /\ e.ready = d.ready /\ e.endOfRecord = d.endOfRecord
      /\ e.endOfTape = d.endOfTape
  BY <1>3 DEF DriveInv, Shaped, DriveFields
<1> HIDE DEF e
<1>6. FlagsFit(e)
  BY <1>3, <1>5 DEF DriveInv, FlagsFit, Exhausted, CurrentWords, IsLast
<1>7. FilesFit(e)
  <2>1. \A g \in e.files : Named(g)
    BY <1>3, <1>4, <1>5 DEF DriveInv, FilesFit
  <2>2. \E bound \in Nat : \A g \in e.files : g.index < bound
    <3>1. PICK bound \in Nat : \A g \in d.files : g.index < bound
      BY <1>3 DEF DriveInv, FilesFit
    <3>2. PICK n \in Nat : n = f.index
      BY <1>4 DEF Named
    <3>3. \A g \in e.files : g.index \in Nat /\ (g.index < bound \/ g.index = n)
      BY <1>5, <2>1, <3>1, <3>2 DEF Named
    <3>4. CASE n < bound
      BY <3>3, <3>4
    <3>5. CASE n >= bound
      <4>1. n + 1 \in Nat /\ \A g \in e.files : g.index < n + 1
        BY <3>3, <3>5
      <4> QED
        BY <4>1
    <3> QED
      BY <3>4, <3>5
  <2>3. \A g : IsOpenFile(e, g) <=> IsOpenFile(d, g)
    BY <1>5 DEF IsOpenFile
  <2>4. d.stream # NoStream => \E g \in d.files : IsOpenFile(d, g)
    BY <1>3 DEF DriveInv, FilesFit
  <2>5. ~IsOpenFile(d, f)
    <3> SUFFICES ASSUME IsOpenFile(d, f) PROVE FALSE
      OBVIOUS
    <3>1. f.format = "tap" /\ f.index = d.stream
      BY DEF IsOpenFile
    <3>2. d.stream # NoStream
      BY <1>4, <3>1 DEF Named, NoStream
    <3>3. PICK g \in d.files : g.format = "tap" /\ g.index = d.stream
      BY <2>4, <3>2 DEF IsOpenFile
    <3> QED
      BY <1>2, <3>1, <3>3
  <2>6. OpenIsEmpty(e)
    BY <1>3, <1>5, <2>3, <2>5 DEF OpenIsEmpty, DriveInv, FilesFit
  <2> QED
    BY <1>5, <2>1, <2>2, <2>3, <2>4, <2>6 DEF FilesFit
<1>8. Kept(d, e)
  BY <1>5 DEF Kept
<1> QED
  BY <1>1, <1>2, <1>5, <1>6, <1>7, <1>8, OnDriveInv DEF DriveInv, d

LEMMA MagtapeNextInv ==
  ASSUME MagtapeInv, [MagtapeNext]_magtapeVars
  PROVE  MagtapeInv' /\ KeptHere
<1>1. \A x : Kept(x, x) /\ SameFiles(x, x)
  BY DEF Kept, SameFiles
<1>2. \A u \in Units : DriveInv(mt.drives[u])
  BY DEF MagtapeInv, ControllerInv
<1>3. ASSUME NEW mc \in Microcodes, NEW opens \in BOOLEAN, Iot(mc, opens)
      PROVE  MagtapeInv' /\ KeptHere
  <2> DEFINE m == [mt EXCEPT !.skip = FALSE]
  <2>1. mt' = MagtapeIot(m, mc, now, opens)
    BY <1>3 DEF Iot
  <2>2. ControllerInv(m) /\ m.drives = mt.drives
    BY SetRegisters DEF MagtapeInv
  <2> HIDE DEF m
  <2>3. /\ ControllerInv(MagtapeIot(m, mc, now, opens))
        /\ AllKept(m, MagtapeIot(m, mc, now, opens))
    BY <2>2, MagtapeIotInv
  <2> QED
    BY <2>1, <2>2, <2>3 DEF MagtapeInv, KeptHere, AllKept
<1>4. ASSUME NEW w \in GuestWords, LoadAc(w)
      PROVE  MagtapeInv' /\ KeptHere
  <2> DEFINE m == [mt EXCEPT !.ac = w]
             n == [m EXCEPT !.skip = FALSE]
  <2>1. ControllerInv(m) /\ m.drives = mt.drives
    BY SetRegisters DEF MagtapeInv
  <2>2. mt' = n
    BY <1>4 DEF LoadAc
  <2> HIDE DEF m
  <2>3. ControllerInv(mt') /\ mt'.drives = mt.drives
    BY <2>1, <2>2, SetRegisters
  <2> QED
    BY <1>1, <2>3 DEF MagtapeInv, KeptHere
<1>5. ASSUME NEW u \in Units, OperatorNext(u)
      PROVE  MagtapeInv' /\ KeptHere
  <2>1. /\ DriveInv(NextRecord(mt.drives[u]))
        /\ Kept(mt.drives[u], NextRecord(mt.drives[u]))
    BY <1>2, NextRecordInv, SameFilesFit DEF DriveInv
  <2> QED
    BY <1>5, <2>1, OnDriveInv DEF OperatorNext
<1>6. ASSUME NEW u \in Units, NEW opens \in BOOLEAN,
             OperatorRewind(u, opens) \/ OperatorNew(u, opens)
      PROVE  MagtapeInv' /\ KeptHere
  <2>1. /\ DriveInv(Rewound(mt.drives[u], now, opens))
        /\ Kept(mt.drives[u], Rewound(mt.drives[u], now, opens))
        /\ DriveInv(ClosedAndReloaded(mt.drives[u], now, opens))
        /\ Kept(mt.drives[u], ClosedAndReloaded(mt.drives[u], now, opens))
    BY <1>2, RewoundInv, ClosedAndReloadedInv
  <2> QED
    BY <1>6, <2>1, OnDriveInv DEF OperatorRewind, OperatorNew
<1>7. ASSUME NEW drop \in HostFiles, HostDrops(drop[1], drop[2])
      PROVE  MagtapeInv' /\ KeptHere
  BY <1>7, HostDropsInv
<1>8. CASE Restart
  <2> DEFINE drives == [u \in Units |-> Closed(mt.drives[u], now)]
  <2>1. mt' = NewController(drives)
    BY <1>8 DEF Restart
  <2>2. \A u \in Units : /\ DriveInv(Configured(drives[u]))
                         /\ Kept(mt.drives[u], Configured(drives[u]))
    BY <1>2, RestartedInv
  <2> HIDE DEF drives
  <2>3. /\ ControllerInv(NewController(drives))
        /\ \A u \in Units : NewController(drives).drives[u] = Configured(drives[u])
    BY <2>2, NewControllerInv
  <2> QED
    BY <2>1, <2>2, <2>3 DEF MagtapeInv, KeptHere
<1>9. CASE Crash
  <2>1. PICK t \in [Units -> 0 .. now] :
          mt' = NewController([u \in Units |-> CutShort(mt.drives[u], t[u])])
    BY <1>9 DEF Crash
  <2> DEFINE drives == [u \in Units |-> CutShort(mt.drives[u], t[u])]
  <2>2. \A u \in Units : /\ DriveInv(Configured(drives[u]))
                         /\ Kept(mt.drives[u], Configured(drives[u]))
    BY <1>2, CutShortInv
  <2>3. mt' = NewController(drives)
    BY <2>1
  <2> HIDE DEF drives
  <2>4. /\ ControllerInv(NewController(drives))
        /\ \A u \in Units : NewController(drives).drives[u] = Configured(drives[u])
    BY <2>2, NewControllerInv
  <2> QED
    BY <2>2, <2>3, <2>4 DEF MagtapeInv, KeptHere
<1>10. CASE ClockTicks \/ UNCHANGED magtapeVars
  BY <1>1, <1>10 DEF ClockTicks, magtapeVars, MagtapeInv, KeptHere
<1> QED
  BY <1>3, <1>4, <1>5, <1>6, <1>7, <1>8, <1>9, <1>10 DEF MagtapeNext

LEMMA MagtapeInvHolds == MagtapeSpec => []MagtapeInv
<1>1. MagtapeInv /\ [MagtapeNext]_magtapeVars => MagtapeInv'
  BY MagtapeNextInv
<1> QED
  BY MagtapeInitInv, <1>1, PTL DEF MagtapeSpec

\* A guest that waits for READY while words are left in its record sees it come:
\* for any directory, any sequence of microcodes and any interference of the
\* operator (select_unit, perform_read, refresh_manifest).
THEOREM ReadyIsAnnounced == MagtapeSpec => []WordsLeftAreAnnounced
<1>1. MagtapeInv => WordsLeftAreAnnounced
  BY DEF MagtapeInv, ControllerInv, DriveInv, FlagsFit, WordsLeftAreAnnounced
<1> QED
  BY <1>1, MagtapeInvHolds, PTL

\* End of record is raised only with its words read, end of tape only at the
\* last record (perform_read, select_unit, magtape next).
THEOREM EndFlagsTellTheTruth == MagtapeSpec => []EndFlagsTrue
<1>1. MagtapeInv => EndFlagsTrue
  BY DEF MagtapeInv, ControllerInv, DriveInv, FlagsFit, EndFlagsTrue
<1> QED
  BY <1>1, MagtapeInvHolds, PTL

\* No file is lost or altered but the one being written, which is still empty:
\* also by a restart or a crash (ensure_write_stream, close_write_stream).
THEOREM NoFileIsLost == MagtapeSpec => FilesKept
<1>1. MagtapeInv /\ [MagtapeNext]_magtapeVars
        => \A u \in Units : LET d == mt.drives[u] IN
             \A f \in d.files :
               \/ f \in mt'.drives[u].files
               \/ IsOpenFile(d, f) /\ f.body = <<>> /\ ~f.sealed
  BY MagtapeNextInv DEF KeptHere, Kept
<1> QED
  BY <1>1, MagtapeInvHolds, PTL DEF FilesKept, MagtapeSpec

-----------------------------------------------------------------------------
(* What a drive holds is true: the files, the records read from them, and   *)
(* what the guest has heard.                                                *)

\* The words read are those before the cursor.
CursorFits(d) ==
  /\ d.records = <<>> => d.current = 0 /\ d.position = 0
  /\ d.records # <<>> => d.current < Len(d.records) /\ d.position <= Len(CurrentWords(d))

WordsBefore(d) == FlattenSeq([i \in 1 .. d.current |-> d.records[i].words])

HeardAll(d) ==
  d.records # <<>> /\ ~d.skipped =>
    d.heard = WordsBefore(d) \o SubSeq(CurrentWords(d), 1, d.position)

\* What a record gives back is what it was meant to hold, or it is marked.
Truthful(r) == ~r.partial => r.words = r.meant

IsTape(f, n) == f.format = "tap" /\ f.index = n

RecordsTrue(d) ==
  /\ \A k \in DOMAIN d.records : LET r == d.records[k] IN
       /\ Truthful(r)
       /\ ClosedBy(d, r) /\ Len(r.meant) < LengthField => ~r.partial
  /\ \A i, j \in DOMAIN d.made : \A k, l \in DOMAIN d.records :
       i < j /\ IsTape(d.records[k], d.made[i]) /\ IsTape(d.records[l], d.made[j]) => k < l

\* Every file has its own name and none is newer than the clock.
Orderly(files, t) ==
  /\ IsFiniteSet(files)
  /\ \A f, g \in files : f.index = g.index /\ f.format = g.format => f = g
  /\ \A f \in files : f.mtime <= t /\ WholeTape(f)

\* None but the open one has something else in it than it was meant to hold.
FilesTrue(d, t) ==
  /\ Orderly(d.files, t)
  /\ \A f \in d.files : IsOpenFile(d, f) \/ Truthful(RecordOf(f))

WellClosed(f) == f.sealed /\ f.body = f.meant /\ f.declared = Len(f.body) % LengthField

\* The files the unit has closed are there, as it closed them, and the later ones
\* have the higher names and are not older.
MadeTrue(d) ==
  /\ \A i \in DOMAIN d.made : \E f \in d.files : IsTape(f, d.made[i])
  /\ \A i \in DOMAIN d.made : \A f \in d.files : IsTape(f, d.made[i]) => WellClosed(f)
  /\ \A i, j \in DOMAIN d.made : i < j =>
       /\ d.made[i] < d.made[j]
       /\ \A f, g \in d.files :
            IsTape(f, d.made[i]) /\ IsTape(g, d.made[j]) => f.mtime <= g.mtime
  /\ d.stream # NoStream => \A i \in DOMAIN d.made : d.made[i] < d.stream

StreamTrue(d) == d.accepted = d.written /\ (d.stream = NoStream => d.written = <<>>)

ReadingTrue(d) == CursorFits(d) /\ HeardAll(d) /\ RecordsTrue(d)

DirectoryTrue(d, t) == FilesTrue(d, t) /\ MadeTrue(d) /\ StreamTrue(d)

DriveTrue(d, t) == d \in Drive /\ ReadingTrue(d) /\ DirectoryTrue(d, t)

-----------------------------------------------------------------------------
(* Records.                                                                 *)

LEMMA WholeWordsAreWords ==
  ASSUME NEW f \in File
  PROVE  WholeWords(f) \in Seq(Word)
<1> DEFINE s == [i \in DOMAIN f.body |-> IF f.body[i] < Half THEN <<f.body[i]>> ELSE <<>>]
<1>1. f.body \in Seq(Word \cup {Half, Gap})
  BY DEF File
<1>2. ASSUME NEW i \in DOMAIN f.body
      PROVE  (IF f.body[i] < Half THEN <<f.body[i]>> ELSE <<>>) \in Seq(Word)
  <2>1. f.body[i] \in Word \cup {Half, Gap}
    BY <1>1, <1>2
  <2>2. f.body[i] < Half => f.body[i] \in Word
    BY <2>1 DEF Half, Gap
  <2> QED
    BY <2>2
<1>3. s \in Seq(Seq(Word))
  <2>1. DOMAIN f.body = 1 .. Len(f.body) /\ Len(f.body) \in Nat
    BY <1>1
  <2> HIDE DEF s
  <2>2. \A i \in DOMAIN f.body : s[i] \in Seq(Word)
    BY <1>2 DEF s
  <2>3. s = [i \in 1 .. Len(f.body) |-> s[i]]
    BY <2>1 DEF s
  <2> QED
    BY <2>1, <2>2, <2>3
<1> QED
  BY <1>3, FlattenIsSeq DEF WholeWords

LEMMA SrecRecordTyped ==
  ASSUME NEW f \in File
  PROVE  SrecRecord(f) \in Record
<1> DEFINE p == \E i \in DOMAIN f.body : f.body[i] = Half
<1>1. p \in BOOLEAN
  OBVIOUS
<1>2. SrecRecord(f) = [index |-> f.index, format |-> f.format, words |-> WholeWords(f),
                       partial |-> p, meant |-> f.meant]
  BY DEF SrecRecord
<1> HIDE DEF p
<1> QED
  BY <1>1, <1>2, WholeWordsAreWords DEF Record, File

LEMMA TapRecordTyped ==
  ASSUME NEW f \in File, f.body \in Seq(Word)
  PROVE  /\ TapRecord(f) \in Record
         /\ TapRecord(f).partial <=> ~(f.sealed /\ f.declared = Len(f.body))
         /\ f.declared = Len(f.body) => TapRecord(f).words = f.body
<1> DEFINE p == ~(f.sealed /\ f.declared = Len(f.body))
           n == IF f.declared < Len(f.body) THEN f.declared ELSE Len(f.body)
           w == SubSeq(f.body, 1, n)
<1>1. p \in BOOLEAN
  OBVIOUS
<1>2. n \in 0 .. Len(f.body)
  BY DEF File
<1>3. w \in Seq(Word)
  <2> HIDE DEF n
  <2>1. \A i \in 1 .. n : f.body[i] \in Word
    BY <1>2
  <2> QED
    BY <1>2, <2>1, SubSeqProperties
<1>4. f.declared = Len(f.body) => w = f.body
  BY SubSeqFull
<1>5. TapRecord(f) = [index |-> f.index, format |-> f.format, words |-> w,
                      partial |-> p, meant |-> f.meant]
  BY DEF TapRecord
<1> HIDE DEF w, n
<1>6. TapRecord(f) \in Record
  <2> HIDE DEF p
  <2> QED
    BY <1>1, <1>3, <1>5 DEF Record, File
<1>7. TapRecord(f).words = w
  BY <1>5
<1>8. TapRecord(f).partial <=> p
  <2> HIDE DEF p
  <2> QED
    BY <1>5
<1> QED
  BY <1>4, <1>6, <1>7, <1>8

LEMMA RecordOfTyped ==
  ASSUME NEW f \in File, WholeTape(f)
  PROVE  /\ RecordOf(f) \in Record
         /\ RecordOf(f).index = f.index /\ RecordOf(f).format = f.format
         /\ RecordOf(f).meant = f.meant
<1>1. RecordOf(f) \in Record
  BY SrecRecordTyped, TapRecordTyped DEF RecordOf, WholeTape, File
<1> QED
  BY <1>1 DEF RecordOf, TapRecord, SrecRecord

\* A file closed in order reads as it was meant, and is marked only if its length
\* does not fit its header.
LEMMA WellClosedReads ==
  ASSUME NEW f \in File, f.format = "tap", WholeTape(f), WellClosed(f)
  PROVE  /\ Truthful(RecordOf(f))
         /\ Len(f.meant) < LengthField => ~RecordOf(f).partial
<1>1. f.body \in Seq(Word) /\ RecordOf(f) = TapRecord(f)
  BY DEF WholeTape, RecordOf
<1>2. /\ TapRecord(f).partial <=> ~(f.sealed /\ f.declared = Len(f.body))
      /\ f.declared = Len(f.body) => TapRecord(f).words = f.body
      /\ TapRecord(f).meant = f.meant
  BY <1>1, TapRecordTyped DEF TapRecord
<1>3. Len(f.meant) < LengthField => f.declared = Len(f.body)
  <2> SUFFICES ASSUME Len(f.meant) < LengthField PROVE f.declared = Len(f.body)
    OBVIOUS
  <2>1. PICK n \in Nat : n = Len(f.body)
    BY <1>1
  <2>2. PICK m \in Nat \ {0} : m = LengthField
    BY MagtapeConstantsAssumption
  <2>3. n % LengthField = n
    <3>1. n < m
      BY <2>1, <2>2 DEF WellClosed
    <3>2. n \in 0 .. m - 1 /\ m * 0 + n = n
      BY <3>1
    <3>3. (m * 0 + n) % m = n
      BY <3>2, DivisionUnique
    <3> QED
      BY <2>2, <3>2, <3>3
  <2> QED
    BY <2>1, <2>3 DEF WellClosed
<1> QED
  BY <1>1, <1>2, <1>3 DEF Truthful, WellClosed

\* A file that is not sealed reads as a partial record.
LEMMA UnsealedIsMarked ==
  ASSUME NEW f, f.format = "tap", ~f.sealed
  PROVE  Truthful(RecordOf(f))
  BY DEF Truthful, RecordOf, TapRecord

-----------------------------------------------------------------------------
(* The scan.                                                                *)

BeforePairs(files) == {p \in files \X files : Before(p[1], p[2])}

LEMMA BeforeIsStrict ==
  ASSUME NEW files \in SUBSET File,
         \A f, g \in files : f.index = g.index /\ f.format = g.format => f = g
  PROVE  StrictOrder(files, BeforePairs(files))
<1>1. \A f, g \in files : <<f, g>> \in BeforePairs(files) <=> Before(f, g)
  BY DEF BeforePairs
<1>2. \A f \in files : f.mtime \in Nat /\ f.index \in Nat /\ f.format \in {"tap", "srec"}
  BY DEF File
<1>3. \A f \in files : ~Before(f, f)
  BY <1>2 DEF Before
<1>4. ASSUME NEW f \in files, NEW g \in files, NEW h \in files, Before(f, g), Before(g, h)
      PROVE  Before(f, h)
  BY <1>2, <1>4 DEF Before
<1>5. ASSUME NEW f \in files, NEW g \in files, f # g
      PROVE  Before(f, g) \/ Before(g, f)
  <2>1. f.index # g.index \/ f.format # g.format
    BY <1>5
  <2> QED
    BY <1>2, <2>1 DEF Before
<1> QED
  BY <1>1, <1>3, <1>4, <1>5 DEF StrictOrder

\* Every record is that of a file, and files stand in the order of their records.
LEMMA LoadedInOrder ==
  ASSUME NEW files \in SUBSET File, IsFiniteSet(files),
         \A f, g \in files : f.index = g.index /\ f.format = g.format => f = g
  PROVE  \E order \in Seq(files) :
           /\ Len(LoadedRecords(files)) = Len(order)
           /\ LoadedRecords(files) = [k \in 1 .. Len(order) |-> RecordOf(order[k])]
           /\ \A k, l \in 1 .. Len(order) : Before(order[k], order[l]) => k < l
<1> DEFINE R == BeforePairs(files)
           order == InOrder(files, R)
<1>1. StrictOrder(files, R)
  BY BeforeIsStrict
<1>2. LoadedRecords(files) = [k \in DOMAIN order |-> RecordOf(order[k])]
  BY DEF LoadedRecords, BeforePairs
<1>3. \A f, g \in files : Before(f, g) => <<f, g>> \in R
  BY DEF BeforePairs
<1> HIDE DEF R
<1>4. /\ Cardinality(files) \in Nat /\ order \in Seq(files)
      /\ Len(order) = Cardinality(files)
      /\ \A k \in 1 .. Cardinality(files) : Place(files, R, order[k]) = k - 1
  BY <1>1, InOrderSorts
<1> HIDE DEF order
<1>5. DOMAIN order = 1 .. Len(order) /\ Len(order) \in Nat
  BY <1>4
<1>6. LoadedRecords(files) = [k \in 1 .. Len(order) |-> RecordOf(order[k])]
  BY <1>2, <1>5
<1>7. Len(LoadedRecords(files)) = Len(order)
  BY <1>5, <1>6
<1>8. ASSUME NEW k \in 1 .. Len(order), NEW l \in 1 .. Len(order),
             Before(order[k], order[l])
      PROVE  k < l
  <2>1. order[k] \in files /\ order[l] \in files
    BY <1>4
  <2>2. Place(files, R, order[k]) < Place(files, R, order[l])
    BY <1>1, <1>3, <1>8, <2>1, PlaceOrder
  <2>3. Place(files, R, order[k]) = k - 1 /\ Place(files, R, order[l]) = l - 1
    BY <1>4
  <2> QED
    BY <1>5, <2>2, <2>3
<1> QED
  BY <1>4, <1>6, <1>7, <1>8

\* What the scan finds is true, if nothing is open.
LEMMA LoadedTrue ==
  ASSUME NEW d \in Drive, NEW t \in Nat, DirectoryTrue(d, t), d.stream = NoStream,
         NEW e, e.records = LoadedRecords(d.files), e.made = d.made
  PROVE  e.records \in Seq(Record) /\ RecordsTrue(e)
<1>1. /\ d.files \in SUBSET File /\ IsFiniteSet(d.files)
      /\ \A f, g \in d.files : f.index = g.index /\ f.format = g.format => f = g
  BY DEF Drive, DirectoryTrue, FilesTrue, Orderly
<1>2. PICK order \in Seq(d.files) :
        /\ Len(e.records) = Len(order)
        /\ e.records = [k \in 1 .. Len(order) |-> RecordOf(order[k])]
        /\ \A k, l \in 1 .. Len(order) : Before(order[k], order[l]) => k < l
  BY <1>1, LoadedInOrder
<1>3. ASSUME NEW f \in d.files
      PROVE  /\ f \in File /\ WholeTape(f) /\ ~IsOpenFile(d, f) /\ Truthful(RecordOf(f))
             /\ RecordOf(f) \in Record
             /\ RecordOf(f).index = f.index /\ RecordOf(f).format = f.format
             /\ RecordOf(f).meant = f.meant
             /\ f.index \in Nat /\ f.mtime \in Nat
  <2>1. f \in File /\ WholeTape(f)
    BY <1>1 DEF DirectoryTrue, FilesTrue, Orderly
  <2>2. f.index \in Nat /\ f.mtime \in Nat
    BY <2>1 DEF File
  <2>3. ~IsOpenFile(d, f)
    BY <2>2 DEF IsOpenFile, NoStream
  <2> QED
    BY <2>1, <2>2, <2>3, RecordOfTyped DEF DirectoryTrue, FilesTrue
<1>4. ASSUME NEW k \in 1 .. Len(order)
      PROVE  order[k] \in d.files /\ e.records[k] = RecordOf(order[k])
  BY <1>2
<1>5. Len(order) \in Nat /\ DOMAIN e.records = 1 .. Len(order)
  BY <1>2
<1>6. e.records \in Seq(Record)
  BY <1>2, <1>3, <1>4, <1>5
<1>7. ASSUME NEW k \in DOMAIN e.records
      PROVE  /\ Truthful(e.records[k])
             /\ ClosedBy(e, e.records[k]) /\ Len(e.records[k].meant) < LengthField
                  => ~e.records[k].partial
  <2> DEFINE f == order[k]
  <2>1. f \in d.files /\ e.records[k] = RecordOf(f)
    BY <1>4, <1>5, <1>7
  <2> HIDE DEF f
  <2>2. ASSUME ClosedBy(e, e.records[k]), Len(e.records[k].meant) < LengthField
        PROVE  ~e.records[k].partial
    <3>1. PICK i \in DOMAIN d.made : IsTape(f, d.made[i])
      BY <1>3, <2>1, <2>2 DEF ClosedBy, IsTape
    <3>2. WellClosed(f) /\ f.format = "tap"
      BY <2>1, <3>1 DEF DirectoryTrue, MadeTrue, IsTape
    <3> QED
      BY <1>3, <2>1, <2>2, <3>2, WellClosedReads
  <2> QED
    BY <1>3, <2>1, <2>2
<1>8. ASSUME NEW i \in DOMAIN e.made, NEW j \in DOMAIN e.made,
             NEW k \in DOMAIN e.records, NEW l \in DOMAIN e.records,
             i < j, IsTape(e.records[k], e.made[i]), IsTape(e.records[l], e.made[j])
      PROVE  k < l
  <2> DEFINE f == order[k]
             g == order[l]
  <2>1. /\ f \in d.files /\ e.records[k] = RecordOf(f)
        /\ g \in d.files /\ e.records[l] = RecordOf(g)
    BY <1>4, <1>5, <1>8
  <2>2. Before(f, g) => k < l
    BY <1>2, <1>5
  <2> HIDE DEF f, g
  <2>3. IsTape(f, d.made[i]) /\ IsTape(g, d.made[j])
    BY <1>3, <1>8, <2>1 DEF IsTape
  <2>4. d.made[i] < d.made[j] /\ f.mtime <= g.mtime
    BY <1>8, <2>1, <2>3 DEF DirectoryTrue, MadeTrue
  <2>5. f.index < g.index /\ f.mtime \in Nat /\ g.mtime \in Nat
    BY <1>3, <2>1, <2>3, <2>4 DEF IsTape
  <2>6. Before(f, g)
    BY <2>4, <2>5 DEF Before
  <2> QED
    BY <2>2, <2>6
<1> QED
  BY <1>6, <1>7, <1>8 DEF RecordsTrue

SameDirectory(d, e) ==
  /\ SameFiles(d, e) /\ e.made = d.made
  /\ e.written = d.written /\ e.accepted = d.accepted

LEMMA SameDirectoryTrue ==
  ASSUME NEW d, NEW e, NEW t, DirectoryTrue(d, t), SameDirectory(d, e)
  PROVE  DirectoryTrue(e, t)
<1>1. /\ e.files = d.files /\ e.stream = d.stream /\ e.made = d.made
      /\ e.written = d.written /\ e.accepted = d.accepted
  BY DEF SameDirectory, SameFiles
<1>2. \A f : IsOpenFile(e, f) <=> IsOpenFile(d, f)
  BY <1>1 DEF IsOpenFile
<1>3. FilesTrue(e, t)
  BY <1>1, <1>2 DEF DirectoryTrue, FilesTrue
<1>4. MadeTrue(e)
  BY <1>1 DEF DirectoryTrue, MadeTrue
<1>5. StreamTrue(e)
  BY <1>1 DEF DirectoryTrue, StreamTrue
<1> QED
  BY <1>3, <1>4, <1>5 DEF DirectoryTrue

LEMMA NothingReadTrue ==
  ASSUME NEW d, d.records = <<>>, d.current = 0, d.position = 0
  PROVE  ReadingTrue(d)
  BY DEF ReadingTrue, CursorFits, HeardAll, RecordsTrue

LEMMA ClearedTrue ==
  ASSUME NEW d \in Drive
  PROVE  /\ Cleared(d) \in Drive /\ SameDirectory(d, Cleared(d))
         /\ Cleared(d).records = <<>> /\ Cleared(d).current = 0
         /\ Cleared(d).position = 0 /\ Cleared(d).heard = <<>>
<1>1. Cleared(d) \in Drive
  <2>1. <<>> \in Seq(Record) /\ <<>> \in Seq(Word) /\ 0 \in Nat /\ FALSE \in BOOLEAN
    OBVIOUS
  <2> QED
    BY <2>1, Zenon DEF Cleared, Drive
<1>2. DOMAIN d = DriveFields
  BY DEF Drive, DriveFields
<1>3. SameDirectory(d, Cleared(d))
  BY <1>2 DEF Cleared, DriveFields, SameDirectory, SameFiles
<1>4. /\ Cleared(d).records = <<>> /\ Cleared(d).current = 0
      /\ Cleared(d).position = 0 /\ Cleared(d).heard = <<>>
  BY <1>2 DEF Cleared, DriveFields
<1> QED
  BY <1>1, <1>3, <1>4

LEMMA ReloadedTrue ==
  ASSUME NEW d \in Drive, NEW t \in Nat, DirectoryTrue(d, t), d.stream = NoStream,
         NEW opens
  PROVE  DriveTrue(Reloaded(d, opens), t)
<1> DEFINE c == Cleared(d)
           loaded == LoadedRecords(d.files)
           ready == loaded # <<>> /\ loaded[1].words # <<>>
           end == loaded = <<>>
           x == [c EXCEPT !.error = TRUE]
           e == [c EXCEPT !.records = loaded, !.ready = ready, !.endOfTape = end]
<1>1. /\ c \in Drive /\ SameDirectory(d, c)
      /\ c.records = <<>> /\ c.current = 0 /\ c.position = 0 /\ c.heard = <<>>
  BY ClearedTrue
<1>2. Reloaded(d, opens) = IF ~opens THEN c
                           ELSE IF \E f \in d.files : ~Loadable(f) THEN x ELSE e
  BY DEF Reloaded
<1>3. ready \in BOOLEAN /\ end \in BOOLEAN
  OBVIOUS
<1> HIDE DEF c, ready, end
<1>4. DriveTrue(c, t)
  BY <1>1, SameDirectoryTrue, NothingReadTrue DEF DriveTrue
<1>5. DriveTrue(x, t)
  <2>1. /\ x \in Drive /\ SameDirectory(d, x)
        /\ x.records = <<>> /\ x.current = 0 /\ x.position = 0
    BY <1>1 DEF Drive, SameDirectory, SameFiles
  <2> HIDE DEF x
  <2> QED
    BY <2>1, SameDirectoryTrue, NothingReadTrue DEF DriveTrue
<1>6. DriveTrue(e, t)
  <2>1. /\ e.records = loaded /\ e.made = d.made /\ e.current = 0 /\ e.position = 0
        /\ e.heard = <<>> /\ SameDirectory(d, e)
    BY <1>1 DEF Drive, SameDirectory, SameFiles
  <2>2. loaded \in Seq(Record) /\ RecordsTrue(e)
    <3> HIDE DEF e, loaded
    <3> QED
      BY <2>1, LoadedTrue DEF loaded
  <2> HIDE DEF loaded
  <2>3. e \in Drive
    BY <1>1, <1>3, <2>2 DEF Drive
  <2> HIDE DEF e
  <2>4. CursorFits(e)
    <3>1. e.records # <<>> => 0 < Len(e.records) /\ CurrentWords(e) \in Seq(Word)
      <4> SUFFICES ASSUME e.records # <<>>
                   PROVE  0 < Len(e.records) /\ CurrentWords(e) \in Seq(Word)
        OBVIOUS
      <4>1. e.records \in Seq(Record)
        BY <2>1, <2>2
      <4>2. 0 < Len(e.records) /\ e.records[1] \in Record
        BY <4>1
      <4> QED
        BY <2>1, <4>2 DEF CurrentWords, Record
    <3> QED
      BY <2>1, <3>1 DEF CursorFits
  <2>5. HeardAll(e)
    <3>1. WordsBefore(e) = <<>>
      <4>1. [i \in 1 .. e.current |-> e.records[i].words] = <<>>
        BY <2>1
      <4>2. <<>> \in Seq(Seq(Word)) /\ Len(<<>>) = 0
        OBVIOUS
      <4>3. FlattenSeq(<<>>) = <<>>
        BY DEF FlattenSeq
      <4> QED
        BY <4>1, <4>3 DEF WordsBefore
    <3>2. SubSeq(CurrentWords(e), 1, 0) = <<>>
      BY SubSeqEmpty
    <3>3. <<>> \o <<>> = <<>>
      OBVIOUS
    <3> QED
      BY <2>1, <3>1, <3>2, <3>3 DEF HeardAll
  <2> QED
    BY <2>1, <2>2, <2>3, <2>4, <2>5, SameDirectoryTrue DEF DriveTrue, ReadingTrue
<1> HIDE DEF x, e
<1> QED
  BY <1>2, <1>4, <1>5, <1>6

-----------------------------------------------------------------------------
(* A file joins the directory, or takes the place of the open one.          *)

LEMMA PlacedOrderly ==
  ASSUME NEW files \in SUBSET File, NEW t, Orderly(files, t), NEW A \in SUBSET files,
         NEW x \in File, x.mtime <= t, WholeTape(x),
         \A g \in A : g.index # x.index \/ g.format # x.format
  PROVE  A \cup {x} \in SUBSET File /\ Orderly(A \cup {x}, t)
<1>1. IsFiniteSet(A)
  BY FS_Subset DEF Orderly
<1>2. IsFiniteSet(A \cup {x})
  BY <1>1, FS_AddElement
<1> QED
  BY <1>2 DEF Orderly

\* What the unit made is still there.
LEMMA StillMade ==
  ASSUME NEW d \in Drive, MadeTrue(d), NEW e, e.made = d.made,
         \A f \in d.files : IsOpenFile(d, f) \/ f \in e.files,
         \A i \in DOMAIN d.made : \A f \in e.files :
           IsTape(f, d.made[i]) => f \in d.files,
         e.stream # NoStream => \A i \in DOMAIN d.made : d.made[i] < e.stream
  PROVE  MadeTrue(e)
<1>1. d.made \in Seq(Nat)
  BY DEF Drive
<1>2. ASSUME NEW i \in DOMAIN d.made
      PROVE  \E f \in e.files : IsTape(f, d.made[i])
  <2>1. PICK f \in d.files : IsTape(f, d.made[i])
    BY DEF MadeTrue
  <2>2. d.made[i] \in Nat
    BY <1>1
  <2>3. ~IsOpenFile(d, f)
    <3> SUFFICES ASSUME IsOpenFile(d, f) PROVE FALSE
      OBVIOUS
    <3>1. d.stream = d.made[i] /\ d.stream # NoStream
      BY <2>1, <2>2 DEF IsOpenFile, IsTape, NoStream
    <3>2. d.made[i] < d.stream
      BY <3>1 DEF MadeTrue
    <3> QED
      BY <2>2, <3>1, <3>2
  <2> QED
    BY <2>1, <2>3
<1> QED
  BY <1>2 DEF MadeTrue

\* The open file is another one than those made.
LEMMA OpenIsNotMade ==
  ASSUME NEW d \in Drive, MadeTrue(d), d.stream # NoStream, NEW f, IsTape(f, d.stream),
         NEW i \in DOMAIN d.made
  PROVE  ~IsTape(f, d.made[i])
<1>1. d.made[i] < d.stream /\ d.made[i] \in Nat /\ d.stream \in Int
  BY DEF MadeTrue, Drive
<1> QED
  BY <1>1 DEF IsTape

\* The open file gives way to one of its name, and nothing is open any more.
LEMMA PutAwayTrue ==
  ASSUME NEW d \in Drive, NEW t, DirectoryTrue(d, t), d.stream # NoStream,
         NEW o \in d.files, IsOpenFile(d, o),
         NEW x \in File, IsTape(x, d.stream), x.mtime <= t, WholeTape(x),
         Truthful(RecordOf(x)),
         NEW e, e.files = (d.files \ {o}) \cup {x}, e.made = d.made,
         e.stream = NoStream, e.written = <<>>, e.accepted = <<>>
  PROVE  e.files \in SUBSET File /\ DirectoryTrue(e, t)
<1> DEFINE A == d.files \ {o}
<1>1. d.files \in SUBSET File /\ Orderly(d.files, t) /\ MadeTrue(d) /\ A \in SUBSET d.files
  BY DEF Drive, DirectoryTrue, FilesTrue
<1>2. ASSUME NEW g \in d.files, IsTape(g, d.stream) PROVE g = o
  BY <1>1, <1>2 DEF IsOpenFile, IsTape, Orderly
<1>3. \A g \in A : g.index # x.index \/ g.format # x.format
  BY <1>2 DEF IsTape
<1>4. e.files \in SUBSET File /\ Orderly(e.files, t)
  <2> HIDE DEF A
  <2>1. A \cup {x} \in SUBSET File /\ Orderly(A \cup {x}, t)
    BY <1>1, <1>3, PlacedOrderly
  <2> QED
    BY <2>1 DEF A
<1>5. \A f : ~IsOpenFile(e, f) \/ f \notin e.files
  BY <1>4 DEF IsOpenFile, NoStream, File
<1>6. ASSUME NEW f \in e.files PROVE Truthful(RecordOf(f))
  <2>1. CASE f = x
    BY <2>1
  <2>2. CASE f \in d.files /\ f # o
    <3>1. ~IsOpenFile(d, f)
      BY <1>2, <2>2 DEF IsOpenFile, IsTape
    <3> QED
      BY <2>2, <3>1 DEF DirectoryTrue, FilesTrue
  <2> QED
    BY <2>1, <2>2
<1>7. \A f \in d.files : IsOpenFile(d, f) \/ f \in e.files
  OBVIOUS
<1>8. \A i \in DOMAIN d.made : \A f \in e.files : IsTape(f, d.made[i]) => f \in d.files
  BY <1>1, OpenIsNotMade
<1>9. MadeTrue(e)
  BY <1>1, <1>7, <1>8, StillMade
<1> QED
  BY <1>4, <1>6, <1>9 DEF DirectoryTrue, FilesTrue, StreamTrue

\* One more file made.
LEMMA MadeOneMore ==
  ASSUME NEW d, NEW t, d.files \in SUBSET File, Orderly(d.files, t), MadeTrue(d),
         d.made \in Seq(Nat), t \in Nat, NEW n \in Nat, \A i \in DOMAIN d.made : d.made[i] < n,
         NEW x \in d.files, IsTape(x, n), WellClosed(x), x.mtime = t,
         NEW e, e.files = d.files, e.stream = NoStream, e.made = Append(d.made, n)
  PROVE  MadeTrue(e)
<1> DEFINE last == Len(d.made) + 1
<1>1. /\ Len(d.made) \in Nat /\ DOMAIN d.made = 1 .. Len(d.made)
      /\ DOMAIN e.made = 1 .. last
      /\ \A i \in 1 .. Len(d.made) : e.made[i] = d.made[i]
      /\ e.made[last] = n
  BY AppendProperties
<1>2. \A g \in d.files : IsTape(g, n) => g = x
  BY DEF IsTape, Orderly
<1>3. \A i \in DOMAIN e.made : i = last \/ (i \in DOMAIN d.made /\ e.made[i] = d.made[i])
  BY <1>1
<1>4. \A g \in d.files : g.mtime <= t
  BY DEF Orderly
<1>5. \A i, j \in DOMAIN e.made : i < j => i \in DOMAIN d.made
  BY <1>1
<1>6. e.made[last] = n
  BY <1>1
<1> HIDE DEF last
<1>7. \A i \in DOMAIN e.made : \E f \in e.files : IsTape(f, e.made[i])
  BY <1>3, <1>6 DEF MadeTrue
<1>8. \A i \in DOMAIN e.made : \A f \in e.files : IsTape(f, e.made[i]) => WellClosed(f)
  BY <1>2, <1>3, <1>6 DEF MadeTrue
<1>9. ASSUME NEW i \in DOMAIN e.made, NEW j \in DOMAIN e.made, i < j
      PROVE  /\ e.made[i] < e.made[j]
             /\ \A f, g \in e.files :
                  IsTape(f, e.made[i]) /\ IsTape(g, e.made[j]) => f.mtime <= g.mtime
  <2>1. i \in DOMAIN d.made /\ e.made[i] = d.made[i]
    BY <1>1, <1>5, <1>9
  <2>2. CASE j = last
    BY <1>2, <1>4, <1>6, <2>1, <2>2
  <2>3. CASE j \in DOMAIN d.made /\ e.made[j] = d.made[j]
    BY <1>9, <2>1, <2>3 DEF MadeTrue
  <2> QED
    BY <1>3, <2>2, <2>3
<1> QED
  BY <1>7, <1>8, <1>9 DEF MadeTrue

\* The file in which the stream ends up.
LEMMA SealedIsWellClosed ==
  ASSUME NEW d \in Drive, StreamTrue(d), NEW t \in Nat, NEW f \in File, IsOpenFile(d, f)
  PROVE  LET x == SealedFile(d, f, t)
         IN  /\ x \in File /\ IsTape(x, d.stream) /\ x.mtime = t /\ WholeTape(x)
             /\ WellClosed(x) /\ Truthful(RecordOf(x))
<1> DEFINE n == Len(d.written) % LengthField
           x == SealedFile(d, f, t)
<1>1. n \in Nat
  <2>1. PICK k \in Nat : k = Len(d.written)
    BY DEF Drive
  <2>2. PICK m \in Nat \ {0} : m = LengthField
    BY MagtapeConstantsAssumption
  <2>3. k % m \in 0 .. m - 1
    BY Division
  <2>4. k % m \in Nat
    BY <2>3
  <2> QED
    BY <2>1, <2>2, <2>4
<1>2. d.written \in Seq(Word) /\ d.accepted = d.written
  BY DEF Drive, StreamTrue
<1>3. d.written \in Seq(Word \cup {Half, Gap})
  BY <1>2
<1>4. x = [f EXCEPT !.body = d.written, !.declared = n, !.sealed = TRUE, !.mtime = t,
                    !.meant = d.written]
  BY <1>2 DEF SealedFile
<1>5. /\ x.index = f.index /\ x.format = f.format /\ x.mtime = t /\ x.body = d.written
      /\ x.sealed /\ x.declared = n /\ x.meant = d.written
  BY <1>4 DEF File
<1>6. x \in File
  <2> HIDE DEF n
  <2>1. TRUE \in BOOLEAN
    OBVIOUS
  <2> QED
    BY <1>1, <1>2, <1>3, <1>4, <2>1, Zenon DEF File
<1> HIDE DEF x
<1>7. WellClosed(x) /\ WholeTape(x) /\ IsTape(x, d.stream) /\ x.format = "tap"
  BY <1>2, <1>5 DEF WellClosed, WholeTape, IsOpenFile, IsTape
<1>8. Truthful(RecordOf(x))
  BY <1>6, <1>7, WellClosedReads
<1> QED
  BY <1>5, <1>6, <1>7, <1>8 DEF x

\* One file of the directory is the open one.
LEMMA OpenFileIsOne ==
  ASSUME NEW d \in Drive, DriveInv(d), d.stream # NoStream, NEW t, Orderly(d.files, t)
  PROVE  \E o \in d.files : \A f \in d.files : IsOpenFile(d, f) <=> f = o
  BY DEF DriveInv, FilesFit, Orderly, IsOpenFile

LEMMA ClosedTrue ==
  ASSUME NEW d, DriveInv(d), NEW t \in Nat, DriveTrue(d, t)
  PROVE  /\ Closed(d, t) \in Drive /\ DirectoryTrue(Closed(d, t), t)
         /\ Closed(d, t).stream = NoStream
<1>1. CASE d.stream = NoStream
  BY <1>1 DEF Closed, DriveTrue
<1>2. CASE d.stream # NoStream
  <2> DEFINE e == Closed(d, t)
             S == {IF IsOpenFile(d, f) THEN SealedFile(d, f, t) ELSE f : f \in d.files}
  <2>1. /\ d \in Drive /\ DirectoryTrue(d, t) /\ Orderly(d.files, t) /\ StreamTrue(d)
        /\ MadeTrue(d)
    BY DEF DriveTrue, DirectoryTrue, FilesTrue
  <2>2. PICK o \in d.files : \A f \in d.files : IsOpenFile(d, f) <=> f = o
    BY <1>2, <2>1, OpenFileIsOne
  <2> DEFINE x == SealedFile(d, o, t)
  <2>3. S = (d.files \ {o}) \cup {x}
    BY <2>2
  <2>4. /\ x \in File /\ IsTape(x, d.stream) /\ x.mtime = t /\ WholeTape(x)
        /\ WellClosed(x) /\ Truthful(RecordOf(x))
    <3>1. o \in File
      BY <2>1 DEF Drive
    <3> QED
      BY <2>1, <2>2, <3>1, SealedIsWellClosed
  <2>5. e = [d EXCEPT !.files = S, !.stream = NoStream, !.written = <<>>,
                      !.accepted = <<>>, !.made = Append(@, d.stream)]
    BY <1>2 DEF Closed
  <2> HIDE DEF S, x, e
  <2>6. d.stream \in Nat
    <3>1. o \in File /\ d.stream = o.index
      BY <2>1, <2>2 DEF Drive, IsOpenFile
    <3> QED
      BY <3>1 DEF File
  <2>7. /\ e.files = S /\ e.stream = NoStream /\ e.written = <<>> /\ e.accepted = <<>>
        /\ e.made = Append(d.made, d.stream)
    BY <2>1, <2>5 DEF Drive
  <2> DEFINE c == [files |-> S, stream |-> NoStream, written |-> <<>>,
                   accepted |-> <<>>, made |-> d.made]
  <2>8. /\ c.files = (d.files \ {o}) \cup {x} /\ c.stream = NoStream
        /\ c.written = <<>> /\ c.accepted = <<>> /\ c.made = d.made
    BY <2>3
  <2> HIDE DEF c
  <2>9. c.files \in SUBSET File /\ DirectoryTrue(c, t)
    <3>1. x.mtime <= t
      BY <2>4
    <3> QED
      BY <1>2, <2>1, <2>2, <2>4, <2>8, <3>1, PutAwayTrue
  <2>10. e.files = c.files
    BY <2>3, <2>7, <2>8
  <2>11. MadeTrue(e)
    <3>1. d.made \in Seq(Nat)
      BY <2>1 DEF Drive
    <3>2. \A i \in DOMAIN d.made : d.made[i] < d.stream
      BY <1>2, <2>1 DEF MadeTrue
    <3>3. x \in c.files
      BY <2>8
    <3>4. Orderly(c.files, t) /\ MadeTrue(c)
      BY <2>9 DEF DirectoryTrue, FilesTrue
    <3> QED
      BY <2>4, <2>6, <2>7, <2>8, <2>9, <2>10, <3>1, <3>2, <3>3, <3>4, MadeOneMore
  <2>12. FilesTrue(e, t)
    <3>1. \A f : IsOpenFile(e, f) <=> IsOpenFile(c, f)
      BY <2>7, <2>8 DEF IsOpenFile
    <3> QED
      BY <2>9, <2>10, <3>1 DEF DirectoryTrue, FilesTrue
  <2>13. StreamTrue(e)
    BY <2>7 DEF StreamTrue
  <2>14. e \in Drive
    <3>1. /\ S \in SUBSET File /\ NoStream \in Int /\ <<>> \in Seq(Word)
          /\ Append(d.made, d.stream) \in Seq(Nat)
      BY <2>1, <2>6, <2>7, <2>9, <2>10 DEF Drive, NoStream
    <3> QED
      BY <2>1, <2>5, <3>1, Zenon DEF Drive
  <2> QED
    BY <2>7, <2>11, <2>12, <2>13, <2>14 DEF DirectoryTrue, e
<1> QED
  BY <1>1, <1>2

LEMMA ClosedAndReloadedTrue ==
  ASSUME NEW d, DriveInv(d), NEW t \in Nat, DriveTrue(d, t), NEW opens
  PROVE  /\ DriveTrue(ClosedAndReloaded(d, t, opens), t)
         /\ ClosedAndReloaded(d, t, opens).stream = NoStream
<1> DEFINE c == Closed(d, t)
<1>1. c \in Drive /\ DirectoryTrue(c, t) /\ c.stream = NoStream
  BY ClosedTrue
<1>2. ClosedAndReloaded(d, t, opens) = IF d.stream = NoStream THEN d ELSE Reloaded(c, opens)
  BY DEF ClosedAndReloaded
<1>3. DriveInv(c)
  BY ClosedFits
<1> HIDE DEF c
<1>4. DriveTrue(Reloaded(c, opens), t) /\ SameFiles(c, Reloaded(c, opens))
  BY <1>1, <1>3, ReloadedTrue, ReloadedInv
<1> QED
  BY <1>1, <1>2, <1>4 DEF SameFiles

LEMMA RewoundTrue ==
  ASSUME NEW d, DriveInv(d), NEW t \in Nat, DriveTrue(d, t), NEW opens
  PROVE  DriveTrue(Rewound(d, t, opens), t)
<1> DEFINE c == ClosedAndReloaded(d, t, opens)
<1>1. DriveTrue(c, t) /\ c.stream = NoStream
  BY ClosedAndReloadedTrue
<1>2. Rewound(d, t, opens) = Reloaded(c, opens)
  BY DEF Rewound
<1> HIDE DEF c
<1> QED
  BY <1>1, <1>2, ReloadedTrue DEF DriveTrue

\* One more file, of a name of its own.
LEMMA AddedTrue ==
  ASSUME NEW d \in Drive, NEW t, FilesTrue(d, t), MadeTrue(d),
         NEW x \in File, x.mtime <= t, WholeTape(x),
         \A g \in d.files : g.index # x.index \/ g.format # x.format,
         NEW e, e.files = d.files \cup {x}, e.made = d.made,
         \A f \in d.files : IsOpenFile(d, f) <=> IsOpenFile(e, f),
         IsOpenFile(e, x) \/ Truthful(RecordOf(x)),
         e.stream # NoStream => \A i \in DOMAIN d.made : d.made[i] < e.stream
  PROVE  e.files \in SUBSET File /\ FilesTrue(e, t) /\ MadeTrue(e)
<1>1. d.files \in SUBSET File /\ Orderly(d.files, t)
  BY DEF Drive, FilesTrue
<1>2. e.files \in SUBSET File /\ Orderly(e.files, t)
  BY <1>1, PlacedOrderly
<1>3. FilesTrue(e, t)
  BY <1>2 DEF FilesTrue
<1>4. ASSUME NEW i \in DOMAIN d.made PROVE ~IsTape(x, d.made[i])
  <2>1. PICK f \in d.files : IsTape(f, d.made[i])
    BY DEF MadeTrue
  <2> QED
    BY <2>1 DEF IsTape
<1>5. MadeTrue(e)
  BY <1>4, StillMade
<1> QED
  BY <1>2, <1>3, <1>5

LEMMA OpenedTrue ==
  ASSUME NEW d, DriveInv(d), NEW t \in Nat, d \in Drive, DirectoryTrue(d, t)
  PROVE  /\ Opened(d, t) \in Drive /\ DirectoryTrue(Opened(d, t), t)
         /\ Opened(d, t).stream # NoStream
         /\ Opened(d, t).records = d.records /\ Opened(d, t).made = d.made
         /\ Opened(d, t).current = d.current /\ Opened(d, t).position = d.position
         /\ Opened(d, t).heard = d.heard /\ Opened(d, t).skipped = d.skipped
<1>1. CASE d.stream # NoStream
  BY <1>1 DEF Opened
<1>2. CASE d.stream = NoStream
  <2> DEFINE n == NextIndex(d.files)
             x == NewFile(d.files, t)
             e == Opened(d, t)
  <2>1. n \in Nat /\ \A f \in d.files : f.format = "tap" => f.index # n
    BY NextIndexIsNew DEF DriveInv
  <2>2. x = [index |-> n, format |-> "tap", mtime |-> t, declared |-> 0,
             body |-> <<>>, sealed |-> FALSE, meant |-> <<>>]
    BY DEF NewFile
  <2>3. e = [d EXCEPT !.files = d.files \cup {x}, !.stream = n, !.written = <<>>]
    BY <1>2 DEF Opened
  <2>4. \A f \in d.files : f.format = "tap" => f.index < n
    <3> DEFINE names == {f.index : f \in {g \in d.files : g.format = "tap"}}
    <3>1. n = IF names = {} THEN 0 ELSE Max(names) + 1
      BY DEF NextIndex
    <3>2. \A f \in d.files : f.format = "tap" => f.index \in names
      OBVIOUS
    <3>3. names \in SUBSET Nat
      BY DEF Drive, File
    <3>4. PICK bound \in Nat : \A y \in names : y < bound
      BY DEF DriveInv, FilesFit
    <3> HIDE DEF names, n
    <3>5. ASSUME names # {}, NEW y \in names PROVE y < n
      <4>1. Max(names) \in names /\ Max(names) >= y
        BY <3>3, <3>4, <3>5, GreatestOfBounded
      <4>2. Max(names) \in Nat /\ y \in Nat
        BY <3>3, <3>5, <4>1
      <4> QED
        BY <3>1, <3>5, <4>1, <4>2
    <3> QED
      BY <3>2, <3>5
  <2> HIDE DEF n, x, e
  <2>5. /\ e.files = d.files \cup {x} /\ e.stream = n /\ e.written = <<>>
        /\ e.records = d.records /\ e.made = d.made
        /\ e.current = d.current /\ e.position = d.position
        /\ e.heard = d.heard /\ e.skipped = d.skipped /\ e.accepted = d.accepted
    BY <2>3 DEF Drive
  <2>6. x \in File /\ x.mtime <= t /\ WholeTape(x) /\ IsTape(x, n)
    BY <2>1, <2>2 DEF File, WholeTape, IsTape
  <2>7. \A f \in d.files : ~IsOpenFile(d, f) /\ ~IsOpenFile(e, f)
    <3>1. \A f \in d.files : f.index \in Nat
      BY DEF Drive, File
    <3> QED
      BY <1>2, <2>1, <2>5, <3>1 DEF IsOpenFile, NoStream
  <2>8. IsOpenFile(e, x)
    BY <2>5, <2>6 DEF IsTape, IsOpenFile
  <2>9. ASSUME NEW i \in DOMAIN d.made PROVE d.made[i] < e.stream
    <3>1. PICK f \in d.files : IsTape(f, d.made[i])
      BY DEF DirectoryTrue, MadeTrue
    <3> QED
      BY <2>4, <2>5, <3>1 DEF IsTape
  <2>10. e.files \in SUBSET File /\ FilesTrue(e, t) /\ MadeTrue(e)
    <3>1. \A g \in d.files : g.index # x.index \/ g.format # x.format
      BY <2>1, <2>6 DEF IsTape
    <3> QED
      BY <2>5, <2>6, <2>7, <2>8, <2>9, <3>1, AddedTrue DEF DirectoryTrue
  <2>11. StreamTrue(e)
    BY <1>2, <2>5 DEF DirectoryTrue, StreamTrue
  <2>12. e \in Drive
    <3>1. d.files \cup {x} \in SUBSET File /\ n \in Int /\ <<>> \in Seq(Word)
      BY <2>1, <2>5, <2>10
    <3> QED
      BY <2>3, <3>1, Zenon DEF Drive
  <2>13. e.stream # NoStream
    BY <2>1, <2>5 DEF NoStream
  <2> QED
    BY <2>5, <2>10, <2>11, <2>12, <2>13 DEF DirectoryTrue, e
<1> QED
  BY <1>1, <1>2

\* A drive that stands as before with the same records and files made reads on.
LEMMA SameReading ==
  ASSUME NEW d, NEW e, ReadingTrue(d), e.records = d.records, e.made = d.made,
         e.current = d.current, e.position = d.position, e.heard = d.heard,
         e.skipped = d.skipped
  PROVE  ReadingTrue(e)
<1>1. CurrentWords(e) = CurrentWords(d) /\ WordsBefore(e) = WordsBefore(d)
  BY DEF CurrentWords, WordsBefore
<1>2. CursorFits(e) /\ HeardAll(e)
  BY <1>1 DEF ReadingTrue, CursorFits, HeardAll
<1>3. RecordsTrue(e)
  BY DEF ReadingTrue, RecordsTrue, ClosedBy
<1> QED
  BY <1>2, <1>3 DEF ReadingTrue

\* A file the guest has open grows by the word it writes.
LEMMA WrittenToTrue ==
  ASSUME NEW d, DriveInv(d), NEW t \in Nat, DriveTrue(d, t), NEW protected, NEW w \in Word,
         NEW opens
  PROVE  DriveTrue(WrittenTo(d, protected, w, t, opens), t)
<1>1. d \in Drive /\ ReadingTrue(d) /\ DirectoryTrue(d, t)
  BY DEF DriveTrue
<1>2. CASE protected \/ (d.stream = NoStream /\ ~opens)
  <2> DEFINE e == [d EXCEPT !.error = TRUE]
  <2>1. WrittenTo(d, protected, w, t, opens) = e
    BY <1>2 DEF WrittenTo
  <2>2. /\ e \in Drive /\ SameDirectory(d, e)
        /\ e.records = d.records /\ e.made = d.made
        /\ e.current = d.current /\ e.position = d.position /\ e.heard = d.heard
        /\ e.skipped = d.skipped
    BY <1>1 DEF Drive, SameDirectory, SameFiles
  <2> HIDE DEF e
  <2> QED
    BY <1>1, <2>1, <2>2, SameReading, SameDirectoryTrue DEF DriveTrue
<1>3. CASE ~(protected \/ (d.stream = NoStream /\ ~opens))
  <2> DEFINE o == Opened(d, t)
             e == [o EXCEPT !.written = Append(@, w), !.accepted = Append(@, w),
                            !.endOfRecord = FALSE, !.endOfTape = FALSE]
  <2>1. WrittenTo(d, protected, w, t, opens) = e
    BY <1>3 DEF WrittenTo
  <2>2. /\ o \in Drive /\ DirectoryTrue(o, t) /\ o.stream # NoStream
        /\ o.records = d.records /\ o.made = d.made
        /\ o.current = d.current /\ o.position = d.position
        /\ o.heard = d.heard /\ o.skipped = d.skipped
    BY <1>1, OpenedTrue
  <2> HIDE DEF o
  <2>3. /\ e.files = o.files /\ e.stream = o.stream
        /\ e.written = Append(o.written, w) /\ e.accepted = Append(o.accepted, w)
        /\ e.records = d.records /\ e.made = d.made
        /\ e.current = d.current /\ e.position = d.position
        /\ e.heard = d.heard /\ e.skipped = d.skipped
    BY <2>2 DEF Drive
  <2>4. e \in Drive
    <3>1. /\ Append(o.written, w) \in Seq(Word) /\ Append(o.accepted, w) \in Seq(Word)
          /\ FALSE \in BOOLEAN
      BY <2>2 DEF Drive
    <3> QED
      BY <2>2, <3>1, Zenon DEF Drive
  <2> HIDE DEF e
  <2>5. FilesTrue(e, t)
    <3>1. \A f : IsOpenFile(e, f) <=> IsOpenFile(o, f)
      BY <2>3 DEF IsOpenFile
    <3> QED
      BY <2>2, <2>3, <3>1 DEF DirectoryTrue, FilesTrue
  <2>6. MadeTrue(e)
    BY <2>2, <2>3 DEF DirectoryTrue, MadeTrue
  <2>7. StreamTrue(e)
    BY <2>2, <2>3 DEF DirectoryTrue, StreamTrue
  <2>8. ReadingTrue(e)
    BY <1>1, <2>3, SameReading
  <2> QED
    BY <2>1, <2>4, <2>5, <2>6, <2>7, <2>8 DEF DriveTrue, DirectoryTrue
<1> QED
  BY <1>2, <1>3

-----------------------------------------------------------------------------
(* Along the tape.                                                          *)

LEMMA CurrentIsWords ==
  ASSUME NEW d \in Drive, CursorFits(d), d.records # <<>>
  PROVE  /\ d.current + 1 \in 1 .. Len(d.records) /\ Len(d.records) \in Nat
         /\ CurrentWords(d) \in Seq(Word)
         /\ d.position \in 0 .. Len(CurrentWords(d))
<1>1. /\ d.records \in Seq(Record) /\ d.current \in Nat /\ d.position \in Nat
      /\ d.current < Len(d.records)
  BY DEF Drive, CursorFits
<1>2. d.current + 1 \in 1 .. Len(d.records) /\ Len(d.records) \in Nat
  BY <1>1
<1>3. d.records[d.current + 1] \in Record
  BY <1>1, <1>2
<1>4. CurrentWords(d) \in Seq(Word)
  BY <1>3 DEF CurrentWords, Record
<1>5. d.position \in 0 .. Len(CurrentWords(d))
  BY <1>1, <1>4 DEF CursorFits
<1> QED
  BY <1>2, <1>4, <1>5

LEMMA WordsBeforeIsSeq ==
  ASSUME NEW d \in Drive, CursorFits(d)
  PROVE  WordsBefore(d) \in Seq(Word)
<1> DEFINE s == [i \in 1 .. d.current |-> d.records[i].words]
<1>1. d.records \in Seq(Record) /\ d.current \in Nat /\ d.current <= Len(d.records)
  BY DEF Drive, CursorFits
<1>2. ASSUME NEW i \in 1 .. d.current PROVE d.records[i].words \in Seq(Word)
  <2>1. d.records[i] \in Record
    BY <1>1
  <2> QED
    BY <2>1 DEF Record
<1>3. s \in Seq(Seq(Word))
  BY <1>1, <1>2
<1> QED
  BY <1>3, FlattenIsSeq DEF WordsBefore

\* One word further.
LEMMA OneWordFurther ==
  ASSUME NEW d \in Drive, CursorFits(d), HeardAll(d), d.records # <<>>, ~Exhausted(d),
         NEW e, e.records = d.records, e.current = d.current, e.skipped = d.skipped,
         e.position = d.position + 1,
         e.heard = Append(d.heard, CurrentWords(d)[d.position + 1])
  PROVE  CursorFits(e) /\ HeardAll(e) /\ CurrentWords(d)[d.position + 1] \in Word
<1> DEFINE words == CurrentWords(d)
<1>1. PICK p \in Nat : p = d.position
  BY DEF Drive
<1>2. /\ words \in Seq(Word) /\ p \in 0 .. Len(words) /\ d.current < Len(d.records)
  BY <1>1, CurrentIsWords DEF CursorFits
<1>3. CurrentWords(e) = words /\ WordsBefore(e) = WordsBefore(d)
  BY DEF CurrentWords, WordsBefore
<1>4. ~(p >= Len(words))
  BY <1>1 DEF Exhausted
<1>5. d.skipped \/ d.heard = WordsBefore(d) \o SubSeq(words, 1, p)
  BY <1>1 DEF HeardAll
<1> HIDE DEF words
<1>6. Len(words) \in Nat
  BY <1>2
<1>7. p + 1 \in 1 .. Len(words)
  BY <1>4, <1>6
<1>8. words[p + 1] \in Word
  BY <1>2, <1>7
<1>9. CursorFits(e)
  BY <1>1, <1>2, <1>3, <1>7 DEF CursorFits
<1>10. HeardAll(e)
  <2> SUFFICES ASSUME ~d.skipped
               PROVE  e.heard = WordsBefore(d) \o SubSeq(words, 1, p + 1)
    BY <1>1, <1>3 DEF HeardAll
  <2>1. SubSeq(words, 1, p + 1) = SubSeq(words, 1, p) \o <<words[p + 1]>>
    <3>1. SubSeq(words, 1, p + 1) = SubSeq(words, 1, (p + 1) - 1) \o <<words[p + 1]>>
      <4>1. 1 \in 1 .. Len(words) /\ p + 1 \in 1 .. Len(words)
        BY <1>6, <1>7
      <4> QED
        BY <1>2, <4>1, SubSeqRecursiveSecond
    <3>2. (p + 1) - 1 = p
      OBVIOUS
    <3> QED
      BY <3>1, <3>2
  <2>2. SubSeq(words, 1, p) \in Seq(Word)
    <3>1. \A i \in 1 .. p : words[i] \in Word
      BY <1>2, <1>6, <1>7
    <3> QED
      BY <3>1, SubSeqProperties
  <2>3. WordsBefore(d) \in Seq(Word)
    BY WordsBeforeIsSeq
  <2>4. <<words[p + 1]>> \in Seq(Word)
    BY <1>8
  <2>5. d.heard \in Seq(Word)
    BY DEF Drive
  <2>6. Append(d.heard, words[p + 1]) = d.heard \o <<words[p + 1]>>
    BY <1>8, <2>5, AppendIsConcat
  <2>7. (WordsBefore(d) \o SubSeq(words, 1, p)) \o <<words[p + 1]>>
          = WordsBefore(d) \o (SubSeq(words, 1, p) \o <<words[p + 1]>>)
    <3>1. \A x, y, z \in Seq(Word) : (x \o y) \o z = x \o (y \o z)
      BY ConcatAssociative
    <3> QED
      BY <2>2, <2>3, <2>4, <3>1, Zenon
  <2>8. e.heard = Append(d.heard, words[p + 1])
    BY <1>1 DEF words
  <2> QED
    BY <1>5, <2>1, <2>6, <2>7, <2>8
<1> QED
  BY <1>1, <1>8, <1>9, <1>10 DEF words

\* On to the next record.
LEMMA OneRecordFurther ==
  ASSUME NEW d \in Drive, CursorFits(d), HeardAll(d), d.records # <<>>, ~IsLast(d),
         NEW e, e.records = d.records, e.current = d.current + 1, e.position = 0,
         e.heard = d.heard, e.skipped <=> (d.skipped \/ ~Exhausted(d))
  PROVE  CursorFits(e) /\ HeardAll(e)
<1> DEFINE words == CurrentWords(d)
<1>1. PICK c \in Nat : c = d.current
  BY DEF Drive
<1>2. /\ words \in Seq(Word) /\ d.position \in 0 .. Len(words)
      /\ Len(d.records) \in Nat /\ c + 1 \in 1 .. Len(d.records)
      /\ d.records \in Seq(Record)
  BY <1>1, CurrentIsWords DEF Drive
<1>3. c + 2 \in 1 .. Len(d.records) /\ c + 2 = e.current + 1
  BY <1>1, <1>2 DEF IsLast
<1>4. CurrentWords(e) \in Seq(Word)
  <2>1. d.records[c + 2] \in Record
    BY <1>2, <1>3
  <2> QED
    BY <1>3, <2>1 DEF CurrentWords, Record
<1>5. CursorFits(e)
  BY <1>1, <1>2, <1>3, <1>4 DEF CursorFits
<1>6. HeardAll(e)
  <2> SUFFICES ASSUME ~d.skipped, Exhausted(d)
               PROVE  d.heard = WordsBefore(e) \o SubSeq(CurrentWords(e), 1, 0)
    BY DEF HeardAll
  <2>1. d.position = Len(words)
    BY <1>2 DEF Exhausted
  <2>2. d.heard = WordsBefore(d) \o words
    BY <1>2, <2>1, SubSeqFull DEF HeardAll
  <2> DEFINE s == [i \in 1 .. c |-> d.records[i].words]
             u == [i \in 1 .. c + 1 |-> d.records[i].words]
  <2>3. ASSUME NEW i \in 1 .. Len(d.records) PROVE d.records[i].words \in Seq(Word)
    <3>1. d.records[i] \in Record
      BY <1>2
    <3> QED
      BY <3>1 DEF Record
  <2>4. s \in Seq(Seq(Word)) /\ Len(s) = c
    <3>1. \A i \in 1 .. c : d.records[i].words \in Seq(Word)
      BY <1>2, <2>3
    <3> QED
      BY <3>1
  <2>5. u \in Seq(Seq(Word)) /\ Len(u) = c + 1
    <3>1. \A i \in 1 .. c + 1 : d.records[i].words \in Seq(Word)
      BY <1>2, <2>3
    <3> QED
      BY <3>1
  <2>6. (\A i \in 1 .. c : u[i] = s[i]) /\ u[c + 1] = words
    <3>1. c + 1 \in 1 .. c + 1 /\ \A i \in 1 .. c : i \in 1 .. c + 1
      OBVIOUS
    <3> QED
      BY <1>1, <3>1 DEF CurrentWords
  <2>7. WordsBefore(d) = FlattenSeq(s) /\ WordsBefore(e) = FlattenSeq(u)
    BY <1>1 DEF WordsBefore
  <2> HIDE DEF s, u, words
  <2>8. FlattenSeq(u) = FlattenSeq(s) \o u[c + 1]
    BY <2>4, <2>5, <2>6, FlattenExtended
  <2>9. SubSeq(CurrentWords(e), 1, 0) = <<>>
    BY SubSeqEmpty
  <2>10. FlattenSeq(u) \in Seq(Word)
    BY <2>5, FlattenIsSeq
  <2>11. FlattenSeq(u) \o <<>> = FlattenSeq(u)
    BY <2>10, ConcatEmptySeq
  <2> QED
    BY <2>2, <2>6, <2>7, <2>8, <2>9, <2>11
<1> QED
  BY <1>5, <1>6

SameCursor(d, e) ==
  /\ SameDirectory(d, e) /\ e.records = d.records /\ e.current = d.current
  /\ e.position = d.position /\ e.heard = d.heard /\ e.skipped = d.skipped

LEMMA SameCursorTrue ==
  ASSUME NEW d, NEW t, DriveTrue(d, t), NEW e \in Drive, SameCursor(d, e)
  PROVE  DriveTrue(e, t)
<1>1. ReadingTrue(d) /\ DirectoryTrue(d, t) /\ SameDirectory(d, e) /\ e.made = d.made
  BY DEF DriveTrue, SameCursor, SameDirectory
<1>2. ReadingTrue(e)
  BY <1>1, SameReading DEF SameCursor
<1> QED
  BY <1>1, <1>2, SameDirectoryTrue DEF DriveTrue

LEMMA MovedTrue ==
  ASSUME NEW d, NEW t, DriveTrue(d, t), NEW e \in Drive, SameDirectory(d, e),
         e.records = d.records, CursorFits(e), HeardAll(e)
  PROVE  DriveTrue(e, t)
<1>1. RecordsTrue(d) /\ DirectoryTrue(d, t) /\ e.made = d.made
  BY DEF DriveTrue, ReadingTrue, SameDirectory
<1>2. RecordsTrue(e)
  BY <1>1 DEF RecordsTrue, ClosedBy
<1> QED
  BY <1>1, <1>2, SameDirectoryTrue DEF DriveTrue, ReadingTrue

\* The flags alone change.
LEMMA FlagsSet ==
  ASSUME NEW d \in Drive, NEW a \in BOOLEAN, NEW b \in BOOLEAN, NEW c \in BOOLEAN,
         NEW e, \/ e = [d EXCEPT !.ready = a, !.endOfTape = b, !.endOfRecord = c]
                \/ e = [d EXCEPT !.ready = a, !.endOfRecord = b, !.endOfTape = c]
                \/ e = [d EXCEPT !.error = a, !.ready = b, !.endOfTape = c]
                \/ e = [d EXCEPT !.error = a, !.ready = b]
                \/ e = [d EXCEPT !.endOfTape = a]
                \/ e = [d EXCEPT !.error = a]
                \/ e = [d EXCEPT !.ready = a]
  PROVE  e \in Drive /\ SameCursor(d, e)
<1>1. e \in Drive
  BY Zenon DEF Drive
<1>2. DOMAIN d = DriveFields
  BY DEF Drive, DriveFields
<1>3. SameCursor(d, e)
  BY <1>2 DEF SameCursor, SameDirectory, SameFiles, DriveFields
<1> QED
  BY <1>1, <1>3

LEMMA AtEndTrue ==
  ASSUME NEW d, NEW t, DriveTrue(d, t)
  PROVE  DriveTrue(AtEnd(d), t) /\ SameDirectory(d, AtEnd(d))
<1> DEFINE c == d.endOfTape \/ IsLast(d)
<1>1. c \in BOOLEAN /\ d \in Drive /\ TRUE \in BOOLEAN /\ FALSE \in BOOLEAN
  BY DEF DriveTrue
<1>2. AtEnd(d) = [d EXCEPT !.ready = FALSE, !.endOfRecord = TRUE, !.endOfTape = c]
  BY DEF AtEnd
<1> HIDE DEF c
<1>3. AtEnd(d) \in Drive /\ SameCursor(d, AtEnd(d))
  BY <1>1, <1>2, FlagsSet
<1> QED
  BY <1>3, SameCursorTrue DEF SameCursor

LEMMA ReadFromTrue ==
  ASSUME NEW d, NEW t, DriveTrue(d, t)
  PROVE  DriveTrue(ReadFrom(d), t)
<1>0. d \in Drive /\ CursorFits(d) /\ HeardAll(d)
  BY DEF DriveTrue, ReadingTrue
<1>1. CASE d.records = <<>>
  <2> DEFINE e == [d EXCEPT !.ready = FALSE, !.endOfTape = TRUE, !.endOfRecord = FALSE]
  <2>1. ReadFrom(d) = e
    BY <1>1 DEF ReadFrom
  <2>2. TRUE \in BOOLEAN /\ FALSE \in BOOLEAN
    OBVIOUS
  <2> HIDE DEF e
  <2>3. e \in Drive /\ SameCursor(d, e)
    BY <1>0, <2>2, FlagsSet DEF e
  <2> QED
    BY <2>1, <2>3, SameCursorTrue
<1>2. CASE d.records # <<>> /\ Exhausted(d)
  BY <1>2, AtEndTrue DEF ReadFrom
<1>3. CASE d.records # <<>> /\ ~Exhausted(d)
  <2> DEFINE w == CurrentWords(d)[d.position + 1]
             e == [d EXCEPT !.position = @ + 1, !.heard = Append(@, w)]
             f == [e EXCEPT !.ready = TRUE]
  <2>1. ReadFrom(d) = IF Exhausted(e) THEN AtEnd(e) ELSE f
    BY <1>3 DEF ReadFrom
  <2>2. /\ SameDirectory(d, e) /\ e.records = d.records /\ e.current = d.current
        /\ e.skipped = d.skipped /\ e.position = d.position + 1
        /\ e.heard = Append(d.heard, w)
    BY <1>0 DEF Drive, SameDirectory, SameFiles
  <2> HIDE DEF e
  <2>3. CursorFits(e) /\ HeardAll(e) /\ w \in Word
    BY <1>0, <1>3, <2>2, OneWordFurther
  <2> HIDE DEF w
  <2>4. e \in Drive
    <3>1. d.position + 1 \in Nat /\ Append(d.heard, w) \in Seq(Word)
      BY <1>0, <2>3 DEF Drive
    <3> QED
      BY <1>0, <3>1, Zenon DEF Drive, e
  <2>5. DriveTrue(e, t)
    BY <2>2, <2>3, <2>4, MovedTrue
  <2>6. DriveTrue(f, t)
    <3>1. TRUE \in BOOLEAN
      OBVIOUS
    <3> HIDE DEF f
    <3>2. f \in Drive /\ SameCursor(e, f)
      BY <2>4, <3>1, FlagsSet DEF f
    <3> QED
      BY <2>5, <3>2, SameCursorTrue
  <2> HIDE DEF f
  <2> QED
    BY <2>1, <2>5, <2>6, AtEndTrue
<1> QED
  BY <1>1, <1>2, <1>3

LEMMA ToNextRecordIn ==
  ASSUME NEW d \in Drive, NEW e,
         e = ToNextRecord(d) \/ e = [ToNextRecord(d) EXCEPT !.endOfTape = FALSE]
  PROVE  /\ e \in Drive /\ SameDirectory(d, e) /\ e.records = d.records
         /\ e.current = d.current + 1 /\ e.position = 0
         /\ e.heard = d.heard /\ e.skipped = d.skipped
<1>1. DOMAIN d = DriveFields
  BY DEF Drive, DriveFields
<1>2. d.current + 1 \in Nat /\ 0 \in Nat /\ FALSE \in BOOLEAN
  BY DEF Drive
<1>3. e \in Drive
  BY <1>2, Zenon DEF Drive, ToNextRecord
<1>4. /\ SameDirectory(d, e) /\ e.records = d.records
      /\ e.current = d.current + 1 /\ e.position = 0
      /\ e.heard = d.heard /\ e.skipped = d.skipped
  BY <1>1 DEF DriveFields, ToNextRecord, SameDirectory, SameFiles
<1> QED
  BY <1>3, <1>4

\* Selecting the unit moves it on only where no word is left behind.
LEMMA SelectedTrue ==
  ASSUME NEW d, NEW t, DriveInv(d), DriveTrue(d, t)
  PROVE  DriveTrue(Selected(d), t)
<1> DEFINE n == [ToNextRecord(d) EXCEPT !.endOfTape = FALSE]
           e == IF d.endOfRecord /\ ~IsLast(d) THEN n ELSE d
           more == CurrentWords(e) # <<>>
           f == [e EXCEPT !.error = FALSE, !.ready = FALSE, !.endOfTape = TRUE]
           g == [e EXCEPT !.error = FALSE, !.ready = more]
<1>1. Selected(d) = IF d.records = <<>> THEN f ELSE g
  BY DEF Selected
<1>2. d \in Drive /\ CursorFits(d) /\ HeardAll(d)
  BY DEF DriveTrue, ReadingTrue
<1>3. ASSUME d.endOfRecord, ~IsLast(d) PROVE DriveTrue(n, t)
  <2>1. d.records # <<>> /\ Exhausted(d)
    BY <1>3 DEF DriveInv, FlagsFit
  <2>2. /\ n \in Drive /\ SameDirectory(d, n) /\ n.records = d.records
        /\ n.current = d.current + 1 /\ n.position = 0
        /\ n.heard = d.heard /\ n.skipped = d.skipped
    BY <1>2, ToNextRecordIn
  <2> HIDE DEF n
  <2>3. CursorFits(n) /\ HeardAll(n)
    BY <1>2, <1>3, <2>1, <2>2, OneRecordFurther
  <2> QED
    BY <2>2, <2>3, MovedTrue
<1>4. DriveTrue(e, t) /\ e \in Drive
  <2> HIDE DEF n
  <2> QED
    BY <1>3 DEF DriveTrue
<1>5. more \in BOOLEAN /\ TRUE \in BOOLEAN /\ FALSE \in BOOLEAN
  OBVIOUS
<1> HIDE DEF e, more, f, g
<1>6. f \in Drive /\ SameCursor(e, f)
  BY <1>4, <1>5, FlagsSet DEF f
<1>7. g \in Drive /\ SameCursor(e, g)
  BY <1>4, <1>5, FlagsSet DEF g
<1>8. DriveTrue(f, t) /\ DriveTrue(g, t)
  BY <1>4, <1>6, <1>7, SameCursorTrue
<1> QED
  BY <1>1, <1>8

\* The operator may leave words behind, and that is remembered.
LEMMA NextRecordTrue ==
  ASSUME NEW d, NEW t, DriveTrue(d, t)
  PROVE  DriveTrue(NextRecord(d), t)
<1>0. d \in Drive /\ CursorFits(d) /\ HeardAll(d)
  BY DEF DriveTrue, ReadingTrue
<1>1. CASE IsLast(d)
  <2> DEFINE e == [d EXCEPT !.endOfTape = TRUE]
  <2>1. NextRecord(d) = e
    BY <1>1 DEF NextRecord
  <2>2. TRUE \in BOOLEAN
    OBVIOUS
  <2> HIDE DEF e
  <2>3. e \in Drive /\ SameCursor(d, e)
    BY <1>0, <2>2, FlagsSet DEF e
  <2> QED
    BY <2>1, <2>3, SameCursorTrue
<1>2. CASE ~IsLast(d)
  <2> DEFINE n == ToNextRecord(d)
             last == IsLast(n)
             more == CurrentWords(n) # <<>>
             left == n.skipped \/ ~Exhausted(d)
             e == [n EXCEPT !.endOfTape = last, !.ready = more, !.skipped = left]
  <2>1. NextRecord(d) = [n EXCEPT !.endOfTape = last, !.ready = more,
                                  !.skipped = @ \/ ~Exhausted(d)]
    BY <1>2 DEF NextRecord
  <2>2. NextRecord(d) = e
    BY <2>1
  <2>3. /\ n \in Drive /\ SameDirectory(d, n) /\ n.records = d.records
        /\ n.current = d.current + 1 /\ n.position = 0
        /\ n.heard = d.heard /\ n.skipped = d.skipped
    BY <1>0, ToNextRecordIn
  <2>4. last \in BOOLEAN /\ more \in BOOLEAN /\ left \in BOOLEAN
    BY DEF IsLast
  <2>5. left <=> (d.skipped \/ ~Exhausted(d))
    BY <2>3
  <2> HIDE DEF n, last, more, left
  <2>6. e \in Drive
    BY <2>3, <2>4, Zenon DEF Drive
  <2>7. DOMAIN n = DriveFields
    BY <2>3 DEF Drive, DriveFields
  <2>8. /\ SameDirectory(d, e) /\ e.records = d.records /\ e.current = d.current + 1
        /\ e.position = 0 /\ e.heard = d.heard /\ e.skipped = left
    BY <2>3, <2>7 DEF DriveFields, SameDirectory, SameFiles
  <2> HIDE DEF e
  <2>9. d.records # <<>>
    <3>1. d.current \in Nat
      BY <1>0 DEF Drive
    <3>2. d.records = <<>> => Len(d.records) = 0
      OBVIOUS
    <3> QED
      BY <1>2, <3>1, <3>2 DEF IsLast
  <2>10. e.skipped <=> (d.skipped \/ ~Exhausted(d))
    BY <2>5, <2>8
  <2>11. CursorFits(e) /\ HeardAll(e)
    BY <1>0, <1>2, <2>8, <2>9, <2>10, OneRecordFurther
  <2> QED
    BY <2>2, <2>6, <2>8, <2>11, MovedTrue
<1> QED
  BY <1>1, <1>2

-----------------------------------------------------------------------------
(* The monitor starts, in order or after a crash.                           *)

LEMMA HaltedTrue ==
  ASSUME NEW d \in Drive
  PROVE  /\ Halted(d) \in Drive /\ Halted(d).files = d.files /\ Halted(d).made = d.made
         /\ Halted(d).stream = NoStream
         /\ Halted(d).written = <<>> /\ Halted(d).accepted = <<>>
<1>1. <<>> \in Seq(Word) /\ NoStream \in Int
  BY DEF NoStream
<1>2. Halted(d) \in Drive
  BY <1>1, Zenon DEF Halted, Drive
<1>3. DOMAIN d = DriveFields
  BY DEF Drive, DriveFields
<1> QED
  BY <1>2, <1>3 DEF Halted, DriveFields

LEMMA RestartedTrue ==
  ASSUME NEW d, DriveInv(d), NEW t \in Nat, DriveTrue(d, t)
  PROVE  DriveTrue(Configured(Closed(d, t)), t)
<1> DEFINE c == Closed(d, t)
           h == Halted(c)
<1>1. c \in Drive /\ DirectoryTrue(c, t) /\ c.stream = NoStream
  BY ClosedTrue
<1>2. Configured(c) = Reloaded(h, TRUE)
  BY DEF Configured, Halted
<1> HIDE DEF c
<1>3. /\ h \in Drive /\ h.files = c.files /\ h.made = c.made /\ h.stream = NoStream
      /\ h.written = <<>> /\ h.accepted = <<>>
  BY <1>1, HaltedTrue
<1> HIDE DEF h
<1>4. SameDirectory(c, h)
  BY <1>1, <1>3 DEF SameDirectory, SameFiles, DirectoryTrue, StreamTrue
<1>5. DirectoryTrue(h, t)
  BY <1>1, <1>4, SameDirectoryTrue
<1> QED
  BY <1>2, <1>3, <1>5, ReloadedTrue DEF c

\* What a crash leaves of the open file reads as a partial record.
LEMMA CutFileTrue ==
  ASSUME NEW d \in Drive, NEW t \in Nat, NEW m \in Nat, m <= t,
         NEW f \in File, IsOpenFile(d, f), ~f.sealed, NEW flushed \in Seq(Word),
         NEW x, x = [f EXCEPT !.body = flushed, !.mtime = m, !.meant = d.accepted]
  PROVE  /\ x \in File /\ IsTape(x, d.stream) /\ x.mtime <= t /\ WholeTape(x)
         /\ Truthful(RecordOf(x))
<1>1. /\ x.index = f.index /\ x.format = f.format /\ x.mtime = m /\ x.body = flushed
      /\ x.sealed = f.sealed
  BY DEF File
<1>2. x \in File
  <2>1. flushed \in Seq(Word \cup {Half, Gap}) /\ d.accepted \in Seq(Word)
    BY DEF Drive
  <2> QED
    BY <2>1, Zenon DEF File
<1>3. IsTape(x, d.stream) /\ WholeTape(x)
  BY <1>1 DEF IsOpenFile, IsTape, WholeTape
<1>4. Truthful(RecordOf(x))
  BY <1>1, <1>3, UnsealedIsMarked DEF IsTape
<1> QED
  BY <1>1, <1>2, <1>3, <1>4

LEMMA FlushedIsSeq ==
  ASSUME NEW words \in Seq(Word)
  PROVE  Flushed(words) \in Seq(Word)
<1>1. PICK n \in Nat : n = Len(words)
  OBVIOUS
<1>2. PICK m \in Nat \ {0} : m = BufferWords
  BY MagtapeConstantsAssumption
<1>3. PICK r \in Int : r = n % m /\ r >= 0
  BY Division
<1>4. \A i \in 1 .. n - r : words[i] \in Word
  BY <1>1, <1>3
<1>5. SubSeq(words, 1, n - r) \in Seq(Word)
  <2>1. n - r \in Int
    BY <1>3
  <2> QED
    BY <1>4, <2>1, SubSeqProperties
<1> QED
  BY <1>1, <1>2, <1>3, <1>5 DEF Flushed

LEMMA CutShortTrue ==
  ASSUME NEW d, DriveInv(d), NEW t \in Nat, DriveTrue(d, t), NEW s \in Nat, s <= t
  PROVE  DriveTrue(Configured(CutShort(d, s)), t)
<1> DEFINE flushed == Flushed(d.written)
           Cut(f) == [f EXCEPT !.body = flushed,
                               !.mtime = IF flushed = <<>> THEN @ ELSE s,
                               !.meant = d.accepted]
           S == {IF IsOpenFile(d, f) THEN Cut(f) ELSE f : f \in d.files}
           c == CutShort(d, s)
           h == Halted(c)
<1>1. d \in Drive /\ DirectoryTrue(d, t) /\ Orderly(d.files, t)
  BY DEF DriveTrue, DirectoryTrue, FilesTrue
<1>2. c = [d EXCEPT !.files = S]
  BY DEF CutShort
<1>3. Configured(c) = Reloaded(h, TRUE)
  BY DEF Configured, Halted
<1>4. flushed \in Seq(Word)
  BY <1>1, FlushedIsSeq DEF Drive
<1> HIDE DEF c
<1>5. CASE d.stream = NoStream
  <2>1. S = d.files
    <3>1. \A f \in d.files : ~IsOpenFile(d, f)
      <4>1. \A f \in d.files : f.index \in Nat
        BY <1>1 DEF Drive, File
      <4> QED
        BY <1>5, <4>1 DEF IsOpenFile, NoStream
    <3> QED
      BY <3>1
  <2> HIDE DEF S
  <2>2. c \in Drive /\ SameDirectory(d, c)
    BY <1>1, <1>2, <2>1 DEF Drive, SameDirectory, SameFiles
  <2>3. /\ h \in Drive /\ h.files = c.files /\ h.made = c.made /\ h.stream = NoStream
        /\ h.written = <<>> /\ h.accepted = <<>>
    BY <2>2, HaltedTrue
  <2> HIDE DEF h
  <2>4. SameDirectory(d, h)
    BY <1>1, <1>5, <2>2, <2>3
       DEF SameDirectory, SameFiles, DirectoryTrue, StreamTrue
  <2>5. DirectoryTrue(h, t)
    BY <1>1, <2>4, SameDirectoryTrue
  <2> QED
    BY <1>3, <2>3, <2>5, ReloadedTrue DEF c
<1>6. CASE d.stream # NoStream
  <2>1. PICK o \in d.files : \A f \in d.files : IsOpenFile(d, f) <=> f = o
    BY <1>1, <1>6, OpenFileIsOne
  <2> DEFINE x == Cut(o)
  <2>2. S = (d.files \ {o}) \cup {x}
    BY <2>1
  <2> HIDE DEF S
  <2>3. /\ x \in File /\ IsTape(x, d.stream) /\ x.mtime <= t /\ WholeTape(x)
        /\ Truthful(RecordOf(x))
    <3>1. o \in File /\ IsOpenFile(d, o) /\ o.mtime <= t /\ ~o.sealed
      BY <1>1, <2>1 DEF Drive, Orderly, DriveInv, FilesFit, OpenIsEmpty
    <3> DEFINE m == IF flushed = <<>> THEN o.mtime ELSE s
    <3>2. x = [o EXCEPT !.body = flushed, !.mtime = m, !.meant = d.accepted]
      OBVIOUS
    <3>3. m \in Nat /\ m <= t
      BY <3>1 DEF File
    <3> HIDE DEF flushed, x, m
    <3> QED
      BY <1>1, <1>4, <3>1, <3>2, <3>3, CutFileTrue
  <2> HIDE DEF x
  <2>4. S \in SUBSET File
    BY <1>1, <2>2, <2>3 DEF Drive
  <2>5. c \in Drive /\ c.files = S /\ c.made = d.made
    <3>1. c \in Drive
      BY <1>1, <1>2, <2>4, Zenon DEF Drive
    <3> QED
      BY <1>1, <1>2, <3>1 DEF Drive
  <2>6. /\ h \in Drive /\ h.files = S /\ h.made = d.made /\ h.stream = NoStream
        /\ h.written = <<>> /\ h.accepted = <<>>
    BY <2>5, HaltedTrue
  <2> HIDE DEF h
  <2>7. DirectoryTrue(h, t)
    <3>1. h.files = (d.files \ {o}) \cup {x}
      BY <2>2, <2>6
    <3> QED
      BY <1>1, <1>6, <2>1, <2>3, <2>6, <3>1, PutAwayTrue
  <2> QED
    BY <1>3, <2>6, <2>7, ReloadedTrue DEF c
<1> QED
  BY <1>5, <1>6

\* Time goes by.
LEMMA LaterTrue ==
  ASSUME NEW d, NEW t \in Nat, DriveTrue(d, t)
  PROVE  DriveTrue(d, t + 1)
<1>1. d.files \in SUBSET File /\ Orderly(d.files, t)
  BY DEF DriveTrue, DirectoryTrue, FilesTrue, Drive
<1>2. \A f \in d.files : f.mtime <= t + 1
  <2>1. \A f \in d.files : f.mtime \in Nat /\ f.mtime <= t
    BY <1>1 DEF Orderly, File
  <2> QED
    BY <2>1
<1>3. Orderly(d.files, t + 1)
  BY <1>1, <1>2 DEF Orderly
<1> QED
  BY <1>3 DEF DriveTrue, DirectoryTrue, FilesTrue

\* A file of the host.
LEMMA DroppedTrue ==
  ASSUME NEW d, NEW t \in Nat, DriveTrue(d, t), NEW drop \in HostFiles,
         NEW x, x = [drop[2] EXCEPT !.mtime = t],
         \A g \in d.files : g.index # x.index \/ g.format # x.format,
         DriveInv(d), NEW e, e = [d EXCEPT !.files = d.files \cup {x}]
  PROVE  DriveTrue(e, t)
<1> DEFINE f == drop[2]
<1>1. d \in Drive /\ DirectoryTrue(d, t) /\ ReadingTrue(d)
  BY DEF DriveTrue
<1>2. f \in File /\ WholeTape(f) /\ f.meant = RecordOf(f).words
  BY HostFilesAssumption
<1>3. /\ x.index = f.index /\ x.format = f.format /\ x.mtime = t /\ x.body = f.body
      /\ x.declared = f.declared /\ x.sealed = f.sealed /\ x.meant = f.meant
  BY <1>2 DEF File
<1>4. x \in File
  BY <1>2, Zenon DEF File
<1> HIDE DEF f
<1>5. RecordOf(x).words = RecordOf(f).words /\ RecordOf(x).meant = x.meant
  BY <1>3 DEF RecordOf, TapRecord, SrecRecord, WholeWords
<1>6. Truthful(RecordOf(x)) /\ WholeTape(x) /\ x.mtime <= t
  BY <1>2, <1>3, <1>5 DEF Truthful, WholeTape
<1>7. /\ e.files = d.files \cup {x} /\ e.made = d.made /\ e.stream = d.stream
      /\ e.written = d.written /\ e.accepted = d.accepted
      /\ e.records = d.records /\ e.current = d.current /\ e.position = d.position
      /\ e.heard = d.heard /\ e.skipped = d.skipped
  BY <1>1 DEF Drive
<1>8. \A g \in d.files : IsOpenFile(d, g) <=> IsOpenFile(e, g)
  BY <1>7 DEF IsOpenFile
<1>9. e.stream # NoStream => \A i \in DOMAIN d.made : d.made[i] < e.stream
  BY <1>1, <1>7 DEF DirectoryTrue, MadeTrue
<1>10. e.files \in SUBSET File /\ FilesTrue(e, t) /\ MadeTrue(e)
  BY <1>1, <1>4, <1>6, <1>7, <1>8, <1>9, AddedTrue DEF DirectoryTrue
<1>11. StreamTrue(e)
  BY <1>1, <1>7 DEF DirectoryTrue, StreamTrue
<1>12. e \in Drive
  BY <1>1, <1>7, <1>10, Zenon DEF Drive
<1>13. ReadingTrue(e)
  BY <1>1, <1>7, SameReading
<1> QED
  BY <1>10, <1>11, <1>12, <1>13 DEF DriveTrue, DirectoryTrue

-----------------------------------------------------------------------------
(* The controller, with every drive true.                                   *)

ControllerType ==
  [drives : [Units -> Drive], selected : Units, ac : Word, skip : BOOLEAN]

ControllerTrue(m, t) ==
  /\ ControllerInv(m) /\ m \in ControllerType
  /\ \A u \in Units : DriveTrue(m.drives[u], t)

LEMMA PutTrue ==
  ASSUME NEW m, NEW t, ControllerTrue(m, t), NEW u \in Units, NEW d, DriveInv(d),
         DriveTrue(d, t)
  PROVE  ControllerTrue(Put(m, u, d), t)
<1> DEFINE p == Put(m, u, d)
<1>1. ControllerInv(p) /\ p.drives[u] = d
      /\ \A v \in Units \ {u} : p.drives[v] = m.drives[v]
  BY PutInv DEF ControllerTrue
<1>2. p \in ControllerType
  BY DEF ControllerTrue, ControllerType, Put, DriveTrue
<1> HIDE DEF p
<1>3. \A v \in Units : DriveTrue(p.drives[v], t)
  BY <1>1 DEF ControllerTrue
<1> QED
  BY <1>1, <1>2, <1>3 DEF ControllerTrue, p

LEMMA CurrentTrue ==
  ASSUME NEW m, NEW t, ControllerTrue(m, t)
  PROVE  /\ m.selected \in Units /\ CurrentDrive(m) = m.drives[m.selected]
         /\ DriveInv(CurrentDrive(m)) /\ DriveTrue(CurrentDrive(m), t)
         /\ \A d : WithDrive(m, d) = Put(m, m.selected, d)
  BY DEF ControllerTrue, ControllerInv, CurrentDrive, WithDrive, Put

LEMMA RegistersTrue ==
  ASSUME NEW m, NEW t, ControllerTrue(m, t), NEW w \in Word, NEW s \in BOOLEAN,
         NEW n, n = [m EXCEPT !.ac = w] \/ n = [m EXCEPT !.skip = s]
  PROVE  ControllerTrue(n, t)
<1>1. ControllerInv(n) /\ n.drives = m.drives
  BY SetRegisters DEF ControllerTrue
<1>2. n \in ControllerType
  BY DEF ControllerTrue, ControllerType
<1> QED
  BY <1>1, <1>2 DEF ControllerTrue

LEMMA GoTrue ==
  ASSUME NEW m, NEW t, ControllerTrue(m, t)
  PROVE  ControllerTrue(Go(m), t)
<1> DEFINE u == m.ac % 8
<1>1. CASE u \in Units
  <2> DEFINE d == Selected(m.drives[u])
             p == Put(m, u, d)
             n == [p EXCEPT !.selected = u]
  <2>1. m.drives[u] = m.drives[u] /\ DriveInv(m.drives[u]) /\ DriveTrue(m.drives[u], t)
    BY <1>1 DEF ControllerTrue, ControllerInv
  <2>2. Go(m) = n
    BY <1>1 DEF Go, Put, ControllerTrue, ControllerInv, ControllerFields
  <2>3. DriveInv(d) /\ DriveTrue(d, t)
    BY <2>1, SelectedInv, SelectedTrue
  <2> HIDE DEF d
  <2>4. ControllerTrue(p, t)
    BY <1>1, <2>3, PutTrue
  <2> HIDE DEF p, u
  <2>5. n.drives = p.drives /\ n \in ControllerType
    BY <1>1, <2>4 DEF ControllerTrue, ControllerType
  <2>6. ControllerInv(n)
    BY <1>1, <2>4 DEF ControllerTrue, ControllerInv, ControllerFields
  <2> QED
    BY <2>2, <2>4, <2>5, <2>6 DEF ControllerTrue
<1>2. CASE u \notin Units
  <2> DEFINE c == CurrentDrive(m)
             d == [c EXCEPT !.error = TRUE]
  <2>1. Go(m) = Put(m, m.selected, d)
    BY <1>2, CurrentTrue DEF Go
  <2>2. m.selected \in Units /\ DriveInv(c) /\ DriveTrue(c, t)
    BY CurrentTrue
  <2> HIDE DEF c
  <2>3. Shaped(d) /\ FlagsFit(d) /\ SameFiles(c, d)
    BY <2>2 DEF DriveInv, Shaped, DriveFields, FlagsFit, SameFiles, Exhausted,
                CurrentWords, IsLast
  <2> HIDE DEF d
  <2>4. DriveInv(d)
    BY <2>2, <2>3, MovedInv
  <2>5. DriveTrue(d, t)
    <3>1. c \in Drive /\ TRUE \in BOOLEAN
      BY <2>2 DEF DriveTrue
    <3>2. d \in Drive /\ SameCursor(c, d)
      BY <3>1, FlagsSet DEF d
    <3> QED
      BY <2>2, <3>2, SameCursorTrue
  <2> QED
    BY <2>1, <2>2, <2>4, <2>5, PutTrue
<1> QED
  BY <1>1, <1>2

LEMMA SkipTrue ==
  ASSUME NEW m, NEW t, ControllerTrue(m, t)
  PROVE  ControllerTrue(Skip(m), t)
<1>1. CurrentDrive(m).ready \in BOOLEAN
  BY CurrentTrue DEF DriveTrue, Drive
<1>2. 0 \in Word
  BY DEF Word
<1> QED
  BY <1>1, <1>2, RegistersTrue DEF Skip

LEMMA RewindTrue ==
  ASSUME NEW m, NEW t \in Nat, ControllerTrue(m, t), NEW opens
  PROVE  ControllerTrue(Rewind(m, t, opens), t)
<1> DEFINE c == CurrentDrive(m)
           d == Rewound(c, t, opens)
<1>1. m.selected \in Units /\ DriveInv(c) /\ DriveTrue(c, t)
  BY CurrentTrue
<1>2. Rewind(m, t, opens) = Put(m, m.selected, d)
  BY CurrentTrue DEF Rewind
<1> HIDE DEF c
<1>3. DriveInv(d) /\ DriveTrue(d, t)
  BY <1>1, RewoundInv, RewoundTrue
<1> QED
  BY <1>1, <1>2, <1>3, PutTrue

LEMMA WordReadIsWord ==
  ASSUME NEW d, NEW t, DriveTrue(d, t), NEW ac \in Word
  PROVE  WordRead(d, ac) \in Word
<1>1. d \in Drive /\ CursorFits(d)
  BY DEF DriveTrue, ReadingTrue
<1>2. CASE d.records # <<>> /\ ~Exhausted(d)
  <2>1. CurrentWords(d) \in Seq(Word) /\ d.position \in 0 .. Len(CurrentWords(d))
    BY <1>1, <1>2, CurrentIsWords
  <2>2. d.position + 1 \in 1 .. Len(CurrentWords(d))
    BY <1>2, <2>1 DEF Exhausted
  <2>3. CurrentWords(d)[d.position + 1] \in Word
    BY <2>1, <2>2
  <2> QED
    BY <1>2, <2>3 DEF WordRead
<1> QED
  BY <1>2 DEF WordRead

LEMMA ReadTrue ==
  ASSUME NEW m, NEW t, ControllerTrue(m, t)
  PROVE  ControllerTrue(Read(m), t)
<1> DEFINE c == CurrentDrive(m)
           d == ReadFrom(c)
           w == WordRead(c, m.ac)
           p == Put(m, m.selected, d)
<1>1. m.selected \in Units /\ DriveInv(c) /\ DriveTrue(c, t)
  BY CurrentTrue
<1>2. Read(m) = [p EXCEPT !.ac = w]
  BY CurrentTrue DEF Read
<1>3. m.ac \in Word
  BY DEF ControllerTrue, ControllerType
<1> HIDE DEF c
<1>4. DriveInv(d) /\ DriveTrue(d, t) /\ w \in Word
  BY <1>1, <1>3, ReadFromInv, ReadFromTrue, WordReadIsWord
<1> HIDE DEF d, w
<1>5. ControllerTrue(p, t)
  BY <1>1, <1>4, PutTrue
<1> HIDE DEF p
<1>6. TRUE \in BOOLEAN
  OBVIOUS
<1> QED
  BY <1>2, <1>4, <1>5, <1>6, RegistersTrue

LEMMA WriteTrue ==
  ASSUME NEW m, NEW t \in Nat, ControllerTrue(m, t), NEW opens
  PROVE  ControllerTrue(Write(m, t, opens), t)
<1> DEFINE c == CurrentDrive(m)
           d == WrittenTo(c, m.selected \in Protected, m.ac, t, opens)
<1>1. m.selected \in Units /\ DriveInv(c) /\ DriveTrue(c, t)
  BY CurrentTrue
<1>2. Write(m, t, opens) = Put(m, m.selected, d)
  BY CurrentTrue DEF Write
<1>3. m.ac \in Word
  BY DEF ControllerTrue, ControllerType
<1> HIDE DEF c
<1>4. DriveInv(d) /\ DriveTrue(d, t)
  BY <1>1, <1>3, WrittenToInv, WrittenToTrue
<1> HIDE DEF d
<1> QED
  BY <1>1, <1>2, <1>4, PutTrue

LEMMA StatusIsWord ==
  ASSUME NEW d, NEW unit \in Units
  PROVE  StatusWord(d, unit) \in Word
<1> DEFINE ready == IF d.ready THEN 1 ELSE 0
           error == IF d.error THEN 2 ELSE 0
           record == IF d.endOfRecord THEN 4 ELSE 0
           tape == IF d.endOfTape THEN 8 ELSE 0
           protected == IF unit \in Protected THEN 16 ELSE 0
<1>1. unit \in 0 .. 7
  BY MagtapeConstantsAssumption
<1>2. /\ ready \in 0 .. 1 /\ error \in 0 .. 2 /\ record \in 0 .. 4
      /\ tape \in 0 .. 8 /\ protected \in 0 .. 16
  OBVIOUS
<1>3. StatusWord(d, unit) = ready + error + record + tape + protected + 128 * unit
  BY DEF StatusWord
<1> HIDE DEF ready, error, record, tape, protected
<1>4. ready + error + record + tape + protected + 128 * unit \in 0 .. 4095
  BY <1>1, <1>2
<1> QED
  BY <1>3, <1>4 DEF Word

LEMMA SenseTrue ==
  ASSUME NEW m, NEW t, ControllerTrue(m, t)
  PROVE  ControllerTrue(Sense(m), t)
<1> DEFINE w == StatusWord(CurrentDrive(m), m.selected)
<1>1. w \in Word /\ TRUE \in BOOLEAN
  BY StatusIsWord DEF ControllerTrue, ControllerInv
<1>2. Sense(m) = [m EXCEPT !.ac = w]
  BY DEF Sense
<1> HIDE DEF w
<1> QED
  BY <1>1, <1>2, RegistersTrue

LEMMA MagtapeIotTrue ==
  ASSUME NEW m, NEW t \in Nat, ControllerTrue(m, t), NEW mc, NEW opens
  PROVE  ControllerTrue(MagtapeIot(m, mc, t, opens), t)
<1> DEFINE a == IF Has(mc, 1) THEN Go(m) ELSE m
           b == IF Has(mc, 8) THEN Skip(a) ELSE a
           c == IF Has(mc, 16) THEN Rewind(b, t, opens) ELSE b
           d == IF Has(mc, 2) THEN Read(c) ELSE c
           e == IF Has(mc, 4) THEN Write(d, t, opens) ELSE d
           f == IF Has(mc, 32) THEN Sense(e) ELSE e
<1>0. MagtapeIot(m, mc, t, opens) = f
  BY DEF MagtapeIot
<1>1. ControllerTrue(a, t)
  BY GoTrue
<1> HIDE DEF a
<1>2. ControllerTrue(b, t)
  BY <1>1, SkipTrue
<1> HIDE DEF b
<1>3. ControllerTrue(c, t)
  BY <1>2, RewindTrue
<1> HIDE DEF c
<1>4. ControllerTrue(d, t)
  BY <1>3, ReadTrue
<1> HIDE DEF d
<1>5. ControllerTrue(e, t)
  BY <1>4, WriteTrue
<1> HIDE DEF e
<1>6. ControllerTrue(f, t)
  BY <1>5, SenseTrue
<1> HIDE DEF f
<1> QED
  BY <1>0, <1>6

LEMMA NewControllerTrue ==
  ASSUME NEW drives, NEW t,
         \A u \in Units : DriveInv(Configured(drives[u])) /\ DriveTrue(Configured(drives[u]), t)
  PROVE  ControllerTrue(NewController(drives), t)
<1> DEFINE n == NewController(drives)
<1>1. /\ ControllerInv(n)
      /\ \A u \in Units : n.drives[u] = Configured(drives[u])
  BY NewControllerInv
<1>2. n \in ControllerType
  <2>1. 0 \in Units /\ 0 \in Word /\ FALSE \in BOOLEAN
    BY MagtapeConstantsAssumption DEF Word
  <2>2. [u \in Units |-> Configured(drives[u])] \in [Units -> Drive]
    BY DEF DriveTrue
  <2> QED
    BY <2>1, <2>2 DEF NewController, ControllerType
<1> HIDE DEF n
<1> QED
  BY <1>1, <1>2 DEF ControllerTrue, n

-----------------------------------------------------------------------------
(* The specification, again.                                                *)

MagtapeTrue == now \in Nat /\ ControllerTrue(mt, now)

LEMMA MagtapeInitTrue == MagtapeInit => MagtapeTrue
<1> SUFFICES ASSUME MagtapeInit PROVE MagtapeTrue
  OBVIOUS
<1> DEFINE d == EmptyDrive
           h == Halted(d)
           drives == [u \in Units |-> d]
<1>1. mt = NewController(drives) /\ now = 0
  BY DEF MagtapeInit
<1>2. d \in Drive /\ d.files = {} /\ d.made = <<>> /\ Shaped(d)
  BY DEF EmptyDrive, Drive, NoStream, Shaped, DriveFields
<1>3. Configured(d) = Reloaded(h, TRUE)
  BY DEF Configured, Halted
<1> HIDE DEF d
<1>4. /\ h \in Drive /\ h.files = {} /\ h.made = <<>> /\ h.stream = NoStream
      /\ h.written = <<>> /\ h.accepted = <<>>
  BY <1>2, HaltedTrue
<1>5. DriveInv(Configured(d))
  <2>1. FilesFit(h)
    BY <1>4 DEF FilesFit, OpenIsEmpty
  <2> QED
    BY <1>2, <2>1, ConfiguredInv
<1> HIDE DEF h
<1>6. DirectoryTrue(h, 0)
  <2>1. IsFiniteSet({})
    BY FS_EmptySet
  <2> QED
    BY <1>4, <2>1 DEF DirectoryTrue, FilesTrue, Orderly, MadeTrue, StreamTrue
<1>7. DriveTrue(Configured(d), 0)
  BY <1>3, <1>4, <1>6, ReloadedTrue
<1>8. \A u \in Units : DriveInv(Configured(drives[u])) /\ DriveTrue(Configured(drives[u]), 0)
  BY <1>5, <1>7
<1> HIDE DEF drives
<1> QED
  BY <1>1, <1>8, NewControllerTrue DEF MagtapeTrue

LEMMA OnDriveTrue ==
  ASSUME MagtapeTrue, NEW u \in Units, NEW d, DriveInv(d), DriveTrue(d, now),
         OnDrive(u, d)
  PROVE  MagtapeTrue'
<1> DEFINE p == Put(mt, u, d)
<1>1. mt' = [p EXCEPT !.skip = FALSE] /\ now' = now
  BY DEF OnDrive, Put, MagtapeTrue, ControllerTrue, ControllerInv, ControllerFields
<1>2. ControllerTrue(p, now) /\ now \in Nat
  BY PutTrue DEF MagtapeTrue
<1>3. 0 \in Word /\ FALSE \in BOOLEAN
  BY DEF Word
<1> HIDE DEF p
<1>4. ControllerTrue(mt', now)
  BY <1>1, <1>2, <1>3, RegistersTrue
<1> QED
  BY <1>1, <1>2, <1>4 DEF MagtapeTrue

LEMMA HostDropsTrue ==
  ASSUME MagtapeTrue, MagtapeInv', NEW drop \in HostFiles, HostDrops(drop[1], drop[2])
  PROVE  MagtapeTrue'
<1> DEFINE u == drop[1]
           d == mt.drives[u]
           x == [drop[2] EXCEPT !.mtime = now]
           e == [d EXCEPT !.files = d.files \cup {x}]
<1>1. u \in Units /\ now \in Nat
  BY HostFilesAssumption DEF MagtapeTrue
<1>2. /\ \A g \in d.files : g.index # x.index \/ g.format # x.format
      /\ OnDrive(u, e)
  BY DEF HostDrops
<1>3. DriveInv(d) /\ DriveTrue(d, now)
  BY <1>1 DEF MagtapeTrue, ControllerTrue, ControllerInv
<1> HIDE DEF u, d
<1>4. DriveTrue(e, now)
  <2>1. x = [drop[2] EXCEPT !.mtime = now]
    OBVIOUS
  <2> HIDE DEF x
  <2>2. e = [d EXCEPT !.files = d.files \cup {x}]
    OBVIOUS
  <2> HIDE DEF e
  <2> QED
    BY <1>1, <1>2, <1>3, <2>1, <2>2, DroppedTrue
<1>5. DriveInv(e)
  <2>1. mt'.drives[u] = e
    <3>1. mt' = [mt EXCEPT !.drives[u] = e, !.skip = FALSE]
      BY <1>2 DEF OnDrive
    <3> QED
      BY <1>1, <3>1 DEF MagtapeTrue, ControllerTrue, ControllerType
  <2> QED
    BY <1>1, <2>1 DEF MagtapeInv, ControllerInv
<1> QED
  BY <1>1, <1>2, <1>4, <1>5, OnDriveTrue

LEMMA MagtapeNextTrue ==
  ASSUME MagtapeTrue, MagtapeInv', [MagtapeNext]_magtapeVars
  PROVE  MagtapeTrue'
<1>1. \A u \in Units : DriveInv(mt.drives[u]) /\ DriveTrue(mt.drives[u], now)
  BY DEF MagtapeTrue, ControllerTrue, ControllerInv
<1>2. now \in Nat /\ ControllerTrue(mt, now)
  BY DEF MagtapeTrue
<1>3. 0 \in Word /\ FALSE \in BOOLEAN
  BY DEF Word
<1>4. ASSUME NEW mc \in Microcodes, NEW opens \in BOOLEAN, Iot(mc, opens)
      PROVE  MagtapeTrue'
  <2> DEFINE m == [mt EXCEPT !.skip = FALSE]
  <2>1. mt' = MagtapeIot(m, mc, now, opens) /\ now' = now
    BY <1>4 DEF Iot
  <2>2. ControllerTrue(m, now)
    BY <1>2, <1>3, RegistersTrue
  <2> HIDE DEF m
  <2> QED
    BY <1>2, <2>1, <2>2, MagtapeIotTrue DEF MagtapeTrue
<1>5. ASSUME NEW w \in GuestWords, LoadAc(w)
      PROVE  MagtapeTrue'
  <2> DEFINE m == [mt EXCEPT !.ac = w]
  <2>1. w \in Word
    BY MagtapeConstantsAssumption
  <2>2. ControllerTrue(m, now)
    BY <1>2, <1>3, <2>1, RegistersTrue
  <2>3. mt' = [m EXCEPT !.skip = FALSE] /\ now' = now
    BY <1>5 DEF LoadAc
  <2> HIDE DEF m
  <2>4. ControllerTrue(mt', now)
    BY <1>3, <2>2, <2>3, RegistersTrue
  <2> QED
    BY <1>2, <2>3, <2>4 DEF MagtapeTrue
<1>6. ASSUME NEW u \in Units, OperatorNext(u)
      PROVE  MagtapeTrue'
  <2>1. DriveInv(NextRecord(mt.drives[u])) /\ DriveTrue(NextRecord(mt.drives[u]), now)
    BY <1>1, NextRecordInv, NextRecordTrue
  <2> QED
    BY <1>6, <2>1, OnDriveTrue DEF OperatorNext
<1>7. ASSUME NEW u \in Units, NEW opens \in BOOLEAN,
             OperatorRewind(u, opens) \/ OperatorNew(u, opens)
      PROVE  MagtapeTrue'
  <2>1. /\ DriveInv(Rewound(mt.drives[u], now, opens))
        /\ DriveTrue(Rewound(mt.drives[u], now, opens), now)
        /\ DriveInv(ClosedAndReloaded(mt.drives[u], now, opens))
        /\ DriveTrue(ClosedAndReloaded(mt.drives[u], now, opens), now)
    BY <1>1, <1>2, RewoundInv, RewoundTrue, ClosedAndReloadedInv, ClosedAndReloadedTrue
  <2> QED
    BY <1>7, <2>1, OnDriveTrue DEF OperatorRewind, OperatorNew
<1>8. ASSUME NEW drop \in HostFiles, HostDrops(drop[1], drop[2])
      PROVE  MagtapeTrue'
  BY <1>8, HostDropsTrue
<1>9. CASE Restart
  <2> DEFINE drives == [u \in Units |-> Closed(mt.drives[u], now)]
  <2>1. mt' = NewController(drives) /\ now' = now
    BY <1>9 DEF Restart
  <2>2. \A u \in Units : /\ DriveInv(Configured(drives[u]))
                         /\ DriveTrue(Configured(drives[u]), now)
    BY <1>1, <1>2, RestartedInv, RestartedTrue
  <2> HIDE DEF drives
  <2> QED
    BY <1>2, <2>1, <2>2, NewControllerTrue DEF MagtapeTrue
<1>10. CASE Crash
  <2>1. PICK t \in [Units -> 0 .. now] :
          /\ mt' = NewController([u \in Units |-> CutShort(mt.drives[u], t[u])])
          /\ now' = now
    BY <1>10 DEF Crash
  <2> DEFINE drives == [u \in Units |-> CutShort(mt.drives[u], t[u])]
  <2>2. \A u \in Units : t[u] \in Nat /\ t[u] <= now
    BY <1>2, <2>1
  <2>3. \A u \in Units : /\ DriveInv(Configured(drives[u]))
                         /\ DriveTrue(Configured(drives[u]), now)
    BY <1>1, <1>2, <2>2, CutShortInv, CutShortTrue
  <2>4. mt' = NewController(drives) /\ now' = now
    BY <2>1
  <2> HIDE DEF drives
  <2> QED
    BY <1>2, <2>3, <2>4, NewControllerTrue DEF MagtapeTrue
<1>11. CASE ClockTicks
  <2>1. mt' = mt /\ now' = now + 1
    BY <1>11 DEF ClockTicks
  <2>2. \A u \in Units : DriveTrue(mt.drives[u], now + 1)
    BY <1>1, <1>2, LaterTrue
  <2> QED
    BY <1>2, <2>1, <2>2 DEF MagtapeTrue, ControllerTrue
<1>12. CASE UNCHANGED magtapeVars
  BY <1>2, <1>12 DEF magtapeVars, MagtapeTrue
<1> QED
  BY <1>4, <1>5, <1>6, <1>7, <1>8, <1>9, <1>10, <1>11, <1>12 DEF MagtapeNext

LEMMA MagtapeTrueHolds == MagtapeSpec => []MagtapeTrue
<1>1. MagtapeTrue /\ MagtapeInv' /\ [MagtapeNext]_magtapeVars => MagtapeTrue'
  BY MagtapeNextTrue
<1> QED
  BY MagtapeInitTrue, MagtapeInvHolds, <1>1, PTL DEF MagtapeSpec

\* The controller and its drives have their types, and no cursor stands outside
\* its record, whatever files the host drops and however the emulator ends.
THEOREM MagtapeTypeCorrect == MagtapeSpec => []MagtapeTypeOK
<1>1. MagtapeTrue => MagtapeTypeOK
  BY DEF MagtapeTrue, ControllerTrue, ControllerType, DriveTrue, ReadingTrue, CursorFits,
         MagtapeTypeOK
<1> QED
  BY <1>1, MagtapeTrueHolds, PTL

\* A record that is not marked partial gives back what was written to it, and one
\* the unit closed is marked only if its length does not fit its header: also
\* after a crash between two buffers (close_write_stream, read_tap_record).
THEOREM PartialRecordsAreMarked == MagtapeSpec => []PartialTellsTruth
<1>1. MagtapeTrue => PartialTellsTruth
  BY DEF MagtapeTrue, ControllerTrue, DriveTrue, ReadingTrue, RecordsTrue, Truthful,
         PartialTellsTruth
<1> QED
  BY <1>1, MagtapeTrueHolds, PTL

\* The guest hears every word up to where the unit stands, each once and in order,
\* unless the operator moves it on (perform_read, select_unit).
THEOREM NoWordIsSkipped == MagtapeSpec => []NothingSkipped
<1>1. MagtapeTrue => NothingSkipped
  BY DEF MagtapeTrue, ControllerTrue, DriveTrue, ReadingTrue, HeardAll, WordsBefore,
         NothingSkipped
<1> QED
  BY <1>1, MagtapeTrueHolds, PTL

\* Records are read in the order in which the unit closed their files, though the
\* host's clock counts whole seconds (refresh_manifest, compare_records).
THEOREM WritingOrderIsKept == MagtapeSpec => []RecordsInWritingOrder
<1>1. MagtapeTrue => RecordsInWritingOrder
  BY DEF MagtapeTrue, ControllerTrue, DriveTrue, ReadingTrue, RecordsTrue, IsTape,
         RecordsInWritingOrder
<1> QED
  BY <1>1, MagtapeTrueHolds, PTL
=============================================================================
