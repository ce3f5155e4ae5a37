----------------------------- MODULE ImageFiles -----------------------------
(***************************************************************************)
(* Files that become memory: the S-record images the monitor (read), pdp8v  *)
(* and the tape controller load, each with a loader of its own, the raw     *)
(* images of save and restore, and the words of dep.                        *)
(*                                                                          *)
(* An image is read line by line.  A line is a data record, a start record  *)
(* or anything else; of the text of a data record only what the loaders     *)
(* test is kept.  All three loaders see the same file; its words reach the  *)
(* memory of the monitor.  Failures of allocation are left out.             *)
(***************************************************************************)
EXTENDS Pdp8Words, Integers, Sequences, SequencesExt, Ordering

CONSTANTS
  MemWords,     \* words of memory
  WallClockAddress, \* PDP8_WALL_CLOCK_ADDRESS, 07760 in the source
  Minutes,      \* readings of the wall clock, minutes since midnight
  FileLines,    \* lines an image may consist of
  MaxLines,     \* bound on its lines
  DepositLists, \* what the operator deposits: words, or Invalid
  Unflushed,    \* words the C library still holds when save closes the file
  MaxCommands   \* bound on the commands

Invalid == 4096

Malformed == 256

Absent == 257

ByteAddrs == 0 .. 2 * MemWords - 1

WordAddrs == 0 .. MemWords - 1

DataLine ==
  [ kind : {"data"},
    capital : BOOLEAN,      \* S rather than s
    legible : BOOLEAN,      \* long enough, count and address in hexadecimal
    base : Nat,             \* address of the first byte
    bytes : Seq(0 .. 255 \cup {Malformed}),
    declared : Nat,         \* data bytes according to the count
    sum : {"right", "wrong", "illegible"} ]  \* the checksum, where the count puts it

StartLine == [kind : {"start"}, capital : BOOLEAN, legible : BOOLEAN, base : Nat]

ASSUME ImageConstantsAssumption ==
  /\ MemWords \in 1 .. 4096
  /\ WallClockAddress \in Nat /\ Minutes \subseteq 0 .. 1439
  /\ FileLines \subseteq DataLine \cup StartLine
  /\ MaxLines \in Nat /\ Unflushed \in Nat /\ MaxCommands \in Nat
  /\ DepositLists \subseteq Seq(Word \cup {Invalid})

VARIABLES
  mem,     \* cpu->memory
  pc,      \* cpu->pc
  scan,    \* what each loader has gathered from the file so far
  file,    \* history: the lines of the file
  tape,    \* words and partial flag of the tape record made of the file
  disk,    \* the raw image on the disk, and (history) the memory it is an image
           \* of and the wall clock when it was saved
  done     \* the last command, its answer, and (history) memory and PC before
           \* it, and where a dep starts and what it deposits

imageVars == <<mem, pc, scan, file, tape, disk, done>>

Loaders == {"monitor", "pdp8v", "tape"}

NewScan == [bytes |-> [a \in ByteAddrs |-> Absent], start |-> -1, ok |-> TRUE]

DidWith(command, answer, start, list) ==
  /\ done.count < MaxCommands
  /\ done' = [ command |-> command, answer |-> answer, mem |-> mem, pc |-> pc,
              start |-> start, list |-> list, count |-> done.count + 1 ]

Did(command, answer) == DidWith(command, answer, 0, <<>>)

ImageInit ==
  /\ mem = [w \in WordAddrs |-> 0] /\ pc = 0
  /\ scan = [p \in Loaders |-> NewScan] /\ file = <<>>
  /\ tape = [words |-> <<>>, partial |-> FALSE]
  /\ disk = [content |-> <<>>, meant |-> mem, minutes |-> 0]
  /\ done = [command |-> "none", answer |-> "ok", mem |-> mem, pc |-> pc,
             start |-> 0, list |-> <<>>, count |-> 0]

-----------------------------------------------------------------------------
(* One line.                                                                *)

\* Mutant of Stored: a byte once there is not replaced.
StoredOnce(image, base, bytes) ==
  [a \in ByteAddrs |->
     LET i == a - base + 1
     IN  IF i \in DOMAIN bytes /\ bytes[i] # Malformed /\ image[a] = Absent
           THEN bytes[i] ELSE image[a]]

\* Bytes outside memory are skipped; a later byte replaces an earlier one.
Stored(image, base, bytes) ==
  [a \in ByteAddrs |->
     LET i == a - base + 1
     IN  IF i \in DOMAIN bytes /\ bytes[i] # Malformed THEN bytes[i] ELSE image[a]]

WithStart(s, line) == IF line.legible THEN [s EXCEPT !.start = line.base] ELSE s

WellFormed(line) ==
  line.legible /\ line.declared = Len(line.bytes) /\ Malformed \notin Range(line.bytes)

\* The monitor refuses the file for one malformed line, and reads no checksum.
MonitorLine(s, line) ==
  CASE line.kind = "start"                     -> WithStart(s, line)
    [] line.kind = "data" /\ ~WellFormed(line) -> [s EXCEPT !.ok = FALSE]
    [] OTHER -> [s EXCEPT !.bytes = Stored(@, line.base, line.bytes)]

\* The bytes that pdp8v reads: as many as declared, up to a malformed one.
Taken(line) ==
  LET bad == {i \in 1 .. line.declared : line.bytes[i] = Malformed}
  IN  SubSeq(line.bytes, 1, IF bad = {} THEN line.declared ELSE Min(bad) - 1)

\* pdp8v skips what it cannot read, and keeps the bytes in front of it; it
\* refuses the file for a wrong checksum, and knows no small s.
VisualLine(s, line) ==
  CASE ~line.capital -> s
    [] line.capital /\ line.kind = "start" -> WithStart(s, line)
    [] line.capital /\ line.kind = "data"
         /\ (~line.legible \/ line.declared > Len(line.bytes)) -> s
    [] OTHER ->
         [s EXCEPT !.bytes = Stored(@, line.base, Taken(line)),
                   !.ok = Len(Taken(line)) < line.declared \/ line.sum # "wrong"]

\* The tape controller skips malformed lines and malformed bytes, and has no use
\* for a start address.
ControllerLine(s, line) ==
  IF line.kind = "data" /\ line.legible /\ line.declared = Len(line.bytes)
    THEN [s EXCEPT !.bytes = Stored(@, line.base, line.bytes)]
    ELSE s

\* After a refusal a loader reads no further.
AfterLine(p, s, line) ==
  IF ~s.ok THEN s
  ELSE CASE p = "monitor" -> MonitorLine(s, line)
         [] p = "pdp8v"   -> VisualLine(s, line)
         [] OTHER         -> ControllerLine(s, line)

ReadLine(line) ==
  /\ Len(file) < MaxLines
  /\ file' = Append(file, line)
  /\ scan' = [p \in Loaders |-> AfterLine(p, scan[p], line)]
  /\ UNCHANGED <<mem, pc, tape, disk, done>>

-----------------------------------------------------------------------------
(* The end of the file.                                                     *)

Whole(image, w) == image[2 * w] # Absent /\ image[2 * w + 1] # Absent

HalfThere(image, w) == image[2 * w] # image[2 * w + 1]
                         /\ (image[2 * w] = Absent \/ image[2 * w + 1] = Absent)

\* The low four bits of the odd byte, then the even one.
WordOf(image, w) == (image[2 * w + 1] % 16) * 256 + image[2 * w]

WholeAddrs(image) == {w \in WordAddrs : Whole(image, w)}

\* A file without a whole word fails, like one that was refused.
Loads(s) == s.ok /\ WholeAddrs(s.bytes) # {}

LoadedMem(s, m) ==
  [w \in WordAddrs |-> IF Loads(s) /\ Whole(s.bytes, w) THEN WordOf(s.bytes, w) ELSE m[w]]

\* The start address counts bytes.
LoadedPc(s, p) ==
  IF Loads(s) /\ s.start >= 0 THEN MaskWord(s.start \div 2) % MemWords ELSE p

TapeWords(s) ==
  LET order == InOrder(WholeAddrs(s.bytes), {p \in WordAddrs \X WordAddrs : p[1] < p[2]})
  IN  [i \in DOMAIN order |-> WordOf(s.bytes, order[i])]

Read ==
  /\ mem' = LoadedMem(scan["monitor"], mem)
  /\ pc' = LoadedPc(scan["monitor"], pc)
  /\ tape' = [ words |-> TapeWords(scan["tape"]),
               partial |-> \E w \in WordAddrs : HalfThere(scan["tape"].bytes, w) ]
  /\ Did("read", IF Loads(scan["monitor"]) THEN "ok" ELSE "error")
  /\ UNCHANGED <<scan, file, disk>>

\* The next file.
CloseFile ==
  /\ file # <<>>
  /\ file' = <<>> /\ scan' = [p \in Loaders |-> NewScan]
  /\ tape' = [words |-> <<>>, partial |-> FALSE]
  /\ done' = [done EXCEPT !.command = "none", !.mem = mem, !.pc = pc]
  /\ UNCHANGED <<mem, pc, disk>>

-----------------------------------------------------------------------------
(* save, restore and dep.                                                   *)

\* read_effective_word: in the word of the wall clock nothing reads memory.
EffectiveWord(m, w, minutes) == IF w = WallClockAddress THEN minutes ELSE m[w]

Words(m, minutes) == [i \in 1 .. MemWords |-> EffectiveWord(m, i - 1, minutes)]

\* Memory is read as a program reads data: the image has the time of day in the
\* word of the clock, and what memory holds there is not saved.  fopen has emptied
\* the file before the first word is written.  A write that fails is noticed,
\* unless it is the one fclose makes.
Save ==
  /\ file = <<>>
  /\ \E n \in 0 .. MemWords, noticed \in BOOLEAN, minutes \in Minutes :
       /\ n = MemWords => ~noticed
       /\ n < MemWords - Unflushed => noticed
       /\ disk' = [ content |-> SubSeq(Words(mem, minutes), 1, n), meant |-> mem,
                   minutes |-> minutes ]
       /\ Did("save", IF noticed THEN "error" ELSE "ok")
  /\ UNCHANGED <<mem, pc, scan, file, tape>>

\* Mutant of Restored: the last word of memory is left out.
RestoredShort(content, m) ==
  [w \in WordAddrs |-> IF w < Len(content) /\ w + 1 < MemWords THEN content[w + 1] ELSE m[w]]

Restored(content, m) ==
  [w \in WordAddrs |-> IF w < Len(content) THEN content[w + 1] ELSE m[w]]

\* The end of the file has been seen only by a read that failed, and none fails
\* when memory is full first: then restore reports a read error.
Restore ==
  /\ file = <<>>
  /\ mem' = Restored(disk.content, mem)
  /\ Did("restore", IF Len(disk.content) < MemWords THEN "ok" ELSE "error")
  /\ UNCHANGED <<pc, scan, file, tape, disk>>

\* The words before the invalid one.
Valid(list) ==
  LET bad == {i \in DOMAIN list : list[i] = Invalid}
  IN  IF bad = {} THEN list ELSE SubSeq(list, 1, Min(bad) - 1)

\* Mutant of Deposited: the address moves on before the word is written.
DepositedLate(start, words) ==
  LET after[n \in 0 .. Len(words)] ==
        IF n = 0 THEN mem
        ELSE [after[n - 1] EXCEPT ![(start + n) % MemWords] = words[n]]
  IN  after[Len(words)]

\* Words go to consecutive addresses, around the end of memory.
Deposited(start, words) ==
  LET after[n \in 0 .. Len(words)] ==
        IF n = 0 THEN mem
        ELSE [after[n - 1] EXCEPT ![(start + n - 1) % MemWords] = words[n]]
  IN  after[Len(words)]

\* The words in front of an invalid one stay.
Deposit(start, list) ==
  /\ file = <<>>
  /\ mem' = Deposited(start, Valid(list))
  /\ DidWith("dep", IF list # <<>> /\ Valid(list) = list THEN "ok" ELSE "error",
             start, list)
  /\ UNCHANGED <<pc, scan, file, tape, disk>>

-----------------------------------------------------------------------------
ImageNext ==
  \/ \E line \in FileLines : ReadLine(line)
  \/ Read \/ CloseFile
  \/ Save \/ Restore
  \/ \E start \in WordAddrs : \E list \in DepositLists : Deposit(start, list)

ImageSpec == ImageInit /\ [][ImageNext]_imageVars

-----------------------------------------------------------------------------
ImageTypeOK ==
  /\ mem \in [WordAddrs -> Word] /\ pc \in WordAddrs
  /\ \A p \in Loaders : scan[p].bytes \in [ByteAddrs -> 0 .. 255 \cup {Absent}]
  /\ disk.content \in Seq(Word) /\ Len(disk.content) <= MemWords
  /\ tape.words \in Seq(Word)

\* A file every loader should accept.
Proper ==
  \A i \in DOMAIN file :
    /\ file[i].capital /\ file[i].legible
    /\ file[i].kind = "data" => WellFormed(file[i]) /\ file[i].sum = "right"

\* The lines that give the byte at a.
Givers(a) ==
  {i \in DOMAIN file :
     file[i].kind = "data" /\ a - file[i].base + 1 \in DOMAIN file[i].bytes}

Meant(a) == LET i == Max(Givers(a)) IN file[i].bytes[a - file[i].base + 1]

MeantWhole(w) == Givers(2 * w) # {} /\ Givers(2 * w + 1) # {}

MeantWord(w) == Meant(2 * w) + 256 * (Meant(2 * w + 1) % 16)

\* Of a proper file the three loaders make the same memory: each word both of
\* whose bytes some record gives, with the bytes of the last record that gives
\* them, in order; and the two that know a start address agree on it.
LoadersExact ==
  Proper =>
    LET whole == {w \in WordAddrs : MeantWhole(w)}
    IN  /\ \A p \in {"monitor", "pdp8v"} :
             /\ Loads(scan[p]) <=> whole # {}
             /\ \A w \in WordAddrs :
                  LoadedMem(scan[p], mem)[w] = IF w \in whole THEN MeantWord(w) ELSE mem[w]
        /\ LoadedPc(scan["monitor"], pc) = LoadedPc(scan["pdp8v"], pc)
        /\ Len(TapeWords(scan["tape"])) = Cardinality(whole)
        /\ \A w \in whole :
             TapeWords(scan["tape"])[Cardinality({v \in whole : v <= w})] = MeantWord(w)

ReadAnswers == done.answer = "error" => mem = done.mem /\ pc = done.pc

RestoreAnswers ==
  /\ \A w \in WordAddrs :
       mem[w] = CASE w >= Len(disk.content) -> done.mem[w]
                  [] w < Len(disk.content) /\ w = WallClockAddress -> disk.minutes
                  [] OTHER -> disk.meant[w]
  /\ done.answer = "error" <=> Len(disk.content) = MemWords

SaveAnswers == done.answer = "ok" => Len(disk.content) >= MemWords - Unflushed

\* The words of a dep in front of the first that is none.
SoundWords == {i \in DOMAIN done.list : \A j \in 1 .. i : done.list[j] # Invalid}

Landing(w) == {i \in SoundWords : (done.start + i - 1) % MemWords = w}

DepAnswers ==
  /\ done.answer = "ok" <=> SoundWords # {} /\ SoundWords = DOMAIN done.list
  /\ \A w \in WordAddrs :
       mem[w] = IF Landing(w) = {} THEN done.mem[w] ELSE done.list[Max(Landing(w))]

\* The answer of a command and the state it leaves (monitor.c:1059-1366).  A read
\* that fails leaves memory and PC as they were.  A restore brings back the words
\* the image holds and no other, except that the word of the wall clock comes
\* back as the time of the save; it calls a full image an error.  A save that
\* succeeds may have lost what the C library still held.  A dep answers "ok"
\* exactly when every word was deposited; when it fails, the words in front of
\* the invalid one have been, and in either case nothing else has changed,
\* though a list longer than memory goes around and over its own beginning.
AnswersAboutMemory ==
  /\ done.command = "read" => ReadAnswers
  /\ done.command = "restore" => RestoreAnswers
  /\ done.command = "save" => SaveAnswers
  /\ done.command = "dep" => DepAnswers

\* The monitor's help says of save "Write RAM image to a file." (monitor.c:837):
\* a save that succeeds and is complete has written what memory holds.
SavesMemory ==
  done.command = "save" /\ done.answer = "ok" /\ Len(disk.content) = MemWords =>
    \A w \in WordAddrs : disk.content[w + 1] = mem[w]
=============================================================================
