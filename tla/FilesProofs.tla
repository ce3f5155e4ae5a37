---------------------------- MODULE FilesProofs ----------------------------
(***************************************************************************)
(* Proofs about the devices and files behind the machine: the paper tape    *)
(* reader (PaperTape), the printer and the punch (HardCopy), the images     *)
(* that become memory (ImageFiles), and the file the machine is made from   *)
(* (Configuration).                                                         *)
(***************************************************************************)
EXTENDS PaperTape, HardCopy, ImageFiles, Configuration, BasicProofs

-----------------------------------------------------------------------------
(* Paper tape: numbers.                                                     *)

LEMMA NumberBuilds ==
  ASSUME NEW d \in Seq(Nat), NEW base \in Nat
  PROVE  \E f \in [0 .. Len(d) -> Nat] :
           /\ f[0] = 0 /\ \A k \in 1 .. Len(d) : f[k] = f[k - 1] * base + d[k]
           /\ NumberIn(d, base) = f[Len(d)]
<1> DEFINE n == Len(d)
           g == [k \in 1 .. n |-> [x \in Nat |-> x * base + d[k]]]
           number == CHOOSE f : f = [k \in 0 .. n |-> IF k = 0 THEN 0 ELSE f[k - 1] * base + d[k]]
<1>1. n \in Nat /\ n = Len(d) /\ \A k \in 1 .. n : d[k] \in Nat
  OBVIOUS
<1>2. g \in [1 .. n -> [Nat -> Nat]]
  OBVIOUS
<1>3. \A k \in 1 .. n, x \in Nat : g[k][x] = x * base + d[k]
  OBVIOUS
<1>4. NumberIn(d, base) = number[n]
  BY DEF NumberIn
<1> HIDE DEF n, g
<1>5. PICK e \in [0 .. n -> Nat] : IsIterate(e, n, 0, g)
  BY <1>1, <1>2, IterateExists
<1>6. e = [k \in 0 .. n |-> IF k = 0 THEN 0 ELSE e[k - 1] * base + d[k]]
  <2>1. ASSUME NEW k \in 0 .. n PROVE e[k] = IF k = 0 THEN 0 ELSE e[k - 1] * base + d[k]
    <3>1. CASE k = 0
      BY <1>5, <3>1 DEF IsIterate
    <3>2. CASE k # 0
      <4>1. k \in 1 .. n /\ k - 1 \in 0 .. n
        BY <3>2, <1>1
      <4>2. e[k] = g[k][e[k - 1]] /\ e[k - 1] \in Nat
        BY <1>5, <4>1 DEF IsIterate
      <4> QED
        BY <1>3, <3>2, <4>1, <4>2
    <3> QED
      BY <3>1, <3>2
  <2> QED
    BY <2>1
<1>7. number = [k \in 0 .. n |-> IF k = 0 THEN 0 ELSE number[k - 1] * base + d[k]]
  BY <1>6
<1> HIDE DEF number
<1> DEFINE P == {k \in 0 .. n : number[k] \in Nat}
<1>8. number[0] = 0
  BY <1>1, <1>7
<1>9. ASSUME NEW k \in 1 .. n PROVE number[k] = number[k - 1] * base + d[k]
  <2>1. k \in 0 .. n /\ k # 0
    BY <1>1
  <2>2. number[k] = IF k = 0 THEN 0 ELSE number[k - 1] * base + d[k]
    BY <1>7, <2>1
  <2> QED
    BY <2>1, <2>2
<1>10. ASSUME NEW k \in 0 .. n - 1, k \in P PROVE k + 1 \in P
  <2>1. k + 1 \in 1 .. n /\ k + 1 \in 0 .. n /\ (k + 1) - 1 = k /\ number[k] \in Nat
    BY <1>1, <1>10
  <2>2. number[k + 1] = number[k] * base + d[k + 1] /\ d[k + 1] \in Nat
    BY <1>1, <1>9, <2>1
  <2>3. PICK x \in Nat, y \in Nat : x = number[k] /\ y = d[k + 1]
    BY <2>1, <2>2
  <2>4. x * base \in Nat /\ x * base + y \in Nat
    OBVIOUS
  <2>5. number[k + 1] \in Nat
    BY <2>2, <2>3, <2>4
  <2> QED
    BY <2>1, <2>5
<1>11. 0 \in P
  BY <1>1, <1>8
<1>12. 0 .. n \subseteq P
  <2> HIDE DEF P
  <2> QED
    BY <1>1, <1>10, <1>11, UpTo
<1>13. number \in [0 .. n -> Nat]
  BY <1>7, <1>12
<1> QED
  BY <1>1, <1>4, <1>8, <1>9, <1>13

\* Twelve bits make a word.
LEMMA Doublings ==
  ASSUME NEW f \in [0 .. 12 -> Nat], f[0] = 0,
         \A k \in 1 .. 12 : \E y \in 0 .. 1 : f[k] = f[k - 1] * 2 + y
  PROVE  \E w \in Word : w = f[12]
<1>1. ASSUME NEW k \in 1 .. 12, NEW m \in Nat, f[k - 1] <= m PROVE f[k] <= 2 * m + 1
  <2>1. PICK x \in Nat, y \in 0 .. 1 : x = f[k - 1] /\ f[k] = x * 2 + y
    OBVIOUS
  <2> QED
    BY <1>1, <2>1
<1>2. f[1] <= 1
  BY <1>1
<1>3. f[2] <= 3
  BY <1>1, <1>2
<1>4. f[3] <= 7
  BY <1>1, <1>3
<1>5. f[4] <= 15
  BY <1>1, <1>4
<1>6. f[5] <= 31
  BY <1>1, <1>5
<1>7. f[6] <= 63
  BY <1>1, <1>6
<1>8. f[7] <= 127
  BY <1>1, <1>7
<1>9. f[8] <= 255
  BY <1>1, <1>8
<1>10. f[9] <= 511
  BY <1>1, <1>9
<1>11. f[10] <= 1023
  BY <1>1, <1>10
<1>12. f[11] <= 2047
  BY <1>1, <1>11
<1>13. f[12] <= 4095
  BY <1>1, <1>12
<1>14. 12 \in 0 .. 12
  OBVIOUS
<1>15. f[12] \in Nat
  BY <1>14
<1>16. PICK x \in Nat : x = f[12]
  BY <1>15
<1>17. x <= 4095
  BY <1>13, <1>16
<1>18. x \in Word
  BY <1>17, WordIf
<1> QED
  BY <1>16, <1>18

LEMMA TwelveBits ==
  ASSUME NEW d \in Seq(0 .. 1), Len(d) = 12
  PROVE  NumberIn(d, 2) \in Word
<1>1. d \in Seq(Nat)
  OBVIOUS
<1>2. PICK f \in [0 .. Len(d) -> Nat] :
        /\ f[0] = 0 /\ \A k \in 1 .. Len(d) : f[k] = f[k - 1] * 2 + d[k]
        /\ NumberIn(d, 2) = f[Len(d)]
  BY <1>1, NumberBuilds
<1>3. PICK h \in [0 .. 12 -> Nat] : h = f
  BY <1>2
<1>4. h[0] = 0 /\ \A k \in 1 .. 12 : \E y \in 0 .. 1 : h[k] = h[k - 1] * 2 + y
  <2>1. h[0] = 0
    BY <1>2, <1>3
  <2>2. ASSUME NEW k \in 1 .. 12 PROVE \E y \in 0 .. 1 : h[k] = h[k - 1] * 2 + y
    <3>1. d[k] \in 0 .. 1 /\ h[k] = h[k - 1] * 2 + d[k]
      BY <1>2, <1>3, ElementOfSeq
    <3> QED
      BY <3>1
  <2> QED
    BY <2>1, <2>2
<1>5. \E w \in Word : w = h[12]
  BY ONLY h \in [0 .. 12 -> Nat], <1>4, Doublings
<1>6. NumberIn(d, 2) = h[12]
  BY <1>2, <1>3
<1> QED
  BY <1>5, <1>6

-----------------------------------------------------------------------------
(* Paper tape: the two notations.                                           *)

LEMMA CutToken ==
  ASSUME NEW token \in TapeToken
  PROVE  /\ Cut(token) \in TapeToken /\ Len(Cut(token)) <= Len(token)
         /\ \A i \in 1 .. Len(Cut(token)) : Cut(token)[i] = token[i]
<1>1. PICK n \in Nat : n = Len(token)
  BY DEF TapeToken
<1>2. PICK m \in Nat : m = Min({3, n}) /\ m <= n
  <2>1. {3, n} \in SUBSET Nat /\ {3, n} # {}
    OBVIOUS
  <2> QED
    BY <2>1, LeastOf
<1>3. Cut(token) = SubSeq(token, 1, m)
  BY <1>1, <1>2 DEF Cut
<1>4. PICK t \in Seq(0 .. 8) : t = token
  BY DEF TapeToken
<1>5. /\ SubSeq(t, 1, m) \in Seq(0 .. 8) /\ Len(SubSeq(t, 1, m)) = m
      /\ \A i \in 1 .. m : SubSeq(t, 1, m)[i] = t[i]
  <2>1. \A i \in 1 .. m : t[i] \in 0 .. 8
    <3> TAKE i \in 1 .. m
    <3>1. i \in 1 .. Len(t)
      BY <1>1, <1>2, <1>4
    <3> QED
      BY <3>1, ElementOfSeq
  <2>2. SubSeq(t, 1, m) \in Seq(0 .. 8)
    BY <2>1, SubSeqProperties
  <2>3. Len(SubSeq(t, 1, m)) = m
    BY <2>1, SubSeqProperties
  <2>4. \A i \in 1 .. m : SubSeq(t, 1, m)[i] = t[i]
    OBVIOUS
  <2> QED
    BY <2>2, <2>3, <2>4
<1> QED
  BY <1>1, <1>2, <1>3, <1>4, <1>5 DEF TapeToken

LEMMA MarkersPlaced ==
  ASSUME NEW text \in Seq(TapeToken)
  PROVE  /\ Markers(text) \in SUBSET (1 .. Len(text))
         /\ Markers(text) # {} => Min(Markers(text)) \in 1 .. Len(text)
<1>1. Markers(text) \in SUBSET (1 .. Len(text)) /\ Markers(text) \in SUBSET Nat
  BY DEF Markers
<1> QED
  BY <1>1, LeastOf

LEMMA CodesTyped ==
  ASSUME NEW text \in Seq(TapeToken)
  PROVE  Codes(text) \in Seq(TapeToken)
<1>1. CASE Markers(text) = {}
  BY <1>1 DEF Codes
<1>2. CASE Markers(text) # {}
  <2>1. PICK m \in 1 .. Len(text) : m = Min(Markers(text))
    BY <1>2, MarkersPlaced
  <2>2. Codes(text) = SubSeq(text, 1, m - 1)
    BY <1>2, <2>1 DEF Codes
  <2> QED
    BY <2>1, <2>2
<1> QED
  BY <1>1, <1>2

LEMMA BitsTyped ==
  ASSUME NEW text \in Seq(TapeToken)
  PROVE  Bits(text) \in Seq(0 .. 8)
  BY FlattenIsSeq DEF Bits, TapeToken

\* Digits that are all bits contain no marker.
LEMMA BitsUnmarked ==
  ASSUME NEW text \in Seq(TapeToken), IsBits(text)
  PROVE  Markers(text) = {}
<1> SUFFICES ASSUME NEW i \in Markers(text) PROVE FALSE
  OBVIOUS
<1>1. i \in 1 .. Len(text) /\ Cut(text[i]) = <<7, 7, 7>> /\ text[i] \in TapeToken
  BY DEF Markers, EndOfTape
<1>2. 1 \in 1 .. Len(text[i]) /\ text[i][1] = 7
  <2>1. PICK t \in TapeToken : t = text[i]
    BY <1>1
  <2>2. Len(Cut(t)) = 3 /\ Cut(t)[1] = 7
    BY <1>1, <2>1
  <2>3. Len(t) \in Nat
    BY DEF TapeToken
  <2>4. 1 \in 1 .. Len(Cut(t)) /\ 3 <= Len(t)
    <3>1. Len(Cut(t)) <= Len(t)
      BY CutToken
    <3> QED
      BY <2>2, <3>1
  <2>5. Cut(t)[1] = t[1]
    BY <2>4, CutToken
  <2> QED
    BY <2>1, <2>2, <2>3, <2>4, <2>5
<1>3. \E m \in 1 .. Len(Bits(text)) : Bits(text)[m] = text[i][1]
  <2>1. text \in Seq(Seq(0 .. 8))
    BY DEF TapeToken
  <2>2. \E m \in 1 .. Len(FlattenSeq(text)) : FlattenSeq(text)[m] = text[i][1]
    BY <1>1, <1>2, <2>1, FlattenHolds
  <2> QED
    BY <2>2 DEF Bits
<1>4. 7 \in Range(Bits(text))
  BY <1>2, <1>3, BitsTyped DEF Range
<1> QED
  BY <1>4 DEF IsBits

LEMMA BitWordsTyped ==
  ASSUME NEW text \in Seq(TapeToken), IsBits(text)
  PROVE  BitWords(text) \in Seq(Word)
<1>1. PICK b \in Seq(0 .. 8) : b = Bits(text)
  BY BitsTyped
<1>2. b \in Seq(0 .. 1)
  <2>1. ASSUME NEW i \in 1 .. Len(b) PROVE b[i] \in 0 .. 1
    <3>1. b[i] \in Range(b)
      BY DEF Range
    <3>2. b[i] = 0 \/ b[i] = 1
      BY <1>1, <3>1 DEF IsBits
    <3> QED
      BY <3>2
  <2> QED
    BY <2>1
<1>3. PICK n \in Nat : n = Len(b) \div 12 /\ 12 * n <= Len(b)
  OBVIOUS
<1>4. ASSUME NEW w \in 1 .. n PROVE NumberIn(SubSeq(b, 12 * w - 11, 12 * w), 2) \in Word
  <2>1. PICK lo \in 1 .. Len(b), hi \in 1 .. Len(b) : lo = 12 * w - 11 /\ hi = 12 * w
    BY <1>3
  <2>2. SubSeq(b, lo, hi) \in Seq(0 .. 1) /\ Len(SubSeq(b, lo, hi)) = 12
    BY <1>2, <2>1
  <2> QED
    BY <2>1, <2>2, TwelveBits
<1>5. BitWords(text) = [w \in 1 .. n |-> NumberIn(SubSeq(b, 12 * w - 11, 12 * w), 2)]
  BY <1>1, <1>3 DEF BitWords
<1> QED
  BY <1>4, <1>5

LEMMA CodeWordsTyped ==
  ASSUME NEW text \in Seq(TapeToken), IsCodes(text)
  PROVE  CodeWords(text) \in Seq(Word)
<1>1. PICK c \in Seq(TapeToken) : c = Codes(text)
  BY CodesTyped
<1>2. ASSUME NEW i \in 1 .. Len(c) PROVE CodeWords(text)[i] \in Word
  <2>1. PICK t \in Seq(Nat) : t = Cut(c[i])
    <3>1. c[i] \in TapeToken
      OBVIOUS
    <3>2. Cut(c[i]) \in Seq(0 .. 8)
      BY <3>1, CutToken DEF TapeToken
    <3> QED
      BY <3>2
  <2>2. CodeWords(text)[i] = NumberIn(t, 8)
    BY <1>1, <2>1 DEF CodeWords
  <2>3. PICK n \in Nat : n = CodeWords(text)[i]
    <3>1. PICK f \in [0 .. Len(t) -> Nat] : NumberIn(t, 8) = f[Len(t)]
      BY NumberBuilds
    <3>2. Len(t) \in 0 .. Len(t)
      OBVIOUS
    <3>3. f[Len(t)] \in Nat
      BY <3>2
    <3> QED
      BY <2>2, <3>1, <3>3
  <2>4. CodeWords(text)[i] <= 255
    BY <1>1 DEF IsCodes
  <2>5. n <= 255
    BY <2>3, <2>4
  <2> QED
    BY <2>3, <2>5, WordIf
<1>3. CodeWords(text) = [i \in 1 .. Len(c) |-> CodeWords(text)[i]]
  BY <1>1 DEF CodeWords
<1> QED
  BY <1>2, <1>3

-----------------------------------------------------------------------------
(* Paper tape: reading an image.                                            *)

Block == [block : 0 .. 511, words : Seq(Word)]

\* The words of a line that named a block.
LoadedWords(text) == IF IsBits(text) THEN BitWords(text) ELSE CodeWords(text)

\* The lines of an image that name a block, up to the end of the tape.
Naming(ls) ==
  {i \in DOMAIN ls :
     /\ ls[i].header = "good" /\ ~OnlyMarker(ls[i].text)
     /\ \A j \in 1 .. i - 1 : ~Ends(ls[j])}

\* Blocks and lines that name one correspond to each other.
MadeOf(image, ls) ==
  /\ image = [label |-> image.label, blocks |-> image.blocks]
  /\ image.blocks \in Seq(Block) /\ ls \in Seq(TapeLines)
  /\ \A b \in DOMAIN image.blocks : \E i \in Naming(ls) :
       image.blocks[b] = [block |-> ls[i].block, words |-> LoadedWords(ls[i].text)]
  /\ \A i \in Naming(ls) : \E b \in DOMAIN image.blocks : image.blocks[b].block = ls[i].block
  /\ \A i, j \in Naming(ls) : ls[i].block = ls[j].block => i = j

LoadInv(l) ==
  /\ l = [image |-> l.image, status |-> l.status, lines |-> l.lines]
  /\ l.lines \in Seq(TapeLines) /\ l.status \in {"reading", "ended", "failed"}
  /\ l.status # "failed" => MadeOf(l.image, l.lines)
  /\ l.status = "reading" => \A i \in DOMAIN l.lines : ~Ends(l.lines[i])
  /\ l.status = "ended" => \E i \in DOMAIN l.lines : Ends(l.lines[i])

LEMMA LineTyped ==
  ASSUME NEW line \in TapeLines
  PROVE  line.block \in 0 .. 511 /\ line.text \in Seq(TapeToken) /\ line.header \in {"blank", "good", "bad"}
  BY PaperTapeConstantsAssumption DEF TapeLine

\* Another line counts when it names a block and the tape has not ended.
LEMMA NamingOneMore ==
  ASSUME NEW ls \in Seq(TapeLines), NEW line \in TapeLines
  PROVE  LET all == Append(ls, line)
         IN  /\ all \in Seq(TapeLines) /\ Len(all) = Len(ls) + 1 /\ all[Len(ls) + 1] = line
             /\ \A i \in DOMAIN ls : i \in DOMAIN all /\ all[i] = ls[i]
             /\ Naming(all) =
                  IF /\ line.header = "good" /\ ~OnlyMarker(line.text)
                     /\ \A i \in DOMAIN ls : ~Ends(ls[i])
                    THEN Naming(ls) \cup {Len(ls) + 1} ELSE Naming(ls)
<1> DEFINE all == Append(ls, line)
           n == Len(ls) + 1
<1>1. /\ all \in Seq(TapeLines) /\ Len(all) = n /\ all[n] = line /\ n \in Nat \ {0}
      /\ DOMAIN all = 1 .. n /\ DOMAIN ls = 1 .. n - 1
      /\ \A i \in 1 .. n - 1 : all[i] = ls[i]
  OBVIOUS
<1> HIDE DEF all, n
<1>2. ASSUME NEW i \in 1 .. n - 1 PROVE i \in Naming(all) <=> i \in Naming(ls)
  <2>1. i \in 1 .. n /\ all[i] = ls[i] /\ \A j \in 1 .. i - 1 : all[j] = ls[j]
    BY <1>1
  <2> QED
    BY <1>1, <2>1 DEF Naming
<1>3. n \in Naming(all) <=>
        /\ line.header = "good" /\ ~OnlyMarker(line.text)
        /\ \A i \in DOMAIN ls : ~Ends(ls[i])
  <2>1. n \in 1 .. n
    BY <1>1
  <2>2. (\A j \in 1 .. n - 1 : ~Ends(all[j])) <=> (\A i \in DOMAIN ls : ~Ends(ls[i]))
    BY <1>1
  <2> QED
    BY <1>1, <2>1, <2>2, Zenon DEF Naming
<1>4. Naming(all) \subseteq 1 .. n /\ Naming(ls) \subseteq 1 .. n - 1
  BY <1>1 DEF Naming
<1>5. \A i \in 1 .. n : i = n \/ i \in 1 .. n - 1
  BY <1>1
<1>6. Naming(all) = IF n \in Naming(all) THEN Naming(ls) \cup {n} ELSE Naming(ls)
  <2>1. \A i \in 1 .. n - 1 : i # n /\ i \in 1 .. n
    BY <1>1
  <2> HIDE <1>1
  <2>2. \A i \in Naming(ls) : i \in Naming(all) /\ i # n
    BY <1>2, <1>4, <2>1
  <2>3. \A i \in Naming(all) : i = n \/ i \in Naming(ls)
    BY <1>2, <1>4, <1>5
  <2>4. CASE n \in Naming(all)
    <3>1. Naming(all) = Naming(ls) \cup {n}
      BY <2>2, <2>3, <2>4
    <3> QED
      BY <2>4, <3>1
  <2>5. CASE n \notin Naming(all)
    <3>1. Naming(all) = Naming(ls)
      BY <2>2, <2>3, <2>5
    <3> QED
      BY <2>5, <3>1
  <2> QED
    BY <2>4, <2>5
<1> QED
  BY <1>1, <1>3, <1>6 DEF n, all

\* Where no line is added to those that name a block, the blocks remain right.
LEMMA MadeOfTheSame ==
  ASSUME NEW image, NEW ls, MadeOf(image, ls), NEW line \in TapeLines,
         Naming(Append(ls, line)) = Naming(ls)
  PROVE  MadeOf(image, Append(ls, line))
<1>1. ls \in Seq(TapeLines)
  BY DEF MadeOf
<1>2. Append(ls, line) \in Seq(TapeLines) /\ \A i \in DOMAIN ls : Append(ls, line)[i] = ls[i]
  BY <1>1, NamingOneMore
<1>3. \A i \in Naming(ls) : Append(ls, line)[i] = ls[i]
  BY <1>2 DEF Naming
<1> DEFINE all == Append(ls, line)
<1>4. all \in Seq(TapeLines) /\ Naming(all) = Naming(ls) /\ \A i \in Naming(ls) : all[i] = ls[i]
  BY <1>2, <1>3
<1> HIDE DEF all
<1>5. MadeOf(image, all)
  <2>1. /\ image = [label |-> image.label, blocks |-> image.blocks]
        /\ image.blocks \in Seq(Block) /\ all \in Seq(TapeLines)
    BY <1>4 DEF MadeOf
  <2>2. \A b \in DOMAIN image.blocks : \E i \in Naming(all) :
          image.blocks[b] = [block |-> all[i].block, words |-> LoadedWords(all[i].text)]
    <3> TAKE b \in DOMAIN image.blocks
    <3>1. PICK i \in Naming(ls) :
            image.blocks[b] = [block |-> ls[i].block, words |-> LoadedWords(ls[i].text)]
      BY DEF MadeOf
    <3>2. all[i] = ls[i] /\ i \in Naming(all)
      BY <1>4
    <3>3. image.blocks[b] = [block |-> all[i].block, words |-> LoadedWords(all[i].text)]
      BY <3>1, <3>2
    <3> QED
      BY <3>2, <3>3
  <2>3. \A i \in Naming(all) : \E b \in DOMAIN image.blocks : image.blocks[b].block = all[i].block
    BY <1>4 DEF MadeOf
  <2>4. \A i, j \in Naming(all) : all[i].block = all[j].block => i = j
    BY <1>4 DEF MadeOf
  <2> QED
    BY <2>1, <2>2, <2>3, <2>4 DEF MadeOf
<1> QED
  BY <1>5 DEF all

\* What a line does to the record of an image that is being read.
LEMMA FailedSet ==
  ASSUME NEW image, NEW status, NEW ls, NEW l, l = [image |-> image, status |-> status, lines |-> ls]
  PROVE  Failed(l) = [image |-> image, status |-> "failed", lines |-> ls]
  BY DEF Failed

LEMMA BlockRefused ==
  ASSUME NEW l, NEW line, NEW words, NEW ends,
         \/ l.image.label \notin {"none", line.label}
         \/ \E i \in DOMAIN l.image.blocks : l.image.blocks[i].block = line.block
  PROVE  AddBlock(l, line, words, ends) = Failed(l)
  BY DEF AddBlock

LEMMA BlockAdded ==
  ASSUME NEW image, NEW status, NEW ls, NEW l, l = [image |-> image, status |-> status, lines |-> ls],
         image = [label |-> image.label, blocks |-> image.blocks],
         NEW line, NEW words, NEW ends, l.image.label \in {"none", line.label},
         \A i \in DOMAIN l.image.blocks : l.image.blocks[i].block # line.block
  PROVE  AddBlock(l, line, words, ends)
          = [ image |-> [label |-> line.label,
                         blocks |-> Append(image.blocks, [block |-> line.block, words |-> words])],
              status |-> IF ends THEN "ended" ELSE "reading", lines |-> ls ]
<1>1. AddBlock(l, line, words, ends)
       = [l EXCEPT !.image = [label |-> line.label,
                              blocks |-> Append(@.blocks, [block |-> line.block, words |-> words])],
                   !.status = IF ends THEN "ended" ELSE "reading"]
  BY DEF AddBlock
<1> QED
  BY <1>1

LEMMA AddBlockInv ==
  ASSUME NEW l, LoadInv(l), l.status = "reading", NEW line \in TapeLines,
         line.header = "good", ~OnlyMarker(line.text), LoadedWords(line.text) \in Seq(Word),
         NEW ends \in BOOLEAN, ends <=> Ends(line),
         NEW a, a = AddBlock(l, line, LoadedWords(line.text), ends)
  PROVE  /\ a = [image |-> a.image, status |-> a.status, lines |-> l.lines]
         /\ LoadInv([image |-> a.image, status |-> a.status, lines |-> Append(l.lines, line)])
<1> DEFINE words == LoadedWords(line.text)
           all == Append(l.lines, line)
           n == Len(l.lines) + 1
           new == [block |-> line.block, words |-> words]
<1>0. /\ l = [image |-> l.image, status |-> l.status, lines |-> l.lines]
      /\ l.image = [label |-> l.image.label, blocks |-> l.image.blocks]
  BY DEF LoadInv, MadeOf
<1>1. /\ all \in Seq(TapeLines) /\ all[n] = line /\ n \in DOMAIN all
      /\ \A i \in DOMAIN l.lines : i \in DOMAIN all /\ all[i] = l.lines[i] /\ i # n
      /\ \A i \in DOMAIN all : i \in DOMAIN l.lines \/ i = n
      /\ Naming(all) = Naming(l.lines) \cup {n} /\ Naming(l.lines) \subseteq DOMAIN l.lines
  <2>1. l.lines \in Seq(TapeLines) /\ \A i \in DOMAIN l.lines : ~Ends(l.lines[i])
    BY DEF LoadInv
  <2>2. Naming(all) = Naming(l.lines) \cup {n}
    BY <2>1, NamingOneMore
  <2>3. Naming(l.lines) \subseteq DOMAIN l.lines
    BY DEF Naming
  <2> QED
    BY <2>1, <2>2, <2>3
<1>2. new \in Block
  BY LineTyped DEF Block
<1>3. CASE \/ l.image.label \notin {"none", line.label}
           \/ \E i \in DOMAIN l.image.blocks : l.image.blocks[i].block = line.block
  <2>1. a = [image |-> l.image, status |-> "failed", lines |-> l.lines]
    <3>1. a = Failed(l)
      BY <1>3, BlockRefused
    <3> QED
      BY <1>0, <3>1, FailedSet
  <2> HIDE DEF all
  <2>2. LoadInv([image |-> l.image, status |-> "failed", lines |-> all])
    BY <1>1 DEF LoadInv
  <2> QED
    BY <2>1, <2>2 DEF all
<1>4. CASE /\ l.image.label \in {"none", line.label}
           /\ \A i \in DOMAIN l.image.blocks : l.image.blocks[i].block # line.block
  <2> DEFINE blocks == Append(l.image.blocks, new)
             image == [label |-> line.label, blocks |-> blocks]
             status == IF ends THEN "ended" ELSE "reading"
  <2>1. a = [image |-> image, status |-> status, lines |-> l.lines]
    <3>1. AddBlock(l, line, words, ends) = [image |-> image, status |-> status, lines |-> l.lines]
      <4> HIDE DEF words
      <4> QED
        BY <1>0, <1>4, BlockAdded
    <3> QED
      BY <3>1
  <2>2. MadeOf(l.image, l.lines)
    BY DEF LoadInv
  <2>3. PICK m \in Nat : m = Len(l.image.blocks) /\ DOMAIN l.image.blocks = 1 .. m
    BY <2>2 DEF MadeOf
  <2>4. /\ blocks \in Seq(Block) /\ DOMAIN blocks = 1 .. m + 1 /\ blocks[m + 1] = new
        /\ \A b \in 1 .. m : blocks[b] = l.image.blocks[b] /\ b \in 1 .. m + 1
        /\ \A b \in 1 .. m + 1 : b \in 1 .. m \/ b = m + 1
        /\ m + 1 \in 1 .. m + 1
    BY <1>2, <2>2, <2>3 DEF MadeOf
  <2> HIDE DEF blocks, all, n
  <2>5. ASSUME NEW b \in DOMAIN blocks
        PROVE  \E i \in Naming(all) :
                 blocks[b] = [block |-> all[i].block, words |-> LoadedWords(all[i].text)]
    <3>1. CASE b = m + 1
      BY <1>1, <2>4, <3>1
    <3>2. CASE b \in 1 .. m
      <4>1. PICK i \in Naming(l.lines) :
              l.image.blocks[b] = [block |-> l.lines[i].block, words |-> LoadedWords(l.lines[i].text)]
        BY <2>2, <2>3, <3>2 DEF MadeOf
      <4> QED
        BY <1>1, <2>4, <3>2, <4>1
    <3> QED
      BY <2>4, <3>1, <3>2
  <2>6. ASSUME NEW i \in Naming(all) PROVE \E b \in DOMAIN blocks : blocks[b].block = all[i].block
    <3>1. CASE i = n
      BY <1>1, <2>4, <3>1
    <3>2. CASE i \in Naming(l.lines)
      <4>1. PICK b \in DOMAIN l.image.blocks : l.image.blocks[b].block = l.lines[i].block
        BY <2>2, <3>2 DEF MadeOf
      <4> QED
        BY <1>1, <2>3, <2>4, <3>2, <4>1
    <3> QED
      BY <1>1, <3>1, <3>2
  <2>7. ASSUME NEW i \in Naming(all), NEW j \in Naming(all), all[i].block = all[j].block
        PROVE  i = j
    <3>1. ASSUME NEW k \in Naming(l.lines) PROVE l.lines[k].block # line.block
      BY <1>4, <2>2 DEF MadeOf
    <3>2. CASE i = n /\ j = n
      BY <3>2
    <3>3. CASE i = n /\ j \in Naming(l.lines)
      BY <1>1, <2>7, <3>1, <3>3
    <3>4. CASE i \in Naming(l.lines) /\ j = n
      BY <1>1, <2>7, <3>1, <3>4
    <3>5. CASE i \in Naming(l.lines) /\ j \in Naming(l.lines)
      <4>1. l.lines[i].block = l.lines[j].block
        BY <1>1, <2>7, <3>5
      <4> QED
        BY <2>2, <3>5, <4>1 DEF MadeOf
    <3> QED
      BY <1>1, <3>2, <3>3, <3>4, <3>5
  <2>8. MadeOf(image, all)
    BY <1>1, <2>4, <2>5, <2>6, <2>7 DEF MadeOf
  <2>9. status = "reading" => \A i \in DOMAIN all : ~Ends(all[i])
    BY <1>1 DEF LoadInv
  <2>10. status = "ended" => \E i \in DOMAIN all : Ends(all[i])
    BY <1>1
  <2> HIDE DEF image
  <2>11. LoadInv([image |-> image, status |-> status, lines |-> all])
    BY <1>1, <2>8, <2>9, <2>10 DEF LoadInv
  <2> QED
    BY <2>1, <2>11 DEF all
<1> QED
  BY <1>3, <1>4

\* Whatever the line says, what has been read of the image remains right.
LEMMA AfterTapeLineInv ==
  ASSUME NEW l, LoadInv(l), NEW line \in TapeLines, NEW a, a = AfterTapeLine(l, line)
  PROVE  /\ a = [image |-> a.image, status |-> a.status, lines |-> l.lines]
         /\ LoadInv([image |-> a.image, status |-> a.status, lines |-> Append(l.lines, line)])
<1> DEFINE all == Append(l.lines, line)
           n == Len(l.lines) + 1
           text == line.text
<1>1. /\ l = [image |-> l.image, status |-> l.status, lines |-> l.lines]
      /\ l.lines \in Seq(TapeLines) /\ l.status \in {"reading", "ended", "failed"}
  BY DEF LoadInv
<1>2. text \in Seq(TapeToken) /\ line.header \in {"blank", "good", "bad"}
  BY LineTyped
<1>3. /\ all \in Seq(TapeLines) /\ all[n] = line /\ n \in DOMAIN all
      /\ \A i \in DOMAIN l.lines : i \in DOMAIN all /\ all[i] = l.lines[i]
      /\ \A i \in DOMAIN all : i \in DOMAIN l.lines \/ i = n
      /\ Naming(all) =
           IF /\ line.header = "good" /\ ~OnlyMarker(text)
              /\ \A i \in DOMAIN l.lines : ~Ends(l.lines[i])
             THEN Naming(l.lines) \cup {n} ELSE Naming(l.lines)
  BY <1>1, NamingOneMore
<1> HIDE DEF all, n
<1>4. ASSUME Naming(all) = Naming(l.lines), NEW status \in {"reading", "ended", "failed"},
             l.status = "failed" => status = "failed",
             status = "reading" => l.status = "reading" /\ ~Ends(line),
             status = "ended" => l.status = "ended" \/ Ends(line)
      PROVE  LoadInv([image |-> l.image, status |-> status, lines |-> all])
  <2>1. status # "failed" => MadeOf(l.image, all)
    <3>1. status # "failed" => MadeOf(l.image, l.lines)
      BY <1>4 DEF LoadInv
    <3> QED
      BY <1>4, <3>1, MadeOfTheSame DEF all
  <2>2. status = "reading" => \A i \in DOMAIN all : ~Ends(all[i])
    BY <1>3, <1>4 DEF LoadInv
  <2>3. status = "ended" => \E i \in DOMAIN all : Ends(all[i])
    BY <1>3, <1>4 DEF LoadInv
  <2> QED
    BY <1>3, <2>1, <2>2, <2>3 DEF LoadInv
<1>5. ASSUME a = Failed(l)
      PROVE  a = [image |-> l.image, status |-> "failed", lines |-> l.lines]
  BY <1>1, <1>5, FailedSet
<1>6. ASSUME a = Failed(l)
      PROVE  LoadInv([image |-> l.image, status |-> "failed", lines |-> all])
  BY <1>3 DEF LoadInv
<1>7. CASE l.status # "reading" \/ line.header = "blank"
  <2>1. a = l
    BY <1>7 DEF AfterTapeLine
  <2>2. line.header = "blank" => ~Ends(line)
    BY DEF Ends
  <2>3. l.status = "ended" => \E i \in DOMAIN l.lines : Ends(l.lines[i])
    BY DEF LoadInv
  <2>4. CASE l.status = "failed"
    <3>1. LoadInv([image |-> l.image, status |-> l.status, lines |-> all])
      BY <1>3, <2>4 DEF LoadInv
    <3> QED
      BY <1>1, <2>1, <3>1 DEF all
  <2>5. CASE l.status # "failed"
    <3>1. Naming(all) = Naming(l.lines)
      BY <1>1, <1>3, <1>7, <2>3, <2>5
    <3>2. LoadInv([image |-> l.image, status |-> l.status, lines |-> all])
      BY <1>1, <1>4, <1>7, <2>2, <2>5, <3>1
    <3> QED
      BY <1>1, <2>1, <3>2 DEF all
  <2> QED
    BY <2>4, <2>5
<1>8. CASE l.status = "reading" /\ line.header = "bad"
  <2>1. a = Failed(l)
    BY <1>8 DEF AfterTapeLine
  <2> QED
    BY <1>5, <1>6, <2>1 DEF all
<1>9. CASE l.status = "reading" /\ line.header = "good"
  <2>1. a = CASE IsBits(text) -> AddBlock(l, line, BitWords(text), FALSE)
              [] ~IsBits(text) /\ OnlyMarker(text) -> [l EXCEPT !.status = "ended"]
              [] ~IsBits(text) /\ IsCodes(text) ->
                   AddBlock(l, line, CodeWords(text), Markers(text) # {})
              [] OTHER -> Failed(l)
    BY <1>9 DEF AfterTapeLine
  <2>2. Ends(line) <=> Markers(text) # {}
    BY <1>9 DEF Ends
  <2>3. CASE IsBits(text)
    <3>1. Markers(text) = {}
      BY <1>2, <2>3, BitsUnmarked
    <3>2. LoadedWords(text) = BitWords(text) /\ LoadedWords(text) \in Seq(Word)
      BY <1>2, <2>3, BitWordsTyped DEF LoadedWords
    <3>3. a = AddBlock(l, line, LoadedWords(text), FALSE)
      BY <2>1, <2>3, <3>2
    <3>4. ~OnlyMarker(text) /\ ~Ends(line)
      BY <2>2, <3>1 DEF OnlyMarker
    <3> QED
      BY <1>9, <3>2, <3>3, <3>4, AddBlockInv
  <2>4. CASE ~IsBits(text) /\ OnlyMarker(text)
    <3>0. ~IsCodes(text)
      BY <2>4 DEF IsCodes, OnlyMarker
    <3>1. a = [l EXCEPT !.status = "ended"]
      BY <2>1, <2>4, <3>0
    <3>2. a = [image |-> l.image, status |-> "ended", lines |-> l.lines]
      BY <1>1, <3>1
    <3>3. Ends(line)
      BY <2>2, <2>4 DEF OnlyMarker
    <3>4. Naming(all) = Naming(l.lines)
      BY <1>3, <2>4
    <3>5. LoadInv([image |-> l.image, status |-> "ended", lines |-> all])
      BY <1>4, <1>9, <3>3, <3>4
    <3> QED
      BY <3>2, <3>5 DEF all
  <2>5. CASE ~IsBits(text) /\ ~OnlyMarker(text) /\ IsCodes(text)
    <3>1. LoadedWords(text) = CodeWords(text) /\ LoadedWords(text) \in Seq(Word)
      BY <1>2, <2>5, CodeWordsTyped DEF LoadedWords
    <3>2. a = AddBlock(l, line, LoadedWords(text), Markers(text) # {})
      BY <2>1, <2>5, <3>1
    <3> QED
      BY <1>9, <2>2, <2>5, <3>1, <3>2, AddBlockInv
  <2>6. CASE ~IsBits(text) /\ ~OnlyMarker(text) /\ ~IsCodes(text)
    <3>1. a = Failed(l)
      BY <2>1, <2>6
    <3> QED
      BY <1>5, <1>6, <3>1 DEF all
  <2> QED
    BY <2>3, <2>4, <2>5, <2>6
<1> QED
  BY <1>1, <1>2, <1>7, <1>8, <1>9

-----------------------------------------------------------------------------
(* Paper tape: the reader.                                                  *)

\* The records of a device and of the history, for what they hold.
Device(image, ls) ==
  [image : {image}, current : Nat, index : Nat, ready : BOOLEAN, lines : {ls}]

Heard(words) == [block : Int, words : {words}]

\* Where the device d stands, and what the history h has of it.
Stands(d, h) ==
  /\ d \in Device(d.image, d.lines) /\ MadeOf(d.image, d.lines)
  /\ d.current \in 0 .. Len(d.image.blocks) /\ h \in Heard(h.words)
  /\ IF d.current = NoBlock
       THEN /\ h.words = <<>> /\ ~d.ready
            /\ \A b \in DOMAIN d.image.blocks : d.image.blocks[b].block # h.block
       ELSE /\ d.image.blocks[d.current].block = h.block
            /\ d.index <= Len(BlockWords(d)) /\ h.words = SubSeq(BlockWords(d), 1, d.index)
            /\ d.ready <=> d.index < Len(BlockWords(d))

TapeInv ==
  /\ LoadInv(load) /\ Stands(reader, heard)
  /\ acc \in [value : Word, skip : BOOLEAN]

LEMMA BlockWordsTyped ==
  ASSUME NEW d, NEW h, Stands(d, h), d.current # NoBlock
  PROVE  d.current \in DOMAIN d.image.blocks /\ BlockWords(d) \in Seq(Word)
<1>1. d.image.blocks \in Seq(Block) /\ d.current \in 1 .. Len(d.image.blocks)
  BY DEF Stands, MadeOf, NoBlock, Device
<1>2. d.image.blocks[d.current] \in Block
  BY <1>1
<1> QED
  BY <1>1, <1>2 DEF BlockWords, Block

LEMMA FindInv ==
  ASSUME NEW image, image.blocks \in Seq(Block), NEW block
  PROVE  /\ Find(image, block) \in 0 .. Len(image.blocks)
         /\ Find(image, block) = NoBlock => \A b \in DOMAIN image.blocks : image.blocks[b].block # block
         /\ Find(image, block) # NoBlock => image.blocks[Find(image, block)].block = block
<1> DEFINE there == {i \in DOMAIN image.blocks : image.blocks[i].block = block}
<1>1. there \in SUBSET Nat /\ 0 \notin there /\ there \subseteq 1 .. Len(image.blocks)
  OBVIOUS
<1>2. Find(image, block) = IF there = {} THEN NoBlock ELSE Min(there)
  BY DEF Find
<1>3. CASE there = {}
  BY <1>2, <1>3 DEF NoBlock
<1>4. CASE there # {}
  <2>1. Find(image, block) \in there
    <3> HIDE DEF there
    <3> QED
      BY <1>1, <1>2, <1>4, LeastOf
  <2> QED
    BY <1>1, <2>1 DEF NoBlock
<1> QED
  BY <1>3, <1>4

\* What the handlers make of the device's record.
LEMMA SelectSets ==
  ASSUME NEW image, NEW ls, NEW d \in Device(image, ls), NEW block,
         NEW found \in Nat, found = Find(image, block), NEW e, e = Select(d, block)
  PROVE  /\ e \in Device(image, ls) /\ e.image = image /\ e.lines = ls
         /\ e.current = found /\ e.index = 0
         /\ e.ready <=> found # NoBlock /\ image.blocks[found].words # <<>>
  BY DEF Select, Device

LEMMA AdvanceSets ==
  ASSUME NEW image, NEW ls, NEW d \in Device(image, ls), NEW w \in Seq(Word),
         w = BlockWords(d), NEW e, e = Advance(d)
  PROVE  /\ e \in Device(image, ls) /\ e.image = image /\ e.lines = ls
         /\ e.current = d.current /\ e.index = d.index + 1
         /\ e.ready <=> d.index + 1 < Len(w)
<1>1. PICK n \in Nat, m \in Nat : n = d.index + 1 /\ m = Len(w)
  BY DEF Device
<1> DEFINE r == n < m
<1>2. r \in BOOLEAN /\ (r <=> n < m)
  OBVIOUS
<1>3. e = [d EXCEPT !.index = n, !.ready = r]
  BY <1>1 DEF Advance
<1> HIDE DEF r
<1> QED
  BY <1>1, <1>2, <1>3 DEF Device

LEMMA HeardMore ==
  ASSUME NEW words, NEW h \in Heard(words), NEW w, NEW e, e = [h EXCEPT !.words = Append(@, w)]
  PROVE  e \in Heard(Append(words, w)) /\ e.block = h.block /\ e.words = Append(words, w)
  BY DEF Heard

LEMMA SelectInv ==
  ASSUME NEW d, NEW h, Stands(d, h), NEW block \in Int
  PROVE  Stands(Select(d, block), [block |-> block, words |-> <<>>])
<1> DEFINE image == d.image
           ls == d.lines
           found == Find(image, block)
           e == Select(d, block)
           told == [block |-> block, words |-> <<>>]
<1>1. d \in Device(image, ls) /\ MadeOf(image, ls) /\ image.blocks \in Seq(Block)
  BY DEF Stands, MadeOf
<1>2. told \in Heard(<<>>) /\ told.block = block /\ told.words = <<>>
  BY DEF Heard
<1>3. /\ found \in 0 .. Len(image.blocks) /\ found \in Nat
      /\ found = NoBlock => \A b \in DOMAIN image.blocks : image.blocks[b].block # block
      /\ found # NoBlock => image.blocks[found].block = block
  BY <1>1, FindInv
<1>4. /\ e \in Device(image, ls) /\ e.image = image /\ e.lines = ls
      /\ e.current = found /\ e.index = 0
      /\ e.ready <=> found # NoBlock /\ image.blocks[found].words # <<>>
  <2> HIDE DEF image, ls
  <2> QED
    BY <1>1, <1>3, SelectSets
<1> HIDE DEF image, ls, found, e, told
<1>5. CASE found = NoBlock
  <2>1. Stands(e, told)
    BY <1>1, <1>2, <1>3, <1>4, <1>5 DEF Stands
  <2> QED
    BY <2>1 DEF e, told
<1>6. CASE found # NoBlock
  <2>1. PICK w \in Seq(Word) : w = image.blocks[found].words
    <3>1. found \in 1 .. Len(image.blocks)
      BY <1>3, <1>6 DEF NoBlock
    <3>2. image.blocks[found] \in Block
      BY <1>1, <3>1
    <3> QED
      BY <3>2 DEF Block
  <2>2. BlockWords(e) = w
    BY <1>4, <2>1 DEF BlockWords
  <2>3. SubSeq(w, 1, 0) = <<>> /\ (w # <<>> <=> 0 < Len(w)) /\ 0 <= Len(w)
    OBVIOUS
  <2>4. Stands(e, told)
    BY <1>1, <1>2, <1>3, <1>4, <1>6, <2>1, <2>2, <2>3 DEF Stands
  <2> QED
    BY <2>4 DEF e, told
<1> QED
  BY <1>5, <1>6

LEMMA AdvanceInv ==
  ASSUME NEW d, NEW h, Stands(d, h), HasWord(d)
  PROVE  /\ BlockWords(d)[d.index + 1] \in Word
         /\ Stands(Advance(d), [h EXCEPT !.words = Append(@, BlockWords(d)[d.index + 1])])
<1> DEFINE image == d.image
           ls == d.lines
           e == Advance(d)
           told == [h EXCEPT !.words = Append(@, BlockWords(d)[d.index + 1])]
<1>0. d \in Device(image, ls) /\ MadeOf(image, ls) /\ h \in Heard(h.words) /\ d.index \in Nat
  BY DEF Stands, Device
<1>1. PICK w \in Seq(Word), n \in Nat : w = BlockWords(d) /\ n = d.index /\ n < Len(w)
  BY <1>0, BlockWordsTyped DEF HasWord
<1>2. /\ d.current # NoBlock /\ d.current \in 0 .. Len(image.blocks)
      /\ image.blocks[d.current].block = h.block /\ h.words = SubSeq(w, 1, n)
  BY <1>1 DEF HasWord, Stands
<1>3. n + 1 \in 1 .. Len(w) /\ w[n + 1] \in Word
  BY <1>1
<1>4. /\ e \in Device(image, ls) /\ e.image = image /\ e.lines = ls
      /\ e.current = d.current /\ e.index = n + 1
      /\ e.ready <=> n + 1 < Len(w)
  <2> HIDE DEF image, ls
  <2> QED
    BY <1>0, <1>1, AdvanceSets
<1>5. told \in Heard(told.words) /\ told.block = h.block /\ told.words = Append(h.words, w[n + 1])
  <2>1. told = [h EXCEPT !.words = Append(@, w[n + 1])]
    BY <1>1
  <2> HIDE DEF told
  <2> QED
    BY <1>0, <2>1, HeardMore
<1>6. Append(h.words, w[n + 1]) = SubSeq(w, 1, n + 1)
  <2>1. SubSeq(w, 1, n + 1) = SubSeq(w, 1, n) \o <<w[n + 1]>>
    <3>1. 1 \in 1 .. Len(w) /\ n + 1 \in 1 .. Len(w) /\ n + 1 - 1 = n
      BY <1>1, <1>3
    <3> QED
      BY <3>1, SubSeqRecursiveSecond
  <2>2. SubSeq(w, 1, n) \in Seq(Word)
    BY <1>1
  <2> QED
    BY <1>2, <1>3, <2>1, <2>2
<1> HIDE DEF e, told
<1>7. BlockWords(e) = w
  BY <1>1, <1>4 DEF BlockWords
<1> HIDE DEF image, ls
<1>8. Stands(e, told)
  <2>1. e.current # NoBlock /\ e.current \in 0 .. Len(e.image.blocks)
    BY <1>2, <1>4
  <2>2. /\ e.image.blocks[e.current].block = told.block /\ told.words = SubSeq(w, 1, e.index)
        /\ e.index <= Len(w) /\ (e.ready <=> e.index < Len(w))
    BY <1>2, <1>3, <1>4, <1>5, <1>6
  <2> QED
    BY <1>0, <1>4, <1>5, <1>7, <2>1, <2>2 DEF Stands
<1> QED
  BY <1>1, <1>3, <1>8 DEF e, told

LEMMA NotReadyInv ==
  ASSUME NEW d, NEW h, Stands(d, h), ~HasWord(d)
  PROVE  Stands([d EXCEPT !.ready = FALSE], h)
<1> DEFINE image == d.image
           ls == d.lines
           e == [d EXCEPT !.ready = FALSE]
<1>1. d \in Device(image, ls) /\ MadeOf(image, ls)
  BY DEF Stands
<1> HIDE DEF image, ls
<1>2. /\ e \in Device(image, ls) /\ e.image = image /\ e.lines = ls
      /\ e.current = d.current /\ e.index = d.index /\ ~e.ready
  BY <1>1 DEF Device
<1>3. d.image = image /\ d.lines = ls
  BY DEF image, ls
<1> HIDE DEF e
<1>4. BlockWords(e) = BlockWords(d)
  BY <1>2, <1>3 DEF BlockWords
<1>5. d.current # NoBlock => ~(d.index < Len(BlockWords(d)))
  BY DEF HasWord
<1>6. Stands(e, h)
  BY <1>1, <1>2, <1>3, <1>4, <1>5 DEF Stands
<1> QED
  BY <1>6 DEF e

LEMMA NothingStands ==
  ASSUME NEW image, NEW ls, MadeOf(image, ls)
  PROVE  Stands([image |-> image, current |-> NoBlock, index |-> 0, ready |-> FALSE, lines |-> ls],
                [block |-> -1, words |-> <<>>])
<1> DEFINE d == [image |-> image, current |-> NoBlock, index |-> 0, ready |-> FALSE, lines |-> ls]
           h == [block |-> -1, words |-> <<>>]
<1>1. /\ d \in Device(image, ls) /\ d.image = image /\ d.lines = ls /\ d.current = NoBlock /\ ~d.ready
      /\ h \in Heard(<<>>) /\ h.words = <<>> /\ h.block = -1
  BY DEF Device, Heard, NoBlock
<1>2. \A b \in DOMAIN image.blocks : image.blocks[b].block # -1
  <2> TAKE b \in DOMAIN image.blocks
  <2>1. PICK n \in 0 .. 511 : n = image.blocks[b].block
    <3>1. image.blocks[b] \in Block
      BY DEF MadeOf
    <3> QED
      BY <3>1 DEF Block
  <2> QED
    BY <2>1
<1>3. 0 \in 0 .. Len(image.blocks)
  BY DEF MadeOf
<1> HIDE DEF d, h
<1>4. Stands(d, h)
  BY <1>1, <1>2, <1>3 DEF Stands, NoBlock
<1> QED
  BY <1>4 DEF d, h

LEMMA NewLoadInv == LoadInv(NewLoad) /\ MadeOf(NoImage, <<>>)
<1>1. MadeOf(NoImage, <<>>)
  <2>1. Naming(<<>>) = {} /\ <<>> \in Seq(TapeLines)
    BY DEF Naming
  <2> QED
    BY <2>1 DEF MadeOf, NoImage
<1>2. LoadInv(NewLoad)
  BY <1>1 DEF LoadInv, NewLoad
<1> QED
  BY <1>1, <1>2

LEMMA TapeInitInv == TapeInit => TapeInv
<1> SUFFICES ASSUME TapeInit PROVE TapeInv
  OBVIOUS
<1>1. LoadInv(load)
  BY NewLoadInv DEF TapeInit
<1>2. Stands(reader, heard)
  BY NewLoadInv, NothingStands DEF TapeInit
<1>3. acc \in [value : Word, skip : BOOLEAN]
  BY PaperTapeConstantsAssumption DEF TapeInit
<1> QED
  BY <1>1, <1>2, <1>3 DEF TapeInv

LEMMA LineKept ==
  ASSUME NEW image, NEW status, NEW ls, NEW line, NEW a,
         a = [image |-> image, status |-> status, lines |-> ls]
  PROVE  [a EXCEPT !.lines = Append(@, line)]
          = [image |-> image, status |-> status, lines |-> Append(ls, line)]
  OBVIOUS

LEMMA ReaderIotInv ==
  ASSUME TapeInv, NEW skip \in BOOLEAN, NEW select \in BOOLEAN, NEW read \in BOOLEAN,
         ReaderIot(skip, select, read)
  PROVE  TapeInv'
<1> DEFINE chosen == IF select THEN Select(reader, acc.value) ELSE reader
           reads == read /\ (select => chosen.current # NoBlock)
           told == IF select THEN [block |-> acc.value, words |-> <<>>] ELSE heard
           word == BlockWords(chosen)[chosen.index + 1]
           skips == skip /\ reader.ready
<1>1. Stands(reader, heard) /\ LoadInv(load) /\ acc \in [value : Word, skip : BOOLEAN]
  BY DEF TapeInv
<1>2. Stands(chosen, told)
  <2>1. acc.value \in Int
    <3>1. acc.value \in Word
      BY <1>1
    <3> QED
      BY <3>1, WordIsNat
  <2>2. CASE select
    BY <1>1, <2>1, <2>2, SelectInv
  <2>3. CASE ~select
    BY <1>1, <2>3
  <2> QED
    BY <2>2, <2>3
<1>3. skips \in BOOLEAN
  BY <1>1 DEF Stands, Device
<1>4. LoadInv(load')
  BY <1>1 DEF ReaderIot
<1>5. CASE /\ HasWord(chosen) /\ reader' = Advance(chosen)
           /\ acc' = [value |-> word, skip |-> skips]
           /\ heard' = [told EXCEPT !.words = Append(@, word)]
  <2> HIDE DEF chosen, told
  <2>1. word \in Word /\ Stands(reader', heard')
    BY <1>2, <1>5, AdvanceInv
  <2> HIDE DEF word, skips
  <2> QED
    BY <1>3, <1>4, <1>5, <2>1 DEF TapeInv
<1>6. CASE /\ ~HasWord(chosen) /\ reader' = [chosen EXCEPT !.ready = FALSE]
           /\ acc' = [acc EXCEPT !.skip = skips] /\ heard' = told
  <2> HIDE DEF chosen, told, skips
  <2>1. Stands(reader', heard')
    BY <1>2, <1>6, NotReadyInv
  <2> QED
    BY <1>1, <1>3, <1>4, <1>6, <2>1 DEF TapeInv
<1>7. CASE reader' = chosen /\ acc' = [acc EXCEPT !.skip = skips] /\ heard' = told
  <2> HIDE DEF chosen, told, skips
  <2>1. Stands(reader', heard')
    BY <1>2, <1>7
  <2> QED
    BY <1>1, <1>3, <1>4, <1>7, <2>1 DEF TapeInv
<1>8. CASE reads /\ HasWord(chosen)
  BY <1>5, <1>8 DEF ReaderIot
<1>9. CASE reads /\ ~HasWord(chosen)
  BY <1>6, <1>9 DEF ReaderIot
<1>10. CASE ~reads
  BY <1>7, <1>10 DEF ReaderIot
<1> QED
  BY <1>8, <1>9, <1>10

LEMMA TapeNextInv ==
  ASSUME TapeInv, [TapeNext]_tapeVars
  PROVE  TapeInv'
<1>0. LoadInv(load) /\ Stands(reader, heard) /\ acc \in [value : Word, skip : BOOLEAN]
  BY DEF TapeInv
<1>1. ASSUME NEW line \in TapeLines, ReadTapeLine(line)
      PROVE  TapeInv'
  <2>1. PICK a : a = AfterTapeLine(load, line)
    OBVIOUS
  <2>2. /\ a = [image |-> a.image, status |-> a.status, lines |-> load.lines]
        /\ LoadInv([image |-> a.image, status |-> a.status, lines |-> Append(load.lines, line)])
    BY <1>0, <2>1, AfterTapeLineInv
  <2>3. load' = [a EXCEPT !.lines = Append(@, line)]
    BY <1>1, <2>1 DEF ReadTapeLine
  <2>4. load' = [image |-> a.image, status |-> a.status, lines |-> Append(load.lines, line)]
    <3>1. PICK image, status, ls :
            image = a.image /\ status = a.status /\ ls = load.lines
      OBVIOUS
    <3>2. a = [image |-> image, status |-> status, lines |-> ls]
      BY ONLY <2>2, <3>1
    <3> HIDE <2>2
    <3>3. [a EXCEPT !.lines = Append(@, line)]
           = [image |-> image, status |-> status, lines |-> Append(ls, line)]
      BY ONLY <3>2
    <3> QED
      BY ONLY <2>3, <3>1, <3>3
  <2>5. reader' = reader /\ acc' = acc /\ heard' = heard
    BY <1>1 DEF ReadTapeLine
  <2> QED
    BY <1>0, <2>2, <2>4, <2>5 DEF TapeInv
<1>2. CASE MountTape
  <2>1. LoadInv(load') /\ acc' = acc
    BY <1>2, NewLoadInv DEF MountTape
  <2>2. Stands(reader', heard')
    <3>1. CASE load.status # "failed" /\ load.image.blocks # <<>>
      <4>1. MadeOf(load.image, load.lines)
        BY <1>0, <3>1 DEF LoadInv
      <4>2. /\ reader' = [ image |-> load.image, current |-> NoBlock, index |-> 0,
                           ready |-> FALSE, lines |-> load.lines ]
            /\ heard' = [block |-> -1, words |-> <<>>]
        BY <1>2, <3>1 DEF MountTape
      <4> QED
        BY <4>1, <4>2, NothingStands
    <3>2. CASE ~(load.status # "failed" /\ load.image.blocks # <<>>)
      BY <1>0, <1>2, <3>2 DEF MountTape
    <3> QED
      BY <3>1, <3>2
  <2> QED
    BY <1>0, <2>1, <2>2 DEF TapeInv
<1>3. ASSUME NEW skip \in BOOLEAN, NEW select \in BOOLEAN, NEW read \in BOOLEAN,
             ReaderIot(skip, select, read)
      PROVE  TapeInv'
  BY <1>3, ReaderIotInv
<1>4. CASE SetAc
  <2>1. acc' \in [value : Word, skip : BOOLEAN]
    BY <1>4, PaperTapeConstantsAssumption DEF SetAc
  <2> QED
    BY <1>0, <1>4, <2>1 DEF SetAc, TapeInv
<1>5. CASE UNCHANGED tapeVars
  BY <1>0, <1>5 DEF tapeVars, TapeInv
<1> QED
  BY <1>1, <1>2, <1>3, <1>4, <1>5 DEF TapeNext

LEMMA TapeInvHolds == TapeSpec => []TapeInv
<1>1. TapeInv /\ [TapeNext]_tapeVars => TapeInv'
  BY TapeNextInv
<1> QED
  BY TapeInitInv, <1>1, PTL DEF TapeSpec

LEMMA TapeInvTyped == TapeInv => TapeTypeOK
<1> SUFFICES ASSUME TapeInv PROVE TapeTypeOK
  OBVIOUS
<1>1. load.status \in {"reading", "ended", "failed"}
  BY DEF TapeInv, LoadInv
<1>2. reader.image.blocks \in Seq(Block)
  BY DEF TapeInv, Stands, MadeOf
<1>3. \A i \in DOMAIN reader.image.blocks : reader.image.blocks[i].words \in Seq(Word)
  <2> TAKE i \in DOMAIN reader.image.blocks
  <2>1. reader.image.blocks[i] \in Block
    BY <1>2
  <2> QED
    BY <2>1 DEF Block
<1>4. /\ reader.current \in 0 .. Len(reader.image.blocks) /\ reader.ready \in BOOLEAN
      /\ acc.value \in Word /\ acc.skip \in BOOLEAN
  BY DEF TapeInv, Stands, Device
<1>5. reader.current # NoBlock => reader.index \in 0 .. Len(BlockWords(reader))
  <2> SUFFICES ASSUME reader.current # NoBlock PROVE reader.index \in 0 .. Len(BlockWords(reader))
    OBVIOUS
  <2>1. BlockWords(reader) \in Seq(Word)
    BY BlockWordsTyped DEF TapeInv
  <2>2. reader.index \in Nat /\ reader.index <= Len(BlockWords(reader))
    BY DEF TapeInv, Stands, Device
  <2> QED
    BY <2>1, <2>2
<1> QED
  BY <1>1, <1>3, <1>4, <1>5 DEF TapeTypeOK

\* The reader keeps its type: every word of a tape it mounts has twelve bits, it
\* stands at a block the tape has and within it, and so it never reads outside.
THEOREM TapeTypeCorrect == TapeSpec => []TapeTypeOK
  BY TapeInvTyped, TapeInvHolds, PTL

LEMMA PrefixOf ==
  ASSUME NEW w \in Seq(Word), NEW n \in Nat, n <= Len(w)
  PROVE  /\ IsPrefix(SubSeq(w, 1, n), w)
         /\ n < Len(w) <=> SubSeq(w, 1, n) # w
<1>1. SubSeq(w, 1, n) \in Seq(Word) /\ Len(SubSeq(w, 1, n)) = n
  OBVIOUS
<1>2. IsPrefix(SubSeq(w, 1, n), w)
  <2>1. SubSeq(SubSeq(w, 1, n), 1, n) = SubSeq(w, 1, n)
    OBVIOUS
  <2> QED
    BY <1>1, <2>1 DEF IsPrefix
<1>3. n = Len(w) => SubSeq(w, 1, n) = w
  OBVIOUS
<1> QED
  BY <1>1, <1>2, <1>3

\* For every tape, in whatever notation its lines are written, the guest reads
\* the one line that names the block it selected, and nothing of a tape that was
\* refused or mounted before (paper_tape_device_iot, pdp8_paper_tape_load).
THEOREM ReaderReadsTheTape == TapeSpec => []ReadsTheTape
<1>1. TapeInv => ReadsTheTape
  <2> SUFFICES ASSUME TapeInv PROVE ReadsTheTape
    OBVIOUS
  <2> DEFINE ls == reader.lines
             naming == LinesOf(heard.block)
             blocks == reader.image.blocks
  <2>1. naming = {i \in Naming(ls) : ls[i].block = heard.block}
    BY DEF LinesOf, Naming
  <2>2. MadeOf(reader.image, ls) /\ Stands(reader, heard)
    BY DEF TapeInv, Stands
  <2>3. /\ \A b \in DOMAIN blocks : \E i \in Naming(ls) :
             blocks[b] = [block |-> ls[i].block, words |-> LoadedWords(ls[i].text)]
        /\ \A i \in Naming(ls) : \E b \in DOMAIN blocks : blocks[b].block = ls[i].block
        /\ \A i, j \in Naming(ls) : ls[i].block = ls[j].block => i = j
    BY <2>2 DEF MadeOf
  <2> HIDE DEF naming
  <2>4. CASE reader.current = NoBlock
    <3>1. /\ heard.words = <<>> /\ ~reader.ready
          /\ \A b \in DOMAIN blocks : blocks[b].block # heard.block
      BY <2>2, <2>4 DEF Stands
    <3>2. naming = {}
      BY <2>1, <2>3, <3>1
    <3> QED
      BY <3>1, <3>2 DEF ReadsTheTape, naming
  <2>5. CASE reader.current # NoBlock
    <3>1. /\ reader.current \in DOMAIN blocks /\ BlockWords(reader) \in Seq(Word)
          /\ BlockWords(reader) = blocks[reader.current].words
      BY <2>2, <2>5, BlockWordsTyped DEF BlockWords
    <3>2. PICK i \in Naming(ls) :
            blocks[reader.current] = [block |-> ls[i].block, words |-> LoadedWords(ls[i].text)]
      BY <2>3, <3>1
    <3>3. PICK w \in Seq(Word), n \in Nat :
            /\ w = BlockWords(reader) /\ n = reader.index /\ n <= Len(w)
            /\ heard.words = SubSeq(w, 1, n) /\ (reader.ready <=> n < Len(w))
            /\ blocks[reader.current].block = heard.block
      BY <2>2, <2>5, <3>1 DEF Stands, Device
    <3>4. naming = {i} /\ w = LoadedWords(ls[i].text)
      <4>1. ls[i].block = heard.block
        BY <3>2, <3>3
      <4>2. \A j \in naming : j = i
        BY <2>1, <2>3, <4>1
      <4> QED
        BY <2>1, <3>1, <3>2, <3>3, <4>1, <4>2
    <3>5. IsPrefix(heard.words, w) /\ (reader.ready <=> heard.words # w)
      BY <3>3, PrefixOf
    <3>6. Unambiguous(ls[i].text) => w = Spells(ls[i].text)
      <4> DEFINE text == ls[i].text
      <4>1. CASE IsBits(text) /\ ~MeantAsCodes(text)
        BY <3>4, <4>1, Zenon DEF Spells, LoadedWords
      <4>2. CASE ~IsBits(text) /\ MeantAsCodes(text)
        BY <3>4, <4>2, Zenon DEF Spells, LoadedWords
      <4>3. Unambiguous(text) => (IsBits(text) <=> ~MeantAsCodes(text))
        <5>1. MeantAsCodes(text) \in BOOLEAN /\ IsBits(text) \in BOOLEAN
          BY DEF MeantAsCodes, IsBits
        <5> QED
          BY <5>1 DEF Unambiguous
      <4> QED
        BY <4>1, <4>2, <4>3
    <3> QED
      BY <3>4, <3>5, <3>6 DEF ReadsTheTape, naming
  <2> QED
    BY <2>4, <2>5
<1> QED
  BY <1>1, TapeInvHolds, PTL

-----------------------------------------------------------------------------
(* The line printer.                                                        *)

PrinterTyped ==
  /\ printer \in [limit : 0 .. ColumnSize - 1, column : 0 .. ColumnSize - 1, ready : BOOLEAN]
  /\ paper \in [limit : Nat \ {0}, carriage : Nat, ink : Nat, count : Nat]
  /\ printer.limit = paper.limit % ColumnSize

\* A printed character leaves the counter left of the limit, a tab at a multiple
\* of eight: so no character is printed in the last column before it wraps.
ColumnFits ==
  paper.limit < ColumnSize => printer.column % 8 = 0 \/ printer.column < paper.limit

PrinterInv == PrinterTyped /\ InkInsideMargin /\ ColumnFits

LEMMA MaxOfTwo ==
  ASSUME NEW a \in Nat, NEW b \in Nat
  PROVE  Max({a, b}) = IF a >= b THEN a ELSE b
<1>1. \A x \in {a, b} : (\A y \in {a, b} : x >= y) => x = IF a >= b THEN a ELSE b
  OBVIOUS
<1>2. \E x \in {a, b} : \A y \in {a, b} : x >= y
  OBVIOUS
<1> QED
  BY <1>1, <1>2 DEF Max

LEMMA TabStop ==
  ASSUME NEW c \in 0 .. ColumnSize - 1
  PROVE  /\ 8 - (c % 8) \in 1 .. 8
         /\ ((c + (8 - (c % 8))) % ColumnSize) \in 0 .. ColumnSize - 1
         /\ ((c + (8 - (c % 8))) % ColumnSize) % 8 = 0
<1>0. ColumnSize \in Nat \ {0} /\ ColumnSize % 8 = 0
  BY HardCopyConstantsAssumption
<1>1. PICK n \in Nat : n = c + (8 - (c % 8))
  BY <1>0
<1>2. n % 8 = 0 /\ n <= ColumnSize
  BY <1>0, <1>1
<1>3. n % ColumnSize = IF n = ColumnSize THEN 0 ELSE n
  BY <1>0, <1>2
<1> QED
  BY <1>0, <1>1, <1>2, <1>3

\* What one character may do to the counter, the carriage and the ink.
LEMMA PrinterMoves ==
  ASSUME PrinterTyped, NEW column \in 0 .. ColumnSize - 1, NEW carriage \in Nat, NEW ink \in Nat,
         printer' = [limit |-> printer.limit, column |-> column, ready |-> TRUE],
         paper' = [limit |-> paper.limit, carriage |-> carriage, ink |-> ink,
                   count |-> paper.count + 1],
         column = carriage % ColumnSize,
         paper.limit < ColumnSize =>
           /\ ink < paper.limit \/ ink > ColumnSize
           /\ column % 8 = 0 \/ column < paper.limit
  PROVE  PrinterInv'
<1>1. /\ printer'.limit = printer.limit /\ printer'.column = column /\ printer'.ready = TRUE
      /\ paper'.limit = paper.limit /\ paper'.carriage = carriage /\ paper'.ink = ink
      /\ paper'.count = paper.count + 1
  OBVIOUS
<1>2. PrinterTyped'
  BY <1>1 DEF PrinterTyped
<1>3. InkInsideMargin' /\ ColumnFits'
  BY <1>1 DEF InkInsideMargin, ColumnFits
<1> QED
  BY <1>2, <1>3 DEF PrinterInv

LEMMA EmitInv ==
  ASSUME PrinterInv, NEW ch \in Nat, Emit(ch)
  PROVE  PrinterInv'
<1>0. ColumnSize \in Nat \ {0} /\ ColumnSize % 8 = 0
  BY HardCopyConstantsAssumption
<1>1. /\ printer.column \in 0 .. ColumnSize - 1
      /\ printer.column = paper.carriage % ColumnSize
      /\ paper.carriage \in Nat /\ paper.ink \in Nat /\ paper.limit \in Nat \ {0}
      /\ printer.limit = paper.limit % ColumnSize
      /\ paper.limit < ColumnSize =>
           /\ paper.ink < paper.limit \/ paper.ink > ColumnSize
           /\ printer.column % 8 = 0 \/ printer.column < paper.limit
  BY DEF PrinterInv, PrinterTyped, InkInsideMargin, ColumnFits
<1>2. PrinterTyped
  BY DEF PrinterInv
<1>3. /\ printer = [limit |-> printer.limit, column |-> printer.column, ready |-> printer.ready]
      /\ paper = [limit |-> paper.limit, carriage |-> paper.carriage, ink |-> paper.ink,
                  count |-> paper.count]
  BY <1>2 DEF PrinterTyped
<1>4. /\ 0 % ColumnSize = 0 /\ 0 % 8 = 0 /\ 0 \in 0 .. ColumnSize - 1
      /\ \A k \in Nat : ((paper.carriage % ColumnSize) + k) % ColumnSize
                          = (paper.carriage + k) % ColumnSize
  <2>1. 0 % ColumnSize = 0 /\ 0 % 8 = 0 /\ 0 \in 0 .. ColumnSize - 1
    BY <1>0
  <2> QED
    BY <1>0, <1>1, <2>1, CounterWraps
\* The carriage returns, to this line or to a new one.
<1>5. ASSUME printer' = [printer EXCEPT !.column = 0, !.ready = TRUE],
             \/ paper' = [paper EXCEPT !.carriage = 0, !.count = @ + 1]
             \/ paper' = [NewLine(paper) EXCEPT !.count = @ + 1]
      PROVE  PrinterInv'
  <2>1. printer' = [limit |-> printer.limit, column |-> 0, ready |-> TRUE]
    BY <1>3, <1>5
  <2>2. CASE paper' = [paper EXCEPT !.carriage = 0, !.count = @ + 1]
    <3>1. paper' = [limit |-> paper.limit, carriage |-> 0, ink |-> paper.ink,
                    count |-> paper.count + 1]
      BY <1>3, <2>2
    <3> QED
      BY <1>1, <1>2, <1>4, <2>1, <3>1, PrinterMoves
  <2>3. CASE paper' = [NewLine(paper) EXCEPT !.count = @ + 1]
    <3>1. paper' = [limit |-> paper.limit, carriage |-> 0, ink |-> 0,
                    count |-> paper.count + 1]
      BY <1>3, <2>3 DEF NewLine
    <3> QED
      BY <1>1, <1>2, <1>4, <2>1, <3>1, PrinterMoves
  <2> QED
    BY <1>5, <2>2, <2>3
<1>6. CASE ch = 9
  <2> DEFINE w == TabWidth(printer)
             d == (printer.column + w) % ColumnSize
             k == paper.carriage + w
  <2>1. /\ w \in Nat /\ d \in 0 .. ColumnSize - 1 /\ d % 8 = 0
    BY <1>1, TabStop DEF TabWidth
  <2> HIDE DEF w
  <2>2. k \in Nat /\ d = k % ColumnSize
    BY <1>1, <1>4, <2>1
  <2>3. /\ printer' = [Moved(printer, w) EXCEPT !.ready = TRUE]
        /\ paper' = [Spaced(paper, w) EXCEPT !.count = @ + 1]
    BY <1>6 DEF Emit, w
  <2>4. /\ Moved(printer, w) = [limit |-> printer.limit, column |-> d, ready |-> printer.ready]
        /\ Spaced(paper, w) = [limit |-> paper.limit, carriage |-> k, ink |-> paper.ink,
                               count |-> paper.count]
    BY <1>3 DEF Moved, Spaced
  <2> HIDE DEF d, k
  <2>5. /\ printer' = [limit |-> printer.limit, column |-> d, ready |-> TRUE]
        /\ paper' = [limit |-> paper.limit, carriage |-> k, ink |-> paper.ink,
                     count |-> paper.count + 1]
    <3>1. printer' = [limit |-> printer.limit, column |-> d, ready |-> TRUE]
      BY <1>3, <2>3 DEF Moved, d
    <3>2. Spaced(paper, w).count + 1 = paper.count + 1
      BY <2>4
    <3>3. paper' = [Spaced(paper, w) EXCEPT !.count = paper.count + 1]
      BY <2>3, <3>2
    <3>4. paper' = [limit |-> paper.limit, carriage |-> k, ink |-> paper.ink,
                     count |-> paper.count + 1]
      BY <2>4, <3>3
    <3> QED
      BY <3>1, <3>4
  <2> QED
    BY <1>1, <1>2, <2>1, <2>2, <2>5, PrinterMoves
\* A character that fits leaves ink where the carriage stood.
<1>7. CASE ch \notin {9, 10, 12, 13} /\ ~AtMargin(Moved(printer, 1))
  <2> DEFINE d == (printer.column + 1) % ColumnSize
             k == paper.carriage + 1
             ink == Max({paper.ink, k})
  <2>1. /\ printer' = [Moved(printer, 1) EXCEPT !.ready = TRUE]
        /\ paper' = [Inked(paper) EXCEPT !.count = @ + 1]
    <3>1. ch # 9 /\ ch # 13 /\ ch \notin {10, 12}
      BY <1>7
    <3> QED
      BY <1>7, <3>1, Zenon DEF Emit
  <2>2. d = k % ColumnSize
    BY <1>1, <1>4
  <2>3. k \in Nat /\ d \in 0 .. ColumnSize - 1
    BY <1>0, <1>1, <2>2
  <2>4. ink = IF paper.ink >= k THEN paper.ink ELSE k
    BY <1>1, MaxOfTwo
  <2>5. /\ Moved(printer, 1) = [limit |-> printer.limit, column |-> d, ready |-> printer.ready]
        /\ Inked(paper) = [limit |-> paper.limit, carriage |-> k, ink |-> ink,
                           count |-> paper.count]
    <3> HIDE DEF d, k, ink
    <3>1. Inked(paper) = [paper EXCEPT !.carriage = k, !.ink = ink]
      BY DEF Inked, k, ink
    <3>2. Moved(printer, 1) = [printer EXCEPT !.column = d]
      BY DEF Moved, d
    <3> QED
      BY <1>3, <3>1, <3>2
  <2> HIDE DEF d, k, ink
  <2>6. printer.limit = 0 \/ d < printer.limit
    BY <1>0, <1>1, <1>7, <2>3, <2>5 DEF AtMargin
  <2>7. /\ printer' = [limit |-> printer.limit, column |-> d, ready |-> TRUE]
        /\ paper' = [limit |-> paper.limit, carriage |-> k, ink |-> ink,
                     count |-> paper.count + 1]
    <3>1. printer' = [limit |-> printer.limit, column |-> d, ready |-> TRUE]
      BY <1>3, <2>1 DEF Moved, d
    <3>2. Inked(paper).count + 1 = paper.count + 1
      BY <2>5
    <3>3. paper' = [Inked(paper) EXCEPT !.count = paper.count + 1]
      BY <2>1, <3>2
    <3>4. paper' = [limit |-> paper.limit, carriage |-> k, ink |-> ink,
                    count |-> paper.count + 1]
      BY <2>5, <3>3
    <3> QED
      BY <3>1, <3>4
  <2>8. ASSUME paper.limit < ColumnSize
        PROVE  d < paper.limit /\ (k < paper.limit \/ k > ColumnSize)
    <3>1. printer.limit = paper.limit /\ d < paper.limit
      BY <1>0, <1>1, <2>6, <2>8
    <3>2. printer.column + 1 # ColumnSize
      BY <1>0, <1>1, <2>8
    <3>3. d = printer.column + 1
      BY <1>0, <1>1, <3>2 DEF d
    <3>4. k # ColumnSize
      BY <1>0, <1>1, <2>2, <3>3
    <3>5. k < ColumnSize => d = k
      BY <1>0, <2>2, <2>3
    <3> QED
      BY <1>0, <2>3, <3>1, <3>4, <3>5
  <2>9. ink \in Nat /\ (paper.limit < ColumnSize => ink < paper.limit \/ ink > ColumnSize)
    BY <1>0, <1>1, <2>3, <2>4, <2>8
  <2> QED
    BY <1>2, <2>2, <2>3, <2>7, <2>8, <2>9, PrinterMoves
<1>8. CASE ch \in {10, 12, 13} \/ (ch \notin {9, 10, 12, 13} /\ AtMargin(Moved(printer, 1)))
  <2>1. CASE ch = 13
    BY <1>5, <2>1 DEF Emit
  <2>2. CASE ch \in {10, 12}
    BY <1>5, <2>2 DEF Emit
  <2>3. CASE ch \notin {9, 10, 12, 13} /\ AtMargin(Moved(printer, 1))
    <3>1. ch # 9 /\ ch # 13 /\ ch \notin {10, 12}
      BY <2>3
    <3>2. /\ printer' = [printer EXCEPT !.column = 0, !.ready = TRUE]
          /\ paper' = [NewLine(paper) EXCEPT !.count = @ + 1]
      BY <2>3, <3>1, Zenon DEF Emit
    <3> QED
      BY <1>5, <3>2
  <2> QED
    BY <1>8, <2>1, <2>2, <2>3
<1> QED
  BY <1>6, <1>7, <1>8

-----------------------------------------------------------------------------
(* The punch.                                                               *)

Bytes == 0 .. 255

PunchInv ==
  /\ punch \in [stream : Nat, ready : BOOLEAN, written : Nat, callback : BOOLEAN]
  /\ reels \in [files : Seq(Seq(Bytes)), heard : Seq(Bytes)]
  /\ punch.stream <= Len(reels.files)

LEMMA PunchKeepsInv ==
  ASSUME PunchInv, NEW ac \in HardCopyAcs, Punch(ac)
  PROVE  PunchInv'
<1> DEFINE byte == ac % 256
           n == punch.stream
           files == reels.files
           after == IF n = Closed THEN files ELSE [files EXCEPT ![n] = Append(files[n], byte)]
           told == IF punch.callback THEN Append(reels.heard, byte) ELSE reels.heard
<1>1. byte \in Bytes
  BY HardCopyConstantsAssumption DEF Word, Bytes
<1>2. n \in Nat /\ files \in Seq(Seq(Bytes)) /\ n <= Len(files) /\ reels.heard \in Seq(Bytes)
  BY DEF PunchInv
<1>3. /\ punch' = [punch EXCEPT !.written = punch.written + 1, !.ready = TRUE]
      /\ reels' = [reels EXCEPT !.files = after, !.heard = told]
  <2>1. punch' = [punch EXCEPT !.written = punch.written + 1, !.ready = TRUE]
    BY Zenon DEF Punch
  <2>2. reels' =
          [reels EXCEPT
             !.files = IF punch.stream = Closed THEN reels.files
                       ELSE [reels.files EXCEPT ![punch.stream] = Append(reels.files[punch.stream], ac % 256)],
             !.heard = IF punch.callback THEN Append(reels.heard, ac % 256) ELSE reels.heard]
    BY Zenon DEF Punch
  <2> QED
    BY <2>1, <2>2, Zenon
<1> HIDE DEF byte, n, files
<1>4. told \in Seq(Bytes)
  BY <1>1, <1>2
<1>5. after \in Seq(Seq(Bytes)) /\ Len(after) = Len(files)
  <2>1. CASE n = Closed
    BY <1>2, <2>1
  <2>2. CASE n # Closed
    <3>1. n \in 1 .. Len(files)
      BY <1>2, <2>2 DEF Closed
    <3>2. Append(files[n], byte) \in Seq(Bytes)
      BY <1>1, <1>2, <3>1
    <3> QED
      BY <1>2, <2>2, <3>1, <3>2, ExceptSeq
  <2> QED
    BY <2>1, <2>2
<1> HIDE DEF after, told
<1>6. reels' \in [files : Seq(Seq(Bytes)), heard : Seq(Bytes)] /\ reels'.files = after
  BY <1>3, <1>4, <1>5 DEF PunchInv
<1>7. /\ punch' \in [stream : Nat, ready : BOOLEAN, written : Nat, callback : BOOLEAN]
      /\ punch'.stream = n
  <2>1. PICK m \in Nat : m = punch.written + 1
    BY DEF PunchInv
  <2>2. punch' = [punch EXCEPT !.written = m, !.ready = TRUE]
    BY <1>3, <2>1
  <2> QED
    BY <2>2 DEF PunchInv, n
<1> QED
  BY <1>2, <1>5, <1>6, <1>7 DEF PunchInv

LEMMA SetOutputPathInv ==
  ASSUME PunchInv, SetOutputPath
  PROVE  PunchInv'
<1> DEFINE files == reels.files
           after == Append(files, <<>>)
<1>1. files \in Seq(Seq(Bytes)) /\ <<>> \in Seq(Bytes)
  BY DEF PunchInv
<1>2. after \in Seq(Seq(Bytes)) /\ Len(after) = Len(files) + 1 /\ Len(files) \in Nat
  BY <1>1
<1> HIDE DEF after
<1>3. CASE punch' = [punch EXCEPT !.stream = Len(files) + 1]
             /\ reels' = [reels EXCEPT !.files = after]
  <2>1. /\ punch' \in [stream : Nat, ready : BOOLEAN, written : Nat, callback : BOOLEAN]
        /\ punch'.stream = Len(files) + 1
    BY <1>2, <1>3 DEF PunchInv
  <2>2. reels' \in [files : Seq(Seq(Bytes)), heard : Seq(Bytes)] /\ reels'.files = after
    BY <1>2, <1>3 DEF PunchInv
  <2> QED
    BY <1>2, <2>1, <2>2 DEF PunchInv
<1>4. CASE punch' = [punch EXCEPT !.stream = Closed] /\ UNCHANGED reels
  <2>1. /\ punch' \in [stream : Nat, ready : BOOLEAN, written : Nat, callback : BOOLEAN]
        /\ punch'.stream = 0
    BY <1>4 DEF PunchInv, Closed
  <2>2. reels' = reels
    BY <1>4
  <2> QED
    BY <1>2, <2>1, <2>2 DEF PunchInv
<1> QED
  BY <1>3, <1>4 DEF SetOutputPath, after

HardCopyInv == PrinterInv /\ PunchInv

LEMMA HardCopyInitInv == HardCopyInit => HardCopyInv
<1> SUFFICES ASSUME NEW columns \in ColumnLimits,
                    printer = [limit |-> columns % ColumnSize, column |-> 0, ready |-> TRUE],
                    paper = [limit |-> columns, carriage |-> 0, ink |-> 0, count |-> 0],
                    punch = [stream |-> Closed, ready |-> TRUE, written |-> 0, callback |-> FALSE],
                    reels = [files |-> <<>>, heard |-> <<>>]
             PROVE  HardCopyInv
  BY DEF HardCopyInit
<1>1. ColumnSize \in Nat \ {0} /\ columns \in Nat \ {0}
  BY HardCopyConstantsAssumption
<1>2. columns % ColumnSize \in 0 .. ColumnSize - 1 /\ 0 % ColumnSize = 0 /\ 0 % 8 = 0
  BY <1>1
<1>3. PrinterInv
  BY <1>1, <1>2 DEF PrinterInv, PrinterTyped, InkInsideMargin, ColumnFits
<1>4. PunchInv
  BY DEF PunchInv, Closed
<1> QED
  BY <1>3, <1>4 DEF HardCopyInv

LEMMA HardCopyNextInv ==
  ASSUME HardCopyInv, [HardCopyNext]_hardCopyVars
  PROVE  HardCopyInv'
<1>1. CASE ClearPrinter
  <2>1. /\ printer' = [printer EXCEPT !.ready = FALSE]
        /\ paper' = paper /\ punch' = punch /\ reels' = reels
    BY <1>1 DEF ClearPrinter
  <2>2. PrinterTyped' /\ printer'.column = printer.column
    BY <2>1 DEF HardCopyInv, PrinterInv, PrinterTyped
  <2> QED
    BY <2>1, <2>2 DEF HardCopyInv, PrinterInv, InkInsideMargin, ColumnFits, PunchInv
<1>2. ASSUME NEW ac \in HardCopyAcs, PrintCharacter(ac)
      PROVE  HardCopyInv'
  <2>1. ac % 128 \in Nat
    BY HardCopyConstantsAssumption DEF Word
  <2>2. PrinterInv'
    BY <1>2, <2>1, EmitInv DEF PrintCharacter, HardCopyInv
  <2> QED
    BY <1>2, <2>2 DEF PrintCharacter, HardCopyInv, PunchInv
<1>3. CASE ClearPunch
  BY <1>3 DEF ClearPunch, HardCopyInv, PrinterInv, PrinterTyped, InkInsideMargin,
              ColumnFits, PunchInv
<1>4. ASSUME NEW ac \in HardCopyAcs, Punch(ac)
      PROVE  HardCopyInv'
  <2>1. PunchInv'
    BY <1>4, PunchKeepsInv DEF HardCopyInv
  <2> QED
    BY <1>4, <2>1 DEF Punch, HardCopyInv, PrinterInv, PrinterTyped, InkInsideMargin,
                      ColumnFits
<1>5. CASE SetOutputPath
  <2>1. PunchInv'
    BY <1>5, SetOutputPathInv DEF HardCopyInv
  <2> QED
    BY <1>5, <2>1 DEF SetOutputPath, HardCopyInv, PrinterInv, PrinterTyped,
                      InkInsideMargin, ColumnFits
<1>6. ASSUME NEW on \in BOOLEAN, SetCallback(on)
      PROVE  HardCopyInv'
  BY <1>6 DEF SetCallback, HardCopyInv, PrinterInv, PrinterTyped, InkInsideMargin,
              ColumnFits, PunchInv
<1>7. CASE UNCHANGED hardCopyVars
  BY <1>7 DEF hardCopyVars, HardCopyInv, PrinterInv, PrinterTyped, InkInsideMargin,
              ColumnFits, PunchInv
<1> QED
  BY <1>1, <1>2, <1>3, <1>4, <1>5, <1>6, <1>7 DEF HardCopyNext

LEMMA HardCopyInvHolds == HardCopySpec => []HardCopyInv
<1>1. HardCopyInv /\ [HardCopyNext]_hardCopyVars => HardCopyInv'
  BY HardCopyNextInv
<1> QED
  BY HardCopyInitInv, <1>1, PTL DEF HardCopySpec

LEMMA HardCopyInvTyped == HardCopyInv => HardCopyTypeOK
  BY DEF HardCopyInv, PrinterInv, PrinterTyped, PunchInv, HardCopyTypeOK

\* The printer, the paper and the punch keep their types, and the punch never
\* writes to a file that was not opened.
THEOREM HardCopyTypeCorrect == HardCopySpec => []HardCopyTypeOK
  BY HardCopyInvTyped, HardCopyInvHolds, PTL

\* For every limit and every width of the counter no line has ink right of the
\* margin before the counter wraps around (line_printer_emit).
THEOREM InkStaysInside == HardCopySpec => []InkInsideMargin
<1>1. HardCopyInv => InkInsideMargin
  BY DEF HardCopyInv, PrinterInv
<1> QED
  BY <1>1, HardCopyInvHolds, PTL

-----------------------------------------------------------------------------
(* Images and memory.                                                       *)

Given == Bytes \cup {Absent}

Scan == [bytes : [ByteAddrs -> Given], start : Int, ok : BOOLEAN]

Memory == [WordAddrs -> Word]

LEMMA SizesTyped ==
  /\ MemWords \in Nat \ {0} /\ 0 \in WordAddrs
  /\ \A w \in WordAddrs : w \in Nat /\ 2 * w \in ByteAddrs /\ 2 * w + 1 \in ByteAddrs
<1>1. MemWords \in Nat \ {0}
  BY ImageConstantsAssumption
<1> QED
  BY <1>1 DEF WordAddrs, ByteAddrs

LEMMA FileLineTyped ==
  ASSUME NEW line \in FileLines
  PROVE  /\ line.kind \in {"data", "start"} /\ line.capital \in BOOLEAN
         /\ line.legible \in BOOLEAN /\ line.base \in Nat
         /\ line.kind = "data" =>
              line.bytes \in Seq(Bytes \cup {Malformed}) /\ line.declared \in Nat
  BY ImageConstantsAssumption DEF DataLine, StartLine, Bytes

LEMMA StoredTyped ==
  ASSUME NEW image \in [ByteAddrs -> Given], NEW base \in Nat,
         NEW bytes \in Seq(Bytes \cup {Malformed})
  PROVE  Stored(image, base, bytes) \in [ByteAddrs -> Given]
<1>1. ASSUME NEW a \in ByteAddrs, a - base + 1 \in DOMAIN bytes, bytes[a - base + 1] # Malformed
      PROVE  bytes[a - base + 1] \in Given
  <2>1. PICK i \in 1 .. Len(bytes) : i = a - base + 1
    BY <1>1
  <2>2. bytes[i] \in Bytes \cup {Malformed}
    BY ElementOfSeq
  <2> QED
    BY <1>1, <2>1, <2>2 DEF Given
<1> QED
  BY <1>1 DEF Stored

\* What pdp8v takes of a line.
LEMMA TakenTyped ==
  ASSUME NEW line \in FileLines, line.kind = "data", line.declared <= Len(line.bytes)
  PROVE  /\ Taken(line) \in Seq(Bytes \cup {Malformed}) /\ Len(Taken(line)) <= line.declared
         /\ WellFormed(line) => Taken(line) = line.bytes
<1> DEFINE bytes == line.bytes
           n == line.declared
           bad == {i \in 1 .. n : bytes[i] = Malformed}
<1>1. bytes \in Seq(Bytes \cup {Malformed}) /\ n \in Nat /\ n <= Len(bytes)
  BY FileLineTyped
<1>2. Taken(line) = SubSeq(bytes, 1, IF bad = {} THEN n ELSE Min(bad) - 1)
  BY DEF Taken
<1>3. bad \in SUBSET Nat /\ bad \subseteq 1 .. n
  BY <1>1
<1> HIDE DEF bytes, n
<1>4. PICK m \in 0 .. n : m = IF bad = {} THEN n ELSE Min(bad) - 1
  <2>1. CASE bad = {}
    BY <1>1, <2>1
  <2>2. CASE bad # {}
    <3> HIDE DEF bad
    <3>1. PICK b \in 1 .. n : b = Min(bad)
      BY <1>3, <2>2, LeastOf
    <3> QED
      BY <1>1, <2>2, <3>1
  <2> QED
    BY <2>1, <2>2
<1> HIDE DEF bad
<1>5. SubSeq(bytes, 1, m) \in Seq(Bytes \cup {Malformed}) /\ Len(SubSeq(bytes, 1, m)) = m
  <2>1. \A i \in 1 .. m : bytes[i] \in Bytes \cup {Malformed}
    <3> TAKE i \in 1 .. m
    <3>1. i \in 1 .. Len(bytes)
      BY <1>1, <1>4
    <3> QED
      BY <1>1, <3>1, ElementOfSeq
  <2> QED
    BY <2>1, SubSeqProperties
<1>6. WellFormed(line) => SubSeq(bytes, 1, m) = bytes
  <2> SUFFICES ASSUME WellFormed(line) PROVE SubSeq(bytes, 1, m) = bytes
    OBVIOUS
  <2>1. n = Len(bytes) /\ Malformed \notin Range(bytes)
    BY DEF WellFormed, bytes, n
  <2>2. bad = {}
    BY <1>1, <2>1 DEF bad, Range
  <2>3. m = Len(bytes)
    BY <1>4, <2>1, <2>2
  <2> QED
    BY <1>1, <2>3
<1> QED
  BY <1>1, <1>2, <1>4, <1>5, <1>6 DEF bytes, n

LEMMA LineTypes ==
  ASSUME NEW s \in Scan, NEW line \in FileLines
  PROVE  /\ WithStart(s, line) \in Scan
         /\ line.kind = "data" =>
              [s EXCEPT !.bytes = Stored(@, line.base, line.bytes)] \in Scan
<1>1. WithStart(s, line) \in Scan
  BY FileLineTyped DEF WithStart, Scan
<1>2. ASSUME line.kind = "data"
      PROVE  [s EXCEPT !.bytes = Stored(@, line.base, line.bytes)] \in Scan
  <2>1. PICK b \in [ByteAddrs -> Given] : b = Stored(s.bytes, line.base, line.bytes)
    BY <1>2, FileLineTyped, StoredTyped DEF Scan
  <2>2. [s EXCEPT !.bytes = b] \in Scan
    BY DEF Scan
  <2> QED
    BY <2>1, <2>2
<1> QED
  BY <1>1, <1>2

LEMMA AfterLineTyped ==
  ASSUME NEW s \in Scan, NEW line \in FileLines, NEW p \in Loaders
  PROVE  AfterLine(p, s, line) \in Scan
<1>1. MonitorLine(s, line) \in Scan
  <2>1. [s EXCEPT !.ok = FALSE] \in Scan
    BY DEF Scan
  <2>2. CASE line.kind = "start"
    BY <2>2, LineTypes DEF MonitorLine
  <2>3. CASE line.kind = "data" /\ ~WellFormed(line)
    BY <2>1, <2>3 DEF MonitorLine
  <2>4. CASE line.kind = "data" /\ WellFormed(line)
    BY <2>4, LineTypes DEF MonitorLine
  <2> QED
    BY <2>2, <2>3, <2>4, FileLineTyped
<1>2. VisualLine(s, line) \in Scan
  <2>1. CASE ~line.capital
    BY <2>1 DEF VisualLine
  <2>2. CASE line.capital /\ line.kind = "start"
    BY <2>2, LineTypes DEF VisualLine
  <2>3. CASE line.capital /\ line.kind = "data"
              /\ (~line.legible \/ line.declared > Len(line.bytes))
    BY <2>3 DEF VisualLine
  <2>4. CASE line.capital /\ line.kind = "data"
              /\ ~(~line.legible \/ line.declared > Len(line.bytes))
    <3>1. line.declared <= Len(line.bytes) /\ line.base \in Nat
      BY <2>4, FileLineTyped
    <3>2. PICK b \in [ByteAddrs -> Given] : b = Stored(s.bytes, line.base, Taken(line))
      <4>1. Taken(line) \in Seq(Bytes \cup {Malformed}) /\ s.bytes \in [ByteAddrs -> Given]
        BY <2>4, <3>1, TakenTyped DEF Scan
      <4> QED
        BY <3>1, <4>1, StoredTyped
    <3> DEFINE ok == Len(Taken(line)) < line.declared \/ line.sum # "wrong"
    <3>3. VisualLine(s, line) = [s EXCEPT !.bytes = b, !.ok = ok]
      BY <2>4, <3>2 DEF VisualLine
    <3>4. ok \in BOOLEAN
      OBVIOUS
    <3> HIDE DEF ok
    <3> QED
      BY <3>3, <3>4 DEF Scan
  <2> QED
    BY <2>1, <2>2, <2>3, <2>4, FileLineTyped
<1>3. ControllerLine(s, line) \in Scan
  BY LineTypes DEF ControllerLine
<1> QED
  BY <1>1, <1>2, <1>3 DEF AfterLine, Loaders

\* A word whose bytes are both there.
LEMMA WordOfTyped ==
  ASSUME NEW image \in [ByteAddrs -> Given], NEW w \in WholeAddrs(image)
  PROVE  w \in WordAddrs /\ WordOf(image, w) \in Word
<1>1. w \in WordAddrs /\ image[2 * w] # Absent /\ image[2 * w + 1] # Absent
  BY DEF WholeAddrs, Whole
<1>2. PICK lo \in Nat, hi \in Nat : lo = image[2 * w] /\ hi = image[2 * w + 1] /\ lo <= 255
  <2>1. image[2 * w] \in Given /\ image[2 * w + 1] \in Given
    BY <1>1, SizesTyped
  <2>2. image[2 * w] \in Bytes /\ image[2 * w + 1] \in Bytes
    BY <1>1, <2>1 DEF Given
  <2>3. \A b \in Bytes : b \in Nat /\ b <= 255
    BY DEF Bytes
  <2> QED
    BY <2>2, <2>3
<1>3. (hi % 16) * 256 + lo \in Nat /\ (hi % 16) * 256 + lo <= 4095
  BY <1>2
<1>4. (hi % 16) * 256 + lo \in Word
  BY <1>3, WordIf
<1> QED
  BY <1>1, <1>2, <1>4 DEF WordOf

LEMMA LoadedTyped ==
  ASSUME NEW s \in Scan, NEW m \in Memory, NEW p \in WordAddrs
  PROVE  LoadedMem(s, m) \in Memory /\ LoadedPc(s, p) \in WordAddrs
<1>1. LoadedMem(s, m) \in Memory
  <2>1. ASSUME NEW w \in WordAddrs, Whole(s.bytes, w) PROVE WordOf(s.bytes, w) \in Word
    BY <2>1, WordOfTyped DEF WholeAddrs, Scan
  <2> QED
    BY <2>1 DEF LoadedMem, Memory
<1>2. LoadedPc(s, p) \in WordAddrs
  <2>1. CASE Loads(s) /\ s.start >= 0
    <3>1. s.start \div 2 \in Int
      BY DEF Scan
    <3>2. PICK n \in Nat : n = MaskWord(s.start \div 2)
      BY <3>1, MaskIsWord, WordIsNat
    <3>3. n % MemWords \in WordAddrs
      BY SizesTyped DEF WordAddrs
    <3> QED
      BY <2>1, <3>2, <3>3 DEF LoadedPc
  <2>2. CASE ~(Loads(s) /\ s.start >= 0)
    BY <2>2 DEF LoadedPc
  <2> QED
    BY <2>1, <2>2
<1> QED
  BY <1>1, <1>2

\* The words of the tape: the whole ones in ascending order.
Ascending == {p \in WordAddrs \X WordAddrs : p[1] < p[2]}

LEMMA WholeInOrder ==
  ASSUME NEW whole \in SUBSET WordAddrs
  PROVE  /\ IsFiniteSet(whole) /\ StrictOrder(whole, Ascending)
         /\ \A w \in whole : Place(whole, Ascending, w) + 1 = Cardinality({v \in whole : v <= w})
<1>1. IsFiniteSet(whole)
  <2>1. IsFiniteSet(WordAddrs)
    BY SizesTyped, FS_Interval DEF WordAddrs
  <2> QED
    BY <2>1, FS_Subset
<1>2. \A v, w \in WordAddrs : <<v, w>> \in Ascending <=> v < w
  BY DEF Ascending
<1>3. \A v \in WordAddrs : v \in Nat
  BY SizesTyped
<1>4. StrictOrder(whole, Ascending)
  BY <1>2, <1>3 DEF StrictOrder
<1>5. ASSUME NEW w \in whole
      PROVE  Place(whole, Ascending, w) + 1 = Cardinality({v \in whole : v <= w})
  <2> DEFINE S == {v \in whole : <<v, w>> \in Ascending}
  <2>1. w \notin S /\ {v \in whole : v <= w} = S \cup {w}
    BY <1>2, <1>3
  <2>2. IsFiniteSet(S)
    BY <1>1, FS_Subset
  <2>3. Cardinality(S \cup {w}) = Cardinality(S) + 1
    <3> HIDE DEF S
    <3> QED
      BY <2>1, <2>2, FS_AddElement
  <2> QED
    BY <2>1, <2>3 DEF Place
<1> QED
  BY <1>1, <1>4, <1>5

LEMMA TapeWordsTyped ==
  ASSUME NEW s \in Scan
  PROVE  LET whole == WholeAddrs(s.bytes)
         IN  /\ TapeWords(s) \in Seq(Word) /\ Len(TapeWords(s)) = Cardinality(whole)
             /\ \A w \in whole :
                  TapeWords(s)[Cardinality({v \in whole : v <= w})] = WordOf(s.bytes, w)
<1> DEFINE whole == WholeAddrs(s.bytes)
           order == InOrder(whole, Ascending)
<1>1. whole \in SUBSET WordAddrs
  BY DEF WholeAddrs
<1>2. TapeWords(s) = [i \in DOMAIN order |-> WordOf(s.bytes, order[i])]
  BY DEF TapeWords, Ascending
<1>3. s.bytes \in [ByteAddrs -> Given]
  BY DEF Scan
<1>4. \A w \in whole : WordOf(s.bytes, w) \in Word
  BY <1>3, WordOfTyped
<1>5. IsFiniteSet(whole) /\ StrictOrder(whole, Ascending)
  BY <1>1, WholeInOrder
<1> HIDE DEF whole
<1>6. /\ Cardinality(whole) \in Nat /\ order \in Seq(whole) /\ Len(order) = Cardinality(whole)
      /\ \A w \in whole : order[Place(whole, Ascending, w) + 1] = w
  BY <1>5, InOrderSorts
<1>7. \A w \in whole : Place(whole, Ascending, w) \in 0 .. Cardinality(whole) - 1
  BY <1>5, PlaceType
<1>8. \A w \in whole : Place(whole, Ascending, w) + 1 = Cardinality({v \in whole : v <= w})
  BY <1>1, WholeInOrder
<1> HIDE DEF order
<1>9. TapeWords(s) \in Seq(Word) /\ Len(TapeWords(s)) = Len(order)
  BY <1>2, <1>4, <1>6
<1>10. ASSUME NEW w \in whole
       PROVE  TapeWords(s)[Cardinality({v \in whole : v <= w})] = WordOf(s.bytes, w)
  <2>1. PICK i \in 1 .. Len(order) : i = Place(whole, Ascending, w) + 1 /\ order[i] = w
    BY <1>6, <1>7
  <2>2. TapeWords(s)[i] = WordOf(s.bytes, w)
    BY <1>2, <1>6, <2>1
  <2> QED
    BY <1>8, <2>1, <2>2
<1> QED
  BY <1>6, <1>9, <1>10 DEF whole

\* dep: word by word.

-----------------------------------------------------------------------------
(* Images: what a file means.                                               *)

ProperLine(line) ==
  /\ line.capital /\ line.legible
  /\ line.kind = "data" => WellFormed(line) /\ line.sum = "right"

Gives(line, a) == line.kind = "data" /\ a - line.base + 1 \in DOMAIN line.bytes

GiversIn(f, a) == {i \in DOMAIN f : Gives(f[i], a)}

MeantIn(f, a) == LET i == Max(GiversIn(f, a)) IN f[i].bytes[a - f[i].base + 1]

\* What has been gathered from the lines f is what they mean.
Exact(s, f) ==
  /\ s.ok
  /\ \A a \in ByteAddrs :
       /\ GiversIn(f, a) = {} => s.bytes[a] = Absent
       /\ GiversIn(f, a) # {} => s.bytes[a] = MeantIn(f, a) /\ s.bytes[a] # Absent

LEMMA GreatestIs ==
  ASSUME NEW S \in SUBSET Nat, NEW n \in S, \A m \in S : m <= n
  PROVE  Max(S) = n
<1>1. n \in Nat /\ \A m \in S : m \in Nat
  OBVIOUS
<1>2. \A m \in S : (\A k \in S : m >= k) => m = n
  BY <1>1
<1>3. \E m \in S : \A k \in S : m >= k
  BY <1>1
<1> QED
  BY <1>2, <1>3 DEF Max

LEMMA GiversOneMore ==
  ASSUME NEW f \in Seq(FileLines), NEW line \in FileLines, NEW a \in ByteAddrs
  PROVE  LET all == Append(f, line)
         IN  /\ GiversIn(all, a) = {} <=> GiversIn(f, a) = {} /\ ~Gives(line, a)
             /\ Gives(line, a) => MeantIn(all, a) = line.bytes[a - line.base + 1]
             /\ ~Gives(line, a) /\ GiversIn(f, a) # {} => MeantIn(all, a) = MeantIn(f, a)
<1> DEFINE all == Append(f, line)
           n == Len(f) + 1
           old == GiversIn(f, a)
           new == GiversIn(all, a)
<1>1. /\ n \in Nat \ {0} /\ DOMAIN f = 1 .. n - 1 /\ DOMAIN all = 1 .. n /\ all[n] = line
      /\ \A i \in 1 .. n - 1 : all[i] = f[i]
  OBVIOUS
<1>2. old \subseteq 1 .. n - 1 /\ new \subseteq 1 .. n /\ new \in SUBSET Nat
  BY <1>1 DEF GiversIn
<1> HIDE DEF all, n
<1>3. new = IF Gives(line, a) THEN old \cup {n} ELSE old
  <2>1. \A i \in 1 .. n - 1 : i \in new <=> i \in old
    BY <1>1 DEF GiversIn
  <2>2. n \in new <=> Gives(line, a)
    BY <1>1 DEF GiversIn
  <2>3. \A i \in 1 .. n : i = n \/ i \in 1 .. n - 1
    BY <1>1
  <2>4. n \notin 1 .. n - 1
    BY <1>1
  <2> HIDE DEF old, new
  <2>5. CASE Gives(line, a)
    BY <1>2, <2>1, <2>2, <2>3, <2>4, <2>5
  <2>6. CASE ~Gives(line, a)
    <3>1. \A i \in new : i \in 1 .. n - 1
      BY <1>2, <2>2, <2>3, <2>6
    <3>2. new = old
      BY <1>2, <2>1, <3>1
    <3> QED
      BY <2>6, <3>2
  <2> QED
    BY <2>5, <2>6
<1>4. Gives(line, a) => MeantIn(all, a) = line.bytes[a - line.base + 1]
  <2> SUFFICES ASSUME Gives(line, a) PROVE MeantIn(all, a) = line.bytes[a - line.base + 1]
    OBVIOUS
  <2>1. n \in new /\ \A m \in new : m <= n
    BY <1>1, <1>2, <1>3
  <2> HIDE DEF new
  <2>2. Max(new) = n
    BY <1>2, <2>1, GreatestIs
  <2> QED
    BY <1>1, <2>2 DEF MeantIn, new
<1>5. ~Gives(line, a) /\ old # {} => MeantIn(all, a) = MeantIn(f, a)
  <2> SUFFICES ASSUME ~Gives(line, a), old # {} PROVE MeantIn(all, a) = MeantIn(f, a)
    OBVIOUS
  <2>1. new = old
    BY <1>3
  <2>2. Max(old) \in old
    <3>1. old \in SUBSET Nat /\ n \in Nat /\ \A x \in old : x < n
      BY <1>1, <1>2
    <3> HIDE DEF old
    <3> QED
      BY <3>1, GreatestOfBounded
  <2>3. all[Max(old)] = f[Max(old)]
    BY <1>1, <1>2, <2>2
  <2> QED
    BY <2>1, <2>3 DEF MeantIn
<1>6. new = {} <=> old = {} /\ ~Gives(line, a)
  BY <1>3
<1> QED
  BY <1>4, <1>5, <1>6 DEF all

\* On a proper line the loaders agree.
LEMMA ProperAfter ==
  ASSUME NEW s \in Scan, s.ok, NEW line \in FileLines, ProperLine(line), NEW p \in Loaders,
         NEW t, t = AfterLine(p, s, line)
  PROVE  /\ t.ok
         /\ t.bytes = IF line.kind = "data" THEN Stored(s.bytes, line.base, line.bytes) ELSE s.bytes
         /\ p # "tape" => t.start = IF line.kind = "start" THEN line.base ELSE s.start
<1>1. CASE line.kind = "start"
  <2>1. WithStart(s, line) = [s EXCEPT !.start = line.base]
    BY DEF WithStart, ProperLine
  <2>2. p # "tape" => t = [s EXCEPT !.start = line.base]
    BY <1>1, <2>1 DEF AfterLine, Loaders, MonitorLine, VisualLine, ProperLine
  <2>3. p = "tape" => t = s
    BY <1>1 DEF AfterLine, ControllerLine
  <2> QED
    BY <1>1, <2>2, <2>3 DEF Scan
<1>2. CASE line.kind = "data"
  <2> DEFINE b == Stored(s.bytes, line.base, line.bytes)
  <2>1. /\ WellFormed(line) /\ line.capital /\ line.legible /\ line.sum = "right"
        /\ line.declared = Len(line.bytes) /\ line.declared \in Nat
    BY <1>2, FileLineTyped DEF ProperLine, WellFormed
  <2>2. Taken(line) = line.bytes
    BY <1>2, <2>1, TakenTyped
  <2>3. CASE p = "pdp8v"
    <3>1. t = VisualLine(s, line)
      BY <2>3 DEF AfterLine
    <3>2. t = [s EXCEPT !.bytes = Stored(@, line.base, Taken(line)),
                        !.ok = Len(Taken(line)) < line.declared \/ line.sum # "wrong"]
      BY <1>2, <2>1, <3>1 DEF VisualLine
    <3>3. t = [s EXCEPT !.bytes = b, !.ok = TRUE]
      BY <2>1, <2>2, <3>2
    <3> HIDE DEF b
    <3>4. t.ok /\ t.bytes = b /\ t.start = s.start
      BY <3>3 DEF Scan
    <3> QED
      BY <1>2, <2>3, <3>4 DEF b
  <2>4. CASE p # "pdp8v"
    <3>1. t = [s EXCEPT !.bytes = b]
      BY <1>2, <2>1, <2>4 DEF AfterLine, Loaders, MonitorLine, ControllerLine
    <3> HIDE DEF b
    <3>2. t.ok /\ t.bytes = b /\ t.start = s.start
      BY <3>1 DEF Scan
    <3> QED
      BY <1>2, <2>4, <3>2 DEF b
  <2> QED
    BY <2>3, <2>4
<1> QED
  BY <1>1, <1>2, FileLineTyped

LEMMA ExactAfter ==
  ASSUME NEW s \in Scan, NEW f \in Seq(FileLines), Exact(s, f), NEW line \in FileLines,
         ProperLine(line), NEW p \in Loaders
  PROVE  Exact(AfterLine(p, s, line), Append(f, line))
<1>1. PICK t : t = AfterLine(p, s, line)
  OBVIOUS
<1>2. s.ok
  BY DEF Exact
<1>3. /\ t.ok
      /\ t.bytes = IF line.kind = "data" THEN Stored(s.bytes, line.base, line.bytes) ELSE s.bytes
  BY <1>1, <1>2, ProperAfter
<1>4. ASSUME NEW a \in ByteAddrs, Gives(line, a)
      PROVE  t.bytes[a] = line.bytes[a - line.base + 1] /\ t.bytes[a] # Absent
  <2>1. line.kind = "data" /\ Malformed \notin Range(line.bytes)
    BY <1>4 DEF ProperLine, WellFormed, Gives
  <2>2. line.bytes \in Seq(Bytes \cup {Malformed}) /\ line.base \in Nat
    BY <2>1, FileLineTyped
  <2>3. PICK i \in 1 .. Len(line.bytes) : i = a - line.base + 1
    BY <1>4, <2>2 DEF Gives
  <2>4. line.bytes[i] # Malformed /\ line.bytes[i] \in Bytes
    BY <2>1, <2>2, <2>3 DEF Range
  <2>5. line.bytes[i] # Absent
    <3>1. \A b \in Bytes : b # Absent
      BY DEF Bytes, Absent
    <3> QED
      BY <2>4, <3>1
  <2>6. t.bytes[a] = line.bytes[i]
    BY <1>3, <2>1, <2>3, <2>4 DEF Stored
  <2> QED
    BY <2>3, <2>5, <2>6
<1>5. ASSUME NEW a \in ByteAddrs, ~Gives(line, a)
      PROVE  t.bytes[a] = s.bytes[a]
  BY <1>3, <1>5 DEF Gives, Stored
<1>6. ASSUME NEW a \in ByteAddrs
      PROVE  LET all == Append(f, line)
             IN  /\ GiversIn(all, a) = {} => t.bytes[a] = Absent
                 /\ GiversIn(all, a) # {} => t.bytes[a] = MeantIn(all, a) /\ t.bytes[a] # Absent
  <2>1. CASE Gives(line, a)
    BY <1>4, <2>1, GiversOneMore
  <2>2. CASE ~Gives(line, a)
    BY <1>5, <2>2, GiversOneMore DEF Exact
  <2> QED
    BY <2>1, <2>2
<1> QED
  BY <1>1, <1>3, <1>6 DEF Exact

-----------------------------------------------------------------------------
(* Images: the invariant.                                                   *)

Commands == {"none", "read", "save", "restore", "dep"}

DoneType ==
  [ command : Commands, answer : {"ok", "error"}, mem : Memory, pc : WordAddrs,
    start : WordAddrs, list : Seq(Word \cup {Invalid}), count : Nat ]

ImageTyped ==
  /\ mem \in Memory /\ pc \in WordAddrs /\ file \in Seq(FileLines)
  /\ scan \in [Loaders -> Scan]
  /\ tape \in [words : Seq(Word), partial : BOOLEAN]
  /\ disk \in [content : Seq(Word), meant : Memory, minutes : Word]
  /\ done \in DoneType

\* The loaders agree on what they have gathered of a proper file.
Gathered ==
  (\A i \in DOMAIN file : ProperLine(file[i])) =>
    /\ \A p \in Loaders : Exact(scan[p], file)
    /\ scan["monitor"].start = scan["pdp8v"].start

\* The raw image is a part of the memory it was made of, as a program reads it.
DiskTrue ==
  /\ Len(disk.content) <= MemWords
  /\ \A i \in 1 .. Len(disk.content) : disk.content[i] = EffectiveWord(disk.meant, i - 1, disk.minutes)

ImageInv == ImageTyped /\ Gathered /\ DiskTrue /\ AnswersAboutMemory

LEMMA DoneTyped ==
  ASSUME ImageTyped, NEW command \in Commands, NEW answer \in {"ok", "error"},
         NEW start \in WordAddrs, NEW list \in Seq(Word \cup {Invalid}),
         DidWith(command, answer, start, list)
  PROVE  /\ done'.command = command /\ done'.answer = answer /\ done'.mem = mem /\ done'.pc = pc
         /\ done'.start = start /\ done'.list = list
         /\ done' \in DoneType
  BY DEF DidWith, ImageTyped, DoneType

\* All commands but dep.
LEMMA DidTyped ==
  ASSUME ImageTyped, NEW command \in Commands, NEW answer \in {"ok", "error"}, Did(command, answer)
  PROVE  /\ done'.command = command /\ done'.answer = answer /\ done'.mem = mem /\ done'.pc = pc
         /\ done' \in DoneType
<1>1. 0 \in WordAddrs /\ <<>> \in Seq(Word \cup {Invalid})
  BY SizesTyped
<1> QED
  BY <1>1, DoneTyped DEF Did

LEMMA AnswersKept ==
  ASSUME AnswersAboutMemory, mem' = mem, pc' = pc, disk' = disk, done' = done
  PROVE  AnswersAboutMemory'
<1>1. ReadAnswers' <=> ReadAnswers
  BY DEF ReadAnswers
<1>2. RestoreAnswers' <=> RestoreAnswers
  BY DEF RestoreAnswers
<1>3. SaveAnswers' <=> SaveAnswers
  BY DEF SaveAnswers
<1>4. DepAnswers' <=> DepAnswers
  <2>1. SoundWords' = SoundWords
    BY DEF SoundWords
  <2>2. \A w \in WordAddrs : Landing(w)' = Landing(w)
    BY <2>1 DEF Landing
  <2> QED
    BY <2>1, <2>2 DEF DepAnswers
<1> QED
  BY <1>1, <1>2, <1>3, <1>4 DEF AnswersAboutMemory

LEMMA ImageInitInv == ImageInit => ImageInv
<1> SUFFICES ASSUME ImageInit PROVE ImageInv
  OBVIOUS
<1>1. mem \in Memory /\ pc \in WordAddrs /\ file = <<>> /\ 0 \in WordAddrs
  <2>1. 0 \in Word
    BY WordIf
  <2> QED
    BY <2>1, SizesTyped DEF ImageInit, Memory
<1>2. NewScan \in Scan
  BY DEF NewScan, Scan, Given
<1>3. ImageTyped
  <2>1. 0 \in Word
    BY WordIf
  <2> QED
    BY <1>1, <1>2, <2>1 DEF ImageInit, ImageTyped, DoneType, Commands
<1>4. Gathered
  <2>1. \A a \in ByteAddrs : GiversIn(<<>>, a) = {}
    BY DEF GiversIn
  <2>2. Exact(NewScan, <<>>)
    BY <2>1 DEF Exact, NewScan
  <2> QED
    BY <2>2 DEF Gathered, ImageInit, Loaders
<1>5. DiskTrue /\ AnswersAboutMemory
  BY SizesTyped DEF ImageInit, DiskTrue, AnswersAboutMemory
<1> QED
  BY <1>3, <1>4, <1>5 DEF ImageInv

LEMMA ReadLineInv ==
  ASSUME ImageInv, NEW line \in FileLines, ReadLine(line)
  PROVE  ImageInv'
<1>1. /\ file' = Append(file, line) /\ scan' = [p \in Loaders |-> AfterLine(p, scan[p], line)]
      /\ mem' = mem /\ pc' = pc /\ tape' = tape /\ disk' = disk /\ done' = done
  BY DEF ReadLine
<1>2. ImageTyped
  BY DEF ImageInv
<1>3. \A p \in Loaders : scan[p] \in Scan /\ scan'[p] = AfterLine(p, scan[p], line)
  BY <1>1, <1>2 DEF ImageTyped
<1>4. scan' \in [Loaders -> Scan]
  BY <1>1, <1>3, AfterLineTyped
<1>5. ImageTyped'
  BY <1>1, <1>2, <1>4 DEF ImageTyped
<1>6. Gathered'
  <2> SUFFICES ASSUME \A i \in DOMAIN file' : ProperLine(file'[i])
               PROVE  /\ \A p \in Loaders : Exact(scan'[p], file')
                      /\ scan'["monitor"].start = scan'["pdp8v"].start
    BY DEF Gathered
  <2>1. file \in Seq(FileLines)
    BY <1>2 DEF ImageTyped
  <2>2. ProperLine(line) /\ \A i \in DOMAIN file : ProperLine(file[i])
    <3>1. /\ Len(file) + 1 \in DOMAIN file' /\ file'[Len(file) + 1] = line
          /\ \A i \in DOMAIN file : i \in DOMAIN file' /\ file'[i] = file[i]
      BY <1>1, <2>1
    <3> QED
      BY <3>1
  <2>3. /\ \A p \in Loaders : Exact(scan[p], file)
        /\ scan["monitor"].start = scan["pdp8v"].start
    BY <2>2 DEF ImageInv, Gathered
  <2>4. \A p \in Loaders : Exact(scan'[p], file')
    BY <1>1, <1>3, <2>1, <2>2, <2>3, ExactAfter
  <2>5. \A p \in {"monitor", "pdp8v"} :
          scan'[p].start = IF line.kind = "start" THEN line.base ELSE scan[p].start
    <3> TAKE p \in {"monitor", "pdp8v"}
    <3>1. p \in Loaders /\ p # "tape" /\ scan[p] \in Scan /\ scan[p].ok
      BY <1>3, <2>3 DEF Loaders, Exact
    <3> QED
      BY <1>3, <2>2, <3>1, ProperAfter
  <2> QED
    BY <2>3, <2>4, <2>5
<1>7. DiskTrue' /\ AnswersAboutMemory'
  BY <1>1, AnswersKept DEF ImageInv, DiskTrue
<1> QED
  BY <1>5, <1>6, <1>7 DEF ImageInv

LEMMA ReadInv ==
  ASSUME ImageInv, Read
  PROVE  ImageInv'
<1> DEFINE s == scan["monitor"]
           u == scan["tape"]
           answer == IF Loads(s) THEN "ok" ELSE "error"
           partial == \E w \in WordAddrs : HalfThere(u.bytes, w)
<1>1. /\ mem' = LoadedMem(s, mem) /\ pc' = LoadedPc(s, pc)
      /\ tape' = [words |-> TapeWords(u), partial |-> partial]
      /\ Did("read", answer) /\ scan' = scan /\ file' = file /\ disk' = disk
  BY DEF Read
<1>2. ImageTyped
  BY DEF ImageInv
<1>3. s \in Scan /\ u \in Scan /\ mem \in Memory /\ pc \in WordAddrs
  BY <1>2 DEF ImageTyped, Loaders
<1>4. answer \in {"ok", "error"} /\ partial \in BOOLEAN
  OBVIOUS
<1> HIDE DEF partial
<1>5. /\ done'.command = "read" /\ done'.answer = answer /\ done'.mem = mem /\ done'.pc = pc
      /\ done' \in DoneType
  <2> HIDE DEF answer
  <2> QED
    BY <1>1, <1>2, <1>4, DidTyped DEF Commands
<1>6. ImageTyped'
  <2>1. mem' \in Memory /\ pc' \in WordAddrs
    BY <1>1, <1>3, LoadedTyped
  <2>2. tape' \in [words : Seq(Word), partial : BOOLEAN]
    <3>1. TapeWords(u) \in Seq(Word)
      BY <1>3, TapeWordsTyped
    <3> QED
      BY <1>1, <1>4, <3>1
  <2> QED
    BY <1>1, <1>2, <1>5, <2>1, <2>2 DEF ImageTyped
<1>7. Gathered' /\ DiskTrue'
  BY <1>1 DEF ImageInv, Gathered, DiskTrue
<1>8. AnswersAboutMemory'
  <2>1. ASSUME answer = "error" PROVE mem' = mem /\ pc' = pc
    <3>1. ~Loads(s)
      BY <2>1
    <3>2. mem' = mem
      BY <1>1, <1>3, <3>1 DEF LoadedMem, Memory
    <3>3. pc' = pc
      BY <1>1, <3>1 DEF LoadedPc
    <3> QED
      BY <3>2, <3>3
  <2> HIDE DEF answer
  <2> QED
    BY <1>5, <2>1 DEF AnswersAboutMemory, ReadAnswers
<1> QED
  BY <1>6, <1>7, <1>8 DEF ImageInv

LEMMA CloseFileInv ==
  ASSUME ImageInv, CloseFile
  PROVE  ImageInv'
<1>1. /\ file' = <<>> /\ scan' = [p \in Loaders |-> NewScan]
      /\ tape' = [words |-> <<>>, partial |-> FALSE]
      /\ done' = [done EXCEPT !.command = "none", !.mem = mem, !.pc = pc]
      /\ mem' = mem /\ pc' = pc /\ disk' = disk
  BY DEF CloseFile
<1>2. ImageTyped
  BY DEF ImageInv
<1>3. NewScan \in Scan
  BY DEF NewScan, Scan, Given
<1>4. /\ done'.command = "none"
      /\ done' \in DoneType
  <2>1. done \in DoneType /\ mem \in Memory /\ pc \in WordAddrs
    BY <1>2 DEF ImageTyped
  <2> QED
    BY <1>1, <2>1 DEF DoneType, Commands
<1>5. ImageTyped'
  BY <1>1, <1>2, <1>3, <1>4 DEF ImageTyped
<1>6. Gathered'
  <2>1. \A a \in ByteAddrs : GiversIn(<<>>, a) = {}
    BY DEF GiversIn
  <2>2. Exact(NewScan, <<>>)
    BY <2>1 DEF Exact, NewScan
  <2> QED
    BY <1>1, <2>2 DEF Gathered, Loaders
<1>7. DiskTrue' /\ AnswersAboutMemory'
  BY <1>1, <1>4 DEF ImageInv, DiskTrue, AnswersAboutMemory
<1> QED
  BY <1>5, <1>6, <1>7 DEF ImageInv

LEMMA SaveInv ==
  ASSUME ImageInv, Save
  PROVE  ImageInv'
<1>1. PICK n \in 0 .. MemWords, noticed \in BOOLEAN, minutes \in Minutes :
        /\ n < MemWords - Unflushed => noticed
        /\ disk' = [ content |-> SubSeq(Words(mem, minutes), 1, n), meant |-> mem,
                     minutes |-> minutes ]
        /\ Did("save", IF noticed THEN "error" ELSE "ok")
        /\ mem' = mem /\ pc' = pc /\ scan' = scan /\ file' = file /\ tape' = tape
  BY DEF Save
<1>2. ImageTyped
  BY DEF ImageInv
<1>3. MemWords \in Nat /\ Unflushed \in Nat
  BY ImageConstantsAssumption, SizesTyped
<1> DEFINE content == SubSeq(Words(mem, minutes), 1, n)
<1>4. /\ content \in Seq(Word) /\ Len(content) = n /\ minutes \in Word
      /\ \A i \in 1 .. n : content[i] = EffectiveWord(mem, i - 1, minutes)
  <2>1. minutes \in Word
    <3>1. minutes \in 0 .. 1439
      BY <1>1, ImageConstantsAssumption
    <3> QED
      BY <3>1, WordIf
  <2>2. \A i \in 1 .. MemWords : i - 1 \in WordAddrs
    BY <1>3 DEF WordAddrs
  <2>3. \A i \in 1 .. MemWords : EffectiveWord(mem, i - 1, minutes) \in Word
    BY <1>2, <2>1, <2>2 DEF EffectiveWord, ImageTyped, Memory
  <2>4. /\ Words(mem, minutes) \in Seq(Word) /\ Len(Words(mem, minutes)) = MemWords
        /\ \A i \in 1 .. MemWords : Words(mem, minutes)[i] = EffectiveWord(mem, i - 1, minutes)
    BY <1>3, <2>3 DEF Words
  <2> QED
    BY <1>3, <2>1, <2>4
<1> HIDE DEF content
<1>5. /\ disk'.content = content /\ disk'.meant = mem /\ disk'.minutes = minutes
      /\ disk' \in [content : Seq(Word), meant : Memory, minutes : Word]
  BY <1>1, <1>2, <1>4 DEF content, ImageTyped
<1> DEFINE answer == IF noticed THEN "error" ELSE "ok"
<1>6. /\ done'.command = "save" /\ done'.answer = answer
      /\ done' \in DoneType
  <2>1. answer \in {"ok", "error"}
    OBVIOUS
  <2>2. Did("save", answer)
    BY <1>1
  <2> HIDE DEF answer
  <2> QED
    BY <1>2, <2>1, <2>2, DidTyped DEF Commands
<1>7. ImageTyped'
  BY <1>1, <1>2, <1>5, <1>6 DEF ImageTyped
<1>8. Gathered'
  BY <1>1 DEF ImageInv, Gathered
<1>9. DiskTrue'
  BY <1>3, <1>4, <1>5 DEF DiskTrue
<1>10. AnswersAboutMemory'
  <2>1. answer = "ok" => n >= MemWords - Unflushed
    BY <1>1, <1>3
  <2> HIDE DEF answer
  <2> QED
    BY <1>4, <1>5, <1>6, <2>1 DEF AnswersAboutMemory, SaveAnswers
<1> QED
  BY <1>7, <1>8, <1>9, <1>10 DEF ImageInv

LEMMA RestoreInv ==
  ASSUME ImageInv, Restore
  PROVE  ImageInv'
<1> DEFINE content == disk.content
           saved(w) == EffectiveWord(disk.meant, w, disk.minutes)
           answer == IF Len(content) < MemWords THEN "ok" ELSE "error"
<1>1. /\ mem' = Restored(content, mem) /\ Did("restore", answer)
      /\ pc' = pc /\ scan' = scan /\ file' = file /\ tape' = tape /\ disk' = disk
  BY DEF Restore
<1>2. ImageTyped /\ content \in Seq(Word) /\ mem \in Memory
  BY DEF ImageInv, ImageTyped
<1>3. /\ MemWords \in Nat /\ Len(content) \in Nat /\ Len(content) <= MemWords
      /\ \A i \in 1 .. Len(content) : content[i] = saved(i - 1)
  <2>1. MemWords \in Nat /\ Len(content) \in Nat
    <3>1. MemWords \in Nat
      BY SizesTyped
    <3>2. Len(content) \in Nat
      <4> HIDE DEF content
      <4> QED
        BY <1>2
    <3> QED
      BY <3>1, <3>2
  <2>2. /\ Len(content) <= MemWords
        /\ \A i \in 1 .. Len(content) : content[i] = saved(i - 1)
    BY DEF ImageInv, DiskTrue
  <2> QED
    BY <2>1, <2>2
<1> HIDE DEF saved
<1>4. /\ mem' \in Memory
      /\ \A w \in WordAddrs : mem'[w] = IF w < Len(content) THEN saved(w) ELSE mem[w]
  <2>1. ASSUME NEW w \in WordAddrs, w < Len(content)
        PROVE  content[w + 1] \in Word /\ content[w + 1] = saved(w)
    <3>1. w + 1 \in 1 .. Len(content) /\ (w + 1) - 1 = w
      <4>1. PICK n \in Nat, m \in Nat : n = Len(content) /\ m = w
        BY <1>3, SizesTyped
      <4> HIDE DEF content
      <4>2. m < n
        BY <2>1, <4>1
      <4> QED
        BY <4>1, <4>2
    <3> QED
      BY <1>2, <1>3, <3>1
  <2>2. mem' = [w \in WordAddrs |-> IF w < Len(content) THEN content[w + 1] ELSE mem[w]]
    BY <1>1 DEF Restored
  <2> QED
    BY <1>2, <2>1, <2>2 DEF Memory
<1>5. answer = "error" <=> Len(content) = MemWords
  BY <1>3
<1>6. /\ done'.command = "restore" /\ done'.answer = answer /\ done'.mem = mem
      /\ done' \in DoneType
  <2>1. answer \in {"ok", "error"}
    OBVIOUS
  <2> HIDE DEF answer
  <2> QED
    BY <1>1, <1>2, <2>1, DidTyped DEF Commands
<1>7. ImageTyped'
  BY <1>1, <1>2, <1>4, <1>6 DEF ImageTyped
<1>8. Gathered' /\ DiskTrue'
  BY <1>1 DEF ImageInv, Gathered, DiskTrue
<1> HIDE DEF answer
<1>9. RestoreAnswers'
  <2>1. ASSUME NEW w \in WordAddrs
        PROVE  mem'[w] = CASE w >= Len(disk'.content) -> done'.mem[w]
                           [] w < Len(disk'.content) /\ w = WallClockAddress -> disk'.minutes
                           [] OTHER -> disk'.meant[w]
    <3>1. PICK n \in Nat, m \in Nat : n = Len(content) /\ m = w
      BY <1>3, SizesTyped
    <3>2. disk'.content = content /\ disk'.minutes = disk.minutes /\ disk'.meant = disk.meant
      BY <1>1
    <3>3. CASE m >= n
      BY <1>4, <1>6, <3>1, <3>2, <3>3
    <3>4. CASE m < n /\ w = WallClockAddress
      BY <1>4, <3>1, <3>2, <3>4 DEF saved, EffectiveWord
    <3>5. CASE m < n /\ w # WallClockAddress
      BY <1>4, <3>1, <3>2, <3>5 DEF saved, EffectiveWord
    <3> QED
      BY <3>3, <3>4, <3>5
  <2>2. done'.answer = "error" <=> Len(disk'.content) = MemWords
    BY <1>1, <1>5, <1>6
  <2> QED
    BY <2>1, <2>2 DEF RestoreAnswers
<1>10. AnswersAboutMemory'
  BY <1>6, <1>9 DEF AnswersAboutMemory
<1> QED
  BY <1>7, <1>8, <1>10 DEF ImageInv

\* The words of a dep that reach memory are those in front of the first invalid one.
LEMMA ValidMeans ==
  ASSUME NEW list \in Seq(Word \cup {Invalid})
  PROVE  /\ Valid(list) \in Seq(Word)
         /\ 1 .. Len(Valid(list)) = {i \in DOMAIN list : \A j \in 1 .. i : list[j] # Invalid}
         /\ \A i \in 1 .. Len(Valid(list)) : Valid(list)[i] = list[i]
         /\ Valid(list) = list <=> 1 .. Len(Valid(list)) = DOMAIN list
<1> DEFINE bad == {i \in DOMAIN list : list[i] = Invalid}
<1>1. bad \in SUBSET Nat /\ bad \subseteq 1 .. Len(list) /\ DOMAIN list = 1 .. Len(list)
  OBVIOUS
<1>2. Len(list) \in Nat
  OBVIOUS
<1>3. CASE bad = {}
  <2>1. \A i \in 1 .. Len(list) : list[i] \in Word /\ list[i] # Invalid
    BY <1>3
  <2>2. Valid(list) = list
    BY <1>3 DEF Valid
  <2>3. list \in Seq(Word)
    BY <2>1
  <2>4. 1 .. Len(list) = {i \in DOMAIN list : \A j \in 1 .. i : list[j] # Invalid}
    BY <1>1, <1>2, <2>1
  <2> QED
    BY <1>1, <2>2, <2>3, <2>4
<1>4. CASE bad # {}
  <2> HIDE DEF bad
  <2>1. PICK m \in 1 .. Len(list) : m = Min(bad) /\ m \in bad /\ \A y \in bad : m <= y
    BY <1>1, <1>4, LeastOf
  <2>2. Valid(list) = SubSeq(list, 1, m - 1)
    BY <1>4, <2>1 DEF Valid, bad
  <2>3. \A i \in 1 .. m - 1 : i \in 1 .. Len(list) /\ list[i] \in Word /\ list[i] # Invalid
    <3> TAKE i \in 1 .. m - 1
    <3>1. i \in 1 .. Len(list) /\ i \notin bad
      BY <2>1
    <3>2. list[i] # Invalid
      BY <3>1 DEF bad
    <3> QED
      BY <3>1, <3>2
  <2>4. /\ SubSeq(list, 1, m - 1) \in Seq(Word) /\ Len(SubSeq(list, 1, m - 1)) = m - 1
        /\ \A i \in 1 .. m - 1 : SubSeq(list, 1, m - 1)[i] = list[i]
    BY <2>1, <2>3, SubSeqProperties
  <2>5. list[m] = Invalid
    BY <2>1 DEF bad
  <2>6. 1 .. m - 1 = {i \in DOMAIN list : \A j \in 1 .. i : list[j] # Invalid}
    <3>1. ASSUME NEW i \in 1 .. Len(list), \A j \in 1 .. i : list[j] # Invalid
          PROVE  i \in 1 .. m - 1
      <4>1. m \notin 1 .. i
        BY <2>5, <3>1
      <4> QED
        BY <1>2, <2>1, <4>1
    <3>2. ASSUME NEW i \in 1 .. m - 1
          PROVE  i \in 1 .. Len(list) /\ \A j \in 1 .. i : list[j] # Invalid
      <4>1. \A j \in 1 .. i : j \in 1 .. m - 1
        BY <2>1
      <4> QED
        BY <2>3, <4>1
    <3> QED
      BY <1>1, <3>1, <3>2
  <2>7. Valid(list) # list /\ m \in 1 .. Len(list) /\ m \notin 1 .. m - 1
    <3>1. m - 1 # Len(list)
      BY <1>2, <2>1
    <3> QED
      BY <2>1, <2>2, <2>4, <3>1
  <2> QED
    BY <1>1, <2>2, <2>4, <2>6, <2>7
<1> QED
  BY <1>3, <1>4

\* The words, of the first k, that go to the address w.
LandingBy(start, k, w) == {i \in 1 .. k : (start + i - 1) % MemWords = w}

LEMMA LandingOneMore ==
  ASSUME NEW start \in WordAddrs, NEW k \in Nat, NEW w \in WordAddrs
  PROVE  /\ (start + (k + 1) - 1) % MemWords = w =>
              LandingBy(start, k + 1, w) # {} /\ Max(LandingBy(start, k + 1, w)) = k + 1
         /\ (start + (k + 1) - 1) % MemWords # w =>
              LandingBy(start, k + 1, w) = LandingBy(start, k, w)
<1> DEFINE at(i) == (start + i - 1) % MemWords
           more == LandingBy(start, k + 1, w)
<1>1. /\ more = {i \in 1 .. k + 1 : at(i) = w}
      /\ LandingBy(start, k, w) = {i \in 1 .. k : at(i) = w}
  BY DEF LandingBy
<1> HIDE DEF at
<1>2. ASSUME at(k + 1) = w
      PROVE  more # {} /\ Max(more) = k + 1
  <2>1. more \in SUBSET Nat /\ k + 1 \in more /\ \A m \in more : m <= k + 1
    BY <1>1, <1>2
  <2> HIDE DEF more
  <2>2. Max(more) = k + 1
    BY <2>1, GreatestIs
  <2> QED
    BY <2>1, <2>2
<1>3. ASSUME at(k + 1) # w
      PROVE  more = LandingBy(start, k, w)
  <2>1. \A i \in 1 .. k + 1 : i \in 1 .. k \/ i = k + 1
    OBVIOUS
  <2>2. 1 .. k \subseteq 1 .. k + 1
    OBVIOUS
  <2> HIDE DEF more
  <2> QED
    BY <1>1, <1>3, <2>1, <2>2
<1> QED
  BY <1>2, <1>3 DEF at, more

\* After a dep each word of memory is the last one that went to it, if any did.
LEMMA DepositedMeans ==
  ASSUME mem \in Memory, NEW start \in WordAddrs, NEW words \in Seq(Word)
  PROVE  /\ Deposited(start, words) \in Memory
         /\ \A w \in WordAddrs :
              LET landing == LandingBy(start, Len(words), w)
              IN  Deposited(start, words)[w] = IF landing = {} THEN mem[w] ELSE words[Max(landing)]
<1> DEFINE n == Len(words)
           at(k) == (start + k - 1) % MemWords
           g == [k \in 1 .. n |-> [m \in Memory |-> [m EXCEPT ![at(k)] = words[k]]]]
           after == CHOOSE f : f = [k \in 0 .. n |->
                      IF k = 0 THEN mem ELSE [f[k - 1] EXCEPT ![at(k)] = words[k]]]
           last(k, w) == LET landing == LandingBy(start, k, w)
                         IN  IF landing = {} THEN mem[w] ELSE words[Max(landing)]
<1>1. n \in Nat /\ \A k \in 1 .. n : words[k] \in Word
  OBVIOUS
<1>2. \A k \in 1 .. n, m \in Memory : [m EXCEPT ![at(k)] = words[k]] \in Memory
  BY <1>1 DEF Memory
<1>3. g \in [1 .. n -> [Memory -> Memory]]
  BY <1>2
<1>4. \A k \in 1 .. n, m \in Memory : g[k][m] = [m EXCEPT ![at(k)] = words[k]]
  OBVIOUS
<1>5. Deposited(start, words) = after[n]
  BY DEF Deposited
<1>6. \A k \in 1 .. n : at(k) \in WordAddrs
  <2> TAKE k \in 1 .. n
  <2>1. start + k - 1 \in Int /\ MemWords \in Nat \ {0}
    BY SizesTyped
  <2> QED
    BY <2>1, Division DEF WordAddrs
<1>7. \A w \in WordAddrs : last(0, w) = mem[w]
  BY DEF LandingBy
<1>8. ASSUME NEW k \in 0 .. n - 1, NEW w \in WordAddrs
      PROVE  last(k + 1, w) = IF at(k + 1) = w THEN words[k + 1] ELSE last(k, w)
  <2>1. k \in Nat
    BY <1>1
  <2> QED
    BY <2>1, LandingOneMore
<1> HIDE DEF n, g, at, last
<1>9. PICK e \in [0 .. n -> Memory] : IsIterate(e, n, mem, g)
  BY <1>1, <1>3, IterateExists
<1>10. ASSUME NEW f, f = [k \in 0 .. n |-> IF k = 0 THEN mem ELSE [f[k - 1] EXCEPT ![at(k)] = words[k]]]
      PROVE  f[n] \in Memory /\ \A w \in WordAddrs : f[n][w] = last(n, w)
  <2> DEFINE P == {k \in 0 .. n : f[k] \in Memory /\ \A w \in WordAddrs : f[k][w] = last(k, w)}
  <2>1. f[0] = mem
    BY <1>1, <1>10
  <2>2. ASSUME NEW k \in 0 .. n - 1, k \in P PROVE k + 1 \in P
    <3>1. k + 1 \in 0 .. n /\ k + 1 \in 1 .. n /\ k + 1 # 0 /\ (k + 1) - 1 = k
      BY <1>1
    <3>2. f[k + 1] = [f[k] EXCEPT ![at(k + 1)] = words[k + 1]]
      BY <1>10, <3>1
    <3>3. f[k] \in Memory /\ \A w \in WordAddrs : f[k][w] = last(k, w)
      BY <2>2
    <3>4. f[k + 1] \in Memory
      BY <1>2, <3>1, <3>2, <3>3
    <3>5. ASSUME NEW w \in WordAddrs PROVE f[k + 1][w] = last(k + 1, w)
      <4>1. f[k + 1][w] = IF at(k + 1) = w THEN words[k + 1] ELSE f[k][w]
        BY <1>6, <3>1, <3>2, <3>3 DEF Memory
      <4> QED
        BY <1>8, <3>3, <4>1
    <3> QED
      BY <3>1, <3>4, <3>5
  <2>3. 0 \in P
    BY <1>1, <1>7, <2>1
  <2>4. 0 .. n \subseteq P
    <3> HIDE DEF P
    <3> QED
      BY <1>1, <2>2, <2>3, UpTo
  <2> QED
    BY <1>1, <2>4
<1>11. e = [k \in 0 .. n |-> IF k = 0 THEN mem ELSE [e[k - 1] EXCEPT ![at(k)] = words[k]]]
  <2>1. ASSUME NEW k \in 0 .. n
        PROVE  e[k] = IF k = 0 THEN mem ELSE [e[k - 1] EXCEPT ![at(k)] = words[k]]
    <3>1. CASE k = 0
      BY <1>9, <3>1 DEF IsIterate
    <3>2. CASE k # 0
      <4>1. k \in 1 .. n /\ k - 1 \in 0 .. n
        BY <1>1, <3>2
      <4>2. e[k] = g[k][e[k - 1]] /\ e[k - 1] \in Memory
        BY <1>9, <4>1 DEF IsIterate
      <4> QED
        BY <1>4, <3>2, <4>1, <4>2
    <3> QED
      BY <3>1, <3>2
  <2> QED
    BY <2>1
<1>12. after = [k \in 0 .. n |-> IF k = 0 THEN mem ELSE [after[k - 1] EXCEPT ![at(k)] = words[k]]]
  BY <1>11
<1> HIDE DEF after
<1>13. after[n] \in Memory /\ \A w \in WordAddrs : after[n][w] = last(n, w)
  BY <1>10, <1>12
<1> QED
  BY <1>5, <1>13 DEF last, n

LEMMA DepositInv ==
  ASSUME ImageInv, NEW start \in WordAddrs, NEW list \in DepositLists, Deposit(start, list)
  PROVE  ImageInv'
<1> DEFINE answer == IF list # <<>> /\ Valid(list) = list THEN "ok" ELSE "error"
           sound == {i \in DOMAIN list : \A j \in 1 .. i : list[j] # Invalid}
<1>1. /\ mem' = Deposited(start, Valid(list)) /\ DidWith("dep", answer, start, list)
      /\ pc' = pc /\ scan' = scan /\ file' = file /\ tape' = tape /\ disk' = disk
  BY DEF Deposit
<1>2. ImageTyped /\ mem \in Memory /\ list \in Seq(Word \cup {Invalid})
  BY ImageConstantsAssumption DEF ImageInv, ImageTyped
<1>3. PICK words \in Seq(Word) :
        /\ words = Valid(list) /\ sound = 1 .. Len(words)
        /\ \A i \in 1 .. Len(words) : words[i] = list[i]
        /\ Valid(list) = list <=> sound = DOMAIN list
  BY <1>2, ValidMeans
<1>4. /\ mem' \in Memory
      /\ \A w \in WordAddrs :
           LET landing == LandingBy(start, Len(words), w)
           IN  mem'[w] = IF landing = {} THEN mem[w] ELSE words[Max(landing)]
  BY <1>1, <1>2, <1>3, DepositedMeans
<1>5. answer = "ok" <=> sound # {} /\ sound = DOMAIN list
  <2>1. list = <<>> <=> DOMAIN list = {}
    BY <1>2
  <2> HIDE DEF sound
  <2> QED
    BY <1>3, <2>1
<1>6. /\ done'.command = "dep" /\ done'.answer = answer /\ done'.mem = mem
      /\ done'.start = start /\ done'.list = list
      /\ done' \in DoneType
  <2>1. answer \in {"ok", "error"}
    OBVIOUS
  <2> HIDE DEF answer
  <2> QED
    BY <1>1, <1>2, <2>1, DoneTyped DEF Commands
<1> HIDE DEF answer
<1>7. ImageTyped'
  BY <1>1, <1>2, <1>4, <1>6 DEF ImageTyped
<1>8. Gathered' /\ DiskTrue'
  BY <1>1 DEF ImageInv, Gathered, DiskTrue
<1>9. DepAnswers'
  <2>1. SoundWords' = sound
    BY <1>6 DEF SoundWords
  <2> HIDE DEF sound
  <2>2. ASSUME NEW w \in WordAddrs
        PROVE  /\ Landing(w)' = LandingBy(start, Len(words), w)
               /\ mem'[w] = IF Landing(w)' = {} THEN done'.mem[w] ELSE done'.list[Max(Landing(w)')]
    <3>1. Landing(w)' = LandingBy(start, Len(words), w)
      BY <1>3, <1>6, <2>1 DEF Landing, LandingBy
    <3>2. PICK landing : landing = LandingBy(start, Len(words), w)
      OBVIOUS
    <3>3. mem'[w] = IF landing = {} THEN mem[w] ELSE words[Max(landing)]
      BY <1>4, <3>2
    <3>4. ASSUME landing # {} PROVE words[Max(landing)] = list[Max(landing)]
      <4>1. Len(words) \in Nat /\ landing \subseteq 1 .. Len(words)
        BY <3>2 DEF LandingBy
      <4>2. PICK bound \in Nat : bound = Len(words) + 1
        BY <4>1
      <4>3. landing \in SUBSET Nat /\ \A i \in landing : i < bound
        BY <4>1, <4>2
      <4>4. Max(landing) \in landing
        BY <3>4, <4>2, <4>3, GreatestOfBounded
      <4> QED
        BY <1>3, <4>1, <4>4
    <3> QED
      BY <1>6, <3>1, <3>2, <3>3, <3>4
  <2> QED
    BY <1>5, <1>6, <2>1, <2>2 DEF DepAnswers
<1>10. AnswersAboutMemory'
  BY <1>6, <1>9 DEF AnswersAboutMemory
<1> QED
  BY <1>7, <1>8, <1>10 DEF ImageInv

LEMMA ImageNextInv ==
  ASSUME ImageInv, [ImageNext]_imageVars
  PROVE  ImageInv'
<1>1. CASE UNCHANGED imageVars
  BY <1>1, AnswersKept DEF imageVars, ImageInv, ImageTyped, Gathered, DiskTrue
<1> QED
  BY <1>1, ReadLineInv, ReadInv, CloseFileInv, SaveInv, RestoreInv, DepositInv DEF ImageNext

LEMMA ImageInvHolds == ImageSpec => []ImageInv
<1>1. ImageInv /\ [ImageNext]_imageVars => ImageInv'
  BY ImageNextInv
<1> QED
  BY ImageInitInv, <1>1, PTL DEF ImageSpec

LEMMA ImageInvTyped == ImageInv => ImageTypeOK
  BY DEF ImageInv, ImageTyped, DiskTrue, ImageTypeOK, Memory, Scan, Given, Bytes

\* Memory, PC, what the loaders gather, the raw image and the tape record keep
\* their types: no file, however malformed, writes outside memory, and no word
\* has more than twelve bits.
THEOREM ImageTypeCorrect == ImageSpec => []ImageTypeOK
  BY ImageInvTyped, ImageInvHolds, PTL

\* What read, save, restore and dep answer is true of memory and of the image,
\* for every file, every memory, wherever the word of the wall clock is and
\* whatever it shows, every number of words the library holds back, and every list
\* a dep is given.
THEOREM AnswersAreTrue == ImageSpec => []AnswersAboutMemory
<1>1. ImageInv => AnswersAboutMemory
  BY DEF ImageInv
<1> QED
  BY <1>1, ImageInvHolds, PTL

\* A loader that has gathered what the file means finds its whole words.
LEMMA WholeMeant ==
  ASSUME NEW s \in Scan, Exact(s, file), NEW w \in WordAddrs
  PROVE  /\ Whole(s.bytes, w) <=> MeantWhole(w)
         /\ MeantWhole(w) => WordOf(s.bytes, w) = MeantWord(w)
<1>1. \A a \in ByteAddrs :
        /\ Givers(a) = {} => s.bytes[a] = Absent
        /\ Givers(a) # {} => s.bytes[a] = Meant(a) /\ s.bytes[a] # Absent
  BY DEF Exact, Givers, GiversIn, Gives, Meant, MeantIn
<1>2. 2 * w \in ByteAddrs /\ 2 * w + 1 \in ByteAddrs
  BY SizesTyped
<1>3. Whole(s.bytes, w) <=> MeantWhole(w)
  BY <1>1, <1>2 DEF Whole, MeantWhole
<1>4. ASSUME MeantWhole(w) PROVE WordOf(s.bytes, w) = MeantWord(w)
  <2>1. /\ s.bytes[2 * w] = Meant(2 * w) /\ s.bytes[2 * w + 1] = Meant(2 * w + 1)
        /\ s.bytes[2 * w] # Absent /\ s.bytes[2 * w + 1] # Absent
    BY <1>1, <1>2, <1>4 DEF MeantWhole
  <2>2. s.bytes[2 * w] \in Bytes /\ s.bytes[2 * w + 1] \in Bytes
    BY <1>2, <2>1 DEF Scan, Given
  <2>3. PICK lo \in Nat, hi \in Nat : lo = s.bytes[2 * w] /\ hi = s.bytes[2 * w + 1]
    <3>1. \A b \in Bytes : b \in Nat
      BY DEF Bytes
    <3> QED
      BY <2>2, <3>1
  <2>4. (hi % 16) * 256 + lo = lo + 256 * (hi % 16)
    OBVIOUS
  <2> QED
    BY <2>1, <2>3, <2>4 DEF WordOf, MeantWord
<1> QED
  BY <1>3, <1>4

\* Of every proper file, of any length and for any memory, the three loaders make
\* the same memory: the one the last record for each byte gives, and the tape
\* record holds its whole words in ascending order.
THEOREM LoadersAgree == ImageSpec => []LoadersExact
<1>1. ImageInv => LoadersExact
  <2> SUFFICES ASSUME ImageInv, Proper PROVE LoadersExact
    BY DEF LoadersExact
  <2> DEFINE whole == {w \in WordAddrs : MeantWhole(w)}
  <2>1. /\ \A p \in Loaders : scan[p] \in Scan
        /\ mem \in Memory
    BY DEF ImageInv, ImageTyped
  <2>2. /\ \A p \in Loaders : Exact(scan[p], file)
        /\ scan["monitor"].start = scan["pdp8v"].start
    <3>1. \A i \in DOMAIN file : ProperLine(file[i])
      BY DEF Proper, ProperLine
    <3> QED
      BY <3>1 DEF ImageInv, Gathered
  <2>3. \A p \in Loaders, w \in WordAddrs :
          /\ Whole(scan[p].bytes, w) <=> MeantWhole(w)
          /\ MeantWhole(w) => WordOf(scan[p].bytes, w) = MeantWord(w)
    BY <2>1, <2>2, WholeMeant
  <2>4. \A p \in Loaders : WholeAddrs(scan[p].bytes) = whole
    BY <2>3 DEF WholeAddrs
  <2>5. \A p \in Loaders : Loads(scan[p]) <=> whole # {}
    BY <2>2, <2>4 DEF Loads, Exact
  <2>6. \A p \in Loaders, w \in WordAddrs :
          LoadedMem(scan[p], mem)[w] = IF w \in whole THEN MeantWord(w) ELSE mem[w]
    <3> TAKE p \in Loaders, w \in WordAddrs
    <3>1. LoadedMem(scan[p], mem)[w]
            = IF Loads(scan[p]) /\ Whole(scan[p].bytes, w) THEN WordOf(scan[p].bytes, w) ELSE mem[w]
      BY DEF LoadedMem
    <3>2. w \in whole <=> Loads(scan[p]) /\ Whole(scan[p].bytes, w)
      BY <2>3, <2>5
    <3>3. w \in whole => WordOf(scan[p].bytes, w) = MeantWord(w)
      BY <2>3
    <3> HIDE DEF whole
    <3> QED
      BY <3>1, <3>2, <3>3
  <2>7. LoadedPc(scan["monitor"], pc) = LoadedPc(scan["pdp8v"], pc)
    BY <2>2, <2>5 DEF LoadedPc, Loaders
  <2>8. /\ Len(TapeWords(scan["tape"])) = Cardinality(whole)
        /\ \A w \in whole :
             TapeWords(scan["tape"])[Cardinality({v \in whole : v <= w})] = MeantWord(w)
    <3>1. "tape" \in Loaders
      BY DEF Loaders
    <3>2. scan["tape"] \in Scan /\ WholeAddrs(scan["tape"].bytes) = whole
      BY <2>1, <2>4, <3>1
    <3>3. \A w \in whole : WordOf(scan["tape"].bytes, w) = MeantWord(w)
      BY <2>3, <3>1
    <3> HIDE DEF whole
    <3> QED
      BY <3>2, <3>3, TapeWordsTyped
  <2>9. \A p \in {"monitor", "pdp8v"} : p \in Loaders
    BY DEF Loaders
  <2> QED
    BY <2>5, <2>6, <2>7, <2>8, <2>9 DEF LoadersExact
<1> QED
  BY <1>1, ImageInvHolds, PTL

-----------------------------------------------------------------------------
(* The configuration.  What the first n lines say, and what the parser has  *)
(* made of them.                                                            *)

UntilLine(S, n) == {i \in S : i <= n}

LEMMA MaxIsLast ==
  ASSUME NEW S \in SUBSET Nat, NEW n \in Nat, n \in S, \A i \in S : i <= n
  PROVE  Max(S) = n
<1>1. \A i \in S : i < n + 1
  OBVIOUS
<1>2. S # {} /\ n + 1 \in Nat
  OBVIOUS
<1>3. Max(S) \in S /\ \A y \in S : Max(S) >= y
  BY <1>1, <1>2, GreatestOfBounded
<1>4. Max(S) \in Nat /\ Max(S) <= n /\ Max(S) >= n
  BY <1>3
<1> QED
  BY <1>4

LEMMA LastUntil ==
  ASSUME NEW S \in SUBSET Nat, NEW n \in Nat
  PROVE  /\ n + 1 \in S => UntilLine(S, n + 1) # {} /\ Max(UntilLine(S, n + 1)) = n + 1
         /\ n + 1 \notin S => UntilLine(S, n + 1) = UntilLine(S, n)
<1>1. ASSUME n + 1 \in S
      PROVE  UntilLine(S, n + 1) # {} /\ Max(UntilLine(S, n + 1)) = n + 1
  <2>1. UntilLine(S, n + 1) \in SUBSET Nat 
    BY <1>1 DEF UntilLine
  <2>2. n + 1 \in UntilLine(S, n + 1)
    BY <1>1 DEF UntilLine
  <2>3. \A i \in UntilLine(S, n + 1) : i <= n + 1
    BY <1>1 DEF UntilLine
  <2> QED
    BY <2>1, <2>2, <2>3, MaxIsLast
<1>2. ASSUME n + 1 \notin S PROVE UntilLine(S, n + 1) = UntilLine(S, n)
  <2>1. \A i \in S : i <= n + 1 <=> i <= n
    BY <1>2
  <2> QED
    BY <2>1 DEF UntilLine
<1> QED
  BY <1>1, <1>2

FileIsLines == lines \in Seq(ConfigLine)

Kinds == {"open", "close", "other", "set"}

LEMMA LineKinds ==
  ASSUME FileIsLines, NEW i \in DOMAIN lines
  PROVE  /\ lines[i].kind \in Kinds
         /\ lines[i].kind = "open" => lines[i].unit \in Int
         /\ lines[i].kind = "set" => lines[i].number \in Int
<1>1. lines[i] \in ConfigLine
  BY DEF FileIsLines
<1> QED
  BY <1>1 DEF ConfigLine, Kinds

\* Where the next line stands.
LEMMA StanzaOpens ==
  ASSUME FileIsLines, NEW n \in Nat, n + 1 \in DOMAIN lines, lines[n + 1].kind = "open"
  PROVE  Inside(n + 2) /\ Stanza(n + 2) = lines[n + 1]
<1> DEFINE S == Opened(n + 2)
<1>1. S \in SUBSET Nat /\ n + 1 \in S /\ \A i \in S : i <= n + 1
  BY DEF Opened
<1> HIDE DEF S
<1>2. Max(S) = n + 1
  BY <1>1, MaxIsLast
<1>3. Between(n + 2) = {}
  BY <1>2 DEF Between, S
<1> QED
  BY <1>1, <1>2, <1>3 DEF Inside, Stanza, S

LEMMA OpenedStays ==
  ASSUME FileIsLines, NEW n \in Nat, n + 1 \in DOMAIN lines, lines[n + 1].kind # "open"
  PROVE  Opened(n + 2) = Opened(n + 1)
  BY DEF Opened

LEMMA LastOpened ==
  ASSUME NEW n \in Nat, Opened(n) # {}
  PROVE  Max(Opened(n)) \in 1 .. n - 1
<1> DEFINE S == Opened(n)
<1>1. S \in SUBSET Nat /\ \A i \in S : i < n
  BY DEF Opened
<1>2. S \in SUBSET (1 .. n - 1)
  BY DEF Opened
<1> HIDE DEF S
<1>3. Max(S) \in S
  BY <1>1, GreatestOfBounded DEF S
<1> QED
  BY <1>2, <1>3 DEF S

LEMMA StanzaCloses ==
  ASSUME FileIsLines, NEW n \in Nat, n + 1 \in DOMAIN lines, lines[n + 1].kind = "close"
  PROVE  ~Inside(n + 2)
<1> SUFFICES ASSUME Opened(n + 2) # {} PROVE Between(n + 2) # {}
  BY DEF Inside
<1>1. Opened(n + 2) = Opened(n + 1)
  BY OpenedStays
<1>2. Max(Opened(n + 1)) \in 1 .. (n + 1) - 1
  BY <1>1, LastOpened
<1>3. n + 1 \in Max(Opened(n + 2)) + 1 .. (n + 2) - 1
  BY <1>1, <1>2
<1> QED
  BY <1>3 DEF Between

LEMMA StanzaGoesOn ==
  ASSUME FileIsLines, NEW n \in Nat, n + 1 \in DOMAIN lines,
         lines[n + 1].kind \in {"set", "other"}
  PROVE  (Inside(n + 2) <=> Inside(n + 1)) /\ Stanza(n + 2) = Stanza(n + 1)
<1>1. Opened(n + 2) = Opened(n + 1)
  BY OpenedStays
<1>2. ASSUME Opened(n + 1) # {} PROVE Between(n + 2) = Between(n + 1)
  <2>1. PICK m \in Nat : m = Max(Opened(n + 1))
    BY <1>2, LastOpened
  <2>2. \A j \in m + 1 .. (n + 2) - 1 : j \in m + 1 .. (n + 1) - 1 \/ j = n + 1
    BY <2>1
  <2>3. m + 1 .. (n + 1) - 1 \subseteq m + 1 .. (n + 2) - 1
    BY <2>1
  <2> QED
    BY <1>1, <2>1, <2>2, <2>3 DEF Between
<1> QED
  BY <1>1, <1>2 DEF Inside, Stanza

\* What the file says up to line n.
SaysUntil(n, k) ==
  LET there == UntilLine(SettingLines(k[1], k[2]), n)
  IN  IF there = {} THEN DefaultSettings[k] ELSE Value(lines[Max(there)])

LEMMA SaysNext ==
  ASSUME NEW n \in Nat, NEW k, FileIsLines
  PROVE  /\ n + 1 \in SettingLines(k[1], k[2]) => SaysUntil(n + 1, k) = Value(lines[n + 1])
         /\ n + 1 \notin SettingLines(k[1], k[2]) => SaysUntil(n + 1, k) = SaysUntil(n, k)
<1> DEFINE S == SettingLines(k[1], k[2])
<1>1. S \in SUBSET Nat
  BY DEF SettingLines, FileIsLines
<1> HIDE DEF S
<1>2. /\ n + 1 \in S => UntilLine(S, n + 1) # {} /\ Max(UntilLine(S, n + 1)) = n + 1
      /\ n + 1 \notin S => UntilLine(S, n + 1) = UntilLine(S, n)
  BY <1>1, LastUntil
<1> QED
  BY <1>2 DEF SaysUntil, S

LEMMA UnitSaysNext ==
  ASSUME NEW n \in Nat, NEW u, NEW key, FileIsLines
  PROVE  /\ n + 1 \in UnitLines(u, key)
              => /\ UntilLine(UnitLines(u, key), n + 1) # {}
                 /\ Max(UntilLine(UnitLines(u, key), n + 1)) = n + 1
         /\ n + 1 \notin UnitLines(u, key)
              => UntilLine(UnitLines(u, key), n + 1) = UntilLine(UnitLines(u, key), n)
<1>1. UnitLines(u, key) \in SUBSET Nat
  BY DEF UnitLines, FileIsLines
<1> QED
  BY <1>1, LastUntil

\* A path is what the file says, nothing yet, or one of the two defaults.
Paths == STRING \cup {"none", "demo", "magtape"}

SlotShape == [unit : Int, present : BOOLEAN, path : Paths, protected : BOOLEAN]

StanzaShape == [device : STRING \cup {Outside.device, "magtape"}, slot : Nat]

ConfigFields == {"settings", "present", "slots", "stanza", "read", "loaded"}

ConfigShape(c) ==
  /\ DOMAIN c = ConfigFields
  /\ DOMAIN c.settings = Settings
  /\ c.slots \in Seq(SlotShape)
  /\ c.stanza \in StanzaShape
  /\ c.read \in Nat

\* Each setting is what the last line that set it says, ...
SettingsTrue(c, n) == \A k \in Settings : c.settings[k] = SaysUntil(n, k)

\* ... a stanza was present if a line in it has set anything, ...
AskedUntil(n, device) == \E i \in DOMAIN lines :
  i <= n /\ lines[i].kind = "set" /\ Inside(i) /\ Stanza(i).device = device

PresentTrue(c, n) == \A device :
  device \notin {Outside.device, "magtape"} => (device \in c.present <=> AskedUntil(n, device))

\* ... and the parser is in the stanza the next line is in; a tape unit without a
\* slot did not find one free.
Full(c) == Len(c.slots) >= MaxUnits

StanzaTrue(c, n) ==
  /\ c.stanza.device = IF Inside(n + 1) THEN Stanza(n + 1).device ELSE Outside.device
  /\ c.stanza.slot \in 0 .. Len(c.slots)
  /\ c.stanza.device # "magtape" => c.stanza.slot = 0
  /\ c.stanza.device = "magtape" /\ c.stanza.slot # 0 =>
       c.slots[c.stanza.slot].unit = Stanza(n + 1).unit
  /\ c.stanza.device = "magtape" /\ c.stanza.slot = 0 =>
       Full(c) /\ \A s \in DOMAIN c.slots : c.slots[s].unit # Stanza(n + 1).unit

\* A unit has one slot, which holds the last word of the file on it.
OneSlotEach(c) == \A s, t \in DOMAIN c.slots : c.slots[s].unit = c.slots[t].unit => s = t

SlotSays(slot, n) ==
  LET paths == UntilLine(UnitLines(slot.unit, "path"), n)
      flags == UntilLine(UnitLines(slot.unit, "write_protected"), n)
  IN  /\ slot.path = IF paths = {} THEN "none" ELSE lines[Max(paths)].text
      /\ slot.protected <=> flags # {} /\ lines[Max(flags)].flag = "true"

SlotsTrue(c, n) == \A s \in DOMAIN c.slots : SlotSays(c.slots[s], n)

\* A unit some line spoke of has a slot, or all are taken: so that nothing has
\* been said of a unit that gets its slot now.
NoneForgotten(c, n) == \A i \in DOMAIN lines :
  i <= n /\ lines[i].kind = "set" /\ Inside(i) /\ Stanza(i).device = "magtape" =>
    Full(c) \/ \E s \in DOMAIN c.slots : c.slots[s].unit = Stanza(i).unit

ReadTrue(c, n) ==
  /\ SettingsTrue(c, n) /\ PresentTrue(c, n) /\ StanzaTrue(c, n)
  /\ OneSlotEach(c) /\ SlotsTrue(c, n) /\ NoneForgotten(c, n)

\* A line that sets nothing changes nothing that was said.
LEMMA NothingSaid ==
  ASSUME FileIsLines, NEW n \in Nat, n + 1 \in DOMAIN lines, lines[n + 1].kind # "set"
  PROVE  /\ \A k \in Settings : SaysUntil(n + 1, k) = SaysUntil(n, k)
         /\ \A device : AskedUntil(n + 1, device) <=> AskedUntil(n, device)
         /\ \A u, key : UntilLine(UnitLines(u, key), n + 1) = UntilLine(UnitLines(u, key), n)
         /\ \A slot : SlotSays(slot, n + 1) <=> SlotSays(slot, n)
<1>1. \A k \in Settings : SaysUntil(n + 1, k) = SaysUntil(n, k)
  <2>1. \A k : n + 1 \notin SettingLines(k[1], k[2])
    BY DEF SettingLines
  <2> QED
    BY <2>1, SaysNext
<1>2. \A device : AskedUntil(n + 1, device) <=> AskedUntil(n, device)
  <2>1. \A i \in DOMAIN lines : lines[i].kind = "set" => (i <= n + 1 <=> i <= n)
    BY DEF FileIsLines
  <2> QED
    BY <2>1 DEF AskedUntil
<1>3. \A u, key : UntilLine(UnitLines(u, key), n + 1) = UntilLine(UnitLines(u, key), n)
  <2>1. \A u, key : n + 1 \notin UnitLines(u, key)
    BY DEF UnitLines
  <2> QED
    BY <2>1, UnitSaysNext
<1>4. \A slot : SlotSays(slot, n + 1) <=> SlotSays(slot, n)
  BY <1>3 DEF SlotSays
<1> QED
  BY <1>1, <1>2, <1>3, <1>4

LEMMA NoneForgottenNext ==
  ASSUME FileIsLines, NEW n \in Nat, n + 1 \in DOMAIN lines, NEW c, NEW d,
         NoneForgotten(c, n), Full(c) => Full(d),
         \A s \in DOMAIN c.slots : s \in DOMAIN d.slots /\ d.slots[s].unit = c.slots[s].unit,
         lines[n + 1].kind = "set" /\ Inside(n + 1) /\ Stanza(n + 1).device = "magtape" =>
           Full(d) \/ \E s \in DOMAIN d.slots : d.slots[s].unit = Stanza(n + 1).unit
  PROVE  NoneForgotten(d, n + 1)
<1> SUFFICES ASSUME NEW i \in DOMAIN lines, i <= n + 1, lines[i].kind = "set",
                    Inside(i), Stanza(i).device = "magtape"
             PROVE  Full(d) \/ \E s \in DOMAIN d.slots : d.slots[s].unit = Stanza(i).unit
  BY DEF NoneForgotten
<1>1. CASE i = n + 1
  BY <1>1
<1>2. CASE i # n + 1
  <2>1. i <= n
    BY <1>2 DEF FileIsLines
  <2> QED
    BY <2>1 DEF NoneForgotten
<1> QED
  BY <1>1, <1>2

Named == {"line_printer", "kl8e_console", "paper_tape", "paper_tape_punch", "watchdog"}

LEMMA NoName ==
  Outside.device # "magtape" /\ Outside.device \notin Named
BY Zenon DEF Outside, Named

LEMMA SettingPairs ==
  ASSUME NEW k \in Settings
  PROVE  k = <<k[1], k[2]>> /\ k[1] \in Named /\ k[1] # "magtape" /\ k[1] # Outside.device
<1> SUFFICES k = <<k[1], k[2]>> /\ k[1] \in Named
  BY NoName DEF Named
<1>1. CASE k \in TextKeys
  BY <1>1 DEF TextKeys, Named
<1>2. CASE k \in FlagKeys
  BY <1>2 DEF FlagKeys, Named
<1>3. CASE k \in NumberKeys
  BY <1>3 DEF NumberKeys, Named
<1> QED
  BY <1>1, <1>2, <1>3 DEF Settings

LEMMA NoStanza ==
  /\ Outside \in StanzaShape /\ Outside.slot = 0
  /\ \A s \in StanzaShape : s.device = Outside.device /\ s.slot = 0 => s = Outside
<1>1. Outside \in StanzaShape /\ Outside.slot = 0
  BY DEF Outside, StanzaShape
<1>2. ASSUME NEW s \in StanzaShape, s.device = Outside.device, s.slot = 0 PROVE s = Outside
  <2>1. s = [device |-> s.device, slot |-> s.slot]
    BY DEF StanzaShape
  <2> QED
    BY <1>2, <2>1 DEF Outside
<1> QED
  BY <1>1, <1>2

\* The parser's answer to a line, case by case.
LineDone(c, line, d) ==
  /\ d = AfterConfigLine(c, line)
  /\ ConfigShape(d) /\ d.read = c.read /\ d.loaded = c.loaded

Ready(c, n) ==
  /\ FileIsLines /\ Orderly /\ n \in Nat /\ n + 1 \in DOMAIN lines
  /\ ConfigShape(c) /\ ReadTrue(c, n)

LEMMA IsOutside ==
  ASSUME NEW c, NEW n, Ready(c, n)
  PROVE  c.stanza = Outside <=> c.stanza.device = Outside.device
<1>1. c.stanza \in StanzaShape /\ (c.stanza.device # "magtape" => c.stanza.slot = 0)
  BY DEF Ready, ConfigShape, ReadTrue, StanzaTrue
<1> QED
  BY <1>1, NoStanza, NoName

\* Nothing changes.
LEMMA LineIgnored ==
  ASSUME NEW c, NEW n, Ready(c, n), NEW line, line = lines[n + 1],
         \/ line.kind = "other"
         \/ line.kind = "close" /\ c.stanza = Outside
         \/ line.kind = "set" /\ c.stanza.slot = 0
              /\ (c.stanza = Outside \/ c.stanza.device = "magtape")
  PROVE  LineDone(c, line, c)
<1>1. c.stanza = Outside => c.stanza.slot = 0
  BY NoStanza
<1>2. c = AfterConfigLine(c, line)
  BY <1>1 DEF AfterConfigLine
<1> QED
  BY <1>2 DEF LineDone, Ready

LEMMA OtherLine ==
  ASSUME NEW c, NEW n, Ready(c, n), lines[n + 1].kind = "other"
  PROVE  ReadTrue(c, n + 1)
<1>1. FileIsLines /\ n \in Nat /\ n + 1 \in DOMAIN lines /\ ReadTrue(c, n)
  BY DEF Ready
<1>2. (Inside(n + 2) <=> Inside(n + 1)) /\ Stanza(n + 2) = Stanza(n + 1)
  BY <1>1, StanzaGoesOn
<1>3. /\ \A k \in Settings : SaysUntil(n + 1, k) = SaysUntil(n, k)
      /\ \A device : AskedUntil(n + 1, device) <=> AskedUntil(n, device)
      /\ \A slot : SlotSays(slot, n + 1) <=> SlotSays(slot, n)
  BY <1>1, NothingSaid
<1>4. NoneForgotten(c, n + 1)
  BY <1>1, NoneForgottenNext DEF ReadTrue
<1>5. (n + 1) + 1 = n + 2
  BY <1>1
<1>6. SettingsTrue(c, n + 1) /\ PresentTrue(c, n + 1) /\ SlotsTrue(c, n + 1)
  BY <1>1, <1>3 DEF ReadTrue, SettingsTrue, PresentTrue, SlotsTrue
<1>7. StanzaTrue(c, n + 1)
  BY <1>1, <1>2, <1>5 DEF ReadTrue, StanzaTrue
<1> QED
  BY <1>1, <1>4, <1>6, <1>7 DEF ReadTrue

\* The end of a stanza.
LEMMA CloseLine ==
  ASSUME NEW c, NEW n, Ready(c, n), NEW line, line = lines[n + 1], line.kind = "close"
  PROVE  \E d : LineDone(c, line, d) /\ ReadTrue(d, n + 1)
<1> DEFINE d == IF c.stanza = Outside THEN c ELSE [c EXCEPT !.stanza = Outside]
<1>1. FileIsLines /\ n \in Nat /\ n + 1 \in DOMAIN lines /\ ReadTrue(c, n) /\ ConfigShape(c)
  BY DEF Ready
<1>2. /\ DOMAIN d = DOMAIN c /\ d.settings = c.settings /\ d.present = c.present
      /\ d.slots = c.slots /\ d.stanza = Outside /\ d.read = c.read /\ d.loaded = c.loaded
  BY <1>1 DEF ConfigShape, ConfigFields
<1>3. d = AfterConfigLine(c, line)
  <2>1. CASE c.stanza = Outside
    BY <2>1, LineIgnored DEF LineDone
  <2>2. CASE c.stanza # Outside
    BY <2>2 DEF AfterConfigLine
  <2> QED
    BY <2>1, <2>2
<1> HIDE DEF d
<1>4. ConfigShape(d)
  BY <1>1, <1>2, NoStanza DEF ConfigShape
<1>5. ~Inside(n + 2)
  BY <1>1, StanzaCloses
<1>6. /\ \A k \in Settings : SaysUntil(n + 1, k) = SaysUntil(n, k)
      /\ \A device : AskedUntil(n + 1, device) <=> AskedUntil(n, device)
      /\ \A slot : SlotSays(slot, n + 1) <=> SlotSays(slot, n)
  BY <1>1, NothingSaid
<1>7. NoneForgotten(d, n + 1)
  <2>1. Full(c) => Full(d)
    BY <1>2 DEF Full
  <2> QED
    BY <1>1, <1>2, <2>1, NoneForgottenNext DEF ReadTrue
<1>8. SettingsTrue(d, n + 1) /\ PresentTrue(d, n + 1) /\ SlotsTrue(d, n + 1) /\ OneSlotEach(d)
  BY <1>1, <1>2, <1>6 DEF ReadTrue, SettingsTrue, PresentTrue, SlotsTrue, OneSlotEach
<1>9. StanzaTrue(d, n + 1)
  <2>1. (n + 1) + 1 = n + 2 /\ Len(d.slots) \in Nat
    BY <1>1, <1>4 DEF ConfigShape
  <2> QED
    <3>1. d.stanza.device = Outside.device /\ d.stanza.slot = 0
      BY <1>2, NoStanza
    <3>2. d.stanza.device # "magtape"
      BY <3>1, NoName
    <3>3. d.stanza.device = IF Inside(n + 2) THEN Stanza(n + 2).device ELSE Outside.device
      BY <3>1, <1>5
    <3> QED
      BY <2>1, <3>1, <3>2, <3>3 DEF StanzaTrue
<1> QED
  BY <1>2, <1>3, <1>4, <1>7, <1>8, <1>9 DEF ReadTrue, LineDone

\* The beginning of one, given what it does with the slots.
LEMMA StanzaBegun ==
  ASSUME NEW c, NEW n, Ready(c, n), NEW line, line = lines[n + 1], line.kind = "open",
         NEW d, d = AfterConfigLine(c, line), ConfigShape(d),
         d.settings = c.settings, d.present = c.present,
         d.read = c.read, d.loaded = c.loaded,
         Full(c) => Full(d),
         \A s \in DOMAIN c.slots : s \in DOMAIN d.slots /\ d.slots[s].unit = c.slots[s].unit,
         OneSlotEach(d), SlotsTrue(d, n),
         d.stanza.device = line.device, d.stanza.slot \in 0 .. Len(d.slots),
         line.device # "magtape" => d.stanza.slot = 0,
         line.device = "magtape" /\ d.stanza.slot # 0 =>
           d.slots[d.stanza.slot].unit = line.unit,
         line.device = "magtape" /\ d.stanza.slot = 0 =>
           Full(d) /\ \A s \in DOMAIN d.slots : d.slots[s].unit # line.unit
  PROVE  LineDone(c, line, d) /\ ReadTrue(d, n + 1)
<1>1. FileIsLines /\ n \in Nat /\ n + 1 \in DOMAIN lines /\ ReadTrue(c, n)
  BY DEF Ready
<1>2. Inside(n + 2) /\ Stanza(n + 2) = line
  BY <1>1, StanzaOpens
<1>3. /\ \A k \in Settings : SaysUntil(n + 1, k) = SaysUntil(n, k)
      /\ \A device : AskedUntil(n + 1, device) <=> AskedUntil(n, device)
      /\ \A slot : SlotSays(slot, n + 1) <=> SlotSays(slot, n)
  BY <1>1, NothingSaid
<1>4. NoneForgotten(d, n + 1)
  BY <1>1, NoneForgottenNext DEF ReadTrue
<1>5. SettingsTrue(d, n + 1) /\ PresentTrue(d, n + 1) /\ SlotsTrue(d, n + 1)
  BY <1>1, <1>3 DEF ReadTrue, SettingsTrue, PresentTrue, SlotsTrue
<1>6. StanzaTrue(d, n + 1)
  <2>1. (n + 1) + 1 = n + 2
    BY <1>1
  <2> QED
    BY <1>2, <2>1 DEF StanzaTrue
<1> QED
  BY <1>4, <1>5, <1>6 DEF ReadTrue, LineDone

LEMMA OpenLine ==
  ASSUME NEW c, NEW n, Ready(c, n), NEW line, line = lines[n + 1], line.kind = "open",
         NEW d, d = AfterConfigLine(c, line)
  PROVE  LineDone(c, line, d) /\ ReadTrue(d, n + 1)
<1>1. FileIsLines /\ n \in Nat /\ n + 1 \in DOMAIN lines /\ ReadTrue(c, n) /\ ConfigShape(c)
  BY DEF Ready
<1>2. /\ line.brace /\ ~Inside(n + 1)
      /\ line.device = "magtape" => line.unit >= 0
  BY DEF Ready, Orderly
<1>3. line.device \in STRING /\ line.unit \in Int
  <2>1. line \in ConfigLine
    BY <1>1 DEF FileIsLines
  <2> QED
    BY <2>1 DEF ConfigLine
<1>4. d = Open(c, line)
  <2>1. c.stanza = Outside
    BY <1>1, <1>2, IsOutside DEF ReadTrue, StanzaTrue
  <2> QED
    BY <2>1 DEF AfterConfigLine
<1>5. OneSlotEach(c) /\ SlotsTrue(c, n)
  BY <1>1 DEF ReadTrue
<1>6. c.slots \in Seq(SlotShape) /\ Len(c.slots) \in Nat /\ DOMAIN c.slots = 1 .. Len(c.slots)
  BY <1>1 DEF ConfigShape
<1>7. CASE line.device # "magtape"
  <2>1. d = [c EXCEPT !.stanza = [device |-> line.device, slot |-> 0]]
    BY <1>2, <1>4, <1>7 DEF Open
  <2>2. /\ DOMAIN d = DOMAIN c /\ d.settings = c.settings /\ d.present = c.present
        /\ d.slots = c.slots /\ d.stanza = [device |-> line.device, slot |-> 0]
        /\ d.read = c.read /\ d.loaded = c.loaded
    BY <1>1, <2>1 DEF ConfigShape, ConfigFields
  <2>3. d.stanza \in StanzaShape /\ d.stanza.device = line.device /\ d.stanza.slot = 0
    BY <1>3, <2>2 DEF StanzaShape
  <2>4. ConfigShape(d)
    BY <1>1, <2>2, <2>3 DEF ConfigShape
  <2>5. (Full(c) => Full(d)) /\ OneSlotEach(d) /\ SlotsTrue(d, n)
    BY <1>5, <2>2 DEF Full, OneSlotEach, SlotsTrue
  <2>6. d.stanza.slot \in 0 .. Len(d.slots)
    BY <1>6, <2>2, <2>3
  <2> QED
    BY <1>7, <2>2, <2>3, <2>4, <2>5, <2>6, StanzaBegun
<1>8. CASE line.device = "magtape"
  <2> DEFINE S == SlotsOf(c, line.unit)
  <2>1. d = WithSlot(c, line.unit)
    BY <1>2, <1>4, <1>8 DEF Open
  <2>2. S \in SUBSET Nat /\ S \subseteq DOMAIN c.slots
    BY <1>6 DEF SlotsOf
  <2>3. \A s \in DOMAIN c.slots : s \in S <=> c.slots[s].unit = line.unit
    BY DEF SlotsOf
  <2>4. WithSlot(c, line.unit) =
          CASE S # {} ->
                 [c EXCEPT !.stanza = [device |-> "magtape", slot |-> Min(S)]]
            [] S = {} /\ Len(c.slots) < MaxUnits ->
                 [c EXCEPT !.slots = Append(@, NewSlot(line.unit)),
                           !.stanza = [device |-> "magtape", slot |-> Len(c.slots) + 1]]
            [] OTHER -> [c EXCEPT !.stanza = [device |-> "magtape", slot |-> 0]]
    BY DEF WithSlot
  <2> HIDE DEF S
  <2>5. CASE S # {} \/ ~(Len(c.slots) < MaxUnits)
    <3>1. PICK m \in Nat : m = (IF S # {} THEN Min(S) ELSE 0) /\ (S # {} => m \in S)
      BY <2>2, LeastOf
    <3>2. d = [c EXCEPT !.stanza = [device |-> "magtape", slot |-> m]]
      BY <2>1, <2>4, <2>5, <3>1
    <3>3. /\ DOMAIN d = DOMAIN c /\ d.settings = c.settings /\ d.present = c.present
          /\ d.slots = c.slots /\ d.stanza = [device |-> "magtape", slot |-> m]
          /\ d.read = c.read /\ d.loaded = c.loaded
      BY <1>1, <3>2 DEF ConfigShape, ConfigFields
    <3>4. d.stanza \in StanzaShape /\ d.stanza.device = line.device /\ d.stanza.slot = m
      BY <1>8, <3>1, <3>3 DEF StanzaShape
    <3>5. ConfigShape(d)
      BY <1>1, <3>3, <3>4 DEF ConfigShape
    <3>6. (Full(c) => Full(d)) /\ OneSlotEach(d) /\ SlotsTrue(d, n)
      BY <1>5, <3>3 DEF Full, OneSlotEach, SlotsTrue
    <3>7. d.stanza.slot \in 0 .. Len(d.slots)
      BY <1>6, <2>2, <3>1, <3>3, <3>4
    <3>8. d.stanza.slot # 0 => d.slots[d.stanza.slot].unit = line.unit
      BY <2>2, <2>3, <3>1, <3>3, <3>4
    <3>9. d.stanza.slot = 0 =>
            Full(d) /\ \A s \in DOMAIN d.slots : d.slots[s].unit # line.unit
      <4> SUFFICES ASSUME m = 0
                   PROVE  Full(d) /\ \A s \in DOMAIN d.slots : d.slots[s].unit # line.unit
        BY <3>4
      <4>1. S = {}
        BY <1>6, <2>2, <3>1
      <4>2. Full(d)
        BY <1>6, <2>5, <3>3, <4>1, ConfigurationConstantsAssumption DEF Full
      <4> QED
        BY <2>3, <3>3, <4>1, <4>2
    <3> QED
      BY <1>8, <3>3, <3>4, <3>5, <3>6, <3>7, <3>8, <3>9, StanzaBegun
  <2>6. CASE S = {} /\ Len(c.slots) < MaxUnits
    <3> DEFINE new == NewSlot(line.unit)
               m == Len(c.slots) + 1
    <3>1. d = [c EXCEPT !.slots = Append(@, new),
                        !.stanza = [device |-> "magtape", slot |-> m]]
      BY <2>1, <2>4, <2>6
    <3>2. new \in SlotShape /\ new.unit = line.unit /\ new.path = "none" /\ new.protected = FALSE
      BY <1>3 DEF NewSlot, SlotShape, Paths
    <3>3. m \in Nat /\ m # 0 /\ m = Len(c.slots) + 1
      BY <1>6
    <3> HIDE DEF new, m
    <3>4. /\ DOMAIN d = DOMAIN c /\ d.settings = c.settings /\ d.present = c.present
          /\ d.slots = Append(c.slots, new)
          /\ d.stanza = [device |-> "magtape", slot |-> m]
          /\ d.read = c.read /\ d.loaded = c.loaded
      BY <1>1, <3>1 DEF ConfigShape, ConfigFields
    <3>5. d.stanza \in StanzaShape /\ d.stanza.device = line.device /\ d.stanza.slot = m
      BY <1>8, <3>3, <3>4 DEF StanzaShape
    <3>6. /\ d.slots \in Seq(SlotShape) /\ Len(d.slots) = m /\ DOMAIN d.slots = 1 .. m
          /\ d.slots[m] = new /\ \A s \in DOMAIN c.slots : d.slots[s] = c.slots[s]
      BY <1>6, <3>2, <3>3, <3>4
    <3>7. ConfigShape(d)
      BY <1>1, <3>4, <3>5, <3>6 DEF ConfigShape
    <3>8. \A s \in DOMAIN d.slots : s = m \/ s \in DOMAIN c.slots
      BY <1>6, <3>3, <3>6
    <3>9. \A s \in DOMAIN c.slots : s \in DOMAIN d.slots /\ d.slots[s] = c.slots[s]
      BY <1>6, <3>3, <3>6
    <3>10. \A s \in DOMAIN c.slots : c.slots[s].unit # line.unit
      BY <2>3, <2>6
    <3>11. OneSlotEach(d)
      <4> SUFFICES ASSUME NEW s \in DOMAIN d.slots, NEW t \in DOMAIN d.slots,
                          d.slots[s].unit = d.slots[t].unit
                   PROVE  s = t
        BY DEF OneSlotEach
      <4>1. CASE s = m
        BY <3>2, <3>6, <3>8, <3>9, <3>10, <4>1
      <4>2. CASE t = m
        BY <3>2, <3>6, <3>8, <3>9, <3>10, <4>2
      <4>3. CASE s # m /\ t # m
        <5>1. s \in DOMAIN c.slots /\ t \in DOMAIN c.slots
          BY <3>8, <4>3
        <5>2. c.slots[s].unit = c.slots[t].unit
          BY <3>9, <5>1
        <5> QED
          BY <1>5, <5>1, <5>2 DEF OneSlotEach
      <4> QED
        BY <4>1, <4>2, <4>3
    <3>12. ~Full(c)
      BY <1>6, <2>6, ConfigurationConstantsAssumption DEF Full
    <3>13. \A key : UntilLine(UnitLines(line.unit, key), n) = {}
      <4> SUFFICES ASSUME NEW key, NEW i \in UnitLines(line.unit, key), i <= n
                   PROVE  FALSE
        BY DEF UntilLine
      <4>1. /\ i \in DOMAIN lines /\ lines[i].kind = "set" /\ Inside(i)
            /\ Stanza(i).device = "magtape" /\ Stanza(i).unit = line.unit
        BY DEF UnitLines
      <4>2. Full(c) \/ \E s \in DOMAIN c.slots : c.slots[s].unit = Stanza(i).unit
        BY <1>1, <4>1 DEF ReadTrue, NoneForgotten
      <4> QED
        BY <3>10, <3>12, <4>1, <4>2
    <3>14. SlotsTrue(d, n)
      <4> SUFFICES ASSUME NEW s \in DOMAIN d.slots PROVE SlotSays(d.slots[s], n)
        BY DEF SlotsTrue
      <4>1. CASE s = m
        <5>1. SlotSays(new, n)
          BY <3>2, <3>13 DEF SlotSays
        <5> QED
          BY <3>6, <4>1, <5>1
      <4>2. CASE s \in DOMAIN c.slots
        BY <1>5, <3>9, <4>2 DEF SlotsTrue
      <4> QED
        BY <3>8, <4>1, <4>2
    <3>15. d.stanza.slot \in 0 .. Len(d.slots) /\ d.stanza.slot # 0
      BY <3>3, <3>5, <3>6
    <3>16. d.slots[d.stanza.slot].unit = line.unit
      BY <3>2, <3>5, <3>6
    <3> QED
      BY <1>8, <3>4, <3>5, <3>7, <3>9, <3>11, <3>12, <3>14, <3>15, <3>16, StanzaBegun
  <2> QED
    BY <2>5, <2>6
<1> QED
  BY <1>7, <1>8

\* A line that sets something outside every stanza but those that have a name
\* adds nothing to what was said of the machine.
LEMMA SetNowhere ==
  ASSUME NEW c, NEW n, Ready(c, n), NEW line, line = lines[n + 1], line.kind = "set",
         c.stanza = Outside
  PROVE  LineDone(c, line, c) /\ ReadTrue(c, n + 1)
<1>1. FileIsLines /\ n \in Nat /\ n + 1 \in DOMAIN lines /\ ReadTrue(c, n)
  BY DEF Ready
<1>2. (Inside(n + 2) <=> Inside(n + 1)) /\ Stanza(n + 2) = Stanza(n + 1)
  BY <1>1, StanzaGoesOn
<1>3. Inside(n + 1) => Stanza(n + 1).device = Outside.device
  BY <1>1 DEF ReadTrue, StanzaTrue
<1>4. LineDone(c, line, c)
  BY LineIgnored, NoStanza
<1>5. SettingsTrue(c, n + 1)
  <2> SUFFICES ASSUME NEW k \in Settings PROVE c.settings[k] = SaysUntil(n + 1, k)
    BY DEF SettingsTrue
  <2>1. n + 1 \notin SettingLines(k[1], k[2])
    BY <1>3, SettingPairs DEF SettingLines
  <2> QED
    BY <1>1, <2>1, SaysNext DEF ReadTrue, SettingsTrue
<1>6. PresentTrue(c, n + 1)
  <2> SUFFICES ASSUME NEW device, device \notin {Outside.device, "magtape"}
               PROVE  device \in c.present <=> AskedUntil(n + 1, device)
    BY DEF PresentTrue
  <2>1. AskedUntil(n + 1, device) <=> AskedUntil(n, device)
    <3>1. \A i \in DOMAIN lines : i # n + 1 => (i <= n + 1 <=> i <= n)
      BY <1>1 DEF FileIsLines
    <3> QED
      BY <1>1, <1>3, <3>1 DEF AskedUntil
  <2> QED
    BY <1>1, <2>1 DEF ReadTrue, PresentTrue
<1>7. SlotsTrue(c, n + 1)
  <2> SUFFICES ASSUME NEW s \in DOMAIN c.slots PROVE SlotSays(c.slots[s], n + 1)
    BY DEF SlotsTrue
  <2>1. \A key : n + 1 \notin UnitLines(c.slots[s].unit, key)
    BY <1>3, NoName DEF UnitLines
  <2>2. \A key : UntilLine(UnitLines(c.slots[s].unit, key), n + 1)
                   = UntilLine(UnitLines(c.slots[s].unit, key), n)
    BY <1>1, <2>1, UnitSaysNext
  <2> QED
    BY <1>1, <2>2 DEF ReadTrue, SlotsTrue, SlotSays
<1>8. NoneForgotten(c, n + 1)
  BY <1>1, <1>3, NoName, NoneForgottenNext DEF ReadTrue
<1>9. StanzaTrue(c, n + 1)
  <2>1. (n + 1) + 1 = n + 2
    BY <1>1
  <2> QED
    BY <1>1, <1>2, <2>1 DEF ReadTrue, StanzaTrue
<1> QED
  BY <1>1, <1>4, <1>5, <1>6, <1>7, <1>8, <1>9 DEF ReadTrue

\* In the stanza of a device with settings.
LEMMA SetSetting ==
  ASSUME NEW c, NEW n, Ready(c, n), NEW line, line = lines[n + 1], line.kind = "set",
         c.stanza # Outside, c.stanza.device # "magtape",
         NEW d, d = AfterConfigLine(c, line)
  PROVE  LineDone(c, line, d) /\ ReadTrue(d, n + 1)
<1>1. FileIsLines /\ n \in Nat /\ n + 1 \in DOMAIN lines /\ ReadTrue(c, n) /\ ConfigShape(c)
  BY DEF Ready
<1>2. (Inside(n + 2) <=> Inside(n + 1)) /\ Stanza(n + 2) = Stanza(n + 1)
  BY <1>1, StanzaGoesOn
<1>3. Inside(n + 1) /\ Stanza(n + 1).device = c.stanza.device
  BY <1>1, IsOutside DEF ReadTrue, StanzaTrue
<1> DEFINE name == c.stanza.device
           k == <<c.stanza.device, line.key>>
           fits == k \in Settings /\ Accepted(k, Value(line))
<1>4. d = Set(c, line)
  <2>1. c.stanza.slot = 0
    BY <1>1 DEF ReadTrue, StanzaTrue
  <2>2. AfterConfigLine(c, line) = Set(c, line)
    BY <2>1 DEF AfterConfigLine
  <2> QED
    BY <2>2
<1>5. d = IF fits THEN [c EXCEPT !.settings[k] = Value(line), !.present = @ \cup {k[1]}]
                  ELSE [c EXCEPT !.present = @ \cup {name}]
  BY <1>4 DEF Set
<1>6. k[1] = name /\ k[2] = line.key
  OBVIOUS
<1> HIDE DEF name
<1>7. /\ DOMAIN d = DOMAIN c /\ d.slots = c.slots /\ d.stanza = c.stanza
      /\ d.present = c.present \cup {name}
      /\ d.read = c.read /\ d.loaded = c.loaded
  <2>1. CASE fits
    BY <1>1, <1>5, <1>6, <2>1 DEF ConfigShape, ConfigFields
  <2>2. CASE ~fits
    BY <1>1, <1>5, <2>2 DEF ConfigShape, ConfigFields
  <2> QED
    BY <2>1, <2>2
<1>8. d.settings = IF fits THEN [c.settings EXCEPT ![k] = Value(line)] ELSE c.settings
  <2>1. CASE fits
    BY <1>1, <1>5, <2>1 DEF ConfigShape, ConfigFields
  <2>2. CASE ~fits
    BY <1>1, <1>5, <2>2 DEF ConfigShape, ConfigFields
  <2> QED
    BY <2>1, <2>2
<1>9. /\ DOMAIN d.settings = Settings
      /\ \A j \in Settings :
           d.settings[j] = IF j = k /\ fits THEN Value(line) ELSE c.settings[j]
  BY <1>1, <1>8 DEF ConfigShape
<1>10. ConfigShape(d)
  BY <1>1, <1>7, <1>9 DEF ConfigShape
<1>11. SettingsTrue(d, n + 1)
  <2> SUFFICES ASSUME NEW j \in Settings PROVE d.settings[j] = SaysUntil(n + 1, j)
    BY DEF SettingsTrue
  <2>1. n + 1 \in SettingLines(j[1], j[2]) <=>
          j[1] = name /\ j[2] = line.key /\ Accepted(<<j[1], j[2]>>, Value(line))
    BY <1>1, <1>3 DEF SettingLines, name
  <2>2. j = <<j[1], j[2]>>
    BY SettingPairs
  <2>3. j = k <=> j[1] = name /\ j[2] = line.key
    BY <1>6, <2>2 DEF name
  <2>4. n + 1 \in SettingLines(j[1], j[2]) <=> j = k /\ fits
    BY <2>1, <2>2, <2>3
  <2> HIDE DEF k, fits
  <2> QED
    BY <1>1, <1>9, <2>4, SaysNext DEF ReadTrue, SettingsTrue
<1> HIDE DEF k, fits
<1>12. PresentTrue(d, n + 1)
  <2> SUFFICES ASSUME NEW device, device \notin {Outside.device, "magtape"}
               PROVE  device \in d.present <=> AskedUntil(n + 1, device)
    BY DEF PresentTrue
  <2>1. AskedUntil(n + 1, device) <=> AskedUntil(n, device) \/ device = name
    <3>1. \A i \in DOMAIN lines : i <= n + 1 <=> i <= n \/ i = n + 1
      BY <1>1 DEF FileIsLines
    <3> QED
      BY <1>1, <1>3, <3>1 DEF AskedUntil, name
  <2>2. device \in c.present <=> AskedUntil(n, device)
    BY <1>1 DEF ReadTrue, PresentTrue
  <2> QED
    BY <1>7, <2>1, <2>2
<1>13. SlotsTrue(d, n + 1)
  <2> SUFFICES ASSUME NEW s \in DOMAIN c.slots PROVE SlotSays(c.slots[s], n + 1)
    BY <1>7 DEF SlotsTrue
  <2>1. \A key : n + 1 \notin UnitLines(c.slots[s].unit, key)
    BY <1>3 DEF UnitLines
  <2>2. \A key : UntilLine(UnitLines(c.slots[s].unit, key), n + 1)
                   = UntilLine(UnitLines(c.slots[s].unit, key), n)
    BY <1>1, <2>1, UnitSaysNext
  <2> QED
    BY <1>1, <2>2 DEF ReadTrue, SlotsTrue, SlotSays
<1>14. NoneForgotten(d, n + 1)
  <2>1. Full(c) => Full(d)
    BY <1>7 DEF Full
  <2> QED
    BY <1>1, <1>3, <1>7, <2>1, NoneForgottenNext DEF ReadTrue
<1>15. StanzaTrue(d, n + 1)
  <2>1. (n + 1) + 1 = n + 2
    BY <1>1
  <2>2. c.stanza.slot = 0
    BY <1>1 DEF ReadTrue, StanzaTrue
  <2>3. d.stanza.device = Stanza(n + 2).device /\ Inside(n + 2)
    BY <1>2, <1>3, <1>7
  <2>4. d.stanza.slot \in 0 .. Len(d.slots)
    BY <1>1, <1>7 DEF ReadTrue, StanzaTrue
  <2> QED
    BY <1>7, <2>1, <2>2, <2>3, <2>4 DEF StanzaTrue
<1>16. OneSlotEach(d)
  BY <1>1, <1>7 DEF ReadTrue, OneSlotEach
<1> QED
  BY <1>7, <1>10, <1>11, <1>12, <1>13, <1>14, <1>15, <1>16 DEF ReadTrue, LineDone

\* In the stanza of a tape unit that found no slot.
LEMMA SetLost ==
  ASSUME NEW c, NEW n, Ready(c, n), NEW line, line = lines[n + 1], line.kind = "set",
         c.stanza.device = "magtape", c.stanza.slot = 0
  PROVE  LineDone(c, line, c) /\ ReadTrue(c, n + 1)
<1>1. FileIsLines /\ n \in Nat /\ n + 1 \in DOMAIN lines /\ ReadTrue(c, n)
  BY DEF Ready
<1>2. (Inside(n + 2) <=> Inside(n + 1)) /\ Stanza(n + 2) = Stanza(n + 1)
  BY <1>1, StanzaGoesOn
<1>3. /\ Inside(n + 1) /\ Stanza(n + 1).device = "magtape" /\ Full(c)
      /\ \A s \in DOMAIN c.slots : c.slots[s].unit # Stanza(n + 1).unit
  BY <1>1, NoName DEF ReadTrue, StanzaTrue
<1>4. LineDone(c, line, c)
  BY LineIgnored
<1>5. SettingsTrue(c, n + 1)
  <2> SUFFICES ASSUME NEW k \in Settings PROVE c.settings[k] = SaysUntil(n + 1, k)
    BY DEF SettingsTrue
  <2>1. n + 1 \notin SettingLines(k[1], k[2])
    BY <1>3, SettingPairs DEF SettingLines
  <2> QED
    BY <1>1, <2>1, SaysNext DEF ReadTrue, SettingsTrue
<1>6. PresentTrue(c, n + 1)
  <2> SUFFICES ASSUME NEW device, device \notin {Outside.device, "magtape"}
               PROVE  device \in c.present <=> AskedUntil(n + 1, device)
    BY DEF PresentTrue
  <2>1. \A i \in DOMAIN lines : i # n + 1 => (i <= n + 1 <=> i <= n)
    BY <1>1 DEF FileIsLines
  <2>2. AskedUntil(n + 1, device) <=> AskedUntil(n, device)
    BY <1>1, <1>3, <2>1 DEF AskedUntil
  <2> QED
    BY <1>1, <2>2 DEF ReadTrue, PresentTrue
<1>7. SlotsTrue(c, n + 1)
  <2> SUFFICES ASSUME NEW s \in DOMAIN c.slots PROVE SlotSays(c.slots[s], n + 1)
    BY DEF SlotsTrue
  <2>1. \A key : n + 1 \notin UnitLines(c.slots[s].unit, key)
    BY <1>3 DEF UnitLines
  <2>2. \A key : UntilLine(UnitLines(c.slots[s].unit, key), n + 1)
                   = UntilLine(UnitLines(c.slots[s].unit, key), n)
    BY <1>1, <2>1, UnitSaysNext
  <2> QED
    BY <1>1, <2>2 DEF ReadTrue, SlotsTrue, SlotSays
<1>8. NoneForgotten(c, n + 1)
  BY <1>1, <1>3, NoneForgottenNext DEF ReadTrue
<1>9. StanzaTrue(c, n + 1)
  <2>1. (n + 1) + 1 = n + 2
    BY <1>1
  <2> QED
    BY <1>1, <1>2, <2>1 DEF ReadTrue, StanzaTrue
<1> QED
  BY <1>1, <1>4, <1>5, <1>6, <1>7, <1>8, <1>9 DEF ReadTrue

\* In the stanza of one that has a slot.
LEMMA SetUnit ==
  ASSUME NEW c, NEW n, Ready(c, n), NEW line, line = lines[n + 1], line.kind = "set",
         c.stanza.device = "magtape", c.stanza.slot # 0,
         NEW d, d = AfterConfigLine(c, line)
  PROVE  LineDone(c, line, d) /\ ReadTrue(d, n + 1)
<1>1. FileIsLines /\ n \in Nat /\ n + 1 \in DOMAIN lines /\ ReadTrue(c, n) /\ ConfigShape(c)
  BY DEF Ready
<1>2. (Inside(n + 2) <=> Inside(n + 1)) /\ Stanza(n + 2) = Stanza(n + 1)
  BY <1>1, StanzaGoesOn
<1> DEFINE s == c.stanza.slot
           old == c.slots[s]
           slot == [old EXCEPT !.present = TRUE]
           after ==
             CASE line.key = "unit" /\ line.number >= 0 -> [slot EXCEPT !.unit = line.number]
               [] line.key = "path" -> [slot EXCEPT !.path = line.text]
               [] line.key = "write_protected" /\ line.flag # "neither" ->
                    [slot EXCEPT !.protected = (line.flag = "true")]
               [] OTHER -> slot
<1>3. c.slots \in Seq(SlotShape) /\ Len(c.slots) \in Nat /\ DOMAIN c.slots = 1 .. Len(c.slots)
  BY <1>1 DEF ConfigShape
<1>4. s \in DOMAIN c.slots /\ old \in SlotShape
  BY <1>1, <1>3 DEF ReadTrue, StanzaTrue
<1>5. /\ Inside(n + 1) /\ Stanza(n + 1).device = "magtape"
      /\ old.unit = Stanza(n + 1).unit
  BY <1>1, NoName DEF ReadTrue, StanzaTrue
<1>6. line.text \in STRING /\ line.number \in Int
  <2>1. line \in ConfigLine
    BY <1>1 DEF FileIsLines
  <2> QED
    BY <2>1 DEF ConfigLine
<1>7. line.key = "unit" => line.number = old.unit
  BY <1>1, <1>5 DEF Ready, Orderly
<1>8. d = [c EXCEPT !.slots[s] = after]
  <2>1. AfterConfigLine(c, line) = SetSlot(c, line)
    BY NoName DEF AfterConfigLine
  <2> QED
    BY <2>1 DEF SetSlot
<1>9. /\ slot \in SlotShape /\ slot.unit = old.unit
      /\ slot.path = old.path /\ (slot.protected <=> old.protected)
  <2>1. slot = [old EXCEPT !.present = TRUE]
    OBVIOUS
  <2> HIDE DEF slot, old
  <2> QED
    BY <1>4, <2>1 DEF SlotShape
<1> HIDE DEF slot
<1>10. /\ after \in SlotShape /\ after.unit = old.unit
       /\ after.path = IF line.key = "path" THEN line.text ELSE old.path
       /\ after.protected <=> IF line.key = "write_protected" /\ line.flag # "neither"
                              THEN line.flag = "true" ELSE old.protected
  <2>1. CASE line.key = "unit" /\ line.number >= 0
    <3>1. after = [slot EXCEPT !.unit = line.number]
      BY <2>1
    <3> HIDE DEF after, old
    <3> QED
      BY <1>6, <1>7, <1>9, <2>1, <3>1 DEF SlotShape
  <2>2. CASE line.key = "path"
    <3>1. after = [slot EXCEPT !.path = line.text]
      BY <2>2
    <3> HIDE DEF after, old
    <3> QED
      BY <1>6, <1>9, <2>2, <3>1 DEF SlotShape, Paths
  <2>3. CASE line.key = "write_protected" /\ line.flag # "neither"
    <3>1. after = [slot EXCEPT !.protected = (line.flag = "true")]
      BY <2>3
    <3> HIDE DEF after, old
    <3> QED
      BY <1>9, <2>3, <3>1 DEF SlotShape
  <2>4. CASE /\ ~(line.key = "unit" /\ line.number >= 0) /\ line.key # "path"
             /\ ~(line.key = "write_protected" /\ line.flag # "neither")
    <3>1. after = slot
      BY <2>4
    <3> HIDE DEF after, old
    <3> QED
      BY <1>9, <2>4, <3>1
  <2> QED
    BY <2>1, <2>2, <2>3, <2>4
<1> HIDE DEF after
<1>11. /\ DOMAIN d = DOMAIN c /\ d.slots = [c.slots EXCEPT ![s] = after]
       /\ d.settings = c.settings /\ d.present = c.present /\ d.stanza = c.stanza
       /\ d.read = c.read /\ d.loaded = c.loaded
  BY <1>1, <1>8 DEF ConfigShape, ConfigFields
<1>12. /\ d.slots \in Seq(SlotShape) /\ Len(d.slots) = Len(c.slots)
       /\ DOMAIN d.slots = DOMAIN c.slots /\ d.slots[s] = after
       /\ \A t \in DOMAIN c.slots : t # s => d.slots[t] = c.slots[t]
  BY <1>3, <1>4, <1>10, <1>11
<1>13. \A t \in DOMAIN c.slots : d.slots[t].unit = c.slots[t].unit
  BY <1>10, <1>12
<1>14. ConfigShape(d)
  BY <1>1, <1>11, <1>12 DEF ConfigShape
<1>15. OneSlotEach(c) /\ SlotsTrue(c, n)
  BY <1>1 DEF ReadTrue
<1>16. OneSlotEach(d)
  BY <1>12, <1>13, <1>15 DEF OneSlotEach
<1>17. SettingsTrue(d, n + 1)
  <2> SUFFICES ASSUME NEW k \in Settings PROVE c.settings[k] = SaysUntil(n + 1, k)
    BY <1>11 DEF SettingsTrue
  <2>1. n + 1 \notin SettingLines(k[1], k[2])
    BY <1>5, SettingPairs DEF SettingLines
  <2> QED
    BY <1>1, <2>1, SaysNext DEF ReadTrue, SettingsTrue
<1>18. PresentTrue(d, n + 1)
  <2> SUFFICES ASSUME NEW device, device \notin {Outside.device, "magtape"}
               PROVE  device \in c.present <=> AskedUntil(n + 1, device)
    BY <1>11 DEF PresentTrue
  <2>1. \A i \in DOMAIN lines : i # n + 1 => (i <= n + 1 <=> i <= n)
    BY <1>1 DEF FileIsLines
  <2>2. AskedUntil(n + 1, device) <=> AskedUntil(n, device)
    BY <1>1, <1>5, <2>1 DEF AskedUntil
  <2> QED
    BY <1>1, <2>2 DEF ReadTrue, PresentTrue
<1>19. SlotsTrue(d, n + 1)
  <2> SUFFICES ASSUME NEW t \in DOMAIN c.slots PROVE SlotSays(d.slots[t], n + 1)
    BY <1>12 DEF SlotsTrue
  <2>1. SlotSays(c.slots[t], n)
    BY <1>15 DEF SlotsTrue
  <2> DEFINE paths == UnitLines(c.slots[t].unit, "path")
             flags == UnitLines(c.slots[t].unit, "write_protected")
  <2>2. CASE t = s
    <3>1. n + 1 \in paths <=> line.key = "path"
      BY <1>1, <1>5, <2>2 DEF UnitLines
    <3>2. n + 1 \in flags <=> line.key = "write_protected" /\ line.flag # "neither"
      BY <1>1, <1>5, <2>2 DEF UnitLines
    <3>3. /\ line.key = "path" => UntilLine(paths, n + 1) # {} /\ Max(UntilLine(paths, n + 1)) = n + 1
          /\ line.key # "path" => UntilLine(paths, n + 1) = UntilLine(paths, n)
      BY <1>1, <3>1, UnitSaysNext
    <3>4. /\ line.key = "write_protected" /\ line.flag # "neither" =>
               UntilLine(flags, n + 1) # {} /\ Max(UntilLine(flags, n + 1)) = n + 1
          /\ ~(line.key = "write_protected" /\ line.flag # "neither") =>
               UntilLine(flags, n + 1) = UntilLine(flags, n)
      BY <1>1, <3>2, UnitSaysNext
    <3>5. d.slots[t] = after /\ after.unit = c.slots[t].unit
      BY <1>10, <1>12, <2>2
    <3>6. /\ old.path = IF UntilLine(paths, n) = {} THEN "none" ELSE lines[Max(UntilLine(paths, n))].text
          /\ old.protected <=>
               UntilLine(flags, n) # {} /\ lines[Max(UntilLine(flags, n))].flag = "true"
      BY <2>1, <2>2 DEF SlotSays
    <3> HIDE DEF paths, flags, old
    <3>7. after.path = IF UntilLine(paths, n + 1) = {} THEN "none"
                       ELSE lines[Max(UntilLine(paths, n + 1))].text
      BY <1>10, <3>3, <3>6
    <3>8. after.protected <=>
            UntilLine(flags, n + 1) # {} /\ lines[Max(UntilLine(flags, n + 1))].flag = "true"
      BY <1>10, <3>4, <3>6
    <3> QED
      BY <3>5, <3>7, <3>8 DEF SlotSays, paths, flags
  <2>3. CASE t # s
    <3>1. c.slots[t].unit # old.unit
      BY <1>4, <1>15, <2>3 DEF OneSlotEach
    <3>2. \A key : n + 1 \notin UnitLines(c.slots[t].unit, key)
      BY <1>5, <3>1 DEF UnitLines
    <3>3. \A key : UntilLine(UnitLines(c.slots[t].unit, key), n + 1)
                     = UntilLine(UnitLines(c.slots[t].unit, key), n)
      BY <1>1, <3>2, UnitSaysNext
    <3> QED
      BY <1>12, <2>1, <2>3, <3>3 DEF SlotSays
  <2> QED
    BY <2>2, <2>3
<1>20. NoneForgotten(d, n + 1)
  <2>1. Full(c) => Full(d)
    BY <1>12 DEF Full
  <2>2. \E t \in DOMAIN d.slots : d.slots[t].unit = Stanza(n + 1).unit
    BY <1>4, <1>5, <1>12, <1>13
  <2> QED
    BY <1>1, <1>12, <1>13, <2>1, <2>2, NoneForgottenNext DEF ReadTrue
<1>21. StanzaTrue(d, n + 1)
  <2>1. (n + 1) + 1 = n + 2
    BY <1>1
  <2>2. d.slots[s].unit = Stanza(n + 2).unit
    BY <1>2, <1>4, <1>5, <1>13
  <2>3. d.stanza.slot \in 0 .. Len(d.slots) /\ d.stanza.slot # 0
    BY <1>3, <1>4, <1>11, <1>12
  <2>4. d.stanza.device = "magtape" /\ Inside(n + 2) /\ Stanza(n + 2).device = "magtape"
    BY <1>2, <1>5, <1>11
  <2> QED
    BY <1>11, <2>1, <2>2, <2>3, <2>4 DEF StanzaTrue
<1> QED
  BY <1>11, <1>14, <1>16, <1>17, <1>18, <1>19, <1>20, <1>21 DEF ReadTrue, LineDone

-----------------------------------------------------------------------------
(* The monitor's start.                                                     *)

UnitShape == [unit : Int, path : Paths, protected : BOOLEAN]

StartedFields ==
  {"phase", "limit", "next", "units", "any", "magtape", "armed", "ac", "mem0", "pc"}

WatchdogWanted ==
  "watchdog" \in config.present /\ Setting("watchdog", "enabled").flag = "true"

FromSlot(unit, slot) ==
  unit.unit = slot.unit /\ unit.path = slot.path /\ (unit.protected <=> slot.protected)

FromSlots(units) == \A u \in DOMAIN units :
  units[u].path # "none" /\ \E s \in DOMAIN config.slots : FromSlot(units[u], config.slots[s])

\* What the monitor has done in each phase of its start is what the struct says.
StartedTrue ==
  /\ started.phase # "reading" =>
       /\ config.read = Len(lines)
       /\ started.limit = IF "line_printer" \in config.present
                          THEN Setting("line_printer", "column_limit").number % LimitSize
                          ELSE 132
  /\ started.phase \in {"reading", "watchdog"} => started.armed = FALSE /\ started.units = <<>>
  /\ started.phase \in {"units", "ready"} =>
       /\ started.armed = WatchdogWanted
       /\ started.armed = TRUE =>
            started.ac = ControlWord(
                           WatchdogCommand(Setting("watchdog", "mode").text,
                                           Setting("watchdog", "periodic").flag = "true"),
                           Setting("watchdog", "default_count").number)
  /\ started.phase = "units" => started.magtape = (config.slots # <<>>)
  /\ started.phase = "ready" => (started.units # <<>> => started.magtape = TRUE)
  /\ started.units \in Seq(UnitShape) /\ FromSlots(started.units)
  /\ started.next \in Nat \ {0}

\* The invariant: as long as an orderly file is what the machine is made from, the
\* struct holds what was read of it, and what was made of the struct is true to it.
ConfigInv ==
  /\ FileIsLines
  /\ Orderly =>
       /\ DOMAIN config = ConfigFields /\ DOMAIN started = StartedFields
       /\ started.phase = "reading" => config.loaded = TRUE
       /\ config.loaded = TRUE =>
            /\ ConfigShape(config) /\ ReadTrue(config, config.read)
            /\ started.phase \in {"reading", "watchdog", "units", "ready"}
            /\ StartedTrue

\* The file stays as it is.
LEMMA SameFile ==
  ASSUME lines' = lines
  PROVE  /\ \A i : (Inside(i)' <=> Inside(i)) /\ Stanza(i)' = Stanza(i)
         /\ Orderly' <=> Orderly
         /\ \A device, key : SettingLines(device, key)' = SettingLines(device, key)
         /\ \A u, key : UnitLines(u, key)' = UnitLines(u, key)
         /\ \A n, k : SaysUntil(n, k)' = SaysUntil(n, k)
         /\ \A n, device : AskedUntil(n, device)' <=> AskedUntil(n, device)
<1>1. \A i : Opened(i)' = Opened(i)
  BY DEF Opened
<1>2. \A i : Between(i)' = Between(i)
  BY <1>1 DEF Between
<1>3. \A i : (Inside(i)' <=> Inside(i)) /\ Stanza(i)' = Stanza(i)
  BY <1>1, <1>2 DEF Inside, Stanza
<1>4. Orderly' <=> Orderly
  BY <1>3 DEF Orderly
<1>5. \A device, key : SettingLines(device, key)' = SettingLines(device, key)
  BY <1>3 DEF SettingLines
<1>6. \A u, key : UnitLines(u, key)' = UnitLines(u, key)
  BY <1>3 DEF UnitLines
<1>7. \A n, k : SaysUntil(n, k)' = SaysUntil(n, k)
  BY <1>5 DEF SaysUntil
<1>8. \A n, device : AskedUntil(n, device)' <=> AskedUntil(n, device)
  BY <1>3 DEF AskedUntil
<1> QED
  BY <1>3, <1>4, <1>5, <1>6, <1>7, <1>8

LEMMA SameReading ==
  ASSUME lines' = lines, NEW d, NEW m, d = config', m = config'.read
  PROVE  ReadTrue(config, config.read)' <=> ReadTrue(d, m)
<1>1. SettingsTrue(config, config.read)' <=> SettingsTrue(d, m)
  BY SameFile DEF SettingsTrue, SaysUntil
<1>2. PresentTrue(config, config.read)' <=> PresentTrue(d, m)
  BY SameFile DEF PresentTrue, AskedUntil, Inside, Stanza, Opened, Between
<1>3. StanzaTrue(config, config.read)' <=> StanzaTrue(d, m)
  BY SameFile DEF StanzaTrue, Inside, Stanza, Opened, Between, Full
<1>4. OneSlotEach(config)' <=> OneSlotEach(d)
  BY SameFile DEF OneSlotEach
<1>5. SlotsTrue(config, config.read)' <=> SlotsTrue(d, m)
  BY SameFile DEF SlotsTrue, SlotSays, UnitLines, Stanza, Opened, Between, Inside
<1>6. NoneForgotten(config, config.read)' <=> NoneForgotten(d, m)
  BY SameFile DEF NoneForgotten, Full
<1> QED
  BY <1>1, <1>2, <1>3, <1>4, <1>5, <1>6 DEF ReadTrue

LEMMA LineRead ==
  ASSUME NEW c, Ready(c, c.read), NEW d,
         d = [AfterConfigLine(c, lines[c.read + 1]) EXCEPT !.read = @ + 1]
  PROVE  ConfigShape(d) /\ d.loaded = c.loaded /\ ReadTrue(d, d.read)
<1> DEFINE n == c.read
           line == lines[n + 1]
           e == AfterConfigLine(c, line)
<1>1. FileIsLines /\ n \in Nat /\ n + 1 \in DOMAIN lines /\ ReadTrue(c, n)
  BY DEF Ready
<1>2. line.kind \in Kinds
  BY <1>1, LineKinds
<1> HIDE DEF n, line
<1>3. Ready(c, n) /\ line = lines[n + 1]
  BY DEF n, line
<1>4. LineDone(c, line, e) /\ ReadTrue(e, n + 1)
  <2>1. CASE line.kind = "open"
    BY <1>3, <2>1, OpenLine
  <2>2. CASE line.kind = "close"
    BY <1>3, <2>2, CloseLine DEF LineDone
  <2>3. CASE line.kind = "other"
    <3>1. LineDone(c, line, c)
      BY <1>3, <2>3, LineIgnored
    <3> QED
      BY <1>3, <2>3, <3>1, OtherLine DEF LineDone
  <2>4. CASE line.kind = "set"
    <3>1. CASE c.stanza = Outside
      BY <1>3, <2>4, <3>1, SetNowhere DEF LineDone
    <3>2. CASE c.stanza # Outside /\ c.stanza.device # "magtape"
      BY <1>3, <2>4, <3>2, SetSetting
    <3>3. CASE c.stanza.device = "magtape" /\ c.stanza.slot = 0
      BY <1>3, <2>4, <3>3, SetLost DEF LineDone
    <3>4. CASE c.stanza.device = "magtape" /\ c.stanza.slot # 0
      BY <1>3, <2>4, <3>4, SetUnit
    <3> QED
      BY <3>1, <3>2, <3>3, <3>4
  <2> QED
    BY <1>2, <2>1, <2>2, <2>3, <2>4 DEF Kinds
<1>5. d = [e EXCEPT !.read = @ + 1]
  BY DEF n, line
<1> HIDE DEF e
<1>6. /\ DOMAIN d = ConfigFields /\ d.settings = e.settings /\ d.present = e.present
      /\ d.slots = e.slots /\ d.stanza = e.stanza /\ d.read = n + 1
      /\ d.loaded = c.loaded
  BY <1>4, <1>5 DEF LineDone, ConfigShape, ConfigFields, n
<1>7. ConfigShape(d)
  BY <1>1, <1>4, <1>6 DEF LineDone, ConfigShape
<1>8. ReadTrue(d, n + 1)
  BY <1>4, <1>6
     DEF ReadTrue, SettingsTrue, PresentTrue, StanzaTrue, OneSlotEach, SlotsTrue,
         NoneForgotten, Full
<1> QED
  BY <1>6, <1>7, <1>8

LEMMA ConfigStarts == ASSUME ConfigInit PROVE ConfigInv
<1>1. FileIsLines
  BY ConfigurationConstantsAssumption DEF ConfigInit, FileIsLines
<1>2. /\ DOMAIN config = ConfigFields
      /\ config.settings = DefaultSettings /\ config.present = {}
      /\ config.slots = <<>> /\ config.stanza = Outside /\ config.read = 0
      /\ config.loaded = TRUE
  BY DEF ConfigInit, ConfigFields
<1>3. /\ DOMAIN started = StartedFields /\ started.phase = "reading"
      /\ started.armed = FALSE /\ started.units = <<>> /\ started.next = 1
  BY DEF ConfigInit, StartedFields
<1>4. ConfigShape(config)
  <2>1. DOMAIN config.settings = Settings
    BY <1>2 DEF DefaultSettings
  <2> QED
    BY <1>2, <2>1, NoStanza DEF ConfigShape
<1>5. StartedTrue
  BY <1>3 DEF StartedTrue, FromSlots
<1>6. ReadTrue(config, config.read)
  <2>1. \A i \in DOMAIN lines : ~(i <= 0)
    BY <1>1 DEF FileIsLines
  <2>2. \A device, key : UntilLine(SettingLines(device, key), 0) = {}
    BY <2>1 DEF UntilLine, SettingLines
  <2>3. SettingsTrue(config, 0)
    BY <1>2, <2>2 DEF SettingsTrue, SaysUntil
  <2>4. PresentTrue(config, 0) /\ NoneForgotten(config, 0)
    BY <1>2, <2>1 DEF PresentTrue, AskedUntil, NoneForgotten
  <2>5. OneSlotEach(config) /\ SlotsTrue(config, 0)
    BY <1>2 DEF OneSlotEach, SlotsTrue
  <2>6. StanzaTrue(config, 0)
    <3>1. ~Inside(0 + 1)
      BY DEF Inside, Opened
    <3> QED
      BY <1>2, <3>1, NoStanza, NoName DEF StanzaTrue
  <2> QED
    BY <1>2, <2>3, <2>4, <2>5, <2>6 DEF ReadTrue
<1> QED
  BY <1>1, <1>2, <1>3, <1>4, <1>5, <1>6 DEF ConfigInv

LEMMA LineStep == ASSUME ConfigInv, ReadConfigLine PROVE ConfigInv'
<1> SUFFICES ASSUME Orderly' PROVE ConfigInv'
  BY DEF ConfigInv, FileIsLines, ReadConfigLine
<1>1. lines' = lines /\ started' = started /\ started.phase = "reading"
  BY DEF ReadConfigLine
<1>2. FileIsLines /\ Orderly
  BY <1>1, SameFile DEF ConfigInv
<1>3. /\ ConfigShape(config) /\ ReadTrue(config, config.read) /\ config.loaded = TRUE
      /\ DOMAIN started = StartedFields /\ StartedTrue
  BY <1>1, <1>2 DEF ConfigInv
<1>4. PICK d : d = config'
  OBVIOUS
<1>5. Ready(config, config.read)
  BY <1>2, <1>3 DEF Ready, ReadConfigLine, FileIsLines, ConfigShape
<1>6. ConfigShape(d) /\ d.loaded = config.loaded /\ ReadTrue(d, d.read)
  BY <1>4, <1>5, LineRead DEF ReadConfigLine
<1>7. ConfigShape(config)' /\ config'.loaded = TRUE
  BY <1>3, <1>4, <1>6 DEF ConfigShape
<1>8. ReadTrue(config, config.read)'
  BY <1>1, <1>4, <1>6, SameReading
<1>9. StartedTrue'
  BY <1>1, <1>3 DEF StartedTrue, FromSlots
<1>10. FileIsLines'
  BY <1>1, <1>2 DEF FileIsLines
<1> QED
  BY <1>1, <1>3, <1>7, <1>8, <1>9, <1>10 DEF ConfigInv, ConfigShape

LEMMA NoFileStep == ASSUME ConfigInv, NoConfigFile PROVE ConfigInv'
<1>1. lines' = lines /\ started.phase = "reading"
  BY DEF NoConfigFile
<1>2. FileIsLines' /\ (Orderly' <=> Orderly)
  BY <1>1, SameFile DEF ConfigInv, FileIsLines
<1>3. ASSUME Orderly
      PROVE  /\ DOMAIN config' = ConfigFields /\ config'.loaded = FALSE
             /\ DOMAIN started' = StartedFields /\ started'.phase = "units"
  <2>1. DOMAIN config = ConfigFields /\ DOMAIN started = StartedFields
    BY <1>3 DEF ConfigInv
  <2> QED
    BY <2>1 DEF NoConfigFile, ConfigFields, StartedFields
<1> QED
  BY <1>2, <1>3 DEF ConfigInv

\* The struct stays once the start is under way.
LEMMA StartStep ==
  ASSUME ConfigInv, UNCHANGED <<config, lines>>,
         DOMAIN started = StartedFields =>
           DOMAIN started' = StartedFields /\ started'.phase # "reading",
         DOMAIN started = StartedFields /\ ConfigShape(config) /\ StartedTrue =>
           started'.phase \in {"watchdog", "units", "ready"} /\ StartedTrue'
  PROVE  ConfigInv'
<1>1. FileIsLines' /\ (Orderly' <=> Orderly)
  BY SameFile DEF ConfigInv, FileIsLines
<1>2. ASSUME Orderly, config.loaded = TRUE
      PROVE  ReadTrue(config, config.read)' /\ ConfigShape(config)'
  <2>1. ReadTrue(config, config.read) /\ ConfigShape(config)
    BY <1>2 DEF ConfigInv
  <2> QED
    BY <2>1, SameReading DEF ConfigShape
<1>3. ASSUME Orderly
      PROVE  /\ DOMAIN config' = ConfigFields /\ DOMAIN started' = StartedFields
             /\ started'.phase # "reading"
  BY <1>3 DEF ConfigInv
<1>4. ASSUME Orderly, config.loaded = TRUE
      PROVE  started'.phase \in {"watchdog", "units", "ready"} /\ StartedTrue'
  BY <1>4 DEF ConfigInv
<1> QED
  BY <1>1, <1>2, <1>3, <1>4 DEF ConfigInv

LEMMA PrinterStep == ASSUME ConfigInv, SetUpPrinter PROVE ConfigInv'
<1>1. UNCHANGED <<config, lines>> /\ started.phase = "reading" /\ config.read = Len(lines)
  BY DEF SetUpPrinter
<1>2. ASSUME DOMAIN started = StartedFields
      PROVE  /\ DOMAIN started' = StartedFields /\ started'.phase = "watchdog"
             /\ started'.limit = IF "line_printer" \in config.present
                                 THEN Setting("line_printer", "column_limit").number % LimitSize
                                 ELSE 132
             /\ started'.armed = started.armed /\ started'.units = started.units
             /\ started'.next = started.next
  BY <1>2 DEF SetUpPrinter, StartedFields
<1>3. ASSUME DOMAIN started = StartedFields, StartedTrue PROVE StartedTrue'
  <2>1. started.armed = FALSE /\ started.units = <<>>
    BY <1>1, <1>3 DEF StartedTrue
  <2> QED
    BY <1>1, <1>2, <1>3, <2>1 DEF StartedTrue, FromSlots, Setting
<1> QED
  BY <1>1, <1>2, <1>3, StartStep

LEMMA ArmStep == ASSUME ConfigInv, ArmWatchdog PROVE ConfigInv'
<1>1. UNCHANGED <<config, lines>> /\ started.phase = "watchdog"
  BY DEF ArmWatchdog
<1> DEFINE word == ControlWord(
                     WatchdogCommand(Setting("watchdog", "mode").text,
                                     Setting("watchdog", "periodic").flag = "true"),
                     Setting("watchdog", "default_count").number)
<1>2. ASSUME DOMAIN started = StartedFields
      PROVE  /\ DOMAIN started' = StartedFields /\ started'.phase = "units"
             /\ started'.limit = started.limit /\ started'.units = started.units
             /\ started'.next = started.next
             /\ started'.magtape = (config.slots # <<>>)
             /\ WatchdogWanted => started'.armed = TRUE /\ started'.ac = word
             /\ ~WatchdogWanted => started'.armed = started.armed
  <2>1. CASE WatchdogWanted
    <3>1. started' = [started EXCEPT !.phase = "units", !.armed = TRUE,
                        !.magtape = config.slots # <<>>,
                        !.ac = word, !.mem0 = \o6552, !.pc = 1]
      BY <2>1 DEF ArmWatchdog, WatchdogWanted
    <3> HIDE DEF word
    <3> QED
      BY <1>2, <2>1, <3>1 DEF StartedFields
  <2>2. CASE ~WatchdogWanted
    <3>1. started' = [started EXCEPT !.phase = "units", !.magtape = config.slots # <<>>]
      BY <2>2 DEF ArmWatchdog, WatchdogWanted
    <3> QED
      BY <1>2, <2>2, <3>1 DEF StartedFields
  <2> QED
    BY <2>1, <2>2
<1>3. ASSUME DOMAIN started = StartedFields, StartedTrue PROVE StartedTrue'
  <2>1. /\ started.armed = FALSE /\ started.units = <<>>
        /\ config.read = Len(lines)
        /\ started.limit = IF "line_printer" \in config.present
                           THEN Setting("line_printer", "column_limit").number % LimitSize
                           ELSE 132
    BY <1>1, <1>3 DEF StartedTrue
  <2>2. started'.armed = WatchdogWanted
    <3>1. WatchdogWanted \in BOOLEAN
      BY DEF WatchdogWanted
    <3> HIDE DEF word
    <3> QED
      BY <1>2, <1>3, <2>1, <3>1
  <2>3. WatchdogWanted' = WatchdogWanted /\ word' = word
    BY <1>1 DEF WatchdogWanted, Setting
  <2>4. started'.armed = TRUE => started'.ac = word'
    <3> HIDE DEF word
    <3> QED
      BY <1>2, <1>3, <2>1, <2>3
  <2>5. /\ config'.read = Len(lines')
        /\ started'.limit = IF "line_printer" \in config'.present
                            THEN Setting("line_printer", "column_limit")'.number % LimitSize
                            ELSE 132
    BY <1>1, <1>2, <1>3, <2>1 DEF Setting
  <2> QED
    BY <1>1, <1>2, <1>3, <2>1, <2>2, <2>3, <2>4, <2>5 DEF StartedTrue, FromSlots
<1> QED
  BY <1>1, <1>2, <1>3, StartStep

LEMMA MountedIsFromSlots ==
  ASSUME ConfigShape(config), NEW units \in Seq(UnitShape), FromSlots(units),
         NEW s \in DOMAIN config.slots, Mountable(config.slots[s])
  PROVE  /\ Mounted(units, config.slots[s]) \in Seq(UnitShape)
         /\ FromSlots(Mounted(units, config.slots[s]))
<1> DEFINE slot == config.slots[s]
           unit == [unit |-> slot.unit, path |-> slot.path, protected |-> slot.protected]
           same == {u \in DOMAIN units : units[u].unit = slot.unit}
           all == Mounted(units, slot)
<1>1. slot \in SlotShape
  BY DEF ConfigShape
<1>2. slot.path # "none"
  BY DEF Mountable
<1>3. all = IF same = {} THEN Append(units, unit) ELSE [units EXCEPT ![Min(same)] = unit]
  BY DEF Mounted
<1> HIDE DEF slot
<1>4. unit \in UnitShape /\ unit.path # "none" /\ FromSlot(unit, slot)
  BY <1>1, <1>2 DEF SlotShape, UnitShape, FromSlot
<1> HIDE DEF unit, same, all
<1>5. /\ all \in Seq(UnitShape)
      /\ \A u \in DOMAIN all : all[u] = unit \/ (u \in DOMAIN units /\ all[u] = units[u])
  <2>1. CASE same = {}
    BY <1>3, <1>4, <2>1
  <2>2. CASE same # {}
    <3>1. same \in SUBSET Nat /\ same \subseteq DOMAIN units
      BY DEF same
    <3>2. PICK m \in DOMAIN units : m = Min(same)
      BY <2>2, <3>1, LeastOf
    <3>3. all = [units EXCEPT ![m] = unit]
      BY <1>3, <2>2, <3>2
    <3> QED
      BY <1>4, <3>3
  <2> QED
    BY <2>1, <2>2
<1>6. \A u \in DOMAIN all :
        all[u].path # "none" /\ \E t \in DOMAIN config.slots : FromSlot(all[u], config.slots[t])
  <2>1. FromSlot(unit, config.slots[s])
    BY <1>4 DEF slot
  <2> QED
    BY <1>4, <1>5, <2>1 DEF FromSlots
<1> QED
  BY <1>5, <1>6 DEF FromSlots, all, slot

LEMMA MountStep == ASSUME ConfigInv, MountUnit PROVE ConfigInv'
<1>1. UNCHANGED <<config, lines>> /\ started.phase = "units" /\ started.next <= Len(config.slots)
  BY DEF MountUnit
<1> DEFINE slot == config.slots[started.next]
<1>2. ASSUME DOMAIN started = StartedFields
      PROVE  /\ DOMAIN started' = StartedFields /\ started'.phase = "units"
             /\ started'.limit = started.limit /\ started'.magtape = started.magtape
             /\ started'.armed = started.armed /\ started'.ac = started.ac
             /\ started'.next = started.next + 1
             /\ \/ started'.units = started.units
                \/ Mountable(slot) /\ started'.units = Mounted(started.units, slot)
  <2>1. CASE started' = [started EXCEPT !.next = @ + 1]
    BY <1>1, <1>2, <2>1 DEF StartedFields
  <2>2. ASSUME Mountable(slot), NEW good,
               started' = [[started EXCEPT !.next = @ + 1]
                             EXCEPT !.units = Mounted(@, slot), !.any = @ \/ good]
        PROVE  /\ DOMAIN started' = StartedFields /\ started'.phase = "units"
               /\ started'.limit = started.limit /\ started'.magtape = started.magtape
               /\ started'.armed = started.armed /\ started'.ac = started.ac
               /\ started'.next = started.next + 1
               /\ started'.units = Mounted(started.units, slot)
    <3> HIDE DEF slot
    <3> QED
      BY <1>1, <1>2, <2>2 DEF StartedFields
  <2> QED
    BY <2>1, <2>2 DEF MountUnit
<1>3. ASSUME DOMAIN started = StartedFields, ConfigShape(config), StartedTrue
      PROVE  StartedTrue'
  <2>1. started.units \in Seq(UnitShape) /\ FromSlots(started.units)
    BY <1>3 DEF StartedTrue
  <2>2. ASSUME Mountable(slot), started.next \in DOMAIN config.slots
        PROVE  /\ Mounted(started.units, slot) \in Seq(UnitShape)
               /\ FromSlots(Mounted(started.units, slot))
    BY <1>3, <2>1, <2>2, MountedIsFromSlots
  <2>3. started.next \in DOMAIN config.slots /\ started'.next \in Nat \ {0}
    <3>1. started.next \in Nat \ {0} /\ config.slots \in Seq(SlotShape)
      BY <1>3 DEF StartedTrue, ConfigShape
    <3> QED
      BY <1>1, <1>2, <1>3, <3>1
  <2>4. started'.units \in Seq(UnitShape) /\ FromSlots(started.units)'
    BY <1>1, <1>2, <1>3, <2>1, <2>2, <2>3 DEF FromSlots
  <2>5. WatchdogWanted' = WatchdogWanted
    BY <1>1 DEF WatchdogWanted, Setting
  <2> QED
    BY <1>1, <1>2, <1>3, <2>3, <2>4, <2>5 DEF StartedTrue, Setting
<1> QED
  BY <1>1, <1>2, <1>3, StartStep

LEMMA ReadyStep == ASSUME ConfigInv, UnitsDone PROVE ConfigInv'
<1>1. UNCHANGED <<config, lines>> /\ started.phase = "units"
  BY DEF UnitsDone
<1>2. ASSUME DOMAIN started = StartedFields
      PROVE  /\ DOMAIN started' = StartedFields /\ started'.phase = "ready"
             /\ started'.limit = started.limit /\ started'.next = started.next
             /\ started'.armed = started.armed /\ started'.ac = started.ac
             /\ started'.magtape = (started.magtape /\ started.any)
             /\ started'.units = IF started.any THEN started.units ELSE <<>>
  BY <1>2 DEF UnitsDone, StartedFields
<1>3. ASSUME DOMAIN started = StartedFields, ConfigShape(config), StartedTrue
      PROVE  StartedTrue'
  <2>1. started.units \in Seq(UnitShape) /\ FromSlots(started.units)
    BY <1>3 DEF StartedTrue
  <2>2. started'.units # <<>> => started.any /\ started'.units = started.units
    BY <1>2, <1>3
  <2>3. started'.units # <<>> => started'.magtape = TRUE
    <3> SUFFICES ASSUME started'.units # <<>> PROVE started'.magtape = TRUE
      OBVIOUS
    <3>1. 1 \in DOMAIN started.units
      BY <2>1, <2>2
    <3>2. config.slots # <<>>
      BY <2>1, <3>1 DEF FromSlots
    <3>3. started.magtape = TRUE
      BY <1>1, <1>3, <3>2 DEF StartedTrue
    <3> QED
      BY <1>2, <1>3, <2>2, <3>3
  <2>4. started'.units \in Seq(UnitShape) /\ FromSlots(started.units)'
    <3>1. CASE started.any
      <4>1. started'.units = started.units
        BY <1>2, <1>3, <3>1
      <4> QED
        BY <1>1, <2>1, <4>1 DEF FromSlots
    <3>2. CASE ~started.any
      <4>1. started'.units = <<>>
        BY <1>2, <1>3, <3>2
      <4> QED
        BY <4>1 DEF FromSlots
    <3> QED
      BY <3>1, <3>2
  <2>5. WatchdogWanted' = WatchdogWanted
    BY <1>1 DEF WatchdogWanted, Setting
  <2> QED
    BY <1>1, <1>2, <1>3, <2>3, <2>4, <2>5 DEF StartedTrue, Setting
<1> QED
  BY <1>1, <1>2, <1>3, StartStep

LEMMA ConfigInvHolds == ConfigSpec => []ConfigInv
<1>1. ConfigInit => ConfigInv
  BY ConfigStarts
<1>2. ASSUME ConfigInv, [ConfigNext]_configVars PROVE ConfigInv'
  <2>1. CASE UNCHANGED configVars
    <3>1. UNCHANGED <<lines, config, started>>
      BY <2>1 DEF configVars
    <3>2. FileIsLines' /\ (Orderly' <=> Orderly) /\ (Orderly => (ReadTrue(config, config.read)' <=> ReadTrue(config, config.read)))
      BY <1>2, <3>1, SameFile, SameReading DEF ConfigInv, FileIsLines
    <3>3. StartedTrue' <=> StartedTrue
      BY <3>1 DEF StartedTrue, FromSlots, WatchdogWanted, Setting
    <3> QED
      BY <1>2, <3>1, <3>2, <3>3 DEF ConfigInv, ConfigShape
  <2> QED
    BY <1>2, <2>1, LineStep, NoFileStep, PrinterStep, ArmStep, MountStep, ReadyStep
       DEF ConfigNext
<1> QED
  BY <1>1, <1>2, PTL DEF ConfigSpec

\* The seven commands are numbers of three bits.
LEMMA CommandIsOctal ==
  ASSUME NEW mode, NEW periodic
  PROVE  WatchdogCommand(mode, periodic) \in 0 .. 7
<1>1. DOMAIN OneShots = {"reset", "halt", "interrupt"}
  BY DEF OneShots
<1>2. OneShots.reset = 1 /\ OneShots.halt = 3 /\ OneShots.interrupt = 5
  BY DEF OneShots
<1>3. CASE mode \in DOMAIN OneShots
  <2>1. OneShots[mode] \in 1 .. 5
    BY <1>1, <1>2, <1>3
  <2>2. mode # "unset" /\ mode # "tick"
    BY <1>1, <1>3
  <2>3. WatchdogCommand(mode, periodic) = OneShots[mode] + (IF periodic THEN 1 ELSE 0)
    BY <1>3, <2>2 DEF WatchdogCommand
  <2> HIDE DEF OneShots
  <2> QED
    BY <2>1, <2>3
<1>4. CASE mode \notin DOMAIN OneShots
  <2>1. CASE mode = "unset"
    BY <1>4, <2>1 DEF WatchdogCommand
  <2>2. CASE mode = "tick"
    BY <1>4, <2>2 DEF WatchdogCommand
  <2>3. CASE mode # "unset" /\ mode # "tick"
    BY <1>4, <2>3 DEF WatchdogCommand
  <2> QED
    BY <2>1, <2>2, <2>3
<1> QED
  BY <1>3, <1>4

\* A count or a limit the file gives is a number the device can be given.
LEMMA NumbersAccepted ==
  ASSUME FileIsLines
  PROVE  /\ FileSays("line_printer", "column_limit").number \in Nat
         /\ FileSays("watchdog", "default_count").number \in Nat
<1> SUFFICES ASSUME NEW k \in NumberKeys PROVE FileSays(k[1], k[2]).number \in Nat
  BY DEF NumberKeys
<1> DEFINE there == SettingLines(k[1], k[2])
<1>1. k = <<k[1], k[2]>>
  BY DEF NumberKeys
<1>2. CASE there = {}
  <2>1. DefaultSettings[k].number \in Nat
    <3>1. k \in Settings /\ k \notin FlagKeys
      BY DEF Settings, NumberKeys, FlagKeys
    <3>2. DefaultSettings[k] = Number(132) \/ DefaultSettings[k] = Unset
      BY <3>1 DEF DefaultSettings, FlagKeys, NumberKeys
    <3> QED
      BY <3>2 DEF Number, Unset, Text
  <2> QED
    BY <1>1, <1>2, <2>1 DEF FileSays
<1>3. CASE there # {}
  <2>1. there \in SUBSET Nat /\ \A i \in there : i < Len(lines) + 1
    BY DEF SettingLines, FileIsLines
  <2>2. Len(lines) + 1 \in Nat
    BY DEF FileIsLines
  <2>3. Max(there) \in there
    BY <1>3, <2>1, <2>2, GreatestOfBounded
  <2> HIDE DEF there
  <2>4. PICK i \in there : i = Max(there)
    BY <2>3
  <2>5. i \in DOMAIN lines /\ lines[i].kind = "set" /\ Accepted(k, Value(lines[i]))
    BY <1>1 DEF there, SettingLines
  <2>6. lines[i].number \in Int
    BY <2>5, LineKinds
  <2>7. Value(lines[i]).number = lines[i].number
    BY DEF Value
  <2>8. Value(lines[i]).number >= 0
    BY <2>5, <2>6, <2>7 DEF Accepted, NumberKeys
  <2>9. FileSays(k[1], k[2]) = Value(lines[i])
    BY <1>3, <2>4 DEF FileSays, there
  <2> QED
    BY <2>6, <2>7, <2>8, <2>9
<1> QED
  BY <1>2, <1>3

\* At the end of the file, what was read is what the file says.
LEMMA AllRead ==
  ASSUME FileIsLines
  PROVE  /\ \A k \in Settings : SaysUntil(Len(lines), k) = FileSays(k[1], k[2])
         /\ \A u, key : UntilLine(UnitLines(u, key), Len(lines)) = UnitLines(u, key)
         /\ \A device : AskedUntil(Len(lines), device) <=> Asked(device)
<1>1. \A i \in DOMAIN lines : i <= Len(lines)
  BY DEF FileIsLines
<1>2. \A device, key : UntilLine(SettingLines(device, key), Len(lines)) = SettingLines(device, key)
  BY <1>1 DEF UntilLine, SettingLines
<1>3. \A k \in Settings : SaysUntil(Len(lines), k) = FileSays(k[1], k[2])
  <2>1. \A k \in Settings : k = <<k[1], k[2]>>
    BY SettingPairs
  <2> QED
    BY <1>2, <2>1 DEF SaysUntil, FileSays
<1>4. \A u, key : UntilLine(UnitLines(u, key), Len(lines)) = UnitLines(u, key)
  BY <1>1 DEF UntilLine, UnitLines
<1>5. \A device : AskedUntil(Len(lines), device) <=> Asked(device)
  BY <1>1 DEF AskedUntil, Asked
<1> QED
  BY <1>3, <1>4, <1>5

LEMMA InvConfigures == ConfigInv => MachineAsConfigured
<1> SUFFICES ASSUME ConfigInv, started.phase = "ready", config.loaded, Orderly
             PROVE  MachineAsConfigured
  BY DEF MachineAsConfigured
<1> DEFINE limit == FileSays("line_printer", "column_limit").number
           count == FileSays("watchdog", "default_count").number
           wanted == Asked("watchdog") /\ FileSays("watchdog", "enabled").flag = "true"
           periodic == FileSays("watchdog", "periodic").flag = "true"
           command == WatchdogCommand(FileSays("watchdog", "mode").text, periodic)
<1>1. /\ FileIsLines /\ ConfigShape(config) /\ ReadTrue(config, config.read)
      /\ StartedTrue /\ config.read = Len(lines)
  BY DEF ConfigInv, StartedTrue
<1>2. \A k \in Settings : config.settings[k] = FileSays(k[1], k[2])
  BY <1>1, AllRead DEF ReadTrue, SettingsTrue
<1>3. /\ Setting("line_printer", "column_limit") = FileSays("line_printer", "column_limit")
      /\ Setting("watchdog", "enabled") = FileSays("watchdog", "enabled")
      /\ Setting("watchdog", "periodic") = FileSays("watchdog", "periodic")
      /\ Setting("watchdog", "mode") = FileSays("watchdog", "mode")
      /\ Setting("watchdog", "default_count") = FileSays("watchdog", "default_count")
  <2>1. /\ <<"line_printer", "column_limit">> \in Settings
        /\ <<"watchdog", "enabled">> \in Settings /\ <<"watchdog", "periodic">> \in Settings
        /\ <<"watchdog", "mode">> \in Settings /\ <<"watchdog", "default_count">> \in Settings
    BY DEF Settings, TextKeys, FlagKeys, NumberKeys
  <2> QED
    BY <1>2, <2>1 DEF Setting
<1>4. \A device \in Named : device \in config.present <=> Asked(device)
  <2>1. \A device \in Named : device \notin {Outside.device, "magtape"}
    BY NoName DEF Named
  <2> QED
    BY <1>1, <2>1, AllRead DEF ReadTrue, PresentTrue
<1>5. Asked("line_printer") /\ limit < LimitSize => started.limit = limit
  <2>1. limit \in Nat
    BY <1>1, NumbersAccepted
  <2>2. Asked("line_printer") => started.limit = limit % LimitSize
    BY <1>1, <1>3, <1>4 DEF StartedTrue, Named
  <2> HIDE DEF limit
  <2>3. limit < LimitSize => limit % LimitSize = limit
    BY <2>1, ConfigurationConstantsAssumption
  <2> QED
    BY <2>2, <2>3
<1>6. started.armed = wanted
  <2>1. WatchdogWanted = wanted
    BY <1>3, <1>4 DEF WatchdogWanted, Named
  <2>2. started.armed = WatchdogWanted
    BY <1>1 DEF StartedTrue
  <2> QED
    BY <2>1, <2>2
<1>7. wanted => /\ count < 512 => started.ac % 512 = count
                                  /\ started.ac \div 512 = command
                /\ (started.ac \div 512) \in 0 .. 7
  <2> SUFFICES ASSUME wanted
               PROVE  /\ count < 512 => started.ac % 512 = count
                                        /\ started.ac \div 512 = command
                      /\ (started.ac \div 512) \in 0 .. 7
    OBVIOUS
  <2>1. started.armed = TRUE
    BY <1>6
  <2>2. started.ac = command * 512 + (count % 512)
    BY <1>1, <1>3, <2>1 DEF StartedTrue, ControlWord
  <2>3. PICK m \in 0 .. 7 : m = command
    BY CommandIsOctal
  <2>4. PICK n \in Nat : n = count
    BY <1>1, NumbersAccepted
  <2> HIDE DEF command, count, wanted, limit, periodic
  <2>5. PICK r \in 0 .. 511 : r = n % 512
    OBVIOUS
  <2>6. started.ac = m * 512 + r
    BY <2>2, <2>3, <2>4, <2>5
  <2>7. started.ac \div 512 = m /\ started.ac % 512 = r
    BY <2>6
  <2>8. n < 512 => r = n
    BY <2>5
  <2> QED
    BY <2>3, <2>4, <2>7, <2>8
<1>8. ASSUME NEW u \in DOMAIN started.units
      PROVE  LET unit == started.units[u]
                 paths == UnitLines(unit.unit, "path")
                 flags == UnitLines(unit.unit, "write_protected")
             IN  /\ paths # {} /\ unit.path = lines[Max(paths)].text
                 /\ unit.protected <=>
                      flags # {} /\ lines[Max(flags)].flag = "true"
  <2>1. started.units[u].path # "none"
    BY <1>1, <1>8 DEF StartedTrue, FromSlots
  <2>2. PICK s \in DOMAIN config.slots : FromSlot(started.units[u], config.slots[s])
    BY <1>1, <1>8 DEF StartedTrue, FromSlots
  <2>3. SlotSays(config.slots[s], Len(lines))
    BY <1>1 DEF ReadTrue, SlotsTrue
  <2> QED
    BY <1>1, <2>1, <2>2, <2>3, AllRead DEF SlotSays, FromSlot
<1>9. started.units # <<>> => started.magtape
  BY <1>1 DEF StartedTrue
<1> QED
  BY <1>5, <1>6, <1>7, <1>8, <1>9 DEF MachineAsConfigured

\* MachineAsConfigured: the machine that starts is the one an orderly file describes
\* (monitor_platform_posix.c:82, monitor.c:1754-1937).
THEOREM TheFileIsObeyed == ConfigSpec => []MachineAsConfigured
  BY ConfigInvHolds, InvConfigures, PTL

-----------------------------------------------------------------------------
(* Configuration: the types, of any file, orderly or not.                   *)

Flags == {"true", "false", "neither"}

SettingsFit(settings) ==
  \A k \in Settings : settings[k].flag \in Flags /\ settings[k].number \in Int

StanzaFits(c) ==
  /\ c.stanza.slot \in 0 .. Len(c.slots)
  /\ c.stanza.device # "magtape" => c.stanza.slot = 0

StructFits(c) ==
  /\ ConfigShape(c) /\ SettingsFit(c.settings)
  /\ Len(c.slots) <= MaxUnits + 2 /\ StanzaFits(c)

StartFits ==
  /\ DOMAIN started = StartedFields
  /\ started.limit \in 0 .. 132 \cup 0 .. LimitSize /\ started.ac \in Word

ConfigTyped ==
  /\ FileIsLines /\ StructFits(config) /\ StartFits
  /\ config.read = 0 => config.stanza.slot = 0

LEMMA ConfigLineTyped ==
  ASSUME NEW line \in ConfigLine
  PROVE  /\ line.kind \in Kinds
         /\ line.kind = "open" => line.device \in STRING /\ line.unit \in Int
         /\ line.kind = "set" =>
              line.flag \in Flags /\ line.number \in Int /\ line.text \in STRING
<1>1. line.kind \in Kinds
  BY DEF ConfigLine, Kinds
<1>2. line.kind = "open" => line.device \in STRING /\ line.unit \in Int
  BY DEF ConfigLine
<1>3. line.kind = "set" => line.number \in Int /\ line.text \in STRING
  BY DEF ConfigLine
<1>4. line.kind = "set" => line.flag \in Flags
  BY DEF ConfigLine, Flags
<1> QED
  BY <1>1, <1>2, <1>3, <1>4

LEMMA OpenFits ==
  ASSUME NEW c, StructFits(c), NEW line \in ConfigLine, line.kind = "open"
  PROVE  StructFits(Open(c, line))
<1>1. ConfigShape(c) /\ c.slots \in Seq(SlotShape) /\ Len(c.slots) \in Nat
  BY DEF StructFits, ConfigShape
<1>2. line.device \in STRING /\ line.unit \in Int
  BY ConfigLineTyped
<1>3. ASSUME NEW s \in StanzaShape, s.slot \in 0 .. Len(c.slots),
             s.device # "magtape" => s.slot = 0
      PROVE  StructFits([c EXCEPT !.stanza = s])
  <2> DEFINE d == [c EXCEPT !.stanza = s]
  <2>1. /\ DOMAIN d = DOMAIN c /\ d.settings = c.settings /\ d.slots = c.slots
        /\ d.stanza = s /\ d.read = c.read
    BY <1>1 DEF ConfigShape, ConfigFields
  <2> HIDE DEF d
  <2>2. ConfigShape(d)
    BY <1>1, <2>1 DEF ConfigShape
  <2>3. StructFits(d)
    BY <1>3, <2>1, <2>2 DEF StructFits, StanzaFits
  <2> QED
    BY <2>3 DEF d
<1>4. ASSUME NEW device \in STRING \cup {Outside.device, "magtape"}, NEW n \in Nat
      PROVE  LET s == [device |-> device, slot |-> n]
             IN  s \in StanzaShape /\ s.device = device /\ s.slot = n
  BY DEF StanzaShape
<1>5. 0 \in 0 .. Len(c.slots)
  BY <1>1
<1>6. \A device \in STRING \cup {"magtape"} :
        StructFits([c EXCEPT !.stanza = [device |-> device, slot |-> 0]])
  BY <1>3, <1>4, <1>5
<1>7. CASE SlotsOf(c, line.unit) # {}
  <2> DEFINE S == SlotsOf(c, line.unit)
  <2>1. S \in SUBSET Nat /\ \A s \in S : s \in 1 .. Len(c.slots)
    BY <1>1 DEF SlotsOf
  <2>2. WithSlot(c, line.unit) = [c EXCEPT !.stanza = [device |-> "magtape", slot |-> Min(S)]]
    BY <1>7 DEF WithSlot
  <2> HIDE DEF S
  <2>3. Min(S) \in 0 .. Len(c.slots)
    BY <1>7, <1>1, <2>1, LeastOf DEF S
  <2>4. PICK m \in 0 .. Len(c.slots) : m = Min(S)
    BY <2>3
  <2>5. m \in Nat
    BY <1>1, <2>4
  <2>6. StructFits([c EXCEPT !.stanza = [device |-> "magtape", slot |-> m]])
    BY <1>3, <1>4, <2>4, <2>5
  <2>7. StructFits(WithSlot(c, line.unit))
    BY <2>2, <2>4, <2>6
  <2> QED
    BY <1>2, <1>6, <2>7 DEF Open
<1>8. CASE SlotsOf(c, line.unit) = {} /\ Len(c.slots) < MaxUnits
  <2> DEFINE more == Append(c.slots, NewSlot(line.unit))
             s == [device |-> "magtape", slot |-> Len(c.slots) + 1]
             d == [c EXCEPT !.slots = more, !.stanza = s]
  <2>1. WithSlot(c, line.unit) = d
    BY <1>8 DEF WithSlot
  <2>2. NewSlot(line.unit) \in SlotShape
    BY <1>2 DEF NewSlot, SlotShape, Paths
  <2>3. more \in Seq(SlotShape) /\ Len(more) = Len(c.slots) + 1
    BY <1>1, <2>2
  <2>4. s \in StanzaShape /\ s.slot = Len(c.slots) + 1 /\ s.device = "magtape"
    BY <1>1, <1>4, <1>5
  <2>5. /\ DOMAIN d = DOMAIN c /\ d.settings = c.settings /\ d.slots = more
        /\ d.stanza = s /\ d.read = c.read
    BY <1>1 DEF ConfigShape, ConfigFields
  <2> HIDE DEF d, more, s
  <2>6. ConfigShape(d)
    BY <1>1, <2>3, <2>4, <2>5 DEF ConfigShape
  <2>7. StructFits(d)
    BY <1>1, <1>8, <2>3, <2>4, <2>5, <2>6, ConfigurationConstantsAssumption
       DEF StructFits, StanzaFits
  <2> QED
    BY <1>2, <1>6, <2>1, <2>7 DEF Open
<1>9. CASE SlotsOf(c, line.unit) = {} /\ ~(Len(c.slots) < MaxUnits)
  <2>1. WithSlot(c, line.unit) = [c EXCEPT !.stanza = [device |-> "magtape", slot |-> 0]]
    BY <1>9 DEF WithSlot
  <2> QED
    BY <1>2, <1>6, <2>1 DEF Open
<1> QED
  BY <1>7, <1>8, <1>9

LEMMA SetFits ==
  ASSUME NEW c, StructFits(c), NEW line \in ConfigLine, line.kind = "set"
  PROVE  StructFits(Set(c, line))
<1> DEFINE k == <<c.stanza.device, line.key>>
           v == Value(line)
<1>1. ConfigShape(c) /\ SettingsFit(c.settings)
  BY DEF StructFits
<1>2. v.flag \in Flags /\ v.number \in Int
  BY ConfigLineTyped DEF Value
<1> HIDE DEF v
<1>3. PICK p, t :
        /\ SettingsFit(t) /\ DOMAIN t = Settings
        /\ Set(c, line) = [c EXCEPT !.settings = t, !.present = p]
  <2>1. CASE k \in Settings /\ Accepted(k, v)
    <3> DEFINE t == [c.settings EXCEPT ![k] = v]
               p == c.present \cup {k[1]}
    <3>1. \A q \in Settings : t[q] = IF q = k THEN v ELSE c.settings[q]
      BY <1>1 DEF ConfigShape
    <3>2. SettingsFit(t) /\ DOMAIN t = Settings
      BY <1>1, <1>2, <3>1 DEF SettingsFit, ConfigShape
    <3>3. Set(c, line) = [c EXCEPT !.settings = t, !.present = p]
      BY <2>1 DEF Set, v
    <3> QED
      BY <3>2, <3>3
  <2>2. CASE ~(k \in Settings /\ Accepted(k, v))
    <3> DEFINE p == c.present \cup {c.stanza.device}
    <3>1. Set(c, line) = [c EXCEPT !.present = p]
      BY <2>2 DEF Set, v
    <3>2. Set(c, line) = [c EXCEPT !.settings = c.settings, !.present = p]
      BY <1>1, <3>1 DEF ConfigShape, ConfigFields
    <3> QED
      BY <1>1, <3>2 DEF ConfigShape
  <2> QED
    BY <2>1, <2>2
<1> DEFINE d == [c EXCEPT !.settings = t, !.present = p]
<1>4. /\ DOMAIN d = DOMAIN c /\ d.settings = t /\ d.slots = c.slots
      /\ d.stanza = c.stanza /\ d.read = c.read
  BY <1>1 DEF ConfigShape, ConfigFields
<1>5. Set(c, line) = d
  BY <1>3
<1> HIDE DEF d
<1> QED
  BY <1>1, <1>3, <1>4, <1>5 DEF StructFits, ConfigShape, StanzaFits

LEMMA SetSlotFits ==
  ASSUME NEW c, StructFits(c), c.stanza.slot # 0,
         NEW line \in ConfigLine, line.kind = "set"
  PROVE  StructFits(SetSlot(c, line))
<1> DEFINE s == c.stanza.slot
<1>1. ConfigShape(c) /\ c.slots \in Seq(SlotShape) /\ Len(c.slots) \in Nat
  BY DEF StructFits, ConfigShape
<1>2. s \in 1 .. Len(c.slots)
  BY <1>1 DEF StructFits, StanzaFits
<1> DEFINE old == c.slots[s]
           slot == [old EXCEPT !.present = TRUE]
           after ==
             CASE line.key = "unit" /\ line.number >= 0 -> [slot EXCEPT !.unit = line.number]
               [] line.key = "path" -> [slot EXCEPT !.path = line.text]
               [] line.key = "write_protected" /\ line.flag # "neither" ->
                    [slot EXCEPT !.protected = (line.flag = "true")]
               [] OTHER -> slot
           d == SetSlot(c, line)
<1>3. line.number \in Int /\ line.text \in STRING
  BY ConfigLineTyped
<1>4. d = [c EXCEPT !.slots[s] = after]
  BY DEF SetSlot
<1>5. slot \in SlotShape
  <2>1. old \in SlotShape
    BY <1>1, <1>2
  <2> HIDE DEF old
  <2> QED
    BY <2>1 DEF SlotShape
<1> HIDE DEF slot
<1>6. after \in SlotShape
  <2>1. [slot EXCEPT !.unit = line.number] \in SlotShape
    BY <1>3, <1>5 DEF SlotShape
  <2>2. [slot EXCEPT !.path = line.text] \in SlotShape
    BY <1>3, <1>5 DEF SlotShape, Paths
  <2>3. [slot EXCEPT !.protected = (line.flag = "true")] \in SlotShape
    BY <1>5 DEF SlotShape
  <2> QED
    BY <1>5, <2>1, <2>2, <2>3
<1> HIDE DEF d, after
<1>7. /\ DOMAIN d = DOMAIN c /\ d.slots = [c.slots EXCEPT ![s] = after]
      /\ d.settings = c.settings /\ d.stanza = c.stanza /\ d.read = c.read
  BY <1>1, <1>4 DEF ConfigShape, ConfigFields
<1>8. d.slots \in Seq(SlotShape) /\ Len(d.slots) = Len(c.slots)
  BY <1>1, <1>2, <1>6, <1>7
<1>9. StructFits(d)
  BY <1>1, <1>7, <1>8 DEF StructFits, ConfigShape, StanzaFits
<1> QED
  BY <1>9 DEF d

LEMMA LineFits ==
  ASSUME NEW c, StructFits(c), NEW line \in ConfigLine
  PROVE  StructFits(AfterConfigLine(c, line))
<1>1. line.kind \in Kinds
  BY ConfigLineTyped
<1>2. ConfigShape(c) /\ c.slots \in Seq(SlotShape) /\ Len(c.slots) \in Nat
  BY DEF StructFits, ConfigShape
<1>3. CASE c.stanza = Outside /\ line.kind = "open"
  BY <1>3, OpenFits DEF AfterConfigLine
<1>4. CASE c.stanza # Outside /\ line.kind = "close"
  <2> DEFINE d == [c EXCEPT !.stanza = Outside]
  <2>1. /\ DOMAIN d = DOMAIN c /\ d.settings = c.settings /\ d.slots = c.slots
        /\ d.stanza = Outside /\ d.read = c.read
    BY <1>2 DEF ConfigShape, ConfigFields
  <2>2. AfterConfigLine(c, line) = d
    BY <1>4 DEF AfterConfigLine
  <2> HIDE DEF d
  <2> QED
    BY <1>2, <2>1, <2>2, NoStanza DEF StructFits, ConfigShape, StanzaFits
<1>5. CASE c.stanza # Outside /\ line.kind = "set" /\ c.stanza.device # "magtape"
  <2>1. c.stanza.slot = 0
    BY <1>5 DEF StructFits, StanzaFits
  <2>2. AfterConfigLine(c, line) = Set(c, line)
    BY <1>5, <2>1 DEF AfterConfigLine
  <2> QED
    BY <1>5, <2>2, SetFits
<1>6. CASE c.stanza.slot # 0 /\ line.kind = "set"
           /\ ~(c.stanza # Outside /\ c.stanza.device # "magtape")
  BY <1>6, SetSlotFits DEF AfterConfigLine
<1>7. CASE /\ ~(c.stanza = Outside /\ line.kind = "open")
           /\ ~(c.stanza # Outside /\ line.kind = "close")
           /\ ~(c.stanza # Outside /\ line.kind = "set" /\ c.stanza.device # "magtape")
           /\ ~(c.stanza.slot # 0 /\ line.kind = "set")
  BY <1>7 DEF AfterConfigLine
<1> QED
  BY <1>3, <1>4, <1>5, <1>6, <1>7

LEMMA ConfigInitTyped == ConfigInit => ConfigTyped
<1> SUFFICES ASSUME ConfigInit PROVE ConfigTyped
  OBVIOUS
<1>1. FileIsLines
  BY ConfigurationConstantsAssumption DEF ConfigInit, FileIsLines
<1>2. /\ DOMAIN config = ConfigFields /\ config.settings = DefaultSettings
      /\ config.slots = <<>> /\ config.stanza = Outside /\ config.read = 0
  BY DEF ConfigInit, ConfigFields
<1>3. DOMAIN DefaultSettings = Settings /\ SettingsFit(DefaultSettings)
  <2>1. ASSUME NEW k \in Settings
        PROVE  DefaultSettings[k] \in {Number(132), Flag("true"), Flag("false"), Unset}
    BY DEF DefaultSettings
  <2>2. \A v \in {Number(132), Flag("true"), Flag("false"), Unset} :
          v.flag \in Flags /\ v.number \in Int
    BY DEF Number, Flag, Unset, Text, Flags
  <2> QED
    BY <2>1, <2>2 DEF SettingsFit, DefaultSettings
<1>4. StructFits(config)
  BY <1>2, <1>3, NoStanza, ConfigurationConstantsAssumption
     DEF StructFits, ConfigShape, StanzaFits
<1>5. DOMAIN started = StartedFields /\ started.limit = 132 /\ started.ac = 0
  BY DEF ConfigInit, StartedFields
<1>6. 0 \in Word
  BY WordIf
<1> QED
  BY <1>1, <1>2, <1>4, <1>5, <1>6, NoStanza DEF ConfigTyped, StartFits

LEMMA ControlWordTyped ==
  ASSUME NEW mode, NEW periodic \in BOOLEAN, NEW count \in Int
  PROVE  ControlWord(WatchdogCommand(mode, periodic), count) \in Word
<1>1. PICK m \in 0 .. 7 : m = WatchdogCommand(mode, periodic)
  BY CommandIsOctal
<1>2. PICK r \in 0 .. 511 : r = count % 512
  OBVIOUS
<1>3. ControlWord(WatchdogCommand(mode, periodic), count) = m * 512 + r
  BY <1>1, <1>2 DEF ControlWord
<1> QED
  BY <1>3, WordIf

LEMMA ConfigNextTyped == ConfigTyped /\ [ConfigNext]_configVars => ConfigTyped'
<1> SUFFICES ASSUME ConfigTyped, [ConfigNext]_configVars PROVE ConfigTyped'
  OBVIOUS
<1>1. FileIsLines /\ StructFits(config) /\ StartFits
  BY DEF ConfigTyped
<1>2. lines' = lines
  BY DEF ConfigNext, configVars, ReadConfigLine, NoConfigFile, SetUpPrinter, ArmWatchdog,
         MountUnit, UnitsDone
<1>3. FileIsLines'
  BY <1>1, <1>2 DEF FileIsLines
<1>4. CASE ReadConfigLine
  <2> DEFINE line == lines[config.read + 1]
             d == AfterConfigLine(config, line)
  <2>1. config.read \in Nat /\ config.read < Len(lines)
    BY <1>1, <1>4 DEF ReadConfigLine, StructFits, ConfigShape
  <2>2. line \in ConfigLine
    BY <1>1, <2>1 DEF FileIsLines
  <2> HIDE DEF line
  <2>3. StructFits(d)
    BY <1>1, <2>2, LineFits
  <2>4. config' = [d EXCEPT !.read = @ + 1] /\ started' = started
    BY <1>4 DEF ReadConfigLine, line
  <2> HIDE DEF d
  <2>5. DOMAIN d = ConfigFields /\ d.read \in Nat
    BY <2>3 DEF StructFits, ConfigShape
  <2>6. /\ DOMAIN config' = DOMAIN d /\ config'.settings = d.settings
        /\ config'.slots = d.slots /\ config'.stanza = d.stanza
        /\ config'.read \in Nat /\ config'.read # 0
    BY <2>4, <2>5 DEF ConfigFields
  <2>7. StructFits(config')
    BY <2>3, <2>6 DEF StructFits, ConfigShape, StanzaFits
  <2> QED
    BY <1>1, <1>3, <2>4, <2>6, <2>7 DEF ConfigTyped, StartFits
<1>5. CASE NoConfigFile
  <2>1. PICK a \in SlotShape, b \in SlotShape :
          config' = [config EXCEPT !.loaded = FALSE, !.slots = <<a, b>>]
    <3>1. /\ [unit |-> 0, present |-> TRUE, path |-> "demo", protected |-> TRUE] \in SlotShape
          /\ [unit |-> 1, present |-> TRUE, path |-> "magtape", protected |-> FALSE] \in SlotShape
      BY DEF SlotShape, Paths
    <3> QED
      BY <1>5, <3>1, Zenon DEF NoConfigFile
  <2>2. /\ ConfigShape(config) /\ DOMAIN config' = DOMAIN config
        /\ config'.settings = config.settings /\ config'.slots = <<a, b>>
        /\ config'.stanza = config.stanza /\ config'.read = config.read
    BY <1>1, <2>1 DEF StructFits, ConfigShape, ConfigFields
  <2>3. <<a, b>> \in Seq(SlotShape) /\ Len(<<a, b>>) = 2
    BY <2>1
  <2>4. config.stanza.slot = 0
    BY <1>5 DEF ConfigTyped, NoConfigFile
  <2>5. StructFits(config')
    BY <1>1, <2>2, <2>3, <2>4, ConfigurationConstantsAssumption
       DEF StructFits, ConfigShape, StanzaFits
  <2>6. DOMAIN started' = StartedFields /\ started'.limit = started.limit /\ started'.ac = started.ac
    BY <1>1, <1>5 DEF NoConfigFile, StartFits, StartedFields
  <2> QED
    BY <1>1, <1>3, <2>2, <2>4, <2>5, <2>6 DEF ConfigTyped, StartFits
<1>6. CASE SetUpPrinter
  <2>1. PICK limit \in 0 .. 132 \cup 0 .. LimitSize :
          started' = [started EXCEPT !.phase = "watchdog", !.limit = limit]
    <3>1. CASE "line_printer" \in config.present
      <4>1. PICK n \in Int : n = Setting("line_printer", "column_limit").number
        <5>1. <<"line_printer", "column_limit">> \in Settings
          BY DEF Settings, NumberKeys
        <5> QED
          BY <1>1, <5>1 DEF StructFits, SettingsFit, Setting
      <4>2. n % LimitSize \in 0 .. LimitSize
        BY ConfigurationConstantsAssumption
      <4>3. started' = [started EXCEPT !.phase = "watchdog", !.limit = n % LimitSize]
        BY <1>6, <3>1, <4>1 DEF SetUpPrinter
      <4> QED
        BY <4>2, <4>3
    <3>2. CASE "line_printer" \notin config.present
      <4>1. started' = [started EXCEPT !.phase = "watchdog", !.limit = 132]
        BY <1>6, <3>2 DEF SetUpPrinter
      <4>2. 132 \in 0 .. 132 \cup 0 .. LimitSize
        OBVIOUS
      <4> QED
        BY <4>1, <4>2
    <3> QED
      BY <3>1, <3>2
  <2>2. DOMAIN started' = StartedFields /\ started'.limit = limit /\ started'.ac = started.ac
    BY <1>1, <2>1 DEF StartFits, StartedFields
  <2>3. config' = config
    BY <1>6 DEF SetUpPrinter
  <2> QED
    BY <1>1, <1>3, <2>1, <2>2, <2>3 DEF ConfigTyped, StartFits
<1>7. CASE ArmWatchdog
  <2>1. config' = config
    BY <1>7 DEF ArmWatchdog
  <2>2. /\ DOMAIN started' = StartedFields /\ started'.limit = started.limit
        /\ started'.ac \in Word
    <3> DEFINE ac == ControlWord(
                       WatchdogCommand(Setting("watchdog", "mode").text,
                                       Setting("watchdog", "periodic").flag = "true"),
                       Setting("watchdog", "default_count").number)
    <3>1. Setting("watchdog", "default_count").number \in Int
      <4>1. <<"watchdog", "default_count">> \in Settings
        BY DEF Settings, NumberKeys
      <4> QED
        BY <1>1, <4>1 DEF StructFits, SettingsFit, Setting
    <3>2. ac \in Word
      <4>1. (Setting("watchdog", "periodic").flag = "true") \in BOOLEAN
        OBVIOUS
      <4> QED
        BY <3>1, <4>1, ControlWordTyped
    <3>3. \/ started' = [started EXCEPT !.phase = "units", !.armed = TRUE,
                           !.magtape = config.slots # <<>>,
                           !.ac = ac, !.mem0 = \o6552, !.pc = 1]
          \/ started' = [started EXCEPT !.phase = "units", !.magtape = config.slots # <<>>]
      BY <1>7 DEF ArmWatchdog
    <3> HIDE DEF ac
    <3>4. DOMAIN started = StartedFields /\ started.ac \in Word
      BY <1>1 DEF StartFits
    <3>5. CASE started' = [started EXCEPT !.phase = "units", !.armed = TRUE,
                             !.magtape = config.slots # <<>>,
                             !.ac = ac, !.mem0 = \o6552, !.pc = 1]
      BY <3>2, <3>4, <3>5 DEF StartedFields
    <3>6. CASE started' = [started EXCEPT !.phase = "units", !.magtape = config.slots # <<>>]
      BY <3>4, <3>6 DEF StartedFields
    <3> QED
      BY <3>3, <3>5, <3>6
  <2> QED
    BY <1>1, <1>3, <2>1, <2>2 DEF ConfigTyped, StartFits
<1>8. CASE MountUnit \/ UnitsDone
  <2>1. config' = config
    BY <1>8 DEF MountUnit, UnitsDone
  <2>2. /\ DOMAIN started' = StartedFields /\ started'.limit = started.limit
        /\ started'.ac = started.ac
    BY <1>1, <1>8 DEF MountUnit, UnitsDone, StartFits, StartedFields
  <2> QED
    BY <1>1, <1>3, <2>1, <2>2 DEF ConfigTyped, StartFits
<1>9. CASE UNCHANGED configVars
  BY <1>1, <1>3, <1>9 DEF ConfigTyped, StartFits, configVars
<1> QED
  BY <1>4, <1>5, <1>6, <1>7, <1>8, <1>9 DEF ConfigNext

LEMMA ConfigTypedTypes == ConfigTyped => ConfigTypeOK
  BY DEF ConfigTyped, StructFits, SettingsFit, StanzaFits, Flags, StartFits, ConfigTypeOK

\* Whatever the file says, no flag is but one of the three readings, no slot is
\* outside the table, and what the watchdog is armed with is a word
\* (monitor_config.h; monitor_platform_posix.c:82).
THEOREM ConfigTypeCorrect == ConfigSpec => []ConfigTypeOK
  BY ConfigTypedTypes, ConfigInitTyped, ConfigNextTyped, PTL DEF ConfigSpec
=============================================================================
