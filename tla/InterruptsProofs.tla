-------------------------- MODULE InterruptsProofs --------------------------
(***************************************************************************)
(* Proofs about a main program of MCInterrupts and the requests that        *)
(* interrupt it: between any two steps the machine is on the main program's *)
(* own course, or in a service routine that leads back to it.               *)
(***************************************************************************)
EXTENDS MCInterrupts, Pdp8CpuProofs

(***************************************************************************)
(* What the main program passes through when nothing interrupts it: PC, AC, *)
(* LINK, and the words 044, 045 and 011 it changes.                         *)
(***************************************************************************)
Course ==
  { <<\o30, 0, 0, 0, \o7776, \o45>>, <<\o31, 0, 0, 0, \o7776, \o45>>,
    <<\o32, 0, 0, 0, \o7776, \o45>>, <<\o33, 0, 0, 0, \o7776, \o45>>,
    <<\o34, \o6000, 0, 0, \o7776, \o46>>, <<\o35, \o4000, 1, 0, \o7776, \o46>>,
    <<\o36, 0, 1, \o4000, \o7776, \o46>>, <<\o37, 0, 1, \o4000, \o7777, \o46>>,
    <<\o31, 0, 1, \o4000, \o7777, \o46>>, <<\o32, 0, 0, \o4000, \o7777, \o46>>,
    <<\o33, \o4000, 0, \o4000, \o7777, \o46>>, <<\o34, \o1000, 1, \o4000, \o7777, \o47>>,
    <<\o35, \o2001, 0, \o4000, \o7777, \o47>>, <<\o36, 0, 0, \o2001, \o7777, \o47>>,
    <<\o40, 0, 0, \o2001, 0, \o47>>, <<\o41, 0, 0, \o2001, 0, \o47>> }

Resumes(pc, ac, link, m) ==
  <<pc, ac, link, m[\o44], m[\o45], m[\o11]>> \in Course

Routine == \o20 .. \o26

\* The words nothing may change.
Text == Routine \cup \o30 .. \o40 \cup {\o46, \o47}

TextKept(m) == \A a \in Text : m[a] = Program[a]

\* The main program is running, as if it were alone.
OnMain(c) ==
  /\ Resumes(c.pc, c.ac, c.link, c.mem)
  /\ c.ion <=> c.pc # \o30
  /\ c.halted <=> c.pc = \o41

\* The routine has put back LINK, then AC.
Restoring(c) ==
  /\ c.pc = \o22 => c.ac = 0 /\ c.link = 0
  /\ c.pc = \o23 => c.ac = c.mem[\o10] /\ c.link = 0
  /\ c.pc = \o24 => c.ac = 0 /\ c.link = c.mem[\o10]
  /\ c.pc \in {\o25, \o26} => c.ac = c.mem[\o6] /\ c.link = c.mem[\o10]

\* The service routine is running, and what it will return to is a point the
\* main program passes through.
InService(c) ==
  /\ c.pc \in Routine
  /\ Resumes(c.mem[\o7], c.mem[\o6], c.mem[\o10], c.mem) /\ c.mem[\o7] # \o30
  /\ c.ion <=> c.pc = \o26
  /\ c.halted <=> c.mem[\o7] = \o41
  /\ c.halted => c.pc = \o20
  /\ Restoring(c)

\* A request found interrupts on again before the routine had returned: it was
\* dispatched from 026, and the routine returns into itself for ever.
Reentered(c) ==
  /\ c.pc \in Routine
  /\ c.mem[\o7] = \o26
  /\ c.ion <=> c.pc = \o26
  /\ ~c.halted

Somewhere(c) == OnMain(c) \/ InService(c) \/ Reentered(c)

InterruptsInv ==
  /\ CpuInv
  /\ TextKept(cpu.mem)
  /\ Somewhere(cpu)
  /\ requested \in 0 .. MaxRequests
  /\ EveryRequestServedOnce

-----------------------------------------------------------------------------
(* The program.                                                             *)

LEMMA LowAddresses ==
  ASSUME NEW a \in 0 .. \o47
  PROVE  a \in Addr /\ a # WallClockAddress
  BY MemWordsAssumption, GuestFitsAssumption, WallClockAssumption DEF Addr

LEMMA ProgramType == Program \in [Addr -> Word]
<1> DEFINE W(a) ==
      CASE a = \o11 -> \o0045
        [] a = \o20 -> \o2027 [] a = \o21 -> \o7300 [] a = \o22 -> \o1010
        [] a = \o23 -> \o7010 [] a = \o24 -> \o1006 [] a = \o25 -> \o6001
        [] a = \o26 -> \o5407
        [] a = \o30 -> \o6001 [] a = \o31 -> \o7300 [] a = \o32 -> \o1044
        [] a = \o33 -> \o1411 [] a = \o34 -> \o7004 [] a = \o35 -> \o3044
        [] a = \o36 -> \o2045 [] a = \o37 -> \o5031 [] a = \o40 -> \o7402
        [] a = \o45 -> \o7776 [] a = \o46 -> \o6000 [] a = \o47 -> \o5000
        [] OTHER -> 0
<1>1. ASSUME NEW a \in Addr PROVE W(a) \in Word
  <2>1. a \in Int
    BY AddrIsNat
  <2> QED
    BY <2>1 DEF Word
<1>2. Program = [a \in Addr |-> W(a)]
  BY DEF Program
<1> HIDE DEF W
<1> QED
  BY <1>1, <1>2

LEMMA ProgramWords ==
         /\ Program[\o11] = \o45
         /\ Program[\o20] = \o2027
         /\ Program[\o21] = \o7300
         /\ Program[\o22] = \o1010
         /\ Program[\o23] = \o7010
         /\ Program[\o24] = \o1006
         /\ Program[\o25] = \o6001
         /\ Program[\o26] = \o5407
         /\ Program[\o27] = 0
         /\ Program[\o30] = \o6001
         /\ Program[\o31] = \o7300
         /\ Program[\o32] = \o1044
         /\ Program[\o33] = \o1411
         /\ Program[\o34] = \o7004
         /\ Program[\o35] = \o3044
         /\ Program[\o36] = \o2045
         /\ Program[\o37] = \o5031
         /\ Program[\o40] = \o7402
         /\ Program[\o44] = 0
         /\ Program[\o45] = \o7776
         /\ Program[\o46] = \o6000
         /\ Program[\o47] = \o5000
<1>1. \A a \in 0 .. \o47 : a \in Addr
  BY LowAddresses
<1> USE DEF Program
<1>2. Program[\o11] = \o45
  BY <1>1
<1>3. Program[\o20] = \o2027
  BY <1>1
<1>4. Program[\o21] = \o7300
  BY <1>1
<1>5. Program[\o22] = \o1010
  BY <1>1
<1>6. Program[\o23] = \o7010
  BY <1>1
<1>7. Program[\o24] = \o1006
  BY <1>1
<1>8. Program[\o25] = \o6001
  BY <1>1
<1>9. Program[\o26] = \o5407
  BY <1>1
<1>10. Program[\o27] = 0
  BY <1>1
<1>11. Program[\o30] = \o6001
  BY <1>1
<1>12. Program[\o31] = \o7300
  BY <1>1
<1>13. Program[\o32] = \o1044
  BY <1>1
<1>14. Program[\o33] = \o1411
  BY <1>1
<1>15. Program[\o34] = \o7004
  BY <1>1
<1>16. Program[\o35] = \o3044
  BY <1>1
<1>17. Program[\o36] = \o2045
  BY <1>1
<1>18. Program[\o37] = \o5031
  BY <1>1
<1>19. Program[\o40] = \o7402
  BY <1>1
<1>20. Program[\o44] = 0
  BY <1>1
<1>21. Program[\o45] = \o7776
  BY <1>1
<1>22. Program[\o46] = \o6000
  BY <1>1
<1>23. Program[\o47] = \o5000
  BY <1>1
<1> HIDE DEF Program
<1> QED
  BY <1>2, <1>3, <1>4, <1>5, <1>6, <1>7, <1>8, <1>9, <1>10, <1>11,
     <1>12, <1>13, <1>14, <1>15, <1>16, <1>17, <1>18, <1>19, <1>20, <1>21, <1>22, <1>23

LEMMA TextWords ==
  ASSUME NEW m, TextKept(m)
  PROVE  /\ m[\o20] = \o2027
         /\ m[\o21] = \o7300
         /\ m[\o22] = \o1010
         /\ m[\o23] = \o7010
         /\ m[\o24] = \o1006
         /\ m[\o25] = \o6001
         /\ m[\o26] = \o5407
         /\ m[\o30] = \o6001
         /\ m[\o31] = \o7300
         /\ m[\o32] = \o1044
         /\ m[\o33] = \o1411
         /\ m[\o34] = \o7004
         /\ m[\o35] = \o3044
         /\ m[\o36] = \o2045
         /\ m[\o37] = \o5031
         /\ m[\o40] = \o7402
         /\ m[\o46] = \o6000
         /\ m[\o47] = \o5000
<1>1. \A a \in Text : m[a] = Program[a]
  BY DEF TextKept
<1> QED
  BY <1>1, ProgramWords DEF Text, Routine

-----------------------------------------------------------------------------
(* The main program.                                                        *)

\* The words the two routines write, and the words of the saved context.
Data == {\o6, \o7, \o10, \o11, \o27, \o44, \o45}

LEMMA DataWritten ==
  ASSUME NEW m \in [Addr -> Word], TextKept(m), NEW a \in Data, NEW v
  PROVE  /\ TextKept([m EXCEPT ![a] = v])
         /\ [m EXCEPT ![a] = v][a] = v
         /\ \A b \in Data \ {a} : [m EXCEPT ![a] = v][b] = m[b]
<1>1. Data \subseteq Addr /\ Text \subseteq Addr /\ a \notin Text
  BY LowAddresses DEF Data, Text, Routine
<1> QED
  BY <1>1 DEF TextKept

\* The main program has gone on from c to s.
GoneOn(c, s) ==
  /\ s \in CpuState /\ ~s.skip /\ s.pending = c.pending
  /\ TextKept(s.mem) /\ s.mem[\o27] = c.mem[\o27]
  /\ Resumes(s.pc, s.ac, s.link, s.mem) /\ s.pc # \o30
  /\ s.ion /\ (s.halted <=> s.pc = \o41)

LEMMA GoesOn ==
  ASSUME NEW c, c.ion, ~c.halted, NEW s, NEW pc, NEW ac, NEW link, NEW m,
         Leaves(c, s, pc, ac, link, m), TextKept(m), m[\o27] = c.mem[\o27],
         <<pc, ac, link, m[\o44], m[\o45], m[\o11]>> \in Course,
         pc # \o30, pc # \o41
  PROVE  GoneOn(c, s)
  BY DEF GoneOn, Leaves, Resumes

LEMMA MainStep ==
  ASSUME NEW c \in CpuState, ~c.skip, TextKept(c.mem), OnMain(c), ~c.halted,
         NEW s \in Settled(c)
  PROVE  GoneOn(c, s)
<1> DEFINE m == c.mem
<1>1. /\ m[\o30] = \o6001 /\ m[\o31] = \o7300 /\ m[\o32] = \o1044
      /\ m[\o33] = \o1411 /\ m[\o34] = \o7004 /\ m[\o35] = \o3044
      /\ m[\o36] = \o2045 /\ m[\o37] = \o5031 /\ m[\o40] = \o7402
      /\ m[\o46] = \o6000 /\ m[\o47] = \o5000
  BY TextWords
<1>2. /\ m \in [Addr -> Word] /\ c.pc \in Addr
      /\ \A a \in 0 .. \o47 : a \in Addr /\ a # WallClockAddress
  BY FieldTypes, LowAddresses
<1>3. <<c.pc, c.ac, c.link, m[\o44], m[\o45], m[\o11]>> \in Course
  BY DEF OnMain, Resumes
<1>4. c.pc # \o41 /\ (c.ion <=> c.pc # \o30)
  BY DEF OnMain
<1>5. c.pc \in \o30 .. \o40 /\ c.pc + 1 \in \o31 .. \o41
  BY <1>3, <1>4 DEF Course
<1>6. c.pc # \o40 => c.pc + 1 \in Addr
  BY <1>2, <1>5
<1>7. Fetched(c) = m[c.pc]
  BY DEF Fetched
<1> HIDE DEF m
<1>8. CASE c.pc = \o30
  <2>1. Fetched(c) = \o6001
    BY <1>1, <1>7, <1>8
  <2>2. /\ s \in CpuState /\ ~s.skip /\ s.ion
        /\ s.pc = c.pc + 1 /\ s.ac = c.ac /\ s.link = c.link /\ s.mem = c.mem
        /\ s.halted = c.halted /\ s.pending = c.pending
    BY <1>6, <1>8, <2>1, IonLeaves
  <2>3. <<\o31, c.ac, c.link, m[\o44], m[\o45], m[\o11]>> \in Course
    BY <1>3, <1>8 DEF Course
  <2> QED
    BY <1>8, <2>2, <2>3 DEF GoneOn, Resumes, m
<1>9. CASE c.pc = \o31
  <2>1. Fetched(c) = \o7300
    BY <1>1, <1>7, <1>9
  <2>2. Leaves(c, s, \o32, 0, 0, m)
    BY <1>6, <1>9, <2>1, ClearLeaves DEF m
  <2>3. <<\o32, 0, 0, m[\o44], m[\o45], m[\o11]>> \in Course
    BY <1>3, <1>9 DEF Course
  <2> QED
    BY <1>4, <1>9, <2>2, <2>3, GoesOn DEF m
<1>10. CASE c.pc = \o32
  <2>1. Fetched(c) = \o1044 /\ c.pc + 1 \in Addr /\ c.pc + 1 = \o33
    BY <1>1, <1>6, <1>7, <1>10
  <2>2. Opcode(\o1044) = 1 /\ Direct(\o1044, \o44)
    BY DEF Opcode, Direct, Indirect, Has
  <2>3. Leaves(c, s, \o33, MaskWord(c.ac + m[\o44]),
               IF c.ac + m[\o44] > \o7777 THEN (c.link + 1) % 2 ELSE c.link, m)
    BY <1>2, <2>1, <2>2, TadLeaves DEF m
  <2>4. c.ac = 0 /\ c.link = 0 /\ m[\o44] \in {0, \o4000}
    BY <1>3, <1>10 DEF Course
  <2>5. Leaves(c, s, \o33, m[\o44], 0, m)
    BY <2>3, <2>4 DEF MaskWord
  <2>6. <<\o33, m[\o44], 0, m[\o44], m[\o45], m[\o11]>> \in Course
    BY <1>3, <1>10 DEF Course
  <2> QED
    BY <1>4, <1>10, <2>5, <2>6, GoesOn DEF m
<1>11. CASE c.pc = \o33
  <2>1. Fetched(c) = \o1411 /\ c.pc + 1 \in Addr /\ c.pc + 1 = \o34
    BY <1>1, <1>6, <1>7, <1>11
  <2>2. Opcode(\o1411) = 1 /\ Through(\o1411, \o11)
    BY DEF Opcode, Through, Indirect, Has
  <2>3. \/ /\ c.ac = 0 /\ c.link = 0 /\ m[\o44] = 0 /\ m[\o45] = \o7776 /\ m[\o11] = \o45
        \/ /\ c.ac = \o4000 /\ c.link = 0 /\ m[\o44] = \o4000 /\ m[\o45] = \o7777 /\ m[\o11] = \o46
    BY <1>3, <1>11 DEF Course
  <2>4. PICK t \in {\o46, \o47} : t = MaskWord(m[\o11] + 1)
    BY <2>3 DEF MaskWord
  <2> DEFINE n == [m EXCEPT ![\o11] = t]
  <2>5. Leaves(c, s, \o34, MaskWord(c.ac + m[t]),
               IF c.ac + m[t] > \o7777 THEN (c.link + 1) % 2 ELSE c.link, n)
    <3>1. t \in Addr /\ t # WallClockAddress /\ t # \o11 /\ \o11 \in Addr
      BY <1>2
    <3> QED
      BY <2>1, <2>2, <2>4, <3>1, TadThroughLeaves DEF m
  <2>6. TextKept(n) /\ n[\o11] = t /\ n[\o27] = m[\o27] /\ n[\o44] = m[\o44] /\ n[\o45] = m[\o45]
    BY <1>2, DataWritten DEF m, Data
  <2> HIDE DEF n
  <2>7. CASE c.ac = 0 /\ c.link = 0 /\ m[\o44] = 0 /\ m[\o45] = \o7776 /\ m[\o11] = \o45
    <3>1. t = \o46
      BY <2>4, <2>7 DEF MaskWord
    <3>2. Leaves(c, s, \o34, \o6000, 0, n)
      BY <1>1, <2>5, <2>7, <3>1 DEF MaskWord
    <3>3. <<\o34, \o6000, 0, n[\o44], n[\o45], n[\o11]>> \in Course
      BY <2>6, <2>7, <3>1 DEF Course
    <3> QED
      BY <1>4, <1>11, <2>6, <3>2, <3>3, GoesOn DEF m
  <2>8. CASE c.ac = \o4000 /\ c.link = 0 /\ m[\o44] = \o4000 /\ m[\o45] = \o7777 /\ m[\o11] = \o46
    <3>1. t = \o47
      BY <2>4, <2>8 DEF MaskWord
    <3>2. Leaves(c, s, \o34, \o1000, 1, n)
      BY <1>1, <2>5, <2>8, <3>1 DEF MaskWord
    <3>3. <<\o34, \o1000, 1, n[\o44], n[\o45], n[\o11]>> \in Course
      BY <2>6, <2>8, <3>1 DEF Course
    <3> QED
      BY <1>4, <1>11, <2>6, <3>2, <3>3, GoesOn DEF m
  <2> QED
    BY <2>3, <2>7, <2>8
<1>12. CASE c.pc = \o34
  <2>1. Fetched(c) = \o7004 /\ c.pc + 1 \in Addr /\ c.pc + 1 = \o35
    BY <1>1, <1>6, <1>7, <1>12
  <2>2. PICK n : n = RotateLeft(Combined(c))
    OBVIOUS
  <2>3. Leaves(c, s, \o35, MaskWord(n), (n \div \o10000) % 2, m)
    BY <2>1, <2>2, RotateLeaves DEF m
  <2>4. \/ /\ c.ac = \o6000 /\ c.link = 0 /\ m[\o44] = 0 /\ m[\o45] = \o7776 /\ m[\o11] = \o46
        \/ /\ c.ac = \o1000 /\ c.link = 1 /\ m[\o44] = \o4000 /\ m[\o45] = \o7777 /\ m[\o11] = \o47
    BY <1>3, <1>12 DEF Course
  <2>5. CASE c.ac = \o6000 /\ c.link = 0 /\ m[\o44] = 0 /\ m[\o45] = \o7776 /\ m[\o11] = \o46
    <3>1. Leaves(c, s, \o35, \o4000, 1, m)
      BY <2>2, <2>3, <2>5 DEF MaskWord, RotateLeft, Combined
    <3>2. <<\o35, \o4000, 1, m[\o44], m[\o45], m[\o11]>> \in Course
      BY <2>5 DEF Course
    <3> QED
      BY <1>4, <1>12, <3>1, <3>2, GoesOn DEF m
  <2>6. CASE c.ac = \o1000 /\ c.link = 1 /\ m[\o44] = \o4000 /\ m[\o45] = \o7777 /\ m[\o11] = \o47
    <3>1. Leaves(c, s, \o35, \o2001, 0, m)
      BY <2>2, <2>3, <2>6 DEF MaskWord, RotateLeft, Combined
    <3>2. <<\o35, \o2001, 0, m[\o44], m[\o45], m[\o11]>> \in Course
      BY <2>6 DEF Course
    <3> QED
      BY <1>4, <1>12, <3>1, <3>2, GoesOn DEF m
  <2> QED
    BY <2>4, <2>5, <2>6
<1>13. CASE c.pc = \o35
  <2>1. Fetched(c) = \o3044 /\ c.pc + 1 \in Addr /\ c.pc + 1 = \o36
    BY <1>1, <1>6, <1>7, <1>13
  <2>2. Opcode(\o3044) = 3 /\ Direct(\o3044, \o44)
    BY DEF Opcode, Direct, Indirect, Has
  <2> DEFINE n == [m EXCEPT ![\o44] = c.ac]
  <2>3. Leaves(c, s, \o36, 0, c.link, n)
    BY <1>2, <2>1, <2>2, DcaLeaves DEF m
  <2>4. TextKept(n) /\ n[\o44] = c.ac /\ n[\o27] = m[\o27] /\ n[\o11] = m[\o11] /\ n[\o45] = m[\o45]
    BY <1>2, DataWritten DEF m, Data
  <2> HIDE DEF n
  <2>5. <<\o36, 0, c.link, n[\o44], n[\o45], n[\o11]>> \in Course
    BY <1>3, <1>13, <2>4 DEF Course
  <2> QED
    BY <1>4, <1>13, <2>3, <2>4, <2>5, GoesOn DEF m
<1>14. CASE c.pc = \o36
  <2>1. /\ Fetched(c) = \o2045 /\ c.pc + 1 \in Addr
        /\ c.pc + 1 = \o37 /\ c.pc + 2 = \o40 /\ \o40 \in Addr
    BY <1>1, <1>2, <1>6, <1>7, <1>14
  <2>2. Opcode(\o2045) = 2 /\ Direct(\o2045, \o45)
    BY DEF Opcode, Direct, Indirect, Has
  <2>3. PICK v : v = MaskWord(m[\o45] + 1)
    OBVIOUS
  <2> DEFINE n == [m EXCEPT ![\o45] = v]
  <2>4. /\ v # 0 => Leaves(c, s, \o37, c.ac, c.link, n)
        /\ v = 0 => Leaves(c, s, \o40, c.ac, c.link, n)
    BY <1>2, <2>1, <2>2, <2>3, IszLeaves DEF m
  <2>5. TextKept(n) /\ n[\o45] = v /\ n[\o27] = m[\o27] /\ n[\o11] = m[\o11] /\ n[\o44] = m[\o44]
    BY <1>2, DataWritten DEF m, Data
  <2> HIDE DEF n
  <2>6. \/ /\ c.ac = 0 /\ c.link = 1 /\ m[\o44] = \o4000 /\ m[\o45] = \o7776 /\ m[\o11] = \o46
        \/ /\ c.ac = 0 /\ c.link = 0 /\ m[\o44] = \o2001 /\ m[\o45] = \o7777 /\ m[\o11] = \o47
    BY <1>3, <1>14 DEF Course
  <2>7. CASE c.ac = 0 /\ c.link = 1 /\ m[\o44] = \o4000 /\ m[\o45] = \o7776 /\ m[\o11] = \o46
    <3>1. v = \o7777
      BY <2>3, <2>7 DEF MaskWord
    <3>2. Leaves(c, s, \o37, 0, 1, n)
      BY <2>4, <2>7, <3>1
    <3>3. <<\o37, 0, 1, n[\o44], n[\o45], n[\o11]>> \in Course
      BY <2>5, <2>7, <3>1 DEF Course
    <3> QED
      BY <1>4, <1>14, <2>5, <3>2, <3>3, GoesOn DEF m
  <2>8. CASE c.ac = 0 /\ c.link = 0 /\ m[\o44] = \o2001 /\ m[\o45] = \o7777 /\ m[\o11] = \o47
    <3>1. v = 0
      BY <2>3, <2>8 DEF MaskWord
    <3>2. Leaves(c, s, \o40, 0, 0, n)
      BY <2>4, <2>8, <3>1
    <3>3. <<\o40, 0, 0, n[\o44], n[\o45], n[\o11]>> \in Course
      BY <2>5, <2>8, <3>1 DEF Course
    <3> QED
      BY <1>4, <1>14, <2>5, <3>2, <3>3, GoesOn DEF m
  <2> QED
    BY <2>6, <2>7, <2>8
<1>15. CASE c.pc = \o37
  <2>1. Fetched(c) = \o5031 /\ c.pc + 1 \in Addr
    BY <1>1, <1>6, <1>7, <1>15
  <2>2. Opcode(\o5031) = 5 /\ Direct(\o5031, \o31)
    BY DEF Opcode, Direct, Indirect, Has
  <2>3. Leaves(c, s, \o31, c.ac, c.link, m)
    BY <1>2, <2>1, <2>2, JmpLeaves DEF m
  <2>4. <<\o31, c.ac, c.link, m[\o44], m[\o45], m[\o11]>> \in Course
    BY <1>3, <1>15 DEF Course
  <2> QED
    BY <1>4, <1>15, <2>3, <2>4, GoesOn DEF m
<1>16. CASE c.pc = \o40
  <2>1. Fetched(c) = \o7402 /\ c.pc + 1 = \o41 /\ c.pc + 1 \in Addr
    BY <1>1, <1>2, <1>7, <1>16
  <2>2. /\ s \in CpuState /\ ~s.skip /\ s.halted
        /\ s.pc = c.pc + 1 /\ s.ac = c.ac /\ s.link = c.link /\ s.mem = c.mem
        /\ s.ion = c.ion /\ s.pending = c.pending
    BY <2>1, HltLeaves
  <2>3. <<\o41, c.ac, c.link, m[\o44], m[\o45], m[\o11]>> \in Course
    BY <1>3, <1>16 DEF Course
  <2> QED
    BY <1>4, <1>16, <2>1, <2>2, <2>3 DEF GoneOn, Resumes, m
<1> QED
  BY <1>5, <1>8, <1>9, <1>10, <1>11, <1>12, <1>13, <1>14, <1>15, <1>16

-----------------------------------------------------------------------------
(* The service routine.                                                     *)

\* One step of the routine, from 020 to 025: the entry is counted at 020, then
\* the registers are put back, and ION comes last.
Serves(c, s) ==
  /\ s \in CpuState /\ ~s.skip /\ s.pending = c.pending
  /\ s.pc = c.pc + 1 /\ TextKept(s.mem)
  /\ \A a \in Data \ {\o27} : s.mem[a] = c.mem[a]
  /\ s.mem[\o27] = IF c.pc = \o20 THEN c.mem[\o27] + 1 ELSE c.mem[\o27]
  /\ (s.ion <=> c.pc = \o25) /\ ~s.halted
  /\ c.mem[\o10] \in LinkBit /\ Restoring(c) => Restoring(s)

LEMMA ServiceStep ==
  ASSUME NEW c \in CpuState, ~c.skip, TextKept(c.mem), c.pc \in \o20 .. \o25,
         ~c.ion, ~c.halted, c.pc = \o20 => c.mem[\o27] < \o7777, NEW s \in Settled(c)
  PROVE  Serves(c, s)
<1> DEFINE m == c.mem
<1>1. /\ m[\o20] = \o2027 /\ m[\o21] = \o7300 /\ m[\o22] = \o1010
      /\ m[\o23] = \o7010 /\ m[\o24] = \o1006 /\ m[\o25] = \o6001
  BY TextWords
<1>2. /\ m \in [Addr -> Word] /\ c.pc \in Nat /\ c.ac \in Word /\ c.link \in LinkBit
      /\ \A a \in 0 .. \o47 : a \in Addr /\ a # WallClockAddress
  BY FieldTypes, FieldInts, LowAddresses
<1>3. c.pc + 1 \in \o21 .. \o26 /\ c.pc + 1 \in Addr
  <2>1. c.pc + 1 \in \o21 .. \o26
    OBVIOUS
  <2> QED
    BY <1>2, <2>1
<1>4. Fetched(c) = m[c.pc]
  BY DEF Fetched
<1>5. /\ m[\o6] \in Word /\ m[\o10] \in Word /\ m[\o27] \in Word
  BY <1>2
<1> HIDE DEF m
<1>6. ASSUME NEW pc, pc = c.pc + 1, c.pc \in \o21 .. \o24, NEW ac, NEW link,
             Leaves(c, s, pc, ac, link, m),
             m[\o10] \in LinkBit /\ Restoring(c) =>
               /\ pc = \o22 => ac = 0 /\ link = 0
               /\ pc = \o23 => ac = m[\o10] /\ link = 0
               /\ pc = \o24 => ac = 0 /\ link = m[\o10]
               /\ pc = \o25 => ac = m[\o6] /\ link = m[\o10]
      PROVE  Serves(c, s)
  <2>1. pc \in \o22 .. \o25 /\ c.pc # \o20 /\ c.pc # \o25
    BY <1>6
  <2>2. s.pc = pc /\ s.ac = ac /\ s.link = link /\ s.mem = m /\ s.pending = c.pending
    BY <1>6 DEF Leaves
  <2>3. s \in CpuState /\ ~s.skip /\ ~s.ion /\ ~s.halted
    BY <1>6 DEF Leaves
  <2>4. m[\o10] \in LinkBit /\ Restoring(c) => Restoring(s)
    BY <1>6, <2>1, <2>2 DEF Restoring
  <2> QED
    BY <1>6, <2>1, <2>2, <2>3, <2>4 DEF Serves, m
<1>7. CASE c.pc = \o20
  <2>1. Fetched(c) = \o2027 /\ c.pc + 1 \in Addr /\ c.pc + 1 = \o21
    BY <1>1, <1>3, <1>4, <1>7
  <2>2. Opcode(\o2027) = 2 /\ Direct(\o2027, \o27)
    BY DEF Opcode, Direct, Indirect, Has
  <2>3. PICK v \in Nat : v = m[\o27] + 1 /\ v # 0 /\ MaskWord(m[\o27] + 1) = v
    <3>1. m[\o27] < \o7777
      BY <1>7 DEF m
    <3>2. PICK k \in 0 .. \o7776 : k = m[\o27]
      BY <1>5, <3>1 DEF Word
    <3>3. k + 1 \in Nat /\ k + 1 # 0 /\ (k + 1) % \o10000 = k + 1
      OBVIOUS
    <3> QED
      BY <3>2, <3>3 DEF MaskWord
  <2> DEFINE n == [m EXCEPT ![\o27] = v]
  <2>4. Leaves(c, s, \o21, c.ac, c.link, n)
    BY <1>2, <2>1, <2>2, <2>3, IszLeaves DEF m
  <2>5. TextKept(n) /\ n[\o27] = v /\ \A a \in Data \ {\o27} : n[a] = m[a]
    BY <1>2, DataWritten DEF m, Data
  <2> HIDE DEF n
  <2>6. s.pc = \o21 /\ s.mem = n /\ s.pending = c.pending
    BY <2>4 DEF Leaves
  <2>7. s \in CpuState /\ ~s.skip /\ ~s.ion /\ ~s.halted
    BY <2>4 DEF Leaves
  <2>8. Restoring(s)
    BY <2>6 DEF Restoring
  <2> QED
    BY <1>7, <2>3, <2>5, <2>6, <2>7, <2>8 DEF Serves, m
<1>8. CASE c.pc = \o21
  <2>1. Fetched(c) = \o7300 /\ c.pc + 1 = \o22
    BY <1>1, <1>4, <1>8
  <2>2. Leaves(c, s, \o22, 0, 0, m)
    BY <1>3, <2>1, ClearLeaves DEF m
  <2> QED
    BY <1>6, <1>8, <2>1, <2>2
<1>9. CASE c.pc = \o22
  <2>1. Fetched(c) = \o1010 /\ c.pc + 1 = \o23
    BY <1>1, <1>4, <1>9
  <2>2. Opcode(\o1010) = 1 /\ Direct(\o1010, \o10)
    BY DEF Opcode, Direct, Indirect, Has
  <2>3. PICK ac, link :
          /\ ac = MaskWord(c.ac + m[\o10])
          /\ link = IF c.ac + m[\o10] > \o7777 THEN (c.link + 1) % 2 ELSE c.link
    OBVIOUS
  <2>4. Leaves(c, s, \o23, ac, link, m)
    BY <1>2, <1>3, <2>1, <2>2, <2>3, TadLeaves DEF m
  <2>5. m[\o10] \in LinkBit /\ Restoring(c) => ac = m[\o10] /\ link = 0
    BY <1>9, <2>3 DEF Restoring, LinkBit, MaskWord
  <2> QED
    BY <1>6, <1>9, <2>1, <2>4, <2>5
<1>10. CASE c.pc = \o23
  <2>1. Fetched(c) = \o7010 /\ c.pc + 1 = \o24
    BY <1>1, <1>4, <1>10
  <2>2. PICK n : n = RotateRight(Combined(c))
    OBVIOUS
  <2>3. PICK ac, link : ac = MaskWord(n) /\ link = (n \div \o10000) % 2
    OBVIOUS
  <2>4. Leaves(c, s, \o24, ac, link, m)
    BY <1>3, <2>1, <2>2, <2>3, RotateLeaves DEF m
  <2>5. m[\o10] \in LinkBit /\ Restoring(c) => ac = 0 /\ link = m[\o10]
    <3> SUFFICES ASSUME m[\o10] \in LinkBit, Restoring(c) PROVE ac = 0 /\ link = m[\o10]
      OBVIOUS
    <3>1. c.ac = m[\o10] /\ c.link = 0
      BY <1>10 DEF Restoring, m
    <3> QED
      BY <2>2, <2>3, <3>1 DEF LinkBit, MaskWord, RotateRight, Combined
  <2> QED
    BY <1>6, <1>10, <2>1, <2>4, <2>5
<1>11. CASE c.pc = \o24
  <2>1. Fetched(c) = \o1006 /\ c.pc + 1 = \o25
    BY <1>1, <1>4, <1>11
  <2>2. Opcode(\o1006) = 1 /\ Direct(\o1006, \o6)
    BY DEF Opcode, Direct, Indirect, Has
  <2>3. PICK ac, link :
          /\ ac = MaskWord(c.ac + m[\o6])
          /\ link = IF c.ac + m[\o6] > \o7777 THEN (c.link + 1) % 2 ELSE c.link
    OBVIOUS
  <2>4. Leaves(c, s, \o25, ac, link, m)
    BY <1>2, <1>3, <2>1, <2>2, <2>3, TadLeaves DEF m
  <2>5. Restoring(c) => ac = m[\o6] /\ link = m[\o10]
    <3> SUFFICES ASSUME Restoring(c) PROVE ac = m[\o6] /\ link = m[\o10]
      OBVIOUS
    <3>1. c.ac = 0 /\ c.link = m[\o10]
      BY <1>11 DEF Restoring, m
    <3>2. PICK k \in 0 .. \o7777 : k = m[\o6]
      BY <1>5 DEF Word
    <3>3. (0 + k) % \o10000 = k /\ ~(0 + k > \o7777)
      OBVIOUS
    <3> QED
      BY <2>3, <3>1, <3>2, <3>3 DEF MaskWord
  <2> QED
    BY <1>6, <1>11, <2>1, <2>4, <2>5
<1>12. CASE c.pc = \o25
  <2>1. Fetched(c) = \o6001
    BY <1>1, <1>4, <1>12
  <2>2. /\ s \in CpuState /\ ~s.skip /\ s.ion
        /\ s.pc = c.pc + 1 /\ s.ac = c.ac /\ s.link = c.link /\ s.mem = c.mem
        /\ s.halted = c.halted /\ s.pending = c.pending
    BY <1>3, <2>1, IonLeaves
  <2>3. Restoring(c) => Restoring(s)
    BY <1>12, <2>2 DEF Restoring
  <2> QED
    BY <1>12, <2>2, <2>3 DEF Serves
<1> QED
  BY <1>7, <1>8, <1>9, <1>10, <1>11, <1>12

\* JMP I 07
LEMMA ReturnStep ==
  ASSUME NEW c \in CpuState, ~c.skip, TextKept(c.mem), c.pc = \o26,
         c.mem[\o7] \in Addr, NEW s \in Settled(c)
  PROVE  Leaves(c, s, c.mem[\o7], c.ac, c.link, c.mem)
<1>1. Fetched(c) = \o5407
  BY TextWords DEF Fetched
<1>2. Opcode(\o5407) = 5 /\ Through(\o5407, \o7)
  BY DEF Opcode, Through, Indirect, Has
<1>3. \o7 \in Addr /\ c.pc + 1 \in Addr
  BY LowAddresses
<1> QED
  BY <1>1, <1>2, <1>3, JmpThroughLeaves

-----------------------------------------------------------------------------
(* The dispatch, from the main program and from the routine itself.         *)

LEMMA DispatchedTo ==
  ASSUME NEW s \in CpuState, TextKept(s.mem), WillDispatch(s), NEW d, d = Dispatch(s)
  PROVE  /\ d \in CpuState /\ d.skip = s.skip
         /\ d.pc = \o20 /\ ~d.ion /\ d.pending = s.pending - 1
         /\ (d.halted <=> s.halted)
         /\ TextKept(d.mem)
         /\ d.mem[\o6] = s.ac /\ d.mem[\o7] = s.pc /\ d.mem[\o10] = s.link
         /\ \A a \in Data \ {\o6, \o7, \o10} : d.mem[a] = s.mem[a]
<1>1. d \in CpuState /\ d.skip = s.skip
  BY DispatchType
<1>2. /\ d.pc = \o20 /\ ~d.ion /\ d.pending = s.pending - 1 /\ d.halted = s.halted
      /\ d.mem = [s.mem EXCEPT ![\o6] = s.ac, ![\o7] = s.pc, ![\o10] = s.link]
  BY DispatchTaken
<1>3. s.mem \in [Addr -> Word] /\ Data \subseteq Addr /\ Text \subseteq Addr
  BY FieldTypes, LowAddresses DEF Data, Text, Routine
<1>4. {\o6, \o7, \o10} \subseteq Data /\ Data \cap Text = {}
  BY DEF Data, Text, Routine
<1>5. /\ d.mem[\o6] = s.ac /\ d.mem[\o7] = s.pc /\ d.mem[\o10] = s.link
      /\ \A a \in Addr \ {\o6, \o7, \o10} : d.mem[a] = s.mem[a]
  BY <1>2, <1>3, <1>4
<1>6. TextKept(d.mem)
  BY <1>3, <1>4, <1>5 DEF TextKept
<1> QED
  BY <1>1, <1>2, <1>3, <1>5, <1>6

\* From the main program: it will be resumed where it stands.
LEMMA EntersService ==
  ASSUME NEW s \in CpuState, TextKept(s.mem), WillDispatch(s),
         Resumes(s.pc, s.ac, s.link, s.mem), s.pc # \o30, s.halted <=> s.pc = \o41
  PROVE  InService(Dispatch(s))
<1>1. PICK d : d = Dispatch(s)
  OBVIOUS
<1>2. /\ d.pc = \o20 /\ ~d.ion /\ (d.halted <=> s.halted)
      /\ d.mem[\o6] = s.ac /\ d.mem[\o7] = s.pc /\ d.mem[\o10] = s.link
      /\ \A a \in Data \ {\o6, \o7, \o10} : d.mem[a] = s.mem[a]
  BY <1>1, DispatchedTo
<1>3. Resumes(d.mem[\o7], d.mem[\o6], d.mem[\o10], d.mem)
  <2>1. d.mem[\o44] = s.mem[\o44] /\ d.mem[\o45] = s.mem[\o45] /\ d.mem[\o11] = s.mem[\o11]
    BY <1>2 DEF Data
  <2> QED
    BY <1>2, <2>1 DEF Resumes
<1>4. d.pc \in Routine /\ Restoring(d)
  BY <1>2 DEF Routine, Restoring
<1> QED
  BY <1>1, <1>2, <1>3, <1>4 DEF InService

\* From 026: the return address of the main program is lost.
LEMMA Reenters ==
  ASSUME NEW s \in CpuState, TextKept(s.mem), WillDispatch(s), s.pc = \o26, ~s.halted
  PROVE  Reentered(Dispatch(s))
<1>1. PICK d : d = Dispatch(s)
  OBVIOUS
<1>2. d.pc = \o20 /\ ~d.ion /\ ~d.halted /\ d.mem[\o7] = \o26
  BY <1>1, DispatchedTo
<1>3. d.pc \in Routine
  BY <1>2 DEF Routine
<1> QED
  BY <1>1, <1>2, <1>3 DEF Reentered

-----------------------------------------------------------------------------
(* The invariant.                                                           *)

\* What one step comes to before its tick: the processor d still is somewhere,
\* and a request has been entered, counted or kept.
Accounted(c) == c.pending + c.mem[\o27] + (IF c.pc = \o20 THEN 1 ELSE 0)

LEMMA PointsAreElsewhere ==
  ASSUME NEW pc, NEW ac, NEW link, NEW m, Resumes(pc, ac, link, m)
  PROVE  pc \in \o30 .. \o41 /\ ac \in Word /\ link \in LinkBit
  BY DEF Resumes, Course, Word, LinkBit

\* The state s an instruction leaves and what the dispatch makes of it.
LEMMA FinishedSomewhere ==
  ASSUME NEW s \in CpuState, ~s.skip, TextKept(s.mem), Somewhere(s), s.pc # \o20,
         NEW d, d = Dispatch(s)
  PROVE  /\ d \in CpuState /\ ~d.skip /\ TextKept(d.mem) /\ Somewhere(d)
         /\ Accounted(d) = Accounted(s)
<1>1. CASE ~WillDispatch(s)
  BY <1>1, DispatchKeeps
<1>2. CASE WillDispatch(s)
  <2>1. /\ d \in CpuState /\ d.skip = s.skip /\ d.pc = \o20
        /\ d.pending = s.pending - 1 /\ TextKept(d.mem)
        /\ \A a \in Data \ {\o6, \o7, \o10} : d.mem[a] = s.mem[a]
    BY <1>2, DispatchedTo
  <2>2. s.pending \in Nat /\ s.mem[\o27] \in Int /\ d.mem[\o27] = s.mem[\o27]
    BY <2>1, FieldTypes, FieldInts, LowAddresses DEF Data
  <2>3. Accounted(d) = Accounted(s)
    BY <2>1, <2>2 DEF Accounted
  <2>4. s.ion
    BY <1>2 DEF WillDispatch
  <2>5. Somewhere(d)
    <3>1. CASE OnMain(s)
      BY <1>2, <2>4, <3>1, EntersService DEF OnMain, Somewhere
    <3>2. CASE InService(s)
      <4>1. s.pc = \o26 /\ ~s.halted
        BY <2>4, <3>2 DEF InService
      <4> QED
        BY <1>2, <4>1, Reenters DEF Somewhere
    <3>3. CASE Reentered(s)
      <4>1. s.pc = \o26 /\ ~s.halted
        BY <2>4, <3>3 DEF Reentered
      <4> QED
        BY <1>2, <4>1, Reenters DEF Somewhere
    <3> QED
      BY <3>1, <3>2, <3>3 DEF Somewhere
  <2> QED
    BY <2>1, <2>3, <2>5
<1> QED
  BY <1>1, <1>2

LEMMA InstructionSomewhere ==
  ASSUME NEW c \in CpuState, ~c.skip, ~c.halted, TextKept(c.mem), Somewhere(c),
         c.pc = \o20 => c.mem[\o27] < \o7777, NEW s \in Settled(c)
  PROVE  /\ s \in CpuState /\ ~s.skip /\ TextKept(s.mem) /\ Somewhere(s)
         /\ s.pc # \o20 /\ Accounted(s) = Accounted(c)
<1>1. c.pending \in Nat /\ c.mem[\o27] \in Nat
  BY FieldTypes, FieldInts, LowAddresses
<1>2. CASE OnMain(c)
  <2>1. GoneOn(c, s)
    BY <1>2, MainStep
  <2>2. OnMain(s) /\ s.pc # \o20 /\ c.pc # \o20
    BY <1>2, <2>1, PointsAreElsewhere DEF GoneOn, OnMain
  <2> QED
    BY <2>1, <2>2 DEF GoneOn, Somewhere, Accounted
<1>3. CASE c.pc \in \o20 .. \o25 /\ (InService(c) \/ Reentered(c))
  <2>1. ~c.ion /\ c.pc # \o26
    BY <1>3 DEF InService, Reentered
  <2>2. Serves(c, s)
    BY <1>3, <2>1, ServiceStep
  <2>3. s.pc = c.pc + 1 /\ s.pc \in \o21 .. \o26 /\ s.pc \in Routine
    BY <1>3, <2>2 DEF Serves, Routine
  <2>4. Accounted(s) = Accounted(c)
    BY <1>1, <1>3, <2>2, <2>3 DEF Serves, Accounted
  <2>5. /\ s.mem[\o6] = c.mem[\o6] /\ s.mem[\o7] = c.mem[\o7] /\ s.mem[\o10] = c.mem[\o10]
        /\ s.mem[\o11] = c.mem[\o11] /\ s.mem[\o44] = c.mem[\o44] /\ s.mem[\o45] = c.mem[\o45]
    BY <2>2 DEF Serves, Data
  <2>6. (s.ion <=> s.pc = \o26) /\ ~s.halted
    BY <1>3, <2>2, <2>3 DEF Serves
  <2>7. CASE InService(c)
    <3>1. Resumes(s.mem[\o7], s.mem[\o6], s.mem[\o10], s.mem)
      BY <2>5, <2>7 DEF InService, Resumes
    <3>2. c.mem[\o10] \in LinkBit /\ Restoring(c) /\ s.mem[\o7] # \o30 /\ s.mem[\o7] # \o41
      BY <2>5, <2>7, PointsAreElsewhere DEF InService
    <3>3. Restoring(s)
      BY <2>2, <3>2 DEF Serves
    <3>4. InService(s)
      BY <2>3, <2>6, <3>1, <3>2, <3>3 DEF InService
    <3> QED
      BY <2>2, <2>3, <2>4, <3>4 DEF Serves, Somewhere
  <2>8. CASE Reentered(c)
    <3>1. Reentered(s)
      BY <2>3, <2>5, <2>6, <2>8 DEF Reentered
    <3> QED
      BY <2>2, <2>3, <2>4, <3>1 DEF Serves, Somewhere
  <2> QED
    BY <1>3, <2>7, <2>8
<1>4. CASE c.pc = \o26 /\ InService(c)
  <2>1. /\ Resumes(c.mem[\o7], c.mem[\o6], c.mem[\o10], c.mem)
        /\ c.mem[\o7] # \o30 /\ c.mem[\o7] # \o41 /\ c.ion
        /\ c.ac = c.mem[\o6] /\ c.link = c.mem[\o10]
    BY <1>4 DEF InService, Restoring
  <2>2. c.mem[\o7] \in \o30 .. \o41 /\ c.mem[\o7] \in Addr
    BY <2>1, PointsAreElsewhere, LowAddresses
  <2>3. Leaves(c, s, c.mem[\o7], c.ac, c.link, c.mem)
    BY <1>4, <2>2, ReturnStep
  <2>4. OnMain(s)
    BY <2>1, <2>3 DEF Leaves, OnMain
  <2> QED
    BY <1>4, <2>2, <2>3, <2>4 DEF Leaves, Somewhere, Accounted
<1>5. CASE c.pc = \o26 /\ Reentered(c)
  <2>1. c.mem[\o7] = \o26 /\ c.mem[\o7] \in Addr
    BY <1>5, LowAddresses DEF Reentered
  <2>2. Leaves(c, s, c.mem[\o7], c.ac, c.link, c.mem)
    BY <1>5, <2>1, ReturnStep
  <2>3. Reentered(s)
    BY <1>5, <2>1, <2>2 DEF Leaves, Reentered
  <2> QED
    BY <1>5, <2>1, <2>2, <2>3 DEF Leaves, Somewhere, Accounted
<1>6. InService(c) \/ Reentered(c) => c.pc \in \o20 .. \o26
  BY DEF InService, Reentered, Routine
<1> QED
  BY <1>2, <1>3, <1>4, <1>5, <1>6 DEF Somewhere

LEMMA InterruptsStep ==
  ASSUME InterruptsInv, NEW signal \in {"none", "interrupt"}, Step(signal),
         requested' = IF signal = "interrupt" THEN requested + 1 ELSE requested,
         requested' \in 0 .. MaxRequests
  PROVE  InterruptsInv'
<1>1. /\ cpu \in CpuState /\ ~cpu.skip /\ TextKept(cpu.mem) /\ Somewhere(cpu)
      /\ requested \in 0 .. MaxRequests /\ requested = Accounted(cpu)
  BY DEF InterruptsInv, CpuInv, CpuTypeOK, SkipSettled, EveryRequestServedOnce, Accounted, Entries
<1>2. PICK s \in Settled(cpu) : cpu' = Signalled(Dispatch(s), signal)
  BY StepTaken DEF InterruptsInv
<1>3. ~cpu.halted
  BY StepTaken DEF InterruptsInv, CanStep
<1>4. cpu.pc = \o20 => cpu.mem[\o27] < \o7777
  <2>1. cpu.pending \in Nat /\ cpu.mem[\o27] \in Nat
    BY <1>1, FieldTypes, FieldInts, LowAddresses
  <2>2. requested <= \o7777
    <3>1. PICK most \in 0 .. \o7777 : most = MaxRequests
      BY GuestFitsAssumption
    <3>2. PICK n \in 0 .. most : n = requested
      BY <1>1, <3>1
    <3> QED
      BY <3>1, <3>2
  <2> QED
    BY <1>1, <2>1, <2>2 DEF Accounted
<1>5. /\ s \in CpuState /\ ~s.skip /\ TextKept(s.mem) /\ Somewhere(s)
      /\ s.pc # \o20 /\ Accounted(s) = Accounted(cpu)
  BY <1>1, <1>3, <1>4, InstructionSomewhere
<1>6. PICK d : d = Dispatch(s)
  OBVIOUS
<1>7. /\ d \in CpuState /\ ~d.skip /\ TextKept(d.mem) /\ Somewhere(d)
      /\ Accounted(d) = Accounted(cpu)
  BY <1>5, <1>6, FinishedSomewhere
<1>8. PICK t : t = cpu'
  OBVIOUS
<1>9. /\ t \in CpuState /\ t.skip = d.skip
      /\ t.pc = d.pc /\ t.ac = d.ac /\ t.link = d.link /\ t.mem = d.mem
      /\ t.ion = d.ion /\ t.halted = d.halted
      /\ t.pending = IF signal = "interrupt" THEN d.pending + 1 ELSE d.pending
  BY <1>2, <1>6, <1>7, <1>8, TickLeaves
<1>10. Somewhere(t)
  BY <1>7, <1>9 DEF Somewhere, OnMain, InService, Reentered, Restoring
<1>11. requested' = Accounted(t)
  <2>1. d.pending \in Nat /\ d.mem[\o27] \in Nat
    BY <1>7, FieldTypes, FieldInts, LowAddresses
  <2> QED
    BY <1>1, <1>7, <1>9, <2>1 DEF Accounted
<1>12. ~t.skip /\ TextKept(t.mem)
  BY <1>7, <1>9
<1>13. CpuInv'
  BY <1>8, <1>9, <1>12 DEF CpuInv, CpuTypeOK, SkipSettled
<1>14. TextKept(cpu.mem)' /\ Somewhere(cpu)'
  BY <1>8, <1>10, <1>12 DEF TextKept, Somewhere, OnMain, InService, Reentered, Restoring, Resumes
<1>15. EveryRequestServedOnce'
  BY <1>8, <1>11 DEF EveryRequestServedOnce, Accounted, Entries
<1> QED
  BY <1>13, <1>14, <1>15 DEF InterruptsInv

LEMMA InterruptsInit ==
  ASSUME MCInit
  PROVE  InterruptsInv
<1> DEFINE p == PoweredUpCpu
           q == [p EXCEPT !.mem = Program]
<1>1. p \in CpuState /\ ~p.skip /\ p.ac = 0 /\ p.link = 0 /\ ~p.ion /\ ~p.halted /\ p.pending = 0
  BY PoweredUpType DEF PoweredUpCpu
<1>2. cpu = [p EXCEPT !.mem = Program, !.pc = \o30] /\ requested = 0
  BY DEF MCInit
<1>3. Program \in [Addr -> Word] /\ \o30 \in Addr
  BY ProgramType, LowAddresses
<1> HIDE DEF p
<1>4. cpu \in CpuState
  BY <1>1, <1>2, <1>3 DEF CpuState
<1>5. /\ ~cpu.skip /\ cpu.pc = \o30 /\ cpu.ac = 0 /\ cpu.link = 0 /\ cpu.mem = Program
      /\ ~cpu.ion /\ ~cpu.halted /\ cpu.pending = 0
  <2>1. DOMAIN p = CpuFields
    BY <1>1, StatesAreShaped DEF Shaped
  <2> QED
    BY <1>1, <1>2, <2>1 DEF CpuFields
<1>6. Somewhere(cpu)
  <2>1. <<\o30, 0, 0, Program[\o44], Program[\o45], Program[\o11]>> \in Course
    BY ProgramWords DEF Course
  <2> QED
    BY <1>5, <2>1 DEF Somewhere, OnMain, Resumes
<1>7. EveryRequestServedOnce
  BY <1>2, <1>5, ProgramWords DEF EveryRequestServedOnce, Entries
<1>8. requested \in 0 .. MaxRequests
  <2>1. PICK most \in 0 .. \o7777 : most = MaxRequests
    BY GuestFitsAssumption
  <2>2. 0 \in 0 .. most
    BY <2>1
  <2> QED
    BY <1>2, <2>1, <2>2
<1>9. TextKept(cpu.mem)
  BY <1>5 DEF TextKept
<1> QED
  BY <1>4, <1>5, <1>6, <1>7, <1>8, <1>9 DEF InterruptsInv, CpuInv, CpuTypeOK, SkipSettled

LEMMA InterruptsNext == InterruptsInv /\ [MCNext]_mcVars => InterruptsInv'
<1> SUFFICES ASSUME InterruptsInv, [MCNext]_mcVars PROVE InterruptsInv'
  OBVIOUS
<1>1. requested \in 0 .. MaxRequests /\ MaxRequests \in Nat
  BY GuestFitsAssumption DEF InterruptsInv
<1>2. CASE QuietStep
  <2>1. Step("none") /\ requested' = requested
    BY <1>2 DEF QuietStep
  <2> QED
    BY <1>1, <2>1, InterruptsStep
<1>3. CASE Request
  <2>1. Step("interrupt") /\ requested' = requested + 1 /\ requested < MaxRequests
    BY <1>3 DEF Request
  <2>2. requested' \in 0 .. MaxRequests
    BY <1>1, <2>1
  <2> QED
    BY <2>1, <2>2, InterruptsStep
<1>4. CASE UNCHANGED mcVars
  BY <1>4 DEF mcVars, InterruptsInv, CpuInv, CpuTypeOK, SkipSettled, TextKept, Somewhere,
     OnMain, InService, Reentered, Restoring, Resumes, EveryRequestServedOnce, Entries
<1> QED
  BY <1>2, <1>3, <1>4 DEF MCNext

LEMMA InterruptsInvariant == MCSpec => []InterruptsInv
  BY InterruptsInit, InterruptsNext, PTL DEF MCSpec

\* Wherever and however often its interrupts arrive, and whether or not they
\* find the service routine at its ION, the main program halts with the sum it
\* computes alone (pdp8_api_step; the routine of src/src/emulator/pdp8.h).
THEOREM InterruptsAreInvisible == MCSpec => []MainUndisturbed
<1>1. InterruptsInv => MainUndisturbed
  <2> SUFFICES ASSUME InterruptsInv, cpu.halted
               PROVE  /\ cpu.mem[\o44] = \o2001 /\ cpu.mem[\o45] = 0 /\ cpu.mem[\o11] = \o47
    BY DEF MainUndisturbed, Total
  <2>1. CASE OnMain(cpu)
    BY <2>1 DEF OnMain, Resumes, Course
  <2>2. CASE InService(cpu)
    BY <2>2 DEF InService, Resumes, Course
  <2> QED
    BY <2>1, <2>2 DEF InterruptsInv, Somewhere, Reentered
<1> QED
  BY <1>1, InterruptsInvariant, PTL

\* No request is lost or served twice, whatever the routine was doing when it
\* came (pdp8_api_request_interrupt, pdp8_api_step).
THEOREM RequestsAreServedOnce == MCSpec => []EveryRequestServedOnce
<1>1. InterruptsInv => EveryRequestServedOnce
  BY DEF InterruptsInv
<1> QED
  BY <1>1, InterruptsInvariant, PTL
=============================================================================
