--------------------------- MODULE MonitorProofs ---------------------------
(***************************************************************************)
(* Proofs about the programs around the machine: the monitor's session      *)
(* (MonitorSession) and what both programs set up and give up (FrontEnds);  *)
(* and, with those of FilesProofs, about all the scenes of MCMonitor.       *)
(***************************************************************************)
EXTENDS MCMonitor, FilesProofs

-----------------------------------------------------------------------------
(***************************************************************************)
(* Proofs about MonitorSession: whatever is typed, however it arrives, and  *)
(* whatever the guest does, a break stops the run it was meant for, nothing *)
(* else costs a character, and go answers truly.                            *)
(***************************************************************************)

Places == {"command", "guest", "break", "dropped", "ran"}

Entry == [ch : STRING \cup {"none"}, to : Places]

InputTyped(i) ==
  /\ i.arrived \in Seq(Chunks) /\ i.buffer \in Seq(STRING)
  /\ i.closed \in BOOLEAN /\ i.count \in 0 .. MaxChunks
  /\ i = [arrived |-> i.arrived, buffer |-> i.buffer, closed |-> i.closed, count |-> i.count]

Guests == [halted : BOOLEAN, pending : 0 .. MaxRequests]

Sessions ==
  [ pc : { "prompt", "pump", "burst", "pump again", "drain", "service",
           "last service", "trace", "exited" },
    answer : {"none", "ok", "failed"},
    reason : {"none", "USER", "HALT", "INTERRUPT", "ERROR"},
    broken : BOOLEAN, total : -IntSize .. IntSize - 1, long : BOOLEAN,
    remaining : Nat ]

SessionTyped ==
  InputTyped(input) /\ guest \in Guests /\ session \in Sessions /\ log \in Seq(Entry)

-----------------------------------------------------------------------------
(* The log: what the properties say of it, of any log l.                    *)

\* A break was recognised, and no command has been given since.
BreakOpen(l) ==
  \E i \in DOMAIN l :
    l[i].to = "break" /\ \A j \in DOMAIN l : j >= i => l[j].to # "command"

\* The same, and nothing was executed since.
Quiet(l) ==
  \E i \in DOMAIN l :
    /\ l[i].to = "break"
    /\ \A j \in DOMAIN l : j >= i => l[j].to \notin {"command", "ran"}

NothingRunsBehind(l) ==
  \A i, j \in DOMAIN l :
    (i < j /\ l[i].to = "break" /\ l[j].to = "ran")
      => \E k \in i .. j : l[k].to = "command"

Loses(e) == e.to \in {"break", "dropped"}

DroppedBehind(l) ==
  \A i \in DOMAIN l : l[i].to = "dropped" => i > 1 /\ Loses(l[i - 1])

EndsLosing(l) == l # <<>> /\ Loses(l[Len(l)])

Sound(l) == NothingRunsBehind(l) /\ DroppedBehind(l)

LEMMA SoundIsBreakStops == Sound(log) <=> BreakStops
  BY DEF Sound, NothingRunsBehind, DroppedBehind, Loses, BreakStops

\* One more entry.
LEMMA Appended ==
  ASSUME NEW l \in Seq(Entry), NEW e \in Entry
  PROVE  /\ Append(l, e) \in Seq(Entry)
         /\ Len(l) \in Nat /\ DOMAIN l = 1 .. Len(l)
         /\ DOMAIN Append(l, e) = 1 .. Len(l) + 1
         /\ Len(Append(l, e)) = Len(l) + 1
         /\ Append(l, e)[Len(l) + 1] = e
         /\ \A i \in 1 .. Len(l) : Append(l, e)[i] = l[i]
  BY AppendProperties, LenProperties

LEMMA AppendSound ==
  ASSUME NEW l \in Seq(Entry), NEW e \in Entry, Sound(l),
         e.to = "ran" => ~BreakOpen(l),
         e.to = "dropped" => EndsLosing(l)
  PROVE  Sound(Append(l, e))
<1> DEFINE m == Append(l, e)
           n == Len(l)
<1>1. /\ n \in Nat /\ DOMAIN l = 1 .. n /\ DOMAIN m = 1 .. n + 1
      /\ m[n + 1] = e /\ \A i \in 1 .. n : m[i] = l[i]
  BY Appended
<1>2. l = <<>> <=> n = 0
  BY EmptySeq
<1>3. l # <<>> => l[Len(l)] = l[n]
  OBVIOUS
<1> HIDE DEF m, n
<1>4. NothingRunsBehind(m)
  <2> SUFFICES ASSUME NEW i \in DOMAIN m, NEW j \in DOMAIN m,
                      i < j, m[i].to = "break", m[j].to = "ran"
               PROVE  \E k \in i .. j : m[k].to = "command"
    BY DEF NothingRunsBehind
  <2>1. CASE j = n + 1
    <3>1. ~BreakOpen(l) /\ i \in 1 .. n /\ l[i].to = "break"
      BY <1>1, <2>1
    <3>2. PICK k \in DOMAIN l : k >= i /\ l[k].to = "command"
      BY <1>1, <3>1 DEF BreakOpen
    <3> QED
      BY <1>1, <2>1, <3>1, <3>2
  <2>2. CASE j # n + 1
    <3>1. i \in 1 .. n /\ j \in 1 .. n /\ l[i].to = "break" /\ l[j].to = "ran"
      BY <1>1, <2>2
    <3>2. PICK k \in i .. j : l[k].to = "command"
      BY <1>1, <3>1 DEF Sound, NothingRunsBehind
    <3> QED
      BY <1>1, <3>1, <3>2
  <2> QED
    BY <2>1, <2>2
<1>5. DroppedBehind(m)
  <2> SUFFICES ASSUME NEW i \in DOMAIN m, m[i].to = "dropped"
               PROVE  i > 1 /\ Loses(m[i - 1])
    BY DEF DroppedBehind
  <2>1. CASE i = n + 1
    BY <1>1, <1>2, <1>3, <2>1 DEF EndsLosing
  <2>2. CASE i # n + 1
    BY <1>1, <2>2 DEF Sound, DroppedBehind
  <2> QED
    BY <2>1, <2>2
<1> QED
  BY <1>4, <1>5 DEF m, Sound

LEMMA AppendToBreaks ==
  ASSUME NEW l \in Seq(Entry), NEW e \in Entry
  PROVE  /\ e.to # "break" /\ ~BreakOpen(l) => ~BreakOpen(Append(l, e))
         /\ e.to \notin {"command", "ran"} /\ Quiet(l) => Quiet(Append(l, e))
         /\ e.to = "break" => Quiet(Append(l, e))
         /\ Loses(e) => EndsLosing(Append(l, e))
<1> DEFINE m == Append(l, e)
           n == Len(l)
<1>1. /\ n \in Nat /\ DOMAIN l = 1 .. n /\ DOMAIN m = 1 .. n + 1 /\ Len(m) = n + 1
      /\ m[n + 1] = e /\ \A i \in 1 .. n : m[i] = l[i] /\ m \in Seq(Entry)
  BY Appended
<1>2. m # <<>>
  BY <1>1, EmptySeq
<1> HIDE DEF m, n
<1>3. ASSUME e.to # "break", BreakOpen(m) PROVE BreakOpen(l)
  <2>1. PICK i \in DOMAIN m :
          m[i].to = "break" /\ \A j \in DOMAIN m : j >= i => m[j].to # "command"
    BY <1>3 DEF BreakOpen
  <2>2. i \in 1 .. n
    BY <1>1, <1>3, <2>1
  <2> QED
    BY <1>1, <2>1, <2>2 DEF BreakOpen
<1>4. ASSUME e.to \notin {"command", "ran"}, Quiet(l) PROVE Quiet(m)
  <2>1. PICK i \in DOMAIN l :
          /\ l[i].to = "break"
          /\ \A j \in DOMAIN l : j >= i => l[j].to \notin {"command", "ran"}
    BY <1>4 DEF Quiet
  <2>2. i \in DOMAIN m /\ m[i].to = "break"
    BY <1>1, <2>1
  <2>3. \A j \in DOMAIN m : j >= i => m[j].to \notin {"command", "ran"}
    BY <1>1, <1>4, <2>1
  <2> QED
    BY <2>2, <2>3 DEF Quiet
<1>5. ASSUME e.to = "break" PROVE Quiet(m)
  <2>1. n + 1 \in DOMAIN m /\ \A j \in DOMAIN m : j >= n + 1 => j = n + 1
    BY <1>1
  <2> QED
    BY <1>1, <1>5, <2>1 DEF Quiet
<1>6. Loses(e) => EndsLosing(m)
  BY <1>1, <1>2 DEF EndsLosing
<1> QED
  BY <1>3, <1>4, <1>5, <1>6 DEF m

\* A whole line, to the prompt.
LEMMA LineSound ==
  ASSUME NEW l \in Seq(Entry), NEW s \in Seq(Entry), s # <<>>,
         \A i \in DOMAIN s : s[i].to = "command", Sound(l)
  PROVE  l \o s \in Seq(Entry) /\ Sound(l \o s) /\ ~BreakOpen(l \o s)
<1> DEFINE m == l \o s
           n == Len(l)
           k == Len(s)
<1>1. /\ n \in Nat /\ DOMAIN l = 1 .. n /\ k \in Nat /\ DOMAIN s = 1 .. k
      /\ m \in Seq(Entry) /\ DOMAIN m = 1 .. n + k
      /\ \A i \in 1 .. n + k : m[i] = IF i <= n THEN l[i] ELSE s[i - n]
  BY ConcatProperties, LenProperties
<1>2. k > 0
  BY EmptySeq, <1>1
<1> HIDE DEF m, n, k
<1>3. \A i \in DOMAIN m :
        \/ i \in 1 .. n /\ m[i] = l[i]
        \/ i > n /\ m[i].to = "command"
  <2> TAKE i \in DOMAIN m
  <2>1. CASE i <= n
    BY <1>1, <2>1
  <2>2. CASE i > n
    <3>1. i - n \in DOMAIN s /\ m[i] = s[i - n]
      BY <1>1, <2>2
    <3> QED
      BY <2>2, <3>1
  <2> QED
    BY <1>1, <2>1, <2>2
<1>4. n + k \in DOMAIN m /\ m[n + k].to = "command" /\ \A i \in DOMAIN m : n + k >= i
  BY <1>1, <1>2, <1>3
<1>5. ~BreakOpen(m)
  BY <1>4 DEF BreakOpen
<1>6. NothingRunsBehind(m)
  <2> SUFFICES ASSUME NEW i \in DOMAIN m, NEW j \in DOMAIN m,
                      i < j, m[i].to = "break", m[j].to = "ran"
               PROVE  \E q \in i .. j : m[q].to = "command"
    BY DEF NothingRunsBehind
  <2>1. i \in 1 .. n /\ j \in 1 .. n /\ l[i].to = "break" /\ l[j].to = "ran"
    BY <1>1, <1>3
  <2>2. PICK q \in i .. j : l[q].to = "command"
    BY <1>1, <2>1 DEF Sound, NothingRunsBehind
  <2> QED
    BY <1>1, <1>3, <2>1, <2>2
<1>7. DroppedBehind(m)
  <2> SUFFICES ASSUME NEW i \in DOMAIN m, m[i].to = "dropped"
               PROVE  i > 1 /\ Loses(m[i - 1])
    BY DEF DroppedBehind
  <2>1. i \in 1 .. n /\ l[i].to = "dropped"
    BY <1>1, <1>3
  <2>2. i > 1 /\ Loses(l[i - 1])
    BY <1>1, <2>1 DEF Sound, DroppedBehind
  <2> QED
    BY <1>1, <2>1, <2>2
<1> QED
  BY <1>1, <1>5, <1>6, <1>7 DEF m, Sound

-----------------------------------------------------------------------------
(* The invariant.  BreakStops is about the log alone; what keeps it true is *)
(* what each place in the loops knows of the log.                           *)

BreakKnown ==
  /\ session.pc \in {"burst", "service", "trace"} => ~BreakOpen(log)
  /\ Pumping /\ ~session.broken => ~BreakOpen(log)
  /\ Pumping /\ session.broken => Quiet(log) /\ EndsLosing(log)

\* Who is about to execute has seen that the guest can.
GuestReady ==
  /\ session.pc = "burst" => ~guest.halted /\ ~session.broken
  /\ session.pc = "trace" => ~guest.halted /\ session.remaining > 0

ReasonHolds ==
  /\ session.pc \notin {"prompt", "drain", "exited"} => session.reason = "none"
  /\ session.reason # "ERROR"
  /\ session.reason = "HALT" => guest.halted
  /\ session.reason = "INTERRUPT" => guest.pending > 0 /\ ~guest.halted
  /\ session.reason = "USER" => Quiet(log)

CountTrue ==
  /\ session.total < 0 => session.long
  /\ session.answer = "failed" => session.long

SessionInv ==
  SessionTyped /\ Sound(log) /\ BreakKnown /\ GuestReady /\ ReasonHolds /\ CountTrue

-----------------------------------------------------------------------------
(* The input.                                                               *)

LEMMA InputOnly ==
  ASSUME SessionInv, InputTyped(input'), UNCHANGED <<guest, session, log>>
  PROVE  SessionInv'
  BY DEF SessionInv, SessionTyped, BreakKnown, Pumping, GuestReady, ReasonHolds, CountTrue

LEMMA ChunkTyped ==
  ASSUME NEW a \in Seq(Chunks), a # <<>>
  PROVE  Head(a) \in Seq(STRING) /\ Head(a) # <<>> /\ Tail(a) \in Seq(Chunks)
<1>1. Head(a) \in Chunks /\ Tail(a) \in Seq(Chunks)
  BY HeadTailProperties
<1> QED
  BY <1>1, SessionConstantsAssumption

LEMMA FilledTyped ==
  ASSUME NEW i, InputTyped(i)
  PROVE  InputTyped(Filled(i))
<1>1. CASE i.buffer = <<>> /\ i.arrived # <<>>
  <2>1. Head(i.arrived) \in Seq(STRING) /\ Tail(i.arrived) \in Seq(Chunks)
    BY <1>1, ChunkTyped DEF InputTyped
  <2>2. Filled(i) = [ arrived |-> Tail(i.arrived), buffer |-> Head(i.arrived),
                      closed |-> i.closed, count |-> i.count ]
    BY <1>1 DEF Filled, InputTyped
  <2> QED
    BY <2>1, <2>2 DEF InputTyped
<1> QED
  BY <1>1 DEF Filled

LEMMA BufferReplaced ==
  ASSUME NEW i, InputTyped(i), NEW x \in Seq(STRING)
  PROVE  InputTyped([i EXCEPT !.buffer = x])
<1>1. [i EXCEPT !.buffer = x]
        = [arrived |-> i.arrived, buffer |-> x, closed |-> i.closed, count |-> i.count]
  BY DEF InputTyped
<1> QED
  BY <1>1 DEF InputTyped

LEMMA PollTyped ==
  ASSUME NEW i, InputTyped(i), Polls(i)
  PROVE  InputTyped(AfterPoll(i)) /\ Polled(i) \in STRING
<1> DEFINE f == Filled(i)
<1>1. InputTyped(f) /\ f.buffer # <<>>
  BY FilledTyped DEF Polls
<1>2. Head(f.buffer) \in STRING /\ Tail(f.buffer) \in Seq(STRING)
  BY <1>1, HeadTailProperties DEF InputTyped
<1>3. InputTyped([f EXCEPT !.buffer = Tail(f.buffer)])
  <2> HIDE DEF f
  <2> QED
    BY <1>1, <1>2, BufferReplaced
<1> QED
  BY <1>2, <1>3 DEF AfterPoll, Polled

LEMMA TypeKeeps ==
  ASSUME SessionInv, NEW chunk \in Chunks, Type(chunk) PROVE SessionInv'
<1>1. input' = [ arrived |-> Append(input.arrived, chunk), buffer |-> input.buffer,
                 closed |-> input.closed, count |-> input.count + 1 ]
  BY DEF Type, SessionInv, SessionTyped, InputTyped
<1>2. Append(input.arrived, chunk) \in Seq(Chunks)
  BY AppendProperties DEF SessionInv, SessionTyped, InputTyped
<1>3. input.count + 1 \in 0 .. MaxChunks
  BY SessionConstantsAssumption DEF Type, SessionInv, SessionTyped, InputTyped
<1> QED
  BY <1>1, <1>2, <1>3, InputOnly DEF Type, SessionInv, SessionTyped, InputTyped

LEMMA CloseInputKeeps == ASSUME SessionInv, CloseInput PROVE SessionInv'
<1>1. input' = [ arrived |-> input.arrived, buffer |-> input.buffer,
                 closed |-> TRUE, count |-> input.count ]
  BY DEF CloseInput, SessionInv, SessionTyped, InputTyped
<1> QED
  BY <1>1, InputOnly DEF CloseInput, SessionInv, SessionTyped, InputTyped

LEMMA ReadOnKeeps == ASSUME SessionInv, ReadOn PROVE SessionInv'
<1>1. input' = [ arrived |-> Tail(input.arrived),
                 buffer |-> input.buffer \o Head(input.arrived),
                 closed |-> input.closed, count |-> input.count ]
  BY DEF ReadOn, SessionInv, SessionTyped, InputTyped
<1>2. Head(input.arrived) \in Seq(STRING) /\ Tail(input.arrived) \in Seq(Chunks)
  BY ChunkTyped DEF ReadOn, SessionInv, SessionTyped, InputTyped
<1>3. input.buffer \o Head(input.arrived) \in Seq(STRING)
  BY <1>2, ConcatProperties DEF SessionInv, SessionTyped, InputTyped
<1> QED
  BY <1>1, <1>2, <1>3, InputOnly DEF ReadOn, SessionInv, SessionTyped, InputTyped

-----------------------------------------------------------------------------
(* The prompt.                                                              *)

LEMMA EndOfInputKeeps == ASSUME SessionInv, EndOfInput PROVE SessionInv'
<1>1. session' \in Sessions /\ session'.pc = "exited"
      /\ session'.reason = session.reason /\ session'.answer = session.answer
      /\ session'.total = session.total /\ session'.long = session.long
  BY DEF EndOfInput, SessionInv, SessionTyped, Sessions
<1>2. UNCHANGED <<input, guest, log>>
  BY DEF EndOfInput
<1> QED
  BY <1>1, <1>2 DEF SessionInv, SessionTyped, BreakKnown, Pumping, GuestReady,
     ReasonHolds, CountTrue

\* The session at the start of a command.
Fresh(place, n) ==
  [ pc |-> place, answer |-> "none", reason |-> "none", broken |-> FALSE,
    total |-> 0, long |-> FALSE, remaining |-> n ]

LEMMA FreshTyped ==
  ASSUME NEW place \in {"prompt", "pump", "service", "trace", "exited"}, NEW n \in Nat
  PROVE  Fresh(place, n) \in Sessions
<1>1. 0 \in -IntSize .. IntSize - 1
  BY SessionConstantsAssumption
<1> QED
  BY <1>1 DEF Fresh, Sessions

\* A line is recorded whole.
LEMMA LineLogged ==
  ASSUME NEW l \in Seq(Entry), NEW b \in Seq(STRING), NEW n \in DOMAIN b, Sound(l)
  PROVE  LET line == SubSeq(b, 1, n)
             s == [k \in DOMAIN line |-> [ch |-> line[k], to |-> "command"]]
         IN  /\ SubSeq(b, n + 1, Len(b)) \in Seq(STRING)
             /\ l \o s \in Seq(Entry) /\ Sound(l \o s) /\ ~BreakOpen(l \o s)
<1> DEFINE line == SubSeq(b, 1, n)
           s == [k \in DOMAIN line |-> [ch |-> line[k], to |-> "command"]]
<1>1. n \in 1 .. Len(b) /\ Len(b) \in Nat
  BY LenProperties
<1>2. line \in Seq(STRING) /\ Len(line) = n
  BY <1>1, SubSeqProperties
<1>3. DOMAIN line = 1 .. n
  BY <1>1, <1>2, LenProperties
<1>4. SubSeq(b, n + 1, Len(b)) \in Seq(STRING)
  BY <1>1, SubSeqProperties
<1>5. \A k \in 1 .. n : line[k] \in STRING
  BY <1>2, <1>3, ElementOfSeq
<1> HIDE DEF line
<1>6. DOMAIN s = 1 .. n /\ \A k \in 1 .. n : s[k] \in Entry /\ s[k].to = "command"
  BY <1>3, <1>5 DEF Entry, Places
<1>7. s \in Seq(Entry)
  <2>1. s = [k \in 1 .. n |-> s[k]]
    BY <1>3
  <2> HIDE DEF s
  <2> QED
    BY <1>1, <1>6, <2>1, IsASeq
<1>8. s # <<>>
  BY <1>1, <1>6
<1> HIDE DEF s
<1>9. l \o s \in Seq(Entry) /\ Sound(l \o s) /\ ~BreakOpen(l \o s)
  BY <1>6, <1>7, <1>8, LineSound
<1> QED
  BY <1>4, <1>9 DEF s, line

LEMMA TakeLineKeeps == ASSUME SessionInv, TakeLine PROVE SessionInv'
<1>1. PICK n \in LineEnds(input) :
        /\ input' = [input EXCEPT !.buffer = SubSeq(@, n + 1, Len(@))]
        /\ log' = WentAll(SubSeq(input.buffer, 1, n), "command")
        /\ \/ \E place \in {"pump", "service", "trace"} : \E m \in Nat :
                Started(place, m) /\ (place = "trace" => m > 0)
           \/ /\ guest' \in {guest, [halted |-> FALSE, pending |-> 0]}
              /\ session' \in {Prompt("none", "none"),
                               [Prompt("none", "none") EXCEPT !.pc = "exited"]}
  <2>1. PICK n \in LineEnds(input) :
          LET line == SubSeq(input.buffer, 1, n)
          IN  /\ input' = [input EXCEPT !.buffer = SubSeq(@, n + 1, Len(@))]
              /\ log' = WentAll(line, "command")
              /\ CASE Command(line) = <<"g">> -> Started("pump", 0)
                   [] Command(line) = <<"c">> ->
                        \E n2 \in CycleCounts : Started("service", n2)
                   [] Command(line) = <<"t">> ->
                        \E n2 \in CycleCounts : Started("trace", n2)
                   [] Command(line) = <<"r">> ->
                        /\ guest' = [halted |-> FALSE, pending |-> 0]
                        /\ session' = Prompt("none", "none")
                   [] Command(line) = <<"q">> ->
                        /\ session' = [Prompt("none", "none") EXCEPT !.pc = "exited"]
                        /\ UNCHANGED guest
                   [] OTHER ->
                        /\ session' = Prompt("none", "none")
                        /\ UNCHANGED guest
    BY Zenon DEF TakeLine
  <2>2. \A m \in CycleCounts : m \in Nat /\ m > 0
    BY SessionConstantsAssumption
  <2>3. ASSUME NEW place \in {"pump", "service", "trace"}, NEW m \in Nat,
               Started(place, m), place = "trace" => m > 0
        PROVE  \E p \in {"pump", "service", "trace"} : \E k \in Nat :
                 Started(p, k) /\ (p = "trace" => k > 0)
    BY <2>3
  <2>4. /\ Started("pump", 0) =>
             \E p \in {"pump", "service", "trace"} : \E k \in Nat :
               Started(p, k) /\ (p = "trace" => k > 0)
        /\ \A m \in CycleCounts : \A place \in {"service", "trace"} : Started(place, m) =>
             \E p \in {"pump", "service", "trace"} : \E k \in Nat :
               Started(p, k) /\ (p = "trace" => k > 0)
    BY <2>2, <2>3
  <2> QED
    BY <2>1, <2>4
<1>2. n \in DOMAIN input.buffer /\ input.buffer \in Seq(STRING)
  BY DEF LineEnds, SessionInv, SessionTyped, InputTyped
<1>3. /\ SubSeq(input.buffer, n + 1, Len(input.buffer)) \in Seq(STRING)
      /\ log' \in Seq(Entry) /\ Sound(log') /\ ~BreakOpen(log')
  BY <1>1, <1>2, LineLogged DEF WentAll, SessionInv, SessionTyped
<1>4. InputTyped(input')
  BY <1>1, <1>3, BufferReplaced DEF SessionInv, SessionTyped
<1>5. CASE \E place \in {"pump", "service", "trace"} : \E m \in Nat :
                Started(place, m) /\ (place = "trace" => m > 0)
  <2>1. PICK place \in {"pump", "service", "trace"}, m \in Nat :
          Started(place, m) /\ (place = "trace" => m > 0)
    BY <1>5
  <2>2. session' = Fresh(place, m)
    BY <2>1 DEF Started, Prompt, Fresh
  <2>3. guest' \in Guests /\ ~guest'.halted
    BY <2>1 DEF Started, SessionInv, SessionTyped, Guests
  <2>4. session' \in Sessions
    BY <2>2, FreshTyped
  <2>5. /\ session'.reason = "none" /\ session'.answer = "none" /\ session'.total = 0
        /\ ~session'.broken /\ session'.pc = place /\ session'.remaining = m
    BY <2>2 DEF Fresh
  <2>6. SessionTyped'
    BY <1>3, <1>4, <2>3, <2>4 DEF SessionTyped
  <2>7. Sound(log)'
    BY <1>3
  <2>8. BreakKnown'
    BY <1>3, <2>5 DEF BreakKnown, Pumping
  <2>9. GuestReady'
    BY <2>1, <2>3, <2>5 DEF GuestReady
  <2>10. ReasonHolds'
    BY <2>5 DEF ReasonHolds
  <2>11. CountTrue'
    BY <2>5 DEF CountTrue
  <2> QED
    BY <2>6, <2>7, <2>8, <2>9, <2>10, <2>11 DEF SessionInv
<1>6. CASE /\ guest' \in {guest, [halted |-> FALSE, pending |-> 0]}
           /\ session' \in {Prompt("none", "none"),
                            [Prompt("none", "none") EXCEPT !.pc = "exited"]}
  <2>1. session' = Fresh("prompt", 0) \/ session' = Fresh("exited", 0)
    BY <1>6 DEF Prompt, Fresh
  <2>2. guest' \in Guests
    <3>1. [halted |-> FALSE, pending |-> 0] \in Guests
      BY SessionConstantsAssumption DEF Guests
    <3> QED
      BY <1>6, <3>1 DEF SessionInv, SessionTyped
  <2>3. session' \in Sessions
    BY <2>1, FreshTyped
  <2>4. /\ session'.reason = "none" /\ session'.answer = "none" /\ session'.total = 0
        /\ session'.pc \in {"prompt", "exited"}
    BY <2>1 DEF Fresh
  <2>5. SessionTyped'
    BY <1>3, <1>4, <2>2, <2>3 DEF SessionTyped
  <2>6. Sound(log)'
    BY <1>3
  <2>7. BreakKnown'
    BY <1>3, <2>4 DEF BreakKnown, Pumping
  <2>8. GuestReady'
    BY <2>4 DEF GuestReady
  <2>9. ReasonHolds'
    BY <2>4 DEF ReasonHolds
  <2>10. CountTrue'
    BY <2>4 DEF CountTrue
  <2> QED
    BY <2>5, <2>6, <2>7, <2>8, <2>9, <2>10 DEF SessionInv
<1> QED
  BY <1>1, <1>5, <1>6

-----------------------------------------------------------------------------
(* The run loops.                                                           *)

\* What an invariant state says, piece by piece.
LEMMA Facts ==
  ASSUME SessionInv
  PROVE  /\ InputTyped(input) /\ guest \in Guests /\ session \in Sessions
         /\ log \in Seq(Entry) /\ Sound(log)
         /\ session.total \in -IntSize .. IntSize - 1 /\ session.remaining \in Nat
         /\ session.reason \in {"none", "USER", "HALT", "INTERRUPT", "ERROR"}
         /\ BreakKnown /\ GuestReady /\ ReasonHolds /\ CountTrue
  BY DEF SessionInv, SessionTyped, Sessions

\* A character that goes somewhere.
LEMMA WentLogged ==
  ASSUME SessionInv, Polls(input), NEW where \in {"guest", "break", "dropped"},
         log' = Went(Polled(input), where),
         where = "dropped" => EndsLosing(log)
  PROVE  /\ log' \in Seq(Entry) /\ Sound(log')
         /\ where # "break" /\ ~BreakOpen(log) => ~BreakOpen(log')
         /\ Quiet(log) \/ where = "break" => Quiet(log')
         /\ where # "guest" => EndsLosing(log')
<1> DEFINE e == [ch |-> Polled(input), to |-> where]
<1>1. e \in Entry /\ e.to = where
  BY PollTyped, Facts DEF Entry, Places
<1>2. log' = Append(log, e) /\ log \in Seq(Entry) /\ Sound(log)
  BY Facts DEF Went
<1> HIDE DEF e
<1>3. Sound(log') /\ log' \in Seq(Entry)
  BY <1>1, <1>2, AppendSound, Appended
<1>4. /\ e.to # "break" /\ ~BreakOpen(log) => ~BreakOpen(log')
      /\ e.to \notin {"command", "ran"} /\ Quiet(log) => Quiet(log')
      /\ e.to = "break" => Quiet(log')
      /\ Loses(e) => EndsLosing(log')
  BY <1>1, <1>2, AppendToBreaks
<1>5. Loses(e) <=> where # "guest"
  BY <1>1 DEF Loses
<1> QED
  BY <1>1, <1>3, <1>4, <1>5

LEMMA PumpCharacterKeeps == ASSUME SessionInv, PumpCharacter PROVE SessionInv'
<1>1. /\ InputTyped(input') /\ UNCHANGED guest /\ Pumping /\ Polls(input)
      /\ guest' \in Guests /\ session \in Sessions
  BY PollTyped, Facts DEF PumpCharacter
<1>2. CASE session.broken
  <2>1. log' = Went(Polled(input), "dropped") /\ UNCHANGED session
    BY <1>2 DEF PumpCharacter
  <2>2. Quiet(log) /\ EndsLosing(log)
    BY <1>1, <1>2, Facts DEF BreakKnown
  <2>3. log' \in Seq(Entry) /\ Sound(log') /\ Quiet(log') /\ EndsLosing(log')
    BY <1>1, <2>1, <2>2, WentLogged
  <2>4. SessionTyped'
    BY <1>1, <2>1, <2>3 DEF SessionTyped
  <2>5. Sound(log)'
    BY <2>3
  <2>6. BreakKnown'
    BY <1>1, <1>2, <2>1, <2>3 DEF BreakKnown, Pumping
  <2>7. GuestReady'
    BY <1>1, <2>1, Facts DEF GuestReady
  <2>8. ReasonHolds'
    BY <1>1, <2>1, <2>3, Facts DEF ReasonHolds
  <2>9. CountTrue'
    BY <2>1, Facts DEF CountTrue
  <2> QED
    BY <2>4, <2>5, <2>6, <2>7, <2>8, <2>9 DEF SessionInv
<1>3. CASE ~session.broken /\ Polled(input) = Period
  <2>1. /\ log' = Went(Polled(input), "break")
        /\ session' = [session EXCEPT !.broken = TRUE]
    BY <1>3 DEF PumpCharacter
  <2>2. log' \in Seq(Entry) /\ Sound(log') /\ Quiet(log') /\ EndsLosing(log')
    BY <1>1, <2>1, WentLogged
  <2>3. /\ session' \in Sessions /\ session'.broken /\ session'.pc = session.pc
        /\ session'.reason = session.reason /\ session'.answer = session.answer
        /\ session'.total = session.total /\ session'.long = session.long
    BY <2>1, Facts DEF Sessions
  <2>4. SessionTyped'
    BY <1>1, <2>2, <2>3 DEF SessionTyped
  <2>5. Sound(log)'
    BY <2>2
  <2>6. BreakKnown'
    BY <1>1, <2>2, <2>3 DEF BreakKnown, Pumping
  <2>7. GuestReady'
    BY <1>1, <2>3, Facts DEF Pumping, GuestReady
  <2>8. ReasonHolds'
    BY <1>1, <2>2, <2>3, Facts DEF ReasonHolds
  <2>9. CountTrue'
    BY <2>3, Facts DEF CountTrue
  <2> QED
    BY <2>4, <2>5, <2>6, <2>7, <2>8, <2>9 DEF SessionInv
<1>4. CASE ~session.broken /\ Polled(input) # Period
  <2>1. log' = Went(Polled(input), "guest") /\ UNCHANGED session
    BY <1>4 DEF PumpCharacter
  <2>2. ~BreakOpen(log)
    BY <1>1, <1>4, Facts DEF BreakKnown
  <2>3. /\ log' \in Seq(Entry) /\ Sound(log') /\ ~BreakOpen(log')
        /\ Quiet(log) => Quiet(log')
    BY <1>1, <2>1, <2>2, WentLogged
  <2>4. SessionTyped'
    BY <1>1, <2>1, <2>3, Facts DEF SessionTyped
  <2>5. Sound(log)'
    BY <2>3
  <2>6. BreakKnown'
    BY <1>1, <1>4, <2>1, <2>3 DEF BreakKnown, Pumping
  <2>7. GuestReady'
    BY <1>1, <2>1, Facts DEF GuestReady
  <2>8. ReasonHolds'
    BY <1>1, <2>1, <2>3, Facts DEF ReasonHolds
  <2>9. CountTrue'
    BY <2>1, Facts DEF CountTrue
  <2> QED
    BY <2>4, <2>5, <2>6, <2>7, <2>8, <2>9 DEF SessionInv
<1> QED
  BY <1>2, <1>3, <1>4

LEMMA ServiceCharacterKeeps == ASSUME SessionInv, ServiceCharacter PROVE SessionInv'
<1>1. /\ InputTyped(input') /\ UNCHANGED <<guest, session>> /\ Polls(input)
      /\ log' = Went(Polled(input), "guest")
      /\ session.pc \in {"service", "drain", "last service"}
  BY PollTyped, Facts DEF ServiceCharacter
<1>2. /\ log' \in Seq(Entry) /\ Sound(log') /\ (~BreakOpen(log) => ~BreakOpen(log'))
      /\ Quiet(log) => Quiet(log')
  BY <1>1, WentLogged
<1>3. SessionTyped'
  BY <1>1, <1>2, Facts DEF SessionTyped
<1>4. Sound(log)'
  BY <1>2
<1>5. BreakKnown'
  BY <1>1, <1>2, Facts DEF BreakKnown, Pumping
<1>6. GuestReady'
  BY <1>1, Facts DEF GuestReady
<1>7. ReasonHolds'
  BY <1>1, <1>2, Facts DEF ReasonHolds
<1>8. CountTrue'
  BY <1>1, Facts DEF CountTrue
<1> QED
  BY <1>3, <1>4, <1>5, <1>6, <1>7, <1>8 DEF SessionInv

LEMMA StoppedKeeps ==
  ASSUME SessionInv, NEW r \in {"USER", "HALT", "INTERRUPT"}, Stopped(r), Pumping,
         UNCHANGED <<input, guest, log>>,
         r = "USER" => Quiet(log), r = "HALT" => guest.halted,
         r = "INTERRUPT" => guest.pending > 0 /\ ~guest.halted
  PROVE  SessionInv'
<1>1. /\ session' \in Sessions /\ session'.pc = "drain" /\ session'.reason = r
      /\ session'.answer = session.answer /\ session'.total = session.total
      /\ session'.long = session.long
  BY Facts DEF Stopped, Sessions
<1>2. SessionTyped'
  BY <1>1, Facts DEF SessionTyped
<1>3. Sound(log)'
  BY Facts
<1>4. BreakKnown'
  BY <1>1 DEF BreakKnown, Pumping
<1>5. GuestReady'
  BY <1>1 DEF GuestReady
<1>6. ReasonHolds'
  BY <1>1 DEF ReasonHolds
<1>7. CountTrue'
  BY <1>1, Facts DEF CountTrue
<1> QED
  BY <1>2, <1>3, <1>4, <1>5, <1>6, <1>7 DEF SessionInv

LEMMA PumpDoneKeeps == ASSUME SessionInv, PumpDone PROVE SessionInv'
<1>1. Pumping /\ session.pc = "pump" /\ UNCHANGED <<input, guest, log>>
  BY DEF PumpDone, Pumping
<1>2. CASE session.broken \/ guest.halted \/ guest.pending > 0
  <2>1. PICK r \in {"USER", "HALT", "INTERRUPT"} :
          /\ Stopped(r)
          /\ r = "USER" => session.broken
          /\ r = "HALT" => guest.halted
          /\ r = "INTERRUPT" => guest.pending > 0 /\ ~guest.halted
    <3>1. /\ StopReason \in {"USER", "HALT", "INTERRUPT"}
          /\ StopReason = "USER" => session.broken
          /\ StopReason = "HALT" => guest.halted
          /\ StopReason = "INTERRUPT" => guest.pending > 0 /\ ~guest.halted
      <4>1. CASE session.broken
        BY <4>1 DEF StopReason
      <4>2. CASE ~session.broken /\ guest.halted
        BY <4>2 DEF StopReason
      <4>3. CASE ~session.broken /\ ~guest.halted /\ guest.pending > 0
        BY <4>3 DEF StopReason
      <4> QED
        BY <1>2, <4>1, <4>2, <4>3
    <3>2. Stopped(StopReason)
      BY <3>1 DEF PumpDone
    <3> QED
      BY <3>1, <3>2
  <2> QED
    BY <1>1, <2>1, StoppedKeeps, Facts DEF BreakKnown
<1>3. CASE ~(session.broken \/ guest.halted \/ guest.pending > 0)
  <2>1. session' = [session EXCEPT !.pc = "burst"]
    BY <1>3 DEF PumpDone, StopReason
  <2>2. /\ session' \in Sessions /\ session'.pc = "burst"
        /\ session'.broken = session.broken /\ session'.reason = session.reason
        /\ session'.answer = session.answer
        /\ session'.total = session.total /\ session'.long = session.long
    BY <2>1, Facts DEF Sessions
  <2>3. SessionTyped'
    BY <1>1, <2>2, Facts DEF SessionTyped
  <2>4. Sound(log)'
    BY <1>1, Facts
  <2>5. BreakKnown'
    BY <1>1, <1>3, <2>2, Facts DEF BreakKnown, Pumping
  <2>6. GuestReady'
    BY <1>1, <1>3, <2>2 DEF GuestReady
  <2>7. ReasonHolds'
    BY <1>1, <2>2, Facts DEF ReasonHolds
  <2>8. CountTrue'
    BY <2>2, Facts DEF CountTrue
  <2> QED
    BY <2>3, <2>4, <2>5, <2>6, <2>7, <2>8 DEF SessionInv
<1> QED
  BY <1>2, <1>3

LEMMA PumpAgainDoneKeeps == ASSUME SessionInv, PumpAgainDone PROVE SessionInv'
<1>1. Pumping /\ session.pc = "pump again" /\ UNCHANGED <<input, guest, log>>
  BY DEF PumpAgainDone, Pumping
<1>2. CASE session.broken
  <2>1. Stopped("USER")
    BY <1>2 DEF PumpAgainDone
  <2> QED
    BY <1>1, <1>2, <2>1, StoppedKeeps, Facts DEF BreakKnown
<1>3. CASE ~session.broken
  <2>1. session' = [session EXCEPT !.pc = "pump"]
    BY <1>3 DEF PumpAgainDone
  <2>2. /\ session' \in Sessions /\ session'.pc = "pump"
        /\ session'.broken = session.broken /\ session'.reason = session.reason
        /\ session'.answer = session.answer
        /\ session'.total = session.total /\ session'.long = session.long
    BY <2>1, Facts DEF Sessions
  <2>3. SessionTyped'
    BY <1>1, <2>2, Facts DEF SessionTyped
  <2>4. Sound(log)'
    BY <1>1, Facts
  <2>5. BreakKnown'
    BY <1>1, <1>3, <2>2, Facts DEF BreakKnown, Pumping
  <2>6. GuestReady'
    BY <1>1, <2>2 DEF GuestReady
  <2>7. ReasonHolds'
    BY <1>1, <2>2, Facts DEF ReasonHolds
  <2>8. CountTrue'
    BY <2>2, Facts DEF CountTrue
  <2> QED
    BY <2>3, <2>4, <2>5, <2>6, <2>7, <2>8 DEF SessionInv
<1> QED
  BY <1>2, <1>3

LEMMA FinishKeeps == ASSUME SessionInv, Finish PROVE SessionInv'
<1>1. /\ UNCHANGED <<input, guest, log>>
      /\ session' = [ pc |-> "prompt", answer |-> Answer(session),
                      reason |-> session.reason, broken |-> FALSE, total |-> 0,
                      long |-> session.long, remaining |-> 0 ]
  BY DEF Finish, Prompt
<1>2. Answer(session) \in {"ok", "failed"}
      /\ (Answer(session) = "failed" => session.long)
  BY Facts DEF Answer, CountTrue, ReasonHolds
<1>3. /\ session' \in Sessions /\ session'.pc = "prompt"
      /\ session'.reason = session.reason /\ session'.answer = Answer(session)
      /\ session'.total = 0 /\ session'.long = session.long
  <2>1. 0 \in -IntSize .. IntSize - 1
    BY SessionConstantsAssumption
  <2>2. session.long \in BOOLEAN
    BY Facts DEF Sessions
  <2> QED
    BY <1>1, <1>2, <2>1, <2>2, Facts DEF Sessions
<1>4. SessionTyped'
  BY <1>1, <1>3, Facts DEF SessionTyped
<1>5. Sound(log)'
  BY <1>1, Facts
<1>6. BreakKnown'
  BY <1>3 DEF BreakKnown, Pumping
<1>7. GuestReady'
  BY <1>3 DEF GuestReady
<1>8. ReasonHolds'
  BY <1>1, <1>3, Facts DEF ReasonHolds
<1>9. CountTrue'
  BY <1>2, <1>3 DEF CountTrue
<1> QED
  BY <1>4, <1>5, <1>6, <1>7, <1>8, <1>9 DEF SessionInv

\* A burst of a guest that is not halted executes something.
LEMMA BurstTyped ==
  ASSUME NEW g \in Guests, NEW request \in Nat,
         NEW result \in BurstResults(g, request)
  PROVE  /\ result.guest \in Guests /\ result.executed \in 0 .. request
         /\ ~g.halted /\ request > 0 => result.executed \in 1 .. request
<1>1. CASE g.halted
  BY <1>1 DEF BurstResults
<1>2. CASE ~g.halted
  <2>1. \/ result \in [ guest : [halted : {TRUE}, pending : 0 .. MaxRequests],
                        executed : 1 .. request ]
        \/ result \in [ guest : [halted : {FALSE}, pending : 0 .. MaxRequests],
                        executed : {request} ]
    BY <1>2 DEF BurstResults
  <2>2. result.guest \in Guests
    BY <2>1 DEF Guests
  <2>3. result.executed \in 1 .. request \/ result.executed = request
    BY <2>1
  <2> QED
    BY <2>2, <2>3
<1> QED
  BY <1>1, <1>2

LEMMA Counted ==
  ASSUME NEW t \in -IntSize .. IntSize - 1, NEW e \in 0 .. Slice
  PROVE  /\ Wrapped(t + e) \in -IntSize .. IntSize - 1
         /\ Wrapped(t + e) < 0 => t < 0 \/ t + e >= IntSize
  BY SessionConstantsAssumption DEF Wrapped

LEMMA RanLogged ==
  ASSUME SessionInv, ~BreakOpen(log), log' = Ran
  PROVE  log' \in Seq(Entry) /\ Sound(log') /\ ~BreakOpen(log')
<1> DEFINE e == [ch |-> "none", to |-> "ran"]
<1>1. e \in Entry /\ e.to = "ran"
  BY DEF Entry, Places
<1>2. log' = log \/ log' = Append(log, e)
  BY DEF Ran
<1> HIDE DEF e
<1>3. log \in Seq(Entry) /\ Sound(log)
  BY Facts
<1>4. Append(log, e) \in Seq(Entry) /\ Sound(Append(log, e)) /\ ~BreakOpen(Append(log, e))
  BY <1>1, <1>3, Appended, AppendSound, AppendToBreaks
<1> QED
  BY <1>2, <1>3, <1>4

LEMMA GoBurstKeeps == ASSUME SessionInv, GoBurst PROVE SessionInv'
<1>1. /\ session.pc = "burst" /\ ~guest.halted /\ ~session.broken /\ ~BreakOpen(log)
      /\ UNCHANGED input /\ log' = Ran
  BY Facts DEF GoBurst, GuestReady, BreakKnown
<1>2. PICK result \in BurstResults(guest, Slice) :
        /\ guest' = result.guest
        /\ LET sum == session.total + result.executed
               counted == [session EXCEPT !.total = Wrapped(sum),
                                          !.long = @ \/ sum >= IntSize]
           IN  session' =
                 CASE result.executed <= 0 ->
                        [counted EXCEPT !.pc = "drain",
                           !.reason = IF guest'.halted THEN "HALT"
                                      ELSE IF guest'.pending > 0 THEN "INTERRUPT"
                                      ELSE "ERROR"]
                   [] result.executed > 0 /\ guest'.halted ->
                        [counted EXCEPT !.pc = "drain", !.reason = "HALT"]
                   [] result.executed > 0 /\ ~guest'.halted /\ guest'.pending > 0 ->
                        [counted EXCEPT !.pc = "drain", !.reason = "INTERRUPT"]
                   [] OTHER -> [counted EXCEPT !.pc = "pump again"]
  BY Zenon DEF GoBurst
<1>3. Slice \in Nat \ {0}
  BY SessionConstantsAssumption
<1>4. guest' \in Guests /\ result.executed \in 1 .. Slice
  BY <1>1, <1>2, <1>3, BurstTyped, Facts
<1>5. PICK e \in 1 .. Slice : e = result.executed
  BY <1>4
<1>6. PICK t \in -IntSize .. IntSize - 1 : t = session.total
  BY Facts
<1> DEFINE total == Wrapped(t + e)
           long == session.long \/ t + e >= IntSize
           counted == [session EXCEPT !.total = total, !.long = long]
<1>7. /\ total \in -IntSize .. IntSize - 1
      /\ total < 0 => t < 0 \/ t + e >= IntSize
  BY Counted
<1>8. \/ guest'.halted /\ session' = [counted EXCEPT !.pc = "drain", !.reason = "HALT"]
      \/ /\ ~guest'.halted /\ guest'.pending > 0
         /\ session' = [counted EXCEPT !.pc = "drain", !.reason = "INTERRUPT"]
      \/ session' = [counted EXCEPT !.pc = "pump again"]
  <2>1. result.executed > 0 /\ ~(result.executed <= 0)
    BY <1>4
  <2> QED
    BY <1>2, <1>5, <1>6, <2>1
<1> HIDE DEF total
<1>9. /\ session' \in Sessions /\ session'.total = total /\ session'.long = long
      /\ session'.broken = session.broken /\ session'.answer = session.answer
      /\ \/ session'.pc = "drain" /\ session'.reason = "HALT" /\ guest'.halted
         \/ /\ session'.pc = "drain" /\ session'.reason = "INTERRUPT"
            /\ ~guest'.halted /\ guest'.pending > 0
         \/ session'.pc = "pump again" /\ session'.reason = session.reason
  BY <1>7, <1>8, Facts DEF Sessions
<1>10. log' \in Seq(Entry) /\ Sound(log') /\ ~BreakOpen(log')
  BY <1>1, RanLogged
<1>11. session.reason = "none"
  BY <1>1, Facts DEF ReasonHolds
<1>12. SessionTyped'
  BY <1>1, <1>4, <1>9, <1>10, Facts DEF SessionTyped
<1>13. Sound(log)'
  BY <1>10
<1>14. BreakKnown'
  BY <1>1, <1>9, <1>10 DEF BreakKnown, Pumping
<1>15. GuestReady'
  BY <1>9 DEF GuestReady
<1>16. ReasonHolds'
  BY <1>9, <1>11 DEF ReasonHolds
<1>17. CountTrue'
  BY <1>6, <1>7, <1>9, Facts DEF CountTrue
<1> QED
  BY <1>12, <1>13, <1>14, <1>15, <1>16, <1>17 DEF SessionInv

LEMMA ContinueBurstKeeps == ASSUME SessionInv, ContinueBurst PROVE SessionInv'
<1> DEFINE request == IF session.remaining > Slice THEN Slice ELSE session.remaining
<1>1. /\ session.pc = "service" /\ ~BreakOpen(log) /\ session.reason = "none"
      /\ UNCHANGED input /\ log' = Ran
  BY Facts DEF ContinueBurst, BreakKnown, ReasonHolds
<1>2. PICK result \in BurstResults(guest, request) :
        /\ guest' = result.guest
        /\ session' =
             [session EXCEPT
                !.pc = IF result.executed < request \/ guest'.halted
                            \/ session.remaining = result.executed
                       THEN "last service" ELSE "service",
                !.remaining = @ - result.executed,
                !.total = Wrapped(@ + result.executed),
                !.long = @ \/ session.total + result.executed >= IntSize]
  BY Zenon DEF ContinueBurst
<1>3. request \in 0 .. Slice /\ request \in Nat /\ request <= session.remaining
  BY Facts, SessionConstantsAssumption
<1> HIDE DEF request
<1>4. guest' \in Guests /\ result.executed \in 0 .. request
  BY <1>2, <1>3, BurstTyped, Facts
<1>5. PICK e \in 0 .. Slice : e = result.executed /\ e <= session.remaining
  BY <1>3, <1>4, Facts, SessionConstantsAssumption
<1>6. PICK t \in -IntSize .. IntSize - 1 : t = session.total
  BY Facts
<1>7. PICK n \in Nat : n = session.remaining /\ n - e \in Nat
  BY <1>5, Facts, SessionConstantsAssumption
<1> DEFINE total == Wrapped(t + e)
           left == n - e
           long == session.long \/ t + e >= IntSize
<1>8. /\ total \in -IntSize .. IntSize - 1
      /\ total < 0 => t < 0 \/ t + e >= IntSize
  BY Counted
<1>9. PICK place \in {"last service", "service"} :
        session' = [session EXCEPT !.pc = place, !.remaining = left,
                                   !.total = total, !.long = long]
  BY <1>2, <1>5, <1>6, <1>7
<1>10. left \in Nat
  BY <1>7
<1> HIDE DEF total, left
<1>11. /\ session' \in Sessions /\ session'.total = total /\ session'.long = long
       /\ session'.pc \in {"last service", "service"}
       /\ session'.reason = session.reason /\ session'.answer = session.answer
  BY <1>8, <1>9, <1>10, Facts DEF Sessions
<1>12. log' \in Seq(Entry) /\ Sound(log') /\ ~BreakOpen(log')
  BY <1>1, RanLogged
<1>13. SessionTyped'
  BY <1>1, <1>4, <1>11, <1>12, Facts DEF SessionTyped
<1>14. Sound(log)'
  BY <1>12
<1>15. BreakKnown'
  BY <1>11, <1>12 DEF BreakKnown, Pumping
<1>16. GuestReady'
  BY <1>11 DEF GuestReady
<1>17. ReasonHolds'
  BY <1>1, <1>11 DEF ReasonHolds
<1>18. CountTrue'
  BY <1>6, <1>8, <1>11, Facts DEF CountTrue
<1> QED
  BY <1>13, <1>14, <1>15, <1>16, <1>17, <1>18 DEF SessionInv

LEMMA TraceStepKeeps == ASSUME SessionInv, TraceStep PROVE SessionInv'
<1>1. /\ session.pc = "trace" /\ ~BreakOpen(log) /\ session.reason = "none"
      /\ ~guest.halted /\ session.remaining > 0 /\ UNCHANGED input /\ log' = Ran
  BY Facts DEF TraceStep, BreakKnown, ReasonHolds, GuestReady
<1>2. PICK result \in BurstResults(guest, 1) :
        /\ guest' = result.guest
        /\ session' =
             CASE result.executed <= 0 -> Prompt("failed", "none")
               [] result.executed > 0 /\ (guest'.halted \/ session.remaining = 1) ->
                    Prompt("ok", "none")
               [] OTHER -> [session EXCEPT !.remaining = @ - 1]
  BY Zenon DEF TraceStep
<1>3. guest' \in Guests /\ result.executed > 0 /\ ~(result.executed <= 0)
  BY <1>1, <1>2, BurstTyped, Facts
<1>4. log' \in Seq(Entry) /\ Sound(log') /\ ~BreakOpen(log')
  BY <1>1, RanLogged
<1>5. CASE guest'.halted \/ session.remaining = 1
  <2>1. session' = [ pc |-> "prompt", answer |-> "ok", reason |-> "none",
                     broken |-> FALSE, total |-> 0, long |-> FALSE, remaining |-> 0 ]
    <3>1. session' = Prompt("ok", "none")
      BY <1>2, <1>3, <1>5
    <3> QED
      BY <3>1 DEF Prompt
  <2>2. /\ session' \in Sessions /\ session'.pc = "prompt" /\ session'.total = 0
        /\ session'.reason = "none" /\ session'.answer = "ok"
    <3>1. 0 \in -IntSize .. IntSize - 1
      BY SessionConstantsAssumption
    <3> QED
      BY <2>1, <3>1 DEF Sessions
  <2>3. SessionTyped'
    BY <1>1, <1>3, <1>4, <2>2, Facts DEF SessionTyped
  <2>4. Sound(log)'
    BY <1>4
  <2>5. BreakKnown'
    BY <2>2 DEF BreakKnown, Pumping
  <2>6. GuestReady'
    BY <2>2 DEF GuestReady
  <2>7. ReasonHolds'
    BY <2>2 DEF ReasonHolds
  <2>8. CountTrue'
    BY <2>2 DEF CountTrue
  <2> QED
    BY <2>3, <2>4, <2>5, <2>6, <2>7, <2>8 DEF SessionInv
<1>6. CASE ~(guest'.halted \/ session.remaining = 1)
  <2>1. session' = [session EXCEPT !.remaining = session.remaining - 1]
    BY <1>2, <1>3, <1>6
  <2>3. session.remaining - 1 \in Nat /\ session.remaining - 1 > 0
    BY <1>1, <1>6, Facts
  <2>2. /\ session' \in Sessions /\ session'.pc = "trace" /\ session'.remaining > 0
        /\ session'.total = session.total /\ session'.long = session.long
        /\ session'.reason = "none" /\ session'.answer = session.answer
    BY <1>1, <2>1, <2>3, Facts DEF Sessions
  <2>4. SessionTyped'
    BY <1>1, <1>3, <1>4, <2>2, Facts DEF SessionTyped
  <2>5. Sound(log)'
    BY <1>4
  <2>6. BreakKnown'
    BY <1>4, <2>2 DEF BreakKnown, Pumping
  <2>7. GuestReady'
    BY <1>6, <2>2 DEF GuestReady
  <2>8. ReasonHolds'
    BY <2>2 DEF ReasonHolds
  <2>9. CountTrue'
    BY <2>2, Facts DEF CountTrue
  <2> QED
    BY <2>4, <2>5, <2>6, <2>7, <2>8, <2>9 DEF SessionInv
<1> QED
  BY <1>5, <1>6

-----------------------------------------------------------------------------
LEMMA SessionInitInv == SessionInit => SessionInv
<1> SUFFICES ASSUME SessionInit PROVE SessionInv
  OBVIOUS
<1>1. /\ input = [arrived |-> <<>>, buffer |-> <<>>, closed |-> FALSE, count |-> 0]
      /\ guest = [halted |-> FALSE, pending |-> 0]
      /\ session = Fresh("prompt", 0) /\ log = <<>>
  BY DEF SessionInit, Prompt, Fresh
<1>2. InputTyped(input) /\ guest \in Guests /\ log \in Seq(Entry)
  BY <1>1, SessionConstantsAssumption DEF InputTyped, Guests
<1>3. session \in Sessions
  BY <1>1, FreshTyped
<1>4. /\ session.pc = "prompt" /\ session.reason = "none"
      /\ session.answer = "none" /\ session.total = 0
  BY <1>1 DEF Fresh
<1>5. Sound(log)
  BY <1>1 DEF Sound, NothingRunsBehind, DroppedBehind
<1> QED
  BY <1>2, <1>3, <1>4, <1>5 DEF SessionInv, SessionTyped, BreakKnown, Pumping,
     GuestReady, ReasonHolds, CountTrue

LEMMA SessionStepInv == SessionInv /\ [SessionNext]_sessionVars => SessionInv'
<1> SUFFICES ASSUME SessionInv, [SessionNext]_sessionVars PROVE SessionInv'
  OBVIOUS
<1>1. CASE MonitorStep
  BY <1>1, ReadOnKeeps, EndOfInputKeeps, TakeLineKeeps, PumpCharacterKeeps,
     PumpDoneKeeps, GoBurstKeeps, PumpAgainDoneKeeps, ServiceCharacterKeeps,
     ContinueBurstKeeps, TraceStepKeeps, FinishKeeps DEF MonitorStep
<1>2. ASSUME NEW chunk \in Chunks, Type(chunk) PROVE SessionInv'
  BY <1>2, TypeKeeps
<1>3. CASE CloseInput
  BY <1>3, CloseInputKeeps
<1>4. CASE UNCHANGED sessionVars
  BY <1>4, Facts, InputOnly DEF sessionVars
<1> QED
  BY <1>1, <1>2, <1>3, <1>4 DEF SessionNext

LEMMA SessionInvHolds == SessionSpec => []SessionInv
  BY SessionInitInv, SessionStepInv, PTL DEF SessionSpec

\* What the answers say is what the invariant knows of the reason.
LEMMA InvAnswers == SessionInv => GoAnswersTruly
<1> SUFFICES ASSUME SessionInv, session.pc = "prompt", session.answer # "none"
             PROVE  /\ session.reason # "ERROR"
                    /\ session.reason = "HALT" => guest.halted
                    /\ session.reason = "INTERRUPT" => guest.pending > 0 /\ ~guest.halted
                    /\ session.reason = "USER" =>
                         \E i \in DOMAIN log :
                           log[i].to = "break"
                             /\ \A j \in i .. Len(log) : log[j].to \notin {"command", "ran"}
                    /\ session.answer = "failed" => session.long
  BY DEF GoAnswersTruly
<1>1. DOMAIN log = 1 .. Len(log) /\ Len(log) \in Nat
  BY Facts, LenProperties
<1>2. ASSUME Quiet(log)
      PROVE  \E i \in DOMAIN log :
               log[i].to = "break"
                 /\ \A j \in i .. Len(log) : log[j].to \notin {"command", "ran"}
  <2>1. PICK i \in DOMAIN log :
          /\ log[i].to = "break"
          /\ \A j \in DOMAIN log : j >= i => log[j].to \notin {"command", "ran"}
    BY <1>2 DEF Quiet
  <2>2. \A j \in i .. Len(log) : j \in DOMAIN log /\ j >= i
    BY <1>1, <2>1
  <2> QED
    BY <2>1, <2>2
<1> QED
  BY <1>2, Facts DEF ReasonHolds, CountTrue

\* Whatever is typed and in whatever pieces it arrives, and whatever the guest
\* does: no instruction is executed between the recognition of a break and the
\* next command, and no keystroke is dropped but behind a break.
THEOREM BreakStopsTheRun == SessionSpec => []BreakStops
<1>1. SessionInv => BreakStops
  BY SoundIsBreakStops, Facts
<1> QED
  BY <1>1, SessionInvHolds, PTL

\* The reason that go gives for having stopped holds in the state it leaves, and
\* it fails only by the overflow of its count.
THEOREM GoTellsTheTruth == SessionSpec => []GoAnswersTruly
  BY InvAnswers, SessionInvHolds, PTL

LEMMA SessionInvTyped == SessionInv => SessionTypeOK
<1> SUFFICES ASSUME SessionInv PROVE SessionTypeOK
  OBVIOUS
<1>1. InputTyped(input) /\ guest \in Guests /\ session \in Sessions /\ log \in Seq(Entry)
  BY DEF SessionInv, SessionTyped
<1>2. \A n \in DOMAIN log : log[n] \in Entry
  BY <1>1
<1> QED
  BY <1>1, <1>2 DEF InputTyped, Guests, Sessions, Entry, Places, SessionTypeOK

\* The count of instructions stays an int, though it may wrap, and the loops end up
\* at one of their places, whatever is typed and whatever the guest does
\* (go_pump_keyboard, command_go, command_continue and command_trace of monitor.c).
THEOREM SessionTypeCorrect == SessionSpec => []SessionTypeOK
  BY SessionInvTyped, SessionInvHolds, PTL

-----------------------------------------------------------------------------
(***************************************************************************)
(* Proofs about FrontEnds: whatever fails on the way up, no handler is left *)
(* without its device while a guest can run, and nothing is given up twice  *)
(* or kept.                                                                 *)
(*                                                                          *)
(* The two properties speak of the end of a run; what carries them there is *)
(* what holds at every stage on the way: a resource whose turn has not come *)
(* is neither held nor spent, so that acquiring it cannot acquire it twice, *)
(* and a resource that is held has not been given up yet.                   *)
(***************************************************************************)

\* The stages at or before the one that acquires a resource.
Beginning == {"platform", "cpu", "console"}

Until(resource) ==
  CASE resource \in AtExit -> {"platform"}
    [] resource = "cpu" -> {"platform", "cpu"}
    [] resource = "console" -> Beginning
    [] resource = "printer" -> Beginning \cup {"printer"}
    [] resource = "paper tape" ->
         Beginning \cup {"printer", "paper tape"}
         \cup (IF IsMonitor THEN {} ELSE {"watchdog", "display"})
    [] resource = "punch" ->
         Beginning \cup {"printer", "paper tape"}
         \cup (IF IsMonitor THEN {"punch"} ELSE {"watchdog", "display"})
    [] resource = "watchdog" ->
         Beginning \cup {"printer", "watchdog"}
         \cup (IF IsMonitor THEN {"paper tape", "punch"} ELSE {})
    [] resource = "magtape" ->
         Beginning \cup {"printer", "paper tape", "watchdog"}
         \cup (IF IsMonitor THEN {"punch", "magtape"} ELSE {"display"})
    [] OTHER ->
         Beginning \cup {"printer", "watchdog"}
         \cup (IF IsMonitor THEN {"paper tape", "punch"} ELSE {"display"})

\* Nobody acquires the other program's devices: pdp8v goes from the watchdog to
\* the display, and the monitor never reaches the display.
StageFits ==
  /\ stage \in {"punch", "magtape"} => IsMonitor
  /\ stage \in {"display", "halted", "leave"} => ~IsMonitor
  /\ IsMonitor => "screen" \notin held
  /\ ~IsMonitor => "punch" \notin held
  /\ turbo => ~IsMonitor

Ending == {"teardown", "shutdown", "exited"}

OnceEach == \A r \in Resources : spent[r] <= 1 /\ (r \in held => spent[r] = 0)

StillAhead == \A r \in Resources : stage \in Until(r) => r \notin held /\ spent[r] = 0

HandlersHaveDevices ==
  stage \notin Ending => \A device \in attached \ held : device = "magtape" /\ idle

ScreenClosed ==
  /\ ran => stage \in {"running", "halted", "leave"} \cup Ending
  /\ stage \in {"running", "halted", "leave"} => ran
  /\ ran /\ stage \in Ending => "screen" \notin held

FilesLast == \A r \in AtExit : spent[r] > 0 => stage = "exited"

TornDown ==
  /\ stage \in {"shutdown", "exited"} =>
       /\ held \cap {"cpu", "console", "printer", "paper tape", "magtape"} = {}
       /\ IsMonitor => "punch" \notin held
       /\ ~IsMonitor => "watchdog" \notin held
  /\ stage = "exited" => held \cap AtExit = {}

FrontEndInv ==
  /\ FrontEndTypeOK /\ StageFits /\ OnceEach /\ StillAhead /\ HandlersHaveDevices
  /\ (global => "console" \in held)
  /\ ScreenClosed /\ FilesLast /\ TornDown

-----------------------------------------------------------------------------
(* The lemmas: what giving one resource up does to the counts, and one per   *)
(* action that the invariant survives it.                                    *)

LEMMA DestroyedSpends ==
  ASSUME spent \in [Resources -> Nat], NEW r \in Resources, Destroyed(r)
  PROVE  /\ spent' \in [Resources -> Nat]
         /\ \A q \in Resources : spent'[q] = IF q = r THEN spent[q] + 1 ELSE spent[q]
BY DEF Destroyed

LEMMA UntilIsFixed ==
  ASSUME program' = program
  PROVE  IsMonitor' = IsMonitor /\ \A r \in Resources : Until(r)' = Until(r)
BY DEF IsMonitor, Until, AtExit, Beginning

LEMMA OnceEachKept ==
  ASSUME NEW d \in Resources, OnceEach, spent \in [Resources -> Nat],
         d \notin held /\ spent[d] = 0, held' \subseteq held \cup {d},
         \A q \in Resources :
           \/ spent'[q] = spent[q]
           \/ q = d /\ spent'[q] = spent[q] + 1 /\ spent[q] = 0 /\ q \notin held'
  PROVE  OnceEach'
<1>1. \A q \in Resources : spent[q] \in Nat /\ spent[q] <= 1 /\ (q \in held => spent[q] = 0)
  BY DEF OnceEach
<1> QED
  BY <1>1 DEF OnceEach

LEMMA PlatformInitKeeps == ASSUME FrontEndInv, PlatformInit PROVE FrontEndInv'
<1>1. IsMonitor' = IsMonitor /\ \A r \in Resources : Until(r)' = Until(r)
  BY UntilIsFixed DEF PlatformInit
<1>2. \A r \in Resources : stage' \in Until(r) => stage \in Until(r) /\ r \notin AtExit
  BY DEF PlatformInit, FrontEndInv, StageFits, IsMonitor, Until, Beginning,
     Resources, Files, Devices, AtExit
<1>3. held = {} /\ ~global /\ \A r \in Resources : spent[r] = 0
  BY DEF PlatformInit, FrontEndInv, FrontEndTypeOK, StillAhead, Until,
     Beginning, Resources, Files, Devices, AtExit
<1>4. FrontEndTypeOK'
  BY <1>1, <1>3 DEF FrontEndInv, IsMonitor, PlatformInit, FrontEndTypeOK,
     Stages, Resources, Files, Devices, AtExit
<1>5. StageFits'
  BY <1>1, <1>3 DEF FrontEndInv, IsMonitor, PlatformInit, StageFits, AtExit,
     Files
<1>6. OnceEach'
  BY <1>1, <1>3 DEF FrontEndInv, IsMonitor, PlatformInit, OnceEach,
     FrontEndTypeOK
<1>7. StillAhead'
  BY <1>1, <1>3, <1>2 DEF FrontEndInv, IsMonitor, PlatformInit, StillAhead,
     FrontEndTypeOK, AtExit
<1>8. HandlersHaveDevices'
  BY <1>1, <1>3 DEF FrontEndInv, IsMonitor, PlatformInit, HandlersHaveDevices,
     Ending, FrontEndTypeOK, Devices
<1>9. (global => "console" \in held)'
  BY <1>1, <1>3 DEF FrontEndInv, IsMonitor, PlatformInit, AtExit, Files
<1>10. ScreenClosed'
  BY <1>1, <1>3 DEF FrontEndInv, IsMonitor, PlatformInit, ScreenClosed, Ending,
     StageFits
<1>11. FilesLast'
  BY <1>1, <1>3 DEF FrontEndInv, IsMonitor, PlatformInit, FilesLast, AtExit,
     Files, FrontEndTypeOK, Resources
<1>12. TornDown'
  BY <1>1, <1>3 DEF FrontEndInv, IsMonitor, PlatformInit, TornDown, AtExit,
     Files
<1> QED
  BY <1>4, <1>5, <1>6, <1>7, <1>8, <1>9, <1>10, <1>11, <1>12 DEF FrontEndInv

LEMMA CreateCpuKeeps == ASSUME FrontEndInv, CreateCpu PROVE FrontEndInv'
<1>1. IsMonitor' = IsMonitor /\ \A r \in Resources : Until(r)' = Until(r)
  BY UntilIsFixed DEF CreateCpu
<1>2. "cpu" \notin held /\ spent["cpu"] = 0
  BY DEF CreateCpu, FrontEndInv, StillAhead, Until, Beginning, IsMonitor,
     StageFits, Resources, Files, Devices, AtExit
<1>3. \A r \in Resources :
        stage' \in Until(r) => stage \in Until(r) /\ r # "cpu"
  BY DEF CreateCpu, FrontEndInv, StageFits, IsMonitor, Until, Beginning,
     Resources, Files, Devices, AtExit
<1>4. held' \subseteq held \cup {"cpu"}
  BY DEF CreateCpu
<1>5. FrontEndTypeOK'
  BY <1>1, <1>2 DEF FrontEndInv, IsMonitor, CreateCpu, FrontEndTypeOK, Stages,
     Resources, Files, Devices, AtExit
<1>6. StageFits'
  BY <1>1, <1>2 DEF FrontEndInv, IsMonitor, CreateCpu, StageFits, AtExit, Files
<1>7. OnceEach'
  BY <1>1, <1>2, <1>4 DEF FrontEndInv, IsMonitor, CreateCpu, OnceEach,
     FrontEndTypeOK
<1>8. StillAhead'
  BY <1>1, <1>2, <1>3 DEF FrontEndInv, IsMonitor, CreateCpu, StillAhead,
     FrontEndTypeOK
<1>9. HandlersHaveDevices'
  BY <1>1, <1>2 DEF FrontEndInv, IsMonitor, CreateCpu, HandlersHaveDevices,
     Ending, FrontEndTypeOK, Devices
<1>10. (global => "console" \in held)'
  BY <1>1, <1>2 DEF FrontEndInv, IsMonitor, CreateCpu, AtExit, Files
<1>11. ScreenClosed'
  BY <1>1, <1>2 DEF FrontEndInv, IsMonitor, CreateCpu, ScreenClosed, Ending,
     StageFits
<1>12. FilesLast'
  BY <1>1, <1>2 DEF FrontEndInv, IsMonitor, CreateCpu, FilesLast, AtExit, Files,
     FrontEndTypeOK, Resources
<1>13. TornDown'
  BY <1>1, <1>2 DEF FrontEndInv, IsMonitor, CreateCpu, TornDown, AtExit, Files
<1> QED
  BY <1>5, <1>6, <1>7, <1>8, <1>9, <1>10, <1>11, <1>12, <1>13 DEF FrontEndInv

LEMMA CreateConsoleKeeps == ASSUME FrontEndInv, CreateConsole PROVE FrontEndInv'
<1>1. IsMonitor' = IsMonitor /\ \A r \in Resources : Until(r)' = Until(r)
  BY UntilIsFixed DEF CreateConsole
<1>2. "console" \notin held /\ spent["console"] = 0
  BY DEF CreateConsole, Create, FailInterruptControl, Attach, FrontEndInv,
     StillAhead, Until, Beginning, IsMonitor, StageFits, Resources, Files,
     Devices, AtExit
<1>3. \A r \in Resources :
        stage' \in Until(r) => stage \in Until(r) /\ r # "console"
  BY DEF CreateConsole, Create, FailInterruptControl, Attach, FrontEndInv,
     StageFits, IsMonitor, Until, Beginning, Resources, Files, Devices, AtExit
<1>4. held' \subseteq held \cup {"console"}
  BY DEF CreateConsole, Create, FailInterruptControl, Attach
<1>5. FrontEndTypeOK'
  BY <1>1, <1>2 DEF FrontEndInv, IsMonitor, CreateConsole, Create,
     FailInterruptControl, Attach, FrontEndTypeOK, Stages, Resources, Files,
     Devices, AtExit
<1>6. StageFits'
  BY <1>1, <1>2 DEF FrontEndInv, IsMonitor, CreateConsole, Create,
     FailInterruptControl, Attach, StageFits, AtExit, Files
<1>7. OnceEach'
  BY <1>1, <1>2, <1>4 DEF FrontEndInv, IsMonitor, CreateConsole, Create,
     FailInterruptControl, Attach, OnceEach, FrontEndTypeOK
<1>8. StillAhead'
  BY <1>1, <1>2, <1>3 DEF FrontEndInv, IsMonitor, CreateConsole, Create,
     FailInterruptControl, Attach, StillAhead, FrontEndTypeOK
<1>9. HandlersHaveDevices'
  BY <1>1, <1>2 DEF FrontEndInv, IsMonitor, CreateConsole, Create,
     FailInterruptControl, Attach, HandlersHaveDevices, Ending, FrontEndTypeOK,
     Devices
<1>10. (global => "console" \in held)'
  BY <1>1, <1>2 DEF FrontEndInv, IsMonitor, CreateConsole, Create,
     FailInterruptControl, Attach, AtExit, Files
<1>11. ScreenClosed'
  BY <1>1, <1>2 DEF FrontEndInv, IsMonitor, CreateConsole, Create,
     FailInterruptControl, Attach, ScreenClosed, Ending, StageFits
<1>12. FilesLast'
  BY <1>1, <1>2 DEF FrontEndInv, IsMonitor, CreateConsole, Create,
     FailInterruptControl, Attach, FilesLast, AtExit, Files, FrontEndTypeOK,
     Resources
<1>13. TornDown'
  BY <1>1, <1>2 DEF FrontEndInv, IsMonitor, CreateConsole, Create,
     FailInterruptControl, Attach, TornDown, AtExit, Files
<1> QED
  BY <1>5, <1>6, <1>7, <1>8, <1>9, <1>10, <1>11, <1>12, <1>13 DEF FrontEndInv

LEMMA CreatePrinterKeeps == ASSUME FrontEndInv, CreatePrinter PROVE FrontEndInv'
<1>1. IsMonitor' = IsMonitor /\ \A r \in Resources : Until(r)' = Until(r)
  BY UntilIsFixed DEF CreatePrinter
<1>2. "printer" \notin held /\ spent["printer"] = 0
  BY DEF CreatePrinter, Create, Attach, FrontEndInv, StillAhead, Until,
     Beginning, IsMonitor, StageFits, Resources, Files, Devices, AtExit
<1>3. \A r \in Resources :
        stage' \in Until(r) => stage \in Until(r) /\ r # "printer"
  BY DEF CreatePrinter, Create, Attach, FrontEndInv, StageFits, IsMonitor,
     Until, Beginning, Resources, Files, Devices, AtExit
<1>4. held' \subseteq held \cup {"printer"}
  BY DEF CreatePrinter, Create, Attach
<1>5. FrontEndTypeOK'
  BY <1>1, <1>2 DEF FrontEndInv, IsMonitor, CreatePrinter, Create, Attach,
     FrontEndTypeOK, Stages, Resources, Files, Devices, AtExit
<1>6. StageFits'
  BY <1>1, <1>2 DEF FrontEndInv, IsMonitor, CreatePrinter, Create, Attach,
     StageFits, AtExit, Files
<1>7. OnceEach'
  BY <1>1, <1>2, <1>4 DEF FrontEndInv, IsMonitor, CreatePrinter, Create, Attach,
     OnceEach, FrontEndTypeOK
<1>8. StillAhead'
  BY <1>1, <1>2, <1>3 DEF FrontEndInv, IsMonitor, CreatePrinter, Create, Attach,
     StillAhead, FrontEndTypeOK
<1>9. HandlersHaveDevices'
  BY <1>1, <1>2 DEF FrontEndInv, IsMonitor, CreatePrinter, Create, Attach,
     HandlersHaveDevices, Ending, FrontEndTypeOK, Devices
<1>10. (global => "console" \in held)'
  BY <1>1, <1>2 DEF FrontEndInv, IsMonitor, CreatePrinter, Create, Attach,
     AtExit, Files
<1>11. ScreenClosed'
  BY <1>1, <1>2 DEF FrontEndInv, IsMonitor, CreatePrinter, Create, Attach,
     ScreenClosed, Ending, StageFits
<1>12. FilesLast'
  BY <1>1, <1>2 DEF FrontEndInv, IsMonitor, CreatePrinter, Create, Attach,
     FilesLast, AtExit, Files, FrontEndTypeOK, Resources
<1>13. TornDown'
  BY <1>1, <1>2 DEF FrontEndInv, IsMonitor, CreatePrinter, Create, Attach,
     TornDown, AtExit, Files
<1> QED
  BY <1>5, <1>6, <1>7, <1>8, <1>9, <1>10, <1>11, <1>12, <1>13 DEF FrontEndInv

LEMMA TryPaperTapeKeeps == ASSUME FrontEndInv, TryPaperTape PROVE FrontEndInv'
<1>1. IsMonitor' = IsMonitor /\ \A r \in Resources : Until(r)' = Until(r)
  BY UntilIsFixed DEF TryPaperTape
<1>2. "paper tape" \notin held /\ spent["paper tape"] = 0
  BY DEF TryPaperTape, TryDevice, Attach, FrontEndInv, StillAhead, Until,
     Beginning, IsMonitor, StageFits, Resources, Files, Devices, AtExit
<1>3. /\ spent' \in [Resources -> Nat]
      /\ \A q \in Resources :
           \/ spent'[q] = spent[q]
           \/ q = "paper tape" /\ spent'[q] = spent[q] + 1 /\ spent[q] = 0 /\ q \notin held'
  BY DestroyedSpends, <1>2 DEF TryPaperTape, TryDevice, Attach, FrontEndInv,
     FrontEndTypeOK, OnceEach, Resources, Files, Devices
<1>4. \A r \in Resources :
        stage' \in Until(r) => stage \in Until(r) /\ r # "paper tape"
  BY DEF TryPaperTape, TryDevice, Attach, FrontEndInv, StageFits, IsMonitor,
     Until, Beginning, Resources, Files, Devices, AtExit
<1>5. held' \subseteq held \cup {"paper tape"}
  BY DEF TryPaperTape, TryDevice, Attach
<1>6. FrontEndTypeOK'
  BY <1>1, <1>2, <1>3 DEF FrontEndInv, IsMonitor, TryPaperTape, TryDevice,
     Attach, FrontEndTypeOK, Stages, Resources, Files, Devices, AtExit
<1>7. StageFits'
  BY <1>1, <1>2, <1>3 DEF FrontEndInv, IsMonitor, TryPaperTape, TryDevice,
     Attach, StageFits, AtExit, Files
<1>8. OnceEach'
  BY OnceEachKept, <1>2, <1>3, <1>5 DEF FrontEndInv, FrontEndTypeOK, Resources,
     Files, Devices, AtExit
<1>9. StillAhead'
  BY <1>1, <1>2, <1>3, <1>4 DEF FrontEndInv, IsMonitor, TryPaperTape, TryDevice,
     Attach, StillAhead, FrontEndTypeOK
<1>10. HandlersHaveDevices'
  BY <1>1, <1>2, <1>3 DEF FrontEndInv, IsMonitor, TryPaperTape, TryDevice,
     Attach, HandlersHaveDevices, Ending, FrontEndTypeOK, Devices
<1>11. (global => "console" \in held)'
  BY <1>1, <1>2, <1>3 DEF FrontEndInv, IsMonitor, TryPaperTape, TryDevice,
     Attach, AtExit, Files
<1>12. ScreenClosed'
  BY <1>1, <1>2, <1>3 DEF FrontEndInv, IsMonitor, TryPaperTape, TryDevice,
     Attach, ScreenClosed, Ending, StageFits
<1>13. FilesLast'
  BY <1>1, <1>2, <1>3 DEF FrontEndInv, IsMonitor, TryPaperTape, TryDevice,
     Attach, FilesLast, AtExit, Files, FrontEndTypeOK, Resources
<1>14. TornDown'
  BY <1>1, <1>2, <1>3 DEF FrontEndInv, IsMonitor, TryPaperTape, TryDevice,
     Attach, TornDown, AtExit, Files
<1> QED
  BY <1>6, <1>7, <1>8, <1>9, <1>10, <1>11, <1>12, <1>13, <1>14 DEF FrontEndInv

LEMMA TryPunchKeeps == ASSUME FrontEndInv, TryPunch PROVE FrontEndInv'
<1>1. IsMonitor' = IsMonitor /\ \A r \in Resources : Until(r)' = Until(r)
  BY UntilIsFixed DEF TryPunch
<1>2. "punch" \notin held /\ spent["punch"] = 0
  BY DEF TryPunch, TryDevice, Attach, FrontEndInv, StillAhead, Until, Beginning,
     IsMonitor, StageFits, Resources, Files, Devices, AtExit
<1>3. /\ spent' \in [Resources -> Nat]
      /\ \A q \in Resources :
           \/ spent'[q] = spent[q]
           \/ q = "punch" /\ spent'[q] = spent[q] + 1 /\ spent[q] = 0 /\ q \notin held'
  BY DestroyedSpends, <1>2 DEF TryPunch, TryDevice, Attach, FrontEndInv,
     FrontEndTypeOK, OnceEach, Resources, Files, Devices
<1>4. \A r \in Resources :
        stage' \in Until(r) => stage \in Until(r) /\ r # "punch"
  BY DEF TryPunch, TryDevice, Attach, FrontEndInv, StageFits, IsMonitor, Until,
     Beginning, Resources, Files, Devices, AtExit
<1>5. held' \subseteq held \cup {"punch"}
  BY DEF TryPunch, TryDevice, Attach
<1>6. FrontEndTypeOK'
  BY <1>1, <1>2, <1>3 DEF FrontEndInv, IsMonitor, TryPunch, TryDevice, Attach,
     FrontEndTypeOK, Stages, Resources, Files, Devices, AtExit
<1>7. StageFits'
  BY <1>1, <1>2, <1>3 DEF FrontEndInv, IsMonitor, TryPunch, TryDevice, Attach,
     StageFits, AtExit, Files
<1>8. OnceEach'
  BY OnceEachKept, <1>2, <1>3, <1>5 DEF FrontEndInv, FrontEndTypeOK, Resources,
     Files, Devices, AtExit
<1>9. StillAhead'
  BY <1>1, <1>2, <1>3, <1>4 DEF FrontEndInv, IsMonitor, TryPunch, TryDevice,
     Attach, StillAhead, FrontEndTypeOK
<1>10. HandlersHaveDevices'
  BY <1>1, <1>2, <1>3 DEF FrontEndInv, IsMonitor, TryPunch, TryDevice, Attach,
     HandlersHaveDevices, Ending, FrontEndTypeOK, Devices
<1>11. (global => "console" \in held)'
  BY <1>1, <1>2, <1>3 DEF FrontEndInv, IsMonitor, TryPunch, TryDevice, Attach,
     AtExit, Files
<1>12. ScreenClosed'
  BY <1>1, <1>2, <1>3 DEF FrontEndInv, IsMonitor, TryPunch, TryDevice, Attach,
     ScreenClosed, Ending, StageFits
<1>13. FilesLast'
  BY <1>1, <1>2, <1>3 DEF FrontEndInv, IsMonitor, TryPunch, TryDevice, Attach,
     FilesLast, AtExit, Files, FrontEndTypeOK, Resources
<1>14. TornDown'
  BY <1>1, <1>2, <1>3 DEF FrontEndInv, IsMonitor, TryPunch, TryDevice, Attach,
     TornDown, AtExit, Files
<1> QED
  BY <1>6, <1>7, <1>8, <1>9, <1>10, <1>11, <1>12, <1>13, <1>14 DEF FrontEndInv

LEMMA TryWatchdogKeeps == ASSUME FrontEndInv, TryWatchdog PROVE FrontEndInv'
<1>1. IsMonitor' = IsMonitor /\ \A r \in Resources : Until(r)' = Until(r)
  BY UntilIsFixed DEF TryWatchdog
<1>2. "watchdog" \notin held /\ spent["watchdog"] = 0
  BY DEF TryWatchdog, TryDevice, Attach, FrontEndInv, StillAhead, Until,
     Beginning, IsMonitor, StageFits, Resources, Files, Devices, AtExit
<1>3. /\ spent' \in [Resources -> Nat]
      /\ \A q \in Resources :
           \/ spent'[q] = spent[q]
           \/ q = "watchdog" /\ spent'[q] = spent[q] + 1 /\ spent[q] = 0 /\ q \notin held'
  BY DestroyedSpends, <1>2 DEF TryWatchdog, TryDevice, Attach, FrontEndInv,
     FrontEndTypeOK, OnceEach, Resources, Files, Devices
<1>4. \A r \in Resources :
        stage' \in Until(r) => stage \in Until(r) /\ r # "watchdog"
  BY DEF TryWatchdog, TryDevice, Attach, FrontEndInv, StageFits, IsMonitor,
     Until, Beginning, Resources, Files, Devices, AtExit
<1>5. held' \subseteq held \cup {"watchdog"}
  BY DEF TryWatchdog, TryDevice, Attach
<1>6. FrontEndTypeOK'
  BY <1>1, <1>2, <1>3 DEF FrontEndInv, IsMonitor, TryWatchdog, TryDevice,
     Attach, FrontEndTypeOK, Stages, Resources, Files, Devices, AtExit
<1>7. StageFits'
  BY <1>1, <1>2, <1>3 DEF FrontEndInv, IsMonitor, TryWatchdog, TryDevice,
     Attach, StageFits, AtExit, Files
<1>8. OnceEach'
  BY OnceEachKept, <1>2, <1>3, <1>5 DEF FrontEndInv, FrontEndTypeOK, Resources,
     Files, Devices, AtExit
<1>9. StillAhead'
  BY <1>1, <1>2, <1>3, <1>4 DEF FrontEndInv, IsMonitor, TryWatchdog, TryDevice,
     Attach, StillAhead, FrontEndTypeOK
<1>10. HandlersHaveDevices'
  BY <1>1, <1>2, <1>3 DEF FrontEndInv, IsMonitor, TryWatchdog, TryDevice,
     Attach, HandlersHaveDevices, Ending, FrontEndTypeOK, Devices
<1>11. (global => "console" \in held)'
  BY <1>1, <1>2, <1>3 DEF FrontEndInv, IsMonitor, TryWatchdog, TryDevice,
     Attach, AtExit, Files
<1>12. ScreenClosed'
  BY <1>1, <1>2, <1>3 DEF FrontEndInv, IsMonitor, TryWatchdog, TryDevice,
     Attach, ScreenClosed, Ending, StageFits
<1>13. FilesLast'
  BY <1>1, <1>2, <1>3 DEF FrontEndInv, IsMonitor, TryWatchdog, TryDevice,
     Attach, FilesLast, AtExit, Files, FrontEndTypeOK, Resources
<1>14. TornDown'
  BY <1>1, <1>2, <1>3 DEF FrontEndInv, IsMonitor, TryWatchdog, TryDevice,
     Attach, TornDown, AtExit, Files
<1> QED
  BY <1>6, <1>7, <1>8, <1>9, <1>10, <1>11, <1>12, <1>13, <1>14 DEF FrontEndInv

LEMMA TryMagtapeKeeps == ASSUME FrontEndInv, TryMagtape PROVE FrontEndInv'
<1>1. IsMonitor' = IsMonitor /\ \A r \in Resources : Until(r)' = Until(r)
  BY UntilIsFixed DEF TryMagtape
<1>2. "magtape" \notin held /\ spent["magtape"] = 0
  BY DEF TryMagtape, TryDevice, Attach, FrontEndInv, StillAhead, Until,
     Beginning, IsMonitor, StageFits, Resources, Files, Devices, AtExit
<1>3. /\ spent' \in [Resources -> Nat]
      /\ \A q \in Resources :
           \/ spent'[q] = spent[q]
           \/ q = "magtape" /\ spent'[q] = spent[q] + 1 /\ spent[q] = 0 /\ q \notin held'
  BY DestroyedSpends, <1>2 DEF TryMagtape, TryDevice, Attach, FrontEndInv,
     FrontEndTypeOK, OnceEach, Resources, Files, Devices
<1>4. \A r \in Resources :
        stage' \in Until(r) => stage \in Until(r) /\ r # "magtape"
  BY DEF TryMagtape, TryDevice, Attach, FrontEndInv, StageFits, IsMonitor,
     Until, Beginning, Resources, Files, Devices, AtExit
<1>5. held' \subseteq held \cup {"magtape"}
  BY DEF TryMagtape, TryDevice, Attach
<1>6. FrontEndTypeOK'
  BY <1>1, <1>2, <1>3 DEF FrontEndInv, IsMonitor, TryMagtape, TryDevice, Attach,
     FrontEndTypeOK, Stages, Resources, Files, Devices, AtExit
<1>7. StageFits'
  BY <1>1, <1>2, <1>3 DEF FrontEndInv, IsMonitor, TryMagtape, TryDevice, Attach,
     StageFits, AtExit, Files
<1>8. OnceEach'
  BY OnceEachKept, <1>2, <1>3, <1>5 DEF FrontEndInv, FrontEndTypeOK, Resources,
     Files, Devices, AtExit
<1>9. StillAhead'
  BY <1>1, <1>2, <1>3, <1>4 DEF FrontEndInv, IsMonitor, TryMagtape, TryDevice,
     Attach, StillAhead, FrontEndTypeOK
<1>10. HandlersHaveDevices'
  BY <1>1, <1>2, <1>3 DEF FrontEndInv, IsMonitor, TryMagtape, TryDevice, Attach,
     HandlersHaveDevices, Ending, FrontEndTypeOK, Devices
<1>11. (global => "console" \in held)'
  BY <1>1, <1>2, <1>3 DEF FrontEndInv, IsMonitor, TryMagtape, TryDevice, Attach,
     AtExit, Files
<1>12. ScreenClosed'
  BY <1>1, <1>2, <1>3 DEF FrontEndInv, IsMonitor, TryMagtape, TryDevice, Attach,
     ScreenClosed, Ending, StageFits
<1>13. FilesLast'
  BY <1>1, <1>2, <1>3 DEF FrontEndInv, IsMonitor, TryMagtape, TryDevice, Attach,
     FilesLast, AtExit, Files, FrontEndTypeOK, Resources
<1>14. TornDown'
  BY <1>1, <1>2, <1>3 DEF FrontEndInv, IsMonitor, TryMagtape, TryDevice, Attach,
     TornDown, AtExit, Files
<1> QED
  BY <1>6, <1>7, <1>8, <1>9, <1>10, <1>11, <1>12, <1>13, <1>14 DEF FrontEndInv

LEMMA DisableMagtapeKeeps == ASSUME FrontEndInv, DisableMagtape PROVE FrontEndInv'
<1>1. IsMonitor' = IsMonitor /\ \A r \in Resources : Until(r)' = Until(r)
  BY UntilIsFixed DEF DisableMagtape
<1>2. "magtape" \notin held /\ spent["magtape"] = 0
  BY DEF DisableMagtape, FrontEndInv, StillAhead, Until, Beginning, IsMonitor,
     StageFits, Resources, Files, Devices, AtExit
<1>3. /\ spent' \in [Resources -> Nat]
      /\ \A q \in Resources :
           \/ spent'[q] = spent[q]
           \/ q = "magtape" /\ spent'[q] = spent[q] + 1 /\ spent[q] = 0 /\ q \notin held'
  BY DestroyedSpends, <1>2 DEF DisableMagtape, FrontEndInv, FrontEndTypeOK,
     OnceEach, Resources, Files, Devices
<1>4. \A r \in Resources :
        stage' \in Until(r) => stage \in Until(r) /\ r # "magtape"
  BY DEF DisableMagtape, FrontEndInv, StageFits, IsMonitor, Until, Beginning,
     Resources, Files, Devices, AtExit
<1>5. held' \subseteq held \cup {"magtape"}
  BY DEF DisableMagtape
<1>6. FrontEndTypeOK'
  BY <1>1, <1>2, <1>3 DEF FrontEndInv, IsMonitor, DisableMagtape,
     FrontEndTypeOK, Stages, Resources, Files, Devices, AtExit
<1>7. StageFits'
  BY <1>1, <1>2, <1>3 DEF FrontEndInv, IsMonitor, DisableMagtape, StageFits,
     AtExit, Files
<1>8. OnceEach'
  BY OnceEachKept, <1>2, <1>3, <1>5 DEF FrontEndInv, FrontEndTypeOK, Resources,
     Files, Devices, AtExit
<1>9. StillAhead'
  BY <1>1, <1>2, <1>3, <1>4 DEF FrontEndInv, IsMonitor, DisableMagtape,
     StillAhead, FrontEndTypeOK
<1>10. HandlersHaveDevices'
  BY <1>1, <1>2, <1>3 DEF FrontEndInv, IsMonitor, DisableMagtape,
     HandlersHaveDevices, Ending, FrontEndTypeOK, Devices
<1>11. (global => "console" \in held)'
  BY <1>1, <1>2, <1>3 DEF FrontEndInv, IsMonitor, DisableMagtape, AtExit, Files
<1>12. ScreenClosed'
  BY <1>1, <1>2, <1>3 DEF FrontEndInv, IsMonitor, DisableMagtape, ScreenClosed,
     Ending, StageFits
<1>13. FilesLast'
  BY <1>1, <1>2, <1>3 DEF FrontEndInv, IsMonitor, DisableMagtape, FilesLast,
     AtExit, Files, FrontEndTypeOK, Resources
<1>14. TornDown'
  BY <1>1, <1>2, <1>3 DEF FrontEndInv, IsMonitor, DisableMagtape, TornDown,
     AtExit, Files
<1> QED
  BY <1>6, <1>7, <1>8, <1>9, <1>10, <1>11, <1>12, <1>13, <1>14 DEF FrontEndInv

LEMMA OpenDisplayKeeps == ASSUME FrontEndInv, OpenDisplay PROVE FrontEndInv'
<1>1. IsMonitor' = IsMonitor /\ \A r \in Resources : Until(r)' = Until(r)
  BY UntilIsFixed DEF OpenDisplay
<1>2. "screen" \notin held /\ spent["screen"] = 0
  BY DEF OpenDisplay, FrontEndInv, StillAhead, Until, Beginning, IsMonitor,
     StageFits, Resources, Files, Devices, AtExit
<1>3. \A r \in Resources :
        stage' \in Until(r) => stage \in Until(r) /\ r # "screen"
  BY DEF OpenDisplay, FrontEndInv, StageFits, IsMonitor, Until, Beginning,
     Resources, Files, Devices, AtExit
<1>4. held' \subseteq held \cup {"screen"}
  BY DEF OpenDisplay
<1>5. FrontEndTypeOK'
  BY <1>1, <1>2 DEF FrontEndInv, IsMonitor, OpenDisplay, FrontEndTypeOK, Stages,
     Resources, Files, Devices, AtExit
<1>6. StageFits'
  BY <1>1, <1>2 DEF FrontEndInv, IsMonitor, OpenDisplay, StageFits, AtExit,
     Files
<1>7. OnceEach'
  BY <1>1, <1>2, <1>4 DEF FrontEndInv, IsMonitor, OpenDisplay, OnceEach,
     FrontEndTypeOK
<1>8. StillAhead'
  BY <1>1, <1>2, <1>3 DEF FrontEndInv, IsMonitor, OpenDisplay, StillAhead,
     FrontEndTypeOK
<1>9. HandlersHaveDevices'
  BY <1>1, <1>2 DEF FrontEndInv, IsMonitor, OpenDisplay, HandlersHaveDevices,
     Ending, FrontEndTypeOK, Devices
<1>10. (global => "console" \in held)'
  BY <1>1, <1>2 DEF FrontEndInv, IsMonitor, OpenDisplay, AtExit, Files
<1>11. ScreenClosed'
  BY <1>1, <1>2 DEF FrontEndInv, IsMonitor, OpenDisplay, ScreenClosed, Ending,
     StageFits
<1>12. FilesLast'
  BY <1>1, <1>2 DEF FrontEndInv, IsMonitor, OpenDisplay, FilesLast, AtExit,
     Files, FrontEndTypeOK, Resources
<1>13. TornDown'
  BY <1>1, <1>2 DEF FrontEndInv, IsMonitor, OpenDisplay, TornDown, AtExit, Files
<1> QED
  BY <1>5, <1>6, <1>7, <1>8, <1>9, <1>10, <1>11, <1>12, <1>13 DEF FrontEndInv

LEMMA CloseDisplayKeeps == ASSUME FrontEndInv, CloseDisplay PROVE FrontEndInv'
<1>1. IsMonitor' = IsMonitor /\ \A r \in Resources : Until(r)' = Until(r)
  BY UntilIsFixed DEF CloseDisplay
<1>2. /\ spent' \in [Resources -> Nat]
      /\ \A q \in Resources :
           \/ spent'[q] = spent[q]
           \/ q = "screen" /\ spent'[q] = spent[q] + 1 /\ spent[q] = 0 /\ q \notin held'
  BY DestroyedSpends DEF CloseDisplay, GiveUp, FrontEndInv, FrontEndTypeOK,
     OnceEach, Resources, Files, Devices
<1>3. \A r \in Resources : stage' \in Until(r) => stage \in Until(r)
  BY DEF CloseDisplay, GiveUp, FrontEndInv, StageFits, IsMonitor, Until,
     Beginning, Resources, Files, Devices, AtExit
<1>4. held' \subseteq held
  BY DEF CloseDisplay, GiveUp
<1>5. FrontEndTypeOK'
  BY <1>1, <1>2 DEF FrontEndInv, IsMonitor, CloseDisplay, GiveUp,
     FrontEndTypeOK, Stages, Resources, Files, Devices, AtExit
<1>6. StageFits'
  BY <1>1, <1>2 DEF FrontEndInv, IsMonitor, CloseDisplay, GiveUp, StageFits,
     AtExit, Files
<1>7. OnceEach'
  BY <1>2, <1>4 DEF FrontEndInv, OnceEach, FrontEndTypeOK
<1>8. StillAhead'
  BY <1>1, <1>2, <1>3 DEF FrontEndInv, IsMonitor, CloseDisplay, GiveUp,
     StillAhead, FrontEndTypeOK
<1>9. HandlersHaveDevices'
  BY <1>1, <1>2 DEF FrontEndInv, IsMonitor, CloseDisplay, GiveUp,
     HandlersHaveDevices, Ending, FrontEndTypeOK, Devices
<1>10. (global => "console" \in held)'
  BY <1>1, <1>2 DEF FrontEndInv, IsMonitor, CloseDisplay, GiveUp, AtExit, Files
<1>11. ScreenClosed'
  BY <1>1, <1>2 DEF FrontEndInv, IsMonitor, CloseDisplay, GiveUp, ScreenClosed,
     Ending, StageFits
<1>12. FilesLast'
  BY <1>1, <1>2 DEF FrontEndInv, IsMonitor, CloseDisplay, GiveUp, FilesLast,
     AtExit, Files, FrontEndTypeOK, Resources
<1>13. TornDown'
  BY <1>1, <1>2 DEF FrontEndInv, IsMonitor, CloseDisplay, GiveUp, TornDown,
     AtExit, Files
<1> QED
  BY <1>5, <1>6, <1>7, <1>8, <1>9, <1>10, <1>11, <1>12, <1>13 DEF FrontEndInv

\* The steps that only move on, to running and from there to the end.
MovesOn == LoadImage \/ LeaveMonitor \/ PressKey \/ QuitKey \/ RunCycle \/ LeaveHalted

LEMMA LoopTyped ==
  ASSUME FrontEndTypeOK, PressKey \/ QuitKey \/ RunCycle \/ LeaveHalted
  PROVE  loop' \in [paused : BOOLEAN, keys : Seq(Keys), pressed : 0 .. MaxKeys]
<1>1. loop \in [paused : BOOLEAN, keys : Seq(Keys), pressed : 0 .. MaxKeys]
  BY DEF FrontEndTypeOK
<1>2. KeysLeft \in Seq(Keys)
  BY <1>1 DEF KeysLeft
<1>3. CASE PressKey
  BY <1>1, <1>3, FrontEndsConstantsAssumption DEF PressKey
<1>4. ASSUME NEW paused \in BOOLEAN, AfterKey(paused)
      PROVE  loop' \in [paused : BOOLEAN, keys : Seq(Keys), pressed : 0 .. MaxKeys]
  BY <1>1, <1>2, <1>4 DEF AfterKey
<1>5. CASE QuitKey \/ LeaveHalted
  <2>1. AfterKey(loop.paused) /\ loop.paused \in BOOLEAN
    BY <1>1, <1>5 DEF QuitKey, LeaveHalted
  <2> QED
    BY <2>1, <1>4
<1>6. CASE RunCycle
  <2>1. PICK paused \in BOOLEAN : AfterKey(paused)
    BY <1>1, <1>6 DEF RunCycle
  <2> QED
    BY <2>1, <1>4
<1> QED
  BY <1>3, <1>5, <1>6

LEMMA MovesOnKeeps == ASSUME FrontEndInv, MovesOn PROVE FrontEndInv'
<1>1. /\ UNCHANGED <<program, turbo, held, attached, global, idle, spent>>
      /\ stage \in {"image", "running", "halted"}
      /\ stage' \in {"running", "halted", "leave", "teardown"}
      /\ stage' \in {"halted", "leave"} => ~IsMonitor
  BY DEF MovesOn, LoadImage, LeaveMonitor, PressKey, QuitKey, RunCycle,
     LeaveHalted,
         FrontEndInv, StageFits, IsMonitor
<1>2. loop' \in [paused : BOOLEAN, keys : Seq(Keys), pressed : 0 .. MaxKeys]
  BY LoopTyped DEF MovesOn, LoadImage, LeaveMonitor, FrontEndInv, FrontEndTypeOK
<1>3. IsMonitor' = IsMonitor /\ \A r \in Resources : Until(r)' = Until(r)
  BY <1>1, UntilIsFixed
<1>4. FrontEndTypeOK'
  <2>1. ran' \in BOOLEAN
    BY DEF MovesOn, LoadImage, LeaveMonitor, PressKey, QuitKey, RunCycle,
       LeaveHalted,
           FrontEndInv, FrontEndTypeOK
  <2> QED
    BY <1>1, <1>2, <2>1 DEF FrontEndInv, FrontEndTypeOK, Stages
<1>5. StageFits'
  BY <1>1, <1>3 DEF FrontEndInv, StageFits
<1>6. OnceEach'
  BY <1>1 DEF FrontEndInv, OnceEach
<1>7. \A r \in Resources : stage' \notin Until(r)
  BY <1>1 DEF Until, Beginning
<1>8. StillAhead'
  BY <1>3, <1>7 DEF StillAhead
<1>9. HandlersHaveDevices'
  BY <1>1 DEF FrontEndInv, HandlersHaveDevices, Ending
<1>10. (global => "console" \in held)'
  BY <1>1 DEF FrontEndInv
<1>11. ScreenClosed'
  <2>1. CASE LoadImage /\ stage' = "teardown"
    <3>1. ~ran'
      BY <2>1 DEF LoadImage, FrontEndInv, ScreenClosed, Ending
    <3> QED
      BY <2>1, <3>1 DEF ScreenClosed
  <2>2. CASE LoadImage /\ stage' = "running"
    <3>1. ran'
      BY <2>2 DEF LoadImage
    <3> QED
      BY <2>2, <3>1 DEF ScreenClosed, Ending
  <2>3. CASE LeaveMonitor
    BY <1>1, <1>3, <2>3 DEF LeaveMonitor, FrontEndInv, ScreenClosed, StageFits,
       Ending
  <2>4. CASE PressKey \/ QuitKey \/ RunCycle \/ LeaveHalted
    BY <2>4, <1>1 DEF PressKey, QuitKey, RunCycle, LeaveHalted, FrontEndInv,
                      ScreenClosed, Ending
  <2> QED
    BY <2>1, <2>2, <2>3, <2>4 DEF MovesOn, LoadImage
<1>12. FilesLast'
  BY <1>1 DEF FrontEndInv, FilesLast
<1>13. TornDown'
  BY <1>1 DEF FrontEndInv, TornDown
<1> QED
  BY <1>4, <1>5, <1>6, <1>8, <1>9, <1>10, <1>11, <1>12, <1>13 DEF FrontEndInv

LEMMA TeardownKeeps == ASSUME FrontEndInv, Teardown PROVE FrontEndInv'
<1> DEFINE Order == {"magtape", "paper tape", "printer", "console", "cpu"}
                    \cup (IF IsMonitor THEN {"punch"} ELSE {"watchdog"})
<1>1. IsMonitor' = IsMonitor /\ \A r \in Resources : Until(r)' = Until(r)
  BY UntilIsFixed DEF Teardown
<1>2. /\ DOMAIN TeardownOrder = 1 .. 6
      /\ IsMonitor =>
           /\ TeardownOrder[1] = "magtape" /\ TeardownOrder[2] = "paper tape"
           /\ TeardownOrder[3] = "punch" /\ TeardownOrder[4] = "printer"
      /\ ~IsMonitor =>
           /\ TeardownOrder[1] = "watchdog" /\ TeardownOrder[2] = "magtape"
           /\ TeardownOrder[3] = "paper tape" /\ TeardownOrder[4] = "printer"
      /\ TeardownOrder[5] = "console" /\ TeardownOrder[6] = "cpu"
  BY DEF TeardownOrder
<1>3. /\ \A n \in DOMAIN TeardownOrder : TeardownOrder[n] \in Order
      /\ \A r \in Order : \E n \in DOMAIN TeardownOrder : TeardownOrder[n] = r
  <2>0. 1 .. 6 = {1, 2, 3, 4, 5, 6}
    OBVIOUS
  <2>1. DOMAIN TeardownOrder = {1, 2, 3, 4, 5, 6}
    BY <1>2, <2>0
  <2>2. CASE IsMonitor
    <3>1. Order = {"magtape", "paper tape", "printer", "console", "cpu", "punch"}
      BY <2>2
    <3> QED
      BY <1>2, <2>1, <2>2, <3>1 DEF Order
  <2>3. CASE ~IsMonitor
    <3>1. Order = {"magtape", "paper tape", "printer", "console", "cpu", "watchdog"}
      BY <2>3
    <3> QED
      BY <1>2, <2>1, <2>3, <3>1 DEF Order
  <2> QED
    BY <2>2, <2>3
<1>4. Order \subseteq Resources /\ Order \cap AtExit = {}
  BY DEF Resources, Devices, Files, AtExit
<1>5. \/ /\ held \cap Order = {} /\ stage' = "shutdown"
         /\ UNCHANGED <<held, attached, global, spent>>
      \/ \E r \in Order \cap held : GiveUp(r) /\ UNCHANGED stage
  BY <1>3 DEF Teardown, StillHeld
<1>6. stage = "teardown" /\ UNCHANGED <<program, turbo, idle, ran, loop>>
  BY DEF Teardown
<1> HIDE DEF Order
<1>7. CASE held \cap Order = {} /\ stage' = "shutdown"
           /\ UNCHANGED <<held, attached, global, spent>>
  <2>1. FrontEndTypeOK'
    BY <1>6, <1>7 DEF FrontEndInv, FrontEndTypeOK, Stages
  <2>2. StageFits' /\ OnceEach' /\ (global => "console" \in held)'
    BY <1>1, <1>6, <1>7 DEF FrontEndInv, StageFits, OnceEach
  <2>3. StillAhead'
    BY <1>1, <1>7 DEF StillAhead, Until, Beginning
  <2>4. HandlersHaveDevices' /\ ScreenClosed' /\ FilesLast'
    BY <1>6, <1>7 DEF FrontEndInv, HandlersHaveDevices, ScreenClosed, FilesLast,
       Ending
  <2>5. TornDown'
    BY <1>1, <1>7 DEF TornDown, Order
  <2> QED
    BY <2>1, <2>2, <2>3, <2>4, <2>5 DEF FrontEndInv
<1>8. ASSUME NEW r \in Order \cap held, GiveUp(r), UNCHANGED stage
      PROVE  FrontEndInv'
  <2>1. /\ spent' \in [Resources -> Nat]
        /\ \A q \in Resources : spent'[q] = IF q = r THEN spent[q] + 1 ELSE spent[q]
    BY <1>4, <1>8, DestroyedSpends DEF GiveUp, FrontEndInv, FrontEndTypeOK
  <2>2. held' = held \ {r} /\ r \in Resources \ AtExit
    BY <1>4, <1>8 DEF GiveUp
  <2>3. FrontEndTypeOK'
    BY <1>6, <1>8, <2>1 DEF FrontEndInv, FrontEndTypeOK, GiveUp
  <2>4. StageFits'
    BY <1>1, <1>6, <1>8, <2>2 DEF FrontEndInv, StageFits
  <2>5. OnceEach'
    BY <2>1, <2>2, <1>8 DEF FrontEndInv, OnceEach, FrontEndTypeOK
  <2>6. StillAhead'
    BY <1>1, <1>6, <1>8 DEF StillAhead, Until, Beginning
  <2>7. HandlersHaveDevices' /\ (global => "console" \in held)'
    BY <1>6, <1>8, <2>2 DEF FrontEndInv, HandlersHaveDevices, Ending, GiveUp
  <2>8. ScreenClosed' /\ TornDown'
    BY <1>1, <1>6, <1>8, <2>2 DEF FrontEndInv, ScreenClosed, TornDown, Ending
  <2>9. FilesLast'
    BY <1>6, <1>8, <2>1, <2>2 DEF FrontEndInv, FilesLast, AtExit, Files,
       Resources
  <2> QED
    BY <2>3, <2>4, <2>5, <2>6, <2>7, <2>8, <2>9 DEF FrontEndInv
<1> QED
  BY <1>5, <1>7, <1>8

LEMMA ShutdownKeeps == ASSUME FrontEndInv, Shutdown PROVE FrontEndInv'
<1>1. IsMonitor' = IsMonitor /\ \A r \in Resources : Until(r)' = Until(r)
  BY UntilIsFixed DEF Shutdown
<1>2. /\ spent' \in [Resources -> Nat]
      /\ \A r \in Resources :
           spent'[r] = IF r \in held /\ r \in AtExit THEN spent[r] + 1 ELSE spent[r]
  BY DEF Shutdown, FrontEndInv, FrontEndTypeOK
<1>3. /\ held' = held \ AtExit /\ stage = "shutdown" /\ stage' = "exited"
      /\ UNCHANGED <<program, turbo, attached, global, idle, ran, loop>>
  BY DEF Shutdown
<1>4. FrontEndTypeOK'
  BY <1>2, <1>3 DEF FrontEndInv, FrontEndTypeOK, Stages
<1>5. StageFits' /\ (global => "console" \in held)'
  BY <1>1, <1>3 DEF FrontEndInv, StageFits, AtExit, Files
<1>6. OnceEach'
  BY <1>2, <1>3 DEF FrontEndInv, OnceEach, FrontEndTypeOK
<1>7. StillAhead'
  BY <1>1, <1>3 DEF StillAhead, Until, Beginning
<1>8. HandlersHaveDevices' /\ ScreenClosed' /\ FilesLast'
  BY <1>3 DEF FrontEndInv, HandlersHaveDevices, ScreenClosed, FilesLast, Ending
<1>9. TornDown'
  BY <1>1, <1>3 DEF FrontEndInv, TornDown
<1> QED
  BY <1>4, <1>5, <1>6, <1>7, <1>8, <1>9 DEF FrontEndInv

LEMMA FrontEndInitInv == FrontEndInit => FrontEndInv
<1> SUFFICES ASSUME FrontEndInit PROVE FrontEndInv
  OBVIOUS
<1>1. FrontEndTypeOK
  <2>1. spent \in [Resources -> Nat] /\ loop.keys \in Seq(Keys)
    BY DEF FrontEndInit
  <2>2. loop \in [paused : BOOLEAN, keys : Seq(Keys), pressed : 0 .. MaxKeys]
    BY FrontEndsConstantsAssumption DEF FrontEndInit
  <2> QED
    BY <2>1, <2>2 DEF FrontEndInit, FrontEndTypeOK, Stages
<1>2. StageFits /\ (global => "console" \in held)
  BY DEF FrontEndInit, StageFits, IsMonitor
<1>3. OnceEach /\ StillAhead
  BY DEF FrontEndInit, OnceEach, StillAhead
<1>4. HandlersHaveDevices /\ ScreenClosed /\ TornDown
  BY DEF FrontEndInit, HandlersHaveDevices, ScreenClosed, TornDown, Ending
<1>5. FilesLast
  <2>1. \A r \in Resources : spent[r] = 0
    BY DEF FrontEndInit
  <2> QED
    BY <2>1 DEF FilesLast, AtExit, Resources
<1> QED
  BY <1>1, <1>2, <1>3, <1>4, <1>5 DEF FrontEndInv

LEMMA FrontEndInvKept == FrontEndInv /\ [FrontEndNext]_frontEndVars => FrontEndInv'
<1>1. FrontEndInv /\ FrontEndNext => FrontEndInv'
  BY PlatformInitKeeps, CreateCpuKeeps, CreateConsoleKeeps, CreatePrinterKeeps,
     TryPaperTapeKeeps, TryPunchKeeps, TryWatchdogKeeps, TryMagtapeKeeps,
     DisableMagtapeKeeps, OpenDisplayKeeps, CloseDisplayKeeps, TeardownKeeps,
     ShutdownKeeps, MovesOnKeeps
  DEF FrontEndNext, MovesOn
<1>2. ASSUME FrontEndInv, UNCHANGED frontEndVars PROVE FrontEndInv'
  <2>1. UNCHANGED <<program, turbo, stage, held, attached, global, idle, ran, loop, spent>>
    BY <1>2 DEF frontEndVars
  <2>2. IsMonitor' = IsMonitor /\ \A r \in Resources : Until(r)' = Until(r)
    BY <2>1, UntilIsFixed
  <2> QED
    BY <1>2, <2>1, <2>2 DEF FrontEndInv, FrontEndTypeOK, StageFits, OnceEach,
       StillAhead,
       HandlersHaveDevices, ScreenClosed, FilesLast, TornDown
<1> QED
  BY <1>1, <1>2

-----------------------------------------------------------------------------
(* The results.                                                             *)

\* The strengthening holds throughout (monitor_runtime_create and teardown,
\* pdp8v_runtime_create and teardown, and the two main functions).
THEOREM FrontEndInvariant == FrontEndSpec => []FrontEndInv
<1>1. FrontEndInv /\ [FrontEndNext]_frontEndVars => FrontEndInv'
  BY FrontEndInvKept
<1> QED
  BY FrontEndInitInv, <1>1, PTL DEF FrontEndSpec

\* However many keys are pressed and whichever step fails, the state is well typed.
THEOREM FrontEndTypeCorrect == FrontEndSpec => []FrontEndTypeOK
<1>1. FrontEndInv => FrontEndTypeOK
  BY DEF FrontEndInv
<1> QED
  BY <1>1, FrontEndInvariant, PTL

\* While a guest can execute, the processor calls no handler of a destroyed device
\* but those of a tape controller the monitor disabled (monitor.c:1930).
THEOREM HandlersAreNeverStale == FrontEndSpec => []NoStaleHandler
<1>1. FrontEndInv => NoStaleHandler
  BY DEF FrontEndInv, HandlersHaveDevices, NoStaleHandler, Ending
<1> QED
  BY <1>1, FrontEndInvariant, PTL

\* Whatever failed, each resource is given up at most once, a file after the device
\* that writes to it, and the end leaves only the two known exceptions.
THEOREM EverythingIsReleased == FrontEndSpec => []EverythingReleased
<1>1. FrontEndInv => EverythingReleased
  <2> SUFFICES ASSUME FrontEndInv PROVE EverythingReleased
    OBVIOUS
  <2>1. \A r \in Resources : spent[r] <= 1
    BY DEF FrontEndInv, OnceEach
  <2>2. /\ spent["teleprinter file"] > 0 => "console" \notin held
        /\ spent["printer file"] > 0 => "printer" \notin held
    BY DEF FrontEndInv, FilesLast, TornDown, AtExit, Files
  <2>3. global => "console" \in held
    BY DEF FrontEndInv
  <2>4. ASSUME stage = "exited"
        PROVE  held \subseteq IF IsMonitor THEN {"watchdog"}
                              ELSE IF ran THEN {} ELSE {"screen"}
    BY <2>4 DEF FrontEndInv, TornDown, StageFits, ScreenClosed, FrontEndTypeOK,
       Ending,
                Resources, Devices, AtExit
  <2> QED
    BY <2>1, <2>2, <2>3, <2>4 DEF EverythingReleased
<1> QED
  BY <1>1, FrontEndInvariant, PTL

-----------------------------------------------------------------------------
(* All the scenes.                                                          *)

\* The invariants of the six parts; of the printer, the tape and the images those
\* of FilesProofs.
MonitorInv ==
  /\ SessionInv /\ FrontEndInv /\ ImageInv
  /\ TapeInv /\ HardCopyInv /\ ConfigTyped

\* A part that moves keeps its invariant, and so does one that rests.
LEMMA SceneKeeps == MonitorInv /\ [MCNext]_sceneVars => MonitorInv'
<1> SUFFICES ASSUME MonitorInv, [MCNext]_sceneVars PROVE MonitorInv'
  OBVIOUS
<1>1. [SessionNext]_sessionVars
  BY DEF MCNext, Rest, sceneVars
<1>2. [FrontEndNext]_frontEndVars
  BY DEF MCNext, Rest, sceneVars
<1>3. [ImageNext]_imageVars
  BY DEF MCNext, Rest, sceneVars
<1>4. [TapeNext]_tapeVars
  BY DEF MCNext, Rest, sceneVars
<1>5. [HardCopyNext]_hardCopyVars
  BY DEF MCNext, Rest, sceneVars
<1>6. [ConfigNext]_configVars
  BY DEF MCNext, Rest, sceneVars
<1>7. SessionInv' /\ FrontEndInv'
  BY <1>1, <1>2, SessionStepInv, FrontEndInvKept DEF MonitorInv
<1>8. ImageInv' /\ TapeInv' /\ HardCopyInv'
  BY <1>3, <1>4, <1>5, ImageNextInv, TapeNextInv, HardCopyNextInv DEF MonitorInv
<1>9. ConfigTyped'
  BY <1>6, ConfigNextTyped DEF MonitorInv
<1> QED
  BY <1>7, <1>8, <1>9 DEF MonitorInv

LEMMA MonitorInvTyped == MonitorInv => MonitorTypeOK
  BY SessionInvTyped, ImageInvTyped, TapeInvTyped, HardCopyInvTyped, ConfigTypedTypes
  DEF MonitorInv, MonitorTypeOK, FrontEndInv

\* In every scene, and for all values of the constants, each part of the programs
\* around the machine keeps its types.
THEOREM MonitorTypeCorrect == MCSpec => []MonitorTypeOK
<1>1. MCInit => MonitorInv
  BY SessionInitInv, FrontEndInitInv, ImageInitInv, TapeInitInv, HardCopyInitInv,
     ConfigInitTyped
  DEF MCInit, MonitorInv
<1> QED
  BY <1>1, SceneKeeps, MonitorInvTyped, PTL DEF MCSpec
=============================================================================
