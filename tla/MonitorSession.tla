--------------------------- MODULE MonitorSession ---------------------------
(***************************************************************************)
(* The monitor at its prompt and in its run loops (src/monitor.c), and the  *)
(* standard input both read (src/monitor_platform_posix.c).                 *)
(*                                                                          *)
(* What is typed reaches the program in chunks, one per read(2): a line     *)
(* from a terminal, all there is from a pipe.  The C library keeps the rest *)
(* of a chunk in its own buffer, where select(2), which the run loops ask   *)
(* first, does not see it.                                                  *)
(*                                                                          *)
(* Commands are single letters, g(o), c(ontinue), t(race), r(eset), q(uit); *)
(* any other line is one that changes nothing here.  The guest is abstract: *)
(* a burst ends in any state a program could leave.                         *)
(***************************************************************************)
EXTENDS Integers, Sequences, SequencesExt

CONSTANTS
  Chunks,       \* what a read may return
  MaxChunks,    \* bound on the chunks that arrive
  LineSize,     \* characters of a line that fgets takes: 511
  Slice,        \* MONITOR_RUN_SLICE: 2000
  CycleCounts,  \* cycles the operator gives to c and t
  IntSize,      \* 2^31
  MaxRequests   \* bound on the requests pending after a burst

ASSUME SessionConstantsAssumption ==
  /\ Chunks \subseteq Seq(STRING) \ {<<>>}
  /\ MaxChunks \in Nat /\ LineSize \in Nat \ {0} /\ Slice \in Nat \ {0}
  /\ CycleCounts \subseteq Nat \ {0}
  /\ IntSize \in Nat \ {0} /\ Slice <= IntSize /\ MaxRequests \in Nat

VARIABLES
  input,    \* the standard input: chunks not read, the buffer, end of file
  guest,    \* halted and interrupt_pending of the processor
  session,  \* where the monitor is, and the locals of its loops
  log       \* history: where each character went, and when instructions ran

sessionVars == <<input, guest, session, log>>

Newline == "newline"

Period == "."

-----------------------------------------------------------------------------
(* Standard input.                                                          *)

\* select(2): there is something to read, or the end of the file.
Readable(i) == i.arrived # <<>> \/ i.closed

\* fgetc takes from the buffer, and fills it by one read when it is empty.
Filled(i) ==
  IF i.buffer = <<>> /\ i.arrived # <<>>
    THEN [i EXCEPT !.buffer = Head(i.arrived), !.arrived = Tail(i.arrived)]
    ELSE i

\* monitor_platform_poll_keyboard has a character to return.
Polls(i) == Readable(i) /\ Filled(i).buffer # <<>>

Polled(i) == Head(Filled(i).buffer)

AfterPoll(i) == [Filled(i) EXCEPT !.buffer = Tail(@)]

\* fgets stops behind a newline, at its limit, or at the end of the file.
EndsLine(i, n) ==
  \/ i.buffer[n] = Newline
  \/ n = LineSize
  \/ n = Len(i.buffer) /\ i.closed /\ i.arrived = <<>>

\* Where the line that fgets is about to take ends in the buffer, if it does.
LineEnds(i) ==
  {n \in DOMAIN i.buffer : EndsLine(i, n) /\ \A m \in 1 .. n - 1 : ~EndsLine(i, m)}

-----------------------------------------------------------------------------
(* Session, log and guest.                                                  *)

Prompt(answer, reason) ==
  [ pc |-> "prompt", answer |-> answer, reason |-> reason, broken |-> FALSE,
    total |-> 0, long |-> FALSE, remaining |-> 0 ]

SessionInit ==
  /\ input = [arrived |-> <<>>, buffer |-> <<>>, closed |-> FALSE, count |-> 0]
  /\ guest = [halted |-> FALSE, pending |-> 0]
  /\ session = Prompt("none", "none")
  /\ log = <<>>

Went(ch, where) == Append(log, [ch |-> ch, to |-> where])

WentAll(chars, where) ==
  log \o [n \in DOMAIN chars |-> [ch |-> chars[n], to |-> where]]

Ran ==
  IF log # <<>> /\ Last(log).to = "ran"
    THEN log
    ELSE Append(log, [ch |-> "none", to |-> "ran"])

\* int total += executed, on a machine that wraps around.
Wrapped(n) == IF n >= IntSize THEN n - 2 * IntSize ELSE n

\* pdp8_api_run: up to request instructions, fewer only of a guest that halts.
BurstResults(g, request) ==
  IF g.halted
    THEN {[guest |-> g, executed |-> 0]}
    ELSE [ guest    : [halted : {TRUE}, pending : 0 .. MaxRequests],
           executed : 1 .. request ]
         \cup
         [ guest    : [halted : {FALSE}, pending : 0 .. MaxRequests],
           executed : {request} ]

-----------------------------------------------------------------------------
(* The world outside.                                                       *)

Type(chunk) ==
  /\ session.pc # "exited" /\ ~input.closed
  /\ input.count < MaxChunks
  /\ input' = [input EXCEPT !.arrived = Append(@, chunk), !.count = @ + 1]
  /\ UNCHANGED <<guest, session, log>>

\* The writer of a pipe goes away, or a terminal hangs up.
CloseInput ==
  /\ session.pc # "exited" /\ ~input.closed
  /\ input' = [input EXCEPT !.closed = TRUE]
  /\ UNCHANGED <<guest, session, log>>

-----------------------------------------------------------------------------
(* The prompt.                                                              *)

\* fgets reads on while it has no whole line.
ReadOn ==
  /\ session.pc = "prompt"
  /\ LineEnds(input) = {}
  /\ input.arrived # <<>>
  /\ input' = [input EXCEPT !.buffer = @ \o Head(input.arrived),
                            !.arrived = Tail(@)]
  /\ UNCHANGED <<guest, session, log>>

EndOfInput ==
  /\ session.pc = "prompt"
  /\ input.closed /\ input.arrived = <<>> /\ input.buffer = <<>>
  /\ session' = [session EXCEPT !.pc = "exited"]
  /\ UNCHANGED <<input, guest, log>>

Command(line) == SelectSeq(line, LAMBDA ch : ch # Newline)

\* A run command clears HALT before it enters its loop.
Started(pc, remaining) ==
  /\ guest' = [guest EXCEPT !.halted = FALSE]
  /\ session' = [Prompt("none", "none") EXCEPT !.pc = pc, !.remaining = remaining]

TakeLine ==
  /\ session.pc = "prompt"
  /\ \E n \in LineEnds(input) :
     LET line == SubSeq(input.buffer, 1, n)
     IN  /\ input' = [input EXCEPT !.buffer = SubSeq(@, n + 1, Len(@))]
         /\ log' = WentAll(line, "command")
         /\ CASE Command(line) = <<"g">> -> Started("pump", 0)
              [] Command(line) = <<"c">> ->
                   \E n2 \in CycleCounts : Started("service", n2)
              [] Command(line) = <<"t">> ->
                   \E n2 \in CycleCounts : Started("trace", n2)
              [] Command(line) = <<"r">> ->
                   /\ guest' = [halted |-> FALSE, pending |-> 0]
                   /\ session' = Prompt("none", "none")
              [] Command(line) = <<"q">> ->
                   /\ session' = [Prompt("none", "none") EXCEPT !.pc = "exited"]
                   /\ UNCHANGED guest
              [] OTHER ->
                   /\ session' = Prompt("none", "none")
                   /\ UNCHANGED guest

-----------------------------------------------------------------------------
(* go: pump, test, burst, test, pump again, until something stops it.       *)

Pumping == session.pc \in {"pump", "pump again"}

\* The first period is the break; what follows it in the same pump is dropped.
PumpCharacter ==
  /\ Pumping
  /\ Polls(input)
  /\ input' = AfterPoll(input)
  /\ IF session.broken
       THEN log' = Went(Polled(input), "dropped") /\ UNCHANGED session
       ELSE IF Polled(input) = Period
         THEN /\ log' = Went(Period, "break")
              /\ session' = [session EXCEPT !.broken = TRUE]
         ELSE log' = Went(Polled(input), "guest") /\ UNCHANGED session
  /\ UNCHANGED guest

Stopped(reason) == session' = [session EXCEPT !.pc = "drain", !.reason = reason]

\* What stops the loop once it has pumped for the first time.
StopReason ==
  IF session.broken THEN "USER"
  ELSE IF guest.halted THEN "HALT"
  ELSE IF guest.pending > 0 THEN "INTERRUPT" ELSE "none"

PumpDone ==
  /\ session.pc = "pump"
  /\ ~Polls(input)
  /\ IF StopReason # "none"
       THEN Stopped(StopReason)
       ELSE session' = [session EXCEPT !.pc = "burst"]
  /\ UNCHANGED <<input, guest, log>>

\* One call of pdp8_api_run and the tests behind it.
GoBurst ==
  /\ session.pc = "burst"
  /\ \E result \in BurstResults(guest, Slice) :
       /\ guest' = result.guest
       /\ log' = Ran
       /\ LET sum == session.total + result.executed
              counted == [session EXCEPT !.total = Wrapped(sum),
                                         !.long = @ \/ sum >= IntSize]
          IN  session' =
                CASE result.executed <= 0 ->
                       [counted EXCEPT !.pc = "drain",
                          !.reason = IF guest'.halted THEN "HALT"
                                     ELSE IF guest'.pending > 0 THEN "INTERRUPT"
                                     ELSE "ERROR"]
                  [] result.executed > 0 /\ guest'.halted ->
                       [counted EXCEPT !.pc = "drain", !.reason = "HALT"]
                  [] result.executed > 0 /\ ~guest'.halted /\ guest'.pending > 0 ->
                       [counted EXCEPT !.pc = "drain", !.reason = "INTERRUPT"]
                  [] OTHER -> [counted EXCEPT !.pc = "pump again"]
  /\ UNCHANGED input

\* Mutant of PumpAgainDone: the break of the second pump is left to the first,
\* which starts by forgetting it.
PumpAgainDoneForgets ==
  /\ session.pc = "pump again"
  /\ ~Polls(input)
  /\ session' = [session EXCEPT !.pc = "pump", !.broken = FALSE]
  /\ UNCHANGED <<input, guest, log>>

PumpAgainDone ==
  /\ session.pc = "pump again"
  /\ ~Polls(input)
  /\ IF session.broken
       THEN Stopped("USER")
       ELSE session' = [session EXCEPT !.pc = "pump"]
  /\ UNCHANGED <<input, guest, log>>

-----------------------------------------------------------------------------
(* c and run: service the keyboard and run a slice, while cycles remain.    *)

\* service_platform_keyboard: everything there is goes to the guest.
ServiceCharacter ==
  /\ session.pc \in {"service", "drain", "last service"}
  /\ Polls(input)
  /\ input' = AfterPoll(input)
  /\ log' = Went(Polled(input), "guest")
  /\ UNCHANGED <<guest, session>>

ContinueBurst ==
  /\ session.pc = "service"
  /\ ~Polls(input)
  /\ LET request == IF session.remaining > Slice THEN Slice ELSE session.remaining
     IN  \E result \in BurstResults(guest, request) :
           /\ guest' = result.guest
           /\ log' = Ran
           /\ session' =
                [session EXCEPT
                   !.pc = IF result.executed < request \/ guest'.halted
                               \/ session.remaining = result.executed
                          THEN "last service" ELSE "service",
                   !.remaining = @ - result.executed,
                   !.total = Wrapped(@ + result.executed),
                   !.long = @ \/ session.total + result.executed >= IntSize]
  /\ UNCHANGED input

\* t: single steps, without a look at the keyboard.
TraceStep ==
  /\ session.pc = "trace"
  /\ \E result \in BurstResults(guest, 1) :
       /\ guest' = result.guest
       /\ log' = Ran
       /\ session' =
            CASE result.executed <= 0 -> Prompt("failed", "none")
              [] result.executed > 0 /\ (guest'.halted \/ session.remaining = 1) ->
                   Prompt("ok", "none")
              [] OTHER -> [session EXCEPT !.remaining = @ - 1]
  /\ UNCHANGED input

\* Mutant of Answer: a run that executed nothing is a failure as well.
AnswerNoneExecuted(s) == IF s.total <= 0 \/ s.reason = "ERROR" THEN "failed" ELSE "ok"

\* A negative count of instructions is taken for a failure.
Answer(s) == IF s.total < 0 \/ s.reason = "ERROR" THEN "failed" ELSE "ok"

\* Nothing is left to service: the command answers.
Finish ==
  /\ session.pc \in {"drain", "last service"}
  /\ ~Polls(input)
  /\ session' = [Prompt(Answer(session), session.reason)
                   EXCEPT !.long = session.long]
  /\ UNCHANGED <<input, guest, log>>

-----------------------------------------------------------------------------
MonitorStep ==
  \/ ReadOn \/ EndOfInput \/ TakeLine
  \/ PumpCharacter \/ PumpDone \/ GoBurst \/ PumpAgainDone
  \/ ServiceCharacter \/ ContinueBurst \/ TraceStep \/ Finish

SessionNext ==
  \/ MonitorStep
  \/ \E chunk \in Chunks : Type(chunk)
  \/ CloseInput

\* The process is scheduled; nobody has to type.
SessionSpec ==
  SessionInit /\ [][SessionNext]_sessionVars /\ WF_sessionVars(MonitorStep)

-----------------------------------------------------------------------------
InGo == session.pc \in {"pump", "burst", "pump again"}

SessionTypeOK ==
  /\ input.arrived \in Seq(Chunks)
  /\ input.closed \in BOOLEAN /\ input.count \in 0 .. MaxChunks
  /\ guest \in [halted : BOOLEAN, pending : 0 .. MaxRequests]
  /\ session.pc \in {"prompt", "pump", "burst", "pump again", "drain",
                     "service", "last service", "trace", "exited"}
  /\ session.total \in -IntSize .. IntSize - 1
  /\ \A n \in DOMAIN log : log[n].to \in {"command", "guest", "break", "dropped", "ran"}

\* A break stops the run, and only a break costs a character: no instruction is
\* executed between the recognition of a break and the next command, and no
\* keystroke is dropped but behind a break in the same look at the keyboard
\* (monitor.c:1580, go_pump_keyboard).
BreakStops ==
  /\ \A i, j \in DOMAIN log :
       (i < j /\ log[i].to = "break" /\ log[j].to = "ran")
         => \E k \in i .. j : log[k].to = "command"
  /\ \A i \in DOMAIN log :
       log[i].to = "dropped" => i > 1 /\ log[i - 1].to \in {"break", "dropped"}

\* What the monitor answers to go agrees with the state it leaves: the reason it
\* gives holds, the error nobody expects does not occur, and "go failed" is said
\* only of a run so long that its count of instructions overflowed.
GoAnswersTruly ==
  session.pc = "prompt" /\ session.answer # "none" =>
    /\ session.reason # "ERROR"
    /\ session.reason = "HALT" => guest.halted
    /\ session.reason = "INTERRUPT" => guest.pending > 0 /\ ~guest.halted
    /\ session.reason = "USER" =>
         \E i \in DOMAIN log :
           log[i].to = "break"
             /\ \A j \in i .. Len(log) : log[j].to \notin {"command", "ran"}
    /\ session.answer = "failed" => session.long

\* A period the run loop can see, because something behind it makes the input
\* readable, ends the run.
BreakInSight ==
  /\ InGo /\ Readable(input)
  /\ \/ Period \in Range(input.buffer)
     \/ input.arrived # <<>> /\ Head(Head(input.arrived)) = Period

BreakHeard == BreakInSight ~> ~InGo

\* The help of go, "Run until halt, interrupt, or '.'" (monitor.c:834): a period
\* that has been typed ends the run.
TypedBreak ==
  InGo /\ (Period \in Range(input.buffer)
             \/ \E n \in DOMAIN input.arrived : Period \in Range(input.arrived[n]))

TypedBreakStops == TypedBreak ~> ~InGo
=============================================================================
