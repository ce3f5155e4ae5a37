-------------------------- MODULE CharacterStream --------------------------
(***************************************************************************)
(* What the console keyboard promises: the characters typed wait in line    *)
(* and the program reads each of them once, in the order they were typed,   *)
(* or throws away the one at the front.  None is lost, repeated or          *)
(* overtaken.                                                               *)
(***************************************************************************)
EXTENDS Sequences

CONSTANT Chars

VARIABLES
  waiting,  \* the characters typed and not yet read, oldest first
  read      \* the characters the program has read, in its order

streamVars == <<waiting, read>>

StreamInit == waiting = <<>> /\ read = <<>>

Offer(ch) == waiting' = Append(waiting, ch) /\ UNCHANGED read

Read ==
  /\ waiting # <<>>
  /\ read' = Append(read, Head(waiting))
  /\ waiting' = Tail(waiting)

Discard ==
  /\ waiting # <<>>
  /\ waiting' = Tail(waiting)
  /\ UNCHANGED read

StreamNext == (\E ch \in Chars : Offer(ch)) \/ Read \/ Discard

StreamSpec == StreamInit /\ [][StreamNext]_streamVars
=============================================================================
