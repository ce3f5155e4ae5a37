----------------------------- MODULE MCMagtape -----------------------------
(***************************************************************************)
(* Two units as the monitor configures them by default, unit 0 protected,   *)
(* with files the host may drop into the directory of unit 1: an image with *)
(* a gap and half a word, and one without a whole word.                     *)
(***************************************************************************)
EXTENDS Magtape

HostImage(n, image) ==
  [ index |-> n, format |-> "srec", mtime |-> 0, declared |-> 0, body |-> image,
    sealed |-> FALSE, meant |-> SelectSeq(image, LAMBDA w : w < Half) ]

MCHostFiles ==
  { <<1, HostImage(1, <<1, Gap, Half, 0>>)>>, <<1, HostImage(0, <<Half>>)>> }
=============================================================================
