----------------------------- MODULE Pdp8Words -----------------------------
(***************************************************************************)
(* Twelve-bit words and the C bit operators the emulator applies to them.  *)
(* A uint16_t register holds a value 0 .. 4095 (PDP8_WORD_MASK); masks are  *)
(* written in octal, the way PDP-8 documentation numbers microcode bits.   *)
(* Everything here is first order and recursion free, so that the modules  *)
(* above it stay within reach of the proof system.                          *)
(***************************************************************************)
EXTENDS Integers

Word == 0 .. \o7777

LinkBit == {0, 1}

\* value & PDP8_WORD_MASK
MaskWord(value) == value % \o10000

\* (w & m) != 0 for a mask m of a single bit
Has(w, m) == (w \div m) % 2 = 1

\* ~w within twelve bits
Complement(w) == \o7777 - w

\* the bit of weight m of a & b, at its weight
Common(a, b, m) == IF Has(a, m) /\ Has(b, m) THEN m ELSE 0

\* a & b
And(a, b) ==
  Common(a, b, \o1) + Common(a, b, \o2) + Common(a, b, \o4)
    + Common(a, b, \o10) + Common(a, b, \o20) + Common(a, b, \o40)
    + Common(a, b, \o100) + Common(a, b, \o200) + Common(a, b, \o400)
    + Common(a, b, \o1000) + Common(a, b, \o2000) + Common(a, b, \o4000)

\* a | b
Or(a, b) == Complement(And(Complement(a), Complement(b)))
=============================================================================
