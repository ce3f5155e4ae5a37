---------------------------- MODULE MCInterrupts ----------------------------
(***************************************************************************)
(* A main program interrupted at arbitrary moments.  The service routine    *)
(* follows the pattern of src/src/emulator/pdp8.h: entered at 020, context  *)
(* in 06, 07 and 010, ION and JMP I 07 to return.  It counts its entries    *)
(* and restores LINK and AC before it returns.                              *)
(*                                                                          *)
(*   020 ISZ 027   021 CLA CLL   022 TAD 010   023 RAR   024 TAD 006        *)
(*   025 ION       026 JMP I 07  027 (entries)                              *)
(*                                                                          *)
(* The main program folds two words into SUM with an auto-index pointer, an *)
(* ISZ loop count, and a carry kept in LINK across two instructions, so it  *)
(* depends on every part of the context:                                    *)
(*                                                                          *)
(*   030 ION       031 CLA CLL   032 TAD 044   033 TAD I 011   034 RAL      *)
(*   035 DCA 044   036 ISZ 045   037 JMP 031   040 HLT                      *)
(*   044 SUM       045 -2        046 6000      047 5000                     *)
(***************************************************************************)
EXTENDS Pdp8Cpu

CONSTANT MaxRequests  \* bound on the interrupts requested in a behaviour

\* The program ends at 047, and the service routine counts in one word.
ASSUME GuestFitsAssumption ==
  /\ MemWords > \o47
  /\ WallClockAddress > \o47
  /\ MaxRequests \in 0 .. \o7777

VARIABLE requested  \* how many interrupts have been requested

mcVars == <<cpu, requested>>

Program ==
  [a \in Addr |->
    CASE a = \o11 -> \o0045
      [] a = \o20 -> \o2027 [] a = \o21 -> \o7300 [] a = \o22 -> \o1010
      [] a = \o23 -> \o7010 [] a = \o24 -> \o1006 [] a = \o25 -> \o6001
      [] a = \o26 -> \o5407
      [] a = \o30 -> \o6001 [] a = \o31 -> \o7300 [] a = \o32 -> \o1044
      [] a = \o33 -> \o1411 [] a = \o34 -> \o7004 [] a = \o35 -> \o3044
      [] a = \o36 -> \o2045 [] a = \o37 -> \o5031 [] a = \o40 -> \o7402
      [] a = \o45 -> \o7776 [] a = \o46 -> \o6000 [] a = \o47 -> \o5000
      [] OTHER -> 0]

Entries == cpu.mem[\o27]
Total == cpu.mem[\o44]

MCInit ==
  /\ cpu = [PoweredUpCpu EXCEPT !.mem = Program, !.pc = \o30]
  /\ requested = 0

QuietStep == Step("none") /\ UNCHANGED requested

\* A request arrives with this step's tick.
Request ==
  /\ requested < MaxRequests
  /\ Step("interrupt")
  /\ requested' = requested + 1

MCNext == QuietStep \/ Request

\* The front end keeps calling pdp8_api_step until the processor halts.
MCSpec == MCInit /\ [][MCNext]_mcVars /\ WF_mcVars(MCNext)

-----------------------------------------------------------------------------
\* Interrupts are invisible to the program they interrupt: wherever they
\* arrive, the main program halts with the sum it computes undisturbed.
MainUndisturbed ==
  cpu.halted => /\ Total = \o2001
                /\ cpu.mem[\o45] = 0
                /\ cpu.mem[\o11] = \o47

\* Every request is served exactly once: it is still pending, or the service
\* routine has been entered for it (docs/interrupt-queue-rationale.md,
\* "ALL queued interrupts GUARANTEED to be delivered").
EveryRequestServedOnce ==
  requested = cpu.pending + Entries + (IF cpu.pc = \o20 THEN 1 ELSE 0)

\* The main program resumes and halts, unless a request that was pending when
\* the routine executed ION was dispatched at once: word 07 then points into the
\* routine itself.
ResumesUnlessReentered ==
  <>(cpu.halted \/ cpu.mem[7] \in \o20 .. \o26)

\* The main program resumes after its interrupts and runs to its HLT
\* (docs/INTERRUPT_QUICK_REFERENCE.md, "Main program resumes").
MainProgramResumes == <>cpu.halted
=============================================================================
