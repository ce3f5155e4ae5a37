------------------------------- MODULE MCCpu -------------------------------
(***************************************************************************)
(* Short runs of arbitrary instructions: the host deposits a word of        *)
(* InstructionSet at the PC, or acts otherwise, and the processor steps,    *)
(* Budget times in all.                                                     *)
(***************************************************************************)
EXTENDS Pdp8Cpu

CONSTANT Budget  \* bound on the length of a behaviour

VARIABLE spent

mcVars == <<cpu, spent>>

\* One or more words of each instruction class and of each special case: direct
\* and indirect operands, the auto-index words, the interrupt context words, the
\* current page bit, every operate group, interrupt control and a device.
InstructionSet ==
  { \o0006, \o1006, \o1410, \o2006, \o2412, \o3407, \o3207, \o4420, \o5407,
    \o5020, \o6000, \o6001, \o6002, \o6031, \o7001, \o7012, \o7300, \o7330,
    \o7402, \o7401, \o7405, \o7450, \o7640 }

Deposit ==
  /\ spent = 0 \/ CanStep(cpu)
  /\ \E w \in InstructionSet : HostDeposit(cpu.pc, w)

\* States a program can have brought the processor to: any register contents
\* near the ends of their ranges, interrupts on or off, requests pending, and a
\* memory whose auto-index and counter words are about to wrap.
MCInit ==
  /\ spent = 0
  /\ \E pc \in {7, 15}, ac \in {0, 1, \o4000, \o7777}, link \in LinkBit,
        ion \in BOOLEAN, n \in 0 .. 2, fill \in {0, \o7777} :
       cpu = [ pc |-> pc, ac |-> ac, link |-> link, sr |-> \o5252,
               halted |-> FALSE, skip |-> FALSE, ion |-> ion, pending |-> n,
               mem |-> [a \in Addr |-> fill] ]

MCNext ==
  /\ spent < Budget
  /\ spent' = spent + 1
  /\ Deposit \/ CpuNext

MCSpec == MCInit /\ [][MCNext]_mcVars
=============================================================================
