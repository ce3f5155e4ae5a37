# TLA+ specification of waffle8

waffle8 is a PDP-8 emulator: a C core (`src/src/emulator/`) with a processor and
a set of devices, a text monitor (`src/src/monitor.c`) and a visual front end
(`src/src/pdp8v.c`) that drive it, and Python tools around them. This directory
specifies the core and the two C programs around it in TLA+, model-checks them
with TLC on small instances and proves the properties that matter most with TLAPS
for every value of the constants. Paths below are relative to the root of the repository.

Contents: [inventory](#inventory), [modules](#modules), [runs](#runs),
[findings](#findings), [proofs](#proofs), [not modelled](#what-is-not-modelled),
[plan](#plan).

## Inventory

| Component | State | Operations | What is hard | What makes it correct |
|---|---|---|---|---|
| CPU core, `src/emulator/main.c` | AC, PC, LINK, switches, memory, halt flag, skip flag, interrupt enable, pending count | `pdp8_api_step`, register and memory calls, reset, request and clear interrupt | dispatch in the same step as a skip, ISZ, JMS, ION or halt; auto-index wrap | words keep their width; no skip outlives its step; a dispatch saves exactly the state to resume |
| Interrupt control, `src/emulator/interrupt_control.c` | the interrupt enable bit | SKON, ION, IOFF | ION takes effect in its own step, with no delay before the return jump | interrupts do not change the result of the program they interrupt; every request is served |
| Watchdog, `src/emulator/watchdog.c` | command, count, enabled, expired, deadline | WRITE, READ, RESTART, ISK, the tick after every step | the monotonic clock read twice per step, long pauses, flags changed by tick and by IOT, count zero | never early; rings when due; one-shots ring once; the flag tells who rang |
| KL8E console, `src/emulator/kl8e_console.c` | keyboard flag, buffer and queue; teleprinter flag, output log | eight keyboard and eight teleprinter functions, queue input, pop output, flush | the host types and pops between any two instructions | first in, first out, nothing lost or stranded; log equals stream |
| Magtape, `src/emulator/magtape_device.c` | per unit: records, cursor, flags, an open write stream; the directory behind it | GO, READ, WRITE, SKIP, REWIND, SENSE, rewind, next and new record | a rescan of the directory at every rewind, lengths written only on closing, failures in the middle | what was written is read back or marked partial; nothing skipped; ready means readable |
| Paper tape image and reader, `src/emulator/paper_tape.c`, `paper_tape_device.c` | the image (label, blocks of words), the selected block, index, ready | load line by line, mount, skip, select, read | two notations told apart by trying; a tape refused half-way; select and read in one instruction; a marker that ends the tape and is not read | the guest reads the words of the line that names the block, and ready tells whether more are left |
| Paper tape punch, `src/emulator/paper_tape_punch.c` | stream, ready, bytes written, callback | skip, clear, punch; set the output path | a new file while the guest punches | each byte reaches the one open stream |
| Line printer, `src/emulator/line_printer.c` | column, column limit, ready | skip, clear, print | tabs past the limit, a 16-bit column, a limit that does not fit | no ink right of the margin |
| Monitor, run loops: `src/monitor.c` | HALT and pending of the guest, the locals of the loops | prompt, `go`, `continue`, `trace`, `reset`, `quit` | keystrokes and a break racing the guest, a stop on a pending request, the buffer of the C library | a run ends when it should and says why; a break stops it; what is typed reaches the guest |
| Monitor, files and memory | memory, PC, the raw image on the disk | `read`, `save`, `restore`, `dep` | three S-record loaders for one format; errors found half-way; the word in which the processor shows the clock | each loader makes the same memory; answers agree with what was done |
| Monitor, creation and teardown | the runtime of devices | create, attach, bootstrap, tear down | devices attached one by one; one fails | nothing left attached to a device that is gone, nothing kept, nothing freed twice |
| Configuration, `src/monitor_config.c`, `src/monitor_platform_posix.c` | the settings, the tape slots | parse `pdp8.config`, start the devices from it | unclosed stanzas, repeated keys, numbers that do not fit, a directory that is not there | the machine is the one the file describes |
| Platform, `src/monitor_platform_posix.c` | terminal mode, the stream of standard input, open files | poll, read a line, idle, time | `select` looks at the descriptor, `fgetc` at the buffer | |
| Visual front end, `src/pdp8v.c`, `src/pdp8v_runtime.c` | screen, pause and turbo flags, the same devices | draw, run, keys, load an image | failure half-way through creation | as for the monitor, and the terminal is given back |
| Boards, `src/emulator/board.c` | none | | constant tables | |
| Factory and tools (Python) | | assembler, converters, a second emulator, web UI | | |

How they interact. The processor calls a device's IOT handler inside a step
(`pdp8_register_iot` fills a table of 64); the handler may load AC and request
a skip. After the instruction the step applies the skip, dispatches a pending
interrupt and calls the tick handlers with the monotonic clock; only the
watchdog registers one, and its tick may halt the processor, reset it or request
an interrupt. The front end calls `pdp8_api_step` or `pdp8_api_run` in a single
thread and acts on the devices (keystrokes, output, reset, records) between
calls. What is typed reaches the run loops through the standard input, whose
buffer the prompt and the poll share. Around all of it lies the life of the
program: the platform opens the files of the configuration, the runtime creates
and attaches one device after another, and the teardown gives them up. There are
no threads: the interleavings are those of the guest program, the operator, the
clock and the files on disk, and the branches are the steps that may fail. The nesting of these calls in one
step, and the orders in which guest, operator and clock can act between steps,
are where the tests of the repository do not reach and where the models look.

`PROJECT.json` lists the hazards line by line under `hazards`, with the
properties that cover each.

## Modules

State variables are records whose fields are the fields of the C struct, under
shortened names; an operator that stands for a C function maps the record before
the call to the record after it; an action is one call from outside (one
instruction, one keystroke, one command).

| Module | Models |
|---|---|
| `Pdp8Words` | twelve-bit words: masking, AND, OR, complement, bit tests on naturals |
| `Pdp8Instructions` | `main.c` and `interrupt_control.c` as functions from `struct pdp8` to `struct pdp8`: every memory-reference and operate instruction, interrupt-control IOTs, skip, dispatch (`Dispatch`), tick effects (`Signalled`), the host calls |
| `Pdp8Cpu` | the processor as a state machine over any devices: one action per instruction class (a device may skip, load AC and, by its tick, halt, reset or interrupt) and per host call |
| `MCCpu` | short runs of arbitrary instructions deposited at the PC |
| `MCInterrupts` | a main program and a service routine, with interrupts requested at any step |
| `MCEvents` | that program, and then the watchdog alone, as two scenes of one run |
| `WatchdogDevice` | `watchdog.c` as functions: `WatchdogIot`, `Ticked`, `Fires`, the control word |
| `Watchdog` | the watchdog alone between a guest, a clock and the ticks, with history of its alarms |
| `Machine` | the composition: processor, watchdog, clock, and the operator's continue, go and reset. A step of the machine is a step of `Pdp8Cpu` with the signal the watchdog gives |
| `MCGuests` | two guests on the machine: the polling service routine documented in `pdp8.h`, and a guest guarded by the watchdog that may hang at any time, under an operator |
| `Kl8eConsole` | keyboard and teleprinter between guest and host |
| `CharacterStream` | the abstract specification of the keyboard: a first-in, first-out stream whose oldest character is read or discarded |
| `MCParts` | the processor of `MCCpu` and the console, as two scenes of one run |
| `Ordering` | a finite set in the order of a relation: the outcome of the `qsort` of a directory's records, and of a walk through the words of an image |
| `Magtape` | `magtape_device.c`: units, records, cursor, the stream being written and the directory behind it, the IOT microcodes in the handler's order, the operator's `magtape` commands, restart and crash |
| `MCMagtape` | the files a host drops into the directory of a unit |
| `MonitorSession` | the prompt and the run loops of the monitor over the standard input: chunks of characters, the stream's buffer, `fgets` at the prompt and `select` with `fgetc` in the loops; `go` as pump, test, burst, test, pump again and drain, `continue` and `trace` with their cycles |
| `MCSession` | what is typed: commands, a period alone, a period behind another character |
| `FrontEnds` | the life of the monitor and of pdp8v, stage by stage: each resource acquired, failing or skipped, the loop of pdp8v with its keys, and the two teardowns in their orders |
| `ImageFiles` | the three S-record loaders (monitor, pdp8v, tape controller) side by side on one file, the raw images of `save` and `restore`, the words of `dep` |
| `PaperTape` | the loader of tape images, line by line, in both notations; the mount; the reader's IOT handler in its order |
| `HardCopy` | the column arithmetic of the line printer and the punch with its output files |
| `Configuration` | the parser of `pdp8.config` as a machine over lines, and the start of the monitor from it: printer, watchdog bootstrap, tape units |
| `MCMonitor` | the last six, one scene each, with the inputs of their small instances |
| `BasicProofs`, `Pdp8CpuProofs`, `InterruptsProofs`, `DeviceProofs`, `MachineProofs`, `MagtapeProofs`, `MonitorProofs`, `FilesProofs` | theorems, see [below](#proofs) |

Abstractions.

- *Addresses and words* are naturals, words modulo 4096. The memory size is the
  constant `MemWords`, at least 17 words so that the words of an interrupt
  dispatch exist; the boards have 4096.
- *Time* is a natural number of units; `Decisecond` is the number of units in a
  tenth of a second, so that a countdown may end between two readings. Before
  each of the two readings of a step the clock may advance by up to `MaxPause`.
- *The wall clock* word that the processor shows in memory is any member of
  `Minutes`. `ImageFiles` has it too, at `WallClockAddress`, because `save` reads
  memory the way a program reads data; one `save` shows one time of day.
- *Other devices* of `Pdp8Cpu` may do anything an IOT handler can do to the
  processor, with AC values from `DeviceWords`.
- *Files* of the magtape are records with the number of the name, the length the
  header declares, the words and the end mark. A `.srec` image is a sequence of
  words that are there, half there or missing; its malformed lines, which the
  code passes over, are not. Whether a directory opens is chosen at each REWIND
  and WRITE and for each command of the operator; at the start of the monitor it
  opens, since a unit whose directory is missing is not configured. Names are
  ordered by their number, as `strcmp` orders them up to `7777.tap`. Two units
  have two directories.
- *A crash* leaves of an open file what filled a buffer of its stream and a
  header that declares nothing. A write to a stream does not fail by itself.
- *Allocation failures and null arguments* are left out, except in `FrontEnds`,
  which is about them: there every creation and attachment may fail.
- *A burst* of `MonitorSession` is one call of `pdp8_api_run`: it leaves any state
  a program could leave, and executes fewer instructions than asked only if the
  guest halted. Commands are single letters; a line that is none of them stands
  for every command without effect on the loops.
- *Lines of files* keep what the parsers test. A data record of `ImageFiles` has
  its address, its bytes (one of them perhaps no hexadecimal number), the count
  it declares and whether the checksum is right; a line of `PaperTape` is blank,
  bad, or a label, a block number and tokens of digits; a line of
  `Configuration` opens a stanza, closes one, sets a key or does nothing. A value
  is what the parser makes of it as a text, as a boolean and as a number.
- *The scenes* of `MCMonitor`, `MCParts` and `MCEvents` share no variables: each is
  a part that moves while the others rest, so that a run of them is as many
  independent checks in one.
- *History variables* (`requested`, `armedAt`, `spent`, `alarm`, `printed`,
  `popped`, `read`, `ready`; in `Magtape` `heard`,
  `skipped`, `accepted`, `made`, `meant`; `log`, `file`, `paper`, `spent`, `idle`
  and `ran` of the modules around the machine) record what happened and guard nothing.
- Operators described as a *mutant* of the definition that follows are plausible
  errors in that definition; no specification uses them. Each property has been
  seen to fail with one of them in place, and `PROJECT.json` pairs them.

## Runs

`tlc -config X.cfg M`; every run takes from seconds to about three minutes
with two workers.

| Run | Config | Question | Bounds, and why they are enough |
|---|---|---|---|
| `parts` | `MCParts.cfg` | Processor: does every instruction keep the types, leave no skip behind and, when a dispatch falls in its step, save the state to resume? Console: does the keyboard implement the stream, and the log follow it? | Processor: three steps or host calls from register contents at the ends of their ranges, with one or more words of each instruction class: deposit, execute and observe; zero to two pending requests; 17 words of memory so that addresses wrap. Console: two keystroke bytes, one with the parity bit; queue of two behind the buffer; two characters read, two printed: a read, a promotion and a keystroke in every order |
| `events` | `MCEvents.cfg` | Interrupts: is an interrupt invisible to the program it interrupts, is every request served once, and does the program finish unless the routine re-enters itself? Watchdog: early, missed, repeated or silent-flag alarms? | Interrupts: up to three requests at any steps; the program depends on AC, LINK, PC, an auto-index word and an ISZ count, and every pair of positions occurs. Watchdog: counts 0, 1, 2 of two units each, all seven commands, pauses up to two units before each reading, seven units of time: three periodic alarms, and one that a pause skips over |
| `interrupts_nested` | `MCInterruptsNested.cfg` | Does the main program resume, as documented? No: see findings | the same |
| `watchdog_zero_count` | `MCWatchdogZero.cfg` | Is a zero count disabled, as documented? No | the same |
| `guests` | `MCGuests.cfg` | Does the documented polling routine find, serve and clear an alarm; is a hung guest always guarded, and caught? | the polling guest with the one-shot interrupt, the guarded guest with the four HALT and RESET commands; count 1, eight units of time: several alarms, hangs and recoveries, the operator acting at any time |
| `polling_periodic` | `MCPollingPeriodic.cfg` | The polling routine with the periodic interrupt? No: see findings | the same; an alarm needs two units |
| `magtape` | `MCMagtape.cfg` | Does a tape give back what was written to it, all of it, in order, under every mixture of guest, operator, host, restart and crash? | two units, one protected; two files and two words per record, so that a record can be read half, advanced from, and found at its length limit (`LengthField` is 2 where the code has 4096); a clock of two seconds, so that two records have the same or different times |
| `magtape_ready` | `MCMagtapeReady.cfg` | Does a skip on ready promise a word, as documented? No: see findings | the same |
| `monitor` | `MCMonitor.cfg` | The six parts around the machine, one scene each: see below | see below |
| `typed_break` | `MCSession.cfg` | Does a typed period stop `go`, as documented? No: see findings | the bounds of the session |
| `saved_clock` | `MCSavedClock.cfg` | Does `save` write memory, as documented? No: see findings | the bounds of `monitor` |
| `tape_marker` | `MCTapeMarker.cfg` | Does the guest read the end-of-tape marker, as documented? No: see findings | the bounds of `monitor` |

The scenes of `monitor` (799,000 states together):

| Scene | Question | Bounds, and why they are enough |
|---|---|---|
| session | Does a break stop the run, does nothing else cost a character, and does `go` answer truly? | three chunks of at most four characters: a command, a break before, during or behind it, and the next command; lines of three characters, so that a long one is cut; `Slice` 2 of an `IntSize` of 3, so that the count overflows in the second burst; one to three cycles for `continue` and `trace`, one slice and more |
| front ends | Whatever fails on the way up, is every thing given up once, in order, and does no handler outlive its device? | both programs, all subsets of failing steps; three keys: pause, resume, quit |
| images | Do the three loaders make the same memory of a proper file, and do the answers agree with it? | two words of memory, four bytes, and the second word is the clock's; two lines of eleven kinds: overlapping, adjacent, half words, malformed, with a wrong or misplaced checksum; a `dep` that fails half-way and one of three words, which goes around memory and over its own beginning; three commands: save, change, restore |
| paper tape | Does the guest read what the line says? | two lines of eleven kinds, so that a second line may repeat, end or spoil the first, and a second tape follows the first; four halfwords, so that a line may be too long |
| hard copy | Is ink ever right of the margin, though tabs pass it and the counter wraps? (Of the punch only the types are checked.) | a counter of 16 columns, limits below it, within a tab of its end, and above it (cut); six characters, which is two tabs and four more |
| configuration | Is the machine the one the file describes? | files of up to three stanzas of twelve kinds, complete or not, one slot and the two of the defaults; a printer limit of 256 values, so that one is cut |

Deadlock is not checked where a behaviour really ends: the processor of `parts`
spends a budget of steps, the programs of `events` halt, and the parts of `monitor`
end: programs exit, files are read, budgets are spent. Elsewhere TLC checks it.

Fairness. `MCInterrupts` and `Machine` assume weak fairness of the step of a
processor that is not halted: the front ends call `pdp8_api_run` in a loop until
it halts. `Machine` also assumes that the steps do not all fall at one instant,
and `Watchdog` that the clock advances and steps go on: the clock is
`CLOCK_MONOTONIC`. Nothing is assumed of the operator, of the guest's choices or
of the host's keystrokes, and the console has safety properties only.
`MonitorSession` assumes weak fairness of the monitor's own steps, which is that
the process is scheduled; nobody has to type, and no guest has to halt.

What the runs show beyond the types:

- `ResumePointSaved` compares each dispatch with the same instruction executed
  with nothing pending, whatever the instruction: a skip in the dispatch step is
  applied before the PC is saved, and a JMS or DCA to the context words is
  overwritten in an order that leaves the context.
- `MainUndisturbed` and `EveryRequestServedOnce` hold at whatever steps the
  requests come, nested dispatches included.
- `NeverEarly`, `FlagTellsAlarm`, `OneShotRingsOnce`, `DisabledIsSilent` and
  `CountdownRings` relate what the guest last wrote and when to what rings; the
  histories measure the delay independently of the deadline the code stores.
- `HangIsGuarded`, `RearmedAfterReset` and `HangIsCaught` are about the watchdog,
  the processor and the operator together: a monitor reset does not disarm the
  watchdog, and a halted processor resumes under a deadline that has passed.
- `SkipIsAPromise` says that between the keyboard skip and the read nothing the
  host does takes the character away; `ImplementsStream` is a refinement:
  buffer and queue together are one stream.
- `BreakStops` and `GoAnswersTruly` follow each character and each burst through a
  log: between the recognition of a break and the next command nothing is
  executed, a keystroke is dropped only behind a break in the same pump, and the
  reason that `go` prints holds in the state it leaves. `BreakHeard` is the
  liveness that is true: a period the poll can see ends the run, guest or no
  guest. `TypedBreakStops` is the documented one, and is not.
- `NoStaleHandler` and `EverythingReleased` name the exceptions they found (see the
  list below the findings), and nothing else is left.
- `LoadersExact` holds the three loaders of one format, written three times, to
  one meaning of a proper file; they differ on improper ones.
- `AnswersAboutMemory` compares memory with what the commands said and with what
  the image was made of: which words a `restore` brings back, the clock's among
  them, what a `save` may have lost, which words of a failed `dep` are there. What
  a `dep` leaves is defined by the last word that goes to each address, not by
  the loop that writes them.
- `ReadsTheTape` defines what a line means by the width of its groups of digits,
  the way the document describes the notations, and compares it with what the
  guest hears after a selection. In one point it follows the loader against the
  document: the end-of-tape marker ends the words of a line and is none of them
  (finding 7, `MarkerIsRead`).
- `InkInsideMargin` measures the carriage independently of the column counter.
- `MachineAsConfigured` reads the file as a person would, stanza by stanza with
  the last setting winning, and compares it with the machine the parser and the
  start produced.
- `NothingSkipped` compares the words the guest has heard since the last scan
  with the records up to the cursor: GO advances a unit without losing a word,
  and only the operator's `next` does. `PartialTellsTruth` relates what the guest
  wrote, over close, restart, crash and rescan, to what the record gives back.
  `WordsLeftAreAnnounced` says that a guest polling for ready never waits with
  words left in its record.

## Findings

1. **A return address is lost when a second request is pending at ION**
   (`interrupts_nested`). `pdp8_api_step` dispatches at the end of the ION
   itself (`src/src/emulator/main.c:379`), before the `JMP I 07` that should
   follow, and word 07 then points into the service routine. The main program
   never resumes, though the documents say it does.
   `ResumesUnlessReentered` shows that this is the only way.
2. **The periodic interrupt is anonymous** (`polling_periodic`). In the tick that
   requests the interrupt, the watchdog clears the flag that ISK tests
   (`src/src/emulator/watchdog.c:85`), so the documented polling routine cannot
   see it.
3. **Count zero rings at once** (`watchdog_zero_count`,
   `src/src/emulator/watchdog.c:72`), where `docs/watchdog.md` says that zero
   disables the countdown.
4. **Ready is no promise after the last record** (`magtape_ready`). GO to a unit
   whose last record has been read sets ready again
   (`src/src/emulator/magtape_device.c:782`), though the cursor stays at the end:
   the documented skip and READ leave AC as it was. The converse,
   `WordsLeftAreAnnounced`, holds.
5. **A typed break is not seen** (`typed_break`). The poll asks `select` about the
   descriptor and takes one character with `fgetc`, which moves the whole line
   into the stream's buffer (`src/src/monitor_platform_posix.c:454`). A period
   typed behind another character of its line is not seen until more is typed;
   with a guest that does not halt, `go` runs on. Lines piped behind `go` become
   keyboard input of the guest for the same reason.
6. **A saved image has the time of day in it** (`saved_clock`). `save` takes each
   word through `pdp8_api_read_mem` (`src/src/monitor.c:1268`), which at address
   07760 returns the minutes since midnight and not memory
   (`src/src/emulator/main.c:99`). The monitor's help (`src/src/monitor.c:837`)
   says that it writes the RAM image. What memory held in that word is lost, and
   `restore` plants the time of the save there, where an instruction fetch, an
   indirect address or an ISZ finds it, since these read memory itself.
7. **The end-of-tape marker cannot be read** (`tape_marker`). `777` ends the tape
   for the loader, which makes no word of it (`src/src/emulator/paper_tape.c:268`).
   `docs/ascii-papertape.md` calls it the final word of a tape (line 11) and tells
   the program that reads one to look for it (line 69), as `demo/ptascii.asm` is
   written to do; such a guest goes on past the last word, where a read leaves AC
   as it was.

Smaller ones, which the models contain as the code has them:

- `restore` of a full image answers "Read error" after restoring everything
  (`src/src/monitor.c:1307`): the end of the file has not been seen when memory is
  full. `AnswersAboutMemory` says so.
- A monitor whose tape units all fail to configure destroys the controller and
  leaves its IOT handlers with the processor (`src/src/monitor.c:1931`): the one
  exception in `NoStaleHandler`.
- A pdp8v whose image does not load leaves the terminal in curses mode, and the
  monitor never destroys its watchdog: the exceptions in `EverythingReleased`.
- `go` counts instructions in an `int`; after 2^31 of them the count is negative
  and `go` says that it failed (`src/src/monitor.c:1648`): the one case
  `GoAnswersTruly` allows.
- `save` ignores what `fclose` returns, so a full disk may be found too late, and
  `dep` leaves in memory the words in front of an invalid one: `AnswersAboutMemory`
  says how much of each is true.
- The S-record loaders differ on improper files: the monitor refuses a file for a
  malformed line and ignores checksums, pdp8v skips malformed lines, refuses a
  wrong checksum and knows no small `s`, the tape controller skips malformed bytes.
- On paper tape, octal codes that consist of zeros and ones and fill words of
  twelve digits are read as bits, and codes of more than three digits are cut;
  `docs/ascii-papertape.md` has labels of two or three letters, the loader takes two.
- A boolean that is neither of the words the parser knows is ignored, so
  `write_protected = on` mounts a tape writable; the watchdog's count is cut to
  nine bits and the printer's limit to sixteen; arming the watchdog leaves its
  traces in AC, PC and word 0000.
- pdp8v attaches no interrupt control, so that ION, IOFF and SKON do nothing
  there, and attaches the watchdog whatever the stanza says of `enabled`.

The documents disagree with the code in more places, which no run needs:
`docs/watchdog.md` gives other IOT numbers for the watchdog functions and says
that the interrupt mode falls back to a reset; it describes a pause on halt that
the tick does not have. `docs/magtape-usage.md` takes not-ready for the end of
the tape in its read loop, where the code is not ready at the end of each record
until the next GO, and its write loop waits for a ready that a unit with no
records never shows.

## Proofs

The theorems hold for every value of the constants that satisfies the named
assumptions of the modules (sizes and ranges: `CpuConstantsAssumption` and its
like), which TLC evaluates in the runs. Every invariant named below was checked by
TLC on a run before it was proved.

| Theorem | Says |
|---|---|
| `Pdp8CpuProofs!CpuTypeCorrect`, `SkipAlwaysSettled` | types and no leftover skip, for any memory size, devices, program and host |
| `Pdp8CpuProofs!EveryDispatchResumable` | an interrupt after any instruction saves what the instruction alone would have left, and disturbs nothing else |
| `InterruptsProofs!InterruptsAreInvisible`, `RequestsAreServedOnce` | the interrupted program computes what it computes alone, and each request is pending or was served once, wherever the requests fall and however many they are |
| `DeviceProofs!WatchdogNeverEarly`, `WatchdogFlagTellsAlarm`, `WatchdogOneShotRingsOnce`, `WatchdogDisabledIsSilent` | the watchdog's safety for any counts, pauses and clock |
| `DeviceProofs!ConsoleTypeCorrect`, `ConsoleStrandsNothing`, `ConsoleKeepsPromise`, `ConsoleLogFollowsStream`, `ConsoleImplementsStream` | the console's invariants and its refinement of `CharacterStream` |
| `MachineProofs!MachineTypeCorrect`, `MachineImplementsCpu` | the machine is typed, and each of its steps is a step of `Pdp8Cpu` |
| `MachineProofs!AlarmHandledOnce`, `HangsAreGuarded`, `ResetRearms` | the safety of the two guests with the watchdog, for any counts, clock, memory size, pauses and operator |
| `MagtapeProofs!MagtapeTypeCorrect`, `ReadyIsAnnounced`, `EndFlagsTellTheTruth`, `NoFileIsLost` | the controller is typed, a unit's flags are true of where it stands, and no file is lost or altered, for any directories, microcodes, operator and host |
| `MagtapeProofs!PartialRecordsAreMarked`, `NoWordIsSkipped`, `WritingOrderIsKept` | what is written is read back or marked partial, over restart and crash; no word is passed over; records come in the order in which they were written |
| `MonitorProofs!SessionTypeCorrect`, `BreakStopsTheRun`, `GoTellsTheTruth` | the run loops are typed, and the count of instructions stays an `int` though it wraps; a break ends the run and costs no other keystroke; the answer to `go` is true of the state it leaves: for any input, any chunks and any guest |
| `MonitorProofs!FrontEndTypeCorrect`, `HandlersAreNeverStale`, `EverythingIsReleased` | what the two programs create, attach and give up, whichever steps fail and however many keys are pressed |
| `FilesProofs!TapeTypeCorrect`, `ReaderReadsTheTape` | the guest hears what the line of its block says, for any tapes, block sizes and mounts |
| `FilesProofs!HardCopyTypeCorrect`, `InkStaysInside` | no ink right of the margin, for any limit and any width of the counter |
| `FilesProofs!ImageTypeCorrect`, `AnswersAreTrue`, `LoadersAgree` | what `read`, `save`, `restore` and `dep` answer is true of memory, for any memory size, any word of the clock and any lists; the three loaders agree on proper files of any length |
| `FilesProofs!ConfigTypeCorrect`, `TheFileIsObeyed` | the settings, slots and control word keep their ranges, for any file; the machine that starts is the one the file describes, for orderly files of any length |
| `MonitorProofs!MonitorTypeCorrect` | all six parts of `MCMonitor` are typed in every scene |

- *Processor.* `CpuInv` is `CpuTypeOK` with `SkipSettled`. Neither lemma about
  the end of a step is enough alone: the type lemma for each instruction class
  (in `Pdp8CpuProofs`) says that whatever it leaves is well typed, and
  `FinishType` that skip and dispatch leave it typed and settled.
  `EveryDispatchResumable` compares two executions of the same instruction, one
  with requests pending and one without. The lemmas `...Quiet` show operator by
  operator that an instruction neither reads nor changes the count (it commutes
  with `Quiet`, which clears it), so that the two differ only in the dispatch;
  `DispatchTaken` says what that changes. It needs the assumption that memory
  reaches past 020 and addresses have twelve bits: the dispatch writes 06, 07 and
  010 unreduced and stores PC as a memory word.
- *Interrupts.* `MainUndisturbed` speaks of the halted program. `InterruptsInv`
  says where the two programs may be before that. The main program alone passes
  through the points of `Course`, each with its AC, LINK, sum, count and
  auto-index word. The processor is at one of them (`OnMain`); or in the service
  routine, with one of them in the context words and what it has restored so far
  in the registers (`InService`); or in a routine that was entered again at its own
  return, and is never left (`Reentered`), so that the program does not halt and
  there is nothing to show. Each lemma takes one point and evaluates its
  instruction, undisturbed and dispatched. `GuestFitsAssumption` says that the
  program fits into memory below the clock word and that the word in which the
  routine counts does not wrap: with 4096 requests `EveryRequestServedOnce` is false.
- *Watchdog.* `WatchdogInv` adds to the properties the relation `Countdown` of
  the stored deadline, the time of arming, the flag and the history: a running
  countdown has its deadline exactly one delay after it was started, or after the
  last alarm. `NeverEarly` alone is not inductive, since it says nothing of the
  state between alarms.
- *Console.* `ConsoleInv` is the conjunction of the four invariants.
  `NothingStranded` is what the refinement needs: a keystroke that finds the flag
  down goes to the buffer, which keeps the order only when nothing waits behind.
- *Machine.* The invariants of processor and watchdog together; a watchdog IOT is
  shown to be one of the results `Pdp8Cpu` allows an arbitrary device. The
  refinement assumes that `DeviceWords` contains the control words the guest can
  read back.
- *Guests.* `GuestsInv` says for each guest at which of its instructions it may be
  with which watchdog: the polling guest is on its way to WRITE, waits with the
  countdown running, or has been rung for and then is interrupted exactly once
  (`PollingPoint`); the guarded guest is before WRITE or has a countdown, a
  one-shot that has rung, and in the case of a reset it is back before WRITE
  (`GuardedPoint`). After a reset by the operator memory is zero and interrupts
  stay off (`ClearedPoint`), whatever the watchdog then does. The
  theorems assume `GuestsAsIntended`: the polling guest writes one-shot
  interrupts of any count, the other one halts or resets of any count but zero,
  and the operator starts guests at 0, where they begin. The constants of
  `MCGuests.cfg` satisfy it; those of `MCPollingPeriodic.cfg` deliberately do not
  (finding 2), and a count of zero does not count down (finding 3).
- *Magtape.* `MagtapeInv` is, for each drive, the two properties of its flags
  (`FlagsFit`) and `FilesFit`: the open file is in the directory and empty, and
  some name is past all that are there. The bound is what makes the name of a new
  file new: `NextIndex` takes the greatest of a set, which exists by
  `GreatestOfBounded` (the naturals are well founded). On it rests a second
  invariant, `DriveTrue`. None of the properties of the records is inductive: the
  records are a copy of the directory made at the last scan, so the directory has
  to be true first (`DirectoryTrue`: names are distinct, no file is newer than the
  clock, every file but the open one holds what it was meant to, the files a unit
  has closed are there with rising names and times), then the copy
  (`ReadingTrue`: the cursor is in its record, what was heard is what lies before
  it). A scan carries the one over into the other. Its order is `InOrder` of the
  module `Ordering`, which puts each element behind those that come before it:
  what `qsort` leaves whatever its method, and what `InOrderSorts` in
  `BasicProofs` shows to exist for every finite set that is strictly ordered.
  `HostFilesAssumption` says of a file that the host drops in that it was meant
  to hold what it does hold, and, of a `.tap` file, that it is words: it gives the
  history field `meant` its value for a file nobody wrote through the controller.
- *Monitor.* `BreakStops` speaks of the log and `GoAnswersTruly` of the answer;
  neither says what the loops know in between. `SessionInv` does, place by place:
  a loop that still executes has seen no break since its command (`BreakKnown`),
  the guest it executes is ready (`GuestReady`), a reason once given holds
  (`ReasonHolds`), and a negative count means a run that overflowed (`CountTrue`).
- *Front ends.* The properties speak of the end of a run and of the guest's time.
  `FrontEndInv` adds what is true on the way: a resource whose turn has not come
  is neither held nor spent, one that is held has not been given up, and each
  handler has its device until the teardown that leaves no guest to call it.
- *Paper tape.* `TapeInv` has two parts. `LoadInv` follows the loader: the image
  is the one made of the lines read so far, block for line; of a refused tape
  nothing is said, since it is not mounted. `Stands` follows the reader: a
  selected block is the one the guest asked for, what was heard since is as much
  of its words as the index counts, and ready is up exactly while some are left.
  `ReadsTheTape` compares what was heard with the text of a line and mentions
  neither image nor index, from which the next word comes, and so is not inductive.
- *Hard copy.* `InkInsideMargin` needs `ColumnFits`: the counter is left of the
  limit or at a multiple of eight, where a tab left it. So the next character wraps
  before there is ink past the margin, although the tab was past it.
- *Images.* `Gathered` says of the three scans that each byte is the one the last
  record for its address gives, as long as the lines read are proper; the words
  each loader then makes of them follow without induction. `DiskTrue` says that
  the raw image is a beginning of the memory it was saved from as a program reads
  it, with the time of the save in the word of the clock: that is what `restore`
  brings back. For `dep`, `ValidMeans` says which words of the list are deposited
  and `DepositedMeans`, following the loop word by word, where they end up.
- *Configuration.* `MachineAsConfigured` says nothing before the machine is ready
  and is not inductive. `ConfigInv` says that after *n* lines the struct holds
  what the first *n* lines of the file say, stanza by stanza (`ReadTrue`, with the
  open stanza in `StanzaTrue`; `NoneForgotten`: each unit the file sets has its
  slot, or all slots are taken), and
  of each phase of the start that its outcome is what the struct says
  (`StartedTrue`). Both are claimed of orderly files, as the property is.
  `ConfigTypeCorrect` is about any file and has an invariant of its own,
  `ConfigTyped`: outside a tape stanza there is no current slot, which is also
  what keeps the two assignments of `AfterConfigLine` apart.
- *All scenes.* `MonitorInv` is the conjunction of the six invariants. Each scene
  moves one part, whose invariant its own step lemma keeps, and the others rest.

`BasicProofs` holds the lemmas on words, sequences and finite orders that several
of these cite.

Every invariant that a passing run checks is a theorem, and so is every property
that is not a liveness property. Only model-checked:

- every liveness property (`CountdownRings`, `AlarmServiced`, `HangIsCaught`,
  `ResumesUnlessReentered`, `BreakHeard`): the prover does not reason about
  fairness;
- the violations of the seven findings, which are behaviours.

## What is not modelled

- Formatting, tokenising and drawing: the monitor's command names and arguments,
  its listings, examine and disassembly, the visual front end's windows, the
  colours of the printer and where its characters are sent.
- The terminal's modes, and idling: sleeping is the passing of time, and what the
  run loops choose to sleep or measure changes nothing else.
- The MD5 sum pdp8v shows of an image.
- Board tables: constants.
- The Python emulator, assembler and converters, and the benchmark in `tools`:
  programs that run off line, or rewrite what is modelled here.
- Failures of allocation and of single writes outside `FrontEnds`, and a caller's
  own stream for the punch, which no program sets.
- Overflow of the pending count, a C `int`: capped by `MaxPending`.

## Plan

What is left, in order of what it would add:

1. The watchdog of `Machine`, seen alone, as an implementation of `Watchdog`, so
   that what is proved of its alarms holds in the composition.
2. An abstract specification of a tape, a list of records with a cursor, and
   `Magtape` as its implementation.
3. The monitor's run loops composed with `Kl8eConsole` and `Machine` in place of
   the abstract guest.
