---------------------------- MODULE Configuration ----------------------------
(***************************************************************************)
(* pdp8.config: how src/monitor_platform_posix.c reads it line by line into *)
(* the struct of src/monitor_config.c, and what the monitor makes of it     *)
(* when it starts: the printer's column limit, the tape units, and the      *)
(* watchdog, which it starts with an instruction of its own.                *)
(*                                                                          *)
(* A value has the readings the code asks for: a text, a boolean or none,   *)
(* and the number strtol finds.  Allocation does not fail here.             *)
(***************************************************************************)
EXTENDS Pdp8Words, Integers, Sequences, SequencesExt

CONSTANTS
  ConfigFiles,  \* what the file may be: sequences of lines
  MaxUnits,     \* MONITOR_MAX_MAGTAPE_UNITS: 8
  LimitSize,    \* values of the printer's column limit: 2^16
  PathKinds     \* each path on the disk: "directory", "file" or "absent"

NoUnit == -1

Text(name) == [text |-> name, flag |-> "neither", number |-> 0]

Flag(name) == [text |-> name, flag |-> name, number |-> 0]

Number(n) == [text |-> "number", flag |-> "neither", number |-> n]

Unset == Text("unset")

\* What each stanza may set, and how the value is read.  The device numbers, which
\* nothing reads afterwards, are left out.
TextKeys ==
  {<<"kl8e_console", "keyboard_input">>, <<"kl8e_console", "teleprinter_output">>,
   <<"line_printer", "output">>,
   <<"paper_tape", "image">>, <<"paper_tape_punch", "output">>,
   <<"watchdog", "mode">>}

FlagKeys ==
  {<<"paper_tape_punch", "enabled">>, <<"watchdog", "enabled">>,
   <<"watchdog", "periodic">>, <<"watchdog", "pause_on_halt">>}

NumberKeys == {<<"line_printer", "column_limit">>, <<"watchdog", "default_count">>}

Settings == TextKeys \cup FlagKeys \cup NumberKeys

ConfigLine ==
  [kind : {"open"}, device : STRING, unit : Int, brace : BOOLEAN]
  \cup [kind : {"close", "other"}]
  \cup [kind : {"set"}, key : STRING, text : STRING,
        flag : {"true", "false", "neither"}, number : Int]

ASSUME ConfigurationConstantsAssumption ==
  /\ ConfigFiles \subseteq Seq(ConfigLine)
  /\ MaxUnits \in Nat \ {0} /\ LimitSize \in Nat \ {0}

VARIABLES
  lines,    \* the file
  config,   \* the struct, the lines read so far, and the stanza the parser is in
  started   \* what the monitor has made of it

configVars == <<lines, config, started>>

\* monitor_config_init: a limit of 132, a punch that is enabled.
DefaultSettings ==
  [k \in Settings |->
     CASE k = <<"line_printer", "column_limit">> -> Number(132)
       [] k = <<"paper_tape_punch", "enabled">>  -> Flag("true")
       [] k \in FlagKeys \ {<<"paper_tape_punch", "enabled">>} -> Flag("false")
       [] OTHER -> Unset]

\* The empty name stands for no stanza, also when a file opens one so called.
Outside == [device |-> "", slot |-> 0]

ConfigInit ==
  /\ lines \in ConfigFiles
  /\ config = [ settings |-> DefaultSettings, present |-> {}, slots |-> <<>>,
                stanza |-> Outside, read |-> 0, loaded |-> TRUE ]
  /\ started = [ phase |-> "reading", limit |-> 132, next |-> 1, units |-> <<>>,
                 any |-> FALSE, magtape |-> FALSE, armed |-> FALSE,
                 ac |-> 0, mem0 |-> 0, pc |-> 0 ]

-----------------------------------------------------------------------------
(* The parser.                                                              *)

NewSlot(unit) ==
  [unit |-> unit, present |-> FALSE, path |-> "none", protected |-> FALSE]

SlotsOf(c, unit) == {s \in DOMAIN c.slots : c.slots[s].unit = unit}

\* find_or_create_magtape_slot.
WithSlot(c, unit) ==
  CASE SlotsOf(c, unit) # {} ->
         [c EXCEPT !.stanza = [device |-> "magtape", slot |-> Min(SlotsOf(c, unit))]]
    [] SlotsOf(c, unit) = {} /\ Len(c.slots) < MaxUnits ->
         [c EXCEPT !.slots = Append(@, NewSlot(unit)),
                   !.stanza = [device |-> "magtape", slot |-> Len(c.slots) + 1]]
    [] OTHER -> [c EXCEPT !.stanza = [device |-> "magtape", slot |-> 0]]

\* What follows magtape in the name must be a number; nothing counts as 0.
Open(c, line) ==
  CASE ~line.brace -> c
    [] line.brace /\ line.device # "magtape" ->
         [c EXCEPT !.stanza = [device |-> line.device, slot |-> 0]]
    [] line.brace /\ line.device = "magtape" /\ line.unit >= 0 -> WithSlot(c, line.unit)
    [] OTHER -> [c EXCEPT !.stanza = [device |-> "magtape", slot |-> 0]]

Value(line) == [text |-> line.text, flag |-> line.flag, number |-> line.number]

\* A value that cannot be read leaves the setting as it was.
Accepted(k, v) ==
  /\ k \in FlagKeys => v.flag # "neither"
  /\ k = <<"line_printer", "column_limit">> => v.number > 0
  /\ k = <<"watchdog", "default_count">> => v.number >= 0

\* Mutant of Set: the first assignment stays.
SetFirst(c, line) ==
  LET k == <<c.stanza.device, line.key>>
  IN  IF k \in Settings /\ Accepted(k, Value(line)) /\ c.settings[k] = DefaultSettings[k]
        THEN [c EXCEPT !.settings[k] = Value(line), !.present = @ \cup {k[1]}]
        ELSE [c EXCEPT !.present = @ \cup {c.stanza.device}]

Set(c, line) ==
  LET k == <<c.stanza.device, line.key>>
  IN  IF k \in Settings /\ Accepted(k, Value(line))
        THEN [c EXCEPT !.settings[k] = Value(line), !.present = @ \cup {k[1]}]
        ELSE [c EXCEPT !.present = @ \cup {c.stanza.device}]

\* Any assignment makes the unit present; one called unit gives it a new number.
SetSlot(c, line) ==
  LET s == c.stanza.slot
      slot == [c.slots[s] EXCEPT !.present = TRUE]
      after ==
        CASE line.key = "unit" /\ line.number >= 0 -> [slot EXCEPT !.unit = line.number]
          [] line.key = "path" -> [slot EXCEPT !.path = line.text]
          [] line.key = "write_protected" /\ line.flag # "neither" ->
               [slot EXCEPT !.protected = (line.flag = "true")]
          [] OTHER -> slot
  IN  [c EXCEPT !.slots[s] = after]

\* Inside a stanza only its end and assignments count, so that a stanza nobody
\* closes takes in those behind it.
AfterConfigLine(c, line) ==
  CASE c.stanza = Outside /\ line.kind = "open"   -> Open(c, line)
    [] c.stanza # Outside /\ line.kind = "close"  -> [c EXCEPT !.stanza = Outside]
    [] c.stanza # Outside /\ line.kind = "set" /\ c.stanza.device # "magtape" ->
         Set(c, line)
    [] c.stanza.slot # 0 /\ line.kind = "set"     -> SetSlot(c, line)
    [] OTHER -> c

ReadConfigLine ==
  /\ started.phase = "reading" /\ config.read < Len(lines)
  /\ config' = [AfterConfigLine(config, lines[config.read + 1]) EXCEPT !.read = @ + 1]
  /\ UNCHANGED <<lines, started>>

\* A file that cannot be read leaves the defaults, and two tape units.
NoConfigFile ==
  /\ started.phase = "reading" /\ config.read = 0
  /\ started' = [started EXCEPT !.phase = "units", !.magtape = TRUE]
  /\ config' =
       [config EXCEPT
          !.loaded = FALSE,
          !.slots =
            <<[unit |-> 0, present |-> TRUE, path |-> "demo", protected |-> TRUE],
              [unit |-> 1, present |-> TRUE, path |-> "magtape", protected |-> FALSE]>>]
  /\ UNCHANGED lines

-----------------------------------------------------------------------------
(* The monitor starts.                                                      *)

Setting(device, key) == config.settings[<<device, key>>]

\* The column limit is cut to the width of the printer's.
SetUpPrinter ==
  /\ started.phase = "reading" /\ config.read = Len(lines)
  /\ started' =
       [started EXCEPT
          !.phase = "watchdog",
          !.limit = IF "line_printer" \in config.present
                    THEN Setting("line_printer", "column_limit").number % LimitSize
                    ELSE 132]
  /\ UNCHANGED <<config, lines>>

\* The seven commands of the watchdog: one shot, and periodic one above it.
OneShots == [reset |-> 1, halt |-> 3, interrupt |-> 5]

WatchdogCommand(mode, periodic) ==
  CASE mode = "unset" -> IF periodic THEN 4 ELSE 3
    [] mode = "tick"  -> 7
    [] mode \in DOMAIN OneShots -> OneShots[mode] + (IF periodic THEN 1 ELSE 0)
    [] OTHER -> 0

ControlWord(cmd, count) == cmd * 512 + (count % 512)

\* The control register is written by an instruction planted in word 0 and
\* executed from there, which leaves its traces in AC, PC and memory.
ArmWatchdog ==
  /\ started.phase = "watchdog"
  /\ \/ /\ "watchdog" \in config.present /\ Setting("watchdog", "enabled").flag = "true"
        /\ started' =
             [started EXCEPT !.phase = "units", !.armed = TRUE,
                !.magtape = config.slots # <<>>,
                !.ac = ControlWord(
                         WatchdogCommand(Setting("watchdog", "mode").text,
                                         Setting("watchdog", "periodic").flag = "true"),
                         Setting("watchdog", "default_count").number),
                !.mem0 = \o6552, !.pc = 1]
     \/ /\ started' = [started EXCEPT !.phase = "units", !.magtape = config.slots # <<>>]
        /\ ~("watchdog" \in config.present /\ Setting("watchdog", "enabled").flag = "true")
  /\ UNCHANGED <<config, lines>>

Mounted(units, slot) ==
  LET unit == [unit |-> slot.unit, path |-> slot.path, protected |-> slot.protected]
      same == {u \in DOMAIN units : units[u].unit = slot.unit}
  IN  IF same = {} THEN Append(units, unit) ELSE [units EXCEPT ![Min(same)] = unit]

\* A unit to be written needs a directory, which is made if need be.
Mountable(slot) ==
  /\ slot.present /\ slot.path # "none"
  /\ ~slot.protected => PathKinds[slot.path] # "file"

\* One turn of the loop over the units.  The directory may not be made, and a
\* record in it not be read: then the unit is there, but does not count.
MountUnit ==
  /\ started.phase = "units" /\ started.next <= Len(config.slots)
  /\ LET slot == config.slots[started.next]
         turned == [started EXCEPT !.next = @ + 1]
     IN  \/ /\ Mountable(slot) => ~slot.protected /\ PathKinds[slot.path] = "absent"
            /\ started' = turned
         \/ /\ Mountable(slot)
            /\ \E good \in BOOLEAN :
                 /\ slot.protected /\ PathKinds[slot.path] # "directory" => ~good
                 /\ started' = [turned EXCEPT !.units = Mounted(@, slot),
                                              !.any = @ \/ good]
  /\ UNCHANGED <<config, lines>>

\* Without a unit that counts the controller is destroyed.
UnitsDone ==
  /\ started.phase = "units" /\ started.next > Len(config.slots)
  /\ started' = [started EXCEPT !.phase = "ready", !.magtape = @ /\ started.any,
                   !.units = IF started.any THEN @ ELSE <<>>]
  /\ UNCHANGED <<config, lines>>

ConfigNext ==
  \/ ReadConfigLine
  \/ NoConfigFile
  \/ SetUpPrinter \/ ArmWatchdog \/ MountUnit \/ UnitsDone

ConfigSpec == ConfigInit /\ [][ConfigNext]_configVars

-----------------------------------------------------------------------------
ConfigTypeOK ==
  /\ \A k \in Settings : config.settings[k].flag \in {"true", "false", "neither"}
  /\ Len(config.slots) <= MaxUnits + 2
  /\ config.stanza.slot \in 0 .. Len(config.slots)
  /\ started.limit \in 0 .. 132 \cup 0 .. LimitSize /\ started.ac \in Word

\* The stanza a line is in: the last one opened before it.
Opened(i) == {j \in 1 .. i - 1 : lines[j].kind = "open"}

Stanza(i) == lines[Max(Opened(i))]

Between(i) == {j \in Max(Opened(i)) + 1 .. i - 1 : lines[j].kind = "close"}

Inside(i) == Opened(i) # {} /\ Between(i) = {}

\* Every stanza has its braces and ends before the next one begins, and a unit
\* has the number its name says.
Orderly ==
  \A i \in DOMAIN lines :
    /\ lines[i].kind = "open" =>
         /\ lines[i].brace /\ ~Inside(i)
         /\ lines[i].device = "magtape" => lines[i].unit >= 0
    /\ lines[i].kind = "set" /\ lines[i].key = "unit" /\ Inside(i) =>
         lines[i].number = Stanza(i).unit

\* The lines that set a key of a device, or of a tape unit, to something legible.
SettingLines(device, key) ==
  {i \in DOMAIN lines :
     lines[i].kind = "set" /\ Inside(i) /\ Stanza(i).device = device
       /\ lines[i].key = key /\ Accepted(<<device, key>>, Value(lines[i]))}

UnitLines(unit, key) ==
  {i \in DOMAIN lines :
     lines[i].kind = "set" /\ Inside(i) /\ Stanza(i).device = "magtape"
       /\ Stanza(i).unit = unit /\ lines[i].key = key
       /\ (key = "write_protected" => lines[i].flag # "neither")}

FileSays(device, key) ==
  LET there == SettingLines(device, key)
  IN  IF there = {} THEN DefaultSettings[<<device, key>>] ELSE Value(lines[Max(there)])

Asked(device) == \E i \in DOMAIN lines :
  lines[i].kind = "set" /\ Inside(i) /\ Stanza(i).device = device

\* Once the monitor has started from an orderly file, the machine is the one the
\* file describes: the printer has its limit, if that fits; the watchdog runs
\* exactly if asked for, with the command its mode and period name and the count,
\* if that fits; a tape unit has the last path its stanzas name, and is writable
\* only if their last word on it is not "write_protected = true"
\* (monitor_platform_posix.c:82, monitor.c:1754-1937).
MachineAsConfigured ==
  started.phase = "ready" /\ config.loaded /\ Orderly =>
    LET limit == FileSays("line_printer", "column_limit").number
        count == FileSays("watchdog", "default_count").number
        wanted == Asked("watchdog") /\ FileSays("watchdog", "enabled").flag = "true"
        periodic == FileSays("watchdog", "periodic").flag = "true"
    IN  /\ Asked("line_printer") /\ limit < LimitSize => started.limit = limit
        /\ started.armed <=> wanted
        /\ wanted /\ count < 512 =>
             /\ started.ac % 512 = count
             /\ started.ac \div 512 =
                  WatchdogCommand(FileSays("watchdog", "mode").text, periodic)
        /\ wanted => (started.ac \div 512) \in 0 .. 7
        /\ \A u \in DOMAIN started.units :
             LET unit == started.units[u]
                 paths == UnitLines(unit.unit, "path")
                 flags == UnitLines(unit.unit, "write_protected")
             IN  /\ paths # {} /\ unit.path = lines[Max(paths)].text
                 /\ unit.protected <=>
                      flags # {} /\ lines[Max(flags)].flag = "true"
        /\ started.units # <<>> => started.magtape
=============================================================================
