----------------------------- MODULE FrontEnds -----------------------------
(***************************************************************************)
(* The life of the two programs around the emulator, the monitor            *)
(* (src/monitor.c) and the visual machine pdp8v (src/pdp8v.c,               *)
(* src/pdp8v_runtime.c): what they acquire, what they give up when one of   *)
(* these steps fails, and what is left when they end.                       *)
(*                                                                          *)
(* A step that can fail does so at will: allocation, a file that cannot be  *)
(* opened, an attachment (the test hooks of pdp8v fail these).  A device    *)
(* the configuration does not ask for is skipped.                           *)
(***************************************************************************)
EXTENDS Naturals, Sequences

CONSTANTS
  Programs,  \* of "monitor" and "pdp8v", those that are run
  MaxKeys    \* bound on the keys pressed while the visual machine runs

ASSUME FrontEndsConstantsAssumption ==
  Programs \subseteq {"monitor", "pdp8v"} /\ MaxKeys \in Nat

Files == {"keyboard file", "teleprinter file", "printer file"}

Devices == {"console", "printer", "paper tape", "punch", "watchdog", "magtape"}

Resources == Files \cup Devices \cup {"config", "cpu", "screen"}

Stages ==
  {"platform", "cpu", "console", "printer", "paper tape", "punch", "watchdog",
   "magtape", "display", "image", "running", "halted", "leave", "teardown",
   "shutdown", "exited"}

Keys == {"Delete", "Home", "a"}

VARIABLES
  program,   \* "monitor" or "pdp8v"
  turbo,     \* g_turbo_mode, the headless pdp8v
  stage,     \* the step the program takes next
  held,      \* resources it has acquired and not given up
  attached,  \* devices whose handlers the processor calls
  global,    \* g_console is set
  idle,      \* history: the tape controller was destroyed for want of a unit
  ran,       \* history: the main loop was reached
  loop,      \* g_paused, keys not read, and keys pressed so far
  spent      \* history: how often each resource was given up

frontEndVars == <<program, turbo, stage, held, attached, global, idle, ran, loop, spent>>

FrontEndInit ==
  /\ program \in Programs
  /\ turbo \in BOOLEAN /\ (program = "monitor" => ~turbo)
  /\ stage = "platform"
  /\ held = {} /\ attached = {} /\ global = FALSE
  /\ idle = FALSE /\ ran = FALSE
  /\ loop = [paused |-> FALSE, keys |-> <<>>, pressed |-> 0]
  /\ spent = [r \in Resources |-> 0]

IsMonitor == program = "monitor"

-----------------------------------------------------------------------------
(* Acquiring.                                                               *)

\* The strings of pdp8.config, and the files it names that can be opened; the
\* others fall back to the standard streams.
PlatformInit ==
  /\ stage = "platform" /\ stage' = "cpu"
  /\ \E opened \in SUBSET Files :
       held' \in {{}, {"config"} \cup opened}
  /\ UNCHANGED <<program, turbo, attached, global, idle, ran, loop, spent>>

CreateCpu ==
  /\ stage = "cpu"
  /\ \/ stage' = "console" /\ held' = held \cup {"cpu"}
     \/ stage' = "teardown" /\ UNCHANGED held
  /\ UNCHANGED <<program, turbo, attached, global, idle, ran, loop, spent>>

Attach(device, next) ==
  /\ stage' = next
  /\ held' = held \cup {device} /\ attached' = attached \cup {device}
  /\ UNCHANGED spent

\* A device the program cannot do without: created and attached, or the whole
\* runtime is torn down, with the device or without it.
Create(device, next) ==
  /\ stage = device
  /\ \/ Attach(device, next)
     \/ /\ stage' = "teardown"
        /\ held' \in {held, held \cup {device}}
        /\ UNCHANGED <<attached, spent>>

\* The monitor attaches interrupt control next, with the console at work already.
FailInterruptControl ==
  /\ IsMonitor /\ stage = "console"
  /\ Attach("console", "teardown")

CreateConsole ==
  /\ Create("console", "printer") \/ FailInterruptControl
  /\ global' = (stage' = "printer")
  /\ UNCHANGED <<program, turbo, idle, ran, loop>>

CreatePrinter ==
  /\ Create("printer", IF IsMonitor THEN "paper tape" ELSE "watchdog")
  /\ UNCHANGED <<program, turbo, global, idle, ran, loop>>

Destroyed(device) == spent' = [spent EXCEPT ![device] = @ + 1]

\* Mutant of TryDevice: a device is attached before it is known to load.
TryDeviceAttachFirst(device, next) ==
  /\ stage = device
  /\ \/ stage' = next /\ UNCHANGED <<held, attached, spent>>
     \/ Attach(device, next)
     \/ /\ stage' = next /\ Destroyed(device)
        /\ attached' = attached \cup {device} /\ UNCHANGED held

\* A device the program can do without: not asked for or not created; created and
\* attached; or created and destroyed again, when it would not load or attach.
TryDevice(device, next) ==
  /\ stage = device
  /\ \/ stage' = next /\ UNCHANGED <<held, attached, spent>>
     \/ Attach(device, next)
     \/ stage' = next /\ Destroyed(device) /\ UNCHANGED <<held, attached>>

TryPaperTape ==
  /\ TryDevice("paper tape", IF IsMonitor THEN "punch" ELSE "image")
  /\ UNCHANGED <<program, turbo, global, idle, ran, loop>>

TryPunch ==
  /\ TryDevice("punch", "watchdog")
  /\ UNCHANGED <<program, turbo, global, idle, ran, loop>>

TryWatchdog ==
  /\ TryDevice("watchdog", IF IsMonitor THEN "magtape" ELSE "display")
  /\ UNCHANGED <<program, turbo, global, idle, ran, loop>>

TryMagtape ==
  /\ TryDevice("magtape", "image")
  /\ UNCHANGED <<program, turbo, global, idle, ran, loop>>

\* The controller is attached before its units are configured; without a unit
\* it is destroyed, and its handlers stay with the processor.
DisableMagtape ==
  /\ stage = "magtape" /\ stage' = "image"
  /\ Destroyed("magtape") /\ attached' = attached \cup {"magtape"}
  /\ idle' = TRUE
  /\ UNCHANGED <<program, turbo, held, global, ran, loop>>

\* pdp8v takes over the terminal unless it runs headless.
OpenDisplay ==
  /\ stage = "display" /\ stage' = "paper tape"
  /\ held' = IF turbo THEN held ELSE held \cup {"screen"}
  /\ UNCHANGED <<program, turbo, attached, global, idle, ran, loop, spent>>

\* The image named on the command line, if any; a bad one ends the program.
LoadImage ==
  /\ stage = "image"
  /\ \/ stage' = "running" /\ ran' = TRUE
     \/ stage' = "teardown" /\ UNCHANGED ran
  /\ UNCHANGED <<program, turbo, held, attached, global, idle, loop, spent>>

-----------------------------------------------------------------------------
(* Running.                                                                 *)

\* The commands of the monitor are the subject of MonitorSession.
LeaveMonitor ==
  /\ IsMonitor /\ stage = "running" /\ stage' = "teardown"
  /\ UNCHANGED <<program, turbo, held, attached, global, idle, ran, loop, spent>>

PressKey ==
  /\ ~IsMonitor /\ stage \in {"running", "halted"}
  /\ loop.pressed < MaxKeys
  /\ \E key \in Keys :
       loop' = [paused |-> loop.paused, keys |-> Append(loop.keys, key),
                pressed |-> loop.pressed + 1]
  /\ UNCHANGED <<program, turbo, stage, held, attached, global, idle, ran, spent>>

\* The key getch returns; a headless machine does not look at the keyboard.
Key == IF turbo \/ loop.keys = <<>> THEN "none" ELSE Head(loop.keys)

KeysLeft == IF turbo \/ loop.keys = <<>> THEN loop.keys ELSE Tail(loop.keys)

AfterKey(paused) ==
  loop' = [paused |-> paused, keys |-> KeysLeft, pressed |-> loop.pressed]

QuitKey ==
  /\ ~IsMonitor /\ stage = "running" /\ Key = "Delete"
  /\ stage' = "leave" /\ AfterKey(loop.paused)
  /\ UNCHANGED <<program, turbo, held, attached, global, idle, ran, spent>>

\* One turn of the loop: Home pauses and resumes, a paused machine executes
\* nothing, and a halt ends the loop.
RunCycle ==
  /\ ~IsMonitor /\ stage = "running" /\ Key # "Delete"
  /\ LET paused == IF Key = "Home" THEN ~loop.paused ELSE loop.paused
     IN  /\ AfterKey(paused)
         /\ \/ stage' = "running"
            \/ ~paused /\ stage' = "halted"
  /\ UNCHANGED <<program, turbo, held, attached, global, idle, ran, spent>>

\* wait_for_exit_prompt takes any key; a headless machine does not wait.
LeaveHalted ==
  /\ stage = "halted" /\ stage' = "leave"
  /\ turbo \/ loop.keys # <<>>
  /\ AfterKey(loop.paused)
  /\ UNCHANGED <<program, turbo, held, attached, global, idle, ran, spent>>

-----------------------------------------------------------------------------
(* Giving up.                                                               *)

GiveUp(resource) ==
  /\ held' = held \ {resource}
  /\ attached' = IF resource = "cpu" THEN {} ELSE attached
  /\ global' = (global /\ resource # "console")
  /\ Destroyed(resource)

CloseDisplay ==
  /\ stage = "leave" /\ stage' = "teardown"
  /\ IF "screen" \in held
       THEN GiveUp("screen")
       ELSE UNCHANGED <<held, attached, global, spent>>
  /\ UNCHANGED <<program, turbo, idle, ran, loop>>

\* Mutant of TeardownOrder: the punch is forgotten.
TeardownOrderShort ==
  IF IsMonitor
    THEN <<"magtape", "paper tape", "printer", "console", "cpu">>
    ELSE <<"watchdog", "magtape", "paper tape", "printer", "console", "cpu">>

\* The order of monitor_runtime_teardown, which leaves out the watchdog, and of
\* pdp8v_runtime_teardown.
TeardownOrder ==
  IF IsMonitor
    THEN <<"magtape", "paper tape", "punch", "printer", "console", "cpu">>
    ELSE <<"watchdog", "magtape", "paper tape", "printer", "console", "cpu">>

\* The places in the order whose resource is still there.
StillHeld == {n \in DOMAIN TeardownOrder : TeardownOrder[n] \in held}

Teardown ==
  /\ stage = "teardown"
  /\ IF StillHeld = {}
       THEN stage' = "shutdown" /\ UNCHANGED <<held, attached, global, spent>>
       ELSE /\ \E n \in StillHeld :
                 (\A m \in StillHeld : n <= m) /\ GiveUp(TeardownOrder[n])
            /\ UNCHANGED stage
  /\ UNCHANGED <<program, turbo, idle, ran, loop>>

AtExit == Files \cup {"config"}

\* monitor_platform_shutdown closes the files, monitor_config_clear frees the rest.
Shutdown ==
  /\ stage = "shutdown" /\ stage' = "exited"
  /\ held' = held \ AtExit
  /\ spent' = [r \in Resources |-> IF r \in held \cap AtExit THEN spent[r] + 1 ELSE spent[r]]
  /\ UNCHANGED <<program, turbo, attached, global, idle, ran, loop>>

-----------------------------------------------------------------------------
FrontEndNext ==
  \/ PlatformInit \/ CreateCpu \/ CreateConsole \/ CreatePrinter
  \/ TryPaperTape \/ TryPunch \/ TryWatchdog \/ TryMagtape \/ DisableMagtape
  \/ OpenDisplay \/ LoadImage
  \/ LeaveMonitor \/ PressKey \/ QuitKey \/ RunCycle \/ LeaveHalted
  \/ CloseDisplay \/ Teardown \/ Shutdown

FrontEndSpec == FrontEndInit /\ [][FrontEndNext]_frontEndVars

-----------------------------------------------------------------------------
FrontEndTypeOK ==
  /\ program \in Programs /\ turbo \in BOOLEAN /\ stage \in Stages
  /\ held \subseteq Resources /\ attached \subseteq Devices
  /\ global \in BOOLEAN /\ idle \in BOOLEAN /\ ran \in BOOLEAN
  /\ loop \in [paused : BOOLEAN, keys : Seq(Keys), pressed : 0 .. MaxKeys]
  /\ spent \in [Resources -> Nat]

\* While the guest can execute, every handler the processor calls belongs to a
\* device that still exists, except those of a tape controller the monitor
\* disabled for want of a unit (monitor.c:1930, pdp8_magtape_device_destroy).
NoStaleHandler ==
  stage \in {"running", "halted"} =>
    \A device \in attached \ held : device = "magtape" /\ idle

\* Whatever failed on the way, a program gives up each thing at most once and a
\* file after the device that writes to it, and when it ends it holds nothing but
\* the watchdog, in the monitor, and the screen of a pdp8v whose image did not load.
EverythingReleased ==
  /\ \A r \in Resources : spent[r] <= 1
  /\ spent["teleprinter file"] > 0 => "console" \notin held
  /\ spent["printer file"] > 0 => "printer" \notin held
  /\ global => "console" \in held
  /\ stage = "exited" =>
       held \subseteq IF IsMonitor THEN {"watchdog"}
                      ELSE IF ran THEN {} ELSE {"screen"}
=============================================================================
