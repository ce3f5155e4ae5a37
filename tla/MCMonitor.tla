------------------------------ MODULE MCMonitor ------------------------------
(***************************************************************************)
(* The parts around the emulated machine, one after the other: each         *)
(* behaviour plays one scene, in which one part moves and the others rest.  *)
(* What the scenes share is only that they are checked together.            *)
(***************************************************************************)
EXTENDS MCSession, FrontEnds, ImageFiles, PaperTape, HardCopy, Configuration

VARIABLE scene

sceneVars ==
  <<sessionVars, frontEndVars, imageVars, tapeVars, hardCopyVars, configVars, scene>>

\* Of each part that rests one initial state is enough.
MCInit ==
  /\ scene \in {"session", "front ends", "images", "paper tape", "hard copy",
                "configuration"}
  /\ SessionInit /\ FrontEndInit /\ ImageInit /\ TapeInit /\ HardCopyInit /\ ConfigInit
  /\ scene # "front ends" => program = "monitor"
  /\ scene # "paper tape" => acc.value = CHOOSE a \in TapeAcs : TRUE
  /\ scene # "hard copy" => paper.limit = CHOOSE n \in ColumnLimits : TRUE
  /\ scene # "configuration" => lines = <<>>

Rest ==
  /\ scene # "session" => UNCHANGED sessionVars
  /\ scene # "front ends" => UNCHANGED frontEndVars
  /\ scene # "images" => UNCHANGED imageVars
  /\ scene # "paper tape" => UNCHANGED tapeVars
  /\ scene # "hard copy" => UNCHANGED hardCopyVars
  /\ scene # "configuration" => UNCHANGED configVars
  /\ UNCHANGED scene

MCNext ==
  \/ scene = "session" /\ SessionNext /\ Rest
  \/ scene = "front ends" /\ FrontEndNext /\ Rest
  \/ scene = "images" /\ ImageNext /\ Rest
  \/ scene = "paper tape" /\ TapeNext /\ Rest
  \/ scene = "hard copy" /\ HardCopyNext /\ Rest
  \/ scene = "configuration" /\ ConfigNext /\ Rest

\* The fairness of SessionSpec, in its scene.
MCSpec ==
  /\ MCInit /\ [][MCNext]_sceneVars
  /\ WF_sceneVars(scene = "session" /\ MonitorStep /\ Rest)

\* The types of all the parts.
MonitorTypeOK ==
  /\ SessionTypeOK /\ FrontEndTypeOK /\ ImageTypeOK
  /\ TapeTypeOK /\ HardCopyTypeOK /\ ConfigTypeOK

-----------------------------------------------------------------------------
(* The inputs.                                                              *)

DataOf(base, bytes, sum) ==
  [ kind |-> "data", capital |-> TRUE, legible |-> TRUE, base |-> base,
    bytes |-> bytes, declared |-> Len(bytes), sum |-> sum ]

StartOf(base) == [kind |-> "start", capital |-> TRUE, legible |-> TRUE, base |-> base]

MCFileLines ==
  { DataOf(0, <<1, 16>>, "right"), DataOf(1, <<17, 1>>, "right"),
    DataOf(2, <<1>>, "right"), DataOf(3, <<2, 3>>, "right"),
    DataOf(0, <<1, 1>>, "wrong"), DataOf(0, <<3, Malformed, 3>>, "right"),
    [DataOf(0, <<4, 5>>, "illegible") EXCEPT !.declared = 1],
    [DataOf(0, <<6, 7>>, "right") EXCEPT !.capital = FALSE],
    [DataOf(0, <<>>, "right") EXCEPT !.legible = FALSE],
    StartOf(2), StartOf(5) }

MCDepositLists == {<<1, Invalid>>, <<0, 2, 1>>}

BlockOf(label, block, text) ==
  [header |-> "good", label |-> label, block |-> block, text |-> text]

MCTapeLines ==
  { BlockOf("AA", 1, <<<<1, 0, 1>>, <<2>>>>),
    BlockOf("AA", 1, <<<<1, 0, 0, 0, 0, 1>>, <<0, 0, 0, 0, 1, 0>>>>),
    BlockOf("AA", 3, <<<<1, 0, 1>>, <<1, 0, 0>>, <<1, 1, 0>>, <<1, 1, 1>>>>),
    BlockOf("AA", 3, <<<<0, 1, 2>>, <<7, 7, 7>>>>),
    BlockOf("BB", 1, <<<<0, 1, 3>>>>),
    BlockOf("BB", 3, <<<<7, 7, 7>>, <<8>>>>),
    BlockOf("AA", 3, <<<<4, 0, 0>>>>),
    BlockOf("AA", 3, <<<<1, 8>>>>),
    BlockOf("AA", 3, <<<<1>>, <<1>>, <<1>>, <<1>>, <<1>>>>),
    [BlockOf("AA", 3, <<>>) EXCEPT !.header = "bad"],
    [BlockOf("AA", 3, <<>>) EXCEPT !.header = "blank"] }

MCPathKinds ==
  [p \in {"demo", "magtape", "list"} |->
     CASE p = "demo" -> "directory" [] p = "magtape" -> "absent" [] OTHER -> "file"]

OpenOf(device, unit) ==
  [kind |-> "open", device |-> device, unit |-> unit, brace |-> TRUE]

SetOf(key, v) ==
  [kind |-> "set", key |-> key, text |-> v.text, flag |-> v.flag, number |-> v.number]

CloseOf == [kind |-> "close"]

\* The last lines of some are missing, or the first has no brace.
MCStanzas ==
  { <<OpenOf("magtape", 0), SetOf("path", Text("demo")),
      SetOf("write_protected", Flag("true")), CloseOf>>,
    <<OpenOf("magtape", 0), SetOf("path", Text("list"))>>,
    <<OpenOf("magtape", 1), SetOf("unit", Number(1)), SetOf("path", Text("demo")),
      SetOf("write_protected", Text("on")), CloseOf>>,
    <<OpenOf("magtape", 1), SetOf("unit", Number(0)), SetOf("path", Text("magtape")),
      CloseOf>>,
    <<OpenOf("magtape", 0), SetOf("write_protected", Flag("false")), CloseOf>>,
    <<OpenOf("magtape", NoUnit), SetOf("path", Text("list")), CloseOf,
      [kind |-> "other"]>>,
    <<OpenOf("line_printer", NoUnit), SetOf("column_limit", Number(80)),
      SetOf("column_limit", Number(0)), CloseOf>>,
    <<OpenOf("line_printer", NoUnit), SetOf("column_limit", Number(300)), CloseOf>>,
    <<OpenOf("watchdog", NoUnit), SetOf("enabled", Flag("true")),
      SetOf("mode", Text("reset")), SetOf("default_count", Number(5)), CloseOf>>,
    <<OpenOf("watchdog", NoUnit), SetOf("periodic", Flag("true")),
      SetOf("default_count", Number(513)), CloseOf>>,
    <<OpenOf("watchdog", NoUnit), SetOf("mode", Text("tick"))>>,
    <<[OpenOf("watchdog", NoUnit) EXCEPT !.brace = FALSE],
      SetOf("enabled", Flag("false")), CloseOf>> }

MCConfigFiles ==
  {<<>>} \cup MCStanzas
  \cup {s \o t : s, t \in MCStanzas} \cup {s \o t \o u : s, t, u \in MCStanzas}
=============================================================================
