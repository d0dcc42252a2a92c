---------------------------- MODULE MCLcdPanel ----------------------------
(* A small instance of LcdPanel: a fan with a panel in the standard format  *)
(* and a pump with one in the WinUSB format, on a machine with two CPU      *)
(* temperatures, a labelled CPU fan, a graphics card and a board sensor.    *)
EXTENDS LcdPanel

Input(chip, kind, index, words) == [chip |-> chip, kind |-> kind, index |-> index, words |-> words]
Tctl == Input(1, "temp", 1, {"k10temp", "tctl"})
Die == Input(1, "temp", 3, {"k10temp"})
BoardTemp == Input(2, "temp", 2, {})
CpuFan == Input(2, "fan", 1, {"cpu"})
Card == Input(9, "card", 1, {"nvidia"})

MCInputs == {Tctl, Die, BoardTemp, CpuFan, Card}
MCCalibration == [cpu |-> 20, gpu |-> 0]
Machine(tctl, card) ==
  [i \in MCInputs |-> CASE i = Tctl -> tctl [] i = Die -> 900 [] i = BoardTemp -> 600
                        [] i = CpuFan -> 24000 [] i = Card -> card]
\* a tenth of a degree apart, on both sides of a whole one
MCValues == {Machine(809, 900), Machine(811, Unread)}

Display(sensor, style) ==
  [sensor |-> sensor, cpu |-> 60, gpu |-> 40, label |-> sensor, unit |-> "Celsius",
   style |-> style, color |-> "blue"]
Config(content, brightness, rotation) ==
  [content |-> content, brightness |-> brightness, rotation |-> rotation]
Plain(content) == Config(content, 200, "R0")
Widget(kind, visible) ==
  [kind |-> kind, visible |-> visible, source |-> [from |-> "CpuTemp", label |-> "", value |-> 0],
   min |-> 0, max |-> 1600, unit |-> "C", text |-> "cpu", sources |-> <<>>, path |-> "",
   ranges |-> <<[max |-> {1000}, color |-> "green"], [max |-> {}, color |-> "red"]>>]
Template(background, widgets) ==
  [is |-> "Template", template |-> [background |-> background, widgets |-> widgets]]

Cpu == Plain([is |-> "Sensor", display |-> Display("CPU", "Number")])
MCAsked ==
  [fan |->
     {Cpu,
      Plain([is |-> "Sensor", display |-> Display("GPU", "Graph")]),
      Plain([is |-> "SensorCarousel", displays |-> <<Display("CPU", "Gauge"), Display("Weighted", "Number")>>]),
      Plain([is |-> "Gif", frames |-> <<Still("one"), Still("two")>>]),
      Plain([is |-> "Gif", frames |-> <<Still("three")>>]),
      Plain(Template("blue", <<Widget("Label", TRUE), Widget("ValueText", TRUE), Widget("RadialGauge", TRUE)>>)),
      Plain(Template("red", <<Widget("ValueText", FALSE), Widget("ValueText", TRUE), Widget("Image", FALSE)>>)),
      Plain([is |-> "ScreenCapture"]), Plain([is |-> "Clock"])},
   pump |-> {Cpu, Config([is |-> "Text", what |-> "hello"], 1, "R90"), Config([is |-> "SystemInfo"], 0, "R0")}]
MCPanels == <<"fan", "pump">>
MCProduct == [fan |-> 1, pump |-> 2]
MCPresets == [rain |-> <<Still("drop"), Still("drops")>>, gone |-> <<>>]
MCScreens == {Still("desk"), Still("game")}
=============================================================================
