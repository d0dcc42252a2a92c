------------------------------ MODULE Sensors ------------------------------
(***************************************************************************)
(* The sensors of the machine as the daemon reads them at every poll: the  *)
(* inputs found in /sys/class/hwmon at the start, the graphics cards that  *)
(* are asked otherwise, the calibration, and what sensor each input is     *)
(* taken for by the words of its label.  The curves and the LCD panels use *)
(* the same readings and pick differently among inputs of one sensor.      *)
(*                                                                         *)
(* Values are integers, twentieths of a degree, RPM, watt or percent, so   *)
(* that the deadband and the tenths of the renderer can be told apart.     *)
(***************************************************************************)
EXTENDS Integers, Sequences, SequencesExt

CONSTANTS
  Inputs,      \* the inputs of the machine: [chip, kind, words, index]
  Calibration  \* [cpu, gpu]: offsets of SensorCalibration

Degree == 20
Half == 10             \* the deadband of ingest_readings
Unread == -100000      \* an input that cannot be read

CpuWords == {"cpu", "tctl", "tdie", "k10temp", "coretemp"}
CardWords == {"nvidia", "amdgpu"}

Says(input, words) == input.words \cap words # {}

\* classify_sensor: the order of the tests decides, and the kind of the input is not asked
Classify(input) ==
  CASE Says(input, CpuWords) -> "CPU"
    [] ~Says(input, CpuWords) /\ Says(input, CardWords) ->
         (CASE Says(input, {"hotspot", "junction"}) -> "GPU Hotspot"
            [] ~Says(input, {"hotspot", "junction"}) /\ Says(input, {"vram", "mem"}) -> "GPU VRAM"
            [] ~Says(input, {"hotspot", "junction", "vram", "mem"}) /\ Says(input, {"power", "watt"}) -> "GPU Power"
            [] ~Says(input, {"hotspot", "junction", "vram", "mem", "power", "watt"})
                 /\ Says(input, {"gpu_busy_percent"}) -> "GPU Usage"
            [] OTHER -> "GPU")
    [] ~Says(input, CpuWords \cup CardWords) /\ Says(input, {"gpu"}) -> "GPU"
    [] ~Says(input, CpuWords \cup CardWords \cup {"gpu"}) /\ Says(input, {"water", "coolant"}) -> "Water"
    [] OTHER -> "MB"

\* Sensor: the sensors of the board are told apart by their number
Sensor(input) == <<Classify(input), IF Classify(input) = "MB" THEN input.index ELSE 0>>

\* scan_chips: the chips by name and, within one, the temperatures before the fans;
\* the graphics cards that are no chips are asked after them
KindOrder(kind) == CASE kind = "temp" -> 1 [] kind = "fan" -> 2 [] OTHER -> 3
Before(a, b) ==
  \/ KindOrder(a.kind) < 3 /\ KindOrder(b.kind) = 3
  \/ /\ KindOrder(a.kind) < 3 /\ KindOrder(b.kind) < 3
     /\ \/ a.chip < b.chip
        \/ a.chip = b.chip /\ KindOrder(a.kind) < KindOrder(b.kind)
        \/ a.chip = b.chip /\ a.kind = b.kind /\ a.index < b.index
  \/ KindOrder(a.kind) = 3 /\ KindOrder(b.kind) = 3 /\ a.index < b.index
Scanned == SetToSortSeq(Inputs, Before)

Offset(sensor) ==
  CASE sensor = "CPU" -> Calibration.cpu
    [] sensor \in {"GPU", "GPU Hotspot", "GPU VRAM"} -> Calibration.gpu
    [] OTHER -> 0

\* read_all and read_calibrated: an input that cannot be read is left out
ReadCalibrated(value) ==
  LET readable == SelectSeq(Scanned, LAMBDA input : value[input] # Unread)
  IN [i \in 1..Len(readable) |->
        [sensor |-> Sensor(readable[i]), kind |-> readable[i].kind,
         value |-> value[readable[i]] + Offset(Classify(readable[i]))]]

\* build_lcd_readings: a panel shows the first input of a sensor
LcdReadings(readings) ==
  [key \in {readings[i].sensor[1] : i \in 1..Len(readings)} |->
     readings[SelectInSeq(readings, LAMBDA r : r.sensor[1] = key)].value]

Apart(a, b) == a - b > Half \/ b - a > Half

\* CurveRunner::ingest_readings: the inputs of one sensor overwrite each other
IngestOne(feed, reading) ==
  IF reading.sensor \in DOMAIN feed.known /\ ~Apart(feed.known[reading.sensor], reading.value)
  THEN feed
  ELSE [known |-> [s \in DOMAIN feed.known \cup {reading.sensor} |->
                     IF s = reading.sensor THEN reading.value ELSE feed.known[s]],
        events |-> Append(feed.events, <<reading.sensor, reading.value>>)]
Ingest(known, readings) ==
  FoldLeft(IngestOne, [known |-> known, events |-> <<>>], readings)
=============================================================================
