----------------------------- MODULE LcdRender -----------------------------
(***************************************************************************)
(* What the pictures of the LCD panels say: the renderers of sensors, of   *)
(* the system page and of templates as functions from readings to what can *)
(* be read off the picture.  Fonts, places and sizes are left out.         *)
(*                                                                         *)
(* Readings are functions from the keys of build_lcd_readings to values in *)
(* twentieths (module Sensors).  An optional value is a set of at most one *)
(* element.  Every kind of picture has a field name of its own.            *)
(***************************************************************************)
EXTENDS Sensors

Known(r, key) == IF key \in DOMAIN r THEN {r[key]} ELSE {}
OrZero(option) == IF option = {} THEN 0 ELSE CHOOSE v \in option : TRUE
Within(v, lo, hi) == IF v < lo THEN lo ELSE IF v > hi THEN hi ELSE v

\* {:.0} of n/d: ties go to the even number
Rounded(n, d) ==
  LET q == n \div d  rest == 2 * (n % d)
  IN IF rest > d \/ (rest = d /\ q % 2 = 1) THEN q + 1 ELSE q

Black == [black |-> TRUE]
Still(what) == [still |-> what]
ClockFace == [clock |-> "on"]

---------------------------------------------------------------------------
(* Sensors and the system page.                                            *)

SensorKey(display) == IF display.sensor = "Weighted" THEN "CPU" ELSE display.sensor

\* lookup_value: a weighted value needs both of its sensors
Lookup(display, r) ==
  IF display.sensor = "Weighted"
  THEN {(c * display.cpu + g * display.gpu) \div 100 : c \in Known(r, "CPU"), g \in Known(r, "GPU")}
  ELSE Known(r, display.sensor)

\* to_pct, in twentieths of a percent
Percent(option) == Within(OrZero(option), 0, 100 * Degree)

\* format_value
InUnit(v, unit) ==
  IF unit = "Fahrenheit" THEN <<Rounded(v * 9 + 32 * 5 * Degree, 5 * Degree), "F">>
                         ELSE <<Rounded(v, Degree), "C">>
\* format_value_for_sensor: watts and percents keep their own unit
Text(option, display) ==
  {CASE display.sensor = "GPU Power" -> <<Rounded(v, Degree), "W">>
     [] display.sensor = "GPU Usage" -> <<Rounded(v, Degree), "%">>
     [] OTHER -> InUnit(v, display.unit) : v \in option}

Gauge(display, r) ==
  LET v == Lookup(display, r)
  IN [dial |-> <<display.label, display.color, Text(v, display), Percent(v)>>]
Number(display, r) ==
  [number |-> <<display.label, display.color, Text(Lookup(display, r), display)>>]
Bar(display, r) == [bar |-> <<display.label, display.color, Percent(Lookup(display, r))>>]
\* render_graph_with_history: a line needs two points
Graph(display, history, r) ==
  [graph |-> <<display.label, display.color,
               {InUnit(v, display.unit) : v \in Known(r, SensorKey(display))},
               IF Len(history) < 2 THEN <<>>
               ELSE [i \in 1..Len(history) |-> Within(history[i], 0, 100 * Degree)]>>]

RenderSensor(display, r) ==
  CASE display.style = "Gauge" -> Gauge(display, r)
    [] display.style \in {"Number", "Carousel"} -> Number(display, r)
    [] display.style = "Graph" -> Bar(display, r)

RenderSystemInfo(r) ==
  [rows |-> [key \in {"CPU", "GPU", "Water", "MB"} |->
               {Rounded(v, Degree) : v \in Known(r, key)}]]

---------------------------------------------------------------------------
(* Templates.                                                              *)

SourceKeys ==
  [CpuTemp |-> "CPU", GpuTemp |-> "GPU", GpuUsage |-> "GPU Usage", WaterTemp |-> "Water",
   CpuUsage |-> "CPU Usage", MemUsage |-> "Memory Usage"]

\* resolve_source; a constant and the output of a command are in "value"
ResolveSource(source, r) ==
  CASE source.from \in DOMAIN SourceKeys -> OrZero(Known(r, SourceKeys[source.from]))
    [] source.from = "Hwmon" -> OrZero(Known(r, source.label))
    [] source.from \in {"Constant", "Command"} -> source.value

Measuring == {"ValueText", "RadialGauge", "Speedometer", "VerticalBar", "HorizontalBar"}

\* resolve_sensor: only widgets of one source have a value of their own
ResolveSensor(widget, r) ==
  IF widget.kind \in Measuring THEN ResolveSource(widget.source, r) ELSE 0

\* range_color: the first range that reaches up to the value, or the last one
RangeColor(ranges, v) ==
  LET fits == SelectInSeq(ranges, LAMBDA range : \A m \in range.max : v <= m)
  IN CASE ranges = <<>> -> "default"
       [] ranges # <<>> /\ fits # 0 -> ranges[fits].color
       [] OTHER -> Last(ranges).color

\* how far a gauge or bar is filled, and what of: the span is never less than one
Fill(widget, v) ==
  LET span == IF widget.max > widget.min THEN widget.max - widget.min ELSE Degree
      part == Within(v - widget.min, 0, span)
  IN <<part, span, IF part = 0 THEN "none" ELSE RangeColor(widget.ranges, v)>>

DefaultCores == [i \in 1..16 |-> [from |-> "Hwmon", label |-> "CPU Core", value |-> 0]]
Cores(widget, r) ==
  LET sources == IF widget.sources = <<>> THEN DefaultCores ELSE widget.sources
  IN [i \in 1..Len(sources) |->
        LET v == ResolveSource(sources[i], r)
        IN <<Within(v, 0, 100 * Degree), IF v <= 0 THEN "none" ELSE RangeColor(widget.ranges, v)>>]

DrawWidget(widget, r) ==
  LET v == ResolveSensor(widget, r)
  IN CASE widget.kind = "Label" -> [label |-> widget.text]
       [] widget.kind = "ValueText" ->
            [value |-> <<Rounded(v, Degree), widget.unit, RangeColor(widget.ranges, v)>>]
       [] widget.kind \in Measuring \ {"ValueText"} -> [filled |-> <<widget.kind, Fill(widget, v)>>]
       [] widget.kind = "CoreBars" -> [cores |-> Cores(widget, r)]
       [] widget.kind = "Image" -> [image |-> widget.path]

Visible(template) == {i \in 1..Len(template.widgets) : template.widgets[i].visible}
RenderTemplate(template, r) ==
  [template |-> <<template.background,
                  [i \in Visible(template) |-> DrawWidget(template.widgets[i], r)]>>]

\* quantize: tenths, halves away from zero
Quantize(v) == IF v >= 0 THEN (v + 1) \div 2 ELSE -((1 - v) \div 2)

\* TemplateState: the tenths each widget was drawn at
NothingDrawn(template) == [i \in 1..Len(template.widgets) |-> {}]
NeedsRender(drawn, template, r) ==
  \/ \A i \in DOMAIN drawn : drawn[i] = {}
  \/ \E i \in Visible(template) : drawn[i] # {Quantize(ResolveSensor(template.widgets[i], r))}
MarkRendered(template, r) ==
  [i \in 1..Len(template.widgets) |-> {Quantize(ResolveSensor(template.widgets[i], r))}]
=============================================================================
