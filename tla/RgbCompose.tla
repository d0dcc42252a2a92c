----------------------------- MODULE RgbCompose -----------------------------
(* The composition of a light mode into the frames a device plays            *)
(* (frgb-core/src/services/rgb.rs): which zone of a fan each LED belongs to, *)
(* which source each zone shows, and how many frames at what pace.           *)
(*                                                                           *)
(* A source is [kind |-> "off"], [kind |-> "color", hue |-> h] or            *)
(* [kind |-> "effect", effect |-> e, ccw |-> b, speed |-> s]; a fan spec is  *)
(* [inner |-> source, outer |-> source].  A mode is one of                   *)
(*   [kind |-> "off"], [kind |-> "temp"],                                    *)
(*   [kind |-> "ring", ring |-> r, source |-> s]   (Static and Effect),      *)
(*   [kind |-> "composed", specs |-> sequence of fan specs],                 *)
(*   [kind |-> "perfan", fans |-> sequence of [inner, outer: hue or None]],  *)
(*   [kind |-> "perled", fans |-> sequence of [inner, outer: sequences]],    *)
(*   [kind |-> "subzones", zones |-> hue or None for each of the six zones]. *)
(* A job is [device, leds (per fan), fans, mode].                            *)
EXTENDS Effects, Sequences

LOCAL INSTANCE FiniteSetsExt

CONSTANT None

Off == [kind |-> "off"]
Black == 0                \* as a hue of an LED

-----------------------------------------------------------------------------
(* The zones of a fan.                                                       *)

InnerZones == {"InnerTop", "InnerMiddle", "InnerBottom"}
SubZones == InnerZones \cup {"OuterTop", "OuterMiddle", "OuterBottom"}

\* LEDs per fan, and the size of the inner ring, by the shape of the device.
LedLayout(d) ==
  CASE d = "Cl" -> [inner |-> 8, outer |-> 16, total |-> 24]
    [] d = "Sl" -> [inner |-> 13, outer |-> 8, total |-> 21]
    [] d = "Tl" -> [inner |-> 8, outer |-> 18, total |-> 26]
    [] d = "SlInf" -> [inner |-> 20, outer |-> 38, total |-> 58]
    [] d \in {"Led88", "V150"} -> [inner |-> 0, outer |-> 88, total |-> 88]
    [] d = "SideArgb" -> [inner |-> 0, outer |-> 10, total |-> 10]
    [] d \in {"HydroShiftII", "WaterBlock"} -> [inner |-> 8, outer |-> 16, total |-> 24]
    [] OTHER -> [inner |-> 0, outer |-> 0, total |-> 0]

IsInnerLed(d, led) ==
  CASE d = "Sl" -> led \in 8 .. 20
    [] d = "SlInf" -> led \in (12 .. 19) \cup (32 .. 39)
    [] d \in {"Cl", "Tl"} -> led < 8
    [] OTHER -> TRUE

\* The sub-zone of an LED, None where the device has none there.
SubZone(d, led) ==
  CASE d = "Tl" /\ led \in 0 .. 1 -> "InnerTop"
    [] d = "Tl" /\ led \in 2 .. 5 -> "InnerMiddle"
    [] d = "Tl" /\ led \in 6 .. 7 -> "InnerBottom"
    [] d = "Tl" /\ led \in 8 .. 9 -> "OuterTop"
    [] d = "Tl" /\ led \in 10 .. 13 -> "OuterMiddle"
    [] d = "Tl" /\ led \in 14 .. 20 -> "OuterBottom"
    [] d = "Sl" /\ led \in 0 .. 1 -> "OuterTop"
    [] d = "Sl" /\ led \in 2 .. 6 -> "OuterMiddle"
    [] d = "Sl" /\ led = 7 -> "OuterBottom"
    [] d = "Sl" /\ led \in (8 .. 10) \cup {20} -> "InnerTop"
    [] d = "Sl" /\ led \in 11 .. 16 -> "InnerMiddle"
    [] d = "Sl" /\ led \in 17 .. 19 -> "InnerBottom"
    [] OTHER -> None

\* The slot of an LED in the colours of its zone, counted from 1.
PerLedZoneOffset(d, led) ==
  Cardinality({i \in 0 .. led : IsInnerLed(d, i) = IsInnerLed(d, led)})

\* The LEDs of a zone in their order, on a fan of n.
Indices(d, n, inner) ==
  SelectSeq([i \in 1 .. n |-> i - 1], LAMBDA led : IsInnerLed(d, led) = inner)

-----------------------------------------------------------------------------
(* A source of a zone, on one fan of n LEDs.                                 *)

SourceFrames(src, n) ==
  CASE src.kind = "off" -> 1
    [] src.kind = "color" -> FrameCount("StaticColor", n)
    [] src.kind = "effect" -> FrameCount(src.effect, n)

SourcePicture(src, n, f) ==
  CASE src.kind = "off" -> {}
    [] src.kind = "color" -> Whole(n, src.hue, 0)
    [] src.kind = "effect" -> Picture(src.effect, n, f, src.ccw)

-----------------------------------------------------------------------------
(* A mode as fan specs, and fan specs as frames.                             *)

FromRing(ring, src) ==
  [inner |-> IF ring = "outer" THEN Off ELSE src,
   outer |-> IF ring = "inner" THEN Off ELSE src]

HueOrOff(hue) == IF hue = None THEN Off ELSE [kind |-> "color", hue |-> hue]

Specs(mode) ==
  CASE mode.kind = "off" -> <<[inner |-> Off, outer |-> Off]>>
    [] mode.kind = "ring" -> <<FromRing(mode.ring, mode.source)>>
    [] mode.kind = "composed" -> mode.specs
    [] mode.kind = "perfan" ->
         [i \in DOMAIN mode.fans |-> [inner |-> HueOrOff(mode.fans[i].inner),
                                      outer |-> HueOrOff(mode.fans[i].outer)]]

Sources(mode) == UNION {{s.inner, s.outer} : s \in {Specs(mode)[i] : i \in DOMAIN Specs(mode)}}

HasSubZones(d) == \E led \in 0 .. LedLayout(d).total - 1 : SubZone(d, led) # None

\* What compose refuses.
Refused(job) ==
  \/ job.mode.kind = "temp"
  \/ job.leds = 0 \/ job.fans = 0
  \/ job.mode.kind = "composed" /\ job.mode.specs = <<>>
  \/ job.mode.kind = "perfan" /\ job.mode.fans = <<>>
  \/ job.mode.kind = "subzones" /\ ~HasSubZones(job.device)

\* The last entry stands for all the fans after it.
ForFan(seq, fan) == seq[Smaller(fan + 1, Len(seq))]

InZone(d, picture, inner) == {m \in picture : IsInnerLed(d, m[1]) = inner}
OnFan(job, fan, picture) == {<<fan * job.leds + m[1], m[2], m[3]>> : m \in picture}

\* Shorter sources loop within the longest.
ZonesPicture(job, f) ==
  LET of(src, inner) == InZone(job.device,
        SourcePicture(src, job.leds, f % SourceFrames(src, job.leds)), inner)
      spec(fan) == ForFan(Specs(job.mode), fan)
  IN UNION {OnFan(job, fan, of(spec(fan).inner, TRUE) \cup of(spec(fan).outer, FALSE)) :
              fan \in 0 .. job.fans - 1}

\* The colours of a zone go to its LEDs in order; the others are black.
LedsPicture(job, assignments) ==
  LET colours(fan, inner) == IF inner THEN ForFan(assignments, fan).inner
                             ELSE ForFan(assignments, fan).outer
      leds(inner) == Indices(job.device, job.leds, inner)
      placed(fan, inner) ==
        {<<fan * job.leds + leds(inner)[i], colours(fan, inner)[i], 0>> :
           i \in 1 .. Smaller(Len(leds(inner)), Len(colours(fan, inner)))}
      lit == IF assignments = <<>> THEN {}
             ELSE UNION {placed(fan, TRUE) \cup placed(fan, FALSE) : fan \in 0 .. job.fans - 1}
  IN {m \in lit : m[2] # Black}

\* `frgb led`: one LED of each fan, addressed by its index (cmd_led).
OneLed(d, led, hue) ==
  LET slot == PerLedZoneOffset(d, led)
      zone(inner, size) == [i \in 1 .. size |->
        IF i = slot /\ IsInnerLed(d, led) = inner THEN hue ELSE Black]
  IN <<[inner |-> zone(TRUE, LedLayout(d).inner),
        outer |-> zone(FALSE, LedLayout(d).outer)]>>

\* The colours of an OpenRGB client, fan after fan (main.rs).
OpenRgbLeds(d, fans, colours) ==
  LET in == LedLayout(d).inner
      all == LedLayout(d).total
      ofFan(f) == SubSeq(colours, f * all + 1, Smaller((f + 1) * all, Len(colours)))
  IN [i \in 1 .. fans |->
        [inner |-> SubSeq(ofFan(i - 1), 1, Smaller(in, Len(ofFan(i - 1)))),
         outer |-> IF Len(ofFan(i - 1)) < in + LedLayout(d).outer THEN <<>>
                   ELSE SubSeq(ofFan(i - 1), in + 1, in + LedLayout(d).outer)]]

\* (mutant) the colours of a fan by the index of the LED, not by its zone.
ZoneColoursByIndex(d, zones, inner) ==
  LET size == IF inner THEN LedLayout(d).inner ELSE LedLayout(d).outer
      zone(i) == SubZone(d, IF inner THEN i - 1 ELSE LedLayout(d).inner + i - 1)
  IN [i \in 1 .. size |->
        IF zone(i) = None THEN Black ELSE IF zones[zone(i)] = None THEN Black ELSE zones[zone(i)]]

\* The colours of a fan by zone: in the order of the LEDs, those of the inner
\* zones apart from those of the outer ones, 0 (black) where none is asked for.
ZoneColours(d, zones, inner) ==
  LET mine == SelectSeq([i \in 1 .. LedLayout(d).total |-> SubZone(d, i - 1)],
                        LAMBDA z : z # None /\ (z \in InnerZones) = inner)
      size == IF inner THEN LedLayout(d).inner ELSE LedLayout(d).outer
  IN [i \in 1 .. size |->
        IF i > Len(mine) \/ zones[mine[Smaller(i, Len(mine))]] = None THEN Black
        ELSE zones[mine[i]]]

BufferPicture(job, f) ==
  CASE job.mode.kind = "perled" -> LedsPicture(job, job.mode.fans)
    [] job.mode.kind = "subzones" ->
         LedsPicture(job, <<[inner |-> ZoneColours(job.device, job.mode.zones, TRUE),
                             outer |-> ZoneColours(job.device, job.mode.zones, FALSE)]>>)
    [] OTHER -> ZonesPicture(job, f)

BufferFrames(job) ==
  IF job.mode.kind \in {"perled", "subzones"} THEN 1
  ELSE Max({SourceFrames(src, job.leds) : src \in Sources(job.mode)})

=============================================================================
