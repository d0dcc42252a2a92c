---------------------------- MODULE MCRgbUpload ----------------------------
(* Constants of the run of LightPages, over RgbUpload. *)
EXTENDS LightPages

\* A byte with no pattern that an effect could lean on.
MCHash(a, b) == (a * 73 + b * 151 + ((a * b) % 97) * 31 + (a \div 7) * 11) % 256

\* Two buckets are one where only the symbol in the middle differs.
MCTrigram(a, b, c) == <<a, c>>

Color(hue) == [kind |-> "color", hue |-> hue]
Play(e, ccw) == [kind |-> "effect", effect |-> e, ccw |-> ccw, speed |-> 3]
Job(d, leds, fans, mode) == [device |-> d, leds |-> leds, fans |-> fans, mode |-> mode]
OnRing(ring, src) == [kind |-> "ring", ring |-> ring, source |-> src]
Leds3(hues) == [kind |-> "perled", fans |-> <<[inner |-> hues, outer |-> <<>>]>>]

\* Every effect in both directions on a short ring and on those of the CL, TL
\* and SL-INF fans.
EffectJobs ==
  {Job("Cl", n, 1, OnRing("both", Play(e, ccw))) :
     n \in {8, 24, 26, 44}, e \in EffectNames, ccw \in BOOLEAN}

\* Two fans, two sources each; a zone that loops within a longer one.
ZoneJobs ==
  {Job(d, n, 2, m) :
     d \in {"Tl", "Sl"}, n \in {40},
     m \in {[kind |-> "composed", specs |-> <<[inner |-> Color(1), outer |-> Off]>>],
            [kind |-> "composed", specs |-> <<[inner |-> Play("Taichi", FALSE), outer |-> Color(2)],
                                              [inner |-> Color(1), outer |-> Play("Warning", FALSE)]>>],
            [kind |-> "composed", specs |-> <<>>],
            [kind |-> "perfan", fans |-> <<[inner |-> 1, outer |-> None], [inner |-> 2, outer |-> 3]>>],
            OnRing("inner", Color(3)), OnRing("outer", Color(3)),
            [kind |-> "off"], [kind |-> "temp"]}}

SubZoneJobs ==
  {Job(d, 40, 2, [kind |-> "subzones", zones |-> z]) :
     d \in {"Tl", "Sl", "Cl"},
     z \in [SubZones -> {None, 1}] \cup {[InnerTop |-> 1, InnerMiddle |-> 2, InnerBottom |-> 3,
                                          OuterTop |-> 4, OuterMiddle |-> 5, OuterBottom |-> 6]}}

\* Every short buffer of two colours.
BufferJobs == {Job("Strip", 12, 1, Leds3(hues)) : hues \in [1 .. 12 -> {1, 2}]}
\* Three colours.
MoreBufferJobs == {Job("Strip", 7, 1, Leds3(hues)) : hues \in [1 .. 7 -> {1, 2, 3}]}

RefusedJobs == {Job("Tl", 26, 1, OnRing("both", Play("Taichi", FALSE)))} \cup {Job("Cl", 0, 1, [kind |-> "off"]), Job("Cl", 24, 0, [kind |-> "off"])}

\* `frgb led` on fans and on a strip, OpenRGB on two fans.
LedJobs ==
  {Job(d, LedLayout(d).total, 2,
       [kind |-> "perled", fans |-> OneLed(d, led, 1)]) :
     d \in {"Tl", "Cl"}, led \in 0 .. 23}
OpenRgbJobs ==
  {Job("Cl", 24, 2, [kind |-> "perled", index |-> None,
                     fans |-> OpenRgbLeds("Cl", 2, [i \in 1 .. n |-> 1 + (i % 3)])]) :
     n \in {0, 5, 24, 30, 48}}

\* An LED of each zone and fan is given a colour; a ring a colour, an effect or
\* nothing; the zone tab one fan's colours.
MCPageJobs ==
  {j \in ZoneJobs : j.device = "Sl"} \cup {Job("Tl", 26, 1, OnRing("both", Play("Taichi", ccw))) : ccw \in {FALSE}}
    \cup {Job(d, 40, 2, [kind |-> "subzones", zones |-> [z \in SubZones |-> IF z = "InnerTop" THEN 1 ELSE None]]) : d \in {"Tl"}}
MCEdits == {[fan |-> f, inner |-> z, index |-> i, hue |-> 5] : f \in 0 .. 1, z \in BOOLEAN, i \in {6}}
             \cup {[fan |-> 1, inner |-> FALSE, index |-> 0, hue |-> Black]}
MCPicks == {Off, Color(6), Play("Taichi", FALSE)}
MCZonePicks == {[f \in 1 .. 2 |-> IF f = 1 THEN [inner |-> 7, outer |-> 8] ELSE None]}

MCJobs == EffectJobs \cup ZoneJobs \cup SubZoneJobs \cup BufferJobs \cup MoreBufferJobs
            \cup RefusedJobs \cup LedJobs \cup OpenRgbJobs
=============================================================================
