------------------------------ MODULE Effects ------------------------------
(* The light effects (frgb-rgb/src/effects): what each of them paints on the *)
(* LEDs of one fan, frame by frame.                                          *)
(*                                                                           *)
(* A fan is a ring of n LEDs, 0 .. n-1.  A picture is the set of the marks   *)
(* <<led, hue, shade>> painted in a frame; an LED without a mark is black.   *)
(* A hue names the colour (1 the colour asked for, 2 the effect's second     *)
(* colour, or a position on the colour wheel) and a shade the step of the    *)
(* fade, 0 where the effect does not fade.  Blending two colours on an LED   *)
(* leaves both marks on it.  Brightness scales every mark alike and is left  *)
(* out.  Rings have at least four LEDs: below that a tail is longer than the *)
(* ring and the subtractions wrap.                                           *)
EXTENDS Integers, FiniteSets

LOCAL INSTANCE FiniteSetsExt

CONSTANT Hash(_, _)       \* effect_hash: a byte for a frame and an LED

ASSUME HashAssumption == \A frame \in 0 .. 255, led \in 0 .. 127 : Hash(frame, led) \in 0 .. 255

Ring(n) == 0 .. n - 1
Larger(a, b) == IF a > b THEN a ELSE b
Smaller(a, b) == IF a < b THEN a ELSE b
Distance(a, b) == IF a > b THEN a - b ELSE b - a

\* 0, 1 .. max, max-1 .. 1 and again.
BouncePos(f, max) ==
  LET t == f % (2 * max) IN
  IF max = 0 THEN 0 ELSE IF t < max THEN t ELSE 2 * max - t

\* The place on the pattern that an LED shows after f turns.
Turned(n, led, f, ccw) ==
  (led + (IF ccw THEN n - (f % n) ELSE (f % n))) % n

\* LED i counted from the end the effect starts at.
FromStart(n, i, ccw) == IF ccw THEN n - 1 - i ELSE i

\* (mutant) the tail runs off the ring below LED 0.
CometUnwrapped(n, head, len, ccw, hue) ==
  {<<IF ccw THEN (head + t) % n ELSE head - t, hue, t>> : t \in 0 .. len - 1}

\* A head with its fading tail of len LEDs in all.
Comet(n, head, len, ccw, hue) ==
  {<<(head + (IF ccw THEN t ELSE n - t)) % n, hue, t>> : t \in 0 .. len - 1}

MeteorTailLen == 5

Whole(n, hue, shade) == Ring(n) \X {hue} \X {shade}
Leds(picture) == {m[1] : m \in picture}

-----------------------------------------------------------------------------
(* The whole fan in one colour.                                              *)

StaticColor(n) == Whole(n, 1, 0)

BreathingRamp(f) == IF f < 85 THEN f ELSE 169 - f
Breathing(n, f) == IF BreathingRamp(f) = 0 THEN {}
                   ELSE Whole(n, 1, (3 * BreathingRamp(f)) % 256)

\* Two beats of 24 frames and a rest of 48.
HeartBeatEnvelope(f) ==
  LET beat == IF f < 24
              THEN <<16, 32, 64, 128, 192, 255, 255, 255, 192, 128, 64, 32>>
              ELSE <<16, 32, 48, 96, 160, 224, 255, 224, 160, 96, 48, 32>>
  IN IF f < 48 /\ f % 24 < 12 THEN beat[(f % 24) + 1] ELSE 16
HeartBeat(n, f) == Whole(n, 1, HeartBeatEnvelope(f % 96))

\* The channels are moved by 3 a frame and saturate at 0 and 255.
MorphChannels(f) ==
  LET up(k) == Smaller(3 * k, 255)
      down(k) == Larger(255 - 3 * k, 0)
  IN IF f <= 85 THEN <<Larger(254 - 3 * f, 0), up(f), 0>>
     ELSE IF f <= 170 THEN <<0, down(f - 85), up(f - 85)>>
     ELSE <<up(f - 170), 0, down(f - 170)>>
RainbowMorph(n, f) ==
  LET c == MorphChannels(f)
  IN Whole(n, 65536 * c[1] + 256 * c[2] + c[3], 0)

\* Eight frames on, eight off.
Warning(n, f) == IF (f \div 8) % 2 = 0 THEN Whole(n, 1, 0) ELSE {}

\* A strong hit and a weak one in 32 frames, each with its decay.
Drumming(n, f) ==
  LET phase == f % 32
  IN IF phase < 8 \/ phase \in 16 .. 21 THEN Whole(n, 1, phase) ELSE {}

\* Brightest at the middle LED, in a rhythm of 30 frames.
PumpEnvelope(phase) ==
  IF phase < 4 THEN 64 * phase
  ELSE IF phase < 8 THEN 255 ELSE 255 - 12 * (phase - 8)
Pump(n, f) ==
  LET centre == n \div 2
      radial(led) == 255 - Smaller((Distance(led, centre) * 200) \div centre, 255)
      level(led) == (PumpEnvelope(f % 30) * radial(led)) \div 256
  IN {<<led, 1, level(led)>> : led \in {l \in Ring(n) : level(l) > 0}}

-----------------------------------------------------------------------------
(* A pattern that turns.                                                     *)

Rainbow(n, f, ccw) == {<<led, Turned(n, led, f, ccw), 0>> : led \in Ring(n)}

Taichi(n, f, ccw) ==
  {<<led, IF Turned(n, led, f, ccw) < n \div 2 THEN 1 ELSE 2, 0>> :
     led \in Ring(n)}

\* The shade stands for the sine of the place.
Tide(n, f, ccw) == {<<led, 1, Turned(n, led, f, ccw)>> : led \in Ring(n)}

ColorCycle(n, f, ccw) ==
  LET segment == Larger(n \div 6, 1)
  IN {<<led, 1, 0>> : led \in {l \in Ring(n) :
        Turned(n, l, f, ccw) % (2 * segment) < segment}}

Render(n, f, ccw) ==
  {<<led, 1, (Turned(n, led, f, ccw) * 255) \div n>> : led \in Ring(n)}

\* From the first colour (0) to the second (255) and back; the step is a byte.
RibbonStep(n, pos) ==
  LET half == n \div 2
  IN (((IF pos < half THEN pos ELSE n - pos) * 255) \div Larger(half, 1)) % 256
GradientRibbon(n, f, ccw) ==
  {<<led, 1, RibbonStep(n, Turned(n, led, f, ccw))>> : led \in Ring(n)}
River(n, f, ccw) == GradientRibbon(n, f, ccw)

CandyBox(n, f) ==
  {<<led, Turned(n, led, f, FALSE) \div Larger(n \div 6, 2), 0>> :
     led \in Ring(n)}

\* (mutant) the phase of a turn is not the one of the ring.
WaveDrift(n, f) == {<<led, 1, (120 * led + (n - 1) * f) % (120 * n)>> : led \in Ring(n)}

\* The shade stands for the phase of the sine, in 120 n-ths of a turn.
Wave(n, f) == {<<led, 1, (120 * led + n * f) % (120 * n)>> : led \in Ring(n)}

-----------------------------------------------------------------------------
(* Meteors and other heads with tails.                                       *)

Meteor(n, f, ccw) ==
  Comet(n, FromStart(n, (f % n), ccw), MeteorTailLen, ccw, 1)

MeteorRainbow(n, f, ccw) ==
  Comet(n, FromStart(n, (f % n), ccw), MeteorTailLen, ccw, (f % n))

Opposite(n, f, hue) == Comet(n, (f % n), MeteorTailLen, FALSE, 1)
                         \cup Comet(n, n - 1 - (f % n), MeteorTailLen, TRUE, hue)
DoubleMeteor(n, f) == Opposite(n, f, 1)
MeteorContest(n, f) == Opposite(n, f, 1)
MeteorMix(n, f) == Opposite(n, f, 2)

ColorfulMeteor(n, f, ccw) ==
  LET spacing == n \div 3
  IN UNION {Comet(n, FromStart(n, ((f % n) + m * spacing) % n, ccw), 4, ccw,
                 m * spacing) : m \in 0 .. 2}

MeteorShower(n, f) ==
  UNION {Comet(n, ((m * n) \div 3 + f * (m + 1)) % n, 5, FALSE, m) : m \in 0 .. 2}

TailChasing(n, f) ==
  Comet(n, (f % n), 4, FALSE, 1) \cup Comet(n, (f + n - n \div 3) % n, 4, FALSE, 2)

Racing(n, f) ==
  LET segment(head, hue) == {<<(head + n - s) % n, hue, 0>> : s \in 0 .. 3}
  IN segment((f % n), 1) \cup segment((2 * f) % n, 2)

Pioneer(n, f, ccw) ==
  Comet(n, FromStart(n, (f % n), ccw), n \div 2 + 1, ccw, 1)

\* In both directions the stream trails towards the lower LEDs.
Endless(n, f, ccw) ==
  Comet(n, FromStart(n, (f % n), ccw), (2 * n) \div 3, FALSE, 1)

\* A pulse with gaps where the hash is low.
ElectricCurrent(n, f, ccw) ==
  {m \in Comet(n, FromStart(n, (f % n), ccw), Larger(n \div 3, 3), FALSE, 1) :
     Hash(f + m[3], m[1]) > 80}

-----------------------------------------------------------------------------
(* Sweeps and arcs.                                                          *)

Arc(n, pos, width, ccw, hue, shaded) ==
  {<<FromStart(n, Smaller(pos + i, n - 1), ccw), hue, IF shaded THEN i ELSE 0>> :
     i \in 0 .. width - 1}

Boomerang(n, f, ccw) ==
  LET width == Larger(n \div 6, 2)
  IN Arc(n, BouncePos(f, n - width), width, ccw, 1, TRUE)

ReturnArc(n, f, ccw) ==
  LET width == Larger(n \div 4, 2)
  IN Arc(n, BouncePos(f, n - width), width, ccw, 1, FALSE)

DoubleArc(n, f) ==
  LET width == Larger(n \div 6, 2)
      pos == BouncePos(f, n - width)
  IN Arc(n, pos, width, FALSE, 1, FALSE) \cup Arc(n, pos, width, TRUE, 2, FALSE)

\* The visited LEDs stay on, dimmed (40).
ShuttleRun(n, f) ==
  LET width == Larger(n \div 6, 2)
      bar == Arc(n, BouncePos(f, n - width), width, FALSE, 1, FALSE)
  IN bar \cup {<<i, 1, 40>> : i \in (0 .. Smaller(f, n) - 1) \ Leds(bar)}

Runway(n, f, ccw) ==
  {<<FromStart(n, i, ccw), 1, (f % n) - 1 - i>> : i \in 0 .. (f % n) - 1}

MopUp(n, f, ccw) ==
  {<<FromStart(n, i, ccw), 1, 0>> :
     i \in 0 .. (IF f < n THEN f ELSE n - (f - n) - 2)}

\* The bar is placed from its first LED in both directions.
Scan(n, f, ccw) ==
  LET width == Larger(n \div 4, 2)
      pos == FromStart(n, IF f < n THEN f ELSE 2 * n - f - 1, ccw)
      dist(i) == IF i < width \div 2 THEN i ELSE width - 1 - i
  IN {<<pos + i, 1, dist(i)>> : i \in 0 .. Smaller(width, n - pos) - 1}

\* The pulses of the heart, 0 where it pauses.
Pulse == <<0, 40, 100, 200, 254, 200, 100, 40, 0, 0, 0, 0,
           0, 30, 80, 160, 200, 160, 80, 30, 0, 0, 0, 0,
           0, 0, 0, 0, 0, 0, 0, 0>>
HeartBeatRunway(n, f, ccw) ==
  LET front == (f \div 2) % n
      fade(i) == IF front = 0 THEN 255 ELSE 128 + (i * 127) \div front
  IN IF Pulse[(f % 32) + 1] = 0 THEN {}
     ELSE {<<FromStart(n, i, ccw), 1, (Pulse[(f % 32) + 1] * fade(i)) \div 256>> :
             i \in 0 .. front}

PingPong(n, f) ==
  LET pos == BouncePos(f, n - 1)
  IN {<<led, 1, Distance(led, pos)>> :
        led \in {l \in Ring(n) : Distance(l, pos) <= 3}}

\* The trail is on the side the ball comes from.
Bounce(n, f) ==
  LET pos == BouncePos(f, n - 1)
      behind(t) == IF f % (2 * (n - 1)) < n - 1 THEN pos - t ELSE pos + t
  IN {<<behind(t), 1, t>> : t \in {s \in 0 .. 4 : behind(s) \in Ring(n)}}

Snooker(n, f) ==
  LET a == BouncePos(f, n - 1)
      b == BouncePos(f + n - 1, n - 1)
  IN {<<a - t, 1, t>> : t \in 0 .. Smaller(a, 2)}
       \cup {<<Smaller(b + t, n - 1), 2, t>> : t \in 0 .. 2}

-----------------------------------------------------------------------------
(* From the middle, from both ends, and halves.                              *)

Ripple(n, f) ==
  LET age(led) == (f % n) - Distance(led, n \div 2)
  IN {<<led, 1, age(led)>> : led \in {l \in Ring(n) : age(l) \in 0 .. 2}}

Reflect(n, f) ==
  LET half == n \div 2
  IN {m \in UNION {{<<half + i, 1, i>>, <<half - i, 1, i>>} :
                     i \in 0 .. BouncePos(f, half)} : m[1] \in Ring(n)}

Wing(n, f) ==
  LET half == n \div 2
  IN UNION {{<<(half + i) % n, 1, i>>, <<half - i, 1, i>>} :
              i \in 0 .. BouncePos(f, half)}

Door(n, f) ==
  LET half == n \div 2
      gap == BouncePos(f, half)
  IN ((0 .. half - gap - 1) \cup (half + gap .. n - 1)) \X {1} \X {0}

Hourglass(n, f) ==
  (((f % n) .. n - 1) \cup (n - (f % n) .. n - 1)) \X {1} \X {0}

Mixing(n, f, ccw) ==
  LET pos == (f % n)
  IN {<<FromStart(n, i, ccw), 1, 0>> : i \in 0 .. pos}
       \cup {<<FromStart(n, i, ccw), 2, 0>> : i \in n - pos - 1 .. n - 1}

\* Two colours approach, then the whole ring flashes and fades.
Collide(n, f) ==
  LET half == n \div 2
      step == f % (half + Smaller(8, n))
  IN IF step < half
     THEN ((0 .. step) \X {1} \X {0})
            \cup ((n - 1 - step .. n - 1) \X {2} \X {0})
     ELSE Whole(n, 3, step - half)

Duel(n, f) ==
  LET half == n \div 2
      swing == half \div 3
      boundary == half - swing \div 2 + BouncePos(f, swing)
  IN {<<led, IF led < boundary THEN 1 ELSE 2, 0>> : led \in Ring(n)}

Intertwine(n, f) ==
  LET half == n \div 2
      arc(start, hue) == {<<(start + i) % n, hue, 0>> : i \in 0 .. half - 1}
  IN arc((f % n), 1) \cup arc((half + n - (f % n)) % n, 2)

\* Four quadrants, every other one mirrored; the LEDs left over stay black.
KaleidoscopeFrames == 120
Kaleidoscope(n, f) ==
  LET quadrant == n \div 4
  IN UNION {{i, 2 * quadrant - 1 - i, 2 * quadrant + i, 4 * quadrant - 1 - i}
              \X {(i + f) % KaleidoscopeFrames} \X {0} : i \in 0 .. quadrant - 1}

-----------------------------------------------------------------------------
(* Fills.                                                                    *)

\* One hue after the other fills the ring, over the one before.
CoverCycle(n, f) ==
  LET pass == f \div n
      filled == 0 .. (f % n)
  IN (filled \X {pass} \X {0})
       \cup (IF pass > 0 THEN (Ring(n) \ filled) \X {pass - 1} \X {0} ELSE {})

Paint(n, f) ==
  LET pass == Smaller(f \div (n + 20), 3)
      filled == 0 .. Smaller(f - pass * (n + 20), n) - 1
  IN (filled \X {pass} \X {0})
       \cup (IF pass > 0 THEN (Ring(n) \ filled) \X {pass - 1} \X {0} ELSE {})

\* Four explosions from the middle, each followed by a fade of 20 frames.
BlowUp(n, f) ==
  LET half == n \div 2
      cycle == Smaller(f \div (half + 20), 3)
      step == f - cycle * (half + 20)
  IN IF step < half
     THEN UNION {{<<(half + r) % n, cycle, 0>>, <<(half + n - r) % n, cycle, 0>>} :
                   r \in 0 .. step}
     ELSE Whole(n, cycle, step - half)

\* Drop d falls for n-d frames on the d blocks that lie at the other end.
StackStart(n, d) == d * n - (d * (d - 1)) \div 2
Stack(n, f, ccw) ==
  IF f >= StackStart(n, n) THEN Whole(n, 1, 0)
  ELSE LET d == CHOOSE k \in 0 .. n - 1 :
                  f \in StackStart(n, k) .. StackStart(n, k + 1) - 1
       IN {<<FromStart(n, n - 1 - s, ccw), 1, 0>> : s \in 0 .. d - 1}
            \cup {<<FromStart(n, f - StackStart(n, d), ccw), 1, 0>>}

-----------------------------------------------------------------------------
(* Segments and sparkles.                                                    *)

Staggered(n, f, ccw) ==
  LET size == Larger(n \div 4, 2)
      count == n \div size
      phase(s) == (f + 3 * s) % (4 * count)
      start(s) == IF ccw THEN n - size - s * size ELSE s * size
  IN UNION {{<<(start(s) + i) % n, 1, phase(s)>> : i \in 0 .. size - 1} :
              s \in {k \in 0 .. count - 1 : phase(k) < count}}

Lottery(n, f) ==
  LET size == Larger(n \div 6, 2)
      active == Hash(f, 0) % (n \div size)
  IN {<<(active * size + i) % n, Hash(f, 42), 0>> : i \in 0 .. size - 1}

Disco(n, f) ==
  {<<led, Hash(7 * f, 13 * led), 0>> : led \in {l \in Ring(n) : Hash(f, l) > 100}}

\* An LED lights when its hash is low and fades over eight frames.
Twinkle(n, f) ==
  LET ages(led) == {a \in 0 .. Smaller(7, f) : Hash(f - a, led) < 12}
  IN {<<led, 1, Min(ages(led))>> : led \in {l \in Ring(n) : ages(l) # {}}}

-----------------------------------------------------------------------------
(* The table of the effects.                                                 *)

\* The frames of the animation, which the fan repeats.
FrameCount(e, n) ==
  CASE e = "StaticColor" -> 30
    [] e = "Breathing" -> 170
    [] e \in {"HeartBeat", "Drumming"} -> 96
    [] e = "RainbowMorph" -> 255
    [] e = "Warning" -> 64
    [] e \in {"Twinkle", "Pump", "Disco", "Wave"} -> 120
    [] e = "Kaleidoscope" -> KaleidoscopeFrames
    [] e \in {"Lottery", "MeteorShower"} -> 180
    [] e \in {"Snooker", "Racing"} -> 200
    [] e \in {"Rainbow", "Taichi"} -> n
    [] e \in {"Runway", "Scan", "Render", "CandyBox", "Wing", "GradientRibbon",
              "Boomerang", "DoubleArc", "MopUp", "ReturnArc", "Reflect", "Door",
              "Hourglass", "Collide", "Intertwine"} -> 2 * n
    [] e \in {"ColorCycle", "Mixing", "Meteor", "MeteorRainbow", "MeteorContest",
              "MeteorMix", "DoubleMeteor", "ColorfulMeteor", "ShuttleRun",
              "ElectricCurrent", "Endless", "River", "Pioneer", "Staggered",
              "TailChasing"} -> 3 * n
    [] e \in {"Tide", "Ripple", "PingPong", "Bounce", "HeartBeatRunway",
              "Duel"} -> 4 * n
    [] e = "Stack" -> StackStart(n, n) + n
    [] e = "BlowUp" -> 4 * (n \div 2 + 20)
    [] e = "CoverCycle" -> 6 * n
    [] e = "Paint" -> 4 * n + 80
    [] OTHER -> 1

\* Effects painted differently in the two directions.
Directed == {"Rainbow", "Taichi", "Tide", "ColorCycle", "Render", "GradientRibbon",
             "River", "Meteor", "MeteorRainbow", "ColorfulMeteor", "Pioneer",
             "Endless", "ElectricCurrent", "Boomerang", "ReturnArc", "Runway",
             "MopUp", "Scan", "HeartBeatRunway", "Mixing", "Stack", "Staggered"}

Undirected == {"StaticColor", "Breathing", "HeartBeat", "RainbowMorph", "Warning",
               "Drumming", "Pump", "CandyBox", "Wave", "DoubleMeteor",
               "MeteorContest", "MeteorMix", "MeteorShower", "TailChasing",
               "Racing", "DoubleArc", "ShuttleRun", "PingPong", "Bounce",
               "Snooker", "Ripple", "Reflect", "Wing", "Door", "Hourglass",
               "Collide", "Duel", "Intertwine", "Kaleidoscope", "CoverCycle",
               "Paint", "BlowUp", "Lottery", "Disco", "Twinkle"}

EffectNames == Directed \cup Undirected \cup {"Voice"}

DirectedPicture(e, n, f, ccw) ==
  CASE e = "Rainbow" -> Rainbow(n, f, ccw)
    [] e = "Taichi" -> Taichi(n, f, ccw)
    [] e = "Tide" -> Tide(n, f, ccw)
    [] e = "ColorCycle" -> ColorCycle(n, f, ccw)
    [] e = "Render" -> Render(n, f, ccw)
    [] e = "GradientRibbon" -> GradientRibbon(n, f, ccw)
    [] e = "River" -> River(n, f, ccw)
    [] e = "Meteor" -> Meteor(n, f, ccw)
    [] e = "MeteorRainbow" -> MeteorRainbow(n, f, ccw)
    [] e = "ColorfulMeteor" -> ColorfulMeteor(n, f, ccw)
    [] e = "Pioneer" -> Pioneer(n, f, ccw)
    [] e = "Endless" -> Endless(n, f, ccw)
    [] e = "ElectricCurrent" -> ElectricCurrent(n, f, ccw)
    [] e = "Boomerang" -> Boomerang(n, f, ccw)
    [] e = "ReturnArc" -> ReturnArc(n, f, ccw)
    [] e = "Runway" -> Runway(n, f, ccw)
    [] e = "MopUp" -> MopUp(n, f, ccw)
    [] e = "Scan" -> Scan(n, f, ccw)
    [] e = "HeartBeatRunway" -> HeartBeatRunway(n, f, ccw)
    [] e = "Mixing" -> Mixing(n, f, ccw)
    [] e = "Stack" -> Stack(n, f, ccw)
    [] e = "Staggered" -> Staggered(n, f, ccw)

UndirectedPicture(e, n, f) ==
  CASE e = "StaticColor" -> StaticColor(n)
    [] e = "Breathing" -> Breathing(n, f)
    [] e = "HeartBeat" -> HeartBeat(n, f)
    [] e = "RainbowMorph" -> RainbowMorph(n, f)
    [] e = "Warning" -> Warning(n, f)
    [] e = "Drumming" -> Drumming(n, f)
    [] e = "Pump" -> Pump(n, f)
    [] e = "CandyBox" -> CandyBox(n, f)
    [] e = "Wave" -> Wave(n, f)
    [] e = "DoubleMeteor" -> DoubleMeteor(n, f)
    [] e = "MeteorContest" -> MeteorContest(n, f)
    [] e = "MeteorMix" -> MeteorMix(n, f)
    [] e = "MeteorShower" -> MeteorShower(n, f)
    [] e = "TailChasing" -> TailChasing(n, f)
    [] e = "Racing" -> Racing(n, f)
    [] e = "DoubleArc" -> DoubleArc(n, f)
    [] e = "ShuttleRun" -> ShuttleRun(n, f)
    [] e = "PingPong" -> PingPong(n, f)
    [] e = "Bounce" -> Bounce(n, f)
    [] e = "Snooker" -> Snooker(n, f)
    [] e = "Ripple" -> Ripple(n, f)
    [] e = "Reflect" -> Reflect(n, f)
    [] e = "Wing" -> Wing(n, f)
    [] e = "Door" -> Door(n, f)
    [] e = "Hourglass" -> Hourglass(n, f)
    [] e = "Collide" -> Collide(n, f)
    [] e = "Duel" -> Duel(n, f)
    [] e = "Intertwine" -> Intertwine(n, f)
    [] e = "Kaleidoscope" -> Kaleidoscope(n, f)
    [] e = "CoverCycle" -> CoverCycle(n, f)
    [] e = "Paint" -> Paint(n, f)
    [] e = "BlowUp" -> BlowUp(n, f)
    [] e = "Lottery" -> Lottery(n, f)
    [] e = "Disco" -> Disco(n, f)
    [] e = "Twinkle" -> Twinkle(n, f)

\* Voice has no generator: one black frame.
Picture(e, n, f, ccw) ==
  IF e \in Directed THEN DirectedPicture(e, n, f, ccw)
  ELSE IF e \in Undirected THEN UndirectedPicture(e, n, f) ELSE {}
=============================================================================
