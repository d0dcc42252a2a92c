------------------------------ MODULE RgbUpload ------------------------------
(* A light mode on its way to a fan group: System::set_rgb composes it into  *)
(* frames (RgbCompose, from the effects of Effects), the frames are laid out *)
(* as one buffer, compressed (TuzCodec), and decompressed in the fans, which *)
(* then play the frames over and over.                                       *)
(*                                                                           *)
(* A symbol of the buffer is the colour of an LED.  Only buffers of at most  *)
(* MaxSymbols symbols are followed through the codec.                        *)
EXTENDS RgbCompose, TuzCodec

CONSTANTS
  Jobs,        \* the requests: [device, leds (per fan), fans, mode]
  MaxSymbols   \* bound on the buffers that are compressed

ASSUME UploadAssumption == MaxSymbols \in Nat
ASSUME JobsAssumption ==
  \A j \in Jobs : /\ j.leds \in Nat /\ j.fans \in Nat
                  /\ j = [device |-> j.device, leds |-> j.leds, fans |-> j.fans, mode |-> j.mode]

\* No shorter than a tail needs: virtual_leds of the devices are 24 to 96.
RingSize(n) == n >= 4

\* A mode of sources is made of sources, and the list of its fans is a list.
SourceKinds == {"off", "color", "effect"}
ZonedKinds == {"ring", "composed"}
MadeOfSources(mode) ==
  /\ mode.kind \in ZonedKinds => \A src \in Sources(mode) : src.kind \in SourceKinds
  /\ mode.kind = "composed" => mode.specs = <<>> \/ 1 \in DOMAIN mode.specs

ASSUME RingsAssumption ==
  \A j \in Jobs : /\ MadeOfSources(j.mode)
                  /\ j.mode.kind \in ZonedKinds => j.leds = 0 \/ RingSize(j.leds)

VARIABLES
  job,
  stage,       \* what happens next
  frame,       \* frames drawn
  picture,     \* the last frame drawn
  data,        \* the buffer, LED after LED and frame after frame
  pos, run,    \* symbols matched or passed over, and of these the last not yet written
  enc,         \* the encoder
  read, dec    \* tokens the fans have read, and their decoder

vars == <<job, stage, frame, picture, data, pos, run, enc, read, dec>>

drawing == <<frame, picture, data>>
encoding == <<pos, run, enc>>
decoding == <<read, dec>>

AllLeds == 0 .. job.leds * job.fans - 1
Followed == BufferFrames(job) * job.leds * job.fans <= MaxSymbols

\* The colour of an LED, the marks on it.
Shown(pic, led) == {<<m[2], m[3]>> : m \in {k \in pic : k[1] = led}}
Flattened(pic) == [i \in 1 .. job.leds * job.fans |-> Shown(pic, i - 1)]

Init ==
  /\ job \in Jobs
  /\ stage = "asked"
  /\ frame = 0 /\ picture = {} /\ data = <<>>
  /\ pos = 0 /\ run = 0 /\ enc = FreshEncoder
  /\ read = 0 /\ dec = FreshDecoder

-----------------------------------------------------------------------------
(* set_rgb.                                                                  *)

\* A device without LEDs takes no mode, and says so to nobody.
Ignore ==
  /\ stage = "asked" /\ job.leds = 0
  /\ stage' = "ignored"
  /\ UNCHANGED <<job, drawing, encoding, decoding>>

Refuse ==
  /\ stage = "asked" /\ job.leds > 0 /\ Refused(job)
  /\ stage' = "refused"
  /\ UNCHANGED <<job, drawing, encoding, decoding>>

Compose ==
  /\ stage = "asked" /\ job.leds > 0 /\ ~Refused(job)
  /\ stage' = "drawing"
  /\ UNCHANGED <<job, drawing, encoding, decoding>>

DrawFrame ==
  /\ stage = "drawing"
  /\ LET pic == BufferPicture(job, frame) IN
     /\ picture' = pic
     /\ data' = IF Followed THEN data \o Flattened(pic) ELSE data
  /\ frame' = frame + 1
  /\ stage' = IF frame + 1 < BufferFrames(job) THEN "drawing"
              ELSE IF Followed THEN "encoding" ELSE "drawn"
  /\ UNCHANGED <<job, encoding, decoding>>

-----------------------------------------------------------------------------
(* tuz_compress.                                                             *)

Pending == SubSeq(data, pos - run + 1, pos)

PassLiteral ==
  /\ stage = "encoding" /\ pos < Len(data)
  /\ ~Usable(BestMatch(data, pos))
  /\ pos' = pos + 1 /\ run' = run + 1
  /\ UNCHANGED <<job, stage, enc, drawing, decoding>>

WriteMatch ==
  /\ stage = "encoding" /\ pos < Len(data)
  /\ LET m == BestMatch(data, pos) IN
     /\ Usable(m)
     /\ enc' = OutDict(OutData(enc, Pending), m)
     /\ pos' = pos + m.len
  /\ run' = 0
  /\ UNCHANGED <<job, stage, drawing, decoding>>

\* The header is patched with the longest distance used.
FinishStream ==
  /\ stage = "encoding" /\ pos = Len(data)
  /\ enc' = OutEnd(OutData(enc, Pending))
  /\ run' = 0
  /\ stage' = "decoding"
  /\ UNCHANGED <<job, pos, drawing, decoding>>

-----------------------------------------------------------------------------
(* The fans.                                                                 *)

ReadToken ==
  /\ stage = "decoding"
  /\ dec' = Decode(dec, enc.stream[read + 1], enc.dictMax)
  /\ read' = read + 1
  /\ stage' = IF dec'.status \in {"ended", "garbled"} \/ read' = Len(enc.stream)
              THEN "played" ELSE "decoding"
  /\ UNCHANGED <<job, drawing, encoding>>

Next == \/ Ignore \/ Refuse \/ Compose \/ DrawFrame
        \/ PassLiteral \/ WriteMatch \/ FinishStream \/ ReadToken

Spec == Init /\ [][Next]_vars

-----------------------------------------------------------------------------
(* Properties.                                                               *)

Stages == {"asked", "ignored", "refused", "drawing", "drawn", "encoding",
           "decoding", "played"}

\* The pipeline stays in its shape: the buffer holds the frames drawn, and the
\* encoder holds back at most what it has read.
TypeOK ==
  /\ stage \in Stages
  /\ frame \in Nat /\ Leds(picture) \subseteq AllLeds
  /\ Len(data) \in {0, frame * job.leds * job.fans}
  /\ pos \in 0 .. Len(data) /\ run \in 0 .. pos
  /\ enc.posBack \in 1 .. DictSize /\ enc.dictMax \in 1 .. DictSize
  /\ read \in 0 .. Len(enc.stream)
  /\ dec.status \in {"reading", "line", "ended", "garbled"}

Effect(src) == src.kind = "effect"
EffectsShown == {src \in Sources(job.mode) : Effect(src)}
Zoned == job.mode.kind \in ZonedKinds

\* No effect writes an LED outside the fan: set_led (buffer.rs) would end the
\* daemon.  The arithmetic of each effect has to keep heads, tails, mirrored
\* arcs and trails on the ring at every frame and in both directions.
WritesOnTheFan ==
  stage = "drawing" /\ Zoned =>
    \A src \in Sources(job.mode) :
      Leds(SourcePicture(src, job.leds, frame % SourceFrames(src, job.leds)))
        \subseteq Ring(job.leds)

\* The effects whose last frame leads back to the first.
Looping == {"StaticColor", "HeartBeat", "Warning", "Drumming", "Pump", "Rainbow",
            "Taichi", "Tide", "ColorCycle", "Render", "GradientRibbon", "River",
            "CandyBox", "Wave", "Meteor", "MeteorRainbow", "DoubleMeteor",
            "MeteorContest", "MeteorMix", "ColorfulMeteor", "TailChasing", "Pioneer",
            "Endless", "Runway", "Ripple", "Hourglass", "Mixing", "Intertwine",
            "Kaleidoscope", "HeartBeatRunway"}

\* The pulse of HeartBeatRunway starts again every 32 frames, the effect ends
\* after four times as many frames as there are LEDs: on 44 LEDs (SL-INF) that is
\* within a beat.
EndsInBeat(e, n) == e = "HeartBeatRunway" /\ n % 8 \in {1, 4}

\* The fans repeat the frames, so an effect that turns or pulses without an end
\* has to stop counting frames where its pattern is back at the start: the frame
\* after the last (frame_count of the effect) is the first one.  So it is but for
\* the one that ends in the middle of a beat.
LoopsSeamlessly ==
  stage = "drawing" /\ frame = 0 /\ Zoned =>
    \A src \in EffectsShown :
      src.effect \in Looping /\ ~EndsInBeat(src.effect, job.leds) =>
        SourcePicture(src, job.leds, SourceFrames(src, job.leds))
          = SourcePicture(src, job.leds, 0)

\* What LED i of a fan is asked to show, by the mode alone.
Asked(fan, led) ==
  LET inner == IsInnerLed(job.device, led)
      zone == SubZone(job.device, led)
      spec == ForFan(Specs(job.mode), fan)
      src == IF inner THEN spec.inner ELSE spec.outer
  IN CASE job.mode.kind = "subzones" ->
            IF zone = None THEN {}
            ELSE IF job.mode.zones[zone] = None THEN {} ELSE {<<job.mode.zones[zone], 0>>}
       [] job.mode.kind \in {"off", "perfan", "composed", "ring"} ->
            IF src.kind = "color" THEN {<<src.hue, 0>>} ELSE {}

\* Each LED shows what its own zone of its own fan is asked for: the zones are
\* found once by sub_zone and once by is_inner_led and the order of the LEDs, and
\* the two have to agree on every LED.
ZonesShown ==
  stage \in {"drawing", "drawn", "encoding"} /\ frame > 0
    /\ job.mode.kind \in {"off", "perfan", "composed", "ring", "subzones"} =>
    \A fan \in 0 .. job.fans - 1, led \in Ring(job.leds) :
      (Zoned => EffectsShown = {}) =>
        Shown(picture, fan * job.leds + led) = Asked(fan, led)

\* The fans play what was drawn: the decoder, which shares no state with the
\* encoder but the tokens and the window in the header, never reads a token
\* otherwise than it was written, and ends with the very buffer.
DecodesBack ==
  /\ dec.status # "garbled"
  /\ stage = "played" => dec.status = "ended" /\ dec.out = data

=============================================================================
