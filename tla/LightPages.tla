----------------------------- MODULE LightPages -----------------------------
(* The two light pages of the graphical interface (frgb-gui/src/pages: the   *)
(* LED editor, led.rs, and the ring page, rgb.rs) over the composition: what *)
(* a page holds of a group, how it follows the daemon, and the modes it      *)
(* sends, which RgbUpload composes for the fans.                             *)
(*                                                                           *)
(* One group is followed, and the user acts when the daemon has finished     *)
(* with the last mode; what a page is told may come at any time and late.    *)
EXTENDS RgbUpload

CONSTANTS
  Edits,       \* what the user may do to an LED: [fan, inner, index, hue]
  Picks,       \* what the user may choose on the ring page: sources
  ZonePicks,   \* ... and on the zone tab: by fan, [inner, outer] or None
  DefaultHue,  \* the zone tab's colour where nothing was picked
  PageJobs,    \* the jobs after which a window is open
  MaxEdits     \* bound on the changes made on the pages

ASSUME PagesAssumption == MaxEdits \in Nat /\ PageJobs \subseteq Jobs
ASSUME PageRingsAssumption ==
  /\ \A j \in PageJobs : j.leds = 0 \/ RingSize(j.leds)
  /\ \A src \in Picks : src.kind \in SourceKinds

VARIABLES
  current, \* Device::state.rgb: the last mode taken, None before
  colors,  \* PerLedState.colors: by fan (from 1), the colours of its zones
  means,   \* history: by LED, the marks that colors stands for; None where the
           \* editor reads the mode otherwise than it was composed
  preset,  \* the saved LED preset, with its meaning, or None
  rings,   \* SavedRgbState: [ring, inner, outer]
  ui,      \* the controls of the ring page: [ring, source]
  wanted,  \* history: by LED, the marks the last page that sent a mode showed
  open,    \* whether there is a window
  edits    \* changes made

editor == <<colors, means, preset>>
ringPage == <<rings, ui>>
pages == <<current, editor, ringPage, wanted, open, edits>>
pageVars == <<vars, pages>>

-----------------------------------------------------------------------------
(* What the pages make of a mode.                                            *)

Listed(hue, n) == [i \in 1 .. n |-> hue]
Painted(in, out) ==
  [inner |-> Listed(in, LedLayout(job.device).inner),
   outer |-> Listed(out, LedLayout(job.device).outer)]

\* Vec::resize with black.
Resized(hues, n) == [i \in 1 .. n |-> IF i <= Len(hues) THEN hues[i] ELSE Black]
Fitted(fan) ==
  [inner |-> Resized(fan.inner, LedLayout(job.device).inner),
   outer |-> Resized(fan.outer, LedLayout(job.device).outer)]

ZoneToColor(src) == IF src.kind = "color" THEN src.hue ELSE Black
OrBlack(hue) == IF hue = None THEN Black ELSE hue

\* sync_mode_into, for one fan: an effect leaves the colours as they are.
SyncedFan(m, fan) ==
  CASE m.kind = "off" -> Painted(Black, Black)
    [] m.kind = "ring" /\ m.source.kind = "color" -> Painted(m.source.hue, m.source.hue)
    [] m.kind = "composed" ->
         LET s == ForFan(m.specs, fan - 1) IN Painted(ZoneToColor(s.inner), ZoneToColor(s.outer))
    [] m.kind = "perfan" ->
         LET a == ForFan(m.fans, fan - 1) IN Painted(OrBlack(a.inner), OrBlack(a.outer))
    [] m.kind = "perled" ->
         IF m.fans = <<>> THEN Painted(Black, Black) ELSE Fitted(ForFan(m.fans, fan - 1))
    [] OTHER -> colors[fan]

\* The LEDs a fan has, where its row in the buffer may be longer.
OnFans ==
  {fan * job.leds + led : fan \in 0 .. job.fans - 1,
                          led \in Ring(Smaller(job.leds, LedLayout(job.device).total))}

\* The modes that the editor leaves alone, and those it takes for another: a
\* colour on one ring for both, an effect in a zone for black.
Skipped(m) == m.kind \in {"subzones", "temp"} \/ (m.kind = "ring" /\ m.source.kind = "effect")
Misread(m) ==
  \/ m.kind = "ring" /\ m.ring # "both"
  \/ m.kind = "composed" /\ \E src \in Sources(m) : src.kind = "effect"

\* What the editor's colours stand for when it has read m.
Meaning(m) ==
  IF Skipped(m) THEN means
  ELSE IF Misread(m) THEN None
  ELSE LET pic == BufferPicture([job EXCEPT !.mode = m], 0)
       IN [led \in OnFans |-> Shown(pic, led)]

\* RingSettings of a mode that another tab edits: built as off.
Elsewhere == [kind |-> "elsewhere"]

\* state_from_rgb_mode: of composed fans, the first.
RingsOf(m) ==
  LET page(ring, spec) == [ring |-> ring, inner |-> spec.inner, outer |-> spec.outer]
  IN CASE m.kind = "off" -> page("both", [inner |-> Off, outer |-> Off])
       [] m.kind = "ring" -> page(m.ring, FromRing(m.ring, m.source))
       [] m.kind = "composed" -> page("both", m.specs[1])
       [] OTHER -> page("both", [inner |-> Elsewhere, outer |-> Elsewhere])

-----------------------------------------------------------------------------
(* What a page sends.                                                        *)

\* SetRgb, or SetRgbAll over the one group: the daemon composes again.
Sends(m) ==
  /\ job' = [job EXCEPT !.mode = m]
  /\ stage' = "asked"
  /\ frame' = 0 /\ picture' = {} /\ data' = <<>>
  /\ UNCHANGED <<current, encoding, decoding>>

\* The user changes something and it is sent, or only kept.
Settled == open /\ stage = "drawn" /\ UNCHANGED open
Change == Settled /\ edits < MaxEdits /\ edits' = edits + 1

Marks(hue) == IF hue = Black THEN {} ELSE {<<hue, 0>>}

\* The LEDs of a zone of every fan, and those of a ring.
ZoneLeds(inner) ==
  {fan * job.leds + led : fan \in 0 .. job.fans - 1,
                          led \in {l \in Ring(job.leds) : IsInnerLed(job.device, l) = inner}}
RingLeds(ring) == (IF ring = "outer" THEN {} ELSE ZoneLeds(TRUE))
                    \cup (IF ring = "inner" THEN {} ELSE ZoneLeds(FALSE))

\* What a source that does not move is to look like on these LEDs.
Promise(src, on) ==
  IF src.kind = "effect" THEN <<>> ELSE [led \in on |-> Marks(ZoneToColor(src))]

-----------------------------------------------------------------------------
(* The LED editor.                                                           *)

\* The LED of the fan that a place in a list of colours is for.
LedAt(e) ==
  {led \in OnFans :
     /\ led \div job.leds = e.fan
     /\ IsInnerLed(job.device, led % job.leds) = e.inner
     /\ PerLedZoneOffset(job.device, led % job.leds) = e.index + 1}

WithHue(hues, i, hue) ==
  [Resized(hues, Larger(Len(hues), i + 1)) EXCEPT ![i + 1] = hue]

\* on_led_color_changed.
LedColorChanged(e) ==
  /\ Change /\ e.fan < job.fans
  /\ colors' = IF e.inner
             THEN [colors EXCEPT ![e.fan + 1].inner = WithHue(@, e.index, e.hue)]
             ELSE [colors EXCEPT ![e.fan + 1].outer = WithHue(@, e.index, e.hue)]
  /\ means' = IF means = None THEN None
              ELSE [led \in DOMAIN means |-> IF led \in LedAt(e) THEN Marks(e.hue) ELSE means[led]]
  /\ UNCHANGED <<vars, current, preset, ringPage, wanted>>

\* (mutant) the lists are sent as the page holds them from the last mode, and
\* the last fan's stand for the first.
ApplyPerLedReversed ==
  /\ Settled
  /\ Sends([kind |-> "perled", fans |-> [fan \in 1 .. job.fans |-> Fitted(colors[job.fans + 1 - fan])]])
  /\ wanted' = IF means = None THEN <<>> ELSE means
  /\ UNCHANGED <<editor, ringPage, edits>>

\* on_apply_per_led: the lists cut or filled to the zones of the device.
ApplyPerLed ==
  /\ Settled
  /\ Sends([kind |-> "perled", fans |-> [fan \in 1 .. job.fans |-> Fitted(colors[fan])]])
  /\ wanted' = IF means = None THEN <<>> ELSE means
  /\ UNCHANGED <<editor, ringPage, edits>>

\* on_apply_led, the zone tab.
ApplyLed(picked) ==
  LET colour(hue) == [kind |-> "color", hue |-> hue]
      spec(fan) == IF picked[fan] = None
                   THEN [inner |-> colour(DefaultHue), outer |-> colour(DefaultHue)]
                   ELSE [inner |-> colour(picked[fan].inner), outer |-> colour(picked[fan].outer)]
      zone(led) == IF IsInnerLed(job.device, led % job.leds)
                   THEN spec(1 + led \div job.leds).inner ELSE spec(1 + led \div job.leds).outer
  IN /\ Change
     /\ Sends([kind |-> "composed", specs |-> [fan \in 1 .. job.fans |-> spec(fan)]])
     /\ wanted' = [led \in AllLeds |-> Marks(zone(led).hue)]
     /\ UNCHANGED <<editor, ringPage>>

\* on_save_led_preset and the daemon's SaveLedPreset, one name.
SaveLedPreset ==
  /\ Change
  /\ preset' = [colors |-> colors, means |-> means]
  /\ UNCHANGED <<vars, current, colors, means, ringPage, wanted>>

DeleteLedPreset ==
  /\ preset # None /\ Settled
  /\ preset' = None
  /\ UNCHANGED <<vars, current, colors, means, ringPage, wanted, edits>>

\* on_load_led_preset.
LoadLedPreset ==
  /\ preset # None /\ Settled
  /\ colors' = preset.colors /\ means' = preset.means
  /\ UNCHANGED <<vars, current, preset, ringPage, wanted, edits>>

-----------------------------------------------------------------------------
(* The ring page.                                                            *)

\* save_to_active_rings.
Saved(page, ring, src) ==
  [ring |-> page.ring,
   inner |-> IF ring = "outer" THEN page.inner ELSE src,
   outer |-> IF ring = "inner" THEN page.outer ELSE src]

Active(page) == IF page.ring = "outer" THEN page.outer ELSE page.inner

\* zone_source and build_mode.
Built(page) ==
  LET source(src) == IF src.kind = "elsewhere" THEN Off ELSE src
      spec == [inner |-> source(page.inner), outer |-> source(page.outer)]
  IN IF spec = [inner |-> Off, outer |-> Off] THEN [kind |-> "off"]
     ELSE [kind |-> "composed", specs |-> <<spec>>]

\* compose_and_send, after a control that sends has changed: the mode always,
\* the others while they apply.
Adjust(src) ==
  LET page == Saved([rings EXCEPT !.ring = ui.ring], ui.ring, src)
  IN /\ Change
     /\ ui' = [ui EXCEPT !.source = src]
     /\ rings' = page
     /\ Sends(Built(page))
     /\ wanted' = Promise(src, RingLeds(ui.ring))
     /\ UNCHANGED editor

\* on_rgb_ring_changed: the controls go to the ring the page held, which need
\* not be the one they were shown for.
RingChanged(ring) ==
  LET page == [Saved(rings, rings.ring, ui.source) EXCEPT !.ring = ring]
  IN /\ Change /\ ring # ui.ring
     /\ rings' = page
     /\ ui' = [ring |-> ring, source |-> Active(page)]
     /\ UNCHANGED <<vars, current, editor, wanted>>

\* on_rgb_apply_all: the ring that is not shown goes dark.
ApplyAll ==
  LET dark == [ring |-> ui.ring, inner |-> Off, outer |-> Off]
      sent == Saved(dark, ui.ring, ui.source)
  IN /\ Change
     /\ Sends(Built(sent))
     /\ rings' = Saved([rings EXCEPT !.ring = ui.ring], ui.ring, ui.source)
     /\ wanted' = IF ui.source.kind = "effect" THEN <<>>
                  ELSE [led \in AllLeds |-> IF led \in RingLeds(ui.ring)
                                            THEN Marks(ZoneToColor(ui.source)) ELSE {}]
     /\ UNCHANGED <<editor, ui>>

\* on_rgb_off_all.
OffAll ==
  /\ Change
  /\ Sends([kind |-> "off"])
  /\ rings' = [rings EXCEPT !.inner = Off, !.outer = Off]
  /\ wanted' = [led \in AllLeds |-> {}]
  /\ UNCHANGED <<editor, ui>>

\* load_selected_group, on_rgb_group_selected.
SelectGroup ==
  /\ Settled
  /\ ui' = [ring |-> rings.ring, source |-> Active(rings)]
  /\ UNCHANGED <<vars, current, editor, rings, wanted, edits>>

-----------------------------------------------------------------------------
(* The daemon tells the pages: an RgbChanged event, or the status at a       *)
(* connect.  While it draws nobody looks at the pages, so being told then is *)
(* being told when it has drawn.                                             *)

Sync ==
  /\ open /\ current # None /\ stage \in {"asked", "drawn"}
  /\ colors' = [fan \in 1 .. job.fans |-> SyncedFan(current, fan)]
  /\ means' = Meaning(current)
  /\ rings' = RingsOf(current)
  /\ UNCHANGED <<vars, current, preset, ui, wanted, open, edits>>

PagesInit ==
  /\ Init
  /\ current = None
  /\ colors = [fan \in 1 .. job.fans |-> Painted(Black, Black)]
  /\ means = [led \in OnFans |-> {}]
  /\ preset = None
  /\ rings = [ring |-> "both", inner |-> Off, outer |-> Off]
  /\ ui = [ring |-> "both", source |-> Off]
  /\ wanted = <<>>
  /\ open = (job \in PageJobs)
  /\ edits = 0

\* A mode that was composed and sent is recorded, and the pages are told.
Take == Compose /\ current' = job.mode /\ UNCHANGED <<editor, ringPage, wanted, open, edits>>

Upload == \/ Ignore \/ Refuse \/ DrawFrame
          \/ PassLiteral \/ WriteMatch \/ FinishStream \/ ReadToken

PagesNext ==
  \/ Upload /\ UNCHANGED pages
  \/ Take
  \/ Sync
  \/ \E e \in Edits : LedColorChanged(e)
  \/ ApplyPerLed
  \/ \E picked \in ZonePicks : ApplyLed(picked)
  \/ SaveLedPreset \/ DeleteLedPreset \/ LoadLedPreset
  \/ \E src \in Picks : Adjust(src)
  \/ \E ring \in {"inner", "outer", "both"} : RingChanged(ring)
  \/ ApplyAll \/ OffAll \/ SelectGroup

PagesSpec == PagesInit /\ [][PagesNext]_pageVars

-----------------------------------------------------------------------------
(* Properties.                                                               *)

\* The fans show what the page that sent the mode showed: the editor's lists
\* are by zone and place, filled from one mode and cut for another, and come
\* out on the very LEDs they were read for; and the ring that was picked on the
\* ring page has the light of its controls, whatever the page held before.
PagesTruthful ==
  stage \in {"drawing", "drawn", "encoding", "played"} /\ frame > 0 =>
    \A led \in DOMAIN wanted : Shown(picture, led) = wanted[led]

\* Each LED shows what it is asked for, by the mode alone (ZonesShown) and by
\* the page the mode came from (PagesTruthful).
ZonesTruthful == ZonesShown /\ PagesTruthful

=============================================================================
