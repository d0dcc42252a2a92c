----------------------------- MODULE LcdPanel -----------------------------
(***************************************************************************)
(* The LCD panels: the manager that decides at every poll what each panel  *)
(* is to show, the backend that sends it, and the panels.  A poll first    *)
(* reads the sensors (which also feed the curves), then computes the       *)
(* actions of all panels, and then carries them out one by one; what can   *)
(* go wrong on the USB happens in between.                                 *)
(*                                                                         *)
(* Time is counted in polls, at the default interval of two seconds: what  *)
(* is due after a second is due at every poll.  Pictures stand for their   *)
(* JPEG and for its hash.                                                  *)
(***************************************************************************)
EXTENDS LcdRender, FiniteSets

CONSTANTS
  Panels,        \* the LCD devices, in the order they are enumerated: a sequence
  Product,       \* the USB product of each (reopen knows nothing else)
  Opened,        \* those that answered the init: open_all leaves the others out for good
  WinUsb,        \* those that use the WinUSB format
  Asked,         \* the LcdConfigs asked for of each: [content, brightness, rotation]
  Presets,       \* frames of the preset directories: a sequence of pictures for a name
  Values,        \* what the inputs of the machine may show together
  Screens,       \* what a screen capture may yield
  StillPolls,    \* polls of a still picture (15)
  ClockPolls,    \* polls between two settings of the clock (30)
  TurnPolls,     \* polls a display of a carousel stays (CAROUSEL_SWITCH, 2)
  CooldownPolls, \* polls without a second reconnect (3)
  HistoryLength, \* GRAPH_HISTORY_LEN (60)
  LcdRequests, MaxFaults  \* bounds of the runs

ASSUME PanelsAssumption ==
  /\ Len(Panels) \in Nat
  /\ Opened \subseteq {Panels[i] : i \in 1..Len(Panels)}
ASSUME CountsAreCounts ==
  \A n \in {StillPolls, ClockPolls, TurnPolls, CooldownPolls, HistoryLength} : n \in Nat \ {0}

Ids == {Panels[i] : i \in 1..Len(Panels)}
Absent == "none"
Dark == -1  \* no brightness was set since the panel has its power

VARIABLES
  panel,     \* the panels: shows, brightness, rotation, answers, attached
  handle,    \* the panel the handle of a device reaches, or Absent
  cooldown,  \* polls until the device may be reconnected again
  manager,   \* LcdManager: the state of each registered device
  pending,   \* the actions of this poll that are still to be carried out
  known,     \* CurveRunner.sensors
  readings,  \* what the last poll read
  events,    \* the sensor updates of the last poll
  amiss,     \* what a device has not been given although it was sent
  requests, faults \* bounds

lcdVars == <<panel, handle, cooldown, manager, pending, known, readings, events,
             amiss, requests, faults>>

\* no LcdConfig yet
Unset == [content |-> [is |-> "Nothing"], brightness |-> 0, rotation |-> Absent]

Fresh ==
  [config |-> Unset, brightness |-> {}, rotation |-> {}, due |-> 0, hash |-> {},
   film |-> <<>>, frame |-> 1, capture |-> FALSE, turn |-> 0, turnDue |-> 0,
   history |-> <<>>, drawn |-> {}]

LcdInit ==
  /\ panel = [d \in Ids |-> [shows |-> Black, brightness |-> Dark, rotation |-> Absent,
                             answers |-> <<>>, attached |-> TRUE]]
  /\ handle = [d \in Opened |-> d]
  /\ cooldown = [d \in DOMAIN handle |-> 0]
  /\ manager = <<>> /\ pending = <<>>
  /\ known = <<>> /\ readings = <<>> /\ events = <<>>
  /\ amiss = [d \in DOMAIN handle |-> {}]
  /\ requests = 0 /\ faults = 0

Registered == DOMAIN manager

---------------------------------------------------------------------------
(* LcdManager::set_config and load_preset.                                 *)

\* (mutant) what the last template was drawn at is kept
ConfiguredKeepingDrawn(m, config, captured) ==
  [m EXCEPT !.config = config,
            !.brightness = {config.brightness}, !.rotation = {config.rotation},
            !.capture = config.content.is = "ScreenCapture" /\ captured,
            !.film = IF config.content.is = "Gif" THEN config.content.frames ELSE <<>>,
            !.frame = 1, !.turn = 0, !.turnDue = 0, !.history = <<>>,
            !.due = 0, !.hash = {}]

\* the frames of a GIF are kept when the configuration is set, and no others
Configured(m, config, captured) ==
  [m EXCEPT !.config = config,
            !.brightness = {config.brightness}, !.rotation = {config.rotation},
            !.capture = config.content.is = "ScreenCapture" /\ captured,
            !.film = IF config.content.is = "Gif" THEN config.content.frames ELSE <<>>,
            !.frame = 1, !.drawn = {}, !.turn = 0, !.turnDue = 0, !.history = <<>>,
            !.due = 0, !.hash = {}]

LoadPreset(m, content) ==
  IF content.is = "Preset" /\ Presets[content.name] # <<>>
  THEN [m EXCEPT !.film = Presets[content.name], !.frame = 1]
  ELSE m

\* Request::SetLcd: the index is one of the registered devices
SetLcd(d, config) ==
  /\ requests < LcdRequests /\ pending = <<>> /\ d \in Registered
  /\ \E captured \in IF config.content.is = "ScreenCapture" THEN BOOLEAN ELSE {FALSE} :
       manager' = [manager EXCEPT ![d] = Configured(LoadPreset(@, config.content), config, captured)]
  /\ amiss' = [amiss EXCEPT ![d] = {}]
  /\ requests' = requests + 1
  /\ UNCHANGED <<panel, handle, cooldown, pending, known, readings, events, faults>>

---------------------------------------------------------------------------
(* LcdManager::tick.                                                       *)

\* (mutant) both settings are taken, one is sent
EmittedOne(d, m) ==
  SetToSeq({[do |-> "brightness", device |-> d, level |-> b] : b \in m.brightness})

Emitted(d, m) ==
  SetToSeq({[do |-> "brightness", device |-> d, level |-> b] : b \in m.brightness})
    \o SetToSeq({[do |-> "rotation", device |-> d, rotation |-> t] : t \in m.rotation})

Turned(m, displays) ==
  IF displays # <<>> /\ m.turnDue = 0
  THEN [m EXCEPT !.turn = (@ + 1) % Len(displays), !.turnDue = TurnPolls]
  ELSE m

Remembered(history, display, r) ==
  LET longer == history \o SetToSeq(Known(r, SensorKey(display)))
  IN IF Len(longer) > HistoryLength THEN Tail(longer) ELSE longer

\* what is brought up to date before the picture is drawn
Prepared(m, r) ==
  LET content == m.config.content
  IN CASE content.is = "SensorCarousel" -> Turned(m, content.displays)
       [] content.is = "Sensor" /\ content.display.style = "Graph" ->
            [m EXCEPT !.history = Remembered(@, content.display, r)]
       [] content.is = "Template" /\ m.drawn = {} ->
            [m EXCEPT !.drawn = {NothingDrawn(content.template)}]
       [] OTHER -> m

\* the picture that is drawn, if any
Drawn(m, r) ==
  LET content == m.config.content
  IN CASE content.is = "Off" -> {Black}
       [] content.is \in {"Text", "Image"} -> {Still(content.what)}
       [] content.is = "SystemInfo" -> {RenderSystemInfo(r)}
       [] content.is = "Sensor" ->
            {IF content.display.style = "Graph" THEN Graph(content.display, m.history, r)
             ELSE RenderSensor(content.display, r)}
       [] content.is = "SensorCarousel" ->
            {IF content.displays = <<>> THEN Black
             ELSE RenderSensor(content.displays[m.turn + 1], r)}
       [] content.is \in {"Gif", "Preset"} -> {IF m.film = <<>> THEN Black ELSE m.film[m.frame]}
       [] content.is = "Template" ->
            {RenderTemplate(content.template, r) : drawn \in
               {x \in m.drawn : NeedsRender(x, content.template, r)}}
       [] content.is = "Video" -> {}

\* what is noted of the picture that was drawn
Noted(m, r) ==
  LET content == m.config.content
  IN CASE content.is \in {"Gif", "Preset"} /\ m.film # <<>> ->
            [m EXCEPT !.frame = (m.frame % Len(m.film)) + 1]
       [] content.is = "Template" -> [m EXCEPT !.drawn = {MarkRendered(content.template, r)}]
       [] OTHER -> m

\* refresh_interval, in polls
RefreshPolls(content) == IF content.is \in {"Off", "Text", "Image"} THEN StillPolls ELSE 1

Frame(d, picture) == [do |-> "frame", device |-> d, picture |-> picture]
Result(m, actions) == [state |-> m, actions |-> actions]

\* hash dedup: the picture is noted as sent before it is
Pushed(d, m, picture, polls) ==
  Result([m EXCEPT !.hash = {picture}, !.due = polls],
         IF m.hash = {picture} THEN <<>> ELSE <<Frame(d, picture)>>)

Shown(d, m, r) ==
  LET ready == Prepared(m, r)  pictures == Drawn(ready, r)
  IN IF pictures = {} THEN Result(ready, <<>>)
     ELSE Pushed(d, Noted(ready, r), CHOOSE p \in pictures : TRUE, RefreshPolls(m.config.content))

\* the clock runs on the panel, a capture sends what the capture yields
ByContent(d, m, r, grab) ==
  CASE m.config = Unset -> Result(m, <<>>)
    [] m.config # Unset /\ m.due > 0 -> Result(m, <<>>)
    [] m.config # Unset /\ m.due = 0 ->
         (CASE m.config.content.is = "Clock" ->
                 Result([m EXCEPT !.due = ClockPolls], <<[do |-> "clock", device |-> d]>>)
            [] m.config.content.is = "ScreenCapture" ->
                 (IF m.capture /\ grab # {} THEN Pushed(d, m, CHOOSE p \in grab : TRUE, 1)
                  ELSE Result(m, <<>>))
            [] OTHER -> Shown(d, m, r))

Elapsed(m) ==
  [m EXCEPT !.due = IF @ > 0 THEN @ - 1 ELSE 0, !.turnDue = IF @ > 0 THEN @ - 1 ELSE 0]

TickOne(d, m, r, grab) ==
  LET taken == [m EXCEPT !.brightness = {}, !.rotation = {}]
      result == ByContent(d, taken, r, grab)
  IN Result(result.state, Emitted(d, m) \o result.actions)

Capturing == {d \in Registered : manager[d].capture}

Grabs == IF Capturing = {} THEN {{}} ELSE {{}} \cup {{s} : s \in Screens}
Aged == [d \in DOMAIN handle |-> IF d \in Registered THEN Elapsed(manager[d]) ELSE Fresh]

\* what may be read, and what build_lcd_readings makes of it
Samples ==
  {[readings |-> ReadCalibrated(value), panels |-> LcdReadings(ReadCalibrated(value))] : value \in Values}

\* Engine::tick: devices are registered, the sensors read and the panels drawn
PollPanels ==
  /\ pending = <<>>
  /\ \E sample \in Samples, grab \in Grabs, order \in SetToSeqs(DOMAIN handle), before \in {Aged} :
       \E ticked \in {[d \in DOMAIN handle |-> TickOne(d, before[d], sample.panels, grab)]},
          feed \in {Ingest(known, sample.readings)} :
          /\ readings' = sample.readings
          /\ known' = feed.known /\ events' = feed.events
          /\ manager' = [d \in DOMAIN handle |-> ticked[d].state]
          /\ pending' = FlattenSeq([i \in DOMAIN order |-> ticked[order[i]].actions])
  /\ cooldown' = [d \in DOMAIN cooldown |-> IF cooldown[d] > 0 THEN cooldown[d] - 1 ELSE 0]
  /\ UNCHANGED <<panel, handle, amiss, requests, faults>>

---------------------------------------------------------------------------
(* LcdBackend.  An operation takes [p, h, c] - panels, handles, cooldowns  *)
(* - to the same after it, and whether it succeeded.                       *)

Usb == [p |-> panel, h |-> handle, c |-> cooldown, ok |-> TRUE]
Reaches(u, d) == u.h[d] # Absent

\* A write arrives at the panel, which does what it says and answers.  The answer is read
\* at once, unless it is late: then it is the next read that finds it.
Told(u, d, field, to, answer) ==
  [u EXCEPT !.p[u.h[d]][field] = to, !.p[u.h[d]].answers = Append(@, answer)]
Answered(u, d, late) ==
  LET answers == u.p[u.h[d]].answers
  IN IF late /\ Len(answers) = 1 THEN u ELSE [u EXCEPT !.p[u.h[d]].answers = Tail(@)]

\* set_brightness: 0..255 becomes 0..50, and only 0 becomes 0
Level(b) == IF b = 0 THEN 0 ELSE LET l == (b * 50 + 127) \div 255 IN IF l = 0 THEN 1 ELSE l

SetBrightness(u, d, level, late) ==
  IF ~Reaches(u, d) THEN [u EXCEPT !.ok = FALSE]
  ELSE Answered(Told(u, d, "brightness", Level(level), "brightness"), d, late)
SetRotation(u, d, rotation, late) ==
  IF ~Reaches(u, d) THEN [u EXCEPT !.ok = FALSE]
  ELSE Answered(Told(u, d, "rotation", rotation, "rotation"), d, late)
SetClock(u, d, late) ==
  IF ~Reaches(u, d) THEN [u EXCEPT !.ok = FALSE]
  ELSE Answered(Told(u, d, "shows", ClockFace, "clock"), d, late)

\* send_frame_inner: a panel in the standard format must acknowledge the picture in
\* time, the answer of the others is not looked at
SendFrameInner(u, d, picture, late) ==
  IF ~Reaches(u, d) THEN [u EXCEPT !.ok = FALSE]
  ELSE LET told == Told(u, d, "shows", picture, "image")
           answers == told.p[told.h[d]].answers
           acknowledged == Head(answers) = "image" /\ ~(late /\ Len(answers) = 1)
       IN [Answered(told, d, late) EXCEPT !.ok = d \in WinUsb \/ acknowledged]

\* reopen: the first attached panel of the same product, which is reset and then
\* must not be held by another handle
Reopen(u, d) ==
  LET found == {i \in 1..Len(Panels) :
                  Product[Panels[i]] = Product[d] /\ u.p[Panels[i]].attached}
      first == Panels[Min(found)]
      held == \E other \in DOMAIN u.h \ {d} : u.h[other] = first
  IN IF found = {} THEN [u EXCEPT !.h[d] = Absent]
     ELSE [u EXCEPT !.p[first].answers = <<>>, !.p[first].shows = Black,
                    !.h[d] = IF held THEN Absent ELSE first]

\* (mutant) an attempt that comes too early starts the cooldown again
TryReconnectAgain(u, d) ==
  IF u.c[d] > 0 THEN [u EXCEPT !.c[d] = CooldownPolls]
  ELSE [Reopen(u, d) EXCEPT !.c[d] = CooldownPolls]

TryReconnect(u, d) ==
  IF u.c[d] > 0 THEN u ELSE [Reopen(u, d) EXCEPT !.c[d] = CooldownPolls]

\* send_frame; a write may also fail with the panel in reach
SendFrame(u, d, picture, late, fails) ==
  LET first == IF fails THEN [u EXCEPT !.ok = FALSE] ELSE SendFrameInner(u, d, picture, late)
  IN IF first.ok THEN first
     ELSE SendFrameInner(TryReconnect([first EXCEPT !.ok = TRUE], d), d, picture, FALSE)

Carried(action, late, fails) ==
  LET d == action.device
  IN CASE action.do = "frame" -> SendFrame(Usb, d, action.picture, late, fails)
       [] action.do = "brightness" ->
            IF fails THEN [Usb EXCEPT !.ok = FALSE] ELSE SetBrightness(Usb, d, action.level, late)
       [] action.do = "rotation" ->
            IF fails THEN [Usb EXCEPT !.ok = FALSE] ELSE SetRotation(Usb, d, action.rotation, late)
       [] action.do = "clock" ->
            IF fails THEN [Usb EXCEPT !.ok = FALSE] ELSE SetClock(Usb, d, late)

\* "amiss" also holds the frames of panels that were reset for a device beside them, and
\* the settings of a device that came by another panel, which has not been given them
Wiped(u) ==
  {d \in DOMAIN handle : /\ handle[d] # Absent
                         /\ u.p[handle[d]].shows = Black /\ panel[handle[d]].shows # Black}
Moved(u) == {d \in DOMAIN handle : u.h[d] # handle[d]}
\* what an action that arrives gives: a picture takes the clock off the panel, and back
Given(action) == IF action.do \in {"frame", "clock"} THEN {"frame", "clock"} ELSE {action.do}
AmissAfter(action, u) ==
  [d \in DOMAIN amiss |->
     IF d # action.device THEN amiss[d] \cup {x \in {"frame"} : d \in Wiped(u)}
     ELSE LET missed == amiss[d] \cup {x \in {"brightness", "rotation", "clock"} : d \in Moved(u)}
          IN IF u.ok THEN missed \ Given(action) ELSE missed \cup {action.do}]

\* the daemon only warns when an action fails
Carry ==
  /\ pending # <<>>
  /\ \E late, fails \in BOOLEAN :
       /\ (late \/ fails) => faults < MaxFaults /\ ~(late /\ fails)
       /\ faults' = IF late \/ fails THEN faults + 1 ELSE faults
       /\ \E u \in {Carried(Head(pending), late, fails)} :
            /\ panel' = u.p /\ handle' = u.h /\ cooldown' = u.c
            /\ amiss' = AmissAfter(Head(pending), u)
  /\ pending' = Tail(pending)
  /\ UNCHANGED <<manager, known, readings, events, requests>>

---------------------------------------------------------------------------
(* The environment.                                                        *)

\* A panel that is unplugged and attached again has lost what it was given.
Unplug(d) ==
  /\ faults < MaxFaults /\ panel[d].attached
  /\ panel' = [panel EXCEPT ![d] = [shows |-> Black, brightness |-> Dark, rotation |-> Absent,
                                    answers |-> <<>>, attached |-> FALSE]]
  /\ handle' = [h \in DOMAIN handle |-> IF handle[h] = d THEN Absent ELSE handle[h]]
  /\ amiss' = [h \in DOMAIN amiss |->
       IF d \in {h, handle[h]} THEN {"frame", "brightness", "rotation", "clock"} ELSE amiss[h]]
  /\ faults' = faults + 1
  /\ UNCHANGED <<cooldown, manager, pending, known, readings, events, requests>>

PlugIn(d) ==
  /\ ~panel[d].attached
  /\ panel' = [panel EXCEPT ![d].attached = TRUE]
  /\ UNCHANGED <<handle, cooldown, manager, pending, known, readings, events, amiss,
                 requests, faults>>

Ask == \E d \in Ids : \E config \in Asked[d] : SetLcd(d, config)
Mishap == \E d \in Ids : Unplug(d)
Repair == \E d \in Ids : PlugIn(d)
LcdNext == PollPanels \/ Carry \/ Ask \/ Mishap \/ Repair

\* The daemon polls when it has carried out what it computed, and carries it out before:
\* weak fairness of PollPanels and of Carry, with what enables them written out.
Fairness ==
  /\ []<>(pending # <<>>) \/ []<><<PollPanels>>_lcdVars
  /\ []<>(pending = <<>>) \/ []<><<Carry>>_lcdVars
LcdSpec == LcdInit /\ [][LcdNext]_lcdVars /\ Fairness

---------------------------------------------------------------------------
(* Properties.                                                             *)

\* Fields, and what an index or a queue that is not kept in step would break: the frame
\* and the display that are drawn next exist, the history is bounded, and answers that
\* came late do not pile up at the panel.
LcdTypeOK ==
  /\ \A d \in Registered :
       LET m == manager[d]
       IN /\ m.config \in Asked[d] \cup {Unset} /\ Len(m.history) <= HistoryLength
          /\ m.due \in 0..(StillPolls + ClockPolls) /\ m.turnDue \in 0..TurnPolls
          /\ m.film # <<>> => m.frame \in 1..Len(m.film)
          /\ Emitted(d, m) # <<>> => m.config # Unset
  /\ \A d \in DOMAIN handle : handle[d] \in Ids \cup {Absent} /\ cooldown[d] \in 0..CooldownPolls
  /\ \A d \in Ids : Len(panel[d].answers) <= MaxFaults

\* what the panels are drawn at, and would be with the inputs at v
Current == LcdReadings(readings)
Readings(v) == LcdReadings(ReadCalibrated(v))
HasCoreBars(template) ==
  \E i \in 1..Len(template.widgets) : template.widgets[i].kind = "CoreBars"

\* readings less than a tenth away from r
Near(r) == {[key \in DOMAIN r |-> r[key] + off[key]] : off \in [DOMAIN r -> -1..1]}

\* whether a panel may show the picture for a content when the readings are r
Fits(content, r, picture) ==
  CASE content.is = "Off" -> picture = Black
    [] content.is \in {"Text", "Image"} -> picture = Still(content.what)
    [] content.is = "SystemInfo" -> picture = RenderSystemInfo(r)
    [] content.is = "Sensor" ->
         IF content.display.style # "Graph" THEN picture = RenderSensor(content.display, r)
         ELSE /\ DOMAIN picture = {"graph"}
              /\ picture.graph[3] = {InUnit(v, content.display.unit) :
                                       v \in Known(r, SensorKey(content.display))}
              /\ \A v \in Known(r, SensorKey(content.display)) :
                   picture.graph[4] # <<>> => Last(picture.graph[4]) = Percent({v})
    [] content.is = "SensorCarousel" ->
         \E i \in 1..Len(content.displays) : picture = RenderSensor(content.displays[i], r)
    [] content.is = "Gif" -> \E i \in 1..Len(content.frames) : picture = content.frames[i]
    [] content.is = "Template" ->
         HasCoreBars(content.template) \/ \E s \in Near(r) : picture = RenderTemplate(content.template, s)
    [] content.is = "ScreenCapture" -> picture \in Screens
    [] content.is = "Clock" -> picture = ClockFace
    [] OTHER -> TRUE

\* a poll has been over the configuration, and a capture has yielded something
HasDrawn(d) ==
  manager[d].brightness = {} /\ (manager[d].config.content.is = "ScreenCapture" => manager[d].hash # {})
Settled(d) == pending = <<>> /\ d \in Registered /\ manager[d].config # Unset /\ handle[d] # Absent

\* A panel that has been sent everything shows its own content, at the readings of the
\* last poll: nothing of an earlier content and no value a tenth old is left on it
\* (set_config resets nine fields by hand, and pictures are only sent when they differ).
\* Presets and core bars are left out (README).
PanelCurrent ==
  \A d \in DOMAIN handle :
    Settled(d) /\ HasDrawn(d) /\ amiss[d] \cap {"frame", "clock"} = {} =>
      Fits(manager[d].config.content, Current, panel[handle[d]].shows)

\* Once a poll is over, the brightness and the rotation of the last SetLcd have reached
\* the panel, unless sending them failed (they are taken before they are sent).
SettingsApplied ==
  \A d \in DOMAIN handle :
    Settled(d) /\ manager[d].brightness = {} =>
      /\ "brightness" \notin amiss[d] => panel[handle[d]].brightness = Level(manager[d].config.brightness)
      /\ "rotation" \notin amiss[d] => panel[handle[d]].rotation = manager[d].config.rotation

Keeps(d, config) == d \in Registered /\ manager[d].config = config
AskedFor(d, kinds) == {config \in Asked[d] : config.content.is \in kinds}

\* device d has been left with this configuration, and its panel is there
LeftWith(d, config) == IF Keeps(d, config) THEN panel[d].attached ELSE FALSE
Showing(d, picture) ==
  IF d \in DOMAIN handle /\ handle[d] # Absent THEN panel[handle[d]].shows = picture ELSE FALSE

\* A panel that shows a number comes back after it was unplugged: once it is attached for
\* good it shows the readings again, as long as these keep changing (a picture that stays
\* the same is not sent again).
ReplugRecovers ==
  \A d \in Ids : \A config \in {c \in AskedFor(d, {"Sensor"}) : c.content.display.style = "Number"} :
    LET Picture == RenderSensor(config.content.display, Current)
    IN <>[]LeftWith(d, config) /\ []<><<Picture' # Picture>>_lcdVars => []<>Showing(d, Picture)

=============================================================================
