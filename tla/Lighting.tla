------------------------------- MODULE Lighting -------------------------------
(***************************************************************************)
(* What the LEDs of the fan groups show: the RGB requests (handler.rs), the *)
(* restore after an Indicate, temperature colors (temp_rgb.rs), profiles    *)
(* switched by request, alert, focused application (app_profiles.rs), power *)
(* source (power.rs) and schedule, and the steps of shows, all of them      *)
(* through System::set_rgb (system.rs) to the RF backend.                   *)
(*                                                                         *)
(* A mode is a color, which stands for colors, effects and led maps alike,  *)
(* and a brightness.  The speeds in profiles and scenes are left out; the   *)
(* groups are those with LEDs.                                              *)
(***************************************************************************)
EXTENDS Integers, FiniteSets

CONSTANTS
  Groups,      \* fan groups with LEDs
  Colors,      \* colors that requests and shows set
  Dimmable,    \* the colors of which with_brightness sets the brightness
  White,       \* the color of an indication
  Dark,        \* RgbMode::Off
  Gradient,    \* RgbMode::TempRgb, which cannot be sent
  Hues,        \* colors of the gradient at some temperature
  Levels,      \* brightness
  Full,        \* the brightness 255
  ConfigMode,  \* the mode the config has for a group, or None: no entry
  Names,       \* names of profiles
  Apps,        \* applications that may have the focus
  AppMaps,     \* profile name for each application, or None; no names: no entries
  PowerMaps,   \* profile name on battery and on AC, or None
  MaxRequests, \* bound on requests and steps of shows
  MaxFaults,   \* bound on steps where a send or discovery fails or a group vanishes
  None

Mode(c, l) == [color |-> c, level |-> l]
Lit(c) == Mode(c, Full)
Off    == Lit(Dark)
Flash  == Lit(White)

Shades == {Lit(c) : c \in Colors \cup {Gradient, Dark}}
AllModes == {Mode(c, l) : c \in Colors \cup Hues \cup {White, Dark, Gradient}, l \in Levels}

Scenes == [Groups -> AllModes \cup {None}]   \* None: the group is not in it
NoScene == [g \in Groups |-> None]

\* TempRgbRunner::sync_from_config.
TempGroups == {g \in Groups : ConfigMode[g] = Lit(Gradient)}

ASSUME LightingAssumption ==
  /\ {White, Gradient} \cap (Colors \cup Hues) = {} /\ White # Gradient
  /\ Hues \cup {White} \subseteq Dimmable /\ {Dark, Gradient} \cap Dimmable = {}
  /\ Full \in Levels
  /\ None \notin AllModes \cup Names \cup Hues \cup Apps \cup Scenes
  /\ ConfigMode \in [Groups -> Shades \cup {None}]
  /\ AppMaps \subseteq [Apps -> Names \cup {None}]
  /\ PowerMaps \subseteq [BOOLEAN -> Names \cup {None}]
  /\ MaxRequests \in Nat /\ MaxFaults \in Nat

VARIABLES
  phase,     \* what the engine does next: the poll is a step for each runner
  present,   \* groups in the registry
  mode,      \* DeviceState::rgb_mode, or None
  lit,       \* device: the mode it shows
  restores,  \* Engine::indicate_restores: the mode of a group, or None
  profiles,  \* the profiles of the config: scenes, or None
  hue,       \* TempRgbRunner::sensors, as the colors they give, or None
  lastHue,   \* TempRgbState::last_color
  apps,      \* AppProfileRunner::profiles
  matched,   \* AppProfileRunner::last_matched
  power,     \* PowerRunner::config, or None
  lastAc,    \* PowerRunner::last_on_ac, or None
  requests,
  faults,
  torn,      \* history: groups of which the registry need not know what they show
  byTemp,    \* history: groups last set by the temperature runner
  before,    \* history: what a group showed when it was indicated, or None
  shot,      \* history: what the groups of a profile showed when it was saved
  focus      \* history: the application of the last poll, if the mappings are still
             \* those of then

runners == <<hue, lastHue, apps, matched, power, lastAc, focus>>
vars == <<phase, present, mode, lit, restores, profiles, runners, requests, faults, torn,
          byTemp, before, shot>>

-----------------------------------------------------------------------------
(* System::set_rgb, for the groups a scene names.  A mode that cannot be     *)
(* composed and a group that is not there fail at once; what is sent to a    *)
(* broken group fails in the first or, if in half, in the second of its two  *)
(* rounds, when the device shows it already.                                 *)

Sendable(to, here) == {g \in here : to[g] # None /\ to[g].color # Gradient}

\* (mutant) the registry is written before the mode is sent
SendNotedFirst(to, here, known, broken, half) ==
  LET sent == Sendable(to, here)
      done == sent \ broken
  IN  /\ lit'  = [g \in Groups |-> IF g \in done \cup half THEN to[g] ELSE lit[g]]
      /\ mode' = [g \in Groups |-> IF g \in sent THEN to[g] ELSE known[g]]
      /\ torn' = (torn \ done) \cup half

Send(to, here, known, broken, half) ==
  LET done == Sendable(to, here) \ broken
  IN  /\ lit'  = [g \in Groups |-> IF g \in done \cup half THEN to[g] ELSE lit[g]]
      /\ mode' = [g \in Groups |-> IF g \in done THEN to[g] ELSE known[g]]
      /\ torn' = (torn \ done) \cup half

Faulty(happens) == /\ happens => faults < MaxFaults
                   /\ faults' = IF happens THEN faults + 1 ELSE faults

\* The same with failures as they come.
Command(to) ==
  \E broken \in SUBSET Sendable(to, present) : \E half \in SUBSET broken :
    Faulty(broken # {}) /\ Send(to, present, mode, broken, half)

\* It answers Ok.
Reached(g) == g \in present /\ mode'[g] # None /\ faults' = faults

To(groups, m) == [g \in Groups |-> IF g \in groups THEN m ELSE None]
Scene(n) == IF n = None \/ profiles[n] = None THEN NoScene ELSE profiles[n]

\* History: something else than the temperature or a flash sets the groups.
Overrides(to) ==
  LET named == {g \in Groups : to[g] # None}
  IN  /\ byTemp' = byTemp \ named
      /\ before' = [g \in Groups |-> IF g \in named THEN None ELSE before[g]]

-----------------------------------------------------------------------------
(* Requests. *)

Idle == phase = "idle" /\ UNCHANGED <<phase, present>>
Request == requests < MaxRequests /\ requests' = requests + 1
Library == <<profiles, shot>>

Set(to) == /\ Idle /\ Request
           /\ Command(to) /\ Overrides(to)
           /\ UNCHANGED <<restores, runners, Library>>

\* SetRgb, SetRgbAll and Sync; a step of a show does the same.
SetRgb(groups, m) == Set(To(groups, m))

\* apply_profile_groups: failures are ignored.
SwitchProfile(n) == profiles[n] # None /\ Set(Scene(n))

WithBrightness(m, l) == IF m.color \in Dimmable THEN Mode(m.color, l) ELSE m

\* Groups whose mode is not known are passed over.
SetBrightness(groups, l) ==
  Set([g \in Groups |-> IF g \in groups /\ mode[g] # None
                        THEN WithBrightness(mode[g], l) ELSE None])

\* History: the group is known to show this, and it can be sent again.
Certain(g) == /\ restores[g] = None /\ g \notin torn
              /\ mode[g] # None /\ mode[g].color # Gradient

Indicates(g, prev) ==
  /\ Idle /\ Request
  /\ Command(To({g}, Flash))
  /\ restores' = [restores EXCEPT ![g] =
       IF g \in present /\ faults' = faults THEN prev ELSE @]
  /\ before' = [before EXCEPT ![g] =
       IF g \in present /\ faults' = faults /\ Certain(g) THEN lit[g] ELSE None]
  /\ byTemp' = byTemp \ {g}
  /\ UNCHANGED <<runners, Library>>

\* (mutant) the mode is read after the flash is set
IndicateLate(g) == Indicates(g, mode'[g])

Indicate(g) == Indicates(g, IF mode[g] = None THEN Off ELSE mode[g])

Keep == UNCHANGED <<mode, lit, restores, faults, torn, byTemp, before>>

\* Device::current_scene of every group there is.
Snapshot == [g \in Groups |-> IF g \notin present THEN None
                              ELSE IF mode[g] = None THEN Off ELSE mode[g]]

SaveProfile(n) ==
  /\ Idle /\ Request /\ Keep
  /\ profiles' = [profiles EXCEPT ![n] = Snapshot]
  /\ shot' = [shot EXCEPT ![n] = [g \in Groups |->
       IF mode[g] # None /\ mode[g].color # Gradient /\ g \notin torn THEN lit[g] ELSE None]]
  /\ UNCHANGED runners

DeleteProfile(n) ==
  /\ Idle /\ Request /\ Keep
  /\ profiles' = [profiles EXCEPT ![n] = None]
  /\ shot' = [shot EXCEPT ![n] = NoScene]
  /\ UNCHANGED runners

CopyProfile(from, to) ==
  /\ profiles[from] # None /\ profiles[to] = None
  /\ Idle /\ Request /\ Keep
  /\ profiles' = [profiles EXCEPT ![to] = profiles[from]]
  /\ shot' = [shot EXCEPT ![to] = shot[from]]
  /\ UNCHANGED runners

\* The runners keep what they saw last.
SetAppProfiles(m) ==
  /\ Idle /\ Request /\ Keep
  /\ apps' = m /\ focus' = None
  /\ UNCHANGED <<hue, lastHue, matched, power, lastAc, Library>>

SetPowerConfig(m) ==
  /\ Idle /\ Request /\ Keep
  /\ power' = m
  /\ UNCHANGED <<hue, lastHue, apps, matched, lastAc, focus, Library>>

\* Groups that come back are without state.
Refreshed(found) == [g \in Groups |-> IF g \in present \cap found THEN mode[g] ELSE None]

\* A Discover request.
Discover(found) ==
  /\ phase = "idle" /\ Request
  /\ Faulty(present \ found # {})
  /\ present' = found
  /\ mode' = Refreshed(found)
  /\ UNCHANGED <<phase, lit, restores, runners, torn, byTemp, before, Library>>

-----------------------------------------------------------------------------
(* Engine::tick. *)

\* The deadline of an indication has passed: the entry goes, whether or not
\* the mode could be sent.
Restore(g) ==
  /\ restores[g] # None
  /\ Idle
  /\ Command(To({g}, restores[g]))
  /\ restores' = [restores EXCEPT ![g] = None]
  /\ Overrides(To({g}, restores[g]))
  /\ UNCHANGED <<requests, runners, Library>>

\* (mutant) a group is colored once
ColouredOnce(temp) == {g \in TempGroups : temp[g] # None /\ lastHue[g] = None}

\* TempRgbRunner::evaluate: the groups to set.
Coloured(temp) == {g \in TempGroups : temp[g] # None /\ lastHue[g] # temp[g]}

\* The poll: discovery, the sensors with a new reading, temperature colors.
Refresh(found, reads) ==
  LET temp   == [g \in TempGroups |-> IF reads[g] # None THEN reads[g] ELSE hue[g]]
      tinted == Coloured(temp)
      to     == [g \in Groups |-> IF g \in tinted THEN Lit(temp[g]) ELSE None]
  IN
  /\ phase = "idle" /\ phase' = "alerts"
  /\ present' = found
  /\ \E broken \in SUBSET Sendable(to, found) : \E half \in SUBSET broken :
       /\ Faulty(broken # {} \/ present \ found # {})
       /\ Send(to, found, Refreshed(found), broken, half)
       /\ byTemp' = (byTemp \ tinted) \cup (tinted \cap (found \ broken))
  /\ hue' = temp
  /\ lastHue' = [g \in TempGroups |-> IF g \in tinted THEN temp[g] ELSE lastHue[g]]
  /\ before' = [g \in Groups |-> IF g \in tinted THEN None ELSE before[g]]
  /\ UNCHANGED <<restores, apps, matched, power, lastAc, focus, requests, Library>>

\* A runner of the poll applies the profile it chose, if there is one.
Applies(n, from, to) ==
  /\ phase = from /\ phase' = to
  /\ Command(Scene(n)) /\ Overrides(Scene(n))
  /\ UNCHANGED <<present, restores, hue, lastHue, requests, Library>>

\* execute_alert_actions.
Alerts(n) == /\ Applies(n, "alerts", "apps")
             /\ UNCHANGED <<apps, matched, power, lastAc, focus>>

Mapped == \E a \in Apps : apps[a] # None

\* AppProfileRunner::evaluate: the profile to switch to, or None.
AppSwitch(app) == IF Mapped /\ apps[app] # matched THEN apps[app] ELSE None

AppProfile(app) ==
  /\ Applies(AppSwitch(app), "apps", "power")
  /\ matched' = IF Mapped THEN apps[app] ELSE matched
  /\ focus' = app
  /\ UNCHANGED <<apps, power, lastAc>>

\* PowerRunner::evaluate.
PowerSwitch(ac) == IF power # None /\ lastAc # ac THEN power[ac] ELSE None

PowerProfile(ac) ==
  /\ Applies(PowerSwitch(ac), "power", "schedule")
  /\ lastAc' = IF power = None THEN lastAc ELSE ac
  /\ UNCHANGED <<apps, matched, power, focus>>

\* execute_schedule_command, for the commands that switch a profile.
Schedule(n) == /\ Applies(n, "schedule", "idle")
               /\ UNCHANGED <<apps, matched, power, lastAc, focus>>

-----------------------------------------------------------------------------

\* The registry is seeded from the config; what the LEDs show is not known.
Init ==
  /\ phase = "idle"
  /\ present \in SUBSET Groups
  /\ lit \in [Groups -> {Lit(c) : c \in Colors \cup {Dark}}]
  /\ mode = [g \in Groups |-> IF g \in present THEN ConfigMode[g] ELSE None]
  /\ restores = NoScene
  /\ profiles = [n \in Names |-> None]
  /\ hue = [g \in TempGroups |-> None] /\ lastHue = hue
  /\ apps \in AppMaps /\ matched = None
  /\ power \in PowerMaps \cup {None} /\ lastAc = None
  /\ requests = 0 /\ faults = 0
  /\ torn = present /\ byTemp = {} /\ before = NoScene
  /\ shot = [n \in Names |-> NoScene]
  /\ focus = None

Next ==
  \/ \E groups \in SUBSET Groups, m \in Shades : SetRgb(groups, m)
  \/ \E groups \in SUBSET Groups, l \in Levels : SetBrightness(groups, l)
  \/ \E n \in Names : SwitchProfile(n) \/ SaveProfile(n) \/ DeleteProfile(n)
  \/ \E from, to \in Names : CopyProfile(from, to)
  \/ \E m \in AppMaps : SetAppProfiles(m)
  \/ \E m \in PowerMaps : SetPowerConfig(m)
  \/ \E found \in SUBSET Groups : Discover(found)
  \/ \E g \in Groups : Indicate(g) \/ Restore(g)
  \/ \E found \in SUBSET Groups, reads \in [TempGroups -> Hues \cup {None}] : Refresh(found, reads)
  \/ \E n \in Names \cup {None} : Alerts(n) \/ Schedule(n)
  \/ \E app \in Apps : AppProfile(app)
  \/ \E ac \in BOOLEAN : PowerProfile(ac)

Spec == Init /\ [][Next]_vars

-----------------------------------------------------------------------------
\* Every variable has its type; only a group of the registry has a mode.
TypeOK ==
  /\ phase \in {"idle", "alerts", "apps", "power", "schedule"}
  /\ present \subseteq Groups
  /\ mode \in Scenes /\ {g \in Groups : mode[g] # None} \subseteq present
  /\ lit \in [Groups -> AllModes]
  /\ restores \in Scenes
  /\ profiles \in [Names -> Scenes \cup {None}]
  /\ hue \in [TempGroups -> Hues \cup {None}] /\ lastHue \in [TempGroups -> Hues \cup {None}]
  /\ apps \in AppMaps /\ matched \in Names \cup {None}
  /\ power \in PowerMaps \cup {None} /\ lastAc \in BOOLEAN \cup {None}
  /\ requests \in 0..MaxRequests /\ faults \in 0..MaxFaults
  /\ torn \subseteq Groups /\ byTemp \subseteq Groups
  /\ before \in Scenes /\ shot \in [Names -> Scenes]
  /\ focus \in Apps \cup {None}

\* The mode the registry has for a group (status replies, snapshots and
\* brightness changes read it) is what its LEDs show, through failed sends,
\* flapping groups and all the runners: only a seed from the config and a send
\* that failed between its two rounds may make it wrong, until the next send.
StateTruthful == \A g \in Groups \ torn : mode[g] # None => lit[g] = mode[g]

\* The end of an indication brings back what the group showed when it began,
\* if nothing else set the group meanwhile and the restore gets through.
FlashUndone ==
  [][\A g \in present :
       (restores[g] # None /\ restores'[g] = None /\ before[g] # None /\ faults' = faults)
         => lit'[g] = before[g]]_vars

\* A group that the temperature colored last, and that was reached, has the
\* color of the latest reading.
TempFollows == \A g \in TempGroups \cap byTemp : g \notin torn => lit[g] = Lit(hue[g])

\* Switching to a profile brings back, with its brightness, what a group showed
\* when the profile (or the one it is a copy of) was saved.
ProfileShows ==
  [][\A n \in Names : \A g \in present :
       (SwitchProfile(n) /\ faults' = faults /\ shot[n][g] # None) => lit'[g] = shot[n][g]]_vars

\* A poll that finds the same application in front as the poll before, with the
\* mappings unchanged, leaves the LEDs as requests and shows have set them.
SwitchedOnlyOnChange ==
  [][(phase = "apps" /\ focus' = focus) => UNCHANGED lit]_vars

===============================================================================
