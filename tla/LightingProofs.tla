---------------------------- MODULE LightingProofs ----------------------------
(***************************************************************************)
(* What holds of the lights of groups, whoever asks for them.  By the       *)
(* daemon's own requests (Lighting), for any groups, colors, profiles,      *)
(* mappings and bounds: the registry is truthful, and indications,          *)
(* temperature colors, profiles and application switches do what they       *)
(* promise.  By the clients of its OpenRGB server (OpenRgbServer), for any  *)
(* clients, controllers, pauses and time-outs: a group shows one frame that *)
(* was sent for it, LED for LED.                                            *)
(***************************************************************************)
EXTENDS Lighting, OpenRgbServer, SequenceTheorems, WellFoundedInduction, TLAPS

-----------------------------------------------------------------------------
(* What is set is a mode, and scenes are made of modes. *)

LEMMA ModeFacts ==
  /\ Off \in AllModes /\ Flash \in AllModes /\ Shades \subseteq AllModes
  /\ \A h \in Hues : Lit(h) \in AllModes
  /\ \A m \in AllModes, l \in Levels : WithBrightness(m, l) \in AllModes
  /\ None \notin AllModes
<1> DEFINE Palette == Colors \cup Hues \cup {White, Dark, Gradient}
<1>1. AllModes = {Mode(c, l) : c \in Palette, l \in Levels} /\ Full \in Levels
  BY LightingAssumption DEF AllModes
<1>2. \A c \in Palette, l \in Levels : Mode(c, l) \in AllModes
  BY <1>1
<1>3. \A m \in AllModes : m.color \in Palette
  BY <1>1 DEF Mode
<1>4. \A c \in Palette : Lit(c) \in AllModes
  BY <1>1, <1>2 DEF Lit
<1>5. Shades \subseteq AllModes
  BY <1>4 DEF Shades
<1>6. \A m \in AllModes, l \in Levels : WithBrightness(m, l) \in AllModes
  BY <1>2, <1>3 DEF WithBrightness
<1>7. None \notin AllModes
  BY LightingAssumption
<1>8. Off \in AllModes /\ Flash \in AllModes
  BY <1>4 DEF Off, Flash
<1>9. \A h \in Hues : Lit(h) \in AllModes
  BY <1>4
<1>. QED
  BY <1>5, <1>6, <1>7, <1>8, <1>9

LEMMA SceneFacts ==
  ASSUME TypeOK
  PROVE  /\ NoScene \in Scenes
         /\ \A groups \in SUBSET Groups, m \in AllModes : To(groups, m) \in Scenes
         /\ \A n \in Names \cup {None} : Scene(n) \in Scenes
         /\ Snapshot \in Scenes
         /\ \A found \in SUBSET Groups : Refreshed(found) \in Scenes
         /\ None \notin Scenes
<1>1. NoScene \in Scenes
  BY DEF NoScene, Scenes
<1>2. \A groups \in SUBSET Groups, m \in AllModes : To(groups, m) \in Scenes
  BY DEF To, Scenes
<1>3. \A n \in Names \cup {None} : Scene(n) \in Scenes
  BY <1>1 DEF Scene, TypeOK
<1>4. Snapshot \in Scenes
  BY ModeFacts DEF Snapshot, Scenes, TypeOK
<1>5. \A found \in SUBSET Groups : Refreshed(found) \in Scenes
  BY DEF Refreshed, Scenes, TypeOK
<1>6. None \notin Scenes
  BY LightingAssumption
<1>. QED
  BY <1>1, <1>2, <1>3, <1>4, <1>5, <1>6

-----------------------------------------------------------------------------
(* What a send does, whatever of it fails. *)

SendTyped ==
  /\ lit' \in [Groups -> AllModes]
  /\ mode' \in Scenes
  /\ torn' \subseteq Groups

LEMMA RequestTyped ==
  ASSUME TypeOK, Request
  PROVE  requests' \in 0..MaxRequests
  BY LightingAssumption, SMT DEF Request, TypeOK

LEMMA FaultyTyped ==
  ASSUME TypeOK, NEW happens \in BOOLEAN, Faulty(happens)
  PROVE  faults' \in 0..MaxFaults
  BY LightingAssumption, SMT DEF Faulty, TypeOK

LEMMA SendTypes ==
  ASSUME TypeOK, NEW to \in Scenes, NEW known \in Scenes, NEW here \in SUBSET Groups,
         NEW broken \in SUBSET Sendable(to, here), NEW half \in SUBSET broken,
         Send(to, here, known, broken, half)
  PROVE  /\ SendTyped
         /\ {g \in Groups : known[g] # None} \subseteq here
              => {g \in Groups : mode'[g] # None} \subseteq here
  BY DEF Send, Sendable, SendTyped, TypeOK, Scenes

LEMMA SendTruthful ==
  ASSUME TypeOK, StateTruthful, NEW to, NEW here, NEW known,
         \A g \in Groups : known[g] = None \/ known[g] = mode[g],
         NEW broken \in SUBSET Sendable(to, here), NEW half \in SUBSET broken,
         Send(to, here, known, broken, half)
  PROVE  StateTruthful'
<1> SUFFICES ASSUME NEW g \in Groups, g \notin torn', mode'[g] # None
             PROVE  lit'[g] = mode'[g]
  BY DEF StateTruthful
<1>1. CASE g \in Sendable(to, here) \ broken
  BY <1>1 DEF Send
<1>2. CASE g \notin Sendable(to, here) \ broken
  BY <1>2 DEF Send, StateTruthful
<1>. QED
  BY <1>1, <1>2

\* A command without a fault reaches every group that is there.
LEMMA CommandReaches ==
  ASSUME TypeOK, NEW to, Command(to), faults' = faults,
         NEW g \in present, to[g] # None, to[g].color # Gradient
  PROVE  lit'[g] = to[g]
<1>1. PICK broken \in SUBSET Sendable(to, present) : \E half \in SUBSET broken :
        Faulty(broken # {}) /\ Send(to, present, mode, broken, half)
  BY DEF Command
<1>2. PICK half \in SUBSET broken : Faulty(broken # {}) /\ Send(to, present, mode, broken, half)
  BY <1>1
<1>3. broken = {}
  BY <1>2, SMT DEF Faulty, TypeOK
<1>4. g \in Groups /\ g \in Sendable(to, present)
  BY DEF TypeOK, Sendable
<1>. QED
  BY <1>2, <1>3, <1>4 DEF Send

\* A command leaves alone the groups it does not name.
LEMMA CommandSpares ==
  ASSUME TypeOK, NEW to, Command(to), NEW g \in Groups, to[g] = None
  PROVE  lit'[g] = lit[g] /\ (g \in torn' <=> g \in torn) /\ mode'[g] = mode[g]
  BY DEF Command, Send, Sendable

LEMMA CommandTypes ==
  ASSUME TypeOK, NEW to \in Scenes, Command(to)
  PROVE  /\ SendTyped
         /\ {g \in Groups : mode'[g] # None} \subseteq present
         /\ faults' \in 0..MaxFaults
<1>1. PICK broken \in SUBSET Sendable(to, present) : \E half \in SUBSET broken :
        Faulty(broken # {}) /\ Send(to, present, mode, broken, half)
  BY DEF Command
<1>2. PICK half \in SUBSET broken : Faulty(broken # {}) /\ Send(to, present, mode, broken, half)
  BY <1>1
<1>3. faults' \in 0..MaxFaults
  BY <1>2, FaultyTyped
<1>4. /\ mode \in Scenes /\ present \in SUBSET Groups
      /\ {g \in Groups : mode[g] # None} \subseteq present
  BY DEF TypeOK
<1>5. SendTyped /\ {g \in Groups : mode'[g] # None} \subseteq present
  BY <1>1, <1>2, <1>4, SendTypes
<1>. QED
  BY <1>3, <1>5

LEMMA CommandTruthful ==
  ASSUME TypeOK, StateTruthful, NEW to, Command(to)
  PROVE  StateTruthful'
<1>1. PICK broken \in SUBSET Sendable(to, present) : \E half \in SUBSET broken :
        Send(to, present, mode, broken, half)
  BY DEF Command
<1>. QED
  BY <1>1, SendTruthful


-----------------------------------------------------------------------------
(* Types. *)

LEMMA TypesKept ==
  ASSUME TypeOK, [Next]_vars
  PROVE  TypeOK'
<1>0. CASE UNCHANGED vars
  BY <1>0 DEF vars, runners, Library, TypeOK
<1> USE ModeFacts, SceneFacts
<1>1. ASSUME NEW to \in Scenes, Set(to)
      PROVE  TypeOK'
  <2>1. /\ SendTyped /\ faults' \in 0..MaxFaults
        /\ {g \in Groups : mode'[g] # None} \subseteq present
    BY <1>1, CommandTypes DEF Set
  <2>2. requests' \in 0..MaxRequests
    BY <1>1, RequestTyped DEF Set
  <2>3. before' \in Scenes /\ byTemp' \subseteq Groups
    BY <1>1 DEF Set, Overrides, TypeOK, Scenes
  <2>. QED
    BY <1>1, <2>1, <2>2, <2>3 DEF Set, Idle, Library, runners, SendTyped, TypeOK
<1>2. ASSUME NEW n \in Names \cup {None}, NEW from, NEW to \in {"idle", "apps", "power", "schedule"},
             Applies(n, from, to)
      PROVE  /\ SendTyped /\ faults' \in 0..MaxFaults
             /\ {g \in Groups : mode'[g] # None} \subseteq present'
             /\ before' \in Scenes /\ byTemp' \subseteq Groups
             /\ phase' \in {"idle", "alerts", "apps", "power", "schedule"}
             /\ UNCHANGED <<present, restores, hue, lastHue, requests, profiles, shot>>
  <2>1. Scene(n) \in Scenes
    OBVIOUS
  <2>2. /\ SendTyped /\ faults' \in 0..MaxFaults
        /\ {g \in Groups : mode'[g] # None} \subseteq present
    BY <1>2, <2>1, CommandTypes DEF Applies
  <2>3. before' \in Scenes /\ byTemp' \subseteq Groups
    BY <1>2 DEF Applies, Overrides, TypeOK, Scenes
  <2>. QED
    BY <1>2, <2>2, <2>3 DEF Applies, Library
<1>3. ASSUME NEW groups \in SUBSET Groups, NEW m \in Shades, SetRgb(groups, m)
      PROVE  TypeOK'
  <2>1. To(groups, m) \in Scenes
    OBVIOUS
  <2>. QED
    BY <1>1, <1>3, <2>1 DEF SetRgb
<1>4. ASSUME NEW groups \in SUBSET Groups, NEW l \in Levels, SetBrightness(groups, l)
      PROVE  TypeOK'
  <2> DEFINE dimmed == [g \in Groups |-> IF g \in groups /\ mode[g] # None
                                         THEN WithBrightness(mode[g], l) ELSE None]
  <2>1. \A g \in Groups : mode[g] # None => mode[g] \in AllModes
    BY DEF TypeOK, Scenes
  <2>2. dimmed \in Scenes
    BY <2>1 DEF Scenes
  <2>3. Set(dimmed)
    BY <1>4 DEF SetBrightness
  <2>. QED
    BY ONLY <1>1, <2>2, <2>3
<1>5. ASSUME NEW n \in Names, SwitchProfile(n)
      PROVE  TypeOK'
  <2>1. Scene(n) \in Scenes
    OBVIOUS
  <2>. QED
    BY <1>1, <1>5, <2>1 DEF SwitchProfile
<1>6. ASSUME NEW n \in Names, SaveProfile(n)
      PROVE  TypeOK'
  <2>1. [g \in Groups |-> IF mode[g] # None /\ mode[g].color # Gradient /\ g \notin torn
                          THEN lit[g] ELSE None] \in Scenes
    BY DEF TypeOK, Scenes
  <2>2. profiles' \in [Names -> Scenes \cup {None}] /\ shot' \in [Names -> Scenes]
    BY <1>6, <2>1 DEF SaveProfile, TypeOK
  <2>3. requests' \in 0..MaxRequests
    BY <1>6, RequestTyped DEF SaveProfile
  <2>. QED
    BY <1>6, <2>2, <2>3 DEF SaveProfile, Idle, Keep, runners, TypeOK
<1>7. ASSUME NEW n \in Names, DeleteProfile(n)
      PROVE  TypeOK'
  <2>1. profiles' \in [Names -> Scenes \cup {None}] /\ shot' \in [Names -> Scenes]
    BY <1>7 DEF DeleteProfile, TypeOK
  <2>2. requests' \in 0..MaxRequests
    BY <1>7, RequestTyped DEF DeleteProfile
  <2>. QED
    BY <1>7, <2>1, <2>2 DEF DeleteProfile, Idle, Keep, runners, TypeOK
<1>8. ASSUME NEW from \in Names, NEW to \in Names, CopyProfile(from, to)
      PROVE  TypeOK'
  <2>1. profiles' \in [Names -> Scenes \cup {None}] /\ shot' \in [Names -> Scenes]
    BY <1>8 DEF CopyProfile, TypeOK
  <2>2. requests' \in 0..MaxRequests
    BY <1>8, RequestTyped DEF CopyProfile
  <2>. QED
    BY <1>8, <2>1, <2>2 DEF CopyProfile, Idle, Keep, runners, TypeOK
<1>9. ASSUME NEW m \in AppMaps, SetAppProfiles(m)
      PROVE  TypeOK'
  <2>1. requests' \in 0..MaxRequests
    BY <1>9, RequestTyped DEF SetAppProfiles
  <2>. QED
    BY <1>9, <2>1 DEF SetAppProfiles, Idle, Keep, Library, TypeOK
<1>10. ASSUME NEW m \in PowerMaps, SetPowerConfig(m)
       PROVE  TypeOK'
  <2>1. requests' \in 0..MaxRequests
    BY <1>10, RequestTyped DEF SetPowerConfig
  <2>. QED
    BY <1>10, <2>1 DEF SetPowerConfig, Idle, Keep, Library, TypeOK
<1>11. ASSUME NEW found \in SUBSET Groups, Discover(found)
       PROVE  TypeOK'
  <2>1. requests' \in 0..MaxRequests /\ faults' \in 0..MaxFaults
    BY <1>11, RequestTyped, FaultyTyped DEF Discover
  <2>2. mode' \in Scenes /\ {g \in Groups : mode'[g] # None} \subseteq found
    BY <1>11 DEF Discover, Refreshed
  <2>. QED
    BY <1>11, <2>1, <2>2 DEF Discover, Library, runners, TypeOK
<1>12. ASSUME NEW g \in Groups, Indicate(g)
       PROVE  TypeOK'
  <2>1. To({g}, Flash) \in Scenes
    OBVIOUS
  <2>2. /\ SendTyped /\ faults' \in 0..MaxFaults
        /\ {h \in Groups : mode'[h] # None} \subseteq present
    BY <1>12, <2>1, CommandTypes DEF Indicate, Indicates
  <2>3. requests' \in 0..MaxRequests
    BY <1>12, RequestTyped DEF Indicate, Indicates
  <2>4. restores' \in Scenes /\ before' \in Scenes /\ byTemp' \subseteq Groups
    BY <1>12 DEF Indicate, Indicates, TypeOK, Scenes
  <2>. QED
    BY <1>12, <2>2, <2>3, <2>4 DEF Indicate, Indicates, Idle, Library, runners, SendTyped, TypeOK
<1>13. ASSUME NEW g \in Groups, Restore(g)
       PROVE  TypeOK'
  <2>1. restores[g] \in AllModes
    BY <1>13 DEF Restore, TypeOK, Scenes
  <2>2. To({g}, restores[g]) \in Scenes
    BY <2>1
  <2>3. /\ SendTyped /\ faults' \in 0..MaxFaults
        /\ {h \in Groups : mode'[h] # None} \subseteq present
    BY <1>13, <2>2, CommandTypes DEF Restore
  <2>4. restores' \in Scenes /\ before' \in Scenes /\ byTemp' \subseteq Groups
    BY <1>13 DEF Restore, Overrides, TypeOK, Scenes
  <2>. QED
    BY <1>13, <2>3, <2>4 DEF Restore, Idle, Library, runners, SendTyped, TypeOK
<1>14. ASSUME NEW found \in SUBSET Groups, NEW reads \in [TempGroups -> Hues \cup {None}],
              Refresh(found, reads)
       PROVE  TypeOK'
  <2> DEFINE temp   == [g \in TempGroups |-> IF reads[g] # None THEN reads[g] ELSE hue[g]]
             tinted == Coloured(temp)
             to     == [g \in Groups |-> IF g \in tinted THEN Lit(temp[g]) ELSE None]
  <2>1. temp \in [TempGroups -> Hues \cup {None}]
    BY DEF TypeOK
  <2>2. tinted \subseteq Groups /\ \A g \in tinted : g \in TempGroups /\ temp[g] \in Hues
    BY <2>1 DEF Coloured, TempGroups
  <2>3. to \in Scenes
    BY <2>2 DEF Scenes
  <2>4. PICK broken \in SUBSET Sendable(to, found) : \E half \in SUBSET broken :
          /\ Faulty(broken # {} \/ present \ found # {})
          /\ Send(to, found, Refreshed(found), broken, half)
          /\ byTemp' = (byTemp \ tinted) \cup (tinted \cap (found \ broken))
    BY <1>14 DEF Refresh
  <2>5. PICK half \in SUBSET broken :
          /\ Faulty(broken # {} \/ present \ found # {})
          /\ Send(to, found, Refreshed(found), broken, half)
          /\ byTemp' = (byTemp \ tinted) \cup (tinted \cap (found \ broken))
    BY <2>4
  <2>6. {g \in Groups : Refreshed(found)[g] # None} \subseteq found
    BY DEF Refreshed
  <2>7. SendTyped /\ {g \in Groups : mode'[g] # None} \subseteq found
    BY <2>3, <2>4, <2>5, <2>6, SendTypes
  <2>8. faults' \in 0..MaxFaults
    BY <2>5, FaultyTyped
  <2>9. byTemp' \subseteq Groups
    BY <2>2, <2>5 DEF TypeOK
  <2>10. hue' \in [TempGroups -> Hues \cup {None}] /\ lastHue' \in [TempGroups -> Hues \cup {None}]
    BY <1>14, <2>1 DEF Refresh, TypeOK
  <2>11. before' \in Scenes
    BY <1>14 DEF Refresh, TypeOK, Scenes
  <2>12. /\ phase' = "alerts" /\ present' = found
         /\ UNCHANGED <<restores, apps, matched, power, lastAc, focus, requests, profiles, shot>>
    BY <1>14 DEF Refresh, Library
  <2> HIDE DEF temp, tinted, to
  <2>. QED
    BY <2>7, <2>8, <2>9, <2>10, <2>11, <2>12 DEF SendTyped, TypeOK
<1>15. ASSUME NEW n \in Names \cup {None}, Alerts(n) \/ Schedule(n)
       PROVE  TypeOK'
  <2>1. /\ SendTyped /\ faults' \in 0..MaxFaults
        /\ {g \in Groups : mode'[g] # None} \subseteq present'
        /\ before' \in Scenes /\ byTemp' \subseteq Groups
        /\ phase' \in {"idle", "alerts", "apps", "power", "schedule"}
        /\ UNCHANGED <<present, restores, hue, lastHue, requests, profiles, shot>>
    BY <1>2, <1>15 DEF Alerts, Schedule
  <2>. QED
    BY <1>15, <2>1 DEF Alerts, Schedule, SendTyped, TypeOK
<1>16. ASSUME NEW app \in Apps, AppProfile(app)
       PROVE  TypeOK'
  <2>1. apps[app] \in Names \cup {None} /\ AppSwitch(app) \in Names \cup {None}
    BY LightingAssumption DEF AppSwitch, TypeOK
  <2>2. /\ SendTyped /\ faults' \in 0..MaxFaults
        /\ {g \in Groups : mode'[g] # None} \subseteq present'
        /\ before' \in Scenes /\ byTemp' \subseteq Groups
        /\ phase' \in {"idle", "alerts", "apps", "power", "schedule"}
        /\ UNCHANGED <<present, restores, hue, lastHue, requests, profiles, shot>>
    BY <1>2, <1>16, <2>1 DEF AppProfile
  <2>. QED
    BY <1>16, <2>1, <2>2 DEF AppProfile, SendTyped, TypeOK
<1>17. ASSUME NEW ac \in BOOLEAN, PowerProfile(ac)
       PROVE  TypeOK'
  <2>1. PowerSwitch(ac) \in Names \cup {None}
    BY LightingAssumption DEF PowerSwitch, TypeOK
  <2>2. /\ SendTyped /\ faults' \in 0..MaxFaults
        /\ {g \in Groups : mode'[g] # None} \subseteq present'
        /\ before' \in Scenes /\ byTemp' \subseteq Groups
        /\ phase' \in {"idle", "alerts", "apps", "power", "schedule"}
        /\ UNCHANGED <<present, restores, hue, lastHue, requests, profiles, shot>>
    BY <1>2, <1>17, <2>1 DEF PowerProfile
  <2>. QED
    BY <1>17, <2>2 DEF PowerProfile, SendTyped, TypeOK
<1>. QED
  BY <1>0, <1>3, <1>4, <1>5, <1>6, <1>7, <1>8, <1>9, <1>10, <1>11, <1>12, <1>13,
     <1>14, <1>15, <1>16, <1>17 DEF Next


-----------------------------------------------------------------------------
(* The steps, as the invariants below see them. *)

Commands(to) == Command(to) /\ Overrides(to) /\ UNCHANGED <<restores, hue, lastHue>>
Bookkeeping == UNCHANGED <<lit, mode, torn, byTemp, before, restores, hue, lastHue>>

LEMMA Shapes ==
  ASSUME [Next]_vars
  PROVE  \/ \E to : Commands(to)
         \/ \E g \in Groups : Indicate(g) \/ Restore(g)
         \/ \E found \in SUBSET Groups : Discover(found)
         \/ \E found \in SUBSET Groups, reads \in [TempGroups -> Hues \cup {None}] :
              Refresh(found, reads)
         \/ Bookkeeping
<1>0. CASE UNCHANGED vars
  BY <1>0 DEF vars, runners, Bookkeeping
<1>1. ASSUME NEW to, Set(to) PROVE Commands(to)
  BY <1>1 DEF Set, Commands, runners
<1>2. ASSUME NEW n, NEW from, NEW to, Applies(n, from, to) PROVE Commands(Scene(n))
  BY <1>2 DEF Applies, Commands
<1>3. ASSUME NEW groups, NEW m, SetRgb(groups, m) PROVE Commands(To(groups, m))
  BY <1>1, <1>3 DEF SetRgb
<1>4. ASSUME NEW groups, NEW l, SetBrightness(groups, l) PROVE \E to : Commands(to)
  BY <1>1, <1>4 DEF SetBrightness
<1>5. ASSUME NEW n, SwitchProfile(n) PROVE Commands(Scene(n))
  BY <1>1, <1>5 DEF SwitchProfile
<1>6. ASSUME NEW n, SaveProfile(n) \/ DeleteProfile(n) PROVE Bookkeeping
  BY <1>6 DEF SaveProfile, DeleteProfile, Keep, runners, Bookkeeping
<1>7. ASSUME NEW from, NEW to, CopyProfile(from, to) PROVE Bookkeeping
  BY <1>7 DEF CopyProfile, Keep, runners, Bookkeeping
<1>8. ASSUME NEW m, SetAppProfiles(m) \/ SetPowerConfig(m) PROVE Bookkeeping
  BY <1>8 DEF SetAppProfiles, SetPowerConfig, Keep, Bookkeeping
<1>9. ASSUME NEW n, Alerts(n) \/ Schedule(n) PROVE Commands(Scene(n))
  BY <1>2, <1>9 DEF Alerts, Schedule
<1>10. ASSUME NEW app, AppProfile(app) PROVE \E to : Commands(to)
  BY <1>2, <1>10 DEF AppProfile
<1>11. ASSUME NEW ac, PowerProfile(ac) PROVE \E to : Commands(to)
  BY <1>2, <1>11 DEF PowerProfile
<1>. QED
  BY <1>0, <1>3, <1>4, <1>5, <1>6, <1>7, <1>8, <1>9, <1>10, <1>11 DEF Next

\* What a poll does to the lights.
Tints(found, temp) ==
  LET tinted == Coloured(temp)
      to     == [g \in Groups |-> IF g \in tinted THEN Lit(temp[g]) ELSE None]
  IN  \E broken \in SUBSET Sendable(to, found) : \E half \in SUBSET broken :
        /\ Send(to, found, Refreshed(found), broken, half)
        /\ byTemp' = (byTemp \ tinted) \cup (tinted \cap (found \ broken))

Latest(reads) == [g \in TempGroups |-> IF reads[g] # None THEN reads[g] ELSE hue[g]]

LEMMA RefreshTints ==
  ASSUME NEW found \in SUBSET Groups, NEW reads, Refresh(found, reads)
  PROVE  Tints(found, Latest(reads)) /\ hue' = Latest(reads)
  BY DEF Refresh, Tints, Latest

-----------------------------------------------------------------------------
(* The invariants. *)

LEMMA TruthfulKept ==
  ASSUME TypeOK, StateTruthful, [Next]_vars
  PROVE  StateTruthful'
<1>1. ASSUME NEW to, Command(to) PROVE StateTruthful'
  BY <1>1, CommandTruthful
<1>2. ASSUME NEW to, Commands(to) PROVE StateTruthful'
  BY <1>1, <1>2 DEF Commands
<1>3. ASSUME NEW g, Indicate(g) \/ Restore(g) PROVE StateTruthful'
  BY <1>1, <1>3 DEF Indicate, Indicates, Restore
<1>4. ASSUME NEW found, Discover(found) PROVE StateTruthful'
  BY <1>4 DEF Discover, Refreshed, StateTruthful
<1>5. ASSUME NEW found \in SUBSET Groups, NEW reads, Refresh(found, reads)
      PROVE  StateTruthful'
  <2> DEFINE tinted == Coloured(Latest(reads))
             to     == [g \in Groups |-> IF g \in tinted THEN Lit(Latest(reads)[g]) ELSE None]
  <2>1. PICK broken \in SUBSET Sendable(to, found) : \E half \in SUBSET broken :
          Send(to, found, Refreshed(found), broken, half)
    BY <1>5, RefreshTints DEF Tints
  <2>2. \A g \in Groups : Refreshed(found)[g] = None \/ Refreshed(found)[g] = mode[g]
    BY DEF Refreshed
  <2> HIDE DEF to, tinted
  <2>. QED
    BY <2>1, <2>2, SendTruthful
<1>6. CASE Bookkeeping
  BY <1>6 DEF Bookkeeping, StateTruthful
<1>. QED
  BY <1>2, <1>3, <1>4, <1>5, <1>6, Shapes

\* A flash remembers what it will bring back.
FlashKept == \A g \in Groups : before[g] # None => /\ restores[g] = before[g]
                                                   /\ before[g].color # Gradient

LEMMA FlashKeptKept ==
  ASSUME TypeOK, StateTruthful, FlashKept, [Next]_vars
  PROVE  FlashKept'
<1>1. ASSUME NEW to, Commands(to) PROVE FlashKept'
  BY <1>1 DEF Commands, Overrides, FlashKept
<1>2. ASSUME NEW g \in Groups, Indicate(g) PROVE FlashKept'
  <2> SUFFICES ASSUME NEW h \in Groups, before'[h] # None
               PROVE  restores'[h] = before'[h] /\ before'[h].color # Gradient
    BY DEF FlashKept
  <2>1. CASE h = g
    <3>1. before'[g] = lit[g] /\ Certain(g) /\ restores'[g] = mode[g]
      BY <1>2, <2>1 DEF Indicate, Indicates, Certain, TypeOK, Scenes
    <3>2. lit[g] = mode[g]
      BY <3>1 DEF Certain, StateTruthful
    <3>. QED
      BY <2>1, <3>1, <3>2 DEF Certain
  <2>2. CASE h # g
    BY <1>2, <2>2 DEF Indicate, Indicates, FlashKept, TypeOK, Scenes
  <2>. QED
    BY <2>1, <2>2
<1>3. ASSUME NEW g \in Groups, Restore(g) PROVE FlashKept'
  BY <1>3 DEF Restore, Overrides, To, FlashKept, TypeOK, Scenes
<1>4. ASSUME NEW found, Discover(found) PROVE FlashKept'
  BY <1>4 DEF Discover, FlashKept
<1>5. ASSUME NEW found, NEW reads, Refresh(found, reads) PROVE FlashKept'
  BY <1>5 DEF Refresh, FlashKept
<1>6. CASE Bookkeeping
  BY <1>6 DEF Bookkeeping, FlashKept
<1>. QED
  BY <1>1, <1>2, <1>3, <1>4, <1>5, <1>6, Shapes

\* The runner has sent, or tried to send, the latest color.
HueNoted == \A g \in TempGroups : lastHue[g] = hue[g]

LEMMA HueNotedKept ==
  ASSUME TypeOK, HueNoted, [Next]_vars
  PROVE  HueNoted'
<1>1. ASSUME NEW found, NEW reads, Refresh(found, reads) PROVE HueNoted'
  BY <1>1 DEF Refresh, Coloured, HueNoted
<1>2. CASE UNCHANGED <<hue, lastHue>>
  BY <1>2 DEF HueNoted
<1>. QED
  BY <1>1, <1>2, Shapes
  DEF Commands, Indicate, Indicates, Restore, Discover, runners, Bookkeeping

LEMMA TempFollowsKept ==
  ASSUME TypeOK, HueNoted, TempFollows, [Next]_vars
  PROVE  TempFollows'
<1>0. TempGroups \subseteq Groups
  BY DEF TempGroups
<1>1. ASSUME NEW to, Commands(to) PROVE TempFollows'
  <2> SUFFICES ASSUME NEW g \in TempGroups, g \in byTemp', g \notin torn'
               PROVE  lit'[g] = Lit(hue'[g])
    BY DEF TempFollows
  <2>1. to[g] = None /\ g \in byTemp /\ hue' = hue
    BY <1>0, <1>1 DEF Commands, Overrides
  <2>2. lit'[g] = lit[g] /\ g \notin torn
    BY <1>0, <1>1, <2>1, CommandSpares DEF Commands
  <2>. QED
    BY <2>1, <2>2 DEF TempFollows
<1>2. ASSUME NEW h \in Groups, NEW m, Command(To({h}, m)), byTemp' = byTemp \ {h}, hue' = hue
      PROVE  TempFollows'
  <2> SUFFICES ASSUME NEW g \in TempGroups, g \in byTemp', g \notin torn'
               PROVE  lit'[g] = Lit(hue'[g])
    BY DEF TempFollows
  <2>1. To({h}, m)[g] = None /\ g \in byTemp
    BY <1>0, <1>2 DEF To
  <2>2. lit'[g] = lit[g] /\ g \notin torn
    BY <1>0, <1>2, <2>1, CommandSpares
  <2>. QED
    BY <1>2, <2>1, <2>2 DEF TempFollows
<1>3. ASSUME NEW g \in Groups, Indicate(g) \/ Restore(g) PROVE TempFollows'
  <2>1. CASE Indicate(g)
    BY <1>2, <2>1 DEF Indicate, Indicates, runners
  <2>2. CASE Restore(g)
    <3>1. byTemp' = byTemp \ {g}
      BY <2>2 DEF Restore, Overrides, To
    <3>. QED
      BY <1>2, <2>2, <3>1 DEF Restore, runners
  <2>. QED
    BY <1>3, <2>1, <2>2
<1>4. ASSUME NEW found, Discover(found) PROVE TempFollows'
  BY <1>4 DEF Discover, runners, TempFollows
<1>5. ASSUME NEW found \in SUBSET Groups, NEW reads \in [TempGroups -> Hues \cup {None}],
             Refresh(found, reads)
      PROVE  TempFollows'
  <2> DEFINE temp   == Latest(reads)
             tinted == Coloured(temp)
             to     == [g \in Groups |-> IF g \in tinted THEN Lit(temp[g]) ELSE None]
  <2>1. PICK broken \in SUBSET Sendable(to, found) : \E half \in SUBSET broken :
          /\ Send(to, found, Refreshed(found), broken, half)
          /\ byTemp' = (byTemp \ tinted) \cup (tinted \cap (found \ broken))
    BY <1>5, RefreshTints DEF Tints
  <2>2. PICK half \in SUBSET broken :
          /\ Send(to, found, Refreshed(found), broken, half)
          /\ byTemp' = (byTemp \ tinted) \cup (tinted \cap (found \ broken))
    BY <2>1
  <2>3. hue' = temp /\ temp \in [TempGroups -> Hues \cup {None}]
    BY <1>5, RefreshTints DEF Latest, TypeOK
  <2> SUFFICES ASSUME NEW g \in TempGroups, g \in byTemp', g \notin torn'
               PROVE  lit'[g] = Lit(temp[g])
    BY <2>3 DEF TempFollows
  <2>4. CASE g \in tinted
    <3>1. g \in found \ broken /\ to[g] = Lit(temp[g]) /\ temp[g] \in Hues
      BY <1>0, <2>2, <2>3, <2>4 DEF Coloured
    <3>2. to[g] # None /\ to[g].color # Gradient
      BY <3>1, ModeFacts, LightingAssumption DEF Lit, Mode
    <3>3. g \in Sendable(to, found) \ broken
      BY <3>1, <3>2 DEF Sendable
    <3> HIDE DEF to
    <3>. QED
      BY <1>0, <2>2, <3>1, <3>3 DEF Send
  <2>5. CASE g \notin tinted
    <3>1. g \in byTemp /\ to[g] = None
      BY <1>0, <2>2, <2>5
    <3>2. temp[g] = hue[g]
      BY <2>5 DEF Coloured, Latest, HueNoted
    <3>3. g \notin Sendable(to, found) /\ g \notin broken /\ g \notin half
      BY <2>1, <2>2, <3>1 DEF Sendable
    <3> HIDE DEF to
    <3>4. lit'[g] = lit[g] /\ g \notin torn
      BY <1>0, <2>2, <3>3 DEF Send
    <3>. QED
      BY <3>1, <3>2, <3>4 DEF TempFollows
  <2>. QED
    BY <2>4, <2>5
<1>6. CASE Bookkeeping
  BY <1>6 DEF Bookkeeping, TempFollows
<1>. QED
  BY <1>1, <1>3, <1>4, <1>5, <1>6, Shapes


\* A profile has, for a group that was known, what it showed.
ShotKept == \A n \in Names, g \in Groups : shot[n][g] # None =>
  /\ profiles[n] # None
  /\ profiles[n][g] = shot[n][g]
  /\ shot[n][g].color # Gradient

LEMMA ShotKeptKept ==
  ASSUME TypeOK, StateTruthful, ShotKept, [Next]_vars
  PROVE  ShotKept'
<1>1. CASE UNCHANGED Library
  BY <1>1 DEF Library, ShotKept
<1>2. ASSUME NEW n \in Names, SaveProfile(n) PROVE ShotKept'
  <2> SUFFICES ASSUME NEW k \in Names, NEW g \in Groups, shot'[k][g] # None
               PROVE  /\ profiles'[k] # None
                      /\ profiles'[k][g] = shot'[k][g]
                      /\ shot'[k][g].color # Gradient
    BY DEF ShotKept
  <2>1. CASE k = n
    <3>1. /\ profiles'[k] = Snapshot
          /\ shot'[k][g] = lit[g] /\ mode[g] # None /\ mode[g].color # Gradient /\ g \notin torn
      BY <1>2, <2>1 DEF SaveProfile, TypeOK
    <3>2. g \in present /\ lit[g] = mode[g]
      BY <3>1 DEF TypeOK, StateTruthful
    <3>3. Snapshot[g] = mode[g] /\ Snapshot # None
      BY <3>1, <3>2, SceneFacts DEF Snapshot
    <3>. QED
      BY <3>1, <3>2, <3>3
  <2>2. CASE k # n
    BY <1>2, <2>2 DEF SaveProfile, ShotKept, TypeOK
  <2>. QED
    BY <2>1, <2>2
<1>3. ASSUME NEW n \in Names, DeleteProfile(n) PROVE ShotKept'
  BY <1>3 DEF DeleteProfile, NoScene, ShotKept, TypeOK
<1>4. ASSUME NEW from \in Names, NEW to \in Names, CopyProfile(from, to) PROVE ShotKept'
  BY <1>4 DEF CopyProfile, ShotKept, TypeOK
<1>. QED
  BY <1>1, <1>2, <1>3, <1>4
  DEF Next, vars, Library, SetRgb, SwitchProfile, SetBrightness, Set, SetAppProfiles,
      SetPowerConfig, Discover, Indicate, Indicates, Restore, Refresh, Alerts, Schedule,
      AppProfile, PowerProfile, Applies

\* The profile of the last application is on record.
MatchNoted == focus # None /\ Mapped => matched = apps[focus]

LEMMA MatchNotedKept ==
  ASSUME MatchNoted, [Next]_vars
  PROVE  MatchNoted'
<1>1. CASE UNCHANGED <<apps, matched, focus>>
  BY <1>1 DEF Mapped, MatchNoted
<1>2. ASSUME NEW m, SetAppProfiles(m) PROVE MatchNoted'
  BY <1>2 DEF SetAppProfiles, MatchNoted
<1>3. ASSUME NEW app, AppProfile(app) PROVE MatchNoted'
  BY <1>3 DEF AppProfile, Mapped, MatchNoted
<1>. QED
  BY <1>1, <1>2, <1>3
  DEF Next, vars, runners, SetRgb, SwitchProfile, SetBrightness, Set, SaveProfile,
      DeleteProfile, CopyProfile, SetPowerConfig, Discover, Indicate, Indicates, Restore,
      Refresh, Alerts, Schedule, PowerProfile

IInv == /\ TypeOK /\ StateTruthful /\ FlashKept /\ HueNoted /\ TempFollows
        /\ ShotKept /\ MatchNoted

LEMMA InitHolds == Init => IInv
<1> SUFFICES ASSUME Init PROVE IInv
  OBVIOUS
<1>1. TypeOK
  <2>1. NoScene \in Scenes
    BY DEF NoScene, Scenes
  <2>2. mode \in Scenes /\ {g \in Groups : mode[g] # None} \subseteq present
    BY LightingAssumption, ModeFacts DEF Init, Scenes
  <2>3. \A c \in Colors \cup {Dark} : Lit(c) \in AllModes
    BY ModeFacts DEF Shades
  <2>4. lit \in [Groups -> AllModes]
    BY <2>3 DEF Init
  <2>5. requests \in 0..MaxRequests /\ faults \in 0..MaxFaults
    BY LightingAssumption, SMT DEF Init
  <2>. QED
    BY <2>1, <2>2, <2>4, <2>5 DEF Init, TypeOK
<1>2. StateTruthful
  BY DEF Init, StateTruthful
<1>. QED
  BY <1>1, <1>2
  DEF IInv, Init, NoScene, FlashKept, HueNoted, TempFollows, ShotKept, MatchNoted

\* The registry, the runners, the profiles and the LEDs agree in every state.
THEOREM Inductive == Spec => []IInv
<1>1. IInv /\ [Next]_vars => IInv'
  BY TypesKept, TruthfulKept, FlashKeptKept, HueNotedKept, TempFollowsKept, ShotKeptKept,
     MatchNotedKept
  DEF IInv
<1>. QED
  BY <1>1, InitHolds, PTL DEF Spec

\* Every variable has its type.
THEOREM TypeCorrect == Spec => []TypeOK
  BY Inductive, PTL DEF IInv

\* What the registry says a group shows, it shows, unless a send to it was cut
\* between its two rounds (System::set_rgb, RfBackend::send_rgb).
THEOREM StateTruthfulHolds == Spec => []StateTruthful
  BY Inductive, PTL DEF IInv

\* A group colored by temperature shows the color of the latest reading.
THEOREM TempFollowsHolds == Spec => []TempFollows
  BY Inductive, PTL DEF IInv

\* An indication that nothing else interferes with is undone when it ends.
THEOREM FlashUndoneHolds == Spec => FlashUndone
<1> DEFINE Undone == \A g \in present :
       (restores[g] # None /\ restores'[g] = None /\ before[g] # None /\ faults' = faults)
         => lit'[g] = before[g]
<1>1. IInv /\ [Next]_vars => [Undone]_vars
  <2> SUFFICES ASSUME IInv, Next, NEW g \in present, restores[g] # None, restores'[g] = None,
                      before[g] # None, faults' = faults
               PROVE  lit'[g] = before[g]
    OBVIOUS
  <2>1. TypeOK /\ FlashKept /\ g \in Groups
    BY DEF IInv, TypeOK
  <2>2. PICK h \in Groups : Indicate(h) \/ Restore(h)
    BY Shapes DEF Commands, Discover, Refresh, Bookkeeping
  <2>3. CASE Indicate(h)
    BY <2>1, <2>3, ModeFacts DEF Indicate, Indicates, TypeOK, Scenes
  <2>4. CASE Restore(h)
    <3>1. h = g
      BY <2>1, <2>4 DEF Restore, TypeOK, Scenes
    <3>2. Command(To({g}, restores[g])) /\ To({g}, restores[g])[g] = before[g]
      BY <2>1, <2>4, <3>1 DEF Restore, To, FlashKept
    <3>3. before[g].color # Gradient
      BY <2>1 DEF FlashKept
    <3>. QED
      BY <2>1, <3>2, <3>3, CommandReaches
  <2>. QED
    BY <2>2, <2>3, <2>4
<1>. QED
  BY <1>1, Inductive, PTL DEF Spec, FlashUndone

\* Switching to a profile brings back what its groups showed when it was saved.
THEOREM ProfileShowsHolds == Spec => ProfileShows
<1> DEFINE Shows == \A n \in Names : \A g \in present :
       (SwitchProfile(n) /\ faults' = faults /\ shot[n][g] # None) => lit'[g] = shot[n][g]
<1>1. IInv /\ [Next]_vars => [Shows]_vars
  <2> SUFFICES ASSUME IInv, NEW n \in Names, NEW g \in present, SwitchProfile(n),
                      faults' = faults, shot[n][g] # None
               PROVE  lit'[g] = shot[n][g]
    OBVIOUS
  <2>1. TypeOK /\ g \in Groups
    BY DEF IInv, TypeOK
  <2>2. profiles[n] # None /\ profiles[n][g] = shot[n][g] /\ shot[n][g].color # Gradient
    BY <2>1 DEF IInv, ShotKept
  <2>3. Command(Scene(n)) /\ Scene(n)[g] = shot[n][g]
    BY <2>2, LightingAssumption DEF SwitchProfile, Set, Scene
  <2>. QED
    BY <2>1, <2>2, <2>3, CommandReaches
<1>. QED
  BY <1>1, Inductive, PTL DEF Spec, ProfileShows

\* A poll that finds the application it found before sends nothing for it.
THEOREM SwitchedOnlyOnChangeHolds == Spec => SwitchedOnlyOnChange
<1> DEFINE Stays == (phase = "apps" /\ focus' = focus) => UNCHANGED lit
<1>1. IInv /\ [Next]_vars => [Stays]_vars
  <2> SUFFICES ASSUME IInv, Next, phase = "apps", focus' = focus
               PROVE  lit' = lit
    OBVIOUS
  <2>1. PICK app \in Apps : AppProfile(app)
    BY DEF Next, SetRgb, SwitchProfile, SetBrightness, Set, SaveProfile, DeleteProfile,
           CopyProfile, SetAppProfiles, SetPowerConfig, Discover, Indicate, Indicates,
           Restore, Refresh, Alerts, Schedule, PowerProfile, Applies, Idle
  <2>2. focus = app /\ app # None
    BY <2>1, LightingAssumption DEF AppProfile
  <2>3. AppSwitch(app) = None
    BY <2>2 DEF IInv, MatchNoted, AppSwitch
  <2>4. Command(NoScene)
    BY <2>1, <2>3 DEF AppProfile, Applies, Scene
  <2>5. \A g \in Groups : lit'[g] = lit[g]
    BY <2>4, CommandSpares DEF IInv, NoScene
  <2>6. lit \in [Groups -> AllModes] /\ lit' \in [Groups -> AllModes]
    BY TypesKept DEF IInv, TypeOK
  <2>. QED
    BY <2>5, <2>6
<1>. QED
  BY <1>1, Inductive, PTL DEF Spec, SwitchedOnlyOnChange

-----------------------------------------------------------------------------
(* Induction, from the least member of a set of naturals. *)

\* A set of naturals that has 0, and n + 1 with every n, has them all.
LEMMA Induction ==
  ASSUME NEW T, 0 \in T, \A n \in Nat : n \in T => n + 1 \in T
  PROVE  Nat \subseteq T
<1> SUFFICES ASSUME ~(Nat \subseteq T) PROVE FALSE
  OBVIOUS
<1> DEFINE R == {ss \in Nat \X Nat : ss[1] < ss[2]}
           B == Nat \ T
<1>1. IsWellFoundedOn(R, Nat)
  BY NatLessThanWellFounded DEF OpToRel
<1>2. B \subseteq Nat /\ B # {}
  OBVIOUS
<1>3. PICK x \in B : \A y \in B : <<y, x>> \notin R
  <2> HIDE DEF R, B
  <2> QED BY <1>1, <1>2, WFMin
<1>4. x \in Nat /\ x # 0 /\ x - 1 \in Nat /\ x - 1 \in B
  OBVIOUS
<1>5. <<x - 1, x>> \in R
  BY <1>4
<1> QED BY <1>3, <1>4, <1>5

-----------------------------------------------------------------------------
(* The colours of a frame, laid out, parsed, cut into fans and rings and put together again. *)

\* What is parsed for LED i of a frame: its colour, or what lies two bytes before it.
Lands(c, n, i) ==
  IF Layout[c] = "backend"
  THEN <<IF i = 1 THEN <<0>> ELSE Colour(c, n, i - 1)[2], Colour(c, n, i)[1]>>
  ELSE Colour(c, n, i)

\* The LEDs of a frame from a + 1 to a + m.
Part(c, n, a, m) == [k \in 1..m |-> Lands(c, n, a + k)]
Leds == {Lands(c, n, i) : c \in Clients, n \in Nat, i \in Nat}
Parsed(c, n, k) == ParseColors(Payload(c, n, k))

PartShape(c, n, a, m) ==
  /\ Part(c, n, a, m) \in Seq(Leds) /\ Len(Part(c, n, a, m)) = m
  /\ \A k \in 1..m : Part(c, n, a, m)[k] = Lands(c, n, a + k)

LEMMA PartFacts ==
  ASSUME NEW c \in Clients, NEW n \in Nat
  PROVE  \A a, m \in Nat : PartShape(c, n, a, m)
<1> SUFFICES ASSUME NEW a \in Nat, NEW m \in Nat PROVE PartShape(c, n, a, m)
  OBVIOUS
<1>1. \A k \in 1..m : Lands(c, n, a + k) \in Leds
  BY DEF Leds
<1>2. Part(c, n, a, m) \in [1..m -> Leds]
  BY <1>1 DEF Part
<1> QED BY <1>2 DEF Part, PartShape

\* Equal lists.
LEMMA SameList ==
  ASSUME NEW S, NEW s \in Seq(S), NEW t \in Seq(S), Len(s) = Len(t),
         \A k \in 1..Len(s) : s[k] = t[k]
  PROVE  s = t
BY SeqEqual

LEMMA PartSlice ==
  ASSUME NEW c \in Clients, NEW n \in Nat, NEW m \in Nat, NEW a \in Nat, NEW p \in Nat,
         a + p <= m
  PROVE  Slice(Part(c, n, 0, m), a + 1, a + p) = Part(c, n, a, p)
<1> DEFINE s == Part(c, n, 0, m)
           t == SubSeq(s, a + 1, a + p)
<1>1. s \in Seq(Leds) /\ Len(s) = m /\ \A k \in 1..m : s[k] = Lands(c, n, 0 + k)
  <2>1. PartShape(c, n, 0, m)
    BY PartFacts
  <2> QED BY <2>1 DEF PartShape
<1> HIDE DEF s
<1>2. Slice(s, a + 1, a + p) = t
  BY <1>1 DEF Slice
<1>3. t \in Seq(Leds) /\ Len(t) = p /\ \A k \in 1..p : t[k] = s[a + k]
  <2>1. /\ a + 1 \in 1..Len(s) + 1 /\ a + p \in (a + 1) - 1..Len(s)
    BY <1>1
  <2>2. \A i \in a + 1..a + p : s[i] \in Leds
    BY <1>1
  <2>3. t = [k \in 1..(a + p) - (a + 1) + 1 |-> s[k + (a + 1) - 1]]
    BY <1>1 DEF SubSeq
  <2>4. (a + p) - (a + 1) + 1 = p
    OBVIOUS
  <2>5. \A k \in 1..p : k + (a + 1) - 1 = a + k
    OBVIOUS
  <2>6. t = [k \in 1..p |-> s[a + k]]
    BY <2>3, <2>4, <2>5
  <2>7. \A k \in 1..p : s[a + k] \in Leds
    BY <1>1
  <2> HIDE DEF t
  <2>8. t \in [1..p -> Leds]
    BY <2>6, <2>7
  <2>9. t \in Seq(Leds) /\ Len(t) = p
    BY <2>8
  <2>10. \A k \in 1..p : t[k] = s[a + k]
    BY <2>6
  <2> QED BY <2>9, <2>10
<1>4. Part(c, n, a, p) \in Seq(Leds) /\ Len(Part(c, n, a, p)) = p
      /\ \A k \in 1..p : Part(c, n, a, p)[k] = Lands(c, n, a + k)
  <2>1. PartShape(c, n, a, p)
    BY PartFacts
  <2> QED BY <2>1 DEF PartShape
<1>5. \A k \in 1..p : t[k] = Lands(c, n, a + k)
  <2> HIDE DEF t
  <2>1. \A k \in 1..p : a + k \in 1..m /\ 0 + (a + k) = a + k
    OBVIOUS
  <2>2. \A k \in 1..p : s[a + k] = Lands(c, n, 0 + (a + k))
    BY <1>1, <2>1
  <2> QED BY <1>3, <2>1, <2>2
<1>6. t = Part(c, n, a, p)
  <2> HIDE DEF t
  <2> QED BY <1>3, <1>4, <1>5, SameList
<1> QED BY <1>2, <1>6 DEF s

LEMMA PartJoin ==
  ASSUME NEW c \in Clients, NEW n \in Nat, NEW a \in Nat, NEW m \in Nat, NEW p \in Nat
  PROVE  Part(c, n, a, m) \o Part(c, n, a + m, p) = Part(c, n, a, m + p)
<1>1. /\ Part(c, n, a, m) \in Seq(Leds) /\ Len(Part(c, n, a, m)) = m
      /\ \A k \in 1..m : Part(c, n, a, m)[k] = Lands(c, n, a + k)
  <2>1. PartShape(c, n, a, m)
    BY PartFacts
  <2> QED BY <2>1 DEF PartShape
<1>2. /\ Part(c, n, a + m, p) \in Seq(Leds) /\ Len(Part(c, n, a + m, p)) = p
      /\ \A k \in 1..p : Part(c, n, a + m, p)[k] = Lands(c, n, (a + m) + k)
  <2>1. PICK x \in Nat : x = a + m
    OBVIOUS
  <2>2. PartShape(c, n, x, p)
    BY PartFacts
  <2> QED BY <2>1, <2>2 DEF PartShape
<1>3. /\ Part(c, n, a, m + p) \in Seq(Leds) /\ Len(Part(c, n, a, m + p)) = m + p
      /\ \A k \in 1..m + p : Part(c, n, a, m + p)[k] = Lands(c, n, a + k)
  <2>1. PICK x \in Nat : x = m + p
    OBVIOUS
  <2>2. PartShape(c, n, a, x)
    BY PartFacts
  <2> QED BY <2>1, <2>2 DEF PartShape
<1>4. PICK s \in Seq(Leds), t \in Seq(Leds), u \in Seq(Leds) :
        s = Part(c, n, a, m) /\ t = Part(c, n, a + m, p) /\ u = Part(c, n, a, m + p)
  BY <1>1, <1>2, <1>3
<1>5. s \o t \in Seq(Leds) /\ Len(s \o t) = m + p
  <2>1. Len(s) = m /\ Len(t) = p
    BY <1>1, <1>2, <1>4
  <2> QED BY <2>1
<1>6. ASSUME NEW k \in 1..m + p PROVE (s \o t)[k] = u[k]
  <2>1. u[k] = Lands(c, n, a + k)
    BY <1>3, <1>4
  <2>2. CASE k <= m
    <3>1. (s \o t)[k] = s[k] /\ k \in 1..m
      BY <1>1, <1>2, <1>4, <2>2
    <3>2. s[k] = Lands(c, n, a + k)
      BY <1>1, <1>4, <3>1
    <3> QED BY <2>1, <3>1, <3>2
  <2>3. CASE ~(k <= m)
    <3>0. k - m \in 1..p /\ k > m /\ k <= m + p /\ Len(s) = m /\ Len(t) = p
      BY <1>1, <1>2, <1>4, <2>3
    <3>4. (s \o t)[k] = t[k - m]
      BY <3>0
    <3>5. PICK d \in Nat : d = k - m /\ k = m + d
      BY <3>0
    <3>6. (a + m) + d = a + (m + d)
      OBVIOUS
    <3>1. (s \o t)[k] = t[k - m] /\ k - m \in 1..p /\ (a + m) + (k - m) = a + k
      BY <3>0, <3>4, <3>5, <3>6
    <3>2. t[k - m] = Lands(c, n, (a + m) + (k - m))
      BY <1>2, <1>4, <3>1
    <3> QED BY <2>1, <3>1, <3>2
  <2> QED BY <2>2, <2>3
<1>7. s \o t = u
  BY <1>3, <1>4, <1>5, <1>6, SameList
<1> QED BY <1>4, <1>7

\* The two rings of a whole fan are the fan.
LEMMA PartFan ==
  ASSUME NEW c \in Clients, NEW n \in Nat, NEW a \in Nat
  PROVE  FanLeds(Part(c, n, a, PerFan)) = Part(c, n, a, PerFan)
<1> DEFINE s == Part(c, n, a, PerFan)
<1>1. Inner \in Nat /\ Inner > 0 /\ Outer \in Nat /\ PerFan \in Nat /\ PerFan = Inner + Outer
  BY RingsAssumption DEF PerFan
<1>2. s \in Seq(Leds) /\ Len(s) = PerFan /\ \A k \in 1..PerFan : s[k] = Lands(c, n, a + k)
  <2>1. PartShape(c, n, a, PerFan)
    BY <1>1, PartFacts
  <2> QED BY <2>1 DEF PartShape
<1>3. FanLeds(s) = SubSeq(s, 1, Inner) \o SubSeq(s, Inner + 1, PerFan)
  <2> HIDE DEF s
  <2>1. Len(s) >= Inner /\ Len(s) >= PerFan
    BY <1>1, <1>2
  <2> QED BY <2>1 DEF FanLeds
<1> HIDE DEF s
<1>4. SubSeq(s, 1, Inner) \in Seq(Leds) /\ Len(SubSeq(s, 1, Inner)) = Inner
      /\ \A k \in 1..Inner : SubSeq(s, 1, Inner)[k] = s[k]
  <2>1. SubSeq(s, 1, Inner) = [k \in 1..Inner |-> s[k]]
    BY <1>1, <1>2 DEF SubSeq
  <2>2. \A k \in 1..Inner : s[k] \in Leds
    BY <1>1, <1>2
  <2> QED BY <1>1, <2>1, <2>2
<1>5. SubSeq(s, Inner + 1, PerFan) \in Seq(Leds) /\ Len(SubSeq(s, Inner + 1, PerFan)) = Outer
      /\ \A k \in 1..Outer : SubSeq(s, Inner + 1, PerFan)[k] = s[Inner + k]
  <2>1. SubSeq(s, Inner + 1, PerFan) =
          [k \in 1..PerFan - (Inner + 1) + 1 |-> s[k + (Inner + 1) - 1]]
    BY <1>1 DEF SubSeq
  <2>2. PerFan - (Inner + 1) + 1 = Outer /\ \A k \in 1..Outer : k + (Inner + 1) - 1 = Inner + k
    BY <1>1
  <2>3. SubSeq(s, Inner + 1, PerFan) = [k \in 1..Outer |-> s[Inner + k]]
    BY <2>1, <2>2
  <2>4. \A k \in 1..Outer : s[Inner + k] \in Leds
    BY <1>1, <1>2
  <2> QED BY <1>1, <2>3, <2>4
<1>6. PICK t \in Seq(Leds), u \in Seq(Leds) :
        t = SubSeq(s, 1, Inner) /\ u = SubSeq(s, Inner + 1, PerFan)
  BY <1>4, <1>5
<1>10. Len(t) = Inner /\ Len(u) = Outer
  BY <1>4, <1>5, <1>6
<1>7. t \o u \in Seq(Leds) /\ Len(t \o u) = PerFan
  <2>1. t \o u \in Seq(Leds) /\ Len(t \o u) = Len(t) + Len(u)
    OBVIOUS
  <2> QED BY <1>1, <1>10, <2>1
<1>8. ASSUME NEW k \in 1..PerFan PROVE (t \o u)[k] = s[k]
  <2>1. CASE k <= Inner
    BY <1>1, <1>4, <1>5, <1>6, <2>1
  <2>2. CASE ~(k <= Inner)
    <3>1. (t \o u)[k] = u[k - Inner] /\ k - Inner \in 1..Outer /\ Inner + (k - Inner) = k
      BY <1>1, <1>4, <1>5, <1>6, <2>2
    <3> QED BY <1>5, <1>6, <3>1
  <2> QED BY <1>1, <2>1, <2>2
<1>9. t \o u = s
  BY <1>2, <1>7, <1>8, SameList
<1> QED BY <1>3, <1>6, <1>9 DEF s

\* What is put together from the first f fans.
LeastOf(m, n) == IF m < n THEN m ELSE n
CutEq(g, colors, fans) ==
  g = [f \in 0..fans |->
         IF f = 0 THEN <<>>
         ELSE g[f - 1] \o FanLeds(Slice(colors, (f - 1) * PerFan + 1, f * PerFan))]

\* What parse_colors makes of a payload: as many LEDs as were sent.
LEMMA ParsedIsPart ==
  ASSUME NEW c \in Clients, NEW n \in Nat, NEW k \in Nat
  PROVE  Parsed(c, n, k) = Part(c, n, 0, k * PerFan)
<1>1. PICK m \in Nat : m = k * PerFan
  <2>1. PerFan \in Nat
    BY RingsAssumption DEF PerFan
  <2>2. k * PerFan \in Nat
    BY <2>1
  <2> QED BY <2>2
<1> DEFINE head == <<<<0>>, <<0>>, <<m>>>>
           extra == IF Layout[c] = "backend" THEN <<<<0>>>> ELSE <<>>
           W == {<<0>>, <<m>>} \cup {Colours(c, n, m)[w] : w \in 1..2 * m}
           p == Payload(c, n, k)
<1>2. Colours(c, n, m) \in Seq(W) /\ Len(Colours(c, n, m)) = 2 * m
  <2>1. 2 * m \in Nat /\ DOMAIN Colours(c, n, m) = 1..2 * m
    BY DEF Colours
  <2>2. Colours(c, n, m) = [w \in 1..2 * m |-> Colours(c, n, m)[w]]
    BY DEF Colours
  <2>3. PICK l \in Nat : l = 2 * m
    BY <2>1
  <2>4. PICK x : x = Colours(c, n, m)
    OBVIOUS
  <2>5. x \in [1..l -> W]
    BY <2>2, <2>3, <2>4
  <2> HIDE DEF W
  <2>6. x \in Seq(W) /\ Len(x) = l
    BY <2>5
  <2> QED BY <2>3, <2>4, <2>6
<1>3. \A j \in 1..m : /\ Colours(c, n, m)[2 * j - 1] = Colour(c, n, j)[1]
                     /\ Colours(c, n, m)[2 * j] = Colour(c, n, j)[2]
  <2> SUFFICES ASSUME NEW j \in 1..m
               PROVE  /\ Colours(c, n, m)[2 * j - 1] = Colour(c, n, j)[1]
                      /\ Colours(c, n, m)[2 * j] = Colour(c, n, j)[2]
    OBVIOUS
  <2>1. 2 * j - 1 \in 1..2 * m /\ 2 * j \in 1..2 * m
    OBVIOUS
  <2>2. ((2 * j - 1) + 1) \div 2 = j /\ (2 * j - 1) % 2 = 1
    OBVIOUS
  <2>3. (2 * j + 1) \div 2 = j /\ (2 * j) % 2 = 0
    OBVIOUS
  <2> QED BY <2>1, <2>2, <2>3 DEF Colours
<1> DEFINE d == IF Layout[c] = "backend" THEN 1 ELSE 0
<1>4. head \in Seq(W) /\ Len(head) = 3 /\ extra \in Seq(W) /\ Len(extra) = d
  <2>1. <<0>> \in W /\ <<m>> \in W
    OBVIOUS
  <2> HIDE DEF W
  <2>2. head \in Seq(W) /\ Len(head) = 3
    BY <2>1
  <2>3. CASE Layout[c] = "backend"
    BY <2>1, <2>2, <2>3
  <2>4. CASE Layout[c] # "backend"
    BY <2>1, <2>2, <2>4
  <2> QED BY <2>3, <2>4
<1>5. p = (head \o extra) \o Colours(c, n, m)
  BY <1>1 DEF Payload
<1>6. /\ Len(p) = 3 + d + 2 * m /\ p[3][1] = m
      /\ Layout[c] = "backend" => p[4] = <<0>>
      /\ \A w \in 1..2 * m : p[3 + d + w] = Colours(c, n, m)[w]
  <2> PICK x \in Seq(W), y \in Seq(W), z \in Seq(W) :
        x = head /\ y = extra /\ z = Colours(c, n, m)
    BY <1>2, <1>4
  <2>1. p = (x \o y) \o z
    BY <1>5
  <2>2. Len(x) = 3 /\ x[3] = <<m>> /\ Len(y) = d /\ (d = 1 => y[1] = <<0>>) /\ Len(z) = 2 * m
    BY <1>2, <1>4
  <2>3. d \in 0..1 /\ (Layout[c] = "backend" => d = 1)
    OBVIOUS
  <2> HIDE DEF p, d
  <2>4. x \o y \in Seq(W) /\ Len(x \o y) = 3 + d /\ (x \o y)[3] = <<m>>
        /\ (d = 1 => (x \o y)[4] = <<0>>)
    BY <2>2, <2>3
  <2>5. PICK h \in Seq(W) : h = x \o y
    BY <2>4
  <2>6. Len(p) = 3 + d + 2 * m /\ p[3] = h[3] /\ (d = 1 => p[4] = h[4])
    BY <2>1, <2>2, <2>3, <2>4, <2>5
  <2>7. ASSUME NEW w \in 1..2 * m PROVE p[3 + d + w] = z[w]
    BY <2>1, <2>2, <2>3, <2>4, <2>5
  <2> QED BY <2>2, <2>3, <2>4, <2>5, <2>6, <2>7
<1> HIDE DEF p, head, extra, W
<1>7. (Len(p) - 3) \div 2 = m
  <2> HIDE DEF d
  <2>1. CASE d = 1
    <3>1. Len(p) = 4 + 2 * m
      BY <1>6, <2>1
    <3>2. ((4 + 2 * m) - 3) \div 2 = m
      OBVIOUS
    <3> QED BY <3>1, <3>2
  <2>2. CASE d = 0
    <3>1. Len(p) = 3 + 2 * m
      BY <1>6, <2>2
    <3>2. ((3 + 2 * m) - 3) \div 2 = m
      OBVIOUS
    <3> QED BY <3>1, <3>2
  <2>3. d = 1 \/ d = 0
    BY DEF d
  <2> QED BY <2>1, <2>2, <2>3
<1>8. ParseColors(p) = [j \in 1..m |-> <<p[2 * j + 2], p[2 * j + 3]>>]
  BY <1>6, <1>7 DEF ParseColors
<1>9. ASSUME NEW j \in 1..m PROVE <<p[2 * j + 2], p[2 * j + 3]>> = Lands(c, n, 0 + j)
  <2>1. CASE Layout[c] = "backend"
    <3>1. p[2 * j + 3] = Colour(c, n, j)[1]
      <4>1. 2 * j - 1 \in 1..2 * m /\ 3 + d + (2 * j - 1) = 2 * j + 3
        BY <2>1
      <4> QED BY <1>3, <1>6, <4>1
    <3>2. CASE j = 1
      BY <1>6, <2>1, <3>1, <3>2 DEF Lands
    <3>3. CASE j # 1
      <4>1. 2 * j - 2 \in 1..2 * m /\ 3 + d + (2 * j - 2) = 2 * j + 2
        BY <2>1, <3>3
      <4>2. j - 1 \in 1..m /\ 2 * (j - 1) = 2 * j - 2
        BY <3>3
      <4>3. p[2 * j + 2] = Colour(c, n, j - 1)[2]
        BY <1>3, <1>6, <4>1, <4>2
      <4> QED BY <2>1, <3>1, <3>3, <4>3 DEF Lands
    <3> QED BY <3>2, <3>3
  <2>2. CASE Layout[c] # "backend"
    <3>1. 2 * j - 1 \in 1..2 * m /\ 3 + d + (2 * j - 1) = 2 * j + 2
      BY <2>2
    <3>2. 2 * j \in 1..2 * m /\ 3 + d + 2 * j = 2 * j + 3
      BY <2>2
    <3>3. p[2 * j + 2] = Colour(c, n, j)[1] /\ p[2 * j + 3] = Colour(c, n, j)[2]
      BY <1>3, <1>6, <3>1, <3>2
    <3> QED BY <2>2, <3>3 DEF Lands, Colour
  <2> QED BY <2>1, <2>2
<1>10. p = Payload(c, n, k)
  BY DEF p
<1>11. [j \in 1..m |-> <<p[2 * j + 2], p[2 * j + 3]>>] = [j \in 1..m |-> Lands(c, n, 0 + j)]
  BY <1>9
<1> QED BY <1>1, <1>8, <1>10, <1>11 DEF Parsed, Part

\* A fan's LEDs of a frame made for k fans; there are none beyond these.
LEMMA FanOfFrame ==
  ASSUME NEW c \in Clients, NEW n \in Nat, NEW k \in Nat, NEW f \in Nat \ {0}
  PROVE  FanLeds(Slice(Parsed(c, n, k), (f - 1) * PerFan + 1, f * PerFan))
           = IF f <= k THEN Part(c, n, (f - 1) * PerFan, PerFan) ELSE <<>>
<1>1. Inner \in Nat /\ Inner > 0 /\ Outer \in Nat /\ PerFan \in Nat /\ PerFan > 0
  BY RingsAssumption DEF PerFan
<1>2. PICK p \in Nat : p = PerFan /\ p > 0
  BY <1>1
<1>3. PICK h \in Nat : f = h + 1 /\ f - 1 = h
  <2>1. f - 1 \in Nat /\ f = (f - 1) + 1
    OBVIOUS
  <2> QED BY <2>1
<1>4. PICK a \in Nat, m \in Nat : a = h * p /\ m = k * p
  <2>1. h * p \in Nat /\ k * p \in Nat
    BY <1>2
  <2> QED BY <2>1
<1>5. f * p = a + p
  BY <1>2, <1>3, <1>4
<1>6. Parsed(c, n, k) = Part(c, n, 0, m)
  BY <1>2, <1>4, ParsedIsPart
<1>7. CASE f <= k
  <2>1. a + p <= m
    <3>1. PICK d \in Nat : k = f + d
      <4>1. k - f \in Nat /\ k = f + (k - f)
        BY <1>7
      <4> QED BY <4>1
    <3>2. k * p = f * p + d * p /\ d * p \in Nat /\ f * p \in Nat
      BY <1>2, <3>1
    <3> QED BY <1>4, <1>5, <3>2
  <2>2. Slice(Part(c, n, 0, m), a + 1, a + p) = Part(c, n, a, p)
    BY <2>1, PartSlice
  <2>3. FanLeds(Part(c, n, a, p)) = Part(c, n, a, p)
    BY <1>2, PartFan
  <2> QED BY <1>2, <1>3, <1>4, <1>5, <1>6, <1>7, <2>2, <2>3
<1>8. CASE f > k
  <2>1. a >= m
    <3>1. PICK d \in Nat : h = k + d
      <4>1. h - k \in Nat /\ h = k + (h - k)
        BY <1>3, <1>8
      <4> QED BY <4>1
    <3>2. h * p = k * p + d * p /\ d * p \in Nat
      BY <1>2, <3>1
    <3> QED BY <1>4, <3>2
  <2>2. PICK s \in Seq(Leds) : s = Part(c, n, 0, m) /\ Len(s) = m
    <3>1. PartShape(c, n, 0, m)
      BY PartFacts
    <3> QED BY <3>1 DEF PartShape
  <2>3. Slice(s, a + 1, a + p) = <<>>
    <3>1. PICK to \in Nat : to = IF a + p < m THEN a + p ELSE m
      OBVIOUS
    <3>2. to < a + 1
      BY <2>1, <3>1
    <3>3. SubSeq(s, a + 1, to) = <<>>
      BY <3>2, SubSeqEmpty
    <3> QED BY <2>2, <3>1, <3>3 DEF Slice
  <2>4. FanLeds(<<>>) = <<>>
    <3>1. ~(Len(<<>>) >= Inner) /\ ~(Len(<<>>) >= PerFan)
      BY <1>1
    <3>2. FanLeds(<<>>) = <<>> \o <<>>
      BY <3>1 DEF FanLeds
    <3> QED BY <3>2
  <2> QED BY <1>2, <1>3, <1>4, <1>5, <1>6, <1>8, <2>2, <2>3, <2>4
<1> QED BY <1>7, <1>8

\* Fan after fan, the beginning of the frame comes out again.
LEMMA CutPart ==
  ASSUME NEW c \in Clients, NEW n \in Nat, NEW k \in Nat, NEW fans \in Nat
  PROVE  Assigned(Parsed(c, n, k), fans) = Part(c, n, 0, LeastOf(fans, k) * PerFan)
<1> DEFINE P(f) == Part(c, n, 0, LeastOf(f, k) * PerFan)
           step(f) == FanLeds(Slice(Parsed(c, n, k), (f - 1) * PerFan + 1, f * PerFan))
           g0 == [f \in 0..fans |-> P(f)]
           Eq(g) == g = [f \in 0..fans |-> IF f = 0 THEN <<>> ELSE g[f - 1] \o step(f)]
<1>1. PerFan \in Nat
  BY RingsAssumption DEF PerFan
<1>2. P(0) = <<>>
  <2>1. LeastOf(0, k) = 0 /\ 0 * PerFan = 0
    BY <1>1 DEF LeastOf
  <2> QED BY <2>1 DEF Part
<1>3. ASSUME NEW f \in Nat \ {0} PROVE P(f) = P(f - 1) \o step(f)
  <2>1. PICK p \in Nat : p = PerFan
    BY <1>1
  <2>2. PICK h \in Nat : f - 1 = h /\ f = h + 1
    <3>1. f - 1 \in Nat /\ f = (f - 1) + 1
      OBVIOUS
    <3> QED BY <3>1
  <2>3. CASE f <= k
    <3>1. LeastOf(f, k) = f /\ LeastOf(h, k) = h
      BY <2>2, <2>3 DEF LeastOf
    <3>2. PICK a \in Nat : a = h * p /\ f * p = a + p
      <4>1. h * p \in Nat /\ f * p = h * p + p
        BY <2>1, <2>2
      <4> QED BY <4>1
    <3>3. step(f) = Part(c, n, a, p)
      BY <2>1, <2>2, <2>3, <3>2, FanOfFrame
    <3> HIDE DEF step, P
    <3>4. Part(c, n, 0, a) \o Part(c, n, 0 + a, p) = Part(c, n, 0, a + p)
      <4>1. PICK z \in Nat : z = 0
        OBVIOUS
      <4>3. \A x, y, w \in Nat :
              Part(c, n, x, y) \o Part(c, n, x + y, w) = Part(c, n, x, y + w)
        BY PartJoin
      <4>2. Part(c, n, z, a) \o Part(c, n, z + a, p) = Part(c, n, z, a + p)
        BY <4>3
      <4> QED BY <4>1, <4>2
    <3>5. 0 + a = a
      OBVIOUS
    <3> USE DEF P
    <3> QED BY <2>1, <2>2, <3>1, <3>2, <3>3, <3>4, <3>5
  <2>4. CASE f > k
    <3>1. LeastOf(f, k) = k /\ LeastOf(h, k) = k
      BY <2>2, <2>4 DEF LeastOf
    <3>2. step(f) = <<>>
      BY <2>4, FanOfFrame
    <3>3. PICK s \in Seq(Leds) : s = Part(c, n, 0, k * PerFan)
      <4>1. k * PerFan \in Nat
        BY <1>1
      <4>2. PartShape(c, n, 0, k * PerFan)
        BY <4>1, PartFacts
      <4> QED BY <4>2 DEF PartShape
    <3>4. s \o <<>> = s
      BY <3>3
    <3> HIDE DEF step
    <3> QED BY <2>2, <3>1, <3>2, <3>3, <3>4
  <2> QED BY <2>3, <2>4
<1> HIDE DEF P, step
<1>4. \A f \in 0..fans : g0[f] = IF f = 0 THEN <<>> ELSE g0[f - 1] \o step(f)
  <2> SUFFICES ASSUME NEW f \in 0..fans
               PROVE  g0[f] = IF f = 0 THEN <<>> ELSE g0[f - 1] \o step(f)
    OBVIOUS
  <2>1. CASE f = 0
    BY <1>2, <2>1
  <2>2. CASE f # 0
    <3>1. f \in Nat \ {0} /\ f - 1 \in 0..fans
      BY <2>2
    <3> QED BY <1>3, <2>2, <3>1
  <2> QED BY <2>1, <2>2
<1>5. Eq(g0)
  <2>1. [f \in 0..fans |-> P(f)] = [f \in 0..fans |-> IF f = 0 THEN <<>> ELSE g0[f - 1] \o step(f)]
    BY <1>4
  <2> QED BY <2>1
<1>6. ASSUME NEW g, Eq(g) PROVE g[fans] = P(fans)
  <2> DEFINE T == {f \in Nat : f <= fans => g[f] = P(f)}
  <2>1. 0 \in T
    BY <1>2, <1>6
  <2>2. ASSUME NEW f \in Nat, f \in T PROVE f + 1 \in T
    <3> SUFFICES ASSUME f + 1 <= fans PROVE g[f + 1] = P(f + 1)
      OBVIOUS
    <3>1. f + 1 \in 0..fans /\ f + 1 # 0 /\ (f + 1) - 1 = f /\ f + 1 \in Nat \ {0} /\ g[f] = P(f)
      BY <2>2
    <3>2. g[f + 1] = g[f] \o step(f + 1)
      BY <1>6, <3>1
    <3>3. P(f + 1) = P(f) \o step(f + 1)
      BY <1>3, <3>1
    <3> QED BY <3>1, <3>2, <3>3
  <2>3. Nat \subseteq T
    <3> HIDE DEF T
    <3> QED BY <2>1, <2>2, Induction
  <2> QED BY <2>3
<1>7. Eq(CHOOSE g : Eq(g))
  <2> HIDE DEF g0
  <2>1. \E g : Eq(g)
    BY <1>5
  <2> HIDE DEF Eq
  <2> QED BY <2>1
<1>8. Assigned(Parsed(c, n, k), fans) = (CHOOSE g : Eq(g))[fans]
  BY DEF Assigned, step
<1>9. (CHOOSE g : Eq(g))[fans] = P(fans)
  <2> DEFINE f1 == CHOOSE g : Eq(g)
  <2>1. Eq(f1)
    BY <1>7
  <2> HIDE DEF f1
  <2>2. f1[fans] = P(fans)
    BY <1>6, <2>1
  <2> QED BY <2>2 DEF f1
<1> QED BY <1>8, <1>9 DEF P

\* Whatever the number of fans is now, each LED gets the colour it has in the frame.
LEMMA AssignedAsSent ==
  ASSUME NEW c \in Clients, NEW n \in Nat, NEW k \in Nat, NEW fans \in Nat
  PROVE  \A i \in DOMAIN Assigned(Parsed(c, n, k), fans) :
           InPlace(c, n, i, Assigned(Parsed(c, n, k), fans)[i])
<1>1. PICK m \in Nat : m = LeastOf(fans, k) * PerFan
  <2>1. LeastOf(fans, k) \in Nat /\ PerFan \in Nat
    BY RingsAssumption DEF LeastOf, PerFan
  <2>2. LeastOf(fans, k) * PerFan \in Nat
    BY <2>1
  <2> QED BY <2>2
<1>2. Assigned(Parsed(c, n, k), fans) = Part(c, n, 0, m)
  BY <1>1, CutPart
<1>3. \A i \in 1..m : Part(c, n, 0, m)[i] = Lands(c, n, 0 + i) /\ 0 + i = i
  BY DEF Part
<1>4. DOMAIN Part(c, n, 0, m) = 1..m
  BY DEF Part
<1>5. \A i \in 1..m : InPlace(c, n, i, Lands(c, n, i))
  BY DEF InPlace, Lands
<1> QED BY <1>2, <1>3, <1>4, <1>5

-----------------------------------------------------------------------------
(* What the threads of the OpenRGB server, its clients and the channel have to do with each
   other.  The snapshot never changes, so what a packet is answered is known when it is
   sent; a packet is on its way once; and a client that still waits for an answer waits
   for the only one to come. *)

Devices == AllGroups \X Nat
Packets ==
  [kind : {"count", "data", "leds", "zone"}, index : Nat, group : AllGroups \cup {0}, fans : Nat]
PieceSet == Nat \X (1..3)

\* What the server answers, as the snapshot never changes.
Reply(packet) ==
  IF packet.kind = "count" THEN [kind |-> "count", count |-> Len(FirstGroups), device |-> <<>>]
  ELSE IF packet.index \in DOMAIN FirstGroups
  THEN [kind |-> "data", count |-> 0, device |-> FirstGroups[packet.index]]
  ELSE [kind |-> "empty", count |-> 0, device |-> <<>>]
Replies == {Reply(p) : p \in Packets}

\* A list of pieces, each on its way once.
OnWire(w) == {w[i] : i \in 1..Len(w)}
Once(w) == \A i, j \in 1..Len(w) : w[i] = w[j] => i = j

\* The packet a thread has begun to read, 0 for none.
Begun(t) ==
  IF t.at \in {"payload", "packet"} THEN t.packet
  ELSE IF t.at = "header" /\ t.got # <<>> /\ t.got[1][2] = 1 THEN t.got[1][1] ELSE 0

\* The packets that may still be answered.
Ahead(w, t) == {n \in Nat : n = Begun(t) \/ <<n, 1>> \in OnWire(w)}
NoneAsks(s, w, t) == \A n \in Ahead(w, t) : n \in 1..Len(s) => ~Asks(s[n])

\* A thread, what its connection carries (w) and what was sent (s).
ThreadShape(t) ==
  /\ t = [at |-> t.at, got |-> t.got, packet |-> t.packet]
  /\ t.at \in {"check", "header", "payload", "packet", "ended"} /\ t.packet \in Nat
  /\ t.got = <<>> \/ (t.at = "header" /\ \E x \in PieceSet : t.got = <<x>>)
InStream(s, w, t) ==
  /\ s \in Seq(Packets) /\ w \in Seq(PieceSet) /\ Once(w) /\ ThreadShape(t)
  /\ \A p \in OnWire(w) : p[1] \in 1..Len(s)
  /\ t.got # <<>> => t.got[1][1] \in 1..Len(s)
  /\ t.at \in {"payload", "packet"} => t.packet \in 1..Len(s)
  /\ <<Begun(t), 1>> \notin OnWire(w)

ClientShape(k) ==
  /\ k = [at |-> k.at, next |-> k.next, count |-> k.count, known |-> k.known]
  /\ k.at \in {"idle", "count", "ask", "data"} /\ k.next \in Nat /\ k.count \in Nat
  /\ \A device \in k.known : device[1] \in Nat /\ device[2] \in Devices

\* A question a client waits on is the only one that will be answered, or has been.
Matched(s, w, t, b, k) ==
  \E q \in 1..Len(s) :
    /\ s[q].kind = k.at /\ (k.at = "data" => s[q].index = k.next)
    /\ \/ b = <<>> /\ \A n \in Ahead(w, t) : n \in 1..Len(s) /\ Asks(s[n]) => n = q
       \/ b = <<Reply(s[q])>> /\ NoneAsks(s, w, t)

Knows(k) ==
  \A device \in k.known :
    device[1] \in DOMAIN FirstGroups /\ device[2] = FirstGroups[device[1]]
Aims(s) ==
  \A n \in 1..Len(s) : s[n].kind = "leds" =>
    s[n].index \in DOMAIN FirstGroups /\ s[n].group = FirstGroups[s[n].index][1]

\* A connection that has not ended.
Live == {"none", "waiting", "open"}

\* A client that has not given up on an answer, at its connection (cn).
InOrder(s, w, t, b, k, cn) ==
  /\ k.at \in {"count", "data"} => Matched(s, w, t, b, k)
  /\ k.at \in {"idle", "ask"} /\ cn \in Live => b = <<>> /\ NoneAsks(s, w, t)
  /\ Knows(k) /\ Aims(s)

Row(s, w, t, b, k, cn, isLate) ==
  /\ InStream(s, w, t) /\ b \in Seq(Replies) /\ ClientShape(k)
  /\ cn = "none" => k.at = "idle"
  /\ ~isLate => InOrder(s, w, t, b, k, cn)

Rows ==
  \A c \in Clients : Row(sent[c], wire[c], thread[c], back[c], client[c], conn[c], c \in late)

\* A command that was cut out of a packet.
Meant(cmd) ==
  /\ cmd.client \in Clients /\ cmd.n \in 1..Len(sent[cmd.client])
  /\ cmd.group \in AllGroups
  /\ \E fans \in Nat : cmd.colors = Parsed(cmd.client, cmd.n, fans)
  /\ LET packet == sent[cmd.client][cmd.n]
     IN packet.kind = "leds" /\ (packet.group = cmd.group \/ cmd.client \in late)
AllMeant(q) == \E S : q \in Seq(S) /\ \A cmd \in S : Meant(cmd)

ServerShape ==
  /\ sent = [c \in Clients |-> sent[c]] /\ wire = [c \in Clients |-> wire[c]]
  /\ thread = [c \in Clients |-> thread[c]] /\ back = [c \in Clients |-> back[c]]
  /\ client = [c \in Clients |-> client[c]] /\ conn = [c \in Clients |-> conn[c]]
  /\ shown = [g \in AllGroups |-> shown[g]]
  /\ caps = FirstGroups /\ registry \in [AllGroups -> Nat] /\ late \subseteq Clients

\* What the channel and the main loop hold are packets of clients for the group they name.
InChannel ==
  AllMeant(queue) /\ AllMeant(batch) /\ (main = "apply" => batch # <<>>)

ServerInv == ServerShape /\ Rows /\ InChannel /\ ShownAsSent

-----------------------------------------------------------------------------
(* What is on its way. *)

LEMMA TailWire ==
  ASSUME NEW w \in Seq(PieceSet), w # <<>>, Once(w)
  PROVE  /\ Tail(w) \in Seq(PieceSet) /\ Once(Tail(w)) /\ Head(w) \in PieceSet
         /\ Head(w) \in OnWire(w) /\ OnWire(Tail(w)) = OnWire(w) \ {Head(w)}
<1>1. /\ Tail(w) \in Seq(PieceSet) /\ Len(Tail(w)) = Len(w) - 1 /\ Len(w) \in Nat /\ Len(w) # 0
      /\ \A i \in 1..Len(Tail(w)) : Tail(w)[i] = w[i + 1]
      /\ Head(w) = w[1] /\ Head(w) \in PieceSet
  BY HeadTailProperties
<1>2. Once(Tail(w))
  BY <1>1 DEF Once
<1>3. ASSUME NEW x \in OnWire(Tail(w)) PROVE x \in OnWire(w) \ {Head(w)}
  <2>1. PICK i \in 1..Len(Tail(w)) : x = Tail(w)[i]
    BY <1>1 DEF OnWire
  <2>2. x = w[i + 1] /\ i + 1 \in 1..Len(w) /\ i + 1 # 1 /\ 1 \in 1..Len(w)
    BY <1>1, <2>1
  <2> QED BY <1>1, <2>2 DEF OnWire, Once
<1>4. ASSUME NEW x \in OnWire(w) \ {Head(w)} PROVE x \in OnWire(Tail(w))
  <2>1. PICK i \in 1..Len(w) : x = w[i] /\ i # 1
    BY <1>1 DEF OnWire
  <2>2. i - 1 \in 1..Len(Tail(w)) /\ (i - 1) + 1 = i
    BY <1>1, <2>1
  <2>3. x = Tail(w)[i - 1]
    BY <1>1, <2>1, <2>2
  <2> QED BY <2>2, <2>3 DEF OnWire
<1>5. Head(w) \in OnWire(w)
  BY <1>1 DEF OnWire
<1> QED BY <1>1, <1>2, <1>3, <1>4, <1>5

LEMMA PiecesFacts ==
  ASSUME NEW n \in Nat, NEW kind
  PROVE  /\ Pieces(n, kind) \in Seq(PieceSet) /\ Once(Pieces(n, kind))
         /\ \A p \in OnWire(Pieces(n, kind)) : p[1] = n
<1>1. PICK m \in 2..3 : m = IF HasPayload(kind) THEN 3 ELSE 2
  OBVIOUS
<1>2. PICK w : w = Pieces(n, kind)
  OBVIOUS
<1>3. w = [k \in 1..m |-> <<n, k>>]
  BY <1>1, <1>2 DEF Pieces
<1>4. \A k \in 1..m : <<n, k>> \in PieceSet
  BY <1>1 DEF PieceSet
<1>5. w \in Seq(PieceSet) /\ Len(w) = m
  BY <1>3, <1>4
<1>6. Once(w) /\ \A p \in OnWire(w) : p[1] = n
  BY <1>3, <1>5 DEF Once, OnWire
<1> QED BY <1>2, <1>5, <1>6

\* A packet that follows the ones before.
LEMMA SendWire ==
  ASSUME NEW w \in Seq(PieceSet), Once(w), NEW n \in Nat, NEW kind,
         \A p \in OnWire(w) : p[1] # n
  PROVE  /\ w \o Pieces(n, kind) \in Seq(PieceSet) /\ Once(w \o Pieces(n, kind))
         /\ OnWire(w \o Pieces(n, kind)) = OnWire(w) \cup OnWire(Pieces(n, kind))
<1>1. PICK p \in Seq(PieceSet) :
        p = Pieces(n, kind) /\ Once(p) /\ \A x \in OnWire(p) : x[1] = n
  BY PiecesFacts
<1>2. PICK a \in Nat, b \in Nat : a = Len(w) /\ b = Len(p)
  OBVIOUS
<1>3. w \o p \in Seq(PieceSet) /\ Len(w \o p) = a + b
  BY <1>2
<1>4. \A i \in 1..a : (w \o p)[i] = w[i] /\ w[i] \in OnWire(w)
  BY <1>2 DEF OnWire
<1>5. \A i \in 1..a + b : ~(i <= a) =>
        (w \o p)[i] = p[i - a] /\ i - a \in 1..b /\ p[i - a] \in OnWire(p)
  BY <1>2 DEF OnWire
<1>6. \A j \in 1..b : a + j \in 1..a + b /\ (w \o p)[a + j] = p[j]
  BY <1>2
<1>10. ASSUME NEW i \in 1..a + b, i <= a PROVE i \in 1..a
  BY <1>10
<1>11. ASSUME NEW i \in 1..a + b, i <= a PROVE (w \o p)[i] = w[i] /\ w[i] \in OnWire(w)
  BY <1>4, <1>10, <1>11
<1>12. ASSUME NEW i \in 1..a + b, ~(i <= a)
       PROVE  (w \o p)[i] = p[i - a] /\ p[i - a] \in OnWire(p)
  BY <1>5, <1>12
<1>7. Once(w \o p)
  <2> SUFFICES ASSUME NEW i \in 1..a + b, NEW j \in 1..a + b, (w \o p)[i] = (w \o p)[j]
               PROVE  i = j
    BY <1>3 DEF Once
  <2>1. CASE i <= a /\ j <= a
    <3>1. i \in 1..Len(w) /\ j \in 1..Len(w) /\ w[i] = w[j]
      BY <1>2, <1>4, <2>1
    <3> QED BY <3>1 DEF Once
  <2>2. CASE ~(i <= a) /\ ~(j <= a)
    <3>1. i - a \in 1..Len(p) /\ j - a \in 1..Len(p) /\ p[i - a] = p[j - a]
      BY <1>2, <1>5, <2>2
    <3>2. i - a = j - a
      BY <1>1, <3>1 DEF Once
    <3> QED BY <3>2
  <2>3. CASE i <= a /\ ~(j <= a)
    <3>1. w[i] \in OnWire(w) /\ p[j - a] \in OnWire(p) /\ w[i] = p[j - a]
      BY <1>11, <1>12, <2>3
    <3> QED BY <1>1, <3>1
  <2>4. CASE ~(i <= a) /\ j <= a
    <3>1. w[j] \in OnWire(w) /\ p[i - a] \in OnWire(p) /\ w[j] = p[i - a]
      BY <1>11, <1>12, <2>4
    <3> QED BY <1>1, <3>1
  <2> QED BY <2>1, <2>2, <2>3, <2>4
<1>8. ASSUME NEW x PROVE x \in OnWire(w \o p) <=> x \in OnWire(w) \cup OnWire(p)
  <2>1. ASSUME NEW i \in 1..a + b, x = (w \o p)[i] PROVE x \in OnWire(w) \cup OnWire(p)
    BY <1>11, <1>12, <2>1
  <2>2. ASSUME NEW i \in 1..a, x = w[i] PROVE x \in OnWire(w \o p)
    <3>1. i \in 1..Len(w \o p) /\ x = (w \o p)[i]
      BY <1>2, <1>3, <1>4, <2>2
    <3> QED BY <3>1 DEF OnWire
  <2>3. ASSUME NEW j \in 1..b, x = p[j] PROVE x \in OnWire(w \o p)
    <3>1. a + j \in 1..Len(w \o p) /\ x = (w \o p)[a + j]
      BY <1>3, <1>6, <2>3
    <3> QED BY <3>1 DEF OnWire
  <2>4. x \in OnWire(w \o p) => \E i \in 1..a + b : x = (w \o p)[i]
    BY <1>3 DEF OnWire
  <2>5. /\ x \in OnWire(w) => \E i \in 1..a : x = w[i]
        /\ x \in OnWire(p) => \E j \in 1..b : x = p[j]
    BY <1>2 DEF OnWire
  <2> QED BY <2>1, <2>2, <2>3, <2>4, <2>5
<1> QED BY <1>1, <1>3, <1>7, <1>8

-----------------------------------------------------------------------------
(* One client's row. *)

\* The server forgets what it was reading: fewer packets may still be answered.
LEMMA Forgets ==
  ASSUME NEW s, NEW w, NEW t, NEW b, NEW k, NEW cn, NEW l,
         Row(s, w, t, b, k, cn, l), NEW at \in {"check", "header", "ended"}, NEW dn,
         dn # "none" \/ cn = "none", dn \in Live => cn \in Live
  PROVE  Row(s, w, [at |-> at, got |-> <<>>, packet |-> 0], b, k, dn, l)
<1>1. PICK u : u = [at |-> at, got |-> <<>>, packet |-> 0]
  OBVIOUS
<1>2. ThreadShape(u) /\ Begun(u) = 0 /\ u.got = <<>> /\ u.at \notin {"payload", "packet"}
  BY <1>1 DEF ThreadShape, Begun
<1>3. InStream(s, w, u)
  BY <1>2 DEF InStream, Row
<1>4. \A n \in Ahead(w, u) : n \in 1..Len(s) => n \in Ahead(w, t)
  BY <1>2 DEF Ahead, InStream, Row
<1>5. NoneAsks(s, w, t) => NoneAsks(s, w, u)
  BY <1>4 DEF NoneAsks
<1>6. Matched(s, w, t, b, k) => Matched(s, w, u, b, k)
  BY <1>4, <1>5 DEF Matched
<1>7. InOrder(s, w, t, b, k, cn) => InOrder(s, w, u, b, k, dn)
  BY <1>5, <1>6 DEF InOrder
<1> QED BY <1>1, <1>3, <1>7 DEF Row

\* A thread that has taken the piece x: it goes on with the packet it has begun, or
\* begins the next one.
Begins(s, x, t, u) ==
  /\ ThreadShape(u) /\ (u.got # <<>> => u.got[1] = x)
  /\ u.at \in {"payload", "packet"} => u.packet \in 1..Len(s)
  /\ Begun(u) \in {0, Begun(t)} \/ <<Begun(u), 1>> = x

LEMMA ReadsOn ==
  ASSUME NEW s, NEW w, NEW t, NEW b, NEW k, NEW cn, NEW l,
         Row(s, w, t, b, k, cn, l), NEW u, w # <<>>, Begins(s, Head(w), t, u)
  PROVE  Row(s, Tail(w), u, b, k, cn, l)
<1>1. /\ Tail(w) \in Seq(PieceSet) /\ Once(Tail(w)) /\ Head(w) \in PieceSet
      /\ Head(w) \in OnWire(w) /\ OnWire(Tail(w)) = OnWire(w) \ {Head(w)}
  BY TailWire DEF Row, InStream
<1>2. Head(w)[1] \in 1..Len(s)
  BY <1>1 DEF Row, InStream
<1>3. <<Begun(u), 1>> \notin OnWire(Tail(w))
  <2>1. <<Begun(t), 1>> \notin OnWire(w)
    BY DEF Row, InStream
  <2>2. <<0, 1>> \notin OnWire(w)
    <3>1. \A p \in OnWire(w) : p[1] \in 1..Len(s)
      BY DEF Row, InStream
    <3>2. <<0, 1>>[1] \notin 1..Len(s)
      BY DEF Row, InStream
    <3> QED BY <3>1, <3>2
  <2> QED BY <1>1, <2>1, <2>2 DEF Begins
<1>4. InStream(s, Tail(w), u)
  BY <1>1, <1>2, <1>3 DEF Begins, Row, InStream
<1>5. ASSUME NEW n \in Ahead(Tail(w), u), n \in 1..Len(s) PROVE n \in Ahead(w, t)
  <2>1. n \in Nat /\ n # 0 /\ (n = Begun(u) \/ <<n, 1>> \in OnWire(w))
    BY <1>1, <1>5 DEF Ahead, Row, InStream
  <2>2. n = Begun(u) => n = Begun(t) \/ <<n, 1>> \in OnWire(w)
    BY <1>1, <2>1 DEF Begins
  <2> QED BY <2>1, <2>2 DEF Ahead
<1>6. NoneAsks(s, w, t) => NoneAsks(s, Tail(w), u)
  BY <1>5 DEF NoneAsks
<1>7. Matched(s, w, t, b, k) => Matched(s, Tail(w), u, b, k)
  BY <1>5, <1>6 DEF Matched
<1>8. InOrder(s, w, t, b, k, cn) => InOrder(s, Tail(w), u, b, k, cn)
  BY <1>6, <1>7 DEF InOrder
<1> QED BY <1>4, <1>8 DEF Row

\* The packet is carried out, and a question answered.
LEMMA Handles ==
  ASSUME NEW s, NEW w, NEW t, NEW b, NEW k, NEW cn, NEW l,
         Row(s, w, t, b, k, cn, l), t.at = "packet"
  PROVE  Row(s, w, [at |-> "check", got |-> <<>>, packet |-> 0],
             IF Asks(s[t.packet]) THEN Append(b, Reply(s[t.packet])) ELSE b, k, cn, l)
<1>1. PICK u : u = [at |-> "check", got |-> <<>>, packet |-> 0]
  OBVIOUS
<1>2. PICK e : e = IF Asks(s[t.packet]) THEN Append(b, Reply(s[t.packet])) ELSE b
  OBVIOUS
<1>3. ThreadShape(u) /\ Begun(u) = 0 /\ u.got = <<>> /\ u.at \notin {"payload", "packet"}
  BY <1>1 DEF ThreadShape, Begun
<1>4. Row(s, w, u, b, k, cn, l)
  BY <1>1, Forgets
<1>5. /\ t.packet \in 1..Len(s) /\ Begun(t) = t.packet /\ s[t.packet] \in Packets
      /\ t.packet \in Ahead(w, t) /\ ~(<<t.packet, 1>> \in OnWire(w)) /\ t.packet # 0
  BY DEF Row, InStream, Begun, Ahead
<1>6. e \in Seq(Replies)
  BY <1>2, <1>5 DEF Row, Replies
<1>7. CASE ~Asks(s[t.packet])
  BY <1>1, <1>2, <1>4, <1>7
<1>8. CASE Asks(s[t.packet])
  <2>1. \A n \in Ahead(w, u) : n \in 1..Len(s) => n \in Ahead(w, t) /\ n # t.packet
    BY <1>3, <1>5 DEF Ahead
  <2>2. ~NoneAsks(s, w, t)
    BY <1>5, <1>8 DEF NoneAsks
  <2>3. Matched(s, w, t, b, k) => Matched(s, w, u, e, k)
    <3> SUFFICES ASSUME Matched(s, w, t, b, k) PROVE Matched(s, w, u, e, k)
      OBVIOUS
    <3>1. PICK q \in 1..Len(s) :
            /\ s[q].kind = k.at /\ (k.at = "data" => s[q].index = k.next)
            /\ b = <<>> /\ \A n \in Ahead(w, t) : n \in 1..Len(s) /\ Asks(s[n]) => n = q
      BY <2>2 DEF Matched
    <3>2. q = t.packet
      BY <1>5, <1>8, <3>1
    <3>3. e = <<Reply(s[q])>>
      BY <1>2, <1>8, <3>1, <3>2
    <3>4. NoneAsks(s, w, u)
      BY <2>1, <3>1, <3>2 DEF NoneAsks
    <3> QED BY <3>1, <3>3, <3>4 DEF Matched
  <2>4. InOrder(s, w, t, b, k, cn) => InOrder(s, w, u, e, k, cn)
    BY <2>2, <2>3 DEF InOrder
  <2> QED BY <1>1, <1>2, <1>4, <1>6, <2>4 DEF Row
<1> QED BY <1>7, <1>8

\* A client sends a packet: a question, or a frame for a controller it knows.
LEMMA SendsRow ==
  ASSUME NEW s, NEW w, NEW t, NEW b, NEW k, NEW cn, NEW l,
         Row(s, w, t, b, k, cn, l), NEW p \in Packets, NEW j, ClientShape(j),
         k.at \in {"idle", "ask"}, cn \in {"waiting", "open"},
         IF Asks(p) THEN p.kind = j.at /\ (j.at = "data" => p.index = j.next) ELSE j.at = k.at,
         Knows(k) => Knows(j),
         Knows(k) /\ p.kind = "leds" =>
           p.index \in DOMAIN FirstGroups /\ p.group = FirstGroups[p.index][1]
  PROVE  Row(Append(s, p), w \o Pieces(Len(s) + 1, p.kind), t, b, j, cn, l)
<1>1. PICK m \in Nat \ {0} : m = Len(s) + 1
  BY DEF Row, InStream
<1>2. PICK r : r = Append(s, p)
  OBVIOUS
<1>3. r \in Seq(Packets) /\ Len(r) = m /\ r[m] = p /\ \A n \in 1..Len(s) : r[n] = s[n]
  BY <1>1, <1>2 DEF Row, InStream
<1>4. 1..Len(s) \subseteq 1..Len(r) /\ 1..Len(r) = (1..Len(s)) \cup {m} /\ m \in 1..Len(r)
      /\ m \notin 1..Len(s)
  BY <1>1, <1>3 DEF Row, InStream
<1>5. PICK v : v = w \o Pieces(m, p.kind)
  OBVIOUS
<1>6. /\ v \in Seq(PieceSet) /\ Once(v)
      /\ OnWire(v) = OnWire(w) \cup OnWire(Pieces(m, p.kind))
      /\ \A x \in OnWire(Pieces(m, p.kind)) : x[1] = m
  <2>1. \A x \in OnWire(w) : x[1] # m
    BY <1>4 DEF Row, InStream
  <2>2. w \in Seq(PieceSet) /\ Once(w)
    BY DEF Row, InStream
  <2>3. \A x \in OnWire(Pieces(m, p.kind)) : x[1] = m
    BY PiecesFacts
  <2> QED BY <1>5, <2>1, <2>2, <2>3, SendWire
<1>7. Begun(t) = 0 \/ Begun(t) \in 1..Len(s)
  BY DEF Begun, Row, InStream
<1>8. <<Begun(t), 1>> \notin OnWire(v)
  <2>1. <<Begun(t), 1>> \notin OnWire(w)
    BY DEF Row, InStream
  <2>2. Begun(t) # m
    BY <1>4, <1>7
  <2>3. <<Begun(t), 1>>[1] = Begun(t)
    OBVIOUS
  <2> QED BY <1>6, <2>1, <2>2, <2>3
<1>9. InStream(r, v, t)
  <2>1. \A x \in OnWire(v) : x[1] \in 1..Len(r)
    BY <1>4, <1>6 DEF Row, InStream
  <2> QED BY <1>3, <1>4, <1>6, <1>8, <2>1 DEF Row, InStream
<1>10. \A n \in Ahead(v, t) : n \in Ahead(w, t) \/ n = m
  <2>1. \A n : <<n, 1>> \in OnWire(Pieces(m, p.kind)) => <<n, 1>>[1] = m /\ <<n, 1>>[1] = n
    BY <1>6
  <2> QED BY <1>6, <2>1 DEF Ahead
<1>11. \A n \in Ahead(w, t) : n \in 1..Len(r) => n \in 1..Len(s)
  <2>1. ASSUME NEW n \in Ahead(w, t) PROVE n # m
    <3>1. n = Begun(t) \/ <<n, 1>> \in OnWire(w)
      BY DEF Ahead
    <3>2. <<n, 1>> \in OnWire(w) => <<n, 1>>[1] \in 1..Len(s)
      BY DEF Row, InStream
    <3>3. <<n, 1>>[1] = n
      OBVIOUS
    <3> QED BY <1>4, <1>7, <3>1, <3>2, <3>3
  <2> QED BY <1>4, <2>1
<1>12. ASSUME InOrder(s, w, t, b, k, cn) PROVE InOrder(r, v, t, b, j, cn)
  <2>1. b = <<>> /\ NoneAsks(s, w, t) /\ Knows(k) /\ Aims(s)
    BY <1>12 DEF InOrder, Live
  <2>2. \A n \in Ahead(v, t) : n \in 1..Len(r) /\ Asks(r[n]) => n = m
    BY <1>3, <1>10, <1>11, <2>1 DEF NoneAsks
  <2>3. Aims(r)
    BY <1>3, <1>4, <2>1 DEF Aims
  <2>4. CASE Asks(p)
    <3>1. j.at \in {"count", "data"}
      BY <2>4 DEF Asks
    <3>2. Matched(r, v, t, b, j)
      BY <1>3, <1>4, <2>1, <2>2, <2>4 DEF Matched
    <3> QED BY <2>1, <2>3, <3>1, <3>2 DEF InOrder
  <2>5. CASE ~Asks(p)
    <3>1. NoneAsks(r, v, t)
      BY <1>3, <2>2, <2>5 DEF NoneAsks
    <3> QED BY <2>1, <2>3, <2>5, <3>1 DEF InOrder
  <2> QED BY <2>4, <2>5
<1> QED BY <1>1, <1>2, <1>5, <1>9, <1>12 DEF Row

\* A client reads an answer, and asks on or has finished.
LEMMA Answered ==
  ASSUME NEW s, NEW w, NEW t, NEW b, NEW k, NEW cn, NEW l,
         Row(s, w, t, b, k, cn, l), NEW j, ClientShape(j), b # <<>>,
         k.at \in {"count", "data"}, j.at \in {"idle", "ask"},
         \A q \in 1..Len(s) :
           /\ s[q].kind = k.at /\ (k.at = "data" => s[q].index = k.next)
           /\ b = <<Reply(s[q])>> /\ Knows(k)
           => Knows(j)
  PROVE  Row(s, w, t, Tail(b), j, cn, l)
<1>1. Tail(b) \in Seq(Replies)
  BY DEF Row
<1>2. ASSUME InOrder(s, w, t, b, k, cn) PROVE InOrder(s, w, t, Tail(b), j, cn)
  <2>1. Matched(s, w, t, b, k) /\ Knows(k) /\ Aims(s)
    BY <1>2 DEF InOrder
  <2>2. PICK q \in 1..Len(s) :
          /\ s[q].kind = k.at /\ (k.at = "data" => s[q].index = k.next)
          /\ b = <<Reply(s[q])>> /\ NoneAsks(s, w, t)
    BY <2>1 DEF Matched
  <2>3. Knows(j)
    BY <2>1, <2>2
  <2>4. Tail(b) = <<>>
    BY <2>2
  <2> QED BY <2>1, <2>2, <2>3, <2>4 DEF InOrder
<1>3. cn # "none"
  BY DEF Row
<1> QED BY <1>1, <1>2, <1>3 DEF Row

-----------------------------------------------------------------------------
(* What stays through every step. *)

\* What a client has sent, and that it gave up, stays.
Grown ==
  /\ late \subseteq late'
  /\ \A c \in Clients : \A n \in 1..Len(sent[c]) :
       n \in 1..Len(sent'[c]) /\ sent'[c][n] = sent[c][n]

LEMMA MeantStays ==
  ASSUME Grown, NEW cmd, Meant(cmd)
  PROVE  Meant(cmd)'
BY DEF Grown, Meant

LEMMA ChannelStays ==
  ASSUME InChannel, Grown, main' = main, queue' = queue, batch' = batch
  PROVE  InChannel'
<1>1. AllMeant(queue)'
  BY MeantStays DEF InChannel, AllMeant
<1>2. AllMeant(batch)'
  BY MeantStays DEF InChannel, AllMeant
<1> QED BY <1>1, <1>2 DEF InChannel

LEMMA PacketsSent ==
  ASSUME Rows, NEW c \in Clients
  PROVE  sent[c] \in Seq(Packets) /\ DOMAIN sent[c] = 1..Len(sent[c])
<1>1. sent[c] \in Seq(Packets)
  BY DEF Rows, Row, InStream
<1> QED BY <1>1

LEMMA ShownStays ==
  ASSUME ShownAsSent, Rows, Rows', Grown, shown' = shown
  PROVE  ShownAsSent'
<1>1. \A c \in Clients : /\ DOMAIN sent[c] = 1..Len(sent[c])
                         /\ DOMAIN sent'[c] = 1..Len(sent'[c])
  BY DEF Rows, Row, InStream
<1> SUFFICES ASSUME NEW g \in AllGroups, shown'[g] # <<>>
             PROVE  \E c \in Clients : \E n \in DOMAIN sent'[c] :
                      /\ sent'[c][n].kind = "leds" /\ (sent'[c][n].group = g \/ c \in late')
                      /\ \A k \in DOMAIN shown'[g] : InPlace(c, n, k, shown'[g][k])
  BY DEF ShownAsSent
<1>4. PICK c \in Clients : \E n \in DOMAIN sent[c] :
        /\ sent[c][n].kind = "leds" /\ (sent[c][n].group = g \/ c \in late)
        /\ \A k \in DOMAIN shown[g] : InPlace(c, n, k, shown[g][k])
  BY DEF ShownAsSent
<1>2. PICK n \in DOMAIN sent[c] :
        /\ sent[c][n].kind = "leds" /\ (sent[c][n].group = g \/ c \in late)
        /\ \A k \in DOMAIN shown[g] : InPlace(c, n, k, shown[g][k])
  BY <1>4
<1>3. n \in DOMAIN sent'[c] /\ sent'[c][n] = sent[c][n]
  BY <1>1, <1>2 DEF Grown
<1> QED BY <1>2, <1>3 DEF Grown

-----------------------------------------------------------------------------
(* The steps of the threads. *)

\* A step of one connection leaves the others alone.
LEMMA RowStep ==
  ASSUME ServerShape, Rows, NEW c \in Clients,
         sent' = [sent EXCEPT ![c] = sent'[c]], wire' = [wire EXCEPT ![c] = wire'[c]],
         thread' = [thread EXCEPT ![c] = thread'[c]], back' = [back EXCEPT ![c] = back'[c]],
         client' = [client EXCEPT ![c] = client'[c]], conn' = [conn EXCEPT ![c] = conn'[c]],
         late' \subseteq Clients, \A d \in Clients \ {c} : d \in late' <=> d \in late,
         Row(sent'[c], wire'[c], thread'[c], back'[c], client'[c], conn'[c], c \in late'),
         UNCHANGED <<caps, registry, shown>>
  PROVE  ServerShape' /\ Rows'
<1>1. ServerShape'
  BY DEF ServerShape
<1>2. ASSUME NEW d \in Clients, d # c
      PROVE  Row(sent'[d], wire'[d], thread'[d], back'[d], client'[d], conn'[d], d \in late')
  <2>1. /\ sent'[d] = sent[d] /\ wire'[d] = wire[d] /\ thread'[d] = thread[d]
        /\ back'[d] = back[d] /\ client'[d] = client[d] /\ conn'[d] = conn[d]
    BY <1>2 DEF ServerShape
  <2>2. (d \in late') = (d \in late)
    BY <1>2
  <2> QED BY <2>1, <2>2 DEF Rows
<1>3. ASSUME NEW d \in Clients
      PROVE  Row(sent'[d], wire'[d], thread'[d], back'[d], client'[d], conn'[d], d \in late')
  BY <1>2
<1> QED BY <1>1, <1>3 DEF Rows

\* A connection is opened, or ends.
LEMMA Moves ==
  ASSUME NEW s, NEW w, NEW t, NEW b, NEW k, NEW cn, NEW l,
         Row(s, w, t, b, k, cn, l), NEW dn,
         dn # "none" \/ cn = "none", dn \in Live => cn \in Live
  PROVE  Row(s, w, t, b, k, dn, l)
BY DEF Row, InOrder

\* The steps of a client's thread.
LEMMA ThreadSteps ==
  ASSUME ServerShape, Rows, NEW c \in Clients, Accept(c) \/ Check(c) \/ ReadTimesOut(c) \/ Eof(c)
  PROVE  ServerShape' /\ Rows'
<1>1. Row(sent[c], wire[c], thread[c], back[c], client[c], conn[c], c \in late)
  BY DEF Rows
<1>2. /\ UNCHANGED <<sent, wire, back, client, late, caps, registry, shown>>
      /\ \E at \in {"check", "header", "ended"} :
           thread' = [thread EXCEPT ![c] = [at |-> at, got |-> <<>>, packet |-> 0]]
      /\ \/ conn' = conn
         \/ conn' = [conn EXCEPT ![c] = "open"] /\ conn[c] = "waiting"
         \/ conn' = [conn EXCEPT ![c] = IF @ = "open" THEN "dropped" ELSE @]
  BY DEF Accept, Check, ReadTimesOut, Eof, Drops, Goes, NoThread, server
<1>3. PICK at \in {"check", "header", "ended"} :
        thread' = [thread EXCEPT ![c] = [at |-> at, got |-> <<>>, packet |-> 0]]
  BY <1>2
<1>4. thread'[c] = [at |-> at, got |-> <<>>, packet |-> 0]
  BY <1>3 DEF ServerShape
<1>5. /\ conn' = [conn EXCEPT ![c] = conn'[c]]
      /\ conn'[c] = conn[c] \/ (conn[c] = "waiting" /\ conn'[c] = "open")
         \/ (conn[c] = "open" /\ conn'[c] = "dropped")
  BY <1>2 DEF ServerShape
<1>6. PICK dn : dn = conn'[c] /\ (dn # "none" \/ conn[c] = "none")
                /\ (dn \in Live => conn[c] \in Live)
  BY <1>5 DEF Live
<1>7. Row(sent[c], wire[c], thread'[c], back[c], client[c], dn, c \in late)
  BY <1>1, <1>4, <1>6, Forgets
<1>8. Row(sent'[c], wire'[c], thread'[c], back'[c], client'[c], conn'[c], c \in late')
  BY <1>2, <1>6, <1>7
<1>9. /\ sent' = [sent EXCEPT ![c] = sent'[c]] /\ wire' = [wire EXCEPT ![c] = wire'[c]]
      /\ back' = [back EXCEPT ![c] = back'[c]] /\ client' = [client EXCEPT ![c] = client'[c]]
      /\ thread' = [thread EXCEPT ![c] = thread'[c]] /\ late' \subseteq Clients
  BY <1>2, <1>3, <1>4 DEF ServerShape
<1> QED BY <1>2, <1>5, <1>8, <1>9, RowStep

LEMMA TwoParts == ASSUME NEW a, NEW b PROVE Append(<<a>>, b) = <<a, b>>
<1> DEFINE t == Append(<<a>>, b)
           u == <<a, b>>
<1>1. t \in Seq({a, b}) /\ u \in Seq({a, b}) /\ Len(t) = 2 /\ Len(u) = 2
      /\ t[1] = a /\ t[2] = b /\ u[1] = a /\ u[2] = b
  OBVIOUS
<1> HIDE DEF t, u
<1>2. \A i \in 1..Len(t) : t[i] = u[i]
  <2>1. \A i \in 1..2 : i = 1 \/ i = 2
    OBVIOUS
  <2> QED BY <1>1, <2>1
<1>3. t = u
  BY <1>1, <1>2, SeqEqual
<1> QED BY <1>3 DEF t, u

LEMMA ReadSteps ==
  ASSUME ServerShape, Rows, NEW c \in Clients, Read(c)
  PROVE  ServerShape' /\ Rows'
<1>1. Row(sent[c], wire[c], thread[c], back[c], client[c], conn[c], c \in late)
  BY DEF Rows
<1>2. /\ UNCHANGED <<sent, back, client, late, caps, registry, shown>>
      /\ wire[c] # <<>> /\ wire' = [wire EXCEPT ![c] = Tail(@)]
      /\ wire'[c] = Tail(wire[c])
  BY DEF Read, server, ServerShape
<1>3. PICK s, w, t, b, k, cn, x :
        /\ s = sent[c] /\ w = wire[c] /\ t = thread[c] /\ b = back[c] /\ k = client[c]
        /\ cn = conn[c] /\ x = Head(wire[c])
  OBVIOUS
<1>4. Row(s, w, t, b, k, cn, c \in late) /\ InStream(s, w, t) /\ ThreadShape(t) /\ w # <<>>
  BY <1>1, <1>2, <1>3 DEF Row, InStream
<1>5. x \in PieceSet /\ x \in OnWire(w) /\ x[1] \in 1..Len(s) /\ x = <<x[1], x[2]>>
  <2>1. w \in Seq(PieceSet) /\ Once(w)
    BY <1>4 DEF InStream
  <2>2. x \in PieceSet /\ x \in OnWire(w)
    BY <1>3, <1>4, <2>1, TailWire
  <2> QED BY <1>4, <2>2 DEF InStream, PieceSet
<1>6. Len(s) \in Nat
  BY <1>4 DEF InStream
<1>7. \/ /\ thread' = [thread EXCEPT ![c] = thread'[c]] /\ conn' = conn
         /\ Begins(s, x, t, thread'[c])
      \/ Drops(c)
  <2>1. CASE t.at = "payload"
    <3>1. thread' = [thread EXCEPT ![c] = [at |-> "packet", got |-> <<>>, packet |-> t.packet]]
          /\ conn' = conn
      BY <1>3, <2>1 DEF Read, Goes
    <3>2. PICK u : u = [at |-> "packet", got |-> <<>>, packet |-> t.packet]
      OBVIOUS
    <3>5. thread' = [thread EXCEPT ![c] = u] /\ thread'[c] = u
      BY <3>1, <3>2 DEF ServerShape
    <3>3. t.packet \in 1..Len(s) /\ Begun(t) = t.packet
      BY <1>4, <2>1 DEF InStream, Begun
    <3>4. Begins(s, x, t, u)
      BY <1>6, <3>2, <3>3 DEF Begins, ThreadShape, Begun
    <3> QED BY <3>1, <3>4, <3>5
  <2>2. CASE t.at = "header"
    <3>1. PICK got : got = Append(t.got, x)
      OBVIOUS
    <3>2. CASE t.got = <<>>
      <4>1. got = <<x>> /\ Len(got) = 1 /\ got[1] = x
        BY <3>1, <3>2
      <4>2. thread' = [thread EXCEPT ![c] = [at |-> "header", got |-> got, packet |-> 0]]
            /\ conn' = conn
        BY <1>3, <2>2, <3>1, <4>1 DEF Read, Goes, HeaderPieces
      <4>3. PICK u : u = [at |-> "header", got |-> <<x>>, packet |-> 0]
        OBVIOUS
      <4>4. ThreadShape(u) /\ u.got[1] = x /\ u.at = "header"
        BY <1>5, <4>3 DEF ThreadShape
      <4>5. Begun(u) = IF x[2] = 1 THEN x[1] ELSE 0
        BY <4>3 DEF Begun
      <4>6. Begun(u) = 0 \/ <<Begun(u), 1>> = x
        BY <1>5, <4>5
      <4>7. Begins(s, x, t, u)
        BY <4>4, <4>6 DEF Begins
      <4>8. thread' = [thread EXCEPT ![c] = u] /\ thread'[c] = u
        BY <4>1, <4>2, <4>3 DEF ServerShape
      <4> QED BY <4>2, <4>7, <4>8
    <3>3. CASE t.got # <<>>
      <4>1. PICK y \in PieceSet : t.got = <<y>> /\ t.got[1] = y
        BY <1>4, <3>3 DEF ThreadShape
      <4>2. got = <<y, x>> /\ Len(got) = 2 /\ got[1] = y
        BY <3>1, <4>1, TwoParts
      <4>3. CASE ~IsHeader(got)
        BY <1>3, <2>2, <3>1, <4>2, <4>3 DEF Read, HeaderPieces
      <4>4. CASE IsHeader(got)
        <5>1. y[2] = 1 /\ y[1] \in 1..Len(s) /\ Begun(t) = y[1]
          BY <1>4, <2>2, <4>1, <4>2, <4>4 DEF IsHeader, HasMagic, InStream, Begun
        <5>2. conn' = conn
              /\ \E at \in {"payload", "packet"} :
                   thread' = [thread EXCEPT ![c] = [at |-> at, got |-> <<>>, packet |-> y[1]]]
          BY <1>3, <2>2, <3>1, <4>2, <4>4, <5>1 DEF Read, HeaderPieces, Goes, IsHeader
        <5>3. PICK at \in {"payload", "packet"} :
                thread' = [thread EXCEPT ![c] = [at |-> at, got |-> <<>>, packet |-> y[1]]]
          BY <5>2
        <5>4. PICK u : u = [at |-> at, got |-> <<>>, packet |-> y[1]]
          OBVIOUS
        <5>5. Begins(s, x, t, u)
          BY <1>6, <5>1, <5>4 DEF Begins, ThreadShape, Begun
        <5>6. thread' = [thread EXCEPT ![c] = u] /\ thread'[c] = u
          BY <5>3, <5>4 DEF ServerShape
        <5> QED BY <5>2, <5>5, <5>6
      <4> QED BY <4>3, <4>4
    <3> QED BY <3>2, <3>3
  <2> QED BY <1>3, <2>1, <2>2 DEF Read
<1>8. CASE /\ thread' = [thread EXCEPT ![c] = thread'[c]] /\ conn' = conn
           /\ Begins(s, x, t, thread'[c])
  <2>1. PICK u : u = thread'[c]
    OBVIOUS
  <2>2. Row(s, Tail(w), u, b, k, cn, c \in late)
    BY <1>3, <1>4, <1>8, <2>1, ReadsOn
  <2>3. Row(sent'[c], wire'[c], thread'[c], back'[c], client'[c], conn'[c], c \in late')
    BY <1>2, <1>3, <1>8, <2>1, <2>2
  <2>4. /\ sent' = [sent EXCEPT ![c] = sent'[c]] /\ wire' = [wire EXCEPT ![c] = wire'[c]]
        /\ back' = [back EXCEPT ![c] = back'[c]] /\ client' = [client EXCEPT ![c] = client'[c]]
        /\ conn' = [conn EXCEPT ![c] = conn'[c]] /\ late' \subseteq Clients
    BY <1>2, <1>8 DEF ServerShape
  <2> QED BY <1>2, <1>8, <2>3, <2>4, RowStep
<1>9. CASE Drops(c)
  <2>1. PICK u : u = NoThread
    OBVIOUS
  <2>2. Begins(s, x, t, u)
    BY <2>1 DEF Begins, NoThread, ThreadShape, Begun
  <2>3. Row(s, Tail(w), u, b, k, cn, c \in late)
    BY <1>3, <1>4, <2>2, ReadsOn
  <2>4. /\ thread' = [thread EXCEPT ![c] = thread'[c]] /\ thread'[c] = u
        /\ conn' = [conn EXCEPT ![c] = conn'[c]]
        /\ conn'[c] = conn[c] \/ (conn[c] = "open" /\ conn'[c] = "dropped")
    BY <1>9, <2>1 DEF Drops, ServerShape
  <2>5. PICK dn : dn = conn'[c] /\ (dn # "none" \/ cn = "none")
                  /\ (dn \in Live => cn \in Live)
    BY <1>3, <2>4 DEF Live
  <2>6. Row(s, Tail(w), u, b, k, dn, c \in late)
    BY <2>3, <2>5, Moves
  <2>7. Row(sent'[c], wire'[c], thread'[c], back'[c], client'[c], conn'[c], c \in late')
    BY <1>2, <1>3, <2>4, <2>5, <2>6
  <2>8. /\ sent' = [sent EXCEPT ![c] = sent'[c]] /\ wire' = [wire EXCEPT ![c] = wire'[c]]
        /\ back' = [back EXCEPT ![c] = back'[c]] /\ client' = [client EXCEPT ![c] = client'[c]]
        /\ late' \subseteq Clients
    BY <1>2 DEF ServerShape
  <2> QED BY <1>2, <2>4, <2>7, <2>8, RowStep
<1> QED BY <1>7, <1>8, <1>9

LEMMA HandleSteps ==
  ASSUME ServerShape, Rows, InChannel, NEW c \in Clients, Handle(c)
  PROVE  ServerShape' /\ Rows' /\ InChannel'
<1>1. Row(sent[c], wire[c], thread[c], back[c], client[c], conn[c], c \in late)
  BY DEF Rows
<1>2. /\ UNCHANGED <<sent, wire, client, late, conn, caps, registry, shown, main, batch>>
      /\ thread' = [thread EXCEPT ![c] = [at |-> "check", got |-> <<>>, packet |-> 0]]
  BY DEF Handle, server, Goes
<1>3. PICK s, t, n : s = sent[c] /\ t = thread[c] /\ n = thread[c].packet
  OBVIOUS
<1>4. /\ t.at = "packet" /\ n \in 1..Len(s) /\ s \in Seq(Packets) /\ s[n] \in Packets /\ n # 0
      /\ n \in Nat
  <2>1. t.at = "packet" /\ InStream(s, wire[c], t)
    BY <1>1, <1>3 DEF Handle, Row
  <2> QED BY <1>3, <2>1 DEF InStream
<1>5. caps = FirstGroups
  BY DEF ServerShape
<1>6. Answer(s[n]) = Reply(s[n])
  BY <1>5 DEF Answer, Reply
<1>7. back' = IF Asks(s[n]) THEN [back EXCEPT ![c] = Append(@, Reply(s[n]))] ELSE back
  BY <1>3, <1>4, <1>6 DEF Handle
<1>8. back' = [back EXCEPT ![c] = back'[c]]
      /\ back'[c] = IF Asks(s[n]) THEN Append(back[c], Reply(s[n])) ELSE back[c]
  BY <1>7 DEF ServerShape
<1>9. PICK e, u : /\ e = (IF Asks(s[n]) THEN Append(back[c], Reply(s[n])) ELSE back[c])
                  /\ u = [at |-> "check", got |-> <<>>, packet |-> 0]
  OBVIOUS
<1>10. Row(s, wire[c], u, e, client[c], conn[c], c \in late)
  <2>1. Row(s, wire[c], t, back[c], client[c], conn[c], c \in late) /\ t.packet = n
    BY <1>1, <1>3
  <2>2. Row(s, wire[c], [at |-> "check", got |-> <<>>, packet |-> 0],
            IF Asks(s[t.packet]) THEN Append(back[c], Reply(s[t.packet])) ELSE back[c],
            client[c], conn[c], c \in late)
    BY <1>4, <2>1, Handles
  <2> QED BY <1>9, <2>1, <2>2
<1>11. thread'[c] = u /\ thread' = [thread EXCEPT ![c] = u]
  BY <1>2, <1>9 DEF ServerShape
<1>12. Row(sent'[c], wire'[c], thread'[c], back'[c], client'[c], conn'[c], c \in late')
  BY <1>2, <1>3, <1>8, <1>9, <1>10, <1>11
<1>13. /\ sent' = [sent EXCEPT ![c] = sent'[c]] /\ wire' = [wire EXCEPT ![c] = wire'[c]]
       /\ client' = [client EXCEPT ![c] = client'[c]] /\ conn' = [conn EXCEPT ![c] = conn'[c]]
       /\ thread' = [thread EXCEPT ![c] = thread'[c]] /\ late' \subseteq Clients
  BY <1>2, <1>11 DEF ServerShape
<1>14. ServerShape' /\ Rows'
  BY <1>2, <1>8, <1>12, <1>13, RowStep
<1>15. Grown
  BY <1>2 DEF Grown
<1>16. PICK q : q = queue
  OBVIOUS
<1>17. AllMeant(q)'
  BY <1>15, <1>16, MeantStays DEF InChannel, AllMeant
<1>18. AllMeant(batch)' /\ (main' = "apply" => batch' # <<>>)
  BY <1>2, <1>15, MeantStays DEF InChannel, AllMeant
<1>19. CASE ~(s[n].kind = "leds" /\ s[n].index \in DOMAIN caps)
  <2>1. queue' = q
    BY <1>3, <1>4, <1>16, <1>19 DEF Handle
  <2> QED BY <1>14, <1>17, <1>18, <2>1 DEF InChannel, AllMeant
<1>20. CASE s[n].kind = "leds" /\ s[n].index \in DOMAIN caps
  <2>1. PICK cmd : cmd = ColorCommand(c, n, s[n])
    OBVIOUS
  <2>2. queue' = Append(q, cmd)
    BY <1>3, <1>4, <1>16, <1>20, <2>1 DEF Handle
  <2>3. /\ cmd.client = c /\ cmd.n = n /\ cmd.group = FirstGroups[s[n].index][1]
        /\ cmd.colors = Parsed(c, n, s[n].fans)
    BY <1>5, <2>1 DEF ColorCommand, Parsed
  <2>4. FirstGroups[s[n].index][1] \in AllGroups /\ s[n].fans \in Nat
    <3>1. \A i \in DOMAIN FirstGroups : FirstGroups[i][1] \in AllGroups
      BY GroupsAssumption
    <3>2. s[n].fans \in Nat
      BY <1>4 DEF Packets
    <3> QED BY <1>5, <1>20, <3>1, <3>2
  <2>5. c \in late \/ s[n].group = FirstGroups[s[n].index][1]
    BY <1>1, <1>3, <1>4, <1>20 DEF Row, InOrder, Aims
  <2>6. Meant(cmd)'
    BY <1>2, <1>3, <1>4, <1>20, <2>3, <2>4, <2>5 DEF Meant
  <2>7. PICK S : q \in Seq(S) /\ \A x \in S : Meant(x)'
    BY <1>17 DEF AllMeant
  <2>8. Append(q, cmd) \in Seq(S \cup {cmd})
    BY <2>7
  <2>9. \A x \in S \cup {cmd} : Meant(x)'
    BY <2>6, <2>7
  <2> QED BY <1>14, <1>18, <2>2, <2>8, <2>9 DEF InChannel, AllMeant
<1> QED BY <1>19, <1>20

-----------------------------------------------------------------------------
(* The clients. *)

LEMMA ConnectSteps ==
  ASSUME ServerShape, Rows, NEW c \in Clients, Connect(c) \/ Leave(c)
  PROVE  ServerShape' /\ Rows'
<1>1. Row(sent[c], wire[c], thread[c], back[c], client[c], conn[c], c \in late)
  BY DEF Rows
<1>2. /\ UNCHANGED <<sent, wire, thread, back, client, late, caps, registry, shown>>
      /\ conn' = [conn EXCEPT ![c] = conn'[c]]
      /\ (conn[c] = "none" /\ conn'[c] = "waiting") \/ (conn[c] = "open" /\ conn'[c] = "left")
  BY DEF Connect, Leave, server, ServerShape
<1>3. PICK dn : dn = conn'[c] /\ (dn # "none" \/ conn[c] = "none")
                /\ (dn \in Live => conn[c] \in Live)
  BY <1>2 DEF Live
<1>4. Row(sent[c], wire[c], thread[c], back[c], client[c], dn, c \in late)
  BY <1>1, <1>3, Moves
<1>5. Row(sent'[c], wire'[c], thread'[c], back'[c], client'[c], conn'[c], c \in late')
  BY <1>2, <1>3, <1>4
<1>6. /\ sent' = [sent EXCEPT ![c] = sent'[c]] /\ wire' = [wire EXCEPT ![c] = wire'[c]]
      /\ back' = [back EXCEPT ![c] = back'[c]] /\ client' = [client EXCEPT ![c] = client'[c]]
      /\ thread' = [thread EXCEPT ![c] = thread'[c]] /\ late' \subseteq Clients
  BY <1>2 DEF ServerShape
<1> QED BY <1>2, <1>5, <1>6, RowStep

\* A packet is sent.
LEMMA SendSteps ==
  ASSUME ServerShape, Rows, NEW c \in Clients, CanSend(c), NEW p \in Packets, NEW j,
         ClientShape(j), client[c].at \in {"idle", "ask"},
         IF Asks(p) THEN p.kind = j.at /\ (j.at = "data" => p.index = j.next)
                    ELSE j.at = client[c].at,
         Knows(client[c]) => Knows(j),
         Knows(client[c]) /\ p.kind = "leds" =>
           p.index \in DOMAIN FirstGroups /\ p.group = FirstGroups[p.index][1],
         Sends(c, p), client' = [client EXCEPT ![c] = j],
         UNCHANGED <<thread, back, conn, late, caps, registry, shown>>
  PROVE  ServerShape' /\ Rows' /\ Grown
<1>1. Row(sent[c], wire[c], thread[c], back[c], client[c], conn[c], c \in late)
  BY DEF Rows
<1>2. /\ sent' = [sent EXCEPT ![c] = Append(@, p)]
      /\ wire' = [wire EXCEPT ![c] = @ \o Pieces(Len(sent[c]) + 1, p.kind)]
  BY DEF Sends
<1>3. /\ sent'[c] = Append(sent[c], p) /\ wire'[c] = wire[c] \o Pieces(Len(sent[c]) + 1, p.kind)
      /\ client'[c] = j
  BY <1>2 DEF ServerShape
<1>4. conn[c] \in {"waiting", "open"}
  BY DEF CanSend, Connected
<1>5. PICK k, cn, s, w : k = client[c] /\ cn = conn[c] /\ s = sent[c] /\ w = wire[c]
  OBVIOUS
<1>6. Row(Append(s, p), w \o Pieces(Len(s) + 1, p.kind), thread[c], back[c], j, cn, c \in late)
  BY <1>1, <1>4, <1>5, SendsRow
<1>7. Row(sent'[c], wire'[c], thread'[c], back'[c], client'[c], conn'[c], c \in late')
  BY <1>3, <1>5, <1>6
<1>8. /\ sent' = [sent EXCEPT ![c] = sent'[c]] /\ wire' = [wire EXCEPT ![c] = wire'[c]]
      /\ back' = [back EXCEPT ![c] = back'[c]] /\ client' = [client EXCEPT ![c] = client'[c]]
      /\ thread' = [thread EXCEPT ![c] = thread'[c]] /\ conn' = [conn EXCEPT ![c] = conn'[c]]
      /\ late' \subseteq Clients
  BY <1>2, <1>3 DEF ServerShape
<1>9. ServerShape' /\ Rows'
  BY <1>7, <1>8, RowStep
<1>10. Grown
  <2> SUFFICES ASSUME NEW d \in Clients, NEW n \in 1..Len(sent[d])
               PROVE  n \in 1..Len(sent'[d]) /\ sent'[d][n] = sent[d][n]
    BY DEF Grown
  <2>1. sent[d] \in Seq(Packets)
    BY PacketsSent
  <2>2. CASE d = c
    BY <1>3, <2>1, <2>2
  <2>3. CASE d # c
    BY <1>2, <2>3 DEF ServerShape
  <2> QED BY <2>2, <2>3
<1> QED BY <1>9, <1>10

LEMMA AskSteps ==
  ASSUME ServerShape, Rows, NEW c \in Clients, AskCount(c) \/ AskData(c)
  PROVE  ServerShape' /\ Rows' /\ Grown
<1>1. ClientShape(client[c])
  BY DEF Rows, Row
<1>2. UNCHANGED <<thread, back, conn, late, caps, registry, shown>>
  BY DEF AskCount, AskData, server
<1>3. CASE AskCount(c)
  <2>1. PICK p, j : p = Packet("count", 0, 0, 0) /\ j = [Quiet EXCEPT !.at = "count"]
    OBVIOUS
  <2>2. p \in Packets /\ Asks(p) /\ p.kind = "count" /\ j.at = "count" /\ j.known = {}
        /\ ClientShape(j)
    BY <2>1 DEF Packet, Packets, Asks, Quiet, ClientShape
  <2>3. Knows(j)
    BY <2>2 DEF Knows
  <2>4. Sends(c, p) /\ client' = [client EXCEPT ![c] = j] /\ CanSend(c) /\ client[c].at = "idle"
    BY <1>3, <2>1 DEF AskCount
  <2> QED BY <1>2, <2>2, <2>3, <2>4, SendSteps
<1>4. CASE AskData(c)
  <2>1. PICK p, j : p = Packet("data", client[c].next, 0, 0) /\ j = [client[c] EXCEPT !.at = "data"]
    OBVIOUS
  <2>2. p \in Packets /\ Asks(p) /\ p.kind = "data" /\ p.index = client[c].next
    BY <1>1, <2>1 DEF Packet, Packets, Asks, ClientShape
  <2>3. j.at = "data" /\ j.known = client[c].known /\ j.next = client[c].next /\ ClientShape(j)
    BY <1>1, <2>1 DEF ClientShape
  <2>4. Knows(client[c]) => Knows(j)
    BY <2>3 DEF Knows
  <2>5. Sends(c, p) /\ client' = [client EXCEPT ![c] = j] /\ CanSend(c) /\ client[c].at = "ask"
    BY <1>4, <2>1 DEF AskData, ServerShape
  <2> QED BY <1>2, <2>2, <2>3, <2>4, <2>5, SendSteps
<1> QED BY <1>3, <1>4

LEMMA PaintSteps ==
  ASSUME ServerShape, Rows, NEW c \in Clients, NEW device, NEW kind \in {"leds", "zone"},
         Paint(c, device, kind)
  PROVE  ServerShape' /\ Rows' /\ Grown
<1>1. ClientShape(client[c])
  BY DEF Rows, Row
<1>2. UNCHANGED <<thread, back, conn, late, caps, registry, shown, client>>
  BY DEF Paint, server
<1>3. PICK p, j : p = Packet(kind, device[1], device[2][1], device[2][2]) /\ j = client[c]
  OBVIOUS
<1>4. device \in client[c].known /\ device[1] \in Nat /\ device[2] \in Devices
  BY <1>1 DEF Paint, ClientShape
<1>5. p \in Packets /\ p.kind = kind /\ p.index = device[1] /\ p.group = device[2][1] /\ ~Asks(p)
  BY <1>3, <1>4 DEF Packet, Packets, Asks, Devices
<1>6. Knows(client[c]) =>
        p.index \in DOMAIN FirstGroups /\ p.group = FirstGroups[p.index][1]
  BY <1>4, <1>5 DEF Knows
<1>7. Sends(c, p) /\ client' = [client EXCEPT ![c] = j] /\ CanSend(c) /\ client[c].at = "idle"
  BY <1>2, <1>3 DEF Paint, ServerShape
<1> QED BY <1>1, <1>2, <1>3, <1>5, <1>6, <1>7, SendSteps

\* The next question, or the end of them.
LEMMA NextIndexFacts ==
  ASSUME ServerShape, NEW c \in Clients, ClientShape(client[c]), NEW known, NextIndex(c, known),
         \A device \in known : device[1] \in Nat /\ device[2] \in Devices
  PROVE  /\ client' = [client EXCEPT ![c] = client'[c]]
         /\ ClientShape(client'[c]) /\ client'[c].at \in {"idle", "ask"}
         /\ client'[c].known = known
<1>1. PICK j : j = [at |-> IF client[c].next < client[c].count THEN "ask" ELSE "idle",
                    next |-> client[c].next + 1, count |-> client[c].count, known |-> known]
  OBVIOUS
<1>2. ClientShape(j) /\ j.at \in {"idle", "ask"} /\ j.known = known
  BY <1>1 DEF ClientShape
<1>3. client' = [client EXCEPT ![c] = j] /\ client'[c] = j
  BY <1>1 DEF NextIndex, ServerShape
<1> QED BY <1>2, <1>3

\* An answer is read.
LEMMA AnswerSteps ==
  ASSUME ServerShape, Rows, NEW c \in Clients, ReadCount(c) \/ ReadData(c)
  PROVE  ServerShape' /\ Rows'
<1>1. Row(sent[c], wire[c], thread[c], back[c], client[c], conn[c], c \in late)
  BY DEF Rows
<1>2. /\ UNCHANGED <<sent, wire, thread, conn, late, caps, registry, shown>>
      /\ back' = [back EXCEPT ![c] = Tail(@)] /\ back'[c] = Tail(back[c]) /\ back[c] # <<>>
      /\ client[c].at \in {"count", "data"} /\ ClientShape(client[c])
  BY <1>1 DEF ReadCount, ReadData, server, ServerShape, Row
<1>3. PICK a \in Packets : Head(back[c]) = Reply(a)
  BY <1>1, <1>2 DEF Row, Replies
<1>4. PICK k, b : k = client[c] /\ b = back[c]
  OBVIOUS
<1>5. /\ client' = [client EXCEPT ![c] = client'[c]]
      /\ ClientShape(client'[c]) /\ client'[c].at \in {"idle", "ask"}
      /\ \A q \in 1..Len(sent[c]) :
           /\ sent[c][q].kind = k.at /\ (k.at = "data" => sent[c][q].index = k.next)
           /\ b = <<Reply(sent[c][q])>> /\ Knows(k)
           => Knows(client'[c])
  <2>1. CASE ReadCount(c)
    <3>1. PICK n : n = Counted(Head(back[c]))
      OBVIOUS
    <3>2. n \in Nat
      <4>1. caps = FirstGroups /\ Len(FirstGroups) \in Nat
        BY GroupsAssumption DEF ServerShape
      <4> QED BY <1>3, <3>1, <4>1 DEF Counted, Reply
    <3>3. PICK j : j = [k EXCEPT !.at = IF n > 0 THEN "ask" ELSE "idle", !.count = n, !.next = 1]
      OBVIOUS
    <3>4. ClientShape(j) /\ j.at \in {"idle", "ask"} /\ j.known = k.known
      BY <1>2, <1>4, <3>2, <3>3 DEF ClientShape
    <3>5. client' = [client EXCEPT ![c] = j] /\ client'[c] = j
      BY <1>2, <1>4, <2>1, <3>1, <3>3 DEF ReadCount, ServerShape
    <3>6. Knows(k) => Knows(j)
      BY <3>4 DEF Knows
    <3> QED BY <3>4, <3>5, <3>6
  <2>2. CASE ReadData(c)
    <3>1. PICK known : /\ NextIndex(c, known)
                       /\ known = IF Reply(a).kind = "data"
                                  THEN k.known \cup {<<k.next, Reply(a).device>>} ELSE k.known
      BY <1>3, <1>4, <2>2 DEF ReadData
    <3>2. k.at = "data" /\ k.next \in Nat
      BY <1>2, <1>4, <2>2 DEF ReadData, ClientShape
    <3>3. Reply(a).kind = "data" =>
            a.index \in DOMAIN FirstGroups /\ Reply(a).device = FirstGroups[a.index]
      BY DEF Reply
    <3>4. Reply(a).kind = "data" => Reply(a).device \in Devices
      BY <3>3, GroupsAssumption DEF Devices
    <3>5. \A device \in known : device[1] \in Nat /\ device[2] \in Devices
      BY <1>2, <1>4, <3>1, <3>2, <3>4 DEF ClientShape
    <3>6. /\ client' = [client EXCEPT ![c] = client'[c]]
          /\ ClientShape(client'[c]) /\ client'[c].at \in {"idle", "ask"}
          /\ client'[c].known = known
      BY <1>2, <3>1, <3>5, NextIndexFacts
    <3>7. ASSUME NEW q \in 1..Len(sent[c]), sent[c][q].kind = "data",
                 sent[c][q].index = k.next, b = <<Reply(sent[c][q])>>, Knows(k)
          PROVE  Knows(client'[c])
      <4>1. Reply(a) = Reply(sent[c][q])
        BY <1>3, <1>4, <3>7
      <4>2. Reply(a).kind = "data" =>
              k.next \in DOMAIN FirstGroups /\ Reply(a).device = FirstGroups[k.next]
        BY <3>7, <4>1 DEF Reply
      <4> QED BY <3>1, <3>6, <3>7, <4>2 DEF Knows
    <3> QED BY <3>2, <3>6, <3>7
  <2> QED BY <2>1, <2>2
<1>6. PICK j, s : j = client'[c] /\ s = sent[c]
  OBVIOUS
<1>7. Row(s, wire[c], thread[c], Tail(b), j, conn[c], c \in late)
  <2>1. Row(s, wire[c], thread[c], b, k, conn[c], c \in late)
    BY <1>1, <1>4, <1>6
  <2>2. /\ ClientShape(j) /\ b # <<>> /\ k.at \in {"count", "data"} /\ j.at \in {"idle", "ask"}
        /\ \A q \in 1..Len(s) :
             /\ s[q].kind = k.at /\ (k.at = "data" => s[q].index = k.next)
             /\ b = <<Reply(s[q])>> /\ Knows(k)
             => Knows(j)
    BY <1>2, <1>4, <1>5, <1>6
  <2> QED BY <2>1, <2>2, Answered
<1>8. Row(sent'[c], wire'[c], thread'[c], back'[c], client'[c], conn'[c], c \in late')
  BY <1>2, <1>4, <1>6, <1>7
<1>9. /\ sent' = [sent EXCEPT ![c] = sent'[c]] /\ wire' = [wire EXCEPT ![c] = wire'[c]]
      /\ back' = [back EXCEPT ![c] = back'[c]] /\ conn' = [conn EXCEPT ![c] = conn'[c]]
      /\ thread' = [thread EXCEPT ![c] = thread'[c]] /\ late' \subseteq Clients
  BY <1>2 DEF ServerShape
<1> QED BY <1>2, <1>5, <1>8, <1>9, RowStep

\* An answer is given up on.
LEMMA UnansweredSteps ==
  ASSUME ServerShape, Rows, NEW c \in Clients, Unanswered(c) \/ AskFails(c)
  PROVE  ServerShape' /\ Rows' /\ late \subseteq late'
<1>1. Row(sent[c], wire[c], thread[c], back[c], client[c], conn[c], c \in late)
  BY DEF Rows
<1>2. /\ UNCHANGED <<sent, wire, thread, back, conn, caps, registry, shown>>
      /\ ClientShape(client[c]) /\ client[c].at \in {"count", "data", "ask"}
      /\ late' \in {late, late \cup {c}} /\ (Connected(c) => late' = late \cup {c})
  BY <1>1 DEF Unanswered, AskFails, server, Row
<1>3. /\ client' = [client EXCEPT ![c] = client'[c]]
      /\ ClientShape(client'[c]) /\ client'[c].at \in {"idle", "ask"}
      /\ (Knows(client[c]) => Knows(client'[c]))
  <2>1. CASE client' = [client EXCEPT ![c] = Quiet]
    <3>1. client'[c] = Quiet
      BY <2>1 DEF ServerShape
    <3>2. ClientShape(Quiet) /\ Quiet.at = "idle" /\ Knows(Quiet)
      BY DEF ClientShape, Quiet, Knows
    <3> QED BY <2>1, <3>1, <3>2
  <2>2. CASE NextIndex(c, client[c].known)
    <3>1. /\ client' = [client EXCEPT ![c] = client'[c]]
          /\ ClientShape(client'[c]) /\ client'[c].at \in {"idle", "ask"}
          /\ client'[c].known = client[c].known
      <4>1. \A device \in client[c].known : device[1] \in Nat /\ device[2] \in Devices
        BY <1>2 DEF ClientShape
      <4> QED BY <1>2, <2>2, <4>1, NextIndexFacts
    <3> QED BY <3>1 DEF Knows
  <2> QED BY <2>1, <2>2 DEF Unanswered, AskFails
<1>4. PICK j, k, cn : j = client'[c] /\ k = client[c] /\ cn = conn[c]
  OBVIOUS
<1>5. c \in late => c \in late'
  BY <1>2
<1>6. c \in late' \/ cn \notin {"waiting", "open"}
  BY <1>2, <1>4 DEF Connected
<1>7. Row(sent[c], wire[c], thread[c], back[c], j, cn, c \in late')
  <2>1. Row(sent[c], wire[c], thread[c], back[c], k, cn, c \in late)
    BY <1>1, <1>4
  <2>2. k.at # "idle" /\ ClientShape(j) /\ j.at \in {"idle", "ask"} /\ (Knows(k) => Knows(j))
    BY <1>2, <1>3, <1>4
  <2>3. cn # "none"
    BY <2>1, <2>2 DEF Row
  <2>4. ASSUME c \notin late' PROVE InOrder(sent[c], wire[c], thread[c], back[c], j, cn)
    <3>1. cn \notin Live
      BY <1>6, <2>3, <2>4 DEF Live
    <3>2. Knows(k) /\ Aims(sent[c])
      BY <1>5, <2>1, <2>4 DEF Row, InOrder
    <3> QED BY <2>2, <3>1, <3>2 DEF InOrder
  <2> QED BY <2>1, <2>2, <2>3, <2>4 DEF Row
<1>8. Row(sent'[c], wire'[c], thread'[c], back'[c], client'[c], conn'[c], c \in late')
  BY <1>2, <1>4, <1>7
<1>9. /\ sent' = [sent EXCEPT ![c] = sent'[c]] /\ wire' = [wire EXCEPT ![c] = wire'[c]]
      /\ back' = [back EXCEPT ![c] = back'[c]] /\ conn' = [conn EXCEPT ![c] = conn'[c]]
      /\ thread' = [thread EXCEPT ![c] = thread'[c]] /\ late' \subseteq Clients
      /\ \A d \in Clients \ {c} : d \in late' <=> d \in late
  BY <1>2 DEF ServerShape
<1> QED BY <1>2, <1>3, <1>8, <1>9, RowStep

-----------------------------------------------------------------------------
(* The main loop, and all steps together. *)

LEMMA NoCommands == \E S : <<>> \in Seq(S) /\ S = {}
<1>1. PICK S : S = {}
  OBVIOUS
<1>2. <<>> \in Seq(S)
  OBVIOUS
<1> QED BY <1>1, <1>2

LEMMA InitServer ==
  ASSUME ServerInit
  PROVE  ServerInv
<1>1. registry \in [AllGroups -> Nat]
  <2> SUFFICES ASSUME NEW g \in AllGroups
               PROVE  (IF \E i \in DOMAIN caps : caps[i][1] = g
                       THEN caps[CHOOSE i \in DOMAIN caps : caps[i][1] = g][2]
                       ELSE 0) \in Nat
    BY DEF ServerInit
  <2>1. \A i \in DOMAIN caps : caps[i][2] \in Nat
    BY GroupsAssumption DEF ServerInit
  <2>2. CASE \E i \in DOMAIN caps : caps[i][1] = g
    <3>1. (CHOOSE i \in DOMAIN caps : caps[i][1] = g) \in DOMAIN caps
      BY <2>2
    <3> QED BY <2>1, <2>2, <3>1
  <2> QED BY <2>2
<1>2. ServerShape
  BY <1>1 DEF ServerInit, ServerShape
<1>3. ASSUME NEW c \in Clients
      PROVE  Row(sent[c], wire[c], thread[c], back[c], client[c], conn[c], c \in late)
  <2>1. /\ sent[c] = <<>> /\ wire[c] = <<>> /\ thread[c] = NoThread /\ back[c] = <<>>
        /\ client[c] = Quiet /\ conn[c] = "none"
    BY DEF ServerInit
  <2>2. OnWire(<<>>) = {} /\ Once(<<>>)
    BY DEF OnWire, Once
  <2>3. ThreadShape(NoThread) /\ NoThread.got = <<>> /\ NoThread.at = "ended"
        /\ Begun(NoThread) = 0
    BY DEF ThreadShape, NoThread, Begun
  <2>4. InStream(<<>>, <<>>, NoThread)
    BY <2>2, <2>3 DEF InStream
  <2>5. ClientShape(Quiet) /\ Knows(Quiet) /\ Quiet.at = "idle"
    BY DEF ClientShape, Knows, Quiet
  <2>6. NoneAsks(<<>>, <<>>, NoThread) /\ Aims(<<>>)
    BY DEF NoneAsks, Aims
  <2>7. InOrder(<<>>, <<>>, NoThread, <<>>, Quiet, "none")
    BY <2>5, <2>6 DEF InOrder
  <2> QED BY <2>1, <2>4, <2>5, <2>7 DEF Row
<1>4. InChannel
  <2>1. PICK S : <<>> \in Seq(S) /\ \A cmd \in S : Meant(cmd)
    BY NoCommands
  <2>2. AllMeant(<<>>)
    BY <2>1 DEF AllMeant
  <2> QED BY <2>2 DEF ServerInit, InChannel
<1>5. ShownAsSent
  BY DEF ServerInit, ShownAsSent
<1> QED BY <1>2, <1>3, <1>4, <1>5 DEF ServerInv, Rows

\* What is taken off the channel was meant.
LEMMA TakenFacts ==
  ASSUME NEW q, AllMeant(q), q # <<>>
  PROVE  Meant(Head(q)) /\ AllMeant(Tail(q))
<1>1. PICK S : q \in Seq(S) /\ \A cmd \in S : Meant(cmd)
  BY DEF AllMeant
<1>2. Head(q) \in S /\ Tail(q) \in Seq(S)
  BY <1>1
<1> QED BY <1>1, <1>2 DEF AllMeant

\* The rows are none of a step's business.
LEMMA RowsBeside ==
  ASSUME Rows, UNCHANGED clients
  PROVE  Rows' /\ Grown
<1>1. /\ conn' = conn /\ thread' = thread /\ sent' = sent /\ wire' = wire /\ back' = back
      /\ client' = client /\ late' = late
  BY DEF clients
<1>2. Rows'
  BY <1>1 DEF Rows
<1> QED BY <1>1, <1>2 DEF Grown

LEMMA ApplyStep ==
  ASSUME ServerInv, Apply
  PROVE  ServerInv'
<1>1. Rows' /\ Grown /\ UNCHANGED <<caps, registry, late, sent, queue>>
  BY RowsBeside DEF ServerInv, Apply, clients
<1>2. ServerShape'
  BY DEF ServerInv, ServerShape, Apply, clients
<1>3. PICK cmd : cmd = Head(batch) /\ Meant(cmd)
  BY TakenFacts DEF ServerInv, InChannel, Apply
<1>4. InChannel'
  <2>1. AllMeant(Tail(batch)) /\ AllMeant(queue)
    BY TakenFacts DEF ServerInv, InChannel, Apply
  <2>2. PICK q, r : q = queue /\ r = Tail(batch)
    OBVIOUS
  <2>3. AllMeant(q)' /\ AllMeant(r)'
    BY <1>1, <2>1, <2>2, MeantStays DEF AllMeant
  <2>4. queue' = q /\ batch' = r
    BY <2>2 DEF Apply
  <2>5. main' = "apply" => batch' # <<>>
    BY DEF Apply
  <2> QED BY <2>3, <2>4, <2>5 DEF InChannel, AllMeant
<1>5. ASSUME NEW g \in AllGroups, shown'[g] # <<>>
      PROVE  \E c \in Clients : \E n \in DOMAIN sent[c] :
               /\ sent[c][n].kind = "leds" /\ (sent[c][n].group = g \/ c \in late)
               /\ \A k \in DOMAIN shown'[g] : InPlace(c, n, k, shown'[g][k])
  <2>1. CASE shown'[g] = shown[g]
    BY <1>5, <2>1 DEF ServerInv, ShownAsSent
  <2>2. CASE shown'[g] # shown[g]
    <3>1. PICK fans \in Nat : fans = registry[cmd.group]
      BY <1>3 DEF ServerInv, ServerShape, Meant
    <3>2. g = cmd.group /\ shown'[g] = Assigned(cmd.colors, fans)
      BY <1>3, <2>2, <3>1 DEF Apply, ServerInv, ServerShape
    <3>3. cmd.client \in Clients /\ sent[cmd.client] \in Seq(Packets)
      BY <1>3, PacketsSent DEF Meant, ServerInv
    <3>4. cmd.n \in DOMAIN sent[cmd.client] /\ cmd.n \in Nat
      BY <1>3, <3>3 DEF Meant
    <3>5. \A k \in DOMAIN shown'[g] : InPlace(cmd.client, cmd.n, k, shown'[g][k])
      <4>1. PICK k \in Nat : cmd.colors = Parsed(cmd.client, cmd.n, k)
        BY <1>3 DEF Meant
      <4> QED BY <3>2, <3>3, <3>4, <4>1, AssignedAsSent
    <3>6. sent[cmd.client][cmd.n].kind = "leds"
          /\ (sent[cmd.client][cmd.n].group = g \/ cmd.client \in late)
      BY <1>3, <3>2 DEF Meant
    <3> QED BY <3>3, <3>4, <3>5, <3>6
  <2> QED BY <2>1, <2>2
<1>6. ShownAsSent'
  BY <1>1, <1>5 DEF ShownAsSent
<1> QED BY <1>1, <1>2, <1>4, <1>6 DEF ServerInv

LEMMA LoopSteps ==
  ASSUME ServerInv, \/ Bind \/ AcceptorEnds \/ Drain \/ Stop
                    \/ \E g \in AllGroups, fans \in FanCounts : Rediscover(g, fans)
  PROVE  ServerInv'
<1>1. UNCHANGED <<clients, shown>>
  BY DEF Bind, AcceptorEnds, Drain, Stop, Rediscover
<1>2. Rows' /\ Grown
  BY <1>1, RowsBeside DEF ServerInv
<1>3. ServerShape'
  <2>1. caps' = FirstGroups
    BY DEF ServerInv, ServerShape, Bind, AcceptorEnds, Drain, Stop, Rediscover, SnapshotAfter
  <2>2. registry' \in [AllGroups -> Nat]
    <3>1. ASSUME NEW g \in AllGroups, NEW fans \in FanCounts, Rediscover(g, fans)
          PROVE  registry' \in [AllGroups -> Nat]
      <4>1. fans \in Nat /\ registry' = [registry EXCEPT ![g] = fans]
        BY <3>1, GroupsAssumption DEF Rediscover
      <4> QED BY <4>1 DEF ServerInv, ServerShape
    <3>2. CASE Bind \/ AcceptorEnds \/ Drain \/ Stop
      BY <3>2 DEF ServerInv, ServerShape, Bind, AcceptorEnds, Drain, Stop
    <3> QED BY <3>1, <3>2
  <2> QED BY <1>1, <2>1, <2>2 DEF ServerInv, ServerShape, clients
<1>4. ShownAsSent'
  BY <1>1, <1>2, ShownStays DEF ServerInv
<1>5. InChannel'
  <2>1. CASE Drain
    <3>1. PICK q : q = queue /\ q # <<>>
      BY <2>1 DEF Drain
    <3>2. AllMeant(q)'
      BY <1>2, <3>1, MeantStays DEF ServerInv, InChannel, AllMeant
    <3>3. batch' = q /\ queue' = <<>>
      BY <2>1, <3>1 DEF Drain
    <3>4. PICK S : <<>> \in Seq(S) /\ \A cmd \in S : Meant(cmd)'
      BY NoCommands
    <3>5. AllMeant(queue)'
      BY <3>3, <3>4 DEF AllMeant
    <3>6. AllMeant(batch)'
      BY <3>2, <3>3 DEF AllMeant
    <3> QED BY <3>1, <3>3, <3>5, <3>6 DEF InChannel
  <2>2. CASE main' # "apply" /\ UNCHANGED <<queue, batch>>
    <3>1. PICK q, r : q = queue /\ r = batch
      OBVIOUS
    <3>2. AllMeant(q)' /\ AllMeant(r)'
      BY <1>2, <3>1, MeantStays DEF ServerInv, InChannel, AllMeant
    <3> QED BY <2>2, <3>1, <3>2 DEF InChannel, AllMeant
  <2>3. CASE UNCHANGED <<main, queue, batch>>
    BY <1>2, <2>3, ChannelStays DEF ServerInv
  <2> QED BY <2>1, <2>2, <2>3 DEF Bind, AcceptorEnds, Stop, Rediscover
<1> QED BY <1>2, <1>3, <1>4, <1>5 DEF ServerInv

LEMMA JoinStep ==
  ASSUME ServerInv, Join
  PROVE  ServerInv'
<1>1. UNCHANGED <<caps, registry, shown, queue, batch, sent, wire, back, client, late>>
      /\ main' = "exited"
  BY DEF Join
<1>2. ServerShape'
  BY <1>1 DEF Join, ServerInv, ServerShape
<1>3. ASSUME NEW c \in Clients
      PROVE  Row(sent'[c], wire'[c], thread'[c], back'[c], client'[c], conn'[c], c \in late')
  <2>1. Row(sent[c], wire[c], thread[c], back[c], client[c], conn[c], c \in late)
    BY DEF ServerInv, Rows
  <2>2. thread'[c] = [at |-> "ended", got |-> <<>>, packet |-> 0]
    BY DEF Join, NoThread
  <2>3. PICK cn, dn : /\ cn = conn[c] /\ dn = conn'[c] /\ (dn # "none" \/ cn = "none")
                      /\ (dn \in Live => cn \in Live)
    BY DEF Join, Live
  <2>4. Row(sent[c], wire[c], thread[c], back[c], client[c], cn, c \in late)
    BY <2>1, <2>3
  <2>5. Row(sent[c], wire[c], [at |-> "ended", got |-> <<>>, packet |-> 0],
            back[c], client[c], dn, c \in late)
    BY <2>3, <2>4, Forgets
  <2> QED BY <1>1, <2>2, <2>3, <2>5
<1>4. Rows'
  BY <1>3 DEF Rows
<1>5. Grown
  BY <1>1 DEF Grown
<1>6. ShownAsSent'
  BY <1>1, <1>4, <1>5, ShownStays DEF ServerInv
<1>7. InChannel'
  <2>1. PICK q, r : q = queue /\ r = batch
    OBVIOUS
  <2>2. AllMeant(q)' /\ AllMeant(r)'
    BY <1>5, <2>1, MeantStays DEF ServerInv, InChannel, AllMeant
  <2> QED BY <1>1, <2>1, <2>2 DEF InChannel, AllMeant
<1> QED BY <1>2, <1>4, <1>6, <1>7 DEF ServerInv

LEMMA ClientSteps ==
  ASSUME ServerInv, NEW c \in Clients,
         \/ Accept(c) \/ Serve(c) \/ Connect(c) \/ AskCount(c) \/ Discovery(c) \/ Leave(c)
         \/ \E device \in client[c].known, kind \in {"leds", "zone"} : Paint(c, device, kind)
  PROVE  ServerInv'
<1>1. ASSUME ServerShape', Rows', Grown, UNCHANGED <<shown, main, queue, batch>>
      PROVE  ServerInv'
  <2>1. ShownAsSent'
    BY <1>1, ShownStays DEF ServerInv
  <2>2. InChannel'
    BY <1>1, ChannelStays DEF ServerInv
  <2> QED BY <1>1, <2>1, <2>2 DEF ServerInv
<1>2. CASE Accept(c) \/ Check(c) \/ ReadTimesOut(c) \/ Eof(c)
  <2>1. UNCHANGED <<sent, late, shown, main, queue, batch>>
    BY <1>2 DEF Accept, Check, ReadTimesOut, Eof, server
  <2>2. Grown
    BY <2>1 DEF Grown
  <2> QED BY <1>1, <1>2, <2>1, <2>2, ThreadSteps DEF ServerInv
<1>3. CASE Read(c)
  <2>1. UNCHANGED <<sent, late, shown, main, queue, batch>>
    BY <1>3 DEF Read, server
  <2>2. Grown
    BY <2>1 DEF Grown
  <2> QED BY <1>1, <1>3, <2>1, <2>2, ReadSteps DEF ServerInv
<1>4. CASE Handle(c)
  <2>1. UNCHANGED <<sent, late, shown>>
    BY <1>4 DEF Handle, server
  <2>2. Grown
    BY <2>1 DEF Grown
  <2>3. ServerShape' /\ Rows' /\ InChannel'
    BY <1>4, HandleSteps DEF ServerInv
  <2>4. ShownAsSent'
    BY <2>1, <2>2, <2>3, ShownStays DEF ServerInv
  <2> QED BY <2>3, <2>4 DEF ServerInv
<1>5. CASE Connect(c) \/ Leave(c)
  <2>1. UNCHANGED <<sent, late, shown, main, queue, batch>>
    BY <1>5 DEF Connect, Leave, server
  <2>2. Grown
    BY <2>1 DEF Grown
  <2> QED BY <1>1, <1>5, <2>1, <2>2, ConnectSteps DEF ServerInv
<1>6. CASE AskCount(c) \/ AskData(c)
  <2>1. UNCHANGED <<shown, main, queue, batch>>
    BY <1>6 DEF AskCount, AskData, server
  <2> QED BY <1>1, <1>6, <2>1, AskSteps DEF ServerInv
<1>7. CASE ReadCount(c) \/ ReadData(c)
  <2>1. UNCHANGED <<sent, late, shown, main, queue, batch>>
    BY <1>7 DEF ReadCount, ReadData, server
  <2>2. Grown
    BY <2>1 DEF Grown
  <2> QED BY <1>1, <1>7, <2>1, <2>2, AnswerSteps DEF ServerInv
<1>8. CASE Unanswered(c) \/ AskFails(c)
  <2>1. UNCHANGED <<sent, shown, main, queue, batch>>
    BY <1>8 DEF Unanswered, AskFails, server
  <2>2. ServerShape' /\ Rows' /\ late \subseteq late'
    BY <1>8, UnansweredSteps DEF ServerInv
  <2>3. Grown
    BY <2>1, <2>2 DEF Grown
  <2> QED BY <1>1, <2>1, <2>2, <2>3
<1>9. ASSUME NEW device, NEW kind \in {"leds", "zone"}, Paint(c, device, kind)
      PROVE  ServerInv'
  <2>1. UNCHANGED <<shown, main, queue, batch>>
    BY <1>9 DEF Paint, server
  <2>2. ServerShape' /\ Rows' /\ Grown
    BY <1>9, PaintSteps DEF ServerInv
  <2> QED BY <1>1, <2>1, <2>2
<1> QED BY <1>2, <1>3, <1>4, <1>5, <1>6, <1>7, <1>8, <1>9 DEF Serve, Discovery

LEMMA ServerStutters ==
  ASSUME ServerInv, UNCHANGED serverVars
  PROVE  ServerInv'
<1>1. UNCHANGED clients /\ UNCHANGED <<caps, registry, shown, main, queue, batch>>
  BY DEF serverVars, clients
<1>2. Rows' /\ Grown
  BY <1>1, RowsBeside DEF ServerInv
<1>3. ServerShape'
  BY <1>1 DEF clients, ServerInv, ServerShape
<1>4. ShownAsSent' /\ InChannel'
  BY <1>1, <1>2, ShownStays, ChannelStays DEF ServerInv
<1> QED BY <1>2, <1>3, <1>4 DEF ServerInv

\* At every moment a packet is on its way once, a question is answered once and by its
\* own answer, and what waits in the channel is for the group its sender named: kept by
\* the accept thread, the threads of the connections, the main loop and the clients, with
\* any pauses, time-outs, discoveries and connections that end (run_server, read_packet,
\* handle_client, drain_commands, request_controller_data).
THEOREM ServerInductive == ServerSpec => []ServerInv
<1>1. ServerInit => ServerInv
  BY InitServer
<1>2. ServerInv /\ [ServerNext]_serverVars => ServerInv'
  <2> SUFFICES ASSUME ServerInv, [ServerNext]_serverVars PROVE ServerInv'
    OBVIOUS
  <2>1. CASE Bind \/ AcceptorEnds \/ Stop
    BY <2>1, LoopSteps
  <2>2. CASE MainLoop
    BY <2>2, LoopSteps, ApplyStep DEF MainLoop
  <2>3. CASE Join
    BY <2>3, JoinStep
  <2>4. CASE \E g \in AllGroups, fans \in FanCounts : Rediscover(g, fans)
    BY <2>4, LoopSteps
  <2>5. CASE \E c \in Clients :
               \/ Accept(c) \/ Serve(c)
               \/ Connect(c) \/ AskCount(c) \/ Discovery(c) \/ Leave(c)
               \/ \E device \in client[c].known, kind \in Updates(c) : Paint(c, device, kind)
    BY <2>5, ClientSteps DEF Updates
  <2>6. CASE UNCHANGED serverVars
    BY <2>6, ServerStutters
  <2> QED BY <2>1, <2>2, <2>3, <2>4, <2>5, <2>6 DEF ServerNext
<1> QED BY <1>1, <1>2, PTL DEF ServerSpec

\* Whatever clients send, pause, forget or leave, and whatever the daemon discovers in
\* between, a group shows one frame that was sent for it, every LED in its place
\* (handle_client; the SetLeds command of main cut to the fans the group has now).
THEOREM ShownAsSentHolds == ServerSpec => []ShownAsSent
<1>1. ServerInv => ShownAsSent
  BY DEF ServerInv
<1> QED BY <1>1, ServerInductive, PTL

=============================================================================
