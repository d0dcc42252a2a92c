----------------------------- MODULE SpeedControl -----------------------------
(***************************************************************************)
(* How fans and pumps get their speed: the speed requests (handler.rs), the *)
(* periodic part of the engine tick (engine.rs) with the curve runner       *)
(* (curves.rs), the alert runner (alerts.rs) and the pump keepalive, all    *)
(* through System::set_speed and set_mb_sync (system.rs) to the RF backend, *)
(* and what discovery makes of what the devices report (registry.rs).       *)
(*                                                                         *)
(* One sensor drives every curve and alert.  Its readings are in half       *)
(* degrees, so that the deadband of 0.5 is one unit; curves see whole       *)
(* degrees.  Speeds are percentages.                                        *)
(***************************************************************************)
EXTENDS Integers, Sequences, FiniteSets

CONSTANTS
  Fans,       \* groups of fans
  Pumps,      \* groups with an AIO pump
  HwSync,     \* fans whose hardware can follow the motherboard (SLV3, CL)
  Readings,   \* what the sensor may show, in half degrees
  Curves,     \* curves requests may carry
  Saved,      \* names of saved curves a request may use
  SavedCurve, \* the curve of each name, or Nil: no such curve
  Presets,    \* percentages of Manual requests
  ConfigSpeed, \* the percentage the config has for a group, or Nil
  ConfigCurve, \* the curve the config has for a group, or Nil
  Alerts,     \* configured alerts with action SetSpeed: threshold and speed
  Scheduled,  \* percentages schedules set on all groups
  Machines,   \* the sets of groups a machine may have
  MaxFaults,  \* bound on failed sends and discoveries, and on vanished groups
  Board,      \* stands for the motherboard as the one who decides
  Nil

Groups == Fans \cup Pumps

\* The byte a percentage is sent as, and the percentage a byte is read as.
SpeedMin == 6
SpeedMax == 255
SpeedByte(p) == SpeedMin + (p * (SpeedMax - SpeedMin)) \div 100
BytePercent(b) == IF b <= SpeedMin THEN 0
                  ELSE IF b = SpeedMax THEN 100
                  ELSE ((b - SpeedMin) * 100) \div (SpeedMax - SpeedMin)

Percent == 0..100

ASSUME SpeedAssumption ==
  /\ Fans \cap Pumps = {} /\ HwSync \subseteq Fans
  /\ Readings \subseteq Nat /\ Presets \subseteq Percent /\ Scheduled \subseteq Percent
  /\ Nil \notin Percent /\ Nil \notin Readings /\ Nil \notin Curves
  /\ Board \notin Percent \cup {Nil}
  /\ "manual" \notin {Nil, Board}
  /\ SavedCurve \in [Saved -> Curves \cup {Nil}]
  /\ ConfigSpeed \in [Groups -> Percent \cup {Nil}]
  /\ ConfigCurve \in [Groups -> Curves \cup {Nil}]
  /\ \A c \in Curves : /\ c.points \in Seq(Nat \X Percent) /\ c.points # <<>>
                       /\ c.min \in Percent /\ c.step \in BOOLEAN
                       /\ c.stop \in Nat \cup {Nil} /\ c.ramp \in (Nat \ {0}) \cup {Nil}
  /\ \A i \in DOMAIN Alerts : Alerts[i].threshold \in Nat /\ Alerts[i].speed \in Percent
  /\ Machines \subseteq SUBSET Groups /\ MaxFaults \in Nat

VARIABLES
  installed, \* the groups of this machine
  reading,  \* what the sensor showed in the last poll, or Nil
  quiet,    \* history: the last step was a poll in which no schedule fired
  cached,   \* CurveRunner::sensors
  dirty,    \* CurveRunner::sensors_dirty
  curve,    \* CurveRunner::curves: the curve of each group, or Nil
  last,     \* CurveState::last_speed, or Nil
  alarm,    \* AlertState::active
  present,  \* groups in the registry
  known,    \* DeviceState::speed_percent
  mbSync,   \* Device::mb_sync
  told,     \* device: the percentage it was last sent, or Board
  decayed,  \* device: pumps that fell back to their minimum
  asked,    \* history: fans the last request for which was a Manual one or one
            \* for motherboard control: "manual", Board, or Nil
  faults

runner == <<cached, dirty, curve, last, alarm>>
device == <<known, told, decayed>>
speedVars == <<installed, reading, quiet, runner, present, mbSync, device, asked, faults>>

-----------------------------------------------------------------------------
(* FanCurve::speed_at_temp.  Points are pairs <<temp, speed>>.  Fractions are *)
(* exact here and doubles in the code, which can differ at exact halves.      *)

AtLeast(a, b) == IF a < b THEN b ELSE a
RoundDiv(a, b) == (2 * a + b) \div (2 * b)

Between(lo, hi, t) == RoundDiv(lo[2] * (hi[1] - lo[1]) + (hi[2] - lo[2]) * (t - lo[1]), hi[1] - lo[1])

SpeedAt(c, t) ==
  LET n == Len(c.points)
      upper == CHOOSE i \in 2..n : c.points[i - 1][1] <= t /\ t < c.points[i][1]
  IN  IF c.stop # Nil /\ t < c.stop THEN 0
      ELSE AtLeast(IF t <= c.points[1][1] THEN c.points[1][2]
                   ELSE IF t >= c.points[n][1] THEN c.points[n][2]
                   ELSE IF c.step THEN c.points[upper - 1][2]
                   ELSE Between(c.points[upper - 1], c.points[upper], t), c.min)

\* The ramp limit: at most ramp per evaluation away from the last speed.
Ramped(c, from, target) ==
  IF c.ramp = Nil \/ from = Nil \/ (target - from \in -c.ramp..c.ramp) THEN target
  ELSE IF target > from THEN from + c.ramp ELSE from - c.ramp

-----------------------------------------------------------------------------
(* Sends.  A sequence of commands to a group leaves the last one; all of an   *)
(* action's sends to a group fail together (broken), except set_mb_sync's.    *)

\* The groups that the commands of an action reach.
Reached(groups, broken) == (groups \cap present) \ broken

\* System::set_speed(Manual) for the groups of DOMAIN speed.
Send(speed, broken) ==
  LET done == Reached(DOMAIN speed, broken)
  IN  /\ told'    = [g \in Groups |-> IF g \in done THEN speed[g] ELSE told[g]]
      /\ known'   = [g \in Groups |-> IF g \in done THEN speed[g] ELSE known[g]]
      /\ decayed' = decayed \ done

Fails(broken) == /\ broken # {} => faults < MaxFaults
                 /\ faults' = IF broken = {} THEN faults ELSE faults + 1
\* set_mb_sync(false) and then set_speed(Manual p): what breaks off in between
\* leaves the 50% of the former, which a pump does not hear.
Untie(groups, p, broken, half) ==
  LET done == Reached(groups, broken)
      left == (groups \cap present) \cap half
  IN  /\ half \subseteq broken
      /\ told'    = [g \in Groups |-> IF g \in done THEN p
                                      ELSE IF g \in left \cap Fans THEN 50 ELSE told[g]]
      /\ known'   = [g \in Groups |-> IF g \in done THEN p
                                      ELSE IF g \in left THEN 50 ELSE known[g]]
      /\ decayed' = decayed \ done

\* System::set_speed(Pwm): the sentinel byte to fans, nothing to pumps.
ToBoard(groups, broken) ==
  LET done == Reached(groups \cap Fans, broken)
  IN  /\ told'  = [g \in Groups |-> IF g \in done THEN Board ELSE told[g]]
      /\ known' = [g \in Groups |-> IF g \in done THEN Nil ELSE known[g]]
      /\ UNCHANGED decayed

-----------------------------------------------------------------------------
(* Requests. *)

SetCurves(groups, c) ==
  /\ curve' = [g \in Groups |-> IF g \in groups THEN c ELSE curve[g]]
  /\ last'  = [g \in Groups |-> IF g \in groups THEN Nil ELSE last[g]]

\* (mutant) an active curve survives
RemoveCurvesNot(groups) == UNCHANGED <<curve, last>>

RemoveCurves(groups) == SetCurves(groups, Nil)

\* History: the requests that were carried out.
Wanted(groups, how) == asked' = [g \in Fans |-> IF g \in groups THEN how ELSE asked[g]]

Request == quiet' = FALSE /\ UNCHANGED <<installed, reading, cached, dirty, present, mbSync>>

SetSpeedManual(g) ==
  /\ Request
  /\ RemoveCurves({g})
  /\ \E p \in Presets : \E broken \in SUBSET {g} : \E half \in SUBSET broken :
       Fails(broken) /\ Untie({g}, p, broken, half) /\ Wanted(Reached({g}, broken), "manual")
  /\ UNCHANGED alarm

SetSpeedPwm(g) ==
  /\ Request
  /\ RemoveCurves({g})
  /\ \E broken \in SUBSET {g} :
       Fails(broken) /\ ToBoard({g}, broken) /\ Wanted(Reached({g}, broken), Board)
  /\ UNCHANGED alarm

\* MoboAuto on any group: no curve is removed.
MoboAuto(g) ==
  /\ Request
  /\ \E broken \in SUBSET {g} :
       Fails(broken) /\ ToBoard({g}, broken) /\ Wanted(Reached({g}, broken), Board)
  /\ UNCHANGED <<curve, last, alarm>>

\* A curve may change the speed, but has sent none yet.
Released(groups) == Wanted({g \in groups \cap Fans : asked[g] = "manual"}, Nil)

\* An unknown name ends the running curve and answers an error.
SetCurve(g) ==
  /\ Request
  /\ \E c \in Curves \cup {SavedCurve[n] : n \in Saved} :
       SetCurves({g}, c) /\ Released({g})
  /\ UNCHANGED <<device, alarm, faults>>

\* Groups discovery found under motherboard control are passed over; a curve
\* replaces nothing but ends the running ones.
SetSpeedAll(groups) ==
  LET these == {g \in groups \cap present : ~mbSync[g]} IN
  /\ Request
  /\ RemoveCurves(these)
  /\ \E broken \in SUBSET these :
       /\ Fails(broken)
       /\ \/ /\ \E p \in Presets : Send([g \in these |-> p], broken)
             /\ Wanted(these \ broken, "manual")
          \/ ToBoard(these, broken) /\ Wanted(these \ broken, Board)
          \/ Curves # {} /\ broken = {} /\ Released(these) /\ UNCHANGED device
  /\ UNCHANGED alarm

StopFans ==
  /\ Request
  /\ RemoveCurves(present)
  /\ \E broken \in SUBSET present : \E half \in SUBSET broken :
       Fails(broken) /\ Untie(present, 0, broken, half) /\ Wanted(present \ broken, "manual")
  /\ UNCHANGED alarm

SetMbSync(g) ==
  /\ Request
  /\ \E broken \in SUBSET {g} :
       /\ Fails(broken)
       /\ \/ /\ told' = [h \in Groups |-> IF h \in Reached({g} \cap Fans, broken) THEN Board ELSE told[h]]
             /\ Wanted(Reached({g}, broken), Board)
             /\ UNCHANGED <<known, decayed>>
          \/ /\ \E half \in SUBSET {g} : {g} \ broken \subseteq half /\ Untie({g}, 50, {g}, half)
             /\ Wanted(Reached({g}, broken), Nil)
  /\ UNCHANGED <<curve, last, alarm>>

\* SetPumpMode on a pump, MoboSetSpeed on any group: no curve is removed.
SetPump(g) ==
  /\ Request
  /\ \E p \in Presets : \E broken \in SUBSET {g} : Fails(broken) /\ Send([x \in {g} |-> p], broken)
  /\ UNCHANGED <<curve, last, alarm, asked>>

\* The speed of a group in a step of a show (apply_scene) or in a profile
\* (apply_profile_groups): no curve is removed, and a curve sets nothing.
ApplyScene(g) ==
  /\ Request
  /\ \E broken \in SUBSET {g} :
       /\ Fails(broken)
       /\ (\E p \in Presets : Send([x \in {g} |-> p], broken)) \/ ToBoard({g}, broken)
  /\ UNCHANGED <<curve, last, alarm, asked>>

\* CurveRunner::sync_from_config: groups that are not there get no curve.
FromConfig(groups) ==
  [g \in Groups |-> IF g \in groups THEN ConfigCurve[g] ELSE Nil]

ReloadConfig ==
  /\ Request
  /\ curve' = FromConfig(present)
  /\ last' = [g \in Groups |-> Nil]
  /\ Released({g \in Fans : curve'[g] # Nil})
  /\ UNCHANGED <<device, alarm, faults>>

SetAlertConfig ==
  /\ Request
  /\ alarm' = [i \in DOMAIN Alerts |-> FALSE]
  /\ UNCHANGED <<device, curve, last, asked, faults>>

-----------------------------------------------------------------------------
(* The periodic part of Engine::tick. *)

Byte(g) == IF told[g] = Board THEN SpeedMin ELSE SpeedByte(told[g])

\* DeviceRegistry::refresh for a record of group g.
Synced(g) == g \in HwSync /\ Byte(g) = SpeedMin
Status(g) == LET kept == IF g \in present THEN known[g] ELSE Nil
             IN  IF kept = Nil /\ g \in HwSync /\ ~Synced(g) THEN BytePercent(Byte(g)) ELSE kept

Discovered(found) ==
  /\ present' = found
  /\ mbSync'  = [g \in Groups |-> g \in found /\ Synced(g)]

Statuses(ok, found) == [g \in Groups |-> IF ~ok THEN known[g]
                                         ELSE IF g \in found THEN Status(g) ELSE Nil]

\* A Discover request refreshes the registry and keeps no pump alive.
Discover(found) ==
  /\ quiet' = FALSE
  /\ Fails(present \ found)
  /\ Discovered(found)
  /\ known' = Statuses(TRUE, found)
  /\ UNCHANGED <<installed, reading, runner, told, decayed, asked>>

\* (mutant) only pumps whose speed has changed
KeptAliveOnChange(ok, found, status) ==
  {g \in Pumps \cap found : ok /\ status[g] # Nil /\ status[g] # known[g]}

\* The pumps the keepalive sends their speed to.
KeptAlive(ok, found, status) == {g \in Pumps \cap found : ok /\ status[g] # Nil}

\* CurveRunner::ingest_readings: what is cached after a reading.
Changed(reads) == cached = Nil \/ reads - cached \notin -1..1
Ingest(reads) == IF Changed(reads) THEN reads ELSE cached

\* CurveRunner::evaluate: the speed each curve commands now.
Active == {g \in Groups : curve[g] # Nil}
Target(g, temp) == Ramped(curve[g], last[g], SpeedAt(curve[g], temp \div 2))

\* (mutant) the flag is read before the readings are ingested
EvaluatesEarly(changed) == Active # {} /\ dirty

Evaluates(changed) == Active # {} /\ (dirty \/ changed)

\* AlertRunner::evaluate: fired at the threshold, cleared 2 degrees below it.
Fired(temp) == {i \in DOMAIN Alerts : ~alarm[i] /\ temp >= 2 * Alerts[i].threshold}

\* (mutant) cleared as soon as it is below the threshold
ClearedAtOnce(temp) == {i \in DOMAIN Alerts : alarm[i] /\ temp < 2 * Alerts[i].threshold}

Cleared(temp) == {i \in DOMAIN Alerts : alarm[i] /\ temp < 2 * Alerts[i].threshold - 4}

\* Alerts' commands are executed in their order: the last one's stays.
AlertSpeed(fired) == Alerts[CHOOSE i \in fired : \A j \in fired : j <= i].speed

\* One periodic pass: discovery and keepalive, readings, curves, alerts, and the
\* schedule entries of this minute (scheduled, or Nil), in this order.  All
\* its sends to a group fail together.
Poll(reads, scheduled) ==
  \E ok \in BOOLEAN : \E found \in SUBSET installed : \E broken \in SUBSET installed :
  LET here      == IF ok THEN found ELSE present
      status    == Statuses(ok, found)
      kept      == KeptAlive(ok, found, status)
      temp      == Ingest(reads)
      commanded == IF Evaluates(Changed(reads))
                   THEN {g \in Active : Target(g, temp) # last[g]} ELSE {}
      fired     == Fired(temp)
      final     == [g \in Groups |-> IF scheduled # Nil THEN scheduled
                                     ELSE IF fired # {} THEN AlertSpeed(fired)
                                     ELSE IF g \in commanded THEN Target(g, temp)
                                     ELSE Nil]
      sent      == {g \in here : final[g] # Nil} \ broken
      faulty    == ~ok \/ broken # {} \/ present \ here # {}
  IN
  /\ (~ok => found = {}) /\ broken \subseteq here
  /\ faulty => faults < MaxFaults
  /\ faults' = IF faulty THEN faults + 1 ELSE faults
  /\ IF ok THEN Discovered(found) ELSE UNCHANGED <<present, mbSync>>
  /\ reading' = reads /\ cached' = temp
  /\ dirty' = ((dirty \/ Changed(reads)) /\ Active = {})
  /\ last' = [g \in Groups |-> IF g \in commanded THEN Target(g, temp) ELSE last[g]]
  /\ alarm' = [i \in DOMAIN Alerts |-> i \in fired \/ (alarm[i] /\ i \notin Cleared(temp))]
  /\ told' = [g \in Groups |-> IF g \in sent THEN final[g]
                               ELSE IF g \in kept \ broken THEN status[g] ELSE told[g]]
  /\ known' = [g \in Groups |-> IF g \in sent THEN final[g] ELSE status[g]]
  /\ decayed' = decayed \ (sent \cup (kept \ broken))
  /\ quiet' = (scheduled = Nil)
  /\ UNCHANGED <<installed, curve, asked>>

AnyPoll == \E reads \in Readings : \E scheduled \in Scheduled \cup {Nil} : Poll(reads, scheduled)

\* "the pump decays back to its minimum RPM if not continuously re-commanded"
Decay(g) == /\ g \notin decayed /\ decayed' = decayed \cup {g} /\ quiet' = FALSE
            /\ UNCHANGED <<installed, reading, runner, present, mbSync, known, told, asked, faults>>

\* The first discovery may miss groups.  The config's percentages are assumed,
\* not sent.
SpeedInit ==
  /\ reading = Nil /\ quiet = FALSE /\ cached = Nil /\ dirty = FALSE
  /\ installed \in Machines /\ present \in SUBSET installed
  /\ told \in [Groups -> Presets \cup {Board, 0}] /\ \A g \in Pumps : told[g] # Board
  /\ \A g \in Groups : told[g] = 0 <=> g \notin installed
  /\ mbSync = [g \in Groups |-> g \in present /\ Synced(g)]
  /\ known = [g \in Groups |->
                IF g \notin present THEN Nil
                ELSE IF ConfigSpeed[g] # Nil THEN ConfigSpeed[g]
                ELSE IF g \in HwSync /\ ~Synced(g) THEN BytePercent(Byte(g)) ELSE Nil]
  /\ decayed = {}
  /\ curve = FromConfig(present)
  /\ last = [g \in Groups |-> Nil]
  /\ alarm = [i \in DOMAIN Alerts |-> FALSE]
  /\ asked = [g \in Fans |-> IF Synced(g) THEN Board ELSE Nil]
  /\ faults = 0

SpeedNext ==
  \/ \E g \in installed : SetSpeedManual(g) \/ SetSpeedPwm(g) \/ MoboAuto(g) \/ SetCurve(g) \/ SetMbSync(g)
                           \/ SetPump(g) \/ ApplyScene(g)
  \/ \E groups \in SUBSET installed : SetSpeedAll(groups) \/ Discover(groups)
  \/ StopFans \/ ReloadConfig \/ SetAlertConfig
  \/ AnyPoll
  \/ \E g \in Pumps \cap installed : Decay(g)

SpeedSpec == SpeedInit /\ [][SpeedNext]_speedVars

\* The main loop polls for ever.
FairSpeedSpec == SpeedSpec /\ WF_speedVars(AnyPoll)

-----------------------------------------------------------------------------
(* Properties. *)

SpeedTypeOK ==
  /\ installed \in Machines /\ present \subseteq installed
  /\ reading \in Readings \cup {Nil} /\ cached \in Readings \cup {Nil}
  /\ dirty \in BOOLEAN /\ quiet \in BOOLEAN
  /\ curve \in [Groups -> Curves \cup {Nil}]
  /\ last \in [Groups -> Percent \cup {Nil}]
  /\ alarm \in [DOMAIN Alerts -> BOOLEAN]
  /\ known \in [Groups -> Percent \cup {Nil}]
  /\ mbSync \in [Groups -> BOOLEAN]
  /\ told \in [Groups -> Percent \cup {Board}] /\ \A g \in Pumps : told[g] # Board
  /\ decayed \subseteq Pumps
  /\ asked \in [Fans -> {"manual", Board, Nil}]
  /\ faults \in 0..MaxFaults

\* Whenever the runner's flag is down, every curve without a ramp that has been
\* evaluated stands at its value for the cached temperature: no change of the
\* reading or of the curves is lost between ingest_readings and evaluate.
CurveFollows ==
  \A g \in Groups :
    ~dirty /\ curve[g] # Nil /\ last[g] # Nil /\ curve[g].ramp = Nil
      => last[g] = SpeedAt(curve[g], cached \div 2)

\* After a Manual request, StopFans or SetSpeedAll a fan keeps its speed through
\* every poll in which no alert or schedule fires: the curve is gone, whichever
\* way it had been set, until a request or the config brings one back.
ManualHolds ==
  [][quiet' /\ (\A i \in DOMAIN Alerts : alarm'[i] => alarm[i])
       => \A g \in Fans : asked[g] = "manual" => told'[g] = told[g]]_speedVars

\* After a poll an alert is active if the sensor is at the threshold, and an active one
\* stays so until the sensor is below the hysteresis band, give or take the
\* deadband of the cached reading, so that it does not fire twice in between.
AlertsTrueToSensor ==
  [][quiet'
       => \A i \in DOMAIN Alerts :
            LET mark == 2 * Alerts[i].threshold IN
            /\ reading' >= mark + 1 => alarm'[i]
            /\ alarm[i] /\ reading' >= mark - 3 => alarm'[i]
            /\ ~alarm[i] /\ reading' < mark - 1 => ~alarm'[i]]_speedVars

\* A pump whose speed is known is brought back to it again and again, although
\* its firmware decays: the keepalive sees to it in every poll that succeeds.
PumpKept ==
  \A g \in Pumps : []<>(g \in present /\ known[g] # Nil => told[g] = known[g] /\ g \notin decayed)

=============================================================================
