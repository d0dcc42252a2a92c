------------------------------ MODULE Settings ------------------------------
(* The configuration of the daemon: the file, the copy the daemon keeps in   *)
(* memory and saves after every request that changes it (config_cache.rs,    *)
(* frgb-core/config.rs), the copies its runners work from, and the roles of  *)
(* the device registry (handler.rs, engine.rs, registry.rs, main.rs); beside *)
(* it `frgb mobo name` and an editor, which write the same file.             *)
EXTENDS Integers, Sequences, SequencesExt

CONSTANTS
  Groups,        \* device groups
  Roles,         \* roles a group may be given
  Unset,         \* the role of a group nobody configured
  Names,         \* names of curves, sequences, effects...
  Values,        \* what is stored under a name, or in a plain section
  Entries,       \* schedule entries a client may send
  WellFormed,    \* those of them with an hour and a minute of the day
  None,          \* nothing stored
  Garbled,       \* a file that does not parse
  NoFile,        \* no file
  FirstSchedules, \* the schedule entries in the file a behaviour starts with
  Requests,      \* the requests the clients may send
  Edits,         \* sections an editor may change in the file
  MaxRequests, MaxTroubles, MaxBoth, MaxWear   \* bounds

ASSUME SettingsAssumption ==
  /\ WellFormed \subseteq Entries /\ FirstSchedules \in Seq(WellFormed)
  /\ Unset \notin Roles
  /\ None \notin Values \cup Roles
  /\ {MaxRequests, MaxTroubles, MaxBoth, MaxWear} \subseteq Nat

\* what clients send: a role that is one, and no whole section of groups
Proper(r) == /\ r.do = "SetRole" => r.role \in Roles
             /\ r.do \in {"Save", "Delete", "Set"} => r.section # "groups"
ASSUME RequestsAssumption == \A r \in Requests : Proper(r)
\* an edit gives a section one of the values, which an entry of a group is not
ASSUME EditsAssumption == "groups" \notin Edits

----------------------------------------------------------------------------
(* The configuration, as a function of its sections.                         *)

Lists == {"profiles", "curves", "sequences", "effects", "presets", "templates"}
Plain == {"power", "apps", "sync"}
\* the sections no request sets: strips, wireless, hotkeys, screen display, board lights
Rest == {"rest"}
Sections == Lists \cup Plain \cup Rest
              \cup {"alerts", "merge", "daemon", "calibration", "schedules", "groups", "headers", "wear"}

\* an entry of the groups section
GroupEntry == [role : Roles \cup {Unset}, name : Values \cup {None}, excluded : BOOLEAN]
NoEntry == [role |-> None, name |-> None, excluded |-> FALSE]

\* alerts: what to watch the fans for, and the temperatures to warn of
AlertConfig == [watch : Values \cup {None}, temps : Values \cup {None}]
NoAlerts == [watch |-> None, temps |-> None]

Wear == [Groups -> 0..MaxWear]
Unworn == [g \in Groups |-> 0]

Valid(section, value) ==
  CASE section \in Lists -> value \in [Names -> Values \cup {None}]
    [] section \in Plain \cup Rest \cup {"headers"} -> value \in Values \cup {None}
    [] section = "alerts" -> value \in AlertConfig
    [] section = "merge" -> value \in {<<>>} \cup {<<g>> : g \in Groups} \cup (Groups \X Groups)
    [] section = "daemon" -> value \in Nat
    [] section = "calibration" -> value \in [offset : Values \cup {None}, paths : Values \cup {None}]
    [] section = "schedules" -> value \in Seq(WellFormed)
    [] section = "groups" -> value \in [Groups -> GroupEntry \cup {NoEntry}]
    [] section = "wear" -> value \in Wear

IsConfig(c) == DOMAIN c = Sections /\ \A s \in Sections : Valid(s, c[s])

DefaultPoll == 2000
Default ==
  [s \in Sections |->
     CASE s \in Lists -> [n \in Names |-> None]
       [] s \in Plain \cup Rest \cup {"headers"} -> None
       [] s = "alerts" -> NoAlerts
       [] s \in {"merge", "schedules"} -> <<>>
       [] s = "daemon" -> DefaultPoll
       [] s = "calibration" -> [offset |-> None, paths |-> None]
       [] s = "groups" -> [g \in Groups |-> NoEntry]
       [] s = "wear" -> Unworn]

\* validate: the poll interval is put between a tenth of a second and a minute
Clamp(ms) == IF ms < 100 THEN 100 ELSE IF ms > 60000 THEN 60000 ELSE ms
Sane(c) == [c EXCEPT !["daemon"] = Clamp(@)]

\* a text that does not parse is no configuration
ASSUME GarbledAssumption == DOMAIN Garbled # Sections

----------------------------------------------------------------------------
VARIABLES
  disk,       \* config.json
  tmp,        \* the file a save writes first
  cache,      \* the daemon's copy (ConfigCache); of no meaning when it is down
  engine,     \* the copies of the runners and the wear counters
  registry,   \* role and name of the groups that are there
  phase,      \* what the daemon is doing: "down", "idle", "writing", "renaming"
  request,    \* the request being answered
  stopping,   \* the save under way is the last one
  cli,        \* the copy `frgb mobo name` has loaded, or NoFile
  backup,     \* the file an export wrote
  budget,     \* requests, and faults, stops and edits, there still may be
  (* What the properties remember. *)
  answered,   \* the configuration the answers given so far add up to
  behind,     \* sections of the file that are not what was answered, by someone else's doing
  unsaved,    \* the last save failed, and only the log says so
  stale,      \* mirrored sections that were changed in the cache alone
  asked,      \* the role last asked for each group, saved and answered
  flapped     \* groups found anew since the configuration was last applied

core == <<disk, tmp, cache, engine, registry, phase, request, stopping>>
vars == <<disk, tmp, cache, engine, registry, phase, request, stopping, cli, backup, budget,
          answered, behind, unsaved, stale, asked, flapped>>

\* the sections the runners hold a copy of
Mirrored == {"alerts", "power", "apps", "sequences", "schedules", "daemon", "calibration"}
Mirror(c) == [s \in Mirrored \cup {"wear"} |-> IF s = "calibration" THEN c[s].offset ELSE c[s]]

Absent == [role |-> None, name |-> None]
Plugged == [role |-> Unset, name |-> None]
Nothing == [do |-> "Nothing"]
Stopped == [do |-> "Stopped"]    \* how a daemon that was told to stop leaves
Up == phase # "down"

Least(a, b) == IF a < b THEN a ELSE b
Spend(what) ==
  /\ budget[what] > 0 /\ budget.both > 0
  /\ budget' = [budget EXCEPT ![what] = @ - 1, !.both = @ - 1]

----------------------------------------------------------------------------
(* The requests: when they are refused, and what they make of the cache, of  *)
(* the runners and of the registry.                                          *)

\* deleting an effect, a preset or a template that is not there is an error,
\* deleting a profile, a curve or a sequence that is not there is not
Strict == {"effects", "presets", "templates"}

Refused(r) ==
  \/ r.do = "Delete" /\ r.section \in Strict /\ cache[r.section][r.name] = None
  \/ r.do = "Copy" /\ (cache["profiles"][r.name] = None \/ cache["profiles"][r.to] # None)
  \/ r.do = "AddSchedule" /\ r.entry \notin WellFormed
  \/ r.do = "DeleteSchedule" /\ r.index > Len(engine["schedules"])
  \/ r.do = "Import" /\ backup = NoFile
  \/ r.do = "ReorderGroups" /\ Len(r.order) \notin 1..4

Entry(g) == cache["groups"][g]
WithEntry(g, e) == [cache["groups"] EXCEPT ![g] = e]

\* SetRole: an entry for a group that has none is made from what the registry knows
RoleEntry(g, role) ==
  IF Entry(g) # NoEntry THEN [Entry(g) EXCEPT !.role = role]
  ELSE IF registry[g] # Absent THEN [role |-> role, name |-> registry[g].name, excluded |-> FALSE]
  ELSE NoEntry

\* the runner's list of schedules, which is saved whole
Schedules(r) ==
  CASE r.do = "AddSchedule" -> Append(engine["schedules"], r.entry)
    [] r.do = "DeleteSchedule" -> RemoveAt(engine["schedules"], r.index)
    [] OTHER -> <<>>

\* an import adds to these lists, or replaces the whole configuration
MergedLists == {"profiles", "curves", "effects"}
Imported(r) ==
  IF ~r.merge THEN backup
  ELSE [s \in Sections |->
          IF s \in MergedLists
          THEN [n \in Names |-> IF backup[s][n] # None THEN backup[s][n] ELSE cache[s][n]]
          ELSE cache[s]]

\* the section a request is about, and its value after it
About(r) ==
  CASE r.do \in {"Save", "Delete", "Set"} -> r.section
    [] r.do = "Copy" -> "profiles"
    [] r.do = "SetSensorCalibration" -> "calibration"
    [] r.do \in {"AddSchedule", "DeleteSchedule", "ClearSchedule"} -> "schedules"
    [] r.do = "ReorderGroups" -> "merge"
    [] OTHER -> "groups"

\* lists: a name is given a new value, or loses it, or passes it on
Saved(r) == [cache[r.section] EXCEPT ![r.name] = r.value]
Deleted(r) == [cache[r.section] EXCEPT ![r.name] = None]
Copied(r) == [cache["profiles"] EXCEPT ![r.to] = cache["profiles"][r.name]]

\* calibration: the paths of further sensors stay, clients do not know them
Calibrated(r) == [cache["calibration"] EXCEPT !.offset = r.offset]

\* the other requests about a group change the entry it has, and make none
Amended(r) ==
  LET e == Entry(r.group) IN
  IF r.do = "SetRole" THEN RoleEntry(r.group, r.role)
  ELSE IF r.do = "ForgetGroup" \/ e = NoEntry THEN NoEntry
  ELSE IF r.do = "RenameGroup" THEN [e EXCEPT !.name = r.name]
  ELSE [e EXCEPT !.excluded = r.do = "ExcludeGroup"]

Changed(r) ==
  CASE r.do = "Save" -> Saved(r)
    [] r.do = "Delete" -> Deleted(r)
    [] r.do = "Copy" -> Copied(r)
    [] r.do = "Set" -> r.value
    [] r.do = "SetSensorCalibration" -> Calibrated(r)
    [] r.do \in {"AddSchedule", "DeleteSchedule", "ClearSchedule"} -> Schedules(r)
    [] r.do = "ReorderGroups" -> r.order
    [] OTHER -> WithEntry(r.group, Amended(r))

Cached(r) == IF r.do = "Import" THEN Imported(r) ELSE [cache EXCEPT ![About(r)] = Changed(r)]

\* a client's settings that only reach the file
ToldOfLists(r, c) ==
  IF r.do # "Set" /\ About(r) \in Mirrored THEN [engine EXCEPT ![About(r)] = Mirror(c)[About(r)]] ELSE engine

\* the runner of the section is told; an import tells nobody
Told(r, c) ==
  IF r.do # "Import" /\ About(r) \in Mirrored
  THEN [engine EXCEPT ![About(r)] = Mirror(c)[About(r)]] ELSE engine

Registered(r) ==
  CASE r.do = "SetRole" /\ registry[r.group] # Absent -> [registry EXCEPT ![r.group].role = r.role]
    [] r.do = "RenameGroup" /\ registry[r.group] # Absent -> [registry EXCEPT ![r.group].name = r.name]
    [] OTHER -> registry

Outdated(r, c) ==
  IF r.do = "Import" THEN stale \cup {s \in Mirrored : Mirror(c)[s] # engine[s]}
  ELSE stale \ {About(r)}

----------------------------------------------------------------------------
(* A request that changes the configuration: the cache, the runner and the   *)
(* registry at once, then the save, then the answer.                         *)

Change(r) ==
  /\ phase = "idle" /\ r.do \notin {"Export", "Reload", "Discover"} /\ ~Refused(r)
  /\ cache' = Cached(r)
  /\ engine' = Told(r, Cached(r))
  /\ registry' = Registered(r)
  /\ stale' = Outdated(r, Cached(r))
  /\ request' = r /\ phase' = "writing" /\ tmp' = Garbled
  /\ UNCHANGED <<disk, stopping, cli, backup, answered, behind, unsaved, asked, flapped>>

\* SIGTERM: the main loop ends, the wear counters join the configuration, which is saved
Stop ==
  /\ phase = "idle"
  /\ cache' = [cache EXCEPT !["wear"] = engine["wear"]]
  /\ stopping' = TRUE /\ request' = Nothing /\ phase' = "writing" /\ tmp' = Garbled
  /\ Spend("troubles")
  /\ UNCHANGED <<disk, engine, registry, cli, backup, answered, behind, unsaved, stale, asked, flapped>>

\* in place
Overwrite ==
  /\ phase = "writing" /\ disk' = Garbled /\ tmp' = cache /\ phase' = "renaming"
  /\ UNCHANGED <<cache, engine, registry, request, stopping, cli, backup, budget,
                 answered, behind, unsaved, stale, asked, flapped>>

\* save_config_to: the new text goes to a file of its own...
Write ==
  /\ phase = "writing" /\ tmp' = cache /\ phase' = "renaming"
  /\ UNCHANGED <<disk, cache, engine, registry, request, stopping, cli, backup, budget,
                 answered, behind, unsaved, stale, asked, flapped>>

\* the role a request has asked for, and the ones an import, an editor or a forget took back
Wishes ==
  CASE request.do = "SetRole" ->
         [asked EXCEPT ![request.group] = IF Entry(request.group) # NoEntry THEN request.role ELSE @]
    [] request.do = "ForgetGroup" -> [asked EXCEPT ![request.group] = None]
    [] request.do = "Import" /\ ~request.merge -> [g \in Groups |-> None]
    [] OTHER -> asked

Done ==
  /\ phase' = IF stopping THEN "down" ELSE "idle"
  /\ request' = IF stopping THEN Stopped ELSE Nothing
  /\ stopping' = FALSE /\ answered' = cache
  /\ registry' = IF stopping THEN [g \in Groups |-> Absent] ELSE registry
  /\ UNCHANGED <<cache, engine, stale, flapped, cli, backup>>

\* ... which then takes the place of the old one
Rename ==
  /\ phase = "renaming" /\ disk' = tmp /\ tmp' = NoFile
  /\ behind' = {} /\ unsaved' = FALSE /\ asked' = Wishes
  /\ Done /\ UNCHANGED budget

\* a save that fails is logged, and the answer is Ok all the same
SaveFails ==
  /\ phase \in {"writing", "renaming"} /\ Spend("troubles")
  /\ unsaved' = TRUE /\ asked' = [g \in Groups |-> None]
  /\ Done /\ UNCHANGED <<disk, tmp, behind>>

\* ReloadConfig: a file that does not parse leaves the cache alone; only the
\* sequences and the curves are passed on
Reload ==
  /\ phase = "idle" /\ [do |-> "Reload"] \in Requests /\ Spend("requests")
  /\ IF disk = Garbled THEN UNCHANGED <<cache, answered, behind, unsaved, asked>>
     ELSE /\ cache' = Sane(disk) /\ answered' = disk
          /\ behind' = {} /\ unsaved' = FALSE
          /\ asked' = IF disk["groups"] = cache["groups"] THEN asked ELSE [g \in Groups |-> None]
  /\ engine' = [engine EXCEPT !["sequences"] = cache'["sequences"]]
  /\ stale' = {s \in Mirrored : Mirror(cache')[s] # engine'[s]}
  /\ UNCHANGED <<disk, tmp, registry, phase, request, stopping, cli, backup, flapped>>

Export ==
  /\ phase = "idle" /\ [do |-> "Export"] \in Requests /\ Spend("requests")
  /\ backup' = cache
  /\ UNCHANGED <<core, cli, answered, behind, unsaved, stale, asked, flapped>>

----------------------------------------------------------------------------
(* Discovery.  A group found anew starts without a role or a name; only the  *)
(* poll, and only when no backend failed, puts the configured ones on.       *)

Found(there) ==
  [g \in Groups |-> IF g \notin there THEN Absent ELSE IF registry[g] = Absent THEN Plugged ELSE registry[g]]

ApplyGroupConfigs(r, c) ==
  [g \in Groups |->
     IF r[g] = Absent \/ c["groups"][g] = NoEntry THEN r[g]
     ELSE [role |-> c["groups"][g].role,
           name |-> IF c["groups"][g].name = None THEN r[g].name ELSE c["groups"][g].name]]

New(there) == {g \in there : registry[g] = Absent}

\* the counters grow by the whole seconds of the interval, and end at MaxWear
Worn(there) ==
  [g \in Groups |->
     IF g \in there THEN Least(engine["wear"][g] + engine["daemon"] \div 1000, MaxWear) ELSE engine["wear"][g]]

\* the configuration first, the fans after it
PollReversed(there) ==
  /\ phase = "idle"
  /\ registry' = [g \in Groups |-> IF g \in there /\ registry[g] = Absent THEN Plugged
                                   ELSE IF g \in there THEN ApplyGroupConfigs(registry, cache)[g] ELSE Absent]
  /\ engine' = [engine EXCEPT !["wear"] = Worn(there)]
  /\ flapped' = {}
  /\ UNCHANGED <<disk, tmp, cache, phase, request, stopping, cli, backup, budget,
                 answered, behind, unsaved, stale, asked>>

Poll(there) ==
  /\ phase = "idle"
  /\ registry' = ApplyGroupConfigs(Found(there), cache)
  /\ engine' = [engine EXCEPT !["wear"] = Worn(there)]
  /\ flapped' = {}
  /\ UNCHANGED <<disk, tmp, cache, phase, request, stopping, cli, backup, budget,
                 answered, behind, unsaved, stale, asked>>

\* the Discover request, and a poll in which a later backend failed
Discover(there) ==
  /\ phase = "idle" /\ [do |-> "Discover"] \in Requests
  /\ registry' = Found(there)
  /\ flapped' = (flapped \cap there) \cup New(there)
  /\ UNCHANGED <<disk, tmp, cache, engine, phase, request, stopping, cli, backup, budget,
                 answered, behind, unsaved, stale, asked>>

----------------------------------------------------------------------------
(* Starting, and dying at any point of a save.                               *)

Boot(there) ==
  /\ phase = "down"
  /\ cache' = IF disk = Garbled THEN Default ELSE Sane(disk)
  /\ engine' = Mirror(cache')
  /\ registry' = ApplyGroupConfigs([g \in Groups |-> IF g \in there THEN Plugged ELSE Absent], cache')
  /\ phase' = "idle" /\ tmp' = NoFile
  /\ answered' = IF disk = Garbled THEN Default ELSE disk
  /\ behind' = IF disk = Garbled THEN Sections ELSE {}
  /\ asked' = [g \in Groups |->
                 IF cache'["groups"][g] = NoEntry \/ unsaved \/ behind # {} THEN None ELSE asked[g]]
  /\ unsaved' = FALSE /\ stale' = {} /\ flapped' = {}
  /\ request' = Nothing
  /\ UNCHANGED <<disk, stopping, cli, backup, budget>>

Crash ==
  /\ Up /\ Spend("troubles")
  /\ phase' = "down" /\ request' = Nothing /\ stopping' = FALSE
  /\ registry' = [g \in Groups |-> Absent]
  \* the counters of this run go with it
  /\ engine' = [engine EXCEPT !["wear"] = Unworn]
  /\ UNCHANGED <<disk, tmp, cache, cli, backup, answered, behind, unsaved, stale, asked, flapped>>

----------------------------------------------------------------------------
(* The others who write the file, whether the daemon runs or not.            *)

Differs(c) == {s \in Sections : c[s] # answered[s]}

\* the paths of further sensors are set in the file alone
Edited(s, v) ==
  CASE s = "calibration" -> [disk[s] EXCEPT !.paths = v]
    [] s = "alerts" -> [disk[s] EXCEPT !.temps = v]
    [] OTHER -> v

Edit(s, v) ==
  /\ disk # Garbled /\ Spend("troubles")
  /\ disk' = [disk EXCEPT ![s] = Edited(s, v)]
  /\ behind' = behind \cup {s}
  /\ UNCHANGED <<tmp, cache, engine, registry, phase, request, stopping, cli, backup,
                 answered, unsaved, stale, asked, flapped>>

\* a slip of the editor: the file no longer parses
Garble ==
  /\ disk # Garbled /\ Spend("troubles")
  /\ disk' = Garbled /\ behind' = Sections
  /\ UNCHANGED <<tmp, cache, engine, registry, phase, request, stopping, cli, backup,
                 answered, unsaved, stale, asked, flapped>>

\* frgb mobo name: reads the file, sets the header's name, and saves what it read
CliLoad ==
  /\ cli = NoFile /\ disk # Garbled /\ Spend("troubles")
  /\ cli' = disk
  /\ UNCHANGED <<core, backup, answered, behind, unsaved, stale, asked, flapped>>

Named(c, v) == [c EXCEPT !["headers"] = v]

CliSave(v) ==
  /\ cli # NoFile
  /\ disk' = Named(cli, v)
  /\ behind' = Differs(disk')
  /\ cli' = NoFile
  /\ UNCHANGED <<tmp, cache, engine, registry, phase, request, stopping, backup, budget,
                 answered, unsaved, stale, asked, flapped>>

----------------------------------------------------------------------------
First == [Default EXCEPT !["schedules"] = FirstSchedules]
Started(p) ==
  /\ disk = First /\ tmp = NoFile /\ cache = First /\ engine = Mirror(First)
  /\ registry = [g \in Groups |-> Absent]
  /\ phase = p /\ request = Nothing /\ stopping = FALSE
  /\ cli = NoFile /\ backup = NoFile
  /\ budget = [requests |-> MaxRequests, troubles |-> MaxTroubles, both |-> MaxBoth]
  /\ answered = First /\ behind = {} /\ unsaved = FALSE /\ stale = {}
  /\ asked = [g \in Groups |-> None] /\ flapped = {}

Init == Started("down")

Next ==
  \/ \E r \in Requests : Spend("requests") /\ Change(r)
  \/ Reload
  \/ Export
  \/ Stop
  \/ Write
  \/ Rename
  \/ SaveFails
  \/ \E there \in SUBSET Groups : Poll(there) \/ Discover(there) \/ Boot(there)
  \/ Crash
  \/ \E s \in Edits, v \in Values : Edit(s, v)
  \/ Garble
  \/ CliLoad
  \/ \E v \in Values : CliSave(v)

Spec == Init /\ [][Next]_vars

----------------------------------------------------------------------------
(* The copies are configurations, a file is whole or the garbled one someone *)
(* else wrote, and the daemon saves only what it has been asked to (the      *)
(* types of config.rs).                                                      *)
TypeOK ==
  /\ disk = Garbled \/ IsConfig(disk)
  /\ tmp \in {NoFile, Garbled} \/ IsConfig(tmp)
  /\ IsConfig(cache) /\ IsConfig(answered)
  /\ cli = NoFile \/ IsConfig(cli)
  /\ backup = NoFile \/ IsConfig(backup)
  /\ registry \in [Groups -> [role : Roles \cup {Unset}, name : Values \cup {None}] \cup {Absent}]
  /\ phase \in {"down", "idle", "writing", "renaming"} /\ stopping \in BOOLEAN
  /\ behind \subseteq Sections /\ stale \subseteq Mirrored /\ flapped \subseteq Groups
  /\ unsaved \in BOOLEAN
  /\ phase \in {"idle", "down"} => request \in {Nothing, Stopped}

(* What a request was told to be done is in the file, whatever happened      *)
(* since: other requests, restarts, a crash in the middle of a later save.   *)
(* Left out are the sections another program wrote and those of a save that  *)
(* failed.  The daemon between two requests holds the same, the poll         *)
(* interval clamped (config_cache.rs, save_config_to, load_config).          *)
AnsweredSurvives ==
  \A s \in Sections \ behind : ~unsaved =>
    /\ disk # Garbled /\ disk[s] = answered[s]
    /\ phase = "idle" => cache[s] \in {answered[s], Sane(answered)[s]}

(* A running daemon works by the configuration it answers for: every runner  *)
(* has its section as it is in the cache, unless that changed by an import   *)
(* or a reload, which pass on the sequences alone at most (handler.rs).      *)
EngineFollows ==
  Up => \A s \in Mirrored \ stale : engine[s] = Mirror(cache)[s]

(* A role that was asked for and saved is the role of the group whenever the *)
(* group is there, across lost and refound fans, failed polls, crashes and   *)
(* restarts, but for the time from a Discover request that finds the group   *)
(* anew to the next good poll (handler.rs: "so the role survives daemon      *)
(* restarts"; apply_group_configs).                                          *)
RoleSurvives ==
  request.do \notin {"SetRole", "ForgetGroup"} =>
    \A g \in Groups \ flapped :
      asked[g] # None /\ registry[g] # Absent => registry[g].role = asked[g]

=============================================================================
