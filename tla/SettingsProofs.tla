---------------------------- MODULE SettingsProofs ----------------------------
(* What the configuration and its copies owe each other, for any groups,     *)
(* roles, values, requests and edits: the runners work by the daemon's copy, *)
(* and a role that was asked for stays.                                      *)
EXTENDS GuiPages, TLAPS

\* As much of the shape of a configuration as the proofs need.
Whole(c) ==
  /\ c = [s \in Sections |-> c[s]]
  /\ c["groups"] = [g \in Groups |-> c["groups"][g]]
  /\ \A g \in Groups : "role" \in DOMAIN c["groups"][g]

Shapes ==
  /\ Whole(cache) /\ (disk # Garbled => Whole(disk))
  /\ (cli # NoFile => Whole(cli)) /\ (backup # NoFile => Whole(backup))
  /\ phase = "renaming" => tmp = cache
  /\ engine = [s \in Mirrored \cup {"wear"} |-> engine[s]]
  /\ registry = [g \in Groups |-> registry[g]]
  /\ \A g \in Groups : "role" \in DOMAIN registry[g]
  /\ asked = [g \in Groups |-> asked[g]]
  /\ phase \in {"idle", "down"} => request \in {Nothing, Stopped}

HasRole(c, g, role) == role # None => c["groups"][g].role = role

\* The role a group will have been given when the request has been answered is
\* in the daemon's copy, and the registry has it.
WishesCached == Up => \A g \in Groups : HasRole(cache, g, Wishes[g])
WishesShown ==
  \A g \in Groups \ flapped :
    Wishes[g] # None /\ registry[g] # Absent => registry[g].role = Wishes[g]

\* The roles already answered are in what was answered, and in the file unless
\* a save failed or someone else wrote it.
AskedAnswered == \A g \in Groups : HasRole(answered, g, asked[g])
AskedOnDisk ==
  ~unsaved /\ behind = {} /\ disk # Garbled => \A g \in Groups : HasRole(disk, g, asked[g])

RolesInv == WishesCached /\ WishesShown /\ AskedAnswered /\ AskedOnDisk /\ RoleSurvives

IInv == Shapes /\ EngineFollows /\ RolesInv

-----------------------------------------------------------------------------
LEMMA SaneWhole ==
  ASSUME NEW c, Whole(c)
  PROVE  Whole(Sane(c)) /\ Sane(c)["groups"] = c["groups"]
  BY DEF Whole, Sane, Sections, Lists, Plain, Rest

LEMMA DefaultWhole == Whole(Default) /\ Whole(First)
<1>1. Whole(Default)
  BY DEF Whole, Default, Sections, Lists, Plain, Rest, NoEntry
<1>2. Whole(First)
  BY <1>1 DEF Whole, First
<1>. QED
  BY <1>1, <1>2

\* Nothing is wished for between requests but what was asked.
LEMMA NoWish ==
  /\ request \in {Nothing, Stopped} => Wishes = asked
  BY DEF Wishes, Nothing, Stopped

LEMMA NoWishNext ==
  /\ request' \in {Nothing, Stopped} => Wishes' = asked'
  BY DEF Wishes, Nothing, Stopped

-----------------------------------------------------------------------------
(* A request that changes the configuration. *)

LEMMA ImportWhole ==
  ASSUME NEW r, Shapes, r.do = "Import", ~Refused(r)
  PROVE  /\ Whole(Imported(r))
         /\ r.merge => Imported(r)["groups"] = cache["groups"]
<1>1. backup # NoFile /\ Whole(backup) /\ Whole(cache)
  BY DEF Shapes, Refused
<1>2. CASE ~r.merge
  BY <1>1, <1>2 DEF Imported
<1>3. CASE r.merge
  BY <1>1, <1>3 DEF Imported, Whole, Sections, Lists, Plain, Rest, MergedLists
<1>. QED
  BY <1>2, <1>3

\* The entries a request about groups leaves behind have a role.
LEMMA AmendedHasRole ==
  ASSUME NEW r, Shapes, NEW g \in Groups, r.group = g
  PROVE  "role" \in DOMAIN Amended(r)
<1>1. "role" \in DOMAIN Entry(g) /\ "role" \in DOMAIN NoEntry
  BY DEF Shapes, Whole, Entry, NoEntry
<1>2. "role" \in DOMAIN RoleEntry(g, r.role)
  BY <1>1 DEF RoleEntry
<1>. QED
  BY <1>1, <1>2 DEF Amended

LEMMA AmendedRole ==
  ASSUME NEW r, Proper(r), r.do = "SetRole"
  PROVE  Amended(r) = RoleEntry(r.group, r.role) /\ r.role # None
<1>1. r.role # None
  BY SettingsAssumption DEF Proper
<1>2. Amended(r) = RoleEntry(r.group, r.role)
  BY DEF Amended
<1>. QED
  BY <1>1, <1>2

\* Requests about other sections leave the groups alone.
OfGroups(r) ==
  r.do \notin {"Save", "Delete", "Set", "Copy", "SetSensorCalibration", "AddSchedule",
               "DeleteSchedule", "ClearSchedule", "ReorderGroups", "Import"}

LEMMA CachedGroups ==
  ASSUME NEW r, Proper(r), Shapes, ~Refused(r)
  PROVE  /\ Whole(Cached(r))
         /\ r.do # "Import" /\ ~OfGroups(r) => Cached(r)["groups"] = cache["groups"]
         /\ OfGroups(r) => \A g \in Groups :
              Cached(r)["groups"][g] = IF g = r.group THEN Amended(r) ELSE cache["groups"][g]
         /\ r.do # "Import" => \A s \in Sections \ {About(r)} : Cached(r)[s] = cache[s]
<1>1. CASE r.do = "Import"
  BY <1>1, ImportWhole DEF Cached, OfGroups
<1>2. CASE r.do # "Import" /\ ~OfGroups(r)
  <2>1. About(r) # "groups"
    BY <1>2 DEF OfGroups, About, Proper
  <2>2. Cached(r) = [cache EXCEPT ![About(r)] = Changed(r)]
    BY <1>2 DEF Cached
  <2>. QED
    BY <1>2, <2>1, <2>2 DEF Shapes, Whole, Sections
<1>3. CASE OfGroups(r)
  <2>1. /\ About(r) = "groups" /\ Changed(r) = WithEntry(r.group, Amended(r))
        /\ r.do # "Import"
    BY <1>3 DEF OfGroups, About, Changed
  <2>2. Cached(r) = [cache EXCEPT !["groups"] = [cache["groups"] EXCEPT ![r.group] = Amended(r)]]
    BY <2>1 DEF Cached, WithEntry
  <2>3. \A g \in Groups : r.group = g => "role" \in DOMAIN Amended(r)
    BY AmendedHasRole
  <2>4. "groups" \in Sections
    BY DEF Sections
  <2>5. \A g \in Groups :
          Cached(r)["groups"][g] = IF g = r.group THEN Amended(r) ELSE cache["groups"][g]
    BY <2>2, <2>4 DEF Shapes, Whole
  <2>6. Whole(Cached(r))
    <3>1. Cached(r) = [s \in Sections |-> Cached(r)[s]]
      BY <2>2 DEF Shapes, Whole
    <3>2. Cached(r)["groups"] = [g \in Groups |-> Cached(r)["groups"][g]]
      BY <2>2, <2>4 DEF Shapes, Whole
    <3>3. \A g \in Groups : "role" \in DOMAIN Cached(r)["groups"][g]
      BY <2>3, <2>5 DEF Shapes, Whole
    <3>. QED
      BY <3>1, <3>2, <3>3 DEF Whole
  <2>7. \A s \in Sections \ {About(r)} : Cached(r)[s] = cache[s]
    BY <2>1, <2>2 DEF Shapes, Whole
  <2>. QED
    BY <1>3, <2>1, <2>5, <2>6, <2>7
<1>. QED
  BY <1>1, <1>2, <1>3

LEMMA ChangeFollows ==
  ASSUME Shapes, EngineFollows, NEW r, Proper(r), Change(r)
  PROVE  EngineFollows'
<1>. SUFFICES ASSUME NEW s \in Mirrored, s \notin stale'
              PROVE  engine'[s] = Mirror(cache')[s]
  BY DEF EngineFollows
<1>1. /\ Up /\ ~Refused(r) /\ cache' = Cached(r) /\ engine' = Told(r, Cached(r))
      /\ stale' = Outdated(r, Cached(r))
  BY DEF Change, Up
<1>2. CASE r.do = "Import"
  BY <1>1, <1>2 DEF Outdated, Told
<1>3. CASE r.do # "Import" /\ s = About(r)
  BY <1>1, <1>3 DEF Told, Shapes
<1>4. CASE r.do # "Import" /\ s # About(r)
  <2>1. s \notin stale /\ engine'[s] = engine[s]
    BY <1>1, <1>4 DEF Outdated, Told, Shapes
  <2>2. s \in Sections
    BY DEF Mirrored, Sections, Lists, Plain
  <2>3. cache'[s] = cache[s]
    BY <1>1, <1>4, <2>2, CachedGroups
  <2>4. Mirror(cache')[s] = Mirror(cache)[s]
    BY <2>3 DEF Mirror
  <2>. QED
    BY <1>1, <2>1, <2>4 DEF EngineFollows
<1>. QED
  BY <1>2, <1>3, <1>4

LEMMA ChangeShapes ==
  ASSUME Shapes, NEW r, Proper(r), Change(r)
  PROVE  Shapes'
<1>1. Whole(cache')
  BY CachedGroups DEF Change
<1>2. engine' = [s \in Mirrored \cup {"wear"} |-> engine'[s]]
  BY DEF Change, Told, Shapes
<1>3. /\ registry' = [g \in Groups |-> registry'[g]]
      /\ \A g \in Groups : "role" \in DOMAIN registry'[g]
  <2>1. registry' = Registered(r)
    BY DEF Change
  <2>. QED
    BY <2>1 DEF Shapes, Registered
<1>. QED
  BY <1>1, <1>2, <1>3 DEF Change, Shapes

LEMMA ChangeRoles ==
  ASSUME IInv, NEW r, Proper(r), Change(r)
  PROVE  RolesInv'
<1>1. /\ phase = "idle" /\ Up /\ ~Refused(r) /\ cache' = Cached(r) /\ request' = r
      /\ registry' = Registered(r) /\ Wishes = asked
      /\ UNCHANGED <<disk, answered, behind, unsaved, asked, flapped>>
  BY NoWish DEF Change, Up, IInv, Shapes
<1>2. WishesCached'
  <2>. SUFFICES ASSUME NEW g \in Groups, Wishes'[g] # None
                PROVE  cache'["groups"][g].role = Wishes'[g]
    BY DEF WishesCached, HasRole
  <2>1. asked[g] # None => cache["groups"][g].role = asked[g]
    BY <1>1 DEF IInv, RolesInv, WishesCached, HasRole
  <2>2. CASE r.do = "Import"
    <3>1. r.merge /\ Wishes'[g] = asked[g]
      BY <1>1, <2>2 DEF Wishes
    <3>. QED
      BY <1>1, <2>1, <2>2, <3>1, ImportWhole DEF Cached, IInv
  <2>3. CASE r.do # "Import" /\ ~OfGroups(r)
    <3>1. Wishes' = asked
      BY <1>1, <2>3 DEF Wishes, OfGroups
    <3>. QED
      BY <1>1, <2>1, <2>3, <3>1, CachedGroups DEF IInv
  <2>4. CASE OfGroups(r) /\ g # r.group
    <3>1. Wishes'[g] = asked[g]
      BY <1>1, <2>4 DEF Wishes, OfGroups, IInv, Shapes
    <3>. QED
      BY <1>1, <2>1, <2>4, <3>1, CachedGroups DEF IInv
  <2>5. CASE OfGroups(r) /\ g = r.group
    <3>1. cache'["groups"][g] = Amended(r)
      BY <1>1, <2>5, CachedGroups DEF IInv
    <3>2. "role" \in DOMAIN Entry(g) /\ NoEntry.role = None
      BY DEF IInv, Shapes, Whole, Entry, NoEntry
    <3>3. CASE r.do = "SetRole"
      <4>1. Amended(r) = RoleEntry(g, r.role) /\ r.role # None
        BY <2>5, <3>3, AmendedRole
      <4>2. RoleEntry(g, r.role) # NoEntry => RoleEntry(g, r.role).role = r.role
        BY <3>2 DEF RoleEntry
      <4>3. Wishes'[g] = IF RoleEntry(g, r.role) # NoEntry THEN r.role ELSE asked[g]
        BY <1>1, <2>5, <3>1, <3>3, <4>1 DEF Wishes, Entry, IInv, Shapes
      <4>4. RoleEntry(g, r.role) = NoEntry => Entry(g) = NoEntry
        BY <3>2, <4>1 DEF RoleEntry
      <4>5. Entry(g) = NoEntry => asked[g] = None
        BY <2>1, <3>2 DEF Entry
      <4>. QED
        BY <3>1, <4>1, <4>2, <4>3, <4>4, <4>5
    <3>4. CASE r.do = "ForgetGroup"
      BY <1>1, <2>5, <3>4 DEF Wishes, IInv, Shapes
    <3>5. CASE r.do \notin {"SetRole", "ForgetGroup"}
      <4>1. Wishes' = asked
        BY <1>1, <2>5, <3>5 DEF Wishes, OfGroups
      <4>2. Amended(r).role = Entry(g).role
        BY <2>5, <3>2, <3>5 DEF Amended
      <4>. QED
        BY <2>1, <3>1, <4>1, <4>2 DEF Entry
    <3>. QED
      BY <3>3, <3>4, <3>5
  <2>. QED
    BY <2>2, <2>3, <2>4, <2>5
<1>3. ASSUME NEW g \in Groups
      PROVE  /\ registry'[g] # Absent => registry[g] # Absent
             /\ r.do = "SetRole" /\ g = r.group /\ registry'[g] # Absent
                  => registry'[g].role = r.role
             /\ ~(r.do = "SetRole" /\ g = r.group) => registry'[g].role = registry[g].role
  BY <1>1 DEF Registered, IInv, Shapes
<1>4. WishesShown'
  <2>. SUFFICES ASSUME NEW g \in Groups \ flapped', Wishes'[g] # None, registry'[g] # Absent
                PROVE  registry'[g].role = Wishes'[g]
    BY DEF WishesShown
  <2>1. asked[g] # None => registry[g].role = asked[g]
    BY <1>1, <1>3 DEF IInv, RolesInv, WishesShown
  <2>2. CASE r.do = "SetRole" /\ g = r.group
    <3>1. registry[g] # Absent
      BY <1>3
    <3>2. RoleEntry(g, r.role) # NoEntry
      <4>1. r.role # None /\ "role" \in DOMAIN Entry(g) /\ NoEntry.role = None
        BY <2>2, SettingsAssumption DEF Proper, IInv, Shapes, Whole, Entry, NoEntry
      <4>. QED
        BY <3>1, <4>1 DEF RoleEntry
    <3>3. cache'["groups"][g] = RoleEntry(g, r.role)
      <4>1. OfGroups(r) /\ Amended(r) = RoleEntry(g, r.role)
        BY <2>2, AmendedRole DEF OfGroups
      <4>. QED
        BY <1>1, <2>2, <4>1, CachedGroups DEF IInv
    <3>4. Wishes'[g] = r.role
      BY <1>1, <2>2, <3>2, <3>3 DEF Wishes, Entry, IInv, Shapes
    <3>. QED
      BY <1>3, <2>2, <3>4
  <2>3. CASE ~(r.do = "SetRole" /\ g = r.group)
    <3>1. Wishes'[g] = asked[g]
      BY <1>1, <2>3 DEF Wishes, IInv, Shapes
    <3>. QED
      BY <1>3, <2>1, <2>3, <3>1
  <2>. QED
    BY <2>2, <2>3
<1>5. AskedAnswered' /\ AskedOnDisk'
  BY <1>1 DEF IInv, RolesInv, AskedAnswered, AskedOnDisk, HasRole
<1>6. RoleSurvives'
  <2>1. request \in {Nothing, Stopped}
    BY <1>1 DEF IInv, Shapes
  <2>2. request.do \notin {"SetRole", "ForgetGroup"}
    BY <2>1 DEF Nothing, Stopped
  <2>. QED
    BY <1>1, <1>3, <2>2 DEF IInv, RolesInv, RoleSurvives
<1>. QED
  BY <1>2, <1>4, <1>5, <1>6 DEF RolesInv

-----------------------------------------------------------------------------
(* The end of a save. *)

\* What the end of a save does to the registry, the copies and the wishes.
LEMMA DoneFacts ==
  ASSUME Done
  PROVE  /\ request' \in {Nothing, Stopped} /\ Wishes' = asked' /\ answered' = cache
         /\ UNCHANGED <<cache, engine, stale, flapped, cli, backup>>
         /\ registry' = registry \/ registry' = [g \in Groups |-> Absent]
         /\ Up' => registry' = registry
         /\ phase' \in {"idle", "down"}
  BY NoWishNext DEF Done, Up

LEMMA DoneShapes ==
  ASSUME Shapes, Done, disk' # Garbled => Whole(disk'), asked' = [g \in Groups |-> asked'[g]]
  PROVE  Shapes'
<1>1. /\ registry' = [g \in Groups |-> registry'[g]]
      /\ \A g \in Groups : "role" \in DOMAIN registry'[g]
  BY DoneFacts DEF Shapes, Absent
<1>. QED
  BY <1>1, DoneFacts DEF Shapes, Whole

LEMMA DoneFollows ==
  ASSUME EngineFollows, Up, Done
  PROVE  EngineFollows'
  BY DoneFacts DEF EngineFollows

\* What was wished for is asked now, or nothing is.
LEMMA DoneRoles ==
  ASSUME IInv, Up, Done, NEW g \in Groups, asked'[g] # None, asked'[g] = Wishes[g]
  PROVE  /\ HasRole(cache', g, Wishes'[g]) /\ HasRole(answered', g, asked'[g])
         /\ g \notin flapped' /\ registry'[g] # Absent => registry'[g].role = asked'[g]
<1>1. cache["groups"][g].role = Wishes[g]
  BY DEF IInv, RolesInv, WishesCached, HasRole
<1>2. HasRole(cache', g, Wishes'[g]) /\ HasRole(answered', g, asked'[g])
  BY <1>1, DoneFacts DEF HasRole
<1>3. g \notin flapped' /\ registry'[g] # Absent => registry'[g].role = asked'[g]
  <2>. SUFFICES ASSUME g \notin flapped', registry'[g] # Absent
                PROVE  registry'[g].role = asked'[g]
    OBVIOUS
  <2>1. g \notin flapped /\ registry'[g] = registry[g]
    BY DoneFacts
  <2>. QED
    BY <2>1 DEF IInv, RolesInv, WishesShown
<1>. QED
  BY <1>2, <1>3

LEMMA RenameKeeps ==
  ASSUME IInv, Rename
  PROVE  IInv'
<1>1. /\ phase = "renaming" /\ Up /\ disk' = cache /\ behind' = {} /\ ~unsaved'
      /\ asked' = Wishes /\ Done
  BY DEF Rename, Up, IInv, Shapes
<1>2. asked' = [g \in Groups |-> asked'[g]]
  BY <1>1 DEF Wishes, IInv, Shapes
<1>3. Shapes'
  BY <1>1, <1>2, DoneShapes DEF IInv, Shapes
<1>4. EngineFollows'
  BY <1>1, DoneFollows DEF IInv
<1>5. ASSUME NEW g \in Groups, asked'[g] # None
      PROVE  /\ HasRole(cache', g, Wishes'[g]) /\ HasRole(answered', g, asked'[g])
             /\ g \notin flapped' /\ registry'[g] # Absent => registry'[g].role = asked'[g]
  BY <1>1, <1>5, DoneRoles
<1>6. WishesCached' /\ WishesShown'
  BY <1>1, <1>5, DoneFacts DEF WishesCached, WishesShown, HasRole
<1>7. AskedAnswered' /\ RoleSurvives'
  BY <1>5 DEF AskedAnswered, RoleSurvives, HasRole
<1>8. AskedOnDisk'
  <2>1. ASSUME NEW g \in Groups, asked'[g] # None
        PROVE  disk'["groups"][g].role = asked'[g]
    BY <1>1, <2>1 DEF IInv, RolesInv, WishesCached, HasRole
  <2>. QED
    BY <2>1 DEF AskedOnDisk, HasRole
<1>. QED
  BY <1>3, <1>4, <1>6, <1>7, <1>8 DEF IInv, RolesInv

LEMMA SaveFailsKeeps ==
  ASSUME IInv, SaveFails
  PROVE  IInv'
<1>1. /\ Up /\ Done /\ asked' = [g \in Groups |-> None] /\ unsaved' /\ UNCHANGED disk
  BY DEF SaveFails, Up
<1>2. asked' = [g \in Groups |-> asked'[g]] /\ \A g \in Groups : asked'[g] = None
  BY <1>1
<1>3. Shapes'
  BY <1>1, <1>2, DoneShapes DEF IInv, Shapes
<1>4. EngineFollows'
  BY <1>1, DoneFollows DEF IInv
<1>5. WishesCached' /\ WishesShown' /\ AskedAnswered' /\ AskedOnDisk' /\ RoleSurvives'
  BY <1>1, <1>2, DoneFacts
  DEF WishesCached, WishesShown, AskedAnswered, AskedOnDisk, RoleSurvives, HasRole
<1>. QED
  BY <1>3, <1>4, <1>5 DEF IInv, RolesInv

-----------------------------------------------------------------------------
(* Discovery, starting and dying. *)

LEMMA Applied ==
  ASSUME NEW r, NEW c, Whole(c), r = [g \in Groups |-> r[g]],
         \A g \in Groups : "role" \in DOMAIN r[g]
  PROVE  LET a == ApplyGroupConfigs(r, c) IN
         /\ a = [g \in Groups |-> a[g]]
         /\ \A g \in Groups : /\ "role" \in DOMAIN a[g]
                              /\ a[g] # Absent => r[g] # Absent
                              /\ a[g] # Absent /\ c["groups"][g] # NoEntry
                                   => a[g].role = c["groups"][g].role
  BY DEF ApplyGroupConfigs

LEMMA FoundFacts ==
  ASSUME Shapes, NEW there \in SUBSET Groups
  PROVE  /\ Found(there) = [g \in Groups |-> Found(there)[g]]
         /\ \A g \in Groups : /\ "role" \in DOMAIN Found(there)[g]
                              /\ Found(there)[g] # Absent => g \in there
                              /\ registry[g] # Absent /\ Found(there)[g] # Absent
                                   => Found(there)[g] = registry[g]
  BY DEF Found, Shapes, Absent, Plugged

LEMMA NoEntryRole == NoEntry.role = None
  BY DEF NoEntry

LEMMA PollKeeps ==
  ASSUME IInv, NEW there \in SUBSET Groups, Poll(there)
  PROVE  IInv'
<1>1. /\ phase = "idle" /\ registry' = ApplyGroupConfigs(Found(there), cache)
      /\ UNCHANGED <<disk, tmp, cache, phase, request, cli, backup, answered, behind, unsaved,
                     stale, asked>>
      /\ Wishes = asked /\ Wishes' = asked'
  BY NoWish, NoWishNext DEF Poll, IInv, Shapes
<1>2. /\ registry' = [g \in Groups |-> registry'[g]]
      /\ \A g \in Groups : /\ "role" \in DOMAIN registry'[g]
                           /\ registry'[g] # Absent /\ cache["groups"][g] # NoEntry
                                => registry'[g].role = cache["groups"][g].role
  BY <1>1, Applied, FoundFacts DEF IInv, Shapes
<1>3. engine' = [s \in Mirrored \cup {"wear"} |-> engine'[s]]
      /\ \A s \in Mirrored : engine'[s] = engine[s]
  BY DEF Poll, IInv, Shapes, Mirrored
<1>4. Shapes'
  BY <1>1, <1>2, <1>3 DEF IInv, Shapes, Whole
<1>5. EngineFollows'
  BY <1>1, <1>3 DEF IInv, EngineFollows, Up
<1>6. WishesCached' /\ AskedAnswered' /\ AskedOnDisk'
  BY <1>1 DEF IInv, RolesInv, WishesCached, AskedAnswered, AskedOnDisk, Up, HasRole
<1>7. ASSUME NEW g \in Groups, asked'[g] # None, registry'[g] # Absent
      PROVE  registry'[g].role = asked'[g]
  <2>1. cache["groups"][g].role = asked[g]
    BY <1>1, <1>7 DEF IInv, RolesInv, WishesCached, Up, HasRole
  <2>. QED
    BY <1>1, <1>2, <1>7, <2>1, NoEntryRole
<1>8. WishesShown' /\ RoleSurvives'
  BY <1>1, <1>7 DEF WishesShown, RoleSurvives
<1>. QED
  BY <1>4, <1>5, <1>6, <1>8 DEF IInv, RolesInv

LEMMA DiscoverKeeps ==
  ASSUME IInv, NEW there \in SUBSET Groups, Discover(there)
  PROVE  IInv'
<1>1. /\ phase = "idle" /\ registry' = Found(there)
      /\ flapped' = (flapped \cap there) \cup New(there)
      /\ UNCHANGED <<disk, tmp, cache, engine, phase, request, cli, backup, answered, behind,
                     unsaved, stale, asked>>
      /\ Wishes = asked /\ Wishes' = asked'
  BY NoWish, NoWishNext DEF Discover, IInv, Shapes
<1>2. Shapes'
  BY <1>1, FoundFacts DEF IInv, Shapes, Whole
<1>3. EngineFollows'
  BY <1>1 DEF IInv, EngineFollows, Up
<1>4. WishesCached' /\ AskedAnswered' /\ AskedOnDisk'
  BY <1>1 DEF IInv, RolesInv, WishesCached, AskedAnswered, AskedOnDisk, Up, HasRole
<1>5. ASSUME NEW g \in Groups \ flapped', asked'[g] # None, registry'[g] # Absent
      PROVE  registry'[g].role = asked'[g]
  <2>1. g \in there /\ g \notin New(there)
    BY <1>1, <1>5, FoundFacts DEF IInv
  <2>2. registry[g] # Absent /\ g \notin flapped
    BY <1>1, <1>5, <2>1 DEF New
  <2>3. registry'[g] = registry[g]
    BY <1>1, <1>5, <2>2, FoundFacts DEF IInv
  <2>. QED
    BY <1>1, <1>5, <2>2, <2>3 DEF IInv, RolesInv, WishesShown
<1>6. WishesShown' /\ RoleSurvives'
  BY <1>1, <1>5 DEF WishesShown, RoleSurvives
<1>. QED
  BY <1>2, <1>3, <1>4, <1>6 DEF IInv, RolesInv

LEMMA BootKeeps ==
  ASSUME IInv, NEW there \in SUBSET Groups, Boot(there)
  PROVE  IInv'
<1> DEFINE start == [g \in Groups |-> IF g \in there THEN Plugged ELSE Absent]
<1>1. /\ cache' = (IF disk = Garbled THEN Default ELSE Sane(disk))
      /\ engine' = Mirror(cache') /\ registry' = ApplyGroupConfigs(start, cache')
      /\ phase' = "idle" /\ request' = Nothing /\ stale' = {} /\ flapped' = {} /\ ~unsaved'
      /\ answered' = (IF disk = Garbled THEN Default ELSE disk)
      /\ behind' = (IF disk = Garbled THEN Sections ELSE {})
      /\ UNCHANGED <<disk, cli, backup>>
      /\ Wishes' = asked'
  BY NoWishNext DEF Boot
<1>2. Whole(cache')
  BY <1>1, SaneWhole, DefaultWhole DEF IInv, Shapes
<1>3. /\ registry' = [g \in Groups |-> registry'[g]]
      /\ \A g \in Groups : /\ "role" \in DOMAIN registry'[g]
                           /\ registry'[g] # Absent /\ cache'["groups"][g] # NoEntry
                                => registry'[g].role = cache'["groups"][g].role
  BY <1>1, <1>2, Applied DEF Plugged, Absent
<1>4. asked' = [g \in Groups |-> asked'[g]]
  BY DEF Boot
<1>5. ASSUME NEW g \in Groups, asked'[g] # None
      PROVE  /\ disk # Garbled /\ disk["groups"][g].role = asked'[g]
             /\ cache'["groups"][g] # NoEntry /\ cache'["groups"][g].role = asked'[g]
  <2>1. /\ cache'["groups"][g] # NoEntry /\ ~unsaved /\ behind = {}
        /\ asked'[g] = asked[g]
    BY <1>5 DEF Boot
  <2>2. disk # Garbled
    BY <1>1, <2>1 DEF Default, Sections, Lists, Plain, Rest
  <2>4. disk["groups"][g].role = asked[g]
    BY <1>5, <2>1, <2>2 DEF IInv, RolesInv, AskedOnDisk, HasRole
  <2>3. cache'["groups"] = disk["groups"]
    BY <1>1, <2>2, SaneWhole DEF IInv, Shapes
  <2>. QED
    BY <2>1, <2>2, <2>3, <2>4
<1>6. Shapes'
  BY <1>1, <1>2, <1>3, <1>4 DEF IInv, Shapes, Whole, Mirror
<1>7. EngineFollows'
  BY <1>1 DEF EngineFollows
<1>8. WishesCached' /\ AskedAnswered' /\ AskedOnDisk'
  BY <1>1, <1>5 DEF WishesCached, AskedAnswered, AskedOnDisk, HasRole
<1>9. WishesShown' /\ RoleSurvives'
  BY <1>1, <1>3, <1>5 DEF WishesShown, RoleSurvives
<1>. QED
  BY <1>6, <1>7, <1>8, <1>9 DEF IInv, RolesInv

LEMMA CrashKeeps ==
  ASSUME IInv, Crash
  PROVE  IInv'
<1>1. /\ phase' = "down" /\ request' = Nothing /\ registry' = [g \in Groups |-> Absent]
      /\ UNCHANGED <<disk, tmp, cache, cli, backup, answered, behind, unsaved, stale, asked, flapped>>
  BY DEF Crash
<1>2. engine' = [s \in Mirrored \cup {"wear"} |-> engine'[s]]
  BY DEF Crash, IInv, Shapes
<1>3. Shapes'
  BY <1>1, <1>2 DEF IInv, Shapes, Whole, Absent
<1>4. EngineFollows' /\ WishesCached'
  BY <1>1 DEF EngineFollows, WishesCached, Up
<1>5. AskedAnswered' /\ AskedOnDisk' /\ WishesShown' /\ RoleSurvives'
  BY <1>1 DEF IInv, RolesInv, AskedAnswered, AskedOnDisk, WishesShown, RoleSurvives, HasRole
<1>. QED
  BY <1>3, <1>4, <1>5 DEF IInv, RolesInv

-----------------------------------------------------------------------------
(* The other steps. *)

\* Steps that leave the daemon, its requests and what was asked alone.
LEMMA BesidesKeeps ==
  ASSUME IInv,
         UNCHANGED <<cache, engine, registry, phase, request, answered, unsaved, stale, asked, flapped>>,
         phase = "renaming" => tmp' = tmp,
         disk' # Garbled => Whole(disk'), cli' # NoFile => Whole(cli'),
         backup' # NoFile => Whole(backup'),
         behind' = {} => disk'["groups"] = answered["groups"] \/ (behind = {} /\ disk' = disk)
  PROVE  IInv'
<1>1. Shapes'
  BY DEF IInv, Shapes, Whole
<1>2. EngineFollows'
  BY DEF IInv, EngineFollows, Up
<1>3. WishesCached' /\ WishesShown' /\ AskedAnswered' /\ RoleSurvives'
  BY DEF IInv, RolesInv, WishesCached, WishesShown, AskedAnswered, RoleSurvives, HasRole,
         Wishes, Up, Entry
<1>4. AskedOnDisk'
  <2>. SUFFICES ASSUME ~unsaved', behind' = {}, disk' # Garbled, NEW g \in Groups
                PROVE  HasRole(disk', g, asked'[g])
    BY DEF AskedOnDisk, HasRole
  <2>. QED
    BY DEF IInv, RolesInv, AskedAnswered, AskedOnDisk, HasRole
<1>. QED
  BY <1>1, <1>2, <1>3, <1>4 DEF IInv, RolesInv

LEMMA OthersKeep ==
  ASSUME IInv,
         \/ Export \/ Garble \/ CliLoad
         \/ \E s \in Edits, v \in Values : Edit(s, v)
         \/ \E v \in Values : CliSave(v)
         \/ UNCHANGED vars
  PROVE  IInv'
<1>1. CASE Export
  BY <1>1, BesidesKeeps DEF Export, core, IInv, Shapes
<1>2. CASE Garble
  <2>1. behind' # {}
    BY <1>2 DEF Garble, Sections
  <2>. QED
    BY <1>2, <2>1, BesidesKeeps DEF Garble, IInv, Shapes
<1>3. CASE CliLoad
  BY <1>3, BesidesKeeps DEF CliLoad, core, IInv, Shapes
<1>4. ASSUME NEW s \in Edits, NEW v \in Values, Edit(s, v) PROVE IInv'
  <2>1. behind' # {}
    BY <1>4 DEF Edit
  <2>2. Whole(disk')
    <3>1. Whole(disk) /\ disk' = [disk EXCEPT ![s] = Edited(s, v)]
      BY <1>4 DEF Edit, IInv, Shapes
    <3>2. s # "groups"
      BY EditsAssumption
    <3>. QED
      BY <3>1, <3>2 DEF Whole, Sections
  <2>. QED
    BY <1>4, <2>1, <2>2, BesidesKeeps DEF Edit, IInv, Shapes
<1>5. ASSUME NEW v \in Values, CliSave(v) PROVE IInv'
  <2>1. Whole(disk')
    <3>1. Whole(cli) /\ disk' = [cli EXCEPT !["headers"] = v]
      BY <1>5 DEF CliSave, Named, IInv, Shapes
    <3>. QED
      BY <3>1 DEF Whole, Sections
  <2>2. behind' = {} => disk'["groups"] = answered["groups"]
    BY <1>5 DEF CliSave, Differs, Sections
  <2>. QED
    BY <1>5, <2>1, <2>2, BesidesKeeps DEF CliSave, IInv, Shapes
<1>6. CASE UNCHANGED vars
  BY <1>6, BesidesKeeps DEF vars, IInv, Shapes
<1>. QED
  BY <1>1, <1>2, <1>3, <1>4, <1>5, <1>6

LEMMA WriteKeeps ==
  ASSUME IInv, Write
  PROVE  IInv'
<1>1. /\ phase = "writing" /\ phase' = "renaming" /\ tmp' = cache
      /\ UNCHANGED <<disk, cache, engine, registry, request, cli, backup, answered, behind,
                     unsaved, stale, asked, flapped>>
  BY DEF Write
<1>2. Shapes'
  BY <1>1 DEF IInv, Shapes, Whole
<1>3. EngineFollows'
  BY <1>1 DEF IInv, EngineFollows, Up
<1>4. RolesInv'
  BY <1>1 DEF IInv, RolesInv, WishesCached, WishesShown, AskedAnswered, AskedOnDisk,
              RoleSurvives, HasRole, Wishes, Up, Entry
<1>. QED
  BY <1>2, <1>3, <1>4 DEF IInv

LEMMA StopKeeps ==
  ASSUME IInv, Stop
  PROVE  IInv'
<1>1. /\ phase = "idle" /\ phase' = "writing" /\ request' = Nothing
      /\ cache' = [cache EXCEPT !["wear"] = engine["wear"]]
      /\ UNCHANGED <<disk, engine, registry, cli, backup, answered, behind, unsaved, stale,
                     asked, flapped>>
      /\ Wishes = asked /\ Wishes' = asked'
  <2>1. request \in {Nothing, Stopped} /\ request' = Nothing
    BY DEF Stop, IInv, Shapes
  <2>. QED
    BY <2>1, NoWish, NoWishNext DEF Stop
<1>2. Whole(cache') /\ \A s \in Sections \ {"wear"} : cache'[s] = cache[s]
  <2>1. cache = [s \in Sections |-> cache[s]] /\ Whole(cache)
    BY DEF IInv, Shapes, Whole
  <2>2. \A s \in Sections \ {"wear"} : cache'[s] = cache[s]
    BY <1>1, <2>1
  <2>3. Whole(cache')
    BY <1>1, <2>1 DEF Whole, Sections
  <2>. QED
    BY <2>2, <2>3
<1>3. Shapes'
  BY <1>1, <1>2 DEF IInv, Shapes, Whole
<1>4. EngineFollows'
  <2>1. Mirrored \subseteq Sections \ {"wear"}
    BY DEF Mirrored, Sections, Lists, Plain, Rest
  <2>. QED
    BY <1>1, <1>2, <2>1 DEF IInv, EngineFollows, Up, Mirror
<1>5. cache'["groups"] = cache["groups"]
  BY <1>2 DEF Sections
<1>6. RolesInv'
  <2>1. request \in {Nothing, Stopped} /\ request.do \notin {"SetRole", "ForgetGroup"}
    BY <1>1 DEF IInv, Shapes, Nothing, Stopped
  <2>. QED
    BY <1>1, <1>5, <2>1 DEF IInv, RolesInv, WishesCached, WishesShown, AskedAnswered,
       AskedOnDisk, RoleSurvives, HasRole, Up
<1>. QED
  BY <1>3, <1>4, <1>6 DEF IInv

LEMMA ReloadKeeps ==
  ASSUME IInv, Reload
  PROVE  IInv'
<1>1. /\ phase = "idle" /\ engine' = [engine EXCEPT !["sequences"] = cache'["sequences"]]
      /\ stale' = {s \in Mirrored : Mirror(cache')[s] # engine'[s]}
      /\ UNCHANGED <<disk, tmp, registry, phase, request, cli, backup, flapped>>
      /\ Wishes = asked /\ Wishes' = asked'
  BY NoWish, NoWishNext DEF Reload, IInv, Shapes
<1>2. request.do \notin {"SetRole", "ForgetGroup"}
  BY <1>1 DEF IInv, Shapes, Nothing, Stopped
<1>3. EngineFollows'
  BY <1>1 DEF EngineFollows
<1>4. CASE disk = Garbled
  <2>1. UNCHANGED <<cache, answered, behind, unsaved, asked>>
    BY <1>4 DEF Reload
  <2>2. Shapes'
    BY <1>1, <2>1 DEF IInv, Shapes, Whole
  <2>3. RolesInv'
    BY <1>1, <2>1 DEF IInv, RolesInv, WishesCached, WishesShown, AskedAnswered,
       AskedOnDisk, RoleSurvives, HasRole, Up
  <2>. QED
    BY <1>3, <2>2, <2>3 DEF IInv
<1>5. CASE disk # Garbled
  <2>1. /\ cache' = Sane(disk) /\ answered' = disk /\ ~unsaved'
        /\ asked' = IF disk["groups"] = cache["groups"] THEN asked ELSE [g \in Groups |-> None]
    BY <1>5 DEF Reload
  <2>2. Whole(disk) /\ Whole(cache') /\ cache'["groups"] = disk["groups"]
    BY <1>5, <2>1, SaneWhole DEF IInv, Shapes
  <2>3. asked' = [g \in Groups |-> asked'[g]]
    BY <2>1 DEF IInv, Shapes
  <2>4. Shapes'
    BY <1>1, <2>2, <2>3 DEF IInv, Shapes, Whole
  <2>5. ASSUME NEW g \in Groups, asked'[g] # None
        PROVE  asked'[g] = asked[g] /\ disk["groups"][g].role = asked'[g]
    BY <1>1, <2>1, <2>5 DEF IInv, RolesInv, WishesCached, HasRole, Up
  <2>6. WishesCached' /\ AskedAnswered' /\ AskedOnDisk'
    BY <1>1, <2>1, <2>2, <2>5 DEF WishesCached, AskedAnswered, AskedOnDisk, HasRole
  <2>7. WishesShown' /\ RoleSurvives'
    BY <1>1, <2>5 DEF IInv, RolesInv, WishesShown, RoleSurvives
  <2>. QED
    BY <1>3, <2>4, <2>6, <2>7 DEF IInv, RolesInv
<1>. QED
  BY <1>4, <1>5

-----------------------------------------------------------------------------
LEMMA StartEstablishes ==
  ASSUME NEW p \in {"down", "idle"}, Started(p)
  PROVE  IInv
<1>1. /\ disk = First /\ cache = First /\ engine = Mirror(First) /\ answered = First
      /\ registry = [g \in Groups |-> Absent] /\ phase \in {"down", "idle"} /\ request = Nothing
      /\ cli = NoFile /\ backup = NoFile /\ stale = {} /\ behind = {}
      /\ asked = [g \in Groups |-> None] /\ Wishes = asked
  BY NoWish DEF Started
<1>2. Shapes
  BY <1>1, DefaultWhole DEF Shapes, Mirror, Absent
<1>3. EngineFollows /\ RolesInv
  BY <1>1 DEF EngineFollows, RolesInv, WishesCached, WishesShown, AskedAnswered, AskedOnDisk,
              RoleSurvives, HasRole, Up
<1>. QED
  BY <1>2, <1>3 DEF IInv

LEMMA ChangeKeeps ==
  ASSUME IInv, NEW r, Proper(r), Change(r)
  PROVE  IInv'
  BY ChangeShapes, ChangeFollows, ChangeRoles DEF IInv

LEMMA StepKeeps == IInv /\ [Next]_vars => IInv'
  BY ChangeKeeps, ReloadKeeps, StopKeeps, WriteKeeps, RenameKeeps, SaveFailsKeeps,
     PollKeeps, DiscoverKeeps, BootKeeps, CrashKeeps, OthersKeep, RequestsAssumption DEF Next

\* The configuration on disk, in the cache and in the runners, the registry and what
\* was asked for agree in every state, whatever fails or crashes.
THEOREM Inductive == Spec => []IInv
<1>1. Init => IInv
  BY StartEstablishes DEF Init
<1>. QED
  BY <1>1, StepKeeps, PTL DEF Spec

\* Every runner works by the configuration the daemon answers for, except for
\* what an import or a reload changed, whatever is requested, edited or crashes.
THEOREM EngineFollowsHolds == Spec => []EngineFollows
<1>1. IInv => EngineFollows
  BY DEF IInv
<1>. QED
  BY <1>1, Inductive, PTL

\* A role that was asked for and saved is kept across lost fans, failed polls,
\* crashes, restarts, other requests and edits of the file.
THEOREM RoleSurvivesHolds == Spec => []RoleSurvives
<1>1. IInv => RoleSurvives
  BY DEF IInv, RolesInv
<1>. QED
  BY <1>1, Inductive, PTL

-----------------------------------------------------------------------------
(* What was answered is on disk. *)

\* Between requests the daemon has what it answered last.
InMemory == phase = "idle" => \A s \in Sections : cache[s] \in {answered[s], Sane(answered)[s]}

OnDisk == ~unsaved => \A s \in Sections \ behind : disk # Garbled /\ disk[s] = answered[s]

KeptInv == InMemory /\ OnDisk

LEMMA WholeParses ==
  ASSUME NEW c, Whole(c)
  PROVE  c # Garbled
  BY GarbledAssumption DEF Whole

LEMMA KeptBesides ==
  ASSUME KeptInv, UNCHANGED <<disk, cache, phase, answered, behind, unsaved>>
  PROVE  KeptInv'
  BY DEF KeptInv, InMemory, OnDisk, Sane

\* A save that has begun has not touched the file.
LEMMA SavingKeeps ==
  ASSUME KeptInv, UNCHANGED <<disk, answered, behind, unsaved>>, phase' # "idle"
  PROVE  KeptInv'
  BY DEF KeptInv, InMemory, OnDisk

LEMMA KeptStep ==
  ASSUME Shapes, KeptInv, [Next]_vars
  PROVE  KeptInv'
<1>1. ASSUME NEW r, Change(r) PROVE KeptInv'
  BY <1>1, SavingKeeps DEF Change
<1>2. CASE Reload
  <2>1. CASE disk = Garbled
    BY <1>2, <2>1, KeptBesides DEF Reload
  <2>2. CASE disk # Garbled
    <3>1. cache' = Sane(disk) /\ answered' = disk /\ disk' = disk
      BY <1>2, <2>2 DEF Reload
    <3>. QED
      BY <2>2, <3>1 DEF KeptInv, InMemory, OnDisk, Sane
  <2>. QED
    BY <2>1, <2>2
<1>3. CASE Rename
  <2>1. disk' = cache /\ cache' = cache /\ answered' = cache
    BY <1>3 DEF Rename, Done, Shapes
  <2>2. cache # Garbled
    BY WholeParses DEF Shapes
  <2>. QED
    BY <2>1, <2>2 DEF KeptInv, InMemory, OnDisk
<1>4. CASE SaveFails
  BY <1>4 DEF SaveFails, Done, KeptInv, InMemory, OnDisk
<1>5. ASSUME NEW there \in SUBSET Groups, Boot(there) PROVE KeptInv'
  <2>1. CASE disk = Garbled
    BY <1>5, <2>1 DEF Boot, KeptInv, InMemory, OnDisk
  <2>2. CASE disk # Garbled
    <3>1. cache' = Sane(disk) /\ answered' = disk /\ disk' = disk
      BY <1>5, <2>2 DEF Boot
    <3>. QED
      BY <2>2, <3>1 DEF KeptInv, InMemory, OnDisk, Sane
  <2>. QED
    BY <2>1, <2>2
<1>6. ASSUME NEW s \in Edits, NEW v \in Values, Edit(s, v) PROVE KeptInv'
  <2>1. /\ disk # Garbled /\ disk' = [disk EXCEPT ![s] = Edited(s, v)] /\ behind' = behind \cup {s}
        /\ UNCHANGED <<cache, phase, answered, unsaved>>
    BY <1>6 DEF Edit
  <2>2. DOMAIN disk' = Sections /\ \A t \in Sections \ {s} : disk'[t] = disk[t]
    BY <2>1 DEF Shapes, Whole
  <2>3. OnDisk'
    BY <2>1, <2>2, GarbledAssumption DEF KeptInv, OnDisk
  <2>. QED
    BY <2>1, <2>3 DEF KeptInv, InMemory, Sane
<1>7. CASE Garble
  BY <1>7 DEF Garble, KeptInv, InMemory, OnDisk, Sane
<1>8. ASSUME NEW v \in Values, CliSave(v) PROVE KeptInv'
  <2>1. /\ cli # NoFile /\ disk' = [cli EXCEPT !["headers"] = v]
        /\ behind' = {s \in Sections : disk'[s] # answered[s]}
        /\ UNCHANGED <<cache, phase, answered, unsaved>>
    BY <1>8 DEF CliSave, Named, Differs
  <2>2. DOMAIN disk' = Sections
    BY <2>1 DEF Shapes, Whole
  <2>3. OnDisk'
    BY <2>1, <2>2, GarbledAssumption DEF OnDisk
  <2>. QED
    BY <2>1, <2>3 DEF KeptInv, InMemory, Sane
<1>9. CASE Stop \/ Write \/ Crash
  BY <1>9, SavingKeeps DEF Stop, Write, Crash
<1>10. CASE Export \/ CliLoad \/ UNCHANGED vars
  BY <1>10, KeptBesides DEF Export, CliLoad, vars, core
<1>11. ASSUME NEW there \in SUBSET Groups, Poll(there) \/ Discover(there) PROVE KeptInv'
  BY <1>11, KeptBesides DEF Poll, Discover
<1>. QED
  BY <1>1, <1>2, <1>3, <1>4, <1>5, <1>6, <1>7, <1>8, <1>9, <1>10, <1>11 DEF Next

LEMMA StartKept ==
  ASSUME NEW p, Started(p)
  PROVE  KeptInv
<1>1. First # Garbled
  BY DefaultWhole, WholeParses
<1>. QED
  BY <1>1 DEF Started, KeptInv, InMemory, OnDisk

LEMMA KeptSurvives == KeptInv => AnsweredSurvives
  BY DEF KeptInv, InMemory, OnDisk, AnsweredSurvives

\* What a request was told to be done is in the file and in the daemon, across
\* restarts, crashes in the middle of later saves and other writers, for any
\* configuration, requests and number of faults.
THEOREM AnsweredSurvivesHolds == Spec => []AnsweredSurvives
<1>1. Init => KeptInv
  BY StartKept DEF Init
<1>2. IInv /\ KeptInv /\ [Next]_vars => KeptInv'
  BY KeptStep DEF IInv
<1>. QED
  BY <1>1, <1>2, KeptSurvives, Inductive, PTL DEF Spec

-----------------------------------------------------------------------------
(* The pages of the graphical interface beside the daemon. *)

IsList(q) == \E S : q \in Seq(S)

LEMMA Joined ==
  ASSUME NEW q, NEW t, IsList(q), IsList(t)
  PROVE  /\ IsList(q \o t) /\ Len(q) \in Nat /\ Len(t) \in Nat
         /\ Len(q \o t) = Len(q) + Len(t)
         /\ \A i \in 1..Len(q) : (q \o t)[i] = q[i]
         /\ \A i \in 1..Len(t) : (q \o t)[Len(q) + i] = t[i]
<1>1. PICK S : q \in Seq(S)
  BY DEF IsList
<1>2. PICK T : t \in Seq(T)
  BY DEF IsList
<1>3. q \in Seq(S \cup T) /\ t \in Seq(S \cup T)
  BY <1>1, <1>2
<1>. QED
  BY <1>3 DEF IsList

LEMMA Remaining ==
  ASSUME NEW q, IsList(q), q # <<>>
  PROVE  /\ IsList(Tail(q)) /\ Len(q) \in Nat \ {0} /\ Len(Tail(q)) = Len(q) - 1
         /\ Head(q) = q[1]
         /\ \A i \in 1..Len(Tail(q)) : Tail(q)[i] = q[i + 1]
<1>1. PICK S : q \in Seq(S)
  BY DEF IsList
<1>. QED
  BY <1>1 DEF IsList

\* The list of a section is still to be read.
Listed(q, s) == \E i \in 1..Len(q) : q[i].do = "List" /\ s \in q[i].sections

Orderly(call) ==
  call.do = "Ask" => /\ Proper(call.request) /\ call.request.do # "Import"
                     /\ call.then \in {"report", "refresh"}
InOrder(q) == IsList(q) /\ \A i \in 1..Len(q) : Orderly(q[i])

LEMMA JoinedCalls ==
  ASSUME NEW q, NEW t, InOrder(q), InOrder(t)
  PROVE  /\ InOrder(q \o t)
         /\ \A s : Listed(q, s) \/ Listed(t, s) => Listed(q \o t, s)
<1>1. /\ IsList(q \o t) /\ Len(q) \in Nat /\ Len(t) \in Nat
      /\ Len(q \o t) = Len(q) + Len(t)
      /\ \A i \in 1..Len(q) : (q \o t)[i] = q[i]
      /\ \A i \in 1..Len(t) : (q \o t)[Len(q) + i] = t[i]
  BY Joined DEF InOrder
<1>2. ASSUME NEW i \in 1..Len(q \o t) PROVE Orderly((q \o t)[i])
  <2>1. CASE i <= Len(q)
    BY <1>1, <2>1 DEF InOrder
  <2>2. CASE i > Len(q)
    <3>1. i - Len(q) \in 1..Len(t) /\ Len(q) + (i - Len(q)) = i
      BY <1>1, <2>2
    <3>. QED
      BY <1>1, <3>1 DEF InOrder
  <2>. QED
    BY <1>1, <2>1, <2>2
<1>3. ASSUME NEW s, Listed(q, s) PROVE Listed(q \o t, s)
  <2>1. PICK i \in 1..Len(q) : q[i].do = "List" /\ s \in q[i].sections
    BY <1>3 DEF Listed
  <2>2. i \in 1..Len(q \o t) /\ (q \o t)[i] = q[i]
    BY <1>1
  <2>. QED
    BY <2>1, <2>2 DEF Listed
<1>4. ASSUME NEW s, Listed(t, s) PROVE Listed(q \o t, s)
  <2>1. PICK i \in 1..Len(t) : t[i].do = "List" /\ s \in t[i].sections
    BY <1>4 DEF Listed
  <2>2. Len(q) + i \in 1..Len(q \o t) /\ (q \o t)[Len(q) + i] = t[i]
    BY <1>1
  <2>. QED
    BY <2>1, <2>2 DEF Listed
<1>. QED
  BY <1>1, <1>2, <1>3, <1>4 DEF InOrder

LEMMA RemainingCalls ==
  ASSUME NEW q, InOrder(q), q # <<>>
  PROVE  /\ InOrder(Tail(q)) /\ Orderly(Head(q))
         /\ \A s : Listed(q, s) => \/ Listed(Tail(q), s)
                                   \/ Head(q).do = "List" /\ s \in Head(q).sections
<1>1. /\ IsList(Tail(q)) /\ Len(q) \in Nat \ {0} /\ Len(Tail(q)) = Len(q) - 1
      /\ Head(q) = q[1]
      /\ \A i \in 1..Len(Tail(q)) : Tail(q)[i] = q[i + 1]
  BY Remaining DEF InOrder
<1>2. ASSUME NEW i \in 1..Len(Tail(q)) PROVE Orderly(Tail(q)[i])
  <2>1. i + 1 \in 1..Len(q)
    BY <1>1
  <2>. QED
    BY <1>1, <2>1 DEF InOrder
<1>3. ASSUME NEW s, Listed(q, s), ~(Head(q).do = "List" /\ s \in Head(q).sections)
      PROVE  Listed(Tail(q), s)
  <2>1. PICK i \in 1..Len(q) : q[i].do = "List" /\ s \in q[i].sections
    BY <1>3 DEF Listed
  <2>2. i # 1
    BY <1>1, <1>3, <2>1
  <2>3. i - 1 \in 1..Len(Tail(q)) /\ Tail(q)[i - 1] = q[i]
    <3>1. i - 1 \in 1..Len(Tail(q)) /\ (i - 1) + 1 = i
      BY <1>1, <2>2
    <3>. QED
      BY <1>1, <3>1
  <2>. QED
    BY <2>1, <2>3 DEF Listed
<1>4. 1 \in 1..Len(q)
  BY <1>1
<1>. QED
  BY <1>1, <1>2, <1>3, <1>4 DEF InOrder

LEMMA OneCall ==
  ASSUME NEW call, Orderly(call)
  PROVE  /\ InOrder(<<call>>)
         /\ \A s : call.do = "List" /\ s \in call.sections => Listed(<<call>>, s)
<1>. SUFFICES ASSUME NEW q, q = <<call>>
              PROVE  /\ InOrder(q)
                     /\ \A s : call.do = "List" /\ s \in call.sections => Listed(q, s)
  OBVIOUS
<1>1. q \in Seq({call}) /\ Len(q) = 1 /\ q[1] = call
  OBVIOUS
<1>2. IsList(q)
  BY <1>1 DEF IsList
<1>3. 1..Len(q) = {1}
  BY <1>1
<1>. QED
  BY <1>1, <1>2, <1>3 DEF InOrder, Listed

LEMMA TwoCalls ==
  ASSUME NEW c, NEW d, Orderly(c), Orderly(d)
  PROVE  /\ InOrder(<<c, d>>)
         /\ \A s : /\ c.do = "List" /\ s \in c.sections => Listed(<<c, d>>, s)
                   /\ d.do = "List" /\ s \in d.sections => Listed(<<c, d>>, s)
<1>. SUFFICES ASSUME NEW q, q = <<c, d>>
              PROVE  /\ InOrder(q)
                     /\ \A s : /\ c.do = "List" /\ s \in c.sections => Listed(q, s)
                               /\ d.do = "List" /\ s \in d.sections => Listed(q, s)
  OBVIOUS
<1>1. q \in Seq({c, d}) /\ Len(q) = 2 /\ q[1] = c /\ q[2] = d
  OBVIOUS
<1>2. IsList(q)
  BY <1>1 DEF IsList
<1>3. 1..Len(q) = {1, 2}
  BY <1>1
<1>. QED
  BY <1>1, <1>2, <1>3 DEF InOrder, Listed

LEMMA NoCalls == InOrder(<<>>)
<1>1. <<>> \in Seq({}) /\ Len(<<>>) = 0
  OBVIOUS
<1>. QED
  BY <1>1 DEF InOrder, IsList

\* What the callbacks and the buttons put in the queue.
LEMMA FollowUps ==
  ASSUME NEW call, NEW ok, Orderly(call)
  PROVE  /\ InOrder(Follow(call, ok))
         /\ ok /\ call.then = "refresh" => Listed(Follow(call, ok), About(call.request))
<1>1. CASE call.then = "refresh" /\ ok
  <2>1. Follow(call, ok) = <<List({About(call.request)})>>
    BY <1>1 DEF Follow, Refresh
  <2>2. Orderly(List({About(call.request)}))
    BY DEF Orderly, List
  <2>. QED
    BY <2>1, <2>2, OneCall DEF List
<1>2. CASE ~(call.then = "refresh" /\ ok)
  <2>1. ASSUME NEW v, NEW s \in {"alerts", "daemon"}
        PROVE  Orderly(Ask([do |-> "Set", section |-> s, value |-> v], "report"))
    BY DEF Orderly, Ask, Proper
  <2>2. \/ Follow(call, ok) = <<>>
        \/ \E v : Follow(call, ok) = <<Ask([do |-> "Set", section |-> "alerts", value |-> v], "report")>>
        \/ \E v : Follow(call, ok) = <<Ask([do |-> "Set", section |-> "daemon", value |-> v], "report")>>
    <3>1. CASE call.then = "set" /\ call.section = "alerts"
      BY <1>2, <3>1 DEF Follow
    <3>2. CASE call.then = "set" /\ call.section = "daemon" /\ ok
      BY <1>2, <3>2 DEF Follow
    <3>3. CASE ~(call.then = "set" /\ call.section = "alerts")
               /\ ~(call.then = "set" /\ call.section = "daemon" /\ ok)
      BY <1>2, <3>3 DEF Follow
    <3>. QED
      BY <3>1, <3>2, <3>3
  <2>. QED
    BY <1>2, <2>1, <2>2, OneCall, NoCalls
<1>. QED
  BY <1>1, <1>2

LEMMA PressedCalls ==
  ASSUME NEW c \in Clicks
  PROVE  InOrder(Pressed(c))
<1>1. Proper(c) /\ c.do # "Import"
  BY ClicksAssumption
<1>2. CASE c.do = "SaveSettings"
  <2> DEFINE a == Ask([do |-> "SetSensorCalibration", offset |-> c.offset], "report")
             b == Get("alerts", c.watch)
             d == Get("daemon", c.poll)
  <2>1. Orderly(a) /\ Orderly(b) /\ Orderly(d)
    BY DEF Orderly, Ask, Get, Proper
  <2>2. Pressed(c) = <<a, b, d>>
    BY <1>2 DEF Pressed, SaveSettings
  <2> HIDE DEF a, b, d
  <2>. SUFFICES ASSUME NEW q, q = <<a, b, d>> PROVE InOrder(q)
    BY <2>2
  <2>3. q \in Seq({a, b, d}) /\ Len(q) = 3 /\ q[1] = a /\ q[2] = b /\ q[3] = d
    OBVIOUS
  <2>4. IsList(q)
    BY <2>3 DEF IsList
  <2>5. 1..Len(q) = {1, 2, 3}
    BY <2>3
  <2>. QED
    BY <2>1, <2>3, <2>4, <2>5 DEF InOrder
<1>3. CASE c.do # "SaveSettings"
  <2>1. PICK then \in {"report", "refresh"} : Pressed(c) = <<Ask(c, then)>>
    BY <1>3 DEF Pressed
  <2>2. Orderly(Ask(c, then))
    BY <1>1 DEF Orderly, Ask
  <2>. QED
    BY <2>1, <2>2, OneCall
<1>. QED
  BY <1>2, <1>3

LEMMA SupplementaryCalls ==
  /\ InOrder(Supplementary)
  /\ \A s \in Shown : Listed(Supplementary, s)
<1>1. Orderly(List({"profiles"})) /\ Orderly(List(Shown \ {"profiles"}))
  BY DEF Orderly, List
<1>. QED
  BY <1>1, TwoCalls DEF Supplementary, List

\* The first call is at the daemon, which answers it when its save has ended.
AtDaemon == asking => calls # <<>> /\ Head(calls).do = "Ask" /\ phase \in {"writing", "renaming"}

\* A section is up to date, or its list will be read, or read once the change
\* being made has been answered.
Refreshing(s) == asking /\ Head(calls).then = "refresh" /\ About(Head(calls).request) = s
Due(s) == shown[s] = Seen(cache)[s] \/ Listed(calls, s) \/ Refreshing(s)

PagesInv ==
  /\ InOrder(calls) /\ AtDaemon
  /\ shown = [s \in Shown |-> shown[s]]
  /\ linked => \A s \in Shown \ unseen : Due(s)

\* A callback takes the place of the first call.
LEMMA ReturnsKeeps ==
  ASSUME PagesInv, NEW ok, calls # <<>>, Returns(ok)
  PROVE  /\ InOrder(calls')
         /\ \A s : Listed(calls, s) => \/ Listed(calls', s)
                                       \/ Head(calls).do = "List" /\ s \in Head(calls).sections
         /\ ok /\ Head(calls).then = "refresh" => Listed(calls', About(Head(calls).request))
<1>1. /\ InOrder(Tail(calls)) /\ Orderly(Head(calls))
      /\ \A s : Listed(calls, s) => \/ Listed(Tail(calls), s)
                                    \/ Head(calls).do = "List" /\ s \in Head(calls).sections
  BY RemainingCalls DEF PagesInv
<1>2. calls' = Tail(calls) \o Follow(Head(calls), ok)
  BY DEF Returns
<1>3. /\ InOrder(Follow(Head(calls), ok))
      /\ ok /\ Head(calls).then = "refresh"
           => Listed(Follow(Head(calls), ok), About(Head(calls).request))
  BY <1>1, FollowUps
<1>4. /\ InOrder(calls')
      /\ \A s : Listed(Tail(calls), s) \/ Listed(Follow(Head(calls), ok), s) => Listed(calls', s)
  BY <1>1, <1>2, <1>3, JoinedCalls
<1>. QED
  BY <1>1, <1>3, <1>4

LEMMA ClickKeeps ==
  ASSUME PagesInv, NEW c \in Clicks, Click(c)
  PROVE  PagesInv'
<1>1. /\ InOrder(calls') /\ \A s : Listed(calls, s) => Listed(calls', s)
  BY PressedCalls, JoinedCalls DEF Click, PagesInv
<1>2. asking => calls' # <<>> /\ Head(calls') = Head(calls)
  <2>. SUFFICES ASSUME asking PROVE calls' # <<>> /\ Head(calls') = Head(calls)
    OBVIOUS
  <2>1. calls # <<>> /\ IsList(calls) /\ IsList(Pressed(c)) /\ calls' = calls \o Pressed(c)
    BY PressedCalls DEF Click, PagesInv, AtDaemon, InOrder
  <2>2. PICK S : calls \in Seq(S)
    BY <2>1 DEF IsList
  <2>3. PICK T : Pressed(c) \in Seq(T)
    BY <2>1 DEF IsList
  <2>4. calls \in Seq(S \cup T) /\ Pressed(c) \in Seq(S \cup T)
    BY <2>2, <2>3
  <2>. QED
    BY <2>1, <2>4
<1>3. UNCHANGED <<cache, phase, asking, linked, shown, unseen>>
  BY DEF Click, core
<1>4. AtDaemon'
  BY <1>2, <1>3 DEF PagesInv, AtDaemon
<1>5. \A s : Due(s) => Due(s)'
  BY <1>1, <1>2, <1>3 DEF Due, Refreshing, Seen
<1>. QED
  BY <1>1, <1>3, <1>4, <1>5 DEF PagesInv

LEMMA ConnectedKeeps ==
  ASSUME PagesInv, Connected
  PROVE  PagesInv'
<1>1. /\ InOrder(calls') /\ \A s : s \in Shown => Listed(calls', s)
  BY SupplementaryCalls, JoinedCalls DEF Connected, PagesInv
<1>2. AtDaemon'
  <2>. SUFFICES ASSUME asking
                PROVE  calls' # <<>> /\ Head(calls') = Head(calls)
    BY DEF PagesInv, AtDaemon, Connected, vars
  <2>1. calls # <<>> /\ IsList(calls) /\ IsList(Supplementary) /\ calls' = calls \o Supplementary
    BY SupplementaryCalls DEF Connected, PagesInv, AtDaemon, InOrder
  <2>2. PICK S : calls \in Seq(S)
    BY <2>1 DEF IsList
  <2>3. PICK T : Supplementary \in Seq(T)
    BY <2>1 DEF IsList
  <2>4. calls \in Seq(S \cup T) /\ Supplementary \in Seq(S \cup T)
    BY <2>2, <2>3
  <2>. QED
    BY <2>1, <2>4
<1>3. shown' = shown
  BY DEF Connected
<1>. QED
  BY <1>1, <1>2, <1>3 DEF PagesInv, Due

LEMMA UnreachableKeeps ==
  ASSUME PagesInv, Unreachable
  PROVE  PagesInv'
<1>1. /\ calls # <<>> /\ ~asking /\ Returns(FALSE) /\ unseen' = unseen \cup Unread(Head(calls))
      /\ UNCHANGED <<cache, phase, asking, linked, shown>>
  BY DEF Unreachable, vars
<1>2. /\ InOrder(calls')
      /\ \A s : Listed(calls, s) => \/ Listed(calls', s)
                                    \/ Head(calls).do = "List" /\ s \in Head(calls).sections
  BY <1>1, ReturnsKeeps
<1>3. ASSUME linked, NEW s \in Shown \ unseen' PROVE Due(s)'
  <2>1. Due(s) /\ ~Refreshing(s)
    BY <1>1, <1>3 DEF PagesInv, Refreshing
  <2>2. ~(Head(calls).do = "List" /\ s \in Head(calls).sections)
    BY <1>1, <1>3 DEF Unread
  <2>. QED
    BY <1>1, <1>2, <2>1, <2>2 DEF Due, Seen
<1>. QED
  BY <1>1, <1>2, <1>3 DEF PagesInv, AtDaemon

LEMMA ReadKeeps ==
  ASSUME PagesInv, Read
  PROVE  PagesInv'
<1>1. /\ calls # <<>> /\ ~asking /\ Returns(TRUE) /\ Head(calls).do \in {"List", "Get"}
      /\ UNCHANGED <<cache, phase, asking, linked>>
  BY DEF Read, Reachable, vars
<1>2. /\ InOrder(calls')
      /\ \A s : Listed(calls, s) => \/ Listed(calls', s)
                                    \/ Head(calls).do = "List" /\ s \in Head(calls).sections
  BY <1>1, ReturnsKeeps
<1> DEFINE seen == IF Head(calls).do = "List" THEN Head(calls).sections ELSE {}
<1>3. /\ shown' = [s \in Shown |-> IF s \in seen THEN Seen(cache)[s] ELSE shown[s]]
      /\ unseen' = unseen \ seen
  BY DEF Read
<1>4. ASSUME linked, NEW s \in Shown \ unseen' PROVE Due(s)'
  <2>1. CASE s \in seen
    <3>1. shown'[s] = Seen(cache)[s]
      BY <1>3, <2>1
    <3>. QED
      BY <1>1, <3>1 DEF Due, Seen
  <2>2. CASE s \notin seen
    <3>1. Due(s) /\ ~Refreshing(s) /\ shown'[s] = shown[s]
      BY <1>1, <1>3, <1>4, <2>2 DEF PagesInv, Refreshing
    <3>. QED
      BY <1>1, <1>2, <2>2, <3>1 DEF Due, Seen
  <2>. QED
    BY <2>1, <2>2
<1>. QED
  BY <1>1, <1>2, <1>3, <1>4 DEF PagesInv, AtDaemon

LEMMA DeniedKeeps ==
  ASSUME PagesInv, Denied
  PROVE  PagesInv'
<1>1. /\ calls # <<>> /\ ~asking /\ Returns(FALSE) /\ Head(calls).do = "Ask"
      /\ UNCHANGED <<cache, phase, asking, linked, shown, unseen>>
  BY DEF Denied, Reachable, vars
<1>2. /\ InOrder(calls') /\ \A s : Listed(calls, s) => Listed(calls', s)
  BY <1>1, ReturnsKeeps
<1>3. ASSUME linked, NEW s \in Shown \ unseen PROVE Due(s)'
  <2>1. Due(s) /\ ~Refreshing(s)
    BY <1>1, <1>3 DEF PagesInv, Refreshing
  <2>. QED
    BY <1>1, <1>2, <2>1 DEF Due, Seen
<1>. QED
  BY <1>1, <1>2, <1>3 DEF PagesInv, AtDaemon

LEMMA AcceptKeeps ==
  ASSUME IInv, PagesInv, Accept
  PROVE  PagesInv' /\ Proper(Head(calls).request) /\ Change(Head(calls).request)
<1> DEFINE r == Head(calls).request
           a == About(r)
<1>1. /\ calls # <<>> /\ ~asking /\ asking' /\ Head(calls).do = "Ask" /\ Change(r)
      /\ UNCHANGED <<calls, linked, unseen>>
      /\ shown' = IF Head(calls).then # "report" \/ a \notin Shown THEN shown
                  ELSE [shown EXCEPT ![a] = Seen(Cached(r))[a]]
  BY DEF Accept, Reachable
<1>2. Proper(r) /\ r.do # "Import" /\ Head(calls).then \in {"report", "refresh"}
  BY <1>1, RemainingCalls DEF PagesInv, Orderly
<1>3. /\ phase' = "writing" /\ cache' = Cached(r) /\ ~Refused(r)
  BY <1>1 DEF Change
<1> HIDE DEF r
<1>4. \A s \in Sections \ {a} : Cached(r)[s] = cache[s]
  BY <1>2, <1>3, CachedGroups DEF IInv
<1>5. Shown \subseteq Sections
  BY DEF Shown, Sections, Lists, Plain
<1>6. \A s \in Shown \ {a} : Seen(cache')[s] = Seen(cache)[s]
  BY <1>3, <1>4, <1>5 DEF Seen
<1>7. ASSUME linked, NEW s \in Shown \ unseen PROVE Due(s)'
  <2>1. Due(s) /\ ~Refreshing(s)
    BY <1>1, <1>7 DEF PagesInv, Refreshing
  <2>2. CASE s # a
    <3>1. shown'[s] = shown[s]
      BY <1>1, <2>2 DEF PagesInv
    <3>. QED
      BY <1>1, <1>6, <2>1, <2>2, <3>1 DEF Due
  <2>3. CASE s = a /\ Head(calls).then = "report"
    <3>1. shown'[s] = Seen(Cached(r))[s]
      BY <1>1, <2>3 DEF PagesInv
    <3>2. shown'[s] = Seen(cache')[s]
      BY <1>3, <3>1
    <3>. QED
      BY <3>2 DEF Due, Seen
  <2>4. CASE s = a /\ Head(calls).then = "refresh"
    <3>1. Refreshing(s)'
      BY <1>1, <2>4 DEF Refreshing, r, About
    <3>. QED
      BY <3>1 DEF Due
  <2>. QED
    BY <1>2, <2>2, <2>3, <2>4
<1>8. shown' = [s \in Shown |-> shown'[s]]
  BY <1>1 DEF PagesInv
<1>9. InOrder(calls') /\ AtDaemon'
  BY <1>1, <1>3 DEF PagesInv, AtDaemon
<1>. QED
  BY <1>1, <1>2, <1>7, <1>8, <1>9 DEF PagesInv, r

LEMMA TimesOutKeeps ==
  ASSUME PagesInv, TimesOut
  PROVE  PagesInv'
<1>1. /\ calls # <<>> /\ ~asking' /\ Returns(FALSE)
      /\ unseen' = unseen \cup Awaited(Head(calls))
      /\ UNCHANGED <<cache, phase, linked, shown>>
  BY DEF TimesOut, core
<1>2. /\ InOrder(calls')
      /\ \A s : Listed(calls, s) => \/ Listed(calls', s)
                                    \/ Head(calls).do = "List" /\ s \in Head(calls).sections
  BY <1>1, ReturnsKeeps
<1>3. ASSUME linked, NEW s \in Shown \ unseen' PROVE Due(s)'
  <2>1. Due(s)
    BY <1>1, <1>3 DEF PagesInv
  <2>2. ~(Head(calls).do = "List" /\ s \in Head(calls).sections)
    BY <1>1, <1>3 DEF Awaited
  <2>3. ~Refreshing(s)
    BY <1>1, <1>3 DEF Awaited, Refreshing, PagesInv, AtDaemon
  <2>. QED
    BY <1>1, <1>2, <2>1, <2>2, <2>3 DEF Due, Seen
<1>. QED
  BY <1>1, <1>2, <1>3 DEF PagesInv, AtDaemon

\* While a request is being saved the daemon's copy stays as it is.
LEMMA WhileSaving ==
  ASSUME phase \in {"writing", "renaming"}, Next
  PROVE  cache' = cache /\ phase' \in {"writing", "renaming", "idle", "down"}
<1>1. CASE Write \/ Rename \/ SaveFails \/ Crash
  BY <1>1 DEF Write, Rename, SaveFails, Crash, Done
<1>2. CASE Garble \/ CliLoad
  BY <1>2 DEF Garble, CliLoad, core
<1>3. ASSUME NEW s \in Edits, NEW v \in Values, Edit(s, v)
      PROVE  cache' = cache /\ phase' \in {"writing", "renaming", "idle", "down"}
  BY <1>3 DEF Edit
<1>4. ASSUME NEW v \in Values, CliSave(v)
      PROVE  cache' = cache /\ phase' \in {"writing", "renaming", "idle", "down"}
  BY <1>4 DEF CliSave
<1>. QED
  BY <1>1, <1>2, <1>3, <1>4 DEF Next, Change, Reload, Export, Stop, Poll, Discover, Boot

LEMMA ServerStepKeeps ==
  ASSUME PagesInv, ServerStep
  PROVE  PagesInv'
<1>1. Next /\ UNCHANGED shown
  BY DEF ServerStep
<1>2. asking => calls # <<>> /\ cache' = cache /\ phase' \in {"writing", "renaming", "idle", "down"}
  BY <1>1, WhileSaving DEF PagesInv, AtDaemon
<1>3. CASE phase' = "down" /\ Up
  <2>1. /\ ~linked' /\ ~asking'
        /\ (asking /\ Returns(FALSE)) \/ UNCHANGED calls
    BY <1>3 DEF ServerStep
  <2>2. InOrder(calls')
    BY <1>2, <2>1, ReturnsKeeps DEF PagesInv
  <2>. QED
    BY <1>1, <2>1, <2>2 DEF PagesInv, AtDaemon
<1>4. CASE ~(phase' = "down" /\ Up) /\ asking /\ phase' = "idle"
  <2>1. Returns(TRUE) /\ ~asking' /\ UNCHANGED <<linked, unseen>>
    BY <1>4 DEF ServerStep
  <2>2. Head(calls).do = "Ask"
    BY <1>4 DEF PagesInv, AtDaemon
  <2>3. /\ InOrder(calls') /\ \A s : Listed(calls, s) => Listed(calls', s)
        /\ Head(calls).then = "refresh" => Listed(calls', About(Head(calls).request))
    BY <1>2, <1>4, <2>1, <2>2, ReturnsKeeps
  <2>4. ASSUME linked, NEW s \in Shown \ unseen PROVE Due(s)'
    <3>1. Due(s)
      BY <2>4 DEF PagesInv
    <3>2. Refreshing(s) => Listed(calls', s)
      BY <2>3 DEF Refreshing
    <3>. QED
      BY <1>1, <1>2, <1>4, <2>3, <3>1, <3>2 DEF Due, Seen
  <2>. QED
    BY <1>1, <2>1, <2>3, <2>4 DEF PagesInv, AtDaemon
<1>5. CASE ~(phase' = "down" /\ Up) /\ ~(asking /\ phase' = "idle")
  <2>1. unseen' = unseen \cup Differing /\ UNCHANGED <<calls, asking, socket, linked>>
    BY <1>5 DEF ServerStep
  <2>2. AtDaemon'
    BY <1>2, <1>5, <2>1 DEF PagesInv, AtDaemon, Up
  <2>3. ASSUME linked, NEW s \in Shown \ unseen' PROVE Due(s)'
    <3>1. Due(s)
      BY <2>1, <2>3 DEF PagesInv
    <3>2. Seen(cache')[s] = Seen(cache)[s]
      BY <2>1, <2>3 DEF Differing
    <3>. QED
      BY <1>1, <2>1, <3>1, <3>2 DEF Due, Refreshing, About
  <2>. QED
    BY <1>1, <2>1, <2>2, <2>3 DEF PagesInv
<1>. QED
  BY <1>3, <1>4, <1>5

\* The pages ask the daemon as any client does, and change no more.
LEMMA IInvBesides ==
  ASSUME IInv,
         UNCHANGED <<core, cli, backup, answered, behind, unsaved, stale, asked, flapped>>
  PROVE  IInv'
<1>1. Shapes'
  BY DEF IInv, Shapes, Whole, core
<1>2. EngineFollows'
  BY DEF IInv, EngineFollows, Up, core
<1>3. RolesInv'
  BY DEF IInv, RolesInv, WishesCached, WishesShown, AskedAnswered, AskedOnDisk, RoleSurvives,
         HasRole, Wishes, Up, Entry, core
<1>. QED
  BY <1>1, <1>2, <1>3 DEF IInv

PagesIInv == IInv /\ KeptInv /\ PagesInv

LEMMA PagesStepKeeps == PagesIInv /\ [PagesNext]_allVars => PagesIInv'
<1>. SUFFICES ASSUME PagesIInv, [PagesNext]_allVars
              PROVE  PagesIInv'
  OBVIOUS
<1>1. ASSUME UNCHANGED <<core, cli, backup, answered, behind, unsaved, stale, asked, flapped>>
      PROVE  IInv' /\ KeptInv'
  BY <1>1, IInvBesides, KeptBesides DEF PagesIInv, core
<1>2. ASSUME NEW c \in Clicks, Click(c) PROVE PagesIInv'
  BY <1>1, <1>2, ClickKeeps DEF PagesIInv, Click
<1>3. CASE Connected
  BY <1>1, <1>3, ConnectedKeeps DEF PagesIInv, Connected, vars, core
<1>4. CASE Unreachable
  BY <1>1, <1>4, UnreachableKeeps DEF PagesIInv, Unreachable, vars, core
<1>5. CASE Read
  BY <1>1, <1>5, ReadKeeps DEF PagesIInv, Read, vars, core
<1>6. CASE Denied
  BY <1>1, <1>6, DeniedKeeps DEF PagesIInv, Denied, vars, core
<1>7. CASE Accept
  <2>1. PagesInv' /\ Proper(Head(calls).request) /\ Change(Head(calls).request)
    BY <1>7, AcceptKeeps DEF PagesIInv
  <2>2. IInv'
    BY <2>1, ChangeKeeps DEF PagesIInv
  <2>3. KeptInv'
    BY <2>1, SavingKeeps DEF PagesIInv, Change
  <2>. QED
    BY <2>1, <2>2, <2>3 DEF PagesIInv
<1>8. CASE TimesOut
  BY <1>1, <1>8, TimesOutKeeps DEF PagesIInv, TimesOut
<1>9. CASE ServerStep
  BY <1>9, ServerStepKeeps, StepKeeps, KeptStep DEF PagesIInv, IInv, ServerStep
<1>10. CASE UNCHANGED allVars
  <2>1. PagesInv'
    BY <1>10 DEF allVars, vars, pageVars, PagesIInv, PagesInv, AtDaemon, Due, Refreshing, Seen
  <2>. QED
    BY <1>1, <1>10, <2>1 DEF allVars, vars, core, PagesIInv
<1>. QED
  BY <1>2, <1>3, <1>4, <1>5, <1>6, <1>7, <1>8, <1>9, <1>10 DEF PagesNext

\* The window beside the daemon: the queue of the request thread holds the call for
\* every section that is not shown as it is, and the daemon is as without the window.
THEOREM PagesInductive == PagesSpec => []PagesIInv
<1>1. PagesInit => PagesIInv
  <2>. SUFFICES ASSUME PagesInit PROVE PagesIInv
    OBVIOUS
  <2>1. IInv /\ KeptInv
    BY StartEstablishes, StartKept DEF PagesInit
  <2>2. /\ shown = Seen(First) /\ cache = First /\ calls = <<>> /\ ~asking
    BY DEF PagesInit, Started
  <2>3. PagesInv
    BY <2>2, NoCalls DEF PagesInv, AtDaemon, Due, Seen
  <2>. QED
    BY <2>1, <2>3 DEF PagesIInv
<1>. QED
  BY <1>1, PagesStepKeeps, PTL DEF PagesSpec

\* When the request thread has nothing to do and the connection is reported, every
\* page shows what the daemon has, but for sections others changed and those whose
\* last call failed; for any clicks, requests, time-outs and restarts.
THEOREM PagesShowDaemonHolds == PagesSpec => []PagesShowDaemon
<1>1. PagesIInv => PagesShowDaemon
  <2>. SUFFICES ASSUME PagesInv, calls = <<>>, linked, phase = "idle", NEW s \in Shown \ unseen
                PROVE  shown[s] = Seen(cache)[s]
    BY DEF PagesIInv, PagesShowDaemon
  <2>1. Due(s) /\ ~asking
    BY DEF PagesInv, AtDaemon
  <2>2. ~Listed(calls, s)
    BY DEF Listed
  <2>. QED
    BY <2>1, <2>2 DEF Due, Refreshing
<1>. QED
  BY <1>1, PagesInductive, PTL

\* What the daemon keeps, it keeps beside the window too: answers survive, the runners
\* follow the configuration, and roles stay.
THEOREM KeptBesidePages ==
  PagesSpec => [](AnsweredSurvives /\ EngineFollows /\ RoleSurvives)
<1>1. PagesIInv => AnsweredSurvives /\ EngineFollows /\ RoleSurvives
  BY KeptSurvives DEF PagesIInv, IInv, RolesInv
<1>. QED
  BY <1>1, PagesInductive, PTL

=============================================================================
