------------------------------ MODULE ShowRunner ------------------------------
(***************************************************************************)
(* Playback of effect cycles and sequences by the daemon                   *)
(* (crates/frgb-daemon/src/show_runner.rs) with the requests that start,   *)
(* stop and edit them (handler.rs) and the engine tick that advances them. *)
(*                                                                         *)
(* A show is the data of an EffectCycle or Sequence: the durations of its  *)
(* steps and its Playback mode.  A step's scene is named by its show and   *)
(* its index.  A playback holds its own copy of the show (the Arc), so     *)
(* edits of the library do not reach it.                                   *)
(***************************************************************************)
EXTENDS Integers, Sequences, Functions

CONSTANTS
  Groups,        \* fan groups a request may name
  GroupLists,    \* the lists of groups a request may name
  Roles,         \* FanRole values, for requests that target a role
  RoleOf,        \* the role of each group (constant: SetRole is left out)
  Names,         \* names of sequences
  Cycles,        \* the shows SetEffectCycle requests carry
  Stories,    \* the shows that requests and the config file hold by name
  ProfileShows,  \* per name, the version found in a profile, or None
  Ticks,         \* time between two engine ticks
  MaxLag,        \* bound on step_elapsed (a late playback is never cut off)
  MaxRequests,   \* bound on the number of requests that start a show
  None

PlayModes == {"once", "loop", "pingpong", "count"}

Shows == Cycles \cup Stories

ASSUME ShowsAssumption ==
  \A s \in Shows : /\ s.dur \in Seq(Nat)
                   /\ s.play \in PlayModes
                   /\ s.count \in Nat

ASSUME RunnerAssumption ==
  /\ None \notin Shows
  /\ ProfileShows \in [Names -> Stories \cup {None}]
  /\ GroupLists \subseteq SUBSET Groups
  /\ RoleOf \in [Groups -> Roles]
  /\ Ticks \subseteq Nat \ {0} /\ Ticks # {}
  /\ MaxLag \in Nat /\ MaxRequests \in Nat

VARIABLES
  present,   \* groups the last discovery found (System::group_ids)
  library,   \* ShowRunner::sequences
  active,    \* ShowRunner::active, a map from groups to playbacks
  shown,     \* per group, the scene of its last StepAction
  asked,     \* number of start requests so far (for MaxRequests)
  clock,     \* history: per playing group, time since its first step, within
             \* the current round of an endless show, up to the total of others
  scenes     \* history: per group, scenes the playback of a finite show has shown

vars == <<present, library, active, shown, asked, clock, scenes>>

-----------------------------------------------------------------------------
(* Playbacks *)

Len0(s) == Len(s.dur)
Duration(s, i) == s.dur[i + 1]     \* indices are 0-based, as in the code

Scene(s, i) == [show |-> s, step |-> i]

Playback ==
  [show: Shows, idx: Nat, elapsed: Nat, dir: {1, -1}, left: Nat, first: BOOLEAN]

NewPlayback(s) ==
  [show |-> s, idx |-> 0, elapsed |-> 0, dir |-> 1,
   left |-> IF s.play = "count" THEN s.count ELSE 0, first |-> TRUE]

Inside(s, i) == 0 <= i /\ i < Len0(s)

\* The end of a round is reached: a one-step show is always there.
AtBoundary(pb) == Len0(pb.show) <= 1 \/ ~Inside(pb.show, pb.idx + pb.dir)

\* (mutant) a playback that owes a step at the end of a round gives up the rest
EndsBehind(pb) ==
  /\ AtBoundary(pb)
  /\ \/ pb.show.play = "once"
     \/ pb.show.play = "count" /\ (pb.left <= 1 \/ pb.elapsed >= Duration(pb.show, 0))

Ends(pb) ==
  /\ AtBoundary(pb)
  /\ pb.show.play = "once" \/ (pb.show.play = "count" /\ pb.left <= 1)

\* Bounces off an end; a one-step show stays where it is.
NextDir(pb) ==
  IF pb.show.play = "pingpong" /\ Len0(pb.show) > 1 /\ AtBoundary(pb)
    THEN -pb.dir ELSE pb.dir

NextLeft(pb) ==
  IF pb.show.play = "count" /\ AtBoundary(pb) THEN pb.left - 1 ELSE pb.left

BounceIdx(pb) ==
  IF Inside(pb.show, pb.idx - pb.dir) THEN pb.idx - pb.dir ELSE pb.idx

NextIdx(pb) ==
  IF ~AtBoundary(pb) THEN pb.idx + pb.dir
  ELSE IF Len0(pb.show) <= 1 THEN 0
  ELSE IF pb.show.play = "pingpong" THEN BounceIdx(pb)
  ELSE IF pb.dir > 0 THEN 0 ELSE Len0(pb.show) - 1

\* step_elapsed += elapsed, and at most one step of it is used up.
Spent(pb, e) == pb.elapsed + e

Due(pb, e) == Spent(pb, e) >= Duration(pb.show, pb.idx)

Finishes(pb, e) == ~pb.first /\ Due(pb, e) /\ Ends(pb)

Steps(pb, e) == pb.first \/ (Due(pb, e) /\ ~Ends(pb))

\* (mutant) time beyond the step's duration is dropped
AdvanceDropsRest(pb, e) ==
  IF pb.first THEN [pb EXCEPT !.first = FALSE]
  ELSE IF ~Due(pb, e) THEN [pb EXCEPT !.elapsed = Spent(pb, e)]
  ELSE [pb EXCEPT !.elapsed = 0, !.idx = NextIdx(pb), !.dir = NextDir(pb),
                  !.left = NextLeft(pb)]

\* The playback after a tick that does not finish it.  The first tick shows
\* step 0 and counts no time.
Advance(pb, e) ==
  IF pb.first THEN [pb EXCEPT !.first = FALSE]
  ELSE IF ~Due(pb, e) THEN [pb EXCEPT !.elapsed = Spent(pb, e)]
  ELSE [pb EXCEPT !.elapsed = Spent(pb, e) - Duration(pb.show, pb.idx),
                  !.idx = NextIdx(pb), !.dir = NextDir(pb),
                  !.left = NextLeft(pb)]

-----------------------------------------------------------------------------
(* The plan of a show, stated without the runner: the steps of one round in  *)
(* order, when each starts, and how many rounds there are.                   *)

Endless(s) == s.play \in {"loop", "pingpong"}

RoundSteps(s) ==
  IF s.play = "pingpong" /\ Len0(s) > 1 THEN 2 * (Len0(s) - 1) ELSE Len0(s)

Order(s, n) == IF n < Len0(s) THEN n ELSE 2 * (Len0(s) - 1) - n

StartTime(s, n) ==
  LET start[i \in 0 .. RoundSteps(s)] ==
        IF i = 0 THEN 0 ELSE start[i - 1] + Duration(s, Order(s, i - 1))
  IN  start[n]

RoundTime(s) == StartTime(s, RoundSteps(s))

PlannedRounds(s) == IF s.play = "count" /\ s.count > 1 THEN s.count ELSE 1

Total(s) == PlannedRounds(s) * RoundTime(s)

PlannedScenes(s) == PlannedRounds(s) * RoundSteps(s)

ScheduledAt(s, t) ==
  LET now == t % RoundTime(s)
      n   == CHOOSE k \in 0 .. RoundSteps(s) - 1 :
               StartTime(s, k) <= now /\ now < StartTime(s, k + 1)
  IN  Order(s, n)

\* Every tick fits into every step: the daemon's 50 ms loop with steps of 50 ms
\* or more.  Other shows fall behind the clock, one step per tick.
Paced(s) ==
  \A i \in 0 .. Len0(s) - 1 : \A e \in Ticks : e <= Duration(s, i)

-----------------------------------------------------------------------------
(* Requests and ticks *)

\* load_sequences: the configuration's sequences, then those of the profiles.
Libraries ==
  {lib \in [Names -> Stories \cup {None}] :
     \A n \in Names : lib[n] = None => ProfileShows[n] = None}

Init ==
  /\ present \in SUBSET Groups
  /\ library \in Libraries
  /\ active = [g \in {} |-> None]
  /\ shown = [g \in Groups |-> None]
  /\ asked = 0
  /\ clock = [g \in Groups |-> 0]
  /\ scenes = [g \in Groups |-> 0]

Playing == DOMAIN active

\* resolve_target_groups: what a request's target stands for at this moment.
Targets ==
  [kind: {"all"}] \cup [kind: {"groups"}, groups: GroupLists]
    \cup [kind: {"role"}, role: Roles]

Resolve(target) ==
  CASE target.kind = "all"    -> present
    [] target.kind = "groups" -> target.groups
    [] target.kind = "role"   -> {g \in present : RoleOf[g] = target.role}

\* start_cycle, start_sequence: a show without steps is ignored.
StartOn(groups, s) ==
  /\ asked < MaxRequests
  /\ asked' = asked + 1
  /\ IF s.dur = <<>>
       THEN UNCHANGED <<active, clock, scenes>>
       ELSE /\ active' = [g \in Playing \cup groups |->
                            IF g \in groups THEN NewPlayback(s) ELSE active[g]]
            /\ clock' = [g \in Groups |-> IF g \in groups THEN 0 ELSE clock[g]]
            /\ scenes' = [g \in Groups |-> IF g \in groups THEN 0 ELSE scenes[g]]
  /\ UNCHANGED <<present, library, shown>>

SetEffectCycle(s) == StartOn(present, s)

StartSequence(n, target) ==
  /\ library[n] # None
  /\ StartOn(Resolve(target), library[n])

\* ShowRunner::stop: an empty list of groups means all of them.
StopOn(groups) ==
  LET stopped == IF groups = {} THEN Playing ELSE groups
  IN  /\ active' = Restrict(active, Playing \ stopped)
      /\ UNCHANGED <<present, library, shown, asked, clock, scenes>>

StopSequence(target) == StopOn(Resolve(target))

StopAllSequences == StopOn({})

\* SaveSequence and DeleteSequence edit the configuration and rebuild the
\* library: a profile's version of the name shows through when the
\* configuration has none.
SaveSequence(n, s) ==
  /\ library' = [library EXCEPT ![n] = s]
  /\ UNCHANGED <<present, active, shown, asked, clock, scenes>>

DeleteSequence(n) ==
  /\ library' = [library EXCEPT ![n] = ProfileShows[n]]
  /\ UNCHANGED <<present, active, shown, asked, clock, scenes>>

\* ReloadConfig reads whatever the configuration file holds now.
ReloadConfig ==
  /\ library' \in Libraries
  /\ UNCHANGED <<present, active, shown, asked, clock, scenes>>

\* A discovery finds other groups; playbacks of vanished groups go on.
Discover ==
  /\ present' \in SUBSET Groups
  /\ UNCHANGED <<library, active, shown, asked, clock, scenes>>

Clock(g, e) ==
  LET s == active[g].show
      t == clock[g] + e
  IN  IF active[g].first THEN 0
      ELSE IF ~Endless(s) THEN IF t < Total(s) THEN t ELSE Total(s)
      ELSE IF RoundTime(s) > 0 THEN t % RoundTime(s) ELSE 0

\* One engine tick: every playback advances, the finished ones are removed.
Tick(e) ==
  LET finished == {g \in Playing : Finishes(active[g], e)}
      stepping == {g \in Playing : Steps(active[g], e)}
      next     == [g \in Playing \ finished |-> Advance(active[g], e)]
  IN  /\ Playing # {}
      /\ \A g \in DOMAIN next : next[g].elapsed <= MaxLag
      /\ active' = next
      /\ shown' = [g \in Groups |->
                     IF g \in stepping THEN Scene(next[g].show, next[g].idx)
                     ELSE shown[g]]
      /\ clock' = [g \in Groups |->
                     IF g \in Playing THEN Clock(g, e) ELSE clock[g]]
      /\ scenes' = [g \in Groups |->
                      IF g \in stepping /\ ~Endless(active[g].show)
                        THEN scenes[g] + 1 ELSE scenes[g]]
      /\ UNCHANGED <<present, library, asked>>

EngineTick == \E e \in Ticks : Tick(e)

Request ==
  \/ \E s \in Cycles : SetEffectCycle(s)
  \/ \E n \in Names, t \in Targets : StartSequence(n, t)
  \/ \E t \in Targets : StopSequence(t)
  \/ StopAllSequences
  \/ \E n \in Names, s \in Stories : SaveSequence(n, s)
  \/ \E n \in Names : DeleteSequence(n)
  \/ ReloadConfig

Next == EngineTick \/ Request \/ Discover

Spec == Init /\ [][Next]_vars

\* The daemon's main loop ticks the engine in every iteration.
FairSpec == Spec /\ WF_vars(EngineTick)

-----------------------------------------------------------------------------
TypeOK ==
  /\ present \subseteq Groups
  /\ library \in Libraries
  /\ Playing \subseteq Groups
  /\ \A g \in Playing : active[g] \in Playback
  /\ asked \in 0 .. MaxRequests
  /\ shown \in [Groups -> {None} \cup [show: Shows, step: Nat]]

\* advance and the Cycle/Sequence wrappers index steps[step_index] without a
\* check: whatever requests edit, stop or restart meanwhile, the index stays
\* inside the show being played, and what is shown is a step of that show.
IndexInRange ==
  \A g \in Playing :
    LET pb == active[g]
    IN  /\ Inside(pb.show, pb.idx)
        /\ ~pb.first => shown[g] = Scene(pb.show, pb.idx)

\* When ticks fit into steps, the runner never owes a step: what is left over
\* of step_elapsed is less than the current step, so advancing one step per
\* tick is enough.
NoBacklog ==
  \A g \in Playing :
    LET pb == active[g]
    IN  Paced(pb.show) => pb.elapsed < Duration(pb.show, pb.idx)

\* The scene a group shows is the one the show's plan has at this time since
\* its first step, whatever the sizes of the ticks were: no drift, no skipped
\* or repeated step, bounces and rounds included.  A finite show is never
\* kept beyond its plan.
OnSchedule ==
  \A g \in Playing :
    LET pb == active[g]
    IN  (~pb.first /\ Paced(pb.show)) =>
          /\ shown[g] = Scene(pb.show, ScheduledAt(pb.show, clock[g]))
          /\ ~Endless(pb.show) => clock[g] < Total(pb.show)

\* A playback that a tick ends was finite, had its whole time, and showed every
\* scene of every round once, the last one last, also when it had fallen behind and
\* its time was over long before (Playback: "Play once and stop on last frame/step",
\* "Loop N times then stop").
PlayedInFull ==
  [][EngineTick =>
       \A g \in Playing \ DOMAIN active' :
         LET s == active[g].show
         IN  /\ ~Endless(s)
             /\ clock'[g] >= Total(s)
             /\ scenes[g] = PlannedScenes(s)
             /\ shown'[g] = Scene(s, Order(s, RoundSteps(s) - 1))]_vars

\* Also a late playback shows every step: the next step is the next of its
\* plan or, at the end of a round, the first.
Successor(s, i, j) ==
  \/ j = i + 1 /\ Inside(s, j)
  \/ s.play = "pingpong" /\ j = i - 1 /\ Inside(s, j)
  \/ s.play # "pingpong" /\ i = Len0(s) - 1 /\ j = 0

NoStepSkipped ==
  [][\A g \in Playing \cap DOMAIN active' :
       (asked' = asked /\ active'[g].idx # active[g].idx) =>
         Successor(active[g].show, active[g].idx, active'[g].idx)]_vars

=============================================================================
