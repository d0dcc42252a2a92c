----------------------------- MODULE EngineProofs -----------------------------
(***************************************************************************)
(* Machine-checked facts about what a tick of the engine runs.  The show   *)
(* runner, for any groups, shows and tick sizes: its index, its pace, the  *)
(* steps it takes, and that it keeps to the plan of its show.  The         *)
(* schedules, for any entries, days and poll intervals, as long as a       *)
(* minute is no shorter than the spacing of the looks and the longest time *)
(* between two polls together: every entry is carried out in its minute.   *)
(* The LCD panels, for any panels, contents and requests: brightness and   *)
(* rotation arrive.  Liveness stays with the model checker.                *)
(***************************************************************************)
EXTENDS ShowRunner, Scheduler, LcdPanel, SequenceTheorems, FiniteSetTheorems,
        WellFoundedInduction, TLAPS

\* What holds of every playback between two ticks.
Sound(pb) ==
  /\ pb \in Playback
  /\ Inside(pb.show, pb.idx)
  /\ pb.show.play # "pingpong" => pb.dir = 1
  /\ Paced(pb.show) => pb.elapsed < Duration(pb.show, pb.idx)

IInv ==
  /\ TypeOK
  /\ \A g \in Playing :
       /\ Sound(active[g])
       /\ ~active[g].first => shown[g] = Scene(active[g].show, active[g].idx)

\* A show's length and durations are natural numbers.
LEMMA ShowFacts ==
  ASSUME NEW s \in Shows
  PROVE  /\ Len0(s) \in Nat
         /\ \A i \in Nat : Inside(s, i) => Duration(s, i) \in Nat
         /\ s.dur # <<>> => Inside(s, 0)
         /\ s.play \in PlayModes /\ s.count \in Nat
<1>1. s.dur \in Seq(Nat) /\ s.play \in PlayModes /\ s.count \in Nat
  BY ShowsAssumption
<1>2. Len0(s) \in Nat
  BY <1>1 DEF Len0
<1>3. ASSUME NEW i \in Nat, Inside(s, i) PROVE Duration(s, i) \in Nat
  BY <1>1, <1>3 DEF Inside, Len0, Duration
<1>4. s.dur # <<>> => Inside(s, 0)
  BY <1>1 DEF Inside, Len0
<1> QED BY <1>1, <1>2, <1>3, <1>4

\* A playback starts sound: a paced show has no step of duration 0.
LEMMA NewIsSound ==
  ASSUME NEW s \in Shows, s.dur # <<>>
  PROVE  Sound(NewPlayback(s)) /\ NewPlayback(s).first
<1>1. /\ Inside(s, 0) /\ Duration(s, 0) \in Nat /\ s.count \in Nat
      /\ Len0(s) \in Nat
  BY ShowFacts
<1>2. NewPlayback(s) \in Playback
  BY <1>1 DEF NewPlayback, Playback
<1>3. Paced(s) => 0 < Duration(s, 0)
  <2> SUFFICES ASSUME Paced(s) PROVE 0 < Duration(s, 0)
    OBVIOUS
  <2>1. PICK e \in Ticks : TRUE
    BY RunnerAssumption
  <2>2. e \in Nat /\ e > 0
    BY <2>1, RunnerAssumption
  <2>3. 0 \in 0 .. Len0(s) - 1
    BY <1>1 DEF Inside
  <2>4. e <= Duration(s, 0)
    BY <2>3 DEF Paced
  <2> QED BY <2>2, <2>4, <1>1
<1> QED BY <1>1, <1>2, <1>3 DEF Sound, NewPlayback

\* The index a due playback moves to is inside the show and next in its plan.
LEMMA NextIsInside ==
  ASSUME NEW pb, Sound(pb)
  PROVE  /\ NextIdx(pb) \in Nat /\ Inside(pb.show, NextIdx(pb))
         /\ NextIdx(pb) # pb.idx => Successor(pb.show, pb.idx, NextIdx(pb))
<1> DEFINE n == Len0(pb.show)
<1>1. /\ pb.show \in Shows /\ pb.idx \in Nat /\ pb.dir \in {1, -1}
      /\ n \in Nat /\ 0 <= pb.idx /\ pb.idx < n
      /\ pb.show.play # "pingpong" => pb.dir = 1
  BY ShowFacts DEF Sound, Playback, Inside
<1> HIDE DEF n
<1>2. CASE ~AtBoundary(pb)
  <2>1. NextIdx(pb) = pb.idx + pb.dir
    BY <1>2 DEF NextIdx
  <2>2. Inside(pb.show, pb.idx + pb.dir) /\ pb.idx + pb.dir \in Int
    BY <1>1, <1>2 DEF AtBoundary
  <2>3. pb.idx + pb.dir \in Nat
    BY <2>2, <1>1 DEF Inside, n
  <2>4. Successor(pb.show, pb.idx, pb.idx + pb.dir)
    <3>1. CASE pb.dir = 1
      BY <3>1, <2>2 DEF Successor
    <3>2. CASE pb.dir = -1
      <4>1. pb.show.play = "pingpong"
        BY <3>2, <1>1
      <4>2. pb.idx + pb.dir = pb.idx - 1
        BY <3>2, <1>1
      <4> QED BY <4>1, <4>2, <2>2 DEF Successor
    <3> QED BY <3>1, <3>2, <1>1
  <2> QED BY <2>1, <2>2, <2>3, <2>4
<1>3. CASE AtBoundary(pb) /\ n <= 1
  <2>1. NextIdx(pb) = 0 /\ pb.idx = 0
    BY <1>1, <1>3 DEF NextIdx, n
  <2> QED BY <2>1, <1>1 DEF Inside, n
<1>4. CASE AtBoundary(pb) /\ n > 1 /\ pb.show.play = "pingpong"
  <2>1. NextIdx(pb) = BounceIdx(pb)
    BY <1>1, <1>4 DEF NextIdx, n
  <2>2. ~(0 <= pb.idx + pb.dir /\ pb.idx + pb.dir < n)
    BY <1>1, <1>4 DEF AtBoundary, Inside, n
  <2>3. CASE pb.dir = 1
    <3>1. pb.idx = n - 1
      BY <2>2, <2>3, <1>1
    <3>2. pb.idx - pb.dir = n - 2 /\ n - 2 \in Nat /\ n - 2 < n
      BY <3>1, <2>3, <1>1, <1>4
    <3>3. NextIdx(pb) = pb.idx - 1 /\ NextIdx(pb) \in Nat
          /\ Inside(pb.show, NextIdx(pb))
      BY <2>1, <3>1, <3>2, <2>3 DEF BounceIdx, Inside, n
    <3> QED BY <3>3, <1>4 DEF Successor
  <2>4. CASE pb.dir = -1
    <3>1. pb.idx = 0
      BY <2>2, <2>4, <1>1
    <3>2. pb.idx - pb.dir = 1
      BY <3>1, <2>4
    <3>3. NextIdx(pb) = pb.idx + 1 /\ NextIdx(pb) \in Nat
          /\ Inside(pb.show, NextIdx(pb))
      BY <2>1, <3>1, <3>2, <1>1, <1>4 DEF BounceIdx, Inside, n
    <3> QED BY <3>3 DEF Successor
  <2> QED BY <2>3, <2>4, <1>1
<1>5. CASE AtBoundary(pb) /\ n > 1 /\ pb.show.play # "pingpong"
  <2>1. NextIdx(pb) = 0
    BY <1>1, <1>5 DEF NextIdx, n
  <2>2. ~(0 <= pb.idx + 1 /\ pb.idx + 1 < n)
    BY <1>1, <1>5 DEF AtBoundary, Inside, n
  <2>3. pb.idx = n - 1
    BY <2>2, <1>1
  <2> QED BY <2>1, <2>3, <1>1, <1>5 DEF Successor, Inside, n
<1> QED BY <1>1, <1>2, <1>3, <1>4, <1>5

\* The rounds left stay a natural number while the playback goes on.
LEMMA NextLeftIsNat ==
  ASSUME NEW pb, Sound(pb), ~Ends(pb)
  PROVE  NextLeft(pb) \in Nat
<1>1. pb.left \in Nat
  BY DEF Sound, Playback
<1>2. CASE pb.show.play = "count" /\ AtBoundary(pb)
  BY <1>1, <1>2 DEF NextLeft, Ends
<1>3. CASE ~(pb.show.play = "count" /\ AtBoundary(pb))
  BY <1>1, <1>3 DEF NextLeft
<1> QED BY <1>2, <1>3

\* A tick keeps a playback sound, and moves it, if at all, to the next step.
LEMMA AdvanceIsSound ==
  ASSUME NEW pb, Sound(pb), NEW e \in Ticks, ~Finishes(pb, e)
  PROVE  LET nx == Advance(pb, e)
         IN  /\ Sound(nx) /\ nx.show = pb.show /\ ~nx.first
             /\ nx.idx # pb.idx => Successor(pb.show, pb.idx, nx.idx)
             /\ ~Steps(pb, e) => nx.idx = pb.idx /\ ~pb.first
<1> DEFINE s == pb.show
           d == Duration(s, pb.idx)
           nx == Advance(pb, e)
<1>1. /\ pb \in Playback /\ s \in Shows /\ pb.idx \in Nat /\ pb.elapsed \in Nat
      /\ pb.dir \in {1, -1} /\ pb.left \in Nat /\ pb.first \in BOOLEAN
      /\ Inside(s, pb.idx) /\ d \in Nat
  BY ShowFacts DEF Sound, Playback
<1>2. e \in Nat
  BY RunnerAssumption
<1>3. Spent(pb, e) \in Nat /\ Spent(pb, e) = pb.elapsed + e
  BY <1>1, <1>2 DEF Spent
<1>4. CASE pb.first
  <2>1. nx = [pb EXCEPT !.first = FALSE]
    BY <1>4 DEF Advance
  <2>2. nx \in Playback /\ nx.show = s /\ nx.idx = pb.idx /\ ~nx.first
        /\ nx.dir = pb.dir /\ nx.elapsed = pb.elapsed
    BY <2>1, <1>1 DEF Playback
  <2>3. Sound(nx)
    BY <2>2 DEF Sound
  <2>4. Steps(pb, e)
    BY <1>4 DEF Steps
  <2> QED BY <2>2, <2>3, <2>4
<1>5. CASE ~pb.first /\ ~Due(pb, e)
  <2>1. nx = [pb EXCEPT !.elapsed = Spent(pb, e)]
    BY <1>5 DEF Advance
  <2>2. nx \in Playback /\ nx.show = s /\ nx.idx = pb.idx /\ ~nx.first
        /\ nx.dir = pb.dir /\ nx.elapsed = Spent(pb, e)
    BY <2>1, <1>1, <1>3, <1>5 DEF Playback
  <2>3. Spent(pb, e) < d
    BY <1>5, <1>1, <1>3 DEF Due
  <2>4. Sound(nx)
    BY <2>2, <2>3 DEF Sound
  <2> QED BY <2>2, <2>4, <1>5
<1>6. CASE ~pb.first /\ Due(pb, e)
  <2>1. ~Ends(pb)
    BY <1>6 DEF Finishes
  <2>2. nx = [pb EXCEPT !.elapsed = Spent(pb, e) - d, !.idx = NextIdx(pb),
                        !.dir = NextDir(pb), !.left = NextLeft(pb)]
    BY <1>6 DEF Advance
  <2>3. Spent(pb, e) - d \in Nat
    BY <1>6, <1>1, <1>3 DEF Due
  <2>4. NextIdx(pb) \in Nat /\ Inside(s, NextIdx(pb))
        /\ (NextIdx(pb) # pb.idx => Successor(s, pb.idx, NextIdx(pb)))
    BY NextIsInside
  <2>5. NextDir(pb) \in {1, -1} /\ (s.play # "pingpong" => NextDir(pb) = 1)
    BY <1>1 DEF NextDir, Sound
  <2>6. NextLeft(pb) \in Nat
    BY <2>1, NextLeftIsNat
  <2>7. nx \in Playback /\ nx.show = s /\ nx.idx = NextIdx(pb) /\ ~nx.first
        /\ nx.dir = NextDir(pb) /\ nx.elapsed = Spent(pb, e) - d
    BY <2>2, <2>3, <2>4, <2>5, <2>6, <1>1, <1>6 DEF Playback
  <2>8. Paced(s) => nx.elapsed < Duration(s, NextIdx(pb))
    <3> SUFFICES ASSUME Paced(s)
                 PROVE  Spent(pb, e) - d < Duration(s, NextIdx(pb))
      BY <2>7
    <3>1. pb.elapsed < d
      BY DEF Sound
    <3>2. NextIdx(pb) \in 0 .. Len0(s) - 1
      BY <2>4, <1>1, ShowFacts DEF Inside
    <3>3. e <= Duration(s, NextIdx(pb))
      BY <3>2 DEF Paced
    <3>4. Duration(s, NextIdx(pb)) \in Nat
      BY <2>4, <1>1, ShowFacts
    <3> QED BY <3>1, <3>3, <3>4, <1>1, <1>2, <1>3
  <2>9. Sound(nx)
    BY <2>4, <2>5, <2>7, <2>8 DEF Sound
  <2>10. Steps(pb, e)
    BY <1>6, <2>1 DEF Steps
  <2> QED BY <2>4, <2>7, <2>9, <2>10
<1> QED BY <1>4, <1>5, <1>6, <1>1

-----------------------------------------------------------------------------
LEMMA InitInv == Init => IInv
<1> SUFFICES ASSUME Init PROVE IInv
  OBVIOUS
<1>1. Playing = {}
  BY DEF Init, Playing
<1>2. TypeOK
  BY <1>1, RunnerAssumption DEF Init, TypeOK
<1> QED BY <1>1, <1>2 DEF IInv

\* Playbacks started on a set of groups join the sound ones.
LEMMA StartInv ==
  ASSUME IInv, NEW groups \in SUBSET Groups, NEW s \in Shows, StartOn(groups, s)
  PROVE  IInv'
<1>1. asked' \in 0 .. MaxRequests
  BY RunnerAssumption DEF StartOn, IInv, TypeOK
<1>2. UNCHANGED <<present, library, shown>>
  BY DEF StartOn
<1>3. CASE s.dur = <<>>
  <2>1. active' = active
    BY <1>3 DEF StartOn
  <2> QED BY <1>1, <1>2, <2>1 DEF IInv, TypeOK, Playing
<1>4. CASE s.dur # <<>>
  <2>1. active' = [g \in Playing \cup groups |->
                     IF g \in groups THEN NewPlayback(s) ELSE active[g]]
    BY <1>4 DEF StartOn
  <2>2. Playing' = Playing \cup groups
    BY <2>1 DEF Playing
  <2>3. ASSUME NEW g \in Playing'
        PROVE  /\ Sound(active'[g])
               /\ ~active'[g].first =>
                    shown'[g] = Scene(active'[g].show, active'[g].idx)
    <3>1. CASE g \in groups
      <4>1. active'[g] = NewPlayback(s)
        BY <2>1, <3>1
      <4> QED BY <4>1, <1>4, NewIsSound
    <3>2. CASE g \notin groups
      <4>1. g \in Playing /\ active'[g] = active[g]
        BY <2>1, <2>2, <2>3, <3>2
      <4> QED BY <4>1, <1>2 DEF IInv
    <3> QED BY <3>1, <3>2
  <2>4. Playing' \subseteq Groups
    BY <2>2 DEF IInv, TypeOK
  <2>5. \A g \in Playing' : active'[g] \in Playback
    BY <2>3 DEF Sound
  <2>6. TypeOK'
    BY <1>1, <1>2, <2>4, <2>5 DEF IInv, TypeOK
  <2> QED BY <2>3, <2>6 DEF IInv
<1> QED BY <1>3, <1>4

\* Removing playbacks disturbs none of the others.
LEMMA StopInv ==
  ASSUME IInv, NEW groups, StopOn(groups)
  PROVE  IInv'
<1> DEFINE stopped == IF groups = {} THEN Playing ELSE groups
<1>1. active' = [g \in Playing \ stopped |-> active[g]]
  BY DEF StopOn, Restrict
<1>2. UNCHANGED <<present, library, shown, asked>>
  BY DEF StopOn
<1>3. Playing' = Playing \ stopped
  BY <1>1 DEF Playing
<1>4. \A g \in Playing' : g \in Playing /\ active'[g] = active[g]
  BY <1>1, <1>3
<1>5. TypeOK'
  BY <1>2, <1>3, <1>4 DEF IInv, TypeOK
<1> QED BY <1>2, <1>4, <1>5 DEF IInv

LEMMA TickInv ==
  ASSUME IInv, NEW e \in Ticks, Tick(e)
  PROVE  IInv'
<1> DEFINE finished == {g \in Playing : Finishes(active[g], e)}
           stepping == {g \in Playing : Steps(active[g], e)}
<1>1. active' = [g \in Playing \ finished |-> Advance(active[g], e)]
  BY DEF Tick
<1>2. UNCHANGED <<present, library, asked>>
  BY DEF Tick
<1>3. Playing' = Playing \ finished
  BY <1>1 DEF Playing
<1>4. shown' = [g \in Groups |->
                  IF g \in stepping THEN Scene(active'[g].show, active'[g].idx)
                  ELSE shown[g]]
  BY <1>1 DEF Tick
<1>5. ASSUME NEW g \in Playing'
      PROVE  /\ g \in Playing /\ active'[g] = Advance(active[g], e)
             /\ Sound(active[g]) /\ ~Finishes(active[g], e)
             /\ Sound(active'[g])
             /\ shown'[g] = Scene(active'[g].show, active'[g].idx)
  <2>1. g \in Playing /\ active'[g] = Advance(active[g], e)
        /\ ~Finishes(active[g], e)
    BY <1>1, <1>3, <1>5
  <2>2. Sound(active[g]) /\ g \in Groups
        /\ (~active[g].first => shown[g] = Scene(active[g].show, active[g].idx))
    BY <2>1 DEF IInv, TypeOK
  <2>3. /\ Sound(active'[g]) /\ active'[g].show = active[g].show
        /\ ~Steps(active[g], e) =>
             active'[g].idx = active[g].idx /\ ~active[g].first
    BY <2>1, <2>2, AdvanceIsSound
  <2>4. CASE g \in stepping
    BY <1>4, <2>1, <2>2, <2>3, <2>4
  <2>5. CASE g \notin stepping
    <3>1. ~Steps(active[g], e)
      BY <2>1, <2>5
    <3>2. shown'[g] = shown[g]
      BY <1>4, <2>2, <2>5
    <3> QED BY <2>1, <2>2, <2>3, <3>1, <3>2
  <2> QED BY <2>1, <2>2, <2>3, <2>4, <2>5
<1>6. ASSUME NEW g \in Groups
      PROVE  shown'[g] \in {None} \cup [show: Shows, step: Nat]
  <2>1. CASE g \in stepping
    <3>1. Sound(active[g]) /\ g \in Playing /\ Steps(active[g], e)
      BY <2>1 DEF IInv
    <3>2. ~Finishes(active[g], e)
      BY <3>1 DEF Steps, Finishes
    <3>3. g \in Playing'
      BY <1>3, <3>1, <3>2
    <3>4. active'[g] \in Playback /\ shown'[g] = Scene(active'[g].show, active'[g].idx)
      BY <3>3, <1>5 DEF Sound
    <3> QED BY <3>4 DEF Playback, Scene
  <2>2. CASE g \notin stepping
    BY <1>4, <2>2 DEF IInv, TypeOK
  <2> QED BY <2>1, <2>2
<1>7. TypeOK'
  <2>1. shown' \in [Groups -> {None} \cup [show: Shows, step: Nat]]
    BY <1>4, <1>6
  <2>2. Playing' \subseteq Groups
    BY <1>3 DEF IInv, TypeOK
  <2>3. \A g \in Playing' : active'[g] \in Playback
    BY <1>5 DEF Sound
  <2> QED BY <1>2, <2>1, <2>2, <2>3 DEF IInv, TypeOK
<1> QED BY <1>5, <1>7 DEF IInv

\* Every target stands for groups.
LEMMA ResolveFacts ==
  ASSUME TypeOK, NEW t \in Targets
  PROVE  Resolve(t) \subseteq Groups
BY RunnerAssumption DEF TypeOK, Targets, Resolve

LEMMA StepInv == IInv /\ [Next]_vars => IInv'
<1> SUFFICES ASSUME IInv, [Next]_vars PROVE IInv'
  OBVIOUS
<1>0. TypeOK
  BY DEF IInv
<1>1. ASSUME NEW e \in Ticks, Tick(e) PROVE IInv'
  BY <1>1, TickInv
<1>2. ASSUME NEW s \in Cycles, SetEffectCycle(s) PROVE IInv'
  <2>1. present \in SUBSET Groups /\ s \in Shows
    BY <1>0 DEF TypeOK, Shows
  <2> QED BY <1>2, <2>1, StartInv DEF SetEffectCycle
<1>3. ASSUME NEW n \in Names, NEW t \in Targets, StartSequence(n, t)
      PROVE  IInv'
  <2>1. library[n] \in Shows
    BY <1>0, <1>3 DEF TypeOK, Libraries, StartSequence, Shows
  <2>2. Resolve(t) \in SUBSET Groups
    BY <1>0, ResolveFacts
  <2> QED BY <1>3, <2>1, <2>2, StartInv DEF StartSequence
<1>4. ASSUME NEW t \in Targets, StopSequence(t) PROVE IInv'
  BY <1>4, StopInv DEF StopSequence
<1>5. CASE StopAllSequences
  BY <1>5, StopInv DEF StopAllSequences
<1>6. ASSUME library' \in Libraries,
             UNCHANGED <<present, active, shown, asked, clock>>
      PROVE  IInv'
  BY <1>6 DEF IInv, TypeOK, Playing
<1>7. ASSUME NEW n \in Names, NEW s \in Stories, SaveSequence(n, s)
      PROVE  IInv'
  <2>1. library' \in Libraries
    BY <1>0, <1>7, RunnerAssumption DEF TypeOK, SaveSequence, Libraries, Shows
  <2> QED BY <1>6, <1>7, <2>1 DEF SaveSequence
<1>8. ASSUME NEW n \in Names, DeleteSequence(n) PROVE IInv'
  <2>1. library' \in Libraries
    BY <1>0, <1>8, RunnerAssumption DEF TypeOK, DeleteSequence, Libraries
  <2> QED BY <1>6, <1>8, <2>1 DEF DeleteSequence
<1>9. CASE ReloadConfig
  BY <1>6, <1>9 DEF ReloadConfig
<1>10. CASE Discover
  BY <1>10 DEF Discover, IInv, TypeOK, Playing
<1>11. CASE UNCHANGED vars
  BY <1>11 DEF vars, IInv, TypeOK, Playing
<1> QED
  BY <1>1, <1>2, <1>3, <1>4, <1>5, <1>7, <1>8, <1>9, <1>10, <1>11
  DEF Next, EngineTick, Request

\* IInv is an inductive invariant of the specification.
THEOREM Inductive == Spec => []IInv
BY InitInv, StepInv, PTL DEF Spec

\* Every variable of the program stays in its range.
THEOREM TypeCorrect == Spec => []TypeOK
<1>1. IInv => TypeOK
  BY DEF IInv
<1> QED BY <1>1, Inductive, PTL

\* No edit, restart or tick makes the runner index past its show's steps, and
\* the group shows the step the playback stands at.
THEOREM IndexStaysInRange == Spec => []IndexInRange
<1>1. IInv => IndexInRange
  BY DEF IInv, IndexInRange, Sound
<1> QED BY <1>1, Inductive, PTL

\* With ticks no longer than steps, one step per tick is enough: no playback
\* ever holds a full step's time in step_elapsed.
THEOREM NoBacklogHolds == Spec => []NoBacklog
<1>1. IInv => NoBacklog
  BY DEF IInv, NoBacklog, Sound
<1> QED BY <1>1, Inductive, PTL

\* With ticks of any length, a playback moves only to the next step of its
\* plan.
THEOREM NoStepIsSkipped == Spec => NoStepSkipped
<1> DEFINE Good ==
      \A g \in Playing \cap DOMAIN active' :
        (asked' = asked /\ active'[g].idx # active[g].idx) =>
          Successor(active[g].show, active[g].idx, active'[g].idx)
<1>1. ASSUME IInv, Next PROVE Good
  <2> SUFFICES ASSUME NEW g \in Playing, g \in DOMAIN active', asked' = asked,
                      active'[g].idx # active[g].idx
               PROVE  Successor(active[g].show, active[g].idx, active'[g].idx)
    OBVIOUS
  <2>1. ASSUME NEW e \in Ticks, Tick(e)
        PROVE  Successor(active[g].show, active[g].idx, active'[g].idx)
    <3>1. /\ active' = [h \in Playing \ {h \in Playing : Finishes(active[h], e)}
                         |-> Advance(active[h], e)]
      BY <2>1 DEF Tick
    <3>2. active'[g] = Advance(active[g], e) /\ ~Finishes(active[g], e)
      BY <3>1
    <3>3. Sound(active[g])
      BY <1>1 DEF IInv
    <3> QED BY <3>2, <3>3, AdvanceIsSound
  <2>2. ASSUME NEW groups, NEW s, StartOn(groups, s) PROVE FALSE
    BY <1>1, <2>2 DEF StartOn, IInv, TypeOK
  <2>3. ASSUME NEW groups, StopOn(groups) PROVE FALSE
    BY <2>3 DEF StopOn, Restrict
  <2>4. active' # active
    OBVIOUS
  <2> QED
    BY <1>1, <2>1, <2>2, <2>3, <2>4
    DEF Next, EngineTick, Request, Discover, SetEffectCycle, StartSequence,
        StopSequence, StopAllSequences, SaveSequence, DeleteSequence,
        ReloadConfig
<1>2. IInv /\ [Next]_vars => [Good]_vars
  BY <1>1
<1> QED BY <1>2, Inductive, PTL DEF Spec, NoStepSkipped

-----------------------------------------------------------------------------
\* A set of naturals that has 0, and n + 1 with every n, has them all.
LEMMA Induction ==
  ASSUME NEW T, 0 \in T, \A n \in Nat : n \in T => n + 1 \in T
  PROVE  Nat \subseteq T
<1> SUFFICES ASSUME ~(Nat \subseteq T) PROVE FALSE
  OBVIOUS
<1> DEFINE R == {ss \in Nat \X Nat : ss[1] < ss[2]}
           B == Nat \ T
<1>1. IsWellFoundedOn(R, Nat)
  BY NatLessThanWellFounded DEF OpToRel
<1>2. B \subseteq Nat /\ B # {}
  OBVIOUS
<1>3. PICK x \in B : \A y \in B : <<y, x>> \notin R
  <2> HIDE DEF R, B
  <2> QED BY <1>1, <1>2, WFMin
<1>4. x \in Nat /\ x # 0 /\ x - 1 \in Nat /\ x - 1 \in B
  OBVIOUS
<1>5. <<x - 1, x>> \in R
  BY <1>4
<1> QED BY <1>3, <1>4, <1>5

-----------------------------------------------------------------------------
(* The plan of a show. *)

\* The equation by which StartTime chooses its function.
StartEq(f, s) ==
  f = [i \in 0 .. RoundSteps(s) |->
         IF i = 0 THEN 0 ELSE f[i - 1] + Duration(s, Order(s, i - 1))]

\* A round has a number of steps, and every step of it is a step of the show.
LEMMA RoundFacts ==
  ASSUME NEW s \in Shows
  PROVE  /\ RoundSteps(s) \in Nat
         /\ \A n \in 0 .. RoundSteps(s) - 1 :
              /\ Order(s, n) \in Nat /\ Inside(s, Order(s, n))
              /\ Duration(s, Order(s, n)) \in Nat
<1> DEFINE len == Len0(s)
<1>1. len \in Nat
  BY ShowFacts
<1>2. RoundSteps(s) = IF s.play = "pingpong" /\ len > 1 THEN 2 * (len - 1) ELSE len
  BY DEF RoundSteps
<1> HIDE DEF len
<1>3. RoundSteps(s) \in Nat
  BY <1>1, <1>2
<1>4. ASSUME NEW n \in 0 .. RoundSteps(s) - 1
      PROVE  Order(s, n) \in Nat /\ Inside(s, Order(s, n))
  <2>1. Order(s, n) = IF n < len THEN n ELSE 2 * (len - 1) - n
    BY DEF Order, len
  <2>2. Order(s, n) \in Nat /\ 0 <= Order(s, n) /\ Order(s, n) < len
    BY <1>1, <1>2, <1>3, <2>1
  <2> QED BY <2>2 DEF Inside, len
<1>5. \A n \in 0 .. RoundSteps(s) - 1 : Duration(s, Order(s, n)) \in Nat
  BY <1>4, ShowFacts
<1> QED BY <1>3, <1>4, <1>5

LEMMA StartExists ==
  ASSUME NEW s \in Shows
  PROVE  \E f : StartEq(f, s)
<1> DEFINE N == RoundSteps(s)
           step(i) == Duration(s, Order(s, i))
           Upto(n, f) == f[0] = 0 /\ \A i \in 1 .. n : f[i] = f[i - 1] + step(i - 1)
           Some(n) == \E f \in [0 .. n -> Nat] : Upto(n, f)
           T == {n \in Nat : n <= N => Some(n)}
<1>1. N \in Nat /\ \A i \in 0 .. N - 1 : step(i) \in Nat
  BY RoundFacts
<1> HIDE DEF N, step
<1>2. Some(0)
  <2>1. [i \in 0 .. 0 |-> 0] \in [0 .. 0 -> Nat] /\ Upto(0, [i \in 0 .. 0 |-> 0])
    OBVIOUS
  <2> QED BY <2>1
<1>3. ASSUME NEW n \in Nat, n + 1 <= N, Some(n) PROVE Some(n + 1)
  <2>1. PICK f \in [0 .. n -> Nat] : Upto(n, f)
    BY <1>3
  <2> DEFINE g == [i \in 0 .. n + 1 |-> IF i = n + 1 THEN f[n] + step(n) ELSE f[i]]
  <2>2. f[n] \in Nat /\ step(n) \in Nat
    BY <1>1, <1>3
  <2>3. g \in [0 .. n + 1 -> Nat]
    BY <2>2
  <2>4. g[0] = 0
    BY <2>1
  <2>5. ASSUME NEW i \in 1 .. n + 1 PROVE g[i] = g[i - 1] + step(i - 1)
    <3>1. CASE i = n + 1
      BY <3>1
    <3>2. CASE i # n + 1
      <4>1. i \in 1 .. n /\ i - 1 \in 0 .. n /\ i - 1 # n + 1 /\ i \in 0 .. n + 1
        BY <3>2
      <4> QED BY <4>1, <2>1, <3>2
    <3> QED BY <3>1, <3>2
  <2> QED BY <2>3, <2>4, <2>5
<1>4. Some(N)
  <2> HIDE DEF Some
  <2>1. 0 \in T /\ \A n \in Nat : n \in T => n + 1 \in T
    BY <1>1, <1>2, <1>3
  <2> HIDE DEF T
  <2>2. N \in T
    BY <1>1, <2>1, Induction
  <2> QED BY <2>2 DEF T
<1>5. PICK f \in [0 .. N -> Nat] : Upto(N, f)
  BY <1>4
<1>6. \A i \in 0 .. N : f[i] = IF i = 0 THEN 0 ELSE f[i - 1] + step(i - 1)
  BY <1>1, <1>5
<1>7. f = [i \in 0 .. N |-> f[i]]
  BY <1>5
<1>8. f = [i \in 0 .. N |-> IF i = 0 THEN 0 ELSE f[i - 1] + step(i - 1)]
  BY <1>6, <1>7
<1>9. StartEq(f, s)
  BY <1>8 DEF StartEq, N, step
<1> QED BY <1>9

\* A step starts when those before it are over.
LEMMA StartTimes ==
  ASSUME NEW s \in Shows
  PROVE  /\ StartTime(s, 0) = 0
         /\ \A n \in 0 .. RoundSteps(s) - 1 :
              StartTime(s, n + 1) = StartTime(s, n) + Duration(s, Order(s, n))
<1> DEFINE f == CHOOSE g : StartEq(g, s)
<1>1. StartEq(f, s)
  BY StartExists
<1>2. ASSUME NEW n PROVE StartTime(s, n) = f[n]
  BY DEF StartTime, StartEq
<1> HIDE DEF f
<1>3. RoundSteps(s) \in Nat
  BY RoundFacts
<1>4. f[0] = 0
  BY <1>1, <1>3 DEF StartEq
<1>5. ASSUME NEW n \in 0 .. RoundSteps(s) - 1
      PROVE  f[n + 1] = f[n] + Duration(s, Order(s, n))
  <2>1. n + 1 \in 0 .. RoundSteps(s) /\ n + 1 # 0 /\ (n + 1) - 1 = n
    BY <1>3
  <2> QED BY <1>1, <2>1 DEF StartEq
<1> QED BY <1>2, <1>4, <1>5

LEMMA StartIsNat ==
  ASSUME NEW s \in Shows, NEW n \in 0 .. RoundSteps(s)
  PROVE  StartTime(s, n) \in Nat
<1> DEFINE P == {k \in Nat : k <= RoundSteps(s) => StartTime(s, k) \in Nat}
<1>1. RoundSteps(s) \in Nat /\ n \in Nat
  BY RoundFacts
<1>2. 0 \in P
  BY StartTimes
<1>3. ASSUME NEW k \in Nat, k \in P PROVE k + 1 \in P
  <2> SUFFICES ASSUME k + 1 <= RoundSteps(s) PROVE StartTime(s, k + 1) \in Nat
    OBVIOUS
  <2>1. k \in 0 .. RoundSteps(s) - 1 /\ StartTime(s, k) \in Nat
    BY <1>1, <1>3
  <2>2. Duration(s, Order(s, k)) \in Nat
    BY <2>1, RoundFacts
  <2>3. StartTime(s, k + 1) = StartTime(s, k) + Duration(s, Order(s, k))
    BY <2>1, StartTimes
  <2> QED BY <2>1, <2>2, <2>3
<1>4. Nat \subseteq P
  <2> HIDE DEF P
  <2> QED BY <1>2, <1>3, Induction
<1> QED BY <1>1, <1>4

\* Later steps start later, or together with steps of no duration.
LEMMA StartsInOrder ==
  ASSUME NEW s \in Shows, NEW m \in 0 .. RoundSteps(s), NEW n \in 0 .. RoundSteps(s), m <= n
  PROVE  StartTime(s, m) <= StartTime(s, n)
<1> DEFINE P == {k \in Nat : (m <= k /\ k <= RoundSteps(s)) => StartTime(s, m) <= StartTime(s, k)}
<1>1. RoundSteps(s) \in Nat /\ n \in Nat /\ m \in Nat /\ StartTime(s, m) \in Nat
  BY RoundFacts, StartIsNat
<1>2. 0 \in P
  BY <1>1
<1>3. ASSUME NEW k \in Nat, k \in P PROVE k + 1 \in P
  <2> SUFFICES ASSUME m <= k + 1, k + 1 <= RoundSteps(s)
               PROVE  StartTime(s, m) <= StartTime(s, k + 1)
    OBVIOUS
  <2>1. CASE m = k + 1
    BY <2>1, <1>1
  <2>2. CASE m # k + 1
    <3>1. k \in 0 .. RoundSteps(s) - 1 /\ k \in 0 .. RoundSteps(s)
          /\ StartTime(s, m) <= StartTime(s, k)
      BY <1>1, <1>3, <2>2
    <3>2. Duration(s, Order(s, k)) \in Nat /\ StartTime(s, k) \in Nat
      BY <3>1, RoundFacts, StartIsNat
    <3>3. StartTime(s, k + 1) = StartTime(s, k) + Duration(s, Order(s, k))
      BY <3>1, StartTimes
    <3> QED BY <3>1, <3>2, <3>3, <1>1
  <2> QED BY <2>1, <2>2
<1>4. Nat \subseteq P
  <2> HIDE DEF P
  <2> QED BY <1>2, <1>3, Induction
<1> QED BY <1>1, <1>4

\* Whole rounds drop out of the remainder.
LEMMA WholeRounds ==
  ASSUME NEW k \in Nat, NEW r \in Nat, NEW a \in Nat, a < r
  PROVE  (k * r + a) % r = a
<1> DEFINE t == k * r + a
           q == t \div r
<1>1. r \in Nat \ {0} /\ k * r \in Nat /\ t \in Nat
  OBVIOUS
<1>2. q \in Nat /\ t = q * r + (t % r) /\ t % r \in 0 .. r - 1
  BY <1>1
<1>3. q = k
  <2> HIDE DEF q
  <2>1. CASE q < k
    <3>1. PICK d \in Nat : k = q + 1 + d
      <4>1. k - q - 1 \in Nat /\ k = q + 1 + (k - q - 1)
        BY <1>2, <2>1
      <4> QED BY <4>1
    <3>2. k * r = q * r + r + d * r /\ d * r \in Nat /\ q * r \in Nat
      BY <1>2, <3>1
    <3>3. t % r = r + d * r + a
      BY <3>2, <1>1, <1>2
    <3> QED BY <3>2, <3>3, <1>2
  <2>2. CASE k < q
    <3>1. PICK d \in Nat : q = k + 1 + d
      <4>1. q - k - 1 \in Nat /\ q = k + 1 + (q - k - 1)
        BY <1>2, <2>2
      <4> QED BY <4>1
    <3>2. q * r = k * r + r + d * r /\ d * r \in Nat
      BY <1>2, <3>1
    <3>3. a = r + d * r + (t % r)
      BY <3>2, <1>1, <1>2
    <3> QED BY <3>2, <3>3, <1>2
  <2> QED BY <2>1, <2>2, <1>2
<1> QED BY <1>1, <1>2, <1>3

\* More rounds take no less time.
LEMMA MoreRounds ==
  ASSUME NEW m \in Nat, NEW n \in Nat, NEW r \in Nat, m <= n
  PROVE  m * r <= n * r /\ m * r \in Nat /\ (m + 1) * r = m * r + r
<1>1. n - m \in Nat /\ n = m + (n - m)
  OBVIOUS
<1>2. PICK d \in Nat : n = m + d
  BY <1>1
<1>3. n * r = m * r + d * r /\ d * r \in Nat /\ m * r \in Nat /\ (m + 1) * r = m * r + r
  BY <1>2
<1> QED BY <1>3

\* At a time within a step of the round, in any round, the plan has that step.
LEMMA PlanAt ==
  ASSUME NEW s \in Shows, NEW n \in 0 .. RoundSteps(s) - 1, NEW k \in Nat,
         NEW a \in Nat, a < Duration(s, Order(s, n))
  PROVE  /\ StartTime(s, n) + a < RoundTime(s)
         /\ ScheduledAt(s, k * RoundTime(s) + (StartTime(s, n) + a)) = Order(s, n)
<1> DEFINE R == RoundTime(s)
           b == StartTime(s, n) + a
           At(i) == StartTime(s, i) <= b /\ b < StartTime(s, i + 1)
<1>1. RoundSteps(s) \in Nat /\ n \in Nat /\ n + 1 \in 0 .. RoundSteps(s)
      /\ n \in 0 .. RoundSteps(s) /\ RoundSteps(s) \in 0 .. RoundSteps(s)
      /\ n + 1 <= RoundSteps(s)
  BY RoundFacts
<1>2. StartTime(s, n) \in Nat /\ StartTime(s, n + 1) \in Nat /\ R \in Nat
      /\ Duration(s, Order(s, n)) \in Nat
  BY <1>1, StartIsNat, RoundFacts DEF RoundTime
<1>3. StartTime(s, n + 1) = StartTime(s, n) + Duration(s, Order(s, n))
  BY StartTimes
<1>4. StartTime(s, n + 1) <= R
  BY <1>1, StartsInOrder DEF RoundTime
<1>5. b \in Nat /\ At(n) /\ b < R
  BY <1>2, <1>3, <1>4
<1>6. ASSUME NEW i \in 0 .. RoundSteps(s) - 1, At(i) PROVE i = n
  <2>1. i \in Nat /\ i \in 0 .. RoundSteps(s) /\ i + 1 \in 0 .. RoundSteps(s)
    BY <1>1
  <2>2. StartTime(s, i) \in Nat /\ StartTime(s, i + 1) \in Nat
    BY <2>1, StartIsNat
  <2>3. CASE i < n
    <3>1. StartTime(s, i + 1) <= StartTime(s, n)
      BY <1>1, <2>1, <2>3, StartsInOrder
    <3> QED BY <3>1, <1>6, <1>2, <2>2
  <2>4. CASE n < i
    <3>1. StartTime(s, n + 1) <= StartTime(s, i)
      BY <1>1, <2>1, <2>4, StartsInOrder
    <3> QED BY <3>1, <1>6, <1>5, <1>2, <2>2
  <2> QED BY <2>1, <2>3, <2>4, <1>1
<1>7. (CHOOSE i \in 0 .. RoundSteps(s) - 1 : At(i)) = n
  BY <1>5, <1>6
<1>8. (k * R + b) % R = b
  <2> HIDE DEF R, b
  <2> QED BY <1>2, <1>5, WholeRounds
<1>9. ScheduledAt(s, k * R + b)
        = Order(s, CHOOSE i \in 0 .. RoundSteps(s) - 1 :
                     /\ StartTime(s, i) <= (k * R + b) % R
                     /\ (k * R + b) % R < StartTime(s, i + 1))
  BY DEF ScheduledAt
<1>10. ScheduledAt(s, k * R + b) = Order(s, n)
  BY <1>7, <1>8, <1>9
<1> QED BY <1>5, <1>10

-----------------------------------------------------------------------------
(* Where a playback stands in its plan. *)

\* The place of its step in the round: on the way back of a bouncing show the
\* places go on beyond those of the way there.
Pos(pb) ==
  IF pb.dir = -1 /\ pb.idx > 0 THEN 2 * (Len0(pb.show) - 1) - pb.idx ELSE pb.idx

\* The rounds a counted show has behind it.
Rounds(pb) ==
  IF pb.show.play = "count" /\ pb.show.count > 1 THEN pb.show.count - pb.left ELSE 0

LEMMA PosFacts ==
  ASSUME NEW pb, Sound(pb)
  PROVE  Pos(pb) \in 0 .. RoundSteps(pb.show) - 1 /\ Order(pb.show, Pos(pb)) = pb.idx
<1> DEFINE n == Len0(pb.show)
<1>1. /\ pb.show \in Shows /\ pb.idx \in Nat /\ pb.dir \in {1, -1}
      /\ n \in Nat /\ 0 <= pb.idx /\ pb.idx < n
      /\ pb.show.play # "pingpong" => pb.dir = 1
  BY ShowFacts DEF Sound, Playback, Inside
<1>2. RoundSteps(pb.show) = IF pb.show.play = "pingpong" /\ n > 1 THEN 2 * (n - 1) ELSE n
  BY DEF RoundSteps
<1>3. Pos(pb) = IF pb.dir = -1 /\ pb.idx > 0 THEN 2 * (n - 1) - pb.idx ELSE pb.idx
  BY DEF Pos
<1>4. Order(pb.show, Pos(pb)) = IF Pos(pb) < n THEN Pos(pb) ELSE 2 * (n - 1) - Pos(pb)
  BY DEF Order
<1> HIDE DEF n
<1>5. CASE pb.dir = -1 /\ pb.idx > 0
  <2>1. pb.show.play = "pingpong" /\ n > 1
    BY <1>1, <1>5
  <2>2. Pos(pb) = 2 * (n - 1) - pb.idx /\ RoundSteps(pb.show) = 2 * (n - 1)
    BY <1>2, <1>3, <1>5, <2>1
  <2> QED BY <1>1, <1>4, <1>5, <2>2
<1>6. CASE ~(pb.dir = -1 /\ pb.idx > 0)
  <2>1. Pos(pb) = pb.idx
    BY <1>3, <1>6
  <2>2. pb.idx < RoundSteps(pb.show) /\ RoundSteps(pb.show) \in Nat
    BY <1>1, <1>2
  <2> QED BY <1>1, <1>4, <2>1, <2>2
<1> QED BY <1>5, <1>6

\* A due playback takes the next place of the round, or the first one.
LEMMA NextPlace ==
  ASSUME NEW pb, Sound(pb), NEW nx, nx.show = pb.show,
         nx.idx = NextIdx(pb), nx.dir = NextDir(pb)
  PROVE  \/ Pos(nx) = Pos(pb) + 1
         \/ Pos(nx) = 0 /\ Pos(pb) + 1 = RoundSteps(pb.show)
<1> DEFINE n == Len0(pb.show)
<1>1. /\ pb.show \in Shows /\ pb.idx \in Nat /\ pb.dir \in {1, -1}
      /\ n \in Nat /\ 0 <= pb.idx /\ pb.idx < n
      /\ pb.show.play # "pingpong" => pb.dir = 1
  BY ShowFacts DEF Sound, Playback, Inside
<1>2. RoundSteps(pb.show) = IF pb.show.play = "pingpong" /\ n > 1 THEN 2 * (n - 1) ELSE n
  BY DEF RoundSteps
<1>3. /\ Pos(pb) = IF pb.dir = -1 /\ pb.idx > 0 THEN 2 * (n - 1) - pb.idx ELSE pb.idx
      /\ Pos(nx) = IF NextDir(pb) = -1 /\ NextIdx(pb) > 0
                     THEN 2 * (n - 1) - NextIdx(pb) ELSE NextIdx(pb)
  BY DEF Pos
<1>4. /\ AtBoundary(pb) <=> n <= 1 \/ ~(0 <= pb.idx + pb.dir /\ pb.idx + pb.dir < n)
      /\ BounceIdx(pb) = IF 0 <= pb.idx - pb.dir /\ pb.idx - pb.dir < n
                           THEN pb.idx - pb.dir ELSE pb.idx
      /\ NextIdx(pb) = IF ~AtBoundary(pb) THEN pb.idx + pb.dir
                        ELSE IF n <= 1 THEN 0
                        ELSE IF pb.show.play = "pingpong" THEN BounceIdx(pb)
                        ELSE IF pb.dir > 0 THEN 0 ELSE n - 1
      /\ NextDir(pb) = IF pb.show.play = "pingpong" /\ n > 1 /\ AtBoundary(pb)
                         THEN -pb.dir ELSE pb.dir
  BY DEF AtBoundary, Inside, BounceIdx, NextIdx, NextDir
<1> HIDE DEF n
<1>5. CASE ~AtBoundary(pb)
  <2>1. NextIdx(pb) = pb.idx + pb.dir /\ NextDir(pb) = pb.dir /\ n > 1
    BY <1>1, <1>4, <1>5
  <2>2. CASE pb.dir = 1
    BY <1>1, <1>3, <2>1, <2>2
  <2>3. CASE pb.dir = -1
    <3>1. pb.show.play = "pingpong" /\ pb.idx > 0
      BY <1>1, <1>4, <1>5, <2>3
    <3> QED BY <1>1, <1>2, <1>3, <2>1, <2>3, <3>1
  <2> QED BY <1>1, <2>2, <2>3
<1>6. CASE AtBoundary(pb) /\ n <= 1
  BY <1>1, <1>2, <1>3, <1>4, <1>6
<1>7. CASE AtBoundary(pb) /\ n > 1 /\ pb.show.play # "pingpong"
  BY <1>1, <1>2, <1>3, <1>4, <1>7
<1>8. CASE AtBoundary(pb) /\ n > 1 /\ pb.show.play = "pingpong"
  <2>1. NextDir(pb) = -pb.dir /\ NextIdx(pb) = BounceIdx(pb)
    BY <1>1, <1>4, <1>8
  <2>2. CASE pb.dir = 1
    <3>1. pb.idx = n - 1 /\ BounceIdx(pb) = n - 2
      BY <1>1, <1>4, <1>8, <2>2
    <3> QED BY <1>1, <1>2, <1>3, <1>8, <2>1, <2>2, <3>1
  <2>3. CASE pb.dir = -1
    <3>1. pb.idx = 0 /\ BounceIdx(pb) = 1
      BY <1>1, <1>4, <1>8, <2>3
    <3> QED BY <1>1, <1>2, <1>3, <1>8, <2>1, <2>3, <3>1
  <2> QED BY <1>1, <2>2, <2>3
<1> QED BY <1>1, <1>5, <1>6, <1>7, <1>8

\* A show that goes one way is at the end of its round exactly at its last step.
LEMMA LastPlace ==
  ASSUME NEW pb, Sound(pb), pb.show.play # "pingpong"
  PROVE  AtBoundary(pb) <=> Pos(pb) + 1 = RoundSteps(pb.show)
<1> DEFINE n == Len0(pb.show)
<1>1. /\ pb.show \in Shows /\ pb.idx \in Nat /\ pb.dir = 1
      /\ n \in Nat /\ 0 <= pb.idx /\ pb.idx < n
  BY ShowFacts DEF Sound, Playback, Inside
<1>2. RoundSteps(pb.show) = n /\ Pos(pb) = pb.idx
  BY <1>1 DEF RoundSteps, Pos
<1>3. AtBoundary(pb) <=> n <= 1 \/ ~(0 <= pb.idx + pb.dir /\ pb.idx + pb.dir < n)
  BY DEF AtBoundary, Inside
<1> HIDE DEF n
<1> QED BY <1>1, <1>2, <1>3

-----------------------------------------------------------------------------
(* The clock of a playback. *)

AtMost(t, n) == IF t < n THEN t ELSE n

\* The time a playback has used up since its first step.
Played(pb) ==
  Rounds(pb) * RoundTime(pb.show) + StartTime(pb.show, Pos(pb)) + pb.elapsed

\* The clock tells where the playback stands: within the round of an endless
\* show that keeps up, and in the whole plan of any finite one, also a late one.
Timed(pb, t) ==
  /\ pb.first => pb = NewPlayback(pb.show)
  /\ pb.show.play = "count" =>
       IF pb.show.count > 1 THEN pb.left \in 1 .. pb.show.count
                            ELSE pb.left = pb.show.count
  /\ Endless(pb.show) /\ Paced(pb.show) => t = StartTime(pb.show, Pos(pb)) + pb.elapsed
  /\ ~Endless(pb.show) => t = AtMost(Played(pb), Total(pb.show))

TimeInv ==
  /\ clock \in [Groups -> Nat]
  /\ \A g \in Playing : Timed(active[g], clock[g])

LEMMA TotalFacts ==
  ASSUME NEW s \in Shows
  PROVE  /\ RoundTime(s) \in Nat /\ Total(s) \in Nat
         /\ s.play = "count" /\ s.count > 1 => Total(s) = s.count * RoundTime(s)
         /\ ~(s.play = "count" /\ s.count > 1) => Total(s) = RoundTime(s)
<1>1. RoundSteps(s) \in 0 .. RoundSteps(s) /\ s.count \in Nat
  BY RoundFacts, ShowFacts
<1>2. RoundTime(s) \in Nat
  BY <1>1, StartIsNat DEF RoundTime
<1>3. s.count * RoundTime(s) \in Nat /\ 1 * RoundTime(s) = RoundTime(s)
  BY <1>1, <1>2
<1> QED BY <1>2, <1>3 DEF Total, PlannedRounds

\* Rounds(pb) is a number of rounds short of the last one.
LEMMA RoundsFacts ==
  ASSUME NEW pb, Sound(pb), NEW t, Timed(pb, t), ~Endless(pb.show)
  PROVE  /\ Rounds(pb) \in Nat
         /\ (Rounds(pb) + 1) * RoundTime(pb.show) <= Total(pb.show)
         /\ (pb.show.play # "count" \/ pb.left <= 1) =>
              (Rounds(pb) + 1) * RoundTime(pb.show) = Total(pb.show)
<1> DEFINE s == pb.show
           R == RoundTime(s)
<1>1. s \in Shows /\ pb.left \in Nat /\ s.count \in Nat
  BY ShowFacts DEF Sound, Playback
<1>2. R \in Nat
  BY <1>1, TotalFacts
<1>3. CASE s.play = "count" /\ s.count > 1
  <2>1. Total(s) = s.count * R
    BY <1>1, <1>3, TotalFacts
  <2>2. pb.left \in 1 .. s.count /\ Rounds(pb) = s.count - pb.left
    BY <1>3 DEF Timed, Rounds
  <2>3. Rounds(pb) \in Nat /\ Rounds(pb) + 1 \in Nat /\ Rounds(pb) + 1 <= s.count
        /\ (pb.left <= 1 => Rounds(pb) + 1 = s.count)
    BY <1>1, <2>2
  <2> HIDE DEF R
  <2>4. (Rounds(pb) + 1) * R <= s.count * R
    BY <1>1, <1>2, <2>3, MoreRounds
  <2>5. pb.left <= 1 => (Rounds(pb) + 1) * R = s.count * R
    BY <2>3
  <2> QED BY <1>3, <2>1, <2>3, <2>4, <2>5 DEF R
<1>4. CASE ~(s.play = "count" /\ s.count > 1)
  <2>1. Total(s) = R /\ Rounds(pb) = 0
    BY <1>1, <1>4, TotalFacts DEF Rounds
  <2>2. (0 + 1) * R = R
    BY <1>2
  <2> QED BY <1>2, <2>1, <2>2
<1> QED BY <1>3, <1>4

\* A playback that stands at the beginning of its show has used no time.
LEMMA BeginningIsTimed ==
  ASSUME NEW s \in Shows, NEW pb, pb.show = s, pb.idx = 0, pb.dir = 1,
         pb.elapsed = 0, pb.left = IF s.play = "count" THEN s.count ELSE 0,
         pb.first => pb = NewPlayback(s)
  PROVE  Timed(pb, 0)
<1>1. RoundTime(s) \in Nat /\ Total(s) \in Nat /\ s.count \in Nat
  BY TotalFacts, ShowFacts
<1>2. Pos(pb) = 0 /\ StartTime(s, 0) = 0
  BY StartTimes DEF Pos
<1>3. Rounds(pb) = 0
  BY <1>1 DEF Rounds
<1>4. 0 * RoundTime(s) = 0
  BY <1>1
<1>5. Played(pb) = 0
  BY <1>2, <1>3, <1>4 DEF Played
<1>6. AtMost(0, Total(s)) = 0
  BY <1>1 DEF AtMost
<1>7. s.play = "count" => IF s.count > 1 THEN pb.left \in 1 .. s.count ELSE pb.left = s.count
  BY <1>1
<1> QED BY <1>2, <1>5, <1>6, <1>7 DEF Timed

\* Clock(g, e), for any playback and time.
After(pb, t, e) ==
  IF pb.first THEN 0
  ELSE IF ~Endless(pb.show)
    THEN IF t + e < Total(pb.show) THEN t + e ELSE Total(pb.show)
  ELSE IF RoundTime(pb.show) > 0 THEN (t + e) % RoundTime(pb.show) ELSE 0

LEMMA AfterIsNat ==
  ASSUME NEW pb, pb.show \in Shows, NEW t \in Nat, NEW e \in Nat
  PROVE  After(pb, t, e) \in Nat
<1>1. RoundTime(pb.show) \in Nat /\ Total(pb.show) \in Nat
  BY TotalFacts
<1>2. RoundTime(pb.show) > 0 => (t + e) % RoundTime(pb.show) \in Nat
  BY <1>1
<1> QED BY <1>1, <1>2 DEF After

\* Within a round of a show that keeps up, the clock is not wound back.
LEMMA PlaceInRound ==
  ASSUME NEW pb, Sound(pb), Paced(pb.show)
  PROVE  /\ StartTime(pb.show, Pos(pb)) + pb.elapsed \in Nat
         /\ StartTime(pb.show, Pos(pb)) + pb.elapsed < RoundTime(pb.show)
<1> DEFINE s == pb.show
           n == Pos(pb)
           a == pb.elapsed
<1>1. s \in Shows /\ a \in Nat
  BY DEF Sound, Playback
<1>2. n \in 0 .. RoundSteps(s) - 1 /\ Order(s, n) = pb.idx
  BY PosFacts
<1>3. a < Duration(s, Order(s, n))
  BY <1>2 DEF Sound
<1>4. StartTime(s, n) + a < RoundTime(s)
  <2> HIDE DEF s, n, a
  <2> QED BY <1>1, <1>2, <1>3, PlanAt, 0 \in Nat
<1>5. RoundSteps(s) \in Nat
  BY <1>1, RoundFacts
<1>6. n \in 0 .. RoundSteps(s)
  BY <1>2, <1>5
<1>7. StartTime(s, n) \in Nat
  BY <1>1, <1>6, StartIsNat
<1> QED BY <1>1, <1>4, <1>7

\* A tick takes an equal time from the clock and from the plan.
LEMMA AdvanceIsTimed ==
  ASSUME NEW pb, Sound(pb), NEW e \in Ticks, ~Finishes(pb, e),
         NEW t \in Nat, Timed(pb, t)
  PROVE  Timed(Advance(pb, e), After(pb, t, e))
<1> DEFINE s == pb.show
           d == Duration(s, pb.idx)
           R == RoundTime(s)
           nx == Advance(pb, e)
<1>1. /\ pb \in Playback /\ s \in Shows /\ pb.idx \in Nat /\ pb.elapsed \in Nat
      /\ pb.left \in Nat /\ Inside(s, pb.idx) /\ d \in Nat /\ s.count \in Nat
      /\ s.play \in PlayModes
  BY ShowFacts DEF Sound, Playback
<1>2. e \in Nat /\ R \in Nat /\ Total(s) \in Nat
  BY <1>1, TotalFacts, RunnerAssumption
<1>3. Sound(nx) /\ nx.show = s /\ ~nx.first
  BY AdvanceIsSound
<1>4. /\ Pos(pb) \in 0 .. RoundSteps(s) - 1 /\ Order(s, Pos(pb)) = pb.idx
      /\ Pos(nx) \in 0 .. RoundSteps(s) - 1
  BY <1>3, PosFacts
<1>5. /\ StartTime(s, Pos(pb)) \in Nat
      /\ StartTime(s, Pos(pb) + 1) = StartTime(s, Pos(pb)) + d
  <2>1. RoundSteps(s) \in Nat
    BY <1>1, RoundFacts
  <2>2. Pos(pb) \in 0 .. RoundSteps(s)
    BY <1>4, <2>1
  <2>3. StartTime(s, Pos(pb)) \in Nat
    BY <1>1, <2>2, StartIsNat
  <2> QED BY <1>1, <1>4, <2>3, StartTimes
<1>6. CASE pb.first
  <2>1. pb = NewPlayback(s) /\ nx = [pb EXCEPT !.first = FALSE] /\ After(pb, t, e) = 0
    BY <1>6 DEF Timed, Advance, After
  <2>2. /\ nx.idx = 0 /\ nx.dir = 1 /\ nx.elapsed = 0
        /\ nx.left = IF s.play = "count" THEN s.count ELSE 0
    BY <2>1 DEF NewPlayback
  <2> HIDE DEF nx
  <2> QED BY <1>1, <1>3, <2>1, <2>2, BeginningIsTimed DEF nx
<1>7. ASSUME ~pb.first,
             s.play = "count" =>
               IF s.count > 1 THEN nx.left \in 1 .. s.count ELSE nx.left = s.count,
             Endless(s) /\ Paced(s) =>
               After(pb, t, e) = StartTime(s, Pos(nx)) + nx.elapsed,
             ~Endless(s) => Played(nx) = Played(pb) + e
      PROVE  Timed(nx, After(pb, t, e))
  <2>1. ~Endless(s) => After(pb, t, e) = AtMost(Played(nx), Total(s))
    <3> SUFFICES ASSUME ~Endless(s) PROVE After(pb, t, e) = AtMost(Played(nx), Total(s))
      OBVIOUS
    <3>1. t = AtMost(Played(pb), Total(s))
      BY DEF Timed
    <3>2. After(pb, t, e) = AtMost(t + e, Total(s))
      BY <1>7 DEF After, AtMost
    <3>3. Played(pb) \in Nat
      <4>1. Rounds(pb) \in Nat
        BY RoundsFacts
      <4>2. Rounds(pb) * R \in Nat
        BY <4>1, <1>2
      <4> QED BY <4>2, <1>1, <1>5 DEF Played
    <3> HIDE DEF nx
    <3>4. AtMost(t + e, Total(s)) = AtMost(Played(pb) + e, Total(s))
      BY <1>2, <3>1, <3>3 DEF AtMost
    <3> QED BY <1>7, <3>2, <3>4
  <2> HIDE DEF nx
  <2> QED BY <1>3, <1>7, <2>1 DEF Timed
<1>8. CASE ~pb.first /\ ~Due(pb, e)
  <2>1. nx = [pb EXCEPT !.elapsed = Spent(pb, e)]
    BY <1>8 DEF Advance
  <2>2. nx.idx = pb.idx /\ nx.dir = pb.dir /\ nx.left = pb.left
        /\ nx.elapsed = pb.elapsed + e
    BY <2>1, <1>1 DEF Spent, Playback
  <2> HIDE DEF nx
  <2>3. Pos(nx) = Pos(pb) /\ Rounds(nx) = Rounds(pb)
    BY <1>3, <2>2 DEF Pos, Rounds
  <2>4. Endless(s) /\ Paced(s) => After(pb, t, e) = StartTime(s, Pos(nx)) + nx.elapsed
    <3> SUFFICES ASSUME Endless(s), Paced(s)
                 PROVE  After(pb, t, e) = StartTime(s, Pos(nx)) + nx.elapsed
      OBVIOUS
    <3>1. t + e = StartTime(s, Pos(nx)) + nx.elapsed
      BY <1>1, <1>2, <1>5, <2>2, <2>3 DEF Timed
    <3>2. t + e \in Nat /\ t + e < R
      BY <1>3, <3>1, PlaceInRound
    <3>3. (0 * R + (t + e)) % R = t + e
      <4> HIDE DEF R
      <4> QED BY <1>2, <3>2, WholeRounds
    <3>4. 0 * R + (t + e) = t + e
      BY <1>2, <3>2
    <3>5. After(pb, t, e) = (t + e) % R
      BY <1>2, <1>8, <3>2 DEF After
    <3> QED BY <3>1, <3>3, <3>4, <3>5
  <2>5. ~Endless(s) => Played(nx) = Played(pb) + e
    <3> SUFFICES ASSUME ~Endless(s) PROVE Played(nx) = Played(pb) + e
      OBVIOUS
    <3>1. Rounds(pb) * R \in Nat
      BY <1>2, RoundsFacts
    <3> QED BY <1>1, <1>2, <1>3, <1>5, <2>2, <2>3, <3>1 DEF Played
  <2>6. s.play = "count" =>
          IF s.count > 1 THEN nx.left \in 1 .. s.count ELSE nx.left = s.count
    BY <2>2 DEF Timed
  <2> QED BY <1>7, <1>8, <2>4, <2>5, <2>6 DEF nx
<1>9. CASE ~pb.first /\ Due(pb, e)
  <2>1. ~Ends(pb) /\ pb.elapsed + e >= d
    BY <1>9 DEF Finishes, Due, Spent
  <2>2. nx = [pb EXCEPT !.elapsed = Spent(pb, e) - d, !.idx = NextIdx(pb),
                        !.dir = NextDir(pb), !.left = NextLeft(pb)]
    BY <1>9 DEF Advance
  <2>3. nx.idx = NextIdx(pb) /\ nx.dir = NextDir(pb) /\ nx.left = NextLeft(pb)
        /\ nx.elapsed = pb.elapsed + e - d
    <3>1. PICK el, i, di, le : el = Spent(pb, e) - d /\ i = NextIdx(pb)
            /\ di = NextDir(pb) /\ le = NextLeft(pb)
      OBVIOUS
    <3>2. nx = [pb EXCEPT !.elapsed = el, !.idx = i, !.dir = di, !.left = le]
      BY <2>2, <3>1
    <3>3. nx.idx = i /\ nx.dir = di /\ nx.left = le /\ nx.elapsed = el
      BY <3>2, <1>1 DEF Playback
    <3>4. el = pb.elapsed + e - d
      BY <1>1, <1>2, <3>1 DEF Spent
    <3> HIDE DEF nx, d
    <3> QED BY <3>1, <3>3, <3>4
  <2> HIDE DEF nx
  <2>4. \/ Pos(nx) = Pos(pb) + 1
        \/ Pos(nx) = 0 /\ Pos(pb) + 1 = RoundSteps(s)
    BY <1>3, <2>3, NextPlace
  <2>5. StartTime(s, 0) = 0
    BY <1>1, StartTimes
  <2>6. Endless(s) /\ Paced(s) => After(pb, t, e) = StartTime(s, Pos(nx)) + nx.elapsed
    <3> SUFFICES ASSUME Endless(s), Paced(s)
                 PROVE  After(pb, t, e) = StartTime(s, Pos(nx)) + nx.elapsed
      OBVIOUS
    <3> DEFINE b == StartTime(s, Pos(nx)) + nx.elapsed
    <3>1. b \in Nat /\ b < R
      BY <1>3, PlaceInRound
    <3>2. t + e = StartTime(s, Pos(pb) + 1) + nx.elapsed
      BY <1>1, <1>2, <1>5, <2>3 DEF Timed
    <3>3. After(pb, t, e) = (t + e) % R
      BY <1>2, <1>9, <3>1 DEF After
    <3>4. CASE Pos(nx) = Pos(pb) + 1
      <4>1. t + e = 0 * R + b
        BY <1>2, <3>1, <3>2, <3>4
      <4> HIDE DEF b, R
      <4>2. (0 * R + b) % R = b
        BY <1>2, <3>1, WholeRounds
      <4> QED BY <3>3, <4>1, <4>2 DEF b, R
    <3>5. CASE Pos(nx) = 0 /\ Pos(pb) + 1 = RoundSteps(s)
      <4>1. b = nx.elapsed /\ t + e = R + nx.elapsed
        BY <2>3, <2>5, <3>2, <3>5, <1>1, <1>2 DEF RoundTime
      <4>2. t + e = 1 * R + b
        BY <1>2, <3>1, <4>1
      <4> HIDE DEF b, R
      <4>3. (1 * R + b) % R = b
        BY <1>2, <3>1, WholeRounds
      <4> QED BY <3>3, <4>2, <4>3 DEF b, R
    <3> QED BY <2>4, <3>4, <3>5
  <2>7. CASE Endless(s)
    <3>1. s.play # "count"
      BY <2>7 DEF Endless
    <3> QED BY <1>7, <1>9, <2>6, <2>7, <3>1 DEF nx
  <2>8. CASE ~Endless(s) /\ AtBoundary(pb)
    <3>1. s.play = "count" /\ pb.left > 1
      BY <1>1, <2>1, <2>8 DEF Endless, Ends, PlayModes
    <3>2. s.count > 1 /\ pb.left \in 1 .. s.count
      BY <1>1, <3>1 DEF Timed
    <3>3. nx.left = pb.left - 1
      BY <2>3, <2>8, <3>1 DEF NextLeft
    <3>4. nx.left \in 1 .. s.count
      BY <1>1, <3>1, <3>2, <3>3
    <3>5. Pos(pb) + 1 = RoundSteps(s) /\ Pos(nx) = 0
      <4>1. Pos(pb) + 1 = RoundSteps(s)
        BY <2>8, <3>1, LastPlace
      <4> QED BY <1>4, <2>4, <4>1
    <3>6. Rounds(nx) = Rounds(pb) + 1 /\ Rounds(pb) \in Nat
      BY <1>1, <1>3, <3>1, <3>2, <3>3 DEF Rounds
    <3>7. (Rounds(pb) + 1) * R = Rounds(pb) * R + R /\ Rounds(pb) * R \in Nat
      BY <1>2, <3>6
    <3>8. R = StartTime(s, Pos(pb)) + d
      BY <1>5, <3>5 DEF RoundTime
    <3>9. Played(nx) = Rounds(nx) * R + 0 + nx.elapsed
      BY <1>3, <2>5, <3>5 DEF Played
    <3>10. Played(pb) = Rounds(pb) * R + StartTime(s, Pos(pb)) + pb.elapsed
      BY DEF Played
    <3>11. Played(nx) = Played(pb) + e
      <4> HIDE DEF R, d
      <4> QED BY <1>1, <1>2, <1>5, <2>3, <3>6, <3>7, <3>8, <3>9, <3>10
    <3> QED BY <1>7, <1>9, <2>8, <3>2, <3>4, <3>11 DEF nx
  <2>9. CASE ~Endless(s) /\ ~AtBoundary(pb)
    <3>1. nx.left = pb.left
      BY <2>3, <2>9 DEF NextLeft
    <3>2. Rounds(nx) = Rounds(pb) /\ Rounds(pb) \in Nat
      BY <1>3, <2>9, <3>1, RoundsFacts DEF Rounds
    <3>3. Pos(nx) = Pos(pb) + 1
      <4>1. s.play # "pingpong"
        BY <2>9 DEF Endless
      <4>2. Pos(pb) + 1 # RoundSteps(s)
        BY <2>9, <4>1, LastPlace
      <4> QED BY <2>4, <4>2
    <3>4. Played(nx) = Rounds(pb) * R + (StartTime(s, Pos(pb)) + d) + nx.elapsed
      BY <1>3, <1>5, <3>2, <3>3 DEF Played
    <3>5. Played(pb) = Rounds(pb) * R + StartTime(s, Pos(pb)) + pb.elapsed
      BY DEF Played
    <3>6. Rounds(pb) * R \in Nat
      BY <1>2, <3>2
    <3>7. Played(nx) = Played(pb) + e
      <4> HIDE DEF R, d
      <4> QED BY <1>1, <1>2, <1>5, <2>3, <3>4, <3>5, <3>6
    <3>8. s.play = "count" =>
            IF s.count > 1 THEN nx.left \in 1 .. s.count ELSE nx.left = s.count
      BY <3>1 DEF Timed
    <3> QED BY <1>7, <1>9, <2>9, <3>7, <3>8 DEF nx
  <2> QED BY <2>7, <2>8, <2>9
<1> QED BY <1>6, <1>8, <1>9

-----------------------------------------------------------------------------
LEMMA InitTime == Init => TimeInv
<1> SUFFICES ASSUME Init PROVE TimeInv
  OBVIOUS
<1>1. Playing = {}
  BY DEF Init, Playing
<1> QED BY <1>1 DEF Init, TimeInv

\* A show that starts has its clock wound back.
LEMMA StartTimed ==
  ASSUME IInv, TimeInv, NEW groups \in SUBSET Groups, NEW s \in Shows, StartOn(groups, s)
  PROVE  TimeInv'
<1>1. CASE s.dur = <<>>
  BY <1>1 DEF StartOn, TimeInv, Playing
<1>2. CASE s.dur # <<>>
  <2>1. /\ active' = [g \in Playing \cup groups |->
                        IF g \in groups THEN NewPlayback(s) ELSE active[g]]
        /\ clock' = [g \in Groups |-> IF g \in groups THEN 0 ELSE clock[g]]
    BY <1>2 DEF StartOn
  <2>2. Playing' = Playing \cup groups
    BY <2>1 DEF Playing
  <2>3. clock' \in [Groups -> Nat]
    BY <2>1 DEF TimeInv
  <2>4. ASSUME NEW g \in Playing' PROVE Timed(active'[g], clock'[g])
    <3>1. CASE g \in groups
      <4>1. active'[g] = NewPlayback(s) /\ clock'[g] = 0
        BY <2>1, <3>1
      <4>2. PICK pb : pb = NewPlayback(s)
        OBVIOUS
      <4>3. /\ pb.show = s /\ pb.idx = 0 /\ pb.dir = 1 /\ pb.elapsed = 0
            /\ pb.left = IF s.play = "count" THEN s.count ELSE 0
        BY <4>2 DEF NewPlayback
      <4>4. Timed(pb, 0)
        BY <4>2, <4>3, BeginningIsTimed
      <4> QED BY <4>1, <4>2, <4>4
    <3>2. CASE g \notin groups
      <4>1. g \in Playing /\ active'[g] = active[g]
        BY <2>1, <2>2, <2>4, <3>2
      <4>2. g \in Groups
        BY <4>1 DEF IInv, TypeOK
      <4>3. clock'[g] = clock[g]
        BY <2>1, <3>2, <4>2
      <4> QED BY <4>1, <4>3 DEF TimeInv
    <3> QED BY <3>1, <3>2
  <2> QED BY <2>3, <2>4 DEF TimeInv
<1> QED BY <1>1, <1>2

LEMMA StopTimed ==
  ASSUME TimeInv, NEW groups, StopOn(groups)
  PROVE  TimeInv'
<1> DEFINE stopped == IF groups = {} THEN Playing ELSE groups
<1>1. active' = [g \in Playing \ stopped |-> active[g]] /\ clock' = clock
  BY DEF StopOn, Restrict
<1>2. Playing' = Playing \ stopped
  BY <1>1 DEF Playing
<1> QED BY <1>1, <1>2 DEF TimeInv

\* What a tick does to one playback and its clock.
LEMMA TickFacts ==
  ASSUME IInv, TimeInv, NEW e \in Ticks, Tick(e), NEW g \in Playing
  PROVE  /\ g \in Groups /\ Sound(active[g]) /\ clock[g] \in Nat
         /\ Timed(active[g], clock[g])
         /\ clock'[g] = After(active[g], clock[g], e)
         /\ g \in Playing' <=> ~Finishes(active[g], e)
         /\ g \in Playing' => active'[g] = Advance(active[g], e)
<1>1. g \in Groups
  BY DEF IInv, TypeOK
<1>2. clock'[g] = Clock(g, e)
  BY <1>1 DEF Tick
<1>3. Clock(g, e) = After(active[g], clock[g], e)
  BY DEF Clock, After
<1>4. active' = [h \in Playing \ {h \in Playing : Finishes(active[h], e)} |->
                   Advance(active[h], e)]
  BY DEF Tick
<1>5. Playing' = Playing \ {h \in Playing : Finishes(active[h], e)}
  BY <1>4 DEF Playing
<1> QED BY <1>1, <1>2, <1>3, <1>4, <1>5 DEF IInv, TimeInv

LEMMA TickTimed ==
  ASSUME IInv, TimeInv, NEW e \in Ticks, Tick(e)
  PROVE  TimeInv'
<1>1. clock' = [g \in Groups |-> IF g \in Playing THEN Clock(g, e) ELSE clock[g]]
  BY DEF Tick
<1>2. Playing' \subseteq Playing
  BY DEF Tick, Playing
<1>3. ASSUME NEW g \in Groups PROVE clock'[g] \in Nat
  <2>1. CASE g \in Playing
    <3>1. Sound(active[g]) /\ clock[g] \in Nat
          /\ clock'[g] = After(active[g], clock[g], e)
      BY <2>1, TickFacts
    <3>2. active[g].show \in Shows /\ e \in Nat
      BY <3>1, RunnerAssumption DEF Sound, Playback
    <3> QED BY <3>1, <3>2, AfterIsNat
  <2>2. CASE g \notin Playing
    BY <1>1, <2>2 DEF TimeInv
  <2> QED BY <2>1, <2>2
<1>4. ASSUME NEW g \in Playing' PROVE Timed(active'[g], clock'[g])
  <2>1. g \in Playing
    BY <1>2
  <2>2. /\ Sound(active[g]) /\ clock[g] \in Nat /\ Timed(active[g], clock[g])
        /\ clock'[g] = After(active[g], clock[g], e)
        /\ ~Finishes(active[g], e) /\ active'[g] = Advance(active[g], e)
    BY <2>1, TickFacts
  <2>3. Timed(Advance(active[g], e), After(active[g], clock[g], e))
    BY <2>2, AdvanceIsTimed
  <2> QED BY <2>2, <2>3
<1>5. clock' \in [Groups -> Nat]
  BY <1>1, <1>3
<1> QED BY <1>4, <1>5 DEF TimeInv

LEMMA StepTime == IInv /\ TimeInv /\ [Next]_vars => TimeInv'
<1> SUFFICES ASSUME IInv, TimeInv, [Next]_vars PROVE TimeInv'
  OBVIOUS
<1>0. TypeOK
  BY DEF IInv
<1>1. ASSUME NEW e \in Ticks, Tick(e) PROVE TimeInv'
  BY <1>1, TickTimed
<1>2. ASSUME NEW s \in Cycles, SetEffectCycle(s) PROVE TimeInv'
  <2>1. present \in SUBSET Groups /\ s \in Shows
    BY <1>0 DEF TypeOK, Shows
  <2> QED BY <1>2, <2>1, StartTimed DEF SetEffectCycle
<1>3. ASSUME NEW n \in Names, NEW t \in Targets, StartSequence(n, t)
      PROVE  TimeInv'
  <2>1. library[n] \in Shows
    BY <1>0, <1>3 DEF TypeOK, Libraries, StartSequence, Shows
  <2>2. Resolve(t) \in SUBSET Groups
    BY <1>0, ResolveFacts
  <2> QED BY <1>3, <2>1, <2>2, StartTimed DEF StartSequence
<1>4. ASSUME NEW t \in Targets, StopSequence(t) PROVE TimeInv'
  BY <1>4, StopTimed DEF StopSequence
<1>5. CASE StopAllSequences
  BY <1>5, StopTimed DEF StopAllSequences
<1>6. ASSUME UNCHANGED <<active, clock>> PROVE TimeInv'
  BY <1>6 DEF TimeInv, Playing
<1> QED
  BY <1>1, <1>2, <1>3, <1>4, <1>5, <1>6
  DEF Next, EngineTick, Request, SaveSequence, DeleteSequence, ReloadConfig,
      Discover, vars

\* The clocks and the playbacks stay together.
THEOREM TimeInductive == Spec => [](IInv /\ TimeInv)
<1>1. Init => IInv /\ TimeInv
  BY InitInv, InitTime
<1>2. (IInv /\ TimeInv) /\ [Next]_vars => (IInv /\ TimeInv)'
  BY StepInv, StepTime
<1> QED BY <1>1, <1>2, PTL DEF Spec

\* With steps no shorter than ticks, whatever is started, stopped, edited or
\* discovered in between, a group shows the step that its show's plan has at this
\* time, in every play mode and in every round, and a finite show ends with its plan.
THEOREM StaysOnSchedule == Spec => []OnSchedule
<1>1. ASSUME IInv, TimeInv PROVE OnSchedule
  <2> SUFFICES ASSUME NEW g \in Playing, ~active[g].first, Paced(active[g].show)
               PROVE  /\ shown[g] = Scene(active[g].show,
                                          ScheduledAt(active[g].show, clock[g]))
                      /\ ~Endless(active[g].show) => clock[g] < Total(active[g].show)
    BY DEF OnSchedule
  <2>1. PICK pb : pb = active[g]
    OBVIOUS
  <2>2. PICK s : s = pb.show
    OBVIOUS
  <2>3. Sound(pb) /\ Timed(pb, clock[g]) /\ shown[g] = Scene(s, pb.idx)
    BY <1>1, <2>1, <2>2 DEF IInv, TimeInv
  <2>4. /\ s \in Shows /\ pb.elapsed \in Nat /\ RoundTime(s) \in Nat
        /\ Pos(pb) \in 0 .. RoundSteps(s) - 1 /\ Order(s, Pos(pb)) = pb.idx
        /\ pb.elapsed < Duration(s, Order(s, Pos(pb)))
    <3>1. s \in Shows /\ pb.elapsed \in Nat
      BY <2>2, <2>3 DEF Sound, Playback
    <3>2. Pos(pb) \in 0 .. RoundSteps(s) - 1 /\ Order(s, Pos(pb)) = pb.idx
      BY <2>2, <2>3, PosFacts
    <3>3. pb.elapsed < Duration(s, pb.idx)
      BY <2>1, <2>2, <2>3 DEF Sound
    <3> QED BY <3>1, <3>2, <3>3, TotalFacts
  <2>5. PICK b : b = StartTime(s, Pos(pb)) + pb.elapsed
    OBVIOUS
  <2>6. b \in Nat /\ b < RoundTime(s)
    BY <2>1, <2>2, <2>3, <2>5, PlaceInRound
  <2>7. ASSUME NEW k \in Nat PROVE ScheduledAt(s, k * RoundTime(s) + b) = pb.idx
    BY <2>4, <2>5, PlanAt
  <2>8. CASE Endless(s)
    <3>1. clock[g] = 0 * RoundTime(s) + b
      BY <2>1, <2>2, <2>3, <2>4, <2>5, <2>6, <2>8 DEF Timed
    <3>2. ScheduledAt(s, clock[g]) = pb.idx
      BY <2>7, <3>1
    <3> QED BY <2>1, <2>2, <2>3, <2>8, <3>2
  <2>9. CASE ~Endless(s)
    <3>1. PICK k \in Nat : k = Rounds(pb) /\ (k + 1) * RoundTime(s) <= Total(s)
      BY <2>2, <2>3, <2>9, RoundsFacts
    <3>2. Played(pb) = k * RoundTime(s) + b
      <4>1. k * RoundTime(s) \in Nat
        BY <2>4, <3>1
      <4>2. StartTime(s, Pos(pb)) \in Nat
        <5>1. RoundSteps(s) \in Nat
          BY <2>4, RoundFacts
        <5>2. Pos(pb) \in 0 .. RoundSteps(s)
          BY <2>4, <5>1
        <5> QED BY <2>4, <5>2, StartIsNat
      <4> QED BY <2>2, <2>4, <2>5, <3>1, <4>1, <4>2 DEF Played
    <3>3. (k + 1) * RoundTime(s) = k * RoundTime(s) + RoundTime(s)
          /\ k * RoundTime(s) \in Nat
      BY <2>4, <3>1
    <3>4. Total(s) \in Nat
      BY <2>4, TotalFacts
    <3>5. Played(pb) < Total(s)
      BY <2>4, <2>6, <3>1, <3>2, <3>3, <3>4
    <3>6. clock[g] = Played(pb)
      BY <2>2, <2>3, <2>9, <3>5 DEF Timed, AtMost
    <3>7. ScheduledAt(s, clock[g]) = pb.idx
      BY <2>7, <3>1, <3>2, <3>6
    <3> QED BY <2>1, <2>2, <2>3, <3>5, <3>6, <3>7
  <2> QED BY <2>8, <2>9
<1> QED BY <1>1, TimeInductive, PTL

-----------------------------------------------------------------------------
(* The scenes a playback has shown. *)

\* A playback of a finite show has shown each scene of the rounds behind it, and those
\* of this round up to the one it is at: none skipped, none twice, however late it is.
Counted(pb, c) ==
  ~Endless(pb.show) =>
    c = IF pb.first THEN 0 ELSE Rounds(pb) * RoundSteps(pb.show) + Pos(pb) + 1

CountInv ==
  /\ scenes \in [Groups -> Nat]
  /\ \A g \in Playing : Counted(active[g], scenes[g])

\* A tick that moves a playback on shows one more scene of its plan.
LEMMA AdvanceIsCounted ==
  ASSUME NEW pb, Sound(pb), NEW e \in Ticks, ~Finishes(pb, e),
         NEW t, Timed(pb, t), NEW c \in Nat, Counted(pb, c), ~Endless(pb.show)
  PROVE  Counted(Advance(pb, e), IF Steps(pb, e) THEN c + 1 ELSE c)
<1> DEFINE s == pb.show
           n == RoundSteps(s)
           nx == Advance(pb, e)
<1>1. /\ pb \in Playback /\ s \in Shows /\ pb.idx \in Nat /\ pb.left \in Nat
      /\ s.count \in Nat /\ s.play \in PlayModes /\ n \in Nat
  BY ShowFacts, RoundFacts DEF Sound, Playback
<1>2. Sound(nx) /\ nx.show = s /\ ~nx.first
  BY AdvanceIsSound
<1>3. Pos(pb) \in 0 .. n - 1 /\ Pos(nx) \in 0 .. n - 1
  BY <1>2, PosFacts
<1>4. s.play # "pingpong" /\ Rounds(pb) \in Nat
  BY RoundsFacts DEF Endless
<1>5. CASE pb.first
  <2>1. pb = NewPlayback(s) /\ nx = [pb EXCEPT !.first = FALSE] /\ c = 0
    BY <1>5 DEF Timed, Advance, Counted
  <2>2. nx.idx = 0 /\ nx.left = IF s.play = "count" THEN s.count ELSE 0
    BY <2>1 DEF NewPlayback
  <2> HIDE DEF nx
  <2>3. Pos(nx) = 0 /\ Rounds(nx) = 0
    BY <1>1, <1>2, <2>2 DEF Pos, Rounds
  <2>4. 0 * n = 0
    BY <1>1
  <2>5. Rounds(nx) * n + Pos(nx) + 1 = 1 /\ c + 1 = 1 /\ Steps(pb, e)
    BY <1>5, <2>1, <2>3, <2>4 DEF Steps
  <2> QED BY <1>2, <2>5 DEF Counted, nx
<1>6. CASE ~pb.first /\ ~Due(pb, e)
  <2>1. nx = [pb EXCEPT !.elapsed = Spent(pb, e)]
    BY <1>6 DEF Advance
  <2>2. nx.idx = pb.idx /\ nx.dir = pb.dir /\ nx.left = pb.left
    BY <2>1, <1>1 DEF Playback
  <2> HIDE DEF nx
  <2>3. Pos(nx) = Pos(pb) /\ Rounds(nx) = Rounds(pb)
    BY <1>2, <2>2 DEF Pos, Rounds
  <2>4. ~Steps(pb, e) /\ c = Rounds(pb) * n + Pos(pb) + 1
    BY <1>6 DEF Steps, Counted
  <2> QED BY <1>2, <2>3, <2>4 DEF Counted, nx
<1>7. CASE ~pb.first /\ Due(pb, e)
  <2>1. ~Ends(pb) /\ Steps(pb, e) /\ c = Rounds(pb) * n + Pos(pb) + 1
    BY <1>7 DEF Finishes, Steps, Counted
  <2>2. nx.idx = NextIdx(pb) /\ nx.dir = NextDir(pb) /\ nx.left = NextLeft(pb)
    <3>1. PICK el, i, di, le : el = Spent(pb, e) - Duration(s, pb.idx) /\ i = NextIdx(pb)
            /\ di = NextDir(pb) /\ le = NextLeft(pb)
      OBVIOUS
    <3>2. nx = [pb EXCEPT !.elapsed = el, !.idx = i, !.dir = di, !.left = le]
      BY <1>7, <3>1 DEF Advance
    <3>3. nx.idx = i /\ nx.dir = di /\ nx.left = le
      BY <3>2, <1>1 DEF Playback
    <3> HIDE DEF nx
    <3> QED BY <3>1, <3>3
  <2> HIDE DEF nx
  <2>3. \/ Pos(nx) = Pos(pb) + 1
        \/ Pos(nx) = 0 /\ Pos(pb) + 1 = n
    BY <1>2, <2>2, NextPlace
  <2>4. AtBoundary(pb) <=> Pos(pb) + 1 = n
    BY <1>4, LastPlace
  <2>5. CASE AtBoundary(pb)
    <3>1. s.play = "count" /\ pb.left > 1
      BY <1>1, <1>4, <2>1, <2>5 DEF Endless, Ends, PlayModes
    <3>2. s.count > 1 /\ pb.left \in 1 .. s.count /\ nx.left = pb.left - 1
      BY <1>1, <2>2, <2>5, <3>1 DEF Timed, NextLeft
    <3>3. Rounds(nx) = Rounds(pb) + 1
      BY <1>1, <1>2, <3>1, <3>2 DEF Rounds
    <3>4. Pos(nx) = 0 /\ Pos(pb) + 1 = n
      BY <1>3, <2>3, <2>4, <2>5
    <3>5. (Rounds(pb) + 1) * n = Rounds(pb) * n + n /\ Rounds(pb) * n \in Nat
      BY <1>1, <1>4
    <3>6. c + 1 = Rounds(nx) * n + Pos(nx) + 1
      <4> HIDE DEF n
      <4> QED BY <1>1, <1>3, <2>1, <3>3, <3>4, <3>5
    <3> QED BY <1>2, <2>1, <3>6 DEF Counted, nx
  <2>6. CASE ~AtBoundary(pb)
    <3>1. nx.left = pb.left
      BY <2>2, <2>6 DEF NextLeft
    <3>2. Rounds(nx) = Rounds(pb)
      BY <1>2, <3>1 DEF Rounds
    <3>3. Pos(nx) = Pos(pb) + 1
      BY <2>3, <2>4, <2>6
    <3>4. Rounds(pb) * n \in Nat
      BY <1>1, <1>4
    <3>5. c + 1 = Rounds(nx) * n + Pos(nx) + 1
      <4> HIDE DEF n
      <4> QED BY <1>1, <1>3, <2>1, <3>2, <3>3, <3>4
    <3> QED BY <1>2, <2>1, <3>5 DEF Counted, nx
  <2> QED BY <2>5, <2>6
<1> QED BY <1>5, <1>6, <1>7

LEMMA StartCounted ==
  ASSUME IInv, CountInv, NEW groups \in SUBSET Groups, NEW s \in Shows, StartOn(groups, s)
  PROVE  CountInv'
<1>1. CASE s.dur = <<>>
  BY <1>1 DEF StartOn, CountInv, Playing
<1>2. CASE s.dur # <<>>
  <2>1. /\ active' = [g \in Playing \cup groups |->
                        IF g \in groups THEN NewPlayback(s) ELSE active[g]]
        /\ scenes' = [g \in Groups |-> IF g \in groups THEN 0 ELSE scenes[g]]
    BY <1>2 DEF StartOn
  <2>2. Playing' = Playing \cup groups
    BY <2>1 DEF Playing
  <2>3. scenes' \in [Groups -> Nat]
    BY <2>1 DEF CountInv
  <2>4. ASSUME NEW g \in Playing' PROVE Counted(active'[g], scenes'[g])
    <3>1. CASE g \in groups
      BY <2>1, <3>1 DEF Counted, NewPlayback
    <3>2. CASE g \notin groups
      <4>1. g \in Playing /\ active'[g] = active[g]
        BY <2>1, <2>2, <2>4, <3>2
      <4>2. g \in Groups
        BY <4>1 DEF IInv, TypeOK
      <4>3. scenes'[g] = scenes[g]
        BY <2>1, <3>2, <4>2
      <4> QED BY <4>1, <4>3 DEF CountInv
    <3> QED BY <3>1, <3>2
  <2> QED BY <2>3, <2>4 DEF CountInv
<1> QED BY <1>1, <1>2

LEMMA StopCounted ==
  ASSUME CountInv, NEW groups, StopOn(groups)
  PROVE  CountInv'
<1> DEFINE stopped == IF groups = {} THEN Playing ELSE groups
<1>1. active' = [g \in Playing \ stopped |-> active[g]] /\ scenes' = scenes
  BY DEF StopOn, Restrict
<1>2. Playing' = Playing \ stopped
  BY <1>1 DEF Playing
<1> QED BY <1>1, <1>2 DEF CountInv

LEMMA TickCounted ==
  ASSUME IInv, TimeInv, CountInv, NEW e \in Ticks, Tick(e)
  PROVE  CountInv'
<1> DEFINE more(g) == g \in {h \in Playing : Steps(active[h], e)} /\ ~Endless(active[g].show)
<1>1. scenes' = [g \in Groups |-> IF more(g) THEN scenes[g] + 1 ELSE scenes[g]]
  BY DEF Tick
<1>2. Playing' \subseteq Playing
  BY DEF Tick, Playing
<1>3. scenes' \in [Groups -> Nat]
  BY <1>1 DEF CountInv
<1>4. ASSUME NEW g \in Playing' PROVE Counted(active'[g], scenes'[g])
  <2>1. g \in Playing
    BY <1>2
  <2>2. /\ g \in Groups /\ Sound(active[g]) /\ Timed(active[g], clock[g])
        /\ ~Finishes(active[g], e) /\ active'[g] = Advance(active[g], e)
    BY <2>1, TickFacts
  <2>3. scenes[g] \in Nat /\ Counted(active[g], scenes[g])
    BY <2>1, <2>2 DEF CountInv
  <2>4. CASE Endless(active[g].show)
    <3>1. Advance(active[g], e).show = active[g].show
      BY <2>2, AdvanceIsSound
    <3> QED BY <2>2, <2>4, <3>1 DEF Counted
  <2>5. CASE ~Endless(active[g].show)
    <3>1. Counted(Advance(active[g], e),
                  IF Steps(active[g], e) THEN scenes[g] + 1 ELSE scenes[g])
      BY <2>2, <2>3, <2>5, AdvanceIsCounted
    <3>2. scenes'[g] = IF Steps(active[g], e) THEN scenes[g] + 1 ELSE scenes[g]
      BY <1>1, <2>1, <2>2, <2>5
    <3> QED BY <2>2, <3>1, <3>2
  <2> QED BY <2>4, <2>5
<1> QED BY <1>3, <1>4 DEF CountInv

LEMMA StepCount == IInv /\ TimeInv /\ CountInv /\ [Next]_vars => CountInv'
<1> SUFFICES ASSUME IInv, TimeInv, CountInv, [Next]_vars PROVE CountInv'
  OBVIOUS
<1>0. TypeOK
  BY DEF IInv
<1>1. ASSUME NEW e \in Ticks, Tick(e) PROVE CountInv'
  BY <1>1, TickCounted
<1>2. ASSUME NEW s \in Cycles, SetEffectCycle(s) PROVE CountInv'
  <2>1. present \in SUBSET Groups /\ s \in Shows
    BY <1>0 DEF TypeOK, Shows
  <2> QED BY <1>2, <2>1, StartCounted DEF SetEffectCycle
<1>3. ASSUME NEW n \in Names, NEW t \in Targets, StartSequence(n, t)
      PROVE  CountInv'
  <2>1. library[n] \in Shows
    BY <1>0, <1>3 DEF TypeOK, Libraries, StartSequence, Shows
  <2>2. Resolve(t) \in SUBSET Groups
    BY <1>0, ResolveFacts
  <2> QED BY <1>3, <2>1, <2>2, StartCounted DEF StartSequence
<1>4. ASSUME NEW t \in Targets, StopSequence(t) PROVE CountInv'
  BY <1>4, StopCounted DEF StopSequence
<1>5. CASE StopAllSequences
  BY <1>5, StopCounted DEF StopAllSequences
<1>6. ASSUME UNCHANGED <<active, scenes>> PROVE CountInv'
  BY <1>6 DEF CountInv, Playing
<1> QED
  BY <1>1, <1>2, <1>3, <1>4, <1>5, <1>6
  DEF Next, EngineTick, Request, SaveSequence, DeleteSequence, ReloadConfig,
      Discover, vars

\* A playback's place in its plan is the number of scenes it has shown.
THEOREM CountInductive == Spec => [](IInv /\ TimeInv /\ CountInv)
<1>1. Init => CountInv
  BY DEF Init, CountInv, Playing
<1>2. (IInv /\ TimeInv /\ CountInv) /\ [Next]_vars => CountInv'
  BY StepCount
<1> QED BY <1>1, <1>2, TimeInductive, PTL DEF Spec

\* With ticks of any length, a show that a tick ends is finite, has had its whole time and
\* has shown every scene of all its rounds, once each and the last one last, also when
\* it had fallen behind and its time was over before.
THEOREM FiniteShowsPlayInFull == Spec => PlayedInFull
<1> DEFINE Full(g) ==
      LET s == active[g].show
      IN  /\ ~Endless(s)
          /\ clock'[g] >= Total(s)
          /\ scenes[g] = PlannedScenes(s)
          /\ shown'[g] = Scene(s, Order(s, RoundSteps(s) - 1))
           AllFull == EngineTick => \A g \in Playing \ DOMAIN active' : Full(g)
<1>1. ASSUME IInv, TimeInv, CountInv, NEW e \in Ticks, Tick(e),
             NEW g \in Playing \ DOMAIN active'
      PROVE  Full(g)
  <2>1. /\ g \in Groups /\ Sound(active[g]) /\ clock[g] \in Nat
        /\ Timed(active[g], clock[g]) /\ clock'[g] = After(active[g], clock[g], e)
        /\ Finishes(active[g], e)
    BY <1>1, TickFacts DEF Playing
  <2>2. shown'[g] = shown[g]
    <3>1. ~Steps(active[g], e)
      BY <2>1 DEF Finishes, Steps
    <3> QED BY <1>1, <2>1, <3>1 DEF Tick
  <2>3. PICK pb : pb = active[g]
    OBVIOUS
  <2>4. PICK s : s = pb.show
    OBVIOUS
  <2>5. /\ ~pb.first /\ Due(pb, e) /\ AtBoundary(pb)
        /\ s.play = "once" \/ (s.play = "count" /\ pb.left <= 1)
    BY <2>1, <2>3, <2>4 DEF Finishes, Ends
  <2>6. ~Endless(s) /\ s.play # "pingpong"
    BY <2>5 DEF Endless
  <2>7. /\ s \in Shows /\ pb.elapsed \in Nat /\ pb.idx \in Nat /\ e \in Nat
        /\ Duration(s, pb.idx) \in Nat
        /\ RoundTime(s) \in Nat /\ Total(s) \in Nat
    <3>1. s \in Shows /\ pb.elapsed \in Nat /\ pb.idx \in Nat /\ Inside(s, pb.idx)
      BY <2>1, <2>3, <2>4 DEF Sound, Playback
    <3> QED BY <3>1, ShowFacts, TotalFacts, RunnerAssumption
  <2>8. /\ Pos(pb) \in 0 .. RoundSteps(s) - 1 /\ Order(s, Pos(pb)) = pb.idx
        /\ Pos(pb) + 1 = RoundSteps(s) /\ RoundSteps(s) \in Nat
    BY <2>1, <2>3, <2>4, <2>5, <2>6, <2>7, PosFacts, LastPlace, RoundFacts
  <2>9. RoundTime(s) = StartTime(s, Pos(pb)) + Duration(s, pb.idx)
         /\ StartTime(s, Pos(pb)) \in Nat
    <3>1. Pos(pb) \in 0 .. RoundSteps(s)
      BY <2>8
    <3> QED BY <2>7, <2>8, <3>1, StartTimes, StartIsNat DEF RoundTime
  <2>10. PICK k \in Nat : k = Rounds(pb) /\ (k + 1) * RoundTime(s) = Total(s)
    BY <2>1, <2>3, <2>4, <2>5, <2>6, RoundsFacts
  <2>11. (k + 1) * RoundTime(s) = k * RoundTime(s) + RoundTime(s)
         /\ k * RoundTime(s) \in Nat
    BY <2>7, <2>10
  <2>12. Played(pb) = k * RoundTime(s) + StartTime(s, Pos(pb)) + pb.elapsed
    BY <2>4, <2>10 DEF Played
  <2>13. pb.elapsed + e >= Duration(s, pb.idx)
    BY <2>4, <2>5 DEF Due, Spent
  <2>14. Played(pb) \in Nat /\ Played(pb) + e >= Total(s)
    BY <2>7, <2>9, <2>10, <2>11, <2>12, <2>13
  <2>15. clock[g] = AtMost(Played(pb), Total(s))
    BY <2>1, <2>3, <2>4, <2>6 DEF Timed
  <2>16. clock'[g] = AtMost(clock[g] + e, Total(s))
    BY <2>1, <2>3, <2>4, <2>5, <2>6 DEF After, AtMost
  <2>17. clock'[g] >= Total(s)
    BY <2>7, <2>14, <2>15, <2>16 DEF AtMost
  <2>18. shown[g] = Scene(s, pb.idx)
    BY <1>1, <2>3, <2>4, <2>5 DEF IInv
  <2>19. RoundSteps(s) - 1 = Pos(pb)
    BY <2>8
  <2>20. PICK n \in Nat : n = RoundSteps(s)
    BY <2>8
  <2>21. (k + 1) * n = k * n + n /\ k * n \in Nat
    BY <2>10, <2>20
  <2>22. scenes[g] = k * n + Pos(pb) + 1
    BY <1>1, <2>3, <2>4, <2>5, <2>6, <2>10, <2>20 DEF CountInv, Counted
  <2>23. k + 1 = PlannedRounds(s)
    <3>1. s.count \in Nat /\ pb.left \in Nat
      BY <2>1, <2>3, <2>7, ShowFacts DEF Sound, Playback
    <3>2. s.play = "count" =>
            IF s.count > 1 THEN pb.left \in 1 .. s.count ELSE pb.left = s.count
      BY <2>1, <2>3, <2>4 DEF Timed
    <3> QED BY <2>4, <2>5, <2>10, <3>1, <3>2 DEF Rounds, PlannedRounds
  <2>24. scenes[g] = PlannedScenes(s)
    BY <2>8, <2>19, <2>20, <2>21, <2>22, <2>23 DEF PlannedScenes
  <2> QED BY <2>2, <2>3, <2>4, <2>6, <2>8, <2>17, <2>18, <2>19, <2>24
<1>2. (IInv /\ TimeInv /\ CountInv) /\ [Next]_vars => [AllFull]_vars
  BY <1>1 DEF EngineTick
<1> QED BY <1>2, CountInductive, PTL DEF Spec, PlayedInFull

-------------------------------------------------------------------------------

\* The times follow each other, and a poll is never overdue.
Timely ==
  /\ now \in Nat /\ polled \in Nat /\ checked \in Nat
  /\ checked <= polled /\ polled <= now /\ now <= polled + PollLatest
  /\ emptied \in BOOLEAN /\ untouched \in BOOLEAN

\* What was last looked at is the minute of the last look.
LastLook == evaluated # Never => evaluated = OfDay(MinuteOf(checked))

\* While there are entries the looks go on: none is overdue at a poll.
Looking ==
  /\ (entries # <<>> /\ ~emptied /\ evaluated # Never) => polled - checked < Spacing
  /\ (entries = <<>> /\ evaluated # Never) => emptied

\* Before the first look there was no entry at a poll at which it was due.
Beginner ==
  (entries # <<>> /\ untouched /\ evaluated = Never) =>
     MinuteOf(polled) # MinuteOf(now) \/ polled - checked < Spacing

\* A whole minute: the daemon ran when it began, and was looking.
Whole ==
  /\ untouched => ~emptied
  /\ (untouched /\ evaluated = Never) => MinuteOf(checked) # MinuteOf(now)

Expected ==
  IF Matching(entries, MinuteOf(now)) = {} THEN <<>> ELSE <<Commanded(entries, MinuteOf(now))>>

\* A minute's commands are those of its one look.
Progress ==
  /\ untouched /\ MinuteOf(checked) = MinuteOf(now) => executed = Expected
  /\ untouched /\ MinuteOf(checked) # MinuteOf(now) => executed = <<>>

ScheduleInv == Timely /\ LastLook /\ Looking /\ Beginner /\ Whole /\ Progress

-----------------------------------------------------------------------------
\* Two times less than a minute apart lie in one minute or in two that follow
\* each other; in the former only one was looked at before.
LEMMA MinuteFacts ==
  ASSUME NEW s \in Nat, NEW t \in Nat, s <= t
  PROVE  /\ MinuteOf(s) \in Nat /\ MinuteOf(t) \in Nat
         /\ MinuteOf(s) <= MinuteOf(t)
         /\ t - s < Minute => MinuteOf(t) <= MinuteOf(s) + 1
         /\ (MinuteOf(s) # MinuteOf(t)) => s < Minute * MinuteOf(t)
         /\ Minute * MinuteOf(t) <= t
         /\ t < Minute * (MinuteOf(t) + 1)
<1>1. Minute \in Nat \ {0}
  BY ScheduleAssumption
<1> DEFINE a == s \div Minute  b == t \div Minute
<1>2. /\ a \in Nat /\ Minute * a <= s /\ s < Minute * a + Minute
      /\ b \in Nat /\ Minute * b <= t /\ t < Minute * b + Minute
  BY <1>1
<1>3. Minute * (b + 1) = Minute * b + Minute
  BY <1>1, <1>2
<1>4. a <= b
  <2> SUFFICES ASSUME b < a PROVE FALSE
    BY <1>2
  <2>1. Minute * (b + 1) <= Minute * a
    BY <1>1, <1>2
  <2> QED
    BY <1>1, <1>2, <1>3, <2>1
<1>5. (t - s < Minute) => b <= a + 1
  <2> SUFFICES ASSUME t - s < Minute, a + 2 <= b PROVE FALSE
    BY <1>2
  <2>1. Minute * (a + 2) <= Minute * b
    BY <1>1, <1>2
  <2>2. Minute * (a + 2) = Minute * a + Minute + Minute
    BY <1>1, <1>2
  <2> QED
    BY <1>1, <1>2, <2>1, <2>2
<1>6. (a # b) => s < Minute * b
  <2> SUFFICES ASSUME a + 1 <= b PROVE s < Minute * b
    BY <1>2, <1>4
  <2>1. Minute * (a + 1) <= Minute * b
    BY <1>1, <1>2
  <2>2. Minute * (a + 1) = Minute * a + Minute
    BY <1>1, <1>2
  <2> QED
    BY <1>1, <1>2, <2>1, <2>2
<1> QED
  BY <1>2, <1>3, <1>4, <1>5, <1>6 DEF MinuteOf

\* Minutes that follow each other have different places in the day.
LEMMA NextMinute ==
  ASSUME NEW m \in Nat PROVE OfDay(m) # OfDay(m + 1)
<1>1. Day \in Nat /\ Day > 1
  BY ScheduleAssumption
<1> DEFINE p == m \div Day  q == (m + 1) \div Day
<1>2. /\ p \in Nat /\ q \in Nat
      /\ m = Day * p + (m % Day)
      /\ m + 1 = Day * q + ((m + 1) % Day)
      /\ m % Day \in Nat /\ (m + 1) % Day \in Nat
  <2>1. ASSUME NEW n \in Nat
        PROVE  n \div Day \in Nat /\ n % Day \in Nat /\ n = Day * (n \div Day) + (n % Day)
    <3>1. n \div Day \in Nat
      BY <1>1
    <3>2. n % Day \in Nat
      BY <1>1
    <3>3. n = Day * (n \div Day) + (n % Day)
      BY <1>1
    <3> QED
      BY <3>1, <3>2, <3>3
  <2>2. m + 1 \in Nat
    OBVIOUS
  <2> QED
    BY <2>1, <2>2
<1>3. SUFFICES ASSUME m % Day = (m + 1) % Day PROVE FALSE
  BY DEF OfDay
<1>4. Day * q = Day * p + 1
  BY <1>1, <1>2, <1>3
<1>5. CASE q <= p
  <2>1. Day * q <= Day * p
    BY <1>1, <1>2, <1>5
  <2> QED
    BY <1>1, <1>2, <1>4, <2>1
<1>6. CASE p + 1 <= q
  <2>1. Day * (p + 1) <= Day * q
    BY <1>1, <1>2, <1>6
  <2>2. Day * (p + 1) = Day * p + Day
    BY <1>1, <1>2
  <2> QED
    BY <1>1, <1>2, <1>4, <2>1, <2>2
<1> QED
  BY <1>2, <1>5, <1>6

-----------------------------------------------------------------------------
LEMMA InitHolds ==
  ScheduleInit => ScheduleInv
<1> SUFFICES ASSUME NEW t \in Starts, Beginning(t) PROVE ScheduleInv
  BY DEF ScheduleInit
<1>1. t \in Nat /\ PollLatest \in Nat /\ Spacing \in Nat
  BY ScheduleAssumption
<1>2. now = t /\ polled = t /\ checked = t /\ evaluated = Never /\ entries = <<>>
      /\ executed = <<>> /\ emptied = FALSE /\ untouched = FALSE
  BY DEF Beginning
<1>3. Timely
  <2>1. emptied \in BOOLEAN /\ untouched \in BOOLEAN
    BY <1>2, Zenon
  <2> QED
    BY <1>1, <1>2, <2>1 DEF Timely
<1>4. LastLook /\ Looking /\ Beginner /\ Whole /\ Progress
  BY <1>1, <1>2 DEF LastLook, Looking, Beginner, Whole, Progress
<1> QED
  BY <1>3, <1>4 DEF ScheduleInv

\* The look of a minute that is whole and about to end: there was one, if there
\* are entries.
LEMMA LookedAt ==
  ASSUME ScheduleInv, untouched, entries # <<>>,
         NEW to \in Nat, now < to, to <= polled + PollLatest, MinuteOf(to) # MinuteOf(now)
  PROVE  MinuteOf(checked) = MinuteOf(now)
<1>1. /\ now \in Nat /\ polled \in Nat /\ checked \in Nat /\ checked <= polled /\ polled <= now
      /\ Spacing \in Nat /\ PollLatest \in Nat /\ Minute \in Nat \ {0}
      /\ Spacing + PollLatest <= Minute /\ Spacing > 0
  BY ScheduleAssumption DEF ScheduleInv, Timely
<1>2. /\ MinuteOf(checked) \in Nat /\ MinuteOf(polled) \in Nat /\ MinuteOf(now) \in Nat
      /\ MinuteOf(to) \in Nat
      /\ MinuteOf(checked) <= MinuteOf(now) /\ MinuteOf(polled) <= MinuteOf(now)
      /\ MinuteOf(now) <= MinuteOf(to)
      /\ Minute * MinuteOf(to) <= to
      /\ MinuteOf(checked) # MinuteOf(now) => checked < Minute * MinuteOf(now)
      /\ MinuteOf(polled) # MinuteOf(now) => polled < Minute * MinuteOf(now)
  <2>1. checked <= now /\ now <= to
    BY <1>1
  <2>2. /\ MinuteOf(checked) \in Nat /\ MinuteOf(checked) <= MinuteOf(now)
        /\ MinuteOf(checked) # MinuteOf(now) => checked < Minute * MinuteOf(now)
    BY <1>1, <2>1, MinuteFacts
  <2>3. /\ MinuteOf(polled) \in Nat /\ MinuteOf(polled) <= MinuteOf(now)
        /\ MinuteOf(polled) # MinuteOf(now) => polled < Minute * MinuteOf(now)
    BY <1>1, MinuteFacts
  <2>4. /\ MinuteOf(now) \in Nat /\ MinuteOf(to) \in Nat /\ MinuteOf(now) <= MinuteOf(to)
        /\ Minute * MinuteOf(to) <= to
    BY <1>1, <2>1, MinuteFacts
  <2> QED
    BY <2>2, <2>3, <2>4
<1>3. Minute * MinuteOf(now) + Minute <= to
  <2>1. MinuteOf(now) + 1 <= MinuteOf(to)
    BY <1>2
  <2>2. Minute * (MinuteOf(now) + 1) <= Minute * MinuteOf(to)
    BY <1>1, <1>2, <2>1
  <2>3. Minute * (MinuteOf(now) + 1) = Minute * MinuteOf(now) + Minute
    BY <1>1, <1>2
  <2> QED
    BY <1>1, <1>2, <2>2, <2>3
<1>4. Minute * MinuteOf(now) \in Nat
  BY <1>1, <1>2
<1>5. MinuteOf(polled) = MinuteOf(now)
  BY <1>1, <1>2, <1>3, <1>4
<1>6. polled - checked < Spacing
  BY <1>5 DEF ScheduleInv, Looking, Beginner, Whole
<1> QED
  BY <1>1, <1>2, <1>3, <1>4, <1>6

LEMMA NoneMatches ==
  ASSUME entries = <<>> PROVE Matching(entries, MinuteOf(now)) = {}
BY DEF Matching

\* When a whole minute ends, its commands were carried out once.
LEMMA FiredAtTheEnd ==
  ASSUME ScheduleInv, untouched,
         NEW to \in Nat, now < to, to <= polled + PollLatest, MinuteOf(to) # MinuteOf(now)
  PROVE  executed = Expected
<1>1. CASE entries # <<>>
  BY <1>1, LookedAt DEF ScheduleInv, Progress
<1>2. CASE entries = <<>>
  BY <1>2, NoneMatches DEF ScheduleInv, Progress, Expected
<1> QED
  BY <1>1, <1>2

-----------------------------------------------------------------------------
LEMMA PassKeeps ==
  ASSUME ScheduleInv, NEW d \in 1..PollLatest, Pass(now + d)
  PROVE  ScheduleInv'
<1> DEFINE to == now + d
<1>1. /\ now \in Nat /\ to \in Nat /\ now < to /\ to <= polled + PollLatest
      /\ now' = to /\ polled \in Nat /\ checked \in Nat /\ checked <= polled /\ polled <= now
      /\ PollLatest \in Nat
  BY ScheduleAssumption DEF ScheduleInv, Timely, Pass
<1>2. /\ MinuteOf(now) <= MinuteOf(to) /\ MinuteOf(checked) <= MinuteOf(now)
      /\ MinuteOf(polled) <= MinuteOf(now)
      /\ {MinuteOf(checked), MinuteOf(polled), MinuteOf(now), MinuteOf(to)} \subseteq Nat
  BY <1>1, MinuteFacts
<1>3. CASE MinuteOf(to) = MinuteOf(now)
  <2>1. UNCHANGED <<executed, untouched, polled, entries, checked, evaluated, emptied>>
    BY <1>3 DEF Pass
  <2>2. MinuteOf(now)' = MinuteOf(now) /\ MinuteOf(checked)' = MinuteOf(checked)
        /\ MinuteOf(polled)' = MinuteOf(polled)
    BY <1>1, <1>3, <2>1 DEF MinuteOf
  <2>3. Expected' = Expected
    BY <2>1, <2>2 DEF Expected, Matching, Commanded, Matches
  <2> QED
    BY <1>1, <2>1, <2>2, <2>3
    DEF ScheduleInv, Timely, LastLook, Looking, Beginner, Whole, Progress
<1>4. CASE MinuteOf(to) # MinuteOf(now)
  <2>1. /\ executed' = <<>> /\ untouched' = ~emptied
        /\ UNCHANGED <<polled, entries, checked, evaluated, emptied>>
    BY <1>4 DEF Pass
  <2>2. MinuteOf(now)' = MinuteOf(to) /\ MinuteOf(checked)' = MinuteOf(checked)
        /\ MinuteOf(polled)' = MinuteOf(polled)
    BY <1>1, <2>1 DEF MinuteOf
  <2>3. MinuteOf(checked)' # MinuteOf(now)' /\ MinuteOf(polled)' # MinuteOf(now)'
    BY <1>2, <1>4, <2>2
  <2> QED
    BY <1>1, <2>1, <2>2, <2>3
    DEF ScheduleInv, Timely, LastLook, Looking, Beginner, Whole, Progress
<1> QED
  BY <1>3, <1>4

LEMMA EditKeeps ==
  ASSUME ScheduleInv, NEW list, Edit(list)
  PROVE  ScheduleInv'
<1>1. /\ entries' = list /\ untouched' = FALSE
      /\ emptied' = (emptied \/ (entries # <<>> /\ list = <<>>))
      /\ UNCHANGED <<now, polled, checked, evaluated, executed>>
  BY DEF Edit
<1> QED
  BY <1>1 DEF ScheduleInv, Timely, LastLook, Looking, Beginner, Whole, Progress, MinuteOf

LEMMA PollKeeps ==
  ASSUME ScheduleInv, Poll
  PROVE  ScheduleInv'
<1>1. /\ now \in Nat /\ polled \in Nat /\ checked \in Nat /\ checked <= polled /\ polled <= now
      /\ polled' = now /\ UNCHANGED <<now, entries, untouched>>
      /\ Spacing \in Nat /\ PollLatest \in Nat /\ Spacing > 0 /\ Spacing + PollLatest <= Minute
      /\ now <= polled + PollLatest
  BY ScheduleAssumption DEF ScheduleInv, Timely, Poll
<1>2. MinuteOf(now)' = MinuteOf(now) /\ Expected' = Expected
  BY <1>1 DEF MinuteOf, Expected, Matching, Commanded, Matches
<1>3. CASE entries # <<>> /\ now - checked >= Spacing
  <2>1. Evaluate
    BY <1>3 DEF Poll
  <2>2. /\ checked' = now /\ emptied' = FALSE /\ evaluated' = OfDay(MinuteOf(now))
        /\ MinuteOf(checked)' = MinuteOf(now)
    BY <1>1, <2>1 DEF Evaluate, MinuteOf
  <2>3. MinuteOf(now) \in Nat /\ MinuteOf(checked) \in Nat /\ MinuteOf(checked) <= MinuteOf(now)
    BY <1>1, MinuteFacts
  <2>4. evaluated' # Never
    BY <2>2, <2>3, ScheduleAssumption DEF OfDay
  <2>5. ASSUME untouched PROVE executed' = Expected
    <3>1. CASE MinuteOf(checked) = MinuteOf(now)
      <4>1. evaluated # Never
        BY <2>5, <3>1 DEF ScheduleInv, Whole
      <4>2. evaluated = OfDay(MinuteOf(now))
        BY <3>1, <4>1 DEF ScheduleInv, LastLook
      <4>3. executed' = executed
        BY <2>1, <4>2 DEF Evaluate
      <4> QED
        BY <2>5, <3>1, <4>3 DEF ScheduleInv, Progress
    <3>2. CASE MinuteOf(checked) # MinuteOf(now)
      <4>1. executed = <<>>
        BY <2>5, <3>2 DEF ScheduleInv, Progress
      <4>2. evaluated # OfDay(MinuteOf(now))
        <5>1. CASE evaluated = Never
          BY <5>1, <2>3, ScheduleAssumption DEF OfDay
        <5>2. CASE evaluated # Never
          <6>1. polled - checked < Spacing
            BY <1>3, <2>5, <5>2 DEF ScheduleInv, Looking, Whole
          <6>2. now - checked < Minute
            BY <1>1, <6>1, ScheduleAssumption
          <6>3. MinuteOf(now) = MinuteOf(checked) + 1
            <7>1. checked <= now
              BY <1>1
            <7>2. MinuteOf(now) <= MinuteOf(checked) + 1
              BY <1>1, <6>2, <7>1, MinuteFacts
            <7> QED
              BY <2>3, <3>2, <7>2
          <6>4. evaluated = OfDay(MinuteOf(checked))
            BY <5>2 DEF ScheduleInv, LastLook
          <6> QED
            BY <2>3, <6>3, <6>4, NextMinute
        <5> QED
          BY <5>1, <5>2
      <4>3. executed' = Expected
        BY <2>1, <4>1, <4>2 DEF Evaluate, Expected
      <4> QED
        BY <4>3
    <3> QED
      BY <3>1, <3>2
  <2>6. Timely'
    <3>1. emptied' \in BOOLEAN /\ untouched' \in BOOLEAN
      BY <1>1, <2>2, Zenon DEF ScheduleInv, Timely
    <3> QED
      BY <1>1, <2>2, <3>1 DEF Timely
  <2>7. Looking'
    BY <1>1, <1>3, <2>2 DEF Looking
  <2>8. LastLook' /\ Beginner'
    BY <2>2, <2>4 DEF LastLook, Beginner
  <2>9. Whole' /\ Progress'
    BY <1>1, <1>2, <2>2, <2>4, <2>5 DEF Whole, Progress
  <2> QED
    BY <2>6, <2>7, <2>8, <2>9 DEF ScheduleInv
<1>4. CASE ~(entries # <<>> /\ now - checked >= Spacing)
  <2>1. UNCHANGED <<checked, evaluated, executed, emptied>>
    BY <1>4 DEF Poll
  <2>2. MinuteOf(checked)' = MinuteOf(checked)
    BY <2>1 DEF MinuteOf
  <2>3. entries # <<>> => now - checked < Spacing
    BY <1>1, <1>4
  <2> QED
    BY <1>1, <1>2, <2>1, <2>2, <2>3
    DEF ScheduleInv, Timely, LastLook, Looking, Beginner, Whole, Progress
<1> QED
  BY <1>3, <1>4

LEMMA StutterKeeps ==
  ASSUME ScheduleInv, UNCHANGED scheduleVars
  PROVE  ScheduleInv'
BY DEF ScheduleInv, Timely, LastLook, Looking, Beginner, Whole, Progress, Expected,
       Matching, Commanded, Matches, MinuteOf, scheduleVars

LEMMA StepKeeps ==
  ASSUME ScheduleInv, [ScheduleNext]_scheduleVars
  PROVE  ScheduleInv'
<1>1. ASSUME NEW d \in 1..PollLatest, Pass(now + d) PROVE ScheduleInv'
  BY <1>1, PassKeeps
<1>2. ASSUME NEW e \in Entries, AddEntry(e) PROVE ScheduleInv'
  BY <1>2, EditKeeps DEF AddEntry
<1>3. ASSUME NEW i \in DOMAIN entries, RemoveEntry(i) PROVE ScheduleInv'
  BY <1>3, EditKeeps DEF RemoveEntry
<1>4. CASE ClearEntries
  BY <1>4, EditKeeps DEF ClearEntries
<1>5. CASE Poll
  BY <1>5, PollKeeps
<1> QED
  BY <1>1, <1>2, <1>3, <1>4, <1>5, StutterKeeps DEF ScheduleNext

\* Only the time that passes ends a minute.
LEMMA MinuteEnds ==
  ASSUME ScheduleInv, ScheduleNext, MinuteOf(now') # MinuteOf(now), untouched
  PROVE  executed = Expected
<1>1. now' # now
  OBVIOUS
<1>2. PICK d \in 1..PollLatest : Pass(now + d)
  BY <1>1 DEF ScheduleNext, AddEntry, RemoveEntry, ClearEntries, Edit, Poll
<1>3. /\ now \in Nat /\ now + d \in Nat /\ now < now + d /\ now + d <= polled + PollLatest
      /\ now' = now + d
  BY <1>2, ScheduleAssumption DEF ScheduleInv, Timely, Pass
<1> QED
  BY <1>3, FiredAtTheEnd

-----------------------------------------------------------------------------
\* The invariant: looks are never overdue, and a whole minute has at most one.
THEOREM AlwaysLooking == ScheduleSpec => []ScheduleInv
<1>1. ScheduleInit => ScheduleInv
  BY InitHolds
<1>2. ScheduleInv /\ [ScheduleNext]_scheduleVars => ScheduleInv'
  BY StepKeeps
<1> QED
  BY <1>1, <1>2, PTL DEF ScheduleSpec

\* Every entry is carried out in its minute and once, for any entries, days
\* and poll intervals (scheduler.rs: "ensuring schedules fire within a minute
\* of their target time").
THEOREM FiresInItsMinute == ScheduleSpec => FiredInItsMinute
<1>1. ScheduleInv /\ [ScheduleNext]_scheduleVars =>
        [MinuteOf(now') # MinuteOf(now) /\ untouched =>
           executed = IF Matching(entries, MinuteOf(now)) = {} THEN <<>>
                      ELSE <<Commanded(entries, MinuteOf(now))>>]_scheduleVars
  <2> SUFFICES ASSUME ScheduleInv, ScheduleNext, MinuteOf(now') # MinuteOf(now), untouched
               PROVE  executed = Expected
    BY DEF Expected
  <2> QED
    BY MinuteEnds
<1> QED
  BY <1>1, AlwaysLooking, PTL DEF ScheduleSpec, FiredInItsMinute

-----------------------------------------------------------------------------
(* The panels, the handles and what an operation on them leaves alone.       *)

PanelShape(x) ==
  x = [shows |-> x.shows, brightness |-> x.brightness, rotation |-> x.rotation,
       answers |-> x.answers, attached |-> x.attached]

\* Every handle reaches a panel or none, and no two the same.
UsbShape(u) ==
  /\ u = [p |-> u.p, h |-> u.h, c |-> u.c, ok |-> u.ok]
  /\ u.p = [x \in Ids |-> u.p[x]] /\ \A x \in Ids : PanelShape(u.p[x])
  /\ u.h = [d \in Opened |-> u.h[d]] /\ \A d \in Opened : u.h[d] \in Ids \cup {Absent}
  /\ \A d, e \in Opened : u.h[d] # Absent /\ u.h[d] = u.h[e] => d = e

\* What was set is as it was, and but for d every handle is.
KeepsSettings(u, v) ==
  \A x \in Ids : v.p[x].brightness = u.p[x].brightness /\ v.p[x].rotation = u.p[x].rotation
KeepsOthers(u, v, d) == \A e \in Opened : e # d => v.h[e] = u.h[e]

LEMMA FieldSet ==
  ASSUME NEW q, PanelShape(q), NEW field \in {"shows", "brightness", "rotation"}, NEW to
  PROVE  [q EXCEPT ![field] = to] = [shows |-> IF field = "shows" THEN to ELSE q.shows,
                                     brightness |-> IF field = "brightness" THEN to ELSE q.brightness,
                                     rotation |-> IF field = "rotation" THEN to ELSE q.rotation,
                                     answers |-> q.answers, attached |-> q.attached]
<1>1. PICK s, b, t, a, c : q = [shows |-> s, brightness |-> b, rotation |-> t, answers |-> a, attached |-> c]
  BY DEF PanelShape
<1>2. q.shows = s /\ q.brightness = b /\ q.rotation = t /\ q.answers = a /\ q.attached = c
  BY <1>1
<1>3. CASE field = "shows"
  BY <1>1, <1>2, <1>3
<1>4. CASE field = "brightness"
  BY <1>1, <1>2, <1>4
<1>5. CASE field = "rotation"
  BY <1>1, <1>2, <1>5
<1> QED BY <1>3, <1>4, <1>5

LEMMA ToldIs ==
  ASSUME NEW u, UsbShape(u), NEW d \in Opened, u.h[d] # Absent,
         NEW field \in {"shows", "brightness", "rotation"}, NEW to, NEW answer
  PROVE  LET v == Told(u, d, field, to, answer)
         IN /\ UsbShape(v) /\ v.h = u.h /\ v.ok = u.ok /\ v.c = u.c
            /\ \A x \in Ids :
                 /\ v.p[x].shows = IF x = u.h[d] /\ field = "shows" THEN to ELSE u.p[x].shows
                 /\ v.p[x].brightness = IF x = u.h[d] /\ field = "brightness" THEN to ELSE u.p[x].brightness
                 /\ v.p[x].rotation = IF x = u.h[d] /\ field = "rotation" THEN to ELSE u.p[x].rotation
<1>1. PICK x \in Ids : x = u.h[d]
  BY DEF UsbShape
<1>2. PICK q : q = u.p[x] /\ PanelShape(q)
  BY DEF UsbShape
<1> DEFINE new == [shows |-> IF field = "shows" THEN to ELSE q.shows,
                   brightness |-> IF field = "brightness" THEN to ELSE q.brightness,
                   rotation |-> IF field = "rotation" THEN to ELSE q.rotation,
                   answers |-> Append(q.answers, answer), attached |-> q.attached]
           P == [y \in Ids |-> IF y = x THEN new ELSE u.p[y]]
           v == [p |-> P, h |-> u.h, c |-> u.c, ok |-> u.ok]
<1> DEFINE set == [shows |-> IF field = "shows" THEN to ELSE q.shows,
                   brightness |-> IF field = "brightness" THEN to ELSE q.brightness,
                   rotation |-> IF field = "rotation" THEN to ELSE q.rotation,
                   answers |-> q.answers, attached |-> q.attached]
           P1 == [y \in Ids |-> IF y = x THEN set ELSE u.p[y]]
           v1 == [p |-> P1, h |-> u.h, c |-> u.c, ok |-> u.ok]
<1>3. [q EXCEPT ![field] = to] = set
  BY <1>2, FieldSet
<1>31. [set EXCEPT !.answers = Append(@, answer)] = new
  BY SMTT(40)
<1> HIDE DEF set, new
<1>4. Told(u, d, field, to, answer) = v
  <2>1. [u EXCEPT !.p[x][field] = to] = v1
    BY <1>2, <1>3 DEF UsbShape
  <2>2. [v1 EXCEPT !.p[x].answers = Append(@, answer)] = v
    <3>1. v1.p[x] = set /\ v1.p = P1
      OBVIOUS
    <3>2. [P1 EXCEPT ![x] = new] = P
      OBVIOUS
    <3>3. [v1 EXCEPT !.p = P] = v
      <4> HIDE DEF P, P1
      <4> QED OBVIOUS
    <3>4. [v1 EXCEPT !.p[x].answers = Append(@, answer)]
            = [v1 EXCEPT !.p = [v1.p EXCEPT ![x] = [v1.p[x] EXCEPT !.answers = Append(@, answer)]]]
      OBVIOUS
    <3> HIDE DEF P1, v1, P, v
    <3> QED BY <1>31, <3>1, <3>2, <3>3, <3>4
  <2>3. Told(u, d, field, to, answer)
          = [[u EXCEPT !.p[x][field] = to] EXCEPT !.p[x].answers = Append(@, answer)]
    BY <1>1 DEF Told
  <2> HIDE DEF v, v1
  <2> QED BY <2>1, <2>2, <2>3
<1>5. /\ v.p = P /\ v.h = u.h /\ v.c = u.c /\ v.ok = u.ok
      /\ v = [p |-> v.p, h |-> v.h, c |-> v.c, ok |-> v.ok]
  OBVIOUS
<1>6. \A y \in Ids : P[y] = IF y = x THEN new ELSE u.p[y]
  OBVIOUS
<1>7. PanelShape(new)
  BY DEF PanelShape, new
<1>8. /\ new.shows = IF field = "shows" THEN to ELSE q.shows
      /\ new.brightness = IF field = "brightness" THEN to ELSE q.brightness
      /\ new.rotation = IF field = "rotation" THEN to ELSE q.rotation
  BY DEF new
<1>9. P = [y \in Ids |-> P[y]]
  OBVIOUS
<1> HIDE DEF P, new, v
<1>10. UsbShape(v)
  BY <1>5, <1>6, <1>7, <1>9, SMTT(40) DEF UsbShape
<1> QED BY <1>1, <1>2, <1>4, <1>5, <1>6, <1>8, <1>10

\* The answer that is read, or not, changes nothing else.
LEMMA AnsweredIs ==
  ASSUME NEW u, UsbShape(u), NEW d \in Opened, u.h[d] # Absent, NEW late
  PROVE  LET v == Answered(u, d, late)
         IN /\ UsbShape(v) /\ v.h = u.h /\ v.ok = u.ok /\ v.c = u.c
            /\ KeepsSettings(u, v) /\ \A x \in Ids : v.p[x].shows = u.p[x].shows
<1>1. PICK x \in Ids : x = u.h[d]
  BY DEF UsbShape
<1>2. PICK q : q = u.p[x] /\ PanelShape(q)
  BY DEF UsbShape
<1>3. PICK rest : rest = Tail(q.answers)
  OBVIOUS
<1> DEFINE new == [shows |-> q.shows, brightness |-> q.brightness, rotation |-> q.rotation,
                   answers |-> rest, attached |-> q.attached]
           P == [y \in Ids |-> IF y = x THEN new ELSE u.p[y]]
           v == [p |-> P, h |-> u.h, c |-> u.c, ok |-> u.ok]
<1>4. CASE Answered(u, d, late) = u
  BY <1>4 DEF KeepsSettings
<1>5. CASE Answered(u, d, late) = [u EXCEPT !.p[x].answers = Tail(@)]
  <2>1. [q EXCEPT !.answers = Tail(@)] = new
    <3>1. PICK s, b, t, a, c : q = [shows |-> s, brightness |-> b, rotation |-> t, answers |-> a,
                                    attached |-> c]
      BY <1>2 DEF PanelShape
    <3>2. q.shows = s /\ q.brightness = b /\ q.rotation = t /\ q.answers = a /\ q.attached = c
      BY <3>1
    <3>3. [q EXCEPT !.answers = Tail(@)] = [q EXCEPT !.answers = rest]
      BY <1>3, Zenon
    <3>4. [q EXCEPT !.answers = rest] = new
      BY <3>1, <3>2
    <3> HIDE DEF new
    <3> QED BY <3>3, <3>4, Zenon
  <2>2. [u EXCEPT !.p[x].answers = Tail(@)]
          = [u EXCEPT !.p = [u.p EXCEPT ![x] = [u.p[x] EXCEPT !.answers = Tail(@)]]]
    BY DEF UsbShape
  <2>3. /\ new.shows = q.shows /\ new.brightness = q.brightness /\ new.rotation = q.rotation
        /\ PanelShape(new)
    BY DEF PanelShape
  <2> HIDE DEF new
  <2>4. [u.p EXCEPT ![x] = new] = P
    BY DEF UsbShape
  <2>5. (\A y \in Ids : P[y] = IF y = x THEN new ELSE u.p[y]) /\ P = [y \in Ids |-> P[y]]
    OBVIOUS
  <2> HIDE DEF P
  <2>6. [u EXCEPT !.p = P] = v
    BY DEF UsbShape
  <2>7. Answered(u, d, late) = v
    BY <1>2, <1>5, <2>1, <2>2, <2>4, <2>6
  <2>8. /\ v.p = P /\ v.h = u.h /\ v.c = u.c /\ v.ok = u.ok
        /\ v = [p |-> v.p, h |-> v.h, c |-> v.c, ok |-> v.ok]
    OBVIOUS
  <2> HIDE DEF v
  <2>9. UsbShape(v)
    BY <2>3, <2>5, <2>8 DEF UsbShape
  <2> QED BY <1>1, <1>2, <2>3, <2>5, <2>7, <2>8, <2>9 DEF KeepsSettings
<1> QED BY <1>1, <1>4, <1>5 DEF Answered

\* The first of the panels of a product.
LEMMA FirstIsPanel ==
  ASSUME NEW S, S \subseteq 1..Len(Panels), S # {}
  PROVE  Panels[Min(S)] \in Ids
<1>1. S \subseteq Nat
  BY PanelsAssumption
<1>2. PICK i \in S : \A j \in S : i <= j
  <2> DEFINE R == {ss \in Nat \X Nat : ss[1] < ss[2]}
  <2>1. IsWellFoundedOn(R, Nat)
    BY NatLessThanWellFounded DEF OpToRel
  <2>2. PICK x \in S : \A y \in S : <<y, x>> \notin R
    <3> HIDE DEF R
    <3> QED BY <1>1, <2>1, WFMin
  <2>3. \A y \in S : ~(y < x)
    BY <1>1, <2>2
  <2> QED BY <1>1, <2>3
<1>3. Min(S) \in S
  BY <1>2 DEF Min
<1> QED BY <1>3 DEF Ids

\* A device that is opened anew reaches a panel that no other handle reaches, or none.
LEMMA ReopenKeeps ==
  ASSUME NEW u, UsbShape(u), NEW d \in Opened
  PROVE  LET v == Reopen(u, d)
         IN UsbShape(v) /\ KeepsSettings(u, v) /\ KeepsOthers(u, v, d) /\ v.ok = u.ok
<1> DEFINE found == {i \in 1..Len(Panels) : Product[Panels[i]] = Product[d] /\ u.p[Panels[i]].attached}
<1>1. PICK first : first = Panels[Min(found)]
  OBVIOUS
<1>2. PICK held : held = \E other \in DOMAIN u.h \ {d} : u.h[other] = first
  OBVIOUS
<1> DEFINE to == IF found = {} \/ held THEN Absent ELSE first
           H == [e \in Opened |-> IF e = d THEN to ELSE u.h[e]]
<1>3. \A t : [u.h EXCEPT ![d] = t] = [e \in Opened |-> IF e = d THEN t ELSE u.h[e]]
  BY DEF UsbShape
<1>4. \A P : UsbShape([p |-> P, h |-> H, c |-> u.c, ok |-> u.ok])
               <=> /\ P = [x \in Ids |-> P[x]] /\ \A x \in Ids : PanelShape(P[x])
                   /\ \A e \in Opened : H[e] \in Ids \cup {Absent}
                   /\ \A e, f \in Opened : H[e] # Absent /\ H[e] = H[f] => e = f
  BY DEF UsbShape
<1>5. /\ \A e \in Opened : H[e] = IF e = d THEN to ELSE u.h[e]
      /\ H = [e \in Opened |-> H[e]]
  OBVIOUS
<1>6. CASE found = {}
  <2>1. Reopen(u, d) = [p |-> u.p, h |-> H, c |-> u.c, ok |-> u.ok]
    <3>1. Reopen(u, d) = [u EXCEPT !.h = [u.h EXCEPT ![d] = Absent]]
      BY <1>6, Zenon DEF Reopen, UsbShape
    <3>2. [u.h EXCEPT ![d] = Absent] = H
      BY <1>3, <1>6
    <3> HIDE DEF H
    <3> QED BY <3>1, <3>2, SMTT(60) DEF UsbShape
  <2>2. PICK v : v = [p |-> u.p, h |-> H, c |-> u.c, ok |-> u.ok]
    OBVIOUS
  <2>3. to = Absent
    BY <1>6
  <2> HIDE DEF H, to
  <2>4. v.p = u.p /\ v.h = H /\ v.ok = u.ok
    BY <2>2
  <2>5. UsbShape(v)
    BY <1>4, <1>5, <2>2, <2>3 DEF UsbShape
  <2> QED BY <1>5, <2>1, <2>2, <2>4, <2>5 DEF KeepsSettings, KeepsOthers
<1>7. CASE found # {}
  <2>1. first \in Ids
    <3>1. found \subseteq 1..Len(Panels)
      OBVIOUS
    <3> HIDE DEF found
    <3> QED BY <1>1, <1>7, <3>1, FirstIsPanel
  <2>2. PICK q : q = u.p[first] /\ PanelShape(q)
    BY <2>1 DEF UsbShape
  <2> DEFINE new == [shows |-> Black, brightness |-> q.brightness, rotation |-> q.rotation,
                     answers |-> <<>>, attached |-> q.attached]
             P == [x \in Ids |-> IF x = first THEN new ELSE u.p[x]]
  <2>3. [[q EXCEPT !.answers = <<>>] EXCEPT !.shows = Black] = new
    <3>1. PICK black : black = Black
      OBVIOUS
    <3>2. PICK none : none = <<>>
      OBVIOUS
    <3>3. [q EXCEPT !.answers = none] = [shows |-> q.shows, brightness |-> q.brightness,
            rotation |-> q.rotation, answers |-> none, attached |-> q.attached]
      <4>1. PICK s, b, t, a, c : q = [shows |-> s, brightness |-> b, rotation |-> t, answers |-> a,
                                      attached |-> c]
        BY <2>2 DEF PanelShape
      <4>2. q.shows = s /\ q.brightness = b /\ q.rotation = t /\ q.attached = c
        BY <4>1
      <4> QED BY <4>1, <4>2
    <3>4. PICK x1, x2, x3, x4 : x1 = q.shows /\ x2 = q.brightness /\ x3 = q.rotation /\ x4 = q.attached
      OBVIOUS
    <3>5. PICK r : r = [shows |-> x1, brightness |-> x2, rotation |-> x3, answers |-> none, attached |-> x4]
      OBVIOUS
    <3>6. [r EXCEPT !.shows = black] = [shows |-> black, brightness |-> x2, rotation |-> x3,
                                        answers |-> none, attached |-> x4]
      BY <3>5
    <3>7. [q EXCEPT !.answers = none] = r
      BY <3>3, <3>4, <3>5
    <3> QED BY <3>1, <3>2, <3>4, <3>6, <3>7, Zenon
  <2>4. to = IF held THEN Absent ELSE first
    BY <1>7, Zenon
  <2>5. Reopen(u, d) = [[[u EXCEPT !.p[first].answers = <<>>] EXCEPT !.p[first].shows = Black]
                          EXCEPT !.h[d] = to]
    BY <1>1, <1>2, <1>7, Zenon DEF Reopen
  <2>6. PICK v : v = [p |-> P, h |-> H, c |-> u.c, ok |-> u.ok]
    OBVIOUS
  <2>7. Reopen(u, d) = v
    <3> DEFINE r == [q EXCEPT !.answers = <<>>]
               P1 == [x \in Ids |-> IF x = first THEN r ELSE u.p[x]]
               u1 == [p |-> P1, h |-> u.h, c |-> u.c, ok |-> u.ok]
               u2 == [p |-> P, h |-> u.h, c |-> u.c, ok |-> u.ok]
    <3>1. [u.h EXCEPT ![d] = to] = H
      <4> HIDE DEF to
      <4> QED BY <1>3
    <3>2. [u EXCEPT !.p[first].answers = <<>>] = [u EXCEPT !.p = [u.p EXCEPT ![first] = r]]
      BY <2>2 DEF UsbShape
    <3>3. [r EXCEPT !.shows = Black] = new
      BY <2>3
    <3> HIDE DEF new, r, H, to
    <3>4. [u.p EXCEPT ![first] = r] = P1 /\ P1[first] = r
      BY <2>1 DEF UsbShape
    <3>5. [P1 EXCEPT ![first] = new] = P
      BY <2>1
    <3> HIDE DEF P1, P
    <3>6. [u EXCEPT !.p = P1] = u1
      BY DEF UsbShape
    <3>7. [u1 EXCEPT !.p[first].shows = Black] = [u1 EXCEPT !.p = [P1 EXCEPT ![first] = [P1[first] EXCEPT !.shows = Black]]]
      OBVIOUS
    <3>8. [u1 EXCEPT !.p = P] = u2
      OBVIOUS
    <3>9. [u2 EXCEPT !.h[d] = to] = [u2 EXCEPT !.h = [u.h EXCEPT ![d] = to]]
      OBVIOUS
    <3>10. [u2 EXCEPT !.h = H] = v
      BY <2>6
    <3> HIDE DEF u1, u2
    <3>11. [u EXCEPT !.p[first].answers = <<>>] = u1
      BY <3>2, <3>4, <3>6, Zenon
    <3>12. [u1 EXCEPT !.p[first].shows = Black] = u2
      BY <3>3, <3>4, <3>5, <3>7, <3>8, Zenon
    <3>13. [u2 EXCEPT !.h[d] = to] = v
      BY <3>1, <3>9, <3>10, Zenon
    <3> QED BY <2>5, <3>11, <3>12, <3>13, Zenon
  <2>8. /\ new.brightness = q.brightness /\ new.rotation = q.rotation /\ PanelShape(new)
    BY DEF PanelShape
  <2>9. (\A x \in Ids : P[x] = IF x = first THEN new ELSE u.p[x]) /\ P = [x \in Ids |-> P[x]]
    <3> HIDE DEF new
    <3> QED OBVIOUS
  <2>10. ~held => \A e \in Opened : e # d => u.h[e] # first
    BY <1>2 DEF UsbShape
  <2> HIDE DEF H, to, new, P, found
  <2>11. v.p = P /\ v.h = H /\ v.ok = u.ok
    BY <2>6
  <2>12. \A e \in Opened : H[e] \in Ids \cup {Absent}
    BY <1>5, <2>1, <2>4 DEF UsbShape
  <2>13. ASSUME NEW e \in Opened, NEW f \in Opened, H[e] # Absent, H[e] = H[f] PROVE e = f
    BY <1>5, <2>4, <2>10, <2>13 DEF UsbShape
  <2>14. UsbShape(v)
    BY <1>4, <2>6, <2>8, <2>9, <2>12, <2>13 DEF UsbShape
  <2> QED BY <1>5, <2>2, <2>7, <2>8, <2>9, <2>11, <2>14 DEF KeepsSettings, KeepsOthers
<1> QED BY <1>6, <1>7

\* A device that is reconnected or left for the cooldown.
LEMMA ReconnectKeeps ==
  ASSUME NEW u, UsbShape(u), NEW d \in Opened
  PROVE  LET v == TryReconnect(u, d)
         IN UsbShape(v) /\ KeepsSettings(u, v) /\ KeepsOthers(u, v, d) /\ v.ok = u.ok
<1>1. CASE u.c[d] > 0
  BY <1>1 DEF TryReconnect, KeepsSettings, KeepsOthers
<1>2. CASE ~(u.c[d] > 0)
  <2>1. PICK w : w = Reopen(u, d)
    OBVIOUS
  <2>2. UsbShape(w) /\ KeepsSettings(u, w) /\ KeepsOthers(u, w, d) /\ w.ok = u.ok
    BY <2>1, ReopenKeeps
  <2>3. PICK v : v = [w EXCEPT !.c[d] = CooldownPolls]
    OBVIOUS
  <2>4. TryReconnect(u, d) = v
    BY <1>2, <2>1, <2>3 DEF TryReconnect
  <2>5. v = [p |-> w.p, h |-> w.h, c |-> v.c, ok |-> w.ok]
    BY <2>2, <2>3 DEF UsbShape
  <2>6. v.p = w.p /\ v.h = w.h /\ v.ok = w.ok
    BY <2>5
  <2>7. UsbShape(v)
    BY <2>2, <2>5, <2>6 DEF UsbShape
  <2> QED BY <2>2, <2>4, <2>6, <2>7 DEF KeepsSettings, KeepsOthers
<1> QED BY <1>1, <1>2

LEMMA NotOk ==
  ASSUME NEW u, UsbShape(u), NEW b \in BOOLEAN
  PROVE  LET v == [u EXCEPT !.ok = b]
         IN UsbShape(v) /\ v.p = u.p /\ v.h = u.h /\ v.c = u.c /\ v.ok = b
<1>1. PICK v : v = [u EXCEPT !.ok = b]
  OBVIOUS
<1>2. v = [p |-> u.p, h |-> u.h, c |-> u.c, ok |-> b]
  BY <1>1 DEF UsbShape
<1>3. v.p = u.p /\ v.h = u.h /\ v.c = u.c /\ v.ok = b
  BY <1>2
<1>4. UsbShape(v)
  BY <1>2, <1>3 DEF UsbShape
<1> QED BY <1>1, <1>3, <1>4

\* What a device is told and has answered.
LEMMA SetIs ==
  ASSUME NEW u, UsbShape(u), NEW d \in Opened, u.h[d] # Absent, NEW late,
         NEW field \in {"shows", "brightness", "rotation"}, NEW to, NEW answer
  PROVE  LET v == Answered(Told(u, d, field, to, answer), d, late)
         IN /\ UsbShape(v) /\ v.h = u.h /\ v.ok = u.ok
            /\ \A x \in Ids :
                 /\ v.p[x].brightness = IF x = u.h[d] /\ field = "brightness" THEN to ELSE u.p[x].brightness
                 /\ v.p[x].rotation = IF x = u.h[d] /\ field = "rotation" THEN to ELSE u.p[x].rotation
<1>1. PICK w : w = Told(u, d, field, to, answer)
  OBVIOUS
<1>2. /\ UsbShape(w) /\ w.h = u.h /\ w.ok = u.ok
      /\ \A x \in Ids :
           /\ w.p[x].brightness = IF x = u.h[d] /\ field = "brightness" THEN to ELSE u.p[x].brightness
           /\ w.p[x].rotation = IF x = u.h[d] /\ field = "rotation" THEN to ELSE u.p[x].rotation
  BY <1>1, ToldIs
<1>3. PICK v : v = Answered(w, d, late)
  OBVIOUS
<1>4. w.h[d] # Absent
  BY <1>2
<1>5. UsbShape(v) /\ v.h = w.h /\ v.ok = w.ok /\ KeepsSettings(w, v)
  BY <1>2, <1>3, <1>4, AnsweredIs
<1>6. v = Answered(Told(u, d, field, to, answer), d, late)
  BY <1>1, <1>3
<1> QED BY <1>2, <1>5, <1>6 DEF KeepsSettings

LEMMA SendInnerKeeps ==
  ASSUME NEW u, UsbShape(u), NEW d \in Opened, NEW picture, NEW late
  PROVE  LET v == SendFrameInner(u, d, picture, late)
         IN UsbShape(v) /\ KeepsSettings(u, v) /\ v.h = u.h
<1>1. CASE u.h[d] = Absent
  <2>1. SendFrameInner(u, d, picture, late) = [u EXCEPT !.ok = FALSE]
    BY <1>1 DEF SendFrameInner, Reaches
  <2>2. PICK b \in BOOLEAN : b = FALSE
    OBVIOUS
  <2> QED BY <2>1, <2>2, NotOk DEF KeepsSettings
<1>2. CASE u.h[d] # Absent
  <2>1. PICK w : w = Answered(Told(u, d, "shows", picture, "image"), d, late)
    OBVIOUS
  <2>2. UsbShape(w) /\ w.h = u.h /\ KeepsSettings(u, w)
    BY <1>2, <2>1, SetIs DEF KeepsSettings
  <2>3. \E b \in BOOLEAN : SendFrameInner(u, d, picture, late) = [w EXCEPT !.ok = b]
    <3> DEFINE told == Told(u, d, "shows", picture, "image")
               b == d \in WinUsb \/ (Head(told.p[told.h[d]].answers) = "image"
                                       /\ ~(late /\ Len(told.p[told.h[d]].answers) = 1))
    <3>1. SendFrameInner(u, d, picture, late) = [Answered(told, d, late) EXCEPT !.ok = b]
      BY <1>2 DEF SendFrameInner, Reaches
    <3>2. b \in BOOLEAN
      OBVIOUS
    <3> QED BY <2>1, <3>1, <3>2
  <2>4. PICK b \in BOOLEAN : SendFrameInner(u, d, picture, late) = [w EXCEPT !.ok = b]
    BY <2>3
  <2> QED BY <2>2, <2>4, NotOk DEF KeepsSettings
<1> QED BY <1>1, <1>2

LEMMA SendKeeps ==
  ASSUME NEW u, UsbShape(u), NEW d \in Opened, NEW picture, NEW late, NEW fails
  PROVE  LET v == SendFrame(u, d, picture, late, fails)
         IN UsbShape(v) /\ KeepsSettings(u, v) /\ KeepsOthers(u, v, d)
<1>1. PICK no \in BOOLEAN : no = FALSE
  OBVIOUS
<1>2. PICK yes \in BOOLEAN : yes = TRUE
  OBVIOUS
<1>3. PICK first : first = IF fails THEN [u EXCEPT !.ok = FALSE] ELSE SendFrameInner(u, d, picture, late)
  OBVIOUS
<1>4. UsbShape(first) /\ KeepsSettings(u, first) /\ first.h = u.h
  <2>1. CASE fails
    <3>1. first = [u EXCEPT !.ok = no]
      BY <1>1, <1>3, <2>1
    <3> QED BY <3>1, NotOk DEF KeepsSettings
  <2>2. CASE ~fails
    <3>1. first = SendFrameInner(u, d, picture, late)
      BY <1>3, <2>2
    <3> QED BY <3>1, SendInnerKeeps
  <2> QED BY <2>1, <2>2
<1>5. PICK w : w = [first EXCEPT !.ok = yes]
  OBVIOUS
<1>6. UsbShape(w) /\ w.p = first.p /\ w.h = first.h
  BY <1>4, <1>5, NotOk
<1>7. PICK x : x = TryReconnect(w, d)
  OBVIOUS
<1>8. UsbShape(x) /\ KeepsSettings(w, x) /\ KeepsOthers(w, x, d)
  BY <1>6, <1>7, ReconnectKeeps
<1>9. PICK y : y = SendFrameInner(x, d, picture, no)
  OBVIOUS
<1>10. UsbShape(y) /\ KeepsSettings(x, y) /\ y.h = x.h
  BY <1>8, <1>9, SendInnerKeeps
<1>11. SendFrame(u, d, picture, late, fails) = IF first.ok THEN first ELSE y
  <2>1. first.ok = TRUE \/ first.ok # TRUE
    OBVIOUS
  <2> QED BY <1>1, <1>2, <1>3, <1>5, <1>7, <1>9 DEF SendFrame
<1> QED BY <1>4, <1>6, <1>8, <1>10, <1>11 DEF KeepsSettings, KeepsOthers

Kinds == {"frame", "brightness", "rotation", "clock"}

\* What carrying out an action does to the settings of the panels.
LEMMA CarriedKeeps ==
  ASSUME UsbShape(Usb), NEW a, a.device \in Opened, a.do \in Kinds, NEW late, NEW fails
  PROVE  LET u == Carried(a, late, fails)
             d == a.device
         IN /\ UsbShape(u) /\ KeepsOthers(Usb, u, d)
            /\ a.do # "frame" => u.h = handle
            /\ \A x \in Ids :
                 /\ (a.do = "brightness" /\ x = handle[d]) \/ u.p[x].brightness = panel[x].brightness
                 /\ (a.do = "rotation" /\ x = handle[d]) \/ u.p[x].rotation = panel[x].rotation
            /\ a.do = "brightness" /\ u.ok =>
                 handle[d] # Absent /\ u.p[handle[d]].brightness = Level(a.level)
            /\ a.do = "rotation" /\ u.ok =>
                 handle[d] # Absent /\ u.p[handle[d]].rotation = a.rotation
<1>1. PICK w : w = Usb
  OBVIOUS
<1>2. UsbShape(w) /\ w.p = panel /\ w.h = handle
  BY <1>1 DEF Usb
<1>3. PICK d \in Opened : d = a.device
  OBVIOUS
<1>4. PICK no \in BOOLEAN : no = FALSE
  OBVIOUS
<1>5. PICK u : u = Carried(a, late, fails)
  OBVIOUS
<1>6. CASE a.do = "frame"
  <2>1. u = SendFrame(w, d, a.picture, late, fails)
    BY <1>1, <1>3, <1>5, <1>6 DEF Carried
  <2>2. UsbShape(u) /\ KeepsSettings(w, u) /\ KeepsOthers(w, u, d)
    BY <1>2, <2>1, SendKeeps
  <2> QED BY <1>1, <1>2, <1>3, <1>5, <1>6, <2>2 DEF KeepsSettings
<1>7. ASSUME a.do # "frame", fails \/ w.h[d] = Absent
      PROVE  u = [w EXCEPT !.ok = no]
  <2>1. CASE a.do = "brightness"
    BY <1>1, <1>3, <1>4, <1>5, <1>7, <2>1 DEF Carried, SetBrightness, Reaches
  <2>2. CASE a.do = "rotation"
    BY <1>1, <1>3, <1>4, <1>5, <1>7, <2>2 DEF Carried, SetRotation, Reaches
  <2>3. CASE a.do = "clock"
    BY <1>1, <1>3, <1>4, <1>5, <1>7, <2>3 DEF Carried, SetClock, Reaches
  <2> QED BY <1>7, <2>1, <2>2, <2>3 DEF Kinds
<1>8. CASE a.do # "frame" /\ (fails \/ w.h[d] = Absent)
  <2>1. UsbShape(u) /\ u.p = w.p /\ u.h = w.h /\ u.ok = no
    <3>1. u = [w EXCEPT !.ok = no]
      BY <1>7, <1>8
    <3> QED BY <1>2, <3>1, NotOk
  <2> QED BY <1>1, <1>2, <1>3, <1>4, <1>5, <1>8, <2>1 DEF KeepsOthers
<1>9. CASE a.do # "frame" /\ ~fails /\ w.h[d] # Absent
  <2>1. CASE a.do = "brightness"
    <3>1. PICK to : to = Level(a.level)
      OBVIOUS
    <3>2. u = Answered(Told(w, d, "brightness", to, "brightness"), d, late)
      BY <1>1, <1>3, <1>5, <1>9, <2>1, <3>1 DEF Carried, SetBrightness, Reaches
    <3>3. /\ UsbShape(u) /\ u.h = w.h
          /\ \A x \in Ids :
               /\ u.p[x].brightness = IF x = w.h[d] THEN to ELSE w.p[x].brightness
               /\ u.p[x].rotation = w.p[x].rotation
      BY <1>2, <1>9, <3>2, SetIs
    <3>4. w.h[d] \in Ids
      BY <1>2, <1>9 DEF UsbShape
    <3> QED BY <1>1, <1>2, <1>3, <1>5, <1>9, <2>1, <3>1, <3>3, <3>4 DEF KeepsOthers
  <2>2. CASE a.do = "rotation"
    <3>1. PICK to : to = a.rotation
      OBVIOUS
    <3>2. u = Answered(Told(w, d, "rotation", to, "rotation"), d, late)
      BY <1>1, <1>3, <1>5, <1>9, <2>2, <3>1 DEF Carried, SetRotation, Reaches
    <3>3. /\ UsbShape(u) /\ u.h = w.h
          /\ \A x \in Ids :
               /\ u.p[x].rotation = IF x = w.h[d] THEN to ELSE w.p[x].rotation
               /\ u.p[x].brightness = w.p[x].brightness
      BY <1>2, <1>9, <3>2, SetIs
    <3>4. w.h[d] \in Ids
      BY <1>2, <1>9 DEF UsbShape
    <3> QED BY <1>1, <1>2, <1>3, <1>5, <1>9, <2>2, <3>1, <3>3, <3>4 DEF KeepsOthers
  <2>3. CASE a.do = "clock"
    <3>1. u = Answered(Told(w, d, "shows", ClockFace, "clock"), d, late)
      BY <1>1, <1>3, <1>5, <1>9, <2>3 DEF Carried, SetClock, Reaches
    <3>2. /\ UsbShape(u) /\ u.h = w.h
          /\ \A x \in Ids :
               /\ u.p[x].rotation = w.p[x].rotation
               /\ u.p[x].brightness = w.p[x].brightness
      BY <1>2, <1>9, <3>1, SetIs, SMTT(40)
    <3> QED BY <1>1, <1>2, <1>3, <1>5, <2>3, <3>2 DEF KeepsOthers
  <2> QED BY <1>9, <2>1, <2>2, <2>3 DEF Kinds
<1> QED BY <1>6, <1>8, <1>9

-----------------------------------------------------------------------------
(* The manager. *)

\* What the steps need to know of the state of a device.
Mind(m) == {"config", "brightness", "rotation", "due"} \subseteq DOMAIN m /\ m.due \in Nat
SameSettings(m, n) ==
  n.config = m.config /\ n.brightness = m.brightness /\ n.rotation = m.rotation

LEMMA DrawnKeeps ==
  ASSUME NEW m, Mind(m), NEW r
  PROVE  /\ Mind(Prepared(m, r)) /\ SameSettings(m, Prepared(m, r))
         /\ Mind(Noted(m, r)) /\ SameSettings(m, Noted(m, r))
<1>1. \A displays : Mind(Turned(m, displays)) /\ SameSettings(m, Turned(m, displays))
  BY DEF Turned, Mind, SameSettings
<1>2. \A x : LET n == [m EXCEPT !.history = x] IN Mind(n) /\ SameSettings(m, n)
  BY DEF Mind, SameSettings
<1>3. \A x : LET n == [m EXCEPT !.drawn = x] IN Mind(n) /\ SameSettings(m, n)
  BY DEF Mind, SameSettings
<1>4. \A x : LET n == [m EXCEPT !.frame = x] IN Mind(n) /\ SameSettings(m, n)
  BY DEF Mind, SameSettings
<1>5. Mind(m) /\ SameSettings(m, m)
  BY DEF SameSettings
<1>6. Mind(Prepared(m, r)) /\ SameSettings(m, Prepared(m, r))
  <2>1. CASE m.config.content.is = "SensorCarousel"
    BY <1>1, <2>1 DEF Prepared
  <2>2. CASE m.config.content.is = "Sensor" /\ m.config.content.display.style = "Graph"
    <3>1. PICK x : x = Remembered(m.history, m.config.content.display, r)
      OBVIOUS
    <3>2. Prepared(m, r) = [m EXCEPT !.history = x]
      BY <2>2, <3>1 DEF Prepared
    <3> QED BY <1>2, <3>2
  <2>3. CASE m.config.content.is = "Template" /\ m.drawn = {}
    <3>1. PICK x : x = {NothingDrawn(m.config.content.template)}
      OBVIOUS
    <3>2. Prepared(m, r) = [m EXCEPT !.drawn = x]
      BY <2>3, <3>1 DEF Prepared
    <3> QED BY <1>3, <3>2
  <2>4. CASE /\ m.config.content.is # "SensorCarousel"
             /\ ~(m.config.content.is = "Sensor" /\ m.config.content.display.style = "Graph")
             /\ ~(m.config.content.is = "Template" /\ m.drawn = {})
    <3>1. Prepared(m, r) = m
      BY <2>4 DEF Prepared
    <3> QED BY <1>5, <3>1
  <2> QED BY <2>1, <2>2, <2>3, <2>4
<1>7. Mind(Noted(m, r)) /\ SameSettings(m, Noted(m, r))
  <2>1. CASE m.config.content.is \in {"Gif", "Preset"} /\ m.film # <<>>
    <3>1. PICK x : x = (m.frame % Len(m.film)) + 1
      OBVIOUS
    <3>2. Noted(m, r) = [m EXCEPT !.frame = x]
      BY <2>1, <3>1 DEF Noted
    <3> QED BY <1>4, <3>2
  <2>2. CASE m.config.content.is = "Template"
    <3>1. PICK x : x = {MarkRendered(m.config.content.template, r)}
      OBVIOUS
    <3>2. Noted(m, r) = [m EXCEPT !.drawn = x]
      BY <2>2, <3>1 DEF Noted
    <3> QED BY <1>3, <3>2
  <2>3. CASE ~(m.config.content.is \in {"Gif", "Preset"} /\ m.film # <<>>) /\ m.config.content.is # "Template"
    <3>1. Noted(m, r) = m
      BY <2>3 DEF Noted
    <3> QED BY <1>5, <3>1
  <2> QED BY <2>1, <2>2, <2>3
<1> QED BY <1>6, <1>7

\* Whether one of the actions does this to the device.
Has(s, d, what) == \E i \in 1..Len(s) : s[i].do = what /\ s[i].device = d

\* Actions for the device, which set what is to be set or show one of some pictures.
Actions(d, B, T, P) ==
  {[do |-> "brightness", device |-> d, level |-> b] : b \in B}
    \cup {[do |-> "rotation", device |-> d, rotation |-> t] : t \in T}
    \cup {Frame(d, p) : p \in P} \cup {[do |-> "clock", device |-> d]}

\* An optional value.
Option(S) == S = {} \/ \E x : S = {x}

LEMMA OptionSeq ==
  /\ SetToSeq({}) = <<>>
  /\ \A x : SetToSeq({x}) = <<x>>
<1>1. SetToSeq({}) = <<>>
  <2>1. Cardinality({}) = 0
    BY FS_EmptySet
  <2>2. ASSUME NEW f PROVE f \in [1..0 -> {}] <=> f = <<>>
    <3>1. CASE f \in [1..0 -> {}]
      <4>1. f \in Seq({})
        BY <3>1, SeqDef
      <4>2. 1..Len(f) = 1..0 /\ Len(f) \in Nat
        BY <3>1, <4>1, LenProperties
      <4>3. Len(f) = 0
        BY <4>2
      <4> QED BY <3>1, <4>1, <4>3, EmptySeq
    <3>2. CASE f = <<>>
      BY <3>2
    <3> QED BY <3>1, <3>2
  <2>3. IsInjective(<<>>)
    BY DEF IsInjective
  <2>4. SetToSeq({}) = CHOOSE f \in [1..0 -> {}] : IsInjective(f)
    BY <2>1 DEF SetToSeq
  <2> QED BY <2>2, <2>3, <2>4
<1>2. ASSUME NEW x PROVE SetToSeq({x}) = <<x>>
  <2>1. Cardinality({x}) = 1
    BY FS_Singleton
  <2>2. \A f : f \in [1..1 -> {x}] <=> f = <<x>>
    OBVIOUS
  <2>3. IsInjective(<<x>>)
    BY DEF IsInjective
  <2>4. SetToSeq({x}) = CHOOSE f \in [1..1 -> {x}] : IsInjective(f)
    BY <2>1 DEF SetToSeq
  <2> QED BY <2>2, <2>3, <2>4
<1> QED BY <1>1, <1>2

\* A sequence whose items are all of T.
LEMMA SeqNarrow ==
  ASSUME NEW S, NEW s \in Seq(S), NEW T, \A i \in 1..Len(s) : s[i] \in T
  PROVE  s \in Seq(T)
<1>1. Len(s) \in Nat /\ s \in [1..Len(s) -> S]
  BY LenProperties
<1>2. s \in [1..Len(s) -> T]
  BY <1>1
<1> QED BY <1>1, <1>2, SeqDef

\* The settings that are emitted are the pending ones.
LEMMA EmittedIs ==
  ASSUME NEW d, NEW m, NEW P, Option(m.brightness), Option(m.rotation)
  PROVE  LET s == Emitted(d, m)
         IN /\ s \in Seq(Actions(d, m.brightness, m.rotation, P))
            /\ m.brightness # {} => Has(s, d, "brightness")
            /\ m.rotation # {} => Has(s, d, "rotation")
<1>b. PICK b : m.brightness \in {{}, {b}}
  BY DEF Option
<1>t. PICK t : m.rotation \in {{}, {t}}
  BY DEF Option
<1>0. m.brightness \in {{}, {b}} /\ m.rotation \in {{}, {t}}
  BY <1>b, <1>t
<1> DEFINE A == Actions(d, m.brightness, m.rotation, P)
           x == [do |-> "brightness", device |-> d, level |-> b]
           y == [do |-> "rotation", device |-> d, rotation |-> t]
           light == {[do |-> "brightness", device |-> d, level |-> l] : l \in m.brightness}
           turn == {[do |-> "rotation", device |-> d, rotation |-> r] : r \in m.rotation}
           s1 == SetToSeq(light)
           s2 == SetToSeq(turn)
<1>1. s1 \in Seq(A) /\ (m.brightness # {} => s1 = <<x>>)
  <2>1. CASE m.brightness = {}
    <3>1. light = {}
      BY <2>1
    <3> HIDE DEF light, A
    <3>2. s1 = <<>>
      BY <3>1, OptionSeq, Zenon
    <3> HIDE DEF s1
    <3> QED BY <2>1, <3>2, EmptySeq
  <2>2. CASE m.brightness = {b}
    <3>1. light = {x}
      BY <2>2
    <3>2. x \in A
      BY <2>2 DEF Actions
    <3> HIDE DEF light, A, x
    <3>3. s1 = <<x>>
      BY <3>1, OptionSeq
    <3> HIDE DEF s1
    <3> QED BY <3>2, <3>3
  <2> QED BY <1>0, <2>1, <2>2
<1>2. s2 \in Seq(A) /\ (m.rotation # {} => s2 = <<y>>)
  <2>1. CASE m.rotation = {}
    <3>1. turn = {}
      BY <2>1
    <3> HIDE DEF turn, A
    <3>2. s2 = <<>>
      BY <3>1, OptionSeq, Zenon
    <3> HIDE DEF s2
    <3> QED BY <2>1, <3>2, EmptySeq
  <2>2. CASE m.rotation = {t}
    <3>1. turn = {y}
      BY <2>2
    <3>2. y \in A
      BY <2>2 DEF Actions
    <3> HIDE DEF turn, A, y
    <3>3. s2 = <<y>>
      BY <3>1, OptionSeq
    <3> HIDE DEF s2
    <3> QED BY <3>2, <3>3
  <2> QED BY <1>0, <2>1, <2>2
<1>3. x.do = "brightness" /\ x.device = d /\ y.do = "rotation" /\ y.device = d
  OBVIOUS
<1>4. Emitted(d, m) = s1 \o s2
  BY DEF Emitted
<1> HIDE DEF x, y, s1, s2, A
<1>5. PICK s : s = s1 \o s2
  OBVIOUS
<1>6. s \in Seq(A) /\ Len(s) = Len(s1) + Len(s2)
      /\ \A i \in 1..Len(s1) + Len(s2) : s[i] = IF i <= Len(s1) THEN s1[i] ELSE s2[i - Len(s1)]
  BY <1>1, <1>2, <1>5, ConcatProperties
<1>7. Len(s1) \in Nat /\ Len(s2) \in Nat
  BY <1>1, <1>2, LenProperties
<1>8. m.brightness # {} => Has(s, d, "brightness")
  <2> SUFFICES ASSUME m.brightness # {} PROVE \E i \in 1..Len(s) : s[i] = x
    BY <1>3 DEF Has
  <2>1. Len(s1) = 1 /\ s1[1] = x
    BY <1>1
  <2>2. 1 \in 1..Len(s) /\ s[1] = x
    BY <1>6, <1>7, <2>1
  <2> QED BY <2>2
<1>9. m.rotation # {} => Has(s, d, "rotation")
  <2> SUFFICES ASSUME m.rotation # {} PROVE \E i \in 1..Len(s) : s[i] = y
    BY <1>3 DEF Has
  <2>1. Len(s2) = 1 /\ s2[1] = y
    BY <1>2
  <2>2. PICK j : j = Len(s1) + 1
    OBVIOUS
  <2>3. j \in 1..Len(s) /\ s[j] = s2[1]
    BY <1>6, <1>7, <2>1, <2>2
  <2> QED BY <2>1, <2>3
<1> QED BY <1>4, <1>5, <1>6, <1>8, <1>9 DEF A

\* What a tick may send besides the settings.
Sent(d, P) == {Frame(d, p) : p \in P} \cup {[do |-> "clock", device |-> d]}

LEMMA PushedIs ==
  ASSUME NEW d, NEW m, Mind(m), NEW picture, NEW polls \in Nat
  PROVE  LET q == Pushed(d, m, picture, polls)
         IN /\ Mind(q.state) /\ SameSettings(m, q.state)
            /\ \E P : q.actions \in Seq(Sent(d, P))
<1> DEFINE n == [m EXCEPT !.hash = {picture}, !.due = polls]
           acts == IF m.hash = {picture} THEN <<>> ELSE <<Frame(d, picture)>>
<1>1. Mind(n) /\ SameSettings(m, n)
  BY DEF Mind, SameSettings
<1>2. \E P : acts \in Seq(Sent(d, P))
  <2>1. Frame(d, picture) \in Sent(d, {picture})
    BY DEF Sent
  <2>2. PICK S, f : S = Sent(d, {picture}) /\ f = Frame(d, picture)
    OBVIOUS
  <2>3. f \in S
    BY <2>1, <2>2
  <2>4. <<f>> \in Seq(S) /\ <<>> \in Seq(S)
    BY <2>3, EmptySeq
  <2> QED BY <2>2, <2>4
<1>3. Pushed(d, m, picture, polls) = [state |-> n, actions |-> acts]
  BY DEF Pushed, Result
<1> HIDE DEF n, acts
<1> QED BY <1>1, <1>2, <1>3

LEMMA NothingSent ==
  ASSUME NEW d, NEW m, NEW n, Mind(n), SameSettings(m, n)
  PROVE  LET q == Result(n, <<>>)
         IN /\ Mind(q.state) /\ SameSettings(m, q.state)
            /\ \E P : q.actions \in Seq(Sent(d, P))
<1>1. <<>> \in Seq(Sent(d, {}))
  BY EmptySeq
<1> QED BY <1>1 DEF Result

LEMMA ShownIs ==
  ASSUME NEW d, NEW m, Mind(m), NEW r
  PROVE  LET q == Shown(d, m, r)
         IN /\ Mind(q.state) /\ SameSettings(m, q.state)
            /\ \E P : q.actions \in Seq(Sent(d, P))
<1>1. PICK ready : ready = Prepared(m, r)
  OBVIOUS
<1>2. PICK pictures : pictures = Drawn(ready, r)
  OBVIOUS
<1>3. Mind(ready) /\ SameSettings(m, ready)
  BY <1>1, DrawnKeeps
<1>4. CASE pictures = {}
  <2>1. Shown(d, m, r) = Result(ready, <<>>)
    BY <1>1, <1>2, <1>4 DEF Shown
  <2> QED BY <1>3, <2>1, NothingSent
<1>5. CASE pictures # {}
  <2>1. PICK n : n = Noted(ready, r)
    OBVIOUS
  <2>2. Mind(n) /\ SameSettings(ready, n)
    BY <1>3, <2>1, DrawnKeeps
  <2>3. PICK picture : picture = CHOOSE p \in pictures : TRUE
    OBVIOUS
  <2>4. PICK polls \in Nat : polls = RefreshPolls(m.config.content)
    BY CountsAreCounts DEF RefreshPolls
  <2>5. Shown(d, m, r) = Pushed(d, n, picture, polls)
    BY <1>1, <1>2, <1>5, <2>1, <2>3, <2>4 DEF Shown
  <2>6. PICK q : q = Pushed(d, n, picture, polls)
    OBVIOUS
  <2>7. /\ Mind(q.state) /\ SameSettings(n, q.state)
        /\ \E P : q.actions \in Seq(Sent(d, P))
    BY <2>2, <2>6, PushedIs
  <2> QED BY <1>3, <2>2, <2>5, <2>6, <2>7 DEF SameSettings
<1> QED BY <1>4, <1>5

LEMMA ByContentIs ==
  ASSUME NEW d, NEW m, Mind(m), NEW r, NEW grab
  PROVE  LET q == ByContent(d, m, r, grab)
         IN /\ Mind(q.state) /\ SameSettings(m, q.state)
            /\ \E P : q.actions \in Seq(Sent(d, P))
<1>1. m.due \in Nat /\ SameSettings(m, m)
  BY DEF Mind, SameSettings
<1>2. CASE ByContent(d, m, r, grab) = Result(m, <<>>)
  BY <1>1, <1>2, NothingSent
<1>3. CASE m.config # Unset /\ m.due = 0 /\ m.config.content.is = "Clock"
  <2>1. PICK n : n = [m EXCEPT !.due = ClockPolls]
    OBVIOUS
  <2>2. Mind(n) /\ SameSettings(m, n)
    BY <2>1, CountsAreCounts DEF Mind, SameSettings
  <2>3. PICK c : c = [do |-> "clock", device |-> d]
    OBVIOUS
  <2>4. ByContent(d, m, r, grab) = [state |-> n, actions |-> <<c>>]
    BY <1>3, <2>1, <2>3 DEF ByContent, Result
  <2>5. c \in Sent(d, {})
    BY <2>3 DEF Sent
  <2>6. PICK S : S = Sent(d, {})
    OBVIOUS
  <2>7. <<c>> \in Seq(S)
    BY <2>5, <2>6
  <2> QED BY <2>2, <2>4, <2>6, <2>7
<1>4. CASE m.config # Unset /\ m.due = 0 /\ m.config.content.is = "ScreenCapture"
  <2>1. CASE m.capture /\ grab # {}
    <3>1. PICK p : p = CHOOSE x \in grab : TRUE
      OBVIOUS
    <3>2. PICK one \in Nat : one = 1
      OBVIOUS
    <3>3. ByContent(d, m, r, grab) = Pushed(d, m, p, one)
      BY <1>4, <2>1, <3>1, <3>2 DEF ByContent
    <3> QED BY <3>3, PushedIs
  <2>2. CASE ~(m.capture /\ grab # {})
    <3>1. ByContent(d, m, r, grab) = Result(m, <<>>)
      BY <1>4, <2>2 DEF ByContent
    <3> QED BY <1>2, <3>1
  <2> QED BY <2>1, <2>2
<1>5. CASE /\ m.config # Unset /\ m.due = 0
           /\ m.config.content.is # "Clock" /\ m.config.content.is # "ScreenCapture"
  <2>1. ByContent(d, m, r, grab) = Shown(d, m, r)
    BY <1>5 DEF ByContent
  <2> QED BY <2>1, ShownIs
<1>6. CASE m.config = Unset \/ m.due > 0
  <2>1. ByContent(d, m, r, grab) = Result(m, <<>>)
    BY <1>1, <1>6 DEF ByContent
  <2> QED BY <1>2, <2>1
<1> QED BY <1>1, <1>3, <1>4, <1>5, <1>6

\* What holds of a device that was ticked.
Ticked(d, m, q) ==
  /\ Mind(q.state) /\ q.state.config = m.config
  /\ q.state.brightness = {} /\ q.state.rotation = {}
  /\ \E P : q.actions \in Seq(Actions(d, m.brightness, m.rotation, P))
  /\ m.brightness # {} => Has(q.actions, d, "brightness")
  /\ m.rotation # {} => Has(q.actions, d, "rotation")

\* A tick takes the settings and sends them.
LEMMA TickIs ==
  ASSUME NEW d, NEW m, Mind(m), NEW r, NEW grab,
         Option(m.brightness), Option(m.rotation)
  PROVE  Ticked(d, m, TickOne(d, m, r, grab))
<1>1. PICK taken : taken = [m EXCEPT !.brightness = {}, !.rotation = {}]
  OBVIOUS
<1>2. Mind(taken) /\ taken.config = m.config /\ taken.brightness = {} /\ taken.rotation = {}
  BY <1>1 DEF Mind
<1>3. PICK result : result = ByContent(d, taken, r, grab)
  OBVIOUS
<1>4. /\ Mind(result.state) /\ SameSettings(taken, result.state)
      /\ \E P : result.actions \in Seq(Sent(d, P))
  BY <1>2, <1>3, ByContentIs
<1>5. PICK P : result.actions \in Seq(Sent(d, P))
  BY <1>4
<1>6. PICK A : A = Actions(d, m.brightness, m.rotation, P)
  OBVIOUS
<1>7. PICK s1 : s1 = Emitted(d, m)
  OBVIOUS
<1>8. /\ s1 \in Seq(A)
      /\ m.brightness # {} => Has(s1, d, "brightness")
      /\ m.rotation # {} => Has(s1, d, "rotation")
  BY <1>6, <1>7, EmittedIs
<1>9. PICK s2 : s2 = result.actions
  OBVIOUS
<1>10. s2 \in Seq(A)
  <2>1. Sent(d, P) \subseteq A
    BY <1>6 DEF Sent, Actions
  <2> QED BY <1>5, <1>9, <2>1, SeqMonotonic
<1>11. PICK s : s = s1 \o s2
  OBVIOUS
<1>12. /\ s \in Seq(A) /\ Len(s) = Len(s1) + Len(s2)
       /\ \A i \in 1..Len(s1) + Len(s2) : s[i] = IF i <= Len(s1) THEN s1[i] ELSE s2[i - Len(s1)]
  BY <1>8, <1>10, <1>11, ConcatProperties
<1>13. Len(s1) \in Nat /\ Len(s2) \in Nat
  BY <1>8, <1>10, LenProperties
<1>14. \A i \in 1..Len(s1) : i \in 1..Len(s) /\ s[i] = s1[i]
  BY <1>12, <1>13
<1>15. PICK q : q = TickOne(d, m, r, grab)
  OBVIOUS
<1>16. q.state = result.state /\ q.actions = s
  BY <1>1, <1>3, <1>7, <1>9, <1>11, <1>15 DEF TickOne, Result
<1>17. q.actions \in Seq(Actions(d, m.brightness, m.rotation, P))
  BY <1>6, <1>12, <1>16
<1>18. m.brightness # {} =>
         Has(q.actions, d, "brightness")
  BY <1>8, <1>14, <1>16 DEF Has
<1>19. m.rotation # {} =>
         Has(q.actions, d, "rotation")
  BY <1>8, <1>14, <1>16 DEF Has
<1>20. /\ Mind(q.state) /\ q.state.config = m.config
       /\ q.state.brightness = {} /\ q.state.rotation = {}
  BY <1>2, <1>4, <1>16 DEF SameSettings
<1> QED BY <1>15, <1>17, <1>18, <1>19, <1>20 DEF Ticked

-----------------------------------------------------------------------------
(* Sequences of sequences. *)

SeqList(seqs, n, S) == n \in Nat /\ seqs \in [1..n -> Seq(S)]

\* The equation by which FlattenSeq chooses its function.
FlatEq(f, seqs) ==
  f = [i \in 1..Len(seqs) |-> IF i = 1 THEN seqs[i] ELSE f[i - 1] \o seqs[i]]

LEMMA FlatExists ==
  ASSUME NEW S, NEW n \in Nat, NEW seqs \in [1..n -> Seq(S)]
  PROVE  Len(seqs) = n /\ \E f : FlatEq(f, seqs)
<1> DEFINE Upto(k, f) == /\ k > 0 => f[1] = seqs[1]
                         /\ \A i \in 2..k : f[i] = f[i - 1] \o seqs[i]
           Some(k) == \E f \in [1..k -> Seq(S)] : Upto(k, f)
           T == {k \in Nat : k <= n => Some(k)}
<1>1. Len(seqs) = n
  BY LenProperties, SeqDef
<1>2. Some(0)
  <2>1. PICK f \in [1..0 -> Seq(S)] : TRUE
    <3>1. [i \in 1..0 |-> <<>>] \in [1..0 -> Seq(S)]
      OBVIOUS
    <3> QED BY <3>1
  <2>2. Upto(0, f)
    OBVIOUS
  <2> QED BY <2>2
<1>3. ASSUME NEW k \in Nat, k + 1 <= n, Some(k) PROVE Some(k + 1)
  <2>1. PICK f \in [1..k -> Seq(S)] : Upto(k, f)
    BY <1>3
  <2>2. PICK new : new = IF k = 0 THEN seqs[1] ELSE f[k] \o seqs[k + 1]
    OBVIOUS
  <2>3. new \in Seq(S)
    <3>1. CASE k = 0
      BY <1>3, <2>2, <3>1
    <3>2. CASE k # 0
      <4>1. f[k] \in Seq(S) /\ seqs[k + 1] \in Seq(S)
        BY <1>3, <3>2
      <4> QED BY <2>2, <3>2, <4>1, ConcatProperties
    <3> QED BY <3>1, <3>2
  <2> DEFINE g == [i \in 1..k + 1 |-> IF i = k + 1 THEN new ELSE f[i]]
  <2>4. g \in [1..k + 1 -> Seq(S)]
    BY <2>3
  <2>5. g[1] = seqs[1]
    BY <2>1, <2>2
  <2>6. ASSUME NEW i \in 2..k + 1 PROVE g[i] = g[i - 1] \o seqs[i]
    <3>1. CASE i = k + 1
      <4>1. k # 0 /\ i - 1 = k /\ k \in 1..k + 1 /\ k # k + 1 /\ i \in 1..k + 1
        BY <3>1
      <4>2. g[i] = new /\ g[i - 1] = f[k]
        BY <3>1, <4>1
      <4>3. new = f[k] \o seqs[k + 1]
        BY <2>2, <4>1
      <4> QED BY <3>1, <4>2, <4>3, Zenon
    <3>2. CASE i # k + 1
      <4>1. i \in 2..k /\ i - 1 \in 1..k + 1 /\ i - 1 # k + 1 /\ i \in 1..k + 1
        BY <3>2
      <4> QED BY <2>1, <3>2, <4>1
    <3> QED BY <3>1, <3>2
  <2> QED BY <2>4, <2>5, <2>6
<1>4. Some(n)
  <2> HIDE DEF Some
  <2>1. 0 \in T /\ \A k \in Nat : k \in T => k + 1 \in T
    BY <1>2, <1>3
  <2> HIDE DEF T
  <2>2. n \in T
    BY <2>1, Induction
  <2> QED BY <2>2 DEF T
<1>5. PICK f \in [1..n -> Seq(S)] : Upto(n, f)
  BY <1>4
<1>6. \A i \in 1..n : f[i] = IF i = 1 THEN seqs[i] ELSE f[i - 1] \o seqs[i]
  <2> TAKE i \in 1..n
  <2>1. CASE i = 1
    BY <1>5, <2>1
  <2>2. CASE i # 1
    <3>1. i \in 2..n
      BY <2>2
    <3> QED BY <1>5, <2>2, <3>1
  <2> QED BY <2>1, <2>2
<1>7. f = [i \in 1..n |-> f[i]]
  BY <1>5
<1>8. f = [i \in 1..n |-> IF i = 1 THEN seqs[i] ELSE f[i - 1] \o seqs[i]]
  BY <1>6, <1>7
<1>9. FlatEq(f, seqs)
  BY <1>1, <1>8 DEF FlatEq
<1> QED BY <1>1, <1>9

\* Flattening a sequence of sequences keeps the items of each.
LEMMA FlattenIs ==
  ASSUME NEW S, NEW n, NEW seqs, SeqList(seqs, n, S)
  PROVE  LET s == FlattenSeq(seqs)
         IN /\ s \in Seq(S)
            /\ \A i \in 1..n : \A j \in 1..Len(seqs[i]) : \E k \in 1..Len(s) : s[k] = seqs[i][j]
<1>0. n \in Nat /\ seqs \in [1..n -> Seq(S)]
  BY DEF SeqList
<1> USE <1>0
<1>1. Len(seqs) = n
  BY FlatExists
<1>2. CASE n = 0
  <2>1. FlattenSeq(seqs) = seqs
    BY <1>1, <1>2 DEF FlattenSeq
  <2>2. seqs \in Seq(S)
    BY <1>2, SeqDef
  <2> QED BY <1>2, <2>1, <2>2
<1>3. CASE n # 0
  <2> DEFINE f == CHOOSE g : FlatEq(g, seqs)
  <2>1. FlatEq(f, seqs)
    BY FlatExists
  <2>2. FlattenSeq(seqs) = f[n]
    BY <1>1, <1>3 DEF FlattenSeq, FlatEq
  <2> HIDE DEF f
  <2>3. f[1] = seqs[1] /\ \A i \in 2..n : f[i] = f[i - 1] \o seqs[i]
    <3>1. f = [i \in 1..n |-> IF i = 1 THEN seqs[i] ELSE f[i - 1] \o seqs[i]]
      BY <1>1, <2>1 DEF FlatEq
    <3>2. \A i \in 1..n : f[i] = IF i = 1 THEN seqs[i] ELSE f[i - 1] \o seqs[i]
      BY <3>1, Zenon
    <3>3. 1 \in 1..n /\ \A i \in 2..n : i \in 1..n /\ i # 1
      BY <1>3
    <3> QED BY <3>2, <3>3, Zenon
  <2> DEFINE Holds(k, i) == \A j \in 1..Len(seqs[i]) : \E x \in 1..Len(f[k]) : f[k][x] = seqs[i][j]
             Fine(k) == f[k] \in Seq(S) /\ \A i \in 1..k : Holds(k, i)
             T == {k \in Nat : k + 1 <= n => Fine(k + 1)}
  <2>4. Fine(1)
    BY <1>3, <2>3
  <2>5. ASSUME NEW k \in Nat, k + 1 < n, Fine(k + 1) PROVE Fine(k + 2)
    <3>1. PICK a, b, c : a = f[k + 1] /\ b = seqs[k + 2] /\ c = f[k + 2]
      OBVIOUS
    <3>2. c = a \o b
      <4>1. k + 2 \in 2..n /\ (k + 2) - 1 = k + 1
        BY <2>5
      <4>2. f[k + 2] = f[(k + 2) - 1] \o seqs[k + 2]
        BY <2>3, <4>1
      <4> QED BY <3>1, <4>1, <4>2
    <3>3. a \in Seq(S) /\ b \in Seq(S)
      BY <2>5, <3>1
    <3>4. /\ c \in Seq(S) /\ Len(c) = Len(a) + Len(b)
          /\ \A i \in 1..Len(a) + Len(b) : c[i] = IF i <= Len(a) THEN a[i] ELSE b[i - Len(a)]
      BY <3>2, <3>3, ConcatProperties
    <3>5. Len(a) \in Nat /\ Len(b) \in Nat
      BY <3>3, LenProperties
    <3>6. ASSUME NEW i \in 1..k + 1, NEW j \in 1..Len(seqs[i])
          PROVE  \E x \in 1..Len(c) : c[x] = seqs[i][j]
      <4>1. PICK x \in 1..Len(a) : a[x] = seqs[i][j]
        BY <2>5, <3>1, <3>6
      <4>2. x \in 1..Len(c) /\ c[x] = a[x]
        BY <3>4, <3>5
      <4> QED BY <4>1, <4>2
    <3>7. ASSUME NEW j \in 1..Len(b) PROVE \E x \in 1..Len(c) : c[x] = b[j]
      <4>1. PICK x : x = Len(a) + j
        OBVIOUS
      <4>2. /\ x \in 1..Len(a) + Len(b) /\ ~(x <= Len(a)) /\ x - Len(a) = j
        BY <3>5, <4>1
      <4>3. x \in 1..Len(c) /\ c[x] = b[x - Len(a)]
        BY <3>4, <4>2
      <4> QED BY <4>2, <4>3
    <3>8. ASSUME NEW i \in 1..k + 2 PROVE Holds(k + 2, i)
      <4>1. CASE i \in 1..k + 1
        BY <3>1, <3>6, <4>1
      <4>2. CASE i = k + 2
        BY <3>1, <3>7, <4>2
      <4>3. i \in 1..k + 1 \/ i = k + 2
        BY <2>5
      <4> QED BY <4>1, <4>2, <4>3, Zenon
    <3> QED BY <3>1, <3>4, <3>8
  <2>6. Fine(n)
    <3> HIDE DEF Fine
    <3>1. 0 \in T
      BY <1>3, <2>4
    <3>2. ASSUME NEW k \in Nat, k \in T PROVE k + 1 \in T
      <4>1. (k + 1) + 1 = k + 2
        OBVIOUS
      <4> QED BY <2>5, <3>2, <4>1
    <3> HIDE DEF T
    <3>3. n - 1 \in T
      <4>1. n - 1 \in Nat
        BY <1>3
      <4>2. Nat \subseteq T
        BY <3>1, <3>2, Induction
      <4> QED BY <4>1, <4>2
    <3>4. (n - 1) + 1 = n
      OBVIOUS
    <3> QED BY <3>3, <3>4 DEF T
  <2> QED BY <2>2, <2>6
<1> QED BY <1>2, <1>3

\* The devices in any order: each of them is there.
LEMMA OrdersAll ==
  ASSUME NEW order \in SetToSeqs(Opened)
  PROVE  \E n \in Nat : /\ order \in [1..n -> Opened] /\ DOMAIN order = 1..n
                        /\ \A d \in Opened : \E i \in 1..n : order[i] = d
<1>1. IsFiniteSet(Opened)
  <2>1. PICK n \in Nat : n = Len(Panels)
    BY PanelsAssumption
  <2> DEFINE f == [i \in 1..n |-> Panels[i]]
  <2>2. f \in Surjection(1..n, Ids)
    BY <2>1 DEF Surjection, Ids
  <2>3. IsFiniteSet(1..n)
    BY FS_Interval
  <2>4. IsFiniteSet(Ids)
    <3> HIDE DEF f
    <3> QED BY <2>2, <2>3, FS_Surjection
  <2>5. Opened \in SUBSET Ids
    BY PanelsAssumption DEF Ids
  <2> QED BY <2>4, <2>5, FS_Subset
<1>2. PICK n \in Nat : n = Cardinality(Opened)
  BY <1>1, FS_CardinalityType
<1>3. order \in [1..n -> Opened] /\ \A i, j \in 1..n : i # j => order[i] # order[j]
  BY <1>2 DEF SetToSeqs
<1>4. order \in Injection(1..n, Opened)
  BY <1>3 DEF Injection, IsInjective
<1>5. Cardinality(1..n) = n
  BY FS_Interval
<1>6. order \in Surjection(1..n, Opened)
  BY <1>1, <1>2, <1>4, <1>5, FS_Injection
<1> QED BY <1>3, <1>6 DEF Surjection

-----------------------------------------------------------------------------
(* The invariant. *)

PanelsInv ==
  /\ panel = [x \in Ids |-> panel[x]] /\ \A x \in Ids : PanelShape(panel[x])
  /\ handle = [d \in Opened |-> handle[d]] /\ \A d \in Opened : handle[d] \in Ids \cup {Absent}
  /\ \A d, e \in Opened : handle[d] # Absent /\ handle[d] = handle[e] => d = e

\* An action sets what the configuration of its device says.
Agreed(a) ==
  /\ a.device \in Registered /\ a.do \in Kinds
  /\ a.do = "brightness" => a.level = manager[a.device].config.brightness
  /\ a.do = "rotation" => a.rotation = manager[a.device].config.rotation
PendingInv == \E S : pending \in Seq(S) /\ \A a \in S : Agreed(a)

\* The settings are taken together, and what was taken has reached the panel, is about
\* to, or could not.
TakenTogether(m) ==
  \/ m.brightness = {} /\ m.rotation = {}
  \/ m.brightness = {m.config.brightness} /\ m.rotation = {m.config.rotation}
Underway(d) ==
  manager[d].config # Unset /\ handle[d] # Absent /\ manager[d].brightness = {} =>
    /\ \/ "brightness" \in amiss[d] \/ Has(pending, d, "brightness")
       \/ panel[handle[d]].brightness = Level(manager[d].config.brightness)
    /\ \/ "rotation" \in amiss[d] \/ Has(pending, d, "rotation")
       \/ panel[handle[d]].rotation = manager[d].config.rotation

LcdInv ==
  /\ PanelsInv /\ PendingInv
  /\ amiss = [d \in Opened |-> amiss[d]]
  /\ Registered \subseteq Opened
  /\ \A d \in Registered : Mind(manager[d]) /\ TakenTogether(manager[d]) /\ Underway(d)

LEMMA UsbFine == PanelsInv => UsbShape(Usb)
<1> SUFFICES ASSUME PanelsInv PROVE UsbShape(Usb)
  OBVIOUS
<1>1. PICK w : w = Usb
  OBVIOUS
<1>2. w.p = panel /\ w.h = handle /\ w = [p |-> w.p, h |-> w.h, c |-> w.c, ok |-> w.ok]
  BY <1>1 DEF Usb
<1>3. UsbShape(w)
  BY <1>2 DEF UsbShape, PanelsInv
<1> QED BY <1>1, <1>3

LEMMA PanelsFine ==
  ASSUME NEW u, UsbShape(u), panel' = u.p, handle' = u.h PROVE PanelsInv'
BY DEF UsbShape, PanelsInv

LEMMA NoneIn == \A d, what : ~Has(<<>>, d, what)
BY DEF Has

LEMMA LcdInitHolds == LcdInit => LcdInv
<1> SUFFICES ASSUME LcdInit PROVE LcdInv
  OBVIOUS
<1>1. Opened \subseteq Ids
  BY PanelsAssumption DEF Ids
<1>2. handle = [d \in Opened |-> d] /\ DOMAIN handle = Opened
  BY DEF LcdInit
<1>3. PanelsInv
  <2>1. \A x \in Ids : PanelShape(panel[x])
    BY DEF LcdInit, PanelShape
  <2>2. panel = [x \in Ids |-> panel[x]]
    BY DEF LcdInit
  <2> QED BY <1>1, <1>2, <2>1, <2>2 DEF PanelsInv
<1>4. PendingInv
  <2>1. pending \in Seq({})
    BY EmptySeq DEF LcdInit
  <2> QED BY <2>1 DEF PendingInv
<1>5. amiss = [d \in Opened |-> amiss[d]]
  BY <1>2 DEF LcdInit
<1>6. Registered = {}
  BY DEF LcdInit, Registered
<1> QED BY <1>3, <1>4, <1>5, <1>6 DEF LcdInv

\* A device before it is ticked.
LEMMA AgedIs ==
  ASSUME LcdInv, NEW d \in Opened
  PROVE  LET m == Aged[d]
         IN /\ Mind(m) /\ TakenTogether(m)
            /\ d \in Registered => SameSettings(manager[d], m)
            /\ d \notin Registered => m.config = Unset
<1>1. PICK m : m = Aged[d]
  OBVIOUS
<1>2. m = IF d \in Registered THEN Elapsed(manager[d]) ELSE Fresh
  BY <1>1 DEF Aged, LcdInv, PanelsInv
<1>3. CASE d \in Registered
  <2>1. PICK n : n = manager[d]
    OBVIOUS
  <2>2. Mind(n) /\ TakenTogether(n)
    BY <1>3, <2>1 DEF LcdInv
  <2>3. m = [n EXCEPT !.due = IF @ > 0 THEN @ - 1 ELSE 0, !.turnDue = IF @ > 0 THEN @ - 1 ELSE 0]
    BY <1>2, <1>3, <2>1 DEF Elapsed
  <2>4. Mind(m) /\ SameSettings(n, m)
    BY <2>2, <2>3 DEF Mind, SameSettings
  <2> QED BY <1>1, <1>3, <2>1, <2>2, <2>4 DEF SameSettings, TakenTogether
<1>4. CASE d \notin Registered
  <2>1. m = Fresh
    BY <1>2, <1>4
  <2>2. m.config = Unset /\ m.brightness = {} /\ m.rotation = {} /\ Mind(m)
    BY <2>1 DEF Fresh, Mind
  <2> QED BY <1>1, <1>4, <2>2 DEF TakenTogether
<1> QED BY <1>3, <1>4

\* What a poll leaves, the devices having been ticked in this order.
PolledTo(ticked, order) ==
  /\ \A d \in Opened : Ticked(d, Aged[d], ticked[d])
  /\ order \in SetToSeqs(Opened)
  /\ manager' = [d \in Opened |-> ticked[d].state]
  /\ pending' = FlattenSeq([i \in DOMAIN order |-> ticked[order[i]].actions])

LEMMA PollIs ==
  ASSUME LcdInv, PollPanels
  PROVE  \E ticked, order : PolledTo(ticked, order)
<1>1. DOMAIN handle = Opened
  BY DEF LcdInv, PanelsInv
<1>2. PICK sample \in Samples, grab \in Grabs, order \in SetToSeqs(DOMAIN handle), before \in {Aged} :
        \E ticked \in {[d \in DOMAIN handle |-> TickOne(d, before[d], sample.panels, grab)]} :
          /\ manager' = [d \in DOMAIN handle |-> ticked[d].state]
          /\ pending' = FlattenSeq([i \in DOMAIN order |-> ticked[order[i]].actions])
  BY DEF PollPanels
<1>3. PICK ticked : /\ ticked = [d \in Opened |-> TickOne(d, Aged[d], sample.panels, grab)]
                    /\ manager' = [d \in Opened |-> ticked[d].state]
                    /\ pending' = FlattenSeq([i \in DOMAIN order |-> ticked[order[i]].actions])
  BY <1>1, <1>2
<1>4. ASSUME NEW d \in Opened PROVE Ticked(d, Aged[d], ticked[d])
  <2>1. PICK m : m = Aged[d]
    OBVIOUS
  <2>2. Mind(m) /\ TakenTogether(m)
    BY <2>1, AgedIs
  <2>3. Option(m.brightness) /\ Option(m.rotation)
    BY <2>2 DEF TakenTogether, Option
  <2>4. PICK q : q = TickOne(d, m, sample.panels, grab)
    OBVIOUS
  <2>5. Ticked(d, m, q)
    BY <2>2, <2>3, <2>4, TickIs
  <2> QED BY <1>3, <2>1, <2>4, <2>5
<1>5. order \in SetToSeqs(Opened)
  BY <1>1
<1>6. PolledTo(ticked, order)
  BY <1>3, <1>4, <1>5, Zenon DEF PolledTo
<1> QED BY <1>6

LEMMA PollSettings == LcdInv /\ PollPanels => LcdInv'
<1> SUFFICES ASSUME LcdInv, PollPanels PROVE LcdInv'
  OBVIOUS
<1>0. PICK ticked, order : PolledTo(ticked, order)
  BY PollIs
<1>1. /\ \A d \in Opened : Ticked(d, Aged[d], ticked[d])
      /\ order \in SetToSeqs(Opened)
      /\ manager' = [d \in Opened |-> ticked[d].state]
      /\ pending' = FlattenSeq([i \in DOMAIN order |-> ticked[order[i]].actions])
  BY <1>0, Zenon DEF PolledTo
<1>2. pending = <<>> /\ panel' = panel /\ handle' = handle /\ amiss' = amiss
  BY DEF PollPanels
<1>3. Registered' = Opened /\ \A d \in Opened : manager'[d] = ticked[d].state
  BY <1>1 DEF Registered
<1> DEFINE Items(d) == {ticked[d].actions[j] : j \in 1..Len(ticked[d].actions)}
           S == UNION {Items(d) : d \in Opened}
<1>4. ASSUME NEW d \in Opened
      PROVE  ticked[d].actions \in Seq(S) /\ \A a \in Items(d) : Agreed(a)'
  <2>1. PICK m : m = Aged[d] /\ Mind(m) /\ TakenTogether(m)
    BY AgedIs
  <2>2. PICK q : q = ticked[d] /\ Ticked(d, m, q)
    BY <1>1, <2>1
  <2>3. PICK P : q.actions \in Seq(Actions(d, m.brightness, m.rotation, P))
    BY <2>2 DEF Ticked
  <2>4. \A j \in 1..Len(q.actions) : q.actions[j] \in S
    BY <2>2
  <2> HIDE DEF S
  <2>5. q.actions \in Seq(S)
    BY <2>3, <2>4, SeqNarrow
  <2>6. ASSUME NEW a \in Actions(d, m.brightness, m.rotation, P) PROVE Agreed(a)'
    <3>1. manager'[d].config = m.config
      BY <1>3, <2>2 DEF Ticked
    <3>2. a.device = d /\ a.do \in Kinds
      BY <2>6 DEF Actions, Frame, Kinds
    <3>3. a.do = "brightness" => a.level = m.config.brightness
      BY <2>1, <2>6 DEF Actions, Frame, TakenTogether
    <3>4. a.do = "rotation" => a.rotation = m.config.rotation
      BY <2>1, <2>6 DEF Actions, Frame, TakenTogether
    <3> QED BY <1>3, <3>1, <3>2, <3>3, <3>4 DEF Agreed
  <2>7. \A j \in 1..Len(q.actions) : q.actions[j] \in Actions(d, m.brightness, m.rotation, P)
    BY <2>3, ElementOfSeq
  <2> QED BY <2>2, <2>5, <2>6, <2>7
<1>5. PICK n \in Nat : /\ order \in [1..n -> Opened] /\ DOMAIN order = 1..n
                       /\ \A d \in Opened : \E i \in 1..n : order[i] = d
  BY <1>1, OrdersAll
<1> DEFINE seqs == [i \in 1..n |-> ticked[order[i]].actions]
<1>6. SeqList(seqs, n, S)
  <2> HIDE DEF S
  <2> QED BY <1>4, <1>5 DEF SeqList
<1>7. pending' = FlattenSeq(seqs)
  BY <1>1, <1>5
<1>8. \A a \in S : Agreed(a)'
  BY <1>4
<1>9. \A d \in Opened : \E i \in 1..n : seqs[i] = ticked[d].actions
  BY <1>5
<1> HIDE DEF S, seqs
<1>10. /\ pending' \in Seq(S)
       /\ \A i \in 1..n : \A j \in 1..Len(seqs[i]) : \E k \in 1..Len(pending') : pending'[k] = seqs[i][j]
  BY <1>6, <1>7, FlattenIs
<1>11. PendingInv'
  BY <1>8, <1>10 DEF PendingInv
<1>12. \A d \in Opened : \A what : Has(ticked[d].actions, d, what) => Has(pending', d, what)
  BY <1>9, <1>10 DEF Has
<1>13. PanelsInv' /\ (amiss = [d \in Opened |-> amiss[d]])'
  BY <1>2 DEF LcdInv, PanelsInv
<1>14. ASSUME NEW d \in Opened
       PROVE  Mind(manager'[d]) /\ TakenTogether(manager'[d]) /\ Underway(d)'
  <2>1. PICK m : /\ m = Aged[d] /\ Mind(m) /\ TakenTogether(m)
                 /\ d \in Registered => SameSettings(manager[d], m)
                 /\ d \notin Registered => m.config = Unset
    BY AgedIs
  <2>2. PICK q : q = ticked[d] /\ Ticked(d, m, q)
    BY <1>1, <2>1
  <2>3. Mind(manager'[d]) /\ TakenTogether(manager'[d]) /\ manager'[d].config = m.config
    BY <1>3, <2>2 DEF Ticked, TakenTogether
  <2>4. ASSUME m.config # Unset, handle[d] # Absent
        PROVE  /\ \/ "brightness" \in amiss[d] \/ Has(pending', d, "brightness")
                  \/ panel[handle[d]].brightness = Level(m.config.brightness)
               /\ \/ "rotation" \in amiss[d] \/ Has(pending', d, "rotation")
                  \/ panel[handle[d]].rotation = m.config.rotation
    <3>1. d \in Registered /\ SameSettings(manager[d], m)
      BY <2>1, <2>4
    <3>2. CASE m.brightness = {}
      <4>1. Underway(d) /\ m.config = manager[d].config /\ manager[d].brightness = {}
        BY <3>1, <3>2 DEF LcdInv, SameSettings
      <4>2. ~Has(pending, d, "brightness") /\ ~Has(pending, d, "rotation")
        BY <1>2, NoneIn
      <4> QED BY <2>4, <4>1, <4>2 DEF Underway
    <3>3. CASE m.brightness # {}
      <4>1. m.rotation # {}
        BY <2>1, <3>3 DEF TakenTogether
      <4> QED BY <1>12, <2>2, <3>3, <4>1 DEF Ticked
    <3> QED BY <3>2, <3>3
  <2>5. Underway(d)'
    BY <1>2, <2>3, <2>4 DEF Underway
  <2> QED BY <2>3, <2>5
<1> QED BY <1>3, <1>11, <1>13, <1>14 DEF LcdInv

LEMMA CarrySettings == LcdInv /\ Carry => LcdInv'
<1> SUFFICES ASSUME LcdInv, Carry PROVE LcdInv'
  OBVIOUS
<1>1. pending # <<>> /\ pending' = Tail(pending) /\ manager' = manager
  BY DEF Carry
<1>2. PICK late \in BOOLEAN, fails \in BOOLEAN :
        \E u \in {Carried(Head(pending), late, fails)} :
          /\ panel' = u.p /\ handle' = u.h
          /\ amiss' = AmissAfter(Head(pending), u)
  BY DEF Carry
<1>3. PICK a : a = Head(pending)
  OBVIOUS
<1>4. PICK u : u = Carried(a, late, fails)
  OBVIOUS
<1>5. panel' = u.p /\ handle' = u.h /\ amiss' = AmissAfter(a, u)
  BY <1>2, <1>3, <1>4
<1>6. PICK S : pending \in Seq(S) /\ \A x \in S : Agreed(x)
  BY DEF LcdInv, PendingInv
<1>7. /\ a \in S /\ a = pending[1] /\ pending' \in Seq(S)
      /\ Len(pending') = Len(pending) - 1 /\ Len(pending) \in Nat
      /\ \A i \in 1..Len(pending') : pending'[i] = pending[i + 1]
  BY <1>1, <1>3, <1>6, HeadTailProperties, LenProperties DEF Head
<1>8. \A x : Agreed(x)' <=> Agreed(x)
  BY <1>1 DEF Agreed, Registered
<1>9. PendingInv'
  BY <1>6, <1>7, <1>8 DEF PendingInv
<1>10. Agreed(a)
  BY <1>6, <1>7
<1>11. PICK d \in Opened : d = a.device
  BY <1>10 DEF Agreed, LcdInv
<1>12. UsbShape(Usb)
  BY UsbFine DEF LcdInv
<1>13. /\ UsbShape(u) /\ KeepsOthers(Usb, u, d)
       /\ a.do # "frame" => u.h = handle
       /\ \A x \in Ids :
            /\ (a.do = "brightness" /\ x = handle[d]) \/ u.p[x].brightness = panel[x].brightness
            /\ (a.do = "rotation" /\ x = handle[d]) \/ u.p[x].rotation = panel[x].rotation
       /\ a.do = "brightness" /\ u.ok =>
            handle[d] # Absent /\ u.p[handle[d]].brightness = Level(a.level)
       /\ a.do = "rotation" /\ u.ok =>
            handle[d] # Absent /\ u.p[handle[d]].rotation = a.rotation
  BY <1>4, <1>10, <1>11, <1>12, CarriedKeeps DEF Agreed
<1>14. PanelsInv'
  BY <1>5, <1>13, PanelsFine
<1>15. DOMAIN amiss = Opened /\ DOMAIN handle = Opened
  BY DEF LcdInv, PanelsInv
<1>16. (amiss = [e \in Opened |-> amiss[e]])'
  BY <1>5, <1>15 DEF AmissAfter
<1>17. ASSUME NEW e \in Opened, NEW what, ~(a.do = what /\ a.device = e), Has(pending, e, what)
       PROVE  Has(pending', e, what)
  <2>1. PICK i \in 1..Len(pending) : pending[i].do = what /\ pending[i].device = e
    BY <1>17 DEF Has
  <2>2. i # 1
    BY <1>7, <1>17, <2>1
  <2>3. PICK j : j = i - 1
    OBVIOUS
  <2>4. j \in 1..Len(pending') /\ j + 1 = i
    BY <1>7, <2>2, <2>3
  <2> QED BY <1>7, <2>1, <2>4 DEF Has
<1>18. ASSUME NEW e \in Opened, e # d
       PROVE  /\ handle'[e] = handle[e]
              /\ \A x \in {"brightness", "rotation"} : x \in amiss[e] => x \in amiss'[e]
              /\ handle[e] # Absent => /\ panel'[handle[e]].brightness = panel[handle[e]].brightness
                                       /\ panel'[handle[e]].rotation = panel[handle[e]].rotation
  <2>1. handle'[e] = handle[e]
    BY <1>5, <1>13, <1>18 DEF KeepsOthers, Usb
  <2>2. amiss'[e] = amiss[e] \cup {x \in {"frame"} : e \in Wiped(u)}
    BY <1>5, <1>11, <1>15, <1>18 DEF AmissAfter
  <2>3. handle[e] # Absent => handle[e] \in Ids /\ handle[e] # handle[d]
    BY <1>18 DEF LcdInv, PanelsInv
  <2> QED BY <1>5, <1>13, <2>1, <2>2, <2>3
<1>19. /\ handle'[d] # handle[d] => {"brightness", "rotation"} \subseteq amiss'[d]
       /\ \A x \in {"brightness", "rotation"} :
            /\ a.do # x /\ x \in amiss[d] => x \in amiss'[d]
            /\ a.do = x /\ x \notin amiss'[d] => u.ok
  <2> DEFINE missed == amiss[d] \cup {x \in {"brightness", "rotation", "clock"} : d \in Moved(u)}
  <2>1. amiss'[d] = IF u.ok THEN missed \ Given(a) ELSE missed \cup {a.do}
    BY <1>5, <1>11, <1>15 DEF AmissAfter
  <2>2. handle'[d] # handle[d] => d \in Moved(u) /\ a.do = "frame"
    BY <1>5, <1>13, <1>15 DEF Moved
  <2>3. \A x \in {"brightness", "rotation"} : a.do # x => x \notin Given(a)
    BY DEF Given
  <2>4. ASSUME handle'[d] # handle[d] PROVE {"brightness", "rotation"} \subseteq amiss'[d]
    <3>1. {"brightness", "rotation"} \subseteq missed
      BY <2>2, <2>4
    <3> HIDE DEF missed
    <3>2. ASSUME NEW x \in {"brightness", "rotation"} PROVE x \notin Given(a)
      BY <2>2, <2>3, <2>4, <3>2
    <3> QED BY <2>1, <3>1, <3>2
  <2>5. ASSUME NEW x \in {"brightness", "rotation"}
        PROVE  /\ a.do # x /\ x \in amiss[d] => x \in amiss'[d]
               /\ a.do = x /\ x \notin amiss'[d] => u.ok
    <3>1. x \in amiss[d] => x \in missed
      OBVIOUS
    <3> HIDE DEF missed
    <3> QED BY <2>1, <2>3, <3>1
  <2> QED BY <2>4, <2>5
<1>20. ASSUME NEW e \in Registered, e # d PROVE Underway(e)'
  <2>1. e \in Opened /\ Underway(e)
    BY DEF LcdInv
  <2>2. \A what : Has(pending, e, what) => Has(pending', e, what)
    BY <1>11, <1>17, <1>20, <2>1
  <2> QED BY <1>1, <1>18, <1>20, <2>1, <2>2 DEF Underway
<1>21. d \in Registered => Underway(d)'
  <2> SUFFICES ASSUME d \in Registered, manager[d].config # Unset, handle'[d] # Absent,
                      manager[d].brightness = {}
               PROVE  /\ \/ "brightness" \in amiss'[d] \/ Has(pending', d, "brightness")
                         \/ panel'[handle'[d]].brightness = Level(manager[d].config.brightness)
                      /\ \/ "rotation" \in amiss'[d] \/ Has(pending', d, "rotation")
                         \/ panel'[handle'[d]].rotation = manager[d].config.rotation
    BY <1>1 DEF Underway
  <2>1. CASE handle'[d] # handle[d]
    BY <1>19, <2>1
  <2>2. CASE handle'[d] = handle[d]
    <3>1. Underway(d) /\ handle[d] \in Ids
      BY <2>2 DEF LcdInv, PanelsInv
    <3>2. /\ \/ "brightness" \in amiss'[d] \/ Has(pending', d, "brightness")
             \/ panel'[handle[d]].brightness = Level(manager[d].config.brightness)
      <4>1. CASE a.do = "brightness"
        <5>1. a.level = manager[d].config.brightness
          BY <1>10, <1>11, <4>1 DEF Agreed
        <5> QED BY <1>5, <1>13, <1>19, <4>1, <5>1
      <4>2. CASE a.do # "brightness"
        <5>1. Has(pending, d, "brightness") => Has(pending', d, "brightness")
          BY <1>17, <4>2
        <5>2. panel'[handle[d]].brightness = panel[handle[d]].brightness
          BY <1>5, <1>13, <3>1, <4>2
        <5> QED BY <1>19, <2>2, <3>1, <4>2, <5>1, <5>2 DEF Underway
      <4> QED BY <4>1, <4>2
    <3>3. /\ \/ "rotation" \in amiss'[d] \/ Has(pending', d, "rotation")
             \/ panel'[handle[d]].rotation = manager[d].config.rotation
      <4>1. CASE a.do = "rotation"
        <5>1. a.rotation = manager[d].config.rotation
          BY <1>10, <1>11, <4>1 DEF Agreed
        <5> QED BY <1>5, <1>13, <1>19, <4>1, <5>1
      <4>2. CASE a.do # "rotation"
        <5>1. Has(pending, d, "rotation") => Has(pending', d, "rotation")
          BY <1>17, <4>2
        <5>2. panel'[handle[d]].rotation = panel[handle[d]].rotation
          BY <1>5, <1>13, <3>1, <4>2
        <5> QED BY <1>19, <2>2, <3>1, <4>2, <5>1, <5>2 DEF Underway
      <4> QED BY <4>1, <4>2
    <3> QED BY <2>2, <3>2, <3>3
  <2> QED BY <2>1, <2>2
<1>22. Registered' = Registered
  BY <1>1 DEF Registered
<1> QED BY <1>1, <1>9, <1>14, <1>16, <1>20, <1>21, <1>22 DEF LcdInv

LEMMA AskSettings == LcdInv /\ Ask => LcdInv'
<1> SUFFICES ASSUME LcdInv, NEW d \in Ids, NEW config \in Asked[d], SetLcd(d, config) PROVE LcdInv'
  BY DEF Ask
<1>1. /\ pending = <<>> /\ pending' = <<>> /\ d \in Registered
      /\ panel' = panel /\ handle' = handle /\ amiss' = [amiss EXCEPT ![d] = {}]
  BY DEF SetLcd
<1>2. PICK captured : manager' = [manager EXCEPT ![d] =
                                    Configured(LoadPreset(manager[d], config.content), config, captured)]
  BY DEF SetLcd
<1>3. PICK n : n = LoadPreset(manager[d], config.content)
  OBVIOUS
<1>4. PICK m : m = Configured(n, config, captured)
  OBVIOUS
<1>5. Mind(n)
  BY <1>1, <1>3 DEF LcdInv, LoadPreset, Mind
<1>6. Mind(m) /\ m.config = config /\ m.brightness = {config.brightness} /\ m.rotation = {config.rotation}
  BY <1>4, <1>5 DEF Mind, Configured
<1>7. /\ Registered' = Registered /\ manager'[d] = m
      /\ \A e \in Registered : e # d => manager'[e] = manager[e]
  BY <1>1, <1>2, <1>3, <1>4 DEF Registered
<1>8. PanelsInv'
  BY <1>1 DEF LcdInv, PanelsInv
<1>9. PendingInv'
  <2>1. pending' \in Seq({})
    BY <1>1, EmptySeq
  <2> QED BY <2>1 DEF PendingInv
<1>10. (amiss = [e \in Opened |-> amiss[e]])' /\ \A e \in Registered : e # d => amiss'[e] = amiss[e]
  BY <1>1 DEF LcdInv
<1>11. ASSUME NEW e \in Registered
       PROVE  Mind(manager'[e]) /\ TakenTogether(manager'[e]) /\ Underway(e)'
  <2>1. CASE e = d
    BY <1>6, <1>7, <2>1 DEF TakenTogether, Underway
  <2>2. CASE e # d
    <3>1. Mind(manager[e]) /\ TakenTogether(manager[e]) /\ Underway(e)
      BY DEF LcdInv
    <3> QED BY <1>1, <1>7, <1>10, <2>2, <3>1 DEF Underway
  <2> QED BY <2>1, <2>2
<1> QED BY <1>7, <1>8, <1>9, <1>10, <1>11 DEF LcdInv

LEMMA MishapSettings == LcdInv /\ Mishap => LcdInv'
<1> SUFFICES ASSUME LcdInv, NEW d \in Ids, Unplug(d) PROVE LcdInv'
  BY DEF Mishap
<1>1. manager' = manager /\ pending' = pending
  BY DEF Unplug
<1>2. DOMAIN handle = Opened /\ DOMAIN amiss = Opened
  BY DEF LcdInv, PanelsInv
<1>3. PICK lost : lost = [shows |-> Black, brightness |-> Dark, rotation |-> Absent,
                          answers |-> <<>>, attached |-> FALSE]
  OBVIOUS
<1>4. /\ panel' = [panel EXCEPT ![d] = lost]
      /\ handle' = [h \in Opened |-> IF handle[h] = d THEN Absent ELSE handle[h]]
      /\ amiss' = [h \in Opened |->
           IF d \in {h, handle[h]} THEN {"frame", "brightness", "rotation", "clock"} ELSE amiss[h]]
  BY <1>2, <1>3 DEF Unplug
<1>5. PanelShape(lost)
  BY <1>3 DEF PanelShape
<1>6. panel' = [x \in Ids |-> IF x = d THEN lost ELSE panel[x]]
  BY <1>4 DEF LcdInv, PanelsInv
<1>7. PanelsInv'
  <2>1. (panel = [x \in Ids |-> panel[x]])' /\ \A x \in Ids : PanelShape(panel'[x])
    BY <1>5, <1>6 DEF LcdInv, PanelsInv
  <2>2. \A e \in Opened : handle'[e] = IF handle[e] = d THEN Absent ELSE handle[e]
    BY <1>4
  <2>3. (handle = [e \in Opened |-> handle[e]])'
    BY <1>4
  <2>4. \A e \in Opened : handle'[e] \in Ids \cup {Absent}
    BY <2>2 DEF LcdInv, PanelsInv
  <2>5. \A e, f \in Opened : handle'[e] # Absent /\ handle'[e] = handle'[f] => e = f
    BY <2>2 DEF LcdInv, PanelsInv
  <2> QED BY <2>1, <2>3, <2>4, <2>5 DEF PanelsInv
<1>8. (amiss = [e \in Opened |-> amiss[e]])'
  BY <1>4
<1>9. PendingInv'
  BY <1>1 DEF LcdInv, PendingInv, Agreed, Registered
<1>10. ASSUME NEW e \in Registered PROVE Underway(e)'
  <2>1. e \in Opened /\ Underway(e)
    BY DEF LcdInv
  <2>2. CASE d \in {e, handle[e]}
    <3>1. {"brightness", "rotation"} \subseteq amiss'[e]
      BY <1>4, <2>1, <2>2
    <3> QED BY <3>1 DEF Underway
  <2>3. CASE d \notin {e, handle[e]}
    <3>1. handle'[e] = handle[e] /\ amiss'[e] = amiss[e]
      BY <1>4, <2>1, <2>3
    <3>2. handle[e] # Absent => panel'[handle[e]] = panel[handle[e]]
      BY <1>6, <2>1, <2>3 DEF LcdInv, PanelsInv
    <3> QED BY <1>1, <2>1, <3>1, <3>2 DEF Underway
  <2> QED BY <2>2, <2>3
<1> QED BY <1>1, <1>7, <1>8, <1>9, <1>10 DEF LcdInv, Registered

LEMMA RepairSettings == LcdInv /\ Repair => LcdInv'
<1> SUFFICES ASSUME LcdInv, NEW d \in Ids, PlugIn(d) PROVE LcdInv'
  BY DEF Repair
<1>1. /\ manager' = manager /\ pending' = pending /\ handle' = handle /\ amiss' = amiss
      /\ panel' = [panel EXCEPT ![d].attached = TRUE]
  BY DEF PlugIn
<1>2. PICK q : q = panel[d] /\ PanelShape(q)
  BY DEF LcdInv, PanelsInv
<1>3. PICK new : new = [q EXCEPT !.attached = TRUE]
  OBVIOUS
<1>4. PanelShape(new) /\ new.brightness = q.brightness /\ new.rotation = q.rotation
  <2>1. PICK s, b, t, a, c : q = [shows |-> s, brightness |-> b, rotation |-> t, answers |-> a,
                                  attached |-> c]
    BY <1>2 DEF PanelShape
  <2>2. new = [shows |-> s, brightness |-> b, rotation |-> t, answers |-> a, attached |-> TRUE]
    BY <1>3, <2>1
  <2>3. q.brightness = b /\ q.rotation = t
    BY <2>1
  <2> QED BY <2>2, <2>3 DEF PanelShape
<1>5. panel' = [x \in Ids |-> IF x = d THEN new ELSE panel[x]]
  BY <1>1, <1>2, <1>3 DEF LcdInv, PanelsInv
<1>6. /\ \A x \in Ids : /\ panel'[x].brightness = panel[x].brightness
                        /\ panel'[x].rotation = panel[x].rotation
      /\ PanelsInv'
  BY <1>1, <1>2, <1>4, <1>5 DEF LcdInv, PanelsInv
<1>7. PendingInv'
  BY <1>1 DEF LcdInv, PendingInv, Agreed, Registered
<1>8. ASSUME NEW e \in Registered PROVE Underway(e)'
  <2>1. e \in Opened /\ Underway(e) /\ (handle[e] # Absent => handle[e] \in Ids)
    BY DEF LcdInv, PanelsInv
  <2> QED BY <1>1, <1>6, <2>1 DEF Underway
<1> QED BY <1>1, <1>6, <1>7, <1>8 DEF LcdInv, Registered

LEMMA LcdStutters == LcdInv /\ UNCHANGED lcdVars => LcdInv'
<1> SUFFICES ASSUME LcdInv, UNCHANGED lcdVars PROVE LcdInv'
  OBVIOUS
<1>1. panel' = panel /\ handle' = handle /\ manager' = manager /\ pending' = pending /\ amiss' = amiss
  BY DEF lcdVars
<1>2. PanelsInv' /\ PendingInv'
  BY <1>1 DEF LcdInv, PanelsInv, PendingInv, Agreed, Registered
<1>3. \A d \in Registered : Underway(d)'
  BY <1>1 DEF LcdInv, Underway
<1> QED BY <1>1, <1>2, <1>3 DEF LcdInv, Registered

\* However requests, polls, actions that fail, and panels that are unplugged, attached
\* and found again by reopen interleave: no two handles reach one panel, actions that
\* wait carry the settings of the last SetLcd, and settings that a tick has taken are at
\* the panel, on their way, or known to have been lost.
THEOREM LcdInductive == LcdSpec => []LcdInv
<1>1. LcdInv /\ [LcdNext]_lcdVars => LcdInv'
  BY PollSettings, CarrySettings, AskSettings, MishapSettings, RepairSettings, LcdStutters DEF LcdNext
<1> QED BY <1>1, LcdInitHolds, PTL DEF LcdSpec

\* For any panels, contents and requests: once a poll is over, the brightness and the
\* rotation of the last SetLcd have reached the panel of the device, unless sending them
\* failed or the device came by another panel since (LcdManager::tick takes them before
\* the engine sends them).
THEOREM SettingsReach == LcdSpec => []SettingsApplied
<1>1. LcdInv => SettingsApplied
  <2> SUFFICES ASSUME LcdInv, NEW d \in DOMAIN handle, Settled(d), manager[d].brightness = {}
               PROVE  /\ "brightness" \notin amiss[d] =>
                           panel[handle[d]].brightness = Level(manager[d].config.brightness)
                      /\ "rotation" \notin amiss[d] =>
                           panel[handle[d]].rotation = manager[d].config.rotation
    BY DEF SettingsApplied
  <2>1. Underway(d) /\ pending = <<>>
    BY DEF Settled, LcdInv
  <2> QED BY <2>1, NoneIn DEF Settled, Underway
<1> QED BY <1>1, LcdInductive, PTL

=============================================================================
