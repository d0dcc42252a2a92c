--------------------------- MODULE BoardLightsProofs ---------------------------
(* For any table of the controller, any requests and any number of faults: a  *)
(* request fails only when its device was in trouble twice, no port shows     *)
(* parts of two frames, and between requests the lights and the hub show what *)
(* the status says.                                                           *)
EXTENDS BoardLights, Integers, SequenceTheorems, FiniteSetTheorems, WellFoundedInduction, TLAPS

\* The queue of a request has items for devices of this machine only.
OwnQueue(queue) == \E S : queue \in Seq(S) /\ \A item \in S : item.device \in Devices

Shapes ==
  /\ found \subseteq Devices
  /\ cool \in [Devices -> BOOLEAN] /\ link \in [Devices -> {"good", "stale"}]
  /\ trouble \in [Devices -> Nat]
  /\ job = [do |-> job.do, queue |-> job.queue, left |-> job.left, again |-> job.again,
            failed |-> job.failed]
  /\ job.again \in BOOLEAN /\ job.failed \subseteq Devices
  /\ OwnQueue(job.queue)
  /\ daemon = "down" => job = Idle

\* What is against a device has been counted: its absence twice, its cooldown
\* and its stale handle once each.
Counted(d) ==
  /\ d \notin present => trouble[d] >= 2
  /\ cool[d] \/ link[d] = "stale" => trouble[d] >= 1
  /\ cool[d] /\ link[d] = "stale" => trouble[d] >= 2

\* The trouble that led to the second attempt counts, though the cooldown it
\* began may be over.
SecondCounted ==
  Working /\ job.again =>
    /\ trouble[Current.device] >= 1
    /\ link[Current.device] = "stale" => trouble[Current.device] >= 2

HiccupInv ==
  /\ Shapes
  /\ job # Idle => /\ \A d \in Devices : Counted(d)
                   /\ SecondCounted
  /\ OneHiccupSurvived

-----------------------------------------------------------------------------
LEMMA OwnIntro ==
  ASSUME NEW S, NEW queue \in Seq(S), \A item \in S : item.device \in Devices
  PROVE  OwnQueue(queue)
BY Zenon DEF OwnQueue

LEMMA HeadOwn ==
  ASSUME NEW queue, queue # <<>>, OwnQueue(queue)
  PROVE  Head(queue).device \in Devices /\ OwnQueue(Tail(queue))
  BY DEF OwnQueue

LEMMA ListOwn ==
  ASSUME NEW n \in Nat, NEW queue, queue = [i \in 1..n |-> queue[i]],
         \A i \in 1..n : queue[i].device \in Devices
  PROVE  OwnQueue(queue)
<1> DEFINE S == {queue[i] : i \in 1..n}
<1>1. queue \in Seq(S)
  <2>1. [i \in 1..n |-> queue[i]] \in [1..n -> S]
    OBVIOUS
  <2>2. queue \in [1..n -> S]
    BY <2>1, Zenon
  <2>. QED
    BY <2>2, SeqDef
<1>2. \A item \in S : item.device \in Devices
  OBVIOUS
<1>. QED
  BY <1>1, <1>2, OwnIntro

LEMMA OneOwn ==
  ASSUME NEW item, item.device \in Devices
  PROVE  OwnQueue(<<item>>)
<1>1. PICK S : S = {item}
  OBVIOUS
<1>2. <<item>> \in Seq(S)
  <2>1. Len(<<item>>) = 1 /\ DOMAIN <<item>> = 1..1 /\ <<item>>[1] = item
    OBVIOUS
  <2>2. <<item>> \in [1..1 -> S]
    BY <1>1, <2>1
  <2>. QED
    BY <2>2, SeqDef
<1>3. \A x \in S : x.device \in Devices
  BY <1>1
<1>. QED
  BY <1>2, <1>3, OwnIntro, Zenon

-----------------------------------------------------------------------------
(* Requests. *)

\* A request begins with what is against each device counted.
LEMMA BeginKeeps ==
  ASSUME HiccupInv, NEW do, NEW queue, OwnQueue(queue), Begin(do, queue), daemon' # "down"
  PROVE  HiccupInv'
<1>1. /\ job' = [do |-> do, queue |-> queue, left |-> Load(queue), again |-> FALSE,
                 failed |-> {}]
      /\ UNCHANGED <<found, cool, present, link>>
  BY DEF Begin, Idle
<1>2. trouble' = [d \in Devices |->
       IF d \notin present THEN 2
       ELSE (IF cool[d] THEN 1 ELSE 0) + (IF link[d] = "stale" THEN 1 ELSE 0)]
  BY DEF Begin
<1>3. Shapes'
  BY <1>1, <1>2 DEF HiccupInv, Shapes
<1>4. \A d \in Devices : Counted(d)'
  BY <1>1, <1>2 DEF HiccupInv, Shapes, Counted
<1>5. SecondCounted' /\ OneHiccupSurvived'
  BY <1>1 DEF SecondCounted, OneHiccupSurvived
<1>. QED
  BY <1>3, <1>4, <1>5 DEF HiccupInv

LEMMA SyncKeeps ==
  ASSUME HiccupInv, NEW S \in SUBSET Grouped, NEW frame, Sync(S, frame)
  PROVE  HiccupInv'
<1> DEFINE order == Ordered(S)
           queue == [i \in 1..Cardinality(S) |-> Paint(order[i], frame)]
<1>1. "board" \in Devices /\ Cardinality(S) \in Nat /\ Begin("sync", queue) /\ daemon' # "down"
  <2>1. "board" \in found /\ Begin("sync", queue) /\ daemon' # "down"
    BY DEF Sync, Request
  <2>2. IsFiniteSet(S)
    <3>1. IsFiniteSet(Channels)
      BY TableAssumption, FS_Interval DEF Channels
    <3>. QED
      BY <3>1, FS_Subset DEF Grouped
  <2>. QED
    BY <2>1, <2>2, FS_CardinalityType DEF HiccupInv, Shapes
<1>2. \A i \in 1..Cardinality(S) : queue[i].device \in Devices
  BY <1>1 DEF Paint, Item
<1>3. OwnQueue(queue)
  BY <1>1, <1>2, ListOwn
<1>. QED
  BY <1>1, <1>3, BeginKeeps

LEMMA ShutdownKeeps ==
  ASSUME HiccupInv, Shutdown
  PROVE  HiccupInv'
<1> DEFINE S == IF "board" \in found THEN ManagedChannels ELSE {}
           order == Ordered(S)
           queue == [i \in 1..Cardinality(S) |-> Off(order[i])]
<1>1. Begin("stop", queue) /\ daemon' # "down"
  BY DEF Shutdown
<1>2. Cardinality(S) \in Nat
  <2>1. IsFiniteSet(Channels)
    BY TableAssumption, FS_Interval DEF Channels
  <2>2. IsFiniteSet(S)
    BY <2>1, FS_Subset DEF ManagedChannels
  <2>. QED
    BY <2>2, FS_CardinalityType
<1>3. \A i \in 1..Cardinality(S) : queue[i].device \in Devices
  <2>1. CASE "board" \in found
    BY <2>1 DEF Off, Item, HiccupInv, Shapes
  <2>2. CASE "board" \notin found
    <3>1. S = {}
      BY <2>2
    <3>2. Cardinality({}) = 0
      BY FS_EmptySet
    <3>3. Cardinality(S) = 0
      BY <3>1, <3>2, Zenon
    <3>4. 1..Cardinality(S) = {}
      <4>. HIDE DEF S
      <4>. QED
        BY <3>3
    <3>. HIDE DEF queue
    <3>. QED
      BY <3>4, Zenon
  <2>. QED
    BY <2>1, <2>2
<1>4. OwnQueue(queue)
  BY <1>2, <1>3, ListOwn
<1>. QED
  BY <1>1, <1>4, BeginKeeps

LEMMA OthersKeep ==
  ASSUME HiccupInv,
         \/ \E c \in Channels, mode \in Effects : SetAuraEffect(c, mode)
         \/ \E s \in Speeds : MoboSetSpeed(s)
         \/ MoboAuto \/ Reset
  PROVE  HiccupInv'
<1>0. daemon' # "down"
  BY DEF SetAuraEffect, MoboSetSpeed, MoboAuto, Reset, Request
<1>1. PICK do, item : item.device \in found /\ Begin(do, <<item>>)
  <2>1. ASSUME NEW c, NEW mode, SetAuraEffect(c, mode)
        PROVE  Effect(c, mode).device \in found /\ Begin("effect", <<Effect(c, mode)>>)
    BY <2>1 DEF SetAuraEffect, Request, Effect, Item
  <2>2. ASSUME NEW s, MoboSetSpeed(s)
        PROVE  HubSpeed(s).device \in found /\ Begin("speed", <<HubSpeed(s)>>)
    BY <2>2 DEF MoboSetSpeed, Request, HubSpeed, Item
  <2>3. MoboAuto => HubSpeed("pwm").device \in found /\ Begin("auto", <<HubSpeed("pwm")>>)
    BY DEF MoboAuto, Request, HubSpeed, Item
  <2>4. Reset => HubReset.device \in found /\ Begin("reset", <<HubReset>>)
    BY DEF Reset, Request, HubReset, Item
  <2>. QED
    BY <2>1, <2>2, <2>3, <2>4
<1>2. OwnQueue(<<item>>)
  BY <1>1, OneOwn DEF HiccupInv, Shapes
<1>. QED
  BY <1>0, <1>1, <1>2, BeginKeeps

-----------------------------------------------------------------------------
(* The reports of a request, and what happens to the devices. *)

LEMMA CurrentOwn ==
  ASSUME HiccupInv, Working
  PROVE  Current.device \in Devices /\ OwnQueue(Tail(job.queue))
BY HeadOwn DEF HiccupInv, Shapes, Working, Current

\* A report the device takes changes nothing that is counted.
LEMMA WriteKeeps ==
  ASSUME HiccupInv, Write
  PROVE  HiccupInv'
<1>1. /\ job' = [job EXCEPT !.left = Tail(@)]
      /\ UNCHANGED <<daemon, found, cool, present, link, trouble>>
      /\ job # Idle
  BY DEF Write, Working
<1>2. job' = [do |-> job.do, queue |-> job.queue, left |-> Tail(job.left),
              again |-> job.again, failed |-> job.failed]
  BY <1>1 DEF HiccupInv, Shapes
<1>3. daemon # "down"
  BY <1>1 DEF HiccupInv, Shapes
<1>. QED
  BY <1>1, <1>2, <1>3 DEF HiccupInv, Shapes, Counted, SecondCounted, OneHiccupSurvived, Working,
                          Current

\* The next item starts with a first attempt.
LEMMA AdvanceIs ==
  ASSUME HiccupInv, NEW failed, NEW next, next = Advance(failed)
  PROVE  next = [do |-> job.do, queue |-> Tail(job.queue), left |-> Load(Tail(job.queue)),
                 again |-> FALSE, failed |-> job.failed \cup failed]
BY DEF HiccupInv, Shapes, Advance

LEMMA CompleteKeeps ==
  ASSUME HiccupInv, Complete
  PROVE  HiccupInv'
<1>1. /\ Working /\ job' = Advance({})
      /\ UNCHANGED <<daemon, found, cool, present, link, trouble>>
  BY DEF Complete
<1>2. job' = [do |-> job.do, queue |-> Tail(job.queue), left |-> Load(Tail(job.queue)),
              again |-> FALSE, failed |-> job.failed]
  <2>1. job.failed \cup {} = job.failed
    OBVIOUS
  <2>. QED
    BY <1>1, <2>1, AdvanceIs
<1>3. OwnQueue(Tail(job.queue)) /\ job # Idle
  BY <1>1, CurrentOwn DEF Working
<1>4. daemon # "down" /\ \A d \in Devices : Counted(d)
  BY <1>3 DEF HiccupInv, Shapes
<1>5. Shapes'
  <2>1. OwnQueue(job'.queue) /\ job'.again \in BOOLEAN /\ job'.failed \subseteq Devices
    BY <1>2, <1>3 DEF HiccupInv, Shapes
  <2>. QED
    BY <1>1, <1>2, <1>4, <2>1 DEF HiccupInv, Shapes
<1>6. \A d \in Devices : Counted(d)'
  BY <1>1, <1>4 DEF Counted
<1>7. SecondCounted' /\ OneHiccupSurvived'
  BY <1>1, <1>2 DEF HiccupInv, SecondCounted, OneHiccupSurvived
<1>. QED
  BY <1>5, <1>6, <1>7 DEF HiccupInv

\* A write fails: the first failure of an item is paid with the cooldown, and an
\* item is given up only when something else has been counted too.
LEMMA WriteFailsKeeps ==
  ASSUME HiccupInv, WriteFails
  PROVE  HiccupInv'
<1> DEFINE d == Current.device
<1>1. /\ Working /\ job # Idle /\ link[d] = "stale" /\ Recover
      /\ UNCHANGED <<daemon, found, present, trouble>>
      /\ daemon # "down"
  BY DEF WriteFails, Working, HiccupInv, Shapes
<1>2. d \in Devices /\ OwnQueue(Tail(job.queue)) /\ OwnQueue(job.queue)
  BY <1>1, CurrentOwn DEF HiccupInv, Shapes
<1>3. Counted(d) /\ SecondCounted /\ \A e \in Devices : Counted(e)
  BY <1>1, <1>2 DEF HiccupInv
<1>4. cool' = [cool EXCEPT ![d] = @ \/ CanRecover(d)]
  BY <1>1 DEF Recover
<1>. HIDE DEF d
<1>5. CASE CanRecover(d) /\ Reopen(d) /\ job' = Retry
  <2>1. job' = [do |-> job.do, queue |-> job.queue, left |-> Current.packets,
                again |-> TRUE, failed |-> job.failed]
    BY <1>5 DEF HiccupInv, Shapes, Retry
  <2>2. link' = [link EXCEPT ![d] = "good"] /\ d \in present
    BY <1>5 DEF Reopen, Attached
  <2>3. Shapes'
    BY <1>1, <1>2, <1>4, <2>1, <2>2 DEF HiccupInv, Shapes
  <2>4. link'[d] = "good" /\ trouble[d] >= 1
    BY <1>1, <1>2, <1>3, <2>2 DEF HiccupInv, Shapes, Counted, d
  <2>5. \A e \in Devices : Counted(e)'
    BY <1>1, <1>2, <1>3, <1>4, <2>2, <2>4 DEF HiccupInv, Shapes, Counted
  <2>6. Current' = Current
    BY <2>1 DEF Current
  <2>7. SecondCounted'
    BY <1>1, <2>4, <2>6 DEF SecondCounted, d
  <2>8. OneHiccupSurvived'
    BY <1>1, <2>1 DEF HiccupInv, OneHiccupSurvived
  <2>. QED
    BY <2>3, <2>5, <2>7, <2>8 DEF HiccupInv
<1>6. CASE ~(CanRecover(d) /\ Attached(d)) /\ job' = Advance({d}) /\ UNCHANGED link
  <2>1. job' = [do |-> job.do, queue |-> Tail(job.queue), left |-> Load(Tail(job.queue)),
                again |-> FALSE, failed |-> job.failed \cup {d}]
    BY <1>6, AdvanceIs
  <2>2. Shapes'
    <3>1. cool' \in [Devices -> BOOLEAN] /\ link' \in [Devices -> {"good", "stale"}]
      BY <1>4, <1>6 DEF HiccupInv, Shapes, CanRecover
    <3>2. job'.failed \subseteq Devices /\ job'.again \in BOOLEAN
      BY <1>2, <2>1 DEF HiccupInv, Shapes
    <3>3. OwnQueue(job'.queue)
      BY <1>2, <2>1
    <3>. QED
      BY <1>1, <2>1, <3>1, <3>2, <3>3 DEF HiccupInv, Shapes
  <2>3. trouble[d] >= 2
    <3>1. link[d] = "stale" /\ trouble[d] \in Nat /\ cool[d] \in BOOLEAN
      BY <1>1, <1>2 DEF HiccupInv, Shapes, d
    <3>2. CASE d \notin present
      BY <3>2, <1>3 DEF Counted
    <3>3. CASE job.again
      BY <3>1, <3>3, <1>1, <1>3 DEF SecondCounted, d
    <3>4. CASE cool[d]
      BY <3>1, <3>4, <1>3 DEF Counted
    <3>. QED
      BY <3>2, <3>3, <3>4, <1>6 DEF CanRecover, Attached
  <2>4. \A e \in Devices : Counted(e)'
    BY <1>1, <1>2, <1>3, <1>4, <1>6, <2>3 DEF HiccupInv, Shapes, Counted
  <2>5. SecondCounted'
    BY <2>1 DEF SecondCounted
  <2>6. OneHiccupSurvived'
    BY <1>1, <2>1, <2>3 DEF HiccupInv, OneHiccupSurvived
  <2>. QED
    BY <2>2, <2>4, <2>5, <2>6 DEF HiccupInv
<1>. QED
  BY <1>1, <1>5, <1>6 DEF Recover, d

LEMMA IdleKeeps ==
  ASSUME job' = Idle, Shapes'
  PROVE  HiccupInv'
BY DEF HiccupInv, OneHiccupSurvived, Idle

LEMMA NothingOwn == OwnQueue(<<>>)
<1>1. PICK S : S = {}
  OBVIOUS
<1>2. <<>> \in Seq(S) /\ \A x \in S : x.device \in Devices
  BY <1>1
<1>. QED
  BY <1>2, OwnIntro, Zenon

LEMMA IdleShape ==
  ASSUME job' = Idle,
         /\ found' \subseteq Devices
         /\ cool' \in [Devices -> BOOLEAN] /\ link' \in [Devices -> {"good", "stale"}]
         /\ trouble' \in [Devices -> Nat]
  PROVE  Shapes'
BY NothingOwn DEF Shapes, Idle

LEMMA AnswerKeeps ==
  ASSUME HiccupInv, Answer
  PROVE  HiccupInv'
<1>1. job' = Idle /\ UNCHANGED <<found, cool, trouble>>
  BY DEF Answer
<1>2. link' \in [Devices -> {"good", "stale"}]
  BY DEF Answer, HiccupInv, Shapes
<1>. QED
  BY <1>1, <1>2, IdleShape, IdleKeeps DEF HiccupInv, Shapes

LEMMA StartKeeps ==
  ASSUME HiccupInv, NEW answering \in SUBSET Devices, Start(answering)
  PROVE  HiccupInv'
<1>1. job' = Idle /\ UNCHANGED trouble
  BY DEF Start, HiccupInv, Shapes
<1>2. found' \subseteq Devices
  BY DEF Start, OpenBoard, OpenHub, Opens
<1>3. cool' \in [Devices -> BOOLEAN] /\ link' \in [Devices -> {"good", "stale"}]
  BY DEF Start
<1>. QED
  BY <1>1, <1>2, <1>3, IdleShape, IdleKeeps DEF HiccupInv, Shapes

LEMMA EnvironmentKeeps ==
  ASSUME HiccupInv, NEW d \in Devices,
         Unplug(d) \/ Plug(d) \/ GoesStale(d) \/ CooldownEnds(d)
  PROVE  HiccupInv'
<1>1. UNCHANGED <<daemon, found, job>>
  BY DEF Unplug, Plug, GoesStale, CooldownEnds
<1>2. Shapes' /\ \A e \in Devices : trouble'[e] >= trouble[e]
  <2>1. CASE Unplug(d)
    BY <1>1, <2>1 DEF HiccupInv, Shapes, Unplug, Befalls
  <2>2. CASE Plug(d)
    BY <1>1, <2>2 DEF HiccupInv, Shapes, Plug
  <2>3. CASE GoesStale(d)
    BY <1>1, <2>3 DEF HiccupInv, Shapes, GoesStale, Befalls
  <2>4. CASE CooldownEnds(d)
    BY <1>1, <2>4 DEF HiccupInv, Shapes, CooldownEnds
  <2>. QED
    BY <2>1, <2>2, <2>3, <2>4
<1>3. OneHiccupSurvived'
  <2>1. \A e \in Devices : trouble[e] \in Nat /\ trouble'[e] \in Nat
    BY <1>2 DEF HiccupInv, Shapes
  <2>. QED
    BY <1>1, <1>2, <2>1 DEF HiccupInv, Shapes, OneHiccupSurvived
<1>4. ASSUME job # Idle
      PROVE  \A e \in Devices : Counted(e)'
  <2>1. CASE Unplug(d)
    BY <1>4, <2>1 DEF HiccupInv, Shapes, Unplug, Befalls, Counted
  <2>2. CASE Plug(d)
    BY <1>4, <2>2 DEF HiccupInv, Shapes, Plug, Counted
  <2>3. CASE GoesStale(d)
    BY <1>4, <2>3 DEF HiccupInv, Shapes, GoesStale, Befalls, Counted
  <2>4. CASE CooldownEnds(d)
    BY <1>4, <2>4 DEF HiccupInv, Shapes, CooldownEnds, Counted
  <2>. QED
    BY <2>1, <2>2, <2>3, <2>4
<1>5. ASSUME job # Idle
      PROVE  SecondCounted'
  <2>0. (Working' <=> Working) /\ Current' = Current /\ job' = job
    BY <1>1 DEF Working, Current
  <2>1. SUFFICES ASSUME Working, job.again
                 PROVE  /\ trouble'[Current.device] >= 1
                        /\ link'[Current.device] = "stale" => trouble'[Current.device] >= 2
    BY <2>0 DEF SecondCounted
  <2>2. Current.device \in Devices
    BY <2>1, CurrentOwn
  <2> DEFINE c == Current.device
  <2>3. /\ trouble[c] >= 1
        /\ link[c] = "stale" => trouble[c] >= 2
        /\ c \in Devices /\ trouble[c] \in Nat /\ trouble'[c] \in Nat
        /\ trouble'[c] >= trouble[c]
    BY <1>2, <1>5, <2>1, <2>2 DEF HiccupInv, SecondCounted, Shapes
  <2>4. link'[c] = "stale" => trouble'[c] >= 2
    <3>1. CASE Unplug(d)
      BY <2>3, <3>1 DEF HiccupInv, Shapes, Unplug, Befalls
    <3>2. CASE Plug(d)
      BY <2>3, <3>2 DEF Plug
    <3>3. CASE GoesStale(d)
      BY <2>3, <3>3 DEF HiccupInv, Shapes, GoesStale, Befalls
    <3>4. CASE CooldownEnds(d)
      BY <2>3, <3>4 DEF CooldownEnds
    <3>. QED
      BY <3>1, <3>2, <3>3, <3>4
  <2>. QED
    BY <2>3, <2>4
<1>. QED
  BY <1>1, <1>2, <1>3, <1>4, <1>5 DEF HiccupInv

LEMMA StutterKeeps ==
  ASSUME HiccupInv, UNCHANGED vars
  PROVE  HiccupInv'
BY DEF HiccupInv, Shapes, Counted, SecondCounted, OneHiccupSurvived, Working, Current, vars

-----------------------------------------------------------------------------
\* The machine starts with nothing under way, and every step keeps the count.
THEOREM HiccupInductive == Spec => []HiccupInv
<1>1. Init => HiccupInv
  <2>1. SUFFICES ASSUME Init PROVE HiccupInv
    OBVIOUS
  <2>2. Shapes
    BY <2>1, NothingOwn DEF Init, Shapes, Idle
  <2>3. job = Idle /\ OneHiccupSurvived
    BY <2>1 DEF Init, OneHiccupSurvived, Idle
  <2>. QED
    BY <2>2, <2>3 DEF HiccupInv
<1>2. HiccupInv /\ [Next]_vars => HiccupInv'
  <2>1. SUFFICES ASSUME HiccupInv, [Next]_vars PROVE HiccupInv'
    OBVIOUS
  <2>2. CASE \E answering \in SUBSET Devices : Start(answering)
    BY <2>1, <2>2, StartKeeps
  <2>3. CASE \E S \in SUBSET Grouped, frame \in Frames : Sync(S, frame)
    BY <2>1, <2>3, SyncKeeps
  <2>4. CASE \/ \E c \in Channels, mode \in Effects : SetAuraEffect(c, mode)
             \/ \E s \in Speeds : MoboSetSpeed(s)
             \/ MoboAuto \/ Reset
    BY <2>1, <2>4, OthersKeep
  <2>5. CASE Shutdown
    BY <2>1, <2>5, ShutdownKeeps
  <2>6. CASE Write
    BY <2>1, <2>6, WriteKeeps
  <2>7. CASE WriteFails
    BY <2>1, <2>7, WriteFailsKeeps
  <2>8. CASE Complete
    BY <2>1, <2>8, CompleteKeeps
  <2>9. CASE Answer
    BY <2>1, <2>9, AnswerKeeps
  <2>10. CASE \E d \in Devices : Unplug(d) \/ Plug(d) \/ GoesStale(d) \/ CooldownEnds(d)
    BY <2>1, <2>10, EnvironmentKeeps
  <2>11. CASE UNCHANGED vars
    BY <2>1, <2>11, StutterKeeps
  <2>. QED
    BY <2>1, <2>2, <2>3, <2>4, <2>5, <2>6, <2>7, <2>8, <2>9, <2>10, <2>11 DEF Next
<1>. QED
  BY <1>1, <1>2, PTL DEF Spec

\* One stale handle, one cooldown or one interruption alone never fails a request,
\* for any controller, any requests and any number of faults (try_reconnect,
\* with_recovery).
THEOREM OneHiccupHolds == Spec => []OneHiccupSurvived
<1>1. HiccupInv => OneHiccupSurvived
  BY DEF HiccupInv
<1>. QED
  BY <1>1, HiccupInductive, PTL

-----------------------------------------------------------------------------
(* What the lights show. *)

\* The items requests are made of.
OfPaint(item)  == \E c \in Grouped, f \in Frames : item = Paint(c, f)
OfEffect(item) == \E c \in Channels, mode \in Effects : item = Effect(c, mode)
OfOff(item)    == \E c \in Channels : item = Off(c)
OfSpeed(item)  == \E s : item = HubSpeed(s)
OkItem(item) ==
  \/ OfPaint(item) \/ OfEffect(item) \/ OfSpeed(item) \/ item = HubReset
  \/ OfOff(item) /\ daemon # "up"

OkQueue(queue) ==
  \E S : /\ queue \in Seq(S)
         /\ \A item \in S : OkItem(item) /\ (item.do = "effect" => Len(queue) <= 1)

\* What is left of a list of which k reports were taken.
Rest(packets, k) == [i \in 1..(Len(packets) - k) |-> packets[k + i]]

\* What the controller has of an item, k reports into its list.
Midway(item, k) ==
  /\ item.do = "paint" =>
       LET buf == buffer[PortOf(item.channel)]
       IN  \A i \in 1..k : i <= Len(buf) /\ buf[i] = item.arg
  /\ item.do = "effect" /\ k \in 1..2 =>
       register = [port |-> PortOf(item.channel), mode |-> item.arg]

\* What a device shows when it has taken the whole list of an item.
Finished(item) ==
  /\ item.do = "paint" => \/ PortOf(item.channel) \in lost
                          \/ port[PortOf(item.channel)] = Whole(item.channel, item.arg)
  /\ item.do = "effect" => \/ PortOf(item.channel) \in lost
                           \/ port[PortOf(item.channel)] = Running(item.arg)
  /\ item.do = "speed" => HubPort \in lost \/ hub = item.arg

JobInv ==
  Working =>
    \E k \in 0..Len(Current.packets) :
      /\ job.left = Rest(Current.packets, k)
      /\ link[Current.device] = "good" => Midway(Current, k)
      /\ k = Len(Current.packets) /\ k > 0 => Finished(Current)

\* The whole list of an item for c was taken and is not recorded yet.
Unrecorded(do, c) ==
  /\ Working /\ job.left = <<>> /\ Current.packets # <<>>
  /\ Current.do = do /\ Current.channel = c

ChannelTrue(c) ==
  PortOf(c) \in lost \/ Unrecorded("paint", c) \/ Unrecorded("effect", c) \/
    /\ state[c] = "managed" /\ recorded[c] # None => port[PortOf(c)] = Whole(c, recorded[c])
    /\ state[c] \in Effects => port[PortOf(c)] = Running(state[c])
HubTrue == HubPort \in lost \/ Unrecorded("speed", 0) \/ (speed # None => hub = speed)

\* A frame of one piece.
Plain(x) == x.kind = "frame" => \E n \in Nat : \E f : x.of = [i \in 1..n |-> f]

BoardShapes ==
  /\ daemon \in {"down", "up", "stopping"}
  /\ state \in [Channels -> {"managed", "off"} \cup Effects]
  /\ recorded = [c \in Channels |-> recorded[c]]
  /\ port = [p \in Ports |-> port[p]]
  /\ \E S : buffer \in [Ports -> Seq(S)]

LightsInv ==
  /\ BoardShapes
  /\ \A p \in Ports : Plain(port[p])
  /\ OkQueue(job.queue)
  /\ JobInv
  /\ daemon = "up" => HubTrue /\ \A c \in Channels : ChannelTrue(c)

-----------------------------------------------------------------------------
(* Ports, lists and their rests. *)

LEMMA PortsApart ==
  /\ \A c \in Channels : PortOf(c) \in Ports /\ EffectPort(EffectChannel(c)) = PortOf(c)
  /\ \A c, e \in Channels : PortOf(c) = PortOf(e) => c = e
BY TableAssumption DEF Channels, PortOf, Ports, EffectPort, EffectChannel, DirectPort,
                       DirectChannel, IsFixed, Header

LEMMA DivPositive ==
  ASSUME NEW a \in Nat \ {0}, NEW b \in Nat \ {0}
  PROVE  (a + b - 1) \div b \in Nat \ {0}
OBVIOUS

LEMMA ChunksPositive == ASSUME NEW c \in Grouped PROVE Chunks(c) \in Nat \ {0} /\ c \in Channels
<1>1. LedCount(c) \in Nat \ {0} /\ c \in Channels
  <2>1. c \in Channels /\ LedCount(c) > 0 /\ c \in Nat \ {0}
    BY TableAssumption DEF Grouped, Channels
  <2>2. LedCount(c) \in Nat
    BY <2>1, TableAssumption DEF LedCount
  <2>. QED
    BY <2>1, <2>2
<1>. QED
  BY <1>1, TableAssumption, DivPositive DEF Chunks

\* A list of n members.
IsList(s, n) == s = [i \in 1..n |-> s[i]]

LEMMA ListInSeq ==
  ASSUME NEW n \in Nat, NEW s, IsList(s, n)
  PROVE  (\E S : s \in Seq(S) /\ S = {s[i] : i \in 1..n}) /\ Len(s) = n
<1> DEFINE S == {s[i] : i \in 1..n}
<1>1. [i \in 1..n |-> s[i]] \in [1..n -> S]
  OBVIOUS
<1>2. s \in [1..n -> S]
  BY <1>1, Zenon DEF IsList
<1>3. s \in Seq(S)
  BY <1>2, SeqDef
<1>4. Len(s) = n
  BY <1>1 DEF IsList
<1>. QED
  BY <1>3, <1>4

LEMMA SeqAsList == ASSUME NEW S, NEW s \in Seq(S) PROVE s = [i \in 1..Len(s) |-> s[i]]
<1>1. s \in [1..Len(s) -> S]
  BY LenProperties
<1>. QED
  BY <1>1

LEMMA RestFacts ==
  ASSUME NEW packets, NEW n \in Nat, IsList(packets, n), NEW k \in 0..n,
         NEW left, left = Rest(packets, k)
  PROVE  /\ Len(packets) = n
         /\ k = 0 => left = packets
         /\ left = <<>> <=> k = n
         /\ k < n => Head(left) = packets[k + 1] /\ Tail(left) = Rest(packets, k + 1)
<1>1. Len(packets) = n
  BY ListInSeq
<1>2. k = 0 => left = packets
  BY <1>1 DEF Rest, IsList
<1>3. PICK m \in Nat : m = n - k
  OBVIOUS
<1>4. left = [i \in 1..m |-> packets[k + i]]
  BY <1>1, <1>3 DEF Rest
<1>5. PICK S : left \in Seq(S)
  <2>1. IsList(left, m)
    BY <1>4 DEF IsList
  <2>. QED
    BY <2>1, ListInSeq
<1>6. Len(left) = m /\ (left = <<>> <=> m = 0)
  BY <1>3, <1>4
<1>7. ASSUME m > 0 PROVE Head(left) = packets[k + 1] /\ Tail(left) = Rest(packets, k + 1)
  <2>1. m - 1 = n - (k + 1) /\ m - 1 \in Nat
    BY <1>3, <1>7
  <2>2. Rest(packets, k + 1) = [i \in 1..(m - 1) |-> packets[(k + 1) + i]]
    BY <1>1, <2>1 DEF Rest
  <2>3. \A i \in 1..(m - 1) : left[i + 1] = packets[(k + 1) + i]
    BY <1>3, <1>4, <1>7
  <2>4. Head(left) = left[1] /\ Tail(left) \in Seq(S) /\ Len(Tail(left)) = m - 1
    BY <1>5, <1>6, <1>7, HeadTailProperties
  <2>5. \A i \in 1..(m - 1) : Tail(left)[i] = left[i + 1]
    BY <1>5, <1>6, <1>7, <2>4, HeadTailProperties
  <2>6. Tail(left) = [i \in 1..(m - 1) |-> Tail(left)[i]]
    BY <2>4, SeqAsList
  <2>7. left[1] = packets[k + 1]
    BY <1>4, <1>7
  <2>. QED
    BY <2>2, <2>3, <2>4, <2>5, <2>6, <2>7
<1>8. (m = 0 <=> k = n) /\ (k < n => m > 0)
  BY <1>3
<1>. QED
  BY <1>1, <1>2, <1>6, <1>7, <1>8

\* The list of every item is a list, and its device one of the two.
LEMMA ItemLists ==
  ASSUME NEW item, OkItem(item)
  PROVE  \E n \in Nat : IsList(item.packets, n)
<1>1. CASE OfPaint(item)
  <2>1. PICK c \in Grouped, f \in Frames : item = Paint(c, f)
    BY <1>1 DEF OfPaint
  <2>2. Chunks(c) \in Nat
    BY ChunksPositive
  <2>3. CASE state[c] = "managed"
    BY <2>1, <2>2, <2>3 DEF IsList, Paint, Item, DirectPackets
  <2>4. CASE state[c] # "managed"
    <3>1. item.packets = <<>>
      BY <2>1, <2>4 DEF Paint, Item
    <3>2. <<>> = [i \in 1..0 |-> <<>>[i]]
      OBVIOUS
    <3>. QED
      BY <3>1, <3>2 DEF IsList
  <2>. QED
    BY <2>3, <2>4
<1>2. CASE OfEffect(item) \/ OfOff(item)
  <2>1. PICK c, mode : item.packets = EffectPackets(c, mode)
    BY <1>2 DEF OfEffect, OfOff, Effect, Off, Item
  <2>2. EffectPackets(c, mode) = [i \in 1..3 |-> EffectPackets(c, mode)[i]]
    BY DEF EffectPackets
  <2>. QED
    BY <2>1, <2>2 DEF IsList
<1>3. CASE OfSpeed(item) \/ item = HubReset
  <2>1. PICK x : item.packets = <<x>>
    BY <1>3 DEF OfSpeed, HubSpeed, HubReset, Item
  <2>2. <<x>> = [i \in 1..1 |-> <<x>>[i]]
    OBVIOUS
  <2>. QED
    BY <2>1, <2>2 DEF IsList
<1>. QED
  BY <1>1, <1>2, <1>3 DEF OkItem

LEMMA HeadOk ==
  ASSUME NEW queue, queue # <<>>, OkQueue(queue)
  PROVE  /\ OkItem(Head(queue)) /\ OkQueue(Tail(queue))
         /\ Head(queue).do = "effect" => Tail(queue) = <<>>
<1>1. PICK S : /\ queue \in Seq(S)
               /\ \A item \in S : OkItem(item) /\ (item.do = "effect" => Len(queue) <= 1)
  BY DEF OkQueue
<1>2. Head(queue) \in S /\ Tail(queue) \in Seq(S) /\ Len(Tail(queue)) = Len(queue) - 1
      /\ Len(queue) \in Nat
  BY <1>1
<1>3. Len(queue) <= 1 => Len(Tail(queue)) = 0 /\ Tail(queue) = <<>>
  BY <1>1, <1>2
<1>4. \A item \in S : OkItem(item) /\ (item.do = "effect" => Len(Tail(queue)) <= 1)
  BY <1>1, <1>2
<1>. QED
  BY <1>1, <1>2, <1>3, <1>4 DEF OkQueue

-----------------------------------------------------------------------------
(* Requests, starts and the environment. *)

\* The first item of a queue, now and after a step.
HeadsFine ==
  \A queue : queue # <<>> /\ OkQueue(queue) =>
    /\ OkItem(Head(queue)) /\ OkQueue(Tail(queue))
    /\ Head(queue).do = "effect" => Tail(queue) = <<>>
    /\ \E n \in Nat : /\ Len(Head(queue).packets) = n
                      /\ IsList(Head(queue).packets, n)

LEMMA Heads == HeadsFine
<1> SUFFICES ASSUME NEW queue, queue # <<>>, OkQueue(queue)
             PROVE  /\ OkItem(Head(queue)) /\ OkQueue(Tail(queue))
                    /\ Head(queue).do = "effect" => Tail(queue) = <<>>
                    /\ \E n \in Nat : /\ Len(Head(queue).packets) = n
                                      /\ IsList(Head(queue).packets, n)
  BY DEF HeadsFine
<1>1. /\ OkItem(Head(queue)) /\ OkQueue(Tail(queue))
      /\ Head(queue).do = "effect" => Tail(queue) = <<>>
  BY HeadOk
<1>2. PICK n \in Nat : IsList(Head(queue).packets, n)
  BY <1>1, ItemLists
<1>3. Len(Head(queue).packets) = n
  BY <1>2, ListInSeq
<1>. QED
  BY <1>1, <1>2, <1>3

LEMMA HeadsNext == HeadsFine'
BY Heads, PTL

\* An item begins: nothing was taken of its list, so nothing waits to be recorded.
LEMMA FreshJob ==
  ASSUME OkQueue(job.queue)', job'.left = Load(job'.queue)
  PROVE  JobInv' /\ \A do, c : ~Unrecorded(do, c)'
<1> SUFFICES ASSUME Working' PROVE JobInv' /\ \A do, c : ~Unrecorded(do, c)'
  BY DEF JobInv, Unrecorded
<1>1. job'.queue # <<>> /\ job'.left = Current'.packets /\ Current' = Head(job'.queue)
  BY DEF Working, Load, Current
<1>2. PICK n \in Nat : /\ Len(Current'.packets) = n
                       /\ IsList(Current'.packets, n)
  BY <1>1, HeadsNext DEF HeadsFine
<1>3. Rest(Current'.packets, 0) = Current'.packets /\ 0 \in 0..n
  BY <1>2, RestFacts
<1>4. Midway(Current, 0)'
  BY DEF Midway
<1>5. JobInv'
  BY <1>1, <1>2, <1>3, <1>4 DEF JobInv
<1>. QED
  BY <1>1, <1>5 DEF Unrecorded

\* A request is taken up: the lights and what is recorded stay.
LEMMA BeginLights ==
  ASSUME LightsInv, NEW do, NEW queue, OkQueue(queue)', Begin(do, queue),
         daemon' \in {"up", "stopping"}, daemon = "up"
  PROVE  LightsInv'
<1>1. /\ job' = [do |-> do, queue |-> queue, left |-> Load(queue), again |-> FALSE, failed |-> {}]
      /\ ~Working
      /\ UNCHANGED <<state, recorded, speed, port, buffer, lost, hub>>
  BY DEF Begin, Idle, Working
<1>2. JobInv' /\ OkQueue(job.queue)'
  BY <1>1, FreshJob
<1>3. HubTrue'
  BY <1>1 DEF LightsInv, HubTrue, Unrecorded
<1>4. ASSUME NEW c \in Channels PROVE ChannelTrue(c)'
  BY <1>1 DEF LightsInv, ChannelTrue, Unrecorded
<1>5. BoardShapes' /\ \A p \in Ports : Plain(port[p])'
  BY <1>1 DEF LightsInv, BoardShapes
<1>. QED
  BY <1>2, <1>3, <1>4, <1>5 DEF LightsInv

LEMMA ListQueue ==
  ASSUME NEW n \in Nat, NEW queue, IsList(queue, n),
         \A i \in 1..n : OkItem(queue[i]) /\ queue[i].do # "effect"
  PROVE  OkQueue(queue)
<1>1. PICK S : queue \in Seq(S) /\ S = {queue[i] : i \in 1..n}
  BY ListInSeq
<1>2. \A item \in S : OkItem(item) /\ item.do # "effect"
  BY <1>1
<1>. QED
  BY <1>1, <1>2 DEF OkQueue

LEMMA OneQueue == ASSUME NEW item, OkItem(item) PROVE OkQueue(<<item>>)
<1>1. PICK S : S = {item}
  OBVIOUS
<1>2. <<item>> \in Seq(S) /\ Len(<<item>>) <= 1
  BY <1>1
<1>3. \A x \in S : OkItem(x) /\ (x.do = "effect" => Len(<<item>>) <= 1)
  BY <1>1, <1>2
<1>. QED
  BY <1>2, <1>3 DEF OkQueue

\* What is as it was for a request is as it was for its items.
LEMMA QueueKeeps ==
  ASSUME NEW queue, OkQueue(queue), state' = state, daemon' = daemon \/ daemon' # "up"
  PROVE  OkQueue(queue)'
<1>1. \A item : OkItem(item) => OkItem(item)'
  BY DEF OkItem, OfPaint, OfEffect, OfOff, OfSpeed, Paint
<1>. QED
  BY <1>1 DEF OkQueue

-----------------------------------------------------------------------------
(* The order of the channels. *)

\* A set of naturals that has 0, and n + 1 with every n, has them all.
LEMMA Induction ==
  ASSUME NEW T, 0 \in T, \A n \in Nat : n \in T => n + 1 \in T
  PROVE  Nat \subseteq T
<1> SUFFICES ASSUME ~(Nat \subseteq T) PROVE FALSE
  OBVIOUS
<1> DEFINE R == {ss \in Nat \X Nat : ss[1] < ss[2]}
           B == Nat \ T
<1>1. IsWellFoundedOn(R, Nat)
  BY NatLessThanWellFounded DEF OpToRel
<1>2. B \subseteq Nat /\ B # {}
  OBVIOUS
<1>3. PICK x \in B : \A y \in B : <<y, x>> \notin R
  <2> HIDE DEF R, B
  <2> QED BY <1>1, <1>2, WFMin
<1>4. x \in Nat /\ x # 0 /\ x - 1 \in Nat /\ x - 1 \in B
  OBVIOUS
<1>5. <<x - 1, x>> \in R
  BY <1>4
<1> QED BY <1>3, <1>4, <1>5

\* The channels of a set can be listed in the order of their numbers.
Increasing(f) == \A i, j \in DOMAIN f : i < j => f[i] < f[j]
HasOrder(S) == \E f \in [1..Cardinality(S) -> S] : Increasing(f)

LEMMA OrderExists == ASSUME NEW n \in Nat, NEW S \in SUBSET (1..n) PROVE HasOrder(S)
<1> DEFINE T == {m \in Nat : \A U \in SUBSET (1..m) : HasOrder(U)}
<1>1. 0 \in T
  <2> SUFFICES ASSUME NEW U \in SUBSET (1..0) PROVE HasOrder(U)
    OBVIOUS
  <2>1. U = {} /\ Cardinality({}) = 0
    BY FS_EmptySet
  <2>2. [i \in 1..0 |-> 0] \in [1..0 -> {}] /\ Increasing([i \in 1..0 |-> 0])
    BY DEF Increasing
  <2>3. HasOrder({})
    BY <2>1, <2>2 DEF HasOrder
  <2>. QED
    BY <2>1, <2>3
<1>2. ASSUME NEW m \in Nat, m \in T PROVE m + 1 \in T
  <2> SUFFICES ASSUME NEW U \in SUBSET (1..(m + 1)) PROVE HasOrder(U)
    OBVIOUS
  <2> DEFINE V == U \ {m + 1}
  <2>1. V \in SUBSET (1..m)
    OBVIOUS
  <2>2. HasOrder(V) /\ \A v \in V : v \in Nat /\ v < m + 1
    BY <1>2, <2>1
  <2>3. CASE m + 1 \notin U
    <3>1. U = V
      BY <2>3
    <3>. HIDE DEF V
    <3>. QED
      BY <2>2, <3>1
  <2>4. CASE m + 1 \in U
    <3>1. IsFiniteSet(V) /\ U = V \cup {m + 1} /\ m + 1 \notin V
      <4>1. IsFiniteSet(1..m)
        BY FS_Interval
      <4>2. IsFiniteSet(V)
        BY <4>1, <2>1, FS_Subset
      <4>. QED
        BY <4>2, <2>4
    <3>2. Cardinality(V) \in Nat /\ Cardinality(U) = Cardinality(V) + 1
      <4>. HIDE DEF V
      <4>. QED
        BY <3>1, FS_AddElement, FS_CardinalityType
    <3>. HIDE DEF V
    <3>3. PICK v \in Nat : v = Cardinality(V)
      BY <3>2
    <3>4. PICK f \in [1..v -> V] : Increasing(f)
      BY <2>2, <3>3 DEF HasOrder
    <3> DEFINE g == [i \in 1..(v + 1) |-> IF i = v + 1 THEN m + 1 ELSE f[i]]
    <3>5. g \in [1..(v + 1) -> U]
      BY <3>1, <3>4
    <3>6. ASSUME NEW i \in 1..(v + 1), NEW j \in 1..(v + 1), i < j PROVE g[i] < g[j]
      <4>1. i \in 1..v /\ g[i] = f[i] /\ f[i] \in V
        BY <3>4, <3>6
      <4>2. CASE j = v + 1
        BY <4>1, <4>2, <2>2
      <4>3. CASE j # v + 1
        <5>1. j \in 1..v /\ g[j] = f[j]
          BY <4>3
        <5>. QED
          BY <4>1, <5>1, <3>4, <3>6 DEF Increasing
      <4>. QED
        BY <4>2, <4>3
    <3>7. Increasing(g)
      BY <3>6 DEF Increasing
    <3>. HIDE DEF g
    <3>. QED
      BY <3>2, <3>3, <3>5, <3>7 DEF HasOrder
  <2>. QED
    BY <2>3, <2>4
<1>3. n \in T
  <2>. HIDE DEF T
  <2>. QED
    BY <1>1, <1>2, Induction
<1>. QED
  BY <1>3

LEMMA OrderedIs ==
  ASSUME NEW S \in SUBSET Channels
  PROVE  Cardinality(S) \in Nat /\ Ordered(S) \in [1..Cardinality(S) -> S]
<1>1. PICK n \in Nat : Channels = 1..n
  <2>1. CASE FixedLeds > 0
    <3>1. Channels = 1..(Headers + 1) /\ Headers + 1 \in Nat
      BY <2>1, TableAssumption DEF Channels
    <3>. QED
      BY <3>1
  <2>2. CASE ~(FixedLeds > 0)
    <3>1. Channels = 1..Headers /\ Headers \in Nat
      BY <2>2, TableAssumption DEF Channels
    <3>. QED
      BY <3>1
  <2>. QED
    BY <2>1, <2>2
<1>2. HasOrder(S)
  BY <1>1, OrderExists
<1>3. IsFiniteSet(Channels)
  BY <1>1, FS_Interval
<1>4. IsFiniteSet(S)
  BY <1>3, FS_Subset
<1>. QED
  BY <1>2, <1>4, FS_CardinalityType DEF HasOrder, Ordered, Increasing

-----------------------------------------------------------------------------
(* Every request finds the lights as recorded and leaves them so. *)

LEMMA RequestUp ==
  ASSUME LightsInv, NEW do, NEW queue, OkQueue(queue), Request(do, queue)
  PROVE  LightsInv'
<1>1. Begin(do, queue) /\ daemon = "up" /\ daemon' = "up"
  BY DEF Request
<1>2. OkQueue(queue)'
  BY <1>1, QueueKeeps DEF Begin
<1>. QED
  BY <1>1, <1>2, BeginLights

LEMMA SyncLights ==
  ASSUME LightsInv, NEW S \in SUBSET Grouped, NEW frame \in Frames, Sync(S, frame)
  PROVE  LightsInv'
<1> DEFINE order == Ordered(S)
           queue == [i \in 1..Cardinality(S) |-> Paint(order[i], frame)]
<1>1. Cardinality(S) \in Nat /\ order \in [1..Cardinality(S) -> S]
  BY OrderedIs DEF Grouped
<1>2. Request("sync", queue)
  BY DEF Sync
<1>3. ASSUME NEW i \in 1..Cardinality(S)
      PROVE  OkItem(queue[i]) /\ queue[i].do # "effect"
  <2>1. order[i] \in Grouped /\ queue[i] = Paint(order[i], frame)
    BY <1>1
  <2>. HIDE DEF order, queue
  <2>. QED
    BY <2>1 DEF OkItem, OfPaint, Paint, Item
<1>4. OkQueue(queue)
  BY <1>1, <1>3, ListQueue DEF IsList
<1>. HIDE DEF queue
<1>. QED
  BY <1>2, <1>4, RequestUp

LEMMA OthersLights ==
  ASSUME LightsInv,
         \/ \E c \in Channels, mode \in Effects : SetAuraEffect(c, mode)
         \/ \E s \in Speeds : MoboSetSpeed(s)
         \/ MoboAuto \/ Reset
  PROVE  LightsInv'
<1>1. PICK do, item : OkItem(item) /\ Request(do, <<item>>)
  <2>1. ASSUME NEW c \in Channels, NEW mode \in Effects, SetAuraEffect(c, mode)
        PROVE  OkItem(Effect(c, mode)) /\ Request("effect", <<Effect(c, mode)>>)
    BY <2>1 DEF SetAuraEffect, OkItem, OfEffect
  <2>2. ASSUME NEW s, MoboSetSpeed(s)
        PROVE  OkItem(HubSpeed(s)) /\ Request("speed", <<HubSpeed(s)>>)
    BY <2>2 DEF MoboSetSpeed, OkItem, OfSpeed
  <2>3. MoboAuto => OkItem(HubSpeed("pwm")) /\ Request("auto", <<HubSpeed("pwm")>>)
    BY DEF MoboAuto, OkItem, OfSpeed
  <2>4. Reset => OkItem(HubReset) /\ Request("reset", <<HubReset>>)
    BY DEF Reset, OkItem
  <2>. QED
    BY <2>1, <2>2, <2>3, <2>4
<1>. QED
  BY <1>1, OneQueue, RequestUp

LEMMA ShutdownLights ==
  ASSUME LightsInv, Shutdown
  PROVE  LightsInv'
<1> DEFINE S == IF "board" \in found THEN ManagedChannels ELSE {}
           order == Ordered(S)
           queue == [i \in 1..Cardinality(S) |-> Off(order[i])]
<1>1. Begin("stop", queue) /\ daemon = "up" /\ daemon' = "stopping"
  BY DEF Shutdown
<1>2. S \in SUBSET Channels
  BY DEF ManagedChannels
<1>. HIDE DEF S
<1>3. Cardinality(S) \in Nat /\ order \in [1..Cardinality(S) -> S]
  BY <1>2, OrderedIs
<1>4. PICK q : q = queue
  OBVIOUS
<1>5. OkQueue(q)'
  <2>1. ASSUME NEW i \in 1..Cardinality(S)
        PROVE  \E c \in Channels : q[i] = Off(c)
    BY <1>2, <1>3, <1>4
  <2>2. PICK U : q \in Seq(U) /\ U = {q[i] : i \in 1..Cardinality(S)}
    <3>1. q = [i \in 1..Cardinality(S) |-> q[i]]
      BY <1>4
    <3>. QED
      BY <1>3, <3>1, ListInSeq DEF IsList
  <2>3. ASSUME NEW item \in U PROVE OkItem(item)' /\ item.do # "effect"
    <3>1. PICK c \in Channels : item = Off(c)
      BY <2>1, <2>2
    <3>. QED
      BY <1>1, <3>1 DEF OkItem, OfOff, Off, Item
  <2>. QED
    BY <2>2, <2>3 DEF OkQueue
<1>. QED
  BY <1>1, <1>4, <1>5, BeginLights

LEMMA NoItems == OkQueue(<<>>)
<1>1. PICK S : S = {}
  OBVIOUS
<1>2. <<>> \in Seq(S)
  OBVIOUS
<1>. QED
  BY <1>1, <1>2 DEF OkQueue

LEMMA NoItemsNext == OkQueue(<<>>)'
BY NoItems, PTL

LEMMA IdleJob == ASSUME job' = Idle PROVE OkQueue(job.queue)' /\ JobInv' /\ \A do, c : ~Unrecorded(do, c)'
<1>1. job'.queue = <<>> /\ ~Working'
  BY DEF Idle, Working
<1>. QED
  BY <1>1, NoItemsNext DEF JobInv, Unrecorded

LEMMA StartLights ==
  ASSUME LightsInv, HiccupInv, NEW answering, Start(answering)
  PROVE  LightsInv'
<1>1. job' = Idle /\ UNCHANGED <<port, buffer, lost, hub>> /\ daemon' = "up"
  BY DEF Start, HiccupInv, Shapes
<1>2. speed' = None /\ state' = [c \in Channels |-> FirstState(c)]
      /\ recorded' = [c \in Channels |-> None]
  BY DEF Start
<1>3. HubTrue' /\ \A c \in Channels : ChannelTrue(c)'
  BY <1>2, EffectsAssumption DEF HubTrue, ChannelTrue, FirstState
<1>4. BoardShapes' /\ \A p \in Ports : Plain(port[p])'
  BY <1>1, <1>2 DEF LightsInv, BoardShapes, FirstState
<1>. QED
  BY <1>1, <1>3, <1>4, IdleJob DEF LightsInv

LEMMA AnswerLights ==
  ASSUME LightsInv, Answer
  PROVE  LightsInv'
<1>1. /\ job' = Idle /\ ~Working /\ UNCHANGED <<state, recorded, speed, port, buffer, lost, hub>>
      /\ daemon' = daemon \/ daemon' = "down"
  BY DEF Answer, Working
<1>2. daemon' = "up" => HubTrue' /\ \A c \in Channels : ChannelTrue(c)'
  BY <1>1 DEF LightsInv, HubTrue, ChannelTrue, Unrecorded
<1>3. BoardShapes' /\ \A p \in Ports : Plain(port[p])'
  BY <1>1 DEF LightsInv, BoardShapes
<1>. QED
  BY <1>1, <1>2, <1>3, IdleJob DEF LightsInv

-----------------------------------------------------------------------------
(* What happens to the devices. *)

LEMMA DeadPlain == \A p \in Ports : Plain(Dead[p])
<1>1. <<Dark>> = [i \in 1..1 |-> Dark]
  OBVIOUS
<1>2. \E n \in Nat : \E f : <<Dark>> = [i \in 1..n |-> f]
  BY <1>1
<1>. QED
  BY <1>2 DEF Dead, Plain

\* Nothing but a handle changes, or a device loses its power.
LEMMA DeviceLights ==
  ASSUME LightsInv, UNCHANGED <<daemon, state, recorded, speed, job>>,
         "board" \in Devices /\ link'["board"] = "good" =>
           link["board"] = "good" /\ UNCHANGED <<buffer, register>>,
         Working => Current.device \in Devices,
         UNCHANGED port \/ (port' = Dead /\ Ports \subseteq lost'),
         UNCHANGED hub \/ HubPort \in lost',
         lost \subseteq lost', BoardShapes'
  PROVE  LightsInv'
<1>1. OkQueue(job.queue)'
  BY QueueKeeps DEF LightsInv
<1>2. \A p \in Ports : Plain(port[p])'
  BY DeadPlain DEF LightsInv
<1>3. (Working' <=> Working) /\ Current' = Current /\ job' = job
  BY DEF Working, Current
<1>4. JobInv'
  <2>1. SUFFICES ASSUME Working PROVE JobInv'
    BY <1>3 DEF JobInv
  <2>2. PICK k \in 0..Len(Current.packets) :
          /\ job.left = Rest(Current.packets, k)
          /\ link[Current.device] = "good" => Midway(Current, k)
          /\ k = Len(Current.packets) /\ k > 0 => Finished(Current)
    BY <2>1 DEF LightsInv, JobInv
  <2>4. OkItem(Current)
    BY <2>1, Heads DEF HeadsFine, LightsInv, Working, Current
  <2>6. Current.do \in {"paint", "effect"} => Current.device = "board"
    BY <2>4 DEF OkItem, OfPaint, OfEffect, OfOff, OfSpeed, Paint, Effect, Off, HubSpeed, HubReset, Item
  <2>3. link'[Current.device] = "good" => Midway(Current, k)'
    BY <1>3, <2>1, <2>2, <2>6 DEF Midway
  <2>5. Finished(Current) => Finished(Current)'
    <3>1. CASE Current.do = "paint" \/ Current.do = "effect"
      <4>1. Current.channel \in Channels
        BY <2>4, <3>1, ChunksPositive DEF OkItem, OfPaint, OfEffect, OfOff, OfSpeed, Paint, Effect, Off, HubSpeed,
                        HubReset, Item
      <4>2. PortOf(Current.channel) \in Ports
        BY <4>1, PortsApart
      <4>. QED
        BY <1>3, <3>1, <4>2 DEF Finished
    <3>2. CASE Current.do # "paint" /\ Current.do # "effect"
      BY <1>3, <3>2 DEF Finished
    <3>. QED
      BY <3>1, <3>2
  <2>. QED
    BY <1>3, <2>2, <2>3, <2>5 DEF JobInv
<1>5. daemon' = "up" => HubTrue'
  BY <1>3 DEF LightsInv, HubTrue, Unrecorded
<1>6. ASSUME NEW c \in Channels, daemon' = "up" PROVE ChannelTrue(c)'
  <2>1. PortOf(c) \in Ports
    BY PortsApart
  <2>. QED
    BY <1>3, <1>6, <2>1 DEF LightsInv, ChannelTrue, Unrecorded
<1>. QED
  BY <1>1, <1>2, <1>4, <1>5, <1>6 DEF LightsInv

LEMMA EnvironmentLights ==
  ASSUME LightsInv, HiccupInv, NEW d \in Devices,
         Unplug(d) \/ Plug(d) \/ GoesStale(d) \/ CooldownEnds(d)
  PROVE  LightsInv'
<1>1. UNCHANGED <<daemon, state, recorded, speed, job>>
  BY DEF Unplug, Plug, GoesStale, CooldownEnds
<1>2. Working => Current.device \in Devices
  BY CurrentOwn
<1>3. link \in [Devices -> {"good", "stale"}]
  BY DEF HiccupInv, Shapes
<1>4. CASE Unplug(d)
  <2>1. CASE d = "board"
    <3>1. port' = Dead /\ buffer' = NoBuffer /\ hub' = hub /\ lost' = lost \cup Ports
          /\ link' = [link EXCEPT ![d] = "stale"]
      BY <1>4, <2>1 DEF Unplug, LostPower
    <3>2. port' = [p \in Ports |-> port'[p]] /\ buffer' \in [Ports -> Seq(Nat)]
      BY <3>1 DEF Dead, NoBuffer
    <3>3. BoardShapes'
      BY <1>1, <3>2 DEF LightsInv, BoardShapes
    <3>. QED
      BY <1>1, <1>2, <1>3, <2>1, <3>1, <3>3, DeviceLights
  <2>2. CASE d # "board"
    <3>1. BoardShapes'
      BY <1>1, <1>4, <2>2 DEF LightsInv, BoardShapes, Unplug, controller
    <3>. QED
      BY <1>1, <1>2, <1>3, <1>4, <2>2, <3>1, DeviceLights DEF Unplug, LostPower, controller
  <2>. QED
    BY <2>1, <2>2
<1>5. CASE Plug(d) \/ GoesStale(d) \/ CooldownEnds(d)
  <2>1. UNCHANGED <<port, buffer, register, hub, lost>>
        /\ \A e \in Devices : link'[e] = "good" => link[e] = "good"
    BY <1>3, <1>5 DEF Plug, GoesStale, CooldownEnds
  <2>2. BoardShapes'
    BY <1>1, <2>1 DEF LightsInv, BoardShapes
  <2>. QED
    BY <1>1, <1>2, <2>1, <2>2, DeviceLights
<1>. QED
  BY <1>4, <1>5

-----------------------------------------------------------------------------
(* The reports of a request. *)

\* An item is given up, or begins again: what was shown is shown.
LEMMA AgainLights ==
  ASSUME LightsInv, job.left # <<>>, OkQueue(job'.queue), job'.left = Load(job'.queue),
         UNCHANGED <<daemon, state, recorded, speed, port, buffer, lost, hub>>
  PROVE  LightsInv'
<1>1. OkQueue(job.queue)'
  BY QueueKeeps
<1>2. JobInv' /\ \A do, c : ~Unrecorded(do, c)'
  BY <1>1, FreshJob
<1>3. daemon' = "up" => HubTrue' /\ \A c \in Channels : ChannelTrue(c)'
  BY DEF LightsInv, HubTrue, ChannelTrue, Unrecorded
<1>4. BoardShapes' /\ \A p \in Ports : Plain(port[p])'
  BY DEF LightsInv, BoardShapes
<1>. QED
  BY <1>1, <1>2, <1>3, <1>4 DEF LightsInv

LEMMA WriteFailsLights ==
  ASSUME LightsInv, HiccupInv, WriteFails
  PROVE  LightsInv'
<1>1. /\ Working /\ job.left # <<>> /\ Recover
      /\ UNCHANGED <<daemon, state, recorded, speed, port, buffer, lost, hub>>
  BY DEF WriteFails
<1>2. CASE job' = Retry
  <2>1. job'.queue = job.queue /\ job'.left = Current.packets
    BY <1>2 DEF Retry, HiccupInv, Shapes
  <2>2. job'.left = Load(job'.queue)
    BY <1>1, <2>1 DEF Load, Working, Current
  <2>3. OkQueue(job'.queue)
    BY <2>1 DEF LightsInv
  <2>. QED
    BY <1>1, <2>2, <2>3, AgainLights
<1>3. CASE job' = Advance({Current.device})
  <2>1. job'.queue = Tail(job.queue) /\ job'.left = Load(Tail(job.queue))
    BY <1>3 DEF HiccupInv, Shapes, Advance
  <2>2. OkQueue(job'.queue)
    BY <1>1, <2>1, Heads DEF HeadsFine, LightsInv, Working
  <2>. QED
    BY <1>1, <2>1, <2>2, AgainLights
<1>. QED
  BY <1>1, <1>2, <1>3 DEF Recover

\* What is known of the item at work.
LEMMA AtWork ==
  ASSUME LightsInv, Working
  PROVE  \E n \in Nat : \E k \in 0..n :
           /\ Len(Current.packets) = n /\ IsList(Current.packets, n)
           /\ job.left = Rest(Current.packets, k)
           /\ job.left = <<>> <=> k = n
           /\ k < n => /\ Head(job.left) = Current.packets[k + 1]
                       /\ Tail(job.left) = Rest(Current.packets, k + 1)
           /\ link[Current.device] = "good" => Midway(Current, k)
           /\ k = n /\ k > 0 => Finished(Current)
<1>1. PICK n \in Nat : /\ Len(Current.packets) = n
                       /\ IsList(Current.packets, n)
  BY Heads DEF HeadsFine, LightsInv, Working, Current
<1>2. PICK k \in 0..n : /\ job.left = Rest(Current.packets, k)
                        /\ link[Current.device] = "good" => Midway(Current, k)
                        /\ k = n /\ k > 0 => Finished(Current)
  BY <1>1 DEF LightsInv, JobInv
<1>3. /\ job.left = <<>> <=> k = n
      /\ k < n => /\ Head(job.left) = Current.packets[k + 1]
                  /\ Tail(job.left) = Rest(Current.packets, k + 1)
  <2>1. PICK packets : packets = Current.packets
    OBVIOUS
  <2>2. PICK left : left = job.left
    OBVIOUS
  <2>3. IsList(packets, n) /\ left = Rest(packets, k) /\ n \in Nat /\ k \in 0..n
    BY <1>1, <1>2, <2>1, <2>2
  <2>4. left = <<>> <=> k = n
    BY <2>3, RestFacts
  <2>5. k < n => Head(left) = packets[k + 1] /\ Tail(left) = Rest(packets, k + 1)
    BY <2>3, RestFacts
  <2>. QED
    BY <2>1, <2>2, <2>4, <2>5
<1>. QED
  BY <1>1, <1>2, <1>3

LEMMA CurrentFine ==
  ASSUME LightsInv, Working
  PROVE  /\ OkItem(Current) /\ OkQueue(Tail(job.queue))
         /\ Current.do = "effect" => Tail(job.queue) = <<>>
BY Heads DEF HeadsFine, LightsInv, Working, Current

ItemOf(item, do, c, arg) == item.do = do /\ item.channel = c /\ item.arg = arg

\* What the items of each kind are.
LEMMA ItemKinds ==
  ASSUME NEW item, OkItem(item)
  PROVE  \/ \E c \in Grouped, f \in Frames :
              /\ ItemOf(item, "paint", c, f) /\ item.device = "board"
              /\ item.packets = IF state[c] = "managed" THEN DirectPackets(c, f) ELSE <<>>
         \/ \E c \in Channels, mode \in Effects :
              /\ ItemOf(item, "effect", c, mode) /\ item.device = "board"
              /\ item.packets = EffectPackets(c, mode)
         \/ \E c \in Channels :
              /\ ItemOf(item, "off", c, Dark) /\ item.packets = EffectPackets(c, Dark)
              /\ daemon # "up"
         \/ \E s : ItemOf(item, "speed", 0, s) /\ item.packets = <<[cmd |-> "speed", arg |-> s]>>
         \/ ItemOf(item, "reset", 0, None) /\ item.packets = <<[cmd |-> "reset"]>>
BY DEF OkItem, OfPaint, OfEffect, OfOff, OfSpeed, Paint, Effect, Off, HubSpeed, HubReset, Item, ItemOf,
       FanMbSync, FanSpeed

LEMMA ListsNotEmpty ==
  /\ \A c, mode : EffectPackets(c, mode) # <<>>
  /\ \A x : <<x>> # <<>>
<1>1. ASSUME NEW c, NEW mode PROVE EffectPackets(c, mode) # <<>>
  <2>1. PICK x, y, z : EffectPackets(c, mode) = <<x, y, z>>
    BY DEF EffectPackets
  <2>2. Len(<<x, y, z>>) = 3 /\ Len(<<>>) = 0
    OBVIOUS
  <2>. QED
    BY <2>1, <2>2
<1>2. ASSUME NEW x PROVE <<x>> # <<>>
  <2>1. Len(<<x>>) = 1 /\ Len(<<>>) = 0
    OBVIOUS
  <2>. QED
    BY <2>1
<1>. QED
  BY <1>1, <1>2

\* What was taken is recorded.
LEMMA CompleteLights ==
  ASSUME LightsInv, HiccupInv, Complete
  PROVE  LightsInv'
<1> DEFINE item == Current
<1>1. /\ Working /\ job.left = <<>> /\ job' = Advance({})
      /\ UNCHANGED <<daemon, port, buffer, lost, hub>>
      /\ recorded' = IF item.do = "paint" THEN [recorded EXCEPT ![item.channel] = item.arg] ELSE recorded
      /\ state' = IF item.do = "effect" THEN [state EXCEPT ![item.channel] = item.arg] ELSE state
      /\ speed' = IF item.do = "speed" THEN item.arg ELSE speed
  BY DEF Complete
<1>2. job'.queue = Tail(job.queue) /\ job'.left = Load(Tail(job.queue))
  BY <1>1 DEF HiccupInv, Shapes, Advance
<1>3. OkItem(item) /\ OkQueue(Tail(job.queue)) /\ (item.do = "effect" => Tail(job.queue) = <<>>)
  BY <1>1, CurrentFine
<1>4. item.packets # <<>> => Finished(item)
  <2>0. PICK n \in Nat : \E k \in 0..n :
          /\ Len(item.packets) = n /\ (job.left = <<>> <=> k = n)
          /\ k = n /\ k > 0 => Finished(item)
    BY <1>1, AtWork
  <2>1. PICK k \in 0..n :
          /\ Len(item.packets) = n /\ (job.left = <<>> <=> k = n)
          /\ k = n /\ k > 0 => Finished(item)
    BY <2>0
  <2>2. item.packets # <<>> => n # 0
    <3>1. PICK m \in Nat : IsList(item.packets, m)
      BY <1>3, ItemLists
    <3>2. Len(item.packets) = m
      BY <3>1, ListInSeq
    <3>3. m = 0 => item.packets = <<>>
      <4>1. ASSUME m = 0 PROVE item.packets = [i \in 1..0 |-> item.packets[i]]
        BY <3>1, <4>1 DEF IsList
      <4>. QED
        BY <4>1
    <3>. QED
      BY <2>1, <3>2, <3>3
  <2>. QED
    BY <1>1, <2>1, <2>2
<1>. HIDE DEF item
<1>5. OkQueue(job.queue)'
  <2>1. CASE item.do = "effect"
    BY <1>2, <1>3, <2>1, NoItemsNext
  <2>2. CASE item.do # "effect"
    BY <1>1, <1>2, <1>3, <2>2, QueueKeeps
  <2>. QED
    BY <2>1, <2>2
<1>6. JobInv' /\ \A do, c : ~Unrecorded(do, c)'
  BY <1>2, <1>5, FreshJob
<1>7. Unrecorded("speed", 0) => item.do = "speed" /\ item.packets # <<>>
  BY DEF Unrecorded, item
<1>8. \A do, c : Unrecorded(do, c) <=> item.do = do /\ item.channel = c /\ item.packets # <<>>
  BY <1>1 DEF Unrecorded, item
<1>9. BoardShapes'
  <2>1. CASE item.do = "paint"
    BY <1>1, <2>1 DEF LightsInv, BoardShapes
  <2>2. CASE item.do = "effect"
    <3>1. item.arg \in Effects
      BY <1>3, <2>2, ItemKinds DEF ItemOf
    <3>. QED
      BY <1>1, <2>2, <3>1 DEF LightsInv, BoardShapes
  <2>3. CASE item.do \notin {"paint", "effect"}
    BY <1>1, <2>3 DEF LightsInv, BoardShapes
  <2>. QED
    BY <2>1, <2>2, <2>3
<1>10. ASSUME daemon = "up" PROVE HubTrue'
  <2>1. CASE item.do = "speed"
    <3>1. item.packets # <<>>
      BY <1>3, <2>1, ItemKinds, ListsNotEmpty DEF ItemOf
    <3>. QED
      BY <1>1, <1>4, <2>1, <3>1 DEF Finished, HubTrue
  <2>2. CASE item.do # "speed"
    BY <1>1, <1>7, <1>10, <2>2 DEF LightsInv, HubTrue
  <2>. QED
    BY <2>1, <2>2
<1>11. ASSUME daemon = "up", NEW c \in Channels, PortOf(c) \notin lost
       PROVE  /\ state'[c] = "managed" /\ recorded'[c] # None => port[PortOf(c)] = Whole(c, recorded'[c])
              /\ state'[c] \in Effects => port[PortOf(c)] = Running(state'[c])
  <2>1. CASE item.do = "paint" /\ item.channel = c
    <3>1. PICK f \in Frames : /\ ItemOf(item, "paint", c, f) /\ c \in Grouped
                              /\ item.packets = IF state[c] = "managed" THEN DirectPackets(c, f) ELSE <<>>
      BY <1>3, <2>1, ItemKinds DEF ItemOf
    <3>2. CASE state[c] = "managed"
      <4>1. item.packets # <<>>
        <5>1. Chunks(c) \in Nat \ {0}
          BY <3>1, ChunksPositive
        <5>2. Len(DirectPackets(c, f)) = Chunks(c)
          BY <5>1 DEF DirectPackets
        <5>. QED
          BY <3>1, <3>2, <5>1, <5>2
      <4>2. port[PortOf(c)] = Whole(c, f)
        BY <1>4, <1>11, <3>1, <4>1 DEF Finished, ItemOf
      <4>3. recorded'[c] = f /\ state' = state
        BY <1>1, <2>1, <3>1 DEF LightsInv, BoardShapes, ItemOf
      <4>. QED
        BY <3>2, <4>2, <4>3, EffectsAssumption
    <3>3. CASE state[c] # "managed"
      <4>1. ~Unrecorded("paint", c) /\ ~Unrecorded("effect", c) /\ state' = state
        BY <1>1, <1>8, <2>1, <3>1, <3>3
      <4>. QED
        BY <1>11, <3>3, <4>1 DEF LightsInv, ChannelTrue
    <3>. QED
      BY <3>2, <3>3
  <2>2. CASE item.do = "effect" /\ item.channel = c
    <3>1. PICK mode \in Effects : ItemOf(item, "effect", c, mode) /\ item.packets # <<>>
      BY <1>3, <2>2, ItemKinds, ListsNotEmpty DEF ItemOf
    <3>2. port[PortOf(c)] = Running(mode)
      BY <1>4, <1>11, <3>1 DEF Finished, ItemOf
    <3>3. state'[c] = mode
      BY <1>1, <2>2, <3>1 DEF LightsInv, BoardShapes, ItemOf
    <3>. QED
      BY <3>2, <3>3, EffectsAssumption
  <2>3. CASE item.channel # c \/ item.do \notin {"paint", "effect"}
    <3>1. ~Unrecorded("paint", c) /\ ~Unrecorded("effect", c)
      BY <1>8, <2>3
    <3>2. state'[c] = state[c] /\ recorded'[c] = recorded[c]
      BY <1>1, <2>3 DEF LightsInv, BoardShapes
    <3>. QED
      BY <1>11, <3>1, <3>2 DEF LightsInv, ChannelTrue
  <2>. QED
    BY <2>1, <2>2, <2>3
<1>12. daemon' = "up" => \A c \in Channels : ChannelTrue(c)'
  BY <1>1, <1>11 DEF ChannelTrue
<1>13. \A p \in Ports : Plain(port[p])'
  BY <1>1 DEF LightsInv
<1>. QED
  BY <1>1, <1>5, <1>6, <1>9, <1>10, <1>12, <1>13 DEF LightsInv

\* A report is kept at its place.
LEMMA StoredIs ==
  ASSUME NEW S, NEW buf \in Seq(S), NEW i \in Nat \ {0}, NEW x, NEW r, r = Stored(buf, i, x)
  PROVE  /\ r \in Seq(S \cup {Dark, x}) /\ i <= Len(r) /\ r[i] = x
         /\ \A j \in 1..Len(buf) : j <= Len(r) /\ (j # i => r[j] = buf[j])
<1> DEFINE m == IF i > Len(buf) THEN i ELSE Len(buf)
           s == [j \in 1..m |-> IF j = i THEN x ELSE IF j <= Len(buf) THEN buf[j] ELSE Dark]
<1>1. m \in Nat /\ i <= m /\ Len(buf) <= m /\ Stored(buf, i, x) = s
  BY DEF Stored
<1>. HIDE DEF m
<1>2. s \in [1..m -> S \cup {Dark, x}] /\ Len(s) = m
  BY <1>1
<1>3. s \in Seq(S \cup {Dark, x})
  BY <1>1, <1>2, SeqDef
<1>4. s[i] = x /\ \A j \in 1..Len(buf) : j # i => s[j] = buf[j]
  BY <1>1
<1>. HIDE DEF s
<1>. QED
  BY <1>1, <1>2, <1>3, <1>4

\* What a report for the direct address of a channel does.
LEMMA TakeDirect ==
  ASSUME LightsInv, NEW c \in Grouped, NEW f, NEW k \in Nat, k < Chunks(c), Take(Direct(c, k + 1, f)),
         \A i \in 1..k : i <= Len(buffer[PortOf(c)]) /\ buffer[PortOf(c)][i] = f
  PROVE  /\ UNCHANGED <<register, hub>>
         /\ \A i \in 1..(k + 1) : i <= Len(buffer'[PortOf(c)]) /\ buffer'[PortOf(c)][i] = f
         /\ \E S : buffer' \in [Ports -> Seq(S)]
         /\ k + 1 < Chunks(c) => UNCHANGED <<port, lost>>
         /\ k + 1 = Chunks(c) =>
              /\ port' = [port EXCEPT ![PortOf(c)] = Whole(c, f)]
              /\ lost' = lost \ {PortOf(c)}
<1> DEFINE p == PortOf(c)
           buf == buffer[p]
<1>0. Chunks(c) \in Nat \ {0} /\ p \in Ports
  BY ChunksPositive, PortsApart
<1>1. /\ buffer' = [buffer EXCEPT ![p] = Stored(buf, k + 1, f)]
      /\ IF k + 1 = Chunks(c)
         THEN /\ port' = [port EXCEPT ![p] = [kind |-> "frame", of |-> SubSeq(buffer'[p], 1, k + 1)]]
              /\ lost' = lost \ {p}
         ELSE UNCHANGED <<port, lost>>
      /\ UNCHANGED <<register, hub>>
  BY DEF Take, Direct, PortOf
<1>. HIDE DEF p
<1>2. PICK S : buffer \in [Ports -> Seq(S)]
  BY DEF LightsInv, BoardShapes
<1>3. buf \in Seq(S)
  BY <1>0, <1>2
<1>4. buffer'[p] = Stored(buf, k + 1, f)
  BY <1>0, <1>1, <1>2
<1>. HIDE DEF buf
<1>5. /\ buffer'[p] \in Seq(S \cup {Dark, f}) /\ k + 1 <= Len(buffer'[p]) /\ buffer'[p][k + 1] = f
      /\ \A j \in 1..Len(buf) : j <= Len(buffer'[p]) /\ (j # k + 1 => buffer'[p][j] = buf[j])
  <2>1. PICK m \in Nat \ {0} : m = k + 1
    OBVIOUS
  <2>2. PICK s : s = Stored(buf, m, f)
    OBVIOUS
  <2>3. /\ s \in Seq(S \cup {Dark, f}) /\ m <= Len(s) /\ s[m] = f
        /\ \A j \in 1..Len(buf) : j <= Len(s) /\ (j # m => s[j] = buf[j])
    BY <1>3, <2>1, <2>2, StoredIs
  <2>. QED
    BY <1>4, <2>1, <2>2, <2>3
<1>6. ASSUME NEW i \in 1..(k + 1)
      PROVE  i <= Len(buffer'[p]) /\ buffer'[p][i] = f
  <2>1. CASE i = k + 1
    BY <1>5, <2>1
  <2>2. CASE i # k + 1
    <3>1. i \in 1..k /\ i <= Len(buf) /\ buf[i] = f
      BY <2>2 DEF p, buf
    <3>2. i \in 1..Len(buf)
      BY <1>3, <3>1
    <3>. QED
      BY <1>5, <2>2, <3>1, <3>2
  <2>. QED
    BY <2>1, <2>2
<1>7. buffer' \in [Ports -> Seq(S \cup {Dark, f})]
  <2>1. ASSUME NEW q \in Ports PROVE buffer'[q] \in Seq(S \cup {Dark, f})
    <3>1. CASE q = p
      BY <1>5, <3>1
    <3>2. CASE q # p
      <4>1. buffer'[q] = buffer[q] /\ buffer[q] \in Seq(S)
        BY <1>1, <1>2, <3>2
      <4>. QED
        BY <4>1
    <3>. QED
      BY <3>1, <3>2
  <2>2. DOMAIN buffer' = Ports /\ buffer' = [q \in DOMAIN buffer' |-> buffer'[q]]
    BY <1>1, <1>2
  <2>. QED
    BY <2>1, <2>2
<1>8. k + 1 = Chunks(c) => SubSeq(buffer'[p], 1, k + 1) = [i \in 1..Chunks(c) |-> f]
  <2>1. SUFFICES ASSUME k + 1 = Chunks(c)
                 PROVE  SubSeq(buffer'[p], 1, k + 1) = [i \in 1..(k + 1) |-> f]
    OBVIOUS
  <2>2. SubSeq(buffer'[p], 1, k + 1) = [i \in 1..(k + 1) |-> buffer'[p][i]]
    <3>1. PICK b : b = buffer'[p]
      OBVIOUS
    <3>2. SubSeq(b, 1, k + 1) = [i \in 1..((k + 1) - 1 + 1) |-> b[i + 1 - 1]]
      BY <1>5, <3>1, SubSeqProperties
    <3>3. (k + 1) - 1 + 1 = k + 1 /\ \A i \in 1..(k + 1) : i + 1 - 1 = i
      OBVIOUS
    <3>. QED
      BY <3>1, <3>2, <3>3
  <2>. QED
    BY <1>6, <2>2
<1>9. k + 1 = Chunks(c) => port' = [port EXCEPT ![p] = Whole(c, f)] /\ lost' = lost \ {p}
  BY <1>1, <1>8 DEF Whole
<1>10. k + 1 < Chunks(c) => UNCHANGED <<port, lost>>
  BY <1>0, <1>1
<1>. QED
  BY <1>1, <1>6, <1>7, <1>9, <1>10 DEF p

\* A report was taken and the item goes on: what is left to show.
LEMMA TakenLights ==
  ASSUME LightsInv, NEW item, item = Current, NEW n \in Nat, NEW k \in 0..n, Working, k < n,
         Len(item.packets) = n, IsList(item.packets, n),
         job' = [job EXCEPT !.left = Rest(item.packets, k + 1)],
         job = [do |-> job.do, queue |-> job.queue, left |-> job.left, again |-> job.again,
                failed |-> job.failed],
         UNCHANGED <<daemon, state, recorded, speed, link>>,
         BoardShapes', \A p \in Ports : Plain(port[p])',
         Midway(item, k + 1)', k + 1 = n => Finished(item)',
         (daemon' = "up") => (HubTrue' /\ \A c \in Channels : ChannelTrue(c)')
  PROVE  LightsInv'
<1>1. job'.queue = job.queue /\ job'.left = Rest(item.packets, k + 1)
  <2>1. job' = [do |-> job.do, queue |-> job.queue, left |-> Rest(item.packets, k + 1),
                again |-> job.again, failed |-> job.failed]
    OBVIOUS
  <2>. QED
    BY <2>1
<1>2. Current' = Current /\ k + 1 \in 0..n
  BY <1>1 DEF Current
<1>3. JobInv'
  BY <1>1, <1>2 DEF JobInv
<1>4. OkQueue(job.queue)'
  BY <1>1, QueueKeeps DEF LightsInv
<1>. QED
  BY <1>3, <1>4 DEF LightsInv

\* The parts of a step that takes a report.
LEMMA WriteParts ==
  ASSUME LightsInv, HiccupInv, Write
  PROVE  \E n \in Nat : \E k \in 0..n : LET item == Current IN
           /\ k < n /\ Len(item.packets) = n /\ IsList(item.packets, n)
           /\ job' = [job EXCEPT !.left = Rest(item.packets, k + 1)]
           /\ Take(item.packets[k + 1]) /\ Midway(item, k)
           /\ (job'.left = <<>> <=> k + 1 = n)
<1>1. Working /\ job.left # <<>> /\ link[Current.device] = "good" /\ Take(Head(job.left))
      /\ job' = [job EXCEPT !.left = Tail(job.left)]
  BY DEF Write
<1>2. PICK n \in Nat : \E k \in 0..n :
           /\ Len(Current.packets) = n /\ IsList(Current.packets, n)
           /\ job.left = Rest(Current.packets, k)
           /\ job.left = <<>> <=> k = n
           /\ k < n => /\ Head(job.left) = Current.packets[k + 1]
                       /\ Tail(job.left) = Rest(Current.packets, k + 1)
           /\ link[Current.device] = "good" => Midway(Current, k)
           /\ k = n /\ k > 0 => Finished(Current)
  BY <1>1, AtWork
<1>3. PICK k \in 0..n :
           /\ Len(Current.packets) = n /\ IsList(Current.packets, n)
           /\ job.left = <<>> <=> k = n
           /\ k < n => /\ Head(job.left) = Current.packets[k + 1]
                       /\ Tail(job.left) = Rest(Current.packets, k + 1)
           /\ link[Current.device] = "good" => Midway(Current, k)
  BY <1>2
<1>4. k < n
  BY <1>1, <1>3
<1>5. Rest(Current.packets, k + 1) = <<>> <=> k + 1 = n
  <2>1. PICK m \in 0..n : m = k + 1
    BY <1>4
  <2>2. PICK packets : packets = Current.packets
    OBVIOUS
  <2>3. Rest(packets, m) = <<>> <=> m = n
    BY <1>2, <1>3, <2>1, <2>2, RestFacts
  <2>. QED
    BY <2>1, <2>2, <2>3
<1>6. job'.left = Rest(Current.packets, k + 1)
  BY <1>1, <1>3, <1>4 DEF HiccupInv, Shapes
<1>. QED
  BY <1>1, <1>3, <1>4, <1>5, <1>6

\* A report of the request for c is taken: the others show what they showed.
LEMMA ChannelsTrue ==
  ASSUME LightsInv, daemon = "up", NEW c \in Channels, Working, job.left # <<>>, Current.channel = c,
         UNCHANGED <<state, recorded>>, Working', Current' = Current,
         job'.left = <<>> => Unrecorded("paint", c)' \/ Unrecorded("effect", c)',
         \/ UNCHANGED <<port, lost>>
         \/ /\ job'.left = <<>> /\ lost' = lost \ {PortOf(c)}
            /\ \E x : port' = [port EXCEPT ![PortOf(c)] = x]
  PROVE  \A e \in Channels : ChannelTrue(e)'
<1> SUFFICES ASSUME NEW e \in Channels PROVE ChannelTrue(e)'
  OBVIOUS
<1>1. ChannelTrue(e) /\ ~Unrecorded("paint", e) /\ ~Unrecorded("effect", e)
  BY DEF LightsInv, Unrecorded
<1>2. CASE UNCHANGED <<port, lost>>
  BY <1>1, <1>2 DEF ChannelTrue
<1>3. CASE job'.left = <<>> /\ lost' = lost \ {PortOf(c)} /\ \E x : port' = [port EXCEPT ![PortOf(c)] = x]
  <2>1. CASE e = c
    BY <1>3, <2>1 DEF ChannelTrue
  <2>2. CASE e # c
    <3>1. PortOf(e) # PortOf(c) /\ PortOf(e) \in Ports
      BY <2>2, PortsApart
    <3>2. port'[PortOf(e)] = port[PortOf(e)] /\ (PortOf(e) \in lost' <=> PortOf(e) \in lost)
      BY <1>3, <3>1 DEF LightsInv, BoardShapes
    <3>. QED
      BY <1>1, <3>2 DEF ChannelTrue
  <2>. QED
    BY <2>1, <2>2
<1>. QED
  BY <1>2, <1>3

LEMMA WholePlain == ASSUME NEW c \in Grouped, NEW f PROVE Plain(Whole(c, f))
BY ChunksPositive DEF Plain, Whole

LEMMA HubTrueKept ==
  ASSUME LightsInv, daemon = "up", Working, job.left # <<>>, UNCHANGED <<speed, hub>>,
         HubPort \in lost => HubPort \in lost'
  PROVE  HubTrue'
BY DEF LightsInv, HubTrue, Unrecorded

LEMMA PortsTyped ==
  ASSUME BoardShapes, NEW p \in Ports, NEW x, Plain(x), \A q \in Ports : Plain(port[q]),
         port' = [port EXCEPT ![p] = x]
  PROVE  port' = [q \in Ports |-> port'[q]] /\ \A q \in Ports : Plain(port[q])'
<1>1. port' = [q \in Ports |-> port'[q]]
  BY DEF BoardShapes
<1>2. ASSUME NEW q \in Ports PROVE Plain(port'[q])
  <2>1. CASE q = p
    BY <2>1 DEF BoardShapes
  <2>2. CASE q # p
    <3>1. port'[q] = port[q]
      BY <2>2 DEF BoardShapes
    <3>. QED
      BY <3>1
  <2>. QED
    BY <2>1, <2>2
<1>. QED
  BY <1>1, <1>2

LEMMA WriteLights ==
  ASSUME LightsInv, HiccupInv, Write
  PROVE  LightsInv'
<1>1. /\ Working /\ job.left # <<>> /\ link' = link
      /\ UNCHANGED <<daemon, state, recorded, speed>>
  BY DEF Write
<1>2. PICK n \in Nat : \E k \in 0..n : LET item == Current IN
           /\ k < n /\ Len(item.packets) = n /\ IsList(item.packets, n)
           /\ job' = [job EXCEPT !.left = Rest(item.packets, k + 1)]
           /\ Take(item.packets[k + 1]) /\ Midway(item, k)
           /\ (job'.left = <<>> <=> k + 1 = n)
  BY WriteParts
<1>3. PICK k \in 0..n : LET item == Current IN
           /\ k < n /\ Len(item.packets) = n /\ IsList(item.packets, n)
           /\ job' = [job EXCEPT !.left = Rest(item.packets, k + 1)]
           /\ Take(item.packets[k + 1]) /\ Midway(item, k)
           /\ (job'.left = <<>> <=> k + 1 = n)
  BY <1>2
<1>4. PICK item : item = Current
  OBVIOUS
<1>5. /\ k < n /\ Len(item.packets) = n /\ IsList(item.packets, n)
      /\ job' = [job EXCEPT !.left = Rest(item.packets, k + 1)]
      /\ Take(item.packets[k + 1]) /\ Midway(item, k)
      /\ (job'.left = <<>> <=> k + 1 = n)
  BY <1>3, <1>4
<1>6. OkItem(item)
  BY <1>1, <1>4, CurrentFine
<1>7. /\ job = [do |-> job.do, queue |-> job.queue, left |-> job.left, again |-> job.again,
                failed |-> job.failed]
      /\ daemon \in {"down", "up", "stopping"}
  BY DEF HiccupInv, Shapes, LightsInv, BoardShapes
<1>8. /\ job'.queue = job.queue /\ Working' /\ Current' = item
      /\ item.packets # <<>>
  <2>1. job'.queue = job.queue
    BY <1>5, <1>7
  <2>2. Working'
    BY <1>1, <2>1 DEF Working, Idle
  <2>3. Len(<<>>) = 0
    OBVIOUS
  <2>. QED
    BY <1>4, <1>5, <2>1, <2>2, <2>3 DEF Current
<1>9. SUFFICES /\ BoardShapes' /\ (\A p \in Ports : Plain(port[p])')
               /\ Midway(item, k + 1)' /\ (k + 1 = n => Finished(item)')
               /\ (daemon = "up" => HubTrue' /\ \A c \in Channels : ChannelTrue(c)')
  BY <1>1, <1>2, <1>3, <1>4, <1>5, <1>7, TakenLights
<1>15. /\ n \in Nat /\ k \in 0..n /\ k < n /\ (job'.left = <<>> <=> k + 1 = n)
       /\ Len(item.packets) = n
  BY <1>2, <1>3, <1>5
<1>16. \A c, mode : Len(EffectPackets(c, mode)) = 3
  BY DEF EffectPackets
<1>10. CASE \E c \in Grouped, f \in Frames :
              /\ ItemOf(item, "paint", c, f) /\ item.device = "board"
              /\ item.packets = IF state[c] = "managed" THEN DirectPackets(c, f) ELSE <<>>
  <2>1. PICK c \in Grouped, f \in Frames :
              ItemOf(item, "paint", c, f) /\ item.packets = DirectPackets(c, f)
    BY <1>8, <1>10
  <2>2. Chunks(c) \in Nat \ {0} /\ c \in Channels /\ Len(DirectPackets(c, f)) = Chunks(c)
    BY ChunksPositive DEF DirectPackets
  <2>3. n = Chunks(c) /\ item.packets[k + 1] = Direct(c, k + 1, f)
    BY <1>3, <1>5, <2>1, <2>2 DEF DirectPackets
  <2>4. \A i \in 1..k : i <= Len(buffer[PortOf(c)]) /\ buffer[PortOf(c)][i] = f
    BY <1>5, <2>1 DEF Midway, ItemOf
  <2>5. /\ UNCHANGED <<register, hub>>
        /\ \A i \in 1..(k + 1) : i <= Len(buffer'[PortOf(c)]) /\ buffer'[PortOf(c)][i] = f
        /\ \E S : buffer' \in [Ports -> Seq(S)]
        /\ k + 1 < n => UNCHANGED <<port, lost>>
        /\ k + 1 = n => port' = [port EXCEPT ![PortOf(c)] = Whole(c, f)] /\ lost' = lost \ {PortOf(c)}
    BY <1>3, <1>5, <2>3, <2>4, TakeDirect
  <2>6. PortOf(c) \in Ports /\ HubPort \notin Ports
    BY <2>2, PortsApart DEF HubPort, Ports
  <2>7. port' = [p \in Ports |-> port'[p]] /\ \A p \in Ports : Plain(port[p])'
    <3>1. CASE k + 1 < n
      BY <2>5, <3>1 DEF LightsInv, BoardShapes
    <3>2. CASE k + 1 = n
      <4>1. Plain(Whole(c, f))
        BY WholePlain
      <4>. QED
        BY <2>5, <2>6, <3>2, <4>1, PortsTyped DEF LightsInv
    <3>. QED
      BY <1>3, <1>5, <3>1, <3>2
  <2>8. BoardShapes'
    BY <1>1, <2>5, <2>7 DEF LightsInv, BoardShapes
  <2>9. Midway(item, k + 1)'
    BY <2>1, <2>5 DEF Midway, ItemOf
  <2>10. k + 1 = n => Finished(item)'
    BY <2>1, <2>5, <2>6 DEF Finished, ItemOf, LightsInv, BoardShapes
  <2>11. daemon = "up" => HubTrue'
    <3>1. HubPort \in lost => HubPort \in lost'
      BY <1>3, <1>5, <2>5, <2>6
    <3>. QED
      BY <1>1, <2>5, <3>1, HubTrueKept
  <2>12. ASSUME daemon = "up" PROVE \A e \in Channels : ChannelTrue(e)'
    <3>1. Current.channel = c /\ Current' = Current
      BY <1>4, <1>8, <2>1 DEF ItemOf
    <3>2. job'.left = <<>> => Unrecorded("paint", c)'
      BY <1>8, <2>1 DEF Unrecorded, ItemOf
    <3>3. \/ UNCHANGED <<port, lost>>
          \/ /\ job'.left = <<>> /\ lost' = lost \ {PortOf(c)}
             /\ \E x : port' = [port EXCEPT ![PortOf(c)] = x]
      <4>1. CASE k + 1 < n
        BY <2>5, <4>1
      <4>2. CASE k + 1 = n
        BY <1>15, <2>5, <4>2
      <4>3. k + 1 < n \/ k + 1 = n
        BY <1>15
      <4>. QED
        BY <4>1, <4>2, <4>3
    <3>. QED
      BY <1>1, <1>8, <2>2, <2>12, <3>1, <3>2, <3>3, ChannelsTrue
  <2>. QED
    BY <2>7, <2>8, <2>9, <2>10, <2>11, <2>12
<1>11. CASE \E c \in Channels, mode \in Effects :
              /\ ItemOf(item, "effect", c, mode) /\ item.device = "board"
              /\ item.packets = EffectPackets(c, mode)
  <2>1. PICK c \in Channels, mode \in Effects :
              ItemOf(item, "effect", c, mode) /\ item.packets = EffectPackets(c, mode)
    BY <1>11
  <2>2. n = 3 /\ k \in 0..2
    <3>1. n = 3
      BY <1>15, <1>16, <2>1
    <3>2. k \in 0..3 /\ k < 3
      BY <1>15, <3>1
    <3>. QED
      BY <3>1, <3>2
  <2>3. PortOf(c) \in Ports /\ HubPort \notin Ports /\ EffectPort(EffectChannel(c)) = PortOf(c)
    BY PortsApart DEF HubPort, Ports
  <2>4. /\ k = 0 => register' = [port |-> PortOf(c), mode |-> mode] /\ UNCHANGED <<port, buffer, hub, lost>>
        /\ k = 1 => UNCHANGED <<port, buffer, register, hub, lost>>
        /\ k = 2 => /\ port' = [port EXCEPT ![PortOf(c)] = Running(mode)]
                    /\ lost' = lost \ {PortOf(c)} /\ UNCHANGED <<buffer, hub>>
    <3>1. CASE k = 0
      <4>1. item.packets[k + 1] = [cmd |-> "effect", to |-> EffectChannel(c), arg |-> mode]
        BY <2>1, <3>1 DEF EffectPackets
      <4>. QED
        BY <1>5, <2>3, <3>1, <4>1 DEF Take
    <3>2. CASE k = 1
      <4>1. item.packets[k + 1] = [cmd |-> "color", to |-> EffectChannel(c)]
        BY <2>1, <3>2 DEF EffectPackets
      <4>. QED
        BY <1>5, <3>2, <4>1 DEF Take
    <3>3. CASE k = 2
      <4>1. item.packets[k + 1] = [cmd |-> "commit"]
        BY <2>1, <3>3 DEF EffectPackets
      <4>2. register = [port |-> PortOf(c), mode |-> mode]
        BY <1>5, <2>1, <3>3 DEF Midway, ItemOf
      <4>3. register # NoEffect
        BY <4>2, EffectsAssumption DEF NoEffect, None
      <4>. QED
        BY <1>5, <3>3, <4>1, <4>2, <4>3 DEF Take
    <3>. QED
      BY <2>2, <3>1, <3>2, <3>3
  <2>5. port' = [p \in Ports |-> port'[p]] /\ \A p \in Ports : Plain(port[p])'
    <3>1. CASE k # 2
      BY <2>2, <2>4, <3>1 DEF LightsInv, BoardShapes
    <3>2. CASE k = 2
      <4>1. Plain(Running(mode))
        BY DEF Plain, Running
      <4>. QED
        BY <2>3, <2>4, <3>2, <4>1, PortsTyped DEF LightsInv
    <3>. QED
      BY <3>1, <3>2
  <2>6. BoardShapes'
    BY <1>1, <2>2, <2>4, <2>5 DEF LightsInv, BoardShapes
  <2>7. Midway(item, k + 1)'
    <3>1. k + 1 \in 1..2 => register' = [port |-> PortOf(c), mode |-> mode]
      BY <1>5, <2>1, <2>2, <2>4 DEF Midway, ItemOf
    <3>. QED
      BY <2>1, <3>1 DEF Midway, ItemOf
  <2>8. k + 1 = n => Finished(item)'
    BY <2>1, <2>2, <2>3, <2>4 DEF Finished, ItemOf, LightsInv, BoardShapes
  <2>9. daemon = "up" => HubTrue'
    <3>1. (HubPort \in lost => HubPort \in lost') /\ hub' = hub
      BY <2>2, <2>3, <2>4
    <3>. QED
      BY <1>1, <3>1, HubTrueKept
  <2>10. ASSUME daemon = "up" PROVE \A e \in Channels : ChannelTrue(e)'
    <3>1. Current.channel = c /\ Current' = Current
      BY <1>4, <1>8, <2>1 DEF ItemOf
    <3>2. job'.left = <<>> => Unrecorded("effect", c)'
      BY <1>8, <2>1 DEF Unrecorded, ItemOf
    <3>3. \/ UNCHANGED <<port, lost>>
          \/ /\ job'.left = <<>> /\ lost' = lost \ {PortOf(c)}
             /\ \E x : port' = [port EXCEPT ![PortOf(c)] = x]
      BY <1>5, <2>2, <2>4
    <3>. QED
      BY <1>1, <1>8, <2>10, <3>1, <3>2, <3>3, ChannelsTrue
  <2>. QED
    BY <2>5, <2>6, <2>7, <2>8, <2>9, <2>10
<1>12. CASE \E c \in Channels :
              /\ ItemOf(item, "off", c, Dark) /\ item.packets = EffectPackets(c, Dark)
              /\ daemon # "up"
  <2>1. PICK c \in Channels :
              ItemOf(item, "off", c, Dark) /\ item.packets = EffectPackets(c, Dark) /\ daemon # "up"
    BY <1>12
  <2>2. k \in 0..2
    <3>1. n = 3
      BY <1>15, <1>16, <2>1
    <3>2. k \in 0..3 /\ k < 3
      BY <1>15, <3>1
    <3>. QED
      BY <3>2
  <2>3. PICK x : x \in {"effect", "color", "commit"} /\ item.packets[k + 1].cmd = x
    BY <2>1, <2>2 DEF EffectPackets
  <2>4. buffer' = buffer /\ (UNCHANGED port \/ port' = [port EXCEPT ![register.port] = Running(register.mode)])
    BY <1>5, <2>3 DEF Take
  <2>5. port' = [p \in Ports |-> port'[p]] /\ \A p \in Ports : Plain(port[p])'
    <3>1. CASE UNCHANGED port
      BY <3>1 DEF LightsInv, BoardShapes
    <3>2. CASE port' = [port EXCEPT ![register.port] = Running(register.mode)]
      <4>1. CASE register.port \in Ports
        <5>1. Plain(Running(register.mode))
          BY DEF Plain, Running
        <5>. QED
          BY <3>2, <4>1, <5>1, PortsTyped DEF LightsInv
      <4>2. CASE register.port \notin Ports
        <5>1. port' = port
          BY <3>2, <4>2 DEF LightsInv, BoardShapes
        <5>. QED
          BY <5>1 DEF LightsInv, BoardShapes
      <4>. QED
        BY <4>1, <4>2
    <3>. QED
      BY <2>4, <3>1, <3>2
  <2>6. BoardShapes'
    BY <1>1, <2>4, <2>5 DEF LightsInv, BoardShapes
  <2>7. Midway(item, k + 1)' /\ Finished(item)'
    BY <2>1 DEF Midway, Finished, ItemOf
  <2>. QED
    BY <2>1, <2>5, <2>6, <2>7
<1>13. CASE \E s : ItemOf(item, "speed", 0, s) /\ item.packets = <<[cmd |-> "speed", arg |-> s]>>
  <2>1. PICK s : ItemOf(item, "speed", 0, s) /\ item.packets = <<[cmd |-> "speed", arg |-> s]>>
    BY <1>13
  <2>2. n = 1 /\ k = 0 /\ item.packets[k + 1] = [cmd |-> "speed", arg |-> s]
    BY <1>3, <1>5, <2>1
  <2>3. hub' = s /\ lost' = lost \ {HubPort} /\ UNCHANGED <<port, buffer, register>>
    BY <1>5, <2>2 DEF Take, controller
  <2>4. BoardShapes' /\ \A p \in Ports : Plain(port[p])'
    BY <1>1, <2>3 DEF LightsInv, BoardShapes
  <2>5. Midway(item, k + 1)' /\ Finished(item)'
    BY <2>1, <2>3 DEF Midway, Finished, ItemOf
  <2>6. HubTrue'
    BY <1>5, <1>8, <2>1, <2>2 DEF HubTrue, Unrecorded, ItemOf
  <2>7. ASSUME daemon = "up", NEW c \in Channels PROVE ChannelTrue(c)'
    <3>1. PortOf(c) # HubPort
      BY PortsApart DEF HubPort, Ports
    <3>. QED
      BY <1>1, <2>3, <2>7, <3>1 DEF LightsInv, ChannelTrue, Unrecorded
  <2>. QED
    BY <2>4, <2>5, <2>6, <2>7
<1>14. CASE ItemOf(item, "reset", 0, None) /\ item.packets = <<[cmd |-> "reset"]>>
  <2>2. item.packets[k + 1] = [cmd |-> "reset"]
    BY <1>3, <1>5, <1>14
  <2>3. lost' = lost \cup {HubPort} /\ UNCHANGED <<port, buffer, register>>
    BY <1>5, <2>2 DEF Take, controller
  <2>4. BoardShapes' /\ \A p \in Ports : Plain(port[p])'
    BY <1>1, <2>3 DEF LightsInv, BoardShapes
  <2>5. Midway(item, k + 1)' /\ Finished(item)'
    BY <1>14 DEF Midway, Finished, ItemOf
  <2>6. HubTrue'
    BY <2>3 DEF HubTrue
  <2>7. ASSUME daemon = "up", NEW c \in Channels PROVE ChannelTrue(c)'
    BY <1>1, <2>3, <2>7 DEF LightsInv, ChannelTrue, Unrecorded
  <2>. QED
    BY <2>4, <2>5, <2>6, <2>7
<1>. QED
  BY <1>6, <1>10, <1>11, <1>12, <1>13, <1>14, ItemKinds

-----------------------------------------------------------------------------
\* Every port shows a whole frame or an effect, and what is recorded shows, in
\* every reachable state: a request's list is sent again from its first report, and
\* recorded when its last one was taken (send_direct, set_hw_effect_by_group).
THEOREM LightsInductive == Spec => []LightsInv
<1>1. Init => LightsInv
  <2>1. SUFFICES ASSUME Init PROVE LightsInv
    OBVIOUS
  <2>2. job.queue = <<>> /\ ~Working /\ daemon = "down" /\ port = Dead
    BY <2>1 DEF Init, Idle, Working
  <2>3. \E S : buffer \in [Ports -> Seq(S)]
    <3>1. buffer \in [Ports -> Seq(Nat)]
      BY <2>1 DEF Init, NoBuffer
    <3>. QED
      BY <3>1
  <2>4. BoardShapes
    BY <2>1, <2>3 DEF Init, BoardShapes, Dead, FirstState
  <2>. QED
    BY <2>2, <2>4, DeadPlain, NoItems DEF LightsInv, JobInv
<1>2. HiccupInv /\ LightsInv /\ [Next]_vars => LightsInv'
  <2>1. SUFFICES ASSUME HiccupInv, LightsInv, [Next]_vars PROVE LightsInv'
    OBVIOUS
  <2>2. CASE \E answering \in SUBSET Devices : Start(answering)
    BY <2>1, <2>2, StartLights
  <2>3. CASE \E S \in SUBSET Grouped, frame \in Frames : Sync(S, frame)
    BY <2>1, <2>3, SyncLights
  <2>4. CASE \/ \E c \in Channels, mode \in Effects : SetAuraEffect(c, mode)
             \/ \E s \in Speeds : MoboSetSpeed(s)
             \/ MoboAuto \/ Reset
    BY <2>1, <2>4, OthersLights
  <2>5. CASE Shutdown
    BY <2>1, <2>5, ShutdownLights
  <2>6. CASE Write
    BY <2>1, <2>6, WriteLights
  <2>7. CASE WriteFails
    BY <2>1, <2>7, WriteFailsLights
  <2>8. CASE Complete
    BY <2>1, <2>8, CompleteLights
  <2>9. CASE Answer
    BY <2>1, <2>9, AnswerLights
  <2>10. CASE \E d \in Devices : Unplug(d) \/ Plug(d) \/ GoesStale(d) \/ CooldownEnds(d)
    BY <2>1, <2>10, EnvironmentLights
  <2>11. CASE UNCHANGED vars
    <3>1. UNCHANGED <<daemon, state, recorded, speed, job, link, buffer, register, port, hub, lost>>
      BY <2>11 DEF vars
    <3>2. BoardShapes'
      BY <2>1, <3>1 DEF LightsInv, BoardShapes
    <3>. QED
      BY <2>1, <3>1, <3>2, CurrentOwn, DeviceLights
  <2>. QED
    BY <2>1, <2>2, <2>3, <2>4, <2>5, <2>6, <2>7, <2>8, <2>9, <2>10, <2>11 DEF Next
<1>. QED
  BY <1>1, <1>2, HiccupInductive, PTL DEF Spec

\* No port of any controller ever shows parts of two frames, whatever happens to
\* the handles between two reports of a frame (send_direct).
THEOREM FramesAreWhole == Spec => []WholeFrames
<1>1. LightsInv => WholeFrames
  <2>1. SUFFICES ASSUME LightsInv, NEW p \in Ports, port[p].kind = "frame"
                 PROVE  \A i, j \in DOMAIN port[p].of : port[p].of[i] = port[p].of[j]
    BY DEF WholeFrames
  <2>2. PICK n \in Nat : \E f : port[p].of = [i \in 1..n |-> f]
    BY <2>1 DEF LightsInv, Plain
  <2>3. PICK f : port[p].of = [i \in 1..n |-> f]
    BY <2>2
  <2>. QED
    BY <2>3
<1>. QED
  BY <1>1, LightsInductive, PTL

\* Between requests every port and the hub show what the status says of them, unless
\* they restarted since (System::set_rgb, set_hw_effect_by_group, System::set_speed).
THEOREM LightsAreAsRecorded == Spec => []LightsAsRecorded
<1>1. LightsInv => LightsAsRecorded
  <2>1. SUFFICES ASSUME LightsInv, daemon = "up", job = Idle PROVE LightsAsRecorded
    BY DEF LightsAsRecorded
  <2>2. \A do, c : ~Unrecorded(do, c)
    BY <2>1 DEF Unrecorded, Working
  <2>. QED
    BY <2>1, <2>2 DEF LightsInv, HubTrue, ChannelTrue, LightsAsRecorded
<1>. QED
  BY <1>1, LightsInductive, PTL
=============================================================================
