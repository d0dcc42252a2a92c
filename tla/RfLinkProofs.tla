----------------------------- MODULE RfLinkProofs -----------------------------
(* The wireless link, for any receivers, groups, channels, requests, repeats  *)
(* and faults: its USB recovery is bounded whatever retries are stacked on it *)
(* (RecoveryInv); a discovery pass in which nothing went wrong is truthful    *)
(* (LinkInv); and what is answered with Ok has happened (OkInv, Indices).     *)
EXTENDS RfLink, FiniteSetTheorems, TLAPS

HostShape ==
  /\ host = [channel |-> host.channel, txId |-> host.txId, cool |-> host.cool,
             timeouts |-> host.timeouts]
  /\ host.cool \in [Sides -> BOOLEAN]
  /\ reopened \in [Sides -> Nat]

\* A side that has been reopened in this period is in its cooldown.
ReopenedCools == \A s \in Sides : reopened[s] = 0 \/ (reopened[s] = 1 /\ host.cool[s])

RecoveryInv == HostShape /\ ReopenedCools

-----------------------------------------------------------------------------
\* Steps that reopen by other means, or not at all, leave cooldown and count alone.
Spared ==
  /\ host'.cool = host.cool /\ reopened' = reopened
  /\ host' = [channel |-> host'.channel, txId |-> host'.txId, cool |-> host'.cool,
              timeouts |-> host'.timeouts]

LEMMA SparedKeeps ==
  ASSUME RecoveryInv, Spared
  PROVE  RecoveryInv'
  BY DEF RecoveryInv, HostShape, ReopenedCools, Spared

\* The recovery waits for the end of the cooldown, and starts it.
LEMMA RecoverKeeps ==
  ASSUME RecoveryInv, NEW s \in Sides, Recover(s)
  PROVE  RecoveryInv'
<1>1. /\ ~host.cool[s] /\ reopened[s] = 0
  BY DEF RecoveryInv, ReopenedCools, Recover, MayRecover
<1>2. /\ host'.cool = [host.cool EXCEPT ![s] = TRUE]
      /\ host' = [channel |-> host'.channel, txId |-> host'.txId, cool |-> host'.cool,
                  timeouts |-> host'.timeouts]
  BY DEF RecoveryInv, HostShape, Recover
<1>3. reopened' = [reopened EXCEPT ![s] = 1]
  BY <1>1 DEF RecoveryInv, HostShape, Recover
<1>4. HostShape'
  BY <1>2, <1>3 DEF RecoveryInv, HostShape
<1>5. ReopenedCools'
  BY <1>2, <1>3 DEF RecoveryInv, HostShape, ReopenedCools
<1>. QED
  BY <1>4, <1>5 DEF RecoveryInv

LEMMA DrainSpares ==
  ASSUME RecoveryInv, DrainRx, UNCHANGED reopened
  PROVE  Spared
  BY DEF RecoveryInv, HostShape, DrainRx, Spared

\* Steps that leave the host as it is.
LEMMA HostSpares ==
  ASSUME RecoveryInv, UNCHANGED <<host, reopened>>
  PROVE  Spared
  BY DEF RecoveryInv, HostShape, Spared

LEMMA AskKeeps ==
  ASSUME RecoveryInv, Ask
  PROVE  RecoveryInv'
<1>1. ASSUME NEW req, NEW group, NEW mac, NEW arg, NEW ops, Begin(req, group, mac, arg, ops)
      PROVE  UNCHANGED <<host, reopened>>
  BY <1>1 DEF Begin
<1>2. ASSUME NEW g, NEW e, PaintBoard(g, e) PROVE UNCHANGED <<host, reopened>>
  BY <1>2 DEF PaintBoard
<1>3. UNCHANGED <<host, reopened>>
  BY <1>1, <1>2 DEF Ask, SetRgb, SetSpeed, MbSyncOff, SetPwm, MbSyncOn, Unbind, Reset, Bind,
                    Broadcast
<1>. QED
  BY <1>3, HostSpares, SparedKeeps

LEMMA MishapKeeps ==
  ASSUME RecoveryInv, Mishap
  PROVE  RecoveryInv'
<1>1. UNCHANGED <<host, reopened>>
  BY DEF Mishap, Break, Unplug, PlugIn, Hang, BoardChanges
<1>. QED
  BY <1>1, HostSpares, SparedKeeps

LEMMA CoolDownKeeps ==
  ASSUME RecoveryInv, CoolDown
  PROVE  RecoveryInv'
<1>1. /\ host' = [host EXCEPT !.cool = [s \in Sides |-> FALSE]]
      /\ reopened' = [s \in Sides |-> 0]
  BY DEF CoolDown
<1>. QED
  BY <1>1 DEF RecoveryInv, HostShape, ReopenedCools

LEMMA StepKeeps ==
  ASSUME RecoveryInv, Step
  PROVE  RecoveryInv'
<1> USE SparedKeeps, HostSpares
<1>1. CASE Send
  BY <1>1 DEF Send
<1>2. CASE Sent
  BY <1>2, DrainSpares DEF Sent
<1>3. CASE SendAgain
  BY <1>3, RecoverKeeps DEF SendAgain, Sides
<1>4. CASE GiveUp
  BY <1>4, RecoverKeeps DEF GiveUp, Sides
<1>5. CASE Discover
  BY <1>5, DrainSpares DEF Discover
<1>6. CASE SyncAnswered
  <2>1. Spared
    BY <1>6 DEF SyncAnswered, Spared, RecoveryInv, HostShape
  <2>. QED
    BY <2>1
<1>7. CASE SyncGarbled
  BY <1>7 DEF SyncGarbled
<1>8. CASE SyncFails
  BY <1>8, RecoverKeeps DEF SyncFails, Sides
<1>9. CASE DrainBeforeQuery
  BY <1>9, DrainSpares DEF DrainBeforeQuery
<1>10. CASE Query
  <2>1. Spared
    BY <1>10 DEF Query, Spared, RecoveryInv, HostShape
  <2>. QED
    BY <2>1
<1>11. CASE Probe
  <2>1. Spared
    BY <1>11 DEF Probe, Spared, RecoveryInv, HostShape
  <2>. QED
    BY <2>1
<1>12. CASE ScanEnds
  BY <1>12 DEF ScanEnds
<1>13. CASE QueryAgain
  <2>1. Spared
    BY <1>13 DEF QueryAgain, Spared, RecoveryInv, HostShape
  <2>. QED
    BY <2>1
<1>14. CASE QueryFails
  BY <1>14, RecoverKeeps DEF QueryFails, Sides
<1>15. CASE Refresh
  BY <1>15 DEF Refresh
<1>. QED
  BY <1>1, <1>2, <1>3, <1>4, <1>5, <1>6, <1>7, <1>8, <1>9, <1>10, <1>11, <1>12, <1>13,
     <1>14, <1>15 DEF Step

-----------------------------------------------------------------------------
\* The recovery only ever opens a handle whose cooldown is over, and starts the next one.
THEOREM RecoveryInductive == Spec => []RecoveryInv
<1>1. Init => RecoveryInv
  BY DEF Init, RecoveryInv, HostShape, ReopenedCools, Sides
<1>2. RecoveryInv /\ [Next]_vars => RecoveryInv'
  <2>1. RecoveryInv /\ UNCHANGED vars => RecoveryInv'
    BY HostSpares, SparedKeeps DEF vars
  <2>. QED
    BY <2>1, AskKeeps, StepKeeps, MishapKeeps, CoolDownKeeps DEF Next
<1>. QED
  BY <1>1, <1>2, PTL DEF Spec

\* The recovery opens each handle at most once in a cooldown period, although an
\* operation is tried again, requests and passes follow each other, and dongles
\* break, hang and are unplugged in between.
THEOREM NoReopenStormHolds == Spec => []NoReopenStorm
<1>1. RecoveryInv => NoReopenStorm
  BY DEF RecoveryInv, ReopenedCools, NoReopenStorm
<1>. QED
  BY <1>1, RecoveryInductive, PTL

-----------------------------------------------------------------------------
(* Sets of numbers in order, and the members of a set in a sequence. *)

IsList(s) == \E S : s \in Seq(S)

\* Every member of a finite set of numbers has its place.
LEMMA Places ==
  ASSUME NEW S, IsFiniteSet(S), S \subseteq Nat, NEW n \in S
  PROVE  \E i \in 1..Cardinality(S) : Nth(S, i) = n
<1> DEFINE upTo(k) == {m \in S : m <= k}
<1>1. \A k : IsFiniteSet(upTo(k)) /\ Cardinality(upTo(k)) \in Nat
             /\ Cardinality(upTo(k)) <= Cardinality(S)
  <2>. SUFFICES ASSUME NEW k
                PROVE  IsFiniteSet(upTo(k)) /\ Cardinality(upTo(k)) \in Nat
                       /\ Cardinality(upTo(k)) <= Cardinality(S)
    OBVIOUS
  <2>1. upTo(k) \in SUBSET S
    OBVIOUS
  <2>. QED
    BY <2>1, FS_Subset, FS_CardinalityType
<1>2. \A j, k \in S : j < k => Cardinality(upTo(j)) < Cardinality(upTo(k))
  <2>. SUFFICES ASSUME NEW j \in S, NEW k \in S, j < k
                PROVE  Cardinality(upTo(j)) < Cardinality(upTo(k))
    OBVIOUS
  <2>0. j \in Nat /\ k \in Nat /\ \A m \in S : m \in Nat
    OBVIOUS
  <2>1. upTo(j) \in SUBSET upTo(k) /\ k \in upTo(k) /\ k \notin upTo(j)
    <3>1. \A m \in S : m <= j => m <= k
      BY <2>0
    <3>2. k <= k /\ ~(k <= j)
      BY <2>0
    <3>. QED
      BY <3>1, <3>2
  <2> HIDE DEF upTo
  <2>2. /\ Cardinality(upTo(j)) <= Cardinality(upTo(k))
        /\ Cardinality(upTo(k)) = Cardinality(upTo(j)) => upTo(k) = upTo(j)
    BY <1>1, <2>1, FS_Subset
  <2>. QED
    BY <1>1, <2>1, <2>2
<1> DEFINE i == Cardinality(upTo(n))
<1>3. i \in 1..Cardinality(S)
  <2>1. upTo(n) # {}
    OBVIOUS
  <2> HIDE DEF upTo
  <2>2. Cardinality(upTo(n)) # 0
    BY <1>1, <2>1, FS_EmptySet
  <2>3. Cardinality(S) \in Nat
    BY FS_CardinalityType
  <2>. QED
    BY <1>1, <2>2, <2>3
<1>4. \A k \in S : Cardinality(upTo(k)) = i => k = n
  <2> SUFFICES ASSUME NEW k \in S, Cardinality(upTo(k)) = i, k # n
               PROVE  FALSE
    OBVIOUS
  <2>1. k < n \/ n < k
    OBVIOUS
  <2>2. Cardinality(upTo(k)) # Cardinality(upTo(n))
    <3> HIDE DEF upTo
    <3>. QED
      BY <1>1, <1>2, <2>1
  <2>. QED
    BY <2>2
<1>5. Nth(S, i) = n
  BY <1>4 DEF Nth
<1>. QED
  BY <1>3, <1>5

LEMMA InOrderAll ==
  ASSUME NEW S, IsFiniteSet(S), S \subseteq Nat
  PROVE  /\ IsList(InOrder(S)) /\ S \subseteq RangeOf(InOrder(S))
<1>. DEFINE s == InOrder(S)
<1>1. Cardinality(S) \in Nat
  BY FS_CardinalityType
<1>2. s \in Seq({Nth(S, i) : i \in 1..Cardinality(S)}) /\ Len(s) = Cardinality(S)
      /\ \A i \in 1..Cardinality(S) : s[i] = Nth(S, i)
  BY <1>1 DEF InOrder
<1> HIDE DEF s
<1>3. ASSUME NEW n \in S PROVE n \in RangeOf(s)
  <2>1. PICK i \in 1..Cardinality(S) : Nth(S, i) = n
    BY Places
  <2>2. s[i] = n /\ i \in 1..Len(s)
    BY <1>2, <2>1
  <2>. QED
    BY <2>2 DEF RangeOf
<1>. QED
  BY <1>2, <1>3 DEF IsList, s

\* Those keeps every member of the set.
LEMMA ThoseAll ==
  ASSUME NEW S, NEW s, IsList(s)
  PROVE  /\ IsList(Those(S, s))
         /\ \A x \in S : x \in RangeOf(s) => x \in RangeOf(Those(S, s))
<1>. DEFINE places == {i \in 1..Len(s) : s[i] \in S}
            t == Those(S, s)
<1>1. Len(s) \in Nat
  BY DEF IsList
<1>2. IsFiniteSet(places) /\ places \subseteq Nat
  <2>1. places \in SUBSET (1..Len(s)) /\ places \subseteq Nat
    BY <1>1
  <2> HIDE DEF places
  <2>2. IsFiniteSet(1..Len(s))
    BY <1>1, FS_Interval
  <2>. QED
    BY <2>1, <2>2, FS_Subset
<1>3. Cardinality(places) \in Nat
  <2> HIDE DEF places
  <2>. QED
    BY <1>2, FS_CardinalityType
<1>4. t = [i \in 1..Cardinality(places) |-> s[Nth(places, i)]]
  BY DEF Those
<1>5. \A i \in places : s[i] \in S
  OBVIOUS
<1>6. \A x \in S : x \in RangeOf(s) => \E i \in places : s[i] = x
  BY DEF RangeOf
<1> HIDE DEF places, t
<1>7. t \in Seq({s[Nth(places, i)] : i \in 1..Cardinality(places)}) /\ Len(t) = Cardinality(places)
      /\ \A i \in 1..Cardinality(places) : t[i] = s[Nth(places, i)]
  BY <1>3, <1>4
<1>8. ASSUME NEW x \in S, x \in RangeOf(s) PROVE x \in RangeOf(t)
  <2>1. PICK i \in places : s[i] = x
    BY <1>6, <1>8
  <2>2. PICK k \in 1..Cardinality(places) : Nth(places, k) = i
    BY <1>2, Places
  <2>3. t[k] = x /\ k \in 1..Len(t)
    BY <1>7, <2>1, <2>2
  <2>. QED
    BY <2>3 DEF RangeOf
<1>. QED
  BY <1>7, <1>8 DEF IsList, t

LEMMA JoinedRange ==
  ASSUME NEW s, NEW t, IsList(s), IsList(t)
  PROVE  IsList(s \o t) /\ RangeOf(s) \subseteq RangeOf(s \o t) /\ RangeOf(t) \subseteq RangeOf(s \o t)
<1>1. PICK S : s \in Seq(S)
  BY DEF IsList
<1>2. PICK T : t \in Seq(T)
  BY DEF IsList
<1>3. s \in Seq(S \cup T) /\ t \in Seq(S \cup T)
  BY <1>1, <1>2
<1>4. /\ s \o t \in Seq(S \cup T) /\ Len(s) \in Nat /\ Len(t) \in Nat
      /\ Len(s \o t) = Len(s) + Len(t)
      /\ \A i \in 1..Len(s) : (s \o t)[i] = s[i]
      /\ \A i \in 1..Len(t) : (s \o t)[Len(s) + i] = t[i]
  BY <1>3
<1>5. ASSUME NEW x \in RangeOf(s) PROVE x \in RangeOf(s \o t)
  <2>1. PICK i \in 1..Len(s) : s[i] = x
    BY <1>5 DEF RangeOf
  <2>2. i \in 1..Len(s \o t) /\ (s \o t)[i] = x
    BY <1>4, <2>1
  <2>. QED
    BY <2>2 DEF RangeOf
<1>6. ASSUME NEW x \in RangeOf(t) PROVE x \in RangeOf(s \o t)
  <2>1. PICK i \in 1..Len(t) : t[i] = x
    BY <1>6 DEF RangeOf
  <2>2. Len(s) + i \in 1..Len(s \o t) /\ (s \o t)[Len(s) + i] = x
    BY <1>4, <2>1
  <2>. QED
    BY <2>2 DEF RangeOf
<1>. QED
  BY <1>4, <1>5, <1>6 DEF IsList

-----------------------------------------------------------------------------
(* The shape of a request: the operations that are left, counted from the end. *)

OpFields == {"do", "group", "mac", "arg", "tries", "soft"}
ToGroup == {"rgb", "speed", "pwm", "mbOn", "mbOff", "bind", "unbind"}
ToAll == {"lock", "unlock", "order", "reset"}

IsOp(j, a, op, left) ==
  /\ OpFields \subseteq DOMAIN op /\ op.group = j.group /\ op.mac = j.mac
  /\ op.soft => j.req = "bind" /\ op.do = "lock"
  /\ \/ /\ j.req = "rgb" /\ left = 1 /\ op.do = "listen"
     \/ /\ j.req = "rgb" /\ left \in {0, 2} /\ op.do = "upload" /\ op.arg = j.arg
        /\ "index" \in DOMAIN op /\ op.index = <<a - 1, IF left = 0 THEN 2 ELSE 1>>
     \/ j.req = "speed" /\ left = 0 /\ op.do \in {"speed", "pump"} /\ op.arg = j.arg
     \/ j.req = "pwm" /\ left = 0 /\ op.do = "speed" /\ op.arg = SpeedMin
     \/ j.req = "mbOn" /\ left = 0 /\ op.do = "mbOn"
     \/ j.req = "mbOff" /\ left = 2 /\ op.do = "mbOff"
     \/ j.req = "mbOff" /\ left = 1 /\ op.do = "speed" /\ op.arg = j.arg
     \/ j.req = "mbOff" /\ left = 0 /\ op.do = "lock"
     \/ j.req = "bind" /\ left \in {0, 1} /\ op.do = "bind"
     \/ j.req = "bind" /\ left = 0 /\ op.do = "lock"
     \/ j.req = "unbind" /\ left = 0 /\ op.do = "unbind"
     \/ j.req \in ToAll /\ left = 0 /\ op.do = j.req

IsRequest(j, a) ==
  /\ j = [req |-> j.req, group |-> j.group, mac |-> j.mac, arg |-> j.arg, ops |-> j.ops,
          at |-> j.at, tried |-> j.tried, lost |-> j.lost, members |-> j.members]
  /\ j.req \in ToGroup \cup ToAll /\ (j.req \in ToGroup => j.group \in Groups)
  /\ j.at \in Nat \ {0} /\ j.lost \in Nat
  /\ IsList(j.ops) /\ j.ops # <<>>
  /\ \A i \in 1..Len(j.ops) : IsOp(j, a, j.ops[i], Len(j.ops) - i)

\* A discovery pass: what it found, and how many faults there were when it began.
IsPass(j, f) ==
  /\ j = [req |-> "discover", phase |-> j.phase, n |-> j.n, tried |-> j.tried,
          found |-> j.found, smooth |-> j.smooth, since |-> j.since]
  /\ IsList(j.found) /\ j.since \in Nat /\ j.since <= f
  /\ j.phase \in {"scan", "again"} => j.found = <<>>

JobShape ==
  /\ asked \in Nat /\ faults \in Nat
  /\ job = Idle \/ IsRequest(job, asked) \/ IsPass(job, faults)

LEMMA WorkingShape ==
  ASSUME JobShape
  PROVE  /\ Working <=> IsRequest(job, asked)
         /\ job.req = "discover" <=> IsPass(job, faults)
         /\ Working \/ job.req = "discover" => job # Idle
  BY DEF JobShape, Working, Idle, None, IsPass, IsRequest, ToAll, ToGroup

LEMMA OneOp ==
  ASSUME NEW a, NEW q, q = <<a>>
  PROVE  /\ IsList(q) /\ q # <<>> /\ Len(q) = 1 /\ q[1] = a
         /\ \A i \in 1..Len(q) : i = 1
<1>1. q \in Seq({a}) /\ Len(q) = 1 /\ q[1] = a
  OBVIOUS
<1>2. \A i \in 1..1 : i = 1
  OBVIOUS
<1>3. q # <<>> /\ IsList(q)
  BY <1>1 DEF IsList
<1>. QED
  BY <1>1, <1>2, <1>3

LEMMA TwoOps ==
  ASSUME NEW a, NEW b, NEW q, q = <<a, b>>
  PROVE  /\ IsList(q) /\ q # <<>> /\ Len(q) = 2 /\ q[1] = a /\ q[2] = b
         /\ \A i \in 1..Len(q) : i = 1 \/ i = 2
<1>1. q \in Seq({a, b}) /\ Len(q) = 2 /\ q[1] = a /\ q[2] = b
  OBVIOUS
<1>2. \A i \in 1..2 : i = 1 \/ i = 2
  OBVIOUS
<1>3. q # <<>> /\ IsList(q)
  BY <1>1 DEF IsList
<1>. QED
  BY <1>1, <1>2, <1>3

LEMMA ThreeOps ==
  ASSUME NEW a, NEW b, NEW c, NEW q, q = <<a, b, c>>
  PROVE  /\ IsList(q) /\ q # <<>> /\ Len(q) = 3 /\ q[1] = a /\ q[2] = b /\ q[3] = c
         /\ \A i \in 1..Len(q) : i = 1 \/ i = 2 \/ i = 3
<1>1. q \in Seq({a, b, c}) /\ Len(q) = 3 /\ q[1] = a /\ q[2] = b /\ q[3] = c
  OBVIOUS
<1>2. \A i \in 1..3 : i = 1 \/ i = 2 \/ i = 3
  OBVIOUS
<1>3. q # <<>> /\ IsList(q)
  BY <1>1 DEF IsList
<1>. QED
  BY <1>1, <1>2, <1>3

LEMMA TailOps ==
  ASSUME NEW s, IsList(s), Len(s) # 1, s # <<>>
  PROVE  /\ IsList(Tail(s)) /\ Tail(s) # <<>> /\ Len(Tail(s)) = Len(s) - 1 /\ Len(s) \in Nat
         /\ \A i \in 1..Len(Tail(s)) : Tail(s)[i] = s[i + 1] /\ i + 1 \in 1..Len(s)
<1>1. PICK S : s \in Seq(S)
  BY DEF IsList
<1>2. Len(s) \in Nat /\ Len(s) > 1
  BY <1>1
<1>3. Tail(s) \in Seq(S) /\ Len(Tail(s)) = Len(s) - 1
  BY <1>1, <1>2
<1>4. \A i \in 1..Len(Tail(s)) : Tail(s)[i] = s[i + 1]
  BY <1>1, <1>2
<1>5. Tail(s) # <<>>
  BY <1>2, <1>3
<1>. QED
  BY <1>2, <1>3, <1>4, <1>5 DEF IsList

\* The first operation, with another number of tries.
Retried(s, t) == [s EXCEPT ![1].tries = t]
LEMMA TriedOps ==
  ASSUME NEW s, IsList(s), s # <<>>, NEW t, NEW q, q = Retried(s, t)
  PROVE  /\ IsList(q) /\ q # <<>> /\ Len(q) = Len(s)
         /\ q[1] = [s[1] EXCEPT !.tries = t]
         /\ \A i \in 1..Len(s) : i # 1 => q[i] = s[i]
<1>1. PICK S : s \in Seq(S)
  BY DEF IsList
<1>. DEFINE e == [s[1] EXCEPT !.tries = t]
<1>2. q = [s EXCEPT ![1] = e]
  BY DEF Retried
<1> HIDE DEF e
<1>3. s \in Seq(S \cup {e}) /\ Len(s) \in Nat /\ Len(s) >= 1
  BY <1>1
<1>4. q \in Seq(S \cup {e}) /\ Len(q) = Len(s)
  BY <1>2, <1>3
<1>5. q[1] = e /\ \A i \in 1..Len(s) : i # 1 => q[i] = s[i]
  BY <1>2, <1>3
<1>6. q # <<>>
  BY <1>3, <1>4
<1>. QED
  BY <1>4, <1>5, <1>6 DEF IsList, e

\* Frames go out, are lost and are sent again; an operation is tried again; the next begins.
Resent(j, at, tried, lost) == [j EXCEPT !.at = at, !.tried = tried, !.lost = lost]
LEMMA ResentRecord ==
  ASSUME NEW j, NEW a, IsRequest(j, a), NEW at, NEW tried, NEW lost, NEW k, k = Resent(j, at, tried, lost)
  PROVE  k = [req |-> j.req, group |-> j.group, mac |-> j.mac, arg |-> j.arg, ops |-> j.ops,
              at |-> at, tried |-> tried, lost |-> lost, members |-> j.members]
  BY DEF IsRequest, Resent
LEMMA SentShape ==
  ASSUME NEW j, NEW a, IsRequest(j, a), NEW at \in Nat \ {0}, NEW tried, NEW lost \in Nat,
         NEW k, k = Resent(j, at, tried, lost)
  PROVE  IsRequest(k, a) 
<1>1. /\ k = [req |-> j.req, group |-> j.group, mac |-> j.mac, arg |-> j.arg, ops |-> j.ops,
              at |-> at, tried |-> tried, lost |-> lost, members |-> j.members]
  BY DEF IsRequest, Resent
<1>2. \A op, left : IsOp(j, a, op, left) => IsOp(k, a, op, left)
  BY <1>1 DEF IsOp
<1>. QED
  BY <1>1, <1>2 DEF IsRequest

LEMMA NextShape ==
  ASSUME NEW j, NEW a, IsRequest(j, a), Len(j.ops) # 1,
         NEW k, k = [j EXCEPT !.ops = Tail(@), !.at = 1, !.tried = FALSE]
  PROVE  IsRequest(k, a)
<1>1. /\ k = [req |-> j.req, group |-> j.group, mac |-> j.mac, arg |-> j.arg, ops |-> Tail(j.ops),
              at |-> 1, tried |-> FALSE, lost |-> j.lost, members |-> j.members]
  BY DEF IsRequest
<1>2. \A op, left : IsOp(j, a, op, left) => IsOp(k, a, op, left)
  BY <1>1 DEF IsOp
<1>3. /\ IsList(j.ops) /\ j.ops # <<>>
      /\ \A i \in 1..Len(j.ops) : IsOp(j, a, j.ops[i], Len(j.ops) - i)
  BY DEF IsRequest
<1>4. PICK s : s = j.ops
  OBVIOUS
<1>5. PICK t : t = Tail(s)
  OBVIOUS
<1>6. /\ IsList(t) /\ t # <<>> /\ Len(t) = Len(s) - 1 /\ Len(s) \in Nat
      /\ \A i \in 1..Len(t) : t[i] = s[i + 1] /\ i + 1 \in 1..Len(s)
  BY <1>3, <1>4, <1>5, TailOps
<1>7. ASSUME NEW i \in 1..Len(t) PROVE IsOp(k, a, t[i], Len(t) - i)
  <2>1. IsOp(j, a, s[i + 1], Len(s) - (i + 1))
    BY <1>3, <1>4, <1>6
  <2>2. Len(s) - (i + 1) = Len(t) - i
    BY <1>6
  <2>. QED
    BY <1>2, <1>6, <2>1, <2>2
<1>8. k.ops = t /\ k = [req |-> k.req, group |-> k.group, mac |-> k.mac, arg |-> k.arg, ops |-> k.ops,
          at |-> k.at, tried |-> k.tried, lost |-> k.lost, members |-> k.members]
  BY <1>1, <1>4, <1>5
<1>9. /\ k.req \in ToGroup \cup ToAll /\ (k.req \in ToGroup => k.group \in Groups)
      /\ k.at \in Nat \ {0} /\ k.lost \in Nat
  BY <1>1 DEF IsRequest
<1>. QED
  BY <1>6, <1>7, <1>8, <1>9 DEF IsRequest

Retry(j, t) == [j EXCEPT !.ops = Retried(@, t), !.at = 1, !.tried = FALSE]
LEMMA TriedShape ==
  ASSUME NEW j, NEW a, IsRequest(j, a), NEW t,
         NEW k, k = Retry(j, t)
  PROVE  IsRequest(k, a)
<1>4. PICK s : s = j.ops
  OBVIOUS
<1>5. PICK q : q = Retried(s, t)
  OBVIOUS
<1>1. /\ k = [req |-> j.req, group |-> j.group, mac |-> j.mac, arg |-> j.arg, ops |-> q,
              at |-> 1, tried |-> FALSE, lost |-> j.lost, members |-> j.members]
  BY <1>4, <1>5 DEF IsRequest, Retry
<1>2. \A op, left : IsOp(j, a, op, left) => IsOp(k, a, op, left)
  BY <1>1 DEF IsOp
<1>3. /\ IsList(s) /\ s # <<>>
      /\ \A i \in 1..Len(s) : IsOp(j, a, s[i], Len(s) - i)
  BY <1>4 DEF IsRequest
<1>6. /\ IsList(q) /\ q # <<>> /\ Len(q) = Len(s) /\ q[1] = [s[1] EXCEPT !.tries = t]
      /\ \A i \in 1..Len(s) : i # 1 => q[i] = s[i]
  BY <1>3, <1>5, TriedOps
<1>7. \A op, left : IsOp(k, a, op, left) => IsOp(k, a, [op EXCEPT !.tries = t], left)
  BY DEF IsOp, OpFields
<1>8. \A i \in 1..Len(q) : IsOp(k, a, q[i], Len(q) - i)
  <2>1. ASSUME NEW i \in 1..Len(q) PROVE IsOp(k, a, q[i], Len(q) - i)
    <3>1. IsOp(k, a, s[i], Len(q) - i)
      BY <1>2, <1>3, <1>6
    <3>2. CASE i = 1
      BY <1>6, <1>7, <3>1, <3>2
    <3>3. CASE i # 1
      BY <1>6, <3>1, <3>3
    <3>. QED
      BY <3>2, <3>3
  <2>. QED
    BY <2>1
<1>9. /\ k.req = j.req /\ k.group = j.group /\ k.mac = j.mac /\ k.arg = j.arg /\ k.ops = q
      /\ k.at = 1 /\ k.tried = FALSE /\ k.lost = j.lost /\ k.members = j.members
  BY <1>1
<1>11. k = [req |-> k.req, group |-> k.group, mac |-> k.mac, arg |-> k.arg, ops |-> k.ops,
            at |-> k.at, tried |-> k.tried, lost |-> k.lost, members |-> k.members]
  BY <1>1, <1>9
<1>10. /\ k.req \in ToGroup \cup ToAll /\ (k.req \in ToGroup => k.group \in Groups)
       /\ k.at \in Nat \ {0} /\ k.lost \in Nat
  BY <1>1 DEF IsRequest
<1>. QED
  BY <1>6, <1>8, <1>9, <1>10, <1>11 DEF IsRequest

-----------------------------------------------------------------------------
LEMMA Appended ==
  ASSUME NEW x, NEW y
  PROVE  <<x>> \o <<y>> = <<x, y>>
<1>1. PICK u : u = <<x>> \o <<y>>
  OBVIOUS
<1>2. u \in Seq({x, y}) /\ Len(u) = 2 /\ u[1] = x /\ u[2] = y
  BY <1>1
<1>3. PICK v : v = <<x, y>>
  OBVIOUS
<1>4. v \in Seq({x, y}) /\ Len(v) = 2 /\ v[1] = x /\ v[2] = y
  BY <1>3
<1>5. u = [i \in 1..2 |-> u[i]] /\ v = [i \in 1..2 |-> v[i]]
  BY <1>2, <1>4
<1>6. \A i \in 1..2 : u[i] = v[i]
  BY <1>2, <1>4
<1>. QED
  BY <1>1, <1>3, <1>5, <1>6

LEMMA BegunShape ==
  ASSUME JobShape, NEW req \in ToGroup \cup ToAll, NEW group, req \in ToGroup => group \in Groups,
         NEW mac, NEW arg, NEW ops, Begin(req, group, mac, arg, ops), IsList(ops), ops # <<>>,
         NEW j, j = [req |-> req, group |-> group, mac |-> mac, arg |-> arg],
         \A i \in 1..Len(ops) : IsOp(j, asked + 1, ops[i], Len(ops) - i)
  PROVE  JobShape'
<1>1. /\ job' = [req |-> req, group |-> group, mac |-> mac, arg |-> arg, ops |-> ops,
                 at |-> 1, tried |-> FALSE, lost |-> 0, members |-> Members(group)]
      /\ asked' = asked + 1 /\ faults' = faults
  BY DEF Begin
<1>2. \A op, left : IsOp(j, asked + 1, op, left) => IsOp(job', asked', op, left)
  BY <1>1 DEF IsOp
<1>4. \A i \in 1..Len(ops) : IsOp(job', asked', ops[i], Len(ops) - i)
  BY <1>2
<1>5. /\ job'.ops = ops /\ job'.at \in Nat \ {0} /\ job'.lost \in Nat
      /\ job'.req \in ToGroup \cup ToAll /\ (job'.req \in ToGroup => job'.group \in Groups)
  BY <1>1
<1>6. job' = [req |-> job'.req, group |-> job'.group, mac |-> job'.mac, arg |-> job'.arg,
              ops |-> job'.ops, at |-> job'.at, tried |-> job'.tried, lost |-> job'.lost,
              members |-> job'.members]
  BY <1>1
<1>3. IsRequest(job', asked')
  BY <1>4, <1>5, <1>6 DEF IsRequest
<1>. QED
  BY <1>1, <1>3 DEF JobShape

LEMMA AskShape ==
  ASSUME JobShape, Ask
  PROVE  JobShape'
<1>0. asked \in Nat
  BY DEF JobShape
<1>. DEFINE Asking(req, group, mac, arg) == [req |-> req, group |-> group, mac |-> mac, arg |-> arg]
<1> USE <1>0 DEF ToGroup, ToAll, IsOp, OpFields, Op, Backoff, Ignored, Indexed
<1>1. ASSUME NEW g \in Groups, NEW e \in Effects, SetRgb(g, e) PROVE JobShape'
  <2>. DEFINE op == Op("upload", g, FirstMac(g), e)
  <2>1. PICK ops : ops = <<Indexed(op, 1), Op("listen", g, op.mac, e), Indexed(op, 2)>>
    OBVIOUS
  <2>2. Begin("rgb", g, FirstMac(g), e, ops)
    BY <1>1, <2>1 DEF SetRgb
  <2>3. PICK j : j = Asking("rgb", g, FirstMac(g), e)
    OBVIOUS
  <2>4. \A i \in 1..Len(ops) : IsOp(j, asked + 1, ops[i], Len(ops) - i)
    BY <2>1, <2>3, ThreeOps
  <2>5. IsList(ops) /\ ops # <<>>
    BY <2>1, ThreeOps
  <2> HIDE DEF IsOp, Op, Indexed, Backoff, Ignored
  <2>. QED
    BY <2>2, <2>3, <2>4, <2>5, BegunShape
<1>2. ASSUME NEW g \in Groups, NEW p \in Speeds, SetSpeed(g, p) PROVE JobShape'
  <2>. DEFINE op == Op(IF registry[g].pump THEN "pump" ELSE "speed", g, FirstMac(g), p)
  <2>1. PICK ops : ops = <<IF registry[g].pump THEN op ELSE Backoff(op)>>
    OBVIOUS
  <2>2. Begin("speed", g, FirstMac(g), p, ops)
    BY <1>2, <2>1 DEF SetSpeed
  <2>3. PICK j : j = Asking("speed", g, FirstMac(g), p)
    OBVIOUS
  <2>4. \A i \in 1..Len(ops) : IsOp(j, asked + 1, ops[i], Len(ops) - i)
    BY <2>1, <2>3, OneOp
  <2>5. IsList(ops) /\ ops # <<>>
    BY <2>1, OneOp
  <2> HIDE DEF IsOp, Op, Indexed, Backoff, Ignored
  <2>. QED
    BY <2>2, <2>3, <2>4, <2>5, BegunShape
<1>3. ASSUME NEW g \in Groups, NEW p \in Speeds, MbSyncOff(g, p) PROVE JobShape'
  <2>1. PICK ops : ops = <<Op("mbOff", g, FirstMac(g), NextSeq(registry[g].seq)),
                           Backoff(Op("speed", g, FirstMac(g), p)), Op("lock", g, FirstMac(g), 0)>>
    OBVIOUS
  <2>2. Begin("mbOff", g, FirstMac(g), p, ops)
    BY <1>3, <2>1 DEF MbSyncOff
  <2>3. PICK j : j = Asking("mbOff", g, FirstMac(g), p)
    OBVIOUS
  <2>4. \A i \in 1..Len(ops) : IsOp(j, asked + 1, ops[i], Len(ops) - i)
    BY <2>1, <2>3, ThreeOps
  <2>5. IsList(ops) /\ ops # <<>>
    BY <2>1, ThreeOps
  <2> HIDE DEF IsOp, Op, Indexed, Backoff, Ignored
  <2>. QED
    BY <2>2, <2>3, <2>4, <2>5, BegunShape
<1>4. ASSUME NEW g \in Groups, SetPwm(g) PROVE JobShape'
  <2>1. PICK ops : ops = <<Backoff(Op("speed", g, FirstMac(g), SpeedMin))>>
    OBVIOUS
  <2>2. Begin("pwm", g, FirstMac(g), SpeedMin, ops)
    BY <1>4, <2>1 DEF SetPwm
  <2>3. PICK j : j = Asking("pwm", g, FirstMac(g), SpeedMin)
    OBVIOUS
  <2>4. \A i \in 1..Len(ops) : IsOp(j, asked + 1, ops[i], Len(ops) - i)
    BY <2>1, <2>3, OneOp
  <2>5. IsList(ops) /\ ops # <<>>
    BY <2>1, OneOp
  <2> HIDE DEF IsOp, Op, Indexed, Backoff, Ignored
  <2>. QED
    BY <2>2, <2>3, <2>4, <2>5, BegunShape
<1>5. ASSUME NEW g \in Groups, MbSyncOn(g) PROVE JobShape'
  <2>1. PICK ops : ops = <<Op("mbOn", g, FirstMac(g), SpeedMin)>>
    OBVIOUS
  <2>2. Begin("mbOn", g, FirstMac(g), SpeedMin, ops)
    BY <1>5, <2>1 DEF MbSyncOn
  <2>3. PICK j : j = Asking("mbOn", g, FirstMac(g), SpeedMin)
    OBVIOUS
  <2>4. \A i \in 1..Len(ops) : IsOp(j, asked + 1, ops[i], Len(ops) - i)
    BY <2>1, <2>3, OneOp
  <2>5. IsList(ops) /\ ops # <<>>
    BY <2>1, OneOp
  <2> HIDE DEF IsOp, Op, Indexed, Backoff, Ignored
  <2>. QED
    BY <2>2, <2>3, <2>4, <2>5, BegunShape
<1>6. ASSUME NEW g \in Groups, Unbind(g) PROVE JobShape'
  <2>1. PICK ops : ops = <<Op("unbind", g, FirstMac(g), 0)>>
    OBVIOUS
  <2>2. Begin("unbind", g, FirstMac(g), 0, ops)
    BY <1>6, <2>1 DEF Unbind
  <2>3. PICK j : j = Asking("unbind", g, FirstMac(g), 0)
    OBVIOUS
  <2>4. \A i \in 1..Len(ops) : IsOp(j, asked + 1, ops[i], Len(ops) - i)
    BY <2>1, <2>3, OneOp
  <2>5. IsList(ops) /\ ops # <<>>
    BY <2>1, OneOp
  <2> HIDE DEF IsOp, Op, Indexed, Backoff, Ignored
  <2>. QED
    BY <2>2, <2>3, <2>4, <2>5, BegunShape
<1>7. ASSUME NEW g \in Groups, Reset(g) PROVE JobShape'
  <2>1. PICK ops : ops = <<Op("reset", g, FirstMac(g), 0)>>
    OBVIOUS
  <2>2. Begin("reset", g, FirstMac(g), 0, ops)
    BY <1>7, <2>1 DEF Reset
  <2>3. PICK j : j = Asking("reset", g, FirstMac(g), 0)
    OBVIOUS
  <2>4. \A i \in 1..Len(ops) : IsOp(j, asked + 1, ops[i], Len(ops) - i)
    BY <2>1, <2>3, OneOp
  <2>5. IsList(ops) /\ ops # <<>>
    BY <2>1, OneOp
  <2> HIDE DEF IsOp, Op, Indexed, Backoff, Ignored
  <2>. QED
    BY <2>2, <2>3, <2>4, <2>5, BegunShape
<1>8. ASSUME NEW g \in Groups, Bind(g, TRUE) PROVE JobShape'
  <2>1. PICK ops : ops = <<Op("bind", g, unbound[1], 0), Ignored(Op("lock", g, unbound[1], 0))>>
    OBVIOUS
  <2>2. Begin("bind", g, unbound[1], HalfSpeed, ops)
    BY <1>8, <2>1, Appended DEF Bind
  <2>3. PICK j : j = Asking("bind", g, unbound[1], HalfSpeed)
    OBVIOUS
  <2>4. \A i \in 1..Len(ops) : IsOp(j, asked + 1, ops[i], Len(ops) - i)
    BY <2>1, <2>3, TwoOps
  <2>5. IsList(ops) /\ ops # <<>>
    BY <2>1, TwoOps
  <2> HIDE DEF IsOp, Op, Indexed, Backoff, Ignored
  <2>. QED
    BY <2>2, <2>3, <2>4, <2>5, BegunShape
<1>9. ASSUME NEW g \in Groups, Bind(g, FALSE) PROVE JobShape'
  <2>1. PICK ops : ops = <<Op("bind", g, unbound[1], 0)>>
    OBVIOUS
  <2>2. Begin("bind", g, unbound[1], HalfSpeed, ops)
    BY <1>9, <2>1 DEF Bind
  <2>3. PICK j : j = Asking("bind", g, unbound[1], HalfSpeed)
    OBVIOUS
  <2>4. \A i \in 1..Len(ops) : IsOp(j, asked + 1, ops[i], Len(ops) - i)
    BY <2>1, <2>3, OneOp
  <2>5. IsList(ops) /\ ops # <<>>
    BY <2>1, OneOp
  <2> HIDE DEF IsOp, Op, Indexed, Backoff, Ignored
  <2>. QED
    BY <2>2, <2>3, <2>4, <2>5, BegunShape
<1>10. ASSUME NEW do \in {"lock", "unlock", "order"}, Broadcast(do) PROVE JobShape'
  <2>1. PICK ops : ops = <<Op(do, 0, 0, 0)>>
    OBVIOUS
  <2>2. Begin(do, 0, 0, 0, ops)
    BY <1>10, <2>1 DEF Broadcast
  <2>3. PICK j : j = Asking(do, 0, 0, 0)
    OBVIOUS
  <2>4. \A i \in 1..Len(ops) : IsOp(j, asked + 1, ops[i], Len(ops) - i)
    BY <2>1, <2>3, OneOp
  <2>5. IsList(ops) /\ ops # <<>>
    BY <2>1, OneOp
  <2> HIDE DEF IsOp, Op, Indexed, Backoff, Ignored
  <2>. QED
    BY <2>2, <2>3, <2>4, <2>5, BegunShape
<1>11. ASSUME NEW g \in BoardGroups, NEW e \in Effects, PaintBoard(g, e) PROVE JobShape'
  BY <1>11 DEF PaintBoard, JobShape
<1>. QED
  BY <1>1, <1>2, <1>3, <1>4, <1>5, <1>6, <1>7, <1>8, <1>9, <1>10, <1>11 DEF Ask

LEMMA PassFound ==
  ASSUME JobShape, InPhase("query") \/ InPhase("scan") \/ InPhase("again") \/ InPhase("sync"),
         NEW phase, NEW n, NEW found, IsList(found), faults' \in Nat, faults' >= faults,
         phase \in {"scan", "again"} => found = <<>>,
         job' = [Pass(phase, n) EXCEPT !.found = found]
  PROVE  /\ IsPass(job', faults') /\ job' # Idle /\ job'.phase = phase /\ job'.n = n
         /\ job'.found = found /\ job'.smooth = job.smooth /\ job'.since = job.since
<1>1. IsPass(job, faults) /\ job # Idle /\ faults \in Nat
  BY WorkingShape DEF InPhase, JobShape
<1>2. /\ job' = [req |-> "discover", phase |-> phase, n |-> n, tried |-> FALSE,
                 found |-> found, smooth |-> job.smooth, since |-> job.since]
  BY <1>1 DEF Pass
<1>3. job.since \in Nat /\ job.since <= faults
  BY <1>1 DEF IsPass
<1>4. /\ job'.phase = phase /\ job'.n = n /\ job'.found = found /\ job'.smooth = job.smooth
      /\ job'.since = job.since /\ job'.req = "discover"
  BY <1>2
<1>5. job' = [req |-> "discover", phase |-> job'.phase, n |-> job'.n, tried |-> job'.tried,
              found |-> job'.found, smooth |-> job'.smooth, since |-> job'.since]
  BY <1>2, <1>4
<1>6. job' # Idle
  BY <1>4 DEF Idle, None
<1>7. job'.since <= faults' /\ job'.since \in Nat
  BY <1>1, <1>3, <1>4
<1>. QED
  BY <1>4, <1>5, <1>6, <1>7 DEF IsPass

\* A pass that goes on with what it has found.
GoneOn(n, tried) == [job EXCEPT !.n = n, !.tried = tried]
LEMMA PassGoesOn ==
  ASSUME JobShape, job.req = "discover", NEW n, NEW tried, faults' \in Nat, faults' >= faults,
         job' = GoneOn(n, tried)
  PROVE  /\ IsPass(job', faults') /\ job' # Idle /\ job'.phase = job.phase /\ job'.n = n
         /\ job'.found = job.found /\ job'.smooth = job.smooth /\ job'.since = job.since
<1>1. IsPass(job, faults) /\ job # Idle /\ faults \in Nat
  BY WorkingShape DEF JobShape
<1>2. /\ job' = [req |-> "discover", phase |-> job.phase, n |-> n, tried |-> tried,
                 found |-> job.found, smooth |-> job.smooth, since |-> job.since]
  BY <1>1 DEF IsPass, GoneOn
<1>3. job.since \in Nat /\ job.since <= faults
  BY <1>1 DEF IsPass
<1>4. /\ job'.phase = job.phase /\ job'.n = n /\ job'.found = job.found /\ job'.smooth = job.smooth
      /\ job'.since = job.since /\ job'.req = "discover"
  BY <1>2
<1>5. job' = [req |-> "discover", phase |-> job'.phase, n |-> job'.n, tried |-> job'.tried,
              found |-> job'.found, smooth |-> job'.smooth, since |-> job'.since]
  BY <1>2, <1>4
<1>6. job' # Idle
  BY <1>4 DEF Idle, None
<1>7. job'.since <= faults' /\ job'.since \in Nat
  BY <1>1, <1>3, <1>4
<1>8. IsList(job'.found) /\ (job'.phase \in {"scan", "again"} => job'.found = <<>>)
  BY <1>1, <1>4 DEF IsPass
<1>. QED
  BY <1>4, <1>5, <1>6, <1>7, <1>8 DEF IsPass

-----------------------------------------------------------------------------
(* The frames of a script, and what a receiver makes of them. *)

LEMMA Repeated ==
  ASSUME NEW n \in Nat, NEW x
  PROVE  /\ Times(n, x) \in Seq({x}) /\ Len(Times(n, x)) = n
         /\ \A i \in 1..n : Times(n, x)[i] = x
  BY DEF Times

LEMMA Joined ==
  ASSUME NEW s, NEW t, IsList(s), IsList(t), NEW u, u = s \o t
  PROVE  /\ IsList(u) /\ Len(u) = Len(s) + Len(t) /\ Len(s) \in Nat /\ Len(t) \in Nat
         /\ \A i \in 1..Len(u) : u[i] = IF i <= Len(s) THEN s[i] ELSE t[i - Len(s)]
<1>1. PICK S, T : s \in Seq(S) /\ t \in Seq(T)
  BY DEF IsList
<1>2. s \in Seq(S \cup T) /\ t \in Seq(S \cup T)
  BY <1>1
<1>3. u \in Seq(S \cup T)
  BY <1>2
<1>. QED
  BY <1>2, <1>3 DEF IsList

LEMMA Counts ==
  /\ Parts \in Nat \ {0} /\ MetaRepeats \in Nat \ {0} /\ SpeedRepeats \in Nat \ {0}
  /\ BindRepeats \in Nat \ {0} /\ LockRepeats \in Nat \ {0} /\ PageSize \in Nat \ {0}
  /\ SpeedRepeats > 1 /\ BindRepeats > 1 /\ LockRepeats > 1
  BY CountsAssumption, RepeatsAssumption

LEMMA UploadFrames ==
  ASSUME NEW op, op.do = "upload"
  PROVE  /\ Len(Script(op)) = MetaRepeats + Parts
         /\ \A i \in 1..Len(Script(op)) :
              Script(op)[i] = IF i <= MetaRepeats THEN Meta(op) ELSE DataPart(op, i - MetaRepeats)
<1>. DEFINE m == Times(MetaRepeats, Meta(op))
            d == [i \in 1..Parts |-> DataPart(op, i)]
<1>1. m \in Seq({Meta(op)}) /\ Len(m) = MetaRepeats /\ \A i \in 1..MetaRepeats : m[i] = Meta(op)
  BY Counts, Repeated
<1>2. d \in Seq({DataPart(op, i) : i \in 1..Parts}) /\ Len(d) = Parts
      /\ \A i \in 1..Parts : d[i] = DataPart(op, i)
  BY Counts
<1>3. Script(op) = m \o d
  BY DEF Script, UploadScript
<1>8. IsList(m) /\ IsList(d)
  BY <1>1, <1>2 DEF IsList
<1>4. PICK u : u = m \o d
  OBVIOUS
<1> HIDE DEF m, d
<1>5. /\ Len(u) = Len(m) + Len(d)
      /\ \A i \in 1..Len(u) : u[i] = IF i <= Len(m) THEN m[i] ELSE d[i - Len(m)]
  BY <1>4, <1>8, Joined
<1>6. Len(u) = MetaRepeats + Parts
  BY <1>1, <1>2, <1>5
<1>7. ASSUME NEW i \in 1..Len(u)
      PROVE  u[i] = IF i <= MetaRepeats THEN Meta(op) ELSE DataPart(op, i - MetaRepeats)
  <2>1. i <= MetaRepeats => i \in 1..MetaRepeats
    BY Counts, <1>6
  <2>2. ~(i <= MetaRepeats) => i - MetaRepeats \in 1..Parts
    BY Counts, <1>6
  <2>. QED
    BY <1>1, <1>2, <1>5, <2>1, <2>2
<1>. QED
  BY <1>3, <1>4, <1>6, <1>7

LEMMA SpeedFrames ==
  ASSUME NEW op
  PROVE  /\ op.do = "speed" =>
              /\ Len(Script(op)) = SpeedRepeats
              /\ \A i \in 1..Len(Script(op)) :
                   Script(op)[i] = Assign(op.group, op.mac, Tx, op.group, op.arg)
         /\ op.do = "pump" =>
              /\ Len(Script(op)) = SpeedRepeats
              /\ \A i \in 1..Len(Script(op)) : Script(op)[i] = PumpParam(op)
         /\ op.do = "unbind" =>
              /\ Len(Script(op)) = BindRepeats
              /\ \A i \in 1..Len(Script(op)) :
                   Script(op)[i] = Assign(op.group, op.mac, None, Free, 0)
  BY Counts, Repeated DEF Script, SpeedScript, PumpScript, UnbindScript

LEMMA FewFrames ==
  ASSUME NEW op
  PROVE  /\ op.do = "mbOn" =>
              /\ Len(Script(op)) = 2
              /\ \A i \in 1..Len(Script(op)) :
                   Script(op)[i] = IF i = 1 THEN Clock
                                   ELSE Assign(op.group, op.mac, Tx, op.group, SpeedMin)
         /\ op.do = "lock" => /\ Len(Script(op)) = 1
                              /\ \A i \in 1..Len(Script(op)) : Script(op)[i] = Lock
         /\ op.do \in {"unlock", "order"} =>
              /\ Len(Script(op)) = 1 /\ \A i \in 1..Len(Script(op)) : Script(op)[i] = Clock
         /\ op.do = "reset" => /\ Len(Script(op)) = 1
                               /\ \A i \in 1..Len(Script(op)) : Script(op)[i] = LcdReset(op)
         /\ op.do = "listen" => Len(Script(op)) = 0
<1>. PICK q : q = Script(op)
  OBVIOUS
<1>1. ASSUME op.do = "mbOn"
      PROVE  Len(q) = 2 /\ \A i \in 1..Len(q) :
               q[i] = IF i = 1 THEN Clock ELSE Assign(op.group, op.mac, Tx, op.group, SpeedMin)
  <2>1. q = <<Clock, Assign(op.group, op.mac, Tx, op.group, SpeedMin)>>
    BY <1>1 DEF Script, MbOnScript
  <2>. QED
    BY <2>1, TwoOps
<1>2. ASSUME NEW x, q = <<x>>
      PROVE  Len(q) = 1 /\ \A i \in 1..Len(q) : q[i] = x
  BY <1>2, OneOp
<1>3. /\ op.do = "lock" => q = <<Lock>>
      /\ op.do \in {"unlock", "order"} => q = <<Clock>>
      /\ op.do = "reset" => q = <<LcdReset(op)>>
      /\ op.do = "listen" => q = <<>>
  BY DEF Script
<1>4. q = <<>> => Len(q) = 0
  OBVIOUS
<1>. QED
  BY <1>1, <1>2, <1>3, <1>4

LEMMA ReleaseFrames ==
  ASSUME NEW op, op.do = "mbOff"
  PROVE  /\ Len(Script(op)) = 1 + BindRepeats
         /\ \A i \in 1..Len(Script(op)) : Script(op)[i] \in {Clock, Release(op)}
<1>. DEFINE c == <<Clock>>
            r == Times(BindRepeats, Release(op))
<1>1. /\ c \in Seq({Clock}) /\ Len(c) = 1 /\ c[1] = Clock
      /\ r \in Seq({Release(op)}) /\ Len(r) = BindRepeats /\ \A i \in 1..BindRepeats : r[i] = Release(op)
  BY Counts, Repeated
<1>2. Script(op) = c \o r
  BY DEF Script, MbOffScript
<1>3. IsList(c) /\ IsList(r)
  BY <1>1 DEF IsList
<1>4. PICK u : u = c \o r
  OBVIOUS
<1> HIDE DEF c, r
<1>5. /\ Len(u) = Len(c) + Len(r)
      /\ \A i \in 1..Len(u) : u[i] = IF i <= Len(c) THEN c[i] ELSE r[i - Len(c)]
  BY <1>3, <1>4, Joined
<1>6. ASSUME NEW i \in 1..Len(u) PROVE u[i] \in {Clock, Release(op)}
  <2>1. i <= 1 => i = 1
    OBVIOUS
  <2>2. ~(i <= 1) => i - 1 \in 1..BindRepeats
    BY Counts, <1>1, <1>5
  <2>. QED
    BY <1>1, <1>5, <2>1, <2>2
<1>7. Len(u) = 1 + BindRepeats
  BY Counts, <1>1, <1>5
<1>. QED
  BY <1>2, <1>4, <1>6, <1>7

LEMMA BindFrames ==
  ASSUME NEW op, op.do = "bind"
  PROVE  /\ Len(Script(op)) = 1 + 2 * BindRepeats + LockRepeats
         /\ \A i \in 1..Len(Script(op)) :
              Script(op)[i] = IF i = 1 THEN Clock
                              ELSE IF i <= 1 + 2 * BindRepeats
                              THEN Assign(IF (i - 1) % 2 = 1 THEN Free ELSE All, op.mac, Tx,
                                          op.group, HalfSpeed)
                              ELSE Lock
<1>. DEFINE A(i) == Assign(IF i % 2 = 1 THEN Free ELSE All, op.mac, Tx, op.group, HalfSpeed)
            clock == <<Clock>>
            assigns == [i \in 1..2 * BindRepeats |-> A(i)]
            locks == Times(LockRepeats, Lock)
            n == 2 * BindRepeats
<1>0. n \in Nat /\ n > 1 /\ LockRepeats \in Nat
  BY Counts
<1>1. clock \in Seq({Clock}) /\ Len(clock) = 1 /\ clock[1] = Clock
  OBVIOUS
<1>2. assigns \in Seq({A(i) : i \in 1..n}) /\ Len(assigns) = n /\ \A i \in 1..n : assigns[i] = A(i)
  BY <1>0
<1>3. locks \in Seq({Lock}) /\ Len(locks) = LockRepeats /\ \A i \in 1..LockRepeats : locks[i] = Lock
  BY Counts, Repeated
<1>4. Script(op) = (clock \o assigns) \o locks
  BY DEF Script, BindScript
<1>7. \A i \in 1..n : assigns[i] = A(i)
  BY <1>2
<1>12. IsList(assigns) /\ IsList(clock) /\ IsList(locks)
  BY <1>1, <1>2, <1>3 DEF IsList
<1> HIDE DEF assigns, clock, locks, A, n
<1>5. PICK u : u = clock \o assigns
  OBVIOUS
<1>8. IsList(u) /\ Len(u) = Len(clock) + Len(assigns)
  BY <1>5, <1>12, Joined
<1>13. \A i \in 1..Len(u) : u[i] = IF i <= Len(clock) THEN clock[i] ELSE assigns[i - Len(clock)]
  BY <1>5, <1>12, Joined
<1>6. PICK v : v = u \o locks
  OBVIOUS
<1>9. Len(v) = Len(u) + Len(locks)
  BY <1>6, <1>8, <1>12, Joined
<1>14. \A i \in 1..Len(v) : v[i] = IF i <= Len(u) THEN u[i] ELSE locks[i - Len(u)]
  BY <1>6, <1>8, <1>12, Joined
<1>10. Len(u) = 1 + n /\ Len(v) = 1 + n + LockRepeats
  BY <1>0, <1>1, <1>2, <1>3, <1>8, <1>9
<1>11. ASSUME NEW i \in 1..Len(v)
       PROVE  v[i] = IF i = 1 THEN Clock ELSE IF i <= 1 + n THEN A(i - 1) ELSE Lock
  <2>1. CASE i = 1
    <3>1. i \in 1..Len(u) /\ i <= Len(clock) /\ i <= Len(u)
      BY <2>1, <1>0, <1>1, <1>10
    <3>. QED
      BY <3>1, <2>1, <1>1, <1>13, <1>14
  <2>2. CASE i # 1 /\ i <= 1 + n
    <3>1. i \in 1..Len(u) /\ ~(i <= Len(clock)) /\ i - 1 \in 1..n
      BY <2>2, <1>0, <1>1, <1>10
    <3>. QED
      BY <3>1, <2>2, <1>1, <1>7, <1>13, <1>14, <1>10
  <2>3. CASE ~(i <= 1 + n)
    <3>1. i - Len(u) \in 1..LockRepeats /\ i # 1
      BY <2>3, <1>0, <1>10
    <3>. QED
      BY <3>1, <2>3, <1>3, <1>14, <1>10
  <2>. QED
    BY <2>1, <2>2, <2>3
<1>. QED
  BY <1>4, <1>5, <1>6, <1>10, <1>11 DEF A, n

LEMMA ScriptLength ==
  ASSUME NEW j, NEW a, NEW op, NEW left, IsOp(j, a, op, left)
  PROVE  Len(Script(op)) \in Nat
<1>1. op.do \in {"listen", "upload", "speed", "pump", "mbOn", "mbOff", "bind", "unbind", "lock",
                 "unlock", "order", "reset"}
  BY DEF IsOp, ToAll
<1>2. CASE op.do \in {"speed", "pump", "unbind"}
  BY <1>2, SpeedFrames, Counts
<1>3. CASE op.do \in {"mbOn", "lock", "unlock", "order", "reset", "listen"}
  BY <1>3, FewFrames
<1>4. CASE op.do = "upload"
  BY <1>4, UploadFrames, Counts
<1>5. CASE op.do = "mbOff"
  BY <1>5, ReleaseFrames, Counts
<1>6. CASE op.do = "bind"
  BY <1>6, BindFrames, Counts
<1>. QED
  BY <1>1, <1>2, <1>3, <1>4, <1>5, <1>6

-----------------------------------------------------------------------------
IsReceiver(r) ==
  r = [on |-> r.on, master |-> r.master, group |-> r.group, channel |-> r.channel, kept |-> r.kept,
       pwm |-> r.pwm, mb |-> r.mb, seq |-> r.seq, index |-> r.index, parts |-> r.parts,
       shows |-> r.shows]

\* What a receiver does with each frame.
LEMMA Obeys ==
  ASSUME NEW r, IsReceiver(r), NEW frame, NEW s, s = Obey(r, frame)
  PROVE  IsReceiver(s) /\ s.on = r.on /\ s.channel = r.channel
<1>1. CASE frame.cmd = "assign"
  BY <1>1 DEF IsReceiver, Obey
<1>2. CASE frame.cmd = "aio"
  BY <1>2 DEF IsReceiver, Obey
<1>3. CASE frame.cmd = "release"
  BY <1>3 DEF IsReceiver, Obey
<1>4. CASE frame.cmd = "lock"
  BY <1>4 DEF IsReceiver, Obey
<1>5. CASE frame.cmd = "meta"
  BY <1>5 DEF IsReceiver, Obey
<1>6. CASE frame.cmd = "data"
  BY <1>6 DEF IsReceiver, Obey
<1>7. CASE frame.cmd \notin {"assign", "aio", "release", "lock", "meta", "data"}
  BY <1>7 DEF IsReceiver, Obey
<1>. QED
  BY <1>1, <1>2, <1>3, <1>4, <1>5, <1>6, <1>7

LEMMA ObeysAssign ==
  ASSUME NEW r, IsReceiver(r), NEW frame, NEW s, s = Obey(r, frame), frame.cmd = "assign"
  PROVE  /\ s.master = frame.master /\ s.group = frame.group /\ s.pwm = frame.arg
         /\ frame.arg = SpeedMin => s.mb
         /\ frame.master = r.master /\ frame.group = r.group /\ r.kept => s.kept
  BY DEF IsReceiver, Obey

LEMMA ObeysOther ==
  ASSUME NEW r, IsReceiver(r), NEW frame, NEW s, s = Obey(r, frame), frame.cmd # "assign"
  PROVE  /\ s.master = r.master /\ s.group = r.group /\ (r.kept => s.kept)
         /\ s.pwm = IF frame.cmd = "aio" /\ r.master = Tx THEN frame.arg ELSE r.pwm
         /\ frame.cmd = "lock" /\ r.master = Tx => s.kept
<1>2. CASE frame.cmd = "aio"
  BY <1>2 DEF IsReceiver, Obey
<1>3. CASE frame.cmd = "release"
  BY <1>3 DEF IsReceiver, Obey
<1>4. CASE frame.cmd = "lock"
  BY <1>4 DEF IsReceiver, Obey
<1>5. CASE frame.cmd = "meta"
  BY <1>5 DEF IsReceiver, Obey
<1>6. CASE frame.cmd = "data"
  BY <1>6 DEF IsReceiver, Obey
<1>7. CASE frame.cmd \notin {"assign", "aio", "release", "lock", "meta", "data"}
  BY <1>7 DEF IsReceiver, Obey
<1>. QED
  BY <1>2, <1>3, <1>4, <1>5, <1>6, <1>7

LEMMA ObeysAside ==
  ASSUME NEW r, IsReceiver(r), NEW frame, NEW s, s = Obey(r, frame),
         frame.cmd \notin {"meta", "data"}
  PROVE  s.index = r.index /\ s.parts = r.parts /\ s.shows = r.shows
<1>1. CASE frame.cmd = "assign"
  BY <1>1 DEF IsReceiver, Obey
<1>2. CASE frame.cmd = "aio"
  BY <1>2 DEF IsReceiver, Obey
<1>3. CASE frame.cmd = "release"
  BY <1>3 DEF IsReceiver, Obey
<1>4. CASE frame.cmd = "lock"
  BY <1>4 DEF IsReceiver, Obey
<1>7. CASE frame.cmd \notin {"assign", "aio", "release", "lock", "meta", "data"}
  BY <1>7 DEF IsReceiver, Obey
<1>. QED
  BY <1>1, <1>2, <1>3, <1>4, <1>7

LEMMA ObeysMeta ==
  ASSUME NEW r, IsReceiver(r), NEW frame, NEW s, s = Obey(r, frame), frame.cmd = "meta"
  PROVE  /\ s.index = frame.arg.index /\ s.shows = r.shows
         /\ s.parts = IF r.index = frame.arg.index THEN r.parts ELSE {}
  BY DEF IsReceiver, Obey

LEMMA ObeysData ==
  ASSUME NEW r, IsReceiver(r), NEW frame, NEW s, s = Obey(r, frame), frame.cmd = "data"
  PROVE  /\ s.index = r.index
         /\ r.index # frame.arg.index => s.parts = r.parts /\ s.shows = r.shows
  BY DEF IsReceiver, Obey

LEMMA ObeysPart ==
  ASSUME NEW r, IsReceiver(r), NEW frame, NEW s, s = Obey(r, frame), frame.cmd = "data",
         r.index = frame.arg.index
  PROVE  /\ s.parts = r.parts \cup {frame.arg.part}
         /\ s.shows = IF s.parts = 1..Parts THEN frame.arg.effect ELSE r.shows
  BY DEF IsReceiver, Obey

-----------------------------------------------------------------------------
(* The shape of the handles, the receivers and the registry. *)

HandleShape ==
  /\ handle \in [Sides -> {"open", "silent", "broken"}] /\ plugged \in [Sides -> BOOLEAN]
  /\ \A s \in Sides : plugged[s] \/ handle[s] = "broken"

\* The receivers that are ours are in a group of ours.
FanShape ==
  /\ fan = [f \in Fans |-> fan[f]]
  /\ \A f \in Fans : IsReceiver(fan[f]) /\ (fan[f].master = Tx => fan[f].group \in Groups)

IsGroup(r) ==
  \/ r = NoGroup
  \/ /\ r = [macs |-> r.macs, speed |-> r.speed, rgb |-> r.rgb, pump |-> r.pump, seq |-> r.seq]
     /\ IsList(r.macs)
RegistryShape ==
  /\ registry = [g \in Groups \cup BoardGroups |-> registry[g]]
  /\ \A g \in Groups \cup BoardGroups : IsGroup(registry[g])
  /\ boards \subseteq BoardGroups

WorldShape == HandleShape /\ FanShape /\ RegistryShape

LEMMA KeptHandle ==
  ASSUME HandleShape, UNCHANGED <<handle, plugged>>
  PROVE  HandleShape'
  BY DEF HandleShape
LEMMA KeptFan ==
  ASSUME FanShape, UNCHANGED fan
  PROVE  FanShape'
  BY DEF FanShape
LEMMA KeptRegistry ==
  ASSUME RegistryShape, UNCHANGED <<registry, boards>>
  PROVE  RegistryShape'
  BY DEF RegistryShape

LEMMA OpenedHandle ==
  ASSUME HandleShape, UNCHANGED plugged, NEW s \in Sides, handle' = [handle EXCEPT ![s] = Reopen(s)]
  PROVE  HandleShape'
  BY DEF HandleShape, Reopen
LEMMA RxHandle ==
  ASSUME HandleShape, UNCHANGED plugged, handle' = [handle EXCEPT !.rx = RxAfterQuery.handle]
  PROVE  HandleShape'
<1>1. CASE handle.rx = "silent" /\ host.timeouts >= StaleLimit
  <2>1. handle' = [handle EXCEPT !["rx"] = Reopen("rx")]
    BY <1>1 DEF RxAfterQuery
  <2>. QED
    BY <2>1, OpenedHandle DEF Sides
<1>2. CASE ~(handle.rx = "silent" /\ host.timeouts >= StaleLimit)
  <2>1. handle' = handle
    BY <1>2 DEF RxAfterQuery, HandleShape
  <2>. QED
    BY <2>1, KeptHandle
<1>. QED
  BY <1>1, <1>2
LEMMA DrainedHandle ==
  ASSUME HandleShape, UNCHANGED plugged, DrainRx
  PROVE  HandleShape'
<1>1. handle' = handle \/ handle' = [handle EXCEPT !["rx"] = Reopen("rx")]
  BY DEF DrainRx
<1>. QED
  BY <1>1, OpenedHandle, KeptHandle DEF Sides

LEMMA HeardShape ==
  ASSUME FanShape, NEW frame, frame.cmd = "assign" /\ frame.master = Tx => frame.group \in Groups,
         fan' = [f \in Fans |-> fan'[f]],
         \A f \in Fans : fan'[f] = fan[f] \/ fan'[f] = Obey(fan[f], frame)
  PROVE  FanShape'
<1>1. ASSUME NEW f \in Fans
      PROVE  IsReceiver(fan'[f]) /\ (fan'[f].master = Tx => fan'[f].group \in Groups)
  <2>1. IsReceiver(fan[f]) /\ (fan[f].master = Tx => fan[f].group \in Groups)
    BY DEF FanShape
  <2>2. CASE fan'[f] = fan[f]
    BY <2>1, <2>2
  <2>3. CASE fan'[f] = Obey(fan[f], frame)
    <3>1. PICK r, s : r = fan[f] /\ s = fan'[f] /\ s = Obey(r, frame) /\ IsReceiver(r)
      BY <2>1, <2>3
    <3>2. IsReceiver(s)
      BY <3>1, Obeys
    <3>3. frame.cmd = "assign" => s.master = frame.master /\ s.group = frame.group
      BY <3>1, ObeysAssign
    <3>4. frame.cmd # "assign" => s.master = r.master /\ s.group = r.group
      BY <3>1, ObeysOther
    <3>. QED
      BY <2>1, <3>1, <3>2, <3>3, <3>4
  <2>. QED
    BY <2>2, <2>3
<1>. QED
  BY <1>1 DEF FanShape

\* A frame that makes a receiver ours puts it into a group of ours.
LEMMA AssignedGroup ==
  ASSUME JobShape, Working, NEW at \in 1..Len(Script(job.ops[1])), NEW frame,
         frame = Script(job.ops[1])[at], frame.cmd = "assign", frame.master = Tx
  PROVE  frame.group \in Groups
<1>1. IsRequest(job, asked)
  BY WorkingShape
<1>2. IsOp(job, asked, job.ops[1], Len(job.ops) - 1)
  <2>1. PICK S : job.ops \in Seq(S)
    BY <1>1 DEF IsRequest, IsList
  <2>2. 1 \in 1..Len(job.ops)
    BY <2>1, <1>1 DEF IsRequest
  <2>. QED
    BY <1>1, <2>2 DEF IsRequest
<1>. PICK op : op = job.ops[1]
  OBVIOUS
<1>0. at \in 1..Len(Script(op)) /\ frame = Script(op)[at]
  OBVIOUS
<1>3. op.group = job.group /\ (job.req \in ToGroup => job.group \in Groups)
  BY <1>1, <1>2 DEF IsOp, IsRequest
<1>4. \/ op.do \in {"listen", "upload", "speed", "pump", "mbOn", "mbOff", "bind", "unbind"} /\ job.req \in ToGroup
      \/ op.do \in {"lock", "unlock", "order", "reset"}
  BY <1>2 DEF IsOp, ToGroup, ToAll
<1>5. CASE op.do \in {"lock", "unlock", "order", "reset", "listen"}
  <2>1. frame \in {Lock, Clock, LcdReset(op)}
    BY <1>0, <1>5, FewFrames
  <2>. QED
    BY <2>1 DEF Lock, Clock, LcdReset, Frame
<1>6. CASE op.do = "upload"
  <2>1. frame = Meta(op) \/ frame = DataPart(op, at - MetaRepeats)
    BY <1>0, <1>6, UploadFrames
  <2>. QED
    BY <2>1 DEF Meta, DataPart, Frame
<1>7. CASE op.do \in {"speed", "pump", "unbind"}
  <2>1. frame \in {Assign(op.group, op.mac, Tx, op.group, op.arg), PumpParam(op),
                   Assign(op.group, op.mac, None, Free, 0)}
    BY <1>0, <1>7, SpeedFrames
  <2>. QED
    BY <1>3, <1>4, <1>7, <2>1 DEF Assign, PumpParam, Frame, None, Tx
<1>8. CASE op.do = "mbOn"
  <2>1. frame = Clock \/ frame = Assign(op.group, op.mac, Tx, op.group, SpeedMin)
    BY <1>0, <1>8, FewFrames
  <2>. QED
    BY <1>3, <1>4, <1>8, <2>1 DEF Assign, Clock, Frame
<1>9. CASE op.do = "mbOff"
  <2>1. frame \in {Clock, Release(op)}
    BY <1>0, <1>9, ReleaseFrames
  <2>. QED
    BY <2>1 DEF Clock, Release, Frame
<1>10. CASE op.do = "bind"
  <2>1. \/ frame = Clock \/ frame = Lock
        \/ \E rx : frame = Assign(rx, op.mac, Tx, op.group, HalfSpeed)
    BY <1>0, <1>10, BindFrames
  <2>2. (\E rx : frame = Assign(rx, op.mac, Tx, op.group, HalfSpeed)) => frame.group = op.group
    BY DEF Assign
  <2>3. frame # Clock /\ frame # Lock
    BY DEF Clock, Lock, Frame
  <2>. QED
    BY <1>3, <1>4, <1>10, <2>1, <2>2, <2>3
<1>. QED
  BY <1>4, <1>5, <1>6, <1>7, <1>8, <1>9, <1>10

-----------------------------------------------------------------------------
LEMMA FirstOp ==
  ASSUME JobShape, Working
  PROVE  /\ IsRequest(job, asked) /\ job # Idle
         /\ Head(job.ops) = job.ops[1] /\ IsOp(job, asked, job.ops[1], Len(job.ops) - 1)
         /\ Len(job.ops) \in Nat \ {0}
<1>1. IsRequest(job, asked) /\ job # Idle
  BY WorkingShape
<1>2. PICK S : job.ops \in Seq(S)
  BY <1>1 DEF IsRequest, IsList
<1>3. job.ops # <<>>
  BY <1>1 DEF IsRequest
<1>4. 1 \in 1..Len(job.ops) /\ Len(job.ops) \in Nat \ {0} /\ Head(job.ops) = job.ops[1]
  BY <1>2, <1>3
<1>. QED
  BY <1>1, <1>4 DEF IsRequest

\* A frame goes out: every receiver stays as it is or obeys it.
SentFrame(frame) ==
  /\ job.at \in 1..Len(Script(job.ops[1])) /\ frame = Script(job.ops[1])[job.at]
  /\ fan' = [f \in Fans |-> fan'[f]]
  /\ \A f \in Fans :
       fan'[f] = IF Listens(f, frame) /\ (job'.lost # job.lost => job.mac # f)
                 THEN Obey(fan[f], frame) ELSE fan[f]
  /\ job' = Resent(job, job.at + 1, job.tried, job'.lost)
  /\ \/ job'.lost = job.lost /\ faults' = faults
     \/ job'.lost = job.lost + 1 /\ faults' = faults + 1

LEMMA SendFrame ==
  ASSUME JobShape, Send
  PROVE  \E frame : SentFrame(frame)
<1>1. IsRequest(job, asked) /\ Head(job.ops) = job.ops[1]
  BY FirstOp DEF Send
<1>2. PICK frame : frame = Script(job.ops[1])[job.at]
  OBVIOUS
<1>3. job.at \in 1..Len(Script(job.ops[1]))
  <2>1. Len(Script(job.ops[1])) \in Nat
    BY FirstOp, ScriptLength DEF Send
  <2>. QED
    BY <1>1, <2>1 DEF Send, IsRequest
<1>4. /\ job = [req |-> job.req, group |-> job.group, mac |-> job.mac, arg |-> job.arg,
                ops |-> job.ops, at |-> job.at, tried |-> job.tried, lost |-> job.lost,
                members |-> job.members]
      /\ job.lost \in Nat
  BY <1>1 DEF IsRequest
<1>5. CASE /\ fan' = [f \in Fans |-> IF Listens(f, frame) THEN Obey(fan[f], frame) ELSE fan[f]]
           /\ job' = [job EXCEPT !.at = @ + 1] /\ UNCHANGED faults
  <2>1. job' = [req |-> job.req, group |-> job.group, mac |-> job.mac, arg |-> job.arg,
                ops |-> job.ops, at |-> job.at + 1, tried |-> job.tried, lost |-> job.lost,
                members |-> job.members]
    BY <1>4, <1>5
  <2>2. PICK k : k = Resent(job, job.at + 1, job.tried, job.lost)
    OBVIOUS
  <2>4. k = [req |-> job.req, group |-> job.group, mac |-> job.mac, arg |-> job.arg,
             ops |-> job.ops, at |-> job.at + 1, tried |-> job.tried, lost |-> job.lost,
             members |-> job.members]
    BY <1>1, <1>4, <2>2, ResentRecord
  <2>3. job'.lost = job.lost /\ job' = Resent(job, job.at + 1, job.tried, job.lost)
    BY <2>1, <2>2, <2>4
  <2>. QED
    BY <1>2, <1>3, <1>5, <2>3 DEF SentFrame
<1>6. CASE /\ fan' = [f \in Fans |-> IF Listens(f, frame) /\ job.mac # f
                                    THEN Obey(fan[f], frame) ELSE fan[f]]
           /\ faults' = faults + 1 /\ job' = [job EXCEPT !.at = @ + 1, !.lost = @ + 1]
  <2>1. job' = [req |-> job.req, group |-> job.group, mac |-> job.mac, arg |-> job.arg,
                ops |-> job.ops, at |-> job.at + 1, tried |-> job.tried, lost |-> job.lost + 1,
                members |-> job.members]
    BY <1>4, <1>6
  <2>2. PICK k : k = Resent(job, job.at + 1, job.tried, job.lost + 1)
    OBVIOUS
  <2>4. k = [req |-> job.req, group |-> job.group, mac |-> job.mac, arg |-> job.arg,
             ops |-> job.ops, at |-> job.at + 1, tried |-> job.tried, lost |-> job.lost + 1,
             members |-> job.members]
    BY <1>1, <1>4, <2>2, ResentRecord
  <2>3. /\ job'.lost = job.lost + 1 /\ job'.lost # job.lost
        /\ job' = Resent(job, job.at + 1, job.tried, job.lost + 1)
    BY <1>4, <2>1, <2>2, <2>4
  <2>. QED
    BY <1>2, <1>3, <1>6, <2>3 DEF SentFrame
<1>. QED
  BY <1>1, <1>2, <1>5, <1>6 DEF Send

LEMMA SendShape ==
  ASSUME JobShape, WorldShape, Send
  PROVE  JobShape' /\ WorldShape'
<1>1. PICK frame : SentFrame(frame)
  BY SendFrame
<1>2. Working /\ UNCHANGED <<handle, plugged, registry, boards, asked>>
  BY DEF Send
<1>3. IsRequest(job, asked) /\ faults \in Nat /\ asked \in Nat
  BY <1>2, FirstOp DEF JobShape
<1>4. job.at + 1 \in Nat \ {0} /\ job'.lost \in Nat /\ faults' \in Nat
  BY <1>1, <1>3 DEF SentFrame, IsRequest
<1>5. IsRequest(job', asked')
  BY <1>1, <1>2, <1>3, <1>4, SentShape DEF SentFrame
<1>6. frame.cmd = "assign" /\ frame.master = Tx => frame.group \in Groups
  BY <1>1, <1>2, AssignedGroup DEF SentFrame
<1>7. FanShape'
  BY <1>1, <1>6, HeardShape DEF SentFrame, WorldShape
<1>. QED
  BY <1>2, <1>3, <1>4, <1>5, <1>7, KeptHandle, KeptRegistry DEF JobShape, WorldShape

LEMMA NextOpShape ==
  ASSUME JobShape, Working, Len(job.ops) # 1, job' = NextOp, UNCHANGED asked, UNCHANGED faults
  PROVE  JobShape'
<1>1. IsRequest(job, asked)
  BY FirstOp
<1>2. IsRequest(job', asked)
  BY <1>1, NextShape DEF NextOp
<1>. QED
  BY <1>2 DEF JobShape

LEMMA IdleShape ==
  ASSUME JobShape, job' = Idle, UNCHANGED asked, UNCHANGED faults
  PROVE  JobShape'
  BY DEF JobShape

LEMMA RecordedShape ==
  ASSUME RegistryShape, NEW op, registry' = Recorded(op), UNCHANGED boards
  PROVE  RegistryShape'
<1>1. CASE registry' = registry
  BY <1>1, KeptRegistry
<1>2. CASE job.group \in Groups /\ Known(job.group) /\ registry' # registry
  <2>1. \/ \E p : registry' = [registry EXCEPT ![job.group].speed = p]
        \/ \E e : registry' = [registry EXCEPT ![job.group].rgb = e]
    BY <1>2 DEF Recorded
  <2>2. /\ job.group \in Groups \cup BoardGroups /\ IsGroup(registry[job.group])
        /\ registry[job.group] # NoGroup
    BY <1>2 DEF RegistryShape, Known
  <2>3. CASE \E p : registry' = [registry EXCEPT ![job.group].speed = p]
    BY <2>2, <2>3 DEF RegistryShape, IsGroup
  <2>4. CASE \E e : registry' = [registry EXCEPT ![job.group].rgb = e]
    BY <2>2, <2>4 DEF RegistryShape, IsGroup
  <2>. QED
    BY <2>1, <2>3, <2>4
<1>. QED
  BY <1>1, <1>2 DEF Recorded

LEMMA SentKeepsShape ==
  ASSUME JobShape, WorldShape, Sent
  PROVE  JobShape' /\ WorldShape'
<1>1. JobShape'
  BY NextOpShape, IdleShape DEF Sent
<1>2. HandleShape'
  BY DrainedHandle, KeptHandle DEF Sent, WorldShape
<1>3. RegistryShape' /\ FanShape'
  BY RecordedShape, KeptFan DEF Sent, WorldShape
<1>. QED
  BY <1>1, <1>2, <1>3 DEF WorldShape

LEMMA RecoverHandle ==
  ASSUME HandleShape, UNCHANGED plugged, NEW s \in Sides, Recover(s)
  PROVE  HandleShape'
  BY OpenedHandle DEF Recover

LEMMA SendAgainShape ==
  ASSUME JobShape, WorldShape, SendAgain
  PROVE  JobShape' /\ WorldShape'
<1>1. IsRequest(job, asked)
  BY FirstOp DEF SendAgain, WriteFails
<1>. PICK tried : tried = job'.tried
  OBVIOUS
<1>2. job.lost \in Nat /\ 1 \in Nat \ {0}
  BY <1>1 DEF IsRequest
<1>3. PICK k : k = Resent(job, 1, tried, job.lost)
  OBVIOUS
<1>4. k = [req |-> job.req, group |-> job.group, mac |-> job.mac, arg |-> job.arg, ops |-> job.ops,
           at |-> 1, tried |-> tried, lost |-> job.lost, members |-> job.members]
  BY <1>1, <1>3, ResentRecord
<1>7. IsRequest(k, asked)
  BY <1>1, <1>2, <1>3, SentShape
<1>5. job' = [req |-> job.req, group |-> job.group, mac |-> job.mac, arg |-> job.arg,
              ops |-> job.ops, at |-> 1, tried |-> tried, lost |-> job.lost, members |-> job.members]
  BY <1>1 DEF SendAgain, IsRequest
<1>6. HandleShape'
  BY RecoverHandle DEF SendAgain, WorldShape, Sides
<1>. QED
  BY <1>4, <1>5, <1>6, <1>7, KeptFan, KeptRegistry DEF SendAgain, JobShape, WorldShape

LEMMA GiveUpShape ==
  ASSUME JobShape, WorldShape, GiveUp
  PROVE  JobShape' /\ WorldShape'
<1>1. IsRequest(job, asked) /\ Head(job.ops) = job.ops[1] /\ Working
  BY FirstOp DEF GiveUp, WriteFails
<1>2. \/ job' = Idle
      \/ job' = NextOp /\ Len(job.ops) > 1
      \/ \E t : job' = Retry(job, t)
  BY <1>1 DEF GiveUp, Retry, Retried
<1>3. JobShape'
  <2>1. CASE job' = Idle
    BY <2>1, IdleShape DEF GiveUp
  <2>2. CASE job' = NextOp /\ Len(job.ops) > 1
    <3>1. Len(job.ops) # 1 /\ UNCHANGED <<asked, faults>>
      <4>1. Len(job.ops) \in Nat
        BY <1>1, FirstOp
      <4>3. \A n \in Nat : n > 1 => n # 1
        OBVIOUS
      <4>2. Len(job.ops) # 1
        BY <2>2, <4>1, <4>3
      <4>. QED
        BY <4>2 DEF GiveUp
    <3>. QED
      BY <1>1, <2>2, <3>1, NextOpShape
  <2>3. CASE \E t : job' = Retry(job, t)
    <3>1. IsRequest(job', asked)
      BY <1>1, <2>3, TriedShape
    <3>. QED
      BY <3>1 DEF GiveUp, JobShape
  <2>. QED
    BY <1>2, <2>1, <2>2, <2>3
<1>4. HandleShape'
  BY RecoverHandle, KeptHandle DEF GiveUp, WorldShape, Sides
<1>. QED
  BY <1>3, <1>4, KeptFan, KeptRegistry DEF GiveUp, WorldShape

LEMMA AskWorld ==
  ASSUME JobShape, WorldShape, Ask
  PROVE  WorldShape'
<1>1. UNCHANGED world
  BY DEF Ask, SetRgb, SetSpeed, MbSyncOff, SetPwm, MbSyncOn, Unbind, Reset, Bind, Broadcast,
         PaintBoard, Begin
<1>2. RegistryShape'
  <2>1. CASE UNCHANGED registry
    BY <1>1, <2>1, KeptRegistry DEF world, WorldShape
  <2>2. CASE \E g \in BoardGroups, e \in Effects : PaintBoard(g, e)
    <3>1. PICK g \in BoardGroups, e \in Effects : Known(g) /\ registry' = [registry EXCEPT ![g].rgb = e]
      BY <2>2 DEF PaintBoard
    <3>2. IsGroup(registry[g]) /\ registry[g] # NoGroup
      BY <3>1 DEF WorldShape, RegistryShape, Known
    <3>. QED
      BY <1>1, <3>1, <3>2 DEF WorldShape, RegistryShape, IsGroup, world
  <2>. QED
    BY <2>1, <2>2 DEF Ask, SetRgb, SetSpeed, MbSyncOff, SetPwm, MbSyncOn, Unbind, Reset, Bind,
                      Broadcast, Begin
<1>. QED
  BY <1>1, <1>2, KeptHandle, KeptFan DEF world, WorldShape

LEMMA MishapShape ==
  ASSUME JobShape, WorldShape, Mishap
  PROVE  JobShape' /\ WorldShape'
<1>1. UNCHANGED <<job, asked, fan, registry>> /\ faults' \in Nat /\ faults' >= faults
  BY DEF Mishap, Break, Unplug, PlugIn, Hang, BoardChanges, Strike, JobShape
<1>2. JobShape'
  <2>1. IsPass(job, faults) => IsPass(job', faults')
    BY <1>1 DEF IsPass, JobShape
  <2>. QED
    BY <1>1, <2>1 DEF JobShape
<1>3. boards' \subseteq BoardGroups
  BY DEF Mishap, Break, Unplug, PlugIn, Hang, BoardChanges, WorldShape, RegistryShape
<1>4. HandleShape'
  <2>1. ASSUME NEW s \in Sides, Break(s) \/ Unplug(s) \/ PlugIn(s) PROVE HandleShape'
    BY <2>1 DEF Break, Unplug, PlugIn, WorldShape, HandleShape, Sides
  <2>2. CASE Hang
    BY <2>2 DEF Hang, WorldShape, HandleShape, Sides
  <2>3. ASSUME NEW g \in BoardGroups, BoardChanges(g) PROVE HandleShape'
    BY <2>3, KeptHandle DEF BoardChanges, WorldShape
  <2>. QED
    BY <2>1, <2>2, <2>3 DEF Mishap
<1>. QED
  BY <1>1, <1>2, <1>3, <1>4, KeptFan DEF WorldShape, RegistryShape

-----------------------------------------------------------------------------
(* The discovery pass. *)

Undisturbed == job.smooth /\ job.since = faults
AllOpen == handle = [s \in Sides |-> "open"]

\* While nothing goes wrong the handles stay good, a scan has not missed a receiver, and
\* what was found is all there is on the channel.
PassTruth ==
  job.req = "discover" /\ Undisturbed =>
    /\ AllOpen
    /\ job.phase = "scan" => OnAir(tuned) = {}
    /\ (job.phase = "query" /\ job.n > 1) \/ job.phase = "refresh" =>
         OnAir(tuned) \subseteq RangeOf(job.found)

LinkInv == JobShape /\ WorldShape /\ PassTruth

LEMMA ReportsTruth ==
  ASSUME faults \in Nat, NEW H \in SUBSET Powered, NEW ch, Reports(H, ch)
  PROVE  /\ faults' \in Nat /\ faults' >= faults /\ handle.rx # "broken"
         /\ faults' = faults /\ handle.rx = "open" => H = OnAir(ch)
         /\ IsFiniteSet(H) /\ H \subseteq Nat
<1>. DEFINE A == (H \ OnAir(ch)) \cup (OnAir(ch) \ H)
<1>1. A \in SUBSET Fans /\ H \in SUBSET Fans
  BY DEF OnAir, Powered
<1>2. Amiss(H, ch) = Cardinality(A)
  BY DEF Amiss
<1>3. A = {} => H = OnAir(ch)
  OBVIOUS
<1> HIDE DEF A
<1>10. IsFiniteSet(A) /\ IsFiniteSet(H)
  BY <1>1, FansAssumption, FS_Subset
<1>4. Cardinality(A) \in Nat /\ (Cardinality(A) = 0 <=> A = {})
  BY <1>10, FS_CardinalityType, FS_EmptySet
<1>5. handle.rx = "open" => faults' = faults + Cardinality(A)
  BY <1>2 DEF Reports
<1>6. handle.rx # "open" => faults' = faults
  BY DEF Reports
<1>7. handle.rx # "broken"
  BY DEF Reports
<1>8. faults' \in Nat /\ faults' >= faults
  BY <1>4, <1>5, <1>6
<1>9. faults' = faults /\ handle.rx = "open" => H = OnAir(ch)
  BY <1>3, <1>4, <1>5
<1>. QED
  BY <1>1, <1>10, <1>7, <1>8, <1>9, FansAssumption

\* A query adds all it heard to what was found.
LEMMA FreshAll ==
  ASSUME NEW H, IsFiniteSet(H), H \subseteq Nat, IsList(job.found)
  PROVE  /\ IsList(Fresh(H)) /\ IsList(job.found \o Fresh(H))
         /\ H \subseteq RangeOf(job.found \o Fresh(H))
         /\ job.found = <<>> => H \subseteq RangeOf(Fresh(H))
<1>. PICK news : news = Fresh(H)
  OBVIOUS
<1>. DEFINE D == H \ RangeOf(job.found)
<1>1. IsFiniteSet(D) /\ D \subseteq Nat
  BY FS_Subset
<1>2. D \subseteq H /\ H \subseteq D \cup RangeOf(job.found) /\ news = InOrder(D)
  BY DEF Fresh
<1> HIDE DEF D
<1>3. IsList(news) /\ D \subseteq RangeOf(news)
  BY <1>1, <1>2, InOrderAll
<1>4. /\ IsList(job.found \o news) /\ RangeOf(job.found) \subseteq RangeOf(job.found \o news)
      /\ RangeOf(news) \subseteq RangeOf(job.found \o news)
  BY <1>3, JoinedRange
<1>5. job.found = <<>> => RangeOf(job.found) = {}
  BY DEF RangeOf
<1>. QED
  BY <1>2, <1>3, <1>4, <1>5

\* A pass that goes on stays undisturbed only when nothing happened in the step.
LEMMA StillQuiet ==
  ASSUME JobShape, job.req = "discover", faults' \in Nat, faults' >= faults,
         job'.smooth = job.smooth, job'.since = job.since, Undisturbed'
  PROVE  Undisturbed /\ faults' = faults
<1>1. job.since \in Nat /\ job.since <= faults /\ faults \in Nat
  BY WorkingShape DEF JobShape, IsPass
<1>. QED
  BY <1>1 DEF Undisturbed

LEMMA OpenRx ==
  ASSUME AllOpen
  PROVE  /\ handle.rx = "open" /\ handle.tx = "open"
         /\ RxAfterQuery.handle = "open" /\ [handle EXCEPT !.rx = "open"] = handle
  BY DEF AllOpen, Sides, RxAfterQuery

LEMMA QueryHandle ==
  ASSUME AllOpen, handle' = [handle EXCEPT !.rx = RxAfterQuery.handle]
  PROVE  AllOpen'
<1>1. handle' = handle
  BY OpenRx
<1>. QED
  BY <1>1 DEF AllOpen

LEMMA PassIdle ==
  ASSUME LinkInv, job' = Idle, HandleShape', UNCHANGED <<fan, registry, boards, asked, faults>>
  PROVE  LinkInv'
<1>1. JobShape'
  BY IdleShape DEF LinkInv
<1>2. WorldShape'
  BY KeptFan, KeptRegistry DEF LinkInv, WorldShape
<1>3. PassTruth'
  BY DEF PassTruth, Idle, None
<1>. QED
  BY <1>1, <1>2, <1>3 DEF LinkInv

LEMMA DiscoverKeeps ==
  ASSUME LinkInv, Discover
  PROVE  LinkInv'
<1>0. JobShape /\ WorldShape /\ job = Idle /\ faults \in Nat
      /\ UNCHANGED <<fan, plugged, tuned, registry, boards, asked, faults>>
  BY DEF LinkInv, Discover, JobShape
<1>1. job' = [req |-> "discover", phase |-> "sync", n |-> 1, tried |-> FALSE, found |-> <<>>,
              smooth |-> handle = [s \in Sides |-> "open"], since |-> faults]
  BY <1>0 DEF Discover, Pass
<1>2. /\ job'.req = "discover" /\ job'.phase = "sync" /\ job'.n = 1 /\ job'.found = <<>>
      /\ job'.since = faults /\ (job'.smooth => AllOpen)
  BY <1>1 DEF AllOpen
<1>3. job' = [req |-> "discover", phase |-> job'.phase, n |-> job'.n, tried |-> job'.tried,
              found |-> job'.found, smooth |-> job'.smooth, since |-> job'.since]
  BY <1>1, <1>2
<1>4. IsList(<<>>)
  BY DEF IsList
<1>5. IsPass(job', faults')
  BY <1>0, <1>2, <1>3, <1>4 DEF IsPass
<1>6. JobShape'
  BY <1>0, <1>5 DEF JobShape
<1>7. HandleShape'
  BY <1>0, DrainedHandle DEF Discover, WorldShape
<1>8. AllOpen => AllOpen'
  <2>1. AllOpen => plugged.rx
    BY <1>0 DEF AllOpen, WorldShape, HandleShape, Sides
  <2>. QED
    BY <2>1 DEF AllOpen, Discover, DrainRx, Reopen, Sides
<1>9. PassTruth'
  BY <1>2, <1>8 DEF PassTruth, Undisturbed
<1>. QED
  BY <1>0, <1>6, <1>7, <1>9, KeptFan, KeptRegistry DEF LinkInv, WorldShape

\* The next phase, with what was found so far.
LEMMA PassOn ==
  ASSUME JobShape, InPhase("query") \/ InPhase("scan") \/ InPhase("again") \/ InPhase("sync"),
         NEW phase, NEW n, faults' \in Nat, faults' >= faults,
         phase \in {"scan", "again"} => job.found = <<>>, job' = Pass(phase, n)
  PROVE  /\ IsPass(job', faults') /\ job' # Idle /\ job'.phase = phase /\ job'.n = n
         /\ job'.found = job.found /\ job'.smooth = job.smooth /\ job'.since = job.since
<1>1. IsPass(job, faults) /\ job # Idle
  BY WorkingShape DEF InPhase
<1>2. IsList(job.found)
  BY <1>1 DEF IsPass
<1>3. job' = [Pass(phase, n) EXCEPT !.found = job.found]
  <2>1. PICK p : p = job'
    OBVIOUS
  <2>2. p.found = job.found /\ p = [req |-> p.req, phase |-> p.phase, n |-> p.n, tried |-> p.tried,
                                   found |-> p.found, smooth |-> p.smooth, since |-> p.since]
    BY <1>1, <2>1 DEF Pass
  <2>3. [p EXCEPT !.found = p.found] = p
    BY <2>2
  <2>. QED
    BY <2>1, <2>2, <2>3
<1>. QED
  BY <1>2, <1>3, PassFound

LEMMA SyncAnsweredKeeps ==
  ASSUME LinkInv, SyncAnswered
  PROVE  LinkInv'
<1>0. JobShape /\ WorldShape /\ faults \in Nat /\ faults' = faults
      /\ UNCHANGED <<fan, handle, plugged, registry, boards, asked>>
  BY DEF LinkInv, SyncAnswered, JobShape, world
<1>1. /\ IsPass(job', faults') /\ job' # Idle /\ job'.phase = "query" /\ job'.n = 1
      /\ job'.found = job.found /\ job'.smooth = job.smooth /\ job'.since = job.since
  BY <1>0, PassOn DEF SyncAnswered
<1>2. PassTruth'
  BY <1>0, <1>1 DEF PassTruth, LinkInv, SyncAnswered, InPhase, Undisturbed, AllOpen
<1>. QED
  BY <1>0, <1>1, <1>2, KeptHandle, KeptFan, KeptRegistry DEF LinkInv, WorldShape, JobShape

LEMMA SyncGarbledKeeps ==
  ASSUME LinkInv, SyncGarbled
  PROVE  LinkInv'
<1>0. JobShape /\ WorldShape /\ faults \in Nat /\ faults' = faults + 1 /\ job.req = "discover"
      /\ UNCHANGED <<fan, handle, plugged, registry, boards, asked>>
  BY DEF LinkInv, SyncGarbled, JobShape, world, InPhase
<1>1. \E n, tried : job' = GoneOn(n, tried)
  <2>1. IsPass(job, faults)
    BY <1>0, WorkingShape
  <2>2. job' = GoneOn(job.n + 1, job.tried)
    BY <2>1 DEF IsPass, SyncGarbled, GoneOn
  <2>. QED
    BY <2>2
<1>2. /\ IsPass(job', faults') /\ job'.smooth = job.smooth /\ job'.since = job.since
  BY <1>0, <1>1, PassGoesOn
<1>3. ~Undisturbed'
  BY <1>0, <1>2, StillQuiet
<1>4. PassTruth'
  BY <1>3 DEF PassTruth
<1>. QED
  BY <1>0, <1>2, <1>4, KeptHandle, KeptFan, KeptRegistry DEF LinkInv, WorldShape, JobShape

\* A handle that fails means that something went wrong.
LEMMA Disturbed ==
  ASSUME LinkInv, job.req = "discover", handle.tx = "broken" \/ handle.rx = "broken"
  PROVE  ~Undisturbed
  BY OpenRx DEF LinkInv, PassTruth

LEMMA SyncFailsKeeps ==
  ASSUME LinkInv, SyncFails
  PROVE  LinkInv'
<1>0. JobShape /\ WorldShape /\ faults \in Nat /\ faults' = faults /\ InPhase("sync")
      /\ UNCHANGED <<fan, plugged, tuned, registry, boards, asked>>
  BY DEF LinkInv, SyncFails, JobShape
<1>1. HandleShape'
  BY <1>0, RecoverHandle, KeptHandle DEF SyncFails, WorldShape, Sides
<1>2. CASE job' = Idle
  BY <1>0, <1>1, <1>2, PassIdle
<1>3. CASE job' # Idle
  <2>1. \E n, tried : job' = GoneOn(n, tried)
    BY <1>3 DEF SyncFails, GoneOn
  <2>2. IsPass(job', faults') /\ job'.smooth = job.smooth /\ job'.since = job.since
    BY <1>0, <2>1, PassGoesOn DEF InPhase
  <2>3. ~Undisturbed'
    BY <1>0, <2>2, Disturbed, StillQuiet DEF SyncFails, InPhase
  <2>. QED
    BY <1>0, <1>1, <2>2, <2>3, KeptFan, KeptRegistry DEF LinkInv, WorldShape, JobShape, PassTruth
<1>. QED
  BY <1>2, <1>3

LEMMA DrainBeforeQueryKeeps ==
  ASSUME LinkInv, DrainBeforeQuery
  PROVE  LinkInv'
<1>0. JobShape /\ WorldShape
      /\ UNCHANGED <<fan, plugged, tuned, registry, boards, asked, faults, job>>
  BY DEF LinkInv, DrainBeforeQuery
<1>1. HandleShape'
  BY <1>0, DrainedHandle DEF DrainBeforeQuery, WorldShape
<1>2. AllOpen => AllOpen'
  <2>1. AllOpen => plugged.rx
    BY <1>0 DEF AllOpen, WorldShape, HandleShape, Sides
  <2>. QED
    BY <2>1 DEF AllOpen, DrainBeforeQuery, DrainRx, Reopen, Sides
<1>3. PassTruth'
  BY <1>0, <1>2 DEF LinkInv, PassTruth, Undisturbed, OnAir, Powered
<1>. QED
  BY <1>0, <1>1, <1>3, KeptFan, KeptRegistry DEF LinkInv, WorldShape, JobShape

LEMMA QueryKeeps ==
  ASSUME LinkInv, Query
  PROVE  LinkInv'
<1>0. JobShape /\ WorldShape /\ faults \in Nat /\ InPhase("query")
      /\ UNCHANGED <<fan, plugged, tuned, registry, boards, asked>>
  BY DEF LinkInv, Query, JobShape
<1>1. PICK H \in SUBSET Powered :
        /\ Reports(H, tuned)
        /\ handle' = [handle EXCEPT !.rx = RxAfterQuery.handle]
        /\ job' = AfterQuery(job.found \o Fresh(H))
  BY DEF Query
<1>2. /\ faults' \in Nat /\ faults' >= faults
      /\ faults' = faults /\ handle.rx = "open" => H = OnAir(tuned)
      /\ IsFiniteSet(H) /\ H \subseteq Nat
  BY <1>0, <1>1, ReportsTruth
<1>3. PICK found : found = job.found \o Fresh(H)
  OBVIOUS
<1>4. IsList(found) /\ H \subseteq RangeOf(found)
  <2>1. IsList(job.found)
    BY <1>0, WorkingShape DEF InPhase, IsPass
  <2>. QED
    BY <1>2, <1>3, <2>1, FreshAll
<1>5. \E n : \E phase \in {"query", "scan", "refresh"} :
        /\ job' = [Pass(phase, n) EXCEPT !.found = found]
        /\ phase = "scan" => found = <<>>
  BY <1>1, <1>3 DEF AfterQuery
<1>6. PICK n : \E phase \in {"query", "scan", "refresh"} :
        /\ job' = [Pass(phase, n) EXCEPT !.found = found]
        /\ phase = "scan" => found = <<>>
  BY <1>5
<1>7. PICK phase \in {"query", "scan", "refresh"} :
        /\ job' = [Pass(phase, n) EXCEPT !.found = found]
        /\ phase = "scan" => found = <<>>
  BY <1>6
<1>8. /\ IsPass(job', faults') /\ job'.phase = phase /\ job'.found = found
      /\ job'.smooth = job.smooth /\ job'.since = job.since
  <2>1. phase \in {"scan", "again"} => found = <<>>
    BY <1>7
  <2>. QED
    BY <1>0, <1>2, <1>4, <1>7, <2>1, PassFound
<1>9. HandleShape'
  BY <1>0, <1>1, RxHandle DEF WorldShape
<1>10. PassTruth'
  <2>1. ASSUME Undisturbed'
        PROVE  /\ AllOpen' /\ (phase = "scan" => OnAir(tuned)' = {})
               /\ OnAir(tuned)' \subseteq RangeOf(found)
    <3>1. Undisturbed /\ faults' = faults
      BY <1>0, <1>2, <1>8, <2>1, StillQuiet DEF InPhase
    <3>2. AllOpen
      BY <1>0, <3>1 DEF LinkInv, PassTruth, InPhase
    <3>3. H = OnAir(tuned) /\ AllOpen'
      BY <1>1, <1>2, <3>1, <3>2, OpenRx, QueryHandle
    <3>4. OnAir(tuned)' = H
      BY <1>0, <3>3 DEF OnAir, Powered
    <3>5. phase = "scan" => RangeOf(found) = {}
      BY <1>7 DEF RangeOf
    <3>. QED
      BY <1>4, <3>3, <3>4, <3>5
  <2>. QED
    BY <1>8, <2>1 DEF PassTruth
<1>. QED
  BY <1>0, <1>2, <1>8, <1>9, <1>10, KeptFan, KeptRegistry DEF LinkInv, WorldShape, JobShape

-----------------------------------------------------------------------------
\* A pass that is not disturbed hears all there is on a channel.
LEMMA QuietReport ==
  ASSUME LinkInv, job.req = "discover", Undisturbed, NEW H \in SUBSET Powered, NEW ch,
         Reports(H, ch), faults' = faults, handle' = [handle EXCEPT !.rx = RxAfterQuery.handle]
  PROVE  H = OnAir(ch) /\ AllOpen'
<1>1. AllOpen /\ faults \in Nat
  BY DEF LinkInv, PassTruth, JobShape
<1>. QED
  BY <1>1, ReportsTruth, OpenRx, QueryHandle

LEMMA ProbeKeeps ==
  ASSUME LinkInv, Probe
  PROVE  LinkInv'
<1>0. JobShape /\ WorldShape /\ faults \in Nat /\ InPhase("scan") /\ job.req = "discover"
      /\ IsPass(job, faults) /\ job.found = <<>> /\ job.phase = "scan"
      /\ UNCHANGED <<fan, plugged, registry, boards, asked>>
  BY WorkingShape DEF LinkInv, Probe, JobShape, InPhase, IsPass
<1>1. CASE UNCHANGED <<tuned, handle, host, faults>> /\ job' = [job EXCEPT !.n = @ + 1, !.tried = FALSE]
  <2>1. \E n, tried : job' = GoneOn(n, tried)
    BY <1>0, <1>1 DEF GoneOn, IsPass
  <2>2. /\ IsPass(job', faults') /\ job'.phase = job.phase
        /\ job'.found = job.found /\ job'.smooth = job.smooth /\ job'.since = job.since
    BY <1>0, <1>1, <2>1, PassGoesOn
  <2>3. PassTruth'
    BY <1>0, <1>1, <2>2, StillQuiet DEF LinkInv, PassTruth, OnAir, Powered, AllOpen, Undisturbed
  <2>. QED
    BY <1>0, <1>1, <2>2, <2>3, KeptHandle, KeptFan, KeptRegistry DEF LinkInv, WorldShape, JobShape
<1>2. ASSUME NEW H \in SUBSET Powered, Reports(H, Channels[job.n]), tuned' = Channels[job.n],
             handle' = [handle EXCEPT !.rx = RxAfterQuery.handle],
             job' = IF H = {} THEN [job EXCEPT !.n = @ + 1, !.tried = FALSE] ELSE Pass("again", 1)
      PROVE  LinkInv'
  <2>1. faults' \in Nat /\ faults' >= faults
    BY <1>0, <1>2, ReportsTruth
  <2>2. HandleShape'
    BY <1>0, <1>2, RxHandle DEF WorldShape
  <2>3. /\ IsPass(job', faults') /\ job'.phase = IF H = {} THEN "scan" ELSE "again"
        /\ job'.smooth = job.smooth /\ job'.since = job.since
    <3>1. CASE H = {}
      <4>1. \E n, tried : job' = GoneOn(n, tried)
        BY <1>0, <1>2, <3>1 DEF GoneOn, IsPass
      <4>. QED
        BY <1>0, <2>1, <3>1, <4>1, PassGoesOn
    <3>2. CASE H # {}
      <4>1. job' = Pass("again", 1)
        BY <1>2, <3>2
      <4>. QED
        BY <1>0, <2>1, <3>2, <4>1, PassOn
    <3>. QED
      BY <3>1, <3>2
  <2>4. ASSUME Undisturbed' PROVE AllOpen' /\ (H = {} => OnAir(tuned)' = {})
    <3>1. Undisturbed /\ faults' = faults
      BY <1>0, <2>1, <2>3, <2>4, StillQuiet
    <3>2. H = OnAir(Channels[job.n]) /\ AllOpen'
      BY <1>0, <1>2, <3>1, QuietReport
    <3>3. OnAir(tuned)' = OnAir(Channels[job.n])
      BY <1>0, <1>2 DEF OnAir, Powered
    <3>. QED
      BY <3>2, <3>3
  <2>5. PassTruth'
    BY <2>3, <2>4 DEF PassTruth
  <2>. QED
    BY <1>0, <2>1, <2>2, <2>3, <2>5, KeptFan, KeptRegistry DEF LinkInv, WorldShape, JobShape
<1>. QED
  BY <1>1, <1>2 DEF Probe

LEMMA ScanEndsKeeps ==
  ASSUME LinkInv, ScanEnds
  PROVE  LinkInv'
<1>0. JobShape /\ WorldShape /\ faults \in Nat /\ job.req = "discover" /\ job.phase = "scan"
      /\ UNCHANGED <<fan, handle, plugged, tuned, registry, boards, asked, faults>>
  BY DEF LinkInv, ScanEnds, JobShape, InPhase, world
<1>1. /\ IsPass(job', faults') /\ job'.phase = "refresh"
      /\ job'.smooth = job.smooth /\ job'.since = job.since
  BY <1>0, PassOn DEF ScanEnds
<1>2. PassTruth'
  BY <1>0, <1>1 DEF LinkInv, PassTruth, Undisturbed, AllOpen, OnAir, Powered
<1>. QED
  BY <1>0, <1>1, <1>2, KeptHandle, KeptFan, KeptRegistry DEF LinkInv, WorldShape, JobShape

LEMMA QueryAgainKeeps ==
  ASSUME LinkInv, QueryAgain
  PROVE  LinkInv'
<1>0. JobShape /\ WorldShape /\ faults \in Nat /\ job.req = "discover" /\ InPhase("again")
      /\ job.found = <<>> /\ IsList(job.found)
      /\ UNCHANGED <<fan, plugged, tuned, registry, boards, asked>>
  BY WorkingShape DEF LinkInv, QueryAgain, JobShape, InPhase, IsPass
<1>1. PICK H \in SUBSET Powered :
        /\ Reports(H, tuned)
        /\ handle' = [handle EXCEPT !.rx = RxAfterQuery.handle]
        /\ job' = [Pass("refresh", 1) EXCEPT !.found = Fresh(H)]
  BY DEF QueryAgain
<1>2. faults' \in Nat /\ faults' >= faults /\ IsFiniteSet(H) /\ H \subseteq Nat
  BY <1>0, <1>1, ReportsTruth
<1>3. PICK found : found = Fresh(H)
  OBVIOUS
<1>4. IsList(found) /\ H \subseteq RangeOf(found)
  BY <1>0, <1>2, <1>3, FreshAll
<1>5. /\ IsPass(job', faults') /\ job'.phase = "refresh" /\ job'.found = found
      /\ job'.smooth = job.smooth /\ job'.since = job.since
  <2>1. job' = [Pass("refresh", 1) EXCEPT !.found = found]
    BY <1>1, <1>3
  <2>. QED
    BY <1>0, <1>2, <1>4, <2>1, PassFound
<1>6. HandleShape'
  BY <1>0, <1>1, RxHandle DEF WorldShape
<1>7. ASSUME Undisturbed' PROVE AllOpen' /\ OnAir(tuned)' \subseteq RangeOf(found)
  <2>1. Undisturbed /\ faults' = faults
    BY <1>0, <1>2, <1>5, <1>7, StillQuiet
  <2>2. H = OnAir(tuned) /\ AllOpen'
    BY <1>0, <1>1, <2>1, QuietReport
  <2>3. OnAir(tuned)' = OnAir(tuned)
    BY <1>0 DEF OnAir, Powered
  <2>. QED
    BY <1>4, <2>2, <2>3
<1>8. PassTruth'
  BY <1>5, <1>7 DEF PassTruth
<1>. QED
  BY <1>0, <1>2, <1>5, <1>6, <1>8, KeptFan, KeptRegistry DEF LinkInv, WorldShape, JobShape

LEMMA QueryFailsKeeps ==
  ASSUME LinkInv, QueryFails
  PROVE  LinkInv'
<1>0. JobShape /\ WorldShape /\ faults \in Nat /\ faults' = faults /\ job.req = "discover"
      /\ UNCHANGED <<fan, plugged, registry, boards, asked>>
  BY DEF LinkInv, QueryFails, JobShape, InPhase
<1>1. HandleShape'
  BY <1>0, RecoverHandle, KeptHandle DEF QueryFails, WorldShape, Sides
<1>2. CASE job' = Idle
  BY <1>0, <1>1, <1>2, PassIdle
<1>3. CASE job' # Idle
  <2>1. \E n, tried : job' = GoneOn(n, tried)
    <3>1. IsPass(job, faults)
      BY <1>0, WorkingShape
    <3>2. \E tried : job' = [job EXCEPT !.tried = tried]
      BY <1>3 DEF QueryFails
    <3>3. \A tried : [job EXCEPT !.tried = tried] = GoneOn(job.n, tried)
      BY <3>1 DEF GoneOn, IsPass
    <3>. QED
      BY <3>2, <3>3
  <2>2. IsPass(job', faults') /\ job'.smooth = job.smooth /\ job'.since = job.since
    BY <1>0, <2>1, PassGoesOn
  <2>3. ~Undisturbed'
    BY <1>0, <2>2, Disturbed, StillQuiet DEF QueryFails
  <2>. QED
    BY <1>0, <1>1, <2>2, <2>3, KeptFan, KeptRegistry DEF LinkInv, WorldShape, JobShape, PassTruth
<1>. QED
  BY <1>2, <1>3

-----------------------------------------------------------------------------
(* The refresh of the registry. *)

LEMMA RefreshedGroupTrue ==
  ASSUME NEW old, IsGroup(old), NEW answers, IsList(answers), NEW new, new = RefreshedGroup(old, answers)
  PROVE  /\ IsGroup(new)
         /\ \A f \in Fans : f \in RangeOf(answers) => f \in RangeOf(new.macs)
         /\ old # NoGroup => new.rgb = old.rgb /\ old.speed \in {0, new.speed}
<1>1. CASE old = NoGroup
  <2>1. new = [macs |-> answers, speed |-> new.speed, rgb |-> new.rgb, pump |-> new.pump,
               seq |-> new.seq]
    BY <1>1 DEF RefreshedGroup
  <2>2. new.macs = answers
    BY <2>1
  <2>. QED
    BY <1>1, <2>1, <2>2 DEF IsGroup
<1>2. CASE old # NoGroup
  <2>. PICK more : more = Those(Fans \ RangeOf(old.macs), answers)
    OBVIOUS
  <2>. PICK told : told = FirstReported(answers)
    OBVIOUS
  <2>. PICK seq : seq = fan[answers[Len(answers)]].seq
    OBVIOUS
  <2>1. /\ old = [macs |-> old.macs, speed |-> old.speed, rgb |-> old.rgb, pump |-> old.pump,
                  seq |-> old.seq]
        /\ IsList(old.macs)
    BY <1>2 DEF IsGroup
  <2>2. new = [macs |-> old.macs \o more, speed |-> IF old.speed = 0 THEN told ELSE old.speed,
               rgb |-> old.rgb, pump |-> old.pump, seq |-> seq]
    BY <1>2, <2>1 DEF RefreshedGroup
  <2>3. /\ IsList(more)
        /\ \A f \in Fans \ RangeOf(old.macs) : f \in RangeOf(answers) => f \in RangeOf(more)
    BY ThoseAll
  <2>4. /\ IsList(old.macs \o more) /\ RangeOf(old.macs) \subseteq RangeOf(old.macs \o more)
        /\ RangeOf(more) \subseteq RangeOf(old.macs \o more)
    BY <2>1, <2>3, JoinedRange
  <2>5. /\ new.macs = old.macs \o more /\ new.rgb = old.rgb
        /\ new.speed = IF old.speed = 0 THEN told ELSE old.speed
    BY <2>2
  <2>6. IsGroup(new)
    BY <2>2, <2>4, <2>5 DEF IsGroup
  <2>. QED
    BY <2>3, <2>4, <2>5, <2>6
<1>. QED
  BY <1>1, <1>2

\* What the daemon knows of a group after a refresh.
LEMMA RefreshedTrue ==
  ASSUME LinkInv, Refresh
  PROVE  /\ registry' = [g \in Groups \cup BoardGroups |-> registry'[g]]
         /\ \A g \in Groups \cup BoardGroups : IsGroup(registry'[g])
         /\ \A g \in Groups : \A f \in Fans :
              fan[f].master = Tx /\ fan[f].group = g /\ f \in RangeOf(job.found) =>
                /\ f \in RangeOf(registry'[g].macs)
                /\ Known(g) => /\ registry'[g].rgb = registry[g].rgb
                               /\ registry[g].speed \in {0, registry'[g].speed}
         /\ \A g \in boards : Known(g) => registry'[g] = registry[g]
<1>0. /\ RegistryShape /\ job.req = "discover" /\ IsList(job.found)
      /\ registry' = RefreshBoards(RefreshRf(registry, job.found))
  BY WorkingShape DEF LinkInv, WorldShape, Refresh, InPhase, IsPass
<1>. DEFINE answers(g) == Those({f \in Ours : fan[f].group = g}, job.found)
            rf == RefreshRf(registry, job.found)
<1>1. \A g : IsList(answers(g))
  <2>1. ASSUME NEW g PROVE IsList(answers(g))
    BY <1>0, ThoseAll
  <2>. QED
    BY <2>1
<1>2. \A g \in Groups : \A f \in Fans :
        fan[f].master = Tx /\ fan[f].group = g /\ f \in RangeOf(job.found) =>
          f \in RangeOf(answers(g))
  <2>1. ASSUME NEW g \in Groups, NEW f \in Fans, fan[f].master = Tx, fan[f].group = g,
               f \in RangeOf(job.found)
        PROVE  f \in RangeOf(answers(g))
    <3>1. f \in {e \in Ours : fan[e].group = g}
      BY <2>1 DEF Ours
    <3>. QED
      BY <1>0, <2>1, <3>1, ThoseAll
  <2>. QED
    BY <2>1
<1>3. \A g \in Groups : g \notin BoardGroups /\
        rf[g] = IF answers(g) = <<>> THEN NoGroup ELSE RefreshedGroup(registry[g], answers(g))
  BY GroupsAssumption DEF RefreshRf
<1>4. \A g \in BoardGroups : rf[g] = registry[g]
  BY DEF RefreshRf
<1> HIDE DEF answers, rf
<1>5. \A g \in Groups : registry'[g] = IF answers(g) = <<>> THEN NoGroup
                                       ELSE RefreshedGroup(registry[g], answers(g))
  BY <1>0, <1>3 DEF RefreshBoards, rf
<1>6. \A g \in BoardGroups : registry'[g] = IF g \notin boards THEN NoGroup
                                            ELSE IF registry[g] = NoGroup THEN BoardGroup
                                            ELSE registry[g]
  BY <1>0, <1>3, <1>4, GroupsAssumption DEF RefreshBoards, rf
<1>7. registry' = [g \in Groups \cup BoardGroups |-> registry'[g]]
  BY <1>0 DEF RefreshBoards
<1>8. IsGroup(NoGroup) /\ IsGroup(BoardGroup)
  <2>1. <<0>> \in Seq({0}) /\ BoardGroup.macs = <<0>>
    BY DEF BoardGroup
  <2>. QED
    BY <2>1 DEF IsGroup, IsList, BoardGroup
<1>9. \A g \in Groups \cup BoardGroups : IsGroup(registry[g])
  BY <1>0 DEF RegistryShape
<1>10. ASSUME NEW g \in Groups
       PROVE  /\ IsGroup(registry'[g])
              /\ \A f \in Fans : f \in RangeOf(answers(g)) =>
                   /\ f \in RangeOf(registry'[g].macs)
                   /\ Known(g) => /\ registry'[g].rgb = registry[g].rgb
                                  /\ registry[g].speed \in {0, registry'[g].speed}
  <2>1. CASE answers(g) = <<>>
    BY <1>5, <1>8, <2>1 DEF RangeOf
  <2>2. CASE answers(g) # <<>>
    <3>1. registry'[g] = RefreshedGroup(registry[g], answers(g))
      BY <1>5, <2>2
    <3>2. PICK old, a, new : old = registry[g] /\ a = answers(g) /\ new = registry'[g]
      OBVIOUS
    <3>3. IsGroup(old) /\ IsList(a) /\ new = RefreshedGroup(old, a)
      BY <1>1, <1>9, <3>1, <3>2
    <3>4. /\ IsGroup(new)
          /\ \A f \in Fans : f \in RangeOf(a) => f \in RangeOf(new.macs)
          /\ old # NoGroup => new.rgb = old.rgb /\ old.speed \in {0, new.speed}
      BY <3>3, RefreshedGroupTrue
    <3>. QED
      BY <3>2, <3>4 DEF Known
  <2>. QED
    BY <2>1, <2>2
<1>11. \A g \in BoardGroups : IsGroup(registry'[g])
  BY <1>6, <1>8, <1>9
<1>12. \A g \in boards : Known(g) => registry'[g] = registry[g]
  BY <1>0, <1>6 DEF RegistryShape, Known
<1>. QED
  BY <1>2, <1>7, <1>10, <1>11, <1>12

LEMMA RefreshKeeps ==
  ASSUME LinkInv, Refresh
  PROVE  LinkInv'
<1>1. UNCHANGED <<fan, handle, plugged, boards, asked, faults>> /\ job' = Idle
  BY DEF Refresh, world
<1>2. JobShape'
  BY <1>1, IdleShape DEF LinkInv
<1>3. RegistryShape'
  BY <1>1, RefreshedTrue DEF LinkInv, WorldShape, RegistryShape
<1>4. PassTruth'
  BY <1>1 DEF PassTruth, Idle, None
<1>. QED
  BY <1>1, <1>2, <1>3, <1>4, KeptHandle, KeptFan DEF LinkInv, WorldShape

-----------------------------------------------------------------------------
LEMMA LinkStep ==
  ASSUME LinkInv, Step
  PROVE  LinkInv'
<1>1. ASSUME JobShape', job'.req # "discover" PROVE PassTruth'
  BY <1>1 DEF PassTruth
<1>2. ASSUME Working, JobShape' /\ WorldShape', job' = Idle \/ job'.req = job.req PROVE LinkInv'
  BY <1>2 DEF LinkInv, PassTruth, Working, Idle, None
<1>3. CASE Send
  <2>1. job'.req = job.req /\ Working
    BY <1>3, FirstOp DEF Send, LinkInv, IsRequest
  <2>. QED
    BY <1>2, <1>3, <2>1, SendShape DEF LinkInv
<1>4. CASE Sent
  <2>1. (job' = Idle \/ job'.req = job.req) /\ Working
    BY <1>4, FirstOp DEF Sent, LinkInv, IsRequest, NextOp
  <2>. QED
    BY <1>2, <1>4, <2>1, SentKeepsShape DEF LinkInv
<1>5. CASE SendAgain
  <2>1. job'.req = job.req /\ Working
    BY <1>5, FirstOp DEF SendAgain, WriteFails, LinkInv, IsRequest
  <2>. QED
    BY <1>2, <1>5, <2>1, SendAgainShape DEF LinkInv
<1>6. CASE GiveUp
  <2>1. (job' = Idle \/ job'.req = job.req) /\ Working
    <3>1. IsRequest(job, asked) /\ Working
      BY <1>6, FirstOp DEF GiveUp, WriteFails, LinkInv
    <3>2. \/ job' = Idle
          \/ job' = NextOp
          \/ \E ops : job' = [job EXCEPT !.ops = ops, !.at = 1, !.tried = FALSE]
      BY <1>6 DEF GiveUp
    <3>. QED
      BY <3>1, <3>2 DEF IsRequest, NextOp
  <2>. QED
    BY <1>2, <1>6, <2>1, GiveUpShape DEF LinkInv
<1>. QED
  BY <1>3, <1>4, <1>5, <1>6, DiscoverKeeps, SyncAnsweredKeeps, SyncGarbledKeeps, SyncFailsKeeps,
     DrainBeforeQueryKeeps, QueryKeeps, ProbeKeeps, ScanEndsKeeps, QueryAgainKeeps,
     QueryFailsKeeps, RefreshKeeps DEF Step

LEMMA LinkAsk ==
  ASSUME LinkInv, Ask
  PROVE  LinkInv'
<1>1. JobShape' /\ WorldShape'
  BY AskShape, AskWorld DEF LinkInv
<1>2. job'.req # "discover"
  <2>1. \/ job' = Idle
        \/ \E req \in ToGroup \cup ToAll : \E group, mac, arg, ops : Begin(req, group, mac, arg, ops)
    BY DEF Ask, SetRgb, SetSpeed, MbSyncOff, SetPwm, MbSyncOn, Unbind, Reset, Bind, Broadcast,
         PaintBoard, ToGroup, ToAll
  <2>. QED
    BY <2>1 DEF Begin, Idle, None, ToGroup, ToAll
<1>. QED
  BY <1>1, <1>2 DEF LinkInv, PassTruth

LEMMA LinkMishap ==
  ASSUME LinkInv, Mishap
  PROVE  LinkInv'
<1>1. JobShape' /\ WorldShape'
  BY MishapShape DEF LinkInv
<1>2. UNCHANGED <<job, fan, tuned>>
  BY DEF Mishap, Break, Unplug, PlugIn, Hang, BoardChanges
<1>3. PassTruth'
  <2>1. SUFFICES ASSUME job.req = "discover" PROVE PassTruth'
    BY <1>2 DEF PassTruth
  <2>2. job.since \in Nat /\ job.since <= faults /\ faults \in Nat /\ job # Idle
    BY <2>1, WorkingShape DEF LinkInv, JobShape, IsPass
  <2>3. UNCHANGED <<handle, faults>> \/ faults' = faults + 1
    BY DEF Mishap, Break, Unplug, PlugIn, Hang, BoardChanges, Strike
  <2>4. CASE UNCHANGED <<handle, faults>>
    BY <1>2, <2>4 DEF LinkInv, PassTruth, Undisturbed, AllOpen, OnAir, Powered
  <2>5. CASE faults' = faults + 1
    BY <1>2, <2>2, <2>5 DEF PassTruth, Undisturbed
  <2>. QED
    BY <2>3, <2>4, <2>5
<1>. QED
  BY <1>1, <1>3 DEF LinkInv

LEMMA LinkQuiet ==
  ASSUME LinkInv, CoolDown \/ UNCHANGED vars
  PROVE  LinkInv'
<1>1. UNCHANGED <<job, fan, tuned, handle, plugged, registry, boards, asked, faults>>
  BY DEF CoolDown, world, vars
<1>2. PassTruth' /\ JobShape'
  BY <1>1 DEF LinkInv, PassTruth, Undisturbed, AllOpen, OnAir, Powered, JobShape
<1>. QED
  BY <1>1, <1>2, KeptHandle, KeptFan, KeptRegistry DEF LinkInv, WorldShape

\* The shape of requests, passes, handles, receivers and registry, and that a pass in which
\* nothing went wrong holds what is on the channel, kept by every step.
THEOREM LinkInductive == Spec => []LinkInv
<1>1. Init => LinkInv
  <2>. SUFFICES ASSUME Init PROVE LinkInv
    OBVIOUS
  <2>1. JobShape
    BY DEF Init, JobShape
  <2>2. HandleShape
    BY DEF Init, HandleShape
  <2>3. FanShape
    <3>1. fan \in [Fans -> Receiver] /\ \A f \in Fans : fan[f].master = Tx => fan[f].group \in Groups
      BY FirstFansAssumption DEF Init
    <3>2. \A r \in Receiver : IsReceiver(r)
      BY DEF Receiver, IsReceiver
    <3>. QED
      BY <3>1, <3>2 DEF FanShape
  <2>4. RegistryShape
    BY DEF Init, RegistryShape, IsGroup
  <2>5. PassTruth
    BY DEF Init, PassTruth, Idle, None
  <2>. QED
    BY <2>1, <2>2, <2>3, <2>4, <2>5 DEF LinkInv, WorldShape
<1>2. LinkInv /\ [Next]_vars => LinkInv'
  BY LinkStep, LinkAsk, LinkMishap, LinkQuiet DEF Next
<1>. QED
  BY <1>1, <1>2, PTL DEF Spec

-----------------------------------------------------------------------------
\* Only the refresh ends a pass that has reached it.
LEMMA OnlyRefresh ==
  ASSUME LinkInv, [Next]_vars, InPhase("refresh"), job' = Idle
  PROVE  Refresh
<1>1. job # Idle /\ job.req = "discover" /\ job.phase = "refresh" /\ ~Working
  BY WorkingShape DEF LinkInv, InPhase, Idle, None, Working
<1>2. ~Ask
  BY <1>1 DEF Ask, SetRgb, SetSpeed, MbSyncOff, SetPwm, MbSyncOn, Unbind, Reset, Bind, Broadcast,
              PaintBoard, Begin
<1>3. job' # job
  BY <1>1
<1>4. ~Mishap /\ ~CoolDown /\ ~UNCHANGED vars
  BY <1>3 DEF Mishap, Break, Unplug, PlugIn, Hang, BoardChanges, CoolDown, vars
<1>5. ~Send /\ ~Sent /\ ~SendAgain /\ ~GiveUp
  BY <1>1 DEF Send, Sent, SendAgain, GiveUp, WriteFails
<1>6. ~Discover /\ ~SyncAnswered /\ ~SyncGarbled /\ ~SyncFails /\ ~DrainBeforeQuery /\ ~Query
      /\ ~Probe /\ ~ScanEnds /\ ~QueryAgain /\ ~QueryFails
  BY <1>1 DEF Discover, SyncAnswered, SyncGarbled, SyncFails, DrainBeforeQuery, Query, Probe,
              ScanEnds, QueryAgain, QueryFails, InPhase
<1>. QED
  BY <1>2, <1>4, <1>5, <1>6 DEF Next, Step

\* A pass in which nothing went wrong ends with a registry that knows every receiver of
\* ours on the channel and has forgotten nothing of its group, for any receivers,
\* channels, groups and answers, and whatever passes and requests went before.
THEOREM PassIsTruthfulHolds == Spec => PassIsTruthful
<1>1. LinkInv /\ [Next]_vars =>
        (InPhase("refresh") /\ job' = Idle =>
           /\ job.smooth /\ job.since = faults /\ handle = [s \in Sides |-> "open"] =>
                \A f \in OnAir(tuned) :
                  fan[f].master = Tx =>
                    /\ f \in RangeOf(registry'[fan[f].group].macs)
                    /\ Known(fan[f].group) =>
                         /\ registry'[fan[f].group].rgb = registry[fan[f].group].rgb
                         /\ registry[fan[f].group].speed
                              \in {0, registry'[fan[f].group].speed}
           /\ \A g \in boards : Known(g) => registry'[g] = registry[g])
  <2>. SUFFICES ASSUME LinkInv, [Next]_vars, InPhase("refresh"), job' = Idle
                PROVE  /\ Undisturbed =>
                            \A f \in OnAir(tuned) :
                              fan[f].master = Tx =>
                                /\ f \in RangeOf(registry'[fan[f].group].macs)
                                /\ Known(fan[f].group) =>
                                     /\ registry'[fan[f].group].rgb = registry[fan[f].group].rgb
                                     /\ registry[fan[f].group].speed
                                          \in {0, registry'[fan[f].group].speed}
                       /\ \A g \in boards : Known(g) => registry'[g] = registry[g]
    BY DEF Undisturbed
  <2>1. Refresh
    BY OnlyRefresh
  <2>2. Undisturbed => OnAir(tuned) \subseteq RangeOf(job.found)
    BY DEF LinkInv, PassTruth, InPhase
  <2>3. \A f \in OnAir(tuned) : f \in Fans /\ (fan[f].master = Tx => fan[f].group \in Groups)
    BY DEF OnAir, Powered, LinkInv, WorldShape, FanShape
  <2>. QED
    BY <2>1, <2>2, <2>3, RefreshedTrue
<1>. QED
  BY <1>1, LinkInductive, PTL DEF PassIsTruthful, Spec

-----------------------------------------------------------------------------
(* What a request has brought about at the receiver it is for. *)

Bound(j, r) == r.master = Tx /\ r.group = j.group

\* speed, pump, and the speed that hands a group to the motherboard
SpeedEffect(j, r) ==
  /\ j.req \in {"speed", "pwm", "mbOn"} => Bound(j, r)
  /\ j.req = "speed" /\ j.at - 1 > j.lost => r.pwm = j.arg
  /\ j.req = "pwm" /\ j.at - 1 > j.lost => r.mb
  /\ j.req = "mbOn" /\ j.lost = 0 /\ j.at > 2 => r.mb

\* release from the motherboard, speed and lock
ReleaseEffect(j, r) ==
  j.req = "mbOff" =>
    /\ Bound(j, r)
    /\ j.ops[1].do = "speed" /\ j.at - 1 > j.lost => r.pwm = j.arg
    /\ j.ops[1].do = "lock" /\ j.lost <= 1 => r.pwm = j.arg

UnbindEffect(j, r) ==
  j.req = "unbind" =>
    /\ r.master = None \/ Bound(j, r)
    /\ j.at - 1 > j.lost => r.master = None

\* The first broadcast assignment is the third frame, the second the fifth; the locks
\* come after all of them.
BindEffect(j, r) ==
  j.req = "bind" /\ j.lost <= 1 =>
    /\ j.ops[1].do = "bind" /\ j.at >= 4 + 2 * j.lost => Bound(j, r)
    /\ j.ops[1].do = "bind" /\ j.at > 2 + 2 * BindRepeats + j.lost => r.kept
    /\ j.ops[1].do = "lock" => Bound(j, r) /\ r.kept

\* One round of an upload: a receiver that has the index has no parts but the upload's,
\* and all of them when nothing was lost.
Round(a, k) == <<a - 1, k>>
Whole(j, a, k, r) ==
  r.index = Round(a, k) => r.parts \subseteq 1..Parts /\ (r.parts = 1..Parts => r.shows = j.arg)
Progress(j, a, k, r) ==
  /\ j.at >= 2 => r.index = Round(a, k)
  /\ \A i \in 1..Parts : i + MetaRepeats < j.at => i \in r.parts
UploadEffect(j, a, r) ==
  j.req = "rgb" =>
    /\ Bound(j, r)
    /\ Len(j.ops) = 3 => /\ Whole(j, a, 1, r) /\ r.index # Round(a, 2)
                         /\ j.lost = 0 => Progress(j, a, 1, r)
    /\ Len(j.ops) = 2 => r.index # Round(a, 2) /\ (j.lost = 0 => r.shows = j.arg)
    /\ Len(j.ops) = 1 => /\ Whole(j, a, 2, r) /\ (j.lost = 0 => r.shows = j.arg)
                         /\ j.lost <= 1 => r.shows = j.arg \/ Progress(j, a, 2, r)

Effect(j, a, r) ==
  SpeedEffect(j, r) /\ ReleaseEffect(j, r) /\ UnbindEffect(j, r) /\ BindEffect(j, r)
    /\ UploadEffect(j, a, r)

\* The next frame of j goes out, k is what is left, and r becomes s.
Transmits(j, a, k, op, frame, r, s) ==
  /\ IsRequest(j, a) /\ a \in Nat
  /\ op = j.ops[1] /\ IsOp(j, a, op, Len(j.ops) - 1) /\ Len(j.ops) \in Nat \ {0}
  /\ j.at \in 1..Len(Script(op)) /\ frame = Script(op)[j.at]
  /\ k.req = j.req /\ k.group = j.group /\ k.mac = j.mac /\ k.arg = j.arg /\ k.ops = j.ops
  /\ k.at = j.at + 1
  /\ IsReceiver(r)
  /\ \/ k.lost = j.lost + 1 /\ s = r
     \/ /\ k.lost = j.lost
        /\ s = IF frame.rx \in {r.group, All} /\ frame.mac \in {j.mac, 0} THEN Obey(r, frame) ELSE r

\* The frames of a request to a group reach the receiver it is for, or all.
LEMMA FramesReach ==
  ASSUME NEW op, op.do \in {"upload", "speed", "pump", "mbOn", "mbOff", "unbind"},
         NEW at \in 1..Len(Script(op)), NEW frame, frame = Script(op)[at]
  PROVE  frame.rx \in {op.group, All} /\ frame.mac \in {op.mac, 0}
<1>1. CASE op.do = "upload"
  <2>1. frame = Meta(op) \/ frame = DataPart(op, at - MetaRepeats)
    BY <1>1, UploadFrames
  <2>. QED
    BY <2>1 DEF Meta, DataPart, Frame
<1>2. CASE op.do \in {"speed", "pump", "unbind"}
  <2>1. \/ frame = Assign(op.group, op.mac, Tx, op.group, op.arg) \/ frame = PumpParam(op)
        \/ frame = Assign(op.group, op.mac, None, Free, 0)
    BY <1>2, SpeedFrames
  <2>. QED
    BY <2>1 DEF Assign, PumpParam, Frame
<1>3. CASE op.do = "mbOn"
  <2>1. frame = Clock \/ frame = Assign(op.group, op.mac, Tx, op.group, SpeedMin)
    BY <1>3, FewFrames
  <2>. QED
    BY <2>1 DEF Assign, Clock, Frame
<1>4. CASE op.do = "mbOff"
  <2>1. frame \in {Clock, Release(op)}
    BY <1>4, ReleaseFrames
  <2>. QED
    BY <2>1 DEF Clock, Release, Frame
<1>. QED
  BY <1>1, <1>2, <1>3, <1>4

LEMMA SpeedSent ==
  ASSUME NEW j, NEW a, NEW k, NEW op, NEW frame, NEW r, NEW s, Transmits(j, a, k, op, frame, r, s),
         SpeedEffect(j, r)
  PROVE  SpeedEffect(k, s)
<1>. SUFFICES ASSUME j.req \in {"speed", "pwm", "mbOn"} PROVE SpeedEffect(k, s)
  BY DEF SpeedEffect, Transmits
<1>1. /\ j.at \in Nat \ {0} /\ j.lost \in Nat /\ k.at = j.at + 1 /\ k.req = j.req /\ k.group = j.group
      /\ k.arg = j.arg /\ Bound(j, r) /\ op.group = j.group /\ op.mac = j.mac /\ IsReceiver(r)
      /\ j.at \in 1..Len(Script(op)) /\ frame = Script(op)[j.at]
  BY DEF Transmits, IsRequest, IsOp, SpeedEffect
<1>2. CASE k.lost = j.lost + 1 /\ s = r
  BY <1>1, <1>2 DEF SpeedEffect, Bound
<1>3. CASE k.lost = j.lost
  <2>2. \/ op.do = "speed" /\ j.req = "speed" /\ op.arg = j.arg
        \/ op.do = "pump" /\ j.req = "speed" /\ op.arg = j.arg
        \/ op.do = "speed" /\ j.req = "pwm" /\ op.arg = SpeedMin
        \/ op.do = "mbOn" /\ j.req = "mbOn"
    BY DEF Transmits, IsOp, ToAll
  <2>6. op.do \in {"speed", "pump", "mbOn"} =>
          frame.rx \in {op.group, All} /\ frame.mac \in {op.mac, 0}
    BY <1>1, FramesReach
  <2>1. s = Obey(r, frame)
    BY <1>1, <1>3, <2>2, <2>6 DEF Transmits, Bound
  <2>3. CASE op.do = "speed"
    <3>1. frame = Assign(op.group, op.mac, Tx, op.group, op.arg)
      BY <1>1, <2>3, SpeedFrames
    <3>2. frame.cmd = "assign" /\ frame.master = Tx /\ frame.group = j.group /\ frame.arg = op.arg
      BY <1>1, <3>1 DEF Assign
    <3>3. s.master = Tx /\ s.group = j.group /\ s.pwm = op.arg /\ (op.arg = SpeedMin => s.mb)
      BY <1>1, <2>1, <3>2, ObeysAssign
    <3>. QED
      BY <1>1, <2>2, <2>3, <3>3 DEF SpeedEffect, Bound
  <2>4. CASE op.do = "pump"
    <3>1. frame = PumpParam(op)
      BY <1>1, <2>4, SpeedFrames
    <3>2. frame.cmd = "aio" /\ frame.arg = op.arg
      BY <3>1 DEF PumpParam, Frame
    <3>3. s.master = r.master /\ s.group = r.group /\ s.pwm = op.arg
      BY <1>1, <2>1, <3>2, ObeysOther DEF Bound
    <3>. QED
      BY <1>1, <2>2, <2>4, <3>3 DEF SpeedEffect, Bound
  <2>5. CASE op.do = "mbOn"
    <3>1. frame = IF j.at = 1 THEN Clock ELSE Assign(op.group, op.mac, Tx, op.group, SpeedMin)
      BY <1>1, <2>5, FewFrames
    <3>2. CASE j.at = 1
      <4>1. frame.cmd # "assign"
        BY <3>1, <3>2 DEF Clock, Frame
      <4>2. s.master = r.master /\ s.group = r.group
        BY <1>1, <2>1, <4>1, ObeysOther
      <4>. QED
        BY <1>1, <2>2, <2>5, <3>2, <4>2 DEF SpeedEffect, Bound
    <3>3. CASE j.at # 1
      <4>1. frame.cmd = "assign" /\ frame.master = Tx /\ frame.group = j.group /\ frame.arg = SpeedMin
        BY <1>1, <3>1, <3>3 DEF Assign
      <4>2. s.master = Tx /\ s.group = j.group /\ s.mb
        BY <1>1, <2>1, <4>1, ObeysAssign
      <4>. QED
        BY <1>1, <2>2, <2>5, <4>2 DEF SpeedEffect, Bound
    <3>. QED
      BY <3>2, <3>3
  <2>. QED
    BY <2>2, <2>3, <2>4, <2>5
<1>. QED
  BY <1>2, <1>3 DEF Transmits

LEMMA ReleaseSent ==
  ASSUME NEW j, NEW a, NEW k, NEW op, NEW frame, NEW r, NEW s, Transmits(j, a, k, op, frame, r, s),
         ReleaseEffect(j, r)
  PROVE  ReleaseEffect(k, s)
<1>. SUFFICES ASSUME j.req = "mbOff" PROVE ReleaseEffect(k, s)
  BY DEF ReleaseEffect, Transmits
<1>1. /\ j.at \in Nat \ {0} /\ j.lost \in Nat /\ k.at = j.at + 1 /\ k.req = j.req /\ k.group = j.group
      /\ k.arg = j.arg /\ k.ops = j.ops /\ op = j.ops[1]
      /\ Bound(j, r) /\ op.group = j.group /\ op.mac = j.mac /\ IsReceiver(r)
      /\ j.at \in 1..Len(Script(op)) /\ frame = Script(op)[j.at]
  BY DEF Transmits, IsRequest, IsOp, ReleaseEffect
<1>2. CASE k.lost = j.lost + 1 /\ s = r
  BY <1>1, <1>2 DEF ReleaseEffect, Bound
<1>3. CASE k.lost = j.lost
  <2>1. op.do = "mbOff" \/ (op.do = "speed" /\ op.arg = j.arg) \/ op.do = "lock"
    BY DEF Transmits, IsOp, ToAll
  <2>2. CASE op.do = "mbOff"
    <3>1. frame \in {Clock, Release(op)}
      BY <1>1, <2>2, ReleaseFrames
    <3>2. frame.cmd # "assign"
      BY <3>1 DEF Clock, Release, Frame
    <3>3. s = r \/ s = Obey(r, frame)
      BY <1>3 DEF Transmits
    <3>4. s.master = r.master /\ s.group = r.group
      BY <1>1, <3>2, <3>3, ObeysOther
    <3>. QED
      BY <1>1, <2>2, <3>4 DEF ReleaseEffect, Bound
  <2>3. CASE op.do = "speed" /\ op.arg = j.arg
    <3>1. frame = Assign(op.group, op.mac, Tx, op.group, op.arg)
      BY <1>1, <2>3, SpeedFrames
    <3>2. frame.cmd = "assign" /\ frame.master = Tx /\ frame.group = j.group /\ frame.arg = j.arg
      BY <1>1, <2>3, <3>1 DEF Assign
    <3>3. s = Obey(r, frame)
      <4>1. frame.rx \in {op.group, All} /\ frame.mac \in {op.mac, 0}
        BY <1>1, <2>3, FramesReach
      <4>. QED
        BY <1>1, <1>3, <4>1 DEF Transmits, Bound
    <3>4. s.master = Tx /\ s.group = j.group /\ s.pwm = j.arg
      BY <1>1, <3>2, <3>3, ObeysAssign
    <3>. QED
      BY <1>1, <2>3, <3>4 DEF ReleaseEffect, Bound
  <2>4. CASE op.do = "lock"
    <3>1. frame = Lock
      BY <1>1, <2>4, FewFrames
    <3>2. frame.cmd = "lock"
      BY <3>1 DEF Lock, Frame
    <3>3. s = r \/ s = Obey(r, frame)
      BY <1>3 DEF Transmits
    <3>4. s.master = r.master /\ s.group = r.group /\ s.pwm = r.pwm
      BY <1>1, <3>2, <3>3, ObeysOther
    <3>. QED
      BY <1>1, <1>3, <2>4, <3>4 DEF ReleaseEffect, Bound
  <2>. QED
    BY <2>1, <2>2, <2>3, <2>4
<1>. QED
  BY <1>2, <1>3 DEF Transmits

LEMMA UnbindSent ==
  ASSUME NEW j, NEW a, NEW k, NEW op, NEW frame, NEW r, NEW s, Transmits(j, a, k, op, frame, r, s),
         UnbindEffect(j, r)
  PROVE  UnbindEffect(k, s)
<1>. SUFFICES ASSUME j.req = "unbind" PROVE UnbindEffect(k, s)
  BY DEF UnbindEffect, Transmits
<1>1. /\ j.at \in Nat \ {0} /\ j.lost \in Nat /\ k.at = j.at + 1 /\ k.req = j.req /\ k.group = j.group
      /\ (r.master = None \/ Bound(j, r)) /\ op.group = j.group /\ op.mac = j.mac /\ IsReceiver(r)
      /\ j.at \in 1..Len(Script(op)) /\ frame = Script(op)[j.at] /\ op.do = "unbind"
  BY DEF Transmits, IsRequest, IsOp, UnbindEffect, ToAll
<1>2. CASE k.lost = j.lost + 1 /\ s = r
  BY <1>1, <1>2 DEF UnbindEffect, Bound
<1>3. CASE k.lost = j.lost
  <2>1. frame = Assign(op.group, op.mac, None, Free, 0)
    BY <1>1, SpeedFrames
  <2>2. frame.cmd = "assign" /\ frame.master = None
    BY <2>1 DEF Assign
  <2>3. frame.rx \in {op.group, All} /\ frame.mac \in {op.mac, 0}
    BY <1>1, FramesReach
  <2>4. Bound(j, r) => s = Obey(r, frame)
    BY <1>1, <1>3, <2>3 DEF Transmits, Bound
  <2>5. s = r \/ s = Obey(r, frame)
    BY <1>3 DEF Transmits
  <2>6. s = Obey(r, frame) => s.master = None
    BY <1>1, <2>2, ObeysAssign
  <2>7. s.master = None
    BY <1>1, <2>4, <2>5, <2>6
  <2>. QED
    BY <1>1, <2>7 DEF UnbindEffect
<1>. QED
  BY <1>2, <1>3 DEF Transmits

LEMMA BindSent ==
  ASSUME NEW j, NEW a, NEW k, NEW op, NEW frame, NEW r, NEW s, Transmits(j, a, k, op, frame, r, s),
         BindEffect(j, r)
  PROVE  BindEffect(k, s)
<1>. SUFFICES ASSUME j.req = "bind", k.lost <= 1 PROVE BindEffect(k, s)
  BY DEF BindEffect, Transmits
<1>1. /\ j.at \in Nat \ {0} /\ j.lost \in Nat /\ k.at = j.at + 1 /\ k.req = j.req /\ k.group = j.group
      /\ k.ops = j.ops /\ op = j.ops[1] /\ op.group = j.group /\ op.mac = j.mac /\ IsReceiver(r)
      /\ j.at \in 1..Len(Script(op)) /\ frame = Script(op)[j.at] /\ op.do \in {"bind", "lock"}
      /\ BindRepeats \in Nat /\ BindRepeats > 1 /\ LockRepeats \in Nat /\ k.lost \in {j.lost, j.lost + 1}
  BY Counts DEF Transmits, IsRequest, IsOp, ToAll
<1>2. CASE op.do = "lock"
  <2>1. Bound(j, r) /\ r.kept
    BY <1>1, <1>2 DEF BindEffect
  <2>2. frame = Lock
    BY <1>1, <1>2, FewFrames
  <2>3. frame.cmd = "lock"
    BY <2>2 DEF Lock, Frame
  <2>4. s = r \/ s = Obey(r, frame)
    BY DEF Transmits
  <2>5. s.master = r.master /\ s.group = r.group /\ s.kept
    BY <1>1, <2>1, <2>3, <2>4, ObeysOther
  <2>. QED
    BY <1>1, <1>2, <2>1, <2>5 DEF BindEffect, Bound
<1>3. CASE op.do = "bind" /\ k.lost = j.lost + 1 /\ s = r
  BY <1>1, <1>3 DEF BindEffect, Bound
<1>4. CASE op.do = "bind" /\ k.lost = j.lost
  <2>1. Len(Script(op)) = 1 + 2 * BindRepeats + LockRepeats
    BY <1>4, BindFrames
  <2>2. frame = IF j.at = 1 THEN Clock
                ELSE IF j.at <= 1 + 2 * BindRepeats
                THEN Assign(IF (j.at - 1) % 2 = 1 THEN Free ELSE All, op.mac, Tx, op.group, HalfSpeed)
                ELSE Lock
    BY <1>1, <1>4, BindFrames
  <2>3. j.lost = 0 \/ j.lost = 1
    BY <1>1, <1>4
  <2>4. /\ j.at >= 4 + 2 * j.lost => Bound(j, r)
        /\ j.at > 2 + 2 * BindRepeats + j.lost => r.kept
    BY <1>1, <1>4 DEF BindEffect
  <2>5. s = r \/ s = Obey(r, frame)
    BY <1>4 DEF Transmits
  <2>6. CASE j.at = 1
    <3>1. ~(k.at >= 4 + 2 * k.lost) /\ ~(k.at > 2 + 2 * BindRepeats + k.lost)
      BY <1>1, <1>4, <2>3, <2>6
    <3>. QED
      BY <1>1, <1>4, <3>1 DEF BindEffect
  <2>7. CASE j.at # 1 /\ j.at <= 1 + 2 * BindRepeats
    <3>1. /\ frame.cmd = "assign" /\ frame.master = Tx /\ frame.group = j.group
          /\ frame.mac = j.mac /\ (j.at \in {3, 5} => frame.rx = All)
      BY <1>1, <2>2, <2>7 DEF Assign
    <3>2. s = Obey(r, frame) => Bound(k, s)
      BY <1>1, <3>1, ObeysAssign DEF Bound
    <3>3. j.at \in {3, 5} => s = Obey(r, frame)
      BY <1>1, <1>4, <3>1 DEF Transmits
    <3>4. Bound(j, r) => Bound(k, s)
      BY <1>1, <2>5, <3>2 DEF Bound
    <3>5. k.at >= 4 + 2 * k.lost => j.at \in {3, 5} \/ j.at >= 4 + 2 * j.lost
      <4>1. j.at \in Nat /\ k.at = j.at + 1 /\ k.lost = j.lost
        BY <1>1, <1>4
      <4>2. CASE j.lost = 0
        BY <4>1, <4>2
      <4>3. CASE j.lost = 1
        BY <4>1, <4>3
      <4>. QED
        BY <2>3, <4>2, <4>3
    <3>6. ~(k.at > 2 + 2 * BindRepeats + k.lost)
      BY <1>1, <1>4, <2>3, <2>7
    <3>. QED
      BY <1>1, <1>4, <2>4, <3>2, <3>3, <3>4, <3>5, <3>6 DEF BindEffect
  <2>8. CASE j.at # 1 /\ ~(j.at <= 1 + 2 * BindRepeats)
    <3>1. frame.cmd = "lock" /\ frame.rx = All /\ frame.mac = 0
      BY <2>2, <2>8 DEF Lock, Frame
    <3>2. s = Obey(r, frame)
      BY <1>1, <1>4, <3>1 DEF Transmits
    <3>3. j.at >= 4 + 2 * j.lost
      BY <1>1, <2>3, <2>8
    <3>4. Bound(j, r)
      BY <2>4, <3>3
    <3>5. s.master = r.master /\ s.group = r.group /\ s.kept
      BY <1>1, <3>1, <3>2, <3>4, ObeysOther DEF Bound
    <3>. QED
      BY <1>1, <3>4, <3>5, <1>4 DEF BindEffect, Bound
  <2>. QED
    BY <2>6, <2>7, <2>8
<1>. QED
  BY <1>1, <1>2, <1>3, <1>4 DEF Transmits

\* A round keeps whole what it adds to; a frame of it that is lost adds nothing.
LEMMA RoundSent ==
  ASSUME NEW j, NEW a, NEW k, NEW op, NEW frame, NEW r, NEW s, Transmits(j, a, k, op, frame, r, s),
         NEW n, n \in {1, 2}, op.do = "upload", op.index = Round(a, n), op.arg = j.arg,
         Bound(j, r), Whole(j, a, n, r)
  PROVE  /\ Bound(k, s) /\ Whole(k, a, n, s)
         /\ k.lost = j.lost \/ (k.lost = j.lost + 1 /\ s = r)
         /\ r.shows = j.arg => s.shows = k.arg
         /\ k.lost = j.lost /\ Progress(j, a, n, r) => Progress(k, a, n, s)
         /\ n = 1 /\ r.index # Round(a, 2) => s.index # Round(a, 2)
<1>1. /\ j.at \in Nat \ {0} /\ j.lost \in Nat /\ k.at = j.at + 1 /\ k.req = j.req /\ k.group = j.group
      /\ k.arg = j.arg /\ op.group = j.group /\ op.mac = j.mac /\ IsReceiver(r)
      /\ j.at \in 1..Len(Script(op)) /\ frame = Script(op)[j.at] /\ a \in Nat
      /\ MetaRepeats \in Nat \ {0} /\ Parts \in Nat \ {0}
  BY Counts DEF Transmits, IsRequest, IsOp
<1>2. CASE k.lost = j.lost + 1 /\ s = r
  <2>1. k.lost # j.lost
    BY <1>1, <1>2
  <2>. QED
    BY <1>1, <1>2, <2>1 DEF Bound, Whole
<1>3. CASE k.lost = j.lost
  <2>1. frame.rx \in {op.group, All} /\ frame.mac \in {op.mac, 0}
    BY <1>1, FramesReach
  <2>2. s = Obey(r, frame)
    BY <1>1, <1>3, <2>1 DEF Transmits, Bound
  <2>3. Len(Script(op)) = MetaRepeats + Parts
    BY UploadFrames
  <2>4. CASE j.at <= MetaRepeats
    <3>1. frame = Meta(op)
      BY <1>1, <2>4, UploadFrames
    <3>2. frame.cmd = "meta" /\ frame.arg.index = Round(a, n)
      BY <3>1 DEF Meta, Frame
    <3>3. s.master = r.master /\ s.group = r.group
      BY <1>1, <2>2, <3>2, ObeysOther
    <3>4. /\ s.index = Round(a, n) /\ s.shows = r.shows
          /\ s.parts = IF r.index = Round(a, n) THEN r.parts ELSE {}
      BY <1>1, <2>2, <3>2, ObeysMeta
    <3>5. 1 \in 1..Parts
      BY <1>1
    <3>6. Whole(k, a, n, s)
      BY <1>1, <3>4, <3>5 DEF Whole
    <3>7. \A i \in 1..Parts : ~(i + MetaRepeats < k.at)
      BY <1>1, <2>4
    <3>8. Progress(k, a, n, s)
      BY <3>4, <3>7 DEF Progress
    <3>9. n = 1 => s.index # Round(a, 2)
      BY <1>1, <3>4 DEF Round
    <3>. QED
      BY <1>1, <1>3, <3>3, <3>4, <3>6, <3>8, <3>9 DEF Bound
  <2>5. CASE ~(j.at <= MetaRepeats)
    <3>. PICK p : p = j.at - MetaRepeats
      OBVIOUS
    <3>1. frame = DataPart(op, p)
      BY <1>1, <2>5, UploadFrames
    <3>2. p \in 1..Parts /\ j.at >= 2
      BY <1>1, <2>3, <2>5
    <3>3. /\ frame.cmd = "data" /\ frame.arg.index = Round(a, n) /\ frame.arg.part = p
          /\ frame.arg.effect = j.arg
      BY <3>1 DEF DataPart, Frame
    <3>4. s.master = r.master /\ s.group = r.group
      BY <1>1, <2>2, <3>3, ObeysOther
    <3>8. s.index = r.index
      BY <1>1, <2>2, <3>3, ObeysData
    <3>9. r.index # frame.arg.index => s.parts = r.parts /\ s.shows = r.shows
      BY <1>1, <2>2, <3>3, ObeysData
    <3>10. ASSUME r.index = frame.arg.index
           PROVE  /\ s.parts = r.parts \cup {p}
                  /\ s.shows = IF s.parts = 1..Parts THEN j.arg ELSE r.shows
      <4>2. IsReceiver(r) /\ s = Obey(r, frame) /\ frame.cmd = "data"
        BY <1>1, <2>2, <3>3
      <4>1. /\ s.parts = r.parts \cup {frame.arg.part}
            /\ s.shows = IF s.parts = 1..Parts THEN frame.arg.effect ELSE r.shows
        BY <3>10, <4>2, ObeysPart
      <4>. QED
        BY <3>3, <4>1
    <3>5. /\ s.index = r.index
          /\ s.parts = IF r.index = Round(a, n) THEN r.parts \cup {p} ELSE r.parts
          /\ s.shows = IF r.index = Round(a, n) /\ s.parts = 1..Parts THEN j.arg ELSE r.shows
      BY <3>3, <3>8, <3>9, <3>10
    <3>6. Whole(k, a, n, s)
      BY <1>1, <3>2, <3>5 DEF Whole
    <3>7. ASSUME Progress(j, a, n, r) PROVE Progress(k, a, n, s)
      <4>1. r.index = Round(a, n)
        BY <3>2, <3>7 DEF Progress
      <4>2. ASSUME NEW i \in 1..Parts, i + MetaRepeats < k.at PROVE i \in s.parts
        <5>1. i + MetaRepeats < j.at \/ i = p
          BY <1>1, <4>2
        <5>. QED
          BY <3>5, <3>7, <4>1, <5>1 DEF Progress
      <4>. QED
        BY <3>5, <4>1, <4>2 DEF Progress
    <3>. QED
      BY <1>1, <1>3, <3>4, <3>5, <3>6, <3>7 DEF Bound
  <2>. QED
    BY <2>4, <2>5
<1>. QED
  BY <1>2, <1>3 DEF Transmits

LEMMA UploadSent ==
  ASSUME NEW j, NEW a, NEW k, NEW op, NEW frame, NEW r, NEW s, Transmits(j, a, k, op, frame, r, s),
         UploadEffect(j, a, r)
  PROVE  UploadEffect(k, a, s)
<1>. SUFFICES ASSUME j.req = "rgb" PROVE UploadEffect(k, a, s)
  BY DEF UploadEffect, Transmits
<1>1. /\ j.lost \in Nat /\ k.req = j.req /\ k.group = j.group /\ k.ops = j.ops
      /\ k.arg = j.arg /\ j.at \in 1..Len(Script(op)) /\ Len(j.ops) \in Nat \ {0}
      /\ Bound(j, r)
  BY DEF Transmits, IsRequest, UploadEffect
<1>2. \/ Len(j.ops) = 2 /\ op.do = "listen"
      \/ Len(j.ops) = 1 /\ op.do = "upload" /\ op.arg = j.arg /\ op.index = Round(a, 2)
      \/ Len(j.ops) = 3 /\ op.do = "upload" /\ op.arg = j.arg /\ op.index = Round(a, 1)
  BY DEF Transmits, IsOp, ToAll, Round
<1>3. op.do # "listen"
  BY <1>1, FewFrames
<1>4. CASE Len(j.ops) = 3
  <2>1. Whole(j, a, 1, r) /\ r.index # Round(a, 2) /\ (j.lost = 0 => Progress(j, a, 1, r))
    BY <1>1, <1>4 DEF UploadEffect
  <2>2. /\ Bound(k, s) /\ Whole(k, a, 1, s)
        /\ k.lost = j.lost \/ (k.lost = j.lost + 1 /\ s = r)
        /\ k.lost = j.lost /\ Progress(j, a, 1, r) => Progress(k, a, 1, s)
        /\ s.index # Round(a, 2)
    <3>1. op.do = "upload" /\ op.index = Round(a, 1) /\ op.arg = j.arg
      BY <1>2, <1>4
    <3>. QED
      BY <1>1, <2>1, <3>1, RoundSent
  <2>3. k.lost = 0 => k.lost = j.lost
    BY <1>1, <2>2
  <2>. QED
    BY <1>1, <1>4, <2>1, <2>2, <2>3 DEF UploadEffect
<1>5. CASE Len(j.ops) = 1
  <2>1. /\ Whole(j, a, 2, r) /\ (j.lost = 0 => r.shows = j.arg)
        /\ j.lost <= 1 => r.shows = j.arg \/ Progress(j, a, 2, r)
    BY <1>1, <1>5 DEF UploadEffect
  <2>2. /\ Bound(k, s) /\ Whole(k, a, 2, s)
        /\ k.lost = j.lost \/ (k.lost = j.lost + 1 /\ s = r)
        /\ r.shows = j.arg => s.shows = k.arg
        /\ k.lost = j.lost /\ Progress(j, a, 2, r) => Progress(k, a, 2, s)
    <3>1. op.do = "upload" /\ op.index = Round(a, 2) /\ op.arg = j.arg
      BY <1>2, <1>5
    <3>. QED
      BY <1>1, <2>1, <3>1, RoundSent
  <2>3. (k.lost = 0 => j.lost = 0) /\ (k.lost <= 1 => k.lost = j.lost \/ j.lost = 0)
    BY <1>1, <2>2
  <2>. QED
    BY <1>1, <1>5, <2>1, <2>2, <2>3 DEF UploadEffect
<1>. QED
  BY <1>2, <1>3, <1>4, <1>5

-----------------------------------------------------------------------------
Addressed ==
  job.mac \in job.members \/ (job.req = "bind" /\ job.mac \in OnAir(host.channel))

\* The receiver a request is for goes on hearing it.
OkInv ==
  Working /\ Addressed =>
    /\ job.mac \in Fans /\ fan[job.mac].on /\ fan[job.mac].channel = host.channel
    /\ Effect(job, asked, fan[job.mac])

\* No receiver has seen the index of an upload that has not begun.
Indices ==
  /\ Working => asked > 0
  /\ \A f \in Fans : \E a, k \in Nat : fan[f].index = <<a, k>> /\ (a < asked \/ k = 0)

DoneInv == LinkInv /\ RecoveryInv /\ OkInv /\ Indices

\* An operation begins again.
LEMMA RestartEffect ==
  ASSUME NEW j, NEW a, NEW k, NEW r, Effect(j, a, r), j.lost \in Nat,
         k.req = j.req, k.group = j.group, k.mac = j.mac, k.arg = j.arg, k.lost = j.lost, k.at = 1,
         Len(k.ops) = Len(j.ops), k.ops[1].do = j.ops[1].do
  PROVE  Effect(k, a, r)
<1>1. SpeedEffect(k, r) /\ ReleaseEffect(k, r) /\ UnbindEffect(k, r)
  BY DEF Effect, SpeedEffect, ReleaseEffect, UnbindEffect, Bound
<1>2. BindEffect(k, r)
  <2>1. ~(k.at >= 4 + 2 * k.lost) /\ ~(k.at > 2 + 2 * BindRepeats + k.lost)
    BY Counts
  <2>. QED
    BY <2>1 DEF Effect, BindEffect, Bound
<1>3. \A n : Whole(j, a, n, r) => Whole(k, a, n, r)
  BY DEF Whole
<1>4. \A n : Progress(k, a, n, r)
  <2>1. \A i \in 1..Parts : ~(i + MetaRepeats < k.at)
    BY Counts
  <2>. QED
    BY <2>1 DEF Progress
<1>5. UploadEffect(k, a, r)
  BY <1>3, <1>4 DEF Effect, UploadEffect, Bound
<1>. QED
  BY <1>1, <1>2, <1>5 DEF Effect

\* A round whose frames all went out has been taken when none of them was lost.
LEMMA RoundThrough ==
  ASSUME NEW j, NEW a, NEW n, NEW r, NEW op, op.do = "upload", j.at \in Nat, j.at > Len(Script(op)),
         Whole(j, a, n, r), Progress(j, a, n, r)
  PROVE  r.shows = j.arg
<1>1. MetaRepeats \in Nat \ {0} /\ Parts \in Nat \ {0} /\ Len(Script(op)) = MetaRepeats + Parts
  BY Counts, UploadFrames
<1>2. j.at >= 2 /\ \A i \in 1..Parts : i + MetaRepeats < j.at
  BY <1>1
<1>3. r.index = Round(a, n) /\ 1..Parts \subseteq r.parts
  BY <1>2 DEF Progress
<1>4. r.parts = 1..Parts
  BY <1>3 DEF Whole
<1>. QED
  BY <1>3, <1>4 DEF Whole

LEMMA BetweenRounds ==
  ASSUME NEW k, NEW a, NEW r, Bound(k, r), Len(k.ops) = 2, r.index # Round(a, 2),
         k.lost = 0 => r.shows = k.arg
  PROVE  UploadEffect(k, a, r)
  BY DEF UploadEffect
LEMMA LastRound ==
  ASSUME NEW k, NEW a, NEW r, Bound(k, r), Len(k.ops) = 1, Whole(k, a, 2, r),
         k.lost = 0 => r.shows = k.arg, k.lost <= 1 => r.shows = k.arg \/ Progress(k, a, 2, r)
  PROVE  UploadEffect(k, a, r)
  BY DEF UploadEffect

\* The operations of a release from the motherboard, by what is left after each.
LEMMA ReleaseOps ==
  ASSUME NEW j, NEW a, NEW op, NEW left, IsOp(j, a, op, left), j.req = "mbOff"
  PROVE  /\ left = 2 => op.do = "mbOff"
         /\ left = 1 => op.do = "speed"
         /\ left = 0 => op.do = "lock"
  BY DEF IsOp, ToAll

\* The next operation begins when the frames of the last are through.
LEMMA NextEffect ==
  ASSUME NEW j, NEW a, NEW k, NEW r, IsRequest(j, a), Effect(j, a, r),
         Len(j.ops) # 1, j.at > Len(Script(j.ops[1])),
         k.req = j.req, k.group = j.group, k.mac = j.mac, k.arg = j.arg, k.lost = j.lost, k.at = 1,
         k.ops = Tail(j.ops)
  PROVE  Effect(k, a, r)
<1>. PICK ops : ops = j.ops
  OBVIOUS
<1>. PICK rest : rest = Tail(ops)
  OBVIOUS
<1>. PICK op : op = ops[1]
  OBVIOUS
<1>. PICK next : next = ops[2]
  OBVIOUS
<1>1. /\ j.at \in Nat \ {0} /\ j.lost \in Nat /\ IsList(ops) /\ ops # <<>>
      /\ \A i \in 1..Len(ops) : IsOp(j, a, ops[i], Len(ops) - i)
  BY DEF IsRequest
<1>2. /\ Len(rest) = Len(ops) - 1 /\ Len(ops) \in Nat /\ rest # <<>> /\ IsList(rest)
      /\ \A i \in 1..Len(rest) : rest[i] = ops[i + 1] /\ i + 1 \in 1..Len(ops)
  BY <1>1, TailOps
<1>3. 1 \in 1..Len(rest) /\ 1 \in 1..Len(ops) /\ 2 \in 1..Len(ops)
  <2>1. PICK S : rest \in Seq(S)
    BY <1>2 DEF IsList
  <2>2. Len(rest) \in Nat \ {0}
    BY <1>2, <2>1
  <2>. QED
    BY <1>2, <2>2
<1>4. rest[1] = next /\ IsOp(j, a, op, Len(ops) - 1) /\ IsOp(j, a, next, Len(ops) - 2)
  BY <1>1, <1>2, <1>3
<1>5. k.ops = rest /\ k.ops[1] = next /\ j.at > Len(Script(op)) /\ Len(ops) > 1
  BY <1>2, <1>3, <1>4
<1>6. \/ j.req = "rgb" /\ Len(ops) = 2 /\ op.do = "listen"
      \/ j.req = "rgb" /\ Len(ops) = 3 /\ op.do = "upload"
      \/ j.req = "mbOff" /\ Len(ops) = 3 /\ next.do = "speed"
      \/ j.req = "mbOff" /\ Len(ops) = 2 /\ op.do = "speed" /\ next.do = "lock"
      \/ j.req = "bind" /\ op.do = "bind"
  <2>. PICK left : left = Len(ops) - 1
    OBVIOUS
  <2>. PICK after : after = Len(ops) - 2
    OBVIOUS
  <2>1. /\ left # 0 /\ (left = 2 => Len(ops) = 3 /\ after = 1) /\ (left = 1 => Len(ops) = 2 /\ after = 0)
        /\ IsOp(j, a, op, left) /\ IsOp(j, a, next, after)
    BY <1>2, <1>4, <1>5
  <2>2. \/ j.req = "rgb" /\ left = 1 /\ op.do = "listen"
        \/ j.req = "rgb" /\ left = 2 /\ op.do = "upload"
        \/ j.req = "mbOff" /\ left = 2
        \/ j.req = "mbOff" /\ left = 1 /\ op.do = "speed"
        \/ j.req = "bind" /\ op.do = "bind"
    <3>1. left # 0 /\ IsOp(j, a, op, left)
      BY <2>1
    <3>. QED
      BY <3>1 DEF IsOp
  <2>3. j.req = "mbOff" /\ after = 1 => next.do = "speed"
    BY <2>1, ReleaseOps
  <2>4. j.req = "mbOff" /\ after = 0 => next.do = "lock"
    BY <2>1, ReleaseOps
  <2>. QED
    BY <2>1, <2>2, <2>3, <2>4
<1>7. SpeedEffect(k, r) /\ UnbindEffect(k, r)
  BY <1>6 DEF SpeedEffect, UnbindEffect
<1>8. ReleaseEffect(k, r)
  <2>. SUFFICES ASSUME j.req = "mbOff" PROVE ReleaseEffect(k, r)
    BY DEF ReleaseEffect
  <2>1. /\ Bound(j, r) /\ Bound(k, r) /\ (op.do = "speed" /\ j.at - 1 > j.lost => r.pwm = j.arg)
    BY DEF Effect, ReleaseEffect, Bound
  <2>2. CASE next.do = "speed"
    BY <1>1, <1>5, <2>1, <2>2 DEF ReleaseEffect
  <2>3. CASE op.do = "speed" /\ next.do = "lock"
    <3>1. Len(Script(op)) = SpeedRepeats /\ SpeedRepeats \in Nat /\ SpeedRepeats > 1
      BY <2>3, SpeedFrames, Counts
    <3>2. j.lost <= 1 => j.at - 1 > j.lost
      BY <1>1, <1>5, <3>1
    <3>. QED
      BY <1>5, <2>1, <2>3, <3>2 DEF ReleaseEffect
  <2>. QED
    BY <1>6, <2>2, <2>3
<1>9. BindEffect(k, r)
  <2>. SUFFICES ASSUME j.req = "bind", j.lost <= 1 PROVE BindEffect(k, r)
    BY DEF BindEffect
  <2>1. ~(k.at >= 4 + 2 * k.lost) /\ ~(k.at > 2 + 2 * BindRepeats + k.lost)
    BY Counts, <1>1
  <2>2. op.do = "bind"
    BY <1>6
  <2>3. Len(Script(op)) = 1 + 2 * BindRepeats + LockRepeats
    BY <2>2, BindFrames
  <2>4. j.at >= 4 + 2 * j.lost /\ j.at > 2 + 2 * BindRepeats + j.lost
    BY <1>1, <1>5, <2>3, Counts
  <2>5. Bound(j, r) /\ r.kept
    BY <2>2, <2>4 DEF Effect, BindEffect
  <2>. QED
    BY <2>1, <2>5 DEF BindEffect, Bound
<1>10. UploadEffect(k, a, r)
  <2>. SUFFICES ASSUME j.req = "rgb" PROVE UploadEffect(k, a, r)
    BY DEF UploadEffect
  <2>0. UploadEffect(j, a, r) /\ Bound(k, r)
    BY DEF Effect, UploadEffect, Bound
  <2>1. CASE Len(ops) = 3 /\ op.do = "upload"
    <3>1. Whole(j, a, 1, r) /\ r.index # Round(a, 2) /\ (j.lost = 0 => Progress(j, a, 1, r))
      BY <2>0, <2>1 DEF UploadEffect
    <3>2. j.lost = 0 => r.shows = j.arg
      BY <1>1, <1>5, <2>1, <3>1, RoundThrough
    <3>3. Len(k.ops) = 2
      BY <1>2, <1>5, <2>1
    <3>. QED
      BY <2>0, <3>1, <3>2, <3>3, BetweenRounds
  <2>2. CASE Len(ops) = 2
    <3>1. r.index # Round(a, 2) /\ (j.lost = 0 => r.shows = j.arg)
      BY <2>0, <2>2 DEF UploadEffect
    <3>2. Len(k.ops) = 1
      BY <1>2, <1>5, <2>2
    <3>3. Whole(k, a, 2, r)
      BY <3>1 DEF Whole
    <3>4. Progress(k, a, 2, r)
      <4>1. \A i \in 1..Parts : ~(i + MetaRepeats < k.at)
        BY Counts
      <4>. QED
        BY <4>1 DEF Progress
    <3>. QED
      BY <2>0, <3>1, <3>2, <3>3, <3>4, LastRound
  <2>. QED
    BY <1>6, <2>1, <2>2
<1>. QED
  BY <1>7, <1>8, <1>9, <1>10 DEF Effect

-----------------------------------------------------------------------------
(* Every step keeps the invariant of the requests. *)

\* The receiver goes on being addressed, and goes on hearing.
LEMMA StaysAddressed ==
  ASSUME OkInv, Working, Addressed', job'.req = job.req, job'.mac = job.mac,
         job'.members = job.members, host'.channel = host.channel,
         \A f \in Fans : fan'[f].on = fan[f].on /\ fan'[f].channel = fan[f].channel
  PROVE  /\ Addressed /\ Effect(job, asked, fan[job.mac])
         /\ job.mac \in Fans /\ fan[job.mac].on /\ fan[job.mac].channel = host.channel
         /\ fan'[job'.mac].on /\ fan'[job'.mac].channel = host'.channel
<1>1. Addressed
  BY DEF Addressed, OnAir, Powered
<1>. QED
  BY <1>1 DEF OkInv

\* Only an upload has metadata, with the index of its round.
LEMMA UploadIndex ==
  ASSUME JobShape, Working, NEW at \in 1..Len(Script(job.ops[1])), NEW frame,
         frame = Script(job.ops[1])[at], frame.cmd = "meta"
  PROVE  \E k \in Nat : frame.arg.index = Round(asked, k)
<1>1. IsOp(job, asked, job.ops[1], Len(job.ops) - 1)
  BY FirstOp
<1>. PICK op : op = job.ops[1]
  OBVIOUS
<1>0. at \in 1..Len(Script(op)) /\ frame = Script(op)[at]
  OBVIOUS
<1>2. \/ op.do = "upload" /\ \E k \in Nat : op.index = Round(asked, k)
      \/ op.do \in {"lock", "unlock", "order", "reset", "listen"}
      \/ op.do \in {"speed", "pump", "unbind"} \/ op.do = "mbOn" \/ op.do = "mbOff" \/ op.do = "bind"
  BY <1>1 DEF IsOp, ToAll, Round
<1>3. CASE op.do = "upload" /\ \E k \in Nat : op.index = Round(asked, k)
  <2>1. frame = Meta(op) \/ frame = DataPart(op, at - MetaRepeats)
    BY <1>0, <1>3, UploadFrames
  <2>2. frame = Meta(op)
    BY <2>1 DEF DataPart, Frame
  <2>3. frame.arg.index = op.index
    BY <2>2 DEF Meta, Frame
  <2>. QED
    BY <1>3, <2>3
<1>4. CASE op.do \in {"lock", "unlock", "order", "reset", "listen"}
  <2>1. frame \in {Lock, Clock, LcdReset(op)}
    BY <1>0, <1>4, FewFrames
  <2>. QED
    BY <2>1 DEF Lock, Clock, LcdReset, Frame
<1>5. CASE op.do \in {"speed", "pump", "unbind"}
  <2>1. frame \in {Assign(op.group, op.mac, Tx, op.group, op.arg), PumpParam(op),
                   Assign(op.group, op.mac, None, Free, 0)}
    BY <1>0, <1>5, SpeedFrames
  <2>. QED
    BY <2>1 DEF Assign, PumpParam, Frame
<1>6. CASE op.do = "mbOn"
  <2>1. frame = Clock \/ frame = Assign(op.group, op.mac, Tx, op.group, SpeedMin)
    BY <1>0, <1>6, FewFrames
  <2>. QED
    BY <2>1 DEF Assign, Clock, Frame
<1>7. CASE op.do = "mbOff"
  <2>1. frame \in {Clock, Release(op)}
    BY <1>0, <1>7, ReleaseFrames
  <2>. QED
    BY <2>1 DEF Clock, Release, Frame
<1>8. CASE op.do = "bind"
  <2>1. \/ frame = Clock \/ frame = Lock
        \/ \E rx : frame = Assign(rx, op.mac, Tx, op.group, HalfSpeed)
    BY <1>0, <1>8, BindFrames
  <2>2. (\E rx : frame = Assign(rx, op.mac, Tx, op.group, HalfSpeed)) => frame.cmd = "assign"
    BY DEF Assign
  <2>3. frame # Clock /\ frame # Lock
    BY DEF Clock, Lock, Frame
  <2>. QED
    BY <2>1, <2>2, <2>3
<1>. QED
  BY <1>2, <1>3, <1>4, <1>5, <1>6, <1>7, <1>8

LEMMA SendDone ==
  ASSUME DoneInv, Send
  PROVE  OkInv' /\ Indices'
<1>0. JobShape /\ Working /\ FanShape /\ OkInv /\ Indices /\ asked \in Nat /\ UNCHANGED <<host, asked>>
  BY DEF DoneInv, LinkInv, WorldShape, Send, JobShape
<1>1. /\ IsRequest(job, asked) /\ IsOp(job, asked, job.ops[1], Len(job.ops) - 1)
      /\ Len(job.ops) \in Nat \ {0}
  BY <1>0, FirstOp
<1>2. PICK frame : SentFrame(frame)
  BY <1>0, SendFrame DEF DoneInv, LinkInv
<1>3. /\ job.at \in 1..Len(Script(job.ops[1])) /\ frame = Script(job.ops[1])[job.at]
      /\ job' = Resent(job, job.at + 1, job.tried, job'.lost)
      /\ job'.lost = job.lost \/ job'.lost = job.lost + 1
      /\ \A f \in Fans :
           fan'[f] = IF Listens(f, frame) /\ (job'.lost # job.lost => job.mac # f)
                     THEN Obey(fan[f], frame) ELSE fan[f]
  BY <1>2 DEF SentFrame
<1>4. /\ job'.req = job.req /\ job'.group = job.group /\ job'.mac = job.mac /\ job'.arg = job.arg
      /\ job'.ops = job.ops /\ job'.at = job.at + 1 /\ job'.members = job.members
  BY <1>1, <1>3, ResentRecord
<1>5. \A f \in Fans : IsReceiver(fan[f])
  BY <1>0 DEF FanShape
<1>6. \A f \in Fans : fan'[f].on = fan[f].on /\ fan'[f].channel = fan[f].channel
  BY <1>3, <1>5, Obeys
<1>7. OkInv'
  <2>. SUFFICES ASSUME Addressed'
                PROVE  (/\ job.mac \in Fans /\ fan[job.mac].on /\ fan[job.mac].channel = host.channel
                        /\ Effect(job, asked, fan[job.mac]))'
    BY DEF OkInv
  <2>1. /\ Addressed /\ Effect(job, asked, fan[job.mac])
        /\ job.mac \in Fans /\ fan[job.mac].on /\ fan[job.mac].channel = host.channel
        /\ fan'[job'.mac].on /\ fan'[job'.mac].channel = host'.channel
    BY <1>0, <1>4, <1>6, StaysAddressed
  <2>. PICK r : r = fan[job.mac]
    OBVIOUS
  <2>. PICK s : s = fan'[job.mac]
    OBVIOUS
  <2>. PICK op : op = job.ops[1]
    OBVIOUS
  <2>2. \/ job'.lost = job.lost + 1 /\ s = r
        \/ /\ job'.lost = job.lost
           /\ s = IF frame.rx \in {r.group, All} /\ frame.mac \in {job.mac, 0} THEN Obey(r, frame) ELSE r
    <3>1. CASE job'.lost = job.lost
      BY <1>3, <2>1, <3>1 DEF Listens
    <3>2. CASE job'.lost # job.lost
      BY <1>3, <2>1, <3>2
    <3>. QED
      BY <3>1, <3>2
  <2>3. Transmits(job, asked, job', op, frame, r, s)
    BY <1>0, <1>1, <1>3, <1>4, <1>5, <2>1, <2>2 DEF Transmits
  <2>4. Effect(job, asked, r)
    BY <2>1
  <2>5. Effect(job', asked, s)
    BY <2>3, <2>4, SpeedSent, ReleaseSent, UnbindSent, BindSent, UploadSent DEF Effect
  <2>. QED
    BY <1>0, <1>4, <2>1, <2>5
<1>8. Indices'
  <2>1. ASSUME NEW f \in Fans
        PROVE  \E a, k \in Nat : fan'[f].index = <<a, k>> /\ (a < asked \/ k = 0)
    <3>1. CASE frame.cmd = "meta" /\ fan'[f] = Obey(fan[f], frame)
      <4>1. fan'[f].index = frame.arg.index
        BY <1>5, <3>1, ObeysMeta
      <4>2. PICK k \in Nat : frame.arg.index = Round(asked, k)
        BY <1>0, <1>3, <3>1, UploadIndex
      <4>3. asked - 1 \in Nat /\ asked - 1 < asked
        BY <1>0 DEF Indices
      <4>. QED
        BY <4>1, <4>2, <4>3 DEF Round
    <3>2. CASE ~(frame.cmd = "meta" /\ fan'[f] = Obey(fan[f], frame))
      <4>1. fan'[f].index = fan[f].index
        BY <1>3, <1>5, <3>2, ObeysAside, ObeysData
      <4>. QED
        BY <1>0, <4>1 DEF Indices
    <3>. QED
      BY <3>1, <3>2
  <2>. QED
    BY <1>0, <2>1 DEF Indices
<1>. QED
  BY <1>7, <1>8

\* Steps that leave the receivers alone.
LEMMA StillIndices ==
  ASSUME Indices, asked \in Nat, UNCHANGED fan, asked' = asked \/ asked' = asked + 1,
         Working' => asked' > 0
  PROVE  Indices'
<1>1. ASSUME NEW f \in Fans
      PROVE  \E a, k \in Nat : fan'[f].index = <<a, k>> /\ (a < asked' \/ k = 0)
  <2>1. PICK a, k \in Nat : fan[f].index = <<a, k>> /\ (a < asked \/ k = 0)
    BY DEF Indices
  <2>2. a < asked => a < asked'
    OBVIOUS
  <2>. QED
    BY <2>1, <2>2
<1>. QED
  BY <1>1 DEF Indices

LEMMA Resting ==
  ASSUME Indices, asked \in Nat, ~Working', UNCHANGED fan, asked' = asked \/ asked' = asked + 1
  PROVE  OkInv' /\ Indices'
  BY StillIndices DEF OkInv

LEMMA IdleRests ==
  ASSUME job' = Idle \/ job'.req = "discover"
  PROVE  ~Working'
  BY DEF Working, Idle

\* The request goes on with another operation, or the same again.
LEMMA GoesOn ==
  ASSUME DoneInv, Working, UNCHANGED <<fan, asked>>, host'.channel = host.channel,
         job'.req = job.req, job'.mac = job.mac, job'.members = job.members,
         Effect(job, asked, fan[job.mac]) => Effect(job', asked, fan[job.mac])
  PROVE  OkInv' /\ Indices'
<1>1. OkInv'
  <2>. SUFFICES ASSUME Addressed'
                PROVE  (/\ job.mac \in Fans /\ fan[job.mac].on /\ fan[job.mac].channel = host.channel
                        /\ Effect(job, asked, fan[job.mac]))'
    BY DEF OkInv
  <2>1. /\ Addressed /\ Effect(job, asked, fan[job.mac])
        /\ job.mac \in Fans /\ fan[job.mac].on /\ fan[job.mac].channel = host.channel
        /\ fan'[job'.mac].on /\ fan'[job'.mac].channel = host'.channel
    BY StaysAddressed DEF DoneInv
  <2>. QED
    BY <2>1
<1>2. Indices'
  BY DEF DoneInv, Indices, Working
<1>. QED
  BY <1>1, <1>2

LEMMA NextDone ==
  ASSUME DoneInv, Working, Len(job.ops) # 1, job.at > Len(Script(job.ops[1])), job' = NextOp,
         UNCHANGED <<fan, asked>>, host'.channel = host.channel
  PROVE  OkInv' /\ Indices'
<1>1. IsRequest(job, asked)
  BY FirstOp DEF DoneInv, LinkInv
<1>2. /\ job'.req = job.req /\ job'.group = job.group /\ job'.mac = job.mac /\ job'.arg = job.arg
      /\ job'.lost = job.lost /\ job'.at = 1 /\ job'.ops = Tail(job.ops)
      /\ job'.members = job.members
  BY <1>1 DEF IsRequest, NextOp
<1>3. Effect(job, asked, fan[job.mac]) => Effect(job', asked, fan[job.mac])
  BY <1>1, <1>2, NextEffect
<1>. QED
  BY <1>2, <1>3, GoesOn

LEMMA SentDone ==
  ASSUME DoneInv, Sent
  PROVE  OkInv' /\ Indices'
<1>1. /\ JobShape /\ Working /\ UNCHANGED <<fan, asked>> /\ Head(job.ops) = job.ops[1]
      /\ asked \in Nat /\ Indices
  BY FirstOp DEF DoneInv, LinkInv, Sent, JobShape
<1>2. host'.channel = host.channel
  BY DrainSpares DEF Sent, DoneInv, RecoveryInv, HostShape, DrainRx
<1>3. CASE Len(job.ops) = 1
  BY <1>1, <1>3, Resting, IdleRests DEF Sent
<1>4. CASE Len(job.ops) # 1
  BY <1>1, <1>2, <1>4, NextDone DEF Sent
<1>. QED
  BY <1>3, <1>4

LEMMA SameChannel ==
  ASSUME RecoveryInv, NEW s \in Sides, Recover(s)
  PROVE  host'.channel = host.channel
  BY DEF RecoveryInv, HostShape, Recover

LEMMA SendAgainDone ==
  ASSUME DoneInv, SendAgain
  PROVE  OkInv' /\ Indices'
<1>1. IsRequest(job, asked) /\ Working /\ UNCHANGED <<fan, asked>>
  BY FirstOp DEF DoneInv, LinkInv, SendAgain, WriteFails
<1>2. host'.channel = host.channel
  BY SameChannel DEF SendAgain, DoneInv, Sides
<1>3. /\ job'.req = job.req /\ job'.group = job.group /\ job'.mac = job.mac /\ job'.arg = job.arg
      /\ job'.lost = job.lost /\ job'.at = 1 /\ job'.ops = job.ops /\ job'.members = job.members
      /\ job.lost \in Nat
  BY <1>1 DEF IsRequest, SendAgain
<1>4. Effect(job, asked, fan[job.mac]) => Effect(job', asked, fan[job.mac])
  BY <1>3, RestartEffect
<1>. QED
  BY <1>1, <1>2, <1>3, <1>4, GoesOn

-----------------------------------------------------------------------------
\* An operation whose failure is passed over is the lock after a binding.
LEMMA SoftLast ==
  ASSUME NEW j, NEW a, NEW op, NEW left, IsOp(j, a, op, left), op.soft
  PROVE  j.req = "bind" /\ op.do = "lock" /\ left = 0
  BY DEF IsOp, ToAll

LEMMA GiveUpDone ==
  ASSUME DoneInv, GiveUp
  PROVE  OkInv' /\ Indices'
<1>1. /\ IsRequest(job, asked) /\ Working /\ UNCHANGED <<fan, asked>> /\ Head(job.ops) = job.ops[1]
      /\ IsOp(job, asked, job.ops[1], Len(job.ops) - 1) /\ Len(job.ops) \in Nat \ {0}
      /\ asked \in Nat /\ Indices
  BY FirstOp DEF DoneInv, LinkInv, GiveUp, WriteFails, JobShape
<1>2. host'.channel = host.channel
  BY SameChannel DEF GiveUp, DoneInv, Sides
<1>3. CASE job' = Idle
  BY <1>1, <1>3, Resting, IdleRests
<1>4. CASE \E t : job' = Retry(job, t)
  <2>1. PICK t : job' = Retry(job, t)
    BY <1>4
  <2>2. PICK q : q = Retried(job.ops, t)
    OBVIOUS
  <2>3. /\ job'.req = job.req /\ job'.group = job.group /\ job'.mac = job.mac /\ job'.arg = job.arg
        /\ job'.lost = job.lost /\ job'.at = 1 /\ job'.ops = q /\ job'.members = job.members
        /\ job.lost \in Nat /\ IsList(job.ops) /\ job.ops # <<>>
    BY <1>1, <2>1, <2>2 DEF IsRequest, Retry
  <2>4. Len(q) = Len(job.ops) /\ q[1] = [job.ops[1] EXCEPT !.tries = t]
    BY <2>2, <2>3, TriedOps
  <2>5. q[1].do = job.ops[1].do
    BY <1>1, <2>4 DEF IsOp, OpFields
  <2>6. Effect(job, asked, fan[job.mac]) => Effect(job', asked, fan[job.mac])
    BY <2>3, <2>4, <2>5, RestartEffect
  <2>. QED
    BY <1>1, <1>2, <2>3, <2>6, GoesOn
<1>5. \/ job' = Idle
      \/ \E t : job' = Retry(job, t)
      \/ job.ops[1].soft /\ Len(job.ops) > 1
  BY <1>1 DEF GiveUp, Retry, Retried
<1>6. ~(job.ops[1].soft /\ Len(job.ops) > 1)
  <2>1. PICK n : n = Len(job.ops)
    OBVIOUS
  <2>2. job.ops[1].soft => n - 1 = 0
    BY <1>1, <2>1, SoftLast
  <2>3. n \in Nat
    BY <1>1, <2>1
  <2>4. n - 1 = 0 => ~(n > 1)
    BY <2>3
  <2>. QED
    BY <2>1, <2>2, <2>4
<1>. QED
  BY <1>3, <1>4, <1>5, <1>6

-----------------------------------------------------------------------------
\* A request begins with nothing brought about, and an index nobody has seen.
LEMMA BegunEffect ==
  ASSUME NEW j, NEW a, NEW r, j.at = 1, j.lost = 0, j.req = "bind" \/ Bound(j, r),
         j.req = "rgb" => Len(j.ops) = 3, j.req = "bind" => j.ops[1].do = "bind",
         j.req = "mbOff" => j.ops[1].do = "mbOff",
         r.index # Round(a, 1), r.index # Round(a, 2)
  PROVE  Effect(j, a, r)
<1>1. ~(j.at - 1 > j.lost) /\ ~(j.at > 2) /\ ~(j.at >= 4 + 2 * j.lost)
      /\ ~(j.at > 2 + 2 * BindRepeats + j.lost) /\ ~(j.at >= 2)
  BY Counts
<1>2. SpeedEffect(j, r) /\ ReleaseEffect(j, r) /\ UnbindEffect(j, r) /\ BindEffect(j, r)
  BY <1>1 DEF SpeedEffect, ReleaseEffect, UnbindEffect, BindEffect
<1>3. Whole(j, a, 1, r)
  BY DEF Whole
<1>4. Progress(j, a, 1, r)
  <2>1. \A i \in 1..Parts : ~(i + MetaRepeats < j.at)
    BY Counts
  <2>. QED
    BY <1>1, <2>1 DEF Progress
<1>5. UploadEffect(j, a, r)
  BY <1>3, <1>4 DEF UploadEffect
<1>. QED
  BY <1>2, <1>5 DEF Effect

Opening(req, ops) ==
  /\ req = "rgb" => Len(ops) = 3
  /\ req = "bind" => ops[1].do = "bind"
  /\ req = "mbOff" => ops[1].do = "mbOff"

LEMMA AskBegins ==
  ASSUME Ask
  PROVE  \/ \E g \in BoardGroups, e \in Effects : PaintBoard(g, e)
         \/ \E req, group, mac, arg, ops : Begin(req, group, mac, arg, ops) /\ Opening(req, ops)
<1>. DEFINE Begins == \E req, group, mac, arg, ops : Begin(req, group, mac, arg, ops) /\ Opening(req, ops)
<1>1. ASSUME NEW g, NEW e, SetRgb(g, e) PROVE Begins
  <2>. PICK op : op = Op("upload", g, FirstMac(g), e)
    OBVIOUS
  <2>. PICK ops : ops = <<Indexed(op, 1), Op("listen", g, op.mac, e), Indexed(op, 2)>>
    OBVIOUS
  <2>1. Begin("rgb", g, op.mac, e, ops)
    BY <1>1 DEF SetRgb
  <2>2. Opening("rgb", ops)
    BY ThreeOps DEF Opening
  <2>. QED
    BY <2>1, <2>2
<1>2. ASSUME NEW g, NEW p, SetSpeed(g, p) PROVE Begins
  BY <1>2 DEF SetSpeed, Opening
<1>3. ASSUME NEW g, NEW p, MbSyncOff(g, p) PROVE Begins
  <2>. PICK ops : ops = <<Op("mbOff", g, FirstMac(g), NextSeq(registry[g].seq)),
                          Backoff(Op("speed", g, FirstMac(g), p)), Op("lock", g, FirstMac(g), 0)>>
    OBVIOUS
  <2>1. Begin("mbOff", g, FirstMac(g), p, ops)
    BY <1>3 DEF MbSyncOff
  <2>2. Opening("mbOff", ops)
    BY ThreeOps DEF Opening, Op
  <2>. QED
    BY <2>1, <2>2
<1>4. ASSUME NEW g, SetPwm(g) \/ MbSyncOn(g) \/ Unbind(g) \/ Reset(g) PROVE Begins
  BY <1>4 DEF SetPwm, MbSyncOn, Unbind, Reset, Opening
<1>5. ASSUME NEW g, Bind(g, TRUE) PROVE Begins
  <2>. PICK ops : ops = <<Op("bind", g, unbound[1], 0), Ignored(Op("lock", g, unbound[1], 0))>>
    OBVIOUS
  <2>1. Begin("bind", g, unbound[1], HalfSpeed, ops)
    BY <1>5, Appended DEF Bind
  <2>2. Opening("bind", ops)
    BY TwoOps DEF Opening, Op
  <2>. QED
    BY <2>1, <2>2
<1>6. ASSUME NEW g, Bind(g, FALSE) PROVE Begins
  <2>. PICK ops : ops = <<Op("bind", g, unbound[1], 0)>>
    OBVIOUS
  <2>1. Begin("bind", g, unbound[1], HalfSpeed, ops)
    BY <1>6 DEF Bind
  <2>2. Opening("bind", ops)
    BY OneOp DEF Opening, Op
  <2>. QED
    BY <2>1, <2>2
<1>7. ASSUME NEW do \in {"lock", "unlock", "order"}, Broadcast(do) PROVE Begins
  BY <1>7 DEF Broadcast, Opening
<1> HIDE DEF Begins
<1>8. (\E g \in BoardGroups, e \in Effects : PaintBoard(g, e)) \/ Begins
  BY <1>1, <1>2, <1>3, <1>4, <1>5, <1>6, <1>7 DEF Ask
<1>. QED
  BY <1>8 DEF Begins

LEMMA AskDone ==
  ASSUME DoneInv, Ask
  PROVE  OkInv' /\ Indices'
<1>0. asked \in Nat /\ Indices
  BY DEF DoneInv, LinkInv, JobShape
<1>1. ASSUME NEW g, NEW e, PaintBoard(g, e) PROVE OkInv' /\ Indices'
  <2>1. job' = Idle /\ UNCHANGED fan /\ asked' = asked + 1
    BY <1>1 DEF PaintBoard, world
  <2>. QED
    BY <1>0, <2>1, Resting, IdleRests
<1>2. ASSUME NEW req, NEW group, NEW mac, NEW arg, NEW ops, Begin(req, group, mac, arg, ops),
             Opening(req, ops)
      PROVE  OkInv' /\ Indices'
  <2>1. /\ job'.req = req /\ job'.group = group /\ job'.mac = mac /\ job'.arg = arg
        /\ job'.ops = ops /\ job'.at = 1 /\ job'.lost = 0 /\ job'.members = Members(group)
        /\ UNCHANGED <<fan, host>> /\ asked' = asked + 1
    BY <1>2 DEF Begin, world
  <2>2. OkInv'
    <3>. SUFFICES ASSUME Addressed'
                  PROVE  (/\ job.mac \in Fans /\ fan[job.mac].on /\ fan[job.mac].channel = host.channel
                          /\ Effect(job, asked, fan[job.mac]))'
      BY DEF OkInv
    <3>. PICK r : r = fan[mac]
      OBVIOUS
    <3>1. /\ mac \in Fans /\ r.on /\ r.channel = host.channel
          /\ req = "bind" \/ (r.master = Tx /\ r.group = group)
      BY <2>1 DEF Addressed, Members, OnAir, Powered
    <3>2. r.index # Round(asked', 1) /\ r.index # Round(asked', 2)
      <4>1. PICK b, k \in Nat : r.index = <<b, k>> /\ (b < asked \/ k = 0)
        BY <1>0, <3>1 DEF Indices
      <4>2. Round(asked', 1) = <<asked, 1>> /\ Round(asked', 2) = <<asked, 2>>
        BY <1>0, <2>1 DEF Round
      <4>3. b # asked \/ k = 0
        BY <1>0, <4>1
      <4>. QED
        BY <4>1, <4>2, <4>3
    <3>3. Effect(job', asked', r)
      <4>1. job'.req = "bind" \/ Bound(job', r)
        BY <2>1, <3>1 DEF Bound
      <4>2. /\ job'.req = "rgb" => Len(job'.ops) = 3
            /\ job'.req = "bind" => job'.ops[1].do = "bind"
            /\ job'.req = "mbOff" => job'.ops[1].do = "mbOff"
        BY <1>2, <2>1 DEF Opening
      <4>. QED
        BY <2>1, <3>2, <4>1, <4>2, BegunEffect
    <3>. QED
      BY <2>1, <3>1, <3>3
  <2>3. Indices'
    <3>1. asked' > 0
      BY <1>0, <2>1
    <3>. QED
      BY <1>0, <2>1, <3>1, StillIndices
  <2>. QED
    BY <2>2, <2>3
<1>. QED
  BY <1>1, <1>2, AskBegins

\* The discovery pass, and what happens meanwhile.
LEMMA PassDone ==
  ASSUME DoneInv, \/ Discover \/ SyncAnswered \/ SyncGarbled \/ SyncFails \/ DrainBeforeQuery
                  \/ Query \/ Probe \/ ScanEnds \/ QueryAgain \/ QueryFails \/ Refresh
  PROVE  OkInv' /\ Indices'
<1>0. asked \in Nat /\ Indices /\ JobShape
  BY DEF DoneInv, LinkInv, JobShape
<1>1. UNCHANGED <<fan, asked>>
  BY DEF Discover, SyncAnswered, SyncGarbled, SyncFails, DrainBeforeQuery, Query, Probe, ScanEnds,
         QueryAgain, QueryFails, Refresh, world
<1>2. job.req = "discover" => job = [req |-> "discover", phase |-> job.phase, n |-> job.n,
                                     tried |-> job.tried, found |-> job.found,
                                     smooth |-> job.smooth, since |-> job.since]
  BY <1>0, WorkingShape DEF IsPass
<1>3. \A phase, n : Pass(phase, n).req = "discover"
  BY DEF Pass
<1>4. \A phase, n, found : [Pass(phase, n) EXCEPT !.found = found].req = "discover"
  BY DEF Pass
<1>5. job' = Idle \/ job'.req = "discover"
  <2>1. CASE Discover \/ SyncAnswered \/ ScanEnds \/ Refresh
    BY <2>1, <1>3 DEF Discover, SyncAnswered, ScanEnds, Refresh
  <2>2. CASE SyncGarbled \/ SyncFails \/ DrainBeforeQuery
    BY <2>2, <1>2 DEF SyncGarbled, SyncFails, DrainBeforeQuery, InPhase
  <2>3. CASE Query
    <3>1. \E found : job' = AfterQuery(found)
      BY <2>3 DEF Query
    <3>2. \A found : AfterQuery(found).req = "discover"
      BY <1>4 DEF AfterQuery
    <3>. QED
      BY <3>1, <3>2
  <2>4. CASE QueryAgain
    BY <2>4, <1>4 DEF QueryAgain
  <2>5. CASE Probe
    <3>1. \/ job' = [job EXCEPT !.n = @ + 1, !.tried = FALSE]
          \/ job' = Pass("again", 1)
      BY <2>5 DEF Probe
    <3>2. job.req = "discover"
      BY <2>5 DEF Probe, InPhase
    <3>3. [job EXCEPT !.n = @ + 1, !.tried = FALSE].req = "discover"
      BY <1>2, <3>2
    <3>. QED
      BY <3>1, <3>3, <1>3
  <2>6. CASE QueryFails
    BY <2>6, <1>2 DEF QueryFails, InPhase
  <2>. QED
    BY <2>1, <2>2, <2>3, <2>4, <2>5, <2>6
<1>. QED
  BY <1>0, <1>1, <1>5, Resting, IdleRests

LEMMA QuietDone ==
  ASSUME DoneInv, Mishap \/ CoolDown \/ UNCHANGED vars
  PROVE  OkInv' /\ Indices'
<1>1. UNCHANGED <<fan, job, asked>>
  BY DEF Mishap, Break, Unplug, PlugIn, Hang, BoardChanges, CoolDown, world, vars
<1>2. host'.channel = host.channel
  BY DEF Mishap, Break, Unplug, PlugIn, Hang, BoardChanges, CoolDown, vars, DoneInv, RecoveryInv,
         HostShape
<1>. QED
  BY <1>1, <1>2 DEF DoneInv, OkInv, Indices, Addressed, OnAir, Powered, Working

-----------------------------------------------------------------------------
\* At every point of a request the receiver it is for has taken what the frames sent so far,
\* less those it lost, bring about; kept by every step.
THEOREM RequestsInductive == Spec => [](OkInv /\ Indices)
<1>1. Init => OkInv /\ Indices
  <2>1. Init => job = Idle /\ asked = 0 /\ \A f \in Fans : fan[f].index = <<0, 0>>
    BY FirstFansAssumption DEF Init, Receiver
  <2>. QED
    BY <2>1 DEF OkInv, Indices, Working, Idle
<1>2. OkInv /\ Indices /\ LinkInv /\ RecoveryInv /\ [Next]_vars => OkInv' /\ Indices'
  BY SendDone, SentDone, SendAgainDone, GiveUpDone, AskDone, PassDone, QuietDone
     DEF Next, Step, DoneInv
<1>. QED
  BY <1>1, <1>2, LinkInductive, RecoveryInductive, PTL DEF Spec

-----------------------------------------------------------------------------
\* Only the end of the last operation, or giving it up, answers a request.
LEMMA OnlySentOrGivenUp ==
  ASSUME DoneInv, [Next]_vars, Working, job' = Idle
  PROVE  \/ Sent /\ Len(job.ops) = 1
         \/ GiveUp
<1>1. job # Idle /\ IsRequest(job, asked) /\ job.req # "discover" /\ JobShape
  BY FirstOp DEF DoneInv, LinkInv, Working
<1>2. job' # job /\ job'.req \notin ToGroup \cup ToAll
  BY <1>1 DEF Idle, None, ToGroup, ToAll
<1>3. ~Ask
  BY <1>1 DEF Ask, SetRgb, SetSpeed, MbSyncOff, SetPwm, MbSyncOn, Unbind, Reset, Bind, Broadcast,
              PaintBoard, Begin
<1>4. ~Mishap /\ ~CoolDown /\ ~UNCHANGED vars
  BY <1>2 DEF Mishap, Break, Unplug, PlugIn, Hang, BoardChanges, CoolDown, vars
<1>5. ~Discover /\ ~SyncAnswered /\ ~SyncGarbled /\ ~SyncFails /\ ~DrainBeforeQuery /\ ~Query
      /\ ~Probe /\ ~ScanEnds /\ ~QueryAgain /\ ~QueryFails /\ ~Refresh
  BY <1>1 DEF Discover, SyncAnswered, SyncGarbled, SyncFails, DrainBeforeQuery, Query, Probe,
              ScanEnds, QueryAgain, QueryFails, Refresh, InPhase
<1>6. ~Send /\ ~SendAgain
  <2>1. job.req \in ToGroup \cup ToAll
    BY <1>1 DEF IsRequest
  <2>2. Send \/ SendAgain => job'.req = job.req
    BY <1>1 DEF Send, SendAgain, IsRequest
  <2>. QED
    BY <1>2, <2>1, <2>2
<1>7. Sent => Len(job.ops) = 1
  <2>1. NextOp.req = job.req /\ job.req \in ToGroup \cup ToAll
    BY <1>1 DEF NextOp, IsRequest
  <2>. QED
    BY <1>2, <2>1 DEF Sent
<1>. QED
  BY <1>3, <1>4, <1>5, <1>6, <1>7 DEF Next, Step

\* What the last operation has brought about when all its frames are out.
LEMMA ThroughDone ==
  ASSUME NEW r, IsRequest(job, asked), Effect(job, asked, r), Len(job.ops) = 1,
         job.at > Len(Script(job.ops[1])), job.lost <= Covered(job.req)
  PROVE  Done(r)
<1>. PICK op : op = job.ops[1]
  OBVIOUS
<1>0. /\ job.at \in Nat \ {0} /\ job.lost \in Nat /\ job.at > Len(Script(op))
      /\ IsOp(job, asked, op, 0) /\ op = job.ops[1]
  <2>1. 1 \in 1..Len(job.ops) /\ Len(job.ops) - 1 = 0
    OBVIOUS
  <2>2. IsOp(job, asked, job.ops[1], Len(job.ops) - 1)
    BY <2>1 DEF IsRequest
  <2>. QED
    BY <2>1, <2>2 DEF IsRequest
<1>1. /\ SpeedEffect(job, r) /\ ReleaseEffect(job, r) /\ UnbindEffect(job, r) /\ BindEffect(job, r)
      /\ UploadEffect(job, asked, r)
  BY DEF Effect
<1>2. CASE job.req = "rgb"
  <2>1. op.do = "upload" /\ job.lost <= 1
    BY <1>0, <1>2 DEF IsOp, Covered, ToAll
  <2>2. Whole(job, asked, 2, r) /\ (r.shows = job.arg \/ Progress(job, asked, 2, r))
    BY <1>1, <1>2, <2>1 DEF UploadEffect
  <2>3. r.shows = job.arg
    BY <1>0, <2>1, <2>2, RoundThrough
  <2>. QED
    BY <1>2, <2>3 DEF Done
<1>3. CASE job.req \in {"speed", "pwm"}
  <2>1. op.do \in {"speed", "pump"} /\ job.lost <= SpeedRepeats - 1
    BY <1>0, <1>3 DEF IsOp, Covered, ToAll
  <2>2. Len(Script(op)) = SpeedRepeats
    BY <2>1, SpeedFrames
  <2>3. job.at - 1 > job.lost
    BY <1>0, <2>1, <2>2, Counts
  <2>. QED
    BY <1>1, <1>3, <2>3 DEF SpeedEffect, Done
<1>4. CASE job.req = "mbOn"
  <2>1. op.do = "mbOn" /\ job.lost <= 0
    BY <1>0, <1>4 DEF IsOp, Covered, ToAll
  <2>2. Len(Script(op)) = 2
    BY <2>1, FewFrames
  <2>3. job.lost = 0 /\ job.at > 2
    BY <1>0, <2>1, <2>2
  <2>. QED
    BY <1>1, <1>4, <2>3 DEF SpeedEffect, Done
<1>5. CASE job.req = "mbOff"
  <2>1. op.do = "lock"
    BY <1>0, <1>5, ReleaseOps
  <2>2. job.lost <= 1
    BY <1>5 DEF Covered
  <2>. QED
    BY <1>0, <1>1, <1>5, <2>1, <2>2 DEF ReleaseEffect, Done
<1>6. CASE job.req = "bind"
  <2>1. op.do \in {"bind", "lock"} /\ job.lost <= 1
    BY <1>0, <1>6 DEF IsOp, Covered, ToAll
  <2>2. Bound(job, r) /\ r.kept
    <3>1. CASE op.do = "lock"
      BY <1>0, <1>1, <1>6, <2>1, <3>1 DEF BindEffect
    <3>2. CASE op.do = "bind"
      <4>1. Len(Script(op)) = 1 + 2 * BindRepeats + LockRepeats
        BY <3>2, BindFrames
      <4>2. job.at >= 4 + 2 * job.lost /\ job.at > 2 + 2 * BindRepeats + job.lost
        BY <1>0, <2>1, <4>1, Counts
      <4>. QED
        BY <1>0, <1>1, <1>6, <2>1, <3>2, <4>2 DEF BindEffect
    <3>. QED
      BY <2>1, <3>1, <3>2
  <2>. QED
    BY <1>6, <2>2 DEF Bound, Done
<1>7. CASE job.req = "unbind"
  <2>1. op.do = "unbind" /\ job.lost <= BindRepeats - 1
    BY <1>0, <1>7 DEF IsOp, Covered, ToAll
  <2>2. Len(Script(op)) = BindRepeats
    BY <2>1, SpeedFrames
  <2>3. job.at - 1 > job.lost
    BY <1>0, <2>1, <2>2, Counts
  <2>. QED
    BY <1>1, <1>7, <2>3 DEF UnbindEffect, Done
<1>. QED
  BY <1>2, <1>3, <1>4, <1>5, <1>6, <1>7 DEF Done

\* When a failure was passed over there was nothing left to bring about.
LEMMA SoftDone ==
  ASSUME NEW r, IsRequest(job, asked), Effect(job, asked, r), IsOp(job, asked, job.ops[1], Len(job.ops) - 1),
         job.ops[1].soft, job.lost <= Covered(job.req)
  PROVE  Done(r)
<1>1. job.req = "bind" /\ job.ops[1].do = "lock"
  BY SoftLast
<1>2. job.lost <= 1
  BY <1>1 DEF Covered
<1>3. Bound(job, r) /\ r.kept
  BY <1>1, <1>2 DEF Effect, BindEffect
<1>. QED
  BY <1>1, <1>3 DEF Bound, Done

\* What is answered with Ok has happened at the receiver that was addressed, for any
\* receivers, channels, requests, repeats and faults of the handles, as long as no more
\* frames were lost than the repeats make up for.
THEOREM OkMeansDoneHolds == Spec => OkMeansDone
<1>1. OkInv /\ Indices /\ LinkInv /\ RecoveryInv /\ [Next]_vars =>
        (/\ AnswersOk /\ job.lost <= Covered(job.req)
         /\ \/ job.mac \in job.members
            \/ job.req = "bind" /\ job.mac \in OnAir(host.channel)
         => Done(fan'[job.mac]))
  <2>. SUFFICES ASSUME DoneInv, [Next]_vars, AnswersOk, job.lost <= Covered(job.req), Addressed
                PROVE  Done(fan'[job.mac])
    BY DEF DoneInv, Addressed
  <2>1. Working /\ job' = Idle /\ IsRequest(job, asked) /\ Head(job.ops) = job.ops[1]
        /\ IsOp(job, asked, job.ops[1], Len(job.ops) - 1)
    BY FirstOp DEF AnswersOk, DoneInv, LinkInv
  <2>2. (Sent /\ Len(job.ops) = 1) \/ GiveUp
    BY <2>1, OnlySentOrGivenUp
  <2>3. UNCHANGED fan /\ Effect(job, asked, fan[job.mac])
    BY <2>1, <2>2 DEF Sent, GiveUp, DoneInv, OkInv
  <2>4. CASE Sent /\ Len(job.ops) = 1
    <3>1. job.at > Len(Script(job.ops[1]))
      BY <2>1, <2>4 DEF Sent
    <3>. QED
      BY <2>1, <2>3, <2>4, <3>1, ThroughDone
  <2>5. CASE GiveUp
    <3>. PICK n : n = Len(Script(job.ops[1]))
      OBVIOUS
    <3>1. job.at <= n /\ job.at \in Nat /\ (job.at > n \/ job.ops[1].soft)
      BY <2>1, <2>5 DEF GiveUp, WriteFails, AnswersOk, IsRequest
    <3>2. n \in Nat
      BY <2>1, ScriptLength
    <3>3. job.ops[1].soft
      BY <3>1, <3>2
    <3>. QED
      BY <2>1, <2>3, <3>3, SoftDone
  <2>. QED
    BY <2>2, <2>4, <2>5
<1>. QED
  BY <1>1, LinkInductive, RecoveryInductive, RequestsInductive, PTL DEF OkMeansDone, Spec

=============================================================================
