------------------------------ MODULE RfLink ------------------------------
(***************************************************************************)
(* The wireless link: the RF backend with its two USB dongles (TX sends    *)
(* to the fans, RX reports them), the discovery pass and the registry it   *)
(* refreshes, and the requests that are sent over the air.  The fans, the  *)
(* loss of frames and what happens to the USB handles are the environment. *)
(*                                                                         *)
(* A request is a sequence of operations; an operation is a script of RF   *)
(* frames that with_tx_recovery runs as a whole: on an error it reopens    *)
(* the handle, at most once per cooldown, and runs the whole script again. *)
(* The repeats, which only make up for lost frames, are constants.         *)
(***************************************************************************)
EXTENDS Naturals, Sequences, FiniteSets

CONSTANTS
  Fans,            \* MAC addresses of the receivers, numbers: the order of the records
  Pumps,           \* those that are pump blocks
  Groups,          \* groups of the controller
  Bindable,        \* those bind_device accepts (1 to 8)
  BoardGroups,     \* groups of the other backends (AURA, hwmon)
  Channels,        \* VALID_CHANNELS, in the order they are probed
  DefaultChannel,  \* DEFAULT_CHANNEL
  ChannelOverride, \* whether the channel is fixed by the configuration
  Speeds,          \* speed bytes above SPEED_MIN
  Effects,         \* effects a group can be given
  Parts,           \* data parts of an upload
  MetaRepeats, SpeedRepeats, BindRepeats, LockRepeats, \* 4, 3, 10, 3
  SyncTries, QueryTries, SpeedTries,                   \* 3 each
  PageSize,        \* records in one response (10)
  StaleLimit,      \* STALE_READ_THRESHOLD
  CmdSeqs,         \* values of the command counter
  FirstFans,       \* the fans a run starts with
  MaxEvents        \* bound of the runs: requests and faults of a behaviour

ASSUME FansAssumption == IsFiniteSet(Fans) /\ Fans \subseteq Nat /\ Pumps \subseteq Fans
ASSUME GroupsAssumption == Bindable \subseteq Groups /\ Groups \cap BoardGroups = {}
ASSUME CountsAssumption ==
  \A n \in {Parts, MetaRepeats, SpeedRepeats, BindRepeats, LockRepeats, SyncTries,
            QueryTries, SpeedTries, PageSize, StaleLimit} : n \in Nat \ {0}
\* what is repeated is sent more than once
ASSUME RepeatsAssumption == SpeedRepeats > 1 /\ BindRepeats > 1 /\ LockRepeats > 1

VARIABLES
  fan,      \* the receivers: what each is bound to, runs at and shows
  handle,   \* the USB handle of each dongle: "open", "silent" or "broken"
  plugged,  \* whether the dongle is attached
  tuned,    \* channel of the last TX sync
  host,     \* fields of the backend: channel, TX id, cooldowns, timed-out reads
  registry, \* groups the daemon knows
  unbound,  \* system.unbound
  boards,   \* groups the other backends report
  job,      \* the request or discovery pass being worked on
  reopened, \* reopens by the recovery of each side in this cooldown period
  asked, faults   \* bounds

vars == <<fan, handle, plugged, tuned, host, registry, unbound, boards, job,
          reopened, asked, faults>>
world == <<fan, handle, plugged, boards>>

Sides == {"tx", "rx"}
Tx == "tx"          \* the MAC of our dongle, and of another controller's
Other == "other"
None == "none"
Free == 254         \* group 0xFE of an unbound receiver, and the broadcast 0xFF
All == 255
SpeedMin == 6
HalfSpeed == 128    \* percent_to_speed_byte(50)
Idle == [req |-> None]
NoGroup == [macs |-> <<>>]

Times(n, x) == [i \in 1..n |-> x]
RangeOf(s) == {s[i] : i \in 1..Len(s)}
\* the i-th of a set of numbers, all of them, and the members of S in a sequence
Nth(S, i) == CHOOSE n \in S : Cardinality({m \in S : m <= n}) = i
InOrder(S) == [i \in 1..Cardinality(S) |-> Nth(S, i)]
Those(S, s) ==
  LET places == {i \in 1..Len(s) : s[i] \in S}
  IN  [i \in 1..Cardinality(places) |-> s[Nth(places, i)]]
NextSeq(n) == IF (n + 1) % CmdSeqs = 0 THEN 1 ELSE (n + 1) % CmdSeqs

\* a receiver that has taken no upload yet; those that are ours are in our groups
Receiver == [on : BOOLEAN, master : {Tx, Other, None}, group : Nat, channel : RangeOf(Channels),
             kept : BOOLEAN, pwm : Nat, mb : BOOLEAN, seq : Nat, index : {<<0, 0>>}, parts : {{}},
             shows : {None}]
ASSUME FirstFansAssumption ==
  \A first \in FirstFans :
    /\ first \in [Fans -> Receiver]
    /\ \A f \in Fans : first[f].master = Tx => first[f].group \in Groups

Ours == {f \in Fans : fan[f].master = Tx}
Known(g) == registry[g] # NoGroup
FirstMac(g) == registry[g].macs[1]

---------------------------------------------------------------------------
(* Operations and the frames they send.                                    *)

Op(do, group, mac, arg) == [do |-> do, group |-> group, mac |-> mac, arg |-> arg,
                            tries |-> 1, soft |-> FALSE]
Backoff(op) == [op EXCEPT !.tries = SpeedTries]
Ignored(op) == [op EXCEPT !.soft = TRUE]

\* encode_bind_rf_payload: a receiver adopts the master, the group and the speed
Assign(rx, mac, master, group, pwm) ==
  [cmd |-> "assign", rx |-> rx, mac |-> mac, master |-> master, group |-> group, arg |-> pwm]
Frame(cmd, rx, mac, arg) == [cmd |-> cmd, rx |-> rx, mac |-> mac, arg |-> arg]
Clock == Frame("clock", All, 0, 0)
Lock == Frame("lock", All, 0, 0)

\* encode_rgb_metadata_payload and encode_rgb_data_payload: a fan takes the parts that
\* carry the index of the metadata it saw last
Meta(op) == Frame("meta", op.group, op.mac, [index |-> op.index])
DataPart(op, i) == Frame("data", op.group, op.mac,
                         [index |-> op.index, part |-> i, effect |-> op.arg])
\* encode_aio_info_payload, encode_mb_sync_payload, encode_rf_lcd_reset
PumpParam(op) == Frame("aio", op.group, op.mac, op.arg)
Release(op) == Frame("release", op.group, op.mac, op.arg)
LcdReset(op) == Frame("reset", op.group, op.mac, 0)

UploadScript(op) == Times(MetaRepeats, Meta(op)) \o [i \in 1..Parts |-> DataPart(op, i)]
SpeedScript(op) == Times(SpeedRepeats, Assign(op.group, op.mac, Tx, op.group, op.arg))
PumpScript(op) == Times(SpeedRepeats, PumpParam(op))
MbOnScript(op) == <<Clock, Assign(op.group, op.mac, Tx, op.group, SpeedMin)>>
MbOffScript(op) == <<Clock>> \o Times(BindRepeats, Release(op))
BindScript(op) ==
  <<Clock>> \o [i \in 1..2 * BindRepeats |->
                  Assign(IF i % 2 = 1 THEN Free ELSE All, op.mac, Tx, op.group, HalfSpeed)]
            \o Times(LockRepeats, Lock)
UnbindScript(op) == Times(BindRepeats, Assign(op.group, op.mac, None, Free, 0))

Script(op) ==
  CASE op.do = "upload" -> UploadScript(op)
    [] op.do = "speed"  -> SpeedScript(op)
    [] op.do = "pump"   -> PumpScript(op)
    [] op.do = "mbOn"   -> MbOnScript(op)
    [] op.do = "mbOff"  -> MbOffScript(op)
    [] op.do = "bind"   -> BindScript(op)
    [] op.do = "unbind" -> UnbindScript(op)
    [] op.do = "lock"   -> <<Lock>>
    [] op.do \in {"unlock", "order"} -> <<Clock>>
    [] op.do = "reset"  -> <<LcdReset(op)>>
    [] op.do = "listen" -> <<>>

\* what a receiver does with a frame it hears
Listens(f, frame) ==
  /\ fan[f].on /\ fan[f].channel = host.channel
  /\ frame.rx \in {fan[f].group, All}
  /\ frame.mac \in {f, 0}
Obey(r, frame) ==
  CASE frame.cmd = "assign" ->
         [r EXCEPT !.master = frame.master, !.group = frame.group, !.pwm = frame.arg,
                   !.mb = @ \/ frame.arg = SpeedMin,
                   !.kept = @ /\ frame.master = r.master /\ frame.group = r.group]
    [] frame.cmd = "aio" /\ r.master = Tx -> [r EXCEPT !.pwm = frame.arg]
    [] frame.cmd = "release" /\ r.seq # frame.arg -> [r EXCEPT !.mb = FALSE, !.seq = frame.arg]
    [] frame.cmd = "lock" /\ r.master = Tx -> [r EXCEPT !.kept = TRUE]
    [] frame.cmd = "meta" /\ r.index # frame.arg.index ->
         [r EXCEPT !.index = frame.arg.index, !.parts = {}]
    [] frame.cmd = "data" /\ r.index = frame.arg.index ->
         [r EXCEPT !.parts = @ \cup {frame.arg.part},
                   !.shows = IF r.parts \cup {frame.arg.part} = 1..Parts
                             THEN frame.arg.effect ELSE @]
    [] OTHER -> r

---------------------------------------------------------------------------
(* The USB handles.                                                        *)

\* UsbDevice.reopen: a fresh handle when the dongle is attached
Reopen(s) == IF plugged[s] THEN "open" ELSE "broken"

\* a short drain read of the RX handle: the one after too many time-outs reopens first
DrainRx ==
  LET stale == host.timeouts >= StaleLimit
  IN /\ handle' = IF stale THEN [handle EXCEPT !.rx = Reopen("rx")] ELSE handle
     /\ host' = [host EXCEPT !.timeouts =
                   IF stale \/ handle.rx = "broken" THEN 0 ELSE @]

\* with_tx_recovery / with_rx_recovery after the first error of an operation:
\* the cooldown starts even when the reopen fails
MayRecover(s) == ~job.tried /\ ~host.cool[s]
\* mutant: the cooldown starts with the first reopen that succeeds
RecoverUncooled(s) ==
  /\ MayRecover(s)
  /\ handle' = [handle EXCEPT ![s] = Reopen(s)]
  /\ host' = [host EXCEPT !.cool[s] = plugged[s],
                          !.timeouts = IF s = "rx" /\ plugged.rx THEN 0 ELSE @]
  /\ reopened' = [reopened EXCEPT ![s] = @ + 1]
Recover(s) ==
  /\ MayRecover(s)
  /\ handle' = [handle EXCEPT ![s] = Reopen(s)]
  /\ host' = [host EXCEPT !.cool[s] = TRUE,
                          !.timeouts = IF s = "rx" /\ plugged.rx THEN 0 ELSE @]
  /\ reopened' = [reopened EXCEPT ![s] = @ + 1]

---------------------------------------------------------------------------
(* Requests over the air.                                                  *)

\* the receivers that would hear a frame to the group; kept with a request for the
\* properties only, like the frames it lost
Members(g) == {f \in Fans : /\ fan[f].on /\ fan[f].channel = host.channel
                            /\ fan[f].master = Tx /\ fan[f].group = g}

Begin(req, group, mac, arg, ops) ==
  /\ job = Idle /\ asked + faults < MaxEvents
  /\ asked' = asked + 1
  /\ job' = [req |-> req, group |-> group, mac |-> mac, arg |-> arg, ops |-> ops,
             at |-> 1, tried |-> FALSE, lost |-> 0, members |-> Members(group)]
  /\ UNCHANGED <<world, tuned, host, registry, unbound, reopened, faults>>

Indexed(op, round) ==
  [do |-> "upload", group |-> op.group, mac |-> op.mac, arg |-> op.arg, tries |-> 1,
   soft |-> FALSE, index |-> <<asked, round>>]

\* mutant: one round only
SetRgbOnce(g, e) ==
  /\ Known(g)
  /\ Begin("rgb", g, FirstMac(g), e, <<Indexed(Op("upload", g, FirstMac(g), e), 1)>>)

\* System::set_rgb, send_rgb: two rounds, each with an effect index of its own,
\* and a status query of the receiver between them
SetRgb(g, e) ==
  /\ Known(g)
  /\ LET op == Op("upload", g, FirstMac(g), e)
     IN Begin("rgb", g, op.mac, e,
              <<Indexed(op, 1), Op("listen", g, op.mac, e), Indexed(op, 2)>>)

\* System::set_speed: a pump has a frame of its own and no retries
SetSpeed(g, p) ==
  /\ Known(g)
  /\ LET op == Op(IF registry[g].pump THEN "pump" ELSE "speed", g, FirstMac(g), p)
     IN Begin("speed", g, op.mac, p, <<IF registry[g].pump THEN op ELSE Backoff(op)>>)

SetPwm(g) ==
  /\ Known(g) /\ ~registry[g].pump
  /\ Begin("pwm", g, FirstMac(g), SpeedMin, <<Backoff(Op("speed", g, FirstMac(g), SpeedMin))>>)

\* System::set_mb_sync: giving a group back to the software is followed by a
\* speed and the lock that saves it
MbSyncOn(g) ==
  /\ Known(g)
  /\ Begin("mbOn", g, FirstMac(g), SpeedMin, <<Op("mbOn", g, FirstMac(g), SpeedMin)>>)
MbSyncOff(g, p) ==
  /\ Known(g)
  /\ LET mac == FirstMac(g)
     IN Begin("mbOff", g, mac, p,
              <<Op("mbOff", g, mac, NextSeq(registry[g].seq)),
                Backoff(Op("speed", g, mac, p)), Op("lock", g, mac, 0)>>)

\* Request::Bind: the first device that is not ours
Bind(g, lock) ==
  /\ unbound # <<>> /\ g \in Bindable /\ host.txId = Tx
  /\ Begin("bind", g, unbound[1], HalfSpeed,
           <<Op("bind", g, unbound[1], 0)>>
             \o (IF lock THEN <<Ignored(Op("lock", g, unbound[1], 0))>> ELSE <<>>))

\* Request::Unbind: the first MAC of the group
Unbind(g) ==
  /\ Known(g)
  /\ Begin("unbind", g, FirstMac(g), 0, <<Op("unbind", g, FirstMac(g), 0)>>)

\* System::set_rgb of a group of another backend, which succeeds
PaintBoard(g, e) ==
  /\ Known(g) /\ job = Idle /\ asked + faults < MaxEvents
  /\ asked' = asked + 1
  /\ registry' = [registry EXCEPT ![g].rgb = e]
  /\ UNCHANGED <<world, tuned, host, unbound, job, reopened, faults>>

\* lock, unlock, set_merge_order and reset_device: one frame each
Broadcast(do) ==
  /\ host.txId = Tx
  /\ Begin(do, 0, 0, 0, <<Op(do, 0, 0, 0)>>)
Reset(g) ==
  /\ Known(g) /\ host.txId = Tx
  /\ Begin("reset", g, FirstMac(g), 0, <<Op("reset", g, FirstMac(g), 0)>>)

Working == job.req \notin {None, "discover"}
NextOp == [job EXCEPT !.ops = Tail(@), !.at = 1, !.tried = FALSE]

\* the registry records what was sent once the speed, or both rounds, have gone out
Recorded(op) ==
  IF job.group \notin Groups \/ ~Known(job.group) THEN registry
  ELSE CASE op.do \in {"speed", "pump"} -> 
           [registry EXCEPT ![job.group].speed = IF op.arg = SpeedMin THEN 0 ELSE op.arg]
         [] op.do = "upload" /\ Len(job.ops) = 1 -> [registry EXCEPT ![job.group].rgb = op.arg]
         [] OTHER -> registry

\* send_rf_data: one frame on the air; the receiver the request is for may miss it
Send ==
  /\ Working /\ job.ops # <<>>
  /\ LET frames == Script(Head(job.ops))
     IN /\ job.at <= Len(frames) /\ handle.tx = "open"
        /\ \/ /\ fan' = [f \in Fans |-> IF Listens(f, frames[job.at])
                                        THEN Obey(fan[f], frames[job.at]) ELSE fan[f]]
              /\ job' = [job EXCEPT !.at = @ + 1]
              /\ UNCHANGED faults
           \/ /\ asked + faults < MaxEvents
              /\ fan' = [f \in Fans |-> IF Listens(f, frames[job.at]) /\ job.mac # f
                                        THEN Obey(fan[f], frames[job.at]) ELSE fan[f]]
              /\ faults' = faults + 1
              /\ job' = [job EXCEPT !.at = @ + 1, !.lost = @ + 1]
  /\ UNCHANGED <<handle, plugged, tuned, host, registry, unbound, boards, reopened, asked>>

\* the script is through: the next operation, or the answer Ok
Sent ==
  /\ Working /\ job.ops # <<>>
  /\ LET op == Head(job.ops)
     IN /\ job.at > Len(Script(op))
        /\ registry' = Recorded(op)
        /\ IF op.do = "listen" THEN DrainRx ELSE UNCHANGED <<handle, host>>
  /\ job' = IF Len(job.ops) = 1 THEN Idle ELSE NextOp
  /\ UNCHANGED <<fan, plugged, tuned, unbound, boards, reopened, asked, faults>>

\* a write fails: reopen and run the whole script again, or give up the operation
WriteFails ==
  /\ Working /\ job.ops # <<>>
  /\ job.at <= Len(Script(Head(job.ops))) /\ handle.tx = "broken"

SendAgain ==
  /\ WriteFails /\ Recover("tx") /\ plugged.tx
  /\ job' = [job EXCEPT !.at = 1, !.tried = TRUE]
  /\ UNCHANGED <<fan, plugged, tuned, registry, unbound, boards, asked, faults>>

GiveUp ==
  /\ WriteFails
  /\ \/ Recover("tx") /\ ~plugged.tx
     \/ ~MayRecover("tx") /\ UNCHANGED <<handle, host, reopened>>
  /\ LET op == Head(job.ops)
     IN job' = IF op.tries > 1
               THEN [job EXCEPT !.ops[1].tries = @ - 1, !.at = 1, !.tried = FALSE]
               ELSE IF op.soft /\ Len(job.ops) > 1 THEN NextOp ELSE Idle
  /\ UNCHANGED <<fan, plugged, tuned, registry, unbound, boards, asked, faults>>

---------------------------------------------------------------------------
(* A discovery pass: System::discover over the RF backend and the others.  *)

\* smooth, for the properties only: the pass began with both handles good, and how
\* many faults there had been by then
Pass(phase, n) ==
  [req |-> "discover", phase |-> phase, n |-> n, tried |-> FALSE,
   found  |-> IF job = Idle THEN <<>> ELSE job.found,
   smooth |-> IF job = Idle THEN handle = [s \in Sides |-> "open"] ELSE job.smooth,
   since  |-> IF job = Idle THEN faults ELSE job.since]
InPhase(p) == job.req = "discover" /\ job.phase = p

\* the pass drops the old unbound list and wakes the receiver
Discover ==
  /\ job = Idle
  /\ unbound' = <<>>
  /\ DrainRx
  /\ job' = Pass("sync", 1)
  /\ UNCHANGED <<fan, plugged, tuned, registry, boards, reopened, asked, faults>>

\* TX sync: SyncTries attempts before it is an error of the operation
SyncAnswered ==
  /\ InPhase("sync") /\ handle.tx = "open"
  /\ tuned' = host.channel
  /\ host' = [host EXCEPT !.txId = Tx]
  /\ job' = Pass("query", 1)
  /\ UNCHANGED <<world, registry, unbound, reopened, asked, faults>>
SyncGarbled ==
  /\ InPhase("sync") /\ handle.tx = "open" /\ job.n < SyncTries
  /\ asked + faults < MaxEvents /\ faults' = faults + 1
  /\ job' = [job EXCEPT !.n = @ + 1]
  /\ UNCHANGED <<world, tuned, host, registry, unbound, reopened, asked>>
SyncFails ==
  /\ InPhase("sync") /\ handle.tx = "broken"
  /\ \/ /\ Recover("tx")
        /\ job' = IF plugged.tx THEN [job EXCEPT !.n = 1, !.tried = TRUE] ELSE Idle
     \/ /\ ~MayRecover("tx") /\ job' = Idle
        /\ UNCHANGED <<handle, host, reopened>>
  /\ UNCHANGED <<fan, plugged, tuned, registry, unbound, boards, asked, faults>>

\* The receivers a query reports: those on the tuned channel.  A record that is
\* lost or cut off, or one the receiver remembers of another channel, is a fault.
Powered == {f \in Fans : fan[f].on}
OnAir(channel) == {f \in Powered : fan[f].channel = channel}
Amiss(H, channel) == Cardinality((H \ OnAir(channel)) \cup (OnAir(channel) \ H))
Reports(H, channel) ==
  CASE handle.rx = "open" ->
         /\ Cardinality(H) <= PageSize /\ asked + faults + Amiss(H, channel) <= MaxEvents
         /\ faults' = faults + Amiss(H, channel)
    [] handle.rx = "silent" -> H = {} /\ UNCHANGED faults
    [] OTHER -> FALSE
Fresh(H) == InOrder(H \ RangeOf(job.found))

\* what query_devices leaves of the RX handle and its counter: a silent receiver
\* is an empty answer, and the read after too many of them reopens the handle
RxAfterQuery ==
  IF handle.rx = "silent" /\ host.timeouts >= StaleLimit
  THEN [handle |-> Reopen("rx"), timeouts |-> 1]
  ELSE [handle |-> handle.rx, timeouts |-> IF handle.rx = "open" THEN 0 ELSE host.timeouts + 1]

\* the channel of the first new record that is bound to us
DetectedChannel(news) ==
  LET own == Those(Ours, news)
  IN IF ChannelOverride \/ own = <<>> THEN host.channel ELSE fan[own[1]].channel

\* mutant: the scan is for a fixed channel
AfterQueryFixed(found) ==
  IF Cardinality(RangeOf(found)) < PageSize /\ job.n < QueryTries
  THEN [Pass("query", job.n + 1) EXCEPT !.found = found]
  ELSE [Pass(IF found = <<>> /\ ChannelOverride THEN "scan" ELSE "refresh", 1)
          EXCEPT !.found = found]
AfterQuery(found) ==
  IF Cardinality(RangeOf(found)) < PageSize /\ job.n < QueryTries
  THEN [Pass("query", job.n + 1) EXCEPT !.found = found]
  ELSE [Pass(IF found = <<>> /\ ~ChannelOverride THEN "scan" ELSE "refresh", 1)
          EXCEPT !.found = found]

\* the drain before a second query, when it reopens a stale handle
DrainBeforeQuery ==
  /\ InPhase("query") /\ job.n > 1 /\ host.timeouts >= StaleLimit
  /\ DrainRx
  /\ UNCHANGED <<fan, plugged, tuned, registry, unbound, boards, job, reopened, asked, faults>>

Query ==
  /\ InPhase("query") /\ (job.n = 1 \/ host.timeouts < StaleLimit)
  /\ \E H \in SUBSET Powered :
       LET news == Fresh(H)
       IN /\ Reports(H, tuned)
          /\ handle' = [handle EXCEPT !.rx = RxAfterQuery.handle]
          /\ host' = [host EXCEPT !.channel = DetectedChannel(news),
                                  !.timeouts = RxAfterQuery.timeouts]
          /\ job' = AfterQuery(job.found \o news)
  /\ UNCHANGED <<fan, plugged, tuned, registry, unbound, boards, reopened, asked>>

\* scan_channels: a TX sync on the next channel, and a query when it answers
Probe ==
  /\ InPhase("scan") /\ job.n <= Len(Channels)
  /\ LET ch == Channels[job.n]
     IN \/ /\ ch = host.channel \/ handle.tx # "open"
           /\ job' = [job EXCEPT !.n = @ + 1, !.tried = FALSE]
           /\ UNCHANGED <<tuned, handle, host, faults>>
        \/ /\ ch # host.channel /\ handle.tx = "open"
           /\ tuned' = ch
           /\ \E H \in SUBSET Powered :
                /\ Reports(H, ch)
                /\ handle' = [handle EXCEPT !.rx = RxAfterQuery.handle]
                /\ host' = [host EXCEPT !.channel = IF H = {} THEN @ ELSE ch,
                                        !.timeouts = RxAfterQuery.timeouts]
                /\ job' = IF H = {} THEN [job EXCEPT !.n = @ + 1, !.tried = FALSE]
                          ELSE Pass("again", 1)
  /\ UNCHANGED <<fan, plugged, registry, unbound, boards, reopened, asked>>

\* no channel answered
ScanEnds ==
  /\ InPhase("scan") /\ job.n > Len(Channels)
  /\ job' = Pass("refresh", 1)
  /\ UNCHANGED <<world, tuned, host, registry, unbound, reopened, asked, faults>>

\* one more query on the channel that answered
QueryAgain ==
  /\ InPhase("again")
  /\ \E H \in SUBSET Powered :
       /\ Reports(H, tuned)
       /\ handle' = [handle EXCEPT !.rx = RxAfterQuery.handle]
       /\ host' = [host EXCEPT !.timeouts = RxAfterQuery.timeouts]
       /\ job' = [Pass("refresh", 1) EXCEPT !.found = Fresh(H)]
  /\ UNCHANGED <<fan, plugged, tuned, registry, unbound, boards, reopened, asked>>

\* the write of a query fails: with_rx_recovery, or the error that ends the pass
QueryFails ==
  /\ handle.rx = "broken"
  /\ \/ InPhase("query") \/ InPhase("again")
     \/ /\ InPhase("scan") /\ job.n <= Len(Channels)
        /\ Channels[job.n] # host.channel /\ handle.tx = "open"
  /\ \/ /\ Recover("rx")
        /\ job' = IF plugged.rx THEN [job EXCEPT !.tried = TRUE] ELSE Idle
     \/ /\ ~MayRecover("rx") /\ job' = Idle
        /\ UNCHANGED <<handle, host, reopened>>
  /\ tuned' = IF InPhase("scan") THEN Channels[job.n] ELSE tuned
  /\ UNCHANGED <<fan, plugged, registry, unbound, boards, asked, faults>>

---------------------------------------------------------------------------
(* DeviceRegistry::refresh                                                 *)

\* has_hw_mb_sync fans report the speed they run at, SPEED_MIN when the motherboard
\* drives them; what a pump reports is no speed
Reported(f) == IF f \in Pumps \/ fan[f].pwm = SpeedMin THEN 0 ELSE fan[f].pwm
FirstReported(answers) ==
  LET told == Those({f \in Fans : Reported(f) # 0}, answers)
  IN IF told = <<>> THEN 0 ELSE Reported(told[1])

\* a group one of whose receivers answered: state is kept, new MACs are added
RefreshedGroup(old, answers) ==
  IF old = NoGroup
  THEN [macs |-> answers, speed |-> FirstReported(answers), rgb |-> None,
        pump |-> answers[1] \in Pumps, seq |-> fan[answers[Len(answers)]].seq]
  ELSE [old EXCEPT !.macs = @ \o Those(Fans \ RangeOf(old.macs), answers),
                   !.speed = IF @ = 0 THEN FirstReported(answers) ELSE @,
                   !.seq = fan[answers[Len(answers)]].seq]
BoardGroup == [macs |-> <<0>>, speed |-> 0, rgb |-> None, pump |-> FALSE, seq |-> 0]

\* mutant: the groups of other backends were not seen either
RefreshRfAll(reg, found) ==
  [g \in Groups \cup BoardGroups |->
     LET answers == Those({f \in Ours : fan[f].group = g}, found)
     IN IF answers = <<>> THEN NoGroup ELSE RefreshedGroup(reg[g], answers)]
RefreshRf(reg, found) ==
  [g \in Groups \cup BoardGroups |->
     LET answers == Those({f \in Ours : fan[f].group = g}, found)
     IN IF g \in BoardGroups THEN reg[g]
        ELSE IF answers = <<>> THEN NoGroup ELSE RefreshedGroup(reg[g], answers)]
RefreshBoards(reg) ==
  [g \in Groups \cup BoardGroups |->
     IF g \in Groups THEN reg[g]
     ELSE IF g \notin boards THEN NoGroup
     ELSE IF reg[g] = NoGroup THEN BoardGroup ELSE reg[g]]

Refresh ==
  /\ InPhase("refresh")
  /\ registry' = RefreshBoards(RefreshRf(registry, job.found))
  /\ unbound' = Those(Fans \ Ours, job.found)
  /\ job' = Idle
  /\ UNCHANGED <<world, tuned, host, reopened, asked, faults>>

---------------------------------------------------------------------------
(* The environment: USB faults at any time, the others between requests.   *)

Strike == asked + faults < MaxEvents /\ faults' = faults + 1

\* suspend and resume, a hub reset: every operation on the handle fails
Break(s) ==
  /\ handle[s] # "broken" /\ Strike
  /\ handle' = [handle EXCEPT ![s] = "broken"]
  /\ UNCHANGED <<fan, plugged, tuned, host, registry, unbound, boards, job, reopened, asked>>
\* the receiver takes queries and answers none until it is reopened
Hang ==
  /\ handle.rx = "open" /\ Strike
  /\ handle' = [handle EXCEPT !.rx = "silent"]
  /\ UNCHANGED <<fan, plugged, tuned, host, registry, unbound, boards, job, reopened, asked>>
Unplug(s) ==
  /\ plugged[s] /\ Strike
  /\ plugged' = [plugged EXCEPT ![s] = FALSE]
  /\ handle' = [handle EXCEPT ![s] = "broken"]
  /\ UNCHANGED <<fan, tuned, host, registry, unbound, boards, job, reopened, asked>>
PlugIn(s) ==
  /\ ~plugged[s]
  /\ plugged' = [plugged EXCEPT ![s] = TRUE]
  /\ UNCHANGED <<fan, handle, tuned, host, registry, unbound, boards, job, reopened, asked, faults>>
\* a group of another backend appears or goes
BoardChanges(g) ==
  /\ job = Idle /\ Strike
  /\ boards' = IF g \in boards THEN boards \ {g} ELSE boards \cup {g}
  /\ UNCHANGED <<fan, handle, plugged, tuned, host, registry, unbound, job, reopened, asked>>
\* five seconds pass
CoolDown ==
  /\ \E s \in Sides : host.cool[s]
  /\ host' = [host EXCEPT !.cool = [s \in Sides |-> FALSE]]
  /\ reopened' = [s \in Sides |-> 0]
  /\ UNCHANGED <<world, tuned, registry, unbound, job, asked, faults>>

---------------------------------------------------------------------------
Init ==
  /\ fan \in FirstFans
  /\ handle = [s \in Sides |-> "open"] /\ plugged = [s \in Sides |-> TRUE]
  /\ tuned = DefaultChannel
  /\ host = [channel |-> DefaultChannel, txId |-> None, cool |-> [s \in Sides |-> FALSE],
             timeouts |-> 0]
  /\ registry = [g \in Groups \cup BoardGroups |-> NoGroup]
  /\ unbound = <<>> /\ boards = BoardGroups /\ job = Idle
  /\ reopened = [s \in Sides |-> 0] /\ asked = 0 /\ faults = 0

Ask ==
  \/ \E g \in Groups :
       \/ \E e \in Effects : SetRgb(g, e)
       \/ \E p \in Speeds : SetSpeed(g, p) \/ MbSyncOff(g, p)
       \/ SetPwm(g) \/ MbSyncOn(g) \/ Unbind(g) \/ Reset(g)
       \/ \E lock \in BOOLEAN : Bind(g, lock)
  \/ \E do \in {"lock", "unlock", "order"} : Broadcast(do)
  \/ \E g \in BoardGroups, e \in Effects : PaintBoard(g, e)

Step ==
  \/ Send \/ Sent \/ SendAgain \/ GiveUp
  \/ Discover \/ SyncAnswered \/ SyncGarbled \/ SyncFails
  \/ DrainBeforeQuery \/ Query \/ Probe \/ ScanEnds \/ QueryAgain \/ QueryFails \/ Refresh

Mishap ==
  \/ \E s \in Sides : Break(s) \/ Unplug(s) \/ PlugIn(s)
  \/ Hang
  \/ \E g \in BoardGroups : BoardChanges(g)

Next == Ask \/ Step \/ Mishap \/ CoolDown

\* the main loop polls for ever, and time passes
Spec == Init /\ [][Next]_vars /\ WF_vars(Step) /\ WF_vars(CoolDown)
---------------------------------------------------------------------------
(* Properties.                                                             *)

\* The shape of the state: a group the daemon knows has a MAC, none twice.
TypeOK ==
  /\ handle \in [Sides -> {"open", "silent", "broken"}] /\ handle.tx # "silent"
  /\ \A s \in Sides : plugged[s] \/ handle[s] = "broken"
  /\ host.channel \in RangeOf(Channels) /\ host.txId \in {Tx, None}
  /\ host.timeouts \in 0..StaleLimit + QueryTries + Len(Channels)
  /\ \A g \in Groups : Known(g) =>
       /\ registry[g].macs # <<>> /\ RangeOf(registry[g].macs) \subseteq Fans
       /\ Cardinality(RangeOf(registry[g].macs)) = Len(registry[g].macs)
       /\ registry[g].speed \in Speeds \cup {0, HalfSpeed}
  /\ asked + faults \in 0..MaxEvents

AnswersOk ==
  /\ Working /\ job' = Idle
  /\ job.at > Len(Script(Head(job.ops))) \/ Head(job.ops).soft

\* frames a request can lose and still have its effect
Covered(req) ==
  CASE req \in {"rgb", "bind", "mbOff"} -> 1
    [] req \in {"speed", "pwm"} -> SpeedRepeats - 1
    [] req = "unbind" -> BindRepeats - 1
    [] OTHER -> 0
Done(r) ==
  CASE job.req = "rgb"    -> r.shows = job.arg
    [] job.req = "speed"  -> r.pwm = job.arg
    [] job.req \in {"pwm", "mbOn"} -> r.mb
    [] job.req = "mbOff"  -> r.pwm = job.arg
    [] job.req = "bind"   -> r.master = Tx /\ r.group = job.group /\ r.kept
    [] job.req = "unbind" -> r.master = None
    [] OTHER -> TRUE

\* What is answered with Ok has happened: the receiver that was addressed, and was a
\* member of the group, shows the effect, runs at the speed, is bound and saved or is
\* free, whatever the USB handle did meanwhile, and although a frame got lost on the
\* air (the repeats and the second round of send_rgb are there for that).
OkMeansDone ==
  [][/\ AnswersOk /\ job.lost <= Covered(job.req)
     /\ \/ job.mac \in job.members
        \/ job.req = "bind" /\ job.mac \in OnAir(host.channel)
     => Done(fan'[job.mac])]_vars

\* A pass in which nothing went wrong knows every receiver of ours on its channel and
\* forgets no speed and no effect; a group of another backend that is still there
\* keeps its record.
PassIsTruthful ==
  [][InPhase("refresh") /\ job' = Idle =>
       /\ job.smooth /\ job.since = faults /\ handle = [s \in Sides |-> "open"] =>
            \A f \in OnAir(tuned) :
              fan[f].master = Tx =>
                /\ f \in RangeOf(registry'[fan[f].group].macs)
                /\ Known(fan[f].group) =>
                     /\ registry'[fan[f].group].rgb = registry[fan[f].group].rgb
                     /\ registry[fan[f].group].speed
                          \in {0, registry'[fan[f].group].speed}
       /\ \A g \in boards : Known(g) => registry'[g] = registry[g]]_vars

\* The recovery opens a handle at most once in a cooldown period, also when the
\* dongle is gone, whatever retries are stacked on it.
NoReopenStorm == \A s \in Sides : reopened[s] <= 1

\* When the dongles stay attached, the daemon ends up knowing every receiver that is
\* bound to it, on the channel it listens to: a hung or stale handle is reopened, and
\* the channel is found.
FansReachable ==
  <>[](\A s \in Sides : plugged[s]) =>
  <>[](\A f \in Powered : fan[f].master = Tx =>
         /\ Known(fan[f].group) /\ f \in RangeOf(registry[fan[f].group].macs)
         /\ host.channel = fan[f].channel)

=============================================================================
