---------------------------- MODULE BoardLights ----------------------------
(***************************************************************************)
(* The wired lights and fans: the AURA controller of the motherboard and   *)
(* the ENE hub, each behind one hidraw handle, the requests that reach     *)
(* them, and what the daemon then says they show.  A write carries one     *)
(* report; a request is a list of reports per channel, and on an error the *)
(* handle is reopened, at most once per cooldown, and the list sent again. *)
(* The two devices and what happens to their handles are the environment.  *)
(***************************************************************************)
EXTENDS Naturals, Sequences, FiniteSets

CONSTANTS
  FixedLeds,     \* LEDs of the fixed zone in the controller's table, 0: it has none
  Headers,       \* addressable headers in the table
  UserLeds,      \* AuraConfig.channels: LED counts of the first channels
  DefaultLeds,   \* LEDs of a header nobody configured (50)
  LedsPerPacket, \* LEDS_PER_PACKET (20)
  Frames,        \* what a channel can be painted with
  Effects,       \* AuraEffect without Off
  Speeds,        \* duties of the hub
  Devices,       \* the devices of this machine: "board", "hub"
  MaxRequests, MaxFaults \* bounds of the runs

\* the direct address of the fixed zone is 4: a fifth header would share it
ASSUME TableAssumption ==
  /\ FixedLeds \in Nat /\ Headers \in 0..4 /\ UserLeds \in Seq(Nat)
  /\ DefaultLeds \in Nat \ {0} /\ LedsPerPacket \in Nat \ {0}
\* names of effects, of the states of a channel and of no effect are apart
ASSUME EffectsAssumption == Effects \cap {"managed", "off", "none"} = {}
ASSUME DevicesAssumption == Devices \subseteq {"board", "hub"}

VARIABLES
  daemon,   \* "down", "up", or "stopping"
  found,    \* devices the backends opened at the start
  state,    \* AuraChannel.state: "managed", "off" or the mode of its effect
  recorded, \* rgb_mode the registry holds for the group of a channel
  speed,    \* speed_percent the registry holds for the hub's group
  cool,     \* whether last_reconnect or cooldown is less than 5 s ago
  job,      \* the request being worked on
  present,  \* devices attached
  link,     \* "good", or "stale": every write through the handle fails
  port,     \* what the LEDs on each port of the controller show
  buffer,   \* reports of a frame the controller has taken
  register, \* the effect the controller was told of and has not committed
  hub,      \* what the fans of the hub's first port follow
  lost,     \* ports and hubs that restarted since they were last written
  trouble,  \* what befell each device since the request began
  asked, faults \* bounds

vars == <<daemon, found, state, recorded, speed, cool, job, present, link, port, buffer,
          register, hub, lost, trouble, asked, faults>>
controller == <<port, buffer, register>>

None == "none"
Dark == "dark"
NoEffect == [port |-> 0, mode |-> None]
Idle == [do |-> None, queue |-> <<>>, left |-> <<>>, again |-> FALSE, failed |-> {}]

---------------------------------------------------------------------------
(* The channels the controller's table describes.                          *)

\* parse_config_table: the fixed zone first, then the headers
Channels == 1..(Headers + IF FixedLeds > 0 THEN 1 ELSE 0)
IsFixed(c) == FixedLeds > 0 /\ c = 1
Header(c) == IF FixedLeds > 0 THEN c - 2 ELSE c - 1
DirectChannel(c) == IF IsFixed(c) THEN 4 ELSE Header(c)
EffectChannel(c) == c - 1

\* AuraDevice::init: the user's count, else the table's, else the default
LedCount(c) ==
  IF c <= Len(UserLeds) THEN UserLeds[c]
  ELSE IF IsFixed(c) THEN FixedLeds ELSE DefaultLeds
FirstState(c) == IF LedCount(c) = 0 THEN "off" ELSE "managed"

\* discover leaves the empty channels out: only these are groups
Grouped == {c \in Channels : LedCount(c) > 0}
Chunks(c) == (LedCount(c) + LedsPerPacket - 1) \div LedsPerPacket

\* the ports of the controller, as the two kinds of reports address them
Ports == 0..4
HubPort == 5       \* stands for the hub in lost
DirectPort(a) == a
EffectPort(a) == IF FixedLeds > 0 THEN (IF a = 0 THEN 4 ELSE a - 1) ELSE a
PortOf(c) == DirectPort(DirectChannel(c))

Whole(c, frame) == [kind |-> "frame", of |-> [i \in 1..Chunks(c) |-> frame]]
Running(mode) == [kind |-> "effect", of |-> mode]

---------------------------------------------------------------------------
(* Reports, and the lists a request sends.                                 *)

\* build_direct_packets: the last report latches the frame
Direct(c, i, frame) ==
  [cmd |-> "direct", to |-> DirectChannel(c), part |-> i, arg |-> frame, apply |-> i = Chunks(c)]
DirectPackets(c, frame) == [i \in 1..Chunks(c) |-> Direct(c, i, frame)]

\* build_hw_effect_packets
EffectPackets(c, mode) ==
  <<[cmd |-> "effect", to |-> EffectChannel(c), arg |-> mode],
    [cmd |-> "color", to |-> EffectChannel(c)],
    [cmd |-> "commit"]>>

Item(device, do, c, arg, packets) ==
  [device |-> device, do |-> do, channel |-> c, arg |-> arg, packets |-> packets]
\* Mutant: a channel with an effect is painted too.
PaintAlways(c, frame) == Item("board", "paint", c, frame, DirectPackets(c, frame))
\* send_rgb sends nothing to a channel that is not managed, and is done
Paint(c, frame) ==
  Item("board", "paint", c, frame,
       IF state[c] = "managed" THEN DirectPackets(c, frame) ELSE <<>>)
Effect(c, mode) == Item("board", "effect", c, mode, EffectPackets(c, mode))
Off(c) == Item("board", "off", c, Dark, EffectPackets(c, Dark))
\* SpeedCommand: a duty, or the signal of the motherboard; one report each
FanSpeed(duty) == [cmd |-> "speed", arg |-> duty]
FanMbSync == [cmd |-> "speed", arg |-> "pwm"]
HubSpeed(s) == Item("hub", "speed", 0, s, <<IF s = "pwm" THEN FanMbSync ELSE FanSpeed(s)>>)
HubReset == Item("hub", "reset", 0, None, <<[cmd |-> "reset"]>>)

\* a buffer with x at place i: it is as long as a report has reached
Stored(buf, i, x) ==
  [j \in 1..(IF i > Len(buf) THEN i ELSE Len(buf)) |->
     IF j = i THEN x ELSE IF j <= Len(buf) THEN buf[j] ELSE Dark]
\* what the controller does with a report
Take(packet) ==
  CASE packet.cmd = "direct" ->
         LET p == DirectPort(packet.to)
         IN /\ buffer' = [buffer EXCEPT ![p] = Stored(buffer[p], packet.part, packet.arg)]
            /\ IF packet.apply
               THEN /\ port' = [port EXCEPT ![p] =
                         [kind |-> "frame", of |-> SubSeq(buffer'[p], 1, packet.part)]]
                    /\ lost' = lost \ {p}
               ELSE UNCHANGED <<port, lost>>
            /\ UNCHANGED <<register, hub>>
    [] packet.cmd = "effect" ->
         register' = [port |-> EffectPort(packet.to), mode |-> packet.arg]
         /\ UNCHANGED <<port, buffer, hub, lost>>
    [] packet.cmd = "commit" /\ register # NoEffect ->
         /\ port' = [port EXCEPT ![register.port] = Running(register.mode)]
         /\ lost' = lost \ {register.port}
         /\ register' = NoEffect /\ UNCHANGED <<buffer, hub>>
    [] packet.cmd = "speed" ->
         hub' = packet.arg /\ lost' = lost \ {HubPort} /\ UNCHANGED controller
    [] packet.cmd = "reset" ->
         hub' = None /\ lost' = lost \cup {HubPort} /\ UNCHANGED controller
    [] OTHER -> UNCHANGED <<port, buffer, register, hub, lost>>

---------------------------------------------------------------------------
(* A request and its reports.                                              *)

\* the channels of S in the order of their numbers
Ordered(S) == CHOOSE f \in [1..Cardinality(S) -> S] : \A i, j \in DOMAIN f : i < j => f[i] < f[j]

Load(queue) == IF queue = <<>> THEN <<>> ELSE Head(queue).packets

\* the daemon takes up a request when it has no other
Begin(do, queue) ==
  /\ job = Idle
  /\ job' = [Idle EXCEPT !.do = do, !.queue = queue, !.left = Load(queue)]
  /\ trouble' = [d \in Devices |->
       IF d \notin present THEN 2
       ELSE (IF cool[d] THEN 1 ELSE 0) + (IF link[d] = "stale" THEN 1 ELSE 0)]
  /\ UNCHANGED <<found, state, recorded, speed, cool, present, link, port, buffer, register,
                 hub, lost, faults>>

Request(do, queue) ==
  /\ daemon = "up" /\ asked < MaxRequests
  /\ asked' = asked + 1
  /\ Begin(do, queue) /\ UNCHANGED daemon

\* Request::Sync, and SetRgb for one group: set_rgb for each, going on after an error
Sync(S, frame) ==
  /\ "board" \in found /\ S # {}
  /\ Request("sync", [i \in 1..Cardinality(S) |-> Paint(Ordered(S)[i], frame)])
\* Request::SetAuraEffect, also for a channel that is no group
SetAuraEffect(c, mode) == "board" \in found /\ Request("effect", <<Effect(c, mode)>>)
\* Request::MoboSetSpeed and MoboAuto, and Reset, for the group of the hub
MoboSetSpeed(s) == "hub" \in found /\ Request("speed", <<HubSpeed(s)>>)
MoboAuto == "hub" \in found /\ Request("auto", <<HubSpeed("pwm")>>)
Reset == "hub" \in found /\ Request("reset", <<HubReset>>)

\* SIGTERM: AuraBackend::shutdown
ManagedChannels == {c \in Channels : state[c] = "managed"}
Shutdown ==
  LET S == IF "board" \in found THEN ManagedChannels ELSE {}
  IN /\ daemon = "up" /\ daemon' = "stopping"
     /\ Begin("stop", [i \in 1..Cardinality(S) |-> Off(Ordered(S)[i])])
     /\ UNCHANGED asked

Working == job # Idle /\ job.queue # <<>>
Current == Head(job.queue)
Advance(failed) ==
  [job EXCEPT !.queue = Tail(@), !.left = Load(Tail(job.queue)), !.again = FALSE,
              !.failed = @ \cup failed]

\* find_hidraw_device, and HidDevice::reopen, which keeps the old file on an error
Attached(d) == d \in present
Reopen(d) == Attached(d) /\ link' = [link EXCEPT ![d] = "good"]

\* write_report
Write ==
  /\ Working /\ job.left # <<>>
  /\ Attached(Current.device) /\ link[Current.device] = "good"
  /\ Take(Head(job.left))
  /\ job' = [job EXCEPT !.left = Tail(@)]
  /\ UNCHANGED <<daemon, found, state, recorded, speed, cool, present, link, trouble, asked,
                 faults>>

\* the whole list was taken: set_rgb and set_speed update the registry,
\* set_hw_effect_by_group the channel; shutdown and a reset nothing
Complete ==
  /\ Working /\ job.left = <<>>
  /\ LET item == Current
     IN /\ recorded' = IF item.do = "paint" THEN [recorded EXCEPT ![item.channel] = item.arg]
                       ELSE recorded
        /\ state' = IF item.do = "effect" THEN [state EXCEPT ![item.channel] = item.arg]
                    ELSE state
        /\ speed' = IF item.do = "speed" THEN item.arg ELSE speed
  /\ job' = Advance({})
  /\ UNCHANGED <<daemon, found, cool, present, link, port, buffer, register, hub, lost,
                 trouble, asked, faults>>

\* Mutant: one cooldown for all devices.
CanRecoverShared(d) == ~job.again /\ \A e \in Devices : ~cool[e]
\* Mutant: the retry goes on with the report that failed.
RetryRest == [job EXCEPT !.again = TRUE]
\* a write fails: reopen the handle unless this was the second attempt or the
\* cooldown runs, and send the whole list again; else the item has failed
CanRecover(d) == ~job.again /\ ~cool[d]
Retry == [job EXCEPT !.left = Current.packets, !.again = TRUE]
Recover ==
  LET d == Current.device
  IN /\ cool' = [cool EXCEPT ![d] = @ \/ CanRecover(d)]
     /\ \/ CanRecover(d) /\ Reopen(d) /\ job' = Retry
        \/ ~(CanRecover(d) /\ Attached(d)) /\ job' = Advance({d}) /\ UNCHANGED link

WriteFails ==
  /\ Working /\ job.left # <<>>
  /\ link[Current.device] = "stale"
  /\ Recover
  /\ UNCHANGED <<daemon, found, state, recorded, speed, present, port, buffer, register, hub,
                 lost, trouble, asked, faults>>

\* the answer, or the end of the process
Answer ==
  /\ job # Idle /\ job.queue = <<>>
  /\ job' = Idle
  /\ IF daemon = "stopping"
     THEN daemon' = "down" /\ link' = [d \in Devices |-> "stale"]
     ELSE UNCHANGED <<daemon, link>>
  /\ UNCHANGED <<found, state, recorded, speed, cool, present, port, buffer, register, hub,
                 lost, trouble, asked, faults>>

\* AuraBackend::open_all: a controller whose init fails, or without lights, is left out
Opens(d, answering) == d \in answering /\ Attached(d)
OpenBoard(answering) ==
  IF Opens("board", answering) /\ Grouped # {} THEN {"board"} ELSE {}
\* WiredEneBackend::open_all
OpenHub(answering) == IF Opens("hub", answering) THEN {"hub"} ELSE {}

\* main: what is not opened now stays out until the next start
Start(answering) ==
  /\ daemon = "down" /\ daemon' = "up" /\ asked < MaxRequests
  /\ asked' = asked + 1
  /\ found' = OpenBoard(answering) \cup OpenHub(answering)
  /\ link' = [d \in Devices |-> IF d \in found' THEN "good" ELSE "stale"]
  /\ cool' = [d \in Devices |-> FALSE]
  /\ state' = [c \in Channels |-> FirstState(c)]
  /\ recorded' = [c \in Channels |-> None]
  /\ speed' = None
  /\ UNCHANGED <<job, present, port, buffer, register, hub, lost, trouble, faults>>

---------------------------------------------------------------------------
(* The environment.                                                        *)

LostPower(d) == IF d = "board" THEN Ports ELSE {HubPort}
Dead == [p \in Ports |-> [kind |-> "frame", of |-> <<Dark>>]]
NoBuffer == [p \in Ports |-> <<>>]

Befalls(d, n) == trouble' = [trouble EXCEPT ![d] = @ + n]

Unplug(d) ==
  /\ d \in present /\ faults < MaxFaults
  /\ faults' = faults + 1
  /\ present' = present \ {d} /\ link' = [link EXCEPT ![d] = "stale"]
  /\ lost' = lost \cup LostPower(d) /\ Befalls(d, 2)
  /\ IF d = "board"
     THEN port' = Dead /\ buffer' = NoBuffer /\ register' = NoEffect /\ UNCHANGED hub
     ELSE hub' = None /\ UNCHANGED controller
  /\ UNCHANGED <<daemon, found, state, recorded, speed, cool, job, asked>>

Plug(d) ==
  /\ d \notin present /\ present' = present \cup {d}
  /\ UNCHANGED <<daemon, found, state, recorded, speed, cool, job, link, port, buffer,
                 register, hub, lost, trouble, asked, faults>>

\* a suspend or a reset of the USB hub: the device stays, its handle is dead
GoesStale(d) ==
  /\ link[d] = "good" /\ faults < MaxFaults
  /\ faults' = faults + 1
  /\ link' = [link EXCEPT ![d] = "stale"] /\ Befalls(d, 1)
  /\ UNCHANGED <<daemon, found, state, recorded, speed, cool, job, present, port, buffer,
                 register, hub, lost, asked>>

CooldownEnds(d) ==
  /\ cool[d] /\ cool' = [cool EXCEPT ![d] = FALSE]
  /\ UNCHANGED <<daemon, found, state, recorded, speed, job, present, link, port, buffer,
                 register, hub, lost, trouble, asked, faults>>

---------------------------------------------------------------------------
Init ==
  /\ daemon = "down" /\ found = {}
  /\ state = [c \in Channels |-> FirstState(c)]
  /\ recorded = [c \in Channels |-> None] /\ speed = None
  /\ cool = [d \in Devices |-> FALSE]
  /\ job = Idle /\ trouble = [d \in Devices |-> 0]
  /\ present = Devices /\ link = [d \in Devices |-> "stale"]
  /\ port = Dead /\ buffer = NoBuffer /\ register = NoEffect
  /\ hub = None /\ lost = {}
  /\ asked = 0 /\ faults = 0

Next ==
  \/ \E answering \in SUBSET Devices : Start(answering)
  \/ \E S \in SUBSET Grouped, frame \in Frames : Sync(S, frame)
  \/ \E c \in Channels, mode \in Effects : SetAuraEffect(c, mode)
  \/ \E s \in Speeds : MoboSetSpeed(s)
  \/ MoboAuto \/ Reset \/ Shutdown
  \/ Write \/ WriteFails \/ Complete \/ Answer
  \/ \E d \in Devices : Unplug(d) \/ Plug(d) \/ GoesStale(d) \/ CooldownEnds(d)

Spec == Init /\ [][Next]_vars

---------------------------------------------------------------------------
Shown == [kind : {"frame"}, of : Seq(Frames \cup {Dark})]
         \cup [kind : {"effect"}, of : Effects \cup {Dark}]

\* The types of the state.
TypeOK ==
  /\ daemon \in {"down", "up", "stopping"} /\ found \subseteq Devices
  /\ state \in [Channels -> {"managed", "off"} \cup Effects]
  /\ recorded \in [Channels -> Frames \cup {None}]
  /\ speed \in Speeds \cup {"pwm", None} /\ hub \in Speeds \cup {"pwm", None}
  /\ cool \in [Devices -> BOOLEAN] /\ link \in [Devices -> {"good", "stale"}]
  /\ present \subseteq Devices /\ port \in [Ports -> Shown]
  /\ lost \subseteq Ports \cup {HubPort} /\ trouble \in [Devices -> Nat]
  /\ job.failed \subseteq Devices /\ asked \in Nat /\ faults \in Nat

\* No port ever shows parts of two frames, or a frame the controller has only
\* part of, whatever happens between two reports of a frame (send_direct).
WholeFrames ==
  \A p \in Ports : port[p].kind = "frame" =>
    \A i, j \in DOMAIN port[p].of : port[p].of[i] = port[p].of[j]

\* Between requests a managed channel shows the mode the status gives for its group,
\* and a channel reported as running an effect runs it; a hub runs at the speed of the
\* status.  A device that restarted by itself is excepted until it is written again
\* (System::set_rgb, set_hw_effect_by_group, System::set_speed).
LightsAsRecorded ==
  daemon = "up" /\ job = Idle =>
    /\ "board" \in found => \A c \in Channels : PortOf(c) \notin lost =>
         /\ state[c] = "managed" /\ recorded[c] # None
              => port[PortOf(c)] = Whole(c, recorded[c])
         /\ state[c] \in Effects => port[PortOf(c)] = Running(state[c])
    /\ speed # None /\ HubPort \notin lost => hub = speed

\* One stale handle, one cooldown or one interruption alone never fails a request:
\* it takes two of them, or a device that went away (try_reconnect, with_recovery).
OneHiccupSurvived == \A d \in job.failed : trouble[d] >= 2

=============================================================================
