--------------------------- MODULE OpenRgbServer ---------------------------
(***************************************************************************)
(* The OpenRGB SDK server of the daemon: the accept thread, one thread per *)
(* connection that frames and answers packets, the snapshot of the groups  *)
(* it was started with, the channel of colour commands and the main loop   *)
(* that drains it.  The clients discover and paint as the OpenRGB backend  *)
(* of this repository does: they ask for the controllers, with a read      *)
(* timeout, and then send frames; but a client may lay out its frames as   *)
(* the server reads them.  A packet travels in pieces, and a client may    *)
(* pause between two of them for longer than the server's read timeout.    *)
(***************************************************************************)
EXTENDS Naturals, Sequences, FiniteSets

CONSTANTS
  Clients,
  Layout,        \* how each client lays out a frame: "sdk", as parse_colors reads it,
                 \* or "backend", as build_led_update writes it
  AllGroups,     \* all groups there may be
  FirstGroups,   \* the groups at the start and the fans of each, a sequence of pairs
  Inner, Outer,  \* LedLayout: LEDs of the two rings of a fan
  FanCounts,     \* fans a discovery may find in a group
  MaxSent,       \* bounds of the runs: packets of each client,
  MaxPackets,    \* of all together,
  MaxUpdates,    \* frames and zones of each client,
  MaxTroubles    \* pauses, late answers, changes of the groups, leaving and the stop together

ASSUME LayoutAssumption == Layout \in [Clients -> {"sdk", "backend"}]
ASSUME RingsAssumption == Inner \in Nat \ {0} /\ Outer \in Nat
ASSUME GroupsAssumption ==
  FirstGroups \in Seq(AllGroups \X (Nat \ {0})) /\ FanCounts \subseteq Nat

VARIABLES
  main,     \* "loop", "apply", "join" or "exited"
  stop,     \* the stop flag
  acceptor, \* the accept thread: "bind", "accept" or "ended"
  registry, \* fans of each group the daemon knows, 0: unknown
  caps,     \* the snapshot clients see: groups in order, and their fans
  queue,    \* colour commands in the channel
  batch,    \* those drain_commands has taken out
  shown,    \* LEDs each group was last given by a client
  conn,     \* "none", "waiting", "open", "dropped" (by the server) or "left"
  thread,   \* the thread of the connection
  sent,     \* packets a client has sent
  wire,     \* pieces of them not read yet: <<packet, piece>>
  back,     \* answers on their way to the client
  client,   \* the client: what it does, and the controllers it knows
  applied,  \* the last frame of a client that reached its group
  paused,   \* clients that paused within a packet
  late,     \* clients whose read timed out
  changes   \* bound

serverVars == <<main, stop, acceptor, registry, caps, queue, batch, shown, conn, thread, sent, wire,
          back, client, applied, paused, late, changes>>
server == <<main, stop, acceptor, registry, caps, batch, shown, applied, changes>>
clients == <<conn, thread, sent, wire, back, client, paused, late>>

Count(s) == Cardinality(s)
Untroubled ==
  Count(paused) + Count(late) + changes + Count({c \in Clients : conn[c] = "left"})
    + (IF stop THEN 1 ELSE 0) < MaxTroubles
PerFan == Inner + Outer
NoThread == [at |-> "ended", got |-> <<>>, packet |-> 0]
Quiet == [at |-> "idle", next |-> 0, count |-> 0, known |-> {}]

---------------------------------------------------------------------------
(* Packets.                                                                *)

Packet(kind, index, group, fans) ==
  [kind |-> kind, index |-> index, group |-> group, fans |-> fans]
HasPayload(kind) == kind # "count"
Pieces(n, kind) == [k \in 1..(IF HasPayload(kind) THEN 3 ELSE 2) |-> <<n, k>>]

\* two pieces of header, of which the first holds the magic; read_packet
HeaderPieces == 2
HasMagic(got) == got[1][2] = 1
\* what a piece that is no header may look like
Nonsense == Packet("leds", 1, 0, 1)

\* Payloads in words of 16 bits.  A colour is red and green, then blue and alpha: of its
\* second word only the first byte counts.
Colour(c, n, k) == <<<<c, n, k, 1>>, <<c, n, k, 2>>>>
Colours(c, n, leds) ==
  [w \in 1..2 * leds |-> Colour(c, n, (w + 1) \div 2)[IF w % 2 = 1 THEN 1 ELSE 2]]
\* data_size, which nobody reads, the count of LEDs in one word or in two, the colours
Payload(c, n, fans) ==
  <<<<0>>, <<0>>, <<fans * PerFan>>>>
  \o (IF Layout[c] = "backend" THEN <<<<0>>>> ELSE <<>>)
  \o Colours(c, n, fans * PerFan)
\* parse_colors: a count of one word, then colours as far as the payload reaches
ParseColors(payload) ==
  LET num == payload[3][1]
      room == (Len(payload) - 3) \div 2
  IN [k \in 1..(IF num < room THEN num ELSE room) |->
        <<payload[2 * k + 2], payload[2 * k + 3]>>]

Connected(c) == conn[c] \in {"waiting", "open"}
AllSent == UNION {{c} \X DOMAIN sent[c] : c \in Clients}
CanSend(c) == Connected(c) /\ Len(sent[c]) < MaxSent[c] /\ Count(AllSent) < MaxPackets
\* write_all on the client's side
Sends(c, packet) ==
  LET n == Len(sent[c]) + 1
  IN /\ sent' = [sent EXCEPT ![c] = Append(@, packet)]
     /\ wire' = [wire EXCEPT ![c] = @ \o Pieces(n, packet.kind)]

---------------------------------------------------------------------------
(* The threads of the server.                                              *)

Bind ==
  /\ acceptor = "bind" /\ acceptor' \in {"accept", "ended"}
  /\ UNCHANGED <<main, stop, registry, caps, queue, batch, shown, applied, changes, clients>>

\* Mutant: the accept thread serves a connection itself before it takes the next.
AcceptInline(c) ==
  /\ acceptor = "accept" /\ ~stop /\ conn[c] = "waiting"
  /\ \A d \in Clients : thread[d].at = "ended"
  /\ conn' = [conn EXCEPT ![c] = "open"]
  /\ thread' = [thread EXCEPT ![c] = [at |-> "check", got |-> <<>>, packet |-> 0]]
  /\ UNCHANGED <<server, queue, sent, wire, back, client, paused, late>>
\* a connection is taken and gets a thread
Accept(c) ==
  /\ acceptor = "accept" /\ ~stop /\ conn[c] = "waiting"
  /\ conn' = [conn EXCEPT ![c] = "open"]
  /\ thread' = [thread EXCEPT ![c] = [at |-> "check", got |-> <<>>, packet |-> 0]]
  /\ UNCHANGED <<server, queue, sent, wire, back, client, paused, late>>

\* accept does not block: the flag is seen within 50 ms
SeesStop == stop
AcceptorEnds ==
  /\ acceptor = "accept" /\ SeesStop /\ acceptor' = "ended"
  /\ UNCHANGED <<main, stop, registry, caps, queue, batch, shown, applied, changes, clients>>

Goes(c, at, got, packet) ==
  thread' = [thread EXCEPT ![c] = [at |-> at, got |-> got, packet |-> packet]]
Drops(c) ==
  /\ thread' = [thread EXCEPT ![c] = NoThread]
  /\ conn' = [conn EXCEPT ![c] = IF @ = "open" THEN "dropped" ELSE @]

\* top of handle_client's loop
Check(c) ==
  /\ thread[c].at = "check"
  /\ IF stop THEN Drops(c) ELSE Goes(c, "header", <<>>, 0) /\ UNCHANGED conn
  /\ UNCHANGED <<server, queue, sent, wire, back, client, paused, late>>

\* Mutant: the magic is not looked at.
AnyHeader(got) == TRUE
IsHeader(got) == HasMagic(got)

\* read_exact gets the next piece of the header or the payload
Read(c) ==
  /\ thread[c].at \in {"header", "payload"} /\ wire[c] # <<>>
  /\ wire' = [wire EXCEPT ![c] = Tail(@)]
  /\ LET got == Append(thread[c].got, Head(wire[c]))
         n == IF HasMagic(got) THEN got[1][1] ELSE 0
     IN IF thread[c].at = "payload"
        THEN Goes(c, "packet", <<>>, thread[c].packet) /\ UNCHANGED conn
        ELSE IF Len(got) < HeaderPieces THEN Goes(c, "header", got, 0) /\ UNCHANGED conn
        ELSE IF ~IsHeader(got) THEN Drops(c)
        ELSE /\ UNCHANGED conn
             /\ IF n > 0 /\ HasPayload(sent[c][n].kind)
                THEN Goes(c, "payload", <<>>, n) ELSE Goes(c, "packet", <<>>, n)
  /\ UNCHANGED <<server, queue, sent, back, client, paused, late>>

\* the read times out: what was read of the packet is forgotten
ReadTimesOut(c) ==
  /\ thread[c].at \in {"header", "payload"}
  /\ LET within == thread[c].at = "payload" \/ thread[c].got # <<>>
     IN /\ IF within THEN Untroubled ELSE wire[c] = <<>>
        /\ paused' = IF within THEN paused \cup {c} ELSE paused
  /\ Goes(c, "check", <<>>, 0)
  /\ UNCHANGED <<server, queue, conn, sent, wire, back, client, late>>

\* the client has gone and everything it sent was read
Eof(c) ==
  /\ thread[c].at \in {"header", "payload"} /\ wire[c] = <<>> /\ conn[c] = "left"
  /\ Drops(c)
  /\ UNCHANGED <<server, queue, sent, wire, back, client, paused, late>>

\* the replies, of which only the ones to the two questions carry anything
Answer(packet) ==
  IF packet.kind = "count" THEN [kind |-> "count", count |-> Len(caps), device |-> <<>>]
  ELSE IF packet.index \in DOMAIN caps
  THEN [kind |-> "data", count |-> 0, device |-> caps[packet.index]]
  ELSE [kind |-> "empty", count |-> 0, device |-> <<>>]
Asks(packet) == packet.kind \in {"count", "data"}

\* PKT_UPDATE_LEDS: the group is looked up by index, the colours are parsed
ColorCommand(c, n, packet) ==
  [client |-> c, n |-> n, group |-> caps[packet.index][1],
   colors |-> ParseColors(Payload(c, n, packet.fans))]

\* handle_client: the match on the packet; zone updates are taken and ignored later
Handle(c) ==
  /\ thread[c].at = "packet"
  /\ LET n == thread[c].packet
         packet == IF n = 0 THEN Nonsense ELSE sent[c][n]
     IN /\ back' = IF Asks(packet) THEN [back EXCEPT ![c] = Append(@, Answer(packet))] ELSE back
        /\ queue' = IF packet.kind = "leds" /\ packet.index \in DOMAIN caps
                    THEN Append(queue, ColorCommand(c, n, packet)) ELSE queue
  /\ Goes(c, "check", <<>>, 0)
  /\ UNCHANGED <<server, conn, sent, wire, client, paused, late>>

---------------------------------------------------------------------------
(* The main loop.                                                          *)

\* build_openrgb_caps is called once: update_caps has no caller
SnapshotAfter(known) == caps

\* a discovery finds a group gone, back or with another number of fans
Rediscover(g, fans) ==
  /\ main = "loop" /\ Untroubled /\ registry[g] # fans
  /\ changes' = changes + 1
  /\ registry' = [registry EXCEPT ![g] = fans]
  /\ caps' = SnapshotAfter(registry')
  /\ UNCHANGED <<main, stop, acceptor, queue, batch, shown, applied, clients>>

\* drain_commands
Drain ==
  /\ main = "loop" /\ queue # <<>>
  /\ main' = "apply" /\ batch' = queue /\ queue' = <<>>
  /\ UNCHANGED <<stop, acceptor, registry, caps, shown, applied, changes, clients>>

\* SetLeds: the colours are cut into fans, each fan into its two rings
Slice(s, from, to) == SubSeq(s, from, IF to < Len(s) THEN to ELSE Len(s))
FanLeds(fan) ==
  (IF Len(fan) >= Inner THEN SubSeq(fan, 1, Inner) ELSE fan)
  \o (IF Len(fan) >= PerFan THEN SubSeq(fan, Inner + 1, PerFan) ELSE <<>>)
Assigned(colors, fans) ==
  LET leds[f \in 0..fans] ==
        IF f = 0 THEN <<>>
        ELSE leds[f - 1] \o FanLeds(Slice(colors, (f - 1) * PerFan + 1, f * PerFan))
  IN leds[fans]

\* set_rgb fails for a group that is gone, which is only logged
Apply ==
  /\ main = "apply"
  /\ LET cmd == Head(batch)
         fans == registry[cmd.group]
     IN /\ shown' = IF fans = 0 THEN shown
                    ELSE [shown EXCEPT ![cmd.group] = Assigned(cmd.colors, fans)]
        /\ applied' = [applied EXCEPT ![cmd.client] = cmd.n]
  /\ batch' = Tail(batch) /\ main' = IF Tail(batch) = <<>> THEN "loop" ELSE main
  /\ UNCHANGED <<stop, acceptor, registry, caps, queue, changes, clients>>

\* SIGTERM: OpenRgbServer::shutdown sets the flag and joins the accept thread
Stop ==
  /\ main = "loop" /\ Untroubled /\ main' = "join" /\ stop' = TRUE
  /\ UNCHANGED <<acceptor, registry, caps, queue, batch, shown, applied, changes, clients>>
Join ==
  /\ main = "join" /\ acceptor = "ended" /\ main' = "exited"
  /\ thread' = [c \in Clients |-> NoThread]
  /\ conn' = [c \in Clients |-> IF Connected(c) THEN "dropped" ELSE conn[c]]
  /\ UNCHANGED <<stop, acceptor, registry, caps, queue, batch, shown, applied, changes, sent,
                 wire, back, client, paused, late>>

---------------------------------------------------------------------------
(* The clients (OpenRgbBackend).                                           *)

\* connect; the name it sends first changes nothing at the server
Connect(c) ==
  /\ conn[c] = "none" /\ acceptor = "accept"
  /\ conn' = [conn EXCEPT ![c] = "waiting"]
  /\ UNCHANGED <<server, queue, thread, sent, wire, back, client, paused, late>>

\* discover: the list is emptied, then the controllers are counted
AskCount(c) ==
  /\ client[c].at = "idle" /\ CanSend(c)
  /\ client' = [client EXCEPT ![c] = [Quiet EXCEPT !.at = "count"]]
  /\ Sends(c, Packet("count", 0, 0, 0))
  /\ UNCHANGED <<server, queue, conn, thread, back, paused, late>>

\* the number read from whatever answer comes: of another controller's data it is the
\* size, which is larger than any count
Counted(answer) ==
  CASE answer.kind = "count" -> answer.count
    [] answer.kind = "data" -> Len(caps) + 1
    [] answer.kind = "empty" -> 0
ReadCount(c) ==
  /\ client[c].at = "count" /\ back[c] # <<>>
  /\ back' = [back EXCEPT ![c] = Tail(@)]
  /\ client' = [client EXCEPT ![c].at = IF Counted(Head(back[c])) > 0 THEN "ask" ELSE "idle",
                              ![c].count = Counted(Head(back[c])), ![c].next = 1]
  /\ UNCHANGED <<server, queue, conn, thread, sent, wire, paused, late>>

AskData(c) ==
  /\ client[c].at = "ask" /\ CanSend(c)
  /\ client' = [client EXCEPT ![c].at = "data"]
  /\ Sends(c, Packet("data", client[c].next, 0, 0))
  /\ UNCHANGED <<server, queue, conn, thread, back, paused, late>>

NextIndex(c, known) ==
  client' = [client EXCEPT ![c] =
    [at |-> IF client[c].next < client[c].count THEN "ask" ELSE "idle",
     next |-> client[c].next + 1, count |-> client[c].count, known |-> known]]
\* request_controller_data: an answer too short is skipped, the index is the one asked
ReadData(c) ==
  /\ client[c].at = "data" /\ back[c] # <<>>
  /\ back' = [back EXCEPT ![c] = Tail(@)]
  /\ LET answer == Head(back[c])
     IN NextIndex(c, IF answer.kind = "data"
                     THEN client[c].known \cup {<<client[c].next, answer.device>>}
                     ELSE client[c].known)
  /\ UNCHANGED <<server, queue, conn, thread, sent, wire, paused, late>>

\* 500 ms without an answer, or the connection is gone
Unanswered(c) ==
  /\ client[c].at \in {"count", "data"} /\ back[c] = <<>>
  /\ IF Connected(c) THEN Untroubled /\ late' = late \cup {c} ELSE UNCHANGED late
  /\ IF client[c].at = "count"
     THEN client' = [client EXCEPT ![c] = Quiet] ELSE NextIndex(c, client[c].known)
  /\ UNCHANGED <<server, queue, conn, thread, sent, wire, back, paused>>
AskFails(c) ==
  /\ client[c].at = "ask" /\ ~Connected(c)
  /\ NextIndex(c, client[c].known)
  /\ UNCHANGED <<server, queue, conn, thread, sent, wire, back, paused, late>>

\* send_rgb; other clients also update one zone
Updates(c) == IF Layout[c] = "sdk" THEN {"leds", "zone"} ELSE {"leds"}
Paint(c, device, kind) ==
  /\ client[c].at = "idle" /\ CanSend(c) /\ device \in client[c].known
  /\ Count({n \in DOMAIN sent[c] : ~Asks(sent[c][n])}) < MaxUpdates
  /\ Sends(c, Packet(kind, device[1], device[2][1], device[2][2]))
  /\ UNCHANGED <<server, queue, conn, thread, back, client, paused, late>>

Leave(c) ==
  /\ conn[c] = "open" /\ Untroubled /\ conn' = [conn EXCEPT ![c] = "left"]
  /\ UNCHANGED <<server, queue, thread, sent, wire, back, client, paused, late>>

---------------------------------------------------------------------------
ServerInit ==
  /\ main = "loop" /\ stop = FALSE /\ acceptor = "bind"
  /\ caps = FirstGroups
  /\ registry = [g \in AllGroups |->
       IF \E i \in DOMAIN caps : caps[i][1] = g
       THEN caps[CHOOSE i \in DOMAIN caps : caps[i][1] = g][2] ELSE 0]
  /\ queue = <<>> /\ batch = <<>> /\ shown = [g \in AllGroups |-> <<>>]
  /\ conn = [c \in Clients |-> "none"] /\ thread = [c \in Clients |-> NoThread]
  /\ sent = [c \in Clients |-> <<>>] /\ wire = [c \in Clients |-> <<>>]
  /\ back = [c \in Clients |-> <<>>] /\ client = [c \in Clients |-> Quiet]
  /\ applied = [c \in Clients |-> 0]
  /\ paused = {} /\ late = {} /\ changes = 0

Serve(c) == Check(c) \/ Read(c) \/ ReadTimesOut(c) \/ Eof(c) \/ Handle(c)
MainLoop == Drain \/ Apply
Discovery(c) == ReadCount(c) \/ AskData(c) \/ ReadData(c) \/ Unanswered(c) \/ AskFails(c)

ServerNext ==
  \/ Bind \/ AcceptorEnds \/ MainLoop \/ Stop \/ Join
  \/ \E g \in AllGroups, fans \in FanCounts : Rediscover(g, fans)
  \/ \E c \in Clients :
       \/ Accept(c) \/ Serve(c)
       \/ Connect(c) \/ AskCount(c) \/ Discovery(c) \/ Leave(c)
       \/ \E device \in client[c].known, kind \in Updates(c) : Paint(c, device, kind)

\* every thread of the daemon keeps running
Fairness ==
  /\ WF_serverVars(Bind) /\ WF_serverVars(AcceptorEnds)
  /\ WF_serverVars(MainLoop) /\ WF_serverVars(Join)
  /\ \A c \in Clients : WF_serverVars(Accept(c)) /\ WF_serverVars(Serve(c))

ServerSpec == ServerInit /\ [][ServerNext]_serverVars
FairServerSpec == ServerSpec /\ Fairness

---------------------------------------------------------------------------
\* The types of the state.
ServerTypes ==
  /\ main \in {"loop", "apply", "join", "exited"} /\ stop \in BOOLEAN
  /\ acceptor \in {"bind", "accept", "ended"} /\ registry \in [AllGroups -> Nat]
  /\ \A c \in Clients :
       /\ conn[c] \in {"none", "waiting", "open", "dropped", "left"}
       /\ thread[c].at \in {"check", "header", "payload", "packet", "ended"}
       /\ client[c].at \in {"idle", "count", "ask", "data"}
       /\ applied[c] \in 0..Len(sent[c])
  /\ paused \subseteq Clients /\ late \subseteq Clients

\* What a group shows of a client is one frame that client sent for that very group,
\* LED for LED, whatever pauses, time-outs, changes of the groups and other clients came
\* between (read_packet, parse_colors, handle_client, the SetLeds command of main).  A
\* client whose own read timed out matches answers to the wrong questions: it may mean
\* another group.  And parse_colors does not read what build_led_update writes: with that
\* layout everything lands two bytes late, and an LED has its red where its blue should be.
InPlace(c, n, k, led) ==
  \/ led = Colour(c, n, k)
  \/ Layout[c] = "backend" /\ led[2] = Colour(c, n, k)[1]
ShownAsSent ==
  \A g \in AllGroups : shown[g] # <<>> =>
    \E c \in Clients : \E n \in DOMAIN sent[c] :
      /\ sent[c][n].kind = "leds" /\ (sent[c][n].group = g \/ c \in late)
      /\ \A k \in DOMAIN shown[g] : InPlace(c, n, k, shown[g][k])

\* Every connection is served, and every frame for a controller of the snapshot reaches the
\* main loop in the end, or a later one of that client does, unless the client paused within
\* a packet or left, or the daemon stops: no thread waits for another, and a silent client
\* holds up nobody (run_server, handle_client, drain_commands).  A frame for an index beyond
\* the snapshot, which a client can have after its read timed out, is dropped unsaid.
Arrived(c) == conn[c] # "waiting" /\
  \A n \in DOMAIN sent[c] :
    sent[c][n].kind = "leds" /\ sent[c][n].index \in DOMAIN caps => applied[c] >= n
FramesArrive ==
  \A c \in Clients : []<>(Arrived(c) \/ c \in paused \/ conn[c] = "left" \/ stop)

=============================================================================
