------------------------------- MODULE IpcEvents -------------------------------
(***************************************************************************)
(* The daemon's socket: the sweep of its main loop over the connections    *)
(* (crates/frgb-daemon/src/main.rs, ipc.rs), the framing (frgb-ipc         *)
(* wire.rs) and the three kinds of client: event streams that subscribe    *)
(* and reconnect (event_stream.rs), the GUI's request thread (frgb-gui     *)
(* bridge.rs) and one-shot commands (frgb-cli main.rs).                    *)
(*                                                                         *)
(* What requests and ticks change is one value, the mode of a group, named *)
(* by the number of its last change; each change has the event of that     *)
(* number.  A frame is a header and a body, written one after the other.   *)
(***************************************************************************)
EXTENDS Integers, Sequences, FiniteSets, SequencesExt

CONSTANTS
  Streams,     \* event streams (GUI event threads)
  Panels,      \* GUI request threads
  Commands,    \* CLI invocations, each run at most once
  Conns,       \* names of connections, a set of positive integers
  Requests,    \* requests of panels and commands, from {"set", "get"}
  BufCap,      \* messages a client's socket holds before a write blocks
  MaxChanges,  \* bound on changes of the mode
  MaxFaults    \* bound on late bodies, timeouts, killed clients and crashes

Clients == Streams \cup Panels \cup Commands

ASSUME IpcAssumption ==
  /\ Streams \cap Panels = {} /\ Streams \cap Commands = {} /\ Panels \cap Commands = {}
  /\ Conns \subseteq Nat \ {0}
  /\ Requests \subseteq {"set", "get"}
  /\ {BufCap, MaxChanges, MaxFaults} \subseteq Nat

VARIABLES
  running,  \* the daemon is up and listens
  pc,       \* where its main loop is: read, then tick; or dispatch
  backlog,  \* connections not accepted yet
  clients,  \* the loop's vector of connections
  sweep,    \* those the current retain_mut has still to visit
  pending,  \* request_events, then the events being dispatched
  mode,     \* number of the change the group's mode comes from
  changes,  \* changes so far
  log,      \* history: events dispatched since the daemon started
  link,     \* the connections
  at,       \* per client: idle, send, body, wait, ready, listen, done
  conn,     \* per client: its connection, or 0
  req,      \* per client: the request it is at
  snapped,  \* per stream: it got a status on this connection
  view,     \* per stream: the change it last heard of
  faults     \* late bodies, timeouts, killed clients and crashes so far

server == <<running, pc, backlog, clients, sweep, pending, mode, changes, log>>
local  == <<at, conn, req, snapped, view>>
vars   == <<server, link, local, faults>>

-----------------------------------------------------------------------------
(* Connections.  near and far say whether the client's and the daemon's end *)
(* is open; up holds frame parts, down whole messages; from and read count  *)
(* events: logged when the daemon noted the subscription, read since.       *)

Reply(kind, of, val) == [kind |-> kind, of |-> of, val |-> val]
Event(n) == Reply("event", "event", n)

Unused == [near |-> FALSE, far |-> FALSE, sub |-> FALSE, up |-> <<>>, down |-> <<>>,
           from |-> 0, read |-> 0]
Opened == [Unused EXCEPT !.near = TRUE, !.far = TRUE]

Sent(l, m) == [l EXCEPT !.down = Append(@, m)]

\* Close one end; a connection closed at both ends is gone.
Hang(l, end) == LET k == [l EXCEPT ![end] = FALSE]
                IN  IF k.near \/ k.far THEN k ELSE Unused
HangFar(l)  == Hang(l, "far")
HangNear(l) == Hang(l, "near")

\* retain_mut lets go of the connection it is at.
Dropped(c) == RemoveAt(clients, CHOOSE i \in DOMAIN clients : clients[i] = c)

\* The events among the messages of s, in their order.
EventsIn(s) ==
  LET upTo[n \in 0..Len(s)] ==
        IF n = 0 THEN <<>>
        ELSE IF s[n].kind = "event" THEN Append(upTo[n - 1], s[n])
        ELSE upTo[n - 1]
  IN upTo[Len(s)]

TypeOK ==
  /\ running \in BOOLEAN /\ pc \in {"read", "dispatch"}
  /\ {backlog, clients, sweep} \subseteq Seq(Conns)
  /\ pending \in Seq(1..MaxChanges) /\ log \in Seq(1..MaxChanges)
  /\ mode \in 0..changes /\ changes \in 0..MaxChanges
  /\ DOMAIN link = Conns
  /\ \A c \in Conns :
       /\ link[c].up \in Seq({"header", "hello", "subscribe", "status", "set", "get"})
       /\ \A i \in DOMAIN link[c].down :
            link[c].down[i].kind \in {"hello", "ok", "status", "error", "event"}
  /\ at \in [Clients -> {"idle", "send", "body", "wait", "ready", "listen", "done"}]
  /\ conn \in [Clients -> Conns \cup {0}]
  /\ view \in [Streams -> 0..MaxChanges] /\ snapped \in [Streams -> BOOLEAN]
  /\ faults \in 0..MaxFaults
  /\ IsInjective(clients \o backlog)
  /\ Range(clients \o backlog) = {c \in Conns : link[c].far}

Init ==
  /\ running = TRUE /\ pc = "read"
  /\ backlog = <<>> /\ clients = <<>> /\ sweep = <<>> /\ pending = <<>>
  /\ mode = 0 /\ changes = 0 /\ log = <<>>
  /\ link = [c \in Conns |-> Unused]
  /\ at = [p \in Clients |-> "idle"] /\ conn = [p \in Clients |-> 0]
  /\ req = [p \in Clients |-> "hello"]
  /\ snapped = [s \in Streams |-> FALSE] /\ view = [s \in Streams |-> 0]
  /\ faults = 0

-----------------------------------------------------------------------------
(* The main loop. *)

\* The next iteration begins: accept what waits, then visit every connection.
Accept ==
  /\ pc' = "read" /\ pending' = <<>>
  /\ clients' = clients \o backlog
  /\ sweep' = clients'
  /\ backlog' = <<>>

Visit(c) == running /\ sweep # <<>> /\ c = Head(sweep)

\* (mutant) no read timeout on accepted connections
ReadNothingBlocks(c) ==
  /\ pc = "read" /\ Visit(c) /\ link[c].up = <<>> /\ ~link[c].near
  /\ sweep' = Tail(sweep)
  /\ UNCHANGED <<running, pc, backlog, clients, pending, mode, changes, log, link, local, faults>>

\* read_request finds nothing within its 50 ms, or the end of the stream: the
\* connection is kept either way.
ReadNothing(c) ==
  /\ pc = "read" /\ Visit(c) /\ link[c].up = <<>>
  /\ sweep' = Tail(sweep)
  /\ UNCHANGED <<running, pc, backlog, clients, pending, mode, changes, log, link, local,
                 faults>>

\* A header whose body does not come within 50 ms, or never will.
ReadHalf(c) ==
  /\ pc = "read" /\ Visit(c) /\ Len(link[c].up) = 1
  /\ sweep' = Tail(sweep) /\ clients' = Dropped(c)
  /\ link' = [link EXCEPT ![c] = HangFar(Sent(@, Reply("error", "frame", 0)))]
  /\ UNCHANGED <<running, pc, backlog, pending, mode, changes, log, local, faults>>

Marked(l, r) == IF r = "subscribe"
                THEN [l EXCEPT !.sub = TRUE, !.from = Len(log), !.read = 0] ELSE l

\* (mutant) SetRgb changes the group and tells nobody
HandleSilently(r, response) ==
  IF r = "set"
  THEN /\ changes < MaxChanges /\ changes' = changes + 1 /\ mode' = changes'
       /\ pending' = pending /\ response = Reply("ok", r, 0)
  ELSE /\ response = CASE r = "hello"     -> Reply("hello", r, 0)
                       [] r = "subscribe" -> Reply("ok", r, 0)
                       [] OTHER           -> Reply("status", r, mode)
       /\ UNCHANGED <<changes, mode, pending>>

\* handler::handle: what a request does and the response to it.
Handle(r, response) ==
  \/ /\ r = "set" /\ changes < MaxChanges
     /\ changes' = changes + 1 /\ mode' = changes'
     /\ pending' = Append(pending, changes')
     /\ response = Reply("ok", r, 0)
  \/ /\ r = "set" /\ response = Reply("error", r, 0)
     /\ UNCHANGED <<changes, mode, pending>>
  \/ /\ r # "set"
     /\ response = CASE r = "hello"     -> Reply("hello", r, 0)
                     [] r = "subscribe" -> Reply("ok", r, 0)
                     [] OTHER           -> Reply("status", r, mode)
     /\ UNCHANGED <<changes, mode, pending>>

Responses == [kind : {"hello", "ok", "status", "error"}, of : {"hello", "subscribe", "status", "set", "get"},
              val : 0..MaxChanges]

\* send_response fails only if the client has gone; it waits for room.
ReadRequest(c) ==
  /\ pc = "read" /\ Visit(c) /\ Len(link[c].up) >= 2
  /\ link[c].near => Len(link[c].down) < BufCap
  /\ sweep' = Tail(sweep)
  /\ LET r == link[c].up[2]
         l == Marked([link[c] EXCEPT !.up = SubSeq(@, 3, Len(@))], r)
     IN \E response \in Responses :
          /\ Handle(r, response)
          /\ IF link[c].near
             THEN /\ link' = [link EXCEPT ![c] = Sent(l, response)]
                  /\ UNCHANGED clients
             ELSE /\ link' = [link EXCEPT ![c] = HangFar(l)]
                  /\ clients' = Dropped(c)
  /\ UNCHANGED <<running, pc, backlog, log, local, faults>>

\* retain_mut is through; Engine::tick may change the mode (an indication that
\* ends, a temperature colour).  Its events go before those of the requests.
Ordered(ticked, requested) == ticked \o requested

Tick ==
  /\ running /\ pc = "read" /\ sweep = <<>>
  /\ \E n \in {0, 1} :
       /\ changes + n <= MaxChanges
       /\ changes' = changes + n
       /\ mode' = IF n = 1 THEN changes' ELSE mode
       /\ LET events == Ordered(IF n = 1 THEN <<changes'>> ELSE <<>>, pending)
          IN /\ log' = log \o events
             /\ \/ events = <<>> /\ Accept
                \/ /\ events # <<>>
                   /\ pc' = "dispatch" /\ pending' = events /\ sweep' = clients
                   /\ UNCHANGED <<backlog, clients>>
  /\ UNCHANGED <<running, link, local, faults>>

\* (mutant) a subscriber that has not read everything is skipped
WantsIfIdle(l) == l.sub /\ l.down = <<>>
Wants(l) == l.sub

Dispatch(c) ==
  /\ pc = "dispatch" /\ Visit(c)
  /\ sweep' = Tail(sweep)
  /\ \/ ~Wants(link[c]) /\ UNCHANGED <<clients, link>>
     \/ /\ Wants(link[c]) /\ ~link[c].near
        /\ clients' = Dropped(c)
        /\ link' = [link EXCEPT ![c] = HangFar(@)]
     \/ /\ Wants(link[c]) /\ link[c].near
        /\ Len(link[c].down) + Len(pending) <= BufCap
        /\ link' = [link EXCEPT ![c].down = @ \o [i \in DOMAIN pending |-> Event(pending[i])]]
        /\ UNCHANGED clients
  /\ UNCHANGED <<running, pc, backlog, pending, mode, changes, log, local, faults>>

Dispatched ==
  /\ running /\ pc = "dispatch" /\ sweep = <<>>
  /\ Accept
  /\ UNCHANGED <<running, mode, changes, log, link, local, faults>>

\* The daemon dies or is stopped; the kernel closes its ends.
Crash ==
  /\ running /\ faults < MaxFaults /\ faults' = faults + 1
  /\ running' = FALSE /\ pc' = "read"
  /\ backlog' = <<>> /\ clients' = <<>> /\ sweep' = <<>> /\ pending' = <<>> /\ log' = <<>>
  /\ link' = [c \in Conns |-> HangFar(link[c])]
  /\ UNCHANGED <<mode, changes, local>>

\* systemd starts it again; what the group shows then comes from the config
\* and is announced to nobody.
Restart ==
  /\ ~running /\ running' = TRUE
  /\ \E n \in {0, 1} : /\ changes + n <= MaxChanges
                       /\ changes' = changes + n
                       /\ mode' = IF n = 1 THEN changes' ELSE mode
  /\ UNCHANGED <<pc, backlog, clients, sweep, pending, log, link, local, faults>>

-----------------------------------------------------------------------------
(* The clients. *)

Goto(p, place, r) == at' = [at EXCEPT ![p] = place] /\ req' = [req EXCEPT ![p] = r]
Mine(p) == link[conn[p]]

Free == {c \in Conns : ~link[c].near /\ ~link[c].far}

Connect(p) ==
  /\ at[p] = "idle" /\ running /\ Free # {}
  /\ LET c == Min(Free)
     IN /\ link' = [link EXCEPT ![c] = Opened]
        /\ backlog' = Append(backlog, c)
        /\ conn' = [conn EXCEPT ![p] = c]
  /\ Goto(p, "send", "hello")
  /\ snapped' = [s \in Streams |-> s # p /\ snapped[s]]
  /\ UNCHANGED <<running, pc, clients, sweep, pending, mode, changes, log, view, faults>>

\* (mutant) a stream that lost its connection is not opened again
LeaveForGood(p) ==
  /\ link' = [link EXCEPT ![conn[p]] = HangNear(@)]
  /\ conn' = [conn EXCEPT ![p] = 0]
  /\ Goto(p, "done", "hello")

\* Drop the IpcClient: a stream will reconnect after its backoff, a panel when
\* it has another request; a command exits.
Leave(p) ==
  /\ link' = [link EXCEPT ![conn[p]] = HangNear(@)]
  /\ conn' = [conn EXCEPT ![p] = 0]
  /\ Goto(p, IF p \in Commands THEN "done" ELSE "idle", "hello")

\* (mutant) the request thread keeps a connection whose call failed
GivesUpNever(p) == p \in Streams /\ req[p] = "subscribe"
\* What a call that returned Err leads to.
GivesUp(p) == IF p \in Streams THEN req[p] = "subscribe"
              ELSE p \in Panels \/ req[p] # "hello"

NextRequest(p) == IF p \notin Streams THEN Requests
                  ELSE IF req[p] = "hello" THEN {"subscribe"} ELSE {"status"}

Proceed(p) == IF p \in Streams /\ req[p] = "status"
              THEN Goto(p, "listen", "hello") /\ UNCHANGED <<link, conn>>
              ELSE (\E r \in NextRequest(p) : Goto(p, "send", r)) /\ UNCHANGED <<link, conn>>

Failed(p) == IF GivesUp(p) THEN Leave(p) ELSE Proceed(p)

\* write_framed: the header, then the body, in time for the daemon's read.
Write(p) ==
  /\ at[p] = "send"
  /\ \/ ~Mine(p).far /\ Failed(p)
     \/ /\ Mine(p).far /\ Goto(p, "wait", req[p])
        /\ link' = [link EXCEPT ![conn[p]].up = @ \o <<"header", req[p]>>]
        /\ UNCHANGED conn
  /\ UNCHANGED <<server, snapped, view, faults>>

\* The same, held up between the two for 50 ms or more.
WriteHeader(p) ==
  /\ at[p] = "send" /\ Mine(p).far
  /\ faults < MaxFaults /\ faults' = faults + 1
  /\ Goto(p, "body", req[p])
  /\ link' = [link EXCEPT ![conn[p]].up = Append(@, "header")]
  /\ UNCHANGED <<server, conn, snapped, view>>

WriteBody(p) ==
  /\ at[p] = "body"
  /\ \/ ~Mine(p).far /\ Failed(p)
     \/ /\ Mine(p).far /\ Goto(p, "wait", req[p])
        /\ link' = [link EXCEPT ![conn[p]].up = Append(@, req[p])]
        /\ UNCHANGED conn
  /\ UNCHANGED <<server, snapped, view, faults>>

Taken(l) == [l EXCEPT !.down = Tail(@), !.read = IF Head(l.down).kind = "event" THEN @ + 1 ELSE @]

\* A call returns: connect_and_subscribe, the GUI's request thread, try_daemon.
Accepts(p, m) == CASE p \in Streams /\ req[p] = "subscribe" -> m.kind = "ok"
                   [] p \in Panels  /\ req[p] = "hello"     -> m.kind # "error"
                   [] OTHER                                 -> TRUE

\* The request is answered: a panel keeps the connection, a command exits.
Answered(p) == IF p \in Commands THEN Leave(p)
               ELSE /\ Goto(p, "ready", "hello")
                    /\ link' = [link EXCEPT ![conn[p]] = Taken(@)]
                    /\ UNCHANGED conn

Receive(p) ==
  /\ at[p] = "wait" /\ Mine(p).down # <<>>
  /\ LET m == Head(Mine(p).down) IN
     \/ ~Accepts(p, m) /\ Leave(p) /\ UNCHANGED <<snapped, view>>
     \/ /\ Accepts(p, m) /\ p \in Streams /\ req[p] = "status"
        /\ Goto(p, "listen", "hello")
        /\ link' = [link EXCEPT ![conn[p]] = Taken(@)]
        /\ snapped' = [snapped EXCEPT ![p] = m.kind = "status"]
        /\ view' = IF m.kind = "status" THEN [view EXCEPT ![p] = m.val] ELSE view
        /\ UNCHANGED conn
     \/ /\ Accepts(p, m) /\ (req[p] = "hello" \/ (p \in Streams /\ req[p] = "subscribe"))
        /\ \E r \in NextRequest(p) : Goto(p, "send", r)
        /\ link' = [link EXCEPT ![conn[p]] = Taken(@)]
        /\ UNCHANGED <<conn, snapped, view>>
     \/ /\ p \notin Streams /\ req[p] # "hello"
        /\ Answered(p) /\ UNCHANGED <<snapped, view>>
  /\ UNCHANGED <<server, faults>>

\* The daemon's end closed with nothing left to read.
EndOfStream(p) ==
  /\ conn[p] # 0 /\ Mine(p).down = <<>> /\ ~Mine(p).far
  /\ \/ at[p] = "wait" /\ Failed(p)
     \/ at[p] = "listen" /\ Leave(p)
  /\ UNCHANGED <<server, snapped, view, faults>>

\* The read timeout of 10 s passes without a response.
Timeout(p) ==
  /\ at[p] = "wait" /\ Mine(p).down = <<>> /\ Mine(p).far
  /\ faults < MaxFaults /\ faults' = faults + 1
  /\ Failed(p)
  /\ UNCHANGED <<server, snapped, view>>

\* run_event_loop: an event reaches the callback, another message is logged.
Listen(s) ==
  /\ at[s] = "listen" /\ Mine(s).down # <<>>
  /\ LET m == Head(Mine(s).down)
     IN view' = IF m.kind = "event" THEN [view EXCEPT ![s] = m.val] ELSE view
  /\ link' = [link EXCEPT ![conn[s]] = Taken(@)]
  /\ UNCHANGED <<server, at, conn, req, snapped, faults>>

\* The user asks the GUI for something; its request thread is connected.
Ask(p) ==
  /\ at[p] = "ready"
  /\ \E r \in Requests : Goto(p, "send", r)
  /\ UNCHANGED <<server, link, conn, snapped, view, faults>>

\* The client process is closed or killed.
Quit(p) ==
  /\ conn[p] # 0 /\ faults < MaxFaults /\ faults' = faults + 1
  /\ Leave(p)
  /\ UNCHANGED <<server, snapped, view>>

-----------------------------------------------------------------------------
Loop == \/ Tick \/ Dispatched
        \/ \E c \in Conns : ReadNothing(c) \/ ReadHalf(c) \/ ReadRequest(c) \/ Dispatch(c)

Next == \/ Loop \/ Crash \/ Restart
        \/ \E p \in Clients : Write(p) \/ WriteHeader(p) \/ WriteBody(p) \/ Receive(p)
                              \/ EndOfStream(p) \/ Timeout(p) \/ Quit(p) \/ Connect(p)
        \/ \E s \in Streams : Listen(s)
        \/ \E p \in Panels : Ask(p)

Spec == Init /\ [][Next]_vars

\* The loop never stops on its own; systemd restarts the daemon; threads of a
\* client run, and a stream always tries to connect again.
FairSpec ==
  /\ Spec /\ WF_vars(Loop) /\ WF_vars(Restart)
  /\ \A p \in Clients : WF_vars(Write(p) \/ WriteBody(p) \/ Receive(p) \/ EndOfStream(p))
  /\ \A s \in Streams : WF_vars(Connect(s) \/ Listen(s))
-----------------------------------------------------------------------------
(* Properties. *)

Owed(c) == IF pc = "dispatch" /\ c \in Range(sweep) THEN Len(pending) ELSE 0

\* What a subscribed connection still has to read is, in order, exactly what
\* the loop dispatched since it noted the subscription and the client has not
\* read yet: no event is lost, doubled or reordered on the way to a client
\* that stays connected (main.rs 296-314).
StreamComplete ==
  \A c \in Conns : LET l == link[c] IN
    (l.sub /\ l.near /\ l.far) =>
      [i \in DOMAIN EventsIn(l.down) |-> EventsIn(l.down)[i].val]
        = SubSeq(log, l.from + l.read + 1, Len(log) - Owed(c))

\* A request thread that is not in a call has no response under way, and a
\* response it finds answers the call it is in (bridge.rs:107-108: "preventing
\* orphan responses from desyncing subsequent Call commands").
NoOrphans ==
  \A p \in Panels : conn[p] # 0 =>
    /\ at[p] \in {"ready", "send"} => Mine(p).up = <<>> /\ Mine(p).down = <<>>
    /\ at[p] = "wait" => \A i \in DOMAIN Mine(p).down : i = 1 /\ Mine(p).down[i].of = req[p]

Quiet == running /\ pc = "read" /\ pending = <<>>
NewestLast == log = <<>> \/ Last(log) = changes

\* A stream that got its status and has read every event shows the mode the
\* group has, unless one iteration changed it for a request and then in the
\* tick, whose event is dispatched first (main.rs 297-298).
InSync ==
  \A s \in Streams :
    (Quiet /\ at[s] = "listen" /\ Mine(s).far /\ snapped[s] /\ Mine(s).down = <<>> /\ NewestLast)
      => view[s] = mode

\* Once crashes and delays are over every stream ends up subscribed on a
\* connection the daemon holds (run_event_loop reconnects forever).
StreamsComeBack ==
  \A s \in Streams : <>[](at[s] = "listen" /\ Mine(s).far /\ Mine(s).sub)

\* Every call returns: nobody's full socket stops the main loop for good.
CallsReturn == \A p \in Clients : at[p] = "wait" ~> at[p] # "wait"

=============================================================================
