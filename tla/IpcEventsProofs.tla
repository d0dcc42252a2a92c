-------------------------- MODULE IpcEventsProofs --------------------------
(***************************************************************************)
(* What holds of the daemon's socket for every number of clients and       *)
(* connections, every buffer and any number of crashes and delays: a       *)
(* connection that stays open gets exactly the events dispatched since it  *)
(* subscribed, a request thread never finds an answer to an earlier call,  *)
(* and a stream that has read everything shows the mode the group has.     *)
(***************************************************************************)
EXTENDS IpcEvents, SequenceTheorems, WellFoundedInduction, TLAPS

-----------------------------------------------------------------------------
(* Induction, from the least member of a set of naturals. *)

\* A set of naturals that has 0, and n + 1 with every n, has them all.
LEMMA Induction ==
  ASSUME NEW T, 0 \in T, \A n \in Nat : n \in T => n + 1 \in T
  PROVE  Nat \subseteq T
<1> SUFFICES ASSUME ~(Nat \subseteq T) PROVE FALSE
  OBVIOUS
<1> DEFINE R == {ss \in Nat \X Nat : ss[1] < ss[2]}
           B == Nat \ T
<1>1. IsWellFoundedOn(R, Nat)
  BY NatLessThanWellFounded DEF OpToRel
<1>2. B \subseteq Nat /\ B # {}
  OBVIOUS
<1>3. PICK x \in B : \A y \in B : <<y, x>> \notin R
  <2> HIDE DEF R, B
  <2> QED BY <1>1, <1>2, WFMin
<1>4. x \in Nat /\ x # 0 /\ x - 1 \in Nat /\ x - 1 \in B
  OBVIOUS
<1>5. <<x - 1, x>> \in R
  BY <1>4
<1> QED BY <1>3, <1>4, <1>5

\* f is built step by step along 1..N.
Built(f, A, N, base, step) ==
  /\ f \in [0..N -> A] /\ f[0] = base
  /\ \A i \in 1..N : f[i] = step[i][f[i - 1]]

\* What is built step by step along 1..N exists.
LEMMA Recursion ==
  ASSUME NEW A, NEW N \in Nat, NEW base \in A, NEW step \in [1..N -> [A -> A]]
  PROVE  \E f : Built(f, A, N, base, step)
<1> DEFINE Upto(n, f) == f[0] = base /\ \A i \in 1..n : f[i] = step[i][f[i - 1]]
           T == {n \in Nat : n <= N => \E f \in [0..n -> A] : Upto(n, f)}
<1>1. 0 \in T
  <2>1. [i \in 0..0 |-> base] \in [0..0 -> A] /\ Upto(0, [i \in 0..0 |-> base])
    OBVIOUS
  <2> QED BY <2>1
<1>2. ASSUME NEW n \in Nat, n \in T PROVE n + 1 \in T
  <2> SUFFICES ASSUME n + 1 <= N PROVE \E f \in [0..(n + 1) -> A] : Upto(n + 1, f)
    OBVIOUS
  <2>1. PICK f \in [0..n -> A] : Upto(n, f)
    BY <1>2
  <2> DEFINE g == [i \in 0..(n + 1) |-> IF i = n + 1 THEN step[i][f[n]] ELSE f[i]]
  <2>2. g \in [0..(n + 1) -> A]
    OBVIOUS
  <2>3. Upto(n + 1, g)
    BY <2>1
  <2> QED BY <2>2, <2>3
<1>3. N \in T
  <2> HIDE DEF T
  <2> QED BY <1>1, <1>2, Induction
<1> QED BY <1>3 DEF Built

-----------------------------------------------------------------------------
(* The events among messages. *)

Msg == [kind : {"hello", "ok", "status", "error", "event"},
        of : {"hello", "subscribe", "status", "set", "get", "frame", "event"}, val : Nat]

\* f holds the events of every prefix of s.
Sifts(f, s) ==
  /\ f \in [0..Len(s) -> Seq(Msg)] /\ f[0] = <<>>
  /\ \A i \in 1..Len(s) : f[i] = IF s[i].kind = "event" THEN Append(f[i - 1], s[i]) ELSE f[i - 1]

\* The equation the function in EventsIn is chosen by, and what it says point by point.
SiftEq(f, s) == f = [n \in 0..Len(s) |->
                       IF n = 0 THEN <<>>
                       ELSE IF s[n].kind = "event" THEN Append(f[n - 1], s[n]) ELSE f[n - 1]]

LEMMA SiftEqSifts == ASSUME NEW s \in Seq(Msg), NEW f, SiftEq(f, s) PROVE Sifts(f, s)
<1> DEFINE P == {n \in Nat : n <= Len(s) => f[n] \in Seq(Msg)}
<1>0. Len(s) \in Nat /\ \A i \in 1..Len(s) : s[i] \in Msg
  OBVIOUS
<1>1. f = [n \in 0..Len(s) |-> f[n]] /\ f[0] = <<>>
  BY <1>0 DEF SiftEq
<1>2. ASSUME NEW i \in 1..Len(s)
      PROVE  f[i] = IF s[i].kind = "event" THEN Append(f[i - 1], s[i]) ELSE f[i - 1]
  <2>1. i \in 0..Len(s) /\ i # 0
    BY <1>0
  <2> QED BY <2>1 DEF SiftEq
<1>3. 0 \in P
  BY <1>1
<1>4. ASSUME NEW n \in Nat, n \in P PROVE n + 1 \in P
  <2>1. CASE n + 1 <= Len(s)
    <3>1. n + 1 \in 1..Len(s) /\ (n + 1) - 1 = n /\ f[n] \in Seq(Msg)
      BY <1>0, <1>4, <2>1
    <3>2. f[n + 1] = IF s[n + 1].kind = "event" THEN Append(f[n], s[n + 1]) ELSE f[n]
      BY <1>2, <3>1
    <3>3. f[n + 1] \in Seq(Msg)
      BY <3>1, <3>2, <1>0
    <3> QED BY <3>3
  <2>2. CASE ~(n + 1 <= Len(s))
    BY <2>2
  <2> QED BY <2>1, <2>2
<1>5. Nat \subseteq P
  <2> HIDE DEF P
  <2> QED BY <1>3, <1>4, Induction
<1>6. \A n \in 0..Len(s) : f[n] \in Seq(Msg)
  BY <1>0, <1>5
<1>7. f \in [0..Len(s) -> Seq(Msg)]
  BY <1>1, <1>6
<1> QED BY <1>1, <1>2, <1>7 DEF Sifts

LEMMA SiftExists == ASSUME NEW s \in Seq(Msg) PROVE \E f : SiftEq(f, s)
<1> DEFINE N == Len(s)
           A == Seq(Msg)
           base == <<>>
           step == [i \in 1..N |-> [x \in A |-> IF s[i].kind = "event" THEN Append(x, s[i]) ELSE x]]
<1>1. step \in [1..N -> [A -> A]] /\ N \in Nat /\ base \in A
  OBVIOUS
<1>2. PICK f : Built(f, A, N, base, step)
  <2> HIDE DEF step, A, N, base
  <2> QED BY <1>1, Recursion
<1>3. ASSUME NEW i \in 0..N
      PROVE f[i] = IF i = 0 THEN <<>>
                   ELSE IF s[i].kind = "event" THEN Append(f[i - 1], s[i]) ELSE f[i - 1]
  <2>1. CASE i = 0
    BY <1>2, <2>1 DEF Built
  <2>2. CASE i # 0
    <3>1. i \in 1..N /\ i - 1 \in 0..N
      BY <1>1, <2>2
    <3>2. f[i - 1] \in A
      BY <1>2, <3>1 DEF Built
    <3> QED BY <1>2, <3>1, <3>2, <2>2 DEF Built
  <2> QED BY <2>1, <2>2
<1>4. f = [i \in 0..N |-> f[i]]
  BY <1>2 DEF Built
<1>5. SiftEq(f, s)
  BY <1>3, <1>4 DEF SiftEq
<1> QED BY <1>5

\* EventsIn is the last member of the function that sifts s.
LEMMA EventsInSifts == ASSUME NEW s \in Seq(Msg) PROVE \E f : Sifts(f, s) /\ EventsIn(s) = f[Len(s)]
<1> DEFINE f == CHOOSE g : SiftEq(g, s)
<1>1. SiftEq(f, s)
  BY SiftExists
<1>2. EventsIn(s) = f[Len(s)]
  BY DEF EventsIn, SiftEq
<1> QED BY <1>1, <1>2, SiftEqSifts
\* Sifting s \o t sifts s and then t.
LEMMA SiftsPrefix ==
  ASSUME NEW s \in Seq(Msg), NEW t \in Seq(Msg), NEW f, NEW h, Sifts(f, s), Sifts(h, s \o t)
  PROVE  h[Len(s)] = f[Len(s)]
<1> DEFINE P == {n \in Nat : n <= Len(s) => h[n] = f[n]}
<1>1. 0 \in P
  BY DEF Sifts
<1>2. ASSUME NEW n \in Nat, n \in P PROVE n + 1 \in P
  <2>1. CASE n + 1 <= Len(s)
    <3>1. n + 1 \in 1..Len(s) /\ n + 1 \in 1..Len(s \o t) /\ (s \o t)[n + 1] = s[n + 1]
          /\ (n + 1) - 1 = n /\ h[n] = f[n]
      BY <1>2, <2>1
    <3> QED BY SMTT(40), <3>1 DEF Sifts
  <2> QED BY <2>1
<1>3. Nat \subseteq P
  <2> HIDE DEF P
  <2> QED BY <1>1, <1>2, Induction
<1> QED BY <1>3

LEMMA EventsInType == ASSUME NEW s \in Seq(Msg) PROVE EventsIn(s) \in Seq(Msg)
BY EventsInSifts DEF Sifts

LEMMA AppendConcat ==
  \A a, b \in Seq(Msg), m \in Msg : Append(a \o b, m) = a \o Append(b, m)
<1> SUFFICES ASSUME NEW a \in Seq(Msg), NEW b \in Seq(Msg), NEW m \in Msg
             PROVE  Append(a \o b, m) = a \o Append(b, m)
  OBVIOUS
<1>1. Append(a \o b, m) \in Seq(Msg) /\ a \o Append(b, m) \in Seq(Msg)
  OBVIOUS
<1> QED BY <1>1, SeqEqual

LEMMA EventsInConcat ==
  ASSUME NEW s \in Seq(Msg), NEW t \in Seq(Msg)
  PROVE  EventsIn(s \o t) = EventsIn(s) \o EventsIn(t)
<1>a. PICK f : Sifts(f, s) /\ EventsIn(s) = f[Len(s)]
  BY EventsInSifts
<1>b. PICK g : Sifts(g, t) /\ EventsIn(t) = g[Len(t)]
  BY EventsInSifts
<1>c. PICK h : Sifts(h, s \o t) /\ EventsIn(s \o t) = h[Len(s \o t)]
  <2>1. s \o t \in Seq(Msg)
    OBVIOUS
  <2> QED BY <2>1, EventsInSifts
<1> DEFINE S == f[Len(s)]
           P == {n \in Nat : n <= Len(t) => h[Len(s) + n] = S \o g[n]}
<1>0. Len(s) \in Nat /\ Len(t) \in Nat /\ Len(s) \in 0..Len(s) /\ s \o t \in Seq(Msg)
      /\ Len(s \o t) = Len(s) + Len(t)
  OBVIOUS
<1>1. S \in Seq(Msg) /\ g[0] = <<>> /\ h[Len(s)] = S
  <2>1. h[Len(s)] = f[Len(s)]
    BY <1>a, <1>c, SiftsPrefix, Zenon
  <2>2. f[Len(s)] \in Seq(Msg) /\ g[0] = <<>>
    BY <1>0, <1>a, <1>b DEF Sifts
  <2> QED BY <2>1, <2>2
<1> HIDE DEF S
<1>2. 0 \in P
  BY <1>0, <1>1, ConcatEmptySeq
<1>3. ASSUME NEW n \in Nat, n \in P PROVE n + 1 \in P
  <2>1. CASE n + 1 <= Len(t)
    <3> DEFINE k == Len(s) + (n + 1)
    <3>1. n + 1 \in 1..Len(t) /\ k \in 1..Len(s \o t) /\ (s \o t)[k] = t[n + 1]
          /\ (n + 1) - 1 = n /\ k - 1 = Len(s) + n /\ n \in 0..Len(t)
      <4>1. k \in 1..Len(s) + Len(t) /\ ~(k <= Len(s)) /\ k - Len(s) = n + 1
        BY <1>0, <2>1
      <4>2. (s \o t)[k] = t[n + 1] /\ Len(s \o t) = Len(s) + Len(t)
        BY <4>1, ConcatProperties
      <4> QED BY <1>0, <2>1, <4>1, <4>2
    <3>2. h[k - 1] = S \o g[n]
      <4>1. n <= Len(t)
        BY <2>1, <1>0
      <4> QED BY <1>3, <3>1, <4>1
    <3>3. g[n] \in Seq(Msg) /\ t[n + 1] \in Msg
      <4>1. g[n] \in Seq(Msg)
        BY <3>1, <1>a, <1>b, <1>c DEF Sifts
      <4> QED BY <4>1, <3>1
    <3>4. h[k] = IF t[n + 1].kind = "event" THEN Append(h[k - 1], t[n + 1]) ELSE h[k - 1]
      <4> HIDE DEF k
      <4> QED BY <3>1, <1>a, <1>b, <1>c DEF Sifts
    <3>5. g[n + 1] = IF t[n + 1].kind = "event" THEN Append(g[n], t[n + 1]) ELSE g[n]
      BY <3>1, <1>a, <1>b, <1>c DEF Sifts
    <3>6. Append(S \o g[n], t[n + 1]) = S \o Append(g[n], t[n + 1])
      BY <1>1, <3>3, AppendConcat
    <3>7. h[k] = S \o g[n + 1]
      BY <3>2, <3>4, <3>5, <3>6
    <3> QED BY <3>7
  <2>2. CASE ~(n + 1 <= Len(t))
    BY <2>2
  <2> QED BY <2>1, <2>2
<1>4. Nat \subseteq P
  <2> HIDE DEF P
  <2> QED BY <1>2, <1>3, Induction
<1>5. h[Len(s) + Len(t)] = S \o g[Len(t)]
  BY <1>0, <1>4
<1> QED BY <1>0, <1>5, <1>a, <1>b, <1>c DEF S

LEMMA EventsInSingle ==
  ASSUME NEW m \in Msg
  PROVE  EventsIn(<<m>>) = IF m.kind = "event" THEN <<m>> ELSE <<>>
<1>0. <<m>> \in Seq(Msg) /\ Len(<<m>>) = 1 /\ <<m>>[1] = m
  OBVIOUS
<1>1. PICK f : Sifts(f, <<m>>) /\ EventsIn(<<m>>) = f[1]
  BY <1>0, EventsInSifts
<1>2. f[1] = IF m.kind = "event" THEN Append(<<>>, m) ELSE <<>>
  BY <1>0, <1>1 DEF Sifts
<1> QED BY <1>1, <1>2

LEMMA EventsInEmpty == EventsIn(<<>>) = <<>>
<1>1. <<>> \in Seq(Msg) /\ Len(<<>>) = 0
  OBVIOUS
<1> QED BY <1>1, EventsInSifts DEF Sifts

\* A sequence of events is its own sifting.
LEMMA EventsInEvents ==
  ASSUME NEW s \in Seq(Msg), \A i \in 1..Len(s) : s[i].kind = "event"
  PROVE  EventsIn(s) = s
<1>1. PICK f : Sifts(f, s) /\ EventsIn(s) = f[Len(s)]
  BY EventsInSifts
<1> DEFINE P == {n \in Nat : n <= Len(s) => f[n] = SubSeq(s, 1, n)}
<1>2. 0 \in P
  BY <1>1, SubSeqEmpty DEF Sifts
<1>3. ASSUME NEW n \in Nat, n \in P PROVE n + 1 \in P
  <2>1. CASE n + 1 <= Len(s)
    <3>1. n + 1 \in 1..Len(s) /\ (n + 1) - 1 = n /\ f[n] = SubSeq(s, 1, n)
      BY <1>3, <2>1
    <3>2. f[n + 1] = Append(SubSeq(s, 1, n), s[n + 1])
      BY <1>1, <3>1 DEF Sifts
    <3>3. Append(SubSeq(s, 1, n), s[n + 1]) = SubSeq(s, 1, n + 1)
      BY <3>1
    <3>4. f[n + 1] = SubSeq(s, 1, n + 1)
      BY <3>2, <3>3
    <3> QED BY <3>4
  <2>2. CASE ~(n + 1 <= Len(s))
    BY <2>2
  <2> QED BY <2>1, <2>2
<1>4. Nat \subseteq P
  <2> HIDE DEF P
  <2> QED BY <1>2, <1>3, Induction
<1> QED BY <1>1, <1>4, SubSeqFull

LEMMA EventsInHead ==
  ASSUME NEW s \in Seq(Msg), s # <<>>
  PROVE  EventsIn(s) = IF Head(s).kind = "event" THEN <<Head(s)>> \o EventsIn(Tail(s))
                       ELSE EventsIn(Tail(s))
<1>1. Head(s) \in Msg /\ <<Head(s)>> \in Seq(Msg) /\ Tail(s) \in Seq(Msg) /\ s = <<Head(s)>> \o Tail(s)
  OBVIOUS
<1>2. EventsIn(s) = EventsIn(<<Head(s)>>) \o EventsIn(Tail(s))
  BY <1>1, EventsInConcat
<1>3. EventsIn(Tail(s)) \in Seq(Msg) /\ <<>> \o EventsIn(Tail(s)) = EventsIn(Tail(s))
  BY <1>1, EventsInType, ConcatEmptySeq
<1> QED BY <1>1, <1>2, <1>3, EventsInSingle

LEMMA EventsInAppend ==
  ASSUME NEW s \in Seq(Msg), NEW m \in Msg
  PROVE  EventsIn(Append(s, m)) = IF m.kind = "event" THEN Append(EventsIn(s), m) ELSE EventsIn(s)
<1>1. <<m>> \in Seq(Msg) /\ Append(s, m) = s \o <<m>>
  OBVIOUS
<1>2. EventsIn(Append(s, m)) = EventsIn(s) \o EventsIn(<<m>>)
  BY <1>1, EventsInConcat
<1>3. EventsIn(s) \in Seq(Msg) /\ EventsIn(s) \o <<>> = EventsIn(s)
      /\ EventsIn(s) \o <<m>> = Append(EventsIn(s), m)
  BY EventsInType
<1> QED BY <1>2, <1>3, EventsInSingle
-----------------------------------------------------------------------------
(* The inductive invariant. *)

Frames == {"header", "hello", "subscribe", "status", "set", "get"}
Links == [near : BOOLEAN, far : BOOLEAN, sub : BOOLEAN, up : Seq(Frames), down : Seq(Msg),
          from : Nat, read : Nat]
Places == {"idle", "send", "body", "wait", "ready", "listen", "done"}

Typed ==
  /\ running \in BOOLEAN /\ pc \in {"read", "dispatch"}
  /\ backlog \in Seq(Conns) /\ clients \in Seq(Conns) /\ sweep \in Seq(Conns)
  /\ pending \in Seq(Nat) /\ log \in Seq(Nat)
  /\ mode = changes /\ changes \in Nat
  /\ link \in [Conns -> Links]
  /\ at \in [Clients -> Places] /\ conn \in [Clients -> Conns \cup {0}]
  /\ req \in [Clients -> {"hello", "subscribe", "status", "set", "get"}]
  /\ snapped \in [Streams -> BOOLEAN] /\ view \in [Streams -> Nat]
  /\ faults \in Nat

\* The daemon's vectors: every connection it holds is in one of them, once, and
\* the sweep is a rest of the clients.
LoopInv ==
  /\ IsInjective(clients) /\ IsInjective(backlog) /\ IsInjective(sweep)
  /\ Range(clients) \cap Range(backlog) = {}
  /\ Range(clients) \cup Range(backlog) = {c \in Conns : link[c].far}
  /\ Range(sweep) \subseteq Range(clients)
  /\ \A c \in Range(backlog) : ~link[c].sub
  /\ ~running => pc = "read" /\ clients = <<>> /\ backlog = <<>> /\ pending = <<>>
  /\ pc = "dispatch" =>
       /\ pending # <<>> /\ Len(pending) <= Len(log)
       /\ \A i \in 1..Len(pending) : log[Len(log) - Len(pending) + i] = pending[i]

\* A connection has one owner at the near end.
OwnInv ==
  /\ \A p \in Clients : conn[p] = 0 <=> at[p] \in {"idle", "done"}
  /\ \A p \in Clients : conn[p] # 0 => link[conn[p]].near
  /\ \A p, q \in Clients : conn[p] = conn[q] /\ conn[p] # 0 => p = q

ReqInv == \A p \in Clients \ Streams : req[p] \in {"hello", "set", "get"}

\* What is on the connection of a request thread, by where the thread is.
PanelInv(p) ==
  conn[p] # 0 => LET l == link[conn[p]] IN
    /\ ~l.sub /\ at[p] # "listen"
    /\ at[p] \in {"ready", "send"} => l.up = <<>> /\ l.down = <<>>
    /\ at[p] = "body" /\ l.far => l.up = <<"header">> /\ l.down = <<>>
    /\ at[p] = "wait" =>
         \/ l.down = <<>> /\ (l.far => l.up = <<"header", req[p]>>)
         \/ Len(l.down) = 1 /\ l.down[1].of = req[p] /\ l.up = <<>>

Has(s, x) == \E i \in 1..Len(s) : s[i] = x
HasKind(s, k) == \E i \in 1..Len(s) : s[i].kind = k

\* What a subscriber has read and has still to read is what was dispatched.
Tally(c) ==
  LET l == link[c]
      e == EventsIn(l.down)
  IN  /\ l.from + l.read + Len(e) + Owed(c) = Len(log)
      /\ \A i \in 1..Len(e) : e[i].val = log[l.from + l.read + i]

LinkInv(c) ==
  LET l == link[c] IN
  l.near /\ l.far =>
    /\ ~l.sub => EventsIn(l.down) = <<>>
    /\ l.sub => Tally(c) /\ ~Has(l.up, "subscribe")
    /\ \A i, j \in 1..Len(l.up) : l.up[i] = "subscribe" /\ l.up[j] = "subscribe" => i = j

\* Events the group's last change will bring to c are still to be written.
Due(c) == IF pc = "read" THEN pending # <<>> ELSE c \in Range(sweep)

NotSubscribed(a, r) == a # "listen" /\ (r = "hello" \/ (r = "subscribe" /\ a # "wait"))
StatusAsked(a, r)   == a = "listen" \/ (a = "wait" /\ r = "status")

\* What a stream's connection carries up: headers at odd places, requests at even ones.
Alternates(u) == \A i \in 1..Len(u) : /\ u[i] \in {"header", "hello", "subscribe", "status"}
                                      /\ u[i] = "header" <=> i % 2 = 1
LastStatus(u) == \A i \in 1..Len(u) : u[i] = "status" => i = Len(u)

\* Where a stream is in connect_and_subscribe (a, r), and what that says of what
\* its connection carries up (u) and down (d) and of the daemon's note (sub).
StreamOk(u, d, sub, a, r) ==
  /\ a # "ready" /\ r \in {"hello", "subscribe", "status"}
  /\ Alternates(u) /\ (a = "body" <=> Len(u) % 2 = 1)
  /\ NotSubscribed(a, r) => ~sub /\ ~Has(u, "subscribe")
  /\ HasKind(d, "ok") => sub
  /\ a = "listen" \/ r = "status" => sub
  /\ ~StatusAsked(a, r) => ~Has(u, "status") /\ ~HasKind(d, "status")
  /\ LastStatus(u) /\ (Has(u, "status") => ~HasKind(d, "status"))

StreamInv(s) ==
  (conn[s] # 0 /\ link[conn[s]].far) =>
    LET l == link[conn[s]] IN StreamOk(l.up, l.down, l.sub, at[s], req[s])

\* What a stream has heard, or has still to hear, of the mode.
HeardInv(s) ==
  (conn[s] # 0 /\ link[conn[s]].far) => LET l == link[conn[s]] IN
    /\ \A i \in 1..Len(l.down) : l.down[i].kind = "status" =>
         /\ l.up = <<>> /\ \A j \in i + 1..Len(l.down) : l.down[j].kind = "event"
         /\ i = Len(l.down) /\ ~Due(conn[s]) => l.down[i].val = mode
    /\ snapped[s] =>
         /\ at[s] = "listen" /\ l.up = <<>>
         /\ \A i \in 1..Len(l.down) : l.down[i].kind = "event"
         /\ l.down = <<>> /\ ~Due(conn[s]) =>
              view[s] = mode \/ (log # <<>> /\ view[s] = log[Len(log)])

IInv ==
  /\ Typed /\ LoopInv /\ OwnInv /\ ReqInv
  /\ \A p \in Panels : PanelInv(p)
  /\ \A c \in Conns : LinkInv(c)
  /\ \A s \in Streams : StreamInv(s) /\ HeardInv(s)

-----------------------------------------------------------------------------
(* The daemon's vectors. *)

LEMMA TailConns ==
  ASSUME NEW s \in Seq(Conns), IsInjective(s), s # <<>>
  PROVE  /\ Tail(s) \in Seq(Conns) /\ IsInjective(Tail(s)) /\ Head(s) \in Conns
         /\ Head(s) \in Range(s) /\ Range(Tail(s)) = Range(s) \ {Head(s)}
<1>1. /\ Tail(s) \in Seq(Conns) /\ Len(Tail(s)) = Len(s) - 1 /\ Len(s) \in Nat /\ Len(s) # 0
      /\ \A i \in 1..Len(Tail(s)) : Tail(s)[i] = s[i + 1]
      /\ DOMAIN s = 1..Len(s) /\ DOMAIN Tail(s) = 1..Len(Tail(s)) /\ Head(s) = s[1]
  BY HeadTailProperties
<1>2. IsInjective(Tail(s))
  BY <1>1 DEF IsInjective
<1>3. ASSUME NEW c \in Range(Tail(s)) PROVE c \in Range(s) \ {Head(s)}
  <2>1. PICK i \in 1..Len(Tail(s)) : c = Tail(s)[i]
    BY <1>1 DEF Range
  <2>2. c = s[i + 1] /\ i + 1 \in 1..Len(s) /\ i + 1 # 1
    BY <1>1, <2>1
  <2> QED BY <1>1, <2>2 DEF Range, IsInjective
<1>4. ASSUME NEW c \in Range(s), c # Head(s) PROVE c \in Range(Tail(s))
  <2>1. PICK i \in 1..Len(s) : c = s[i]
    BY <1>1 DEF Range
  <2>2. i - 1 \in 1..Len(Tail(s)) /\ c = Tail(s)[i - 1]
    BY <1>1, <1>4, <2>1
  <2> QED BY <1>1, <2>2 DEF Range
<1>5. Head(s) \in Conns /\ Head(s) \in Range(s)
  BY <1>1 DEF Range
<1> QED BY <1>1, <1>2, <1>3, <1>4, <1>5

LEMMA AppendConns ==
  ASSUME NEW s \in Seq(Conns), IsInjective(s), NEW c \in Conns, c \notin Range(s)
  PROVE  /\ Append(s, c) \in Seq(Conns) /\ IsInjective(Append(s, c))
         /\ Range(Append(s, c)) = Range(s) \cup {c}
<1> DEFINE t == Append(s, c)
<1>1. /\ t \in Seq(Conns) /\ Len(t) = Len(s) + 1 /\ Len(s) \in Nat
      /\ \A i \in 1..Len(s) : t[i] = s[i]
      /\ t[Len(s) + 1] = c /\ DOMAIN s = 1..Len(s) /\ DOMAIN t = 1..Len(t)
  OBVIOUS
<1> HIDE DEF t
<1>2. \A i \in 1..Len(s) : s[i] \in Range(s) /\ s[i] # c
  BY <1>1 DEF Range
<1>3. IsInjective(t)
  <2> SUFFICES ASSUME NEW i \in 1..Len(t), NEW j \in 1..Len(t), t[i] = t[j] PROVE i = j
    BY <1>1 DEF IsInjective
  <2>1. CASE i = Len(s) + 1 \/ j = Len(s) + 1
    BY <1>1, <1>2, <2>1
  <2>2. CASE i # Len(s) + 1 /\ j # Len(s) + 1
    BY <1>1, <2>2 DEF IsInjective
  <2> QED BY <2>1, <2>2
<1>4. ASSUME NEW d \in Range(t) PROVE d \in Range(s) \cup {c}
  <2>1. PICK i \in 1..Len(t) : d = t[i]
    BY <1>1 DEF Range
  <2>2. i \in 1..Len(s) \/ i = Len(s) + 1
    BY <1>1
  <2> QED BY <1>1, <1>2, <2>1, <2>2
<1>5. ASSUME NEW d \in Range(s) \cup {c} PROVE d \in Range(t)
  <2>1. CASE d = c
    <3>1. Len(s) + 1 \in 1..Len(t)
      BY <1>1
    <3> QED BY <1>1, <2>1, <3>1 DEF Range
  <2>2. CASE d \in Range(s)
    <3>1. PICK i \in 1..Len(s) : d = s[i]
      BY <1>1, <2>2 DEF Range
    <3>2. i \in 1..Len(t) /\ d = t[i]
      BY <1>1, <3>1
    <3> QED BY <1>1, <3>2 DEF Range
  <2> QED BY <2>1, <2>2
<1>6. t \in Seq(Conns) /\ IsInjective(t) /\ Range(t) = Range(s) \cup {c}
  BY <1>1, <1>3, <1>4, <1>5
<1> QED BY <1>6 DEF t

LEMMA ConcatConns ==
  ASSUME NEW s \in Seq(Conns), NEW t \in Seq(Conns), IsInjective(s), IsInjective(t),
         Range(s) \cap Range(t) = {}
  PROVE  /\ s \o t \in Seq(Conns) /\ IsInjective(s \o t)
         /\ Range(s \o t) = Range(s) \cup Range(t)
<1> DEFINE u == s \o t
<1>1. /\ u \in Seq(Conns) /\ Len(u) = Len(s) + Len(t) /\ Len(s) \in Nat /\ Len(t) \in Nat
      /\ \A i \in 1..Len(s) : u[i] = s[i]
      /\ \A i \in 1..Len(t) : u[Len(s) + i] = t[i]
      /\ DOMAIN s = 1..Len(s) /\ DOMAIN t = 1..Len(t) /\ DOMAIN u = 1..Len(u)
  OBVIOUS
<1> HIDE DEF u
<1>2. \A i \in 1..Len(u) : \/ i \in 1..Len(s) /\ u[i] \in Range(s) /\ u[i] = s[i]
                           \/ i - Len(s) \in 1..Len(t) /\ u[i] = t[i - Len(s)] /\ u[i] \in Range(t)
  <2> TAKE i \in 1..Len(u)
  <2>1. CASE i <= Len(s)
    <3>1. i \in 1..Len(s)
      BY <2>1, <1>1
    <3> QED BY <3>1, <1>1 DEF Range
  <2>2. CASE ~(i <= Len(s))
    <3>1. i - Len(s) \in 1..Len(t) /\ i = Len(s) + (i - Len(s))
      BY <2>2, <1>1
    <3>2. u[i] = t[i - Len(s)]
      BY <3>1, <1>1
    <3> QED BY <3>1, <3>2, <1>1 DEF Range
  <2> QED BY <2>1, <2>2
<1>3. IsInjective(u)
  <2> SUFFICES ASSUME NEW i \in 1..Len(u), NEW j \in 1..Len(u), u[i] = u[j] PROVE i = j
    BY <1>1 DEF IsInjective
  <2>1. CASE i \in 1..Len(s) /\ j \in 1..Len(s)
    BY <1>1, <2>1 DEF IsInjective
  <2>2. CASE i - Len(s) \in 1..Len(t) /\ j - Len(s) \in 1..Len(t)
    <3>1. t[i - Len(s)] = t[j - Len(s)]
      BY SMTT(40), <1>1, <1>2, <2>2
    <3>2. i - Len(s) = j - Len(s)
      BY <1>1, <2>2, <3>1 DEF IsInjective
    <3> QED BY <1>1, <3>2
  <2> QED BY <1>1, <1>2, <2>1, <2>2
<1>4. Range(u) \subseteq Range(s) \cup Range(t)
  BY <1>1, <1>2 DEF Range
<1>5. ASSUME NEW d \in Range(s) \cup Range(t) PROVE d \in Range(u)
  <2>1. CASE d \in Range(s)
    <3>1. PICK i \in 1..Len(s) : d = s[i]
      BY <1>1, <2>1 DEF Range
    <3>2. i \in 1..Len(u) /\ d = u[i]
      BY <1>1, <3>1
    <3> QED BY <1>1, <3>2 DEF Range
  <2>2. CASE d \in Range(t)
    <3>1. PICK i \in 1..Len(t) : d = t[i]
      BY <1>1, <2>2 DEF Range
    <3>2. Len(s) + i \in 1..Len(u) /\ d = u[Len(s) + i]
      BY <1>1, <3>1
    <3> QED BY <1>1, <3>2 DEF Range
  <2> QED BY <2>1, <2>2
<1>6. u \in Seq(Conns) /\ IsInjective(u) /\ Range(u) = Range(s) \cup Range(t)
  BY <1>1, <1>3, <1>4, <1>5
<1> QED BY <1>6 DEF u

LEMMA RemoveAtProperties ==
  ASSUME NEW s \in Seq(Conns), NEW k \in 1..Len(s)
  PROVE  LET t == RemoveAt(s, k) IN
         /\ t \in Seq(Conns) /\ Len(t) = Len(s) - 1 /\ DOMAIN t = 1..Len(t)
         /\ \A i \in 1..Len(t) : t[i] = IF i < k THEN s[i] ELSE s[i + 1]
<1> DEFINE a == SubSeq(s, 1, k - 1)
           b == SubSeq(s, k + 1, Len(s))
<1>1. Len(s) \in Nat /\ k \in Nat /\ \A i \in 1..Len(s) : s[i] \in Conns
  OBVIOUS
<1>2. a \in Seq(Conns) /\ Len(a) = k - 1 /\ \A i \in 1..k - 1 : a[i] = s[i]
  BY <1>1, SubSeqProperties
<1>3. b \in Seq(Conns) /\ Len(b) = Len(s) - k /\ \A i \in 1..Len(s) - k : b[i] = s[k + i]
  <2>1. \A i \in k + 1..Len(s) : s[i] \in Conns
    BY <1>1
  <2>2. /\ b \in Seq(Conns) /\ Len(b) = IF k + 1 <= Len(s) THEN Len(s) - (k + 1) + 1 ELSE 0
        /\ \A i \in 1..Len(s) - (k + 1) + 1 : b[i] = s[k + 1 + i - 1]
    BY <1>1, <2>1, SubSeqProperties
  <2>3. Len(b) = Len(s) - k
    BY <1>1, <2>2
  <2>4. \A i \in 1..Len(s) - k : b[i] = s[k + i]
    <3> TAKE i \in 1..Len(s) - k
    <3>1. i \in 1..Len(s) - (k + 1) + 1 /\ k + 1 + i - 1 = k + i
      BY <1>1
    <3> QED BY <2>2, <3>1
  <2> QED BY <2>2, <2>3, <2>4
<1> HIDE DEF a, b
<1>4. RemoveAt(s, k) = a \o b
  BY DEF RemoveAt, a, b
<1>5. a \o b \in Seq(Conns) /\ Len(a \o b) = Len(s) - 1
  <2>1. a \o b \in Seq(Conns) /\ Len(a \o b) = Len(a) + Len(b)
    BY <1>2, <1>3, ConcatProperties
  <2> QED BY <1>1, <1>2, <1>3, <2>1
<1>6. ASSUME NEW i \in 1..Len(s) - 1 PROVE (a \o b)[i] = IF i < k THEN s[i] ELSE s[i + 1]
  <2>1. CASE i < k
    BY <1>1, <1>2, <1>3, <2>1
  <2>2. CASE ~(i < k)
    <3>1. i - Len(a) \in 1..Len(s) - k /\ k + (i - Len(a)) = i + 1 /\ i \in 1..Len(a) + Len(b) /\ ~(i <= Len(a))
      BY <1>1, <1>2, <1>3, <2>2
    <3>2. (a \o b)[i] = b[i - Len(a)]
      BY <1>2, <1>3, <3>1, ConcatProperties
    <3> QED BY <1>3, <2>2, <3>1, <3>2
  <2> QED BY <2>1, <2>2
<1> QED BY <1>1, <1>4, <1>5, <1>6

LEMMA DroppedConns ==
  ASSUME clients \in Seq(Conns), IsInjective(clients), NEW c \in Range(clients)
  PROVE  /\ Dropped(c) \in Seq(Conns) /\ IsInjective(Dropped(c))
         /\ Range(Dropped(c)) = Range(clients) \ {c}
<1> DEFINE k == CHOOSE i \in DOMAIN clients : clients[i] = c
           t == Dropped(c)
<1>1. k \in DOMAIN clients /\ clients[k] = c
  BY DEF Range
<1> HIDE DEF k
<1>2. DOMAIN clients = 1..Len(clients) /\ Len(clients) \in Nat /\ k \in 1..Len(clients)
  BY <1>1
<1>3. t = RemoveAt(clients, k)
  BY DEF Dropped, k
<1> HIDE DEF t
<1>5. /\ t \in Seq(Conns) /\ Len(t) = Len(clients) - 1 /\ DOMAIN t = 1..Len(t)
      /\ \A i \in 1..Len(t) : t[i] = IF i < k THEN clients[i] ELSE clients[i + 1]
  BY <1>2, <1>3, RemoveAtProperties
<1>6. IsInjective(t)
  <2> SUFFICES ASSUME NEW i \in 1..Len(t), NEW j \in 1..Len(t), t[i] = t[j] PROVE i = j
    BY <1>5 DEF IsInjective
  <2> DEFINE at_(x) == IF x < k THEN x ELSE x + 1
  <2>1. at_(i) \in DOMAIN clients /\ at_(j) \in DOMAIN clients
    BY <1>2, <1>5
  <2>2. clients[at_(i)] = clients[at_(j)]
    BY <1>5
  <2>3. at_(i) = at_(j)
    <3> HIDE DEF at_
    <3> QED BY <2>1, <2>2 DEF IsInjective
  <2> QED BY <1>2, <1>5, <2>3
<1>7. ASSUME NEW d \in Range(t) PROVE d \in Range(clients) /\ d # c
  <2>1. PICK i \in 1..Len(t) : d = t[i]
    BY <1>5 DEF Range
  <2>2. CASE i < k
    <3>1. i \in DOMAIN clients /\ i # k /\ d = clients[i]
      BY <1>2, <1>5, <2>1, <2>2
    <3> QED BY <1>1, <3>1 DEF Range, IsInjective
  <2>3. CASE ~(i < k)
    <3>1. i + 1 \in DOMAIN clients /\ i + 1 # k /\ d = clients[i + 1]
      BY <1>2, <1>5, <2>1, <2>3
    <3> QED BY <1>1, <3>1 DEF Range, IsInjective
  <2> QED BY <2>2, <2>3
<1>8. ASSUME NEW d \in Range(clients), d # c PROVE d \in Range(t)
  <2>1. PICK i \in 1..Len(clients) : d = clients[i]
    BY <1>2 DEF Range
  <2>2. CASE i < k
    <3>1. i \in 1..Len(t) /\ t[i] = d
      BY <1>2, <1>5, <2>1, <2>2
    <3> QED BY <1>5, <3>1 DEF Range
  <2>3. CASE i > k
    <3>1. i - 1 \in 1..Len(t) /\ t[i - 1] = d
      BY <1>2, <1>5, <2>1, <2>3
    <3> QED BY <1>5, <3>1 DEF Range
  <2> QED BY <1>1, <1>2, <1>8, <2>1, <2>2, <2>3
<1>9. t \in Seq(Conns) /\ IsInjective(t) /\ Range(t) = Range(clients) \ {c}
  BY <1>5, <1>6, <1>7, <1>8
<1> QED BY <1>9 DEF t

LEMMA EmptyConns == IsInjective(<<>>) /\ Range(<<>>) = {} /\ <<>> \in Seq(Conns)
<1>1. DOMAIN <<>> = {}
  OBVIOUS
<1> QED BY <1>1 DEF IsInjective, Range

LEMMA EmptyRange == ASSUME NEW s \in Seq(Conns), Range(s) = {} PROVE s = <<>>
<1>1. DOMAIN s = 1..Len(s) /\ Len(s) \in Nat
  OBVIOUS
<1>2. DOMAIN s = {}
  BY DEF Range
<1>3. Len(s) = 0
  BY <1>1, <1>2
<1> QED BY <1>3

-----------------------------------------------------------------------------
(* What a step of a client is, by its effect. *)

Leaves(p) == conn[p] # 0 /\ Leave(p) /\ UNCHANGED <<server, snapped, view>>

Proceeds(p) ==
  /\ conn[p] # 0 /\ at[p] \in {"send", "body", "wait"} /\ ~GivesUp(p)
  /\ at[p] # "wait" => ~Mine(p).far
  /\ Proceed(p) /\ UNCHANGED <<server, snapped, view>>

Writes(p) ==
  /\ conn[p] # 0 /\ Mine(p).far /\ UNCHANGED <<server, conn, snapped, view>>
  /\ \/ /\ at[p] = "send" /\ Goto(p, "wait", req[p])
        /\ link' = [link EXCEPT ![conn[p]].up = @ \o <<"header", req[p]>>]
     \/ /\ at[p] = "send" /\ Goto(p, "body", req[p])
        /\ link' = [link EXCEPT ![conn[p]].up = Append(@, "header")]
     \/ /\ at[p] = "body" /\ Goto(p, "wait", req[p])
        /\ link' = [link EXCEPT ![conn[p]].up = Append(@, req[p])]

Takes(p) ==
  /\ conn[p] # 0 /\ Mine(p).down # <<>> /\ UNCHANGED <<server, conn>>
  /\ link' = [link EXCEPT ![conn[p]] = Taken(@)]
  /\ LET m == Head(Mine(p).down) IN
     \/ /\ at[p] = "wait" /\ p \in Streams /\ req[p] = "status" /\ Goto(p, "listen", "hello")
        /\ snapped' = [snapped EXCEPT ![p] = m.kind = "status"]
        /\ view' = IF m.kind = "status" THEN [view EXCEPT ![p] = m.val] ELSE view
     \/ /\ at[p] = "wait" /\ p \in Streams /\ req[p] \in {"hello", "subscribe"}
        /\ req[p] = "subscribe" => m.kind = "ok"
        /\ \E r \in NextRequest(p) : Goto(p, "send", r)
        /\ UNCHANGED <<snapped, view>>
     \/ /\ at[p] = "wait" /\ p \notin Streams /\ req[p] = "hello"
        /\ \E r \in Requests : Goto(p, "send", r)
        /\ UNCHANGED <<snapped, view>>
     \/ /\ at[p] = "wait" /\ p \in Panels /\ req[p] # "hello" /\ Goto(p, "ready", "hello")
        /\ UNCHANGED <<snapped, view>>
     \/ /\ at[p] = "listen" /\ p \in Streams /\ UNCHANGED <<at, req, snapped>>
        /\ view' = IF m.kind = "event" THEN [view EXCEPT ![p] = m.val] ELSE view

Asks(p) ==
  /\ p \in Panels /\ at[p] = "ready" /\ \E r \in Requests : Goto(p, "send", r)
  /\ UNCHANGED <<server, link, conn, snapped, view>>

ClientMove(p) == Leaves(p) \/ Proceeds(p) \/ Writes(p) \/ Takes(p) \/ Asks(p) \/ Connect(p)

ClientAction(p) ==
  \/ Write(p) \/ WriteHeader(p) \/ WriteBody(p) \/ Receive(p) \/ EndOfStream(p)
  \/ Timeout(p) \/ Quit(p) \/ Connect(p)
  \/ p \in Streams /\ Listen(p)
  \/ p \in Panels /\ Ask(p)

LEMMA ClientSteps ==
  ASSUME Typed, OwnInv, NEW p \in Clients, ClientAction(p)
  PROVE  ClientMove(p) /\ faults' \in Nat
<1>1. at[p] \notin {"idle", "done"} => conn[p] # 0
  BY DEF OwnInv
<1>2. MaxFaults \in Nat /\ faults \in Nat
  BY IpcAssumption DEF Typed
<1>3. p \in Streams \/ p \in Panels \/ p \in Commands
  BY DEF Clients
<1>4. ASSUME Failed(p), conn[p] # 0, at[p] \in {"send", "body", "wait"}, at[p] # "wait" => ~Mine(p).far,
             UNCHANGED <<server, snapped, view>>
      PROVE  ClientMove(p)
  <2>1. CASE GivesUp(p)
    BY <1>4, <2>1 DEF Failed, Leaves, ClientMove
  <2>2. CASE ~GivesUp(p)
    BY <1>4, <2>2 DEF Failed, Proceeds, ClientMove
  <2> QED BY <2>1, <2>2
<1>5. CASE Write(p)
  <2>1. at[p] = "send" /\ conn[p] # 0 /\ faults' = faults
    BY <1>1, <1>5 DEF Write
  <2>2. CASE ~Mine(p).far /\ Failed(p)
    BY <1>2, <1>4, <1>5, <2>1, <2>2 DEF Write
  <2>3. CASE Mine(p).far
    BY <1>2, <1>5, <2>1, <2>3 DEF Write, Writes, ClientMove
  <2> QED BY <1>5, <2>2, <2>3 DEF Write
<1>6. CASE WriteHeader(p)
  BY <1>1, <1>2, <1>6 DEF WriteHeader, Writes, ClientMove
<1>7. CASE WriteBody(p)
  <2>1. at[p] = "body" /\ conn[p] # 0 /\ faults' = faults
    BY <1>1, <1>7 DEF WriteBody
  <2>2. CASE ~Mine(p).far /\ Failed(p)
    BY <1>2, <1>4, <1>7, <2>1, <2>2 DEF WriteBody
  <2>3. CASE Mine(p).far
    BY <1>2, <1>7, <2>1, <2>3 DEF WriteBody, Writes, ClientMove
  <2> QED BY <1>7, <2>2, <2>3 DEF WriteBody
<1>8. CASE Receive(p)
  <2> DEFINE m == Head(Mine(p).down)
  <2>1. at[p] = "wait" /\ conn[p] # 0 /\ faults' = faults /\ Mine(p).down # <<>> /\ UNCHANGED server
    BY <1>1, <1>8 DEF Receive
  <2>2. CASE ~Accepts(p, m) /\ Leave(p) /\ UNCHANGED <<snapped, view>>
    BY <1>2, <2>1, <2>2 DEF Leaves, ClientMove
  <2>3. CASE /\ Accepts(p, m) /\ p \in Streams /\ req[p] = "status"
             /\ Goto(p, "listen", "hello")
             /\ link' = [link EXCEPT ![conn[p]] = Taken(@)]
             /\ snapped' = [snapped EXCEPT ![p] = m.kind = "status"]
             /\ view' = IF m.kind = "status" THEN [view EXCEPT ![p] = m.val] ELSE view
             /\ UNCHANGED conn
    BY <1>2, <2>1, <2>3 DEF Takes, ClientMove
  <2>4. CASE /\ Accepts(p, m) /\ (req[p] = "hello" \/ (p \in Streams /\ req[p] = "subscribe"))
             /\ \E r \in NextRequest(p) : Goto(p, "send", r)
             /\ link' = [link EXCEPT ![conn[p]] = Taken(@)]
             /\ UNCHANGED <<conn, snapped, view>>
    <3>1. CASE p \in Streams
      <4>1. req[p] \in {"hello", "subscribe"} /\ (req[p] = "subscribe" => m.kind = "ok")
        BY <2>4, <3>1 DEF Accepts
      <4> HIDE DEF m
      <4>2. Takes(p)
        BY <2>1, <2>4, <3>1, <4>1 DEF Takes, m
      <4> QED BY <1>2, <2>1, <4>2 DEF ClientMove
    <3>2. CASE p \notin Streams
      <4>1. NextRequest(p) = Requests /\ req[p] = "hello"
        BY <2>4, <3>2 DEF NextRequest
      <4>2. Takes(p)
        BY <2>1, <2>4, <3>2, <4>1 DEF Takes
      <4> QED BY <1>2, <2>1, <4>2 DEF ClientMove
    <3> QED BY <3>1, <3>2
  <2>5. CASE p \notin Streams /\ req[p] # "hello" /\ Answered(p) /\ UNCHANGED <<snapped, view>>
    <3>1. CASE p \in Commands
      BY <1>2, <2>1, <2>5, <3>1 DEF Answered, Leaves, ClientMove
    <3>2. CASE p \notin Commands
      <4>1. p \in Panels
        BY <1>3, <2>5, <3>2
      <4> QED BY <1>2, <2>1, <2>5, <3>2, <4>1 DEF Answered, Takes, ClientMove
    <3> QED BY <3>1, <3>2
  <2> QED BY <1>8, <2>2, <2>3, <2>4, <2>5 DEF Receive
<1>9. CASE EndOfStream(p)
  <2>1. conn[p] # 0 /\ faults' = faults /\ UNCHANGED <<server, snapped, view>>
    BY <1>9 DEF EndOfStream
  <2>2. CASE at[p] = "wait" /\ Failed(p)
    BY <1>2, <1>4, <2>1, <2>2
  <2>3. CASE at[p] = "listen" /\ Leave(p)
    BY <1>2, <2>1, <2>3 DEF Leaves, ClientMove
  <2> QED BY <1>9, <2>2, <2>3 DEF EndOfStream
<1>10. CASE Timeout(p)
  BY <1>1, <1>2, <1>4, <1>10 DEF Timeout
<1>11. CASE Quit(p)
  BY <1>2, <1>11 DEF Quit, Leaves, ClientMove
<1>12. CASE Connect(p)
  BY <1>2, <1>12 DEF ClientMove, Connect
<1>13. CASE p \in Streams /\ Listen(p)
  BY <1>1, <1>2, <1>13 DEF Listen, Takes, ClientMove
<1>14. CASE p \in Panels /\ Ask(p)
  BY <1>2, <1>14 DEF Ask, Asks, ClientMove
<1> QED BY <1>5, <1>6, <1>7, <1>8, <1>9, <1>10, <1>11, <1>12, <1>13, <1>14 DEF ClientAction

LEMMA HangProperties ==
  ASSUME NEW l \in Links
  PROVE  /\ HangNear(l) \in Links /\ ~HangNear(l).near /\ HangNear(l).far = l.far
         /\ HangNear(l).sub => l.sub
         /\ HangFar(l) \in Links /\ ~HangFar(l).far /\ HangFar(l).near = l.near
         /\ l.near => HangFar(l) = [l EXCEPT !.far = FALSE]
<1>1. Unused \in Links /\ ~Unused.near /\ ~Unused.far /\ ~Unused.sub
  BY DEF Unused, Links
<1> DEFINE n == [l EXCEPT !.near = FALSE]
           f == [l EXCEPT !.far = FALSE]
<1>2. n \in Links /\ ~n.near /\ n.far = l.far /\ n.sub = l.sub
  BY DEF Links
<1>3. f \in Links /\ ~f.far /\ f.near = l.near
  BY DEF Links
<1>4. HangNear(l) = IF n.near \/ n.far THEN n ELSE Unused
  BY DEF HangNear, Hang
<1>5. HangFar(l) = IF f.near \/ f.far THEN f ELSE Unused
  BY DEF HangFar, Hang
<1> HIDE DEF n, f
<1>6. l.far \in BOOLEAN /\ l.near \in BOOLEAN /\ n.far \in BOOLEAN /\ f.near \in BOOLEAN
      /\ Unused.near \in BOOLEAN /\ Unused.far \in BOOLEAN
  BY <1>1, <1>2, <1>3 DEF Links
<1>7. HangNear(l) \in Links /\ ~HangNear(l).near /\ HangNear(l).far = l.far /\ (HangNear(l).sub => l.sub)
  BY <1>1, <1>2, <1>4, <1>6
<1>8. HangFar(l) \in Links /\ ~HangFar(l).far /\ HangFar(l).near = l.near /\ (l.near => HangFar(l) = f)
  BY <1>1, <1>3, <1>5, <1>6
<1> QED BY <1>7, <1>8 DEF f

LEMMA TakenProperties ==
  ASSUME NEW l \in Links, l.down # <<>>
  PROVE  /\ Taken(l) \in Links
         /\ Taken(l).down = Tail(l.down) /\ Taken(l).near = l.near /\ Taken(l).far = l.far
         /\ Taken(l).sub = l.sub /\ Taken(l).up = l.up /\ Taken(l).from = l.from
         /\ Taken(l).read = IF Head(l.down).kind = "event" THEN l.read + 1 ELSE l.read
         /\ Head(l.down) \in Msg
<1> DEFINE d == Tail(l.down)
           r == IF Head(l.down).kind = "event" THEN l.read + 1 ELSE l.read
<1>1. Head(l.down) \in Msg /\ d \in Seq(Msg) /\ r \in Nat
  BY DEF Links
<1>2. Taken(l) = [l EXCEPT !.down = d, !.read = r]
  BY DEF Taken
<1> HIDE DEF d, r
<1>3. /\ Taken(l) \in Links /\ Taken(l).down = d /\ Taken(l).read = r
      /\ Taken(l).near = l.near /\ Taken(l).far = l.far
      /\ Taken(l).sub = l.sub /\ Taken(l).up = l.up /\ Taken(l).from = l.from
  BY <1>1, <1>2 DEF Links
<1> QED BY <1>1, <1>3 DEF d, r

LEMMA WithParts ==
  ASSUME NEW l \in Links, NEW u \in Seq(Frames)
  PROVE  LET k == [l EXCEPT !.up = u] IN
         /\ k \in Links /\ k.up = u /\ k.near = l.near /\ k.far = l.far /\ k.sub = l.sub
         /\ k.down = l.down /\ k.from = l.from /\ k.read = l.read
BY DEF Links

\* A move touches the end of p's own connection alone.
MoveLinks(p) ==
  \/ UNCHANGED link
  \/ /\ conn[p] # 0
     /\ \E l \in Links : /\ link' = [link EXCEPT ![conn[p]] = l]
                         /\ l.far = link[conn[p]].far /\ (l.sub => link[conn[p]].sub)

Step(p) == Leaves(p) \/ Proceeds(p) \/ Writes(p) \/ Takes(p) \/ Asks(p)

LEMMA StepSteady ==
  ASSUME Typed, NEW p \in Clients, Step(p)
  PROVE  UNCHANGED server /\ MoveLinks(p)
<1>1. conn[p] # 0 => link[conn[p]] \in Links
  BY DEF Typed
<1>2. CASE Leaves(p)
  BY <1>1, <1>2, HangProperties DEF Leaves, Leave, MoveLinks
<1>3. CASE Proceeds(p)
  BY <1>3 DEF Proceeds, Proceed, MoveLinks
<1>4. CASE Writes(p)
  <2> DEFINE u == link'[conn[p]].up
             l == [link[conn[p]] EXCEPT !.up = u]
  <2>1. req[p] \in Frames /\ conn[p] \in Conns /\ link[conn[p]].up \in Seq(Frames) /\ UNCHANGED server
    BY <1>1, <1>4 DEF Typed, Frames, Writes, Links
  <2>2. link' = [link EXCEPT ![conn[p]] = l] /\ u \in Seq(Frames)
    <3>1. \E x \in Seq(Frames) : link' = [link EXCEPT ![conn[p]].up = x]
      <4>1. CASE link' = [link EXCEPT ![conn[p]].up = @ \o <<"header", req[p]>>]
        <5>1. <<"header", req[p]>> \in Seq(Frames)
          BY <2>1 DEF Frames
        <5>2. link[conn[p]].up \o <<"header", req[p]>> \in Seq(Frames)
          BY <2>1, <5>1, ConcatProperties
        <5> QED BY <4>1, <5>2
      <4>2. CASE link' = [link EXCEPT ![conn[p]].up = Append(@, "header")]
        <5>1. Append(link[conn[p]].up, "header") \in Seq(Frames)
          BY <2>1 DEF Frames
        <5> QED BY <4>2, <5>1
      <4>3. CASE link' = [link EXCEPT ![conn[p]].up = Append(@, req[p])]
        <5>1. Append(link[conn[p]].up, req[p]) \in Seq(Frames)
          BY <2>1
        <5> QED BY <4>3, <5>1
      <4> QED BY <1>4, <4>1, <4>2, <4>3 DEF Writes
    <3> QED BY <1>1, <2>1, <3>1 DEF Typed, Links
  <2>3. l \in Links /\ l.far = link[conn[p]].far /\ l.sub = link[conn[p]].sub
    <3> HIDE DEF u
    <3>1. link[conn[p]] \in Links /\ u \in Seq(Frames)
      BY <1>1, <1>4, <2>2 DEF Writes
    <3> QED BY <3>1, WithParts
  <2> HIDE DEF l
  <2> QED BY <1>4, <2>1, <2>2, <2>3 DEF MoveLinks, Writes
<1>5. CASE Takes(p)
  BY <1>1, <1>5, TakenProperties DEF Takes, MoveLinks, Mine
<1>6. CASE Asks(p)
  BY <1>6 DEF Asks, MoveLinks
<1> QED BY <1>2, <1>3, <1>4, <1>5, <1>6 DEF Step

LEMMA StepOwn ==
  ASSUME Typed, OwnInv, NEW p \in Clients, Step(p)
  PROVE  /\ OwnInv'
         /\ at' \in [Clients -> Places] /\ conn' \in [Clients -> Conns \cup {0}]
         /\ req' \in [Clients -> {"hello", "subscribe", "status", "set", "get"}]
         /\ snapped' \in [Streams -> BOOLEAN] /\ view' \in [Streams -> Nat]
         /\ \A q \in Clients \ {p} : /\ at'[q] = at[q] /\ req'[q] = req[q] /\ conn'[q] = conn[q]
                                     /\ conn[q] # 0 => link'[conn[q]] = link[conn[q]]
                                     /\ q \in Streams => snapped'[q] = snapped[q] /\ view'[q] = view[q]
<1>1. MoveLinks(p) /\ (conn[p] # 0 => link[conn[p]] \in Links)
  BY StepSteady DEF Typed
<1>2. \A q \in Clients \ {p} : conn[q] # 0 => link'[conn[q]] = link[conn[q]]
  <2> TAKE q \in Clients \ {p}
  <2>1. conn[q] # 0 => conn[q] # conn[p] /\ conn[q] \in Conns
    BY DEF OwnInv, Typed
  <2> QED BY <1>1, <2>1 DEF MoveLinks, Typed
<1>3. Requests \subseteq {"set", "get"}
  BY IpcAssumption
<1>4. CASE Leaves(p)
  <2>1. at' = [at EXCEPT ![p] = IF p \in Commands THEN "done" ELSE "idle"] /\ req' = [req EXCEPT ![p] = "hello"]
        /\ conn' = [conn EXCEPT ![p] = 0] /\ UNCHANGED <<snapped, view>>
    BY <1>4 DEF Leaves, Leave, Goto
  <2>2. at'[p] \in {"idle", "done"} /\ conn'[p] = 0
    BY <2>1 DEF Typed
  <2> QED BY <1>2, <2>1, <2>2 DEF Typed, OwnInv, Places
<1>5. ASSUME UNCHANGED conn, conn[p] # 0, NEW a \in Places \ {"idle", "done"}, NEW r \in {"hello", "subscribe", "status", "set", "get"},
             Goto(p, a, r), link'[conn[p]].near
      PROVE  /\ OwnInv' /\ at' \in [Clients -> Places] /\ conn' \in [Clients -> Conns \cup {0}]
             /\ req' \in [Clients -> {"hello", "subscribe", "status", "set", "get"}]
             /\ \A q \in Clients \ {p} : at'[q] = at[q] /\ req'[q] = req[q] /\ conn'[q] = conn[q]
  BY <1>2, <1>5 DEF Goto, Typed, OwnInv
<1>6. CASE Proceeds(p)
  <2>1. UNCHANGED <<conn, link, snapped, view>> /\ conn[p] # 0 /\ link'[conn[p]].near
    BY <1>6 DEF Proceeds, Proceed, OwnInv
  <2>2. \E a \in Places \ {"idle", "done"}, r \in {"hello", "subscribe", "status", "set", "get"} : Goto(p, a, r)
    BY <1>3, <1>6 DEF Proceeds, Proceed, NextRequest, Places
  <2> QED BY <1>2, <1>5, <2>1, <2>2 DEF Typed
<1>7. CASE Writes(p)
  <2>1. UNCHANGED <<conn, snapped, view>> /\ conn[p] # 0 /\ link'[conn[p]].near
    BY ZenonT(40), <1>7 DEF Writes, OwnInv, Typed, Links
  <2>2. \E a \in Places \ {"idle", "done"}, r \in {"hello", "subscribe", "status", "set", "get"} : Goto(p, a, r)
    BY <1>7 DEF Writes, Places, Typed
  <2> QED BY <1>2, <1>5, <2>1, <2>2 DEF Typed
<1>8. CASE Takes(p)
  <2>1. UNCHANGED conn /\ conn[p] # 0 /\ link'[conn[p]].near /\ Head(Mine(p).down).val \in Nat
    BY SMTT(40), <1>1, <1>8, TakenProperties DEF Takes, OwnInv, Typed, Mine, Msg
  <2>2. snapped' \in [Streams -> BOOLEAN] /\ view' \in [Streams -> Nat]
        /\ \A q \in Clients \ {p} : q \in Streams => snapped'[q] = snapped[q] /\ view'[q] = view[q]
    BY <1>8, <2>1 DEF Takes, Typed
  <2>3. CASE at[p] = "listen" /\ UNCHANGED <<at, req>>
    BY <1>2, <2>1, <2>2, <2>3 DEF Typed, OwnInv
  <2>4. CASE ~(at[p] = "listen" /\ UNCHANGED <<at, req>>)
    <3>1. \E a \in Places \ {"idle", "done"}, r \in {"hello", "subscribe", "status", "set", "get"} : Goto(p, a, r)
      BY <1>3, <1>8, <2>4 DEF Takes, Places, NextRequest
    <3> QED BY <1>2, <1>5, <2>1, <2>2, <3>1
  <2> QED BY <2>3, <2>4
<1>9. CASE Asks(p)
  <2>1. UNCHANGED <<conn, link, snapped, view>> /\ conn[p] # 0 /\ link'[conn[p]].near
    BY <1>9 DEF Asks, OwnInv, Typed
  <2>2. \E a \in Places \ {"idle", "done"}, r \in {"hello", "subscribe", "status", "set", "get"} : Goto(p, a, r)
    BY <1>3, <1>9 DEF Asks, Places
  <2> QED BY <1>2, <1>5, <2>1, <2>2 DEF Typed
<1> QED BY <1>4, <1>6, <1>7, <1>8, <1>9 DEF Step

LEMMA StepLoop ==
  ASSUME Typed, LoopInv, OwnInv, NEW p \in Clients, Step(p), faults' \in Nat
  PROVE  Typed' /\ LoopInv'
<1>1. UNCHANGED server /\ MoveLinks(p)
  BY StepSteady
<1>2. link' \in [Conns -> Links]
  BY <1>1 DEF MoveLinks, Typed
<1>3. Typed'
  BY <1>1, <1>2, StepOwn DEF Typed, server
<1>4. \A c \in Conns : link'[c].far = link[c].far /\ (link'[c].sub => link[c].sub)
  BY <1>1 DEF MoveLinks, Typed
<1>5. {c \in Conns : link'[c].far} = {c \in Conns : link[c].far}
  BY <1>4
<1>6. \A c \in Range(backlog) : ~link'[c].sub
  <2>1. Range(backlog) \subseteq Conns
    BY DEF LoopInv
  <2> QED BY <1>4, <2>1 DEF LoopInv
<1>7. LoopInv'
  BY <1>1, <1>5, <1>6 DEF LoopInv, server
<1> QED BY <1>3, <1>7

LEMMA LeastFree == ASSUME Free # {} PROVE Min(Free) \in Free
<1>1. Free \subseteq Nat
  BY IpcAssumption DEF Free
<1>2. PICK x \in Free : \A y \in Free : x <= y
  <2> DEFINE T == {n \in Nat : \A m \in 0..n : m \notin Free}
  <2>1. CASE 0 \in Free
    BY <1>1, <2>1
  <2>2. CASE 0 \notin Free
    <3>1. 0 \in T
      BY <2>2
    <3>2. ~(Nat \subseteq T)
      <4>1. PICK n \in Free : TRUE
        OBVIOUS
      <4>2. n \in Nat /\ n \notin T
        BY <1>1
      <4> QED BY <4>2
    <3>3. PICK n \in Nat : n \in T /\ n + 1 \notin T
      <4> HIDE DEF T
      <4> QED BY <3>1, <3>2, Induction
    <3>4. PICK m \in 0..n + 1 : m \in Free
      BY <3>3
    <3>5. m = n + 1
      BY <3>3, <3>4
    <3>6. \A y \in Free : n + 1 <= y
      BY <1>1, <3>3
    <3> QED BY <3>4, <3>5, <3>6
  <2> QED BY <2>1, <2>2
<1> QED BY <1>2 DEF Min

LEMMA ConnectStep ==
  ASSUME Typed, LoopInv, OwnInv, NEW p \in Clients, Connect(p), faults' \in Nat
  PROVE  /\ Typed' /\ LoopInv' /\ OwnInv'
         /\ conn'[p] \in Conns /\ link'[conn'[p]] = Opened /\ ~link[conn'[p]].near /\ ~link[conn'[p]].far
         /\ link' = [link EXCEPT ![conn'[p]] = Opened]
         /\ at'[p] = "send" /\ req'[p] = "hello" /\ (p \in Streams => ~snapped'[p])
         /\ \A q \in Clients \ {p} : /\ at'[q] = at[q] /\ req'[q] = req[q] /\ conn'[q] = conn[q]
                                     /\ conn[q] # 0 => link'[conn[q]] = link[conn[q]]
                                     /\ q \in Streams => snapped'[q] = snapped[q] /\ view'[q] = view[q]
<1> DEFINE c == Min(Free)
<1>1. c \in Free /\ c \in Conns /\ ~link[c].near /\ ~link[c].far
  BY LeastFree DEF Connect, Free
<1>2. /\ link' = [link EXCEPT ![c] = Opened] /\ backlog' = Append(backlog, c)
      /\ conn' = [conn EXCEPT ![p] = c] /\ Goto(p, "send", "hello")
      /\ snapped' = [s \in Streams |-> s # p /\ snapped[s]] /\ running
      /\ UNCHANGED <<running, pc, clients, sweep, pending, mode, changes, log, view>>
  BY DEF Connect
<1> HIDE DEF c
<1>3. Opened \in Links /\ Opened.near /\ Opened.far /\ ~Opened.sub
  <2>1. Unused \in Links /\ ~Unused.sub
    BY DEF Unused, Links
  <2> QED BY <2>1 DEF Opened, Links
<1>4. c # 0
  BY <1>1, IpcAssumption
<1>5. at' = [at EXCEPT ![p] = "send"] /\ req' = [req EXCEPT ![p] = "hello"]
  BY <1>2 DEF Goto
<1>6. backlog' \in Seq(Conns) /\ IsInjective(backlog') /\ Range(backlog') = Range(backlog) \cup {c}
      /\ c \notin Range(clients) /\ c \notin Range(backlog)
  <2>1. c \notin Range(clients) /\ c \notin Range(backlog)
    BY <1>1 DEF LoopInv
  <2> QED BY <1>1, <1>2, <2>1, AppendConns DEF Typed, LoopInv
<1>7. link' \in [Conns -> Links] /\ link'[c] = Opened /\ \A d \in Conns \ {c} : link'[d] = link[d]
  BY <1>1, <1>2, <1>3 DEF Typed
<1>8. Typed'
  BY <1>1, <1>2, <1>5, <1>6, <1>7 DEF Typed, Places
<1>9. {d \in Conns : link'[d].far} = {d \in Conns : link[d].far} \cup {c}
  BY <1>1, <1>3, <1>7
<1>10. \A d \in Range(backlog') : ~link'[d].sub
  <2>1. Range(backlog) \subseteq Conns
    BY DEF LoopInv
  <2> QED BY <1>3, <1>6, <1>7, <2>1 DEF LoopInv
<1>11. LoopInv'
  BY <1>2, <1>6, <1>9, <1>10 DEF LoopInv
<1>12. \A q \in Clients : conn[q] # c
  BY <1>1, <1>4 DEF OwnInv
<1>13. \A q \in Clients \ {p} : conn[q] # 0 => conn[q] \in Conns \ {c} /\ link'[conn[q]] = link[conn[q]]
  BY <1>7, <1>12 DEF Typed
<1>14. OwnInv'
  BY <1>2, <1>3, <1>4, <1>5, <1>7, <1>12, <1>13 DEF OwnInv, Typed
<1>15. conn'[p] = c /\ at'[p] = "send" /\ req'[p] = "hello" /\ (p \in Streams => ~snapped'[p])
  BY <1>2, <1>5 DEF Typed
<1>16. \A q \in Clients \ {p} : /\ at'[q] = at[q] /\ req'[q] = req[q] /\ conn'[q] = conn[q]
                                /\ q \in Streams => snapped'[q] = snapped[q] /\ view'[q] = view[q]
  BY <1>2, <1>5 DEF Typed
<1> QED BY <1>1, <1>2, <1>7, <1>8, <1>11, <1>13, <1>14, <1>15, <1>16

LEMMA MoveReq ==
  ASSUME Typed, ReqInv, NEW p \in Clients, ClientMove(p)
  PROVE  ReqInv'
<1>1. Requests \subseteq {"set", "get"}
  BY IpcAssumption
<1>2. CASE Leaves(p)
  BY <1>2 DEF Leaves, Leave, Goto, ReqInv, Typed
<1>3. CASE Proceeds(p)
  BY <1>1, <1>3 DEF Proceeds, Proceed, NextRequest, Goto, ReqInv, Typed
<1>4. CASE Writes(p)
  BY <1>4 DEF Writes, Goto, ReqInv, Typed
<1>5. CASE Takes(p)
  BY <1>1, <1>5 DEF Takes, NextRequest, Goto, ReqInv, Typed
<1>6. CASE Asks(p)
  BY <1>1, <1>6 DEF Asks, Goto, ReqInv, Typed
<1>7. CASE Connect(p)
  BY <1>7 DEF Connect, Goto, ReqInv, Typed
<1> QED BY <1>2, <1>3, <1>4, <1>5, <1>6, <1>7 DEF ClientMove

LEMMA TwoParts == ASSUME NEW a, NEW b PROVE Append(<<a>>, b) = <<a, b>>
<1> DEFINE t == Append(<<a>>, b)
           u == <<a, b>>
<1>1. t \in Seq({a, b}) /\ u \in Seq({a, b}) /\ Len(t) = 2 /\ Len(u) = 2
      /\ t[1] = a /\ t[2] = b /\ u[1] = a /\ u[2] = b
  OBVIOUS
<1> HIDE DEF t, u
<1>2. \A i \in 1..Len(t) : t[i] = u[i]
  <2>1. \A i \in 1..2 : i = 1 \/ i = 2
    OBVIOUS
  <2> QED BY <1>1, <2>1
<1>3. t = u
  BY <1>1, <1>2, SeqEqual
<1> QED BY <1>3 DEF t, u

LEMMA StepPanel ==
  ASSUME Typed, OwnInv, ReqInv, NEW p \in Panels, PanelInv(p), Step(p)
  PROVE  PanelInv(p)'
<1>1. p \in Clients /\ p \notin Streams /\ p \notin Commands
  BY IpcAssumption DEF Clients
<1> DEFINE l == link[conn[p]]
<1>2. CASE Leaves(p)
  BY <1>1, <1>2 DEF Leaves, Leave, PanelInv, Typed
<1>3. CASE Proceeds(p)
  BY <1>1, <1>3 DEF Proceeds, GivesUp
<1>4. CASE Writes(p)
  <2>0. conn[p] \in Conns /\ l \in Links /\ l.far /\ conn[p] # 0 /\ conn' = conn
    BY <1>1, <1>4 DEF Writes, Typed, Mine
  <2>1. CASE /\ at[p] = "send" /\ Goto(p, "wait", req[p])
             /\ link' = [link EXCEPT ![conn[p]].up = @ \o <<"header", req[p]>>]
    <3>1. l.up = <<>> /\ l.down = <<>> /\ ~l.sub
      BY <2>0, <2>1 DEF PanelInv
    <3>2. at'[p] = "wait" /\ req'[p] = req[p]
      BY <1>1, <2>1 DEF Goto, Typed
    <3>3. <<>> \o <<"header", req[p]>> = <<"header", req[p]>>
      BY <1>1 DEF Typed
    <3>4. link'[conn[p]] = [l EXCEPT !.up = <<"header", req[p]>>]
      BY <2>0, <2>1, <3>1, <3>3 DEF Typed
    <3>5. link'[conn[p]].down = <<>> /\ link'[conn[p]].up = <<"header", req[p]>> /\ ~link'[conn[p]].sub
      BY <2>0, <3>1, <3>4 DEF Links
    <3> QED BY <2>0, <3>2, <3>5 DEF PanelInv
  <2>2. CASE /\ at[p] = "send" /\ Goto(p, "body", req[p])
             /\ link' = [link EXCEPT ![conn[p]].up = Append(@, "header")]
    <3>1. l.up = <<>> /\ l.down = <<>> /\ ~l.sub
      BY <2>0, <2>2 DEF PanelInv
    <3>2. at'[p] = "body" /\ req'[p] = req[p]
      BY <1>1, <2>2 DEF Goto, Typed
    <3>4. link'[conn[p]] = [l EXCEPT !.up = <<"header">>]
      <4>1. Append(<<>>, "header") = <<"header">>
        OBVIOUS
      <4> QED BY <2>0, <2>2, <3>1, <4>1 DEF Typed
    <3>5. link'[conn[p]].down = <<>> /\ link'[conn[p]].up = <<"header">> /\ ~link'[conn[p]].sub
      BY <2>0, <3>1, <3>4 DEF Links
    <3> QED BY <2>0, <3>2, <3>5 DEF PanelInv
  <2>3. CASE /\ at[p] = "body" /\ Goto(p, "wait", req[p])
             /\ link' = [link EXCEPT ![conn[p]].up = Append(@, req[p])]
    <3>1. l.up = <<"header">> /\ l.down = <<>> /\ ~l.sub
      BY <2>0, <2>3 DEF PanelInv
    <3>2. at'[p] = "wait" /\ req'[p] = req[p]
      BY <1>1, <2>3 DEF Goto, Typed
    <3>3. Append(<<"header">>, req[p]) = <<"header", req[p]>>
      BY TwoParts
    <3>4. link'[conn[p]] = [l EXCEPT !.up = <<"header", req[p]>>]
      BY <2>0, <2>3, <3>1, <3>3 DEF Typed
    <3>5. link'[conn[p]].down = <<>> /\ link'[conn[p]].up = <<"header", req[p]>> /\ ~link'[conn[p]].sub
      BY <2>0, <3>1, <3>4 DEF Links
    <3> QED BY <2>0, <3>2, <3>5 DEF PanelInv
  <2> QED BY <1>4, <2>1, <2>2, <2>3 DEF Writes
<1>5. CASE Takes(p)
  <2>0. conn[p] \in Conns /\ l \in Links /\ l.down # <<>> /\ conn[p] # 0 /\ conn' = conn
        /\ link'[conn[p]] = Taken(l)
    BY <1>1, <1>5 DEF Takes, Typed, Mine
  <2>1. at[p] = "wait" /\ (at'[p] = "send" \/ at'[p] = "ready")
    BY <1>1, <1>5, <2>0 DEF Takes, Goto, Typed, PanelInv
  <2>2. Len(l.down) = 1 /\ l.up = <<>> /\ ~l.sub
    BY <2>0, <2>1 DEF PanelInv
  <2>3. Tail(l.down) = <<>>
    <3>1. l.down \in Seq(Msg)
      BY <2>0 DEF Links
    <3>2. Tail(l.down) \in Seq(Msg) /\ Len(Tail(l.down)) = 0
      BY <2>0, <2>2, <3>1, HeadTailProperties
    <3> QED BY <3>2, EmptySeq
  <2>4. Taken(l).down = <<>> /\ Taken(l).up = <<>> /\ ~Taken(l).sub
    BY <2>0, <2>2, <2>3, TakenProperties
  <2> QED BY <2>0, <2>1, <2>4 DEF PanelInv
<1>6. CASE Asks(p)
  <2>1. at[p] = "ready" /\ at'[p] = "send" /\ conn' = conn /\ link' = link
    BY <1>1, <1>6 DEF Asks, Goto, Typed
  <2> QED BY <2>1 DEF PanelInv
<1> QED BY <1>2, <1>3, <1>4, <1>5, <1>6 DEF Step

LEMMA MovePanels ==
  ASSUME Typed, LoopInv, OwnInv, ReqInv, \A q \in Panels : PanelInv(q),
         NEW p \in Clients, ClientMove(p), faults' \in Nat
  PROVE  \A q \in Panels : PanelInv(q)'
<1> SUFFICES ASSUME NEW q \in Panels PROVE PanelInv(q)'
  OBVIOUS
<1>1. q \in Clients
  BY DEF Clients
<1>2. CASE Step(p)
  <2>1. CASE q = p
    BY <1>2, <2>1, StepPanel
  <2>2. CASE q # p
    <3>1. /\ at'[q] = at[q] /\ req'[q] = req[q] /\ conn'[q] = conn[q]
          /\ conn[q] # 0 => link'[conn[q]] = link[conn[q]]
      BY <1>1, <1>2, <2>2, StepOwn
    <3> QED BY ZenonT(40), <3>1 DEF PanelInv
  <2> QED BY <2>1, <2>2
<1>3. CASE Connect(p)
  <2>1. CASE q = p
    <3>1. link'[conn'[p]] = Opened /\ at'[p] = "send" /\ req'[p] = "hello"
      BY <1>3, ConnectStep
    <3> QED BY <2>1, <3>1 DEF PanelInv, Opened, Unused
  <2>2. CASE q # p
    <3>1. /\ at'[q] = at[q] /\ req'[q] = req[q] /\ conn'[q] = conn[q]
          /\ conn[q] # 0 => link'[conn[q]] = link[conn[q]]
      BY <1>1, <1>3, <2>2, ConnectStep
    <3> QED BY <3>1 DEF PanelInv
  <2> QED BY <2>1, <2>2
<1> QED BY <1>2, <1>3 DEF ClientMove, Step

LEMMA AppendParts ==
  ASSUME NEW u \in Seq(Frames), NEW x \in Frames
  PROVE  LET v == Append(u, x) IN
         /\ v \in Seq(Frames) /\ Len(v) = Len(u) + 1 /\ Len(u) \in Nat
         /\ \A i \in 1..Len(v) : v[i] = IF i = Len(u) + 1 THEN x ELSE u[i]
         /\ \A y : Has(v, y) <=> (Has(u, y) \/ x = y)
<1> DEFINE v == Append(u, x)
<1>1. v \in Seq(Frames) /\ Len(v) = Len(u) + 1 /\ Len(u) \in Nat
      /\ \A i \in 1..Len(v) : v[i] = IF i = Len(u) + 1 THEN x ELSE u[i]
  OBVIOUS
<1> HIDE DEF v
<1>2. ASSUME NEW y PROVE Has(v, y) <=> (Has(u, y) \/ x = y)
  <2>1. ASSUME Has(v, y) PROVE Has(u, y) \/ x = y
    <3>1. PICK i \in 1..Len(v) : v[i] = y
      BY <2>1 DEF Has
    <3>2. i = Len(u) + 1 \/ i \in 1..Len(u)
      BY <1>1
    <3> QED BY <1>1, <3>1, <3>2 DEF Has
  <2>2. ASSUME Has(u, y) PROVE Has(v, y)
    <3>1. PICK i \in 1..Len(u) : u[i] = y
      BY <2>2 DEF Has
    <3>2. i \in 1..Len(v) /\ i # Len(u) + 1
      BY <1>1
    <3> QED BY <1>1, <3>1, <3>2 DEF Has
  <2>3. ASSUME x = y PROVE Has(v, y)
    <3>1. Len(u) + 1 \in 1..Len(v)
      BY <1>1
    <3> QED BY <1>1, <2>3, <3>1 DEF Has
  <2> QED BY <2>1, <2>2, <2>3
<1> QED BY <1>1, <1>2 DEF v

LEMMA ConcatTwo == ASSUME NEW u \in Seq(Frames), NEW x \in Frames, NEW y \in Frames
  PROVE u \o <<x, y>> = Append(Append(u, x), y)
<1> DEFINE a == u \o <<x, y>>
           b == Append(Append(u, x), y)
<1>1. <<x, y>> \in Seq(Frames) /\ Len(<<x, y>>) = 2 /\ <<x, y>>[1] = x /\ <<x, y>>[2] = y
  OBVIOUS
<1>2. a \in Seq(Frames) /\ Len(a) = Len(u) + 2 /\ Len(u) \in Nat
      /\ \A i \in 1..Len(u) + 2 : a[i] = IF i <= Len(u) THEN u[i] ELSE <<x, y>>[i - Len(u)]
  BY <1>1, ConcatProperties
<1>3. b \in Seq(Frames) /\ Len(b) = Len(u) + 2
      /\ \A i \in 1..Len(u) + 2 : b[i] = IF i = Len(u) + 2 THEN y ELSE IF i = Len(u) + 1 THEN x ELSE u[i]
  OBVIOUS
<1> HIDE DEF a, b
<1>4. \A i \in 1..Len(a) : a[i] = b[i]
  <2> TAKE i \in 1..Len(a)
  <2>1. CASE i <= Len(u)
    BY <1>2, <1>3, <2>1
  <2>2. CASE i = Len(u) + 1
    <3>1. i - Len(u) = 1
      BY <1>2, <2>2
    <3> QED BY <1>1, <1>2, <1>3, <2>2, <3>1
  <2>3. CASE i = Len(u) + 2
    <3>1. i - Len(u) = 2
      BY <1>2, <2>3
    <3> QED BY <1>1, <1>2, <1>3, <2>3, <3>1
  <2> QED BY <1>2, <2>1, <2>2, <2>3
<1>5. a = b
  BY <1>2, <1>3, <1>4, SeqEqual
<1> QED BY <1>5 DEF a, b

\* What a write adds to its connection.
LEMMA WriteEffect ==
  ASSUME Typed, NEW p \in Clients, Writes(p)
  PROVE  \E u \in Seq(Frames) :
           /\ link' = [link EXCEPT ![conn[p]] = [@ EXCEPT !.up = u]]
           /\ at[p] \in {"send", "body"} /\ at'[p] \in {"wait", "body"} /\ req'[p] = req[p]
           /\ LET up == link[conn[p]].up IN
              \/ at[p] = "send" /\ at'[p] = "wait" /\ u = Append(Append(up, "header"), req[p])
              \/ at[p] = "send" /\ at'[p] = "body" /\ u = Append(up, "header")
              \/ at[p] = "body" /\ at'[p] = "wait" /\ u = Append(up, req[p])
<1> DEFINE up == link[conn[p]].up
<1>1. up \in Seq(Frames) /\ req[p] \in Frames /\ "header" \in Frames /\ conn[p] \in Conns
  BY DEF Writes, Typed, Links, Frames
<1>2. Append(up, "header") \in Seq(Frames) /\ Append(up, req[p]) \in Seq(Frames)
      /\ Append(Append(up, "header"), req[p]) \in Seq(Frames)
  BY <1>1
<1>3. CASE /\ at[p] = "send" /\ Goto(p, "wait", req[p])
           /\ link' = [link EXCEPT ![conn[p]].up = @ \o <<"header", req[p]>>]
  <2>1. up \o <<"header", req[p]>> = Append(Append(up, "header"), req[p])
    BY <1>1, ConcatTwo
  <2>2. link' = [link EXCEPT ![conn[p]] = [@ EXCEPT !.up = Append(Append(up, "header"), req[p])]]
    BY <1>3, <2>1
  <2>3. at'[p] = "wait" /\ req'[p] = req[p]
    BY <1>3 DEF Goto, Typed
  <2> QED BY <1>2, <1>3, <2>2, <2>3
<1>4. CASE /\ at[p] = "send" /\ Goto(p, "body", req[p])
           /\ link' = [link EXCEPT ![conn[p]].up = Append(@, "header")]
  <2>3. at'[p] = "body" /\ req'[p] = req[p]
    BY <1>4 DEF Goto, Typed
  <2>2. link' = [link EXCEPT ![conn[p]] = [@ EXCEPT !.up = Append(up, "header")]]
    BY <1>4
  <2> QED BY <1>2, <1>4, <2>2, <2>3
<1>5. CASE /\ at[p] = "body" /\ Goto(p, "wait", req[p])
           /\ link' = [link EXCEPT ![conn[p]].up = Append(@, req[p])]
  <2>3. at'[p] = "wait" /\ req'[p] = req[p]
    BY <1>5 DEF Goto, Typed
  <2>2. link' = [link EXCEPT ![conn[p]] = [@ EXCEPT !.up = Append(up, req[p])]]
    BY <1>5
  <2> QED BY <1>2, <1>5, <2>2, <2>3
<1> QED BY <1>3, <1>4, <1>5 DEF Writes

LEMMA Headed ==
  ASSUME NEW m \in Msg, NEW t \in Seq(Msg)
  PROVE  LET e == <<m>> \o t IN
         /\ e \in Seq(Msg) /\ e # <<>> /\ Len(e) = Len(t) + 1 /\ Len(t) \in Nat
         /\ \A i \in 1..Len(t) : i + 1 \in 1..Len(e) /\ e[i + 1] = t[i]
<1> DEFINE h == <<m>>
           e == h \o t
<1>1. h \in Seq(Msg) /\ Len(h) = 1 /\ Len(t) \in Nat
  OBVIOUS
<1> HIDE DEF h
<1>2. e \in Seq(Msg) /\ Len(e) = 1 + Len(t) /\ \A i \in 1..1 + Len(t) : e[i] = IF i <= 1 THEN h[i] ELSE t[i - 1]
  BY <1>1, ConcatProperties
<1> HIDE DEF e
<1>3. ASSUME NEW i \in 1..Len(t) PROVE i + 1 \in 1..Len(e) /\ e[i + 1] = t[i]
  <2>1. i + 1 \in 1..1 + Len(t) /\ ~(i + 1 <= 1) /\ (i + 1) - 1 = i
    BY <1>1
  <2> QED BY <1>2, <2>1
<1>4. e # <<>> /\ Len(e) = Len(t) + 1
  BY <1>1, <1>2
<1>5. /\ e \in Seq(Msg) /\ e # <<>> /\ Len(e) = Len(t) + 1 /\ Len(t) \in Nat
      /\ \A i \in 1..Len(t) : i + 1 \in 1..Len(e) /\ e[i + 1] = t[i]
  BY <1>1, <1>2, <1>3, <1>4
<1> QED BY <1>5 DEF e, h

\* Reading the head of a subscriber's messages keeps its tally.
LEMMA TakenTally ==
  ASSUME Typed, NEW c \in Conns, Tally(c), link[c].down # <<>>,
         link'[c] = Taken(link[c]), UNCHANGED server
  PROVE  Tally(c)'
<1> DEFINE l == link[c]
           e == EventsIn(l.down)
           k == Taken(l)
           e2 == EventsIn(k.down)
<1>1. l \in Links /\ l.down \in Seq(Msg) /\ l.from \in Nat /\ l.read \in Nat
  BY DEF Typed, Links
<1>2. k.down = Tail(l.down) /\ k.from = l.from /\ Head(l.down) \in Msg /\ Tail(l.down) \in Seq(Msg)
      /\ k.read = IF Head(l.down).kind = "event" THEN l.read + 1 ELSE l.read
  BY <1>1, TakenProperties DEF Links
<1>3. e = IF Head(l.down).kind = "event" THEN <<Head(l.down)>> \o e2 ELSE e2
  BY <1>1, <1>2, EventsInHead
<1>4. e \in Seq(Msg) /\ e2 \in Seq(Msg)
  BY <1>1, <1>2, EventsInType
<1>5. Owed(c)' = Owed(c) /\ Len(log') = Len(log) /\ log' = log
  BY DEF Owed, server
<1>6. l.from + l.read + Len(e) + Owed(c) = Len(log) /\ \A i \in 1..Len(e) : e[i].val = log[l.from + l.read + i]
  BY DEF Tally
<1>7. Owed(c) \in Nat /\ Len(log) \in Nat
  BY DEF Owed, Typed
<1>8. Tally(c)' <=> /\ k.from + k.read + Len(e2) + Owed(c) = Len(log)
                    /\ \A i \in 1..Len(e2) : e2[i].val = log[k.from + k.read + i]
  BY <1>5 DEF Tally
<1> HIDE DEF l, e, k, e2
<1>9. CASE Head(l.down).kind = "event"
  <2>1. Len(e) = Len(e2) + 1 /\ Len(e2) \in Nat /\ \A i \in 1..Len(e2) : i + 1 \in 1..Len(e) /\ e[i + 1] = e2[i]
    <3>1. Head(l.down) \in Msg /\ e2 \in Seq(Msg) /\ e = <<Head(l.down)>> \o e2
      BY <1>2, <1>3, <1>4, <1>9
    <3> QED BY <3>1, Headed
  <2>2. k.read = l.read + 1
    BY <1>2, <1>9
  <2>3. \A i \in 1..Len(e2) : e2[i].val = log[k.from + k.read + i]
    <3> TAKE i \in 1..Len(e2)
    <3>0. i \in Nat /\ l.from \in Nat /\ l.read \in Nat /\ k.from = l.from
      BY <1>1, <1>2, <2>1
    <3>1. i + 1 \in 1..Len(e)
      BY <2>1
    <3>2. k.from + k.read + i = l.from + l.read + (i + 1)
      <4>1. \A a, b, n \in Nat : a + (b + 1) + n = a + b + (n + 1)
        OBVIOUS
      <4> QED BY SMTT(40), <2>2, <3>0, <4>1
    <3> QED BY <1>6, <2>1, <3>1, <3>2
  <2>4. k.from + k.read + Len(e2) + Owed(c) = Len(log)
    <3>1. \A a, b, n, o \in Nat : a + (b + 1) + n + o = a + b + (n + 1) + o
      OBVIOUS
    <3>2. l.from \in Nat /\ l.read \in Nat /\ Len(e2) \in Nat /\ Owed(c) \in Nat /\ k.from = l.from
      BY <1>1, <1>2, <1>7, <2>1
    <3> QED BY SMTT(40), <1>6, <2>1, <2>2, <3>1, <3>2
  <2> QED BY <1>8, <2>3, <2>4
<1>10. CASE Head(l.down).kind # "event"
  BY <1>2, <1>3, <1>6, <1>8, <1>10
<1> QED BY <1>9, <1>10

LEMMA StepLinks ==
  ASSUME Typed, OwnInv, ReqInv, NEW p \in Clients, Step(p),
         \A c \in Conns : LinkInv(c), \A s \in Streams : StreamInv(s)
  PROVE  \A c \in Conns : LinkInv(c)'
<1> SUFFICES ASSUME NEW c \in Conns PROVE LinkInv(c)'
  OBVIOUS
<1>0. UNCHANGED server /\ LinkInv(c)
  BY StepSteady
<1>1. CASE link'[c] = link[c]
  BY <1>0, <1>1 DEF LinkInv, Tally, Owed, server
<1>2. CASE conn[p] = c /\ Leaves(p)
  <2>1. link'[c] = HangNear(link[c])
    BY <1>2 DEF Leaves, Leave, Typed
  <2>2. ~link'[c].near
    BY <2>1, HangProperties DEF Typed
  <2> QED BY <2>2 DEF LinkInv
<1>3. CASE conn[p] = c /\ Writes(p)
  <2> DEFINE l == link[c]
  <2>1. PICK u \in Seq(Frames) :
           /\ link' = [link EXCEPT ![conn[p]] = [@ EXCEPT !.up = u]]
           /\ at[p] \in {"send", "body"} /\ at'[p] \in {"wait", "body"} /\ req'[p] = req[p]
           /\ LET up == link[conn[p]].up IN
              \/ at[p] = "send" /\ at'[p] = "wait" /\ u = Append(Append(up, "header"), req[p])
              \/ at[p] = "send" /\ at'[p] = "body" /\ u = Append(up, "header")
              \/ at[p] = "body" /\ at'[p] = "wait" /\ u = Append(up, req[p])
    BY <1>3, WriteEffect
  <2>2. l \in Links /\ link'[c] = [l EXCEPT !.up = u] /\ l.up \in Seq(Frames) /\ req[p] \in Frames /\ "header" \in Frames
    BY <1>3, <2>1 DEF Typed, Links, Frames
  <2>3. /\ link'[c].up = u /\ link'[c].near = l.near /\ link'[c].far = l.far /\ link'[c].sub = l.sub
        /\ link'[c].down = l.down /\ link'[c].from = l.from /\ link'[c].read = l.read
    BY <2>2, WithParts
  <2>4. l.far /\ l.near /\ conn[p] # 0
    BY <1>3 DEF Writes, OwnInv, Mine
  <2>5. req[p] = "subscribe" => ~l.sub /\ ~Has(l.up, "subscribe")
    <3>1. req[p] = "subscribe" => p \in Streams
      BY DEF ReqInv
    <3> QED BY <1>3, <2>1, <2>4, <3>1 DEF StreamInv, StreamOk, NotSubscribed
  <2>6. /\ Has(u, "subscribe") => (Has(l.up, "subscribe") \/ req[p] = "subscribe")
        /\ \A i, j \in 1..Len(u) : u[i] = "subscribe" /\ u[j] = "subscribe" => i = j
    <3>1. \A i, j \in 1..Len(l.up) : l.up[i] = "subscribe" /\ l.up[j] = "subscribe" => i = j
      BY <1>0, <2>4 DEF LinkInv
    <3> DEFINE h == Append(l.up, "header")
    <3>2. h \in Seq(Frames) /\ Len(h) = Len(l.up) + 1 /\ Len(l.up) \in Nat
          /\ (\A i \in 1..Len(h) : h[i] = IF i = Len(l.up) + 1 THEN "header" ELSE l.up[i])
          /\ \A y : Has(h, y) <=> (Has(l.up, y) \/ "header" = y)
      BY <2>2, AppendParts
    <3> HIDE DEF h
    <3>3. \A i, j \in 1..Len(h) : h[i] = "subscribe" /\ h[j] = "subscribe" => i = j
      <4>1. \A i \in 1..Len(h) : h[i] = "subscribe" => i \in 1..Len(l.up) /\ l.up[i] = "subscribe"
        <5> TAKE i \in 1..Len(h)
        <5>1. i = Len(l.up) + 1 \/ i \in 1..Len(l.up)
          BY <3>2
        <5> QED BY <3>2, <5>1
      <4> QED BY <3>1, <4>1
    <3>4. ASSUME NEW w \in Seq(Frames), u = Append(w, req[p]),
                 Has(w, "subscribe") <=> Has(l.up, "subscribe"),
                 \A i, j \in 1..Len(w) : w[i] = "subscribe" /\ w[j] = "subscribe" => i = j
          PROVE  /\ Has(u, "subscribe") => (Has(l.up, "subscribe") \/ req[p] = "subscribe")
                 /\ \A i, j \in 1..Len(u) : u[i] = "subscribe" /\ u[j] = "subscribe" => i = j
      <4>1. /\ Len(u) = Len(w) + 1 /\ Len(w) \in Nat
            /\ \A i \in 1..Len(u) : u[i] = IF i = Len(w) + 1 THEN req[p] ELSE w[i]
            /\ Has(u, "subscribe") <=> (Has(w, "subscribe") \/ req[p] = "subscribe")
        BY <2>2, <3>4, AppendParts
      <4>2. CASE req[p] = "subscribe"
        <5>1. \A i \in 1..Len(w) : w[i] # "subscribe"
          BY <2>5, <3>4, <4>2 DEF Has
        <5>2. \A i \in 1..Len(u) : u[i] = "subscribe" => i = Len(w) + 1
          BY <4>1, <5>1
        <5> QED BY <4>1, <4>2, <5>2
      <4>3. CASE req[p] # "subscribe"
        BY <3>4, <4>1, <4>3
      <4> QED BY <4>2, <4>3
    <3>5. CASE u = h
      BY <3>2, <3>3, <3>5
    <3>6. CASE u = Append(h, req[p])
      BY <3>2, <3>3, <3>4, <3>6
    <3>7. CASE u = Append(l.up, req[p])
      BY <2>2, <3>1, <3>4, <3>7
    <3> QED BY <1>3, <2>1, <3>5, <3>6, <3>7 DEF h
  <2> HIDE DEF l
  <2>7. Tally(c)' <=> Tally(c)
    BY <1>0, <2>3 DEF Tally, Owed, server, l
  <2>8. /\ ~l.sub => EventsIn(l.down) = <<>>
        /\ l.sub => Tally(c) /\ ~Has(l.up, "subscribe")
    BY <1>0, <2>4 DEF LinkInv, l
  <2> QED BY <2>3, <2>5, <2>6, <2>7, <2>8 DEF LinkInv
<1>4. CASE conn[p] = c /\ Takes(p)
  <2> DEFINE l == link[c]
  <2>1. link'[c] = Taken(l) /\ l.down # <<>> /\ l \in Links
    BY <1>4 DEF Takes, Typed, Mine
  <2>2. /\ Taken(l).down = Tail(l.down) /\ Taken(l).near = l.near /\ Taken(l).far = l.far
        /\ Taken(l).sub = l.sub /\ Taken(l).up = l.up
    BY <2>1, TakenProperties
  <2>3. Tally(c) => Tally(c)'
    BY <1>0, <2>1, TakenTally
  <2>4. EventsIn(l.down) = <<>> => EventsIn(Tail(l.down)) = <<>>
    <3>1. l.down \in Seq(Msg) /\ Tail(l.down) \in Seq(Msg) /\ Head(l.down) \in Msg
      BY <2>1 DEF Links
    <3>2. EventsIn(l.down) = IF Head(l.down).kind = "event" THEN <<Head(l.down)>> \o EventsIn(Tail(l.down))
                             ELSE EventsIn(Tail(l.down))
      BY <2>1, <3>1, EventsInHead
    <3>3. EventsIn(Tail(l.down)) \in Seq(Msg)
      <4> HIDE DEF l
      <4> QED BY <3>1, EventsInType
    <3>4. <<Head(l.down)>> \o EventsIn(Tail(l.down)) # <<>>
      <4> HIDE DEF l
      <4> QED BY <3>1, <3>3, Headed
    <3> QED BY <3>2, <3>4
  <2> QED BY <1>0, <2>1, <2>2, <2>3, <2>4 DEF LinkInv
<1> QED BY <1>1, <1>2, <1>3, <1>4 DEF Step, Proceeds, Proceed, Asks, Leaves, Leave, Writes, Takes, Typed

LEMMA ConnectLinks ==
  ASSUME Typed, LoopInv, OwnInv, NEW p \in Clients, Connect(p), faults' \in Nat,
         \A c \in Conns : LinkInv(c)
  PROVE  \A c \in Conns : LinkInv(c)'
<1> SUFFICES ASSUME NEW c \in Conns PROVE LinkInv(c)'
  OBVIOUS
<1>1. /\ conn'[p] \in Conns /\ link'[conn'[p]] = Opened
      /\ link' = [link EXCEPT ![conn'[p]] = Opened]
  BY ConnectStep
<1>2. CASE c = conn'[p]
  <2>1. Opened.down = <<>> /\ Opened.up = <<>> /\ ~Opened.sub /\ Len(<<>>) = 0
    BY DEF Opened, Unused
  <2>2. link'[c] = Opened
    BY <1>1, <1>2
  <2> QED BY <2>1, <2>2, EventsInEmpty DEF LinkInv
<1>3. CASE c # conn'[p]
  <2>1. link'[c] = link[c]
    BY <1>1, <1>3 DEF Typed
  <2>2. UNCHANGED <<pc, sweep, pending, log>>
    BY DEF Connect
  <2> QED BY <2>1, <2>2 DEF LinkInv, Tally, Owed
<1> QED BY <1>2, <1>3

LEMMA TailMsgs ==
  ASSUME NEW d \in Seq(Msg), d # <<>>
  PROVE  /\ Tail(d) \in Seq(Msg) /\ Len(d) \in Nat /\ Len(Tail(d)) = Len(d) - 1 /\ Head(d) = d[1] /\ Head(d) \in Msg
         /\ 1 \in 1..Len(d)
         /\ \A i \in 1..Len(Tail(d)) : i + 1 \in 1..Len(d) /\ Tail(d)[i] = d[i + 1]
         /\ \A k : HasKind(Tail(d), k) => HasKind(d, k)
<1>1. Tail(d) \in Seq(Msg) /\ Len(d) \in Nat /\ Len(d) # 0 /\ Len(Tail(d)) = Len(d) - 1 /\ Head(d) = d[1] /\ Head(d) \in Msg
      /\ \A i \in 1..Len(Tail(d)) : Tail(d)[i] = d[i + 1]
  BY HeadTailProperties
<1>2. \A i \in 1..Len(Tail(d)) : i + 1 \in 1..Len(d)
  BY <1>1
<1>3. 1 \in 1..Len(d)
  BY <1>1
<1> QED BY <1>1, <1>2, <1>3 DEF HasKind

\* The step of a client leaves the streams of the others as they were.
LEMMA OtherStreams ==
  ASSUME NEW s \in Streams, StreamInv(s), HeardInv(s),
         at'[s] = at[s], req'[s] = req[s], conn'[s] = conn[s], snapped'[s] = snapped[s], view'[s] = view[s],
         conn[s] # 0 => link'[conn[s]] = link[conn[s]],
         UNCHANGED <<pc, pending, sweep, mode, log>>
  PROVE  StreamInv(s)' /\ HeardInv(s)'
<1>1. Due(conn[s])' = Due(conn[s])
  BY DEF Due
<1>2. StreamInv(s)'
  <2> SUFFICES ASSUME conn[s] # 0, link[conn[s]].far PROVE StreamInv(s)'
    BY DEF StreamInv
  <2>1. link'[conn'[s]] = link[conn[s]]
    OBVIOUS
  <2> QED BY <2>1 DEF StreamInv
<1>3. HeardInv(s)'
  <2> SUFFICES ASSUME conn[s] # 0, link[conn[s]].far PROVE HeardInv(s)'
    BY DEF HeardInv
  <2>1. link'[conn'[s]] = link[conn[s]] /\ Due(conn[s])' = Due(conn[s])
    BY <1>1
  <2> QED BY <2>1 DEF HeardInv
<1> QED BY <1>2, <1>3

LEMMA ConnectStream ==
  ASSUME Typed, LoopInv, OwnInv, NEW s \in Streams, Connect(s), faults' \in Nat
  PROVE  StreamInv(s)' /\ HeardInv(s)'
<1>0. s \in Clients
  BY DEF Clients
<1>1. /\ link'[conn'[s]] = Opened /\ at'[s] = "send" /\ req'[s] = "hello" /\ ~snapped'[s]
  BY <1>0, ConnectStep
<1>2. Opened.up = <<>> /\ Opened.down = <<>> /\ ~Opened.sub
  BY DEF Opened, Unused
<1>3. Len(<<>>) = 0 /\ 0 % 2 = 0
  OBVIOUS
<1>4. StreamOk(<<>>, <<>>, FALSE, "send", "hello")
  BY <1>3 DEF StreamOk, NotSubscribed, StatusAsked, Has, HasKind, Alternates, LastStatus
<1>6. StreamInv(s)'
  BY <1>1, <1>2, <1>4 DEF StreamInv, Opened, Unused
<1>5. HeardInv(s)'
  BY <1>1, <1>2, <1>3 DEF HeardInv
<1> QED BY <1>5, <1>6

LEMMA ProceedStream ==
  ASSUME Typed, OwnInv, NEW s \in Streams, Proceeds(s), StreamInv(s), HeardInv(s)
  PROVE  StreamInv(s)' /\ HeardInv(s)'
<1>0. s \in Clients
  BY DEF Clients
<1>1. UNCHANGED <<link, conn, server, snapped, view>> /\ conn[s] # 0 /\ at[s] \in {"send", "body", "wait"}
      /\ (at[s] # "wait" => ~link[conn[s]].far) /\ req[s] # "subscribe"
  BY <1>0 DEF Proceeds, Proceed, GivesUp, Mine
<1> SUFFICES ASSUME link[conn[s]].far PROVE StreamInv(s)' /\ HeardInv(s)'
  BY <1>1 DEF StreamInv, HeardInv
<1>2. at[s] = "wait" /\ req[s] \in {"hello", "status"} /\ ~snapped[s]
  BY <1>1 DEF StreamInv, StreamOk, HeardInv
<1>3. \/ req[s] = "status" /\ at'[s] = "listen" /\ req'[s] = "hello"
      \/ req[s] = "hello" /\ at'[s] = "send" /\ req'[s] = "subscribe"
  BY <1>0, <1>2 DEF Proceeds, Proceed, NextRequest, Goto, Typed
<1>4. StreamInv(s)'
  BY <1>1, <1>2, <1>3 DEF StreamInv, StreamOk, NotSubscribed, StatusAsked
<1>5. Due(conn[s])' = Due(conn[s]) /\ mode' = mode /\ log' = log
  BY <1>1 DEF Due, server
<1>6. HeardInv(s)'
  BY <1>1, <1>2, <1>5 DEF HeardInv
<1> QED BY <1>4, <1>6

LEMMA Odd == \A n \in Nat : (n % 2 = 1 <=> (n + 1) % 2 = 0) /\ (n % 2 = 0 <=> (n + 1) % 2 = 1)
OBVIOUS

LEMMA AppendHeader ==
  ASSUME NEW u \in Seq(Frames), Alternates(u), Len(u) % 2 = 0, ~Has(u, "status")
  PROVE  LET v == Append(u, "header") IN
         /\ v \in Seq(Frames) /\ Alternates(v) /\ Len(v) % 2 = 1 /\ ~Has(v, "status") /\ LastStatus(v)
         /\ Has(v, "subscribe") => Has(u, "subscribe")
<1> DEFINE v == Append(u, "header")
<1>1. "header" \in Frames
  BY DEF Frames
<1>2. /\ v \in Seq(Frames) /\ Len(v) = Len(u) + 1 /\ Len(u) \in Nat
      /\ \A i \in 1..Len(v) : v[i] = IF i = Len(u) + 1 THEN "header" ELSE u[i]
      /\ \A y : Has(v, y) <=> (Has(u, y) \/ "header" = y)
  BY <1>1, AppendParts
<1> HIDE DEF v
<1>3. Len(v) % 2 = 1
  BY <1>2, Odd
<1>4. ~Has(v, "status") /\ (Has(v, "subscribe") => Has(u, "subscribe"))
  BY <1>2
<1>5. Alternates(v)
  <2> SUFFICES ASSUME NEW i \in 1..Len(v)
               PROVE v[i] \in {"header", "hello", "subscribe", "status"} /\ (v[i] = "header" <=> i % 2 = 1)
    BY DEF Alternates
  <2>1. CASE i = Len(u) + 1
    BY <1>2, <1>3, <2>1
  <2>2. CASE i # Len(u) + 1
    <3>1. i \in 1..Len(u) /\ v[i] = u[i]
      BY <1>2, <2>2
    <3> QED BY <3>1 DEF Alternates
  <2> QED BY <2>1, <2>2
<1>6. LastStatus(v)
  BY <1>4 DEF LastStatus, Has
<1> QED BY <1>2, <1>3, <1>4, <1>5, <1>6 DEF v

LEMMA AppendBody ==
  ASSUME NEW u \in Seq(Frames), Alternates(u), Len(u) % 2 = 1, ~Has(u, "status"),
         NEW r \in {"hello", "subscribe", "status"}
  PROVE  LET v == Append(u, r) IN
         /\ v \in Seq(Frames) /\ Alternates(v) /\ Len(v) % 2 = 0 /\ LastStatus(v)
         /\ \A y : Has(v, y) => (Has(u, y) \/ y = r)
<1> DEFINE v == Append(u, r)
<1>1. r \in Frames /\ r # "header"
  BY DEF Frames
<1>2. /\ v \in Seq(Frames) /\ Len(v) = Len(u) + 1 /\ Len(u) \in Nat
      /\ \A i \in 1..Len(v) : v[i] = IF i = Len(u) + 1 THEN r ELSE u[i]
      /\ \A y : Has(v, y) <=> (Has(u, y) \/ r = y)
  BY <1>1, AppendParts
<1> HIDE DEF v
<1>3. Len(v) % 2 = 0
  BY <1>2, Odd
<1>5. Alternates(v)
  <2> SUFFICES ASSUME NEW i \in 1..Len(v)
               PROVE v[i] \in {"header", "hello", "subscribe", "status"} /\ (v[i] = "header" <=> i % 2 = 1)
    BY DEF Alternates
  <2>1. CASE i = Len(u) + 1
    BY <1>1, <1>2, <1>3, <2>1
  <2>2. CASE i # Len(u) + 1
    <3>1. i \in 1..Len(u) /\ v[i] = u[i]
      BY <1>2, <2>2
    <3> QED BY <3>1 DEF Alternates
  <2> QED BY <2>1, <2>2
<1>6. LastStatus(v)
  <2> SUFFICES ASSUME NEW i \in 1..Len(v), v[i] = "status", i # Len(v) PROVE FALSE
    BY DEF LastStatus
  <2>1. i \in 1..Len(u) /\ u[i] = "status"
    BY <1>2
  <2> QED BY <2>1 DEF Has
<1>7. \A y : Has(v, y) => (Has(u, y) \/ y = r)
  BY <1>2
<1>8. /\ v \in Seq(Frames) /\ Alternates(v) /\ Len(v) % 2 = 0 /\ LastStatus(v)
      /\ \A y : Has(v, y) => (Has(u, y) \/ y = r)
  BY <1>2, <1>3, <1>5, <1>6, <1>7
<1> QED BY <1>8 DEF v

LEMMA WriteStream ==
  ASSUME Typed, OwnInv, NEW s \in Streams, Writes(s), StreamInv(s), HeardInv(s)
  PROVE  StreamInv(s)' /\ HeardInv(s)'
<1>0. s \in Clients
  BY DEF Clients
<1> DEFINE l == link[conn[s]]
<1>1. PICK u \in Seq(Frames) :
           /\ link' = [link EXCEPT ![conn[s]] = [@ EXCEPT !.up = u]]
           /\ at[s] \in {"send", "body"} /\ at'[s] \in {"wait", "body"} /\ req'[s] = req[s]
           /\ LET up == link[conn[s]].up IN
              \/ at[s] = "send" /\ at'[s] = "wait" /\ u = Append(Append(up, "header"), req[s])
              \/ at[s] = "send" /\ at'[s] = "body" /\ u = Append(up, "header")
              \/ at[s] = "body" /\ at'[s] = "wait" /\ u = Append(up, req[s])
  BY <1>0, WriteEffect
<1>2. conn[s] # 0 /\ l.far /\ conn' = conn /\ snapped' = snapped /\ conn[s] \in Conns /\ l \in Links /\ l.up \in Seq(Frames)
  BY <1>0 DEF Writes, Mine, Typed, Links
<1>3. link'[conn[s]] = [l EXCEPT !.up = u]
  BY <1>1, <1>2 DEF Typed
<1>4. /\ link'[conn'[s]].up = u /\ link'[conn'[s]].sub = l.sub /\ link'[conn'[s]].down = l.down
  BY <1>2, <1>3, WithParts
<1> DEFINE up == l.up
           r == req[s]
<1>5. /\ at[s] # "ready" /\ r \in {"hello", "subscribe", "status"}
      /\ Alternates(up)
      /\ at[s] = "body" <=> Len(up) % 2 = 1
      /\ NotSubscribed(at[s], r) => ~l.sub /\ ~Has(up, "subscribe")
      /\ HasKind(l.down, "ok") => l.sub
      /\ r = "status" => l.sub
      /\ ~Has(up, "status") /\ ~HasKind(l.down, "status")
  BY <1>1, <1>2 DEF StreamInv, StreamOk, StatusAsked
<1>6. Len(up) \in Nat /\ (Len(up) % 2 = 1 \/ Len(up) % 2 = 0)
  <2>1. Len(up) \in Nat
    BY <1>2
  <2>2. \A n \in Nat : n % 2 = 1 \/ n % 2 = 0
    OBVIOUS
  <2> QED BY <2>1, <2>2
<1>7. /\ Alternates(u) /\ LastStatus(u)
      /\ at'[s] = "body" <=> Len(u) % 2 = 1
      /\ Has(u, "subscribe") => Has(up, "subscribe") \/ (r = "subscribe" /\ at'[s] = "wait")
      /\ Has(u, "status") => r = "status" /\ at'[s] = "wait"
  <2> HIDE DEF l, up, r
  <2>1. CASE at[s] = "send" /\ at'[s] = "wait" /\ u = Append(Append(up, "header"), r)
    <3> DEFINE h == Append(up, "header")
    <3>1. h \in Seq(Frames) /\ Alternates(h) /\ Len(h) % 2 = 1 /\ ~Has(h, "status")
          /\ (Has(h, "subscribe") => Has(up, "subscribe"))
      BY <1>2, <1>5, <1>6, <2>1, AppendHeader DEF up
    <3> HIDE DEF h
    <3>2. /\ Alternates(u) /\ Len(u) % 2 = 0 /\ LastStatus(u)
          /\ \A y : Has(u, y) => (Has(h, y) \/ y = r)
      BY <1>5, <2>1, <3>1, AppendBody DEF h
    <3> QED BY <2>1, <3>1, <3>2
  <2>2. CASE at[s] = "send" /\ at'[s] = "body" /\ u = Append(up, "header")
    BY <1>2, <1>5, <1>6, <2>2, AppendHeader DEF up
  <2>3. CASE at[s] = "body" /\ at'[s] = "wait" /\ u = Append(up, r)
    <3>1. /\ Alternates(u) /\ Len(u) % 2 = 0 /\ LastStatus(u)
          /\ \A y : Has(u, y) => (Has(up, y) \/ y = r)
      BY <1>2, <1>5, <2>3, AppendBody DEF up
    <3> QED BY <1>5, <2>3, <3>1
  <2> QED BY <1>1, <2>1, <2>2, <2>3 DEF l, up, r
<1> HIDE DEF l, up
<1>8. NotSubscribed(at'[s], r) => NotSubscribed(at[s], r) /\ ~(r = "subscribe" /\ at'[s] = "wait")
  BY <1>1 DEF NotSubscribed
<1>9. ~StatusAsked(at'[s], r) => ~(r = "status" /\ at'[s] = "wait")
  BY DEF StatusAsked
<1>10. StreamOk(u, l.down, l.sub, at'[s], r)
  BY <1>1, <1>5, <1>7, <1>8, <1>9 DEF StreamOk
<1>11. StreamInv(s)'
  BY <1>1, <1>4, <1>10 DEF StreamInv
<1>12. ~snapped'[s]
  BY <1>1, <1>2 DEF HeardInv, l
<1>13. HeardInv(s)'
  BY <1>2, <1>4, <1>5, <1>12 DEF HeardInv, HasKind
<1> QED BY <1>11, <1>13

LEMMA SubKinds ==
  ASSUME NEW u, NEW d, NEW e, NEW sub, NEW a, NEW r, StreamOk(u, d, sub, a, r),
         \A k : HasKind(e, k) => HasKind(d, k)
  PROVE  StreamOk(u, e, sub, a, r)
BY DEF StreamOk

LEMMA TakeStream ==
  ASSUME Typed, OwnInv, NEW s \in Streams, Takes(s), StreamInv(s), HeardInv(s),
         \A c \in Conns : LinkInv(c)
  PROVE  StreamInv(s)' /\ HeardInv(s)'
<1>0. s \in Clients /\ s \notin Panels
  BY IpcAssumption DEF Clients
<1> DEFINE l == link[conn[s]]
           d == l.down
           m == Head(d)
           t == Tail(d)
<1>1. conn[s] # 0 /\ conn' = conn /\ UNCHANGED server /\ conn[s] \in Conns /\ l \in Links /\ d # <<>>
      /\ link'[conn[s]] = Taken(l) /\ d \in Seq(Msg) /\ m \in Msg /\ m.val \in Nat
  <2>1. conn[s] # 0 /\ conn' = conn /\ UNCHANGED server /\ conn[s] \in Conns /\ l \in Links /\ d # <<>>
    BY <1>0 DEF Takes, Typed, Mine
  <2>2. link'[conn[s]] = Taken(l)
    BY <2>1 DEF Takes, Typed
  <2>3. d \in Seq(Msg)
    BY <2>1 DEF Links
  <2>4. m \in Msg
    <3> HIDE DEF d
    <3> QED BY <2>1, <2>3
  <2>5. m.val \in Nat
    <3> HIDE DEF m
    <3> QED BY <2>4 DEF Msg
  <2> QED BY <2>1, <2>2, <2>3, <2>4, <2>5
<1>2. /\ link'[conn'[s]].down = t /\ link'[conn'[s]].sub = l.sub /\ link'[conn'[s]].up = l.up
      /\ link'[conn'[s]].far = l.far
  BY <1>1, TakenProperties
<1> SUFFICES ASSUME l.far PROVE StreamInv(s)' /\ HeardInv(s)'
  BY <1>2 DEF StreamInv, HeardInv
<1>3. StreamOk(l.up, d, l.sub, at[s], req[s]) /\ (at[s] = "listen" \/ req[s] = "status" => l.sub)
  BY <1>1 DEF StreamInv, StreamOk
<1>4. Due(conn[s])' = Due(conn[s]) /\ mode' = mode /\ log' = log
  BY <1>1 DEF Due, server
<1>5. /\ \A i \in 1..Len(d) : d[i].kind = "status" =>
           /\ l.up = <<>> /\ \A j \in i + 1..Len(d) : d[j].kind = "event"
           /\ i = Len(d) /\ ~Due(conn[s]) => d[i].val = mode
      /\ snapped[s] => at[s] = "listen" /\ l.up = <<>> /\ \A i \in 1..Len(d) : d[i].kind = "event"
  BY <1>1 DEF HeardInv
<1>6. m = Head(Mine(s).down)
  BY DEF Mine
<1> HIDE DEF l, d
<1>7. /\ t \in Seq(Msg) /\ Len(d) \in Nat /\ Len(t) = Len(d) - 1 /\ m = d[1] /\ 1 \in 1..Len(d)
      /\ \A i \in 1..Len(t) : i + 1 \in 1..Len(d) /\ t[i] = d[i + 1]
      /\ \A k : HasKind(t, k) => HasKind(d, k)
  BY <1>1, TailMsgs
<1> HIDE DEF t, m
<1>8. StreamOk(l.up, t, l.sub, at[s], req[s])
  BY <1>3, <1>7, SubKinds
<1>9. \A i \in 1..Len(t) : t[i].kind = "status" =>
           /\ l.up = <<>> /\ \A j \in i + 1..Len(t) : t[j].kind = "event"
           /\ i = Len(t) /\ ~Due(conn[s]) => t[i].val = mode
  <2> SUFFICES ASSUME NEW i \in 1..Len(t), t[i].kind = "status"
               PROVE  /\ l.up = <<>> /\ \A j \in i + 1..Len(t) : t[j].kind = "event"
                      /\ i = Len(t) /\ ~Due(conn[s]) => t[i].val = mode
    OBVIOUS
  <2>1. i + 1 \in 1..Len(d) /\ d[i + 1].kind = "status" /\ t[i] = d[i + 1]
    BY <1>7
  <2>2. \A j \in i + 1..Len(t) : t[j].kind = "event"
    <3> TAKE j \in i + 1..Len(t)
    <3>1. j + 1 \in (i + 1) + 1..Len(d) /\ j \in 1..Len(t)
      BY <1>7
    <3> QED BY <1>5, <1>7, <2>1, <3>1
  <2>3. i = Len(t) => i + 1 = Len(d)
    BY <1>7
  <2> QED BY <1>5, <2>1, <2>2, <2>3
<1>10. CASE at[s] = "wait" /\ req[s] = "status" /\ Goto(s, "listen", "hello")
            /\ snapped' = [snapped EXCEPT ![s] = m.kind = "status"]
            /\ view' = IF m.kind = "status" THEN [view EXCEPT ![s] = m.val] ELSE view
  <2>1. at'[s] = "listen" /\ req'[s] = "hello" /\ (snapped'[s] <=> m.kind = "status")
        /\ (m.kind = "status" => view'[s] = m.val)
    BY <1>0, <1>10 DEF Goto, Typed
  <2>2. StreamOk(l.up, t, l.sub, "listen", "hello")
    BY <1>8, <1>10 DEF StreamOk, NotSubscribed, StatusAsked
  <2>3. StreamInv(s)'
    BY <1>2, <2>1, <2>2 DEF StreamInv
  <2>4. m.kind = "status" => /\ l.up = <<>> /\ \A i \in 1..Len(t) : t[i].kind = "event"
                             /\ t = <<>> /\ ~Due(conn[s]) => m.val = mode
    <3> SUFFICES ASSUME m.kind = "status"
                 PROVE  /\ l.up = <<>> /\ \A i \in 1..Len(t) : t[i].kind = "event"
                        /\ t = <<>> /\ ~Due(conn[s]) => m.val = mode
      OBVIOUS
    <3>1. /\ l.up = <<>> /\ \A j \in 1 + 1..Len(d) : d[j].kind = "event"
          /\ 1 = Len(d) /\ ~Due(conn[s]) => d[1].val = mode
      BY <1>5, <1>7
    <3>2. \A i \in 1..Len(t) : i + 1 \in 1 + 1..Len(d)
      BY <1>7
    <3>3. t = <<>> => Len(d) = 1
      BY <1>7
    <3> QED BY <1>7, <3>1, <3>2, <3>3
  <2>5. HeardInv(s)'
    BY <1>1, <1>2, <1>4, <1>9, <2>1, <2>4 DEF HeardInv
  <2> QED BY <2>3, <2>5
<1>11. CASE at[s] = "wait" /\ req[s] \in {"hello", "subscribe"}
            /\ (req[s] = "subscribe" => m.kind = "ok")
            /\ (\E r \in NextRequest(s) : Goto(s, "send", r))
            /\ UNCHANGED <<snapped, view>>
  <2>1. at'[s] = "send" /\ req'[s] = IF req[s] = "hello" THEN "subscribe" ELSE "status"
    BY <1>0, <1>11 DEF Goto, Typed, NextRequest
  <2>2. req[s] = "subscribe" => l.sub
    BY <1>3, <1>7, <1>11 DEF StreamOk, HasKind
  <2>3. StreamOk(l.up, t, l.sub, at'[s], req'[s])
    BY <1>8, <1>11, <2>1, <2>2 DEF StreamOk, NotSubscribed, StatusAsked
  <2>4. StreamInv(s)'
    BY <1>2, <2>3 DEF StreamInv
  <2>5. ~snapped'[s]
    BY <1>5, <1>11
  <2>6. HeardInv(s)'
    BY <1>1, <1>2, <1>4, <1>9, <2>5 DEF HeardInv
  <2> QED BY <2>4, <2>6
<1>12. CASE at[s] = "listen" /\ UNCHANGED <<at, req, snapped>>
            /\ view' = IF m.kind = "event" THEN [view EXCEPT ![s] = m.val] ELSE view
  <2>1. StreamInv(s)'
    BY <1>2, <1>8, <1>12 DEF StreamInv
  <2>2. snapped[s] => m.kind = "event" /\ \A i \in 1..Len(t) : t[i].kind = "event"
    BY <1>5, <1>7
  <2>3. ASSUME snapped[s], t = <<>>, ~Due(conn[s])
        PROVE  view'[s] = log[Len(log)] /\ log # <<>>
    <3>1. Len(d) = 1 /\ view'[s] = m.val
      BY <1>0, <1>7, <1>12, <2>2, <2>3 DEF Typed
    <3>2. EventsIn(d) = d
      <4>1. \A i \in 1..Len(d) : d[i].kind = "event"
        BY <1>5, <2>3
      <4> QED BY <1>1, <4>1, EventsInEvents
    <3>3. Tally(conn[s]) /\ Owed(conn[s]) = 0
      <4>1. l.near /\ l.sub /\ LinkInv(conn[s])
        BY <1>0, <1>1, <1>3, <1>12 DEF OwnInv, l
      <4> QED BY <2>3, <4>1 DEF LinkInv, l, Due, Owed, Typed
    <3>4. l.from + l.read + 1 + 0 = Len(log) /\ d[1].val = log[l.from + l.read + 1]
      BY <1>7, <3>1, <3>2, <3>3 DEF Tally, l, d
    <3>5. l.from \in Nat /\ l.read \in Nat
      BY <1>1 DEF Links
    <3>6. log[Len(log)] = d[1].val
      BY <3>4, <3>5
    <3>7. Len(log) # 0
      <4>1. \A x, y, z \in Nat : x + y + 1 + 0 = z => z # 0
        OBVIOUS
      <4> QED BY <3>4, <3>5, <4>1 DEF Typed
    <3>8. log # <<>>
      BY <3>7
    <3> QED BY <1>7, <3>1, <3>6, <3>8
  <2>4. HeardInv(s)'
    BY <1>1, <1>2, <1>4, <1>5, <1>9, <1>12, <2>2, <2>3 DEF HeardInv
  <2> QED BY <2>1, <2>4
<1> QED BY <1>0, <1>6, <1>10, <1>11, <1>12 DEF Takes

\* What a move of a client does to the parts of the invariant.
LEMMA MoveStreams ==
  ASSUME Typed, LoopInv, OwnInv, NEW p \in Clients, ClientMove(p), faults' \in Nat,
         \A c \in Conns : LinkInv(c), \A s \in Streams : StreamInv(s) /\ HeardInv(s)
  PROVE  \A s \in Streams : StreamInv(s)' /\ HeardInv(s)'
<1> SUFFICES ASSUME NEW s \in Streams PROVE StreamInv(s)' /\ HeardInv(s)'
  OBVIOUS
<1>0. s \in Clients /\ s \notin Panels
  BY IpcAssumption DEF Clients
<1>1. CASE s # p
  <2>1. CASE Step(p)
    <3>1. UNCHANGED <<pc, pending, sweep, mode, log>>
      BY <2>1, StepSteady DEF server
    <3> QED BY <1>0, <1>1, <2>1, <3>1, StepOwn, OtherStreams
  <2>2. CASE Connect(p)
    <3>1. UNCHANGED <<pc, pending, sweep, mode, log>>
      BY <2>2 DEF Connect
    <3> QED BY <1>0, <1>1, <2>2, <3>1, ConnectStep, OtherStreams
  <2> QED BY <2>1, <2>2 DEF ClientMove, Step
<1>2. CASE s = p
  <2>1. CASE Connect(p)
    BY <1>2, <2>1, ConnectStream
  <2>2. CASE Proceeds(p)
    BY <1>2, <2>2, ProceedStream
  <2>3. CASE Writes(p)
    BY <1>2, <2>3, WriteStream
  <2>4. CASE Takes(p)
    BY <1>2, <2>4, TakeStream
  <2>5. CASE Leaves(p)
    BY <1>2, <2>5 DEF Leaves, Leave, StreamInv, HeardInv, Typed
  <2>6. CASE Asks(p)
    BY <1>0, <1>2, <2>6 DEF Asks
  <2> QED BY <2>1, <2>2, <2>3, <2>4, <2>5, <2>6 DEF ClientMove
<1> QED BY <1>1, <1>2

LEMMA MoveKeeps == ASSUME IInv, NEW p \in Clients, ClientAction(p) PROVE IInv'
<1>1. ClientMove(p) /\ faults' \in Nat
  BY ClientSteps DEF IInv
<1>2. ReqInv' /\ (\A q \in Panels : PanelInv(q)') /\ \A s \in Streams : StreamInv(s)' /\ HeardInv(s)'
  BY <1>1, MoveReq, MovePanels, MoveStreams DEF IInv
<1>3. Typed' /\ LoopInv' /\ OwnInv'
  BY <1>1, StepLoop, StepOwn, ConnectStep DEF IInv, ClientMove, Step
<1>4. \A c \in Conns : LinkInv(c)'
  BY <1>1, StepLinks, ConnectLinks DEF IInv, ClientMove, Step
<1> QED BY <1>2, <1>3, <1>4 DEF IInv

(* The steps of the daemon. *)

LEMMA Visited ==
  ASSUME Typed, LoopInv, NEW c, Visit(c)
  PROVE  /\ c \in Conns /\ c \in Range(clients) /\ c \in Range(sweep) /\ link[c].far /\ link[c] \in Links
         /\ Tail(sweep) \in Seq(Conns) /\ IsInjective(Tail(sweep))
         /\ Range(Tail(sweep)) = Range(sweep) \ {c} /\ Range(Tail(sweep)) \subseteq Range(clients) \ {c}
         /\ sweep # <<>> /\ running
<1>1. sweep \in Seq(Conns) /\ IsInjective(sweep) /\ sweep # <<>> /\ c = Head(sweep) /\ running
  BY DEF Visit, Typed, LoopInv
<1>2. /\ Tail(sweep) \in Seq(Conns) /\ IsInjective(Tail(sweep)) /\ c \in Conns
      /\ c \in Range(sweep) /\ Range(Tail(sweep)) = Range(sweep) \ {c}
  BY <1>1, TailConns
<1>3. c \in Range(clients) /\ Range(Tail(sweep)) \subseteq Range(clients) \ {c}
  BY <1>2 DEF LoopInv
<1>4. link[c].far /\ link[c] \in Links
  BY <1>2, <1>3 DEF LoopInv, Typed
<1> QED BY <1>1, <1>2, <1>3, <1>4

\* What a step of the daemon leaves of a connection.
Kept(c) == link'[c] = link[c]
Cut(c)  == /\ link'[c] \in Links /\ ~link'[c].far /\ link'[c].near = link[c].near
           /\ link[c].near => /\ link'[c].sub = link[c].sub /\ link'[c].up = link[c].up
                              /\ link'[c].down = link[c].down \/ Len(link[c].up) = 1

LEMMA DaemonOwn ==
  ASSUME OwnInv, ReqInv, Typed, UNCHANGED local, \A c \in Conns : link'[c].near = link[c].near
  PROVE  OwnInv' /\ ReqInv'
<1>1. \A p \in Clients : conn[p] # 0 => link'[conn[p]].near = link[conn[p]].near
  BY DEF Typed
<1>2. OwnInv'
  BY <1>1 DEF OwnInv, local
<1> QED BY <1>2 DEF ReqInv, local

LEMMA KeptPanel ==
  ASSUME NEW p \in Panels, PanelInv(p), UNCHANGED local, conn[p] # 0 => Kept(conn[p])
  PROVE  PanelInv(p)'
BY DEF PanelInv, local, Kept

LEMMA CutPanel ==
  ASSUME Typed, OwnInv, NEW p \in Panels, PanelInv(p), UNCHANGED local, conn[p] # 0 => Cut(conn[p]),
         conn[p] # 0 /\ Len(link[conn[p]].up) = 1 => link[conn[p]].far
  PROVE  PanelInv(p)'
<1> SUFFICES ASSUME conn[p] # 0 PROVE PanelInv(p)'
  BY DEF PanelInv, local
<1> DEFINE l == link[conn[p]]
           k == link'[conn'[p]]
<1>0. p \in Clients
  BY DEF Clients
<1>1. l.near /\ conn'[p] = conn[p] /\ at' = at /\ req' = req
  BY <1>0 DEF OwnInv, local
<1>2. k.sub = l.sub /\ k.up = l.up /\ (k.down = l.down \/ Len(l.up) = 1) /\ ~k.far
  BY <1>1 DEF Cut
<1>3. /\ ~l.sub /\ at[p] # "listen"
      /\ at[p] \in {"ready", "send"} => l.up = <<>> /\ l.down = <<>>
      /\ at[p] = "body" /\ l.far => l.up = <<"header">> /\ l.down = <<>>
      /\ at[p] = "wait" =>
           \/ l.down = <<>> /\ (l.far => l.up = <<"header", req[p]>>)
           \/ Len(l.down) = 1 /\ l.down[1].of = req[p] /\ l.up = <<>>
  BY DEF PanelInv
<1>4. Len(l.up) = 1 => l.far
  OBVIOUS
<1> HIDE DEF l, k
<1>5. Len(<<>>) = 0 /\ Len(<<"header", req[p]>>) = 2
  OBVIOUS
<1>6. k.down = l.down \/ at[p] = "body" \/ at[p] \notin {"ready", "send", "body", "wait"}
  BY <1>2, <1>3, <1>4, <1>5
<1>7. /\ ~k.sub /\ at[p] # "listen"
      /\ at[p] \in {"ready", "send"} => k.up = <<>> /\ k.down = <<>>
      /\ at[p] = "wait" =>
           \/ k.down = <<>> /\ (k.far => k.up = <<"header", req[p]>>)
           \/ Len(k.down) = 1 /\ k.down[1].of = req[p] /\ k.up = <<>>
  BY <1>2, <1>3, <1>6
<1> QED BY <1>1, <1>2, <1>7 DEF PanelInv, k

LEMMA KeptStream ==
  ASSUME NEW s \in Streams, StreamInv(s), UNCHANGED local, conn[s] # 0 => Kept(conn[s])
  PROVE  StreamInv(s)'
BY DEF StreamInv, local, Kept

LEMMA CutStream ==
  ASSUME NEW s \in Streams, UNCHANGED local, conn[s] # 0 => Cut(conn[s])
  PROVE  StreamInv(s)' /\ HeardInv(s)'
BY DEF StreamInv, HeardInv, local, Cut

\* A stream whose connection is not subscribed has heard nothing.
LEMMA NothingHeard ==
  ASSUME NEW s \in Streams, StreamInv(s), HeardInv(s), conn[s] # 0, link[conn[s]].far, ~link[conn[s]].sub
  PROVE  ~snapped[s] /\ ~HasKind(link[conn[s]].down, "status")
BY DEF StreamInv, HeardInv, StreamOk, StatusAsked

\* Nothing a stream was told grows stale: the events of a change are due to it,
\* or there was no change, or it was told nothing.
LEMMA KeptHeard ==
  ASSUME NEW s \in Streams, StreamInv(s), HeardInv(s), UNCHANGED local, conn[s] # 0 => Kept(conn[s]),
         conn[s] # 0 /\ link[conn[s]].far =>
           \/ Due(conn[s])'
           \/ ~Due(conn[s]) /\ mode' = mode /\ log' = log
           \/ ~link[conn[s]].sub
  PROVE  HeardInv(s)'
<1> SUFFICES ASSUME conn[s] # 0, link[conn[s]].far PROVE HeardInv(s)'
  BY DEF HeardInv, local, Kept
<1>1. conn'[s] = conn[s] /\ link'[conn'[s]] = link[conn[s]] /\ snapped' = snapped /\ at' = at /\ view' = view
  BY DEF local, Kept
<1>2. CASE Due(conn[s])'
  BY <1>1, <1>2 DEF HeardInv, local
<1>3. CASE ~Due(conn[s]) /\ mode' = mode /\ log' = log
  BY <1>1, <1>3 DEF HeardInv
<1>4. CASE ~link[conn[s]].sub
  <2>1. ~snapped[s] /\ ~HasKind(link[conn[s]].down, "status")
    BY <1>4, NothingHeard
  <2> QED BY <1>1, <2>1 DEF HeardInv, HasKind
<1> QED BY <1>2, <1>3, <1>4

LEMMA KeptLink ==
  ASSUME NEW c \in Conns, LinkInv(c), Kept(c), link[c].near /\ link[c].far /\ link[c].sub /\ Tally(c) => Tally(c)'
  PROVE  LinkInv(c)'
BY DEF LinkInv, Kept

LEMMA CutLink == ASSUME NEW c \in Conns, Cut(c) PROVE LinkInv(c)'
BY DEF LinkInv, Cut

\* The parts of the invariant that speak of one client or one connection.
AllParts == /\ \A p \in Panels : PanelInv(p)
            /\ \A c \in Conns : LinkInv(c)
            /\ \A s \in Streams : StreamInv(s) /\ HeardInv(s)

LEMMA KeepsAll ==
  ASSUME Typed, AllParts, UNCHANGED <<link, local>>,
         \A c \in Conns : link[c].near /\ link[c].far /\ link[c].sub /\ Tally(c) => Tally(c)',
         \A c \in Conns : link[c].far =>
           \/ Due(c)'
           \/ ~Due(c) /\ mode' = mode /\ log' = log
           \/ ~link[c].sub
  PROVE  AllParts'
<1>1. \A c \in Conns : Kept(c) /\ link'[c].near = link[c].near
  BY DEF Kept
<1>2. \A p \in Clients : conn[p] # 0 => conn[p] \in Conns /\ Kept(conn[p])
  BY <1>1 DEF Typed
<1>3. Streams \subseteq Clients /\ Panels \subseteq Clients
  BY DEF Clients
<1>4. \A p \in Panels : PanelInv(p)'
  BY <1>2, <1>3, KeptPanel DEF AllParts
<1>5. \A c \in Conns : LinkInv(c)'
  BY <1>1, KeptLink DEF AllParts
<1>6. \A s \in Streams : StreamInv(s)'
  BY <1>2, <1>3, KeptStream DEF AllParts
<1>7. \A s \in Streams : HeardInv(s)'
  <2> TAKE s \in Streams
  <2>1. conn[s] # 0 /\ link[conn[s]].far =>
           \/ Due(conn[s])'
           \/ ~Due(conn[s]) /\ mode' = mode /\ log' = log
           \/ ~link[conn[s]].sub
    <3> SUFFICES ASSUME conn[s] # 0, link[conn[s]].far
                 PROVE  \/ Due(conn[s])'
                        \/ ~Due(conn[s]) /\ mode' = mode /\ log' = log
                        \/ ~link[conn[s]].sub
      OBVIOUS
    <3> DEFINE c == conn[s]
    <3>1. c \in Conns /\ c' = c
      BY <1>2, <1>3 DEF local
    <3>2. Due(c)' = (IF pc' = "read" THEN pending' # <<>> ELSE c \in Range(sweep'))
      BY <3>1 DEF Due
    <3>3. \A d \in Conns : Due(d)' = (IF pc' = "read" THEN pending' # <<>> ELSE d \in Range(sweep'))
      BY DEF Due
    <3> QED BY <3>1, <3>2, <3>3
  <2> QED BY <1>2, <1>3, <2>1, KeptHeard DEF AllParts
<1> QED BY <1>4, <1>5, <1>6, <1>7 DEF AllParts

LEMMA ReadNothingKeeps == ASSUME IInv, NEW c \in Conns, ReadNothing(c) PROVE IInv'
<1>1. pc = "read" /\ Visit(c) /\ sweep' = Tail(sweep)
      /\ UNCHANGED <<running, pc, backlog, clients, pending, mode, changes, log, link, local, faults>>
  BY DEF ReadNothing
<1>2. /\ Tail(sweep) \in Seq(Conns) /\ IsInjective(Tail(sweep)) /\ running
      /\ Range(Tail(sweep)) \subseteq Range(clients)
  BY <1>1, Visited DEF IInv
<1>3. Typed'
  BY <1>1, <1>2 DEF IInv, Typed, local
<1>4. LoopInv'
  BY <1>1, <1>2 DEF IInv, LoopInv
<1>5. OwnInv' /\ ReqInv'
  BY <1>1, DaemonOwn DEF IInv
<1>6. \A d \in Conns : Owed(d)' = Owed(d) /\ Due(d)' = Due(d)
  BY <1>1 DEF Owed, Due
<1>7. \A d \in Conns : Tally(d)' = Tally(d)
  BY <1>1, <1>6 DEF Tally
<1>8. AllParts'
  BY <1>1, <1>6, <1>7, KeepsAll DEF IInv, AllParts
<1> QED BY <1>3, <1>4, <1>5, <1>8 DEF IInv, AllParts

LEMMA RestartKeeps == ASSUME IInv, Restart PROVE IInv'
<1>1. ~running /\ running' = TRUE /\ changes' \in Nat /\ mode' = changes'
      /\ UNCHANGED <<pc, backlog, clients, sweep, pending, log, link, local, faults>>
  BY DEF Restart, IInv, Typed
<1>2. clients = <<>> /\ backlog = <<>> /\ pc = "read"
  BY <1>1 DEF IInv, LoopInv
<1>3. \A c \in Conns : ~link[c].far
  BY <1>2, EmptyConns DEF IInv, LoopInv
<1>4. Typed'
  BY <1>1 DEF IInv, Typed, local
<1>5. LoopInv'
  BY <1>1, <1>2 DEF IInv, LoopInv
<1>6. OwnInv' /\ ReqInv'
  BY <1>1, DaemonOwn DEF IInv
<1>7. AllParts'
  BY <1>1, <1>3, KeepsAll DEF IInv, AllParts
<1> QED BY <1>4, <1>5, <1>6, <1>7 DEF IInv, AllParts

LEMMA CrashKeeps == ASSUME IInv, Crash PROVE IInv'
<1>1. /\ running' = FALSE /\ pc' = "read" /\ faults' = faults + 1
      /\ backlog' = <<>> /\ clients' = <<>> /\ sweep' = <<>> /\ pending' = <<>> /\ log' = <<>>
      /\ link' = [c \in Conns |-> HangFar(link[c])] /\ UNCHANGED <<mode, changes, local>>
  BY DEF Crash
<1>2. \A c \in Conns : Cut(c) /\ (link'[c].down = link[c].down \/ ~link[c].near)
  <2> TAKE c \in Conns
  <2>1. link[c] \in Links /\ link'[c] = HangFar(link[c])
    BY <1>1 DEF IInv, Typed
  <2>2. /\ link'[c] \in Links /\ ~link'[c].far /\ link'[c].near = link[c].near
        /\ link[c].near => link'[c] = [link[c] EXCEPT !.far = FALSE]
    <3> DEFINE l == link[c]
    <3> HIDE DEF l
    <3>1. l \in Links /\ link'[c] = HangFar(l)
      BY <2>1 DEF l
    <3>2. /\ link'[c] \in Links /\ ~link'[c].far /\ link'[c].near = l.near
          /\ l.near => link'[c] = [l EXCEPT !.far = FALSE]
      BY <3>1, HangProperties
    <3> QED BY <3>2 DEF l
  <2>3. link[c].near => link'[c].sub = link[c].sub /\ link'[c].up = link[c].up /\ link'[c].down = link[c].down
    BY <2>1, <2>2 DEF Links
  <2> QED BY <2>2, <2>3 DEF Cut
<1>3. \A p \in Clients : conn[p] # 0 => conn[p] \in Conns /\ Cut(conn[p]) /\ link[conn[p]].near
  BY <1>2 DEF IInv, Typed, OwnInv
<1>4. Streams \subseteq Clients /\ Panels \subseteq Clients
  BY DEF Clients
<1>5. Typed'
  <2>1. link' \in [Conns -> Links]
    BY <1>1, <1>2 DEF Cut
  <2>2. <<>> \in Seq(Conns) /\ <<>> \in Seq(Nat)
    OBVIOUS
  <2>3. faults + 1 \in Nat
    BY DEF IInv, Typed
  <2> QED BY <1>1, <2>1, <2>2, <2>3 DEF IInv, Typed, local
<1>6. LoopInv'
  <2>1. {c \in Conns : link'[c].far} = {}
    BY <1>2 DEF Cut
  <2> QED BY <1>1, <2>1, EmptyConns DEF LoopInv
<1>7. OwnInv' /\ ReqInv'
  BY <1>1, <1>2, DaemonOwn DEF IInv, Cut
<1>8. \A p \in Panels : PanelInv(p)'
  <2> SUFFICES ASSUME NEW p \in Panels PROVE PanelInv(p)'
    OBVIOUS
  <2>1. PanelInv(p) /\ UNCHANGED local
    BY <1>1 DEF IInv
  <2>2. conn[p] # 0 => LET l == link[conn[p]] k == link'[conn[p]]
                       IN  ~k.far /\ k.sub = l.sub /\ k.up = l.up /\ k.down = l.down
    BY <1>2, <1>3, <1>4 DEF Cut
  <2> QED BY <2>1, <2>2 DEF PanelInv, local
<1>9. \A s \in Streams : StreamInv(s)' /\ HeardInv(s)'
  BY <1>1, <1>3, <1>4, CutStream
<1>10. \A c \in Conns : LinkInv(c)'
  BY <1>2, CutLink
<1> QED BY <1>5, <1>6, <1>7, <1>8, <1>9, <1>10 DEF IInv

\* The next iteration begins.
LEMMA AcceptProperties ==
  ASSUME Typed, LoopInv, Accept
  PROVE  /\ clients' \in Seq(Conns) /\ sweep' = clients' /\ backlog' = <<>> /\ pending' = <<>> /\ pc' = "read"
         /\ IsInjective(clients') /\ Range(clients') = Range(clients) \cup Range(backlog)
<1>1. clients' = clients \o backlog /\ sweep' = clients' /\ backlog' = <<>> /\ pending' = <<>> /\ pc' = "read"
  BY DEF Accept
<1>2. /\ clients \o backlog \in Seq(Conns) /\ IsInjective(clients \o backlog)
      /\ Range(clients \o backlog) = Range(clients) \cup Range(backlog)
  BY ConcatConns DEF Typed, LoopInv
<1> QED BY <1>1, <1>2

LEMMA AcceptLoop ==
  ASSUME Typed, LoopInv, Accept, UNCHANGED <<running, link>>, running
  PROVE  LoopInv'
<1>1. /\ clients' \in Seq(Conns) /\ sweep' = clients' /\ backlog' = <<>> /\ pending' = <<>> /\ pc' = "read"
      /\ IsInjective(clients') /\ Range(clients') = Range(clients) \cup Range(backlog)
  BY AcceptProperties
<1> QED BY <1>1, EmptyConns DEF LoopInv

LEMMA DispatchedKeeps == ASSUME IInv, Dispatched PROVE IInv'
<1>1. running /\ pc = "dispatch" /\ sweep = <<>> /\ Accept
      /\ UNCHANGED <<running, mode, changes, log, link, local, faults>>
  BY DEF Dispatched
<1>2. /\ clients' \in Seq(Conns) /\ sweep' = clients' /\ backlog' = <<>> /\ pending' = <<>> /\ pc' = "read"
  BY <1>1, AcceptProperties DEF IInv
<1>3. Typed'
  BY <1>1, <1>2, EmptyConns DEF IInv, Typed, local
<1>4. LoopInv'
  BY <1>1, AcceptLoop DEF IInv
<1>5. OwnInv' /\ ReqInv'
  BY <1>1, DaemonOwn DEF IInv
<1>6. \A c \in Conns : Owed(c)' = Owed(c) /\ ~Due(c)
  BY <1>1, <1>2, EmptyConns DEF Owed, Due
<1>7. \A c \in Conns : Tally(c)' = Tally(c)
  BY <1>1, <1>6 DEF Tally
<1>8. AllParts'
  BY <1>1, <1>6, <1>7, KeepsAll DEF IInv, AllParts
<1> QED BY <1>3, <1>4, <1>5, <1>8 DEF IInv, AllParts

\* A step that touches the connection c alone.
LEMMA OneConn ==
  ASSUME Typed, AllParts, UNCHANGED local, NEW c \in Conns, \A d \in Conns \ {c} : Kept(d),
         LinkInv(c)',
         \A p \in Panels : conn[p] = c => PanelInv(p)',
         \A s \in Streams : conn[s] = c => StreamInv(s)' /\ HeardInv(s)',
         \A d \in Conns \ {c} : link[d].near /\ link[d].far /\ link[d].sub /\ Tally(d) => Tally(d)',
         \A d \in Conns \ {c} : Due(d)' \/ (~Due(d) /\ mode' = mode /\ log' = log)
  PROVE  AllParts'
<1>1. Streams \subseteq Clients /\ Panels \subseteq Clients
  BY DEF Clients
<1>2. \A p \in Clients : conn[p] # 0 /\ conn[p] # c => conn[p] \in Conns \ {c} /\ Kept(conn[p])
  BY DEF Typed
<1>3. \A p \in Panels : PanelInv(p)'
  <2> TAKE p \in Panels
  <2>1. CASE conn[p] # c
    BY <1>1, <1>2, <2>1, KeptPanel DEF AllParts
  <2> QED BY <2>1
<1>4. \A d \in Conns : LinkInv(d)'
  <2> TAKE d \in Conns
  <2>1. CASE d # c
    BY <2>1, KeptLink DEF AllParts
  <2> QED BY <2>1
<1>5. \A s \in Streams : StreamInv(s)' /\ HeardInv(s)'
  <2> TAKE s \in Streams
  <2>1. CASE conn[s] # c
    <3>1. StreamInv(s) /\ HeardInv(s) /\ (conn[s] # 0 => conn[s] \in Conns \ {c} /\ Kept(conn[s]))
      BY <1>1, <1>2, <2>1 DEF AllParts
    <3>2. conn[s] # 0 => Due(conn[s])' \/ (~Due(conn[s]) /\ mode' = mode /\ log' = log)
      <4> DEFINE d == conn[s]
      <4>1. Due(d)' = (IF pc' = "read" THEN pending' # <<>> ELSE d \in Range(sweep'))
        BY DEF Due, local
      <4>2. \A e \in Conns : Due(e)' = (IF pc' = "read" THEN pending' # <<>> ELSE e \in Range(sweep'))
        BY DEF Due
      <4> QED BY <3>1, <4>1, <4>2
    <3> QED BY <3>1, <3>2, KeptStream, KeptHeard
  <2> QED BY <2>1
<1> QED BY <1>3, <1>4, <1>5 DEF AllParts

LEMMA DropLoop ==
  ASSUME Typed, LoopInv, NEW c, Visit(c), sweep' = Tail(sweep), clients' = Dropped(c),
         link'[c] \in Links, ~link'[c].far, \A d \in Conns \ {c} : Kept(d), UNCHANGED <<running, pc, backlog, log>>,
         pc = "dispatch" => pending' = pending
  PROVE  LoopInv' /\ clients' \in Seq(Conns) /\ sweep' \in Seq(Conns) /\ Range(sweep') = Range(sweep) \ {c}
<1>1. /\ c \in Conns /\ c \in Range(clients)
      /\ Tail(sweep) \in Seq(Conns) /\ IsInjective(Tail(sweep))
      /\ Range(Tail(sweep)) = Range(sweep) \ {c} /\ Range(Tail(sweep)) \subseteq Range(clients) \ {c} /\ running
  BY Visited
<1>2. /\ clients' \in Seq(Conns) /\ IsInjective(clients')
      /\ Range(clients') = Range(clients) \ {c}
  BY <1>1, DroppedConns DEF Typed, LoopInv
<1>3. {d \in Conns : link'[d].far} = {d \in Conns : link[d].far} \ {c}
  BY DEF Kept
<1>4. \A d \in Range(backlog) : ~link'[d].sub
  <2>1. Range(backlog) \subseteq Conns \ {c}
    BY <1>1 DEF LoopInv
  <2> QED BY <2>1 DEF LoopInv, Kept
<1>5. LoopInv'
  BY <1>1, <1>2, <1>3, <1>4 DEF LoopInv
<1> QED BY <1>1, <1>2, <1>5

LEMMA KeepLoop ==
  ASSUME Typed, LoopInv, NEW c, Visit(c), sweep' = Tail(sweep), clients' = clients,
         link'[c].far = link[c].far, \A d \in Conns \ {c} : Kept(d), UNCHANGED <<running, pc, backlog, log>>,
         pc = "dispatch" => pending' = pending
  PROVE  LoopInv' /\ clients' \in Seq(Conns) /\ sweep' \in Seq(Conns) /\ Range(sweep') = Range(sweep) \ {c}
<1>1. /\ c \in Conns /\ c \in Range(clients)
      /\ Tail(sweep) \in Seq(Conns) /\ IsInjective(Tail(sweep))
      /\ Range(Tail(sweep)) = Range(sweep) \ {c} /\ Range(Tail(sweep)) \subseteq Range(clients) \ {c} /\ running
  BY Visited
<1>3. {d \in Conns : link'[d].far} = {d \in Conns : link[d].far}
  BY DEF Kept
<1>4. \A d \in Range(backlog) : ~link'[d].sub
  <2>1. Range(backlog) \subseteq Conns \ {c}
    BY <1>1 DEF LoopInv
  <2> QED BY <2>1 DEF LoopInv, Kept
<1>5. LoopInv'
  BY <1>1, <1>3, <1>4 DEF LoopInv
<1> QED BY <1>1, <1>5 DEF Typed

\* The daemon drops the connection it is at and changes nothing else.
LEMMA DropKeeps ==
  ASSUME IInv, NEW c, Visit(c), sweep' = Tail(sweep), clients' = Dropped(c), Cut(c),
         \A d \in Conns \ {c} : Kept(d), link' \in [Conns -> Links],
         UNCHANGED <<running, pc, backlog, pending, mode, changes, log, local, faults>>
  PROVE  IInv'
<1>0. c \in Conns /\ link[c].far
  BY Visited DEF IInv
<1>1. LoopInv' /\ clients' \in Seq(Conns) /\ sweep' \in Seq(Conns) /\ Range(sweep') = Range(sweep) \ {c}
  BY DropLoop DEF IInv, Cut
<1>2. Typed'
  BY <1>1 DEF IInv, Typed, local
<1>3. OwnInv' /\ ReqInv'
  <2>1. \A d \in Conns : link'[d].near = link[d].near
    BY DEF Cut, Kept
  <2> QED BY <2>1, DaemonOwn DEF IInv
<1>4. \A d \in Conns \ {c} : Owed(d)' = Owed(d) /\ Due(d)' = Due(d)
  BY <1>1 DEF Owed, Due
<1>5. \A d \in Conns \ {c} : Tally(d)' = Tally(d)
  BY <1>4 DEF Tally, Kept
<1>6. \A p \in Panels : conn[p] = c => PanelInv(p)'
  BY <1>0, CutPanel DEF IInv
<1>7. \A s \in Streams : conn[s] = c => StreamInv(s)' /\ HeardInv(s)'
  BY CutStream
<1>8. AllParts'
  BY <1>0, <1>4, <1>5, <1>6, <1>7, CutLink, OneConn DEF IInv, AllParts
<1> QED BY <1>1, <1>2, <1>3, <1>8 DEF IInv, AllParts

LEMMA ReadHalfKeeps == ASSUME IInv, NEW c \in Conns, ReadHalf(c) PROVE IInv'
<1> DEFINE l == link[c]
           k == Sent(l, Reply("error", "frame", 0))
<1>1. /\ pc = "read" /\ Visit(c) /\ Len(l.up) = 1 /\ sweep' = Tail(sweep) /\ clients' = Dropped(c)
      /\ link' = [link EXCEPT ![c] = HangFar(k)]
      /\ UNCHANGED <<running, pc, backlog, pending, mode, changes, log, local, faults>>
  BY DEF ReadHalf
<1>2. l \in Links /\ link \in [Conns -> Links]
  BY DEF IInv, Typed
<1>3. k \in Links /\ k.near = l.near /\ k.sub = l.sub /\ k.up = l.up
  <2>1. Append(l.down, Reply("error", "frame", 0)) \in Seq(Msg)
    BY <1>2 DEF Links, Msg, Reply
  <2> QED BY <1>2, <2>1 DEF Links, Sent
<1> HIDE DEF k
<1>4. /\ HangFar(k) \in Links /\ ~HangFar(k).far /\ HangFar(k).near = k.near
      /\ k.near => HangFar(k) = [k EXCEPT !.far = FALSE]
  BY <1>3, HangProperties
<1>5. k.near => HangFar(k).sub = k.sub /\ HangFar(k).up = k.up
  BY <1>3, <1>4 DEF Links
<1>6. link'[c] = HangFar(k) /\ \A d \in Conns \ {c} : Kept(d)
  BY <1>1, <1>2 DEF Kept
<1>7. Cut(c) /\ link' \in [Conns -> Links]
  BY <1>1, <1>2, <1>3, <1>4, <1>5, <1>6 DEF Cut
<1> QED BY <1>1, <1>6, <1>7, DropKeeps

\* The events of a sequence of changes.
Announced(n) == [i \in DOMAIN n |-> Event(n[i])]

LEMMA AnnouncedProperties ==
  ASSUME NEW n \in Seq(Nat)
  PROVE  /\ Announced(n) \in Seq(Msg) /\ Len(Announced(n)) = Len(n) /\ Len(n) \in Nat
         /\ \A i \in 1..Len(n) : Announced(n)[i].val = n[i] /\ Announced(n)[i].kind = "event"
         /\ EventsIn(Announced(n)) = Announced(n)
<1>1. DOMAIN n = 1..Len(n) /\ Len(n) \in Nat /\ \A i \in 1..Len(n) : n[i] \in Nat
  OBVIOUS
<1>2. \A v \in Nat : Event(v) \in Msg /\ Event(v).val = v /\ Event(v).kind = "event"
  BY DEF Event, Reply, Msg
<1>3. Announced(n) = [i \in 1..Len(n) |-> Event(n[i])]
  BY <1>1 DEF Announced
<1> DEFINE e(i) == Event(n[i])
<1>4. \A i \in 1..Len(n) : e(i) \in Msg /\ e(i).val = n[i] /\ e(i).kind = "event"
  BY <1>1, <1>2
<1>5. Announced(n) = [i \in 1..Len(n) |-> e(i)]
  BY <1>3
<1> HIDE DEF e
<1>6. Announced(n) \in Seq(Msg) /\ Len(Announced(n)) = Len(n) /\ \A i \in 1..Len(n) : Announced(n)[i] = e(i)
  BY <1>1, <1>4, <1>5
<1>7. \A i \in 1..Len(Announced(n)) : Announced(n)[i].kind = "event"
  BY <1>4, <1>6
<1> QED BY <1>1, <1>4, <1>6, <1>7, EventsInEvents

\* What the daemon dispatches to a subscriber keeps its tally.
LEMMA DispatchTally ==
  ASSUME Typed, LoopInv, NEW c \in Conns, Tally(c), pc = "dispatch", c \in Range(sweep),
         c \notin Range(sweep'), UNCHANGED <<pc, pending, log>>,
         link'[c].down = link[c].down \o Announced(pending),
         link'[c].from = link[c].from, link'[c].read = link[c].read
  PROVE  Tally(c)'
<1> DEFINE l == link[c]
           a == Announced(pending)
           e == EventsIn(l.down)
           e2 == EventsIn(link'[c].down)
           n == Len(pending)
<1>1. l.down \in Seq(Msg) /\ l.from \in Nat /\ l.read \in Nat /\ Len(log) \in Nat
  BY DEF Typed, Links
<1>2. a \in Seq(Msg) /\ Len(a) = n /\ n \in Nat /\ EventsIn(a) = a /\ \A i \in 1..n : a[i].val = pending[i]
  BY AnnouncedProperties DEF Typed
<1>3. e \in Seq(Msg) /\ Len(e) \in Nat
  <2>1. e \in Seq(Msg)
    <3> HIDE DEF l
    <3> QED BY <1>1, EventsInType
  <2> QED BY <2>1
<1>4. e2 = e \o a
  <2> HIDE DEF l, a
  <2>1. link'[c].down = l.down \o a
    BY DEF l, a
  <2> QED BY <1>1, <1>2, <2>1, EventsInConcat
<1>5. l.from + l.read + Len(e) + n = Len(log) /\ \A i \in 1..Len(e) : e[i].val = log[l.from + l.read + i]
  BY DEF Tally, Owed
<1>6. n <= Len(log) /\ \A i \in 1..n : log[Len(log) - n + i] = pending[i]
  BY DEF LoopInv
<1>7. Tally(c)' <=> /\ l.from + l.read + Len(e2) + 0 = Len(log)
                    /\ \A i \in 1..Len(e2) : e2[i].val = log[l.from + l.read + i]
  BY DEF Tally, Owed
<1>8. PICK b \in Nat : b = l.from + l.read
  BY <1>1
<1> HIDE DEF l, a, e, e2, n
<1>9. Len(e2) = Len(e) + n /\ \A i \in 1..Len(e) + n : e2[i] = IF i <= Len(e) THEN e[i] ELSE a[i - Len(e)]
  BY <1>2, <1>3, <1>4, ConcatProperties
<1>10. b + Len(e) + n = Len(log)
  BY <1>5, <1>8
<1>11. b + Len(e2) + 0 = Len(log)
  BY <1>2, <1>3, <1>8, <1>9, <1>10
<1>12. \A i \in 1..Len(e2) : e2[i].val = log[b + i]
  <2> TAKE i \in 1..Len(e2)
  <2>0. i \in Nat /\ i >= 1 /\ i <= Len(e) + n
    BY <1>2, <1>3, <1>9
  <2>1. CASE i <= Len(e)
    <3>1. i \in 1..Len(e) /\ i \in 1..Len(e) + n
      BY <1>2, <1>3, <2>0, <2>1
    <3>2. e2[i] = e[i] /\ e[i].val = log[l.from + l.read + i]
      BY <1>5, <1>9, <2>1, <3>1
    <3> QED BY <1>8, <3>2
  <2>2. CASE ~(i <= Len(e))
    <3> DEFINE j == i - Len(e)
    <3>1. j \in 1..n /\ Len(log) - n + j = b + i
      <4>1. i \in Nat /\ Len(e) \in Nat /\ n \in Nat /\ b \in Nat /\ Len(log) \in Nat
            /\ i <= Len(e) + n /\ ~(i <= Len(e)) /\ b + Len(e) + n = Len(log)
        BY <1>1, <1>2, <1>3, <1>10, <2>0, <2>2
      <4> QED BY SMTT(40), <4>1
    <3>2. e2[i] = a[j]
      BY <1>9, <2>2
    <3> HIDE DEF j
    <3> QED BY <1>2, <1>6, <3>1, <3>2
  <2> QED BY <2>1, <2>2
<1> QED BY <1>7, <1>8, <1>11, <1>12

LEMMA DispatchKeeps == ASSUME IInv, NEW c \in Conns, Dispatch(c) PROVE IInv'
<1> DEFINE l == link[c]
<1>1. /\ pc = "dispatch" /\ Visit(c) /\ sweep' = Tail(sweep)
      /\ UNCHANGED <<running, pc, backlog, pending, mode, changes, log, local, faults>>
  BY DEF Dispatch
<1>2. l \in Links /\ link \in [Conns -> Links] /\ l.far /\ c \in Range(sweep) /\ pending # <<>>
  BY <1>1, Visited DEF IInv, Typed, LoopInv
<1>3. CASE l.sub /\ ~l.near /\ clients' = Dropped(c) /\ link' = [link EXCEPT ![c] = HangFar(@)]
  <2>1. HangFar(l) \in Links /\ ~HangFar(l).far /\ HangFar(l).near = l.near
    BY <1>2, HangProperties
  <2>2. link'[c] = HangFar(l) /\ (\A d \in Conns \ {c} : Kept(d)) /\ link' \in [Conns -> Links]
    BY <1>2, <1>3, <2>1 DEF Kept
  <2>3. Cut(c)
    BY <1>3, <2>1, <2>2 DEF Cut
  <2> QED BY <1>1, <1>3, <2>2, <2>3, DropKeeps
<1>4. ASSUME clients' = clients, link' \in [Conns -> Links], \A d \in Conns \ {c} : Kept(d),
             link'[c].near = l.near, link'[c].far = l.far, link'[c].sub = l.sub, link'[c].up = l.up,
             \/ ~l.sub /\ link'[c] = l
             \/ /\ l.sub /\ link'[c].down = l.down \o Announced(pending)
                /\ link'[c].from = l.from /\ link'[c].read = l.read
      PROVE  IInv'
  <2>1. LoopInv' /\ clients' \in Seq(Conns) /\ sweep' \in Seq(Conns) /\ Range(sweep') = Range(sweep) \ {c}
    BY <1>1, <1>4, KeepLoop DEF IInv
  <2>2. Typed'
    BY <1>1, <1>4, <2>1 DEF IInv, Typed, local
  <2>3. OwnInv' /\ ReqInv'
    <3>1. \A d \in Conns : link'[d].near = link[d].near
      BY <1>4 DEF Kept
    <3> QED BY <1>1, <3>1, DaemonOwn DEF IInv
  <2>4. \A d \in Conns \ {c} : Owed(d)' = Owed(d) /\ Due(d)' = Due(d)
    BY <1>1, <2>1 DEF Owed, Due
  <2>5. \A d \in Conns \ {c} : Tally(d)' = Tally(d)
    BY <1>1, <1>4, <2>4 DEF Tally, Kept
  <2>6. \A p \in Panels : conn[p] = c => PanelInv(p)'
    <3> SUFFICES ASSUME NEW p \in Panels, conn[p] = c PROVE PanelInv(p)'
      OBVIOUS
    <3>1. PanelInv(p) /\ conn[p] # 0
      BY IpcAssumption DEF IInv
    <3>2. ~l.sub
      BY <3>1 DEF PanelInv
    <3> QED BY <1>1, <1>4, <3>1, <3>2, KeptPanel DEF Kept
  <2>7. CASE ~l.sub /\ link'[c] = l
    <3>1. Kept(c) /\ LinkInv(c)
      BY <2>7 DEF Kept, IInv
    <3>2. LinkInv(c)'
      BY <2>7, <3>1, KeptLink
    <3>3. \A s \in Streams : conn[s] = c => StreamInv(s)' /\ HeardInv(s)'
      <4> TAKE s \in Streams
      <4>1. StreamInv(s) /\ HeardInv(s)
        BY DEF IInv
      <4> QED BY <1>1, <2>7, <3>1, <4>1, KeptStream, KeptHeard
    <3>4. AllParts'
      BY <1>1, <1>4, <2>4, <2>5, <2>6, <3>2, <3>3, OneConn DEF IInv, AllParts
    <3> QED BY <2>1, <2>2, <2>3, <3>4 DEF IInv, AllParts
  <2>8. CASE /\ l.sub /\ link'[c].down = l.down \o Announced(pending)
             /\ link'[c].from = l.from /\ link'[c].read = l.read
    <3> DEFINE a == Announced(pending)
               d2 == link'[c].down
    <3>1. a \in Seq(Msg) /\ Len(a) = Len(pending) /\ Len(pending) \in Nat /\ Len(pending) # 0
          /\ \A i \in 1..Len(a) : a[i].kind = "event"
      <4>1. pending \in Seq(Nat)
        BY DEF IInv, Typed
      <4>2. Len(pending) # 0
        BY <1>2, <4>1
      <4> QED BY <4>1, <4>2, AnnouncedProperties
    <3>2. l.down \in Seq(Msg) /\ Len(l.down) \in Nat
      <4>1. l.down \in Seq(Msg)
        BY <1>2 DEF Links
      <4> QED BY <4>1
    <3> DEFINE n == Len(l.down)
    <3> HIDE DEF a, n
    <3>3. Len(d2) = n + Len(a) /\ Len(a) \in Nat /\ Len(a) # 0 /\ n \in Nat
          /\ \A i \in 1..Len(d2) : \/ i \in 1..n /\ d2[i] = l.down[i]
                                   \/ i \notin 1..n /\ d2[i].kind = "event"
      <4>1. d2 = l.down \o a
        BY <2>8 DEF a
      <4>2. Len(d2) = n + Len(a) /\ \A i \in 1..n + Len(a) : d2[i] = IF i <= n THEN l.down[i] ELSE a[i - n]
        <5> DEFINE d == l.down
        <5>1. d \in Seq(Msg) /\ a \in Seq(Msg) /\ d2 = d \o a /\ n = Len(d)
          BY <3>1, <3>2, <4>1 DEF n
        <5> HIDE DEF d, d2
        <5>2. Len(d2) = n + Len(a) /\ \A i \in 1..n + Len(a) : d2[i] = IF i <= n THEN d[i] ELSE a[i - n]
          BY <5>1, ConcatProperties
        <5> QED BY <5>2 DEF d, d2
      <4>3. \A i \in 1..Len(d2) : ~(i <= n) => d2[i].kind = "event"
        <5> SUFFICES ASSUME NEW i \in 1..Len(d2), ~(i <= n) PROVE d2[i].kind = "event"
          OBVIOUS
        <5>1. i - n \in 1..Len(a) /\ d2[i] = a[i - n]
          BY <3>1, <3>2, <4>2 DEF n
        <5> QED BY <3>1, <5>1
      <4>4. n \in Nat
        BY <3>2 DEF n
      <4> QED BY <3>1, <4>2, <4>3, <4>4
    <3>4. LinkInv(c)'
      <4>1. LinkInv(c) /\ c \notin Range(sweep')
        BY <2>1 DEF IInv
      <4>2. l.near => Tally(c) /\ ~Has(l.up, "subscribe")
                      /\ \A i, j \in 1..Len(l.up) : l.up[i] = "subscribe" /\ l.up[j] = "subscribe" => i = j
        BY <1>2, <2>8, <4>1 DEF LinkInv
      <4>3. Tally(c) => Tally(c)'
        BY <1>1, <1>2, <2>8, <4>1, DispatchTally DEF IInv
      <4> QED BY <1>4, <2>8, <4>2, <4>3 DEF LinkInv
    <3>5. ASSUME NEW s \in Streams, conn[s] = c PROVE StreamInv(s)' /\ HeardInv(s)'
      <4>0. conn[s] # 0 /\ conn' = conn /\ at' = at /\ req' = req /\ snapped' = snapped
        BY <1>1, <3>5, IpcAssumption DEF local
      <4>1. StreamOk(l.up, l.down, l.sub, at[s], req[s])
        BY <1>2, <3>5, <4>0 DEF IInv, StreamInv
      <4>2. \A k : k # "event" /\ HasKind(d2, k) => HasKind(l.down, k)
        BY <3>3 DEF HasKind, n
      <4>3. StreamOk(l.up, d2, l.sub, at[s], req[s])
        BY <4>1, <4>2 DEF StreamOk
      <4>4. StreamInv(s)'
        BY <1>4, <3>5, <4>0, <4>3 DEF StreamInv
      <4>5. /\ \A i \in 1..n : l.down[i].kind = "status" =>
                 /\ l.up = <<>> /\ \A j \in i + 1..n : l.down[j].kind = "event"
            /\ snapped[s] => /\ at[s] = "listen" /\ l.up = <<>>
                             /\ \A i \in 1..n : l.down[i].kind = "event"
        BY <1>2, <3>5, <4>0 DEF IInv, HeardInv, n
      <4>6. ASSUME NEW i \in 1..Len(d2), d2[i].kind = "status"
            PROVE  l.up = <<>> /\ (\A j \in i + 1..Len(d2) : d2[j].kind = "event") /\ i # Len(d2)
        <5>1. i \in 1..n /\ l.down[i].kind = "status"
          BY <3>3, <4>6
        <5>2. \A j \in i + 1..Len(d2) : d2[j].kind = "event"
          <6> TAKE j \in i + 1..Len(d2)
          <6>1. j \in 1..Len(d2) /\ (j \in 1..n => j \in i + 1..n)
            BY <3>3
          <6> QED BY <3>3, <4>5, <5>1, <6>1
        <5> QED BY <3>3, <4>5, <5>1, <5>2
      <4>7. snapped[s] => \A i \in 1..Len(d2) : d2[i].kind = "event"
        BY <3>3, <4>5
      <4>8. d2 # <<>>
        BY <3>3
      <4>9. HeardInv(s)'
        BY <1>4, <3>5, <4>0, <4>5, <4>6, <4>7, <4>8 DEF HeardInv
      <4> QED BY <4>4, <4>9
    <3>6. AllParts'
      BY <1>1, <1>4, <2>4, <2>5, <2>6, <3>4, <3>5, OneConn DEF IInv, AllParts
    <3> QED BY <2>1, <2>2, <2>3, <3>6 DEF IInv, AllParts
  <2> QED BY <1>4, <2>7, <2>8
<1>5. CASE ~l.sub /\ UNCHANGED <<clients, link>>
  BY <1>2, <1>4, <1>5 DEF Kept
<1>6. CASE /\ l.sub /\ l.near /\ UNCHANGED clients
           /\ link' = [link EXCEPT ![c].down = @ \o [i \in DOMAIN pending |-> Event(pending[i])]]
  <2> DEFINE a == Announced(pending)
  <2>1. a \in Seq(Msg)
    BY AnnouncedProperties DEF IInv, Typed
  <2>2. link' = [link EXCEPT ![c].down = @ \o a]
    BY <1>6 DEF Announced
  <2> HIDE DEF a
  <2>3. l.down \o a \in Seq(Msg)
    <3>1. l.down \in Seq(Msg)
      BY <1>2 DEF Links
    <3> QED BY <2>1, <3>1, ConcatProperties
  <2>4. link'[c] = [l EXCEPT !.down = l.down \o a] /\ \A d \in Conns \ {c} : Kept(d)
    BY <1>2, <2>2 DEF Kept
  <2>5. /\ link'[c] \in Links /\ link'[c].near = l.near /\ link'[c].far = l.far /\ link'[c].sub = l.sub
        /\ link'[c].up = l.up /\ link'[c].down = l.down \o a /\ link'[c].from = l.from /\ link'[c].read = l.read
    BY ZenonT(40), <1>2, <2>3, <2>4 DEF Links
  <2>6. link' \in [Conns -> Links]
    BY <1>2, <2>2, <2>4, <2>5 DEF Kept
  <2> QED BY <1>4, <1>6, <2>4, <2>5, <2>6 DEF a
<1> QED BY <1>3, <1>5, <1>6 DEF Dispatch, Wants

\* Events logged and due keep the tally of every subscriber.
LEMMA LoggedTally ==
  ASSUME Typed, NEW c \in Conns, Tally(c), Kept(c), pc = "read", NEW events \in Seq(Nat),
         log' = log \o events,
         \/ events = <<>> /\ pc' = "read"
         \/ pc' = "dispatch" /\ pending' = events /\ c \in Range(sweep')
  PROVE  Tally(c)'
<1> DEFINE l == link[c]
           e == EventsIn(l.down)
<1>1. l.down \in Seq(Msg) /\ l.from \in Nat /\ l.read \in Nat /\ Len(log) \in Nat /\ log \in Seq(Nat) /\ Len(events) \in Nat
  BY DEF Typed, Links
<1>2. Len(e) \in Nat
  <2> HIDE DEF l
  <2>1. e \in Seq(Msg)
    BY <1>1, EventsInType
  <2> QED BY <2>1
<1>3. l.from + l.read + Len(e) + 0 = Len(log) /\ \A i \in 1..Len(e) : e[i].val = log[l.from + l.read + i]
  BY DEF Tally, Owed
<1>4. Owed(c)' = Len(events)
  BY DEF Owed
<1>5. Tally(c)' <=> /\ l.from + l.read + Len(e) + Len(events) = Len(log')
                    /\ \A i \in 1..Len(e) : e[i].val = log'[l.from + l.read + i]
  BY <1>4 DEF Tally, Kept
<1>6. Len(log') = Len(log) + Len(events) /\ \A i \in 1..Len(log) : log'[i] = log[i]
  <2>1. /\ Len(log') = Len(log) + Len(events)
        /\ \A i \in 1..Len(log) + Len(events) : log'[i] = IF i <= Len(log) THEN log[i] ELSE events[i - Len(log)]
    BY <1>1, ConcatProperties
  <2>2. \A i \in 1..Len(log) : i \in 1..Len(log) + Len(events) /\ i <= Len(log)
    BY <1>1
  <2> QED BY <2>1, <2>2
<1>7. PICK b \in Nat : b = l.from + l.read
  BY <1>1
<1> HIDE DEF l, e
<1>8. b + Len(e) = Len(log)
  <2>1. b + Len(e) + 0 = Len(log)
    BY <1>3, <1>7
  <2> QED BY <1>1, <1>2, <2>1
<1>9. b + Len(e) + Len(events) = Len(log')
  BY <1>6, <1>8
<1>10. \A i \in 1..Len(e) : e[i].val = log'[b + i]
  <2> TAKE i \in 1..Len(e)
  <2>1. b + i \in 1..Len(log)
    BY <1>1, <1>2, <1>8
  <2>2. e[i].val = log[b + i]
    BY <1>3, <1>7
  <2> QED BY <1>6, <2>1, <2>2
<1> QED BY <1>5, <1>7, <1>9, <1>10

LEMMA TickKeeps == ASSUME IInv, Tick PROVE IInv'
<1>1. PICK n \in {0, 1} :
       /\ changes' = changes + n
       /\ mode' = IF n = 1 THEN changes' ELSE mode
       /\ LET events == Ordered(IF n = 1 THEN <<changes'>> ELSE <<>>, pending)
          IN /\ log' = log \o events
             /\ \/ events = <<>> /\ Accept
                \/ /\ events # <<>>
                   /\ pc' = "dispatch" /\ pending' = events /\ sweep' = clients
                   /\ UNCHANGED <<backlog, clients>>
  BY DEF Tick
<1>2. running /\ pc = "read" /\ sweep = <<>> /\ UNCHANGED <<running, link, local, faults>>
  BY DEF Tick
<1> DEFINE ticked == IF n = 1 THEN <<changes'>> ELSE <<>>
           events == ticked \o pending
<1>3. /\ log' = log \o events
      /\ \/ events = <<>> /\ Accept
         \/ /\ events # <<>>
            /\ pc' = "dispatch" /\ pending' = events /\ sweep' = clients
            /\ UNCHANGED <<backlog, clients>>
  BY <1>1 DEF Ordered
<1>4. changes' \in Nat /\ mode' = changes' /\ ticked \in Seq(Nat)
  <2>1. changes' \in Nat /\ mode' = changes'
    BY <1>1 DEF IInv, Typed
  <2> QED BY <2>1
<1>5. ticked = <<>> => mode' = mode
  <2>1. n = 1 => ticked # <<>>
    OBVIOUS
  <2> QED BY <1>1, <2>1
<1> HIDE DEF ticked
<1>6. pending \in Seq(Nat) /\ log \in Seq(Nat)
  BY DEF IInv, Typed
<1>7. events \in Seq(Nat) /\ (events = <<>> => ticked = <<>> /\ pending = <<>>)
  <2>1. events \in Seq(Nat) /\ Len(events) = Len(ticked) + Len(pending) /\ Len(ticked) \in Nat /\ Len(pending) \in Nat
    BY <1>4, <1>6, ConcatProperties
  <2>2. events = <<>> => Len(events) = 0
    OBVIOUS
  <2>3. events = <<>> => Len(ticked) = 0 /\ Len(pending) = 0
    <3> HIDE DEF events
    <3> QED BY <2>1, <2>2
  <2>4. \A s \in Seq(Nat) : Len(s) = 0 => s = <<>>
    OBVIOUS
  <2> QED BY <1>4, <1>6, <2>1, <2>3, <2>4
<1> HIDE DEF events
<1>8. log' \in Seq(Nat) /\ Len(log) \in Nat /\ Len(events) \in Nat
      /\ Len(log') = Len(log) + Len(events)
      /\ \A i \in 1..Len(events) : log'[Len(log') - Len(events) + i] = events[i]
  <2>1. /\ log' \in Seq(Nat) /\ Len(log) \in Nat /\ Len(events) \in Nat
        /\ Len(log') = Len(log) + Len(events)
        /\ \A i \in 1..Len(log) + Len(events) : log'[i] = IF i <= Len(log) THEN log[i] ELSE events[i - Len(log)]
    BY <1>3, <1>6, <1>7, ConcatProperties
  <2>2. \A i \in 1..Len(events) : log'[Len(log') - Len(events) + i] = events[i]
    <3> TAKE i \in 1..Len(events)
    <3> DEFINE j == Len(log) + i
    <3>1. j \in 1..Len(log) + Len(events) /\ ~(j <= Len(log)) /\ j - Len(log) = i /\ Len(log') - Len(events) + i = j
      BY <2>1
    <3> HIDE DEF j
    <3> QED BY <2>1, <3>1
  <2> QED BY <2>1, <2>2
<1>9. \A c \in Conns : link[c].far /\ link[c].sub => c \in Range(clients)
  BY DEF IInv, LoopInv
<1>10. OwnInv' /\ ReqInv'
  BY <1>2, DaemonOwn DEF IInv
<1>11. \A c \in Conns : Kept(c)
  BY <1>2 DEF Kept
<1>12. CASE events = <<>> /\ Accept
  <2>1. /\ clients' \in Seq(Conns) /\ sweep' = clients' /\ backlog' = <<>> /\ pending' = <<>> /\ pc' = "read"
    BY <1>12, AcceptProperties DEF IInv
  <2>2. Typed'
    BY <1>2, <1>4, <1>8, <2>1, EmptyConns DEF IInv, Typed, local
  <2>3. LoopInv'
    BY <1>2, <1>12, AcceptLoop DEF IInv
  <2>4. log' = log /\ mode' = mode /\ \A c \in Conns : ~Due(c)
    <3>1. log \o <<>> = log
      BY <1>6
    <3> QED BY <1>2, <1>3, <1>5, <1>7, <1>12, <3>1 DEF Due
  <2>5. \A c \in Conns : Tally(c) => Tally(c)'
    BY <1>2, <1>3, <1>7, <1>11, <1>12, <2>1, LoggedTally DEF IInv
  <2>6. AllParts'
    BY <1>2, <2>4, <2>5, KeepsAll DEF IInv, AllParts
  <2> QED BY <1>10, <2>2, <2>3, <2>6 DEF IInv, AllParts
<1>13. CASE /\ events # <<>>
            /\ pc' = "dispatch" /\ pending' = events /\ sweep' = clients
            /\ UNCHANGED <<backlog, clients>>
  <2>1. Typed'
    BY <1>2, <1>4, <1>7, <1>8, <1>13 DEF IInv, Typed, local
  <2>2. LoopInv'
    <3>1. Len(events) <= Len(log')
      BY <1>8
    <3>2. Range(sweep') \subseteq Range(clients') /\ IsInjective(sweep')
      BY <1>13 DEF IInv, LoopInv
    <3> QED BY <1>2, <1>8, <1>13, <3>1, <3>2 DEF IInv, LoopInv
  <2>3. \A c \in Conns : link[c].far /\ link[c].sub => c \in Range(sweep') /\ Due(c)'
    BY <1>9, <1>13 DEF Due
  <2>4. \A c \in Conns : link[c].far /\ link[c].sub /\ Tally(c) => Tally(c)'
    BY <1>2, <1>3, <1>7, <1>11, <1>13, <2>3, LoggedTally DEF IInv
  <2>5. AllParts'
    BY <1>2, <2>3, <2>4, KeepsAll DEF IInv, AllParts
  <2> QED BY <1>10, <2>1, <2>2, <2>5 DEF IInv, AllParts
<1> QED BY <1>3, <1>12, <1>13

LEMMA RestOf ==
  ASSUME NEW u \in Seq(Frames), Len(u) >= 2
  PROVE  LET v == SubSeq(u, 3, Len(u)) IN
         /\ v \in Seq(Frames) /\ Len(v) = Len(u) - 2 /\ Len(u) \in Nat
         /\ \A i \in 1..Len(v) : i + 2 \in 1..Len(u) /\ i + 2 # 2 /\ v[i] = u[i + 2]
         /\ 1 \in 1..Len(u) /\ 2 \in 1..Len(u) /\ u[2] \in Frames
         /\ \A y : Has(v, y) => Has(u, y)
<1> DEFINE v == SubSeq(u, 3, Len(u))
<1>1. Len(u) \in Nat /\ 1 \in 1..Len(u) /\ 2 \in 1..Len(u) /\ \A i \in 3..Len(u) : u[i] \in Frames
  OBVIOUS
<1>2. /\ v \in Seq(Frames)
      /\ Len(v) = IF 3 <= Len(u) THEN Len(u) - 3 + 1 ELSE 0
      /\ \A i \in 1..Len(u) - 3 + 1 : v[i] = u[3 + i - 1]
  BY <1>1, SubSeqProperties
<1> HIDE DEF v
<1>3. Len(v) = Len(u) - 2
  <2>1. Len(u) \in Nat /\ Len(u) >= 2 /\ Len(v) = IF 3 <= Len(u) THEN Len(u) - 3 + 1 ELSE 0
    BY <1>1, <1>2
  <2>2. CASE 3 <= Len(u)
    BY <2>1, <2>2
  <2>3. CASE Len(u) = 2
    BY <2>1, <2>3
  <2> QED BY SMTT(40), <2>1, <2>2, <2>3
<1>4. ASSUME NEW i \in 1..Len(v) PROVE i + 2 \in 1..Len(u) /\ i + 2 # 2 /\ v[i] = u[i + 2]
  <2>1. i \in 1..Len(u) - 3 + 1 /\ 3 + i - 1 = i + 2
    BY <1>1, <1>3
  <2>2. i + 2 \in 1..Len(u) /\ i + 2 # 2
    BY <1>1, <1>3
  <2> QED BY <1>2, <2>1, <2>2
<1>5. \A y : Has(v, y) => Has(u, y)
  BY <1>4 DEF Has
<1>6. u[2] \in Frames
  BY <1>1
<1>7. /\ v \in Seq(Frames) /\ Len(v) = Len(u) - 2 /\ Len(u) \in Nat
      /\ \A i \in 1..Len(v) : i + 2 \in 1..Len(u) /\ i + 2 # 2 /\ v[i] = u[i + 2]
      /\ 1 \in 1..Len(u) /\ 2 \in 1..Len(u) /\ u[2] \in Frames
      /\ \A y : Has(v, y) => Has(u, y)
  BY <1>1, <1>2, <1>3, <1>4, <1>5, <1>6
<1> QED BY <1>7 DEF v

LEMMA AppendMsgs ==
  ASSUME NEW d \in Seq(Msg), NEW m \in Msg
  PROVE  LET e == Append(d, m) IN
         /\ e \in Seq(Msg) /\ Len(e) = Len(d) + 1 /\ Len(d) \in Nat
         /\ \A i \in 1..Len(e) : (i \in 1..Len(d) /\ e[i] = d[i]) \/ (i = Len(e) /\ e[i] = m)
         /\ \A k : HasKind(e, k) => HasKind(d, k) \/ k = m.kind
<1> DEFINE e == Append(d, m)
<1>1. /\ e \in Seq(Msg) /\ Len(e) = Len(d) + 1 /\ Len(d) \in Nat
      /\ \A i \in 1..Len(e) : e[i] = IF i = Len(d) + 1 THEN m ELSE d[i]
  OBVIOUS
<1> HIDE DEF e
<1>2. \A i \in 1..Len(e) : (i \in 1..Len(d) /\ e[i] = d[i]) \/ (i = Len(e) /\ e[i] = m)
  BY <1>1
<1>3. \A k : HasKind(e, k) => HasKind(d, k) \/ k = m.kind
  BY <1>2 DEF HasKind
<1> QED BY <1>1, <1>2, <1>3 DEF e

\* What reading a request leaves of its connection, before the response.
LEMMA MarkedProperties ==
  ASSUME NEW l \in Links, NEW v \in Seq(Frames), NEW r, log \in Seq(Nat)
  PROVE  LET k == Marked([l EXCEPT !.up = v], r) IN
         /\ k \in Links /\ k.near = l.near /\ k.far = l.far /\ k.up = v /\ k.down = l.down
         /\ k.sub = (l.sub \/ r = "subscribe")
         /\ r = "subscribe" => k.from = Len(log) /\ k.read = 0
         /\ r # "subscribe" => k.from = l.from /\ k.read = l.read
<1> DEFINE j == [l EXCEPT !.up = v]
<1>1. /\ j \in Links /\ j.up = v /\ j.near = l.near /\ j.far = l.far /\ j.sub = l.sub
      /\ j.down = l.down /\ j.from = l.from /\ j.read = l.read
  BY WithParts
<1>2. Len(log) \in Nat /\ l.sub \in BOOLEAN
  BY DEF Links
<1> HIDE DEF j
<1>3. CASE r = "subscribe"
  <2>1. Marked(j, r) = [j EXCEPT !.sub = TRUE, !.from = Len(log), !.read = 0]
    BY <1>3 DEF Marked
  <2> DEFINE k == [j EXCEPT !.sub = TRUE, !.from = Len(log), !.read = 0]
  <2>2. /\ k \in Links /\ k.near = j.near /\ k.far = j.far /\ k.up = j.up /\ k.down = j.down
        /\ k.sub = TRUE /\ k.from = Len(log) /\ k.read = 0
    BY <1>1, <1>2 DEF Links
  <2> HIDE DEF k
  <2>3. Marked([l EXCEPT !.up = v], r) = k
    BY <2>1 DEF j, k
  <2> QED BY <1>1, <1>3, <2>2, <2>3
<1>4. CASE r # "subscribe"
  <2>1. Marked(j, r) = j
    BY <1>4 DEF Marked
  <2> QED BY <1>1, <1>2, <1>4, <2>1 DEF j
<1> QED BY <1>3, <1>4

\* What handling a request does and answers.
LEMMA Handled ==
  ASSUME Typed, NEW r \in Frames, NEW response \in Responses, Handle(r, response)
  PROVE  /\ response \in Msg /\ response.kind # "event" /\ response.of = r
         /\ changes' \in Nat /\ mode' = changes' /\ pending' \in Seq(Nat)
         /\ pending' # <<>> \/ (mode' = mode /\ pending' = pending)
         /\ r \in {"hello", "subscribe", "status"} => mode' = mode /\ pending' = pending
         /\ r = "hello" => response.kind = "hello"
         /\ r = "subscribe" => response.kind = "ok"
         /\ r = "status" => response.kind = "status" /\ response.val = mode
<1>1. MaxChanges \in Nat /\ mode = changes /\ changes \in Nat /\ pending \in Seq(Nat)
  BY IpcAssumption DEF Typed
<1>2. response \in Msg /\ response.kind # "event"
  BY <1>1 DEF Responses, Msg
<1>3. CASE r = "set" /\ changes' = changes + 1 /\ mode' = changes' /\ pending' = Append(pending, changes')
           /\ response = Reply("ok", r, 0)
  <2>1. changes' \in Nat /\ pending' \in Seq(Nat) /\ pending' # <<>>
    BY <1>1, <1>3
  <2> QED BY <1>2, <1>3, <2>1 DEF Reply
<1>4. CASE r = "set" /\ response = Reply("error", r, 0) /\ UNCHANGED <<changes, mode, pending>>
  BY <1>1, <1>2, <1>4 DEF Reply
<1>5. CASE r # "set" /\ UNCHANGED <<changes, mode, pending>>
           /\ response = CASE r = "hello"     -> Reply("hello", r, 0)
                           [] r = "subscribe" -> Reply("ok", r, 0)
                           [] OTHER           -> Reply("status", r, mode)
  <2>1. /\ r = "hello" => response = Reply("hello", r, 0)
        /\ r = "subscribe" => response = Reply("ok", r, 0)
        /\ r \notin {"hello", "subscribe"} => response = Reply("status", r, mode)
    BY <1>5
  <2> QED BY <1>1, <1>2, <1>5, <2>1 DEF Reply
<1> QED BY <1>3, <1>4, <1>5 DEF Handle

\* A response of any kind but an event keeps what a connection is owed.
LEMMA AnsweredLink ==
  ASSUME Typed, NEW c \in Conns, LinkInv(c), link[c].near, link[c].far, Len(link[c].up) >= 2, pc = "read", pc' = "read",
         log' = log, NEW m \in Msg, m.kind # "event",
         link'[c].up = SubSeq(link[c].up, 3, Len(link[c].up)), link'[c].down = Append(link[c].down, m),
         link'[c].sub = (link[c].sub \/ link[c].up[2] = "subscribe"),
         link[c].up[2] = "subscribe" => link'[c].from = Len(log) /\ link'[c].read = 0,
         link[c].up[2] # "subscribe" => link'[c].from = link[c].from /\ link'[c].read = link[c].read
  PROVE  LinkInv(c)'
<1> DEFINE l == link[c]
           u == l.up
           v == SubSeq(u, 3, Len(u))
           d == l.down
<1>1. u \in Seq(Frames) /\ d \in Seq(Msg) /\ Len(u) >= 2 /\ Len(log) \in Nat
  BY DEF Typed, Links
<1>2. /\ ~l.sub => EventsIn(d) = <<>>
      /\ l.sub => Tally(c) /\ ~Has(u, "subscribe")
      /\ \A i, j \in 1..Len(u) : u[i] = "subscribe" /\ u[j] = "subscribe" => i = j
  BY DEF LinkInv
<1>3. Owed(c) = 0 /\ Owed(c)' = 0
  BY DEF Owed
<1>4. /\ link'[c].up = v /\ link'[c].down = Append(d, m) /\ link'[c].sub = (l.sub \/ u[2] = "subscribe")
      /\ u[2] = "subscribe" => link'[c].from = Len(log) /\ link'[c].read = 0
      /\ u[2] # "subscribe" => link'[c].from = l.from /\ link'[c].read = l.read
  OBVIOUS
<1>5. l.sub => Tally(c) /\ l.from + l.read + Len(EventsIn(d)) + 0 = Len(log)
               /\ \A i \in 1..Len(EventsIn(d)) : EventsIn(d)[i].val = log[l.from + l.read + i]
  BY <1>2, <1>3 DEF Tally
<1> HIDE DEF l, u, d
<1>6. /\ \A i \in 1..Len(v) : i + 2 \in 1..Len(u) /\ i + 2 # 2 /\ v[i] = u[i + 2]
      /\ 2 \in 1..Len(u) /\ \A y : Has(v, y) => Has(u, y)
  BY <1>1, RestOf
<1>7. EventsIn(Append(d, m)) = EventsIn(d)
  BY <1>1, EventsInAppend
<1> HIDE DEF v
<1>8. \A i, j \in 1..Len(v) : v[i] = "subscribe" /\ v[j] = "subscribe" => i = j
  <2> TAKE i, j \in 1..Len(v)
  <2> HAVE v[i] = "subscribe" /\ v[j] = "subscribe"
  <2>1. i + 2 \in 1..Len(u) /\ u[i + 2] = "subscribe" /\ j + 2 \in 1..Len(u) /\ u[j + 2] = "subscribe"
    BY <1>6
  <2>2. i + 2 = j + 2
    BY <1>2, <2>1
  <2>3. i \in Int /\ j \in Int
    OBVIOUS
  <2> QED BY <2>2, <2>3
<1>9. u[2] = "subscribe" => ~l.sub /\ ~Has(v, "subscribe")
  <2> HAVE u[2] = "subscribe"
  <2>1. Has(u, "subscribe")
    BY <1>6 DEF Has
  <2>2. \A i \in 1..Len(v) : v[i] # "subscribe"
    BY <1>2, <1>6
  <2> QED BY <1>2, <2>1, <2>2 DEF Has
<1>10. link'[c].sub => Tally(c)' /\ ~Has(v, "subscribe")
  <2>1. CASE u[2] = "subscribe"
    <3>1. EventsIn(Append(d, m)) = <<>> /\ Len(<<>>) = 0
      BY <1>2, <1>7, <1>9, <2>1
    <3>2. Len(log) + 0 + 0 + 0 = Len(log)
      BY <1>1
    <3> QED BY <1>3, <1>4, <1>9, <2>1, <3>1, <3>2 DEF Tally
  <2>2. CASE u[2] # "subscribe"
    <3> SUFFICES ASSUME link'[c].sub PROVE Tally(c)' /\ ~Has(v, "subscribe")
      OBVIOUS
    <3>1. l.sub
      BY <1>4, <2>2
    <3>2. ~Has(v, "subscribe")
      BY <1>2, <1>6, <3>1
    <3>3. link'[c].from = l.from /\ link'[c].read = l.read /\ EventsIn(link'[c].down) = EventsIn(d)
      BY <1>4, <1>7, <2>2
    <3>4. Tally(c)'
      BY <1>3, <1>5, <3>1, <3>3 DEF Tally
    <3> QED BY <3>2, <3>4
  <2> QED BY <2>1, <2>2
<1>11. ~link'[c].sub => EventsIn(link'[c].down) = <<>>
  BY <1>2, <1>4, <1>7
<1> QED BY <1>4, <1>8, <1>10, <1>11 DEF LinkInv

LEMMA AnsweredPanel ==
  ASSUME Typed, OwnInv, ReqInv, NEW p \in Panels, PanelInv(p), UNCHANGED local, conn[p] # 0,
         link[conn[p]].far, Len(link[conn[p]].up) >= 2,
         NEW m \in Msg, m.of = link[conn[p]].up[2],
         LET l == link[conn[p]] k == link'[conn[p]] IN
           /\ k.up = SubSeq(l.up, 3, Len(l.up)) /\ k.down = Append(l.down, m)
           /\ k.sub = (l.sub \/ l.up[2] = "subscribe")
  PROVE  PanelInv(p)'
<1> DEFINE l == link[conn[p]]
           k == link'[conn'[p]]
<1>0. p \in Clients /\ p \notin Streams /\ l.up \in Seq(Frames)
  BY IpcAssumption DEF Clients, Typed, Links
<1>1. conn'[p] = conn[p] /\ at' = at /\ req' = req
  BY DEF local
<1>2. Len(<<>>) = 0 /\ Len(<<"header">>) = 1
  OBVIOUS
<1>3. /\ ~l.sub /\ at[p] # "listen" /\ at[p] \notin {"ready", "send", "body"}
      /\ at[p] = "wait" => l.down = <<>> /\ l.up = <<"header", req[p]>>
  BY <1>2 DEF PanelInv
<1>4. at[p] = "wait"
  BY <1>0, <1>3 DEF Places, OwnInv, Typed
<1>5. req[p] # "subscribe"
  BY <1>0 DEF ReqInv
<1>6. k.up = SubSeq(l.up, 3, Len(l.up)) /\ k.down = Append(l.down, m) /\ k.sub = (l.sub \/ l.up[2] = "subscribe")
      /\ m.of = l.up[2]
  BY <1>1
<1> HIDE DEF l, k
<1>7. l.up = <<"header", req[p]>> /\ l.down = <<>>
  BY <1>3, <1>4
<1>8. l.up[2] = req[p] /\ Len(l.up) = 2
  BY <1>7
<1>9. SubSeq(l.up, 3, Len(l.up)) = <<>>
  BY <1>0, <1>8, SubSeqEmpty
<1>10. k.up = <<>> /\ k.down = Append(<<>>, m) /\ ~k.sub /\ m.of = req[p]
  BY <1>3, <1>5, <1>6, <1>7, <1>8, <1>9
<1>11. Len(k.down) = 1 /\ k.down[1] = m
  BY <1>10
<1> QED BY <1>1, <1>4, <1>10, <1>11 DEF PanelInv, k

LEMMA AnsweredStream ==
  ASSUME Typed, NEW s \in Streams, StreamInv(s), HeardInv(s), UNCHANGED local, conn[s] # 0,
         link[conn[s]].far, Len(link[conn[s]].up) >= 2,
         NEW m \in Msg,
         LET l == link[conn[s]] k == link'[conn[s]] IN
           /\ k.up = SubSeq(l.up, 3, Len(l.up)) /\ k.down = Append(l.down, m)
           /\ k.sub = (l.sub \/ l.up[2] = "subscribe")
           /\ l.up[2] = "hello" => m.kind = "hello"
           /\ l.up[2] = "subscribe" => m.kind = "ok"
           /\ l.up[2] = "status" => m.kind = "status" /\ m.val = mode'
  PROVE  StreamInv(s)' /\ HeardInv(s)'
<1> DEFINE l == link[conn[s]]
           k == link'[conn'[s]]
           u == l.up
           v == SubSeq(u, 3, Len(u))
           d == l.down
           a == at[s]
           r == req[s]
<1>0. s \in Clients
  BY DEF Clients
<1>1. u \in Seq(Frames) /\ d \in Seq(Msg) /\ Len(u) >= 2 /\ l.sub \in BOOLEAN
  BY <1>0 DEF Typed, Links
<1>2. /\ k.up = v /\ k.down = Append(d, m) /\ k.sub = (l.sub \/ u[2] = "subscribe")
      /\ u[2] = "hello" => m.kind = "hello"
      /\ u[2] = "subscribe" => m.kind = "ok"
      /\ u[2] = "status" => m.kind = "status" /\ m.val = mode'
      /\ at' = at /\ req' = req /\ snapped' = snapped /\ conn' = conn
  BY DEF local
<1>3. StreamOk(u, d, l.sub, a, r)
  BY DEF StreamInv
<1>4. ~HasKind(d, "status") /\ ~snapped[s]
  <2>1. Len(u) # 0 /\ Len(<<>>) = 0
    BY <1>1
  <2>2. u # <<>>
    BY <2>1
  <2>3. /\ \A i \in 1..Len(d) : d[i].kind = "status" => u = <<>>
        /\ snapped[s] => u = <<>>
    BY DEF HeardInv
  <2> QED BY <2>2, <2>3 DEF HasKind
<1> HIDE DEF l, u, d, a, r
<1>5. /\ v \in Seq(Frames) /\ Len(v) = Len(u) - 2 /\ Len(u) \in Nat
      /\ \A i \in 1..Len(v) : i + 2 \in 1..Len(u) /\ i + 2 # 2 /\ v[i] = u[i + 2]
      /\ 1 \in 1..Len(u) /\ 2 \in 1..Len(u) /\ u[2] \in Frames
      /\ \A y : Has(v, y) => Has(u, y)
  BY <1>1, RestOf
<1> HIDE DEF v, k
<1> DEFINE e == k.down
<1>6. /\ Len(e) = Len(d) + 1 /\ Len(d) \in Nat
      /\ \A i \in 1..Len(e) : (i \in 1..Len(d) /\ e[i] = d[i]) \/ (i = Len(e) /\ e[i] = m)
      /\ \A x : HasKind(e, x) => HasKind(d, x) \/ x = m.kind
  BY <1>1, <1>2, AppendMsgs
<1> HIDE DEF e
<1>7. Alternates(u) /\ LastStatus(u)
  BY <1>3 DEF StreamOk
<1>8. u[2] \in {"hello", "subscribe", "status"}
  <2>1. u[2] \in {"header", "hello", "subscribe", "status"} /\ (u[2] = "header" <=> 2 % 2 = 1)
    BY <1>5, <1>7 DEF Alternates
  <2>2. 2 % 2 = 0
    OBVIOUS
  <2> QED BY <2>1, <2>2
<1>9. \A n \in Nat : (n + 2) % 2 = 1 <=> n % 2 = 1
  <2> TAKE n \in Nat
  <2>1. (n + 1) + 1 = n + 2 /\ n + 1 \in Nat
    OBVIOUS
  <2>2. \A x \in Nat : x % 2 = 1 \/ x % 2 = 0
    OBVIOUS
  <2> QED BY <2>1, <2>2, Odd
<1>10. Alternates(v)
  <2> SUFFICES ASSUME NEW i \in 1..Len(v)
               PROVE v[i] \in {"header", "hello", "subscribe", "status"} /\ (v[i] = "header" <=> i % 2 = 1)
    BY DEF Alternates
  <2>1. i + 2 \in 1..Len(u) /\ v[i] = u[i + 2] /\ i \in Nat
    BY <1>5
  <2>2. (i + 2) % 2 = 1 <=> i % 2 = 1
    BY <1>9, <2>1
  <2> QED BY <1>7, <2>1, <2>2 DEF Alternates
<1>11. Len(v) % 2 = 1 <=> Len(u) % 2 = 1
  <2>1. Len(v) \in Nat /\ Len(u) = Len(v) + 2
    BY <1>1, <1>5
  <2> QED BY <1>9, <2>1
<1>12. u[2] = "status" => v = <<>>
  <2> HAVE u[2] = "status"
  <2>1. Len(u) = 2
    BY <1>5, <1>7 DEF LastStatus
  <2>2. Len(v) = 0
    BY <1>5, <2>1
  <2> QED BY <1>5, <2>2
<1>13. LastStatus(v)
  <2> SUFFICES ASSUME NEW i \in 1..Len(v), v[i] = "status" PROVE i = Len(v)
    BY DEF LastStatus
  <2>1. i + 2 = Len(u)
    BY <1>5, <1>7 DEF LastStatus
  <2> QED BY <1>5, <2>1
<1>14. Has(u, u[2])
  BY <1>5 DEF Has
<1>15. Has(v, "status") => u[2] # "status"
  BY <1>12, <1>5 DEF Has
<1>16. StreamOk(v, e, k.sub, a, r)
  <2>1. /\ NotSubscribed(a, r) => ~l.sub /\ ~Has(u, "subscribe")
        /\ HasKind(d, "ok") => l.sub
        /\ a = "listen" \/ r = "status" => l.sub
        /\ ~StatusAsked(a, r) => ~Has(u, "status") /\ ~HasKind(d, "status")
        /\ a # "ready" /\ r \in {"hello", "subscribe", "status"} /\ (a = "body" <=> Len(u) % 2 = 1)
    BY <1>3 DEF StreamOk
  <2>2. NotSubscribed(a, r) => ~k.sub /\ ~Has(v, "subscribe")
    BY <1>2, <1>5, <1>14, <2>1
  <2>3. HasKind(e, "ok") => k.sub
    BY <1>2, <1>6, <1>8, <2>1
  <2>4. a = "listen" \/ r = "status" => k.sub
    BY <1>2, <2>1
  <2>5. HasKind(e, "status") => u[2] = "status"
    BY <1>2, <1>4, <1>6, <1>8
  <2>6. ~StatusAsked(a, r) => ~Has(v, "status") /\ ~HasKind(e, "status")
    BY <1>5, <1>14, <2>1, <2>5
  <2>7. Has(v, "status") => ~HasKind(e, "status")
    BY <1>15, <2>5
  <2> QED BY <1>10, <1>11, <1>13, <2>1, <2>2, <2>3, <2>4, <2>6, <2>7 DEF StreamOk
<1>17. StreamInv(s)'
  BY <1>2, <1>16 DEF StreamInv, k, e, a, r
<1>18. ASSUME NEW i \in 1..Len(e), e[i].kind = "status"
       PROVE  v = <<>> /\ i = Len(e) /\ e[i].val = mode'
  <2>1. i = Len(e) /\ e[i] = m
    BY <1>4, <1>6, <1>18 DEF HasKind
  <2>2. u[2] = "status"
    BY <1>2, <1>8, <1>18, <2>1
  <2> QED BY <1>2, <1>12, <2>1, <2>2
<1>19. \A i \in 1..Len(e) : \A j \in i + 1..Len(e) : i # Len(e)
  BY <1>6
<1>20. HeardInv(s)'
  BY <1>2, <1>4, <1>18, <1>19 DEF HeardInv, k, e
<1> QED BY <1>17, <1>20

LEMMA SentProperties ==
  ASSUME NEW l \in Links, NEW m \in Msg
  PROVE  LET k == Sent(l, m) IN
         /\ k \in Links /\ k.near = l.near /\ k.far = l.far /\ k.up = l.up /\ k.sub = l.sub
         /\ k.down = Append(l.down, m) /\ k.from = l.from /\ k.read = l.read
<1>1. Append(l.down, m) \in Seq(Msg)
  BY DEF Links
<1> QED BY <1>1 DEF Sent, Links

LEMMA ReadRequestKeeps == ASSUME IInv, NEW c \in Conns, ReadRequest(c) PROVE IInv'
<1> DEFINE l == link[c]
           u == l.up
           v == SubSeq(u, 3, Len(u))
           r == u[2]
           k == Marked([l EXCEPT !.up = v], r)
<1>1. /\ pc = "read" /\ Visit(c) /\ Len(u) >= 2 /\ sweep' = Tail(sweep)
      /\ UNCHANGED <<running, pc, backlog, log, local, faults>>
  BY DEF ReadRequest
<1>2. PICK response \in Responses :
          /\ Handle(r, response)
          /\ IF l.near
             THEN /\ link' = [link EXCEPT ![c] = Sent(k, response)]
                  /\ UNCHANGED clients
             ELSE /\ link' = [link EXCEPT ![c] = HangFar(k)]
                  /\ clients' = Dropped(c)
  BY DEF ReadRequest
<1>3. l \in Links /\ link \in [Conns -> Links] /\ l.far /\ u \in Seq(Frames) /\ log \in Seq(Nat)
      /\ l.near \in BOOLEAN /\ Typed
  <2>1. l.far
    BY <1>1, Visited DEF IInv
  <2>2. l \in Links /\ link \in [Conns -> Links] /\ log \in Seq(Nat)
    BY DEF IInv, Typed
  <2> QED BY <2>1, <2>2 DEF Links, IInv
<1>4. v \in Seq(Frames) /\ r \in Frames
  <2> HIDE DEF u
  <2> QED BY <1>1, <1>3, RestOf
<1>5. /\ k \in Links /\ k.near = l.near /\ k.far = l.far /\ k.up = v /\ k.down = l.down
      /\ k.sub = (l.sub \/ r = "subscribe")
      /\ r = "subscribe" => k.from = Len(log) /\ k.read = 0
      /\ r # "subscribe" => k.from = l.from /\ k.read = l.read
  <2> HIDE DEF l, u, v, r, k
  <2>1. l \in Links /\ v \in Seq(Frames) /\ log \in Seq(Nat)
    BY <1>3, <1>4
  <2>2. LET j == Marked([l EXCEPT !.up = v], r) IN
         /\ j \in Links /\ j.near = l.near /\ j.far = l.far /\ j.up = v /\ j.down = l.down
         /\ j.sub = (l.sub \/ r = "subscribe")
         /\ r = "subscribe" => j.from = Len(log) /\ j.read = 0
         /\ r # "subscribe" => j.from = l.from /\ j.read = l.read
    BY <2>1, MarkedProperties
  <2> QED BY <2>2 DEF k
<1> HIDE DEF k, v, r
<1>6. /\ response \in Msg /\ response.kind # "event" /\ response.of = r
      /\ changes' \in Nat /\ mode' = changes' /\ pending' \in Seq(Nat)
      /\ pending' # <<>> \/ (mode' = mode /\ pending' = pending)
      /\ r \in {"hello", "subscribe", "status"} => mode' = mode /\ pending' = pending
      /\ r = "hello" => response.kind = "hello"
      /\ r = "subscribe" => response.kind = "ok"
      /\ r = "status" => response.kind = "status" /\ response.val = mode
  BY <1>2, <1>3, <1>4, Handled
<1>7. \A d \in Conns \ {c} : link'[d] = link[d]
  BY <1>2, <1>3
<1>8. \A d \in Conns \ {c} : Kept(d) /\ (Due(d)' \/ (~Due(d) /\ mode' = mode /\ log' = log))
  BY <1>1, <1>6, <1>7 DEF Kept, Due
<1>9. \A d \in Conns \ {c} : Tally(d)' = Tally(d)
  BY <1>1, <1>7 DEF Tally, Owed
<1>10. CASE l.near
  <2> DEFINE g == Sent(k, response)
  <2>1. /\ g \in Links /\ g.near = k.near /\ g.far = k.far /\ g.up = k.up /\ g.sub = k.sub
        /\ g.down = Append(k.down, response) /\ g.from = k.from /\ g.read = k.read
    BY <1>5, <1>6, SentProperties
  <2>2. link' = [link EXCEPT ![c] = g] /\ clients' = clients
    BY <1>2, <1>10
  <2> HIDE DEF g
  <2>3. link'[c] = g /\ link' \in [Conns -> Links]
    BY <1>3, <2>1, <2>2
  <2>4. /\ link'[c].near = l.near /\ link'[c].far = l.far /\ link'[c].up = v /\ link'[c].sub = (l.sub \/ r = "subscribe")
        /\ link'[c].down = Append(l.down, response)
        /\ r = "subscribe" => link'[c].from = Len(log) /\ link'[c].read = 0
        /\ r # "subscribe" => link'[c].from = l.from /\ link'[c].read = l.read
    BY <1>5, <2>1, <2>3
  <2>5. LoopInv' /\ sweep' \in Seq(Conns)
    BY <1>1, <1>8, <2>2, <2>4, KeepLoop DEF IInv
  <2>6. Typed'
    BY <1>1, <1>6, <2>2, <2>3, <2>5 DEF IInv, Typed, local
  <2>7. OwnInv' /\ ReqInv'
    <3>1. \A d \in Conns : link'[d].near = link[d].near
      BY <1>7, <2>4
    <3> QED BY <1>1, <3>1, DaemonOwn DEF IInv
  <2>8. LinkInv(c)'
    <3>1. LinkInv(c) /\ pc' = "read" /\ log' = log
      BY <1>1 DEF IInv
    <3> QED BY <1>1, <1>3, <1>6, <1>10, <2>4, <3>1, AnsweredLink DEF v, r
  <2>9. \A p \in Panels : conn[p] = c => PanelInv(p)'
    <3> SUFFICES ASSUME NEW p \in Panels, conn[p] = c PROVE PanelInv(p)'
      OBVIOUS
    <3>1. conn[p] # 0 /\ PanelInv(p) /\ OwnInv /\ ReqInv
      BY <3>1, IpcAssumption DEF IInv
    <3> QED BY <1>1, <1>3, <1>6, <2>4, <3>1, AnsweredPanel DEF v, r
  <2>10. \A s \in Streams : conn[s] = c => StreamInv(s)' /\ HeardInv(s)'
    <3> SUFFICES ASSUME NEW s \in Streams, conn[s] = c PROVE StreamInv(s)' /\ HeardInv(s)'
      OBVIOUS
    <3>1. conn[s] # 0 /\ StreamInv(s) /\ HeardInv(s)
      BY IpcAssumption DEF IInv
    <3> QED BY <1>1, <1>3, <1>6, <2>4, <3>1, AnsweredStream DEF v, r
  <2>11. AllParts'
    BY <1>1, <1>8, <1>9, <2>8, <2>9, <2>10, OneConn DEF IInv, AllParts
  <2> QED BY <2>5, <2>6, <2>7, <2>11 DEF IInv, AllParts
<1>11. CASE ~l.near
  <2>1. /\ HangFar(k) \in Links /\ ~HangFar(k).far /\ HangFar(k).near = k.near
    BY <1>5, HangProperties
  <2>2. link' = [link EXCEPT ![c] = HangFar(k)] /\ clients' = Dropped(c)
    BY <1>2, <1>11
  <2>3. link'[c] = HangFar(k) /\ link' \in [Conns -> Links]
    BY <1>3, <2>1, <2>2
  <2>4. Cut(c) /\ ~link'[c].near
    BY <1>5, <1>11, <2>1, <2>3 DEF Cut
  <2>5. LoopInv' /\ clients' \in Seq(Conns) /\ sweep' \in Seq(Conns)
    BY <1>1, <1>8, <2>1, <2>2, <2>3, DropLoop DEF IInv
  <2>6. Typed'
    BY <1>1, <1>6, <2>3, <2>5 DEF IInv, Typed, local
  <2>7. OwnInv' /\ ReqInv'
    <3>1. \A d \in Conns : link'[d].near = link[d].near
      BY <1>7, <2>4 DEF Cut
    <3> QED BY <1>1, <3>1, DaemonOwn DEF IInv
  <2>8. \A p \in Clients : conn[p] # c
    BY <1>11, IpcAssumption DEF IInv, OwnInv
  <2>9. Streams \subseteq Clients /\ Panels \subseteq Clients
    BY DEF Clients
  <2>10. LinkInv(c)'
    BY <2>4, CutLink
  <2>11. AllParts'
    BY <1>1, <1>8, <1>9, <2>8, <2>9, <2>10, OneConn DEF IInv, AllParts
  <2> QED BY <2>5, <2>6, <2>7, <2>11 DEF IInv, AllParts
<1> QED BY <1>3, <1>10, <1>11

LEMMA InitIInv == Init => IInv
<1> SUFFICES ASSUME Init PROVE IInv
  OBVIOUS
<1>1. Unused \in Links /\ ~Unused.near /\ ~Unused.far /\ ~Unused.sub
  BY DEF Unused, Links
<1>2. /\ running = TRUE /\ pc = "read"
      /\ backlog = <<>> /\ clients = <<>> /\ sweep = <<>> /\ pending = <<>>
      /\ mode = 0 /\ changes = 0 /\ log = <<>>
      /\ link = [c \in Conns |-> Unused]
      /\ at = [p \in Clients |-> "idle"] /\ conn = [p \in Clients |-> 0]
      /\ req = [p \in Clients |-> "hello"]
      /\ snapped = [s \in Streams |-> FALSE] /\ view = [s \in Streams |-> 0]
      /\ faults = 0
  BY DEF Init
<1> HIDE DEF Init
<1>3. link \in [Conns -> Links] /\ \A c \in Conns : ~link[c].near /\ ~link[c].far
  BY <1>1, <1>2
<1>4. Typed
  <2>1. <<>> \in Seq(Conns) /\ <<>> \in Seq(Nat)
    OBVIOUS
  <2> QED BY <1>2, <1>3, <2>1 DEF Typed, Places
<1>5. LoopInv
  <2>1. {c \in Conns : link[c].far} = {}
    BY <1>3
  <2> QED BY <1>2, <2>1, EmptyConns DEF LoopInv
<1>6. OwnInv /\ ReqInv
  BY <1>2 DEF OwnInv, ReqInv
<1>7. \A p \in Clients : conn[p] = 0
  BY <1>2
<1>8. Streams \subseteq Clients /\ Panels \subseteq Clients
  BY DEF Clients
<1>9. \A p \in Panels : PanelInv(p)
  BY <1>7, <1>8 DEF PanelInv
<1>10. \A s \in Streams : StreamInv(s) /\ HeardInv(s)
  BY <1>7, <1>8 DEF StreamInv, HeardInv
<1>11. \A c \in Conns : LinkInv(c)
  BY <1>3 DEF LinkInv
<1> QED BY <1>4, <1>5, <1>6, <1>9, <1>10, <1>11 DEF IInv

LEMMA StutterKeeps == ASSUME IInv, UNCHANGED vars PROVE IInv'
<1>1. UNCHANGED <<running, pc, backlog, clients, sweep, pending, mode, changes, log, link, at, conn, req, snapped, view, faults>>
  BY DEF vars, server, local
<1>2. Typed' /\ LoopInv' /\ OwnInv' /\ ReqInv'
  BY <1>1 DEF IInv, Typed, LoopInv, OwnInv, ReqInv
<1>3. \A c \in Conns : Owed(c)' = Owed(c) /\ Due(c)' = Due(c)
  BY <1>1 DEF Owed, Due
<1>4. \A c \in Conns : Tally(c)' = Tally(c)
  BY <1>1, <1>3 DEF Tally
<1>5. UNCHANGED local
  BY <1>1 DEF local
<1>6. \A p \in Panels : PanelInv(p)'
  BY <1>1 DEF IInv, PanelInv
<1>7. \A c \in Conns : LinkInv(c)'
  BY <1>1, <1>4 DEF IInv, LinkInv
<1>8. \A s \in Streams : StreamInv(s)' /\ HeardInv(s)'
  BY <1>1, OtherStreams DEF IInv
<1> QED BY <1>2, <1>6, <1>7, <1>8 DEF IInv

LEMMA NextIInv == ASSUME IInv, [Next]_vars PROVE IInv'
<1>1. CASE Tick
  BY <1>1, TickKeeps
<1>2. CASE Dispatched
  BY <1>2, DispatchedKeeps
<1>3. CASE \E c \in Conns : ReadNothing(c) \/ ReadHalf(c) \/ ReadRequest(c) \/ Dispatch(c)
  BY <1>3, ReadNothingKeeps, ReadHalfKeeps, ReadRequestKeeps, DispatchKeeps
<1>4. CASE Crash
  BY <1>4, CrashKeeps
<1>5. CASE Restart
  BY <1>5, RestartKeeps
<1>6. CASE \E p \in Clients : ClientAction(p)
  BY <1>6, MoveKeeps
<1>7. CASE UNCHANGED vars
  BY <1>7, StutterKeeps
<1>8. Streams \subseteq Clients /\ Panels \subseteq Clients
  BY DEF Clients
<1> QED BY <1>1, <1>2, <1>3, <1>4, <1>5, <1>6, <1>7, <1>8 DEF Next, Loop, ClientAction

\* IInv holds in every reachable state: the loop's vectors hold every open
\* connection once (main.rs, accept and retain_mut), and every connection carries
\* what the code at its two ends says it carries.
THEOREM Invariance == Spec => []IInv
<1>1. Init => IInv
  BY InitIInv
<1>2. IInv /\ [Next]_vars => IInv'
  BY NextIInv
<1> QED BY <1>1, <1>2, PTL DEF Spec

LEMMA TallySubSeq ==
  ASSUME NEW e \in Seq(Msg), NEW g \in Seq(Nat), NEW b \in Nat, NEW o \in Nat, b + Len(e) + o = Len(g),
         \A i \in 1..Len(e) : e[i].val = g[b + i]
  PROVE  [i \in DOMAIN e |-> e[i].val] = SubSeq(g, b + 1, Len(g) - o)
<1> DEFINE n == Len(e)
           x == [i \in 1..n |-> g[b + i]]
           y == SubSeq(g, b + 1, Len(g) - o)
<1>1. n \in Nat /\ Len(g) \in Nat /\ DOMAIN e = 1..n /\ b + n + o = Len(g) /\ b \in Nat /\ o \in Nat
  OBVIOUS
<1> HIDE DEF n
<1>2. \A i \in b + 1..Len(g) - o : g[i] \in Nat
  BY <1>1
<1>3. /\ y \in Seq(Nat) /\ Len(y) = IF b + 1 <= Len(g) - o THEN Len(g) - o - (b + 1) + 1 ELSE 0
      /\ \A i \in 1..Len(g) - o - (b + 1) + 1 : y[i] = g[b + 1 + i - 1]
  <2>1. b + 1 \in Int /\ Len(g) - o \in Int
    BY <1>1
  <2>2. b + 1 \in Nat /\ Len(g) - o \in Nat
    BY <1>1
  <2> QED BY <1>2, <2>1, <2>2, SubSeqProperties
<1>4. Len(y) = n
  <2> HIDE DEF y, x
  <2> DEFINE t == Len(g) - o
  <2>1. t = b + n
    <3>1. PICK z \in Nat : z = Len(g)
      BY <1>1
    <3>2. b + n + o = z /\ b \in Nat /\ n \in Nat /\ o \in Nat
      BY <1>1, <3>1
    <3>3. z - o = b + n
      BY <3>2
    <3> QED BY <3>1, <3>3
  <2>2. Len(y) = IF b + 1 <= t THEN t - (b + 1) + 1 ELSE 0
    BY <1>3
  <2> HIDE DEF t
  <2>3. CASE n = 0
    <3>1. ~(b + 1 <= t)
      BY <1>1, <2>1, <2>3
    <3> QED BY <2>2, <2>3, <3>1
  <2>4. CASE n # 0
    <3>1. b + 1 <= t /\ t - (b + 1) + 1 = n
      BY <1>1, <2>1, <2>4
    <3> QED BY <2>2, <3>1
  <2> QED BY <2>3, <2>4
<1>5. \A i \in 1..n : y[i] = g[b + i]
  <2> HIDE DEF y
  <2> TAKE i \in 1..n
  <2>1. i \in 1..Len(g) - o - (b + 1) + 1 /\ b + 1 + i - 1 = b + i
    BY <1>1
  <2> QED BY <1>3, <2>1
<1>6. x \in Seq(Nat) /\ Len(x) = n /\ \A i \in 1..n : x[i] = g[b + i]
  <2>1. \A i \in 1..n : g[b + i] \in Nat
    <3> TAKE i \in 1..n
    <3>1. b + i \in 1..Len(g)
      BY <1>1
    <3> QED BY <3>1
  <2> QED BY <1>1, <2>1
<1>7. [i \in DOMAIN e |-> e[i].val] = x
  BY <1>1 DEF n
<1> HIDE DEF x, y
<1>8. x = y
  BY <1>3, <1>4, <1>5, <1>6, SeqEqual
<1> QED BY <1>7, <1>8 DEF y

LEMMA CompleteIInv == ASSUME IInv PROVE StreamComplete
<1> SUFFICES ASSUME NEW c \in Conns, link[c].sub, link[c].near, link[c].far
             PROVE  [i \in DOMAIN EventsIn(link[c].down) |-> EventsIn(link[c].down)[i].val]
                      = SubSeq(log, link[c].from + link[c].read + 1, Len(log) - Owed(c))
  BY DEF StreamComplete
<1> DEFINE l == link[c]
           e == EventsIn(l.down)
<1>1. l.down \in Seq(Msg) /\ l.from + l.read \in Nat /\ log \in Seq(Nat) /\ Owed(c) \in Nat
  BY DEF IInv, Typed, Links, Owed
<1>2. l.from + l.read + Len(e) + Owed(c) = Len(log) /\ \A i \in 1..Len(e) : e[i].val = log[l.from + l.read + i]
  BY DEF IInv, LinkInv, Tally
<1> HIDE DEF l
<1>3. e \in Seq(Msg)
  BY <1>1, EventsInType
<1> HIDE DEF e
<1>4. [i \in DOMAIN e |-> e[i].val] = SubSeq(log, l.from + l.read + 1, Len(log) - Owed(c))
  <2> DEFINE b == l.from + l.read
  <2>1. b \in Nat /\ b + Len(e) + Owed(c) = Len(log) /\ \A i \in 1..Len(e) : e[i].val = log[b + i]
    BY <1>1, <1>2
  <2>2. b + 1 = l.from + l.read + 1
    OBVIOUS
  <2> HIDE DEF b
  <2>3. [i \in DOMAIN e |-> e[i].val] = SubSeq(log, b + 1, Len(log) - Owed(c))
    BY <1>1, <1>3, <2>1, TallySubSeq
  <2> QED BY <2>2, <2>3
<1> QED BY <1>4 DEF e, l

LEMMA OrphansIInv == ASSUME IInv PROVE NoOrphans
<1> SUFFICES ASSUME NEW p \in Panels, conn[p] # 0
             PROVE  /\ at[p] \in {"ready", "send"} => Mine(p).up = <<>> /\ Mine(p).down = <<>>
                    /\ at[p] = "wait" => \A i \in DOMAIN Mine(p).down : i = 1 /\ Mine(p).down[i].of = req[p]
  BY DEF NoOrphans
<1>1. p \in Clients
  BY DEF Clients
<1> DEFINE l == link[conn[p]]
           d == l.down
<1>2. /\ at[p] \in {"ready", "send"} => l.up = <<>> /\ d = <<>>
      /\ at[p] = "wait" => d = <<>> \/ (Len(d) = 1 /\ d[1].of = req[p])
  BY DEF IInv, PanelInv
<1>3. d \in Seq(Msg)
  BY <1>1 DEF IInv, Typed, Links
<1> HIDE DEF d
<1>4. DOMAIN d = 1..Len(d) /\ (d = <<>> => Len(d) = 0)
  BY <1>3
<1>5. at[p] = "wait" => \A i \in DOMAIN d : i = 1 /\ d[i].of = req[p]
  BY <1>2, <1>4
<1> QED BY <1>2, <1>5 DEF Mine, d

LEMMA SyncIInv == ASSUME IInv PROVE InSync
<1> SUFFICES ASSUME NEW s \in Streams, Quiet, at[s] = "listen", Mine(s).far, snapped[s], Mine(s).down = <<>>, NewestLast
             PROVE  view[s] = mode
  BY DEF InSync
<1>1. s \in Clients
  BY DEF Clients
<1>2. conn[s] # 0
  BY <1>1 DEF IInv, OwnInv
<1>3. ~Due(conn[s])
  BY DEF Due, Quiet
<1>4. view[s] = mode \/ (log # <<>> /\ view[s] = log[Len(log)])
  BY <1>2, <1>3 DEF IInv, HeardInv, Mine
<1>5. log # <<>> => log[Len(log)] = changes
  BY DEF NewestLast, Last
<1> QED BY <1>4, <1>5 DEF IInv, Typed

\* Every connection that stays open has read, has to read, or is yet to be sent
\* exactly the events dispatched since its Subscribe was handled, in their order
\* (main.rs, subscribed and the dispatch of an iteration's events).
THEOREM SubscribersMissNothing == Spec => []StreamComplete
BY Invariance, CompleteIInv, PTL

\* A request thread that writes a request has no answer to an earlier one waiting
\* on its connection (bridge.rs drops the client after any error of a call).
THEOREM RequestsStayPaired == Spec => []NoOrphans
BY Invariance, OrphansIInv, PTL

\* A stream that has read all it was sent shows the mode the group has, unless an
\* older change was announced last (event_stream.rs asks for the status after
\* Subscribe was answered).
THEOREM StreamsInSync == Spec => []InSync
BY Invariance, SyncIInv, PTL
=============================================================================
