--------------------------- MODULE RgbUploadProofs ---------------------------
(* What the fans play: the decompressor gives back the very buffer that was  *)
(* compressed, effects stay on the ring, and those without an end loop; with *)
(* jobs of any kind and beside the light pages.                              *)
EXTENDS LightPages, SequenceTheorems, WellFoundedInduction, TLAPS

-----------------------------------------------------------------------------
(* Induction, from the least member of a set of naturals. *)

\* A set of naturals that has 0, and n + 1 with every n, has them all.
LEMMA Induction ==
  ASSUME NEW T, 0 \in T, \A n \in Nat : n \in T => n + 1 \in T
  PROVE  Nat \subseteq T
<1> SUFFICES ASSUME ~(Nat \subseteq T) PROVE FALSE
  OBVIOUS
<1> DEFINE R == {ss \in Nat \X Nat : ss[1] < ss[2]}
           B == Nat \ T
<1>1. IsWellFoundedOn(R, Nat)
  BY NatLessThanWellFounded DEF OpToRel
<1>2. B \subseteq Nat /\ B # {}
  OBVIOUS
<1>3. PICK x \in B : \A y \in B : <<y, x>> \notin R
  <2> HIDE DEF R, B
  <2> QED BY <1>1, <1>2, WFMin
<1>4. x \in Nat /\ x # 0 /\ x - 1 \in Nat /\ x - 1 \in B
  OBVIOUS
<1>5. <<x - 1, x>> \in R
  BY <1>4
<1> QED BY <1>3, <1>4, <1>5

\* A set of naturals that is not empty has a least member.
LEMMA LeastOne ==
  ASSUME NEW B, B \subseteq Nat, B # {}
  PROVE  \E x \in B : \A y \in B : x <= y
<1> DEFINE R == {ss \in Nat \X Nat : ss[1] < ss[2]}
<1>1. IsWellFoundedOn(R, Nat)
  BY NatLessThanWellFounded DEF OpToRel
<1>2. PICK x \in B : \A y \in B : <<y, x>> \notin R
  <2> HIDE DEF R
  <2> QED BY <1>1, WFMin
<1>3. \A y \in B : ~(y < x)
  BY <1>2
<1> QED BY <1>3

\* A set of naturals with a bound has a greatest member, which Max finds.
LEMMA MaxIsIn ==
  ASSUME NEW S, S \subseteq Nat, S # {}, NEW top \in Nat, \A x \in S : x <= top
  PROVE  Max(S) \in S /\ \A x \in S : x <= Max(S)
<1> DEFINE B == {b \in Nat : \A x \in S : x <= b}
<1>1. PICK b \in B : \A y \in B : b <= y
  <2>1. B \subseteq Nat /\ B # {}
    OBVIOUS
  <2> HIDE DEF B
  <2> QED BY <2>1, LeastOne
<1>2. b \in S
  <2> SUFFICES ASSUME b \notin S PROVE FALSE
    OBVIOUS
  <2>1. \A x \in S : x <= b /\ x # b
    OBVIOUS
  <2>2. b # 0
    <3>1. PICK x \in S : TRUE
      OBVIOUS
    <3>2. x \in Nat /\ x <= b /\ x # b
      BY <2>1, <3>1
    <3> QED BY <3>2
  <2>3. b - 1 \in B
    BY <2>1, <2>2
  <2> QED BY <1>1, <2>3
<1>3. \E x \in S : \A y \in S : x >= y
  BY <1>2
<1>4. Max(S) \in S /\ \A y \in S : Max(S) >= y
  BY <1>3 DEF Max
<1> QED BY <1>4

-----------------------------------------------------------------------------
(* Numbers in groups of bits.                                                *)

\* The groups s say the number v, one group after the other.
Says(s, v, base) ==
  /\ s \in Seq(Nat) /\ Len(s) >= 1
  /\ \E u \in [0..Len(s) -> Int] :
       /\ u[0] = -1 /\ u[Len(s)] = v
       /\ \A i \in 1..Len(s) : u[i] = (u[i - 1] + 1) * base + s[i]

LEMMA FromGroupsSays ==
  ASSUME NEW s, NEW v, NEW base \in Nat, Says(s, v, base)
  PROVE  FromGroups(s, base) = v
<1> DEFINE Eq(g) == g = [i \in 0..Len(s) |-> IF i = 0 THEN -1 ELSE (g[i - 1] + 1) * base + s[i]]
<1>1. PICK u \in [0..Len(s) -> Int] :
        /\ u[0] = -1 /\ u[Len(s)] = v
        /\ \A i \in 1..Len(s) : u[i] = (u[i - 1] + 1) * base + s[i]
  BY DEF Says
<1>2. s \in Seq(Nat) /\ Len(s) \in Nat
  BY DEF Says
<1>3. Eq(u)
  <2>1. \A i \in 0..Len(s) : u[i] = IF i = 0 THEN -1 ELSE (u[i - 1] + 1) * base + s[i]
    BY <1>1, <1>2
  <2>2. u = [i \in 0..Len(s) |-> u[i]]
    BY <1>1
  <2> QED BY <2>1, <2>2
<1>4. ASSUME NEW g, Eq(g) PROVE g[Len(s)] = v
  <2> DEFINE T == {i \in Nat : i <= Len(s) => g[i] = u[i]}
  <2>1. 0 \in T
    BY <1>1, <1>2, <1>4
  <2>2. ASSUME NEW i \in Nat, i \in T PROVE i + 1 \in T
    <3> SUFFICES ASSUME i + 1 <= Len(s) PROVE g[i + 1] = u[i + 1]
      OBVIOUS
    <3>1. i + 1 \in 1..Len(s) /\ i + 1 \in 0..Len(s) /\ i + 1 # 0 /\ (i + 1) - 1 = i /\ g[i] = u[i]
      BY <1>2, <2>2
    <3>2. g[i + 1] = (g[i] + 1) * base + s[i + 1]
      BY <1>4, <3>1
    <3>3. u[i + 1] = (u[i] + 1) * base + s[i + 1]
      BY <1>1, <3>1
    <3> QED BY <3>1, <3>2, <3>3
  <2>3. Nat \subseteq T
    <3> HIDE DEF T
    <3> QED BY <2>1, <2>2, Induction
  <2>4. Len(s) \in T
    BY <1>2, <2>3
  <2> QED BY <1>1, <2>4
<1>5. \E g : Eq(g)
  BY <1>3
<1>6. FromGroups(s, base) = (CHOOSE g : Eq(g))[Len(s)]
  BY DEF FromGroups
<1> HIDE DEF Eq
<1>7. Eq(CHOOSE g : Eq(g))
  BY <1>5
<1> QED BY <1>4, <1>6, <1>7

LEMMA OneGroup ==
  ASSUME NEW v \in Nat, NEW base \in Nat
  PROVE  Says(<<v>>, v, base)
<1> DEFINE u == [i \in 0..1 |-> IF i = 0 THEN -1 ELSE v]
<1>1. <<v>> \in Seq(Nat) /\ Len(<<v>>) = 1 /\ <<v>>[1] = v
  OBVIOUS
<1>2. u \in [0..1 -> Int] /\ u[0] = -1 /\ u[1] = v
  OBVIOUS
<1>3. (-1 + 1) * base + v = v
  OBVIOUS
<1>4. \A i \in 1..1 : i = 1 /\ i - 1 = 0
  OBVIOUS
<1> HIDE DEF u
<1>5. \A i \in 1..1 : u[i] = (u[i - 1] + 1) * base + <<v>>[i]
  BY <1>1, <1>2, <1>3, <1>4
<1> QED BY <1>1, <1>2, <1>5 DEF Says

LEMMA GroupAfter ==
  ASSUME NEW s, NEW q \in Nat, NEW base \in Nat, Says(s, q, base), NEW d \in Nat
  PROVE  Says(Append(s, d), (q + 1) * base + d, base)
<1>1. PICK u \in [0..Len(s) -> Int] :
        /\ u[0] = -1 /\ u[Len(s)] = q
        /\ \A i \in 1..Len(s) : u[i] = (u[i - 1] + 1) * base + s[i]
  BY DEF Says
<1>2. s \in Seq(Nat) /\ Len(s) \in Nat /\ Len(s) >= 1
  BY DEF Says
<1>3. PICK t : t = Append(s, d)
  OBVIOUS
<1>4. /\ t \in Seq(Nat) /\ Len(t) = Len(s) + 1 /\ t[Len(s) + 1] = d
      /\ \A i \in 1..Len(s) : t[i] = s[i]
  BY <1>2, <1>3
<1>5. PICK v \in Nat : v = (q + 1) * base + d
  OBVIOUS
<1> DEFINE w == [i \in 0..Len(t) |-> IF i <= Len(s) THEN u[i] ELSE v]
<1>6. w \in [0..Len(t) -> Int] /\ w[0] = -1 /\ w[Len(t)] = v /\ \A i \in 0..Len(s) : w[i] = u[i]
  BY <1>1, <1>2, <1>4
<1> HIDE DEF w
<1>7. ASSUME NEW i \in 1..Len(t) PROVE w[i] = (w[i - 1] + 1) * base + t[i]
  <2>1. CASE i <= Len(s)
    <3>1. i \in 1..Len(s) /\ i \in 0..Len(s) /\ i - 1 \in 0..Len(s)
      BY <1>2, <2>1
    <3> QED BY <1>1, <1>4, <1>6, <3>1
  <2>2. CASE ~(i <= Len(s))
    <3>1. i = Len(t) /\ i - 1 = Len(s) /\ i = Len(s) + 1 /\ Len(s) \in 0..Len(s)
      BY <1>2, <1>4, <2>2
    <3> QED BY <1>1, <1>4, <1>5, <1>6, <3>1
  <2> QED BY <2>1, <2>2
<1>8. Says(t, v, base)
  <2>1. Len(t) >= 1
    BY <1>2, <1>4
  <2> QED BY <1>4, <1>6, <1>7, <2>1 DEF Says
<1> QED BY <1>3, <1>5, <1>8

\* What is left of a number when its last group is taken off.
LEMMA GroupOff ==
  ASSUME NEW v \in Nat, NEW base \in {2, 4}, v >= base
  PROVE  /\ v \div base - 1 \in Nat /\ v \div base - 1 < v /\ v % base \in Nat
         /\ ((v \div base - 1) + 1) * base + (v % base) = v
<1>1. CASE base = 2
  BY <1>1
<1>2. CASE base = 4
  BY <1>2
<1> QED BY <1>1, <1>2

\* The equation by which Groups chooses its function.
GroupStep(g, v, base) == IF v < base THEN <<v>> ELSE Append(g[v \div base - 1], v % base)
GroupsEq(g, n, base) == g = [v \in 0..n |-> GroupStep(g, v, base)]

LEMMA GroupsExist ==
  ASSUME NEW base \in {2, 4}
  PROVE  \A n \in Nat : \E g : GroupsEq(g, n, base)
<1> DEFINE T == {n \in Nat : \E g : GroupsEq(g, n, base)}
<1>1. 0 \in T
  <2> DEFINE g == [v \in 0..0 |-> <<v>>]
  <2>1. \A v \in 0..0 : g[v] = GroupStep(g, v, base)
    BY DEF GroupStep
  <2>2. GroupsEq(g, 0, base)
    <3> DEFINE h == [v \in 0..0 |-> GroupStep(g, v, base)]
    <3>1. g = h
      BY <2>1
    <3> QED BY <3>1 DEF GroupsEq
  <2> QED BY <2>2
<1>2. ASSUME NEW n \in Nat, n \in T PROVE n + 1 \in T
  <2>1. PICK g : GroupsEq(g, n, base)
    BY <1>2
  <2> DEFINE h == [v \in 0..n + 1 |-> IF v <= n THEN g[v] ELSE GroupStep(g, v, base)]
  <2>2. \A v \in 0..n : h[v] = g[v]
    OBVIOUS
  <2>3. \A v \in 0..n + 1 : h[v] = GroupStep(g, v, base)
    BY <2>1 DEF GroupsEq
  <2>4. ASSUME NEW v \in 0..n + 1 PROVE GroupStep(g, v, base) = GroupStep(h, v, base)
    <3>1. CASE v < base
      BY <3>1 DEF GroupStep
    <3>2. CASE ~(v < base)
      <4>1. v \div base - 1 \in 0..n
        <5>1. v \in Nat /\ v >= base
          BY <3>2
        <5>2. v \div base - 1 \in Nat /\ v \div base - 1 < v
          BY <5>1, GroupOff
        <5> QED BY <5>2
      <4> HIDE DEF h
      <4>2. g[v \div base - 1] = h[v \div base - 1]
        BY <2>2, <4>1
      <4> QED BY <3>2, <4>2 DEF GroupStep
    <3> QED BY <3>1, <3>2
  <2>5. h = [v \in 0..n + 1 |-> h[v]]
    OBVIOUS
  <2> HIDE DEF h
  <2>6. \A v \in 0..n + 1 : h[v] = GroupStep(h, v, base)
    BY <2>3, <2>4
  <2>7. GroupsEq(h, n + 1, base)
    BY <2>5, <2>6 DEF GroupsEq
  <2> QED BY <2>7
<1>3. Nat \subseteq T
  <2> HIDE DEF T
  <2> QED BY <1>1, <1>2, Induction
<1> QED BY <1>3

LEMMA GroupsEqSays ==
  ASSUME NEW base \in {2, 4}, NEW top \in Nat, NEW g, GroupsEq(g, top, base)
  PROVE  \A v \in 0..top : Says(g[v], v, base)
<1> DEFINE T == {n \in Nat : \A v \in 0..n : v <= top => Says(g[v], v, base)}
<1>0. \A v \in 0..top : g[v] = GroupStep(g, v, base)
  BY DEF GroupsEq
<1>1. 0 \in T
  <2>1. g[0] = <<0>>
    <3>1. 0 \in 0..top /\ 0 < base
      OBVIOUS
    <3> QED BY <1>0, <3>1 DEF GroupStep
  <2>2. Says(<<0>>, 0, base)
    BY OneGroup
  <2>3. \A v \in 0..0 : v = 0
    OBVIOUS
  <2> QED BY <2>1, <2>2, <2>3
<1>2. ASSUME NEW n \in Nat, n \in T PROVE n + 1 \in T
  <2>0. \A v \in 0..n : v <= top => Says(g[v], v, base)
    BY <1>2
  <2> SUFFICES ASSUME n + 1 <= top PROVE Says(g[n + 1], n + 1, base)
    BY <2>0
  <2>1. PICK v \in Nat : v = n + 1
    OBVIOUS
  <2>2. v \in 0..top /\ g[v] = GroupStep(g, v, base)
    BY <1>0, <2>1
  <2>3. CASE v < base
    <3>1. g[v] = <<v>>
      BY <2>2, <2>3 DEF GroupStep
    <3> QED BY <2>1, <3>1, OneGroup
  <2>4. CASE v >= base
    <3>1. PICK q \in Nat : q = v \div base - 1 /\ q < v /\ v % base \in Nat
                           /\ (q + 1) * base + (v % base) = v
      BY <2>4, GroupOff
    <3>2. PICK d \in Nat : d = v % base
      BY <3>1
    <3>3. g[v] = Append(g[q], d)
      <4>1. ~(v < base)
        BY <2>4
      <4> QED BY <2>2, <4>1, <3>1, <3>2 DEF GroupStep
    <3>4. q \in 0..n /\ q <= top
      BY <2>1, <2>2, <3>1
    <3>5. Says(g[q], q, base)
      BY <2>0, <3>4
    <3>6. PICK s : s = g[q]
      OBVIOUS
    <3>7. Says(Append(s, d), (q + 1) * base + d, base)
      BY <3>5, <3>6, GroupAfter
    <3> QED BY <2>1, <3>1, <3>2, <3>3, <3>6, <3>7
  <2> QED BY <2>1, <2>3, <2>4
<1>3. Nat \subseteq T
  <2> HIDE DEF T
  <2> QED BY <1>1, <1>2, Induction
<1> QED BY <1>3

\* What is said in groups is read again: out_len and the reader of the fans agree on every
\* number.
LEMMA GroupsSay ==
  ASSUME NEW base \in {2, 4}, NEW v \in Nat
  PROVE  Says(Groups(v, base), v, base) /\ FromGroups(Groups(v, base), base) = v
<1> DEFINE Eq(g) == g = [w \in 0..v |-> IF w < base THEN <<w>>
                                        ELSE Append(g[w \div base - 1], w % base)]
<1>1. \A g : Eq(g) <=> GroupsEq(g, v, base)
  BY DEF GroupsEq, GroupStep
<1>2. \E g : Eq(g)
  BY <1>1, GroupsExist
<1>3. Groups(v, base) = (CHOOSE g : Eq(g))[v]
  BY DEF Groups
<1> HIDE DEF Eq
<1>4. PICK f : f = (CHOOSE g : Eq(g)) /\ Eq(f)
  BY <1>2
<1>5. Says(f[v], v, base)
  BY <1>1, <1>4, GroupsEqSays
<1>6. Says(Groups(v, base), v, base)
  BY <1>3, <1>4, <1>5
<1>7. base \in Nat
  OBVIOUS
<1> QED BY <1>6, <1>7, FromGroupsSays

LEMMA PlaceSays ==
  ASSUME NEW p \in Nat
  PROVE  FromPlace(Place(p)) = p
<1>0. SmallPos \in Nat \ {0}
  BY CodecAssumption
<1>1. CASE p < SmallPos
  <2>1. Place(p).low = p /\ Place(p).high = <<>>
    BY <1>1 DEF Place
  <2> QED BY <2>1 DEF FromPlace
<1>2. CASE p >= SmallPos
  <2>1. PICK q \in Nat, r \in Nat : q = p \div SmallPos - 1 /\ r = p % SmallPos
                                   /\ p = SmallPos * (q + 1) + r
    <3>1. PICK k \in Nat : k = SmallPos
      BY <1>0
    <3>2. p \div k \in Nat /\ p % k \in Nat /\ p = k * (p \div k) + (p % k) /\ p % k < k
      BY <1>0, <3>1
    <3>3. p \div k # 0
      <4> SUFFICES ASSUME p \div k = 0 PROVE FALSE
        OBVIOUS
      <4>1. k * (p \div k) = 0
        OBVIOUS
      <4> QED BY <1>2, <3>1, <3>2, <4>1
    <3>4. p \div k - 1 \in Nat /\ (p \div k - 1) + 1 = p \div k
      BY <3>2, <3>3
    <3> QED BY <3>1, <3>2, <3>4
  <2>2. Place(p).low = r /\ Place(p).high = Groups(q, PlaceBase)
    <3>1. ~(p < SmallPos)
      BY <1>0, <1>2
    <3> QED BY <2>1, <3>1 DEF Place
  <2>3. Says(Groups(q, PlaceBase), q, PlaceBase) /\ FromGroups(Groups(q, PlaceBase), PlaceBase) = q
    BY GroupsSay DEF PlaceBase
  <2>4. Groups(q, PlaceBase) # <<>>
    BY <2>3 DEF Says
  <2>5. FromPlace(Place(p)) = r + SmallPos * q + SmallPos
    BY <2>2, <2>3, <2>4 DEF FromPlace
  <2>6. SmallPos * (q + 1) = SmallPos * q + SmallPos /\ SmallPos * q \in Nat
    BY <1>0
  <2> QED BY <1>0, <2>1, <2>5, <2>6
<1> QED BY <1>0, <1>1, <1>2

-----------------------------------------------------------------------------
(* One token.                                                                *)

Reader(out, p, b, s) == [out |-> out, posBack |-> p, dataBack |-> b, status |-> s]

\* Both ends count the symbols of control tokens alike.
LEMMA ControlRead ==
  ASSUME NEW S, NEW out \in Seq(S), NEW p, NEW b \in BOOLEAN, NEW w \in Nat,
         NEW coder, coder.dataBack = b, NEW code \in Nat
  PROVE  Decode(Reader(out, p, b, "reading"), Control(coder, code), w)
           = IF code = LiteralLine THEN Reader(out, p, FALSE, "line")
             ELSE Reader(out, 1, FALSE, IF code = StreamEnd THEN "ended" ELSE "garbled")
<1> DEFINE reader == Reader(out, p, b, "reading")
           token == Control(coder, code)
<1>1. /\ reader.out = out /\ reader.posBack = p /\ reader.dataBack = b /\ reader.status = "reading"
      /\ reader = [out |-> out, posBack |-> p, dataBack |-> b, status |-> "reading"]
  BY DEF Reader
<1>2. /\ token.kind = "dict" /\ token.len = Groups(code, LengthBase) /\ token.place = <<Place(0)>>
      /\ token.same = IF b THEN <<0>> ELSE <<>>
  BY DEF Control
<1>3. FromGroups(token.len, LengthBase) = code
  BY <1>2, GroupsSay DEF LengthBase
<1>4. token.place # <<>> /\ FromPlace(token.place[1]) = 0
  <2>1. FromPlace(Place(0)) = 0
    BY PlaceSays
  <2>2. <<Place(0)>> # <<>> /\ <<Place(0)>>[1] = Place(0)
    OBVIOUS
  <2> QED BY <1>2, <2>1, <2>2
<1>5. (token.same # <<>>) = b
  BY <1>2
<1>6. Len(out) \in Nat
  OBVIOUS
<1> HIDE DEF reader, token
<1>7. Decode(reader, token, w) = DecodeDict(reader, token, w)
  BY <1>1, <1>2 DEF Decode
<1>8. DecodeDict(reader, token, w) =
        IF code = LiteralLine THEN [reader EXCEPT !.dataBack = FALSE, !.status = "line"]
        ELSE [reader EXCEPT !.posBack = 1, !.dataBack = FALSE,
                         !.status = IF code = StreamEnd THEN "ended" ELSE "garbled"]
  <2>1. ~((token.same # <<>>) # reader.dataBack)
    BY <1>1, <1>5
  <2>2. ~(0 > w) /\ ~(0 > Len(reader.out)) /\ ~(0 > 0)
    BY <1>1, <1>6
  <2> QED BY <1>3, <1>4, <2>1, <2>2 DEF DecodeDict
<1>9. CASE code = LiteralLine
  BY <1>1, <1>7, <1>8, <1>9 DEF Reader, reader, token
<1>10. CASE code # LiteralLine
  BY <1>1, <1>7, <1>8, <1>10 DEF Reader, reader, token
<1> QED BY <1>9, <1>10

LEMMA LiteralRead ==
  ASSUME NEW out, NEW p, NEW b, NEW w, NEW x
  PROVE  Decode(Reader(out, p, b, "reading"), [kind |-> "literal", symbol |-> x], w)
           = Reader(Append(out, x), p, TRUE, "reading")
BY DEF Decode, Reader

Line(symbols) ==
  [kind |-> "line", len |-> Groups(Len(symbols) - MinLine, PlaceBase), symbols |-> symbols]

LEMMA LineRead ==
  ASSUME NEW S, NEW out \in Seq(S), NEW p, NEW w, NEW symbols \in Seq(S), Len(symbols) >= MinLine
  PROVE  Decode(Reader(out, p, FALSE, "line"), Line(symbols), w)
           = Reader(out \o symbols, p, TRUE, "reading")
<1>1. MinLine \in Nat
  BY CodecAssumption
<1>2. PICK n \in Nat : n = Len(symbols) - MinLine /\ n + MinLine = Len(symbols)
  BY <1>1
<1>3. FromGroups(Groups(n, PlaceBase), PlaceBase) = n
  BY GroupsSay DEF PlaceBase
<1> QED BY <1>2, <1>3 DEF Decode, DecodeLine, Reader, Line

-----------------------------------------------------------------------------
(* A match.                                                                  *)

\* len symbols from place here of all are those dist places before.
Repeats(all, here, dist, len) ==
  /\ here \in Nat /\ dist \in 1..here /\ len \in Nat /\ here + len <= Len(all)
  /\ \A i \in 0..len - 1 : all[here - dist + i + 1] = all[here + i + 1]

LEMMA Grown ==
  ASSUME NEW S, NEW all \in Seq(S), NEW n \in Nat, n < Len(all)
  PROVE  /\ Append(SubSeq(all, 1, n), all[n + 1]) = SubSeq(all, 1, n + 1)
         /\ SubSeq(all, 1, n) \in Seq(S) /\ Len(SubSeq(all, 1, n)) = n
         /\ \A i \in 1..n : SubSeq(all, 1, n)[i] = all[i]
<1>1. PICK s : s = SubSeq(all, 1, n)
  OBVIOUS
<1>2. s \in Seq(S) /\ Len(s) = n /\ \A i \in 1..n : s[i] = all[i]
  BY <1>1
<1>3. PICK t : t = SubSeq(all, 1, n + 1)
  OBVIOUS
<1>4. t \in Seq(S) /\ Len(t) = n + 1 /\ \A i \in 1..n + 1 : t[i] = all[i]
  BY <1>3
<1>5. all[n + 1] \in S
  OBVIOUS
<1>6. PICK u \in Seq(S) : u = Append(s, all[n + 1])
  <2>1. PICK e \in S : e = all[n + 1]
    BY <1>5
  <2>2. Append(s, e) \in Seq(S)
    BY <1>2
  <2> QED BY <2>1, <2>2
<1>7. Len(u) = n + 1 /\ u[n + 1] = all[n + 1] /\ \A i \in 1..n : u[i] = s[i]
  BY <1>2, <1>6
<1>8. u = t
  <2>1. \A i \in 1..n + 1 : i \in 1..n \/ i = n + 1
    OBVIOUS
  <2>2. \A i \in 1..n + 1 : u[i] = t[i]
    BY <1>2, <1>4, <1>7, <2>1
  <2> QED BY <1>4, <1>6, <1>7, <2>2, SeqEqual
<1> QED BY <1>1, <1>2, <1>3, <1>6, <1>8

\* The fans copy a match symbol by symbol, also one that overlaps itself.
LEMMA CopiedIsRead ==
  ASSUME NEW S, NEW all \in Seq(S), NEW here, NEW dist, NEW len, Repeats(all, here, dist, len)
  PROVE  Copied(SubSeq(all, 1, here), dist, len) = SubSeq(all, 1, here + len)
<1>0. here \in Nat /\ dist \in 1..here /\ len \in Nat /\ here + len <= Len(all) /\ Len(all) \in Nat
  BY DEF Repeats
<1> DEFINE out == SubSeq(all, 1, here)
           step(f) == Append(f, f[Len(f) + 1 - dist])
           Eq(g) == g = [n \in 0..len |-> IF n = 0 THEN out ELSE step(g[n - 1])]
           P(n) == SubSeq(all, 1, here + n)
           g0 == [n \in 0..len |-> P(n)]
<1>1. P(0) = out
  BY <1>0
<1>2. ASSUME NEW n \in 0..len, n # 0 PROVE P(n) = step(P(n - 1))
  <2>1. PICK h \in Nat : h = here + (n - 1) /\ h + 1 = here + n /\ h < Len(all) /\ h >= here
    <3>1. n - 1 \in Nat /\ n <= len /\ n \in Nat
      BY <1>0, <1>2
    <3>2. PICK h \in Nat : h = here + (n - 1)
      BY <1>0, <3>1
    <3>3. h + 1 = here + n /\ h < Len(all) /\ h >= here
      BY <1>0, <3>1, <3>2
    <3> QED BY <3>2, <3>3
  <2>2. /\ Append(SubSeq(all, 1, h), all[h + 1]) = SubSeq(all, 1, h + 1)
        /\ Len(SubSeq(all, 1, h)) = h
        /\ \A i \in 1..h : SubSeq(all, 1, h)[i] = all[i]
    BY <2>1, Grown
  <2>3. h + 1 - dist \in 1..h
    BY <1>0, <2>1
  <2>4. all[h + 1 - dist] = all[h + 1]
    <3>1. PICK i \in 0..len - 1 : i = n - 1
      BY <1>0, <1>2
    <3>2. all[here - dist + i + 1] = all[here + i + 1]
      BY DEF Repeats
    <3>3. here - dist + i + 1 = h + 1 - dist /\ here + i + 1 = h + 1
      BY <1>0, <2>1, <3>1
    <3> QED BY <3>2, <3>3
  <2>5. P(n - 1) = SubSeq(all, 1, h) /\ P(n) = SubSeq(all, 1, h + 1)
    BY <2>1
  <2>6. P(n - 1)[Len(P(n - 1)) + 1 - dist] = all[h + 1]
    BY <2>2, <2>3, <2>4, <2>5
  <2> QED BY <2>2, <2>5, <2>6
<1> HIDE DEF P, step
<1>3. \A n \in 0..len : g0[n] = IF n = 0 THEN out ELSE step(g0[n - 1])
  <2>1. \A n \in 0..len : n # 0 => n - 1 \in 0..len
    BY <1>0
  <2> QED BY <1>0, <1>1, <1>2, <2>1
<1>4. Eq(g0)
  <2> DEFINE h0 == [n \in 0..len |-> IF n = 0 THEN out ELSE step(g0[n - 1])]
  <2>1. \A n \in 0..len : g0[n] = h0[n]
    BY <1>3
  <2>2. g0 = h0
    <3>1. g0 = [n \in 0..len |-> g0[n]] /\ h0 = [n \in 0..len |-> h0[n]]
      OBVIOUS
    <3> HIDE DEF g0, h0
    <3> QED BY <2>1, <3>1
  <2> QED BY <2>2
<1>5. ASSUME NEW g, Eq(g) PROVE g[len] = P(len)
  <2> DEFINE T == {n \in Nat : n <= len => g[n] = P(n)}
  <2>1. 0 \in T
    BY <1>0, <1>1, <1>5
  <2>2. ASSUME NEW n \in Nat, n \in T PROVE n + 1 \in T
    <3> SUFFICES ASSUME n + 1 <= len PROVE g[n + 1] = P(n + 1)
      OBVIOUS
    <3>1. n + 1 \in 0..len /\ n + 1 # 0 /\ (n + 1) - 1 = n /\ g[n] = P(n)
      BY <1>0, <2>2
    <3>2. g[n + 1] = step(g[n])
      BY <1>5, <3>1
    <3>3. P(n + 1) = step(P(n))
      BY <1>2, <3>1
    <3> QED BY <3>1, <3>2, <3>3
  <2>3. Nat \subseteq T
    <3> HIDE DEF T
    <3> QED BY <2>1, <2>2, Induction
  <2> QED BY <1>0, <2>3
<1>6. \E g : Eq(g)
  BY <1>4
<1>7. Copied(out, dist, len) = (CHOOSE g : Eq(g))[len]
  BY DEF Copied, step
<1> HIDE DEF Eq
<1>8. Eq(CHOOSE g : Eq(g))
  BY <1>6
<1>9. (CHOOSE g : Eq(g))[len] = P(len)
  BY <1>5, <1>8
<1> QED BY <1>7, <1>9 DEF P

LEMMA MatchLengthRepeats ==
  ASSUME NEW S, NEW all \in Seq(S), NEW a \in Nat, NEW here \in Nat, a < here, here < Len(all)
  PROVE  MatchLength(all, a, here) \in Nat /\ Repeats(all, here, here - a, MatchLength(all, a, here))
<1> DEFINE L == {l \in 0..Len(all) - here :
                   \A i \in 0..l - 1 : Symbol(all, a + i) = Symbol(all, here + i)}
<1>0. Len(all) - here \in Nat
  OBVIOUS
<1>1. 0 \in L
  <2>1. 0..0 - 1 = {}
    OBVIOUS
  <2> QED BY <1>0, <2>1
<1>2. L \subseteq Nat /\ L # {} /\ \A x \in L : x <= Len(all) - here
  <2>1. L \subseteq 0..Len(all) - here
    OBVIOUS
  <2>2. \A x \in 0..Len(all) - here : x \in Nat /\ x <= Len(all) - here
    BY <1>0
  <2> HIDE DEF L
  <2> QED BY <1>1, <2>1, <2>2
<1>3. Max(L) \in L
  <2> HIDE DEF L
  <2> QED BY <1>0, <1>2, MaxIsIn
<1>4. MatchLength(all, a, here) = Max(L)
  BY DEF MatchLength
<1>5. PICK m \in L : m = MatchLength(all, a, here)
  BY <1>3, <1>4
<1>6. m \in 0..Len(all) - here /\ \A i \in 0..m - 1 : Symbol(all, a + i) = Symbol(all, here + i)
  OBVIOUS
<1>7. \A i \in 0..m - 1 : all[here - (here - a) + i + 1] = all[here + i + 1]
  <2>1. \A i \in 0..m - 1 : here - (here - a) + i + 1 = (a + i) + 1 /\ here + i + 1 = (here + i) + 1
    OBVIOUS
  <2> QED BY <1>6, <2>1 DEF Symbol
<1>8. m \in Nat /\ here - a \in 1..here /\ here + m <= Len(all)
  BY <1>0, <1>6
<1> QED BY <1>5, <1>7, <1>8 DEF Repeats

\* What the match finder returns, if it can be said, is a repetition within the window.
LEMMA BestMatchRepeats ==
  ASSUME NEW S, NEW all \in Seq(S), NEW here \in Nat, here < Len(all), Usable(BestMatch(all, here))
  PROVE  Repeats(all, here, BestMatch(all, here).dist, BestMatch(all, here).len)
<1> DEFINE found == {c \in Candidates(all, here) : MatchLength(all, c, here) >= MinMatch}
           lengths == {MatchLength(all, c, here) : c \in found}
           nearest == {c \in found : MatchLength(all, c, here) = Max(lengths)}
<1>1. \A c \in Candidates(all, here) : c \in Nat /\ c < here
  <2>1. Max({0, here - DictSize}) \in Nat
    <3>1. DictSize \in Nat
      BY CodecAssumption
    <3>2. PICK x \in Int : x = here - DictSize
      BY <3>1
    <3>3. \E y \in {0, x} : \A z \in {0, x} : y >= z
      BY <3>2
    <3>4. PICK y \in {0, x} : y = Max({0, x}) /\ \A z \in {0, x} : y >= z
      BY <3>3 DEF Max
    <3> QED BY <3>2, <3>4
  <2> QED BY <2>1 DEF Candidates
<1>2. BestMatch(all, here).len # 0
  BY DEF Usable, MinMatch
<1>3. /\ found # {}
      /\ BestMatch(all, here).dist = here - Max(nearest) /\ BestMatch(all, here).len = Max(lengths)
  <2> DEFINE f == IF here + 2 >= Len(all) THEN {} ELSE found
             l == Max({MatchLength(all, c, here) : c \in f})
  <2>1. BestMatch(all, here) = IF f = {} THEN [dist |-> 0, len |-> 0]
                              ELSE [dist |-> here - Max({c \in f : MatchLength(all, c, here) = l}),
                                    len |-> l]
    BY DEF BestMatch
  <2>2. f # {}
    BY <1>2, <2>1
  <2>3. f = found /\ l = Max(lengths)
    BY <2>2
  <2>4. {c \in f : MatchLength(all, c, here) = l} = nearest
    BY <2>3
  <2> HIDE DEF found, f, l, nearest, lengths
  <2>5. BestMatch(all, here) = [dist |-> here - Max(nearest), len |-> Max(lengths)]
    BY <2>1, <2>2, <2>3, <2>4
  <2> QED BY <2>2, <2>3, <2>5
<1>4. \A c \in found : c \in Nat /\ c < here /\ MatchLength(all, c, here) \in 0..Len(all)
  <2> SUFFICES ASSUME NEW c \in found
               PROVE  c \in Nat /\ c < here /\ MatchLength(all, c, here) \in 0..Len(all)
    OBVIOUS
  <2>1. c \in Nat /\ c < here
    BY <1>1
  <2>2. MatchLength(all, c, here) \in Nat /\ Repeats(all, here, here - c, MatchLength(all, c, here))
    BY <2>1, MatchLengthRepeats
  <2> QED BY <2>1, <2>2 DEF Repeats
<1>5. Max(lengths) \in lengths
  <2>1. lengths \subseteq Nat /\ lengths # {} /\ \A x \in lengths : x <= Len(all)
    BY <1>3, <1>4
  <2>2. Len(all) \in Nat
    OBVIOUS
  <2> HIDE DEF lengths
  <2> QED BY <2>1, <2>2, MaxIsIn
<1>6. nearest # {} /\ nearest \subseteq Nat /\ \A x \in nearest : x <= here
  <2>1. PICK c \in found : MatchLength(all, c, here) = Max(lengths)
    <3> HIDE DEF found
    <3> QED BY <1>5
  <2>2. c \in nearest
    BY <2>1
  <2>3. nearest \subseteq found
    OBVIOUS
  <2> HIDE DEF nearest, found
  <2> QED BY <1>4, <2>2, <2>3
<1>7. Max(nearest) \in nearest
  <2> HIDE DEF nearest
  <2> QED BY <1>6, MaxIsIn
<1>8. PICK c \in found : c = Max(nearest) /\ MatchLength(all, c, here) = Max(lengths)
  BY <1>7
<1>9. Repeats(all, here, here - c, MatchLength(all, c, here))
  BY <1>4, MatchLengthRepeats
<1> QED BY <1>3, <1>8, <1>9

MaxOfTwo(a, b) == IF a >= b THEN a ELSE b

LEMMA MaxPair ==
  ASSUME NEW a \in Nat, NEW b \in Nat
  PROVE  Max({a, b}) \in Nat /\ Max({a, b}) >= a /\ Max({a, b}) >= b
<1>1. PICK t \in Nat : t >= a /\ t >= b
  <2>1. a + b \in Nat /\ a + b >= a /\ a + b >= b
    OBVIOUS
  <2> QED BY <2>1
<1>2. {a, b} \subseteq Nat /\ {a, b} # {} /\ \A x \in {a, b} : x <= t
  BY <1>1
<1>3. Max({a, b}) \in {a, b} /\ \A x \in {a, b} : x <= Max({a, b})
  BY <1>2, MaxIsIn
<1> QED BY <1>3

\* What an encoder has written and remembers; e is as it ought to be.
EncoderShape(e) ==
  /\ e = [stream |-> e.stream, posBack |-> e.posBack, dataBack |-> e.dataBack, dictMax |-> e.dictMax]
  /\ e.posBack \in Nat \ {0} /\ e.dataBack \in BOOLEAN /\ e.dictMax \in Nat

\* The token says the match m to a reader of what e has written.
MatchSaid(all, here, m, e, token) ==
  /\ OutDict(e, m) = [stream |-> Append(e.stream, token), posBack |-> m.dist,
                      dataBack |-> FALSE, dictMax |-> Max({e.dictMax, m.dist})]
  /\ \A w \in Nat : w >= m.dist =>
       Decode(Reader(SubSeq(all, 1, here), e.posBack, e.dataBack, "reading"), token, w)
         = Reader(SubSeq(all, 1, here + m.len), m.dist, FALSE, "reading")

\* A reader that remembers what the encoder remembers reads a match as it was meant.
LEMMA DictRead ==
  ASSUME NEW S, NEW all \in Seq(S), NEW here, NEW m, Repeats(all, here, m.dist, m.len), Usable(m),
         NEW e, EncoderShape(e)
  PROVE  \E token : MatchSaid(all, here, m, e, token)
<1>0. /\ here \in Nat /\ m.dist \in 1..here /\ m.len \in Nat /\ here + m.len <= Len(all)
      /\ BigPos \in Nat
  BY CodecAssumption DEF Repeats
<1> DEFINE same == e.posBack = m.dist /\ e.dataBack
           far == IF ~same /\ m.dist > BigPos THEN 1 ELSE 0
           token == [kind |-> "dict", len |-> Groups(m.len - MinMatch - far, LengthBase),
                     same |-> IF ~e.dataBack THEN <<>> ELSE <<IF same THEN 1 ELSE 0>>,
                     place |-> IF same THEN <<>> ELSE <<Place(m.dist)>>]
<1>1. OutDict(e, m) = [stream |-> Append(e.stream, token), posBack |-> m.dist,
                       dataBack |-> FALSE, dictMax |-> Max({e.dictMax, m.dist})]
  BY DEF OutDict
<1>2. PICK k \in Nat : k = m.len - MinMatch - far /\ k + MinMatch + far = m.len
  <2>1. PICK g \in {0, 1} : g = far /\ (g = 1 => m.dist > BigPos)
    OBVIOUS
  <2>2. PICK len \in Nat : len = m.len
    BY <1>0
  <2>3. len - MinMatch - g \in Nat
    BY <2>1, <2>2 DEF Usable, MinMatch
  <2> HIDE DEF far
  <2>4. PICK k \in Nat : k = len - MinMatch - g
    BY <2>3
  <2> QED BY <2>1, <2>2, <2>4 DEF MinMatch
<1>3. FromGroups(Groups(k, LengthBase), LengthBase) = k
  BY GroupsSay DEF LengthBase
<1> DEFINE out == SubSeq(all, 1, here)
           reader == Reader(out, e.posBack, e.dataBack, "reading")
<1>4. /\ reader.out = out /\ reader.posBack = e.posBack /\ reader.dataBack = e.dataBack
      /\ reader.status = "reading"
      /\ reader = [out |-> out, posBack |-> e.posBack, dataBack |-> e.dataBack, status |-> "reading"]
  BY DEF Reader
<1>5. Len(out) = here
  <2>1. CASE here < Len(all)
    BY <1>0, <2>1, Grown
  <2>2. CASE here = Len(all)
    BY <1>0, <2>2
  <2> QED BY <1>0, <2>1, <2>2
<1>6. ASSUME NEW w \in Nat, w >= m.dist
      PROVE  Decode(reader, token, w) = Reader(SubSeq(all, 1, here + m.len), m.dist, FALSE, "reading")
  <2>1. token.kind = "dict" /\ token.len = Groups(k, LengthBase)
    BY <1>2
  <2>2. (token.same # <<>>) = e.dataBack
    <3>1. CASE e.dataBack
      BY <3>1
    <3>2. CASE ~e.dataBack
      <4>1. e.dataBack = FALSE
        BY <3>2 DEF EncoderShape
      <4> QED BY <4>1
    <3> QED BY <3>1, <3>2
  <2>3. (IF token.place = <<>> THEN reader.posBack ELSE FromPlace(token.place[1])) = m.dist
    <3>1. CASE same
      BY <1>4, <3>1
    <3>2. CASE ~same
      <4>1. token.place # <<>> /\ token.place[1] = Place(m.dist)
        BY <3>2
      <4>2. FromPlace(Place(m.dist)) = m.dist
        BY <1>0, PlaceSays
      <4> QED BY <4>1, <4>2
    <3> QED BY <3>1, <3>2
  <2>4. (IF token.place # <<>> /\ m.dist > BigPos THEN 1 ELSE 0) = far
    <3>1. CASE same
      BY <3>1
    <3>2. CASE ~same
      <4>1. token.place # <<>>
        BY <3>2
      <4> QED BY <3>2, <4>1
    <3> QED BY <3>1, <3>2
  <2>5. Copied(out, m.dist, m.len) = SubSeq(all, 1, here + m.len)
    BY CopiedIsRead
  <2> HIDE DEF token, reader, out, far, same
  <2>6. Decode(reader, token, w) = DecodeDict(reader, token, w)
    BY <1>4, <2>1 DEF Decode
  <2>7. ~((token.same # <<>>) # reader.dataBack) /\ ~(m.dist > w) /\ ~(m.dist > Len(reader.out)) /\ m.dist > 0
    BY <1>0, <1>4, <1>5, <1>6, <2>2
  <2>8. DecodeDict(reader, token, w)
          = [reader EXCEPT !.out = Copied(@, m.dist, k + MinMatch + far), !.posBack = m.dist,
                        !.dataBack = FALSE]
    BY <1>3, <2>1, <2>3, <2>4, <2>7 DEF DecodeDict
  <2>9. DecodeDict(reader, token, w)
          = [out |-> SubSeq(all, 1, here + m.len), posBack |-> m.dist, dataBack |-> FALSE,
             status |-> "reading"]
    BY <1>2, <1>4, <2>5, <2>8
  <2> QED BY <2>6, <2>9 DEF Reader
<1>7. MatchSaid(all, here, m, e, token)
  BY <1>1, <1>6 DEF MatchSaid
<1> QED BY <1>7

-----------------------------------------------------------------------------
(* A stream.                                                                 *)

\* A reader with a window of max symbols or more goes from the first token to the last without
\* being told to stop, and is then as reader.
Traces(tr, stream, max, reader) ==
  /\ tr[0] = FreshDecoder /\ tr[Len(stream)] = reader
  /\ \A i \in 0..Len(stream) - 1 : tr[i].status \in {"reading", "line"}
  /\ \A i \in 1..Len(stream), w \in Nat : w >= max => Decode(tr[i - 1], stream[i], w) = tr[i]
Reads(stream, max, reader) ==
  \E Tokens : stream \in Seq(Tokens) /\ \E tr : Traces(tr, stream, max, reader)

LEMMA ReadsNothing ==
  ASSUME NEW max
  PROVE  Reads(<<>>, max, FreshDecoder)
<1>1. PICK Tokens : Tokens = {}
  OBVIOUS
<1>2. <<>> \in Seq(Tokens) /\ Len(<<>>) = 0
  OBVIOUS
<1>3. [i \in 0..0 |-> FreshDecoder][0] = FreshDecoder
  OBVIOUS
<1>4. 0..0 - 1 = {} /\ 1..0 = {}
  OBVIOUS
<1>5. Traces([i \in 0..0 |-> FreshDecoder], <<>>, max, FreshDecoder)
  BY <1>2, <1>3, <1>4 DEF Traces
<1> QED BY <1>2, <1>5 DEF Reads

LEMMA ReadsMore ==
  ASSUME NEW stream, NEW max \in Nat, NEW reader, Reads(stream, max, reader),
         reader.status \in {"reading", "line"}, NEW token, NEW wide \in Nat, wide >= max, NEW after,
         \A w \in Nat : w >= wide => Decode(reader, token, w) = after
  PROVE  Reads(Append(stream, token), wide, after)
<1>1. PICK Tokens : stream \in Seq(Tokens) /\ \E tr : Traces(tr, stream, max, reader)
  BY DEF Reads
<1>2. PICK tr : Traces(tr, stream, max, reader)
  BY <1>1
<1>3. PICK More : More = Tokens \cup {token}
  OBVIOUS
<1>4. stream \in Seq(More) /\ token \in More /\ Len(stream) \in Nat
  <2>1. \A i \in 1..Len(stream) : stream[i] \in More
    BY <1>1, <1>3
  <2> QED BY <1>1, <1>3, <2>1, SeqDef
<1>5. PICK s \in Seq(More) : s = Append(stream, token)
  <2>1. Append(stream, token) \in Seq(More)
    BY <1>4, AppendProperties
  <2> QED BY <2>1
<1>6. Len(s) = Len(stream) + 1 /\ s[Len(s)] = token /\ \A i \in 1..Len(stream) : s[i] = stream[i]
  BY <1>4, <1>5
<1>7. PICK n \in Nat : n = Len(stream)
  BY <1>4
<1> DEFINE t == [i \in 0..n + 1 |-> IF i <= n THEN tr[i] ELSE after]
<1>8. t[n + 1] = after /\ \A i \in 0..n : t[i] = tr[i]
  BY <1>7
<1> HIDE DEF t
<1>9. t[0] = FreshDecoder /\ t[n] = reader
  BY <1>2, <1>7, <1>8 DEF Traces
<1>10. \A i \in 0..n : t[i].status \in {"reading", "line"}
  <2>1. \A i \in 0..n : i \in 0..n - 1 \/ i = n
    BY <1>7
  <2> QED BY <1>2, <1>7, <1>8, <1>9, <2>1 DEF Traces
<1>11. ASSUME NEW i \in 1..n + 1, NEW w \in Nat, w >= wide
       PROVE  Decode(t[i - 1], s[i], w) = t[i]
  <2>1. CASE i <= n
    <3>1. i \in 1..n /\ i - 1 \in 0..n /\ i \in 0..n
      BY <2>1
    <3>2. w >= max
      BY <1>11
    <3>3. Decode(tr[i - 1], stream[i], w) = tr[i]
      BY <1>2, <1>7, <3>1, <3>2 DEF Traces
    <3> QED BY <1>6, <1>7, <1>8, <3>1, <3>3
  <2>2. CASE ~(i <= n)
    <3>1. i = n + 1 /\ i - 1 = n
      BY <2>2
    <3> QED BY <1>6, <1>7, <1>8, <1>9, <1>11, <3>1
  <2> QED BY <2>1, <2>2
<1>12. Traces(t, s, wide, after)
  <2>1. (n + 1) - 1 = n
    OBVIOUS
  <2> QED BY <1>6, <1>7, <1>8, <1>9, <1>10, <1>11, <2>1 DEF Traces
<1> QED BY <1>5, <1>12 DEF Reads

Singles(symbols) == [i \in DOMAIN symbols |-> [kind |-> "literal", symbol |-> symbols[i]]]

LEMMA GrownAfter ==
  ASSUME NEW S, NEW x \in Seq(S), NEW all \in Seq(S), NEW n \in Nat, n < Len(all)
  PROVE  x \o SubSeq(all, 1, n + 1) = Append(x \o SubSeq(all, 1, n), all[n + 1])
<1>1. PICK e \in S : e = all[n + 1]
  <2>1. n + 1 \in 1..Len(all)
    OBVIOUS
  <2> QED BY <2>1
<1>2. PICK s \in Seq(S) : s = SubSeq(all, 1, n) /\ Append(s, e) = SubSeq(all, 1, n + 1)
  BY <1>1, Grown
<1>3. x \o Append(s, e) = Append(x \o s, e)
  <2>0. Len(x) \in Nat /\ Len(s) \in Nat
    OBVIOUS
  <2>1. PICK u \in Seq(S) : u = x \o s
    <3>1. x \o s \in Seq(S)
      BY ConcatProperties
    <3> QED BY <3>1
  <2>2. Len(u) = Len(x) + Len(s) /\ \A i \in 1..Len(u) : u[i] = IF i <= Len(x) THEN x[i] ELSE s[i - Len(x)]
    BY <2>1
  <2>3. PICK v \in Seq(S) : v = Append(s, e)
    <3>1. Append(s, e) \in Seq(S)
      BY AppendProperties
    <3> QED BY <3>1
  <2>4. Len(v) = Len(s) + 1 /\ v[Len(s) + 1] = e /\ \A i \in 1..Len(s) : v[i] = s[i]
    BY <2>3
  <2>5. PICK y \in Seq(S) : y = x \o v
    <3>1. x \o v \in Seq(S)
      BY ConcatProperties
    <3> QED BY <3>1
  <2>6. Len(y) = Len(x) + Len(v) /\ \A i \in 1..Len(y) : y[i] = IF i <= Len(x) THEN x[i] ELSE v[i - Len(x)]
    BY <2>5
  <2>7. PICK z \in Seq(S) : z = Append(u, e)
    <3>1. Append(u, e) \in Seq(S)
      BY AppendProperties
    <3> QED BY <3>1
  <2>8. Len(z) = Len(u) + 1 /\ z[Len(u) + 1] = e /\ \A i \in 1..Len(u) : z[i] = u[i]
    BY <2>7
  <2>9. Len(z) = Len(y)
    BY <2>2, <2>4, <2>6, <2>8
  <2>10. ASSUME NEW i \in 1..Len(y) PROVE y[i] = z[i]
    <3>1. CASE i <= Len(x)
      <4>1. i \in 1..Len(u)
        BY <2>2, <3>1
      <4> QED BY <2>2, <2>6, <2>8, <3>1, <4>1
    <3>2. CASE i > Len(x) /\ i <= Len(u)
      <4>1. i \in 1..Len(u) /\ i - Len(x) \in 1..Len(s) /\ ~(i <= Len(x))
        BY <2>2, <3>2
      <4> QED BY <2>2, <2>4, <2>6, <2>8, <4>1
    <3>3. CASE i > Len(u)
      <4>1. i = Len(u) + 1 /\ i - Len(x) = Len(s) + 1 /\ ~(i <= Len(x))
        <5>1. Len(u) = Len(x) + Len(s) /\ Len(y) = Len(x) + Len(v) /\ Len(v) = Len(s) + 1
          BY <2>2, <2>4, <2>6
        <5>2. i \in Int /\ i <= Len(y)
          OBVIOUS
        <5>3. PICK a \in Nat : a = Len(x)
          BY <2>0
        <5>4. PICK c \in Nat : c = Len(s)
          BY <2>0
        <5>5. i > a + c /\ i <= a + (c + 1) /\ Len(u) = a + c
          BY <3>3, <5>1, <5>2, <5>3, <5>4
        <5>6. i = a + c + 1 /\ i - a = c + 1 /\ ~(i <= a)
          BY <5>2, <5>5
        <5> QED BY <5>3, <5>4, <5>5, <5>6
      <4> QED BY <2>4, <2>6, <2>8, <4>1
    <3>4. i <= Len(x) \/ (i > Len(x) /\ i <= Len(u)) \/ i > Len(u)
      BY <2>2
    <3> QED BY <3>1, <3>2, <3>3, <3>4
  <2>11. y = z
    BY <2>5, <2>7, <2>9, <2>10, SeqEqual
  <2> QED BY <2>1, <2>3, <2>5, <2>7, <2>11
<1> QED BY <1>1, <1>2, <1>3

\* Literals, token by token.
LEMMA SinglesRead ==
  ASSUME NEW S, NEW out \in Seq(S), NEW symbols \in Seq(S), NEW stream, NEW max \in Nat,
         NEW p, NEW b, Reads(stream, max, Reader(out, p, b, "reading")), symbols # <<>>
  PROVE  Reads(stream \o Singles(symbols), max, Reader(out \o symbols, p, TRUE, "reading"))
<1> DEFINE lit(x) == [kind |-> "literal", symbol |-> x]
<1>1. PICK Tokens : stream \in Seq(Tokens)
  BY DEF Reads
<1>2. PICK More : More = Tokens \cup {lit(x) : x \in S}
  OBVIOUS
<1>3. stream \in Seq(More)
  <2>1. \A i \in 1..Len(stream) : stream[i] \in More
    BY <1>1, <1>2
  <2> QED BY <1>1, <2>1, SeqDef
<1>4. PICK n \in Nat : n = Len(symbols) /\ DOMAIN symbols = 1..n /\ n # 0
  OBVIOUS
<1>5. PICK singles \in Seq(More) : singles = Singles(symbols) /\ Len(singles) = n
                                  /\ \A i \in 1..n : singles[i] = lit(symbols[i])
  <2> DEFINE f == [i \in 1..n |-> lit(symbols[i])]
  <2>1. Singles(symbols) = f
    BY <1>4 DEF Singles
  <2>2. \A i \in 1..n : lit(symbols[i]) \in More
    <3>1. \A i \in 1..n : symbols[i] \in S
      BY <1>4
    <3> QED BY <1>2, <3>1
  <2>3. f \in [1..n -> More] /\ \A i \in 1..n : f[i] = lit(symbols[i])
    BY <2>2
  <2> HIDE DEF f, lit
  <2>4. f \in Seq(More) /\ Len(f) = n
    BY <1>4, <2>3
  <2> QED BY <2>1, <2>3, <2>4
<1> DEFINE G(m) == Reads(stream \o SubSeq(singles, 1, m), max,
                         Reader(out \o SubSeq(symbols, 1, m), p, IF m = 0 THEN b ELSE TRUE, "reading"))
           T == {m \in Nat : m <= n => G(m)}
<1>6. G(0)
  <2>1. SubSeq(singles, 1, 0) = <<>> /\ SubSeq(symbols, 1, 0) = <<>>
    OBVIOUS
  <2>2. stream \o <<>> = stream /\ out \o <<>> = out
    BY <1>3
  <2> QED BY <2>1, <2>2
<1>7. ASSUME NEW m \in Nat, m < n, G(m) PROVE G(m + 1)
  <2>1. G(m) /\ m < n
    BY <1>7
  <2>2. stream \o SubSeq(singles, 1, m + 1) = Append(stream \o SubSeq(singles, 1, m), singles[m + 1])
    BY <1>3, <1>5, <2>1, GrownAfter, SMTT(20)
  <2>3. out \o SubSeq(symbols, 1, m + 1) = Append(out \o SubSeq(symbols, 1, m), symbols[m + 1])
    BY <1>4, <2>1, GrownAfter
  <2>4. singles[m + 1] = lit(symbols[m + 1])
    BY <1>4, <1>5, <2>1
  <2>5. PICK before : before = stream \o SubSeq(singles, 1, m)
    OBVIOUS
  <2>6. PICK o : o = out \o SubSeq(symbols, 1, m)
    OBVIOUS
  <2>7. PICK bit : bit = IF m = 0 THEN b ELSE TRUE
    OBVIOUS
  <2>8. Reads(before, max, Reader(o, p, bit, "reading"))
    BY <2>1, <2>5, <2>6, <2>7
  <2>9. PICK x : x = symbols[m + 1]
    OBVIOUS
  <2>10. Reader(o, p, bit, "reading").status \in {"reading", "line"}
    BY DEF Reader
  <2>11. \A w \in Nat : w >= max =>
           Decode(Reader(o, p, bit, "reading"), lit(x), w) = Reader(Append(o, x), p, TRUE, "reading")
    <3> SUFFICES ASSUME NEW w \in Nat
                 PROVE  Decode(Reader(o, p, bit, "reading"), lit(x), w)
                          = Reader(Append(o, x), p, TRUE, "reading")
      OBVIOUS
    <3> QED BY DEF Decode, Reader
  <2>12. Reads(Append(before, lit(x)), max, Reader(Append(o, x), p, TRUE, "reading"))
    <3> HIDE DEF lit
    <3>1. max >= max
      OBVIOUS
    <3> QED BY <2>8, <2>10, <2>11, <3>1, ReadsMore
  <2>13. m + 1 # 0
    OBVIOUS
  <2> HIDE DEF lit
  <2> QED BY <2>2, <2>3, <2>4, <2>5, <2>6, <2>9, <2>12, <2>13
<1> HIDE DEF G
<1>8. Nat \subseteq T
  <2>1. 0 \in T
    BY <1>6
  <2>2. \A m \in Nat : m \in T => m + 1 \in T
    BY <1>4, <1>7
  <2> HIDE DEF T
  <2> QED BY <2>1, <2>2, Induction
<1>9. G(n)
  BY <1>4, <1>8
<1> USE DEF G
<1>10. SubSeq(singles, 1, n) = singles /\ SubSeq(symbols, 1, n) = symbols
  BY <1>4, <1>5
<1> QED BY <1>4, <1>5, <1>9, <1>10

\* What the fans have read of an encoder, when out has been written.
Remembers(e, out) == Reader(out, e.posBack, e.dataBack, "reading")

LEMMA OutDataRead ==
  ASSUME NEW S, NEW out \in Seq(S), NEW symbols \in Seq(S), NEW e, EncoderShape(e),
         Reads(e.stream, e.dictMax, Remembers(e, out))
  PROVE  \E f : /\ f = OutData(e, symbols) /\ EncoderShape(f)
                /\ Reads(f.stream, f.dictMax, Remembers(f, out \o symbols))
<1>0. MinLine \in Nat \ {0} /\ e.dictMax \in Nat /\ e.dataBack \in BOOLEAN
  BY CodecAssumption DEF EncoderShape
<1>1. CASE symbols = <<>>
  <2>1. OutData(e, symbols) = e /\ out \o symbols = out
    BY <1>1 DEF OutData
  <2> QED BY <2>1
<1>2. CASE symbols # <<>> /\ Len(symbols) >= MinLine
  <2>1. PICK t : t = Control(e, LiteralLine)
    OBVIOUS
  <2>2. PICK l : l = Line(symbols)
    OBVIOUS
  <2>3. PICK mid : mid = Reader(out, e.posBack, FALSE, "line")
    OBVIOUS
  <2>4. PICK after : after = Reader(out \o symbols, e.posBack, TRUE, "reading")
    OBVIOUS
  <2>5. Reads(Append(e.stream, t), e.dictMax, mid)
    <3>1. PICK b \in BOOLEAN : b = e.dataBack
      BY <1>0
    <3>2. \A w \in Nat : Decode(Reader(out, e.posBack, b, "reading"), Control(e, LiteralLine), w)
                           = Reader(out, e.posBack, FALSE, "line")
      <4>1. PICK code \in Nat : code = LiteralLine
        BY DEF LiteralLine
      <4>2. PICK p : p = e.posBack
        OBVIOUS
      <4>3. e.dataBack = b
        BY <3>1
      <4>4. ASSUME NEW w \in Nat
            PROVE  Decode(Reader(out, p, b, "reading"), Control(e, code), w)
                     = IF code = LiteralLine THEN Reader(out, p, FALSE, "line")
                       ELSE Reader(out, 1, FALSE, IF code = StreamEnd THEN "ended" ELSE "garbled")
        BY <4>3, ControlRead DEF Reader
      <4> QED BY <4>1, <4>2, <4>4
    <3>3. Remembers(e, out).status \in {"reading", "line"}
      BY DEF Remembers, Reader
    <3>4. \A w \in Nat : w >= e.dictMax => Decode(Remembers(e, out), t, w) = mid
      BY <2>1, <2>3, <3>1, <3>2 DEF Remembers
    <3>5. e.dictMax >= e.dictMax
      BY <1>0
    <3> QED BY <1>0, <3>3, <3>4, <3>5, ReadsMore
  <2>6. Reads(Append(Append(e.stream, t), l), e.dictMax, after)
    <3>1. PICK before : before = Append(e.stream, t)
      OBVIOUS
    <3>2. \A w : Decode(mid, l, w) = after
      <4>1. PICK p : p = e.posBack
        OBVIOUS
      <4>2. Len(symbols) >= MinLine
        BY <1>2
      <4>3. ASSUME NEW w
            PROVE  Decode(Reader(out, p, FALSE, "line"), Line(symbols), w)
                     = Reader(out \o symbols, p, TRUE, "reading")
        BY <4>2, LineRead DEF Reader
      <4> QED BY <2>2, <2>3, <2>4, <4>1, <4>3
    <3>3. mid.status \in {"reading", "line"}
      BY <2>3 DEF Reader
    <3>4. e.dictMax >= e.dictMax
      BY <1>0
    <3>5. Reads(before, e.dictMax, mid)
      BY <2>5, <3>1
    <3>6. Reads(Append(before, l), e.dictMax, after)
      BY <1>0, <3>2, <3>3, <3>4, <3>5, ReadsMore
    <3> QED BY <3>1, <3>6
  <2>7. e.stream \o <<t, l>> = Append(Append(e.stream, t), l)
    <3>1. PICK Tokens : e.stream \in Seq(Tokens)
      BY DEF Reads
    <3>2. PICK More : More = Tokens \cup {t, l}
      OBVIOUS
    <3>3. e.stream \in Seq(More)
      <4>1. \A i \in 1..Len(e.stream) : e.stream[i] \in More
        BY <3>1, <3>2
      <4> QED BY <3>1, <4>1, SeqDef
    <3>4. <<t, l>> \in Seq(More) /\ Len(<<t, l>>) = 2
      BY <3>2
    <3>5. PICK tl \in Seq(More) : tl = <<t, l>> /\ Len(tl) = 2 /\ tl[1] = t /\ tl[2] = l
      BY <3>4
    <3>6. /\ e.stream \o SubSeq(tl, 1, 1) = Append(e.stream \o SubSeq(tl, 1, 0), tl[1])
          /\ e.stream \o SubSeq(tl, 1, 2) = Append(e.stream \o SubSeq(tl, 1, 1), tl[2])
      <4>1. \A n \in Nat : n < Len(tl) =>
              e.stream \o SubSeq(tl, 1, n + 1) = Append(e.stream \o SubSeq(tl, 1, n), tl[n + 1])
        BY <3>3, GrownAfter
      <4>2. 0 + 1 = 1 /\ 1 + 1 = 2 /\ 0 \in Nat /\ 1 \in Nat /\ 0 < Len(tl) /\ 1 < Len(tl)
        BY <3>5
      <4>3. e.stream \o SubSeq(tl, 1, 0 + 1) = Append(e.stream \o SubSeq(tl, 1, 0), tl[0 + 1])
        BY <4>1, <4>2
      <4>4. e.stream \o SubSeq(tl, 1, 1 + 1) = Append(e.stream \o SubSeq(tl, 1, 1), tl[1 + 1])
        BY <4>1, <4>2
      <4> QED BY <4>2, <4>3, <4>4
    <3>7. SubSeq(tl, 1, 0) = <<>> /\ e.stream \o <<>> = e.stream
      BY <3>3
    <3>8. SubSeq(tl, 1, 2) = tl
      <4>1. SubSeq(tl, 1, Len(tl)) = tl
        OBVIOUS
      <4> QED BY <3>5, <4>1
    <3> QED BY <3>5, <3>6, <3>7, <3>8
  <2>8. OutData(e, symbols)
          = [stream |-> Append(Append(e.stream, t), l), posBack |-> e.posBack,
             dataBack |-> TRUE, dictMax |-> e.dictMax]
    BY <1>2, <2>1, <2>2, <2>7 DEF OutData, EncoderShape, Line
  <2>9. PICK f : f = OutData(e, symbols)
    OBVIOUS
  <2>10. /\ f.stream = Append(Append(e.stream, t), l) /\ f.posBack = e.posBack
         /\ f.dataBack = TRUE /\ f.dictMax = e.dictMax
         /\ f = [stream |-> f.stream, posBack |-> f.posBack, dataBack |-> f.dataBack,
                 dictMax |-> f.dictMax]
    BY <2>8, <2>9
  <2>11. EncoderShape(f)
    BY <2>10 DEF EncoderShape
  <2>12. Remembers(f, out \o symbols) = after
    BY <2>4, <2>10 DEF Remembers
  <2> QED BY <2>6, <2>9, <2>10, <2>11, <2>12
<1>3. CASE symbols # <<>> /\ ~(Len(symbols) >= MinLine)
  <2>1. OutData(e, symbols)
          = [stream |-> e.stream \o Singles(symbols), posBack |-> e.posBack,
             dataBack |-> TRUE, dictMax |-> e.dictMax]
    BY <1>3 DEF OutData, EncoderShape, Singles
  <2>2. PICK stream : stream = e.stream
    OBVIOUS
  <2>3. PICK max \in Nat : max = e.dictMax
    BY <1>0
  <2>4. PICK p : p = e.posBack
    OBVIOUS
  <2>5. PICK b : b = e.dataBack
    OBVIOUS
  <2>6. Reads(stream, max, Reader(out, p, b, "reading"))
    BY <2>2, <2>3, <2>4, <2>5 DEF Remembers
  <2>7. Reads(stream \o Singles(symbols), max, Reader(out \o symbols, p, TRUE, "reading"))
    BY <1>3, <2>6, SinglesRead
  <2>9. PICK f : f = OutData(e, symbols)
    OBVIOUS
  <2>10. /\ f.stream = stream \o Singles(symbols) /\ f.posBack = p
         /\ f.dataBack = TRUE /\ f.dictMax = max
         /\ f = [stream |-> f.stream, posBack |-> f.posBack, dataBack |-> f.dataBack,
                 dictMax |-> f.dictMax]
    BY <2>1, <2>2, <2>3, <2>4, <2>9
  <2>11. EncoderShape(f)
    BY <2>3, <2>4, <2>10 DEF EncoderShape
  <2>12. Remembers(f, out \o symbols) = Reader(out \o symbols, p, TRUE, "reading")
    BY <2>10 DEF Remembers
  <2> QED BY <2>7, <2>9, <2>10, <2>11, <2>12
<1> QED BY <1>1, <1>2, <1>3

-----------------------------------------------------------------------------
(* The pipeline: what is on its way from the encoder to the fans is the      *)
(* buffer.  While it encodes, a reader of what has been written would hold   *)
(* the symbols before those held back, and remember what the encoder does.   *)

IsJob(j) ==
  /\ j.leds \in Nat /\ j.fans \in Nat
  /\ j = [device |-> j.device, leds |-> j.leds, fans |-> j.fans, mode |-> j.mode]

Unwritten == pos = 0 /\ run = 0 /\ enc = FreshEncoder

EncodingRight ==
  /\ pos \in 0..Len(data) /\ run \in 0..pos
  /\ EncoderShape(enc)
  /\ Reads(enc.stream, enc.dictMax, Remembers(enc, SubSeq(data, 1, pos - run)))

DecodingRight ==
  /\ enc.dictMax \in Nat /\ read \in Nat
  /\ \E Tokens : enc.stream \in Seq(Tokens)
  /\ stage = "decoding" => read < Len(enc.stream)
  /\ stage = "played" => read = Len(enc.stream)
  /\ \E tr, last : /\ Traces(tr, enc.stream, enc.dictMax, last)
                   /\ last.status = "ended" /\ last.out = data
                   /\ dec = tr[read]

CodecInv ==
  /\ IsJob(job) /\ stage \in Stages
  /\ \E S : data \in Seq(S)
  /\ stage \notin {"encoding", "decoding", "played"} => Unwritten
  /\ stage \notin {"decoding", "played"} => read = 0 /\ dec = FreshDecoder
  /\ stage = "encoding" => EncodingRight
  /\ stage \in {"decoding", "played"} => DecodingRight

LEMMA CodecInit == Init => CodecInv
<1> SUFFICES ASSUME Init PROVE CodecInv
  OBVIOUS
<1>1. IsJob(job)
  BY JobsAssumption DEF Init, IsJob
<1>2. \E S : data \in Seq(S)
  <2>1. PICK S : S = {}
    OBVIOUS
  <2>2. <<>> \in Seq(S)
    OBVIOUS
  <2> QED BY <2>2 DEF Init
<1> QED BY <1>1, <1>2 DEF Init, CodecInv, Stages, Unwritten

LEMMA CodecStutter ==
  ASSUME CodecInv, UNCHANGED vars
  PROVE  CodecInv'
BY DEF CodecInv, vars, IsJob, Unwritten, EncodingRight, DecodingRight

\* A page sends a mode: everything begins again.
LEMMA CodecSends ==
  ASSUME CodecInv, NEW m, stage = "drawn", Sends(m)
  PROVE  CodecInv'
<1>1. IsJob(job')
  BY DEF CodecInv, IsJob, Sends
<1>2. \E S : data' \in Seq(S)
  <2>1. PICK S : S = {}
    OBVIOUS
  <2>2. <<>> \in Seq(S)
    OBVIOUS
  <2> QED BY <2>2 DEF Sends
<1> QED BY <1>1, <1>2 DEF CodecInv, Sends, Stages, Unwritten, encoding, decoding

LEMMA JoinedPrefix ==
  ASSUME NEW S, NEW all \in Seq(S), NEW n \in 0..Len(all), NEW k \in 0..n
  PROVE  /\ SubSeq(all, 1, k) \in Seq(S) /\ SubSeq(all, k + 1, n) \in Seq(S)
         /\ SubSeq(all, 1, k) \o SubSeq(all, k + 1, n) = SubSeq(all, 1, n)
OBVIOUS

LEMMA CodecDraws ==
  ASSUME CodecInv, DrawFrame
  PROVE  CodecInv'
<1>1. \E S : data' \in Seq(S)
  <2>1. PICK S : data \in Seq(S)
    BY DEF CodecInv
  <2>2. PICK pic : data' = IF Followed THEN data \o Flattened(pic) ELSE data
    BY DEF DrawFrame
  <2>3. PICK n \in Nat : n = job.leds * job.fans
    BY DEF CodecInv, IsJob
  <2>4. PICK T : T = S \cup {Shown(pic, i - 1) : i \in 1..n}
    OBVIOUS
  <2>5. data \in Seq(T)
    <3>1. \A i \in 1..Len(data) : data[i] \in T
      BY <2>1, <2>4
    <3> QED BY <2>1, <3>1, SeqDef
  <2>6. Flattened(pic) \in Seq(T)
    <3>1. Flattened(pic) \in [1..n -> T]
      BY <2>3, <2>4 DEF Flattened
    <3> QED BY <3>1, SeqDef
  <2>7. data \o Flattened(pic) \in Seq(T)
    BY <2>5, <2>6, ConcatProperties
  <2> QED BY <2>2, <2>5, <2>7
<1>2. stage' = "encoding" => EncodingRight'
  <2>1. PICK S : data' \in Seq(S)
    BY <1>1
  <2>2. pos' = 0 /\ run' = 0 /\ enc' = FreshEncoder
    BY DEF CodecInv, Unwritten, DrawFrame, encoding
  <2>3. SubSeq(data', 1, 0 - 0) = <<>> /\ Len(data') \in Nat
    BY <2>1
  <2>4. Remembers(FreshEncoder, <<>>) = FreshDecoder
    BY DEF Remembers, Reader, FreshDecoder, FreshEncoder
  <2>5. Reads(<<>>, 1, FreshDecoder)
    BY ReadsNothing
  <2>6. EncoderShape(FreshEncoder) /\ FreshEncoder.stream = <<>> /\ FreshEncoder.dictMax = 1
    BY DEF EncoderShape, FreshEncoder
  <2>7. 0 \in 0..Len(data') /\ 0 \in 0..0
    BY <2>3
  <2> QED BY <2>2, <2>3, <2>4, <2>5, <2>6, <2>7 DEF EncodingRight
<1>3. stage' \in {"drawing", "encoding", "drawn"}
  BY DEF DrawFrame
<1>4. IsJob(job') /\ Unwritten' /\ read' = 0 /\ dec' = FreshDecoder
  BY DEF CodecInv, DrawFrame, IsJob, Unwritten, encoding, decoding
<1> QED BY <1>1, <1>2, <1>3, <1>4 DEF CodecInv, Stages

LEMMA CodecPasses ==
  ASSUME CodecInv, PassLiteral
  PROVE  CodecInv'
<1>1. PICK S : data \in Seq(S)
  BY DEF CodecInv
<1>2. Len(data) \in Nat /\ pos \in 0..Len(data) /\ run \in 0..pos
  BY <1>1 DEF CodecInv, PassLiteral, EncodingRight
<1>3. pos' \in 0..Len(data) /\ run' \in 0..pos' /\ pos' - run' = pos - run
  BY <1>2 DEF PassLiteral
<1>4. EncodingRight'
  BY <1>3 DEF CodecInv, PassLiteral, EncodingRight, drawing
<1> QED BY <1>1, <1>4 DEF CodecInv, PassLiteral, IsJob, Stages, drawing, decoding

\* What was held back is written.
LEMMA CodecWritesPending ==
  ASSUME CodecInv, stage = "encoding"
  PROVE  \E f : /\ f = OutData(enc, Pending) /\ EncoderShape(f)
                /\ Reads(f.stream, f.dictMax, Remembers(f, SubSeq(data, 1, pos)))
<1>1. PICK S : data \in Seq(S)
  BY DEF CodecInv
<1>2. /\ Len(data) \in Nat /\ pos \in 0..Len(data) /\ run \in 0..pos /\ EncoderShape(enc)
      /\ Reads(enc.stream, enc.dictMax, Remembers(enc, SubSeq(data, 1, pos - run)))
  BY <1>1 DEF CodecInv, EncodingRight
<1>3. PICK k \in 0..pos : k = pos - run
  BY <1>2
<1>4. PICK n \in 0..Len(data) : n = pos
  BY <1>2
<1>5. /\ SubSeq(data, 1, k) \in Seq(S) /\ SubSeq(data, k + 1, n) \in Seq(S)
      /\ SubSeq(data, 1, k) \o SubSeq(data, k + 1, n) = SubSeq(data, 1, n)
  BY <1>1, <1>3, <1>4, JoinedPrefix
<1>6. PICK out \in Seq(S) : out = SubSeq(data, 1, k)
  BY <1>5
<1>7. PICK symbols \in Seq(S) : symbols = SubSeq(data, k + 1, n)
  BY <1>5
<1>8. symbols = Pending
  BY <1>3, <1>4, <1>7 DEF Pending
<1>9. Reads(enc.stream, enc.dictMax, Remembers(enc, out))
  BY <1>2, <1>3, <1>6
<1>10. \E f : /\ f = OutData(enc, symbols) /\ EncoderShape(f)
              /\ Reads(f.stream, f.dictMax, Remembers(f, out \o symbols))
  BY <1>2, <1>9, OutDataRead
<1> QED BY <1>4, <1>5, <1>6, <1>7, <1>8, <1>10

LEMMA CodecMatches ==
  ASSUME CodecInv, WriteMatch
  PROVE  CodecInv'
<1>1. PICK S : data \in Seq(S)
  BY DEF CodecInv
<1>2. Len(data) \in Nat /\ pos \in 0..Len(data) /\ stage = "encoding" /\ pos < Len(data)
  BY <1>1 DEF CodecInv, WriteMatch, EncodingRight
<1>3. PICK f : /\ f = OutData(enc, Pending) /\ EncoderShape(f)
               /\ Reads(f.stream, f.dictMax, Remembers(f, SubSeq(data, 1, pos)))
  BY <1>2, CodecWritesPending
<1>4. PICK m : m = BestMatch(data, pos)
  OBVIOUS
<1>5. Usable(m) /\ enc' = OutDict(f, m) /\ pos' = pos + m.len /\ run' = 0
  BY <1>3, <1>4 DEF WriteMatch
<1>6. Repeats(data, pos, m.dist, m.len)
  BY <1>1, <1>2, <1>4, <1>5, BestMatchRepeats
<1>7. m.len \in Nat /\ pos + m.len <= Len(data) /\ m.dist \in 1..pos
  BY <1>6 DEF Repeats
<1>8. PICK token : MatchSaid(data, pos, m, f, token)
  BY <1>1, <1>3, <1>5, <1>6, DictRead
<1>9. PICK wide \in Nat : wide = Max({f.dictMax, m.dist}) /\ wide >= f.dictMax /\ wide >= m.dist
  <2>1. f.dictMax \in Nat /\ m.dist \in Nat
    BY <1>2, <1>3, <1>7 DEF EncoderShape
  <2> QED BY <2>1, MaxPair
<1>10. PICK before : before = Remembers(f, SubSeq(data, 1, pos))
  OBVIOUS
<1>11. PICK after : after = Reader(SubSeq(data, 1, pos + m.len), m.dist, FALSE, "reading")
  OBVIOUS
<1>12. PICK stream : stream = f.stream
  OBVIOUS
<1>13. PICK max \in Nat : max = f.dictMax
  BY <1>3 DEF EncoderShape
<1>14. Reads(Append(stream, token), wide, after)
  <2>1. before.status \in {"reading", "line"}
    BY <1>10 DEF Remembers, Reader
  <2>2. \A w \in Nat : w >= wide => Decode(before, token, w) = after
    <3> SUFFICES ASSUME NEW w \in Nat, w >= wide PROVE Decode(before, token, w) = after
      OBVIOUS
    <3>1. w >= m.dist
      BY <1>2, <1>7, <1>9
    <3> QED BY <1>8, <1>10, <1>11, <3>1 DEF Remembers, MatchSaid
  <2>3. Reads(stream, max, before) /\ wide >= max
    BY <1>3, <1>9, <1>10, <1>12, <1>13
  <2> QED BY <2>1, <2>2, <2>3, ReadsMore
<1>15. /\ enc'.stream = Append(stream, token) /\ enc'.posBack = m.dist /\ enc'.dataBack = FALSE
       /\ enc'.dictMax = wide
       /\ enc' = [stream |-> enc'.stream, posBack |-> enc'.posBack, dataBack |-> enc'.dataBack,
                  dictMax |-> enc'.dictMax]
  BY <1>5, <1>8, <1>9, <1>12 DEF MatchSaid
<1>16. Remembers(enc', SubSeq(data, 1, pos')) = after
  BY <1>5, <1>11, <1>15 DEF Remembers
<1>17. EncoderShape(enc')
  <2>1. m.dist \in Nat \ {0}
    BY <1>2, <1>7
  <2>2. enc'.posBack \in Nat \ {0} /\ enc'.dictMax \in Nat
    BY <1>9, <1>15, <2>1
  <2>3. enc'.dataBack \in BOOLEAN
    BY <1>15
  <2> QED BY <1>15, <2>2, <2>3 DEF EncoderShape
<1>18. pos' \in 0..Len(data) /\ 0 \in 0..pos' /\ pos' - 0 = pos'
  BY <1>2, <1>5, <1>7
<1>19. data' = data /\ job' = job /\ stage' = stage /\ read' = read /\ dec' = dec
  BY DEF WriteMatch, drawing, decoding
<1>20. EncodingRight'
  BY <1>5, <1>14, <1>15, <1>16, <1>17, <1>18, <1>19 DEF EncodingRight
<1> QED BY <1>1, <1>2, <1>19, <1>20 DEF CodecInv, IsJob, Stages

LEMMA CodecFinishes ==
  ASSUME CodecInv, FinishStream
  PROVE  CodecInv'
<1>1. PICK S : data \in Seq(S)
  BY DEF CodecInv
<1>2. /\ Len(data) \in Nat /\ stage = "encoding" /\ pos = Len(data) /\ stage' = "decoding"
      /\ data' = data /\ job' = job /\ read' = read /\ dec' = dec /\ read = 0 /\ dec = FreshDecoder
  BY <1>1 DEF CodecInv, FinishStream, drawing, decoding
<1>3. PICK f : /\ f = OutData(enc, Pending) /\ EncoderShape(f)
               /\ Reads(f.stream, f.dictMax, Remembers(f, SubSeq(data, 1, pos)))
  BY <1>2, CodecWritesPending
<1>4. SubSeq(data, 1, pos) = data
  BY <1>1, <1>2
<1>5. PICK token : token = Control(f, StreamEnd)
  OBVIOUS
<1>6. enc'.stream = Append(f.stream, token) /\ enc'.dictMax = f.dictMax
  BY <1>3, <1>5 DEF FinishStream, OutEnd, EncoderShape
<1>7. PICK last : last = Reader(data, 1, FALSE, "ended")
  OBVIOUS
<1>8. \A w \in Nat : Decode(Remembers(f, data), token, w) = last
  <2>1. PICK b \in BOOLEAN : f.dataBack = b
    BY <1>3 DEF EncoderShape
  <2>2. PICK code \in Nat : code = StreamEnd /\ code # LiteralLine
    BY DEF StreamEnd, LiteralLine
  <2>3. PICK p : p = f.posBack
    OBVIOUS
  <2>4. ASSUME NEW w \in Nat
        PROVE  Decode(Reader(data, p, b, "reading"), Control(f, code), w)
                 = IF code = LiteralLine THEN Reader(data, p, FALSE, "line")
                   ELSE Reader(data, 1, FALSE, IF code = StreamEnd THEN "ended" ELSE "garbled")
    BY <1>1, <2>1, ControlRead DEF Reader
  <2> QED BY <1>5, <1>7, <2>1, <2>2, <2>3, <2>4 DEF Remembers
<1>9. PICK max \in Nat : max = f.dictMax
  BY <1>3 DEF EncoderShape
<1>10. PICK before : before = Remembers(f, data)
  OBVIOUS
<1>11. PICK stream : stream = f.stream
  OBVIOUS
<1>12. Reads(Append(stream, token), max, last)
  <2>1. before.status \in {"reading", "line"}
    BY <1>10 DEF Remembers, Reader
  <2>2. \A w \in Nat : w >= max => Decode(before, token, w) = last
    BY <1>8, <1>10
  <2>3. Reads(stream, max, before)
    BY <1>3, <1>4, <1>9, <1>10, <1>11
  <2>4. max >= max
    OBVIOUS
  <2> QED BY <2>1, <2>2, <2>3, <2>4, ReadsMore
<1>13. PICK Tokens : enc'.stream \in Seq(Tokens) /\ \E tr : Traces(tr, enc'.stream, max, last)
  BY <1>6, <1>11, <1>12 DEF Reads
<1>14. PICK tr : Traces(tr, enc'.stream, max, last)
  BY <1>13
<1>15. last.status = "ended" /\ last.out = data
  BY <1>7 DEF Reader
<1>16. dec = tr[0]
  BY <1>2, <1>14 DEF Traces
<1>17. 0 < Len(enc'.stream)
  <2>1. PICK Some : stream \in Seq(Some)
    BY <1>3, <1>11 DEF Reads
  <2>2. Len(Append(stream, token)) = Len(stream) + 1 /\ Len(stream) \in Nat
    BY <2>1
  <2> QED BY <1>6, <1>11, <2>2
<1>18. DecodingRight'
  BY <1>2, <1>6, <1>9, <1>13, <1>14, <1>15, <1>16, <1>17 DEF DecodingRight
<1> QED BY <1>1, <1>2, <1>18 DEF CodecInv, IsJob, Stages

LEMMA CodecReads ==
  ASSUME CodecInv, ReadToken
  PROVE  CodecInv'
<1>1. PICK tr, last : /\ Traces(tr, enc.stream, enc.dictMax, last)
                      /\ last.status = "ended" /\ last.out = data
                      /\ dec = tr[read]
  BY DEF CodecInv, ReadToken, DecodingRight
<1>2. enc.dictMax \in Nat /\ read \in Nat /\ read < Len(enc.stream) /\ Len(enc.stream) \in Nat
  BY DEF CodecInv, ReadToken, DecodingRight
<1>3. /\ enc' = enc /\ data' = data /\ job' = job /\ pos' = pos /\ run' = run
      /\ read' = read + 1 /\ dec' = Decode(dec, enc.stream[read + 1], enc.dictMax)
  BY DEF ReadToken, drawing, encoding
<1>4. PICK n \in Nat : n = read + 1 /\ n - 1 = read /\ n \in 1..Len(enc.stream)
  BY <1>2
<1>5. dec' = tr[n]
  <2>1. enc.dictMax >= enc.dictMax
    BY <1>2
  <2>2. Decode(tr[n - 1], enc.stream[n], enc.dictMax) = tr[n]
    BY <1>1, <1>2, <1>4, <2>1 DEF Traces
  <2> QED BY <1>1, <1>3, <1>4, <2>2
<1>6. n < Len(enc.stream) => tr[n].status \in {"reading", "line"}
  <2>1. n < Len(enc.stream) => n \in 0..Len(enc.stream) - 1
    BY <1>2, <1>4
  <2> QED BY <1>1, <2>1 DEF Traces
<1>7. n = Len(enc.stream) => tr[n].status = "ended"
  BY <1>1 DEF Traces
<1>8. (stage' = "decoding" /\ n < Len(enc.stream)) \/ (stage' = "played" /\ n = Len(enc.stream))
  <2>1. stage' = IF dec'.status \in {"ended", "garbled"} \/ n = Len(enc.stream)
                 THEN "played" ELSE "decoding"
    BY <1>3, <1>4 DEF ReadToken
  <2>2. CASE n < Len(enc.stream)
    BY <1>2, <1>4, <1>5, <1>6, <2>1, <2>2
  <2>3. CASE n = Len(enc.stream)
    BY <1>5, <1>7, <2>1, <2>3
  <2> QED BY <1>2, <1>4, <2>2, <2>3
<1>9. DecodingRight'
  BY <1>1, <1>2, <1>3, <1>4, <1>5, <1>8 DEF CodecInv, ReadToken, DecodingRight
<1> QED BY <1>3, <1>8, <1>9 DEF CodecInv, IsJob, Stages

LEMMA CodecNext ==
  ASSUME CodecInv, [Next]_vars
  PROVE  CodecInv'
<1>1. CASE Ignore \/ Refuse \/ Compose
  BY <1>1 DEF CodecInv, Ignore, Refuse, Compose, Stages, IsJob, Unwritten, drawing, encoding, decoding
<1>2. CASE DrawFrame
  BY <1>2, CodecDraws
<1>3. CASE PassLiteral
  BY <1>3, CodecPasses
<1>4. CASE WriteMatch
  BY <1>4, CodecMatches
<1>5. CASE FinishStream
  BY <1>5, CodecFinishes
<1>6. CASE ReadToken
  BY <1>6, CodecReads
<1>7. CASE UNCHANGED vars
  BY <1>7, CodecStutter
<1> QED BY <1>1, <1>2, <1>3, <1>4, <1>5, <1>6, <1>7 DEF Next

\* What the pages do to the pipeline: nothing, or a mode is sent, or it goes on.
LEMMA PagesStep ==
  ASSUME [PagesNext]_pageVars
  PROVE  [Next]_vars \/ (stage = "drawn" /\ \E m : Sends(m))
<1>1. CASE UNCHANGED pageVars
  BY <1>1 DEF pageVars
<1>2. CASE Upload /\ UNCHANGED pages
  BY <1>2 DEF Upload, Next
<1>3. CASE Take
  BY <1>3 DEF Take, Next
<1>4. CASE Sync
  BY <1>4 DEF Sync
<1>5. CASE \E e \in Edits : LedColorChanged(e)
  BY <1>5 DEF LedColorChanged
<1>6. CASE ApplyPerLed
  BY <1>6 DEF ApplyPerLed, Settled
<1>7. CASE \E picked \in ZonePicks : ApplyLed(picked)
  BY <1>7 DEF ApplyLed, Change, Settled
<1>8. CASE SaveLedPreset \/ DeleteLedPreset \/ LoadLedPreset
  BY <1>8 DEF SaveLedPreset, DeleteLedPreset, LoadLedPreset
<1>9. CASE \E src \in Picks : Adjust(src)
  BY <1>9 DEF Adjust, Change, Settled
<1>10. CASE \E ring \in {"inner", "outer", "both"} : RingChanged(ring)
  BY <1>10 DEF RingChanged
<1>11. CASE ApplyAll \/ OffAll
  BY <1>11 DEF ApplyAll, OffAll, Change, Settled
<1>12. CASE SelectGroup
  BY <1>12 DEF SelectGroup
<1> QED BY <1>1, <1>2, <1>3, <1>4, <1>5, <1>6, <1>7, <1>8, <1>9, <1>10, <1>11, <1>12 DEF PagesNext

LEMMA CodecPagesNext ==
  ASSUME CodecInv, [PagesNext]_pageVars
  PROVE  CodecInv'
<1>1. CASE [Next]_vars
  BY <1>1, CodecNext
<1>2. CASE stage = "drawn" /\ \E m : Sends(m)
  BY <1>2, CodecSends
<1> QED BY <1>1, <1>2, PagesStep

LEMMA CodecInvRight == CodecInv => DecodesBack
<1> SUFFICES ASSUME CodecInv PROVE DecodesBack
  OBVIOUS
<1>1. CASE stage \notin {"decoding", "played"}
  BY <1>1 DEF CodecInv, DecodesBack, FreshDecoder
<1>2. CASE stage \in {"decoding", "played"}
  <2>1. PICK tr, last : /\ Traces(tr, enc.stream, enc.dictMax, last)
                        /\ last.status = "ended" /\ last.out = data
                        /\ dec = tr[read]
    BY <1>2 DEF CodecInv, DecodingRight
  <2>2. CASE stage = "decoding"
    <3>1. read \in 0..Len(enc.stream) - 1
      <4>1. Len(enc.stream) \in Nat /\ read \in Nat /\ read < Len(enc.stream)
        BY <2>2 DEF CodecInv, DecodingRight
      <4> QED BY <4>1
    <3> QED BY <2>1, <2>2, <3>1 DEF Traces, DecodesBack
  <2>3. CASE stage = "played"
    BY <2>1, <2>3 DEF CodecInv, DecodingRight, Traces, DecodesBack
  <2> QED BY <1>2, <2>2, <2>3
<1> QED BY <1>1, <1>2

\* The decompressor of the fans, which shares no state with tuz_compress, reads every stream to
\* its end and gives back the very buffer, for every buffer, window, chain and hash.
THEOREM FansDecodeBack == Spec => []DecodesBack
<1>1. CodecInv /\ [Next]_vars => CodecInv'
  BY CodecNext
<1> QED BY CodecInit, <1>1, CodecInvRight, PTL DEF Spec

\* The same while the pages of the graphical interface send one mode after the other.
THEOREM FansDecodeBackWithPages == PagesSpec => []DecodesBack
<1>1. PagesInit => CodecInv
  BY CodecInit DEF PagesInit
<1>2. CodecInv /\ [PagesNext]_pageVars => CodecInv'
  BY CodecPagesNext
<1> QED BY <1>1, <1>2, CodecInvRight, PTL DEF PagesSpec

-----------------------------------------------------------------------------
(* Where the effects paint.                                                  *)

OnRing(pic, n) == \A m \in pic : m[1] \in Ring(n)

LEMMA OnRingLeds ==
  ASSUME NEW pic, NEW n, OnRing(pic, n)
  PROVE  Leds(pic) \subseteq Ring(n)
BY DEF OnRing, Leds

LEMMA RingMod ==
  ASSUME NEW x \in Int, NEW n \in Nat \ {0}
  PROVE  x % n \in Ring(n) /\ x % n \in Nat /\ x % n < n
BY DEF Ring

LEMMA BouncePosBound ==
  ASSUME NEW f \in Nat, NEW max \in Nat
  PROVE  BouncePos(f, max) \in 0..max
<1>1. CASE max = 0
  BY <1>1 DEF BouncePos
<1>2. CASE max # 0
  <2>1. PICK two \in Nat \ {0} : two = 2 * max
    BY <1>2
  <2>2. PICK t \in Nat : t = f % two /\ t < two
    BY <2>1, RingMod
  <2>3. BouncePos(f, max) = IF t < max THEN t ELSE 2 * max - t
    BY <1>2, <2>1, <2>2 DEF BouncePos
  <2> QED BY <2>1, <2>2, <2>3
<1> QED BY <1>1, <1>2

LEMMA FromStartOnRing ==
  ASSUME NEW n \in Nat, NEW i \in Ring(n), NEW ccw
  PROVE  FromStart(n, i, ccw) \in Ring(n)
BY DEF FromStart, Ring

\* The comets of the two directions.
Up(n, head, len, hue) == {<<(head + t) % n, hue, t>> : t \in 0..len - 1}
Down(n, head, len, hue) == {<<(head + (n - t)) % n, hue, t>> : t \in 0..len - 1}

LEMMA TailsOnRing ==
  ASSUME NEW n \in Nat \ {0}, NEW head \in Int, NEW len \in Int, NEW hue
  PROVE  OnRing(Up(n, head, len, hue), n) /\ OnRing(Down(n, head, len, hue), n)
<1>1. \A t \in 0..len - 1 : (head + t) % n \in Ring(n)
  <2> SUFFICES ASSUME NEW t \in 0..len - 1 PROVE (head + t) % n \in Ring(n)
    OBVIOUS
  <2>1. PICK x \in Int : x = head + t
    OBVIOUS
  <2> QED BY <2>1, RingMod
<1>2. \A t \in 0..len - 1 : (head + (n - t)) % n \in Ring(n)
  <2> SUFFICES ASSUME NEW t \in 0..len - 1 PROVE (head + (n - t)) % n \in Ring(n)
    OBVIOUS
  <2>1. PICK x \in Int : x = head + (n - t)
    OBVIOUS
  <2> QED BY <2>1, RingMod
<1>3. OnRing(Up(n, head, len, hue), n)
  BY <1>1 DEF OnRing, Up
<1>4. OnRing(Down(n, head, len, hue), n)
  BY <1>2 DEF OnRing, Down
<1> QED BY <1>3, <1>4

LEMMA CometOnRing ==
  ASSUME NEW n \in Nat \ {0}, NEW head \in Int, NEW len \in Int, NEW ccw, NEW hue
  PROVE  OnRing(Comet(n, head, len, ccw, hue), n)
<1>1. Comet(n, head, len, ccw, hue) = IF ccw THEN Up(n, head, len, hue) ELSE Down(n, head, len, hue)
  BY DEF Comet, Up, Down
<1> QED BY <1>1, TailsOnRing

\* size LEDs from start on, and the four LEDs that end with head.
Piece(n, start, size, shade) == {<<(start + i) % n, 1, shade>> : i \in 0..size - 1}
Four(n, head, hue) == {<<(head + n - s) % n, hue, 0>> : s \in 0..3}

LEMMA PiecesOnRing ==
  ASSUME NEW n \in Nat \ {0}, NEW start \in Int, NEW size \in Int, NEW shade
  PROVE  OnRing(Piece(n, start, size, shade), n) /\ OnRing(Four(n, start, shade), n)
<1>1. \A i \in 0..size - 1 : (start + i) % n \in Ring(n)
  <2> SUFFICES ASSUME NEW i \in 0..size - 1 PROVE (start + i) % n \in Ring(n)
    OBVIOUS
  <2>1. PICK x \in Int : x = start + i
    OBVIOUS
  <2> QED BY <2>1, RingMod
<1>2. \A s \in 0..3 : (start + n - s) % n \in Ring(n)
  <2> SUFFICES ASSUME NEW s \in 0..3 PROVE (start + n - s) % n \in Ring(n)
    OBVIOUS
  <2>1. PICK x \in Int : x = start + n - s
    OBVIOUS
  <2> QED BY <2>1, RingMod
<1>3. OnRing(Piece(n, start, size, shade), n)
  <2> SUFFICES ASSUME NEW m \in Piece(n, start, size, shade) PROVE m[1] \in Ring(n)
    BY DEF OnRing
  <2>1. PICK i \in 0..size - 1 : m = <<(start + i) % n, 1, shade>>
    BY DEF Piece
  <2> QED BY <1>1, <2>1
<1>4. OnRing(Four(n, start, shade), n)
  BY <1>2 DEF OnRing, Four
<1> QED BY <1>3, <1>4

LEMMA ArcOnRing ==
  ASSUME NEW n \in Nat \ {0}, NEW here \in Nat, NEW width \in Int, NEW ccw, NEW hue, NEW shaded
  PROVE  OnRing(Arc(n, here, width, ccw, hue, shaded), n)
<1>1. \A i \in 0..width - 1 : FromStart(n, Smaller(here + i, n - 1), ccw) \in Ring(n)
  <2> SUFFICES ASSUME NEW i \in 0..width - 1
               PROVE  FromStart(n, Smaller(here + i, n - 1), ccw) \in Ring(n)
    OBVIOUS
  <2>1. Smaller(here + i, n - 1) \in Ring(n)
    BY DEF Smaller, Ring
  <2>2. PICK j \in Ring(n) : j = Smaller(here + i, n - 1)
    BY <2>1
  <2> QED BY <2>2, FromStartOnRing
<1> QED BY <1>1 DEF OnRing, Arc

LEMMA BothOnRing ==
  ASSUME NEW n, NEW a, NEW b, OnRing(a, n), OnRing(b, n)
  PROVE  OnRing(a \cup b, n)
BY DEF OnRing

LEMMA RoundRing ==
  ASSUME NEW n \in Nat \ {0}, NEW f \in Nat, NEW ccw
  PROVE  FromStart(n, f % n, ccw) \in Int /\ f % n \in Int
<1>1. PICK x \in Int : x = f
  OBVIOUS
<1>2. PICK i \in Ring(n) : i = f % n
  BY <1>1, RingMod
<1> QED BY <1>2, FromStartOnRing DEF Ring

LEMMA TurnsOnRing ==
  ASSUME NEW n \in Nat, n >= 4, NEW f \in Nat, NEW ccw
  PROVE  /\ OnRing(Rainbow(n, f, ccw), n) /\ OnRing(Taichi(n, f, ccw), n)
         /\ OnRing(Tide(n, f, ccw), n) /\ OnRing(ColorCycle(n, f, ccw), n)
         /\ OnRing(Render(n, f, ccw), n) /\ OnRing(GradientRibbon(n, f, ccw), n)
         /\ OnRing(River(n, f, ccw), n)
BY DEF OnRing, Rainbow, Taichi, Tide, ColorCycle, Render, GradientRibbon, River

LEMMA MeteorsOnRing ==
  ASSUME NEW n \in Nat, n >= 4, NEW f \in Nat, NEW ccw
  PROVE  /\ OnRing(Meteor(n, f, ccw), n) /\ OnRing(MeteorRainbow(n, f, ccw), n)
         /\ OnRing(Pioneer(n, f, ccw), n) /\ OnRing(Endless(n, f, ccw), n)
         /\ OnRing(ElectricCurrent(n, f, ccw), n) /\ OnRing(ColorfulMeteor(n, f, ccw), n)
<1>0. n \in Nat \ {0}
  OBVIOUS
<1>1. PICK head \in Int : head = FromStart(n, f % n, ccw)
  BY <1>0, RoundRing
<1>2. \A len \in Int : \A dir, hue : OnRing(Comet(n, head, len, dir, hue), n)
  BY <1>0, CometOnRing
<1>3. /\ MeteorTailLen \in Int /\ n \div 2 + 1 \in Int /\ (2 * n) \div 3 \in Int
      /\ Larger(n \div 3, 3) \in Int
  BY DEF MeteorTailLen, Larger
<1>4. OnRing(Meteor(n, f, ccw), n) /\ OnRing(MeteorRainbow(n, f, ccw), n)
  BY <1>1, <1>2, <1>3 DEF Meteor, MeteorRainbow
<1>5. OnRing(Pioneer(n, f, ccw), n)
  BY <1>1, <1>2, <1>3 DEF Pioneer
<1>6. OnRing(Endless(n, f, ccw), n)
  BY <1>1, <1>2, <1>3 DEF Endless
<1>7. OnRing(ElectricCurrent(n, f, ccw), n)
  <2>1. OnRing(Comet(n, head, Larger(n \div 3, 3), FALSE, 1), n)
    BY <1>2, <1>3
  <2> QED BY <1>1, <2>1 DEF ElectricCurrent, OnRing
<1>8. OnRing(ColorfulMeteor(n, f, ccw), n)
  <2> DEFINE one(m) == Comet(n, FromStart(n, ((f % n) + m * (n \div 3)) % n, ccw), 4, ccw, m * (n \div 3))
  <2>1. ASSUME NEW m \in 0..2 PROVE OnRing(one(m), n)
    <3>1. PICK x \in Nat : x = (f % n) + m * (n \div 3)
      <4>1. f % n \in Nat /\ n \div 3 \in Nat
        BY <1>0, RingMod
      <4> QED BY <4>1
    <3>2. PICK h \in Int : h = FromStart(n, x % n, ccw)
      BY <1>0, RoundRing
    <3>3. \A hue : OnRing(Comet(n, h, 4, ccw, hue), n)
      BY <1>0, CometOnRing
    <3> QED BY <3>1, <3>2, <3>3
  <2>2. ColorfulMeteor(n, f, ccw) = UNION {one(m) : m \in 0..2}
    BY DEF ColorfulMeteor
  <2> HIDE DEF one
  <2> QED BY <2>1, <2>2 DEF OnRing
<1> QED BY <1>4, <1>5, <1>6, <1>7, <1>8

LEMMA SweepsOnRing ==
  ASSUME NEW n \in Nat, n >= 4, NEW f \in Nat, NEW ccw
  PROVE  /\ OnRing(Boomerang(n, f, ccw), n) /\ OnRing(ReturnArc(n, f, ccw), n)
         /\ OnRing(Runway(n, f, ccw), n) /\ OnRing(Mixing(n, f, ccw), n)
         /\ OnRing(HeartBeatRunway(n, f, ccw), n)
<1>0. n \in Nat \ {0}
  OBVIOUS
<1>1. PICK here \in Nat : here = f % n /\ here < n
  BY <1>0, RingMod
<1>2. \A i \in 0..here : FromStart(n, i, ccw) \in Ring(n)
  BY <1>1, FromStartOnRing DEF Ring
<1>3. \A i \in n - here - 1..n - 1 : FromStart(n, i, ccw) \in Ring(n)
  BY <1>1, FromStartOnRing DEF Ring
<1>4. OnRing(Runway(n, f, ccw), n)
  <2>1. \A i \in 0..here - 1 : i \in 0..here
    BY <1>1
  <2> QED BY <1>1, <1>2, <2>1 DEF OnRing, Runway
<1>5. OnRing(Mixing(n, f, ccw), n)
  BY <1>1, <1>2, <1>3 DEF OnRing, Mixing
<1>6. ASSUME NEW width \in Nat, width <= n PROVE BouncePos(f, n - width) \in Nat
  <2>1. PICK max \in Nat : max = n - width
    BY <1>6
  <2> QED BY <2>1, BouncePosBound
<1>7. Larger(n \div 6, 2) \in Nat /\ Larger(n \div 6, 2) <= n
      /\ Larger(n \div 4, 2) \in Nat /\ Larger(n \div 4, 2) <= n
  BY DEF Larger
<1>8. OnRing(Boomerang(n, f, ccw), n)
  <2>1. PICK width \in Nat : width = Larger(n \div 6, 2) /\ width <= n
    BY <1>7
  <2>2. PICK p \in Nat : p = BouncePos(f, n - width)
    BY <1>6, <2>1
  <2>3. \A dir, hue, shaded : OnRing(Arc(n, p, width, dir, hue, shaded), n)
    BY <1>0, ArcOnRing
  <2> QED BY <2>1, <2>2, <2>3 DEF Boomerang
<1>9. OnRing(ReturnArc(n, f, ccw), n)
  <2>1. PICK width \in Nat : width = Larger(n \div 4, 2) /\ width <= n
    BY <1>7
  <2>2. PICK p \in Nat : p = BouncePos(f, n - width)
    BY <1>6, <2>1
  <2>3. \A dir, hue, shaded : OnRing(Arc(n, p, width, dir, hue, shaded), n)
    BY <1>0, ArcOnRing
  <2> QED BY <2>1, <2>2, <2>3 DEF ReturnArc
<1>10. OnRing(HeartBeatRunway(n, f, ccw), n)
  <2>1. PICK half \in Nat : half = f \div 2
    OBVIOUS
  <2>2. PICK front \in Nat : front = half % n /\ front < n
    BY <1>0, RingMod
  <2>3. \A i \in 0..front : FromStart(n, i, ccw) \in Ring(n)
    BY <2>2, FromStartOnRing DEF Ring
  <2> QED BY <2>1, <2>2, <2>3 DEF OnRing, HeartBeatRunway
<1> QED BY <1>4, <1>5, <1>8, <1>9, <1>10

LEMMA MopUpOnRing ==
  ASSUME NEW n \in Nat, n >= 4, NEW f \in Nat, f < 2 * n, NEW ccw
  PROVE  OnRing(MopUp(n, f, ccw), n)
<1>1. \A i \in 0..(IF f < n THEN f ELSE n - (f - n) - 2) : FromStart(n, i, ccw) \in Ring(n)
  <2>1. \A i \in 0..(IF f < n THEN f ELSE n - (f - n) - 2) : i \in Ring(n)
    BY DEF Ring
  <2> QED BY <2>1, FromStartOnRing
<1> QED BY <1>1 DEF OnRing, MopUp

LEMMA ScanOnRing ==
  ASSUME NEW n \in Nat, n >= 4, NEW f \in Nat, f < 2 * n, NEW ccw
  PROVE  OnRing(Scan(n, f, ccw), n)
<1>1. PICK i \in Ring(n) : i = IF f < n THEN f ELSE 2 * n - f - 1
  <2>1. PICK i \in Int : i = IF f < n THEN f ELSE 2 * n - f - 1
    <3>1. f \in Int /\ 2 * n - f - 1 \in Int
      OBVIOUS
    <3> QED BY <3>1
  <2>2. i \in Ring(n)
    BY <2>1 DEF Ring
  <2> QED BY <2>1, <2>2
<1>2. PICK here \in Ring(n) : here = FromStart(n, IF f < n THEN f ELSE 2 * n - f - 1, ccw)
  BY <1>1, FromStartOnRing
<1>3. \A k \in 0..Smaller(Larger(n \div 4, 2), n - here) - 1 : here + k \in Ring(n)
  <2>1. PICK width \in Nat : width = Larger(n \div 4, 2)
    BY DEF Larger
  <2>2. here \in Int /\ 0 <= here /\ here <= n - 1
    BY DEF Ring
  <2>3. PICK least \in Int : least = Smaller(width, n - here) /\ least <= n - here
    BY <2>2 DEF Smaller
  <2> QED BY <2>1, <2>2, <2>3 DEF Ring
<1> QED BY <1>2, <1>3 DEF OnRing, Scan

LEMMA StaggeredOnRing ==
  ASSUME NEW n \in Nat, n >= 4, NEW f \in Nat, NEW ccw
  PROVE  OnRing(Staggered(n, f, ccw), n)
<1>0. n \in Nat \ {0}
  OBVIOUS
<1>1. PICK size \in Nat : size = Larger(n \div 4, 2)
  BY DEF Larger
<1> DEFINE start(s) == IF ccw THEN n - size - s * size ELSE s * size
           seg(s, shade) == {<<(start(s) + i) % n, 1, shade>> : i \in 0..size - 1}
<1>2. ASSUME NEW s \in Int PROVE \A shade : OnRing(seg(s, shade), n)
  <2>1. PICK y \in Int : y = s * size
    <3>1. s * size \in Int
      OBVIOUS
    <3> QED BY <3>1
  <2>2. PICK st \in Int : st = IF ccw THEN n - size - y ELSE y
    <3>1. n - size - y \in Int /\ y \in Int
      OBVIOUS
    <3> QED BY <3>1
  <2>3. \A shade : seg(s, shade) = Piece(n, st, size, shade)
    BY <2>1, <2>2 DEF Piece
  <2> HIDE DEF seg
  <2> QED BY <1>0, <2>3, PiecesOnRing
<1> DEFINE count == n \div size
           phase(s) == (f + 3 * s) % (4 * count)
<1>3. Staggered(n, f, ccw) = UNION {seg(s, phase(s)) : s \in {k \in 0..count - 1 : phase(k) < count}}
  BY <1>1 DEF Staggered
<1>4. \A s \in {k \in 0..count - 1 : phase(k) < count} : s \in Int
  OBVIOUS
<1> HIDE DEF seg, phase, count
<1> QED BY <1>2, <1>3, <1>4 DEF OnRing

\* Half of d (d - 1) grows by d.
LEMMA Triangle ==
  ASSUME NEW d \in Nat
  PROVE  /\ (d * (d - 1)) \div 2 \in Int
         /\ ((d + 1) * d) \div 2 = (d * (d - 1)) \div 2 + d
<1>1. PICK x \in Int : x = d * (d - 1)
  OBVIOUS
<1>2. (d + 1) * d = x + 2 * d
  BY <1>1
<1> QED BY <1>1, <1>2

LEMMA StackOnRing ==
  ASSUME NEW n \in Nat, n >= 4, NEW f \in Nat, NEW ccw
  PROVE  OnRing(Stack(n, f, ccw), n)
<1>1. \A d \in Nat : StackStart(n, d) \in Int /\ StackStart(n, d + 1) = StackStart(n, d) + n - d
  <2> SUFFICES ASSUME NEW d \in Nat
               PROVE  StackStart(n, d) \in Int /\ StackStart(n, d + 1) = StackStart(n, d) + n - d
    OBVIOUS
  <2>1. PICK t \in Int : t = (d * (d - 1)) \div 2 /\ ((d + 1) * d) \div 2 = t + d
    BY Triangle
  <2>2. PICK y \in Int : y = d * n /\ (d + 1) * n = y + n
    <3>1. d * n \in Int /\ (d + 1) * n = d * n + n
      OBVIOUS
    <3> QED BY <3>1
  <2>3. (d + 1) - 1 = d
    OBVIOUS
  <2>4. StackStart(n, d) = y - t
    BY <2>1, <2>2 DEF StackStart
  <2>5. StackStart(n, d + 1) = (y + n) - (t + d)
    BY <2>1, <2>2, <2>3 DEF StackStart
  <2> QED BY <2>4, <2>5
<1>2. CASE f >= StackStart(n, n)
  BY <1>2 DEF OnRing, Stack, Whole
<1>3. CASE ~(f >= StackStart(n, n))
  <2> DEFINE Fits(k) == f \in StackStart(n, k)..StackStart(n, k + 1) - 1
             B == {d \in Nat : f < StackStart(n, d)}
  <2>1. StackStart(n, 0) = 0
    BY DEF StackStart
  <2>2. n \in B
    BY <1>1, <1>3
  <2>3. PICK e \in B : \A y \in B : e <= y
    <3>1. B \subseteq Nat /\ B # {}
      BY <2>2
    <3> HIDE DEF B
    <3> QED BY <3>1, LeastOne
  <2>4. e # 0 /\ e <= n
    BY <2>1, <2>2, <2>3
  <2>5. PICK k \in 0..n - 1 : k + 1 = e /\ k \in Nat
    BY <2>3, <2>4
  <2>6. k \notin B
    BY <2>3, <2>5
  <2>7. StackStart(n, k) \in Int /\ StackStart(n, k + 1) \in Int
    BY <1>1, <2>5
  <2>8. Fits(k)
    BY <2>3, <2>5, <2>6, <2>7
  <2>9. PICK d : d = CHOOSE j \in 0..n - 1 : Fits(j)
    OBVIOUS
  <2>10. d \in 0..n - 1 /\ Fits(d)
    <3> HIDE DEF Fits
    <3> QED BY <2>8, <2>9
  <2>11. Stack(n, f, ccw) = {<<FromStart(n, n - 1 - s, ccw), 1, 0>> : s \in 0..d - 1}
                              \cup {<<FromStart(n, f - StackStart(n, d), ccw), 1, 0>>}
    BY <1>3, <2>9 DEF Stack
  <2>12. f - StackStart(n, d) \in Ring(n)
    <3>1. StackStart(n, d) \in Int /\ StackStart(n, d + 1) = StackStart(n, d) + n - d /\ d \in Nat
      BY <1>1, <2>10
    <3> QED BY <2>10, <3>1 DEF Ring
  <2>13. \A s \in 0..d - 1 : FromStart(n, n - 1 - s, ccw) \in Ring(n)
    <3>1. \A s \in 0..d - 1 : n - 1 - s \in Ring(n)
      BY <2>10 DEF Ring
    <3> QED BY <3>1, FromStartOnRing
  <2>14. FromStart(n, f - StackStart(n, d), ccw) \in Ring(n)
    BY <2>12, FromStartOnRing
  <2> HIDE DEF Fits, B
  <2> QED BY <2>11, <2>13, <2>14 DEF OnRing
<1> QED BY <1>2, <1>3

LEMMA PlainOnRing ==
  ASSUME NEW n \in Nat, n >= 4, NEW f \in Nat
  PROVE  /\ OnRing(StaticColor(n), n) /\ OnRing(Breathing(n, f), n)
         /\ OnRing(HeartBeat(n, f), n) /\ OnRing(RainbowMorph(n, f), n)
         /\ OnRing(Warning(n, f), n) /\ OnRing(Drumming(n, f), n)
         /\ OnRing(Pump(n, f), n) /\ OnRing(CandyBox(n, f), n) /\ OnRing(Wave(n, f), n)
         /\ OnRing(PingPong(n, f), n) /\ OnRing(Bounce(n, f), n) /\ OnRing(Ripple(n, f), n)
         /\ OnRing(Reflect(n, f), n) /\ OnRing(Duel(n, f), n)
         /\ OnRing(Disco(n, f), n) /\ OnRing(Twinkle(n, f), n)
<1>1. \A hue, shade : OnRing(Whole(n, hue, shade), n) /\ OnRing({}, n)
  BY DEF OnRing, Whole
<1>2. OnRing(StaticColor(n), n) /\ OnRing(Breathing(n, f), n) /\ OnRing(HeartBeat(n, f), n)
  BY <1>1 DEF StaticColor, Breathing, HeartBeat
<1>3. OnRing(RainbowMorph(n, f), n) /\ OnRing(Warning(n, f), n) /\ OnRing(Drumming(n, f), n)
  BY <1>1 DEF RainbowMorph, Warning, Drumming
<1>4. OnRing(Pump(n, f), n) /\ OnRing(CandyBox(n, f), n) /\ OnRing(Wave(n, f), n)
  <2>1. OnRing(Pump(n, f), n)
    BY DEF OnRing, Pump
  <2>2. OnRing(CandyBox(n, f), n)
    BY DEF OnRing, CandyBox, Turned
  <2>3. OnRing(Wave(n, f), n)
    BY DEF OnRing, Wave
  <2> QED BY <2>1, <2>2, <2>3
<1>5. OnRing(PingPong(n, f), n) /\ OnRing(Bounce(n, f), n) /\ OnRing(Ripple(n, f), n)
  BY DEF OnRing, PingPong, Bounce, Ripple
<1>6. OnRing(Reflect(n, f), n) /\ OnRing(Duel(n, f), n)
  BY DEF OnRing, Reflect, Duel
<1>7. OnRing(Disco(n, f), n) /\ OnRing(Twinkle(n, f), n)
  <2>1. OnRing(Disco(n, f), n)
    BY DEF OnRing, Disco
  <2>2. OnRing(Twinkle(n, f), n)
    <3>1. \A m \in Twinkle(n, f) : \E led \in Ring(n) : \E x : m = <<led, 1, x>>
      BY Zenon DEF Twinkle
    <3> QED BY <3>1 DEF OnRing
  <2> QED BY <2>1, <2>2
<1> QED BY <1>2, <1>3, <1>4, <1>5, <1>6, <1>7

LEMMA HeadsOnRing ==
  ASSUME NEW n \in Nat, n >= 4, NEW f \in Nat
  PROVE  /\ OnRing(DoubleMeteor(n, f), n) /\ OnRing(MeteorContest(n, f), n)
         /\ OnRing(MeteorMix(n, f), n) /\ OnRing(MeteorShower(n, f), n)
         /\ OnRing(TailChasing(n, f), n) /\ OnRing(Racing(n, f), n)
<1>0. n \in Nat \ {0}
  OBVIOUS
<1>1. PICK p \in Int : p = f % n
  BY <1>0, RingMod
<1>2. \A head \in Int : \A hue : OnRing(Down(n, head, 5, hue), n) /\ OnRing(Up(n, head, 5, hue), n)
  BY <1>0, TailsOnRing
<1>3. \A head \in Int : \A hue : OnRing(Down(n, head, 4, hue), n)
  BY <1>0, TailsOnRing
<1>4. \A hue : OnRing(Opposite(n, f, hue), n)
  <2> SUFFICES ASSUME NEW hue PROVE OnRing(Opposite(n, f, hue), n)
    OBVIOUS
  <2>1. PICK end \in Int : end = n - 1 - p
    OBVIOUS
  <2>2. OnRing(Down(n, p, 5, 1), n) /\ OnRing(Up(n, end, 5, hue), n)
    BY <1>2
  <2>3. Opposite(n, f, hue) = Down(n, p, 5, 1) \cup Up(n, end, 5, hue)
    BY <1>1, <2>1 DEF Opposite, Comet, Up, Down, MeteorTailLen
  <2> QED BY <2>2, <2>3, BothOnRing
<1>5. OnRing(DoubleMeteor(n, f), n) /\ OnRing(MeteorContest(n, f), n) /\ OnRing(MeteorMix(n, f), n)
  BY <1>4 DEF DoubleMeteor, MeteorContest, MeteorMix
<1>6. OnRing(MeteorShower(n, f), n)
  <2> DEFINE one(m) == Down(n, ((m * n) \div 3 + f * (m + 1)) % n, 5, m)
  <2>1. ASSUME NEW m \in 0..2 PROVE OnRing(one(m), n)
    <3>1. PICK x \in Int : x = (m * n) \div 3 + f * (m + 1)
      <4>1. m * n \in Int /\ f * (m + 1) \in Int
        OBVIOUS
      <4>2. (m * n) \div 3 \in Int
        BY <4>1
      <4> QED BY <4>1, <4>2
    <3>2. x % n \in Int
      BY <1>0, RingMod
    <3> QED BY <1>2, <3>1, <3>2
  <2>2. MeteorShower(n, f) = UNION {one(m) : m \in 0..2}
    BY DEF MeteorShower, Comet, Down
  <2> HIDE DEF one
  <2> QED BY <2>1, <2>2 DEF OnRing
<1>7. OnRing(TailChasing(n, f), n)
  <2>1. PICK x \in Int : x = f + n - n \div 3
    OBVIOUS
  <2>2. PICK y \in Int : y = x % n
    BY <1>0, RingMod
  <2>3. OnRing(Down(n, p, 4, 1), n) /\ OnRing(Down(n, y, 4, 2), n)
    BY <1>3
  <2>4. TailChasing(n, f) = Down(n, p, 4, 1) \cup Down(n, y, 4, 2)
    BY <1>1, <2>1, <2>2 DEF TailChasing, Comet, Down
  <2> QED BY <2>3, <2>4, BothOnRing
<1>8. OnRing(Racing(n, f), n)
  <2>1. PICK y \in Int : y = 2 * f
    OBVIOUS
  <2>2. PICK z \in Int : z = y % n
    BY <1>0, RingMod
  <2>3. OnRing(Four(n, p, 1), n) /\ OnRing(Four(n, z, 2), n)
    <3>1. p \in Int
      BY <1>1
    <3> QED BY <1>0, <3>1, PiecesOnRing
  <2>4. Racing(n, f) = Four(n, p, 1) \cup Four(n, z, 2)
    BY <1>1, <2>1, <2>2 DEF Racing, Four
  <2> QED BY <2>3, <2>4, BothOnRing
<1> QED BY <1>5, <1>6, <1>7, <1>8

LEMMA ArcsOnRing ==
  ASSUME NEW n \in Nat, n >= 4, NEW f \in Nat
  PROVE  /\ OnRing(DoubleArc(n, f), n) /\ OnRing(ShuttleRun(n, f), n)
         /\ OnRing(Snooker(n, f), n) /\ OnRing(Wing(n, f), n) /\ OnRing(Door(n, f), n)
<1>0. n \in Nat \ {0}
  OBVIOUS
<1>1. PICK width \in Nat : width = Larger(n \div 6, 2) /\ width <= n
  BY DEF Larger
<1>2. PICK max \in Nat : max = n - width
  BY <1>1
<1>3. PICK p \in Nat : p = BouncePos(f, n - width)
  BY <1>2, BouncePosBound
<1> DEFINE Placed(i) == Smaller(p + i, n - 1)
<1>4. \A i \in 0..width - 1 : Placed(i) \in Ring(n) /\ n - 1 - Placed(i) \in Ring(n)
  BY <1>1, <1>3 DEF Smaller, Ring
<1> HIDE DEF Placed
<1>5. OnRing(DoubleArc(n, f), n)
  <2>1. DoubleArc(n, f) = {<<Placed(i), 1, 0>> : i \in 0..width - 1}
                            \cup {<<n - 1 - Placed(i), 2, 0>> : i \in 0..width - 1}
    BY <1>1, <1>3 DEF DoubleArc, Arc, FromStart, Placed
  <2> QED BY <1>4, <2>1 DEF OnRing
<1>6. OnRing(ShuttleRun(n, f), n)
  <2> DEFINE bar == {<<Placed(i), 1, 0>> : i \in 0..width - 1}
  <2>1. ShuttleRun(n, f) = bar \cup {<<i, 1, 40>> : i \in (0..Smaller(f, n) - 1) \ Leds(bar)}
    BY <1>1, <1>3 DEF ShuttleRun, Arc, FromStart, Placed
  <2>2. \A m \in bar : m[1] \in Ring(n)
    BY <1>4
  <2>3. \A i \in 0..Smaller(f, n) - 1 : i \in Ring(n)
    BY DEF Smaller, Ring
  <2> HIDE DEF bar
  <2>4. \A m \in ShuttleRun(n, f) : m \in bar \/ \E i \in 0..Smaller(f, n) - 1 : m = <<i, 1, 40>>
    BY <2>1
  <2> QED BY <2>2, <2>3, <2>4 DEF OnRing
<1>7. \A g \in Nat : BouncePos(g, n - 1) \in 0..n - 1
  <2>1. PICK top \in Nat : top = n - 1
    OBVIOUS
  <2> QED BY <2>1, BouncePosBound
<1>8. OnRing(Snooker(n, f), n)
  <2>1. PICK a \in 0..n - 1 : a = BouncePos(f, n - 1)
    BY <1>7
  <2>2. PICK b \in 0..n - 1 : b = BouncePos(f + n - 1, n - 1)
    BY <1>7
  <2>3. Snooker(n, f) = {<<a - t, 1, t>> : t \in 0..Smaller(a, 2)}
                          \cup {<<Smaller(b + t, n - 1), 2, t>> : t \in 0..2}
    BY <2>1, <2>2 DEF Snooker
  <2>4. \A t \in 0..Smaller(a, 2) : a - t \in Ring(n)
    BY DEF Smaller, Ring
  <2>5. \A t \in 0..2 : Smaller(b + t, n - 1) \in Ring(n)
    BY DEF Smaller, Ring
  <2> QED BY <2>3, <2>4, <2>5 DEF OnRing
<1>9. PICK half \in Nat : half = n \div 2 /\ 2 * half <= n /\ half < n
  OBVIOUS
<1>10. PICK gap \in 0..half : gap = BouncePos(f, half)
  BY BouncePosBound
<1>11. OnRing(Wing(n, f), n)
  <2>1. Wing(n, f) = UNION {{<<(half + i) % n, 1, i>>, <<half - i, 1, i>>} : i \in 0..gap}
    BY <1>9, <1>10 DEF Wing
  <2>2. \A i \in 0..gap : (half + i) % n \in Ring(n) /\ half - i \in Ring(n)
    <3> SUFFICES ASSUME NEW i \in 0..gap PROVE (half + i) % n \in Ring(n) /\ half - i \in Ring(n)
      OBVIOUS
    <3>1. PICK x \in Int : x = half + i
      OBVIOUS
    <3>2. x % n \in Ring(n)
      BY <1>0, RingMod
    <3> QED BY <1>9, <3>1, <3>2 DEF Ring
  <2> QED BY <2>1, <2>2 DEF OnRing
<1>12. OnRing(Door(n, f), n)
  <2>1. Door(n, f) = ((0..half - gap - 1) \cup (half + gap..n - 1)) \X {1} \X {0}
    BY <1>9, <1>10 DEF Door
  <2>2. \A i \in (0..half - gap - 1) \cup (half + gap..n - 1) : i \in Ring(n)
    BY <1>9 DEF Ring
  <2> QED BY <2>1, <2>2 DEF OnRing
<1> QED BY <1>5, <1>6, <1>8, <1>11, <1>12

LEMMA FillsOnRing ==
  ASSUME NEW n \in Nat, n >= 4, NEW f \in Nat
  PROVE  /\ OnRing(Hourglass(n, f), n) /\ OnRing(Collide(n, f), n) /\ OnRing(Intertwine(n, f), n)
         /\ OnRing(Kaleidoscope(n, f), n) /\ OnRing(CoverCycle(n, f), n) /\ OnRing(Paint(n, f), n)
         /\ OnRing(BlowUp(n, f), n)
<1>0. n \in Nat \ {0}
  OBVIOUS
<1>1. PICK p \in Nat : p = f % n /\ p < n
  BY <1>0, RingMod
<1>2. PICK half \in Nat : half = n \div 2 /\ 2 * half <= n /\ half < n /\ half > 0
  OBVIOUS
<1>3. OnRing(Hourglass(n, f), n)
  <2>1. Hourglass(n, f) = ((p..n - 1) \cup (n - p..n - 1)) \X {1} \X {0}
    BY <1>1 DEF Hourglass
  <2>2. \A i \in (p..n - 1) \cup (n - p..n - 1) : i \in Ring(n)
    BY <1>1 DEF Ring
  <2> QED BY <2>1, <2>2 DEF OnRing
<1>4. OnRing(Collide(n, f), n)
  <2>1. PICK m \in Nat \ {0} : m = half + Smaller(8, n)
    BY <1>2 DEF Smaller
  <2>2. PICK step \in Nat : step = f % m
    <3>1. PICK x \in Int : x = f
      OBVIOUS
    <3> QED BY <3>1, RingMod
  <2>3. Collide(n, f) = IF step < half
                        THEN ((0..step) \X {1} \X {0}) \cup ((n - 1 - step..n - 1) \X {2} \X {0})
                        ELSE Whole(n, 3, step - half)
    BY <1>2, <2>1, <2>2 DEF Collide
  <2>4. CASE step < half
    <3>1. \A i \in (0..step) \cup (n - 1 - step..n - 1) : i \in Ring(n)
      BY <1>2, <2>4 DEF Ring
    <3> QED BY <2>3, <2>4, <3>1 DEF OnRing
  <2>5. CASE ~(step < half)
    BY <2>3, <2>5 DEF OnRing, Whole
  <2> QED BY <2>4, <2>5
<1>5. OnRing(Intertwine(n, f), n)
  <2>1. PICK second \in Int : second = (half + n - p) % n
    <3>1. PICK x \in Int : x = half + n - p
      OBVIOUS
    <3> QED BY <1>0, <3>1, RingMod
  <2> DEFINE arc(start, hue) == {<<(start + i) % n, hue, 0>> : i \in 0..half - 1}
  <2>2. Intertwine(n, f) = arc(p, 1) \cup arc(second, 2)
    BY <1>1, <1>2, <2>1 DEF Intertwine
  <2>3. ASSUME NEW start \in Int PROVE \A i \in 0..half - 1 : (start + i) % n \in Ring(n)
    <3> SUFFICES ASSUME NEW i \in 0..half - 1 PROVE (start + i) % n \in Ring(n)
      OBVIOUS
    <3>1. PICK x \in Int : x = start + i
      OBVIOUS
    <3> QED BY <1>0, <3>1, RingMod
  <2>4. OnRing(arc(p, 1), n)
    <3> SUFFICES ASSUME NEW m \in arc(p, 1) PROVE m[1] \in Ring(n)
      BY DEF OnRing
    <3>1. PICK i \in 0..half - 1 : m = <<(p + i) % n, 1, 0>>
      OBVIOUS
    <3>2. (p + i) % n \in Ring(n)
      BY <1>1, <2>3
    <3> QED BY <3>1, <3>2
  <2>5. OnRing(arc(second, 2), n)
    <3> SUFFICES ASSUME NEW m \in arc(second, 2) PROVE m[1] \in Ring(n)
      BY DEF OnRing
    <3>1. PICK i \in 0..half - 1 : m = <<(second + i) % n, 2, 0>>
      OBVIOUS
    <3>2. (second + i) % n \in Ring(n)
      BY <1>1, <2>3
    <3> QED BY <3>1, <3>2
  <2> HIDE DEF arc
  <2> QED BY <2>2, <2>4, <2>5, BothOnRing
<1>6. OnRing(Kaleidoscope(n, f), n)
  <2>1. PICK q \in Nat : q = n \div 4 /\ 4 * q <= n
    OBVIOUS
  <2>2. \A i \in 0..q - 1 : {i, 2 * q - 1 - i, 2 * q + i, 4 * q - 1 - i} \subseteq Ring(n)
    BY <2>1 DEF Ring
  <2>3. \A m \in Kaleidoscope(n, f) :
          \E i \in 0..q - 1 : m[1] \in {i, 2 * q - 1 - i, 2 * q + i, 4 * q - 1 - i}
    BY <2>1 DEF Kaleidoscope
  <2> QED BY <2>2, <2>3 DEF OnRing
<1>7. OnRing(CoverCycle(n, f), n)
  <2>1. \A i \in 0..p : i \in Ring(n)
    BY <1>1 DEF Ring
  <2> QED BY <1>1, <2>1 DEF OnRing, CoverCycle
<1>8. OnRing(Paint(n, f), n)
  <2>1. PICK m \in Nat \ {0} : m = n + 20
    OBVIOUS
  <2>2. PICK pass \in Int : pass = Smaller(f \div (n + 20), 3)
    <3>1. f \div m \in Int
      BY <2>1
    <3> QED BY <2>1, <3>1 DEF Smaller
  <2>3. PICK left \in Int : left = f - pass * (n + 20)
    <3>1. pass * (n + 20) \in Int
      OBVIOUS
    <3> QED BY <3>1
  <2>4. \A i \in 0..Smaller(left, n) - 1 : i \in Ring(n)
    BY DEF Smaller, Ring
  <2>5. \A mark \in Paint(n, f) : mark[1] \in 0..Smaller(left, n) - 1 \/ mark[1] \in Ring(n)
    BY <2>2, <2>3 DEF Paint
  <2> QED BY <2>4, <2>5 DEF OnRing
<1>9. OnRing(BlowUp(n, f), n)
  <2>1. PICK cycle : cycle = Smaller(f \div (half + 20), 3)
    OBVIOUS
  <2>2. PICK step : step = f - cycle * (half + 20)
    OBVIOUS
  <2>3. BlowUp(n, f) = IF step < half
                       THEN UNION {{<<(half + r) % n, cycle, 0>>, <<(half + n - r) % n, cycle, 0>>} :
                                     r \in 0..step}
                       ELSE Whole(n, cycle, step - half)
    BY <1>2, <2>1, <2>2 DEF BlowUp
  <2>4. CASE step < half
    <3>1. ASSUME NEW r \in 0..step PROVE (half + r) % n \in Ring(n) /\ (half + n - r) % n \in Ring(n)
      <4>1. PICK x \in Int : x = half + r
        OBVIOUS
      <4>2. PICK y \in Int : y = half + n - r
        OBVIOUS
      <4> QED BY <1>0, <4>1, <4>2, RingMod
    <3> QED BY <2>3, <2>4, <3>1 DEF OnRing
  <2>5. CASE ~(step < half)
    BY <2>3, <2>5 DEF OnRing, Whole
  <2> QED BY <2>4, <2>5
<1> QED BY <1>3, <1>4, <1>5, <1>6, <1>7, <1>8, <1>9

LEMMA LotteryOnRing ==
  ASSUME NEW n \in Nat, n >= 4, NEW f \in 0..179
  PROVE  OnRing(Lottery(n, f), n)
<1>0. n \in Nat \ {0}
  OBVIOUS
<1>a. PICK byte \in 0..255 : byte = Hash(f, 0)
  <2>1. f \in 0..255 /\ 0 \in 0..127
    OBVIOUS
  <2>2. Hash(f, 0) \in 0..255
    BY <2>1, HashAssumption, Zenon
  <2> QED BY <2>2, Zenon
<1>1. PICK size \in Nat \ {0} : size = Larger(n \div 6, 2) /\ size <= n
  BY DEF Larger
<1>2. PICK count \in Nat \ {0} : count = n \div size
  <2>1. PICK q \in Nat : q = n \div size
    OBVIOUS
  <2>2. n % size \in Nat /\ n % size < size /\ n = size * q + (n % size)
    BY <2>1
  <2>3. q # 0
    <3> SUFFICES ASSUME q = 0 PROVE FALSE
      OBVIOUS
    <3>1. size * q = 0
      OBVIOUS
    <3> QED BY <1>1, <2>2, <3>1
  <2> QED BY <2>1, <2>3
<1>3. PICK start \in Int : start = (Hash(f, 0) % count) * size
  <2>1. PICK active \in Int : active = byte % count
    BY RingMod
  <2>2. active * size \in Int
    OBVIOUS
  <2> QED BY <1>a, <2>1, <2>2
<1>4. \A i \in 0..size - 1 : (start + i) % n \in Ring(n)
  <2> SUFFICES ASSUME NEW i \in 0..size - 1 PROVE (start + i) % n \in Ring(n)
    OBVIOUS
  <2>1. PICK x \in Int : x = start + i
    OBVIOUS
  <2> QED BY <1>0, <2>1, RingMod
<1>5. \A m \in Lottery(n, f) : \E i \in 0..size - 1 : m[1] = (start + i) % n
  BY <1>1, <1>2, <1>3 DEF Lottery
<1> QED BY <1>4, <1>5 DEF OnRing

LEMMA DirectedOnRing ==
  ASSUME NEW n \in Nat, n >= 4, NEW e \in Directed, NEW f \in 0..FrameCount(e, n) - 1, NEW ccw
  PROVE  OnRing(DirectedPicture(e, n, f, ccw), n)
<1>0. f \in Nat
  OBVIOUS
<1>1. CASE e \in {"Rainbow", "Taichi", "Tide", "ColorCycle", "Render", "GradientRibbon", "River"}
  BY <1>0, <1>1, TurnsOnRing DEF DirectedPicture
<1>2. CASE e \in {"Meteor", "MeteorRainbow", "ColorfulMeteor", "Pioneer", "Endless",
                  "ElectricCurrent"}
  BY <1>0, <1>2, MeteorsOnRing DEF DirectedPicture
<1>3. CASE e \in {"Boomerang", "ReturnArc", "Runway", "HeartBeatRunway", "Mixing"}
  BY <1>0, <1>3, SweepsOnRing DEF DirectedPicture
<1>4. CASE e \in {"MopUp", "Scan"}
  <2>1. f < 2 * n
    BY <1>4 DEF FrameCount
  <2> QED BY <1>0, <1>4, <2>1, MopUpOnRing, ScanOnRing DEF DirectedPicture
<1>5. CASE e = "Stack"
  BY <1>0, <1>5, StackOnRing DEF DirectedPicture
<1>6. CASE e = "Staggered"
  BY <1>0, <1>6, StaggeredOnRing DEF DirectedPicture
<1> QED BY <1>1, <1>2, <1>3, <1>4, <1>5, <1>6 DEF Directed

LEMMA UndirectedOnRing ==
  ASSUME NEW n \in Nat, n >= 4, NEW e \in Undirected, NEW f \in 0..FrameCount(e, n) - 1
  PROVE  OnRing(UndirectedPicture(e, n, f), n)
<1>0. f \in Nat
  OBVIOUS
<1>1. CASE e \in {"StaticColor", "Breathing", "HeartBeat", "RainbowMorph", "Warning", "Drumming",
                  "Pump", "CandyBox", "Wave"}
  BY <1>0, <1>1, PlainOnRing DEF UndirectedPicture
<1>2. CASE e \in {"PingPong", "Bounce", "Ripple", "Reflect", "Duel", "Disco", "Twinkle"}
  BY <1>0, <1>2, PlainOnRing DEF UndirectedPicture
<1>3. CASE e \in {"DoubleMeteor", "MeteorContest", "MeteorMix", "MeteorShower", "TailChasing",
                  "Racing"}
  BY <1>0, <1>3, HeadsOnRing DEF UndirectedPicture
<1>4. CASE e \in {"DoubleArc", "ShuttleRun", "Snooker", "Wing", "Door"}
  BY <1>0, <1>4, ArcsOnRing DEF UndirectedPicture
<1>5. CASE e \in {"Hourglass", "Collide", "Intertwine", "Kaleidoscope", "CoverCycle", "Paint",
                  "BlowUp"}
  BY <1>0, <1>5, FillsOnRing DEF UndirectedPicture
<1>6. CASE e = "Lottery"
  <2>1. f \in 0..179
    BY <1>6 DEF FrameCount
  <2> QED BY <1>6, <2>1, LotteryOnRing DEF UndirectedPicture
<1> QED BY <1>1, <1>2, <1>3, <1>4, <1>5, <1>6 DEF Undirected

\* No effect paints beside the ring, at any frame, in either direction, on any ring of at
\* least four LEDs.
THEOREM PictureOnRing ==
  ASSUME NEW n \in Nat, n >= 4, NEW e, NEW f \in 0..FrameCount(e, n) - 1, NEW ccw
  PROVE  OnRing(Picture(e, n, f, ccw), n)
<1>1. CASE e \in Directed
  BY <1>1, DirectedOnRing DEF Picture
<1>2. CASE e \notin Directed /\ e \in Undirected
  BY <1>2, UndirectedOnRing DEF Picture
<1>3. CASE e \notin Directed /\ e \notin Undirected
  BY <1>3 DEF Picture, OnRing
<1> QED BY <1>1, <1>2, <1>3

LEMMA SomeFrames ==
  ASSUME NEW n \in Nat, n >= 4, NEW e
  PROVE  FrameCount(e, n) \in Nat \ {0}
<1>1. StackStart(n, n) + n \in Nat \ {0}
  <2>1. PICK x \in Int : x = n * (n - 1) /\ n * n = x + n
    <3>1. n * (n - 1) \in Int /\ n * n = n * (n - 1) + n
      OBVIOUS
    <3> QED BY <3>1
  <2>2. x >= 0
    <3>1. PICK m \in Nat : m = n - 1
      OBVIOUS
    <3>2. n * m \in Nat
      OBVIOUS
    <3> QED BY <2>1, <3>1, <3>2
  <2>3. StackStart(n, n) = x + n - x \div 2
    BY <2>1 DEF StackStart
  <2> QED BY <2>2, <2>3
<1>2. PICK t \in Nat \ {0} : t = StackStart(n, n) + n
  BY <1>1
<1> QED BY <1>2 DEF FrameCount, KaleidoscopeFrames

-----------------------------------------------------------------------------
(* Where the effects end.                                                    *)

LEMMA ModUnique ==
  ASSUME NEW n \in Nat \ {0}, NEW x \in Int, NEW q \in Int, NEW r \in 0..n - 1, x = n * q + r
  PROVE  x % n = r
<1>1. PICK p \in Int : p = x \div n
  OBVIOUS
<1>2. PICK s \in 0..n - 1 : s = x % n /\ x = n * p + s
  <2>1. x % n \in 0..n - 1 /\ x = n * (x \div n) + (x % n)
    OBVIOUS
  <2> QED BY <1>1, <2>1
<1>3. PICK d \in Int : d = q - p /\ n * d = s - r
  <2>1. PICK d \in Int : d = q - p
    OBVIOUS
  <2>2. n * d = n * q - n * p /\ n * q \in Int /\ n * p \in Int
    BY <2>1
  <2> QED BY <1>2, <2>1, <2>2
<1>4. ~(d >= 1)
  <2> SUFFICES ASSUME d >= 1 PROVE FALSE
    OBVIOUS
  <2>1. PICK e \in Nat : d = e + 1
    <3>1. d - 1 \in Nat /\ d = (d - 1) + 1
      OBVIOUS
    <3> QED BY <3>1
  <2>2. n * d = n * e + n /\ n * e \in Nat
    BY <2>1
  <2> QED BY <1>3, <2>2
<1>5. ~(d <= -1)
  <2> SUFFICES ASSUME d <= -1 PROVE FALSE
    OBVIOUS
  <2>1. PICK e \in Nat : d = -1 - e
    <3>1. -1 - d \in Nat /\ d = -1 - (-1 - d)
      OBVIOUS
    <3> QED BY <3>1
  <2>2. n * d = -n - n * e /\ n * e \in Nat
    BY <2>1
  <2> QED BY <1>3, <2>2
<1>6. n * 0 = 0
  OBVIOUS
<1> QED BY <1>2, <1>3, <1>4, <1>5, <1>6

LEMMA FullTurns ==
  ASSUME NEW n \in Nat \ {0}, NEW y \in Int
  PROVE  /\ 0 % n = 0 /\ n % n = 0 /\ (2 * n) % n = 0 /\ (3 * n) % n = 0 /\ (4 * n) % n = 0
         /\ (n + y) % n = y % n /\ (3 * n + y) % n = y % n
<1>1. \A x, q \in Int : x = n * q => x % n = 0
  <2> SUFFICES ASSUME NEW x \in Int, NEW q \in Int, x = n * q PROVE x % n = 0
    OBVIOUS
  <2>1. PICK r \in 0..n - 1 : r = 0
    OBVIOUS
  <2>2. x = n * q + r
    <3>1. n * q \in Int
      OBVIOUS
    <3> QED BY <2>1, <3>1
  <2> QED BY <2>1, <2>2, ModUnique
<1>2. 0 = n * 0 /\ n = n * 1 /\ 2 * n = n * 2 /\ 3 * n = n * 3 /\ 4 * n = n * 4
  OBVIOUS
<1>3. \A k \in 1..3 : (k * n + y) % n = y % n
  <2> SUFFICES ASSUME NEW k \in 1..3 PROVE (k * n + y) % n = y % n
    OBVIOUS
  <2>1. PICK q \in Int : q = y \div n
    OBVIOUS
  <2>2. PICK r \in 0..n - 1 : r = y % n /\ y = n * q + r
    <3>1. y % n \in 0..n - 1 /\ y = n * (y \div n) + (y % n)
      OBVIOUS
    <3> QED BY <2>1, <3>1
  <2>3. PICK x \in Int : x = k * n + y
    <3>1. k * n \in Int
      OBVIOUS
    <3> QED BY <3>1
  <2>4. PICK p \in Int : p = q + k
    OBVIOUS
  <2>5. x = n * p + r
    <3>1. n * p = n * q + k * n
      BY <2>4
    <3>2. n * q \in Int /\ k * n \in Int
      OBVIOUS
    <3> QED BY <2>2, <2>3, <3>1, <3>2
  <2> QED BY <2>2, <2>3, <2>5, ModUnique
<1>4. (1 * n + y) % n = y % n /\ (3 * n + y) % n = y % n /\ 1 * n = n
  <2>1. 1 \in 1..3 /\ 3 \in 1..3 /\ 1 * n = n
    OBVIOUS
  <2> QED BY <1>3, <2>1
<1>5. 0 % n = 0 /\ n % n = 0 /\ (2 * n) % n = 0 /\ (3 * n) % n = 0 /\ (4 * n) % n = 0
  <2>1. 2 * n \in Int /\ 3 * n \in Int /\ 4 * n \in Int
    OBVIOUS
  <2>2. 0 % n = 0 /\ n % n = 0
    BY <1>1, <1>2
  <2>3. (2 * n) % n = 0 /\ (3 * n) % n = 0
    BY <1>1, <1>2, <2>1
  <2>4. (4 * n) % n = 0
    BY <1>1, <1>2, <2>1
  <2> QED BY <2>2, <2>3, <2>4
<1> QED BY <1>4, <1>5

Loops(e, n, ccw) == Picture(e, n, FrameCount(e, n), ccw) = Picture(e, n, 0, ccw)

LEMMA TurnedLoops ==
  ASSUME NEW n \in Nat, n >= 4, NEW ccw
  PROVE  \A e \in {"Rainbow", "Taichi", "Tide", "ColorCycle", "Render", "GradientRibbon", "River"} :
           Loops(e, n, ccw)
<1>0. n \in Nat \ {0} /\ 0 \in Int
  OBVIOUS
<1>1. 0 % n = 0 /\ n % n = 0 /\ (2 * n) % n = 0 /\ (3 * n) % n = 0 /\ (4 * n) % n = 0
  BY <1>0, FullTurns
<1>2. ASSUME NEW f, f % n = 0 % n PROVE \A led : Turned(n, led, f, ccw) = Turned(n, led, 0, ccw)
  BY <1>2 DEF Turned
<1>3. ASSUME NEW f, f % n = 0 % n
      PROVE  /\ Rainbow(n, f, ccw) = Rainbow(n, 0, ccw) /\ Taichi(n, f, ccw) = Taichi(n, 0, ccw)
             /\ Tide(n, f, ccw) = Tide(n, 0, ccw) /\ ColorCycle(n, f, ccw) = ColorCycle(n, 0, ccw)
             /\ Render(n, f, ccw) = Render(n, 0, ccw)
             /\ GradientRibbon(n, f, ccw) = GradientRibbon(n, 0, ccw)
             /\ River(n, f, ccw) = River(n, 0, ccw)
  <2>1. \A led : Turned(n, led, f, ccw) = Turned(n, led, 0, ccw)
    BY <1>2, <1>3
  <2>2. Rainbow(n, f, ccw) = Rainbow(n, 0, ccw) /\ Taichi(n, f, ccw) = Taichi(n, 0, ccw)
    BY <2>1 DEF Rainbow, Taichi
  <2>3. Tide(n, f, ccw) = Tide(n, 0, ccw) /\ Render(n, f, ccw) = Render(n, 0, ccw)
    BY <2>1 DEF Tide, Render
  <2>4. ColorCycle(n, f, ccw) = ColorCycle(n, 0, ccw)
    BY <2>1 DEF ColorCycle
  <2>5. GradientRibbon(n, f, ccw) = GradientRibbon(n, 0, ccw)
    BY <2>1 DEF GradientRibbon
  <2> QED BY <2>2, <2>3, <2>4, <2>5 DEF River
<1> DEFINE All == {"Rainbow", "Taichi", "Tide", "ColorCycle", "Render", "GradientRibbon", "River"}
<1>4. \A e \in All : FrameCount(e, n) % n = 0 % n
  BY <1>1 DEF FrameCount
<1>5. \A e \in All : \A f : Picture(e, n, f, ccw) = DirectedPicture(e, n, f, ccw)
  BY DEF Picture, Directed
<1>6. ASSUME NEW e \in All, NEW f, f % n = 0 % n
      PROVE  DirectedPicture(e, n, f, ccw) = DirectedPicture(e, n, 0, ccw)
  BY <1>3, <1>6 DEF DirectedPicture
<1> HIDE DEF All
<1>7. \A e \in All : Loops(e, n, ccw)
  BY <1>4, <1>5, <1>6 DEF Loops
<1> QED BY <1>7 DEF All

LEMMA PlainLoops ==
  ASSUME NEW n \in Nat, n >= 4, NEW ccw
  PROVE  \A e \in {"StaticColor", "HeartBeat", "Warning", "Drumming", "Pump", "Kaleidoscope"} :
           Loops(e, n, ccw)
<1>1. Loops("StaticColor", n, ccw)
  BY DEF Loops, Picture, Directed, Undirected, UndirectedPicture
<1>2. Loops("HeartBeat", n, ccw)
  <2>1. 96 % 96 = 0 % 96
    OBVIOUS
  <2>2. HeartBeat(n, 96) = HeartBeat(n, 0)
    BY <2>1 DEF HeartBeat
  <2> QED BY <2>2 DEF Loops, Picture, Directed, Undirected, UndirectedPicture, FrameCount
<1>3. Loops("Warning", n, ccw)
  <2>1. (64 \div 8) % 2 = (0 \div 8) % 2
    OBVIOUS
  <2>2. Warning(n, 64) = Warning(n, 0)
    BY <2>1 DEF Warning
  <2> QED BY <2>2 DEF Loops, Picture, Directed, Undirected, UndirectedPicture, FrameCount
<1>4. Loops("Drumming", n, ccw)
  <2>1. 96 % 32 = 0 % 32
    OBVIOUS
  <2>2. Drumming(n, 96) = Drumming(n, 0)
    BY <2>1 DEF Drumming
  <2> QED BY <2>2 DEF Loops, Picture, Directed, Undirected, UndirectedPicture, FrameCount
<1>5. Loops("Pump", n, ccw)
  <2>1. 120 % 30 = 0 % 30
    OBVIOUS
  <2>2. Pump(n, 120) = Pump(n, 0)
    BY <2>1 DEF Pump
  <2> QED BY <2>2 DEF Loops, Picture, Directed, Undirected, UndirectedPicture, FrameCount
<1>6. Loops("Kaleidoscope", n, ccw)
  <2>1. \A i \in Nat : (i + 120) % 120 = (i + 0) % 120
    OBVIOUS
  <2>2. \A i \in 0..n \div 4 - 1 : (i + 120) % 120 = (i + 0) % 120
    BY <2>1
  <2>3. Kaleidoscope(n, 120) = Kaleidoscope(n, 0)
    BY <2>2, ZenonT(60) DEF Kaleidoscope, KaleidoscopeFrames
  <2> QED BY <2>3 DEF Loops, Picture, Directed, Undirected, UndirectedPicture, FrameCount,
                      KaleidoscopeFrames
<1> QED BY <1>1, <1>2, <1>3, <1>4, <1>5, <1>6

LEMMA WaveLoops ==
  ASSUME NEW n \in Nat, n >= 4, NEW ccw
  PROVE  Loops("Wave", n, ccw)
<1>1. \A led \in Ring(n) : (120 * led + n * 120) % (120 * n) = (120 * led + n * 0) % (120 * n)
  <2> SUFFICES ASSUME NEW led \in Ring(n)
               PROVE  (120 * led + n * 120) % (120 * n) = (120 * led + n * 0) % (120 * n)
    OBVIOUS
  <2>1. PICK turn \in Nat \ {0} : turn = 120 * n
    <3>1. 120 * n \in Nat \ {0}
      OBVIOUS
    <3> QED BY <3>1
  <2>2. PICK y \in Int : y = 120 * led
    <3>1. 120 * led \in Int
      BY DEF Ring
    <3> QED BY <3>1
  <2>3. (turn + y) % turn = y % turn
    BY <2>1, <2>2, FullTurns
  <2>4. 120 * led + n * 120 = turn + y /\ 120 * led + n * 0 = y
    <3>1. n * 120 = 120 * n /\ n * 0 = 0
      OBVIOUS
    <3> QED BY <2>1, <2>2, <3>1
  <2> QED BY <2>1, <2>3, <2>4
<1>2. Wave(n, 120) = Wave(n, 0)
  BY <1>1 DEF Wave
<1> QED BY <1>2 DEF Loops, Picture, Directed, Undirected, UndirectedPicture, FrameCount

LEMMA MeteorsLoop ==
  ASSUME NEW n \in Nat, n >= 4, NEW ccw
  PROVE  \A e \in {"Meteor", "MeteorRainbow", "ColorfulMeteor", "Pioneer", "Endless", "Runway",
                   "Mixing"} :
           Loops(e, n, ccw)
<1>0. n \in Nat \ {0} /\ 0 \in Int
  OBVIOUS
<1>1. 0 % n = 0 /\ n % n = 0 /\ (2 * n) % n = 0 /\ (3 * n) % n = 0 /\ (4 * n) % n = 0
  BY <1>0, FullTurns
<1>2. ASSUME NEW f, f % n = 0 % n
      PROVE  /\ Meteor(n, f, ccw) = Meteor(n, 0, ccw)
             /\ MeteorRainbow(n, f, ccw) = MeteorRainbow(n, 0, ccw)
             /\ ColorfulMeteor(n, f, ccw) = ColorfulMeteor(n, 0, ccw)
             /\ Pioneer(n, f, ccw) = Pioneer(n, 0, ccw) /\ Endless(n, f, ccw) = Endless(n, 0, ccw)
             /\ Runway(n, f, ccw) = Runway(n, 0, ccw) /\ Mixing(n, f, ccw) = Mixing(n, 0, ccw)
  <2>1. Meteor(n, f, ccw) = Meteor(n, 0, ccw) /\ MeteorRainbow(n, f, ccw) = MeteorRainbow(n, 0, ccw)
    BY <1>2 DEF Meteor, MeteorRainbow
  <2>2. ColorfulMeteor(n, f, ccw) = ColorfulMeteor(n, 0, ccw)
    BY <1>2 DEF ColorfulMeteor
  <2>3. Pioneer(n, f, ccw) = Pioneer(n, 0, ccw) /\ Endless(n, f, ccw) = Endless(n, 0, ccw)
    BY <1>2 DEF Pioneer, Endless
  <2>4. Runway(n, f, ccw) = Runway(n, 0, ccw)
    BY <1>2 DEF Runway
  <2>5. Mixing(n, f, ccw) = Mixing(n, 0, ccw)
    BY <1>2 DEF Mixing
  <2> QED BY <2>1, <2>2, <2>3, <2>4, <2>5
<1> DEFINE All == {"Meteor", "MeteorRainbow", "ColorfulMeteor", "Pioneer", "Endless", "Runway",
                   "Mixing"}
<1>3. \A e \in All : FrameCount(e, n) % n = 0 % n
  BY <1>1 DEF FrameCount
<1>4. \A e \in All : \A f : Picture(e, n, f, ccw) = DirectedPicture(e, n, f, ccw)
  BY DEF Picture, Directed
<1>5. ASSUME NEW e \in All, NEW f, f % n = 0 % n
      PROVE  DirectedPicture(e, n, f, ccw) = DirectedPicture(e, n, 0, ccw)
  BY <1>2, <1>5 DEF DirectedPicture
<1> HIDE DEF All
<1>6. \A e \in All : Loops(e, n, ccw)
  BY <1>3, <1>4, <1>5 DEF Loops
<1> QED BY <1>6 DEF All

LEMMA PairsLoop ==
  ASSUME NEW n \in Nat, n >= 4, NEW ccw
  PROVE  \A e \in {"CandyBox", "DoubleMeteor", "MeteorContest", "MeteorMix", "TailChasing", "Ripple",
                   "Hourglass", "Intertwine"} :
           Loops(e, n, ccw)
<1>0. n \in Nat \ {0} /\ 0 \in Int
  OBVIOUS
<1>1. 0 % n = 0 /\ n % n = 0 /\ (2 * n) % n = 0 /\ (3 * n) % n = 0 /\ (4 * n) % n = 0
  BY <1>0, FullTurns
<1>2. ASSUME NEW f, f % n = 0 % n
      PROVE  /\ CandyBox(n, f) = CandyBox(n, 0) /\ Ripple(n, f) = Ripple(n, 0)
             /\ Hourglass(n, f) = Hourglass(n, 0) /\ Intertwine(n, f) = Intertwine(n, 0)
             /\ DoubleMeteor(n, f) = DoubleMeteor(n, 0) /\ MeteorContest(n, f) = MeteorContest(n, 0)
             /\ MeteorMix(n, f) = MeteorMix(n, 0)
  <2>1. CandyBox(n, f) = CandyBox(n, 0)
    BY <1>2 DEF CandyBox, Turned
  <2>2. Ripple(n, f) = Ripple(n, 0)
    BY <1>2 DEF Ripple
  <2>3. Hourglass(n, f) = Hourglass(n, 0)
    BY <1>2 DEF Hourglass
  <2>4. Intertwine(n, f) = Intertwine(n, 0)
    BY <1>2 DEF Intertwine
  <2>5. \A hue : Opposite(n, f, hue) = Opposite(n, 0, hue)
    BY <1>2 DEF Opposite, Comet
  <2>6. /\ DoubleMeteor(n, f) = DoubleMeteor(n, 0) /\ MeteorContest(n, f) = MeteorContest(n, 0)
        /\ MeteorMix(n, f) = MeteorMix(n, 0)
    BY <2>5 DEF DoubleMeteor, MeteorContest, MeteorMix
  <2> QED BY <2>1, <2>2, <2>3, <2>4, <2>6
<1>3. TailChasing(n, 3 * n) = TailChasing(n, 0)
  <2>1. PICK y \in Int : y = n - n \div 3
    OBVIOUS
  <2>2. PICK f \in Int : f = 3 * n /\ f % n = 0 % n
    BY <1>1
  <2>3. (3 * n + y) % n = y % n
    BY <1>0, FullTurns
  <2>4. f + n - n \div 3 = 3 * n + y /\ 0 + n - n \div 3 = y
    BY <2>1, <2>2
  <2>5. (f + n - n \div 3) % n = (0 + n - n \div 3) % n
    BY <2>3, <2>4
  <2>6. TailChasing(n, f) = TailChasing(n, 0)
    BY <2>2, <2>5 DEF TailChasing, Comet
  <2> QED BY <2>2, <2>6
<1> DEFINE All == {"CandyBox", "DoubleMeteor", "MeteorContest", "MeteorMix", "Ripple",
                   "Hourglass", "Intertwine"}
<1>4. \A e \in All : FrameCount(e, n) % n = 0 % n
  BY <1>1 DEF FrameCount
<1>5. \A e \in All : \A f : Picture(e, n, f, ccw) = UndirectedPicture(e, n, f)
  BY DEF Picture, Directed, Undirected
<1>6. ASSUME NEW e \in All, NEW f, f % n = 0 % n
      PROVE  UndirectedPicture(e, n, f) = UndirectedPicture(e, n, 0)
  BY <1>2, <1>6 DEF UndirectedPicture
<1> HIDE DEF All
<1>7. \A e \in All : Loops(e, n, ccw)
  BY <1>4, <1>5, <1>6 DEF Loops
<1>8. Loops("TailChasing", n, ccw)
  BY <1>3 DEF Loops, Picture, Directed, Undirected, UndirectedPicture, FrameCount
<1> QED BY <1>7, <1>8 DEF All

LEMMA HeartBeatRunwayLoops ==
  ASSUME NEW n \in Nat, n >= 4, n % 8 \notin {1, 4}, NEW ccw
  PROVE  Loops("HeartBeatRunway", n, ccw)
<1>1. PICK r \in {0, 2, 3, 5, 6, 7}, q \in Int : n = 8 * q + r
  <2>1. n % 8 \in 0..7 /\ n = 8 * (n \div 8) + (n % 8) /\ n \div 8 \in Int
    OBVIOUS
  <2>2. PICK q \in Int : q = n \div 8
    BY <2>1
  <2>3. PICK r \in 0..7 : r = n % 8
    BY <2>1
  <2>4. r \in {0, 2, 3, 5, 6, 7} /\ n = 8 * q + r
    BY <2>1, <2>2, <2>3
  <2> QED BY <2>4
<1>2. PICK f \in Int : f = 4 * n
  OBVIOUS
<1>3. f % 32 = 4 * r
  <2>1. 4 * r \in 0..32 - 1 /\ f = 32 * q + 4 * r /\ 32 \in Nat \ {0}
    BY <1>1, <1>2
  <2>2. PICK s \in 0..32 - 1 : s = 4 * r
    BY <2>1
  <2>3. f = 32 * q + s
    BY <2>1, <2>2
  <2> QED BY <2>1, <2>2, <2>3, ModUnique
<1>4. Pulse[(f % 32) + 1] = 0 /\ Pulse[(0 % 32) + 1] = 0
  <2>1. (f % 32) + 1 \in {1, 9, 13, 21, 25, 29} /\ (0 % 32) + 1 = 1
    BY <1>3
  <2>2. Pulse[1] = 0 /\ Pulse[9] = 0 /\ Pulse[13] = 0 /\ Pulse[21] = 0 /\ Pulse[25] = 0 /\ Pulse[29] = 0
    BY DEF Pulse
  <2> QED BY <2>1, <2>2
<1>5. HeartBeatRunway(n, f, ccw) = {} /\ HeartBeatRunway(n, 0, ccw) = {}
  BY <1>4 DEF HeartBeatRunway
<1> QED BY <1>2, <1>5 DEF Loops, Picture, Directed, DirectedPicture, FrameCount

\* An effect that turns or pulses without an end stops counting frames where its pattern is back
\* at the start, in either direction and on every ring, but for the one that ends in a beat.
THEOREM LoopingLoops ==
  ASSUME NEW n \in Nat, n >= 4, NEW e \in Looping, ~EndsInBeat(e, n), NEW ccw
  PROVE  Loops(e, n, ccw)
<1>1. CASE e \in {"Rainbow", "Taichi", "Tide", "ColorCycle", "Render", "GradientRibbon", "River"}
  BY <1>1, TurnedLoops
<1>2. CASE e \in {"StaticColor", "HeartBeat", "Warning", "Drumming", "Pump", "Kaleidoscope"}
  BY <1>2, PlainLoops
<1>3. CASE e \in {"Meteor", "MeteorRainbow", "ColorfulMeteor", "Pioneer", "Endless", "Runway",
                   "Mixing"}
  BY <1>3, MeteorsLoop
<1>4. CASE e \in {"CandyBox", "DoubleMeteor", "MeteorContest", "MeteorMix", "TailChasing", "Ripple",
                   "Hourglass", "Intertwine"}
  BY <1>4, PairsLoop
<1>5. CASE e = "Wave" \/ e = "HeartBeatRunway"
  BY <1>5, WaveLoops, HeartBeatRunwayLoops DEF EndsInBeat
<1> QED BY <1>1, <1>2, <1>3, <1>4, <1>5 DEF Looping

-----------------------------------------------------------------------------
(* The sources of a mode, on their way to the fans.                          *)

LEMMA SourceOnRing ==
  ASSUME NEW n \in Nat, n >= 4, NEW src, src.kind \in SourceKinds, NEW f \in Nat
  PROVE  Leds(SourcePicture(src, n, f % SourceFrames(src, n))) \subseteq Ring(n)
<1>1. CASE src.kind = "off"
  BY <1>1 DEF SourcePicture, Leds
<1>2. CASE src.kind = "color"
  BY <1>2 DEF SourcePicture, Leds, Whole
<1>3. CASE src.kind = "effect"
  <2>1. PICK e : e = src.effect
    OBVIOUS
  <2>2. PICK count \in Nat \ {0} : count = FrameCount(e, n)
    BY SomeFrames
  <2>3. PICK g \in 0..count - 1 : g = f % count
    OBVIOUS
  <2>4. PICK ccw : ccw = src.ccw
    OBVIOUS
  <2>5. PICK pic : pic = Picture(e, n, g, ccw)
    OBVIOUS
  <2>6. OnRing(pic, n)
    BY <2>2, <2>5, PictureOnRing
  <2>7. SourcePicture(src, n, f % SourceFrames(src, n)) = pic
    BY <1>3, <2>1, <2>2, <2>3, <2>4, <2>5 DEF SourcePicture, SourceFrames
  <2> QED BY <2>6, <2>7, OnRingLeds
<1> QED BY <1>1, <1>2, <1>3 DEF SourceKinds

LEMMA SourceLoops ==
  ASSUME NEW n \in Nat, RingSize(n), NEW src, Effect(src), src.effect \in Looping,
         ~EndsInBeat(src.effect, n)
  PROVE  SourcePicture(src, n, SourceFrames(src, n)) = SourcePicture(src, n, 0)
<1>1. PICK e \in Looping : e = src.effect
  OBVIOUS
<1>2. PICK ccw : ccw = src.ccw
  OBVIOUS
<1>3. n >= 4 /\ ~EndsInBeat(e, n)
  BY <1>1 DEF RingSize
<1>4. Loops(e, n, ccw)
  BY <1>3, LoopingLoops
<1> QED BY <1>1, <1>2, <1>4 DEF Effect, SourcePicture, SourceFrames, Loops

\* A mode is only drawn for a fan with a ring, and made of sources.
SourcesInv ==
  /\ IsJob(job) /\ frame \in Nat
  /\ stage \in {"drawing", "drawn"} => job.leds # 0 /\ job.fans # 0
  /\ MadeOfSources(job.mode)
  /\ Zoned => job.leds = 0 \/ RingSize(job.leds)

LEMMA SourcesInit == Init => SourcesInv
BY JobsAssumption, RingsAssumption DEF Init, SourcesInv, IsJob, Zoned

LEMMA SourcesNext ==
  ASSUME SourcesInv, [Next]_vars
  PROVE  SourcesInv'
<1>1. job' = job
  BY DEF Next, Ignore, Refuse, Compose, DrawFrame, PassLiteral, WriteMatch, FinishStream, ReadToken, vars
<1>2. frame' \in Nat
  BY DEF SourcesInv, Next, Ignore, Refuse, Compose, DrawFrame, PassLiteral, WriteMatch, FinishStream,
         ReadToken, vars, drawing
<1>3. stage' \in {"drawing", "drawn"} => job.leds # 0 /\ job.fans # 0
  <2>1. CASE Compose
    BY <2>1 DEF Compose, Refused
  <2>2. CASE DrawFrame
    BY <2>2 DEF SourcesInv, DrawFrame
  <2>3. CASE UNCHANGED vars
    BY <2>3 DEF SourcesInv, vars
  <2>4. CASE Ignore \/ Refuse \/ PassLiteral \/ WriteMatch \/ FinishStream \/ ReadToken
    BY <2>4 DEF Ignore, Refuse, PassLiteral, WriteMatch, FinishStream, ReadToken
  <2> QED BY <2>1, <2>2, <2>3, <2>4 DEF Next
<1> QED BY <1>1, <1>2, <1>3 DEF SourcesInv, IsJob, Zoned

LEMMA SourcesRight == SourcesInv => WritesOnTheFan /\ LoopsSeamlessly
<1> SUFFICES ASSUME SourcesInv, stage = "drawing", Zoned
             PROVE  WritesOnTheFan /\ LoopsSeamlessly
  BY DEF WritesOnTheFan, LoopsSeamlessly
<1>1. job.leds \in Nat /\ RingSize(job.leds) /\ frame \in Nat
  BY DEF SourcesInv, IsJob
<1>2. PICK n \in Nat : n = job.leds /\ n >= 4 /\ RingSize(n)
  BY <1>1 DEF RingSize
<1>3. \A src \in Sources(job.mode) : src.kind \in SourceKinds
  BY DEF SourcesInv, MadeOfSources, Zoned
<1>4. \A src \in Sources(job.mode) :
        Leds(SourcePicture(src, n, frame % SourceFrames(src, n))) \subseteq Ring(n)
  BY <1>1, <1>2, <1>3, SourceOnRing
<1>5. \A src \in EffectsShown : src.effect \in Looping /\ ~EndsInBeat(src.effect, n) =>
        SourcePicture(src, n, SourceFrames(src, n)) = SourcePicture(src, n, 0)
  BY <1>2, SourceLoops DEF EffectsShown
<1>6. WritesOnTheFan
  BY <1>2, <1>4 DEF WritesOnTheFan
<1>7. LoopsSeamlessly
  BY <1>2, <1>5 DEF LoopsSeamlessly
<1> QED BY <1>6, <1>7

\* No effect writes an LED beside the fan (set_led would end the daemon), at any frame, in either
\* direction, for every job and every ring.
THEOREM EffectsStayOnTheFan == Spec => []WritesOnTheFan
<1>1. SourcesInv /\ [Next]_vars => SourcesInv'
  BY SourcesNext
<1>2. SourcesInv => WritesOnTheFan
  BY SourcesRight
<1> QED BY SourcesInit, <1>1, <1>2, PTL DEF Spec

\* The fans repeat the frames: an effect that turns or pulses without an end shows no jump when
\* they start again, for every job and every ring.
THEOREM EffectsLoop == Spec => []LoopsSeamlessly
<1>1. SourcesInv /\ [Next]_vars => SourcesInv'
  BY SourcesNext
<1>2. SourcesInv => LoopsSeamlessly
  BY SourcesRight
<1> QED BY SourcesInit, <1>1, <1>2, PTL DEF Spec

\* What a page holds of a ring: a source, or that another tab edits it.
HeldKinds == SourceKinds \cup {"elsewhere"}
Held(page) ==
  /\ page = [ring |-> page.ring, inner |-> page.inner, outer |-> page.outer]
  /\ page.inner.kind \in HeldKinds /\ page.outer.kind \in HeldKinds

HeldInv ==
  /\ SourcesInv
  /\ open => job.leds = 0 \/ RingSize(job.leds)
  /\ current # None => MadeOfSources(current)
                       /\ (current.kind = "composed" => 1 \in DOMAIN current.specs)
  /\ Held(rings)
  /\ ui = [ring |-> ui.ring, source |-> ui.source] /\ ui.source.kind \in HeldKinds

LEMMA ComposedMade ==
  ASSUME NEW m, m.kind = "composed", 1 \in DOMAIN m.specs,
         \A i \in DOMAIN m.specs : /\ m.specs[i].inner.kind \in SourceKinds
                                   /\ m.specs[i].outer.kind \in SourceKinds
  PROVE  MadeOfSources(m)
<1>1. Specs(m) = m.specs
  BY DEF Specs
<1>2. \A src \in Sources(m) : src.kind \in SourceKinds
  BY <1>1 DEF Sources
<1> QED BY <1>2 DEF MadeOfSources

LEMMA PlainMade ==
  ASSUME NEW m, m.kind \notin ZonedKinds
  PROVE  MadeOfSources(m)
BY DEF MadeOfSources, ZonedKinds

LEMMA ComposedSource ==
  ASSUME NEW m, m.kind = "composed", MadeOfSources(m), 1 \in DOMAIN m.specs
  PROVE  m.specs[1].inner.kind \in SourceKinds /\ m.specs[1].outer.kind \in SourceKinds
<1>1. Specs(m) = m.specs
  BY DEF Specs
<1>2. m.specs[1].inner \in Sources(m) /\ m.specs[1].outer \in Sources(m)
  BY <1>1 DEF Sources
<1> QED BY <1>2 DEF MadeOfSources, ZonedKinds

LEMMA RingSource ==
  ASSUME NEW m, m.kind = "ring", MadeOfSources(m)
  PROVE  /\ FromRing(m.ring, m.source).inner.kind \in SourceKinds
         /\ FromRing(m.ring, m.source).outer.kind \in SourceKinds
<1>1. PICK spec : spec = FromRing(m.ring, m.source)
  OBVIOUS
<1>2. Specs(m) = <<spec>> /\ 1 \in DOMAIN Specs(m) /\ Specs(m)[1] = spec
  BY <1>1 DEF Specs
<1>3. spec.inner \in Sources(m) /\ spec.outer \in Sources(m)
  BY <1>2 DEF Sources
<1> QED BY <1>1, <1>3 DEF MadeOfSources, ZonedKinds

\* The page takes what it is told.
LEMMA RingsOfHeld ==
  ASSUME NEW m, MadeOfSources(m), m.kind = "composed" => 1 \in DOMAIN m.specs
  PROVE  Held(RingsOf(m))
<1>1. CASE m.kind = "off"
  BY <1>1 DEF RingsOf, Held, HeldKinds, SourceKinds, Off
<1>2. CASE m.kind = "ring"
  BY <1>2, RingSource DEF RingsOf, Held, HeldKinds
<1>3. CASE m.kind = "composed"
  BY <1>3, ComposedSource DEF RingsOf, Held, HeldKinds
<1>4. CASE m.kind \notin {"off", "ring", "composed"}
  BY <1>4 DEF RingsOf, Held, HeldKinds, Elsewhere
<1> QED BY <1>1, <1>2, <1>3, <1>4

\* What the page builds is made of sources.
LEMMA BuiltMade ==
  ASSUME NEW page, Held(page)
  PROVE  MadeOfSources(Built(page))
<1>1. CASE Built(page) = [kind |-> "off"]
  BY <1>1, PlainMade DEF ZonedKinds
<1>2. CASE Built(page) # [kind |-> "off"]
  <2>1. PICK in : in = IF page.inner.kind = "elsewhere" THEN Off ELSE page.inner
    OBVIOUS
  <2>2. PICK out : out = IF page.outer.kind = "elsewhere" THEN Off ELSE page.outer
    OBVIOUS
  <2>3. PICK m : m = Built(page)
    OBVIOUS
  <2>4. m = [kind |-> "composed", specs |-> <<[inner |-> in, outer |-> out]>>]
    BY <1>2, <2>1, <2>2, <2>3 DEF Built
  <2>5. in.kind \in SourceKinds /\ out.kind \in SourceKinds
    BY <2>1, <2>2 DEF Held, HeldKinds, SourceKinds, Off
  <2>6. m.kind = "composed" /\ DOMAIN m.specs = {1} /\ m.specs[1].inner = in /\ m.specs[1].outer = out
    BY <2>4
  <2> QED BY <2>3, <2>5, <2>6, ComposedMade
<1> QED BY <1>1, <1>2

LEMMA SavedHeld ==
  ASSUME NEW page, Held(page), NEW ring, NEW src, src.kind \in HeldKinds
  PROVE  Held(Saved(page, ring, src)) /\ Active(page).kind \in HeldKinds
BY DEF Held, Saved, Active

LEMMA RingKept ==
  ASSUME NEW page, Held(page), NEW ring
  PROVE  Held([page EXCEPT !.ring = ring])
<1>1. [page EXCEPT !.ring = ring] = [ring |-> ring, inner |-> page.inner, outer |-> page.outer]
  BY DEF Held
<1> QED BY <1>1 DEF Held

LEMMA HeldInit == PagesInit => HeldInv
<1> SUFFICES ASSUME PagesInit PROVE HeldInv
  OBVIOUS
<1>1. SourcesInv
  BY SourcesInit DEF PagesInit
<1>2. open => job.leds = 0 \/ RingSize(job.leds)
  BY PageRingsAssumption DEF PagesInit
<1>3. Held(rings) /\ ui = [ring |-> ui.ring, source |-> ui.source] /\ ui.source.kind \in HeldKinds
  BY DEF PagesInit, Held, HeldKinds, SourceKinds, Off
<1> QED BY <1>1, <1>2, <1>3 DEF HeldInv, PagesInit

\* A page sends a mode made of sources.
LEMMA SourcesSends ==
  ASSUME HeldInv, NEW m, MadeOfSources(m), open, stage = "drawn", Sends(m)
  PROVE  SourcesInv' /\ job'.leds = job.leds
<1>1. job' = [device |-> job.device, leds |-> job.leds, fans |-> job.fans, mode |-> m]
  BY DEF HeldInv, SourcesInv, IsJob, Sends
<1>2. job'.leds = job.leds /\ job'.fans = job.fans /\ job'.mode = m /\ IsJob(job')
  BY <1>1 DEF HeldInv, SourcesInv, IsJob
<1>3. frame' = 0 /\ stage' = "asked"
  BY DEF Sends
<1> QED BY <1>2, <1>3 DEF HeldInv, SourcesInv, IsJob, Zoned

GoodUi(u) == u = [ring |-> u.ring, source |-> u.source] /\ u.source.kind \in HeldKinds

LEMMA HeldSends ==
  ASSUME HeldInv, NEW m, MadeOfSources(m), Settled, Sends(m), Held(rings'), GoodUi(ui')
  PROVE  HeldInv'
<1>1. open /\ open' = open /\ stage = "drawn" /\ current' = current
  BY DEF Settled, Sends
<1>2. SourcesInv' /\ job'.leds = job.leds
  BY <1>1, SourcesSends
<1> QED BY <1>1, <1>2 DEF HeldInv, GoodUi

\* What is only kept on the page leaves the pipeline alone.
LEMMA HeldKeeps ==
  ASSUME HeldInv, UNCHANGED vars, open' = open, current' = current, Held(rings'), GoodUi(ui')
  PROVE  HeldInv'
<1>1. SourcesInv' /\ job' = job
  BY SourcesNext DEF HeldInv, vars
<1> QED BY <1>1 DEF HeldInv, GoodUi

LEMMA HeldAdjusts ==
  ASSUME HeldInv, NEW src \in Picks, Adjust(src)
  PROVE  HeldInv'
<1>1. PICK page : page = Saved([rings EXCEPT !.ring = ui.ring], ui.ring, src)
  OBVIOUS
<1>2. src.kind \in HeldKinds
  BY PageRingsAssumption DEF HeldKinds
<1>3. Held(page)
  <2>1. PICK now : now = [rings EXCEPT !.ring = ui.ring]
    OBVIOUS
  <2>2. Held(now)
    BY <2>1, RingKept DEF HeldInv
  <2> QED BY <1>1, <1>2, <2>1, <2>2, SavedHeld
<1>4. PICK m : m = Built(page)
  OBVIOUS
<1>5. MadeOfSources(m)
  BY <1>3, <1>4, BuiltMade
<1>6. Settled /\ Sends(m) /\ rings' = page /\ ui' = [ui EXCEPT !.source = src]
  BY <1>1, <1>4 DEF Adjust, Change
<1>7. GoodUi(ui')
  <2>1. ui' = [ring |-> ui.ring, source |-> src]
    BY <1>6 DEF HeldInv
  <2> QED BY <1>2, <2>1 DEF GoodUi
<1> QED BY <1>3, <1>5, <1>6, <1>7, HeldSends

LEMMA HeldAppliesAll ==
  ASSUME HeldInv, ApplyAll
  PROVE  HeldInv'
<1>1. ui.source.kind \in HeldKinds /\ Held(rings)
  BY DEF HeldInv
<1>2. PICK dark : dark = [ring |-> ui.ring, inner |-> Off, outer |-> Off]
  OBVIOUS
<1>3. Held(dark)
  BY <1>2 DEF Held, HeldKinds, SourceKinds, Off
<1>4. PICK sent : sent = Saved(dark, ui.ring, ui.source)
  OBVIOUS
<1>5. Held(sent)
  BY <1>1, <1>3, <1>4, SavedHeld
<1>6. PICK m : m = Built(sent)
  OBVIOUS
<1>7. MadeOfSources(m)
  BY <1>5, <1>6, BuiltMade
<1>8. PICK now : now = [rings EXCEPT !.ring = ui.ring]
  OBVIOUS
<1>9. Held(now)
  BY <1>1, <1>8, RingKept
<1>10. Held(rings')
  BY <1>1, <1>8, <1>9, SavedHeld DEF ApplyAll
<1>11. Settled /\ Sends(m) /\ ui' = ui
  BY <1>2, <1>4, <1>6 DEF ApplyAll, Change
<1>12. GoodUi(ui')
  BY <1>11 DEF HeldInv, GoodUi
<1> QED BY <1>7, <1>10, <1>11, <1>12, HeldSends

LEMMA HeldAppliesLed ==
  ASSUME HeldInv, NEW picked, ApplyLed(picked)
  PROVE  HeldInv'
<1> DEFINE colour(hue) == [kind |-> "color", hue |-> hue]
           spec(fan) == IF picked[fan] = None
                        THEN [inner |-> colour(DefaultHue), outer |-> colour(DefaultHue)]
                        ELSE [inner |-> colour(picked[fan].inner), outer |-> colour(picked[fan].outer)]
           specs == [fan \in 1..job.fans |-> spec(fan)]
<1>1. PICK m : m = [kind |-> "composed", specs |-> specs]
  OBVIOUS
<1>2. /\ Sends(m) /\ m.kind = "composed" /\ DOMAIN m.specs = 1..job.fans
      /\ \A fan \in 1..job.fans : /\ m.specs[fan].inner.kind = "color"
                                  /\ m.specs[fan].outer.kind = "color"
  <2>1. m.kind = "composed" /\ m.specs = specs
    BY <1>1
  <2>2. Sends(m)
    BY <1>1 DEF ApplyLed
  <2>3. \A fan : spec(fan).inner.kind = "color" /\ spec(fan).outer.kind = "color"
    OBVIOUS
  <2>4. DOMAIN specs = 1..job.fans /\ \A fan \in 1..job.fans : specs[fan] = spec(fan)
    OBVIOUS
  <2> QED BY <2>1, <2>2, <2>3, <2>4
<1> HIDE DEF specs, spec, colour
<1>3. Settled /\ rings' = rings /\ ui' = ui
  BY DEF ApplyLed, Change, ringPage
<1>4. 1 \in 1..job.fans
  BY <1>3 DEF HeldInv, SourcesInv, IsJob, Settled
<1>5. MadeOfSources(m)
  BY <1>2, <1>4, ComposedMade DEF SourceKinds
<1> QED BY <1>2, <1>3, <1>5, HeldSends DEF HeldInv, GoodUi

LEMMA HeldTakes ==
  ASSUME HeldInv, Take
  PROVE  HeldInv'
<1>1. SourcesInv' /\ job' = job
  <2>1. Compose /\ [Next]_vars
    BY DEF Take, Next
  <2> QED BY <2>1, SourcesNext DEF HeldInv, Compose
<1>2. current' = job.mode /\ open' = open /\ rings' = rings /\ ui' = ui /\ ~Refused(job)
  BY DEF Take, Compose, ringPage
<1>3. MadeOfSources(job.mode) /\ (job.mode.kind = "composed" => 1 \in DOMAIN job.mode.specs)
  BY <1>2 DEF HeldInv, SourcesInv, MadeOfSources, Refused
<1> QED BY <1>1, <1>2, <1>3 DEF HeldInv

LEMMA HeldUploads ==
  ASSUME HeldInv, Upload, UNCHANGED pages
  PROVE  HeldInv'
<1>1. SourcesInv'
  <2>1. [Next]_vars
    BY DEF Upload, Next
  <2> QED BY <2>1, SourcesNext DEF HeldInv
<1>2. job' = job
  BY DEF Upload, Ignore, Refuse, DrawFrame, PassLiteral, WriteMatch, FinishStream, ReadToken
<1> QED BY <1>1, <1>2 DEF HeldInv, pages, ringPage

LEMMA HeldNext ==
  ASSUME HeldInv, [PagesNext]_pageVars
  PROVE  HeldInv'
<1>0. Held(rings) /\ GoodUi(ui)
  BY DEF HeldInv, GoodUi
<1>1. CASE UNCHANGED pageVars
  BY <1>0, <1>1, HeldKeeps DEF pageVars, pages, ringPage
<1>2. CASE Upload /\ UNCHANGED pages
  BY <1>2, HeldUploads
<1>3. CASE Take
  BY <1>3, HeldTakes
<1>4. CASE Sync
  <2>1. PICK m : m = current
    OBVIOUS
  <2>2. Held(RingsOf(m))
    BY <1>4, <2>1, RingsOfHeld DEF Sync, HeldInv
  <2>3. UNCHANGED vars /\ open' = open /\ current' = current /\ ui' = ui /\ rings' = RingsOf(m)
    BY <1>4, <2>1 DEF Sync
  <2> QED BY <1>0, <2>2, <2>3, HeldKeeps
<1>5. CASE \E e \in Edits : LedColorChanged(e)
  BY <1>0, <1>5, HeldKeeps DEF LedColorChanged, Change, Settled, ringPage
<1>6. CASE ApplyPerLed
  <2>1. PICK m : Sends(m) /\ m.kind = "perled"
    BY <1>6 DEF ApplyPerLed
  <2>2. MadeOfSources(m)
    BY <2>1, PlainMade DEF ZonedKinds
  <2>3. Settled /\ rings' = rings /\ ui' = ui
    BY <1>6 DEF ApplyPerLed, ringPage
  <2> QED BY <1>0, <2>1, <2>2, <2>3, HeldSends
<1>7. CASE \E picked \in ZonePicks : ApplyLed(picked)
  BY <1>7, HeldAppliesLed
<1>8. CASE SaveLedPreset \/ DeleteLedPreset \/ LoadLedPreset
  BY <1>0, <1>8, HeldKeeps
  DEF SaveLedPreset, DeleteLedPreset, LoadLedPreset, Change, Settled, ringPage
<1>9. CASE \E src \in Picks : Adjust(src)
  BY <1>9, HeldAdjusts
<1>10. CASE \E ring \in {"inner", "outer", "both"} : RingChanged(ring)
  <2>1. PICK ring : RingChanged(ring)
    BY <1>10
  <2>2. PICK saved : saved = Saved(rings, rings.ring, ui.source)
    OBVIOUS
  <2>3. Held(saved)
    BY <1>0, <2>2, SavedHeld DEF GoodUi
  <2>4. PICK page : page = [saved EXCEPT !.ring = ring]
    OBVIOUS
  <2>5. Held(page)
    BY <2>3, <2>4, RingKept
  <2>6. Active(page).kind \in HeldKinds
    BY <2>5 DEF Held, Active
  <2>7. rings' = page /\ ui' = [ring |-> ring, source |-> Active(page)]
    BY <2>1, <2>2, <2>4 DEF RingChanged
  <2>8. GoodUi(ui')
    BY <2>6, <2>7 DEF GoodUi
  <2> QED BY <2>1, <2>5, <2>7, <2>8, HeldKeeps DEF RingChanged, Change, Settled
<1>11. CASE ApplyAll
  BY <1>11, HeldAppliesAll
<1>12. CASE OffAll
  <2>1. PICK m : Sends(m) /\ m.kind = "off"
    BY <1>12 DEF OffAll
  <2>2. MadeOfSources(m)
    BY <2>1, PlainMade DEF ZonedKinds
  <2>3. rings' = [ring |-> rings.ring, inner |-> Off, outer |-> Off] /\ ui' = ui /\ Settled
    BY <1>0, <1>12 DEF OffAll, Change, Held
  <2>4. Held(rings')
    BY <2>3 DEF Held, HeldKinds, SourceKinds, Off
  <2> QED BY <1>0, <2>1, <2>2, <2>3, <2>4, HeldSends
<1>13. CASE SelectGroup
  <2>1. Active(rings).kind \in HeldKinds
    BY <1>0 DEF Held, Active
  <2>2. GoodUi(ui')
    BY <1>13, <2>1 DEF SelectGroup, GoodUi
  <2> QED BY <1>0, <1>13, <2>2, HeldKeeps DEF SelectGroup, Settled
<1> QED BY <1>1, <1>2, <1>3, <1>4, <1>5, <1>6, <1>7, <1>8, <1>9, <1>10, <1>11, <1>12, <1>13
        DEF PagesNext

\* The same for every mode that the pages of the graphical interface build and send.
THEOREM EffectsStayOnTheFanWithPages == PagesSpec => []WritesOnTheFan
<1>1. HeldInv /\ [PagesNext]_pageVars => HeldInv'
  BY HeldNext
<1>2. HeldInv => WritesOnTheFan
  BY SourcesRight DEF HeldInv
<1> QED BY HeldInit, <1>1, <1>2, PTL DEF PagesSpec

\* ... and for the loops.
THEOREM EffectsLoopWithPages == PagesSpec => []LoopsSeamlessly
<1>1. HeldInv /\ [PagesNext]_pageVars => HeldInv'
  BY HeldNext
<1>2. HeldInv => LoopsSeamlessly
  BY SourcesRight DEF HeldInv
<1> QED BY HeldInit, <1>1, <1>2, PTL DEF PagesSpec

=============================================================================
