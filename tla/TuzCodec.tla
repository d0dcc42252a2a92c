------------------------------ MODULE TuzCodec ------------------------------
(* The compression of an LED buffer (frgb-rgb/src/compression) and the       *)
(* decompressor of the fans, which the repository only knows by its format.  *)
(*                                                                           *)
(* A stream is a sequence of tokens.  Whether a token carries the bit "same  *)
(* distance as before" and a distance depends on what both ends remember of  *)
(* the tokens before it (posBack, dataBack), so an encoder and a decoder     *)
(* that remember differently read different bits.  A token is                *)
(*   [kind |-> "literal", symbol |-> s],                                     *)
(*   [kind |-> "dict", len |-> groups, same |-> <<>> or <<bit>>,             *)
(*    place |-> <<>> or <<place>>],  with a control code where the place is 0. *)
EXTENDS Integers, Sequences, FiniteSetsExt

CONSTANTS
  Trigram(_, _, _),   \* the hash bucket of three symbols
  DictSize,           \* how far back a match may lie
  ChainLen,           \* how many positions of a bucket are looked at
  MinLine,            \* literals in a row that make a literal line
  BigPos,             \* from here a match is at least 3 long
  SmallPos            \* distances below fit one byte

ASSUME CodecAssumption ==
  /\ DictSize \in Nat \ {0} /\ ChainLen \in Nat \ {0}
  /\ MinLine \in Nat \ {0} /\ BigPos \in Nat \ {0} /\ SmallPos \in Nat \ {0}

MinMatch == 2
LiteralLine == 1
StreamEnd == 3

-----------------------------------------------------------------------------
(* Numbers of any length, in digits of k bits, the most significant first:   *)
(* every digit but the last stands for one more than it says, so that no     *)
(* number can be said in two ways (base is 2^k).                             *)

Groups(value, base) ==
  LET digits[v \in 0 .. value] ==
        IF v < base THEN <<v>> ELSE Append(digits[v \div base - 1], v % base)
  IN digits[value]

FromGroups(groups, base) ==
  LET value[i \in 0 .. Len(groups)] ==
        IF i = 0 THEN -1 ELSE (value[i - 1] + 1) * base + groups[i]
  IN value[Len(groups)]

LengthBase == 2  \* kDictLenPackBit = 1
PlaceBase == 4   \* kDictPosLenPackBit = 2

Place(p) == IF p < SmallPos THEN [low |-> p, high |-> <<>>]
            ELSE [low |-> p % SmallPos, high |-> Groups(p \div SmallPos - 1, PlaceBase)]

FromPlace(pl) == IF pl.high = <<>> THEN pl.low
                 ELSE pl.low + SmallPos * FromGroups(pl.high, PlaceBase) + SmallPos

-----------------------------------------------------------------------------
(* Matches.                                                                  *)

Symbol(data, i) == data[i + 1]
Bucket(data, i) == Trigram(Symbol(data, i), Symbol(data, i + 1), Symbol(data, i + 2))

MatchLength(data, a, b) ==
  Max({l \in 0 .. Len(data) - b :
         \A i \in 0 .. l - 1 : Symbol(data, a + i) = Symbol(data, b + i)})

\* The nearest positions of the bucket; the chain starts with pos itself.
Candidates(data, pos) ==
  LET bucket == {c \in Max({0, pos - DictSize}) .. pos - 1 :
                   Bucket(data, c) = Bucket(data, pos)}
  IN {c \in bucket : Cardinality({d \in bucket : d > c}) < ChainLen - 1}

\* The longest match, the nearest of the longest; [len |-> 0] when none.
BestMatch(data, pos) ==
  LET found == IF pos + 2 >= Len(data) THEN {}
               ELSE {c \in Candidates(data, pos) : MatchLength(data, c, pos) >= MinMatch}
      longest == Max({MatchLength(data, c, pos) : c \in found})
  IN IF found = {} THEN [dist |-> 0, len |-> 0]
     ELSE [dist |-> pos - Max({c \in found : MatchLength(data, c, pos) = longest}),
           len |-> longest]

\* Two symbols from afar cannot be said: the reader adds one to such a length.
Usable(m) == m.len >= MinMatch /\ ~(m.len = MinMatch /\ m.dist > BigPos)

-----------------------------------------------------------------------------
(* The encoder: what it has written and what it remembers.                   *)

FreshEncoder == [stream |-> <<>>, posBack |-> 1, dataBack |-> FALSE, dictMax |-> 1]

Control(enc, code) ==
  [kind |-> "dict", len |-> Groups(code, LengthBase),
   same |-> IF enc.dataBack THEN <<0>> ELSE <<>>, place |-> <<Place(0)>>]

\* A control token leaves dataBack alone; the data after it sets it.
OutData(enc, symbols) ==
  LET line == <<Control(enc, LiteralLine),
                [kind |-> "line", len |-> Groups(Len(symbols) - MinLine, PlaceBase),
                 symbols |-> symbols]>>
      singles == [i \in DOMAIN symbols |-> [kind |-> "literal", symbol |-> symbols[i]]]
  IN IF symbols = <<>> THEN enc
     ELSE [enc EXCEPT !.stream = @ \o (IF Len(symbols) >= MinLine THEN line ELSE singles),
                      !.dataBack = TRUE]

\* (mutant) the length of a match from afar is adjusted even where its distance
\* is not written.
OutDictAdjusted(enc, m) ==
  LET saidSame == enc.posBack = m.dist /\ enc.dataBack
      len == m.len - MinMatch - (IF m.dist > BigPos THEN 1 ELSE 0)
      token == [kind |-> "dict", len |-> Groups(len, LengthBase),
                same |-> IF ~enc.dataBack THEN <<>> ELSE <<IF saidSame THEN 1 ELSE 0>>,
                place |-> IF saidSame THEN <<>> ELSE <<Place(m.dist)>>]
  IN [stream |-> Append(enc.stream, token), posBack |-> m.dist, dataBack |-> FALSE,
      dictMax |-> Max({enc.dictMax, m.dist})]

OutDict(enc, m) ==
  LET saidSame == enc.posBack = m.dist /\ enc.dataBack
      len == m.len - MinMatch - (IF ~saidSame /\ m.dist > BigPos THEN 1 ELSE 0)
      token == [kind |-> "dict", len |-> Groups(len, LengthBase),
                same |-> IF ~enc.dataBack THEN <<>> ELSE <<IF saidSame THEN 1 ELSE 0>>,
                place |-> IF saidSame THEN <<>> ELSE <<Place(m.dist)>>]
  IN [stream |-> Append(enc.stream, token), posBack |-> m.dist, dataBack |-> FALSE,
      dictMax |-> Max({enc.dictMax, m.dist})]

OutEnd(enc) == [enc EXCEPT !.stream = Append(@, Control(enc, StreamEnd)),
                           !.posBack = 1, !.dataBack = FALSE]

-----------------------------------------------------------------------------
(* The decoder.  It reads one token at a time, keeps the last `window`       *)
(* symbols, and is garbled for good by a token it would have read otherwise. *)

FreshDecoder == [out |-> <<>>, posBack |-> 1, dataBack |-> FALSE, status |-> "reading"]

Copied(out, dist, len) ==
  LET copied[n \in 0 .. len] ==
        IF n = 0 THEN out
        ELSE Append(copied[n - 1], copied[n - 1][Len(copied[n - 1]) + 1 - dist])
  IN copied[len]

DecodeDict(dec, token, window) ==
  LET dist == IF token.place = <<>> THEN dec.posBack ELSE FromPlace(token.place[1])
      saved == FromGroups(token.len, LengthBase)
      len == saved + MinMatch + (IF token.place # <<>> /\ dist > BigPos THEN 1 ELSE 0)
  IN IF (token.same # <<>>) # dec.dataBack \/ dist > window \/ dist > Len(dec.out)
     THEN [dec EXCEPT !.status = "garbled"]
     ELSE IF dist > 0
     THEN [dec EXCEPT !.out = Copied(@, dist, len), !.posBack = dist, !.dataBack = FALSE]
     ELSE IF saved = LiteralLine THEN [dec EXCEPT !.dataBack = FALSE, !.status = "line"]
     ELSE [dec EXCEPT !.posBack = 1, !.dataBack = FALSE,
                      !.status = IF saved = StreamEnd THEN "ended" ELSE "garbled"]

DecodeLine(dec, token) ==
  IF FromGroups(token.len, PlaceBase) + MinLine = Len(token.symbols)
  THEN [dec EXCEPT !.out = @ \o token.symbols, !.dataBack = TRUE, !.status = "reading"]
  ELSE [dec EXCEPT !.status = "garbled"]

Decode(dec, token, window) ==
  CASE token.kind = "line" /\ dec.status = "line" -> DecodeLine(dec, token)
    [] token.kind = "literal" /\ dec.status = "reading" ->
         [dec EXCEPT !.out = Append(@, token.symbol), !.dataBack = TRUE]
    [] token.kind = "dict" /\ dec.status = "reading" -> DecodeDict(dec, token, window)
    [] OTHER -> [dec EXCEPT !.status = "garbled"]
=============================================================================
