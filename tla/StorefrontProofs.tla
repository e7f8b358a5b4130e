-------------------------- MODULE StorefrontProofs --------------------------
(***************************************************************************)
(* Proofs about the parts of the storefront: the reading of transfers'     *)
(* texts and of the lists of orders (OrderList, OrderCodes), the banks and *)
(* their turns (Banks), the default addresses (Addresses), the chat        *)
(* (Chat), the reviews and ratings (Reviews), the product that an admin    *)
(* edits (Catalog) and the sales reports (Sales).                          *)
(*                                                                         *)
(* Each part has an inductive invariant of its own, in which every call    *)
(* under way carries what it may still rely on.                            *)
(***************************************************************************)
EXTENDS OrderList, Banks, Addresses, Chat, Reviews, Catalog, Sales,
        TLAPS, SequenceTheorems, FiniteSetTheorems, WellFoundedInduction

(* The texts of transfers *)

\* A number without leading zeros, or nothing at all, is what parseInt reads.
LEMMA ParseNumeral ==
  ASSUME NEW n \in Seq(Digits), n # <<>> => n[1] # "0"
  PROVE  parseInt(n) = n
<1>1. DigitsEnd(n) = Len(n)
  <2> DEFINE D(m) == /\ \A i \in 1..m : n[i] \in Digits
                     /\ m = Len(n) \/ n[m + 1] \notin Digits
  <2>1. Len(n) \in 0..Len(n) /\ D(Len(n))
    OBVIOUS
  <2>2. \A m \in 0..Len(n) : D(m) => m = Len(n)
    OBVIOUS
  <2>3. DigitsEnd(n) = CHOOSE m \in 0..Len(n) : D(m)
    BY DEF DigitsEnd
  <2> HIDE DEF D
  <2> QED
    BY <2>1, <2>2, <2>3, Zenon
<1>2. ZerosEnd(n) = 0
  <2> DEFINE D(m) == /\ \A i \in 1..m : n[i] = "0"
                     /\ m = Len(n) \/ n[m + 1] # "0"
  <2>1. 0 \in 0..Len(n) /\ D(0)
    OBVIOUS
  <2>2. \A m \in 0..Len(n) : D(m) => m = 0
    OBVIOUS
  <2>3. ZerosEnd(n) = CHOOSE m \in 0..Len(n) : D(m)
    BY DEF ZerosEnd
  <2> HIDE DEF D
  <2> QED
    BY <2>1, <2>2, <2>3, Zenon
<1> QED
  BY <1>1, <1>2, SubSeqFull DEF parseInt

\* The halves of two sequences that were joined.
LEMMA Halves ==
  ASSUME NEW s \in Seq(Chars), NEW t \in Seq(Chars)
  PROVE  /\ s \o t \in Seq(Chars)
         /\ Len(s \o t) = Len(s) + Len(t)
         /\ \A i \in 1..Len(s) : (s \o t)[i] = s[i]
         /\ \A i \in 1..Len(t) : (s \o t)[Len(s) + i] = t[i]
<1>1. /\ s \o t \in Seq(Chars)
      /\ Len(s \o t) = Len(s) + Len(t)
      /\ \A i \in 1..(Len(s) + Len(t)) : (s \o t)[i] = IF i <= Len(s) THEN s[i] ELSE t[i - Len(s)]
  BY ConcatProperties
<1>2. Len(s) \in Nat /\ Len(t) \in Nat
  OBVIOUS
<1>3. \A i \in 1..Len(s) : i \in 1..(Len(s) + Len(t)) /\ i <= Len(s)
  BY <1>2
<1>4. \A i \in 1..Len(t) : /\ Len(s) + i \in 1..(Len(s) + Len(t)) /\ ~(Len(s) + i <= Len(s))
                           /\ (Len(s) + i) - Len(s) = i
  BY <1>2
<1> QED
  BY <1>1, <1>3, <1>4, Zenon

\* The pieces of a text, by their positions.
Composed(text, u, t, c) ==
    /\ text \in Seq(Chars)
    /\ Len(text) = Len(Prefix) + TimeLength + Len(u) + Len(c)
    /\ \A i \in 1..Len(Prefix) : text[i] = Prefix[i]
    /\ \A i \in 1..TimeLength : text[Len(Prefix) + i] = t[i]
    /\ \A i \in 1..Len(u) : text[Len(Prefix) + TimeLength + i] = u[i]
    /\ \A i \in 1..Len(c) : text[Len(Prefix) + TimeLength + Len(u) + i] = c[i]

LEMMA Pieces ==
  ASSUME OrderCodesAssumption,
         NEW u \in Numerals, NEW t \in Dates, NEW c \in Seq(Chars)
  PROVE  Composed(generateOrderCode(u, t, c), u, t, c)
<1>1. t \in Seq(Chars) /\ Len(t) = TimeLength
  BY DEF OrderCodesAssumption
<1>2. u \in Seq(Chars)
  BY DEF OrderCodesAssumption, Numerals
<1>3. Prefix \in Seq(Chars)
  BY DEF OrderCodesAssumption
<1> DEFINE dated == Prefix \o t
          named == dated \o u
<1>4. /\ dated \in Seq(Chars)
      /\ Len(dated) = Len(Prefix) + TimeLength
      /\ \A i \in 1..Len(Prefix) : dated[i] = Prefix[i]
      /\ \A i \in 1..TimeLength : dated[Len(Prefix) + i] = t[i]
  BY <1>1, <1>3, Halves, Zenon
<1>5. /\ named \in Seq(Chars)
      /\ Len(named) = Len(dated) + Len(u)
      /\ \A i \in 1..Len(dated) : named[i] = dated[i]
      /\ \A i \in 1..Len(u) : named[Len(dated) + i] = u[i]
  BY <1>2, <1>4, Halves, Zenon
<1>6. /\ named \o c \in Seq(Chars)
      /\ Len(named \o c) = Len(named) + Len(c)
      /\ \A i \in 1..Len(named) : (named \o c)[i] = named[i]
      /\ \A i \in 1..Len(c) : (named \o c)[Len(named) + i] = c[i]
  BY <1>5, Halves, Zenon
<1>7. generateOrderCode(u, t, c) = named \o c
  BY DEF generateOrderCode
<1>8. Len(Prefix) \in Nat /\ TimeLength \in Nat /\ Len(u) \in Nat /\ Len(c) \in Nat
  BY <1>2, <1>3 DEF OrderCodesAssumption
<1> HIDE DEF dated, named
<1>9. \A i \in 1..Len(Prefix) : (named \o c)[i] = Prefix[i]
  BY <1>4, <1>5, <1>6, <1>8
<1>10. \A i \in 1..TimeLength : (named \o c)[Len(Prefix) + i] = t[i]
  BY <1>4, <1>5, <1>6, <1>8
<1>11. \A i \in 1..Len(u) : (named \o c)[Len(Prefix) + TimeLength + i] = u[i]
  BY <1>4, <1>5, <1>6, <1>8
<1>12. \A i \in 1..Len(c) : (named \o c)[Len(Prefix) + TimeLength + Len(u) + i] = c[i]
  BY <1>4, <1>5, <1>6, <1>8
<1> QED
  BY <1>4, <1>5, <1>6, <1>7, <1>9, <1>10, <1>11, <1>12 DEF Composed

\* Two sequences of one length that agree everywhere.
LEMMA SameSequence ==
  ASSUME NEW s \in Seq(Chars), NEW t \in Seq(Chars), Len(s) = Len(t),
         \A i \in 1..Len(s) : s[i] = t[i]
  PROVE  s = t
  OBVIOUS

\* The part of a sequence that spells another one.
LEMMA SliceSpells ==
  ASSUME NEW s \in Seq(Chars), NEW w \in Seq(Chars), NEW from \in Nat, NEW to \in Nat,
         to = from + Len(w), to <= Len(s),
         \A i \in 1..Len(w) : s[from + i] = w[i]
  PROVE  Slice(s, from, to) = w
<1>1. Len(w) \in Nat /\ Len(s) \in Nat /\ from <= to
  OBVIOUS
<1>2. Index(s, from) = from /\ Index(s, to) = to
  BY <1>1 DEF Index
<1>3. Slice(s, from, to) = SubSeq(s, from + 1, to)
  BY <1>2 DEF Slice
<1>4. from + 1 \in Int /\ to \in Int /\ \A i \in (from + 1)..to : s[i] \in Chars
  BY <1>1
<1>5. /\ SubSeq(s, from + 1, to) \in Seq(Chars)
      /\ Len(SubSeq(s, from + 1, to)) = IF from + 1 <= to THEN to - (from + 1) + 1 ELSE 0
      /\ \A i \in 1..(to - (from + 1) + 1) : SubSeq(s, from + 1, to)[i] = s[(from + 1) + i - 1]
  BY <1>4, SubSeqProperties
<1> DEFINE part == SubSeq(s, from + 1, to)
<1>6. part \in Seq(Chars) /\ Len(part) = Len(w)
  BY <1>1, <1>5
<1>7. \A i \in 1..Len(w) : i \in 1..(to - (from + 1) + 1) /\ (from + 1) + i - 1 = from + i
  BY <1>1
<1>8. \A i \in 1..Len(w) : part[i] = w[i]
  BY <1>5, <1>7
<1> HIDE DEF part
<1>9. part = w
  BY <1>6, <1>8, SameSequence
<1> QED
  BY <1>3, <1>9 DEF part

(* What generateOrderCode writes, decodeOrderCode reads: also where the     *)
(* code begins with digits, which continue the customer's number.           *)
THEOREM DecodeInverts ==
  ASSUME OrderCodesAssumption,
         NEW u \in Numerals, NEW t \in Dates, NEW c \in RandomCodes
  PROVE  decodeOrderCode(generateOrderCode(u, t, c)) = [userId |-> u, code |-> c]
<1> DEFINE text == generateOrderCode(u, t, c)
          start == Len(Prefix) + TimeLength
          remaining == u \o c
<1>1. /\ Len(Prefix) \in Nat /\ TimeLength \in Nat /\ CodeLength \in Nat \ {0}
      /\ Len(u) \in Nat /\ Len(c) = CodeLength
      /\ c \in Seq(Chars) /\ u \in Seq(Digits) /\ u \in Seq(Chars)
      /\ t \in Seq(Chars) /\ Len(t) = TimeLength /\ Prefix \in Seq(Chars)
  BY DEF OrderCodesAssumption, RandomCodes, Numerals
<1>2. /\ text \in Seq(Chars)
      /\ Len(text) = start + Len(u) + Len(c)
      /\ \A i \in 1..Len(Prefix) : text[i] = Prefix[i]
      /\ \A i \in 1..TimeLength : text[Len(Prefix) + i] = t[i]
      /\ \A i \in 1..Len(u) : text[start + i] = u[i]
      /\ \A i \in 1..Len(c) : text[start + Len(u) + i] = c[i]
  <2>1. Composed(text, u, t, c)
    BY <1>1, Pieces
  <2> QED
    BY <2>1 DEF Composed
<1>3. /\ remaining \in Seq(Chars) /\ Len(remaining) = Len(u) + Len(c)
      /\ \A i \in 1..Len(u) : remaining[i] = u[i]
      /\ \A i \in 1..Len(c) : remaining[Len(u) + i] = c[i]
  BY <1>1, Halves, Zenon
<1> HIDE DEF text, remaining
<1>4. Slice(text, 0, Len(Prefix)) = Prefix
  <2>1. /\ 0 \in Nat /\ Len(Prefix) = 0 + Len(Prefix) /\ Len(Prefix) <= Len(text)
        /\ \A i \in 1..Len(Prefix) : text[0 + i] = Prefix[i]
    BY <1>1, <1>2
  <2> QED
    BY <2>1, <1>1, <1>2, SliceSpells, Zenon
<1>5. Slice(text, Len(Prefix), start) = t
  <2>1. /\ start \in Nat /\ start = Len(Prefix) + Len(t) /\ start <= Len(text)
        /\ \A i \in 1..Len(t) : text[Len(Prefix) + i] = t[i]
    BY <1>1, <1>2
  <2> HIDE DEF start
  <2> QED
    BY <2>1, <1>1, <1>2, SliceSpells, Zenon
<1>6. Slice(text, start, Len(text)) = remaining
  <2>1. ASSUME NEW i \in 1..Len(remaining)
        PROVE  text[start + i] = remaining[i]
    <3>1. CASE i \in 1..Len(u)
      BY <3>1, <1>2, <1>3
    <3>2. CASE i \notin 1..Len(u)
      <4> DEFINE j == i - Len(u)
      <4>1. j \in 1..Len(c) /\ i = Len(u) + j /\ start + i = start + Len(u) + j
        BY <3>2, <1>1, <1>3
      <4> HIDE DEF j
      <4> QED
        BY <4>1, <1>2, <1>3
    <3> QED
      BY <3>1, <3>2
  <2>2. /\ start \in Nat /\ Len(text) \in Nat
        /\ Len(text) = start + Len(remaining) /\ Len(text) <= Len(text)
    BY <1>1, <1>2, <1>3
  <2> HIDE DEF start
  <2> QED
    BY <2>1, <2>2, <1>2, <1>3, SliceSpells, Zenon
<1>7. SplitAt(remaining) = Len(u)
  BY <1>1, <1>3 DEF SplitAt
<1>8. Slice(remaining, 0, Len(u)) = u
  <2>1. /\ 0 \in Nat /\ Len(u) = 0 + Len(u) /\ Len(u) <= Len(remaining)
        /\ \A i \in 1..Len(u) : remaining[0 + i] = u[i]
    BY <1>1, <1>3
  <2> QED
    BY <2>1, <1>1, <1>3, SliceSpells, Zenon
<1>9. Slice(remaining, Len(u), Len(remaining)) = c
  <2>1. Len(u) \in Nat /\ Len(remaining) \in Nat /\ Len(remaining) <= Len(remaining)
    BY <1>1, <1>3
  <2> QED
    BY <2>1, <1>1, <1>3, SliceSpells, Zenon
<1>10. parseInt(u) = u /\ u # <<>> /\ c # <<>>
  BY <1>1, ParseNumeral DEF Numerals
<1> QED
  BY <1>4, <1>5, <1>6, <1>7, <1>8, <1>9, <1>10 DEF decodeOrderCode, text

\* What stands in s after place a, to place b.
Part(part, s, a, b) ==
    /\ part \in Seq(Chars)
    /\ Len(part) = IF a < b THEN b - a ELSE 0
    /\ \A i \in 1..(b - a) : part[i] = s[a + i]

LEMMA SliceWithin ==
  ASSUME NEW s \in Seq(Chars), NEW from \in Int, NEW to \in Int
  PROVE  Part(Slice(s, from, to), s, Index(s, from), Index(s, to))
<1> DEFINE a == Index(s, from)
          b == Index(s, to)
<1>1. a \in 0..Len(s) /\ b \in 0..Len(s)
  BY DEF Index
<1>2. Slice(s, from, to) = SubSeq(s, a + 1, b)
  BY DEF Slice
<1> HIDE DEF a, b
<1>3. /\ a + 1 \in Int /\ b \in Int
      /\ \A i \in (a + 1)..b : s[i] \in Chars
  BY <1>1
<1>4. /\ SubSeq(s, a + 1, b) \in Seq(Chars)
      /\ Len(SubSeq(s, a + 1, b)) = IF a + 1 <= b THEN b - (a + 1) + 1 ELSE 0
      /\ \A i \in 1..(b - (a + 1) + 1) : SubSeq(s, a + 1, b)[i] = s[(a + 1) + i - 1]
  BY <1>3, SubSeqProperties
<1>5. Part(SubSeq(s, a + 1, b), s, a, b)
  BY <1>1, <1>4 DEF Part
<1> QED
  BY <1>2, <1>5 DEF a, b

\* A text that was cut off and still names a customer and a code spells them.
CutOff(text, whole) ==
    /\ text \in Seq(Chars) /\ Len(text) <= Len(whole)
    /\ \A i \in 1..Len(text) : text[i] = whole[i]

LEMMA CutSpells ==
  ASSUME OrderCodesAssumption,
         NEW u \in Numerals, NEW t \in Dates, NEW c \in RandomCodes,
         NEW text, CutOff(text, generateOrderCode(u, t, c)),
         NEW v \in Numerals, NEW d \in RandomCodes,
         decodeOrderCode(text) = [userId |-> v, code |-> d]
  PROVE  text = generateOrderCode(v, t, d)
<1> DEFINE whole == generateOrderCode(u, t, c)
          start == Len(Prefix) + TimeLength
          remaining == Slice(text, start, Len(text))
          split == SplitAt(remaining)
          n == Slice(remaining, 0, split)
<1>1. /\ Len(Prefix) \in Nat /\ TimeLength \in Nat \ {0} /\ CodeLength \in Nat \ {0}
      /\ Len(u) \in Nat /\ Len(c) = CodeLength /\ Len(d) = CodeLength
      /\ c \in Seq(Chars) /\ d \in Seq(Chars)
      /\ u \in Seq(Digits) /\ u[1] # "0" /\ v # <<>> /\ v \in Seq(Chars)
      /\ Len(text) \in Nat /\ start \in Nat /\ start = Len(Prefix) + TimeLength
  BY DEF OrderCodesAssumption, RandomCodes, Numerals, CutOff
<1>0. /\ text \in Seq(Chars) /\ Len(text) <= Len(whole)
      /\ \A i \in 1..Len(text) : text[i] = whole[i]
  BY DEF CutOff
<1>2. /\ Len(whole) = start + Len(u) + CodeLength
      /\ \A i \in 1..Len(Prefix) : whole[i] = Prefix[i]
      /\ \A i \in 1..TimeLength : whole[Len(Prefix) + i] = t[i]
      /\ \A i \in 1..Len(u) : whole[start + i] = u[i]
  <2>1. Composed(whole, u, t, c)
    BY <1>1, Pieces
  <2> HIDE DEF whole
  <2> QED
    BY <2>1, <1>1 DEF Composed
<1> HIDE DEF whole, start, remaining, split, n
<1>3. /\ Slice(text, Len(Prefix), start) \in Dates
      /\ v = parseInt(n)
      /\ d = Slice(remaining, split, Len(remaining))
  BY <1>1 DEF decodeOrderCode, Refused, start, remaining, split, n
\* The text has its whole timestamp.
<1>4. start <= Len(text)
  <2>1. Len(Slice(text, Len(Prefix), start)) = TimeLength
    BY <1>1, <1>3 DEF OrderCodesAssumption
  <2>2. Part(Slice(text, Len(Prefix), start), text, Index(text, Len(Prefix)), Index(text, start))
    BY <1>0, <1>1, SliceWithin
  <2> QED
    <3>1. TimeLength = IF Index(text, Len(Prefix)) < Index(text, start)
                       THEN Index(text, start) - Index(text, Len(Prefix)) ELSE 0
      BY <2>1, <2>2 DEF Part
    <3>2. SUFFICES ASSUME Len(text) < start
                   PROVE  FALSE
      BY <1>1
    <3>3. /\ Index(text, start) = Len(text)
          /\ Index(text, Len(Prefix)) = IF Len(Prefix) > Len(text) THEN Len(text) ELSE Len(Prefix)
      BY <1>1, <3>2 DEF Index
    <3> QED
      BY <1>1, <3>1, <3>2, <3>3
<1>5. /\ remaining \in Seq(Chars) /\ Len(remaining) = Len(text) - start
      /\ \A i \in 1..Len(remaining) : remaining[i] = text[start + i]
  <2>1. Index(text, start) = start /\ Index(text, Len(text)) = Len(text)
    BY <1>1, <1>4 DEF Index
  <2>2. Part(remaining, text, Index(text, start), Index(text, Len(text)))
    BY <1>0, <1>1, SliceWithin DEF remaining
  <2> QED
    BY <2>1, <2>2, <1>1, <1>4 DEF Part
<1>6. split = Len(remaining) - CodeLength /\ split \in Int /\ Len(remaining) \in Nat
  BY <1>1, <1>5 DEF split, SplitAt
<1>7. Part(d, remaining, Index(remaining, split), Index(remaining, Len(remaining)))
  BY <1>3, <1>5, <1>6, SliceWithin
\* ... and a whole code.
<1>8. split \in Nat
  BY <1>1, <1>6, <1>7 DEF Index, Part
<1>9. Index(remaining, 0) = 0 /\ Index(remaining, split) = split
      /\ Index(remaining, Len(remaining)) = Len(remaining)
  BY <1>1, <1>6, <1>8 DEF Index
<1>10. /\ n \in Seq(Chars) /\ Len(n) = split
       /\ \A i \in 1..split : n[i] = text[start + i]
  <2>1. Part(n, remaining, Index(remaining, 0), Index(remaining, split))
    BY <1>5, <1>6, SliceWithin DEF n
  <2>2. /\ n \in Seq(Chars) /\ Len(n) = IF 0 < split THEN split - 0 ELSE 0
        /\ \A i \in 1..(split - 0) : n[i] = remaining[0 + i]
    BY <2>1, <1>9 DEF Part
  <2>3. /\ split - 0 = split
        /\ \A i \in 1..split : 0 + i = i /\ i \in 1..Len(remaining)
    BY <1>1, <1>6, <1>8
  <2> QED
    BY <2>2, <2>3, <1>5, <1>8
<1>11. \A i \in 1..CodeLength : d[i] = text[start + split + i]
  <2>1. \A i \in 1..(Len(remaining) - split) : d[i] = remaining[split + i]
    BY <1>7, <1>9 DEF Part
  <2>2. \A i \in 1..CodeLength : /\ i \in 1..(Len(remaining) - split)
                                 /\ split + i \in 1..Len(remaining)
                                 /\ start + (split + i) = start + split + i
    BY <1>1, <1>6, <1>8
  <2> QED
    BY <2>1, <2>2, <1>5
\* The number is a beginning of the customer's.
<1>12. \A i \in 1..split : n[i] = u[i] /\ i \in 1..Len(u)
  <2>1. Len(text) <= start + Len(u) + CodeLength
    BY <1>0, <1>2
  <2>2. \A i \in 1..split : i \in 1..Len(u) /\ start + i \in 1..Len(text)
    BY <2>1, <1>1, <1>4, <1>5, <1>6, <1>8
  <2> QED
    BY <2>2, <1>0, <1>2, <1>10
<1>13. v = n
  <2>1. n \in Seq(Digits)
    <3>1. \A i \in 1..Len(u) : u[i] \in Digits
      BY <1>1
    <3>2. \A i \in 1..Len(n) : n[i] \in Digits
      BY <3>1, <1>10, <1>12
    <3> QED
      BY <3>2, <1>10
  <2>2. n # <<>> => n[1] # "0"
    BY <1>1, <1>8, <1>10, <1>12
  <2> QED
    BY <2>1, <2>2, <1>3, ParseNumeral
<1> DEFINE spelt == generateOrderCode(v, t, d)
<1>14. /\ spelt \in Seq(Chars)
       /\ Len(spelt) = start + split + CodeLength
       /\ \A i \in 1..Len(Prefix) : spelt[i] = Prefix[i]
       /\ \A i \in 1..TimeLength : spelt[Len(Prefix) + i] = t[i]
       /\ \A i \in 1..split : spelt[start + i] = n[i]
       /\ \A i \in 1..CodeLength : spelt[start + split + i] = d[i]
  <2>1. Composed(spelt, v, t, d)
    BY <1>1, Pieces
  <2> HIDE DEF spelt
  <2> QED
    BY <2>1, <1>1, <1>10, <1>13 DEF Composed
<1> HIDE DEF spelt
<1>15. ASSUME NEW i \in 1..Len(text)
       PROVE  text[i] = spelt[i]
  <2>1. text[i] = whole[i]
    BY <1>0
  <2>2. CASE i <= Len(Prefix)
    BY <2>1, <2>2, <1>1, <1>2, <1>14
  <2>3. CASE Len(Prefix) < i /\ i <= start
    <3> DEFINE j == i - Len(Prefix)
    <3>1. j \in 1..TimeLength /\ i = Len(Prefix) + j
      BY <2>3, <1>1
    <3> HIDE DEF j
    <3> QED
      BY <3>1, <2>1, <1>2, <1>14
  <2>4. CASE start < i /\ i <= start + split
    <3> DEFINE j == i - start
    <3>1. j \in 1..split /\ i = start + j
      BY <2>4, <1>1, <1>8
    <3> HIDE DEF j
    <3> QED
      BY <3>1, <1>10, <1>14
  <2>5. CASE start + split < i
    <3> DEFINE j == i - (start + split)
    <3>1. j \in 1..CodeLength /\ i = start + split + j
      BY <2>5, <1>1, <1>5, <1>6, <1>8
    <3> HIDE DEF j
    <3> QED
      BY <3>1, <1>11, <1>14
  <2> QED
    BY <2>2, <2>3, <2>4, <2>5, <1>1, <1>8
<1>16. Len(text) = Len(spelt)
  BY <1>1, <1>5, <1>6, <1>14
<1> QED
  BY <1>0, <1>14, <1>15, <1>16, SameSequence DEF spelt
-----------------------------------------------------------------------------
\* A text always stands for the order whose row it is in.
InfoNamesOrder ==
    \A o \in Orders : info[o] # <<>> =>
        /\ o \in BankingOrders /\ o \in ToSet(placed)
        /\ \E t \in Dates : info[o] = generateOrderCode(UserOf[o], t, code[o])

TransferInvariant ==
    /\ placed \in Seq(Orders)
    /\ DOMAIN code = Orders /\ DOMAIN info = Orders
    /\ \A o \in ToSet(placed) : code[o] \in Codes
    /\ InfoNamesOrder
    /\ TransferPaysItsOrder

LEMMA PlacedThen ==
  ASSUME NEW s \in Seq(Orders), NEW o \in Orders
  PROVE  Append(s, o) \in Seq(Orders) /\ ToSet(Append(s, o)) = ToSet(s) \cup {o}
  BY AppendProperties DEF ToSet

LEMMA NoTransferPays ==
  ASSUME transfer = NoTransfer
  PROVE  TransferPaysItsOrder
  BY DEF TransferPaysItsOrder, NoTransfer

\* A transfer of text to the orders that it names.
TransferOf(text, paid, o, lost) ==
    /\ lost < Len(info[o]) /\ info[o] # <<>>
    /\ text = Slice(info[o], 0, Len(info[o]) - lost)
    /\ \/ Found(decodeOrderCode(text)) = {} /\ paid = {}
       \/ \E p \in Found(decodeOrderCode(text)) : paid = {p}

PaysRightly(text, paid) ==
    /\ \A x \in Orders : text = info[x] /\ info[x] # <<>> =>
          \E p \in paid : UserOf[p] = UserOf[x] /\ code[p] = code[x]
    /\ \A p \in paid : \E t \in Dates : text = generateOrderCode(UserOf[p], t, code[p])

LEMMA DeliveredPays ==
  ASSUME OrderListAssumption, TransferInvariant,
         NEW o \in Orders, NEW lost \in Nat, NEW text, NEW paid,
         TransferOf(text, paid, o, lost)
  PROVE  PaysRightly(text, paid)
<1>0. /\ lost < Len(info[o]) /\ info[o] # <<>>
      /\ text = Slice(info[o], 0, Len(info[o]) - lost)
      /\ \/ Found(decodeOrderCode(text)) = {} /\ paid = {}
         \/ \E p \in Found(decodeOrderCode(text)) : paid = {p}
  BY DEF TransferOf
<1> DEFINE name == decodeOrderCode(text)
<1>1. /\ OrderCodesAssumption
      /\ \A x \in Orders : UserOf[x] \in Numerals
      /\ \A c \in Codes : c \in RandomCodes /\ c \in Seq(Chars)
      /\ ToSet(placed) \subseteq Orders
  BY DEF OrderListAssumption, TransferInvariant, RandomCodes, ToSet
<1>2. ASSUME NEW x \in Orders, text = info[x], info[x] # <<>>
      PROVE  \E p \in paid : UserOf[p] = UserOf[x] /\ code[p] = code[x]
  <2>1. PICK t \in Dates : info[x] = generateOrderCode(UserOf[x], t, code[x])
    BY <1>2 DEF TransferInvariant, InfoNamesOrder
  <2>2. x \in ToSet(placed) /\ code[x] \in Codes
    BY <1>2 DEF TransferInvariant, InfoNamesOrder
  <2>3. name = [userId |-> UserOf[x], code |-> code[x]]
    BY <1>1, <1>2, <2>1, <2>2, DecodeInverts
  <2>4. name.userId = UserOf[x] /\ name.code = code[x]
    BY <2>3
  <2>5. x \in Found(name)
    BY <2>2, <2>4 DEF Found
  <2>6. PICK p \in Found(name) : paid = {p}
    BY <1>0, <2>5
  <2> QED
    BY <2>4, <2>6 DEF Found
<1>3. ASSUME NEW p \in paid
      PROVE  \E t \in Dates : text = generateOrderCode(UserOf[p], t, code[p])
  <2>1. p \in Found(name)
    BY <1>0, <1>3
  <2>2. /\ p \in Orders /\ code[p] \in Codes
        /\ name.userId = UserOf[p] /\ name.code = code[p]
    BY <2>1, <1>1 DEF Found, TransferInvariant
  <2>3. name = [userId |-> UserOf[p], code |-> code[p]]
    <3>1. name = [userId |-> name.userId, code |-> name.code]
      BY DEF decodeOrderCode, Refused
    <3> QED
      BY <3>1, <2>2
  <2>4. PICK t \in Dates : info[o] = generateOrderCode(UserOf[o], t, code[o])
    BY <1>0 DEF TransferInvariant, InfoNamesOrder
  <2>5. code[o] \in Codes
    BY <1>0 DEF TransferInvariant, InfoNamesOrder
  <2> DEFINE whole == generateOrderCode(UserOf[o], t, code[o])
             end == Len(info[o]) - lost
  <2>6. Composed(whole, UserOf[o], t, code[o])
    BY <1>1, <2>5, Pieces
  <2>7. info[o] \in Seq(Chars)
    BY <2>4, <2>6 DEF Composed
  <2>8. 0 \in Int /\ end \in Int
    BY <2>7
  <2>9. Part(text, info[o], Index(info[o], 0), Index(info[o], end))
    BY <1>0, <2>7, <2>8, SliceWithin
  <2>10. Index(info[o], 0) = 0 /\ Index(info[o], end) = end /\ 0 < end /\ end <= Len(info[o])
    BY <1>0, <2>7 DEF Index
  <2>11. /\ text \in Seq(Chars) /\ Len(text) = end - 0
         /\ \A i \in 1..(end - 0) : text[i] = info[o][0 + i]
    BY <2>9, <2>10 DEF Part
  <2>12. Len(text) <= Len(info[o]) /\ \A i \in 1..Len(text) : text[i] = info[o][i]
    BY <2>8, <2>10, <2>11
  <2>13. text = generateOrderCode(UserOf[p], t, code[p])
    <3>1. UserOf[o] \in Numerals /\ UserOf[p] \in Numerals /\ code[o] \in RandomCodes /\ code[p] \in RandomCodes
      BY <1>1, <2>2, <2>5
    <3>2. CutOff(text, generateOrderCode(UserOf[o], t, code[o]))
      BY <2>4, <2>11, <2>12 DEF CutOff
    <3> QED
      BY <1>1, <2>3, <3>1, <3>2, CutSpells
  <2> QED
    BY <2>13
<1> QED
  BY <1>2, <1>3 DEF PaysRightly

(* A transfer with an order's text pays that order, or one of the same      *)
(* customer with the same code, and a text that was cut off anywhere pays   *)
(* only an order whose customer and code it spells: for all customers,      *)
(* codes and orders, and however their handlers follow one another.         *)
THEOREM TransfersPayTheirOrders ==
  ASSUME OrderListAssumption
  PROVE  OrderListSpec => []TransferPaysItsOrder
<1>1. OrderListInit => TransferInvariant
  BY NoTransferPays DEF OrderListInit, TransferInvariant, InfoNamesOrder, ToSet
<1>2. TransferInvariant /\ [OrderListNext]_listVars => TransferInvariant'
  <2> SUFFICES ASSUME TransferInvariant, [OrderListNext]_listVars
               PROVE  TransferInvariant'
    OBVIOUS
  <2>1. ASSUME NEW o \in Orders, PlaceOrder(o)
        PROVE  TransferInvariant'
    <3>1. TransferPaysItsOrder'
      BY <2>1, NoTransferPays DEF PlaceOrder, TransferPaysItsOrder, NoTransfer
    <3>2. PICK c \in Codes, t \in Dates :
              /\ code' = [code EXCEPT ![o] = c]
              /\ info' = IF o \in BankingOrders
                         THEN [info EXCEPT ![o] = generateOrderCode(UserOf[o], t, c)] ELSE info
      BY <2>1 DEF PlaceOrder
    <3>3. placed' \in Seq(Orders) /\ ToSet(placed') = ToSet(placed) \cup {o}
      BY <2>1, PlacedThen DEF PlaceOrder, TransferInvariant
    <3>4. DOMAIN code' = Orders /\ DOMAIN info' = Orders
      BY <3>2 DEF TransferInvariant
    <3>5. \A x \in ToSet(placed') : code'[x] \in Codes
      BY <3>2, <3>3 DEF TransferInvariant
    <3>6. InfoNamesOrder'
      <4> SUFFICES ASSUME NEW x \in Orders, info'[x] # <<>>
                   PROVE  /\ x \in BankingOrders /\ x \in ToSet(placed')
                          /\ \E d \in Dates : info'[x] = generateOrderCode(UserOf[x], d, code'[x])
        BY DEF InfoNamesOrder
      <4>1. CASE x = o /\ o \in BankingOrders
        BY <4>1, <3>2, <3>3 DEF TransferInvariant
      <4>2. CASE x = o /\ o \notin BankingOrders
        BY <4>2, <3>2 DEF TransferInvariant, InfoNamesOrder
      <4>3. CASE x # o
        <5>1. info'[x] = info[x] /\ code'[x] = code[x]
          BY <4>3, <3>2 DEF TransferInvariant
        <5> QED
          BY <5>1, <3>3 DEF TransferInvariant, InfoNamesOrder
      <4> QED
        BY <4>1, <4>2, <4>3
    <3> QED
      BY <3>1, <3>3, <3>4, <3>5, <3>6 DEF TransferInvariant
  <2>2. ASSUME NEW o \in Orders, CancelOrder(o) \/ UpdateOrder(o)
        PROVE  TransferInvariant'
    <3>1. transfer' = NoTransfer /\ UNCHANGED <<placed, code, info>>
      BY <2>2 DEF CancelOrder, UpdateOrder
    <3>2. TransferPaysItsOrder'
      BY <3>1 DEF TransferPaysItsOrder, NoTransfer
    <3> QED
      BY <3>1, <3>2 DEF TransferInvariant, InfoNamesOrder
  <2>3. ASSUME NEW o \in Orders, DeliverTransfer(o)
        PROVE  TransferInvariant'
    <3>1. PICK lost \in 0..MaxCut :
              LET text == Slice(info[o], 0, Len(info[o]) - lost)
              IN /\ info[o] # <<>> /\ lost < Len(info[o])
                 /\ \/ /\ Found(decodeOrderCode(text)) = {}
                       /\ transfer' = [text |-> text, paid |-> {}]
                    \/ \E p \in Found(decodeOrderCode(text)) : transfer' = [text |-> text, paid |-> {p}]
                 /\ UNCHANGED <<placed, code, info>>
      BY <2>3 DEF DeliverTransfer
    <3> DEFINE text == Slice(info[o], 0, Len(info[o]) - lost)
               paid == transfer'.paid
    <3>2. lost \in Nat
      BY DEF OrderListAssumption
    <3>3. /\ transfer'.text = text
          /\ \/ Found(decodeOrderCode(text)) = {} /\ paid = {}
             \/ \E p \in Found(decodeOrderCode(text)) : paid = {p}
      BY <3>1
    <3>4. PaysRightly(text, paid)
      <4>1. TransferOf(text, paid, o, lost)
        BY <3>1, <3>3 DEF TransferOf
      <4> HIDE DEF paid, text
      <4> QED
        BY <4>1, <3>2, DeliveredPays
    <3>5. TransferPaysItsOrder'
      BY <3>1, <3>3, <3>4 DEF TransferPaysItsOrder, PaysRightly
    <3> QED
      BY <3>1, <3>5 DEF TransferInvariant, InfoNamesOrder
  <2>4. ASSUME UNCHANGED ordersVars
        PROVE  TransferInvariant'
    BY <2>4 DEF ordersVars, TransferInvariant, InfoNamesOrder, TransferPaysItsOrder
  <2>5. CASE UNCHANGED listVars
    BY <2>4, <2>5 DEF listVars
  <2>6. ASSUME NEW of \in Readers, BeginReading(of)
        PROVE  TransferInvariant'
    BY <2>4, <2>6 DEF BeginReading
  <2>7. CASE ReadPage \/ CountRows \/ FollowHeader \/ EndReading
    BY <2>4, <2>7 DEF ReadPage, CountRows, FollowHeader, EndReading
  <2> QED
    BY <2>1, <2>2, <2>3, <2>5, <2>6, <2>7 DEF OrderListNext
<1>3. TransferInvariant => TransferPaysItsOrder
  BY DEF TransferInvariant
<1> QED
  BY <1>1, <1>2, <1>3, PTL DEF OrderListSpec

-----------------------------------------------------------------------------
(* The lists that are read page by page *)

\* A set of naturals that is closed under the successor, in the way of an induction.
LEMMA AllNaturals ==
  ASSUME NEW S \in SUBSET Nat, 0 \in S, \A n \in S : n + 1 \in S
  PROVE  S = Nat
<1> SUFFICES ASSUME Nat \ S # {} PROVE FALSE
  OBVIOUS
<1> DEFINE Less == {p \in Nat \X Nat : p[1] < p[2]}
<1>1. PICK n \in Nat \ S : \A m \in Nat \ S : ~(m < n)
  <2>1. IsWellFoundedOn(Less, Nat)
    BY NatLessThanWellFounded DEF OpToRel
  <2>2. PICK n \in Nat \ S : \A m \in Nat \ S : ~(<<m, n>> \in Less)
    <3> HIDE DEF Less
    <3>1. Nat \ S \subseteq Nat
      OBVIOUS
    <3> QED
      BY <2>1, <3>1, WFMin, Zenon
  <2>3. \A m, k \in Nat : m < k => <<m, k>> \in Less
    <3> SUFFICES ASSUME NEW m \in Nat, NEW k \in Nat, m < k
                 PROVE  <<m, k>> \in Less
      OBVIOUS
    <3>1. <<m, k>> \in Nat \X Nat /\ <<m, k>>[1] = m /\ <<m, k>>[2] = k
      OBVIOUS
    <3> QED
      BY <3>1, Zenon
  <2> QED
    BY <2>2, <2>3, Zenon
<1>2. n # 0 /\ n - 1 \in Nat
  BY <1>1
<1>3. n - 1 \in S
  BY <1>1, <1>2
<1> QED
  BY <1>1, <1>2, <1>3

\* f is the recursive function that a list stands for: the members of T in q, the last first.
IsList(f, q, T) ==
    f = [n \in 0..Len(q) |-> IF n = 0 THEN <<>>
                             ELSE IF q[n] \in T THEN <<q[n]>> \o f[n - 1] ELSE f[n - 1]]
ListOf(q, T) == (CHOOSE f : IsList(f, q, T))[Len(q)]

LEMMA ListExists ==
  ASSUME NEW q \in Seq(Orders), NEW T
  PROVE  \E f : IsList(f, q, T)
<1> DEFINE Step(f, n) == IF n = 0 THEN <<>> ELSE IF q[n] \in T THEN <<q[n]>> \o f[n - 1] ELSE f[n - 1]
           N == {n \in Nat : \E f : f = [k \in 0..n |-> Step(f, k)]}
<1>1. 0 \in N
  <2>1. [k \in 0..0 |-> <<>>] = [k \in 0..0 |-> Step([i \in 0..0 |-> <<>>], k)]
    OBVIOUS
  <2> QED
    BY <2>1
<1>2. ASSUME NEW n \in N PROVE n + 1 \in N
  <2>1. PICK f : f = [k \in 0..n |-> Step(f, k)]
    OBVIOUS
  <2> DEFINE g == [k \in 0..(n + 1) |-> IF k = n + 1 THEN Step(f, n + 1) ELSE f[k]]
  <2>2. \A k \in 0..n : f[k] = Step(f, k)
    <3> HIDE DEF Step
    <3> QED
      BY <2>1
  <2>3. ASSUME NEW k \in 0..(n + 1) PROVE g[k] = Step(g, k)
    <3>1. k # 0 => k - 1 \in 0..n /\ k - 1 \in 0..(n + 1) /\ k - 1 # n + 1
      OBVIOUS
    <3>2. k # 0 => g[k - 1] = f[k - 1]
      BY <3>1
    <3>3. g[k] = Step(f, k)
      <4>1. CASE k = n + 1
        BY <4>1
      <4>2. CASE k # n + 1
        <5>1. k \in 0..n
          BY <4>2
        <5>2. g[k] = f[k]
          BY <4>2
        <5> HIDE DEF g, Step
        <5> QED
          BY <5>1, <5>2, <2>2
      <4> QED
        BY <4>1, <4>2
    <3> HIDE DEF g
    <3> QED
      BY <3>2, <3>3
  <2>4. g = [k \in 0..(n + 1) |-> g[k]]
    OBVIOUS
  <2>5. g = [k \in 0..(n + 1) |-> Step(g, k)]
    <3> HIDE DEF g, Step
    <3> QED
      BY <2>3, <2>4
  <2>6. n + 1 \in Nat
    OBVIOUS
  <2> HIDE DEF g, Step
  <2> QED
    BY <2>5, <2>6
<1>3. N \subseteq Nat
  OBVIOUS
<1>4. N = Nat
  <2> HIDE DEF N
  <2> QED
    BY <1>1, <1>2, <1>3, AllNaturals
<1>5. Len(q) \in N
  <2>1. Len(q) \in Nat
    OBVIOUS
  <2> HIDE DEF N
  <2> QED
    BY <1>4, <2>1
<1> QED
  BY <1>5 DEF IsList

\* r has elements of q, each once, and the later one of q first.
LastFirst(r, q) ==
    /\ r \in Seq(Orders)
    /\ \A i \in DOMAIN r : \E a \in DOMAIN q : r[i] = q[a]
    /\ \A i, j \in DOMAIN r : \A a, b \in DOMAIN q :
          i < j /\ r[i] = q[a] /\ r[j] = q[b] => b < a

Distinct(q) == \A a, b \in DOMAIN q : q[a] = q[b] => a = b

LEMMA ListLastFirst ==
  ASSUME NEW q \in Seq(Orders), Distinct(q), NEW T
  PROVE  /\ LastFirst(ListOf(q, T), q)
         /\ ToSet(ListOf(q, T)) = ToSet(q) \cap T
<1>1. PICK f : f = (CHOOSE h : IsList(h, q, T))
  OBVIOUS
<1>2. IsList(f, q, T)
  BY <1>1, ListExists
<1> DEFINE Good(n) ==
      n \in 0..Len(q) =>
        /\ f[n] \in Seq(Orders)
        /\ \A i \in DOMAIN f[n] : \E a \in 1..n : f[n][i] = q[a] /\ q[a] \in T
        /\ \A a \in 1..n : q[a] \in T => \E i \in DOMAIN f[n] : f[n][i] = q[a]
        /\ \A i, j \in DOMAIN f[n] : \A a, b \in 1..n :
              i < j /\ f[n][i] = q[a] /\ f[n][j] = q[b] => b < a
           N == {n \in Nat : Good(n)}
<1>3. f[0] = <<>> /\ \A n \in 1..Len(q) : f[n] = IF q[n] \in T THEN <<q[n]>> \o f[n - 1] ELSE f[n - 1]
  <2>1. \A n \in 0..Len(q) : f[n] = IF n = 0 THEN <<>> ELSE IF q[n] \in T THEN <<q[n]>> \o f[n - 1] ELSE f[n - 1]
    BY <1>2 DEF IsList
  <2>2. 0 \in 0..Len(q) /\ \A n \in 1..Len(q) : n \in 0..Len(q) /\ n # 0
    OBVIOUS
  <2> QED
    BY <2>1, <2>2
<1>4. 0 \in N
  <2>1. f[0] \in Seq(Orders) /\ DOMAIN f[0] = {} /\ 1..0 = {}
    BY <1>3
  <2> QED
    BY <2>1
<1>5. ASSUME NEW n \in N PROVE n + 1 \in N
  <2> SUFFICES ASSUME n + 1 \in 0..Len(q)
               PROVE  /\ f[n + 1] \in Seq(Orders)
                      /\ \A i \in DOMAIN f[n + 1] : \E a \in 1..(n + 1) : f[n + 1][i] = q[a] /\ q[a] \in T
                      /\ \A a \in 1..(n + 1) : q[a] \in T => \E i \in DOMAIN f[n + 1] : f[n + 1][i] = q[a]
                      /\ \A i, j \in DOMAIN f[n + 1] : \A a, b \in 1..(n + 1) :
                            i < j /\ f[n + 1][i] = q[a] /\ f[n + 1][j] = q[b] => b < a
    OBVIOUS
  <2>1. n \in Nat /\ n + 1 \in 1..Len(q) /\ (n + 1) - 1 = n /\ n \in 0..Len(q)
    OBVIOUS
  <2> DEFINE r == f[n]
             x == q[n + 1]
  <2>2. f[n + 1] = IF x \in T THEN <<x>> \o r ELSE r
    BY <1>3, <2>1
  <2>3. /\ r \in Seq(Orders) /\ x \in Orders
        /\ \A i \in DOMAIN r : \E a \in 1..n : r[i] = q[a] /\ q[a] \in T
        /\ \A a \in 1..n : q[a] \in T => \E i \in DOMAIN r : r[i] = q[a]
        /\ \A i, j \in DOMAIN r : \A a, b \in 1..n :
              i < j /\ r[i] = q[a] /\ r[j] = q[b] => b < a
    BY <2>1
  <2>4. \A a, b \in 1..Len(q) : q[a] = q[b] => a = b
    BY DEF Distinct
  <2> HIDE DEF r, Good, N
  <2>5. CASE x \notin T
    <3>1. f[n + 1] = r
      BY <2>2, <2>5
    <3>2. \A i \in DOMAIN r : r[i] # x
      BY <2>1, <2>3, <2>5
    <3>3. \A i \in DOMAIN r : \E a \in 1..(n + 1) : r[i] = q[a] /\ q[a] \in T
      BY <2>3, <2>1
    <3>4. \A a \in 1..(n + 1) : q[a] \in T => \E i \in DOMAIN r : r[i] = q[a]
      <4>1. ASSUME NEW a \in 1..(n + 1), q[a] \in T PROVE a \in 1..n
        BY <4>1, <2>1, <2>5
      <4> QED
        BY <4>1, <2>3
    <3>5. \A i, j \in DOMAIN r : \A a, b \in 1..(n + 1) :
            i < j /\ r[i] = q[a] /\ r[j] = q[b] => b < a
      <4>1. ASSUME NEW i \in DOMAIN r, NEW a \in 1..(n + 1), r[i] = q[a] PROVE a \in 1..n
        BY <4>1, <3>2, <2>1
      <4> QED
        BY <4>1, <2>3
    <3> QED
      BY <3>1, <2>3, <3>3, <3>4, <3>5
  <2>6. CASE x \in T
    <3> DEFINE s == <<x>> \o r
    <3>1. /\ s \in Seq(Orders) /\ Len(s) = Len(r) + 1 /\ DOMAIN s = 1..(Len(r) + 1)
          /\ s[1] = x /\ \A i \in DOMAIN r : i + 1 \in DOMAIN s /\ s[i + 1] = r[i]
      BY <2>3
    <3>2. \A i \in DOMAIN s : i # 1 => i - 1 \in DOMAIN r /\ s[i] = r[i - 1]
      BY <2>3, <3>1
    <3> HIDE DEF s, x
    <3>3. \A i \in DOMAIN s : \E a \in 1..(n + 1) : s[i] = q[a] /\ q[a] \in T
      <4> TAKE i \in DOMAIN s
      <4>1. CASE i = 1
        BY <4>1, <3>1, <2>1, <2>6 DEF x
      <4>2. CASE i # 1
        <5>1. PICK a \in 1..n : r[i - 1] = q[a] /\ q[a] \in T
          BY <4>2, <3>2, <2>3
        <5> QED
          BY <5>1, <4>2, <3>2, <2>1
      <4> QED
        BY <4>1, <4>2
    <3>4. \A a \in 1..(n + 1) : q[a] \in T => \E i \in DOMAIN s : s[i] = q[a]
      <4> SUFFICES ASSUME NEW a \in 1..(n + 1), q[a] \in T PROVE \E i \in DOMAIN s : s[i] = q[a]
        OBVIOUS
      <4>1. CASE a = n + 1
        <5>1. 1 \in DOMAIN s
          BY <3>1, <2>3
        <5> QED
          BY <4>1, <5>1, <3>1 DEF x
      <4>2. CASE a # n + 1
        <5>1. a \in 1..n
          BY <4>2, <2>1
        <5>2. PICK i \in DOMAIN r : r[i] = q[a]
          BY <5>1, <2>3, <4>2
        <5> QED
          BY <5>2, <3>1
      <4> QED
        BY <4>1, <4>2
    <3>5. ASSUME NEW i \in DOMAIN s, NEW j \in DOMAIN s, NEW a \in 1..(n + 1), NEW b \in 1..(n + 1),
                 i < j, s[i] = q[a], s[j] = q[b]
          PROVE  b < a
      <4>1. j - 1 \in DOMAIN r /\ s[j] = r[j - 1]
        BY <3>1, <3>2, <3>5, <2>3
      <4>2. PICK c \in 1..n : r[j - 1] = q[c]
        BY <4>1, <2>3
      <4>3. b = c
        BY <4>1, <4>2, <3>5, <2>1, <2>4
      <4>4. CASE i = 1
        <5>1. a = n + 1
          BY <4>4, <3>1, <3>5, <2>1, <2>4 DEF x
        <5> QED
          BY <5>1, <4>2, <4>3, <2>1
      <4>5. CASE i # 1
        <5>1. i - 1 \in DOMAIN r /\ s[i] = r[i - 1]
          BY <4>5, <3>2
        <5>2. PICK d \in 1..n : r[i - 1] = q[d]
          BY <5>1, <2>3
        <5>3. a = d
          BY <5>1, <5>2, <3>5, <2>1, <2>4
        <5>4. i - 1 < j - 1
          BY <3>1, <3>5, <2>3
        <5> QED
          BY <5>1, <5>2, <5>3, <5>4, <4>1, <4>2, <4>3, <2>3
      <4> QED
        BY <4>4, <4>5
    <3>6. f[n + 1] = s
      BY <2>2, <2>6 DEF s
    <3> QED
      BY <3>1, <3>3, <3>4, <3>5, <3>6
  <2> QED
    BY <2>5, <2>6
<1>6. N = Nat
  <2>1. N \subseteq Nat
    BY DEF N
  <2> HIDE DEF N
  <2> QED
    BY <1>4, <1>5, <2>1, AllNaturals
<1>7. Good(Len(q))
  <2> HIDE DEF Good
  <2> QED
    BY <1>6
<1>8. ListOf(q, T) = f[Len(q)]
  BY <1>1 DEF ListOf
<1>9. DOMAIN q = 1..Len(q) /\ Len(q) \in 0..Len(q)
  OBVIOUS
<1> DEFINE r == f[Len(q)]
<1>10. /\ r \in Seq(Orders)
       /\ \A i \in DOMAIN r : \E a \in DOMAIN q : r[i] = q[a] /\ q[a] \in T
       /\ \A a \in DOMAIN q : q[a] \in T => \E i \in DOMAIN r : r[i] = q[a]
       /\ \A i, j \in DOMAIN r : \A a, b \in DOMAIN q :
             i < j /\ r[i] = q[a] /\ r[j] = q[b] => b < a
  BY <1>7, <1>9
<1> HIDE DEF r, Good
<1>11. LastFirst(r, q)
  BY <1>10 DEF LastFirst
<1>12. ToSet(r) = ToSet(q) \cap T
  BY <1>10 DEF ToSet
<1> QED
  BY <1>8, <1>11, <1>12 DEF r

\* The first n of r differ, and are among the first m of s.
OnceAmong(r, n, s, m) ==
    /\ n \in Nat /\ m \in Nat
    /\ \A k \in 1..n : \E i \in 1..m : s[i] = r[k]
    /\ \A k, l \in 1..n : r[k] = r[l] => k = l

LEMMA FewerPlaces ==
  ASSUME NEW r, NEW s, NEW n, NEW m, OnceAmong(r, n, s, m)
  PROVE  n <= m
<1> USE DEF OnceAmong
<1> DEFINE f == [k \in 1..n |-> CHOOSE i \in 1..m : s[i] = r[k]]
<1>1. \A k \in 1..n : f[k] \in 1..m /\ s[f[k]] = r[k]
  OBVIOUS
<1>2. f \in Injection(1..n, 1..m)
  <2>1. f \in [1..n -> 1..m]
    BY <1>1
  <2>2. DOMAIN f = 1..n
    OBVIOUS
  <2> HIDE DEF f
  <2>3. ASSUME NEW k \in DOMAIN f, NEW l \in DOMAIN f, f[k] = f[l] PROVE k = l
    <3>1. k \in 1..n /\ l \in 1..n /\ s[f[k]] = r[k] /\ s[f[l]] = r[l]
      BY <1>1, <2>2, Zenon
    <3>2. r[k] = r[l]
      BY <2>3, <3>1, Zenon
    <3> QED
      BY <3>1, <3>2, Zenon
  <2> QED
    BY <2>1, <2>3 DEF Injection, IsInjective
<1>3. IsFiniteSet(1..m) /\ Cardinality(1..m) = m /\ Cardinality(1..n) = n
  BY FS_Interval
<1> HIDE DEF f
<1> QED
  BY <1>2, <1>3, FS_Injection

\* What is listed once.
LEMMA ListedOnce ==
  ASSUME NEW r, NEW q, LastFirst(r, q)
  PROVE  Distinct(r)
<1> SUFFICES ASSUME NEW i \in DOMAIN r, NEW j \in DOMAIN r, r[i] = r[j], i < j PROVE FALSE
  BY DEF Distinct, LastFirst
<1>1. PICK a \in DOMAIN q : r[i] = q[a]
  BY DEF LastFirst
<1>2. PICK b \in DOMAIN q : r[i] = q[b] /\ r[j] = q[b]
  BY <1>1
<1> QED
  BY <1>2 DEF LastFirst

(* A list to which more orders belong by now, and of which none was lost,   *)
(* is longer and has each order as far from its top, or farther.            *)
LEMMA PlacesMoveDown ==
  ASSUME NEW q \in Seq(Orders), NEW p \in Seq(Orders), Distinct(p),
         Len(q) <= Len(p), \A a \in 1..Len(q) : p[a] = q[a],
         NEW r, LastFirst(r, q), NEW s, LastFirst(s, p), ToSet(r) \subseteq ToSet(s)
  PROVE  /\ Len(r) <= Len(s)
         /\ \A i \in DOMAIN r, j \in DOMAIN s : r[i] = s[j] => i <= j
<1>1. /\ r \in Seq(Orders) /\ s \in Seq(Orders)
      /\ DOMAIN r = 1..Len(r) /\ DOMAIN s = 1..Len(s) /\ Len(r) \in Nat /\ Len(s) \in Nat
  BY DEF LastFirst
<1>2. \A k \in DOMAIN r : \E m \in DOMAIN s : s[m] = r[k]
  BY DEF ToSet
<1>3. \A k, l \in DOMAIN r : r[k] = r[l] => k = l
  BY ListedOnce DEF Distinct
<1>4. Len(r) <= Len(s)
  <2>1. \A k \in 1..Len(r) : \E m \in 1..Len(s) : s[m] = r[k]
    BY <1>1, <1>2, Zenon
  <2>2. \A k, l \in 1..Len(r) : r[k] = r[l] => k = l
    BY <1>1, <1>3, Zenon
  <2>3. Len(r) \in Nat /\ Len(s) \in Nat
    BY <1>1
  <2> QED
    <3>1. OnceAmong(r, Len(r), s, Len(s))
      BY <2>1, <2>2, <2>3, Zenon DEF OnceAmong
    <3> QED
      BY <3>1, FewerPlaces
<1>5. ASSUME NEW i \in DOMAIN r, NEW j \in DOMAIN s, r[i] = s[j] PROVE i <= j
  <2>1. ASSUME NEW k \in 1..i PROVE \E m \in 1..j : s[m] = r[k]
    <3>1. k \in DOMAIN r /\ k <= i
      BY <1>1
    <3>2. PICK m \in DOMAIN s : s[m] = r[k]
      BY <1>2, <3>1
    <3>3. ASSUME j < m PROVE FALSE
      <4>1. PICK a \in DOMAIN q : r[i] = q[a]
        BY DEF LastFirst
      <4>2. PICK b \in DOMAIN q : r[k] = q[b]
        BY <3>1 DEF LastFirst
      <4>3. a \in DOMAIN p /\ p[a] = q[a] /\ b \in DOMAIN p /\ p[b] = q[b]
        OBVIOUS
      <4>4. b < a
        BY <4>1, <4>2, <4>3, <3>2, <3>3, <1>5 DEF LastFirst
      <4>5. k # i
        <5>1. \A x, y \in DOMAIN s : s[x] = s[y] => x = y
          BY ListedOnce DEF Distinct
        <5>2. m # j
          BY <3>3, <1>1
        <5> QED
          BY <5>1, <5>2, <3>2, <1>5, Zenon
      <4>6. k < i
        BY <3>1, <4>5, <1>1
      <4>7. a < b
        BY <4>1, <4>2, <4>6, <3>1 DEF LastFirst
      <4> QED
        BY <4>4, <4>7
    <3> QED
      BY <3>2, <3>3, <1>1
  <2>2. \A k, l \in 1..i : r[k] = r[l] => k = l
    <3>1. \A k \in 1..i : k \in DOMAIN r
      BY <1>1
    <3> QED
      BY <3>1, <1>3, Zenon
  <2>3. i \in Nat /\ j \in Nat
    BY <1>1
  <2> QED
    BY <2>1, <2>2, <2>3, FewerPlaces DEF OnceAmong
<1> QED
  BY <1>4, <1>5

\* Math.ceil(n / perPage), without the division.
LEMMA PagesReach ==
  ASSUME perPage \in Nat \ {0}, NEW n \in Nat, NEW k \in Nat \ {0}
  PROVE  /\ PagesCount(n) \in Nat
         /\ k <= PagesCount(n) <=> (k - 1) * perPage < n
<1> DEFINE d == PagesCount(n)
           rest == (n + perPage - 1) % perPage
<1>1. /\ d \in Int /\ rest \in Int /\ n + perPage - 1 = perPage * d + rest
      /\ 0 <= rest /\ rest < perPage
  BY DEF PagesCount
<1> HIDE DEF d, rest
<1>2. d \in Nat
  BY <1>1
<1>3. ASSUME k <= d PROVE (k - 1) * perPage < n
  <2>1. perPage * k <= perPage * d
    BY <1>1, <1>3
  <2>2. (k - 1) * perPage = perPage * k - perPage
    OBVIOUS
  <2> QED
    BY <1>1, <2>1, <2>2
<1>4. ASSUME d < k PROVE n <= (k - 1) * perPage
  <2>1. perPage * d <= perPage * (k - 1)
    BY <1>1, <1>4
  <2>2. perPage * (k - 1) = (k - 1) * perPage /\ (k - 1) * perPage \in Int /\ perPage * d \in Int
    BY <1>1
  <2> QED
    BY <1>1, <2>1, <2>2
<1>5. (k - 1) * perPage \in Int
  OBVIOUS
<1> QED
  BY <1>1, <1>2, <1>3, <1>4, <1>5 DEF d

(* An order after n calls. *)
OrderAfter(o, n) ==
    [status : {"none", "PENDING", "PROCESSING", "CANCELLED"} \cup AdminStatuses,
     paymentStatus : {"UNPAID", "PAID", "REFUNDED"},
     returned : [1..ItemCount[o] -> 0..n], refunded : 0..n]

OrdersAfter(orders, n) == DOMAIN orders = Orders /\ \A o \in Orders : orders[o] \in OrderAfter(o, n)

ListTyped ==
    /\ OrderListTypeOK
    /\ OrdersAfter(order, changes)
    /\ \A o \in ToSet(placed) : order[o].status # "none"

LEMMA LaterOrders ==
  ASSUME NEW o, NEW n \in Nat, NEW r \in OrderAfter(o, n)
  PROVE  r \in OrderAfter(o, n + 1)
<1>1. 0..n \subseteq 0..(n + 1)
  OBVIOUS
<1>2. [1..ItemCount[o] -> 0..n] \subseteq [1..ItemCount[o] -> 0..(n + 1)]
  BY <1>1
<1> QED
  BY <1>1, <1>2 DEF OrderAfter

\* What was reached after some of the calls is within the bound.
LEMMA EarlierOrders ==
  ASSUME OrderListAssumption, NEW n \in 0..MaxChanges, NEW orders, OrdersAfter(orders, n)
  PROVE  OrdersAfter(orders, MaxChanges)
<1>1. 0..n \subseteq 0..MaxChanges
  BY DEF OrderListAssumption
<1>2. ASSUME NEW o \in Orders PROVE OrderAfter(o, n) \subseteq OrderAfter(o, MaxChanges)
  <2>1. [1..ItemCount[o] -> 0..n] \subseteq [1..ItemCount[o] -> 0..MaxChanges]
    BY <1>1
  <2> QED
    BY <1>1, <2>1 DEF OrderAfter
<1> QED
  BY <1>2 DEF OrdersAfter

LEMMA ChangedOrders ==
  ASSUME "none" \notin AdminStatuses, NEW n \in Nat, NEW o \in Orders, order[o] \in OrderAfter(o, n)
  PROVE  /\ NoOrderYet(o) \in OrderAfter(o, 0)
         /\ Placed(o) \in OrderAfter(o, n + 1) /\ Placed(o).status # "none"
         /\ Cancelled(o) \in OrderAfter(o, n + 1) /\ Cancelled(o).status # "none"
         /\ \A status \in AdminStatuses :
               Updated(o, status) \in OrderAfter(o, n + 1) /\ Updated(o, status).status # "none"
         /\ PaidFor(o) \in OrderAfter(o, n + 1) /\ PaidFor(o).status # "none"
<1>1. PICK r : r = order[o]
  OBVIOUS
<1>2. /\ DOMAIN r = {"status", "paymentStatus", "returned", "refunded"}
      /\ r \in OrderAfter(o, n) /\ r \in OrderAfter(o, n + 1)
      /\ GivenBack(o, ItemCount[o]) \in [1..ItemCount[o] -> 0..(n + 1)]
      /\ r.refunded + 1 \in 0..(n + 1)
  <2>1. r \in OrderAfter(o, n) /\ r \in OrderAfter(o, n + 1)
    BY <1>1, LaterOrders
  <2>2. /\ DOMAIN r = {"status", "paymentStatus", "returned", "refunded"}
        /\ r.returned \in [1..ItemCount[o] -> 0..n] /\ r.refunded \in 0..n
    BY <1>1 DEF OrderAfter
  <2>3. ASSUME NEW i \in 1..ItemCount[o]
        PROVE  r.returned[i] \in 0..(n + 1) /\ r.returned[i] + 1 \in 0..(n + 1)
    <3>1. r.returned[i] \in 0..n
      BY <2>2, Zenon
    <3> QED
      BY <3>1
  <2>4. GivenBack(o, ItemCount[o]) \in [1..ItemCount[o] -> 0..(n + 1)]
    BY <2>3, <1>1 DEF GivenBack
  <2> QED
    BY <2>1, <2>2, <2>4
<1>3. NoOrderYet(o) \in OrderAfter(o, 0)
  BY DEF NoOrderYet, OrderAfter
<1>4. Placed(o) \in OrderAfter(o, n + 1) /\ Placed(o).status # "none"
  BY DEF Placed, NoOrderYet, OrderAfter
<1>5. Cancelled(o) \in OrderAfter(o, n + 1) /\ Cancelled(o).status # "none"
  <2>1. PICK g : g = [r EXCEPT !.status = "CANCELLED", !.returned = GivenBack(o, ItemCount[o])]
    OBVIOUS
  <2>2. g \in OrderAfter(o, n + 1) /\ g.status = "CANCELLED" /\ g.refunded = r.refunded
    BY <2>1, <1>2 DEF OrderAfter
  <2>3. PICK h : h = [g EXCEPT !.paymentStatus = "REFUNDED", !.refunded = @ + 1]
    OBVIOUS
  <2>4. h \in OrderAfter(o, n + 1) /\ h.status = "CANCELLED"
    BY <2>2, <2>3, <1>2 DEF OrderAfter
  <2>5. Cancelled(o) \in {g, h}
    BY <2>1, <2>3, <1>1 DEF Cancelled
  <2> QED
    BY <2>2, <2>4, <2>5
<1>6. ASSUME NEW status \in AdminStatuses
      PROVE  Updated(o, status) \in OrderAfter(o, n + 1) /\ Updated(o, status).status # "none"
  <2>1. PICK p : p = IF status = "DELIVERED" /\ o \notin BankingOrders THEN "PAID" ELSE r.paymentStatus
    OBVIOUS
  <2>2. p \in {"UNPAID", "PAID", "REFUNDED"}
    BY <2>1, <1>2 DEF OrderAfter
  <2>3. PICK g : g = [r EXCEPT !.status = status, !.paymentStatus = p]
    OBVIOUS
  <2>4. g \in OrderAfter(o, n + 1) /\ g.status = status
    BY <2>2, <2>3, <1>2 DEF OrderAfter
  <2>5. Updated(o, status) = g
    BY <2>1, <2>3, <1>1 DEF Updated
  <2> QED
    BY <2>4, <2>5
<1>7. PaidFor(o) \in OrderAfter(o, n + 1) /\ PaidFor(o).status # "none"
  <2>1. PICK g : g = [r EXCEPT !.status = "PROCESSING", !.paymentStatus = "PAID"]
    OBVIOUS
  <2>2. g \in OrderAfter(o, n + 1) /\ g.status = "PROCESSING"
    BY <2>1, <1>2 DEF OrderAfter
  <2> QED
    BY <2>1, <2>2, <1>1 DEF PaidFor
<1> QED
  BY <1>3, <1>4, <1>5, <1>6, <1>7

\* One order changes, or none.
LEMMA OneOrderChanges ==
  ASSUME OrderListAssumption, ListTyped, Change, NEW o \in Orders, NEW r,
         r \in OrderAfter(o, changes + 1), r.status # "none",
         order' = [order EXCEPT ![o] = r] \/ order' = order,
         ToSet(placed') \subseteq ToSet(placed) \cup {o},
         order' = order => ToSet(placed') = ToSet(placed)
  PROVE  /\ OrdersAfter(order', changes')
         /\ \A p \in ToSet(placed') : order'[p].status # "none"
         /\ changes' \in 0..MaxChanges
         /\ shrunk' \in BOOLEAN
<1>1. changes \in Nat /\ changes' = changes + 1 /\ changes' \in 0..MaxChanges /\ MaxChanges \in Nat
  BY DEF Change, ListTyped, OrderListTypeOK, OrderListAssumption
<1>2. shrunk' \in BOOLEAN
  BY DEF Change, ListTyped, OrderListTypeOK
<1>3. \A p \in Orders : order[p] \in OrderAfter(p, changes')
  <2>1. \A p \in Orders : order[p] \in OrderAfter(p, changes)
    BY DEF ListTyped, OrdersAfter
  <2> QED
    BY <2>1, <1>1, LaterOrders
<1>4. /\ OrdersAfter(order', changes')
      /\ \A p \in Orders : order'[p] = order[p] \/ (p = o /\ order'[p] = r)
  BY <1>1, <1>3 DEF ListTyped, OrdersAfter
<1>5. ASSUME NEW p \in ToSet(placed') PROVE order'[p].status # "none"
  <2>1. placed \in Seq(Orders)
    BY DEF ListTyped, OrderListTypeOK
  <2>2. ToSet(placed) \subseteq Orders
    BY <2>1 DEF ToSet
  <2>3. \A x \in ToSet(placed) : order[x].status # "none"
    BY DEF ListTyped
  <2>4. CASE order' = order
    BY <2>3, <2>4, <1>5
  <2>5. CASE order' = [order EXCEPT ![o] = r]
    <3>1. order'[o] = r /\ \A x \in Orders \ {o} : order'[x] = order[x]
      BY <2>5 DEF ListTyped, OrdersAfter
    <3> QED
      BY <3>1, <2>2, <2>3, <1>5
  <2> QED
    BY <2>4, <2>5
<1> QED
  BY <1>1, <1>2, <1>4, <1>5

LEMMA PlacedTyped ==
  ASSUME OrderListAssumption, ListTyped, NEW o \in Orders, PlaceOrder(o)
  PROVE  ListTyped'
<1>1. /\ OrderCodesAssumption /\ "none" \notin AdminStatuses
      /\ placed \in Seq(Orders) /\ IsInjective(placed)
      /\ code \in [Orders -> Codes \cup {<<>>}] /\ info \in [Orders -> Seq(Chars)]
      /\ changes \in Nat /\ order[o] \in OrderAfter(o, changes) /\ DOMAIN order = Orders
  BY DEF ListTyped, OrdersAfter, OrderListTypeOK, OrderListAssumption
<1>2. /\ order[o].status = "none" /\ order' = [order EXCEPT ![o] = Placed(o)]
      /\ placed' = Append(placed, o) /\ transfer' = NoTransfer /\ Change
  BY DEF PlaceOrder
<1>3. o \notin ToSet(placed)
  BY <1>2 DEF ListTyped
<1>4. placed' \in Seq(Orders) /\ ToSet(placed') = ToSet(placed) \cup {o}
  BY <1>1, <1>2, PlacedThen
<1>5. IsInjective(placed')
  <2>1. /\ DOMAIN placed' = 1..(Len(placed) + 1) /\ DOMAIN placed = 1..Len(placed) /\ Len(placed) \in Nat
        /\ placed'[Len(placed) + 1] = o /\ \A a \in 1..Len(placed) : placed'[a] = placed[a]
    BY <1>1, <1>2
  <2>2. \A a \in 1..Len(placed) : placed[a] # o
    BY <2>1, <1>3 DEF ToSet
  <2>3. \A a, b \in 1..Len(placed) : placed[a] = placed[b] => a = b
    BY <2>1, <1>1 DEF IsInjective
  <2>4. \A a \in 1..(Len(placed) + 1) : a \in 1..Len(placed) \/ a = Len(placed) + 1
    BY <2>1
  <2>5. \A a, b \in 1..(Len(placed) + 1) : placed'[a] = placed'[b] => a = b
    BY <2>1, <2>2, <2>3, <2>4
  <2> QED
    BY <2>1, <2>5 DEF IsInjective
<1>6. PICK c \in Codes, t \in Dates :
          /\ code' = [code EXCEPT ![o] = c]
          /\ info' = IF o \in BankingOrders
                     THEN [info EXCEPT ![o] = generateOrderCode(UserOf[o], t, c)] ELSE info
  BY DEF PlaceOrder
<1>7. generateOrderCode(UserOf[o], t, c) \in Seq(Chars)
  <2>1. UserOf[o] \in Numerals /\ c \in Seq(Chars)
    BY DEF OrderListAssumption, RandomCodes
  <2> QED
    BY <2>1, <1>1, Pieces DEF Composed
<1>8. code' \in [Orders -> Codes \cup {<<>>}] /\ info' \in [Orders -> Seq(Chars)]
  BY <1>1, <1>6, <1>7
<1>9. Placed(o) \in OrderAfter(o, changes + 1) /\ Placed(o).status # "none"
  BY <1>1, ChangedOrders
<1>10. order' # order
  BY <1>1, <1>2, <1>9
<1>11. /\ OrdersAfter(order', changes')
       /\ \A p \in ToSet(placed') : order'[p].status # "none"
       /\ changes' \in 0..MaxChanges
       /\ shrunk' \in BOOLEAN
  BY <1>2, <1>4, <1>9, <1>10, OneOrderChanges
<1>12. UNCHANGED <<reader, due, seen>>
  BY <1>2 DEF Change, readingVars
<1>13. transfer' \in [text : Seq(Chars), paid : {{}} \cup {{p} : p \in Orders}]
  BY <1>2 DEF NoTransfer
<1>14. OrdersAfter(order', MaxChanges)
  BY <1>11, EarlierOrders
<1> QED
  BY <1>4, <1>5, <1>8, <1>11, <1>12, <1>13, <1>14 DEF ListTyped, OrderListTypeOK, OrdersAfter, OrderAfter

\* An order that was placed changes, and nothing but the transfer beside it.
LEMMA ChangeTyped ==
  ASSUME OrderListAssumption, ListTyped, Change, NEW o \in Orders, NEW r,
         r \in OrderAfter(o, changes + 1), r.status # "none",
         order' = [order EXCEPT ![o] = r] \/ order' = order,
         UNCHANGED <<placed, code, info>>,
         transfer' \in [text : Seq(Chars), paid : {{}} \cup {{p} : p \in Orders}]
  PROVE  ListTyped'
<1>1. /\ OrdersAfter(order', changes')
      /\ \A p \in ToSet(placed') : order'[p].status # "none"
      /\ changes' \in 0..MaxChanges
      /\ shrunk' \in BOOLEAN
  BY OneOrderChanges
<1>2. UNCHANGED <<reader, due, seen>>
  BY DEF Change, readingVars
<1>3. OrdersAfter(order', MaxChanges)
  BY <1>1, EarlierOrders
<1> QED
  BY <1>1, <1>2, <1>3 DEF ListTyped, OrderListTypeOK, OrdersAfter, OrderAfter

LEMMA HandlersTyped ==
  ASSUME OrderListAssumption, ListTyped, NEW o \in Orders,
         CancelOrder(o) \/ UpdateOrder(o) \/ DeliverTransfer(o)
  PROVE  ListTyped'
<1>1. /\ "none" \notin AdminStatuses /\ changes \in Nat
      /\ \A p \in Orders : order[p] \in OrderAfter(p, changes)
      /\ info \in [Orders -> Seq(Chars)] /\ placed \in Seq(Orders)
  BY DEF ListTyped, OrdersAfter, OrderListTypeOK, OrderListAssumption
<1>2. NoTransfer \in [text : Seq(Chars), paid : {{}} \cup {{p} : p \in Orders}]
  BY DEF NoTransfer
<1>3. CASE CancelOrder(o)
  <2>1. Cancelled(o) \in OrderAfter(o, changes + 1) /\ Cancelled(o).status # "none"
    BY <1>1, ChangedOrders
  <2>2. /\ order' = [order EXCEPT ![o] = Cancelled(o)] /\ transfer' = NoTransfer
        /\ UNCHANGED <<placed, code, info>> /\ Change
    BY <1>3 DEF CancelOrder
  <2> QED
    BY <2>1, <2>2, <1>2, ChangeTyped
<1>4. CASE UpdateOrder(o)
  <2>1. PICK status \in AdminStatuses : order' = [order EXCEPT ![o] = Updated(o, status)]
    BY <1>4 DEF UpdateOrder
  <2>2. Updated(o, status) \in OrderAfter(o, changes + 1) /\ Updated(o, status).status # "none"
    BY <1>1, ChangedOrders
  <2>3. transfer' = NoTransfer /\ UNCHANGED <<placed, code, info>> /\ Change
    BY <1>4 DEF UpdateOrder
  <2> QED
    BY <2>1, <2>2, <2>3, <1>2, ChangeTyped
<1>5. CASE DeliverTransfer(o)
  <2>1. PICK lost \in 0..MaxCut :
            LET text == Slice(info[o], 0, Len(info[o]) - lost)
                found == Found(decodeOrderCode(text))
            IN /\ \/ /\ found = {}
                     /\ transfer' = [text |-> text, paid |-> {}]
                     /\ UNCHANGED order
                  \/ \E p \in found :
                        /\ order' = [order EXCEPT ![p] = PaidFor(p)]
                        /\ transfer' = [text |-> text, paid |-> {p}]
               /\ UNCHANGED <<placed, code, info>>
               /\ Change
    BY <1>5 DEF DeliverTransfer
  <2>2. PICK text, found :
            /\ text = Slice(info[o], 0, Len(info[o]) - lost)
            /\ found = Found(decodeOrderCode(text))
    OBVIOUS
  <2>3. /\ \/ /\ transfer' = [text |-> text, paid |-> {}]
              /\ UNCHANGED order
           \/ \E p \in found :
                 /\ order' = [order EXCEPT ![p] = PaidFor(p)]
                 /\ transfer' = [text |-> text, paid |-> {p}]
        /\ UNCHANGED <<placed, code, info>>
        /\ Change
    BY <2>1, <2>2
  <2>4. text \in Seq(Chars)
    <3>1. info[o] \in Seq(Chars) /\ 0 \in Int /\ Len(info[o]) - lost \in Int
      BY <1>1 DEF OrderListAssumption
    <3> QED
      BY <3>1, <2>2, SliceWithin DEF Part
  <2>5. found \subseteq Orders
    BY <2>2, <1>1 DEF Found, ToSet
  <2>6. \A p \in Orders : PaidFor(p) \in OrderAfter(p, changes + 1) /\ PaidFor(p).status # "none"
    BY <1>1, ChangedOrders
  <2>7. CASE transfer' = [text |-> text, paid |-> {}] /\ UNCHANGED order
    <3>1. transfer' \in [text : Seq(Chars), paid : {{}} \cup {{p} : p \in Orders}]
      BY <2>4, <2>7
    <3> QED
      BY <3>1, <2>3, <2>6, <2>7, ChangeTyped
  <2>8. ASSUME NEW p \in found, order' = [order EXCEPT ![p] = PaidFor(p)], transfer' = [text |-> text, paid |-> {p}]
        PROVE  ListTyped'
    <3>1. transfer' \in [text : Seq(Chars), paid : {{}} \cup {{x} : x \in Orders}]
      BY <2>4, <2>5, <2>8
    <3> QED
      BY <3>1, <2>3, <2>5, <2>6, <2>8, ChangeTyped
  <2> QED
    BY <2>3, <2>7, <2>8
<1> QED
  BY <1>3, <1>4, <1>5

LEMMA ReaderTyped ==
  ASSUME OrderListAssumption, ListTyped, UNCHANGED <<order, placed, code, info, changes, transfer>>,
         reader' \in [pc : {"idle", "read", "count", "next", "end"}, of : Readers \cup {Admin},
                      page : 1..MaxPage, pagesCount : Nat],
         due' \subseteq Orders, seen' \subseteq Orders, shrunk' \in BOOLEAN
  PROVE  ListTyped'
BY DEF ListTyped, OrderListTypeOK

LEMMA ListsNames ==
  ASSUME placed \in Seq(Orders), Distinct(placed), NEW of
  PROVE  /\ LastFirst(Rows(of), placed)
         /\ ToSet(Rows(of)) = {o \in ToSet(placed) : InList(o, of)}
         /\ Rows(of) = ListOf(placed, {o \in Orders : InList(o, of)})
<1> DEFINE T == {o \in Orders : InList(o, of)}
<1>1. \A n \in 1..Len(placed) : placed[n] \in Orders
  OBVIOUS
<1>2. Rows(of) = ListOf(placed, T)
  <2>1. ASSUME NEW f PROVE IsList(f, placed, T) <=> (f = [n \in 0..Len(placed) |->
            IF n = 0 THEN <<>>
            ELSE IF InList(placed[n], of) THEN <<placed[n]>> \o f[n - 1] ELSE f[n - 1]])
    <3>1. [n \in 0..Len(placed) |-> IF n = 0 THEN <<>> ELSE IF placed[n] \in T THEN <<placed[n]>> \o f[n - 1] ELSE f[n - 1]]
          = [n \in 0..Len(placed) |-> IF n = 0 THEN <<>>
               ELSE IF InList(placed[n], of) THEN <<placed[n]>> \o f[n - 1] ELSE f[n - 1]]
      <4>1. \A n \in 0..Len(placed) : n # 0 => (placed[n] \in T <=> InList(placed[n], of))
        BY <1>1
      <4> HIDE DEF T
      <4> QED
        BY <4>1
    <3> QED
      BY <3>1 DEF IsList
  <2> HIDE DEF T
  <2> QED
    BY <2>1 DEF Rows, ListOf
<1>3. ToSet(placed) \cap T = {o \in ToSet(placed) : InList(o, of)}
  BY DEF ToSet
<1>4. ListOf(placed, T) = ListOf(placed, {o \in Orders : InList(o, of)})
  OBVIOUS
<1> HIDE DEF T
<1> QED
  BY <1>2, <1>3, <1>4, ListLastFirst

\* The lists, now and after a step.
ListsRead ==
    placed \in Seq(Orders) /\ Distinct(placed) =>
        \A of \in Readers \cup {Admin} :
            /\ LastFirst(Rows(of), placed)
            /\ ToSet(Rows(of)) = {o \in ToSet(placed) : InList(o, of)}
            /\ Rows(of) = ListOf(placed, {o \in Orders : InList(o, of)})

LEMMA ListsAreRead == ListsRead /\ ListsRead'
<1>1. ListsRead
  BY ListsNames DEF ListsRead
<1> QED
  BY <1>1, PTL

LEMMA PrimedList ==
  ASSUME NEW of, reader'.of = of
  PROVE  Rows(reader.of)' = Rows(of)'
OBVIOUS

(* A reader who is at rd of a list: what it had (d) is still in it, what is *)
(* unread (d without s) lies behind the pages read, and the page it is sent *)
(* to has rows.                                                             *)
PassedRows(rd) == IF rd.pc = "read" THEN (rd.page - 1) * perPage ELSE rd.page * perPage

ReadOn(rd, rows, d, s) ==
    /\ d \subseteq ToSet(rows)
    /\ \A i \in DOMAIN rows : rows[i] \in d \ s => PassedRows(rd) < i
    /\ (rd.page - 1) * perPage < Len(rows)
    /\ rd.pc = "next" => /\ rd.page <= rd.pagesCount /\ rd.pagesCount <= PagesCount(Len(rows))
                         /\ rd.page = rd.pagesCount => d \subseteq s
    /\ rd.pc = "end" => d \subseteq s

ReaderOK == Reading /\ ~shrunk /\ due # {} => ReadOn(reader, Rows(reader.of), due, seen)

ReaderRecord == [pc : {"idle", "read", "count", "next", "end"}, of : Readers \cup {Admin},
                 page : Nat \ {0}, pagesCount : Nat]

\* Others' orders come to the list.
LEMMA ListGrows ==
  ASSUME perPage \in Nat \ {0}, NEW rd \in ReaderRecord, NEW d, NEW s,
         NEW q \in Seq(Orders), NEW p \in Seq(Orders), Distinct(p),
         Len(q) <= Len(p), \A a \in 1..Len(q) : p[a] = q[a],
         NEW rows, LastFirst(rows, q), NEW more, LastFirst(more, p), ToSet(rows) \subseteq ToSet(more),
         ReadOn(rd, rows, d, s)
  PROVE  ReadOn(rd, more, d, s)
<1>1. /\ Len(rows) <= Len(more)
      /\ \A i \in DOMAIN rows, j \in DOMAIN more : rows[i] = more[j] => i <= j
  BY PlacesMoveDown
<1>2. rows \in Seq(Orders) /\ more \in Seq(Orders) /\ Len(rows) \in Nat /\ Len(more) \in Nat
  BY DEF LastFirst
<1>3. /\ rd.page \in Nat \ {0} /\ rd.pagesCount \in Nat
      /\ PassedRows(rd) \in Int /\ (rd.page - 1) * perPage \in Int
  <2>1. rd.page \in Nat \ {0} /\ rd.pagesCount \in Nat
    BY DEF ReaderRecord
  <2>2. (rd.page - 1) * perPage \in Int /\ rd.page * perPage \in Int
    BY <2>1
  <2> QED
    BY <2>1, <2>2 DEF PassedRows
<1>4. d \subseteq ToSet(more)
  BY DEF ReadOn
<1>5. ASSUME NEW j \in DOMAIN more, more[j] \in d \ s PROVE PassedRows(rd) < j
  <2>1. PICK i \in DOMAIN rows : rows[i] = more[j]
    BY <1>5 DEF ReadOn, ToSet
  <2>2. PassedRows(rd) < i /\ i <= j /\ i \in Nat /\ j \in Nat
    BY <2>1, <1>1, <1>2, <1>5 DEF ReadOn
  <2> QED
    BY <2>2, <1>3
<1>6. (rd.page - 1) * perPage < Len(more)
  BY <1>1, <1>2, <1>3 DEF ReadOn
<1>7. ASSUME rd.pc = "next" PROVE rd.pagesCount <= PagesCount(Len(more))
  <2>1. rd.page <= rd.pagesCount /\ rd.pagesCount <= PagesCount(Len(rows))
    BY <1>7 DEF ReadOn
  <2>2. rd.pagesCount \in Nat \ {0} /\ (rd.pagesCount - 1) * perPage \in Int
    BY <2>1, <1>3
  <2>3. (rd.pagesCount - 1) * perPage < Len(rows)
    BY <2>1, <2>2, <1>2, PagesReach
  <2>4. (rd.pagesCount - 1) * perPage < Len(more)
    BY <2>2, <2>3, <1>1, <1>2
  <2> QED
    BY <2>2, <2>4, <1>2, PagesReach
<1> QED
  BY <1>4, <1>5, <1>6, <1>7 DEF ReadOn

LEMMA CutPlaces ==
  ASSUME NEW from \in Nat, NEW width \in Nat, NEW to \in Nat, NEW n \in Nat, NEW start, NEW end,
         to = from + width,
         start = IF from > n THEN n ELSE from, end = IF to > n THEN n ELSE to
  PROVE  /\ start \in Nat /\ end \in Nat /\ start <= end /\ end <= n
         /\ \A i \in 1..n : from < i /\ i <= to =>
               start = from /\ i - start \in 1..(end - start) /\ start + (i - start) = i
         /\ \A i \in 1..(end - start) : start + i \in 1..n
         /\ \A k \in Nat : k = end - start /\ k < width /\ from < n => n = from + k
<1>1. CASE from > n
  <2>1. start = n /\ to > n
    BY <1>1
  <2>2. end = n
    BY <2>1
  <2> QED
    BY <2>1, <2>2, <1>1
<1>2. CASE from <= n /\ to > n
  <2>1. start = from /\ end = n
    BY <1>2
  <2> QED
    BY <2>1, <1>2
<1>3. CASE from <= n /\ to <= n
  <2>1. start = from /\ end = to
    BY <1>3
  <2> QED
    BY <2>1, <1>3
<1> QED
  BY <1>1, <1>2, <1>3

\* The page cut from a list after from rows, up to the row to.
IsCut(page, rows, from, to, width) ==
    /\ page \in Seq(Orders) /\ Len(page) \in Nat
    /\ \A i \in DOMAIN rows : from < i /\ i <= to => rows[i] \in ToSet(page)
    /\ ToSet(page) \subseteq ToSet(rows)
    /\ Len(page) < width /\ from < Len(rows) => Len(rows) = from + Len(page)

LEMMA PageCut ==
  ASSUME NEW rows \in Seq(Orders), NEW from \in Nat, NEW width \in Nat, NEW page,
         page = Slice(rows, from, from + width)
  PROVE  IsCut(page, rows, from, from + width, width)
<1>1. PICK to \in Nat, n \in Nat : to = from + width /\ n = Len(rows)
  OBVIOUS
<1>2. PICK start, end : start = Index(rows, from) /\ end = Index(rows, to)
  OBVIOUS
<1>3. /\ end = IF to > n THEN n ELSE to
      /\ start = IF from > n THEN n ELSE from
  BY <1>1, <1>2 DEF Index
<1>4. /\ start \in Nat /\ end \in Nat /\ start <= end /\ end <= n
      /\ \A i \in 1..n : from < i /\ i <= to =>
            start = from /\ i - start \in 1..(end - start) /\ start + (i - start) = i
      /\ \A i \in 1..(end - start) : start + i \in 1..n
      /\ \A k \in Nat : k = end - start /\ k < width /\ from < n => n = from + k
  BY <1>1, <1>3, CutPlaces
<1>5. page = SubSeq(rows, start + 1, end)
  BY <1>1, <1>2 DEF Slice
<1>6. DOMAIN rows = 1..n /\ \A i \in 1..n : rows[i] \in Orders
  BY <1>1
<1>7. /\ page \in Seq(Orders) /\ Len(page) = end - start
      /\ \A i \in 1..(end - start) : page[i] = rows[start + i]
  <2>1. start + 1 \in Int /\ end \in Int
    BY <1>4
  <2>2. \A i \in (start + 1)..end : i \in 1..n
    BY <1>1, <1>4
  <2>3. /\ SubSeq(rows, start + 1, end) \in Seq(Orders)
        /\ Len(SubSeq(rows, start + 1, end)) = IF start + 1 <= end THEN end - (start + 1) + 1 ELSE 0
        /\ \A i \in 1..(end - (start + 1) + 1) : SubSeq(rows, start + 1, end)[i] = rows[(start + 1) + i - 1]
    BY <2>1, <2>2, <1>6, SubSeqProperties
  <2>4. \A i \in 1..(end - start) : i \in 1..(end - (start + 1) + 1) /\ (start + 1) + i - 1 = start + i
    BY <1>4
  <2>5. (IF start + 1 <= end THEN end - (start + 1) + 1 ELSE 0) = end - start
    BY <1>4
  <2> QED
    BY <1>5, <2>3, <2>4, <2>5
<1>8. Len(page) \in Nat /\ DOMAIN page = 1..(end - start)
  BY <1>7
<1>9. \A i \in DOMAIN rows : from < i /\ i <= from + width => rows[i] \in ToSet(page)
  <2> SUFFICES ASSUME NEW i \in 1..n, from < i, i <= to PROVE rows[i] \in ToSet(page)
    BY <1>1, <1>6
  <2>1. i - start \in 1..(end - start) /\ start + (i - start) = i
    BY <1>4
  <2>2. page[i - start] = rows[i] /\ i - start \in DOMAIN page
    BY <2>1, <1>7, <1>8
  <2> QED
    BY <2>2 DEF ToSet
<1>10. ToSet(page) \subseteq ToSet(rows)
  <2>1. \A i \in DOMAIN page : start + i \in DOMAIN rows /\ page[i] = rows[start + i]
    BY <1>4, <1>6, <1>7, <1>8
  <2> QED
    BY <2>1 DEF ToSet
<1>11. Len(page) < width /\ from < n => n = from + Len(page)
  BY <1>4, <1>7, <1>8
<1> QED
  BY <1>1, <1>7, <1>8, <1>9, <1>10, <1>11 DEF IsCut

LEMMA PageHolds ==
  ASSUME perPage \in Nat \ {0}, NEW rows \in Seq(Orders), NEW k \in Nat \ {0}, NEW page,
         page = Slice(rows, (k - 1) * perPage, k * perPage)
  PROVE  IsCut(page, rows, (k - 1) * perPage, k * perPage, perPage)
<1>1. PICK m \in Nat : m = k - 1
  OBVIOUS
<1>2. PICK from \in Nat : from = m * perPage
  OBVIOUS
<1>3. k * perPage = m * perPage + perPage
  BY <1>1
<1>4. (k - 1) * perPage = from /\ k * perPage = from + perPage
  BY <1>1, <1>2, <1>3
<1>5. page = Slice(rows, from, from + perPage)
  BY <1>4
<1>6. IsCut(page, rows, from, from + perPage, perPage)
  <2>1. perPage \in Nat
    OBVIOUS
  <2> QED
    BY <1>5, <2>1, PageCut, Zenon
<1> QED
  BY <1>4, <1>6, Zenon

\* On the last page nothing is left to read.
LEMMA LastPage ==
  ASSUME perPage \in Nat \ {0}, NEW rows \in Seq(Orders), NEW k \in Nat \ {0}, NEW d, NEW s,
         d \subseteq ToSet(rows), \A i \in DOMAIN rows : rows[i] \in d \ s => k * perPage < i,
         PagesCount(Len(rows)) <= k
  PROVE  d \subseteq s
<1>1. PICK n \in Nat, behind \in Int, c \in Int : n = Len(rows) /\ behind = k * perPage /\ c = PagesCount(Len(rows))
  BY PagesReach
<1>2. k + 1 \in Nat \ {0} /\ (k + 1) - 1 = k
  OBVIOUS
<1>3. k + 1 <= c <=> k * perPage < n
  BY <1>1, <1>2, PagesReach
<1>4. ~(k * perPage < n)
  <2>1. ~(k + 1 <= c)
    BY <1>1
  <2> QED
    BY <2>1, <1>3
<1>5. ~(behind < n)
  BY <1>1, <1>4
<1>6. ASSUME NEW o \in d, o \notin s PROVE FALSE
  <2>1. PICK i \in DOMAIN rows : rows[i] = o
    BY <1>6 DEF ToSet
  <2>2. i \in Nat /\ i <= n
    BY <1>1
  <2>3. behind < i
    BY <2>1, <1>1, <1>6
  <2> HIDE <1>1
  <2> QED
    BY <2>2, <2>3, <1>5
<1> QED
  BY <1>6

LEMMA RowsCounted ==
  ASSUME perPage \in Nat \ {0}, NEW rows \in Seq(Orders), NEW d, NEW s,
         NEW rd \in ReaderRecord, rd.pc = "count", ReadOn(rd, rows, d, s),
         NEW next \in ReaderRecord, next.pc = "next", next.page = rd.page,
         next.pagesCount = PagesCount(Len(rows))
  PROVE  ReadOn(next, rows, d, s)
<1>1. rd.page \in Nat \ {0} /\ Len(rows) \in Nat
  BY DEF ReaderRecord
<1>2. /\ d \subseteq ToSet(rows)
      /\ \A i \in DOMAIN rows : rows[i] \in d \ s => rd.page * perPage < i
      /\ (rd.page - 1) * perPage < Len(rows)
  BY Zenon DEF ReadOn, PassedRows
<1>3. rd.page <= PagesCount(Len(rows))
  BY <1>1, <1>2, PagesReach
<1>4. next.pagesCount <= PagesCount(Len(rows))
  <2>1. PagesCount(Len(rows)) \in Nat
    BY <1>1, PagesReach
  <2> QED
    BY <2>1
<1>5. ASSUME next.page = next.pagesCount PROVE d \subseteq s
  <2>1. PagesCount(Len(rows)) = rd.page
    BY <1>5
  <2>2. PagesCount(Len(rows)) <= rd.page
    BY <1>1, <2>1
  <2> QED
    BY <1>1, <1>2, <2>2, LastPage
<1> QED
  BY <1>2, <1>3, <1>4, <1>5, Zenon DEF ReadOn, PassedRows

LEMMA PageRead ==
  ASSUME perPage \in Nat \ {0}, NEW rows \in Seq(Orders), NEW d, NEW s,
         NEW rd \in ReaderRecord, rd.pc = "read", ReadOn(rd, rows, d, s),
         NEW page, page = Slice(rows, (rd.page - 1) * perPage, rd.page * perPage),
         NEW next \in ReaderRecord, next.page = rd.page,
         \/ next.pc = "count"
         \/ /\ next.pc = "next" /\ Len(page) < perPage
            /\ next.pagesCount = PagesCount((rd.page - 1) * perPage + Len(page))
  PROVE  ReadOn(next, rows, d, s \cup ToSet(page))
<1>1. rd.page \in Nat \ {0} /\ Len(rows) \in Nat
  BY DEF ReaderRecord
<1>2. /\ d \subseteq ToSet(rows)
      /\ \A i \in DOMAIN rows : rows[i] \in d \ s => (rd.page - 1) * perPage < i
      /\ (rd.page - 1) * perPage < Len(rows)
  BY Zenon DEF ReadOn, PassedRows
<1>3. IsCut(page, rows, (rd.page - 1) * perPage, rd.page * perPage, perPage)
  BY <1>1, PageHolds
<1>4. ASSUME NEW i \in DOMAIN rows, rows[i] \in d \ (s \cup ToSet(page)) PROVE rd.page * perPage < i
  <2>1. (rd.page - 1) * perPage < i
    BY <1>2, <1>4
  <2>2. ~(i <= rd.page * perPage)
    BY <1>3, <1>4, <2>1, Zenon DEF IsCut
  <2>3. i \in Nat /\ rd.page * perPage \in Int
    BY <1>1
  <2> QED
    BY <2>2, <2>3
<1>5. CASE next.pc = "count"
  BY <1>2, <1>4, <1>5, Zenon DEF ReadOn, PassedRows
<1>6. CASE /\ next.pc = "next" /\ Len(page) < perPage
           /\ next.pagesCount = PagesCount((rd.page - 1) * perPage + Len(page))
  <2>1. Len(rows) = (rd.page - 1) * perPage + Len(page)
    BY <1>2, <1>3, <1>6, Zenon DEF IsCut
  <2>2. next.pagesCount = PagesCount(Len(rows))
    BY <1>6, <2>1, Zenon
  <2> DEFINE mid == [rd EXCEPT !.pc = "count"]
  <2>3. mid \in ReaderRecord /\ mid.pc = "count" /\ mid.page = rd.page
    BY DEF ReaderRecord
  <2> HIDE DEF mid
  <2>4. ReadOn(mid, rows, d, s \cup ToSet(page))
    BY <1>2, <1>4, <2>3, Zenon DEF ReadOn, PassedRows
  <2> QED
    BY <2>2, <2>3, <2>4, <1>6, RowsCounted
<1> QED
  BY <1>5, <1>6

LEMMA HeaderFollowed ==
  ASSUME perPage \in Nat \ {0}, NEW rows \in Seq(Orders), NEW d, NEW s,
         NEW rd \in ReaderRecord, rd.pc = "next", ReadOn(rd, rows, d, s),
         NEW next \in ReaderRecord,
         IF rd.page = rd.pagesCount THEN next.pc = "end" /\ next.page = rd.page
         ELSE next.pc = "read" /\ next.page = rd.page + 1
  PROVE  ReadOn(next, rows, d, s)
<1>1. /\ rd.page \in Nat \ {0} /\ rd.pagesCount \in Nat /\ Len(rows) \in Nat
      /\ PagesCount(Len(rows)) \in Nat
  BY PagesReach DEF ReaderRecord
<1>2. /\ d \subseteq ToSet(rows)
      /\ \A i \in DOMAIN rows : rows[i] \in d \ s => rd.page * perPage < i
      /\ (rd.page - 1) * perPage < Len(rows)
      /\ rd.page <= rd.pagesCount /\ rd.pagesCount <= PagesCount(Len(rows))
      /\ rd.page = rd.pagesCount => d \subseteq s
  BY Zenon DEF ReadOn, PassedRows
<1>3. CASE rd.page = rd.pagesCount
  BY <1>2, <1>3, Zenon DEF ReadOn, PassedRows
<1>4. CASE rd.page # rd.pagesCount
  <2>1. rd.page + 1 \in Nat \ {0} /\ (rd.page + 1) - 1 = rd.page
    BY <1>1
  <2>2. rd.page + 1 <= PagesCount(Len(rows))
    <3> HIDE <1>3
    <3>1. PICK p \in Nat, c \in Nat, m \in Nat : p = rd.page /\ c = rd.pagesCount /\ m = PagesCount(Len(rows))
      BY <1>1
    <3>2. p <= c /\ c <= m /\ p # c
      BY <3>1, <1>2, <1>4
    <3>3. p + 1 <= m
      BY <3>2
    <3> QED
      BY <3>1, <3>3
  <2>3. rd.page * perPage < Len(rows)
    BY <1>1, <2>1, <2>2, PagesReach
  <2>4. next.pc = "read" /\ next.page = rd.page + 1 /\ next.page - 1 = rd.page
    BY <1>4, <2>1
  <2> QED
    BY <1>2, <2>3, <2>4, Zenon DEF ReadOn, PassedRows
<1> QED
  BY <1>3, <1>4

\* The handlers' calls between a reader's.
LEMMA ReadOnMeanwhile ==
  ASSUME OrderListAssumption, ListTyped, ListTyped', ReaderOK, Change,
         placed' = placed \/ \E o \in Orders : placed' = Append(placed, o)
  PROVE  ReaderOK'
<1>1. UNCHANGED <<reader, due, seen>>
  BY DEF Change, readingVars
<1>2. PICK of : of = reader.of
  OBVIOUS
<1>3. reader \in ReaderRecord /\ of \in Readers \cup {Admin}
  <2>1. /\ reader \in [pc : {"idle", "read", "count", "next", "end"}, of : Readers \cup {Admin},
                        page : 1..MaxPage, pagesCount : Nat]
        /\ MaxPage \in Nat
    BY DEF OrderListAssumption, ListTyped, OrderListTypeOK
  <2> QED
    BY <2>1, <1>2 DEF ReaderRecord
<1>4. /\ placed \in Seq(Orders) /\ Distinct(placed)
      /\ placed' \in Seq(Orders) /\ Distinct(placed)'
  <2>1. placed \in Seq(Orders) /\ Distinct(placed)
    BY DEF ListTyped, OrderListTypeOK, IsInjective, Distinct
  <2>2. placed' \in Seq(Orders) /\ Distinct(placed)'
    BY DEF ListTyped, OrderListTypeOK, IsInjective, Distinct
  <2> QED
    BY <2>1, <2>2
<1>5. Rows(reader.of) = Rows(of) /\ Rows(reader.of)' = Rows(of)'
  <2>1. reader'.of = of
    BY <1>1, <1>2
  <2> QED
    BY <1>2, <2>1, PrimedList
<1>6. /\ LastFirst(Rows(of), placed)
      /\ LastFirst(Rows(of)', placed')
  <2>1. LastFirst(Rows(of), placed)
    BY <1>3, <1>4, ListsAreRead DEF ListsRead
  <2>2. LastFirst(Rows(of), placed)'
    BY <1>3, <1>4, ListsAreRead DEF ListsRead
  <2> QED
    BY <2>1, <2>2 DEF LastFirst
<1> SUFFICES ASSUME Reading', ~shrunk', due' # {}
             PROVE  ReadOn(reader, Rows(of)', due, seen)
  BY <1>1, <1>5 DEF ReaderOK
<1>7. Reading /\ ~shrunk /\ due # {} /\ ToSet(Rows(of)) \subseteq ToSet(Rows(of)')
  <2>1. Reading
    BY <1>1 DEF Reading
  <2>2. shrunk' = (shrunk \/ (Reading /\ ~(ToSet(Rows(reader.of)) \subseteq ToSet(Rows(reader.of)'))))
    BY DEF Change
  <2>3. due # {}
    BY <1>1
  <2> QED
    BY <2>1, <2>2, <2>3, <1>5
<1>8. ReadOn(reader, Rows(of), due, seen)
  BY <1>5, <1>7 DEF ReaderOK
<1>9. Len(placed) <= Len(placed') /\ \A a \in 1..Len(placed) : placed'[a] = placed[a]
  BY <1>4
<1> QED
  <2>1. perPage \in Nat \ {0}
    BY DEF OrderListAssumption
  <2>2. Distinct(placed')
    BY <1>4 DEF Distinct
  <2>3. PICK q, p, rows, more :
            q = placed /\ p = placed' /\ rows = Rows(of) /\ more = Rows(of)'
    OBVIOUS
  <2>4. /\ q \in Seq(Orders) /\ p \in Seq(Orders) /\ Distinct(p)
        /\ Len(q) <= Len(p) /\ \A a \in 1..Len(q) : p[a] = q[a]
        /\ LastFirst(rows, q) /\ LastFirst(more, p) /\ ToSet(rows) \subseteq ToSet(more)
        /\ ReadOn(reader, rows, due, seen)
    BY <1>4, <1>6, <1>7, <1>8, <1>9, <2>2, <2>3, Zenon
  <2>5. ReadOn(reader, more, due, seen)
    BY <1>3, <2>1, <2>4, ListGrows
  <2> QED
    BY <2>3, <2>5

LEMMA SameList ==
  ASSUME placed \in Seq(Orders), Distinct(placed), UNCHANGED <<order, placed>>, NEW of \in Readers \cup {Admin}
  PROVE  Rows(of)' = Rows(of)
<1>1. placed' \in Seq(Orders) /\ Distinct(placed)'
  BY DEF Distinct
<1>2. Rows(of)' = ListOf(placed', {o \in Orders : InList(o, of)'})
  BY <1>1, ListsAreRead DEF ListsRead, ListOf
<1>3. {o \in Orders : InList(o, of)'} = {o \in Orders : InList(o, of)}
  BY DEF InList, Listed
<1>4. Rows(of) = ListOf(placed, {o \in Orders : InList(o, of)})
  BY ListsAreRead DEF ListsRead
<1> QED
  BY <1>2, <1>3, <1>4

\* A reader's call changes the reader alone.
LEMMA ReaderSteps ==
  ASSUME OrderListAssumption, ListTyped, ReaderOK,
         (\E of \in Readers : BeginReading(of)) \/ ReadPage \/ CountRows \/ FollowHeader \/ EndReading
  PROVE  ListTyped' /\ ReaderOK'
<1>1. /\ perPage \in Nat \ {0} /\ MaxPage \in Nat \ {0}
      /\ placed \in Seq(Orders) /\ Distinct(placed)
      /\ due \subseteq Orders /\ seen \subseteq Orders /\ shrunk \in BOOLEAN
      /\ reader \in [pc : {"idle", "read", "count", "next", "end"}, of : Readers \cup {Admin},
                     page : 1..MaxPage, pagesCount : Nat]
  BY DEF OrderListAssumption, ListTyped, OrderListTypeOK, IsInjective, Distinct
<1>2. reader \in ReaderRecord
  BY <1>1 DEF ReaderRecord
<1>3. \A of \in Readers \cup {Admin} :
        /\ Rows(of) \in Seq(Orders) /\ Len(Rows(of)) \in Nat
        /\ ToSet(Rows(of)) \subseteq Orders
        /\ Rows(of)' = Rows(of) \/ ~UNCHANGED <<order, placed>>
  <2> SUFFICES ASSUME NEW of \in Readers \cup {Admin}
               PROVE  /\ Rows(of) \in Seq(Orders) /\ Len(Rows(of)) \in Nat
                      /\ ToSet(Rows(of)) \subseteq Orders
                      /\ Rows(of)' = Rows(of) \/ ~UNCHANGED <<order, placed>>
    OBVIOUS
  <2>1. LastFirst(Rows(of), placed)
    BY <1>1, ListsAreRead DEF ListsRead
  <2>2. Rows(of) \in Seq(Orders)
    BY <2>1 DEF LastFirst
  <2>3. Rows(of)' = Rows(of) \/ ~UNCHANGED <<order, placed>>
    BY <1>1, SameList
  <2> QED
    BY <2>2, <2>3 DEF ToSet
<1>4. PICK of : of = reader.of
  OBVIOUS
<1>5. PICK rows : rows = Rows(of)
  OBVIOUS
<1>6. of \in Readers \cup {Admin} /\ rows \in Seq(Orders) /\ Len(rows) \in Nat
  BY <1>1, <1>3, <1>4, <1>5
<1> DEFINE Typed == reader' \in [pc : {"idle", "read", "count", "next", "end"}, of : Readers \cup {Admin},
                                 page : 1..MaxPage, pagesCount : Nat]
<1>7. ASSUME Typed, UNCHANGED ordersVars, due' \subseteq Orders, seen' \subseteq Orders, shrunk' \in BOOLEAN
      PROVE  ListTyped' /\ reader' \in ReaderRecord
  <2>1. ListTyped'
    BY <1>7, ReaderTyped DEF ordersVars
  <2> QED
    BY <2>1, <1>1, <1>7 DEF ReaderRecord
<1>8. ASSUME UNCHANGED <<order, placed, due, shrunk>>, reader'.of = of, reader.pc # "idle",
             ReadOn(reader, rows, due, seen) => ReadOn(reader', rows, due, seen')
      PROVE  ReaderOK'
  <2>1. Rows(reader.of)' = Rows(of)'
    BY <1>8, PrimedList
  <2>2. Rows(of)' = rows
    BY <1>3, <1>5, <1>6, <1>8
  <2>3. Rows(reader.of) = rows
    BY <1>4, <1>5
  <2>4. ~shrunk /\ due # {} => ReadOn(reader, rows, due, seen)
    BY <2>3, <1>8 DEF ReaderOK, Reading
  <2> QED
    BY <2>1, <2>2, <2>4, <1>8 DEF ReaderOK
<1>9. CASE \E who \in Readers : BeginReading(who)
  <2>1. PICK who \in Readers : BeginReading(who)
    BY <1>9
  <2>2. /\ reader' = [NotReading EXCEPT !.pc = "read", !.of = who]
        /\ due' = ToSet(Rows(who)) /\ seen' = {} /\ shrunk' = FALSE /\ UNCHANGED ordersVars
    BY <2>1 DEF BeginReading
  <2>3. reader'.pc = "read" /\ reader'.of = who /\ reader'.page = 1 /\ Typed
    <3>1. reader' = [pc |-> "read", of |-> who, page |-> 1, pagesCount |-> 0]
      BY <2>2 DEF NotReading
    <3> QED
      BY <3>1, <1>1
  <2>4. ListTyped' /\ reader' \in ReaderRecord
    BY <2>2, <2>3, <1>3, <1>7
  <2>5. PICK l : l = Rows(who)
    OBVIOUS
  <2>6. Rows(reader.of)' = l
    <3>1. Rows(reader.of)' = Rows(who)'
      BY <2>3, PrimedList
    <3> QED
      BY <3>1, <2>2, <2>5, <1>3 DEF ordersVars
  <2>7. ASSUME ToSet(l) # {} PROVE ReadOn(reader', l, ToSet(l), {})
    <3>1. l \in Seq(Orders) /\ Len(l) \in Nat
      BY <2>5, <1>3
    <3>2. 0 < Len(l) /\ \A i \in DOMAIN l : 0 < i
      BY <3>1, <2>7 DEF ToSet
    <3>3. (reader'.page - 1) * perPage = 0
      BY <2>3, <1>1
    <3> QED
      BY <2>3, <3>2, <3>3, Zenon DEF ReadOn, PassedRows
  <2> QED
    BY <2>2, <2>4, <2>5, <2>6, <2>7 DEF ReaderOK
<1>10. CASE ReadPage
  <2>1. PICK page : page = Slice(rows, (reader.page - 1) * perPage, reader.page * perPage)
    OBVIOUS
  <2>2. page = Page
    BY <2>1, <1>4, <1>5 DEF Page, startIndex, endIndex
  <2>3. /\ reader.pc = "read" /\ seen' = seen \cup ToSet(page)
        /\ UNCHANGED <<ordersVars, due, shrunk>>
        /\ \/ reader' = [reader EXCEPT !.pc = "count"]
           \/ /\ Len(page) < perPage
              /\ reader' = [reader EXCEPT !.pc = "next",
                                          !.pagesCount = PagesCount((reader.page - 1) * perPage + Len(page))]
    BY <1>10, <2>2 DEF ReadPage, startIndex
  <2>4. IsCut(page, rows, (reader.page - 1) * perPage, reader.page * perPage, perPage)
    BY <2>1, <1>1, <1>2, <1>6, PageHolds DEF ReaderRecord
  <2>5. PICK count : count = PagesCount((reader.page - 1) * perPage + Len(page))
    OBVIOUS
  <2>6. count \in Nat
    <3>1. (reader.page - 1) * perPage \in Nat /\ Len(page) \in Nat
      BY <2>4, <1>1 DEF IsCut
    <3>2. (reader.page - 1) * perPage + Len(page) \in Nat
      BY <3>1
    <3> QED
      BY <3>2, <2>5, <1>1, PagesReach
  <2>7. /\ Typed /\ reader'.of = of /\ reader'.page = reader.page
        /\ reader'.pc = "count" \/ (reader'.pc = "next" /\ Len(page) < perPage /\ reader'.pagesCount = count)
    <3>1. \/ reader' = [reader EXCEPT !.pc = "count"]
          \/ Len(page) < perPage /\ reader' = [reader EXCEPT !.pc = "next", !.pagesCount = count]
      BY <2>3, <2>5
    <3> QED
      BY <3>1, <2>6, <1>1, <1>4
  <2>8. seen' \subseteq Orders
    BY <2>3, <2>4, <1>1 DEF IsCut, ToSet
  <2>9. ListTyped' /\ reader' \in ReaderRecord
    BY <2>3, <2>7, <2>8, <1>1, <1>7
  <2>10. ReadOn(reader, rows, due, seen) => ReadOn(reader', rows, due, seen')
    <3> PICK next, d, s : next = reader' /\ d = due /\ s = seen
      OBVIOUS
    <3>1. /\ next \in ReaderRecord /\ next.page = reader.page
          /\ next.pc = "count" \/ (/\ next.pc = "next" /\ Len(page) < perPage
                                   /\ next.pagesCount = PagesCount((reader.page - 1) * perPage + Len(page)))
      BY <2>5, <2>7, <2>9
    <3>2. ReadOn(reader, rows, d, s) => ReadOn(next, rows, d, s \cup ToSet(page))
      BY <3>1, <2>1, <2>3, <1>1, <1>2, <1>6, PageRead
    <3> QED
      BY <3>2, <2>3
  <2> QED
    BY <2>3, <2>7, <2>9, <2>10, <1>8 DEF ordersVars
<1>11. CASE CountRows
  <2>1. PICK count : count = PagesCount(Len(rows))
    OBVIOUS
  <2>2. count \in Nat
    BY <2>1, <1>1, <1>6, PagesReach
  <2>3. /\ reader.pc = "count" /\ reader' = [reader EXCEPT !.pc = "next", !.pagesCount = count]
        /\ UNCHANGED <<ordersVars, readingVars, shrunk>>
    BY <1>11, <2>1, <1>4, <1>5 DEF CountRows
  <2>4. /\ Typed /\ reader'.of = of /\ reader'.page = reader.page
        /\ reader'.pc = "next" /\ reader'.pagesCount = count
    BY <2>2, <2>3, <1>1, <1>4
  <2>5. ListTyped' /\ reader' \in ReaderRecord
    BY <2>3, <2>4, <1>1, <1>7 DEF readingVars
  <2>6. ReadOn(reader, rows, due, seen) => ReadOn(reader', rows, due, seen')
    BY <2>1, <2>3, <2>4, <2>5, <1>1, <1>2, <1>6, RowsCounted DEF readingVars
  <2> QED
    BY <2>3, <2>4, <2>5, <2>6, <1>8 DEF ordersVars, readingVars
<1>12. CASE FollowHeader
  <2>1. /\ reader.pc = "next" /\ reader.page < MaxPage
        /\ UNCHANGED <<ordersVars, readingVars, shrunk>>
        /\ reader' = IF NextPage = reader.page THEN [reader EXCEPT !.pc = "end"]
                     ELSE [reader EXCEPT !.pc = "read", !.page = NextPage]
    BY <1>12 DEF FollowHeader
  <2>2. IF reader.page = reader.pagesCount THEN reader' = [reader EXCEPT !.pc = "end"]
        ELSE reader' = [reader EXCEPT !.pc = "read", !.page = reader.page + 1]
    BY <2>1, <1>1 DEF NextPage
  <2>3. reader.page + 1 \in 1..MaxPage
    BY <2>1, <1>1
  <2>4. /\ Typed /\ reader'.of = of
        /\ IF reader.page = reader.pagesCount THEN reader'.pc = "end" /\ reader'.page = reader.page
           ELSE reader'.pc = "read" /\ reader'.page = reader.page + 1
    BY <2>2, <2>3, <1>1, <1>4
  <2>5. ListTyped' /\ reader' \in ReaderRecord
    BY <2>1, <2>4, <1>1, <1>7 DEF readingVars
  <2>6. ReadOn(reader, rows, due, seen) => ReadOn(reader', rows, due, seen')
    BY <2>1, <2>4, <2>5, <1>1, <1>2, <1>6, HeaderFollowed DEF readingVars
  <2> QED
    BY <2>1, <2>4, <2>5, <2>6, <1>8 DEF ordersVars, readingVars
<1>13. CASE EndReading
  <2>1. /\ reader' = NotReading /\ due' = {} /\ seen' = {} /\ shrunk' = FALSE /\ UNCHANGED ordersVars
    BY <1>13 DEF EndReading
  <2>2. Typed
    BY <2>1, <1>1 DEF NotReading
  <2> QED
    BY <2>1, <2>2, <1>7 DEF ReaderOK
<1> QED
  BY <1>9, <1>10, <1>11, <1>12, <1>13

LEMMA ListInitially ==
  ASSUME OrderListAssumption, OrderListInit
  PROVE  ListTyped /\ ReaderOK
<1>1. /\ placed \in Seq(Orders) /\ IsInjective(placed) /\ ToSet(placed) = {}
      /\ code \in [Orders -> Codes \cup {<<>>}] /\ info \in [Orders -> Seq(Chars)]
  <2>1. placed = <<>> /\ code = [o \in Orders |-> <<>>] /\ info = [o \in Orders |-> <<>>]
    BY DEF OrderListInit
  <2> QED
    BY <2>1 DEF IsInjective, ToSet
<1>2. OrdersAfter(order, 0)
  BY DEF OrdersAfter, OrderAfter, NoOrderYet, OrderListInit, Init
<1>3. OrdersAfter(order, MaxChanges)
  BY <1>2, EarlierOrders DEF OrderListAssumption
<1>4. reader.pc = "idle" /\ reader \in [pc : {"idle", "read", "count", "next", "end"}, of : Readers \cup {Admin},
                                        page : 1..MaxPage, pagesCount : Nat]
  <2>1. reader = [pc |-> "idle", of |-> Admin, page |-> 1, pagesCount |-> 0]
    BY DEF OrderListInit, NotReading
  <2> QED
    BY <2>1 DEF OrderListAssumption
<1>5. /\ changes = 0 /\ changes \in 0..MaxChanges /\ due = {} /\ seen = {} /\ shrunk = FALSE
      /\ transfer \in [text : Seq(Chars), paid : {{}} \cup {{p} : p \in Orders}]
  BY DEF OrderListInit, OrderListAssumption, NoTransfer
<1>6. ListTyped
  BY <1>1, <1>2, <1>3, <1>4, <1>5 DEF ListTyped, OrderListTypeOK, OrdersAfter, OrderAfter
<1>7. ReaderOK
  BY <1>4 DEF ReaderOK, Reading
<1> QED
  BY <1>6, <1>7

LEMMA ListStep ==
  ASSUME OrderListAssumption, ListTyped, ReaderOK, [OrderListNext]_listVars
  PROVE  ListTyped' /\ ReaderOK'
<1>1. CASE \E o \in Orders : PlaceOrder(o) \/ CancelOrder(o) \/ UpdateOrder(o) \/ DeliverTransfer(o)
  <2>1. PICK o \in Orders : PlaceOrder(o) \/ CancelOrder(o) \/ UpdateOrder(o) \/ DeliverTransfer(o)
    BY <1>1
  <2>2. Change
    BY <2>1 DEF PlaceOrder, CancelOrder, UpdateOrder, DeliverTransfer
  <2>3. placed' = placed \/ \E p \in Orders : placed' = Append(placed, p)
    BY <2>1 DEF PlaceOrder, CancelOrder, UpdateOrder, DeliverTransfer
  <2>4. ListTyped'
    BY <2>1, PlacedTyped, HandlersTyped
  <2> QED
    BY <2>2, <2>3, <2>4, ReadOnMeanwhile
<1>2. CASE (\E of \in Readers : BeginReading(of)) \/ ReadPage \/ CountRows \/ FollowHeader \/ EndReading
  BY <1>2, ReaderSteps
<1>3. CASE UNCHANGED listVars
  <2>1. UNCHANGED <<order, placed, code, info, changes, transfer, reader, due, seen, shrunk>>
    BY <1>3 DEF listVars, ordersVars, readingVars
  <2>2. ListTyped'
    BY <2>1 DEF ListTyped, OrderListTypeOK
  <2>3. ReaderOK'
    <3>1. PICK of : of = reader.of
      OBVIOUS
    <3>2. reader'.of = of /\ of \in Readers \cup {Admin}
      BY <2>1, <3>1 DEF ListTyped, OrderListTypeOK
    <3>3. Rows(reader.of)' = Rows(of)'
      BY <3>2, PrimedList
    <3>4. Rows(of)' = Rows(of)
      BY <2>1, <3>2, SameList DEF ListTyped, OrderListTypeOK, IsInjective, Distinct
    <3> QED
      BY <2>1, <3>1, <3>3, <3>4 DEF ReaderOK, Reading
  <2> QED
    BY <2>2, <2>3
<1> QED
  BY <1>1, <1>2, <1>3 DEF OrderListNext

(* The state that the bank and the readers meet has the type it is declared *)
(* with: orders are placed once, and a reader's page and its header are in  *)
(* range.                                                                   *)
THEOREM OrderListTypes ==
  ASSUME OrderListAssumption
  PROVE  OrderListSpec => []OrderListTypeOK
<1>1. OrderListInit => ListTyped /\ ReaderOK
  BY ListInitially
<1>2. (ListTyped /\ ReaderOK) /\ [OrderListNext]_listVars => (ListTyped /\ ReaderOK)'
  BY ListStep
<1>3. ListTyped => OrderListTypeOK
  BY DEF ListTyped
<1> QED
  BY <1>1, <1>2, <1>3, PTL DEF OrderListSpec

(* Who follows x-next-page (getOrdersWithPaging, getOrderByUserId) while no *)
(* order leaves the list has read every order it had at the beginning, and  *)
(* is never sent behind its last page: an order that others' orders push to *)
(* a later page stays ahead of the reader, and the header is computed from  *)
(* a count that the list has only outgrown since.                           *)
THEOREM ReadersReadAll ==
  ASSUME OrderListAssumption
  PROVE  OrderListSpec => []HeaderLeadsThroughList
<1>1. OrderListInit => ListTyped /\ ReaderOK
  BY ListInitially
<1>2. (ListTyped /\ ReaderOK) /\ [OrderListNext]_listVars => (ListTyped /\ ReaderOK)'
  BY ListStep
<1>3. ListTyped /\ ReaderOK => HeaderLeadsThroughList
  <2> SUFFICES ASSUME ListTyped, ReaderOK, Reading, ~shrunk, due # {}
               PROVE  /\ reader.pc = "end" => due \subseteq seen
                      /\ reader.page <= PagesCount(Len(Rows(reader.of)))
    BY DEF HeaderLeadsThroughList
  <2>1. PICK rows : rows = Rows(reader.of)
    OBVIOUS
  <2>2. /\ reader.pc = "end" => due \subseteq seen
        /\ (reader.page - 1) * perPage < Len(rows)
    BY <2>1, Zenon DEF ReaderOK, ReadOn
  <2>3. reader.page \in Nat \ {0} /\ perPage \in Nat \ {0}
    BY DEF OrderListAssumption, ListTyped, OrderListTypeOK
  <2>4. rows \in Seq(Orders)
    <3>1. placed \in Seq(Orders) /\ Distinct(placed) /\ reader.of \in Readers \cup {Admin}
      BY DEF ListTyped, OrderListTypeOK, IsInjective, Distinct
    <3> QED
      BY <2>1, <3>1, ListsAreRead DEF ListsRead, LastFirst
  <2>5. reader.page <= PagesCount(Len(rows))
    BY <2>2, <2>3, <2>4, PagesReach
  <2> QED
    BY <2>1, <2>2, <2>5
<1> QED
  BY <1>1, <1>2, <1>3, PTL DEF OrderListSpec

-----------------------------------------------------------------------------
(* Sums *)

\* f is the recursive function that the sum of w over S stands for.
PickOf(t) == CHOOSE x \in t : TRUE
IsSum(f, w, S) == f = [t \in SUBSET S |-> IF t = {} THEN 0 ELSE w[PickOf(t)] + f[t \ {PickOf(t)}]]
SumOver(w, S) == (CHOOSE f : IsSum(f, w, S))[S]

LEMMA SameSum ==
  ASSUME NEW S, NEW v, NEW w, \A i \in S : v[i] = w[i]
  PROVE  SumOver(v, S) = SumOver(w, S)
<1>1. ASSUME NEW t \in SUBSET S, t # {} PROVE PickOf(t) \in S
  BY <1>1 DEF PickOf
<1>2. ASSUME NEW f PROVE IsSum(f, v, S) <=> IsSum(f, w, S)
  <2>1. [t \in SUBSET S |-> IF t = {} THEN 0 ELSE v[PickOf(t)] + f[t \ {PickOf(t)}]]
         = [t \in SUBSET S |-> IF t = {} THEN 0 ELSE w[PickOf(t)] + f[t \ {PickOf(t)}]]
    BY <1>1
  <2> QED
    BY <2>1 DEF IsSum
<1> QED
  BY <1>2 DEF SumOver

LEMMA PickedFrom == ASSUME NEW t, t # {} PROVE PickOf(t) \in t
  BY DEF PickOf

LEMMA Remains ==
  ASSUME NEW t, IsFiniteSet(t), NEW x \in t
  PROVE  /\ IsFiniteSet(t \ {x}) /\ Cardinality(t) \in Nat /\ Cardinality(t \ {x}) \in Nat
         /\ Cardinality(t \ {x}) = Cardinality(t) - 1
BY FS_RemoveElement, FS_CardinalityType

LEMMA SumExists ==
  ASSUME NEW S, IsFiniteSet(S), NEW w
  PROVE  \E f : IsSum(f, w, S)
<1> DEFINE Small(n) == {t \in SUBSET S : Cardinality(t) <= n}
           IsPart(f, n) == f = [t \in Small(n) |-> IF t = {} THEN 0
                                  ELSE w[PickOf(t)] + f[t \ {PickOf(t)}]]
           N == {n \in Nat : \E f : IsPart(f, n)}
<1>1. \A t \in SUBSET S : IsFiniteSet(t) /\ Cardinality(t) \in Nat
  BY FS_Subset, FS_CardinalityType
<1>2. 0 \in N
  <2>1. \A t \in Small(0) : t = {}
    BY <1>1, FS_EmptySet
  <2>2. IsPart([t \in Small(0) |-> 0], 0)
    BY <2>1
  <2> QED
    BY <2>2
<1>3. ASSUME NEW n \in N PROVE n + 1 \in N
  <2>1. PICK f : IsPart(f, n)
    OBVIOUS
  <2> DEFINE g == [t \in Small(n + 1) |-> IF t \in Small(n) THEN f[t]
                    ELSE w[PickOf(t)] + f[t \ {PickOf(t)}]]
  <2>2. ASSUME NEW t \in Small(n + 1), t # {}
        PROVE  t \ {PickOf(t)} \in Small(n)
    <3>1. PickOf(t) \in t /\ t \in SUBSET S /\ Cardinality(t) <= n + 1
      BY <2>2, PickedFrom
    <3>2. Cardinality(t \ {PickOf(t)}) = Cardinality(t) - 1
      BY <1>1, <3>1, FS_RemoveElement
    <3> QED
      BY <1>1, <3>1, <3>2
  <2>3. ASSUME NEW t \in Small(n + 1)
        PROVE  g[t] = IF t = {} THEN 0 ELSE w[PickOf(t)] + g[t \ {PickOf(t)}]
    <3>1. CASE t \in Small(n)
      <4>1. Small(n) \subseteq Small(n + 1)
        BY <1>1
      <4>2. g[t] = f[t]
        BY <3>1
      <4>3. f[t] = IF t = {} THEN 0 ELSE w[PickOf(t)] + f[t \ {PickOf(t)}]
        BY <2>1, <3>1
      <4>4. t # {} => t \ {PickOf(t)} \in Small(n) /\ t \ {PickOf(t)} \in Small(n + 1)
        BY <2>2, <4>1
      <4>5. t # {} => g[t \ {PickOf(t)}] = f[t \ {PickOf(t)}]
        BY <4>4
      <4> QED
        BY <4>2, <4>3, <4>5
    <3>2. CASE t \notin Small(n)
      <4>1. t # {}
        <5>1. Cardinality({}) = 0 /\ n \in Nat /\ 0 <= n
          BY FS_EmptySet
        <5>2. {} \in Small(n)
          BY <5>1
        <5> QED
          BY <3>2, <5>2
      <4>2. g[t] = w[PickOf(t)] + f[t \ {PickOf(t)}]
        BY <3>2
      <4>3. g[t \ {PickOf(t)}] = f[t \ {PickOf(t)}]
        <5>1. t \ {PickOf(t)} \in Small(n) /\ t \ {PickOf(t)} \in Small(n + 1)
          BY <1>1, <2>2, <4>1
        <5> QED
          BY <5>1
      <4> QED
        BY <4>1, <4>2, <4>3
    <3> QED
      BY <3>1, <3>2
  <2>4. g = [t \in Small(n + 1) |-> g[t]]
    OBVIOUS
  <2>5. IsPart(g, n + 1)
    <3> HIDE DEF g, Small
    <3> QED
      BY <2>3, <2>4
  <2> HIDE DEF g, IsPart
  <2> QED
    BY <2>5
<1>4. N = Nat
  <2>1. N \subseteq Nat
    BY DEF N
  <2> HIDE DEF N
  <2> QED
    BY <1>2, <1>3, <2>1, AllNaturals
<1>5. Cardinality(S) \in N /\ Small(Cardinality(S)) = SUBSET S
  BY <1>1, <1>4, FS_Subset, FS_CardinalityType
<1> QED
  BY <1>5 DEF IsSum

\* The sum over a part of S is the value there of the function for S.
LEMMA SumOfPart ==
  ASSUME NEW S, IsFiniteSet(S), NEW w, NEW f, IsSum(f, w, S)
  PROVE  \A t \in SUBSET S : f[t] = SumOver(w, t)
<1> DEFINE N == {n \in Nat : \A t \in SUBSET S : Cardinality(t) <= n => f[t] = SumOver(w, t)}
<1>1. \A t \in SUBSET S : IsFiniteSet(t) /\ Cardinality(t) \in Nat
  BY FS_Subset, FS_CardinalityType
<1>2. \A t \in SUBSET S : f[t] = IF t = {} THEN 0 ELSE w[PickOf(t)] + f[t \ {PickOf(t)}]
  BY DEF IsSum
<1>3. ASSUME NEW T \in SUBSET S, NEW g, IsSum(g, w, T) PROVE \A t \in SUBSET T : f[t] = g[t]
  <2> DEFINE M == {n \in Nat : \A t \in SUBSET T : Cardinality(t) <= n => f[t] = g[t]}
  <2>1. \A t \in SUBSET T : g[t] = IF t = {} THEN 0 ELSE w[PickOf(t)] + g[t \ {PickOf(t)}]
    BY <1>3 DEF IsSum
  <2>2. 0 \in M
    <3>1. ASSUME NEW t \in SUBSET T, Cardinality(t) <= 0 PROVE f[t] = g[t]
      <4>1. t = {} /\ t \in SUBSET S
        BY <1>1, <3>1, FS_EmptySet
      <4> QED
        BY <4>1, <1>2, <2>1
    <3> QED
      BY <3>1
  <2>3. ASSUME NEW n \in M PROVE n + 1 \in M
    <3>1. ASSUME NEW t \in SUBSET T, Cardinality(t) <= n + 1, t # {} PROVE f[t] = g[t]
      <4> DEFINE u == t \ {PickOf(t)}
      <4>1. PickOf(t) \in t /\ t \in SUBSET S /\ u \in SUBSET T
        BY <3>1, PickedFrom
      <4>2. Cardinality(u) <= n
        BY <1>1, <3>1, <4>1, Remains
      <4>3. f[u] = g[u]
        BY <4>1, <4>2
      <4> QED
        BY <1>2, <2>1, <3>1, <4>1, <4>3
    <3>2. f[{}] = g[{}]
      BY <1>2, <2>1
    <3>3. n + 1 \in Nat
      OBVIOUS
    <3> QED
      BY <3>1, <3>2, <3>3
  <2>4. M \subseteq Nat
    OBVIOUS
  <2>5. M = Nat
    <3> HIDE DEF M
    <3> QED
      BY <2>2, <2>3, <2>4, AllNaturals
  <2> SUFFICES ASSUME NEW t \in SUBSET T PROVE f[t] = g[t]
    OBVIOUS
  <2>6. Cardinality(t) \in M
    BY <1>1, <2>5
  <2>7. t \in SUBSET S /\ Cardinality(t) \in Nat
    BY <1>1
  <2> QED
    BY <2>6, <2>7
<1>4. ASSUME NEW t \in SUBSET S PROVE f[t] = SumOver(w, t)
  <2>1. IsSum((CHOOSE g : IsSum(g, w, t)), w, t)
    BY <1>1, SumExists
  <2>2. \A u \in SUBSET t : f[u] = (CHOOSE g : IsSum(g, w, t))[u]
    BY <1>3, <2>1
  <2> QED
    BY <2>2 DEF SumOver
<1> QED
  BY <1>4

LEMMA SumStarts ==
  ASSUME NEW S, IsFiniteSet(S), NEW w
  PROVE  SumOver(w, S) = IF S = {} THEN 0 ELSE w[PickOf(S)] + SumOver(w, S \ {PickOf(S)})
<1>1. PICK f : IsSum(f, w, S)
  BY SumExists
<1>2. \A t \in SUBSET S : f[t] = SumOver(w, t)
  BY <1>1, SumOfPart
<1>3. f[S] = IF S = {} THEN 0 ELSE w[PickOf(S)] + f[S \ {PickOf(S)}]
  BY <1>1 DEF IsSum
<1>4. S \in SUBSET S /\ S \ {PickOf(S)} \in SUBSET S
  OBVIOUS
<1> QED
  BY <1>2, <1>3, <1>4

\* Whatever is taken first, the sum is a number and the same.
LEMMA SumTakes ==
  ASSUME NEW S, IsFiniteSet(S), NEW w, \A x \in S : w[x] \in Int
  PROVE  /\ SumOver(w, S) \in Int
         /\ \A x \in S : SumOver(w, S) = w[x] + SumOver(w, S \ {x})
<1> DEFINE Right(t) == /\ SumOver(w, t) \in Int
                       /\ \A x \in t : SumOver(w, t) = w[x] + SumOver(w, t \ {x})
           N == {n \in Nat : \A t \in SUBSET S : Cardinality(t) <= n => Right(t)}
<1>1. \A t \in SUBSET S : IsFiniteSet(t) /\ Cardinality(t) \in Nat
  BY FS_Subset, FS_CardinalityType
<1>2. Right({})
  <2>1. SumOver(w, {}) = 0
    BY SumStarts, FS_EmptySet
  <2> QED
    BY <2>1
<1>3. 0 \in N
  <2>1. \A t \in SUBSET S : Cardinality(t) <= 0 => t = {}
    BY <1>1, FS_EmptySet
  <2> HIDE DEF Right
  <2> QED
    BY <1>2, <2>1
<1>4. ASSUME NEW n \in N PROVE n + 1 \in N
  <2>1. ASSUME NEW t \in SUBSET S, Cardinality(t) <= n + 1, t # {} PROVE Right(t)
    <3> DEFINE y == PickOf(t)
               u == t \ {y}
    <3>1. y \in t /\ u \in SUBSET S /\ w[y] \in Int
      BY <2>1, PickedFrom
    <3>2. Cardinality(u) <= n
      BY <1>1, <2>1, <3>1, Remains
    <3>3. Right(u)
      BY <3>1, <3>2
    <3>4. SumOver(w, t) = w[y] + SumOver(w, u)
      BY <1>1, <2>1, SumStarts
    <3>5. ASSUME NEW x \in t, x # y PROVE SumOver(w, t) = w[x] + SumOver(w, t \ {x})
      <4> DEFINE v == t \ {x}
      <4>1. v \in SUBSET S /\ x \in u /\ y \in v /\ w[x] \in Int /\ u \ {x} = v \ {y} /\ v \ {y} \in SUBSET S
        BY <3>1, <3>5
      <4>2. Cardinality(v) <= n
        BY <1>1, <2>1, <3>5, Remains
      <4>3. Right(v)
        BY <4>1, <4>2
      <4>4. SumOver(w, u) = w[x] + SumOver(w, u \ {x})
        BY <3>3, <4>1
      <4>5. SumOver(w, v) = w[y] + SumOver(w, v \ {y})
        BY <4>3, <4>1
      <4>6. SumOver(w, v \ {y}) \in Int
        <5>1. Cardinality(v \ {y}) <= n
          BY <1>1, <4>1, <4>2, Remains
        <5> QED
          BY <4>1, <5>1
      <4> HIDE DEF y, u, v
      <4>7. SumOver(w, t) = w[x] + SumOver(w, v)
        BY <3>1, <3>4, <4>1, <4>4, <4>5, <4>6
      <4> QED
        BY <4>7 DEF v
    <3>6. SumOver(w, t) \in Int
      BY <3>1, <3>3, <3>4
    <3> QED
      BY <3>4, <3>5, <3>6
  <2>2. n + 1 \in Nat
    OBVIOUS
  <2> HIDE DEF Right
  <2> QED
    BY <1>2, <2>1, <2>2
<1>5. N = Nat
  <2>1. N \subseteq Nat
    OBVIOUS
  <2> HIDE DEF N
  <2> QED
    BY <1>3, <1>4, <2>1, AllNaturals
<1>6. Cardinality(S) \in N /\ Cardinality(S) \in Nat
  BY <1>1, <1>5
<1>7. Right(S)
  <2> HIDE DEF Right
  <2> QED
    BY <1>6
<1> QED
  BY <1>7

\* One more row, and a row that changes.
LEMMA SumGrows ==
  ASSUME NEW S, IsFiniteSet(S), NEW x, x \notin S, NEW w, \A y \in S \cup {x} : w[y] \in Int
  PROVE  SumOver(w, S \cup {x}) = w[x] + SumOver(w, S)
<1>1. IsFiniteSet(S \cup {x}) /\ (S \cup {x}) \ {x} = S
  BY FS_AddElement
<1> QED
  BY <1>1, SumTakes

LEMMA SumChanges ==
  ASSUME NEW S, IsFiniteSet(S), NEW x \in S, NEW v, NEW w,
         \A y \in S : v[y] \in Int /\ w[y] \in Int,
         \A y \in S \ {x} : v[y] = w[y]
  PROVE  SumOver(v, S) = SumOver(w, S) + (v[x] - w[x])
<1>1. SumOver(v, S \ {x}) = SumOver(w, S \ {x})
  BY SameSum
<1>2. SumOver(w, S \ {x}) \in Int
  <2>1. IsFiniteSet(S \ {x})
    BY FS_Subset
  <2> QED
    BY <2>1, SumTakes
<1>3. SumOver(v, S) = v[x] + SumOver(v, S \ {x}) /\ SumOver(w, S) = w[x] + SumOver(w, S \ {x})
  BY SumTakes
<1> QED
  BY <1>1, <1>2, <1>3

-----------------------------------------------------------------------------
(* Banks *)

WorkerRecord == [pc : {"idle", "check", "save", "remove"},
                 op : {"none", "pick", "create", "update", "delete"},
                 id : Banks \cup {NoBank}, entity : BankRow \cup {NoBank}, alone : BOOLEAN]

\* What a call holds that nothing has run beside.
LoneCall(c) ==
    /\ c.op = "pick" => /\ c.id \in Furthest
                        /\ \A b \in Banks : bank[b].lastOrder < c.entity.lastOrder
    /\ c.op = "create" => ~bank[c.id].there
    /\ c.op \in {"update", "delete"} => c.entity.lastOrder = bank[c.id].lastOrder

AccountFits(c) == \A b \in LiveBanks \ {c.id} : bank[b].account # c.entity.account

WorkerOK(w) ==
    /\ worker[w].pc # "idle" => worker[w].op # "none" /\ worker[w].id \in Banks
    /\ worker[w].pc \in {"check", "save"} =>
          worker[w].entity \in BankRow /\ worker[w].entity.there /\ worker[w].entity.lastOrder < clock
    /\ worker[w].alone => \A v \in BankWorkers \ {w} : worker[v].pc = "idle"
    /\ worker[w].alone /\ worker[w].pc \in {"check", "save"} => LoneCall(worker[w])
    /\ ~picksOverlapped /\ worker[w].pc # "idle" => worker[w].alone
    /\ ~picksOverlapped /\ worker[w].pc = "save" => AccountFits(worker[w])

PassedOK ==
    \A a, b \in Banks : <<a, b>> \in passed =>
        bank[a].there /\ bank[b].there /\ bank[b].lastOrder < bank[a].lastOrder

BanksInv ==
    /\ BanksTypeOK
    /\ \A b \in Banks : bank[b].lastOrder < clock
    /\ \A w \in BankWorkers : WorkerOK(w)
    /\ PassedOK
    /\ BanksTakeTurns
    /\ AccountsUnique

\* A call begins: nothing that is kept of the banks changes.
LEMMA BankCallBegan ==
  ASSUME BanksInv, NEW w \in BankWorkers, NEW e \in WorkerRecord, BankCallBegins(w, e),
         e.pc \in {"check", "save"}, e.op # "none", e.id \in Banks,
         e.entity \in BankRow, e.entity.there, e.entity.lastOrder < clock',
         clock' \in Nat, clock <= clock', edits' \in 0..MaxEdits,
         UNCHANGED <<bank, passed, skipped>>,
         BanksQuiet => LoneCall(e),
         ~picksOverlapped /\ BanksQuiet /\ e.pc = "save" => AccountFits(e)
  PROVE  BanksInv'
<1>1. /\ worker \in [BankWorkers -> WorkerRecord] /\ clock \in Nat
      /\ bank \in [Banks -> BankRow] /\ passed \subseteq Banks \X Banks
  BY DEF BanksInv, BanksTypeOK, WorkerRecord
<1>2. PICK q \in BOOLEAN : q = BanksQuiet
  BY Zenon DEF BanksQuiet
<1> DEFINE lone(c, b) == [c EXCEPT !.alone = b]
<1>3. \A c \in WorkerRecord, b \in BOOLEAN :
         /\ lone(c, b) \in WorkerRecord /\ lone(c, b).pc = c.pc /\ lone(c, b).op = c.op
         /\ lone(c, b).id = c.id /\ lone(c, b).entity = c.entity /\ lone(c, b).alone = b
  BY DEF WorkerRecord
<1>4. worker' = [v \in BankWorkers |-> IF v = w THEN lone(e, q) ELSE lone(worker[v], FALSE)]
  BY <1>2 DEF BankCallBegins
<1> HIDE DEF lone
<1>5. worker' \in [BankWorkers -> WorkerRecord]
  BY <1>1, <1>3, <1>4
<1>6. /\ worker'[w].pc = e.pc /\ worker'[w].op = e.op /\ worker'[w].id = e.id
      /\ worker'[w].entity = e.entity /\ worker'[w].alone = q
  BY <1>3, <1>4
<1>7. \A v \in BankWorkers \ {w} :
         /\ worker'[v].pc = worker[v].pc /\ worker'[v].op = worker[v].op /\ worker'[v].id = worker[v].id
         /\ worker'[v].entity = worker[v].entity /\ worker'[v].alone = FALSE
  BY <1>1, <1>3, <1>4
<1>8. picksOverlapped' = (picksOverlapped \/ ~q) /\ picksOverlapped' \in BOOLEAN
  BY <1>2 DEF BankCallBegins, BanksInv, BanksTypeOK
<1>9. BanksTypeOK'
  BY <1>1, <1>5, <1>8 DEF BanksTypeOK, BanksInv, WorkerRecord
<1>10. \A b \in Banks : bank'[b].lastOrder < clock'
  BY <1>1 DEF BanksInv, BankRow
<1>11. UNCHANGED <<LiveBanks, ActiveBanks, Waiting, Furthest>>
  BY DEF LiveBanks, ActiveBanks, Waiting, Furthest
<1>12. \A v \in BankWorkers : WorkerOK(v)'
  <2>1. WorkerOK(w)'
    <3>1. q => \A v \in BankWorkers \ {w} : worker'[v].pc = "idle"
      BY <1>2, <1>7 DEF BanksQuiet
    <3>2. q => LoneCall(worker[w])'
      BY <1>2, <1>6, <1>11 DEF LoneCall
    <3>3. ~picksOverlapped' /\ e.pc = "save" => AccountFits(worker[w])'
      <4>1. ~picksOverlapped' => ~picksOverlapped /\ q
        BY <1>8, <1>2, Zenon
      <4> QED
        BY <4>1, <1>2, <1>6, <1>11 DEF AccountFits
    <3> QED
      BY <3>1, <3>2, <3>3, <1>6, <1>8 DEF WorkerOK
  <2>2. ASSUME NEW v \in BankWorkers \ {w}
        PROVE  WorkerOK(v)'
    <3>1. WorkerOK(v)
      BY DEF BanksInv
    <3>2. worker[v].pc # "idle" => picksOverlapped'
      BY <1>2, <1>8 DEF BanksQuiet
    <3>3. worker[v].pc \in {"check", "save"} => worker[v].entity.lastOrder < clock'
      BY <3>1, <1>1 DEF WorkerOK, BankRow
    <3> QED
      BY <3>1, <3>2, <3>3, <1>7 DEF WorkerOK
  <2> QED
    BY <2>1, <2>2
<1>13. PassedOK' /\ BanksTakeTurns'
  BY DEF BanksInv, PassedOK, BanksTakeTurns
<1>14. AccountsUnique'
  BY <1>8, <1>11 DEF BanksInv, AccountsUnique
<1> QED
  BY <1>9, <1>10, <1>12, <1>13, <1>14 DEF BanksInv

LEMMA BanksTyped ==
  ASSUME BanksInv
  PROVE  /\ worker \in [BankWorkers -> WorkerRecord] /\ bank \in [Banks -> BankRow]
         /\ clock \in Nat /\ edits \in 0..MaxEdits /\ passed \subseteq Banks \X Banks
         /\ skipped \in BOOLEAN /\ picksOverlapped \in BOOLEAN
         /\ \A b \in Banks : bank[b].lastOrder \in Nat
BY DEF BanksInv, BanksTypeOK, WorkerRecord, BankRow

LEMMA PickKeeps ==
  ASSUME BanksInv, NEW w \in BankWorkers, Pick(w)
  PROVE  BanksInv'
<1>1. PICK b \in Furthest :
         BankCallBegins(w, [RestingWorker EXCEPT !.pc = "save", !.op = "pick", !.id = b,
                                                 !.entity = [bank[b] EXCEPT !.lastOrder = clock]])
  BY DEF Pick
<1>2. b \in LiveBanks /\ b \in Banks
  BY <1>1 DEF Furthest, Waiting, ActiveBanks, LiveBanks
<1>3. PICK n : n = [bank[b] EXCEPT !.lastOrder = clock]
  OBVIOUS
<1>4. n \in BankRow /\ n.there /\ n.lastOrder = clock /\ n.account = bank[b].account
  BY <1>2, <1>3, BanksTyped DEF BankRow, LiveBanks
<1>5. PICK e : e = [RestingWorker EXCEPT !.pc = "save", !.op = "pick", !.id = b, !.entity = n]
  OBVIOUS
<1>6. e \in WorkerRecord /\ e.pc = "save" /\ e.op = "pick" /\ e.id = b /\ e.entity = n
  BY <1>2, <1>4, <1>5 DEF RestingWorker, WorkerRecord
<1>7. BankCallBegins(w, e)
  BY <1>1, <1>3, <1>5
<1>8. clock' = clock + 1 /\ UNCHANGED <<bank, edits, passed, skipped>>
  BY DEF Pick
<1>9. LoneCall(e)
  BY <1>1, <1>4, <1>6 DEF LoneCall, BanksInv
<1>10. ~picksOverlapped => AccountFits(e)
  BY <1>2, <1>4, <1>6 DEF BanksInv, AccountsUnique, AccountFits
<1> QED
  BY <1>2, <1>4, <1>6, <1>7, <1>8, <1>9, <1>10, BanksTyped, BankCallBegan

LEMMA FindForCreateKeeps ==
  ASSUME BanksInv, NEW w \in BankWorkers, FindForCreate(w)
  PROVE  BanksInv'
<1>1. PICK b \in Banks, account \in Accounts, active \in BOOLEAN :
         /\ ~bank[b].there /\ ~Taken(account)
         /\ BankEditBegins(w, [RestingWorker EXCEPT !.pc = "save", !.op = "create", !.id = b, !.entity =
                [there |-> TRUE, deleted |-> FALSE, account |-> account, active |-> active, lastOrder |-> Never]])
  BY DEF FindForCreate
<1>2. PICK n : n = [there |-> TRUE, deleted |-> FALSE, account |-> account,
                    active |-> active, lastOrder |-> Never]
  OBVIOUS
<1>3. n \in BankRow /\ n.there /\ n.lastOrder = 0 /\ n.account = account
  BY <1>2 DEF BankRow, Never
<1>4. PICK e : e = [RestingWorker EXCEPT !.pc = "save", !.op = "create", !.id = b, !.entity = n]
  OBVIOUS
<1>5. e \in WorkerRecord /\ e.pc = "save" /\ e.op = "create" /\ e.id = b /\ e.entity = n
  BY <1>1, <1>3, <1>4 DEF RestingWorker, WorkerRecord
<1>6. BankEditBegins(w, e)
  BY <1>1, <1>2, <1>4
<1>7. /\ BankCallBegins(w, e) /\ edits' \in 0..MaxEdits
      /\ UNCHANGED <<bank, clock, passed, skipped>>
  BY <1>6, BanksTyped, BanksAssumption DEF BankEditBegins
<1>8. n.lastOrder < clock
  <2>1. bank[b].lastOrder < clock /\ bank[b].lastOrder \in Nat
    BY BanksTyped DEF BanksInv
  <2> QED
    BY <2>1, <1>3, BanksTyped
<1>9. LoneCall(e) /\ AccountFits(e)
  BY <1>1, <1>3, <1>5 DEF LoneCall, AccountFits, Taken
<1> QED
  BY <1>3, <1>5, <1>7, <1>8, <1>9, BanksTyped, BankCallBegan

LEMMA FindForUpdateKeeps ==
  ASSUME BanksInv, NEW w \in BankWorkers, FindForUpdate(w)
  PROVE  BanksInv'
<1>1. PICK b \in LiveBanks, account \in Accounts, active \in BOOLEAN :
         BankEditBegins(w, [RestingWorker EXCEPT
             !.pc = IF account # bank[b].account THEN "check" ELSE "save",
             !.op = "update", !.id = b,
             !.entity = [bank[b] EXCEPT !.account = account, !.active = active]])
  BY DEF FindForUpdate
<1>2. b \in Banks /\ bank[b].there
  BY <1>1 DEF LiveBanks
<1>3. PICK n : n = [bank[b] EXCEPT !.account = account, !.active = active]
  OBVIOUS
<1>4. /\ n \in BankRow /\ n.there /\ n.lastOrder = bank[b].lastOrder /\ n.account = account
  BY <1>2, <1>3, BanksTyped DEF BankRow
<1>5. PICK pc \in {"check", "save"} : pc = IF account # bank[b].account THEN "check" ELSE "save"
  OBVIOUS
<1>6. PICK e : e = [RestingWorker EXCEPT !.pc = pc, !.op = "update", !.id = b, !.entity = n]
  OBVIOUS
<1>7. e \in WorkerRecord /\ e.pc = pc /\ e.op = "update" /\ e.id = b /\ e.entity = n
  BY <1>2, <1>4, <1>6 DEF RestingWorker, WorkerRecord
<1>8. BankEditBegins(w, e)
  BY <1>1, <1>3, <1>5, <1>6
<1>9. /\ BankCallBegins(w, e) /\ edits' \in 0..MaxEdits
      /\ UNCHANGED <<bank, clock, passed, skipped>>
  BY <1>8, BanksTyped, BanksAssumption DEF BankEditBegins
<1>10. n.lastOrder < clock
  BY <1>2, <1>4 DEF BanksInv
<1>11. LoneCall(e)
  BY <1>4, <1>7 DEF LoneCall
<1>12. ~picksOverlapped /\ pc = "save" => AccountFits(e)
  BY <1>2, <1>4, <1>5, <1>7 DEF BanksInv, AccountsUnique, AccountFits
<1> QED
  BY <1>2, <1>4, <1>5, <1>7, <1>9, <1>10, <1>11, <1>12, BanksTyped, BankCallBegan

LEMMA FindForDeleteKeeps ==
  ASSUME BanksInv, NEW w \in BankWorkers, FindForDelete(w)
  PROVE  BanksInv'
<1>1. PICK b \in LiveBanks :
         BankEditBegins(w, [RestingWorker EXCEPT !.pc = "save", !.op = "delete", !.id = b,
                                                 !.entity = [bank[b] EXCEPT !.active = FALSE]])
  BY DEF FindForDelete
<1>2. b \in Banks /\ bank[b].there
  BY <1>1 DEF LiveBanks
<1>3. PICK n : n = [bank[b] EXCEPT !.active = FALSE]
  OBVIOUS
<1>4. n \in BankRow /\ n.there /\ n.lastOrder = bank[b].lastOrder /\ n.account = bank[b].account
  BY <1>2, <1>3, BanksTyped DEF BankRow
<1>5. PICK e : e = [RestingWorker EXCEPT !.pc = "save", !.op = "delete", !.id = b, !.entity = n]
  OBVIOUS
<1>6. e \in WorkerRecord /\ e.pc = "save" /\ e.op = "delete" /\ e.id = b /\ e.entity = n
  BY <1>2, <1>4, <1>5 DEF RestingWorker, WorkerRecord
<1>7. BankEditBegins(w, e)
  BY <1>1, <1>3, <1>5
<1>8. /\ BankCallBegins(w, e) /\ edits' \in 0..MaxEdits
      /\ UNCHANGED <<bank, clock, passed, skipped>>
  BY <1>7, BanksTyped, BanksAssumption DEF BankEditBegins
<1>9. n.lastOrder < clock
  BY <1>2, <1>4 DEF BanksInv
<1>10. LoneCall(e)
  BY <1>4, <1>6 DEF LoneCall
<1>11. ~picksOverlapped => AccountFits(e)
  BY <1>2, <1>4, <1>6 DEF BanksInv, AccountsUnique, AccountFits
<1> QED
  BY <1>2, <1>4, <1>6, <1>8, <1>9, <1>10, <1>11, BanksTyped, BankCallBegan

\* Beside a call in flight, another one is neither alone nor unnoticed.
LEMMA OthersNotAlone ==
  ASSUME BanksInv, NEW w \in BankWorkers, worker[w].pc # "idle",
         NEW v \in BankWorkers \ {w}, worker[v].pc # "idle"
  PROVE  ~worker[v].alone /\ picksOverlapped
BY BanksTyped DEF BanksInv, WorkerOK

\* A call makes its last step, or the next to last.
LEMMA OthersStay ==
  ASSUME BanksInv, NEW w \in BankWorkers, worker[w].pc # "idle",
         NEW r \in WorkerRecord, worker' = [worker EXCEPT ![w] = r],
         UNCHANGED <<clock, picksOverlapped>>
  PROVE  /\ worker' \in [BankWorkers -> WorkerRecord] /\ worker'[w] = r
         /\ \A v \in BankWorkers \ {w} : WorkerOK(v)'
         /\ worker[w].alone => \A v \in BankWorkers \ {w} : worker'[v].pc = "idle"
<1>1. /\ worker' \in [BankWorkers -> WorkerRecord] /\ worker'[w] = r
      /\ \A v \in BankWorkers \ {w} : worker'[v] = worker[v]
  BY BanksTyped
<1>2. ASSUME NEW v \in BankWorkers \ {w} PROVE WorkerOK(v)'
  <2>1. WorkerOK(v)
    BY DEF BanksInv
  <2>2. worker[v].alone => worker[v].pc = "idle"
    BY OthersNotAlone
  <2>3. ~picksOverlapped => worker[v].pc = "idle"
    BY OthersNotAlone
  <2>4. worker[v].alone => r.pc = "idle"
    BY <2>1 DEF WorkerOK
  <2>5. worker[v].alone => \A u \in BankWorkers \ {v} : worker'[u].pc = "idle"
    BY <1>1, <2>1, <2>4 DEF WorkerOK
  <2> QED
    BY <1>1, <2>1, <2>2, <2>3, <2>5 DEF WorkerOK
<1>3. worker[w].alone => \A v \in BankWorkers \ {w} : worker'[v].pc = "idle"
  BY <1>1 DEF BanksInv, WorkerOK
<1> QED
  BY <1>1, <1>2, <1>3

LEMMA AtRest ==
  /\ RestingWorker \in WorkerRecord /\ RestingWorker.pc = "idle" /\ ~RestingWorker.alone
BY DEF RestingWorker, WorkerRecord

LEMMA CheckAccountKeeps ==
  ASSUME BanksInv, NEW w \in BankWorkers, CheckAccount(w)
  PROVE  BanksInv'
<1> DEFINE going == [worker[w] EXCEPT !.pc = "save"]
<1>1. /\ worker[w].pc = "check" /\ worker[w] \in WorkerRecord
      /\ UNCHANGED <<bank, clock, edits, passed, skipped, picksOverlapped>>
  BY BanksTyped DEF CheckAccount
<1>2. PICK r : r = IF Taken(worker[w].entity.account) THEN RestingWorker ELSE going
  OBVIOUS
<1>3. worker' = [worker EXCEPT ![w] = r]
  BY <1>2 DEF CheckAccount, BankCallEnds, WorkerGoes
<1>4. /\ going \in WorkerRecord /\ going.pc = "save" /\ going.op = worker[w].op /\ going.id = worker[w].id
      /\ going.entity = worker[w].entity /\ going.alone = worker[w].alone
  BY <1>1 DEF WorkerRecord
<1> HIDE DEF going
<1>5. r \in WorkerRecord
  BY <1>2, <1>4, AtRest
<1>6. /\ worker' \in [BankWorkers -> WorkerRecord] /\ worker'[w] = r
      /\ \A v \in BankWorkers \ {w} : WorkerOK(v)'
      /\ worker[w].alone => \A v \in BankWorkers \ {w} : worker'[v].pc = "idle"
  BY <1>1, <1>3, <1>5, OthersStay
<1>7. UNCHANGED <<LiveBanks, ActiveBanks, Waiting, Furthest>>
  BY <1>1 DEF LiveBanks, ActiveBanks, Waiting, Furthest
<1>8. WorkerOK(w)'
  <2>1. CASE r = RestingWorker
    BY <2>1, <1>6, AtRest DEF WorkerOK
  <2>2. CASE r = going /\ ~Taken(worker[w].entity.account)
    <3>1. WorkerOK(w)
      BY DEF BanksInv
    <3>2. LoneCall(worker[w]) => LoneCall(worker[w])'
      BY <2>2, <1>1, <1>4, <1>6, <1>7 DEF LoneCall
    <3>3. AccountFits(worker[w])'
      BY <2>2, <1>1, <1>4, <1>6, <1>7 DEF AccountFits, Taken
    <3> QED
      BY <3>1, <3>2, <3>3, <2>2, <1>1, <1>4, <1>6 DEF WorkerOK
  <2> QED
    BY <2>1, <2>2, <1>2
<1>9. BanksTypeOK'
  BY <1>1, <1>6 DEF BanksInv, BanksTypeOK, WorkerRecord
<1>10. PassedOK' /\ BanksTakeTurns' /\ AccountsUnique'
  BY <1>1, <1>7 DEF BanksInv, PassedOK, BanksTakeTurns, AccountsUnique
<1> QED
  BY <1>1, <1>6, <1>8, <1>9, <1>10 DEF BanksInv

LEMMA RemoveBankKeeps ==
  ASSUME BanksInv, NEW w \in BankWorkers, RemoveBank(w)
  PROVE  BanksInv'
<1>1. /\ worker[w].pc = "remove" /\ worker[w] \in WorkerRecord
      /\ bank' = [bank EXCEPT ![worker[w].id].deleted = TRUE]
      /\ worker' = [worker EXCEPT ![w] = RestingWorker]
      /\ UNCHANGED <<clock, edits, passed, skipped, picksOverlapped>>
  BY BanksTyped DEF RemoveBank, BankCallEnds
<1>2. /\ worker' \in [BankWorkers -> WorkerRecord] /\ worker'[w] = RestingWorker
      /\ \A v \in BankWorkers \ {w} : WorkerOK(v)'
  BY <1>1, AtRest, OthersStay
<1>3. WorkerOK(w)'
  BY <1>2, AtRest DEF WorkerOK
<1> DEFINE gone(b) == [bank[b] EXCEPT !.deleted = TRUE]
<1>4. \A b \in Banks : /\ gone(b) \in BankRow /\ gone(b).deleted /\ gone(b).there = bank[b].there
                       /\ gone(b).account = bank[b].account /\ gone(b).lastOrder = bank[b].lastOrder
  BY BanksTyped DEF BankRow
<1>5. bank' = [b \in Banks |-> IF b = worker[w].id THEN gone(b) ELSE bank[b]]
  BY <1>1, BanksTyped
<1> HIDE DEF gone
<1>6. /\ bank' \in [Banks -> BankRow]
      /\ \A b \in Banks : /\ bank'[b].lastOrder = bank[b].lastOrder /\ bank'[b].there = bank[b].there
                          /\ bank'[b].account = bank[b].account /\ bank'[b].deleted \in {bank[b].deleted, TRUE}
  BY <1>4, <1>5, BanksTyped
<1>7. BanksTypeOK'
  BY <1>1, <1>2, <1>6 DEF BanksInv, BanksTypeOK, WorkerRecord
<1>8. PassedOK' /\ BanksTakeTurns'
  BY <1>1, <1>6 DEF BanksInv, PassedOK, BanksTakeTurns
<1>9. AccountsUnique'
  <2>1. LiveBanks' \subseteq LiveBanks
    BY <1>6 DEF LiveBanks
  <2> QED
    BY <2>1, <1>1, <1>6 DEF BanksInv, AccountsUnique, LiveBanks
<1> QED
  BY <1>1, <1>2, <1>3, <1>6, <1>7, <1>8, <1>9 DEF BanksInv

LEMMA SaveBankKeeps ==
  ASSUME BanksInv, NEW w \in BankWorkers, SaveBank(w)
  PROVE  BanksInv'
<1>1. /\ worker[w].pc = "save" /\ worker[w] \in WorkerRecord /\ worker[w].op # "none"
      /\ worker[w].alone \in BOOLEAN
      /\ PickCounts(w) /\ UNCHANGED <<clock, edits, picksOverlapped>>
  BY BanksTyped DEF SaveBank, WorkerRecord, BanksInv, WorkerOK
<1>2. PICK a \in Banks, n \in BankRow :
         /\ a = worker[w].id /\ n = worker[w].entity /\ n.there /\ n.lastOrder < clock
         /\ worker[w].alone => LoneCall(worker[w])
         /\ ~picksOverlapped => worker[w].alone /\ AccountFits(worker[w])
  BY <1>1 DEF BanksInv, WorkerOK
<1>3. bank' = [bank EXCEPT ![a] = n]
  BY <1>2 DEF SaveBank
<1>4. bank' \in [Banks -> BankRow] /\ bank'[a] = n /\ \A b \in Banks \ {a} : bank'[b] = bank[b]
  BY <1>3, BanksTyped
<1>5. n.lastOrder \in Nat
  BY DEF BankRow
<1> DEFINE going == [worker[w] EXCEPT !.pc = "remove"]
<1>6. PICK r : r = IF worker[w].op = "delete" THEN going ELSE RestingWorker
  OBVIOUS
<1>7. worker' = [worker EXCEPT ![w] = r]
  BY <1>6 DEF SaveBank, BankCallEnds, WorkerGoes
<1>8. /\ going \in WorkerRecord /\ going.pc = "remove" /\ going.op = worker[w].op
      /\ going.id = worker[w].id /\ going.alone = worker[w].alone
  BY <1>1 DEF WorkerRecord
<1> HIDE DEF going
<1>9. r \in WorkerRecord /\ (r = going \/ r = RestingWorker)
  BY <1>6, <1>8, AtRest
<1>10. /\ worker' \in [BankWorkers -> WorkerRecord] /\ worker'[w] = r
       /\ \A v \in BankWorkers \ {w} : WorkerOK(v)'
       /\ worker[w].alone => \A v \in BankWorkers \ {w} : worker'[v].pc = "idle"
  BY <1>1, <1>7, <1>9, OthersStay
<1>11. WorkerOK(w)'
  BY <1>1, <1>2, <1>8, <1>9, <1>10, AtRest DEF WorkerOK
<1>12. \A b \in Banks : bank'[b].lastOrder < clock'
  BY <1>1, <1>2, <1>4 DEF BanksInv
<1>13. /\ passed' \subseteq Banks \X Banks /\ skipped' = skipped /\ PassedOK'
  <2>1. CASE worker[w].alone /\ worker[w].op = "pick"
    <3>1. /\ skipped' = (skipped \/ \E b \in Waiting \ {a} : <<a, b>> \in passed)
          /\ passed' = {p \in passed : p[2] # a} \cup {<<a, b>> : b \in Waiting \ {a}}
      BY <2>1, <1>1, <1>2 DEF PickCounts
    <3>2. a \in Furthest /\ \A b \in Banks : bank[b].lastOrder < n.lastOrder
      BY <2>1, <1>2 DEF LoneCall
    <3>3. Waiting \subseteq Banks /\ \A b \in Waiting : bank[b].there
      BY DEF Waiting, ActiveBanks, LiveBanks
    <3>4. \A b \in Waiting : <<a, b>> \notin passed
      <4> SUFFICES ASSUME NEW b \in Waiting, <<a, b>> \in passed PROVE FALSE
        OBVIOUS
      <4>1. bank[a].lastOrder <= bank[b].lastOrder
        BY <3>2 DEF Furthest
      <4>2. bank[b].lastOrder < bank[a].lastOrder
        BY <3>3 DEF BanksInv, PassedOK
      <4> QED
        BY <4>1, <4>2, <3>3, BanksTyped
    <3>5. skipped' = skipped
      BY <3>1, <3>4, BanksTyped
    <3>6. passed' \subseteq Banks \X Banks
      BY <3>1, <3>3, BanksTyped
    <3>7. PassedOK'
      <4> SUFFICES ASSUME NEW x \in Banks, NEW b \in Banks, <<x, b>> \in passed'
                   PROVE  /\ bank'[x].there /\ bank'[b].there
                          /\ bank'[b].lastOrder < bank'[x].lastOrder
        BY DEF PassedOK
      <4>1. b # a /\ (<<x, b>> \in passed \/ (x = a /\ b \in Waiting))
        <5>1. CASE <<x, b>> \in {p \in passed : p[2] # a}
          <6>1. PICK p \in passed : p = <<x, b>> /\ p[2] # a
            BY <5>1
          <6> QED
            BY <6>1
        <5>2. CASE <<x, b>> \in {<<a, d>> : d \in Waiting \ {a}}
          BY <5>2
        <5> QED
          BY <5>1, <5>2, <3>1
      <4>2. bank'[b] = bank[b]
        BY <4>1, <1>4
      <4>3. <<x, b>> \in passed => bank[x].there /\ bank[b].there /\ bank[b].lastOrder < bank[x].lastOrder
        BY DEF BanksInv, PassedOK
      <4>4. CASE x = a
        BY <4>1, <4>2, <4>3, <4>4, <3>2, <3>3, <1>2, <1>4
      <4>5. CASE x # a
        BY <4>1, <4>2, <4>3, <4>5, <1>4
      <4> QED
        BY <4>4, <4>5
    <3> QED
      BY <3>5, <3>6, <3>7
  <2>2. CASE worker[w].alone /\ worker[w].op # "pick"
    <3>1. UNCHANGED <<passed, skipped>>
      BY <2>2, <1>1 DEF PickCounts
    <3>2. LoneCall(worker[w])
      BY <2>2, <1>2
    <3>3. worker[w].op \in {"create", "update", "delete"}
      BY <1>1, <2>2 DEF WorkerRecord
    <3>4. ~bank[a].there \/ n.lastOrder = bank[a].lastOrder
      BY <3>2, <3>3, <1>2 DEF LoneCall
    <3>5. PassedOK'
      BY <3>1, <3>4, <1>2, <1>4 DEF BanksInv, PassedOK
    <3> QED
      BY <3>1, <3>5, BanksTyped
  <2>3. CASE ~worker[w].alone
    BY <2>3, <1>1 DEF PickCounts, PassedOK
  <2> QED
    BY <2>1, <2>2, <2>3, <1>1
<1>14. BanksTypeOK'
  BY <1>1, <1>4, <1>10, <1>13 DEF BanksInv, BanksTypeOK, WorkerRecord
<1>15. BanksTakeTurns'
  BY <1>13 DEF BanksInv, BanksTakeTurns
<1>16. AccountsUnique'
  <2> SUFFICES ASSUME ~picksOverlapped, NEW b \in LiveBanks', NEW c \in LiveBanks',
                      bank'[b].account = bank'[c].account
               PROVE  b = c
    BY <1>1 DEF AccountsUnique
  <2>1. b \in Banks /\ c \in Banks /\ (b # a => b \in LiveBanks) /\ (c # a => c \in LiveBanks)
    BY <1>4 DEF LiveBanks
  <2>2. \A d \in LiveBanks \ {a} : bank[d].account # n.account
    BY <1>2 DEF AccountFits
  <2>3. \A d, e \in LiveBanks : bank[d].account = bank[e].account => d = e
    BY DEF BanksInv, AccountsUnique
  <2> QED
    BY <2>1, <2>2, <2>3, <1>4
<1> QED
  BY <1>10, <1>11, <1>12, <1>13, <1>14, <1>15, <1>16 DEF BanksInv

\* The maximum of finitely many naturals is one of them.
LEMMA MaxOfNaturals ==
  ASSUME NEW S \in SUBSET Nat, S # {}, IsFiniteSet(S)
  PROVE  Max(S) \in S /\ \A x \in S : x <= Max(S)
<1> DEFINE Sized(k) == {t \in SUBSET S : IsFiniteSet(t) /\ Cardinality(t) = k}
           HasMax(t) == \E x \in t : \A y \in t : y <= x
           N == {k \in Nat : \A t \in Sized(k) : t = {} \/ HasMax(t)}
<1>1. 0 \in N
  <2>1. \A t \in Sized(0) : t = {}
    BY FS_EmptySet
  <2> QED
    BY <2>1
<1>2. ASSUME NEW k \in N PROVE k + 1 \in N
  <2> SUFFICES ASSUME NEW t \in Sized(k + 1), t # {} PROVE HasMax(t)
    OBVIOUS
  <2>1. PICK x \in t : TRUE
    OBVIOUS
  <2>2. IsFiniteSet(t \ {x}) /\ Cardinality(t \ {x}) = k
    <3>1. IsFiniteSet(t \ {x}) /\ Cardinality(t \ {x}) = Cardinality(t) - 1
      BY <2>1, FS_RemoveElement
    <3> QED
      BY <3>1
  <2>3. t \ {x} \in Sized(k)
    BY <2>2
  <2>4. CASE t \ {x} = {}
    BY <2>1, <2>4
  <2>5. CASE HasMax(t \ {x})
    <3>1. PICK y \in t \ {x} : \A z \in t \ {x} : z <= y
      BY <2>5
    <3>2. t \subseteq Nat
      OBVIOUS
    <3>3. CASE y <= x
      <4>1. \A z \in t : z <= x
        BY <3>1, <3>2, <3>3, <2>1
      <4> QED
        BY <4>1, <2>1
    <3>4. CASE x <= y
      BY <3>1, <3>2, <3>4
    <3> QED
      BY <3>1, <3>2, <3>3, <3>4, <2>1
  <2> QED
    BY <2>3, <2>4, <2>5
<1>3. N = Nat
  <2> HIDE DEF N
  <2>1. N \in SUBSET Nat
    BY DEF N
  <2> QED
    BY <2>1, <1>1, <1>2, AllNaturals
<1>4. HasMax(S)
  <2>1. Cardinality(S) \in Nat
    BY FS_CardinalityType
  <2>2. S \in Sized(Cardinality(S))
    OBVIOUS
  <2> QED
    BY <2>1, <2>2, <1>3
<1>5. \E x \in S : \A y \in S : x >= y
  BY <1>4
<1>6. Max(S) \in S /\ \A y \in S : Max(S) >= y
  BY <1>5, Zenon DEF Max
<1> QED
  BY <1>6

LEMMA InitBanks ==
  ASSUME BanksInit
  PROVE  BanksInv
<1> DEFINE times == {StartBanks[b].lastOrder : b \in Banks}
<1>1. times # {} /\ times \subseteq Nat /\ IsFiniteSet(times)
  <2>1. IsFiniteSet(times)
    <3> DEFINE f == [b \in Banks |-> StartBanks[b].lastOrder]
    <3>1. f \in Surjection(Banks, times)
      BY DEF Surjection
    <3> QED
      BY <3>1, BanksAssumption, FS_Surjection
  <2>2. times # {} /\ times \subseteq Nat
    BY BanksAssumption DEF BankRow
  <2> QED
    BY <2>1, <2>2
<1>2. Max(times) \in times /\ \A x \in times : x <= Max(times)
  <2> HIDE DEF times
  <2> QED
    BY <1>1, MaxOfNaturals
<1>3. clock = 1 + Max(times)
  BY DEF BanksInit
<1>4. clock \in Nat /\ \A x \in times : x < clock
  <2> HIDE DEF times
  <2>1. Max(times) \in Nat
    BY <1>1, <1>2
  <2> QED
    BY <2>1, <1>1, <1>2, <1>3
<1>5. \A b \in Banks : StartBanks[b].lastOrder < clock
  BY <1>4
<1>6. /\ bank \in [Banks -> BankRow] /\ worker \in [BankWorkers -> WorkerRecord]
      /\ \A w \in BankWorkers : worker[w] = RestingWorker
  BY BanksAssumption, AtRest DEF BanksInit
<1>7. BanksTypeOK
  <2>1. edits = 0 /\ passed = {} /\ skipped = FALSE /\ picksOverlapped = FALSE
    BY DEF BanksInit
  <2>2. 0 \in 0..MaxEdits
    BY BanksAssumption
  <2> QED
    BY <2>1, <2>2, <1>4, <1>6 DEF BanksTypeOK, WorkerRecord
<1>8. \A w \in BankWorkers : WorkerOK(w)
  BY <1>6, AtRest DEF WorkerOK
<1>9. PassedOK /\ BanksTakeTurns
  BY DEF BanksInit, PassedOK, BanksTakeTurns
<1>10. AccountsUnique
  BY BanksAssumption DEF BanksInit, AccountsUnique, LiveBanks
<1> QED
  BY <1>5, <1>7, <1>8, <1>9, <1>10 DEF BanksInit, BanksInv

LEMMA BanksStep ==
  BanksInv /\ [BanksNext]_banksVars => BanksInv'
<1> SUFFICES ASSUME BanksInv, [BanksNext]_banksVars PROVE BanksInv'
  OBVIOUS
<1>1. ASSUME NEW w \in BankWorkers,
             \/ Pick(w) \/ FindForCreate(w) \/ FindForUpdate(w) \/ CheckAccount(w)
             \/ FindForDelete(w) \/ SaveBank(w) \/ RemoveBank(w)
      PROVE  BanksInv'
  BY <1>1, PickKeeps, FindForCreateKeeps, FindForUpdateKeeps, CheckAccountKeeps, FindForDeleteKeeps,
     SaveBankKeeps, RemoveBankKeeps
<1>2. CASE UNCHANGED banksVars
  <2>1. /\ UNCHANGED <<bank, worker, clock, edits, passed, skipped, picksOverlapped>>
        /\ UNCHANGED <<LiveBanks, Furthest>>
    BY <1>2 DEF banksVars, LiveBanks, Waiting, ActiveBanks, Furthest
  <2>2. \A w \in BankWorkers : WorkerOK(w) => WorkerOK(w)'
    BY <2>1 DEF WorkerOK, LoneCall, AccountFits
  <2>3. BanksTypeOK' /\ PassedOK' /\ BanksTakeTurns' /\ AccountsUnique'
    BY <2>1 DEF BanksInv, BanksTypeOK, PassedOK, BanksTakeTurns, AccountsUnique
  <2> QED
    BY <2>1, <2>2, <2>3 DEF BanksInv
<1> QED
  BY <1>1, <1>2 DEF BanksNext

(* The banks, their calls and the turns keep their types, for any banks,    *)
(* accounts and numbers of calls.                                           *)
THEOREM BanksTypeCorrect == BanksSpec => []BanksTypeOK
<1>1. BanksInv => BanksTypeOK
  BY DEF BanksInv
<1> QED
  BY <1>1, InitBanks, BanksStep, PTL DEF BanksSpec

(* While a bank that had an order waits, no other is picked twice, for any  *)
(* number of banks, checkouts and edits by the admin.                       *)
THEOREM BanksPickedInTurn == BanksSpec => []BanksTakeTurns
<1>1. BanksInv => BanksTakeTurns
  BY DEF BanksInv
<1> QED
  BY <1>1, InitBanks, BanksStep, PTL DEF BanksSpec

(* Unless calls overlap, no two banks have one account number, for any      *)
(* number of banks, creations, updates, deletions and picks.                *)
THEOREM BanksDiffer == BanksSpec => []AccountsUnique
<1>1. BanksInv => AccountsUnique
  BY DEF BanksInv
<1> QED
  BY <1>1, InitBanks, BanksStep, PTL DEF BanksSpec

-----------------------------------------------------------------------------
(* Addresses *)

TaskRecord == [pc : {"idle", "save", "delete", "set"}, user : Users \cup {NoOne},
         id : Addresses \cup {NoOne}, entity : AddressRow]

\* What a worker at work may rely on; more of it if nobody else is at work.
TaskOK(w) ==
    task[w].pc # "idle" =>
        /\ task[w].id \in Addresses /\ address[task[w].id].there
        /\ task[w].pc = "save" => task[w].entity.there
        /\ task[w].pc = "set" => task[w].user \in Users
        /\ task[w].pc = "delete" /\ OwnerOf[task[w].id] \in addressSettled => ~address[task[w].id].isDefault
        /\ addressLone = w =>
              /\ \A v \in AddressWorkers \ {w} : task[v].pc = "idle"
              /\ task[w].pc = "save" /\ OwnerOf[task[w].id] \in addressSettled =>
                    task[w].entity = address[task[w].id]
              /\ task[w].pc = "set" => \A a \in Mine(task[w].user) : ~address[a].isDefault

HasOneDefault(u) == \E a \in Addresses : Default(u) = {a}

AddressesInv ==
    /\ AddressesTypeOK
    /\ \A w \in AddressWorkers : TaskOK(w)
    /\ \A u \in addressSettled : HasOneDefault(u)

LEMMA AddressesTyped ==
  ASSUME AddressesInv
  PROVE  /\ address \in [Addresses -> AddressRow] /\ task \in [AddressWorkers -> TaskRecord]
         /\ made \in 0..MaxCalls /\ addressLone \in AddressWorkers \cup {NoOne}
         /\ addressSettled \subseteq Users
         /\ OwnerOf \in [Addresses -> Users] /\ MaxCalls \in Nat
         /\ \A w \in AddressWorkers : task[w].pc = "idle" \/ task[w].id \in Addresses
BY AddressesAssumption DEF AddressesInv, AddressesTypeOK, TaskRecord, TaskOK

LEMMA AtRestTask ==
  /\ RestingTask \in TaskRecord /\ RestingTask.pc = "idle"
BY DEF RestingTask, TaskRecord, NoAddress, AddressRow

\* A user's default is not touched where the user's addresses are not.
LEMMA SameDefault ==
  ASSUME NEW u \in Users,
         \A a \in Addresses : OwnerOf[a] = u => address'[a] = address[a],
         HasOneDefault(u)
  PROVE  HasOneDefault(u)'
<1>1. Default(u)' = Default(u)
  BY DEF Default, ShownTo, Mine
<1> QED
  BY <1>1 DEF HasOneDefault

LEMMA CreateAddressKeeps ==
  ASSUME AddressesInv, NEW w \in AddressWorkers, CreateAddress(w)
  PROVE  AddressesInv'
<1>1. PICK a \in Addresses, isDefault \in BOOLEAN :
        /\ ~address[a].there
        /\ address' = [address EXCEPT ![a] = [there |-> TRUE, deleted |-> FALSE, isDefault |-> isDefault]]
        /\ addressSettled' = IF isDefault THEN addressSettled \ {OwnerOf[a]} ELSE addressSettled
        /\ TaskBegins(w) /\ UNCHANGED task
  BY DEF CreateAddress
<1>2. PICK r \in AddressRow : r = [there |-> TRUE, deleted |-> FALSE, isDefault |-> isDefault]
  BY DEF AddressRow
<1>3. r.there /\ ~r.deleted /\ r.isDefault = isDefault
  BY <1>2
<1>4. /\ address' \in [Addresses -> AddressRow] /\ address'[a] = r
      /\ \A b \in Addresses \ {a} : address'[b] = address[b]
  BY <1>1, <1>2, AddressesTyped
<1>5. /\ made' \in 0..MaxCalls /\ task[w].pc = "idle"
      /\ addressLone' \in {w, NoOne} /\ (addressLone' = w => AtWork = {})
      /\ NoOne \notin AddressWorkers
  BY <1>1, AddressesTyped, AddressesAssumption DEF TaskBegins
<1>6. AddressesTypeOK'
  BY <1>1, <1>4, <1>5, AddressesTyped DEF AddressesTypeOK, TaskRecord
<1>7. ASSUME NEW v \in AddressWorkers PROVE TaskOK(v)'
  <2>1. TaskOK(v)
    BY DEF AddressesInv
  <2>2. task[v].pc # "idle" => addressLone' # v
    BY <1>5 DEF AtWork
  <2>3. task[v].pc # "idle" => address'[task[v].id] = address[task[v].id]
    BY <1>1, <1>4, <2>1 DEF TaskOK
  <2> QED
    BY <1>1, <2>1, <2>2, <2>3 DEF TaskOK
<1>8. ASSUME NEW u \in addressSettled' PROVE HasOneDefault(u)'
  <2>1. u \in Users /\ HasOneDefault(u)
    BY <1>1, AddressesTyped DEF AddressesInv
  <2>2. CASE OwnerOf[a] # u
    BY <2>1, <2>2, <1>4, SameDefault
  <2>3. CASE OwnerOf[a] = u
    <3>1. ~isDefault
      BY <1>1, <2>3
    <3>2. Default(u)' = Default(u)
      BY <1>1, <1>3, <1>4, <3>1 DEF Default, ShownTo, Mine
    <3> QED
      BY <2>1, <3>2 DEF HasOneDefault
  <2> QED
    BY <2>2, <2>3
<1> QED
  BY <1>6, <1>7, <1>8 DEF AddressesInv

\* A call begins, and changes no address yet.
LEMMA FoundKeeps ==
  ASSUME AddressesInv, NEW w \in AddressWorkers, NEW a \in LiveAddresses, NEW r \in TaskRecord,
         TaskBegins(w), task' = [task EXCEPT ![w] = r], UNCHANGED address,
         r.pc \in {"save", "delete"}, r.id = a,
         addressSettled' \subseteq addressSettled,
         r.pc = "save" => r.entity.there,
         r.pc = "save" /\ OwnerOf[a] \in addressSettled' => r.entity = address[a],
         r.pc = "delete" /\ OwnerOf[a] \in addressSettled' => ~address[a].isDefault
  PROVE  AddressesInv'
<1>1. /\ made' \in 0..MaxCalls /\ task[w].pc = "idle"
      /\ addressLone' \in {w, NoOne} /\ (addressLone' = w => AtWork = {})
      /\ NoOne \notin AddressWorkers
  BY AddressesTyped, AddressesAssumption DEF TaskBegins
<1>2. /\ task' \in [AddressWorkers -> TaskRecord] /\ task'[w] = r
      /\ \A v \in AddressWorkers \ {w} : task'[v] = task[v]
  BY AddressesTyped
<1>3. AddressesTypeOK'
  BY <1>1, <1>2, AddressesTyped DEF AddressesTypeOK, TaskRecord
<1>4. TaskOK(w)'
  <2>1. addressLone' = w => \A v \in AddressWorkers \ {w} : task'[v].pc = "idle"
    BY <1>1, <1>2 DEF AtWork
  <2> QED
    BY <2>1, <1>2 DEF TaskOK, LiveAddresses
<1>5. ASSUME NEW v \in AddressWorkers \ {w} PROVE TaskOK(v)'
  <2>1. TaskOK(v)
    BY DEF AddressesInv
  <2>2. addressLone' # v
    BY <1>1
  <2> QED
    BY <2>1, <2>2, <1>2 DEF TaskOK
<1>6. ASSUME NEW u \in addressSettled' PROVE HasOneDefault(u)'
  BY AddressesTyped, SameDefault DEF AddressesInv
<1> QED
  BY <1>3, <1>4, <1>5, <1>6 DEF AddressesInv

LEMMA FindAddressToUpdateKeeps ==
  ASSUME AddressesInv, NEW w \in AddressWorkers, FindAddressToUpdate(w)
  PROVE  AddressesInv'
<1>1. PICK a \in LiveAddresses, isDefault \in BOOLEAN :
        /\ TaskBegins(w) /\ UNCHANGED address
        /\ task' = [task EXCEPT ![w] = [RestingTask EXCEPT !.pc = "save", !.id = a,
                                            !.entity = [address[a] EXCEPT !.isDefault = isDefault]]]
        /\ addressSettled' = IF isDefault # address[a].isDefault
                             THEN addressSettled \ {OwnerOf[a]} ELSE addressSettled
  BY DEF FindAddressToUpdate
<1>2. a \in Addresses /\ address[a].there /\ address[a] \in AddressRow
  BY <1>1, AddressesTyped DEF LiveAddresses
<1>3. PICK n : n = [address[a] EXCEPT !.isDefault = isDefault]
  OBVIOUS
<1>4. n \in AddressRow /\ n.there /\ (isDefault = address[a].isDefault => n = address[a])
  BY <1>2, <1>3 DEF AddressRow
<1>5. PICK r : r = [RestingTask EXCEPT !.pc = "save", !.id = a, !.entity = n]
  OBVIOUS
<1>6. r \in TaskRecord /\ r.pc = "save" /\ r.id = a /\ r.entity = n
  BY <1>2, <1>4, <1>5 DEF RestingTask, TaskRecord, NoAddress, AddressRow
<1>7. task' = [task EXCEPT ![w] = r]
  BY <1>1, <1>3, <1>5
<1> QED
  BY <1>1, <1>4, <1>6, <1>7, FoundKeeps

LEMMA FindAddressToDeleteKeeps ==
  ASSUME AddressesInv, NEW w \in AddressWorkers, FindAddressToDelete(w)
  PROVE  AddressesInv'
<1>1. PICK a \in LiveAddresses :
        /\ TaskBegins(w) /\ UNCHANGED address
        /\ task' = [task EXCEPT ![w] = [RestingTask EXCEPT !.pc = "delete", !.id = a]]
        /\ addressSettled' = IF address[a].isDefault
                             THEN addressSettled \ {OwnerOf[a]} ELSE addressSettled
  BY DEF FindAddressToDelete
<1>2. a \in Addresses
  BY <1>1 DEF LiveAddresses
<1>3. PICK r : r = [RestingTask EXCEPT !.pc = "delete", !.id = a]
  OBVIOUS
<1>4. r \in TaskRecord /\ r.pc = "delete" /\ r.id = a
  BY <1>2, <1>3 DEF RestingTask, TaskRecord, NoAddress, AddressRow
<1> QED
  BY <1>1, <1>3, <1>4, FoundKeeps

\* The last query of a call, as the others see it: they were not alone.
LEMMA OtherTasksStay ==
  ASSUME AddressesInv, NEW w \in AddressWorkers, task[w].pc # "idle", TaskEnds(w),
         UNCHANGED <<made, addressLone>>,
         address' \in [Addresses -> AddressRow], addressSettled' \subseteq Users,
         \A a \in Addresses : address[a].there => address'[a].there,
         \A v \in AddressWorkers \ {w} :
            task[v].pc = "delete" /\ task[v].id \in Addresses /\ addressLone # w
            /\ OwnerOf[task[v].id] \in addressSettled'
            => /\ OwnerOf[task[v].id] \in addressSettled
               /\ address'[task[v].id].isDefault = address[task[v].id].isDefault
  PROVE  AddressesTypeOK' /\ \A v \in AddressWorkers : TaskOK(v)'
<1>1. /\ task' \in [AddressWorkers -> TaskRecord] /\ task'[w] = RestingTask
      /\ \A v \in AddressWorkers \ {w} : task'[v] = task[v]
  BY AddressesTyped, AtRestTask DEF TaskEnds
<1>2. AddressesTypeOK'
  BY <1>1, AddressesTyped DEF AddressesTypeOK, TaskRecord
<1>3. TaskOK(w)'
  BY <1>1, AtRestTask DEF TaskOK
<1>4. ASSUME NEW v \in AddressWorkers \ {w} PROVE TaskOK(v)'
  <2>1. TaskOK(v) /\ TaskOK(w)
    BY DEF AddressesInv
  <2>2. task[v].pc # "idle" => addressLone # v /\ addressLone # w
    BY <2>1 DEF TaskOK
  <2> QED
    BY <2>1, <2>2, <1>1 DEF TaskOK
<1> QED
  BY <1>2, <1>3, <1>4

LEMMA SaveAddressKeeps ==
  ASSUME AddressesInv, NEW w \in AddressWorkers, SaveAddress(w)
  PROVE  AddressesInv'
<1>1. /\ task[w].pc = "save" /\ TaskEnds(w) /\ UNCHANGED <<made, addressLone>>
      /\ addressSettled' = IF addressLone = w THEN addressSettled
                           ELSE addressSettled \ {OwnerOf[task[w].id]}
  BY DEF SaveAddress
<1>2. PICK a \in Addresses, n \in AddressRow :
         /\ a = task[w].id /\ n = task[w].entity /\ n.there
         /\ addressLone = w /\ OwnerOf[a] \in addressSettled => n = address[a]
  BY <1>1, AddressesTyped DEF AddressesInv, TaskOK, TaskRecord
<1>3. /\ address' = [address EXCEPT ![a] = n] /\ address' \in [Addresses -> AddressRow]
      /\ address'[a] = n /\ \A b \in Addresses \ {a} : address'[b] = address[b]
  BY <1>1, <1>2, AddressesTyped DEF SaveAddress
<1>4. AddressesTypeOK' /\ \A v \in AddressWorkers : TaskOK(v)'
  BY <1>1, <1>2, <1>3, AddressesTyped, OtherTasksStay
<1>5. ASSUME NEW u \in addressSettled' PROVE HasOneDefault(u)'
  <2>1. u \in addressSettled /\ u \in Users /\ HasOneDefault(u)
    BY <1>1, AddressesTyped DEF AddressesInv
  <2>2. OwnerOf[a] = u => n = address[a]
    BY <1>1, <1>2, <2>1
  <2>3. \A b \in Addresses : OwnerOf[b] = u => address'[b] = address[b]
    BY <1>3, <2>2
  <2> QED
    BY <2>1, <2>3, SameDefault
<1> QED
  BY <1>4, <1>5 DEF AddressesInv

LEMMA DeleteAddressKeeps ==
  ASSUME AddressesInv, NEW w \in AddressWorkers, DeleteAddress(w)
  PROVE  AddressesInv'
<1>1. /\ task[w].pc = "delete" /\ TaskEnds(w) /\ UNCHANGED <<made, addressLone, addressSettled>>
      /\ address' = [address EXCEPT ![task[w].id].deleted = TRUE]
  BY DEF DeleteAddress
<1>2. PICK a \in Addresses : a = task[w].id /\ (OwnerOf[a] \in addressSettled => ~address[a].isDefault)
  BY <1>1 DEF AddressesInv, TaskOK
<1>3. PICK n : n = [address[a] EXCEPT !.deleted = TRUE]
  OBVIOUS
<1>4. /\ n \in AddressRow /\ n.isDefault = address[a].isDefault /\ n.there = address[a].there
  BY <1>3, AddressesTyped DEF AddressRow
<1>5. /\ address' \in [Addresses -> AddressRow] /\ address'[a] = n
      /\ \A b \in Addresses \ {a} : address'[b] = address[b]
  BY <1>1, <1>2, <1>3, <1>4, AddressesTyped
<1>6. AddressesTypeOK' /\ \A v \in AddressWorkers : TaskOK(v)'
  BY <1>1, <1>4, <1>5, AddressesTyped, OtherTasksStay
<1>7. ASSUME NEW u \in addressSettled' PROVE HasOneDefault(u)'
  <2>1. u \in addressSettled /\ u \in Users /\ HasOneDefault(u)
    BY <1>1, AddressesTyped DEF AddressesInv
  <2>2. CASE OwnerOf[a] # u
    BY <2>1, <2>2, <1>5, SameDefault
  <2>3. CASE OwnerOf[a] = u
    <3>1. Default(u)' = Default(u)
      BY <2>1, <2>3, <1>2, <1>4, <1>5 DEF Default, ShownTo, Mine
    <3> QED
      BY <2>1, <3>1 DEF HasOneDefault
  <2> QED
    BY <2>2, <2>3
<1> QED
  BY <1>6, <1>7 DEF AddressesInv

LEMMA ClearDefaultKeeps ==
  ASSUME AddressesInv, NEW w \in AddressWorkers, ClearDefault(w)
  PROVE  AddressesInv'
<1>1. PICK u \in Users, a \in Addresses :
        /\ address[a].there /\ TaskBegins(w) /\ address' = Cleared(u)
        /\ task' = [task EXCEPT ![w] = [RestingTask EXCEPT !.pc = "set", !.user = u, !.id = a]]
        /\ addressSettled' = addressSettled \ {u, OwnerOf[a]}
  BY DEF ClearDefault
<1> DEFINE plain(b) == [address[b] EXCEPT !.isDefault = FALSE]
<1>2. \A b \in Addresses : /\ plain(b) \in AddressRow /\ plain(b).there = address[b].there
                           /\ plain(b).isDefault = FALSE
  BY AddressesTyped DEF AddressRow
<1>3. address' = [b \in Addresses |-> IF b \in Mine(u) THEN plain(b) ELSE address[b]]
  BY <1>1 DEF Cleared
<1> HIDE DEF plain
<1>4. /\ address' \in [Addresses -> AddressRow]
      /\ \A b \in Addresses : /\ address'[b].there = address[b].there
                              /\ address'[b].isDefault => address[b].isDefault
                              /\ OwnerOf[b] # u => address'[b] = address[b]
                              /\ OwnerOf[b] = u /\ address[b].there => ~address'[b].isDefault
  BY <1>2, <1>3, AddressesTyped DEF Mine
<1>5. PICK r : r = [RestingTask EXCEPT !.pc = "set", !.user = u, !.id = a]
  OBVIOUS
<1>6. r \in TaskRecord /\ r.pc = "set" /\ r.user = u /\ r.id = a
  BY <1>5 DEF RestingTask, TaskRecord, NoAddress, AddressRow
<1>7. /\ task' \in [AddressWorkers -> TaskRecord] /\ task'[w] = r
      /\ \A v \in AddressWorkers \ {w} : task'[v] = task[v]
  BY <1>1, <1>5, <1>6, AddressesTyped
<1>8. /\ made' \in 0..MaxCalls /\ task[w].pc = "idle"
      /\ addressLone' \in {w, NoOne} /\ (addressLone' = w => AtWork = {})
      /\ NoOne \notin AddressWorkers
  BY <1>1, AddressesTyped, AddressesAssumption DEF TaskBegins
<1>9. AddressesTypeOK'
  BY <1>1, <1>4, <1>7, <1>8, AddressesTyped DEF AddressesTypeOK, TaskRecord
<1>10. TaskOK(w)'
  <2>1. addressLone' = w => \A v \in AddressWorkers \ {w} : task'[v].pc = "idle"
    BY <1>7, <1>8 DEF AtWork
  <2>2. \A b \in Mine(u)' : ~address'[b].isDefault
    BY <1>4 DEF Mine
  <2> QED
    BY <2>1, <2>2, <1>1, <1>4, <1>6, <1>7 DEF TaskOK
<1>11. ASSUME NEW v \in AddressWorkers \ {w} PROVE TaskOK(v)'
  <2>1. TaskOK(v)
    BY DEF AddressesInv
  <2>2. addressLone' # v
    BY <1>8
  <2> QED
    BY <2>1, <2>2, <1>1, <1>4, <1>7 DEF TaskOK
<1>12. ASSUME NEW x \in addressSettled' PROVE HasOneDefault(x)'
  <2>1. x \in addressSettled /\ x \in Users /\ x # u /\ HasOneDefault(x)
    BY <1>1, AddressesTyped DEF AddressesInv
  <2> QED
    BY <2>1, <1>4, SameDefault
<1> QED
  BY <1>9, <1>10, <1>11, <1>12 DEF AddressesInv

LEMMA SetDefaultKeeps ==
  ASSUME AddressesInv, NEW w \in AddressWorkers, SetDefault(w)
  PROVE  AddressesInv'
<1>1. /\ task[w].pc = "set" /\ TaskEnds(w) /\ UNCHANGED <<made, addressLone>>
      /\ address' = [address EXCEPT ![task[w].id].isDefault = TRUE]
  BY DEF SetDefault
<1>2. PICK a \in Addresses, u \in Users :
         /\ a = task[w].id /\ u = task[w].user /\ address[a].there
         /\ addressLone = w => \A b \in Mine(u) : ~address[b].isDefault
  BY <1>1 DEF AddressesInv, TaskOK
<1>3. PICK n : n = [address[a] EXCEPT !.isDefault = TRUE]
  OBVIOUS
<1>4. /\ n \in AddressRow /\ n.isDefault
      /\ n.there = address[a].there /\ n.deleted = address[a].deleted
  BY <1>3, AddressesTyped DEF AddressRow
<1>5. /\ address' \in [Addresses -> AddressRow] /\ address'[a] = n
      /\ \A b \in Addresses \ {a} : address'[b] = address[b]
  BY <1>1, <1>2, <1>3, <1>4, AddressesTyped
<1>6. addressSettled' = IF addressLone = w /\ OwnerOf[a] = u /\ ~address[a].deleted
                        THEN addressSettled \cup {u} ELSE addressSettled \ {OwnerOf[a]}
  BY <1>2 DEF SetDefault
<1>7. AddressesTypeOK' /\ \A v \in AddressWorkers : TaskOK(v)'
  BY <1>1, <1>4, <1>5, <1>6, AddressesTyped, OtherTasksStay
<1>8. ASSUME NEW x \in addressSettled' PROVE HasOneDefault(x)'
  <2>1. CASE x # OwnerOf[a]
    <3>1. x \in addressSettled /\ x \in Users /\ HasOneDefault(x)
      BY <1>6, <2>1, AddressesTyped DEF AddressesInv
    <3> QED
      BY <3>1, <2>1, <1>5, SameDefault
  <2>2. CASE x = OwnerOf[a]
    <3>1. addressLone = w /\ x = u /\ OwnerOf[a] = u /\ ~address[a].deleted
      BY <1>6, <2>2
    <3>2. Default(u)' = {a}
      BY <3>1, <1>2, <1>4, <1>5 DEF Default, ShownTo, Mine
    <3> QED
      BY <3>1, <3>2 DEF HasOneDefault
  <2> QED
    BY <2>1, <2>2
<1> QED
  BY <1>7, <1>8 DEF AddressesInv

LEMMA TaskDiesKeeps ==
  ASSUME AddressesInv, NEW w \in AddressWorkers, TaskDies(w)
  PROVE  AddressesInv'
<1>1. task[w].pc # "idle" /\ TaskEnds(w) /\ UNCHANGED <<address, made, addressLone, addressSettled>>
  BY DEF TaskDies, AtWork
<1>2. AddressesTypeOK' /\ \A v \in AddressWorkers : TaskOK(v)'
  BY <1>1, AddressesTyped, OtherTasksStay
<1>3. ASSUME NEW u \in addressSettled' PROVE HasOneDefault(u)'
  BY <1>1, AddressesTyped, SameDefault DEF AddressesInv
<1> QED
  BY <1>2, <1>3 DEF AddressesInv

LEMMA InitAddresses ==
  ASSUME AddressesInit
  PROVE  AddressesInv
<1>1. NoAddress \in AddressRow /\ made = 0 /\ 0 \in 0..MaxCalls
  BY AddressesAssumption DEF NoAddress, AddressRow, AddressesInit
<1>2. AddressesTypeOK
  BY <1>1, AtRestTask DEF AddressesInit, AddressesTypeOK, TaskRecord
<1> QED
  BY <1>2, AtRestTask DEF AddressesInit, AddressesInv, TaskOK

LEMMA AddressesStep ==
  AddressesInv /\ [AddressesNext]_addressesVars => AddressesInv'
<1> SUFFICES ASSUME AddressesInv, [AddressesNext]_addressesVars PROVE AddressesInv'
  OBVIOUS
<1>1. ASSUME NEW w \in AddressWorkers,
             \/ CreateAddress(w) \/ FindAddressToUpdate(w) \/ SaveAddress(w)
             \/ FindAddressToDelete(w) \/ DeleteAddress(w)
             \/ ClearDefault(w) \/ SetDefault(w) \/ TaskDies(w)
      PROVE  AddressesInv'
  BY <1>1, CreateAddressKeeps, FindAddressToUpdateKeeps, SaveAddressKeeps, FindAddressToDeleteKeeps,
     DeleteAddressKeeps, ClearDefaultKeeps, SetDefaultKeeps, TaskDiesKeeps
<1>2. CASE UNCHANGED addressesVars
  <2>1. UNCHANGED <<address, task, made, addressLone, addressSettled>>
    BY <1>2 DEF addressesVars
  <2>2. \A w \in AddressWorkers : TaskOK(w) => TaskOK(w)'
    BY <2>1 DEF TaskOK, Mine
  <2>3. \A u \in addressSettled : HasOneDefault(u)'
    BY <2>1, SameDefault, AddressesTyped DEF AddressesInv
  <2> QED
    BY <2>1, <2>2, <2>3 DEF AddressesInv, AddressesTypeOK
<1> QED
  BY <1>1, <1>2 DEF AddressesNext

(* A user who set the default alone has exactly one, for any number of      *)
(* users, addresses, calls and deaths of the process.                       *)
THEOREM OneDefaultStands == AddressesSpec => []OneDefault
<1>1. AddressesInv => OneDefault
  BY FS_Singleton DEF AddressesInv, OneDefault, HasOneDefault
<1> QED
  BY <1>1, InitAddresses, AddressesStep, PTL DEF AddressesSpec

(* Addresses, calls and the users who have set a default keep their types,  *)
(* for any number of users, addresses and calls.                            *)
THEOREM AddressesTypes == AddressesSpec => []AddressesTypeOK
<1>1. AddressesInv => AddressesTypeOK
  BY DEF AddressesInv
<1> QED
  BY <1>1, InitAddresses, AddressesStep, PTL DEF AddressesSpec

-----------------------------------------------------------------------------
(* Chat *)

ChatCall == [pc : {"idle", "admin", "create", "touch", "insert", "announce", "ended"},
             client : Clients \cup {Nobody}, id : ChatCalls \cup {Nobody},
             first : BOOLEAN, socket : BOOLEAN]

\* A conversation is created by the last step of its call, and what it says of
\* the admin stays true.
ConversationOK(k) ==
    /\ conversation[k] # NoConversation => chat[k].pc = "ended"
    /\ conversation[k] = NoConversation => messages[k] = 0
    /\ conversation[k].hasAdmin => rootAdmin

\* Who sends the first message of a conversation over the socket knows it.
ChatCallOK(c) ==
    /\ chat[c].pc \in {"admin", "create"} => chat[c].client \in Clients
    /\ chat[c].pc = "create" /\ chat[c].first => rootAdmin
    /\ chat[c].pc \in {"touch", "insert", "announce"} => chat[c].id \in Known
    /\ chat[c].pc \in {"touch", "insert"} /\ chat[c].id \notin direct /\ messages[chat[c].id] = 0 =>
          Announces(c)

\* Once a conversation has a message, somebody announces it.
AnnouncedOK(k) ==
    conversation[k].hasAdmin /\ messages[k] > 0 /\ k \notin direct \cup broken =>
        k \in announced \/ \E c \in ChatCalls : chat[c].pc = "announce" /\ chat[c].id = k

OneAtATime ==
    ~chatOverlapped =>
        /\ \A c, d \in Opening : c = d
        /\ \A c \in Opening : Of(chat[c].client) = {}
        /\ \A client \in Clients : \A j, k \in Of(client) : j = k

ChatInv ==
    /\ ChatTypeOK
    /\ \A k \in ChatCalls : ConversationOK(k) /\ ChatCallOK(k) /\ AnnouncedOK(k)
    /\ OneAtATime

LEMMA ChatTyped ==
  ASSUME ChatInv
  PROVE  /\ conversation \in [ChatCalls -> Conversation] /\ messages \in [ChatCalls -> Nat]
         /\ chat \in [ChatCalls -> ChatCall]
         /\ announced \subseteq ChatCalls /\ direct \subseteq ChatCalls /\ broken \subseteq ChatCalls
         /\ rootAdmin \in BOOLEAN /\ chatOverlapped \in BOOLEAN
         /\ Nobody \notin ChatCalls /\ Nobody \notin Clients
BY ChatAssumption DEF ChatInv, ChatTypeOK, ChatCall

LEMMA EndedTyped ==
  /\ FreshChat \in ChatCall /\ FreshChat.pc = "idle"
  /\ ChatEnded \in ChatCall /\ ChatEnded.pc = "ended"
BY DEF ChatEnded, FreshChat, ChatCall

\* A call goes on or ends, and no conversation is new.
LEMMA CallMoves ==
  ASSUME ChatInv, NEW c \in ChatCalls, NEW r \in ChatCall, chat' = [chat EXCEPT ![c] = r],
         UNCHANGED conversation, messages' \in [ChatCalls -> Nat], announced' \subseteq ChatCalls,
         direct \subseteq direct', direct' \subseteq ChatCalls,
         broken \subseteq broken', broken' \subseteq ChatCalls, announced \subseteq announced',
         rootAdmin' \in BOOLEAN, rootAdmin => rootAdmin', chatOverlapped' \in BOOLEAN,
         \A k \in ChatCalls : messages[k] <= messages'[k],
         \A k \in ChatCalls \ Known : messages'[k] = messages[k],
         chat[c].pc # "ended",
         r.pc \in {"admin", "create"} => r.client \in Clients,
         r.pc = "create" /\ r.first => rootAdmin',
         r.pc \in {"touch", "insert", "announce"} => r.id \in Known,
         r.pc \in {"touch", "insert"} /\ r.id \notin direct' /\ messages'[r.id] = 0 => r.socket /\ r.first,
         \A k \in ChatCalls : AnnouncedOK(k)', OneAtATime'
  PROVE  ChatInv'
<1>1. /\ chat' \in [ChatCalls -> ChatCall] /\ chat'[c] = r
      /\ \A d \in ChatCalls \ {c} : chat'[d] = chat[d]
  BY ChatTyped
<1>2. ChatTypeOK'
  BY <1>1, ChatTyped DEF ChatTypeOK, ChatCall
<1>3. Known' = Known
  BY DEF Known
<1>4. ASSUME NEW k \in ChatCalls PROVE ConversationOK(k)'
  <2>1. ConversationOK(k)
    BY DEF ChatInv
  <2> QED
    BY <2>1, <1>1 DEF ConversationOK, Known
<1>5. ChatCallOK(c)'
  BY <1>1, <1>3 DEF ChatCallOK, Announces
<1>6. ASSUME NEW d \in ChatCalls \ {c} PROVE ChatCallOK(d)'
  <2>1. ChatCallOK(d)
    BY DEF ChatInv
  <2>2. \A k \in ChatCalls : messages'[k] = 0 => messages[k] = 0
    BY ChatTyped
  <2>3. Known \subseteq ChatCalls
    BY DEF Known
  <2> QED
    BY <2>1, <2>2, <2>3, <1>1, <1>3 DEF ChatCallOK, Announces
<1> QED
  BY <1>2, <1>4, <1>5, <1>6 DEF ChatInv

LEMMA MessagesStay ==
  ASSUME ChatInv, UNCHANGED messages
  PROVE  /\ messages' \in [ChatCalls -> Nat]
         /\ \A k \in ChatCalls : messages[k] <= messages'[k]
         /\ \A k \in ChatCalls \ Known : messages'[k] = messages[k]
BY ChatTyped

\* What keeps AnnouncedOK: a call that was to announce is still there.
LEMMA StillAnnounced ==
  ASSUME ChatInv, NEW c \in ChatCalls, NEW r, chat' = [chat EXCEPT ![c] = r],
         UNCHANGED <<conversation, messages, announced>>,
         direct \subseteq direct', broken \subseteq broken', chat[c].pc # "announce"
  PROVE  \A k \in ChatCalls : AnnouncedOK(k)'
<1> SUFFICES ASSUME NEW k \in ChatCalls PROVE AnnouncedOK(k)'
  OBVIOUS
<1>1. AnnouncedOK(k)
  BY DEF ChatInv
<1>2. ASSUME NEW d \in ChatCalls, chat[d].pc = "announce" PROVE chat'[d] = chat[d]
  BY <1>2, ChatTyped
<1> QED
  BY <1>1, <1>2 DEF AnnouncedOK

\* What keeps OneAtATime: no call begins to open a conversation.
LEMMA StillOneAtATime ==
  ASSUME ChatInv, NEW c \in ChatCalls, NEW r \in ChatCall, chat' = [chat EXCEPT ![c] = r],
         UNCHANGED <<conversation, chatOverlapped>>,
         r.pc \in {"admin", "create"} => chat[c].pc \in {"admin", "create"} /\ r.client = chat[c].client
  PROVE  OneAtATime'
<1>1. /\ chat'[c] = r /\ \A d \in ChatCalls \ {c} : chat'[d] = chat[d]
  BY ChatTyped
<1>2. Opening' \subseteq Opening /\ \A d \in Opening' : chat'[d].client = chat[d].client
  BY <1>1 DEF Opening
<1>3. \A client : Of(client)' = Of(client)
  BY DEF Of
<1> QED
  BY <1>2, <1>3 DEF ChatInv, OneAtATime

LEMMA FindConversationKeeps ==
  ASSUME ChatInv, NEW c \in ChatCalls, FindConversation(c)
  PROVE  ChatInv'
<1>1. PICK client \in Clients, r \in ChatCall :
        /\ chat' = [chat EXCEPT ![c] = r]
        /\ \/ r = ChatEnded
           \/ r.pc = "admin" /\ r.client = client /\ Of(client) = {}
  <2>1. PICK client \in Clients :
          chat' = [chat EXCEPT ![c] = IF Of(client) # {} THEN ChatEnded
                                      ELSE [FreshChat EXCEPT !.pc = "admin", !.client = client]]
    BY DEF FindConversation
  <2>2. PICK r : r = [FreshChat EXCEPT !.pc = "admin", !.client = client]
    OBVIOUS
  <2>3. r \in ChatCall /\ r.pc = "admin" /\ r.client = client
    BY <2>2 DEF FreshChat, ChatCall
  <2>4. CASE Of(client) # {}
    BY <2>1, <2>4, EndedTyped
  <2>5. CASE Of(client) = {}
    BY <2>1, <2>2, <2>3, <2>5
  <2> QED
    BY <2>4, <2>5
<1>2. /\ chat'[c] = r /\ \A d \in ChatCalls \ {c} : chat'[d] = chat[d]
      /\ chat[c].pc = "idle" /\ chatOverlapped' \in BOOLEAN
      /\ UNCHANGED <<rootAdmin, conversation, messages, announced, direct, broken>>
  BY <1>1, ChatTyped DEF FindConversation
<1>3. \A k \in ChatCalls : AnnouncedOK(k)'
  BY <1>1, <1>2, StillAnnounced
<1>4. OneAtATime'
  <2>1. SUFFICES ASSUME ~chatOverlapped'
                 PROVE  /\ \A x, d \in Opening' : x = d
                        /\ \A x \in Opening' : Of(chat[x].client)' = {}
                        /\ \A u \in Clients : \A j, k \in Of(u)' : j = k
    BY DEF OneAtATime
  <2>2. ~chatOverlapped /\ Opening = {}
    BY <2>1 DEF FindConversation
  <2>3. \A u : Of(u)' = Of(u)
    BY <1>2 DEF Of
  <2>4. Opening' \subseteq {c} /\ (c \in Opening' => r.pc = "admin")
    BY <1>1, <1>2, <2>2, EndedTyped DEF Opening
  <2>5. \A u \in Clients : \A j, k \in Of(u) : j = k
    BY <2>2 DEF ChatInv, OneAtATime
  <2>6. r.pc = "admin" => Of(r.client) = {}
    BY <1>1, EndedTyped
  <2> QED
    BY <1>2, <2>3, <2>4, <2>5, <2>6
<1>5. /\ r.pc \in {"admin", "create"} => r.client \in Clients
      /\ r.pc = "admin" \/ r.pc = "ended"
  BY <1>1, EndedTyped
<1> QED
  BY <1>1, <1>2, <1>3, <1>4, <1>5, ChatTyped, MessagesStay, CallMoves

LEMMA FindRootAdminKeeps ==
  ASSUME ChatInv, NEW c \in ChatCalls, FindRootAdmin(c)
  PROVE  ChatInv'
<1>1. PICK r : r = [chat[c] EXCEPT !.pc = "create", !.first = rootAdmin]
  OBVIOUS
<1>2. /\ r \in ChatCall /\ r.pc = "create" /\ r.first = rootAdmin /\ r.client = chat[c].client
      /\ chat[c].pc = "admin"
  <2>1. chat[c] \in ChatCall /\ rootAdmin \in BOOLEAN /\ chat[c].pc = "admin"
    BY ChatTyped DEF FindRootAdmin
  <2>2. PICK admin \in BOOLEAN : admin = rootAdmin
    BY <2>1
  <2>3. r = [chat[c] EXCEPT !.pc = "create", !.first = admin]
    BY <1>1, <2>2
  <2>4. r \in ChatCall /\ r.pc = "create" /\ r.first = admin /\ r.client = chat[c].client
    BY <2>1, <2>3 DEF ChatCall
  <2> QED
    BY <2>1, <2>2, <2>4
<1>3. /\ chat' = [chat EXCEPT ![c] = r]
      /\ UNCHANGED <<rootAdmin, conversation, messages, announced, chatOverlapped, direct, broken>>
  BY <1>1 DEF FindRootAdmin
<1>4. r.client \in Clients /\ (r.pc = "create" /\ r.first => rootAdmin')
  BY <1>2, <1>3 DEF ChatInv, ChatCallOK
<1>5. \A k \in ChatCalls : AnnouncedOK(k)'
  BY <1>2, <1>3, StillAnnounced
<1>6. OneAtATime'
  BY <1>2, <1>3, StillOneAtATime
<1> QED
  BY <1>2, <1>3, <1>4, <1>5, <1>6, ChatTyped, MessagesStay, CallMoves

LEMMA CreateConversationKeeps ==
  ASSUME ChatInv, NEW c \in ChatCalls, CreateConversation(c)
  PROVE  ChatInv'
<1>1. PICK row \in Conversation : row = [client |-> chat[c].client, hasAdmin |-> chat[c].first]
  BY ChatTyped DEF Conversation, ChatCall
<1>2. row.client = chat[c].client /\ row.hasAdmin = chat[c].first /\ row \in Conversation
  BY <1>1
<1>3. /\ chat[c].pc = "create" /\ chat' = [chat EXCEPT ![c] = ChatEnded]
      /\ conversation' = [conversation EXCEPT ![c] = row]
      /\ UNCHANGED <<rootAdmin, messages, announced, chatOverlapped, direct, broken>>
  BY <1>1 DEF CreateConversation
<1>4. /\ chat' \in [ChatCalls -> ChatCall] /\ chat'[c].pc = "ended"
      /\ \A d \in ChatCalls \ {c} : chat'[d] = chat[d]
      /\ conversation' \in [ChatCalls -> Conversation] /\ conversation'[c] = row
      /\ \A d \in ChatCalls \ {c} : conversation'[d] = conversation[d]
  BY <1>2, <1>3, ChatTyped, EndedTyped
<1>5. /\ chat[c].client \in Clients /\ (chat[c].first => rootAdmin)
      /\ conversation[c] = NoConversation /\ messages[c] = 0
      /\ chat[c].client # Nobody
  BY <1>3, ChatTyped DEF ChatInv, ChatCallOK, ConversationOK
<1>6. ChatTypeOK'
  BY <1>3, <1>4, ChatTyped DEF ChatTypeOK, ChatCall
<1>7. row # NoConversation
  BY <1>2, <1>5 DEF NoConversation
<1>8. Known \subseteq Known'
  BY <1>4, <1>5 DEF Known
<1>9. ASSUME NEW k \in ChatCalls PROVE ConversationOK(k)'
  <2>1. ConversationOK(k)
    BY DEF ChatInv
  <2> QED
    BY <2>1, <1>2, <1>3, <1>4, <1>5, <1>7 DEF ConversationOK
<1>10. ASSUME NEW d \in ChatCalls PROVE ChatCallOK(d)'
  <2>1. ChatCallOK(d)
    BY DEF ChatInv
  <2> QED
    BY <2>1, <1>3, <1>4, <1>8 DEF ChatCallOK, Announces
<1>11. ASSUME NEW k \in ChatCalls PROVE AnnouncedOK(k)'
  <2>1. AnnouncedOK(k)
    BY DEF ChatInv
  <2>2. ASSUME NEW d \in ChatCalls, chat[d].pc = "announce" PROVE chat'[d] = chat[d]
    BY <2>2, <1>3, <1>4
  <2> QED
    BY <2>1, <2>2, <1>3, <1>4, <1>5 DEF AnnouncedOK
<1>12. OneAtATime'
  <2>1. SUFFICES ASSUME ~chatOverlapped
                 PROVE  /\ \A x, d \in Opening' : x = d
                        /\ \A x \in Opening' : Of(chat[x].client)' = {}
                        /\ \A u \in Clients : \A j, k \in Of(u)' : j = k
    BY <1>3 DEF OneAtATime
  <2>2. /\ \A x, d \in Opening : x = d
        /\ \A x \in Opening : Of(chat[x].client) = {}
        /\ \A u \in Clients : \A j, k \in Of(u) : j = k
    BY <2>1 DEF ChatInv, OneAtATime
  <2>3. c \in Opening /\ Opening' \subseteq Opening \ {c}
    BY <1>3, <1>4 DEF Opening
  <2>4. Opening' = {}
    BY <2>2, <2>3
  <2>6. ASSUME NEW u \in Clients, u # chat[c].client PROVE Of(u)' = Of(u)
    <3>1. conversation'[c].client # u /\ conversation[c].client # u
      BY <1>2, <1>4, <1>5, <2>6, ChatTyped DEF NoConversation
    <3> QED
      BY <3>1, <1>4 DEF Of
  <2>7. ASSUME NEW u \in Clients PROVE \A j, k \in Of(u)' : j = k
    <3>1. CASE u = chat[c].client
      <4>1. Of(u) = {}
        BY <2>2, <2>3, <3>1
      <4> QED
        BY <4>1, <1>4 DEF Of
    <3>2. CASE u # chat[c].client
      BY <3>2, <2>2, <2>6
    <3> QED
      BY <3>1, <3>2
  <2> QED
    BY <2>4, <2>7
<1> QED
  BY <1>6, <1>9, <1>10, <1>11, <1>12 DEF ChatInv

LEMMA RootAdminCreatedKeeps ==
  ASSUME ChatInv, RootAdminCreated
  PROVE  ChatInv'
<1>1. rootAdmin' = TRUE /\ UNCHANGED <<conversation, messages, chat, announced, chatOverlapped, direct, broken>>
  BY DEF RootAdminCreated
<1>2. ChatTypeOK'
  BY <1>1, ChatTyped DEF ChatTypeOK, ChatCall
<1>3. ASSUME NEW k \in ChatCalls PROVE ConversationOK(k)' /\ ChatCallOK(k)' /\ AnnouncedOK(k)'
  <2>1. ConversationOK(k) /\ ChatCallOK(k) /\ AnnouncedOK(k)
    BY DEF ChatInv
  <2>2. ConversationOK(k)' /\ AnnouncedOK(k)'
    BY <1>1, <2>1 DEF ConversationOK, AnnouncedOK
  <2>3. Known' = Known
    BY <1>1 DEF Known
  <2> QED
    BY <1>1, <2>1, <2>2, <2>3 DEF ChatCallOK, Announces
<1>4. Opening' = Opening /\ \A u : Of(u)' = Of(u)
  BY <1>1 DEF Opening, Of
<1>5. OneAtATime'
  BY <1>1, <1>4 DEF ChatInv, OneAtATime
<1> QED
  BY <1>2, <1>3, <1>5 DEF ChatInv

\* A message is on its way, over the socket or over HTTP.
LEMMA MessageBegins ==
  ASSUME ChatInv, NEW c \in ChatCalls, NEW k \in Known, NEW r \in ChatCall,
         chat[c].pc = "idle", chat' = [chat EXCEPT ![c] = r],
         r.pc = "touch", r.id = k,
         messages[k] = 0 => (r.first /\ r.socket) \/ k \in direct',
         direct' \in {direct, direct \cup {k}},
         UNCHANGED <<rootAdmin, conversation, messages, announced, chatOverlapped, broken>>
  PROVE  ChatInv'
<1>1. k \in ChatCalls
  BY DEF Known
<1>2. direct \subseteq direct' /\ direct' \subseteq ChatCalls
  BY <1>1, ChatTyped
<1>3. \A j \in ChatCalls : AnnouncedOK(j)'
  BY <1>2, StillAnnounced
<1>4. OneAtATime'
  BY StillOneAtATime
<1>5. r.id \in Known /\ (r.id \notin direct' /\ messages'[r.id] = 0 => r.socket /\ r.first)
  OBVIOUS
<1> QED
  BY <1>2, <1>3, <1>4, <1>5, ChatTyped, MessagesStay, CallMoves

LEMMA CountMessagesKeeps ==
  ASSUME ChatInv, NEW c \in ChatCalls, CountMessages(c)
  PROVE  ChatInv'
<1>1. PICK k \in Known :
        chat' = [chat EXCEPT ![c] = [FreshChat EXCEPT !.pc = "touch", !.id = k,
                                                      !.first = messages[k] = 0, !.socket = TRUE]]
  BY DEF CountMessages
<1>2. PICK r : r = [FreshChat EXCEPT !.pc = "touch", !.id = k, !.first = messages[k] = 0, !.socket = TRUE]
  OBVIOUS
<1>3. r \in ChatCall /\ r.pc = "touch" /\ r.id = k /\ r.first = (messages[k] = 0) /\ r.socket
  BY <1>2 DEF FreshChat, ChatCall, Known
<1>4. chat' = [chat EXCEPT ![c] = r]
  BY <1>1, <1>2, Zenon
<1> QED
  BY <1>3, <1>4, MessageBegins DEF CountMessages

LEMMA SendOverHttpKeeps ==
  ASSUME ChatInv, NEW c \in ChatCalls, SendOverHttp(c)
  PROVE  ChatInv'
<1>1. PICK k \in Known :
        /\ chat' = [chat EXCEPT ![c] = [FreshChat EXCEPT !.pc = "touch", !.id = k]]
        /\ direct' = direct \cup {k}
  BY DEF SendOverHttp
<1>2. PICK r : r = [FreshChat EXCEPT !.pc = "touch", !.id = k]
  OBVIOUS
<1>3. r \in ChatCall /\ r.pc = "touch" /\ r.id = k
  BY <1>2 DEF FreshChat, ChatCall, Known
<1> QED
  BY <1>1, <1>2, <1>3, MessageBegins DEF SendOverHttp

LEMMA TouchConversationKeeps ==
  ASSUME ChatInv, NEW c \in ChatCalls, TouchConversation(c)
  PROVE  ChatInv'
<1>1. PICK r : r = [chat[c] EXCEPT !.pc = "insert"]
  OBVIOUS
<1>2. /\ r \in ChatCall /\ r.pc = "insert" /\ r.id = chat[c].id
      /\ r.first = chat[c].first /\ r.socket = chat[c].socket
      /\ chat[c].pc = "touch"
  BY <1>1, ChatTyped DEF TouchConversation, ChatCall
<1>3. /\ chat' = [chat EXCEPT ![c] = r]
      /\ UNCHANGED <<rootAdmin, conversation, messages, announced, chatOverlapped, direct, broken>>
  BY <1>1 DEF TouchConversation
<1>4. r.id \in Known /\ (r.id \notin direct /\ messages[r.id] = 0 => r.socket /\ r.first)
  BY <1>2 DEF ChatInv, ChatCallOK, Announces
<1>5. \A k \in ChatCalls : AnnouncedOK(k)'
  BY <1>2, <1>3, StillAnnounced
<1>6. OneAtATime'
  BY <1>2, <1>3, StillOneAtATime
<1> QED
  BY <1>2, <1>3, <1>4, <1>5, <1>6, ChatTyped, MessagesStay, CallMoves

LEMMA InsertMessageKeeps ==
  ASSUME ChatInv, NEW c \in ChatCalls, InsertMessage(c)
  PROVE  ChatInv'
<1> DEFINE k == chat[c].id
<1>1. /\ chat[c].pc = "insert" /\ k \in Known /\ k \in ChatCalls
      /\ k \notin direct /\ messages[k] = 0 => Announces(c)
  BY DEF InsertMessage, ChatInv, ChatCallOK, Known
<1>2. PICK r \in ChatCall :
        /\ chat' = [chat EXCEPT ![c] = r]
        /\ \/ r.pc = "announce" /\ r.id = k /\ Announces(c)
           \/ r.pc = "ended" /\ ~Announces(c)
  <2>1. PICK q : q = [chat[c] EXCEPT !.pc = "announce"]
    OBVIOUS
  <2>2. q \in ChatCall /\ q.pc = "announce" /\ q.id = k
    BY <2>1, ChatTyped DEF ChatCall
  <2>3. chat' = [chat EXCEPT ![c] = IF Announces(c) THEN q ELSE ChatEnded]
    BY <2>1 DEF InsertMessage
  <2>4. CASE Announces(c)
    BY <2>2, <2>3, <2>4
  <2>5. CASE ~Announces(c)
    BY <2>3, <2>5, EndedTyped
  <2> QED
    BY <2>4, <2>5
<1> HIDE DEF k
<1>3. /\ chat'[c] = r /\ \A d \in ChatCalls \ {c} : chat'[d] = chat[d]
      /\ UNCHANGED <<rootAdmin, conversation, announced, chatOverlapped, direct, broken>>
  BY <1>2, ChatTyped DEF InsertMessage
<1>4. /\ messages' \in [ChatCalls -> Nat] /\ messages'[k] = messages[k] + 1
      /\ \A j \in ChatCalls \ {k} : messages'[j] = messages[j]
      /\ messages[k] \in Nat
  BY <1>1, ChatTyped DEF InsertMessage, k
<1>5. /\ \A j \in ChatCalls : messages[j] <= messages'[j]
      /\ \A j \in ChatCalls \ Known : messages'[j] = messages[j]
  BY <1>1, <1>4, ChatTyped
<1>6. ASSUME NEW j \in ChatCalls PROVE AnnouncedOK(j)'
  <2>1. AnnouncedOK(j)
    BY DEF ChatInv
  <2>2. ASSUME NEW d \in ChatCalls, chat[d].pc = "announce" PROVE chat'[d] = chat[d]
    BY <2>2, <1>1, <1>3
  <2>3. CASE j = k /\ messages[k] = 0
    <3>1. ASSUME j \notin direct PROVE chat'[c].pc = "announce" /\ chat'[c].id = j
      BY <2>3, <3>1, <1>1, <1>2, <1>3
    <3> QED
      BY <3>1, <1>3 DEF AnnouncedOK
  <2>4. CASE j # k \/ messages[k] # 0
    <3>1. messages'[j] > 0 => messages[j] > 0
      BY <2>4, <1>4, ChatTyped
    <3> QED
      BY <3>1, <2>1, <2>2, <1>3 DEF AnnouncedOK
  <2> QED
    BY <2>3, <2>4
<1>7. OneAtATime'
  BY <1>2, <1>3, StillOneAtATime
<1>8. /\ r.pc \in {"announce", "ended"} /\ (r.pc = "announce" => r.id \in Known)
      /\ chat[c].pc # "ended"
  BY <1>1, <1>2
<1> QED
  BY <1>2, <1>3, <1>4, <1>5, <1>6, <1>7, <1>8, ChatTyped, CallMoves

LEMMA AnnounceKeeps ==
  ASSUME ChatInv, NEW c \in ChatCalls, Announce(c)
  PROVE  ChatInv'
<1> DEFINE k == chat[c].id
<1>1. chat[c].pc = "announce" /\ k \in ChatCalls
  BY DEF Announce, ChatInv, ChatCallOK, Known
<1>2. /\ chat' = [chat EXCEPT ![c] = ChatEnded]
      /\ UNCHANGED <<rootAdmin, conversation, messages, chatOverlapped, direct, broken>>
      /\ announced' = IF rootAdmin /\ conversation[k].hasAdmin THEN announced \cup {k} ELSE announced
  BY DEF Announce
<1> HIDE DEF k
<1>3. announced \subseteq announced' /\ announced' \subseteq ChatCalls
  BY <1>1, <1>2, ChatTyped
<1>4. ASSUME NEW j \in ChatCalls PROVE AnnouncedOK(j)'
  <2>1. AnnouncedOK(j) /\ (conversation[j].hasAdmin => rootAdmin)
    BY DEF ChatInv, ConversationOK
  <2>2. CASE j = k
    BY <2>1, <2>2, <1>2 DEF AnnouncedOK
  <2>3. CASE j # k
    <3>1. ASSUME NEW d \in ChatCalls, chat[d].pc = "announce", chat[d].id = j PROVE chat'[d] = chat[d]
      BY <3>1, <2>3, <1>2, ChatTyped DEF k
    <3> QED
      BY <3>1, <2>1, <1>2, <1>3 DEF AnnouncedOK
  <2> QED
    BY <2>2, <2>3
<1>5. OneAtATime'
  BY <1>2, EndedTyped, StillOneAtATime
<1> QED
  BY <1>1, <1>2, <1>3, <1>4, <1>5, EndedTyped, ChatTyped, MessagesStay, CallMoves

LEMMA ChatDiesKeeps ==
  ASSUME ChatInv, NEW c \in ChatCalls, ChatDies(c)
  PROVE  ChatInv'
<1>1. /\ chat' = [chat EXCEPT ![c] = ChatEnded]
      /\ chat[c].pc # "ended"
      /\ UNCHANGED <<rootAdmin, conversation, messages, announced, chatOverlapped, direct>>
      /\ broken' = IF chat[c].id = Nobody THEN broken ELSE broken \cup {chat[c].id}
  BY DEF ChatDies, Busy
<1>2. chat[c].id \in ChatCalls \cup {Nobody}
  BY ChatTyped DEF ChatCall
<1>3. broken \subseteq broken' /\ broken' \subseteq ChatCalls
  BY <1>1, <1>2, ChatTyped
<1>4. ASSUME NEW j \in ChatCalls PROVE AnnouncedOK(j)'
  <2>1. AnnouncedOK(j)
    BY DEF ChatInv
  <2>2. ASSUME NEW d \in ChatCalls, chat[d].pc = "announce", chat[d].id = j, j \notin broken'
        PROVE  chat'[d] = chat[d]
    BY <2>2, <1>1, ChatTyped
  <2> QED
    BY <2>1, <2>2, <1>1, <1>3 DEF AnnouncedOK
<1>5. OneAtATime'
  BY <1>1, EndedTyped, StillOneAtATime
<1> QED
  BY <1>1, <1>3, <1>4, <1>5, EndedTyped, ChatTyped, MessagesStay, CallMoves

LEMMA ChatInvariant == ChatSpec => []ChatInv
<1>1. ChatInit => ChatInv
  <2> SUFFICES ASSUME ChatInit PROVE ChatInv
    OBVIOUS
  <2>1. /\ rootAdmin \in BOOLEAN /\ announced = {} /\ direct = {} /\ broken = {} /\ chatOverlapped = FALSE
        /\ \A k \in ChatCalls : conversation[k] = NoConversation /\ messages[k] = 0
        /\ \A c \in ChatCalls : chat[c] = FreshChat
        /\ conversation \in [ChatCalls -> {NoConversation}] /\ messages \in [ChatCalls -> {0}]
        /\ chat \in [ChatCalls -> {FreshChat}]
    BY DEF ChatInit
  <2>2. NoConversation \in Conversation /\ NoConversation.client = Nobody /\ NoConversation.hasAdmin = FALSE
    BY DEF NoConversation, Conversation
  <2>3. ChatTypeOK
    <3>1. conversation \in [ChatCalls -> Conversation] /\ messages \in [ChatCalls -> Nat]
      BY <2>1, <2>2
    <3>2. chat \in [ChatCalls -> ChatCall]
      BY <2>1, EndedTyped
    <3> QED
      BY <2>1, <3>1, <3>2 DEF ChatTypeOK, ChatCall
  <2>4. ASSUME NEW k \in ChatCalls PROVE ConversationOK(k) /\ ChatCallOK(k) /\ AnnouncedOK(k)
    <3>1. chat[k].pc = "idle"
      BY <2>1, EndedTyped
    <3> QED
      BY <2>1, <2>2, <3>1 DEF ConversationOK, ChatCallOK, AnnouncedOK
  <2>5. Opening = {}
    BY <2>1, EndedTyped DEF Opening
  <2>6. \A client \in Clients : Of(client) = {}
    BY <2>1, <2>2, ChatAssumption DEF Of
  <2> QED
    BY <2>3, <2>4, <2>5, <2>6 DEF ChatInv, OneAtATime
<1>2. ChatInv /\ [ChatNext]_chatVars => ChatInv'
  <2> SUFFICES ASSUME ChatInv, [ChatNext]_chatVars PROVE ChatInv'
    OBVIOUS
  <2>1. CASE RootAdminCreated
    BY <2>1, RootAdminCreatedKeeps
  <2>2. ASSUME NEW c \in ChatCalls,
               FindConversation(c) \/ FindRootAdmin(c) \/ CreateConversation(c)
        PROVE  ChatInv'
    BY <2>2, FindConversationKeeps, FindRootAdminKeeps, CreateConversationKeeps
  <2>3. ASSUME NEW c \in ChatCalls,
               CountMessages(c) \/ SendOverHttp(c) \/ TouchConversation(c) \/ InsertMessage(c)
        PROVE  ChatInv'
    BY <2>3, CountMessagesKeeps, SendOverHttpKeeps, TouchConversationKeeps, InsertMessageKeeps
  <2>4. ASSUME NEW c \in ChatCalls, Announce(c) \/ ChatDies(c)
        PROVE  ChatInv'
    BY <2>4, AnnounceKeeps, ChatDiesKeeps
  <2>5. CASE UNCHANGED chatVars
    <3>1. UNCHANGED <<rootAdmin, conversation, messages, chat, announced, chatOverlapped, direct, broken>>
      BY <2>5 DEF chatVars
    <3>2. ChatTypeOK'
      BY <3>1, ChatTyped DEF ChatTypeOK, ChatCall
    <3>3. Known' = Known /\ Opening' = Opening /\ \A u : Of(u)' = Of(u)
      BY <3>1 DEF Known, Opening, Of
    <3>4. ASSUME NEW k \in ChatCalls PROVE ConversationOK(k)' /\ ChatCallOK(k)' /\ AnnouncedOK(k)'
      <4>1. ConversationOK(k) /\ ChatCallOK(k) /\ AnnouncedOK(k)
        BY DEF ChatInv
      <4>2. ConversationOK(k)' /\ AnnouncedOK(k)'
        BY <3>1, <4>1 DEF ConversationOK, AnnouncedOK
      <4> QED
        BY <3>1, <3>3, <4>1, <4>2 DEF ChatCallOK, Announces
    <3>5. OneAtATime'
      BY <3>1, <3>3 DEF ChatInv, OneAtATime
    <3> QED
      BY <3>2, <3>4, <3>5 DEF ChatInv
  <2> QED
    BY <2>1, <2>2, <2>3, <2>4, <2>5 DEF ChatNext
<1> QED
  BY <1>1, <1>2, PTL DEF ChatSpec

\* Whatever the admin's list shows was announced, but for what came over HTTP
\* or broke; and clients who did not overlap have one conversation each.
THEOREM ListedAnnounced == ChatSpec => []ListedWereAnnounced
<1>1. ChatInv => ListedWereAnnounced
  <2> SUFFICES ASSUME ChatInv, \A c \in ChatCalls : ~Busy(c)
               PROVE  /\ AllConversations \ (direct \cup broken) \subseteq announced
                      /\ ~chatOverlapped => \A client \in Clients : Cardinality(Of(client)) <= 1
    BY DEF ListedWereAnnounced
  <2>1. ASSUME NEW k \in AllConversations \ (direct \cup broken) PROVE k \in announced
    <3>1. k \in ChatCalls /\ conversation[k].hasAdmin /\ messages[k] > 0
      BY DEF AllConversations, Known
    <3>2. AnnouncedOK(k)
      BY <3>1 DEF ChatInv
    <3>3. \A c \in ChatCalls : chat[c].pc # "announce"
      BY DEF Busy
    <3> QED
      BY <3>1, <3>2, <3>3 DEF AnnouncedOK
  <2>2. ASSUME ~chatOverlapped, NEW client \in Clients PROVE Cardinality(Of(client)) <= 1
    <3>1. \A j, k \in Of(client) : j = k
      BY <2>2 DEF ChatInv, OneAtATime
    <3>2. CASE Of(client) = {}
      BY <3>2, FS_EmptySet
    <3>3. CASE Of(client) # {}
      <4>1. PICK k : k \in Of(client)
        BY <3>3
      <4>2. Of(client) = {k}
        BY <3>1, <4>1
      <4>3. Cardinality({k}) = 1
        BY FS_Singleton
      <4> QED
        BY <4>2, <4>3
    <3> QED
      BY <3>2, <3>3
  <2> QED
    BY <2>1, <2>2
<1> QED
  BY <1>1, ChatInvariant, PTL

\* Conversations, messages, calls and what was announced keep their types, for
\* any number of clients and calls.
THEOREM ChatTypes == ChatSpec => []ChatTypeOK
<1>1. ChatInv => ChatTypeOK
  BY DEF ChatInv
<1> QED
  BY <1>1, ChatInvariant, PTL

-----------------------------------------------------------------------------
(* Reviews *)

LEMMA SummaryReads ==
  ASSUME NEW p
  PROVE  Summary(p) = [average |-> Rounded(SumOver(review, ReviewsOf(p)), Cardinality(ReviewsOf(p))),
                       total |-> Cardinality(ReviewsOf(p))]
BY DEF Summary, Average, MapThenSumSet, MapThenFoldSet, SumOver, IsSum, PickOf

LEMMA SummaryReadsLater ==
  ASSUME NEW p
  PROVE  Summary(p)' = [average |-> Rounded(SumOver(review', ReviewsOf(p)'), Cardinality(ReviewsOf(p)')),
                       total |-> Cardinality(ReviewsOf(p)')]
BY DEF Summary, Average, MapThenSumSet, MapThenFoldSet, SumOver, IsSum, PickOf, ReviewsOf

LEMMA SameSummary ==
  ASSUME NEW p \in Products, \A i \in Items : ProductOf[i] = p => review'[i] = review[i]
  PROVE  Summary(p)' = Summary(p) /\ ReviewsOf(p)' = ReviewsOf(p)
<1>1. ReviewsOf(p)' = ReviewsOf(p)
  BY DEF ReviewsOf
<1>2. \A i \in ReviewsOf(p) : review'[i] = review[i]
  BY DEF ReviewsOf
<1>3. SumOver(review', ReviewsOf(p)) = SumOver(review, ReviewsOf(p))
  BY <1>2, SameSum
<1> QED
  BY <1>1, <1>3, SummaryReads, SummaryReadsLater

-----------------------------------------------------------------------------
\* Summaries are taken from F, which grows with the summaries taken.
ReviewCall(F) == [pc : {"idle", "insert", "mark", "aggregate", "update", "ended"},
                  item : Items \cup {NoReview}, rating : Ratings \cup {NoReview},
                  joined : BOOLEAN, found : F]
SaverCall(F) == [pc : {"idle", "save"}, product : Products \cup {NoReview}, entity : F]

ReviewsTyped(F) ==
    /\ NoReview \in F
    /\ review \in [Items -> Ratings \cup {NoReview}] /\ isReviewed \subseteq Items
    /\ reviewSettled \subseteq Products
    /\ rating \in [Products -> F]
    /\ reviewer \in [ReviewCalls -> ReviewCall(F)] /\ saver \in [Savers -> SaverCall(F)]
    /\ reviewLone \in ReviewCalls \cup Savers \cup {NoReview}

\* A call that is alone has the summary as it still is.
ReviewerOK(c) ==
    /\ reviewer[c].pc \notin {"idle", "ended"} => reviewer[c].item \in Items
    /\ reviewer[c].pc = "insert" => reviewer[c].rating \in Ratings
    /\ reviewer[c].pc \in {"mark", "aggregate", "update"} => review[reviewer[c].item] # NoReview
    /\ reviewer[c].pc = "update" /\ reviewLone = c =>
          reviewer[c].found = Summary(ProductOf[reviewer[c].item])

\* So has a saver the rating that it will write back.
SaverOK(s) ==
    saver[s].pc = "save" =>
        /\ saver[s].product \in Products
        /\ reviewLone = s => saver[s].entity = rating[saver[s].product]

LoneOK == reviewLone # NoReview => Working \subseteq {reviewLone}

RatedOK(p) == ReviewsOf(p) # {} => rating[p] = Summary(p)

ReviewsInv ==
    /\ \E F : ReviewsTyped(F)
    /\ \A c \in ReviewCalls : ReviewerOK(c)
    /\ \A s \in Savers : SaverOK(s)
    /\ LoneOK
    /\ \A p \in reviewSettled : RatedOK(p)
    /\ \A i \in isReviewed : review[i] # NoReview

LEMMA ReviewConstants ==
  /\ ProductOf \in [Items -> Products] /\ Ratings \subseteq 1..5
  /\ NoReview \notin ReviewCalls /\ NoReview \notin Savers /\ NoReview \notin Ratings /\ NoReview \notin Items
  /\ \A c \in ReviewCalls : c \notin Savers
BY ReviewsAssumption

LEMMA Widen ==
  ASSUME NEW F, ReviewsTyped(F), NEW G, F \subseteq G
  PROVE  ReviewsTyped(G)
<1>1. ReviewCall(F) \subseteq ReviewCall(G)
  BY DEF ReviewCall
<1>2. SaverCall(F) \subseteq SaverCall(G)
  BY DEF SaverCall
<1> QED
  BY <1>1, <1>2 DEF ReviewsTyped

LEMMA EndedReview ==
  ASSUME NEW F, NoReview \in F
  PROVE  /\ ReviewEnded \in ReviewCall(F) /\ ReviewEnded.pc = "ended"
         /\ FreshReview \in ReviewCall(F) /\ FreshReview.pc = "idle"
         /\ Idle \in SaverCall(F) /\ Idle.pc = "idle"
BY DEF ReviewEnded, FreshReview, ReviewCall, Idle, SaverCall

\* A call goes on, or begins, or ends, and changes no table but isReviewed.
LEMMA ReviewerMoves ==
  ASSUME ReviewsInv, NEW F, ReviewsTyped(F), NEW c \in ReviewCalls, NEW r \in ReviewCall(F),
         reviewer' = [reviewer EXCEPT ![c] = r],
         UNCHANGED <<review, rating, saver, reviewSettled>>,
         isReviewed' \subseteq Items, \A i \in isReviewed' : review[i] # NoReview,
         \/ UNCHANGED reviewLone /\ c \in Working
         \/ ReviewBegins(c) /\ r.pc # "update",
         r.pc \notin {"idle", "ended"} => r.item \in Items,
         r.pc = "insert" => r.rating \in Ratings,
         r.pc \in {"mark", "aggregate", "update"} => review[r.item] # NoReview,
         r.pc = "update" /\ reviewLone = c => r.found = Summary(ProductOf[r.item])
  PROVE  ReviewsInv'
<1>1. /\ reviewer' \in [ReviewCalls -> ReviewCall(F)] /\ reviewer'[c] = r
      /\ \A d \in ReviewCalls \ {c} : reviewer'[d] = reviewer[d]
  BY DEF ReviewsTyped
<1>2. reviewLone' \in ReviewCalls \cup Savers \cup {NoReview}
  BY DEF ReviewBegins, ReviewsTyped
<1>3. ReviewsTyped(F)'
  BY <1>1, <1>2 DEF ReviewsTyped, ReviewCall, SaverCall
<1>4. \A p \in Products : Summary(p)' = Summary(p) /\ ReviewsOf(p)' = ReviewsOf(p)
  BY SameSummary
<1>5. \A w : reviewLone' = w /\ w # c /\ w \in Working => reviewLone = w
  BY ReviewConstants DEF ReviewBegins, Working
<1>6. ASSUME NEW d \in ReviewCalls PROVE ReviewerOK(d)'
  <2>1. ReviewerOK(d)
    BY DEF ReviewsInv
  <2>2. CASE d = c
    <3>1. r.pc = "update" => reviewLone' = reviewLone
      OBVIOUS
    <3>2. r.pc \notin {"idle", "ended"} => ProductOf[r.item] \in Products
      BY ReviewConstants
    <3> QED
      BY <2>2, <3>1, <3>2, <1>1, <1>4 DEF ReviewerOK
  <2>3. CASE d # c
    <3>1. reviewer[d].pc = "update" => d \in Working
      BY DEF Working
    <3>2. reviewer[d].pc = "update" => ProductOf[reviewer[d].item] \in Products
      BY <2>1, ReviewConstants DEF ReviewerOK
    <3> QED
      BY <2>1, <2>3, <3>1, <3>2, <1>1, <1>4, <1>5 DEF ReviewerOK
  <2> QED
    BY <2>2, <2>3
<1>7. ASSUME NEW s \in Savers PROVE SaverOK(s)'
  <2>1. SaverOK(s)
    BY DEF ReviewsInv
  <2>2. saver[s].pc = "save" => s \in Working
    BY DEF Working
  <2> QED
    BY <2>1, <2>2, <1>5, ReviewConstants DEF SaverOK
<1>8. LoneOK'
  <2>1. Working' \subseteq Working \cup {c}
    BY <1>1 DEF Working
  <2>2. CASE UNCHANGED reviewLone /\ c \in Working
    BY <2>1, <2>2 DEF ReviewsInv, LoneOK
  <2>3. CASE ReviewBegins(c)
    BY <2>1, <2>3 DEF ReviewBegins, LoneOK
  <2> QED
    BY <2>2, <2>3
<1>9. ASSUME NEW p \in reviewSettled' PROVE RatedOK(p)'
  BY <1>4, <1>9 DEF ReviewsInv, RatedOK, ReviewsTyped
<1> QED
  BY <1>3, <1>6, <1>7, <1>8, <1>9 DEF ReviewsInv

LEMMA FindOrderItemKeeps ==
  ASSUME ReviewsInv, NEW c \in ReviewCalls, FindOrderItem(c)
  PROVE  ReviewsInv'
<1>1. PICK F : ReviewsTyped(F)
  BY DEF ReviewsInv
<1>2. PICK i \in Items \ isReviewed, mark \in Ratings :
        reviewer' = [reviewer EXCEPT ![c] =
            [FreshReview EXCEPT !.pc = "insert", !.item = i, !.rating = mark,
                                !.joined = ProductOf[i] \notin removed]]
  BY DEF FindOrderItem
<1>3. PICK joined \in BOOLEAN : joined = (ProductOf[i] \notin removed)
  OBVIOUS
<1>4. PICK r : r = [FreshReview EXCEPT !.pc = "insert", !.item = i, !.rating = mark, !.joined = joined]
  OBVIOUS
<1>5. r \in ReviewCall(F) /\ r.pc = "insert" /\ r.item = i /\ r.rating = mark
  BY <1>1, <1>4 DEF FreshReview, ReviewCall, ReviewsTyped
<1>6. reviewer' = [reviewer EXCEPT ![c] = r]
  BY <1>2, <1>3, <1>4, Zenon
<1>7. /\ UNCHANGED <<review, isReviewed, rating, saver, reviewSettled>> /\ ReviewBegins(c)
      /\ isReviewed' \subseteq Items /\ \A j \in isReviewed' : review[j] # NoReview
  BY <1>1 DEF FindOrderItem, ReviewsInv, ReviewsTyped
<1> QED
  BY <1>1, <1>5, <1>6, <1>7, ReviewerMoves

\* A call that ends where it is.
LEMMA ReviewerEnds ==
  ASSUME ReviewsInv, NEW c \in ReviewCalls, reviewer[c].pc \notin {"idle", "ended"},
         reviewer' = [reviewer EXCEPT ![c] = ReviewEnded],
         UNCHANGED <<review, isReviewed, rating, saver, reviewSettled, reviewLone>>
  PROVE  ReviewsInv'
<1>1. PICK F : ReviewsTyped(F)
  BY DEF ReviewsInv
<1>2. ReviewEnded \in ReviewCall(F) /\ ReviewEnded.pc = "ended"
  BY <1>1, EndedReview DEF ReviewsTyped
<1>3. c \in Working /\ isReviewed' \subseteq Items /\ \A j \in isReviewed' : review[j] # NoReview
  BY <1>1 DEF Working, ReviewsInv, ReviewsTyped
<1> QED
  BY <1>1, <1>2, <1>3, ReviewerMoves

LEMMA ReviewDiesKeeps ==
  ASSUME ReviewsInv, NEW c \in ReviewCalls, ReviewDies(c)
  PROVE  ReviewsInv'
<1>1. reviewer[c].pc \notin {"idle", "ended"}
  BY ReviewConstants DEF ReviewDies, Working
<1> QED
  BY <1>1, ReviewerEnds DEF ReviewDies

LEMMA MarkItemKeeps ==
  ASSUME ReviewsInv, NEW c \in ReviewCalls, MarkItem(c)
  PROVE  ReviewsInv'
<1>1. PICK F : ReviewsTyped(F)
  BY DEF ReviewsInv
<1>2. CASE ~reviewer[c].joined
  BY <1>2, ReviewerEnds DEF MarkItem
<1>3. CASE reviewer[c].joined
  <2>1. PICK r : r = [reviewer[c] EXCEPT !.pc = "aggregate"]
    OBVIOUS
  <2>2. /\ r \in ReviewCall(F) /\ r.pc = "aggregate" /\ r.item = reviewer[c].item
        /\ reviewer[c].pc = "mark"
    BY <1>1, <2>1 DEF MarkItem, ReviewsTyped, ReviewCall
  <2>3. r.item \in Items /\ review[r.item] # NoReview
    BY <2>2 DEF ReviewsInv, ReviewerOK
  <2>4. /\ reviewer' = [reviewer EXCEPT ![c] = r] /\ isReviewed' = isReviewed \cup {r.item}
        /\ UNCHANGED <<review, rating, saver, reviewSettled>> /\ UNCHANGED reviewLone
    BY <1>3, <2>1, <2>2 DEF MarkItem
  <2>5. /\ c \in Working /\ isReviewed' \subseteq Items /\ \A j \in isReviewed' : review[j] # NoReview
    BY <1>1, <2>2, <2>3, <2>4 DEF Working, ReviewsInv, ReviewsTyped
  <2> QED
    BY <1>1, <2>2, <2>3, <2>4, <2>5, ReviewerMoves
<1> QED
  BY <1>2, <1>3

LEMMA AggregateKeeps ==
  ASSUME ReviewsInv, NEW c \in ReviewCalls, Aggregate(c)
  PROVE  ReviewsInv'
<1>1. PICK F : ReviewsTyped(F)
  BY DEF ReviewsInv
<1>2. PICK summary : summary = Summary(ProductOf[reviewer[c].item])
  OBVIOUS
<1>3. PICK G : G = F \cup {summary}
  OBVIOUS
<1>4. ReviewsTyped(G) /\ summary \in G
  BY <1>1, <1>3, Widen
<1>5. PICK r : r = [reviewer[c] EXCEPT !.pc = "update", !.found = summary]
  OBVIOUS
<1>6. /\ r \in ReviewCall(G) /\ r.pc = "update" /\ r.item = reviewer[c].item /\ r.found = summary
      /\ reviewer[c].pc = "aggregate"
  BY <1>4, <1>5 DEF Aggregate, ReviewsTyped, ReviewCall
<1>7. r.item \in Items /\ review[r.item] # NoReview
  BY <1>6 DEF ReviewsInv, ReviewerOK
<1>8. /\ reviewer' = [reviewer EXCEPT ![c] = r]
      /\ UNCHANGED <<review, isReviewed, rating, saver, reviewSettled>> /\ UNCHANGED reviewLone
  BY <1>2, <1>5 DEF Aggregate
<1>9. /\ c \in Working /\ isReviewed' \subseteq Items /\ \A j \in isReviewed' : review[j] # NoReview
  BY <1>1, <1>6, <1>8 DEF Working, ReviewsInv, ReviewsTyped
<1>10. r.found = Summary(ProductOf[r.item])
  BY <1>2, <1>6
<1> QED
  BY <1>4, <1>6, <1>7, <1>8, <1>9, <1>10, ReviewerMoves

\* One more review of a product, of which nothing is claimed until its rating is updated.
LEMMA InsertReviewKeeps ==
  ASSUME ReviewsInv, NEW c \in ReviewCalls, InsertReview(c)
  PROVE  ReviewsInv'
<1>1. PICK F : ReviewsTyped(F)
  BY DEF ReviewsInv
<1> DEFINE i == reviewer[c].item
<1>2. reviewer[c].pc = "insert" /\ i \in Items /\ reviewer[c].rating \in Ratings /\ c \in Working
  BY DEF InsertReview, ReviewsInv, ReviewerOK, Working
<1>3. CASE review[i] # NoReview
  BY <1>2, <1>3, ReviewerEnds DEF InsertReview
<1>4. CASE review[i] = NoReview
  <2>1. PICK r : r = [reviewer[c] EXCEPT !.pc = "mark"]
    OBVIOUS
  <2>2. r \in ReviewCall(F) /\ r.pc = "mark" /\ r.item = i
    BY <1>1, <2>1 DEF ReviewsTyped, ReviewCall
  <2>3. /\ review' = [review EXCEPT ![i] = reviewer[c].rating]
        /\ reviewer' = [reviewer EXCEPT ![c] = r]
        /\ reviewSettled' = reviewSettled \ {ProductOf[i]}
        /\ UNCHANGED <<isReviewed, removed, rating, saver, reviewLone>>
    BY <1>4, <2>1 DEF InsertReview
  <2> HIDE DEF i
  <2>4. /\ reviewer' \in [ReviewCalls -> ReviewCall(F)] /\ reviewer'[c] = r
        /\ \A d \in ReviewCalls \ {c} : reviewer'[d] = reviewer[d]
        /\ review' \in [Items -> Ratings \cup {NoReview}] /\ review'[i] # NoReview
        /\ \A j \in Items \ {i} : review'[j] = review[j]
    BY <1>1, <1>2, <2>2, <2>3, ReviewConstants DEF ReviewsTyped
  <2>5. ReviewsTyped(F)'
    BY <1>1, <2>3, <2>4 DEF ReviewsTyped, ReviewCall, SaverCall
  <2>6. ASSUME NEW d \in ReviewCalls PROVE ReviewerOK(d)'
    <3>1. ReviewerOK(d)
      BY DEF ReviewsInv
    <3>2. CASE d = c
      BY <1>2, <2>2, <2>4, <3>2 DEF ReviewerOK
    <3>3. CASE d # c
      <4>1. ~(reviewer[d].pc = "update" /\ reviewLone = d)
        <5> SUFFICES ASSUME reviewer[d].pc = "update", reviewLone = d PROVE FALSE
          OBVIOUS
        <5> QED
          BY <1>2, <3>3, ReviewConstants DEF ReviewsInv, LoneOK
      <4> QED
        BY <2>3, <2>4, <3>1, <3>3, <4>1 DEF ReviewerOK
    <3> QED
      BY <3>2, <3>3
  <2>7. ASSUME NEW s \in Savers PROVE SaverOK(s)'
    BY <2>3 DEF ReviewsInv, SaverOK
  <2>8. LoneOK'
    <3>1. Working' \subseteq Working
      BY <1>2, <2>3, <2>4 DEF Working
    <3> QED
      BY <2>3, <3>1 DEF ReviewsInv, LoneOK
  <2>9. ASSUME NEW p \in reviewSettled' PROVE RatedOK(p)'
    <3>1. p \in Products /\ RatedOK(p) /\ p # ProductOf[i]
      BY <1>1, <2>3 DEF ReviewsInv, ReviewsTyped
    <3>2. \A j \in Items : ProductOf[j] = p => review'[j] = review[j]
      BY <2>4, <3>1
    <3>3. Summary(p)' = Summary(p) /\ ReviewsOf(p)' = ReviewsOf(p)
      BY <3>1, <3>2, SameSummary
    <3> QED
      BY <2>3, <3>1, <3>3 DEF RatedOK
  <2>10. \A j \in isReviewed' : review'[j] # NoReview
    BY <1>1, <2>3, <2>4 DEF ReviewsInv, ReviewsTyped
  <2> QED
    BY <2>5, <2>6, <2>7, <2>8, <2>9, <2>10 DEF ReviewsInv
<1> QED
  BY <1>3, <1>4

\* The rating of a product is written, by a call that then ends.  One that was
\* alone writes what the rating should be, or what it is.
LEMMA RatingWritten ==
  ASSUME ReviewsInv, NEW F, ReviewsTyped(F), NEW p \in Products, NEW value \in F,
         rating' = [rating EXCEPT ![p] = value],
         UNCHANGED <<review, isReviewed, reviewLone>>,
         reviewer' \in [ReviewCalls -> ReviewCall(F)],
         \A d \in ReviewCalls : reviewer'[d] = reviewer[d] \/ reviewer'[d].pc = "ended",
         saver' \in [Savers -> SaverCall(F)],
         \A s \in Savers : \/ saver'[s].pc = "idle"
                           \/ saver'[s] = saver[s] /\ (saver[s].pc = "save" => reviewLone # s),
         reviewSettled' \subseteq reviewSettled \cup {p},
         p \in reviewSettled' => value = Summary(p) \/ (p \in reviewSettled /\ value = rating[p])
  PROVE  ReviewsInv'
<1>1. /\ rating' \in [Products -> F] /\ rating'[p] = value
      /\ \A q \in Products \ {p} : rating'[q] = rating[q]
  BY DEF ReviewsTyped
<1>2. reviewSettled \subseteq Products
  BY DEF ReviewsTyped
<1>3. ReviewsTyped(F)'
  BY <1>1, <1>2 DEF ReviewsTyped, ReviewCall, SaverCall
<1>4. \A q \in Products : Summary(q)' = Summary(q) /\ ReviewsOf(q)' = ReviewsOf(q)
  BY SameSummary
<1>5. ASSUME NEW d \in ReviewCalls PROVE ReviewerOK(d)'
  <2>1. ReviewerOK(d)
    BY DEF ReviewsInv
  <2>2. reviewer[d].pc = "update" => ProductOf[reviewer[d].item] \in Products
    BY <2>1, ReviewConstants DEF ReviewerOK
  <2> QED
    BY <2>1, <2>2, <1>4 DEF ReviewerOK
<1>6. ASSUME NEW s \in Savers PROVE SaverOK(s)'
  <2>1. SaverOK(s)
    BY DEF ReviewsInv
  <2> QED
    BY <2>1 DEF SaverOK
<1>7. LoneOK'
  <2>1. Working' \subseteq Working
    BY DEF Working
  <2> QED
    BY <2>1 DEF ReviewsInv, LoneOK
<1>8. ASSUME NEW q \in reviewSettled' PROVE RatedOK(q)'
  <2>1. CASE q = p
    <3>1. p \in reviewSettled => RatedOK(p)
      BY DEF ReviewsInv
    <3> QED
      BY <2>1, <3>1, <1>1, <1>4, <1>8 DEF RatedOK
  <2>2. CASE q # p
    <3>1. q \in reviewSettled
      BY <2>2
    <3>2. q \in Products /\ RatedOK(q)
      BY <3>1, <1>2 DEF ReviewsInv
    <3> QED
      BY <2>2, <3>2, <1>1, <1>4 DEF RatedOK
  <2> QED
    BY <2>1, <2>2
<1>9. \A i \in isReviewed' : review'[i] # NoReview
  BY DEF ReviewsInv
<1> QED
  BY <1>3, <1>5, <1>6, <1>7, <1>8, <1>9 DEF ReviewsInv

LEMMA UpdateRatingKeeps ==
  ASSUME ReviewsInv, NEW c \in ReviewCalls, UpdateRating(c)
  PROVE  ReviewsInv'
<1>1. PICK F : ReviewsTyped(F)
  BY DEF ReviewsInv
<1>2. PICK p : p = ProductOf[reviewer[c].item]
  OBVIOUS
<1>3. PICK found : found = reviewer[c].found
  OBVIOUS
<1>4. /\ reviewer[c].pc = "update" /\ reviewer[c].item \in Items /\ c \in Working
      /\ reviewLone = c => found = Summary(p)
  BY <1>2, <1>3 DEF UpdateRating, ReviewsInv, ReviewerOK, Working
<1>5. p \in Products /\ found \in F
  BY <1>1, <1>2, <1>3, <1>4, ReviewConstants DEF ReviewsTyped, ReviewCall
<1>6. /\ rating' = [rating EXCEPT ![p] = found]
      /\ reviewSettled' = IF reviewLone = c THEN reviewSettled \cup {p} ELSE reviewSettled \ {p}
      /\ reviewer' = [reviewer EXCEPT ![c] = ReviewEnded]
      /\ UNCHANGED <<review, isReviewed, removed, saver, reviewLone>>
  BY <1>2, <1>3 DEF UpdateRating
<1>7. /\ reviewer' \in [ReviewCalls -> ReviewCall(F)]
      /\ \A d \in ReviewCalls : reviewer'[d] = reviewer[d] \/ reviewer'[d].pc = "ended"
  <2>1. ReviewEnded \in ReviewCall(F) /\ ReviewEnded.pc = "ended" /\ reviewer \in [ReviewCalls -> ReviewCall(F)]
    BY <1>1, EndedReview DEF ReviewsTyped
  <2> QED
    BY <1>6, <2>1
<1>8. \A s \in Savers : saver[s].pc = "save" => reviewLone # s
  <2> SUFFICES ASSUME NEW s \in Savers, saver[s].pc = "save", reviewLone = s PROVE FALSE
    OBVIOUS
  <2> QED
    BY <1>4, ReviewConstants DEF ReviewsInv, LoneOK
<1>9. saver' \in [Savers -> SaverCall(F)]
  BY <1>1, <1>6 DEF ReviewsTyped
<1>10. /\ reviewSettled' \subseteq reviewSettled \cup {p}
       /\ p \in reviewSettled' => found = Summary(p)
  BY <1>4, <1>6
<1>11. UNCHANGED <<review, isReviewed, reviewLone>> /\ saver' = saver
  BY <1>6
<1> QED
  BY <1>1, <1>5, <1>6, <1>7, <1>8, <1>9, <1>10, <1>11, RatingWritten

LEMMA LoadProductKeeps ==
  ASSUME ReviewsInv, NEW s \in Savers, LoadProduct(s)
  PROVE  ReviewsInv'
<1>1. PICK F : ReviewsTyped(F)
  BY DEF ReviewsInv
<1>2. PICK p \in Products \ removed :
        saver' = [saver EXCEPT ![s] = [pc |-> "save", product |-> p, entity |-> rating[p]]]
  BY DEF LoadProduct
<1>3. PICK r : r = [pc |-> "save", product |-> p, entity |-> rating[p]]
  OBVIOUS
<1>4. r \in SaverCall(F) /\ r.product = p /\ r.entity = rating[p]
  BY <1>1, <1>3 DEF SaverCall, ReviewsTyped
<1>5. /\ saver' \in [Savers -> SaverCall(F)] /\ saver'[s] = r
      /\ \A d \in Savers \ {s} : saver'[d] = saver[d]
  BY <1>1, <1>2, <1>3, <1>4 DEF ReviewsTyped
<1>6. /\ UNCHANGED <<review, isReviewed, removed, rating, reviewer, reviewSettled>>
      /\ reviewLone' = IF Working = {} THEN s ELSE NoReview
  BY DEF LoadProduct, ReviewBegins
<1>7. ReviewsTyped(F)'
  BY <1>1, <1>5, <1>6 DEF ReviewsTyped, ReviewCall, SaverCall
<1>8. \A q \in Products : Summary(q)' = Summary(q) /\ ReviewsOf(q)' = ReviewsOf(q)
  BY <1>6, SameSummary
<1>9. ASSUME NEW d \in ReviewCalls PROVE ReviewerOK(d)'
  <2>1. ReviewerOK(d)
    BY DEF ReviewsInv
  <2>2. reviewLone' # d
    BY <1>6, ReviewConstants
  <2> QED
    BY <2>1, <2>2, <1>6 DEF ReviewerOK
<1>10. ASSUME NEW d \in Savers PROVE SaverOK(d)'
  <2>1. SaverOK(d)
    BY DEF ReviewsInv
  <2>2. CASE d = s
    BY <2>2, <1>4, <1>5, <1>6 DEF SaverOK
  <2>3. CASE d # s
    <3>1. saver[d].pc = "save" => reviewLone' # d
      BY <2>3, <1>6, ReviewConstants DEF Working
    <3> QED
      BY <2>1, <2>3, <3>1, <1>5, <1>6 DEF SaverOK
  <2> QED
    BY <2>2, <2>3
<1>11. LoneOK'
  <2>1. Working' \subseteq Working \cup {s}
    BY <1>5, <1>6 DEF Working
  <2> QED
    BY <2>1, <1>6 DEF LoneOK
<1>12. ASSUME NEW q \in reviewSettled' PROVE RatedOK(q)'
  <2>1. q \in Products /\ RatedOK(q)
    BY <1>1, <1>6, <1>12 DEF ReviewsInv, ReviewsTyped
  <2> QED
    BY <2>1, <1>6, <1>8 DEF RatedOK
<1>13. \A i \in isReviewed' : review'[i] # NoReview
  BY <1>6 DEF ReviewsInv
<1> QED
  BY <1>7, <1>9, <1>10, <1>11, <1>12, <1>13 DEF ReviewsInv

LEMMA SaveLoadedProductKeeps ==
  ASSUME ReviewsInv, NEW s \in Savers, SaveLoadedProduct(s)
  PROVE  ReviewsInv'
<1>1. PICK F : ReviewsTyped(F)
  BY DEF ReviewsInv
<1>2. PICK p : p = saver[s].product
  OBVIOUS
<1>3. PICK entity : entity = saver[s].entity
  OBVIOUS
<1>4. /\ saver[s].pc = "save" /\ p \in Products /\ s \in Working
      /\ reviewLone = s => entity = rating[p]
  BY <1>2, <1>3 DEF SaveLoadedProduct, ReviewsInv, SaverOK, Working
<1>5. entity \in F
  BY <1>1, <1>3 DEF ReviewsTyped, SaverCall
<1>6. /\ rating' = [rating EXCEPT ![p] = entity]
      /\ reviewSettled' = IF reviewLone = s THEN reviewSettled ELSE reviewSettled \ {p}
      /\ saver' = [saver EXCEPT ![s] = Idle]
      /\ UNCHANGED <<review, isReviewed, reviewer, reviewLone>>
  BY <1>2, <1>3 DEF SaveLoadedProduct
<1>7. Idle \in SaverCall(F) /\ Idle.pc = "idle" /\ saver \in [Savers -> SaverCall(F)]
  BY <1>1, EndedReview DEF ReviewsTyped
<1>8. /\ saver' \in [Savers -> SaverCall(F)] /\ saver'[s].pc = "idle"
      /\ \A d \in Savers \ {s} : saver'[d] = saver[d]
  BY <1>6, <1>7
<1>9. ASSUME NEW d \in Savers \ {s}, saver[d].pc = "save" PROVE reviewLone # d
  BY <1>4, <1>9, ReviewConstants DEF ReviewsInv, LoneOK
<1>10. \A d \in Savers : \/ saver'[d].pc = "idle"
                         \/ saver'[d] = saver[d] /\ (saver[d].pc = "save" => reviewLone # d)
  BY <1>8, <1>9
<1>11. reviewer' \in [ReviewCalls -> ReviewCall(F)] /\ reviewer' = reviewer
  BY <1>1, <1>6 DEF ReviewsTyped
<1>12. /\ reviewSettled' \subseteq reviewSettled \cup {p}
       /\ p \in reviewSettled' => p \in reviewSettled /\ entity = rating[p]
  BY <1>4, <1>6
<1>13. UNCHANGED <<review, isReviewed, reviewLone>>
  BY <1>6
<1> QED
  BY <1>1, <1>4, <1>5, <1>6, <1>8, <1>10, <1>11, <1>12, <1>13, RatingWritten

LEMMA NoReviewStep ==
  ASSUME ReviewsInv,
         UNCHANGED <<review, isReviewed, rating, reviewer, saver, reviewLone, reviewSettled>>
  PROVE  ReviewsInv'
<1>1. PICK F : ReviewsTyped(F)
  BY DEF ReviewsInv
<1>2. ReviewsTyped(F)'
  BY <1>1 DEF ReviewsTyped, ReviewCall, SaverCall
<1>3. \A q \in Products : Summary(q)' = Summary(q) /\ ReviewsOf(q)' = ReviewsOf(q)
  BY SameSummary
<1>4. ASSUME NEW d \in ReviewCalls PROVE ReviewerOK(d)'
  <2>1. ReviewerOK(d)
    BY DEF ReviewsInv
  <2>2. reviewer[d].pc = "update" => ProductOf[reviewer[d].item] \in Products
    BY <2>1, ReviewConstants DEF ReviewerOK
  <2> QED
    BY <2>1, <2>2, <1>3 DEF ReviewerOK
<1>5. ASSUME NEW s \in Savers PROVE SaverOK(s)'
  BY DEF ReviewsInv, SaverOK
<1>6. LoneOK'
  BY DEF ReviewsInv, LoneOK, Working
<1>7. ASSUME NEW q \in reviewSettled' PROVE RatedOK(q)'
  <2>1. q \in Products /\ RatedOK(q)
    BY <1>1, <1>7 DEF ReviewsInv, ReviewsTyped
  <2> QED
    BY <2>1, <1>3 DEF RatedOK
<1>8. \A i \in isReviewed' : review'[i] # NoReview
  BY DEF ReviewsInv
<1> QED
  BY <1>2, <1>4, <1>5, <1>6, <1>7, <1>8 DEF ReviewsInv

LEMMA ReviewsInvariant == ReviewsSpec => []ReviewsInv
<1>1. ReviewsInit => ReviewsInv
  <2> SUFFICES ASSUME ReviewsInit PROVE ReviewsInv
    OBVIOUS
  <2>1. PICK zero : zero = [average |-> 0, total |-> 0]
    OBVIOUS
  <2>2. PICK F : F = {NoReview, zero}
    OBVIOUS
  <2>3. /\ FreshReview \in ReviewCall(F) /\ FreshReview.pc = "idle"
        /\ Idle \in SaverCall(F) /\ Idle.pc = "idle"
    BY <2>2, EndedReview
  <2>4. /\ review = [i \in Items |-> NoReview] /\ isReviewed = {} /\ reviewLone = NoReview
        /\ rating = [p \in Products |-> zero] /\ reviewSettled = Products
        /\ reviewer = [c \in ReviewCalls |-> FreshReview] /\ saver = [s \in Savers |-> Idle]
    BY <2>1 DEF ReviewsInit
  <2>5. ReviewsTyped(F)
    BY <2>2, <2>3, <2>4 DEF ReviewsTyped
  <2>6. \A c \in ReviewCalls : ReviewerOK(c)
    BY <2>3, <2>4 DEF ReviewerOK
  <2>7. \A s \in Savers : SaverOK(s)
    BY <2>3, <2>4 DEF SaverOK
  <2>8. LoneOK /\ \A p \in Products : RatedOK(p)
    BY <2>4 DEF LoneOK, RatedOK, ReviewsOf
  <2> QED
    BY <2>4, <2>5, <2>6, <2>7, <2>8 DEF ReviewsInv
<1>2. ReviewsInv /\ [ReviewsNext]_reviewsVars => ReviewsInv'
  <2> SUFFICES ASSUME ReviewsInv, [ReviewsNext]_reviewsVars PROVE ReviewsInv'
    OBVIOUS
  <2>1. ASSUME NEW c \in ReviewCalls, FindOrderItem(c) \/ InsertReview(c) \/ MarkItem(c)
        PROVE  ReviewsInv'
    BY <2>1, FindOrderItemKeeps, InsertReviewKeeps, MarkItemKeeps
  <2>2. ASSUME NEW c \in ReviewCalls, Aggregate(c) \/ UpdateRating(c) \/ ReviewDies(c)
        PROVE  ReviewsInv'
    BY <2>2, AggregateKeeps, UpdateRatingKeeps, ReviewDiesKeeps
  <2>3. ASSUME NEW s \in Savers, LoadProduct(s) \/ SaveLoadedProduct(s)
        PROVE  ReviewsInv'
    BY <2>3, LoadProductKeeps, SaveLoadedProductKeeps
  <2>4. ASSUME NEW p \in Products, RemoveProduct(p)
        PROVE  ReviewsInv'
    BY <2>4, NoReviewStep DEF RemoveProduct
  <2>5. CASE UNCHANGED reviewsVars
    BY <2>5, NoReviewStep DEF reviewsVars
  <2> QED
    BY <2>1, <2>2, <2>3, <2>4, <2>5 DEF ReviewsNext
<1> QED
  BY <1>1, <1>2, PTL DEF ReviewsSpec

\* A review made alone leaves its product with the average of all reviews.
THEOREM RatedRight == ReviewsSpec => []RatingIsAverage
<1>1. ReviewsInv => RatingIsAverage
  BY DEF ReviewsInv, RatingIsAverage, RatedOK
<1> QED
  BY <1>1, ReviewsInvariant, PTL

\* Ratings are between 1 and 5, and so is their average, in halves and tenths.
LEMMA SumOfRatings ==
  ASSUME NEW S, IsFiniteSet(S), NEW w, \A i \in S : w[i] \in 1..5
  PROVE  /\ SumOver(w, S) \in Int /\ Cardinality(S) \in Nat
         /\ Cardinality(S) <= SumOver(w, S) /\ SumOver(w, S) <= 5 * Cardinality(S)
<1> DEFINE Right(t) == /\ SumOver(w, t) \in Int
                       /\ Cardinality(t) <= SumOver(w, t) /\ SumOver(w, t) <= 5 * Cardinality(t)
           N == {n \in Nat : \A t \in SUBSET S : Cardinality(t) = n => Right(t)}
<1>1. \A t \in SUBSET S : IsFiniteSet(t) /\ Cardinality(t) \in Nat
  BY FS_Subset, FS_CardinalityType
<1>2. 0 \in N
  <2>1. SumOver(w, {}) = 0 /\ Cardinality({}) = 0
    BY SumStarts, FS_EmptySet
  <2>2. Right({})
    BY <2>1
  <2>3. \A t \in SUBSET S : Cardinality(t) = 0 => t = {}
    BY <1>1, FS_EmptySet
  <2> HIDE DEF Right
  <2> QED
    BY <2>2, <2>3
<1>3. ASSUME NEW n \in N PROVE n + 1 \in N
  <2>1. ASSUME NEW t \in SUBSET S, Cardinality(t) = n + 1 PROVE Right(t)
    <3>1. t # {}
      BY <2>1, FS_EmptySet
    <3>2. PICK x \in t : TRUE
      BY <3>1
    <3>3. /\ t \ {x} \in SUBSET S /\ Cardinality(t \ {x}) = n /\ Cardinality(t \ {x}) \in Nat
      BY <1>1, <2>1, <3>2, Remains
    <3>4. Right(t \ {x})
      BY <3>3
    <3>5. SumOver(w, t) = w[x] + SumOver(w, t \ {x}) /\ w[x] \in 1..5
      BY <1>1, SumTakes
    <3> HIDE DEF N
    <3> QED
      BY <2>1, <3>3, <3>4, <3>5
  <2>2. n + 1 \in Nat
    OBVIOUS
  <2> HIDE DEF Right
  <2> QED
    BY <2>1, <2>2
<1>4. N = Nat
  <2>1. N \subseteq Nat
    OBVIOUS
  <2> HIDE DEF N
  <2> QED
    BY <1>2, <1>3, <2>1, AllNaturals
<1>5. Cardinality(S) \in N /\ Cardinality(S) \in Nat /\ S \in SUBSET S
  BY <1>1, <1>4
<1> QED
  BY <1>5

LEMMA RoundedInScale ==
  ASSUME NEW n \in Nat \ {0}, NEW sum \in Int, n <= sum, sum <= 5 * n
  PROVE  Rounded(sum, n) \in 0..50
<1> DEFINE d == Rounded(sum, n)
           rest == (20 * sum + n) % (2 * n)
<1>1. 2 * n \in Nat \ {0} /\ 20 * sum + n \in Int
  OBVIOUS
<1>2. /\ d \in Int /\ rest \in Int /\ 20 * sum + n = (2 * n) * d + rest
      /\ 0 <= rest /\ rest < 2 * n
  BY <1>1 DEF Rounded
<1> HIDE DEF d, rest
<1>3. 0 <= d
  <2> SUFFICES ASSUME d <= -1 PROVE FALSE
    BY <1>2
  <2>1. (2 * n) * d <= (2 * n) * (-1)
    BY <1>2
  <2> QED
    BY <1>2, <2>1
<1>4. d <= 50
  <2> SUFFICES ASSUME 51 <= d PROVE FALSE
    BY <1>2
  <2>1. (2 * n) * 51 <= (2 * n) * d
    BY <1>2
  <2> QED
    BY <1>2, <2>1
<1> QED
  BY <1>2, <1>3, <1>4 DEF d

LEMMA SummaryInScale ==
  ASSUME NEW p, IsFiniteSet(ReviewsOf(p)), ReviewsOf(p) # {}, \A i \in ReviewsOf(p) : review[i] \in 1..5
  PROVE  Summary(p) \in Rated
<1> DEFINE sum == SumOver(review, ReviewsOf(p))
           n == Cardinality(ReviewsOf(p))
<1>1. n \in Nat \ {0} /\ sum \in Int /\ n <= sum /\ sum <= 5 * n
  <2>1. n # 0 /\ n \in Nat
    BY FS_EmptySet, FS_CardinalityType
  <2>2. sum \in Int /\ n <= sum /\ sum <= 5 * n
    BY SumOfRatings
  <2> QED
    BY <2>1, <2>2
<1>2. Summary(p) = [average |-> Rounded(sum, n), total |-> n]
  BY SummaryReads
<1> HIDE DEF sum, n
<1>3. Rounded(sum, n) \in 0..50
  BY <1>1, RoundedInScale
<1> QED
  BY <1>1, <1>2, <1>3 DEF Rated

\* Every summary that is read, held or written is one on the scale.
Summaries == Rated \cup {NoReview}

RatingsInv ==
    /\ ReviewsTyped(Summaries)
    /\ rating \in [Products -> Rated] /\ removed \subseteq Products
    /\ IsFiniteSet({i \in Items : review[i] # NoReview})
    /\ \A c \in ReviewCalls : reviewer[c].pc = "update" => reviewer[c].found \in Rated
    /\ \A s \in Savers : saver[s].pc = "save" => saver[s].entity \in Rated

\* A call goes on with what it has found, or ends.
LEMMA ReviewerRates ==
  ASSUME RatingsInv, NEW c \in ReviewCalls, NEW r \in ReviewCall(Summaries),
         reviewer' = [reviewer EXCEPT ![c] = r], r.pc = "update" => r.found \in Rated,
         isReviewed' \subseteq Items, reviewSettled' \subseteq Products,
         reviewLone' \in ReviewCalls \cup Savers \cup {NoReview},
         rating' \in [Products -> Rated], removed' \subseteq Products,
         review' \in [Items -> Ratings \cup {NoReview}],
         IsFiniteSet({i \in Items : review'[i] # NoReview}), UNCHANGED saver
  PROVE  RatingsInv'
<1>1. reviewer' \in [ReviewCalls -> ReviewCall(Summaries)] /\ reviewer'[c] = r
      /\ \A d \in ReviewCalls \ {c} : reviewer'[d] = reviewer[d]
  BY DEF RatingsInv, ReviewsTyped
<1>2. rating' \in [Products -> Summaries] /\ Summaries' = Summaries /\ Rated' = Rated
  BY DEF Summaries, Rated
<1>3. ReviewsTyped(Summaries)'
  BY <1>1, <1>2 DEF RatingsInv, ReviewsTyped, ReviewCall, SaverCall
<1>4. \A d \in ReviewCalls : reviewer'[d].pc = "update" => reviewer'[d].found \in Rated
  BY <1>1 DEF RatingsInv
<1> QED
  BY <1>2, <1>3, <1>4 DEF RatingsInv

LEMMA SaverRates ==
  ASSUME RatingsInv, NEW s \in Savers, NEW r \in SaverCall(Summaries),
         saver' = [saver EXCEPT ![s] = r], r.pc = "save" => r.entity \in Rated,
         reviewSettled' \subseteq Products,
         reviewLone' \in ReviewCalls \cup Savers \cup {NoReview},
         rating' \in [Products -> Rated], removed' \subseteq Products,
         UNCHANGED <<review, isReviewed, reviewer>>
  PROVE  RatingsInv'
<1>1. saver' \in [Savers -> SaverCall(Summaries)] /\ saver'[s] = r
      /\ \A d \in Savers \ {s} : saver'[d] = saver[d]
  BY DEF RatingsInv, ReviewsTyped
<1>2. rating' \in [Products -> Summaries] /\ Summaries' = Summaries /\ Rated' = Rated
  BY DEF Summaries, Rated
<1>3. ReviewsTyped(Summaries)'
  BY <1>1, <1>2 DEF RatingsInv, ReviewsTyped, ReviewCall, SaverCall
<1>4. \A d \in Savers : saver'[d].pc = "save" => saver'[d].entity \in Rated
  BY <1>1 DEF RatingsInv
<1> QED
  BY <1>2, <1>3, <1>4 DEF RatingsInv

LEMMA EndedRates ==
  /\ ReviewEnded \in ReviewCall(Summaries) /\ ReviewEnded.pc = "ended"
  /\ FreshReview \in ReviewCall(Summaries) /\ FreshReview.pc = "idle"
  /\ Idle \in SaverCall(Summaries) /\ Idle.pc = "idle"
<1>1. NoReview \in Summaries
  BY DEF Summaries
<1> QED
  BY <1>1, EndedReview

LEMMA FindOrderItemRates ==
  ASSUME RatingsInv, NEW c \in ReviewCalls, FindOrderItem(c)
  PROVE  RatingsInv'
<1>1. PICK i \in Items \ isReviewed, mark \in Ratings :
        reviewer' = [reviewer EXCEPT ![c] =
            [FreshReview EXCEPT !.pc = "insert", !.item = i, !.rating = mark,
                                !.joined = ProductOf[i] \notin removed]]
  BY DEF FindOrderItem
<1>2. PICK joined \in BOOLEAN : joined = (ProductOf[i] \notin removed)
  OBVIOUS
<1>3. PICK r : r = [FreshReview EXCEPT !.pc = "insert", !.item = i, !.rating = mark, !.joined = joined]
  OBVIOUS
<1>4. r \in ReviewCall(Summaries) /\ r.pc = "insert"
  BY <1>3 DEF FreshReview, ReviewCall, Summaries
<1>5. reviewer' = [reviewer EXCEPT ![c] = r]
  BY <1>1, <1>2, <1>3, Zenon
<1>6. /\ UNCHANGED <<review, isReviewed, removed, rating, saver, reviewSettled>>
      /\ reviewLone' \in ReviewCalls \cup Savers \cup {NoReview}
  BY DEF FindOrderItem, ReviewBegins
<1>7. /\ review' \in [Items -> Ratings \cup {NoReview}] /\ isReviewed' \subseteq Items
      /\ reviewSettled' \subseteq Products /\ rating' \in [Products -> Rated] /\ removed' \subseteq Products
      /\ IsFiniteSet({j \in Items : review'[j] # NoReview})
  BY <1>6 DEF RatingsInv, ReviewsTyped
<1> QED
  BY <1>4, <1>5, <1>6, <1>7, ReviewerRates

\* A call that changes no table, or only what it marks.
LEMMA ReviewerGoesOn ==
  ASSUME RatingsInv, NEW c \in ReviewCalls, NEW r \in ReviewCall(Summaries),
         reviewer' = [reviewer EXCEPT ![c] = r], r.pc = "update" => r.found \in Rated,
         isReviewed' \subseteq Items, UNCHANGED <<review, removed, rating, saver, reviewLone, reviewSettled>>
  PROVE  RatingsInv'
<1>1. /\ review' \in [Items -> Ratings \cup {NoReview}]
      /\ reviewSettled' \subseteq Products /\ rating' \in [Products -> Rated] /\ removed' \subseteq Products
      /\ IsFiniteSet({j \in Items : review'[j] # NoReview})
      /\ reviewLone' \in ReviewCalls \cup Savers \cup {NoReview}
  BY DEF RatingsInv, ReviewsTyped
<1> QED
  BY <1>1, ReviewerRates

LEMMA InsertReviewRates ==
  ASSUME ReviewsInv, RatingsInv, NEW c \in ReviewCalls, InsertReview(c)
  PROVE  RatingsInv'
<1> DEFINE i == reviewer[c].item
<1>1. i \in Items /\ reviewer[c].rating \in Ratings /\ reviewer[c] \in ReviewCall(Summaries)
  BY DEF InsertReview, ReviewsInv, ReviewerOK, RatingsInv, ReviewsTyped
<1>2. isReviewed \subseteq Items
  BY DEF RatingsInv, ReviewsTyped
<1>3. CASE review[i] # NoReview
  BY <1>2, <1>3, EndedRates, ReviewerGoesOn DEF InsertReview
<1>4. CASE review[i] = NoReview
  <2>1. PICK r : r = [reviewer[c] EXCEPT !.pc = "mark"]
    OBVIOUS
  <2>2. r \in ReviewCall(Summaries) /\ r.pc = "mark"
    BY <1>1, <2>1 DEF ReviewCall
  <2>3. /\ review' = [review EXCEPT ![i] = reviewer[c].rating]
        /\ reviewer' = [reviewer EXCEPT ![c] = r]
        /\ reviewSettled' = reviewSettled \ {ProductOf[i]}
        /\ UNCHANGED <<isReviewed, removed, rating, saver, reviewLone>>
    BY <1>4, <2>1 DEF InsertReview
  <2> DEFINE before == {j \in Items : review[j] # NoReview}
  <2>4. /\ review' \in [Items -> Ratings \cup {NoReview}]
        /\ {j \in Items : review'[j] # NoReview} \subseteq before \cup {i}
    BY <1>1, <2>3 DEF RatingsInv, ReviewsTyped
  <2>5. IsFiniteSet(before \cup {i})
    BY FS_AddElement DEF RatingsInv
  <2>6. IsFiniteSet({j \in Items : review'[j] # NoReview})
    BY <2>4, <2>5, FS_Subset
  <2>7. /\ reviewSettled' \subseteq Products /\ rating' \in [Products -> Rated] /\ removed' \subseteq Products
        /\ reviewLone' \in ReviewCalls \cup Savers \cup {NoReview} /\ isReviewed' \subseteq Items
    BY <2>3 DEF RatingsInv, ReviewsTyped
  <2> HIDE DEF i, before
  <2> QED
    BY <2>2, <2>3, <2>4, <2>6, <2>7, ReviewerRates
<1> QED
  BY <1>3, <1>4

LEMMA MarkItemRates ==
  ASSUME ReviewsInv, RatingsInv, NEW c \in ReviewCalls, MarkItem(c)
  PROVE  RatingsInv'
<1>1. /\ reviewer[c].item \in Items /\ reviewer[c] \in ReviewCall(Summaries) /\ isReviewed \subseteq Items
  BY DEF MarkItem, ReviewsInv, ReviewerOK, RatingsInv, ReviewsTyped
<1>2. CASE ~reviewer[c].joined
  BY <1>1, <1>2, EndedRates, ReviewerGoesOn DEF MarkItem
<1>3. CASE reviewer[c].joined
  <2>1. PICK r : r = [reviewer[c] EXCEPT !.pc = "aggregate"]
    OBVIOUS
  <2>2. r \in ReviewCall(Summaries) /\ r.pc = "aggregate"
    BY <1>1, <2>1 DEF ReviewCall
  <2>3. /\ reviewer' = [reviewer EXCEPT ![c] = r] /\ isReviewed' \subseteq Items
        /\ UNCHANGED <<review, removed, rating, saver, reviewLone, reviewSettled>>
    BY <1>1, <1>3, <2>1 DEF MarkItem
  <2> QED
    BY <2>2, <2>3, ReviewerGoesOn
<1> QED
  BY <1>2, <1>3

\* The average is taken over a review at least: that of the call's own item.
LEMMA AggregateRates ==
  ASSUME ReviewsInv, RatingsInv, NEW c \in ReviewCalls, Aggregate(c)
  PROVE  RatingsInv'
<1>1. PICK summary : summary = Summary(ProductOf[reviewer[c].item])
  OBVIOUS
<1>2. PICK r : r = [reviewer[c] EXCEPT !.pc = "update", !.found = summary]
  OBVIOUS
<1>3. summary \in Rated
  <2> DEFINE p == ProductOf[reviewer[c].item]
  <2>1. reviewer[c].item \in Items /\ review[reviewer[c].item] # NoReview
    BY DEF Aggregate, ReviewsInv, ReviewerOK
  <2>2. reviewer[c].item \in ReviewsOf(p)
    BY <2>1 DEF ReviewsOf
  <2>3. ReviewsOf(p) \subseteq {i \in Items : review[i] # NoReview}
    BY DEF ReviewsOf
  <2>4. IsFiniteSet(ReviewsOf(p))
    BY <2>3, FS_Subset DEF RatingsInv
  <2>5. \A i \in ReviewsOf(p) : review[i] \in 1..5
    BY <2>3, ReviewConstants DEF RatingsInv, ReviewsTyped
  <2> HIDE DEF p
  <2>6. Summary(p) \in Rated
    BY <2>2, <2>4, <2>5, SummaryInScale
  <2> QED
    BY <1>1, <2>6 DEF p
<1>4. r \in ReviewCall(Summaries) /\ r.pc = "update" /\ r.found = summary
  <2>1. reviewer[c] \in ReviewCall(Summaries) /\ summary \in Summaries
    BY <1>3 DEF RatingsInv, ReviewsTyped, Summaries
  <2> QED
    BY <1>2, <2>1 DEF ReviewCall
<1>5. /\ reviewer' = [reviewer EXCEPT ![c] = r] /\ isReviewed' \subseteq Items
      /\ UNCHANGED <<review, removed, rating, saver, reviewLone, reviewSettled>>
  BY <1>1, <1>2 DEF Aggregate, RatingsInv, ReviewsTyped
<1> QED
  BY <1>3, <1>4, <1>5, ReviewerGoesOn

LEMMA UpdateRatingRates ==
  ASSUME ReviewsInv, RatingsInv, NEW c \in ReviewCalls, UpdateRating(c)
  PROVE  RatingsInv'
<1>1. PICK p : p = ProductOf[reviewer[c].item]
  OBVIOUS
<1>2. reviewer[c].item \in Items /\ reviewer[c].found \in Rated
  BY DEF UpdateRating, ReviewsInv, ReviewerOK, RatingsInv
<1>3. p \in Products
  BY <1>1, <1>2, ReviewConstants
<1>4. /\ rating' = [rating EXCEPT ![p] = reviewer[c].found]
      /\ reviewSettled' \subseteq reviewSettled \cup {p}
      /\ reviewer' = [reviewer EXCEPT ![c] = ReviewEnded]
      /\ UNCHANGED <<review, isReviewed, removed, saver, reviewLone>>
  BY <1>1 DEF UpdateRating
<1>5. rating' \in [Products -> Rated]
  BY <1>2, <1>3, <1>4 DEF RatingsInv
<1>6. /\ review' \in [Items -> Ratings \cup {NoReview}] /\ isReviewed' \subseteq Items
      /\ reviewSettled' \subseteq Products /\ removed' \subseteq Products
      /\ IsFiniteSet({j \in Items : review'[j] # NoReview})
      /\ reviewLone' \in ReviewCalls \cup Savers \cup {NoReview}
  BY <1>3, <1>4 DEF RatingsInv, ReviewsTyped
<1> QED
  BY <1>4, <1>5, <1>6, EndedRates, ReviewerRates

LEMMA ReviewDiesRates ==
  ASSUME RatingsInv, NEW c \in ReviewCalls, ReviewDies(c)
  PROVE  RatingsInv'
<1>1. isReviewed \subseteq Items
  BY DEF RatingsInv, ReviewsTyped
<1> QED
  BY <1>1, EndedRates, ReviewerGoesOn DEF ReviewDies

LEMMA LoadProductRates ==
  ASSUME RatingsInv, NEW s \in Savers, LoadProduct(s)
  PROVE  RatingsInv'
<1>1. PICK p \in Products \ removed :
        saver' = [saver EXCEPT ![s] = [pc |-> "save", product |-> p, entity |-> rating[p]]]
  BY DEF LoadProduct
<1>2. PICK r : r = [pc |-> "save", product |-> p, entity |-> rating[p]]
  OBVIOUS
<1>3. r.entity \in Rated /\ r \in SaverCall(Summaries)
  BY <1>2 DEF RatingsInv, SaverCall, Summaries
<1>4. /\ UNCHANGED <<review, isReviewed, removed, rating, reviewer, reviewSettled>>
      /\ reviewLone' \in ReviewCalls \cup Savers \cup {NoReview}
  BY DEF LoadProduct, ReviewBegins
<1>5. rating' \in [Products -> Rated] /\ removed' \subseteq Products /\ reviewSettled' \subseteq Products
  BY <1>4 DEF RatingsInv, ReviewsTyped
<1> QED
  BY <1>1, <1>2, <1>3, <1>4, <1>5, SaverRates

LEMMA SaveLoadedProductRates ==
  ASSUME ReviewsInv, RatingsInv, NEW s \in Savers, SaveLoadedProduct(s)
  PROVE  RatingsInv'
<1>1. PICK p : p = saver[s].product
  OBVIOUS
<1>2. p \in Products /\ saver[s].entity \in Rated
  BY <1>1 DEF SaveLoadedProduct, ReviewsInv, SaverOK, RatingsInv
<1>3. /\ rating' = [rating EXCEPT ![p] = saver[s].entity] /\ removed' = removed \ {p}
      /\ reviewSettled' \subseteq reviewSettled /\ saver' = [saver EXCEPT ![s] = Idle]
      /\ UNCHANGED <<review, isReviewed, reviewer, reviewLone>>
  BY <1>1 DEF SaveLoadedProduct
<1>4. rating' \in [Products -> Rated]
  BY <1>2, <1>3 DEF RatingsInv
<1>5. /\ removed' \subseteq Products /\ reviewSettled' \subseteq Products
      /\ reviewLone' \in ReviewCalls \cup Savers \cup {NoReview}
  BY <1>3 DEF RatingsInv, ReviewsTyped
<1> QED
  BY <1>3, <1>4, <1>5, EndedRates, SaverRates

LEMMA NothingRates ==
  ASSUME RatingsInv, removed' \subseteq Products,
         UNCHANGED <<review, isReviewed, rating, reviewer, saver, reviewLone, reviewSettled>>
  PROVE  RatingsInv'
BY DEF RatingsInv, ReviewsTyped, ReviewCall, SaverCall, Summaries, Rated

\* Tables, calls and history keep their types: an average is never that of no
\* review, and never off the scale, also when a stale one is written.
THEOREM ReviewsTypes == ReviewsSpec => []ReviewsTypeOK
<1>1. ReviewsInit => RatingsInv
  <2> SUFFICES ASSUME ReviewsInit PROVE RatingsInv
    OBVIOUS
  <2>1. PICK zero : zero = [average |-> 0, total |-> 0]
    OBVIOUS
  <2>2. zero \in Rated /\ zero \in Summaries /\ NoReview \in Summaries
    BY <2>1 DEF Rated, Summaries
  <2>3. /\ review = [i \in Items |-> NoReview] /\ isReviewed = {} /\ removed = {} /\ reviewLone = NoReview
        /\ rating = [p \in Products |-> zero] /\ reviewSettled = Products
        /\ reviewer = [c \in ReviewCalls |-> FreshReview] /\ saver = [s \in Savers |-> Idle]
    BY <2>1 DEF ReviewsInit
  <2>4. ReviewsTyped(Summaries)
    BY <2>2, <2>3, EndedRates DEF ReviewsTyped
  <2>5. {i \in Items : review[i] # NoReview} = {}
    BY <2>3
  <2>6. IsFiniteSet({i \in Items : review[i] # NoReview})
    BY <2>5, FS_EmptySet
  <2>7. /\ \A c \in ReviewCalls : reviewer[c].pc = "update" => reviewer[c].found \in Rated
        /\ \A s \in Savers : saver[s].pc = "save" => saver[s].entity \in Rated
    BY <2>3, EndedRates
  <2>8. rating \in [Products -> Rated] /\ removed \subseteq Products
    BY <2>2, <2>3
  <2> QED
    BY <2>4, <2>6, <2>7, <2>8 DEF RatingsInv
<1>2. ReviewsInv /\ RatingsInv /\ [ReviewsNext]_reviewsVars => RatingsInv'
  <2> SUFFICES ASSUME ReviewsInv, RatingsInv, [ReviewsNext]_reviewsVars PROVE RatingsInv'
    OBVIOUS
  <2>1. ASSUME NEW c \in ReviewCalls, FindOrderItem(c) \/ InsertReview(c) \/ MarkItem(c)
        PROVE  RatingsInv'
    BY <2>1, FindOrderItemRates, InsertReviewRates, MarkItemRates
  <2>2. ASSUME NEW c \in ReviewCalls, Aggregate(c) \/ UpdateRating(c) \/ ReviewDies(c)
        PROVE  RatingsInv'
    BY <2>2, AggregateRates, UpdateRatingRates, ReviewDiesRates
  <2>3. ASSUME NEW s \in Savers, LoadProduct(s) \/ SaveLoadedProduct(s)
        PROVE  RatingsInv'
    BY <2>3, LoadProductRates, SaveLoadedProductRates
  <2>4. ASSUME NEW p \in Products, RemoveProduct(p)
        PROVE  RatingsInv'
    <3>1. removed' \subseteq Products
      BY <2>4 DEF RemoveProduct, RatingsInv
    <3> QED
      BY <2>4, <3>1, NothingRates DEF RemoveProduct
  <2>5. CASE UNCHANGED reviewsVars
    <3>1. removed' \subseteq Products
      BY <2>5 DEF reviewsVars, RatingsInv
    <3> QED
      BY <2>5, <3>1, NothingRates DEF reviewsVars
  <2> QED
    BY <2>1, <2>2, <2>3, <2>4, <2>5 DEF ReviewsNext
<1>3. RatingsInv => ReviewsTypeOK
  BY DEF RatingsInv, ReviewsTyped, ReviewCall, SaverCall, Summaries, ReviewsTypeOK
<1> QED
  BY <1>1, <1>2, <1>3, ReviewsInvariant, PTL DEF ReviewsSpec

-----------------------------------------------------------------------------
(* Catalog: what is closed *)

Columns == {"there", "deleted", "active", "archived", "quantity", "sold", "inventory"}

\* What a call has loaded is a product that was there.
EditOK(c) ==
    edit[c].pc = "save" /\ edit[c].op # "create" =>
        /\ "product" \in DOMAIN edit[c].entity
        /\ DOMAIN edit[c].entity.product = Columns /\ edit[c].entity.product.there

Moving(m) == mover[m].pc \in {"size", "product"}
MoverOK(m) == Moving(m) => DOMAIN mover[m].product = Columns /\ mover[m].product.there

EditAloneOK == \A w \in EditsInFlight : editLone = w => EditsInFlight = {w}

\* Nobody at work can open what is closed: either nobody is, and the product
\* is deleted, or whoever is has loaded it as archived.
Shut ==
    \/ product.deleted /\ CatalogQuiet
    \/ /\ product.archived /\ ~product.active
       /\ \A c \in AdminCalls : edit[c].pc = "save" => edit[c].op # "update"
       /\ \A m \in Movers : Moving(m) => mover[m].product.archived /\ ~mover[m].product.active

EditFields == {"pc", "op", "dto", "todo", "entity"}

Shapes ==
    /\ DOMAIN product = Columns
    /\ DOMAIN edit = AdminCalls /\ \A c \in AdminCalls : DOMAIN edit[c] = EditFields
    /\ DOMAIN mover = Movers /\ \A m \in Movers : DOMAIN mover[m] = {"pc", "id", "row", "product"}

CatalogInv ==
    /\ Shapes
    /\ \A c \in AdminCalls : EditOK(c)
    /\ \A m \in Movers : MoverOK(m)
    /\ EditAloneOK
    /\ closed => product.there /\ Shut

LEMMA EndedEdit ==
  /\ DOMAIN FreshEdit = EditFields /\ FreshEdit.pc = "idle"
  /\ DOMAIN EditEnded = EditFields /\ EditEnded.pc = "ended"
BY DEF EditEnded, FreshEdit, EditFields

LEMMA Disjoint ==
  /\ NoEdit \notin AdminCalls /\ NoEdit \notin Movers
  /\ \A c \in AdminCalls : c \notin Movers
  /\ Unset \notin BOOLEAN
BY CatalogAssumption

\* A call of the admin that saves something but not the product, or ends.
LEMMA EditGoesOn ==
  ASSUME CatalogInv, NEW c \in AdminCalls, NEW r, edit' = [edit EXCEPT ![c] = r],
         UNCHANGED <<product, mover, editLone, closed>>, edit[c].pc = "save",
         DOMAIN r = EditFields,
         \/ r.pc = "ended"
         \/ /\ r.pc = "save" /\ r.op = edit[c].op
            /\ r.op # "create" => "product" \in DOMAIN r.entity /\ r.entity.product = edit[c].entity.product
  PROVE  CatalogInv'
<1>1. /\ DOMAIN edit' = AdminCalls /\ edit'[c] = r
      /\ \A d \in AdminCalls \ {c} : edit'[d] = edit[d]
  BY DEF CatalogInv, Shapes
<1>2. Shapes'
  BY <1>1 DEF CatalogInv, Shapes
<1>3. ASSUME NEW d \in AdminCalls PROVE EditOK(d)'
  <2>1. EditOK(d)
    BY DEF CatalogInv
  <2> QED
    BY <2>1, <1>1 DEF EditOK
<1>4. ASSUME NEW m \in Movers PROVE MoverOK(m)'
  BY DEF CatalogInv, MoverOK, Moving
<1>5. EditsInFlight' \subseteq EditsInFlight
  BY <1>1 DEF EditsInFlight
<1>6. EditAloneOK'
  BY <1>5 DEF CatalogInv, EditAloneOK
<1>7. closed' => product'.there /\ Shut'
  <2> SUFFICES ASSUME closed PROVE Shut'
    BY DEF CatalogInv
  <2>1. CASE product.deleted /\ CatalogQuiet
    BY <2>1, <1>5 DEF Shut, CatalogQuiet
  <2>2. CASE ~(product.deleted /\ CatalogQuiet)
    <3>1. /\ product.archived /\ ~product.active
          /\ \A d \in AdminCalls : edit[d].pc = "save" => edit[d].op # "update"
          /\ \A m \in Movers : Moving(m) => mover[m].product.archived /\ ~mover[m].product.active
      BY <2>2 DEF CatalogInv, Shut
    <3>2. \A d \in AdminCalls : edit'[d].pc = "save" => edit'[d].op # "update"
      BY <3>1, <1>1
    <3> QED
      BY <3>1, <3>2 DEF Shut, Moving
  <2> QED
    BY <2>1, <2>2
<1> QED
  BY <1>2, <1>3, <1>4, <1>6, <1>7 DEF CatalogInv

\* A call begins beside those at work.
LEMMA BeginsAlone ==
  ASSUME CatalogInv, NEW who, who \in AdminCalls \cup Movers,
         editLone' = IF CatalogQuiet THEN who ELSE NoEdit,
         EditsInFlight' \subseteq EditsInFlight \cup {who}
  PROVE  EditAloneOK'
<1>1. CASE CatalogQuiet
  BY <1>1 DEF CatalogQuiet, EditAloneOK
<1>2. CASE ~CatalogQuiet
  <2>1. NoEdit \notin EditsInFlight'
    BY Disjoint DEF EditsInFlight
  <2> QED
    BY <1>2, <2>1 DEF EditAloneOK
<1> QED
  BY <1>1, <1>2

LEMMA AdminBegins ==
  ASSUME CatalogInv, NEW c \in AdminCalls, NEW r, edit' = [edit EXCEPT ![c] = r],
         UNCHANGED mover, DOMAIN product' = Columns,
         editLone' = IF CatalogQuiet THEN c ELSE NoEdit,
         DOMAIN r = EditFields,
         r.op # "create" => /\ "product" \in DOMAIN r.entity
                            /\ DOMAIN r.entity.product = Columns /\ r.entity.product.there,
         closed' => closed /\ UNCHANGED product /\ r.op # "update" /\ ~product.deleted
  PROVE  CatalogInv'
<1>1. /\ DOMAIN edit' = AdminCalls /\ edit'[c] = r
      /\ \A d \in AdminCalls \ {c} : edit'[d] = edit[d]
  BY DEF CatalogInv, Shapes
<1>2. Shapes'
  BY <1>1 DEF CatalogInv, Shapes
<1>3. ASSUME NEW d \in AdminCalls PROVE EditOK(d)'
  <2>1. EditOK(d)
    BY DEF CatalogInv
  <2> QED
    BY <2>1, <1>1 DEF EditOK
<1>4. ASSUME NEW m \in Movers PROVE MoverOK(m)'
  BY DEF CatalogInv, MoverOK, Moving
<1>5. EditsInFlight' \subseteq EditsInFlight \cup {c}
  BY <1>1 DEF EditsInFlight
<1>6. EditAloneOK'
  BY <1>5, BeginsAlone
<1>7. closed' => product'.there /\ Shut'
  <2> SUFFICES ASSUME closed' PROVE product'.there /\ Shut'
    OBVIOUS
  <2>1. /\ product.archived /\ ~product.active /\ product.there
        /\ \A d \in AdminCalls : edit[d].pc = "save" => edit[d].op # "update"
        /\ \A m \in Movers : Moving(m) => mover[m].product.archived /\ ~mover[m].product.active
    BY DEF CatalogInv, Shut
  <2>2. \A d \in AdminCalls : edit'[d].pc = "save" => edit'[d].op # "update"
    BY <2>1, <1>1
  <2> QED
    BY <2>1, <2>2 DEF Shut, Moving
<1> QED
  BY <1>2, <1>3, <1>4, <1>6, <1>7 DEF CatalogInv

LEMMA CreateProductKeeps ==
  ASSUME CatalogInv, NEW c \in AdminCalls, CreateProduct(c)
  PROVE  CatalogInv'
<1>1. PICK dto \in Creations :
        /\ product' = WithTotals([NoProduct EXCEPT !.there = TRUE, !.active = OrElse(dto.active, FALSE)],
                                 CreateTotals(dto))
        /\ edit' = [edit EXCEPT ![c] = [FreshEdit EXCEPT !.pc = "save", !.op = "create", !.dto = dto,
                                                         !.todo = CreateTasks(dto)]]
  BY DEF CreateProduct
<1>2. DOMAIN product' = Columns
  BY <1>1 DEF WithTotals, NoProduct, Columns
<1>3. PICK r : r = [FreshEdit EXCEPT !.pc = "save", !.op = "create", !.dto = dto, !.todo = CreateTasks(dto)]
  OBVIOUS
<1>4. DOMAIN r = EditFields /\ r.op = "create"
  BY <1>3 DEF FreshEdit, EditFields
<1>5. ~closed' /\ UNCHANGED mover /\ editLone' = IF CatalogQuiet THEN c ELSE NoEdit
  BY DEF CreateProduct, EditBegins, CatalogInv
<1> QED
  BY <1>1, <1>2, <1>3, <1>4, <1>5, AdminBegins

LEMMA LoadToUpdateKeeps ==
  ASSUME CatalogInv, NEW c \in AdminCalls, LoadToUpdate(c)
  PROVE  CatalogInv'
<1>1. PICK dto \in Edits :
        edit' = [edit EXCEPT ![c] = [FreshEdit EXCEPT !.pc = "save", !.op = "update", !.dto = dto,
                                        !.todo = UpdateTasks(dto, Snapshot), !.entity = Snapshot]]
  BY DEF LoadToUpdate
<1>2. PICK r : r = [FreshEdit EXCEPT !.pc = "save", !.op = "update", !.dto = dto,
                                     !.todo = UpdateTasks(dto, Snapshot), !.entity = Snapshot]
  OBVIOUS
<1>3. DOMAIN r = EditFields /\ r.op = "update" /\ r.entity = Snapshot
  BY <1>2 DEF FreshEdit, EditFields
<1>4. "product" \in DOMAIN r.entity /\ DOMAIN r.entity.product = Columns /\ r.entity.product.there
  BY <1>3 DEF Snapshot, LoadToUpdate, ProductFound, CatalogInv, Shapes
<1>5. /\ ~closed' /\ UNCHANGED mover /\ editLone' = IF CatalogQuiet THEN c ELSE NoEdit
      /\ DOMAIN product' = Columns
  BY DEF LoadToUpdate, EditBegins, CatalogInv, Shapes, productRows
<1> QED
  BY <1>1, <1>2, <1>3, <1>4, <1>5, AdminBegins

LEMMA LoadToArchiveKeeps ==
  ASSUME CatalogInv, NEW c \in AdminCalls, LoadToArchive(c)
  PROVE  CatalogInv'
<1>1. PICK r : r = [FreshEdit EXCEPT !.pc = "save", !.op = "archive",
                                     !.todo = ArchiveTasks(Snapshot), !.entity = Snapshot]
  OBVIOUS
<1>2. DOMAIN r = EditFields /\ r.op = "archive" /\ r.entity = Snapshot
  BY <1>1 DEF FreshEdit, EditFields
<1>3. "product" \in DOMAIN r.entity /\ DOMAIN r.entity.product = Columns /\ r.entity.product.there
  BY <1>2 DEF Snapshot, LoadToArchive, ProductFound, CatalogInv, Shapes
<1>4. /\ UNCHANGED mover /\ editLone' = IF CatalogQuiet THEN c ELSE NoEdit
      /\ DOMAIN product' = Columns /\ UNCHANGED product /\ UNCHANGED closed /\ ~product.deleted
  BY DEF LoadToArchive, EditBegins, CatalogInv, Shapes, productRows, ProductFound
<1>5. edit' = [edit EXCEPT ![c] = r]
  BY <1>1 DEF LoadToArchive
<1> QED
  BY <1>2, <1>3, <1>4, <1>5, AdminBegins

LEMMA DeleteProductKeeps ==
  ASSUME CatalogInv, NEW c \in AdminCalls, DeleteProduct(c)
  PROVE  CatalogInv'
<1>1. /\ edit[c].pc = "idle" /\ edit' = [edit EXCEPT ![c] = EditEnded]
      /\ product' = IF ProductFound THEN [product EXCEPT !.deleted = TRUE] ELSE product
      /\ closed' = (closed \/ (CatalogQuiet /\ product.there))
      /\ UNCHANGED <<variant, size, mover, editLone, editSettled, counted, fitted>>
  BY DEF DeleteProduct, Turn
<1>2. /\ DOMAIN edit' = AdminCalls /\ edit'[c].pc = "ended" /\ DOMAIN edit'[c] = EditFields
      /\ \A d \in AdminCalls \ {c} : edit'[d] = edit[d]
  BY <1>1, EndedEdit DEF CatalogInv, Shapes
<1>3. /\ DOMAIN product' = Columns
      /\ product.there => product'.there /\ product'.deleted
      /\ product.deleted => product'.deleted
      /\ product.archived => product'.archived
      /\ product'.active => product.active
  BY <1>1 DEF CatalogInv, Shapes, ProductFound, Columns
<1>4. Shapes'
  BY <1>1, <1>2, <1>3 DEF CatalogInv, Shapes
<1>5. ASSUME NEW d \in AdminCalls PROVE EditOK(d)'
  <2>1. EditOK(d)
    BY DEF CatalogInv
  <2> QED
    BY <2>1, <1>2 DEF EditOK
<1>6. ASSUME NEW m \in Movers PROVE MoverOK(m)'
  BY <1>1 DEF CatalogInv, MoverOK, Moving
<1>7. EditsInFlight' \subseteq EditsInFlight
  BY <1>1, <1>2 DEF EditsInFlight
<1>8. EditAloneOK'
  BY <1>1, <1>7 DEF CatalogInv, EditAloneOK
<1>9. closed' => product'.there /\ Shut'
  <2> SUFFICES ASSUME closed' PROVE product'.there /\ Shut'
    OBVIOUS
  <2>1. product.there
    BY <1>1 DEF CatalogInv
  <2>2. CASE CatalogQuiet
    BY <2>1, <2>2, <1>3, <1>7 DEF Shut, CatalogQuiet
  <2>3. CASE ~CatalogQuiet
    <3>1. /\ product.archived /\ ~product.active
          /\ \A d \in AdminCalls : edit[d].pc = "save" => edit[d].op # "update"
          /\ \A m \in Movers : Moving(m) => mover[m].product.archived /\ ~mover[m].product.active
      BY <2>3, <1>1 DEF CatalogInv, Shut
    <3>2. \A d \in AdminCalls : edit'[d].pc = "save" => edit'[d].op # "update"
      BY <3>1, <1>2
    <3> QED
      BY <2>1, <3>1, <3>2, <1>1, <1>3 DEF Shut, Moving
  <2> QED
    BY <2>2, <2>3
<1> QED
  BY <1>4, <1>5, <1>6, <1>8, <1>9 DEF CatalogInv

\* A call saves a row, and what it has loaded of the product stays.
LEMMA TaskDone ==
  ASSUME CatalogInv, NEW c \in AdminCalls, edit[c].pc = "save",
         \/ edit' = [edit EXCEPT ![c].todo = Tail(@)]
         \/ \E entity : /\ edit' = [edit EXCEPT ![c] = [edit[c] EXCEPT !.todo = Tail(@), !.entity = entity]]
                        /\ "product" \in DOMAIN edit[c].entity =>
                              "product" \in DOMAIN entity /\ entity.product = edit[c].entity.product,
         UNCHANGED <<product, mover, editLone, closed>>
  PROVE  CatalogInv'
<1>1. DOMAIN edit[c] = EditFields /\ EditOK(c)
  BY DEF CatalogInv, Shapes
<1>2. CASE edit' = [edit EXCEPT ![c].todo = Tail(@)]
  <2>1. PICK r : r = [edit[c] EXCEPT !.todo = Tail(@)]
    OBVIOUS
  <2>2. edit' = [edit EXCEPT ![c] = r]
    BY <1>2, <2>1
  <2>3. DOMAIN r = EditFields /\ r.pc = "save" /\ r.op = edit[c].op /\ r.entity = edit[c].entity
    BY <1>1, <2>1 DEF EditFields
  <2> QED
    BY <1>1, <2>2, <2>3, EditGoesOn DEF EditOK
<1>3. ASSUME NEW entity, edit' = [edit EXCEPT ![c] = [edit[c] EXCEPT !.todo = Tail(@), !.entity = entity]],
             "product" \in DOMAIN edit[c].entity =>
                 "product" \in DOMAIN entity /\ entity.product = edit[c].entity.product
      PROVE  CatalogInv'
  <2>1. PICK r : r = [edit[c] EXCEPT !.todo = Tail(@), !.entity = entity]
    OBVIOUS
  <2>2. edit' = [edit EXCEPT ![c] = r]
    BY <1>3, <2>1
  <2>3. DOMAIN r = EditFields /\ r.pc = "save" /\ r.op = edit[c].op /\ r.entity = entity
    BY <1>1, <2>1 DEF EditFields
  <2>4. r.op # "create" => "product" \in DOMAIN r.entity /\ r.entity.product = edit[c].entity.product
    BY <1>1, <1>3, <2>3 DEF EditOK
  <2> QED
    BY <2>2, <2>3, <2>4, EditGoesOn
<1> QED
  BY <1>2, <1>3

LEMMA CallEnds ==
  ASSUME CatalogInv, NEW c \in AdminCalls, edit[c].pc = "save",
         edit' = [edit EXCEPT ![c] = EditEnded],
         UNCHANGED <<product, mover, editLone, closed>>
  PROVE  CatalogInv'
BY EndedEdit, EditGoesOn

\* What an entity holds of the product is not changed with its rows.
LEMMA EntityHolds ==
  ASSUME NEW entity, NEW work, "product" \in DOMAIN entity
  PROVE  /\ "product" \in DOMAIN EntityWithVariant(entity, work)
         /\ EntityWithVariant(entity, work).product = entity.product
         /\ \A s : /\ "product" \in DOMAIN EntityWithSize(entity, s, work)
                   /\ EntityWithSize(entity, s, work).product = entity.product
BY DEF EntityWithVariant, EntityWithSize

LEMMA TasksKeep ==
  ASSUME CatalogInv, NEW c \in AdminCalls,
         InsertVariant(c) \/ InsertSize(c) \/ SaveVariant(c) \/ SaveSize(c) \/ CreateEnds(c)
  PROVE  CatalogInv'
<1>1. CASE InsertVariant(c)
  BY <1>1, TaskDone DEF InsertVariant, Doing, editHistory
<1>2. CASE InsertSize(c)
  BY <1>2, TaskDone DEF InsertSize, Doing
<1>3. CASE SaveVariant(c)
  <2>1. edit[c].pc = "save"
    BY <1>3 DEF SaveVariant, Doing
  <2>2. CASE Fail(c)
    BY <2>1, <2>2, CallEnds DEF Fail, productRows
  <2>3. CASE ~Fail(c)
    <3>1. PICK entity : entity = EntityWithVariant(edit[c].entity, Task(c))
      OBVIOUS
    <3>2. /\ edit' = [edit EXCEPT ![c] = [edit[c] EXCEPT !.todo = Tail(@), !.entity = entity]]
          /\ UNCHANGED <<product, mover, editHistory>>
      BY <1>3, <2>3, <3>1 DEF SaveVariant
    <3>3. "product" \in DOMAIN edit[c].entity =>
              "product" \in DOMAIN entity /\ entity.product = edit[c].entity.product
      BY <3>1, EntityHolds
    <3> QED
      BY <2>1, <3>2, <3>3, TaskDone DEF editHistory
  <2> QED
    BY <2>2, <2>3
<1>4. CASE SaveSize(c)
  <2>1. PICK s, entity :
          /\ entity = EntityWithSize(edit[c].entity, s, Task(c))
          /\ edit' = [edit EXCEPT ![c] = [edit[c] EXCEPT !.todo = Tail(@), !.entity = entity]]
    BY <1>4 DEF SaveSize
  <2>2. "product" \in DOMAIN edit[c].entity =>
            "product" \in DOMAIN entity /\ entity.product = edit[c].entity.product
    BY <2>1, EntityHolds
  <2> QED
    BY <1>4, <2>1, <2>2, TaskDone DEF SaveSize, Doing
<1>5. CASE CreateEnds(c)
  BY <1>5, CallEnds DEF CreateEnds, productRows, editHistory
<1> QED
  BY <1>1, <1>2, <1>3, <1>4, <1>5

\* The product is saved: by an update, of which nothing is claimed, or as archived.
LEMMA SaveProductKeeps ==
  ASSUME CatalogInv, NEW c \in AdminCalls, SaveProduct(c)
  PROVE  CatalogInv'
<1>1. edit[c].pc = "save" /\ edit[c].op # "create" /\ c \in EditsInFlight /\ EditOK(c)
  BY DEF SaveProduct, EditsInFlight, CatalogInv
<1>2. CASE Fail(c)
  BY <1>1, <1>2, CallEnds DEF Fail, productRows
<1>3. CASE ~Fail(c)
  <2>1. PICK saved : saved = IF edit[c].op = "update" THEN UpdatedProduct(edit[c].entity, edit[c].dto)
                             ELSE Archived(edit[c].entity.product)
    OBVIOUS
  <2>2. /\ product' = SavedRow(product, saved)
        /\ edit' = [edit EXCEPT ![c] = EditEnded]
        /\ closed' = (closed \/ (edit[c].op # "update" /\ editLone = c))
        /\ UNCHANGED <<variant, size, mover, editLone, fitted>>
    BY <1>3, <2>1 DEF SaveProduct
  <2>3. /\ DOMAIN edit' = AdminCalls /\ edit'[c].pc = "ended" /\ DOMAIN edit'[c] = EditFields
        /\ \A d \in AdminCalls \ {c} : edit'[d] = edit[d]
    BY <2>2, EndedEdit DEF CatalogInv, Shapes
  <2>4. DOMAIN product' = Columns
    BY <2>2 DEF SavedRow, CatalogInv, Shapes
  <2>5. edit[c].op # "update" => product'.there /\ product'.archived /\ ~product'.active
    <3> SUFFICES ASSUME edit[c].op # "update" PROVE product'.there /\ product'.archived /\ ~product'.active
      OBVIOUS
    <3>1. PICK loaded : loaded = edit[c].entity.product
      OBVIOUS
    <3>2. DOMAIN loaded = Columns /\ loaded.there = TRUE
      BY <1>1, <3>1 DEF EditOK
    <3>3. saved = [loaded EXCEPT !.archived = TRUE, !.active = FALSE]
      BY <2>1, <3>1 DEF Archived
    <3>4. saved.there = TRUE /\ saved.archived = TRUE /\ saved.active = FALSE
      BY <3>2, <3>3 DEF Columns
    <3>5. /\ product'.there = OrElse(saved.there, product.there)
          /\ product'.archived = OrElse(saved.archived, product.archived)
          /\ product'.active = OrElse(saved.active, product.active)
      BY <2>2 DEF SavedRow, CatalogInv, Shapes, Columns
    <3> QED
      BY <3>4, <3>5, Disjoint DEF OrElse
  <2>6. Shapes'
    BY <2>2, <2>3, <2>4 DEF CatalogInv, Shapes
  <2>7. ASSUME NEW d \in AdminCalls PROVE EditOK(d)'
    <3>1. EditOK(d)
      BY DEF CatalogInv
    <3> QED
      BY <3>1, <2>3 DEF EditOK
  <2>8. ASSUME NEW m \in Movers PROVE MoverOK(m)'
    BY <2>2 DEF CatalogInv, MoverOK, Moving
  <2>9. EditsInFlight' \subseteq EditsInFlight \ {c}
    BY <2>2, <2>3, Disjoint DEF EditsInFlight
  <2>10. EditAloneOK'
    BY <2>2, <2>9 DEF CatalogInv, EditAloneOK
  <2>11. closed' => product'.there /\ Shut'
    <3> SUFFICES ASSUME closed' PROVE product'.there /\ Shut'
      OBVIOUS
    <3>1. edit[c].op # "update"
      BY <1>1, <2>2 DEF CatalogInv, Shut, CatalogQuiet
    <3>2. CASE closed
      <4>1. /\ \A d \in AdminCalls : edit[d].pc = "save" => edit[d].op # "update"
            /\ \A m \in Movers : Moving(m) => mover[m].product.archived /\ ~mover[m].product.active
        BY <1>1, <3>2 DEF CatalogInv, Shut, CatalogQuiet
      <4>2. \A d \in AdminCalls : edit'[d].pc = "save" => edit'[d].op # "update"
        BY <4>1, <2>3
      <4> QED
        BY <2>2, <2>5, <3>1, <4>1, <4>2 DEF Shut, Moving
    <3>3. CASE editLone = c
      <4>1. EditsInFlight = {c}
        BY <1>1, <3>3 DEF CatalogInv, EditAloneOK
      <4>2. \A m \in Movers : ~Moving(m)
        BY <4>1, Disjoint DEF EditsInFlight, Moving
      <4>3. \A d \in AdminCalls : edit'[d].pc # "save"
        BY <2>9, <4>1 DEF EditsInFlight
      <4> QED
        BY <2>2, <2>5, <3>1, <4>2, <4>3 DEF Shut, Moving
    <3> QED
      BY <2>2, <3>2, <3>3
  <2> QED
    BY <2>6, <2>7, <2>8, <2>10, <2>11 DEF CatalogInv
<1> QED
  BY <1>2, <1>3

\* A stock update goes on or ends; what it saves is the product as it was read.
LEMMA MoverGoesOn ==
  ASSUME CatalogInv, NEW m \in Movers, NEW r, mover' = [mover EXCEPT ![m] = r], Moving(m),
         UNCHANGED <<edit, editLone, closed>>,
         DOMAIN r = {"pc", "id", "row", "product"},
         r.pc \in {"size", "product"} => r.product = mover[m].product,
         product' \in {product, mover[m].product}
  PROVE  CatalogInv'
<1>1. /\ DOMAIN mover' = Movers /\ mover'[m] = r
      /\ \A n \in Movers \ {m} : mover'[n] = mover[n]
  BY DEF CatalogInv, Shapes
<1>2. DOMAIN mover[m].product = Columns /\ mover[m].product.there
  BY DEF CatalogInv, MoverOK
<1>3. Shapes'
  BY <1>1, <1>2 DEF CatalogInv, Shapes
<1>4. ASSUME NEW c \in AdminCalls PROVE EditOK(c)'
  BY DEF CatalogInv, EditOK
<1>5. ASSUME NEW n \in Movers PROVE MoverOK(n)'
  <2>1. MoverOK(n)
    BY DEF CatalogInv
  <2> QED
    BY <2>1, <1>1, <1>2 DEF MoverOK, Moving
<1>6. EditsInFlight' \subseteq EditsInFlight
  BY <1>1 DEF EditsInFlight, Moving
<1>7. EditAloneOK'
  BY <1>6 DEF CatalogInv, EditAloneOK
<1>8. closed' => product'.there /\ Shut'
  <2> SUFFICES ASSUME closed PROVE product'.there /\ Shut'
    OBVIOUS
  <2>1. ~CatalogQuiet /\ product.there
    BY DEF CatalogInv, CatalogQuiet, EditsInFlight, Moving
  <2>2. /\ product.archived /\ ~product.active
        /\ \A c \in AdminCalls : edit[c].pc = "save" => edit[c].op # "update"
        /\ \A n \in Movers : Moving(n) => mover[n].product.archived /\ ~mover[n].product.active
    BY <2>1 DEF CatalogInv, Shut
  <2>3. \A n \in Movers : Moving(n)' => mover'[n].product.archived /\ ~mover'[n].product.active
    BY <2>2, <1>1 DEF Moving
  <2> QED
    BY <2>1, <2>2, <2>3, <1>2 DEF Shut
<1> QED
  BY <1>3, <1>4, <1>5, <1>7, <1>8 DEF CatalogInv

LEMMA RestingMover ==
  ASSUME NEW r, r = [Resting EXCEPT !.pc = "ended"]
  PROVE  DOMAIN r = {"pc", "id", "row", "product"} /\ r.pc = "ended"
BY DEF Resting

LEMMA ReadStockKeeps ==
  ASSUME CatalogInv, NEW m \in Movers, ReadStock(m)
  PROVE  CatalogInv'
<1>0. PICK s \in Here(size), change \in {-1, 1} :
        mover' = [mover EXCEPT ![m] = [pc |-> "size", id |-> s,
                row |-> [size[s] EXCEPT !.inventory = @ + change, !.sold = @ - change],
                product |-> [product EXCEPT !.inventory = @ + change, !.sold = @ - change]]]
  BY DEF ReadStock
<1>1. PICK moved, taken :
        /\ moved = [size[s] EXCEPT !.inventory = @ + change, !.sold = @ - change]
        /\ taken = [product EXCEPT !.inventory = @ + change, !.sold = @ - change]
        /\ mover' = [mover EXCEPT ![m] = [pc |-> "size", id |-> s, row |-> moved, product |-> taken]]
  BY <1>0
<1>2. /\ DOMAIN taken = DOMAIN product /\ taken.there = product.there
      /\ taken.archived = product.archived /\ taken.active = product.active
  BY <1>1 DEF CatalogInv, Shapes, Columns
<1>3. PICK r : r = [pc |-> "size", id |-> s, row |-> moved, product |-> taken]
  OBVIOUS
<1>4. DOMAIN r = {"pc", "id", "row", "product"} /\ r.product = taken
  BY <1>3
<1>5. /\ DOMAIN mover' = Movers /\ mover'[m] = r
      /\ \A n \in Movers \ {m} : mover'[n] = mover[n]
  BY <1>1, <1>3 DEF CatalogInv, Shapes
<1>6. /\ product.there /\ ~product.deleted /\ mover[m].pc = "idle"
      /\ UNCHANGED <<product, variant, size>> /\ UNCHANGED <<edit, closed>>
      /\ editLone' = IF CatalogQuiet THEN m ELSE NoEdit
  BY DEF ReadStock, ProductFound, productRows, EditBegins
<1>7. Shapes'
  BY <1>4, <1>5, <1>6 DEF CatalogInv, Shapes
<1>8. ASSUME NEW c \in AdminCalls PROVE EditOK(c)'
  BY <1>6 DEF CatalogInv, EditOK
<1>9. ASSUME NEW n \in Movers PROVE MoverOK(n)'
  <2>1. MoverOK(n) /\ DOMAIN product = Columns
    BY DEF CatalogInv, Shapes
  <2> QED
    BY <2>1, <1>2, <1>4, <1>5, <1>6 DEF MoverOK, Moving
<1>10. EditsInFlight' \subseteq EditsInFlight \cup {m}
  BY <1>5, <1>6 DEF EditsInFlight
<1>11. EditAloneOK'
  BY <1>6, <1>10, BeginsAlone
<1>12. closed' => product'.there /\ Shut'
  <2> SUFFICES ASSUME closed PROVE product'.there /\ Shut'
    BY <1>6
  <2>1. /\ product.archived /\ ~product.active
        /\ \A c \in AdminCalls : edit[c].pc = "save" => edit[c].op # "update"
        /\ \A n \in Movers : Moving(n) => mover[n].product.archived /\ ~mover[n].product.active
    BY <1>6 DEF CatalogInv, Shut
  <2>2. \A n \in Movers : Moving(n)' => mover'[n].product.archived /\ ~mover'[n].product.active
    BY <2>1, <1>2, <1>4, <1>5 DEF Moving
  <2> QED
    BY <2>1, <2>2, <1>6 DEF Shut
<1> QED
  BY <1>7, <1>8, <1>9, <1>11, <1>12 DEF CatalogInv

LEMMA SaveStockKeeps ==
  ASSUME CatalogInv, NEW m \in Movers, SaveStock(m)
  PROVE  CatalogInv'
<1>1. PICK r : r = [mover[m] EXCEPT !.pc = "product"]
  OBVIOUS
<1>2. DOMAIN r = {"pc", "id", "row", "product"} /\ r.product = mover[m].product
  BY <1>1 DEF CatalogInv, Shapes
<1>3. /\ mover' = [mover EXCEPT ![m] = r] /\ Moving(m)
      /\ UNCHANGED <<edit, editLone, closed>> /\ product' = product
  BY <1>1 DEF SaveStock, Moving, editHistory
<1> QED
  BY <1>2, <1>3, MoverGoesOn

LEMMA SaveTotalsKeeps ==
  ASSUME CatalogInv, NEW m \in Movers, SaveTotals(m)
  PROVE  CatalogInv'
<1>1. PICK r : r = [Resting EXCEPT !.pc = "ended"]
  OBVIOUS
<1>2. /\ mover' = [mover EXCEPT ![m] = r] /\ Moving(m)
      /\ UNCHANGED <<edit, editLone, closed>> /\ product' = mover[m].product
  BY <1>1 DEF SaveTotals, Moving, editHistory
<1> QED
  BY <1>1, <1>2, RestingMover, MoverGoesOn

LEMMA EditDiesKeeps ==
  ASSUME CatalogInv, NEW who \in AdminCalls \cup Movers, EditDies(who)
  PROVE  CatalogInv'
<1>1. UNCHANGED <<product, variant, size>> /\ UNCHANGED <<editLone, closed>> /\ who \in EditsInFlight
  BY DEF EditDies, productRows
<1>2. CASE who \in AdminCalls
  <2>1. edit' = [edit EXCEPT ![who] = EditEnded] /\ UNCHANGED mover
    BY <1>2 DEF EditDies
  <2>2. edit[who].pc = "save"
    BY <1>1, <1>2, Disjoint DEF EditsInFlight
  <2> QED
    BY <1>1, <1>2, <2>1, <2>2, CallEnds
<1>3. CASE who \notin AdminCalls
  <2>1. PICK r : r = [Resting EXCEPT !.pc = "ended"]
    OBVIOUS
  <2>2. mover' = [mover EXCEPT ![who] = r] /\ UNCHANGED edit
    BY <1>3, <2>1 DEF EditDies
  <2>3. Moving(who)
    BY <1>1, <1>3 DEF EditsInFlight, Moving
  <2> QED
    BY <1>1, <1>3, <2>1, <2>2, <2>3, RestingMover, MoverGoesOn
<1> QED
  BY <1>2, <1>3

LEMMA NoCatalogStep ==
  ASSUME CatalogInv, UNCHANGED catalogVars
  PROVE  CatalogInv'
<1>1. UNCHANGED <<product, edit, mover, editLone, closed>>
  BY DEF catalogVars, productRows, editHistory
<1>2. Shapes' /\ (\A c \in AdminCalls : EditOK(c)') /\ (\A m \in Movers : MoverOK(m)')
  BY <1>1 DEF CatalogInv, Shapes, EditOK, MoverOK, Moving
<1>3. EditsInFlight' = EditsInFlight
  BY <1>1 DEF EditsInFlight
<1> QED
  BY <1>1, <1>2, <1>3 DEF CatalogInv, EditAloneOK, Shut, CatalogQuiet, Moving

LEMMA CatalogInvariant == CatalogSpec => []CatalogInv
<1>1. CatalogInit => CatalogInv
  <2> SUFFICES ASSUME CatalogInit PROVE CatalogInv
    OBVIOUS
  <2>1. /\ product = NoProduct /\ ~closed /\ editLone = NoEdit
        /\ DOMAIN edit = AdminCalls /\ \A c \in AdminCalls : edit[c] = FreshEdit
        /\ DOMAIN mover = Movers /\ \A m \in Movers : mover[m] = Resting
    BY DEF CatalogInit
  <2>2. DOMAIN Resting = {"pc", "id", "row", "product"} /\ Resting.pc = "idle" /\ DOMAIN NoProduct = Columns
    BY DEF Resting, NoProduct, Columns
  <2>3. Shapes
    BY <2>1, <2>2, EndedEdit DEF Shapes
  <2>4. EditsInFlight = {}
    BY <2>1, <2>2, EndedEdit DEF EditsInFlight
  <2> QED
    BY <2>1, <2>2, <2>3, <2>4, EndedEdit DEF CatalogInv, EditOK, MoverOK, Moving, EditAloneOK
<1>2. CatalogInv /\ [CatalogNext]_catalogVars => CatalogInv'
  <2> SUFFICES ASSUME CatalogInv, [CatalogNext]_catalogVars PROVE CatalogInv'
    OBVIOUS
  <2>1. ASSUME NEW c \in AdminCalls,
               CreateProduct(c) \/ LoadToUpdate(c) \/ LoadToArchive(c) \/ DeleteProduct(c)
        PROVE  CatalogInv'
    BY <2>1, CreateProductKeeps, LoadToUpdateKeeps, LoadToArchiveKeeps, DeleteProductKeeps
  <2>2. ASSUME NEW c \in AdminCalls,
               \/ InsertVariant(c) \/ InsertSize(c) \/ SaveVariant(c) \/ SaveSize(c)
               \/ SaveProduct(c) \/ CreateEnds(c)
        PROVE  CatalogInv'
    BY <2>2, TasksKeep, SaveProductKeeps
  <2>3. ASSUME NEW m \in Movers, ReadStock(m) \/ SaveStock(m) \/ SaveTotals(m)
        PROVE  CatalogInv'
    BY <2>3, ReadStockKeeps, SaveStockKeeps, SaveTotalsKeeps
  <2>4. ASSUME NEW who \in AdminCalls \cup Movers, EditDies(who)
        PROVE  CatalogInv'
    BY <2>4, EditDiesKeeps
  <2>5. CASE UNCHANGED catalogVars
    BY <2>5, NoCatalogStep
  <2> QED
    BY <2>1, <2>2, <2>3, <2>4, <2>5 DEF CatalogNext
<1> QED
  BY <1>1, <1>2, PTL DEF CatalogSpec

\* What was archived or deleted alone is neither listed nor let into a cart until it is edited.
THEOREM ClosedProductStaysClosed == CatalogSpec => []ClosedStaysClosed
<1>1. CatalogInv => ClosedStaysClosed
  <2> SUFFICES ASSUME CatalogInv, closed
               PROVE  /\ ~ProductListed /\ ~findAllProductCms(Unset, Unset)
                      /\ \A s \in Here(size) : ~CartTakes(s)
    BY DEF ClosedStaysClosed
  <2>1. product.deleted \/ (product.archived /\ ~product.active)
    BY DEF CatalogInv, Shut
  <2> QED
    BY <2>1 DEF ProductListed, findAllProductCms, CartTakes, ProductFound, OrElse
<1> QED
  BY <1>1, CatalogInvariant, PTL

-----------------------------------------------------------------------------
(* Catalog: what the calls of the admin have to do *)

\* f is the recursive function that FlattenSeq stands for, on the first n pieces.
IsFlat(f, q, n) == f = [i \in 1..n |-> IF i = 1 THEN q[i] ELSE f[i - 1] \o q[i]]

LEMMA FlatExists == ASSUME NEW q PROVE \A n \in Nat : \E f : IsFlat(f, q, n)
<1> DEFINE N == {n \in Nat : \E f : IsFlat(f, q, n)}
<1>1. 0 \in N
  <2>1. IsFlat([i \in 1..0 |-> 0], q, 0)
    BY DEF IsFlat
  <2> QED
    BY <2>1
<1>2. ASSUME NEW n \in N PROVE n + 1 \in N
  <2>1. PICK f : IsFlat(f, q, n)
    OBVIOUS
  <2> DEFINE g == [i \in 1..(n + 1) |-> IF i = n + 1 /\ i # 1 THEN f[n] \o q[n + 1] ELSE IF i = 1 THEN q[i] ELSE f[i]]
             After(h, i) == IF i = 1 THEN q[i] ELSE h[i - 1] \o q[i]
  <2>2. ASSUME NEW i \in 1..n PROVE f[i] = After(f, i)
    BY <2>1 DEF IsFlat
  <2>3. ASSUME NEW i \in 1..(n + 1) PROVE g[i] = After(g, i)
    <3>1. CASE i = 1
      BY <3>1
    <3>2. CASE i # 1 /\ i = n + 1
      <4>1. n \in 1..n /\ i - 1 = n /\ n \in 1..(n + 1) /\ n # n + 1
        BY <3>2
      <4>2. g[i] = f[n] \o q[n + 1]
        BY <3>2
      <4>3. g[n] = f[n]
        <5>1. n = 1 => f[n] = q[n]
          BY <2>2, <4>1
        <5> QED
          BY <4>1, <5>1
      <4> HIDE DEF g
      <4> QED
        BY <3>2, <4>1, <4>2, <4>3
    <3>3. CASE i # 1 /\ i # n + 1
      <4>1. i \in 1..n /\ i - 1 \in 1..n /\ i - 1 \in 1..(n + 1) /\ i - 1 # n + 1
        BY <3>3
      <4>2. g[i] = f[i]
        BY <3>3
      <4>3. g[i - 1] = f[i - 1]
        <5>1. i - 1 = 1 => f[i - 1] = q[i - 1]
          BY <2>2, <4>1
        <5> QED
          BY <4>1, <5>1
      <4>4. f[i] = After(f, i)
        BY <2>2, <4>1
      <4> HIDE DEF g
      <4> QED
        BY <3>3, <4>2, <4>3, <4>4
    <3> QED
      BY <3>1, <3>2, <3>3
  <2>4. g = [i \in 1..(n + 1) |-> g[i]]
    OBVIOUS
  <2>5. IsFlat(g, q, n + 1)
    <3> HIDE DEF g
    <3> QED
      BY <2>3, <2>4 DEF IsFlat
  <2>6. n + 1 \in Nat
    OBVIOUS
  <2> HIDE DEF g
  <2> QED
    BY <2>5, <2>6
<1>3. N \subseteq Nat
  OBVIOUS
<1>4. N = Nat
  <2> HIDE DEF N
  <2> QED
    BY <1>1, <1>2, <1>3, AllNaturals
<1> QED
  BY <1>4

LEMMA FlatSeq ==
  ASSUME NEW T, NEW q, NEW n \in Nat, DOMAIN q = 1..n, q = [i \in 1..n |-> q[i]], \A i \in 1..n : q[i] \in Seq(T)
  PROVE  FlattenSeq(q) \in Seq(T)
<1>1. q \in Seq(Seq(T)) /\ Len(q) = n
  <2>1. q \in [1..n -> Seq(T)]
    OBVIOUS
  <2> QED
    BY <2>1
<1>2. CASE n = 0
  <2>1. FlattenSeq(q) = q
    BY <1>1, <1>2 DEF FlattenSeq
  <2>2. q \in [1..n -> T]
    BY <1>2
  <2> QED
    BY <2>1, <2>2
<1>3. CASE n # 0
  <2> DEFINE f == CHOOSE h : IsFlat(h, q, n)
  <2>1. IsFlat(f, q, n)
    BY FlatExists
  <2>2. FlattenSeq(q) = f[n]
    BY <1>1, <1>3 DEF FlattenSeq, IsFlat
  <2> HIDE DEF f
  <2>3. \A i \in 1..n : f[i] = IF i = 1 THEN q[i] ELSE f[i - 1] \o q[i]
    BY <2>1 DEF IsFlat
  <2> DEFINE N == {m \in Nat : m + 1 \in 1..n => f[m + 1] \in Seq(T)}
  <2>4. 0 \in N
    BY <2>3
  <2>5. ASSUME NEW m \in N PROVE m + 1 \in N
    <3>1. SUFFICES ASSUME m + 2 \in 1..n PROVE f[m + 2] \in Seq(T)
      OBVIOUS
    <3>2. m + 1 \in 1..n /\ f[m + 1] \in Seq(T)
      BY <3>1
    <3>3. f[m + 2] = f[m + 1] \o q[m + 2]
      <4>1. m + 2 # 1 /\ (m + 2) - 1 = m + 1
        OBVIOUS
      <4> QED
        BY <2>3, <3>1, <4>1
    <3>4. q[m + 2] \in Seq(T)
      BY <3>1
    <3> QED
      BY <3>2, <3>3, <3>4
  <2>6. N = Nat
    <3>1. N \subseteq Nat
      OBVIOUS
    <3> HIDE DEF N
    <3> QED
      BY <2>4, <2>5, <3>1, AllNaturals
  <2>7. n - 1 \in N /\ (n - 1) + 1 = n
    BY <1>3, <2>6
  <2> QED
    BY <2>2, <2>7
<1> QED
  BY <1>2, <1>3

(* What a call of the admin has to save. *)

CreatedRow == {r \in SizeRow : r.there}
UnsoldRow == {r \in CreatedRow : r.sold = 0 /\ r.inventory = r.quantity}

CreateTask == [do : {"newVariant"}, active : BOOLEAN] \cup [do : {"newSize"}, name : Names, row : CreatedRow]
UpdateTask == [do : {"newVariant"}, active : BOOLEAN]
              \cup [do : {"newSize"}, name : Names, row : UnsoldRow]
              \cup [do : {"addSize"}, id : AdminCalls, name : Names, row : UnsoldRow]
              \cup [do : {"variant"}, id : AdminCalls, active : Optional(BOOLEAN)]
              \cup [do : {"size"}, id : AdminCalls, name : Names, quantity : Nat, active : Optional(BOOLEAN)]

LEMMA CreateTyped ==
  ASSUME NEW dto \in Creations
  PROVE  CreateTasks(dto) \in Seq(CreateTask)
<1> DEFINE vs == dto.variants
           n == Len(vs)
           First(i) == [do |-> "newVariant", active |-> OrElse(vs[i].active, TRUE)]
           Row(s) == [there |-> TRUE, quantity |-> s.quantity, sold |-> OrElse(s.sold, 0),
                      inventory |-> OrElse(s.inventory, s.quantity), active |-> OrElse(s.active, TRUE)]
           Rest(i) == [j \in 1..Len(vs[i].sizes) |-> [do |-> "newSize", name |-> vs[i].sizes[j].name,
                                                      row |-> Row(vs[i].sizes[j])]]
           q == [i \in 1..n |-> <<First(i)>> \o Rest(i)]
<1>1. vs \in Seq(CreateVariantDto) /\ n \in Nat
  BY CatalogAssumption DEF CreateProductDto
<1>2. ASSUME NEW i \in 1..n PROVE q[i] \in Seq(CreateTask)
  <2>1. vs[i] \in CreateVariantDto
    BY <1>1
  <2>2. vs[i].sizes \in Seq(CreateVariantSizeDto) /\ vs[i].active \in Optional(BOOLEAN)
    BY <2>1 DEF CreateVariantDto
  <2>3. First(i) \in CreateTask
    <3>1. OrElse(vs[i].active, TRUE) \in BOOLEAN
      BY <2>2 DEF Optional, OrElse
    <3> QED
      BY <3>1 DEF CreateTask
  <2>4. ASSUME NEW j \in 1..Len(vs[i].sizes) PROVE Rest(i)[j] \in CreateTask
    <3> DEFINE s == vs[i].sizes[j]
    <3>1. s \in CreateVariantSizeDto
      BY <2>2
    <3>2. s.name \in Names /\ s.quantity \in Nat /\ s.sold \in Optional(Nat)
          /\ s.inventory \in Optional(Nat) /\ s.active \in Optional(BOOLEAN)
      BY <3>1 DEF CreateVariantSizeDto
    <3>3. PICK sold \in Nat, inventory \in Nat, active \in BOOLEAN :
              /\ sold = OrElse(s.sold, 0) /\ inventory = OrElse(s.inventory, s.quantity)
              /\ active = OrElse(s.active, TRUE)
      BY <3>2 DEF Optional, OrElse
    <3>4. Row(s) \in CreatedRow
      <4>1. Row(s) = [there |-> TRUE, quantity |-> s.quantity, sold |-> sold,
                      inventory |-> inventory, active |-> active]
        BY <3>3
      <4> HIDE DEF Row, s
      <4>2. Row(s) \in SizeRow /\ Row(s).there
        BY <3>2, <4>1 DEF SizeRow
      <4> QED
        BY <4>2 DEF CreatedRow
    <3>5. Rest(i)[j] = [do |-> "newSize", name |-> s.name, row |-> Row(s)]
      OBVIOUS
    <3> HIDE DEF s, Row, Rest
    <3> QED
      BY <3>2, <3>4, <3>5 DEF CreateTask
  <2>5. Len(vs[i].sizes) \in Nat
    BY <2>2
  <2>6. Rest(i) = [j \in 1..Len(vs[i].sizes) |-> Rest(i)[j]]
    OBVIOUS
  <2>7. q[i] = <<First(i)>> \o Rest(i)
    OBVIOUS
  <2> HIDE DEF First, Rest, q
  <2>8. Rest(i) \in Seq(CreateTask)
    <3>1. Rest(i) \in [1..Len(vs[i].sizes) -> CreateTask]
      BY <2>4, <2>6
    <3> QED
      BY <2>5, <3>1
  <2>9. <<First(i)>> \in Seq(CreateTask)
    BY <2>3
  <2> QED
    BY <2>7, <2>8, <2>9
<1>3. CreateTasks(dto) = FlattenSeq(q)
  BY DEF CreateTasks
<1>4. DOMAIN q = 1..n /\ q = [i \in 1..n |-> q[i]]
  OBVIOUS
<1> HIDE DEF q, n
<1> QED
  BY <1>1, <1>2, <1>3, <1>4, FlatSeq

LEMMA NewSizeUnsold ==
  ASSUME NEW s \in UpdateVariantSizeDto
  PROVE  NewSizeRow(s) \in UnsoldRow
<1>1. s.quantity \in Nat /\ s.active \in Optional(BOOLEAN)
  BY DEF UpdateVariantSizeDto
<1>2. PICK active \in BOOLEAN : active = OrElse(s.active, TRUE)
  BY <1>1 DEF Optional, OrElse
<1>3. NewSizeRow(s) = [there |-> TRUE, quantity |-> s.quantity, sold |-> 0, inventory |-> s.quantity,
                       active |-> active]
  BY <1>2 DEF NewSizeRow
<1>4. /\ NewSizeRow(s) \in SizeRow /\ NewSizeRow(s).there /\ NewSizeRow(s).sold = 0
      /\ NewSizeRow(s).inventory = NewSizeRow(s).quantity
  BY <1>1, <1>3 DEF SizeRow
<1> QED
  BY <1>4 DEF UnsoldRow, CreatedRow

LEMMA UpdateTyped ==
  ASSUME NEW dto \in Edits, NEW entity, DOMAIN entity.variant = AdminCalls
  PROVE  UpdateTasks(dto, entity) \in Seq(UpdateTask)
<1> DEFINE vs == dto.variants
           n == Len(vs)
           Old(i) == vs[i].id \in Here(entity.variant)
           First(i) == IF Old(i) THEN [do |-> "variant", id |-> vs[i].id, active |-> vs[i].active]
                       ELSE [do |-> "newVariant", active |-> OrElse(vs[i].active, TRUE)]
           One(i, j) == LET s == vs[i].sizes[j]
                        IN IF ~Old(i) THEN [do |-> "newSize", name |-> s.name, row |-> NewSizeRow(s)]
                           ELSE IF FoundSize(entity, vs[i].id, s.name) # {}
                           THEN [do |-> "size", id |-> vs[i].id, name |-> s.name,
                                 quantity |-> s.quantity, active |-> s.active]
                           ELSE [do |-> "addSize", id |-> vs[i].id, name |-> s.name, row |-> NewSizeRow(s)]
           Rest(i) == [j \in 1..Len(vs[i].sizes) |-> One(i, j)]
           q == [i \in 1..n |-> <<First(i)>> \o Rest(i)]
<1>1. vs \in Seq(UpdateVariantDto) /\ n \in Nat
  BY CatalogAssumption DEF UpdateProductDto
<1>2. ASSUME NEW i \in 1..n PROVE q[i] \in Seq(UpdateTask)
  <2>1. vs[i] \in UpdateVariantDto
    BY <1>1
  <2>2. vs[i].sizes \in Seq(UpdateVariantSizeDto) /\ vs[i].active \in Optional(BOOLEAN)
    BY <2>1 DEF UpdateVariantDto
  <2>0. Old(i) => vs[i].id \in AdminCalls
    BY DEF Here
  <2>3. First(i) \in UpdateTask
    <3>1. PICK active \in BOOLEAN : active = OrElse(vs[i].active, TRUE)
      BY <2>2 DEF Optional, OrElse
    <3>2. CASE Old(i)
      <4>1. First(i) = [do |-> "variant", id |-> vs[i].id, active |-> vs[i].active]
        BY <3>2
      <4> HIDE DEF First, Old
      <4> QED
        BY <2>0, <2>2, <3>2, <4>1 DEF UpdateTask
    <3>3. CASE ~Old(i)
      <4>1. First(i) = [do |-> "newVariant", active |-> active]
        BY <3>1, <3>3, Zenon
      <4> HIDE DEF First
      <4> QED
        BY <4>1 DEF UpdateTask
    <3> QED
      BY <3>2, <3>3
  <2>4. ASSUME NEW j \in 1..Len(vs[i].sizes) PROVE One(i, j) \in UpdateTask
    <3> DEFINE s == vs[i].sizes[j]
    <3>1. s \in UpdateVariantSizeDto
      BY <2>2
    <3>2. s.name \in Names /\ s.quantity \in Nat /\ s.active \in Optional(BOOLEAN)
      BY <3>1 DEF UpdateVariantSizeDto
    <3>3. NewSizeRow(s) \in UnsoldRow
      BY <3>1, NewSizeUnsold
    <3>4. CASE ~Old(i)
      <4>1. One(i, j) = [do |-> "newSize", name |-> s.name, row |-> NewSizeRow(s)]
        BY <3>4
      <4> HIDE DEF One, s
      <4> QED
        BY <3>2, <3>3, <4>1 DEF UpdateTask
    <3>5. CASE Old(i) /\ FoundSize(entity, vs[i].id, s.name) # {}
      <4>1. One(i, j) = [do |-> "size", id |-> vs[i].id, name |-> s.name,
                         quantity |-> s.quantity, active |-> s.active]
        BY <3>5
      <4> HIDE DEF One, s, Old
      <4> QED
        BY <2>0, <3>2, <3>5, <4>1 DEF UpdateTask
    <3>6. CASE Old(i) /\ FoundSize(entity, vs[i].id, s.name) = {}
      <4>1. One(i, j) = [do |-> "addSize", id |-> vs[i].id, name |-> s.name, row |-> NewSizeRow(s)]
        BY <3>6
      <4> HIDE DEF One, s, Old
      <4> QED
        BY <2>0, <3>2, <3>3, <3>6, <4>1 DEF UpdateTask
    <3> QED
      BY <3>4, <3>5, <3>6
  <2>5. Len(vs[i].sizes) \in Nat
    BY <2>2
  <2>7. q[i] = <<First(i)>> \o Rest(i)
    OBVIOUS
  <2>8. Rest(i) \in Seq(UpdateTask)
    <3> HIDE DEF One
    <3>1. Rest(i) \in [1..Len(vs[i].sizes) -> UpdateTask]
      BY <2>4
    <3> QED
      BY <2>5, <3>1
  <2> HIDE DEF First, Rest, q
  <2>9. <<First(i)>> \in Seq(UpdateTask)
    BY <2>3
  <2> QED
    BY <2>7, <2>8, <2>9
<1>3. UpdateTasks(dto, entity) = FlattenSeq(q)
  <2>1. ASSUME NEW i \in 1..n
        PROVE  q[i] = LET v == vs[i]
           IN IF v.id \in Here(entity.variant)
              THEN <<[do |-> "variant", id |-> v.id, active |-> v.active]>> \o
                   [j \in 1..Len(v.sizes) |->
                    IF FoundSize(entity, v.id, v.sizes[j].name) # {}
                    THEN [do |-> "size", id |-> v.id, name |-> v.sizes[j].name,
                          quantity |-> v.sizes[j].quantity, active |-> v.sizes[j].active]
                    ELSE [do |-> "addSize", id |-> v.id, name |-> v.sizes[j].name, row |-> NewSizeRow(v.sizes[j])]]
              ELSE <<[do |-> "newVariant", active |-> OrElse(v.active, TRUE)]>> \o
                   [j \in 1..Len(v.sizes) |-> [do |-> "newSize", name |-> v.sizes[j].name, row |-> NewSizeRow(v.sizes[j])]]
    <3>1. CASE Old(i)
      BY <3>1
    <3>2. CASE ~Old(i)
      BY <3>2
    <3> QED
      BY <3>1, <3>2
  <2> QED
    BY <2>1, Zenon DEF UpdateTasks
<1>4. DOMAIN q = 1..n /\ q = [i \in 1..n |-> q[i]]
  OBVIOUS
<1> HIDE DEF q, n
<1> QED
  BY <1>1, <1>2, <1>3, <1>4, FlatSeq

LEMMA FunctionIsSeq ==
  ASSUME NEW T, NEW n \in Nat, NEW f \in [1..n -> T]
  PROVE  f \in Seq(T)
OBVIOUS

LEMMA ArchiveTyped ==
  ASSUME NEW entity, DOMAIN entity.variant = AdminCalls, IsFiniteSet(Here(entity.variant))
  PROVE  ArchiveTasks(entity) \in Seq([do : {"archiveVariant"}, id : AdminCalls])
<1> DEFINE V == Here(entity.variant)
           n == Cardinality(V)
           ids == SetToSeq(V)
<1>1. V \subseteq AdminCalls
  BY DEF Here
<1>2. ids \in [1..n -> V] /\ n \in Nat
  <2>1. n \in Nat /\ ExistsBijection(1..n, V)
    BY FS_CardinalityType
  <2>2. \E f \in [1..n -> V] : IsInjective(f)
    BY <2>1 DEF ExistsBijection, Bijection, Injection, IsInjective
  <2> QED
    BY <2>1, <2>2 DEF SetToSeq
<1>3. ArchiveTasks(entity) = [i \in 1..Len(ids) |-> [do |-> "archiveVariant", id |-> ids[i]]]
  BY DEF ArchiveTasks
<1> HIDE DEF ids, n, V
<1>4. Len(ids) = n /\ \A i \in 1..n : ids[i] \in AdminCalls
  BY <1>1, <1>2
<1>5. ArchiveTasks(entity) \in [1..n -> [do : {"archiveVariant"}, id : AdminCalls]]
  BY <1>3, <1>4
<1> QED
  BY <1>2, <1>5, FunctionIsSeq

-----------------------------------------------------------------------------
(* Catalog: the totals *)

\* Rows that have nothing add nothing.
LEMMA SumZeros ==
  ASSUME NEW T, IsFiniteSet(T), NEW S \in SUBSET T, NEW w,
         \A x \in T : w[x] \in Int, \A x \in T \ S : w[x] = 0
  PROVE  SumOver(w, T) = SumOver(w, S)
<1> DEFINE N == {n \in Nat : \A t \in SUBSET T : S \subseteq t /\ Cardinality(t) <= n => SumOver(w, t) = SumOver(w, S)}
<1>1. \A t \in SUBSET T : IsFiniteSet(t) /\ Cardinality(t) \in Nat
  BY FS_Subset, FS_CardinalityType
<1>2. 0 \in N
  <2>1. \A t \in SUBSET T : Cardinality(t) <= 0 => t = {}
    BY <1>1, FS_EmptySet
  <2>2. \A t \in SUBSET T : S \subseteq t /\ t = {} => SumOver(w, t) = SumOver(w, S)
    <3>1. S \subseteq {} => S = {}
      OBVIOUS
    <3> QED
      BY <3>1
  <2> QED
    BY <2>1, <2>2
<1>3. ASSUME NEW n \in N PROVE n + 1 \in N
  <2>1. ASSUME NEW t \in SUBSET T, S \subseteq t, Cardinality(t) <= n + 1, t # S
        PROVE  SumOver(w, t) = SumOver(w, S)
    <3>1. PICK x \in t : x \notin S
      BY <2>1
    <3>2. t \ {x} \in SUBSET T /\ S \subseteq t \ {x} /\ w[x] = 0
      BY <2>1, <3>1
    <3>3. Cardinality(t \ {x}) <= n
      BY <1>1, <2>1, Remains
    <3>4. SumOver(w, t \ {x}) = SumOver(w, S)
      BY <3>2, <3>3
    <3>5. SumOver(w, t) = w[x] + SumOver(w, t \ {x}) /\ SumOver(w, t \ {x}) \in Int
      BY <1>1, <3>2, SumTakes
    <3> HIDE DEF N
    <3> QED
      BY <3>2, <3>4, <3>5
  <2>2. n + 1 \in Nat
    OBVIOUS
  <2> QED
    BY <2>1, <2>2
<1>4. N = Nat
  <2>1. N \subseteq Nat
    OBVIOUS
  <2> HIDE DEF N
  <2> QED
    BY <1>2, <1>3, <2>1, AllNaturals
<1>5. Cardinality(T) \in N /\ Cardinality(T) \in Nat /\ T \in SUBSET T
  BY <1>1, <1>4
<1> QED
  BY <1>5

-----------------------------------------------------------------------------
(* The rows of a product and their sums. *)

SameNumbers(a, b) ==
    a.there = b.there /\ a.quantity = b.quantity /\ a.sold = b.sold /\ a.inventory = b.inventory
Fits(row) == row.inventory = row.quantity - row.sold
SoldOf(rows, S) == Total(LAMBDA s : rows[s].sold, S)
QuantityOf(rows, S) == Total(LAMBDA s : rows[s].quantity, S)

LEMMA TotalsAreSums ==
  ASSUME NEW rows, NEW S
  PROVE  /\ SoldOf(rows, S) = SumOver([s \in S |-> rows[s].sold], S)
         /\ QuantityOf(rows, S) = SumOver([s \in S |-> rows[s].quantity], S)
<1> DEFINE sold == [s \in S |-> rows[s].sold]
           quantity == [s \in S |-> rows[s].quantity]
           SumsSold(f) == f = [t \in SUBSET S |-> IF t = {} THEN 0 ELSE rows[PickOf(t)].sold + f[t \ {PickOf(t)}]]
           SumsQuantity(f) == f = [t \in SUBSET S |-> IF t = {} THEN 0 ELSE rows[PickOf(t)].quantity + f[t \ {PickOf(t)}]]
<1>1. SoldOf(rows, S) = (CHOOSE f : SumsSold(f))[S]
  BY DEF SoldOf, Total, MapThenSumSet, MapThenFoldSet, PickOf
<1>2. QuantityOf(rows, S) = (CHOOSE f : SumsQuantity(f))[S]
  BY DEF QuantityOf, Total, MapThenSumSet, MapThenFoldSet, PickOf
<1>3. ASSUME NEW t \in SUBSET S, t # {}
      PROVE  sold[PickOf(t)] = rows[PickOf(t)].sold /\ quantity[PickOf(t)] = rows[PickOf(t)].quantity
  <2>1. PickOf(t) \in S
    BY <1>3, PickedFrom
  <2> QED
    BY <2>1
<1> HIDE DEF sold, quantity
<1>4. ASSUME NEW f PROVE SumsSold(f) <=> IsSum(f, sold, S)
  <2>1. [t \in SUBSET S |-> IF t = {} THEN 0 ELSE rows[PickOf(t)].sold + f[t \ {PickOf(t)}]]
         = [t \in SUBSET S |-> IF t = {} THEN 0 ELSE sold[PickOf(t)] + f[t \ {PickOf(t)}]]
    BY <1>3
  <2> QED
    BY <2>1 DEF IsSum
<1>5. ASSUME NEW f PROVE SumsQuantity(f) <=> IsSum(f, quantity, S)
  <2>1. [t \in SUBSET S |-> IF t = {} THEN 0 ELSE rows[PickOf(t)].quantity + f[t \ {PickOf(t)}]]
         = [t \in SUBSET S |-> IF t = {} THEN 0 ELSE quantity[PickOf(t)] + f[t \ {PickOf(t)}]]
    BY <1>3
  <2> QED
    BY <2>1 DEF IsSum
<1> HIDE DEF SumsSold, SumsQuantity
<1>6. SoldOf(rows, S) = SumOver(sold, S)
  BY <1>1, <1>4 DEF SumOver
<1>7. QuantityOf(rows, S) = SumOver(quantity, S)
  BY <1>2, <1>5 DEF SumOver
<1> QED
  BY <1>6, <1>7 DEF sold, quantity

LEMMA TotalsFollow ==
  ASSUME NEW v, NEW w, NEW S
  PROVE  /\ (\A s \in S : v[s].sold = w[s].sold) => SoldOf(v, S) = SoldOf(w, S)
         /\ (\A s \in S : v[s].quantity = w[s].quantity) => QuantityOf(v, S) = QuantityOf(w, S)
         /\ IsFiniteSet(S) /\ (\A s \in S : w[s].sold \in Int) => SoldOf(w, S) \in Int
         /\ IsFiniteSet(S) /\ (\A s \in S : w[s].quantity \in Int) => QuantityOf(w, S) \in Int
<1>1. ASSUME \A s \in S : v[s].sold = w[s].sold PROVE SoldOf(v, S) = SoldOf(w, S)
  <2>1. PICK m, n : m = [s \in S |-> v[s].sold] /\ n = [s \in S |-> w[s].sold]
    OBVIOUS
  <2>2. m = n
    BY <1>1, <2>1
  <2>3. SoldOf(v, S) = SumOver(m, S) /\ SoldOf(w, S) = SumOver(n, S)
    BY <2>1, TotalsAreSums
  <2> QED
    BY <2>2, <2>3
<1>2. ASSUME \A s \in S : v[s].quantity = w[s].quantity PROVE QuantityOf(v, S) = QuantityOf(w, S)
  <2>1. PICK m, n : m = [s \in S |-> v[s].quantity] /\ n = [s \in S |-> w[s].quantity]
    OBVIOUS
  <2>2. m = n
    BY <1>2, <2>1
  <2>3. QuantityOf(v, S) = SumOver(m, S) /\ QuantityOf(w, S) = SumOver(n, S)
    BY <2>1, TotalsAreSums
  <2> QED
    BY <2>2, <2>3
<1>3. ASSUME IsFiniteSet(S), \A s \in S : w[s].sold \in Int PROVE SoldOf(w, S) \in Int
  <2>1. PICK n : n = [s \in S |-> w[s].sold]
    OBVIOUS
  <2>2. \A s \in S : n[s] \in Int
    BY <1>3, <2>1
  <2>3. SumOver(n, S) \in Int
    BY <1>3, <2>2, SumTakes
  <2> QED
    BY <2>1, <2>3, TotalsAreSums
<1>4. ASSUME IsFiniteSet(S), \A s \in S : w[s].quantity \in Int PROVE QuantityOf(w, S) \in Int
  <2>1. PICK n : n = [s \in S |-> w[s].quantity]
    OBVIOUS
  <2>2. \A s \in S : n[s] \in Int
    BY <1>4, <2>1
  <2>3. SumOver(n, S) \in Int
    BY <1>4, <2>2, SumTakes
  <2> QED
    BY <2>1, <2>3, TotalsAreSums
<1> QED
  BY <1>1, <1>2, <1>3, <1>4

\* A size that sells some, or takes some back; sizes that have sold nothing.
LEMMA SomeSold ==
  ASSUME NEW v, NEW w, NEW S, IsFiniteSet(S), NEW x \in S, NEW change \in Int,
         \A s \in S : w[s].sold \in Int, v[x].sold = w[x].sold - change,
         \A s \in S \ {x} : v[s].sold = w[s].sold
  PROVE  SoldOf(v, S) = SoldOf(w, S) - change
<1>1. PICK m, n : m = [s \in S |-> v[s].sold] /\ n = [s \in S |-> w[s].sold]
  OBVIOUS
<1>2. /\ \A s \in S : m[s] \in Int /\ n[s] \in Int
      /\ \A s \in S \ {x} : m[s] = n[s]
      /\ m[x] = n[x] - change
  BY <1>1
<1>3. SumOver(m, S) = SumOver(n, S) + (m[x] - n[x])
  BY <1>2, SumChanges
<1>4. SumOver(n, S) \in Int /\ n[x] \in Int
  BY <1>2, SumTakes
<1>5. SumOver(m, S) = SumOver(n, S) - change
  BY <1>2, <1>3, <1>4
<1> QED
  BY <1>1, <1>5, TotalsAreSums

LEMMA NothingSoldElse ==
  ASSUME NEW w, NEW T, IsFiniteSet(T), NEW S \in SUBSET T,
         \A s \in T : w[s].sold \in Int, \A s \in T \ S : w[s].sold = 0
  PROVE  SoldOf(w, T) = SoldOf(w, S)
<1>1. PICK n, m : n = [s \in T |-> w[s].sold] /\ m = [s \in S |-> w[s].sold]
  OBVIOUS
<1>2. (\A s \in T : n[s] \in Int) /\ (\A s \in T \ S : n[s] = 0) /\ \A s \in S : m[s] = n[s]
  BY <1>1
<1>3. SumOver(n, T) = SumOver(n, S)
  BY <1>2, SumZeros
<1>4. SumOver(m, S) = SumOver(n, S)
  BY <1>2, SameSum
<1> QED
  BY <1>1, <1>3, <1>4, TotalsAreSums

(* What a call of the admin or of a stock update has in memory. *)

ArchiveTask == [do : {"archiveVariant"}, id : AdminCalls]
LoadedSize == [there : BOOLEAN, quantity : Int, sold : Int, inventory : Int, active : Optional(BOOLEAN)]
LoadedVariant == [there : BOOLEAN, active : Optional(BOOLEAN)]
LoadedProduct == [there : BOOLEAN, deleted : BOOLEAN, active : Optional(BOOLEAN), archived : Optional(BOOLEAN),
                  quantity : Int, sold : Int, inventory : Int]
Entity == [product : ProductRow, variant : [AdminCalls -> LoadedVariant], size : [SizeIds -> LoadedSize]]

EntityTyped(entity) == entity \in Entity /\ IsFiniteSet(Here(entity.size))

CallTyped(call) ==
    /\ DOMAIN call = EditFields /\ call.pc \in {"idle", "save", "ended"}
    /\ call.pc = "save" =>
          \/ call.op = "create" /\ call.todo \in Seq(CreateTask)
          \/ call.op = "update" /\ call.todo \in Seq(UpdateTask) /\ call.dto \in Edits /\ EntityTyped(call.entity)
          \/ call.op = "archive" /\ call.todo \in Seq(ArchiveTask) /\ EntityTyped(call.entity)

StockTyped(call) ==
    call \in [pc : {"idle", "size", "product", "ended"}, id : SizeIds \cup {NoEdit},
              row : SizeRow, product : ProductRow]

\* The sizes that a call has loaded are there, and none of its own among them.
Loads(c, call, rows) ==
    call.pc = "save" /\ call.op # "create" =>
        Here(call.entity.size) \subseteq Here(rows) /\ \A s \in Here(call.entity.size) : s[3] # c
Holds(call, rows) == call.pc \in {"size", "product"} => call.id \in Here(rows) /\ call.row.there

RowsTyped ==
    /\ product \in ProductRow
    /\ variant \in [AdminCalls -> VariantRow] /\ IsFiniteSet(Here(variant))
    /\ size \in [SizeIds -> SizeRow] /\ IsFiniteSet(Here(size))
HistoryTyped ==
    /\ editLone \in AdminCalls \cup Movers \cup {NoEdit}
    /\ editSettled \in BOOLEAN /\ closed \in BOOLEAN
    /\ counted \subseteq SizeIds /\ fitted \subseteq SizeIds

TotalsTyped ==
    /\ RowsTyped
    /\ HistoryTyped
    /\ DOMAIN edit = AdminCalls /\ \A c \in AdminCalls : CallTyped(edit[c]) /\ Loads(c, edit[c], size)
    /\ DOMAIN mover = Movers /\ \A m \in Movers : StockTyped(mover[m]) /\ Holds(mover[m], size)
    /\ \A s \in Here(size) : edit[s[3]].pc # "idle"

AdminStep == \E c \in AdminCalls : \E call :
    /\ edit' = [edit EXCEPT ![c] = call]
    /\ CallTyped(call) /\ call.pc # "idle" /\ Loads(c, call, size)
StockStep == \E m \in Movers : \E call :
    /\ mover' = [mover EXCEPT ![m] = call]
    /\ StockTyped(call) /\ Holds(call, size)

LEMMA TypedStep ==
  ASSUME TotalsTyped, RowsTyped', HistoryTyped',
         Here(size) \subseteq Here(size'), \A s \in Here(size') \ Here(size) : edit[s[3]].pc # "idle",
         edit' = edit \/ AdminStep, mover' = mover \/ StockStep
  PROVE  TotalsTyped'
<1>1. /\ DOMAIN edit = AdminCalls /\ \A c \in AdminCalls : CallTyped(edit[c]) /\ Loads(c, edit[c], size)
      /\ DOMAIN mover = Movers /\ \A m \in Movers : StockTyped(mover[m]) /\ Holds(mover[m], size)
      /\ \A s \in Here(size) : edit[s[3]].pc # "idle"
  BY DEF TotalsTyped
<1>2. \A c, call : Loads(c, call, size) => Loads(c, call, size')
  BY DEF Loads
<1>3. \A call : Holds(call, size) => Holds(call, size')
  BY DEF Holds
<1>4. /\ DOMAIN edit' = AdminCalls
      /\ \A c \in AdminCalls : /\ CallTyped(edit'[c]) /\ Loads(c, edit'[c], size)
                               /\ edit[c].pc # "idle" => edit'[c].pc # "idle"
  <2>1. CASE edit' = edit
    BY <2>1, <1>1
  <2>2. CASE AdminStep
    <3>1. PICK c \in AdminCalls : \E call :
              /\ edit' = [edit EXCEPT ![c] = call]
              /\ CallTyped(call) /\ call.pc # "idle" /\ Loads(c, call, size)
      BY <2>2 DEF AdminStep
    <3>2. PICK call :
              /\ edit' = [edit EXCEPT ![c] = call]
              /\ CallTyped(call) /\ call.pc # "idle" /\ Loads(c, call, size)
      BY <3>1
    <3>3. DOMAIN edit' = AdminCalls /\ edit'[c] = call /\ \A d \in AdminCalls \ {c} : edit'[d] = edit[d]
      BY <1>1, <3>2
    <3> QED
      BY <1>1, <3>2, <3>3
  <2> QED
    BY <2>1, <2>2
<1>5. /\ DOMAIN mover' = Movers
      /\ \A m \in Movers : StockTyped(mover'[m]) /\ Holds(mover'[m], size)
  <2>1. CASE mover' = mover
    BY <2>1, <1>1
  <2>2. CASE StockStep
    <3>1. PICK m \in Movers : \E call :
              mover' = [mover EXCEPT ![m] = call] /\ StockTyped(call) /\ Holds(call, size)
      BY <2>2 DEF StockStep
    <3>2. PICK call :
              mover' = [mover EXCEPT ![m] = call] /\ StockTyped(call) /\ Holds(call, size)
      BY <3>1
    <3>3. DOMAIN mover' = Movers /\ mover'[m] = call /\ \A n \in Movers \ {m} : mover'[n] = mover[n]
      BY <1>1, <3>2
    <3> QED
      BY <1>1, <3>2, <3>3
  <2> QED
    BY <2>1, <2>2
<1>6. \A s \in Here(size') : edit'[s[3]].pc # "idle"
  <2>1. \A s \in Here(size') : edit[s[3]].pc # "idle" /\ s[3] \in AdminCalls
    <3>1. \A s \in Here(size') : s \in SizeIds
      BY DEF RowsTyped, Here
    <3> QED
      BY <3>1, <1>1 DEF SizeIds
  <2> QED
    BY <2>1, <1>4
<1> QED
  BY <1>2, <1>3, <1>4, <1>5, <1>6 DEF TotalsTyped

LEMMA TaskFields ==
  /\ \A t \in CreateTask :
       \/ t.do = "newVariant" /\ t.active \in BOOLEAN
       \/ t.do = "newSize" /\ t.name \in Names /\ t.row \in CreatedRow
  /\ \A t \in UpdateTask :
       \/ t.do = "newVariant" /\ t.active \in BOOLEAN
       \/ t.do = "newSize" /\ t.name \in Names /\ t.row \in UnsoldRow
       \/ t.do = "addSize" /\ t.id \in AdminCalls /\ t.name \in Names /\ t.row \in UnsoldRow
       \/ t.do = "variant" /\ t.id \in AdminCalls /\ t.active \in Optional(BOOLEAN)
       \/ t.do = "size" /\ t.id \in AdminCalls /\ t.quantity \in Nat /\ t.active \in Optional(BOOLEAN)
  /\ \A t \in ArchiveTask : t.do = "archiveVariant" /\ t.id \in AdminCalls
BY DEF CreateTask, UpdateTask, ArchiveTask

\* The task that a call is at, by its operation.
LEMMA TaskAtHand ==
  ASSUME NEW call, CallTyped(call), call.pc = "save", call.todo # <<>>, NEW t, t = Head(call.todo)
  PROVE  /\ \/ call.op = "create" /\ t \in CreateTask
            \/ call.op = "update" /\ t \in UpdateTask
            \/ call.op = "archive" /\ t \in ArchiveTask
         /\ t.do = "newVariant" => t.active \in BOOLEAN /\ call.op # "archive"
         /\ t.do \in {"newSize", "addSize"} => t.name \in Names /\ t.row \in CreatedRow /\ call.op # "archive"
         /\ t.do \in {"newSize", "addSize"} /\ call.op = "update" => t.row \in UnsoldRow
         /\ t.do = "addSize" => t.id \in AdminCalls
         /\ t.do \in {"variant", "size"} => /\ call.op = "update" /\ t.id \in AdminCalls
                                            /\ t.active \in Optional(BOOLEAN)
         /\ t.do = "size" => t.quantity \in Nat
         /\ t.do = "archiveVariant" => call.op = "archive" /\ t.id \in AdminCalls
<1>1. \/ call.op = "create" /\ t \in CreateTask
      \/ call.op = "update" /\ t \in UpdateTask
      \/ call.op = "archive" /\ t \in ArchiveTask
  BY HeadTailProperties DEF CallTyped
<1>2. UnsoldRow \subseteq CreatedRow
  BY DEF UnsoldRow
<1> QED
  BY <1>1, <1>2, TaskFields

\* A call with one task less.
LEMMA TaskLeft ==
  ASSUME NEW call, CallTyped(call), call.pc = "save", call.todo # <<>>,
         NEW r, DOMAIN r = EditFields, r.pc = "save", r.op = call.op, r.dto = call.dto,
         r.todo = Tail(call.todo), call.op # "create" => EntityTyped(r.entity)
  PROVE  CallTyped(r)
<1>1. \A T : call.todo \in Seq(T) => r.todo \in Seq(T)
  OBVIOUS
<1> QED
  BY <1>1 DEF CallTyped

LEMMA Numbers == Unset \notin BOOLEAN /\ Unset \notin Int
BY CatalogAssumption

\* What is saved has the numbers of the entity.
LEMMA SavedSize ==
  ASSUME NEW row \in SizeRow, NEW entity \in LoadedSize
  PROVE  SavedRow(row, entity) \in SizeRow /\ SameNumbers(SavedRow(row, entity), entity)
<1>1. /\ DOMAIN row = {"there", "quantity", "sold", "inventory", "active"}
      /\ row.active \in BOOLEAN
      /\ entity.there \in BOOLEAN /\ entity.quantity \in Int /\ entity.sold \in Int /\ entity.inventory \in Int
      /\ entity.active \in Optional(BOOLEAN)
  BY DEF SizeRow, LoadedSize
<1>2. PICK r : r = SavedRow(row, entity)
  OBVIOUS
<1>3. /\ DOMAIN r = {"there", "quantity", "sold", "inventory", "active"}
      /\ r = [x \in {"there", "quantity", "sold", "inventory", "active"} |-> r[x]]
      /\ r["there"] = entity["there"] /\ r["quantity"] = entity["quantity"] /\ r["sold"] = entity["sold"]
      /\ r["inventory"] = entity["inventory"]
  BY <1>1, <1>2, Numbers DEF SavedRow, OrElse
<1>4. PICK active \in BOOLEAN : r["active"] = active
  <2>1. r["active"] = OrElse(entity["active"], row["active"])
    BY <1>1, <1>2 DEF SavedRow
  <2> QED
    BY <1>1, <2>1 DEF OrElse, Optional
<1>5. r = [there |-> entity.there, quantity |-> entity.quantity, sold |-> entity.sold,
           inventory |-> entity.inventory, active |-> active]
  BY <1>3, <1>4
<1> QED
  BY <1>1, <1>2, <1>5 DEF SizeRow, SameNumbers

LEMMA SavedVariant ==
  ASSUME NEW row \in VariantRow, NEW entity \in LoadedVariant
  PROVE  SavedRow(row, entity) \in VariantRow
<1>1. /\ DOMAIN row = {"there", "active"} /\ row.active \in BOOLEAN
      /\ entity.there \in BOOLEAN /\ entity.active \in Optional(BOOLEAN)
  BY DEF VariantRow, LoadedVariant
<1>2. PICK r : r = SavedRow(row, entity)
  OBVIOUS
<1>3. DOMAIN r = {"there", "active"} /\ r = [x \in {"there", "active"} |-> r[x]] /\ r["there"] = entity["there"]
  BY <1>1, <1>2, Numbers DEF SavedRow, OrElse
<1>4. PICK active \in BOOLEAN : r["active"] = active
  <2>1. r["active"] = OrElse(entity["active"], row["active"])
    BY <1>1, <1>2 DEF SavedRow
  <2> QED
    BY <1>1, <2>1 DEF OrElse, Optional
<1>5. r = [there |-> entity.there, active |-> active]
  BY <1>3, <1>4
<1> QED
  BY <1>1, <1>2, <1>5 DEF VariantRow

SameTotals(p, q) == p.quantity = q.quantity /\ p.sold = q.sold /\ p.inventory = q.inventory

LEMMA SavedProduct ==
  ASSUME NEW row \in ProductRow, NEW entity \in LoadedProduct
  PROVE  SavedRow(row, entity) \in ProductRow /\ SameTotals(SavedRow(row, entity), entity)
<1>1. /\ DOMAIN row = Columns /\ row.active \in BOOLEAN /\ row.archived \in BOOLEAN
      /\ entity.there \in BOOLEAN /\ entity.deleted \in BOOLEAN
      /\ entity.quantity \in Int /\ entity.sold \in Int /\ entity.inventory \in Int
      /\ entity.active \in Optional(BOOLEAN) /\ entity.archived \in Optional(BOOLEAN)
  BY DEF ProductRow, LoadedProduct, Columns
<1>2. PICK r : r = SavedRow(row, entity)
  OBVIOUS
<1>3. /\ DOMAIN r = Columns
      /\ r = [x \in Columns |-> r[x]]
      /\ r["there"] = entity["there"] /\ r["deleted"] = entity["deleted"]
      /\ r["quantity"] = entity["quantity"] /\ r["sold"] = entity["sold"] /\ r["inventory"] = entity["inventory"]
  BY <1>1, <1>2, Numbers DEF SavedRow, OrElse, Columns
<1>4. PICK active \in BOOLEAN, archived \in BOOLEAN : r["active"] = active /\ r["archived"] = archived
  <2>1. r["active"] = OrElse(entity["active"], row["active"]) /\ r["archived"] = OrElse(entity["archived"], row["archived"])
    BY <1>1, <1>2 DEF SavedRow, Columns
  <2> QED
    BY <1>1, <2>1 DEF OrElse, Optional
<1>5. r = [there |-> entity.there, deleted |-> entity.deleted, active |-> active, archived |-> archived,
           quantity |-> entity.quantity, sold |-> entity.sold, inventory |-> entity.inventory]
  BY <1>3, <1>4 DEF Columns
<1> QED
  BY <1>1, <1>2, <1>5 DEF ProductRow, SameTotals

\* Marks on a variant and its sizes change no number.
LEMMA WithVariant ==
  ASSUME NEW entity, EntityTyped(entity), NEW work, work.id \in AdminCalls,
         work.do # "archiveVariant" => work.active \in Optional(BOOLEAN),
         NEW e, e = EntityWithVariant(entity, work)
  PROVE  /\ EntityTyped(e) /\ e.product = entity.product /\ Here(e.size) = Here(entity.size)
         /\ \A s \in SizeIds : SameNumbers(e.size[s], entity.size[s])
<1>1. /\ entity \in Entity /\ entity.product \in ProductRow
      /\ entity.variant \in [AdminCalls -> LoadedVariant] /\ entity.size \in [SizeIds -> LoadedSize]
  BY DEF EntityTyped, Entity
<1>2. PICK active \in Optional(BOOLEAN) : active = IF work.do = "archiveVariant" THEN FALSE ELSE work.active
  BY DEF Optional
<1>3. PICK sizes : sizes = [s \in SizeIds |-> IF work.do = "archiveVariant" /\ s[1] = work.id
                                           THEN [entity.size[s] EXCEPT !.active = FALSE] ELSE entity.size[s]]
  OBVIOUS
<1>4. PICK row : row = [entity.variant[work.id] EXCEPT !.active = active]
  OBVIOUS
<1>5. row \in LoadedVariant
  BY <1>1, <1>4 DEF LoadedVariant
<1>6. e = [product |-> entity.product, variant |-> [entity.variant EXCEPT ![work.id] = row], size |-> sizes]
  <2>1. PICK variants : variants = [entity.variant EXCEPT ![work.id].active = active]
    OBVIOUS
  <2>2. variants = [entity.variant EXCEPT ![work.id] = row]
    BY <2>1, <1>4
  <2>3. e = [entity EXCEPT !.variant = [@ EXCEPT ![work.id].active = active], !.size = sizes]
    BY <1>2, <1>3, Zenon DEF EntityWithVariant
  <2>4. e = [entity EXCEPT !.variant = variants, !.size = sizes]
    BY <2>1, <2>3
  <2>5. e = [product |-> entity.product, variant |-> variants, size |-> sizes]
    BY <1>1, <2>4 DEF Entity
  <2> QED
    BY <2>2, <2>5
<1>7. ASSUME NEW s \in SizeIds
      PROVE  sizes[s] \in LoadedSize /\ SameNumbers(sizes[s], entity.size[s])
  <2>1. entity.size[s] \in LoadedSize
    BY <1>1
  <2>2. PICK no \in Optional(BOOLEAN) : no = FALSE
    BY DEF Optional
  <2>0. PICK r : r = [entity.size[s] EXCEPT !.active = FALSE]
    OBVIOUS
  <2>3. r \in LoadedSize /\ SameNumbers(r, entity.size[s])
    <3>1. r = [entity.size[s] EXCEPT !.active = no]
      BY <2>0, <2>2
    <3> HIDE <2>0, <2>2
    <3> QED
      BY <2>1, <3>1 DEF LoadedSize, SameNumbers
  <2>4. sizes[s] = r \/ sizes[s] = entity.size[s]
    BY <1>3, <2>0
  <2> QED
    BY <2>1, <2>3, <2>4 DEF SameNumbers
<1>8. sizes \in [SizeIds -> LoadedSize]
  BY <1>3, <1>7
<1>9. e \in Entity /\ e.size = sizes /\ e.product = entity.product
  BY <1>1, <1>5, <1>6, <1>8 DEF Entity
<1>10. Here(e.size) = Here(entity.size)
  BY <1>1, <1>7, <1>8, <1>9 DEF Here, SameNumbers
<1> QED
  BY <1>7, <1>9, <1>10 DEF EntityTyped

LEMMA WithSize ==
  ASSUME NEW entity, EntityTyped(entity), NEW s \in Here(entity.size), NEW work,
         work.quantity \in Nat, work.active \in Optional(BOOLEAN),
         NEW e, e = EntityWithSize(entity, s, work)
  PROVE  /\ s \in SizeIds
         /\ EntityTyped(e) /\ e.product = entity.product /\ Here(e.size) = Here(entity.size)
         /\ \A x \in SizeIds \ {s} : e.size[x] = entity.size[x]
         /\ e.size[s].there /\ e.size[s].sold = entity.size[s].sold /\ Fits(e.size[s])
<1>1. /\ entity \in Entity /\ entity.product \in ProductRow
      /\ entity.variant \in [AdminCalls -> LoadedVariant] /\ entity.size \in [SizeIds -> LoadedSize]
  BY DEF EntityTyped, Entity
<1>2. s \in SizeIds /\ entity.size[s] \in LoadedSize /\ entity.size[s].there
  BY <1>1 DEF Here
<1>3. PICK row : row = EditedSize(entity.size[s], work)
  OBVIOUS
<1>4. row = [there |-> entity.size[s].there, quantity |-> work.quantity, sold |-> entity.size[s].sold,
             inventory |-> work.quantity - entity.size[s].sold, active |-> work.active]
  BY <1>2, <1>3 DEF EditedSize, LoadedSize
<1>5. row \in LoadedSize /\ row.there /\ row.there = entity.size[s].there /\ row.sold = entity.size[s].sold /\ Fits(row)
  BY <1>2, <1>4 DEF LoadedSize, Fits
<1>6. PICK sizes : sizes = [entity.size EXCEPT ![s] = row]
  OBVIOUS
<1>7. e = [product |-> entity.product, variant |-> entity.variant, size |-> sizes]
  BY <1>1, <1>3, <1>6 DEF EntityWithSize, Entity
<1>8. /\ e.size = [entity.size EXCEPT ![s] = row] /\ e.product = entity.product
      /\ e.size \in [SizeIds -> LoadedSize] /\ e.variant = entity.variant
  <2>1. sizes \in [SizeIds -> LoadedSize]
    BY <1>1, <1>5, <1>6
  <2>2. e.size = sizes /\ e.product = entity.product /\ e.variant = entity.variant
    BY <1>7
  <2> QED
    BY <1>6, <2>1, <2>2
<1>9. e \in Entity
  BY <1>1, <1>8, <1>7 DEF Entity
<1>10. e.size[s] = row /\ \A x \in SizeIds \ {s} : e.size[x] = entity.size[x]
  BY <1>1, <1>2, <1>8
<1>11. Here(e.size) = Here(entity.size)
  <2>1. DOMAIN e.size = SizeIds /\ DOMAIN entity.size = SizeIds
    BY <1>1, <1>8
  <2>2. \A x \in SizeIds : e.size[x].there = entity.size[x].there
    BY <1>2, <1>5, <1>10
  <2> QED
    BY <2>1, <2>2 DEF Here
<1> QED
  BY <1>2, <1>5, <1>8, <1>9, <1>10, <1>11 DEF EntityTyped

-----------------------------------------------------------------------------
(* An admin's call that is alone has in memory what the rows say, but for *)
(* what it has added itself, of which nothing is sold.                    *)
Knows(call, p, rows, fit) ==
    LET loaded == call.entity.size
    IN /\ \A s \in Here(loaded) : SameNumbers(rows[s], loaded[s])
       /\ call.op = "update" => /\ \A s \in Here(rows) \ Here(loaded) : rows[s].sold = 0
                                /\ \A s \in fit : Fits(rows[s])
       /\ call.op = "archive" => SameTotals(call.entity.product, p)

EditLoneOK(c) ==
    edit[c].pc = "save" /\ edit[c].op # "create" /\ editLone = c => Knows(edit[c], product, size, fitted)

Balanced(p, rows, S) == p.quantity = QuantityOf(rows, S) /\ p.inventory = p.quantity - p.sold

\* A stock update between its saves is about to bring the totals up to the rows.
MoverSettled(call, rows, S) ==
    /\ call.pc = "size" => \E change \in Int :
          /\ call.product.sold = SoldOf(rows, Here(rows)) - change /\ Balanced(call.product, rows, S)
          /\ call.row.quantity = rows[call.id].quantity
          /\ call.row.sold = rows[call.id].sold - change
          /\ call.row.inventory = rows[call.id].inventory + change
    /\ call.pc = "product" =>
          call.product.sold = SoldOf(rows, Here(rows)) /\ Balanced(call.product, rows, S)

(* Since an edit settled the totals, only archivings and stock updates are  *)
(* under way, one at a time.                                                *)
SettledOK ==
    editSettled =>
        /\ EditsInFlight \subseteq {editLone}
        /\ \A c \in AdminCalls : edit[c].pc = "save" => edit[c].op = "archive"
        /\ \A m \in Movers : MoverSettled(mover[m], size, counted)
        /\ (\A m \in Movers : mover[m].pc # "product") => product.sold = SoldOf(size, Here(size))
        /\ Balanced(product, size, counted)
        /\ \A s \in fitted : Fits(size[s])

TotalsInv ==
    /\ TotalsTyped
    /\ \A c \in AdminCalls : EditLoneOK(c)
    /\ SettledOK

LEMMA SumsSame ==
  ASSUME NEW v \in [SizeIds -> SizeRow], NEW w \in [SizeIds -> SizeRow],
         \A s \in SizeIds : SameNumbers(v[s], w[s])
  PROVE  /\ Here(v) = Here(w) /\ SoldOf(v, Here(v)) = SoldOf(w, Here(w))
         /\ \A S \in SUBSET SizeIds : QuantityOf(v, S) = QuantityOf(w, S)
         /\ \A s \in SizeIds : Fits(v[s]) <=> Fits(w[s])
<1>1. Here(v) = Here(w) /\ Here(v) \subseteq SizeIds
  BY DEF Here, SameNumbers
<1>2. \A s \in SizeIds : v[s].sold = w[s].sold /\ v[s].quantity = w[s].quantity /\ v[s].inventory = w[s].inventory
  BY DEF SameNumbers
<1>3. SoldOf(v, Here(v)) = SoldOf(w, Here(v))
  BY <1>1, <1>2, TotalsFollow
<1>4. \A S \in SUBSET SizeIds : QuantityOf(v, S) = QuantityOf(w, S)
  BY <1>2, TotalsFollow
<1>5. \A s \in SizeIds : Fits(v[s]) <=> Fits(w[s])
  BY <1>2 DEF Fits
<1> QED
  BY <1>1, <1>3, <1>4, <1>5

LEMMA OthersAtRest ==
  ASSUME CatalogInv, NEW who \in EditsInFlight, editLone = who
  PROVE  /\ \A c \in AdminCalls : edit[c].pc = "save" => c = who
         /\ \A m \in Movers : Moving(m) => m = who
<1>1. EditsInFlight = {who}
  BY DEF CatalogInv, EditAloneOK
<1> QED
  BY <1>1 DEF EditsInFlight, Moving

\* A call of the admin saves something that is no total, or ends.
LEMMA AdminSaves ==
  ASSUME CatalogInv, TotalsInv, NEW c \in AdminCalls, edit[c].pc = "save",
         NEW call, edit' = [edit EXCEPT ![c] = call], call.op = edit[c].op \/ call.pc = "ended", call.pc # "idle",
         UNCHANGED <<mover, editLone, counted>>, TotalsTyped',
         editSettled' => editSettled,
         editSettled /\ editLone = c => /\ UNCHANGED fitted /\ SameTotals(product', product)
                                        /\ \A s \in SizeIds : SameNumbers(size'[s], size[s]),
         call.pc = "save" /\ call.op # "create" /\ editLone = c => Knows(call, product', size', fitted')
  PROVE  TotalsInv'
<1>1. /\ DOMAIN edit = AdminCalls /\ edit'[c] = call /\ \A d \in AdminCalls \ {c} : edit'[d] = edit[d]
      /\ size \in [SizeIds -> SizeRow] /\ size' \in [SizeIds -> SizeRow]
      /\ counted \in SUBSET SizeIds /\ fitted \in SUBSET SizeIds
  <2>1. DOMAIN edit = AdminCalls /\ size \in [SizeIds -> SizeRow] /\ counted \in SUBSET SizeIds /\ fitted \in SUBSET SizeIds
    BY DEF TotalsInv, TotalsTyped, RowsTyped, HistoryTyped
  <2>2. size' \in [SizeIds -> SizeRow]
    BY DEF TotalsTyped, RowsTyped
  <2> QED
    BY <2>1, <2>2
<1>2. c \in EditsInFlight
  BY DEF EditsInFlight
<1>3. ASSUME NEW d \in AdminCalls PROVE EditLoneOK(d)'
  <2>1. CASE d = c
    BY <1>1, <2>1 DEF EditLoneOK
  <2>2. CASE d # c
    <3> SUFFICES ASSUME edit[d].pc = "save", editLone = d PROVE FALSE
      BY <1>1, <2>2 DEF EditLoneOK
    <3>1. d \in EditsInFlight
      BY DEF EditsInFlight
    <3> QED
      BY <3>1, <2>2, OthersAtRest
  <2> QED
    BY <2>1, <2>2
<1>4. SettledOK'
  <2> SUFFICES ASSUME editSettled' PROVE SettledOK'
    BY DEF SettledOK
  <2>1. editSettled /\ editLone = c /\ SettledOK
    BY <1>2 DEF TotalsInv, SettledOK
  <2>2. /\ fitted' = fitted /\ SameTotals(product', product)
        /\ \A s \in SizeIds : SameNumbers(size'[s], size[s])
    BY <2>1
  <2>3. /\ Here(size') = Here(size) /\ SoldOf(size', Here(size')) = SoldOf(size, Here(size))
        /\ QuantityOf(size', counted) = QuantityOf(size, counted)
        /\ \A s \in SizeIds : Fits(size'[s]) <=> Fits(size[s])
    BY <1>1, <2>2, SumsSame
  <2>4. EditsInFlight' \subseteq EditsInFlight
    BY <1>1 DEF EditsInFlight
  <2>5. \A d \in AdminCalls : edit'[d].pc = "save" => edit'[d].op = "archive"
    BY <1>1, <2>1 DEF SettledOK
  <2>6. \A m \in Movers : ~Moving(m) /\ mover[m].pc \notin {"size", "product"}
    BY <1>2, <2>1, OthersAtRest, Disjoint DEF Moving
  <2>7. Balanced(product', size', counted')
    BY <2>1, <2>2, <2>3 DEF SettledOK, Balanced, SameTotals
  <2>8. product'.sold = SoldOf(size', Here(size'))
    BY <2>1, <2>2, <2>3, <2>6 DEF SettledOK, SameTotals
  <2>9. \A s \in fitted' : Fits(size'[s])
    BY <1>1, <2>1, <2>2, <2>3 DEF SettledOK
  <2>10. EditsInFlight' \subseteq {editLone'}
    BY <2>1, <2>4 DEF SettledOK
  <2>11. \A m \in Movers : MoverSettled(mover'[m], size', counted')
    BY <2>6 DEF MoverSettled
  <2> QED
    BY <2>5, <2>7, <2>8, <2>9, <2>10, <2>11 DEF SettledOK
<1> QED
  BY <1>3, <1>4 DEF TotalsInv

LEMMA CreateTotalsTyped ==
  ASSUME NEW dto \in Creations
  PROVE  /\ CreateTotals(dto).quantity \in Int /\ CreateTotals(dto).sold \in Int
         /\ CreateTotals(dto).inventory \in Int
<1> DEFINE n == Len(dto.variants)
           q == [i \in 1..n |-> dto.variants[i].sizes]
           sizes == FlattenSeq(q)
           S == 1..Len(sizes)
           quantity == Total(LAMBDA i : sizes[i].quantity, S)
           gone == Total(LAMBDA i : OrElse(sizes[i].sold, 0), S)
<1>0. CreateTotals(dto) = [quantity |-> quantity, sold |-> gone, inventory |-> quantity - gone]
  BY Zenon DEF CreateTotals
<1>1. dto.variants \in Seq(CreateVariantDto) /\ n \in Nat
  BY CatalogAssumption DEF CreateProductDto
<1>2. \A i \in 1..n : q[i] \in Seq(CreateVariantSizeDto)
  <2>1. \A i \in 1..n : dto.variants[i] \in CreateVariantDto
    BY <1>1
  <2> QED
    BY <2>1 DEF CreateVariantDto
<1>4. sizes \in Seq(CreateVariantSizeDto)
  <2>1. DOMAIN q = 1..n /\ q = [i \in 1..n |-> q[i]]
    OBVIOUS
  <2> HIDE DEF q, n
  <2> QED
    BY <1>1, <1>2, <2>1, FlatSeq
<1> HIDE DEF sizes
<1>5. IsFiniteSet(S)
  <2>1. 1 \in Int /\ Len(sizes) \in Int
    BY <1>4
  <2> QED
    BY <2>1, FS_Interval
<1>6. PICK sold : sold = [i \in S |-> [sold |-> OrElse(sizes[i].sold, 0)]]
  OBVIOUS
<1>7. \A i \in S : sizes[i].quantity \in Int /\ sold[i].sold \in Int /\ sold[i].sold = OrElse(sizes[i].sold, 0)
  <2>1. \A i \in S : sizes[i] \in CreateVariantSizeDto
    BY <1>4
  <2>2. \A i \in S : sizes[i].quantity \in Nat /\ sizes[i].sold \in Optional(Nat)
    BY <2>1 DEF CreateVariantSizeDto
  <2>3. \A i \in S : sold[i].sold = OrElse(sizes[i].sold, 0)
    BY <1>6
  <2> HIDE DEF S
  <2> QED
    BY <2>2, <2>3 DEF OrElse, Optional
<1>8. QuantityOf(sizes, S) \in Int /\ SoldOf(sold, S) \in Int
  BY <1>5, <1>7, TotalsFollow
<1>9. QuantityOf(sizes, S) = Total(LAMBDA i : sizes[i].quantity, S)
  BY DEF QuantityOf
<1>10. SoldOf(sold, S) = Total(LAMBDA i : OrElse(sizes[i].sold, 0), S)
  <2> DEFINE Sums(f) == f = [t \in SUBSET S |-> IF t = {} THEN 0 ELSE OrElse(sizes[PickOf(t)].sold, 0) + f[t \ {PickOf(t)}]]
             Picks(f) == f = [t \in SUBSET S |-> IF t = {} THEN 0 ELSE sold[PickOf(t)].sold + f[t \ {PickOf(t)}]]
  <2>1. Total(LAMBDA i : OrElse(sizes[i].sold, 0), S) = (CHOOSE f : Sums(f))[S]
    BY DEF Total, MapThenSumSet, MapThenFoldSet, PickOf
  <2>2. SoldOf(sold, S) = (CHOOSE f : Picks(f))[S]
    BY DEF SoldOf, Total, MapThenSumSet, MapThenFoldSet, PickOf
  <2>3. ASSUME NEW t \in SUBSET S, t # {} PROVE OrElse(sizes[PickOf(t)].sold, 0) = sold[PickOf(t)].sold
    BY <1>7, <2>3, PickedFrom
  <2>4. ASSUME NEW f PROVE Sums(f) <=> Picks(f)
    <3>1. [t \in SUBSET S |-> IF t = {} THEN 0 ELSE OrElse(sizes[PickOf(t)].sold, 0) + f[t \ {PickOf(t)}]]
           = [t \in SUBSET S |-> IF t = {} THEN 0 ELSE sold[PickOf(t)].sold + f[t \ {PickOf(t)}]]
      BY <2>3
    <3> QED
      BY <3>1
  <2> HIDE DEF Sums, Picks
  <2> QED
    BY <2>1, <2>2, <2>4
<1>11. quantity \in Int /\ gone \in Int
  BY <1>8, <1>9, <1>10
<1> HIDE DEF quantity, gone
<1> QED
  BY <1>0, <1>11

\* A call of the admin begins; nothing is saved but the product of a create.
LEMMA EditOpens ==
  ASSUME CatalogInv, CatalogInv', TotalsInv, NEW c \in AdminCalls, edit[c].pc = "idle",
         NEW call, edit' = [edit EXCEPT ![c] = call], call.pc = "save",
         UNCHANGED <<variant, size, mover, counted>>, EditBegins(c, call.op # "archive"), TotalsTyped',
         call.op \in {"create", "update", "archive"},
         call.op = "archive" => UNCHANGED fitted, call.op = "update" => fitted' = {},
         call.op # "create" => call.entity = Snapshot /\ UNCHANGED product
  PROVE  TotalsInv'
<1>1. /\ DOMAIN edit = AdminCalls /\ edit'[c] = call /\ \A d \in AdminCalls \ {c} : edit'[d] = edit[d]
      /\ size' = size /\ mover' = mover /\ counted' = counted
  BY DEF TotalsInv, TotalsTyped
<1>2. /\ editLone' = IF CatalogQuiet THEN c ELSE NoEdit
      /\ editSettled' = (editSettled /\ CatalogQuiet /\ ~(call.op # "archive"))
  BY DEF EditBegins
<1>3. ASSUME NEW d \in AdminCalls PROVE EditLoneOK(d)'
  <2>1. CASE d = c
    <3> SUFFICES ASSUME call.op # "create" PROVE Knows(call, product', size', fitted')
      BY <1>1, <2>1 DEF EditLoneOK
    <3>1. call.entity.size = size /\ call.entity.product = product /\ product' = product
      BY DEF Snapshot
    <3> QED
      BY <1>1, <3>1 DEF Knows, SameNumbers, SameTotals
  <2>2. CASE d # c
    <3>1. editLone' # d
      BY <1>2, <2>2, Disjoint
    <3> QED
      BY <3>1 DEF EditLoneOK
  <2> QED
    BY <2>1, <2>2
<1>4. SettledOK'
  <2> SUFFICES ASSUME editSettled' PROVE SettledOK'
    BY DEF SettledOK
  <2>1. /\ editSettled /\ CatalogQuiet /\ SettledOK /\ call.op = "archive"
        /\ product' = product /\ fitted' = fitted /\ editLone' = c
    BY <1>2 DEF TotalsInv
  <2>2. /\ \A d \in AdminCalls : edit[d].pc # "save"
        /\ \A m \in Movers : mover[m].pc \notin {"size", "product"}
    BY <2>1 DEF CatalogQuiet, EditsInFlight
  <2>3. EditsInFlight' \subseteq {c}
    BY <1>1, <2>2 DEF EditsInFlight
  <2>4. \A d \in AdminCalls : edit'[d].pc = "save" => edit'[d].op = "archive"
    BY <1>1, <2>1, <2>2
  <2>5. \A m \in Movers : MoverSettled(mover'[m], size', counted')
    BY <1>1, <2>2 DEF MoverSettled
  <2>6. product.sold = SoldOf(size, Here(size)) /\ Balanced(product, size, counted) /\ \A s \in fitted : Fits(size[s])
    BY <2>1, <2>2 DEF SettledOK
  <2> QED
    BY <1>1, <2>1, <2>3, <2>4, <2>5, <2>6 DEF SettledOK
<1> QED
  BY <1>3, <1>4 DEF TotalsInv

LEMMA SnapshotTyped ==
  ASSUME TotalsTyped
  PROVE  EntityTyped(Snapshot) /\ \A c \in AdminCalls : edit[c].pc = "idle" => \A s \in Here(size) : s[3] # c
<1>1. VariantRow \subseteq LoadedVariant /\ SizeRow \subseteq LoadedSize
  BY DEF VariantRow, LoadedVariant, SizeRow, LoadedSize, Optional
<1>2. /\ product \in ProductRow /\ variant \in [AdminCalls -> VariantRow] /\ size \in [SizeIds -> SizeRow]
      /\ IsFiniteSet(Here(size)) /\ \A s \in Here(size) : edit[s[3]].pc # "idle"
  BY DEF TotalsTyped, RowsTyped
<1>3. Snapshot \in Entity /\ Snapshot.size = size
  BY <1>1, <1>2 DEF Snapshot, Entity
<1> QED
  BY <1>2, <1>3 DEF EntityTyped

LEMMA CreateProductSettles ==
  ASSUME CatalogInv, CatalogInv', TotalsInv, NEW c \in AdminCalls, CreateProduct(c)
  PROVE  TotalsInv'
<1>1. PICK dto \in Creations :
        /\ product' = WithTotals([NoProduct EXCEPT !.there = TRUE, !.active = OrElse(dto.active, FALSE)],
                                 CreateTotals(dto))
        /\ edit' = [edit EXCEPT ![c] = [FreshEdit EXCEPT !.pc = "save", !.op = "create", !.dto = dto,
                                                         !.todo = CreateTasks(dto)]]
  BY DEF CreateProduct
<1>2. PICK call : call = [FreshEdit EXCEPT !.pc = "save", !.op = "create", !.dto = dto, !.todo = CreateTasks(dto)]
  OBVIOUS
<1>3. DOMAIN call = EditFields /\ call.pc = "save" /\ call.op = "create" /\ call.todo = CreateTasks(dto)
  BY <1>2 DEF FreshEdit, EditFields
<1>4. CallTyped(call) /\ Loads(c, call, size)
  BY <1>3, CreateTyped DEF CallTyped, Loads
<1>5. product' \in ProductRow
  <2>1. dto.active \in Optional(BOOLEAN)
    BY CatalogAssumption DEF CreateProductDto
  <2>2. PICK active \in BOOLEAN : active = OrElse(dto.active, FALSE)
    BY <2>1 DEF Optional, OrElse
  <2>3. PICK totals : totals = CreateTotals(dto)
    OBVIOUS
  <2>4. product' = [there |-> TRUE, deleted |-> FALSE, active |-> active, archived |-> FALSE,
                    quantity |-> totals.quantity, sold |-> totals.sold, inventory |-> totals.inventory]
    BY <1>1, <2>2, <2>3, Zenon DEF WithTotals, NoProduct
  <2> QED
    BY <2>3, <2>4, CreateTotalsTyped DEF ProductRow
<1>6. /\ edit[c].pc = "idle" /\ edit' = [edit EXCEPT ![c] = call] /\ EditBegins(c, TRUE)
      /\ fitted' = {} /\ UNCHANGED <<variant, size, mover, counted, closed>>
  BY <1>1, <1>2 DEF CreateProduct, Turn
<1>7. TotalsTyped'
  <2>1. TotalsTyped /\ RowsTyped /\ HistoryTyped
    BY DEF TotalsInv, TotalsTyped
  <2>2. RowsTyped'
    BY <1>5, <1>6, <2>1 DEF RowsTyped
  <2>3. HistoryTyped'
    BY <1>6, <2>1 DEF HistoryTyped, EditBegins
  <2> QED
    BY <1>3, <1>4, <1>6, <2>1, <2>2, <2>3, TypedStep DEF AdminStep
<1> QED
  BY <1>3, <1>6, <1>7, EditOpens

LEMMA LoadSettles ==
  ASSUME CatalogInv, CatalogInv', TotalsInv, NEW c \in AdminCalls, LoadToUpdate(c) \/ LoadToArchive(c)
  PROVE  TotalsInv'
<1>1. /\ TotalsTyped /\ RowsTyped /\ HistoryTyped /\ edit[c].pc = "idle" /\ ProductFound
      /\ UNCHANGED <<product, variant, size>> /\ UNCHANGED <<mover, counted>>
  BY DEF TotalsInv, TotalsTyped, LoadToUpdate, LoadToArchive, Turn, productRows
<1>2. PICK entity : entity = Snapshot
  OBVIOUS
<1>3. /\ EntityTyped(entity) /\ entity.size = size /\ DOMAIN entity.variant = AdminCalls
      /\ IsFiniteSet(Here(entity.variant)) /\ \A s \in Here(size) : s[3] # c
  BY <1>1, <1>2, SnapshotTyped DEF Snapshot, RowsTyped
<1>4. RowsTyped'
  BY <1>1 DEF RowsTyped
<1>5. CASE LoadToUpdate(c)
  <2>1. PICK dto \in Edits :
          edit' = [edit EXCEPT ![c] = [FreshEdit EXCEPT !.pc = "save", !.op = "update", !.dto = dto,
                                          !.todo = UpdateTasks(dto, Snapshot), !.entity = Snapshot]]
    BY <1>5 DEF LoadToUpdate
  <2>2. PICK call : call = [FreshEdit EXCEPT !.pc = "save", !.op = "update", !.dto = dto,
                                             !.todo = UpdateTasks(dto, Snapshot), !.entity = Snapshot]
    OBVIOUS
  <2>3. /\ DOMAIN call = EditFields /\ call.pc = "save" /\ call.op = "update" /\ call.dto = dto
        /\ call.todo = UpdateTasks(dto, entity) /\ call.entity = entity
    BY <1>2, <2>2 DEF FreshEdit, EditFields
  <2>4. call.todo \in Seq(UpdateTask)
    BY <1>3, <2>3, UpdateTyped
  <2>5. CallTyped(call) /\ Loads(c, call, size)
    BY <1>3, <2>3, <2>4 DEF CallTyped, Loads
  <2>6. /\ edit' = [edit EXCEPT ![c] = call] /\ EditBegins(c, TRUE) /\ fitted' = {} /\ closed' = FALSE
    BY <1>5, <2>1, <2>2 DEF LoadToUpdate
  <2>7. HistoryTyped'
    BY <1>1, <2>6 DEF HistoryTyped, EditBegins
  <2>8. TotalsTyped'
    BY <1>1, <1>4, <2>3, <2>5, <2>6, <2>7, TypedStep DEF AdminStep
  <2> QED
    BY <1>1, <1>2, <2>3, <2>6, <2>8, EditOpens
<1>6. CASE LoadToArchive(c)
  <2>1. PICK call : call = [FreshEdit EXCEPT !.pc = "save", !.op = "archive",
                                             !.todo = ArchiveTasks(Snapshot), !.entity = Snapshot]
    OBVIOUS
  <2>2. /\ DOMAIN call = EditFields /\ call.pc = "save" /\ call.op = "archive"
        /\ call.todo = ArchiveTasks(entity) /\ call.entity = entity
    BY <1>2, <2>1 DEF FreshEdit, EditFields
  <2>3. call.todo \in Seq(ArchiveTask)
    BY <1>3, <2>2, ArchiveTyped DEF ArchiveTask
  <2>4. CallTyped(call) /\ Loads(c, call, size)
    BY <1>3, <2>2, <2>3 DEF CallTyped, Loads
  <2>5. edit' = [edit EXCEPT ![c] = call] /\ EditBegins(c, FALSE) /\ UNCHANGED <<fitted, closed>>
    BY <1>6, <2>1 DEF LoadToArchive
  <2>6. HistoryTyped'
    BY <1>1, <2>5 DEF HistoryTyped, EditBegins
  <2>7. TotalsTyped'
    BY <1>1, <1>4, <2>2, <2>4, <2>5, <2>6, TypedStep DEF AdminStep
  <2> QED
    BY <1>1, <1>2, <2>2, <2>5, <2>7, EditOpens
<1> QED
  BY <1>5, <1>6

\* A delete marks the row, whatever goes on.
LEMMA DeleteProductSettles ==
  ASSUME CatalogInv, CatalogInv', TotalsInv, NEW c \in AdminCalls, DeleteProduct(c)
  PROVE  TotalsInv'
<1>1. /\ edit[c].pc = "idle" /\ edit' = [edit EXCEPT ![c] = EditEnded]
      /\ product' = IF ProductFound THEN [product EXCEPT !.deleted = TRUE] ELSE product
      /\ closed' = (closed \/ (CatalogQuiet /\ product.there))
      /\ UNCHANGED <<variant, size, mover, editLone, editSettled, counted, fitted>>
  BY DEF DeleteProduct, Turn
<1>2. TotalsTyped /\ RowsTyped /\ HistoryTyped /\ DOMAIN edit = AdminCalls
  BY DEF TotalsInv, TotalsTyped
<1>3. product' \in ProductRow /\ SameTotals(product', product)
  BY <1>1, <1>2 DEF RowsTyped, ProductRow, SameTotals
<1>4. TotalsTyped'
  <2>1. PICK call : call = EditEnded
    OBVIOUS
  <2>2. CallTyped(call) /\ Loads(c, call, size) /\ call.pc # "idle"
    BY <2>1, EndedEdit DEF CallTyped, Loads
  <2>3. RowsTyped' /\ HistoryTyped'
    BY <1>1, <1>2, <1>3 DEF RowsTyped, HistoryTyped
  <2> QED
    BY <1>1, <1>2, <2>1, <2>2, <2>3, TypedStep DEF AdminStep
<1>5. edit'[c].pc = "ended" /\ \A d \in AdminCalls \ {c} : edit'[d] = edit[d]
  BY <1>1, <1>2, EndedEdit
<1>6. ASSUME NEW d \in AdminCalls PROVE EditLoneOK(d)'
  <2>1. CASE d = c
    BY <1>5, <2>1 DEF EditLoneOK
  <2>2. CASE d # c
    <3>1. EditLoneOK(d) /\ edit'[d] = edit[d]
      BY <1>5, <2>2 DEF TotalsInv
    <3> QED
      BY <1>1, <1>3, <3>1 DEF EditLoneOK, Knows, SameTotals
  <2> QED
    BY <2>1, <2>2
<1>7. SettledOK'
  <2>1. EditsInFlight' \subseteq EditsInFlight
    BY <1>1, <1>5 DEF EditsInFlight
  <2>2. SettledOK
    BY DEF TotalsInv
  <2>3. \A d \in AdminCalls : edit'[d].pc = "save" => edit'[d] = edit[d]
    BY <1>5
  <2> QED
    BY <1>1, <1>3, <2>1, <2>2, <2>3 DEF SettledOK, SameTotals, Balanced
<1> QED
  BY <1>4, <1>6, <1>7 DEF TotalsInv

\* A call of the admin ends, and nothing is saved.
LEMMA CallStops ==
  ASSUME CatalogInv, TotalsInv, NEW c \in AdminCalls, edit[c].pc = "save",
         edit' = [edit EXCEPT ![c] = EditEnded], editSettled' \in {FALSE, editSettled},
         UNCHANGED <<product, variant, size, mover, editLone, counted, fitted, closed>>
  PROVE  TotalsInv'
<1>1. PICK call : call = EditEnded
  OBVIOUS
<1>2. TotalsTyped /\ RowsTyped /\ HistoryTyped
  BY DEF TotalsInv, TotalsTyped
<1>3. CallTyped(call) /\ Loads(c, call, size) /\ call.pc = "ended"
  BY <1>1, EndedEdit DEF CallTyped, Loads
<1>4. RowsTyped' /\ HistoryTyped'
  BY <1>2 DEF RowsTyped, HistoryTyped
<1>5. TotalsTyped'
  BY <1>1, <1>2, <1>3, <1>4, TypedStep DEF AdminStep
<1>6. editSettled' => editSettled
  BY <1>2 DEF HistoryTyped
<1> QED
  BY <1>1, <1>3, <1>5, <1>6, AdminSaves DEF SameTotals, SameNumbers

LEMMA TaskSettled ==
  ASSUME TotalsInv, NEW c \in AdminCalls, edit[c].pc = "save"
  PROVE  /\ TotalsTyped /\ RowsTyped /\ HistoryTyped
         /\ CallTyped(edit[c]) /\ Loads(c, edit[c], size) /\ EditLoneOK(c)
         /\ DOMAIN edit[c] = EditFields /\ DOMAIN edit = AdminCalls
BY DEF TotalsInv, TotalsTyped, CallTyped

LEMMA InsertVariantSettles ==
  ASSUME CatalogInv, TotalsInv, NEW c \in AdminCalls, InsertVariant(c)
  PROVE  TotalsInv'
<1>1. /\ edit[c].pc = "save" /\ edit[c].todo # <<>> /\ Task(c).do = "newVariant"
      /\ variant' = [variant EXCEPT ![c] = [there |-> TRUE, active |-> Task(c).active]]
      /\ edit' = [edit EXCEPT ![c].todo = Tail(@)]
      /\ UNCHANGED <<product, size, mover>> /\ UNCHANGED <<editLone, editSettled, counted, fitted, closed>>
  BY DEF InsertVariant, Doing, editHistory
<1>2. /\ TotalsTyped /\ RowsTyped /\ HistoryTyped
      /\ CallTyped(edit[c]) /\ Loads(c, edit[c], size) /\ EditLoneOK(c)
      /\ DOMAIN edit[c] = EditFields /\ DOMAIN edit = AdminCalls
  BY <1>1, TaskSettled
<1>3. PICK call : call = [edit[c] EXCEPT !.todo = Tail(edit[c].todo)]
  OBVIOUS
<1>4. /\ edit' = [edit EXCEPT ![c] = call] /\ DOMAIN call = EditFields /\ call.pc = "save"
      /\ call.op = edit[c].op /\ call.dto = edit[c].dto /\ call.todo = Tail(edit[c].todo)
      /\ call.entity = edit[c].entity
  BY <1>1, <1>2, <1>3 DEF EditFields
<1>5. CallTyped(call) /\ Loads(c, call, size)
  <2>1. call.op # "create" => EntityTyped(call.entity)
    BY <1>1, <1>2, <1>4 DEF CallTyped
  <2> QED
    BY <1>1, <1>2, <1>4, <2>1, TaskLeft DEF Loads
<1>6. RowsTyped'
  <2>1. PICK active \in BOOLEAN : active = Task(c).active
    BY <1>1, <1>2, TaskAtHand DEF Task
  <2>2. PICK row : row = [there |-> TRUE, active |-> active]
    OBVIOUS
  <2>3. row \in VariantRow /\ row.there
    BY <2>2 DEF VariantRow
  <2>4. variant' = [variant EXCEPT ![c] = row]
    BY <1>1, <2>1, <2>2
  <2>5. variant' \in [AdminCalls -> VariantRow] /\ Here(variant') = Here(variant) \cup {c}
    BY <1>2, <2>3, <2>4 DEF RowsTyped, Here
  <2>6. IsFiniteSet(Here(variant'))
    BY <1>2, <2>5, FS_AddElement DEF RowsTyped
  <2> QED
    BY <1>1, <1>2, <2>5, <2>6 DEF RowsTyped
<1>7. HistoryTyped'
  BY <1>1, <1>2 DEF HistoryTyped
<1>8. TotalsTyped'
  BY <1>1, <1>2, <1>4, <1>5, <1>6, <1>7, TypedStep DEF AdminStep
<1>9. call.op # "create" /\ editLone = c => Knows(call, product, size, fitted)
  BY <1>1, <1>2, <1>4 DEF EditLoneOK, Knows
<1> QED
  BY <1>1, <1>4, <1>8, <1>9, AdminSaves DEF SameTotals, SameNumbers

LEMMA InsertSizeSettles ==
  ASSUME CatalogInv, TotalsInv, NEW c \in AdminCalls, InsertSize(c)
  PROVE  TotalsInv'
<1>1. PICK work, id :
        /\ work = Head(edit[c].todo)
        /\ id = <<IF work.do = "newSize" THEN c ELSE work.id, work.name, c>>
        /\ edit[c].pc = "save" /\ edit[c].todo # <<>> /\ work.do \in {"newSize", "addSize"}
        /\ size' = [size EXCEPT ![id] = work.row] /\ fitted' = fitted \cup {id}
        /\ edit' = [edit EXCEPT ![c].todo = Tail(@)]
        /\ UNCHANGED <<product, variant, mover, editLone, editSettled, counted, closed>>
  BY DEF InsertSize, Doing, Task
<1>2. /\ TotalsTyped /\ RowsTyped /\ HistoryTyped
      /\ CallTyped(edit[c]) /\ Loads(c, edit[c], size) /\ EditLoneOK(c)
      /\ DOMAIN edit[c] = EditFields /\ DOMAIN edit = AdminCalls
  BY <1>1, TaskSettled
<1>3. PICK call : call = [edit[c] EXCEPT !.todo = Tail(edit[c].todo)]
  OBVIOUS
<1>4. /\ edit' = [edit EXCEPT ![c] = call] /\ DOMAIN call = EditFields /\ call.pc = "save"
      /\ call.op = edit[c].op /\ call.dto = edit[c].dto /\ call.todo = Tail(edit[c].todo)
      /\ call.entity = edit[c].entity
  BY <1>1, <1>2, <1>3 DEF EditFields
<1>5. CallTyped(call) /\ Loads(c, call, size)
  <2>1. call.op # "create" => EntityTyped(call.entity)
    BY <1>1, <1>2, <1>4 DEF CallTyped
  <2> QED
    BY <1>1, <1>2, <1>4, <2>1, TaskLeft DEF Loads
<1>6. /\ work.name \in Names /\ work.row \in CreatedRow /\ call.op # "archive"
      /\ call.op = "update" => work.row \in UnsoldRow
      /\ work.do = "addSize" => work.id \in AdminCalls
  BY <1>1, <1>2, <1>4, TaskAtHand
<1>7. id \in SizeIds /\ id[3] = c
  BY <1>1, <1>6 DEF SizeIds
<1>8. work.row \in SizeRow /\ work.row.there
  BY <1>6 DEF CreatedRow
<1>9. /\ size \in [SizeIds -> SizeRow] /\ size' \in [SizeIds -> SizeRow] /\ size'[id] = work.row
      /\ \A s \in SizeIds \ {id} : size'[s] = size[s]
  BY <1>1, <1>2, <1>7, <1>8 DEF RowsTyped
<1>10. Here(size') = Here(size) \cup {id}
  BY <1>7, <1>8, <1>9 DEF Here
<1>11. RowsTyped'
  <2>1. IsFiniteSet(Here(size'))
    BY <1>2, <1>10, FS_AddElement DEF RowsTyped
  <2> QED
    BY <1>1, <1>2, <1>9, <2>1 DEF RowsTyped
<1>12. HistoryTyped'
  BY <1>1, <1>2, <1>7 DEF HistoryTyped
<1>13. TotalsTyped'
  BY <1>1, <1>2, <1>4, <1>5, <1>7, <1>10, <1>11, <1>12, TypedStep DEF AdminStep
<1>14. ASSUME call.op # "create", editLone = c PROVE Knows(call, product', size', fitted')
  <2>1. PICK loaded : loaded = call.entity.size
    OBVIOUS
  <2>2. call.op = "update" /\ work.row \in UnsoldRow
    BY <1>1, <1>2, <1>4, <1>6, <1>14 DEF CallTyped
  <2>3. work.row.sold = 0 /\ Fits(work.row)
    BY <1>8, <2>2 DEF UnsoldRow, Fits, SizeRow
  <2>4. /\ \A s \in Here(loaded) : SameNumbers(size[s], loaded[s])
        /\ \A s \in Here(size) \ Here(loaded) : size[s].sold = 0
        /\ \A s \in fitted : Fits(size[s])
        /\ Here(loaded) \subseteq Here(size) /\ id \notin Here(loaded)
    BY <1>1, <1>2, <1>4, <1>7, <1>14, <2>1, <2>2 DEF EditLoneOK, Knows, Loads
  <2>5. Here(size) \subseteq SizeIds /\ fitted \subseteq SizeIds
    BY <1>2, <1>9 DEF Here, HistoryTyped
  <2>6. \A s \in Here(loaded) : SameNumbers(size'[s], loaded[s])
    BY <1>9, <2>4, <2>5
  <2>7. \A s \in Here(size') \ Here(loaded) : size'[s].sold = 0
    BY <1>9, <1>10, <2>3, <2>4, <2>5
  <2>8. \A s \in fitted' : Fits(size'[s])
    BY <1>1, <1>9, <2>3, <2>4, <2>5
  <2> QED
    BY <2>1, <2>2, <2>6, <2>7, <2>8 DEF Knows
<1>15. ~(editSettled /\ editLone = c)
  <2> SUFFICES ASSUME editSettled PROVE FALSE
    OBVIOUS
  <2> QED
    BY <1>1, <1>4, <1>6 DEF TotalsInv, SettledOK
<1> QED
  BY <1>1, <1>4, <1>13, <1>14, <1>15, AdminSaves

\* A variant is saved with its sizes as they were loaded; alone, no number changes.
LEMMA SaveVariantSettles ==
  ASSUME CatalogInv, TotalsInv, NEW c \in AdminCalls, SaveVariant(c)
  PROVE  TotalsInv'
<1>1. PICK work : work = Head(edit[c].todo)
  OBVIOUS
<1>2. edit[c].pc = "save" /\ edit[c].todo # <<>> /\ work.do \in {"variant", "archiveVariant"}
  BY <1>1 DEF SaveVariant, Doing, Task
<1>3. /\ TotalsTyped /\ RowsTyped /\ HistoryTyped
      /\ CallTyped(edit[c]) /\ Loads(c, edit[c], size) /\ EditLoneOK(c)
      /\ DOMAIN edit[c] = EditFields /\ DOMAIN edit = AdminCalls
  BY <1>2, TaskSettled
<1>4. CASE Fail(c)
  BY <1>2, <1>4, CallStops DEF Fail, productRows
<1>5. CASE ~Fail(c)
  <2>0. PICK entity, loaded :
          /\ entity = EntityWithVariant(edit[c].entity, work)
          /\ loaded = SizesOf(work.id, entity.size)
    OBVIOUS
  <2>1. /\ entity = EntityWithVariant(edit[c].entity, work)
        /\ loaded = SizesOf(work.id, entity.size)
        /\ variant' = [variant EXCEPT ![work.id] = SavedRow(@, entity.variant[work.id])]
        /\ size' = [s \in SizeIds |-> IF s \in loaded THEN SavedRow(size[s], entity.size[s]) ELSE size[s]]
        /\ edit' = [edit EXCEPT ![c] = [edit[c] EXCEPT !.todo = Tail(@), !.entity = entity]]
        /\ UNCHANGED <<product, mover, editLone, editSettled, counted, fitted, closed>>
    BY <1>1, <1>5, <2>0, Zenon DEF SaveVariant, Task, editHistory
  <2>2. PICK before : before = edit[c].entity
    OBVIOUS
  <2>3. /\ work.id \in AdminCalls /\ edit[c].op # "create" /\ EntityTyped(before)
        /\ work.do # "archiveVariant" => work.active \in Optional(BOOLEAN)
    <3>1. /\ work.do \in {"variant", "size"} => /\ edit[c].op = "update" /\ work.id \in AdminCalls
                                                 /\ work.active \in Optional(BOOLEAN)
          /\ work.do = "archiveVariant" => edit[c].op = "archive" /\ work.id \in AdminCalls
      BY <1>1, <1>2, <1>3, TaskAtHand
    <3>2. edit[c].op # "create" => EntityTyped(before)
      BY <1>2, <1>3, <2>2 DEF CallTyped
    <3> QED
      BY <1>2, <3>1, <3>2
  <2>4. /\ EntityTyped(entity) /\ entity.product = before.product /\ Here(entity.size) = Here(before.size)
        /\ \A s \in SizeIds : SameNumbers(entity.size[s], before.size[s])
    BY <2>1, <2>2, <2>3, WithVariant
  <2>5. PICK call : call = [edit[c] EXCEPT !.todo = Tail(edit[c].todo), !.entity = entity]
    OBVIOUS
  <2>6. /\ edit' = [edit EXCEPT ![c] = call] /\ DOMAIN call = EditFields /\ call.pc = "save"
        /\ call.op = edit[c].op /\ call.dto = edit[c].dto /\ call.todo = Tail(edit[c].todo)
        /\ call.entity = entity
    BY <1>2, <1>3, <2>1, <2>5 DEF EditFields
  <2>7. /\ Here(before.size) \subseteq Here(size) /\ \A s \in Here(before.size) : s[3] # c
        /\ Here(size) \subseteq SizeIds
    BY <1>2, <1>3, <2>2, <2>3 DEF Loads, RowsTyped, Here
  <2>8. CallTyped(call) /\ Loads(c, call, size)
    BY <1>2, <1>3, <2>4, <2>6, <2>7, TaskLeft DEF Loads
  <2>9. loaded \subseteq Here(before.size)
    BY <2>1, <2>4 DEF SizesOf
  <2>10. /\ size \in [SizeIds -> SizeRow] /\ variant \in [AdminCalls -> VariantRow]
         /\ entity.variant \in [AdminCalls -> LoadedVariant] /\ entity.size \in [SizeIds -> LoadedSize]
    BY <1>3, <2>4 DEF RowsTyped, EntityTyped, Entity
  <2>11. ASSUME NEW s \in SizeIds
         PROVE  /\ size'[s] \in SizeRow
                /\ s \in loaded => SameNumbers(size'[s], before.size[s]) /\ size'[s].there
                /\ s \notin loaded => size'[s] = size[s]
    <3>1. CASE s \in loaded
      <4>1. size'[s] = SavedRow(size[s], entity.size[s]) /\ size[s] \in SizeRow /\ entity.size[s] \in LoadedSize
        BY <2>1, <2>10, <3>1
      <4>2. size'[s] \in SizeRow /\ SameNumbers(size'[s], entity.size[s])
        BY <4>1, SavedSize
      <4>3. before.size[s].there
        BY <2>9, <3>1 DEF Here
      <4> QED
        BY <3>1, <2>4, <4>2, <4>3 DEF SameNumbers
    <3>2. CASE s \notin loaded
      BY <2>1, <2>10, <3>2
    <3> QED
      BY <3>1, <3>2
  <2>12. size' \in [SizeIds -> SizeRow] /\ Here(size') = Here(size)
    <3>1. size' \in [SizeIds -> SizeRow]
      BY <2>1, <2>11
    <3>2. \A s \in SizeIds : size'[s].there <=> size[s].there
      BY <2>7, <2>9, <2>11 DEF Here
    <3> QED
      BY <2>10, <3>1, <3>2 DEF Here
  <2>13. variant' \in [AdminCalls -> VariantRow] /\ IsFiniteSet(Here(variant'))
    <3>1. PICK row : row = SavedRow(variant[work.id], entity.variant[work.id])
      OBVIOUS
    <3>2. row \in VariantRow
      BY <2>3, <2>10, <3>1, SavedVariant
    <3>3. variant' = [variant EXCEPT ![work.id] = row]
      BY <2>1, <3>1
    <3>4. variant' \in [AdminCalls -> VariantRow] /\ Here(variant') \subseteq Here(variant) \cup {work.id}
      BY <2>10, <3>2, <3>3 DEF Here
    <3>5. IsFiniteSet(Here(variant) \cup {work.id})
      BY <1>3, FS_AddElement DEF RowsTyped
    <3> QED
      BY <3>4, <3>5, FS_Subset
  <2>14. RowsTyped'
    BY <1>3, <2>1, <2>12, <2>13 DEF RowsTyped
  <2>15. HistoryTyped'
    BY <1>3, <2>1 DEF HistoryTyped
  <2>16. TotalsTyped'
    BY <1>3, <2>1, <2>6, <2>8, <2>12, <2>14, <2>15, TypedStep DEF AdminStep
  <2>17. editLone = c => \A s \in SizeIds : SameNumbers(size'[s], size[s])
    <3> SUFFICES ASSUME editLone = c, NEW s \in SizeIds PROVE SameNumbers(size'[s], size[s])
      OBVIOUS
    <3>1. CASE s \in loaded
      <4>1. SameNumbers(size[s], before.size[s])
        BY <1>2, <1>3, <2>2, <2>3, <2>9, <3>1 DEF EditLoneOK, Knows
      <4> QED
        BY <2>11, <3>1, <4>1 DEF SameNumbers
    <3>2. CASE s \notin loaded
      BY <2>11, <3>2 DEF SameNumbers
    <3> QED
      BY <3>1, <3>2
  <2>18. ASSUME editLone = c PROVE Knows(call, product', size', fitted')
    <3>1. Knows(edit[c], product, size, fitted)
      BY <1>2, <1>3, <2>3, <2>18 DEF EditLoneOK
    <3>2. fitted \subseteq SizeIds /\ fitted' = fitted /\ product' = product
      BY <1>3, <2>1 DEF HistoryTyped
    <3>3. \A s \in SizeIds : /\ size'[s].sold = size[s].sold /\ (Fits(size'[s]) <=> Fits(size[s]))
      BY <2>17, <2>18 DEF SameNumbers, Fits
    <3>4. \A s \in Here(before.size) : SameNumbers(size'[s], entity.size[s])
      <4> SUFFICES ASSUME NEW s \in Here(before.size) PROVE SameNumbers(size'[s], entity.size[s])
        OBVIOUS
      <4>1. s \in SizeIds
        BY <2>7
      <4>2. SameNumbers(size'[s], size[s]) /\ SameNumbers(entity.size[s], before.size[s])
        BY <2>4, <2>17, <2>18, <4>1
      <4>3. SameNumbers(size[s], before.size[s])
        BY <2>2, <3>1 DEF Knows
      <4> QED
        BY <4>2, <4>3 DEF SameNumbers
    <3>5. call.op = "update" => /\ \A s \in Here(size') \ Here(entity.size) : size'[s].sold = 0
                                /\ \A s \in fitted' : Fits(size'[s])
      BY <2>2, <2>4, <2>6, <2>7, <2>12, <3>1, <3>2, <3>3 DEF Knows
    <3>6. call.op = "archive" => SameTotals(entity.product, product')
      BY <2>2, <2>4, <2>6, <3>1, <3>2 DEF Knows
    <3> QED
      BY <2>4, <2>6, <3>4, <3>5, <3>6 DEF Knows
  <2>19. SameTotals(product', product)
    BY <2>1 DEF SameTotals
  <2> QED
    BY <1>2, <2>1, <2>6, <2>16, <2>17, <2>18, <2>19, AdminSaves
<1> QED
  BY <1>4, <1>5

\* An update saves a size with the inventory that is left of its new quantity.
LEMMA SaveSizeSettles ==
  ASSUME CatalogInv, TotalsInv, NEW c \in AdminCalls, SaveSize(c)
  PROVE  TotalsInv'
<1>1. PICK work : work = Head(edit[c].todo)
  OBVIOUS
<1>2. PICK before, s, entity :
        /\ before = edit[c].entity /\ s \in FoundSize(before, work.id, work.name)
        /\ entity = EntityWithSize(before, s, work)
        /\ size' = [size EXCEPT ![s] = SavedRow(@, entity.size[s])]
        /\ edit' = [edit EXCEPT ![c] = [edit[c] EXCEPT !.todo = Tail(@), !.entity = entity]]
        /\ fitted' = fitted \cup {s}
  BY <1>1 DEF SaveSize, Task
<1>3. /\ edit[c].pc = "save" /\ edit[c].todo # <<>> /\ work.do = "size"
      /\ UNCHANGED <<product, variant, mover, editLone, editSettled, counted, closed>>
  BY <1>1 DEF SaveSize, Doing, Task
<1>4. /\ TotalsTyped /\ RowsTyped /\ HistoryTyped
      /\ CallTyped(edit[c]) /\ Loads(c, edit[c], size) /\ EditLoneOK(c)
      /\ DOMAIN edit[c] = EditFields /\ DOMAIN edit = AdminCalls
  BY <1>3, TaskSettled
<1>5. edit[c].op = "update" /\ work.active \in Optional(BOOLEAN) /\ work.quantity \in Nat
  BY <1>1, <1>3, <1>4, TaskAtHand
<1>6. EntityTyped(before) /\ s \in Here(before.size)
  BY <1>2, <1>3, <1>4, <1>5 DEF CallTyped, FoundSize
<1>7. /\ s \in SizeIds
      /\ EntityTyped(entity) /\ entity.product = before.product /\ Here(entity.size) = Here(before.size)
      /\ \A x \in SizeIds \ {s} : entity.size[x] = before.size[x]
      /\ entity.size[s].there /\ entity.size[s].sold = before.size[s].sold /\ Fits(entity.size[s])
  BY <1>2, <1>5, <1>6, WithSize
<1>8. PICK call : call = [edit[c] EXCEPT !.todo = Tail(edit[c].todo), !.entity = entity]
  OBVIOUS
<1>9. /\ edit' = [edit EXCEPT ![c] = call] /\ DOMAIN call = EditFields /\ call.pc = "save"
      /\ call.op = edit[c].op /\ call.dto = edit[c].dto /\ call.todo = Tail(edit[c].todo)
      /\ call.entity = entity
  BY <1>2, <1>3, <1>4, <1>8 DEF EditFields
<1>10. /\ Here(before.size) \subseteq Here(size) /\ \A x \in Here(before.size) : x[3] # c
       /\ Here(size) \subseteq SizeIds
  BY <1>2, <1>3, <1>4, <1>5 DEF Loads, RowsTyped, Here
<1>11. CallTyped(call) /\ Loads(c, call, size)
  BY <1>3, <1>4, <1>7, <1>9, <1>10, TaskLeft DEF Loads
<1>12. PICK row : row = SavedRow(size[s], entity.size[s])
  OBVIOUS
<1>13. row \in SizeRow /\ SameNumbers(row, entity.size[s])
  <2>1. size[s] \in SizeRow /\ entity.size[s] \in LoadedSize
    BY <1>4, <1>7 DEF RowsTyped, EntityTyped, Entity
  <2> QED
    BY <1>12, <2>1, SavedSize
<1>14. row.there /\ row.sold = before.size[s].sold /\ Fits(row)
  BY <1>7, <1>13 DEF SameNumbers, Fits
<1>15. /\ size \in [SizeIds -> SizeRow] /\ size' \in [SizeIds -> SizeRow] /\ size'[s] = row
       /\ \A x \in SizeIds \ {s} : size'[x] = size[x]
  <2>1. size' = [size EXCEPT ![s] = row]
    BY <1>2, <1>12
  <2> QED
    BY <1>4, <1>7, <1>13, <2>1 DEF RowsTyped
<1>16. Here(size') = Here(size)
  BY <1>6, <1>7, <1>10, <1>14, <1>15 DEF Here
<1>17. RowsTyped' /\ HistoryTyped'
  BY <1>2, <1>3, <1>4, <1>7, <1>15, <1>16 DEF RowsTyped, HistoryTyped
<1>18. TotalsTyped'
  BY <1>3, <1>4, <1>9, <1>11, <1>16, <1>17, TypedStep DEF AdminStep
<1>19. ASSUME editLone = c PROVE Knows(call, product', size', fitted')
  <2>1. Knows(edit[c], product, size, fitted)
    BY <1>3, <1>4, <1>5, <1>19 DEF EditLoneOK
  <2>2. /\ \A x \in Here(before.size) : SameNumbers(size[x], before.size[x])
        /\ \A x \in Here(size) \ Here(before.size) : size[x].sold = 0
        /\ \A x \in fitted : Fits(size[x])
    BY <1>2, <1>5, <2>1 DEF Knows
  <2>3. \A x \in Here(entity.size) : SameNumbers(size'[x], entity.size[x])
    BY <1>7, <1>10, <1>13, <1>15, <2>2
  <2>4. \A x \in Here(size') \ Here(entity.size) : size'[x].sold = 0
    BY <1>6, <1>7, <1>10, <1>15, <1>16, <2>2
  <2>5. \A x \in fitted' : Fits(size'[x])
    BY <1>2, <1>4, <1>14, <1>15, <2>2 DEF HistoryTyped
  <2> QED
    BY <1>5, <1>9, <2>3, <2>4, <2>5 DEF Knows
<1>20. ~(editSettled /\ editLone = c)
  BY <1>3, <1>5 DEF TotalsInv, SettledOK
<1> QED
  BY <1>3, <1>9, <1>18, <1>19, <1>20, AdminSaves

\* The totals that an update computes are of the sizes that it has loaded.
LEMMA CalculatedTotals ==
  ASSUME NEW entity, EntityTyped(entity)
  PROVE  LET totals == calculateProductInventory(entity) IN
         /\ totals.quantity = QuantityOf(entity.size, Here(entity.size)) /\ totals.quantity \in Int
         /\ totals.sold = SoldOf(entity.size, Here(entity.size)) /\ totals.sold \in Int
         /\ totals.inventory = totals.quantity - totals.sold
<1>1. IsFiniteSet(Here(entity.size)) /\ entity.size \in [SizeIds -> LoadedSize]
  BY DEF EntityTyped, Entity
<1>2. \A s \in Here(entity.size) : entity.size[s].sold \in Int /\ entity.size[s].quantity \in Int
  BY <1>1 DEF Here, LoadedSize
<1>3. /\ QuantityOf(entity.size, Here(entity.size)) \in Int
      /\ SoldOf(entity.size, Here(entity.size)) \in Int
  BY <1>1, <1>2, TotalsFollow
<1>4. PICK quantity \in Int, sold \in Int :
        /\ quantity = QuantityOf(entity.size, Here(entity.size)) /\ sold = SoldOf(entity.size, Here(entity.size))
  BY <1>3
<1>5. /\ Total(LAMBDA s : entity.size[s].quantity, Here(entity.size)) = QuantityOf(entity.size, Here(entity.size))
      /\ Total(LAMBDA s : entity.size[s].sold, Here(entity.size)) = SoldOf(entity.size, Here(entity.size))
  BY DEF QuantityOf, SoldOf
<1>6. calculateProductInventory(entity) = [quantity |-> quantity, sold |-> sold, inventory |-> quantity - sold]
  BY <1>4, <1>5, Zenon DEF calculateProductInventory
<1> QED
  BY <1>4, <1>6

LEMMA UpdatedTyped ==
  ASSUME NEW entity, EntityTyped(entity), NEW dto \in Edits, NEW p, p = UpdatedProduct(entity, dto)
  PROVE  p \in LoadedProduct /\ SameTotals(p, calculateProductInventory(entity))
<1>1. PICK totals : totals = calculateProductInventory(entity)
  OBVIOUS
<1>2. totals.quantity \in Int /\ totals.sold \in Int /\ totals.inventory \in Int
  BY <1>1, CalculatedTotals
<1>3. PICK row \in ProductRow : row = entity.product
  BY DEF EntityTyped, Entity
<1>4. dto.active \in Optional(BOOLEAN) /\ dto.archived \in Optional(BOOLEAN)
  BY CatalogAssumption DEF UpdateProductDto
<1>5. PICK active \in Optional(BOOLEAN), archived \in Optional(BOOLEAN) : active = dto.active /\ archived = dto.archived
  BY <1>4
<1>6. p = WithTotals([row EXCEPT !.active = active, !.archived = archived], totals)
  BY <1>1, <1>3, <1>5, Zenon DEF UpdatedProduct
<1>7. PICK marked : marked = [row EXCEPT !.active = active, !.archived = archived]
  OBVIOUS
<1>8. marked = [there |-> row.there, deleted |-> row.deleted, active |-> active, archived |-> archived,
                quantity |-> row.quantity, sold |-> row.sold, inventory |-> row.inventory]
  BY <1>7 DEF ProductRow
<1>9. p = [marked EXCEPT !.quantity = totals.quantity, !.sold = totals.sold, !.inventory = totals.inventory]
  BY <1>6, <1>7 DEF WithTotals
<1>10. p = [there |-> row.there, deleted |-> row.deleted, active |-> active, archived |-> archived,
            quantity |-> totals.quantity, sold |-> totals.sold, inventory |-> totals.inventory]
  BY <1>8, <1>9
<1>11. row.there \in BOOLEAN /\ row.deleted \in BOOLEAN
  BY DEF ProductRow
<1> QED
  BY <1>1, <1>2, <1>10, <1>11 DEF LoadedProduct, SameTotals

LEMMA ArchivedTyped ==
  ASSUME NEW row \in ProductRow, NEW p, p = Archived(row)
  PROVE  p \in LoadedProduct /\ SameTotals(p, row)
<1>1. PICK yes \in Optional(BOOLEAN), no \in Optional(BOOLEAN) : yes = TRUE /\ no = FALSE
  BY DEF Optional
<1>2. p = [row EXCEPT !.archived = yes, !.active = no]
  BY <1>1 DEF Archived
<1> HIDE <1>1
<1>3. p = [there |-> row.there, deleted |-> row.deleted, active |-> no, archived |-> yes,
           quantity |-> row.quantity, sold |-> row.sold, inventory |-> row.inventory]
  BY <1>2 DEF ProductRow
<1>4. /\ row.there \in BOOLEAN /\ row.deleted \in BOOLEAN
      /\ row.quantity \in Int /\ row.sold \in Int /\ row.inventory \in Int
  BY DEF ProductRow
<1> QED
  BY <1>3, <1>4 DEF LoadedProduct, SameTotals

\* An update that ran alone leaves the totals of the rows.
LEMMA UpdateSettles ==
  ASSUME CatalogInv, TotalsInv, NEW c \in AdminCalls, edit[c].pc = "save", edit[c].op = "update",
         editLone = c, SameTotals(product', calculateProductInventory(edit[c].entity))
  PROVE  /\ product'.sold = SoldOf(size, Here(size)) /\ Balanced(product', size, Here(edit[c].entity.size))
         /\ \A s \in fitted : Fits(size[s])
<1>1. PICK loaded : loaded = edit[c].entity.size
  OBVIOUS
<1>2. /\ RowsTyped /\ EntityTyped(edit[c].entity) /\ Loads(c, edit[c], size)
      /\ Knows(edit[c], product, size, fitted)
  BY TaskSettled DEF CallTyped, EditLoneOK
<1>3. /\ \A s \in Here(loaded) : SameNumbers(size[s], loaded[s])
      /\ \A s \in Here(size) \ Here(loaded) : size[s].sold = 0
      /\ \A s \in fitted : Fits(size[s])
      /\ Here(loaded) \subseteq Here(size)
  BY <1>1, <1>2 DEF Knows, Loads
<1>4. /\ product'.quantity = QuantityOf(loaded, Here(loaded))
      /\ product'.sold = SoldOf(loaded, Here(loaded))
      /\ product'.inventory = product'.quantity - product'.sold
  BY <1>1, <1>2, CalculatedTotals DEF SameTotals
<1>5. /\ SoldOf(size, Here(loaded)) = SoldOf(loaded, Here(loaded))
      /\ QuantityOf(size, Here(loaded)) = QuantityOf(loaded, Here(loaded))
  BY <1>3, TotalsFollow DEF SameNumbers
<1>6. SoldOf(size, Here(size)) = SoldOf(size, Here(loaded))
  <2>1. IsFiniteSet(Here(size)) /\ \A s \in Here(size) : size[s].sold \in Int
    BY <1>2 DEF RowsTyped, Here, SizeRow
  <2> QED
    BY <1>3, <2>1, NothingSoldElse
<1> QED
  BY <1>1, <1>3, <1>4, <1>5, <1>6 DEF Balanced

LEMMA SaveProductSettles ==
  ASSUME CatalogInv, TotalsInv, NEW c \in AdminCalls, SaveProduct(c)
  PROVE  TotalsInv'
<1>1. edit[c].pc = "save" /\ edit[c].op # "create" /\ c \in EditsInFlight
  BY DEF SaveProduct, EditsInFlight
<1>2. /\ TotalsTyped /\ RowsTyped /\ HistoryTyped
      /\ CallTyped(edit[c]) /\ Loads(c, edit[c], size) /\ EditLoneOK(c)
      /\ DOMAIN edit[c] = EditFields /\ DOMAIN edit = AdminCalls
  BY <1>1, TaskSettled
<1>3. CASE Fail(c)
  BY <1>1, <1>3, CallStops DEF Fail, productRows
<1>4. CASE ~Fail(c)
  <2>1. PICK entity, saved :
          /\ entity = edit[c].entity
          /\ saved = IF edit[c].op = "update" THEN UpdatedProduct(entity, edit[c].dto) ELSE Archived(entity.product)
    OBVIOUS
  <2>2. /\ product' = SavedRow(product, saved) /\ edit' = [edit EXCEPT ![c] = EditEnded]
        /\ editSettled' = IF edit[c].op = "update" THEN editLone = c ELSE editSettled
        /\ counted' = IF edit[c].op = "update" THEN Here(entity.size) ELSE counted
        /\ closed' = (closed \/ (edit[c].op # "update" /\ editLone = c))
        /\ UNCHANGED <<variant, size, mover, editLone, fitted>>
    BY <1>4, <2>1, Zenon DEF SaveProduct
  <2>3. EntityTyped(entity) /\ edit[c].op \in {"update", "archive"}
    BY <1>1, <1>2, <2>1 DEF CallTyped
  <2>4. edit[c].op = "update" => saved \in LoadedProduct /\ SameTotals(saved, calculateProductInventory(entity))
    <3>1. edit[c].op = "update" => edit[c].dto \in Edits
      BY <1>1, <1>2 DEF CallTyped
    <3> QED
      BY <2>1, <2>3, <3>1, UpdatedTyped
  <2>5. edit[c].op = "archive" => saved \in LoadedProduct /\ SameTotals(saved, entity.product)
    <3>1. entity.product \in ProductRow
      BY <2>3 DEF EntityTyped, Entity
    <3> QED
      BY <2>1, <3>1, ArchivedTyped
  <2>6. product' \in ProductRow /\ SameTotals(product', saved)
    BY <1>2, <2>2, <2>3, <2>4, <2>5, SavedProduct DEF RowsTyped
  <2>7. /\ edit'[c] = EditEnded /\ edit'[c].pc = "ended" /\ \A d \in AdminCalls \ {c} : edit'[d] = edit[d]
    BY <1>2, <2>2, EndedEdit
  <2>8. TotalsTyped'
    <3>1. PICK call : call = EditEnded
      OBVIOUS
    <3>2. CallTyped(call) /\ Loads(c, call, size) /\ call.pc # "idle"
      BY <3>1, EndedEdit DEF CallTyped, Loads
    <3>3. RowsTyped'
      BY <1>2, <2>2, <2>6 DEF RowsTyped
    <3>4. Here(entity.size) \subseteq SizeIds
      BY <2>3 DEF EntityTyped, Entity, Here
    <3>5. HistoryTyped'
      BY <1>2, <2>2, <3>4 DEF HistoryTyped
    <3> QED
      BY <1>2, <2>2, <3>1, <3>2, <3>3, <3>5, TypedStep DEF AdminStep
  <2>9. ASSUME NEW d \in AdminCalls PROVE EditLoneOK(d)'
    <3> SUFFICES ASSUME d # c, edit[d].pc = "save", editLone = d PROVE FALSE
      BY <2>2, <2>7 DEF EditLoneOK
    <3>1. d \in EditsInFlight
      BY DEF EditsInFlight
    <3> QED
      BY <1>1, <3>1, OthersAtRest
  <2>10. SettledOK'
    <3> SUFFICES ASSUME editSettled' PROVE SettledOK'
      BY DEF SettledOK
    <3>1. editLone = c /\ (edit[c].op = "archive" => editSettled /\ SettledOK)
      BY <1>1, <2>2, <2>3 DEF TotalsInv, SettledOK
    <3>2. /\ \A d \in AdminCalls : edit'[d].pc # "save"
          /\ \A m \in Movers : ~Moving(m) /\ mover[m].pc \notin {"size", "product"}
      BY <1>1, <2>7, <3>1, OthersAtRest, Disjoint DEF Moving
    <3>3. EditsInFlight' = {}
      BY <2>2, <3>2 DEF EditsInFlight
    <3>4. \A m \in Movers : MoverSettled(mover'[m], size', counted')
      BY <2>2, <3>2 DEF MoverSettled
    <3>5. /\ product'.sold = SoldOf(size', Here(size')) /\ Balanced(product', size', counted')
          /\ \A s \in fitted' : Fits(size'[s])
      <4>1. CASE edit[c].op = "update"
        <5>1. SameTotals(product', calculateProductInventory(edit[c].entity))
          BY <2>1, <2>4, <2>6, <4>1 DEF SameTotals
        <5> QED
          BY <1>1, <2>1, <2>2, <3>1, <4>1, <5>1, UpdateSettles
      <4>2. CASE edit[c].op = "archive"
        <5>1. SameTotals(entity.product, product)
          BY <1>1, <1>2, <2>1, <3>1, <4>2 DEF EditLoneOK, Knows
        <5>2. SameTotals(product', product)
          BY <2>5, <2>6, <4>2, <5>1 DEF SameTotals
        <5>3. /\ product.sold = SoldOf(size, Here(size)) /\ Balanced(product, size, counted)
              /\ \A s \in fitted : Fits(size[s])
          BY <3>1, <3>2, <4>2 DEF SettledOK
        <5>4. size' = size /\ counted' = counted /\ fitted' = fitted
          BY <2>2, <4>2
        <5> QED
          BY <5>2, <5>3, <5>4 DEF SameTotals, Balanced
      <4> QED
        BY <2>3, <4>1, <4>2
    <3> QED
      BY <3>2, <3>3, <3>4, <3>5 DEF SettledOK
  <2> QED
    BY <2>8, <2>9, <2>10 DEF TotalsInv
<1> QED
  BY <1>3, <1>4

LEMMA ReadStockSettles ==
  ASSUME CatalogInv, TotalsInv, NEW m \in Movers, ReadStock(m)
  PROVE  TotalsInv'
<1>1. PICK s \in Here(size), change \in {-1, 1} :
        mover' = [mover EXCEPT ![m] = [pc |-> "size", id |-> s,
                row |-> [size[s] EXCEPT !.inventory = @ + change, !.sold = @ - change],
                product |-> [product EXCEPT !.inventory = @ + change, !.sold = @ - change]]]
  BY DEF ReadStock
<1>2. /\ EditBegins(m, FALSE) /\ UNCHANGED <<product, variant, size>> /\ UNCHANGED <<edit, counted, fitted, closed>>
  BY DEF ReadStock, productRows
<1>3. TotalsTyped /\ RowsTyped /\ HistoryTyped /\ DOMAIN mover = Movers
  BY DEF TotalsInv, TotalsTyped
<1>4. PICK old, new : old = size[s] /\ new = [size[s] EXCEPT !.inventory = @ + change, !.sold = @ - change]
  OBVIOUS
<1>5. PICK p, q : p = product /\ q = [product EXCEPT !.inventory = @ + change, !.sold = @ - change]
  OBVIOUS
<1>6. s \in SizeIds /\ old \in SizeRow /\ old.there /\ p \in ProductRow
  BY <1>3, <1>4, <1>5 DEF RowsTyped, Here
<1>7. /\ new = [there |-> old.there, quantity |-> old.quantity, sold |-> old.sold - change,
                inventory |-> old.inventory + change, active |-> old.active]
      /\ q = [there |-> p.there, deleted |-> p.deleted, active |-> p.active, archived |-> p.archived,
              quantity |-> p.quantity, sold |-> p.sold - change, inventory |-> p.inventory + change]
  BY <1>4, <1>5, <1>6 DEF SizeRow, ProductRow
<1>8. /\ old.there \in BOOLEAN /\ old.active \in BOOLEAN
      /\ old.quantity \in Int /\ old.sold \in Int /\ old.inventory \in Int
      /\ p.there \in BOOLEAN /\ p.deleted \in BOOLEAN /\ p.active \in BOOLEAN /\ p.archived \in BOOLEAN
      /\ p.quantity \in Int /\ p.sold \in Int /\ p.inventory \in Int
  BY <1>6 DEF SizeRow, ProductRow
<1>9. new \in SizeRow /\ new.there = old.there
  <2>1. new \in SizeRow
    BY <1>7, <1>8 DEF SizeRow
  <2>2. new.there = old.there
    BY <1>7
  <2> QED
    BY <2>1, <2>2
<1>10. q \in ProductRow
  BY <1>7, <1>8 DEF ProductRow
<1>11. PICK call : call = [pc |-> "size", id |-> s, row |-> new, product |-> q]
  OBVIOUS
<1>12. mover' = [mover EXCEPT ![m] = call]
  BY <1>1, <1>4, <1>5, <1>11
<1>13. StockTyped(call) /\ Holds(call, size)
  BY <1>6, <1>9, <1>10, <1>11 DEF StockTyped, Holds
<1>14. TotalsTyped'
  <2>1. RowsTyped' /\ HistoryTyped'
    BY <1>2, <1>3 DEF RowsTyped, HistoryTyped, EditBegins
  <2> QED
    BY <1>2, <1>3, <1>12, <1>13, <2>1, TypedStep DEF StockStep
<1>15. /\ editLone' = IF CatalogQuiet THEN m ELSE NoEdit
       /\ editSettled' => editSettled /\ CatalogQuiet
  BY <1>2 DEF EditBegins
<1>16. ASSUME NEW d \in AdminCalls PROVE EditLoneOK(d)'
  BY <1>15, Disjoint DEF EditLoneOK
<1>17. SettledOK'
  <2> SUFFICES ASSUME editSettled' PROVE SettledOK'
    BY DEF SettledOK
  <2>1. /\ \A d \in AdminCalls : edit[d].pc # "save"
        /\ \A n \in Movers : mover[n].pc \notin {"size", "product"}
        /\ editLone' = m
    BY <1>15 DEF CatalogQuiet, EditsInFlight
  <2>2. /\ product.sold = SoldOf(size, Here(size)) /\ Balanced(product, size, counted)
        /\ \A x \in fitted : Fits(size[x])
    BY <1>15, <2>1 DEF TotalsInv, SettledOK
  <2>3. mover'[m] = call /\ \A n \in Movers \ {m} : mover'[n] = mover[n]
    BY <1>3, <1>12
  <2>4. EditsInFlight' \subseteq {m}
    BY <1>2, <2>1, <2>3 DEF EditsInFlight
  <2>5. /\ q.sold = p.sold - change /\ q.quantity = p.quantity /\ q.inventory = p.inventory + change
        /\ new.quantity = old.quantity /\ new.sold = old.sold - change /\ new.inventory = old.inventory + change
        /\ change \in Int
    BY <1>7
  <2>6. q.sold = SoldOf(size, Here(size)) - change /\ Balanced(q, size, counted)
    BY <1>5, <1>8, <2>2, <2>5 DEF Balanced
  <2>7. MoverSettled(call, size, counted)
    BY <1>4, <1>11, <2>5, <2>6 DEF MoverSettled
  <2>8. \A n \in Movers : MoverSettled(mover'[n], size', counted')
    <3>1. \A n \in Movers \ {m} : MoverSettled(mover[n], size, counted)
      BY <2>1 DEF MoverSettled
    <3> QED
      BY <1>2, <2>3, <2>7, <3>1
  <2>9. \A d \in AdminCalls : edit'[d].pc # "save"
    BY <1>2, <2>1
  <2> QED
    BY <1>2, <2>1, <2>2, <2>4, <2>8, <2>9 DEF SettledOK
<1> QED
  BY <1>14, <1>16, <1>17 DEF TotalsInv

\* Who moves alone has the admin's calls at rest.
LEMMA MovesAlone ==
  ASSUME CatalogInv, TotalsInv, NEW m \in Movers, Moving(m)
  PROVE  /\ \A c \in AdminCalls : edit[c].pc = "save" => editLone # c
         /\ editSettled => /\ editLone = m /\ \A c \in AdminCalls : edit[c].pc # "save"
                           /\ \A n \in Movers \ {m} : mover[n].pc \notin {"size", "product"}
<1>1. m \in EditsInFlight /\ \A c \in AdminCalls : edit[c].pc = "save" => c \in EditsInFlight
  BY DEF EditsInFlight, Moving
<1>2. \A c \in AdminCalls : c # m
  BY Disjoint
<1>3. \A c \in AdminCalls : edit[c].pc = "save" => editLone # c
  BY <1>1, <1>2, OthersAtRest
<1>4. editSettled => editLone = m
  BY <1>1 DEF TotalsInv, SettledOK
<1>5. editLone = m => /\ \A c \in AdminCalls : edit[c].pc # "save"
                      /\ \A n \in Movers \ {m} : mover[n].pc \notin {"size", "product"}
  BY <1>1, <1>2, OthersAtRest DEF Moving
<1> QED
  BY <1>3, <1>4, <1>5

LEMMA SaveStockSettles ==
  ASSUME CatalogInv, TotalsInv, NEW m \in Movers, SaveStock(m)
  PROVE  TotalsInv'
<1>1. PICK old, id, row : old = mover[m] /\ id = mover[m].id /\ row = mover[m].row
  OBVIOUS
<1>2. /\ mover[m].pc = "size" /\ Moving(m) /\ size' = [size EXCEPT ![id] = row]
      /\ UNCHANGED <<product, variant, edit>> /\ UNCHANGED <<editLone, editSettled, counted, fitted, closed>>
  BY <1>1 DEF SaveStock, Moving, editHistory
<1>3. /\ TotalsTyped /\ RowsTyped /\ HistoryTyped /\ DOMAIN mover = Movers
      /\ StockTyped(old) /\ Holds(old, size)
  BY <1>1 DEF TotalsInv, TotalsTyped
<1>4. id \in SizeIds /\ id \in Here(size) /\ row \in SizeRow /\ row.there
  BY <1>1, <1>2, <1>3 DEF StockTyped, Holds, RowsTyped, Here
<1>5. PICK call : call = [pc |-> "product", id |-> id, row |-> row, product |-> old.product]
  OBVIOUS
<1>6. mover' = [mover EXCEPT ![m] = call]
  <2>1. call = [mover[m] EXCEPT !.pc = "product"]
    BY <1>1, <1>3, <1>5 DEF StockTyped
  <2> QED
    BY <2>1 DEF SaveStock
<1>7. /\ size \in [SizeIds -> SizeRow] /\ size' \in [SizeIds -> SizeRow] /\ size'[id] = row
      /\ \A s \in SizeIds \ {id} : size'[s] = size[s]
  BY <1>2, <1>3, <1>4 DEF RowsTyped
<1>8. Here(size') = Here(size) /\ Here(size) \subseteq SizeIds
  BY <1>4, <1>7 DEF Here
<1>9. StockTyped(call) /\ Holds(call, size)
  BY <1>3, <1>4, <1>5 DEF StockTyped, Holds
<1>10. TotalsTyped'
  <2>1. RowsTyped' /\ HistoryTyped'
    BY <1>2, <1>3, <1>7, <1>8 DEF RowsTyped, HistoryTyped
  <2> QED
    BY <1>2, <1>3, <1>6, <1>8, <1>9, <2>1, TypedStep DEF StockStep
<1>11. ASSUME NEW d \in AdminCalls PROVE EditLoneOK(d)'
  BY <1>2, MovesAlone DEF EditLoneOK
<1>12. SettledOK'
  <2> SUFFICES ASSUME editSettled' PROVE SettledOK'
    BY DEF SettledOK
  <2>1. /\ editSettled /\ SettledOK /\ editLone = m /\ \A c \in AdminCalls : edit[c].pc # "save"
        /\ \A n \in Movers \ {m} : mover[n].pc \notin {"size", "product"}
    BY <1>2, MovesAlone DEF TotalsInv
  <2>2. mover'[m] = call /\ call.pc = "product" /\ \A n \in Movers \ {m} : mover'[n] = mover[n]
    BY <1>3, <1>5, <1>6
  <2>3. PICK change \in Int :
        /\ old.product.sold = SoldOf(size, Here(size)) - change /\ Balanced(old.product, size, counted)
        /\ row.quantity = size[id].quantity
        /\ row.sold = size[id].sold - change /\ row.inventory = size[id].inventory + change
    BY <1>1, <1>2, <2>1 DEF SettledOK, MoverSettled
  <2>4. SoldOf(size', Here(size')) = SoldOf(size, Here(size)) - change
    <3>1. PICK S : S = Here(size)
      OBVIOUS
    <3>2. IsFiniteSet(S) /\ id \in S /\ \A s \in S : size[s].sold \in Int
      BY <1>3, <1>4, <1>7, <3>1 DEF RowsTyped, Here, SizeRow
    <3>3. size'[id].sold = size[id].sold - change /\ \A s \in S \ {id} : size'[s].sold = size[s].sold
      BY <1>7, <1>8, <2>3, <3>1
    <3> QED
      BY <1>8, <3>1, <3>2, <3>3, SomeSold
  <2>5. QuantityOf(size', counted) = QuantityOf(size, counted)
    <3>1. counted \subseteq SizeIds
      BY <1>3 DEF HistoryTyped
    <3>2. \A s \in counted : size'[s].quantity = size[s].quantity
      BY <1>4, <1>7, <2>3, <3>1
    <3> QED
      BY <3>2, TotalsFollow
  <2>6. MoverSettled(call, size', counted)
    BY <1>5, <2>3, <2>4, <2>5 DEF MoverSettled, Balanced
  <2>7. \A n \in Movers : MoverSettled(mover'[n], size', counted')
    <3>1. \A n \in Movers \ {m} : MoverSettled(mover[n], size', counted)
      BY <2>1 DEF MoverSettled
    <3> QED
      BY <1>2, <2>2, <2>6, <3>1
  <2>8. Balanced(product', size', counted')
    BY <1>2, <2>1, <2>5 DEF SettledOK, Balanced
  <2>9. \A s \in fitted : Fits(size'[s])
    <3> SUFFICES ASSUME NEW s \in fitted PROVE Fits(size'[s])
      OBVIOUS
    <3>1. s \in SizeIds /\ Fits(size[s])
      BY <1>3, <2>1 DEF HistoryTyped, SettledOK
    <3>2. size[id].quantity \in Int /\ size[id].sold \in Int /\ size[id].inventory \in Int
      BY <1>4, <1>7 DEF SizeRow
    <3> QED
      BY <1>7, <2>3, <3>1, <3>2 DEF Fits
  <2>10. EditsInFlight' \subseteq EditsInFlight
    BY <1>2, <2>2 DEF EditsInFlight, Moving
  <2>11. EditsInFlight' \subseteq {editLone'}
    BY <1>2, <2>1, <2>10 DEF SettledOK
  <2>12. \A d \in AdminCalls : edit'[d].pc # "save"
    BY <1>2, <2>1
  <2> QED
    BY <1>2, <2>2, <2>7, <2>8, <2>9, <2>11, <2>12 DEF SettledOK
<1> QED
  BY <1>10, <1>11, <1>12 DEF TotalsInv

\* A stock update that has nothing more to do.
LEMMA StockEnds ==
  ASSUME NEW call, call = [Resting EXCEPT !.pc = "ended"]
  PROVE  StockTyped(call) /\ Holds(call, size) /\ call.pc = "ended" /\ StockTyped(Resting) /\ Resting.pc = "idle"
<1>1. NoSize \in SizeRow /\ NoProduct \in ProductRow
  BY DEF NoSize, SizeRow, NoProduct, ProductRow
<1>2. /\ call = [pc |-> "ended", id |-> NoEdit, row |-> NoSize, product |-> NoProduct]
      /\ Resting = [pc |-> "idle", id |-> NoEdit, row |-> NoSize, product |-> NoProduct]
  BY DEF Resting
<1> QED
  BY <1>1, <1>2 DEF StockTyped, Holds

LEMMA StockStops ==
  ASSUME CatalogInv, TotalsInv, NEW m \in Movers, Moving(m),
         mover' = [mover EXCEPT ![m] = [Resting EXCEPT !.pc = "ended"]],
         UNCHANGED <<variant, size, edit, editLone, counted, fitted, closed>>,
         \/ product' = product /\ ~editSettled'
         \/ product' = mover[m].product /\ mover[m].pc = "product" /\ editSettled' = editSettled,
         editSettled' \in BOOLEAN
  PROVE  TotalsInv'
<1>1. PICK call : call = [Resting EXCEPT !.pc = "ended"]
  OBVIOUS
<1>2. TotalsTyped /\ RowsTyped /\ HistoryTyped /\ DOMAIN mover = Movers /\ StockTyped(mover[m])
  BY DEF TotalsInv, TotalsTyped
<1>3. StockTyped(call) /\ Holds(call, size) /\ call.pc = "ended"
  BY <1>1, StockEnds
<1>4. product' \in ProductRow
  BY <1>2 DEF RowsTyped, StockTyped
<1>5. RowsTyped' /\ HistoryTyped'
  BY <1>2, <1>4 DEF RowsTyped, HistoryTyped
<1>6. TotalsTyped'
  BY <1>1, <1>2, <1>3, <1>5, TypedStep DEF StockStep
<1>7. ASSUME NEW d \in AdminCalls PROVE EditLoneOK(d)'
  BY MovesAlone DEF EditLoneOK
<1>8. SettledOK'
  <2> SUFFICES ASSUME editSettled' PROVE SettledOK'
    BY DEF SettledOK
  <2>1. product' = mover[m].product /\ mover[m].pc = "product" /\ editSettled /\ SettledOK
    BY DEF TotalsInv
  <2>2. /\ editLone = m /\ \A c \in AdminCalls : edit[c].pc # "save"
        /\ \A n \in Movers \ {m} : mover[n].pc \notin {"size", "product"}
    BY <2>1, MovesAlone
  <2>3. mover'[m] = call /\ \A n \in Movers \ {m} : mover'[n] = mover[n]
    BY <1>1, <1>2
  <2>4. \A n \in Movers : mover'[n].pc \notin {"size", "product"}
    BY <1>3, <2>2, <2>3
  <2>5. product'.sold = SoldOf(size, Here(size)) /\ Balanced(product', size, counted)
    BY <2>1 DEF SettledOK, MoverSettled
  <2>6. \A s \in fitted : Fits(size[s])
    BY <2>1 DEF SettledOK
  <2>7. EditsInFlight' = {}
    BY <2>2, <2>4 DEF EditsInFlight
  <2>8. \A n \in Movers : MoverSettled(mover'[n], size', counted')
    BY <2>4 DEF MoverSettled
  <2> QED
    BY <2>2, <2>5, <2>6, <2>7, <2>8 DEF SettledOK
<1> QED
  BY <1>6, <1>7, <1>8 DEF TotalsInv

LEMMA StockSettles ==
  ASSUME CatalogInv, TotalsInv, NEW m \in Movers, ReadStock(m) \/ SaveStock(m) \/ SaveTotals(m)
  PROVE  TotalsInv'
<1>1. CASE SaveTotals(m)
  <2>1. /\ Moving(m) /\ mover[m].pc = "product" /\ product' = mover[m].product
        /\ mover' = [mover EXCEPT ![m] = [Resting EXCEPT !.pc = "ended"]]
        /\ UNCHANGED <<variant, size, edit, editLone, counted, fitted, closed>> /\ editSettled' = editSettled
    BY <1>1 DEF SaveTotals, Moving, editHistory
  <2>2. editSettled' \in BOOLEAN
    BY <2>1 DEF TotalsInv, TotalsTyped, HistoryTyped
  <2> QED
    BY <2>1, <2>2, StockStops
<1> QED
  BY <1>1, ReadStockSettles, SaveStockSettles

LEMMA EditDiesSettles ==
  ASSUME CatalogInv, TotalsInv, NEW who \in AdminCalls \cup Movers, EditDies(who)
  PROVE  TotalsInv'
<1>1. /\ UNCHANGED <<product, variant, size>> /\ UNCHANGED <<editLone, counted, fitted, closed>>
      /\ who \in EditsInFlight /\ editSettled' = FALSE
  BY DEF EditDies, productRows
<1>2. CASE who \in AdminCalls
  <2>1. edit' = [edit EXCEPT ![who] = EditEnded] /\ UNCHANGED mover
    BY <1>2 DEF EditDies
  <2>2. edit[who].pc = "save"
    BY <1>1, <1>2, Disjoint DEF EditsInFlight
  <2> QED
    BY <1>1, <1>2, <2>1, <2>2, CallStops
<1>3. CASE who \notin AdminCalls
  <2>1. mover' = [mover EXCEPT ![who] = [Resting EXCEPT !.pc = "ended"]] /\ UNCHANGED edit
    BY <1>3 DEF EditDies
  <2>2. Moving(who)
    BY <1>1, <1>3 DEF EditsInFlight, Moving
  <2> QED
    BY <1>1, <1>3, <2>1, <2>2, StockStops
<1> QED
  BY <1>2, <1>3

LEMMA NothingSettles ==
  ASSUME TotalsInv, UNCHANGED catalogVars
  PROVE  TotalsInv'
<1>1. /\ UNCHANGED <<product, variant, size>> /\ UNCHANGED <<edit, mover>>
      /\ UNCHANGED <<editLone, editSettled, counted, fitted, closed>>
  BY DEF catalogVars, productRows, editHistory
<1>2. TotalsTyped'
  BY <1>1 DEF TotalsInv, TotalsTyped, RowsTyped, HistoryTyped
<1>3. \A c \in AdminCalls : EditLoneOK(c)'
  BY <1>1 DEF TotalsInv, EditLoneOK
<1>4. EditsInFlight' = EditsInFlight
  BY <1>1 DEF EditsInFlight
<1>5. SettledOK'
  BY <1>1, <1>4 DEF TotalsInv, SettledOK
<1> QED
  BY <1>2, <1>3, <1>5 DEF TotalsInv

LEMMA TotalsInvariant == CatalogSpec => []TotalsInv
<1>1. CatalogInit => TotalsInv
  <2> SUFFICES ASSUME CatalogInit PROVE TotalsInv
    OBVIOUS
  <2>1. /\ product = NoProduct /\ variant = [v \in AdminCalls |-> NoVariant] /\ size = [s \in SizeIds |-> NoSize]
        /\ edit = [c \in AdminCalls |-> FreshEdit] /\ mover = [m \in Movers |-> Resting]
        /\ editLone = NoEdit /\ editSettled = FALSE /\ counted = {} /\ fitted = {} /\ closed = FALSE
    BY DEF CatalogInit
  <2>2. /\ NoProduct \in ProductRow /\ NoVariant \in VariantRow /\ NoSize \in SizeRow
        /\ NoVariant.there = FALSE /\ NoSize.there = FALSE
    BY DEF NoProduct, ProductRow, NoVariant, VariantRow, NoSize, SizeRow
  <2>3. Here(variant) = {} /\ Here(size) = {}
    BY <2>1, <2>2 DEF Here
  <2>4. RowsTyped /\ HistoryTyped
    BY <2>1, <2>2, <2>3, FS_EmptySet DEF RowsTyped, HistoryTyped
  <2>5. CallTyped(FreshEdit) /\ \A c : Loads(c, FreshEdit, size)
    BY EndedEdit DEF CallTyped, Loads
  <2>6. StockTyped(Resting) /\ Holds(Resting, size)
    BY StockEnds DEF Holds
  <2>7. TotalsTyped
    BY <2>1, <2>3, <2>4, <2>5, <2>6 DEF TotalsTyped
  <2>8. \A c \in AdminCalls : EditLoneOK(c)
    BY <2>1, EndedEdit DEF EditLoneOK
  <2> QED
    BY <2>1, <2>7, <2>8 DEF TotalsInv, SettledOK
<1>2. CatalogInv /\ CatalogInv' /\ TotalsInv /\ [CatalogNext]_catalogVars => TotalsInv'
  <2> SUFFICES ASSUME CatalogInv, CatalogInv', TotalsInv, [CatalogNext]_catalogVars PROVE TotalsInv'
    OBVIOUS
  <2>1. ASSUME NEW c \in AdminCalls,
               CreateProduct(c) \/ LoadToUpdate(c) \/ LoadToArchive(c) \/ DeleteProduct(c)
        PROVE  TotalsInv'
    BY <2>1, CreateProductSettles, LoadSettles, DeleteProductSettles
  <2>2. ASSUME NEW c \in AdminCalls, InsertVariant(c) \/ InsertSize(c) \/ SaveVariant(c) \/ SaveSize(c)
        PROVE  TotalsInv'
    BY <2>2, InsertVariantSettles, InsertSizeSettles, SaveVariantSettles, SaveSizeSettles
  <2>3. ASSUME NEW c \in AdminCalls, SaveProduct(c) \/ CreateEnds(c)
        PROVE  TotalsInv'
    <3>1. CASE CreateEnds(c)
      BY <3>1, CallStops DEF CreateEnds, productRows, editHistory
    <3> QED
      BY <2>3, <3>1, SaveProductSettles
  <2>4. ASSUME NEW m \in Movers, ReadStock(m) \/ SaveStock(m) \/ SaveTotals(m)
        PROVE  TotalsInv'
    BY <2>4, StockSettles
  <2>5. ASSUME NEW who \in AdminCalls \cup Movers, EditDies(who)
        PROVE  TotalsInv'
    BY <2>5, EditDiesSettles
  <2>6. CASE UNCHANGED catalogVars
    BY <2>6, NothingSettles
  <2> QED
    BY <2>1, <2>2, <2>3, <2>4, <2>5, <2>6 DEF CatalogNext
<1> QED
  BY <1>1, <1>2, CatalogInvariant, PTL DEF CatalogSpec

\* The rows of a product, of its variants and sizes, what the calls hold of
\* them and the history always have their types.
THEOREM CatalogTypes == CatalogSpec => []CatalogTypeOK
<1>1. TotalsInv => CatalogTypeOK
  <2> SUFFICES ASSUME TotalsInv PROVE CatalogTypeOK
    OBVIOUS
  <2>1. RowsTyped /\ HistoryTyped
    BY DEF TotalsInv, TotalsTyped
  <2>2. \A c \in AdminCalls : edit[c].pc \in {"idle", "save", "ended"}
    BY DEF TotalsInv, TotalsTyped, CallTyped
  <2>3. \A m \in Movers : mover[m].row \in SizeRow /\ mover[m].product \in ProductRow
    BY DEF TotalsInv, TotalsTyped, StockTyped
  <2> QED
    BY <2>1, <2>2, <2>3 DEF CatalogTypeOK, RowsTyped, HistoryTyped
<1> QED
  BY <1>1, TotalsInvariant, PTL

\* An update that ran alone and to its end sets the product's totals and the
\* rows it wrote right, and whole stock updates and archivings keep them so.
THEOREM EditSettles == CatalogSpec => []EditSettlesTotals
<1>1. TotalsInv => EditSettlesTotals
  <2> SUFFICES ASSUME TotalsInv, CatalogQuiet, editSettled
               PROVE  /\ product.sold = Total(LAMBDA s : size[s].sold, Here(size))
                      /\ product.quantity = Total(LAMBDA s : size[s].quantity, counted)
                      /\ product.inventory = product.quantity - product.sold
                      /\ \A s \in fitted : size[s].inventory = size[s].quantity - size[s].sold
    BY DEF EditSettlesTotals
  <2>1. \A m \in Movers : mover[m].pc # "product"
    BY DEF CatalogQuiet, EditsInFlight
  <2>2. /\ product.sold = SoldOf(size, Here(size)) /\ Balanced(product, size, counted)
        /\ \A s \in fitted : Fits(size[s])
    BY <2>1 DEF TotalsInv, SettledOK
  <2>3. /\ SoldOf(size, Here(size)) = Total(LAMBDA s : size[s].sold, Here(size))
        /\ QuantityOf(size, counted) = Total(LAMBDA s : size[s].quantity, counted)
    BY DEF SoldOf, QuantityOf
  <2> QED
    BY <2>2, <2>3 DEF Balanced, Fits
<1> QED
  BY <1>1, TotalsInvariant, PTL

-----------------------------------------------------------------------------
(* Sums by parts and by keys *)

\* What is summed up in two parts, or by what its parts are known by.
LEMMA SumOfNone == ASSUME NEW w PROVE SumOver(w, {}) = 0
BY SumStarts, FS_EmptySet

LEMMA SumOfTwo ==
  ASSUME NEW A, IsFiniteSet(A), NEW B, IsFiniteSet(B), A \cap B = {},
         NEW w, \A x \in A \cup B : w[x] \in Int
  PROVE  SumOver(w, A \cup B) = SumOver(w, A) + SumOver(w, B)
<1> DEFINE N == {n \in Nat : \A C \in SUBSET B : Cardinality(C) = n =>
                                SumOver(w, A \cup C) = SumOver(w, A) + SumOver(w, C)}
<1>1. \A C \in SUBSET B : IsFiniteSet(C) /\ Cardinality(C) \in Nat
  BY FS_Subset, FS_CardinalityType
<1>2. SumOver(w, A) \in Int
  BY SumTakes
<1>3. 0 \in N
  <2>1. ASSUME NEW C \in SUBSET B, Cardinality(C) = 0
        PROVE  SumOver(w, A \cup C) = SumOver(w, A) + SumOver(w, C)
    <3>1. C = {} /\ A \cup C = A
      BY <1>1, <2>1, FS_EmptySet
    <3>2. SumOver(w, C) = 0
      BY <3>1, SumOfNone
    <3> QED
      BY <1>2, <3>1, <3>2
  <2> QED
    BY <2>1
<1>4. ASSUME NEW n \in N PROVE n + 1 \in N
  <2>1. ASSUME NEW C \in SUBSET B, Cardinality(C) = n + 1
        PROVE  SumOver(w, A \cup C) = SumOver(w, A) + SumOver(w, C)
    <3>1. PICK x \in C : TRUE
      BY <2>1, FS_EmptySet
    <3> DEFINE D == C \ {x}
    <3>2. D \in SUBSET B /\ Cardinality(D) = n
      BY <1>1, <2>1, <3>1, Remains
    <3>3. SumOver(w, A \cup D) = SumOver(w, A) + SumOver(w, D)
      BY <3>2
    <3>4. (A \cup C) \ {x} = A \cup D /\ x \in A \cup C /\ w[x] \in Int /\ \A y \in A \cup C : w[y] \in Int
      BY <3>1
    <3>5. IsFiniteSet(A \cup C)
      BY <1>1, FS_Union
    <3>6. SumOver(w, A \cup C) = w[x] + SumOver(w, A \cup D)
      BY <3>4, <3>5, SumTakes
    <3>7. SumOver(w, C) = w[x] + SumOver(w, D)
      <4>1. IsFiniteSet(C) /\ \A y \in C : w[y] \in Int
        BY <1>1
      <4> QED
        BY <3>1, <4>1, SumTakes
    <3>8. SumOver(w, D) \in Int
      BY <1>1, <3>2, SumTakes
    <3> HIDE DEF N, D
    <3> QED
      BY <1>2, <3>3, <3>4, <3>6, <3>7, <3>8
  <2>2. n + 1 \in Nat
    OBVIOUS
  <2> QED
    BY <2>1, <2>2
<1>5. N = Nat
  <2>1. N \subseteq Nat
    OBVIOUS
  <2> HIDE DEF N
  <2> QED
    BY <1>3, <1>4, <2>1, AllNaturals
<1>6. Cardinality(B) \in N /\ B \in SUBSET B
  BY <1>1, <1>5
<1> QED
  BY <1>6

\* v has for each key t the sum of those that k gives this key.
SumsByKey(v, T, w, S, k) ==
    \A t \in T : v[t] = SumOver(w, {x \in S : k[x] = t})

LEMMA SumByKey ==
  ASSUME NEW S, IsFiniteSet(S), NEW T, IsFiniteSet(T), NEW w, \A x \in S : w[x] \in Int,
         NEW k, \A x \in S : k[x] \in T, NEW v, SumsByKey(v, T, w, S, k)
  PROVE  SumOver(v, T) = SumOver(w, S)
<1> DEFINE KeyedBy(U) == {x \in S : k[x] \in U}
           N == {n \in Nat : \A U \in SUBSET T : Cardinality(U) = n => SumOver(v, U) = SumOver(w, KeyedBy(U))}
<1>1. \A U \in SUBSET T : IsFiniteSet(U) /\ Cardinality(U) \in Nat /\ IsFiniteSet(KeyedBy(U))
  <2>1. \A U \in SUBSET T : IsFiniteSet(U) /\ Cardinality(U) \in Nat
    BY FS_Subset, FS_CardinalityType
  <2>2. \A U \in SUBSET T : KeyedBy(U) \in SUBSET S
    OBVIOUS
  <2>3. \A U \in SUBSET T : IsFiniteSet(KeyedBy(U))
    <3> HIDE DEF KeyedBy
    <3> QED
      BY <2>2, FS_Subset
  <2> QED
    BY <2>1, <2>3
<1>2. \A t \in T : v[t] \in Int
  <2> SUFFICES ASSUME NEW t \in T PROVE v[t] \in Int
    OBVIOUS
  <2> DEFINE R == {x \in S : k[x] = t}
  <2>1. IsFiniteSet(R) /\ \A x \in R : w[x] \in Int
    BY FS_Subset
  <2>2. v[t] = SumOver(w, R)
    BY DEF SumsByKey
  <2> HIDE DEF R
  <2> QED
    BY <2>1, <2>2, SumTakes
<1>3. 0 \in N
  <2>1. ASSUME NEW U \in SUBSET T, Cardinality(U) = 0 PROVE SumOver(v, U) = SumOver(w, KeyedBy(U))
    <3>1. U = {} /\ KeyedBy(U) = {}
      BY <1>1, <2>1, FS_EmptySet
    <3> QED
      BY <3>1, SumOfNone
  <2> HIDE DEF KeyedBy
  <2> QED
    BY <2>1
<1>4. ASSUME NEW n \in N PROVE n + 1 \in N
  <2>1. ASSUME NEW U \in SUBSET T, Cardinality(U) = n + 1 PROVE SumOver(v, U) = SumOver(w, KeyedBy(U))
    <3>1. PICK t \in U : TRUE
      BY <2>1, FS_EmptySet
    <3> DEFINE V == U \ {t}
               R == {x \in S : k[x] = t}
    <3>2. V \in SUBSET T /\ Cardinality(V) = n
      <4>1. IsFiniteSet(U) /\ n \in Nat
        BY <1>1
      <4> HIDE DEF N, KeyedBy, R
      <4>2. Cardinality(U \ {t}) = Cardinality(U) - 1
        BY <3>1, <4>1, Remains
      <4>3. Cardinality(V) = n
        BY <2>1, <4>1, <4>2
      <4> QED
        BY <4>3
    <3>3. SumOver(v, V) = SumOver(w, KeyedBy(V))
      <4> HIDE DEF V, KeyedBy
      <4> QED
        BY <3>2
    <3>4. KeyedBy(U) = KeyedBy(V) \cup R /\ KeyedBy(V) \cap R = {} /\ \A x \in KeyedBy(V) \cup R : w[x] \in Int
      BY <3>1
    <3>5. IsFiniteSet(R) /\ IsFiniteSet(KeyedBy(V))
      <4>1. R \subseteq S
        OBVIOUS
      <4>2. IsFiniteSet(R)
        <5> HIDE DEF R
        <5> QED
          BY <4>1, FS_Subset
      <4> HIDE DEF R, V, KeyedBy
      <4> QED
        BY <1>1, <3>2, <4>2
    <3>6. SumOver(w, KeyedBy(U)) = SumOver(w, KeyedBy(V)) + SumOver(w, R)
      <4> HIDE DEF R, V, KeyedBy
      <4>1. SumOver(w, KeyedBy(V) \cup R) = SumOver(w, KeyedBy(V)) + SumOver(w, R)
        BY <3>4, <3>5, SumOfTwo
      <4> QED
        BY <3>4, <4>1
    <3>7. v[t] = SumOver(w, R) /\ v[t] \in Int
      BY <1>2 DEF SumsByKey
    <3>8. SumOver(v, U) = v[t] + SumOver(v, V)
      BY <1>1, <1>2, <3>1, SumTakes
    <3>9. SumOver(v, V) \in Int
      BY <1>1, <1>2, <3>2, SumTakes
    <3> HIDE DEF N, KeyedBy, R, V
    <3> QED
      BY <3>3, <3>6, <3>7, <3>8, <3>9
  <2>2. n + 1 \in Nat
    OBVIOUS
  <2> HIDE DEF KeyedBy
  <2> QED
    BY <2>1, <2>2
<1>5. N = Nat
  <2>1. N \subseteq Nat
    OBVIOUS
  <2> HIDE DEF N
  <2> QED
    BY <1>3, <1>4, <2>1, AllNaturals
<1>6. Cardinality(T) \in N /\ T \in SUBSET T
  BY <1>1, <1>5
<1>7. SumOver(v, T) = SumOver(w, KeyedBy(T))
  <2> HIDE DEF KeyedBy
  <2> QED
    BY <1>6
<1>8. KeyedBy(T) = S
  OBVIOUS
<1> QED
  BY <1>7, <1>8

-----------------------------------------------------------------------------
(* The sums of the reports. *)

Totals == [o \in SalesOrders |-> sale[o].total]
Quantities == [o \in SalesOrders |-> sale[o].quantity]

LEMMA SalesAreSums ==
  ASSUME NEW S \in SUBSET SalesOrders
  PROVE  Revenue(S) = SumOver(Totals, S) /\ Sold(S) = SumOver(Quantities, S)
<1> DEFINE SumsTotal(f) == f = [t \in SUBSET S |-> IF t = {} THEN 0 ELSE sale[PickOf(t)].total + f[t \ {PickOf(t)}]]
           SumsQuantity(f) == f = [t \in SUBSET S |-> IF t = {} THEN 0 ELSE sale[PickOf(t)].quantity + f[t \ {PickOf(t)}]]
<1>1. Revenue(S) = (CHOOSE f : SumsTotal(f))[S]
  BY DEF Revenue, MapThenSumSet, MapThenFoldSet, PickOf
<1>2. Sold(S) = (CHOOSE f : SumsQuantity(f))[S]
  BY DEF Sold, MapThenSumSet, MapThenFoldSet, PickOf
<1>3. ASSUME NEW t \in SUBSET S, t # {}
      PROVE  Totals[PickOf(t)] = sale[PickOf(t)].total /\ Quantities[PickOf(t)] = sale[PickOf(t)].quantity
  <2>1. PickOf(t) \in SalesOrders
    BY <1>3, PickedFrom
  <2> QED
    BY <2>1 DEF Totals, Quantities
<1>4. ASSUME NEW f PROVE SumsTotal(f) <=> IsSum(f, Totals, S)
  <2>1. [t \in SUBSET S |-> IF t = {} THEN 0 ELSE sale[PickOf(t)].total + f[t \ {PickOf(t)}]]
         = [t \in SUBSET S |-> IF t = {} THEN 0 ELSE Totals[PickOf(t)] + f[t \ {PickOf(t)}]]
    BY <1>3
  <2> QED
    BY <2>1 DEF IsSum
<1>5. ASSUME NEW f PROVE SumsQuantity(f) <=> IsSum(f, Quantities, S)
  <2>1. [t \in SUBSET S |-> IF t = {} THEN 0 ELSE sale[PickOf(t)].quantity + f[t \ {PickOf(t)}]]
         = [t \in SUBSET S |-> IF t = {} THEN 0 ELSE Quantities[PickOf(t)] + f[t \ {PickOf(t)}]]
    BY <1>3
  <2> QED
    BY <2>1 DEF IsSum
<1> HIDE DEF SumsTotal, SumsQuantity
<1>6. Revenue(S) = SumOver(Totals, S)
  BY <1>1, <1>4 DEF SumOver
<1>7. Sold(S) = SumOver(Quantities, S)
  BY <1>2, <1>5 DEF SumOver
<1> QED
  BY <1>6, <1>7

LEMMA ReportsAreSums ==
  ASSUME NEW q
  PROVE  /\ TotalRevenue(q) = SumOver([i \in DOMAIN q |-> q[i].revenue], DOMAIN q)
         /\ TotalPieces(q) = SumOver([i \in DOMAIN q |-> q[i].quantitySold], DOMAIN q)
<1> DEFINE S == DOMAIN q
           revenue == [i \in S |-> q[i].revenue]
           pieces == [i \in S |-> q[i].quantitySold]
           SumsRevenue(f) == f = [t \in SUBSET S |-> IF t = {} THEN 0 ELSE q[PickOf(t)].revenue + f[t \ {PickOf(t)}]]
           SumsPieces(f) == f = [t \in SUBSET S |-> IF t = {} THEN 0 ELSE q[PickOf(t)].quantitySold + f[t \ {PickOf(t)}]]
<1>1. TotalRevenue(q) = (CHOOSE f : SumsRevenue(f))[S]
  BY DEF TotalRevenue, FoldSeq, FoldFunction, FoldFunctionOnSet, MapThenFoldSet, PickOf
<1>2. TotalPieces(q) = (CHOOSE f : SumsPieces(f))[S]
  BY DEF TotalPieces, FoldSeq, FoldFunction, FoldFunctionOnSet, MapThenFoldSet, PickOf
<1>3. ASSUME NEW t \in SUBSET S, t # {}
      PROVE  revenue[PickOf(t)] = q[PickOf(t)].revenue /\ pieces[PickOf(t)] = q[PickOf(t)].quantitySold
  <2>1. PickOf(t) \in S
    BY <1>3, PickedFrom
  <2> QED
    BY <2>1
<1> HIDE DEF revenue, pieces
<1>4. ASSUME NEW f PROVE SumsRevenue(f) <=> IsSum(f, revenue, S)
  <2>1. [t \in SUBSET S |-> IF t = {} THEN 0 ELSE q[PickOf(t)].revenue + f[t \ {PickOf(t)}]]
         = [t \in SUBSET S |-> IF t = {} THEN 0 ELSE revenue[PickOf(t)] + f[t \ {PickOf(t)}]]
    BY <1>3
  <2> QED
    BY <2>1 DEF IsSum
<1>5. ASSUME NEW f PROVE SumsPieces(f) <=> IsSum(f, pieces, S)
  <2>1. [t \in SUBSET S |-> IF t = {} THEN 0 ELSE q[PickOf(t)].quantitySold + f[t \ {PickOf(t)}]]
         = [t \in SUBSET S |-> IF t = {} THEN 0 ELSE pieces[PickOf(t)] + f[t \ {PickOf(t)}]]
    BY <1>3
  <2> QED
    BY <2>1 DEF IsSum
<1> HIDE DEF SumsRevenue, SumsPieces
<1>6. TotalRevenue(q) = SumOver(revenue, S)
  BY <1>1, <1>4 DEF SumOver
<1>7. TotalPieces(q) = SumOver(pieces, S)
  BY <1>2, <1>5 DEF SumOver
<1> QED
  BY <1>6, <1>7 DEF revenue, pieces

(* The calendar: where a day, a month and a year begin. *)

LEMMA DividesAt ==
  ASSUME NEW a \in Nat, NEW b \in Nat \ {0}, NEW m \in Int
  PROVE  a \div b \in Nat /\ (b * m <= a <=> m <= a \div b)
<1> DEFINE d == a \div b
           rest == a % b
<1>1. d \in Int /\ rest \in Int /\ a = b * d + rest /\ 0 <= rest /\ rest < b
  OBVIOUS
<1> HIDE DEF d, rest
<1>2. ASSUME m <= d PROVE b * m <= a
  <2>1. b * m <= b * d
    BY <1>1, <1>2
  <2> QED
    BY <1>1, <2>1
<1>3. ASSUME d < m PROVE a < b * m
  <2>1. b * (d + 1) <= b * m
    BY <1>1, <1>3
  <2>2. b * (d + 1) = b * d + b /\ b * d \in Int /\ b * m \in Int
    BY <1>1
  <2> QED
    BY <1>1, <2>1, <2>2
<1>4. 0 <= d
  <2> SUFFICES ASSUME d <= -1 PROVE FALSE
    BY <1>1
  <2>1. b * d <= b * (-1)
    BY <1>1
  <2>2. b * (-1) = -b /\ b * d \in Int
    BY <1>1
  <2> QED
    BY <1>1, <2>1, <2>2
<1>5. b * m \in Int
  OBVIOUS
<1> QED
  BY <1>1, <1>2, <1>3, <1>4, <1>5 DEF d

LEMMA DayBegins ==
  ASSUME NEW t \in Nat, NEW d \in Int
  PROVE  Day(t) \in Nat /\ MidnightOf(d) \in Int /\ (MidnightOf(d) <= t <=> d <= Day(t))
BY DividesAt DEF Day, MidnightOf

LEMMA MonthBegins ==
  ASSUME NEW t \in Nat, NEW m \in Int
  PROVE  /\ Month(t) \in Nat /\ FirstDay(m) \in Int
         /\ MidnightOf(FirstDay(m)) <= t <=> m <= Month(t)
         /\ FirstDay(m) <= Day(t) <=> m <= Month(t)
<1>1. FirstDay(m) \in Int /\ Day(t) \in Nat /\ DaysPerMonth \in Nat \ {0}
  BY DayBegins, SalesAssumption DEF FirstDay
<1>2. Month(t) \in Nat /\ (FirstDay(m) <= Day(t) <=> m <= Month(t))
  BY <1>1, DividesAt DEF Month, MonthOfDay, FirstDay
<1> QED
  BY <1>1, <1>2, DayBegins

LEMMA MonthsOfDays ==
  ASSUME NEW a \in Nat, NEW b \in Nat, a <= b
  PROVE  MonthOfDay(a) \in Nat /\ MonthOfDay(b) \in Nat /\ MonthOfDay(a) <= MonthOfDay(b)
<1>1. DaysPerMonth \in Nat \ {0}
  BY SalesAssumption
<1>2. MonthOfDay(a) \in Nat /\ MonthOfDay(b) \in Nat
  BY <1>1, DividesAt, 0 \in Int DEF MonthOfDay
<1>3. DaysPerMonth * MonthOfDay(a) <= a /\ DaysPerMonth * MonthOfDay(a) \in Int
  <2>1. MonthOfDay(a) <= a \div DaysPerMonth
    BY <1>2 DEF MonthOfDay
  <2> QED
    BY <1>1, <1>2, <2>1, DividesAt
<1>4. DaysPerMonth * MonthOfDay(a) <= b
  BY <1>3
<1> QED
  BY <1>1, <1>2, <1>4, DividesAt DEF MonthOfDay

LEMMA YearBegins ==
  ASSUME NEW m \in Nat, NEW y \in Int
  PROVE  YearOf(m) \in Nat \ {0} /\ January(y) \in Int /\ (January(y) <= m <=> y <= YearOf(m))
BY DEF YearOf, January

LEMMA QuartersOfYear ==
  ASSUME NEW m \in Nat, NEW k \in Nat, YearOf(m) = YearOf(k), m <= k
  PROVE  QuarterOf(m) \in 1..4 /\ QuarterOf(k) \in 1..4 /\ QuarterOf(m) <= QuarterOf(k)
BY DEF YearOf, QuarterOf

LEMMA LeastOfNaturals ==
  ASSUME NEW T \in SUBSET Nat, T # {}
  PROVE  \E x \in T : \A y \in T : x <= y
<1> SUFFICES ASSUME \A x \in T : \E y \in T : y < x PROVE FALSE
  OBVIOUS
<1> DEFINE N == {n \in Nat : \A x \in T : n <= x}
<1>1. 0 \in N /\ N \in SUBSET Nat
  OBVIOUS
<1>2. ASSUME NEW n \in N PROVE n + 1 \in N
  <2>1. n \notin T
    BY <1>2
  <2> QED
    BY <2>1
<1>3. N = Nat
  <2> HIDE DEF N
  <2> QED
    BY <1>1, <1>2, AllNaturals
<1>4. PICK x \in T : TRUE
  OBVIOUS
<1>5. x + 1 \in N
  BY <1>3
<1> QED
  BY <1>4, <1>5

(* The orders that the reports are about: finitely many, none of the future. *)

SalesInv ==
    /\ SalesTypeOK
    /\ IsFiniteSet(Made)
    /\ \A o \in Made : sale[o].createdAt <= now

LEMMA SalesInvariant == SalesSpec => []SalesInv
<1>1. SalesInit => SalesInv
  <2> SUFFICES ASSUME SalesInit PROVE SalesInv
    OBVIOUS
  <2>1. now \in Moments
    <3>1. Moments \subseteq Nat /\ Moments # {}
      BY SalesAssumption
    <3>2. \E x \in Moments : \A y \in Moments : x <= y
      BY <3>1, LeastOfNaturals
    <3> QED
      BY <3>2 DEF SalesInit, Min
  <2>2. Made = {} /\ sale \in [SalesOrders -> SaleRow \cup {Missing}]
    BY DEF SalesInit, Made
  <2> QED
    BY <2>1, <2>2, FS_EmptySet DEF SalesInv, SalesTypeOK
<1>2. SalesInv /\ [SalesNext]_salesVars => SalesInv'
  <2> SUFFICES ASSUME SalesInv, [SalesNext]_salesVars PROVE SalesInv'
    OBVIOUS
  <2>1. now \in Nat /\ \A o \in Made : sale[o] \in SaleRow /\ sale[o].createdAt \in Nat
    BY SalesAssumption DEF SalesInv, SalesTypeOK, Made, SaleRow
  <2>2. CASE Tick
    <3>1. now' \in Moments /\ now' \in Nat /\ now <= now' /\ sale' = sale
      BY <2>1, <2>2, SalesAssumption DEF Tick
    <3>2. Made' = Made
      BY <3>1 DEF Made
    <3>3. \A o \in Made : sale[o].createdAt <= now'
      BY <2>1, <3>1 DEF SalesInv
    <3> QED
      BY <3>1, <3>2, <3>3 DEF SalesInv, SalesTypeOK
  <2>3. ASSUME NEW o \in SalesOrders, NEW r \in SaleRow, sale' = [sale EXCEPT ![o] = r],
               r.createdAt <= now, now' = now
        PROVE  SalesInv'
    <3>1. /\ sale' \in [SalesOrders -> SaleRow \cup {Missing}] /\ sale'[o] = r
          /\ \A b \in SalesOrders \ {o} : sale'[b] = sale[b]
      BY <2>3 DEF SalesInv, SalesTypeOK
    <3>2. Made' \subseteq Made \cup {o}
      BY <3>1 DEF Made
    <3>3. IsFiniteSet(Made')
      BY <3>2, FS_AddElement, FS_Subset DEF SalesInv
    <3>4. \A b \in Made' : sale'[b].createdAt <= now'
      BY <2>3, <3>1, <3>2 DEF SalesInv, Made
    <3> QED
      BY <2>3, <3>1, <3>3, <3>4 DEF SalesInv, SalesTypeOK
  <2>4. ASSUME NEW o \in SalesOrders, PlaceSale(o) PROVE SalesInv'
    <3>1. PICK total \in Amounts, quantity \in Amounts, p \in SalesProducts :
            sale' = [sale EXCEPT ![o] = [status |-> "pending", createdAt |-> now,
                        total |-> total, product |-> p, quantity |-> quantity]]
      BY <2>4 DEF PlaceSale
    <3>2. PICK r : r = [status |-> "pending", createdAt |-> now,
                        total |-> total, product |-> p, quantity |-> quantity]
      OBVIOUS
    <3>3. r \in SaleRow /\ r.createdAt <= now
      BY <2>1, <3>2 DEF SaleRow, SalesInv, SalesTypeOK
    <3> QED
      BY <2>3, <2>4, <3>1, <3>2, <3>3 DEF PlaceSale
  <2>5. ASSUME NEW o \in SalesOrders, DeliverSale(o) PROVE SalesInv'
    <3>1. o \in Made
      BY <2>5 DEF DeliverSale
    <3>2. PICK r : r = [sale[o] EXCEPT !.status = "delivered"]
      OBVIOUS
    <3>3. sale' = [sale EXCEPT ![o] = r] /\ now' = now
      BY <2>5, <3>2 DEF DeliverSale
    <3>4. r \in SaleRow /\ r.createdAt = sale[o].createdAt
      BY <2>1, <3>1, <3>2 DEF SaleRow
    <3> QED
      BY <2>3, <3>1, <3>3, <3>4 DEF SalesInv
  <2>6. CASE UNCHANGED salesVars
    BY <2>6 DEF salesVars, SalesInv, SalesTypeOK, Made
  <2> QED
    BY <2>2, <2>4, <2>5, <2>6 DEF SalesNext
<1> QED
  BY <1>1, <1>2, PTL DEF SalesSpec

LEMMA OrdersReported ==
  ASSUME SalesInv
  PROVE  /\ now \in Nat /\ IsFiniteSet(Delivered) /\ Delivered \subseteq SalesOrders
         /\ \A o \in Delivered :
               /\ sale[o].createdAt \in Nat /\ sale[o].createdAt <= now /\ sale[o].product \in SalesProducts
               /\ Totals[o] \in Int /\ Quantities[o] \in Int
               /\ Totals[o] = sale[o].total /\ Quantities[o] = sale[o].quantity
<1>1. Delivered \subseteq Made /\ Made \subseteq SalesOrders
  BY DEF Delivered, Made
<1>2. IsFiniteSet(Delivered)
  BY <1>1, FS_Subset DEF SalesInv
<1>3. now \in Nat
  BY SalesAssumption DEF SalesInv, SalesTypeOK
<1>4. \A o \in Made : /\ sale[o].createdAt \in Nat /\ sale[o].createdAt <= now /\ sale[o].product \in SalesProducts
                      /\ sale[o].total \in Nat /\ sale[o].quantity \in Nat
  BY SalesAssumption DEF SalesInv, SalesTypeOK, Made, SaleRow
<1>5. \A o \in Delivered : Totals[o] = sale[o].total /\ Quantities[o] = sale[o].quantity
  BY <1>1 DEF Totals, Quantities
<1> QED
  BY <1>1, <1>2, <1>3, <1>4, <1>5

\* The i-th entry of a report has the revenue of the orders of S with the label
\* from + i - 1.
Reports(report, from, n, S, label) ==
    /\ DOMAIN report = 1..n
    /\ \A i \in 1..n : report[i].revenue = Revenue({o \in S : label[o] = from + i - 1})

\* A report with a label for each order of S adds up to the revenue of S.
LEMMA ReportAddsUp ==
  ASSUME SalesInv, NEW S \in SUBSET Delivered, NEW from \in Int, NEW n \in Nat, NEW report,
         NEW label, \A o \in S : label[o] \in Int /\ from <= label[o] /\ label[o] <= from + n - 1,
         Reports(report, from, n, S, label)
  PROVE  TotalRevenue(report) = Revenue(S)
<1> DEFINE T == 1..n
           k == [o \in S |-> label[o] - from + 1]
           v == [i \in T |-> report[i].revenue]
<1>1. IsFiniteSet(S) /\ (\A o \in S : Totals[o] \in Int) /\ S \subseteq SalesOrders
  BY OrdersReported, FS_Subset
<1>2. IsFiniteSet(T)
  BY FS_Interval
<1>3. \A o \in S : k[o] \in T
  OBVIOUS
<1>4. SumsByKey(v, T, Totals, S, k)
  <2> SUFFICES ASSUME NEW i \in T PROVE v[i] = SumOver(Totals, {o \in S : k[o] = i})
    BY DEF SumsByKey
  <2>1. {o \in S : k[o] = i} = {o \in S : label[o] = from + i - 1}
    OBVIOUS
  <2>2. v[i] = Revenue({o \in S : label[o] = from + i - 1})
    BY DEF Reports
  <2>3. {o \in S : label[o] = from + i - 1} \in SUBSET SalesOrders
    BY <1>1
  <2> HIDE DEF v, k
  <2> QED
    BY <2>1, <2>2, <2>3, SalesAreSums
<1>5. TotalRevenue(report) = SumOver(v, T)
  BY ReportsAreSums DEF Reports
<1> HIDE DEF T, k, v
<1>6. SumOver(v, T) = SumOver(Totals, S)
  BY <1>1, <1>2, <1>3, <1>4, SumByKey
<1> QED
  BY <1>1, <1>5, <1>6, SalesAreSums

-----------------------------------------------------------------------------
(* What each report adds up to. *)

MonthOf == [o \in Delivered |-> Month(sale[o].createdAt)]
QuarterLabel == [o \in Delivered |-> QuarterOf(Month(sale[o].createdAt))]
OfYear(y) == {o \in Delivered : YearOf(Month(sale[o].createdAt)) = y}
InRange(start, end) ==
    {o \in Delivered : MidnightOf(start) <= sale[o].createdAt /\ sale[o].createdAt < RangeEnd(end)}

LEMMA MonthsSoFar ==
  ASSUME SalesInv
  PROVE  /\ Month(now) \in Nat /\ CurrentYear \in Nat \ {0}
         /\ \A o \in Delivered : /\ Month(sale[o].createdAt) \in Nat
                                 /\ Month(sale[o].createdAt) <= Month(now)
                                 /\ MonthOf[o] = Month(sale[o].createdAt)
<1>1. now \in Nat
  BY OrdersReported
<1>2. Month(now) \in Nat
  BY <1>1, MonthBegins, 0 \in Int
<1>3. CurrentYear \in Nat \ {0}
  BY <1>2, YearBegins, 0 \in Int DEF CurrentYear
<1>4. ASSUME NEW o \in Delivered
      PROVE  Month(sale[o].createdAt) \in Nat /\ Month(sale[o].createdAt) <= Month(now)
  <2>1. PICK t \in Nat : t = sale[o].createdAt /\ t <= now
    BY OrdersReported
  <2>2. Month(t) \in Nat
    BY MonthBegins, 0 \in Int
  <2>3. MidnightOf(FirstDay(Month(t))) \in Int /\ MidnightOf(FirstDay(Month(t))) <= t
    BY <2>2, MonthBegins, DayBegins
  <2>4. MidnightOf(FirstDay(Month(t))) <= now
    BY <1>1, <2>1, <2>3
  <2> QED
    BY <1>1, <2>1, <2>2, <2>4, MonthBegins
<1> QED
  BY <1>2, <1>3, <1>4 DEF MonthOf

\* The months of a year that a report lists.
LEMMA MonthsListed ==
  ASSUME SalesInv, NEW y \in 1..CurrentYear
  PROVE  /\ January(y) \in Nat /\ LastMonth(y) \in Nat /\ January(y) <= LastMonth(y)
         /\ \A m \in January(y)..LastMonth(y) : YearOf(m) = y
         /\ \A o \in OfYear(y) : January(y) <= MonthOf[o] /\ MonthOf[o] <= LastMonth(y)
<1>1. Month(now) \in Nat /\ CurrentYear = YearOf(Month(now)) /\ CurrentYear \in Nat
  BY MonthsSoFar DEF CurrentYear
<1>2. January(y) \in Nat /\ y \in Nat
  BY <1>1 DEF January
<1>3. \A m \in Nat : YearOf(m) = y <=> January(y) <= m /\ m <= January(y) + 11
  BY <1>2 DEF YearOf, January
<1>4. LastMonth(y) \in Nat /\ January(y) <= LastMonth(y) /\ LastMonth(y) <= January(y) + 11
  <2>1. CASE y = CurrentYear
    BY <1>1, <1>2, <1>3, <2>1 DEF LastMonth
  <2>2. CASE y # CurrentYear
    BY <1>2, <2>2 DEF LastMonth
  <2> QED
    BY <2>1, <2>2
<1>5. \A m \in January(y)..LastMonth(y) : YearOf(m) = y
  BY <1>2, <1>3, <1>4
<1>6. ASSUME NEW o \in OfYear(y) PROVE January(y) <= MonthOf[o] /\ MonthOf[o] <= LastMonth(y)
  <2>1. PICK m \in Nat : m = MonthOf[o] /\ m <= Month(now) /\ YearOf(m) = y
    BY MonthsSoFar DEF OfYear
  <2>2. January(y) <= m /\ m <= January(y) + 11
    BY <1>3, <2>1
  <2> QED
    BY <2>1, <2>2 DEF LastMonth
<1> QED
  BY <1>2, <1>4, <1>5, <1>6

LEMMA MonthsAddUp ==
  ASSUME SalesInv, NEW y \in 1..CurrentYear
  PROVE  /\ TotalRevenue(revenueByMonth(y)) = Revenue(OfYear(y))
         /\ revenueByMonth(y) = [i \in 1..(LastMonth(y) - January(y) + 1) |->
               [label |-> January(y) + i - 1, revenue |-> Revenue(OfMonth(January(y) + i - 1))]]
<1> DEFINE from == January(y)
           n == LastMonth(y) - January(y) + 1
           report == revenueByMonth(y)
<1>1. from \in Nat /\ n \in Nat /\ LastMonth(y) = from + n - 1 /\ from \in Int
  BY MonthsListed
<1>2. Selected(y) = y
  BY MonthsSoFar DEF Selected
<1>3. report = [i \in 1..n |-> [label |-> from + i - 1, revenue |-> Revenue(OfMonth(from + i - 1))]]
  BY <1>2 DEF revenueByMonth, Entries
<1>4. OfYear(y) \in SUBSET Delivered
  BY DEF OfYear
<1>5. \A o \in OfYear(y) : MonthOf[o] \in Int /\ from <= MonthOf[o] /\ MonthOf[o] <= from + n - 1
  BY <1>1, <1>4, MonthsListed, MonthsSoFar
<1>6. ASSUME NEW i \in 1..n PROVE OfMonth(from + i - 1) = {o \in OfYear(y) : MonthOf[o] = from + i - 1}
  <2>1. PICK m : m = from + i - 1
    OBVIOUS
  <2>2. m \in January(y)..LastMonth(y)
    BY <1>1, <2>1
  <2>3. YearOf(m) = y
    BY <2>2, MonthsListed
  <2>4. OfMonth(m) = {o \in OfYear(y) : MonthOf[o] = m}
    BY <2>3 DEF OfMonth, OfYear, MonthOf
  <2> QED
    BY <2>1, <2>4
<1>7. Reports(report, from, n, OfYear(y), MonthOf)
  <2> HIDE DEF from, n, report
  <2>1. DOMAIN report = 1..n /\ \A i \in 1..n : report[i].revenue = Revenue(OfMonth(from + i - 1))
    BY <1>3
  <2> QED
    BY <2>1, <1>6 DEF Reports
<1>8. TotalRevenue(report) = Revenue(OfYear(y))
  <2> HIDE DEF from, n, report
  <2> QED
    BY <1>1, <1>4, <1>5, <1>7, ReportAddsUp
<1> QED
  BY <1>3, <1>8

LEMMA QuartersAddUp ==
  ASSUME SalesInv, NEW y \in 1..CurrentYear
  PROVE  TotalRevenue(revenueByQuarter(y)) = Revenue(OfYear(y))
<1> DEFINE last == IF y = CurrentYear THEN QuarterOf(Month(now)) ELSE 4
           report == revenueByQuarter(y)
           Quarter(q) == {o \in Delivered : LET m == Month(sale[o].createdAt)
                                            IN YearOf(m) = y /\ QuarterOf(m) = q}
<1>1. Selected(y) = y
  BY MonthsSoFar DEF Selected
<1>2. last \in 1..4
  BY MonthsSoFar, QuartersOfYear
<1>3. report = [i \in 1..(last - 1 + 1) |-> [label |-> 1 + i - 1, revenue |-> Revenue(Quarter(1 + i - 1))]]
  BY <1>1 DEF revenueByQuarter, Entries
<1>4. OfYear(y) \in SUBSET Delivered
  BY DEF OfYear
<1>5. ASSUME NEW o \in OfYear(y)
      PROVE  QuarterLabel[o] \in Int /\ 1 <= QuarterLabel[o] /\ QuarterLabel[o] <= 1 + last - 1
  <2>1. PICK m \in Nat : m = Month(sale[o].createdAt) /\ m <= Month(now) /\ YearOf(m) = y
    BY MonthsSoFar DEF OfYear
  <2>2. QuarterLabel[o] = QuarterOf(m) /\ QuarterOf(m) \in 1..4
    BY <1>4, <2>1, QuartersOfYear DEF QuarterLabel
  <2>3. y = CurrentYear => QuarterOf(m) <= QuarterOf(Month(now))
    BY <2>1, MonthsSoFar, QuartersOfYear DEF CurrentYear
  <2> HIDE DEF last
  <2>4. QuarterOf(m) <= last
    BY <2>2, <2>3 DEF last
  <2> QED
    BY <1>2, <2>2, <2>4
<1>6. ASSUME NEW q PROVE Quarter(q) = {o \in OfYear(y) : QuarterLabel[o] = q}
  BY DEF OfYear, QuarterLabel
<1>7. Reports(report, 1, last, OfYear(y), QuarterLabel)
  <2>1. last - 1 + 1 = last
    BY <1>2
  <2> HIDE DEF last, report, Quarter
  <2>2. DOMAIN report = 1..last /\ \A i \in 1..last : report[i].revenue = Revenue(Quarter(1 + i - 1))
    BY <1>3, <2>1
  <2> QED
    BY <2>2, <1>6 DEF Reports
<1> HIDE DEF last, report
<1>8. last \in Nat /\ 1 \in Int
  BY <1>2
<1> QED
  BY <1>4, <1>5, <1>7, <1>8, ReportAddsUp DEF report

LEMMA RangeAddsUp ==
  ASSUME SalesInv, NEW a \in Nat, NEW c \in Nat, a <= c
  PROVE  TotalRevenue(revenueByRange(a, c)) = Revenue(InRange(a, c))
<1> DEFINE from == MonthOfDay(a)
           n == MonthOfDay(c) - MonthOfDay(a) + 1
           report == revenueByRange(a, c)
<1>1. from \in Nat /\ n \in Nat /\ MonthOfDay(c) = from + n - 1 /\ from \in Int
  BY MonthsOfDays
<1>2. report = [i \in 1..n |-> [label |-> from + i - 1,
                                revenue |-> Revenue(InRange(a, c) \cap OfMonth(from + i - 1))]]
  BY DEF revenueByRange, Entries, InRange
<1>3. InRange(a, c) \in SUBSET Delivered
  BY DEF InRange
<1>4. ASSUME NEW o \in InRange(a, c)
      PROVE  MonthOf[o] \in Int /\ from <= MonthOf[o] /\ MonthOf[o] <= from + n - 1
  <2>1. PICK t \in Nat : t = sale[o].createdAt /\ MidnightOf(a) <= t /\ ~(MidnightOf(c + 1) <= t)
    <3>1. sale[o].createdAt \in Nat
      BY <1>3, OrdersReported
    <3>2. MidnightOf(a) <= sale[o].createdAt /\ sale[o].createdAt < MidnightOf(c + 1) /\ MidnightOf(c + 1) \in Int
      BY DEF InRange, RangeEnd, MidnightOf
    <3> QED
      BY <3>1, <3>2
  <2>2. Day(t) \in Nat /\ a <= Day(t) /\ Day(t) <= c
    <3>1. a \in Int /\ c + 1 \in Int
      OBVIOUS
    <3>2. Day(t) \in Nat /\ a <= Day(t) /\ ~(c + 1 <= Day(t))
      BY <2>1, <3>1, DayBegins
    <3> QED
      BY <3>2
  <2>3. MonthOf[o] = MonthOfDay(Day(t))
    BY <1>3, <2>1, MonthsSoFar DEF Month
  <2>4. MonthOfDay(a) <= MonthOfDay(Day(t)) /\ MonthOfDay(Day(t)) <= MonthOfDay(c) /\ MonthOfDay(Day(t)) \in Nat
    BY <2>2, MonthsOfDays
  <2> QED
    BY <1>1, <2>3, <2>4
<1>5. ASSUME NEW m PROVE InRange(a, c) \cap OfMonth(m) = {o \in InRange(a, c) : MonthOf[o] = m}
  BY DEF InRange, OfMonth, MonthOf
<1>6. Reports(report, from, n, InRange(a, c), MonthOf)
  <2> HIDE DEF from, n, report
  <2>1. /\ DOMAIN report = 1..n
        /\ \A i \in 1..n : report[i].revenue = Revenue(InRange(a, c) \cap OfMonth(from + i - 1))
    BY <1>2
  <2> QED
    BY <2>1, <1>5 DEF Reports
<1> HIDE DEF from, n, report
<1> QED
  BY <1>1, <1>3, <1>4, <1>6, ReportAddsUp DEF report

\* The orders of a year are those from its first day to its last.
LEMMA YearIsRange ==
  ASSUME SalesInv, NEW y \in 1..CurrentYear
  PROVE  LET from == FirstDay(January(y))
             to == FirstDay(January(y + 1)) - 1
         IN from \in Nat /\ to \in Nat /\ from <= to /\ InRange(from, to) = OfYear(y)
<1> DEFINE from == FirstDay(January(y))
           next == FirstDay(January(y + 1))
<1>1. y \in Nat \ {0} /\ y + 1 \in Int /\ CurrentYear \in Nat
  BY MonthsSoFar
<1>2. January(y) \in Nat /\ January(y + 1) = January(y) + 12 /\ January(y + 1) \in Nat
  BY <1>1 DEF January
<1>3. from \in Nat /\ next \in Nat /\ from + 1 <= next
  <2>1. PICK d \in Nat \ {0} : d = DaysPerMonth
    BY SalesAssumption
  <2>2. PICK j \in Nat : j = January(y)
    BY <1>2
  <2>3. from = d * j /\ next = d * (j + 12)
    BY <1>2, <2>1, <2>2 DEF FirstDay
  <2>4. d * (j + 12) = d * j + 12 * d /\ d * j \in Nat
    OBVIOUS
  <2> QED
    BY <2>3, <2>4
<1>4. ASSUME NEW o \in Delivered
      PROVE  /\ MidnightOf(from) <= sale[o].createdAt /\ sale[o].createdAt < RangeEnd(next - 1)
                <=> YearOf(Month(sale[o].createdAt)) = y
  <2>1. PICK t \in Nat : t = sale[o].createdAt
    BY OrdersReported
  <2>2. Month(t) \in Nat
    BY MonthBegins, 0 \in Int
  <2>3. MidnightOf(from) <= t <=> January(y) <= Month(t)
    BY <1>2, MonthBegins
  <2>4. MidnightOf(next) <= t <=> January(y + 1) <= Month(t)
    BY <1>2, MonthBegins
  <2>5. January(y) <= Month(t) <=> y <= YearOf(Month(t))
    BY <1>1, <2>2, YearBegins
  <2>6. January(y + 1) <= Month(t) <=> y + 1 <= YearOf(Month(t))
    BY <1>1, <2>2, YearBegins
  <2>7. YearOf(Month(t)) \in Nat
    BY <1>1, <2>2, YearBegins
  <2>8. RangeEnd(next - 1) = MidnightOf(next) /\ MidnightOf(next) \in Int
    <3> HIDE DEF next
    <3> QED
      BY <1>3 DEF RangeEnd, MidnightOf
  <2> HIDE DEF from, next
  <2> QED
    BY <1>1, <2>1, <2>3, <2>4, <2>5, <2>6, <2>7, <2>8
<1>5. InRange(from, next - 1) = OfYear(y)
  BY <1>4 DEF InRange, OfYear
<1> HIDE DEF from, next
<1> QED
  BY <1>3, <1>5 DEF from, next

\* Months, quarters, years and ranges.
LEMMA YearsAgree ==
  ASSUME SalesInv, NEW y \in 1..CurrentYear
  PROVE  LET months == TotalRevenue(getRevenue("month", y, Missing, Missing))
             from == FirstDay(January(y))
             to == FirstDay(January(y + 1)) - 1
         IN /\ months = TotalRevenue(getRevenue("quarter", y, Missing, Missing))
            /\ months = TotalRevenue(getRevenue("range", Missing, from, to))
            /\ \A i \in 1..2 : revenueByYear[i].label = y => revenueByYear[i].revenue = months
<1> DEFINE from == FirstDay(January(y))
           to == FirstDay(January(y + 1)) - 1
<1>1. from \in Nat /\ to \in Nat /\ from <= to /\ InRange(from, to) = OfYear(y)
  BY YearIsRange
<1>2. y # Missing /\ from # Missing /\ to # Missing /\ CurrentYear \in Nat
  <2>1. y \in Nat /\ Missing \notin Nat /\ CurrentYear \in Nat
    BY MonthsSoFar, SalesAssumption
  <2> HIDE DEF from, to
  <2> QED
    BY <1>1, <2>1
<1>3. TotalRevenue(getRevenue("month", y, Missing, Missing)) = Revenue(OfYear(y))
  <2>1. getRevenue("month", y, Missing, Missing) = revenueByMonth(y)
    BY <1>2 DEF getRevenue
  <2> QED
    BY <2>1, MonthsAddUp
<1>4. TotalRevenue(getRevenue("quarter", y, Missing, Missing)) = Revenue(OfYear(y))
  <2>1. getRevenue("quarter", y, Missing, Missing) = revenueByQuarter(y)
    BY <1>2 DEF getRevenue
  <2> QED
    BY <2>1, QuartersAddUp
<1>5. TotalRevenue(getRevenue("range", Missing, from, to)) = Revenue(OfYear(y))
  <2> HIDE DEF from, to
  <2>1. getRevenue("range", Missing, from, to) = revenueByRange(from, to)
    BY <1>2 DEF getRevenue
  <2> QED
    BY <2>1, <1>1, RangeAddsUp
<1>6. ASSUME NEW i \in 1..2, revenueByYear[i].label = y PROVE revenueByYear[i].revenue = Revenue(OfYear(y))
  <2>1. CurrentYear - (CurrentYear - 1) + 1 = 2
    BY <1>2
  <2>2. revenueByYear = [j \in 1..(CurrentYear - (CurrentYear - 1) + 1) |->
            [label |-> CurrentYear - 1 + j - 1, revenue |-> Revenue(OfYear(CurrentYear - 1 + j - 1))]]
    BY DEF revenueByYear, Entries, OfYear
  <2>3. revenueByYear[i] = [label |-> CurrentYear - 1 + i - 1, revenue |-> Revenue(OfYear(CurrentYear - 1 + i - 1))]
    BY <2>1, <2>2
  <2> QED
    BY <1>6, <2>3
<1> HIDE DEF from, to
<1>7. LET months == TotalRevenue(getRevenue("month", y, Missing, Missing))
      IN /\ months = TotalRevenue(getRevenue("quarter", y, Missing, Missing))
         /\ months = TotalRevenue(getRevenue("range", Missing, from, to))
         /\ \A i \in 1..2 : revenueByYear[i].label = y => revenueByYear[i].revenue = months
  BY <1>3, <1>4, <1>5, <1>6
<1> QED
  BY <1>7 DEF from, to

\* The dashboard's month has begun and is not over.
LEMMA DashboardAgrees ==
  ASSUME SalesInv
  PROVE  /\ getAnalytics.totalRevenue = Last(revenueByMonth(0)).revenue
         /\ getAnalytics.totalOrders = Cardinality(OfMonth(Month(now)))
<1> DEFINE m == Month(now)
           start == MidnightOf(FirstDay(m))
           end == MidnightOf(FirstDay(m + 1))
<1>1. m \in Nat /\ m + 1 \in Int /\ now \in Nat /\ CurrentYear \in Nat \ {0}
  BY MonthsSoFar, OrdersReported
<1>2. start \in Int /\ end \in Int /\ now < end
  <2>1. FirstDay(m) \in Int /\ FirstDay(m + 1) \in Int
    BY <1>1, MonthBegins
  <2>2. start \in Int /\ end \in Int
    BY <2>1, DayBegins, 0 \in Nat
  <2>3. end <= now <=> m + 1 <= Month(now)
    BY <1>1, MonthBegins
  <2> HIDE DEF end
  <2> QED
    BY <1>1, <2>2, <2>3
<1>3. ASSUME NEW o \in Delivered
      PROVE  /\ start <= sale[o].createdAt <=> Month(sale[o].createdAt) = m
             /\ sale[o].createdAt <= end - 1 /\ sale[o].createdAt <= end
  <2>1. PICK t \in Nat : t = sale[o].createdAt /\ t <= now
    BY OrdersReported
  <2>2. Month(t) <= m /\ Month(t) \in Nat
    BY <2>1, MonthsSoFar
  <2>3. start <= t <=> m <= Month(t)
    BY <1>1, MonthBegins
  <2> HIDE DEF start, end, m
  <2> QED
    BY <1>1, <1>2, <2>1, <2>2, <2>3
<1>4. Between(Delivered, start, end - 1) = OfMonth(m) /\ Between(Delivered, start, end) = OfMonth(m)
  <2> HIDE DEF start, end, m
  <2> QED
    BY <1>3 DEF Between, OfMonth
<1>5. getAnalytics = [totalRevenue |-> Revenue(Between(Delivered, start, end - 1)),
                      totalProductSold |-> Sold(Between(Delivered, start, end - 1)),
                      totalOrders |-> Cardinality(Between(Delivered, start, end))]
  BY DEF getAnalytics
<1>6. getAnalytics.totalRevenue = Revenue(OfMonth(m)) /\ getAnalytics.totalOrders = Cardinality(OfMonth(m))
  <2> HIDE DEF start, end, m
  <2> QED
    BY <1>4, <1>5
<1>7. Last(revenueByMonth(0)).revenue = Revenue(OfMonth(m))
  <2> DEFINE n == LastMonth(CurrentYear) - January(CurrentYear) + 1
             report == revenueByMonth(CurrentYear)
  <2>1. CurrentYear \in 1..CurrentYear /\ LastMonth(CurrentYear) = m
    BY <1>1 DEF LastMonth
  <2>2. revenueByMonth(0) = report
    BY <1>1 DEF revenueByMonth, Selected
  <2>3. report = [i \in 1..n |-> [label |-> January(CurrentYear) + i - 1,
                                  revenue |-> Revenue(OfMonth(January(CurrentYear) + i - 1))]]
    BY <2>1, MonthsAddUp
  <2>4. January(CurrentYear) \in Nat /\ January(CurrentYear) <= LastMonth(CurrentYear) /\ LastMonth(CurrentYear) \in Nat
    BY <2>1, MonthsListed
  <2>5. n \in Nat \ {0} /\ January(CurrentYear) + n - 1 = m
    BY <2>1, <2>4
  <2> HIDE DEF n, report, m
  <2>6. Len(report) = n
    BY <2>3, <2>5
  <2>7. report[n] = [label |-> January(CurrentYear) + n - 1, revenue |-> Revenue(OfMonth(January(CurrentYear) + n - 1))]
    BY <2>3, <2>5
  <2>8. report[n].revenue = Revenue(OfMonth(m))
    BY <2>5, <2>7
  <2> QED
    BY <2>2, <2>6, <2>8 DEF Last
<1> QED
  BY <1>6, <1>7

\* Two ranges that meet.
LEMMA RangesAgree ==
  ASSUME SalesInv, NEW a \in Nat, NEW b \in Nat, NEW c \in Nat, a <= b, b < c
  PROVE  TotalRevenue(revenueByRange(a, c))
           = TotalRevenue(revenueByRange(a, b)) + TotalRevenue(revenueByRange(b + 1, c))
<1>1. /\ TotalRevenue(revenueByRange(a, c)) = Revenue(InRange(a, c))
      /\ TotalRevenue(revenueByRange(a, b)) = Revenue(InRange(a, b))
      /\ TotalRevenue(revenueByRange(b + 1, c)) = Revenue(InRange(b + 1, c))
  BY RangeAddsUp
<1>2. InRange(a, c) = InRange(a, b) \cup InRange(b + 1, c) /\ InRange(a, b) \cap InRange(b + 1, c) = {}
  <2>1. \A o \in Delivered : sale[o].createdAt \in Nat
    BY OrdersReported
  <2>2. \A d \in Int : RangeEnd(d) = 2 * d + 2 /\ MidnightOf(d) = 2 * d
    BY DEF RangeEnd, MidnightOf
  <2> QED
    BY <2>1, <2>2 DEF InRange
<1>3. IsFiniteSet(InRange(a, b)) /\ IsFiniteSet(InRange(b + 1, c))
  <2>1. InRange(a, b) \subseteq Delivered /\ InRange(b + 1, c) \subseteq Delivered
    BY DEF InRange
  <2> QED
    BY <2>1, OrdersReported, FS_Subset
<1>4. \A o \in InRange(a, b) \cup InRange(b + 1, c) : o \in SalesOrders /\ Totals[o] \in Int
  BY OrdersReported DEF InRange
<1>5. SumOver(Totals, InRange(a, c)) = SumOver(Totals, InRange(a, b)) + SumOver(Totals, InRange(b + 1, c))
  BY <1>2, <1>3, <1>4, SumOfTwo
<1>6. InRange(a, c) \subseteq SalesOrders /\ InRange(a, b) \subseteq SalesOrders /\ InRange(b + 1, c) \subseteq SalesOrders
  BY <1>2, <1>4
<1> QED
  BY <1>1, <1>5, <1>6, SalesAreSums

\* A list that has each row of a finite set of rows once; Seller(p) is what a
\* row says of the product p.
Seller(chosen, p) == [label |-> p, quantitySold |-> Sold({o \in chosen : sale[o].product = p})]
Sellers(chosen) == {Seller(chosen, p) : p \in {sale[o].product : o \in chosen}}

LEMMA SellersAreFew ==
  ASSUME NEW chosen, \A o \in chosen : sale[o].product \in SalesProducts
  PROVE  /\ IsFiniteSet(Sellers(chosen))
         /\ Cardinality(Sellers(chosen)) \in Nat /\ Cardinality(SalesProducts) \in Nat
         /\ Cardinality(Sellers(chosen)) <= Cardinality(SalesProducts)
<1> DEFINE sold == {sale[o].product : o \in chosen}
           f == [p \in sold |-> Seller(chosen, p)]
<1>1. sold \subseteq SalesProducts /\ IsFiniteSet(SalesProducts)
  BY SalesAssumption
<1>2. f \in Surjection(sold, Sellers(chosen))
  BY DEF Surjection, Sellers
<1> HIDE DEF sold, f
<1>3. IsFiniteSet(sold) /\ Cardinality(sold) <= Cardinality(SalesProducts)
  BY <1>1, FS_Subset
<1>4. IsFiniteSet(Sellers(chosen)) /\ Cardinality(Sellers(chosen)) <= Cardinality(sold)
  BY <1>2, <1>3, FS_Surjection
<1>5. Cardinality(Sellers(chosen)) \in Nat /\ Cardinality(sold) \in Nat /\ Cardinality(SalesProducts) \in Nat
  BY <1>1, <1>3, <1>4, FS_CardinalityType
<1> QED
  BY <1>3, <1>4, <1>5

LEMMA EachRowOnce ==
  ASSUME NEW R, IsFiniteSet(R), NEW s \in SetToSeqs(R)
  PROVE  /\ Cardinality(R) \in Nat /\ s \in Seq(R) /\ Len(s) = Cardinality(R) /\ DOMAIN s = 1..Cardinality(R)
         /\ \A i, j \in DOMAIN s : s[i] = s[j] => i = j
         /\ \A r \in R : \E i \in DOMAIN s : s[i] = r
<1> DEFINE n == Cardinality(R)
<1>1. n \in Nat
  BY FS_CardinalityType
<1>2. s \in [1..n -> R] /\ \A i, j \in 1..n : i # j => s[i] # s[j]
  BY DEF SetToSeqs
<1> HIDE DEF n
<1>3. s \in Injection(1..n, R)
  BY <1>2 DEF Injection, IsInjective
<1>4. Cardinality(1..n) = n
  BY <1>1, FS_Interval
<1>5. s \in Surjection(1..n, R)
  BY <1>3, <1>4, FS_Injection DEF n
<1>6. s \in Seq(R) /\ Len(s) = n /\ DOMAIN s = 1..n
  BY <1>1, <1>2
<1> QED
  BY <1>1, <1>2, <1>5, <1>6 DEF n, Surjection

\* However it is sorted, the list of the sellers has all pieces.
LEMMA PiecesAddUp ==
  ASSUME SalesInv, NEW chosen \in SUBSET Delivered, NEW s \in SetToSeqs(Sellers(chosen))
  PROVE  TotalPieces(s) = Sold(chosen)
<1> DEFINE T == DOMAIN s
           v == [i \in T |-> s[i].quantitySold]
           k == [o \in chosen |-> CHOOSE i \in T : s[i].label = sale[o].product]
<1>1. \A o \in chosen : sale[o].product \in SalesProducts
  BY OrdersReported
<1>2. /\ Cardinality(Sellers(chosen)) \in Nat /\ T = 1..Cardinality(Sellers(chosen))
      /\ s \in [T -> Sellers(chosen)]
      /\ \A i, j \in T : s[i] = s[j] => i = j
      /\ \A r \in Sellers(chosen) : \E i \in T : s[i] = r
  <2>1. IsFiniteSet(Sellers(chosen))
    BY <1>1, SellersAreFew
  <2>2. /\ Cardinality(Sellers(chosen)) \in Nat /\ s \in Seq(Sellers(chosen))
        /\ DOMAIN s = 1..Cardinality(Sellers(chosen)) /\ Len(s) = Cardinality(Sellers(chosen))
        /\ \A i, j \in DOMAIN s : s[i] = s[j] => i = j
        /\ \A r \in Sellers(chosen) : \E i \in DOMAIN s : s[i] = r
    BY <2>1, EachRowOnce
  <2> QED
    BY <2>2
<1>3. ASSUME NEW i \in T
      PROVE  s[i] = Seller(chosen, s[i].label)
             /\ s[i].quantitySold = Sold({o \in chosen : sale[o].product = s[i].label})
  <2>1. PICK p : s[i] = Seller(chosen, p)
    BY <1>2 DEF Sellers
  <2> QED
    BY <2>1 DEF Seller
<1>4. ASSUME NEW o \in chosen PROVE k[o] \in T /\ s[k[o]].label = sale[o].product
  <2>1. Seller(chosen, sale[o].product) \in Sellers(chosen)
    BY DEF Sellers
  <2>2. PICK i \in T : s[i] = Seller(chosen, sale[o].product)
    BY <1>2, <2>1
  <2>3. s[i].label = sale[o].product
    BY <2>2 DEF Seller
  <2> HIDE DEF T
  <2> QED
    BY <2>3
<1>5. ASSUME NEW i \in T PROVE {o \in chosen : k[o] = i} = {o \in chosen : sale[o].product = s[i].label}
  <2>1. ASSUME NEW o \in chosen, sale[o].product = s[i].label PROVE k[o] = i
    <3> HIDE DEF T, k
    <3>1. s[k[o]].label = s[i].label /\ k[o] \in T
      BY <1>4, <2>1
    <3>2. s[k[o]] = s[i]
      BY <1>3, <3>1
    <3> QED
      BY <1>2, <3>1, <3>2
  <2> HIDE DEF T, k
  <2> QED
    BY <1>4, <2>1
<1>6. SumsByKey(v, T, Quantities, chosen, k)
  <2> SUFFICES ASSUME NEW i \in T PROVE v[i] = SumOver(Quantities, {o \in chosen : k[o] = i})
    BY DEF SumsByKey
  <2>1. v[i] = Sold({o \in chosen : sale[o].product = s[i].label})
    BY <1>3
  <2>2. {o \in chosen : sale[o].product = s[i].label} \in SUBSET SalesOrders
    BY OrdersReported
  <2> HIDE DEF v, k, T
  <2> QED
    BY <1>5, <2>1, <2>2, SalesAreSums
<1>7. IsFiniteSet(chosen) /\ (\A o \in chosen : Quantities[o] \in Int) /\ chosen \in SUBSET SalesOrders
  BY OrdersReported, FS_Subset
<1>8. IsFiniteSet(T)
  BY <1>2, FS_Interval
<1>9. TotalPieces(s) = SumOver(v, T)
  BY ReportsAreSums
<1> HIDE DEF T, v, k
<1>10. SumOver(v, T) = SumOver(Quantities, chosen)
  BY <1>4, <1>6, <1>7, <1>8, SumByKey
<1> QED
  BY <1>7, <1>9, <1>10, SalesAreSums

LEMMA WholeList ==
  ASSUME NEW R, NEW s \in Seq(R), NEW limit \in Nat, Len(s) <= limit
  PROVE  SubSeq(s, 1, Min({limit, Len(s)})) = s
<1>1. Len(s) \in Nat
  OBVIOUS
<1>2. Min({limit, Len(s)}) = Len(s)
  BY <1>1 DEF Min
<1>3. SubSeq(s, 1, Len(s)) = s
  OBVIOUS
<1> QED
  BY <1>2, <1>3

\* The products sold this year.
LEMMA SellersAgree ==
  ASSUME SalesInv,
         NEW list \in getTopProducts("month", "best", Cardinality(SalesProducts), CurrentYear, Missing, Missing)
  PROVE  TotalPieces(list) = Sold(OfYear(CurrentYear))
<1> DEFINE y == CurrentYear
           start == MidnightOf(FirstDay(January(y)))
           end == MidnightOf(FirstDay(January(y + 1)) + 1) - 1
           chosen == Between(Delivered, start, end)
<1>1. y \in 1..CurrentYear /\ y \in Nat \ {0} /\ y # Missing
  BY MonthsSoFar, SalesAssumption
<1>2. chosen = OfYear(y)
  <2>1. PICK first \in Nat, last \in Nat :
          /\ first = FirstDay(January(y)) /\ last = FirstDay(January(y + 1)) - 1
          /\ InRange(first, last) = OfYear(y)
    BY <1>1, YearIsRange
  <2>2. FirstDay(January(y + 1)) = last + 1
    <3>1. January(y + 1) \in Int
      BY <1>1 DEF January
    <3>2. FirstDay(January(y + 1)) \in Int
      BY <3>1, SalesAssumption DEF FirstDay
    <3> QED
      BY <2>1, <3>2
  <2>3. start = 2 * first /\ end = 2 * (last + 2) - 1 /\ RangeEnd(last) = 2 * (last + 1) /\ MidnightOf(first) = 2 * first
    BY <2>1, <2>2 DEF MidnightOf, RangeEnd
  <2>4. ASSUME NEW o \in Delivered PROVE sale[o].createdAt \in Nat /\ sale[o].createdAt < 2 * (last + 1)
    <3>1. PICK t \in Nat : t = sale[o].createdAt
      BY OrdersReported
    <3>2. Month(t) \in Nat /\ Month(t) <= Month(now) /\ Month(now) \in Nat
      BY <3>1, MonthsSoFar
    <3>3. Month(t) < January(y + 1)
      BY <3>2 DEF CurrentYear, YearOf, January
    <3>4. January(y + 1) \in Int
      BY <1>1 DEF January
    <3>5. MidnightOf(last + 1) <= t <=> January(y + 1) <= Month(t)
      BY <2>2, <3>4, MonthBegins
    <3> QED
      BY <3>1, <3>2, <3>3, <3>4, <3>5 DEF MidnightOf
  <2> HIDE DEF start, end
  <2>5. \A o \in Delivered : start <= sale[o].createdAt /\ sale[o].createdAt <= end
                               <=> MidnightOf(first) <= sale[o].createdAt /\ sale[o].createdAt < RangeEnd(last)
    BY <2>3, <2>4
  <2> QED
    BY <2>1, <2>5 DEF Between, InRange
<1>3. getTopProducts("month", "best", Cardinality(SalesProducts), y, Missing, Missing)
        \subseteq {SubSeq(s, 1, Min({Cardinality(SalesProducts), Len(s)})) : s \in SetToSeqs(Sellers(chosen))}
  <2> DEFINE period == TopPeriod("month", y, Missing, Missing)
             Best(a, b) == a.quantitySold >= b.quantitySold
  <2>1. period[1] = start /\ period[2] = end
    BY DEF TopPeriod
  <2> HIDE DEF y, start, end
  <2>2. getTopProducts("month", "best", Cardinality(SalesProducts), y, Missing, Missing)
          = {SubSeq(s, 1, Min({Cardinality(SalesProducts), Len(s)})) :
               s \in {t \in SetToSeqs(Sellers(Between(Delivered, period[1], period[2]))) :
                        \A i, j \in DOMAIN t : i < j => Best(t[i], t[j])}}
    BY <1>1 DEF getTopProducts, Sellers, Seller
  <2> HIDE DEF period
  <2> QED
    BY <2>1, <2>2
<1> HIDE DEF chosen, start, end
<1>4. PICK s \in SetToSeqs(Sellers(chosen)) : list = SubSeq(s, 1, Min({Cardinality(SalesProducts), Len(s)}))
  BY <1>3
<1>5. chosen \in SUBSET Delivered
  BY <1>2 DEF OfYear
<1>6. \A o \in chosen : sale[o].product \in SalesProducts
  BY <1>5, OrdersReported
<1>7. /\ IsFiniteSet(Sellers(chosen)) /\ Cardinality(SalesProducts) \in Nat
      /\ Cardinality(Sellers(chosen)) <= Cardinality(SalesProducts)
  BY <1>6, SellersAreFew
<1>8. s \in Seq(Sellers(chosen)) /\ Len(s) = Cardinality(Sellers(chosen))
  BY <1>7, EachRowOnce
<1>9. list = s
  BY <1>4, <1>7, <1>8, WholeList
<1> QED
  BY <1>2, <1>5, <1>9, PiecesAddUp

THEOREM SalesTypes == SalesSpec => []SalesTypeOK
<1>1. SalesInv => SalesTypeOK
  BY DEF SalesInv
<1> QED
  BY <1>1, SalesInvariant, PTL

\* At every date the reports of all kinds add up to each other, be there orders
\* or none.
THEOREM ReportsTellOneStory == SalesSpec => [](OneStory /\ ReportsAgree)
<1>1. ASSUME SalesInv PROVE OneStory
  <2>1. \A a, b, c \in Days : a <= b /\ b < c =>
          TotalRevenue(revenueByRange(a, c)) = TotalRevenue(revenueByRange(a, b)) + TotalRevenue(revenueByRange(b + 1, c))
    <3>1. Days \subseteq Nat
      BY SalesAssumption, DayBegins, 0 \in Int DEF Days
    <3> QED
      BY <1>1, <3>1, RangesAgree
  <2>2. {o \in Delivered : YearOf(Month(sale[o].createdAt)) = CurrentYear} = OfYear(CurrentYear)
    BY DEF OfYear
  <2> QED
    BY <1>1, <2>1, <2>2, YearsAgree, DashboardAgrees, SellersAgree, Zenon DEF OneStory
<1>2. OneStory => ReportsAgree
  BY DEF ReportsAgree
<1> QED
  BY <1>1, <1>2, SalesInvariant, PTL
=============================================================================
