----------------------------- MODULE OrderCodes -----------------------------
(***************************************************************************)
(* The text of a transfer (src/utils/helpers/common.helper.ts): it names   *)
(* the order to be paid by its customer and its random code, which are     *)
(* written next to each other.  Texts are sequences of characters.         *)
(***************************************************************************)
EXTENDS Integers, Sequences

CONSTANTS
    Chars, Digits,
    Prefix,         \* "FS"
    Dates,          \* the timestamps that are dates, with all their digits
    TimeLength,     \* 14
    CodeLength      \* 6

OrderCodesAssumption ==
    /\ "0" \in Digits /\ Digits \subseteq Chars
    /\ Prefix \in Seq(Chars)
    /\ TimeLength \in Nat \ {0} /\ CodeLength \in Nat \ {0}
    /\ Dates \subseteq [1..TimeLength -> Digits]

\* Numbers as toString() writes them, and random codes.
Numerals == {n \in Seq(Digits) : n # <<>> /\ n[1] # "0"}
RandomCodes == {c \in Seq(Chars) : Len(c) = CodeLength}

generateOrderCode(userId, createdAt, code) == Prefix \o createdAt \o userId \o code

\* String.prototype.slice: a negative index counts from the end.
Index(s, i) == IF i < 0 THEN IF Len(s) + i < 0 THEN 0 ELSE Len(s) + i
               ELSE IF i > Len(s) THEN Len(s) ELSE i
Slice(s, from, to) == SubSeq(s, Index(s, from) + 1, Index(s, to))

\* parseInt, with <<>> for 0 and for NaN: the digits at the beginning, from
\* the first that is not 0.
DigitsEnd(s) == CHOOSE n \in 0..Len(s) :
    /\ \A i \in 1..n : s[i] \in Digits
    /\ n = Len(s) \/ s[n + 1] \notin Digits
ZerosEnd(s) == CHOOSE n \in 0..Len(s) :
    /\ \A i \in 1..n : s[i] = "0"
    /\ n = Len(s) \/ s[n + 1] # "0"
parseInt(s) == SubSeq(s, ZerosEnd(s) + 1, DigitsEnd(s))

\* Mutant: the number goes on as long as there are digits.
SplitAt_Digits(remaining) == DigitsEnd(remaining)

\* Where the number ends: the code has the last characters.
SplitAt(remaining) == Len(remaining) - CodeLength

Refused == [userId |-> <<>>, code |-> <<>>]

\* The customer and the code, when the text begins like an order's and holds
\* a date (else the call throws) and both are there (else it is only logged).
decodeOrderCode(text) ==
    LET start == Len(Prefix) + TimeLength
        remaining == Slice(text, start, Len(text))
        userId == parseInt(Slice(remaining, 0, SplitAt(remaining)))
        code == Slice(remaining, SplitAt(remaining), Len(remaining))
    IN IF /\ Slice(text, 0, Len(Prefix)) = Prefix
          /\ Slice(text, Len(Prefix), start) \in Dates
          /\ userId # <<>> /\ code # <<>>
       THEN [userId |-> userId, code |-> code]
       ELSE Refused
=============================================================================
