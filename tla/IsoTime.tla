------------------------------- MODULE IsoTime -------------------------------
(***************************************************************************)
(* The ISO-8601 UTC texts of Phase 6 and the three ways the code judges    *)
(* them: the shared guard (shared/isoUtcTimestamp.ts), the temporal        *)
(* contract's round trip through Date (temporalContract/evaluate.ts) and   *)
(* the comparison without Date (compareIsoUtc and its two copies).         *)
(*                                                                         *)
(* A text is the six numbers of its date and time and the digits of its    *)
(* fraction; a text that does not have the pinned shape has no numbers.    *)
(***************************************************************************)
EXTENDS Integers, SequencesExt

\* The texts a caller may present.
CONSTANT Texts

VARIABLES presented   \* the texts presented so far, at most two

----------------------------------------------------------------------------
(***************************************************************************)
(* The shared guard.                                                       *)
(***************************************************************************)
Year(t)   == t.base[1]
Month(t)  == t.base[2]
Day(t)    == t.base[3]
Hour(t)   == t.base[4]
Minute(t) == t.base[5]
Second(t) == t.base[6]

Shaped(t) == Len(t.base) = 6 /\ Len(t.fraction) <= 3

isGregorianLeapYear(year) == (year % 4 = 0 /\ year % 100 # 0) \/ year % 400 = 0

daysInMonth(year, month) ==
    CASE month \in {1, 3, 5, 7, 8, 10, 12} -> 31
      [] month \in {4, 6, 9, 11} -> 30
      [] month = 2 -> IF isGregorianLeapYear(year) THEN 29 ELSE 28
      [] OTHER -> 0

isIsoUtcTimestamp(t) ==
    /\ Shaped(t)
    /\ Month(t) \in 1 .. 12
    /\ Day(t) \in 1 .. daysInMonth(Year(t), Month(t))
    /\ Hour(t) <= 23
    /\ Minute(t) <= 59
    /\ Second(t) <= 59

----------------------------------------------------------------------------
(***************************************************************************)
(* Date, as the ECMAScript definition computes it.                         *)
(***************************************************************************)
DayFromYear(y) ==
    365 * (y - 1970) + (y - 1969) \div 4 - (y - 1901) \div 100 + (y - 1601) \div 400

MonthLengths(y) ==
    <<31, DayFromYear(y + 1) - DayFromYear(y) - 337, 31, 30, 31, 30, 31, 31, 30, 31, 30, 31>>

DaysBefore(y, m) == FoldSeq(+, DayFromYear(y), SubSeq(MonthLengths(y), 1, m - 1))

Padded(t) == [i \in 1 .. 3 |-> IF i <= Len(t.fraction) THEN t.fraction[i] ELSE 0]

Milliseconds(t) == 100 * Padded(t)[1] + 10 * Padded(t)[2] + Padded(t)[3]

\* The instant a text denotes: the day of the epoch and the millisecond of
\* the day.
Instant(t) ==
    <<DaysBefore(Year(t), Month(t)) + Day(t) - 1,
      ((Hour(t) * 60 + Minute(t)) * 60 + Second(t)) * 1000 + Milliseconds(t)>>

\* Date.parse accepts day 31 of every month and the hour 24:00:00, and
\* carries them over.
Parses(t) ==
    /\ Month(t) \in 1 .. 12 /\ Day(t) \in 1 .. 31
    /\ \/ Hour(t) \in 0 .. 23 /\ Minute(t) \in 0 .. 59 /\ Second(t) \in 0 .. 59
       \/ Hour(t) = 24 /\ Minute(t) = 0 /\ Second(t) = 0 /\ Milliseconds(t) = 0

\* The text Date#toISOString gives back: one carry at most.
Reprinted(t) ==
    LET over == Day(t) > MonthLengths(Year(t))[Month(t)] IN
    [base |-> IF Hour(t) = 24 THEN <<"next day">>
              ELSE IF over THEN <<"next month">> ELSE t.base,
     fraction |-> Padded(t)]

isCanonicalInstant(t) ==
    /\ Shaped(t) /\ Len(t.fraction) = 3
    /\ Parses(t)
    /\ Len(Reprinted(t).base) = 6

----------------------------------------------------------------------------
(***************************************************************************)
(* Comparison by text: the fixed-width base first, then the fraction       *)
(* padded on the right.                                                    *)
(***************************************************************************)
TextLess(a, b) ==
    \E i \in 1 .. Len(a) : a[i] < b[i] /\ \A j \in 1 .. (i - 1) : a[j] = b[j]

\* Mutant: the fractions compared as numbers, without the padding.
compareIsoUtcUnpadded(a, b) ==
    LET value(t) == CASE Len(t.fraction) = 0 -> 0
                      [] Len(t.fraction) = 1 -> t.fraction[1]
                      [] Len(t.fraction) = 2 -> 10 * t.fraction[1] + t.fraction[2]
                      [] OTHER -> Milliseconds(t)
    IN IF a.base # b.base THEN IF TextLess(a.base, b.base) THEN -1 ELSE 1
       ELSE IF value(a) = value(b) THEN 0 ELSE IF value(a) < value(b) THEN -1 ELSE 1

compareIsoUtc(a, b) ==
    IF a.base # b.base THEN IF TextLess(a.base, b.base) THEN -1 ELSE 1
    ELSE IF Padded(a) = Padded(b) THEN 0
    ELSE IF TextLess(Padded(a), Padded(b)) THEN -1 ELSE 1

----------------------------------------------------------------------------
Init == presented = <<>>

\* A caller presents a text to a guard, and a second one to compare with it.
Present(t) ==
    /\ Len(presented) < 2
    /\ presented' = Append(presented, t)

Next == \E t \in Texts : Present(t)

Spec == Init /\ [][Next]_presented

----------------------------------------------------------------------------
(***************************************************************************)
(* The shared guard and the temporal contract's round trip accept the same *)
(* dates: a text with three fraction digits passes isIsoUtcTimestamp       *)
(* exactly when Date reparses it to itself.                                *)
(***************************************************************************)
CalendarsAgree ==
    \A i \in 1 .. Len(presented) :
        LET t == presented[i] IN
        (Shaped(t) /\ Len(t.fraction) = 3) => (isIsoUtcTimestamp(t) <=> isCanonicalInstant(t))

(***************************************************************************)
(* The comparison without Date orders any two accepted texts, whatever the *)
(* precision of each, as the instants they denote (compareIsoUtc).         *)
(***************************************************************************)
TextOrderIsTimeOrder ==
    (Len(presented) = 2 /\ isIsoUtcTimestamp(presented[1]) /\ isIsoUtcTimestamp(presented[2])) =>
        LET a == Instant(presented[1])
            b == Instant(presented[2])
            c == compareIsoUtc(presented[1], presented[2])
        IN /\ c = -1 <=> (a[1] < b[1] \/ (a[1] = b[1] /\ a[2] < b[2]))
           /\ c = 0 <=> a = b
=============================================================================
