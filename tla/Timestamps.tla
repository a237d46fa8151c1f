------------------------------ MODULE Timestamps ------------------------------
(***************************************************************************)
(* The stamps by which a conversation's queue is ordered.  The Store keeps *)
(* an instant as text: RFC3339Nano in UTC, which drops the zeros at the    *)
(* end of the fraction, and the point with the last of them.  The column   *)
(* is TEXT, so SQLite compares two stamps character by character.          *)
(*                                                                         *)
(* Only the seconds of one digit and the fraction vary here; what precedes *)
(* them in the text is of fixed width.                                     *)
(***************************************************************************)
EXTENDS Naturals, SequencesExt

CONSTANTS Base,       \* digits 0 .. Base - 1
          Places,     \* digits of a fraction, 9 in the code
          MaxRows     \* bound on the turns accepted

VARIABLES now,        \* the clock, in units of the last place
          rows        \* the instants at which turns were accepted

\* Characters by their order in ASCII: the point, the digits, then Z.
Point    == 0
Digit(d) == d + 1
Zulu     == Base + 1

Trimmed(digits) ==
    SubSeq(digits, 1, Max({0} \cup {i \in DOMAIN digits : digits[i] # 0}))

formatTime(n) ==
    LET fraction == Trimmed([i \in 1 .. Places |-> (n \div Base^(Places - i)) % Base])
        digits   == [i \in DOMAIN fraction |-> Digit(fraction[i])]
    IN  <<Digit(n \div Base^Places)>>
            \o (IF digits = <<>> THEN <<>> ELSE <<Point>> \o digits)
            \o <<Zulu>>

TextBefore(s, t) ==
    \/ IsStrictPrefix(s, t)
    \/ \E i \in DOMAIN s \cap DOMAIN t :
        s[i] < t[i] /\ \A j \in 1 .. i - 1 : s[j] = t[j]

Init == now = 0 /\ rows = <<>>

Accept ==
    /\ Len(rows) < MaxRows
    /\ \E n \in now + 1 .. Base^(Places + 1) - 1 : now' = n
    /\ rows' = Append(rows, now')

Next == Accept

Spec == Init /\ [][Next]_<<now, rows>>

\* ClaimRunnableAgentTurns says that it starts only the oldest accepted write
\* of a conversation: of two turns, the one accepted earlier sorts first.
OldestSortsFirst ==
    \A i, j \in DOMAIN rows : i < j =>
        TextBefore(formatTime(rows[i]), formatTime(rows[j]))
=============================================================================
