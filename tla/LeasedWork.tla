----------------------------- MODULE LeasedWork -----------------------------
(***************************************************************************)
(* What the platform promises of a piece of background work, whatever its  *)
(* workers do: it is given to one holder at a time, under a new grant each *)
(* time, and is answered at most once, under its newest grant; answered    *)
(* work is never given out again.  Work that was closed without an answer  *)
(* may be opened again.                                                    *)
(***************************************************************************)
EXTENDS Naturals

CONSTANT Item

VARIABLES state, grant, answers
vars == <<state, grant, answers>>

State == {"absent", "open", "held", "answered", "closed"}

Init ==
    /\ state \in [Item -> {"absent", "open"}]
    /\ grant = [i \in Item |-> 0]
    /\ answers = [i \in Item |-> {}]

Moves(i, from, to) == state[i] \in from /\ state'[i] = to
Keeps(i) == grant'[i] = grant[i] /\ answers'[i] = answers[i]

Stay(i)     == state'[i] = state[i] /\ Keeps(i)
Create(i)   == Moves(i, {"absent"}, "open") /\ Keeps(i)
TakeBack(i) == Moves(i, {"held"}, "open") /\ Keeps(i)
Close(i)    == Moves(i, {"open", "held"}, "closed") /\ Keeps(i)
Reopen(i)   == Moves(i, {"closed"}, "open") /\ Keeps(i)

\* The holder may have been lost: a new grant makes the old one void.
Give(i) ==
    /\ Moves(i, {"open", "held"}, "held")
    /\ grant'[i] = grant[i] + 1 /\ answers'[i] = answers[i]

Answer(i) ==
    /\ Moves(i, {"held"}, "answered")
    /\ answers'[i] = answers[i] \cup {grant[i]} /\ grant'[i] = grant[i]

\* One command may move several items, each by a step of its own.
Next == \A i \in Item :
    Stay(i) \/ Create(i) \/ Give(i) \/ TakeBack(i) \/ Answer(i) \/ Close(i) \/ Reopen(i)

Spec == Init /\ [][Next]_vars
=============================================================================
