------------------------- MODULE WorkflowRunProofs -------------------------
(* What theorems about WorkflowRun rest on, for any numbers of items and   *)
(* workers, any lengths of the leases and of the grace, any retries and    *)
(* any bound: one invariant, Good, of what a row says of its attempt and   *)
(* what the run, its step and the rows say of each other; and what the     *)
(* operators of the model make of a row and of the tables.                 *)
EXTENDS WorkflowRun, WellFoundedInduction, TLAPS

-----------------------------------------------------------------------------
(* The inductive invariant.                                                *)

Live  == {"running", "result_received", "repair_pending"} \cup Parked
Tables == [run : RunStatus, step : StepStatus, item : [Items -> Row]]

\* An item that has not been begun, or is to begin anew.
Clean(x) == ~x.acted /\ x.saved = "none"
\* A row: its item and its attempt are at the same point, a response is kept
\* by an attempt that received it only, and what is to begin anew is clean.
RowAgrees(x) ==
    /\ x.attempt \in Live => x.current
    /\ x.status = "running" => x.attempt \in {"running", "result_received"}
    /\ x.status \in {"repair_pending", "succeeded"} => x.attempt = x.status
    /\ x.status = "waiting_approval" => x.current /\ x.attempt = "waiting_approval"
    /\ x.status = "paused" /\ x.current => x.attempt \in {"paused", "result_received"}
    /\ x.status \in {"failed", "cancelled"} => x.attempt \notin Live
    /\ x.status = "pending" => ~x.current
    /\ x.attempt = "result_received" => x.status \in {"running", "paused"}
RowKeeps(x) ==
    /\ x.attempt \in {"running"} \cup Parked => x.out = "none" /\ x.repair \in {"none", "claimed"}
    /\ x.attempt \in {"expired", "abandoned"} => x.out = "none" /\ x.repair = "none"
RowRepeats(x) ==
    /\ ~x.before
    /\ x.status = "pending" \/ (x.status = "paused" /\ ~x.current) => Clean(x)
RowHeld(x) ==
    /\ x.status = "running" => x.token = x.grant /\ x.grant # 0
    /\ x.by # 0 => x.status = "succeeded"
RowOK(x) == RowAgrees(x) /\ RowKeeps(x) /\ RowRepeats(x) /\ RowHeld(x)
Rows(d)  == \A i \in Items : RowOK(d.item[i])

\* The run goes on: nothing of it is cancelled, and what was paused while it
\* goes on has its attempt.
Underway(d) ==
    /\ Going(d)
    /\ \A i \in Items : /\ d.item[i].status # "cancelled"
                        /\ d.item[i].status = "paused" => d.item[i].current
Unfinished(d) == \E i \in Items : d.item[i].status \in Unsettled

\* The run, the step and the items agree.
Agree(d) ==
    /\ d.run \in {"running", "pausing"} => Underway(d) /\ Unfinished(d)
    /\ d.run = "paused" => /\ d.step \in {"paused", "waiting_approval"}
                           /\ \A i \in Items : d.item[i].status # "running"
                           /\ d.step = "paused" => Unfinished(d)
    /\ d.run = "waiting_approval" => d.step = "waiting_approval"
    /\ d.step \in {"waiting_approval", "completed"} =>
           \A i \in Items : d.item[i].status = "succeeded"
    /\ d.run = "failed" =>
           /\ d.step = "failed"
           /\ \A i \in Items : d.item[i].status = "paused" => d.item[i].current
    /\ d.run = "cancelled" => \A i \in Items : d.item[i].status \in {"succeeded", "cancelled"}
                                               /\ d.item[i].call \notin Open
    /\ \A i \in Items : d.item[i].status = "cancelled" => d.run = "cancelled"

\* A worker that has an item has one of the step's.
Assigned == \A w \in Worker : worker[w].pc \notin {"idle", "claiming"} => worker[w].item \in Items

Good == TypeOK /\ Rows(db) /\ Agree(db) /\ Assigned

-----------------------------------------------------------------------------
(* What the operators make of a row.                                       *)

\* What a command that gives nothing out and commits nothing may make of the
\* status of an item it does not reopen.
Eases(s, t) ==
    \/ t = s
    \/ s \in Unsettled /\ t \in Unsettled \ {"running"}
    \/ s \in Unsettled \cup {"failed", "cancelled"} /\ t \in {"failed", "cancelled"}
Eased(x, y) == y.grant = x.grant /\ y.by = x.by /\ Eases(x.status, y.status)

USE DEF Parked, Unsettled, Open, Live

\* The fields that RowOK reads, besides the attempt's status.
SameRow(x, y) ==
    /\ y.status = x.status /\ y.current = x.current /\ y.grant = x.grant /\ y.token = x.token
    /\ y.out = x.out /\ y.repair = x.repair /\ y.saved = x.saved /\ y.acted = x.acted
    /\ y.before = x.before /\ y.by = x.by

LEMMA CloseRow ==
    ASSUME NEW x \in Row
    PROVE  /\ CloseCall(x) \in Row /\ SameRow(x, CloseCall(x))
           /\ CloseCall(x).attempt = x.attempt
           /\ CloseCall(x).call \notin Open
           /\ RowOK(x) => RowOK(CloseCall(x))
<1>1. CASE x.call \in Open
  BY <1>1 DEF CloseCall, Row, SameRow, RowOK, RowAgrees, RowKeeps, RowRepeats, RowHeld, Clean
<1>2. CASE x.call \notin Open
  BY <1>2 DEF CloseCall, SameRow
<1>. QED
  BY <1>1, <1>2

\* The provers take the record better without the numeral.
Zero == 0

LEMMA LoseRow ==
    ASSUME NEW x \in Row, NEW a \in {"failed", "expired", "abandoned", "cancelled"}
    PROVE  /\ Lose(x, a) \in Row /\ SameRow(x, Lose(x, a))
           /\ Lose(x, a).attempt = a
           /\ Lose(x, a).call \notin Open
<1>. DEFINE y == CloseCall(x)
            z == [y EXCEPT !.attempt = a, !.lease = Zero]
<1>1. y \in Row /\ SameRow(x, y) /\ y.call \notin Open
  BY CloseRow
<1>2. Lose(x, a) = z
  BY DEF Lose, Zero
<1>3. a \in AttemptStatus /\ Zero \in Int
  BY DEF AttemptStatus, Zero
<1>. HIDE DEF y
<1>4. /\ z \in Row /\ z.attempt = a /\ z.call = y.call /\ SameRow(y, z)
  BY <1>1, <1>3 DEF Row, SameRow
<1>. HIDE DEF z
<1>. QED
  BY <1>1, <1>2, <1>4 DEF SameRow

LEMMA DetachRow ==
    ASSUME NEW x \in Row, NEW s \in ItemStatus
    PROVE  /\ Detach(x, s) \in Row
           /\ Detach(x, s).status = s /\ Detach(x, s).current = FALSE
           /\ Detach(x, s).attempt = x.attempt /\ Detach(x, s).call = x.call
           /\ Detach(x, s).grant = x.grant /\ Detach(x, s).token = x.token
           /\ Detach(x, s).out = x.out /\ Detach(x, s).repair = x.repair
           /\ Detach(x, s).saved = x.saved /\ Detach(x, s).acted = x.acted
           /\ Detach(x, s).before = x.before /\ Detach(x, s).by = x.by
BY DEF Detach, Row

LEMMA UnrepairableRow ==
    ASSUME NEW x \in Row, RowOK(x), x.status = "running"
    PROVE  LET y == Unrepairable(x)
           IN /\ y \in Row /\ RowOK(y)
              /\ y.status = "failed" /\ y.attempt = "failed" /\ y.repair = "terminal"
              /\ y.grant = x.grant /\ y.by = x.by
<1>. DEFINE y == [x EXCEPT !.attempt = "failed", !.status = "failed", !.again = TRUE,
                           !.repair = "terminal", !.lease = Zero, !.grace = Zero]
<1>1. Unrepairable(x) = y
  BY DEF Unrepairable, Zero
<1>2. Zero \in Int
  BY DEF Zero
<1>3. /\ y \in Row /\ y.status = "failed" /\ y.repair = "terminal" /\ y.attempt = "failed"
      /\ y.grant = x.grant /\ y.by = x.by /\ y.before = x.before
  BY <1>2 DEF Row, ItemStatus, AttemptStatus
<1>. HIDE DEF y
<1>4. RowOK(y)
  BY <1>3 DEF RowOK, RowAgrees, RowKeeps, RowRepeats, RowHeld, Clean
<1>. QED
  BY <1>1, <1>3, <1>4

\* What an expiry makes of a row: a failure that fails the step, one that
\* does not, or an item to be given out again.
LEMMA ExpireRow ==
    ASSUME NEW x \in Row, RowOK(x), x.attempt = "running", x.current, x.status = "running"
    PROVE  LET y == Expire(x)
           IN /\ y \in Row /\ RowOK(y) /\ Eased(x, y)
              /\ y.status \in {"failed", "pending", "repair_pending"}
              /\ y.attempt # "running"
              /\ y.status = "failed" <=> (x.repair # "claimed" /\ Risk(x)) \/ y.repair = "terminal"
<1>. DEFINE y == Expire(x)
<1>0. x.claims \in Nat /\ MaxRepairClaims \in Nat
  BY BoundAssumption DEF Row
<1>1. x.repair \in {"none", "claimed"} /\ x.out = "none" /\ x.by = 0 /\ ~x.before
  BY DEF RowOK, RowKeeps, RowHeld, RowRepeats
<1>2. CASE x.repair = "claimed"
  <2>1. CASE x.claims >= MaxRepairClaims
    <3>1. Expire(x) = Unrepairable(x)
      BY <1>0, <1>2, <2>1 DEF Expire
    <3>. QED
      BY <3>1, UnrepairableRow DEF Eased, Eases
  <2>2. CASE ~(x.claims >= MaxRepairClaims)
    <3>. DEFINE z == [x EXCEPT !.repair = "queued", !.attempt = "repair_pending",
                               !.status = "repair_pending", !.token = Zero, !.lease = Zero]
    <3>1. y = z
      BY <1>0, <1>2, <2>2 DEF Expire, Zero
    <3>2. Zero \in Int /\ Zero \in Nat
      BY DEF Zero
    <3>3. /\ z \in Row /\ z.status = "repair_pending" /\ z.attempt = "repair_pending"
          /\ z.repair = "queued" /\ z.current = x.current /\ z.before = x.before
          /\ z.grant = x.grant /\ z.by = x.by
      BY <3>2 DEF Row, ItemStatus, AttemptStatus
    <3>. HIDE DEF z
    <3>4. RowOK(z)
      BY <1>1, <3>3 DEF RowOK, RowAgrees, RowKeeps, RowRepeats, RowHeld, Clean
    <3>. QED
      BY <1>2, <3>1, <3>3, <3>4 DEF Eased, Eases
  <2>. QED
    BY <2>1, <2>2
<1>3. CASE x.repair = "none"
  <2>. DEFINE s == IF Risk(x) THEN "failed" ELSE "pending"
              z == Detach(x, s)
              l == Lose(z, "expired")
  <2>1. y = l
    BY <1>3 DEF Expire
  <2>2. /\ z \in Row /\ z.status = s /\ z.current = FALSE /\ z.grant = x.grant
        /\ z.out = x.out /\ z.repair = x.repair /\ z.saved = x.saved /\ z.acted = x.acted
        /\ z.before = x.before /\ z.by = x.by
    <3>1. s \in ItemStatus
      BY DEF ItemStatus
    <3>. QED
      BY <3>1, DetachRow
  <2>. HIDE DEF z
  <2>3. l \in Row /\ SameRow(z, l) /\ l.attempt = "expired"
    BY <2>2, LoseRow
  <2>. HIDE DEF l
  <2>4. RowOK(l)
    BY <1>1, <1>3, <2>2, <2>3
    DEF SameRow, RowOK, RowAgrees, RowKeeps, RowRepeats, RowHeld, Clean, Risk
  <2>. QED
    BY <1>3, <2>1, <2>2, <2>3, <2>4 DEF SameRow, Eased, Eases
<1>. QED
  BY <1>1, <1>2, <1>3

\* A pause loses the attempt that runs, which may not have acted, and lets an
\* item keep the result that was received.
LEMMA HaltRow ==
    ASSUME NEW x \in Row, RowOK(x),
           x.attempt = "running" => x.repair # "claimed" /\ ~Risk(x)
    PROVE  LET y == Halt(x)
           IN /\ y \in Row /\ RowOK(y) /\ Eased(x, y)
              /\ y.status # "running" /\ (y.status = "cancelled" => x.status = "cancelled")
              /\ x.status \in Unsettled => y.status \in Unsettled
<1>. DEFINE l == IF x.attempt = "running" THEN Lose(x, "abandoned") ELSE x
            a == IF x.attempt = "running" THEN "abandoned" ELSE x.attempt
            c == x.current /\ x.attempt = "result_received"
<1>1. l \in Row /\ SameRow(x, l) /\ l.attempt = a
  BY LoseRow DEF SameRow
<1>. HIDE DEF l
<1>2. x.attempt = "running" => x.status = "running" /\ x.out = "none" /\ x.repair = "none" /\ Clean(x)
  BY DEF RowOK, RowAgrees, RowKeeps, Risk, Clean, Row, ItemStatus
<1>3. CASE x.status \in {"pending", "running"}
  <2>. DEFINE z == [l EXCEPT !.status = "paused", !.current = c]
  <2>1. Halt(x) = z
    BY <1>1, <1>3 DEF Halt, l, SameRow
  <2>2. c \in BOOLEAN /\ a \in AttemptStatus
    BY <1>1 DEF Row, AttemptStatus
  <2>. HIDE DEF a, c
  <2>3. /\ z \in Row /\ z.status = "paused" /\ z.current = c /\ z.attempt = a
        /\ z.grant = x.grant /\ z.out = x.out /\ z.repair = x.repair /\ z.saved = x.saved
        /\ z.acted = x.acted /\ z.before = x.before /\ z.by = x.by
    <3>1. "paused" \in ItemStatus
      BY DEF ItemStatus
    <3>2. l \in Row
      BY <1>1
    <3>3. z \in Row
      BY <2>2, <3>1, <3>2 DEF Row
    <3>4. /\ z.status = "paused" /\ z.current = c /\ z.attempt = l.attempt
          /\ z.grant = l.grant /\ z.out = l.out /\ z.repair = l.repair /\ z.saved = l.saved
          /\ z.acted = l.acted /\ z.before = l.before /\ z.by = l.by
      BY <3>2 DEF Row
    <3>. QED
      BY <1>1, <3>3, <3>4 DEF SameRow
  <2>. HIDE DEF z
  <2>4. RowOK(z)
    BY <1>2, <1>3, <2>3 DEF a, c, RowOK, RowAgrees, RowKeeps, RowRepeats, RowHeld, Clean
  <2>. QED
    BY <1>3, <2>1, <2>3, <2>4 DEF Eased, Eases
<1>4. CASE x.status \notin {"pending", "running"}
  <2>1. Halt(x) = x
    BY <1>2, <1>4 DEF Halt
  <2>. QED
    BY <1>4, <2>1 DEF Eased, Eases
<1>. QED
  BY <1>3, <1>4

LEMMA WakeRow ==
    ASSUME NEW x \in Row, RowOK(x)
    PROVE  LET y == Wake(x)
           IN /\ y \in Row /\ RowOK(y) /\ Eased(x, y)
              /\ y.status = "paused" => y.current
              /\ y.status = "cancelled" => x.status = "cancelled"
              /\ x.status \in Unsettled => y.status \in Unsettled
<1>1. CASE /\ x.status = "paused" /\ x.current /\ x.attempt = "paused"
           /\ x.call = "pending_approval"
  <2>. DEFINE z == [x EXCEPT !.status = "waiting_approval", !.attempt = "waiting_approval"]
  <2>1. Wake(x) = z
    BY <1>1 DEF Wake
  <2>2. /\ z \in Row /\ z.status = "waiting_approval" /\ z.attempt = "waiting_approval"
        /\ z.current = x.current /\ z.grant = x.grant /\ z.by = x.by /\ z.before = x.before
        /\ z.out = x.out /\ z.repair = x.repair
    BY DEF Row, ItemStatus, AttemptStatus
  <2>. HIDE DEF z
  <2>3. RowOK(z)
    BY <1>1, <2>2 DEF RowOK, RowAgrees, RowKeeps, RowRepeats, RowHeld
  <2>. QED
    BY <1>1, <2>1, <2>2, <2>3 DEF Eased, Eases
<1>2. CASE x.status = "paused" /\ ~x.current
  <2>. DEFINE z == [x EXCEPT !.status = "pending"]
  <2>1. Wake(x) = z
    BY <1>2 DEF Wake
  <2>2. z \in Row /\ z.status = "pending" /\ z.attempt = x.attempt
    BY DEF Row, ItemStatus
  <2>3. RowOK(z)
    BY <1>2, <2>2 DEF RowOK, RowAgrees, RowKeeps, RowRepeats, RowHeld, Clean, Row
  <2>4. z.grant = x.grant /\ z.by = x.by
    BY DEF Row
  <2>. HIDE DEF z
  <2>. QED
    BY <1>2, <2>1, <2>2, <2>3, <2>4 DEF Eased, Eases
<1>3. CASE /\ ~(x.status = "paused" /\ ~x.current)
           /\ ~(/\ x.status = "paused" /\ x.current /\ x.attempt = "paused"
                /\ x.call = "pending_approval")
  <2>1. Wake(x) = x
    BY <1>3 DEF Wake
  <2>. QED
    BY <1>3, <2>1 DEF Eased, Eases
<1>. QED
  BY <1>1, <1>2, <1>3

LEMMA CancelledRowOK ==
    ASSUME NEW x \in Row, RowOK(x)
    PROVE  LET y == CancelledRow(x)
           IN /\ y \in Row /\ RowOK(y) /\ Eased(x, y)
              /\ y.status \in {"succeeded", "cancelled"} /\ y.call \notin Open
              /\ x.status = "succeeded" => y.status = "succeeded"
<1>. DEFINE y == IF x.attempt \in Live THEN Lose(x, "cancelled") ELSE CloseCall(x)
            a == IF x.attempt \in Live THEN "cancelled" ELSE x.attempt
<1>1. y \in Row /\ SameRow(x, y) /\ y.attempt = a /\ y.call \notin Open
  BY LoseRow, CloseRow
<1>2. CASE x.status \in {"succeeded", "cancelled"}
  <2>1. CancelledRow(x) = y
    BY <1>2 DEF CancelledRow
  <2>2. x.attempt \notin Live
    BY <1>2 DEF RowOK, RowAgrees
  <2>3. y = CloseCall(x) /\ RowOK(y)
    BY <2>2, CloseRow
  <2>. QED
    BY <1>1, <1>2, <2>1, <2>3 DEF SameRow, Eased, Eases
<1>3. CASE x.status \notin {"succeeded", "cancelled"}
  <2>. DEFINE z == Detach(y, "cancelled")
  <2>1. CancelledRow(x) = z
    BY <1>3 DEF CancelledRow
  <2>. HIDE DEF y
  <2>2. /\ z \in Row /\ z.status = "cancelled" /\ z.current = FALSE /\ z.attempt = a
        /\ z.call = y.call /\ z.grant = x.grant /\ z.out = x.out /\ z.repair = x.repair
        /\ z.before = x.before /\ z.by = x.by
    <3>1. /\ z \in Row /\ z.status = "cancelled" /\ z.current = FALSE /\ z.attempt = y.attempt
          /\ z.call = y.call /\ z.grant = y.grant /\ z.out = y.out /\ z.repair = y.repair
          /\ z.before = y.before /\ z.by = y.by
      <4>1. "cancelled" \in ItemStatus
        BY DEF ItemStatus
      <4>. QED
        BY <1>1, <4>1, DetachRow
    <3>. HIDE DEF a, z
    <3>. QED
      BY <1>1, <3>1 DEF SameRow
  <2>3. x.status \in Unsettled \cup {"failed", "cancelled"} /\ x.by = 0
    BY <1>3 DEF Row, ItemStatus, RowOK, RowHeld
  <2>. HIDE DEF z
  <2>4. RowOK(z)
    BY <2>2, <2>3 DEF RowOK, RowAgrees, RowKeeps, RowRepeats, RowHeld
  <2>. QED
    BY <1>1, <1>3, <2>1, <2>2, <2>3, <2>4 DEF Eased, Eases
<1>. QED
  BY <1>2, <1>3

\* An item that failed begins anew at the user's retry, and one that was not
\* begun fails with what came before it.
LEMMA ReopenedRow ==
    ASSUME NEW x \in Row, RowOK(x), x.status = "failed", Clean(x)
    PROVE  LET y == [Detach(x, "pending") EXCEPT !.again = FALSE]
           IN y \in Row /\ RowOK(y) /\ y.status = "pending" /\ y.grant = x.grant /\ y.by = x.by
<1>. DEFINE d == Detach(x, "pending")
            y == [d EXCEPT !.again = FALSE]
<1>1. /\ d \in Row /\ d.status = "pending" /\ d.current = FALSE /\ d.attempt = x.attempt
      /\ d.grant = x.grant /\ d.by = x.by /\ d.before = x.before /\ d.out = x.out
      /\ d.repair = x.repair /\ d.acted = x.acted /\ d.saved = x.saved
  BY DetachRow DEF ItemStatus
<1>. HIDE DEF d
<1>2. y \in Row /\ SameRow(d, y) /\ y.attempt = d.attempt
  BY <1>1 DEF Row, SameRow
<1>. HIDE DEF y
<1>3. RowOK(y)
  BY <1>1, <1>2 DEF SameRow, RowOK, RowAgrees, RowKeeps, RowRepeats, RowHeld, Clean
<1>. QED
  BY <1>1, <1>2, <1>3 DEF d, y, SameRow

LEMMA AbandonedRow ==
    ASSUME NEW x \in Row, RowOK(x), x.status = "pending", NEW again \in BOOLEAN
    PROVE  LET y == [x EXCEPT !.status = "failed", !.again = again]
           IN y \in Row /\ RowOK(y) /\ y.status = "failed" /\ Eased(x, y)
<1>. DEFINE y == [x EXCEPT !.status = "failed", !.again = again]
<1>1. /\ y \in Row /\ y.status = "failed" /\ y.current = x.current /\ y.attempt = x.attempt
      /\ y.grant = x.grant /\ y.by = x.by /\ y.before = x.before /\ y.out = x.out
      /\ y.repair = x.repair
  BY DEF Row, ItemStatus
<1>. HIDE DEF y
<1>2. RowOK(y)
  BY <1>1 DEF RowOK, RowAgrees, RowKeeps, RowRepeats, RowHeld
<1>. QED
  BY <1>1, <1>2 DEF y, Eased, Eases

-----------------------------------------------------------------------------
(* What the operators make of the tables.                                  *)

Kept(d, e) == \A i \in Items : Eased(d.item[i], e.item[i])

LEMMA KeptTwice ==
    ASSUME NEW d \in Tables, NEW e \in Tables, NEW f \in Tables, Kept(d, e), Kept(e, f)
    PROVE  Kept(d, f)
BY DEF Kept, Eased, Eases

LEMMA PutItem ==
    ASSUME NEW d \in Tables, NEW i \in Items, NEW x \in Row
    PROVE  LET e == Put(d, i, x)
           IN /\ e \in Tables /\ e.run = d.run /\ e.step = d.step
              /\ e.item[i] = x /\ \A j \in Items : j # i => e.item[j] = d.item[j]
              /\ RowOK(x) /\ Rows(d) => Rows(e)
              /\ Eased(d.item[i], x) => Kept(d, e)
<1>. DEFINE e == Put(d, i, x)
<1>1. e \in Tables /\ e.run = d.run /\ e.step = d.step /\ e.item = [d.item EXCEPT ![i] = x]
  BY DEF Put, Tables
<1>2. e.item[i] = x /\ \A j \in Items : j # i => e.item[j] = d.item[j]
  BY <1>1 DEF Tables
<1>. HIDE DEF e
<1>3. \A j \in Items : Eased(d.item[j], d.item[j])
  BY DEF Eased, Eases
<1>. QED
  BY <1>1, <1>2, <1>3 DEF e, Rows, Kept

\* A step under way whose item i gets the row x.
LEMMA PutUnderway ==
    ASSUME NEW d \in Tables, NEW i \in Items, NEW x \in Row, Underway(d),
           x.status # "cancelled", x.status = "paused" => x.current
    PROVE  Underway(Put(d, i, x))
<1>. DEFINE e == Put(d, i, x)
<1>1. /\ e.run = d.run /\ e.step = d.step /\ e.item[i] = x
      /\ \A j \in Items : j # i => e.item[j] = d.item[j]
  BY PutItem
<1>. HIDE DEF e
<1>2. Underway(e)
  BY <1>1 DEF Underway, Going
<1>. QED
  BY <1>2 DEF e

LEMMA Fails ==
    ASSUME NEW d \in Tables, Rows(d), Underway(d)
    PROVE  LET e == FailStep(d)
           IN e \in Tables /\ Rows(e) /\ Agree(e) /\ Kept(d, e) /\ e.run = "failed"
<1>. DEFINE e == FailStep(d)
<1>1. e.run = "failed" /\ e.step = "failed" /\ e.item = [i \in Items |-> CloseCall(d.item[i])]
  BY DEF FailStep, Underway, Going
<1>2. \A i \in Items : d.item[i] \in Row /\ RowOK(d.item[i])
  BY DEF Tables, Rows
<1>3. \A i \in Items : /\ e.item[i] \in Row /\ RowOK(e.item[i])
                       /\ SameRow(d.item[i], e.item[i])
  BY <1>1, <1>2, CloseRow
<1>4. e \in Tables
  <2>1. e = [run |-> e.run, step |-> e.step, item |-> e.item]
    BY DEF FailStep
  <2>2. e.item \in [Items -> Row]
    BY <1>1, <1>3
  <2>. QED
    BY <1>1, <2>1, <2>2 DEF Tables, RunStatus, StepStatus
<1>5. Kept(d, e)
  BY <1>3 DEF Kept, Eased, Eases, SameRow
<1>. HIDE DEF e
<1>6. Agree(e)
  BY <1>1, <1>3 DEF Agree, Underway, SameRow
<1>. QED
  BY <1>1, <1>3, <1>4, <1>5, <1>6 DEF e, Rows

LEMMA Settles ==
    ASSUME NEW d \in Tables, Rows(d), Underway(d),
           Unfinished(d) \/ \E i \in Items : d.item[i].status = "failed"
    PROVE  LET e == Settle(d)
           IN e \in Tables /\ Rows(e) /\ Agree(e) /\ Kept(d, e) /\ e \in {d, FailStep(d)}
<1>1. Unfinished(d) => Agree(d)
  BY DEF Agree, Underway, Going
<1>2. Kept(d, d)
  BY DEF Kept, Eased, Eases
<1>. QED
  BY <1>1, <1>2, Fails DEF Settle, Unfinished

LEMMA AfterFails ==
    ASSUME NEW d \in Tables, Rows(d), Underway(d), \E i \in Items : d.item[i].status = "failed"
    PROVE  LET e == AfterFailure(d)
           IN e \in Tables /\ Rows(e) /\ Agree(e) /\ Kept(d, e) /\ e \in {d, FailStep(d)}
BY Settles, Fails DEF AfterFailure

LEMMA Pauses ==
    ASSUME NEW d \in Tables, Rows(d), Underway(d), Unfinished(d),
           \A i \in Items : d.item[i].attempt = "running" =>
               d.item[i].repair # "claimed" /\ ~Risk(d.item[i])
    PROVE  LET e == Paused(d) IN e \in Tables /\ Rows(e) /\ Agree(e) /\ Kept(d, e)
<1>. DEFINE e == Paused(d)
<1>1. e.run = "paused" /\ e.step = "paused" /\ e.item = [i \in Items |-> Halt(d.item[i])]
  BY DEF Paused
<1>2. \A i \in Items : d.item[i] \in Row /\ RowOK(d.item[i])
  BY DEF Tables, Rows
<1>3. ASSUME NEW i \in Items
      PROVE  /\ e.item[i] \in Row /\ RowOK(e.item[i]) /\ Eased(d.item[i], e.item[i])
             /\ e.item[i].status \notin {"running", "cancelled"}
             /\ d.item[i].status \in Unsettled => e.item[i].status \in Unsettled
  BY <1>1, <1>2, HaltRow DEF Underway
<1>4. e \in Tables
  <2>1. e = [run |-> e.run, step |-> e.step, item |-> e.item]
    BY DEF Paused
  <2>2. e.item \in [Items -> Row]
    BY <1>1, <1>3
  <2>. QED
    BY <1>1, <2>1, <2>2 DEF Tables, RunStatus, StepStatus
<1>. HIDE DEF e
<1>5. Unfinished(e)
  BY <1>3 DEF Unfinished
<1>6. Agree(e)
  BY <1>1, <1>3, <1>5 DEF Agree, Underway
<1>. QED
  BY <1>3, <1>4, <1>6 DEF e, Rows, Kept

LEMMA PausesIfDone ==
    ASSUME NEW d \in Tables, Rows(d), Underway(d), Unfinished(d)
    PROVE  /\ LET e == PauseIfDone(d) IN e \in Tables /\ Rows(e) /\ Agree(e) /\ Kept(d, e)
           /\ ~Active(d) => LET e == Paused(d) IN e \in Tables /\ Rows(e) /\ Agree(e) /\ Kept(d, e)
<1>1. ASSUME ~Active(d), NEW i \in Items PROVE d.item[i].attempt # "running"
  BY <1>1 DEF Active, Rows, RowOK, RowAgrees, Tables, Row, ItemStatus
<1>2. ~Active(d) => LET e == Paused(d) IN e \in Tables /\ Rows(e) /\ Agree(e) /\ Kept(d, e)
  BY <1>1, Pauses
<1>3. Agree(d) /\ Kept(d, d)
  BY DEF Agree, Underway, Going, Kept, Eased, Eases
<1>. QED
  BY <1>2, <1>3 DEF PauseIfDone

-----------------------------------------------------------------------------
(* What a claim finds.                                                     *)

LessThan == OpToRel(<, Nat)

LEMMA Least ==
    ASSUME NEW S, S \subseteq Nat, S # {}
    PROVE  \E m \in S : \A n \in S : m <= n
<1>1. IsWellFoundedOn(LessThan, Nat)
  BY NatLessThanWellFounded DEF LessThan
<1>2. PICK m \in S : \A n \in S : <<n, m>> \notin LessThan
  BY <1>1, WFMin
<1>3. ASSUME NEW n \in S PROVE m <= n
  <2>. DEFINE p == <<n, m>>
  <2>1. n \in Nat /\ m \in Nat /\ p \in Nat \X Nat /\ p[1] = n /\ p[2] = m
    OBVIOUS
  <2>2. p \notin LessThan
    BY <1>2
  <2>. HIDE DEF p
  <2>3. ~(p[1] < p[2])
    BY <2>1, <2>2 DEF LessThan, OpToRel
  <2>. QED
    BY <2>1, <2>3
<1>. QED
  BY <1>3

\* The first of some items.
LEMMA First ==
    ASSUME NEW S, S \subseteq Items, S # {}
    PROVE  (CHOOSE i \in S : \A j \in S : i <= j) \in S
<1>1. S \subseteq Nat
  BY BatchAssumption DEF Items, Item
<1>. QED
  BY <1>1, Least

\* The run is not to be paused under a worker that repairs a result.
Lasting(d, age) ==
    d.run = "pausing" =>
        \A i \in Items : d.item[i].attempt = "running" /\ d.item[i].repair = "claimed" =>
            d.item[i].lease + age > 0

LEMMA Requeues ==
    ASSUME NEW d \in Tables, Rows(d), Agree(d), NEW age \in Nat
    PROVE  LET e == Requeue(d, age)
           IN e \in Tables /\ Rows(e) /\ Agree(e) /\ Kept(d, e) /\ Lasting(e, age)
<1>. DEFINE over == Overdue(d, age)
            new  == [i \in Items |-> IF i \in over THEN Expire(d.item[i]) ELSE d.item[i]]
            next == [d EXCEPT !.item = new]
            lost == \E i \in over : d.item[i].repair # "claimed" /\ Risk(d.item[i])
            last == \E i \in over : next.item[i].repair = "terminal"
<1>1. \A i \in Items : d.item[i] \in Row /\ RowOK(d.item[i])
  BY DEF Tables, Rows
<1>2. /\ over \subseteq Items /\ (over # {} => Going(d))
      /\ \A i \in over : /\ d.item[i].attempt = "running" /\ d.item[i].current
                         /\ d.item[i].status = "running"
  BY DEF Overdue, Going
<1>3. \A i \in Items : d.item[i].lease \in Int
  BY <1>1 DEF Row
<1>4. \A i \in Items \ over : Going(d) /\ d.run = "pausing" /\ d.item[i].attempt = "running"
                              /\ d.item[i].repair = "claimed" => d.item[i].lease + age > 0
  <2>1. \A i \in Items : d.item[i].attempt = "running" =>
                            d.item[i].current /\ d.item[i].status = "running"
    BY <1>1 DEF RowOK, RowAgrees, Row, ItemStatus
  <2>. QED
    BY <1>3, <2>1 DEF Overdue, Going
<1>5. ASSUME NEW i \in Items
      PROVE  /\ new[i] \in Row /\ RowOK(new[i]) /\ Eased(d.item[i], new[i])
             /\ i \in over =>
                   /\ new[i].status \in {"failed", "pending", "repair_pending"}
                   /\ new[i].attempt # "running"
                   /\ new[i].status = "failed" <=>
                         (d.item[i].repair # "claimed" /\ Risk(d.item[i]))
                         \/ new[i].repair = "terminal"
             /\ i \notin over => new[i] = d.item[i]
  BY <1>1, <1>2, <1>5, ExpireRow DEF Eased, Eases
<1>6. Requeue(d, age) = IF lost THEN FailStep(next)
                        ELSE IF last THEN AfterFailure(next)
                        ELSE next
  BY DEF Requeue
<1>7. next \in Tables /\ next.run = d.run /\ next.step = d.step /\ next.item = new
  <2>1. new \in [Items -> Row]
    BY <1>5
  <2>. HIDE DEF new
  <2>. QED
    BY <2>1 DEF Tables
<1>. HIDE DEF over, new, next
<1>8. Rows(next) /\ Kept(d, next)
  BY <1>5, <1>7 DEF Rows, Kept
<1>9. CASE over = {}
  <2>1. Requeue(d, age) = next
    BY <1>6, <1>9
  <2>2. \A i \in Items : next.item[i] = d.item[i]
    BY <1>5, <1>7, <1>9
  <2>3. Agree(next)
    BY <1>7, <2>2 DEF Agree, Underway, Unfinished, Going
  <2>4. Lasting(next, age)
    BY <1>4, <1>7, <1>9, <2>2 DEF Lasting, Agree, Underway
  <2>. QED
    BY <1>7, <1>8, <2>1, <2>3, <2>4
<1>10. CASE over # {}
  <2>1. Underway(d) /\ Unfinished(d)
    BY <1>2, <1>10 DEF Agree, Going
  <2>2. Underway(next)
    BY <1>5, <1>7, <2>1 DEF Underway, Going
  <2>3. Lasting(next, age)
    BY <1>2, <1>4, <1>5, <1>7, <1>10 DEF Lasting
  <2>4. FailStep(next).run = "failed"
    BY <1>7, <1>8, <2>2, Fails
  <2>5. ASSUME NEW e \in Tables, Rows(e), Agree(e), Kept(next, e), e \in {next, FailStep(next)}
        PROVE  Rows(e) /\ Agree(e) /\ Kept(d, e) /\ Lasting(e, age)
    BY <1>7, <1>8, <2>3, <2>4, <2>5, KeptTwice DEF Lasting
  <2>6. CASE lost
    <3>1. Requeue(d, age) = FailStep(next)
      BY <1>6, <2>6
    <3>2. FailStep(next) \in {next, FailStep(next)}
      OBVIOUS
    <3>. QED
      BY <1>7, <1>8, <2>2, <2>5, <3>1, <3>2, Fails
  <2>7. CASE ~lost /\ last
    <3>1. \E i \in Items : next.item[i].status = "failed"
      BY <1>2, <1>5, <1>7, <2>7
    <3>2. Requeue(d, age) = AfterFailure(next)
      BY <1>6, <2>7
    <3>. QED
      BY <1>7, <1>8, <2>2, <2>5, <3>1, <3>2, AfterFails
  <2>8. CASE ~lost /\ ~last
    <3>1. Unfinished(next)
      <4>1. PICK i \in Items : d.item[i].status \in Unsettled
        BY <2>1 DEF Unfinished
      <4>2. new[i].status \in Unsettled
        BY <1>5, <1>7, <2>8, <4>1
      <4>. QED
        BY <1>7, <4>2 DEF Unfinished
    <3>2. Agree(next)
      BY <2>2, <3>1 DEF Agree, Underway, Going
    <3>3. Requeue(d, age) = next
      BY <1>6, <2>8
    <3>. QED
      BY <1>7, <1>8, <2>3, <3>2, <3>3
  <2>. QED
    BY <2>6, <2>7, <2>8
<1>. QED
  BY <1>9, <1>10

LEMMA Converges ==
    ASSUME NEW d \in Tables, Rows(d), Agree(d), NEW age \in Nat, Lasting(d, age)
    PROVE  LET e == Converge(d, age) IN e \in Tables /\ Rows(e) /\ Agree(e) /\ Kept(d, e)
<1>. DEFINE risky == {i \in Items : /\ d.item[i].current /\ d.item[i].attempt = "running"
                                    /\ Risk(d.item[i])}
            first == CHOOSE i \in risky : \A j \in risky : i <= j
            held  == \E i \in Items : /\ d.item[i].current /\ d.item[i].status = "running"
                                      /\ Held(d.item[i], age)
            x == Lose(Detach(d.item[first], "failed"), "expired")
<1>0. Converge(d, age) = IF d.run # "pausing" \/ held THEN d
                         ELSE IF risky # {} THEN FailStep(Put(d, first, x)) ELSE Paused(d)
  BY DEF Converge
<1>1. \A i \in Items : d.item[i] \in Row /\ RowOK(d.item[i])
  BY DEF Tables, Rows
<1>2. \A i \in Items : d.item[i].attempt = "running" =>
         /\ d.item[i].current /\ d.item[i].status = "running"
         /\ d.item[i].repair \in {"none", "claimed"}
  BY <1>1 DEF RowOK, RowAgrees, RowKeeps, Row, ItemStatus
<1>3. CASE d.run # "pausing" \/ held
  <2>1. Kept(d, d)
    BY DEF Kept, Eased, Eases
  <2>. QED
    BY <1>0, <1>3, <2>1
<1>4. CASE d.run = "pausing" /\ ~held
  <2>1. Underway(d) /\ Unfinished(d)
    BY <1>4 DEF Agree
  <2>2. \A i \in Items : d.item[i].attempt = "running" => d.item[i].repair = "none"
    BY <1>2, <1>4 DEF Lasting, Held
  <2>3. CASE risky # {}
    <3>1. first \in risky
      BY <2>3, First
    <3>. DEFINE y == d.item[first]
                z == Detach(y, "failed")
    <3>2. first \in Items /\ y \in Row /\ RowOK(y) /\ y.attempt = "running"
          /\ y.repair = "none" /\ y.status = "running"
      BY <1>1, <1>2, <2>2, <3>1
    <3>3. x = Lose(z, "expired")
      OBVIOUS
    <3>. HIDE DEF x, first, y
    <3>4. /\ z \in Row /\ z.status = "failed" /\ z.current = FALSE /\ z.grant = y.grant
          /\ z.out = y.out /\ z.repair = y.repair /\ z.before = y.before /\ z.by = y.by
      BY <3>2, DetachRow DEF ItemStatus
    <3>. HIDE DEF z
    <3>5. x \in Row /\ SameRow(z, x) /\ x.attempt = "expired"
      BY <3>3, <3>4, LoseRow
    <3>6. RowOK(x) /\ Eased(y, x)
      BY <3>2, <3>4, <3>5
      DEF SameRow, RowOK, RowAgrees, RowKeeps, RowRepeats, RowHeld, Eased, Eases
    <3>. DEFINE e == Put(d, first, x)
    <3>7. e \in Tables /\ Rows(e) /\ Kept(d, e)
      BY <3>2, <3>5, <3>6, PutItem DEF y
    <3>8. Underway(e)
      BY <2>1, <3>2, <3>4, <3>5, PutUnderway DEF SameRow
    <3>9. Converge(d, age) = FailStep(e)
      BY <1>0, <1>4, <2>3
    <3>. HIDE DEF e
    <3>. QED
      BY <3>7, <3>8, <3>9, Fails, KeptTwice
  <2>4. CASE risky = {}
    <3>1. \A i \in Items : d.item[i].attempt = "running" =>
             d.item[i].repair # "claimed" /\ ~Risk(d.item[i])
      BY <1>2, <2>2, <2>4
    <3>. QED
      BY <1>0, <1>4, <2>1, <2>4, <3>1, Pauses
  <2>. QED
    BY <2>3, <2>4
<1>. QED
  BY <1>3, <1>4

-----------------------------------------------------------------------------
(* What a worker does to the row of its item.                              *)

LEMMA GivenRow ==
    ASSUME NEW x \in Row, NEW l \in Int
    PROVE  LET y == [x EXCEPT !.status = "running", !.grant = @ + 1, !.token = x.grant + 1,
                              !.lease = l]
           IN /\ y \in Row /\ y.status = "running" /\ y.grant = x.grant + 1
              /\ y.token = x.grant + 1 /\ y.current = x.current /\ y.attempt = x.attempt
              /\ y.out = x.out /\ y.repair = x.repair /\ y.before = x.before /\ y.by = x.by
<1>. DEFINE n == x.grant + 1
            y == [x EXCEPT !.status = "running", !.grant = n, !.token = n, !.lease = l]
<1>1. n \in Nat
  BY DEF Row
<1>. HIDE DEF n
<1>2. /\ y \in Row /\ y.status = "running" /\ y.grant = n /\ y.token = n
      /\ y.current = x.current /\ y.attempt = x.attempt /\ y.out = x.out
      /\ y.repair = x.repair /\ y.before = x.before /\ y.by = x.by
  BY <1>1 DEF Row, ItemStatus
<1>. QED
  BY <1>2 DEF n

LEMMA RepairingRow ==
    ASSUME NEW x \in Row
    PROVE  LET y == [x EXCEPT !.attempt = "running", !.repair = "claimed", !.claims = @ + 1,
                              !.saved = "none", !.out = "none", !.grace = 0]
           IN /\ y \in Row /\ y.attempt = "running" /\ y.repair = "claimed" /\ y.out = "none"
              /\ y.current = x.current /\ y.before = x.before /\ y.grant = x.grant
              /\ y.by = x.by
<1>. DEFINE n == x.claims + 1
            y == [x EXCEPT !.attempt = "running", !.repair = "claimed", !.claims = n,
                           !.saved = "none", !.out = "none", !.grace = Zero]
<1>1. n \in Nat /\ Zero \in Int
  BY DEF Row, Zero
<1>. HIDE DEF n
<1>2. /\ y \in Row /\ y.attempt = "running" /\ y.repair = "claimed" /\ y.out = "none"
      /\ y.current = x.current /\ y.before = x.before /\ y.grant = x.grant /\ y.by = x.by
  BY <1>1 DEF Row, AttemptStatus
<1>. QED
  BY <1>2 DEF n, Zero

LEMMA NewRowOK ==
    /\ NewRow \in Row /\ RowOK(NewRow) /\ NewRow.status = "pending" /\ NewRow.grant = 0
    /\ NewRow.by = 0 /\ NewRow.out = "none" /\ NewRow.repair = "none" /\ ~NewRow.before
<1>1. NewRow = [status |-> "pending", again |-> FALSE, current |-> FALSE,
                attempt |-> "none", no |-> Zero, grant |-> Zero, token |-> Zero,
                lease |-> Zero, grace |-> Zero, out |-> "none", repair |-> "none",
                claims |-> Zero, saved |-> "none", call |-> "none", acted |-> FALSE,
                before |-> FALSE, by |-> Zero]
  BY DEF NewRow, Zero
<1>2. Zero \in Nat /\ Zero \in Int
  BY DEF Zero
<1>3. NewRow \in Row
  BY <1>1, <1>2 DEF Row, ItemStatus, AttemptStatus
<1>4. /\ NewRow.status = "pending" /\ NewRow.grant = 0 /\ NewRow.by = 0
      /\ NewRow.out = "none" /\ NewRow.repair = "none" /\ NewRow.before = FALSE
      /\ NewRow.current = FALSE /\ NewRow.attempt = "none" /\ NewRow.acted = FALSE
      /\ NewRow.saved = "none"
  BY DEF NewRow
<1>5. RowOK(NewRow)
  BY <1>4 DEF RowOK, RowAgrees, RowKeeps, RowRepeats, RowHeld, Clean
<1>. QED
  BY <1>3, <1>4, <1>5

LEMMA BegunRow ==
    ASSUME NEW x \in Row, RowOK(x), x.status = "pending"
    PROVE  LET y == Begin(x)
           IN /\ y \in Row /\ y.attempt = "running" /\ y.current /\ ~y.before
              /\ y.out = "none" /\ y.repair = "none" /\ y.grant = x.grant /\ y.by = x.by
<1>. DEFINE n == x.no + 1
            g == x.grant
            b == x.before \/ x.acted \/ x.saved # "none"
            r == NewRow
            y == [r EXCEPT !.current = TRUE, !.attempt = "running", !.no = n,
                           !.grant = g, !.before = b]
<1>1. b = FALSE /\ x.by = 0
  BY DEF RowOK, RowRepeats, RowHeld, Clean
<1>2. n \in Nat /\ g \in Nat /\ b \in BOOLEAN
  BY <1>1 DEF Row
<1>3. Begin(x) = y
  BY DEF Begin
<1>4. r \in Row /\ r.by = 0 /\ r.out = "none" /\ r.repair = "none"
  BY NewRowOK
<1>. HIDE DEF n, g, b, r
<1>5. /\ y \in Row /\ y.current = TRUE /\ y.before = b /\ y.attempt = "running"
      /\ y.out = r.out /\ y.repair = r.repair /\ y.grant = g /\ y.by = r.by
  BY <1>2, <1>4 DEF Row, AttemptStatus
<1>. HIDE DEF y
<1>. QED
  BY <1>1, <1>3, <1>4, <1>5 DEF g

ParkRow(x, s, v) == [x EXCEPT !.status = s, !.attempt = s, !.lease = 0, !.saved = v]
CommitRow(x, t)  == [x EXCEPT !.attempt = "succeeded", !.status = "succeeded",
                              !.lease = 0, !.grace = 0, !.by = t]

LEMMA ParkedRow ==
    ASSUME NEW x \in Row, RowOK(x), x.attempt = "running", x.status = "running",
           NEW s \in Parked, NEW v \in {"asking", "plain"}
    PROVE  LET y == ParkRow(x, s, v)
           IN y \in Row /\ RowOK(y) /\ Eased(x, y) /\ y.status = s /\ y.current
<1>. DEFINE y == [x EXCEPT !.status = s, !.attempt = s, !.lease = Zero, !.saved = v]
<1>1. s \in ItemStatus /\ s \in AttemptStatus /\ Zero \in Int
  BY DEF ItemStatus, AttemptStatus, Zero
<1>2. /\ y \in Row /\ y.status = s /\ y.attempt = s /\ y.current = x.current
      /\ y.grant = x.grant /\ y.by = x.by /\ y.before = x.before /\ y.out = x.out
      /\ y.repair = x.repair
  BY <1>1 DEF Row
<1>. HIDE DEF y
<1>3. RowOK(y) /\ Eased(x, y) /\ y.current
  BY <1>2 DEF RowOK, RowAgrees, RowKeeps, RowRepeats, RowHeld, Eased, Eases
<1>. QED
  BY <1>2, <1>3 DEF y, ParkRow, Zero

LEMMA ReceivedRow ==
    ASSUME NEW x \in Row, RowOK(x), x.attempt = "running", x.status = "running",
           NEW out \in {"good", "bad"}, NEW g \in Int
    PROVE  LET y == [Receive(x) EXCEPT !.out = out, !.grace = g]
           IN /\ y \in Row /\ RowOK(y) /\ Eased(x, y)
              /\ y.status = x.status /\ y.current = x.current
<1>. DEFINE r == IF x.repair = "claimed" THEN "closed" ELSE x.repair
            z == [x EXCEPT !.attempt = "result_received", !.repair = r]
            y == [z EXCEPT !.out = out, !.grace = g]
<1>1. Receive(x) = z
  BY DEF Receive
<1>2. r \in {"none", "closed", "queued", "claimed", "terminal"}
  BY DEF Row
<1>. HIDE DEF r
<1>3. /\ z \in Row /\ z.attempt = "result_received" /\ z.status = x.status
      /\ z.current = x.current /\ z.grant = x.grant /\ z.token = x.token /\ z.by = x.by
      /\ z.before = x.before
  BY <1>2 DEF Row, AttemptStatus
<1>. HIDE DEF z
<1>4. /\ y \in Row /\ y.attempt = z.attempt /\ y.status = z.status /\ y.current = z.current
      /\ y.grant = z.grant /\ y.token = z.token /\ y.by = z.by /\ y.before = z.before
  BY <1>3 DEF Row
<1>. HIDE DEF y
<1>5. RowOK(y) /\ Eased(x, y)
  BY <1>3, <1>4 DEF RowOK, RowAgrees, RowKeeps, RowRepeats, RowHeld, Eased, Eases
<1>. QED
  BY <1>1, <1>3, <1>4, <1>5 DEF y

LEMMA CommittedRow ==
    ASSUME NEW x \in Row, RowOK(x), x.status = "running", NEW t \in Nat
    PROVE  LET y == CommitRow(x, t)
           IN /\ y \in Row /\ RowOK(y) /\ y.status = "succeeded" /\ y.grant = x.grant
              /\ y.by = t
<1>. DEFINE y == [x EXCEPT !.attempt = "succeeded", !.status = "succeeded",
                           !.lease = Zero, !.grace = Zero, !.by = t]
<1>1. Zero \in Int
  BY DEF Zero
<1>2. /\ y \in Row /\ y.status = "succeeded" /\ y.attempt = "succeeded"
      /\ y.grant = x.grant /\ y.by = t /\ y.before = x.before /\ y.repair = x.repair
  BY <1>1 DEF Row, ItemStatus, AttemptStatus
<1>. HIDE DEF y
<1>3. RowOK(y)
  BY <1>2 DEF RowOK, RowAgrees, RowKeeps, RowRepeats, RowHeld
<1>. QED
  BY <1>2, <1>3 DEF y, CommitRow, Zero

LEMMA RejectedRow ==
    ASSUME NEW x \in Row, RowOK(x), x.attempt = "result_received", x.status = "running",
           x.current
    PROVE  LET y == [x EXCEPT !.repair = "queued", !.lease = 0, !.grace = 0,
                              !.attempt = "repair_pending", !.status = "repair_pending"]
           IN y \in Row /\ RowOK(y) /\ Eased(x, y) /\ y.status = "repair_pending"
<1>. DEFINE y == [x EXCEPT !.repair = "queued", !.lease = Zero, !.grace = Zero,
                           !.attempt = "repair_pending", !.status = "repair_pending"]
<1>1. Zero \in Int
  BY DEF Zero
<1>2. /\ y \in Row /\ y.status = "repair_pending" /\ y.attempt = "repair_pending"
      /\ y.grant = x.grant /\ y.by = x.by /\ y.before = x.before /\ y.current = x.current
  BY <1>1 DEF Row, ItemStatus, AttemptStatus
<1>. HIDE DEF y
<1>3. RowOK(y) /\ Eased(x, y)
  BY <1>2 DEF RowOK, RowAgrees, RowKeeps, RowRepeats, RowHeld, Eased, Eases
<1>. QED
  BY <1>2, <1>3 DEF y, Zero

\* An attempt that fails: its item is to begin anew, or fails with it.
LEMMA FailedRow ==
    ASSUME NEW x \in Row, RowOK(x), x.status = "running",
           NEW s \in {"pending", "failed"}, s = "pending" => ~Risk(x), NEW again \in BOOLEAN
    PROVE  LET y == Detach(Lose(x, "failed"), s)
               z == [y EXCEPT !.again = again]
           IN /\ y \in Row /\ RowOK(y) /\ Eased(x, y) /\ y.status = s
              /\ z \in Row /\ RowOK(z) /\ Eased(x, z) /\ z.status = s
<1>. DEFINE l == Lose(x, "failed")
            y == Detach(l, s)
            z == [y EXCEPT !.again = again]
<1>1. l \in Row /\ SameRow(x, l) /\ l.attempt = "failed"
  BY LoseRow
<1>. HIDE DEF l
<1>2. /\ y \in Row /\ y.status = s /\ y.current = FALSE /\ y.attempt = l.attempt
      /\ y.grant = l.grant /\ y.by = l.by /\ y.before = l.before
      /\ y.acted = l.acted /\ y.saved = l.saved /\ y.out = l.out /\ y.repair = l.repair
  <2>1. s \in ItemStatus
    BY DEF ItemStatus
  <2>. QED
    BY <1>1, <2>1, DetachRow
<1>3. x.by = 0 /\ ~x.before
  BY DEF RowOK, RowHeld, RowRepeats
<1>. HIDE DEF y
<1>4. z \in Row /\ SameRow(y, z) /\ z.attempt = y.attempt
  BY <1>2 DEF Row, SameRow
<1>. HIDE DEF z
<1>5. RowOK(y) /\ Eased(x, y)
  BY <1>1, <1>2, <1>3
  DEF SameRow, RowOK, RowAgrees, RowKeeps, RowRepeats, RowHeld, Clean, Risk, Eased, Eases
<1>6. RowOK(z) /\ Eased(x, z)
  BY <1>2, <1>4, <1>5
  DEF SameRow, RowOK, RowAgrees, RowKeeps, RowRepeats, RowHeld, Clean, Eased, Eases
<1>. QED
  BY <1>2, <1>4, <1>5, <1>6 DEF l, y, z, SameRow
=============================================================================
