------------------------- MODULE WorkflowRunSafety -------------------------
(* The invariant Good of WorkflowRun is inductive; what follows from it;   *)
(* and that WorkflowRun implements LeasedWork.                             *)
EXTENDS WorkflowRunProofs

USE DEF Parked, Unsettled, Open, Live

-----------------------------------------------------------------------------
(* The user's steps.                                                       *)

Sound(d) == d \in Tables /\ Rows(d) /\ Agree(d)

\* What a step may make of an item: what it does to an item it neither gives
\* out nor commits nor reopens, or one of the three.
Given(x, y) ==
    /\ x.status \in Unsettled /\ y.status = "running"
    /\ y.grant = x.grant + 1 /\ y.by = x.by
Answered(x, y) ==
    /\ x.status = "running" /\ y.status = "succeeded"
    /\ x.grant # 0 /\ x.by = 0 /\ y.grant = x.grant /\ y.by = x.grant
Reopened(x, y) ==
    /\ x.status \in {"failed", "cancelled"} /\ y.status = "pending"
    /\ y.grant = x.grant /\ y.by = x.by
Moved(x, y) == Eased(x, y) \/ Given(x, y) \/ Answered(x, y) \/ Reopened(x, y)
Moves(d, e) == \A i \in Items : Moved(d.item[i], e.item[i])

LEMMA GoodSound ==
    ASSUME Good
    PROVE  /\ Sound(db) /\ \A i \in Items : db.item[i] \in Row /\ RowOK(db.item[i])
           /\ batch \in Batches /\ events \in Nat /\ worker \in [Worker -> Memory]
BY DEF Good, TypeOK, Sound, Tables, Rows

LEMMA KeptMoves ==
    ASSUME NEW d \in Tables, NEW e \in Tables, NEW f \in Tables, Kept(d, e), Moves(e, f)
    PROVE  Moves(d, f)
<1>. SUFFICES ASSUME NEW i \in Items PROVE Moved(d.item[i], f.item[i])
  BY DEF Moves
<1>. DEFINE x == d.item[i]  y == e.item[i]  z == f.item[i]
<1>1. Eased(x, y) /\ Moved(y, z)
  BY DEF Kept, Moves
<1>. HIDE DEF x, y, z
<1>2. Moved(x, z)
  BY <1>1 DEF Moved, Eased, Eases, Given, Answered, Reopened
<1>. QED
  BY <1>2 DEF x, z

LEMMA StillMoves ==
    ASSUME NEW d, NEW e, Kept(d, e)
    PROVE  Moves(d, e)
BY DEF Kept, Moves, Moved

\* A run that is not cancelled, one of whose items keeps its status.
LEMMA PutAgrees ==
    ASSUME NEW d \in Tables, NEW i \in Items, NEW x \in Row, Sound(d), RowOK(x),
           d.run # "cancelled", x.status = d.item[i].status, x.current = d.item[i].current
    PROVE  Sound(Put(d, i, x))
<1>. DEFINE e == Put(d, i, x)
<1>1. /\ e \in Tables /\ Rows(e) /\ e.run = d.run /\ e.step = d.step
      /\ e.item[i] = x /\ \A j \in Items : j # i => e.item[j] = d.item[j]
  BY PutItem DEF Sound
<1>. HIDE DEF e
<1>2. \A j \in Items : /\ e.item[j].status = d.item[j].status
                       /\ e.item[j].current = d.item[j].current
  BY <1>1
<1>3. Agree(e)
  BY <1>1, <1>2 DEF Sound, Agree, Underway, Unfinished, Going
<1>. QED
  BY <1>1, <1>3 DEF e, Sound

LEMMA RequestPauseSound ==
    ASSUME Good, RequestPause
    PROVE  Sound(db') /\ Moves(db, db')
<1>1. Sound(db)
  BY GoodSound
<1>2. CASE db.run = "running"
  <2>1. Underway(db) /\ Unfinished(db)
    BY <1>1, <1>2 DEF Sound, Agree
  <2>2. CASE Active(db)
    <3>. DEFINE e == [db EXCEPT !.run = "pausing"]
    <3>1. /\ e \in Tables /\ e.run = "pausing" /\ e.step = db.step /\ e.item = db.item
      BY <1>1 DEF Sound, Tables, RunStatus
    <3>2. db' = e
      BY <1>2, <2>2 DEF RequestPause
    <3>. HIDE DEF e
    <3>3. Rows(e) /\ Agree(e) /\ Kept(db, e)
      BY <1>1, <2>1, <3>1
      DEF Sound, Rows, Agree, Underway, Unfinished, Going, Kept, Eased, Eases
    <3>. QED
      BY <3>1, <3>2, <3>3, StillMoves DEF Sound
  <2>3. CASE ~Active(db)
    <3>1. db' = Paused(db)
      BY <1>2, <2>3 DEF RequestPause
    <3>. QED
      BY <1>1, <2>1, <2>3, <3>1, PausesIfDone, StillMoves DEF Sound
  <2>. QED
    BY <2>2, <2>3
<1>3. CASE db.run = "waiting_approval"
  <2>. DEFINE e == [db EXCEPT !.run = "paused"]
  <2>1. e \in Tables /\ e.run = "paused" /\ e.step = db.step /\ e.item = db.item
    BY <1>1 DEF Sound, Tables, RunStatus
  <2>2. db' = e
    BY <1>3 DEF RequestPause
  <2>. HIDE DEF e
  <2>3. Rows(e) /\ Agree(e) /\ Kept(db, e)
    BY <1>1, <1>3, <2>1 DEF Sound, Rows, Agree, Unfinished, Kept, Eased, Eases
  <2>. QED
    BY <2>1, <2>2, <2>3, StillMoves DEF Sound
<1>. QED
  BY <1>2, <1>3 DEF RequestPause

LEMMA ResumeRunSound ==
    ASSUME Good, ResumeRun
    PROVE  Sound(db') /\ Moves(db, db')
<1>1. Sound(db) /\ \A i \in Items : db.item[i] \in Row /\ RowOK(db.item[i])
  BY GoodSound
<1>2. CASE db.run = "pausing"
  <2>. DEFINE e == [db EXCEPT !.run = "running"]
  <2>1. e \in Tables /\ e.run = "running" /\ e.step = db.step /\ e.item = db.item
    BY <1>1 DEF Sound, Tables, RunStatus
  <2>2. db' = e
    BY <1>2 DEF ResumeRun
  <2>. HIDE DEF e
  <2>3. Rows(e) /\ Agree(e) /\ Kept(db, e)
    BY <1>1, <1>2, <2>1
    DEF Sound, Rows, Agree, Underway, Unfinished, Going, Kept, Eased, Eases
  <2>. QED
    BY <2>1, <2>2, <2>3, StillMoves DEF Sound
<1>3. CASE db.run = "paused" /\ db.step = "paused"
  <2>. DEFINE e == [run |-> "running", step |-> "running",
                    item |-> [i \in Items |-> Wake(db.item[i])]]
  <2>1. \A i \in Items : Wake(db.item[i]) \in Row /\ RowOK(Wake(db.item[i]))
    BY <1>1, WakeRow
  <2>2. e \in Tables /\ Rows(e) /\ e.run = "running" /\ e.step = "running"
    BY <2>1 DEF Tables, Rows, RunStatus, StepStatus
  <2>3. \A i \in Items :
           /\ Eased(db.item[i], e.item[i])
           /\ e.item[i].status = "paused" => e.item[i].current
           /\ e.item[i].status = "cancelled" => db.item[i].status = "cancelled"
           /\ db.item[i].status \in Unsettled => e.item[i].status \in Unsettled
    BY <1>1, WakeRow
  <2>4. db' = e
    BY <1>3 DEF ResumeRun
  <2>. HIDE DEF e
  <2>5. Underway(e) /\ Unfinished(e)
    BY <1>1, <1>3, <2>2, <2>3 DEF Sound, Agree, Underway, Unfinished, Going
  <2>6. Agree(e) /\ Kept(db, e)
    BY <2>2, <2>3, <2>5 DEF Agree, Underway, Kept
  <2>. QED
    BY <2>2, <2>4, <2>6, StillMoves DEF Sound
<1>. QED
  BY <1>2, <1>3 DEF ResumeRun

LEMMA CancelRunSound ==
    ASSUME Good, CancelRun
    PROVE  Sound(db') /\ Moves(db, db')
<1>1. Sound(db) /\ \A i \in Items : db.item[i] \in Row /\ RowOK(db.item[i])
  BY GoodSound
<1>. DEFINE s == IF db.step = "completed" THEN db.step ELSE "cancelled"
            e == [run |-> "cancelled", step |-> s,
                  item |-> [i \in Items |-> CancelledRow(db.item[i])]]
<1>2. \A i \in Items : CancelledRow(db.item[i]) \in Row /\ RowOK(CancelledRow(db.item[i]))
  BY <1>1, CancelledRowOK
<1>3. e \in Tables /\ Rows(e) /\ e.run = "cancelled" /\ e.step = s
  BY <1>2 DEF Tables, Rows, RunStatus, StepStatus
<1>4. \A i \in Items :
         /\ Eased(db.item[i], e.item[i])
         /\ e.item[i].status \in {"succeeded", "cancelled"} /\ e.item[i].call \notin Open
         /\ db.item[i].status = "succeeded" => e.item[i].status = "succeeded"
  BY <1>1, CancelledRowOK
<1>5. db' = e
  BY DEF CancelRun
<1>. HIDE DEF e
<1>6. Agree(e) /\ Kept(db, e)
  BY <1>1, <1>3, <1>4 DEF Sound, Agree, Kept
<1>. QED
  BY <1>3, <1>5, <1>6, StillMoves DEF Sound

LEMMA UnstalledSound ==
    ASSUME NEW d \in Tables, Sound(d)
    PROVE  Sound(Unstalled(d)) /\ Kept(d, Unstalled(d))
<1>. DEFINE stalled == /\ batch = "sequential" /\ d.run = "running" /\ d.step = "running"
                       /\ FailedItems(d) # {}
                       /\ \A i \in Items : d.item[i].status # "running"
            first == CHOOSE i \in FailedItems(d) : \A j \in FailedItems(d) : i <= j
            again == d.item[first].again
            new == [i \in Items |-> IF d.item[i].status = "pending"
                                    THEN [d.item[i] EXCEPT !.status = "failed", !.again = again]
                                    ELSE d.item[i]]
            e == [d EXCEPT !.item = new]
<1>0. Unstalled(d) = IF stalled THEN FailStep(e) ELSE d
  BY DEF Unstalled
<1>1. \A i \in Items : d.item[i] \in Row /\ RowOK(d.item[i])
  BY DEF Tables, Sound, Rows
<1>2. CASE stalled
  <2>1. first \in Items
    BY <1>2, First DEF FailedItems
  <2>2. again \in BOOLEAN
    BY <1>1, <2>1 DEF Row
  <2>. HIDE DEF again
  <2>3. \A i \in Items : /\ new[i] \in Row /\ RowOK(new[i]) /\ Eased(d.item[i], new[i])
                         /\ new[i].status \in {"failed", d.item[i].status}
                         /\ new[i].status = "paused" => new[i] = d.item[i]
    <3>. SUFFICES ASSUME NEW i \in Items
                  PROVE  /\ new[i] \in Row /\ RowOK(new[i]) /\ Eased(d.item[i], new[i])
                         /\ new[i].status \in {"failed", d.item[i].status}
                         /\ new[i].status = "paused" => new[i] = d.item[i]
      OBVIOUS
    <3>. DEFINE x == d.item[i]
                y == [x EXCEPT !.status = "failed", !.again = again]
    <3>1. x \in Row /\ RowOK(x) /\ new[i] = IF x.status = "pending" THEN y ELSE x
      BY <1>1
    <3>2. x.status = "pending" => y \in Row /\ RowOK(y) /\ y.status = "failed" /\ Eased(x, y)
      BY <2>2, <3>1, AbandonedRow
    <3>. HIDE DEF x, y, new
    <3>3. /\ new[i] \in Row /\ RowOK(new[i]) /\ Eased(x, new[i])
          /\ new[i].status \in {"failed", x.status}
          /\ new[i].status = "paused" => new[i] = x
      BY <3>1, <3>2 DEF Eased, Eases
    <3>. QED
      BY <3>3 DEF x
  <2>4. new \in [Items -> Row]
    BY <2>3
  <2>. HIDE DEF new
  <2>5. e \in Tables /\ e.run = d.run /\ e.step = d.step /\ e.item = new
    BY <2>4 DEF Tables
  <2>. HIDE DEF e
  <2>6. Rows(e) /\ Kept(d, e)
    BY <2>3, <2>5 DEF Rows, Kept
  <2>7. Underway(e)
    BY <1>2, <2>3, <2>5 DEF Sound, Agree, Underway, Going
  <2>. QED
    BY <1>0, <1>2, <2>5, <2>6, <2>7, Fails, KeptTwice DEF Sound
<1>3. CASE ~stalled
  BY <1>0, <1>3 DEF Kept, Eased, Eases
<1>. QED
  BY <1>2, <1>3

LEMMA RetrySound ==
    ASSUME Good, Retry
    PROVE  Sound(db') /\ Moves(db, db')
<1>. DEFINE d == Unstalled(db)
            new == [i \in Items |-> IF i \in FailedItems(d)
                                    THEN [Detach(d.item[i], "pending") EXCEPT !.again = FALSE]
                                    ELSE d.item[i]]
            e == [run |-> "running", step |-> "running", item |-> new]
<1>1. Sound(d) /\ Kept(db, d) /\ d \in Tables /\ db \in Tables
  BY GoodSound, UnstalledSound DEF Sound
<1>2. /\ d.run = "failed" /\ FailedItems(d) # {} /\ db' = e
      /\ \A i \in FailedItems(d) : ~Repeats(d.item[i])
  BY DEF Retry
<1>. HIDE DEF d
<1>3. \A i \in Items : d.item[i] \in Row /\ RowOK(d.item[i])
  BY <1>1 DEF Sound, Tables, Rows
<1>4. \A i \in FailedItems(d) : d.item[i].status = "failed" /\ Clean(d.item[i]) /\ i \in Items
  BY <1>2, <1>3 DEF FailedItems, Repeats, Risk, Clean
<1>5. \A i \in Items : /\ new[i] \in Row /\ RowOK(new[i]) /\ Moved(d.item[i], new[i])
                       /\ i \in FailedItems(d) => new[i].status = "pending"
                       /\ i \notin FailedItems(d) => new[i] = d.item[i]
  BY <1>3, <1>4, ReopenedRow DEF Moved, Reopened, Eased, Eases
<1>6. new \in [Items -> Row]
  BY <1>5
<1>. HIDE DEF new
<1>7. e \in Tables /\ e.run = "running" /\ e.step = "running" /\ e.item = new
  BY <1>6 DEF Tables, RunStatus, StepStatus
<1>. HIDE DEF e
<1>8. Rows(e) /\ Moves(d, e)
  BY <1>5, <1>7 DEF Rows, Moves
<1>9. Underway(e) /\ Unfinished(e)
  <2>1. \A i \in Items : /\ d.item[i].status # "cancelled"
                         /\ d.item[i].status = "paused" => d.item[i].current
    BY <1>1, <1>2 DEF Sound, Agree
  <2>. QED
    BY <1>2, <1>4, <1>5, <1>7, <2>1 DEF Underway, Unfinished, Going
<1>10. Agree(e)
  BY <1>7, <1>9 DEF Agree, Underway
<1>. QED
  BY <1>1, <1>2, <1>7, <1>8, <1>10, KeptMoves DEF Sound

LEMMA DecideSound ==
    ASSUME Good, NEW i \in Items, Decide(i)
    PROVE  Sound(db') /\ Moves(db, db')
<1>1. /\ Sound(db) /\ db \in Tables /\ db.item[i] \in Row /\ RowOK(db.item[i])
  BY GoodSound DEF Sound
<1>2. PICK decision \in {"approved", "rejected"} : db' = [db EXCEPT !.item[i].call = decision]
  BY DEF Decide
<1>. DEFINE x == db.item[i]
            y == [x EXCEPT !.call = decision]
<1>3. db' = Put(db, i, y)
  BY <1>2 DEF Put
<1>4. db.run # "cancelled"
  BY <1>1 DEF Sound, Agree, Decide
<1>. HIDE DEF x
<1>5. y \in Row /\ SameRow(x, y) /\ y.attempt = x.attempt
  BY <1>1 DEF x, Row, SameRow
<1>. HIDE DEF y
<1>6. RowOK(y) /\ Eased(x, y)
  BY <1>1, <1>5
  DEF x, SameRow, RowOK, RowAgrees, RowKeeps, RowRepeats, RowHeld, Clean, Eased, Eases
<1>7. y.status = db.item[i].status /\ y.current = db.item[i].current
  BY <1>5 DEF x, SameRow
<1>8. Sound(Put(db, i, y))
  BY <1>1, <1>4, <1>5, <1>6, <1>7, PutAgrees
<1>9. Kept(db, Put(db, i, y))
  BY <1>1, <1>5, <1>6, PutItem DEF x
<1>. QED
  BY <1>3, <1>8, <1>9, StillMoves

LEMMA ApproveSound ==
    ASSUME Good, Approve
    PROVE  Sound(db') /\ Moves(db, db')
<1>. DEFINE e == [db EXCEPT !.run = "completed", !.step = "completed"]
<1>1. Sound(db)
  BY GoodSound
<1>2. e \in Tables /\ e.run = "completed" /\ e.step = "completed" /\ e.item = db.item
  BY <1>1 DEF Sound, Tables, RunStatus, StepStatus
<1>3. db' = e /\ db.step = "waiting_approval"
  BY DEF Approve
<1>. HIDE DEF e
<1>4. Rows(e) /\ Agree(e) /\ Kept(db, e)
  BY <1>1, <1>2, <1>3 DEF Sound, Rows, Agree, Kept, Eased, Eases
<1>. QED
  BY <1>2, <1>3, <1>4, StillMoves DEF Sound

-----------------------------------------------------------------------------
(* The workers' steps.                                                     *)

Rests(pc) == pc \in {"idle", "claiming"}

LEMMA MineTyped ==
    ASSUME Good, NEW w \in Worker, ~Rests(worker[w].pc)
    PROVE  /\ worker[w].item \in Items /\ Mine(w) = db.item[worker[w].item]
           /\ Mine(w) \in Row /\ RowOK(Mine(w))
BY GoodSound DEF Good, Assigned, Rests, Mine

LEMMA Holder ==
    ASSUME Good, NEW w \in Worker, ~Rests(worker[w].pc), Holds(w) \/ Keeps(w)
    PROVE  LET x == Mine(w)
           IN /\ x.status = "running" /\ x.current /\ x.by = 0
              /\ x.grant = worker[w].token /\ x.grant # 0
              /\ Holds(w) => x.attempt = "running"
              /\ Keeps(w) => x.attempt = "result_received"
              /\ db.run \in {"running", "pausing"} /\ Underway(db) /\ Unfinished(db)
<1>1. Mine(w) \in Row /\ RowOK(Mine(w)) /\ Sound(db)
  BY MineTyped, GoodSound
<1>2. Mine(w).status = "running" /\ Mine(w).current /\ Mine(w).token = worker[w].token /\ Going(db)
  BY DEF Holds, Keeps
<1>3. Underway(db) /\ Unfinished(db)
  BY <1>1, <1>2 DEF Sound, Agree, Going
<1>. QED
  BY <1>1, <1>2, <1>3 DEF RowOK, RowHeld, Going, Holds, Keeps

\* A step that changes the row of the worker's item, which it holds, but not
\* the status.
LEMMA HeldPut ==
    ASSUME Good, NEW w \in Worker, ~Rests(worker[w].pc), Holds(w), NEW y \in Row, RowOK(y),
           Eased(Mine(w), y), y.status = Mine(w).status, y.current = Mine(w).current
    PROVE  LET e == Put(db, worker[w].item, y) IN Sound(e) /\ Moves(db, e)
<1>1. /\ worker[w].item \in Items /\ Mine(w) = db.item[worker[w].item]
      /\ db.run # "cancelled" /\ Sound(db) /\ db \in Tables
  BY MineTyped, Holder, GoodSound DEF Sound
<1>. DEFINE e == Put(db, worker[w].item, y)
<1>2. Sound(e)
  BY <1>1, PutAgrees
<1>3. Kept(db, e)
  BY <1>1, PutItem
<1>. QED
  BY <1>2, <1>3, StillMoves

LEMMA CallSound ==
    ASSUME Good, NEW w \in Worker, BeginCall(w) \/ StartCall(w) \/ EndCall(w)
    PROVE  Sound(db') /\ Moves(db, db')
<1>. DEFINE i == worker[w].item
            x == Mine(w)
<1>1. ~Rests(worker[w].pc) /\ Holds(w)
  BY DEF BeginCall, StartCall, EndCall, Serves, Rests
<1>2. /\ i \in Items /\ x = db.item[i] /\ x \in Row /\ RowOK(x) /\ x.status = "running"
      /\ db \in Tables
  BY <1>1, MineTyped, Holder, GoodSound DEF Sound
<1>3. ASSUME NEW c \in {"pending_approval", "completed"}, db' = [db EXCEPT !.item[i].call = c]
      PROVE  Sound(db') /\ Moves(db, db')
  <2>. DEFINE y == [x EXCEPT !.call = c]
  <2>1. db' = Put(db, i, y)
    BY <1>2, <1>3 DEF Put
  <2>. HIDE DEF i, x
  <2>2. y \in Row /\ SameRow(x, y) /\ y.attempt = x.attempt
    BY <1>2 DEF Row, SameRow
  <2>. HIDE DEF y
  <2>3. RowOK(y) /\ Eased(x, y) /\ y.status = x.status /\ y.current = x.current
    BY <1>2, <2>2
    DEF SameRow, RowOK, RowAgrees, RowKeeps, RowRepeats, RowHeld, Clean, Eased, Eases
  <2>. QED
    BY <1>1, <2>1, <2>2, <2>3, HeldPut DEF i, x
<1>4. ASSUME db' = [db EXCEPT !.item[i].call = "running", !.item[i].acted = TRUE]
      PROVE  Sound(db') /\ Moves(db, db')
  <2>. DEFINE y == [x EXCEPT !.call = "running", !.acted = TRUE]
  <2>1. db' = Put(db, i, y)
    BY <1>2, <1>4 DEF Put, Tables
  <2>. HIDE DEF i, x
  <2>2. /\ y \in Row /\ y.attempt = x.attempt /\ y.status = x.status /\ y.current = x.current
        /\ y.grant = x.grant /\ y.token = x.token /\ y.out = x.out /\ y.repair = x.repair
        /\ y.before = x.before /\ y.by = x.by
    BY <1>2 DEF Row
  <2>. HIDE DEF y
  <2>3. RowOK(y) /\ Eased(x, y)
    BY <1>2, <2>2 DEF RowOK, RowAgrees, RowKeeps, RowRepeats, RowHeld, Clean, Eased, Eases
  <2>. QED
    BY <1>1, <2>1, <2>2, <2>3, HeldPut DEF i, x
<1>. QED
  BY <1>3, <1>4 DEF BeginCall, StartCall, EndCall

LEMMA BeatSound ==
    ASSUME Good, NEW w \in Worker, Beat(w), db' # db
    PROVE  Sound(db') /\ Moves(db, db')
<1>. DEFINE i == worker[w].item
            x == Mine(w)
            y == [x EXCEPT !.lease = Lease]
<1>1. ~Rests(worker[w].pc) /\ db' = [db EXCEPT !.item[i].lease = Lease]
  BY DEF Beat, Rests
<1>2. /\ x.status = "running" /\ Going(db)
  BY DEF Beat
<1>3. /\ i \in Items /\ x = db.item[i] /\ x \in Row /\ RowOK(x) /\ db \in Tables /\ Sound(db)
  BY <1>1, MineTyped, GoodSound DEF Sound
<1>4. db' = Put(db, i, y)
  BY <1>1, <1>3 DEF Put
<1>. HIDE DEF i, x
<1>5. y \in Row /\ SameRow(x, y) /\ y.attempt = x.attempt
  <2>1. Lease \in Int
    BY TimeAssumption
  <2>. QED
    BY <1>3, <2>1 DEF Row, SameRow
<1>. HIDE DEF y
<1>6. RowOK(y) /\ Eased(x, y) /\ y.status = x.status /\ y.current = x.current
  BY <1>3, <1>5
  DEF SameRow, RowOK, RowAgrees, RowKeeps, RowRepeats, RowHeld, Clean, Eased, Eases
<1>7. db.run # "cancelled"
  BY <1>2 DEF Going
<1>8. Sound(Put(db, i, y))
  BY <1>3, <1>5, <1>6, <1>7, PutAgrees
<1>9. Kept(db, Put(db, i, y))
  BY <1>3, <1>5, <1>6, PutItem
<1>. QED
  BY <1>4, <1>8, <1>9, StillMoves

LEMMA ParkSound ==
    ASSUME Good, NEW w \in Worker, NEW kind \in {"approval", "user", "recovery"}, Park(w, kind)
    PROVE  Sound(db') /\ Moves(db, db')
<1>. DEFINE i == worker[w].item
            x == Mine(w)
            s == IF kind = "approval" THEN "waiting_approval" ELSE "paused"
            v == IF worker[w].asked THEN "asking" ELSE "plain"
            y == ParkRow(x, s, v)
            d == Put(db, i, y)
            e == IF kind = "recovery" THEN [d EXCEPT !.run = "pausing"] ELSE d
<1>1. ~Rests(worker[w].pc) /\ Holds(w) /\ db' = PauseIfDone(e)
  BY DEF Park, ParkRow, Serves, Rests
<1>2. /\ i \in Items /\ x = db.item[i] /\ x \in Row /\ RowOK(x)
      /\ x.status = "running" /\ x.attempt = "running"
      /\ db \in Tables /\ Rows(db) /\ Underway(db)
  BY <1>1, MineTyped, Holder, GoodSound DEF Sound
<1>3. s \in Parked /\ v \in {"asking", "plain"}
  OBVIOUS
<1>. HIDE DEF i, x, s, v
<1>4. y \in Row /\ RowOK(y) /\ Eased(x, y) /\ y.status = s /\ y.current
  BY <1>2, <1>3, ParkedRow
<1>. HIDE DEF y
<1>5. /\ d \in Tables /\ Rows(d) /\ Kept(db, d) /\ d.item[i] = y
  BY <1>2, <1>4, PutItem
<1>6. Underway(d)
  BY <1>2, <1>3, <1>4, PutUnderway
<1>. HIDE DEF d
<1>7. e \in Tables /\ e.item = d.item /\ e.step = d.step /\ e.run \in {d.run, "pausing"}
  BY <1>5 DEF Tables, RunStatus
<1>. HIDE DEF e
<1>8. Rows(e) /\ Kept(db, e) /\ Underway(e) /\ Unfinished(e)
  BY <1>2, <1>3, <1>4, <1>5, <1>6, <1>7 DEF Rows, Kept, Underway, Unfinished, Going
<1>. DEFINE f == PauseIfDone(e)
<1>9. f \in Tables /\ Rows(f) /\ Agree(f) /\ Kept(e, f)
  BY <1>7, <1>8, PausesIfDone
<1>. HIDE DEF f
<1>10. Kept(db, f)
  BY <1>2, <1>7, <1>8, <1>9, KeptTwice
<1>. QED
  BY <1>1, <1>9, <1>10, StillMoves DEF f, Sound

LEMMA ServeSubmitSound ==
    ASSUME Good, NEW w \in Worker, ServeSubmit(w), db' # db
    PROVE  Sound(db') /\ Moves(db, db')
<1>1. ~Rests(worker[w].pc) /\ Holds(w)
  BY DEF ServeSubmit, Rests
<1>2. PICK out \in {"good", "bad"} :
         db' = Put(db, worker[w].item,
                   [Receive(Mine(w)) EXCEPT !.out = out, !.grace = Grace - worker[w].age])
  BY <1>1 DEF ServeSubmit
<1>. DEFINE g == Grace - worker[w].age
            x == Mine(w)
            y == [Receive(x) EXCEPT !.out = out, !.grace = g]
<1>3. x \in Row /\ RowOK(x) /\ x.status = "running" /\ x.attempt = "running"
  BY <1>1, MineTyped, Holder
<1>4. g \in Int
  BY GoodSound, TimeAssumption DEF Memory
<1>5. db' = Put(db, worker[w].item, y)
  BY <1>2
<1>. HIDE DEF g, x
<1>6. y \in Row /\ RowOK(y) /\ Eased(x, y) /\ y.status = x.status /\ y.current = x.current
  BY <1>3, <1>4, ReceivedRow
<1>. HIDE DEF y
<1>. QED
  BY <1>1, <1>5, <1>6, HeldPut DEF x

LEMMA CommitSound ==
    ASSUME Good, NEW w \in Worker, Commit(w), db' # db
    PROVE  Sound(db') /\ Moves(db, db')
<1>. DEFINE i == worker[w].item
            x == Mine(w)
            t == worker[w].token
            y == CommitRow(x, t)
            d == Put(db, i, y)
<1>1. ~Rests(worker[w].pc) /\ Keeps(w) /\ db' = AfterCommit(d)
  BY DEF Commit, CommitRow, Rests
<1>2. /\ i \in Items /\ x = db.item[i] /\ x \in Row /\ RowOK(x) /\ x.status = "running"
      /\ x.by = 0 /\ x.grant = t /\ x.grant # 0
      /\ db \in Tables /\ Rows(db) /\ Underway(db)
  BY <1>1, MineTyped, Holder, GoodSound DEF Sound
<1>3. t \in Nat
  BY GoodSound DEF Memory
<1>. HIDE DEF i, x, t
<1>4. y \in Row /\ RowOK(y) /\ y.status = "succeeded" /\ y.grant = x.grant /\ y.by = t
  BY <1>2, <1>3, CommittedRow
<1>. HIDE DEF y
<1>5. /\ d \in Tables /\ Rows(d) /\ d.item[i] = y /\ d.run = db.run /\ d.step = db.step
      /\ \A j \in Items : j # i => d.item[j] = db.item[j]
  BY <1>2, <1>4, PutItem
<1>6. Underway(d)
  BY <1>2, <1>4, PutUnderway
<1>. HIDE DEF d
<1>7. ASSUME NEW e \in Tables, Kept(d, e) PROVE Moves(db, e)
  <2>. SUFFICES ASSUME NEW j \in Items PROVE Moved(db.item[j], e.item[j])
    BY DEF Moves
  <2>1. Eased(d.item[j], e.item[j])
    BY <1>7 DEF Kept
  <2>2. CASE j = i
    BY <1>2, <1>4, <1>5, <2>1, <2>2 DEF Moved, Answered, Eased, Eases
  <2>3. CASE j # i
    BY <1>5, <2>1, <2>3 DEF Moved
  <2>. QED
    BY <2>2, <2>3
<1>8. CASE \A j \in Items : d.item[j].status = "succeeded"
  <2>. DEFINE e == [d EXCEPT !.run = "waiting_approval", !.step = "waiting_approval"]
  <2>1. /\ e \in Tables /\ e.run = "waiting_approval" /\ e.step = "waiting_approval"
        /\ e.item = d.item
    BY <1>5 DEF Tables, RunStatus, StepStatus
  <2>2. AfterCommit(d) = e
    BY <1>8 DEF AfterCommit
  <2>. HIDE DEF e
  <2>3. Rows(e) /\ Agree(e) /\ Kept(d, e)
    BY <1>5, <1>8, <2>1 DEF Rows, Agree, Kept, Eased, Eases
  <2>. QED
    BY <1>1, <1>7, <2>1, <2>2, <2>3 DEF Sound
<1>9. CASE \E j \in Items : d.item[j].status \notin {"succeeded", "failed"}
  <2>1. AfterCommit(d) = PauseIfDone(d)
    BY <1>9 DEF AfterCommit
  <2>2. Unfinished(d)
    BY <1>5, <1>6, <1>9 DEF Underway, Unfinished, Tables, Row, ItemStatus
  <2>. QED
    BY <1>1, <1>5, <1>6, <1>7, <2>1, <2>2, PausesIfDone DEF Sound
<1>10. CASE /\ ~\A j \in Items : d.item[j].status = "succeeded"
            /\ ~\E j \in Items : d.item[j].status \notin {"succeeded", "failed"}
  <2>1. AfterCommit(d) = Settle(d)
    BY <1>10 DEF AfterCommit
  <2>2. \E j \in Items : d.item[j].status = "failed"
    BY <1>10
  <2>. QED
    BY <1>1, <1>5, <1>6, <1>7, <2>1, <2>2, Settles DEF Sound
<1>. QED
  BY <1>8, <1>9, <1>10

LEMMA QueueRepairSound ==
    ASSUME Good, NEW w \in Worker, QueueRepair(w), db' # db
    PROVE  Sound(db') /\ Moves(db, db')
<1>. DEFINE i == worker[w].item
            x == Mine(w)
<1>1. ~Rests(worker[w].pc) /\ Keeps(w)
  BY DEF QueueRepair, Rests
<1>2. /\ i \in Items /\ x = db.item[i] /\ x \in Row /\ RowOK(x) /\ x.status = "running"
      /\ x.attempt = "result_received" /\ x.current
      /\ db \in Tables /\ Rows(db) /\ Underway(db)
  BY <1>1, MineTyped, Holder, GoodSound DEF Sound
<1>3. ASSUME NEW y \in Row, RowOK(y), Eased(x, y), y.status \in {"repair_pending", "failed"},
             NEW d, d = Put(db, i, y)
      PROVE  /\ d \in Tables /\ Rows(d) /\ Kept(db, d) /\ Underway(d)
             /\ d.item[i] = y
  BY <1>2, <1>3, PutItem, PutUnderway
<1>4. ASSUME NEW d \in Tables, NEW e \in Tables, Kept(db, d), Rows(e), Agree(e), Kept(d, e)
      PROVE  Sound(e) /\ Moves(db, e)
  BY <1>2, <1>4, KeptTwice, StillMoves DEF Sound
<1>5. CASE x.repair = "none"
  <2>. DEFINE y == [x EXCEPT !.repair = "queued", !.lease = 0, !.grace = 0,
                             !.attempt = "repair_pending", !.status = "repair_pending"]
              d == Put(db, i, y)
  <2>1. db' = PauseIfDone(d)
    BY <1>1, <1>5 DEF QueueRepair
  <2>. HIDE DEF i, x
  <2>2. y \in Row /\ RowOK(y) /\ Eased(x, y) /\ y.status = "repair_pending"
    BY <1>2, RejectedRow
  <2>. HIDE DEF y
  <2>3. d \in Tables /\ Rows(d) /\ Kept(db, d) /\ Underway(d) /\ d.item[i] = y
    BY <1>3, <2>2
  <2>. HIDE DEF d
  <2>4. Unfinished(d)
    BY <1>2, <2>2, <2>3 DEF Unfinished
  <2>. QED
    BY <1>4, <2>1, <2>3, <2>4, PausesIfDone
<1>6. CASE x.repair # "none"
  <2>. DEFINE y == Unrepairable(x)
              d == Put(db, i, y)
  <2>1. db' = AfterFailure(d)
    BY <1>1, <1>6 DEF QueueRepair
  <2>. HIDE DEF i, x
  <2>2. y \in Row /\ RowOK(y) /\ Eased(x, y) /\ y.status = "failed"
    BY <1>2, UnrepairableRow DEF Eased, Eases
  <2>. HIDE DEF y
  <2>3. d \in Tables /\ Rows(d) /\ Kept(db, d) /\ Underway(d) /\ d.item[i] = y
    BY <1>3, <2>2
  <2>. HIDE DEF d
  <2>. QED
    BY <1>2, <1>4, <2>1, <2>2, <2>3, AfterFails
<1>. QED
  BY <1>5, <1>6

LEMMA FailsLater ==
    ASSUME NEW d \in Tables, Rows(d), Underway(d), NEW again \in BOOLEAN,
           \E i \in Items : d.item[i].status = "failed"
    PROVE  LET e == FailLater(d, again)
           IN /\ e \in Tables /\ Rows(e) /\ Underway(e) /\ Kept(d, e)
              /\ \E i \in Items : e.item[i].status = "failed"
<1>1. CASE batch # "sequential"
  BY <1>1 DEF FailLater, Kept, Eased, Eases
<1>2. CASE batch = "sequential"
  <2>. DEFINE new == [i \in Items |-> IF d.item[i].status = "pending"
                                      THEN [d.item[i] EXCEPT !.status = "failed", !.again = again]
                                      ELSE d.item[i]]
              e == [d EXCEPT !.item = new]
  <2>1. \A i \in Items : d.item[i] \in Row /\ RowOK(d.item[i])
    BY DEF Tables, Rows
  <2>2. ASSUME NEW i \in Items
        PROVE  /\ new[i] \in Row /\ RowOK(new[i]) /\ Eased(d.item[i], new[i])
               /\ new[i].status \in {"failed", d.item[i].status}
               /\ new[i].status = "paused" => new[i] = d.item[i]
    <3>. DEFINE x == d.item[i]
                y == [x EXCEPT !.status = "failed", !.again = again]
    <3>1. x \in Row /\ RowOK(x) /\ new[i] = IF x.status = "pending" THEN y ELSE x
      BY <2>1
    <3>2. x.status = "pending" => y \in Row /\ RowOK(y) /\ y.status = "failed" /\ Eased(x, y)
      BY <3>1, AbandonedRow
    <3>. HIDE DEF x, y, new
    <3>3. /\ new[i] \in Row /\ RowOK(new[i]) /\ Eased(x, new[i])
          /\ new[i].status \in {"failed", x.status}
          /\ new[i].status = "paused" => new[i] = x
      BY <3>1, <3>2 DEF Eased, Eases
    <3>. QED
      BY <3>3 DEF x
  <2>3. new \in [Items -> Row]
    BY <2>2
  <2>4. FailLater(d, again) = e
    BY <1>2 DEF FailLater
  <2>. HIDE DEF new
  <2>5. e \in Tables /\ e.run = d.run /\ e.step = d.step /\ e.item = new
    BY <2>3 DEF Tables
  <2>. HIDE DEF e
  <2>6. Rows(e) /\ Underway(e) /\ Kept(d, e)
    BY <2>2, <2>5 DEF Rows, Underway, Kept, Going
  <2>7. \E i \in Items : e.item[i].status = "failed"
    BY <2>2, <2>5
  <2>. QED
    BY <2>4, <2>5, <2>6, <2>7
<1>. QED
  BY <1>1, <1>2

LEMMA ServeFailSound ==
    ASSUME Good, NEW w \in Worker, ServeFail(w), db' # db
    PROVE  Sound(db') /\ Moves(db, db')
<1>. DEFINE i == worker[w].item
            x == Mine(w)
<1>1. ~Rests(worker[w].pc) /\ Holds(w)
  BY DEF ServeFail, Rests
<1>2. PICK again \in BOOLEAN :
         LET retry == again /\ x.no <= AutomaticAttempts /\ ~Risk(x)
         IN db' = IF retry THEN PauseIfDone(Put(db, i, Detach(Lose(x, "failed"), "pending")))
                  ELSE AfterFailure(FailLater(Put(db, i,
                           [Detach(Lose(x, "failed"), "failed") EXCEPT !.again = again]), again))
  BY <1>1 DEF ServeFail
<1>3. /\ i \in Items /\ x = db.item[i] /\ x \in Row /\ RowOK(x) /\ x.status = "running"
      /\ db \in Tables /\ Rows(db) /\ Underway(db)
  BY <1>1, MineTyped, Holder, GoodSound DEF Sound
<1>4. ASSUME NEW d \in Tables, NEW e \in Tables, Kept(db, d), Rows(e), Agree(e), Kept(d, e)
      PROVE  Sound(e) /\ Moves(db, e)
  BY <1>3, <1>4, KeptTwice, StillMoves DEF Sound
<1>5. CASE again /\ x.no <= AutomaticAttempts /\ ~Risk(x)
  <2>. DEFINE y == Detach(Lose(x, "failed"), "pending")
              d == Put(db, i, y)
  <2>1. db' = PauseIfDone(d)
    BY <1>2, <1>5
  <2>. HIDE DEF i, x
  <2>2. y \in Row /\ RowOK(y) /\ Eased(x, y) /\ y.status = "pending"
    BY <1>3, <1>5, FailedRow
  <2>. HIDE DEF y
  <2>3. d \in Tables /\ Rows(d) /\ Kept(db, d) /\ Underway(d) /\ d.item[i] = y
    BY <1>3, <2>2, PutItem, PutUnderway
  <2>. HIDE DEF d
  <2>4. Unfinished(d)
    BY <1>3, <2>2, <2>3 DEF Unfinished
  <2>. QED
    BY <1>4, <2>1, <2>3, <2>4, PausesIfDone
<1>6. CASE ~(again /\ x.no <= AutomaticAttempts /\ ~Risk(x))
  <2>. DEFINE y == [Detach(Lose(x, "failed"), "failed") EXCEPT !.again = again]
              d == Put(db, i, y)
              e == FailLater(d, again)
  <2>1. db' = AfterFailure(e)
    BY <1>2, <1>6
  <2>. HIDE DEF i, x
  <2>2. y \in Row /\ RowOK(y) /\ Eased(x, y) /\ y.status = "failed"
    BY <1>3, FailedRow
  <2>. HIDE DEF y
  <2>3. d \in Tables /\ Rows(d) /\ Kept(db, d) /\ Underway(d) /\ d.item[i] = y
    BY <1>3, <2>2, PutItem, PutUnderway
  <2>. HIDE DEF d
  <2>4. /\ e \in Tables /\ Rows(e) /\ Underway(e) /\ Kept(d, e)
        /\ \E j \in Items : e.item[j].status = "failed"
    BY <1>3, <2>2, <2>3, FailsLater
  <2>5. Kept(db, e)
    BY <1>3, <2>3, <2>4, KeptTwice
  <2>. HIDE DEF e
  <2>. QED
    BY <1>4, <2>1, <2>4, <2>5, AfterFails
<1>. QED
  BY <1>5, <1>6

\* A row of the item that is given out, at any worker's hand.
Hand(x, l) == [x EXCEPT !.status = "running", !.grant = @ + 1, !.token = x.grant + 1, !.lease = l]

LEMMA Hands ==
    ASSUME NEW d \in Tables, Rows(d), Underway(d), NEW i \in Items, NEW x \in Row, NEW l \in Int,
           d.item[i].status \in Unsettled, d.item[i].by = 0,
           x.grant = d.item[i].grant, x.by = d.item[i].by, x.current, ~x.before,
           x.attempt \in {"running", "result_received"},
           x.attempt = "running" => x.out = "none" /\ x.repair \in {"none", "claimed"}
    PROVE  LET e == Put(d, i, Hand(x, l)) IN Sound(e) /\ Moves(d, e)
<1>. DEFINE y == Hand(x, l)
            e == Put(d, i, y)
<1>1. /\ y \in Row /\ y.status = "running" /\ y.grant = x.grant + 1
      /\ y.token = x.grant + 1 /\ y.current = x.current /\ y.attempt = x.attempt
      /\ y.out = x.out /\ y.repair = x.repair /\ y.before = x.before /\ y.by = x.by
  BY GivenRow DEF Hand
<1>2. x.grant \in Nat
  BY DEF Row
<1>. HIDE DEF y
<1>3. RowOK(y)
  BY <1>1, <1>2 DEF RowOK, RowAgrees, RowKeeps, RowRepeats, RowHeld
<1>4. Given(d.item[i], y)
  BY <1>1 DEF Given
<1>5. /\ e \in Tables /\ Rows(e) /\ e.item[i] = y
      /\ \A j \in Items : j # i => e.item[j] = d.item[j]
  BY <1>1, <1>3, PutItem
<1>6. Underway(e)
  BY <1>1, PutUnderway
<1>. HIDE DEF e
<1>7. Agree(e)
  BY <1>1, <1>5, <1>6 DEF Agree, Underway, Unfinished, Going
<1>8. Moves(d, e)
  BY <1>4, <1>5 DEF Moves, Moved, Eased, Eases
<1>. QED
  BY <1>5, <1>7, <1>8 DEF e, y, Sound

LEMMA ServeClaimSound ==
    ASSUME Good, NEW w \in Worker, ServeClaim(w)
    PROVE  /\ Sound(db') /\ Moves(db, db')
           /\ worker' = Rest(w) \/
              \E i \in Items, n \in Nat, pc \in {"working", "received"} :
                  worker' = [worker EXCEPT ![w] =
                                [Idle EXCEPT !.pc = pc, !.item = i, !.token = n]]
<1>. DEFINE age == worker[w].age
            r == Requeue(db, age)
            d == Converge(r, age)
            l == Lease - age
            results == Room(d, Results(d, age))
            goes == d.run = "running" /\ d.step = "running"
<1>1. age \in Nat /\ l \in Int
  BY GoodSound, TimeAssumption DEF Memory
<1>2. db \in Tables /\ Rows(db) /\ Agree(db)
  BY GoodSound DEF Sound
<1>3. r \in Tables /\ Rows(r) /\ Agree(r) /\ Kept(db, r) /\ Lasting(r, age)
  BY <1>1, <1>2, Requeues
<1>4. \/ goes /\ results # {} /\ TakeResult(w, d)
      \/ goes /\ TakeCheckpoint(w, d)
      \/ goes /\ Room(d, Fresh(d)) # {} /\ TakeFresh(w, d)
      \/ db' = d /\ worker' = Rest(w)
  BY DEF ServeClaim
<1>. HIDE DEF r
<1>5. d \in Tables /\ Rows(d) /\ Agree(d) /\ Kept(r, d)
  BY <1>1, <1>3, Converges
<1>6. Kept(db, d)
  BY <1>2, <1>3, <1>5, KeptTwice
<1>. HIDE DEF d
<1>7. goes => Underway(d)
  BY <1>5 DEF Agree
<1>8. \A i \in Items : d.item[i] \in Row /\ RowOK(d.item[i])
  BY <1>5 DEF Tables, Rows
<1>9. ASSUME NEW i \in Items, NEW x \in Row, NEW pc \in {"working", "received"}, goes,
             Give(w, d, i, x, pc),
             d.item[i].status \in Unsettled, x.grant = d.item[i].grant,
             x.by = d.item[i].by, x.current, ~x.before,
             x.attempt \in {"running", "result_received"},
             x.attempt = "running" => x.out = "none" /\ x.repair \in {"none", "claimed"}
      PROVE  /\ Sound(db') /\ Moves(db, db')
             /\ \E n \in Nat :
                  worker' = [worker EXCEPT ![w] =
                                [Idle EXCEPT !.pc = pc, !.item = i, !.token = n]]
  <2>. DEFINE e == Put(d, i, Hand(x, l))
  <2>1. db' = e
    BY <1>9 DEF Give, Hand
  <2>2. d.item[i].by = 0
    BY <1>8, <1>9 DEF RowOK, RowHeld
  <2>3. Sound(e) /\ Moves(d, e)
    BY <1>1, <1>5, <1>7, <1>9, <2>2, Hands
  <2>4. Moves(db, e)
    BY <1>2, <1>5, <1>6, <2>3, KeptMoves DEF Sound
  <2>5. x.grant + 1 \in Nat
    BY DEF Row
  <2>. QED
    BY <1>9, <2>1, <2>3, <2>4, <2>5 DEF Give
<1>10. CASE goes /\ TakeResult(w, d)
  <2>1. PICK i \in results :
           LET x == d.item[i]
           IN IF x.attempt = "result_received" THEN Give(w, d, i, x, "received")
              ELSE Give(w, d, i, [x EXCEPT !.attempt = "running", !.repair = "claimed",
                                           !.claims = @ + 1, !.saved = "none", !.out = "none",
                                           !.grace = 0], "working")
    BY <1>10 DEF TakeResult
  <2>. DEFINE x == d.item[i]
              y == [x EXCEPT !.attempt = "running", !.repair = "claimed",
                             !.claims = @ + 1, !.saved = "none", !.out = "none",
                             !.grace = 0]
  <2>2. /\ i \in Items /\ x.current
        /\ \/ x.attempt = "repair_pending" /\ x.status = "repair_pending"
           \/ x.attempt = "result_received" /\ x.status \in {"paused", "running"}
    BY DEF Room, Results
  <2>3. x \in Row /\ RowOK(x) /\ ~x.before
    BY <1>8, <2>2 DEF RowOK, RowRepeats
  <2>4. CASE x.attempt = "result_received"
    BY <1>9, <1>10, <2>1, <2>2, <2>3, <2>4
  <2>5. CASE x.attempt # "result_received"
    <3>1. Give(w, d, i, y, "working")
      BY <2>1, <2>5
    <3>. HIDE DEF x
    <3>2. /\ y \in Row /\ y.attempt = "running" /\ y.repair = "claimed" /\ y.out = "none"
          /\ y.current = x.current /\ y.before = x.before /\ y.grant = x.grant
          /\ y.by = x.by
      BY <2>3, RepairingRow
    <3>. HIDE DEF y
    <3>3. d.item[i] = x
      BY DEF x
    <3>. QED
      BY <1>9, <1>10, <2>2, <2>3, <2>5, <3>1, <3>2, <3>3
  <2>. QED
    BY <2>4, <2>5
<1>11. CASE goes /\ TakeCheckpoint(w, d)
  <2>1. PICK i \in Room(d, Resumable(d)) :
           LET x == d.item[i]
           IN \/ Give(w, d, i, [x EXCEPT !.attempt = "running"], "working")
              \/ /\ db' = FailStep(Put(d, i, Lose(Detach(x, "failed"), "failed")))
                 /\ worker' = Rest(w)
    BY <1>11 DEF TakeCheckpoint
  <2>. DEFINE x == d.item[i]
              y == [x EXCEPT !.attempt = "running"]
              z == Detach(x, "failed")
              u == Lose(z, "failed")
  <2>2. /\ i \in Items /\ x.current /\ x.attempt \in Parked /\ x.status = x.attempt
    BY DEF Room, Resumable
  <2>3. /\ x \in Row /\ RowOK(x) /\ ~x.before /\ x.out = "none"
        /\ x.repair \in {"none", "claimed"} /\ x.by = 0
    BY <1>8, <2>2 DEF RowOK, RowRepeats, RowKeeps, RowHeld
  <2>4. CASE Give(w, d, i, y, "working")
    <3>. HIDE DEF x
    <3>1. /\ y \in Row /\ y.attempt = "running" /\ y.repair = x.repair /\ y.out = x.out
          /\ y.current = x.current /\ y.before = x.before /\ y.grant = x.grant
          /\ y.by = x.by
      BY <2>3 DEF Row, AttemptStatus
    <3>. HIDE DEF y
    <3>2. d.item[i] = x
      BY DEF x
    <3>3. x.status \in Unsettled /\ y.current /\ ~y.before /\ y.out = "none"
          /\ y.repair \in {"none", "claimed"}
      BY <2>2, <2>3, <3>1
    <3>4. "working" \in {"working", "received"} /\ y.attempt \in {"running", "result_received"}
      BY <3>1
    <3>. QED
      BY <1>9, <1>11, <2>2, <2>4, <3>1, <3>2, <3>3, <3>4
  <2>5. CASE db' = FailStep(Put(d, i, u)) /\ worker' = Rest(w)
    <3>. DEFINE e == Put(d, i, u)
                f == FailStep(e)
    <3>. HIDE DEF x
    <3>1. /\ z \in Row /\ z.status = "failed" /\ z.current = FALSE /\ z.grant = x.grant
          /\ z.before = x.before /\ z.by = x.by
      BY <2>3, DetachRow DEF ItemStatus
    <3>. HIDE DEF z
    <3>2. u \in Row /\ SameRow(z, u) /\ u.attempt = "failed"
      BY <3>1, LoseRow
    <3>. HIDE DEF u
    <3>3. RowOK(u) /\ Eased(x, u) /\ u.status = "failed"
      BY <2>2, <2>3, <3>1, <3>2
      DEF SameRow, RowOK, RowAgrees, RowKeeps, RowRepeats, RowHeld, Eased, Eases
    <3>4. e \in Tables /\ Rows(e) /\ Kept(d, e)
      BY <1>5, <2>2, <3>2, <3>3, PutItem DEF x
    <3>5. Underway(e)
      BY <1>5, <1>7, <1>11, <2>2, <3>2, <3>3, PutUnderway
    <3>. HIDE DEF e
    <3>6. f \in Tables /\ Rows(f) /\ Agree(f) /\ Kept(e, f)
      BY <3>4, <3>5, Fails
    <3>7. db' = f
      BY <2>5 DEF e
    <3>. HIDE DEF f
    <3>8. Kept(db, f)
      BY <1>2, <1>5, <1>6, <3>4, <3>6, KeptTwice
    <3>. QED
      BY <2>5, <3>6, <3>7, <3>8, StillMoves DEF Sound
  <2>. QED
    BY <2>1, <2>4, <2>5
<1>12. CASE goes /\ Room(d, Fresh(d)) # {} /\ TakeFresh(w, d)
  <2>. DEFINE i == CHOOSE j \in Room(d, Fresh(d)) : \A k \in Room(d, Fresh(d)) : j <= k
              x == d.item[i]
              y == Begin(x)
  <2>1. Give(w, d, i, y, "working")
    BY <1>12 DEF TakeFresh
  <2>2. Room(d, Fresh(d)) \subseteq Fresh(d) /\ Fresh(d) \subseteq Items
    BY DEF Room, Fresh
  <2>3. i \in Fresh(d)
    <3>1. i \in Room(d, Fresh(d))
      BY <1>12, <2>2, First
    <3>. QED
      BY <2>2, <3>1
  <2>. HIDE DEF i
  <2>4. i \in Items /\ x.status = "pending" /\ x \in Row /\ RowOK(x)
    BY <1>8, <2>3 DEF Fresh
  <2>. HIDE DEF x
  <2>5. /\ y \in Row /\ y.attempt = "running" /\ y.current /\ ~y.before
        /\ y.out = "none" /\ y.repair = "none" /\ y.grant = x.grant /\ y.by = x.by
    BY <2>4, BegunRow
  <2>. HIDE DEF y
  <2>6. d.item[i] = x
    BY DEF x
  <2>. QED
    BY <1>9, <1>12, <2>1, <2>4, <2>5, <2>6
<1>13. CASE db' = d /\ worker' = Rest(w)
  BY <1>5, <1>6, <1>13, StillMoves DEF Sound
<1>. QED
  BY <1>4, <1>10, <1>11, <1>12, <1>13

LEMMA TickSound ==
    ASSUME Good, Tick
    PROVE  Sound(db') /\ Moves(db, db')
<1>. DEFINE L(x) == IF x.attempt \in {"running", "result_received"} /\ x.lease > -MaxWait
                    THEN x.lease - 1 ELSE x.lease
            G(x) == IF x.attempt = "result_received" /\ x.grace > -MaxWait
                    THEN x.grace - 1 ELSE x.grace
            new == [i \in Items |-> [db.item[i] EXCEPT !.lease = L(db.item[i]),
                                                       !.grace = G(db.item[i])]]
            e == [db EXCEPT !.item = new]
<1>1. Sound(db) /\ \A i \in Items : db.item[i] \in Row /\ RowOK(db.item[i])
  BY GoodSound
<1>2. db' = e
  BY DEF Tick
<1>3. ASSUME NEW i \in Items
      PROVE  /\ new[i] \in Row /\ RowOK(new[i]) /\ SameRow(db.item[i], new[i])
             /\ new[i].call = db.item[i].call
  <2>. DEFINE x == db.item[i]
              l == L(x)
              g == G(x)
              y == [x EXCEPT !.lease = l, !.grace = g]
  <2>1. x \in Row /\ RowOK(x) /\ new[i] = y
    BY <1>1
  <2>2. l \in Int /\ g \in Int
    BY <2>1 DEF Row
  <2>. HIDE DEF x, l, g
  <2>3. y \in Row /\ SameRow(x, y) /\ y.attempt = x.attempt /\ y.call = x.call
    BY <2>1, <2>2 DEF Row, SameRow
  <2>. HIDE DEF y, new
  <2>4. RowOK(y)
    BY <2>1, <2>3 DEF SameRow, RowOK, RowAgrees, RowKeeps, RowRepeats, RowHeld, Clean
  <2>. QED
    BY <2>1, <2>3, <2>4 DEF x
<1>4. new \in [Items -> Row]
  BY <1>3
<1>. HIDE DEF new
<1>5. e \in Tables /\ e.run = db.run /\ e.step = db.step /\ e.item = new
  BY <1>1, <1>4 DEF Sound, Tables
<1>. HIDE DEF e
<1>6. Rows(e) /\ Kept(db, e)
  BY <1>3, <1>5 DEF Rows, Kept, SameRow, Eased, Eases
<1>7. Agree(e)
  BY <1>1, <1>3, <1>5 DEF Sound, Agree, Underway, Unfinished, Going, SameRow
<1>. QED
  BY <1>2, <1>5, <1>6, <1>7, StillMoves DEF Sound

-----------------------------------------------------------------------------
(* The theorems.                                                           *)

LEMMA ItemTyped == Items \subseteq Item
BY BatchAssumption DEF Items, Item

\* A worker gets no item but by a claim, and keeps the one it has until it
\* rests.
LEMMA GoesOn ==
    ASSUME Good, NEW w \in Worker, NEW pc \in Pc, worker' = Go(w, pc),
           ~Rests(pc) => ~Rests(worker[w].pc)
    PROVE  /\ worker' \in [Worker -> Memory]
           /\ \A v \in Worker : ~Rests(worker'[v].pc) => worker'[v].item \in Items
<1>1. worker \in [Worker -> Memory]
  BY GoodSound
<1>2. /\ worker' \in [Worker -> Memory]
      /\ worker'[w].pc = pc /\ worker'[w].item = worker[w].item
      /\ \A v \in Worker : v # w => worker'[v] = worker[v]
  <2>. DEFINE m == [worker[w] EXCEPT !.pc = pc, !.age = Zero]
  <2>1. Zero \in Nat
    BY DEF Zero
  <2>2. worker' = [worker EXCEPT ![w] = m]
    BY <1>1 DEF Go, Zero
  <2>3. m \in Memory /\ m.pc = pc /\ m.item = worker[w].item
    BY <1>1, <2>1 DEF Memory
  <2>. HIDE DEF m
  <2>. QED
    BY <1>1, <2>2, <2>3
<1>. QED
  BY <1>2 DEF Good, Assigned, Rests

LEMMA IdleTyped == Idle \in Memory /\ Idle.pc = "idle"
<1>1. Idle = [pc |-> "idle", item |-> Zero, token |-> Zero, age |-> Zero, asked |-> FALSE]
  BY DEF Idle, Zero
<1>2. Zero \in Nat /\ Zero \in Item \cup {0}
  BY DEF Zero
<1>. QED
  BY <1>1, <1>2 DEF Memory, Pc

LEMMA RestsNow ==
    ASSUME Good, NEW w \in Worker, worker' = Rest(w)
    PROVE  /\ worker' \in [Worker -> Memory]
           /\ \A v \in Worker : ~Rests(worker'[v].pc) => worker'[v].item \in Items
<1>1. worker \in [Worker -> Memory]
  BY GoodSound
<1>2. /\ worker' \in [Worker -> Memory] /\ worker'[w].pc = "idle"
      /\ \A v \in Worker : v # w => worker'[v] = worker[v]
  BY <1>1, IdleTyped DEF Rest
<1>. QED
  BY <1>2 DEF Good, Assigned, Rests

LEMMA TakesOver ==
    ASSUME Good, NEW w \in Worker, NEW i \in Items, NEW n \in Nat,
           NEW pc \in {"working", "received"},
           worker' = [worker EXCEPT ![w] = [Idle EXCEPT !.pc = pc, !.item = i, !.token = n]]
    PROVE  /\ worker' \in [Worker -> Memory]
           /\ \A v \in Worker : ~Rests(worker'[v].pc) => worker'[v].item \in Items
<1>. DEFINE k == Idle
            m == [k EXCEPT !.pc = pc, !.item = i, !.token = n]
<1>1. worker \in [Worker -> Memory] /\ worker' = [worker EXCEPT ![w] = m]
  BY GoodSound
<1>2. k \in Memory /\ i \in Item \cup {0} /\ pc \in Pc
  BY IdleTyped, ItemTyped DEF Pc
<1>. HIDE DEF k
<1>3. m \in Memory /\ m.item = i
  BY <1>2 DEF Memory
<1>. HIDE DEF m
<1>4. /\ worker' \in [Worker -> Memory] /\ worker'[w].item = i
      /\ \A v \in Worker : v # w => worker'[v] = worker[v]
  BY <1>1, <1>3
<1>. QED
  BY <1>4 DEF Good, Assigned, Rests

LEMMA GoodThen ==
    ASSUME Good, Sound(db'), batch' = batch, events' \in Nat, worker' \in [Worker -> Memory],
           \A v \in Worker : ~Rests(worker'[v].pc) => worker'[v].item \in Items
    PROVE  Good'
<1>1. Items' = Items
  BY DEF Items
<1>2. TypeOK'
  BY <1>1 DEF Good, TypeOK, Sound, Tables
<1>3. Rows(db)' /\ Agree(db)'
  BY <1>1 DEF Sound, Rows, Agree, Underway, Unfinished
<1>4. Assigned'
  BY <1>1 DEF Assigned, Rests
<1>. QED
  BY <1>2, <1>3, <1>4 DEF Good

LEMMA UserGood ==
    ASSUME Good, User
    PROVE  Good' /\ Moves(db, db')
<1>1. Sound(db') /\ Moves(db, db')
  BY RequestPauseSound, ResumeRunSound, CancelRunSound, RetrySound, DecideSound, ApproveSound
  DEF User
<1>2. batch' = batch /\ worker' = worker /\ events' \in {events, events + 1}
  BY DEF User, RequestPause, ResumeRun, CancelRun, Retry, Decide, Approve, Event
<1>3. events' \in Nat /\ worker' \in [Worker -> Memory]
  BY <1>2, GoodSound
<1>. QED
  BY <1>1, <1>2, <1>3, GoodThen DEF Good, Assigned, Rests

\* What a step of a worker's does to the workers.
LEMMA StepWorkers ==
    ASSUME Good, NEW w \in Worker, Step(w)
    PROVE  /\ worker' \in [Worker -> Memory]
           /\ \A v \in Worker : ~Rests(worker'[v].pc) => worker'[v].item \in Items
<1>1. CASE ServeClaim(w)
  <2>1. \/ worker' = Rest(w)
        \/ \E i \in Items, n \in Nat, pc \in {"working", "received"} :
               worker' = [worker EXCEPT ![w] =
                             [Idle EXCEPT !.pc = pc, !.item = i, !.token = n]]
    BY <1>1, ServeClaimSound
  <2>. QED
    BY <2>1, RestsNow, TakesOver
<1>2. CASE worker' = Rest(w)
  BY <1>2, RestsNow
<1>3. CASE worker' = worker
  BY <1>3, GoodSound DEF Good, Assigned, Rests
<1>4. CASE BeginCall(w) /\ worker' = [worker EXCEPT ![w].asked = TRUE]
  <2>1. worker \in [Worker -> Memory]
    BY GoodSound
  <2>. DEFINE m == [worker[w] EXCEPT !.asked = TRUE]
  <2>2. m \in Memory /\ m.item = worker[w].item /\ m.pc = worker[w].pc
    BY <2>1 DEF Memory
  <2>3. worker' = [worker EXCEPT ![w] = m]
    BY <1>4, <2>1
  <2>. HIDE DEF m
  <2>4. /\ worker' \in [Worker -> Memory]
        /\ worker'[w].item = worker[w].item /\ worker'[w].pc = worker[w].pc
        /\ \A v \in Worker : v # w => worker'[v] = worker[v]
    BY <2>1, <2>2, <2>3
  <2>. QED
    BY <2>4 DEF Good, Assigned, Rests
<1>5. CASE \E pc \in {"claiming", "submitting", "received", "rejected", "failing"} :
              worker' = Go(w, pc) /\ (pc # "claiming" => ~Rests(worker[w].pc))
  <2>1. PICK pc \in {"claiming", "submitting", "received", "rejected", "failing"} :
              worker' = Go(w, pc) /\ (pc # "claiming" => ~Rests(worker[w].pc))
    BY <1>5
  <2>2. pc \in Pc /\ (~Rests(pc) => ~Rests(worker[w].pc))
    BY <2>1 DEF Pc, Rests
  <2>. QED
    BY <2>1, <2>2, GoesOn
<1>. QED
  BY <1>1, <1>2, <1>3, <1>4, <1>5
  DEF Step, Poll, Beat, Work, Submit, Break, Park, BeginCall, StartCall, EndCall, ServeSubmit,
      Commit, QueueRepair, ServeFail, Crash, Rests

LEMMA Unmoved ==
    ASSUME Good, db' = db
    PROVE  Sound(db') /\ Moves(db, db')
BY GoodSound DEF Moves, Moved, Eased, Eases

LEMMA StepGood ==
    ASSUME Good, NEW w \in Worker, Step(w)
    PROVE  Good' /\ Moves(db, db')
<1>1. Sound(db') /\ Moves(db, db')
  <2>1. CASE db' = db
    BY <2>1, Unmoved
  <2>2. CASE db' # db
    BY <2>2, ServeClaimSound, BeatSound, ParkSound, CallSound, ServeSubmitSound, CommitSound,
       QueueRepairSound, ServeFailSound
    DEF Step, Poll, Work, Submit, Break, Crash
  <2>. QED
    BY <2>1, <2>2
<1>2. batch' = batch /\ events' = events
  BY DEF Step, Poll, ServeClaim, Beat, Work, Submit, Break, Park, BeginCall, StartCall, EndCall,
         ServeSubmit, Commit, QueueRepair, ServeFail, Crash
<1>3. events' \in Nat
  BY <1>2, GoodSound
<1>. QED
  BY <1>1, <1>2, <1>3, StepWorkers, GoodThen

LEMMA TickGood ==
    ASSUME Good, Tick
    PROVE  Good' /\ Moves(db, db')
<1>1. Sound(db') /\ Moves(db, db')
  BY TickSound
<1>2. worker \in [Worker -> Memory]
  BY GoodSound
<1>3. ASSUME NEW v \in Worker
      PROVE  /\ worker'[v] \in Memory
             /\ worker'[v].pc = worker[v].pc /\ worker'[v].item = worker[v].item
  <2>. DEFINE m == worker[v]
              n == m.age + 1
              k == [m EXCEPT !.age = n]
  <2>1. m \in Memory /\ worker'[v] = IF Waits(v) THEN k ELSE m
    BY <1>2 DEF Tick
  <2>2. n \in Nat
    BY <2>1 DEF Memory
  <2>. HIDE DEF m, n
  <2>3. k \in Memory /\ k.pc = m.pc /\ k.item = m.item
    BY <2>1, <2>2 DEF Memory
  <2>. QED
    BY <2>1, <2>3 DEF m
<1>4. worker' \in [Worker -> Memory]
  BY <1>3 DEF Tick
<1>5. batch' = batch /\ events' \in Nat
  BY GoodSound DEF Tick
<1>. QED
  BY <1>1, <1>3, <1>4, <1>5, GoodThen DEF Good, Assigned, Rests

LEMMA InitGood == Init => Good
<1>. SUFFICES ASSUME Init PROVE Good
  OBVIOUS
<1>1. /\ db.run = "running" /\ db.step = "running" /\ db.item = [i \in Items |-> NewRow]
      /\ db = [run |-> "running", step |-> "running", item |-> [i \in Items |-> NewRow]]
  BY DEF Init
<1>2. db \in Tables
  BY <1>1, NewRowOK DEF Tables, RunStatus, StepStatus
<1>3. \A i \in Items : db.item[i] = NewRow
  BY <1>1
<1>4. Rows(db)
  BY <1>3, NewRowOK DEF Rows
<1>5. 1 \in Items
  BY BatchAssumption DEF Items, Item
<1>6. Agree(db)
  BY <1>1, <1>3, <1>5, NewRowOK DEF Agree, Underway, Unfinished, Going
<1>7. TypeOK
  BY <1>2, IdleTyped DEF Init, TypeOK, Tables
<1>8. Assigned
  BY IdleTyped DEF Init, Assigned
<1>. QED
  BY <1>4, <1>6, <1>7, <1>8 DEF Good

LEMMA NextGood ==
    ASSUME Good, [Next]_vars
    PROVE  Good' /\ Moves(db, db') /\ batch' = batch
<1>1. CASE UNCHANGED vars
  <2>1. Sound(db') /\ Moves(db, db')
    BY <1>1, Unmoved DEF vars
  <2>2. Good'
    BY <1>1, <2>1, GoodThen, GoodSound DEF vars, Good, Assigned, Rests
  <2>. QED
    BY <1>1, <2>1, <2>2 DEF vars
<1>2. CASE Next
  <2>1. Good' /\ Moves(db, db')
    BY <1>2, UserGood, StepGood, TickGood DEF Next
  <2>2. batch' = batch
    BY <1>2 DEF Next, User, RequestPause, ResumeRun, CancelRun, Retry, Decide, Approve, Step,
           Poll, ServeClaim, Beat, Work, Submit, Break, Park, BeginCall, StartCall, EndCall,
           ServeSubmit, Commit, QueueRepair, ServeFail, Crash, Tick
  <2>. QED
    BY <2>1, <2>2
<1>. QED
  BY <1>1, <1>2

\* What rows, run, step and items say of each other is kept by every command.
THEOREM GoodAlways == Spec => []Good
BY InitGood, NextGood, PTL DEF Spec

\* Every variable keeps to its type, whatever the workers and the user do.
THEOREM TypeCorrect == Spec => []TypeOK
BY GoodAlways, PTL DEF Good

\* The rows of the run, of its step and of its items never contradict each
\* other, though a command writes several of them.
THEOREM StatusesAgreeAlways == Spec => []StatusesAgree
<1>1. Good => StatusesAgree
  BY DEF Good, Agree, Underway, Going, StatusesAgree
<1>. QED
  BY <1>1, GoodAlways, PTL

\* An item and its attempt are always at the same point.
THEOREM ItemsAgreeAlways == Spec => []ItemsAgree
<1>1. ASSUME Good PROVE ItemsAgree
  <2>. DEFINE Same(x) ==
         /\ x.attempt \in Live => x.current
         /\ CASE x.status = "running" -> x.attempt \in {"running", "result_received"}
              [] x.status \in Parked /\ x.current -> x.attempt \in {x.status, "result_received"}
              [] x.status \in {"repair_pending", "succeeded"} -> x.attempt = x.status
              [] OTHER -> x.attempt \notin Live
  <2>1. ASSUME NEW x \in Row, RowOK(x) PROVE Same(x)
    <3>1. x.status \in ItemStatus
      BY DEF Row
    <3>. QED
      BY <2>1, <3>1 DEF ItemStatus, RowOK, RowAgrees
  <2>. HIDE DEF Same
  <2>2. \A i \in Items : Same(db.item[i])
    BY <1>1, <2>1, GoodSound
  <2>. QED
    BY <2>2 DEF Same, ItemsAgree
<1>. QED
  BY <1>1, GoodAlways, PTL

\* A response the Store received is never thrown away by an expiry or a pause.
THEOREM ResultKeptAlways == Spec => []ResultKept
<1>1. Good => ResultKept
  BY DEF Good, Rows, RowOK, RowKeeps, ResultKept
<1>. QED
  BY <1>1, GoodAlways, PTL

\* What may have acted is never begun anew, by no expiry, failure, pause,
\* repair or retry.
THEOREM NoWriteReplayedAlways == Spec => []NoWriteReplayed
<1>1. Good => NoWriteReplayed
  BY DEF Good, Rows, RowOK, RowRepeats, Clean, NoWriteReplayed
<1>. QED
  BY <1>1, GoodAlways, PTL

\* A running run is never left with nothing to be done for it.
THEOREM NeverStallsAlways == Spec => []NeverStalls
<1>1. ASSUME Good, db.run = "running",
             Results(db, MaxWait) \cup Resumable(db) \cup Fresh(db) = {},
             ~\E i \in Items : \/ db.item[i].status = "running"
                               \/ db.item[i].call = "pending_approval"
      PROVE  batch = "sequential" /\ FailedItems(db) # {}
  <2>1. \A i \in Items : db.item[i] \in Row /\ RowOK(db.item[i])
    BY <1>1, GoodSound
  <2>2. Underway(db) /\ Unfinished(db)
    BY <1>1 DEF Good, Agree
  <2>3. \A i \in Items : db.item[i].status \in {"pending", "succeeded", "failed"}
    <3>. SUFFICES ASSUME NEW i \in Items, NEW x \in Row, RowOK(x), x = db.item[i],
                         x.status \notin {"pending", "succeeded", "failed"}
                  PROVE  FALSE
      BY <2>1
    <3>1. /\ x.status \in {"repair_pending"} \cup Parked
          /\ x.status = "paused" => x.current
      BY <1>1, <2>2 DEF Underway, Row, ItemStatus
    <3>2. \/ x.attempt = "repair_pending" /\ x.status = "repair_pending"
          \/ x.attempt = "result_received" /\ x.status = "paused"
          \/ x.attempt \in Parked /\ x.status = x.attempt
      BY <3>1 DEF RowOK, RowAgrees
    <3>3. x.current
      BY <3>2 DEF RowOK, RowAgrees
    <3>4. i \in Results(db, MaxWait) \/ i \in Resumable(db)
      BY <1>1, <3>2, <3>3 DEF Results, Resumable
    <3>. QED
      BY <1>1, <3>4
  <2>4. PICK i \in Items : db.item[i].status = "pending"
    BY <2>2, <2>3 DEF Unfinished
  <2>5. \A j \in Items : db.item[j].status = "pending" => ~db.item[j].current
    BY <2>1 DEF RowOK, RowAgrees
  <2>6. batch = "sequential"
    BY <1>1, <2>4, <2>5 DEF Fresh
  <2>7. Items = 1 .. Count
    BY <2>6 DEF Items, Item
  <2>. DEFINE S == {j \in Items : db.item[j].status # "succeeded"}
  <2>8. PICK m \in S : \A n \in S : m <= n
    <3>1. S \subseteq Nat /\ S # {}
      BY <2>4, <2>7
    <3>. HIDE DEF S
    <3>. QED
      BY <3>1, Least
  <2>9. \A j \in 1 .. (m - 1) : db.item[j].status = "succeeded"
    BY <2>7, <2>8, BatchAssumption
  <2>10. db.item[m].status # "pending"
    BY <1>1, <2>5, <2>8, <2>9 DEF Fresh
  <2>. QED
    BY <2>3, <2>6, <2>8, <2>10 DEF FailedItems
<1>2. Good => NeverStalls
  BY <1>1 DEF NeverStalls
<1>. QED
  BY <1>2, GoodAlways, PTL

-----------------------------------------------------------------------------
(* WorkflowRun implements LeasedWork.                                      *)

\* The step of LeasedWork that i takes.
StepOf(i) == LW!Stay(i) \/ LW!Give(i) \/ LW!TakeBack(i) \/ LW!Answer(i) \/ LW!Close(i) \/ LW!Reopen(i)

PhaseOf(s) ==
    IF s = "running" THEN "held" ELSE IF s = "succeeded" THEN "answered"
    ELSE IF s \in {"failed", "cancelled"} THEN "closed" ELSE "open"

LEMMA Phases ==
    ASSUME NEW i \in Item
    PROVE  /\ i \in Items => Phase(i) = PhaseOf(db.item[i].status)
           /\ i \notin Items => Phase(i) = "absent"
<1>1. i \notin Items => Phase(i) = "absent"
  BY DEF Phase
<1>2. CASE i \in Items
  <2>. DEFINE s == db.item[i].status
  <2>1. CASE s = "running"
    BY <1>2, <2>1 DEF Phase, PhaseOf
  <2>2. CASE s = "succeeded"
    BY <1>2, <2>2 DEF Phase, PhaseOf
  <2>3. CASE s \in {"failed", "cancelled"}
    BY <1>2, <2>3 DEF Phase, PhaseOf
  <2>4. CASE s \notin {"running", "succeeded", "failed", "cancelled"}
    BY <1>2, <2>4 DEF Phase, PhaseOf
  <2>. QED
    BY <1>2, <2>1, <2>2, <2>3, <2>4
<1>. QED
  BY <1>1, <1>2

LEMMA PhasesNext ==
    ASSUME batch' = batch, NEW i \in Item
    PROVE  /\ i \in Items => Phase(i)' = PhaseOf(db'.item[i].status)
           /\ i \notin Items => Phase(i)' = "absent"
<1>0. Items' = Items
  BY DEF Items
<1>1. i \notin Items => Phase(i)' = "absent"
  BY <1>0 DEF Phase
<1>2. CASE i \in Items
  <2>. DEFINE s == db'.item[i].status
  <2>1. CASE s = "running"
    BY <1>0, <1>2, <2>1 DEF Phase, PhaseOf
  <2>2. CASE s = "succeeded"
    BY <1>0, <1>2, <2>2 DEF Phase, PhaseOf
  <2>3. CASE s \in {"failed", "cancelled"}
    BY <1>0, <1>2, <2>3 DEF Phase, PhaseOf
  <2>4. CASE s \notin {"running", "succeeded", "failed", "cancelled"}
    BY <1>0, <1>2, <2>4 DEF Phase, PhaseOf
  <2>. QED
    BY <1>2, <2>1, <2>2, <2>3, <2>4
<1>. QED
  BY <1>1, <1>2

\* Whatever a step makes of an item is a step of LeasedWork's.
LEMMA ItemSteps ==
    ASSUME Moves(db, db'), batch' = batch, NEW i \in Item
    PROVE  StepOf(i)
<1>1. Items' = Items
  BY DEF Items
<1>2. CASE i \notin Items
  <2>1. Phase(i) = "absent" /\ Phase(i)' = "absent"
    BY <1>2, Phases, PhasesNext
  <2>. QED
    BY <1>1, <1>2, <2>1 DEF StepOf, LW!Stay, LW!Keeps
<1>3. CASE i \in Items
  <2>. DEFINE x == db.item[i]
              y == db'.item[i]
              p == Phase(i)
              q == Phase(i)'
  <2>1. Moved(x, y)
    BY <1>3 DEF Moves
  <2>2. p = PhaseOf(x.status) /\ q = PhaseOf(y.status)
    BY <1>3, Phases, PhasesNext
  <2>3. CASE Eased(x, y)
    <3>1. LW!Keeps(i)
      BY <1>1, <1>3, <2>3 DEF LW!Keeps, Eased
    <3>2. \/ q = p
          \/ p \in {"open", "held"} /\ q = "open"
          \/ p \in {"open", "held", "closed"} /\ q = "closed"
      BY <2>2, <2>3 DEF Eased, Eases, PhaseOf
    <3>. QED
      BY <3>1, <3>2 DEF StepOf, LW!Stay, LW!TakeBack, LW!Close, LW!Moves
  <2>4. CASE Given(x, y)
    <3>1. p \in {"open", "held"} /\ q = "held"
      BY <2>2, <2>4 DEF Given, PhaseOf
    <3>. QED
      BY <1>1, <1>3, <2>4, <3>1 DEF StepOf, LW!Give, LW!Moves, Given
  <2>5. CASE Answered(x, y)
    <3>1. p = "held" /\ q = "answered"
      BY <2>2, <2>5 DEF Answered, PhaseOf
    <3>. QED
      BY <1>1, <1>3, <2>5, <3>1 DEF StepOf, LW!Answer, LW!Moves, Answered
  <2>6. CASE Reopened(x, y)
    <3>1. p = "closed" /\ q = "open"
      BY <2>2, <2>6 DEF Reopened, PhaseOf
    <3>2. LW!Keeps(i)
      BY <1>1, <1>3, <2>6 DEF LW!Keeps, Reopened
    <3>. QED
      BY <3>1, <3>2 DEF StepOf, LW!Reopen, LW!Moves
  <2>. QED
    BY <2>1, <2>3, <2>4, <2>5, <2>6 DEF Moved
<1>. QED
  BY <1>2, <1>3

\* An item is given to one worker at a time, each time under a new token, and
\* its result is committed at most once, under its newest token.
THEOREM Implements == Spec => GivenAndAnswered
<1>1. Init => LW!Init
  <2>. SUFFICES ASSUME Init PROVE LW!Init
    OBVIOUS
  <2>1. \A i \in Items : db.item[i] = NewRow
    BY DEF Init
  <2>2. \A i \in Items : /\ db.item[i].grant = 0 /\ db.item[i].by = 0
                         /\ db.item[i].status = "pending"
    BY <2>1, NewRowOK
  <2>3. \A i \in Item : Phase(i) \in {"absent", "open"}
    BY <2>2, Phases DEF PhaseOf
  <2>. QED
    BY <2>2, <2>3 DEF LW!Init
<1>2. Good /\ [Next]_vars => [LW!Next]_LW!vars
  <2>. SUFFICES ASSUME Good, [Next]_vars PROVE LW!Next
    OBVIOUS
  <2>1. Moves(db, db') /\ batch' = batch
    BY NextGood
  <2>. QED
    BY <2>1, ItemSteps DEF StepOf, LW!Next
<1>. QED
  BY <1>1, <1>2, GoodAlways, PTL DEF Spec, GivenAndAnswered, LW!Spec
=============================================================================
