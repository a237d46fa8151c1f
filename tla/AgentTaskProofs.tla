--------------------------- MODULE AgentTaskProofs ---------------------------
(* Theorems about AgentTask, for any numbers of tasks, workers and calls,  *)
(* any length of a lease and any bound.  They rest on one inductive        *)
(* invariant, Good, whose parts need each other.                           *)
EXTENDS AgentTask, TLAPS

USE DEF taskVars, callVars, history

-----------------------------------------------------------------------------
(* The inductive invariant.                                                *)

\* What a worker does while a request of its is on the way.
Waits(pc, op) ==
    \/ pc = "claiming" /\ op = "claim"
    \/ pc = "working" /\ op = "progress"
    \/ pc = "completing" /\ op = "complete"
    \/ pc = "parking" /\ op = "park"
    \/ pc = "failing" /\ op = "fail"

\* A worker has at most one request on its way, for the claim it holds, and
\* waits for the answer; only the request for a claim names no task.
Addressed ==
    /\ \A r \in requests : r.op # "claim" => r.claim.task \in Task
    /\ \A w \in Worker : worker[w].pc \notin {"idle", "claiming"} =>
           worker[w].claim.task \in Task
    /\ \A r \in requests : r.from \in Worker =>
           /\ r.claim = worker[r.from].claim
           /\ Waits(worker[r.from].pc, r.op)
    /\ \A r, s \in requests : r.from = s.from /\ r.from \in Worker => r = s

\* The live attempt is the last, and carries the newest token.
Owned ==
    /\ OneOwner
    /\ \A t \in Task : status[t] \in Active => attempts[t] \in AttemptNo
    /\ \A t \in Task : checkpoint[t].saved => checkpoint[t].attempt \in AttemptNo
    /\ \A t \in Task, n \in AttemptNo :
           attempt[t][n].status = "running" => attempt[t][n].token = granted[t]

Unbegun == {"absent", "queued", "paused"}
\* A task that will be done from nothing has an attempt left and no write
\* behind it.
Fresh ==
    \A t \in Task :
        /\ ~checkpoint[t].saved => checkpoint[t] = NoCheckpoint
        /\ status[t] = "waiting_approval" => checkpoint[t].saved
        /\ status[t] = "absent" => ~checkpoint[t].saved
        /\ status[t] \in Unbegun /\ ~checkpoint[t].saved =>
               /\ attempts[t] < limit[t]
               /\ \A c \in CallsOf(t) : c \notin Writes \cap started

\* The last attempt's checkpoint is there until its task ends.
Kept ==
    /\ \A p \in saved : p[2] <= attempts[p[1]]
    /\ \A t \in Task : /\ <<t, attempts[t]>> \in saved /\ retried[t] < attempts[t]
                       /\ status[t] \notin Ended
                       => checkpoint[t].saved

Good == TypeOK /\ Addressed /\ Owned /\ Fresh /\ WritesOnce /\ Kept /\ NoSilentRestart

-----------------------------------------------------------------------------
(* What the parts say of a claim, and of the rows after an expiry.         *)

LEMMA AttemptNumbers == AttemptNo \subseteq Nat \ {0}
BY BoundAssumption DEF AttemptNo

LEMMA ClaimTyped ==
    ASSUME NEW k \in Claimed, k.task \in Task
    PROVE  k \in [task : Task, attempt : AttemptNo, token : Nat]
BY NameAssumption DEF Claimed, NoClaim

LEMMA Closing ==
    ASSUME NEW a \in Attempt, NEW s \in AttemptStatus
    PROVE  /\ Close(a, s) \in Attempt
           /\ Close(a, s).status = s /\ Close(a, s).token = a.token
BY DEF Close, Attempt

LEMMA HeldLast ==
    ASSUME Good, NEW k \in [task : Task, attempt : AttemptNo, token : Nat],
           NEW age, Holds(k, age)
    PROVE  /\ k.attempt = attempts[k.task] /\ k.token = granted[k.task]
           /\ status[k.task] \in Active
           /\ attempt[k.task][k.attempt].status = "running"
           /\ \A n \in AttemptNo : n # k.attempt => attempt[k.task][n].status \notin Live
BY DEF Good, Owned, OneOwner, Holds, Live

LEMMA ExpiredLast ==
    ASSUME Good, NEW age, NEW t \in Task, t \in Overdue(age)
    PROVE  /\ status[t] \in Active
           /\ attempts[t] \in AttemptNo
           /\ Expired(t, age) = {attempts[t]}
           /\ attempt[t][attempts[t]].status = "running"
           /\ \A n \in AttemptNo : AttemptThen(age)[t][n].status \notin Live
<1>1. PICK n \in AttemptNo : n \in Expired(t, age)
  BY DEF Overdue, Expired
<1>2. /\ status[t] \in Active /\ attempts[t] \in AttemptNo
      /\ attempt[t][attempts[t]].status = "running"
  BY <1>1 DEF Expired, Good, Owned, OneOwner
<1>3. \A m \in AttemptNo : m \in Expired(t, age) => m = attempts[t]
  BY DEF Expired, Good, Owned, OneOwner, Live
<1>4. Expired(t, age) = {attempts[t]}
  BY <1>1, <1>3 DEF Expired
<1>5. \A m \in AttemptNo : AttemptThen(age)[t][m].status \notin Live
  <2>. SUFFICES ASSUME NEW m \in AttemptNo
                PROVE  AttemptThen(age)[t][m].status \notin Live
    OBVIOUS
  <2>1. attempt[t][m] \in Attempt
    BY DEF Good, TypeOK
  <2>2. CASE m = attempts[t]
    <3>1. AttemptThen(age)[t][m] = Close(attempt[t][m], "expired")
      BY <1>4, <2>2 DEF AttemptThen
    <3>. QED
      BY <2>1, <3>1, Closing DEF AttemptStatus, Live, Parked
  <2>3. CASE m # attempts[t]
    BY <1>4, <2>3 DEF AttemptThen, Good, Owned, OneOwner
  <2>. QED
    BY <2>2, <2>3
<1>. QED
  BY <1>2, <1>4, <1>5

LEMMA Unexpired ==
    ASSUME Good, NEW age, NEW t \in Task, t \notin Overdue(age)
    PROVE  /\ StatusThen(age)[t] = status[t] /\ CheckpointThen(age)[t] = checkpoint[t]
           /\ AttemptThen(age)[t] = attempt[t]
<1>1. Expired(t, age) = {}
  BY DEF Overdue
<1>. QED
  BY <1>1 DEF Good, TypeOK, StatusThen, CheckpointThen, AttemptThen

-----------------------------------------------------------------------------
(* The types.                                                              *)

LEMMA InitGood == Init => Good
<1>. SUFFICES ASSUME Init PROVE Good
  OBVIOUS
<1>1. TypeOK
  <2>1. NoAttempt \in Attempt /\ NoCheckpoint \in Checkpoint /\ Idle \in Memory
    BY DEF NoAttempt, Attempt, AttemptStatus, NoCheckpoint, Checkpoint, Idle, NoClaim,
           Memory, Pc, Claimed
  <2>2. \A t \in Task : attempts[t] <= limit[t]
    BY BoundAssumption DEF Init
  <2>3. attempts \in [Task -> Nat] /\ limit \in [Task -> Nat]
    BY BoundAssumption DEF Init
  <2>. QED
    BY <2>1, <2>2, <2>3 DEF Init, TypeOK, Status, CallStatus
<1>2. Addressed
  BY DEF Init, Addressed, Idle
<1>3. Owned
  BY DEF Init, Owned, OneOwner, Active, Live, Parked, NoAttempt, NoCheckpoint
<1>4. Fresh
  BY BoundAssumption DEF Init, Fresh, NoCheckpoint
<1>5. WritesOnce /\ Kept /\ NoSilentRestart
  BY DEF Init, WritesOnce, Kept, NoSilentRestart
<1>. QED
  BY <1>1, <1>2, <1>3, <1>4, <1>5 DEF Good

LEMMA NoneSaved == NoCheckpoint \in Checkpoint
BY DEF NoCheckpoint, Checkpoint

LEMMA CallsTyped ==
    ASSUME Good, NEW T
    PROVE  CallsWithout(T) \in [Call -> CallStatus]
BY DEF Good, TypeOK, CallsWithout, CallStatus

LEMMA UserTypes ==
    ASSUME Good, User
    PROVE  TypeOK'
<1>. USE DEF Good
<1>1. ASSUME NEW t \in Task, Start(t) PROVE TypeOK'
  BY <1>1 DEF TypeOK, Start, Status
<1>2. ASSUME NEW t \in Task, Pause(t) PROVE TypeOK'
  BY <1>2 DEF TypeOK, Pause, Event, Status, Active, Parked
<1>3. ASSUME NEW t \in Task, Resume(t) PROVE TypeOK'
  BY <1>3 DEF TypeOK, Resume, ResumeStatus, Event, Status, Parked
<1>4. ASSUME NEW t \in Task, Cancel(t) PROVE TypeOK'
  <2>1. [n \in AttemptNo |-> IF attempt[t][n].status \in Live
                             THEN Close(attempt[t][n], "cancelled") ELSE attempt[t][n]]
            \in [AttemptNo -> Attempt]
    <3>. SUFFICES ASSUME NEW n \in AttemptNo
                  PROVE  (IF attempt[t][n].status \in Live
                          THEN Close(attempt[t][n], "cancelled") ELSE attempt[t][n]) \in Attempt
      OBVIOUS
    <3>1. attempt[t][n] \in Attempt /\ "cancelled" \in AttemptStatus
      BY DEF TypeOK, AttemptStatus
    <3>. QED
      BY <3>1, Closing
  <2>2. attempt' \in [Task -> [AttemptNo -> Attempt]]
    BY <1>4, <2>1 DEF TypeOK, Cancel, CloseAttempts
  <2>3. call' \in [Call -> CallStatus]
    BY <1>4, CallsTyped DEF Cancel, CancelTools
  <2>4. status' \in [Task -> Status] /\ checkpoint' \in [Task -> Checkpoint]
    BY <1>4, NoneSaved DEF TypeOK, Cancel, Status, Ended
  <2>. QED
    BY <1>4, <2>2, <2>3, <2>4 DEF TypeOK, Cancel, Event
<1>5. ASSUME NEW t \in Task, Retry(t) PROVE TypeOK'
  <2>1. call' \in [Call -> CallStatus]
    BY <1>5, CallsTyped DEF Retry, CancelTools
  <2>. QED
    BY <1>5, <2>1, NoneSaved DEF TypeOK, Retry, RaiseLimit, Event, Status
<1>6. ASSUME NEW t \in Task, AppendInput(t) PROVE TypeOK'
  <2>1. status' \in [Task -> Status]
    BY <1>6 DEF TypeOK, AppendInput, InputStatus, Status, Active, Parked
  <2>2. inputPause' \in [Task -> BOOLEAN]
    BY <1>6 DEF TypeOK, AppendInput, PausesForInput
  <2>3. events' \in Nat /\ unread' \in [Task -> BOOLEAN]
    BY <1>6 DEF TypeOK, AppendInput, Event
  <2>4. UNCHANGED <<attempts, limit, attempt, checkpoint, granted, results, callVars,
                    deleted, requests, worker, held, saved, retried>>
    BY <1>6 DEF AppendInput
  <2>. QED
    BY <2>1, <2>2, <2>3, <2>4 DEF TypeOK
<1>7. ASSUME NEW c \in Call, Resolve(c) PROVE TypeOK'
  <2>1. status' \in [Task -> Status]
    BY <1>7, CallAssumption DEF TypeOK, Resolve, Wake, Status
  <2>2. call' \in [Call -> CallStatus]
    BY <1>7 DEF TypeOK, Resolve, CallStatus, Open
  <2>. QED
    BY <1>7, <2>1, <2>2 DEF TypeOK, Resolve
<1>8. ASSUME DeleteProject PROVE TypeOK'
  <2>1. attempt' \in [Task -> [AttemptNo -> Attempt]]
    <3>. SUFFICES ASSUME NEW t \in Task, NEW n \in AttemptNo
                  PROVE  (IF status[t] \notin {"completed", "cancelled"}
                               /\ attempt[t][n].status \in Live
                          THEN Close(attempt[t][n], "cancelled") ELSE attempt[t][n]) \in Attempt
      BY <1>8 DEF DeleteProject
    <3>1. attempt[t][n] \in Attempt /\ "cancelled" \in AttemptStatus
      BY DEF TypeOK, AttemptStatus
    <3>. QED
      BY <3>1, Closing
  <2>2. call' \in [Call -> CallStatus]
    BY <1>8, CallsTyped DEF DeleteProject, CancelTools
  <2>3. status' \in [Task -> Status]
    BY <1>8 DEF TypeOK, DeleteProject, Status, Ended
  <2>4. checkpoint' \in [Task -> Checkpoint]
    BY <1>8, NoneSaved DEF DeleteProject
  <2>. QED
    BY <1>8, <2>1, <2>2, <2>3, <2>4 DEF TypeOK, DeleteProject, Event
<1>. QED
  BY <1>1, <1>2, <1>3, <1>4, <1>5, <1>6, <1>7, <1>8 DEF User

LEMMA Abandoning ==
    ASSUME Good, NEW w \in Worker
    PROVE  Abandoned(w) \subseteq Request
<1>. SUFFICES ASSUME NEW r \in requests
              PROVE  (IF r.from = w THEN [r EXCEPT !.from = "gone"] ELSE r) \in Request
  BY DEF Abandoned
<1>1. r \in Request
  BY DEF Good, TypeOK
<1>2. [r EXCEPT !.from = "gone"] \in Request
  BY <1>1 DEF Request
<1>. QED
  BY <1>1, <1>2

LEMMA Asking ==
    ASSUME Good, NEW w \in Worker, NEW op \in Op, NEW kind \in Kind, NEW P \in SUBSET Call
    PROVE  Ask(w, op, kind, P) \in Request
BY DEF Good, TypeOK, Ask, Request, Memory

LEMMA Going ==
    ASSUME Good, NEW w \in Worker, NEW pc \in Pc
    PROVE  Go(w, pc) \in [Worker -> Memory]
BY DEF Good, TypeOK, Go, Memory

LEMMA StepTypes ==
    ASSUME Good, NEW w \in Worker, Step(w)
    PROVE  TypeOK'
<1>. USE DEF Good
<1>0. Idle \in Memory
  BY DEF Idle, Memory, Pc, NoClaim, Claimed
<1>1. CASE Poll(w)
  BY <1>1, Asking, Going DEF TypeOK, Poll, Op, Kind, Pc
<1>2. CASE Beat(w)
  BY <1>2, Asking DEF TypeOK, Beat, Op, Kind
<1>3. CASE Finish(w)
  BY <1>3, Asking, Going, Abandoning DEF TypeOK, Finish, Op, Kind, Pc
<1>4. CASE Park(w)
  <2>1. worker[w].asked \in SUBSET Call
    BY DEF TypeOK, Memory
  <2>. QED
    BY <1>4, <2>1, Asking, Going, Abandoning DEF TypeOK, Park, Op, Kind, Pc
<1>5. CASE Break(w)
  BY <1>5, Going, Abandoning DEF TypeOK, Break, Pc
<1>6. CASE Report(w)
  BY <1>6, Asking, Going DEF TypeOK, Report, Op, Kind, Pc
<1>7. CASE GiveUp(w)
  BY <1>0, <1>7, Going, Abandoning DEF TypeOK, GiveUp, Event, Pc
<1>8. CASE Crash(w)
  BY <1>0, <1>8, Abandoning DEF TypeOK, Crash, Event
<1>9. ASSUME NEW c \in Call, BeginCall(w, c) PROVE TypeOK'
  <2>0. worker[w] \in Memory
    BY DEF TypeOK
  <2>1. Claim(w).attempt \in Nat
    <3>1. worker[w].claim \in Claimed
      BY <2>0 DEF Memory
    <3>2. CASE worker[w].claim = NoClaim
      BY <3>2 DEF NoClaim, Claim
    <3>3. CASE worker[w].claim \in [task : Task, attempt : AttemptNo, token : Nat]
      BY <3>3, AttemptNumbers DEF Claim
    <3>. QED
      BY <3>1, <3>2, <3>3 DEF Claimed
  <2>2. worker' \in [Worker -> Memory]
    <3>1. [worker[w] EXCEPT !.asked = @ \cup {c}] \in Memory
      BY <2>0 DEF Memory
    <3>. QED
      BY <1>9, <3>1 DEF TypeOK, BeginCall
  <2>. QED
    BY <1>9, <2>1, <2>2 DEF TypeOK, BeginCall, CallStatus, Open
<1>10. ASSUME NEW c \in Call, StartCall(w, c) PROVE TypeOK'
  BY <1>10 DEF TypeOK, StartCall, CallStatus, Open
<1>11. ASSUME NEW c \in Call, EndCall(w, c) PROVE TypeOK'
  BY <1>11 DEF TypeOK, EndCall, CallStatus
<1>. QED
  BY <1>1, <1>2, <1>3, <1>4, <1>5, <1>6, <1>7, <1>8, <1>9, <1>10, <1>11 DEF Step

LEMMA ThenTyped ==
    ASSUME Good, NEW age
    PROVE  /\ StatusThen(age) \in [Task -> Status]
           /\ AttemptThen(age) \in [Task -> [AttemptNo -> Attempt]]
           /\ CheckpointThen(age) \in [Task -> Checkpoint]
<1>1. StatusThen(age) \in [Task -> Status]
  BY DEF Good, TypeOK, StatusThen, Status, Ended
<1>2. AttemptThen(age) \in [Task -> [AttemptNo -> Attempt]]
  <2>. SUFFICES ASSUME NEW t \in Task, NEW n \in AttemptNo
                PROVE  (IF n \in Expired(t, age) THEN Close(attempt[t][n], "expired")
                        ELSE attempt[t][n]) \in Attempt
    BY DEF AttemptThen
  <2>1. attempt[t][n] \in Attempt /\ "expired" \in AttemptStatus
    BY DEF Good, TypeOK, AttemptStatus
  <2>. QED
    BY <2>1, Closing
<1>3. CheckpointThen(age) \in [Task -> Checkpoint]
  BY NoneSaved DEF Good, TypeOK, CheckpointThen
<1>. QED
  BY <1>1, <1>2, <1>3

\* A task that may be given out was queued, or has just lost a lease without
\* having done anything that cannot be done again.
LEMMA Queued ==
    ASSUME Good, NEW age, NEW t \in Task, StatusThen(age)[t] = "queued"
    PROVE  \/ t \notin Overdue(age) /\ status[t] = "queued"
           \/ /\ t \in Overdue(age) /\ ~CheckpointThen(age)[t].saved
              /\ attempts[t] < limit[t] /\ ~Risk(t, attempts[t])
<1>1. CASE t \notin Overdue(age)
  BY <1>1, Unexpired
<1>2. CASE t \in Overdue(age)
  <2>1. ~Lost(t, age)
    BY <1>2 DEF StatusThen
  <2>2. attempts[t] \in Expired(t, age)
    BY <1>2, ExpiredLast
  <2>3. attempts[t] \in Nat /\ limit[t] \in Nat
    BY DEF Good, TypeOK
  <2>4. ~(attempts[t] >= limit[t]) /\ ~Risk(t, attempts[t])
    BY <2>1, <2>2 DEF Lost
  <2>5. CheckpointThen(age)[t] = NoCheckpoint
    BY <1>2 DEF CheckpointThen
  <2>. QED
    BY <1>2, <2>3, <2>4, <2>5 DEF NoCheckpoint
<1>. QED
  BY <1>1, <1>2

LEMMA FreshLeft ==
    ASSUME Good, NEW age, NEW t \in Task, StatusThen(age)[t] = "queued",
           ~CheckpointThen(age)[t].saved
    PROVE  attempts[t] < limit[t]
<1>1. CASE t \notin Overdue(age)
  BY <1>1, Queued, Unexpired DEF Good, Fresh, Unbegun
<1>. QED
  BY <1>1, Queued

LEMMA SavedAttempt ==
    ASSUME Good, NEW age, NEW t \in Task, CheckpointThen(age)[t].saved
    PROVE  /\ t \notin Overdue(age) /\ checkpoint[t].saved
           /\ checkpoint[t].attempt \in AttemptNo
<1>1. t \notin Overdue(age)
  BY DEF CheckpointThen, NoCheckpoint
<1>. QED
  BY <1>1, Unexpired DEF Good, Owned

LEMMA Requested ==
    ASSUME Good, NEW r \in requests
    PROVE  /\ r.age \in Nat /\ Lease - r.age \in Int /\ r.pending \in SUBSET Call
           /\ r.op # "claim" =>
                  /\ r.claim \in [task : Task, attempt : AttemptNo, token : Nat]
                  /\ r.claim.task \in Task /\ r.claim.attempt \in AttemptNo
                  /\ r.claim.token \in Nat
<1>1. r \in Request
  BY DEF Good, TypeOK
<1>2. r.age \in Nat /\ r.pending \in SUBSET Call /\ r.claim \in Claimed
  BY <1>1 DEF Request
<1>3. r.op # "claim" => r.claim.task \in Task
  BY DEF Good, Addressed
<1>. QED
  BY <1>2, <1>3, ClaimTyped, TimeAssumption

LEMMA Telling ==
    ASSUME Good, NEW r \in requests
    PROVE  /\ \A m \in Memory : Tell(r, m) => worker' \in [Worker -> Memory]
           /\ \A pc \in Pc : TellPc(r, pc) => worker' \in [Worker -> Memory]
<1>1. worker \in [Worker -> Memory]
  BY DEF Good, TypeOK
<1>2. \A m \in Memory : Tell(r, m) => worker' \in [Worker -> Memory]
  BY <1>1 DEF Tell
<1>3. ASSUME NEW pc \in Pc, TellPc(r, pc) PROVE worker' \in [Worker -> Memory]
  <2>1. \A w \in Worker : [worker[w] EXCEPT !.pc = pc] \in Memory
    BY <1>1 DEF Memory
  <2>. QED
    BY <1>1, <1>3, <2>1 DEF TellPc
<1>. QED
  BY <1>2, <1>3

LEMMA IdleTyped == Idle \in Memory
BY DEF Idle, Memory, Pc, NoClaim, Claimed

LEMMA GivenTyped ==
    ASSUME Good, NEW r \in requests, NEW t \in Task, NEW n \in AttemptNo, Given(r, t, n)
    PROVE  /\ attempt' \in [Task -> [AttemptNo -> Attempt]] /\ granted' \in [Task -> Nat]
           /\ status' \in [Task -> Status] /\ unread' \in [Task -> BOOLEAN]
           /\ worker' \in [Worker -> Memory]
<1>0. granted[t] + 1 \in Nat /\ Lease - r.age \in Int
  BY Requested DEF Good, TypeOK
<1>1. [status |-> "running", token |-> granted[t] + 1, lease |-> Lease - r.age] \in Attempt
  BY <1>0 DEF Attempt, AttemptStatus
<1>2. attempt' \in [Task -> [AttemptNo -> Attempt]]
  BY <1>1, ThenTyped DEF Given
<1>3. [pc |-> "working", claim |-> [task |-> t, attempt |-> n, token |-> granted[t] + 1],
       asked |-> {}, seen |-> FALSE] \in Memory
  BY <1>0 DEF Memory, Pc, Claimed
<1>4. worker' \in [Worker -> Memory]
  BY <1>3, Telling DEF Given
<1>5. status' \in [Task -> Status]
  BY ThenTyped DEF Given, Status, Active
<1>. QED
  BY <1>0, <1>2, <1>4, <1>5 DEF Given, Good, TypeOK

LEMMA ClaimTypes ==
    ASSUME Good, NEW r \in requests, ServeClaim(r)
    PROVE  TypeOK'
<1>. USE DEF Good
<1>1. UNCHANGED <<limit, results, caller, started, deleted, events, held, saved, retried>>
      /\ requests' \subseteq requests
  BY DEF ServeClaim
<1>2. CASE NoTask(r)
  <2>1. worker' \in [Worker -> Memory]
    BY <1>2, Telling, IdleTyped DEF NoTask
  <2>2. call' \in [Call -> CallStatus]
    BY <1>2, CallsTyped DEF NoTask, CancelTools
  <2>3. /\ status' \in [Task -> Status] /\ checkpoint' \in [Task -> Checkpoint]
        /\ attempt' \in [Task -> [AttemptNo -> Attempt]]
    BY <1>2, ThenTyped DEF NoTask
  <2>. QED
    BY <1>1, <1>2, <2>1, <2>2, <2>3 DEF TypeOK, NoTask
<1>3. ASSUME NEW t \in Task, StatusThen(r.age)[t] = "queued", TakeFresh(r, t)
      PROVE  TypeOK'
  <2>1. Given(r, t, attempts[t] + 1) /\ attempts[t] + 1 \in AttemptNo
    BY <1>3 DEF TakeFresh
  <2>2. call' \in [Call -> CallStatus]
    BY <1>3, CallsTyped DEF TakeFresh, CancelTools
  <2>3. attempts[t] < limit[t]
    BY <1>3, FreshLeft DEF TakeFresh
  <2>4. attempts' \in [Task -> Nat] /\ \A u \in Task : attempts'[u] <= limit'[u]
    BY <1>1, <1>3, <2>3 DEF TakeFresh, TypeOK
  <2>5. checkpoint' \in [Task -> Checkpoint]
    BY <1>3, ThenTyped DEF TakeFresh
  <2>6. inputPause' = inputPause
    BY <1>3 DEF TakeFresh
  <2>. QED
    BY <1>1, <2>1, <2>2, <2>4, <2>5, <2>6, GivenTyped DEF TypeOK
<1>4. ASSUME NEW t \in Task, TakeSaved(r, t) PROVE TypeOK'
  <2>1. Given(r, t, checkpoint[t].attempt) /\ checkpoint[t].attempt \in AttemptNo
    BY <1>4, SavedAttempt DEF TakeSaved
  <2>2. call' \in [Call -> CallStatus]
    BY <1>4, CallsTyped DEF TakeSaved, CancelTools
  <2>3. checkpoint' \in [Task -> Checkpoint]
    BY <1>4, ThenTyped DEF TakeSaved
  <2>4. UNCHANGED <<attempts, inputPause>>
    BY <1>4 DEF TakeSaved
  <2>. QED
    BY <1>1, <2>1, <2>2, <2>3, <2>4, GivenTyped DEF TypeOK
<1>5. ASSUME NEW t \in Task, TakeCorrupt(r, t) PROVE TypeOK'
  <2>1. worker' \in [Worker -> Memory]
    BY <1>5, Telling, IdleTyped DEF TakeCorrupt
  <2>2. call' \in [Call -> CallStatus]
    BY <1>5, CallsTyped DEF TakeCorrupt, CancelTools
  <2>3. \A n \in AttemptNo : Close(attempt[t][n], "corrupt") \in Attempt
    BY Closing DEF TypeOK, AttemptStatus
  <2>4. attempt' \in [Task -> [AttemptNo -> Attempt]]
    BY <1>5, <2>3, ThenTyped DEF TakeCorrupt
  <2>5. status' \in [Task -> Status]
    BY <1>5, ThenTyped DEF TakeCorrupt, Status, Ended
  <2>6. checkpoint' \in [Task -> Checkpoint] /\ inputPause' \in [Task -> BOOLEAN]
    BY <1>5, ThenTyped DEF TakeCorrupt, TypeOK
  <2>7. UNCHANGED <<attempts, granted, unread>>
    BY <1>5 DEF TakeCorrupt
  <2>. QED
    BY <1>1, <2>1, <2>2, <2>4, <2>5, <2>6, <2>7 DEF TypeOK
<1>. QED
  BY <1>2, <1>3, <1>4, <1>5 DEF ServeClaim

LEMMA Replacing ==
    ASSUME Good, NEW t \in Task, NEW n \in AttemptNo, NEW s \in AttemptStatus
    PROVE  [attempt EXCEPT ![t][n] = Close(@, s)] \in [Task -> [AttemptNo -> Attempt]]
<1>1. attempt[t] \in [AttemptNo -> Attempt] /\ attempt[t][n] \in Attempt
  BY DEF Good, TypeOK
<1>2. Close(attempt[t][n], s) \in Attempt
  BY <1>1, Closing
<1>. QED
  BY <1>2 DEF Good, TypeOK

\* What a request does when it is not refused.
LEMMA CompleteEffect ==
    ASSUME NEW r \in requests, ServeComplete(r), Holds(r.claim, r.age)
    PROVE  /\ status' = [status EXCEPT ![r.claim.task] = "completed"]
           /\ attempt' = [attempt EXCEPT ![r.claim.task][r.claim.attempt] =
                            Close(@, "completed")]
           /\ checkpoint' = [checkpoint EXCEPT ![r.claim.task] = NoCheckpoint]
           /\ results' = [results EXCEPT ![r.claim.task] = @ \cup {r.claim.token}]
           /\ Tell(r, Idle)
BY DEF ServeComplete

LEMMA ParkEffect ==
    ASSUME NEW r \in requests, ServePark(r), Holds(r.claim, r.age), Consistent(r)
    PROVE  /\ checkpoint' = [checkpoint EXCEPT ![r.claim.task] =
                   [saved |-> TRUE, attempt |-> r.claim.attempt, pending |-> r.pending,
                    intact |-> TRUE]]
           /\ \E s \in Parked : attempt' = [attempt EXCEPT
                   ![r.claim.task][r.claim.attempt] = Close(@, s)]
           /\ status' = [status EXCEPT ![r.claim.task] = ParkedStatus(r)]
           /\ inputPause' = [inputPause EXCEPT ![r.claim.task] = FALSE]
           /\ saved' = saved \cup {<<r.claim.task, r.claim.attempt>>}
           /\ ParkedStatus(r) \in {"queued"} \cup Parked
           /\ ParkedStatus(r) = "waiting_approval" => Undecided(r)
BY DEF ServePark, Parked, ParkedStatus

LEMMA FailEffect ==
    ASSUME NEW r \in requests, ServeFail(r), Holds(r.claim, r.age)
    PROVE  /\ CancelTools({r.claim.task})
           /\ checkpoint' = [checkpoint EXCEPT ![r.claim.task] = NoCheckpoint]
           /\ attempt' = [attempt EXCEPT ![r.claim.task][r.claim.attempt] =
                            Close(@, "failed")]
           /\ \/ status' = [status EXCEPT ![r.claim.task] = "failed"]
              \/ /\ status' = [status EXCEPT ![r.claim.task] = "queued"]
                 /\ ~Risk(r.claim.task, r.claim.attempt)
                 /\ attempts[r.claim.task] < limit[r.claim.task]
BY DEF ServeFail

LEMMA AnswerTypes ==
    ASSUME Good, NEW r \in requests,
           ServeProgress(r) \/ ServeComplete(r) \/ ServePark(r) \/ ServeFail(r)
    PROVE  TypeOK'
<1>. USE DEF Good
<1>. DEFINE k == r.claim
<1>1. r.op # "claim"
  BY DEF ServeProgress, ServeComplete, ServePark, ServeFail
<1>2. k.task \in Task /\ k.attempt \in AttemptNo /\ k.token \in Nat /\ Lease - r.age \in Int
      /\ r.pending \in SUBSET Call
  BY <1>1, Requested
<1>3. {"completed", "failed", "paused", "waiting_approval"} \subseteq AttemptStatus
      /\ {"queued", "completed", "failed", "paused", "waiting_approval"} \subseteq Status
      /\ "broken" \in Pc
  BY DEF AttemptStatus, Parked, Status, Ended, Pc
<1>4. CASE ServeProgress(r)
  <2>1. [attempt EXCEPT ![k.task][k.attempt].lease = Lease - r.age]
            \in [Task -> [AttemptNo -> Attempt]]
    <3>1. attempt[k.task] \in [AttemptNo -> Attempt] /\ attempt[k.task][k.attempt] \in Attempt
      BY <1>2 DEF TypeOK
    <3>2. [attempt[k.task][k.attempt] EXCEPT !.lease = Lease - r.age] \in Attempt
      BY <1>2, <3>1 DEF Attempt
    <3>. QED
      BY <3>2 DEF TypeOK
  <2>2. \A w \in Worker, b \in BOOLEAN : [worker[w] EXCEPT !.seen = @ \/ b] \in Memory
    <3>. SUFFICES ASSUME NEW w \in Worker, NEW b \in BOOLEAN
                  PROVE  [worker[w] EXCEPT !.seen = @ \/ b] \in Memory
      OBVIOUS
    <3>1. worker[w] \in Memory
      BY DEF TypeOK
    <3>2. (worker[w].seen \/ b) \in BOOLEAN
      BY <3>1 DEF Memory
    <3>. QED
      BY <3>1, <3>2 DEF Memory
  <2>3. CASE Holds(k, r.age)
    <3>1. attempt' \in [Task -> [AttemptNo -> Attempt]]
      BY <1>4, <2>1, <2>3 DEF ServeProgress
    <3>2. worker' = [w \in Worker |-> IF w # r.from THEN worker[w] ELSE
                       [worker[w] EXCEPT !.seen = @ \/ status[k.task] = "pausing"]]
      BY <1>4, <2>3 DEF ServeProgress
    <3>3. worker' \in [Worker -> Memory]
      BY <2>2, <3>2 DEF TypeOK
    <3>. QED
      BY <1>4, <3>1, <3>3 DEF ServeProgress, TypeOK
  <2>4. CASE ~Holds(k, r.age)
    <3>1. TellPc(r, "broken") /\ UNCHANGED attempt
      BY <1>4, <2>4 DEF ServeProgress
    <3>. QED
      BY <1>3, <1>4, <3>1, Telling DEF ServeProgress, TypeOK
  <2>. QED
    BY <2>3, <2>4
<1>5. CASE ServeComplete(r)
  <2>1. CASE Holds(k, r.age)
    <3>1. /\ status' = [status EXCEPT ![k.task] = "completed"]
          /\ attempt' = [attempt EXCEPT ![k.task][k.attempt] = Close(@, "completed")]
          /\ checkpoint' = [checkpoint EXCEPT ![k.task] = NoCheckpoint]
          /\ results' = [results EXCEPT ![k.task] = @ \cup {k.token}]
          /\ Tell(r, Idle)
      BY <1>5, <2>1, CompleteEffect
    <3>2. attempt' \in [Task -> [AttemptNo -> Attempt]]
      BY <1>2, <1>3, <3>1, Replacing
    <3>3. worker' \in [Worker -> Memory]
      BY <3>1, Telling, IdleTyped
    <3>4. results' \in [Task -> SUBSET Nat]
      BY <1>2, <3>1 DEF TypeOK
    <3>5. status' \in [Task -> Status] /\ checkpoint' \in [Task -> Checkpoint]
      BY <1>2, <1>3, <3>1, NoneSaved DEF TypeOK
    <3>. QED
      BY <1>5, <3>2, <3>3, <3>4, <3>5 DEF ServeComplete, TypeOK
  <2>2. CASE ~Holds(k, r.age)
    <3>1. TellPc(r, "broken") /\ UNCHANGED <<status, attempt, checkpoint, results>>
      BY <1>5, <2>2 DEF ServeComplete
    <3>. QED
      BY <1>3, <1>5, <3>1, Telling DEF ServeComplete, TypeOK
  <2>. QED
    BY <2>1, <2>2
<1>6. CASE ServePark(r)
  <2>1. worker' \in [Worker -> Memory]
    BY <1>6, Telling, IdleTyped DEF ServePark
  <2>2. CASE Holds(k, r.age) /\ Consistent(r)
    <3>1. [saved |-> TRUE, attempt |-> k.attempt, pending |-> r.pending, intact |-> TRUE]
              \in Checkpoint
      BY <1>2, AttemptNumbers DEF Checkpoint
    <3>2. checkpoint' \in [Task -> Checkpoint]
      BY <1>6, <2>2, <3>1, ParkEffect DEF TypeOK
    <3>3. attempt' \in [Task -> [AttemptNo -> Attempt]]
      <4>1. PICK s \in Parked :
                attempt' = [attempt EXCEPT ![k.task][k.attempt] = Close(@, s)]
        BY <1>6, <2>2, ParkEffect
      <4>. QED
        BY <1>2, <1>3, <4>1, Replacing DEF Parked
    <3>4. ParkedStatus(r) \in Status
      BY <1>3, <1>6, <2>2, ParkEffect DEF Parked
    <3>5. status' \in [Task -> Status] /\ inputPause' \in [Task -> BOOLEAN]
      <4>1. /\ status' = [status EXCEPT ![k.task] = ParkedStatus(r)]
            /\ inputPause' = [inputPause EXCEPT ![k.task] = FALSE]
        BY <1>6, <2>2, ParkEffect
      <4>. QED
        BY <3>4, <4>1 DEF TypeOK
    <3>6. saved' \subseteq Task \X Nat
      <4>1. saved' = saved \cup {<<k.task, k.attempt>>}
        BY <1>6, <2>2, ParkEffect
      <4>2. k.attempt \in Nat
        BY <1>2, AttemptNumbers
      <4>. QED
        BY <1>2, <4>1, <4>2 DEF TypeOK
    <3>. QED
      BY <1>6, <2>1, <3>2, <3>3, <3>5, <3>6 DEF ServePark, TypeOK
  <2>3. CASE ~(Holds(k, r.age) /\ Consistent(r))
    <3>1. UNCHANGED <<checkpoint, attempt, status, inputPause, saved>>
      BY <1>6, <2>3 DEF ServePark
    <3>. QED
      BY <1>6, <2>1, <3>1 DEF ServePark, TypeOK
  <2>. QED
    BY <2>2, <2>3
<1>7. CASE ServeFail(r)
  <2>1. worker' \in [Worker -> Memory]
    BY <1>7, Telling, IdleTyped DEF ServeFail
  <2>2. CASE Holds(k, r.age)
    <3>1. call' \in [Call -> CallStatus]
      BY <1>7, <2>2, CallsTyped, FailEffect DEF CancelTools
    <3>2. attempt' \in [Task -> [AttemptNo -> Attempt]]
      <4>1. attempt' = [attempt EXCEPT ![k.task][k.attempt] = Close(@, "failed")]
        BY <1>7, <2>2, FailEffect
      <4>. QED
        BY <1>2, <1>3, <4>1, Replacing
    <3>3. checkpoint' \in [Task -> Checkpoint]
      <4>1. checkpoint' = [checkpoint EXCEPT ![k.task] = NoCheckpoint]
        BY <1>7, <2>2, FailEffect
      <4>. QED
        BY <4>1, NoneSaved DEF TypeOK
    <3>4. status' \in [Task -> Status]
      BY <1>3, <1>7, <2>2, FailEffect DEF TypeOK
    <3>. QED
      BY <1>7, <2>1, <3>1, <3>2, <3>3, <3>4 DEF ServeFail, TypeOK
  <2>3. CASE ~Holds(k, r.age)
    <3>1. UNCHANGED <<call, checkpoint, attempt, status>>
      BY <1>7, <2>3 DEF ServeFail
    <3>. QED
      BY <1>7, <2>1, <3>1 DEF ServeFail, TypeOK
  <2>. QED
    BY <2>2, <2>3
<1>. QED
  BY <1>4, <1>5, <1>6, <1>7

LEMMA OtherTypes ==
    ASSUME Good, (\E t \in Task : Damage(t)) \/ Tick
    PROVE  TypeOK'
<1>. USE DEF Good
<1>1. ASSUME NEW t \in Task, Damage(t) PROVE TypeOK'
  <2>0. checkpoint[t] \in Checkpoint
    BY DEF TypeOK
  <2>1. [checkpoint[t] EXCEPT !.intact = FALSE] \in Checkpoint
    BY <2>0 DEF Checkpoint
  <2>2. checkpoint' \in [Task -> Checkpoint]
    BY <1>1, <2>1 DEF Damage, TypeOK
  <2>. QED
    BY <1>1, <2>2 DEF Damage, TypeOK, Event
<1>2. CASE Tick
  <2>1. requests' \subseteq Request
    <3>. SUFFICES ASSUME NEW r \in requests PROVE [r EXCEPT !.age = @ + 1] \in Request
      BY <1>2 DEF Tick
    <3>1. r \in Request
      BY DEF TypeOK
    <3>. QED
      BY <3>1 DEF Request
  <2>2. attempt' \in [Task -> [AttemptNo -> Attempt]]
    <3>. SUFFICES ASSUME NEW t \in Task, NEW n \in AttemptNo
                  PROVE  (IF attempt[t][n].status = "running" /\ attempt[t][n].lease > -MaxWait
                          THEN [attempt[t][n] EXCEPT !.lease = @ - 1]
                          ELSE attempt[t][n]) \in Attempt
      BY <1>2 DEF Tick
    <3>1. attempt[t][n] \in Attempt
      BY DEF TypeOK
    <3>2. [attempt[t][n] EXCEPT !.lease = @ - 1] \in Attempt
      BY <3>1 DEF Attempt
    <3>. QED
      BY <3>1, <3>2
  <2>. QED
    BY <1>2, <2>1, <2>2 DEF Tick, TypeOK
<1>. QED
  BY <1>1, <1>2

LEMMA TypesKept ==
    ASSUME Good, [Next]_vars
    PROVE  TypeOK'
<1>1. CASE Next
  BY <1>1, UserTypes, StepTypes, ClaimTypes, AnswerTypes, OtherTypes DEF Next, Serve
<1>2. CASE UNCHANGED vars
  BY <1>2 DEF Good, TypeOK, vars
<1>. QED
  BY <1>1, <1>2
=============================================================================
