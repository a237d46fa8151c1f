--------------------------- MODULE AgentTaskSafety ---------------------------
(* The invariant Good of AgentTask is inductive, and what follows from it: *)
(* a task has one owner, its writes are not done again, approved work does *)
(* not start over by itself, and a pause holds.  Then AgentTask implements *)
(* LeasedWork: every step of the Store, of a worker or of a user is, for   *)
(* each task, one step of leased work or none, and a request that does not *)
(* carry the newest token changes nothing.  Last, a waiting task is woken, *)
(* and an ended one leaves nothing to approve.                             *)
EXTENDS AgentTaskProofs, WellFoundedInduction

USE DEF taskVars, callVars, history

-----------------------------------------------------------------------------
(* A worker waits for the one request it has on its way.                   *)

Named(v) == worker'[v].pc \notin {"idle", "claiming"} => worker'[v].claim.task \in Task
Others(w) == \A v \in Worker : v # w => worker'[v] = worker[v]

LEMMA AbandonedRequest ==
    ASSUME Good, NEW w \in Worker, NEW r \in Abandoned(w)
    PROVE  \E s \in requests : /\ r.claim = s.claim /\ r.op = s.op
                               /\ r.kind = s.kind /\ r.pending = s.pending
                               /\ s.from = w => r.from = "gone"
                               /\ s.from # w => r = s
<1>1. PICK s \in requests : r = IF s.from = w THEN [s EXCEPT !.from = "gone"] ELSE s
  BY DEF Abandoned
<1>2. s \in Request
  BY DEF Good, TypeOK
<1>. QED
  BY <1>1, <1>2 DEF Request

\* w no longer waits for an answer.
LEMMA Abandons ==
    ASSUME Good, NEW w \in Worker, requests' = Abandoned(w), Others(w), Named(w)
    PROVE  Addressed'
<1>1. \A r \in requests' : r.op # "claim" => r.claim.task \in Task
  BY AbandonedRequest DEF Good, Addressed
<1>2. \A v \in Worker : worker'[v].pc \notin {"idle", "claiming"} => worker'[v].claim.task \in Task
  BY DEF Good, Addressed, Others, Named
<1>3. \A r \in requests' : r.from \in Worker => r \in requests /\ r.from # w
  BY AbandonedRequest, NameAssumption
<1>. QED
  BY <1>1, <1>2, <1>3 DEF Good, Addressed, Others

\* w, who waits for nothing, sends q.
LEMMA Sends ==
    ASSUME Good, NEW w \in Worker, NEW R, R = requests \/ R = Abandoned(w),
           \A r \in R : r.from # w,
           NEW q, requests' = R \cup {q}, q.from = w, q.claim = worker[w].claim,
           q.op # "claim" => q.claim.task \in Task,
           worker'[w].claim = worker[w].claim, Waits(worker'[w].pc, q.op), Others(w)
    PROVE  Addressed'
<1>1. \A r \in R : /\ r.op # "claim" => r.claim.task \in Task
                   /\ r.from \in Worker => r \in requests
  <2>1. CASE R = requests
    BY <2>1 DEF Good, Addressed
  <2>2. CASE R = Abandoned(w)
    BY <2>2, AbandonedRequest, NameAssumption DEF Good, Addressed
  <2>. QED
    BY <2>1, <2>2
<1>2. \A r \in requests' : r.op # "claim" => r.claim.task \in Task
  BY <1>1
<1>3. \A v \in Worker : worker'[v].pc \notin {"idle", "claiming"} => worker'[v].claim.task \in Task
  <2>1. worker'[w].pc \notin {"idle", "claiming"} => worker'[w].claim.task \in Task
    BY DEF Waits
  <2>. QED
    BY <2>1 DEF Good, Addressed, Others
<1>4. \A r \in requests' : r.from \in Worker =>
          r.claim = worker'[r.from].claim /\ Waits(worker'[r.from].pc, r.op)
  BY <1>1 DEF Good, Addressed, Others
<1>5. \A r, s \in requests' : r.from = s.from /\ r.from \in Worker => r = s
  BY <1>1 DEF Good, Addressed
<1>. QED
  BY <1>2, <1>3, <1>4, <1>5 DEF Addressed

\* The worker that asked r hears the answer.
LEMMA Answers ==
    ASSUME Good, NEW r \in requests, requests' = requests \ {r}, Others(r.from),
           r.from \in Worker => Named(r.from)
    PROVE  Addressed'
<1>1. \A s \in requests' : s \in requests /\ (s.from \in Worker => s.from # r.from)
  BY DEF Good, Addressed
<1>2. \A v \in Worker : worker'[v].pc \notin {"idle", "claiming"} => worker'[v].claim.task \in Task
  BY DEF Good, Addressed, Others, Named
<1>. QED
  BY <1>1, <1>2 DEF Good, Addressed, Others

LEMMA Quiet ==
    ASSUME Good, NEW w \in Worker, worker[w].pc \in {"idle", "broken"}
    PROVE  \A r \in requests : r.from # w
BY DEF Good, Addressed, Waits

LEMMA Left ==
    ASSUME Good, NEW w \in Worker
    PROVE  \A r \in Abandoned(w) : r.from # w
BY AbandonedRequest, NameAssumption

LEMMA Moving ==
    ASSUME Good, NEW w \in Worker, NEW pc, worker' = Go(w, pc)
    PROVE  /\ worker'[w].pc = pc /\ worker'[w].claim = worker[w].claim
           /\ Others(w)
<1>1. worker \in [Worker -> Memory] /\ worker[w] \in Memory
  BY DEF Good, TypeOK
<1>2. worker'[w] = [worker[w] EXCEPT !.pc = pc]
  BY <1>1 DEF Go
<1>. QED
  BY <1>1, <1>2 DEF Go, Memory, Others

LEMMA AddressedStep ==
    ASSUME Good, NEW w \in Worker, Step(w)
    PROVE  Addressed'
<1>1. CASE Poll(w)
  <2>. DEFINE q == Ask(w, "claim", "none", {})
  <2>1. \A r \in requests : r.from # w
    BY <1>1, Quiet DEF Poll
  <2>2. q.from = w /\ q.claim = worker[w].claim /\ q.op = "claim"
    BY DEF Ask
  <2>3. requests' = requests \cup {q} /\ worker' = Go(w, "claiming")
    BY <1>1 DEF Poll
  <2>. HIDE DEF q
  <2>. QED
    BY <2>1, <2>2, <2>3, Moving, Sends DEF Waits
<1>2. CASE Beat(w)
  <2>. DEFINE q == Ask(w, "progress", "none", {})
  <2>1. \A r \in requests : r.from # w
    BY <1>2 DEF Beat, Good, Addressed, Waits
  <2>2. q.from = w /\ q.claim = worker[w].claim /\ q.op = "progress"
    BY DEF Ask
  <2>3. requests' = requests \cup {q} /\ UNCHANGED worker /\ worker[w].pc = "working"
    BY <1>2 DEF Beat
  <2>4. worker[w].claim.task \in Task
    BY <2>3 DEF Good, Addressed
  <2>. HIDE DEF q
  <2>. QED
    BY <2>1, <2>2, <2>3, <2>4, Sends DEF Waits, Others
<1>3. CASE Finish(w)
  <2>. DEFINE q == Ask(w, "complete", "none", {})
  <2>2. q.from = w /\ q.claim = worker[w].claim /\ q.op = "complete"
    BY DEF Ask
  <2>3. requests' = Abandoned(w) \cup {q} /\ worker' = Go(w, "completing")
    BY <1>3 DEF Finish
  <2>4. worker[w].claim.task \in Task
    BY <1>3 DEF Finish, Good, Addressed
  <2>. HIDE DEF q
  <2>. QED
    BY <2>2, <2>3, <2>4, Left, Moving, Sends DEF Waits
<1>4. CASE Park(w)
  <2>1. PICK kind : requests' = Abandoned(w) \cup {Ask(w, "park", kind, worker[w].asked)}
    BY <1>4 DEF Park
  <2>. DEFINE q == Ask(w, "park", kind, worker[w].asked)
  <2>2. q.from = w /\ q.claim = worker[w].claim /\ q.op = "park"
    BY DEF Ask
  <2>3. requests' = Abandoned(w) \cup {q} /\ worker' = Go(w, "parking")
    BY <1>4, <2>1 DEF Park
  <2>4. worker[w].claim.task \in Task
    BY <1>4 DEF Park, Good, Addressed
  <2>. HIDE DEF q
  <2>. QED
    BY <2>2, <2>3, <2>4, Left, Moving, Sends DEF Waits
<1>5. CASE Break(w)
  <2>1. worker[w].claim.task \in Task
    BY <1>5 DEF Break, Good, Addressed
  <2>. QED
    BY <1>5, <2>1, Moving, Abandons DEF Break, Named
<1>6. CASE Report(w)
  <2>1. PICK kind : requests' = requests \cup {Ask(w, "fail", kind, {})}
    BY <1>6 DEF Report
  <2>. DEFINE q == Ask(w, "fail", kind, {})
  <2>2. q.from = w /\ q.claim = worker[w].claim /\ q.op = "fail"
    BY DEF Ask
  <2>3. requests' = requests \cup {q} /\ worker' = Go(w, "failing")
    BY <1>6, <2>1 DEF Report
  <2>4. worker[w].claim.task \in Task
    BY <1>6 DEF Report, Good, Addressed
  <2>5. \A r \in requests : r.from # w
    BY <1>6, Quiet DEF Report
  <2>. HIDE DEF q
  <2>. QED
    BY <2>2, <2>3, <2>4, <2>5, Moving, Sends DEF Waits
<1>7. CASE GiveUp(w)
  <2>1. requests' = Abandoned(w)
    BY <1>7 DEF GiveUp
  <2>2. CASE worker[w].pc \in {"claiming", "parking", "failing"}
    <3>1. worker' = [worker EXCEPT ![w] = Idle]
      BY <1>7, <2>2 DEF GiveUp
    <3>2. Named(w) /\ Others(w)
      BY <3>1 DEF Named, Others, Idle, Good, TypeOK
    <3>. QED
      BY <2>1, <3>2, Abandons
  <2>3. CASE worker[w].pc \notin {"claiming", "parking", "failing"}
    <3>1. worker' = Go(w, "broken")
      BY <1>7, <2>3 DEF GiveUp
    <3>2. worker[w].claim.task \in Task
      BY <1>7, <2>3, Quiet DEF GiveUp, Good, Addressed, Waits
    <3>. QED
      BY <2>1, <3>1, <3>2, Moving, Abandons DEF Named
  <2>. QED
    BY <2>2, <2>3
<1>8. CASE Crash(w)
  <2>1. Named(w) /\ Others(w)
    BY <1>8 DEF Crash, Named, Others, Idle, Good, TypeOK
  <2>. QED
    BY <1>8, <2>1, Abandons DEF Crash
<1>9. ASSUME NEW c \in Call, BeginCall(w, c) PROVE Addressed'
  <2>1. \A v \in Worker : worker'[v].pc = worker[v].pc /\ worker'[v].claim = worker[v].claim
    <3>1. worker[w] \in Memory /\ worker \in [Worker -> Memory]
      BY DEF Good, TypeOK
    <3>2. /\ [worker[w] EXCEPT !.asked = @ \cup {c}].pc = worker[w].pc
          /\ [worker[w] EXCEPT !.asked = @ \cup {c}].claim = worker[w].claim
      BY <3>1 DEF Memory
    <3>. QED
      BY <1>9, <3>1, <3>2 DEF BeginCall
  <2>2. requests' = requests
    BY <1>9 DEF BeginCall
  <2>. QED
    BY <2>1, <2>2 DEF Good, Addressed
<1>10. ASSUME NEW c \in Call, StartCall(w, c) \/ EndCall(w, c) PROVE Addressed'
  BY <1>10 DEF StartCall, EndCall, Good, Addressed
<1>. QED
  BY <1>1, <1>2, <1>3, <1>4, <1>5, <1>6, <1>7, <1>8, <1>9, <1>10 DEF Step

LEMMA AddressedServe ==
    ASSUME Good, NEW r \in requests, Serve(r)
    PROVE  Addressed'
<1>1. requests' = requests \ {r}
  BY DEF Serve, ServeClaim, ServeProgress, ServeComplete, ServePark, ServeFail
<1>2. ASSUME NEW m, Tell(r, m), m.pc \notin {"idle", "claiming"} => m.claim.task \in Task
      PROVE  Addressed'
  <2>1. Others(r.from) /\ (r.from \in Worker => Named(r.from))
    BY <1>2 DEF Tell, Others, Named
  <2>. QED
    BY <1>1, <2>1, Answers
<1>3. Tell(r, Idle) => Addressed'
  BY <1>2 DEF Idle
<1>4. r.op # "claim" /\ r.from \in Worker => worker[r.from].claim.task \in Task
  BY DEF Good, Addressed
<1>5. \A w \in Worker : worker[w] \in Memory
  BY DEF Good, TypeOK
<1>6. ASSUME r.op # "claim", TellPc(r, "broken") PROVE Addressed'
  <2>1. r.from \in Worker => [worker[r.from] EXCEPT !.pc = "broken"].claim = worker[r.from].claim
    BY <1>5 DEF Memory
  <2>2. Others(r.from) /\ (r.from \in Worker => Named(r.from))
    BY <1>4, <1>6, <2>1 DEF TellPc, Others, Named
  <2>. QED
    BY <1>1, <2>2, Answers
<1>7. ASSUME NEW t \in Task, NEW n, Given(r, t, n) PROVE Addressed'
  <2>1. Tell(r, [pc |-> "working", asked |-> {}, seen |-> FALSE,
                 claim |-> [task |-> t, attempt |-> n, token |-> granted[t] + 1]])
    BY <1>7 DEF Given
  <2>. QED
    BY <1>2, <2>1
<1>8. CASE ServeClaim(r)
  BY <1>3, <1>7, <1>8 DEF ServeClaim, NoTask, TakeFresh, TakeSaved, TakeCorrupt
<1>9. CASE ServeProgress(r)
  <2>1. CASE Holds(r.claim, r.age)
    <3>1. worker' = [w \in Worker |-> IF w # r.from THEN worker[w] ELSE
                     [worker[w] EXCEPT !.seen = @ \/ status[r.claim.task] = "pausing"]]
      BY <1>9, <2>1 DEF ServeProgress
    <3>2. r.from \in Worker => worker'[r.from].claim = worker[r.from].claim
      BY <1>5, <3>1 DEF Memory
    <3>3. Others(r.from) /\ (r.from \in Worker => Named(r.from))
      BY <1>4, <1>9, <3>1, <3>2 DEF ServeProgress, Others, Named
    <3>. QED
      BY <1>1, <3>3, Answers
  <2>. QED
    BY <1>6, <1>9, <2>1 DEF ServeProgress
<1>10. CASE ServeComplete(r)
  BY <1>3, <1>6, <1>10 DEF ServeComplete
<1>11. CASE ServePark(r) \/ ServeFail(r)
  BY <1>3, <1>11 DEF ServePark, ServeFail
<1>. QED
  BY <1>8, <1>9, <1>10, <1>11 DEF Serve

LEMMA AddressedKept ==
    ASSUME Good, [Next]_vars
    PROVE  Addressed'
<1>1. CASE User
  BY <1>1 DEF User, Start, Pause, Resume, Cancel, Retry, AppendInput, Resolve, DeleteProject,
              Good, Addressed
<1>2. ASSUME NEW t \in Task, Damage(t) PROVE Addressed'
  BY <1>2 DEF Damage, Good, Addressed
<1>3. CASE Tick
  <2>1. \A r \in requests' : \E s \in requests :
            r = [s EXCEPT !.age = @ + 1] /\ r.claim = s.claim /\ r.op = s.op /\ r.from = s.from
    <3>. SUFFICES ASSUME NEW s \in requests
                  PROVE  /\ [s EXCEPT !.age = @ + 1].claim = s.claim
                         /\ [s EXCEPT !.age = @ + 1].op = s.op
                         /\ [s EXCEPT !.age = @ + 1].from = s.from
      BY <1>3 DEF Tick
    <3>1. s \in Request
      BY DEF Good, TypeOK
    <3>. QED
      BY <3>1 DEF Request
  <2>2. UNCHANGED worker
    BY <1>3 DEF Tick
  <2>. QED
    BY <2>1, <2>2 DEF Good, Addressed
<1>4. CASE UNCHANGED vars
  BY <1>4 DEF vars, Good, Addressed
<1>. QED
  BY <1>1, <1>2, <1>3, <1>4, AddressedStep, AddressedServe DEF Next

-----------------------------------------------------------------------------
(* The live attempt of a task is its last and its worker's.                *)

\* The rows of u that Owned speaks of are as they were.
Same(u) == /\ status'[u] = status[u] /\ attempts'[u] = attempts[u]
           /\ attempt'[u] = attempt[u] /\ granted'[u] = granted[u]
           /\ checkpoint'[u] = checkpoint[u]
OwnedOf(t) ==
    /\ status[t] \in Active => /\ attempts[t] \in AttemptNo
                               /\ attempt[t][attempts[t]].status = "running"
    /\ checkpoint[t].saved => checkpoint[t].attempt \in AttemptNo
    /\ \A n \in AttemptNo :
        LET a == attempt[t][n]
        IN /\ a.status \in Live => n = attempts[t]
           /\ a.status = "running" => status[t] \in Active /\ a.token = granted[t]
           /\ a.status \in Parked =>
                  /\ status[t] \in {"queued"} \cup Parked
                  /\ checkpoint[t].saved /\ checkpoint[t].attempt = n

LEMMA OwnedByTask == /\ Owned <=> \A t \in Task : OwnedOf(t)
                     /\ Owned' <=> \A t \in Task : OwnedOf(t)'
BY DEF Owned, OneOwner, OwnedOf

LEMMA OwnedSame ==
    ASSUME Good, NEW t \in Task, Same(t)
    PROVE  OwnedOf(t)'
<1>1. OwnedOf(t)
  BY OwnedByTask DEF Good
<1>. QED
  BY <1>1 DEF OwnedOf, Same

\* Nothing of t is live.
LEMMA OwnedStill ==
    ASSUME Good, NEW t \in Task, status'[t] \notin Active,
           \A n \in AttemptNo : attempt'[t][n].status \notin Live,
           checkpoint'[t].saved => checkpoint'[t].attempt \in AttemptNo
    PROVE  OwnedOf(t)'
BY DEF OwnedOf, Live

LEMMA SameElsewhere ==
    ASSUME Good, NEW t \in Task, \A u \in Task \ {t} : Same(u), OwnedOf(t)'
    PROVE  Owned'
BY OwnedSame, OwnedByTask

\* Leases and what a checkpoint holds do not matter here.
LEMMA OwnedRows ==
    ASSUME Good, UNCHANGED <<status, attempts, granted>>,
           \A t \in Task : /\ checkpoint'[t].saved = checkpoint[t].saved
                          /\ checkpoint'[t].attempt = checkpoint[t].attempt,
           \A t \in Task, n \in AttemptNo :
               /\ attempt'[t][n].status = attempt[t][n].status
               /\ attempt'[t][n].token = attempt[t][n].token
    PROVE  Owned'
<1>. SUFFICES ASSUME NEW t \in Task PROVE OwnedOf(t)'
  BY OwnedByTask
<1>1. OwnedOf(t)
  BY OwnedByTask DEF Good
<1>. QED
  BY <1>1 DEF OwnedOf

LEMMA OwnedIdle ==
    ASSUME Good, status' = status, attempts' = attempts, granted' = granted,
           attempt' = attempt, checkpoint' = checkpoint
    PROVE  Owned'
BY OwnedRows

LEMMA WakeEffect ==
    ASSUME Good, NEW c \in Call, Resolve(c)
    PROVE  /\ \A u \in Task : u # TaskOf[c] => status'[u] = status[u]
           /\ \/ status'[TaskOf[c]] = status[TaskOf[c]]
              \/ /\ status[TaskOf[c]] = "waiting_approval" /\ status'[TaskOf[c]] = "queued"
                 /\ checkpoint[TaskOf[c]].saved
<1>1. TaskOf[c] \in Task /\ status \in [Task -> Status]
  BY CallAssumption DEF Good, TypeOK
<1>2. status' = [status EXCEPT ![TaskOf[c]] =
          IF /\ status[TaskOf[c]] = "waiting_approval" /\ checkpoint[TaskOf[c]].saved
             /\ \A d \in Bound(TaskOf[c], caller[c]) \ {c} : call[d] # "pending_approval"
          THEN "queued" ELSE status[TaskOf[c]]]
  BY DEF Resolve, Wake
<1>. QED
  BY <1>1, <1>2

LEMMA OwnedUser ==
    ASSUME Good, User
    PROVE  Owned'
<1>0. \A t \in Task : OwnedOf(t)
  BY OwnedByTask DEF Good
<1>00. \A t \in Task, n \in AttemptNo : /\ attempt[t][n] \in Attempt
                                       /\ Close(attempt[t][n], "cancelled").status = "cancelled"
  BY Closing DEF Good, TypeOK, AttemptStatus
<1>1. ASSUME NEW t \in Task, Start(t) \/ Pause(t) \/ Resume(t) \/ AppendInput(t) PROVE Owned'
  <2>1. UNCHANGED <<attempts, attempt, granted, checkpoint>>
    BY <1>1 DEF Start, Pause, Resume, AppendInput
  <2>2. /\ \A u \in Task \ {t} : status'[u] = status[u]
        /\ \/ status[t] \in Active /\ status'[t] \in Active
           \/ status[t] = "absent" /\ status'[t] = "queued"
           \/ status[t] \in {"queued"} \cup Parked /\ status'[t] \in {"queued"} \cup Parked
    <3>1. CASE Start(t)
      BY <3>1 DEF Start, Good, TypeOK
    <3>2. CASE Pause(t)
      BY <3>2 DEF Pause, Good, TypeOK, Active, Parked
    <3>3. CASE Resume(t)
      BY <3>3 DEF Resume, ResumeStatus, Good, TypeOK, Active, Parked
    <3>4. CASE AppendInput(t)
      <4>1. status[t] \in {"queued"} \cup Active \cup Parked
        BY <3>4 DEF AppendInput, Good, TypeOK, Status
      <4>. QED
        BY <3>4, <4>1 DEF AppendInput, InputStatus, Good, TypeOK, Active, Parked
    <3>. QED
      BY <1>1, <3>1, <3>2, <3>3, <3>4
  <2>3. OwnedOf(t)'
    BY <1>0, <2>1, <2>2 DEF OwnedOf, Active, Parked
  <2>. QED
    BY <2>1, <2>2, <2>3, SameElsewhere DEF Same
<1>2. ASSUME NEW t \in Task, Cancel(t) PROVE Owned'
  <2>1. /\ status' = [status EXCEPT ![t] = "cancelled"]
        /\ checkpoint' = [checkpoint EXCEPT ![t] = NoCheckpoint]
        /\ attempt' = [attempt EXCEPT ![t] = [n \in AttemptNo |->
               IF attempt[t][n].status \in Live THEN Close(attempt[t][n], "cancelled")
               ELSE attempt[t][n]]]
        /\ UNCHANGED <<attempts, granted>>
    BY <1>2 DEF Cancel, CloseAttempts
  <2>2. \A u \in Task \ {t} : Same(u)
    BY <2>1 DEF Same, Good, TypeOK
  <2>3. /\ status'[t] \notin Active /\ ~checkpoint'[t].saved
        /\ \A n \in AttemptNo : attempt'[t][n].status \notin Live
    BY <1>00, <2>1 DEF Good, TypeOK, Active, NoCheckpoint, Live, Parked
  <2>. QED
    BY <2>2, <2>3, OwnedStill, SameElsewhere
<1>3. ASSUME NEW t \in Task, Retry(t) PROVE Owned'
  <2>1. /\ status' = [status EXCEPT ![t] = "queued"]
        /\ checkpoint' = [checkpoint EXCEPT ![t] = NoCheckpoint]
        /\ status[t] \in {"failed", "cancelled"}
        /\ UNCHANGED <<attempts, attempt, granted>>
    BY <1>3 DEF Retry
  <2>2. \A u \in Task \ {t} : Same(u)
    BY <2>1 DEF Same, Good, TypeOK
  <2>3. status'[t] \notin Active /\ ~checkpoint'[t].saved
    BY <2>1 DEF Good, TypeOK, Active, NoCheckpoint
  <2>4. \A n \in AttemptNo : attempt[t][n].status \notin Live
    BY <1>0, <2>1 DEF OwnedOf, Live, Parked, Active
  <2>. QED
    BY <2>1, <2>2, <2>3, <2>4, OwnedStill, SameElsewhere
<1>4. ASSUME NEW c \in Call, Resolve(c) PROVE Owned'
  <2>. DEFINE t == TaskOf[c]
  <2>1. t \in Task
    BY CallAssumption
  <2>2. UNCHANGED <<attempts, attempt, granted, checkpoint>>
    BY <1>4 DEF Resolve
  <2>3. /\ \A u \in Task \ {t} : status'[u] = status[u]
        /\ \/ status'[t] = status[t]
           \/ status[t] = "waiting_approval" /\ status'[t] = "queued"
    <3>1. /\ \A u \in Task : u # TaskOf[c] => status'[u] = status[u]
          /\ \/ status'[TaskOf[c]] = status[TaskOf[c]]
             \/ status[TaskOf[c]] = "waiting_approval" /\ status'[TaskOf[c]] = "queued"
      BY <1>4, WakeEffect
    <3>. QED
      BY <3>1
  <2>4. OwnedOf(t)'
    BY <1>0, <2>1, <2>2, <2>3 DEF OwnedOf, Active, Parked
  <2>. QED
    BY <2>1, <2>2, <2>3, <2>4, SameElsewhere DEF Same
<1>5. CASE DeleteProject
  <2>. SUFFICES ASSUME NEW t \in Task PROVE OwnedOf(t)'
    BY OwnedByTask
  <2>1. /\ status'[t] = IF status[t] \in {"absent", "completed"} THEN status[t] ELSE "cancelled"
        /\ checkpoint'[t] = NoCheckpoint
        /\ \A n \in AttemptNo : attempt'[t][n] =
               IF status[t] \notin {"completed", "cancelled"} /\ attempt[t][n].status \in Live
               THEN Close(attempt[t][n], "cancelled") ELSE attempt[t][n]
    BY <1>5 DEF DeleteProject
  <2>2. \A n \in AttemptNo : attempt'[t][n].status \notin Live
    BY <1>0, <1>00, <2>1 DEF OwnedOf, Live, Parked, Active
  <2>3. status'[t] \notin Active /\ ~checkpoint'[t].saved
    BY <2>1 DEF Active, NoCheckpoint
  <2>. QED
    BY <2>2, <2>3, OwnedStill
<1>. QED
  BY <1>1, <1>2, <1>3, <1>4, <1>5 DEF User

LEMMA OwnedStep ==
    ASSUME Good, NEW w \in Worker, Step(w)
    PROVE  Owned'
<1>1. UNCHANGED taskVars
  BY DEF Step, Poll, Beat, Finish, Park, Break, Report, GiveUp, Crash, BeginCall,
         StartCall, EndCall
<1>2. UNCHANGED <<status, attempts, granted, attempt, checkpoint>>
  BY <1>1
<1>. QED
  BY <1>2, OwnedIdle

\* The rows of a task that a claim does not give out, once its lease is seen to.
LEMMA OwnedExpired ==
    ASSUME Good, NEW age, NEW t \in Task, status'[t] = StatusThen(age)[t],
           attempt'[t] = AttemptThen(age)[t], checkpoint'[t] = CheckpointThen(age)[t],
           attempts'[t] = attempts[t], granted'[t] = granted[t]
    PROVE  OwnedOf(t)'
<1>1. CASE t \notin Overdue(age)
  BY <1>1, Unexpired, OwnedSame DEF Same
<1>2. CASE t \in Overdue(age)
  <2>1. \A n \in AttemptNo : AttemptThen(age)[t][n].status \notin Live
    BY <1>2, ExpiredLast
  <2>2. StatusThen(age)[t] \in {"failed", "queued"} /\ CheckpointThen(age)[t] = NoCheckpoint
    BY <1>2 DEF StatusThen, CheckpointThen
  <2>. QED
    BY <2>1, <2>2, OwnedStill DEF Active, NoCheckpoint
<1>. QED
  BY <1>1, <1>2

LEMMA OwnedGiven ==
    ASSUME Good, NEW r \in requests, NEW t \in Task, NEW n \in AttemptNo, Given(r, t, n),
           checkpoint' = CheckpointThen(r.age), attempts'[t] = n,
           \A u \in Task \ {t} : attempts'[u] = attempts[u],
           \A m \in AttemptNo \ {n} : AttemptThen(r.age)[t][m].status \notin Live
    PROVE  Owned'
<1>1. /\ attempt' = [AttemptThen(r.age) EXCEPT ![t][n] =
             [status |-> "running", token |-> granted[t] + 1, lease |-> Lease - r.age]]
      /\ granted' = [granted EXCEPT ![t] = @ + 1]
      /\ status' = [StatusThen(r.age) EXCEPT ![t] = "running"]
  BY DEF Given
<1>2. /\ AttemptThen(r.age) \in [Task -> [AttemptNo -> Attempt]]
      /\ StatusThen(r.age) \in [Task -> Status] /\ granted \in [Task -> Nat]
  BY ThenTyped DEF Good, TypeOK
<1>3. ASSUME NEW u \in Task \ {t} PROVE OwnedOf(u)'
  BY <1>1, <1>2, OwnedExpired
<1>4. OwnedOf(t)'
  <2>1. /\ status'[t] = "running" /\ granted'[t] = granted[t] + 1
        /\ attempt'[t][n].status = "running" /\ attempt'[t][n].token = granted[t] + 1
        /\ \A m \in AttemptNo \ {n} : attempt'[t][m] = AttemptThen(r.age)[t][m]
    BY <1>1, <1>2
  <2>2. checkpoint'[t].saved => checkpoint'[t].attempt \in AttemptNo
    BY SavedAttempt, Unexpired
  <2>. QED
    BY <2>1, <2>2 DEF OwnedOf, Active, Live, Parked
<1>. QED
  BY <1>3, <1>4, OwnedByTask

LEMMA OwnedClaim ==
    ASSUME Good, NEW r \in requests, ServeClaim(r)
    PROVE  Owned'
<1>0. \A t \in Task : OwnedOf(t)
  BY OwnedByTask DEF Good
<1>1. CASE NoTask(r)
  BY <1>1, OwnedExpired, OwnedByTask DEF NoTask
<1>2. ASSUME NEW t \in Task, StatusThen(r.age)[t] = "queued", TakeFresh(r, t) PROVE Owned'
  <2>. DEFINE n == attempts[t] + 1
  <2>1. /\ Given(r, t, n) /\ n \in AttemptNo /\ checkpoint' = CheckpointThen(r.age)
        /\ attempts'[t] = n /\ \A u \in Task \ {t} : attempts'[u] = attempts[u]
    BY <1>2 DEF TakeFresh, Good, TypeOK
  <2>2. \A m \in AttemptNo : AttemptThen(r.age)[t][m].status \notin Live
    <3>1. CASE t \in Overdue(r.age)
      BY <3>1, ExpiredLast
    <3>2. CASE t \notin Overdue(r.age)
      BY <1>0, <1>2, <3>2, Unexpired DEF TakeFresh, OwnedOf, Active, Live
    <3>. QED
      BY <3>1, <3>2
  <2>. HIDE DEF n
  <2>. QED
    BY <2>1, <2>2, OwnedGiven
<1>3. ASSUME NEW t \in Task, StatusThen(r.age)[t] = "queued", TakeSaved(r, t) PROVE Owned'
  <2>. DEFINE n == checkpoint[t].attempt
  <2>1. /\ Given(r, t, n) /\ checkpoint' = CheckpointThen(r.age) /\ attempts' = attempts
        /\ n = attempts[t]
    BY <1>3 DEF TakeSaved, Whole
  <2>2. n \in AttemptNo /\ t \notin Overdue(r.age)
    BY <1>3, SavedAttempt DEF TakeSaved
  <2>3. \A m \in AttemptNo \ {n} : AttemptThen(r.age)[t][m].status \notin Live
    BY <1>0, <2>1, <2>2, Unexpired DEF OwnedOf
  <2>. HIDE DEF n
  <2>. QED
    BY <2>1, <2>2, <2>3, OwnedGiven
<1>4. ASSUME NEW t \in Task, StatusThen(r.age)[t] = "queued", TakeCorrupt(r, t) PROVE Owned'
  <2>1. /\ status' = [StatusThen(r.age) EXCEPT ![t] = "failed"]
        /\ attempt' = [AttemptThen(r.age) EXCEPT ![t] = [n \in AttemptNo |->
               IF attempt[t][n].status \in Parked THEN Close(attempt[t][n], "corrupt")
               ELSE AttemptThen(r.age)[t][n]]]
        /\ checkpoint' = CheckpointThen(r.age) /\ UNCHANGED <<attempts, granted>>
    BY <1>4 DEF TakeCorrupt
  <2>2. /\ AttemptThen(r.age) \in [Task -> [AttemptNo -> Attempt]]
        /\ StatusThen(r.age) \in [Task -> Status]
    BY ThenTyped
  <2>3. ASSUME NEW u \in Task \ {t} PROVE OwnedOf(u)'
    BY <2>1, <2>2, OwnedExpired
  <2>4. ASSUME NEW n \in AttemptNo PROVE attempt'[t][n].status \notin Live
    <3>1. attempt'[t][n] = IF attempt[t][n].status \in Parked
                           THEN Close(attempt[t][n], "corrupt") ELSE AttemptThen(r.age)[t][n]
      BY <2>1, <2>2
    <3>2. Close(attempt[t][n], "corrupt").status = "corrupt"
      BY Closing DEF Good, TypeOK, AttemptStatus
    <3>3. CASE attempt[t][n].status \in Parked
      BY <3>1, <3>2, <3>3 DEF Live, Parked
    <3>4. CASE attempt[t][n].status \notin Parked
      <4>1. CASE t \in Overdue(r.age)
        BY <3>1, <3>4, <4>1, ExpiredLast
      <4>2. CASE t \notin Overdue(r.age)
        BY <1>0, <1>4, <3>1, <3>4, <4>2, Unexpired DEF OwnedOf, Live, Active
      <4>. QED
        BY <4>1, <4>2
    <3>. QED
      BY <3>3, <3>4
  <2>5. status'[t] = "failed" /\ (checkpoint'[t].saved => checkpoint'[t].attempt \in AttemptNo)
    BY <2>1, <2>2, SavedAttempt, Unexpired
  <2>6. OwnedOf(t)'
    BY <2>4, <2>5, OwnedStill DEF Active
  <2>. QED
    BY <2>3, <2>6, OwnedByTask
<1>. QED
  BY <1>1, <1>2, <1>3, <1>4 DEF ServeClaim

\* The holder of a task stops working on it.
LEMMA OwnedStopped ==
    ASSUME Good, NEW k \in [task : Task, attempt : AttemptNo, token : Nat], NEW age,
           Holds(k, age), NEW s \in AttemptStatus, NEW st \in Status \ Active, NEW p \in Checkpoint,
           attempt' = [attempt EXCEPT ![k.task][k.attempt] = Close(@, s)],
           status' = [status EXCEPT ![k.task] = st],
           checkpoint' = [checkpoint EXCEPT ![k.task] = p],
           UNCHANGED <<attempts, granted>>,
           p.saved => p.attempt = k.attempt,
           s \in Live => s \in Parked /\ st \in {"queued"} \cup Parked /\ p.saved
    PROVE  Owned'
<1>. DEFINE t == k.task  n == k.attempt
<1>1. t \in Task /\ n \in AttemptNo
  OBVIOUS
<1>2. \A u \in Task \ {t} : Same(u)
  BY DEF Same, Good, TypeOK
<1>3. /\ n = attempts[t]
      /\ \A m \in AttemptNo : m # n => attempt[t][m].status \notin Live
  BY HeldLast
<1>4. /\ attempt'[t][n] = Close(attempt[t][n], s)
      /\ \A m \in AttemptNo : m # n => attempt'[t][m] = attempt[t][m]
      /\ status'[t] = st /\ checkpoint'[t] = p
  BY <1>1 DEF Good, TypeOK
<1>5. attempt'[t][n].status = s
  BY <1>1, <1>4, Closing DEF Good, TypeOK
<1>6. OwnedOf(t)'
  BY <1>1, <1>3, <1>4, <1>5 DEF OwnedOf, Live, Parked
<1>. QED
  BY <1>1, <1>2, <1>6, SameElsewhere

LEMMA OwnedAnswer ==
    ASSUME Good, NEW r \in requests,
           ServeProgress(r) \/ ServeComplete(r) \/ ServePark(r) \/ ServeFail(r)
    PROVE  Owned'
<1>1. /\ r.claim \in [task : Task, attempt : AttemptNo, token : Nat]
      /\ r.claim.task \in Task /\ r.claim.attempt \in AttemptNo /\ r.pending \in SUBSET Call
  BY Requested DEF ServeProgress, ServeComplete, ServePark, ServeFail
<1>2. /\ {"completed", "failed", "paused", "waiting_approval"} \subseteq AttemptStatus
      /\ {"queued", "completed", "failed", "paused", "waiting_approval"} \subseteq Status \ Active
      /\ {"completed", "failed"} \cap Live = {} /\ Parked \subseteq Live
  BY DEF AttemptStatus, Parked, Status, Ended, Live, Active
<1>3. ASSUME UNCHANGED <<attempt, status, checkpoint, attempts, granted>> PROVE Owned'
  BY <1>3 DEF Good, Owned, OneOwner
<1>4. UNCHANGED <<attempts, granted>>
  BY DEF ServeProgress, ServeComplete, ServePark, ServeFail
<1>5. CASE ServeProgress(r)
  <2>1. CASE Holds(r.claim, r.age)
    <3>. DEFINE t == r.claim.task  n == r.claim.attempt
    <3>1. /\ attempt' = [attempt EXCEPT ![t][n].lease = Lease - r.age]
          /\ UNCHANGED <<status, checkpoint>>
      BY <1>5, <2>1 DEF ServeProgress
    <3>2. attempt[t][n] \in Attempt /\ attempt \in [Task -> [AttemptNo -> Attempt]]
      BY <1>1 DEF Good, TypeOK
    <3>3. \A u \in Task, m \in AttemptNo : /\ attempt'[u][m].status = attempt[u][m].status
                                           /\ attempt'[u][m].token = attempt[u][m].token
      <4>1. /\ [attempt[t][n] EXCEPT !.lease = Lease - r.age].status = attempt[t][n].status
            /\ [attempt[t][n] EXCEPT !.lease = Lease - r.age].token = attempt[t][n].token
        BY <3>2 DEF Attempt
      <4>2. attempt'[t][n] = [attempt[t][n] EXCEPT !.lease = Lease - r.age]
        BY <1>1, <3>1, <3>2
      <4>3. \A u \in Task, m \in AttemptNo : u # t \/ m # n => attempt'[u][m] = attempt[u][m]
        BY <1>1, <3>1, <3>2
      <4>. QED
        BY <4>1, <4>2, <4>3
    <3>. QED
      BY <1>4, <3>1, <3>3, OwnedRows
  <2>2. CASE ~Holds(r.claim, r.age)
    BY <1>3, <1>4, <1>5, <2>2 DEF ServeProgress
  <2>. QED
    BY <2>1, <2>2
<1>6. CASE ServeComplete(r)
  <2>1. CASE Holds(r.claim, r.age)
    BY <1>1, <1>2, <1>4, <1>6, <2>1, CompleteEffect, NoneSaved, OwnedStopped DEF NoCheckpoint
  <2>. QED
    BY <1>3, <1>4, <1>6, <2>1 DEF ServeComplete
<1>7. CASE ServePark(r)
  <2>1. CASE Holds(r.claim, r.age) /\ Consistent(r)
    <3>. DEFINE p == [saved |-> TRUE, attempt |-> r.claim.attempt, pending |-> r.pending,
                      intact |-> TRUE]
                st == ParkedStatus(r)
    <3>1. PICK s \in Parked : attempt' = [attempt EXCEPT
              ![r.claim.task][r.claim.attempt] = Close(@, s)]
      BY <1>7, <2>1, ParkEffect
    <3>2. p \in Checkpoint /\ p.saved /\ p.attempt = r.claim.attempt
      BY <1>1, AttemptNumbers DEF Checkpoint
    <3>3. /\ checkpoint' = [checkpoint EXCEPT ![r.claim.task] = p]
          /\ status' = [status EXCEPT ![r.claim.task] = st]
          /\ st \in {"queued"} \cup Parked
      BY <1>7, <2>1, ParkEffect
    <3>4. s \in AttemptStatus /\ st \in Status \ Active
      BY <1>2, <3>3 DEF Parked
    <3>. HIDE DEF p, st
    <3>. QED
      BY <1>1, <1>4, <2>1, <3>1, <3>2, <3>3, <3>4, OwnedStopped
  <2>. QED
    BY <1>3, <1>4, <1>7, <2>1 DEF ServePark
<1>8. CASE ServeFail(r)
  <2>1. CASE Holds(r.claim, r.age)
    <3>1. PICK st \in {"failed", "queued"} : status' = [status EXCEPT ![r.claim.task] = st]
      BY <1>8, <2>1, FailEffect
    <3>2. /\ checkpoint' = [checkpoint EXCEPT ![r.claim.task] = NoCheckpoint]
          /\ attempt' = [attempt EXCEPT ![r.claim.task][r.claim.attempt] = Close(@, "failed")]
      BY <1>8, <2>1, FailEffect
    <3>3. NoCheckpoint \in Checkpoint /\ ~NoCheckpoint.saved
      BY NoneSaved DEF NoCheckpoint
    <3>. QED
      BY <1>1, <1>2, <1>4, <2>1, <3>1, <3>2, <3>3, OwnedStopped
  <2>. QED
    BY <1>3, <1>4, <1>8, <2>1 DEF ServeFail
<1>. QED
  BY <1>5, <1>6, <1>7, <1>8

LEMMA OwnedKept ==
    ASSUME Good, [Next]_vars
    PROVE  Owned'
<1>1. ASSUME NEW t \in Task, Damage(t) PROVE Owned'
  <2>1. checkpoint[t] \in Checkpoint /\ checkpoint \in [Task -> Checkpoint]
    BY DEF Good, TypeOK
  <2>2. \A u \in Task : /\ checkpoint'[u].saved = checkpoint[u].saved
                        /\ checkpoint'[u].attempt = checkpoint[u].attempt
    <3>1. /\ [checkpoint[t] EXCEPT !.intact = FALSE].saved = checkpoint[t].saved
          /\ [checkpoint[t] EXCEPT !.intact = FALSE].attempt = checkpoint[t].attempt
      BY <2>1 DEF Checkpoint
    <3>. QED
      BY <1>1, <2>1, <3>1 DEF Damage
  <2>3. UNCHANGED <<status, attempts, attempt, granted>>
    BY <1>1 DEF Damage
  <2>. QED
    BY <2>2, <2>3, OwnedRows
<1>2. CASE Tick
  <2>1. UNCHANGED <<status, attempts, checkpoint, granted>>
    BY <1>2 DEF Tick
  <2>2. ASSUME NEW t \in Task, NEW n \in AttemptNo
        PROVE  /\ attempt'[t][n].status = attempt[t][n].status
               /\ attempt'[t][n].token = attempt[t][n].token
    <3>1. attempt[t][n] \in Attempt
      BY DEF Good, TypeOK
    <3>2. attempt'[t][n] = IF attempt[t][n].status = "running" /\ attempt[t][n].lease > -MaxWait
                           THEN [attempt[t][n] EXCEPT !.lease = @ - 1] ELSE attempt[t][n]
      BY <1>2 DEF Tick
    <3>3. /\ [attempt[t][n] EXCEPT !.lease = @ - 1].status = attempt[t][n].status
          /\ [attempt[t][n] EXCEPT !.lease = @ - 1].token = attempt[t][n].token
      BY <3>1 DEF Attempt
    <3>. QED
      BY <3>2, <3>3
  <2>. QED
    BY <2>1, <2>2, OwnedRows
<1>3. CASE UNCHANGED vars
  <2>1. UNCHANGED <<status, attempts, granted, attempt, checkpoint>>
    BY <1>3 DEF vars
  <2>. QED
    BY <2>1, OwnedIdle
<1>. QED
  BY <1>1, <1>2, <1>3, OwnedUser, OwnedStep, OwnedClaim, OwnedAnswer DEF Next, Serve

-----------------------------------------------------------------------------
(* What a task leaves behind decides whether it may be done again.         *)

FreshOf(t) ==
    /\ ~checkpoint[t].saved => checkpoint[t] = NoCheckpoint
    /\ status[t] = "waiting_approval" => checkpoint[t].saved
    /\ status[t] = "absent" => ~checkpoint[t].saved
    /\ status[t] \in Unbegun /\ ~checkpoint[t].saved =>
           /\ attempts[t] < limit[t]
           /\ \A c \in CallsOf(t) : c \notin Writes \cap started
WritesOf(t) == \A c \in CallsOf(t) : c \in Writes \cap started => caller[c] = attempts[t]
KeptOf(t) ==
    /\ \A n \in Nat : <<t, n>> \in saved => /\ n <= attempts[t]
                                            /\ attempts[t] > n => retried[t] >= n
    /\ <<t, attempts[t]>> \in saved /\ retried[t] < attempts[t] /\ status[t] \notin Ended
           => checkpoint[t].saved

LEMMA RestByTask ==
    TypeOK => (Fresh /\ WritesOnce /\ Kept /\ NoSilentRestart
                   <=> \A t \in Task : FreshOf(t) /\ WritesOf(t) /\ KeptOf(t))
<1>. SUFFICES ASSUME TypeOK
              PROVE  Fresh /\ WritesOnce /\ Kept /\ NoSilentRestart
                         <=> \A t \in Task : FreshOf(t) /\ WritesOf(t) /\ KeptOf(t)
  OBVIOUS
<1>1. Fresh <=> \A t \in Task : FreshOf(t)
  BY DEF Fresh, FreshOf
<1>2. WritesOnce <=> \A t \in Task : WritesOf(t)
  BY CallAssumption, ToolAssumption DEF WritesOnce, WritesOf, CallsOf
<1>3. Kept /\ NoSilentRestart <=> \A t \in Task : KeptOf(t)
  <2>1. ASSUME Kept, NoSilentRestart, NEW t \in Task PROVE KeptOf(t)
    BY <2>1 DEF Kept, NoSilentRestart, KeptOf
  <2>2. ASSUME \A t \in Task : KeptOf(t), NEW p \in saved
        PROVE  p[2] <= attempts[p[1]] /\ (attempts[p[1]] > p[2] => retried[p[1]] >= p[2])
    <3>1. p[1] \in Task /\ p[2] \in Nat /\ p = <<p[1], p[2]>>
      BY DEF TypeOK
    <3>. QED
      BY <2>2, <3>1 DEF KeptOf
  <2>3. ASSUME \A t \in Task : KeptOf(t) PROVE Kept /\ NoSilentRestart
    BY <2>2, <2>3 DEF Kept, NoSilentRestart, KeptOf
  <2>. QED
    BY <2>1, <2>3
<1>. QED
  BY <1>1, <1>2, <1>3

LEMMA RestOfGood == ASSUME Good PROVE \A t \in Task : FreshOf(t) /\ WritesOf(t) /\ KeptOf(t)
BY RestByTask DEF Good

\* The calls that were started stay as they were.
SameCalls == started' = started /\ caller' = caller

LEMMA FreshRows ==
    ASSUME Good, NEW t \in Task, SameCalls, limit'[t] = limit[t],
           attempts'[t] = attempts[t], checkpoint'[t] = checkpoint[t],
           status'[t] \in Unbegun => status[t] \in Unbegun \/ checkpoint[t].saved,
           status'[t] = "waiting_approval" => checkpoint[t].saved,
           status'[t] = "absent" => status[t] = "absent"
    PROVE  FreshOf(t)' /\ WritesOf(t)'
BY RestOfGood DEF FreshOf, WritesOf, SameCalls, CallsOf

LEMMA KeptRows ==
    ASSUME Good, NEW t \in Task, saved' = saved, attempts'[t] = attempts[t],
           retried'[t] = retried[t] \/ retried'[t] = attempts[t],
           \/ checkpoint'[t].saved = checkpoint[t].saved /\ (status[t] \in Ended => status'[t] \in Ended)
           \/ status'[t] \in Ended
           \/ retried'[t] = attempts[t]
           \/ status[t] \notin Ended /\ ~checkpoint[t].saved
    PROVE  KeptOf(t)'
<1>1. KeptOf(t) /\ attempts[t] \in Nat /\ retried[t] \in Nat
  BY RestOfGood DEF Good, TypeOK
<1>2. \A n \in Nat : <<t, n>> \in saved' =>
          n <= attempts'[t] /\ (attempts'[t] > n => retried'[t] >= n)
  BY <1>1 DEF KeptOf
<1>3. <<t, attempts'[t]>> \in saved' /\ retried'[t] < attempts'[t] /\ status'[t] \notin Ended
          => checkpoint'[t].saved
  BY <1>1 DEF KeptOf
<1>. QED
  BY <1>2, <1>3 DEF KeptOf

LEMMA RestUser ==
    ASSUME Good, User, NEW u \in Task
    PROVE  FreshOf(u)' /\ WritesOf(u)' /\ KeptOf(u)'
<1>0. /\ status \in [Task -> Status] /\ checkpoint \in [Task -> Checkpoint]
      /\ limit \in [Task -> Nat] /\ attempts \in [Task -> Nat] /\ retried \in [Task -> Nat]
  BY DEF Good, TypeOK
<1>1. ASSUME NEW t \in Task, Start(t) \/ Pause(t) \/ Resume(t) \/ AppendInput(t)
      PROVE  FreshOf(u)' /\ WritesOf(u)' /\ KeptOf(u)'
  <2>1. SameCalls /\ UNCHANGED <<attempts, limit, checkpoint, saved, retried>>
    BY <1>1 DEF Start, Pause, Resume, AppendInput, SameCalls
  <2>2. /\ status'[u] \in Unbegun => status[u] \in Unbegun \/ checkpoint[u].saved
        /\ status'[u] = "waiting_approval" => checkpoint[u].saved
        /\ status'[u] = "absent" => status[u] = "absent"
        /\ status[u] \in Ended => status'[u] \in Ended
    <3>0. FreshOf(u)
      BY RestOfGood
    <3>1. CASE Start(t)
      BY <1>0, <3>0, <3>1 DEF Start, Unbegun, FreshOf, Ended
    <3>2. CASE Pause(t)
      BY <1>0, <3>0, <3>2 DEF Pause, Unbegun, FreshOf, Ended
    <3>3. CASE Resume(t)
      BY <1>0, <3>0, <3>3 DEF Resume, ResumeStatus, Unbegun, FreshOf, NoCheckpoint, Ended
    <3>4. CASE AppendInput(t)
      BY <1>0, <3>0, <3>4 DEF AppendInput, InputStatus, Unbegun, FreshOf, Ended
    <3>. QED
      BY <1>1, <3>1, <3>2, <3>3, <3>4
  <2>. QED
    BY <2>1, <2>2, FreshRows, KeptRows
<1>2. ASSUME NEW t \in Task, Cancel(t) PROVE FreshOf(u)' /\ WritesOf(u)' /\ KeptOf(u)'
  <2>1. /\ status' = [status EXCEPT ![t] = "cancelled"]
        /\ checkpoint' = [checkpoint EXCEPT ![t] = NoCheckpoint]
        /\ SameCalls /\ UNCHANGED <<attempts, limit, saved, retried>>
    BY <1>2 DEF Cancel, SameCalls
  <2>2. CASE u = t
    <3>1. status'[u] = "cancelled" /\ checkpoint'[u] = NoCheckpoint
      BY <1>0, <2>1, <2>2
    <3>2. WritesOf(u)'
      BY <2>1, RestOfGood DEF WritesOf, SameCalls, CallsOf
    <3>. QED
      BY <2>1, <3>1, <3>2, KeptRows DEF FreshOf, Unbegun, Ended
  <2>3. CASE u # t
    <3>1. status'[u] = status[u] /\ checkpoint'[u] = checkpoint[u]
      BY <1>0, <2>1, <2>3
    <3>. QED
      BY <2>1, <3>1, FreshRows, KeptRows, RestOfGood DEF FreshOf
  <2>. QED
    BY <2>2, <2>3
<1>3. ASSUME NEW t \in Task, Retry(t) PROVE FreshOf(u)' /\ WritesOf(u)' /\ KeptOf(u)'
  <2>1. /\ status' = [status EXCEPT ![t] = "queued"]
        /\ checkpoint' = [checkpoint EXCEPT ![t] = NoCheckpoint]
        /\ retried' = [retried EXCEPT ![t] = attempts[t]]
        /\ limit' = [limit EXCEPT ![t] = IF @ <= attempts[t] THEN attempts[t] + 1 ELSE @]
        /\ \A c \in CallsOf(t) : c \notin Writes \cap started
        /\ SameCalls /\ UNCHANGED <<attempts, saved>>
    BY <1>3 DEF Retry, RaiseLimit, RetryRisk, SameCalls
  <2>2. CASE u = t
    <3>1. /\ status'[u] = "queued" /\ checkpoint'[u] = NoCheckpoint
          /\ retried'[u] = attempts[u] /\ attempts'[u] < limit'[u]
      BY <1>0, <2>1, <2>2
    <3>2. WritesOf(u)'
      BY <2>1, RestOfGood DEF WritesOf, SameCalls, CallsOf
    <3>3. FreshOf(u)'
      BY <2>1, <2>2, <3>1 DEF FreshOf, SameCalls, CallsOf
    <3>. QED
      BY <2>1, <3>1, <3>2, <3>3, KeptRows
  <2>3. CASE u # t
    <3>1. /\ status'[u] = status[u] /\ checkpoint'[u] = checkpoint[u]
          /\ retried'[u] = retried[u] /\ limit'[u] = limit[u]
      BY <1>0, <2>1, <2>3
    <3>. QED
      BY <2>1, <3>1, FreshRows, KeptRows, RestOfGood DEF FreshOf
  <2>. QED
    BY <2>2, <2>3
<1>4. ASSUME NEW c \in Call, Resolve(c) PROVE FreshOf(u)' /\ WritesOf(u)' /\ KeptOf(u)'
  <2>1. SameCalls /\ UNCHANGED <<attempts, limit, checkpoint, saved, retried>>
    BY <1>4 DEF Resolve, SameCalls
  <2>2. \/ status'[u] = status[u]
        \/ /\ status[u] = "waiting_approval" /\ status'[u] = "queued"
           /\ checkpoint[u].saved
    BY <1>4, WakeEffect
  <2>3. FreshOf(u)
    BY RestOfGood
  <2>. QED
    BY <2>1, <2>2, <2>3, FreshRows, KeptRows DEF FreshOf, Ended
<1>5. CASE DeleteProject
  <2>1. /\ status'[u] = IF status[u] \in {"absent", "completed"} THEN status[u] ELSE "cancelled"
        /\ checkpoint'[u] = NoCheckpoint
        /\ SameCalls /\ UNCHANGED <<attempts, limit, saved, retried>>
    BY <1>5 DEF DeleteProject, SameCalls
  <2>2. WritesOf(u)' /\ FreshOf(u)
    BY <2>1, RestOfGood DEF WritesOf, SameCalls, CallsOf
  <2>3. CASE status[u] # "absent"
    BY <2>1, <2>2, <2>3, KeptRows DEF FreshOf, Unbegun, Ended
  <2>4. CASE status[u] = "absent"
    BY <2>1, <2>2, <2>4, KeptRows DEF FreshOf, Unbegun, Ended, SameCalls, CallsOf
  <2>. QED
    BY <2>3, <2>4
<1>. QED
  BY <1>1, <1>2, <1>3, <1>4, <1>5 DEF User

\* A tool runs for the holder of its task.
LEMMA CallEffect ==
    ASSUME Good, NEW w \in Worker, NEW c \in Call, BeginCall(w, c) \/ StartCall(w, c)
    PROVE  /\ TaskOf[c] \in Task /\ status[TaskOf[c]] \in Active
           /\ caller'[c] = attempts[TaskOf[c]]
           /\ \A d \in Call : d # c => caller'[d] = caller[d]
           /\ started' \subseteq started \cup {c}
<1>1. Owns(w, c) /\ Holds(Claim(w), 0)
  BY DEF BeginCall, StartCall
<1>2. worker[w].claim.task \in Task /\ worker[w].claim \in Claimed /\ TaskOf[c] \in Task
  BY <1>1, CallAssumption DEF Owns, Good, Addressed, TypeOK, Memory
<1>3. Claim(w) \in [task : Task, attempt : AttemptNo, token : Nat] /\ Claim(w).task = TaskOf[c]
  BY <1>1, <1>2, ClaimTyped DEF Claim, Owns
<1>4. Claim(w).attempt = attempts[TaskOf[c]] /\ status[TaskOf[c]] \in Active
  BY <1>1, <1>3, HeldLast
<1>5. caller'[c] = Claim(w).attempt /\ \A d \in Call : d # c => caller'[d] = caller[d]
  BY DEF BeginCall, StartCall, Good, TypeOK
<1>6. started' \subseteq started \cup {c}
  BY DEF BeginCall, StartCall
<1>. QED
  BY <1>2, <1>4, <1>5, <1>6

LEMMA RestStep ==
    ASSUME Good, NEW w \in Worker, Step(w), NEW u \in Task
    PROVE  FreshOf(u)' /\ WritesOf(u)' /\ KeptOf(u)'
<1>1. UNCHANGED <<status, attempts, limit, checkpoint, saved, retried>>
  BY DEF Step, Poll, Beat, Finish, Park, Break, Report, GiveUp, Crash, BeginCall,
         StartCall, EndCall
<1>2. KeptOf(u)'
  BY <1>1, KeptRows
<1>3. CASE SameCalls
  <2>1. FreshOf(u)
    BY RestOfGood
  <2>. QED
    BY <1>1, <1>2, <1>3, <2>1, FreshRows DEF FreshOf
<1>4. ASSUME NEW c \in Call, BeginCall(w, c) \/ StartCall(w, c)
      PROVE  FreshOf(u)' /\ WritesOf(u)'
  <2>1. FreshOf(u) /\ WritesOf(u)
    BY RestOfGood
  <2>2. CASE u = TaskOf[c]
    BY <1>1, <1>4, <2>1, <2>2, CallEffect DEF FreshOf, WritesOf, CallsOf, Unbegun, Active
  <2>3. CASE u # TaskOf[c]
    BY <1>1, <1>4, <2>1, <2>3, CallEffect DEF FreshOf, WritesOf, CallsOf
  <2>. QED
    BY <2>2, <2>3
<1>5. SameCalls \/ \E c \in Call : BeginCall(w, c) \/ StartCall(w, c)
  BY DEF Step, Poll, Beat, Finish, Park, Break, Report, GiveUp, Crash, EndCall, SameCalls
<1>. QED
  BY <1>2, <1>3, <1>4, <1>5

\* What a claim does to the tasks: it gives one out, closes one, or neither.
LEMMA ClaimEffect ==
    ASSUME NEW r \in requests, ServeClaim(r)
    PROVE  /\ checkpoint' = CheckpointThen(r.age)
           /\ UNCHANGED <<limit, results, caller, started, held, saved, retried>>
           /\ \/ status' = StatusThen(r.age) /\ UNCHANGED <<attempts, granted, unread>>
              \/ \E t \in Task :
                     /\ StatusThen(r.age)[t] = "queued"
                     /\ status' = [StatusThen(r.age) EXCEPT ![t] = "failed"]
                     /\ UNCHANGED <<attempts, granted, unread>>
              \/ \E t \in Task :
                     /\ StatusThen(r.age)[t] = "queued"
                     /\ status' = [StatusThen(r.age) EXCEPT ![t] = "running"]
                     /\ granted' = [granted EXCEPT ![t] = @ + 1]
                     /\ unread' = [unread EXCEPT ![t] = FALSE]
                     /\ \/ attempts' = attempts
                        \/ /\ attempts' = [attempts EXCEPT ![t] = @ + 1]
                           /\ ~CheckpointThen(r.age)[t].saved
<1>1. UNCHANGED <<limit, results, caller, started, held, saved, retried>>
  BY DEF ServeClaim
<1>2. CASE NoTask(r)
  BY <1>1, <1>2 DEF NoTask
<1>3. ASSUME NEW t \in Task, StatusThen(r.age)[t] = "queued",
             TakeFresh(r, t) \/ TakeSaved(r, t) \/ TakeCorrupt(r, t)
      PROVE  /\ checkpoint' = CheckpointThen(r.age)
             /\ \/ /\ status' = [StatusThen(r.age) EXCEPT ![t] = "failed"]
                   /\ UNCHANGED <<attempts, granted, unread>>
                \/ /\ status' = [StatusThen(r.age) EXCEPT ![t] = "running"]
                   /\ granted' = [granted EXCEPT ![t] = @ + 1]
                   /\ unread' = [unread EXCEPT ![t] = FALSE]
                   /\ \/ attempts' = attempts
                      \/ /\ attempts' = [attempts EXCEPT ![t] = @ + 1]
                         /\ ~CheckpointThen(r.age)[t].saved
  BY <1>3 DEF TakeFresh, TakeSaved, TakeCorrupt, Given
<1>4. NoTask(r) \/ \E t \in Task : /\ StatusThen(r.age)[t] = "queued"
                                   /\ TakeFresh(r, t) \/ TakeSaved(r, t) \/ TakeCorrupt(r, t)
  BY DEF ServeClaim
<1>. QED
  BY <1>1, <1>2, <1>3, <1>4

\* A task that is to be done from nothing has written nothing.
LEMMA NothingDone ==
    ASSUME Good, NEW age, NEW t \in Task, StatusThen(age)[t] = "queued",
           ~CheckpointThen(age)[t].saved
    PROVE  /\ \A c \in CallsOf(t) : c \notin Writes \cap started
           /\ attempts[t] < limit[t] /\ ~checkpoint[t].saved /\ status[t] \notin Ended
<1>1. FreshOf(t) /\ WritesOf(t) /\ attempts[t] < limit[t]
  BY RestOfGood, FreshLeft
<1>2. CASE t \notin Overdue(age)
  BY <1>1, <1>2, Queued, Unexpired DEF FreshOf, Unbegun, Ended
<1>3. CASE t \in Overdue(age)
  BY <1>1, <1>3, Queued, ExpiredLast DEF Risk, Bound, WritesOf, CallsOf, Active, Ended
<1>. QED
  BY <1>1, <1>2, <1>3

\* What the expiry of leases leaves behind.
LEMMA RestExpired ==
    ASSUME Good, NEW age, NEW u \in Task, SameCalls, limit'[u] = limit[u],
           checkpoint'[u] = CheckpointThen(age)[u], attempts'[u] = attempts[u],
           saved' = saved, retried'[u] = retried[u],
           status'[u] = StatusThen(age)[u]
    PROVE  FreshOf(u)' /\ WritesOf(u)' /\ KeptOf(u)'
<1>0. FreshOf(u) /\ WritesOf(u)
  BY RestOfGood
<1>1. CASE u \notin Overdue(age)
  <2>1. status'[u] = status[u] /\ checkpoint'[u] = checkpoint[u]
    BY <1>1, Unexpired
  <2>. QED
    BY <1>0, <2>1, FreshRows, KeptRows DEF FreshOf
<1>2. CASE u \in Overdue(age)
  <2>1. checkpoint'[u] = NoCheckpoint /\ status'[u] \in {"failed", "queued"}
    BY <1>2 DEF CheckpointThen, StatusThen
  <2>2. ~NoCheckpoint.saved
    BY DEF NoCheckpoint
  <2>3. WritesOf(u)'
    BY <1>0 DEF WritesOf, SameCalls, CallsOf
  <2>4. CASE status'[u] = "failed"
    BY <2>1, <2>3, <2>4, KeptRows DEF FreshOf, Unbegun, Ended
  <2>5. CASE status'[u] = "queued"
    <3>1. /\ \A c \in CallsOf(u) : c \notin Writes \cap started
          /\ attempts[u] < limit[u] /\ ~checkpoint[u].saved /\ status[u] \notin Ended
      BY <2>1, <2>2, <2>5, NothingDone
    <3>2. FreshOf(u)'
      BY <2>1, <2>5, <3>1 DEF FreshOf, SameCalls, CallsOf
    <3>. QED
      BY <2>3, <3>1, <3>2, KeptRows
  <2>. QED
    BY <2>1, <2>4, <2>5
<1>. QED
  BY <1>1, <1>2

LEMMA RestClaim ==
    ASSUME Good, NEW r \in requests, ServeClaim(r), NEW u \in Task
    PROVE  FreshOf(u)' /\ WritesOf(u)' /\ KeptOf(u)'
<1>. DEFINE age == r.age
<1>1. /\ checkpoint' = CheckpointThen(age) /\ SameCalls
      /\ UNCHANGED <<limit, saved, retried>>
  BY ClaimEffect DEF SameCalls
<1>2. /\ StatusThen(age) \in [Task -> Status] /\ attempts \in [Task -> Nat]
      /\ CheckpointThen(age) \in [Task -> Checkpoint] /\ retried[u] \in Nat
  BY ThenTyped DEF Good, TypeOK
<1>3. CASE status'[u] = StatusThen(age)[u] /\ attempts'[u] = attempts[u]
  BY <1>1, <1>3, RestExpired
<1>4. FreshOf(u) /\ WritesOf(u) /\ KeptOf(u)
  BY RestOfGood
<1>5. CheckpointThen(age)[u] = checkpoint[u] \/ CheckpointThen(age)[u] = NoCheckpoint
  BY DEF CheckpointThen
<1>6. ASSUME StatusThen(age)[u] = "queued", status'[u] \in {"failed", "running"},
             attempts'[u] = attempts[u]
      PROVE  FreshOf(u)' /\ WritesOf(u)' /\ KeptOf(u)'
  <2>1. FreshOf(u)' /\ WritesOf(u)'
    BY <1>1, <1>4, <1>5, <1>6 DEF FreshOf, WritesOf, SameCalls, CallsOf, Unbegun
  <2>2. CASE CheckpointThen(age)[u].saved
    <3>1. checkpoint'[u] = checkpoint[u] /\ status[u] \notin Ended
      BY <1>1, <1>6, <2>2, SavedAttempt, Unexpired DEF Ended
    <3>. QED
      BY <1>1, <1>6, <2>1, <3>1, KeptRows
  <2>3. CASE ~CheckpointThen(age)[u].saved
    BY <1>1, <1>6, <2>1, <2>3, NothingDone, KeptRows
  <2>. QED
    BY <2>2, <2>3
<1>7. ASSUME StatusThen(age)[u] = "queued", status'[u] = "running",
             attempts'[u] = attempts[u] + 1, ~CheckpointThen(age)[u].saved
      PROVE  FreshOf(u)' /\ WritesOf(u)' /\ KeptOf(u)'
  <2>1. /\ \A c \in CallsOf(u) : c \notin Writes \cap started
        /\ ~checkpoint[u].saved /\ status[u] \notin Ended
    BY <1>7, NothingDone
  <2>2. FreshOf(u)' /\ WritesOf(u)'
    BY <1>1, <1>4, <1>5, <1>7, <2>1 DEF FreshOf, WritesOf, SameCalls, CallsOf, Unbegun
  <2>3. <<u, attempts[u]>> \in saved => retried[u] >= attempts[u]
    BY <1>2, <1>4, <2>1 DEF KeptOf
  <2>4. \A n \in Nat : <<u, n>> \in saved => n <= attempts[u] /\ retried[u] >= n
    BY <1>2, <1>4, <2>3 DEF KeptOf
  <2>5. KeptOf(u)'
    BY <1>1, <1>2, <1>7, <2>4 DEF KeptOf
  <2>. QED
    BY <2>2, <2>5
<1>. QED
  BY <1>2, <1>3, <1>6, <1>7, ClaimEffect

LEMMA RestAnswer ==
    ASSUME Good, NEW r \in requests,
           ServeProgress(r) \/ ServeComplete(r) \/ ServePark(r) \/ ServeFail(r), NEW u \in Task
    PROVE  FreshOf(u)' /\ WritesOf(u)' /\ KeptOf(u)'
<1>. DEFINE t == r.claim.task  n == r.claim.attempt
<1>1. /\ r.claim \in [task : Task, attempt : AttemptNo, token : Nat]
      /\ t \in Task /\ n \in AttemptNo
  BY Requested DEF ServeProgress, ServeComplete, ServePark, ServeFail
<1>2. SameCalls /\ UNCHANGED <<attempts, limit, retried>>
  BY DEF ServeProgress, ServeComplete, ServePark, ServeFail, SameCalls
<1>3. /\ status \in [Task -> Status] /\ checkpoint \in [Task -> Checkpoint]
      /\ limit \in [Task -> Nat] /\ attempts \in [Task -> Nat] /\ retried \in [Task -> Nat]
  BY DEF Good, TypeOK
<1>4. FreshOf(u) /\ WritesOf(u) /\ KeptOf(u)
  BY RestOfGood
<1>5. ASSUME status'[u] = status[u], checkpoint'[u] = checkpoint[u], saved' = saved
      PROVE  FreshOf(u)' /\ WritesOf(u)' /\ KeptOf(u)'
  BY <1>2, <1>4, <1>5, FreshRows, KeptRows DEF FreshOf
<1>6. WritesOf(u)'
  BY <1>2, <1>4 DEF WritesOf, SameCalls, CallsOf
<1>7. CASE ServeProgress(r)
  BY <1>5, <1>7 DEF ServeProgress
<1>8. CASE ServeComplete(r)
  <2>1. CASE Holds(r.claim, r.age)
    <3>1. /\ status' = [status EXCEPT ![t] = "completed"]
          /\ checkpoint' = [checkpoint EXCEPT ![t] = NoCheckpoint] /\ saved' = saved
      BY <1>8, <2>1, CompleteEffect DEF ServeComplete
    <3>2. CASE u = t
      <4>1. status'[u] = "completed" /\ checkpoint'[u] = NoCheckpoint
        BY <1>3, <3>1, <3>2
      <4>. QED
        BY <1>2, <1>6, <3>1, <4>1, KeptRows DEF FreshOf, Unbegun, Ended
    <3>3. CASE u # t
      BY <1>3, <1>5, <3>1, <3>3
    <3>. QED
      BY <3>2, <3>3
  <2>. QED
    BY <1>5, <1>8, <2>1 DEF ServeComplete
<1>9. CASE ServePark(r)
  <2>1. CASE Holds(r.claim, r.age) /\ Consistent(r)
    <3>. DEFINE p == [saved |-> TRUE, attempt |-> n, pending |-> r.pending, intact |-> TRUE]
    <3>1. /\ status' = [status EXCEPT ![t] = ParkedStatus(r)]
          /\ checkpoint' = [checkpoint EXCEPT ![t] = p] /\ saved' = saved \cup {<<t, n>>}
          /\ ParkedStatus(r) \in {"queued"} \cup Parked
      BY <1>9, <2>1, ParkEffect
    <3>2. n = attempts[t]
      BY <1>1, <2>1, HeldLast
    <3>3. CASE u = t
      <4>1. checkpoint'[u].saved /\ status'[u] \in {"queued"} \cup Parked
        BY <1>3, <3>1, <3>3
      <4>2. FreshOf(u)'
        BY <4>1 DEF FreshOf, Parked
      <4>3. KeptOf(u)'
        <5>1. attempts'[u] \in Nat /\ retried'[u] = retried[u] /\ attempts'[u] = attempts[u]
          BY <1>2, <1>3
        <5>2. \A m \in Nat : <<u, m>> \in saved' => <<u, m>> \in saved \/ m = attempts[u]
          BY <3>1, <3>2, <3>3
        <5>. QED
          BY <1>4, <4>1, <5>1, <5>2 DEF KeptOf
      <4>. QED
        BY <1>6, <4>2, <4>3
    <3>4. CASE u # t
      <4>1. status'[u] = status[u] /\ checkpoint'[u] = checkpoint[u]
        BY <1>3, <3>1, <3>4
      <4>2. \A m \in Nat : <<u, m>> \in saved' => <<u, m>> \in saved
        BY <3>1, <3>4
      <4>3. attempts'[u] = attempts[u] /\ retried'[u] = retried[u] /\ attempts[u] \in Nat
        BY <1>2, <1>3
      <4>4. KeptOf(u)'
        BY <1>4, <4>1, <4>2, <4>3 DEF KeptOf
      <4>. QED
        BY <1>2, <1>4, <4>1, <4>4, FreshRows DEF FreshOf
    <3>. QED
      BY <3>3, <3>4
  <2>. QED
    BY <1>5, <1>9, <2>1 DEF ServePark
<1>10. CASE ServeFail(r)
  <2>1. CASE Holds(r.claim, r.age)
    <3>1. /\ checkpoint' = [checkpoint EXCEPT ![t] = NoCheckpoint] /\ saved' = saved
          /\ \/ status' = [status EXCEPT ![t] = "failed"]
             \/ /\ status' = [status EXCEPT ![t] = "queued"]
                /\ ~Risk(t, n) /\ attempts[t] < limit[t]
      BY <1>10, <2>1, FailEffect DEF ServeFail
    <3>2. n = attempts[t] /\ status[t] \in Active
      BY <1>1, <2>1, HeldLast
    <3>3. CASE u = t /\ status'[t] = "failed"
      <4>1. checkpoint'[u] = NoCheckpoint
        BY <1>3, <3>1, <3>3
      <4>. QED
        BY <1>2, <1>6, <3>1, <3>3, <4>1, KeptRows DEF FreshOf, Unbegun, Ended
    <3>4. CASE u = t /\ status'[t] # "failed"
      <4>1. /\ checkpoint'[u] = NoCheckpoint /\ status'[u] = "queued"
            /\ ~Risk(u, attempts[u]) /\ attempts[u] < limit[u]
        BY <1>3, <3>1, <3>2, <3>4
      <4>2. ~checkpoint[u].saved /\ \A c \in CallsOf(u) : c \notin Writes \cap started
        BY <1>4, <4>1 DEF Risk, Bound, WritesOf
      <4>3. FreshOf(u)'
        BY <1>2, <4>1, <4>2 DEF FreshOf, SameCalls, CallsOf
      <4>4. status[u] \notin Ended
        BY <3>2, <3>4 DEF Active, Ended
      <4>. QED
        BY <1>2, <1>6, <3>1, <4>2, <4>3, <4>4, KeptRows
    <3>5. CASE u # t
      BY <1>3, <1>5, <3>1, <3>5
    <3>. QED
      BY <3>3, <3>4, <3>5
  <2>. QED
    BY <1>5, <1>10, <2>1 DEF ServeFail
<1>. QED
  BY <1>7, <1>8, <1>9, <1>10

LEMMA RestKept ==
    ASSUME Good, [Next]_vars, NEW u \in Task
    PROVE  FreshOf(u)' /\ WritesOf(u)' /\ KeptOf(u)'
<1>0. FreshOf(u)
  BY RestOfGood
<1>1. ASSUME NEW t \in Task, Damage(t) PROVE FreshOf(u)' /\ WritesOf(u)' /\ KeptOf(u)'
  <2>1. /\ checkpoint[t].saved /\ checkpoint[t] \in Checkpoint
        /\ checkpoint' = [checkpoint EXCEPT ![t].intact = FALSE]
        /\ SameCalls /\ UNCHANGED <<status, attempts, limit, saved, retried>>
    BY <1>1 DEF Damage, Good, TypeOK, SameCalls
  <2>2. [checkpoint[t] EXCEPT !.intact = FALSE].saved
    BY <2>1 DEF Checkpoint
  <2>3. checkpoint'[u].saved = checkpoint[u].saved /\ (u # t => checkpoint'[u] = checkpoint[u])
    BY <2>1, <2>2 DEF Good, TypeOK
  <2>4. KeptOf(u)'
    BY <2>1, <2>3, KeptRows
  <2>5. CASE u # t
    BY <1>0, <2>1, <2>3, <2>4, <2>5, FreshRows DEF FreshOf
  <2>6. CASE u = t
    <3>1. FreshOf(u)'
      BY <1>0, <2>1, <2>3, <2>6 DEF FreshOf
    <3>2. WritesOf(u)'
      BY <2>1, RestOfGood DEF WritesOf, SameCalls, CallsOf
    <3>. QED
      BY <2>4, <3>1, <3>2
  <2>. QED
    BY <2>5, <2>6
<1>2. CASE Tick \/ UNCHANGED vars
  <2>1. SameCalls /\ UNCHANGED <<status, attempts, limit, checkpoint, saved, retried>>
    BY <1>2 DEF Tick, vars, SameCalls
  <2>. QED
    BY <1>0, <2>1, FreshRows, KeptRows DEF FreshOf
<1>. QED
  BY <1>1, <1>2, RestUser, RestStep, RestClaim, RestAnswer DEF Next, Serve

-----------------------------------------------------------------------------
(* The theorems.                                                           *)

LEMMA GoodKept ==
    ASSUME Good, [Next]_vars
    PROVE  Good'
<1>1. TypeOK' /\ Addressed' /\ Owned'
  BY TypesKept, AddressedKept, OwnedKept
<1>2. \A u \in Task : (FreshOf(u) /\ WritesOf(u) /\ KeptOf(u))'
  BY RestKept
<1>3. (Fresh /\ WritesOnce /\ Kept /\ NoSilentRestart)'
  <2>1. (TypeOK => (Fresh /\ WritesOnce /\ Kept /\ NoSilentRestart
                       <=> \A t \in Task : FreshOf(t) /\ WritesOf(t) /\ KeptOf(t)))'
    BY RestByTask, PTL
  <2>. QED
    BY <1>1, <1>2, <2>1
<1>. QED
  BY <1>1, <1>3 DEF Good

\* In every state of every execution the invariant holds: what the commands of
\* users, workers and the Store do to a task always fits together.
THEOREM GoodAlways == Spec => []Good
<1>1. Init => Good
  BY InitGood
<1>2. Good /\ [Next]_vars => Good'
  BY GoodKept
<1>. QED
  BY <1>1, <1>2, PTL DEF Spec

\* The rows, requests and workers keep their types, and no task is attempted
\* more often than its limit.
THEOREM TypeCorrect == Spec => []TypeOK
BY GoodAlways, PTL DEF Good

\* Only the last attempt of a task is live, as its task's row says: claims,
\* expiry, checkpoints, cancellation and deletion agree in what they write.
THEOREM OneOwnerAlways == Spec => []OneOwner
<1>1. Good => OneOwner
  BY DEF Good, Owned
<1>. QED
  BY <1>1, GoodAlways, PTL

\* A write that may have acted belongs to the task's last attempt: no requeue,
\* no retry and no claim starts another after it.
THEOREM WritesOnceAlways == Spec => []WritesOnce
BY GoodAlways, PTL DEF Good

\* An attempt that saved a checkpoint is followed by another only after the
\* user's retry.
THEOREM NoSilentRestartAlways == Spec => []NoSilentRestart
BY GoodAlways, PTL DEF Good

-----------------------------------------------------------------------------
(* A user's pause holds, and approvals he gave before he added an input    *)
(* wait for him.                                                           *)

PauseOf(t) ==
    /\ held[t] => /\ status[t] \in {"pausing", "paused"} \cup Ended
                  /\ status[t] = "pausing" => ~inputPause[t]
    /\ status[t] \in {"absent", "running", "waiting_approval"} => ~unread[t]
    /\ status[t] = "queued" /\ checkpoint[t].pending # {} => ~unread[t]
Paused == \A t \in Task : PauseOf(t)

LEMMA NonePending == NoCheckpoint.pending = {}
BY DEF NoCheckpoint

\* Nothing that matters here has changed, or the task has ended.
LEMMA PauseRows ==
    ASSUME Paused, NEW t \in Task, held'[t] = held[t], inputPause'[t] => inputPause[t],
           unread'[t] = unread[t],
           \/ status'[t] = status[t] /\ checkpoint'[t].pending \in {checkpoint[t].pending, {}}
           \/ status'[t] \in Ended
    PROVE  PauseOf(t)'
BY DEF Paused, PauseOf, Ended

LEMMA PausedUser ==
    ASSUME Good, Paused, User, NEW u \in Task
    PROVE  PauseOf(u)'
<1>0. /\ status \in [Task -> Status] /\ checkpoint \in [Task -> Checkpoint]
      /\ held \in [Task -> BOOLEAN] /\ unread \in [Task -> BOOLEAN]
      /\ inputPause \in [Task -> BOOLEAN] /\ PauseOf(u) /\ NoCheckpoint.pending = {}
  BY NonePending DEF Good, TypeOK, Paused
<1>1. ASSUME NEW t \in Task, Start(t) PROVE PauseOf(u)'
  BY <1>0, <1>1 DEF Start, PauseOf, Ended
<1>2. ASSUME NEW t \in Task, Pause(t) PROVE PauseOf(u)'
  BY <1>0, <1>2 DEF Pause, PauseOf, Ended
<1>3. ASSUME NEW t \in Task, Resume(t) PROVE PauseOf(u)'
  BY <1>0, <1>3 DEF Resume, ResumeStatus, PauseOf
<1>4. ASSUME NEW t \in Task, Cancel(t) PROVE PauseOf(u)'
  <2>1. /\ status' = [status EXCEPT ![t] = "cancelled"]
        /\ checkpoint' = [checkpoint EXCEPT ![t] = NoCheckpoint]
        /\ UNCHANGED <<held, inputPause, unread>>
    BY <1>4 DEF Cancel
  <2>2. \/ status'[u] \in Ended
        \/ status'[u] = status[u] /\ checkpoint'[u] = checkpoint[u]
    BY <1>0, <2>1 DEF Ended
  <2>. QED
    BY <1>0, <2>1, <2>2, PauseRows
<1>5. ASSUME NEW t \in Task, Retry(t) PROVE PauseOf(u)'
  <2>1. /\ status' = [status EXCEPT ![t] = "queued"]
        /\ checkpoint' = [checkpoint EXCEPT ![t] = NoCheckpoint]
        /\ held' = [held EXCEPT ![t] = FALSE] /\ UNCHANGED <<inputPause, unread>>
    BY <1>5 DEF Retry
  <2>2. CASE u # t
    <3>1. status'[u] = status[u] /\ checkpoint'[u] = checkpoint[u] /\ held'[u] = held[u]
      BY <1>0, <2>1, <2>2
    <3>. QED
      BY <2>1, <3>1, PauseRows
  <2>3. CASE u = t
    <3>1. status'[u] = "queued" /\ checkpoint'[u] = NoCheckpoint /\ ~held'[u]
      BY <1>0, <2>1, <2>3
    <3>. QED
      BY <1>0, <3>1 DEF PauseOf
  <2>. QED
    BY <2>2, <2>3
<1>6. ASSUME NEW t \in Task, AppendInput(t) PROVE PauseOf(u)'
  <2>1. CASE u # t
    <3>1. /\ status'[u] = status[u] /\ inputPause'[u] = inputPause[u] /\ unread'[u] = unread[u]
          /\ checkpoint' = checkpoint /\ held' = held
      BY <1>0, <1>6, <2>1 DEF AppendInput, InputStatus, PausesForInput
    <3>. QED
      BY <1>0, <3>1, PauseRows
  <2>2. CASE u = t
    <3>1. status[t] \in {"queued", "running", "pausing", "waiting_approval", "paused"}
      BY <1>0, <1>6 DEF AppendInput, Status, Active, Parked
    <3>2. /\ status'[t] = IF status[t] = "running" THEN "pausing"
                          ELSE IF \/ status[t] = "waiting_approval"
                                  \/ status[t] = "queued" /\ checkpoint[t].pending # {}
                               THEN "paused" ELSE status[t]
          /\ checkpoint' = checkpoint /\ held' = held
      <4>1. /\ status[t] = "running" => status'[t] = "pausing"
            /\ status[t] # "running" /\ (status[t] = "waiting_approval"
                  \/ (status[t] = "queued" /\ checkpoint[t].pending # {}))
               => status'[t] = "paused"
            /\ status[t] # "running" /\ ~(status[t] = "waiting_approval"
                  \/ (status[t] = "queued" /\ checkpoint[t].pending # {}))
               => status'[t] = status[t]
        BY <1>0, <1>6 DEF AppendInput, InputStatus
      <4>. QED
        BY <1>6, <4>1 DEF AppendInput
    <3>3. inputPause'[t] = (status[t] = "running" \/ (inputPause[t] /\ status'[t] = status[t]))
      BY <1>0, <1>6 DEF AppendInput, PausesForInput
    <3>. QED
      BY <1>0, <2>2, <3>1, <3>2, <3>3 DEF PauseOf, Ended
  <2>. QED
    BY <2>1, <2>2
<1>7. ASSUME NEW c \in Call, Resolve(c) PROVE PauseOf(u)'
  <2>1. UNCHANGED <<checkpoint, held, inputPause, unread>>
    BY <1>7 DEF Resolve
  <2>2. \/ status'[u] = status[u]
        \/ status[u] = "waiting_approval" /\ status'[u] = "queued"
    BY <1>7, WakeEffect
  <2>. QED
    BY <1>0, <2>1, <2>2 DEF PauseOf, Ended
<1>8. CASE DeleteProject
  <2>1. /\ status'[u] = IF status[u] \in {"absent", "completed"} THEN status[u] ELSE "cancelled"
        /\ checkpoint'[u] = NoCheckpoint /\ UNCHANGED <<held, inputPause, unread>>
    BY <1>8 DEF DeleteProject
  <2>. QED
    BY <1>0, <2>1 DEF PauseOf, Ended
<1>. QED
  BY <1>1, <1>2, <1>3, <1>4, <1>5, <1>6, <1>7, <1>8 DEF User

LEMMA PausedClaim ==
    ASSUME Good, Paused, NEW r \in requests, ServeClaim(r), NEW u \in Task
    PROVE  PauseOf(u)'
<1>. DEFINE age == r.age
<1>0. /\ StatusThen(age) \in [Task -> Status] /\ unread \in [Task -> BOOLEAN]
      /\ inputPause \in [Task -> BOOLEAN] /\ PauseOf(u)
  BY ThenTyped DEF Good, TypeOK, Paused
<1>1. checkpoint' = CheckpointThen(age) /\ held' = held
  BY ClaimEffect
<1>2. inputPause'[u] => inputPause[u]
  BY <1>0 DEF ServeClaim, NoTask, TakeFresh, TakeSaved, TakeCorrupt
<1>3. checkpoint'[u].pending \in {checkpoint[u].pending, {}}
      /\ (u \in Overdue(age) => checkpoint'[u].pending = {})
  BY <1>1, NonePending DEF CheckpointThen
\* A task that was to be given out was not held by its user.
<1>4. StatusThen(age)[u] = "queued" => ~held[u]
  <2>1. CASE u \notin Overdue(age)
    BY <1>0, <2>1, Queued DEF PauseOf, Ended
  <2>2. ASSUME u \in Overdue(age), StatusThen(age)[u] = "queued" PROVE ~held[u]
    <3>1. status[u] # "pausing"
      BY <2>2, ExpiredLast DEF StatusThen, Lost
    <3>2. status[u] \in Active
      BY <2>2, ExpiredLast
    <3>. QED
      BY <1>0, <3>1, <3>2 DEF PauseOf, Active, Ended
  <2>. QED
    BY <2>1, <2>2
<1>5. ASSUME status'[u] = StatusThen(age)[u], unread'[u] = unread[u] PROVE PauseOf(u)'
  <2>1. CASE u \notin Overdue(age)
    BY <1>1, <1>2, <1>3, <1>5, <2>1, Unexpired, PauseRows
  <2>2. CASE u \in Overdue(age)
    <3>1. status'[u] \in {"failed", "queued"}
      BY <1>5, <2>2 DEF StatusThen
    <3>2. CASE status'[u] = "failed"
      BY <1>1, <1>2, <1>5, <3>2, PauseRows DEF Ended
    <3>3. CASE status'[u] = "queued"
      BY <1>1, <1>3, <1>4, <1>5, <2>2, <3>3 DEF PauseOf
    <3>. QED
      BY <3>1, <3>2, <3>3
  <2>. QED
    BY <2>1, <2>2
<1>6. ASSUME status'[u] = "failed", unread'[u] = unread[u] PROVE PauseOf(u)'
  BY <1>1, <1>2, <1>6, PauseRows DEF Ended
<1>7. ASSUME StatusThen(age)[u] = "queued", status'[u] = "running", ~unread'[u]
      PROVE  PauseOf(u)'
  BY <1>1, <1>4, <1>7 DEF PauseOf
<1>8. \/ status'[u] = StatusThen(age)[u] /\ unread'[u] = unread[u]
      \/ status'[u] = "failed" /\ unread'[u] = unread[u]
      \/ StatusThen(age)[u] = "queued" /\ status'[u] = "running" /\ ~unread'[u]
  BY <1>0, ClaimEffect
<1>. QED
  BY <1>5, <1>6, <1>7, <1>8

LEMMA PausedAnswer ==
    ASSUME Good, Paused, NEW r \in requests,
           ServeProgress(r) \/ ServeComplete(r) \/ ServePark(r) \/ ServeFail(r), NEW u \in Task
    PROVE  PauseOf(u)'
<1>. DEFINE t == r.claim.task
<1>1. r.claim \in [task : Task, attempt : AttemptNo, token : Nat] /\ t \in Task
  BY Requested DEF ServeProgress, ServeComplete, ServePark, ServeFail
<1>2. /\ status \in [Task -> Status] /\ checkpoint \in [Task -> Checkpoint]
      /\ inputPause \in [Task -> BOOLEAN] /\ PauseOf(u)
  BY DEF Good, TypeOK, Paused
<1>3. UNCHANGED <<held, unread>>
  BY DEF ServeProgress, ServeComplete, ServePark, ServeFail
<1>4. ASSUME UNCHANGED <<status, checkpoint, inputPause>> PROVE PauseOf(u)'
  BY <1>3, <1>4, PauseRows
<1>5. CASE ServeProgress(r)
  BY <1>4, <1>5 DEF ServeProgress
<1>6. CASE ServeComplete(r)
  <2>1. CASE Holds(r.claim, r.age)
    <3>1. /\ status' = [status EXCEPT ![t] = "completed"] /\ inputPause' = inputPause
          /\ checkpoint' = [checkpoint EXCEPT ![t] = NoCheckpoint]
      BY <1>6, <2>1, CompleteEffect DEF ServeComplete
    <3>2. \/ status'[u] \in Ended
          \/ status'[u] = status[u] /\ checkpoint'[u] = checkpoint[u]
      BY <1>2, <3>1 DEF Ended
    <3>. QED
      BY <1>3, <3>1, <3>2, PauseRows
  <2>. QED
    BY <1>4, <1>6, <2>1 DEF ServeComplete
<1>7. CASE ServePark(r)
  <2>1. CASE Holds(r.claim, r.age) /\ Consistent(r)
    <3>. DEFINE p == [saved |-> TRUE, attempt |-> r.claim.attempt, pending |-> r.pending,
                      intact |-> TRUE]
    <3>1. /\ status' = [status EXCEPT ![t] = ParkedStatus(r)]
          /\ checkpoint' = [checkpoint EXCEPT ![t] = p]
          /\ inputPause' = [inputPause EXCEPT ![t] = FALSE]
      BY <1>7, <2>1, ParkEffect
    <3>2. CASE u # t
      <4>1. /\ status'[u] = status[u] /\ checkpoint'[u] = checkpoint[u]
            /\ inputPause'[u] = inputPause[u]
        BY <1>2, <3>1, <3>2
      <4>. QED
        BY <1>3, <4>1, PauseRows
    <3>3. CASE u = t
      <4>1. /\ status'[u] = ParkedStatus(r) /\ checkpoint'[u].pending = r.pending
            /\ ~inputPause'[u]
        BY <1>2, <3>1, <3>3
      <4>2. status[t] \in {"running", "pausing"}
        BY <1>1, <2>1, HeldLast DEF Active
      <4>3. \/ ParkedStatus(r) = "paused"
            \/ status[t] = "pausing" /\ inputPause[t] /\ r.pending = {}
                  /\ ParkedStatus(r) = "queued"
            \/ status[t] = "running" /\ ParkedStatus(r) \in {"queued", "waiting_approval"}
        BY <4>2 DEF ParkedStatus
      <4>. QED
        BY <1>2, <1>3, <3>3, <4>1, <4>2, <4>3 DEF PauseOf, Ended
    <3>. QED
      BY <3>2, <3>3
  <2>. QED
    BY <1>4, <1>7, <2>1 DEF ServePark
<1>8. CASE ServeFail(r)
  <2>1. CASE Holds(r.claim, r.age)
    <3>1. /\ checkpoint' = [checkpoint EXCEPT ![t] = NoCheckpoint] /\ inputPause' = inputPause
          /\ \/ status' = [status EXCEPT ![t] = "failed"]
             \/ status' = [status EXCEPT ![t] = "queued"] /\ status[t] # "pausing"
      BY <1>8, <2>1 DEF ServeFail
    <3>2. status[t] \in {"running", "pausing"}
      BY <1>1, <2>1, HeldLast DEF Active
    <3>3. CASE u # t
      BY <1>2, <1>3, <3>1, <3>3, PauseRows
    <3>4. CASE u = t
      <4>1. checkpoint'[u].pending = {}
        BY <1>2, <3>1, <3>4, NonePending
      <4>2. \/ status'[u] = "failed"
            \/ status'[u] = "queued" /\ status[u] = "running"
        BY <1>2, <3>1, <3>2, <3>4
      <4>. QED
        BY <1>2, <1>3, <3>1, <4>1, <4>2 DEF PauseOf, Ended
    <3>. QED
      BY <3>3, <3>4
  <2>. QED
    BY <1>4, <1>8, <2>1 DEF ServeFail
<1>. QED
  BY <1>5, <1>6, <1>7, <1>8

LEMMA PausedKept ==
    ASSUME Good, Paused, [Next]_vars, NEW u \in Task
    PROVE  PauseOf(u)'
<1>1. ASSUME NEW w \in Worker, Step(w) PROVE PauseOf(u)'
  <2>1. UNCHANGED <<status, checkpoint, inputPause, held, unread>>
    BY <1>1 DEF Step, Poll, Beat, Finish, Park, Break, Report, GiveUp, Crash, BeginCall,
                StartCall, EndCall
  <2>. QED
    BY <2>1, PauseRows
<1>2. ASSUME NEW t \in Task, Damage(t) PROVE PauseOf(u)'
  <2>1. checkpoint[t] \in Checkpoint /\ checkpoint \in [Task -> Checkpoint]
    BY DEF Good, TypeOK
  <2>2. [checkpoint[t] EXCEPT !.intact = FALSE].pending = checkpoint[t].pending
    BY <2>1 DEF Checkpoint
  <2>3. checkpoint' = [checkpoint EXCEPT ![t].intact = FALSE]
        /\ UNCHANGED <<status, inputPause, held, unread>>
    BY <1>2 DEF Damage
  <2>4. checkpoint'[u].pending = checkpoint[u].pending
    BY <2>1, <2>2, <2>3
  <2>. QED
    BY <2>3, <2>4, PauseRows
<1>3. CASE Tick \/ UNCHANGED vars
  <2>1. UNCHANGED <<status, checkpoint, inputPause, held, unread>>
    BY <1>3 DEF Tick, vars
  <2>. QED
    BY <2>1, PauseRows
<1>. QED
  BY <1>1, <1>2, <1>3, PausedUser, PausedClaim, PausedAnswer DEF Next, Serve

LEMMA PausedAlways == Spec => []Paused
<1>1. Init => Paused
  BY DEF Init, Paused, PauseOf
<1>2. Good /\ Paused /\ [Next]_vars => Paused'
  BY PausedKept DEF Paused
<1>. QED
  BY <1>1, <1>2, GoodAlways, PTL DEF Spec

\* A task its user paused is neither given out nor left waiting for anything
\* but him, until he resumes or retries it or it ends.
THEOREM ManualPauseAlways == Spec => []ManualPauseHolds
<1>1. Paused => ManualPauseHolds
  BY DEF Paused, PauseOf, ManualPauseHolds
<1>. QED
  BY <1>1, PausedAlways, PTL

\* Approvals that were asked for before an input came are acted on only after
\* the user resumes the task.
THEOREM OldApprovalsAlways == Spec => []OldApprovalsHeld
<1>1. Paused => OldApprovalsHeld
  BY DEF Paused, PauseOf, OldApprovalsHeld
<1>. QED
  BY <1>1, PausedAlways, PTL

-----------------------------------------------------------------------------
Closed == {"failed", "cancelled"}
Opened == {"queued"} \cup Parked

\* The step of LeasedWork that t takes.
StepOf(t) ==
    \/ LW!Stay(t) \/ LW!Create(t) \/ LW!Give(t) \/ LW!TakeBack(t)
    \/ LW!Answer(t) \/ LW!Close(t) \/ LW!Reopen(t)

\* The moves of a task that neither give it out nor answer it.
Moved(t) ==
    \/ status'[t] = status[t]
    \/ status[t] = "absent" /\ status'[t] = "queued"
    \/ status[t] \in Opened \cup Active /\ status'[t] \in Opened
    \/ status[t] \in Active /\ status'[t] \in Active
    \/ status[t] \in Opened \cup Active \cup Closed /\ status'[t] \in Closed
    \/ status[t] \in Closed /\ status'[t] = "queued"

-----------------------------------------------------------------------------
LEMMA Phases ==
    ASSUME NEW t \in Task
    PROVE  /\ status[t] = "absent" => Phase(t) = "absent"
           /\ status[t] \in Opened => Phase(t) = "open"
           /\ status[t] \in Active => Phase(t) = "held"
           /\ status[t] = "completed" => Phase(t) = "answered"
           /\ status[t] \in Closed => Phase(t) = "closed"
BY DEF Phase, Opened, Parked, Active, Closed

LEMMA PhasesNext ==
    ASSUME NEW t \in Task
    PROVE  /\ status'[t] = "absent" => Phase(t)' = "absent"
           /\ status'[t] \in Opened => Phase(t)' = "open"
           /\ status'[t] \in Active => Phase(t)' = "held"
           /\ status'[t] = "completed" => Phase(t)' = "answered"
           /\ status'[t] \in Closed => Phase(t)' = "closed"
           /\ status'[t] = status[t] => Phase(t)' = Phase(t)
BY DEF Phase, Opened, Parked, Active, Closed

LEMMA Undisturbed ==
    ASSUME NEW t \in Task, Moved(t), granted'[t] = granted[t], results'[t] = results[t]
    PROVE  StepOf(t)
<1>1. LW!Keeps(t)
  BY DEF LW!Keeps
<1>2. \/ Phase(t)' = Phase(t)
      \/ Phase(t) = "absent" /\ Phase(t)' = "open"
      \/ Phase(t) = "held" /\ Phase(t)' = "open"
      \/ Phase(t) \in {"open", "held"} /\ Phase(t)' = "closed"
      \/ Phase(t) = "closed" /\ Phase(t)' = "open"
  BY Phases, PhasesNext DEF Moved, Opened
<1>. QED
  BY <1>1, <1>2
  DEF StepOf, LW!Stay, LW!Create, LW!TakeBack, LW!Close, LW!Reopen, LW!Moves

\* What follows from a step of every task.
LEMMA AllMoved ==
    ASSUME \A t \in Task : Moved(t), granted' = granted, results' = results
    PROVE  \A t \in Task : StepOf(t)
BY Undisturbed

LEMMA UserMoves ==
    ASSUME Good, User, NEW u \in Task
    PROVE  StepOf(u)
<1>0. status \in [Task -> Status]
  BY DEF Good, TypeOK
<1>1. ASSUME NEW t \in Task,
             Start(t) \/ Pause(t) \/ Resume(t) \/ Cancel(t) \/ Retry(t) \/ AppendInput(t)
      PROVE  StepOf(u)
  <2>1. granted' = granted /\ results' = results
    BY <1>1 DEF Start, Pause, Resume, Cancel, Retry, AppendInput
  <2>2. u # t => status'[u] = status[u]
    BY <1>0, <1>1 DEF Start, Pause, Resume, ResumeStatus, Cancel, Retry, AppendInput, InputStatus
  <2>3. Moved(t)
    <3>1. CASE Start(t)
      BY <1>0, <3>1 DEF Start, Moved
    <3>2. CASE Pause(t)
      BY <1>0, <3>2 DEF Pause, Moved, Active, Opened, Parked
    <3>3. CASE Resume(t)
      BY <1>0, <3>3 DEF Resume, ResumeStatus, Moved, Opened, Parked
    <3>4. CASE Cancel(t)
      <4>1. status'[t] = "cancelled" /\ status[t] \notin {"absent", "completed", "cancelled"}
        BY <1>0, <3>4 DEF Cancel
      <4>2. status[t] \in Status
        BY <1>0
      <4>. QED
        BY <4>1, <4>2 DEF Moved, Status, Ended, Opened, Parked, Active, Closed
    <3>5. CASE Retry(t)
      BY <1>0, <3>5 DEF Retry, Moved, Closed
    <3>6. CASE AppendInput(t)
      BY <1>0, <3>6 DEF AppendInput, InputStatus, Moved, Active, Opened, Parked
    <3>. QED
      BY <1>1, <3>1, <3>2, <3>3, <3>4, <3>5, <3>6
  <2>. QED
    BY <2>1, <2>2, <2>3, Undisturbed DEF Moved
<1>2. ASSUME NEW c \in Call, Resolve(c) PROVE StepOf(u)
  <2>1. granted' = granted /\ results' = results
    BY <1>2 DEF Resolve
  <2>2. \/ status'[u] = status[u]
        \/ status[u] = "waiting_approval" /\ status'[u] = "queued"
    BY <1>2, WakeEffect
  <2>. QED
    BY <2>1, <2>2, Undisturbed DEF Moved, Opened, Parked
<1>3. CASE DeleteProject
  <2>1. granted' = granted /\ results' = results
    BY <1>3 DEF DeleteProject
  <2>2. status[u] \in Status
    BY <1>0
  <2>3. status'[u] = IF status[u] \in {"absent", "completed"} THEN status[u] ELSE "cancelled"
    BY <1>3 DEF DeleteProject
  <2>4. Moved(u)
    BY <2>2, <2>3 DEF Moved, Status, Ended, Opened, Parked, Active, Closed
  <2>. QED
    BY <2>1, <2>4, Undisturbed
<1>. QED
  BY <1>1, <1>2, <1>3 DEF User

\* What an expiry makes of a task.
LEMMA ExpiryMoves ==
    ASSUME Good, NEW age, NEW u \in Task
    PROVE  \/ StatusThen(age)[u] = status[u]
           \/ status[u] \in Active /\ StatusThen(age)[u] \in {"queued", "failed"}
BY ExpiredLast, Unexpired DEF StatusThen

\* A task that a claim gives out has a new grant, whether it was queued or its
\* holder lost.
LEMMA ClaimMoves ==
    ASSUME Good, NEW r \in requests, ServeClaim(r), NEW u \in Task
    PROVE  StepOf(u)
<1>. DEFINE age == r.age
<1>0. status \in [Task -> Status] /\ granted \in [Task -> Nat] /\ results' = results
  BY ClaimEffect DEF Good, TypeOK
<1>1. StatusThen(age) \in [Task -> Status]
  BY ThenTyped DEF Good
<1>2. \/ StatusThen(age)[u] = status[u]
      \/ status[u] \in Active /\ StatusThen(age)[u] \in {"queued", "failed"}
  BY ExpiryMoves
<1>3. ASSUME granted'[u] = granted[u], status'[u] = StatusThen(age)[u] PROVE StepOf(u)
  BY <1>0, <1>2, <1>3, Undisturbed DEF Moved, Opened, Closed
<1>4. ASSUME granted'[u] = granted[u], StatusThen(age)[u] = "queued", status'[u] = "failed"
      PROVE  StepOf(u)
  BY <1>0, <1>2, <1>4, Undisturbed DEF Moved, Opened, Closed
<1>5. ASSUME granted'[u] = granted[u] + 1, StatusThen(age)[u] = "queued",
             status'[u] = "running"
      PROVE  StepOf(u)
  <2>1. status[u] \in Opened \cup Active /\ status'[u] \in Active
    BY <1>2, <1>5 DEF Opened, Active
  <2>2. Phase(u) \in {"open", "held"} /\ Phase(u)' = "held"
    BY <2>1, Phases, PhasesNext
  <2>. QED
    BY <1>0, <1>5, <2>2 DEF StepOf, LW!Give, LW!Moves
<1>. HIDE DEF age
<1>6. \/ granted'[u] = granted[u] /\ status'[u] = StatusThen(age)[u]
      \/ granted'[u] = granted[u] /\ StatusThen(age)[u] = "queued" /\ status'[u] = "failed"
      \/ /\ granted'[u] = granted[u] + 1 /\ StatusThen(age)[u] = "queued"
         /\ status'[u] = "running"
  BY <1>0, <1>1, ClaimEffect DEF age
<1>. QED
  BY <1>3, <1>4, <1>5, <1>6

\* The answer that is taken is the newest grant's.
LEMMA AnswerMoves ==
    ASSUME Good, NEW r \in requests,
           ServeProgress(r) \/ ServeComplete(r) \/ ServePark(r) \/ ServeFail(r), NEW u \in Task
    PROVE  StepOf(u)
<1>. DEFINE t == r.claim.task
<1>0. /\ status \in [Task -> Status] /\ results \in [Task -> SUBSET Nat]
      /\ r.claim \in [task : Task, attempt : AttemptNo, token : Nat] /\ t \in Task
  BY Requested DEF Good, TypeOK, ServeProgress, ServeComplete, ServePark, ServeFail
<1>1. granted' = granted
  BY DEF ServeProgress, ServeComplete, ServePark, ServeFail
<1>2. ASSUME status'[u] = status[u], results'[u] = results[u] PROVE StepOf(u)
  BY <1>1, <1>2, Undisturbed DEF Moved
<1>3. CASE ServeProgress(r)
  BY <1>2, <1>3 DEF ServeProgress
<1>4. CASE ServeComplete(r)
  <2>1. CASE Holds(r.claim, r.age)
    <3>1. /\ status' = [status EXCEPT ![t] = "completed"]
          /\ results' = [results EXCEPT ![t] = @ \cup {r.claim.token}]
      BY <1>4, <2>1, CompleteEffect
    <3>2. status[t] \in Active /\ r.claim.token = granted[t]
      BY <1>0, <2>1, HeldLast
    <3>3. CASE u = t
      <4>1. Phase(u) = "held" /\ Phase(u)' = "answered"
        BY <1>0, <3>1, <3>2, <3>3, Phases, PhasesNext
      <4>2. results'[u] = results[u] \cup {granted[u]}
        BY <1>0, <3>1, <3>2, <3>3
      <4>. QED
        BY <1>1, <4>1, <4>2 DEF StepOf, LW!Answer, LW!Moves
    <3>4. CASE u # t
      BY <1>0, <1>2, <3>1, <3>4
    <3>. QED
      BY <3>3, <3>4
  <2>2. CASE ~Holds(r.claim, r.age)
    BY <1>2, <1>4, <2>2 DEF ServeComplete
  <2>. QED
    BY <2>1, <2>2
<1>5. CASE ServePark(r) \/ ServeFail(r)
  <2>1. results' = results
    BY <1>5 DEF ServePark, ServeFail
  <2>2. CASE Holds(r.claim, r.age) /\ status' # status
    <3>1. \E s \in Opened \cup Closed : status' = [status EXCEPT ![t] = s]
      BY <1>5, <2>2, ParkEffect, FailEffect DEF ServePark, Opened, Closed
    <3>2. status[t] \in Active
      BY <1>0, <2>2, HeldLast
    <3>3. Moved(u)
      BY <1>0, <3>1, <3>2 DEF Moved
    <3>. QED
      BY <1>1, <2>1, <3>3, Undisturbed
  <2>3. CASE ~(Holds(r.claim, r.age) /\ status' # status)
    BY <1>2, <1>5, <2>1, <2>3 DEF ServePark, ServeFail
  <2>. QED
    BY <2>2, <2>3
<1>. QED
  BY <1>3, <1>4, <1>5

LEMMA EveryStep ==
    ASSUME Good, [Next]_vars
    PROVE  \A t \in Task : StepOf(t)
<1>1. ASSUME NEW w \in Worker, Step(w) PROVE \A t \in Task : StepOf(t)
  <2>1. UNCHANGED <<status, granted, results>>
    BY <1>1 DEF Step, Poll, Beat, Finish, Park, Break, Report, GiveUp, Crash, BeginCall,
                StartCall, EndCall
  <2>. QED
    BY <2>1, AllMoved DEF Moved
<1>2. ASSUME NEW d \in Task, Damage(d) PROVE \A t \in Task : StepOf(t)
  BY <1>2, AllMoved DEF Damage, Moved
<1>3. CASE Tick \/ UNCHANGED vars
  BY <1>3, AllMoved DEF Tick, vars, Moved
<1>. QED
  BY <1>1, <1>2, <1>3, UserMoves, ClaimMoves, AnswerMoves DEF Next, Serve

\* A task is given to one holder at a time, each time under a new token, and is
\* answered at most once, under its newest token, whatever its workers do.
THEOREM Implements == Spec => GivenAndAnswered
<1>1. Init => LW!Init
  <2>. SUFFICES ASSUME Init PROVE LW!Init
    OBVIOUS
  <2>1. \A t \in Task : Phase(t) = "absent"
    BY NameAssumption DEF Init, Phase, Parked, Active
  <2>. QED
    BY <2>1 DEF Init, LW!Init
<1>2. Good /\ [Next]_vars => [LW!Next]_LW!vars
  BY EveryStep DEF LW!Next, StepOf
<1>. QED
  BY <1>1, <1>2, GoodAlways, PTL DEF Spec, GivenAndAnswered, LW!Spec

-----------------------------------------------------------------------------
(* A request is not answered but by its own step.                          *)

LessThan == OpToRel(<, Nat)

\* Ages have a bound: not every request is a tick older than another.
LEMMA Oldest ==
    ASSUME Good, requests # {}, \A r \in requests : r.age < MaxWait
    PROVE  \E r \in requests : \A s \in requests : s.age <= r.age
<1>. DEFINE Still(r) == MaxWait - r.age
            T == {Still(r) : r \in requests}
<1>1. \A r \in requests : r.age \in Nat /\ Still(r) \in Nat
  BY TimeAssumption DEF Good, TypeOK, Request
<1>2. T \subseteq Nat /\ T # {}
  BY <1>1
<1>3. IsWellFoundedOn(LessThan, Nat)
  BY NatLessThanWellFounded DEF LessThan
<1>. HIDE DEF T
<1>4. PICK m \in T : \A n \in T : <<n, m>> \notin LessThan
  BY <1>2, <1>3, WFMin
<1>5. ASSUME NEW n \in T PROVE m <= n
  <2>. DEFINE p == <<n, m>>
  <2>1. n \in Nat /\ m \in Nat /\ p \in Nat \X Nat /\ p[1] = n /\ p[2] = m
    BY <1>2
  <2>2. p \notin LessThan
    BY <1>4
  <2>. HIDE DEF p
  <2>3. ~(p[1] < p[2])
    BY <2>1, <2>2 DEF LessThan, OpToRel
  <2>. QED
    BY <2>1, <2>3
<1>6. PICK r \in requests : m = Still(r)
  BY DEF T
<1>7. \A s \in requests : Still(r) <= Still(s)
  BY <1>5, <1>6 DEF T
<1>. QED
  BY <1>1, <1>7, TimeAssumption

LEMMA TickKeepsRequests ==
    ASSUME Good, Tick, requests # {}
    PROVE  ~(requests' \subseteq requests)
<1>1. \A r \in requests : r.age < MaxWait
  BY DEF Tick
<1>2. PICK r \in requests : \A s \in requests : s.age <= r.age
  BY <1>1, Oldest
<1>3. r \in Request
  BY DEF Good, TypeOK
<1>. DEFINE q == [r EXCEPT !.age = @ + 1]
<1>4. q \in requests'
  BY DEF Tick
<1>5. q.age = r.age + 1 /\ r.age \in Nat
  BY <1>3 DEF Request
<1>. HIDE DEF q
<1>6. q \notin requests
  <2>1. q \in requests => q.age <= r.age
    BY <1>2
  <2>. QED
    BY <1>5, <2>1
<1>. QED
  BY <1>4, <1>6

LEMMA StaleChangesNothing ==
    ASSUME Good, NEW r \in requests, Serve(r), r.op # "claim",
           r.claim.token # granted[r.claim.task]
    PROVE  UNCHANGED taskVars
<1>1. r.claim \in [task : Task, attempt : AttemptNo, token : Nat]
  BY Requested
<1>2. ~Holds(r.claim, r.age)
  BY <1>1, HeldLast
<1>. QED
  BY <1>2 DEF Serve, ServeClaim, ServeProgress, ServeComplete, ServePark, ServeFail

\* A worker that parked its task, lost its lease or gave up a request changes
\* nothing of the task once another claim has it.
THEOREM OnlyOwnerAlways == Spec => OnlyOwnerActs
<1>. DEFINE Stale(r) == /\ requests' = requests \ {r}
                        /\ r.op # "claim" /\ r.claim.token # granted[r.claim.task]
<1>1. ASSUME Good, [Next]_vars, NEW r \in requests, Stale(r)
      PROVE  UNCHANGED taskVars
  <2>1. r \in requests /\ r \notin requests' /\ requests' \subseteq requests
    BY <1>1
  <2>2. CASE User
    BY <2>1, <2>2 DEF User, Start, Pause, Resume, Cancel, Retry, AppendInput, Resolve,
                      DeleteProject
  <2>3. ASSUME NEW w \in Worker, Step(w) PROVE UNCHANGED taskVars
    BY <2>3 DEF Step, Poll, Beat, Finish, Park, Break, Report, GiveUp, Crash, BeginCall,
                StartCall, EndCall
  <2>4. ASSUME NEW t \in Task, Damage(t) PROVE UNCHANGED taskVars
    BY <2>1, <2>4 DEF Damage
  <2>5. ASSUME NEW s \in requests, Serve(s) PROVE UNCHANGED taskVars
    <3>1. requests' = requests \ {s}
      BY <2>5 DEF Serve, ServeClaim, ServeProgress, ServeComplete, ServePark, ServeFail
    <3>2. r = s
      BY <2>1, <3>1
    <3>. QED
      BY <1>1, <2>5, <3>2, StaleChangesNothing
  <2>6. ~Tick
    BY <1>1, <2>1, TickKeepsRequests
  <2>7. CASE UNCHANGED vars
    BY <2>1, <2>7 DEF vars
  <2>. QED
    BY <1>1, <2>2, <2>3, <2>4, <2>5, <2>6, <2>7 DEF Next
<1>2. Good /\ [Next]_vars => [\A r \in requests : Stale(r) => UNCHANGED taskVars]_vars
  BY <1>1
<1>. QED
  BY <1>2, GoodAlways, PTL DEF Spec, OnlyOwnerActs

-----------------------------------------------------------------------------
(* Approvals.  A task that has stopped waits for the approvals its         *)
(* checkpoint lists and for no other, and is left nothing to approve when  *)
(* it ends.  That takes the workers' side: the one worker whose claim is   *)
(* the newest knows of every approval its task waits for.                  *)

Waiting(c) == call[c] = "pending_approval"
Bearer(w)  == worker[w].pc \notin {"idle", "claiming"}
\* The claim that has its task.
Newest(k)  == k.token = granted[k.task] /\ status[k.task] \in Active
Claims(k)  == k.token <= granted[k.task] /\ (Newest(k) => k.attempt = attempts[k.task])
SameGrant(k, j) == k.task = j.task /\ k.token = j.token
\* A worker whose request ends its work on a task no longer works on it.
Final(r) == r.op \in {"complete", "park", "fail"}

Borne ==
    /\ \A w \in Worker : Bearer(w) => Claims(worker[w].claim)
    /\ \A r \in requests : r.op # "claim" => Claims(r.claim)
    /\ \A v, w \in Worker :
           Bearer(v) /\ Bearer(w) /\ SameGrant(worker[v].claim, worker[w].claim) => v = w
    /\ \A r \in requests, w \in Worker :
           Final(r) /\ worker[w].pc = "working" => ~SameGrant(r.claim, worker[w].claim)

\* What a worker and its requests know of the approvals of its task.
Listed ==
    /\ \A w \in Worker : worker[w].pc = "working" /\ Newest(worker[w].claim) =>
           \A c \in CallsOf(worker[w].claim.task) : Waiting(c) => c \in worker[w].asked
    /\ \A r \in requests : r.op = "complete" /\ Newest(r.claim) =>
           \A c \in CallsOf(r.claim.task) : call[c] \notin {"pending_approval", "approved"}
    /\ \A r \in requests : r.op = "park" =>
           /\ r.kind \in {"approval", "user", "recovery"}
           /\ r.kind = "approval" => r.pending # {}

Undone == {"queued"} \cup Parked
\* The checkpoint t will go on from lists the approvals it waits for.
Ready(t) ==
    LET p == checkpoint[t]
    IN /\ p.attempt = attempts[t] /\ attempt[t][p.attempt].status \in Parked
       /\ p.pending = {} => attempt[t][p.attempt].status = "paused"
       /\ \A c \in p.pending : /\ c \in Bound(t, p.attempt)
                               /\ call[c] \in {"pending_approval", "approved", "rejected"}
       /\ \A c \in CallsOf(t) : Waiting(c) => c \in p.pending
       /\ status[t] = "queued" => \A c \in CallsOf(t) : ~Waiting(c)

RowsOf(t) ==
    /\ \A c \in CallsOf(t) : call[c] \in Open => caller[c] = attempts[t]
    /\ status[t] \in Unbegun /\ ~checkpoint[t].saved =>
           \A c \in CallsOf(t) : call[c] \notin Open
    /\ status[t] \in Undone /\ checkpoint[t].saved => Ready(t)
    /\ status[t] = "waiting_approval" => \E c \in checkpoint[t].pending : Waiting(c)
    /\ status[t] \in Ended =>
           \A c \in CallsOf(t) : call[c] \notin {"pending_approval", "approved"}
    /\ deleted => status[t] \in {"absent"} \cup Ended

Approvals == Borne /\ Listed /\ \A t \in Task : RowsOf(t)

-----------------------------------------------------------------------------
\* A claim that has lost its task does not get it back.
LEMMA Aging ==
    ASSUME Good, [Next]_vars, NEW k, k.task \in Task, k.token \in Nat,
           k.token <= granted[k.task]
    PROVE  /\ k.token <= granted'[k.task]
           /\ k.token = granted'[k.task] /\ status'[k.task] \in Active =>
                  Newest(k) /\ attempts'[k.task] = attempts[k.task]
<1>. DEFINE t == k.task
<1>0. /\ t \in Task /\ granted[t] \in Nat /\ status[t] \in Status /\ status \in [Task -> Status]
      /\ attempts \in [Task -> Nat] /\ granted \in [Task -> Nat]
  BY DEF Good, TypeOK
<1>1. StepOf(t)
  BY EveryStep
<1>2. granted'[t] = granted[t] \/ granted'[t] = granted[t] + 1
  BY <1>1 DEF StepOf, LW!Stay, LW!Create, LW!Give, LW!TakeBack, LW!Answer, LW!Close,
              LW!Reopen, LW!Keeps, LW!Moves
<1>3. ASSUME granted'[t] = granted[t], status'[t] \in Active PROVE status[t] \in Active
  <2>1. Phase(t)' = "held"
    BY <1>3, PhasesNext
  <2>2. Phase(t) = "held"
    BY <1>0, <1>1, <1>3, <2>1 DEF StepOf, LW!Stay, LW!Create, LW!Give, LW!TakeBack, LW!Answer,
              LW!Close, LW!Reopen, LW!Keeps, LW!Moves
  <2>. QED
    BY <2>2 DEF Phase
<1>4. ASSUME granted'[t] = granted[t] PROVE attempts'[t] = attempts[t]
  <2>1. CASE attempts' = attempts
    BY <2>1
  <2>2. ASSUME NEW r \in requests, ServeClaim(r) PROVE attempts'[t] = attempts[t]
    <3>1. \/ attempts' = attempts
          \/ \E u \in Task : /\ granted' = [granted EXCEPT ![u] = @ + 1]
                             /\ attempts' = [attempts EXCEPT ![u] = @ + 1]
      BY <2>2, ClaimEffect
    <3>. QED
      BY <1>0, <1>4, <3>1
  <2>3. attempts' = attempts \/ \E r \in requests : ServeClaim(r)
    <3>1. CASE User
      BY <3>1 DEF User, Start, Pause, Resume, Cancel, Retry, AppendInput, Resolve,
             DeleteProject
    <3>2. ASSUME NEW w \in Worker, Step(w) PROVE attempts' = attempts
      BY <3>2 DEF Step, Poll, Beat, Finish, Park, Break, Report, GiveUp, Crash,
             BeginCall, StartCall, EndCall
    <3>3. ASSUME NEW r \in requests, Serve(r), ~ServeClaim(r) PROVE attempts' = attempts
      BY <3>3 DEF Serve, ServeProgress, ServeComplete, ServePark, ServeFail
    <3>. QED
      BY <3>1, <3>2, <3>3 DEF Next, Damage, Tick, vars
  <2>. QED
    BY <2>1, <2>2, <2>3
<1>. QED
  BY <1>0, <1>2, <1>3, <1>4 DEF Newest

\* v holds no claim it did not hold, and hears of no claim but its own.
Holding(v) ==
    /\ worker'[v].pc \notin {"idle", "claiming"} =>
           Bearer(v) /\ worker'[v].claim = worker[v].claim
    /\ worker'[v].pc = "working" =>
           worker[v].pc = "working" /\ worker[v].asked \subseteq worker'[v].asked
\* v has just been given a task, which waits for no approval.
Anew(v) ==
    LET k == worker'[v].claim
    IN /\ worker'[v].pc = "working" /\ k.task \in Task
       /\ k.token = granted[k.task] + 1 /\ k.token = granted'[k.task]
       /\ k.attempt = attempts'[k.task]
       /\ \A c \in CallsOf(k.task) : call'[c] # "pending_approval"
\* q is a request that was on its way, or one w sends of its claim.
Like(q, s) == q.claim = s.claim /\ q.op = s.op /\ q.kind = s.kind /\ q.pending = s.pending
Sent(w, q) ==
    /\ Bearer(w) /\ q.claim = worker[w].claim
    /\ Final(q) => worker'[w].pc # "working"
    /\ q.op = "complete" => /\ worker[w].pc = "working" /\ worker[w].asked = {}
                            /\ TurnOver(w)
    /\ q.op = "park" => /\ q.kind \in {"approval", "user", "recovery"}
                        /\ q.kind = "approval" => q.pending # {}
Traffic == \A q \in requests' : \/ q.op = "claim"
                                \/ \E s \in requests : Like(q, s)
                                \/ \E w \in Worker : Sent(w, q)
\* No approval is asked for.
Settling == \A c \in Call :
    /\ call'[c] = "pending_approval" => Waiting(c)
    /\ call'[c] = "approved" => call[c] \in {"pending_approval", "approved"}

LEMMA BearerTyped ==
    ASSUME Good, NEW w \in Worker, Bearer(w)
    PROVE  worker[w].claim.task \in Task /\ worker[w].claim.token \in Nat
<1>1. worker[w].claim \in Claimed /\ worker[w].claim.task \in Task
  BY DEF Good, TypeOK, Addressed, Memory, Bearer
<1>. QED
  BY <1>1, ClaimTyped

LEMMA BorneLaw ==
    ASSUME Good, Borne, [Next]_vars, Traffic, NEW f,
           \A v \in Worker : Holding(v) \/ (v = f /\ Anew(v))
    PROVE  Borne'
<1>. DEFINE Old(k) == k.task \in Task /\ k.token \in Nat /\ Claims(k)
<1>1. ASSUME NEW k, Old(k) PROVE Claims(k)'
  BY <1>1, Aging DEF Claims, Newest
<1>2. \A w \in Worker : Bearer(w) => Old(worker[w].claim)
  BY BearerTyped DEF Borne
<1>3. \A q \in requests' : q.op # "claim" => Old(q.claim)
  <2>1. \A s \in requests : s.op # "claim" => Old(s.claim)
    BY Requested DEF Borne
  <2>. QED
    BY <1>2, <2>1 DEF Traffic, Like, Sent
<1>. HIDE DEF Old
<1>4. ASSUME NEW w \in Worker, Bearer(w)' PROVE Claims(worker[w].claim)'
  <2>1. CASE Holding(w)
    BY <1>1, <1>2, <1>4, <2>1 DEF Holding, Bearer, Claims, Newest
  <2>2. CASE Anew(w)
    <3>. DEFINE k == worker'[w].claim
    <3>1. k.task \in Task /\ k.token = granted'[k.task] /\ k.attempt = attempts'[k.task]
      BY <2>2 DEF Anew
    <3>2. granted'[k.task] \in Nat
      BY <3>1, TypesKept DEF TypeOK
    <3>. QED
      BY <3>1, <3>2 DEF Claims, Newest
  <2>. QED
    BY <2>1, <2>2
<1>5. ASSUME NEW q \in requests', q.op # "claim" PROVE Claims(q.claim)'
  BY <1>1, <1>3, <1>5
\* A new claim is like no earlier one.
<1>6. ASSUME NEW v \in Worker, Anew(v), NEW k, Old(k) PROVE ~SameGrant(k, worker'[v].claim)
  BY <1>6 DEF Anew, Old, Claims, SameGrant, Good, TypeOK
<1>7. ASSUME NEW v \in Worker, NEW w \in Worker, Bearer(v)', Bearer(w)',
             SameGrant(worker'[v].claim, worker'[w].claim)
      PROVE  v = w
  <2>1. CASE Holding(v) /\ Holding(w)
    BY <1>7, <2>1 DEF Holding, Bearer, Borne
  <2>2. CASE Holding(v) /\ Anew(w)
    BY <1>2, <1>6, <1>7, <2>2 DEF Holding, Bearer
  <2>3. CASE Anew(v) /\ Holding(w)
    BY <1>2, <1>6, <1>7, <2>3 DEF Holding, Bearer, SameGrant
  <2>. QED
    BY <2>1, <2>2, <2>3
<1>8. ASSUME NEW q \in requests', NEW w \in Worker, Final(q), worker'[w].pc = "working"
      PROVE  ~SameGrant(q.claim, worker'[w].claim)
  <2>1. q.op # "claim"
    BY <1>8 DEF Final
  <2>2. CASE Anew(w)
    BY <1>3, <1>6, <2>1, <2>2
  <2>3. ASSUME Holding(w), NEW s \in requests, Like(q, s)
        PROVE  ~SameGrant(q.claim, worker'[w].claim)
    BY <1>8, <2>3 DEF Holding, Bearer, Borne, Like, Final
  <2>4. ASSUME Holding(w), NEW v \in Worker, Sent(v, q)
        PROVE  ~SameGrant(q.claim, worker'[w].claim)
    BY <1>8, <2>4 DEF Holding, Bearer, Borne, Sent
  <2>. QED
    BY <2>1, <2>2, <2>3, <2>4 DEF Traffic
<1>9. \A w \in Worker : Bearer(w)' => Claims(worker[w].claim)'
  BY <1>4
<1>10. \A q \in requests' : q.op # "claim" => Claims(q.claim)'
  BY <1>5
<1>. QED
  BY <1>7, <1>8, <1>9, <1>10 DEF Borne, Bearer, SameGrant, Final

LEMMA ListedLaw ==
    ASSUME Good, Approvals, [Next]_vars, Traffic, Settling, NEW f,
           \A v \in Worker : Holding(v) \/ (v = f /\ Anew(v))
    PROVE  Listed'
<1>. DEFINE Now(k) == k.token = granted'[k.task] /\ status'[k.task] \in Active
<1>0. Borne /\ Listed /\ \A t \in Task : RowsOf(t)
  BY DEF Approvals
<1>1. ASSUME NEW k, k.task \in Task, k.token \in Nat, Claims(k), Now(k) PROVE Newest(k)
  BY <1>1, Aging DEF Claims
<1>2. \A c \in Call : call'[c] \in {"pending_approval", "approved"}
                        => call[c] \in {"pending_approval", "approved"}
  BY DEF Settling, Waiting
<1>3. ASSUME NEW w \in Worker, worker'[w].pc = "working", Now(worker'[w].claim),
             NEW c \in CallsOf(worker'[w].claim.task), call'[c] = "pending_approval"
      PROVE  c \in worker'[w].asked
  <2>1. CASE Anew(w)
    BY <1>3, <2>1 DEF Anew
  <2>2. CASE Holding(w)
    <3>1. Bearer(w) /\ worker'[w].claim = worker[w].claim /\ worker[w].pc = "working"
          /\ worker[w].asked \subseteq worker'[w].asked
      BY <1>3, <2>2 DEF Holding
    <3>2. Newest(worker[w].claim)
      BY <1>0, <1>1, <1>3, <3>1, BearerTyped DEF Borne
    <3>3. Waiting(c) /\ c \in CallsOf(worker[w].claim.task)
      BY <1>3, <3>1 DEF Settling, CallsOf
    <3>. QED
      BY <1>0, <3>1, <3>2, <3>3 DEF Listed
  <2>. QED
    BY <2>1, <2>2
<1>4. ASSUME NEW q \in requests', q.op = "complete", Now(q.claim),
             NEW c \in CallsOf(q.claim.task)
      PROVE  call'[c] \notin {"pending_approval", "approved"}
  <2>0. c \in Call
    BY DEF CallsOf
  <2>1. ASSUME NEW s \in requests, Like(q, s)
        PROVE  call[c] \notin {"pending_approval", "approved"}
    <3>1. s.op = "complete" /\ s.claim = q.claim
      BY <1>4, <2>1 DEF Like
    <3>2. Newest(s.claim)
      BY <1>0, <1>1, <1>4, <3>1, Requested DEF Borne
    <3>. QED
      BY <1>0, <1>4, <3>1, <3>2 DEF Listed
  <2>2. ASSUME NEW w \in Worker, Sent(w, q)
        PROVE  call[c] \notin {"pending_approval", "approved"}
    <3>. DEFINE k == worker[w].claim
    <3>1. /\ q.claim = k /\ Bearer(w) /\ worker[w].pc = "working" /\ worker[w].asked = {}
          /\ TurnOver(w)
      BY <1>4, <2>2 DEF Sent
    <3>2. k.task \in Task /\ k.token \in Nat /\ Claims(k)
      BY <1>0, <3>1, BearerTyped DEF Borne
    <3>3. Newest(k) /\ k.attempt = attempts[k.task]
      BY <1>1, <1>4, <3>1, <3>2 DEF Claims
    <3>4. call[c] # "pending_approval"
      BY <1>0, <1>4, <3>1, <3>3 DEF Listed, Waiting
    <3>5. call[c] # "approved"
      <4>1. call[c] = "approved" => c \in Bound(k.task, k.attempt)
        BY <1>0, <1>4, <3>1, <3>2, <3>3 DEF RowsOf, Open, Bound
      <4>. QED
        BY <3>1, <4>1 DEF TurnOver, Claim
    <3>. QED
      BY <3>4, <3>5
  <2>3. call[c] \notin {"pending_approval", "approved"}
    BY <1>4, <2>1, <2>2 DEF Traffic
  <2>. QED
    BY <1>2, <2>0, <2>3
<1>5. ASSUME NEW q \in requests', q.op = "park"
      PROVE  q.kind \in {"approval", "user", "recovery"} /\ (q.kind = "approval" => q.pending # {})
  BY <1>0, <1>5 DEF Traffic, Like, Sent, Listed
<1>. QED
  BY <1>3, <1>4, <1>5 DEF Listed, Newest, Waiting, CallsOf

\* What the actions do to the calls.
LEMMA CancelledCalls ==
    ASSUME NEW T, CancelTools(T)
    PROVE  /\ Settling
           /\ \A c \in Call : /\ call'[c] = call[c] \/ call'[c] = "cancelled"
                              /\ TaskOf[c] \notin T => call'[c] = call[c]
                              /\ TaskOf[c] \in T => call'[c] \notin Open
<1>1. \A c \in Call :
          call'[c] = IF TaskOf[c] \in T /\ call[c] \in Open THEN "cancelled" ELSE call[c]
  BY DEF CancelTools, CallsWithout
<1>. QED
  BY <1>1 DEF Settling, Waiting, Open

LEMMA SettlingUser ==
    ASSUME Good, User
    PROVE  Settling
<1>1. ASSUME NEW t \in Task, Start(t) \/ Pause(t) \/ Resume(t) \/ AppendInput(t)
      PROVE  Settling
  BY <1>1 DEF Start, Pause, Resume, AppendInput, Settling, Waiting
<1>2. ASSUME NEW t \in Task, Cancel(t) \/ Retry(t) PROVE Settling
  BY <1>2, CancelledCalls DEF Cancel, Retry
<1>3. ASSUME NEW c \in Call, Resolve(c) PROVE Settling
  BY <1>3 DEF Resolve, Settling, Waiting, Good, TypeOK
<1>4. CASE DeleteProject
  BY <1>4, CancelledCalls DEF DeleteProject
<1>. QED
  BY <1>1, <1>2, <1>3, <1>4 DEF User

\* The requests and the workers that a step leaves alone.
LEMMA Resting ==
    ASSUME UNCHANGED <<requests, worker>>
    PROVE  Traffic /\ \A v \in Worker : Holding(v)
BY DEF Traffic, Like, Holding, Bearer

LEMMA AbandonedTraffic ==
    ASSUME Good, NEW w \in Worker, NEW q \in Abandoned(w)
    PROVE  \E s \in requests : Like(q, s)
BY AbandonedRequest DEF Like

LEMMA HoldingStill ==
    ASSUME NEW w \in Worker, Others(w), Holding(w)
    PROVE  \A v \in Worker : Holding(v)
BY DEF Others, Holding, Bearer

\* A worker sends of its own claim, and only while it has one.
LEMMA WorkerTraffic ==
    ASSUME Good, NEW w \in Worker, Step(w)
    PROVE  Traffic /\ \A v \in Worker : Holding(v)
<1>1. CASE Poll(w)
  <2>1. worker' = Go(w, "claiming") /\ worker[w].pc = "idle"
        /\ requests' = requests \cup {Ask(w, "claim", "none", {})}
    BY <1>1 DEF Poll
  <2>2. Traffic
    BY <2>1 DEF Traffic, Like, Ask
  <2>. QED
    BY <2>1, <2>2, Moving, HoldingStill DEF Holding
<1>2. CASE Beat(w)
  <2>1. /\ requests' = requests \cup {Ask(w, "progress", "none", {})}
        /\ worker' = worker /\ worker[w].pc = "working"
    BY <1>2 DEF Beat
  <2>2. Sent(w, Ask(w, "progress", "none", {}))
    BY <2>1 DEF Sent, Ask, Bearer, Final
  <2>. QED
    BY <2>1, <2>2 DEF Traffic, Like, Holding, Bearer
<1>3. CASE Finish(w)
  <2>1. /\ requests' = Abandoned(w) \cup {Ask(w, "complete", "none", {})}
        /\ worker' = Go(w, "completing") /\ worker[w].pc = "working"
        /\ worker[w].asked = {} /\ TurnOver(w)
    BY <1>3 DEF Finish
  <2>2. Sent(w, Ask(w, "complete", "none", {}))
    BY <2>1, Moving DEF Sent, Ask, Bearer
  <2>3. Traffic
    BY <2>1, <2>2, AbandonedTraffic DEF Traffic
  <2>. QED
    BY <2>1, <2>3, Moving, HoldingStill DEF Holding, Bearer
<1>4. CASE Park(w)
  <2>1. PICK kind \in {"approval", "user", "recovery"} :
            /\ kind = "approval" => worker[w].asked # {}
            /\ requests' = Abandoned(w) \cup {Ask(w, "park", kind, worker[w].asked)}
    BY <1>4 DEF Park
  <2>2. worker' = Go(w, "parking") /\ worker[w].pc = "working"
    BY <1>4 DEF Park
  <2>3. Sent(w, Ask(w, "park", kind, worker[w].asked))
    BY <2>1, <2>2, Moving DEF Sent, Ask, Bearer
  <2>4. Traffic
    BY <2>1, <2>3, AbandonedTraffic DEF Traffic
  <2>. QED
    BY <2>2, <2>4, Moving, HoldingStill DEF Holding, Bearer
<1>5. CASE Break(w)
  <2>1. requests' = Abandoned(w) /\ worker' = Go(w, "broken") /\ worker[w].pc = "working"
    BY <1>5 DEF Break
  <2>2. Traffic
    BY <2>1, AbandonedTraffic DEF Traffic
  <2>. QED
    BY <2>1, <2>2, Moving, HoldingStill DEF Holding, Bearer
<1>6. CASE Report(w)
  <2>1. PICK kind : requests' = requests \cup {Ask(w, "fail", kind, {})}
    BY <1>6 DEF Report
  <2>2. worker' = Go(w, "failing") /\ worker[w].pc = "broken"
    BY <1>6 DEF Report
  <2>3. Sent(w, Ask(w, "fail", kind, {}))
    BY <2>2, Moving DEF Sent, Ask, Bearer
  <2>4. Traffic
    BY <2>1, <2>3 DEF Traffic, Like
  <2>. QED
    BY <2>2, <2>4, Moving, HoldingStill DEF Holding, Bearer
<1>7. CASE GiveUp(w)
  <2>1. requests' = Abandoned(w) /\ worker[w].pc \notin {"idle", "broken"}
    BY <1>7, Quiet DEF GiveUp
  <2>2. Traffic
    BY <2>1, AbandonedTraffic DEF Traffic
  <2>3. CASE worker[w].pc \in {"claiming", "parking", "failing"}
    <3>1. worker' = [worker EXCEPT ![w] = Idle]
      BY <1>7, <2>3 DEF GiveUp
    <3>2. worker'[w].pc = "idle" /\ Others(w)
      BY <3>1 DEF Others, Idle, Good, TypeOK
    <3>. QED
      BY <2>2, <3>2, HoldingStill DEF Holding
  <2>4. CASE worker[w].pc \notin {"claiming", "parking", "failing"}
    <3>1. worker' = Go(w, "broken")
      BY <1>7, <2>4 DEF GiveUp
    <3>. QED
      BY <2>1, <2>2, <2>4, <3>1, Moving, HoldingStill DEF Holding, Bearer
  <2>. QED
    BY <2>3, <2>4
<1>8. CASE Crash(w)
  <2>1. requests' = Abandoned(w) /\ worker' = [worker EXCEPT ![w] = Idle]
    BY <1>8 DEF Crash
  <2>2. Traffic
    BY <2>1, AbandonedTraffic DEF Traffic
  <2>3. worker'[w].pc = "idle" /\ Others(w)
    BY <2>1 DEF Others, Idle, Good, TypeOK
  <2>. QED
    BY <2>2, <2>3, HoldingStill DEF Holding
<1>9. ASSUME NEW c \in Call, BeginCall(w, c) PROVE Traffic /\ \A v \in Worker : Holding(v)
  <2>1. worker[w] \in Memory /\ worker \in [Worker -> Memory]
    BY DEF Good, TypeOK
  <2>2. requests' = requests
        /\ (worker' = worker \/ worker' = [worker EXCEPT ![w].asked = @ \cup {c}])
    BY <1>9 DEF BeginCall
  <2>3. CASE worker' = worker
    BY <2>2, <2>3, Resting
  <2>4. CASE worker' = [worker EXCEPT ![w].asked = @ \cup {c}]
    <3>1. /\ worker'[w].pc = worker[w].pc /\ worker'[w].claim = worker[w].claim
          /\ worker[w].asked \subseteq worker'[w].asked
      BY <2>1, <2>4 DEF Memory
    <3>2. Others(w)
      BY <2>1, <2>4 DEF Others
    <3>3. Traffic
      BY <2>2 DEF Traffic, Like
    <3>. QED
      BY <3>1, <3>2, <3>3, HoldingStill DEF Holding, Bearer
  <2>. QED
    BY <2>2, <2>3, <2>4
<1>10. ASSUME NEW c \in Call, StartCall(w, c) \/ EndCall(w, c)
       PROVE  Traffic /\ \A v \in Worker : Holding(v)
  BY <1>10, Resting DEF StartCall, EndCall
<1>. QED
  BY <1>1, <1>2, <1>3, <1>4, <1>5, <1>6, <1>7, <1>8, <1>9, <1>10 DEF Step

\* The newest claim's worker is told of the approval it asks for.
LEMMA ListedBegin ==
    ASSUME Good, Approvals, NEW w \in Worker, NEW c \in Call, BeginCall(w, c)
    PROVE  Listed'
<1>. DEFINE k == worker[w].claim
<1>1. /\ worker[w].pc = "working" /\ k.task = TaskOf[c] /\ Holds(k, 0) /\ call[c] = "absent"
      /\ UNCHANGED <<taskVars, requests>>
  BY DEF BeginCall, Owns, Claim
<1>2. worker[w] \in Memory /\ worker \in [Worker -> Memory] /\ call \in [Call -> CallStatus]
  BY DEF Good, TypeOK
<1>3. k \in [task : Task, attempt : AttemptNo, token : Nat] /\ k.task \in Task
  <2>1. k.task \in Task /\ k \in Claimed
    BY <1>1, <1>2 DEF Good, Addressed, Memory
  <2>. QED
    BY <2>1, ClaimTyped
<1>4. Bearer(w) /\ Newest(k)
  BY <1>1, <1>3, HeldLast DEF Bearer, Newest
<1>5. \A d \in Call : d # c => call'[d] = call[d]
  BY <1>2 DEF BeginCall
<1>6. /\ \A v \in Worker : /\ worker'[v].pc = worker[v].pc /\ worker'[v].claim = worker[v].claim
                           /\ worker[v].asked \subseteq worker'[v].asked
      /\ call'[c] = "pending_approval" => c \in worker'[w].asked
  <2>1. CASE worker' = [worker EXCEPT ![w].asked = @ \cup {c}]
    BY <1>2, <2>1 DEF Memory
  <2>2. CASE worker' = worker /\ call' = [call EXCEPT ![c] = "running"]
    BY <1>2, <2>2
  <2>. QED
    BY <2>1, <2>2 DEF BeginCall
<1>7. Borne /\ Listed
  BY DEF Approvals
<1>8. ASSUME NEW v \in Worker, worker[v].pc = "working", Newest(worker[v].claim),
             NEW d \in CallsOf(worker[v].claim.task), call'[d] = "pending_approval"
      PROVE  d \in worker'[v].asked
  <2>1. CASE d = c
    <3>1. SameGrant(worker[v].claim, k) /\ Bearer(v)
      BY <1>1, <1>4, <1>8, <2>1 DEF Newest, SameGrant, CallsOf, Bearer
    <3>2. v = w
      BY <1>4, <1>7, <3>1 DEF Borne
    <3>. QED
      BY <1>6, <1>8, <2>1, <3>2
  <2>2. CASE d # c
    BY <1>5, <1>6, <1>7, <1>8, <2>2 DEF Listed, CallsOf, Waiting
  <2>. QED
    BY <2>1, <2>2
<1>9. ASSUME NEW q \in requests, q.op = "complete", Newest(q.claim),
             NEW d \in CallsOf(q.claim.task)
      PROVE  call'[d] \notin {"pending_approval", "approved"}
  <2>1. d # c
    <3>1. d = c => SameGrant(q.claim, k)
      BY <1>1, <1>4, <1>9 DEF Newest, SameGrant, CallsOf
    <3>2. ~SameGrant(q.claim, k)
      BY <1>1, <1>7, <1>9 DEF Borne, Final
    <3>. QED
      BY <3>1, <3>2
  <2>. QED
    BY <1>5, <1>7, <1>9, <2>1 DEF Listed, CallsOf
<1>10. \A q \in requests : q.op = "park" =>
           q.kind \in {"approval", "user", "recovery"} /\ (q.kind = "approval" => q.pending # {})
  BY <1>7 DEF Listed
<1>. QED
  BY <1>1, <1>6, <1>8, <1>9, <1>10 DEF Listed, Newest, Waiting, CallsOf

\* The request is served; its worker stops, or goes on with what it had.
LEMMA ServedTraffic ==
    ASSUME requests' \subseteq requests
    PROVE  Traffic
BY DEF Traffic, Like

LEMMA TellHolding ==
    ASSUME Good, NEW r \in requests
    PROVE  /\ Tell(r, Idle) => \A v \in Worker : Holding(v)
           /\ r.op # "claim" /\ TellPc(r, "broken") => \A v \in Worker : Holding(v)
<1>1. Tell(r, Idle) => \A v \in Worker : Holding(v)
  BY DEF Tell, Idle, Holding, Bearer
<1>2. ASSUME r.op # "claim", TellPc(r, "broken"), NEW v \in Worker PROVE Holding(v)
  <2>1. worker[v] \in Memory
    BY DEF Good, TypeOK
  <2>2. /\ [worker[v] EXCEPT !.pc = "broken"].pc = "broken"
        /\ [worker[v] EXCEPT !.pc = "broken"].claim = worker[v].claim
    BY <2>1 DEF Memory
  <2>3. v = r.from => Bearer(v)
    BY <1>2 DEF Good, Addressed, Waits, Bearer
  <2>. QED
    BY <1>2, <2>2, <2>3 DEF TellPc, Holding, Bearer
<1>. QED
  BY <1>1, <1>2

\* A task is given out with no approval outstanding.
LEMMA GivenAnew ==
    ASSUME Good, Approvals, NEW r \in requests, NEW t \in Task, NEW n \in AttemptNo,
           Given(r, t, n), attempts'[t] = n,
           \A c \in CallsOf(t) : call'[c] # "pending_approval"
    PROVE  \A v \in Worker : Holding(v) \/ (v = r.from /\ Anew(v))
<1>. DEFINE m == [pc |-> "working", asked |-> {}, seen |-> FALSE,
                  claim |-> [task |-> t, attempt |-> n, token |-> granted[t] + 1]]
<1>1. Tell(r, m) /\ granted' = [granted EXCEPT ![t] = @ + 1]
  BY DEF Given
<1>2. granted'[t] = granted[t] + 1
  BY <1>1 DEF Good, TypeOK
<1>3. /\ m.pc = "working" /\ m.claim.task = t /\ m.claim.attempt = n
      /\ m.claim.token = granted[t] + 1
  OBVIOUS
<1>. HIDE DEF m
<1>4. \A v \in Worker : v # r.from => Holding(v)
  BY <1>1 DEF Tell, Holding, Bearer
<1>5. ASSUME r.from \in Worker PROVE Anew(r.from)
  <2>1. worker'[r.from] = m
    BY <1>1, <1>5 DEF Tell
  <2>. QED
    BY <1>2, <1>3, <2>1 DEF Anew
<1>. QED
  BY <1>4, <1>5

LEMMA FreshUnasked ==
    ASSUME Good, Approvals, NEW r \in requests, NEW t \in Task,
           StatusThen(r.age)[t] = "queued", TakeFresh(r, t)
    PROVE  \A c \in CallsOf(t) : call'[c] \notin Open
<1>1. CancelTools(Overdue(r.age)) /\ ~CheckpointThen(r.age)[t].saved
  BY DEF TakeFresh
<1>2. CASE t \in Overdue(r.age)
  BY <1>1, <1>2, CancelledCalls DEF CallsOf
<1>3. CASE t \notin Overdue(r.age)
  <2>1. status[t] = "queued" /\ ~checkpoint[t].saved
    BY <1>1, <1>3, Unexpired
  <2>2. \A c \in CallsOf(t) : call[c] \notin Open
    BY <2>1 DEF Approvals, RowsOf, Unbegun
  <2>. QED
    BY <1>1, <1>3, <2>2, CancelledCalls DEF CallsOf
<1>. QED
  BY <1>2, <1>3

LEMMA SavedUnasked ==
    ASSUME Good, Approvals, NEW r \in requests, NEW t \in Task, TakeSaved(r, t)
    PROVE  \A c \in CallsOf(t) : call'[c] # "pending_approval"
<1>1. CancelTools(Overdue(r.age)) /\ Whole(t)
  BY DEF TakeSaved
<1>2. \A c \in CallsOf(t) : call[c] # "pending_approval"
  BY <1>1 DEF Whole, Bound, Approvals, RowsOf, Open
<1>. QED
  BY <1>1, <1>2, CancelledCalls DEF CallsOf, Settling, Waiting

LEMMA ServeTraffic ==
    ASSUME Good, Approvals, NEW r \in requests, Serve(r)
    PROVE  /\ Traffic /\ Settling
           /\ \A v \in Worker : Holding(v) \/ (v = r.from /\ Anew(v))
<1>0. requests' \subseteq requests
  BY DEF Serve, ServeClaim, ServeProgress, ServeComplete, ServePark, ServeFail
<1>1. Traffic
  BY <1>0, ServedTraffic
<1>2. CASE ServeClaim(r)
  <2>1. CASE NoTask(r)
    BY <1>1, <2>1, TellHolding, CancelledCalls DEF NoTask
  <2>2. ASSUME NEW t \in Task, TakeCorrupt(r, t) PROVE Settling /\ \A v \in Worker : Holding(v)
    BY <2>2, TellHolding, CancelledCalls DEF TakeCorrupt
  <2>3. ASSUME NEW t \in Task, StatusThen(r.age)[t] = "queued", TakeFresh(r, t)
        PROVE  Settling /\ \A v \in Worker : Holding(v) \/ (v = r.from /\ Anew(v))
    <3>. DEFINE n == attempts[t] + 1
    <3>1. Given(r, t, n) /\ n \in AttemptNo /\ attempts'[t] = n /\ CancelTools(Overdue(r.age))
      BY <2>3 DEF TakeFresh, Good, TypeOK
    <3>2. \A c \in CallsOf(t) : call'[c] # "pending_approval"
      BY <2>3, FreshUnasked DEF Open
    <3>. HIDE DEF n
    <3>. QED
      BY <3>1, <3>2, GivenAnew, CancelledCalls
  <2>4. ASSUME NEW t \in Task, TakeSaved(r, t)
        PROVE  Settling /\ \A v \in Worker : Holding(v) \/ (v = r.from /\ Anew(v))
    <3>. DEFINE n == checkpoint[t].attempt
    <3>1. Given(r, t, n) /\ attempts'[t] = n /\ CancelTools(Overdue(r.age))
      BY <2>4 DEF TakeSaved, Whole
    <3>2. n \in AttemptNo
      BY <2>4, SavedAttempt DEF TakeSaved
    <3>. HIDE DEF n
    <3>. QED
      BY <2>4, <3>1, <3>2, SavedUnasked, GivenAnew, CancelledCalls
  <2>. QED
    BY <1>1, <1>2, <2>1, <2>2, <2>3, <2>4 DEF ServeClaim
<1>3. CASE ServeProgress(r)
  <2>1. Settling
    BY <1>3 DEF ServeProgress, Settling, Waiting
  <2>2. CASE Holds(r.claim, r.age)
    <3>1. ASSUME NEW v \in Worker PROVE Holding(v)
      <4>1. worker[v] \in Memory
        BY DEF Good, TypeOK
      <4>2. worker'[v] = IF v # r.from THEN worker[v] ELSE
                         [worker[v] EXCEPT !.seen = @ \/ status[r.claim.task] = "pausing"]
        BY <1>3, <2>2 DEF ServeProgress
      <4>3. /\ worker'[v].pc = worker[v].pc /\ worker'[v].claim = worker[v].claim
            /\ worker'[v].asked = worker[v].asked
        BY <4>1, <4>2 DEF Memory
      <4>. QED
        BY <4>3 DEF Holding, Bearer
    <3>. QED
      BY <1>1, <2>1, <3>1
  <2>3. CASE ~Holds(r.claim, r.age)
    BY <1>1, <1>3, <2>1, <2>3, TellHolding DEF ServeProgress
  <2>. QED
    BY <2>2, <2>3
<1>4. CASE ServeComplete(r)
  <2>1. Settling
    BY <1>4 DEF ServeComplete, Settling, Waiting
  <2>. QED
    BY <1>1, <1>4, <2>1, TellHolding DEF ServeComplete
<1>5. CASE ServePark(r)
  <2>1. Settling
    BY <1>5 DEF ServePark, Settling, Waiting
  <2>. QED
    BY <1>1, <1>5, <2>1, TellHolding DEF ServePark
<1>6. CASE ServeFail(r)
  <2>1. Settling
    <3>1. CASE Holds(r.claim, r.age)
      BY <1>6, <3>1, FailEffect, CancelledCalls
    <3>2. CASE ~Holds(r.claim, r.age)
      BY <1>6, <3>2 DEF ServeFail, Settling, Waiting
    <3>. QED
      BY <3>1, <3>2
  <2>. QED
    BY <1>1, <1>6, <2>1, TellHolding DEF ServeFail
<1>. QED
  BY <1>2, <1>3, <1>4, <1>5, <1>6 DEF Serve

LEMMA KnownKept ==
    ASSUME Good, Approvals, [Next]_vars
    PROVE  Borne' /\ Listed'
<1>0. Borne
  BY DEF Approvals
<1>1. ASSUME Traffic, Settling, \A v \in Worker : Holding(v) PROVE Borne' /\ Listed'
  BY <1>0, <1>1, BorneLaw, ListedLaw
<1>2. CASE User
  <2>1. UNCHANGED <<requests, worker>>
    BY <1>2 DEF User, Start, Pause, Resume, Cancel, Retry, AppendInput, Resolve, DeleteProject
  <2>. QED
    BY <1>1, <1>2, <2>1, Resting, SettlingUser
<1>3. ASSUME NEW w \in Worker, Step(w) PROVE Borne' /\ Listed'
  <2>1. ASSUME NEW c \in Call, BeginCall(w, c) PROVE Borne' /\ Listed'
    BY <1>0, <1>3, <2>1, WorkerTraffic, BorneLaw, ListedBegin
  <2>2. ASSUME NEW c \in Call, StartCall(w, c) \/ EndCall(w, c) PROVE Settling
    BY <2>2 DEF StartCall, EndCall, Settling, Waiting, Good, TypeOK
  <2>3. call' = call => Settling
    BY DEF Settling, Waiting
  <2>4. \/ call' = call
        \/ \E c \in Call : BeginCall(w, c) \/ StartCall(w, c) \/ EndCall(w, c)
    BY <1>3 DEF Step, Poll, Beat, Finish, Park, Break, Report, GiveUp, Crash
  <2>. QED
    BY <1>1, <1>3, <2>1, <2>2, <2>3, <2>4, WorkerTraffic
<1>4. ASSUME NEW r \in requests, Serve(r) PROVE Borne' /\ Listed'
  BY <1>0, <1>4, ServeTraffic, BorneLaw, ListedLaw
<1>5. ASSUME NEW t \in Task, Damage(t) PROVE Borne' /\ Listed'
  BY <1>1, <1>5, Resting DEF Damage, Settling, Waiting
<1>6. CASE Tick
  <2>1. UNCHANGED <<call, worker>>
    BY <1>6 DEF Tick
  <2>2. ASSUME NEW q \in requests' PROVE \E s \in requests : Like(q, s)
    <3>1. PICK s \in requests : q = [s EXCEPT !.age = @ + 1]
      BY <1>6 DEF Tick
    <3>2. s \in Request
      BY DEF Good, TypeOK
    <3>. QED
      BY <3>1, <3>2 DEF Request, Like
  <2>3. Traffic /\ Settling /\ \A v \in Worker : Holding(v)
    BY <2>1, <2>2 DEF Traffic, Settling, Waiting, Holding, Bearer
  <2>. QED
    BY <1>1, <2>3
<1>7. CASE UNCHANGED vars
  BY <1>1, <1>7, Resting DEF vars, Settling, Waiting
<1>. QED
  BY <1>2, <1>3, <1>4, <1>5, <1>6, <1>7 DEF Next

-----------------------------------------------------------------------------
\* Nothing that matters for the approvals of t has changed.
SameRows(t) ==
    /\ status'[t] = status[t] /\ attempts'[t] = attempts[t] /\ deleted' = deleted
    /\ checkpoint'[t].saved = checkpoint[t].saved
    /\ checkpoint'[t].attempt = checkpoint[t].attempt
    /\ checkpoint'[t].pending = checkpoint[t].pending
    /\ \A n \in AttemptNo : attempt'[t][n].status = attempt[t][n].status
SameCallsOf(t) == \A c \in CallsOf(t) : call'[c] = call[c] /\ caller'[c] = caller[c]
NoneOpen(t) == \A c \in CallsOf(t) : call'[c] \notin Open
\* The calls that are open are the last attempt's.
LastOpen(t) == \A c \in CallsOf(t) : call'[c] \in Open => caller'[c] = attempts'[t]

LEMMA RowsAlike ==
    ASSUME Good, NEW t \in Task, RowsOf(t), SameRows(t), SameCallsOf(t)
    PROVE  RowsOf(t)'
<1>1. \A c \in CallsOf(t) : /\ call'[c] \in Open => caller'[c] = attempts'[t]
                            /\ (Waiting(c))' = Waiting(c)
  BY DEF RowsOf, SameRows, SameCallsOf, Waiting
<1>2. ASSUME status[t] \in Undone, checkpoint[t].saved PROVE Ready(t)'
  <2>1. Ready(t) /\ checkpoint[t].attempt \in AttemptNo
    BY <1>2 DEF RowsOf, Good, Owned
  <2>2. \A c \in checkpoint[t].pending : c \in CallsOf(t)
    BY <2>1 DEF Ready, Bound
  <2>3. /\ checkpoint'[t].attempt = attempts'[t]
        /\ attempt'[t][checkpoint'[t].attempt].status \in Parked
        /\ checkpoint'[t].pending = {} => attempt'[t][checkpoint'[t].attempt].status = "paused"
    BY <2>1 DEF Ready, SameRows
  <2>4. \A c \in checkpoint'[t].pending :
            /\ c \in CallsOf(t) /\ caller'[c] = checkpoint'[t].attempt
            /\ call'[c] \in {"pending_approval", "approved", "rejected"}
    BY <2>1, <2>2 DEF Ready, SameRows, SameCallsOf, Bound
  <2>5. /\ \A c \in CallsOf(t) : call'[c] = "pending_approval" => c \in checkpoint'[t].pending
        /\ status'[t] = "queued" => \A c \in CallsOf(t) : call'[c] # "pending_approval"
    BY <2>1 DEF Ready, SameRows, SameCallsOf, Waiting
  <2>. QED
    BY <2>3, <2>4, <2>5 DEF Ready, Bound, Waiting, CallsOf
<1>3. status[t] = "waiting_approval" => \E c \in checkpoint[t].pending : call'[c] = "pending_approval"
  <2>1. status[t] = "waiting_approval" => Ready(t)
    BY DEF RowsOf, Good, Fresh, Undone, Parked
  <2>. QED
    BY <2>1 DEF RowsOf, Ready, Bound, SameCallsOf, Waiting
<1>4. status'[t] \in Ended => \A c \in CallsOf(t) : call'[c] \notin {"pending_approval", "approved"}
  BY DEF RowsOf, SameRows, SameCallsOf
<1>5. status'[t] \in Unbegun /\ ~checkpoint'[t].saved => \A c \in CallsOf(t) : call'[c] \notin Open
  BY DEF RowsOf, SameRows, SameCallsOf
<1>6. deleted' => status'[t] \in {"absent"} \cup Ended
  BY DEF RowsOf, SameRows
<1>. QED
  BY <1>1, <1>2, <1>3, <1>4, <1>5, <1>6 DEF RowsOf, SameRows, Waiting, CallsOf

LEMMA RowsActive ==
    ASSUME NEW t \in Task, status'[t] \in Active, ~deleted', LastOpen(t)
    PROVE  RowsOf(t)'
BY DEF RowsOf, Active, Unbegun, Undone, Parked, Ended, LastOpen, CallsOf

LEMMA RowsEnded ==
    ASSUME NEW t \in Task, status'[t] \in Ended, LastOpen(t),
           \A c \in CallsOf(t) : call'[c] \notin {"pending_approval", "approved"}
    PROVE  RowsOf(t)'
BY DEF RowsOf, Unbegun, Undone, Parked, Ended, LastOpen, CallsOf

LEMMA RowsUnbegun ==
    ASSUME NEW t \in Task, status'[t] \in Unbegun, ~checkpoint'[t].saved, NoneOpen(t),
           deleted' => status'[t] = "absent"
    PROVE  RowsOf(t)'
BY DEF RowsOf, Unbegun, Ended, NoneOpen, CallsOf, Open

LEMMA RowsCancelled ==
    ASSUME NEW t \in Task, NoneOpen(t),
           \/ status'[t] \in Ended
           \/ ~deleted' /\ status'[t] = "queued" /\ ~checkpoint'[t].saved
    PROVE  RowsOf(t)'
<1>1. LastOpen(t) /\ \A c \in CallsOf(t) : call'[c] \notin {"pending_approval", "approved"}
  BY DEF NoneOpen, LastOpen, Open
<1>. QED
  BY <1>1, RowsEnded, RowsUnbegun DEF Unbegun

\* The task stops, stays stopped or is woken, its calls and its checkpoint as
\* they were.
LEMMA RowsUndone ==
    ASSUME Good, NEW t \in Task, RowsOf(t), ~deleted',
           UNCHANGED <<call, caller, attempts, attempt, checkpoint>>,
           status[t] \in Undone, status'[t] \in Undone,
           status'[t] = "queued" /\ checkpoint[t].saved => \A c \in CallsOf(t) : ~Waiting(c),
           status'[t] = "waiting_approval" => \E c \in checkpoint[t].pending : Waiting(c)
    PROVE  RowsOf(t)'
<1>1. ASSUME checkpoint[t].saved PROVE Ready(t)'
  BY <1>1 DEF RowsOf, Ready, Bound, CallsOf, Waiting
<1>2. status[t] = "waiting_approval" => checkpoint[t].saved
  BY DEF Good, Fresh
<1>. QED
  BY <1>1, <1>2 DEF RowsOf, Undone, Parked, Ended, Unbegun, CallsOf, Waiting

LEMMA NothingOpen ==
    ASSUME NEW T, CancelTools(T), NEW t \in T
    PROVE  NoneOpen(t)
BY CancelledCalls DEF NoneOpen, CallsOf

LEMMA OthersCalls ==
    ASSUME NEW T, CancelTools(T), UNCHANGED caller, NEW t \in Task, t \notin T
    PROVE  SameCallsOf(t)
BY CancelledCalls DEF SameCallsOf, CallsOf

\* The user's decision: the last one wakes the task.
LEMMA RowsResolve ==
    ASSUME Good, NEW c \in Call, Resolve(c), NEW t \in Task, t = TaskOf[c], RowsOf(t)
    PROVE  RowsOf(t)'
<1>0. /\ c \in CallsOf(t) /\ Waiting(c)
      /\ call \in [Call -> CallStatus] /\ status \in [Task -> Status]
      /\ UNCHANGED <<attempts, attempt, checkpoint, caller, deleted>>
  BY DEF Resolve, Good, TypeOK, CallsOf, Waiting
<1>1. /\ call'[c] \in {"approved", "rejected"}
      /\ \A d \in Call : d # c => call'[d] = call[d]
  BY <1>0 DEF Resolve
<1>2. status'[t] = IF /\ status[t] = "waiting_approval" /\ checkpoint[t].saved
                      /\ \A d \in Bound(t, caller[c]) \ {c} : call[d] # "pending_approval"
                   THEN "queued" ELSE status[t]
  BY <1>0 DEF Resolve, Wake
<1>3. caller[c] = attempts[t] /\ LastOpen(t)
  BY <1>0, <1>1 DEF RowsOf, Open, LastOpen, Waiting, CallsOf
<1>4. status[t] \notin Ended /\ (status[t] \in Unbegun => checkpoint[t].saved)
  BY <1>0 DEF RowsOf, Waiting, Open
<1>5. status[t] = "waiting_approval" => checkpoint[t].saved
  BY DEF Good, Fresh
<1>6. ASSUME status[t] \in Undone, checkpoint[t].saved PROVE RowsOf(t)'
  <2>1. Ready(t) /\ status[t] # "queued"
    BY <1>0, <1>6 DEF RowsOf, Ready
  <2>2. \A d \in CallsOf(t) : Waiting(d) => d \in checkpoint[t].pending /\ d \in Bound(t, caller[c])
    BY <1>3, <2>1 DEF Ready
  <2>3. \A d \in CallsOf(t) : call'[d] = "pending_approval" => Waiting(d) /\ d # c
    BY <1>1 DEF CallsOf, Waiting
  <2>4. CASE status'[t] = "queued"
    <3>1. \A d \in CallsOf(t) : call'[d] # "pending_approval"
      BY <1>2, <2>1, <2>2, <2>3, <2>4 DEF Waiting
    <3>2. \A d \in checkpoint[t].pending : call'[d] \in {"pending_approval", "approved", "rejected"}
      BY <1>1, <2>1 DEF Ready, Bound, CallsOf
    <3>3. Ready(t)'
      BY <1>0, <2>1, <3>1, <3>2 DEF Ready, Bound, CallsOf, Waiting
    <3>4. ~deleted
      BY <1>2, <2>1, <2>4 DEF RowsOf, Ended
    <3>. QED
      BY <1>0, <1>3, <1>6, <2>4, <3>3, <3>4 DEF RowsOf, LastOpen, CallsOf, Ended, Unbegun
  <2>5. CASE status'[t] # "queued"
    <3>1. status'[t] = status[t]
      BY <1>2, <2>5
    <3>2. \A d \in checkpoint[t].pending : call'[d] \in {"pending_approval", "approved", "rejected"}
      BY <1>1, <2>1 DEF Ready, Bound, CallsOf
    <3>3. Ready(t)'
      BY <1>0, <2>1, <2>2, <2>3, <2>5, <3>2 DEF Ready, Bound, CallsOf, Waiting
    <3>4. status[t] = "waiting_approval" =>
              \E d \in checkpoint[t].pending : call'[d] = "pending_approval"
      <4>1. ASSUME status[t] = "waiting_approval"
            PROVE  \E d \in Bound(t, caller[c]) \ {c} : call[d] = "pending_approval"
        BY <1>2, <1>5, <2>5, <4>1
      <4>. QED
        BY <1>1, <2>2, <4>1 DEF Bound, CallsOf, Waiting
    <3>. QED
      BY <1>0, <1>3, <1>4, <1>6, <3>1, <3>3, <3>4
      DEF RowsOf, LastOpen, CallsOf, Ended, Unbegun, Undone, Parked, Waiting
  <2>. QED
    BY <2>4, <2>5
<1>7. CASE status[t] \in Active
  <2>1. status'[t] \in Active /\ ~deleted'
    BY <1>0, <1>2, <1>7 DEF Active, RowsOf, Ended
  <2>. QED
    BY <1>0, <1>3, <2>1, RowsActive
<1>8. status[t] \in Active \/ (status[t] \in Undone /\ checkpoint[t].saved)
  <2>1. status[t] # "absent"
    BY <1>4 DEF Unbegun, Good, Fresh
  <2>. QED
    BY <1>0, <1>4, <1>5, <2>1 DEF Status, Undone, Unbegun, Parked
<1>. QED
  BY <1>6, <1>7, <1>8

LEMMA RowsUser ==
    ASSUME Good, User, NEW u \in Task, RowsOf(u)
    PROVE  RowsOf(u)'
<1>0. /\ status \in [Task -> Status] /\ checkpoint \in [Task -> Checkpoint]
      /\ status[u] = "absent" => ~checkpoint[u].saved
      /\ status[u] = "waiting_approval" => checkpoint[u].saved
      /\ ~checkpoint[u].saved => checkpoint[u].pending = {}
  BY NonePending DEF Good, TypeOK, Fresh
<1>1. ASSUME NEW t \in Task, Start(t) \/ Pause(t) \/ Resume(t) \/ AppendInput(t)
      PROVE  RowsOf(u)'
  <2>1. UNCHANGED <<attempts, attempt, checkpoint, call, caller, deleted>> /\ ~deleted
    BY <1>1 DEF Start, Pause, Resume, AppendInput
  <2>2. LastOpen(u) /\ SameCallsOf(u)
    BY <2>1 DEF RowsOf, LastOpen, SameCallsOf
  <2>3. CASE u # t
    <3>1. status'[u] = status[u]
      BY <1>0, <1>1, <2>3 DEF Start, Pause, Resume, ResumeStatus, AppendInput, InputStatus
    <3>. QED
      BY <2>1, <2>2, <3>1, RowsAlike DEF SameRows
  <2>4. CASE Start(u)
    <3>1. status[u] = "absent" /\ status'[u] = "queued"
      BY <1>0, <2>4 DEF Start
    <3>2. NoneOpen(u)
      BY <1>0, <2>1, <3>1 DEF RowsOf, Unbegun, NoneOpen
    <3>. QED
      BY <1>0, <2>1, <3>1, <3>2, RowsUnbegun DEF Unbegun
  <2>5. CASE Pause(u)
    <3>1. CASE status'[u] = "pausing"
      BY <2>1, <2>2, <3>1, RowsActive DEF Active
    <3>2. CASE status[u] \in {"queued", "waiting_approval"} /\ status'[u] = "paused"
      BY <2>1, <3>2, RowsUndone DEF Undone, Parked
    <3>. QED
      BY <1>0, <2>5, <3>1, <3>2 DEF Pause
  <2>6. CASE Resume(u)
    <3>1. /\ status[u] = "paused"
          /\ status'[u] = IF \E c \in checkpoint[u].pending : call[c] = "pending_approval"
                          THEN "waiting_approval" ELSE "queued"
      BY <1>0, <2>6 DEF Resume, ResumeStatus
    <3>2. checkpoint[u].saved => \A c \in CallsOf(u) : Waiting(c) => c \in checkpoint[u].pending
      BY <3>1 DEF RowsOf, Undone, Parked, Ready
    <3>. QED
      BY <2>1, <3>1, <3>2, RowsUndone DEF Undone, Parked, Waiting
  <2>7. CASE AppendInput(u)
    <3>1. \/ status'[u] = status[u]
          \/ status[u] = "running" /\ status'[u] = "pausing"
          \/ status[u] \in {"queued", "waiting_approval"} /\ status'[u] = "paused"
      BY <1>0, <2>7 DEF AppendInput, InputStatus
    <3>2. CASE status'[u] = status[u]
      BY <2>1, <2>2, <3>2, RowsAlike DEF SameRows
    <3>3. CASE status'[u] = "pausing"
      BY <2>1, <2>2, <3>3, RowsActive DEF Active
    <3>4. CASE status[u] \in {"queued", "waiting_approval"} /\ status'[u] = "paused"
      BY <2>1, <3>4, RowsUndone DEF Undone, Parked
    <3>. QED
      BY <3>1, <3>2, <3>3, <3>4
  <2>. QED
    BY <1>1, <2>3, <2>4, <2>5, <2>6, <2>7
<1>2. ASSUME NEW t \in Task, Cancel(t) \/ Retry(t) PROVE RowsOf(u)'
  <2>1. /\ CancelTools({t}) /\ UNCHANGED <<attempts, caller, deleted>> /\ ~deleted
        /\ checkpoint' = [checkpoint EXCEPT ![t] = NoCheckpoint]
        /\ \E s \in {"cancelled", "queued"} : status' = [status EXCEPT ![t] = s]
    BY <1>2 DEF Cancel, Retry
  <2>2. CASE u = t
    <3>1. ~checkpoint'[u].saved /\ status'[u] \in {"cancelled", "queued"}
      BY <1>0, <2>1, <2>2 DEF NoCheckpoint
    <3>. QED
      BY <2>1, <2>2, <3>1, NothingOpen, RowsCancelled DEF Ended
  <2>3. CASE u # t
    <3>1. status'[u] = status[u] /\ checkpoint'[u] = checkpoint[u]
      BY <1>0, <2>1, <2>3
    <3>2. attempt'[u] = attempt[u]
      BY <1>2, <2>3 DEF Cancel, CloseAttempts, Retry, Good, TypeOK
    <3>3. SameCallsOf(u)
      BY <2>1, <2>3, OthersCalls
    <3>. QED
      BY <2>1, <3>1, <3>2, <3>3, RowsAlike DEF SameRows
  <2>. QED
    BY <2>2, <2>3
<1>3. ASSUME NEW c \in Call, Resolve(c) PROVE RowsOf(u)'
  <2>1. CASE u = TaskOf[c]
    BY <1>3, <2>1, RowsResolve
  <2>2. CASE u # TaskOf[c]
    <3>1. status'[u] = status[u]
      BY <1>3, <2>2, WakeEffect
    <3>2. SameCallsOf(u) /\ UNCHANGED <<attempts, attempt, checkpoint, deleted>>
      BY <1>3, <2>2 DEF Resolve, SameCallsOf, CallsOf, Good, TypeOK
    <3>. QED
      BY <3>1, <3>2, RowsAlike DEF SameRows
  <2>. QED
    BY <2>1, <2>2
<1>4. CASE DeleteProject
  <2>. DEFINE T == {t \in Task : status[t] \notin {"completed", "cancelled"}}
  <2>1. /\ CancelTools(T) /\ UNCHANGED <<attempts, caller>>
        /\ checkpoint'[u] = NoCheckpoint
        /\ status'[u] = IF status[u] \in {"absent", "completed"} THEN status[u] ELSE "cancelled"
    BY <1>4 DEF DeleteProject
  <2>2. u \in T <=> status[u] \notin {"completed", "cancelled"}
    OBVIOUS
  <2>. HIDE DEF T
  <2>3. CASE u \in T
    <3>1. NoneOpen(u)
      BY <2>1, <2>3, NothingOpen
    <3>2. CASE status[u] = "absent"
      BY <2>1, <3>1, <3>2, RowsUnbegun DEF Unbegun, NoCheckpoint
    <3>3. CASE status[u] # "absent"
      BY <2>1, <2>2, <2>3, <3>1, <3>3, RowsCancelled DEF Ended
    <3>. QED
      BY <3>2, <3>3
  <2>4. CASE u \notin T
    <3>1. SameCallsOf(u)
      BY <2>1, <2>4, OthersCalls
    <3>2. LastOpen(u)
      BY <2>1, <3>1 DEF LastOpen, SameCallsOf, RowsOf
    <3>3. status[u] \in Ended /\ status'[u] \in Ended
      BY <2>1, <2>2, <2>4 DEF Ended
    <3>4. \A c \in CallsOf(u) : call'[c] \notin {"pending_approval", "approved"}
      BY <3>1, <3>3 DEF SameCallsOf, RowsOf
    <3>. QED
      BY <3>2, <3>3, <3>4, RowsEnded
  <2>. QED
    BY <2>3, <2>4
<1>. QED
  BY <1>1, <1>2, <1>3, <1>4 DEF User

LEMMA RowsStep ==
    ASSUME Good, NEW w \in Worker, Step(w), NEW u \in Task, RowsOf(u)
    PROVE  RowsOf(u)'
<1>0. UNCHANGED <<status, attempts, attempt, checkpoint, deleted>>
      /\ call \in [Call -> CallStatus] /\ caller \in [Call -> Nat]
  BY DEF Step, Poll, Beat, Finish, Park, Break, Report, GiveUp, Crash, BeginCall, StartCall,
         EndCall, Good, TypeOK
<1>1. ASSUME SameCallsOf(u) PROVE RowsOf(u)'
  BY <1>0, <1>1, RowsAlike DEF SameRows
<1>2. UNCHANGED <<call, caller>> => SameCallsOf(u)
  BY DEF SameCallsOf
<1>3. ASSUME NEW c \in Call, BeginCall(w, c) \/ StartCall(w, c) \/ EndCall(w, c)
      PROVE  RowsOf(u)'
  <2>. DEFINE k == worker[w].claim
  <2>1. /\ worker[w].pc = "working" /\ k.task = TaskOf[c] /\ Holds(k, 0)
        /\ caller'[c] = k.attempt
        /\ \A d \in Call : d # c => call'[d] = call[d] /\ caller'[d] = caller[d]
    BY <1>0, <1>3 DEF BeginCall, StartCall, EndCall, Owns, Claim
  <2>2. k.task \in Task /\ k \in Claimed
    BY <2>1 DEF Good, Addressed, TypeOK, Memory
  <2>3. k.attempt = attempts[TaskOf[c]] /\ status[TaskOf[c]] \in Active /\ ~deleted
    BY <2>1, <2>2, ClaimTyped, HeldLast DEF Holds
  <2>4. CASE u = TaskOf[c]
    <3>1. LastOpen(u)
      BY <1>0, <2>1, <2>3, <2>4 DEF LastOpen, RowsOf, CallsOf
    <3>. QED
      BY <1>0, <2>3, <2>4, <3>1, RowsActive
  <2>5. CASE u # TaskOf[c]
    BY <1>1, <2>1, <2>5 DEF SameCallsOf, CallsOf
  <2>. QED
    BY <2>4, <2>5
<1>4. \/ UNCHANGED <<call, caller>>
      \/ \E c \in Call : BeginCall(w, c) \/ StartCall(w, c) \/ EndCall(w, c)
  BY DEF Step, Poll, Beat, Finish, Park, Break, Report, GiveUp, Crash
<1>. QED
  BY <1>1, <1>2, <1>3, <1>4

\* A task the claim does not give out: its lease may have run out.
LEMMA RowsExpired ==
    ASSUME Good, NEW age, NEW T, NEW u \in Task, RowsOf(u), CancelTools(T),
           UNCHANGED <<caller, deleted>>, Overdue(age) \subseteq T, u \in T => u \in Overdue(age),
           status'[u] = StatusThen(age)[u], attempt'[u] = AttemptThen(age)[u],
           checkpoint'[u] = CheckpointThen(age)[u], attempts'[u] = attempts[u]
    PROVE  RowsOf(u)'
<1>1. CASE u \in Overdue(age)
  <2>1. status[u] \in Active
    BY <1>1, ExpiredLast
  <2>2. ~deleted
    BY <2>1 DEF RowsOf, Active, Ended
  <2>3. checkpoint'[u] = NoCheckpoint /\ status'[u] \in {"failed", "queued"}
    BY <1>1 DEF CheckpointThen, StatusThen
  <2>. QED
    BY <1>1, <2>2, <2>3, NothingOpen, RowsCancelled DEF Ended, NoCheckpoint
<1>2. CASE u \notin Overdue(age)
  <2>1. SameCallsOf(u)
    BY <1>2, OthersCalls
  <2>2. SameRows(u)
    BY <1>2, Unexpired DEF SameRows
  <2>. QED
    BY <2>1, <2>2, RowsAlike
<1>. QED
  BY <1>1, <1>2

LEMMA RowsGiven ==
    ASSUME Good, NEW r \in requests, NEW t \in Task, NEW n \in AttemptNo, Given(r, t, n),
           checkpoint' = CheckpointThen(r.age), CancelTools(Overdue(r.age)),
           UNCHANGED <<caller, deleted>>, ~deleted, LastOpen(t),
           \A v \in Task \ {t} : attempts'[v] = attempts[v],
           NEW u \in Task, RowsOf(u)
    PROVE  RowsOf(u)'
<1>1. /\ status' = [StatusThen(r.age) EXCEPT ![t] = "running"]
      /\ \E a : attempt' = [AttemptThen(r.age) EXCEPT ![t][n] = a]
      /\ StatusThen(r.age) \in [Task -> Status]
      /\ AttemptThen(r.age) \in [Task -> [AttemptNo -> Attempt]]
  BY ThenTyped DEF Given
<1>2. CASE u = t
  BY <1>1, <1>2, RowsActive DEF Active
<1>3. CASE u # t
  <2>1. status'[u] = StatusThen(r.age)[u] /\ attempt'[u] = AttemptThen(r.age)[u]
    BY <1>1, <1>3
  <2>. QED
    BY <1>3, <2>1, RowsExpired
<1>. QED
  BY <1>2, <1>3

LEMMA RowsClaim ==
    ASSUME Good, Approvals, NEW r \in requests, ServeClaim(r), NEW u \in Task
    PROVE  RowsOf(u)'
<1>0. RowsOf(u) /\ \A t \in Task : RowsOf(t)
  BY DEF Approvals
<1>1. UNCHANGED <<caller, deleted>> /\ checkpoint' = CheckpointThen(r.age)
  BY ClaimEffect DEF ServeClaim
<1>2. CASE NoTask(r)
  BY <1>0, <1>1, <1>2, RowsExpired DEF NoTask
<1>3. ASSUME NEW t \in Task, ~deleted, StatusThen(r.age)[t] = "queued", TakeFresh(r, t)
      PROVE  RowsOf(u)'
  <2>. DEFINE n == attempts[t] + 1
  <2>1. /\ Given(r, t, n) /\ n \in AttemptNo /\ CancelTools(Overdue(r.age))
        /\ \A v \in Task \ {t} : attempts'[v] = attempts[v]
    BY <1>3 DEF TakeFresh, Good, TypeOK
  <2>2. LastOpen(t)
    BY <1>3, FreshUnasked DEF LastOpen
  <2>. HIDE DEF n
  <2>. QED
    BY <1>0, <1>1, <1>3, <2>1, <2>2, RowsGiven
<1>4. ASSUME NEW t \in Task, ~deleted, TakeSaved(r, t) PROVE RowsOf(u)'
  <2>. DEFINE n == checkpoint[t].attempt
  <2>1. Given(r, t, n) /\ CancelTools(Overdue(r.age)) /\ attempts' = attempts
    BY <1>4 DEF TakeSaved
  <2>2. n \in AttemptNo
    BY <1>4, SavedAttempt DEF TakeSaved
  <2>3. LastOpen(t)
    BY <1>0, <1>1, <2>1, CancelledCalls DEF LastOpen, RowsOf, CallsOf, Open
  <2>. HIDE DEF n
  <2>. QED
    BY <1>0, <1>1, <1>4, <2>1, <2>2, <2>3, RowsGiven
<1>5. ASSUME NEW t \in Task, ~deleted, TakeCorrupt(r, t) PROVE RowsOf(u)'
  <2>. DEFINE T == Overdue(r.age) \cup {t}
  <2>1. /\ status' = [StatusThen(r.age) EXCEPT ![t] = "failed"] /\ attempts' = attempts
        /\ \E f : attempt' = [AttemptThen(r.age) EXCEPT ![t] = f]
        /\ CancelTools(T)
    BY <1>5 DEF TakeCorrupt
  <2>2. /\ StatusThen(r.age) \in [Task -> Status]
        /\ AttemptThen(r.age) \in [Task -> [AttemptNo -> Attempt]]
    BY ThenTyped
  <2>3. CASE u = t
    <3>1. NoneOpen(u)
      BY <2>1, <2>3, NothingOpen
    <3>2. status'[u] = "failed"
      BY <2>1, <2>2, <2>3
    <3>. QED
      BY <3>1, <3>2, RowsCancelled DEF Ended
  <2>4. CASE u # t
    <3>1. status'[u] = StatusThen(r.age)[u] /\ attempt'[u] = AttemptThen(r.age)[u]
      BY <2>1, <2>2, <2>4
    <3>2. Overdue(r.age) \subseteq T /\ (u \in T => u \in Overdue(r.age))
      BY <2>4
    <3>. HIDE DEF T
    <3>. QED
      BY <1>0, <1>1, <2>1, <3>1, <3>2, RowsExpired
  <2>. QED
    BY <2>3, <2>4
<1>. QED
  BY <1>2, <1>3, <1>4, <1>5 DEF ServeClaim

LEMMA ParkRows ==
    ASSUME NEW r \in requests, ServePark(r), Holds(r.claim, r.age), Consistent(r)
    PROVE  attempt' = [attempt EXCEPT ![r.claim.task][r.claim.attempt] = Close(@,
               IF r.kind = "recovery" \/ status[r.claim.task] = "pausing"
               THEN "paused" ELSE "waiting_approval")]
BY DEF ServePark

LEMMA RowsPark ==
    ASSUME Good, Approvals, NEW r \in requests, ServePark(r), Holds(r.claim, r.age),
           Consistent(r), NEW t \in Task, t = r.claim.task
    PROVE  RowsOf(t)'
<1>. DEFINE k == r.claim  n == r.claim.attempt
<1>0. /\ k \in [task : Task, attempt : AttemptNo, token : Nat] /\ n \in AttemptNo
      /\ r.op = "park"
      /\ UNCHANGED <<call, caller, attempts, deleted>> /\ RowsOf(t) /\ Listed
  BY Requested DEF ServePark, Approvals
<1>1. n = attempts[t] /\ status[t] \in {"running", "pausing"} /\ ~deleted
  BY <1>0, HeldLast DEF Holds, Active
<1>2. /\ checkpoint'[t].saved /\ checkpoint'[t].attempt = n
      /\ checkpoint'[t].pending = r.pending
  <2>. DEFINE p == [saved |-> TRUE, attempt |-> n, pending |-> r.pending, intact |-> TRUE]
  <2>1. checkpoint' = [checkpoint EXCEPT ![t] = p]
    BY ParkEffect
  <2>2. p.saved /\ p.attempt = n /\ p.pending = r.pending
    OBVIOUS
  <2>. HIDE DEF p
  <2>. QED
    BY <2>1, <2>2 DEF Good, TypeOK
<1>3. status'[t] = ParkedStatus(r) /\ ParkedStatus(r) \in Undone
  <2>1. /\ status' = [status EXCEPT ![t] = ParkedStatus(r)]
        /\ ParkedStatus(r) \in {"queued"} \cup Parked
    BY ParkEffect
  <2>. QED
    BY <2>1 DEF Good, TypeOK, Undone
<1>. DEFINE s == IF r.kind = "recovery" \/ status[t] = "pausing"
                 THEN "paused" ELSE "waiting_approval"
<1>4. attempt'[t][n].status = s
  <2>1. attempt[t][n] \in Attempt /\ s \in AttemptStatus
    BY <1>0 DEF Good, TypeOK, AttemptStatus, Parked
  <2>2. attempt' = [attempt EXCEPT ![t][n] = Close(@, s)]
    BY ParkRows
  <2>. HIDE DEF s
  <2>3. attempt'[t][n] = Close(attempt[t][n], s)
    BY <1>0, <2>2 DEF Good, TypeOK
  <2>. QED
    BY <2>1, <2>3, Closing
<1>5. s \in Parked
  BY DEF Parked
<1>6. r.pending = {} => s = "paused"
  BY <1>0 DEF Listed, Consistent
<1>. HIDE DEF s
<1>7. \A c \in r.pending : /\ c \in Bound(t, n)
                           /\ call[c] \in {"pending_approval", "approved", "rejected"}
  BY DEF Consistent
<1>8. \A c \in CallsOf(t) : Waiting(c) => c \in r.pending
  <2>1. \A c \in CallsOf(t) : Waiting(c) => c \in Bound(t, n)
    BY <1>0, <1>1 DEF RowsOf, Bound, Waiting, Open
  <2>. QED
    BY <2>1 DEF Consistent, Waiting
<1>9. ParkedStatus(r) = "queued" => \A c \in CallsOf(t) : ~Waiting(c)
  BY <1>8 DEF ParkedStatus, Undecided, Waiting
<1>10. Ready(t)'
  BY <1>0, <1>1, <1>2, <1>3, <1>4, <1>5, <1>6, <1>7, <1>8, <1>9
  DEF Ready, Bound, CallsOf, Waiting
<1>11. ParkedStatus(r) = "waiting_approval" => \E c \in r.pending : Waiting(c)
  BY ParkEffect DEF Undecided, Waiting
<1>. QED
  BY <1>0, <1>1, <1>2, <1>3, <1>10, <1>11
  DEF RowsOf, Undone, Parked, Unbegun, Ended, CallsOf, Waiting

LEMMA RowsAnswer ==
    ASSUME Good, Approvals, NEW r \in requests,
           ServeProgress(r) \/ ServeComplete(r) \/ ServePark(r) \/ ServeFail(r), NEW u \in Task
    PROVE  RowsOf(u)'
<1>. DEFINE k == r.claim  t == r.claim.task  n == r.claim.attempt
<1>0. /\ k \in [task : Task, attempt : AttemptNo, token : Nat] /\ t \in Task /\ n \in AttemptNo
      /\ RowsOf(u) /\ RowsOf(t) /\ Borne /\ Listed
      /\ status \in [Task -> Status] /\ checkpoint \in [Task -> Checkpoint]
      /\ attempt \in [Task -> [AttemptNo -> Attempt]]
  BY Requested DEF ServeProgress, ServeComplete, ServePark, ServeFail, Approvals, Good, TypeOK
<1>1. UNCHANGED <<attempts, caller, deleted>>
  BY DEF ServeProgress, ServeComplete, ServePark, ServeFail
<1>2. ASSUME UNCHANGED <<call, status, checkpoint, attempt>> PROVE RowsOf(u)'
  BY <1>0, <1>1, <1>2, RowsAlike DEF SameRows, SameCallsOf
<1>3. ASSUME u # t, NEW st, status' = [status EXCEPT ![t] = st],
             NEW p, checkpoint' = [checkpoint EXCEPT ![t] = p],
             NEW a, attempt' = [attempt EXCEPT ![t][n] = a], SameCallsOf(u)
      PROVE  RowsOf(u)'
  <2>1. status'[u] = status[u] /\ checkpoint'[u] = checkpoint[u] /\ attempt'[u] = attempt[u]
    BY <1>0, <1>3
  <2>. QED
    BY <1>0, <1>1, <1>3, <2>1, RowsAlike DEF SameRows
<1>4. CASE ServeProgress(r)
  <2>1. CASE Holds(k, r.age)
    <3>1. /\ attempt' = [attempt EXCEPT ![t][n].lease = Lease - r.age]
          /\ UNCHANGED <<call, status, checkpoint>>
      BY <1>4, <2>1 DEF ServeProgress
    <3>2. [attempt[t][n] EXCEPT !.lease = Lease - r.age].status = attempt[t][n].status
      BY <1>0 DEF Attempt
    <3>3. \A m \in AttemptNo : attempt'[u][m].status = attempt[u][m].status
      BY <1>0, <3>1, <3>2
    <3>. QED
      BY <1>0, <1>1, <3>1, <3>3, RowsAlike DEF SameRows, SameCallsOf
  <2>2. CASE ~Holds(k, r.age)
    BY <1>2, <1>4, <2>2 DEF ServeProgress
  <2>. QED
    BY <2>1, <2>2
<1>5. CASE ServeComplete(r)
  <2>1. CASE Holds(k, r.age)
    <3>1. /\ status' = [status EXCEPT ![t] = "completed"]
          /\ attempt' = [attempt EXCEPT ![t][n] = Close(@, "completed")]
          /\ checkpoint' = [checkpoint EXCEPT ![t] = NoCheckpoint]
          /\ call' = call /\ r.op = "complete"
      BY <1>5, <2>1, CompleteEffect DEF ServeComplete
    <3>2. CASE u = t
      <4>1. Newest(k)
        BY <1>0, <2>1, HeldLast DEF Newest
      <4>2. \A c \in CallsOf(t) : call'[c] \notin {"pending_approval", "approved"}
        BY <1>0, <3>1, <4>1 DEF Listed
      <4>3. LastOpen(t) /\ status'[t] \in Ended
        BY <1>0, <1>1, <3>1 DEF LastOpen, RowsOf, Ended
      <4>. QED
        BY <1>0, <3>2, <4>2, <4>3, RowsEnded
    <3>3. CASE u # t
      BY <1>1, <1>3, <3>1, <3>3 DEF SameCallsOf
    <3>. QED
      BY <3>2, <3>3
  <2>2. CASE ~Holds(k, r.age)
    BY <1>2, <1>5, <2>2 DEF ServeComplete
  <2>. QED
    BY <2>1, <2>2
<1>6. CASE ServePark(r)
  <2>1. CASE Holds(k, r.age) /\ Consistent(r)
    <3>1. CASE u = t
      BY <1>6, <2>1, <3>1, RowsPark
    <3>2. CASE u # t
      <4>1. SameCallsOf(u)
        BY <1>1, <1>6 DEF ServePark, SameCallsOf
      <4>. QED
        BY <1>3, <1>6, <2>1, <3>2, <4>1, ParkEffect, ParkRows
    <3>. QED
      BY <3>1, <3>2
  <2>2. CASE ~(Holds(k, r.age) /\ Consistent(r))
    BY <1>2, <1>6, <2>2 DEF ServePark
  <2>. QED
    BY <2>1, <2>2
<1>7. CASE ServeFail(r)
  <2>1. CASE Holds(k, r.age)
    <3>1. /\ CancelTools({t})
          /\ checkpoint' = [checkpoint EXCEPT ![t] = NoCheckpoint]
          /\ attempt' = [attempt EXCEPT ![t][n] = Close(@, "failed")]
          /\ \E s \in {"failed", "queued"} : status' = [status EXCEPT ![t] = s]
      BY <1>7, <2>1, FailEffect
    <3>2. CASE u = t
      <4>1. ~deleted' /\ ~checkpoint'[t].saved /\ status'[t] \in {"failed", "queued"}
        BY <1>0, <1>1, <2>1, <3>1 DEF Holds, NoCheckpoint
      <4>2. NoneOpen(t)
        BY <3>1, NothingOpen
      <4>. QED
        BY <1>0, <3>2, <4>1, <4>2, RowsCancelled DEF Ended
    <3>3. CASE u # t
      <4>1. SameCallsOf(u)
        BY <1>1, <3>1, <3>3, OthersCalls
      <4>. QED
        BY <1>3, <3>1, <3>3, <4>1
    <3>. QED
      BY <3>2, <3>3
  <2>2. CASE ~Holds(k, r.age)
    BY <1>2, <1>7, <2>2 DEF ServeFail
  <2>. QED
    BY <2>1, <2>2
<1>. QED
  BY <1>4, <1>5, <1>6, <1>7

-----------------------------------------------------------------------------
LEMMA InitApprovals == Init => Approvals
<1>. SUFFICES ASSUME Init PROVE Approvals
  OBVIOUS
<1>1. Borne /\ Listed
  BY DEF Init, Borne, Listed, Bearer, Idle
<1>2. \A t \in Task : RowsOf(t)
  BY DEF Init, RowsOf, NoCheckpoint, Undone, Parked, Ended, Open, CallsOf, Unbegun
<1>. QED
  BY <1>1, <1>2 DEF Approvals

LEMMA ApprovalsKept ==
    ASSUME Good, Approvals, [Next]_vars
    PROVE  Approvals'
<1>1. ASSUME NEW u \in Task PROVE RowsOf(u)'
  <2>1. RowsOf(u)
    BY DEF Approvals
  <2>2. ASSUME UNCHANGED <<status, attempts, checkpoint, attempt, call, caller, deleted>>
        PROVE  RowsOf(u)'
    BY <2>1, <2>2, RowsAlike DEF SameRows, SameCallsOf
  <2>3. ASSUME NEW t \in Task, Damage(t) PROVE RowsOf(u)'
    <3>1. checkpoint[t] \in Checkpoint /\ checkpoint \in [Task -> Checkpoint]
      BY DEF Good, TypeOK
    <3>2. /\ [checkpoint[t] EXCEPT !.intact = FALSE].saved = checkpoint[t].saved
          /\ [checkpoint[t] EXCEPT !.intact = FALSE].attempt = checkpoint[t].attempt
          /\ [checkpoint[t] EXCEPT !.intact = FALSE].pending = checkpoint[t].pending
      BY <3>1 DEF Checkpoint
    <3>3. /\ checkpoint' = [checkpoint EXCEPT ![t].intact = FALSE]
          /\ UNCHANGED <<status, attempts, attempt, call, caller, deleted>>
      BY <2>3 DEF Damage
    <3>4. /\ checkpoint'[u].saved = checkpoint[u].saved
          /\ checkpoint'[u].attempt = checkpoint[u].attempt
          /\ checkpoint'[u].pending = checkpoint[u].pending
      BY <3>1, <3>2, <3>3
    <3>. QED
      BY <2>1, <3>3, <3>4, RowsAlike DEF SameRows, SameCallsOf
  <2>4. CASE Tick
    <3>1. UNCHANGED <<status, attempts, checkpoint, call, caller, deleted>>
      BY <2>4 DEF Tick
    <3>2. \A n \in AttemptNo : attempt'[u][n].status = attempt[u][n].status
      <4>. SUFFICES ASSUME NEW n \in AttemptNo
                    PROVE  attempt'[u][n].status = attempt[u][n].status
        OBVIOUS
      <4>1. attempt[u][n] \in Attempt
        BY DEF Good, TypeOK
      <4>2. [attempt[u][n] EXCEPT !.lease = @ - 1].status = attempt[u][n].status
        BY <4>1 DEF Attempt
      <4>3. attempt'[u][n] = attempt[u][n] \/ attempt'[u][n] = [attempt[u][n] EXCEPT !.lease = @ - 1]
        BY <2>4 DEF Tick
      <4>. QED
        BY <4>2, <4>3
    <3>. QED
      BY <2>1, <3>1, <3>2, RowsAlike DEF SameRows, SameCallsOf
  <2>5. CASE UNCHANGED vars
    BY <2>2, <2>5 DEF vars
  <2>. QED
    BY <2>1, <2>3, <2>4, <2>5, RowsUser, RowsStep, RowsClaim, RowsAnswer DEF Next, Serve
<1>2. (\A t \in Task : RowsOf(t))'
  BY <1>1
<1>. QED
  BY <1>2, KnownKept DEF Approvals

LEMMA ApprovalsAlways == Spec => []Approvals
<1>1. Good /\ Approvals /\ [Next]_vars => Approvals'
  BY ApprovalsKept
<1>. QED
  BY <1>1, InitApprovals, GoodAlways, PTL DEF Spec

\* A waiting task has an approval to wait for, and the last decision wakes it,
\* whether it comes before, between or after the transactions that park the
\* task; a queued task can go on from an undamaged checkpoint.
THEOREM NoLostWakeupAlways == Spec => []NoLostWakeup
<1>1. ASSUME Good, Approvals, NEW t \in Task
      PROVE  /\ status[t] = "waiting_approval" =>
                   \E c \in checkpoint[t].pending : call[c] = "pending_approval"
             /\ status[t] = "queued" /\ checkpoint[t].saved /\ checkpoint[t].intact => Whole(t)
  <2>1. RowsOf(t)
    BY <1>1 DEF Approvals
  <2>2. ASSUME status[t] = "queued", checkpoint[t].saved, checkpoint[t].intact PROVE Whole(t)
    BY <2>1, <2>2 DEF RowsOf, Ready, Whole, Undone, Bound, Waiting
  <2>. QED
    BY <2>1, <2>2 DEF RowsOf, Waiting
<1>2. Good /\ Approvals => NoLostWakeup
  BY <1>1 DEF NoLostWakeup
<1>. QED
  BY <1>2, ApprovalsAlways, GoodAlways, PTL

\* A task ends with no approval left to give or to act on, also when its
\* worker's last request overtakes a decision; deletion ends every task.
THEOREM EndedHoldsNothingAlways == Spec => []EndedHoldsNothing
<1>1. Approvals => EndedHoldsNothing
  BY DEF Approvals, RowsOf, EndedHoldsNothing
<1>. QED
  BY <1>1, ApprovalsAlways, PTL
=============================================================================
