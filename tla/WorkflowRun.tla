----------------------------- MODULE WorkflowRun -----------------------------
(***************************************************************************)
(* A workflow run and the step it is at: the items of the step are handed  *)
(* out under leases to the sidecar's task workers, whose results the Store *)
(* first receives and then commits; the user pauses, resumes, retries and  *)
(* cancels the run meanwhile.                                              *)
(*                                                                         *)
(* The Store's side is runtime/executor, executor_failure,                 *)
(* execution_checkpoint, execution_result_repair, run_lifecycle and retry, *)
(* the worker's side is the sidecar's task_worker.  Of an item's attempts  *)
(* only the last is kept, with one tool call, whose tool writes.  The step *)
(* is the last of its workflow.                                            *)
(*                                                                         *)
(* A claim, a result and a failure read the clock before they wait for the *)
(* Store's connection; the other commands read it once they have it.  Time *)
(* is kept by counting down: a lease is the time it has left, the age of a *)
(* request the time since it read the clock.                               *)
(***************************************************************************)
EXTENDS Integers, FiniteSetsExt

CONSTANTS
    Count,              \* the number of items of a batch
    Batches,            \* the kinds of step: "none", "parallel", "sequential"
    Tooled,             \* the items for which the model may call the tool
    Worker,
    Lease,              \* the length of a lease, in ticks
    Grace,              \* pauseResultCommitGrace, in ticks
    AutomaticAttempts,  \* retry.automatic_attempts of the step
    MaxRepairClaims,    \* maxExecutionRepairClaims
    MaxWait,            \* bound on the ticks a request waits for the connection
    MaxGrants,          \* bound on the times items are given to workers
    MaxEvents           \* bound on users' commands

ASSUME BatchAssumption ==
    Count \in Nat \ {0} /\ Batches \subseteq {"none", "parallel", "sequential"}
    /\ Tooled \subseteq 1 .. Count
ASSUME TimeAssumption == Lease \in Nat /\ Grace \in Nat /\ MaxWait \in Nat
ASSUME BoundAssumption ==
    AutomaticAttempts \in Nat /\ MaxRepairClaims \in Nat /\ MaxGrants \in Nat
    /\ MaxEvents \in Nat

VARIABLES
    db,       \* rows of the run, of its step and of the step's items
    batch,    \* how the step is executed; fixed
    worker,   \* memory of the workers
    events    \* how much of the bound on events has been used
vars == <<db, batch, worker, events>>

-----------------------------------------------------------------------------
Item == 1 .. Count
\* The items of the step.
Items == IF batch = "none" THEN {1} ELSE Item

RunStatus  == {"running", "pausing", "paused", "waiting_approval", "completed",
               "failed", "cancelled"}
StepStatus == RunStatus \ {"pausing"}
Parked     == {"waiting_approval", "paused"}
ItemStatus == {"pending", "running", "repair_pending"} \cup Parked \cup
              {"succeeded", "failed", "cancelled"}
Unsettled  == {"pending", "running", "repair_pending"} \cup Parked
AttemptStatus == {"none", "running", "result_received", "repair_pending"} \cup Parked \cup
                 {"succeeded", "failed", "expired", "abandoned", "cancelled"}
Open == {"pending_approval", "approved", "running"}

\* An item with the last of its attempts.  "again" says that its failure is
\* one the user may retry, "current" that it points to the attempt, "token"
\* which grant the attempt's token belongs to (0: nobody's), "before" that an
\* earlier attempt may have acted, "by" whose grant its result was committed
\* under (0: none was).
Row == [status : ItemStatus, again : BOOLEAN, current : BOOLEAN,
        attempt : AttemptStatus, no : Nat, grant : Nat, token : Nat,
        lease : Int, grace : Int,
        out : {"none", "good", "bad"},
        repair : {"none", "queued", "claimed", "closed", "terminal"}, claims : Nat,
        saved : {"none", "plain", "asking"},
        call : Open \cup {"none", "rejected", "completed", "cancelled"},
        acted : BOOLEAN, before : BOOLEAN, by : Nat]
NewRow == [status |-> "pending", again |-> FALSE, current |-> FALSE,
           attempt |-> "none", no |-> 0, grant |-> 0, token |-> 0,
           lease |-> 0, grace |-> 0, out |-> "none", repair |-> "none", claims |-> 0,
           saved |-> "none", call |-> "none", acted |-> FALSE, before |-> FALSE,
           by |-> 0]

Pc     == {"idle", "claiming", "working", "submitting", "received", "rejected",
           "failing"}
Idle   == [pc |-> "idle", item |-> 0, token |-> 0, age |-> 0, asked |-> FALSE]
Memory == [pc : Pc, item : Item \cup {0}, token : Nat, age : Nat, asked : BOOLEAN]

TypeOK ==
    /\ db \in [run : RunStatus, step : StepStatus, item : [Items -> Row]]
    /\ batch \in Batches
    /\ worker \in [Worker -> Memory]
    /\ events \in Nat

\* ResumeRun has planned the items of the step and started it.
Init ==
    /\ batch \in Batches
    /\ db = [run |-> "running", step |-> "running", item |-> [i \in Items |-> NewRow]]
    /\ worker = [w \in Worker |-> Idle]
    /\ events = 0

-----------------------------------------------------------------------------
(* Operators on the rows d of the Store.  Definitions named Name_... are    *)
(* Name with a bug, to test the properties.                                 *)

Put(d, i, x) == [d EXCEPT !.item[i] = x]
Going(d) == d.step = "running" /\ d.run \in {"running", "pausing"}

Risk_OnlyWrites(x) == x.acted
\* Doing the attempt's work again could repeat what was done.
Risk(x) == x.acted \/ x.saved # "none"

CloseCall(x) == IF x.call \in Open THEN [x EXCEPT !.call = "cancelled"] ELSE x
\* The attempt ends without a result.
Lose(x, attempt) == [CloseCall(x) EXCEPT !.attempt = attempt, !.lease = 0]
Detach(x, status) == [x EXCEPT !.status = status, !.current = FALSE]

\* failStepRunAndProjectTx: cancels the calls of all the run's attempts.
FailStep(d) ==
    [run  |-> IF d.run \in {"running", "pausing"} THEN "failed" ELSE d.run,
     step |-> IF d.step = "running" THEN "failed" ELSE d.step,
     item |-> [i \in Items |-> CloseCall(d.item[i])]]

\* finalizePreservedBatchFailureIfSettledTx
Settle(d) ==
    IF \/ \E i \in Items : d.item[i].status \in Unsettled
       \/ \A i \in Items : d.item[i].status # "failed"
    THEN d ELSE FailStep(d)
\* An item has failed: a batch goes on with the others.
AfterFailure(d) == IF batch = "none" THEN FailStep(d) ELSE Settle(d)

\* failExecutionOutputRepairTx: the item keeps its attempt.
Unrepairable(x) == [x EXCEPT !.attempt = "failed", !.status = "failed", !.again = TRUE,
                             !.repair = "terminal", !.lease = 0, !.grace = 0]

Expire_OnlyItem(x) ==
    CASE x.repair = "claimed" /\ x.claims >= MaxRepairClaims -> Unrepairable(x)
      [] x.repair = "claimed" /\ x.claims < MaxRepairClaims ->
             [x EXCEPT !.repair = "queued", !.status = "repair_pending", !.token = 0]
      [] x.repair # "claimed" /\ Risk(x) -> Lose(Detach(x, "failed"), "expired")
      [] x.repair # "claimed" /\ ~Risk(x) -> [Detach(x, "pending") EXCEPT !.lease = 0]
\* What an expired attempt leaves of its item.
Expire(x) ==
    CASE x.repair = "claimed" /\ x.claims >= MaxRepairClaims -> Unrepairable(x)
      [] x.repair = "claimed" /\ x.claims < MaxRepairClaims ->
             [x EXCEPT !.repair = "queued", !.attempt = "repair_pending",
                       !.status = "repair_pending", !.token = 0, !.lease = 0]
      [] x.repair # "claimed" /\ Risk(x) -> Lose(Detach(x, "failed"), "expired")
      [] x.repair # "claimed" /\ ~Risk(x) -> Lose(Detach(x, "pending"), "expired")

Overdue(d, age) ==
    {i \in Items : LET x == d.item[i]
                   IN /\ x.attempt = "running" /\ x.current /\ x.status = "running"
                      /\ x.lease + age <= 0
                      /\ d.step = "running"
                      /\ d.run = "running" \/ (d.run = "pausing" /\ x.repair = "claimed")}
\* requeueExpiredAttempts
Requeue(d, age) ==
    LET over == Overdue(d, age)
        then == [d EXCEPT !.item = [i \in Items |->
                    IF i \in over THEN Expire(d.item[i]) ELSE d.item[i]]]
    IN IF \E i \in over : d.item[i].repair # "claimed" /\ Risk(d.item[i]) THEN FailStep(then)
       ELSE IF \E i \in over : then.item[i].repair = "terminal" THEN AfterFailure(then)
       ELSE then

\* runHasActiveExecutionTx
Active(d) ==
    \E i \in Items : /\ d.item[i].current /\ d.item[i].status = "running"
                     /\ d.item[i].attempt \in {"running", "result_received"}

Halt_DropsResults(x) ==
    IF x.status \in {"pending", "running"}
    THEN IF x.current THEN Lose(Detach(x, "paused"), "abandoned") ELSE Detach(x, "paused")
    ELSE x
Halt(x) ==
    LET y == IF x.attempt = "running" THEN Lose(x, "abandoned") ELSE x
    IN IF x.status \in {"pending", "running"}
       THEN [y EXCEPT !.status = "paused", !.current = @ /\ x.attempt = "result_received"]
       ELSE y
\* pauseRunningStepTx: a result that was received stays with its item.
Paused(d) == [run |-> "paused", step |-> "paused", item |-> [i \in Items |-> Halt(d.item[i])]]
\* pauseAfterCompletedTaskIfRequestedTx
PauseIfDone(d) == IF d.run = "pausing" /\ ~Active(d) THEN Paused(d) ELSE d

Held_Forever(x, age) == x.attempt \in {"running", "result_received"}
\* A worker that still counts, by a clock read age ticks ago, works at the
\* item or is about to commit it.
Held(x, age) ==
    \/ x.attempt = "running" /\ x.lease + age > 0
    \/ x.attempt = "result_received" /\ x.grace + age > 0
\* convergePausingRunsTx, with guardExecutionPauseTx: what may have acted is
\* not given up silently.  (Of several such items the first stands for the
\* one the query returns first.)
Converge(d, age) ==
    LET risky == {i \in Items : /\ d.item[i].current /\ d.item[i].attempt = "running"
                                /\ Risk(d.item[i])}
        first == CHOOSE i \in risky : \A j \in risky : i <= j
    IN CASE \/ d.run # "pausing"
            \/ \E i \in Items : /\ d.item[i].current /\ d.item[i].status = "running"
                                /\ Held(d.item[i], age) -> d
         [] OTHER ->
            IF risky # {}
            THEN FailStep(Put(d, first, Lose(Detach(d.item[first], "failed"), "expired")))
            ELSE Paused(d)

-----------------------------------------------------------------------------
(* The user.                                                               *)

Event == events < MaxEvents /\ events' = events + 1

RequestPause_StepToo ==
    /\ Event
    /\ \/ db.run = "running" /\ db' = IF Active(db)
                                      THEN [db EXCEPT !.run = "pausing", !.step = "pausing"]
                                      ELSE Paused(db)
       \/ db.run = "waiting_approval" /\ db' = [db EXCEPT !.run = "paused"]
    /\ UNCHANGED <<batch, worker>>
RequestPause ==
    /\ Event
    /\ \/ db.run = "running" /\ db' = IF Active(db) THEN [db EXCEPT !.run = "pausing"]
                                                    ELSE Paused(db)
       \/ db.run = "waiting_approval" /\ db' = [db EXCEPT !.run = "paused"]
    /\ UNCHANGED <<batch, worker>>

Wake_KeepsPaused(x) == x
\* An item asked about while the run was paused waits for its answer; one that
\* was not begun may be begun.
Wake(x) ==
    CASE x.status = "paused" /\ x.current /\ x.attempt = "paused"
         /\ x.call = "pending_approval" ->
             [x EXCEPT !.status = "waiting_approval", !.attempt = "waiting_approval"]
      [] x.status = "paused" /\ ~x.current -> [x EXCEPT !.status = "pending"]
      [] OTHER -> x
ResumeRun ==
    /\ Event
    /\ \/ db.run = "pausing" /\ db' = [db EXCEPT !.run = "running"]
       \/ /\ db.run = "paused" /\ db.step = "paused"
          /\ db' = [run |-> "running", step |-> "running",
                    item |-> [i \in Items |-> Wake(db.item[i])]]
    /\ UNCHANGED <<batch, worker>>

CancelledRow(x) ==
    LET y == IF x.attempt \in {"running", "result_received", "repair_pending"} \cup Parked
             THEN Lose(x, "cancelled") ELSE CloseCall(x)
    IN IF x.status \in {"succeeded", "cancelled"} THEN y ELSE Detach(y, "cancelled")
CancelRun ==
    /\ Event
    /\ db.run \notin {"completed", "cancelled"}
    /\ db' = [run |-> "cancelled",
              step |-> IF db.step = "completed" THEN db.step ELSE "cancelled",
              item |-> [i \in Items |-> CancelledRow(db.item[i])]]
    /\ UNCHANGED <<batch, worker>>

FailedItems(d) == {i \in Items : d.item[i].status = "failed"}
\* A sequential batch whose failed repair left the later items pending.
Unstalled(d) ==
    LET first == CHOOSE i \in FailedItems(d) : \A j \in FailedItems(d) : i <= j
    IN IF /\ batch = "sequential" /\ d.run = "running" /\ d.step = "running"
          /\ FailedItems(d) # {}
          /\ \A i \in Items : d.item[i].status # "running"
       THEN FailStep([d EXCEPT !.item = [i \in Items |->
                IF d.item[i].status = "pending"
                THEN [d.item[i] EXCEPT !.status = "failed", !.again = d.item[first].again]
                ELSE d.item[i]]])
       ELSE d
\* failedStepExecutionReplayRisk looks at all the attempts of the item.
Repeats(x) == Risk(x) \/ x.before
\* RetryFailedStep
Retry ==
    LET d == Unstalled(db)
    IN /\ Event
       /\ d.run = "failed" /\ d.step = "failed" /\ FailedItems(d) # {}
       /\ \A i \in FailedItems(d) : d.item[i].again /\ ~Repeats(d.item[i])
       /\ db' = [run |-> "running", step |-> "running", item |-> [i \in Items |->
                    IF i \in FailedItems(d)
                    THEN [Detach(d.item[i], "pending") EXCEPT !.again = FALSE]
                    ELSE d.item[i]]]
       /\ UNCHANGED <<batch, worker>>

\* ResolveAgentToolApproval
Decide(i) ==
    /\ db.item[i].call = "pending_approval"
    /\ \E decision \in {"approved", "rejected"} :
           db' = [db EXCEPT !.item[i].call = decision]
    /\ UNCHANGED <<batch, worker, events>>

\* ResolveApproval: the user accepts what the step has made; a paused run may
\* go on this way.
Approve ==
    /\ db.step = "waiting_approval" /\ db.run \in {"waiting_approval", "paused"}
    /\ db' = [db EXCEPT !.run = "completed", !.step = "completed"]
    /\ UNCHANGED <<batch, worker, events>>

-----------------------------------------------------------------------------
(* Workers.                                                                *)

Go(w, pc) == [worker EXCEPT ![w].pc = pc, ![w].age = 0]
Rest(w)   == [worker EXCEPT ![w] = Idle]
Mine(w)   == db.item[worker[w].item]

\* The Store takes w for the holder of its item, by w's request's clock.
Holds(w) ==
    LET x == Mine(w)
    IN /\ x.token = worker[w].token /\ x.current /\ x.status = "running"
       /\ x.attempt = "running" /\ Going(db)
       /\ x.lease + worker[w].age > 0
Serves(w) == worker[w].pc = "working" /\ Holds(w)

\* run_once: ask for an item.
Poll(w) ==
    /\ worker[w].pc = "idle"
    /\ worker' = Go(w, "claiming")
    /\ UNCHANGED <<db, batch, events>>

\* What a claim may hand out: results that were received and not committed and
\* rejected ones to repair, saved runs, and items not begun.
Results(d, age) ==
    {i \in Items : LET x == d.item[i]
                   IN /\ x.current
                      /\ \/ x.attempt = "repair_pending" /\ x.status = "repair_pending"
                         \/ /\ x.attempt = "result_received"
                            /\ x.status = "paused" \/ (x.status = "running" /\ x.lease + age <= 0)}
Resumable(d) ==
    {i \in Items : LET x == d.item[i]
                   IN x.current /\ x.attempt \in Parked /\ x.status = x.attempt
                      /\ x.call # "pending_approval"}
Fresh(d) ==
    {i \in Items :
        /\ d.item[i].status = "pending" /\ ~d.item[i].current
        /\ batch = "sequential" => \A j \in 1 .. (i - 1) : d.item[j].status = "succeeded"}

\* The bound leaves room for another grant.
Room(d, S) == {i \in S : MapThenSumSet(LAMBDA j : d.item[j].grant, Items) < MaxGrants}
Give(w, d, i, x, pc) ==
    /\ db' = Put(d, i, [x EXCEPT !.status = "running", !.grant = @ + 1, !.token = x.grant + 1,
                                 !.lease = Lease - worker[w].age])
    /\ worker' = [worker EXCEPT ![w] = [Idle EXCEPT !.pc = pc, !.item = i,
                                                    !.token = x.grant + 1]]
\* claimExecutionResultTx: a received result goes on to be committed; a
\* rejected one is repaired without tools.
TakeResult(w, d) ==
    \E i \in Room(d, Results(d, worker[w].age)) :
        LET x == d.item[i]
        IN IF x.attempt = "result_received" THEN Give(w, d, i, x, "received")
           ELSE Give(w, d, i, [x EXCEPT !.attempt = "running", !.repair = "claimed",
                                        !.claims = @ + 1, !.saved = "none", !.out = "none",
                                        !.grace = 0], "working")
\* claimExecutionResumeTx: the run goes on from the SDK's checkpoint, unless an
\* approval it was saved with is no longer what it was.
TakeCheckpoint(w, d) ==
    \E i \in Room(d, Resumable(d)) :
        LET x == d.item[i]
        IN IF x.saved = "asking" => x.call \in {"approved", "rejected"}
           THEN Give(w, d, i, [x EXCEPT !.attempt = "running"], "working")
           ELSE /\ db' = FailStep(Put(d, i, Lose(Detach(x, "failed"), "failed")))
                /\ worker' = Rest(w)
\* A new attempt starts from nothing.
Begin(x) == [NewRow EXCEPT !.current = TRUE, !.attempt = "running", !.no = x.no + 1,
                           !.grant = x.grant, !.before = x.before \/ x.acted \/ x.saved # "none"]
TakeFresh(w, d) ==
    LET i == CHOOSE j \in Room(d, Fresh(d)) : \A k \in Room(d, Fresh(d)) : j <= k
    IN Give(w, d, i, Begin(d.item[i]), "working")

\* ClaimExecutionTask: first what expired and what is to be paused, then
\* results, checkpoints and new items, in this order.
ServeClaim(w) ==
    /\ worker[w].pc = "claiming"
    /\ LET d == Converge(Requeue(db, worker[w].age), worker[w].age)
           goes == d.run = "running" /\ d.step = "running"
           results == Room(d, Results(d, worker[w].age))
       IN IF goes /\ results # {} THEN TakeResult(w, d)
          ELSE IF goes /\ Room(d, Resumable(d)) # {} THEN TakeCheckpoint(w, d)
          ELSE IF goes /\ Room(d, Fresh(d)) # {} THEN TakeFresh(w, d)
          ELSE db' = d /\ worker' = Rest(w)
    /\ UNCHANGED <<batch, events>>

\* The heartbeat, while the worker works and submits: a refusal stops it.
Beat(w) ==
    /\ worker[w].pc \in {"working", "submitting"}
    /\ LET x == Mine(w)
       IN IF /\ x.token = worker[w].token /\ x.current /\ x.status = "running"
             /\ x.attempt = "running" /\ Going(db) /\ x.lease > 0
          THEN db' = [db EXCEPT !.item[worker[w].item].lease = Lease] /\ UNCHANGED worker
          ELSE worker' = Rest(w) /\ UNCHANGED db
    /\ UNCHANGED <<batch, events>>

\* The model calls the tool, which runs at once or asks the user first; a
\* repair may call none.
BeginCall(w) ==
    /\ Serves(w) /\ worker[w].item \in Tooled
    /\ Mine(w).call = "none" /\ Mine(w).repair # "claimed"
    /\ \/ /\ db' = [db EXCEPT !.item[worker[w].item].call = "pending_approval"]
          /\ worker' = [worker EXCEPT ![w].asked = TRUE]
       \/ /\ db' = [db EXCEPT !.item[worker[w].item].call = "running",
                              !.item[worker[w].item].acted = TRUE]
          /\ UNCHANGED worker
    /\ UNCHANGED <<batch, events>>
\* A resumed worker runs what was approved.
StartCall(w) ==
    /\ Serves(w) /\ ~worker[w].asked
    /\ Mine(w).call = "approved" /\ Mine(w).repair # "claimed"
    /\ db' = [db EXCEPT !.item[worker[w].item].call = "running",
                        !.item[worker[w].item].acted = TRUE]
    /\ UNCHANGED <<batch, worker, events>>
EndCall(w) ==
    /\ Serves(w) /\ Mine(w).call = "running" /\ Mine(w).repair # "claimed"
    /\ db' = [db EXCEPT !.item[worker[w].item].call = "completed"]
    /\ UNCHANGED <<batch, worker, events>>

\* The model's turn is over: no tool it started is still to end.
TurnOver(w) ==
    Holds(w) => /\ Mine(w).call # "running"
                /\ Mine(w).call = "approved" => worker[w].asked

\* PauseExecutionForApproval: the run stops at an approval, at a pause or at an
\* input of the user's, or at a model failure it can go on from, which asks for
\* a pause itself.
Park(w, kind) ==
    /\ Serves(w) /\ TurnOver(w)
    /\ kind = "approval" => worker[w].asked
    /\ kind = "recovery" => Mine(w).call \in {"none", "rejected", "completed"}
    /\ LET i == worker[w].item
           s == IF kind = "approval" THEN "waiting_approval" ELSE "paused"
           d == Put(db, i, [Mine(w) EXCEPT
                    !.status = s, !.attempt = s, !.lease = 0,
                    !.saved = IF worker[w].asked THEN "asking" ELSE "plain"])
       IN db' = PauseIfDone(IF kind = "recovery" THEN [d EXCEPT !.run = "pausing"] ELSE d)
    /\ worker' = Rest(w)
    /\ UNCHANGED <<batch, events>>

Submit(w) ==
    /\ worker[w].pc = "working" /\ ~worker[w].asked /\ TurnOver(w)
    /\ worker' = Go(w, "submitting")
    /\ UNCHANGED <<db, batch, events>>

Receive(x) == [x EXCEPT !.attempt = "result_received",
                        !.repair = IF @ = "claimed" THEN "closed" ELSE @]
\* SubmitExecutionResult: the Store keeps the response, whatever becomes of its
\* worker.
ServeSubmit(w) ==
    /\ worker[w].pc = "submitting"
    /\ IF Holds(w)
       THEN \E out \in {"good", "bad"} :
                /\ db' = Put(db, worker[w].item,
                             [Receive(Mine(w)) EXCEPT !.out = out,
                                                      !.grace = Grace - worker[w].age])
                /\ worker' = Go(w, "received")
       ELSE worker' = Rest(w) /\ UNCHANGED db
    /\ UNCHANGED <<batch, events>>

\* The result w received is still its to commit, its lease notwithstanding.
Keeps_AnyToken(w) ==
    LET x == Mine(w) IN x.attempt = "result_received" /\ x.current /\ x.status = "running" /\ Going(db)
Keeps(w) ==
    LET x == Mine(w)
    IN /\ x.token = worker[w].token /\ x.attempt = "result_received"
       /\ x.current /\ x.status = "running" /\ Going(db)

AfterCommit_AllSettled(d) ==
    CASE \A i \in Items : d.item[i].status \in {"succeeded", "failed"} ->
             [d EXCEPT !.run = "waiting_approval", !.step = "waiting_approval"]
      [] OTHER -> PauseIfDone(d)
\* The end of commitScopedBatchArtifactTx; a step of one item always ends here.
AfterCommit(d) ==
    CASE \A i \in Items : d.item[i].status = "succeeded" ->
             [d EXCEPT !.run = "waiting_approval", !.step = "waiting_approval"]
      [] \E i \in Items : d.item[i].status \notin {"succeeded", "failed"} -> PauseIfDone(d)
      [] OTHER -> Settle(d)
\* The first transaction of CommitExecutionResult: a response that does not
\* pass validation changes nothing yet.
Commit(w) ==
    /\ worker[w].pc = "received"
    /\ CASE Keeps(w) /\ Mine(w).out = "good" ->
              /\ db' = AfterCommit(Put(db, worker[w].item,
                           [Mine(w) EXCEPT !.attempt = "succeeded", !.status = "succeeded",
                                           !.lease = 0, !.grace = 0,
                                           !.by = worker[w].token]))
              /\ worker' = Rest(w)
         [] Keeps(w) /\ Mine(w).out = "bad" -> worker' = Go(w, "rejected") /\ UNCHANGED db
         [] OTHER -> worker' = Rest(w) /\ UNCHANGED db
    /\ UNCHANGED <<batch, events>>

\* Its second transaction, queueExecutionResultRepair: the first rejection is
\* to be repaired, the second is the last.
QueueRepair(w) ==
    /\ worker[w].pc = "rejected"
    /\ LET i == worker[w].item  x == Mine(w)
       IN db' = IF ~Keeps(w) THEN db
                ELSE IF x.repair = "none"
                THEN PauseIfDone(Put(db, i, [x EXCEPT !.repair = "queued", !.lease = 0,
                        !.grace = 0, !.attempt = "repair_pending", !.status = "repair_pending"]))
                ELSE AfterFailure(Put(db, i, Unrepairable(x)))
    /\ worker' = Rest(w)
    /\ UNCHANGED <<batch, events>>

\* The model or a tool fails.
Break(w) ==
    /\ worker[w].pc = "working"
    /\ worker' = Go(w, "failing")
    /\ UNCHANGED <<db, batch, events>>

\* What follows a failed item of a sequential batch is not begun.
FailLater(d, again) ==
    IF batch # "sequential" THEN d
    ELSE [d EXCEPT !.item = [i \in Items |->
             IF d.item[i].status = "pending"
             THEN [d.item[i] EXCEPT !.status = "failed", !.again = again] ELSE d.item[i]]]
\* FailExecutionAttempt, with an error code that may be retried or not.
ServeFail(w) ==
    /\ worker[w].pc = "failing"
    /\ worker' = Rest(w)
    /\ IF Holds(w)
       THEN \E again \in BOOLEAN :
            LET i == worker[w].item
                x == Lose(Mine(w), "failed")
                retry == again /\ Mine(w).no <= AutomaticAttempts /\ ~Risk(Mine(w))
            IN db' = IF retry THEN PauseIfDone(Put(db, i, Detach(x, "pending")))
                     ELSE AfterFailure(FailLater(
                              Put(db, i, [Detach(x, "failed") EXCEPT !.again = again]), again))
       ELSE UNCHANGED db
    /\ UNCHANGED <<batch, events>>

\* The worker stops, with the request it may be waiting for.
Crash(w) ==
    /\ worker[w].pc # "idle"
    /\ worker' = Rest(w)
    /\ UNCHANGED <<db, batch, events>>

\* Time passes, for the leases and for the requests that wait.
Waits(w) == worker[w].pc \in {"claiming", "submitting", "failing"}
Tick ==
    /\ \A w \in Worker : Waits(w) => worker[w].age < MaxWait
    /\ worker' = [w \in Worker |-> IF Waits(w) THEN [worker[w] EXCEPT !.age = @ + 1]
                                   ELSE worker[w]]
    /\ db' = [db EXCEPT !.item = [i \in Items |->
           LET x == db.item[i]
           IN [x EXCEPT !.lease = IF x.attempt \in {"running", "result_received"} /\ @ > -MaxWait
                                  THEN @ - 1 ELSE @,
                        !.grace = IF x.attempt = "result_received" /\ @ > -MaxWait
                                  THEN @ - 1 ELSE @]]]
    /\ UNCHANGED <<batch, events>>

-----------------------------------------------------------------------------
User == RequestPause \/ ResumeRun \/ CancelRun \/ Retry \/ Approve \/ \E i \in Items : Decide(i)
\* What a worker does by itself, once it has an item.
Work(w) == Submit(w) \/ Break(w) \/ \E kind \in {"approval", "user", "recovery"} : Park(w, kind)
Step(w) ==
    \/ Poll(w) \/ ServeClaim(w) \/ Beat(w) \/ Work(w)
    \/ BeginCall(w) \/ StartCall(w) \/ EndCall(w)
    \/ ServeSubmit(w) \/ Commit(w) \/ QueueRepair(w) \/ ServeFail(w) \/ Crash(w)
Next == User \/ (\E w \in Worker : Step(w)) \/ Tick
Spec == Init /\ [][Next]_vars

\* Workers poll and what they do ends, for it is bounded in time; the Store
\* serves what it is asked, a worker that restarts again and again some time;
\* time passes.  Nothing is promised of the user.
Fairness ==
    /\ \A w \in Worker : /\ WF_vars(Poll(w)) /\ SF_vars(ServeClaim(w)) /\ WF_vars(Work(w))
                         /\ WF_vars(ServeSubmit(w)) /\ WF_vars(Commit(w))
                         /\ WF_vars(QueueRepair(w)) /\ WF_vars(ServeFail(w))
    /\ SF_vars(Tick)
FairSpec == Spec /\ Fairness

-----------------------------------------------------------------------------
(* Properties.                                                             *)

\* The run, its step and its items agree; commands of the user's, claims,
\* commits and failures each write several of the three tables.  A run that
\* goes on while its step does not would refuse every result.
StatusesAgree ==
    /\ db.run \in {"running", "pausing"} => db.step = "running"
    /\ db.run = "paused" => /\ db.step \in {"paused", "waiting_approval"}
                            /\ \A i \in Items : db.item[i].status # "running"
    /\ db.step \in {"waiting_approval", "completed"} =>
           \A i \in Items : db.item[i].status = "succeeded"
    /\ db.run = "failed" => db.step = "failed"
    /\ db.run = "cancelled" => \A i \in Items : db.item[i].status \in {"succeeded", "cancelled"}
                                               /\ db.item[i].call \notin Open

\* An item's status and its attempt's are two records of one fact, which every
\* command that moves the one has to move the other with.
ItemsAgree ==
    \A i \in Items : LET x == db.item[i]
        IN /\ x.attempt \in {"running", "result_received", "repair_pending"} \cup Parked =>
                  x.current
           /\ CASE x.status = "running" -> x.attempt \in {"running", "result_received"}
                [] x.status \in Parked /\ x.current -> x.attempt \in {x.status, "result_received"}
                [] x.status \in {"repair_pending", "succeeded"} -> x.attempt = x.status
                [] OTHER -> x.attempt \notin {"running", "result_received", "repair_pending"} \cup Parked

\* A response the Store has received is not thrown away to be generated again:
\* not by an expired lease, a crash or a pause; it is committed, repaired, or
\* ends with its item.
ResultKept == \A i \in Items : db.item[i].attempt \in {"expired", "abandoned"} =>
                  db.item[i].out = "none" /\ db.item[i].repair = "none"

\* A write that may have acted, or a checkpoint that was saved, is not followed
\* by another attempt from nothing: not after an expired lease, a failure or a
\* pause, nor at the user's retry.
NoWriteReplayed ==
    \A i \in Items : LET x == db.item[i]
        IN /\ ~x.before
           /\ x.status = "pending" \/ (x.status = "paused" /\ ~x.current) =>
                  ~x.acted /\ x.saved = "none"

\* A running run is with a worker, can be given to one or waits for its user.
\* The exception is a sequential batch one of whose repairs has failed: what
\* follows is not offered, and the run goes on only when the user retries.
NeverStalls ==
    db.run = "running" =>
        \/ Results(db, MaxWait) \cup Resumable(db) \cup Fresh(db) # {}
        \/ \E i \in Items : \/ db.item[i].status = "running"
                            \/ db.item[i].call = "pending_approval"
        \/ batch = "sequential" /\ FailedItems(db) # {}

\* An item as the abstract specification sees it.
Phase(i) ==
    IF i \notin Items THEN "absent"
    ELSE CASE db.item[i].status = "running" -> "held"
           [] db.item[i].status = "succeeded" -> "answered"
           [] db.item[i].status \in {"failed", "cancelled"} -> "closed"
           [] OTHER -> "open"
LW == INSTANCE LeasedWork
            WITH state <- [i \in Item |-> Phase(i)],
                 grant <- [i \in Item |-> IF i \in Items THEN db.item[i].grant ELSE 0],
                 answers <- [i \in Item |-> IF i \in Items /\ db.item[i].by # 0
                                            THEN {db.item[i].by} ELSE {}]
\* An item is given to one worker at a time and committed at most once, by the
\* worker that was given it last: a result that comes after its lease is over
\* is committed only if nobody else was given the item.
GivenAndAnswered == LW!Spec

\* A pause the user asks for takes effect: no worker, alive or lost, keeps the
\* run "pausing" forever.
PauseConverges == db.run = "pausing" ~> db.run # "pausing"
=============================================================================
