# Verification of Arron's Agent runtime

TLA+ models of the parts of Arron that decide what happens to a user's message,
to the background work and the workflow runs it starts, and to the files this
work keeps; the TLC configurations that check them on small instances; and TLAPS
proofs of the results that matter most for every size of the system.

Paths below are relative to `src/`. `R/` is `backend/internal/runtime/`, `H/` is
`backend/internal/httpapi/`, `S/` is
`experiments/openai-agents-sidecar/src/content_agent_sidecar/`, `X/` is
`backend/internal/scriptsandbox/`.

1. [The system](#1-the-system)
2. [Modules](#2-modules)
3. [How the models correspond to the code](#3-how-the-models-correspond-to-the-code)
4. [Properties and runs](#4-properties-and-runs)
5. [Fairness](#5-fairness)
6. [Proofs](#6-proofs)
7. [Where code and documents disagree](#7-where-code-and-documents-disagree)
8. [What is not modelled](#8-what-is-not-modelled)
9. [Plan](#9-plan)

## 1. The system

Arron is a platform on which a user and an Agent produce content (novels turned
into scripts and the like). A Go process, the *Runtime*, owns every fact: it
serves the HTTP API, keeps the Store (SQLite, one connection) and runs the
background managers. A Python *sidecar* hosts the OpenAI Agents SDK: it holds no
durable state, streams events to the Runtime and calls back over HTTP to register
tool calls and to commit replies. A React frontend shows the state and the event
stream.

Two rules of the Runtime shape every model here.

- A command of the Store is one transaction, and there is one connection
  (`R/store.go`, `SetMaxOpenConns(1)`), so a command is atomic and commands are
  totally ordered. What is *not* atomic is whatever a Go function does between
  two commands, and what it read before `BeginTx` waited for the connection.
- The sidecar's runs outlive the streams that started them, for a while
  (`asyncio.shield`), and the Runtime's restart; they are believed only as far as
  the Store's guards allow.

### Inventory

| Component | State | Operations | What is hard | What makes it correct |
|---|---|---|---|---|
| **Agent turn store** `R/agent_turn*.go`, `R/model_recovery.go` | a row per message: status, time of creation, dispatch generation, input pause; checkpoint of a parked run; added inputs with claimed and included marks; exchanges | accept (queued, direct), claim, begin/complete/fail commit, cancel, pause, resume, save checkpoint, append input, include inputs, recover after restart | stamps are read before the transaction; a commit is three transactions; checkpoints arrive after the statuses they were made for; restarts | one turn of a conversation executes; terminal states are final; committing is the point of no return; parked turns can be resumed; a pause stands; receipts agree with what was read |
| **Agent turn manager** `H/agent_turn_manager.go`, `H/voice_execution.go`, `backend/internal/shell/sidecar_agent.go` | semaphore, `dispatchMu`, the map of active workers with their contexts | dispatch on a ticker, direct dispatch, worker from registration to release, cancel signal, shutdown | status is read in one transaction and acted on in another; a cancel may find no worker; direct dispatch competes with the queue | one worker per turn; places are given back; a runnable turn is claimed once direct ones let it; a cancellation ends |
| **Turn HTTP handlers** `H/runtime_handlers.go` | requests in flight | submit, cancel, internal commit | order of transactions within a request; lost connections | the reply of a turn is never stored behind a cancellation |
| **Tool calls and approvals** `R/agent_tool.go` | a row per call, a row per approval | begin, start, complete, fail, cancel, resolve | the last approval may be given while the run is live, while the checkpoint is stored, or later; tools run in parallel with the commit | no wake-up lost; ended turns leave nothing to decide |
| **Sidecar execution stream** `S/runtime.py`, `S/app.py`, `S/main_inputs.py`, `S/turn_admission.py` | a run per turn: pause signal, calls asked for, inputs read, committed flag | start, pause, tool calls, model inputs, commit, final event | the run and its stream end apart; a run may act for a turn that went on without it | a parked turn is touched by no run that left it |
| **Queue timestamps** `formatTime` in `R/project.go` | `created_at` as text | format, compare | text of varying width | text order is time order (it is not: section 7) |
| **Background Agent tasks** `R/agent_task*.go`, `H/agent_task_handlers.go`, `S/background_worker.py` | task, attempts with lease and token, checkpoint, inputs; what each worker works at and has asked for | start, claim with expiry and requeue, heartbeat, complete, fail, park at an approval or a pause, append input, decide, resume, retry, cancel, delete the project | answers after the lease expired; requests given up and served all the same; requeue of work that may have written; a checkpoint that can no longer be read | one attempt owns a task; a possible write is never repeated silently; every task ends or waits for its user |
| **Workflow execution attempts** `R/executor*.go`, `R/execution_*.go`, `S/task_worker.py` | attempt of a task item: lease, result, repair, checkpoint, tool call | claim, heartbeat, call, park, submit a result, commit it, repair it, fail, expire | heartbeat, result and expiry race; the lease is judged by a time read before the transaction; a result is received by one transaction, committed by a second, rejected by a third | an item is given to one worker at a time and committed once; a received result is not thrown away |
| **Runs and workflow progression** `R/run*.go`, `R/workflow_*.go`, `R/retry.go` | run, step, items | start, pause at a safe boundary, resume, cancel, retry, step transition | the boundary is reached attempt by attempt while the run is resumed, fails or is cancelled | run, step and items agree; a pausing run pauses; a running run is not stuck |
| Batch execution `R/batch_execution.go`, `R/episode_execution.go` | ranges, batch checkpoints | split, merge | boundaries of ranges, repaired batches | ranges cover the source, without gap or overlap |
| Artifacts, approvals, candidates `R/artifact*.go`, `R/approval*.go`, `R/candidate.go` | versions, approvals of a version, final selection | commit, approve, reject, regenerate, preview, confirm | a decision on a version that was superseded; a preview that is stale when confirmed | decisions bind to the version they saw |
| Impact review and regeneration `R/impact_resolution.go`, `R/targeted_regeneration.go` | impacts of a changed artifact | resolve, regenerate | impacts resolved while the artifact changes again | no impact is lost |
| Command idempotency `R/idempotency.go` | a record per key | begin, finish | repeated commands | one effect per key |
| Project and workspace deletion `R/project_delete.go`, `R/workspace_delete.go` | deletion marks | delete | ends turns, tasks and runs at once, committing turns included | nothing works for a deleted project |
| **Native workspaces** `R/native_workspace*.go`, `X/workspace*.go`, `S/native_session.py` | the lease of an execution's workspace, its environment, receipts of commands and restorations, snapshots; the engine's container | reserve, ensure, command, change a file, export, save, restore, shut down, sweep | a call is two transactions with the engine between them; leases change hands, the process dies, the engine acts without an answer | no container is forgotten, no effect had twice, nothing confirmed is lost from a snapshot |
| Agent memory `R/agent_memory*.go` | memories, generations, publications | extract, publish, forget | publication of forgotten material | nothing forgotten is published |
| Project event stream `R/event.go`, `H/event_stream.go` | append-only events | append, replay | replay while events arrive | no gap, no repetition |
| Identity, skills, capabilities, assets, script sandbox, frontend, `novel2script_agent_project`, documents | | | guards, data conversion, isolation, view | not state machines worth checking |

### How a turn travels

`POST` accepts a message as a turn in `accepted`. The manager claims the oldest
runnable turn of each idle conversation, gives it a worker and a new *generation*;
the worker opens a stream to the sidecar. The run asks for tool calls, reads
inputs, and either commits its reply (`committing`, `committed`), or stops with a
checkpoint and parks the turn (`waiting_approval`, `paused`, or `accepted` again
when there is nothing to wait for). The user pauses, resumes, adds inputs,
decides on approvals and cancels at any time; the process may die at any time.

    absent -> accepted -> running -> committing -> committed | failed
                 ^           |  \
                 |           |   +-> pausing -> paused
                 |           +-----> waiting_approval
                 +-- resume, last approval, input pause
    parked -> cancelled;  running, pausing -> cancel_requested -> cancelled | failed

### How background work travels

A confirmed action creates a *task* in `queued`; a started workflow creates a
*run* whose current *step* has one or several *items*. Workers of the sidecar poll
for both. A claim first requeues or fails what expired, then gives out a lease
under a new token. The worker renews its lease with heartbeats while the model
works, and ends with a result, a failure, or a checkpoint: at a tool that needs
an approval, at the user's pause, or at a failure of the model it can go on from.
A worker that stops is noticed by its lease alone. What may have acted (a write
was started, a checkpoint saved) is never begun again from nothing.

    task:  queued -> running -> completed | failed       item: pending -> running -> succeeded | failed
             ^         |  \                                      ^          |  \
             |         |   +-> pausing -> paused                 |          |   +-> repair_pending
             +---------+-----> waiting_approval                  +----------+-----> paused, waiting_approval

An execution may use a *native workspace*: a container that the engine (Podman or
Docker) keeps alive between the calls, with its files exported as snapshots and
restored from them.

## 2. Modules

| Module | What it is |
|---|---|
| `AgentTurn` | Store, manager, handlers, tool calls and sidecar runs of the turns, composed; its properties |
| `ConversationQueue` | The abstract specification: what the platform promises of a conversation's turns, in three variables |
| `Timestamps` | `formatTime` and the order SQLite gives to its text |
| `AgentTask` | Background tasks: Store, users, workers and the requests between them |
| `WorkflowRun` | A workflow's run, its step and the step's items, with users and workers |
| `LeasedWork` | The abstract specification of work given out under leases; `AgentTask` and `WorkflowRun` both implement it |
| `NativeWorkspace` | The native workspace of one execution: lease, environment, receipts, snapshots, janitor, engine |
| `WorkspaceFiles` | The abstract specification: what the platform promises of the files of one execution |
| `MCAgentTurn`, `MCAgentTask`, `MCWorkflowRun`, `MCNativeWorkspace` | The definitions TLC needs to instantiate them; one `.cfg` per question |
| `AgentTurnProofs`, `AgentTurnSafety` | Type correctness; exclusion, the safety of stored replies, finality, `AgentTurn => ConversationQueue`, and the invariant of workers, runs, receipts, pauses and decisions |
| `AgentTaskProofs`, `AgentTaskSafety` | The definition of the inductive invariant and type correctness of each step; its induction, what follows from it, `AgentTask => LeasedWork`, and the invariant of the approvals |
| `WorkflowRunProofs`, `WorkflowRunSafety` | The inductive invariant, and what each operator of the model makes of a row and of the tables; its induction, what follows from it, and `WorkflowRun => LeasedWork` |
| `NativeWorkspaceProofs`, `NativeWorkspaceSafety` | What calls, rows and the engine know of each other, type correctness and the accounting of containers; the files, their receipts, and `NativeWorkspace => WorkspaceFiles` |

Each model also holds the mutated definitions `Name_Bug` that test its
properties.

The Store, the manager and the sidecar are one module because nearly every action
is shared: a worker's step is a command of the Store, a run's step is an HTTP
request answered by one. Splitting them would cut the interleavings the model is
for. Each module is divided by actor instead. The three machines meet only in
tables none of them shares (a task does not run in a turn, a workspace is used by
whoever holds its lease), so they are not composed any further; what `LeasedWork`
says of tasks and items is what the rest of the platform may rely on.

## 3. How the models correspond to the code

### AgentTurn

`PROJECT.json` maps each definition to its lines. In outline:

| Variable | Code |
|---|---|
| `status`, `stamp`, `generation`, `inputPause` | columns of `agent_turns`; `absent` is no row; `stamp` is `created_at` |
| `inputs[t]` | `agent_turn_inputs`: how many were received, given to a dispatch, and receipted as included; the inputs of a turn are a sequence, so a prefix is its length |
| `checkpoint[t]` | `agent_turn_run_states`: present or not, the calls it names, the inputs its run had read |
| `call`, `approval` | `agent_tool_calls.status`, `agent_tool_approvals.status` |
| `exchange` | turns whose user and assistant messages are stored |
| `submission` | a submit request between reading the clock and its transaction |
| `worker[k]` | a place of the semaphore: the goroutine in it, by what it does next, with what it has read |
| `cancelling` | cancel requests between their transaction and their signal |
| `commit[t]` | the internal commit request, by its last transaction |
| `serving` | the manager's context is not cancelled |
| `run[t]` | the sidecar's run of the turn |
| `unread`, `held` | history variables, read by properties only: an input arrived that no dispatch or resumption has followed; the user paused and has not resumed |

Submission is `Stamp` then `Admit` (`acceptAgentTurn` reads its clock before
`BeginTx`), or `Reserve` then `AdmitDirect` (a voice session, which starts its own
turn and may not queue). `Claim` is `ClaimRunnableAgentTurns`: one transaction for
as many turns as there are places. A worker goes through

    claimed - registered - ready - streaming - event - ended - cancelling | failing

`claimed` is the interval between the claim and the registration of the worker's
context, in which a cancel signal finds nobody. `streaming` ends with a final
event (`RunEnds`), a lost stream (`StreamBreaks`), or a refused receipt.
`PersistEvent` is `persistEvent`; `FinishRead` and `FinishWrite` are the two
transactions of `finishExecution`, as `Check` and `FinishWrite` are of the earlier
exits. `PrepareFails` and `ContextFails` are the two kinds of errors before the
stream: one fails the turn at once, the other looks for a cancellation first.

The commit is `SendCommit`, then `BeginCommit`, `SaveExchange`, `CompleteCommit`
(one action per transaction), with `SaveFails` for an error of the middle one and
`CommitLost` for a request that stops between any two. `Shutdown` ends the
manager's context; `Restart` is a crash at any point followed by
`RecoverInterruptedAgentTurns`. The sidecar is another process, so `Restart` leaves
`run` alone.

Abstractions, and why they lose nothing the properties see: messages, replies and
tool arguments have no content; a turn's number stands for its id in the tie-break
of the queue; a clock reading is the last one or the next; a run asks for any
modelled call at any time its guards allow, which includes every choice of the
model; polling loops are actions enabled whenever the poll would see something.
The model's own decisions are otherwise nondeterministic.

Bounds of the model, all in guards: `MaxClock` (readings of the clock),
`MaxGeneration` (a run of the last generation does not park its turn, so it is not
dispatched again), `MaxInputs`. They limit what TLC explores; the proofs hold for
every value of them.

### AgentTask

| Variable | Code |
|---|---|
| `status`, `attempts`, `limit`, `inputPause` | columns of `agent_tasks`; `limit` is `max_attempts` |
| `attempt[t][n]` | `agent_task_attempts`: status, whose token, the time its lease has left |
| `checkpoint[t]` | `agent_task_run_states`: saved or not, by which attempt, the calls it names, whether it can still be read |
| `granted`, `results` | the tokens given out for a task, and those a result was stored under |
| `call`, `caller`, `started` | `agent_tool_calls` and `agent_task_tool_calls`; `started` is `started_at` not null |
| `deleted` | the project's deletion |
| `requests` | requests of workers that the Store has received and not served, with the time since it read the clock for them |
| `worker[w]` | what the sidecar's worker remembers: its claim, the approvals it asked for, whether a heartbeat showed it a pause |
| `unread`, `held`, `saved`, `retried` | history variables, read by properties only |

A worker's command is two steps: it is sent (`Poll`, `Beat`, `Finish`, `Park`,
`Report`) and served (`ServeClaim`, `ServeProgress`, `ServeComplete`, `ServePark`,
`ServeFail`), because the handlers of the Store read `s.now()` before `BeginTx`
waits for the connection, and because the worker may give the request up (`GiveUp`,
`Crash`) while it waits: such a request is from `"gone"`, and is served all the same.
`ServeClaim` is the whole of `ClaimAgentTask`: what expired is requeued or failed
(`StatusThen`, `AttemptThen`, `CheckpointThen`), then a queued task is begun
(`TakeFresh`), continued from its checkpoint (`TakeSaved`) or failed because its
checkpoint is not whole (`TakeCorrupt`), or there is none (`NoTask`).

Time counts down: a lease is the time it has left, a request's age the time since
its clock was read, so `LeaseUntil.After(now)` reads `lease + age > 0`. A lease
that has been over for longer than any request waits stays as it is.

Bounds, in guards: `MaxEvents` (commands of users, lost answers, crashes and
damaged checkpoints together), `MaxWait` (the ticks a request waits; time does not
pass while one has waited that long).

### WorkflowRun

| Variable | Code |
|---|---|
| `db.run`, `db.step` | `runs.status`, `step_runs.status` of the step the run is at |
| `db.item[i]` | the item's row of `task_items` with the last of its `execution_attempts`: statuses, whether the item points to the attempt, grants, lease, the grace of a received result, the repair of a rejected one, checkpoint, tool call |
| `batch` | how the step is executed: one item, a sequential or a parallel batch |
| `worker[w]` | the sidecar's task worker: what it does, for which item, under which token, and the age of the request it waits for |

The rows are one record because the operators of the Store compose: a claim is
`Converge(Requeue(db, age), age)` (`requeueExpiredAttempts`,
`convergePausingRunsTx`) followed by the choice of an item; commits and failures end
in `AfterCommit`, `AfterFailure`, `Settle` and `PauseIfDone`, which the code calls in
the same transaction. The commit of a result is three transactions and as many
actions: `ServeSubmit` receives it, `Commit` stores its artifact if it is valid,
`QueueRepair` records the rejection. A worker whose request waits is a `pc` with an
`age`; a claim, a result and a failure read the clock before they wait, the others
after.

The model starts where `ResumeRun` has planned the step's items. The step is the
last of its workflow, so its approval completes the run. Of an item's attempts the
last is kept, with one tool call whose tool writes; `before` remembers that an
earlier one may have acted.

Bounds: `MaxGrants` (how often items are given out; it only stops the giving),
`MaxEvents` (commands of the user), `MaxWait`.

### NativeWorkspace

| Variable | Code |
|---|---|
| `lease` | `native_workspace_leases`: status, generation, and whether its holder is the execution as it was last dispatched, as it was before, or out of time |
| `env` | the last row of `native_workspace_environments`; `handle` says that the container's id was recorded, `op` is `operation_id` |
| `command[c]`, `restore[r]` | `native_workspace_commands` and the restorations: receipts |
| `saved` | `native_workspace_snapshots`, by version |
| `container[e]`, `files[e]` | what the engine has; a `pending` container may still be created |
| `work[h]` | a call of `NativeWorkspaceManager` between its transactions |
| `janitor` | the loop that removes abandoned environments |
| `copy[h]` | an archive a call has exported for its client |
| `acted[c]` | history: how often an effect was had |

A call is `begin` (`Create`, `Connect`, `Command`, `Export`, `Restore`, `Shutdown`:
one transaction that claims the environment), a call of the engine outside of any
transaction (`Created`, `Execute`, `Hydrate`, ...), and `finish` (`Finish`, or
`Superseded` when the rows have changed or the transaction fails). The engine may
fail with or without effect, may create late (`Materialize`) and its answer may be
lost; the two kinds of errors it vouches for, `preserved` and `terminated`, are
what `finish` tells apart from the rest. `Crash` forgets the memory of the process
and leaves rows, containers and clients as they were.

A refused call changes nothing and is no step, nor is one that is answered from a
receipt, nor the renewal of a live lease (which only puts `LeaseLapses` off).
Generated operation ids are named for the handler that made them and renamed
`"lost"` when it is gone, which no later id can equal either. Two effects of the
engine after a crash are not distinguished from none: they fall into an
environment that was blocked or is being closed, whose files nobody reads. A part
of a snapshot written before a failed restoration is taken for the whole.
`operation_until` only delays the janitor and is left out.

Bounds: `MaxGeneration` (lease holders), `MaxEnvironment`, `MaxVersion`.

## 4. Properties and runs

| Run | Instance | Properties | Distinct states |
|---|---|---|---|
| `queue` | 2 turns of a conversation, 2 places | `OneExecuting`, `ImplementsQueue` | 485 000 |
| `approvals` | 1 turn, 2 calls with approval and one without, 2 dispatches, 1 input | `WaitsForDecision`, `Resumable`, `EndedHoldsNothing`, `ExchangeNotCancelled` | 1 870 000 |
| `inputs` | 1 turn, 1 approval, 2 places, 3 dispatches, 2 inputs | `TypeOK`, `RunOwnsTurn`, `OneWorkerPerTurn`, `OldApprovalsHeld`, `ManualPauseHolds`, `ReceiptsAreRead`, `PointOfNoReturn` | 387 000 |
| `progress` | a queued and a direct turn, 1 place, `FairSpec` | `EndingsEnd`, `RunnableIsClaimed` | 180 000 |
| `task` | `AgentTask`: 1 task, 1 worker and what it gave up, a writing call with approval, 2 events | `TypeOK`, `OneOwner`, `WritesOnce`, `NoSilentRestart`, `ManualPauseHolds`, `OldApprovalsHeld`, `NoLostWakeup`, `EndedHoldsNothing`, `OnlyOwnerActs`, `GivenAndAnswered` | 1 640 000 |
| `task_progress` | the same with a reading call and 1 event, `FairSpec` | `TaskSettles`, `InputIsGiven` | 206 000 |
| `workflow` | `WorkflowRun`: 1 item, a sequential and a parallel batch of 2, 2 workers, 3 grants | `TypeOK`, `StatusesAgree`, `ItemsAgree`, `ResultKept`, `NoWriteReplayed`, `NeverStalls`, `GivenAndAnswered` | 614 000 |
| `pause` | 1 item and a sequential batch of 2, 2 workers, 2 commands, `FairSpec` | `PauseConverges` | 132 000 |
| `workspace` | `NativeWorkspace`: 2 calls at once, an effect, a restoration, 2 environments, 2 versions | `TypeOK`, `ContainersAccounted`, `ReceiptsAreTrue`, `KeepsFiles` | 1 950 000 |
| `cancelled` | 1 turn | `CancelRequestedEndsCancelled`, violated | |
| `serial` | 2 turns, 2 clients, 2 clock readings, 2 dispatches | `SerialTurns`, violated | |
| `order` | `Timestamps`: 2 rows | `OldestSortsFirst`, violated | |

What they show.

- **`queue`.** Whatever is parked, cancelled, lost or restarted, one turn of a
  conversation executes, in its place, and is answered at most once; the model
  implements `ConversationQueue` with `phase` a function of `status`, `ticket` the
  stamp and `answered` the stored exchanges. Two turns suffice for a conflict
  between siblings and for the tie-break; two places let a turn be worked on while
  the worker of another is still leaving. Several conversations claimed in one
  transaction are covered by the proofs.
- **`approvals`.** Two approvals, decided before, while and after the checkpoint is
  stored, with an input or a pause in between: a turn that waits has something to
  wait for, a turn in the queue has not, and every parked turn can be resumed.
  Two are needed for "not the last one" to mean something. The third call needs no
  approval, so that a turn may end, in every way and with a crash between any two
  steps of its commit, with calls open: nothing is left to decide, and a stored
  reply is never behind a cancellation. A committed turn may leave a call that
  needs no approval in progress: the sidecar runs tools in parallel with the
  commit, and the property says so.
- **`inputs`.** Three dispatches, so that an input may come in one, be held in the
  next and be read in the third: approved calls are not executed behind an input
  the user has not resumed from, a manual pause stands against an input's own
  pause, and a checkpoint holds the inputs receipted. The second place lets a turn
  that was parked be claimed again while its first worker has not left: one
  worker and one run, both of the current generation. A terminal status is final,
  and committing leads only to committed or failed.
- **`task`.** A request that was given up may be served before, between or after
  those of the next holder, which is what several workers would do to one another
  through a task: one worker and the requests it left behind stand for them (the
  proofs hold for any number). Two attempts, a lease of two ticks and a wait of one
  tick let a lease run out before, while and after a request waits, and let a
  heartbeat that was served late renew a lease that seemed over to its worker (with
  one tick a late heartbeat would never matter). Only the last
  attempt of a task is live and only its newest token can change anything, its
  lease included; what may have written, or saved a checkpoint, is not begun
  again unless the user says so; decisions that race with the checkpoint wake the
  task; a task that ended holds nothing to approve; and every step is a step of
  `LeasedWork`.
- **`workflow`.** A parallel batch lets an item fail, park or be repaired while its
  sibling works; a sequential one makes items wait; three grants let one of them
  be given out twice more or each once and one again. The three tables agree;
  received results survive expired leases, pauses and crashes; nothing that may
  have acted is begun again; and a running run has a worker, something to give
  out, or a decision to wait for, with the exception named in section 7. A result
  whose lease ran out is still committed, by its worker, if nobody was given the
  item since: the property `GivenAndAnswered` says exactly this.
- **`workspace`.** Two handlers and the janitor meet at one environment; two
  generations are two holders of the lease (a third is the closing project's); two
  environments are one and its successor; two versions are what a later one could
  lose of an earlier one. The effect is a change of a file, to which everything a
  command may do can happen too. No container is forgotten, the receipts are true,
  and confirmed files are lost from no version (`WorkspaceFiles`).
- **`progress`, `task_progress`, `pause`.** Liveness, section 5. The second turn of
  `progress` is a voice session's, which may take the only place at any moment and as
  often as it likes.

Each property of a passing run has a mutant in `PROJECT.json`: a mapped definition
with a plausible bug (a dropped guard, an order without its
tie-break, a place not given back, one status too many accepted), under which the same run finds
the property violated.

Deadlock is checked in every run of `AgentTurn`, `AgentTask` and `WorkflowRun`. A
restart, a worker's poll or a tick is nearly always possible there, so it says
little: that nothing gets stuck is what the liveness runs and `NeverStalls` show.
`Timestamps` stops when its rows are full, and `NativeWorkspace` when its
generations are used up and nothing is left to clean.

## 5. Fairness

`AgentTurn` assumes weak fairness of each place's worker and of `Dispatch`.

- A worker is a goroutine, and what it waits for is bounded: the stream by
  `run_timeout_seconds`, HTTP and the database by their own. So each of its steps,
  which `StreamBreaks` always lets it take, is eventually taken.
- The manager ticks every 250 ms (and at each place given back), so a dispatcher that
  has `dispatchMu`, a place and a turn to run, and goes on having them, claims. No more
  is promised it. Go's mutex hands itself to a waiter, but the places have no queue:
  `dispatch` returns at once when none is free (`H/agent_turn_manager.go:84`), and a
  direct turn takes a place under the mutex and gives it back only after unlocking it
  (`:231`, `:261`, `:249`), for the next one to take. So direct submissions that never
  stop coming, refused ones included, can keep a queued turn waiting for ever.
  `RunnableIsClaimed` makes this exception, and shows that there is no other: a
  runnable turn of a serving process is claimed unless admissions are in flight again
  and again, so it is claimed after the last of them, however many there were, and no
  place is kept by a worker that has gone. Without the exception TLC finds the
  starvation in the `progress` instance within seconds: a direct submission, refused
  because the queued turn is unfinished, that is repeated for ever.
- Nothing is assumed of users, of approvals, of the commit request, nor of
  `CancelSignal`: `EndingsEnd` holds although the signal may find no worker,
  because the worker's next transaction sees the status or its stream ends.
- A manager dispatches as soon as it starts (`m.notify()` before its loop). A process
  restarted again and again before it gets that far dispatches nothing; weak fairness
  claims that one of them does. `EndingsEnd` does not need `Dispatch` at all: a
  restart ends what executed.

`AgentTask` assumes weak fairness of each worker's own steps (a run of the model is
cut off by `run_timeout_seconds`), of the service of each kind of request of each
sender (the connection's queue is first come, first served), and strong fairness of
the clock, which the bound on waiting requests stops again and again. Users,
heartbeats, crashes and given-up requests are promised nothing: `TaskSettles` holds
though no heartbeat ever arrives, because a lease that runs out fails or requeues
the task at the next claim, at most `limit` times. `InputIsGiven` excepts a task
its user is asked to confirm and one that ended.

`WorkflowRun` assumes the same of its workers, and strong fairness of the service of
a claim: a worker may crash while it polls, again and again, but some poll is
served. `PauseConverges` needs it, because only a claim brings a pausing run with a
lost worker to its end (`convergePausingRunsTx` runs in claims, and nowhere on a
timer). The user may resume and ask for another pause; he is bounded by `MaxEvents`
in the run, and the property promises that the pause does not last, not that it
ends as a pause.

`NativeWorkspace` states no fairness: the loop of the janitor removes what it can,
but a removal that finds the container gone is no proof of one deleted
(`R/native_workspace_environment.go:631`), and its environment stays `closing` for
ever, by design (`TestNativeEnvironmentPendingCreateSurvivesStoreRestartAndUnknownAbsence`).

## 6. Proofs

### AgentTurn

TLAPS proves, from the four assumptions `AgentTurn` states on its constants (turns
are naturals and their conversations, calls and bounds have their types) and for
every value of them:

| Theorem | Statement | Module |
|---|---|---|
| `TypeCorrect` | `Spec => []TypeOK` | `AgentTurnProofs` |
| `Exclusion` | `Spec => []OneExecuting` | `AgentTurnSafety` |
| `RepliesNotCancelled` | `Spec => []ExchangeNotCancelled` | `AgentTurnSafety` |
| `CommitIsFinal` | `Spec => PointOfNoReturn` | `AgentTurnSafety` |
| `QueueImplemented` | `Spec => ImplementsQueue` | `AgentTurnSafety` |
| `GoodAlways` | `Spec => []Good` | `AgentTurnSafety` |
| `RunOwnsTurnAlways` | `Spec => []RunOwnsTurn` | `AgentTurnSafety` |
| `OneWorkerAlways` | `Spec => []OneWorkerPerTurn` | `AgentTurnSafety` |
| `WaitsForDecisionAlways` | `Spec => []WaitsForDecision` | `AgentTurnSafety` |
| `ResumableAlways` | `Spec => []Resumable` | `AgentTurnSafety` |
| `EndedHoldsNothingAlways` | `Spec => []EndedHoldsNothing` | `AgentTurnSafety` |
| `OldApprovalsAlways` | `Spec => []OldApprovalsHeld` | `AgentTurnSafety` |
| `ManualPauseAlways` | `Spec => []ManualPauseHolds` | `AgentTurnSafety` |
| `ReceiptsAlways` | `Spec => []ReceiptsAreRead` | `AgentTurnSafety` |

**The invariant.** `OneExecuting` is not inductive. `BeginCommit` makes a turn
execute from whatever parked status it finds (`accepted` included), so a parked
turn must have no commit request; a run can send one, so a parked turn must have
no run; and that the turn is parked only after its run has ended depends on one
worker having it. `IInv` is `TypeOK` and

- `OneExecuting`;
- `Owned`: a turn with a live run or a commit in flight has begun (it executes or
  has ended);
- `OneJob`: the workers in place hold distinct turns, which exist;
- `JobsOwn`: a worker with a run to start or to follow has its turn begun; one
  about to park its turn has seen the run end and no commit is in flight; one about
  to cancel has seen the request, or the turn has ended;
- `Answered`: a commit past its first transaction has its turn committing,
  committed or failed; past its second, or with the turn committed, the reply is
  stored; and a stored reply keeps the turn from everything else.

**The argument.** Most of the model's actions start no turn, no run and no commit,
park nothing and give no worker a turn; `Undisturbed` proves once that such a step
keeps `Safe`, and each of them is shown to be of that kind. Eight actions are not,
and each has a lemma (`ClaimSafe`, `AdmitDirectSafe`, `StartRunSafe`,
`PersistEventSafe`, `SendCommitSafe`, `BeginCommitSafe`, `SaveExchangeSafe`,
`CompleteCommitSafe`). That two turns of a conversation are never claimed together
is the totality of `Older`: of two queued siblings one keeps the other waiting
(`ClaimApart`).

**The refinement.** Steps that leave every phase, the stamps and the exchanges alone
stutter (`SamePhase`); steps that end turns are `Drop` (`Dropping`), one turn or
all at once in a restart; the special actions have one lemma each, which names the
step of the queue they are (`Claim` is `Start`, `Admit` is `Enqueue`,
`PersistEvent` is `Park` when it stores a checkpoint, `SaveExchange` is `Answer` or
nothing). `EveryStep` puts them together. `CommitIsFinal` comes from the same
analysis by cases.

**The second invariant, `Good`.** `IInv` says who may act on a turn; what the rows
then hold needs more. None of the last eight properties of the table is inductive
alone, and they need one another, so they are proved together. `Good` is `IInv` and

- `Current`: runs and workers are of their turn's current dispatch, and a worker
  that has yet to ask for a run finds none. This is what makes the generation in a
  request mean something;
- `Replied`: only a committed turn is known to be committed, by the commit's
  handler, by its run and by the worker that got the final event; and a worker with
  a final event holds a turn that has begun;
- `Named`: a turn waits for calls of its own, in its run, in its worker's event and
  in its checkpoint, so that a decision on one turn's call cannot leave another's
  checkpoint behind;
- `Receipted` and `Reports`: receipts are not ahead of what was claimed; a run has
  read at least what is receipted, because it started from a checkpoint that agreed
  with the receipts, and so has the worker that will store what the run reported.
  `ReceiptsAreRead` speaks of parked turns only; between the claim and the next
  checkpoint it is these two that carry it;
- `Halted`: a user's pause is not also an input's, or a resumption by the last
  decision would take it back; an unread input is not on a turn that runs;
- `Decided`: what a turn waits for at every point of its life: a parked one for
  calls its checkpoint names and that still await their decision or have just had
  it, a queued, committing or ended one for none.

**Its argument.** `Staying`, `Runs`, `Checkpoints` and `SilentOrTelling` say of every
step at once which workers go on with what they had, which runs are new, which
checkpoints are written and which steps move inputs at all; `BegunLasts`, that only
its own worker parks a turn. Each part then has one lemma (`CurrentKept`,
`RepliedKept`, `NamedKept`, `ReceiptedKept`, `ReportsKept`, `HaltedKept`,
`DecidedKept`) with a step for the few actions that can disturb it. The hard one is
everywhere `PersistEvent`, which writes down what a run said some steps ago. Its
guards on the pending calls make the checkpoint name what is still undecided, and a
turn whose last decision has come in between go back to the queue (`Decided`); a turn
told to pause stays `paused` unless an input alone asked for it and no call is left to
be decided (`Halted`); and what it receipts is no less than what is receipted already
(`Reports`).

### AgentTask

From its five assumptions (calls belong to tasks, writes are calls, times and
bounds are naturals, two names are not in use) and for any number of tasks, workers
and calls:

| Theorem | Statement | Module |
|---|---|---|
| `GoodAlways` | `Spec => []Good` | `AgentTaskSafety` |
| `TypeCorrect` | `Spec => []TypeOK` | `AgentTaskSafety` |
| `OneOwnerAlways` | `Spec => []OneOwner` | `AgentTaskSafety` |
| `WritesOnceAlways` | `Spec => []WritesOnce` | `AgentTaskSafety` |
| `NoSilentRestartAlways` | `Spec => []NoSilentRestart` | `AgentTaskSafety` |
| `ManualPauseAlways` | `Spec => []ManualPauseHolds` | `AgentTaskSafety` |
| `OldApprovalsAlways` | `Spec => []OldApprovalsHeld` | `AgentTaskSafety` |
| `NoLostWakeupAlways` | `Spec => []NoLostWakeup` | `AgentTaskSafety` |
| `EndedHoldsNothingAlways` | `Spec => []EndedHoldsNothing` | `AgentTaskSafety` |
| `Implements` | `Spec => GivenAndAnswered` | `AgentTaskSafety` |
| `OnlyOwnerAlways` | `Spec => OnlyOwnerActs` | `AgentTaskSafety` |

**The invariant `Good`.** `TypeOK`, and

- `Addressed`: a worker waits for the one request it has on its way, and every
  request but a claim names a task. Without it an answer could be told to a worker
  that is doing something else;
- `Owned`: `OneOwner`, and that a running attempt carries its task's newest token.
  So a request that holds its task is the newest grant's, and answers once;
- `Fresh`: a task that will be begun from nothing has an attempt left and no write
  behind it; a task without a checkpoint has none of its parts;
- `WritesOnce`, `NoSilentRestart`, and `Kept`, which links them to the rows: the
  checkpoint of the last attempt is there until its task ends.

**The argument.** `AddressedKept`, `OwnedKept` and `RestKept` prove one part each,
over users, workers' steps, damage, service and time, with a lemma for each group of
actions that treats a task alike. Claims are the hard case, since they change every
overdue task and one more: `ExpiredLast` says that what expires is the last attempt,
`FreshRows` and `KeptRows` follow the rows of both kinds of task. `Paused` strengthens
`ManualPauseHolds` and `OldApprovalsHeld`; a parked task of the user's has no
`inputPause` left that could requeue it.

**The refinement.** A step moves each task by itself (`Moved`), so `EveryStep` only
needs to see its status move as `LeasedWork` allows, its grants grow at a claim, and
its result come from the newest token. `OnlyOwnerActs` compares a request with every
request that could have been removed in the same step; that a tick removes none,
though it rewrites all, is where the oldest request is needed (`Oldest`, by
well-foundedness of the naturals).

**The approvals.** `NoLostWakeup` and `EndedHoldsNothing` speak of rows, but whether
they hold is decided by what a worker sends: parking lists the approvals the worker
asked for, completing passes over those it did not. `Approvals` ties the two:

- `Borne`: who bears a claim. No worker, and no request on its way, has a token newer
  than its task's; two workers never bear the same one; and a worker whose answer is
  on its way no longer works under that claim, so it asks for nothing behind it;
- `Listed`: what such a bearer knows. The worker of the newest claim asked for every
  approval its task waits for, a completion of the newest claim leaves no call
  pending or approved, and a checkpoint for approvals lists something;
- `RowsOf`: what follows for the rows. The open calls of a task are its last
  attempt's and a task not begun yet has none; the checkpoint of a stopped task lists
  exactly the approvals it waits for (`Ready`); a waiting task has an undecided one,
  and an ended task nothing to approve.

A claim that was lost is not won back: `Aging` reduces a step to what it does to the
newest tokens, `BorneLaw` and `ListedLaw` say once what any step must do to keep the
first two parts, and one lemma per group of actions (`RowsResolve`, `RowsUser`, `RowsStep`,
`RowsClaim`, `RowsPark`, `RowsAnswer`) follow the rows through decisions, users,
workers, claims and answers. TLC checked `Approvals` on the instance of `task` before
the proof. What a worker may finish with (`TurnOver`) matters here: it breaks its run
over an approved call it never started (`agent_tools.py:37-47`, `:644-760`) even when
its lease seems over, since a late heartbeat may still renew the lease and let the
completion through.

### WorkflowRun

From its three assumptions (there is an item, the ways to execute a step are the
three there are, lengths and bounds are naturals) and for any number of items and
workers, any leases, any retries and any lag between reading the clock and the
transaction:

| Theorem | Statement | Module |
|---|---|---|
| `GoodAlways` | `Spec => []Good` | `WorkflowRunSafety` |
| `TypeCorrect` | `Spec => []TypeOK` | `WorkflowRunSafety` |
| `StatusesAgreeAlways` | `Spec => []StatusesAgree` | `WorkflowRunSafety` |
| `ItemsAgreeAlways` | `Spec => []ItemsAgree` | `WorkflowRunSafety` |
| `ResultKeptAlways` | `Spec => []ResultKept` | `WorkflowRunSafety` |
| `NoWriteReplayedAlways` | `Spec => []NoWriteReplayed` | `WorkflowRunSafety` |
| `NeverStallsAlways` | `Spec => []NeverStalls` | `WorkflowRunSafety` |
| `Implements` | `Spec => GivenAndAnswered` | `WorkflowRunSafety` |

**The invariant `Good`.** None of the safety properties is inductive by itself: they
speak of the run, the step and the items, and what a command does to an item
depends on its attempt. `Good` is `TypeOK` and

- `Rows`: what each row says of its item and its attempt. `RowAgrees` puts the two
  at the same point (a live attempt is the item's current one; a pending item has
  none); `RowKeeps`: an attempt that runs or waits has no response yet, and one that
  was given up never had any; `RowRepeats`: what is to begin anew has neither acted
  nor saved a checkpoint; `RowHeld`: an item in progress carries its newest token,
  and only a finished one was answered;
- `Agree`: what run, step and items say of each other. A running or pausing run has
  a running step, something unfinished, and nothing paused without its attempt (its
  resumption would otherwise have to begin it anew); a paused run has nothing in
  progress; a failed or cancelled one nothing that could be taken up; a step that
  waits for approval has all its items;
- `Assigned`: a worker that has work has an item of the step's.

**The argument.** The operators of the Store compose, so the proofs do: one lemma per
operator says what it makes of a row (`ExpireRow`, `HaltRow`, `WakeRow`, ...), one
what it makes of the tables (`Requeues`, `Converges`, `Settles`, `Pauses`, ...), and
one per command puts them together (`ServeClaimSound`, `CommitSound`, `ParkSound`,
...). `Converge` abandons what runs when a pause is due, and must never meet
an attempt that acted or a claimed repair; that it cannot is `Lasting`: what has
outlived a `Requeue` at the same age still has its lease, so the step is not at a
boundary.

**The refinement.** Every command moves an item in one of four ways: it eases it
(`Eased`: to something to do later, failed or cancelled), gives it out under the
next token (`Given`), answers it with the newest (`Answered`), or reopens it
(`Reopened`, by a retry or a resumption). `ItemSteps` maps each to a step of `LeasedWork`.

### NativeWorkspace

From its three assumptions (the names `none`, `lost` and `janitor` are nobody's,
changes of files are calls and no call is a restoration, bounds are naturals) and
for any number of calls, restorations, handlers, environments and versions:

| Theorem | Statement | Module |
|---|---|---|
| `KnownInvariant` | `Spec => []Known` | `NativeWorkspaceProofs` |
| `TypeCorrect` | `Spec => []TypeOK` | `NativeWorkspaceProofs` |
| `Accounted` | `Spec => []ContainersAccounted` | `NativeWorkspaceProofs` |
| `GoodInvariant` | `Spec => []Good` | `NativeWorkspaceSafety` |
| `TrueReceipts` | `Spec => []ReceiptsAreTrue` | `NativeWorkspaceSafety` |
| `FilesKept` | `Spec => KeepsFiles` | `NativeWorkspaceSafety` |

**The invariant, first half.** `Known` is `TypeOK`, `ContainersAccounted` and

- `Placed`: nothing in the rows, the calls or the archives is later than the
  current environment, and environments to come are empty;
- `Begun`: what a call in progress knows (kind, target, stage, result) fits the row
  it was begun with;
- `Removed`: a container somebody reports as gone is gone. Without it the row could
  be closed over a container that is still there.

**The invariant, second half.** `Good` adds what the files say:

- `Exclusive`: an environment in use is one call's, and its `op` names that call;
- `Single` and `ActsOnce`: a running effect has one call, which has it at most once;
- `Stored`, `Archived`: what a version, a restoration or an archive holds was
  confirmed, and is still in the files it came from. That files do not shrink is
  what lets a later version be compared with an earlier one;
- `Truthful`: between its two transactions a call makes files and receipts differ,
  and this says how: `NewFiles` while an environment is being created, `OldFiles`
  while a ready one is claimed (`AgreeBut` one effect when a command has acted), and
  `Agree` otherwise, which is what `ReceiptsAreTrue` asks for;
- `Erased`: a deleted project has nothing confirmed.

**The argument.** `ClientSteps`, `LeaseChanges`, `EnvChanges`, `RowChanges`,
`EngineChanges` and `WorkChanges` say of each variable which actions touch it;
`Bound`, `Claimed`, `Answered` and `Finished` sum up a begin, an answer of the engine
and a finish. Each part of the invariant then has one lemma (`PlacedKept`,
`ExclusiveKept`, `TruthfulKept`, ...) with a step for the few actions that can
disturb it. The hard ones are the two finishes: a late one must find that its
environment is no longer its own (`Exclusive`), and a proper one must put files and
receipts back together (`FinishAgrees`).

**The refinement.** What is confirmed of the files is what `WorkspaceFiles` sees, so
the effect of a command is unseen until its finish, which is `Apply`. The finish of a
creation or of a restoration into a new environment is `Open`, a failed one `Drop`;
`Hydrate` is `Fill`, the save of an archive `Save`, closing a project `Delete`, and
the janitor's claim of a live environment `Drop`. Everything else stutters
(`EnginePromised`, `FinishPromised`, `StepPromised`).

**Only model-checked.** Every safety invariant and action property the passing runs
check of the four machines is now a theorem. The liveness properties are not:
liveness under fairness and `ENABLED` are out of the prover's reach, as are induction
over data and `RECURSIVE` operators. The three runs that expect a violation,
`Timestamps` among them, show behaviours, which need no proof.

## 7. Where code and documents disagree

- **`cancelled`.** `docs/agent-turn-streaming.md:22` lets `cancel_requested` end
  only as cancelled. A worker that has decided to fail its turn writes `failed` in
  a later transaction, and `FailAgentTurn` refuses only terminal statuses, so a
  cancel request accepted in between ends as failed.
- **`serial`.** `docs/agent-platform-full-convergence-plan.md:143` says the write
  turns of a conversation are serial. Executions never overlap, but a turn can
  start while a sibling is paused half-way: the stamp is read before the
  transaction that inserts the turn, so an older stamp may be admitted after a
  younger one has run and paused, and a paused turn holds only the younger ones.
- **`order`.** The comment at `R/agent_turn.go:232` promises the oldest turn.
  Stamps are compared as text, and `RFC3339Nano` drops trailing zeros: `.1Z` sorts
  after `.12Z`. The window is narrow (the earlier fraction must be a prefix of the
  later one), but the comment's promise does not hold. `AgentTurn` takes `stamp` as
  a number; what it proves of the queue is about the order of the stamps as the
  Store compares them, whichever that is.

Two more that the models show without a run of their own:

- `docs/stage-5-technical-solution-review.md:432` ends the failed run of a batch
  once the failed item's siblings have converged. When the last repair of an item of a *sequential* batch
  fails, the items after it stay pending and are not offered
  (`R/execution_result_repair.go:259-265`, `Fresh`), so nothing settles the batch and
  the run shows running. `RetryFailedStep` (`R/retry.go:83-125`, `Unstalled`) is the
  one command that heals it. `NeverStalls` names the case.
- `docs/stage-5-t6-video-reference-acceptance.md:64` keeps a batch going when one
  item fails. An attempt that expired, could not be resumed or stood in the way of
  a pause after it may have acted fails the whole step at once, while its siblings
  still work (`R/executor.go:718`, `Requeue`, `TakeCheckpoint`, `Converge`); their
  results are refused. The code prefers this to a silent repetition.

## 8. What is not modelled

**Turns.** Deletion of a project (which cancels committing turns too);
withdrawal and replacement of an added input; editing a queued message; the review
of external writes whose outcome is unknown; the checks of memories at commit;
quotas and authorization; the idempotency receipts of pause, resume and append
(replay of a submission is modelled); errors of the database itself (after which
`finishExecution` gives up and the turn stays running until a restart);
`agent.turn.cancelled`, sent only on a sidecar route no Go code calls; the lag of
the sidecar's registry behind a closed response (a second dispatch could be
answered 409). Read tools, nested calls, hosted and MCP tools are left out: the
calls modelled are platform write tools.

**Background tasks.** The order in which queued tasks are taken, progress texts,
artifacts in the result and usage. The progress reports at the start and at the end
of a run renew nothing and are left out.

**Workflow runs.** The start of a run; steps the Runtime executes itself
(`runtime.*`), chains of steps and failure branches; the video executor; bundles and
checkpointed batches; inputs added to an attempt, its damaged checkpoint and its
frozen input; more than one writing call of an attempt; approval actions other than
approve, and regeneration; `CompleteRunPauseAtSafeBoundary`, which nothing but tests
calls. `FailExecutionAttempt` accepts an attempt whose result has been received as well
(`R/executor_failure.go:151`); the modelled workers report a failure only while they
run, so `ServeFail` asks for a running attempt.

**Native workspaces.** Terminals, manifests and initial resources, publication,
`Checkpoint` (no route calls it), memory in a workspace, quotas and policy, the
approval of the tool call behind a command, and the refusals a holder meets twice.
An environment that stays `closing` for ever counts against the limit of eight; the
model has no such limit.

The components without a module are listed in section 1 and, with the reason for
each, in `PROJECT.json`. Its `hazards` list names what is hard to test in this
code, at its line, with the property that covers it or why none does yet.

## 9. Plan

In order of importance; the first four steps are done.

1. **`AgentTurn`, `ConversationQueue`, `Timestamps`**, with their proofs.
2. **`LeasedWork` and `AgentTask`**, with their proofs.
3. **`WorkflowRun`**, under the same `LeasedWork`, composed with the run's pauses,
   cancellation and retry.
4. **`WorkspaceFiles` and `NativeWorkspace`**, with their proofs.
5. **`ArtifactApproval`.** Versions, approvals, candidates, final selection: a
   decision binds to the version it saw. Theorem: the invariant behind it.
6. **`BatchRanges`.** Splitting and merging as functions, compared with a reference
   over all small inputs.
7. **`MemoryPublication`.** Generations of memories, published and forgotten.
8. **Steps.** Chains of steps and failure branches around `WorkflowRun`, the steps
   the Runtime executes itself.

Extensions of `AgentTurn`, each with the property it is for: withdrawal of inputs
(`ReceiptsAreRead`), the registry's lag (`OneWorkerPerTurn`), project deletion
(`PointOfNoReturn`, which it breaks). Each of them
changes commands that `Good` speaks of: its lemma for that part gets a new step.

## Running

    tlc -workers 2 -config MCAgentTurn_queue.cfg MCAgentTurn
    tlc -workers 2 -config MCAgentTask_task.cfg MCAgentTask
    tlc -workers 2 -config MCWorkflowRun_workflow.cfg MCWorkflowRun
    tlc -workers 2 -config MCNativeWorkspace_workspace.cfg MCNativeWorkspace
    tlc -config Timestamps_order.cfg Timestamps
    tlapm AgentTurnSafety.tla
    tlapm AgentTaskSafety.tla
    tlapm WorkflowRunSafety.tla
    tlapm NativeWorkspaceSafety.tla
