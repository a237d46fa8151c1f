------------------------ MODULE NativeWorkspaceSafety ------------------------
(* The invariant Good of NativeWorkspace is inductive: the environment in  *)
(* use is one call's, an effect is had once, and the files are what the    *)
(* receipts say.  With it every step keeps the promise of WorkspaceFiles.  *)
EXTENDS NativeWorkspaceProofs

USE DEF rowVars, engineVars

-----------------------------------------------------------------------------
(* The parts of the invariant.                                             *)

Open == env.status \in {"creating", "ready"}

\* The environment in use is one call's, and the row says which.
Exclusive ==
    /\ env.op \in Handler => Busy(env.op) /\ work[env.op].env = env.id
    /\ Open => \A h \in Handler : Busy(h) /\ work[h].env = env.id => env.op = h
    /\ env.status = "creating" =>
         /\ env.op # "none" /\ (env.op \in Handler => work[env.op].fresh)
         /\ \A c \in Call : command[c].env # env.id
         /\ \A r \in Request : restore[r].status = "completed" => restore[r].env # env.id
    /\ env.status = "ready" /\ env.op \in Handler => ~work[env.op].fresh
    /\ env.status = "absent" => saved = <<>>

\* An effect is had by the one call that was begun for it.
Single ==
    /\ \A c \in Call : command[c].status = "none" => acted[c] = 0
    /\ \A h \in Handler : Runs(h, "command") =>
         /\ work[h].stage = "engine" => acted[work[h].target] = 0
         /\ Ends(h, "ok") => acted[work[h].target] = 1
    /\ \A g, h \in Handler :
         Runs(g, "command") /\ Runs(h, "command") /\ work[g].target = work[h].target => g = h

Kept == lease.status # "closing"

\* What a version, a restoration and an archive hold was confirmed, and is still
\* in the files it came from; what is unconfirmed is where its call was.
Stored ==
    Kept =>
        /\ \A n \in DOMAIN saved : saved[n].files \subseteq Confirmed \cap files[saved[n].tree]
        /\ \A r \in Request : restore[r].status # "none" =>
             \E n \in DOMAIN saved : saved[n].files = restore[r].files
        /\ \A e \in Environment : \A c \in files[e] :
             c \in Confirmed \/ (command[c].status # "none" /\ command[c].env = e)
Archived ==
    Kept => \A h \in Handler : copy[h] # NoCopy =>
        /\ copy[h].files \subseteq Confirmed \cap files[copy[h].tree]
        /\ copy[h].parent <= Len(saved)
        /\ \A n \in 1 .. copy[h].parent :
             saved[n].tree = copy[h].tree => saved[n].files \subseteq copy[h].files

\* A deleted project has no confirmed effects.
Erased == ~Kept => Confirmed = {}

\* The files hold what the receipts say.
Agree ==
    /\ files[env.id] \subseteq Confirmed
    /\ \A c \in Confirmed : command[c].env = env.id => c \in files[env.id]
    /\ \A r \in Request : restore[r].status = "completed" /\ restore[r].env = env.id =>
         restore[r].files \subseteq files[env.id]
\* The same, but for the effect c that was had and not yet confirmed.
AgreeBut(c) ==
    /\ c \in files[env.id] /\ files[env.id] \subseteq Confirmed \cup {c}
    /\ \A d \in Confirmed : command[d].env = env.id => d \in files[env.id]
    /\ \A r \in Request : restore[r].status = "completed" /\ restore[r].env = env.id =>
         restore[r].files \subseteq files[env.id]
\* The files of the environment h has just created.
NewFiles(h) ==
    /\ work[h].kind = "create" => saved = <<>> /\ files[env.id] = {}
    /\ work[h].stage # "finish" => files[env.id] = {}
    /\ Runs(h, "restore") /\ Ends(h, "ok") => files[env.id] = restore[work[h].target].files
\* The files of the ready environment h has claimed.
OldFiles(h) ==
    /\ work[h].stage = "engine" \/ Ends(h, "preserved") => Agree
    /\ Ends(h, "ok") /\ work[h].kind # "command" => Agree
    /\ Ends(h, "ok") /\ work[h].kind = "command" => AgreeBut(work[h].target)
    /\ Ends(h, "ok") /\ work[h].kind = "restore" =>
         files[env.id] = restore[work[h].target].files
Truthful ==
    Kept => /\ Claimable => Agree
            /\ env.status = "creating" /\ env.op \in Handler => NewFiles(env.op)
            /\ env.status = "ready" /\ env.op \in Handler => OldFiles(env.op)

\* The inductive invariant.
Good == Known /\ Exclusive /\ Single /\ ActsOnce /\ Stored /\ Archived /\ Erased /\ Truthful

-----------------------------------------------------------------------------
(* The steps, by what they change.                                         *)

\* Only the lease changes, neither closed nor reopened; or nothing does.
Quiet == /\ Kept' <=> Kept
         /\ env' = env /\ command' = command /\ restore' = restore /\ saved' = saved
         /\ container' = container /\ files' = files /\ acted' = acted
         /\ work' = work /\ janitor' = janitor /\ copy' = copy
\* Neither the lease, the rows but the environment's, nor the files do.
Untouched == /\ lease' = lease /\ command' = command /\ restore' = restore /\ saved' = saved
         /\ files' = files /\ acted' = acted /\ copy' = copy
Forgets(H) == /\ Untouched /\ env' = Orphaned(H)
              /\ \A h \in Handler : work'[h] = IF h \in H THEN Idle ELSE work[h]

LEMMA Steps ==
  ASSUME TypeOK, [Next]_vars
  PROVE  \/ Quiet \/ CloseProject \/ Sweep \/ ConfirmClosed
         \/ \E h \in Handler : \/ BindsBy(h) \/ ClaimsBy(h) \/ Save(h)
                               \/ Engine(h) \/ Finish(h) \/ Forgets({h})
         \/ Untouched /\ env' = env /\ work' = work
         \/ Forgets({"janitor"}) \/ Forgets(Handler \cup {"janitor"})
<1>0. work \in [Handler -> Work] /\ "janitor" \notin Handler
  BY NameAssumption DEF TypeOK
<1>1. CASE UNCHANGED vars
  BY <1>1 DEF vars, Quiet, Kept
<1>2. CASE Client
  <2>1. Reserve => Quiet
    BY DEF Reserve, Quiet, Kept, Access
  <2>. QED
    BY <1>2, <2>1, ClientSteps, Bound, Claimed
<1>3. ASSUME NEW h \in Handler, Superseded(h) PROVE Forgets({h})
  BY <1>0, <1>3 DEF Superseded, Forgets, Untouched
<1>4. CASE Clean
  <2>1. CASE DeleteContainer
    BY <2>1 DEF DeleteContainer, Confirms, Untouched
  <2>2. CASE DeleteFails \/ DeleteUnanswered
    BY <1>0, <2>2 DEF DeleteFails, Unconfirmed, DeleteUnanswered, Forgets, Untouched
  <2>. QED
    BY <1>4, <2>1, <2>2 DEF Clean
<1>5. ASSUME NEW e \in Environment, Materialize(e) PROVE Untouched /\ env' = env /\ work' = work
  BY <1>5 DEF Materialize, Untouched
<1>6. CASE LeaseLapses \/ Dispatch
  <2>1. lease \in Lease
    BY DEF TypeOK
  <2>2. lease'.status = lease.status
    BY <1>6, <2>1 DEF LeaseLapses, Dispatch, Lease
  <2>. QED
    BY <1>6, <2>2 DEF LeaseLapses, Dispatch, Quiet, Kept
<1>7. Crash => Forgets(Handler \cup {"janitor"})
  BY DEF Crash, Forgets, Untouched
<1>. QED
  BY <1>1, <1>2, <1>3, <1>4, <1>5, <1>6, <1>7 DEF Next

LEMMA EngineKeeps ==
  ASSUME NEW h \in Handler, Engine(h)
  PROVE  /\ lease' = lease /\ env' = env /\ command' = command /\ restore' = restore
         /\ saved' = saved /\ janitor' = janitor /\ copy' = copy
BY DEF Engine, Created, Reconnect, Execute, Hydrate, ExportFiles, Remove, Preserved, Interrupted,
  EngineFails

\* What a finish leaves: its environment free, its row with its receipt.
LEMMA Finished ==
  ASSUME TypeOK, Begun, NEW h \in Handler, Finish(h)
  PROVE  /\ Owns(h) /\ work[h].stage = "finish"
         /\ \E status \in Outcomes(h) : env'.status = status
         /\ env'.id = env.id /\ env'.op = "none"
         /\ work'[h] = Idle /\ \A g \in Handler \ {h} : work'[g] = work[g]
         /\ work[h].kind # "command" => command' = command
         /\ work[h].kind = "command" =>
              /\ work[h].target \in Call
              /\ command[work[h].target].status = "running"
              /\ command'[work[h].target].status = Receipt(h)
              /\ command'[work[h].target].env = command[work[h].target].env
              /\ \A c \in Call \ {work[h].target} : command'[c] = command[c]
         /\ work[h].kind # "restore" => restore' = restore
         /\ work[h].kind = "restore" =>
              /\ work[h].target \in Request
              /\ restore'[work[h].target].status = Receipt(h)
              /\ restore'[work[h].target].env = restore[work[h].target].env
              /\ restore'[work[h].target].files = restore[work[h].target].files
              /\ \A r \in Request \ {work[h].target} : restore'[r] = restore[r]
         /\ lease' = lease /\ saved' = saved /\ container' = container
         /\ files' = files /\ acted' = acted /\ janitor' = janitor
<1>1. /\ env \in Env /\ work \in [Handler -> Work]
      /\ command \in [Call -> Row] /\ restore \in [Request -> Row]
  BY DEF TypeOK
<1>2. \E status \in Outcomes(h) : env' = Freed(h, status)
  BY DEF Finish
<1>3. /\ \E status \in Outcomes(h) : env'.status = status
      /\ env'.id = env.id /\ env'.op = "none"
  BY <1>1, <1>2 DEF Freed, Env
<1>4. work'[h] = Idle /\ \A g \in Handler \ {h} : work'[g] = work[g]
  BY <1>1 DEF Finish
<1>5. /\ work[h].kind = "command" =>
           work[h].target \in Call /\ command[work[h].target] \in Row
      /\ work[h].kind = "restore" =>
           work[h].target \in Request /\ restore[work[h].target] \in Row
  BY <1>1 DEF Finish, Begun, BegunBy, Runs, Busy
<1>6. work[h].kind = "command" =>
        /\ command[work[h].target].status = "running"
        /\ command' = [command EXCEPT ![work[h].target] =
                         [command[work[h].target] EXCEPT !.status = Receipt(h)]]
  BY DEF Finish
<1>7. work[h].kind = "restore" =>
        restore' = [restore EXCEPT ![work[h].target] =
                      [restore[work[h].target] EXCEPT !.status = Receipt(h)]]
  BY DEF Finish
<1>8. work[h].kind = "command" =>
        /\ command'[work[h].target].status = Receipt(h)
        /\ command'[work[h].target].env = command[work[h].target].env
        /\ \A c \in Call \ {work[h].target} : command'[c] = command[c]
  BY <1>1, <1>5, <1>6 DEF Row
<1>9. work[h].kind = "restore" =>
        /\ restore'[work[h].target].status = Receipt(h)
        /\ restore'[work[h].target].env = restore[work[h].target].env
        /\ restore'[work[h].target].files = restore[work[h].target].files
        /\ \A r \in Request \ {work[h].target} : restore'[r] = restore[r]
  BY <1>1, <1>5, <1>7 DEF Row
<1>10. /\ Owns(h) /\ work[h].stage = "finish"
       /\ work[h].kind # "command" => command' = command
       /\ work[h].kind # "restore" => restore' = restore
       /\ lease' = lease /\ saved' = saved /\ container' = container
       /\ files' = files /\ acted' = acted /\ janitor' = janitor
  BY DEF Finish
<1>. QED
  BY <1>3, <1>4, <1>5, <1>6, <1>8, <1>9, <1>10

\* But for the deletion of the project, what is confirmed stays so, the files
\* grow, and so do the versions.
LEMMA Grows ==
  ASSUME Known, [Next]_vars, Kept'
  PROVE  /\ Kept /\ Confirmed \subseteq Confirmed'
         /\ \A e \in Environment : files[e] \subseteq files'[e]
         /\ Len(saved) <= Len(saved') /\ \A n \in DOMAIN saved : saved'[n] = saved[n]
<1>1. /\ command \in [Call -> Row] /\ files \in [Environment -> SUBSET Call] /\ saved \in Seq(Version)
      /\ work \in [Handler -> Work] /\ lease \in Lease
  BY DEF Known, TypeOK
<1>2. ~CloseProject
  BY DEF CloseProject, Kept, Lease, Known, TypeOK
<1>3. Kept
  BY <1>1, <1>2, LeaseChanges DEF Kept, Reserve, LeaseLapses, Dispatch, Lease
<1>4. Confirmed \subseteq Confirmed'
  <2>. SUFFICES ASSUME NEW c \in Call, command[c].status = "completed"
                PROVE  command'[c].status = "completed"
    BY DEF Confirmed
  <2>1. CASE ConfirmClosed
    BY <1>1, <2>1 DEF ConfirmClosed
  <2>2. ASSUME NEW h \in Handler, Finish(h) PROVE command'[c] = command[c]
    <3>1. CASE work[h].kind = "command"
      <4>1. command[work[h].target].status = "running"
            /\ command' = [command EXCEPT ![work[h].target].status = Receipt(h)]
        BY <2>2, <3>1 DEF Finish
      <4>. QED
        BY <1>1, <4>1
    <3>. QED
      BY <2>2, <3>1 DEF Finish
  <2>3. ASSUME NEW h \in Handler, NEW d \in Call, Command(h, d) PROVE command'[c] = command[c]
    BY <1>1, <2>3 DEF Command, Replayable
  <2>. QED
    BY <1>2, <2>1, <2>2, <2>3, RowChanges
<1>5. ASSUME NEW e \in Environment PROVE files[e] \subseteq files'[e]
  BY <1>1, EngineChanges DEF Execute, Hydrate
<1>6. Len(saved) <= Len(saved') /\ \A n \in DOMAIN saved : saved'[n] = saved[n]
  <2>1. ASSUME NEW h \in Handler, Save(h)
        PROVE  Len(saved) <= Len(saved') /\ \A n \in DOMAIN saved : saved'[n] = saved[n]
    BY <1>1, <2>1 DEF Save
  <2>. QED
    BY <1>1, <1>2, <2>1, RowChanges
<1>. QED
  BY <1>3, <1>4, <1>5, <1>6

-----------------------------------------------------------------------------
(* The environment in use is one call's.                                   *)

LEMMA ExclusiveKept == ASSUME Known, Exclusive, [Next]_vars PROVE Exclusive'
<1>1. /\ env \in Env /\ env.id \in Nat /\ work \in [Handler -> Work]
      /\ {"none", "lost", "janitor"} \cap Handler = {}
  BY BoundAssumption, NameAssumption DEF Known, TypeOK, Env
<1>2. CASE Quiet \/ (Untouched /\ env' = env /\ work' = work)
  BY <1>2 DEF Quiet, Untouched, Exclusive, Open, Busy
<1>3. CASE CloseProject
  <2>1. /\ \A c \in Call : command'[c].env = command[c].env
    BY <1>3 DEF CloseProject, Known, TypeOK
  <2>. QED
    BY <1>3, <2>1 DEF CloseProject, Exclusive, Open, Busy
<1>4. CASE Sweep
  BY <1>1, <1>4 DEF Sweep, Exclusive, Open, Busy
<1>5. CASE ConfirmClosed
  BY <1>1, <1>5 DEF ConfirmClosed, Exclusive, Open, Busy
<1>6. ASSUME NEW h \in Handler, BindsBy(h) PROVE Exclusive'
  BY <1>1, <1>6 DEF BindsBy, OthersKept, Exclusive, Open, Busy, Known, Placed
<1>7. ASSUME NEW h \in Handler, ClaimsBy(h) PROVE Exclusive'
  BY <1>1, <1>7 DEF ClaimsBy, Claimable, OthersKept, Exclusive, Open, Busy
<1>8. ASSUME NEW h \in Handler, Save(h) PROVE Exclusive'
  BY <1>1, <1>8 DEF Save, Exclusive, Open, Busy
<1>9. ASSUME NEW h \in Handler, Engine(h) PROVE Exclusive'
  <2>1. /\ \A g \in Handler : Busy(g)' = Busy(g) /\ work'[g].env = work[g].env
                              /\ work'[g].fresh = work[g].fresh
    BY <1>9, Answered DEF Busy, Known
  <2>2. /\ env' = env /\ command' = command /\ restore' = restore /\ saved' = saved
    BY <1>9, EngineKeeps
  <2>. QED
    BY <2>1, <2>2 DEF Exclusive, Open
<1>10. ASSUME NEW h \in Handler, Finish(h) PROVE Exclusive'
  <2>1. /\ Owns(h) /\ env'.op = "none" /\ env'.id = env.id /\ env'.status \in {"ready", "closed", "blocked"}
        /\ work'[h] = Idle /\ \A g \in Handler \ {h} : work'[g] = work[g]
    BY <1>10, Finished DEF Outcomes, Known
  <2>2. ASSUME NEW g \in Handler, Busy(g)' PROVE work'[g].env # env'.id
    BY <2>1, <2>2 DEF Exclusive, Open, Owns, Busy, Idle
  <2>. QED
    BY <1>1, <2>1, <2>2 DEF Exclusive, Open, Busy
<1>11. ASSUME NEW H, Forgets(H), H \subseteq Handler \cup {"janitor"} PROVE Exclusive'
  BY <1>1, <1>11 DEF Forgets, Untouched, Orphaned, Exclusive, Open, Busy, Idle
<1>. QED
  BY <1>2, <1>3, <1>4, <1>5, <1>6, <1>7, <1>8, <1>9, <1>10, <1>11, Steps DEF Known

-----------------------------------------------------------------------------
(* An effect is had once.                                                  *)

\* An effect is confirmed by the finish of its call, which had it.
LEMMA Confirming ==
  ASSUME Known, [Next]_vars, NEW c \in Call, c \in Confirmed', c \notin Confirmed
  PROVE  \E h \in Handler : /\ Finish(h) /\ Succeeds(h)
                            /\ work[h].kind = "command" /\ work[h].target = c
<1>1. command'[c].status = "completed" /\ command[c].status # "completed"
  BY DEF Confirmed
<1>2. command \in [Call -> Row]
  BY DEF Known, TypeOK
<1>3. ~CloseProject /\ ~ConfirmClosed
  BY <1>1, <1>2 DEF CloseProject, ConfirmClosed, Row
<1>4. ASSUME NEW h \in Handler, NEW d \in Call, Command(h, d) PROVE FALSE
  BY <1>1, <1>2, <1>4 DEF Command, Running
<1>. QED
  BY <1>1, <1>3, <1>4, RowChanges, Finished DEF Known, Receipt

LEMMA SingleKept == ASSUME Known, Single, [Next]_vars PROVE Single'
<1>1. /\ work \in [Handler -> Work] /\ command \in [Call -> Row] /\ acted \in [Call -> Nat]
  BY DEF Known, TypeOK
<1>2. \A c \in Call : command'[c].status = "none" => command[c].status = "none"
  BY RowsKept DEF Known, Started
<1>3. CASE acted' = acted /\ work' = work
  BY <1>2, <1>3 DEF Single, Runs, Ends, Busy
<1>4. ASSUME NEW h \in Handler, BindsBy(h) PROVE Single'
  <2>1. acted' = acted /\ work'[h].kind # "command" /\ \A g \in Handler \ {h} : work'[g] = work[g]
    BY <1>4 DEF BindsBy, OthersKept
  <2>. QED
    BY <1>2, <2>1 DEF Single, Runs, Ends, Busy
<1>5. ASSUME NEW h \in Handler, ClaimsBy(h) PROVE Single'
  <2>1. /\ acted' = acted /\ work'[h].stage = "engine"
        /\ \A g \in Handler \ {h} : work'[g] = work[g]
        /\ work'[h].kind = "command" =>
             work'[h].target \in Call /\ command[work'[h].target].status = "none"
    BY <1>5 DEF ClaimsBy, OthersKept
  <2>2. \A g \in Handler \ {h} : Runs(g, "command")' =>
          Runs(g, "command") /\ command[work[g].target].status # "none" /\ work[g].target \in Call
    BY <2>1 DEF Known, Begun, BegunBy, Runs, Busy
  <2>. QED
    BY <1>2, <2>1, <2>2 DEF Single, Runs, Ends, Busy
<1>6. ASSUME NEW h \in Handler, Engine(h) PROVE Single'
  <2>1. /\ \A g \in Handler \ {h} : work'[g] = work[g]
        /\ work'[h].kind = work[h].kind /\ work'[h].target = work[h].target
        /\ Busy(h) /\ command' = command /\ work[h].stage \in {"create", "engine"}
        /\ work[h].stage = "create" =>
             work[h].kind # "command" \/ (work'[h].stage = "finish" /\ work'[h].result # "ok")
        /\ work[h].stage = "engine" => work'[h].stage = "finish"
    BY <1>6, Answered, EngineKeeps DEF Known, Busy, Begun, BegunBy
  <2>2. CASE Execute(h)
    <3>1. /\ Runs(h, "command") /\ work[h].stage = "engine" /\ work[h].target \in Call
          /\ acted' = [acted EXCEPT ![work[h].target] = @ + 1]
      BY <2>2 DEF Execute, Acts, Runs, Busy, Known, Begun, BegunBy
    <3>2. acted[work[h].target] = 0 /\ command[work[h].target].status # "none"
      BY <3>1 DEF Single, Known, Begun, BegunBy, Runs, Busy
    <3>3. acted'[work[h].target] = 1 /\ \A c \in Call \ {work[h].target} : acted'[c] = acted[c]
      BY <1>1, <3>1, <3>2
    <3>4. \A g \in Handler \ {h} : Runs(g, "command") => work[g].target \in Call \ {work[h].target}
      BY <3>1 DEF Single, Known, Begun, BegunBy, Runs, Busy
    <3>. QED
      BY <2>1, <3>1, <3>2, <3>3, <3>4 DEF Single, Runs, Ends, Busy
  <2>3. CASE ~Execute(h)
    <3>1. acted' = acted
      BY <1>6, <2>3 DEF Engine, Created, Reconnect, Hydrate, ExportFiles, Remove, Preserved,
        Interrupted, EngineFails
    <3>2. work[h].kind = "command" => ~Ends(h, "ok")'
      <4>1. ASSUME NEW result, Answer(h, result) PROVE work'[h].result = result
        BY <1>1, <4>1 DEF Answer, Work
      <4>. QED
        BY <1>6, <2>1, <2>3, <4>1 DEF Engine, Created, Reconnect, Hydrate, ExportFiles, Remove,
          Preserved, Interrupted, EngineFails, Acts, Aborts, Ends
    <3>. QED
      BY <2>1, <3>1, <3>2 DEF Single, Runs, Ends, Busy
  <2>. QED
    BY <2>2, <2>3
<1>7. ASSUME NEW H, acted' = acted,
             \A g \in Handler : work'[g] = IF g \in H THEN Idle ELSE work[g]
      PROVE  Single'
  BY <1>2, <1>7 DEF Single, Runs, Ends, Busy, Idle
<1>8. ASSUME NEW h \in Handler, Finish(h) PROVE Single'
  <2>1. /\ acted' = acted /\ \A g \in Handler : work'[g] = IF g \in {h} THEN Idle ELSE work[g]
    BY <1>8, Finished DEF Known
  <2>. QED
    BY <1>7, <2>1
<1>. QED
  BY <1>3, <1>4, <1>5, <1>6, <1>7, <1>8, Steps
  DEF Known, Quiet, Untouched, Forgets, CloseProject, Sweep, ConfirmClosed, Save

LEMMA OnceKept == ASSUME Known, Single, ActsOnce, [Next]_vars PROVE ActsOnce'
<1>1. /\ acted \in [Call -> Nat] /\ command \in [Call -> Row]
  BY DEF Known, TypeOK
<1>. SUFFICES ASSUME NEW c \in Call
              PROVE  acted'[c] <= 1 /\ (c \in Confirmed' => acted'[c] = 1)
  BY DEF ActsOnce
<1>2. ASSUME NEW h \in Handler, Execute(h)
      PROVE  acted'[c] = acted[c] \/ (acted[c] = 0 /\ acted'[c] = 1)
  <2>1. Runs(h, "command") /\ work[h].stage = "engine" /\ work[h].target \in Call
    BY <1>2 DEF Execute, Acts, Runs, Busy, Known, Begun, BegunBy
  <2>2. acted[work[h].target] = 0
    BY <2>1 DEF Single
  <2>. QED
    BY <1>1, <1>2, <2>1, <2>2 DEF Execute
<1>3. acted'[c] = acted[c] \/ (acted[c] = 0 /\ acted'[c] = 1)
  BY <1>2, EngineChanges
<1>4. ASSUME c \in Confirmed', c \notin Confirmed PROVE acted'[c] = 1
  <2>1. PICK h \in Handler : /\ Finish(h) /\ Succeeds(h)
                             /\ work[h].kind = "command" /\ work[h].target = c
    BY <1>4, Confirming
  <2>2. acted[c] = 1
    BY <2>1 DEF Finish, Succeeds, Single, Runs, Ends, Busy
  <2>3. acted' = acted
    BY <2>1 DEF Finish
  <2>. QED
    BY <2>2, <2>3
<1>. QED
  BY <1>3, <1>4 DEF ActsOnce

-----------------------------------------------------------------------------
(* What was stored was confirmed.                                          *)

LEMMA StoredKept == ASSUME Known, Stored, Archived, [Next]_vars PROVE Stored'
<1>. SUFFICES ASSUME Kept' PROVE Stored'
  BY DEF Stored
<1>1. /\ command \in [Call -> Row] /\ files \in [Environment -> SUBSET Call]
      /\ saved \in Seq(Version) /\ saved' \in Seq(Version) /\ restore \in [Request -> Row]
      /\ copy \in [Handler -> Copy]
  BY SavedTyped DEF Known, TypeOK
<1>2. /\ Kept /\ Confirmed \subseteq Confirmed'
      /\ \A e \in Environment : files[e] \subseteq files'[e]
      /\ Len(saved) <= Len(saved') /\ \A n \in DOMAIN saved : saved'[n] = saved[n]
  BY Grows
<1>3. /\ \A n \in DOMAIN saved :
           saved[n].tree \in Environment /\ saved[n].files \subseteq Confirmed \cap files[saved[n].tree]
      /\ \A r \in Request : restore[r].status # "none" =>
           \E n \in DOMAIN saved : saved[n].files = restore[r].files
      /\ \A e \in Environment : \A c \in files[e] :
           c \in Confirmed \/ (command[c].status # "none" /\ command[c].env = e)
  <2>1. ASSUME NEW n \in DOMAIN saved PROVE saved[n].tree \in Environment
    <3>1. saved[n] \in Version
      BY <1>1
    <3>. QED
      BY <3>1 DEF Version
  <2>. QED
    BY <1>2, <2>1 DEF Stored
<1>4. ASSUME NEW n \in DOMAIN saved'
      PROVE  saved'[n].files \subseteq Confirmed' \cap files'[saved'[n].tree]
  <2>1. CASE n \in DOMAIN saved
    BY <1>2, <1>3, <2>1
  <2>2. ASSUME NEW h \in Handler, Save(h), n \notin DOMAIN saved
        PROVE  saved'[n].files \subseteq Confirmed' \cap files'[saved'[n].tree]
    <3>1. saved'[n] = [tree |-> copy[h].tree, files |-> copy[h].files] /\ copy[h] # NoCopy
      BY <1>1, <2>2 DEF Save
    <3>2. copy[h].files \subseteq Confirmed \cap files[copy[h].tree]
      BY <1>2, <3>1 DEF Archived
    <3>3. copy[h].tree \in Environment
      BY <3>1, BoundAssumption DEF Known, Placed, TypeOK, Env, Environment
    <3>. QED
      BY <1>2, <3>1, <3>2, <3>3
  <2>. QED
    BY <2>1, <2>2, RowChanges DEF CloseProject, Kept
<1>5. ASSUME NEW r \in Request, restore'[r].status # "none"
      PROVE  \E n \in DOMAIN saved' : saved'[n].files = restore'[r].files
  <2>1. \E n \in DOMAIN saved : saved[n].files = restore'[r].files
    BY <1>1, <1>3, <1>5, RowsKept DEF Known, Selected
  <2>2. DOMAIN saved \subseteq DOMAIN saved'
    BY <1>1, <1>2
  <2>. QED
    BY <1>2, <2>1, <2>2
<1>6. ASSUME NEW e \in Environment, NEW c \in files'[e]
      PROVE  c \in Confirmed' \/ (command'[c].status # "none" /\ command'[c].env = e)
  <2>1. CASE c \in files[e]
    <3>1. c \in Call
      BY <1>1, <2>1
    <3>. QED
      BY <1>2, <1>3, <2>1, <3>1, RowsKept DEF Known
  <2>2. ASSUME NEW h \in Handler, Execute(h), c \notin files[e]
        PROVE  command'[c].status # "none" /\ command'[c].env = e
    <3>1. c = work[h].target /\ e = work[h].env
      BY <1>1, <1>6, <2>2 DEF Execute
    <3>2. Runs(h, "command") /\ command' = command
      BY <2>2 DEF Execute, Acts, Runs, Busy
    <3>. QED
      BY <3>1, <3>2 DEF Known, Begun, BegunBy
  <2>3. ASSUME NEW h \in Handler, Hydrate(h), c \notin files[e] PROVE c \in Confirmed'
    <3>1. c \in restore[work[h].target].files
      BY <1>1, <1>6, <2>3 DEF Hydrate
    <3>2. work[h].target \in Request /\ restore[work[h].target].status # "none"
      BY <2>3 DEF Hydrate, Acts, Known, Begun, BegunBy, Runs, Busy
    <3>. QED
      BY <1>2, <1>3, <3>1, <3>2
  <2>. QED
    BY <1>6, <2>1, <2>2, <2>3, EngineChanges
<1>. QED
  BY <1>4, <1>5, <1>6 DEF Stored

LEMMA ArchivedKept ==
  ASSUME Known, Exclusive, Stored, Archived, Truthful, [Next]_vars
  PROVE  Archived'
<1>. SUFFICES ASSUME Kept', NEW h \in Handler, copy'[h] # NoCopy
              PROVE  /\ copy'[h].files \subseteq Confirmed' \cap files'[copy'[h].tree]
                     /\ copy'[h].parent <= Len(saved')
                     /\ \A n \in 1 .. copy'[h].parent :
                          saved'[n].tree = copy'[h].tree => saved'[n].files \subseteq copy'[h].files
  BY DEF Archived
<1>1. /\ saved \in Seq(Version) /\ Len(saved) \in Nat /\ Len(saved') \in Nat
      /\ copy \in [Handler -> Copy] /\ env \in Env
      /\ copy[h] # NoCopy => copy[h].tree \in Environment /\ copy[h].parent \in Nat
  BY SavedTyped, BoundAssumption DEF Known, TypeOK, Placed, Environment, Env, Copy
<1>2. /\ Kept /\ Confirmed \subseteq Confirmed'
      /\ \A e \in Environment : files[e] \subseteq files'[e]
      /\ Len(saved) <= Len(saved') /\ \A n \in DOMAIN saved : saved'[n] = saved[n]
  BY Grows
<1>3. CASE copy'[h] = copy[h]
  <2>1. /\ copy[h].files \subseteq Confirmed \cap files[copy[h].tree]
        /\ copy[h].parent <= Len(saved)
        /\ \A n \in 1 .. copy[h].parent :
             saved[n].tree = copy[h].tree => saved[n].files \subseteq copy[h].files
    BY <1>2, <1>3 DEF Archived
  <2>2. 1 .. copy[h].parent \subseteq DOMAIN saved
    BY <1>1, <1>3, <2>1
  <2>. QED
    BY <1>1, <1>2, <1>3, <2>1, <2>2
<1>4. ASSUME Finish(h), work[h].kind = "export", Succeeds(h),
             copy'[h] = [tree |-> env.id, files |-> files[env.id], parent |-> Len(saved),
                         generation |-> work[h].generation]
      PROVE  /\ copy'[h].files \subseteq Confirmed' \cap files'[copy'[h].tree]
             /\ copy'[h].parent <= Len(saved')
             /\ \A n \in 1 .. copy'[h].parent :
                  saved'[n].tree = copy'[h].tree => saved'[n].files \subseteq copy'[h].files
  <2>1. /\ env.op = h /\ Open /\ Ends(h, "ok") /\ saved' = saved /\ files' = files
    BY <1>4 DEF Finish, Owns, Succeeds, Ends, Open
  <2>2. env.status = "ready"
    BY <1>4, <2>1 DEF Open, Exclusive, Known, Begun, BegunBy, Busy, Ends
  <2>3. Agree
    BY <1>2, <1>4, <2>1, <2>2 DEF Truthful, OldFiles
  <2>4. \A n \in DOMAIN saved : saved[n].files \subseteq files[saved[n].tree]
    BY <1>2 DEF Stored
  <2>. QED
    BY <1>1, <1>2, <1>4, <2>1, <2>3, <2>4 DEF Agree
<1>5. ASSUME NEW g \in Handler, Finish(g), copy'[h] # copy[h]
      PROVE  /\ g = h /\ work[h].kind = "export" /\ Succeeds(h)
             /\ copy'[h] = [tree |-> env.id, files |-> files[env.id], parent |-> Len(saved),
                            generation |-> work[h].generation]
  BY <1>1, <1>5 DEF Finish, Owns
<1>6. ASSUME NEW g \in Handler, Save(g) PROVE copy'[h] = copy[h]
  BY <1>1, <1>6 DEF Save
<1>. QED
  BY <1>3, <1>4, <1>5, <1>6, RowChanges

-----------------------------------------------------------------------------
(* The files hold what the receipts say.                                   *)

\* The confirmed effects, but for a finish.
LEMMA ConfirmedSame ==
  ASSUME Known, [Next]_vars, Kept', \A h \in Handler : ~Finish(h)
  PROVE  Confirmed' = Confirmed
<1>1. Confirmed' \subseteq Confirmed
  BY Confirming DEF Confirmed
<1>. QED
  BY <1>1, Grows

\* What is restored was stored, and so confirmed.
LEMMA Restorable ==
  ASSUME Known, Stored, Kept, NEW h \in Handler, Runs(h, "restore")
  PROVE  /\ work[h].target \in Request
         /\ restore[work[h].target].files \subseteq Confirmed
<1>1. work[h].target \in Request /\ restore[work[h].target].status # "none"
  BY DEF Known, Begun, BegunBy
<1>. QED
  BY <1>1 DEF Stored

\* The answers to the call that has the ready environment.
LEMMA OldFilesKept ==
  ASSUME Known, Stored, Kept, NEW h \in Handler, Engine(h), env.op = h, env.status = "ready",
         work[h].env = env.id, ~work[h].fresh, OldFiles(h)
  PROVE  OldFiles(h)'
<1>1. /\ work \in [Handler -> Work] /\ files \in [Environment -> SUBSET Call]
      /\ env.id \in Environment /\ BegunBy(h)
  BY BoundAssumption DEF Known, TypeOK, Placed, Env, Environment, Begun
<1>2. /\ env' = env /\ command' = command /\ restore' = restore /\ Confirmed' = Confirmed
  BY EngineKeeps DEF Confirmed
<1>3. /\ work[h].stage = "engine" /\ work'[h].stage = "finish"
      /\ work'[h].kind = work[h].kind /\ work'[h].target = work[h].target
  BY <1>1, Answered DEF Known, BegunBy
<1>4. Agree
  BY <1>3 DEF OldFiles
<1>5. ASSUME NEW result, Answer(h, result) PROVE work'[h].result = result
  BY <1>1, <1>5 DEF Answer, Work
<1>6. CASE Reconnect(h) \/ ExportFiles(h) \/ Remove(h) \/ Preserved(h) \/ Interrupted(h) \/ EngineFails(h)
  <2>1. files' = files
    BY <1>6 DEF Reconnect, ExportFiles, Remove, Preserved, Interrupted, EngineFails
  <2>2. work[h].kind \in {"command", "restore"} => work'[h].result # "ok"
    BY <1>5, <1>6 DEF Reconnect, ExportFiles, Remove, Preserved, Interrupted, Aborts,
      EngineFails, Acts
  <2>3. Agree'
    BY <1>2, <1>4, <2>1 DEF Agree
  <2>. QED
    BY <1>3, <2>2, <2>3 DEF OldFiles, Ends
<1>7. CASE Execute(h)
  <2>1. /\ work[h].kind = "command" /\ work'[h].result \in {"ok", "failed", "terminated"}
        /\ files'[env.id] = files[env.id] \cup {work[h].target}
    BY <1>1, <1>5, <1>7 DEF Execute, Acts, Aborts
  <2>2. AgreeBut(work[h].target)'
    BY <1>2, <1>3, <1>4, <2>1 DEF Agree, AgreeBut
  <2>. QED
    BY <1>3, <2>1, <2>2 DEF OldFiles, Ends
<1>8. CASE Hydrate(h)
  <2>1. /\ Runs(h, "restore") /\ work'[h].result \in {"ok", "failed"}
        /\ files'[env.id] = restore[work[h].target].files
        /\ files[env.id] \subseteq files'[env.id]
    BY <1>1, <1>5, <1>8 DEF Hydrate, Acts, Runs, Busy
  <2>2. restore[work[h].target].files \subseteq Confirmed
    BY <2>1, Restorable
  <2>3. Agree'
    BY <1>2, <1>4, <2>1, <2>2 DEF Agree
  <2>. QED
    BY <1>2, <1>3, <2>1, <2>3 DEF OldFiles, Ends, Runs
<1>. QED
  BY <1>3, <1>6, <1>7, <1>8 DEF Engine, Created

\* The answers to the call that creates the environment.
LEMMA NewFilesKept ==
  ASSUME Known, NEW h \in Handler, Engine(h), work[h].env = env.id, work[h].fresh, NewFiles(h)
  PROVE  NewFiles(h)'
<1>1. /\ work \in [Handler -> Work] /\ files \in [Environment -> SUBSET Call]
      /\ env.id \in Environment /\ BegunBy(h)
  <2>1. Busy(h)
    BY Answered DEF Known, Busy
  <2>. QED
    BY <2>1, BoundAssumption DEF Known, TypeOK, Placed, Env, Environment, Begun
<1>2. /\ env' = env /\ saved' = saved /\ restore' = restore
      /\ work'[h].kind = work[h].kind /\ work'[h].target = work[h].target
      /\ work[h].stage \in {"create", "engine"} /\ work[h].kind \in {"create", "restore"}
  BY <1>1, EngineKeeps, Answered DEF Known, BegunBy, Busy
<1>3. ASSUME NEW result, Answer(h, result) PROVE work'[h].result = result
  BY <1>1, <1>3 DEF Answer, Work
<1>4. CASE Hydrate(h)
  <2>1. work[h].kind = "restore" /\ files'[env.id] = restore[work[h].target].files
    BY <1>1, <1>4 DEF Hydrate, Acts
  <2>2. work'[h].stage = "finish"
    BY <1>4, Answered DEF Known, Hydrate, Acts
  <2>. QED
    BY <1>2, <2>1, <2>2 DEF NewFiles
<1>5. CASE ~Hydrate(h)
  <2>1. files' = files
    BY <1>2, <1>5 DEF Engine, Created, Reconnect, Execute, ExportFiles, Remove, Preserved,
      Interrupted, EngineFails, Acts
  <2>2. work[h].kind = "restore" => ~Ends(h, "ok")'
    <3>1. CASE Created(h)
      BY <1>2, <3>1, Answered DEF Known, Ends, Created
    <3>2. CASE ~Created(h)
      BY <1>2, <1>3, <1>5, <3>2 DEF Engine, Reconnect, Execute, ExportFiles, Remove, Preserved,
        Interrupted, EngineFails, Acts, Aborts, Ends
    <3>. QED
      BY <3>1, <3>2
  <2>. QED
    BY <1>1, <1>2, <2>1, <2>2 DEF NewFiles, BegunBy, Runs, Busy
<1>. QED
  BY <1>4, <1>5

\* The finish of a call that leaves its environment ready.
LEMMA FinishAgrees ==
  ASSUME Known, Exclusive, Stored, Truthful, Kept, [Next]_vars,
         NEW h \in Handler, Finish(h), env'.status = "ready"
  PROVE  Agree'
<1>1. /\ Owns(h) /\ Open /\ env.op = h /\ work[h].env = env.id /\ env'.id = env.id
      /\ files' = files /\ "ready" \in Outcomes(h) /\ BegunBy(h) /\ Busy(h)
  BY Finished DEF Known, Owns, Open, Begun, Busy
<1>2. \/ Succeeds(h) /\ work[h].kind # "shutdown"
      \/ Ends(h, "preserved") /\ ~work[h].fresh /\ ~Succeeds(h)
  BY <1>1, Finished DEF Known, Outcomes, Ends
<1>3. \A c \in Confirmed' : c \in Confirmed \/ (Succeeds(h) /\ work[h].kind = "command" /\ c = work[h].target)
  <2>1. ASSUME NEW g \in Handler, Finish(g) PROVE g = h
    BY <1>1, <2>1 DEF Finish, Owns
  <2>. QED
    BY <2>1, Confirming DEF Confirmed
<1>4. Confirmed \subseteq Confirmed'
  <2>1. Kept'
    BY Finished DEF Known, Kept
  <2>. QED
    BY <2>1, Grows
<1>5. \A c \in Call : command'[c].env = command[c].env
  BY Finished DEF Known
<1>6. \A r \in Request : restore'[r].status = "completed" =>
        /\ restore'[r].env = restore[r].env /\ restore'[r].files = restore[r].files
        /\ \/ restore[r].status = "completed"
           \/ Succeeds(h) /\ work[h].kind = "restore" /\ r = work[h].target
  BY Finished DEF Known, Receipt
<1>7. CASE env.status = "creating"
  <2>1. /\ Succeeds(h) /\ Ends(h, "ok") /\ NewFiles(h) /\ work[h].kind \in {"create", "restore"}
    BY <1>1, <1>2, <1>7, Finished DEF Exclusive, Known, BegunBy, Truthful, Succeeds, Ends
  <2>2. /\ \A c \in Call : command[c].env # env.id
        /\ \A r \in Request : restore[r].status = "completed" => restore[r].env # env.id
    BY <1>7 DEF Exclusive
  <2>3. CASE work[h].kind = "create"
    BY <1>1, <1>4, <1>5, <1>6, <2>1, <2>2, <2>3 DEF NewFiles, Agree, Confirmed
  <2>4. CASE work[h].kind = "restore"
    <3>1. /\ files[env.id] = restore[work[h].target].files
          /\ restore[work[h].target].files \subseteq Confirmed
      BY <1>1, <2>1, <2>4, Restorable DEF NewFiles, Runs
    <3>. QED
      BY <1>1, <1>4, <1>5, <1>6, <2>2, <3>1 DEF Agree, Confirmed
  <2>. QED
    BY <2>1, <2>3, <2>4
<1>8. CASE env.status = "ready"
  <2>1. OldFiles(h) /\ (Succeeds(h) => Ends(h, "ok"))
    BY <1>1, <1>8, Finished DEF Truthful, Succeeds, Ends, Known
  <2>2. CASE Succeeds(h) /\ work[h].kind = "command"
    <3>1. AgreeBut(work[h].target) /\ work[h].target \in Confirmed'
      BY <2>1, <2>2, Finished DEF OldFiles, Known, Receipt, Confirmed
    <3>. QED
      BY <1>1, <1>3, <1>4, <1>5, <1>6, <2>2, <3>1 DEF AgreeBut, Agree, Confirmed
  <2>3. CASE ~(Succeeds(h) /\ work[h].kind = "command")
    <3>1. Agree /\ Confirmed' = Confirmed
      BY <1>2, <1>3, <1>4, <2>1, <2>3 DEF OldFiles
    <3>2. Succeeds(h) /\ work[h].kind = "restore" => files[env.id] = restore[work[h].target].files
      BY <2>1 DEF OldFiles
    <3>. QED
      BY <1>1, <1>5, <1>6, <3>1, <3>2 DEF Agree, Confirmed
  <2>. QED
    BY <2>2, <2>3
<1>. QED
  BY <1>1, <1>7, <1>8 DEF Open

LEMMA TruthfulKept ==
  ASSUME Known, Exclusive, Stored, Truthful, [Next]_vars
  PROVE  Truthful'
<1>. SUFFICES ASSUME Kept' PROVE Truthful'
  BY DEF Truthful
<1>1. /\ Kept /\ {"none", "lost", "janitor"} \cap Handler = {} /\ env \in Env
      /\ files \in [Environment -> SUBSET Call] /\ work \in [Handler -> Work] /\ env.id \in Nat
      /\ command \in [Call -> Row]
  BY Grows, NameAssumption, BoundAssumption DEF Known, TypeOK, Env
<1>2. CASE Quiet \/ (Untouched /\ env' = env /\ work' = work)
  BY <1>1, <1>2 DEF Quiet, Untouched, Truthful, Claimable, Agree, AgreeBut, NewFiles, OldFiles,
    Confirmed, Runs, Ends, Busy
<1>3. ~CloseProject
  BY DEF CloseProject, Kept, Known, TypeOK, Lease
<1>4. CASE Sweep
  BY <1>1, <1>4 DEF Sweep, Truthful, Claimable
<1>5. CASE ConfirmClosed
  BY <1>1, <1>5 DEF ConfirmClosed, Truthful, Claimable
<1>6. ASSUME NEW h \in Handler, BindsBy(h) PROVE Truthful'
  <2>1. files'[env'.id] = {} /\ env'.status = "creating" /\ env'.op = h
    BY <1>1, <1>6 DEF BindsBy, OthersKept, Known, Placed
  <2>. QED
    BY <1>6, <2>1 DEF BindsBy, OthersKept, Truthful, Claimable, NewFiles, Runs, Ends
<1>7. ASSUME NEW h \in Handler, ClaimsBy(h) PROVE Truthful'
  <2>1. /\ Agree /\ env'.id = env.id /\ env'.status = "ready" /\ env'.op = h
        /\ files' = files /\ work'[h].stage = "engine"
    BY <1>1, <1>7 DEF ClaimsBy, OthersKept, Claimable, Truthful, Env
  <2>2. \A c \in Call : command'[c] = command[c] \/
          (command[c].status = "none" /\ command'[c].status = "running")
    BY <1>7 DEF ClaimsBy
  <2>3. \A r \in Request : restore'[r] = restore[r] \/ restore'[r].status = "running"
    BY <1>7 DEF ClaimsBy
  <2>4. Agree'
    BY <2>1, <2>2, <2>3 DEF Agree, Confirmed
  <2>. QED
    BY <1>1, <2>1, <2>4 DEF Truthful, Claimable, OldFiles, Ends
<1>8. ASSUME NEW h \in Handler, Save(h) PROVE Truthful'
  <2>1. /\ env' = env /\ command' = command /\ restore' = restore /\ files' = files
        /\ env.status = "ready" /\ env.op = "none" /\ env.handle
    BY <1>8 DEF Save, Known, TypeOK
  <2>2. Agree
    BY <1>1, <2>1 DEF Truthful, Claimable
  <2>3. Agree'
    BY <2>1, <2>2 DEF Agree, Confirmed
  <2>. QED
    BY <1>1, <2>1, <2>3 DEF Truthful
<1>9. ASSUME NEW h \in Handler, Engine(h) PROVE Truthful'
  <2>1. /\ env' = env /\ command' = command /\ restore' = restore /\ saved' = saved
        /\ Confirmed' = Confirmed
    BY <1>9, EngineKeeps DEF Confirmed
  <2>2. Busy(h) /\ work[h].env \in Environment /\ \A g \in Handler \ {h} : work'[g] = work[g]
    BY <1>1, <1>9, Answered, BoundAssumption DEF Busy, Known, Placed, TypeOK, Env, Environment
  <2>3. CASE env.op = h /\ Open
    <3>1. work[h].env = env.id
      BY <2>3 DEF Exclusive
    <3>2. env.status = "creating" => work[h].fresh /\ NewFiles(h)
      BY <1>1, <2>3 DEF Exclusive, Truthful
    <3>3. env.status = "ready" => ~work[h].fresh /\ OldFiles(h)
      BY <1>1, <2>3 DEF Exclusive, Truthful
    <3>4. env.status = "creating" => NewFiles(h)'
      BY <1>9, <3>1, <3>2, NewFilesKept
    <3>5. env.status = "ready" => OldFiles(h)'
      BY <1>1, <1>9, <2>3, <3>1, <3>3, OldFilesKept
    <3>. QED
      BY <1>1, <2>1, <2>3, <3>4, <3>5 DEF Truthful, Claimable
  <2>4. CASE ~(env.op = h /\ Open)
    <3>1. Open => work[h].env # env.id
      BY <2>2, <2>4 DEF Exclusive
    <3>2. Open => files'[env.id] = files[env.id]
      <4>1. Open => env.id \in Environment
        BY BoundAssumption DEF Open, Known, Placed, TypeOK, Env, Environment
      <4>2. CASE Execute(h) \/ Hydrate(h)
        BY <1>1, <2>2, <3>1, <4>1, <4>2 DEF Execute, Hydrate
      <4>3. CASE ~Execute(h) /\ ~Hydrate(h)
        BY <1>9, <4>3 DEF Engine, Created, Reconnect, ExportFiles, Remove, Preserved, Interrupted,
          EngineFails
      <4>. QED
        BY <4>2, <4>3
    <3>3. env.op \in Handler /\ Open => work'[env.op] = work[env.op]
      BY <2>2, <2>4
    <3>. QED
      BY <1>1, <2>1, <3>2, <3>3
      DEF Truthful, Open, Claimable, Agree, AgreeBut, NewFiles, OldFiles, Runs, Ends, Busy
  <2>. QED
    BY <2>3, <2>4
<1>10. ASSUME NEW h \in Handler, Finish(h) PROVE Truthful'
  <2>1. env'.op = "none"
    BY <1>10, Finished DEF Known
  <2>2. env'.status = "ready" => Agree'
    BY <1>1, <1>10, FinishAgrees
  <2>. QED
    BY <1>1, <2>1, <2>2 DEF Truthful, Claimable
<1>11. ASSUME NEW H, Forgets(H) PROVE Truthful'
  <2>1. /\ env'.id = env.id /\ env'.status = env.status /\ env'.handle = env.handle
        /\ env'.op = IF env.op \in H THEN "lost" ELSE env.op
        /\ \A h \in Handler : work'[h] = IF h \in H THEN Idle ELSE work[h]
    BY <1>1, <1>11 DEF Forgets, Orphaned, Env
  <2>2. /\ files' = files /\ command' = command /\ restore' = restore /\ saved' = saved
        /\ Confirmed' = Confirmed
    BY <1>11 DEF Forgets, Untouched, Confirmed
  <2>. QED
    BY <1>1, <2>1, <2>2 DEF Truthful, Claimable, Agree, AgreeBut, NewFiles, OldFiles, Runs,
      Ends, Busy
<1>. QED
  BY <1>2, <1>3, <1>4, <1>5, <1>6, <1>7, <1>8, <1>9, <1>10, <1>11, Steps DEF Known

LEMMA ErasedKept == ASSUME Known, Erased, [Next]_vars PROVE Erased'
<1>. SUFFICES ASSUME ~Kept', NEW c \in Confirmed' PROVE FALSE
  BY DEF Erased
<1>1. lease \in Lease /\ command \in [Call -> Row]
  BY DEF Known, TypeOK
<1>2. ~CloseProject
  BY <1>1 DEF CloseProject, Confirmed, Row
<1>3. ~Kept
  BY <1>1, <1>2, LeaseChanges DEF Kept, Reserve, LeaseLapses, Dispatch, Lease
<1>. QED
  BY <1>3, Confirming DEF Erased, Succeeds, Access, Kept, Confirmed

-----------------------------------------------------------------------------
LEMMA InitGood == Init => Good
<1>. SUFFICES ASSUME Init PROVE Good
  OBVIOUS
<1>1. Known
  BY InitKnown
<1>2. Exclusive
  BY NameAssumption DEF Init, Exclusive, Open
<1>3. Single /\ ActsOnce
  BY DEF Init, Single, ActsOnce, Runs, Busy, Ends, Idle, Confirmed, NoRow
<1>4. Stored /\ Archived
  BY DEF Init, Stored, Archived, NoRow
<1>5. Truthful
  BY DEF Init, Truthful, Claimable
<1>. QED
  BY <1>1, <1>2, <1>3, <1>4, <1>5 DEF Good, Init, Erased, Kept

LEMMA GoodKept == Good /\ [Next]_vars => Good'
BY KnownKept, ExclusiveKept, SingleKept, OnceKept, StoredKept, ArchivedKept, ErasedKept,
  TruthfulKept DEF Good

\* What the invariant says is so in every state.
THEOREM GoodInvariant == Spec => []Good
BY InitGood, GoodKept, PTL DEF Spec

\* No effect is had twice, however often its call is cut short, its answer is
\* lost or its caller asks again; what is confirmed was had; and the files of an
\* environment nobody holds are just what the receipts say.
THEOREM TrueReceipts == Spec => []ReceiptsAreTrue
<1>1. Good => ReceiptsAreTrue
  BY DEF Good, Truthful, ReceiptsAreTrue, FilesAsConfirmed, Kept, Agree
<1>. QED
  BY <1>1, GoodInvariant, PTL

-----------------------------------------------------------------------------
(* The promise of WorkspaceFiles is kept.                                  *)

Sure    == [e \in Environment |-> files[e] \cap Confirmed]
Live    == IF env.status = "ready" /\ Kept THEN env.id ELSE 0
Dropped == {e \in Environment : e < env.id \/ (e = env.id /\ ~Open)}
Same    == Sure' = Sure /\ Live' = Live /\ Dropped' = Dropped /\ saved' = saved

\* The steps of the promise, in the workspace's terms.
Fills(t) == /\ Sure[t] = {} /\ \E n \in DOMAIN saved : Sure' = [Sure EXCEPT ![t] = saved[n].files]
            /\ Live' = Live /\ Dropped' = Dropped /\ saved' = saved
Opens(t) == /\ Live = 0 /\ t \notin Dropped
            /\ saved = <<>> \/ \E n \in DOMAIN saved : Sure[t] = saved[n].files
            /\ Live' = t /\ Sure' = Sure /\ Dropped' = Dropped /\ saved' = saved
Applies(c) == /\ Live # 0 /\ \A t \in Environment : c \notin Sure[t]
              /\ Sure' = [Sure EXCEPT ![Live] = @ \cup {c}]
              /\ Live' = Live /\ Dropped' = Dropped /\ saved' = saved
Saves(v) == /\ v.files \subseteq Sure[v.tree]
            /\ \A n \in DOMAIN saved : saved[n].tree = v.tree => saved[n].files \subseteq v.files
            /\ saved' = Append(saved, v)
            /\ Live' = Live /\ Dropped' = Dropped /\ Sure' = Sure
Drops(t) == /\ Live \in {0, t} /\ Dropped' = Dropped \cup {t} /\ Live' = 0
            /\ Sure' = Sure /\ saved' = saved
Deletes  == /\ Sure' = [t \in Environment |-> {}] /\ Live' = 0 /\ saved' = <<>>
            /\ Dropped' = Dropped

LEMMA PromiseSteps ==
  /\ Same => UNCHANGED Promise!vars
  /\ \A t \in Environment : Fills(t) \/ Opens(t) \/ Drops(t) => Promise!Next
  /\ \A c \in Call : Applies(c) => Promise!Next
  /\ \A v \in Version : Saves(v) => Promise!Next
  /\ Deletes => Promise!Next
<1>1. Same => UNCHANGED Promise!vars
  BY DEF Same, Promise!vars, Sure, Live, Dropped, Open, Kept
<1>2. ASSUME NEW t \in Environment, Fills(t) PROVE Promise!Next
  <2>1. Promise!Fill(t)
    BY <1>2 DEF Fills, Promise!Fill, Promise!Saves, Sure, Live, Dropped, Open, Kept
  <2>. QED
    BY <2>1 DEF Promise!Next
<1>3. ASSUME NEW t \in Environment, Opens(t) PROVE Promise!Next
  <2>1. Promise!Open(t)
    BY <1>3 DEF Opens, Promise!Open, Promise!Saves, Sure, Live, Dropped, Open, Kept
  <2>. QED
    BY <2>1 DEF Promise!Next
<1>4. ASSUME NEW t \in Environment, Drops(t) PROVE Promise!Next
  <2>1. Promise!Drop(t)
    BY <1>4 DEF Drops, Promise!Drop, Sure, Live, Dropped, Open, Kept
  <2>. QED
    BY <2>1 DEF Promise!Next
<1>5. ASSUME NEW c \in Call, Applies(c) PROVE Promise!Next
  <2>1. Promise!Apply(c)
    BY <1>5 DEF Applies, Promise!Apply, Sure, Live, Dropped, Open, Kept
  <2>. QED
    BY <2>1 DEF Promise!Next
<1>6. ASSUME NEW v \in Version, Saves(v) PROVE Promise!Next
  <2>1. Promise!Save(v)
    BY <1>6 DEF Saves, Promise!Save, Sure, Live, Dropped, Open, Kept
  <2>. QED
    BY <2>1 DEF Promise!Next, Promise!Version, Version
<1>7. ASSUME Deletes PROVE Promise!Next
  <2>1. Promise!Delete
    BY <1>7 DEF Deletes, Promise!Delete, Sure, Live, Dropped, Open, Kept
  <2>. QED
    BY <2>1 DEF Promise!Next
<1>. QED
  BY <1>1, <1>2, <1>3, <1>4, <1>5, <1>6, <1>7

LEMMA InitPromised == Init => Promise!Init
<1>. SUFFICES ASSUME Init PROVE Promise!Init
  OBVIOUS
<1>1. Sure = [t \in Environment |-> {}] /\ Live = 0 /\ Dropped = {} /\ saved = <<>>
  BY DEF Init, Sure, Live, Dropped, Environment
<1>. QED
  BY <1>1 DEF Promise!Init, Sure, Live, Dropped, Open, Kept

\* The mapped files change with the files and with what is confirmed only.
LEMMA SureTyped ==
  ASSUME TypeOK
  PROVE  Sure \in [Environment -> SUBSET Call]
         /\ \A e \in Environment : Sure[e] = files[e] \cap Confirmed
BY DEF TypeOK, Sure

\* The answers of the engine: only what Hydrate writes is seen.
LEMMA EnginePromised ==
  ASSUME Good, Good', [Next]_vars, NEW h \in Handler, Engine(h)
  PROVE  Same \/ \E t \in Environment : Fills(t)
<1>1. /\ Known /\ Known' /\ TypeOK /\ TypeOK' /\ files \in [Environment -> SUBSET Call] /\ BegunBy(h)
      /\ work[h].env \in Environment
  <2>1. Busy(h)
    BY Answered DEF Good, Known, Busy
  <2>2. env \in Env /\ work[h].env \in 1 .. env.id
    BY <2>1 DEF Good, Known, TypeOK, Placed
  <2>3. work[h].env \in Environment
    BY <2>2, BoundAssumption DEF Env, Environment
  <2>. QED
    BY <2>3 DEF Good, Known, TypeOK, Begun
<1>2. /\ env' = env /\ lease' = lease /\ saved' = saved /\ Confirmed' = Confirmed
      /\ Live' = Live /\ Dropped' = Dropped
  BY EngineKeeps DEF Confirmed, Live, Dropped, Open, Kept
<1>3. CASE Execute(h)
  <2>1. /\ Runs(h, "command") /\ work[h].stage = "engine" /\ work[h].target \in Call
        /\ files' = [files EXCEPT ![work[h].env] = @ \cup {work[h].target}]
    BY <1>1, <1>3 DEF Execute, Acts, Runs, Busy, BegunBy
  <2>2. work[h].target \notin Confirmed
    BY <2>1 DEF Good, Single, ActsOnce
  <2>3. Sure' = Sure
    <3>1. \A e \in Environment : files'[e] \cap Confirmed = files[e] \cap Confirmed
      BY <1>1, <2>1, <2>2
    <3>. QED
      BY <1>2, <3>1 DEF Sure
  <2>. QED
    BY <1>2, <2>3 DEF Same
<1>4. CASE Hydrate(h)
  <2> DEFINE e == work[h].env
             data == restore[work[h].target].files
  <2>1. /\ Runs(h, "restore") /\ files' = [files EXCEPT ![e] = data] /\ files[e] \in {{}, data}
    BY <1>4 DEF Hydrate, Acts, Runs, Busy
  <2>2. CASE ~Kept
    <3>1. Confirmed = {}
      BY <2>2 DEF Good, Erased
    <3>. QED
      BY <1>2, <3>1 DEF Same, Sure
  <2>3. CASE Kept
    <3>1. work[h].target \in Request /\ data \subseteq Confirmed
          /\ \E n \in DOMAIN saved : saved[n].files = data
      BY <1>1, <2>1, <2>3, Restorable DEF Good, Stored, BegunBy
    <3>2. CASE files[e] = data
      <4>1. files' = files
        BY <1>1, <2>1, <3>2
      <4>. QED
        BY <1>2, <4>1 DEF Same, Sure
    <3>3. CASE files[e] = {}
      <4>1. \A t \in Environment : files'[t] \cap Confirmed = IF t = e THEN data ELSE files[t] \cap Confirmed
        BY <1>1, <2>1, <3>1
      <4>2. Sure' = [Sure EXCEPT ![e] = data]
        BY <1>1, <1>2, <4>1 DEF Sure
      <4>3. Sure[e] = {}
        BY <1>1, <3>3 DEF Sure
      <4>. QED
        BY <1>1, <1>2, <3>1, <4>2, <4>3 DEF Fills
    <3>. QED
      BY <2>1, <3>2, <3>3
  <2>. QED
    BY <2>2, <2>3
<1>5. CASE ~Execute(h) /\ ~Hydrate(h)
  <2>1. files' = files
    BY <1>5 DEF Engine, Created, Reconnect, ExportFiles, Remove, Preserved, Interrupted, EngineFails
  <2>. QED
    BY <1>2, <2>1 DEF Same, Sure
<1>. QED
  BY <1>3, <1>4, <1>5

\* The finish of a call opens its environment, or applies its effect there, or
\* drops it, or is not seen.
LEMMA FinishPromised ==
  ASSUME Good, Good', [Next]_vars, NEW h \in Handler, Finish(h)
  PROVE  \/ Same \/ \E c \in Call : Applies(c)
         \/ \E t \in Environment : Opens(t) \/ Drops(t)
<1>1. /\ Known /\ TypeOK /\ files \in [Environment -> SUBSET Call] /\ BegunBy(h) /\ env \in Env
      /\ Owns(h) /\ Open /\ env.op = h /\ work[h].env = env.id /\ env.id \in Environment
      /\ Busy(h) /\ work[h].stage = "finish" /\ env.id \in Nat /\ Environment \subseteq Nat
  BY BoundAssumption DEF Good, Known, TypeOK, Begun, Placed, Owns, Open, Finish, Busy, Env,
    Environment
<1>2. /\ env'.id = env.id /\ env'.status \in Outcomes(h) /\ files' = files /\ saved' = saved
      /\ lease' = lease
  BY Finished DEF Good, Known
<1>3. (Kept' <=> Kept) /\ (Succeeds(h) => Kept)
  BY <1>2 DEF Kept, Succeeds, Access
<1>4. ~(Succeeds(h) /\ work[h].kind = "command") => Confirmed' = Confirmed
  <2>1. ASSUME NEW g \in Handler, Finish(g) PROVE g = h
    BY <1>1, <2>1 DEF Finish, Owns
  <2>2. ASSUME ~(Succeeds(h) /\ work[h].kind = "command") PROVE Confirmed' \subseteq Confirmed
    BY <2>1, <2>2, Confirming DEF Confirmed, Good
  <2>3. Confirmed \subseteq Confirmed'
    BY <1>3, Grows DEF Good, Erased
  <2>. QED
    BY <2>2, <2>3
<1>5. CASE env'.status # "ready"
  <2>1. Sure' = Sure
    <3>1. ~(Succeeds(h) /\ work[h].kind = "command")
      <4>1. ASSUME Succeeds(h), work[h].kind = "command" PROVE Outcomes(h) = {"ready"}
        BY <4>1 DEF Outcomes, Succeeds, Access
      <4>. QED
        BY <1>2, <1>5, <4>1
    <3>. QED
      BY <1>2, <1>4, <3>1 DEF Sure
  <2>2. Live' = 0 /\ Live \in {0, env.id}
    BY <1>5 DEF Live
  <2>3. env'.status \notin {"creating", "ready"}
    BY <1>2, <1>5 DEF Outcomes
  <2>4. Dropped' = Dropped \cup {env.id}
    BY <1>1, <1>2, <2>3 DEF Dropped, Open
  <2>. QED
    BY <1>1, <1>2, <2>1, <2>2, <2>4 DEF Drops
<1>6. CASE env'.status = "ready" /\ env.status = "creating"
  <2>1. Succeeds(h) /\ Kept /\ Ends(h, "ok") /\ NewFiles(h) /\ work[h].kind \in {"create", "restore"}
    BY <1>1, <1>2, <1>3, <1>6 DEF Good, Exclusive, Truthful, BegunBy, Outcomes, Succeeds, Ends
  <2>2. Sure' = Sure
    BY <1>2, <1>4, <2>1 DEF Sure
  <2>3. Live = 0 /\ Live' = env.id /\ Dropped' = Dropped /\ env.id \notin Dropped
    BY <1>1, <1>2, <1>3, <1>6, <2>1 DEF Live, Dropped, Open
  <2>4. saved = <<>> \/ \E n \in DOMAIN saved : Sure[env.id] = saved[n].files
    <3>1. CASE work[h].kind = "create"
      BY <2>1, <3>1 DEF NewFiles
    <3>2. CASE work[h].kind = "restore"
      <4>1. /\ files[env.id] = restore[work[h].target].files
            /\ files[env.id] \subseteq Confirmed
            /\ \E n \in DOMAIN saved : saved[n].files = files[env.id]
        BY <1>1, <2>1, <3>2, Restorable DEF NewFiles, Good, Stored, BegunBy, Runs
      <4>2. Sure[env.id] = files[env.id]
        BY <1>1, <4>1 DEF Sure
      <4>. QED
        BY <4>1, <4>2
    <3>. QED
      BY <2>1, <3>1, <3>2
  <2>. QED
    BY <1>1, <1>2, <2>2, <2>3, <2>4 DEF Opens
<1>7. CASE env'.status = "ready" /\ env.status = "ready"
  <2>1. Live' = Live /\ Dropped' = Dropped
    BY <1>1, <1>2, <1>3, <1>7 DEF Live, Dropped, Open
  <2>2. CASE ~(Succeeds(h) /\ work[h].kind = "command")
    BY <1>2, <1>4, <2>1, <2>2 DEF Same, Sure
  <2>3. CASE Succeeds(h) /\ work[h].kind = "command"
    <3> DEFINE c == work[h].target
    <3>1. /\ c \in Call /\ command[c].status = "running" /\ command'[c].status = "completed"
          /\ \A d \in Call \ {c} : command'[d] = command[d]
          /\ command[c].env = env.id
      BY <1>1, <2>3, Finished DEF Good, Known, Receipt, BegunBy, Runs
    <3>2. Confirmed' = Confirmed \cup {c} /\ c \notin Confirmed
      BY <3>1 DEF Confirmed
    <3>3. c \in files[env.id]
      BY <1>1, <1>3, <1>7, <2>3 DEF Good, Truthful, OldFiles, AgreeBut, Succeeds, Ends
    <3>4. \A t \in Environment \ {env.id} : c \notin files[t]
      BY <1>3, <2>3, <3>1, <3>2 DEF Good, Stored
    <3>5. Sure' = [Sure EXCEPT ![env.id] = @ \cup {c}]
      <4>1. \A t \in Environment : files[t] \cap Confirmed' =
              IF t = env.id THEN (files[t] \cap Confirmed) \cup {c} ELSE files[t] \cap Confirmed
        BY <3>2, <3>3, <3>4
      <4>. QED
        BY <1>1, <1>2, <4>1 DEF Sure
    <3>6. Live = env.id /\ Live # 0
      BY <1>1, <1>3, <1>7, <2>3 DEF Live, Environment
    <3>7. \A t \in Environment : c \notin Sure[t]
      BY <3>2 DEF Sure
    <3>. QED
      BY <1>2, <2>1, <3>1, <3>5, <3>6, <3>7 DEF Applies
  <2>. QED
    BY <2>2, <2>3
<1>. QED
  BY <1>1, <1>5, <1>6, <1>7 DEF Open

LEMMA StepPromised ==
  ASSUME Good, Good', [Next]_vars
  PROVE  [Promise!Next]_(Promise!vars)
<1>1. /\ Known /\ TypeOK /\ TypeOK' /\ env \in Env /\ env.id \in Nat /\ Environment \subseteq Nat
      /\ env.status # "absent" => env.id \in Environment
      /\ lease \in Lease /\ command \in [Call -> Row] /\ saved \in Seq(Version)
  BY BoundAssumption DEF Good, Known, TypeOK, Placed, Env, Environment
<1>2. ASSUME Confirmed' = Confirmed, files' = files PROVE Sure' = Sure
  BY <1>2 DEF Sure
<1>3. CASE Quiet \/ (Untouched /\ env' = env)
  <2>1. Same
    BY <1>3 DEF Quiet, Untouched, Same, Sure, Live, Dropped, Open, Kept, Confirmed
  <2>. QED
    BY <2>1, PromiseSteps
<1>4. CASE CloseProject
  <2>1. Confirmed' = {} /\ ~Kept'
    BY <1>1, <1>4 DEF CloseProject, Confirmed, Row, Kept, Lease
  <2>2. Sure' = [t \in Environment |-> {}]
    BY <2>1 DEF Sure
  <2>3. Live' = 0 /\ Dropped' = Dropped /\ saved' = <<>>
    BY <1>4, <2>1 DEF CloseProject, Live, Dropped, Open
  <2>. QED
    BY <2>2, <2>3, PromiseSteps DEF Deletes
<1>5. CASE Sweep
  <2>1. /\ env'.id = env.id /\ env'.status = "closing" /\ saved' = saved /\ files' = files
        /\ command' = command /\ lease' = lease /\ env.status # "absent"
    BY <1>1, <1>5 DEF Sweep, Env
  <2>2. Sure' = Sure
    BY <1>2, <2>1 DEF Confirmed
  <2>3. Live \in {0, env.id} /\ Live' = 0 /\ Dropped' = Dropped \cup {env.id}
    BY <1>1, <2>1 DEF Live, Dropped, Open
  <2>. QED
    BY <1>1, <2>1, <2>2, <2>3, PromiseSteps DEF Drops
<1>6. CASE ConfirmClosed
  <2>1. /\ env'.id = env.id /\ env'.status = "closed" /\ env.status = "closing"
        /\ saved' = saved /\ files' = files /\ lease' = lease
    BY <1>1, <1>6 DEF ConfirmClosed, Env
  <2>2. Confirmed' = Confirmed
    BY <1>1, <1>6 DEF ConfirmClosed, Confirmed, Row
  <2>3. Same
    BY <1>1, <1>2, <2>1, <2>2 DEF Same, Live, Dropped, Open, Kept
  <2>. QED
    BY <2>3, PromiseSteps
<1>7. ASSUME NEW h \in Handler, BindsBy(h) PROVE [Promise!Next]_(Promise!vars)
  <2>1. /\ env'.id = env.id + 1 /\ env'.status = "creating" /\ env.status \in {"absent", "closed"}
        /\ saved' = saved /\ files' = files /\ command' = command
    BY <1>7 DEF BindsBy, OthersKept
  <2>2. Sure' = Sure
    BY <1>2, <2>1 DEF Confirmed
  <2>3. Live' = Live
    BY <2>1 DEF Live
  <2>4. Dropped' = Dropped
    <3>1. ~Open /\ Open'
      BY <2>1 DEF Open
    <3>2. \A e \in Environment : e < env.id + 1 <=> (e < env.id \/ e = env.id)
      BY <1>1
    <3>3. \A e \in Environment : e = env.id + 1 => ~(e < env.id)
      BY <1>1
    <3>. QED
      BY <2>1, <3>1, <3>2, <3>3 DEF Dropped
  <2>. QED
    BY <2>1, <2>2, <2>3, <2>4, PromiseSteps DEF Same
<1>8. ASSUME NEW h \in Handler, ClaimsBy(h) PROVE [Promise!Next]_(Promise!vars)
  <2>1. /\ env'.id = env.id /\ env'.status = env.status /\ lease' = lease
        /\ saved' = saved /\ files' = files
    BY <1>1, <1>8 DEF ClaimsBy, OthersKept, Env
  <2>2. Confirmed' = Confirmed
    BY <1>8 DEF ClaimsBy, Confirmed
  <2>3. Same
    BY <1>2, <2>1, <2>2 DEF Same, Live, Dropped, Open, Kept
  <2>. QED
    BY <2>3, PromiseSteps
<1>9. ASSUME NEW h \in Handler, Save(h) PROVE [Promise!Next]_(Promise!vars)
  <2> DEFINE v == [tree |-> copy[h].tree, files |-> copy[h].files]
  <2>1. /\ copy[h] # NoCopy /\ Kept /\ copy[h].parent = Len(saved) /\ saved' = Append(saved, v)
        /\ env' = env /\ lease' = lease /\ files' = files /\ command' = command /\ copy[h] \in Copy
    BY <1>1, <1>9 DEF Save, Latest, Access, Kept, TypeOK
  <2>2. copy[h].tree \in Environment
    BY <1>1, <2>1, BoundAssumption DEF Known, Placed, Env, Environment
  <2>3. v \in Version
    BY <2>1, <2>2 DEF Copy, Version
  <2>4. /\ copy[h].files \subseteq Confirmed \cap files[copy[h].tree]
        /\ \A n \in DOMAIN saved : saved[n].tree = copy[h].tree => saved[n].files \subseteq copy[h].files
    BY <1>1, <2>1 DEF Good, Archived
  <2>5. Sure' = Sure /\ Live' = Live /\ Dropped' = Dropped
    BY <1>2, <2>1 DEF Live, Dropped, Open, Kept, Confirmed
  <2>6. v.files \subseteq Sure[v.tree]
    BY <2>2, <2>4 DEF Sure
  <2>. QED
    BY <2>1, <2>3, <2>4, <2>5, <2>6, PromiseSteps DEF Saves
<1>10. ASSUME NEW h \in Handler, Engine(h) PROVE [Promise!Next]_(Promise!vars)
  BY <1>10, EnginePromised, PromiseSteps
<1>11. ASSUME NEW h \in Handler, Finish(h) PROVE [Promise!Next]_(Promise!vars)
  BY <1>11, FinishPromised, PromiseSteps
<1>12. ASSUME NEW H, Forgets(H) PROVE [Promise!Next]_(Promise!vars)
  <2>1. /\ env'.id = env.id /\ env'.status = env.status /\ lease' = lease
        /\ saved' = saved /\ files' = files /\ command' = command
    BY <1>1, <1>12 DEF Forgets, Untouched, Orphaned, Env
  <2>2. Same
    BY <1>2, <2>1 DEF Same, Live, Dropped, Open, Kept, Confirmed
  <2>. QED
    BY <2>2, PromiseSteps
<1>. QED
  BY <1>1, <1>3, <1>4, <1>5, <1>6, <1>7, <1>8, <1>9, <1>10, <1>11, <1>12, Steps

\* Every step of the workspace keeps the promise of WorkspaceFiles or changes
\* nothing of it: only confirmed effects enter an execution's files, each once,
\* a tree that was given up never comes back, and its successor starts from a
\* saved version.
THEOREM FilesKept == Spec => KeepsFiles
<1>1. Good /\ Good' /\ [Next]_vars => [Promise!Next]_(Promise!vars)
  BY StepPromised
<1>. QED
  BY <1>1, InitPromised, GoodInvariant, PTL DEF Spec, KeepsFiles, Promise!Spec
=============================================================================
