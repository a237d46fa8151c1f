-------------------------- MODULE ConversationQueue --------------------------
(***************************************************************************)
(* What the platform promises of the turns of a conversation: each message *)
(* is one turn, a turn works alone and in its place in the queue, it is    *)
(* answered at most once, and only a turn that was answered is committed.  *)
(*                                                                         *)
(* A turn may leave work for the queue (it waits for an approval, or was   *)
(* paused) as long as it has not been answered.  AgentTurn implements this *)
(* specification.                                                          *)
(***************************************************************************)
EXTENDS Naturals

CONSTANTS Turn, ConversationOf

VARIABLES
    phase,      \* absent, queued, working, committed or dropped
    ticket,     \* its place in its conversation's queue
    answered    \* the turns whose reply is stored

queue == <<phase, ticket, answered>>

Init ==
    /\ phase = [t \in Turn |-> "absent"]
    /\ ticket = [t \in Turn |-> 0]
    /\ answered = {}

Sibling(u, t) == u # t /\ ConversationOf[u] = ConversationOf[t]

Before(u, t) == ticket[u] < ticket[t] \/ (ticket[u] = ticket[t] /\ u < t)

-----------------------------------------------------------------------------
\* Tickets need not be given out in order.
TakesTicket(t) ==
    ticket'[t] \in Nat /\ ticket' = [ticket EXCEPT ![t] = ticket'[t]]

Enqueue(t) ==
    /\ phase[t] = "absent"
    /\ phase' = [phase EXCEPT ![t] = "queued"]
    /\ TakesTicket(t)
    /\ UNCHANGED answered

\* The first of the queue starts, in any number of idle conversations at once.
Start(T) ==
    /\ \A t \in T :
        /\ phase[t] = "queued"
        /\ \A u \in Turn : Sibling(u, t) =>
            /\ u \notin T /\ phase[u] # "working"
            /\ phase[u] = "queued" => ~Before(u, t)
    /\ phase' = [t \in Turn |-> IF t \in T THEN "working" ELSE phase[t]]
    /\ UNCHANGED <<ticket, answered>>

\* A turn that finds no other before it may start without queueing.
StartDirect(t) ==
    /\ phase[t] = "absent"
    /\ \A u \in Turn : Sibling(u, t) => phase[u] \notin {"queued", "working"}
    /\ phase' = [phase EXCEPT ![t] = "working"]
    /\ TakesTicket(t)
    /\ UNCHANGED answered

Park(t) ==
    /\ phase[t] = "working" /\ t \notin answered
    /\ phase' = [phase EXCEPT ![t] = "queued"]
    /\ UNCHANGED <<ticket, answered>>

\* The reply of a turn may still arrive after the turn was dropped at work.
Answer(t) ==
    /\ phase[t] \in {"working", "dropped"} /\ t \notin answered
    /\ answered' = answered \cup {t}
    /\ UNCHANGED <<phase, ticket>>

Commit(t) ==
    /\ phase[t] = "working" /\ t \in answered
    /\ phase' = [phase EXCEPT ![t] = "committed"]
    /\ UNCHANGED <<ticket, answered>>

\* Turns fail or are cancelled, one at a time or all those at work in a crash.
Drop(T) ==
    /\ \A t \in T : phase[t] \in {"queued", "working"}
    /\ phase' = [t \in Turn |-> IF t \in T THEN "dropped" ELSE phase[t]]
    /\ UNCHANGED <<ticket, answered>>

Next ==
    \/ \E t \in Turn : Enqueue(t) \/ StartDirect(t) \/ Park(t) \/ Answer(t) \/ Commit(t)
    \/ \E T \in SUBSET Turn : Start(T) \/ Drop(T)

Spec == Init /\ [][Next]_queue

=============================================================================
