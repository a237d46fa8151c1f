--------------------------- MODULE WorkspaceFiles ---------------------------
(***************************************************************************)
(* What the platform promises of the files of one execution.  They live in *)
(* a tree that only confirmed effects enter, each once; a tree that was    *)
(* given up never comes back; its successor starts from a saved version,   *)
(* and empty only while nothing was ever saved; and a version saved from a *)
(* tree holds whatever an earlier version saved from it held.              *)
(***************************************************************************)
EXTENDS Naturals, Sequences

CONSTANTS Tree, Effect

VARIABLES
    files,      \* what is confirmed of each tree's contents
    live,       \* the tree in use, 0 for none
    dropped,    \* the trees given up
    saved       \* the versions saved: where from, and what
vars == <<files, live, dropped, saved>>

Version == [tree : Tree, files : SUBSET Effect]
Saves   == {saved[v].files : v \in DOMAIN saved}

Init ==
    /\ files = [t \in Tree |-> {}]
    /\ live = 0 /\ dropped = {} /\ saved = <<>>

\* A tree is filled once, with a saved version, before its use or in it; if it
\* was given up meanwhile nobody sees it.
Fill(t) ==
    /\ files[t] = {}
    /\ \E e \in Saves : files' = [files EXCEPT ![t] = e]
    /\ UNCHANGED <<live, dropped, saved>>

Open(t) ==
    /\ live = 0 /\ t \notin dropped
    /\ saved = <<>> \/ files[t] \in Saves
    /\ live' = t
    /\ UNCHANGED <<files, dropped, saved>>

Apply(e) ==
    /\ live # 0 /\ \A t \in Tree : e \notin files[t]
    /\ files' = [files EXCEPT ![live] = @ \cup {e}]
    /\ UNCHANGED <<live, dropped, saved>>

Save(v) ==
    /\ v.files \subseteq files[v.tree]
    /\ \A n \in DOMAIN saved : saved[n].tree = v.tree => saved[n].files \subseteq v.files
    /\ saved' = Append(saved, v)
    /\ UNCHANGED <<files, live, dropped>>

\* The tree in use is given up, or one that was never opened is.
Drop(t) ==
    /\ live \in {0, t} /\ dropped' = dropped \cup {t}
    /\ live' = 0
    /\ UNCHANGED <<files, saved>>

\* The project is deleted, and with it every record of the files.
Delete ==
    /\ files' = [t \in Tree |-> {}]
    /\ live' = 0 /\ saved' = <<>>
    /\ UNCHANGED dropped

Next ==
    \/ \E t \in Tree : Fill(t) \/ Open(t) \/ Drop(t)
    \/ \E e \in Effect : Apply(e)
    \/ \E v \in Version : Save(v)
    \/ Delete

Spec == Init /\ [][Next]_vars
=============================================================================
