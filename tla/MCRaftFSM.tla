----------------------------- MODULE MCRaftFSM -----------------------------
(***************************************************************************)
(* Two daemons, one id, and one command of each kind that Apply tells      *)
(* apart.                                                                  *)
(***************************************************************************)
EXTENDS RaftFSM, TLC

CONSTANTS n1, n2, s1, k1, none

Cmd(table, op, id, state, idem, form) ==
    [table |-> table, op |-> op, id |-> id,
     row |-> [state |-> state, host |-> state], idem |-> idem, form |-> form]

MCRow == [state : {0, 1}, host : {0, 1}]

\* The upsert carries a key, so a retry of it after a set_state is visible.
\* The two commands are what a shared pointer and a lost key need to show.
ForReplicas == {
    Cmd("server", "upsert", s1, 0, k1, "ok"),
    Cmd("server", "set_state", s1, 1, none, "ok") }

\* For the order of events: three upserts are enough to fill a channel of two,
\* drop one and go on after a gap.
ForEvents == {Cmd("server", "upsert", s1, 0, none, "ok")}

MCInput == ForReplicas \cup ForEvents

\* One command for each way Apply and publish can go.
MCInputKinds == {
    Cmd("server", "upsert", s1, 0, k1, "ok"),
    Cmd("server", "set_host", s1, 1, k1, "ok"),
    Cmd("token", "upsert", s1, 0, none, "ok"),
    Cmd("server", "remove", s1, 0, k1, "bad_payload"),
    Cmd("server", "remove", s1, 0, none, "ok") }

\* The replicas and the subscribers are two questions, asked one at a time: no
\* subscriber and the first set of commands, or the second set and the
\* subscribers of one daemon, as channels do not interact.
OneQuestion ==
    LET Submitted == {log[i].cmd : i \in DOMAIN log}
                        \cup {uncommitted[i].cmd : i \in DOMAIN uncommitted}
        Subscribed == {n \in Node : subs[n] # <<>>}
    IN \/ Subscribed = {} /\ Submitted \subseteq ForReplicas
       \/ Cardinality(Subscribed) <= 1 /\ Submitted \subseteq ForEvents

Symmetry == Permutations(Node)
=============================================================================
