---------------------------- MODULE MCScheduler ----------------------------
(***************************************************************************)
(* Instances of Scheduler for TLC: group records for the runs, and the     *)
(* permutations under which the safety runs are symmetric.                 *)
(***************************************************************************)
EXTENDS Scheduler, TLC

CONSTANT MinMax   \* the <<min, max>> pairs of the groups to create

MCGroupSpecs ==
    {[min |-> p[1], max |-> p[2], ha |-> FALSE, tpl |-> t] :
        p \in MinMax, t \in Template}

NoBounds == {}
ExactlyOne == {<<1, 1>>}

\* Failover and autoscaling, one at a time: servers from the start and a crash,
\* or a group, a call and a live leader that is deposed.  What is left out in
\* each case is never subject to fairness.
OneTrouble ==
    \/ /\ Present(fsm.group) = {}
       /\ budget.elections = MaxElections /\ budget.requests = MaxRequests
    \/ /\ InitServers \cap Present(fsm.server) = {}
       /\ budget.crashes = MaxCrashes

\* Server ids are handed out in one fixed order, so they are not symmetric.
Symmetry == Permutations(Node)
=============================================================================
