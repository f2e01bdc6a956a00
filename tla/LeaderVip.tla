----------------------------- MODULE LeaderVip ------------------------------
(***************************************************************************)
(* The virtual IP that follows the Raft leader: ObserveLeaderChanges of    *)
(* cluster.go on every node, the keepalived manager's WatchLeaderChanges   *)
(* that reads its channel, and the configuration it writes for keepalived. *)
(* Raft's observer and keepalived's election by priority are external.     *)
(***************************************************************************)
EXTENDS Naturals, Sequences, FiniteSets

CONSTANTS
    VipNode,
    Namings,      \* the namings of the nodes: sets of <<l, n>>, the id of n
                  \* occurs in the address of l
    NoLeader,
    ObsBuffer,    \* capacity of either channel (8)
    MaxElections, \* bound on elections
    MaxVipFaults  \* bound on failed writes and reloads, lost contacts, restarts of daemons

ASSUME VipAssumption ==
    /\ NoLeader \notin VipNode
    /\ \A names \in Namings : names \subseteq VipNode \X VipNode
    /\ {ObsBuffer, MaxElections, MaxVipFaults} \subseteq Nat

VARIABLES
    naming,    \* <<l, n>>: strings.Contains(address of l, id of n)
    leader,    \* Raft's leader
    view,      \* the leader each node knows of
    obs,       \* channel from Raft's observer to the goroutine
    out,       \* channel from the goroutine to the watcher
    todo,      \* the role the watcher is writing, or "idle"
    conf,      \* role in keepalived.conf
    running,   \* role that keepalived runs with
    haproxyUp, \* the tracked process answers
    fresh,     \* history: no newer observation than the watcher's was lost
    vipBudget

vipVars == <<naming, leader, view, obs, out, todo, conf, running, haproxyUp,
             fresh, vipBudget>>

VipSpend(what) ==
    /\ vipBudget[what] > 0
    /\ vipBudget' = [vipBudget EXCEPT ![what] = @ - 1]

VipInit ==
    /\ naming \in Namings
    /\ leader = NoLeader /\ view = [n \in VipNode |-> NoLeader]
    /\ obs = [n \in VipNode |-> <<>>] /\ out = [n \in VipNode |-> <<>>]
    /\ todo = [n \in VipNode |-> "idle"]
    /\ conf = [n \in VipNode |-> "none"] /\ running = [n \in VipNode |-> "none"]
    /\ haproxyUp = [n \in VipNode |-> TRUE]
    /\ fresh = [n \in VipNode |-> FALSE]
    /\ vipBudget = [elections |-> MaxElections, faults |-> MaxVipFaults]

-----------------------------------------------------------------------------
ElectVip(l) ==
    /\ leader # l /\ VipSpend("elections")
    /\ leader' = l
    /\ UNCHANGED <<naming, view, obs, out, todo, conf, running, haproxyUp, fresh>>

\* Raft tells its observers, without blocking, that the node's leader changed.
Observe(n, v) ==
    /\ view' = [view EXCEPT ![n] = v]
    /\ fresh' = [fresh EXCEPT ![n] = Len(obs[n]) < ObsBuffer]
    /\ obs' = IF Len(obs[n]) < ObsBuffer THEN [obs EXCEPT ![n] = Append(@, v)] ELSE obs
    /\ UNCHANGED <<naming, leader, out, todo, conf, running, haproxyUp>>

LearnLeader(n) == view[n] # leader /\ Observe(n, leader) /\ UNCHANGED vipBudget

LoseContact(n) == view[n] # NoLeader /\ VipSpend("faults") /\ Observe(n, NoLeader)

\* The goroutine hands an observation on, or drops it when `out` is full.
Pump(n) ==
    LET room == Len(out[n]) < ObsBuffer IN
    /\ obs[n] # <<>>
    /\ obs' = [obs EXCEPT ![n] = Tail(@)]
    /\ out' = IF room THEN [out EXCEPT ![n] = Append(@, Head(obs[n]))] ELSE out
    /\ fresh' = [fresh EXCEPT ![n] = @ /\ (room \/ Len(obs[n]) > 1)]
    /\ UNCHANGED <<naming, leader, view, todo, conf, running, haproxyUp, vipBudget>>

Role(n, v) == IF v # NoLeader /\ <<v, n>> \in naming THEN "MASTER" ELSE "BACKUP"

\* The watcher takes an address and chooses SetLeader or SetBackup.
WatchLeaderChanges(n) ==
    /\ todo[n] = "idle" /\ out[n] # <<>>
    /\ todo' = [todo EXCEPT ![n] = Role(n, Head(out[n]))]
    /\ out' = [out EXCEPT ![n] = Tail(@)]
    /\ UNCHANGED <<naming, leader, view, obs, conf, running, haproxyUp, fresh, vipBudget>>

\* writeConfig: temporary file, rename, reload.
WriteConfig(n) ==
    /\ todo[n] \in {"MASTER", "BACKUP"}
    /\ conf' = [conf EXCEPT ![n] = todo[n]]
    /\ running' = [running EXCEPT ![n] = todo[n]]
    /\ todo' = [todo EXCEPT ![n] = "idle"]
    /\ UNCHANGED <<naming, leader, view, obs, out, haproxyUp, fresh, vipBudget>>

\* Mutant: the watcher returns on an error.
WriteConfigFailsForGood(n) ==
    /\ todo[n] \in {"MASTER", "BACKUP"} /\ VipSpend("faults")
    /\ todo' = [todo EXCEPT ![n] = "returned"]
    /\ fresh' = [fresh EXCEPT ![n] = @ /\ (obs[n] # <<>> \/ out[n] # <<>>)]
    /\ UNCHANGED <<naming, leader, view, obs, out, conf, running, haproxyUp>>

\* It fails before the rename, which changes nothing, or at the reload, with
\* the new file in place.  The watcher logs it and goes on.
WriteConfigFails(n) ==
    /\ todo[n] \in {"MASTER", "BACKUP"} /\ VipSpend("faults")
    /\ conf' \in {conf, [conf EXCEPT ![n] = todo[n]]}
    /\ todo' = [todo EXCEPT ![n] = "idle"]
    /\ fresh' = [fresh EXCEPT ![n] = @ /\ (obs[n] # <<>> \/ out[n] # <<>>)]
    /\ UNCHANGED <<naming, leader, view, obs, out, running, haproxyUp>>

\* keepalived restarts on its own and reads its file.
KeepalivedRestarts(n) ==
    /\ running[n] # conf[n]
    /\ running' = [running EXCEPT ![n] = conf[n]]
    /\ UNCHANGED <<naming, leader, view, obs, out, todo, conf, haproxyUp, fresh, vipBudget>>

\* The daemon dies and comes back with empty channels and no leader in sight;
\* keepalived keeps the role it has.
DaemonRestarts(n) ==
    /\ VipSpend("faults")
    /\ view' = [view EXCEPT ![n] = NoLeader] /\ fresh' = [fresh EXCEPT ![n] = FALSE]
    /\ obs' = [obs EXCEPT ![n] = <<>>] /\ out' = [out EXCEPT ![n] = <<>>]
    /\ todo' = [todo EXCEPT ![n] = "idle"]
    /\ UNCHANGED <<naming, leader, conf, running, haproxyUp>>

HAProxyFlips(n) ==
    /\ haproxyUp' = [haproxyUp EXCEPT ![n] = ~@]
    /\ UNCHANGED <<naming, leader, view, obs, out, todo, conf, running, fresh, vipBudget>>

-----------------------------------------------------------------------------
\* Mutant: the tracked script weighs more than the gap between the roles.
HeavyPriority(n) ==
    (CASE running[n] = "MASTER" -> 150 [] running[n] = "BACKUP" -> 100 [] OTHER -> 20)
        - (IF haproxyUp[n] THEN 0 ELSE 60)

\* SetLeader 150, SetBackup 100, and the weight of chk_haproxy; a keepalived
\* without our configuration does not compete.
Priority(n) ==
    (CASE running[n] = "MASTER" -> 150 [] running[n] = "BACKUP" -> 100 [] OTHER -> 20)
        - (IF haproxyUp[n] THEN 0 ELSE 20)

\* keepalived gives the address to a highest priority.
Holders == {n \in VipNode : \A m \in VipNode : Priority(m) <= Priority(n)}

VipStep(n) == LearnLeader(n) \/ Pump(n) \/ WatchLeaderChanges(n) \/ WriteConfig(n)

VipNext ==
    \/ \E l \in VipNode \cup {NoLeader} : ElectVip(l)
    \/ \E n \in VipNode : VipStep(n) \/ LoseContact(n) \/ WriteConfigFails(n) \/ KeepalivedRestarts(n)
                          \/ DaemonRestarts(n) \/ HAProxyFlips(n)

VipSpec == VipInit /\ [][VipNext]_vipVars

\* Raft, the goroutine and the watcher go on on every node.
VipFairSpec == VipSpec /\ \A n \in VipNode : WF_vipVars(VipStep(n))

-----------------------------------------------------------------------------
\* Properties.

Known(l) == leader = l /\ \A n \in VipNode : view[n] = l /\ fresh[n]
Idle(n) == obs[n] = <<>> /\ out[n] = <<>> /\ todo[n] = "idle"

Named(l) == {n \in VipNode : <<l, n>> \in naming}

\* When every node has acted on the last leader it was told of, and the id of
\* some node occurs in that leader's address, the address is on such a node,
\* through failed writes, restarts and observations dropped before that, and
\* whatever HAProxy's health.  It is the leader when its id occurs in its own
\* address and no other id does.
VipFollowsLeader ==
    \A l \in VipNode :
        (Known(l) /\ Named(l) # {} /\ \A n \in VipNode : Idle(n)) => Holders \subseteq Named(l)

\* Once the leader stays and no node loses the news of it, the address settles
\* there.
VipSettles ==
    \A l \in VipNode : <>[](Known(l) /\ Named(l) # {}) => <>[](Holders \subseteq Named(l))

\* What vip.go says of the address: it "follows the Raft leader".  When every
\* node has acted on the leader and HAProxy runs everywhere, the leader, and
\* no other node, has the highest priority.  With ids that are host names and
\* leader addresses that are resolved to ip:port no id occurs in an address,
\* every node is BACKUP, and the tie is broken by the nodes' own addresses.
VipOnLeader ==
    \A l \in VipNode :
        (Known(l) /\ \A n \in VipNode : Idle(n) /\ haproxyUp[n]) => Holders = {l}
=============================================================================
