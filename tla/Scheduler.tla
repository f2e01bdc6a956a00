----------------------------- MODULE Scheduler -----------------------------
(***************************************************************************)
(* The control plane's decisions: the heartbeat broadcaster                *)
(* (daemon/internal/heartbeat), scheduler.tick with failover, placement    *)
(* and group autoscaling (daemon/internal/scheduler), the REST handlers    *)
(* that start, stop, restart and delete a server                           *)
(* (daemon/internal/api/rest.go) and the group and template service        *)
(* (daemon/internal/tasks/groups.go).                                      *)
(*                                                                         *)
(* The FSM is one record of maps here: RaftFSM shows that the replicas     *)
(* agree.  Every mutation reads those maps, computes, and commits later    *)
(* through cluster.Apply; the steps between belong to everyone else.       *)
(*                                                                         *)
(* Time passes in periods of 500ms.  The leader's heartbeat ticker and     *)
(* scheduler ticker each fire once in a period, in either order and        *)
(* interleaved with the API; commits are fast against the period, so a     *)
(* period does not end inside a tick.  Clocks of different daemons agree.  *)
(***************************************************************************)
EXTENDS Naturals, FiniteSets

CONSTANTS
    Node,         \* daemons
    Server,       \* server ids that may ever be handed out
    Group,        \* group ids
    Template,     \* template ids
    None,         \* absent record, no leader, nothing to commit
    Deadline,     \* HeartbeatDeadline, in periods (1000ms: 2)
    Grace,        \* FailoverGrace, in periods (2s: 4)
    Rooms,        \* what a heartbeat may report: enough free memory or not
    GroupSpecs,   \* the group records CreateGroup is called with
    InitServers,  \* the servers that may exist at the start
    InitGroups,   \* the groups that may exist at the start
    MaxElections, \* bound on the elections that depose a live leader
    MaxCrashes,   \* bound on daemon crashes
    MaxLeaderless,\* bound on the periods without a leader
    MaxRequests,  \* bound on API and service calls
    MaxFailures   \* bound on the scheduler's Applies that fail in office

\* types.Group: ha is HARequired, tpl the template; max = 0 means no maximum.
GroupRec == [min : Nat, max : Nat, ha : BOOLEAN, tpl : Template]

ASSUME SchedulerAssumption ==
    /\ None \notin Node \cup Server \cup Group \cup Template
    /\ IsFiniteSet(Node) /\ IsFiniteSet(InitServers)
    /\ InitServers \subseteq Server /\ InitGroups \subseteq Group
    /\ GroupSpecs \subseteq GroupRec
    /\ Rooms \subseteq BOOLEAN
    /\ Deadline \in Nat /\ Grace \in Nat
    /\ MaxElections \in Nat /\ MaxCrashes \in Nat
    /\ MaxLeaderless \in Nat /\ MaxRequests \in Nat /\ MaxFailures \in Nat

VARIABLES
    leader,    \* the daemon for which IsLeader() holds, or None
    alive,     \* the daemons that run
    fsm,       \* committed state: maps of node, server, group, template
    sched,     \* the leader's scheduler: where in tick it is
    beat,      \* the leader's heartbeat fired in this period
    ticked,    \* the leader's scheduler ticked in this period
    requests,  \* calls between their read and their last commit
    late,      \* entries of the last leader its successor has not applied
    used,      \* server ids handed out (newID is random: never twice)
    flaws,     \* history: what was wrong with the leader's latest tick
    budget     \* what is left of the bounds

vars == <<leader, alive, fsm, sched, beat, ticked, requests, late, used, flaws,
          budget>>

\* The age of a record is now - LastHeartbeat; beyond the last threshold it
\* makes no further difference.
MaxAge == Deadline + Grace + 1
NodeRec == [state : {"Up", "Suspect", "Down"}, age : 0..MaxAge, room : BOOLEAN]
ServerRec == [host : Node, state : {"Starting", "Stopping", "Orphaned"},
              ha : BOOLEAN, group : Group \cup {None}]

\* What a heartbeat says of its node.
FreshNode(r) == [state |-> "Up", age |-> 0, room |-> r]

\* A command handed to cluster.Apply: an upsert, or a removal (val = None).
Write(to, id, val) == [to |-> to, id |-> id, val |-> val]
OrNone(S) == S \cup {None}
WriteType ==
    [to : {"node"}, id : Node, val : NodeRec] \cup
    [to : {"server"}, id : Server, val : OrNone(ServerRec)] \cup
    [to : {"group"}, id : Group, val : OrNone(GroupSpecs)] \cup
    [to : {"template"}, id : Template, val : {None, "dynamic"}]

ASSUME NoneAssumption == None \notin WriteType \cup ServerRec

Committed(w) == [fsm EXCEPT ![w.to][w.id] = w.val]

Present(m) == {x \in DOMAIN m : m[x] # None}
InGroup(m, g) == {s \in Present(m) : m[s].group = g}

Idle == [phase |-> "idle", todo |-> {}, cur |-> None, orphans |-> {},
         seen |-> [g \in Group |-> {}], groups |-> {}, grp |-> None,
         spawn |-> 0, stops |-> {}, out |-> None]

Quorum(S) == Cardinality(S) * 2 > Cardinality(Node)

\* Mutant: placement looks at free memory only.
ViableHostsAnyState(exclude) ==
    {n \in Present(fsm.node) \ {exclude} : fsm.node[n].room}

\* pickHost: nodes recorded Up with enough free memory, the excluded one left
\* out.  It returns the one with the most free memory; amounts are abstracted
\* to `room`, so any of them may be that one.
ViableHosts(exclude) ==
    {n \in Present(fsm.node) \ {exclude} :
        fsm.node[n].state = "Up" /\ fsm.node[n].room}

-----------------------------------------------------------------------------
\* A cluster that has been running: the leader has written its heartbeat,
\* servers may have been placed on it, templates and groups created.
Init ==
    /\ leader \in Node
    /\ alive = Node
    /\ \E srv \in [InitServers ->
                     {None} \cup [host : {leader}, state : {"Starting"},
                                  ha : BOOLEAN, group : {None}]],
          grp \in [InitGroups -> {None} \cup GroupSpecs] :
         fsm = [node |-> [n \in Node |->
                            IF n = leader
                            THEN FreshNode(TRUE)
                            ELSE None],
                server |-> [s \in Server |->
                              IF s \in InitServers THEN srv[s] ELSE None],
                group |-> [g \in Group |->
                             IF g \in InitGroups THEN grp[g] ELSE None],
                template |-> [t \in Template |-> "dynamic"]]
    /\ sched = Idle
    /\ beat = FALSE /\ ticked = FALSE
    /\ requests = {} /\ late = {}
    /\ used = InitServers /\ flaws = {}
    /\ budget = [elections |-> MaxElections, crashes |-> MaxCrashes,
                 leaderless |-> MaxLeaderless, requests |-> MaxRequests,
                 failures |-> MaxFailures]

\* A commit through the leader's log: what the last leader left in the log
\* comes first.
CanCommit == leader # None /\ late = {}

\* Mutant: a heartbeat refreshes the record and keeps its state.
HeartbeatKeepsState(n) ==
    /\ n = leader /\ ~beat /\ CanCommit
    /\ beat' = TRUE
    /\ \E r \in Rooms :
         fsm' = Committed(Write("node", n,
            [state |-> IF fsm.node[n] = None THEN "Up" ELSE fsm.node[n].state,
             age |-> 0, room |-> r]))
    /\ UNCHANGED <<leader, alive, sched, ticked, requests, late, used, budget, flaws>>

\* broadcast: the record says Up, with a fresh sample and time stamp.  Only
\* the leader commits it; on a follower broadcast returns without sending,
\* which changes nothing.
Heartbeat(n) ==
    /\ n = leader /\ ~beat /\ CanCommit
    /\ beat' = TRUE
    /\ \E r \in Rooms :
         fsm' = Committed(Write("node", n, FreshNode(r)))
    /\ UNCHANGED <<leader, alive, sched, ticked, requests, late, used, budget, flaws>>

Older(rec) ==
    IF rec # None /\ rec.age < MaxAge THEN [rec EXCEPT !.age = rec.age + 1] ELSE rec

\* A period passes once the leader has done its part of it.  A tick in which
\* an Apply timed out may last longer than that.
Advance ==
    /\ IF leader = None THEN budget.leaderless > 0
       ELSE beat /\ (ticked \/ "failed" \in flaws)
    /\ budget' = IF leader = None
                 THEN [budget EXCEPT !.leaderless = budget.leaderless - 1]
                 ELSE budget
    /\ beat' = FALSE /\ ticked' = FALSE
    /\ fsm' = [fsm EXCEPT !.node = [n \in Node |-> Older(fsm.node[n])]]
    /\ late' = {IF w.to = "node" THEN Write("node", w.id, Older(w.val)) ELSE w :
                  w \in late}
    /\ UNCHANGED <<leader, alive, sched, requests, used, flaws>>

\* A call hands its commands to Raft one by one: `todo` in any order, then
\* `last`.
Handed(r) == IF r.todo # {} THEN r.todo ELSE {r.last}

\* What the leader's goroutines may have in Raft's hands, one command of each
\* set: the calls, the scheduler, the heartbeat of this period.
InFlight ==
    {Handed(r) : r \in requests}
    \cup {{sched.out} \ {None}}
    \cup {IF beat \/ leader = None THEN {}
          ELSE {Write("node", leader, FreshNode(r)) : r \in Rooms}}

\* What the leader had handed to Raft when it lost office may be in its
\* successor's log or not; what its loops still meant to send fails with
\* ErrNotLeader.
LoseOffice ==
    /\ late' \in {S \in SUBSET (late \cup UNION InFlight) :
                   \A one \in InFlight : Cardinality(S \cap one) <= 1}
    /\ sched' = Idle /\ requests' = {}
    /\ beat' = FALSE /\ ticked' = FALSE /\ flaws' = {}

\* Raft (external): a live daemon is elected by a quorum of live ones.
Elect(n) ==
    /\ n \in alive /\ n # leader /\ Quorum(alive)
    /\ \/ leader = None /\ UNCHANGED budget
       \/ /\ leader # None /\ budget.elections > 0
          /\ budget' = [budget EXCEPT !.elections = budget.elections - 1]
    /\ leader' = n
    /\ LoseOffice
    /\ UNCHANGED <<alive, fsm, used>>

\* The new leader applies an entry of the old one.  Nothing makes its
\* scheduler wait for that: Run tests IsLeader and calls no Barrier.
LateCommit(w) ==
    /\ leader # None
    /\ fsm' = Committed(w)
    /\ late' = late \ {w}
    /\ UNCHANGED <<leader, alive, sched, beat, ticked, requests, used, budget, flaws>>

\* A machine dies.  Without a quorum the leader steps down.
Crash(n) ==
    /\ n \in alive
    /\ budget.crashes > 0
    /\ budget' = [budget EXCEPT !.crashes = budget.crashes - 1]
    /\ alive' = alive \ {n}
    /\ IF leader # None /\ (n = leader \/ ~Quorum(alive'))
       THEN leader' = None /\ LoseOffice
       ELSE UNCHANGED <<leader, sched, requests, late, beat, ticked, flaws>>
    /\ UNCHANGED <<fsm, used>>

\* The machine comes back; as a follower it writes nothing.
Recover(n) ==
    /\ n \notin alive
    /\ alive' = alive \cup {n}
    /\ UNCHANGED <<leader, fsm, sched, beat, ticked, requests, late, used, budget, flaws>>

-----------------------------------------------------------------------------
\* scheduler.tick, on the leader.  A step of it changes `sched` only, until
\* SchedulerCommit; while a write is out the tick waits in cluster.Apply.
Tick(phase) == leader # None /\ sched.phase = phase /\ sched.out = None
TickStep(s) ==
    /\ sched' = s
    /\ UNCHANGED <<leader, alive, fsm, beat, ticked, requests, late, used, budget, flaws>>

\* tick begins: Nodes() copies every record, ages are taken now.  What they
\* say is stale while entries of the last leader are not applied.
StartTick ==
    /\ Tick("idle") /\ ~ticked
    /\ sched' = [Idle EXCEPT !.phase = "nodes",
                   !.todo = {[id |-> n, rec |-> fsm.node[n]] : n \in Present(fsm.node)}]
    /\ flaws' = IF late = {} THEN {} ELSE {"stale"}
    /\ UNCHANGED <<leader, alive, fsm, beat, ticked, requests, late, used, budget>>

\* What the liveness loop makes of a copied record.
Overdue(rec) == rec.state # "Down" /\ rec.age > Deadline + Grace
Doubtful(rec) ==
    rec.state \notin {"Down", "Suspect"} /\ rec.age \in Deadline + 1 .. Deadline + Grace

\* Mutant: a node that is already Suspect is taken for handled.
CheckNodeSkipsSuspect(c) ==
    /\ Tick("nodes")
    /\ LET rest == [sched EXCEPT !.todo = sched.todo \ {c}] IN
       IF c.rec.state = "Up" /\ c.rec.age > Deadline
       THEN TickStep([rest EXCEPT !.out =
              Write("node", c.id, [c.rec EXCEPT !.state = "Suspect"])])
       ELSE TickStep(rest)

\* One iteration of the liveness loop, on a copy of the record.
CheckNode(c) ==
    /\ Tick("nodes")
    /\ LET rest == [sched EXCEPT !.todo = sched.todo \ {c}] IN
       \/ /\ Overdue(c.rec)
          /\ TickStep([rest EXCEPT !.phase = "mark", !.cur = c.id])
       \/ /\ Doubtful(c.rec)
          /\ TickStep([rest EXCEPT !.out =
               Write("node", c.id, [c.rec EXCEPT !.state = "Suspect"])])
       \/ /\ ~Overdue(c.rec) /\ ~Doubtful(c.rec)
          /\ TickStep(rest)

\* markNodeDown reads the record again and writes it back as Down.
MarkNodeDown ==
    /\ Tick("mark")
    /\ TickStep([sched EXCEPT !.phase = "list",
                   !.out = Write("node", sched.cur,
                             [fsm.node[sched.cur] EXCEPT !.state = "Down"])])

\* evacuate begins: ServersOnNode copies the records.
EvacuateList ==
    /\ Tick("list")
    /\ TickStep([sched EXCEPT !.phase = "evacuate",
                   !.orphans = {[id |-> s, rec |-> fsm.server[s]] :
                       s \in {t \in Present(fsm.server) :
                                fsm.server[t].host = sched.cur}}])

\* Mutant: every server is moved, the ones that need no HA included.
EvacuateAnyServer(o) ==
    /\ Tick("evacuate")
    /\ \E t \in ViableHosts(sched.cur) :
         TickStep([sched EXCEPT !.orphans = sched.orphans \ {o},
                     !.out = Write("server", o.id,
                        [o.rec EXCEPT !.host = t, !.state = "Starting"])])

\* One iteration of evacuate: a server that needs no HA is marked Orphaned
\* where it is; one that does is given a viable host; without one the failure
\* is logged and the server left.
EvacuateServer(o) ==
    /\ Tick("evacuate")
    /\ LET rest == [sched EXCEPT !.orphans = sched.orphans \ {o}] IN
       \/ /\ ~o.rec.ha
          /\ TickStep([rest EXCEPT !.out =
               Write("server", o.id, [o.rec EXCEPT !.state = "Orphaned"])])
       \/ /\ o.rec.ha
          /\ \E t \in ViableHosts(sched.cur) :
               TickStep([rest EXCEPT !.out =
                 Write("server", o.id,
                       [o.rec EXCEPT !.host = t, !.state = "Starting"])])
       \/ /\ o.rec.ha /\ ViableHosts(sched.cur) = {}
          /\ TickStep(rest)

EvacuateEnd ==
    /\ Tick("evacuate") /\ sched.orphans = {}
    /\ TickStep([sched EXCEPT !.phase = "nodes", !.cur = None])

\* The autoscaling half begins: Servers() is copied and split by group, in
\* whatever state the servers are.
ReadServers ==
    /\ Tick("nodes") /\ sched.todo = {}
    /\ TickStep([sched EXCEPT !.phase = "groups",
                   !.seen = [g \in Group |-> InGroup(fsm.server, g)]])

\* Groups() is copied later, under a lock of its own.
ReadGroups ==
    /\ Tick("groups")
    /\ TickStep([sched EXCEPT !.phase = "scale",
                   !.groups = {[id |-> g, rec |-> fsm.group[g]] :
                                 g \in Present(fsm.group)}])

\* Mutant: one instance fewer than the minimum will do.
ScaleGroupOffByOne(g) ==
    LET n == Cardinality(sched.seen[g.id])
        next == [sched EXCEPT !.groups = sched.groups \ {g}, !.grp = g] IN
    /\ Tick("scale") /\ sched.spawn = 0 /\ sched.stops = {}
    /\ IF n + 1 < g.rec.min
       THEN TickStep([next EXCEPT !.spawn = g.rec.min - n])
       ELSE TickStep(next)

\* The previous group is done; what the next one lacks or has too many of.
\* No player counts are ever reported, so the sort by players leaves any of
\* the instances in front.
ScaleGroup(g) ==
    LET n == Cardinality(sched.seen[g.id])
        next == [sched EXCEPT !.groups = sched.groups \ {g}, !.grp = g] IN
    /\ Tick("scale") /\ sched.spawn = 0 /\ sched.stops = {}
    /\ \/ /\ n < g.rec.min
          /\ TickStep([next EXCEPT !.spawn = g.rec.min - n])
       \/ /\ n >= g.rec.min /\ g.rec.max > 0 /\ n > g.rec.max
          /\ \E D \in {S \in SUBSET sched.seen[g.id] : Cardinality(S) = n - g.rec.max} :
               TickStep([next EXCEPT !.stops = D])
       \/ /\ n >= g.rec.min /\ (g.rec.max = 0 \/ n <= g.rec.max)
          /\ TickStep(next)

\* newID draws a fresh random id; which one makes no difference.
NewID(s) == s \notin used /\ s = CHOOSE t \in Server \ used : TRUE

\* spawnGroupInstance: fails without its template or without a host, and the
\* error is dropped.
SpawnInstance ==
    LET g == sched.grp.rec
        rest == [sched EXCEPT !.spawn = sched.spawn - 1] IN
    /\ Tick("scale") /\ sched.spawn > 0
    /\ \/ /\ fsm.template[g.tpl] = None \/ ViableHosts(None) = {}
          /\ TickStep(rest)
       \/ /\ fsm.template[g.tpl] # None
          /\ \E h \in ViableHosts(None), s \in {t \in Server : NewID(t)} :
               /\ used' = used \cup {s}
               /\ sched' = [rest EXCEPT !.out = Write("server", s,
                     [host |-> h, state |-> "Starting", ha |-> g.ha,
                      group |-> sched.grp.id])]
               /\ UNCHANGED <<leader, alive, fsm, beat, ticked, requests, late, budget, flaws>>

\* Mutant: the lookup's ok is ignored, the zero record is written.
StopInstanceUnchecked(s) ==
    /\ Tick("scale")
    /\ TickStep([sched EXCEPT !.stops = sched.stops \ {s},
         !.out = Write("server", s,
           IF fsm.server[s] = None
           THEN [host |-> None, state |-> "Stopping", ha |-> FALSE, group |-> None]
           ELSE [fsm.server[s] EXCEPT !.state = "Stopping"])])

\* stopServer reads the record again.
StopInstance(s) ==
    LET rest == [sched EXCEPT !.stops = sched.stops \ {s}] IN
    /\ Tick("scale")
    /\ TickStep(IF fsm.server[s] = None THEN rest
                ELSE [rest EXCEPT !.out = Write("server", s,
                        [fsm.server[s] EXCEPT !.state = "Stopping"])])

EndTick ==
    /\ Tick("scale") /\ sched.groups = {} /\ sched.spawn = 0 /\ sched.stops = {}
    /\ sched' = Idle
    /\ ticked' = TRUE
    /\ UNCHANGED <<leader, alive, fsm, beat, requests, late, used, budget, flaws>>

\* cluster.Apply of the scheduler's write commits.
SchedulerCommit ==
    /\ sched.out # None /\ CanCommit
    /\ fsm' = Committed(sched.out)
    /\ sched' = [sched EXCEPT !.out = None]
    /\ UNCHANGED <<leader, alive, beat, ticked, requests, late, used, budget, flaws>>

\* It fails in office: Raft did not take the command within the two seconds.
\* Every caller goes on, after a log line at most; evacuate runs although the
\* node was not recorded Down.
SchedulerCommitFails ==
    /\ sched.out # None /\ leader # None /\ budget.failures > 0
    /\ sched' = [sched EXCEPT !.out = None]
    /\ flaws' = flaws \cup {"failed"}
    /\ budget' = [budget EXCEPT !.failures = budget.failures - 1]
    /\ UNCHANGED <<leader, alive, fsm, beat, ticked, requests, late, used>>

-----------------------------------------------------------------------------
\* REST handlers and the tasks service, on the leader (a follower's Apply
\* fails): read and check, then commit.
Request(before, w) ==
    /\ leader # None /\ budget.requests > 0
    /\ budget' = [budget EXCEPT !.requests = budget.requests - 1]
    /\ requests' = requests \cup
                     {[todo |-> before, last |-> w, no |-> budget.requests]}
    /\ UNCHANGED <<leader, alive, fsm, sched, beat, ticked, late, flaws>>

\* handleStartServer: a fresh id, a host from PickHost.  The group is taken
\* as it comes, its bounds are not looked at.
StartServer(s) ==
    /\ NewID(s) /\ used' = used \cup {s}
    /\ Present(fsm.template) # {}
    /\ \E h \in ViableHosts(None), ha \in BOOLEAN, g \in Group \cup {None} :
         Request({}, Write("server", s,
            [host |-> h, state |-> "Starting", ha |-> ha, group |-> g]))

\* handleStopServer.
StopServer(s) ==
    /\ fsm.server[s] # None /\ UNCHANGED used
    /\ Request({}, Write("server", s, [fsm.server[s] EXCEPT !.state = "Stopping"]))

\* handleRestartServer.
RestartServer(s) ==
    /\ fsm.server[s] # None /\ UNCHANGED used
    /\ Request({}, Write("server", s, [fsm.server[s] EXCEPT !.state = "Starting"]))

\* handleOneServer with DELETE: removes the record, whatever it says.
DeleteServer(s) ==
    /\ s \in used /\ UNCHANGED used
    /\ Request({}, Write("server", s, None))

ValidGroup(r) == r.max = 0 \/ r.max >= r.min

\* CreateGroup: the bounds are in order and the template exists.
CreateGroup(g, r) ==
    /\ ValidGroup(r) /\ fsm.template[r.tpl] # None /\ UNCHANGED used
    /\ Request({}, Write("group", g, r))

\* DeleteGroup: the servers of the group are written back as Stopping from one
\* copy of the map, then the group is removed.
DeleteGroup(g) ==
    /\ UNCHANGED used
    /\ Request({Write("server", s, [fsm.server[s] EXCEPT !.state = "Stopping"]) :
                  s \in InGroup(fsm.server, g)},
               Write("group", g, None))

CreateTemplate(t) ==
    /\ UNCHANGED used
    /\ Request({}, Write("template", t, "dynamic"))

\* DeleteTemplate refuses while a group refers to the template.
DeleteTemplate(t) ==
    /\ \A g \in Present(fsm.group) : fsm.group[g].tpl # t
    /\ UNCHANGED used
    /\ Request({}, Write("template", t, None))

RequestCommit(r) ==
    /\ CanCommit
    /\ \E w \in Handed(r) :
         /\ fsm' = Committed(w)
         /\ requests' = IF r.todo = {} THEN requests \ {r}
                        ELSE (requests \ {r}) \cup
                             {[r EXCEPT !.todo = r.todo \ {w}]}
    /\ UNCHANGED <<leader, alive, sched, beat, ticked, late, used, budget, flaws>>

-----------------------------------------------------------------------------
SchedulerStep ==
    \/ StartTick
    \/ \E c \in sched.todo : CheckNode(c)
    \/ MarkNodeDown
    \/ EvacuateList
    \/ \E o \in sched.orphans : EvacuateServer(o)
    \/ EvacuateEnd
    \/ ReadServers
    \/ ReadGroups
    \/ \E g \in sched.groups : ScaleGroup(g)
    \/ SpawnInstance
    \/ \E s \in sched.stops : StopInstance(s)
    \/ SchedulerCommit
    \/ EndTick

Call ==
    \/ \E s \in Server : StartServer(s) \/ StopServer(s) \/ RestartServer(s)
                         \/ DeleteServer(s)
    \/ \E g \in Group : DeleteGroup(g) \/ \E r \in GroupSpecs : CreateGroup(g, r)
    \/ \E t \in Template : CreateTemplate(t) \/ DeleteTemplate(t)

Next ==
    \/ \E n \in Node : Heartbeat(n) \/ Elect(n) \/ Crash(n) \/ Recover(n)
    \/ Advance
    \/ \E w \in late : LateCommit(w)
    \/ SchedulerStep
    \/ SchedulerCommitFails
    \/ Call
    \/ \E r \in requests : RequestCommit(r)

Spec == Init /\ [][Next]_vars

\* The tickers fire, commands handed to a leader commit, time passes, and a
\* quorum without a leader elects one.
Fairness ==
    /\ WF_vars(\E n \in Node : Heartbeat(n))
    /\ WF_vars(SchedulerStep)
    /\ WF_vars(Advance)
    /\ WF_vars(\E w \in late : LateCommit(w))
    /\ WF_vars(\E r \in requests : RequestCommit(r))
    /\ WF_vars(leader = None /\ \E n \in Node : Elect(n))

FairSpec == Spec /\ Fairness

-----------------------------------------------------------------------------
\* Properties.

\* Every committed record, and every command on its way to the FSM, is a whole
\* record: no handler commits the zero value of a lookup that failed.
TypeOK ==
    /\ leader \in OrNone(Node) /\ alive \subseteq Node
    /\ fsm.node \in [Node -> OrNone(NodeRec)]
    /\ fsm.server \in [Server -> OrNone(ServerRec)]
    /\ fsm.group \in [Group -> OrNone(GroupSpecs)]
    /\ fsm.template \in [Template -> {None, "dynamic"}]
    /\ sched.out \in OrNone(WriteType)
    /\ \A r \in requests : r.todo \subseteq WriteType /\ r.last \in WriteType
    /\ late \subseteq WriteType
    /\ Present(fsm.server) \subseteq used /\ used \subseteq Server
    /\ beat \in BOOLEAN /\ ticked \in BOOLEAN /\ flaws \subseteq {"stale", "failed"}

\* A server that does not require HA stays on the host it was placed on for
\* as long as its record exists, whatever evacuation, API calls and leader
\* changes interleave (evacuate: "Mark orphaned; operator-decided revival").
NonHAPinned ==
    [][\A s \in Server :
         (/\ fsm.server[s] # None /\ fsm'.server[s] # None
          /\ ~fsm.server[s].ha)
         => fsm'.server[s].host = fsm.server[s].host]_vars

\* When the leader has ticked in a period, no record older than
\* HeartbeatDeadline + FailoverGrace is still taken for alive, whatever
\* heartbeats and calls committed during the tick.  Two ticks are left out:
\* one that began before the log of the earlier leader was applied (only the
\* first of a term can) and one in which an Apply failed.
DetectionBound ==
    leader # None /\ ticked /\ flaws = {} =>
        \A n \in Present(fsm.node) :
            fsm.node[n].age > Deadline + Grace => fsm.node[n].state = "Down"

\* A node is Down as soon as HeartbeatDeadline has passed without a heartbeat
\* (the comment on HeartbeatDeadline).
DownAtDeadline ==
    leader # None /\ ticked /\ flaws = {} =>
        \A n \in Present(fsm.node) :
            fsm.node[n].age > Deadline => fsm.node[n].state = "Down"

\* A node is declared dead only while its heartbeat is overdue: the record that
\* markNodeDown overwrites is the one the leader found too old.
DownOnlyWhenSilent ==
    [][\A n \in Present(fsm.node) :
         fsm.node[n].state # "Down" /\ fsm'.node[n].state = "Down" =>
            fsm.node[n].age > Deadline]_vars

\* What evacuate moves, it moves to a node that is recorded Up when the move
\* commits, and not only when pickHost looked, although heartbeats, API calls
\* and entries of an earlier leader commit in between.  (When the write of Down
\* itself failed, evacuate runs on a node that a late entry may still change.)
PlacedOnUp ==
    (/\ "failed" \notin flaws /\ sched.phase = "evacuate" /\ sched.out # None
     /\ sched.out.to = "server" /\ sched.out.val.state = "Starting")
        => fsm.node[sched.out.val.host].state = "Up"

\* Failover: every server that requires HA ends up on a node that is recorded
\* Up and stays on such a node.
HAServersRehosted ==
    <>[](\A s \in Present(fsm.server) :
           fsm.server[s].ha => fsm.node[fsm.server[s].host].state = "Up")

\* It holds where no live leader is deposed: the successor of one that died
\* finds the dead node itself, and stays until evacuate is done.
RehostedInTerm == [](budget.elections = MaxElections) => HAServersRehosted

\* A daemon that runs is not recorded Down.
LiveNodesStayUp ==
    \A n \in alive \cap Present(fsm.node) : fsm.node[n].state # "Down"

\* Autoscaling brings every group that has its template up to MinInstances
\* records, and keeps it there once the calls have stopped.
GroupReachesMin ==
    <>[](\A g \in Present(fsm.group) :
           fsm.template[fsm.group[g].tpl] # None =>
             Cardinality(InGroup(fsm.server, g)) >= fsm.group[g].min)

Live(g) == {s \in InGroup(fsm.server, g) : fsm.server[s].state = "Starting"}

\* The scheduler keeps the number of live instances of every group between
\* MinInstances and MaxInstances.
LiveCountKept ==
    <>[](\A g \in Present(fsm.group) :
           LET r == fsm.group[g] IN
           /\ Cardinality(Live(g)) >= r.min
           /\ r.max > 0 => Cardinality(Live(g)) <= r.max)
=============================================================================
