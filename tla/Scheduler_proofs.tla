-------------------------- MODULE Scheduler_proofs --------------------------
(***************************************************************************)
(* Proofs about Scheduler, for every cluster, every set of servers, groups *)
(* and templates, every deadline and grace, and every value of the bounds. *)
(***************************************************************************)
EXTENDS Scheduler, FiniteSetTheorems, TLAPS

NodeCopy == [id : Node, rec : NodeRec]
ServerCopy == [id : Server, rec : ServerRec]
GroupCopy == [id : Group, rec : GroupSpecs]
FiniteServers == {S \in SUBSET Server : IsFiniteSet(S)}

\* The maps that the FSM holds.
FsmType == [node : [Node -> OrNone(NodeRec)], server : [Server -> OrNone(ServerRec)],
            group : [Group -> OrNone(GroupSpecs)], template : [Template -> {None, "dynamic"}]]

\* What a tick holds.
SchedRec == [phase : {"idle", "nodes", "mark", "list", "evacuate", "groups", "scale"},
             todo : SUBSET NodeCopy, cur : OrNone(Node), orphans : SUBSET ServerCopy,
             seen : [Group -> FiniteServers], groups : SUBSET GroupCopy,
             grp : OrNone(GroupCopy), spawn : Nat, stops : SUBSET Server,
             out : OrNone(WriteType)]

\* A command is whole, and one about a server names an id that was handed out.
Good(w) == w \in WriteType /\ (w.to = "server" => w.id \in used)

\* A tick holds copies of whole records, of nodes that have one.
SchedGood(s) ==
    /\ s \in SchedRec
    /\ \A c \in s.todo : fsm.node[c.id] \in NodeRec
    /\ s.phase \in {"mark", "list", "evacuate"} =>
          s.cur \in Node /\ fsm.node[s.cur] \in NodeRec
    /\ s.spawn # 0 => s.grp \in GroupCopy
    /\ \A o \in s.orphans : o.id \in used
    /\ s.out # None => Good(s.out)

RequestRec == [todo : SUBSET WriteType, last : WriteType, no : Nat]

ControlType ==
    /\ leader \in OrNone(Node) /\ alive \subseteq Node
    /\ fsm \in FsmType
    /\ used \in FiniteServers /\ Present(fsm.server) \subseteq used
    /\ \A w \in late : Good(w)
    /\ requests \subseteq RequestRec
    /\ \A r \in requests : \A w \in r.todo \cup {r.last} : Good(w)
    /\ beat \in BOOLEAN /\ ticked \in BOOLEAN /\ flaws \subseteq {"stale", "failed"}
    /\ budget \in [elections : Nat, crashes : Nat, leaderless : Nat, requests : Nat,
                  failures : Nat]

SchedulerInv == ControlType /\ SchedGood(sched)

\* The commands that are on their way to the FSM.
Pending == late \cup ({sched.out} \ {None}) \cup UNION {r.todo \cup {r.last} : r \in requests}

-----------------------------------------------------------------------------
\* Two records of one server agree: whether it requires HA, and where it is
\* unless it does.
Agree(a, b) == a.ha = b.ha /\ (~a.ha => a.host = b.host)

\* Every record of a server that the FSM holds, that a command on its way
\* carries, or that evacuate has copied.
Claims == {[id |-> s, rec |-> fsm.server[s]] : s \in Server}
          \cup sched.orphans
          \cup {[id |-> w.id, rec |-> w.val] : w \in {v \in Pending : v.to = "server"}}

Pinned == \A c, d \in Claims :
             c.id = d.id /\ c.rec # None /\ d.rec # None => Agree(c.rec, d.rec)

-----------------------------------------------------------------------------
\* While evacuate looks for hosts, nothing of an earlier leader is left, unless
\* an Apply of the tick failed.
EvacuatesSettled ==
    /\ "failed" \notin flaws
    /\ sched.phase = "evacuate" \/ (sched.phase = "list" /\ sched.out = None)
    => late = {}

\* A tick that began with a log that was applied keeps it so.
LogApplied == (sched.phase # "idle" \/ ticked) /\ flaws = {} => late = {}

\* No call writes the record of a node.
CallsLeaveNodes == \A r \in requests : \A w \in r.todo \cup {r.last} : w.to # "node"

\* The tick is over, or has not begun.
TickEnds == /\ ticked \/ leader = None => sched = Idle
            /\ leader = None => ~ticked

\* A node record that the scheduler hands over is not overdue, or says Down.
OutFresh == sched.out # None /\ sched.out.to = "node" => ~Overdue(sched.out.val)

\* The tick will come to an overdue node.
Covered(n) ==
    \/ sched.phase = "idle"
    \/ \E c \in sched.todo : c.id = n /\ Overdue(c.rec)
    \/ sched.phase = "mark" /\ sched.cur = n
    \/ /\ sched.out # None /\ sched.out.to = "node" /\ sched.out.id = n
       /\ sched.out.val.state = "Down"

OverdueCovered ==
    /\ flaws = {} => \A n \in Node : fsm.node[n] # None /\ Overdue(fsm.node[n]) => ~ticked /\ Covered(n)
    /\ sched.phase \in {"groups", "scale"} => sched.todo = {}

-----------------------------------------------------------------------------
\* The fields of a command.
LEMMA WriteFields ==
    ASSUME NEW w \in WriteType
    PROVE  /\ w.to \in {"node", "server", "group", "template"}
           /\ w.to = "node" => w.id \in Node /\ w.val \in NodeRec
           /\ w.to = "server" => w.id \in Server /\ w.val \in OrNone(ServerRec)
           /\ w.to = "group" => w.id \in Group /\ w.val \in OrNone(GroupSpecs)
           /\ w.to = "template" => w.id \in Template /\ w.val \in {None, "dynamic"}
BY DEF WriteType

\* A command about a node, and one about a server, is whole.
LEMMA WholeWrites ==
    /\ \A n \in Node : \A v \in NodeRec : Write("node", n, v) \in WriteType
    /\ \A s \in Server : \A v \in OrNone(ServerRec) : Write("server", s, v) \in WriteType
BY DEF WriteType, Write

\* What a commit does to each map.
LEMMA CommitMaps ==
    ASSUME fsm \in FsmType, NEW w \in WriteType
    PROVE  /\ Committed(w) \in FsmType
           /\ Committed(w).node = IF w.to = "node" THEN [fsm.node EXCEPT ![w.id] = w.val] ELSE fsm.node
           /\ Committed(w).server = IF w.to = "server" THEN [fsm.server EXCEPT ![w.id] = w.val]
                                                       ELSE fsm.server
<1>0. /\ fsm.node \in [Node -> OrNone(NodeRec)] /\ fsm.server \in [Server -> OrNone(ServerRec)]
      /\ fsm.group \in [Group -> OrNone(GroupSpecs)]
      /\ fsm.template \in [Template -> {None, "dynamic"}]
  BY DEF FsmType
<1>1. CASE w.to = "node"
  <2>1. [fsm.node EXCEPT ![w.id] = w.val] \in [Node -> OrNone(NodeRec)]
    BY <1>0, <1>1, WriteFields DEF OrNone
  <2>2. Committed(w) = [fsm EXCEPT !.node = [fsm.node EXCEPT ![w.id] = w.val]]
    BY <1>1 DEF Committed
  <2> QED
    BY <1>0, <1>1, <2>1, <2>2 DEF FsmType
<1>2. CASE w.to = "server"
  <2>1. [fsm.server EXCEPT ![w.id] = w.val] \in [Server -> OrNone(ServerRec)]
    BY <1>0, <1>2, WriteFields
  <2>2. Committed(w) = [fsm EXCEPT !.server = [fsm.server EXCEPT ![w.id] = w.val]]
    BY <1>2 DEF Committed
  <2> QED
    BY <1>0, <1>2, <2>1, <2>2 DEF FsmType
<1>3. CASE w.to = "group"
  <2>1. [fsm.group EXCEPT ![w.id] = w.val] \in [Group -> OrNone(GroupSpecs)]
    BY <1>0, <1>3, WriteFields
  <2>2. Committed(w) = [fsm EXCEPT !.group = [fsm.group EXCEPT ![w.id] = w.val]]
    BY <1>3 DEF Committed
  <2> QED
    BY <1>0, <1>3, <2>1, <2>2 DEF FsmType
<1>4. CASE w.to = "template"
  <2>1. [fsm.template EXCEPT ![w.id] = w.val] \in [Template -> {None, "dynamic"}]
    BY <1>0, <1>4, WriteFields
  <2>2. Committed(w) = [fsm EXCEPT !.template = [fsm.template EXCEPT ![w.id] = w.val]]
    BY <1>4 DEF Committed
  <2> QED
    BY <1>0, <1>4, <2>1, <2>2 DEF FsmType
<1> QED
  BY <1>1, <1>2, <1>3, <1>4, WriteFields

\* A commit keeps the records of nodes whole, and adds no server whose id was
\* not handed out.
LEMMA CommitKeeps ==
    ASSUME ControlType, NEW w, Good(w)
    PROVE  /\ Committed(w) \in FsmType
           /\ \A n \in Node : fsm.node[n] \in NodeRec => Committed(w).node[n] \in NodeRec
           /\ Present(Committed(w).server) \subseteq used
<1>0. fsm \in FsmType /\ w \in WriteType /\ fsm.node \in [Node -> OrNone(NodeRec)]
      /\ fsm.server \in [Server -> OrNone(ServerRec)]
  BY DEF ControlType, Good, FsmType
<1>1. \A n \in Node : fsm.node[n] \in NodeRec => Committed(w).node[n] \in NodeRec
  BY <1>0, CommitMaps, WriteFields
<1>2. Present(Committed(w).server) \subseteq used
  BY <1>0, CommitMaps, WriteFields DEF Present, ControlType, Good
<1> QED
  BY <1>0, <1>1, <1>2, CommitMaps

-----------------------------------------------------------------------------
\* A step that changes nothing but the tick, or begins it.
LEMMA TickKeeps ==
    ASSUME SchedulerInv, NEW s, SchedGood(s), TickStep(s) \/ (StartTick /\ sched' = s)
    PROVE  SchedulerInv'
<1>1. /\ sched' = s /\ UNCHANGED <<leader, alive, fsm, beat, ticked, requests, late, used, budget>>
      /\ flaws' = flaws \/ flaws' \subseteq {"stale"}
  BY DEF TickStep, StartTick
<1>2. flaws' \subseteq {"stale", "failed"}
  BY <1>1 DEF SchedulerInv, ControlType
<1> QED
  BY <1>1, <1>2 DEF SchedulerInv, ControlType, SchedGood, Good

\* A scheduler between two ticks holds nothing.
LEMMA IdleGood == SchedGood(Idle)
<1>1. [g \in Group |-> {}] \in [Group -> FiniteServers]
  BY FS_EmptySet DEF FiniteServers
<1> QED
  BY <1>1 DEF SchedGood, SchedRec, Idle, OrNone

\* A viable host has a whole record, which says Up.
LEMMA Viable ==
    ASSUME ControlType, NEW x, NEW h \in ViableHosts(x)
    PROVE  h \in Node /\ fsm.node[h] \in NodeRec /\ fsm.node[h].state = "Up"
BY DEF ViableHosts, Present, ControlType, FsmType, OrNone

\* The fields of the records that a step changes.
LEMMA RecordFields ==
    /\ \A r \in NodeRec : \A st \in {"Up", "Suspect", "Down"} : [r EXCEPT !.state = st] \in NodeRec
    /\ \A r \in ServerRec : \A st \in {"Starting", "Stopping", "Orphaned"} :
          /\ [r EXCEPT !.state = st] \in ServerRec
          /\ \A h \in Node : [r EXCEPT !.host = h, !.state = st] \in ServerRec
BY DEF NodeRec, ServerRec

\* The first half of a tick: liveness and failover.
LEMMA FailoverKeeps ==
    ASSUME SchedulerInv,
           \/ StartTick \/ MarkNodeDown \/ EvacuateList \/ EvacuateEnd
           \/ \E c \in sched.todo : CheckNode(c)
           \/ \E o \in sched.orphans : EvacuateServer(o)
    PROVE  SchedulerInv'
<1>0. /\ ControlType /\ SchedGood(sched) /\ sched \in SchedRec /\ sched.todo \subseteq NodeCopy
      /\ sched.orphans \subseteq ServerCopy
      /\ fsm.node \in [Node -> OrNone(NodeRec)] /\ fsm.server \in [Server -> OrNone(ServerRec)]
  BY DEF SchedulerInv, SchedGood, SchedRec, ControlType, FsmType
<1>1. CASE StartTick
  <2> DEFINE copies == {[id |-> n, rec |-> fsm.node[n]] : n \in Present(fsm.node)}
             s == [Idle EXCEPT !.phase = "nodes", !.todo = copies]
  <2>1. copies \subseteq NodeCopy /\ \A c \in copies : fsm.node[c.id] \in NodeRec
    BY <1>0 DEF Present, OrNone, NodeCopy
  <2>2. SchedGood(Idle)
    BY IdleGood
  <2> HIDE DEF copies
  <2>3. /\ s \in SchedRec /\ s.todo = copies /\ s.phase = "nodes" /\ s.spawn = 0 /\ s.orphans = {}
        /\ s.out = None
    BY <2>1, <2>2 DEF SchedGood, SchedRec, Idle
  <2>4. SchedGood(s)
    BY <2>1, <2>3 DEF SchedGood
  <2>5. sched' = s
    BY <1>1 DEF StartTick, copies
  <2> QED
    BY <1>1, <2>4, <2>5, TickKeeps
<1>2. ASSUME NEW c \in sched.todo, CheckNode(c) PROVE SchedulerInv'
  <2>0. c \in NodeCopy /\ c.id \in Node /\ c.rec \in NodeRec /\ fsm.node[c.id] \in NodeRec
    BY <1>0 DEF NodeCopy, SchedGood
  <2> DEFINE rest == [sched EXCEPT !.todo = sched.todo \ {c}]
             w == Write("node", c.id, [c.rec EXCEPT !.state = "Suspect"])
  <2>1. SchedGood(rest) /\ rest \in SchedRec
    BY <1>0 DEF SchedGood, SchedRec
  <2>2. CASE TickStep([rest EXCEPT !.phase = "mark", !.cur = c.id])
    <3>1. SchedGood([rest EXCEPT !.phase = "mark", !.cur = c.id])
      BY <2>0, <2>1 DEF SchedGood, SchedRec, OrNone
    <3> QED
      BY <2>2, <3>1, TickKeeps
  <2>3. CASE TickStep([rest EXCEPT !.out = w])
    <3>1. w \in WriteType /\ w.to = "node"
      BY <2>0, WholeWrites, RecordFields DEF Write
    <3> HIDE DEF w, rest
    <3>2. SchedGood([rest EXCEPT !.out = w])
      BY <2>1, <3>1 DEF SchedGood, SchedRec, OrNone, Good
    <3> QED
      BY <2>3, <3>2, TickKeeps
  <2>4. CASE TickStep(rest)
    BY <2>1, <2>4, TickKeeps
  <2> QED
    BY <1>2, <2>2, <2>3, <2>4 DEF CheckNode
<1>3. CASE MarkNodeDown
  <2> DEFINE w == Write("node", sched.cur, [fsm.node[sched.cur] EXCEPT !.state = "Down"])
  <2>1. sched.cur \in Node /\ fsm.node[sched.cur] \in NodeRec
    BY <1>0, <1>3 DEF MarkNodeDown, Tick, SchedGood
  <2>2. w \in WriteType /\ w.to = "node"
    BY <2>1, WholeWrites, RecordFields DEF Write
  <2>3. TickStep([sched EXCEPT !.phase = "list", !.out = w])
    BY <1>3 DEF MarkNodeDown
  <2> HIDE DEF w
  <2>4. SchedGood([sched EXCEPT !.phase = "list", !.out = w])
    BY <1>0, <2>1, <2>2 DEF SchedGood, SchedRec, OrNone, Good
  <2> QED
    BY <2>3, <2>4, TickKeeps
<1>4. CASE EvacuateList
  <2> DEFINE copies == {[id |-> s, rec |-> fsm.server[s]] :
                           s \in {t \in Present(fsm.server) : fsm.server[t].host = sched.cur}}
  <2>1. copies \subseteq ServerCopy /\ \A o \in copies : o.id \in used
    BY <1>0 DEF Present, OrNone, ServerCopy, ControlType
  <2>2. TickStep([sched EXCEPT !.phase = "evacuate", !.orphans = copies])
    BY <1>4 DEF EvacuateList
  <2>3. sched.phase = "list"
    BY <1>4 DEF EvacuateList, Tick
  <2> HIDE DEF copies
  <2>4. SchedGood([sched EXCEPT !.phase = "evacuate", !.orphans = copies])
    BY <1>0, <2>1, <2>3 DEF SchedGood, SchedRec
  <2> QED
    BY <2>2, <2>4, TickKeeps
<1>5. ASSUME NEW o \in sched.orphans, EvacuateServer(o) PROVE SchedulerInv'
  <2>0. o \in ServerCopy /\ o.id \in Server /\ o.id \in used /\ o.rec \in ServerRec
    BY <1>0 DEF ServerCopy, SchedGood
  <2> DEFINE rest == [sched EXCEPT !.orphans = sched.orphans \ {o}]
  <2>1. SchedGood(rest) /\ rest \in SchedRec
    BY <1>0 DEF SchedGood, SchedRec
  <2>2. ASSUME NEW v \in ServerRec, TickStep([rest EXCEPT !.out = Write("server", o.id, v)])
        PROVE  SchedulerInv'
    <3> DEFINE w == Write("server", o.id, v)
    <3>1. w \in WriteType /\ w.id \in used
      BY <2>0, WholeWrites DEF Write, OrNone
    <3> HIDE DEF w, rest
    <3>2. SchedGood([rest EXCEPT !.out = w])
      BY <2>1, <3>1 DEF SchedGood, SchedRec, OrNone, Good
    <3> QED
      BY <2>2, <3>2, TickKeeps DEF w
  <2>3. CASE TickStep([rest EXCEPT !.out = Write("server", o.id, [o.rec EXCEPT !.state = "Orphaned"])])
    BY <2>0, <2>2, <2>3, RecordFields
  <2>4. ASSUME NEW t \in ViableHosts(sched.cur),
               TickStep([rest EXCEPT !.out =
                 Write("server", o.id, [o.rec EXCEPT !.host = t, !.state = "Starting"])])
        PROVE  SchedulerInv'
    <3>1. t \in Node
      BY <1>0, Viable
    <3> QED
      BY <2>0, <2>2, <2>4, <3>1, RecordFields
  <2>5. CASE TickStep(rest)
    BY <2>1, <2>5, TickKeeps
  <2> QED
    BY <1>5, <2>3, <2>4, <2>5 DEF EvacuateServer
<1>6. CASE EvacuateEnd
  <2>1. SchedGood([sched EXCEPT !.phase = "nodes", !.cur = None])
    BY <1>0 DEF SchedGood, SchedRec, OrNone
  <2> QED
    BY <1>6, <2>1, TickKeeps DEF EvacuateEnd
<1> QED
  BY <1>1, <1>2, <1>3, <1>4, <1>5, <1>6

\* An id that was not handed out may be handed out.
LEMMA NewIDKeeps ==
    ASSUME ControlType, NEW s \in Server
    PROVE  used \cup {s} \in FiniteServers
BY FS_AddElement DEF ControlType, FiniteServers

\* The second half of a tick: autoscaling.
LEMMA AutoscaleKeeps ==
    ASSUME SchedulerInv,
           \/ ReadServers \/ ReadGroups \/ SpawnInstance \/ EndTick
           \/ \E g \in sched.groups : ScaleGroup(g)
           \/ \E s \in sched.stops : StopInstance(s)
    PROVE  SchedulerInv'
<1>0. /\ ControlType /\ SchedGood(sched) /\ sched \in SchedRec /\ sched.groups \subseteq GroupCopy
      /\ sched.stops \subseteq Server /\ sched.spawn \in Nat
      /\ fsm.server \in [Server -> OrNone(ServerRec)] /\ fsm.group \in [Group -> OrNone(GroupSpecs)]
      /\ used \subseteq Server /\ IsFiniteSet(used)
  BY DEF SchedulerInv, SchedGood, SchedRec, ControlType, FsmType, FiniteServers
<1>1. CASE ReadServers
  <2> DEFINE seen == [g \in Group |-> InGroup(fsm.server, g)]
  <2>1. seen \in [Group -> FiniteServers]
    <3>1. ASSUME NEW g \in Group PROVE InGroup(fsm.server, g) \in FiniteServers
      <4>1. InGroup(fsm.server, g) \subseteq used
        BY <1>0 DEF InGroup, ControlType
      <4> QED
        BY <1>0, <4>1, FS_Subset DEF FiniteServers
    <3> QED
      BY <3>1
  <2>2. TickStep([sched EXCEPT !.phase = "groups", !.seen = seen])
    BY <1>1 DEF ReadServers
  <2> HIDE DEF seen
  <2>3. SchedGood([sched EXCEPT !.phase = "groups", !.seen = seen])
    BY <1>0, <2>1 DEF SchedGood, SchedRec
  <2> QED
    BY <2>2, <2>3, TickKeeps
<1>2. CASE ReadGroups
  <2> DEFINE copies == {[id |-> g, rec |-> fsm.group[g]] : g \in Present(fsm.group)}
  <2>1. copies \subseteq GroupCopy
    BY <1>0 DEF Present, OrNone, GroupCopy
  <2>2. TickStep([sched EXCEPT !.phase = "scale", !.groups = copies])
    BY <1>2 DEF ReadGroups
  <2> HIDE DEF copies
  <2>3. SchedGood([sched EXCEPT !.phase = "scale", !.groups = copies])
    BY <1>0, <2>1 DEF SchedGood, SchedRec
  <2> QED
    BY <2>2, <2>3, TickKeeps
<1>3. ASSUME NEW g \in sched.groups, ScaleGroup(g) PROVE SchedulerInv'
  <2> DEFINE n == Cardinality(sched.seen[g.id])
             next == [sched EXCEPT !.groups = sched.groups \ {g}, !.grp = g]
  <2>1. g \in GroupCopy /\ g.id \in Group /\ g.rec \in GroupRec /\ g.rec.min \in Nat
    BY <1>0, SchedulerAssumption DEF GroupCopy, GroupRec
  <2>2. sched.seen[g.id] \in FiniteServers
    BY <1>0, <2>1 DEF SchedRec
  <2>3. n \in Nat
    BY <2>2, FS_CardinalityType DEF FiniteServers
  <2>4. SchedGood(next) /\ next \in SchedRec /\ next.grp = g
    BY <1>0, <2>1 DEF SchedGood, SchedRec, OrNone
  <2>5. CASE n < g.rec.min /\ TickStep([next EXCEPT !.spawn = g.rec.min - n])
    <3>1. g.rec.min - n \in Nat
      BY <2>1, <2>3, <2>5
    <3> HIDE DEF n, next
    <3>2. SchedGood([next EXCEPT !.spawn = g.rec.min - n])
      BY <2>1, <2>4, <3>1 DEF SchedGood, SchedRec
    <3> QED
      BY <2>5, <3>2, TickKeeps
  <2>6. ASSUME NEW D \in SUBSET sched.seen[g.id], TickStep([next EXCEPT !.stops = D])
        PROVE  SchedulerInv'
    <3> HIDE DEF next
    <3>1. D \subseteq Server
      BY <2>2 DEF FiniteServers
    <3>2. SchedGood([next EXCEPT !.stops = D])
      BY <2>4, <3>1 DEF SchedGood, SchedRec
    <3> QED
      BY <2>6, <3>2, TickKeeps
  <2>7. CASE TickStep(next)
    BY <2>4, <2>7, TickKeeps
  <2> QED
    BY <1>3, <2>5, <2>6, <2>7 DEF ScaleGroup
<1>4. CASE SpawnInstance
  <2> DEFINE g == sched.grp.rec
             rest == [sched EXCEPT !.spawn = sched.spawn - 1]
  <2>1. sched.spawn > 0 /\ sched.grp \in GroupCopy /\ g \in GroupRec /\ sched.grp.id \in Group
    <3>0. sched.spawn > 0
      BY <1>4 DEF SpawnInstance
    <3>1. sched.spawn > 0 /\ sched.spawn # 0
      BY <1>0, <3>0
    <3>2. sched.grp \in GroupCopy
      BY <1>0, <3>1 DEF SchedGood
    <3> QED
      BY <3>1, <3>2, SchedulerAssumption DEF GroupCopy
  <2>2. SchedGood(rest) /\ rest \in SchedRec
    <3>1. sched.spawn - 1 \in Nat
      BY <1>0, <2>1
    <3> QED
      BY <1>0, <2>1, <3>1 DEF SchedGood, SchedRec
  <2>3. CASE TickStep(rest)
    BY <2>2, <2>3, TickKeeps
  <2>4. ASSUME NEW h \in ViableHosts(None), NEW s \in Server,
               used' = used \cup {s},
               sched' = [rest EXCEPT !.out = Write("server", s,
                  [host |-> h, state |-> "Starting", ha |-> g.ha, group |-> sched.grp.id])],
               UNCHANGED <<leader, alive, fsm, beat, ticked, requests, late, budget, flaws>>
        PROVE  SchedulerInv'
    <3> DEFINE v == [host |-> h, state |-> "Starting", ha |-> g.ha, group |-> sched.grp.id]
               w == Write("server", s, v)
    <3>1. v \in ServerRec
      BY <1>0, <2>1, <2>4, Viable DEF ServerRec, GroupRec
    <3>2. w \in WriteType /\ w.id = s
      BY <3>1, WholeWrites DEF Write, OrNone
    <3>3. used' \in FiniteServers /\ used \subseteq used'
      BY <1>0, <2>4, NewIDKeeps
    <3>4. ControlType'
      BY <1>0, <2>4, <3>3 DEF ControlType, Good
    <3> HIDE DEF w, v, rest
    <3>5. sched' = [rest EXCEPT !.out = w]
      BY <2>4 DEF w, v
    <3>6. sched' \in SchedRec /\ sched'.out = w
      BY <2>2, <3>2, <3>5 DEF SchedRec, OrNone
    <3>7. /\ sched'.todo = rest.todo /\ sched'.phase = rest.phase /\ sched'.cur = rest.cur
          /\ sched'.spawn = rest.spawn /\ sched'.grp = rest.grp /\ sched'.orphans = rest.orphans
      BY <2>2, <3>5 DEF SchedRec
    <3>8. Good(sched.out)'
      BY <2>4, <3>2, <3>6 DEF Good
    <3>9. SchedGood(sched)'
      BY <2>2, <2>4, <3>3, <3>6, <3>7, <3>8 DEF SchedGood
    <3> QED
      BY <3>4, <3>9 DEF SchedulerInv
  <2> QED
    BY <1>4, <2>3, <2>4 DEF SpawnInstance
<1>5. ASSUME NEW s \in sched.stops, StopInstance(s) PROVE SchedulerInv'
  <2> DEFINE rest == [sched EXCEPT !.stops = sched.stops \ {s}]
             w == Write("server", s, [fsm.server[s] EXCEPT !.state = "Stopping"])
  <2>1. SchedGood(rest) /\ rest \in SchedRec
    BY <1>0 DEF SchedGood, SchedRec
  <2>2. CASE TickStep(rest)
    BY <2>1, <2>2, TickKeeps
  <2>3. CASE fsm.server[s] # None /\ TickStep([rest EXCEPT !.out = w])
    <3>1. s \in Server /\ fsm.server[s] \in ServerRec /\ s \in used
      BY <1>0, <2>3 DEF OrNone, ControlType, Present
    <3>2. w \in WriteType /\ w.id \in used
      BY <3>1, WholeWrites, RecordFields DEF Write, OrNone
    <3> HIDE DEF w, rest
    <3>3. SchedGood([rest EXCEPT !.out = w])
      BY <2>1, <3>2 DEF SchedGood, SchedRec, OrNone, Good
    <3> QED
      BY <2>3, <3>3, TickKeeps
  <2> QED
    BY <1>5, <2>2, <2>3 DEF StopInstance
<1>6. CASE EndTick
  <2>1. sched' = Idle /\ ticked' = TRUE
        /\ UNCHANGED <<leader, alive, fsm, beat, requests, late, used, budget, flaws>>
    BY <1>6 DEF EndTick
  <2>2. ControlType'
    BY <1>0, <2>1 DEF ControlType, Good
  <2>3. SchedGood(sched)'
    BY <2>1, IdleGood DEF SchedGood, Good
  <2> QED
    BY <2>2, <2>3 DEF SchedulerInv
<1> QED
  BY <1>1, <1>2, <1>3, <1>4, <1>5, <1>6

-----------------------------------------------------------------------------
\* What the tick holds stays good while the FSM only gains records of nodes.
LEMMA SchedFrame ==
    ASSUME SchedGood(sched), sched' = sched, used' = used,
           \A n \in Node : fsm.node[n] \in NodeRec => fsm'.node[n] \in NodeRec
    PROVE  SchedGood(sched)'
<1>1. sched.todo \subseteq NodeCopy
  BY DEF SchedGood, SchedRec
<1>2. \A c \in sched.todo : c.id \in Node
  BY <1>1 DEF NodeCopy
<1> QED
  BY <1>2 DEF SchedGood, Good

\* A commit: of a heartbeat, of an entry of an earlier leader, of the
\* scheduler's write, of a write of a call.
LEMMA CommitStepKeeps ==
    ASSUME SchedulerInv,
           \/ \E n \in Node : Heartbeat(n)
           \/ \E w \in late : LateCommit(w)
           \/ SchedulerCommit
           \/ \E r \in requests : RequestCommit(r)
    PROVE  SchedulerInv'
<1>0. ControlType /\ SchedGood(sched)
  BY DEF SchedulerInv
<1>1. ASSUME NEW w, Good(w), fsm' = Committed(w), used' = used
      PROVE  /\ fsm' \in FsmType /\ Present(fsm'.server) \subseteq used'
             /\ \A n \in Node : fsm.node[n] \in NodeRec => fsm'.node[n] \in NodeRec
  BY <1>0, <1>1, CommitKeeps
<1>2. ASSUME NEW n \in Node, Heartbeat(n) PROVE SchedulerInv'
  <2>1. PICK r \in Rooms : fsm' = Committed(Write("node", n, FreshNode(r)))
    BY <1>2 DEF Heartbeat
  <2>2. FreshNode(r) \in NodeRec
    BY SchedulerAssumption DEF FreshNode, NodeRec, MaxAge
  <2>3. Good(Write("node", n, FreshNode(r)))
    BY <2>2, WholeWrites DEF Good, Write
  <2>4. beat' = TRUE /\ UNCHANGED <<leader, alive, sched, ticked, requests, late, used, budget, flaws>>
    BY <1>2 DEF Heartbeat
  <2>5. /\ fsm' \in FsmType /\ Present(fsm'.server) \subseteq used'
        /\ \A m \in Node : fsm.node[m] \in NodeRec => fsm'.node[m] \in NodeRec
    BY <1>1, <2>1, <2>3, <2>4
  <2>6. ControlType'
    BY <1>0, <2>4, <2>5 DEF ControlType, Good
  <2> QED
    BY <1>0, <2>4, <2>5, <2>6, SchedFrame DEF SchedulerInv
<1>3. ASSUME NEW w \in late, LateCommit(w) PROVE SchedulerInv'
  <2>1. /\ fsm' = Committed(w) /\ late' = late \ {w}
        /\ UNCHANGED <<leader, alive, sched, beat, ticked, requests, used, budget, flaws>>
    BY <1>3 DEF LateCommit
  <2>2. Good(w)
    BY <1>0 DEF ControlType
  <2>3. /\ fsm' \in FsmType /\ Present(fsm'.server) \subseteq used'
        /\ \A m \in Node : fsm.node[m] \in NodeRec => fsm'.node[m] \in NodeRec
    BY <1>1, <2>1, <2>2
  <2>4. ControlType'
    BY <1>0, <2>1, <2>3 DEF ControlType, Good
  <2> QED
    BY <1>0, <2>1, <2>3, <2>4, SchedFrame DEF SchedulerInv
<1>4. CASE SchedulerCommit
  <2>1. /\ fsm' = Committed(sched.out) /\ sched' = [sched EXCEPT !.out = None] /\ sched.out # None
        /\ UNCHANGED <<leader, alive, beat, ticked, requests, late, used, budget, flaws>>
    BY <1>4 DEF SchedulerCommit
  <2>2. Good(sched.out)
    BY <1>0, <2>1 DEF SchedGood
  <2>3. /\ fsm' \in FsmType /\ Present(fsm'.server) \subseteq used'
        /\ \A m \in Node : fsm.node[m] \in NodeRec => fsm'.node[m] \in NodeRec
    BY <1>1, <2>1, <2>2
  <2>4. ControlType'
    BY <1>0, <2>1, <2>3 DEF ControlType, Good
  <2>5. \A c \in sched.todo : c.id \in Node
    BY <1>0 DEF SchedGood, SchedRec, NodeCopy
  <2>6. sched' \in SchedRec /\ sched'.out = None
    BY <1>0, <2>1 DEF SchedGood, SchedRec, OrNone
  <2>7. /\ sched'.todo = sched.todo /\ sched'.phase = sched.phase /\ sched'.cur = sched.cur
        /\ sched'.spawn = sched.spawn /\ sched'.grp = sched.grp /\ sched'.orphans = sched.orphans
    BY <1>0, <2>1 DEF SchedGood, SchedRec
  <2>8. SchedGood(sched)'
    BY <1>0, <2>1, <2>3, <2>5, <2>6, <2>7 DEF SchedGood
  <2> QED
    BY <2>4, <2>8 DEF SchedulerInv
<1>5. ASSUME NEW r \in requests, RequestCommit(r) PROVE SchedulerInv'
  <2>1. PICK w \in Handed(r) :
           /\ fsm' = Committed(w)
           /\ requests' = IF r.todo = {} THEN requests \ {r}
                          ELSE (requests \ {r}) \cup {[r EXCEPT !.todo = r.todo \ {w}]}
    BY <1>5 DEF RequestCommit
  <2>2. UNCHANGED <<leader, alive, sched, beat, ticked, late, used, budget, flaws>>
    BY <1>5 DEF RequestCommit
  <2>3. Good(w)
    BY <1>0, <2>1 DEF ControlType, Handed
  <2>4. /\ fsm' \in FsmType /\ Present(fsm'.server) \subseteq used'
        /\ \A m \in Node : fsm.node[m] \in NodeRec => fsm'.node[m] \in NodeRec
    BY <1>1, <2>1, <2>2, <2>3
  <2>5. r \in RequestRec
    BY <1>0 DEF ControlType
  <2>6. /\ [r EXCEPT !.todo = r.todo \ {w}] \in RequestRec
        /\ [r EXCEPT !.todo = r.todo \ {w}].todo \subseteq r.todo
        /\ [r EXCEPT !.todo = r.todo \ {w}].last = r.last
    BY <2>5 DEF RequestRec
  <2>7. /\ requests' \subseteq RequestRec
        /\ \A q \in requests' : \E p \in requests : q.todo \subseteq p.todo /\ q.last = p.last
    BY <1>0, <2>1, <2>6 DEF ControlType
  <2>8. \A q \in requests' : \A v \in q.todo \cup {q.last} : Good(v)
    BY <1>0, <2>7 DEF ControlType
  <2>9. ControlType'
    BY <1>0, <2>2, <2>4, <2>7, <2>8 DEF ControlType, Good
  <2> QED
    BY <1>0, <2>2, <2>4, <2>9, SchedFrame DEF SchedulerInv
<1> QED
  BY <1>2, <1>3, <1>4, <1>5

\* A call that has been read and checked, and whose commands are good.
LEMMA RequestKeeps ==
    ASSUME SchedulerInv, NEW before, NEW w, Request(before, w),
           used \subseteq used', used' \in FiniteServers,
           \A v \in before \cup {w} : v \in WriteType /\ (v.to = "server" => v.id \in used')
    PROVE  SchedulerInv'
<1>0. ControlType /\ SchedGood(sched)
  BY DEF SchedulerInv
<1>1. UNCHANGED <<leader, alive, fsm, sched, beat, ticked, late, flaws>>
  BY DEF Request
<1>2. budget.requests \in Nat /\ budget.requests > 0
  BY <1>0 DEF ControlType, Request
<1>3. budget' \in [elections : Nat, crashes : Nat, leaderless : Nat, requests : Nat,
                  failures : Nat]
  BY <1>0, <1>2 DEF Request, ControlType
<1> DEFINE new == [todo |-> before, last |-> w, no |-> budget.requests]
<1>4. new \in RequestRec /\ new.todo = before /\ new.last = w
  BY <1>2 DEF RequestRec
<1>5. requests' = requests \cup {new}
  BY DEF Request
<1> HIDE DEF new
<1>6. requests' \subseteq RequestRec
  BY <1>0, <1>4, <1>5 DEF ControlType
<1>7. (\A r \in requests : \A v \in r.todo \cup {r.last} : Good(v))'
  BY <1>0, <1>4, <1>5 DEF ControlType, Good
<1>8. ControlType'
  BY <1>0, <1>1, <1>3, <1>6, <1>7 DEF ControlType, Good
<1>9. SchedGood(sched)'
  BY <1>0, <1>1 DEF SchedGood, Good
<1> QED
  BY <1>8, <1>9 DEF SchedulerInv

\* The REST handlers and the tasks service.
LEMMA CallKeeps ==
    ASSUME SchedulerInv, Call
    PROVE  SchedulerInv'
<1>0. /\ ControlType /\ used \in FiniteServers /\ used \subseteq Server
      /\ fsm.server \in [Server -> OrNone(ServerRec)]
  BY DEF SchedulerInv, ControlType, FsmType, FiniteServers
<1>1. ASSUME NEW s \in Server, fsm.server[s] # None, NEW st \in {"Starting", "Stopping", "Orphaned"}
      PROVE  /\ Write("server", s, [fsm.server[s] EXCEPT !.state = st]) \in WriteType
             /\ Write("server", s, [fsm.server[s] EXCEPT !.state = st]).id = s /\ s \in used
  BY <1>0, <1>1, WholeWrites, RecordFields DEF Write, OrNone, ControlType, Present
<1>2. ASSUME NEW s \in Server, StartServer(s) PROVE SchedulerInv'
  <2>1. PICK h \in ViableHosts(None), ha \in BOOLEAN, g \in Group \cup {None} :
           Request({}, Write("server", s,
              [host |-> h, state |-> "Starting", ha |-> ha, group |-> g]))
    BY <1>2 DEF StartServer
  <2>2. [host |-> h, state |-> "Starting", ha |-> ha, group |-> g] \in ServerRec
    BY <1>0, Viable DEF ServerRec
  <2>3. used' = used \cup {s} /\ used' \in FiniteServers
    BY <1>0, <1>2, NewIDKeeps DEF StartServer
  <2> DEFINE w == Write("server", s, [host |-> h, state |-> "Starting", ha |-> ha, group |-> g])
  <2>4. w \in WriteType /\ w.id = s
    BY <2>2, WholeWrites DEF Write, OrNone
  <2> HIDE DEF w
  <2>5. Request({}, w)
    BY <2>1 DEF w
  <2> QED
    BY <2>3, <2>4, <2>5, RequestKeeps
<1>3. ASSUME NEW s \in Server, StopServer(s) \/ RestartServer(s) PROVE SchedulerInv'
  <2>1. PICK st \in {"Starting", "Stopping", "Orphaned"} :
           Request({}, Write("server", s, [fsm.server[s] EXCEPT !.state = st]))
    BY <1>3 DEF StopServer, RestartServer
  <2>2. fsm.server[s] # None /\ used' = used
    BY <1>3 DEF StopServer, RestartServer
  <2> DEFINE w == Write("server", s, [fsm.server[s] EXCEPT !.state = st])
  <2>3. w \in WriteType /\ w.id \in used
    BY <1>1, <2>2
  <2> HIDE DEF w
  <2>4. Request({}, w)
    BY <2>1 DEF w
  <2> QED
    BY <1>0, <2>2, <2>3, <2>4, RequestKeeps
<1>4. ASSUME NEW s \in Server, DeleteServer(s) PROVE SchedulerInv'
  <2> DEFINE w == Write("server", s, None)
  <2>1. w \in WriteType /\ w.id = s
    BY WholeWrites DEF Write, OrNone
  <2>2. s \in used /\ used' = used
    BY <1>4 DEF DeleteServer
  <2> HIDE DEF w
  <2>3. Request({}, w)
    BY <1>4 DEF DeleteServer, w
  <2> QED
    BY <1>0, <2>1, <2>2, <2>3, RequestKeeps
<1>5. ASSUME NEW g \in Group, DeleteGroup(g) PROVE SchedulerInv'
  <2> DEFINE stops == {Write("server", s, [fsm.server[s] EXCEPT !.state = "Stopping"]) :
                          s \in InGroup(fsm.server, g)}
             w == Write("group", g, None)
  <2>1. w \in WriteType /\ w.to = "group"
    BY DEF Write, WriteType, OrNone
  <2>2. \A v \in stops : v \in WriteType /\ v.id \in used
    <3>1. \A s \in InGroup(fsm.server, g) : s \in Server /\ fsm.server[s] # None
      BY <1>0 DEF InGroup, Present
    <3> QED
      BY <1>1, <3>1
  <2>3. used' = used
    BY <1>5 DEF DeleteGroup
  <2>4. Request(stops, w)
    BY <1>5 DEF DeleteGroup
  <2> HIDE DEF stops, w
  <2> QED
    BY <1>0, <2>1, <2>2, <2>3, <2>4, RequestKeeps
<1>6. ASSUME NEW g \in Group, NEW r \in GroupSpecs, CreateGroup(g, r) PROVE SchedulerInv'
  <2> DEFINE w == Write("group", g, r)
  <2>1. w \in WriteType /\ w.to = "group"
    BY DEF Write, WriteType, OrNone
  <2>2. used' = used /\ Request({}, w)
    BY <1>6 DEF CreateGroup
  <2> HIDE DEF w
  <2> QED
    BY <1>0, <2>1, <2>2, RequestKeeps
<1>7. ASSUME NEW t \in Template, CreateTemplate(t) \/ DeleteTemplate(t) PROVE SchedulerInv'
  <2>1. PICK v \in {None, "dynamic"} : Request({}, Write("template", t, v))
    BY <1>7 DEF CreateTemplate, DeleteTemplate
  <2> DEFINE w == Write("template", t, v)
  <2>2. w \in WriteType /\ w.to = "template"
    BY DEF Write, WriteType
  <2>3. used' = used /\ Request({}, w)
    BY <1>7, <2>1 DEF CreateTemplate, DeleteTemplate
  <2> HIDE DEF w
  <2> QED
    BY <1>0, <2>2, <2>3, RequestKeeps
<1> QED
  BY <1>2, <1>3, <1>4, <1>5, <1>6, <1>7 DEF Call

-----------------------------------------------------------------------------
\* What may be in the log of a leader's successor: what was there, what a call
\* or the scheduler had handed to Raft, and the heartbeat of the period.
LEMMA LateOrigin ==
    ASSUME LoseOffice, NEW w \in late'
    PROVE  \/ w \in late
           \/ \E r \in requests : w \in r.todo \cup {r.last}
           \/ w = sched.out /\ w # None
           \/ leader # None /\ \E room \in Rooms : w = Write("node", leader, FreshNode(room))
BY DEF LoseOffice, InFlight, Handed

\* A change of leader keeps the types.
LEMMA OfficeKeeps ==
    ASSUME SchedulerInv, LoseOffice, leader' \in OrNone(Node), alive' \subseteq Node,
           budget' \in [elections : Nat, crashes : Nat, leaderless : Nat, requests : Nat,
                  failures : Nat],
           UNCHANGED <<fsm, used>>
    PROVE  SchedulerInv'
<1>0. ControlType /\ SchedGood(sched)
  BY DEF SchedulerInv
<1>1. ASSUME NEW w \in late' PROVE Good(w)
  <2>1. ASSUME leader # None, NEW room \in Rooms, w = Write("node", leader, FreshNode(room))
        PROVE  Good(w)
    <3>1. leader \in Node
      BY <1>0, <2>1 DEF ControlType, OrNone
    <3>2. FreshNode(room) \in NodeRec
      BY SchedulerAssumption DEF FreshNode, NodeRec, MaxAge
    <3> QED
      BY <2>1, <3>1, <3>2, WholeWrites DEF Good, Write
  <2> QED
    BY <1>0, <2>1, LateOrigin DEF ControlType, SchedGood
<1>2. sched' = Idle /\ requests' = {} /\ beat' = FALSE /\ ticked' = FALSE /\ flaws' = {}
  BY DEF LoseOffice
<1>3. ControlType'
  BY <1>0, <1>1, <1>2 DEF ControlType, Good
<1>4. SchedGood(sched)'
  BY <1>2, IdleGood DEF SchedGood, Good
<1> QED
  BY <1>3, <1>4 DEF SchedulerInv

\* A record that grows older is whole, and its state is what it was.
LEMMA OlderKeeps ==
    /\ \A r \in NodeRec : Older(r) \in NodeRec /\ (r # None => Older(r).state = r.state)
    /\ Older(None) = None
BY SchedulerAssumption DEF Older, NodeRec, MaxAge

\* What a period does to the records of nodes and to the entries that an
\* earlier leader left.
LEMMA AdvanceMaps ==
    ASSUME SchedulerInv, Advance
    PROVE  /\ fsm' \in FsmType /\ fsm'.node = [n \in Node |-> Older(fsm.node[n])]
           /\ fsm'.server = fsm.server
           /\ \A w \in late' : \/ w \in late /\ w.to # "node"
                               \/ \E v \in late : v.to = "node" /\ w = Write("node", v.id, Older(v.val))
<1>0. fsm \in FsmType /\ fsm.node \in [Node -> OrNone(NodeRec)]
  BY DEF SchedulerInv, ControlType, FsmType
<1>1. fsm' = [fsm EXCEPT !.node = [n \in Node |-> Older(fsm.node[n])]]
  BY DEF Advance
<1>2. [n \in Node |-> Older(fsm.node[n])] \in [Node -> OrNone(NodeRec)]
  BY <1>0, OlderKeeps DEF OrNone
<1>3. fsm' \in FsmType /\ fsm'.node = [n \in Node |-> Older(fsm.node[n])] /\ fsm'.server = fsm.server
  BY <1>0, <1>1, <1>2 DEF FsmType
<1>4. late' = {IF w.to = "node" THEN Write("node", w.id, Older(w.val)) ELSE w : w \in late}
  BY DEF Advance
<1> QED
  BY <1>3, <1>4

\* Every step keeps the types.
LEMMA SchedulerInvStep == SchedulerInv /\ [Next]_vars => SchedulerInv'
<1> SUFFICES ASSUME SchedulerInv, [Next]_vars PROVE SchedulerInv'
  OBVIOUS
<1>0. /\ ControlType /\ SchedGood(sched)
      /\ budget \in [elections : Nat, crashes : Nat, leaderless : Nat, requests : Nat,
                  failures : Nat]
  BY DEF SchedulerInv, ControlType
<1>1. CASE UNCHANGED vars
  BY <1>0, <1>1 DEF vars, SchedulerInv, ControlType, SchedGood, Good
<1>2. ASSUME NEW n \in Node, Elect(n) PROVE SchedulerInv'
  <2>1. leader' \in OrNone(Node) /\ LoseOffice /\ UNCHANGED <<alive, fsm, used>>
    BY <1>2 DEF Elect, OrNone
  <2>2. budget' \in [elections : Nat, crashes : Nat, leaderless : Nat, requests : Nat,
                  failures : Nat]
    BY <1>0, <1>2 DEF Elect
  <2> QED
    BY <1>0, <2>1, <2>2, OfficeKeeps DEF ControlType
<1>3. ASSUME NEW n \in Node, Crash(n) PROVE SchedulerInv'
  <2>1. budget' \in [elections : Nat, crashes : Nat, leaderless : Nat, requests : Nat,
                  failures : Nat]
    BY <1>0, <1>3 DEF Crash
  <2>2. alive' \subseteq Node /\ UNCHANGED <<fsm, used>>
    BY <1>0, <1>3 DEF Crash, ControlType
  <2>3. CASE leader' = None /\ LoseOffice
    BY <2>1, <2>2, <2>3, OfficeKeeps DEF OrNone
  <2>4. CASE UNCHANGED <<leader, sched, requests, late, beat, ticked, flaws>>
    BY <1>0, <2>1, <2>2, <2>4 DEF SchedulerInv, ControlType, SchedGood, Good
  <2> QED
    BY <1>3, <2>3, <2>4 DEF Crash
<1>4. ASSUME NEW n \in Node, Recover(n) PROVE SchedulerInv'
  BY <1>0, <1>4 DEF Recover, SchedulerInv, ControlType, SchedGood, Good
<1>5. CASE Advance
  <2>1. /\ beat' = FALSE /\ ticked' = FALSE
        /\ UNCHANGED <<leader, alive, sched, requests, used, flaws>>
    BY <1>5 DEF Advance
  <2>2. budget' \in [elections : Nat, crashes : Nat, leaderless : Nat, requests : Nat,
                  failures : Nat]
    BY <1>0, <1>5 DEF Advance
  <2>3. /\ fsm' \in FsmType /\ fsm'.node = [n \in Node |-> Older(fsm.node[n])]
        /\ fsm'.server = fsm.server
    BY <1>5, AdvanceMaps
  <2>4. ASSUME NEW w \in late' PROVE Good(w)
    <3>1. ASSUME NEW v \in late, v.to = "node", w = Write("node", v.id, Older(v.val))
          PROVE  Good(w)
      <4>1. v.id \in Node /\ v.val \in NodeRec
        BY <1>0, <3>1, WriteFields DEF ControlType, Good
      <4> QED
        BY <3>1, <4>1, OlderKeeps, WholeWrites DEF Good, Write
    <3> QED
      BY <1>0, <1>5, <3>1, AdvanceMaps DEF ControlType
  <2>5. ControlType'
    BY <1>0, <2>1, <2>2, <2>3, <2>4 DEF ControlType, Good
  <2>6. SchedGood(sched)'
    BY <1>0, <2>1, <2>3, OlderKeeps, SchedFrame
  <2> QED
    BY <2>5, <2>6 DEF SchedulerInv
<1>6. CASE SchedulerStep
  BY <1>6, FailoverKeeps, AutoscaleKeeps, CommitStepKeeps DEF SchedulerStep
<1>7. CASE Call
  BY <1>7, CallKeeps
<1>8. CASE \/ \E n \in Node : Heartbeat(n)
           \/ \E w \in late : LateCommit(w)
           \/ \E r \in requests : RequestCommit(r)
  BY <1>8, CommitStepKeeps
<1>9. CASE SchedulerCommitFails
  <2>1. /\ sched' = [sched EXCEPT !.out = None] /\ flaws' = flaws \cup {"failed"}
        /\ UNCHANGED <<leader, alive, fsm, beat, ticked, requests, late, used>>
    BY <1>9 DEF SchedulerCommitFails
  <2>2. budget' \in [elections : Nat, crashes : Nat, leaderless : Nat, requests : Nat,
                     failures : Nat]
    BY <1>0, <1>9 DEF SchedulerCommitFails
  <2>3. ControlType'
    BY <1>0, <2>1, <2>2 DEF ControlType, Good
  <2>4. SchedGood(sched)'
    BY <1>0, <2>1 DEF SchedGood, SchedRec, OrNone
  <2> QED
    BY <2>3, <2>4 DEF SchedulerInv
<1> QED
  BY <1>1, <1>2, <1>3, <1>4, <1>5, <1>6, <1>7, <1>8, <1>9 DEF Next

\* The cluster starts with whole records.
LEMMA SchedulerInvInit == Init => SchedulerInv
<1> SUFFICES ASSUME Init PROVE SchedulerInv
  OBVIOUS
<1>1. PICK srv \in [InitServers -> {None} \cup [host : {leader}, state : {"Starting"},
                                              ha : BOOLEAN, group : {None}]],
           grp \in [InitGroups -> {None} \cup GroupSpecs] :
         fsm = [node |-> [n \in Node |-> IF n = leader THEN FreshNode(TRUE) ELSE None],
                server |-> [s \in Server |-> IF s \in InitServers THEN srv[s] ELSE None],
                group |-> [g \in Group |-> IF g \in InitGroups THEN grp[g] ELSE None],
                template |-> [t \in Template |-> "dynamic"]]
  BY DEF Init
<1>2. leader \in Node /\ FreshNode(TRUE) \in NodeRec
  BY SchedulerAssumption DEF Init, FreshNode, NodeRec, MaxAge
<1>3. fsm.node \in [Node -> OrNone(NodeRec)]
  BY <1>1, <1>2 DEF OrNone
<1>4. fsm.server \in [Server -> OrNone(ServerRec)]
  BY <1>1, <1>2 DEF OrNone, ServerRec
<1>5. fsm.group \in [Group -> OrNone(GroupSpecs)]
  BY <1>1 DEF OrNone
<1>6. fsm.template \in [Template -> {None, "dynamic"}]
  BY <1>1
<1>7. fsm \in FsmType
  BY <1>1, <1>3, <1>4, <1>5, <1>6 DEF FsmType
<1>8. Present(fsm.server) \subseteq used /\ used \in FiniteServers
  BY <1>1, SchedulerAssumption DEF Init, Present, FiniteServers
<1>9. budget \in [elections : Nat, crashes : Nat, leaderless : Nat, requests : Nat,
                  failures : Nat]
  BY SchedulerAssumption DEF Init
<1>10. ControlType
  BY <1>2, <1>7, <1>8, <1>9 DEF Init, ControlType, OrNone
<1>11. SchedGood(sched)
  BY IdleGood DEF Init
<1> QED
  BY <1>10, <1>11 DEF SchedulerInv

\* The types hold throughout.
LEMMA SchedulerInvariant == Spec => []SchedulerInv
BY SchedulerInvInit, SchedulerInvStep, PTL DEF Spec

\* No handler, tick or heartbeat commits the zero value of a lookup that
\* failed: every record in the FSM and every command on its way is whole, and
\* the servers that exist have ids that were handed out.
THEOREM TypeOKThm == Spec => []TypeOK
<1>1. SchedulerInv => TypeOK
  <2> SUFFICES ASSUME SchedulerInv PROVE TypeOK
    OBVIOUS
  <2>1. sched.out \in OrNone(WriteType)
    BY DEF SchedulerInv, SchedGood, SchedRec
  <2>2. \A r \in requests : r.todo \subseteq WriteType /\ r.last \in WriteType
    BY DEF SchedulerInv, ControlType, RequestRec
  <2>3. late \subseteq WriteType
    BY DEF SchedulerInv, ControlType, Good
  <2> QED
    BY <2>1, <2>2, <2>3 DEF SchedulerInv, ControlType, FsmType, FiniteServers, TypeOK
<1> QED
  BY <1>1, SchedulerInvariant, PTL

-----------------------------------------------------------------------------
\* What the steps of a tick do to the phase, to the nodes left to look at and
\* to the write that is out; nothing else of the control plane changes.
TickPart ==
    \/ /\ sched.phase = "idle" /\ sched'.phase = "nodes" /\ sched'.out = None
       /\ flaws' = {} => late = {}
       /\ sched'.todo = {[id |-> n, rec |-> fsm.node[n]] : n \in Present(fsm.node)}
    \/ /\ sched.phase = "nodes"
       /\ \E c \in sched.todo :
             /\ sched'.todo = sched.todo \ {c}
             /\ \/ Overdue(c.rec) /\ sched'.phase = "mark" /\ sched'.cur = c.id /\ sched'.out = None
                \/ /\ Doubtful(c.rec) /\ sched'.phase = "nodes"
                   /\ sched'.out = Write("node", c.id, [c.rec EXCEPT !.state = "Suspect"])
                \/ ~Overdue(c.rec) /\ sched'.phase = "nodes" /\ sched'.out = None
    \/ /\ sched.phase = "mark" /\ sched'.phase = "list" /\ sched'.todo = sched.todo
       /\ sched'.out = Write("node", sched.cur, [fsm.node[sched.cur] EXCEPT !.state = "Down"])
    \/ /\ sched.phase = "list" /\ sched'.phase = "evacuate" /\ sched'.todo = sched.todo
       /\ sched'.out = None
    \/ /\ sched.phase = "evacuate" /\ sched'.phase = "evacuate" /\ sched'.todo = sched.todo
       /\ \/ sched'.out = None
          \/ /\ sched'.out.to = "server"
             /\ sched'.out.val.state = "Starting" => fsm.node[sched'.out.val.host].state = "Up"
    \/ /\ sched.phase = "evacuate" /\ sched'.phase = "nodes" /\ sched'.todo = sched.todo
       /\ sched'.out = None
    \/ /\ sched.phase = "nodes" /\ sched.todo = {} /\ sched'.phase = "groups" /\ sched'.todo = {}
       /\ sched'.out = None
    \/ /\ sched.phase \in {"groups", "scale"} /\ sched'.phase = "scale" /\ sched'.todo = sched.todo
       /\ sched'.out = None \/ sched'.out.to = "server"

\* A step of the tick, other than a commit, is one of those, or ends the tick.
LEMMA TickParts ==
    ASSUME SchedulerInv, SchedulerStep, ~SchedulerCommit
    PROVE  /\ UNCHANGED <<leader, alive, fsm, beat, requests, late, budget>>
           /\ sched.out = None /\ leader # None
           /\ sched.phase # "idle" => flaws' = flaws
           /\ \/ TickPart /\ ticked' = ticked /\ (sched.phase = "idle" => ~ticked)
              \/ sched.phase = "scale" /\ sched' = Idle /\ ticked' = TRUE
<1>0. sched \in SchedRec /\ ControlType
  BY DEF SchedulerInv, SchedGood
<1>1. CASE StartTick
  <2> DEFINE copies == {[id |-> n, rec |-> fsm.node[n]] : n \in Present(fsm.node)}
  <2>1. sched' = [Idle EXCEPT !.phase = "nodes", !.todo = copies]
    BY <1>1 DEF StartTick, TickStep
  <2>2. sched'.phase = "nodes" /\ sched'.todo = copies /\ sched'.out = None
    BY <2>1 DEF Idle
  <2> QED
    BY <1>1, <2>2 DEF StartTick, TickStep, Tick, TickPart
<1>2. ASSUME NEW c \in sched.todo, CheckNode(c)
      PROVE  TickPart /\ sched.phase = "nodes"
             /\ UNCHANGED <<leader, alive, fsm, beat, requests, late, budget, ticked, flaws>>
             /\ sched.out = None /\ leader # None
  <2> DEFINE rest == [sched EXCEPT !.todo = sched.todo \ {c}]
  <2>1. rest \in SchedRec /\ rest.todo = sched.todo \ {c} /\ rest.phase = sched.phase
        /\ rest.out = sched.out
    BY <1>0 DEF SchedRec
  <2>2. Tick("nodes")
    BY <1>2 DEF CheckNode
  <2>3. CASE Overdue(c.rec) /\ TickStep([rest EXCEPT !.phase = "mark", !.cur = c.id])
    <3>1. sched' = [rest EXCEPT !.phase = "mark", !.cur = c.id]
      BY <2>3 DEF TickStep
    <3> HIDE DEF rest
    <3>2. sched'.phase = "mark" /\ sched'.cur = c.id /\ sched'.todo = rest.todo
          /\ sched'.out = rest.out
      BY <2>1, <3>1 DEF SchedRec
    <3> QED
      BY <2>1, <2>2, <2>3, <3>2 DEF Tick, TickStep, TickPart
  <2>4. CASE Doubtful(c.rec) /\ TickStep([rest EXCEPT !.out =
                Write("node", c.id, [c.rec EXCEPT !.state = "Suspect"])])
    <3> DEFINE w == Write("node", c.id, [c.rec EXCEPT !.state = "Suspect"])
    <3>1. sched' = [rest EXCEPT !.out = w]
      BY <2>4 DEF TickStep
    <3> HIDE DEF rest, w
    <3>2. sched'.phase = rest.phase /\ sched'.todo = rest.todo /\ sched'.out = w
      BY <2>1, <3>1 DEF SchedRec
    <3> QED
      BY <2>1, <2>2, <2>4, <3>2 DEF Tick, TickStep, TickPart, w
  <2>5. CASE ~Overdue(c.rec) /\ TickStep(rest)
    BY <2>1, <2>2, <2>5 DEF Tick, TickStep, TickPart
  <2> QED
    BY <1>2, <2>3, <2>4, <2>5 DEF CheckNode
<1>3. CASE MarkNodeDown
  <2> DEFINE w == Write("node", sched.cur, [fsm.node[sched.cur] EXCEPT !.state = "Down"])
  <2>1. sched' = [sched EXCEPT !.phase = "list", !.out = w]
    BY <1>3 DEF MarkNodeDown, TickStep
  <2> HIDE DEF w
  <2>2. sched'.phase = "list" /\ sched'.todo = sched.todo /\ sched'.out = w
    BY <1>0, <2>1 DEF SchedRec
  <2> QED
    BY <1>3, <2>2 DEF MarkNodeDown, Tick, TickStep, StartTick, TickPart, w
<1>4. CASE EvacuateList
  <2>1. sched'.phase = "evacuate" /\ sched'.todo = sched.todo /\ sched'.out = sched.out
    BY <1>0, <1>4 DEF EvacuateList, TickStep, SchedRec
  <2> QED
    BY <1>4, <2>1 DEF EvacuateList, Tick, TickStep, StartTick, TickPart
<1>5. ASSUME NEW o \in sched.orphans, EvacuateServer(o)
      PROVE  TickPart /\ sched.phase = "evacuate"
             /\ UNCHANGED <<leader, alive, fsm, beat, requests, late, budget, ticked, flaws>>
             /\ sched.out = None /\ leader # None
  <2> DEFINE rest == [sched EXCEPT !.orphans = sched.orphans \ {o}]
  <2>0. o.rec \in ServerRec
    BY <1>0 DEF SchedRec, ServerCopy
  <2>1. rest \in SchedRec /\ rest.todo = sched.todo /\ rest.phase = sched.phase
        /\ rest.out = sched.out
    BY <1>0 DEF SchedRec
  <2>2. Tick("evacuate")
    BY <1>5 DEF EvacuateServer
  <2>3. ASSUME NEW v, TickStep([rest EXCEPT !.out = Write("server", o.id, v)]),
               v.state = "Starting" => fsm.node[v.host].state = "Up"
        PROVE  TickPart
    <3> DEFINE w == Write("server", o.id, v)
    <3>1. sched' = [rest EXCEPT !.out = w] /\ w.to = "server" /\ w.val = v
      BY <2>3 DEF TickStep, Write
    <3> HIDE DEF rest, w
    <3>2. sched'.phase = rest.phase /\ sched'.todo = rest.todo /\ sched'.out = w
      BY <2>1, <3>1 DEF SchedRec
    <3> QED
      BY <2>1, <2>2, <2>3, <3>1, <3>2 DEF Tick, TickPart
  <2>4. ASSUME ~o.rec.ha, TickStep([rest EXCEPT !.out =
               Write("server", o.id, [o.rec EXCEPT !.state = "Orphaned"])])
        PROVE  TickPart
    <3>1. [o.rec EXCEPT !.state = "Orphaned"].state = "Orphaned"
      BY <2>0 DEF ServerRec
    <3> QED
      BY <2>3, <2>4, <3>1
  <2>5. ASSUME NEW t \in ViableHosts(sched.cur), TickStep([rest EXCEPT !.out =
               Write("server", o.id, [o.rec EXCEPT !.host = t, !.state = "Starting"])])
        PROVE  TickPart
    <3>1. [o.rec EXCEPT !.host = t, !.state = "Starting"].host = t
      BY <2>0 DEF ServerRec
    <3>2. fsm.node[t].state = "Up"
      BY <1>0, Viable
    <3> QED
      BY <2>3, <2>5, <3>1, <3>2
  <2>6. ASSUME TickStep(rest) PROVE TickPart
    BY <2>1, <2>2, <2>6 DEF Tick, TickStep, TickPart
  <2>7. UNCHANGED <<leader, alive, fsm, beat, requests, late, budget, ticked, flaws>>
    BY <1>5 DEF EvacuateServer, TickStep
  <2> QED
    BY <1>5, <2>2, <2>4, <2>5, <2>6, <2>7 DEF EvacuateServer, Tick
<1>6. CASE EvacuateEnd
  <2>1. sched'.phase = "nodes" /\ sched'.todo = sched.todo /\ sched'.out = sched.out
    BY <1>0, <1>6 DEF EvacuateEnd, TickStep, SchedRec
  <2> QED
    BY <1>6, <2>1 DEF EvacuateEnd, Tick, TickStep, StartTick, TickPart
<1>7. CASE ReadServers
  <2>1. sched'.phase = "groups" /\ sched'.todo = sched.todo /\ sched'.out = sched.out
    BY <1>0, <1>7 DEF ReadServers, TickStep, SchedRec
  <2> QED
    BY <1>7, <2>1 DEF ReadServers, Tick, TickStep, StartTick, TickPart
<1>8. CASE ReadGroups
  <2>1. sched'.phase = "scale" /\ sched'.todo = sched.todo /\ sched'.out = sched.out
    BY <1>0, <1>8 DEF ReadGroups, TickStep, SchedRec
  <2> QED
    BY <1>8, <2>1 DEF ReadGroups, Tick, TickStep, StartTick, TickPart
<1>9. ASSUME NEW g \in sched.groups, ScaleGroup(g)
      PROVE  TickPart /\ sched.phase = "scale"
             /\ UNCHANGED <<leader, alive, fsm, beat, requests, late, budget, ticked, flaws>>
             /\ sched.out = None /\ leader # None
  <2> DEFINE next == [sched EXCEPT !.groups = sched.groups \ {g}, !.grp = g]
  <2>1. /\ next.todo = sched.todo /\ next.phase = sched.phase /\ next.out = sched.out
        /\ \A x : /\ [next EXCEPT !.spawn = x].todo = sched.todo
                  /\ [next EXCEPT !.spawn = x].phase = sched.phase
                  /\ [next EXCEPT !.spawn = x].out = sched.out
                  /\ [next EXCEPT !.stops = x].todo = sched.todo
                  /\ [next EXCEPT !.stops = x].phase = sched.phase
                  /\ [next EXCEPT !.stops = x].out = sched.out
    BY <1>0 DEF SchedRec
  <2> HIDE DEF next
  <2>2. sched'.phase = sched.phase /\ sched'.todo = sched.todo /\ sched'.out = sched.out
    BY <1>9, <2>1 DEF ScaleGroup, TickStep, next
  <2>3. UNCHANGED <<leader, alive, fsm, beat, requests, late, budget, ticked, flaws>>
    BY <1>9 DEF ScaleGroup, TickStep
  <2> QED
    BY <1>9, <2>2, <2>3 DEF ScaleGroup, Tick, TickPart
<1>10. CASE SpawnInstance
  <2> DEFINE rest == [sched EXCEPT !.spawn = sched.spawn - 1]
  <2>1. /\ rest.todo = sched.todo /\ rest.phase = sched.phase /\ rest.out = sched.out
        /\ \A w : /\ [rest EXCEPT !.out = w].todo = sched.todo
                  /\ [rest EXCEPT !.out = w].phase = sched.phase
                  /\ [rest EXCEPT !.out = w].out = w
    BY <1>0 DEF SchedRec
  <2> HIDE DEF rest
  <2>2. sched' = rest \/ \E s, v : sched' = [rest EXCEPT !.out = Write("server", s, v)]
    BY <1>10 DEF SpawnInstance, TickStep, rest
  <2>3. \A s, v : Write("server", s, v).to = "server"
    BY DEF Write
  <2>4. sched'.phase = sched.phase /\ sched'.todo = sched.todo
        /\ (sched'.out = sched.out \/ sched'.out.to = "server")
    <3>1. CASE sched' = rest
      BY <2>1, <3>1
    <3>2. ASSUME NEW w, w.to = "server", sched' = [rest EXCEPT !.out = w]
          PROVE  /\ sched'.phase = sched.phase /\ sched'.todo = sched.todo
                 /\ sched'.out.to = "server"
      BY <2>1, <3>2
    <3> QED
      BY <2>2, <2>3, <3>1, <3>2
  <2>5. UNCHANGED <<leader, alive, fsm, beat, requests, late, budget, ticked, flaws>>
    BY <1>10 DEF SpawnInstance, TickStep
  <2> QED
    BY <1>10, <2>4, <2>5 DEF SpawnInstance, Tick, StartTick, TickPart
<1>11. ASSUME NEW s \in sched.stops, StopInstance(s)
       PROVE  TickPart /\ sched.phase = "scale"
              /\ UNCHANGED <<leader, alive, fsm, beat, requests, late, budget, ticked, flaws>>
              /\ sched.out = None /\ leader # None
  <2> DEFINE rest == [sched EXCEPT !.stops = sched.stops \ {s}]
             w == Write("server", s, [fsm.server[s] EXCEPT !.state = "Stopping"])
  <2>1. /\ rest.todo = sched.todo /\ rest.phase = sched.phase /\ rest.out = sched.out
        /\ [rest EXCEPT !.out = w].todo = sched.todo /\ [rest EXCEPT !.out = w].phase = sched.phase
        /\ [rest EXCEPT !.out = w].out = w
    BY <1>0 DEF SchedRec
  <2>2. w.to = "server"
    BY DEF Write
  <2>3. sched' = rest \/ sched' = [rest EXCEPT !.out = w]
    BY <1>11 DEF StopInstance, TickStep
  <2> HIDE DEF rest, w
  <2>4. sched'.phase = sched.phase /\ sched'.todo = sched.todo
        /\ (sched'.out = sched.out \/ sched'.out.to = "server")
    BY <2>1, <2>2, <2>3
  <2>5. UNCHANGED <<leader, alive, fsm, beat, requests, late, budget, ticked, flaws>>
    BY <1>11 DEF StopInstance, TickStep
  <2> QED
    BY <1>11, <2>4, <2>5 DEF StopInstance, Tick, TickPart
<1>12. CASE EndTick
  BY <1>12 DEF EndTick, Tick
<1> QED
  BY <1>1, <1>2, <1>3, <1>4, <1>5, <1>6, <1>7, <1>8, <1>9, <1>10, <1>11, <1>12
  DEF SchedulerStep

-----------------------------------------------------------------------------
\* What a call hands over is about servers, groups and templates.
LEMMA CallWrites ==
    ASSUME Call
    PROVE  \E before, w : Request(before, w) /\ \A v \in before \cup {w} : v.to # "node"
<1>0. /\ \A id, val : Write("server", id, val).to # "node"
      /\ \A id, val : Write("group", id, val).to # "node"
      /\ \A id, val : Write("template", id, val).to # "node"
  BY DEF Write
<1>1. ASSUME NEW s \in Server, StartServer(s) \/ StopServer(s) \/ RestartServer(s) \/ DeleteServer(s)
      PROVE  \E val : Request({}, Write("server", s, val))
  BY <1>1 DEF StartServer, StopServer, RestartServer, DeleteServer
<1>2. ASSUME NEW g \in Group, DeleteGroup(g)
      PROVE  \E before, w : Request(before, w) /\ \A v \in before \cup {w} : v.to # "node"
  <2> DEFINE stops == {Write("server", s, [fsm.server[s] EXCEPT !.state = "Stopping"]) :
                          s \in InGroup(fsm.server, g)}
  <2>1. Request(stops, Write("group", g, None))
    BY <1>2 DEF DeleteGroup
  <2>2. \A v \in stops \cup {Write("group", g, None)} : v.to # "node"
    BY <1>0
  <2> QED
    BY <2>1, <2>2
<1>3. ASSUME NEW g \in Group, NEW r \in GroupSpecs, CreateGroup(g, r)
      PROVE  Request({}, Write("group", g, r))
  BY <1>3 DEF CreateGroup
<1>4. ASSUME NEW t \in Template, CreateTemplate(t) \/ DeleteTemplate(t)
      PROVE  \E val : Request({}, Write("template", t, val))
  BY <1>4 DEF CreateTemplate, DeleteTemplate
<1>5. ASSUME NEW w, Request({}, w), w.to # "node"
      PROVE  \E before, v : Request(before, v) /\ \A u \in before \cup {v} : u.to # "node"
  BY <1>5
<1> QED
  BY <1>0, <1>1, <1>2, <1>3, <1>4, <1>5 DEF Call

\* No step makes a call write the record of a node.
LEMMA CallsLeaveNodesStep ==
    SchedulerInv /\ CallsLeaveNodes /\ [Next]_vars => CallsLeaveNodes'
<1> SUFFICES ASSUME SchedulerInv, CallsLeaveNodes, [Next]_vars PROVE CallsLeaveNodes'
  OBVIOUS
<1>1. CASE Call
  <2>1. PICK before, w : Request(before, w) /\ \A v \in before \cup {w} : v.to # "node"
    BY <1>1, CallWrites
  <2> DEFINE new == [todo |-> before, last |-> w, no |-> budget.requests]
  <2>2. requests' = requests \cup {new} /\ new.todo = before /\ new.last = w
    BY <2>1 DEF Request
  <2> HIDE DEF new
  <2> QED
    BY <2>1, <2>2 DEF CallsLeaveNodes
<1>2. ASSUME NEW r \in requests, RequestCommit(r) PROVE CallsLeaveNodes'
  <2>1. PICK w \in Handed(r) :
           requests' = IF r.todo = {} THEN requests \ {r}
                       ELSE (requests \ {r}) \cup {[r EXCEPT !.todo = r.todo \ {w}]}
    BY <1>2 DEF RequestCommit
  <2>2. r \in RequestRec
    BY DEF SchedulerInv, ControlType
  <2>3. /\ [r EXCEPT !.todo = r.todo \ {w}].todo = r.todo \ {w}
        /\ [r EXCEPT !.todo = r.todo \ {w}].last = r.last
    BY <2>2 DEF RequestRec
  <2> QED
    BY <2>1, <2>3 DEF CallsLeaveNodes
<1>3. CASE requests' = {} \/ requests' = requests
  BY <1>3 DEF CallsLeaveNodes
<1>4. ASSUME NEW n \in Node, Heartbeat(n) \/ Elect(n) \/ Crash(n) \/ Recover(n)
      PROVE  requests' = {} \/ requests' = requests
  BY <1>4 DEF Heartbeat, Elect, Crash, Recover, LoseOffice
<1>5. ASSUME NEW w \in late, LateCommit(w) PROVE requests' = requests
  BY <1>5 DEF LateCommit
<1>6. SchedulerStep \/ SchedulerCommitFails => requests' = requests
  BY TickParts DEF SchedulerCommit, SchedulerCommitFails
<1>7. Advance \/ UNCHANGED vars => requests' = requests
  BY DEF Advance, vars
<1> QED
  BY <1>1, <1>2, <1>3, <1>4, <1>5, <1>6, <1>7 DEF Next

\* The map of nodes after the commit of w.
NodesAfter(w) == fsm'.node = IF w.to = "node" THEN [fsm.node EXCEPT ![w.id] = w.val] ELSE fsm.node

\* What each step does to the records of nodes and to the tick.
LEMMA StepKinds ==
    ASSUME SchedulerInv, CallsLeaveNodes, [Next]_vars
    PROVE  \/ fsm'.node = fsm.node /\ UNCHANGED <<sched, late, leader, ticked, flaws>>
           \/ \E n \in Node : \E v \in NodeRec :
                 /\ v.state = "Up" /\ v.age = 0 /\ fsm'.node = [fsm.node EXCEPT ![n] = v]
                 /\ UNCHANGED <<sched, late, leader, ticked, flaws>>
           \/ LoseOffice /\ fsm' = fsm
           \/ Advance
           \/ \E w \in late : late' = late \ {w} /\ NodesAfter(w) /\ UNCHANGED <<sched, leader, ticked, flaws>>
           \/ SchedulerStep /\ ~SchedulerCommit
           \/ /\ sched.out # None /\ late = {} /\ late' = {} /\ NodesAfter(sched.out)
              /\ sched' = [sched EXCEPT !.out = None] /\ UNCHANGED <<leader, ticked, flaws>>
           \/ SchedulerCommitFails
<1>0. ControlType /\ SchedGood(sched) /\ fsm \in FsmType
  BY DEF SchedulerInv, ControlType
<1>1. ASSUME NEW n \in Node, Heartbeat(n)
      PROVE  \E v \in NodeRec :
                 /\ v.state = "Up" /\ v.age = 0 /\ fsm'.node = [fsm.node EXCEPT ![n] = v]
                 /\ UNCHANGED <<sched, late, leader, ticked, flaws>>
  <2>1. PICK r \in Rooms : fsm' = Committed(Write("node", n, FreshNode(r)))
    BY <1>1 DEF Heartbeat
  <2>2. FreshNode(r) \in NodeRec /\ FreshNode(r).state = "Up" /\ FreshNode(r).age = 0
    BY SchedulerAssumption DEF FreshNode, NodeRec, MaxAge
  <2>3. /\ Write("node", n, FreshNode(r)) \in WriteType /\ Write("node", n, FreshNode(r)).to = "node"
        /\ Write("node", n, FreshNode(r)).id = n /\ Write("node", n, FreshNode(r)).val = FreshNode(r)
    BY <2>2, WholeWrites DEF Write
  <2>4. fsm'.node = [fsm.node EXCEPT ![n] = FreshNode(r)]
    BY <1>0, <2>1, <2>3, CommitMaps
  <2> QED
    BY <1>1, <2>2, <2>4 DEF Heartbeat
<1>2. ASSUME NEW n \in Node, Elect(n) \/ Crash(n) \/ Recover(n)
      PROVE  \/ fsm'.node = fsm.node /\ UNCHANGED <<sched, late, leader, ticked, flaws>>
             \/ LoseOffice /\ fsm' = fsm
  BY <1>2 DEF Elect, Crash, Recover
<1>3. ASSUME NEW w \in late, LateCommit(w)
      PROVE  late' = late \ {w} /\ NodesAfter(w) /\ UNCHANGED <<sched, leader, ticked, flaws>>
  <2>1. w \in WriteType
    BY <1>0 DEF ControlType, Good
  <2> QED
    BY <1>0, <1>3, <2>1, CommitMaps DEF LateCommit, NodesAfter
<1>4. CASE SchedulerCommit
  <2>1. sched.out \in WriteType
    BY <1>0, <1>4 DEF SchedGood, Good, SchedulerCommit
  <2> QED
    BY <1>0, <1>4, <2>1, CommitMaps DEF SchedulerCommit, CanCommit, NodesAfter
<1>5. CASE Call
  BY <1>5, CallWrites DEF Request
<1>6. ASSUME NEW r \in requests, RequestCommit(r)
      PROVE  fsm'.node = fsm.node /\ UNCHANGED <<sched, late, leader, ticked, flaws>>
  <2>1. PICK w \in Handed(r) : fsm' = Committed(w)
    BY <1>6 DEF RequestCommit
  <2>2. w.to # "node" /\ w \in WriteType
    BY <1>0, <2>1 DEF CallsLeaveNodes, Handed, ControlType, Good
  <2> QED
    BY <1>0, <1>6, <2>1, <2>2, CommitMaps DEF RequestCommit
<1>7. CASE UNCHANGED vars
  BY <1>7 DEF vars
<1> QED
  BY <1>1, <1>2, <1>3, <1>4, <1>5, <1>6, <1>7 DEF Next

\* A tick is under way only on a leader that has not ticked in this period.
LEMMA TickEndsStep ==
    ASSUME SchedulerInv, CallsLeaveNodes, TickEnds, [Next]_vars
    PROVE  TickEnds'
<1>1. CASE UNCHANGED <<sched, leader, ticked>>
  BY <1>1 DEF TickEnds
<1>2. CASE LoseOffice
  BY <1>2 DEF LoseOffice, TickEnds
<1>3. CASE Advance
  BY <1>3 DEF Advance, TickEnds
<1>4. CASE SchedulerStep /\ ~SchedulerCommit
  <2>1. leader' = leader /\ leader # None
    BY <1>4, TickParts
  <2>2. CASE TickPart /\ ticked' = ticked /\ (sched.phase = "idle" => ~ticked)
    <3>1. ~ticked
      BY <2>2 DEF TickEnds, Idle
    <3> QED
      BY <2>1, <2>2, <3>1 DEF TickEnds
  <2>3. CASE sched' = Idle
    BY <2>1, <2>3 DEF TickEnds
  <2> QED
    BY <1>4, <2>2, <2>3, TickParts
<1>5. CASE (sched.out # None /\ UNCHANGED <<leader, ticked>>) \/ SchedulerCommitFails
  BY <1>5 DEF TickEnds, Idle, SchedulerCommitFails
<1> QED
  BY <1>1, <1>2, <1>3, <1>4, <1>5, StepKinds

\* Evacuate stays settled, and what it hands over goes to a node that is Up.
LEMMA PlacedStep ==
    ASSUME SchedulerInv, SchedulerInv', CallsLeaveNodes, TickEnds, EvacuatesSettled, PlacedOnUp,
           [Next]_vars
    PROVE  EvacuatesSettled' /\ PlacedOnUp'
<1>0. /\ sched \in SchedRec /\ fsm.node \in [Node -> OrNone(NodeRec)]
      /\ sched.out # None => sched.out \in WriteType
      /\ sched'.out # None => sched'.out \in WriteType
  BY DEF SchedulerInv, SchedGood, ControlType, FsmType, Good
<1>1. CASE fsm'.node = fsm.node /\ UNCHANGED <<sched, late, leader, ticked, flaws>>
  BY <1>1 DEF EvacuatesSettled, PlacedOnUp
<1>2. ASSUME NEW n \in Node, NEW v \in NodeRec, v.state = "Up",
             fsm'.node = [fsm.node EXCEPT ![n] = v], UNCHANGED <<sched, late, leader, ticked, flaws>>
      PROVE  EvacuatesSettled' /\ PlacedOnUp'
  <2>1. \A h : fsm.node[h].state = "Up" => fsm'.node[h].state = "Up"
    BY <1>0, <1>2
  <2> QED
    BY <1>2, <2>1 DEF EvacuatesSettled, PlacedOnUp
<1>3. CASE LoseOffice
  BY <1>3 DEF LoseOffice, Idle, EvacuatesSettled, PlacedOnUp
<1>4. CASE Advance
  <2>1. sched' = sched /\ flaws' = flaws /\ (sched = Idle \/ "failed" \in flaws)
    BY <1>4 DEF Advance, TickEnds
  <2> QED
    BY <2>1 DEF Idle, EvacuatesSettled, PlacedOnUp
<1>5. ASSUME NEW w \in late, late' = late \ {w}, NodesAfter(w), UNCHANGED <<sched, leader, ticked, flaws>>
      PROVE  EvacuatesSettled' /\ PlacedOnUp'
  <2>1. \/ "failed" \in flaws
        \/ sched.phase # "evacuate" /\ ~(sched.phase = "list" /\ sched.out = None)
    BY <1>5 DEF EvacuatesSettled
  <2> QED
    BY <1>5, <2>1 DEF EvacuatesSettled, PlacedOnUp
<1>6. CASE SchedulerStep /\ ~SchedulerCommit
  <2>1. fsm' = fsm /\ late' = late /\ sched.out = None
    BY <1>6, TickParts
  <2>2. CASE TickPart
    <3>1. CASE sched.phase = "mark"
      <4> DEFINE w == Write("node", sched.cur, [fsm.node[sched.cur] EXCEPT !.state = "Down"])
      <4>1. sched'.phase = "list" /\ sched'.out = w
        BY <2>2, <3>1 DEF TickPart
      <4>2. w # None
        <5>1. sched.cur \in Node /\ fsm.node[sched.cur] \in NodeRec
          BY <3>1 DEF SchedulerInv, SchedGood
        <5> QED
          BY <5>1, WholeWrites, RecordFields, NoneAssumption
      <4> QED
        BY <4>1, <4>2 DEF EvacuatesSettled, PlacedOnUp
    <3>2. CASE sched.phase = "list"
      <4>1. flaws' = flaws /\ ("failed" \in flaws \/ late = {})
        BY <1>6, <2>1, <3>2, TickParts DEF EvacuatesSettled
      <4>2. sched'.out = None
        BY <2>2, <3>2 DEF TickPart
      <4> QED
        BY <2>1, <4>1, <4>2 DEF EvacuatesSettled, PlacedOnUp
    <3>3. CASE sched.phase = "evacuate"
      <4>1. flaws' = flaws /\ ("failed" \in flaws \/ late = {})
        BY <1>6, <3>3, TickParts DEF EvacuatesSettled
      <4>2. \/ sched'.phase = "nodes"
            \/ sched'.out = None
            \/ sched'.out.val.state = "Starting" => fsm.node[sched'.out.val.host].state = "Up"
        BY <2>2, <3>3 DEF TickPart
      <4> QED
        BY <2>1, <4>1, <4>2 DEF EvacuatesSettled, PlacedOnUp
    <3>4. CASE sched.phase \notin {"mark", "list", "evacuate"}
      <4>1. sched'.phase \in {"nodes", "mark", "groups", "scale"}
        BY <2>2, <3>4 DEF TickPart
      <4> QED
        BY <4>1 DEF EvacuatesSettled, PlacedOnUp
    <3> QED
      BY <3>1, <3>2, <3>3, <3>4
  <2>3. CASE sched' = Idle
    BY <2>3 DEF Idle, EvacuatesSettled, PlacedOnUp
  <2> QED
    BY <1>6, <2>2, <2>3, TickParts
<1>7. CASE late' = {} /\ sched' = [sched EXCEPT !.out = None]
  <2>1. sched'.out = None
    BY <1>0, <1>7 DEF SchedRec
  <2> QED
    BY <1>7, <2>1 DEF EvacuatesSettled, PlacedOnUp
<1>8. CASE SchedulerCommitFails
  BY <1>8 DEF SchedulerCommitFails, EvacuatesSettled, PlacedOnUp
<1> QED
  BY <1>1, <1>2, <1>3, <1>4, <1>5, <1>6, <1>7, <1>8, StepKinds

\* The invariant about ticks and calls.
TickInv == SchedulerInv /\ CallsLeaveNodes /\ TickEnds

\* The invariant about ticks and calls holds throughout.
LEMMA TickInvariant == Spec => []TickInv
<1>1. Init => TickInv
  <2>1. Init => CallsLeaveNodes
    BY DEF Init, CallsLeaveNodes
  <2>2. Init => TickEnds
    BY SchedulerAssumption DEF Init, TickEnds
  <2> QED
    BY <2>1, <2>2, SchedulerInvInit DEF TickInv
<1>2. TickInv /\ [Next]_vars => TickInv'
  BY SchedulerInvStep, CallsLeaveNodesStep, TickEndsStep DEF TickInv
<1> QED
  BY <1>1, <1>2, PTL DEF Spec

\* Failover moves a server to a node that is recorded Up when the move
\* commits, and not only when pickHost looked.
THEOREM PlacedOnUpThm == Spec => []PlacedOnUp
<1> DEFINE PInv == EvacuatesSettled /\ PlacedOnUp
<1>1. Init => PInv
  BY DEF Init, Idle, EvacuatesSettled, PlacedOnUp
<1>2. TickInv /\ TickInv' /\ PInv /\ [Next]_vars => PInv'
  BY PlacedStep DEF TickInv
<1> QED
  BY <1>1, <1>2, TickInvariant, PTL DEF Spec

-----------------------------------------------------------------------------
\* A command carries a record of its server that agrees with one that is
\* already claimed.
From(w) == \E d \in Claims : d.id = w.id /\ d.rec # None /\ Agree(w.val, d.rec)

\* The commands that are on their way, one by one.
LEMMA PendingIs ==
    \A w : w \in Pending <=> \/ w \in late
                             \/ w = sched.out /\ w # None
                             \/ \E r \in requests : w \in r.todo \cup {r.last}
BY DEF Pending

\* The claims are about ids that were handed out, and a record, changed in its
\* state or moved because the server requires HA, agrees with what it was.
LEMMA ClaimFacts ==
    ASSUME SchedulerInv
    PROVE  /\ \A s \in Server : [id |-> s, rec |-> fsm.server[s]] \in Claims
           /\ sched.orphans \subseteq Claims
           /\ \A w \in Pending : w.to = "server" => [id |-> w.id, rec |-> w.val] \in Claims
           /\ \A c \in Claims : c.rec # None => c.id \in used
           /\ \A r \in ServerRec : \A st :
                 /\ Agree(r, r) /\ Agree([r EXCEPT !.state = st], r)
                 /\ r.ha => \A h : Agree([r EXCEPT !.host = h, !.state = st], r)
<1>1. /\ \A s \in Server : [id |-> s, rec |-> fsm.server[s]] \in Claims
      /\ sched.orphans \subseteq Claims
      /\ \A w \in Pending : w.to = "server" => [id |-> w.id, rec |-> w.val] \in Claims
  BY DEF Claims
<1>2. \A w \in Pending : Good(w)
  BY PendingIs DEF SchedulerInv, ControlType, SchedGood
<1>3. ASSUME NEW c \in Claims, c.rec # None PROVE c.id \in used
  <2>1. CASE \E s \in Server : c = [id |-> s, rec |-> fsm.server[s]]
    BY <1>3, <2>1 DEF SchedulerInv, ControlType, FsmType, Present
  <2>2. CASE c \in sched.orphans
    BY <2>2 DEF SchedulerInv, SchedGood
  <2>3. CASE \E w \in Pending : w.to = "server" /\ c = [id |-> w.id, rec |-> w.val]
    BY <1>2, <2>3 DEF Good
  <2> QED
    BY <2>1, <2>2, <2>3 DEF Claims
<1>4. ASSUME NEW r \in ServerRec, NEW st
      PROVE  /\ Agree(r, r) /\ Agree([r EXCEPT !.state = st], r)
             /\ r.ha => \A h : Agree([r EXCEPT !.host = h, !.state = st], r)
  BY DEF Agree, ServerRec
<1> QED
  BY <1>1, <1>3, <1>4

\* A step of the tick claims nothing new of a server, except of the one whose
\* id it has just drawn.
LEMMA TickClaims ==
    ASSUME SchedulerInv, SchedulerStep, ~SchedulerCommit
    PROVE  /\ sched'.orphans \subseteq Claims
           /\ \/ sched'.out = None \/ sched'.out.to # "server" \/ From(sched'.out)
              \/ sched'.out.id \notin used
<1>0. /\ ControlType /\ SchedGood(sched) /\ sched \in SchedRec
      /\ fsm.server \in [Server -> OrNone(ServerRec)]
      /\ sched.orphans \subseteq Claims
  BY ClaimFacts DEF SchedulerInv, SchedGood, ControlType, FsmType
<1> DEFINE Goal == /\ sched'.orphans \subseteq Claims
                   /\ \/ sched'.out = None \/ sched'.out.to # "server" \/ From(sched'.out)
                      \/ sched'.out.id \notin used
<1>1. ASSUME NEW s \in Server, fsm.server[s] # None, NEW st
      PROVE  From(Write("server", s, [fsm.server[s] EXCEPT !.state = st]))
  <2>1. fsm.server[s] \in ServerRec
    BY <1>0, <1>1 DEF OrNone
  <2>2. Agree([fsm.server[s] EXCEPT !.state = st], fsm.server[s])
    BY <2>1, ClaimFacts
  <2> QED
    BY <1>1, <2>2, ClaimFacts DEF From, Write
<1>2. CASE StartTick
  <2>1. sched'.orphans = {} /\ sched'.out = None
    BY <1>2 DEF StartTick, TickStep, Idle
  <2> QED
    BY <2>1
<1>3. ASSUME NEW c \in sched.todo, CheckNode(c) PROVE Goal
  <2> DEFINE rest == [sched EXCEPT !.todo = sched.todo \ {c}]
             w == Write("node", c.id, [c.rec EXCEPT !.state = "Suspect"])
  <2>1. \/ sched' = [rest EXCEPT !.phase = "mark", !.cur = c.id]
        \/ sched' = [rest EXCEPT !.out = w]
        \/ sched' = rest
    BY <1>3 DEF CheckNode, TickStep
  <2>2. w.to = "node" /\ sched.out = None
    BY <1>3 DEF Write, CheckNode, Tick
  <2> HIDE DEF w
  <2>3. sched'.orphans = sched.orphans /\ (sched'.out = w \/ sched'.out = sched.out)
    BY <1>0, <2>1 DEF SchedRec
  <2> QED
    BY <1>0, <2>2, <2>3
<1>4. CASE MarkNodeDown
  <2> DEFINE w == Write("node", sched.cur, [fsm.node[sched.cur] EXCEPT !.state = "Down"])
  <2>1. sched' = [sched EXCEPT !.phase = "list", !.out = w] /\ w.to = "node"
    BY <1>4 DEF MarkNodeDown, TickStep, Write
  <2> HIDE DEF w
  <2>2. sched'.orphans = sched.orphans /\ sched'.out = w
    BY <1>0, <2>1 DEF SchedRec
  <2> QED
    BY <1>0, <2>1, <2>2
<1>5. CASE EvacuateList
  <2> DEFINE copies == {[id |-> s, rec |-> fsm.server[s]] :
                           s \in {t \in Present(fsm.server) : fsm.server[t].host = sched.cur}}
  <2>1. sched' = [sched EXCEPT !.phase = "evacuate", !.orphans = copies] /\ sched.out = None
    BY <1>5 DEF EvacuateList, TickStep, Tick
  <2>2. copies \subseteq Claims
    BY <1>0, ClaimFacts DEF Present
  <2> HIDE DEF copies
  <2>3. sched'.orphans = copies /\ sched'.out = sched.out
    BY <1>0, <2>1 DEF SchedRec
  <2> QED
    BY <2>1, <2>2, <2>3
<1>6. ASSUME NEW o \in sched.orphans, EvacuateServer(o) PROVE Goal
  <2> DEFINE rest == [sched EXCEPT !.orphans = sched.orphans \ {o}]
  <2>0. o \in Claims /\ o.rec \in ServerRec /\ sched.out = None /\ o.rec # None
    BY <1>0, <1>6, NoneAssumption DEF SchedRec, ServerCopy, EvacuateServer, Tick
  <2>1. ASSUME NEW v, sched' = [rest EXCEPT !.out = Write("server", o.id, v)],
               Agree(v, o.rec)
        PROVE  Goal
    <3> DEFINE w == Write("server", o.id, v)
    <3>1. From(w)
      BY <2>0, <2>1 DEF From, Write
    <3> HIDE DEF w
    <3>2. sched'.orphans \subseteq sched.orphans /\ sched'.out = w
      BY <1>0, <2>1 DEF SchedRec, w
    <3> QED
      BY <1>0, <3>1, <3>2
  <2>3. CASE ~o.rec.ha /\ sched' = [rest EXCEPT !.out =
               Write("server", o.id, [o.rec EXCEPT !.state = "Orphaned"])]
    BY <2>0, <2>1, <2>3, ClaimFacts
  <2>4. ASSUME o.rec.ha, NEW t, sched' = [rest EXCEPT !.out =
               Write("server", o.id, [o.rec EXCEPT !.host = t, !.state = "Starting"])]
        PROVE  Goal
    BY <2>0, <2>1, <2>4, ClaimFacts
  <2>5. CASE sched' = rest
    <3>1. sched'.orphans \subseteq sched.orphans /\ sched'.out = sched.out
      BY <1>0, <2>5 DEF SchedRec
    <3> QED
      BY <1>0, <2>0, <3>1
  <2> QED
    BY <1>6, <2>3, <2>4, <2>5 DEF EvacuateServer, TickStep
<1>7. CASE EvacuateEnd \/ ReadServers \/ ReadGroups
  <2>1. sched'.orphans = sched.orphans /\ sched'.out = sched.out /\ sched.out = None
    BY <1>0, <1>7 DEF EvacuateEnd, ReadServers, ReadGroups, Tick, TickStep, SchedRec
  <2> QED
    BY <1>0, <2>1
<1>8. ASSUME NEW g \in sched.groups, ScaleGroup(g) PROVE Goal
  <2> DEFINE next == [sched EXCEPT !.groups = sched.groups \ {g}, !.grp = g]
  <2>1. /\ next.orphans = sched.orphans /\ next.out = sched.out
        /\ \A x : /\ [next EXCEPT !.spawn = x].orphans = sched.orphans
                  /\ [next EXCEPT !.spawn = x].out = sched.out
                  /\ [next EXCEPT !.stops = x].orphans = sched.orphans
                  /\ [next EXCEPT !.stops = x].out = sched.out
    BY <1>0 DEF SchedRec
  <2> HIDE DEF next
  <2>2. sched'.orphans = sched.orphans /\ sched'.out = sched.out
    BY <1>8, <2>1 DEF ScaleGroup, TickStep, next
  <2>3. sched.out = None
    BY <1>8 DEF ScaleGroup, Tick
  <2> QED
    BY <1>0, <2>2, <2>3
<1>9. CASE SpawnInstance
  <2> DEFINE rest == [sched EXCEPT !.spawn = sched.spawn - 1]
  <2>1. /\ rest.orphans = sched.orphans /\ rest.out = sched.out
        /\ \A w : /\ [rest EXCEPT !.out = w].orphans = sched.orphans
                  /\ [rest EXCEPT !.out = w].out = w
    BY <1>0 DEF SchedRec
  <2> HIDE DEF rest
  <2>2. \/ sched' = rest
        \/ \E w : w.id \notin used /\ sched' = [rest EXCEPT !.out = w]
    <3>1. ASSUME NEW s, NEW v, s \notin used, sched' = [rest EXCEPT !.out = Write("server", s, v)]
          PROVE  \E w : w.id \notin used /\ sched' = [rest EXCEPT !.out = w]
      <4> DEFINE x == Write("server", s, v)
      <4>1. x.id = s
        BY DEF Write
      <4>2. sched' = [rest EXCEPT !.out = x]
        BY <3>1
      <4> HIDE DEF x
      <4> QED
        BY <3>1, <4>1, <4>2
    <3>2. \/ sched' = rest
          \/ \E s, v : s \notin used /\ sched' = [rest EXCEPT !.out = Write("server", s, v)]
      BY <1>9 DEF SpawnInstance, TickStep, NewID, rest
    <3> QED
      BY <3>1, <3>2
  <2>3. sched.out = None
    BY <1>9 DEF SpawnInstance, Tick
  <2>4. CASE sched' = rest
    BY <1>0, <2>1, <2>3, <2>4
  <2>5. ASSUME NEW w, w.id \notin used, sched' = [rest EXCEPT !.out = w] PROVE Goal
    BY <1>0, <2>1, <2>5
  <2> QED
    BY <2>2, <2>4, <2>5
<1>10. ASSUME NEW s \in sched.stops, StopInstance(s) PROVE Goal
  <2> DEFINE rest == [sched EXCEPT !.stops = sched.stops \ {s}]
             w == Write("server", s, [fsm.server[s] EXCEPT !.state = "Stopping"])
  <2>1. /\ rest.orphans = sched.orphans /\ rest.out = sched.out
        /\ [rest EXCEPT !.out = w].orphans = sched.orphans
        /\ [rest EXCEPT !.out = w].out = w
    BY <1>0 DEF SchedRec
  <2>2. sched.out = None /\ s \in Server
    BY <1>0, <1>10 DEF StopInstance, Tick, SchedRec
  <2>3. sched' = rest \/ (fsm.server[s] # None /\ sched' = [rest EXCEPT !.out = w])
    BY <1>10 DEF StopInstance, TickStep
  <2>4. fsm.server[s] # None => From(w)
    BY <1>1, <2>2
  <2> HIDE DEF rest, w
  <2> QED
    BY <1>0, <2>1, <2>2, <2>3, <2>4
<1>11. CASE EndTick
  BY <1>11 DEF EndTick, Idle
<1> QED
  BY <1>2, <1>3, <1>4, <1>5, <1>6, <1>7, <1>8, <1>9, <1>10, <1>11 DEF SchedulerStep

\* A command claims nothing, or repeats a claim, or is about an id just drawn.
Claimed(w) == w.to = "server" => w.val = None \/ From(w) \/ w.id \notin used

\* What a call hands over claims nothing new of a server, except that
\* handleStartServer does of the one whose id it has just drawn.
LEMMA CallClaims ==
    ASSUME SchedulerInv, Call
    PROVE  \E before, w : /\ Request(before, w) /\ Claimed(w)
                          /\ \A v \in before : v.to = "server" => From(v)
<1>0. fsm.server \in [Server -> OrNone(ServerRec)]
  BY DEF SchedulerInv, ControlType, FsmType
<1> DEFINE Goal == \E before, w : /\ Request(before, w) /\ Claimed(w)
                                  /\ \A v \in before : v.to = "server" => From(v)
<1>1. ASSUME NEW w, Request({}, w), Claimed(w) PROVE Goal
  BY <1>1
<1>2. ASSUME NEW s \in Server, fsm.server[s] # None, NEW st
      PROVE  From(Write("server", s, [fsm.server[s] EXCEPT !.state = st]))
  <2>1. fsm.server[s] \in ServerRec
    BY <1>0, <1>2 DEF OrNone
  <2>2. Agree([fsm.server[s] EXCEPT !.state = st], fsm.server[s])
    BY <2>1, ClaimFacts
  <2> QED
    BY <1>2, <2>2, ClaimFacts DEF From, Write
<1>3. ASSUME NEW s \in Server, StartServer(s) PROVE Goal
  <2>1. PICK v : Request({}, Write("server", s, v)) /\ s \notin used
    BY <1>3 DEF StartServer, NewID
  <2>2. Claimed(Write("server", s, v))
    BY <2>1 DEF Claimed, Write
  <2> QED
    BY <1>1, <2>1, <2>2
<1>4. ASSUME NEW s \in Server, StopServer(s) \/ RestartServer(s) PROVE Goal
  <2>1. PICK st : Request({}, Write("server", s, [fsm.server[s] EXCEPT !.state = st]))
    BY <1>4 DEF StopServer, RestartServer
  <2>2. fsm.server[s] # None
    BY <1>4 DEF StopServer, RestartServer
  <2>3. Claimed(Write("server", s, [fsm.server[s] EXCEPT !.state = st]))
    BY <1>2, <2>2 DEF Claimed
  <2> QED
    BY <1>1, <2>1, <2>3
<1>5. ASSUME NEW s \in Server, DeleteServer(s) PROVE Goal
  <2>1. Request({}, Write("server", s, None)) /\ Claimed(Write("server", s, None))
    BY <1>5 DEF DeleteServer, Claimed, Write
  <2> QED
    BY <1>1, <2>1
<1>6. ASSUME NEW g \in Group, DeleteGroup(g) PROVE Goal
  <2> DEFINE stops == {Write("server", s, [fsm.server[s] EXCEPT !.state = "Stopping"]) :
                          s \in InGroup(fsm.server, g)}
  <2>1. Request(stops, Write("group", g, None)) /\ Claimed(Write("group", g, None))
    BY <1>6 DEF DeleteGroup, Claimed, Write
  <2>2. \A s \in InGroup(fsm.server, g) : s \in Server /\ fsm.server[s] # None
    BY <1>0 DEF InGroup, Present
  <2>3. \A v \in stops : From(v)
    BY <1>2, <2>2
  <2> QED
    BY <2>1, <2>3
<1>7. ASSUME NEW g \in Group, NEW r \in GroupSpecs, CreateGroup(g, r) PROVE Goal
  <2>1. Request({}, Write("group", g, r)) /\ Claimed(Write("group", g, r))
    BY <1>7 DEF CreateGroup, Claimed, Write
  <2> QED
    BY <1>1, <2>1
<1>8. ASSUME NEW t \in Template, CreateTemplate(t) \/ DeleteTemplate(t) PROVE Goal
  <2>1. PICK val : Request({}, Write("template", t, val))
    BY <1>8 DEF CreateTemplate, DeleteTemplate
  <2>2. Claimed(Write("template", t, val))
    BY DEF Claimed, Write
  <2> QED
    BY <1>1, <2>1, <2>2
<1> QED
  BY <1>3, <1>4, <1>5, <1>6, <1>7, <1>8 DEF Call

\* What a step has done that keeps the claims in agreement: the map and the
\* copies of evacuate hold what was claimed before, and at most one command,
\* about an id that was not handed out before, claims more.
ClaimsFrom(new) ==
    /\ \A s \in Server : fsm'.server[s] = None \/ [id |-> s, rec |-> fsm'.server[s]] \in Claims
    /\ sched'.orphans \subseteq Claims
    /\ \A w \in Pending' : w.to = "server" => \/ w.val = None
                                              \/ From(w)
                                              \/ w = new /\ w.id \notin used

\* Such a step keeps the claims in agreement, and every record agrees with what it
\* was.
LEMMA PinnedFrom ==
    ASSUME SchedulerInv, Pinned, NEW new, ClaimsFrom(new)
    PROVE  /\ Pinned'
           /\ \A s \in Server : fsm.server[s] # None /\ fsm'.server[s] # None
                                   => Agree(fsm.server[s], fsm'.server[s])
<1> DEFINE Old(c) == \E d \in Claims : d.id = c.id /\ d.rec # None /\ Agree(c.rec, d.rec)
           claim == [id |-> new.id, rec |-> new.val]
<1>1. ASSUME NEW c \in Claims, c.rec # None PROVE Old(c)
  BY <1>1 DEF Agree
<1>2. ASSUME NEW c \in Claims', c.rec # None
      PROVE  Old(c) \/ (c = claim /\ c.id \notin used)
  <2>1. CASE \E s \in Server : c = [id |-> s, rec |-> fsm'.server[s]]
    BY <1>1, <1>2, <2>1 DEF ClaimsFrom
  <2>2. CASE c \in sched'.orphans
    BY <1>1, <1>2, <2>2 DEF ClaimsFrom
  <2>3. ASSUME NEW w \in Pending', w.to = "server", c = [id |-> w.id, rec |-> w.val]
        PROVE  Old(c) \/ (c = claim /\ c.id \notin used)
    <3>1. From(w) \/ (w = new /\ w.id \notin used)
      BY <1>2, <2>3 DEF ClaimsFrom
    <3>2. c.id = w.id /\ c.rec = w.val
      BY <2>3
    <3>3. From(w) => Old(c)
      BY <3>2 DEF From
    <3> QED
      BY <2>3, <3>1, <3>2, <3>3
  <2> QED
    BY <2>1, <2>2, <2>3 DEF Claims
<1>3. ASSUME NEW a, NEW b, Old(a), Old(b), a.id = b.id PROVE Agree(a.rec, b.rec)
  <2>1. PICK c \in Claims : c.id = a.id /\ c.rec # None /\ Agree(a.rec, c.rec)
    BY <1>3
  <2>2. PICK d \in Claims : d.id = b.id /\ d.rec # None /\ Agree(b.rec, d.rec)
    BY <1>3
  <2>3. Agree(c.rec, d.rec)
    BY <1>3, <2>1, <2>2 DEF Pinned
  <2> QED
    BY <2>1, <2>2, <2>3 DEF Agree
<1>4. ASSUME NEW c, Old(c) PROVE c.id \in used
  BY <1>4, ClaimFacts
<1> HIDE DEF Old
<1>5. Pinned'
  <2> SUFFICES ASSUME NEW c \in Claims', NEW d \in Claims', c.id = d.id, c.rec # None, d.rec # None
               PROVE  Agree(c.rec, d.rec)
    BY DEF Pinned
  <2>1. CASE Old(c) /\ Old(d)
    BY <1>3, <2>1
  <2>2. CASE c = d
    BY <2>2 DEF Agree
  <2> QED
    BY <1>2, <1>4, <2>1, <2>2
<1>6. ASSUME NEW s \in Server, fsm.server[s] # None, fsm'.server[s] # None
      PROVE  Agree(fsm.server[s], fsm'.server[s])
  <2>1. [id |-> s, rec |-> fsm.server[s]] \in Claims
    BY ClaimFacts
  <2>2. [id |-> s, rec |-> fsm'.server[s]] \in Claims
    BY <1>6 DEF ClaimsFrom
  <2> QED
    BY <1>6, <2>1, <2>2 DEF Pinned
<1> QED
  BY <1>5, <1>6

\* The commands on their way after a step, one by one.
LEMMA PendingNext ==
    \A w : w \in Pending' <=> \/ w \in late'
                              \/ w = sched'.out /\ w # None
                              \/ \E r \in requests' : w \in r.todo \cup {r.last}
BY DEF Pending

\* A commit makes a record of what was claimed.
LEMMA CommitClaims ==
    ASSUME SchedulerInv, NEW w \in Pending, fsm' = Committed(w)
    PROVE  \A s \in Server : fsm'.server[s] = None \/ [id |-> s, rec |-> fsm'.server[s]] \in Claims
<1>1. w \in WriteType /\ fsm \in FsmType /\ fsm.server \in [Server -> OrNone(ServerRec)]
  BY PendingIs DEF SchedulerInv, ControlType, SchedGood, Good, FsmType
<1>2. fsm'.server = IF w.to = "server" THEN [fsm.server EXCEPT ![w.id] = w.val] ELSE fsm.server
  BY <1>1, CommitMaps
<1>3. CASE w.to = "server"
  <2>1. [id |-> w.id, rec |-> w.val] \in Claims
    BY <1>3, ClaimFacts
  <2> QED
    BY <1>1, <1>2, <1>3, <2>1, ClaimFacts
<1> QED
  BY <1>2, <1>3, ClaimFacts

\* A step that hands over nothing new and leaves the map alone or commits.
LEMMA NothingNew ==
    ASSUME SchedulerInv, sched'.orphans \subseteq sched.orphans,
           fsm'.server = fsm.server \/ \E w \in Pending : fsm' = Committed(w),
           \A w \in Pending' : w \in Pending \/ w.to # "server"
    PROVE  ClaimsFrom(None)
<1>1. \A s \in Server : fsm'.server[s] = None \/ [id |-> s, rec |-> fsm'.server[s]] \in Claims
  BY CommitClaims, ClaimFacts
<1>2. ASSUME NEW w \in Pending, w.to = "server", w.val # None PROVE From(w)
  <2>1. [id |-> w.id, rec |-> w.val] \in Claims
    BY <1>2, ClaimFacts
  <2> QED
    BY <1>2, <2>1 DEF From, Agree
<1> QED
  BY <1>1, <1>2, ClaimFacts DEF ClaimsFrom

\* No step claims of a server what was not claimed of it before.
LEMMA ClaimsStep ==
    ASSUME SchedulerInv, [Next]_vars
    PROVE  \E new : ClaimsFrom(new)
<1>0. ControlType /\ SchedGood(sched) /\ sched \in SchedRec /\ fsm \in FsmType
  BY DEF SchedulerInv, ControlType, SchedGood
<1>1. ASSUME NEW n \in Node, Heartbeat(n) PROVE ClaimsFrom(None)
  <2>1. PICK r \in Rooms : fsm' = Committed(Write("node", n, FreshNode(r)))
    BY <1>1 DEF Heartbeat
  <2>2. FreshNode(r) \in NodeRec
    BY SchedulerAssumption DEF FreshNode, NodeRec, MaxAge
  <2>3. Write("node", n, FreshNode(r)) \in WriteType /\ Write("node", n, FreshNode(r)).to = "node"
    BY <2>2, WholeWrites DEF Write
  <2>4. fsm'.server = fsm.server
    BY <1>0, <2>1, <2>3, CommitMaps
  <2>5. UNCHANGED <<sched, late, requests>>
    BY <1>1 DEF Heartbeat
  <2> QED
    BY <2>4, <2>5, PendingIs, PendingNext, NothingNew
<1>2. CASE LoseOffice /\ fsm' = fsm
  <2>1. sched'.orphans = {} /\ sched'.out = None /\ requests' = {}
    BY <1>2 DEF LoseOffice, Idle
  <2>2. ASSUME NEW w \in Pending' PROVE w \in Pending \/ w.to # "server"
    <3>1. w \in late'
      BY <2>1, PendingNext
    <3>2. \A n, v : Write("node", n, v).to # "server"
      BY DEF Write
    <3> QED
      BY <1>2, <3>1, <3>2, LateOrigin, PendingIs
  <2> QED
    BY <1>2, <2>1, <2>2, NothingNew
<1>3. CASE Advance
  <2>1. UNCHANGED <<sched, requests>>
    BY <1>3 DEF Advance
  <2>2. ASSUME NEW w \in late' PROVE w \in late \/ w.to # "server"
    BY <1>3, AdvanceMaps DEF Write
  <2> QED
    BY <1>3, <2>1, <2>2, AdvanceMaps, PendingIs, PendingNext, NothingNew
<1>4. ASSUME NEW w \in late, LateCommit(w) PROVE ClaimsFrom(None)
  <2>1. w \in Pending /\ fsm' = Committed(w) /\ late' \subseteq late /\ UNCHANGED <<sched, requests>>
    BY <1>4, PendingIs DEF LateCommit
  <2> QED
    BY <2>1, PendingIs, PendingNext, NothingNew
<1>5. CASE SchedulerCommit
  <2>1. sched.out \in Pending /\ fsm' = Committed(sched.out) /\ UNCHANGED <<late, requests>>
    BY <1>5, PendingIs DEF SchedulerCommit
  <2>2. sched'.out = None /\ sched'.orphans = sched.orphans
    BY <1>0, <1>5 DEF SchedulerCommit, SchedRec
  <2> QED
    BY <2>1, <2>2, PendingIs, PendingNext, NothingNew
<1>6. CASE SchedulerStep /\ ~SchedulerCommit
  <2>1. UNCHANGED <<fsm, late, requests>>
    BY <1>6, TickParts
  <2>2. /\ sched'.orphans \subseteq Claims
        /\ \/ sched'.out = None \/ sched'.out.to # "server" \/ From(sched'.out)
           \/ sched'.out.id \notin used
    BY <1>6, TickClaims
  <2>3. ASSUME NEW w \in Pending', w.to = "server", w.val # None
        PROVE  From(w) \/ (w = sched'.out /\ w.id \notin used)
    <3>1. CASE w \in Pending
      <4>1. [id |-> w.id, rec |-> w.val] \in Claims
        BY <2>3, <3>1, ClaimFacts
      <4> QED
        BY <2>3, <4>1 DEF From, Agree
    <3>2. CASE w = sched'.out /\ w # None
      BY <2>2, <2>3, <3>2
    <3> QED
      BY <2>1, <3>1, <3>2, PendingIs, PendingNext
  <2>4. ClaimsFrom(sched'.out)
    BY <2>1, <2>2, <2>3, ClaimFacts DEF ClaimsFrom
  <2> QED
    BY <2>4
<1>7. CASE Call
  <2>1. PICK before, last : /\ Request(before, last) /\ Claimed(last)
                            /\ \A v \in before : v.to = "server" => From(v)
    BY <1>7, CallClaims
  <2> DEFINE r == [todo |-> before, last |-> last, no |-> budget.requests]
  <2>2. /\ UNCHANGED <<fsm, sched, late>> /\ requests' = requests \cup {r}
        /\ r.todo = before /\ r.last = last
    BY <2>1 DEF Request
  <2> HIDE DEF r
  <2>3. ASSUME NEW w \in Pending', w.to = "server", w.val # None
        PROVE  From(w) \/ (w = last /\ w.id \notin used)
    <3>1. CASE w \in Pending
      <4>1. [id |-> w.id, rec |-> w.val] \in Claims
        BY <2>3, <3>1, ClaimFacts
      <4> QED
        BY <2>3, <4>1 DEF From, Agree
    <3>2. CASE w \in before \/ w = last
      BY <2>1, <2>3, <3>2 DEF Claimed
    <3> QED
      BY <2>2, <3>1, <3>2, PendingIs, PendingNext
  <2>4. ClaimsFrom(last)
    BY <2>2, <2>3, ClaimFacts DEF ClaimsFrom
  <2> QED
    BY <2>4
<1>8. ASSUME NEW r \in requests, RequestCommit(r) PROVE ClaimsFrom(None)
  <2>1. PICK w \in Handed(r) :
           /\ fsm' = Committed(w)
           /\ requests' = IF r.todo = {} THEN requests \ {r}
                          ELSE (requests \ {r}) \cup {[r EXCEPT !.todo = r.todo \ {w}]}
    BY <1>8 DEF RequestCommit
  <2>2. w \in Pending
    BY <2>1, PendingIs DEF Handed
  <2>3. r \in RequestRec
    BY <1>0 DEF ControlType
  <2> DEFINE rest == [r EXCEPT !.todo = r.todo \ {w}]
  <2>4. rest.todo \subseteq r.todo /\ rest.last = r.last
    BY <2>3 DEF RequestRec
  <2>5. requests' \subseteq requests \cup {rest}
    BY <2>1
  <2> HIDE DEF rest
  <2>6. UNCHANGED <<sched, late>>
    BY <1>8 DEF RequestCommit
  <2>7. \A v \in Pending' : v \in Pending
    BY <2>4, <2>5, <2>6, PendingIs, PendingNext
  <2> QED
    BY <2>1, <2>2, <2>6, <2>7, NothingNew
<1>9. CASE UNCHANGED <<fsm, sched, late, requests>>
  BY <1>9, PendingIs, PendingNext, NothingNew
<1>10. ASSUME NEW n \in Node, Elect(n) \/ Crash(n) \/ Recover(n)
       PROVE  (LoseOffice /\ fsm' = fsm) \/ UNCHANGED <<fsm, sched, late, requests>>
  BY <1>10 DEF Elect, Crash, Recover
<1>11. UNCHANGED vars => UNCHANGED <<fsm, sched, late, requests>>
  BY DEF vars
<1>12. CASE SchedulerCommitFails
  <2>1. UNCHANGED <<fsm, late, requests>>
    BY <1>12 DEF SchedulerCommitFails
  <2>2. sched'.out = None /\ sched'.orphans = sched.orphans
    BY <1>0, <1>12 DEF SchedulerCommitFails, SchedRec
  <2> QED
    BY <2>1, <2>2, PendingIs, PendingNext, NothingNew
<1> QED
  BY <1>1, <1>2, <1>3, <1>4, <1>5, <1>6, <1>7, <1>8, <1>9, <1>10, <1>11, <1>12 DEF Next

\* A server that does not require HA stays on its host: evacuate, the handlers
\* and DeleteGroup write back copies, however old, that all agree on the host.
THEOREM NonHAPinnedThm == Spec => NonHAPinned
<1>1. Init => Pinned
  <2> SUFFICES ASSUME Init PROVE Pinned
    OBVIOUS
  <2>1. sched.orphans = {} /\ Pending = {}
    BY DEF Init, Idle, Pending
  <2>2. Claims = {[id |-> s, rec |-> fsm.server[s]] : s \in Server}
    BY <2>1 DEF Claims
  <2> QED
    BY <2>2 DEF Pinned, Agree
<1>2. SchedulerInv /\ Pinned /\ [Next]_vars
        => /\ Pinned'
           /\ \A s \in Server : fsm.server[s] # None /\ fsm'.server[s] # None
                                   => Agree(fsm.server[s], fsm'.server[s])
  BY ClaimsStep, PinnedFrom
<1>3. SchedulerInv /\ Pinned /\ [Next]_vars
        => [\A s \in Server :
              (/\ fsm.server[s] # None /\ fsm'.server[s] # None
               /\ ~fsm.server[s].ha)
              => fsm'.server[s].host = fsm.server[s].host]_vars
  BY <1>2 DEF Agree
<1> QED
  BY <1>1, <1>2, <1>3, SchedulerInvariant, PTL DEF Spec, NonHAPinned

-----------------------------------------------------------------------------
\* A step of the tick hands over no overdue record.
LEMMA OutFreshStep ==
    ASSUME SchedulerInv, CallsLeaveNodes, TickEnds, OutFresh, [Next]_vars
    PROVE  OutFresh'
<1>0. sched \in SchedRec
  BY DEF SchedulerInv, SchedGood
<1>1. CASE UNCHANGED sched
  BY <1>1 DEF OutFresh
<1>2. CASE sched'.out = None
  BY <1>2 DEF OutFresh
<1>3. CASE SchedulerStep /\ ~SchedulerCommit
  <2>1. CASE sched.phase = "mark" /\ TickPart
    <3> DEFINE v == [fsm.node[sched.cur] EXCEPT !.state = "Down"]
    <3>1. sched'.out = Write("node", sched.cur, v)
      BY <2>1 DEF TickPart
    <3>2. v.state = "Down"
      BY <2>1 DEF SchedulerInv, SchedGood, NodeRec
    <3> HIDE DEF v
    <3>3. sched'.out.val = v
      BY <3>1 DEF Write
    <3> QED
      BY <3>2, <3>3 DEF OutFresh, Overdue
  <2>2. ASSUME NEW c \in sched.todo, Doubtful(c.rec),
               sched'.out = Write("node", c.id, [c.rec EXCEPT !.state = "Suspect"])
        PROVE  OutFresh'
    <3> DEFINE v == [c.rec EXCEPT !.state = "Suspect"]
    <3>1. v.age = c.rec.age /\ c.rec.age \in Nat
      BY <1>0 DEF SchedRec, NodeCopy, NodeRec
    <3>2. ~(v.age > Deadline + Grace)
      BY <2>2, <3>1, SchedulerAssumption DEF Doubtful
    <3>3. sched'.out.val = v
      BY <2>2 DEF Write
    <3> HIDE DEF v
    <3> QED
      BY <3>2, <3>3 DEF OutFresh, Overdue
  <2>3. sched'.out.to = "server" => OutFresh'
    BY DEF OutFresh
  <2>4. sched' = Idle => OutFresh'
    BY DEF OutFresh, Idle
  <2>5. CASE TickPart
    BY <1>2, <2>1, <2>2, <2>3, <2>5 DEF TickPart
  <2> QED
    BY <1>3, <2>4, <2>5, TickParts
<1>4. CASE LoseOffice
  BY <1>2, <1>4 DEF LoseOffice, Idle
<1>5. CASE sched' = [sched EXCEPT !.out = None] \/ SchedulerCommitFails
  BY <1>0, <1>2, <1>5 DEF SchedRec, SchedulerCommitFails
<1>6. Advance => UNCHANGED sched
  BY DEF Advance
<1> QED
  BY <1>1, <1>3, <1>4, <1>5, <1>6, StepKinds

\* A commit of a record that is not overdue, in a map of whole records.
LEMMA CommitFresh ==
    ASSUME SchedulerInv, NEW w \in WriteType, NodesAfter(w), w.to = "node" => ~Overdue(w.val),
           NEW n \in Node, fsm'.node[n] # None, Overdue(fsm'.node[n])
    PROVE  /\ fsm'.node[n] = fsm.node[n]
           /\ ~(w.to = "node" /\ w.id = n)
<1>1. fsm.node \in [Node -> OrNone(NodeRec)]
  BY DEF SchedulerInv, ControlType, FsmType
<1>2. CASE w.to = "node"
  <2>1. fsm'.node = [fsm.node EXCEPT ![w.id] = w.val]
    BY <1>2 DEF NodesAfter
  <2> QED
    BY <1>1, <1>2, <2>1
<1> QED
  BY <1>2 DEF NodesAfter

\* What was applied when the tick began stays applied.
LEMMA LogAppliedStep ==
    ASSUME SchedulerInv, CallsLeaveNodes, LogApplied, [Next]_vars
    PROVE  LogApplied'
<1>0. sched \in SchedRec
  BY DEF SchedulerInv, SchedGood
<1>1. CASE UNCHANGED <<sched, late, leader, ticked, flaws>>
  BY <1>1 DEF LogApplied
<1>2. CASE LoseOffice
  BY <1>2 DEF LoseOffice, Idle, LogApplied
<1>3. CASE Advance
  BY <1>3 DEF Advance, LogApplied
<1>4. ASSUME NEW w \in late, late' = late \ {w}, UNCHANGED <<sched, leader, ticked, flaws>>
      PROVE  LogApplied'
  BY <1>4 DEF LogApplied
<1>5. CASE SchedulerStep /\ ~SchedulerCommit
  <2>1. late' = late /\ (sched.phase # "idle" => flaws' = flaws)
        /\ (TickPart \/ sched.phase = "scale")
    BY <1>5, TickParts
  <2>2. CASE sched.phase = "idle"
    BY <2>1, <2>2 DEF TickPart, LogApplied
  <2> QED
    BY <2>1, <2>2 DEF LogApplied
<1>6. CASE late' = {}
  BY <1>6 DEF LogApplied
<1>7. CASE SchedulerCommitFails
  BY <1>7 DEF SchedulerCommitFails, LogApplied
<1> QED
  BY <1>1, <1>2, <1>3, <1>4, <1>5, <1>6, <1>7, StepKinds

\* A tick without a flaw comes to every overdue node, and none is left when it
\* is over.
LEMMA CoveredStep ==
    ASSUME SchedulerInv, CallsLeaveNodes, TickEnds, OutFresh, LogApplied, OverdueCovered,
           [Next]_vars
    PROVE  OverdueCovered'
<1>0. /\ sched \in SchedRec /\ fsm.node \in [Node -> OrNone(NodeRec)]
      /\ sched.out # None => sched.out \in WriteType
      /\ \A w \in late : w \in WriteType
  BY DEF SchedulerInv, SchedGood, ControlType, FsmType, Good
<1>1. CASE fsm'.node = fsm.node /\ UNCHANGED <<sched, late, leader, ticked, flaws>>
  BY <1>1 DEF OverdueCovered, Covered
<1>2. ASSUME NEW m \in Node, NEW v \in NodeRec, v.state = "Up", v.age = 0,
             fsm'.node = [fsm.node EXCEPT ![m] = v], UNCHANGED <<sched, late, leader, ticked, flaws>>
      PROVE  OverdueCovered'
  <2>1. ~Overdue(v)
    BY <1>2, SchedulerAssumption DEF Overdue
  <2>2. \A n \in Node : fsm'.node[n] # None /\ Overdue(fsm'.node[n]) => fsm'.node[n] = fsm.node[n]
    BY <1>0, <1>2, <2>1
  <2> QED
    BY <1>2, <2>2 DEF OverdueCovered, Covered
<1>3. CASE sched' = Idle /\ ticked' = FALSE
  BY <1>3 DEF Idle, OverdueCovered, Covered
<1>4. CASE Advance
  <2>1. sched' = sched /\ flaws' = flaws /\ ticked' = FALSE /\ (sched = Idle \/ "failed" \in flaws)
    BY <1>4 DEF Advance, TickEnds
  <2>2. CASE "failed" \in flaws
    BY <2>1, <2>2 DEF OverdueCovered
  <2> QED
    BY <1>3, <2>1, <2>2
<1>5. ASSUME NEW w \in late, NodesAfter(w), UNCHANGED <<sched, leader, ticked, flaws>>
      PROVE  OverdueCovered'
  <2>1. flaws # {} \/ (sched.phase = "idle" /\ ~ticked)
    BY <1>5 DEF LogApplied
  <2> QED
    BY <1>5, <2>1 DEF OverdueCovered, Covered
<1>6. CASE SchedulerStep /\ ~SchedulerCommit
  <2>1. /\ fsm' = fsm /\ sched.out = None /\ (sched.phase # "idle" => flaws' = flaws)
        /\ (sched.phase = "idle" => ~ticked)
    BY <1>6, TickParts
  <2>2. ASSUME sched.phase = "scale", sched' = Idle, ticked' = TRUE PROVE OverdueCovered'
    <3>1. (\A n \in Node : ~Covered(n)) /\ flaws' = flaws
      BY <2>1, <2>2 DEF OverdueCovered, Covered
    <3> QED
      BY <2>1, <2>2, <3>1 DEF OverdueCovered, Idle
  <2>3. ASSUME TickPart, ticked' = ticked PROVE OverdueCovered'
    <3>1. sched'.phase \in {"groups", "scale"} => sched'.todo = {}
      BY <2>3 DEF TickPart, OverdueCovered
    <3>2. ASSUME NEW n \in Node, fsm.node[n] # None, Overdue(fsm.node[n]), flaws' = {}
          PROVE  Covered(n)' /\ ~ticked
      <4>1. sched.phase # "idle" => Covered(n) /\ ~ticked
        BY <2>1, <3>2 DEF OverdueCovered
      <4>2. CASE sched.phase = "idle"
        <5>1. sched'.todo = {[id |-> m, rec |-> fsm.node[m]] : m \in Present(fsm.node)}
          BY <2>3, <4>2 DEF TickPart
        <5>2. n \in Present(fsm.node)
          BY <1>0, <3>2 DEF Present
        <5>3. [id |-> n, rec |-> fsm.node[n]] \in sched'.todo
          BY <5>1, <5>2
        <5> QED
          BY <2>1, <3>2, <4>2, <5>3 DEF Covered
      <4>3. CASE sched.phase = "mark" /\ sched.cur = n
        <5> DEFINE v == [fsm.node[n] EXCEPT !.state = "Down"]
        <5>1. sched'.out = Write("node", n, v)
          BY <2>3, <4>3 DEF TickPart
        <5>2. v \in NodeRec /\ v.state = "Down"
          BY <1>0, <3>2 DEF OrNone, NodeRec
        <5> HIDE DEF v
        <5>3. sched'.out # None
          BY <5>1, <5>2, WholeWrites, NoneAssumption
        <5>4. sched'.out.to = "node" /\ sched'.out.id = n /\ sched'.out.val = v
          BY <5>1 DEF Write
        <5> QED
          BY <4>1, <4>3, <5>2, <5>3, <5>4 DEF Covered
      <4>4. ASSUME NEW c \in sched.todo, c.id = n, Overdue(c.rec), sched.phase # "idle"
            PROVE  Covered(n)'
        <5>1. ~Doubtful(c.rec)
          BY <4>4, SchedulerAssumption DEF Overdue, Doubtful
        <5>2. CASE sched.phase = "nodes" /\ c \notin sched'.todo
          <6>1. sched'.phase = "mark" /\ sched'.cur = c.id
            BY <2>3, <4>4, <5>1, <5>2 DEF TickPart
          <6> QED
            BY <4>4, <6>1 DEF Covered
        <5>3. sched.phase # "nodes" => c \in sched'.todo
          BY <2>3, <4>4 DEF TickPart, OverdueCovered
        <5> QED
          BY <4>4, <5>2, <5>3 DEF Covered
      <4> QED
        BY <2>1, <4>1, <4>2, <4>3, <4>4 DEF Covered
    <3> QED
      BY <2>1, <2>3, <3>1, <3>2 DEF OverdueCovered
  <2> QED
    BY <1>6, <2>2, <2>3, TickParts
<1>7. ASSUME sched.out # None, NodesAfter(sched.out), sched' = [sched EXCEPT !.out = None],
             UNCHANGED <<ticked, flaws>>
      PROVE  OverdueCovered'
  <2>1. sched'.phase = sched.phase /\ sched'.todo = sched.todo /\ sched'.cur = sched.cur
    BY <1>0, <1>7 DEF SchedRec
  <2>2. \A n \in Node : fsm'.node[n] # None /\ Overdue(fsm'.node[n])
           => fsm'.node[n] = fsm.node[n] /\ ~(sched.out.to = "node" /\ sched.out.id = n)
    BY <1>0, <1>7, CommitFresh DEF OutFresh
  <2> QED
    BY <1>7, <2>1, <2>2 DEF OverdueCovered, Covered
<1>8. LoseOffice => sched' = Idle /\ ticked' = FALSE
  BY DEF LoseOffice
<1>9. CASE SchedulerCommitFails
  <2>1. flaws' # {} /\ sched'.phase = sched.phase /\ sched'.todo = sched.todo
    BY <1>0, <1>9 DEF SchedulerCommitFails, SchedRec
  <2> QED
    BY <2>1 DEF OverdueCovered
<1> QED
  BY <1>1, <1>2, <1>3, <1>4, <1>5, <1>6, <1>7, <1>8, <1>9, StepKinds

\* At the start nothing is out and nothing is overdue.
LEMMA InitFresh == Init => OutFresh /\ OverdueCovered /\ LogApplied
<1> SUFFICES ASSUME Init PROVE OutFresh /\ OverdueCovered /\ LogApplied
  OBVIOUS
<1>1. sched = Idle /\ ticked = FALSE
  BY DEF Init
<1> QED
  BY <1>1 DEF Idle, OutFresh, OverdueCovered, Covered, LogApplied

\* Failure detection: a tick that began with the log applied and had every
\* Apply succeed leaves no record for alive that is older than
\* HeartbeatDeadline + FailoverGrace.
THEOREM DetectionBoundThm == Spec => []DetectionBound
<1>1. TickInv /\ OutFresh /\ OverdueCovered /\ LogApplied /\ [Next]_vars
        => OutFresh' /\ OverdueCovered' /\ LogApplied'
  BY OutFreshStep, CoveredStep, LogAppliedStep DEF TickInv
<1>2. TickInv /\ OverdueCovered => DetectionBound
  <2> SUFFICES ASSUME TickInv, OverdueCovered, ticked, flaws = {}, NEW n \in Present(fsm.node),
                      fsm.node[n].age > Deadline + Grace
               PROVE  fsm.node[n].state = "Down"
    BY DEF DetectionBound
  <2>1. n \in Node /\ fsm.node[n] # None
    BY DEF TickInv, SchedulerInv, ControlType, FsmType, Present
  <2> QED
    BY <2>1 DEF OverdueCovered, Overdue
<1> QED
  BY <1>1, <1>2, InitFresh, TickInvariant, PTL DEF Spec
=============================================================================
