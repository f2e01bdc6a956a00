------------------------------ MODULE RaftFSM ------------------------------
(***************************************************************************)
(* The replicated state machine of the AetherNet daemon:                   *)
(* daemon/internal/raftfsm (FSM, Command) driven by cluster.Apply.         *)
(*                                                                         *)
(* Consensus itself is hashicorp/raft and is external: it is modelled by   *)
(* what the daemon relies on, one committed log that only grows, and an    *)
(* uncommitted tail that a change of leader may cut.  Each daemon owns an  *)
(* FSM that applies the committed log in order, hands out snapshots that   *)
(* are persisted later and concurrently with further applies, is rebuilt   *)
(* from the persisted snapshot on restart, and is replaced as a whole when *)
(* the leader installs a snapshot on a lagging follower.                   *)
(***************************************************************************)
EXTENDS Naturals, Sequences, FiniteSets

CONSTANTS
    Node,         \* daemons
    ID,           \* primary keys of the tables
    Row,          \* contents of a table row, records with fields state, host
    Key,          \* idempotency keys
    Input,        \* the commands the callers of cluster.Apply submit
    None,         \* absent row, absent key, no leader, no snapshot in hand
    BufSize,      \* capacity of a subscriber channel (100 in the code)
    MaxProposals, \* bound on the calls of cluster.Apply
    MaxRestarts,  \* bound on daemon restarts
    MaxSubs       \* bound on the subscribers of one FSM

Table == {"node", "server", "group", "template", "database", "token"}

\* A CommandType is "<table>.<op>".  `form` tells whether the envelope and
\* the payload decode: "ok", "bad_payload" or "bad_envelope".
Command == [table : Table, op : {"upsert", "heartbeat", "remove",
                                 "set_state", "set_host", "other"},
            id : ID, row : Row, idem : Key \cup {None},
            form : {"ok", "bad_payload", "bad_envelope"}]

ASSUME RaftFSMAssumption ==
    /\ None \notin Node \cup Key
    /\ \A r \in Row : \A q \in Row : [r EXCEPT !.state = q.state] \in Row
                                  /\ [r EXCEPT !.host = q.host] \in Row
    /\ Input \subseteq Command
    /\ BufSize \in Nat \ {0}
    /\ MaxProposals \in Nat /\ MaxRestarts \in Nat /\ MaxSubs \in Nat

VARIABLES
    leader,       \* the daemon for which IsLeader() holds, or None
    log,          \* committed entries [id, by, cmd]
    uncommitted,  \* entries accepted by the leader and not committed yet
    fsm,          \* per daemon: the maps of the FSM
    applied,      \* per daemon: index of the last entry its FSM applied
    inHand,       \* per daemon: the snapshot Snapshot() returned, unpersisted
    store,        \* per daemon: the newest snapshot in its snapshot store
    subs,         \* per daemon: the buffers of its subscriber channels
    waiting,      \* <<daemon, id>> of the cluster.Apply calls still waiting
    acked,        \* ids of the cluster.Apply calls that returned nil
    proposals,    \* cluster.Apply calls accepted so far, the source of ids
    restarts,     \* restarts so far
    hist          \* history variable: the state after each committed entry

vars == <<leader, log, uncommitted, fsm, applied, inHand, store, subs,
          waiting, acked, proposals, restarts, hist>>

\* The maps of the FSM: one map per table, and idem (key -> raft index,
\* 0 standing for an absent key).
State == [tab : [Table -> [ID -> Row \cup {None}]], idem : [Key -> Nat]]

NewFSM == [tab  |-> [t \in Table |-> [i \in ID |-> None]],
           idem |-> [k \in Key |-> 0]]

-----------------------------------------------------------------------------
\* Apply: what one log entry does to the maps.

\* The cases of the switch; anything else is the default case, an error.
Known(c) ==
    \/ c.op \in {"upsert", "remove"}
    \/ c.op = "heartbeat" /\ c.table = "node"
    \/ c.op \in {"set_state", "set_host"} /\ c.table = "server"

\* Mutant: set_state does not ask whether the server exists, and stores a
\* record with nothing but the state.
RowAfterUnchecked(old, c) ==
    CASE c.op \in {"upsert", "heartbeat"} -> c.row
      [] c.op = "remove"                  -> None
      [] c.op = "set_state" /\ old = None -> [state |-> c.row.state, host |-> None]
      [] c.op = "set_state" /\ old # None -> [old EXCEPT !.state = c.row.state]
      [] c.op = "set_host" /\ old # None  -> [old EXCEPT !.host = c.row.host]
      [] OTHER                            -> old

\* The row a command leaves at its id.  set_state and set_host change a
\* server that exists, in place, and ignore one that does not.
RowAfter(old, c) ==
    CASE c.op \in {"upsert", "heartbeat"} -> c.row
      [] c.op = "remove"                  -> None
      [] c.op = "set_state" /\ old # None -> [old EXCEPT !.state = c.row.state]
      [] c.op = "set_host" /\ old # None  -> [old EXCEPT !.host = c.row.host]
      [] OTHER                            -> old

Write(tab, c) ==
    [tab EXCEPT ![c.table][c.id] = RowAfter(tab[c.table][c.id], c)]

Seen(s, c) == c.idem # None /\ s.idem[c.idem] # 0

\* The command reaches the switch and its payload decodes.
Effective(s, c) == c.form = "ok" /\ ~Seen(s, c) /\ Known(c)

\* The idempotency key is recorded before the payload is looked at: a
\* command that then fails has used its key up.
MarkedKeys(s, c, i) ==
    IF c.form = "bad_envelope" \/ c.idem = None \/ Seen(s, c)
    THEN s.idem
    ELSE [s.idem EXCEPT ![c.idem] = i]

\* Mutant: the idempotency check is made and its result is not used.
ApplyCommandIgnoringSeen(s, c, i) ==
    [tab  |-> IF c.form = "ok" /\ Known(c)
              THEN Write(s.tab, c)
              ELSE s.tab,
     idem |-> MarkedKeys(s, c, i)]

ApplyCommand(s, c, i) ==
    [tab  |-> IF Effective(s, c)
              THEN Write(s.tab, c)
              ELSE s.tab,
     idem |-> MarkedKeys(s, c, i)]

\* Whether Apply calls publish: never for tokens, nor for set_state and
\* set_host of a server that is not there.
Publishes(s, c) ==
    /\ Effective(s, c)
    /\ c.table # "token"
    /\ c.op \in {"set_state", "set_host"} => s.tab[c.table][c.id] # None

\* Mutant: the event is built before the row is changed.
EventBeforeWrite(s, c, i) ==
    [at |-> i, table |-> c.table, op |-> c.op, id |-> c.id,
     row |-> s.tab[c.table][c.id]]

\* The event carries a copy of the row as the command left it; `at` is the
\* log index, kept for the properties.
EventOf(s, c, i) ==
    [at |-> i, table |-> c.table, op |-> c.op, id |-> c.id,
     row |-> RowAfter(s.tab[c.table][c.id], c)]

\* publish: a non-blocking send to every subscriber, dropped when full.
Delivered(chs, ev) ==
    [k \in DOMAIN chs |-> IF Len(chs[k]) < BufSize THEN Append(chs[k], ev)
                                                   ELSE chs[k]]

\* The state after the first i committed entries.
StateAt(i) == IF i = 0 THEN NewFSM ELSE hist[i]

-----------------------------------------------------------------------------
Init ==
    /\ leader \in Node
    /\ log = <<>> /\ uncommitted = <<>> /\ hist = <<>>
    /\ fsm = [n \in Node |-> NewFSM]
    /\ applied = [n \in Node |-> 0]
    /\ inHand = [n \in Node |-> None]
    /\ store = [n \in Node |-> [index |-> 0, state |-> NewFSM]]
    /\ subs = [n \in Node |-> <<>>]
    /\ waiting = {} /\ acked = {}
    /\ proposals = 0 /\ restarts = 0

\* Mutant: Apply returns nil as soon as raft has accepted the command.
ProposeFireAndForget(n, c) ==
    /\ n = leader
    /\ proposals < MaxProposals
    /\ proposals' = proposals + 1
    /\ uncommitted' =
         Append(uncommitted, [id |-> proposals', by |-> n, cmd |-> c])
    /\ acked' = acked \cup {proposals'}
    /\ UNCHANGED <<leader, log, fsm, applied, inHand, store, subs, waiting,
                   restarts, hist>>

\* cluster.Apply on the leader hands the command to raft and waits.  On any
\* other daemon it returns ErrNotLeader and changes nothing.
Propose(n, c) ==
    /\ n = leader
    /\ proposals < MaxProposals
    /\ proposals' = proposals + 1
    /\ uncommitted' =
         Append(uncommitted, [id |-> proposals', by |-> n, cmd |-> c])
    /\ waiting' = waiting \cup {<<n, proposals'>>}
    /\ UNCHANGED <<leader, log, fsm, applied, inHand, store, subs, acked,
                   restarts, hist>>

\* ctx.Done() wins the select of cluster.Apply: the caller gets an error, the
\* command stays in raft's hands.
GiveUp(w) ==
    /\ waiting' = waiting \ {w}
    /\ UNCHANGED <<leader, log, uncommitted, fsm, applied, inHand, store, subs,
                   acked, proposals, restarts, hist>>

\* Raft (external): the oldest uncommitted entry reaches a quorum.
Commit ==
    /\ leader # None
    /\ uncommitted # <<>>
    /\ log' = Append(log, Head(uncommitted))
    /\ uncommitted' = Tail(uncommitted)
    /\ hist' = Append(hist, ApplyCommand(StateAt(Len(log)),
                                         Head(uncommitted).cmd, Len(log) + 1))
    /\ UNCHANGED <<leader, fsm, applied, inHand, store, subs, waiting, acked,
                   proposals, restarts>>

\* Raft (external): another daemon is elected.  It has the committed log and
\* some prefix of the uncommitted tail; the calls that wait for an entry of
\* that tail return ErrLeadershipLost.
LeaderChange(n, k) ==
    /\ n # leader
    /\ leader' = n
    /\ uncommitted' = SubSeq(uncommitted, 1, k)
    /\ waiting' = {w \in waiting :
                     \A i \in DOMAIN uncommitted : uncommitted[i].id # w[2]}
    /\ UNCHANGED <<log, fsm, applied, inHand, store, subs, acked, proposals,
                   restarts, hist>>

\* Mutant: publish sends with `ch <- ev` and no default case, so a full
\* channel stops the apply loop.
ApplyLogBlockingPublish(n) ==
    /\ applied[n] < Len(log)
    /\ LET i == applied[n] + 1
           e == log[i]
       IN /\ Publishes(fsm[n], e.cmd) =>
               \A k \in DOMAIN subs[n] : Len(subs[n][k]) < BufSize
          /\ fsm' = [fsm EXCEPT ![n] = ApplyCommand(@, e.cmd, i)]
          /\ applied' = [applied EXCEPT ![n] = i]
          /\ subs' = IF Publishes(fsm[n], e.cmd)
                     THEN [subs EXCEPT ![n] =
                             Delivered(@, EventOf(fsm[n], e.cmd, i))]
                     ELSE subs
          /\ waiting' = waiting \ {<<n, e.id>>}
          /\ acked' = IF <<n, e.id>> \in waiting THEN acked \cup {e.id}
                                                 ELSE acked
    /\ UNCHANGED <<leader, log, uncommitted, inHand, store, proposals,
                   restarts, hist>>

\* FSM.Apply of the next committed entry, under f.mu: the maps change, the
\* subscribers get the event, and the cluster.Apply call that waits for this
\* entry on this daemon, if any, returns nil.  An error from the command is
\* dropped with the future's response: the entry counts as applied.
ApplyLog(n) ==
    /\ applied[n] < Len(log)
    /\ LET i == applied[n] + 1
           e == log[i]
       IN /\ fsm' = [fsm EXCEPT ![n] = ApplyCommand(@, e.cmd, i)]
          /\ applied' = [applied EXCEPT ![n] = i]
          /\ subs' = IF Publishes(fsm[n], e.cmd)
                     THEN [subs EXCEPT ![n] =
                             Delivered(@, EventOf(fsm[n], e.cmd, i))]
                     ELSE subs
          /\ waiting' = waiting \ {<<n, e.id>>}
          /\ acked' = IF <<n, e.id>> \in waiting THEN acked \cup {e.id}
                                                 ELSE acked
    /\ UNCHANGED <<leader, log, uncommitted, inHand, store, proposals,
                   restarts, hist>>

\* FSM.Snapshot: a copy of every map at the index applied so far.  Raft asks
\* for one only when there is something newer than its last one.
Snapshot(n) ==
    /\ inHand[n] = None
    /\ applied[n] > store[n].index
    /\ inHand' = [inHand EXCEPT ![n] = [index |-> applied[n],
                                        state |-> fsm[n]]]
    /\ UNCHANGED <<leader, log, uncommitted, fsm, applied, store, subs,
                   waiting, acked, proposals, restarts, hist>>

\* Mutant: the snapshot shares its records with the live maps (a copyMap
\* that copies pointers), so Persist encodes what they hold by then.
PersistAliased(n) ==
    /\ inHand[n] # None
    /\ store' = [store EXCEPT ![n] =
                   IF inHand[n].index > @.index
                   THEN [index |-> inHand[n].index,
                         state |-> [fsm[n] EXCEPT !.idem = inHand[n].state.idem]]
                   ELSE @]
    /\ inHand' = [inHand EXCEPT ![n] = None]
    /\ UNCHANGED <<leader, log, uncommitted, fsm, applied, subs, waiting,
                   acked, proposals, restarts, hist>>

\* snapshot.Persist, some time after Snapshot.  The store keeps several
\* snapshots and offers the one with the highest index.
Persist(n) ==
    /\ inHand[n] # None
    /\ store' = [store EXCEPT ![n] =
                   IF inHand[n].index > @.index THEN inHand[n] ELSE @]
    /\ inHand' = [inHand EXCEPT ![n] = None]
    /\ UNCHANGED <<leader, log, uncommitted, fsm, applied, subs, waiting,
                   acked, proposals, restarts, hist>>

\* snapshot.Persist fails to encode or write and cancels the sink.
PersistFails(n) ==
    /\ inHand[n] # None
    /\ inHand' = [inHand EXCEPT ![n] = None]
    /\ UNCHANGED <<leader, log, uncommitted, fsm, applied, store, subs,
                   waiting, acked, proposals, restarts, hist>>

\* Mutant: Restore forgets the idempotency map.
RestoredWithoutIdem(snap) == [snap.state EXCEPT !.idem = NewFSM.idem]

\* FSM.Restore: every map, the idempotency map included, is the snapshot's.
Restored(snap) == snap.state

\* The daemon dies and comes back: NewFSM, then Restore of the newest stored
\* snapshot; the entries after it are applied again as they are committed.
Restart(n) ==
    /\ restarts < MaxRestarts
    /\ restarts' = restarts + 1
    /\ fsm' = [fsm EXCEPT ![n] = Restored(store[n])]
    /\ applied' = [applied EXCEPT ![n] = store[n].index]
    /\ inHand' = [inHand EXCEPT ![n] = None]
    /\ subs' = [subs EXCEPT ![n] = <<>>]
    /\ waiting' = {w \in waiting : w[1] # n}
    /\ leader' = IF leader = n THEN None ELSE leader
    /\ UNCHANGED <<log, uncommitted, store, acked, proposals, hist>>

\* Raft installs the leader's snapshot on a follower that lags behind it: the
\* follower stores it and calls Restore, which publishes nothing.
InstallSnapshot(n) ==
    /\ leader \notin {n, None}
    /\ store[leader].index > applied[n]
    /\ fsm' = [fsm EXCEPT ![n] = Restored(store[leader])]
    /\ applied' = [applied EXCEPT ![n] = store[leader].index]
    /\ store' = [store EXCEPT ![n] = store[leader]]
    /\ UNCHANGED <<leader, log, uncommitted, inHand, subs, waiting, acked,
                   proposals, restarts, hist>>

\* FSM.Subscribe: a new buffered channel.  Nothing ever removes one.
Subscribe(n) ==
    /\ Len(subs[n]) < MaxSubs
    /\ subs' = [subs EXCEPT ![n] = Append(@, <<>>)]
    /\ UNCHANGED <<leader, log, uncommitted, fsm, applied, inHand, store,
                   waiting, acked, proposals, restarts, hist>>

\* A subscriber takes the next event from its channel.
Receive(n, k) ==
    /\ subs[n][k] # <<>>
    /\ subs' = [subs EXCEPT ![n][k] = Tail(subs[n][k])]
    /\ UNCHANGED <<leader, log, uncommitted, fsm, applied, inHand, store,
                   waiting, acked, proposals, restarts, hist>>

Next ==
    \/ \E n \in Node, c \in Input : Propose(n, c)
    \/ \E w \in waiting : GiveUp(w)
    \/ Commit
    \/ \E n \in Node, k \in 0..Len(uncommitted) : LeaderChange(n, k)
    \/ \E n \in Node : ApplyLog(n)
    \/ \E n \in Node : Snapshot(n)
    \/ \E n \in Node : Persist(n)
    \/ \E n \in Node : PersistFails(n)
    \/ \E n \in Node : Restart(n)
    \/ \E n \in Node : InstallSnapshot(n)
    \/ \E n \in Node : Subscribe(n)
    \/ \E n \in Node : \E k \in DOMAIN subs[n] : Receive(n, k)

Spec == Init /\ [][Next]_vars

\* Raft's apply goroutine keeps feeding the FSM while entries are left.
FairSpec == Spec /\ \A n \in Node : WF_vars(ApplyLog(n))

-----------------------------------------------------------------------------
Entry == [id : Nat, by : Node, cmd : Input]
Event == [at : Nat, table : Table, op : {"upsert", "heartbeat", "remove",
                                         "set_state", "set_host"},
          id : ID, row : Row \cup {None}]
SnapshotRecord == [index : Nat, state : State]

\* Every variable keeps the shape the Go types give it, indices included.
TypeOK ==
    /\ leader \in Node \cup {None}
    /\ log \in Seq(Entry) /\ uncommitted \in Seq(Entry)
    /\ hist \in Seq(State) /\ Len(hist) = Len(log)
    /\ fsm \in [Node -> State]
    /\ applied \in [Node -> Nat] /\ \A n \in Node : applied[n] <= Len(log)
    /\ store \in [Node -> SnapshotRecord]
    /\ \A n \in Node : store[n].index <= Len(log)
    /\ inHand \in [Node -> SnapshotRecord \cup {None}]
    /\ \A n \in Node : inHand[n] # None => inHand[n].index <= Len(log)
    /\ subs \in [Node -> Seq(Seq(Event))]
    /\ waiting \subseteq Node \X Nat
    /\ acked \subseteq Nat
    /\ proposals \in Nat /\ restarts \in Nat

\* "every node holds an identical, deterministic copy" (fsm.go:1-3): two
\* daemons that applied the same number of entries hold equal maps, whether
\* they got there by applying, by replay after a restart or by a snapshot.
ReplicaAgreement ==
    \A m, n \in Node : applied[m] = applied[n] => fsm[m] = fsm[n]

\* A cluster.Apply call that returned nil has its command in the committed
\* log, whatever leaders came and went: no acknowledged write is lost.
AckedCommitted ==
    \A id \in acked : \E i \in DOMAIN log : log[i].id = id

\* The entry at index i repeats the idempotency key of an earlier entry.
RepeatsKey(i) ==
    /\ log[i].cmd.idem # None
    /\ \E j \in 1..(i - 1) : /\ log[j].cmd.idem = log[i].cmd.idem
                             /\ log[j].cmd.form # "bad_envelope"

\* A retry under the same key changes nothing (fsm.go:97-103), also on a
\* daemon that has been restarted or restored from a snapshot in between.
RetryHasNoEffect ==
    [][\A n \in Node :
         (applied'[n] = applied[n] + 1 /\ RepeatsKey(applied[n] + 1))
            => fsm'[n] = fsm[n]]_vars

\* An event of a daemon that has applied `upTo` entries of history `h`.
FaithfulEvent(upTo, h, ev) ==
    /\ ev.at \in 1..upTo
    /\ ev.row = h[ev.at].tab[ev.table][ev.id]

FaithfulChannel(upTo, h, ch) ==
    /\ Len(ch) <= BufSize
    /\ \A i \in 1..Len(ch) : /\ FaithfulEvent(upTo, h, ch[i])
                             /\ \A j \in 1..(i - 1) : ch[j].at < ch[i].at

\* What waits in a subscriber's channel is in log order, is something the
\* daemon has applied, and shows the row as that entry left it (the "typed
\* copy of what was applied", fsm.go:40-44); drops leave gaps, nothing else.
EventsFaithful ==
    \A n \in Node : \A k \in DOMAIN subs[n] :
        FaithfulChannel(applied[n], hist, subs[n][k])

\* Every daemon ends up with the whole log applied, although no subscriber is
\* obliged to read: a full channel never backpressures the apply loop
\* (fsm.go:63-65).
Convergence == <>[](\A n \in Node : applied[n] = Len(log))

-----------------------------------------------------------------------------
\* The inductive strengthening of ReplicaAgreement: every live, stored and
\* in-hand state is the state the committed log prescribes at its index.
HistFollowsLog ==
    \A i \in 1..Len(log) : hist[i] = ApplyCommand(StateAt(i - 1), log[i].cmd, i)

CopiesFollowHist ==
    \A n \in Node :
        /\ fsm[n] = StateAt(applied[n])
        /\ store[n].state = StateAt(store[n].index)
        /\ inHand[n] # None => inHand[n].state = StateAt(inHand[n].index)

ReplicaInv == TypeOK /\ HistFollowsLog /\ CopiesFollowHist

\* The strengthening of RetryHasNoEffect: a key that the log used is in the
\* idempotency map of every later state.
KeysRecorded ==
    \A i \in 0..Len(log) : \A j \in 1..i :
        (log[j].cmd.idem # None /\ log[j].cmd.form # "bad_envelope")
            => StateAt(i).idem[log[j].cmd.idem] # 0
=============================================================================
