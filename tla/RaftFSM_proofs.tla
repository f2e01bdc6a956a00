--------------------------- MODULE RaftFSM_proofs ---------------------------
(***************************************************************************)
(* Proofs about RaftFSM, for every set of daemons, ids, rows, keys and     *)
(* inputs, and for every value of the bounds.                              *)
(***************************************************************************)
EXTENDS RaftFSM, SequenceTheorems, TLAPS

\* Applying any command to well-typed maps gives well-typed maps.
LEMMA ApplyCommandType ==
    ASSUME NEW s \in State, NEW c \in Command, NEW i \in Nat
    PROVE  ApplyCommand(s, c, i) \in State
<1> USE DEF State, Command
<1>1. ASSUME NEW old \in Row \cup {None} PROVE RowAfter(old, c) \in Row \cup {None}
  BY RaftFSMAssumption DEF RowAfter
<1>2. MarkedKeys(s, c, i) \in [Key -> Nat]
  BY DEF MarkedKeys, Seen
<1>3. s.tab[c.table][c.id] \in Row \cup {None}
  OBVIOUS
<1>4. Write(s.tab, c) \in [Table -> [ID -> Row \cup {None}]]
  BY <1>1, <1>3 DEF Write
<1> QED
  BY <1>2, <1>4 DEF ApplyCommand

\* The empty maps of NewFSM are well typed.
LEMMA NewFSMType == NewFSM \in State
BY DEF NewFSM, State

\* An event about a published command is well typed.
LEMMA EventType ==
    ASSUME NEW s \in State, NEW c \in Command, NEW i \in Nat, Publishes(s, c)
    PROVE  EventOf(s, c, i) \in Event
<1> USE DEF State, Command
<1>1. c.op \in {"upsert", "heartbeat", "remove", "set_state", "set_host"}
  BY DEF Publishes, Effective, Known
<1>2. s.tab[c.table][c.id] \in Row \cup {None}
  OBVIOUS
<1>3. RowAfter(s.tab[c.table][c.id], c) \in Row \cup {None}
  BY <1>2, RaftFSMAssumption DEF RowAfter
<1> QED
  BY <1>1, <1>3 DEF EventOf, Event

\* A function on 1..n is a sequence.
LEMMA FunctionIsSeq ==
    ASSUME NEW S, NEW n \in Nat, NEW f \in [1..n -> S]
    PROVE  f \in Seq(S)
<1>1. f \in UNION {[1..m -> S] : m \in Nat}
  OBVIOUS
<1> QED
  BY <1>1, SeqDef, Zenon

\* publish keeps the channels well typed.
LEMMA DeliveredType ==
    ASSUME NEW chs \in Seq(Seq(Event)), NEW ev \in Event
    PROVE  Delivered(chs, ev) \in Seq(Seq(Event))
<1>1. \A k \in 1..Len(chs) : chs[k] \in Seq(Event) /\ Append(chs[k], ev) \in Seq(Event)
  OBVIOUS
<1>2. DOMAIN chs = 1..Len(chs) /\ Len(chs) \in Nat
  OBVIOUS
<1>3. Delivered(chs, ev) \in [1..Len(chs) -> Seq(Event)]
  BY <1>1, <1>2 DEF Delivered
<1> QED
  BY <1>2, <1>3, FunctionIsSeq

\* The state after i entries is well typed.
LEMMA StateAtType ==
    ASSUME TypeOK, NEW i \in 0..Len(log)
    PROVE  StateAt(i) \in State
BY NewFSMType DEF TypeOK, StateAt

-----------------------------------------------------------------------------
\* TypeOK is inductive.
LEMMA TypeInit == Init => TypeOK
BY NewFSMType, RaftFSMAssumption DEF Init, TypeOK, SnapshotRecord

\* Every step keeps TypeOK, one case per action.
LEMMA TypeStep == TypeOK /\ [Next]_vars => TypeOK'
<1> SUFFICES ASSUME TypeOK, [Next]_vars PROVE TypeOK'
  OBVIOUS
<1>0. Input \subseteq Command
  BY RaftFSMAssumption
<1>1. ASSUME NEW n \in Node, NEW c \in Input, Propose(n, c) PROVE TypeOK'
  <2>1. [id |-> proposals', by |-> n, cmd |-> c] \in Entry
    BY <1>1 DEF Propose, TypeOK, Entry
  <2> QED
    BY <1>1, <2>1 DEF Propose, TypeOK
<1>2. ASSUME NEW w \in waiting, GiveUp(w) PROVE TypeOK'
  BY <1>2 DEF GiveUp, TypeOK
<1>3. CASE Commit
  <2>1. Head(uncommitted) \in Entry /\ Tail(uncommitted) \in Seq(Entry)
    BY <1>3 DEF Commit, TypeOK
  <2>2. Head(uncommitted).cmd \in Command /\ Len(log) + 1 \in Nat
    BY <2>1, <1>0 DEF Entry, TypeOK
  <2>3. ApplyCommand(StateAt(Len(log)), Head(uncommitted).cmd, Len(log) + 1) \in State
    <3>1. StateAt(Len(log)) \in State
      BY StateAtType DEF TypeOK
    <3> QED
      BY <3>1, <2>2, ApplyCommandType
  <2>4. log' \in Seq(Entry) /\ hist' \in Seq(State) /\ Len(log') = Len(log) + 1
        /\ Len(hist') = Len(log')
    BY <1>3, <2>1, <2>3 DEF Commit, TypeOK
  <2>5. \A n \in Node : /\ applied[n] <= Len(log')
                        /\ store[n].index <= Len(log')
                        /\ inHand[n] # None => inHand[n].index <= Len(log')
    BY <2>4 DEF TypeOK, SnapshotRecord
  <2> QED
    BY <1>3, <2>1, <2>4, <2>5 DEF Commit, TypeOK
<1>4. ASSUME NEW n \in Node, NEW k \in 0..Len(uncommitted), LeaderChange(n, k)
      PROVE TypeOK'
  <2>1. SubSeq(uncommitted, 1, k) \in Seq(Entry)
    BY SubSeqProperties DEF TypeOK
  <2> QED
    BY <1>4, <2>1 DEF LeaderChange, TypeOK
<1>5. ASSUME NEW n \in Node, ApplyLog(n) PROVE TypeOK'
  <2> DEFINE i == applied[n] + 1
             e == log[i]
  <2>1. i \in 1..Len(log) /\ i \in Nat /\ e \in Entry
    BY <1>5 DEF ApplyLog, TypeOK
  <2>2. e.cmd \in Command /\ e.id \in Nat
    BY <2>1, <1>0 DEF Entry
  <2>3. fsm[n] \in State /\ subs[n] \in Seq(Seq(Event))
    BY DEF TypeOK
  <2>4. fsm' \in [Node -> State]
    BY <1>5, <2>1, <2>2, <2>3, ApplyCommandType DEF ApplyLog, TypeOK
  <2>5. subs' \in [Node -> Seq(Seq(Event))]
    <3>1. CASE Publishes(fsm[n], e.cmd)
      <4>1. EventOf(fsm[n], e.cmd, i) \in Event
        BY <3>1, <2>1, <2>2, <2>3, EventType
      <4>2. Delivered(subs[n], EventOf(fsm[n], e.cmd, i)) \in Seq(Seq(Event))
        BY <4>1, <2>3, DeliveredType
      <4> QED
        BY <1>5, <3>1, <4>2 DEF ApplyLog, TypeOK
    <3>2. CASE ~Publishes(fsm[n], e.cmd)
      BY <1>5, <3>2 DEF ApplyLog, TypeOK
    <3> QED
      BY <3>1, <3>2
  <2>6. applied' \in [Node -> Nat] /\ \A m \in Node : applied'[m] <= Len(log)
    BY <1>5, <2>1 DEF ApplyLog, TypeOK
  <2>7. acked' \subseteq Nat /\ waiting' \subseteq Node \X Nat
    BY <1>5, <2>2 DEF ApplyLog, TypeOK
  <2> QED
    BY <1>5, <2>4, <2>5, <2>6, <2>7 DEF ApplyLog, TypeOK
<1>6. ASSUME NEW n \in Node, Snapshot(n) PROVE TypeOK'
  BY <1>6 DEF Snapshot, TypeOK, SnapshotRecord
<1>7. ASSUME NEW n \in Node, Persist(n) PROVE TypeOK'
  BY <1>7 DEF Persist, TypeOK, SnapshotRecord
<1>8. ASSUME NEW n \in Node, PersistFails(n) PROVE TypeOK'
  BY <1>8 DEF PersistFails, TypeOK
<1>9. ASSUME NEW n \in Node, Restart(n) PROVE TypeOK'
  <2>1. store[n].state \in State /\ store[n].index \in Nat
    BY DEF TypeOK, SnapshotRecord
  <2>2. fsm' \in [Node -> State] /\ applied' \in [Node -> Nat]
        /\ \A m \in Node : applied'[m] <= Len(log)
    BY <1>9, <2>1 DEF Restart, Restored, TypeOK
  <2>3. <<>> \in Seq(Seq(Event))
    BY EmptySeq
  <2>4. subs' \in [Node -> Seq(Seq(Event))]
    BY <1>9, <2>3 DEF Restart, TypeOK
  <2> QED
    BY <1>9, <2>2, <2>4 DEF Restart, TypeOK
<1>10. ASSUME NEW n \in Node, InstallSnapshot(n) PROVE TypeOK'
  <2>1. leader \in Node
    BY <1>10 DEF InstallSnapshot, TypeOK
  <2>2. store[leader] \in SnapshotRecord /\ store[leader].state \in State
        /\ store[leader].index \in Nat /\ store[leader].index <= Len(log)
    BY <2>1 DEF TypeOK, SnapshotRecord
  <2> QED
    BY <1>10, <2>2 DEF InstallSnapshot, Restored, TypeOK
<1>11. ASSUME NEW n \in Node, Subscribe(n) PROVE TypeOK'
  <2>1. <<>> \in Seq(Event)
    BY EmptySeq
  <2> QED
    BY <1>11, <2>1 DEF Subscribe, TypeOK
<1>12. ASSUME NEW n \in Node, NEW k \in DOMAIN subs[n], Receive(n, k) PROVE TypeOK'
  <2>1. subs[n] \in Seq(Seq(Event)) /\ k \in 1..Len(subs[n])
    BY DEF TypeOK
  <2>2. Tail(subs[n][k]) \in Seq(Event)
    BY <1>12, <2>1 DEF Receive
  <2>3. [subs[n] EXCEPT ![k] = Tail(subs[n][k])] \in Seq(Seq(Event))
    BY <2>1, <2>2, ExceptSeq
  <2> QED
    BY <1>12, <2>3 DEF Receive, TypeOK
<1>13. CASE UNCHANGED vars
  BY <1>13 DEF vars, TypeOK
<1> QED
  BY <1>1, <1>2, <1>3, <1>4, <1>5, <1>6, <1>7, <1>8, <1>9, <1>10, <1>11,
     <1>12, <1>13 DEF Next

\* Every variable of the replicated FSM always has its type, and no copy of
\* the state is ever ahead of the committed log.
THEOREM TypeCorrect == Spec => []TypeOK
BY TypeInit, TypeStep, PTL DEF Spec

-----------------------------------------------------------------------------
\* A commit extends the history and leaves what it says of earlier indices.
LEMMA CommitHist ==
    ASSUME TypeOK, Commit
    PROVE  /\ Len(log') = Len(log) + 1
           /\ \A i \in 1..Len(log) : log'[i] = log[i]
           /\ log'[Len(log) + 1] = Head(uncommitted)
           /\ \A i \in 0..Len(log) : StateAt(i)' = StateAt(i)
           /\ hist'[Len(log) + 1] =
                ApplyCommand(StateAt(Len(log)), log'[Len(log) + 1].cmd, Len(log) + 1)
<1>1. Head(uncommitted) \in Entry /\ log \in Seq(Entry)
  BY DEF Commit, TypeOK
<1>2. Head(uncommitted).cmd \in Command
  BY <1>1, RaftFSMAssumption DEF Entry
<1>21. StateAt(Len(log)) \in State
  BY StateAtType DEF TypeOK
<1> DEFINE new == ApplyCommand(StateAt(Len(log)), Head(uncommitted).cmd, Len(log) + 1)
<1>3. new \in State
  BY <1>1, <1>2, <1>21, ApplyCommandType
<1> HIDE DEF new
<1>4. /\ Len(log') = Len(log) + 1
      /\ \A i \in 1..Len(log) : log'[i] = log[i]
      /\ log'[Len(log) + 1] = Head(uncommitted)
  BY <1>1 DEF Commit
<1>5. hist' = Append(hist, new) /\ hist \in Seq(State) /\ Len(hist) = Len(log)
  BY DEF Commit, TypeOK, new
<1>6. /\ \A i \in 1..Len(log) : hist'[i] = hist[i]
      /\ hist'[Len(log) + 1] = new
      /\ Len(log) \in Nat
  BY <1>3, <1>5
<1>7. \A i \in 0..Len(log) : StateAt(i)' = StateAt(i)
  BY <1>6 DEF StateAt
<1> QED
  BY <1>4, <1>6, <1>7 DEF new

\* ReplicaInv is inductive.
LEMMA ReplicaInit == Init => ReplicaInv
BY TypeInit DEF Init, ReplicaInv, HistFollowsLog, CopiesFollowHist, StateAt

\* Every step keeps ReplicaInv: each copy of the maps stays the one that the
\* committed log prescribes at its index.
LEMMA ReplicaStep == ReplicaInv /\ [Next]_vars => ReplicaInv'
<1> SUFFICES ASSUME ReplicaInv, [Next]_vars PROVE ReplicaInv'
  OBVIOUS
<1>0. TypeOK /\ TypeOK' /\ HistFollowsLog /\ CopiesFollowHist
  BY TypeStep DEF ReplicaInv
\* Most actions leave the log and its history alone.
<1>a. ASSUME UNCHANGED <<log, hist>>
      PROVE  HistFollowsLog' /\ \A i : StateAt(i)' = StateAt(i)
  BY <1>a, <1>0 DEF HistFollowsLog, StateAt
<1>b. ASSUME UNCHANGED <<log, hist, fsm, applied, store, inHand>>
      PROVE  ReplicaInv'
  BY <1>b, <1>a, <1>0 DEF CopiesFollowHist, ReplicaInv
<1>1. ASSUME NEW n \in Node, NEW c \in Input, Propose(n, c) PROVE ReplicaInv'
  BY <1>1, <1>b DEF Propose
<1>2. ASSUME NEW w \in waiting, GiveUp(w) PROVE ReplicaInv'
  BY <1>2, <1>b DEF GiveUp
<1>3. CASE Commit
  <2>1. HistFollowsLog'
    <3> SUFFICES ASSUME NEW i \in 1..Len(log')
                 PROVE  hist'[i] = ApplyCommand(StateAt(i - 1)', log'[i].cmd, i)
      BY DEF HistFollowsLog
    <3>1. hist'[i] = StateAt(i)'
      BY DEF StateAt
    <3>2. Len(log) \in Nat
      BY <1>0 DEF TypeOK
    <3>3. CASE i = Len(log) + 1
      <4>1. StateAt(i - 1)' = StateAt(Len(log))
        BY <1>0, <1>3, <3>2, <3>3, CommitHist
      <4> QED
        BY <1>0, <1>3, <3>1, <3>3, <4>1, CommitHist
    <3>4. CASE i \in 1..Len(log)
      <4>1. StateAt(i)' = StateAt(i) /\ StateAt(i - 1)' = StateAt(i - 1)
            /\ log'[i] = log[i]
        BY <1>0, <1>3, <3>2, <3>4, CommitHist
      <4>2. StateAt(i) = ApplyCommand(StateAt(i - 1), log[i].cmd, i)
        BY <1>0, <3>4 DEF HistFollowsLog, StateAt
      <4> QED
        BY <3>1, <4>1, <4>2
    <3> QED
      BY <1>0, <1>3, <3>2, <3>3, <3>4, CommitHist
  <2>2. CopiesFollowHist'
    <3> SUFFICES ASSUME NEW n \in Node
                 PROVE  /\ fsm[n]' = StateAt(applied[n])'
                        /\ store[n].state' = StateAt(store[n].index)'
                        /\ (inHand[n] # None =>
                              inHand[n].state = StateAt(inHand[n].index))'
      BY DEF CopiesFollowHist
    <3>1. UNCHANGED <<fsm, applied, store, inHand>>
      BY <1>3 DEF Commit
    <3>2. /\ applied[n] \in 0..Len(log) /\ store[n].index \in 0..Len(log)
          /\ inHand[n] # None => inHand[n].index \in 0..Len(log)
      BY <1>0 DEF TypeOK, SnapshotRecord
    <3>3. \A i \in 0..Len(log) : StateAt(i)' = StateAt(i)
      BY <1>0, <1>3, CommitHist
    <3>4. /\ StateAt(applied[n])' = StateAt(applied[n])
          /\ StateAt(store[n].index)' = StateAt(store[n].index)
          /\ inHand[n] # None =>
               StateAt(inHand[n].index)' = StateAt(inHand[n].index)
      BY <3>1, <3>2, <3>3
    <3> QED
      BY <1>0, <3>1, <3>4 DEF CopiesFollowHist
  <2> QED
    BY <1>0, <2>1, <2>2 DEF ReplicaInv
<1>4. ASSUME NEW n \in Node, NEW k \in 0..Len(uncommitted), LeaderChange(n, k)
      PROVE ReplicaInv'
  BY <1>4, <1>b DEF LeaderChange
<1>5. ASSUME NEW n \in Node, ApplyLog(n) PROVE ReplicaInv'
  <2> DEFINE i == applied[n] + 1
  <2>1. i \in 1..Len(log) /\ applied[n] = i - 1 /\ i # 0
    BY <1>5, <1>0 DEF ApplyLog, TypeOK
  <2>2. UNCHANGED <<log, hist, store, inHand>>
    BY <1>5 DEF ApplyLog
  <2>3. StateAt(i) = ApplyCommand(fsm[n], log[i].cmd, i)
    BY <1>0, <2>1 DEF HistFollowsLog, CopiesFollowHist, StateAt
  <2>4. \A m \in Node : fsm'[m] = StateAt(applied'[m])
    BY <1>5, <1>0, <2>3 DEF ApplyLog, CopiesFollowHist, TypeOK
  <2> QED
    BY <1>0, <1>a, <2>2, <2>4 DEF CopiesFollowHist, ReplicaInv
<1>6. ASSUME NEW n \in Node, Snapshot(n) PROVE ReplicaInv'
  <2>1. UNCHANGED <<log, hist, fsm, applied, store>>
    BY <1>6 DEF Snapshot
  <2>2. \A m \in Node : inHand'[m] # None => inHand'[m].state = StateAt(inHand'[m].index)
    BY <1>6, <1>0 DEF Snapshot, CopiesFollowHist, TypeOK
  <2> QED
    BY <1>0, <1>a, <2>1, <2>2 DEF CopiesFollowHist, ReplicaInv
<1>7. ASSUME NEW n \in Node, Persist(n) PROVE ReplicaInv'
  <2>1. UNCHANGED <<log, hist, fsm, applied>>
    BY <1>7 DEF Persist
  <2>2. \A m \in Node : /\ store'[m].state = StateAt(store'[m].index)
                        /\ inHand'[m] # None => inHand'[m].state = StateAt(inHand'[m].index)
    BY <1>7, <1>0 DEF Persist, CopiesFollowHist, TypeOK
  <2> QED
    BY <1>0, <1>a, <2>1, <2>2 DEF CopiesFollowHist, ReplicaInv
<1>8. ASSUME NEW n \in Node, PersistFails(n) PROVE ReplicaInv'
  <2>1. UNCHANGED <<log, hist, fsm, applied, store>>
    BY <1>8 DEF PersistFails
  <2>2. \A m \in Node : inHand'[m] # None => inHand'[m].state = StateAt(inHand'[m].index)
    BY <1>8, <1>0 DEF PersistFails, CopiesFollowHist, TypeOK
  <2> QED
    BY <1>0, <1>a, <2>1, <2>2 DEF CopiesFollowHist, ReplicaInv
<1>9. ASSUME NEW n \in Node, Restart(n) PROVE ReplicaInv'
  <2>1. UNCHANGED <<log, hist, store>>
    BY <1>9 DEF Restart
  <2>2. \A m \in Node : /\ fsm'[m] = StateAt(applied'[m])
                        /\ inHand'[m] # None => inHand'[m].state = StateAt(inHand'[m].index)
    BY <1>9, <1>0 DEF Restart, Restored, CopiesFollowHist, TypeOK
  <2> QED
    BY <1>0, <1>a, <2>1, <2>2 DEF CopiesFollowHist, ReplicaInv
<1>10. ASSUME NEW n \in Node, InstallSnapshot(n) PROVE ReplicaInv'
  <2>1. UNCHANGED <<log, hist, inHand>>
    BY <1>10 DEF InstallSnapshot
  <2>2. leader \in Node
    BY <1>10, <1>0 DEF InstallSnapshot, TypeOK
  <2>3. \A m \in Node : /\ fsm'[m] = StateAt(applied'[m])
                        /\ store'[m].state = StateAt(store'[m].index)
    BY <1>10, <1>0, <2>2 DEF InstallSnapshot, Restored, CopiesFollowHist, TypeOK
  <2> QED
    BY <1>0, <1>a, <2>1, <2>3 DEF CopiesFollowHist, ReplicaInv
<1>11. ASSUME NEW n \in Node, Subscribe(n) PROVE ReplicaInv'
  BY <1>11, <1>b DEF Subscribe
<1>12. ASSUME NEW n \in Node, NEW k \in DOMAIN subs[n], Receive(n, k) PROVE ReplicaInv'
  BY <1>12, <1>b DEF Receive
<1>13. CASE UNCHANGED vars
  BY <1>13, <1>b DEF vars
<1> QED
  BY <1>1, <1>2, <1>3, <1>4, <1>5, <1>6, <1>7, <1>8, <1>9, <1>10, <1>11,
     <1>12, <1>13 DEF Next

\* Live, in-hand and stored maps always follow the committed log.
LEMMA ReplicaInvariant == Spec => []ReplicaInv
BY ReplicaInit, ReplicaStep, PTL DEF Spec

\* Daemons that applied equally many entries hold identical maps, in every
\* interleaving of applies, snapshots, restarts, installs and elections:
\* what the package comment of fsm.go promises of Apply.
THEOREM Agreement == Spec => []ReplicaAgreement
<1>1. ReplicaInv => ReplicaAgreement
  BY DEF ReplicaInv, CopiesFollowHist, ReplicaAgreement
<1> QED
  BY <1>1, ReplicaInvariant, PTL

-----------------------------------------------------------------------------
\* The committed log only grows.
LEMMA LogGrows ==
    ASSUME TypeOK, [Next]_vars
    PROVE  \/ Commit
           \/ UNCHANGED <<log, hist>>
BY DEF Next, vars, Propose, GiveUp, LeaderChange, ApplyLog, Snapshot, Persist,
       PersistFails, Restart, InstallSnapshot, Subscribe, Receive

\* A call of cluster.Apply that returned nil has its command in the committed
\* log for good: elections and restarts never take an acknowledged write back.
THEOREM NoAckedWriteLost == Spec => []AckedCommitted
<1>1. Init => AckedCommitted
  BY DEF Init, AckedCommitted
<1>2. TypeOK /\ AckedCommitted /\ [Next]_vars => AckedCommitted'
  <2> SUFFICES ASSUME TypeOK, AckedCommitted, [Next]_vars, NEW x \in acked'
               PROVE  \E i \in DOMAIN log' : log'[i].id = x
    BY DEF AckedCommitted
  <2>1. \E i \in DOMAIN log : log[i].id = x
    <3>1. CASE x \in acked
      BY <3>1 DEF AckedCommitted
    <3>2. CASE x \notin acked
      <4>1. PICK n \in Node : ApplyLog(n)
        BY <3>2 DEF Next, vars, Propose, GiveUp, Commit, LeaderChange, Snapshot,
             Persist, PersistFails, Restart, InstallSnapshot, Subscribe, Receive
      <4>2. applied[n] + 1 \in DOMAIN log
        BY <4>1 DEF ApplyLog, TypeOK
      <4> QED
        BY <3>2, <4>1, <4>2 DEF ApplyLog
    <3> QED
      BY <3>1, <3>2
  <2>2. PICK i \in DOMAIN log : log[i].id = x
    BY <2>1
  <2>3. CASE Commit
    <3>1. /\ i \in 1..Len(log) /\ Len(log) \in Nat
          /\ Head(uncommitted) \in Entry /\ log' \in Seq(Entry)
      BY <2>3 DEF Commit, TypeOK
    <3>2. i \in DOMAIN log' /\ log'[i] = log[i]
      BY <2>3, <3>1, CommitHist
    <3> QED
      BY <2>2, <3>2
  <2>4. CASE UNCHANGED <<log, hist>>
    BY <2>2, <2>4
  <2> QED
    BY <2>3, <2>4, LogGrows
<1> QED
  BY <1>1, <1>2, TypeCorrect, PTL DEF Spec

-----------------------------------------------------------------------------
\* Apply never forgets a key, and records the key of what it decodes.
LEMMA ApplyKeepsKeys ==
    ASSUME NEW s \in State, NEW c \in Command, NEW i \in Nat \ {0}
    PROVE  /\ \A k \in Key : s.idem[k] # 0 => ApplyCommand(s, c, i).idem[k] # 0
           /\ (c.idem # None /\ c.form # "bad_envelope")
                => ApplyCommand(s, c, i).idem[c.idem] # 0
BY DEF State, Command, ApplyCommand, MarkedKeys, Seen

\* A command whose key is recorded changes nothing.
LEMMA SeenIsNoOp ==
    ASSUME NEW s \in State, NEW c \in Command, NEW i \in Nat, Seen(s, c)
    PROVE  ApplyCommand(s, c, i) = s
BY DEF State, Command, ApplyCommand, MarkedKeys, Effective

\* Every key that the log used is recorded in every later state.
LEMMA KeysInvariant == Spec => []KeysRecorded
<1>1. Init => KeysRecorded
  BY DEF Init, KeysRecorded
<1>2. TypeOK /\ KeysRecorded /\ [Next]_vars => KeysRecorded'
  <2> SUFFICES ASSUME TypeOK, KeysRecorded, [Next]_vars PROVE KeysRecorded'
    OBVIOUS
  <2>1. CASE Commit
    <3> SUFFICES ASSUME NEW i \in 0..Len(log'), NEW j \in 1..i,
                        log'[j].cmd.idem # None,
                        log'[j].cmd.form # "bad_envelope"
                 PROVE  StateAt(i)'.idem[log'[j].cmd.idem] # 0
      BY DEF KeysRecorded
    <3> DEFINE L == Len(log)
    <3>1. L \in Nat /\ Len(log') = L + 1
      BY <2>1, CommitHist DEF TypeOK
    <3>2. CASE i \in 0..L
      <4>1. StateAt(i)' = StateAt(i) /\ log'[j] = log[j]
        BY <2>1, <3>1, <3>2, CommitHist
      <4> QED
        BY <3>2, <4>1 DEF KeysRecorded
    <3>3. CASE i = L + 1
      <4> DEFINE c == log'[L + 1].cmd
      <4>1. StateAt(i)' = hist'[L + 1]
        BY <3>1, <3>3 DEF StateAt
      <4>2. hist'[L + 1] = ApplyCommand(StateAt(L), c, L + 1)
        BY <2>1, CommitHist
      <4>3. StateAt(L) \in State
        BY <3>1, StateAtType
      <4>4. log' \in Seq(Entry)
        BY TypeStep DEF TypeOK
      <4>5. c \in Command
        <5>1. log'[L + 1] \in Entry
          BY <3>1, <4>4
        <5> QED
          BY <5>1, RaftFSMAssumption DEF Entry
      <4>6. CASE j = L + 1
        BY <3>1, <4>1, <4>2, <4>3, <4>5, <4>6, ApplyKeepsKeys
      <4>7. CASE j \in 1..L
        <5>1. log'[j] = log[j]
          BY <2>1, <4>7, CommitHist
        <5>2. log'[j].cmd.idem \in Key
          <6>1. log'[j] \in Entry
            BY <3>1, <4>4, <4>7
          <6>2. log'[j].cmd \in Command
            BY <6>1, RaftFSMAssumption DEF Entry
          <6> QED
            BY <6>2 DEF Command
        <5>3. StateAt(L).idem[log'[j].cmd.idem] # 0
          BY <3>1, <4>7, <5>1 DEF KeysRecorded
        <5> QED
          BY <3>1, <4>1, <4>2, <4>3, <4>5, <5>2, <5>3, ApplyKeepsKeys
      <4> QED
        BY <3>1, <3>3, <4>6, <4>7
    <3> QED
      BY <3>1, <3>2, <3>3
  <2>2. CASE UNCHANGED <<log, hist>>
    BY <2>2 DEF KeysRecorded, StateAt
  <2> QED
    BY <2>1, <2>2, LogGrows
<1> QED
  BY <1>1, <1>2, TypeCorrect, PTL DEF Spec

\* Advancing a replica by one entry moves it to the next state of the
\* history; an entry that repeats a key finds it recorded and changes nothing,
\* also on a daemon that was restarted or restored in between.
THEOREM RetriesHaveNoEffect == Spec => RetryHasNoEffect
<1>1. ReplicaInv /\ ReplicaInv' /\ KeysRecorded /\ [Next]_vars
        => [\A n \in Node :
              (applied'[n] = applied[n] + 1 /\ RepeatsKey(applied[n] + 1))
                 => fsm'[n] = fsm[n]]_vars
  <2> SUFFICES ASSUME ReplicaInv, ReplicaInv', KeysRecorded, [Next]_vars,
                      NEW n \in Node, applied'[n] = applied[n] + 1,
                      RepeatsKey(applied[n] + 1)
               PROVE  fsm'[n] = fsm[n]
    OBVIOUS
  <2> DEFINE i == applied[n] + 1
  <2>0. TypeOK /\ TypeOK'
    BY DEF ReplicaInv
  <2>1. UNCHANGED <<log, hist>>
    <3>1. applied' # applied
      BY <2>0 DEF TypeOK
    <3>2. ~Commit
      BY <3>1 DEF Commit
    <3> QED
      BY <2>0, <3>2, LogGrows
  <2>2. i \in 1..Len(log) /\ i - 1 = applied[n] /\ i \in Nat \ {0}
        /\ applied[n] \in 0..Len(log)
    <3>1. applied[n] \in Nat /\ Len(log) \in Nat /\ applied'[n] <= Len(log')
      BY <2>0 DEF TypeOK
    <3> QED
      BY <2>1, <3>1
  <2>3. fsm[n] = StateAt(applied[n]) /\ fsm'[n] = hist[i]
    BY <2>1, <2>2 DEF ReplicaInv, CopiesFollowHist, StateAt
  <2>4. hist[i] = ApplyCommand(fsm[n], log[i].cmd, i)
    BY <2>2, <2>3 DEF ReplicaInv, HistFollowsLog
  <2>5. log[i].cmd \in Command
    <3>1. log[i] \in Entry
      BY <2>0, <2>2 DEF TypeOK
    <3> QED
      BY <3>1, RaftFSMAssumption DEF Entry
  <2>6. Seen(fsm[n], log[i].cmd)
    <3>1. PICK j \in 1..(i - 1) : /\ log[j].cmd.idem = log[i].cmd.idem
                                  /\ log[j].cmd.form # "bad_envelope"
      BY DEF RepeatsKey
    <3>2. log[i].cmd.idem # None
      BY DEF RepeatsKey
    <3> QED
      BY <2>2, <2>3, <3>1, <3>2 DEF KeysRecorded, Seen
  <2>7. fsm[n] \in State
    BY <2>0 DEF TypeOK
  <2> QED
    BY <2>2, <2>3, <2>4, <2>5, <2>6, <2>7, SeenIsNoOp
<1> QED
  BY <1>1, ReplicaInvariant, KeysInvariant, PTL DEF Spec, RetryHasNoEffect

-----------------------------------------------------------------------------
\* The event of a published command shows the row as the command left it.
LEMMA EventShowsRow ==
    ASSUME NEW s \in State, NEW c \in Command, NEW i \in Nat, Publishes(s, c)
    PROVE  LET ev == EventOf(s, c, i) IN
           ev.at = i /\ ev.row = ApplyCommand(s, c, i).tab[ev.table][ev.id]
<1>1. ApplyCommand(s, c, i).tab = Write(s.tab, c)
  BY DEF Publishes, ApplyCommand
<1>2. c.table \in Table /\ c.id \in ID /\ s.tab \in [Table -> [ID -> Row \cup {None}]]
  BY DEF Command, State
<1>3. Write(s.tab, c)[c.table][c.id] = RowAfter(s.tab[c.table][c.id], c)
  BY <1>2 DEF Write
<1> QED
  BY <1>1, <1>3 DEF EventOf

\* A faithful channel stays faithful while its daemon applies more and the
\* history keeps what it said so far.
LEMMA ChannelKept ==
    ASSUME NEW a \in Nat, NEW b \in Nat, a <= b, NEW g, NEW h,
           \A i \in 1..a : g[i] = h[i],
           NEW ch \in Seq(Event), FaithfulChannel(a, g, ch)
    PROVE  FaithfulChannel(b, h, ch)
<1>1. ASSUME NEW i \in 1..Len(ch) PROVE FaithfulEvent(b, h, ch[i])
  BY <1>1 DEF FaithfulChannel, FaithfulEvent
<1> QED
  BY <1>1 DEF FaithfulChannel

\* A faithful channel with room takes a faithful event from further on.
LEMMA ChannelAppend ==
    ASSUME NEW a \in Nat, NEW h, NEW ch \in Seq(Event), NEW ev \in Event,
           FaithfulChannel(a, h, ch), Len(ch) < BufSize, FaithfulEvent(a, h, ev),
           \A i \in 1..Len(ch) : ch[i].at < ev.at
    PROVE  FaithfulChannel(a, h, Append(ch, ev))
<1> DEFINE new == Append(ch, ev)
<1>1. /\ Len(new) = Len(ch) + 1 /\ new[Len(ch) + 1] = ev /\ Len(ch) \in Nat
      /\ \A i \in 1..Len(ch) : new[i] = ch[i]
  OBVIOUS
<1>2. Len(new) <= BufSize
  BY <1>1, RaftFSMAssumption
<1> HIDE DEF new
<1>3. ASSUME NEW i \in 1..Len(new)
      PROVE  FaithfulEvent(a, h, new[i]) /\ \A j \in 1..(i - 1) : new[j].at < new[i].at
  <2>1. CASE i \in 1..Len(ch)
    BY <1>1, <2>1 DEF FaithfulChannel
  <2>2. CASE i = Len(ch) + 1
    BY <1>1, <2>2
  <2> QED
    BY <1>1, <2>1, <2>2
<1>4. FaithfulChannel(a, h, new)
  BY <1>2, <1>3 DEF FaithfulChannel
<1> QED
  BY <1>4 DEF new

\* What a subscriber takes leaves the rest of its channel faithful.
LEMMA ChannelTail ==
    ASSUME NEW a \in Nat, NEW h, NEW ch \in Seq(Event), ch # <<>>,
           FaithfulChannel(a, h, ch)
    PROVE  FaithfulChannel(a, h, Tail(ch))
<1>1. Len(Tail(ch)) = Len(ch) - 1 /\ Len(ch) \in Nat
      /\ \A i \in 1..Len(Tail(ch)) : Tail(ch)[i] = ch[i + 1]
  OBVIOUS
<1>2. Len(Tail(ch)) <= BufSize
  BY <1>1, RaftFSMAssumption DEF FaithfulChannel
<1>3. ASSUME NEW i \in 1..Len(Tail(ch))
      PROVE  /\ FaithfulEvent(a, h, Tail(ch)[i])
             /\ \A j \in 1..(i - 1) : Tail(ch)[j].at < Tail(ch)[i].at
  <2>1. i + 1 \in 1..Len(ch)
    BY <1>1
  <2>2. FaithfulEvent(a, h, ch[i + 1]) /\ \A j \in 1..i : ch[j].at < ch[i + 1].at
    BY <2>1 DEF FaithfulChannel
  <2> QED
    BY <1>1, <2>1, <2>2
<1> QED
  BY <1>2, <1>3 DEF FaithfulChannel

\* EventsFaithful is inductive relative to ReplicaInv.
LEMMA EventsStep ==
    ReplicaInv /\ ReplicaInv' /\ EventsFaithful /\ [Next]_vars => EventsFaithful'
<1> SUFFICES ASSUME ReplicaInv, ReplicaInv', EventsFaithful, [Next]_vars
             PROVE  EventsFaithful'
  OBVIOUS
<1>0. TypeOK /\ TypeOK' /\ HistFollowsLog /\ CopiesFollowHist
  BY DEF ReplicaInv
<1>t. ASSUME NEW m \in Node
      PROVE  /\ subs[m] \in Seq(Seq(Event)) /\ DOMAIN subs[m] = 1..Len(subs[m])
             /\ \A k \in DOMAIN subs[m] : subs[m][k] \in Seq(Event)
             /\ applied[m] \in Nat /\ applied'[m] \in Nat
  <2>1. subs[m] \in Seq(Seq(Event))
    BY <1>0 DEF TypeOK
  <2> QED
    BY <1>0, <2>1 DEF TypeOK
\* The history keeps what it said.
<1>h. \A i \in 1..Len(log) : hist[i] = hist'[i]
  <2>1. CASE Commit
    <3>1. \A i \in 0..Len(log) : StateAt(i)' = StateAt(i)
      BY <1>0, <2>1, CommitHist
    <3> QED
      BY <3>1 DEF StateAt
  <2>2. CASE ~Commit
    BY <1>0, <2>2, LogGrows
  <2> QED
    BY <2>1, <2>2
<1>i. \A m \in Node : \A i \in 1..applied[m] : hist[i] = hist'[i]
  BY <1>0, <1>h DEF TypeOK
\* A daemon that falls back by no entry keeps its channels faithful.
<1>k. ASSUME NEW m \in Node, applied[m] <= applied'[m], subs'[m] = subs[m]
      PROVE  \A k \in DOMAIN subs'[m] : FaithfulChannel(applied'[m], hist', subs'[m][k])
  <2> SUFFICES ASSUME NEW k \in DOMAIN subs[m]
               PROVE  FaithfulChannel(applied'[m], hist', subs[m][k])
    BY <1>k
  <2>1. FaithfulChannel(applied[m], hist, subs[m][k]) /\ subs[m][k] \in Seq(Event)
    BY <1>t DEF EventsFaithful
  <2> QED
    BY <1>i, <1>t, <1>k, <2>1, ChannelKept
<1>u. ASSUME UNCHANGED <<applied, subs>> PROVE EventsFaithful'
  <2>1. \A m \in Node : applied[m] <= applied'[m] /\ subs'[m] = subs[m]
    BY <1>u, <1>t
  <2> QED
    BY <1>k, <2>1, Zenon DEF EventsFaithful
<1>1. ASSUME NEW n \in Node, NEW c \in Input, Propose(n, c) PROVE EventsFaithful'
  BY <1>1, <1>u DEF Propose
<1>2. ASSUME NEW w \in waiting, GiveUp(w) PROVE EventsFaithful'
  BY <1>2, <1>u DEF GiveUp
<1>3. CASE Commit
  BY <1>3, <1>u DEF Commit
<1>4. ASSUME NEW n \in Node, NEW k \in 0..Len(uncommitted), LeaderChange(n, k)
      PROVE  EventsFaithful'
  BY <1>4, <1>u DEF LeaderChange
<1>5. ASSUME NEW n \in Node, ApplyLog(n) PROVE EventsFaithful'
  <2> DEFINE i == applied[n] + 1
             e == log[i]
             ev == EventOf(fsm[n], e.cmd, i)
  <2>1. i \in 1..Len(log) /\ i \in Nat /\ e \in Entry /\ applied'[n] = i
    BY <1>0, <1>5 DEF ApplyLog, TypeOK
  <2>2. e.cmd \in Command /\ fsm[n] \in State
    BY <1>0, <2>1, RaftFSMAssumption DEF Entry, TypeOK
  <2>3. \A m \in Node : applied[m] <= applied'[m]
    BY <1>0, <1>5 DEF ApplyLog, TypeOK
  <2>4. ASSUME NEW m \in Node, m # n
        PROVE  \A k \in DOMAIN subs'[m] : FaithfulChannel(applied'[m], hist', subs'[m][k])
    <3>1. subs'[m] = subs[m]
      BY <1>0, <1>5, <2>4 DEF ApplyLog, TypeOK
    <3> QED
      BY <1>k, <2>3, <3>1
  <2>5. CASE ~Publishes(fsm[n], e.cmd)
    <3>1. subs' = subs
      BY <1>5, <2>5 DEF ApplyLog
    <3> QED
      BY <1>k, <2>3, <3>1 DEF EventsFaithful
  <2>6. CASE Publishes(fsm[n], e.cmd)
    <3>1. subs'[n] = Delivered(subs[n], ev)
      BY <1>0, <1>5, <2>6 DEF ApplyLog, TypeOK
    <3>2. ev \in Event
      BY <2>1, <2>2, <2>6, EventType
    <3>3. ev.at = i /\ ev.row = ApplyCommand(fsm[n], e.cmd, i).tab[ev.table][ev.id]
      BY <2>1, <2>2, <2>6, EventShowsRow
    <3>4. hist'[i] = ApplyCommand(fsm[n], e.cmd, i)
      <4>1. StateAt(i - 1) = fsm[n]
        BY <1>0, <1>t, <2>1 DEF CopiesFollowHist
      <4>2. hist[i] = ApplyCommand(fsm[n], e.cmd, i)
        BY <1>0, <2>1, <4>1 DEF HistFollowsLog
      <4> QED
        BY <1>h, <2>1, <4>2
    <3> HIDE DEF ev
    <3>5. FaithfulEvent(applied'[n], hist', ev)
      BY <2>1, <3>3, <3>4 DEF FaithfulEvent
    <3>6. ASSUME NEW k \in DOMAIN subs[n]
          PROVE  FaithfulChannel(applied'[n], hist', Delivered(subs[n], ev)[k])
      <4>1. FaithfulChannel(applied[n], hist, subs[n][k]) /\ subs[n][k] \in Seq(Event)
        BY <1>t DEF EventsFaithful
      <4>2. FaithfulChannel(applied'[n], hist', subs[n][k])
        BY <1>i, <1>t, <2>3, <4>1, ChannelKept
      <4>3. CASE Len(subs[n][k]) < BufSize
        <5>1. \A j \in 1..Len(subs[n][k]) : subs[n][k][j].at < ev.at
          <6>1. \A j \in 1..Len(subs[n][k]) : subs[n][k][j].at \in 1..applied[n]
            BY <4>1 DEF FaithfulChannel, FaithfulEvent
          <6> QED
            BY <1>t, <3>3, <6>1
        <5>2. FaithfulChannel(applied'[n], hist', Append(subs[n][k], ev))
          BY <1>t, <3>2, <3>5, <4>1, <4>2, <4>3, <5>1, ChannelAppend
        <5> QED
          BY <4>3, <5>2 DEF Delivered
      <4>4. CASE ~(Len(subs[n][k]) < BufSize)
        BY <4>2, <4>4 DEF Delivered
      <4> QED
        BY <4>3, <4>4
    <3>7. DOMAIN subs'[n] = DOMAIN subs[n]
      BY <3>1 DEF Delivered
    <3>8. \A k \in DOMAIN subs'[n] : FaithfulChannel(applied'[n], hist', subs'[n][k])
      BY <3>1, <3>6, <3>7
    <3> QED
      BY <2>4, <3>8 DEF EventsFaithful
  <2> QED
    BY <2>5, <2>6
<1>6. ASSUME NEW n \in Node, Snapshot(n) PROVE EventsFaithful'
  BY <1>6, <1>u DEF Snapshot
<1>7. ASSUME NEW n \in Node, Persist(n) PROVE EventsFaithful'
  BY <1>7, <1>u DEF Persist
<1>8. ASSUME NEW n \in Node, PersistFails(n) PROVE EventsFaithful'
  BY <1>8, <1>u DEF PersistFails
<1>9. ASSUME NEW n \in Node, Restart(n) PROVE EventsFaithful'
  <2>1. subs'[n] = <<>> /\ \A m \in Node \ {n} : subs'[m] = subs[m] /\ applied'[m] = applied[m]
    BY <1>0, <1>9 DEF Restart, TypeOK
  <2>2. ASSUME NEW m \in Node \ {n}
        PROVE  \A k \in DOMAIN subs'[m] : FaithfulChannel(applied'[m], hist', subs'[m][k])
    BY <1>k, <1>t, <2>1
  <2> QED
    BY <2>1, <2>2 DEF EventsFaithful
<1>10. ASSUME NEW n \in Node, InstallSnapshot(n) PROVE EventsFaithful'
  <2>1. subs' = subs
    BY <1>10 DEF InstallSnapshot
  <2>2. store[leader].index \in Nat /\ store[leader].index > applied[n]
        /\ applied' = [applied EXCEPT ![n] = store[leader].index]
    BY <1>0, <1>10 DEF InstallSnapshot, TypeOK, SnapshotRecord
  <2>3. \A m \in Node : applied[m] <= applied'[m]
    <3> SUFFICES ASSUME NEW m \in Node PROVE applied[m] <= applied'[m]
      OBVIOUS
    <3>1. applied[m] \in Nat /\ applied[n] \in Nat /\ applied \in [Node -> Nat]
      BY <1>0 DEF TypeOK
    <3>2. applied'[m] = IF m = n THEN store[leader].index ELSE applied[m]
      BY <2>2, <3>1
    <3> QED
      BY <2>2, <3>1, <3>2
  <2> QED
    BY <1>k, <2>1, <2>3 DEF EventsFaithful
<1>11. ASSUME NEW n \in Node, Subscribe(n) PROVE EventsFaithful'
  <2>1. applied' = applied /\ subs'[n] = Append(subs[n], <<>>)
        /\ \A m \in Node \ {n} : subs'[m] = subs[m]
    BY <1>0, <1>11 DEF Subscribe, TypeOK
  <2>2. ASSUME NEW m \in Node \ {n}
        PROVE  \A k \in DOMAIN subs'[m] : FaithfulChannel(applied'[m], hist', subs'[m][k])
    BY <1>k, <1>t, <2>1
  <2>3. ASSUME NEW k \in DOMAIN subs'[n] PROVE FaithfulChannel(applied'[n], hist', subs'[n][k])
    <3>1. CASE k \in DOMAIN subs[n]
      <4>1. subs'[n][k] = subs[n][k] /\ subs[n][k] \in Seq(Event)
            /\ FaithfulChannel(applied[n], hist, subs[n][k])
        BY <1>t, <2>1, <3>1 DEF EventsFaithful
      <4>2. FaithfulChannel(applied'[n], hist', subs[n][k])
        <5>1. applied[n] <= applied'[n]
          BY <1>t, <2>1
        <5> QED
          BY <1>i, <1>t, <4>1, <5>1, ChannelKept
      <4> QED
        BY <4>1, <4>2
    <3>2. CASE k \notin DOMAIN subs[n]
      <4>1. subs'[n][k] = <<>>
        BY <1>t, <2>1, <2>3, <3>2
      <4>2. Len(<<>>) = 0 /\ 1..0 = {} /\ 0 <= BufSize
        BY RaftFSMAssumption
      <4>3. FaithfulChannel(applied'[n], hist', <<>>)
        BY <4>2 DEF FaithfulChannel
      <4> QED
        BY <4>1, <4>3
    <3> QED
      BY <3>1, <3>2
  <2> QED
    BY <2>2, <2>3 DEF EventsFaithful
<1>12. ASSUME NEW n \in Node, NEW k \in DOMAIN subs[n], Receive(n, k)
       PROVE  EventsFaithful'
  <2>1. applied' = applied /\ subs'[n] = [subs[n] EXCEPT ![k] = Tail(subs[n][k])]
        /\ subs[n][k] # <<>> /\ \A m \in Node \ {n} : subs'[m] = subs[m]
    BY <1>0, <1>12 DEF Receive, TypeOK
  <2>2. ASSUME NEW m \in Node \ {n}
        PROVE  \A j \in DOMAIN subs'[m] : FaithfulChannel(applied'[m], hist', subs'[m][j])
    BY <1>k, <1>t, <2>1
  <2>3. ASSUME NEW j \in DOMAIN subs[n]
        PROVE  subs[n][j] \in Seq(Event) /\ FaithfulChannel(applied'[n], hist', subs[n][j])
    <3>1. subs[n][j] \in Seq(Event) /\ FaithfulChannel(applied[n], hist, subs[n][j])
      BY <1>t DEF EventsFaithful
    <3>2. applied[n] <= applied'[n]
      BY <1>t, <2>1
    <3> QED
      BY <1>i, <1>t, <3>1, <3>2, ChannelKept
  <2>4. FaithfulChannel(applied'[n], hist', Tail(subs[n][k]))
    BY <1>t, <2>1, <2>3, ChannelTail
  <2>5. ASSUME NEW j \in DOMAIN subs'[n] PROVE FaithfulChannel(applied'[n], hist', subs'[n][j])
    <3>1. j \in DOMAIN subs[n]
          /\ subs'[n][j] = IF j = k THEN Tail(subs[n][k]) ELSE subs[n][j]
      BY <2>1
    <3> QED
      BY <2>3, <2>4, <3>1
  <2> QED
    BY <2>2, <2>5 DEF EventsFaithful
<1>13. CASE UNCHANGED vars
  BY <1>13, <1>u DEF vars
<1> QED
  BY <1>1, <1>2, <1>3, <1>4, <1>5, <1>6, <1>7, <1>8, <1>9, <1>10, <1>11,
     <1>12, <1>13 DEF Next

\* A subscriber of the FSM, however slow, sees only events the daemon applied,
\* in log order and with the row the entry left, through elections, restarts
\* and snapshot installs: what it misses is a gap, never a reordering.
THEOREM SubscribersSeeTheLog == Spec => []EventsFaithful
<1>1. Init => EventsFaithful
  BY DEF Init, EventsFaithful
<1> QED
  BY <1>1, EventsStep, ReplicaInvariant, PTL DEF Spec
=============================================================================
