--------------------------- MODULE Routing_proofs ---------------------------
(***************************************************************************)
(* Proofs about Routing, for every set of servers, names and addresses,    *)
(* whichever servers share a name, every capacity of the channels and      *)
(* every bound: the types, the collector that survives, the table that     *)
(* follows the records, and the refinement of RouteTable.                  *)
(***************************************************************************)
EXTENDS Routing, SequenceTheorems, FiniteSetTheorems, TLAPS

NoRecord == [state |-> "Absent", addr |-> None]

Message == [srv : Server, state : Translated, addr : Addr]

EventRecord == [kind : {"upsert", "set_state", "set_host", "remove"}, srv : Server,
                state : ServerState \cup {"Absent"}, addr : Addr \cup {None}]

\* The types, as sequences and functions.
RoutingTypes ==
    /\ rec \in [Server -> Record \cup {NoRecord}]
    /\ events \in Seq(EventRecord) /\ Len(events) <= Buffer
    /\ \A i \in 1..Len(events) : events[i].kind = "upsert" => events[i].addr \in Addr
    /\ wire \in Seq(Message) /\ Len(wire) <= Window
    /\ stream \in {"down", "registered", "initial", "loop"}
    /\ toSend \subseteq [srv : Server, state : {"Ready"}, addr : Addr]
    /\ table \in [Name -> Addr \cup {None}]
    /\ alive \in BOOLEAN
    /\ status \in [Server -> {"told", "lost", "missed"}]
    /\ readyAt \in [Name -> SUBSET Addr]
    /\ gone \subseteq Name

\* What a message, an event or a record may say of a server.
Vouched(m) == /\ m.state = "Ready" => m.addr \in readyAt[NameOf[m.srv]]
              /\ m.state \in Ended => NameOf[m.srv] \in gone

\* Whatever is on its way to the plugin was true of its server at some time,
\* and a name is bound to an address at which one of its servers was Ready.
HistoryInv ==
    /\ \A s \in Server : /\ rec[s].state = "Ready" => rec[s].addr \in readyAt[NameOf[s]]
                         /\ rec[s].state \in Ended => NameOf[s] \in gone
    /\ \A i \in 1..Len(events) : Vouched(events[i])
    /\ \A m \in toSend : Vouched(m)
    /\ \A i \in 1..Len(wire) : Vouched(wire[i])
    /\ \A n \in Name : table[n] = None \/ table[n] \in readyAt[n]

\* A dead collector has met a name at two addresses.
CollectorInv ==
    /\ \A n \in Name : IsFiniteSet(readyAt[n])
    /\ alive \/ \E n \in Name : \E a, b \in readyAt[n] : a # b

\* i is the last element of q about s.
LastAbout(q, s, i) == q[i].srv = s /\ \A j \in i+1..Len(q) : q[j].srv # s

About(q, s) == \E i \in 1..Len(q) : q[i].srv = s
Initial(s) == \E m \in toSend : m.srv = s

Says(m, s) == m.state = rec[s].state /\ m.addr = rec[s].addr

\* The newest word about s that is still on its way is its record.
Newest(s) ==
    /\ \A i \in 1..Len(events) :
          LastAbout(events, s, i) => Says(events[i], s) /\ Carried(events[i].kind, events[i])
    /\ ~About(events, s) => \A m \in toSend : m.srv = s => Says(m, s)
    /\ ~About(events, s) /\ ~Initial(s) =>
          \A i \in 1..Len(wire) : LastAbout(wire, s, i) => Says(wire[i], s)
    /\ ~About(events, s) /\ ~Initial(s) /\ ~About(wire, s) /\ alive /\ Sole(s) =>
          /\ rec[s].state = "Ready" => table[NameOf[s]] = rec[s].addr
          /\ rec[s].state \in Ended => table[NameOf[s]] = None

\* For every server whose last change is not lost or missed.
ToldInv ==
    /\ stream # "initial" => toSend = {}
    /\ stream = "down" => events = <<>>
    /\ \A s \in Server : status[s] = "told" => Newest(s)

-----------------------------------------------------------------------------
\* Every command or restore is a Change to a record of the right type, and an
\* upsert writes a whole record.
LEMMA RecordSteps ==
    ASSUME RoutingTypes, NEW s \in Server,
           Upsert(s) \/ SetState(s) \/ SetHost(s) \/ RemoveRecord(s) \/ RestoreRecord(s)
    PROVE  \E r \in Record \cup {NoRecord},
              kind \in {"upsert", "set_state", "set_host", "remove", "restore"} :
                 Change(s, r, kind) /\ (kind = "upsert" => r \in Record)
<1>1. CASE Upsert(s)
  BY <1>1 DEF Upsert
<1>2. CASE SetState(s)
  <2>1. PICK st \in InputState : Change(s, [rec[s] EXCEPT !.state = st], "set_state")
    BY <1>2 DEF SetState
  <2>2. [rec[s] EXCEPT !.state = st] \in Record
    BY <1>2 DEF SetState, RoutingTypes, NoRecord, Record
  <2> QED
    BY <2>1, <2>2
<1>3. CASE SetHost(s)
  <2>1. PICK a \in Addr : Change(s, [rec[s] EXCEPT !.addr = a], "set_host")
    BY <1>3 DEF SetHost
  <2>2. [rec[s] EXCEPT !.addr = a] \in Record
    BY <1>3 DEF SetHost, RoutingTypes, NoRecord, Record
  <2> QED
    BY <2>1, <2>2
<1>4. CASE RemoveRecord(s)
  BY <1>4 DEF RemoveRecord, NoRecord
<1>5. CASE RestoreRecord(s)
  BY <1>5 DEF RestoreRecord
<1> QED
  BY <1>1, <1>2, <1>3, <1>4, <1>5

\* The types hold in the initial state.
LEMMA RoutingTypesInit == RoutingInit => RoutingTypes
BY RoutingAssumption DEF RoutingInit, RoutingTypes, NoRecord

\* Every step keeps the types.
LEMMA RoutingTypesStep == RoutingTypes /\ [RoutingNext]_routingVars => RoutingTypes'
<1> SUFFICES ASSUME RoutingTypes, [RoutingNext]_routingVars PROVE RoutingTypes'
  OBVIOUS
<1> USE RoutingAssumption
<1>1. CASE UNCHANGED routingVars
  BY <1>1 DEF routingVars, RoutingTypes
<1>2. ASSUME NEW s \in Server, NEW r \in Record \cup {NoRecord},
             NEW kind \in {"upsert", "set_state", "set_host", "remove", "restore"},
             Change(s, r, kind), kind = "upsert" => r \in Record
      PROVE  RoutingTypes'
  <2> DEFINE e == [kind |-> kind, srv |-> s, state |-> r.state, addr |-> r.addr]
  <2>1. r.state \in ServerState \cup {"Absent"} /\ r.addr \in Addr \cup {None}
        /\ (kind = "upsert" => r.addr \in Addr) /\ (r.state = "Ready" => r.addr \in Addr)
    BY <1>2 DEF Record, NoRecord
  <2>2. kind # "restore" => e \in EventRecord
    BY <2>1 DEF EventRecord
  <2>3. /\ events' \in Seq(EventRecord) /\ Len(events') <= Buffer
        /\ \A i \in 1..Len(events') : events'[i].kind = "upsert" => events'[i].addr \in Addr
    <3>1. CASE events' = events
      BY <3>1 DEF RoutingTypes
    <3>2. CASE events' = Append(events, e) /\ kind # "restore" /\ Len(events) < Buffer
      <4>1. e \in EventRecord /\ (e.kind = "upsert" => e.addr \in Addr)
        BY <3>2, <2>1, <2>2
      <4> HIDE DEF e
      <4> QED
        BY <3>2, <4>1 DEF RoutingTypes
    <3> QED
      BY <1>2, <3>1, <3>2 DEF Change
  <2>4. readyAt' \in [Name -> SUBSET Addr] /\ gone' \subseteq Name
    BY <1>2, <2>1 DEF Change, RoutingTypes
  <2>5. rec' \in [Server -> Record \cup {NoRecord}]
    BY <1>2 DEF Change, RoutingTypes
  <2>6. status' \in [Server -> {"told", "lost", "missed"}]
    BY <1>2 DEF Change, RoutingTypes
  <2> QED
    BY <1>2, <2>3, <2>4, <2>5, <2>6 DEF Change, RoutingTypes
<1>3. CASE Open
  BY <1>3 DEF Open, records, RoutingTypes
<1>4. CASE ReadServers
  <2>1. \A s \in Server : rec[s].state = "Ready" => rec[s].addr \in Addr
    BY DEF RoutingTypes, Record, NoRecord
  <2>2. toSend' \subseteq [srv : Server, state : {"Ready"}, addr : Addr]
    BY <1>4, <2>1 DEF ReadServers
  <2>3. status' \in [Server -> {"told", "lost", "missed"}]
    BY <1>4 DEF ReadServers, RoutingTypes
  <2> QED
    BY <1>4, <2>2, <2>3 DEF ReadServers, RoutingTypes
<1>5. CASE SendInitial
  <2>1. [srv : Server, state : {"Ready"}, addr : Addr] \subseteq Message
    BY DEF Message, Translated, ServerState
  <2>2. wire' \in Seq(Message) /\ Len(wire') <= Window
    <3>1. CASE wire' = wire
      BY <3>1 DEF RoutingTypes
    <3>2. ASSUME NEW m \in toSend, Len(wire) < Window, wire' = Append(wire, m)
          PROVE  wire' \in Seq(Message) /\ Len(wire') <= Window
      <4>1. m \in Message
        BY <2>1 DEF RoutingTypes
      <4> QED
        BY <3>2, <4>1 DEF RoutingTypes
    <3> QED
      BY <1>5, <3>1, <3>2 DEF SendInitial
  <2> QED
    BY <1>5, <2>2 DEF SendInitial, records, RoutingTypes
<1>6. CASE Forward
  <2> DEFINE e == Head(events)
             m == [srv |-> e.srv, state |-> e.state, addr |-> e.addr]
  <2>1. e = events[1] /\ e \in EventRecord /\ 1 \in 1..Len(events)
        /\ Tail(events) \in Seq(EventRecord) /\ Len(Tail(events)) = Len(events) - 1
        /\ \A i \in 1..Len(events) - 1 : Tail(events)[i] = events[i + 1]
    BY <1>6, HeadTailProperties DEF Forward, RoutingTypes
  <2>2. Carried(e.kind, e) => m \in Message
    BY <2>1 DEF RoutingTypes, Carried, Message, EventRecord
  <2>3. wire' \in Seq(Message) /\ Len(wire') <= Window
    <3>1. CASE wire' = wire
      BY <3>1 DEF RoutingTypes
    <3>2. CASE m \in Message /\ Len(wire) < Window /\ wire' = Append(wire, m)
      <4> HIDE DEF m
      <4> QED
        BY <3>2 DEF RoutingTypes
    <3> QED
      BY <1>6, <2>2, <3>1, <3>2 DEF Forward
  <2>4. /\ events' \in Seq(EventRecord) /\ Len(events') <= Buffer
        /\ \A i \in 1..Len(events') : events'[i].kind = "upsert" => events'[i].addr \in Addr
    <3> HIDE DEF e, m
    <3>1. events' = Tail(events)
      BY <1>6 DEF Forward
    <3>2. /\ Len(events) \in Nat /\ Len(events) <= Buffer /\ Buffer \in Nat
          /\ \A i \in 1..Len(events) : events[i].kind = "upsert" => events[i].addr \in Addr
      BY DEF RoutingTypes
    <3>3. events' \in Seq(EventRecord) /\ Len(events') = Len(events) - 1
      BY <2>1, <3>1
    <3>4. Len(events') <= Buffer
      BY <3>2, <3>3
    <3>5. ASSUME NEW i \in 1..Len(events'), events'[i].kind = "upsert"
          PROVE  events'[i].addr \in Addr
      <4>1. i \in 1..Len(events) - 1 /\ i + 1 \in 1..Len(events)
        BY <3>2, <3>3
      <4>2. events'[i] = events[i + 1]
        BY <2>1, <3>1, <4>1
      <4> QED
        BY <3>2, <3>5, <4>1, <4>2
    <3> QED
      BY <3>3, <3>4, <3>5
  <2> QED
    BY <1>6, <2>3, <2>4 DEF Forward, records, RoutingTypes
<1>7. CASE Break
  <2>1. PICK k \in 0..Len(wire) : wire' = SubSeq(wire, 1, k)
    BY <1>7 DEF Break
  <2>2. wire' \in Seq(Message) /\ Len(wire') <= Window
    BY <2>1, SubSeqProperties DEF RoutingTypes
  <2>3. status' \in [Server -> {"told", "lost", "missed"}]
    BY <1>7 DEF Break, RoutingTypes
  <2> QED
    BY <1>7, <2>2, <2>3 DEF Break, RoutingTypes
<1>8. CASE Handle
  <2>1. Head(wire) \in Message /\ Tail(wire) \in Seq(Message) /\ Len(Tail(wire)) = Len(wire) - 1
    BY <1>8, HeadTailProperties DEF Handle, RoutingTypes
  <2>2. table' \in [Name -> Addr \cup {None}]
    BY <1>8, <2>1 DEF Handle, RoutingTypes, Message
  <2> QED
    BY <1>8, <2>1, <2>2 DEF Handle, records, RoutingTypes
<1> QED
  BY <1>1, <1>2, <1>3, <1>4, <1>5, <1>6, <1>7, <1>8, RecordSteps DEF RoutingNext, StreamStep

-----------------------------------------------------------------------------
\* Everything on its way stays vouched for when the history grows, and every
\* step puts only what is vouched for on its way.
LEMMA HistoryStep ==
    RoutingTypes /\ HistoryInv /\ [RoutingNext]_routingVars => HistoryInv'
<1> SUFFICES ASSUME RoutingTypes, HistoryInv, [RoutingNext]_routingVars PROVE HistoryInv'
  OBVIOUS
<1> USE DEF Vouched
<1>1. CASE UNCHANGED routingVars
  BY <1>1 DEF routingVars, HistoryInv
<1>2. ASSUME NEW s \in Server, NEW r \in Record \cup {NoRecord},
             NEW kind \in {"upsert", "set_state", "set_host", "remove", "restore"},
             Change(s, r, kind)
      PROVE  HistoryInv'
  <2> DEFINE e == [kind |-> kind, srv |-> s, state |-> r.state, addr |-> r.addr]
  <2>0. \A t \in Server : NameOf[t] \in Name
    BY RoutingAssumption
  <2>1. /\ \A n \in Name : readyAt[n] \subseteq readyAt'[n]
        /\ gone \subseteq gone'
        /\ r.state = "Ready" => r.addr \in readyAt'[NameOf[s]]
        /\ r.state \in Ended => NameOf[s] \in gone'
    BY <1>2, <2>0 DEF Change, RoutingTypes
  <2>2. ASSUME NEW t \in Server
        PROVE  /\ rec'[t].state = "Ready" => rec'[t].addr \in readyAt'[NameOf[t]]
               /\ rec'[t].state \in Ended => NameOf[t] \in gone'
    BY <1>2, <2>0, <2>1 DEF Change, RoutingTypes, HistoryInv
  <2>3. \A n \in Name : table'[n] = None \/ table'[n] \in readyAt'[n]
    BY <1>2, <2>1 DEF Change, HistoryInv
  <2>4. ASSUME NEW i \in 1..Len(events') PROVE Vouched(events[i])'
    <3>0. \A j \in 1..Len(events) : events[j] \in EventRecord /\ Vouched(events[j])
      BY DEF RoutingTypes, HistoryInv
    <3>1. CASE i \in 1..Len(events) /\ events'[i] = events[i]
      BY <3>0, <3>1, <2>0, <2>1 DEF EventRecord
    <3>2. CASE events'[i] = e
      BY <3>2, <2>1
    <3> QED
      BY <1>2, <3>1, <3>2 DEF Change, RoutingTypes
  <2>5. ASSUME NEW m \in toSend' PROVE Vouched(m)'
    BY <1>2, <2>0, <2>1, <2>5 DEF Change, RoutingTypes, HistoryInv
  <2>6. ASSUME NEW i \in 1..Len(wire') PROVE Vouched(wire[i])'
    <3>1. wire' = wire /\ wire[i] \in Message /\ Vouched(wire[i])
      BY <1>2, <2>6 DEF Change, RoutingTypes, HistoryInv
    <3> QED
      BY <3>1, <2>0, <2>1 DEF Message
  <2> QED
    BY <2>2, <2>3, <2>4, <2>5, <2>6 DEF HistoryInv
<1>3. CASE Open
  BY <1>3 DEF Open, records, HistoryInv
<1>4. CASE ReadServers
  <2>1. \A m \in toSend' : Vouched(m)'
    BY <1>4 DEF ReadServers, HistoryInv
  <2> QED
    BY <1>4, <2>1 DEF ReadServers, HistoryInv
<1>5. CASE SendInitial
  <2>1. \A i \in 1..Len(wire') : Vouched(wire[i])'
    <3>0. readyAt' = readyAt /\ gone' = gone
      BY <1>5 DEF SendInitial, records
    <3>1. CASE wire' = wire
      BY <3>0, <3>1 DEF HistoryInv
    <3>2. ASSUME NEW m \in toSend, wire' = Append(wire, m)
          PROVE  \A i \in 1..Len(wire') : Vouched(wire[i])'
      <4>1. Vouched(m)
        BY DEF HistoryInv
      <4> QED
        BY <3>0, <3>2, <4>1 DEF HistoryInv, RoutingTypes
    <3> QED
      BY <1>5, <3>1, <3>2 DEF SendInitial
  <2>2. toSend' \subseteq toSend
    BY <1>5 DEF SendInitial
  <2> QED
    BY <1>5, <2>1, <2>2 DEF SendInitial, records, HistoryInv
<1>6. CASE Forward
  <2> DEFINE e == Head(events)
             m == [srv |-> e.srv, state |-> e.state, addr |-> e.addr]
  <2>1. e = events[1] /\ 1 \in 1..Len(events)
        /\ Len(Tail(events)) = Len(events) - 1
        /\ \A i \in 1..Len(events) - 1 : Tail(events)[i] = events[i + 1]
    BY <1>6, HeadTailProperties DEF Forward, RoutingTypes
  <2>2. Vouched(m)
    BY <2>1 DEF HistoryInv
  <2>3. \A i \in 1..Len(events') : Vouched(events[i])'
    <3> HIDE DEF e, m
    <3>1. events' = Tail(events) /\ UNCHANGED <<readyAt, gone>> /\ Len(events) \in Nat
      BY <1>6 DEF Forward, records, RoutingTypes
    <3>2. \A i \in 1..Len(events') : i + 1 \in 1..Len(events) /\ events'[i] = events[i + 1]
      BY <2>1, <3>1
    <3>3. \A i \in 1..Len(events) : Vouched(events[i])
      BY DEF HistoryInv
    <3> QED
      BY <3>1, <3>2, <3>3
  <2>4. \A i \in 1..Len(wire') : Vouched(wire[i])'
    <3>0. readyAt' = readyAt /\ gone' = gone
      BY <1>6 DEF Forward, records
    <3>1. CASE wire' = wire
      BY <3>0, <3>1 DEF HistoryInv
    <3>2. CASE wire' = Append(wire, m)
      <4> HIDE DEF m
      <4> QED
        BY <3>0, <3>2, <2>2 DEF HistoryInv, RoutingTypes
    <3> QED
      BY <1>6, <3>1, <3>2 DEF Forward
  <2> QED
    BY <1>6, <2>3, <2>4 DEF Forward, records, HistoryInv
<1>7. CASE Break
  <2>1. PICK k \in 0..Len(wire) : wire' = SubSeq(wire, 1, k)
    BY <1>7 DEF Break
  <2>2. \A i \in 1..Len(wire') : i \in 1..Len(wire) /\ wire'[i] = wire[i]
    BY <2>1, SubSeqProperties DEF RoutingTypes
  <2> QED
    BY <1>7, <2>2 DEF Break, HistoryInv
<1>8. CASE Handle
  <2>1. Head(wire) = wire[1] /\ 1 \in 1..Len(wire) /\ wire[1] \in Message
        /\ Len(Tail(wire)) = Len(wire) - 1
        /\ \A i \in 1..Len(wire) - 1 : Tail(wire)[i] = wire[i + 1]
    BY <1>8, HeadTailProperties DEF Handle, RoutingTypes
  <2>2. \A i \in 1..Len(wire') : Vouched(wire[i])'
    BY <1>8, <2>1 DEF Handle, records, HistoryInv, RoutingTypes
  <2>3. \A n \in Name : table'[n] = None \/ table'[n] \in readyAt[n]
    <3> DEFINE m == Head(wire)
               x == NameOf[m.srv]
    <3>1. x \in Name /\ Vouched(m)
      BY <2>1, RoutingAssumption DEF HistoryInv, Message
    <3>2. table' = [table EXCEPT ![x] = CASE m.state = "Ready" /\ @ = None -> m.addr
                                          [] m.state \in Ended -> None
                                          [] OTHER -> @]
      BY <1>8 DEF Handle
    <3>3. table \in [Name -> Addr \cup {None}] /\ \A n \in Name : table[n] = None \/ table[n] \in readyAt[n]
      BY DEF RoutingTypes, HistoryInv
    <3> HIDE DEF m
    <3> QED
      BY <3>1, <3>2, <3>3
  <2> QED
    BY <1>8, <2>2, <2>3 DEF Handle, records, HistoryInv
<1> QED
  BY <1>1, <1>2, <1>3, <1>4, <1>5, <1>6, <1>7, <1>8, RecordSteps DEF RoutingNext, StreamStep

\* The history holds in the initial state.
LEMMA HistoryInit == RoutingInit => HistoryInv
BY DEF RoutingInit, HistoryInv, Ended

-----------------------------------------------------------------------------
\* Only a Change writes the history, and only Handle the table and alive.
LEMMA CollectorStep ==
    RoutingTypes /\ HistoryInv /\ CollectorInv /\ [RoutingNext]_routingVars => CollectorInv'
<1> SUFFICES ASSUME RoutingTypes, HistoryInv, CollectorInv, [RoutingNext]_routingVars
             PROVE  CollectorInv'
  OBVIOUS
<1>1. CASE UNCHANGED <<alive, readyAt>>
  BY <1>1 DEF CollectorInv
<1>2. ASSUME NEW s \in Server, NEW r, NEW kind, Change(s, r, kind) PROVE CollectorInv'
  <2>1. /\ alive' = alive
        /\ \A t \in Name : readyAt[t] \subseteq readyAt'[t]
        /\ \A t \in Name : readyAt'[t] = readyAt[t] \/ readyAt'[t] = readyAt[t] \cup {r.addr}
    BY <1>2 DEF Change, RoutingTypes
  <2>2. \A t \in Name : IsFiniteSet(readyAt'[t])
    <3> TAKE t \in Name
    <3>1. IsFiniteSet(readyAt[t])
      BY DEF CollectorInv
    <3>2. IsFiniteSet(readyAt[t] \cup {r.addr})
      BY <3>1, FS_AddElement
    <3> QED
      BY <3>1, <3>2, <2>1
  <2> QED
    BY <2>1, <2>2 DEF CollectorInv
<1>3. CASE Handle
  <2> DEFINE m == Head(wire)
             n == NameOf[m.srv]
  <2>1. m = wire[1] /\ 1 \in 1..Len(wire) /\ m \in Message
    BY <1>3 DEF Handle, RoutingTypes
  <2>2. Vouched(m) /\ n \in Name /\ (table[n] = None \/ table[n] \in readyAt[n])
    BY <2>1, RoutingAssumption DEF HistoryInv, Message
  <2>3. readyAt' = readyAt /\ alive' = (m.state = "Ready" => table[n] \in {None, m.addr})
    BY <1>3 DEF Handle, records
  <2> HIDE DEF m
  <2>4. alive' \/ \E x \in Name : \E a, b \in readyAt[x] : a # b
    <3>1. ~alive' => m.addr \in readyAt[n] /\ table[n] \in readyAt[n] /\ table[n] # m.addr
      BY <2>2, <2>3 DEF Vouched
    <3> QED
      BY <2>2, <3>1
  <2> QED
    BY <2>3, <2>4 DEF CollectorInv
<1> QED
  BY <1>1, <1>2, <1>3, RecordSteps
  DEF RoutingNext, StreamStep, routingVars, records, Open, ReadServers, SendInitial, Forward,
      Break

\* The collector of the Velocity plugin survives replays, reconnects, lost
\* messages and servers that share a name: only a name that was Ready at two
\* addresses, be it one server that moved or two namesakes, ends it.
THEOREM CollectorSurvivesThm == RoutingSpec => []CollectorSurvives
<1>1. RoutingInit => CollectorInv
  BY FS_EmptySet DEF RoutingInit, CollectorInv
<1>2. CollectorInv => CollectorSurvives
  <2> SUFFICES ASSUME CollectorInv, \A n \in Name : Cardinality(readyAt[n]) <= 1, ~alive
               PROVE  FALSE
    BY DEF CollectorSurvives
  <2>1. PICK n \in Name : \E a, b \in readyAt[n] : a # b
    BY DEF CollectorInv
  <2>2. IsFiniteSet(readyAt[n]) /\ Cardinality(readyAt[n]) \in Nat
    BY FS_CardinalityType DEF CollectorInv
  <2>3. Cardinality(readyAt[n]) = 0 \/ Cardinality(readyAt[n]) = 1
    BY <2>2
  <2>4. readyAt[n] = {} \/ \E x : readyAt[n] = {x}
    BY <2>2, <2>3, FS_EmptySet, FS_Singleton
  <2> QED
    BY <2>1, <2>4
<1> QED
  BY <1>1, <1>2, RoutingTypesInit, RoutingTypesStep, HistoryInit, HistoryStep, CollectorStep, PTL
  DEF RoutingSpec

\* Records, channels, messages and the table have their types; what is on the
\* wire is what the switch of Subscribe translates.
THEOREM RoutingTypeOKThm == RoutingSpec => []RoutingTypeOK
<1>1. RoutingTypes => RoutingTypeOK
  <2> SUFFICES ASSUME RoutingTypes PROVE RoutingTypeOK
    OBVIOUS
  <2>1. \A m \in Message :
           m \in [srv : Server, addr : Addr,
                 state : {"Starting", "Ready", "Stopping", "Stopped", "Crashed"}]
    BY DEF Message, Translated, ServerState
  <2>2. \A i \in 1..Len(wire) : wire[i] \in Message
    BY DEF RoutingTypes
  <2> QED
    BY <2>1, <2>2 DEF RoutingTypes, RoutingTypeOK, NoRecord
<1> QED
  BY <1>1, RoutingTypesInit, RoutingTypesStep, PTL DEF RoutingSpec

-----------------------------------------------------------------------------
\* A step of the stream, the plugin or the records is a step of RouteTable, or
\* leaves its variables alone.
LEMMA TableStep ==
    RoutingTypes /\ HistoryInv /\ [RoutingNext]_routingVars
        => [Promise!TableNext]_<<readyAt, gone, table>>
<1> SUFFICES ASSUME RoutingTypes, HistoryInv, [RoutingNext]_routingVars
             PROVE  Promise!TableNext \/ UNCHANGED <<readyAt, gone, table>>
  OBVIOUS
<1>1. ASSUME NEW s \in Server, NEW r \in Record \cup {NoRecord}, NEW kind, Change(s, r, kind)
      PROVE  Promise!TableNext
  <2>1. r.state = "Ready" => r.addr \in Addr
    BY DEF Record, NoRecord
  <2>2. NameOf[s] \in Name /\ Promise!Recorded(NameOf[s])
    BY <1>1, <2>1, RoutingAssumption DEF Change, Promise!Recorded
  <2> QED
    BY <2>2 DEF Promise!TableNext
<1>2. CASE Handle
  <2> DEFINE m == Head(wire)
             n == NameOf[m.srv]
  <2>1. m = wire[1] /\ 1 \in 1..Len(wire) /\ m \in Message
    BY <1>2 DEF Handle, RoutingTypes
  <2>2. Vouched(m) /\ n \in Name
    BY <2>1, RoutingAssumption DEF HistoryInv, Message
  <2>3. UNCHANGED <<readyAt, gone>>
    BY <1>2 DEF Handle, records
  <2>4. CASE m.state = "Ready" /\ table[n] = None
    <3>1. table' = [table EXCEPT ![n] = m.addr]
      BY <1>2, <2>4 DEF Handle, Ended
    <3>2. Promise!Bind(n)
      BY <2>2, <2>3, <2>4, <3>1 DEF Vouched, Promise!Bind
    <3> QED
      BY <2>2, <3>2 DEF Promise!TableNext
  <2>5. CASE m.state \in Ended
    <3>1. table' = [table EXCEPT ![n] = None]
      BY <1>2, <2>5 DEF Handle, Ended
    <3>2. Promise!Free(n)
      BY <2>2, <2>3, <2>5, <3>1 DEF Vouched, Promise!Free
    <3> QED
      BY <2>2, <3>2 DEF Promise!TableNext
  <2>6. CASE ~(m.state = "Ready" /\ table[n] = None) /\ m.state \notin Ended
    <3>1. table' = [table EXCEPT ![n] = table[n]]
      BY <1>2, <2>6 DEF Handle
    <3>2. table' = table
      BY <3>1, <2>2 DEF RoutingTypes
    <3> QED
      BY <2>3, <3>2
  <2> QED
    BY <2>4, <2>5, <2>6
<1> QED
  BY <1>1, <1>2, RecordSteps
  DEF RoutingNext, StreamStep, routingVars, records, Open, ReadServers, SendInitial, Forward,
      Break

\* Subscribe, the stream and the plugin implement RouteTable: players are sent
\* only to addresses at which a server of the name they asked for has been
\* Ready, and a name is freed only when a server of that name has stopped or
\* crashed.
THEOREM ImplementsRouteTableThm == RoutingSpec => ImplementsRouteTable
<1>1. RoutingInit => Promise!TableInit
  BY DEF RoutingInit, Promise!TableInit
<1> QED
  BY <1>1, TableStep, RoutingTypesInit, RoutingTypesStep, HistoryInit, HistoryStep, PTL
  DEF RoutingSpec, ImplementsRouteTable, Promise!TableSpec

-----------------------------------------------------------------------------
\* The last word about s in a channel after a send.
LEMMA LastOfAppend ==
    ASSUME NEW S, NEW q \in Seq(S), NEW e, NEW s
    PROVE  /\ About(Append(q, e), s) <=> About(q, s) \/ e.srv = s
           /\ \A i \in 1..Len(Append(q, e)) : LastAbout(Append(q, e), s, i) =>
                 \/ e.srv = s /\ Append(q, e)[i] = e
                 \/ /\ e.srv # s /\ i \in 1..Len(q) /\ Append(q, e)[i] = q[i]
                    /\ LastAbout(q, s, i)
<1> DEFINE p == Append(q, e)
<1>1. Len(p) = Len(q) + 1 /\ p[Len(q) + 1] = e /\ \A i \in 1..Len(q) : p[i] = q[i]
  OBVIOUS
<1>2. Len(q) \in Nat
  OBVIOUS
<1> HIDE DEF p
<1>3. About(p, s) <=> About(q, s) \/ e.srv = s
  BY <1>1, <1>2 DEF About
<1>4. ASSUME NEW i \in 1..Len(p), LastAbout(p, s, i)
      PROVE  \/ e.srv = s /\ p[i] = e
             \/ e.srv # s /\ i \in 1..Len(q) /\ p[i] = q[i] /\ LastAbout(q, s, i)
  <2>1. CASE i = Len(q) + 1
    BY <1>1, <1>4, <2>1 DEF LastAbout
  <2>2. CASE i # Len(q) + 1
    <3>1. i \in 1..Len(q) /\ Len(q) + 1 \in i+1..Len(p)
      BY <1>1, <1>2, <2>2
    <3>2. e.srv # s
      BY <1>1, <1>4, <3>1 DEF LastAbout
    <3>3. \A j \in i+1..Len(q) : j \in i+1..Len(p) /\ p[j] = q[j]
      BY <1>1, <1>2
    <3>4. LastAbout(q, s, i)
      BY <1>1, <1>4, <3>1, <3>3 DEF LastAbout
    <3> QED
      BY <1>1, <3>1, <3>2, <3>4
  <2> QED
    BY <2>1, <2>2
<1> QED
  BY <1>3, <1>4 DEF p

\* The last word about s in a channel after a receive.
LEMMA LastOfTail ==
    ASSUME NEW S, NEW q \in Seq(S), q # <<>>, NEW s
    PROVE  /\ About(q, s) <=> About(Tail(q), s) \/ Head(q).srv = s
           /\ \A i \in 1..Len(Tail(q)) : LastAbout(Tail(q), s, i) =>
                 i + 1 \in 1..Len(q) /\ Tail(q)[i] = q[i + 1] /\ LastAbout(q, s, i + 1)
           /\ ~About(Tail(q), s) /\ Head(q).srv = s =>
                 1 \in 1..Len(q) /\ LastAbout(q, s, 1) /\ q[1] = Head(q)
<1> DEFINE t == Tail(q)
           h == Head(q)
<1>1. /\ h = q[1] /\ Len(q) \in Nat \ {0} /\ Len(t) = Len(q) - 1
      /\ \A i \in 1..Len(t) : t[i] = q[i + 1]
  BY HeadTailProperties, EmptySeq
<1> HIDE DEF t, h
<1>2. \A i \in 1..Len(t) : i + 1 \in 1..Len(q)
  BY <1>1
<1>3. \A i \in 1..Len(q) : i = 1 \/ (i - 1 \in 1..Len(t) /\ t[i - 1] = q[i])
  BY <1>1
<1>4. About(q, s) <=> About(t, s) \/ h.srv = s
  BY <1>1, <1>2, <1>3 DEF About
<1>5. ASSUME NEW i \in 1..Len(t), LastAbout(t, s, i)
      PROVE  i + 1 \in 1..Len(q) /\ t[i] = q[i + 1] /\ LastAbout(q, s, i + 1)
  <2>1. \A j \in (i+1)+1..Len(q) : j - 1 \in i+1..Len(t) /\ t[j - 1] = q[j]
    BY <1>1
  <2> QED
    BY <1>1, <1>2, <1>5, <2>1 DEF LastAbout
<1>6. ASSUME ~About(t, s), h.srv = s
      PROVE  1 \in 1..Len(q) /\ LastAbout(q, s, 1) /\ q[1] = h
  <2>1. \A j \in 1+1..Len(q) : j - 1 \in 1..Len(t) /\ t[j - 1] = q[j]
    BY <1>1
  <2> QED
    BY <1>1, <1>6, <2>1 DEF LastAbout, About
<1> QED
  BY <1>4, <1>5, <1>6 DEF t, h

\* The last word about s in what a broken stream had delivered, when nothing
\* about s was lost.
LEMMA LastOfPrefix ==
    ASSUME NEW S, NEW q \in Seq(S), NEW k \in 0..Len(q), NEW s,
           ~\E i \in k+1..Len(q) : q[i].srv = s
    PROVE  /\ About(q, s) <=> About(SubSeq(q, 1, k), s)
           /\ \A i \in 1..Len(SubSeq(q, 1, k)) : LastAbout(SubSeq(q, 1, k), s, i) =>
                 i \in 1..Len(q) /\ SubSeq(q, 1, k)[i] = q[i] /\ LastAbout(q, s, i)
<1> DEFINE p == SubSeq(q, 1, k)
<1>1. Len(p) = k /\ \A i \in 1..k : p[i] = q[i]
  BY SubSeqProperties
<1>2. Len(q) \in Nat
  OBVIOUS
<1> HIDE DEF p
<1>3. \A i \in 1..Len(q) : i \in 1..k \/ i \in k+1..Len(q)
  BY <1>2
<1>4. About(q, s) <=> About(p, s)
  BY <1>1, <1>2, <1>3 DEF About
<1>5. ASSUME NEW i \in 1..Len(p), LastAbout(p, s, i)
      PROVE  i \in 1..Len(q) /\ p[i] = q[i] /\ LastAbout(q, s, i)
  <2>1. \A j \in i+1..Len(q) : (j \in i+1..Len(p) /\ p[j] = q[j]) \/ j \in k+1..Len(q)
    BY <1>1, <1>2
  <2>2. i \in 1..Len(q) /\ p[i] = q[i]
    BY <1>1, <1>2
  <2>3. \A j \in i+1..Len(q) : q[j].srv # s
    BY <1>5, <2>1 DEF LastAbout
  <2> QED
    BY <1>5, <2>2, <2>3 DEF LastAbout
<1> QED
  BY <1>4, <1>5 DEF p

-----------------------------------------------------------------------------
\* A Change of s leaves the word about every other server alone, and its own
\* word is the last of the channel if s counts as told.
LEMMA ToldChange ==
    ASSUME RoutingTypes, ToldInv, NEW s \in Server, NEW r, NEW kind, Change(s, r, kind),
           NEW t \in Server, status'[t] = "told"
    PROVE  Newest(t)'
<1> DEFINE e == [kind |-> kind, srv |-> s, state |-> r.state, addr |-> r.addr]
<1>0. /\ toSend' = toSend /\ wire' = wire /\ table' = table /\ alive' = alive
      /\ events \in Seq(EventRecord) /\ e.srv = s
  BY DEF Change, RoutingTypes
<1>1. CASE t = s
  <2>1. /\ Carried(kind, r) /\ events' = Append(events, e) /\ rec'[t] = r
    BY <1>1 DEF Change, RoutingTypes, Registered, Carried
  <2>2. Carried(e.kind, e) /\ e.state = r.state /\ e.addr = r.addr
    BY <2>1 DEF Carried
  <2> HIDE DEF e
  <2>3. /\ About(events', t)
        /\ \A i \in 1..Len(events') : LastAbout(events', t, i) => events'[i] = e
    BY <1>0, <1>1, <2>1, LastOfAppend
  <2> QED
    BY <2>1, <2>2, <2>3 DEF Newest, Says
<1>2. CASE t # s
  <2>1. rec'[t] = rec[t] /\ status[t] = "told" /\ Newest(t)
    BY <1>2 DEF Change, RoutingTypes, ToldInv
  <2>2. events' = events \/ events' = Append(events, e)
    BY DEF Change
  <2> HIDE DEF e
  <2>3. /\ About(events', t) <=> About(events, t)
        /\ \A i \in 1..Len(events') : LastAbout(events', t, i) =>
              i \in 1..Len(events) /\ events'[i] = events[i] /\ LastAbout(events, t, i)
    <3>1. CASE events' = events
      BY <3>1
    <3>2. CASE events' = Append(events, e)
      <4> DEFINE w == Append(events, e)
      <4>1. /\ About(w, t) <=> About(events, t) \/ e.srv = t
            /\ \A i \in 1..Len(w) : LastAbout(w, t, i) =>
                  \/ e.srv = t /\ w[i] = e
                  \/ /\ e.srv # t /\ i \in 1..Len(events) /\ w[i] = events[i]
                     /\ LastAbout(events, t, i)
        BY <1>0, LastOfAppend, Zenon
      <4>2. events' = w
        BY <3>2
      <4> HIDE DEF w
      <4> QED
        BY <1>0, <1>2, <4>1, <4>2
    <3> QED
      BY <2>2, <3>1, <3>2
  <2> QED
    BY <1>0, <2>1, <2>3 DEF Newest, Says, Initial
<1> QED
  BY <1>1, <1>2

\* Every step keeps the newest word about every server that counts as told.
LEMMA ToldStep == RoutingTypes /\ ToldInv /\ [RoutingNext]_routingVars => ToldInv'
<1> SUFFICES ASSUME RoutingTypes, ToldInv, [RoutingNext]_routingVars PROVE ToldInv'
  OBVIOUS
<1>1. CASE UNCHANGED routingVars
  BY <1>1 DEF routingVars, ToldInv, Newest, Says, Initial, About, LastAbout
<1>2. ASSUME NEW s \in Server, NEW r, NEW kind, Change(s, r, kind) PROVE ToldInv'
  <2>1. UNCHANGED <<stream, toSend>> /\ (stream = "down" => events' = events)
    BY <1>2 DEF Change, Registered
  <2>2. \A t \in Server : status'[t] = "told" => Newest(t)'
    BY <1>2, ToldChange
  <2> QED
    BY <2>1, <2>2 DEF ToldInv
<1>3. CASE Open
  <2>0. toSend = {} /\ toSend' = {} /\ UNCHANGED <<rec, status, wire, table, alive>>
        /\ events = <<>> /\ events' = <<>> /\ stream' = "registered"
    BY <1>3 DEF Open, ToldInv, records
  <2>1. ASSUME NEW t \in Server, status'[t] = "told" PROVE Newest(t)'
    <3>1. Newest(t)
      BY <2>0, <2>1 DEF ToldInv
    <3> QED
      BY <2>0, <3>1 DEF Newest, Says, Initial
  <2> QED
    BY <2>0, <2>1 DEF ToldInv
<1>4. CASE ReadServers
  <2>0. /\ UNCHANGED <<rec, events, wire, table, alive>> /\ toSend = {} /\ stream' = "initial"
        /\ toSend' = {[srv |-> s, state |-> "Ready", addr |-> rec[s].addr] :
                          s \in {t \in Server : rec[t].state = "Ready"}}
        /\ status' = [s \in Server |-> IF rec[s].state = "Ready" /\ ~About(events, s)
                                       THEN "told" ELSE status[s]]
    BY <1>4 DEF ReadServers, ToldInv, About
  <2>1. ASSUME NEW t \in Server, status'[t] = "told" PROVE Newest(t)'
    <3>1. \A m \in toSend' : m.srv = t => Says(m, t) /\ rec[t].state = "Ready"
      BY <2>0 DEF Says
    <3>2. CASE rec[t].state = "Ready"
      <4>1. Initial(t)'
        <5>1. [srv |-> t, state |-> "Ready", addr |-> rec[t].addr] \in toSend'
          BY <2>0, <3>2
        <5> QED
          BY <5>1 DEF Initial
      <4>2. About(events, t) => Newest(t)
        BY <2>0, <2>1 DEF ToldInv
      <4>3. \A i \in 1..Len(events) : LastAbout(events, t, i) => About(events, t)
        BY DEF LastAbout, About
      <4> QED
        BY <2>0, <3>1, <4>1, <4>2, <4>3 DEF Newest, Says
    <3>3. CASE rec[t].state # "Ready"
      <4>1. ~Initial(t)' /\ ~Initial(t)
        BY <2>0, <3>1, <3>3 DEF Initial
      <4>2. Newest(t)
        BY <2>0, <2>1, <3>3 DEF ToldInv
      <4> QED
        BY <2>0, <3>1, <4>1, <4>2 DEF Newest, Says
    <3> QED
      BY <3>2, <3>3
  <2> QED
    BY <2>0, <2>1 DEF ToldInv
<1>5. CASE SendInitial
  <2>0. UNCHANGED <<rec, status, events, table, alive>>
    BY <1>5 DEF SendInitial, records
  <2>1. CASE UNCHANGED <<toSend, wire>> /\ toSend = {}
    <3>1. \A t \in Server : Newest(t) => Newest(t)'
      BY <2>0, <2>1 DEF Newest, Says, Initial
    <3>2. stream' # "down"
      BY <1>5 DEF SendInitial
    <3> QED
      BY <2>0, <2>1, <3>1, <3>2 DEF ToldInv
  <2>2. ASSUME NEW m \in toSend, wire' = Append(wire, m), toSend' = toSend \ {m},
               stream' = "initial"
        PROVE  ToldInv'
    <3>1. ASSUME NEW t \in Server, status'[t] = "told" PROVE Newest(t)'
      <4>1. Newest(t) /\ wire \in Seq(Message)
        BY <2>0, <3>1 DEF ToldInv, RoutingTypes
      <4>2. /\ About(wire', t) <=> About(wire, t) \/ m.srv = t
            /\ \A i \in 1..Len(wire') : LastAbout(wire', t, i) =>
                  \/ m.srv = t /\ wire'[i] = m
                  \/ /\ m.srv # t /\ i \in 1..Len(wire) /\ wire'[i] = wire[i]
                     /\ LastAbout(wire, t, i)
        <5> DEFINE w == Append(wire, m)
        <5>1. /\ About(w, t) <=> About(wire, t) \/ m.srv = t
              /\ \A i \in 1..Len(w) : LastAbout(w, t, i) =>
                    \/ m.srv = t /\ w[i] = m
                    \/ m.srv # t /\ i \in 1..Len(wire) /\ w[i] = wire[i] /\ LastAbout(wire, t, i)
          BY <4>1, LastOfAppend, Zenon
        <5>2. wire' = w
          BY <2>2
        <5> HIDE DEF w
        <5> QED
          BY <5>1, <5>2
      <4>3. CASE m.srv = t
        BY <2>0, <2>2, <4>1, <4>2, <4>3 DEF Newest, Says, Initial
      <4>4. CASE m.srv # t
        <5>1. Initial(t)' <=> Initial(t)
          BY <2>2, <4>4 DEF Initial
        <5> QED
          BY <2>0, <2>2, <4>1, <4>2, <4>4, <5>1 DEF Newest, Says
      <4> QED
        BY <4>3, <4>4
    <3> QED
      BY <2>2, <3>1 DEF ToldInv
  <2> QED
    BY <1>5, <2>1, <2>2 DEF SendInitial
<1>6. CASE Forward
  <2> DEFINE e == Head(events)
             m == [srv |-> e.srv, state |-> e.state, addr |-> e.addr]
  <2>0. /\ UNCHANGED <<rec, status, table, alive, toSend, stream>> /\ toSend = {}
        /\ events' = Tail(events) /\ events # <<>> /\ events \in Seq(EventRecord)
        /\ wire \in Seq(Message)
    BY <1>6 DEF Forward, records, RoutingTypes, ToldInv
  <2>1. ASSUME NEW t \in Server, status'[t] = "told" PROVE Newest(t)'
    <3>1. Newest(t) /\ ~Initial(t) /\ ~Initial(t)'
      BY <2>0, <2>1 DEF ToldInv, Initial
    <3>2. /\ About(events, t) <=> About(events', t) \/ e.srv = t
          /\ \A i \in 1..Len(events') : LastAbout(events', t, i) =>
                i + 1 \in 1..Len(events) /\ events'[i] = events[i + 1]
                /\ LastAbout(events, t, i + 1)
          /\ ~About(events', t) /\ e.srv = t =>
                1 \in 1..Len(events) /\ LastAbout(events, t, 1) /\ events[1] = e
      BY <2>0, LastOfTail
    <3>3. \/ wire' = wire /\ ~Carried(e.kind, e)
          \/ wire' = Append(wire, m)
      BY <1>6 DEF Forward
    <3>4. m.srv = e.srv /\ m.state = e.state /\ m.addr = e.addr
      OBVIOUS
    <3> HIDE DEF m, e
    <3>5. wire' = Append(wire, m) =>
            /\ About(wire', t) <=> About(wire, t) \/ m.srv = t
            /\ \A i \in 1..Len(wire') : LastAbout(wire', t, i) =>
                  \/ m.srv = t /\ wire'[i] = m
                  \/ /\ m.srv # t /\ i \in 1..Len(wire) /\ wire'[i] = wire[i]
                     /\ LastAbout(wire, t, i)
      <4> DEFINE w == Append(wire, m)
      <4>1. /\ About(w, t) <=> About(wire, t) \/ m.srv = t
            /\ \A i \in 1..Len(w) : LastAbout(w, t, i) =>
                  \/ m.srv = t /\ w[i] = m
                  \/ m.srv # t /\ i \in 1..Len(wire) /\ w[i] = wire[i] /\ LastAbout(wire, t, i)
        BY <2>0, LastOfAppend, Zenon
      <4> HIDE DEF w
      <4>2. ASSUME wire' = w
            PROVE  /\ About(wire', t) <=> About(wire, t) \/ m.srv = t
                   /\ \A i \in 1..Len(wire') : LastAbout(wire', t, i) =>
                         \/ m.srv = t /\ wire'[i] = m
                         \/ /\ m.srv # t /\ i \in 1..Len(wire) /\ wire'[i] = wire[i]
                            /\ LastAbout(wire, t, i)
        BY <4>1, <4>2
      <4> QED
        BY <4>2 DEF w
    <3>6. CASE About(events', t)
      BY <2>0, <3>1, <3>2, <3>6 DEF Newest, Says
    <3>7. CASE ~About(events', t) /\ e.srv = t
      <4>1. Says(e, t) /\ Carried(e.kind, e)
        BY <3>1, <3>2, <3>7 DEF Newest
      <4>2. wire' = Append(wire, m)
        BY <4>1, <3>3
      <4> QED
        BY <2>0, <3>1, <3>2, <3>4, <3>5, <3>7, <4>1, <4>2 DEF Newest, Says
    <3>8. CASE ~About(events', t) /\ e.srv # t
      BY <2>0, <3>1, <3>2, <3>3, <3>4, <3>5, <3>8 DEF Newest, Says
    <3> QED
      BY <3>6, <3>7, <3>8
  <2> QED
    BY <2>0, <2>1 DEF ToldInv
<1>7. CASE Break
  <2>0. UNCHANGED <<rec, table, alive>> /\ events' = <<>> /\ toSend' = {}
        /\ wire \in Seq(Message) /\ status \in [Server -> {"told", "lost", "missed"}]
    BY <1>7 DEF Break, RoutingTypes
  <2>1. PICK k \in 0..Len(wire) :
           /\ wire' = SubSeq(wire, 1, k)
           /\ \A t \in Server : status'[t] = "told" =>
                 /\ status[t] = "told" /\ ~\E i \in k+1..Len(wire) : wire[i].srv = t
                 /\ ~About(events, t) /\ ~Initial(t)
    BY <1>7, <2>0 DEF Break, About, Initial
  <2>2. ASSUME NEW t \in Server, status'[t] = "told" PROVE Newest(t)'
    <3>1. Newest(t) /\ ~About(events, t) /\ ~Initial(t)
      BY <2>1, <2>2 DEF ToldInv
    <3>2. /\ About(wire, t) <=> About(wire', t)
          /\ \A i \in 1..Len(wire') : LastAbout(wire', t, i) =>
                i \in 1..Len(wire) /\ wire'[i] = wire[i] /\ LastAbout(wire, t, i)
      <4>1. wire \in Seq(Message) /\ ~\E i \in k+1..Len(wire) : wire[i].srv = t
        BY <2>0, <2>1, <2>2
      <4>2. wire' = SubSeq(wire, 1, k)
        BY <2>1
      <4>3. /\ About(wire, t) <=> About(SubSeq(wire, 1, k), t)
            /\ \A i \in 1..Len(SubSeq(wire, 1, k)) : LastAbout(SubSeq(wire, 1, k), t, i) =>
                  i \in 1..Len(wire) /\ SubSeq(wire, 1, k)[i] = wire[i] /\ LastAbout(wire, t, i)
        BY <4>1, LastOfPrefix, Zenon
      <4> QED
        BY <4>2, <4>3, Zenon
    <3> QED
      BY <2>0, <3>1, <3>2 DEF Newest, Says
  <2> QED
    BY <2>0, <2>2 DEF ToldInv
<1>8. CASE Handle
  <2> DEFINE m == Head(wire)
  <2>0. /\ UNCHANGED <<rec, status, events, stream, toSend>>
        /\ wire \in Seq(Message) /\ wire # <<>> /\ wire' = Tail(wire) /\ alive
        /\ alive' = (m.state = "Ready" => table[NameOf[m.srv]] \in {None, m.addr})
        /\ table \in [Name -> Addr \cup {None}]
    BY <1>8 DEF Handle, records, RoutingTypes
  <2>1. \A n \in Name :
           table'[n] = IF n # NameOf[m.srv] THEN table[n]
                       ELSE CASE m.state = "Ready" /\ table[n] = None -> m.addr
                              [] m.state \in Ended -> None
                              [] OTHER -> table[n]
    BY <1>8, <2>0 DEF Handle
  <2>a. m.srv \in Server /\ NameOf \in [Server -> Name]
    <3>1. m \in Message
      BY <2>0
    <3> QED
      BY <3>1, RoutingAssumption DEF Message
  <2>2. ASSUME NEW t \in Server, status'[t] = "told" PROVE Newest(t)'
    <3>1. Newest(t)
      BY <2>0, <2>2 DEF ToldInv
    <3>2. /\ About(wire, t) <=> About(wire', t) \/ m.srv = t
          /\ \A i \in 1..Len(wire') : LastAbout(wire', t, i) =>
                i + 1 \in 1..Len(wire) /\ wire'[i] = wire[i + 1] /\ LastAbout(wire, t, i + 1)
          /\ ~About(wire', t) /\ m.srv = t =>
                1 \in 1..Len(wire) /\ LastAbout(wire, t, 1) /\ wire[1] = m
      BY <2>0, LastOfTail
    <3> HIDE DEF m
    <3>3. CASE About(wire', t)
      BY <2>0, <3>1, <3>2, <3>3 DEF Newest, Says, Initial
    <3>4. CASE ~About(wire', t) /\ m.srv # t
      <4>1. Sole(t) => table'[NameOf[t]] = table[NameOf[t]]
        BY <2>1, <2>a, <3>4 DEF Sole
      <4> QED
        BY <2>0, <3>1, <3>2, <3>4, <4>1 DEF Newest, Says, Initial
    <3>5. CASE ~About(wire', t) /\ m.srv = t
      <4>1. ~About(events, t) /\ ~Initial(t) => Says(m, t)
        BY <3>1, <3>2, <3>5 DEF Newest
      <4>2. Says(m, t) /\ alive' =>
               /\ rec[t].state = "Ready" => table'[NameOf[t]] = rec[t].addr
               /\ rec[t].state \in Ended => table'[NameOf[t]] = None
        BY <2>0, <2>1, <2>a, <3>5 DEF Says, Ended
      <4> QED
        BY <2>0, <3>1, <3>2, <3>5, <4>1, <4>2 DEF Newest, Says, Initial
    <3> QED
      BY <3>3, <3>4, <3>5
  <2> QED
    BY <2>0, <2>2 DEF ToldInv
<1> QED
  BY <1>1, <1>2, <1>3, <1>4, <1>5, <1>6, <1>7, <1>8, RecordSteps DEF RoutingNext, StreamStep

\* Once a stream has nothing left to carry, the proxy's table agrees with the
\* record of every server whose name is its own and whose last change the
\* stream carried.
THEOREM FollowsRecordsThm == RoutingSpec => []FollowsRecords
<1>1. RoutingInit => ToldInv
  BY DEF RoutingInit, ToldInv, Newest, Ended
<1>2. ToldInv => FollowsRecords
  BY DEF ToldInv, FollowsRecords, Quiet, Newest, About, Initial
<1> QED
  BY <1>1, <1>2, RoutingTypesInit, RoutingTypesStep, ToldStep, PTL DEF RoutingSpec
=============================================================================
