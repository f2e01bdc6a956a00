------------------------------ MODULE Routing -------------------------------
(***************************************************************************)
(* How a proxy's table of servers follows the replicated records: the      *)
(* events of one daemon's FSM, the gRPC handler Subscribe that forwards    *)
(* them (api/grpc.go), and the Velocity plugin that registers servers      *)
(* (AetherNetVelocityPlugin, GrpcStreamClient).  The generated stub that   *)
(* carries the messages is external, as is Velocity's registerServer.      *)
(* The FSM keys servers by their id; Velocity keys them by their name,     *)
(* which is whatever the creator of a server asked for: two servers may    *)
(* have the same one.                                                      *)
(***************************************************************************)
EXTENDS Naturals, Sequences, FiniteSets

CONSTANTS
    Server, Addr,
    Name, NameOf, \* a server's name, fixed when it is created and never checked
    InputState,   \* the states that commands write
    None,         \* not registered
    Buffer,       \* capacity of the channel that Subscribe asks for (100)
    Window,       \* messages on the way before Send blocks
    MaxChanges,   \* bound on changes of server records
    MaxBreaks     \* bound on streams that break

ServerState == {"Starting", "Ready", "Stopping", "Stopped", "Crashed", "Orphaned"}

ASSUME RoutingAssumption ==
    /\ None \notin Addr
    /\ NameOf \in [Server -> Name]
    /\ InputState \subseteq ServerState
    /\ {Buffer, Window, MaxChanges, MaxBreaks} \subseteq Nat

VARIABLES
    rec,       \* the FSM's record of each server; state "Absent" when none
    events,    \* the subscriber's channel
    stream,    \* where the Subscribe handler is
    toSend,    \* the servers of the initial state still to be sent
    wire,      \* messages sent and not yet handled by the plugin
    table,     \* Velocity's registered servers, by name
    alive,     \* the plugin's collector runs
    status,    \* history: "told" (the last change is on its way or handled),
               \* "lost" (a stream that broke took it, or there was none) or
               \* "missed" (this stream does not carry it)
    readyAt, gone, \* history: see RouteTable
    changes, breaks

records == <<rec, status, readyAt, gone, changes>>
routingVars == <<rec, events, stream, toSend, wire, table, alive, status,
                 readyAt, gone, changes, breaks>>

Ended == {"Stopped", "Crashed"}

\* The states that the handler's switch turns into an event type.
Translated == ServerState \ {"Orphaned"}

Record == [state : InputState, addr : Addr]

RoutingInit ==
    /\ rec = [s \in Server |-> [state |-> "Absent", addr |-> None]]
    /\ events = <<>> /\ stream = "down" /\ toSend = {} /\ wire = <<>>
    /\ table = [n \in Name |-> None] /\ alive = TRUE
    /\ status = [s \in Server |-> "told"]
    /\ readyAt = [n \in Name |-> {}] /\ gone = {}
    /\ changes = 0 /\ breaks = 0

-----------------------------------------------------------------------------
\* Mutant: the channel is registered after the initial state is sent.
RegisteredLate == stream = "loop"

\* FSM.Subscribe is the handler's first call: from then on events come.
Registered == stream # "down"

Carried(kind, r) == kind = "upsert" /\ r.state \in Translated

\* A command or a restore changes the record of s.  Commands publish an event
\* under f.mu, dropped when the channel is full; FSM.Restore publishes none.
Change(s, r, kind) ==
    LET room == Len(events) < Buffer IN
    /\ changes < MaxChanges
    /\ changes' = changes + 1
    /\ rec' = [rec EXCEPT ![s] = r]
    /\ events' = IF Registered /\ room /\ kind # "restore"
                 THEN Append(events, [kind |-> kind, srv |-> s, state |-> r.state,
                                      addr |-> r.addr])
                 ELSE events
    /\ status' = [status EXCEPT ![s] = CASE stream = "down" -> "lost"
                                         [] stream # "down" /\ room /\ Carried(kind, r) -> "told"
                                         [] OTHER -> "missed"]
    /\ readyAt' = IF r.state = "Ready"
                  THEN [readyAt EXCEPT ![NameOf[s]] = @ \cup {r.addr}] ELSE readyAt
    /\ gone' = IF r.state \in Ended THEN gone \cup {NameOf[s]} ELSE gone
    /\ UNCHANGED <<stream, toSend, wire, table, alive, breaks>>

Upsert(s) == \E r \in Record : Change(s, r, "upsert")

SetState(s) ==
    /\ rec[s].state # "Absent"
    /\ \E st \in InputState : Change(s, [rec[s] EXCEPT !.state = st], "set_state")

SetHost(s) ==
    /\ rec[s].state # "Absent"
    /\ \E a \in Addr : Change(s, [rec[s] EXCEPT !.addr = a], "set_host")

RemoveRecord(s) == Change(s, [state |-> "Absent", addr |-> None], "remove")

\* The leader sends this daemon a snapshot: records jump ahead.
RestoreRecord(s) == \E r \in Record : Change(s, r, "restore")

-----------------------------------------------------------------------------
\* Mutant: the client does not come back after an error.
OpenOnce ==
    /\ stream = "down" /\ breaks = 0
    /\ stream' = "registered" /\ events' = <<>>
    /\ UNCHANGED <<records, toSend, wire, table, alive, breaks>>

\* The client connects, the first time or after its reconnect delay; the
\* handler registers a new channel, and the old one stays with the FSM unread.
Open ==
    /\ stream = "down"
    /\ stream' = "registered" /\ events' = <<>>
    /\ UNCHANGED <<records, toSend, wire, table, alive, breaks>>

\* FSM.Servers(), under f.mu.  An event of s that is in the channel by now is
\* sent after the newer record, so a silent change before this is still missed.
ReadServers ==
    LET Ready(s) == rec[s].state = "Ready"
        Pending(s) == \E i \in 1..Len(events) : events[i].srv = s
    IN
    /\ stream = "registered"
    /\ stream' = "initial"
    /\ toSend' = {[srv |-> s, state |-> "Ready", addr |-> rec[s].addr] :
                  s \in {t \in Server : Ready(t)}}
    /\ status' = [s \in Server |-> IF Ready(s) /\ ~Pending(s) THEN "told" ELSE status[s]]
    /\ UNCHANGED <<rec, events, wire, table, alive, readyAt, gone, changes, breaks>>

\* stream.Send of one READY event; the map gives them in any order.
SendInitial ==
    /\ stream = "initial"
    /\ \/ /\ toSend = {} /\ stream' = "loop"
          /\ UNCHANGED <<toSend, wire>>
       \/ \E m \in toSend :
            /\ Len(wire) < Window
            /\ wire' = Append(wire, m) /\ toSend' = toSend \ {m}
            /\ UNCHANGED stream
    /\ UNCHANGED <<records, events, table, alive, breaks>>

\* One round of the handler's loop: only upserts whose state the switch knows
\* are sent on.
Forward ==
    LET e == Head(events) IN
    /\ stream = "loop" /\ events # <<>>
    /\ events' = Tail(events)
    /\ IF Carried(e.kind, e)
       THEN /\ Len(wire) < Window
            /\ wire' = Append(wire, [srv |-> e.srv, state |-> e.state, addr |-> e.addr])
       ELSE UNCHANGED wire
    /\ UNCHANGED <<records, stream, toSend, table, alive, breaks>>

\* A Send fails or the context ends: the handler returns and the messages that
\* the client has not received are lost.  The table is not cleared.
Break ==
    /\ stream # "down" /\ breaks < MaxBreaks
    /\ breaks' = breaks + 1
    /\ stream' = "down" /\ events' = <<>> /\ toSend' = {}
    /\ \E k \in 0..Len(wire) :
        LET Undelivered(s) == \/ \E i \in k+1..Len(wire) : wire[i].srv = s
                              \/ \E i \in 1..Len(events) : events[i].srv = s
                              \/ \E m \in toSend : m.srv = s
        IN /\ wire' = SubSeq(wire, 1, k)
           /\ status' = [s \in Server |-> IF Undelivered(s) \/ status[s] = "missed"
                                          THEN "lost" ELSE status[s]]
    /\ UNCHANGED <<rec, table, alive, readyAt, gone, changes>>

\* Mutant: STOPPING unregisters, although players are still on the server.
HandleStopping ==
    LET m == Head(wire) n == NameOf[Head(wire).srv] IN
    /\ alive /\ wire # <<>>
    /\ wire' = Tail(wire)
    /\ alive' = (m.state = "Ready" => table[n] \in {None, m.addr})
    /\ table' = [table EXCEPT ![n] = CASE m.state = "Ready" /\ @ = None -> m.addr
                                       [] m.state \in Ended \cup {"Stopping"} -> None
                                       [] OTHER -> @]
    /\ UNCHANGED <<records, events, stream, toSend, breaks>>

\* Mutant: a name that is registered is refused even with the same address.
HandleAlwaysThrows ==
    LET m == Head(wire) n == NameOf[Head(wire).srv] IN
    /\ alive /\ wire # <<>>
    /\ wire' = Tail(wire)
    /\ alive' = (m.state # "Ready" \/ table[n] = None)
    /\ table' = [table EXCEPT ![n] = CASE m.state = "Ready" /\ @ = None -> m.addr
                                       [] m.state \in Ended -> None
                                       [] OTHER -> @]
    /\ UNCHANGED <<records, events, stream, toSend, breaks>>

\* handleServerEvent.  registerServer accepts a name that is registered with
\* the same address and throws on another one: the exception ends the
\* collector, and no event is handled any more.
Handle ==
    LET m == Head(wire) n == NameOf[Head(wire).srv] IN
    /\ alive /\ wire # <<>>
    /\ wire' = Tail(wire)
    /\ alive' = (m.state = "Ready" => table[n] \in {None, m.addr})
    /\ table' = [table EXCEPT ![n] = CASE m.state = "Ready" /\ @ = None -> m.addr
                                       [] m.state \in Ended -> None
                                       [] OTHER -> @]
    /\ UNCHANGED <<records, events, stream, toSend, breaks>>

-----------------------------------------------------------------------------
StreamStep == Open \/ ReadServers \/ SendInitial \/ Forward \/ Handle

RoutingNext ==
    \/ \E s \in Server : Upsert(s) \/ SetState(s) \/ SetHost(s) \/ RemoveRecord(s)
                         \/ RestoreRecord(s)
    \/ StreamStep
    \/ Break

RoutingSpec == RoutingInit /\ [][RoutingNext]_routingVars

\* The client retries for ever, and the handler and the collector go on.
RoutingFairSpec == RoutingSpec /\ WF_routingVars(StreamStep)

-----------------------------------------------------------------------------
\* Properties.

\* Messages carry only what the switch translates, and only Ready servers are
\* in the initial state.
RoutingTypeOK ==
    /\ rec \in [Server -> Record \cup {[state |-> "Absent", addr |-> None]}]
    /\ Len(events) <= Buffer /\ Len(wire) <= Window
    /\ stream \in {"down", "registered", "initial", "loop"}
    /\ toSend \subseteq [srv : Server, state : {"Ready"}, addr : Addr]
    /\ \A i \in 1..Len(wire) :
          wire[i] \in [srv : Server, addr : Addr,
                      state : {"Starting", "Ready", "Stopping", "Stopped", "Crashed"}]
    /\ table \in [Name -> Addr \cup {None}]

\* No other server has the name of s.
Sole(s) == \A t \in Server : NameOf[t] = NameOf[s] => t = s

Quiet == stream = "loop" /\ events = <<>> /\ wire = <<>>

\* Once a stream has nothing left to carry, the table agrees with every record
\* whose last change the stream carried and whose name is its own: the initial
\* state and the events that overlap it, in whatever order they were sent, end
\* in the newest state.
FollowsRecords ==
    Quiet /\ alive =>
        \A s \in Server : (Sole(s) /\ status[s] = "told") =>
            /\ rec[s].state = "Ready" => table[NameOf[s]] = rec[s].addr
            /\ rec[s].state \in Ended => table[NameOf[s]] = None

\* The collector survives everything, replays, reconnects and namesakes
\* included, but a name that is Ready at a second address.
CollectorSurvives == (\A n \in Name : Cardinality(readyAt[n]) <= 1) => alive

\* What AetherNetVelocityPlugin.kt:62 says, "READY -> register/update server": once
\* the stream has brought the record of a server that is Ready, the proxy sends
\* players to where it is, also when it was Ready elsewhere before.
ReadyUpdates ==
    Quiet => \A s \in Server :
        (Sole(s) /\ status[s] = "told" /\ rec[s].state = "Ready") =>
            table[NameOf[s]] = rec[s].addr

\* A server with a name of its own that stays Ready is registered in the end,
\* however often the stream broke, unless this stream does not carry its last
\* change or the collector is dead.
ReadyRouted ==
    \A s \in Server : Sole(s) =>
        (<>[](rec[s].state = "Ready" /\ status[s] # "missed" /\ alive)
            => <>[](table[NameOf[s]] = rec[s].addr))

\* The stream and the plugin implement the promise to players.
Promise == INSTANCE RouteTable
ImplementsRouteTable == Promise!TableSpec
=============================================================================
