------------------------------ MODULE HAProxy -------------------------------
(***************************************************************************)
(* The HAProxy manager: Sync renders haproxy.cfg from the nodes and the    *)
(* servers, has it validated, renames it into place and reloads HAProxy;   *)
(* WatchAndSync does so every 30 s.  A configuration is abstracted to the  *)
(* backends it names; haproxy itself is external and refuses a             *)
(* configuration with a node whose address it cannot use.                  *)
(***************************************************************************)
EXTENDS Naturals

CONSTANTS
    EdgeNode, GameServer,
    BadNode,       \* nodes whose address haproxy -c refuses
    NoConfig,
    MaxEdgeChanges, \* bound on changes of nodes and servers
    MaxEdgeFaults   \* bound on failing commands and on crashes

ASSUME HAProxyAssumption ==
    /\ BadNode \subseteq EdgeNode
    /\ {MaxEdgeChanges, MaxEdgeFaults} \subseteq Nat

VARIABLES
    upNodes,   \* FSM: nodes whose state is Up
    published, \* FSM: servers with a HostPort
    ready,     \* FSM: servers whose state is Ready
    sync,      \* where Sync is, under m.mu
    data,      \* what it renders
    tmp, file, \* haproxy.cfg.tmp and haproxy.cfg
    loaded,    \* what the HAProxy process runs with, NoConfig when it is down
    edgeBudget

edgeVars == <<upNodes, published, ready, sync, data, tmp, file, loaded, edgeBudget>>
edgeState == <<upNodes, published, ready>>

EdgeSpend(what) ==
    /\ edgeBudget[what] > 0
    /\ edgeBudget' = [edgeBudget EXCEPT ![what] = @ - 1]

Valid(c) == c.nodes \cap BadNode = {}

HAProxyInit ==
    /\ upNodes = {} /\ published = {} /\ ready = {}
    /\ sync = "idle" /\ data = [nodes |-> {}, servers |-> {}]
    /\ tmp = NoConfig /\ file = NoConfig /\ loaded = NoConfig
    /\ edgeBudget = [changes |-> MaxEdgeChanges, faults |-> MaxEdgeFaults]

\* The command server.set_state: Ready or another state, and the same port.
SetServerState(s) ==
    /\ ready' = IF s \in ready THEN ready \ {s} ELSE ready \cup {s}
    /\ UNCHANGED <<upNodes, published>>

\* The command server.set_host: the port, or none, in any state.
SetServerHost(s) ==
    /\ published' = IF s \in published THEN published \ {s} ELSE published \cup {s}
    /\ UNCHANGED <<upNodes, ready>>

\* The scheduler's new record of a server it moves: Starting, no port.
Evacuated(s) ==
    /\ s \in ready \cap published
    /\ ready' = ready \ {s} /\ published' = published \ {s}
    /\ UNCHANGED upNodes

RecordsChange ==
    /\ EdgeSpend("changes")
    /\ \/ upNodes' \in SUBSET EdgeNode \ {upNodes} /\ UNCHANGED <<published, ready>>
       \/ \E s \in GameServer : SetServerState(s) \/ SetServerHost(s) \/ Evacuated(s)
    /\ UNCHANGED <<sync, data, tmp, file, loaded>>

-----------------------------------------------------------------------------
\* Mutant: a tick that would write the same file is skipped.
ReadNodesIfChanged ==
    /\ sync = "idle" /\ file # [nodes |-> upNodes, servers |-> published]
    /\ data' = [data EXCEPT !.nodes = upNodes] /\ sync' = "nodes"
    /\ UNCHANGED <<edgeState, tmp, file, loaded, edgeBudget>>

\* A tick: nodesFn() and then serversFn(), two reads of the FSM.  Sync keeps
\* the nodes that are Up and the servers that have a port.
ReadNodes ==
    /\ sync = "idle"
    /\ data' = [data EXCEPT !.nodes = upNodes] /\ sync' = "nodes"
    /\ UNCHANGED <<edgeState, tmp, file, loaded, edgeBudget>>

ReadServerEntries ==
    /\ sync = "nodes"
    /\ data' = [data EXCEPT !.servers = published] /\ sync' = "write"
    /\ UNCHANGED <<edgeState, tmp, file, loaded, edgeBudget>>

WriteTmp ==
    /\ sync = "write"
    /\ tmp' = data /\ sync' = "validate"
    /\ UNCHANGED <<edgeState, data, file, loaded, edgeBudget>>

\* Mutant: the result of haproxy -c is only logged.
ValidateLogsOnly ==
    /\ sync = "validate"
    /\ sync' = "rename" /\ UNCHANGED tmp
    /\ UNCHANGED <<edgeState, data, file, loaded, edgeBudget>>

\* haproxy -c on the temporary file, which is removed when it is refused.
Validate ==
    /\ sync = "validate"
    /\ IF Valid(tmp) THEN sync' = "rename" /\ UNCHANGED tmp
                     ELSE sync' = "idle" /\ tmp' = NoConfig
    /\ UNCHANGED <<edgeState, data, file, loaded, edgeBudget>>

RenameConfig ==
    /\ sync = "rename"
    /\ file' = tmp /\ tmp' = NoConfig /\ sync' = "reload"
    /\ UNCHANGED <<edgeState, data, loaded, edgeBudget>>

\* A new process with -sf for the old ones, or the first one.
ReloadHAProxy ==
    /\ sync = "reload"
    /\ loaded' = file /\ sync' = "idle"
    /\ UNCHANGED <<edgeState, data, tmp, file, edgeBudget>>

\* One of the commands fails and Sync returns; a failing haproxy -c takes the
\* temporary file with it.
SyncFails ==
    /\ sync \in {"write", "validate", "rename", "reload"} /\ EdgeSpend("faults")
    /\ tmp' = IF sync = "validate" THEN NoConfig ELSE tmp
    /\ sync' = "idle"
    /\ UNCHANGED <<edgeState, data, file, loaded>>

\* StartIfNotRunning, under the same mutex.
StartIfNotRunning ==
    /\ sync \in {"idle", "nodes"} /\ file # NoConfig /\ loaded = NoConfig
    /\ loaded' = file
    /\ UNCHANGED <<edgeState, sync, data, tmp, file, edgeBudget>>

\* The daemon dies, between any two of those steps, and starts again.
EdgeDaemonCrash ==
    /\ EdgeSpend("faults") /\ sync # "idle"
    /\ sync' = "idle" /\ data' = [nodes |-> {}, servers |-> {}]
    /\ UNCHANGED <<edgeState, tmp, file, loaded>>

HAProxyDies ==
    /\ loaded # NoConfig /\ EdgeSpend("faults")
    /\ loaded' = NoConfig
    /\ UNCHANGED <<edgeState, sync, data, tmp, file>>

SyncStep == ReadNodes \/ ReadServerEntries \/ WriteTmp \/ Validate \/ RenameConfig
            \/ ReloadHAProxy

HAProxyNext == RecordsChange \/ SyncStep \/ SyncFails \/ StartIfNotRunning
               \/ EdgeDaemonCrash \/ HAProxyDies

HAProxySpec == HAProxyInit /\ [][HAProxyNext]_edgeVars

\* The ticker of WatchAndSync goes on.
HAProxyFairSpec == HAProxySpec /\ WF_edgeVars(SyncStep)

-----------------------------------------------------------------------------
\* Properties.

\* Whatever fails or dies on the way, what HAProxy runs with and what it would
\* find at its next start is a configuration that haproxy -c accepts.
OnlyValidated == \A c \in {file, loaded} : c = NoConfig \/ Valid(c)

\* Once the cluster is stable, and haproxy accepts its nodes, HAProxy runs with
\* exactly the nodes that are Up and the servers that have a port, Ready or not
\* (see OnlyReadyServed), also after a reload that failed and a process that
\* died.
EdgeConverges ==
    <>[]Valid([nodes |-> upNodes]) =>
        <>[](loaded = [nodes |-> upNodes, servers |-> published])

\* What the comment in Sync says: "Filter only READY servers for Minecraft
\* backend".  The servers it renders are Ready when it reads them.  The filter
\* asks for a port only, and a server keeps its port when it stops.
OnlyReadyServed ==
    [][data'.servers # data.servers => data'.servers \subseteq ready]_edgeVars
=============================================================================
