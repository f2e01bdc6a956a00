------------------------------- MODULE Daemon -------------------------------
(***************************************************************************)
(* The daemon's life: run starts the parts one after another, Serve runs   *)
(* the gRPC and HTTP servers in a goroutine of its own, and a signal makes *)
(* both of them call shutdown, which a sync.Once lets only one of them do  *)
(* while the other waits.  The Raft node is closed when run returns.  The  *)
(* gRPC and HTTP libraries and their clients are external.                 *)
(***************************************************************************)
EXTENDS Naturals

CONSTANTS
    Rpc,       \* gRPC calls
    Stream,    \* the ones that end only when their client hangs up (Subscribe)
    Http       \* HTTP requests; one that follows a log never ends by itself

ASSUME DaemonAssumption == Stream \subseteq Rpc

VARIABLES
    joinAddr,   \* the -join flag is set
    main,       \* where run is
    serve,      \* where the goroutine of Serve is
    joinHook,   \* SetJoinHook was called
    grpc, http, \* "nil", "on", "draining" or "off"
    once,       \* closeOnce: "new", "grpc", "http" or "done"
    cancelled,  \* ctx is done
    rpcs, https,\* calls and requests in flight
    raftOpen,   \* the Raft node runs
    overdue     \* history: http.Shutdown gave up waiting

daemonVars == <<joinAddr, main, serve, joinHook, grpc, http, once, cancelled,
                rpcs, https, raftOpen, overdue>>

DaemonInit ==
    /\ joinAddr \in BOOLEAN
    /\ main = "config" /\ serve = "off" /\ joinHook = FALSE
    /\ grpc = "nil" /\ http = "nil" /\ once = "new" /\ cancelled = FALSE
    /\ rpcs = {} /\ https = {} /\ raftOpen = FALSE /\ overdue = FALSE

Exit == main' = "exited" /\ raftOpen' = FALSE

\* run up to cluster.New: any step may fail.
OpenCluster ==
    /\ main = "config"
    /\ \/ main' = "join" /\ raftOpen' = TRUE
       \/ Exit
    /\ UNCHANGED <<joinAddr, serve, joinHook, grpc, http, once, cancelled, rpcs, https, overdue>>

\* JoinExisting: without a hook it is an error, and the daemon exits.  Only
\* Serve, which starts later, wires the hook.
JoinExisting ==
    /\ main = "join"
    /\ \/ ~joinAddr /\ main' = "start" /\ UNCHANGED raftOpen
       \/ joinAddr /\ ~joinHook /\ Exit
    /\ UNCHANGED <<joinAddr, serve, joinHook, grpc, http, once, cancelled, rpcs, https, overdue>>

\* The loops are started; the SFTP server's host key may not load; the API
\* server's goroutine is started last.
StartParts ==
    /\ main = "start"
    /\ \/ main' = "waiting" /\ serve' = "listen" /\ UNCHANGED <<raftOpen, cancelled>>
       \/ Exit /\ cancelled' = TRUE /\ UNCHANGED serve
    /\ UNCHANGED <<joinAddr, joinHook, grpc, http, once, rpcs, https, overdue>>

\* Serve: a listener that fails is logged, and the daemon goes on without API.
Listen ==
    /\ serve = "listen" /\ main # "exited"
    /\ \/ serve' = "register" /\ grpc' = "on"
       \/ serve' = "returned" /\ UNCHANGED grpc
    /\ UNCHANGED <<joinAddr, main, joinHook, http, once, cancelled, rpcs, https, raftOpen, overdue>>

RegisterAndServe ==
    /\ serve = "register" /\ main # "exited"
    /\ serve' = "serving" /\ http' = "on" /\ joinHook' = TRUE
    /\ UNCHANGED <<joinAddr, main, grpc, once, cancelled, rpcs, https, raftOpen, overdue>>

\* The select of Serve: the context is done, or one of the servers failed,
\* which it may do at any time.
StopServing ==
    /\ serve = "serving" /\ main # "exited"
    /\ serve' = "shutdown"
    /\ UNCHANGED <<joinAddr, main, joinHook, grpc, http, once, cancelled, rpcs, https,
                   raftOpen, overdue>>

Signal ==
    /\ main = "waiting"
    /\ main' = "shutdown" /\ cancelled' = TRUE
    /\ UNCHANGED <<joinAddr, serve, joinHook, grpc, http, once, rpcs, https, raftOpen, overdue>>

-----------------------------------------------------------------------------
\* shutdown, by whichever of the two goroutines comes first.

BeginShutdown ==
    /\ main = "shutdown" \/ serve = "shutdown"
    /\ main # "exited" /\ once = "new"
    /\ once' = "grpc"
    /\ grpc' = IF grpc = "on" THEN "draining" ELSE grpc
    /\ UNCHANGED <<joinAddr, main, serve, joinHook, http, cancelled, rpcs, https, raftOpen, overdue>>

\* GracefulStop returns when no call is in flight; it has no deadline.
GracefulStop ==
    /\ once = "grpc" /\ main # "exited"
    /\ grpc = "draining" => rpcs = {}
    /\ once' = "http"
    /\ grpc' = IF grpc = "draining" THEN "off" ELSE grpc
    /\ http' = IF http = "on" THEN "draining" ELSE http
    /\ UNCHANGED <<joinAddr, main, serve, joinHook, cancelled, rpcs, https, raftOpen, overdue>>

\* Mutant: http.Shutdown is called without a deadline.
HttpShutdownPatient ==
    /\ once = "http" /\ main # "exited"
    /\ http = "draining" => https = {}
    /\ once' = "done"
    /\ http' = IF http = "draining" THEN "off" ELSE http
    /\ UNCHANGED <<joinAddr, main, serve, joinHook, grpc, cancelled, rpcs, https, raftOpen, overdue>>

\* http.Shutdown waits for the requests in flight for five seconds.
HttpShutdown ==
    /\ once = "http" /\ main # "exited"
    /\ once' = "done"
    /\ http' = IF http = "draining" THEN "off" ELSE http
    /\ overdue' = (http = "draining" /\ https # {})
    /\ UNCHANGED <<joinAddr, main, serve, joinHook, grpc, cancelled, rpcs, https, raftOpen>>

\* Mutant: a flag in place of the Once, which does not wait for the other.
OnceReturnedFlag == once # "new"

\* Do returns to a caller once the function has returned, whoever called it.
OnceReturned == once = "done"

\* Serve returns to its goroutine, or run returns: the deferred Close shuts
\* the Raft node down, and the process ends.
ServeReturns ==
    /\ serve = "shutdown" /\ OnceReturned /\ main # "exited"
    /\ serve' = "returned"
    /\ UNCHANGED <<joinAddr, main, joinHook, grpc, http, once, cancelled, rpcs, https,
                   raftOpen, overdue>>

CloseCluster ==
    /\ main = "shutdown" /\ OnceReturned
    /\ main' = "closed" /\ raftOpen' = FALSE
    /\ UNCHANGED <<joinAddr, serve, joinHook, grpc, http, once, cancelled, rpcs, https, overdue>>

RunReturns ==
    /\ main = "closed"
    /\ main' = "exited" /\ rpcs' = {} /\ https' = {}
    /\ UNCHANGED <<joinAddr, serve, joinHook, grpc, http, once, cancelled, raftOpen, overdue>>

-----------------------------------------------------------------------------
\* Clients.

ClientCalls ==
    /\ main # "exited" /\ serve # "register"
    /\ \/ grpc = "on" /\ UNCHANGED https /\ \E r \in Rpc \ rpcs : rpcs' = rpcs \cup {r}
       \/ http = "on" /\ UNCHANGED rpcs /\ \E h \in Http \ https : https' = https \cup {h}
    /\ UNCHANGED <<joinAddr, main, serve, joinHook, grpc, http, once, cancelled, raftOpen, overdue>>

CallEnds(r) ==
    /\ r \in rpcs
    /\ rpcs' = rpcs \ {r}
    /\ UNCHANGED <<joinAddr, main, serve, joinHook, grpc, http, once, cancelled, https,
                   raftOpen, overdue>>

RequestEnds(h) ==
    /\ h \in https
    /\ https' = https \ {h}
    /\ UNCHANGED <<joinAddr, main, serve, joinHook, grpc, http, once, cancelled, rpcs,
                   raftOpen, overdue>>

DaemonStep == OpenCluster \/ JoinExisting \/ StartParts \/ Listen \/ RegisterAndServe
              \/ BeginShutdown \/ GracefulStop \/ HttpShutdown \/ ServeReturns
              \/ CloseCluster \/ RunReturns

ShortCallEnds == \E r \in Rpc \ Stream : CallEnds(r)

DaemonNext ==
    \/ DaemonStep \/ StopServing \/ Signal \/ ClientCalls
    \/ \E r \in Rpc : CallEnds(r)
    \/ \E h \in Http : RequestEnds(h)

DaemonSpec == DaemonInit /\ [][DaemonNext]_daemonVars

\* The daemon's goroutines go on and calls other than streams end; nothing
\* makes a client hang up, a log stop or a signal come.
DaemonFairSpec == DaemonSpec /\ WF_daemonVars(DaemonStep) /\ WF_daemonVars(ShortCallEnds)

-----------------------------------------------------------------------------
\* Properties.

\* When the Raft node is closed, no gRPC call is in flight, and an HTTP
\* request only if it outlasted the five seconds, unless the signal came
\* while Serve was still setting a server up.
QuiescentAtClose ==
    main = "closed" =>
        /\ grpc # "on" => rpcs = {}
        /\ http # "on" => https = {} \/ overdue

\* The daemon exits after a signal, whatever HTTP clients do, as long as no
\* proxy stays subscribed: the deadline that run gives Shutdown is not used.
SignalExits ==
    main = "shutdown" ~> (main = "exited" \/ rpcs \cap Stream # {})
=============================================================================
