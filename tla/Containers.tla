----------------------------- MODULE Containers -----------------------------
(***************************************************************************)
(* The docker controller and the template manager on one host: calls of    *)
(* StartServer that overlap, StopServer, RemoveServer with its salvage of  *)
(* logs, containers that exit on their own and come back by their restart  *)
(* policy, and the scratch directory a server mounts at /data.  Docker,    *)
(* the kernel's ports and the file system are external.  A scratch         *)
(* directory is abstracted to the kinds of file in it: files of the        *)
(* template, files the server wrote, and salvaged logs.                    *)
(***************************************************************************)
EXTENDS Naturals

CONSTANTS
    StartCall,           \* calls of StartServer
    Box,                 \* servers of this host
    HostPort, NoPort,
    DynamicBox,          \* the ones with a dynamic template
    MaxContainerFaults   \* bound on calls that fail

ASSUME ContainersAssumption ==
    /\ DynamicBox \subseteq Box /\ NoPort \notin HostPort /\ MaxContainerFaults \in Nat
    /\ "nobody" \notin StartCall

VARIABLES
    call,        \* StartServer: [at, box, port]
    container,   \* by name: [state, port, by]
    returned,    \* port of the last StartServer that succeeded, since cleared
    scratch,     \* kinds of file in scratch/<id>
    cloned,       \* MaterializeScratch succeeded and nothing was written since
    containerFaults

containerVars == <<call, container, returned, scratch, cloned, containerFaults>>

NoContainer == [state |-> "none", port |-> NoPort, by |-> "nobody"]

ContainersInit ==
    /\ call = [k \in StartCall |-> [at |-> "idle", box |-> "none", port |-> NoPort]]
    /\ container = [s \in Box |-> NoContainer]
    /\ returned = [s \in Box |-> NoPort]
    /\ scratch = [s \in Box |-> {}]
    /\ cloned = [s \in Box |-> FALSE]
    /\ containerFaults = 0

ContainerFault == /\ containerFaults < MaxContainerFaults
                  /\ containerFaults' = containerFaults + 1

Bound(p) == \E s \in Box : container[s].state = "running" /\ container[s].port = p

\* StartServer up to ContainerCreate: the directory is made and a port that is
\* free is picked; nothing holds it.
PickFreePort(k, s, p) ==
    /\ call[k].at = "idle" /\ ~Bound(p)
    /\ call' = [call EXCEPT ![k] = [at |-> "picked", box |-> s, port |-> p]]
    /\ UNCHANGED <<container, returned, scratch, cloned, containerFaults>>

Created(k) == [container EXCEPT ![call[k].box] =
                  [state |-> "created", port |-> call[k].port, by |-> k]]

\* ContainerCreate: a container that has the name, in whatever state, is a
\* conflict.  A call that fails may have created it.
CreateContainer(k) ==
    LET s == call[k].box IN
    /\ call[k].at = "picked"
    /\ \/ /\ container[s].state = "none"
          /\ container' = Created(k)
          /\ call' = [call EXCEPT ![k].at = "created"]
          /\ UNCHANGED containerFaults
       \/ /\ \/ container[s].state # "none" /\ UNCHANGED <<container, containerFaults>>
             \/ container[s].state = "none" /\ container' \in {container, Created(k)} /\ ContainerFault
          /\ call' = [call EXCEPT ![k].at = "done"]
    /\ UNCHANGED <<returned, scratch, cloned>>

\* Mutant: the error of ContainerStart is logged and not returned.
StartContainerLogsError(k) ==
    LET s == call[k].box IN
    /\ call[k].at = "created"
    /\ call' = [call EXCEPT ![k].at = "done"]
    /\ container' = IF container[s].by = k /\ ~Bound(call[k].port)
                    THEN [container EXCEPT ![s].state = "running"] ELSE container
    /\ returned' = [returned EXCEPT ![s] = call[k].port]
    /\ UNCHANGED <<scratch, cloned, containerFaults>>

\* ContainerStart of the id that was created: it fails when the container was
\* removed or the port was taken meanwhile, and then the container stays.  A
\* call that fails otherwise may have started it.
StartContainer(k) ==
    LET s == call[k].box IN
    /\ call[k].at = "created"
    /\ call' = [call EXCEPT ![k].at = "done"]
    /\ \/ /\ container[s].by = k /\ ~Bound(call[k].port)
          /\ container' = [container EXCEPT ![s].state = "running"]
          /\ \/ returned' = [returned EXCEPT ![s] = call[k].port] /\ UNCHANGED containerFaults
             \/ UNCHANGED returned /\ ContainerFault
       \/ /\ container[s].by # k \/ Bound(call[k].port)
          /\ UNCHANGED <<container, returned, containerFaults>>
       \/ /\ ContainerFault
          /\ UNCHANGED <<container, returned>>
    /\ UNCHANGED <<scratch, cloned>>

\* A container exits on its own and gives up its port.
ContainerExits(s) ==
    /\ container[s].state = "running"
    /\ container' = [container EXCEPT ![s].state = "restarting"]
    /\ UNCHANGED <<call, returned, scratch, cloned, containerFaults>>

\* The policy "unless-stopped" starts it again, with the port it was created
\* with; when that is taken by then, it stays down.
RestartByPolicy(s) ==
    /\ container[s].state = "restarting"
    /\ container' = [container EXCEPT ![s].state =
                        IF Bound(container[s].port) THEN "exited" ELSE "running"]
    /\ UNCHANGED <<call, returned, scratch, cloned, containerFaults>>

\* StopServer.  The restart policy leaves a stopped container alone.
StopServer(s) ==
    /\ container[s].state \in {"running", "restarting"}
    /\ container' = [container EXCEPT ![s].state = "exited"]
    /\ returned' = [returned EXCEPT ![s] = NoPort]
    /\ UNCHANGED <<call, scratch, cloned, containerFaults>>

\* A server that runs writes to /data.
ServerWrites(s) ==
    /\ container[s].state = "running"
    /\ scratch' = [scratch EXCEPT ![s] = @ \cup {"written"}]
    /\ cloned' = [cloned EXCEPT ![s] = FALSE]
    /\ UNCHANGED <<call, container, returned, containerFaults>>

\* RemoveServer: the logs are salvaged into the scratch directory, which a
\* failure does not stop; the container is removed, running or not; and only
\* then is the directory purged, salvaged logs and all.  os.RemoveAll may fail
\* with some of the files gone.
RemoveServer(s, purgeVolume) ==
    \E salvaged \in BOOLEAN, removed \in BOOLEAN :
        LET gone == container[s].state = "none"
            kept == IF salvaged THEN scratch[s] \cup {"salvage"} ELSE scratch[s]
        IN
        /\ gone => ~salvaged /\ removed
        /\ container' = IF removed THEN [container EXCEPT ![s] = NoContainer] ELSE container
        /\ returned' = IF removed THEN [returned EXCEPT ![s] = NoPort] ELSE returned
        /\ \E left \in SUBSET kept :
              /\ (removed /\ purgeVolume) \/ left = kept
              /\ scratch' = [scratch EXCEPT ![s] = left]
              /\ IF removed /\ (gone \/ salvaged) /\ (purgeVolume => left = {})
                 THEN UNCHANGED containerFaults ELSE ContainerFault
        /\ cloned' = [cloned EXCEPT ![s] = @ /\ scratch'[s] = scratch[s]]
        /\ UNCHANGED call

\* CleanupScratch, for a dynamic template only, with the same RemoveAll.
CleanupScratch(s) ==
    /\ s \in DynamicBox
    /\ \/ scratch' = [scratch EXCEPT ![s] = {}] /\ UNCHANGED containerFaults
       \/ \E left \in SUBSET scratch[s] : scratch' = [scratch EXCEPT ![s] = left] /\ ContainerFault
    /\ cloned' = [cloned EXCEPT ![s] = FALSE]
    /\ UNCHANGED <<call, container, returned>>

\* MaterializeScratch: the template of a dynamic server, if there is one, is
\* copied over what the directory holds; a copy that fails leaves some of it.
\* Nothing in the daemon calls it yet: it is meant to come before a start.
MaterializeScratch(s) ==
    /\ container[s].state # "running"
    /\ \/ scratch' = [scratch EXCEPT ![s] = IF s \in DynamicBox THEN @ \cup {"template"} ELSE @]
       \/ UNCHANGED scratch
    /\ \/ cloned' = [cloned EXCEPT ![s] = TRUE] /\ UNCHANGED containerFaults
       \/ s \in DynamicBox /\ cloned' = [cloned EXCEPT ![s] = FALSE] /\ ContainerFault
    /\ UNCHANGED <<call, container, returned>>

ContainersNext ==
    \/ \E k \in StartCall :
          \/ \E s \in Box, p \in HostPort : PickFreePort(k, s, p)
          \/ CreateContainer(k) \/ StartContainer(k)
    \/ \E s \in Box :
          \/ StopServer(s) \/ ServerWrites(s) \/ ContainerExits(s) \/ RestartByPolicy(s)
          \/ \E purge \in BOOLEAN : RemoveServer(s, purge)
          \/ MaterializeScratch(s) \/ CleanupScratch(s)

ContainersSpec == ContainersInit /\ [][ContainersNext]_containerVars

-----------------------------------------------------------------------------
\* Properties.

\* The port StartServer returned is, until the server is stopped or removed,
\* the port of its container, which was started and did not just get created,
\* although calls overlap and two of them may have picked the same port; and
\* while it runs no other container of the host is reached there.  A server
\* that exits on its own may lose the port to another one, and then stays down.
ReturnedPortServes ==
    \A s \in Box : returned[s] # NoPort =>
        /\ container[s].state \in {"running", "restarting", "exited"}
        /\ container[s].port = returned[s]
        /\ container[s].state = "running" =>
              \A r \in Box \ {s} : container[r].state = "running" => container[r].port # returned[s]

\* What templates.go says: "Dynamic templates clone fresh on startup".  After
\* MaterializeScratch has succeeded the directory holds the template and
\* nothing of an earlier life of the server.
CloneIsFresh == \A s \in DynamicBox : cloned[s] => scratch[s] \subseteq {"template"}
=============================================================================
