----------------------------- MODULE Host_proofs ----------------------------
(***************************************************************************)
(* Proofs about the components that look after a host: the docker          *)
(* controller, the database provisioner, the sign API and the daemon's     *)
(* shutdown, for every set of calls, servers, ports and requests and every *)
(* value of the bounds.                                                    *)
(***************************************************************************)
EXTENDS Containers, Provisioner, SignAPI, Daemon, TLAPS

-----------------------------------------------------------------------------
\* The docker controller.

CallRecord == [at : {"picked", "created", "done"}, box : Box, port : HostPort]
IdleCall == [at |-> "idle", box |-> "none", port |-> NoPort]
ContainerRecord == [state : {"created", "running", "restarting", "exited"}, port : HostPort, by : StartCall]

ContainersTypeOK ==
    /\ call \in [StartCall -> CallRecord \cup {IdleCall}]
    /\ container \in [Box -> ContainerRecord \cup {NoContainer}]
    /\ returned \in [Box -> HostPort \cup {NoPort}]

\* A container that a call is about to start has the port the call picked.
Mine(k) ==
    call[k].at = "created" /\ container[call[k].box].by = k
        => container[call[k].box].port = call[k].port

\* Docker binds a port for one running container at a time.
OnePerPort ==
    \A r, s \in Box : container[r].state = "running" /\ container[s].state = "running"
                      /\ r # s => container[r].port # container[s].port

Serves(s) == returned[s] # NoPort =>
                /\ container[s].state \in {"running", "restarting", "exited"}
                /\ container[s].port = returned[s]

\* A step that leaves the calls and the returned ports alone, and moves the
\* container of s between the states of one that was started.
Moved(s, state) ==
    /\ call' = call /\ returned' = returned
    /\ container' = [container EXCEPT ![s].state = state]

PortsInv ==
    /\ ContainersTypeOK
    /\ \A k \in StartCall : Mine(k)
    /\ OnePerPort
    /\ \A s \in Box : Serves(s)

\* Every step keeps calls, containers and returned ports well typed.
LEMMA ContainersTypeStep ==
    ContainersTypeOK /\ [ContainersNext]_containerVars => ContainersTypeOK'
<1> SUFFICES ASSUME ContainersTypeOK, [ContainersNext]_containerVars PROVE ContainersTypeOK'
  OBVIOUS
<1> USE DEF ContainersTypeOK
<1>1. CASE UNCHANGED <<call, container, returned>>
  BY <1>1
<1>2. ASSUME NEW k \in StartCall, NEW s \in Box, NEW p \in HostPort, PickFreePort(k, s, p)
      PROVE  ContainersTypeOK'
  BY <1>2 DEF PickFreePort, CallRecord
<1>3. ASSUME NEW k \in StartCall, CreateContainer(k) PROVE ContainersTypeOK'
  <2>1. call[k] \in CallRecord /\ [call[k] EXCEPT !.at = "created"] \in CallRecord
        /\ [call[k] EXCEPT !.at = "done"] \in CallRecord
    BY <1>3 DEF CreateContainer, CallRecord, IdleCall, ContainersTypeOK
  <2>2. [state |-> "created", port |-> call[k].port, by |-> k] \in ContainerRecord
    BY <2>1 DEF CallRecord, ContainerRecord
  <2>3. call' \in [StartCall -> CallRecord \cup {IdleCall}]
    BY <1>3, <2>1 DEF CreateContainer
  <2>4. container' \in [Box -> ContainerRecord \cup {NoContainer}]
    BY <1>3, <2>1, <2>2 DEF CreateContainer, Created
  <2> QED
    BY <1>3, <2>3, <2>4 DEF CreateContainer
<1>4. ASSUME NEW k \in StartCall, StartContainer(k) PROVE ContainersTypeOK'
  <2>1. call[k] \in CallRecord /\ [call[k] EXCEPT !.at = "done"] \in CallRecord
        /\ call[k].box \in Box /\ call[k].port \in HostPort
    BY <1>4 DEF StartContainer, CallRecord, IdleCall
  <2>2. container[call[k].box].by = k =>
           [container[call[k].box] EXCEPT !.state = "running"] \in ContainerRecord
    BY <2>1, ContainersAssumption DEF ContainerRecord, NoContainer
  <2>3. call' \in [StartCall -> CallRecord \cup {IdleCall}]
    BY <1>4, <2>1 DEF StartContainer
  <2>4. container' \in [Box -> ContainerRecord \cup {NoContainer}]
    BY <1>4, <2>1, <2>2 DEF StartContainer
  <2>5. returned' \in [Box -> HostPort \cup {NoPort}]
    BY <1>4, <2>1 DEF StartContainer
  <2> QED
    BY <2>3, <2>4, <2>5
<1>5. ASSUME NEW s \in Box, StopServer(s) PROVE ContainersTypeOK'
  <2>1. [container[s] EXCEPT !.state = "exited"] \in ContainerRecord
    BY <1>5 DEF StopServer, ContainerRecord, NoContainer
  <2> QED
    BY <1>5, <2>1 DEF StopServer
<1>6. ASSUME NEW s \in Box, NEW purge \in BOOLEAN, RemoveServer(s, purge) PROVE ContainersTypeOK'
  BY <1>6 DEF RemoveServer
<1>7. ASSUME NEW s \in Box, ContainerExits(s) \/ RestartByPolicy(s) PROVE ContainersTypeOK'
  <2>1. container[s] \in ContainerRecord
    BY <1>7 DEF ContainerExits, RestartByPolicy, NoContainer
  <2>2. ASSUME NEW state \in {"running", "restarting", "exited"}
        PROVE  [container[s] EXCEPT !.state = state] \in ContainerRecord
    BY <2>1 DEF ContainerRecord
  <2> QED
    BY <1>7, <2>2 DEF ContainerExits, RestartByPolicy
<1> QED
  BY <1>1, <1>2, <1>3, <1>4, <1>5, <1>6, <1>7
  DEF ContainersNext, containerVars, ServerWrites, MaterializeScratch, CleanupScratch

\* PortsInv is inductive.
LEMMA PortsStep == PortsInv /\ [ContainersNext]_containerVars => PortsInv'
<1> SUFFICES ASSUME PortsInv, [ContainersNext]_containerVars PROVE PortsInv'
  OBVIOUS
<1>0. ContainersTypeOK'
  BY ContainersTypeStep DEF PortsInv
<1> USE <1>0 DEF PortsInv
<1>1. CASE UNCHANGED <<call, container, returned>>
  BY <1>1 DEF Mine, OnePerPort, Serves
<1>2. ASSUME NEW k \in StartCall, NEW s \in Box, NEW p \in HostPort, PickFreePort(k, s, p)
      PROVE  PortsInv'
  BY <1>2 DEF PickFreePort, Mine, OnePerPort, Serves, ContainersTypeOK
<1>3. ASSUME NEW k \in StartCall, CreateContainer(k) PROVE PortsInv'
  <2> DEFINE b == call[k].box
  <2>1. b \in Box /\ call[k] \in CallRecord
    BY <1>3 DEF CreateContainer, ContainersTypeOK, CallRecord, IdleCall
  <2>2. \/ /\ container[b].state = "none"
           /\ container' = [container EXCEPT ![b] = [state |-> "created", port |-> call[k].port,
                                                     by |-> k]]
           /\ call' \in {[call EXCEPT ![k].at = "created"], [call EXCEPT ![k].at = "done"]}
        \/ container' = container /\ call' = [call EXCEPT ![k].at = "done"]
    BY <1>3 DEF CreateContainer, Created
  <2>3. returned' = returned
    BY <1>3 DEF CreateContainer
  <2>4. \A j \in StartCall : call'[j].box = call[j].box /\ call'[j].port = call[j].port
                            /\ (j # k => call'[j].at = call[j].at)
    BY <2>1, <2>2 DEF ContainersTypeOK, CallRecord
  <2>5. \A j \in StartCall : call[j].at = "created" => call[j].box \in Box
    BY DEF ContainersTypeOK, CallRecord, IdleCall
  <2>6. ASSUME NEW j \in StartCall PROVE Mine(j)'
    <3> HIDE DEF b
    <3>1. CASE container' = container /\ call' = [call EXCEPT ![k].at = "done"]
      <4>1. call'[k].at = "done"
        BY <2>1, <3>1 DEF ContainersTypeOK, CallRecord
      <4> QED
        BY <2>4, <3>1, <4>1 DEF Mine
    <3>2. CASE container' = [container EXCEPT ![b] = [state |-> "created",
                                                      port |-> call[k].port, by |-> k]]
      <4>1. container'[b].by = k /\ container'[b].port = call[k].port
            /\ \A s \in Box \ {b} : container'[s] = container[s]
        BY <2>1, <3>2 DEF ContainersTypeOK
      <4>2. CASE j = k
        BY <2>4, <4>1, <4>2 DEF Mine, b
      <4>3. CASE j # k
        BY <2>4, <2>5, <4>1, <4>3 DEF Mine
      <4> QED
        BY <4>2, <4>3
    <3> QED
      BY <2>2, <3>1, <3>2
  <2>7. OnePerPort' /\ \A s \in Box : Serves(s)'
    BY <2>1, <2>2, <2>3 DEF OnePerPort, Serves, ContainersTypeOK
  <2> QED
    BY <2>6, <2>7
<1>4. ASSUME NEW k \in StartCall, StartContainer(k) PROVE PortsInv'
  <2> DEFINE b == call[k].box
  <2>1. b \in Box /\ call[k] \in CallRecord /\ Mine(k)
    BY <1>4 DEF StartContainer, ContainersTypeOK, CallRecord, IdleCall
  <2>2. call' = [call EXCEPT ![k].at = "done"] /\ call[k].at = "created"
    BY <1>4 DEF StartContainer
  <2>3. \A j \in StartCall : call'[j].box = call[j].box /\ call'[j].port = call[j].port
                            /\ (call'[j].at = "created" => call[j].at = "created")
    BY <2>1, <2>2 DEF ContainersTypeOK, CallRecord
  <2>4. \A j \in StartCall : call[j].at = "created" => call[j].box \in Box
    BY DEF ContainersTypeOK, CallRecord, IdleCall
  <2>5. CASE UNCHANGED <<container, returned>>
    BY <2>3, <2>5 DEF Mine, OnePerPort, Serves
  <2>6. CASE /\ container[b].by = k /\ ~Bound(call[k].port)
             /\ container' = [container EXCEPT ![b].state = "running"]
             /\ returned' \in {returned, [returned EXCEPT ![b] = call[k].port]}
    <3>1. container[b].port = call[k].port
      BY <2>1, <2>2, <2>6 DEF Mine
    <3>2. \A s \in Box : /\ container'[s].by = container[s].by
                         /\ container'[s].port = container[s].port
                         /\ s # b => container'[s].state = container[s].state
      BY <2>1, <2>6 DEF ContainersTypeOK, ContainerRecord, NoContainer
    <3>3. container'[b].state = "running"
      BY <2>1, <2>6 DEF ContainersTypeOK, ContainerRecord, NoContainer
    <3>4. \A j \in StartCall : Mine(j)'
      BY <2>3, <2>4, <3>2 DEF Mine
    <3>5. OnePerPort'
      BY <2>6, <3>1, <3>2 DEF OnePerPort, Bound
    <3>6. \A s \in Box : Serves(s)'
      BY <2>1, <2>6, <3>1, <3>2, <3>3 DEF Serves, ContainersTypeOK
    <3> QED
      BY <3>4, <3>5, <3>6
  <2> QED
    BY <1>4, <2>5, <2>6 DEF StartContainer
<1>5. ASSUME NEW s \in Box, StopServer(s) PROVE PortsInv'
  <2>1. /\ call' = call /\ returned' = [returned EXCEPT ![s] = NoPort]
        /\ \A r \in Box : /\ container'[r].by = container[r].by
                          /\ container'[r].port = container[r].port
                          /\ r # s => container'[r].state = container[r].state
        /\ container'[s].state = "exited"
    BY <1>5 DEF StopServer, ContainersTypeOK, ContainerRecord, NoContainer
  <2>2. \A j \in StartCall : call[j].at = "created" => call[j].box \in Box
    BY DEF ContainersTypeOK, CallRecord, IdleCall
  <2> QED
    BY <2>1, <2>2 DEF Mine, OnePerPort, Serves, ContainersTypeOK
<1>6. ASSUME NEW s \in Box, NEW purge \in BOOLEAN, RemoveServer(s, purge) PROVE PortsInv'
  <2>1. CASE UNCHANGED <<call, container, returned>>
    BY <2>1 DEF Mine, OnePerPort, Serves
  <2>2. CASE /\ call' = call /\ container' = [container EXCEPT ![s] = NoContainer]
             /\ returned' = [returned EXCEPT ![s] = NoPort]
    <3>1. \A j \in StartCall : call[j].at = "created" => call[j].box \in Box
      BY DEF ContainersTypeOK, CallRecord, IdleCall
    <3>2. NoContainer.state = "none" /\ NoContainer.by \notin StartCall
      BY ContainersAssumption DEF NoContainer
    <3> QED
      BY <2>2, <3>1, <3>2 DEF Mine, OnePerPort, Serves, ContainersTypeOK
  <2> QED
    BY <1>6, <2>1, <2>2 DEF RemoveServer
<1>7. ASSUME NEW s \in Box, NEW state \in {"running", "restarting", "exited"},
             Moved(s, state), container[s].state \in {"running", "restarting"},
             state = "running" => ~Bound(container[s].port)
      PROVE  PortsInv'
  <2>1. /\ call' = call /\ returned' = returned
        /\ \A r \in Box : /\ container'[r].by = container[r].by
                          /\ container'[r].port = container[r].port
                          /\ r # s => container'[r].state = container[r].state
        /\ container'[s].state = state
    BY <1>7 DEF Moved, ContainersTypeOK, ContainerRecord, NoContainer
  <2>2. \A j \in StartCall : call[j].at = "created" => call[j].box \in Box
    BY DEF ContainersTypeOK, CallRecord, IdleCall
  <2>3. \A j \in StartCall : Mine(j)'
    BY <2>1, <2>2 DEF Mine
  <2>4. OnePerPort'
    BY <1>7, <2>1 DEF OnePerPort, Bound
  <2>5. \A r \in Box : Serves(r)'
    BY <2>1 DEF Serves
  <2> QED
    BY <2>3, <2>4, <2>5
<1>8. ASSUME NEW s \in Box, ContainerExits(s) PROVE PortsInv'
  BY <1>7, <1>8 DEF ContainerExits, Moved
<1>9. ASSUME NEW s \in Box, RestartByPolicy(s) PROVE PortsInv'
  <2>1. CASE Bound(container[s].port)
    BY <1>7, <1>9, <2>1 DEF RestartByPolicy, Moved
  <2>2. CASE ~Bound(container[s].port)
    BY <1>7, <1>9, <2>2 DEF RestartByPolicy, Moved
  <2> QED
    BY <2>1, <2>2
<1> QED
  BY <1>1, <1>2, <1>3, <1>4, <1>5, <1>6, <1>8, <1>9
  DEF ContainersNext, containerVars, ServerWrites, MaterializeScratch, CleanupScratch

\* A port that StartServer returned is, until the server is stopped or removed,
\* the port of its container, which was started, and while it runs no other
\* server of the host is reached there, although calls overlap and may have
\* picked the same free port, containers exit on their own and come back by
\* their restart policy, and docker's calls fail.
THEOREM ReturnedPortServesThm == ContainersSpec => []ReturnedPortServes
<1>1. ContainersInit => PortsInv
  BY ContainersAssumption
  DEF ContainersInit, PortsInv, ContainersTypeOK, Mine, OnePerPort, Serves, IdleCall, NoContainer
<1>2. PortsInv => ReturnedPortServes
  BY DEF PortsInv, OnePerPort, Serves, ReturnedPortServes
<1> QED
  BY <1>1, <1>2, PortsStep, PTL DEF ContainersSpec

-----------------------------------------------------------------------------
\* The database provisioner.

\* What MariaDB holds for a Create that got as far as its program counter and
\* that no Drop has met.
Provisioned(c) ==
    /\ creating[c] \in {"begin", "user"} => password # c
    /\ ~undone[c] =>
        /\ creating[c] \in {"user", "grant", "flush", "ok"} => database
        /\ creating[c] \in {"grant", "flush", "ok"} =>
              password # NoUser /\ (~found[c] => password = c)
        /\ creating[c] \in {"flush", "ok"} => granted

ProvisionerInv ==
    /\ creating \in [CreateCall -> {"begin", "user", "grant", "flush", "ok", "error"}]
    /\ password \in CreateCall \cup {NoUser}
    /\ found \in [CreateCall -> BOOLEAN] /\ undone \in [CreateCall -> BOOLEAN]
    /\ database \in BOOLEAN /\ granted \in BOOLEAN
    /\ \A c \in CreateCall : Provisioned(c)

\* The order of the statements.
LEMMA NextStatement ==
    /\ DOMAIN Queries = {"begin", "user", "grant", "flush"}
    /\ Queries["begin"] = "user" /\ Queries["user"] = "grant"
    /\ Queries["grant"] = "flush" /\ Queries["flush"] = "ok"
BY DEF Queries

\* ProvisionerInv is inductive: one case per statement of Create, and Drop.
LEMMA ProvisionerStep == ProvisionerInv /\ [ProvisionerNext]_sqlVars => ProvisionerInv'
<1> SUFFICES ASSUME ProvisionerInv, [ProvisionerNext]_sqlVars PROVE ProvisionerInv'
  OBVIOUS
<1> USE ProvisionerAssumption DEF ProvisionerInv
<1>1. CASE UNCHANGED sqlVars
  BY <1>1 DEF sqlVars, Provisioned
<1>2. CASE Drop
  BY <1>2 DEF Drop, Provisioned
<1>3. ASSUME NEW c \in CreateCall, Create(c) PROVE ProvisionerInv'
  <2>0. UNCHANGED undone
    BY <1>3 DEF Create
  <2>1. CASE creating' = [creating EXCEPT ![c] = "error"] /\ Nothing
    BY <2>0, <2>1 DEF Nothing, Provisioned
  <2>2. CASE creating[c] = "begin" /\ CreateDatabase
             /\ creating' \in {[creating EXCEPT ![c] = "user"], [creating EXCEPT ![c] = "error"]}
    BY <2>0, <2>2 DEF CreateDatabase, Provisioned
  <2>3. CASE creating[c] = "user" /\ CreateUser(c)
             /\ creating' \in {[creating EXCEPT ![c] = "grant"], [creating EXCEPT ![c] = "error"]}
    BY <2>0, <2>3 DEF CreateUser, Provisioned
  <2>4. CASE creating[c] = "grant" /\ Grant
             /\ creating' \in {[creating EXCEPT ![c] = "flush"], [creating EXCEPT ![c] = "error"]}
    BY <2>0, <2>4 DEF Grant, Provisioned
  <2>5. CASE creating[c] = "flush" /\ Nothing
             /\ creating' \in {[creating EXCEPT ![c] = "ok"], [creating EXCEPT ![c] = "error"]}
    BY <2>0, <2>5 DEF Nothing, Provisioned
  <2> QED
    BY <1>3, <2>1, <2>2, <2>3, <2>4, <2>5, NextStatement DEF Create, Execute
<1> QED
  BY <1>1, <1>2, <1>3 DEF ProvisionerNext

\* Credentials that Create returned work, exactly when the user did not exist
\* before, whatever statements of overlapping and retried calls fail, as long
\* as no Drop intervened.
THEOREM CredentialsWorkThm == ProvisionerSpec => []CredentialsWork
<1>1. ProvisionerInit => ProvisionerInv
  BY ProvisionerAssumption DEF ProvisionerInit, ProvisionerInv, Provisioned
<1>2. ProvisionerInv => CredentialsWork
  BY DEF ProvisionerInv, Provisioned, CredentialsWork
<1> QED
  BY <1>1, <1>2, ProvisionerStep, PTL DEF ProvisionerSpec

-----------------------------------------------------------------------------
\* The sign API.

SignMessage == [server : SignServer, state : Sign]

SignTypeOK ==
    /\ last \in [SignServer -> Sign \cup {NoSign}]
    /\ shown \in [SignServer -> Sign \cup {NoSign}]
    /\ sending \in [Publisher -> SignMessage \cup {NoSign}]
    /\ behind \in [SignServer -> BOOLEAN]

\* Unless the proxies are behind, a publish that is alone in flight carries the
\* state recorded last, and with none in flight that state is shown.
Abreast(s) ==
    ~behind[s] =>
        /\ InFlight(s) = {} => shown[s] = last[s]
        /\ \A p \in Publisher : InFlight(s) = {p} => sending[p].state = last[s]

SignInv == SignTypeOK /\ \A s \in SignServer : Abreast(s)

\* SignInv is inductive: the record under the mutex, and the publish outside.
LEMMA SignStep == SignInv /\ [SignNext]_signVars => SignInv'
<1> SUFFICES ASSUME SignInv, [SignNext]_signVars PROVE SignInv'
  OBVIOUS
<1> USE SignAssumption DEF SignInv, SignTypeOK
<1>1. CASE UNCHANGED signVars
  BY <1>1 DEF signVars, Abreast, InFlight
<1>2. ASSUME NEW p \in Publisher, NEW s \in SignServer, NEW st \in Sign, PublishRecord(p, s, st)
      PROVE  SignInv'
  <2> DEFINE msg == [server |-> s, state |-> st]
  <2>1. msg \in SignMessage /\ msg # NoSign /\ msg.server = s /\ msg.state = st
    BY DEF SignMessage
  <2> HIDE DEF msg
  <2>2. UNCHANGED <<shown, behind>> /\ last' = [last EXCEPT ![s] = st] /\ sending[p] = NoSign
    BY <1>2 DEF PublishRecord
  <2>3. CASE Duplicate(s, st)
    <3>1. last' = last /\ sending' = sending
      BY <1>2, <2>2, <2>3 DEF PublishRecord, Duplicate
    <3> QED
      BY <2>2, <3>1 DEF Abreast, InFlight
  <2>4. CASE ~Duplicate(s, st)
    <3>1. sending' = [sending EXCEPT ![p] = msg]
      BY <1>2, <2>4 DEF PublishRecord, msg
    <3>2. SignTypeOK'
      BY <2>1, <2>2, <3>1
    <3>3. ASSUME NEW t \in SignServer PROVE Abreast(t)'
      <4>1. CASE t = s
        <5>1. p \in InFlight(t)'
          BY <2>1, <3>1, <4>1 DEF InFlight
        <5>2. last'[t] = st /\ sending'[p].state = st
          BY <2>1, <2>2, <3>1, <4>1
        <5> QED
          BY <5>1, <5>2 DEF Abreast
      <4>2. CASE t # s
        <5>1. InFlight(t)' = InFlight(t)
          BY <2>1, <2>2, <3>1, <4>2 DEF InFlight
        <5>2. p \notin InFlight(t)
          BY <2>2 DEF InFlight
        <5>3. \A q \in Publisher : q # p => sending'[q] = sending[q]
          BY <3>1
        <5>4. last'[t] = last[t] /\ shown'[t] = shown[t] /\ behind'[t] = behind[t]
          BY <2>2, <4>2
        <5> QED
          BY <5>1, <5>2, <5>3, <5>4 DEF Abreast
      <4> QED
        BY <4>1, <4>2
    <3> QED
      BY <3>2, <3>3
  <2> QED
    BY <2>3, <2>4
<1>3. ASSUME NEW p \in Publisher, PublishSend(p) PROVE SignInv'
  <2> DEFINE s == sending[p].server
             x == sending[p].state
  <2>1. sending[p] \in SignMessage /\ s \in SignServer /\ x \in Sign /\ p \in InFlight(s)
    BY <1>3 DEF PublishSend, SignMessage, InFlight
  <2> HIDE DEF s, x
  <2>2. sending' = [sending EXCEPT ![p] = NoSign] /\ last' = last
    BY <1>3 DEF PublishSend
  <2>3. \/ /\ shown' = [shown EXCEPT ![s] = x]
           /\ behind' = [behind EXCEPT ![s] = InFlight(s) # {p} \/ (@ /\ x # last[s])]
        \/ shown' = shown /\ behind' = [behind EXCEPT ![s] = TRUE]
    BY <1>3 DEF PublishSend, s, x
  <2>4. SignTypeOK'
    BY <2>1, <2>2, <2>3
  <2>5. \A t \in SignServer : InFlight(t)' = InFlight(t) \ {p}
    BY <2>2 DEF InFlight
  <2>6. ASSUME NEW t \in SignServer PROVE Abreast(t)'
    <3>1. CASE t = s /\ ~behind'[t]
      <4>1. InFlight(s) = {p} /\ shown'[s] = x /\ (~behind[s] \/ x = last[s])
        BY <2>1, <2>3, <3>1
      <4>2. ~behind[s] => x = last[s]
        BY <2>1, <4>1 DEF Abreast, x
      <4>3. InFlight(t)' = {}
        BY <2>5, <3>1, <4>1
      <4> QED
        BY <2>2, <3>1, <4>1, <4>2, <4>3 DEF Abreast
    <3>2. CASE behind'[t]
      BY <3>2 DEF Abreast
    <3>3. CASE t # s
      <4>1. p \notin InFlight(t)
        BY <3>3 DEF InFlight, s
      <4>2. InFlight(t)' = InFlight(t)
        BY <2>5, <4>1
      <4>3. \A q \in Publisher : q # p => sending'[q] = sending[q]
        BY <2>2
      <4>4. shown'[t] = shown[t] /\ behind'[t] = behind[t]
        BY <2>1, <2>3, <3>3
      <4> QED
        BY <2>2, <4>1, <4>2, <4>3, <4>4 DEF Abreast
    <3> QED
      BY <3>1, <3>2, <3>3
  <2> QED
    BY <2>4, <2>6
<1> QED
  BY <1>1, <1>2, <1>3 DEF SignNext

\* When nothing is in flight for a server, the proxies show the state recorded
\* last, unless a publish failed or was overtaken and none has made up for it.
THEOREM SignsFollowThm == SignSpec => []SignsFollow
<1>1. SignInit => SignInv
  BY SignAssumption DEF SignInit, SignInv, SignTypeOK, Abreast, InFlight
<1>2. SignInv => SignsFollow
  BY DEF SignInv, Abreast, SignsFollow
<1> QED
  BY <1>1, <1>2, SignStep, PTL DEF SignSpec

-----------------------------------------------------------------------------
\* The daemon's shutdown.

\* How far shutdown has come bounds what may still be in flight.  The Once runs
\* it one time, so a server that is set up late is never drained.
ShutdownInv ==
    /\ grpc \in {"nil", "on", "draining", "off"} /\ http \in {"nil", "on", "draining", "off"}
    /\ grpc \in {"nil", "off"} => rpcs = {}
    /\ grpc = "draining" => once = "grpc"
    /\ http = "nil" => https = {}
    /\ http = "draining" => once = "http"
    /\ http = "off" => once = "done" /\ (https = {} \/ overdue)
    /\ main = "closed" => once = "done"

\* ShutdownInv is inductive.
LEMMA ShutdownStep == ShutdownInv /\ [DaemonNext]_daemonVars => ShutdownInv'
<1> SUFFICES ASSUME ShutdownInv, [DaemonNext]_daemonVars PROVE ShutdownInv'
  OBVIOUS
<1> USE DEF ShutdownInv
<1>1. CASE UNCHANGED daemonVars
  BY <1>1 DEF daemonVars
<1>2. CASE OpenCluster
  BY <1>2 DEF OpenCluster, Exit
<1>3. CASE JoinExisting
  BY <1>3 DEF JoinExisting, Exit
<1>4. CASE StartParts
  BY <1>4 DEF StartParts, Exit
<1>5. CASE Listen
  BY <1>5 DEF Listen
<1>6. CASE RegisterAndServe
  BY <1>6 DEF RegisterAndServe
<1>7. CASE StopServing
  BY <1>7 DEF StopServing
<1>8. CASE Signal
  BY <1>8 DEF Signal
<1>9. CASE BeginShutdown
  BY <1>9 DEF BeginShutdown
<1>10. CASE GracefulStop
  BY <1>10 DEF GracefulStop
<1>11. CASE HttpShutdown
  BY <1>11 DEF HttpShutdown
<1>12. CASE ServeReturns
  BY <1>12 DEF ServeReturns
<1>13. CASE CloseCluster
  BY <1>13 DEF CloseCluster, OnceReturned
<1>14. CASE RunReturns
  BY <1>14 DEF RunReturns
<1>15. CASE ClientCalls
  BY <1>15 DEF ClientCalls
<1>16. ASSUME NEW r \in Rpc, CallEnds(r) PROVE ShutdownInv'
  BY <1>16 DEF CallEnds
<1>17. ASSUME NEW h \in Http, RequestEnds(h) PROVE ShutdownInv'
  BY <1>17 DEF RequestEnds
<1> QED
  BY <1>1, <1>2, <1>3, <1>4, <1>5, <1>6, <1>7, <1>8, <1>9, <1>10, <1>11, <1>12, <1>13,
     <1>14, <1>15, <1>16, <1>17
  DEF DaemonNext, DaemonStep

\* The Raft node is closed only after every gRPC call has ended, and every HTTP
\* request but those that outlasted the deadline of http.Shutdown, unless a
\* server was set up after its turn to be shut down.
THEOREM QuiescentAtCloseThm == DaemonSpec => []QuiescentAtClose
<1>1. DaemonInit => ShutdownInv
  BY DEF DaemonInit, ShutdownInv
<1>2. ShutdownInv => QuiescentAtClose
  BY DEF ShutdownInv, QuiescentAtClose
<1> QED
  BY <1>1, <1>2, ShutdownStep, PTL DEF DaemonSpec
=============================================================================
