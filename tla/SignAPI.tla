------------------------------- MODULE SignAPI ------------------------------
(***************************************************************************)
(* The sign API: the state of a server is recorded under a mutex and then, *)
(* outside of it, published to the proxies, unless it is the state recorded *)
(* last.  Redis is external: a publish may fail, and reaches the proxies    *)
(* at any time before it returns.                                          *)
(***************************************************************************)
EXTENDS Naturals

CONSTANTS
    Publisher,      \* goroutines that call Publish
    SignServer,
    Sign, NoSign,   \* states shown for a server
    MaxPublishes,   \* bound on calls of Publish
    MaxSignFaults   \* bound on publishes that fail

ASSUME SignAssumption ==
    /\ NoSign \notin Sign \cup [server : SignServer, state : Sign]
    /\ {MaxPublishes, MaxSignFaults} \subseteq Nat

VARIABLES
    last,       \* the map of the last states
    sending,    \* what each goroutine is publishing, or NoSign
    shown,      \* what the proxies show
    behind,     \* history: a publish failed, or was overtaken, and none has made up for it
    publishes, signFaults

signVars == <<last, sending, shown, behind, publishes, signFaults>>

SignInit ==
    /\ last = [s \in SignServer |-> NoSign] /\ shown = [s \in SignServer |-> NoSign]
    /\ sending = [p \in Publisher |-> NoSign]
    /\ behind = [s \in SignServer |-> FALSE]
    /\ publishes = 0 /\ signFaults = 0

InFlight(s) == {p \in Publisher : sending[p] # NoSign /\ sending[p].server = s}

\* Mutant: a server that has been published once is not published again.
DuplicateKnown(s, st) == last[s] # NoSign

\* ok && prev == st
Duplicate(s, st) == last[s] = st

\* Publish, under the mutex.
PublishRecord(p, s, st) ==
    /\ publishes < MaxPublishes /\ sending[p] = NoSign
    /\ publishes' = publishes + 1
    /\ last' = [last EXCEPT ![s] = st]
    /\ sending' = IF Duplicate(s, st) THEN sending
                  ELSE [sending EXCEPT ![p] = [server |-> s, state |-> st]]
    /\ UNCHANGED <<shown, behind, signFaults>>

\* Publish, the rest.
PublishSend(p) ==
    /\ sending[p] # NoSign
    /\ sending' = [sending EXCEPT ![p] = NoSign]
    /\ LET s == sending[p].server IN
       \/ /\ shown' = [shown EXCEPT ![s] = sending[p].state]
          /\ behind' = [behind EXCEPT ![s] = InFlight(s) # {p} \/ (@ /\ sending[p].state # last[s])]
          /\ UNCHANGED signFaults
       \/ /\ signFaults < MaxSignFaults /\ signFaults' = signFaults + 1
          /\ behind' = [behind EXCEPT ![s] = TRUE]
          /\ UNCHANGED shown
    /\ UNCHANGED <<last, publishes>>

SignNext ==
    \E p \in Publisher :
        PublishSend(p) \/ \E s \in SignServer, st \in Sign : PublishRecord(p, s, st)

SignSpec == SignInit /\ [][SignNext]_signVars

-----------------------------------------------------------------------------
\* Properties.

\* When nothing is being published for a server, the proxies show the state
\* that Publish was called with last, unless a publish failed or two
\* overlapped; and then any later publish that runs alone makes up for it.
SignsFollow ==
    \A s \in SignServer : InFlight(s) = {} /\ ~behind[s] => shown[s] = last[s]

\* "deduplicate": a call of Publish that sends nothing repeats a state that the
\* proxies show or that is on its way to them.  The state is recorded before
\* it is sent, so the retry of a publish that failed is taken for a duplicate.
DuplicateShown ==
    [][\A p \in Publisher, s \in SignServer, st \in Sign :
          PublishRecord(p, s, st) /\ sending' = sending =>
              shown[s] = st \/ InFlight(s) # {}]_signVars
=============================================================================
