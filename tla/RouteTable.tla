----------------------------- MODULE RouteTable -----------------------------
(***************************************************************************)
(* What a proxy's routing table promises to players, without the stream    *)
(* that keeps it: a name is bound only to an address at which a server of  *)
(* that name has been Ready, and is freed only when a server of that name  *)
(* has stopped or crashed.  Routing implements it.                         *)
(***************************************************************************)
CONSTANTS Name, Addr, None

VARIABLES
    readyAt,   \* the addresses at which a server of the name has been Ready
    gone,      \* the names of which a server has stopped or crashed
    table      \* name -> address, None when it is not registered

TableInit ==
    /\ readyAt = [n \in Name |-> {}]
    /\ gone = {}
    /\ table = [n \in Name |-> None]

\* The cluster records something about a server of the name.
Recorded(n) ==
    /\ \/ \E a \in Addr : readyAt' = [readyAt EXCEPT ![n] = @ \cup {a}]
       \/ UNCHANGED readyAt
    /\ gone' \in {gone, gone \cup {n}}
    /\ UNCHANGED table

\* The name is registered, or updated.
Bind(n) ==
    /\ \E a \in readyAt[n] : table' = [table EXCEPT ![n] = a]
    /\ UNCHANGED <<readyAt, gone>>

Free(n) ==
    /\ n \in gone
    /\ table' = [table EXCEPT ![n] = None]
    /\ UNCHANGED <<readyAt, gone>>

TableNext == \E n \in Name : Recorded(n) \/ Bind(n) \/ Free(n)

TableSpec == TableInit /\ [][TableNext]_<<readyAt, gone, table>>
=============================================================================
