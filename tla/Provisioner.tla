----------------------------- MODULE Provisioner ----------------------------
(***************************************************************************)
(* The database provisioner: Create and Drop for one database and its      *)
(* user, each a list of statements that MariaDB carries out one by one and *)
(* that stops at the first error.  A statement that returns an error may   *)
(* have taken effect.  Every Create has a password of its own, named after *)
(* the call.  MariaDB is external.                                         *)
(***************************************************************************)
EXTENDS Naturals

CONSTANTS
    CreateCall,    \* calls of Create for the database and the user
    NoUser,
    MaxDrops,      \* bound on calls of Drop
    MaxSqlFaults   \* bound on statements that return an error

ASSUME ProvisionerAssumption ==
    NoUser \notin CreateCall /\ {MaxDrops, MaxSqlFaults} \subseteq Nat

VARIABLES
    creating,   \* next statement of each Create, "ok" or "error"
    dropping,   \* next statement of Drop, or "idle"
    database, password, granted,   \* MariaDB
    found,      \* history: the user existed when CREATE USER ran
    undone,     \* history: a Drop did something since the call began
    drops, sqlFaults

sqlVars == <<creating, dropping, database, password, granted, found, undone,
             drops, sqlFaults>>

ProvisionerInit ==
    /\ creating = [c \in CreateCall |-> "begin"] /\ dropping = "idle"
    /\ database = FALSE /\ password = NoUser /\ granted = FALSE
    /\ found = [c \in CreateCall |-> FALSE] /\ undone = [c \in CreateCall |-> FALSE]
    /\ drops = 0 /\ sqlFaults = 0

SqlFault == sqlFaults < MaxSqlFaults /\ sqlFaults' = sqlFaults + 1

CreateDatabase == database' = TRUE /\ UNCHANGED <<password, granted, found>>

\* CREATE USER IF NOT EXISTS ... IDENTIFIED BY: a user that exists keeps its
\* password, which is not an error.
CreateUser(c) ==
    /\ password' = IF password = NoUser THEN c ELSE password
    /\ found' = [found EXCEPT ![c] = password # NoUser]
    /\ UNCHANGED <<database, granted>>

Grant == password # NoUser /\ granted' = TRUE /\ UNCHANGED <<database, password, found>>

Nothing == UNCHANGED <<database, password, granted, found>>

Queries == [begin |-> "user", user |-> "grant", grant |-> "flush", flush |-> "ok"]

Execute(c) ==
    \/ creating[c] = "begin" /\ CreateDatabase
    \/ creating[c] = "user" /\ CreateUser(c)
    \/ creating[c] = "grant" /\ Grant
    \/ creating[c] = "flush" /\ Nothing

\* Mutant: a statement that fails is logged, and the next one is tried.
CreateGoesOn(c) ==
    /\ creating[c] \in DOMAIN Queries
    /\ creating' = [creating EXCEPT ![c] = Queries[@]]
    /\ \/ Execute(c) /\ UNCHANGED sqlFaults
       \/ SqlFault /\ Nothing
    /\ UNCHANGED <<dropping, undone, drops>>

\* Create, one statement.  GRANT fails for a user that was dropped.
Create(c) ==
    /\ creating[c] \in DOMAIN Queries
    /\ \/ /\ Execute(c)
          /\ \/ creating' = [creating EXCEPT ![c] = Queries[@]] /\ UNCHANGED sqlFaults
             \/ creating' = [creating EXCEPT ![c] = "error"] /\ SqlFault
       \/ /\ creating[c] = "grant" /\ password = NoUser
          /\ creating' = [creating EXCEPT ![c] = "error"]
          /\ Nothing /\ UNCHANGED sqlFaults
       \/ /\ creating' = [creating EXCEPT ![c] = "error"]
          /\ Nothing /\ SqlFault
    /\ UNCHANGED <<dropping, undone, drops>>

\* Drop, one statement; dropping a database leaves the grants on it.
Drop ==
    /\ undone' = [c \in CreateCall |-> undone[c] \/ creating[c] # "begin"]
    /\ \/ /\ dropping = "idle" /\ drops < MaxDrops
          /\ drops' = drops + 1
          /\ database' = FALSE /\ UNCHANGED <<password, granted>>
          /\ \/ dropping' = "user" /\ UNCHANGED sqlFaults
             \/ dropping' = "idle" /\ SqlFault
       \/ /\ dropping = "user"
          /\ password' = NoUser /\ granted' = FALSE /\ UNCHANGED database
          /\ \/ dropping' = "idle" /\ UNCHANGED sqlFaults
             \/ dropping' = "idle" /\ SqlFault
          /\ UNCHANGED drops
    /\ UNCHANGED <<creating, found>>

ProvisionerNext == Drop \/ \E c \in CreateCall : Create(c)

ProvisionerSpec == ProvisionerInit /\ [][ProvisionerNext]_sqlVars

-----------------------------------------------------------------------------
\* Properties.

\* What Create returns, unless a Drop met it, is an account of a database that
\* exists, with all privileges on it, and with the password of this call when
\* the call created the user, through errors, retries and overlapping calls.
CredentialsWork ==
    \A c \in CreateCall : creating[c] = "ok" /\ ~undone[c] =>
        database /\ granted /\ (~found[c] => password = c)

\* What provisioner.go says: the result "contains the newly created database
\* credentials".  The password that Create returns, unless a Drop met the call,
\* opens the account.  CREATE USER IF NOT EXISTS leaves the password of a user
\* that exists, and Create returns the one it made up.
PasswordOpens ==
    \A c \in CreateCall : creating[c] = "ok" /\ ~undone[c] => password = c
=============================================================================
