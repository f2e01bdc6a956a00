------------------------------- MODULE MCHost -------------------------------
(***************************************************************************)
(* The components that look after a host and its servers, one at a time,   *)
(* as in MCEdge: they share no state, and focus picks the one that moves.  *)
(***************************************************************************)
EXTENDS Backup, Containers, Provisioner, SignAPI, Updater, Tokens, Daemon

VARIABLE focus

hostVars == <<focus, backupVars, containerVars, sqlVars, signVars, updaterVars,
              tokenVars, daemonVars>>

BackupMoves(A) ==
    /\ focus = "backup" /\ A
    /\ UNCHANGED <<focus, containerVars, sqlVars, signVars, updaterVars, tokenVars, daemonVars>>
ContainersMove(A) ==
    /\ focus = "containers" /\ A
    /\ UNCHANGED <<focus, backupVars, sqlVars, signVars, updaterVars, tokenVars, daemonVars>>
ProvisionerMoves(A) ==
    /\ focus = "provisioner" /\ A
    /\ UNCHANGED <<focus, backupVars, containerVars, signVars, updaterVars, tokenVars, daemonVars>>
SignsMove(A) ==
    /\ focus = "signs" /\ A
    /\ UNCHANGED <<focus, backupVars, containerVars, sqlVars, updaterVars, tokenVars, daemonVars>>
UpdaterMoves(A) ==
    /\ focus = "updater" /\ A
    /\ UNCHANGED <<focus, backupVars, containerVars, sqlVars, signVars, tokenVars, daemonVars>>
TokensMove(A) ==
    /\ focus = "tokens" /\ A
    /\ UNCHANGED <<focus, backupVars, containerVars, sqlVars, signVars, updaterVars, daemonVars>>
DaemonMoves(A) ==
    /\ focus = "daemon" /\ A
    /\ UNCHANGED <<focus, backupVars, containerVars, sqlVars, signVars, updaterVars, tokenVars>>

HostInit ==
    /\ focus \in {"backup", "containers", "provisioner", "signs", "updater", "tokens", "daemon"}
    /\ BackupInit /\ ContainersInit /\ ProvisionerInit /\ SignInit /\ UpdaterInit
    /\ TokensInit /\ DaemonInit
    /\ focus # "tokens" => tokenLeader = CHOOSE n \in TokenNode : TRUE
    /\ focus # "daemon" => ~joinAddr

HostNext ==
    \/ BackupMoves(BackupNext) \/ ContainersMove(ContainersNext)
    \/ ProvisionerMoves(ProvisionerNext) \/ SignsMove(SignNext)
    \/ UpdaterMoves(UpdaterNext) \/ TokensMove(TokensNext) \/ DaemonMoves(DaemonNext)

\* The fairness of each component, for the one that moves.
HostSpec ==
    /\ HostInit /\ [][HostNext]_hostVars
    /\ \A b \in Backups : /\ WF_hostVars(BackupMoves(BackupStep(b)))
                          /\ WF_hostVars(BackupMoves(Serve(b)))
    /\ WF_hostVars(UpdaterMoves(UpdaterStep))
    /\ \A n \in TokenNode : WF_hostVars(TokensMove(ApplyToken(n)))
    /\ WF_hostVars(DaemonMoves(DaemonStep))
    /\ WF_hostVars(DaemonMoves(ShortCallEnds))
=============================================================================
