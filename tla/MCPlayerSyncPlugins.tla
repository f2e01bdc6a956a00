------------------------ MODULE MCPlayerSyncPlugins -------------------------
(***************************************************************************)
(* The player stays among the servers of one plugin, as in a network that  *)
(* has only that one; zone is the set of these servers.  AetherPaper does  *)
(* in the event what CloudBridge leaves to a task, but has more steps: it  *)
(* gets one misfortune.                                                    *)
(***************************************************************************)
EXTENDS PlayerSync

VARIABLE zone

OneMisfortune == INSTANCE PlayerSync WITH MaxMisfortunes <- 1

PluginsInit == \/ zone = GameServer \ Paper /\ Init
               \/ zone = Paper /\ OneMisfortune!Init

InZone == login' # None => login'.srv \in zone

PluginsSpec ==
    /\ PluginsInit
    /\ [][Next /\ InZone /\ UNCHANGED zone]_<<vars, zone>>
    /\ Fairness
=============================================================================
