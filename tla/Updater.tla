------------------------------- MODULE Updater ------------------------------
(***************************************************************************)
(* The mod updater: a loop that scans the jars of the host's servers and   *)
(* queues an update for every jar whose latest version differs.  The queue *)
(* is a channel that the daemon never receives from, and nothing remembers *)
(* what is queued, so every scan queues the same updates again until the   *)
(* channel is full and the loop blocks.  Modrinth is external.             *)
(***************************************************************************)
EXTENDS Naturals, Sequences

CONSTANTS
    Jar,
    NoMetadata,     \* jars readMetadata fails for
    Unidentified,   \* jars without a Modrinth project, as every plugin.yml
    Capacity,       \* of the channel Scheduled
    MaxReleases,    \* bound on versions that appear
    MaxApiFaults    \* bound on failing calls of Modrinth

ASSUME UpdaterAssumption ==
    /\ NoMetadata \cup Unidentified \subseteq Jar
    /\ {MaxReleases, MaxApiFaults} \subseteq Nat /\ Capacity \in Nat \ {0}

VARIABLES
    toScan,       \* jars the scan has not looked at
    outdated,   \* jars whose latest version is not the installed one
    scheduled,  \* the channel
    releases, apiFaults

updaterVars == <<toScan, outdated, scheduled, releases, apiFaults>>

UpdaterInit ==
    /\ toScan = {} /\ outdated = {} /\ scheduled = <<>> /\ releases = 0 /\ apiFaults = 0

\* Run: the ticker fires.
Scan ==
    /\ toScan = {}
    /\ toScan' = Jar
    /\ UNCHANGED <<outdated, scheduled, releases, apiFaults>>

\* Mutant: a jar without metadata ends the scan.
SkipJarEndsScan(j) ==
    /\ j \in NoMetadata \cup Unidentified \/ j \notin outdated
    /\ toScan' = IF j \in NoMetadata THEN {} ELSE toScan \ {j}
    /\ UNCHANGED <<scheduled, apiFaults>>

\* The jar has no metadata or no project, or it is up to date.
SkipJar(j) ==
    /\ j \in NoMetadata \cup Unidentified \/ j \notin outdated
    /\ toScan' = toScan \ {j}
    /\ UNCHANGED <<scheduled, apiFaults>>

\* LatestVersion returns an error.
LatestVersionFails(j) ==
    /\ j \notin NoMetadata \cup Unidentified
    /\ apiFaults < MaxApiFaults /\ apiFaults' = apiFaults + 1
    /\ toScan' = toScan \ {j}
    /\ UNCHANGED scheduled

\* The send to Scheduled, which blocks on a full channel.
Schedule(j) ==
    /\ j \in outdated \ (NoMetadata \cup Unidentified)
    /\ Len(scheduled) < Capacity
    /\ scheduled' = Append(scheduled, j)
    /\ toScan' = toScan \ {j}
    /\ UNCHANGED apiFaults

\* scanServer for one jar.
ScanJar == /\ \E j \in toScan : SkipJar(j) \/ LatestVersionFails(j) \/ Schedule(j)
           /\ UNCHANGED <<outdated, releases>>

\* A version appears on Modrinth.
Release(j) ==
    /\ releases < MaxReleases /\ releases' = releases + 1
    /\ outdated' = outdated \cup {j}
    /\ UNCHANGED <<toScan, scheduled, apiFaults>>

UpdaterNext == Scan \/ ScanJar \/ \E j \in Jar : Release(j)

UpdaterSpec == UpdaterInit /\ [][UpdaterNext]_updaterVars

\* The ticker fires, and a scan that is not blocked goes on.
UpdaterStep == Scan \/ ScanJar
UpdaterFairSpec == UpdaterSpec /\ WF_updaterVars(UpdaterStep)

-----------------------------------------------------------------------------
\* Properties.

Full == Len(scheduled) = Capacity

\* "schedules upgrades for the next restart": a jar with a Modrinth project
\* that has a new version is queued in the end, whatever the jars next to it
\* are like and however often Modrinth fails, unless the channel fills first.
UpdatesScheduled ==
    \A j \in Jar \ (NoMetadata \cup Unidentified) :
        j \in outdated ~> (Full \/ \E i \in DOMAIN scheduled : scheduled[i] = j)

\* The same without that escape: the Updater "schedules upgrades for the next
\* restart" and "the daemon drains" its channel.  Nothing receives from it, and
\* every scan queues the updates of the one before again.
EveryUpdateScheduled ==
    \A j \in Jar \ (NoMetadata \cup Unidentified) :
        j \in outdated ~> (\E i \in DOMAIN scheduled : scheduled[i] = j)
=============================================================================
