----------------------------- MODULE PlayerSync -----------------------------
(***************************************************************************)
(* Player-state transfer between game servers through Redis: the quit and  *)
(* pre-login handlers of the CloudBridge plugin (bridge/paper, package     *)
(* net.aethernet.cloud) and of the AetherPaper plugin (package             *)
(* net.aethernet.bridge.paper, with RedisStateStore of bridge/common).     *)
(* The jar carries both, plugin.yml naming the first and paper-plugin.yml  *)
(* the second, and both use the same Redis keys: `Paper` is the set of     *)
(* servers that run AetherPaper, the others run CloudBridge.               *)
(* The proxy runs AetherNetVelocityPlugin, which has no keys in Redis.     *)
(*                                                                         *)
(* Keys are per player, so one player is modelled.  A profile is abstracted*)
(* to a version: playing makes a new one, and to load an older one is to   *)
(* bring back what the player has since given away.  What is written is a  *)
(* blob: a version in the format of the plugin that wrote it, which the    *)
(* other plugin cannot read.                                               *)
(***************************************************************************)
EXTENDS Naturals, FiniteSets

CONSTANTS
    GameServer,   \* Minecraft servers
    Paper,        \* those with AetherPaper; the others have CloudBridge
    NoDatabase,   \* CloudBridge servers without a data source
    None,         \* absent key, nobody, nothing
    MaxVersion,   \* bound on the versions of the profile
    MaxLogins,    \* bound on logins
    MaxMisfortunes \* bound on the TTLs that run out on a live lock or on data,
                  \* waits that time out, calls that throw and crashes

ASSUME PlayerSyncAssumption ==
    /\ Paper \subseteq GameServer /\ NoDatabase \subseteq GameServer
    /\ None \notin GameServer
    /\ {MaxVersion, MaxLogins, MaxMisfortunes} \subseteq Nat

VARIABLES
    lock,      \* lock:player:{UUID}: None or the server that set it
    data,      \* player:data:{UUID}: None or a blob
    route,     \* player:route:{UUID}: None ("") or a server
    tracked,   \* the servers whose server:players:{SID} holds the player
    database,  \* player_profiles row: None or a blob
    session,   \* None or the game session
    login,     \* None or the login on its way through pre-login
    tasks,     \* quit handlers that have not finished
    pending,   \* CloudBridge's pendingProfiles on each server
    disk,      \* the server's own player file (external)
    truth,     \* history: the player's last version
    adverse,   \* history: which kinds of misfortune have happened
    budget     \* what is left of the bounds

redis == <<lock, data, route, tracked>>
vars == <<lock, data, route, tracked, database, session, login, tasks, pending,
          disk, truth, adverse, budget>>

Version == 0..MaxVersion
OrNone(S) == S \cup {None}
Adversity == {"overtaken", "early_quit", "expiry", "timeout",
              "failure", "index_failure", "crash", "format"}

\* The two serializers: CloudBridge's gzipped stream begins with the version
\* number 1, AetherPaper's is a gzipped Bukkit object stream.
Format(s) == IF s \in Paper THEN "bukkit" ELSE "version1"
Blob == [fmt : {"bukkit", "version1"}, version : Version]
Serialize(s, v) == [fmt |-> Format(s), version |-> v]

\* CloudBridge turns away what does not begin with 1, and AetherPaper's object
\* stream throws on what has not its header.
Readable(s, blob) == blob.fmt = Format(s)

Steps == {"lock", "set", "db", "route", "track", "del"}
LockRec == [srv : GameServer, ttl : BOOLEAN]
SessionRec == [srv : GameServer, inject : OrNone(Blob),
               pc : {"route", "track", "on"}, profile : Version]
LoginRec == [srv : GameServer, pc : {"wait", "check", "fetch", "join"}]
TaskRec == [srv : GameServer, profile : Version, pc : Steps, no : 0..MaxLogins]

ASSUME NoneAssumption ==
    /\ None \notin Version /\ None \notin Steps /\ None \notin Blob
    /\ None \notin LockRec /\ None \notin SessionRec /\ None \notin LoginRec

Spend(what) ==
    /\ budget[what] > 0
    /\ budget' = [budget EXCEPT ![what] = budget[what] - 1]

Init ==
    /\ lock = None /\ data = None /\ route = None /\ tracked = {}
    /\ database = None
    /\ session = None /\ login = None /\ tasks = {}
    /\ pending = [s \in GameServer |-> None]
    /\ disk = [s \in GameServer |-> 0]
    /\ truth = 0
    /\ adverse = {}
    /\ budget = [logins |-> MaxLogins, misfortunes |-> MaxMisfortunes]

-----------------------------------------------------------------------------
\* The player plays: items move, the profile changes (external).
Play ==
    /\ session # None /\ session.inject = None /\ truth < MaxVersion
    /\ truth' = truth + 1
    /\ session' = [session EXCEPT !.profile = truth + 1]
    /\ UNCHANGED <<redis, database, login, tasks, pending, disk, adverse, budget>>

\* Mutant: the profile to be injected is saved instead of the player's.
QuitSavesPending ==
    /\ session # None /\ session.pc = "on"
    /\ tasks' = tasks \cup {[srv |-> session.srv, profile |-> session.inject,
                             pc |-> "lock", no |-> budget.logins]}
    /\ disk' = [disk EXCEPT ![session.srv] = session.profile]
    /\ adverse' = adverse
    /\ session' = None
    /\ UNCHANGED <<redis, database, login, pending, truth, budget>>

\* PlayerQuitEvent.  CloudBridge serializes now and leaves the rest to an
\* asynchronous task; AetherPaper does it all in the event, whose calls to
\* Redis are the same task's steps.  The server saves its own file.  A
\* profile that waits to be injected is not yet what the player carries.
Quit ==
    /\ session # None /\ session.pc = "on"
    /\ tasks' = tasks \cup {[srv |-> session.srv, profile |-> session.profile,
                             pc |-> "lock", no |-> budget.logins]}
    /\ disk' = [disk EXCEPT ![session.srv] = session.profile]
    /\ adverse' = IF session.inject = None THEN adverse
                  ELSE adverse \cup {"early_quit"}
    /\ session' = None
    /\ UNCHANGED <<redis, database, login, pending, truth, budget>>

\* CloudBridge's serialize throws: the handler returns.
QuitUnserialized ==
    /\ session # None /\ session.srv \notin Paper
    /\ Spend("misfortunes")
    /\ adverse' = adverse \cup {"failure"}
    /\ disk' = [disk EXCEPT ![session.srv] = session.profile]
    /\ session' = None
    /\ UNCHANGED <<redis, database, login, tasks, pending, truth>>

\* The task moves on to a step, or ends (None).
Goto(t, pc) ==
    tasks' = (tasks \ {t}) \cup (IF pc = None THEN {} ELSE {[t EXCEPT !.pc = pc]})

\* Mutant: the lock is set without a TTL.
AcquireLockForever(t) ==
    /\ t.pc = "lock"
    /\ IF lock = None
       THEN lock' = [srv |-> t.srv, ttl |-> FALSE] /\ Goto(t, "set")
       ELSE UNCHANGED lock /\ Goto(t, None)
    /\ UNCHANGED <<data, route, tracked, database, session, login, pending, disk,
                   truth, adverse, budget>>

\* SET NX with a TTL of 10s (CloudBridge) or 30s (AetherPaper).  When the lock
\* is taken the handler gives up: nothing is written for this quit.
AcquireLock(t) ==
    /\ t.pc = "lock"
    /\ IF lock = None
       THEN lock' = [srv |-> t.srv, ttl |-> TRUE] /\ Goto(t, "set")
       ELSE UNCHANGED lock /\ Goto(t, None)
    /\ UNCHANGED <<data, route, tracked, database, session, login, pending, disk,
                   truth, adverse, budget>>

\* The profile goes to player:data.
StoreData(t) ==
    /\ t.pc = "set"
    /\ data' = Serialize(t.srv, t.profile)
    /\ Goto(t, IF t.srv \in Paper THEN "route" ELSE "db")
    /\ UNCHANGED <<lock, route, tracked, database, session, login, pending, disk,
                   truth, adverse, budget>>

\* persistProfileToMariaDB, which returns at once without a data source.
PersistProfile(t) ==
    /\ t.pc = "db"
    /\ database' = IF t.srv \in NoDatabase THEN database
                   ELSE Serialize(t.srv, t.profile)
    /\ Goto(t, "del")
    /\ UNCHANGED <<redis, session, login, pending, disk, truth, adverse, budget>>

\* setRoute(uuid, "").
ClearRoute(t) ==
    /\ t.pc = "route"
    /\ route' = None
    /\ Goto(t, "track")
    /\ UNCHANGED <<lock, data, tracked, database, session, login, pending, disk,
                   truth, adverse, budget>>

\* Mutant: the player is never taken off the server's list.
TrackOfflineForgotten(t) ==
    /\ t.pc = "track"
    /\ Goto(t, "del")
    /\ UNCHANGED <<redis, database, session, login, pending, disk, truth, adverse,
                   budget>>

\* trackOnline(uuid, serverId, false).
TrackOffline(t) ==
    /\ t.pc = "track"
    /\ tracked' = tracked \ {t.srv}
    /\ Goto(t, "del")
    /\ UNCHANGED <<lock, data, route, database, session, login, pending, disk,
                   truth, adverse, budget>>

\* One of those calls throws.  Inside the try both handlers go to their
\* finally block; SET NX is before it and DEL after it: the handler ends.
TaskFails(t) ==
    /\ Spend("misfortunes")
    /\ adverse' = adverse \cup CASE t.pc \in {"lock", "set"} -> {"failure"}
                                [] t.pc \in {"db", "del"} -> {}
                                [] OTHER -> {"index_failure"}
    /\ Goto(t, IF t.pc \in {"lock", "del"} THEN None ELSE "del")
    /\ UNCHANGED <<redis, database, session, login, pending, disk, truth>>

\* The finally block deletes the key, whoever holds it by now.
ReleaseLock(t) ==
    /\ t.pc = "del"
    /\ lock' = None
    /\ Goto(t, None)
    /\ UNCHANGED <<data, route, tracked, database, session, login, pending, disk,
                   truth, adverse, budget>>

-----------------------------------------------------------------------------
\* The proxy sends the player to a server (external): pre-login begins.  Only
\* a player who has left one server arrives at the next.
Connect(s) ==
    /\ session = None /\ login = None
    /\ Spend("logins")
    /\ login' = [srv |-> s, pc |-> "wait"]
    /\ UNCHANGED <<redis, database, session, tasks, pending, disk, truth, adverse>>

\* What a login may overtake: a quit that has not set the lock yet.
Overtaking == IF \E t \in tasks : t.pc = "lock" THEN {"overtaken"} ELSE {}

\* Mutant: the profile is fetched without a look at the lock.
PassLockUnchecked ==
    /\ login # None /\ login.pc = "wait"
    /\ login' = [login EXCEPT !.pc = IF login.srv \in Paper THEN "check" ELSE "fetch"]
    /\ adverse' = adverse \cup Overtaking
    /\ UNCHANGED <<redis, database, session, tasks, pending, disk, truth, budget>>

\* A poll finds no lock.
PassLock ==
    /\ login # None /\ login.pc = "wait" /\ lock = None
    /\ login' = [login EXCEPT !.pc = IF login.srv \in Paper THEN "check" ELSE "fetch"]
    /\ adverse' = adverse \cup Overtaking
    /\ UNCHANGED <<redis, database, session, tasks, pending, disk, truth, budget>>

\* The wait is over and the lock still there: after 5s CloudBridge proceeds,
\* after 2s AetherPaper leaves its loop.
WaitTimeout ==
    /\ login # None /\ login.pc = "wait" /\ lock # None
    /\ Spend("misfortunes")
    /\ IF login.srv \in Paper
       THEN login' = [login EXCEPT !.pc = "check"] /\ UNCHANGED adverse
       ELSE /\ login' = [login EXCEPT !.pc = "fetch"]
            /\ adverse' = adverse \cup {"timeout"}
    /\ UNCHANGED <<redis, database, session, tasks, pending, disk, truth>>

\* AetherPaper asks once more after its loop, and kicks a player whose lock is
\* there, still or again.
CheckLockAgain ==
    /\ login # None /\ login.pc = "check"
    /\ login' = IF lock = None THEN [login EXCEPT !.pc = "join"] ELSE None
    /\ UNCHANGED <<redis, database, session, tasks, pending, disk, truth, adverse,
                   budget>>

\* A call to Redis throws in pre-login: the event ends without a profile and
\* without a refusal, and the login goes on.
PreLoginFails ==
    /\ login # None /\ login.pc # "join"
    /\ Spend("misfortunes")
    /\ login' = [login EXCEPT !.pc = "join"]
    /\ adverse' = adverse \cup {"failure"}
    /\ UNCHANGED <<redis, database, session, tasks, pending, disk, truth>>

\* CloudBridge: what Redis has is kept for the join; nothing there leaves
\* what an earlier login may have left.
FetchProfile ==
    /\ login # None /\ login.pc = "fetch"
    /\ pending' = IF data = None THEN pending
                  ELSE [pending EXCEPT ![login.srv] = data]
    /\ login' = [login EXCEPT !.pc = "join"]
    /\ UNCHANGED <<redis, database, session, tasks, disk, truth, adverse, budget>>

\* The player disconnects after pre-login; pendingProfiles is not cleared.
LoginAborted ==
    /\ login # None
    /\ login' = None
    /\ UNCHANGED <<redis, database, session, tasks, pending, disk, truth, adverse,
                   budget>>

\* PlayerJoinEvent.  CloudBridge schedules the injection of the pending
\* profile for the next tick.  AetherPaper loads player:data now, on a main
\* thread that is not inside a quit, and has the server save what it loaded;
\* a blob that it cannot read ends onJoin with an exception, short of setRoute
\* and trackOnline.  Without a profile the server's own file counts.
Join ==
    /\ login # None /\ login.pc = "join"
    /\ login' = None
    /\ LET s == login.srv
           blob == IF s \in Paper THEN data ELSE pending[s]
           legible == blob = None \/ Readable(s, blob)
           profile == IF s \in Paper /\ legible /\ blob # None THEN blob.version
                      ELSE disk[s]
       IN
       /\ adverse' = IF legible THEN adverse ELSE adverse \cup {"format"}
       /\ disk' = [disk EXCEPT ![s] = profile]
       /\ IF s \in Paper
          THEN /\ \A t \in tasks : t.srv # s
               /\ session' = [srv |-> s, inject |-> None, profile |-> profile,
                              pc |-> IF legible THEN "route" ELSE "on"]
               /\ UNCHANGED pending
          ELSE /\ session' = [srv |-> s, inject |-> blob, profile |-> profile,
                              pc |-> "on"]
               /\ pending' = [pending EXCEPT ![s] = None]
    /\ UNCHANGED <<redis, database, tasks, truth, budget>>

\* CloudBridge injects the profile; one that it cannot read gets the player a
\* message and changes nothing.
Inject ==
    /\ session # None /\ session.inject # None
    /\ session' = [session EXCEPT
                      !.profile = IF Readable(session.srv, session.inject)
                                  THEN session.inject.version ELSE session.profile,
                      !.inject = None]
    /\ UNCHANGED <<redis, database, login, tasks, pending, disk, truth, adverse,
                   budget>>

\* The profile cannot be loaded or injected: CloudBridge logs it, AetherPaper's
\* onJoin ends there and does not get to setRoute.
InjectFails ==
    /\ Spend("misfortunes")
    /\ adverse' = adverse \cup {"failure"}
    /\ \/ /\ session # None /\ session.inject # None
          /\ session' = [session EXCEPT !.inject = None]
          /\ UNCHANGED login
       \/ /\ login # None /\ login.pc = "join" /\ login.srv \in Paper
          /\ \A t \in tasks : t.srv # login.srv
          /\ session' = [srv |-> login.srv, inject |-> None, pc |-> "on",
                         profile |-> disk[login.srv]]
          /\ login' = None
    /\ UNCHANGED <<redis, database, tasks, pending, disk, truth>>

\* AetherPaper's onJoin goes on: setRoute, then trackOnline.
JoinRoute ==
    /\ session # None /\ session.pc = "route"
    /\ route' = session.srv
    /\ session' = [session EXCEPT !.pc = "track"]
    /\ UNCHANGED <<lock, data, tracked, database, login, tasks, pending, disk,
                   truth, adverse, budget>>

JoinTrack ==
    /\ session # None /\ session.pc = "track"
    /\ tracked' = tracked \cup {session.srv}
    /\ session' = [session EXCEPT !.pc = "on"]
    /\ UNCHANGED <<lock, data, route, database, login, tasks, pending, disk,
                   truth, adverse, budget>>

\* One of the two throws, and onJoin ends.
JoinFails ==
    /\ session # None /\ session.pc # "on"
    /\ Spend("misfortunes")
    /\ adverse' = adverse \cup {"index_failure"}
    /\ session' = [session EXCEPT !.pc = "on"]
    /\ UNCHANGED <<redis, database, login, tasks, pending, disk, truth>>

-----------------------------------------------------------------------------
\* Redis drops the lock when its TTL runs out: for certain when the holder is
\* gone, by misfortune when it still works.
LockExpires ==
    /\ lock # None /\ lock.ttl
    /\ IF \E t \in tasks : t.pc # "lock"
       THEN Spend("misfortunes") /\ adverse' = adverse \cup {"expiry"}
       ELSE UNCHANGED <<budget, adverse>>
    /\ lock' = None
    /\ UNCHANGED <<data, route, tracked, database, session, login, tasks, pending,
                   disk, truth>>

\* The profile lives 30s (CloudBridge) or 5m (AetherPaper).  Nobody misses it
\* while the player plays; the next quit writes another.
DataExpires ==
    /\ data # None
    /\ Spend("misfortunes")
    /\ data' = None
    /\ adverse' = IF session # None THEN adverse ELSE adverse \cup {"expiry"}
    /\ UNCHANGED <<lock, route, tracked, database, session, login, tasks, pending,
                   disk, truth>>

\* A game server dies with its session, its login, its quit tasks and its
\* memory.
Crash(s) ==
    LET lost == (session # None /\ session.srv = s) \/ \E t \in tasks : t.srv = s IN
    /\ Spend("misfortunes")
    /\ session' = IF session # None /\ session.srv = s THEN None ELSE session
    /\ login' = IF login # None /\ login.srv = s THEN None ELSE login
    /\ tasks' = {t \in tasks : t.srv # s}
    /\ pending' = [pending EXCEPT ![s] = None]
    /\ adverse' = IF lost THEN adverse \cup {"crash"} ELSE adverse
    /\ UNCHANGED <<redis, database, disk, truth>>

-----------------------------------------------------------------------------
TaskStep ==
    \E t \in tasks : \/ AcquireLock(t) \/ StoreData(t) \/ PersistProfile(t)
                     \/ ClearRoute(t) \/ TrackOffline(t) \/ ReleaseLock(t)

Next ==
    \/ Play \/ Quit \/ QuitUnserialized
    \/ TaskStep
    \/ \E t \in tasks : TaskFails(t)
    \/ \E s \in GameServer : Connect(s) \/ Crash(s)
    \/ PassLock \/ WaitTimeout \/ CheckLockAgain \/ FetchProfile
    \/ PreLoginFails \/ LoginAborted
    \/ Join \/ Inject \/ InjectFails \/ JoinRoute \/ JoinTrack \/ JoinFails
    \/ LockExpires \/ DataExpires

Spec == Init /\ [][Next]_vars

\* Quit handlers run to their end, and Redis honours a TTL.
Fairness == WF_vars(TaskStep) /\ WF_vars(LockExpires)
FairSpec == Spec /\ Fairness

-----------------------------------------------------------------------------
\* Properties.

\* Keys, handlers and sessions have the values the code gives them.
TypeOK ==
    /\ lock \in OrNone(LockRec)
    /\ data \in OrNone(Blob) /\ database \in OrNone(Blob)
    /\ route \in OrNone(GameServer) /\ tracked \subseteq GameServer
    /\ session \in OrNone(SessionRec) /\ login \in OrNone(LoginRec)
    /\ tasks \subseteq TaskRec
    /\ pending \in [GameServer -> OrNone(Blob)]
    /\ disk \in [GameServer -> Version]
    /\ truth \in Version
    /\ adverse \subseteq Adversity

\* What the player carries, or is about to be given, is the last version.
FreshSession ==
    session # None =>
        truth = IF session.inject = None THEN session.profile
                ELSE session.inject.version

\* The transfer brings the last version along as long as no login overtakes a
\* quit, no quit precedes an injection, no lock or profile expires under a
\* transfer, no wait times out, no profile write fails, no server dies with
\* the player's data and no join meets a blob of the other plugin.  MariaDB
\* failures, index failures, aborted logins and kicks do no harm.
FreshWhenCalm == adverse \subseteq {"index_failure"} => FreshSession

\* What PlayerQuitHandler.kt:25-28 says of CloudBridge: what a login reads from
\* Redis is the post-quit snapshot, not an older one while the handler of that
\* quit is still to set the lock.
ReadsPostQuit ==
    (login # None /\ login.pc = "join" /\ pending[login.srv] # None) =>
        \A t \in tasks :
            (t.pc = "lock" /\ t.srv # login.srv) =>
                pending[login.srv].version >= t.profile

\* What AetherPaperPlugin.kt:24-26 says, of keys that RedisStateStore.kt:9 calls
\* shared: the profile that the last server left in player:data is what the
\* next one gives the player.
ProfileTransferred == adverse \subseteq {"format"} => FreshSession

\* Once a join has been recorded, the index that AetherPaper keeps names the
\* server the player is on, and no other; on a CloudBridge server it names none.
IndexWhenCalm ==
    (adverse = {} /\ session # None /\ session.pc = "on") =>
        IF session.srv \in Paper
        THEN route = session.srv /\ tracked = {session.srv}
        ELSE route = None /\ tracked = {}

\* No lock outlives its TTL, whatever becomes of the handler that set it: the
\* player is not locked out for ever.
LockFreed == lock # None ~> lock = None
=============================================================================
