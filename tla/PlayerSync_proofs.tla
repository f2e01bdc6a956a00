-------------------------- MODULE PlayerSync_proofs --------------------------
(***************************************************************************)
(* Proofs about PlayerSync, for every set of servers, whichever plugin each*)
(* of them runs, and every value of the bounds.                            *)
(***************************************************************************)
EXTENDS PlayerSync, TLAPS

BudgetType == [logins : 0..MaxLogins, misfortunes : Nat]

TypeInv == TypeOK /\ budget \in BudgetType

-----------------------------------------------------------------------------
\* What is spent leaves a whole budget.
LEMMA SpendKeeps ==
    ASSUME budget \in BudgetType, Spend("logins") \/ Spend("misfortunes")
    PROVE  budget' \in BudgetType
BY PlayerSyncAssumption DEF Spend, BudgetType

\* What a task is after it has moved on.
LEMMA GotoFields ==
    ASSUME NEW t \in TaskRec, NEW pc \in Steps
    PROVE  /\ [t EXCEPT !.pc = pc] \in TaskRec /\ [t EXCEPT !.pc = pc].pc = pc
           /\ [t EXCEPT !.pc = pc].srv = t.srv /\ [t EXCEPT !.pc = pc].profile = t.profile
BY DEF TaskRec

\* A task that moves on or ends leaves whole tasks.
LEMMA GotoKeeps ==
    ASSUME tasks \subseteq TaskRec, NEW t \in tasks, NEW pc \in OrNone(Steps), Goto(t, pc)
    PROVE  /\ tasks' \subseteq TaskRec
           /\ pc = None => tasks' = tasks \ {t}
           /\ pc \in Steps => tasks' = (tasks \ {t}) \cup {[t EXCEPT !.pc = pc]}
BY GotoFields, NoneAssumption DEF Goto, OrNone

\* What a server writes is a blob in its own format.
LEMMA SerializeType ==
    ASSUME NEW s \in GameServer, NEW v \in Version
    PROVE  /\ Serialize(s, v) \in Blob /\ Serialize(s, v) # None
           /\ Serialize(s, v).version = v /\ Serialize(s, v).fmt = Format(s)
<1>1. Serialize(s, v) \in Blob /\ Serialize(s, v).version = v /\ Serialize(s, v).fmt = Format(s)
  BY DEF Serialize, Format, Blob
<1> QED
  BY <1>1, NoneAssumption

\* The keys, handlers and sessions start with proper values.
LEMMA TypeInvInit == Init => TypeInv
BY PlayerSyncAssumption DEF Init, TypeInv, TypeOK, OrNone, Version, BudgetType, TaskRec

\* Every step of a quit handler keeps them.
LEMMA TaskTypes ==
    ASSUME TypeInv, TaskStep \/ \E t \in tasks : TaskFails(t)
    PROVE  TypeInv'
<1>0. tasks \subseteq TaskRec /\ budget \in BudgetType
  BY DEF TypeInv, TypeOK
<1>1. ASSUME NEW t \in tasks, AcquireLock(t) PROVE TypeInv'
  <2>1. t.srv \in GameServer
    BY <1>0 DEF TaskRec
  <2>2. tasks' \subseteq TaskRec
    BY <1>0, <1>1, GotoKeeps DEF AcquireLock, OrNone, Steps
  <2>3. [srv |-> t.srv, ttl |-> TRUE] \in LockRec /\ lock \in OrNone(LockRec)
    BY <2>1 DEF LockRec, TypeInv, TypeOK
  <2>4. lock' \in OrNone(LockRec)
    BY <1>1, <2>3 DEF AcquireLock, OrNone
  <2> QED
    BY <1>1, <2>2, <2>4 DEF AcquireLock, TypeInv, TypeOK
<1>2. ASSUME NEW t \in tasks, StoreData(t) PROVE TypeInv'
  <2>1. tasks' \subseteq TaskRec /\ t.profile \in Version /\ t.srv \in GameServer
    BY <1>0, <1>2, GotoKeeps DEF StoreData, OrNone, Steps, TaskRec
  <2>2. Serialize(t.srv, t.profile) \in Blob
    BY <2>1, SerializeType
  <2> QED
    BY <1>2, <2>1, <2>2 DEF StoreData, TypeInv, TypeOK, OrNone
<1>3. ASSUME NEW t \in tasks, PersistProfile(t) PROVE TypeInv'
  <2>1. tasks' \subseteq TaskRec /\ t.profile \in Version /\ t.srv \in GameServer
    BY <1>0, <1>3, GotoKeeps DEF PersistProfile, OrNone, Steps, TaskRec
  <2>2. Serialize(t.srv, t.profile) \in Blob
    BY <2>1, SerializeType
  <2> QED
    BY <1>3, <2>1, <2>2 DEF PersistProfile, redis, TypeInv, TypeOK, OrNone
<1>4. ASSUME NEW t \in tasks, ClearRoute(t) \/ TrackOffline(t) \/ ReleaseLock(t) PROVE TypeInv'
  <2>1. tasks' \subseteq TaskRec
    BY <1>0, <1>4, GotoKeeps DEF ClearRoute, TrackOffline, ReleaseLock, OrNone, Steps
  <2> QED
    BY <1>4, <2>1 DEF ClearRoute, TrackOffline, ReleaseLock, TypeInv, TypeOK, OrNone
<1>5. ASSUME NEW t \in tasks, TaskFails(t) PROVE TypeInv'
  <2>1. tasks' \subseteq TaskRec
    BY <1>0, <1>5, GotoKeeps DEF TaskFails, OrNone, Steps
  <2>2. adverse' \subseteq Adversity
    BY <1>5 DEF TaskFails, Adversity, TypeInv, TypeOK
  <2>3. budget' \in BudgetType
    BY <1>0, <1>5, SpendKeeps DEF TaskFails
  <2> QED
    BY <1>5, <2>1, <2>2, <2>3 DEF TaskFails, redis, TypeInv, TypeOK
<1> QED
  BY <1>1, <1>2, <1>3, <1>4, <1>5 DEF TaskStep

\* Every step keeps them.
LEMMA TypeInvStep == TypeInv /\ [Next]_vars => TypeInv'
<1> SUFFICES ASSUME TypeInv, [Next]_vars PROVE TypeInv'
  OBVIOUS
<1>0. /\ budget \in BudgetType /\ truth \in Version
      /\ session # None => session \in SessionRec
      /\ login # None => login \in LoginRec
      /\ pending \in [GameServer -> OrNone(Blob)] /\ disk \in [GameServer -> Version]
      /\ data \in OrNone(Blob) /\ tasks \subseteq TaskRec
  BY DEF TypeInv, TypeOK, OrNone
<1>1. CASE Play
  <2>1. truth + 1 \in Version
    BY <1>0, <1>1, PlayerSyncAssumption DEF Play, Version
  <2>2. session' \in SessionRec
    BY <1>0, <1>1, <2>1 DEF Play, SessionRec
  <2> QED
    BY <1>1, <2>1, <2>2 DEF Play, redis, TypeInv, TypeOK, OrNone
<1>2. CASE Quit
  <2> DEFINE t == [srv |-> session.srv, profile |-> session.profile, pc |-> "lock", no |-> budget.logins]
  <2>1. t \in TaskRec
    BY <1>0, <1>2 DEF Quit, SessionRec, TaskRec, Steps, BudgetType
  <2>2. tasks' \subseteq TaskRec
    BY <1>0, <1>2, <2>1 DEF Quit
  <2>3. disk' \in [GameServer -> Version]
    BY <1>0, <1>2 DEF Quit, SessionRec
  <2>4. adverse' \subseteq Adversity
    BY <1>2 DEF Quit, Adversity, TypeInv, TypeOK
  <2> QED
    BY <1>2, <2>2, <2>3, <2>4 DEF Quit, redis, TypeInv, TypeOK, OrNone
<1>3. CASE QuitUnserialized
  <2>1. disk' \in [GameServer -> Version]
    BY <1>0, <1>3 DEF QuitUnserialized, SessionRec
  <2>2. budget' \in BudgetType /\ adverse' \subseteq Adversity
    BY <1>0, <1>3, SpendKeeps DEF QuitUnserialized, Adversity, TypeInv, TypeOK
  <2> QED
    BY <1>3, <2>1, <2>2 DEF QuitUnserialized, redis, TypeInv, TypeOK, OrNone
<1>4. CASE TaskStep \/ \E t \in tasks : TaskFails(t)
  BY <1>4, TaskTypes
<1>5. ASSUME NEW s \in GameServer, Connect(s) PROVE TypeInv'
  <2>1. login' \in LoginRec
    BY <1>5 DEF Connect, LoginRec
  <2>2. budget' \in BudgetType
    BY <1>0, <1>5, SpendKeeps DEF Connect
  <2> QED
    BY <1>5, <2>1, <2>2 DEF Connect, redis, TypeInv, TypeOK, OrNone
<1>6. ASSUME NEW s \in GameServer, Crash(s) PROVE TypeInv'
  <2>1. budget' \in BudgetType /\ adverse' \subseteq Adversity
    BY <1>0, <1>6, SpendKeeps DEF Crash, Adversity, TypeInv, TypeOK
  <2>2. tasks' \subseteq TaskRec /\ pending' \in [GameServer -> OrNone(Blob)]
    BY <1>0, <1>6 DEF Crash, OrNone
  <2>3. session' \in OrNone(SessionRec) /\ login' \in OrNone(LoginRec)
    BY <1>6 DEF Crash, OrNone, TypeInv, TypeOK
  <2> QED
    BY <1>6, <2>1, <2>2, <2>3 DEF Crash, redis, TypeInv, TypeOK
<1>7. CASE PassLock \/ WaitTimeout \/ PreLoginFails
  <2>1. login' \in LoginRec
    BY <1>0, <1>7 DEF PassLock, WaitTimeout, PreLoginFails, LoginRec
  <2>2. adverse' \subseteq Adversity
    BY <1>7 DEF PassLock, WaitTimeout, PreLoginFails, Overtaking, Adversity, TypeInv, TypeOK
  <2>3. budget' \in BudgetType
    BY <1>0, <1>7, SpendKeeps DEF PassLock, WaitTimeout, PreLoginFails
  <2> QED
    BY <1>7, <2>1, <2>2, <2>3 DEF PassLock, WaitTimeout, PreLoginFails, redis, TypeInv, TypeOK, OrNone
<1>8. CASE CheckLockAgain \/ FetchProfile \/ LoginAborted
  <2>1. login' \in OrNone(LoginRec)
    BY <1>0, <1>8 DEF CheckLockAgain, FetchProfile, LoginAborted, LoginRec, OrNone
  <2>2. pending' \in [GameServer -> OrNone(Blob)]
    BY <1>0, <1>8 DEF CheckLockAgain, FetchProfile, LoginAborted, OrNone
  <2> QED
    BY <1>8, <2>1, <2>2 DEF CheckLockAgain, FetchProfile, LoginAborted, redis, TypeInv, TypeOK
<1>9. CASE Join
  <2> DEFINE s == login.srv
             blob == IF s \in Paper THEN data ELSE pending[s]
             legible == blob = None \/ Readable(s, blob)
             profile == IF s \in Paper /\ legible /\ blob # None THEN blob.version ELSE disk[s]
  <2>1. s \in GameServer
    BY <1>0, <1>9 DEF Join, LoginRec
  <2>2. blob \in OrNone(Blob)
    BY <1>0, <2>1
  <2>3. profile \in Version
    BY <1>0, <2>1, <2>2 DEF OrNone, Blob
  <2>4. /\ login' = None /\ disk' = [disk EXCEPT ![s] = profile]
        /\ adverse' \in {adverse, adverse \cup {"format"}}
        /\ \/ /\ session' = [srv |-> s, inject |-> None, profile |-> profile,
                              pc |-> IF legible THEN "route" ELSE "on"]
              /\ pending' = pending
           \/ /\ session' = [srv |-> s, inject |-> blob, profile |-> profile, pc |-> "on"]
              /\ pending' = [pending EXCEPT ![s] = None]
        /\ UNCHANGED <<redis, database, tasks, truth, budget>>
    BY <1>9 DEF Join
  <2> HIDE DEF s, blob, legible, profile
  <2>5. session' \in SessionRec
    BY <2>1, <2>2, <2>3, <2>4 DEF SessionRec, OrNone
  <2>6. pending' \in [GameServer -> OrNone(Blob)] /\ disk' \in [GameServer -> Version]
    BY <1>0, <2>3, <2>4 DEF OrNone
  <2>7. adverse' \subseteq Adversity
    BY <2>4 DEF Adversity, TypeInv, TypeOK
  <2> QED
    BY <2>4, <2>5, <2>6, <2>7 DEF redis, TypeInv, TypeOK, OrNone
<1>10. CASE Inject
  <2>1. session' \in SessionRec
    BY <1>0, <1>10 DEF Inject, SessionRec, OrNone, Blob
  <2> QED
    BY <1>10, <2>1 DEF Inject, redis, TypeInv, TypeOK, OrNone
<1>11. CASE InjectFails
  <2>1. budget' \in BudgetType /\ adverse' \subseteq Adversity
    BY <1>0, <1>11, SpendKeeps DEF InjectFails, Adversity, TypeInv, TypeOK
  <2>2. session' \in SessionRec /\ login' \in OrNone(LoginRec)
    BY <1>0, <1>11 DEF InjectFails, SessionRec, LoginRec, OrNone
  <2> QED
    BY <1>11, <2>1, <2>2 DEF InjectFails, redis, TypeInv, TypeOK, OrNone
<1>12. CASE JoinRoute \/ JoinTrack \/ JoinFails
  <2>1. session' \in SessionRec /\ session.srv \in GameServer
    BY <1>0, <1>12 DEF JoinRoute, JoinTrack, JoinFails, SessionRec
  <2>2. budget' \in BudgetType /\ adverse' \subseteq Adversity
    BY <1>0, <1>12, SpendKeeps DEF JoinRoute, JoinTrack, JoinFails, Adversity, TypeInv, TypeOK
  <2>3. route' \in OrNone(GameServer) /\ tracked' \subseteq GameServer
    BY <1>12, <2>1 DEF JoinRoute, JoinTrack, JoinFails, redis, TypeInv, TypeOK, OrNone
  <2> QED
    BY <1>12, <2>1, <2>2, <2>3 DEF JoinRoute, JoinTrack, JoinFails, redis, TypeInv, TypeOK, OrNone
<1>13. CASE LockExpires \/ DataExpires
  <2>1. budget' \in BudgetType /\ adverse' \subseteq Adversity
    BY <1>0, <1>13, SpendKeeps DEF LockExpires, DataExpires, Adversity, TypeInv, TypeOK
  <2> QED
    BY <1>13, <2>1 DEF LockExpires, DataExpires, TypeInv, TypeOK, OrNone
<1>14. CASE UNCHANGED vars
  BY <1>14 DEF vars, TypeInv, TypeOK
<1> QED
  BY <1>1, <1>2, <1>3, <1>4, <1>5, <1>6, <1>7, <1>8, <1>9, <1>10, <1>11, <1>12, <1>13, <1>14
  DEF Next

\* The types hold throughout.
LEMMA TypeInvariant == Spec => []TypeInv
BY TypeInvInit, TypeInvStep, PTL DEF Spec

\* Keys, handlers and sessions have the values the code gives them.
THEOREM TypeOKThm == Spec => []TypeOK
<1>1. TypeInv => TypeOK
  BY DEF TypeInv
<1> QED
  BY <1>1, TypeInvariant, PTL
-----------------------------------------------------------------------------
\* Nothing has happened that may cost the player a version.
Calm == adverse \subseteq {"index_failure"}

\* A quit handler is about to store the last version.
Carried == \E t \in tasks : t.pc \in {"lock", "set"} /\ t.profile = truth

\* Redis has the last version, or the player has never been anywhere.
Stored ==
    /\ \A t \in tasks : t.pc \notin {"lock", "set"}
    /\ \/ data # None /\ data.version = truth
       \/ /\ data = None /\ truth = 0
          /\ \A s \in GameServer : disk[s] = 0 /\ pending[s] = None

\* While the player is on no server the last version is on its way or in Redis.
Away == session = None => Carried \/ Stored

\* At most one quit handler is at work; it holds the lock once it has set it,
\* and nobody else does before.
Alone == \A t, u \in tasks : t = u
Holding == \A t \in tasks : (t.pc = "lock") <=> (lock = None)

\* While the player is on a server no handler is at work and nothing is locked.
Settled == session # None => tasks = {} /\ lock = None /\ login = None

\* So it is once a login has passed the lock; AetherPaper, which may also leave
\* its loop by time-out, has at least seen the handler begin.
Passed ==
    login # None =>
        /\ login.pc \in {"fetch", "join"} => tasks = {} /\ lock = None
        /\ login.pc = "check" => login.srv \in Paper /\ \A t \in tasks : t.pc # "lock"

\* What CloudBridge has fetched for the join is what Redis has.
Loaded == login # None /\ login.pc = "join" /\ login.srv \notin Paper => pending[login.srv] = data

\* What is about to be injected can be read.
Legible == session # None /\ session.inject # None => Readable(session.srv, session.inject)

TransferOK == Legible /\ Away /\ Alone /\ Holding /\ Settled /\ Passed /\ Loaded /\ FreshSession

TransferInv == Calm => TransferOK

\* What the index says of the player, by where the player is.
NoIndex == route = None /\ tracked = {}
IndexOfSession ==
    IF session.srv \notin Paper THEN session.pc = "on" /\ NoIndex
    ELSE /\ session.pc = "route" => NoIndex
         /\ session.pc = "track" => route = session.srv /\ tracked = {}
         /\ session.pc = "on" => route = session.srv /\ tracked = {session.srv}

\* What is left of it while a quit handler is at work.
IndexOfTask(t) ==
    IF t.srv \notin Paper THEN t.pc \in {"lock", "set", "db", "del"} /\ NoIndex
    ELSE /\ t.pc # "db"
         /\ t.pc \in {"lock", "set", "route"} => route = t.srv /\ tracked = {t.srv}
         /\ t.pc = "track" => route = None /\ tracked = {t.srv}
         /\ t.pc = "del" => NoIndex

IndexOK ==
    /\ session # None => IndexOfSession
    /\ session = None => \A t \in tasks : IndexOfTask(t)
    /\ session = None /\ tasks = {} => NoIndex

IndexInv == adverse = {} => IndexOK

-----------------------------------------------------------------------------
\* Misfortunes are not forgotten.
LEMMA AdverseGrows == [Next]_vars => adverse \subseteq adverse'
BY DEF Next, vars, Play, Quit, QuitUnserialized, TaskStep, AcquireLock, StoreData, PersistProfile,
       ClearRoute, TrackOffline, ReleaseLock, TaskFails, Connect, Crash, PassLock, WaitTimeout,
       CheckLockAgain, FetchProfile, PreLoginFails, LoginAborted, Join, Inject, InjectFails,
       JoinRoute, JoinTrack, JoinFails, LockExpires, DataExpires

\* A calm step of a quit handler.
LEMMA TransferTask ==
    ASSUME TypeInv, TransferOK, Calm', TaskStep \/ \E t \in tasks : TaskFails(t)
    PROVE  TransferOK'
<1>0. tasks \subseteq TaskRec
  BY DEF TypeInv, TypeOK
<1>1. ASSUME NEW t \in tasks, NEW pc \in Steps, Goto(t, pc), pc # "lock",
             t.pc = "lock" \/ UNCHANGED lock, lock' # None,
             UNCHANGED <<session, login, pending, disk, truth>>,
             \/ t.pc = "lock" /\ pc = "set" /\ UNCHANGED data
             \/ t.pc = "set" /\ data' = Serialize(t.srv, t.profile) /\ pc # "set"
             \/ t.pc \notin {"lock", "set"} /\ pc # "set" /\ UNCHANGED data
      PROVE  TransferOK'
  <2> DEFINE u == [t EXCEPT !.pc = pc]
  <2>1. tasks = {t}
    BY DEF TransferOK, Alone
  <2>2. tasks' = {u} /\ u.pc = pc /\ u.profile = t.profile
    BY <1>0, <1>1, <2>1, GotoKeeps, GotoFields DEF OrNone
  <2>3. session = None
    BY <2>1 DEF TransferOK, Settled
  <2> HIDE DEF u
  <2>5. /\ Serialize(t.srv, t.profile) # None
        /\ Serialize(t.srv, t.profile).version = t.profile
    BY <1>0, SerializeType DEF TaskRec
  <2>6. Away'
    <3>1. CASE pc = "set"
      <4>1. t.profile = truth
        BY <1>1, <2>1, <2>3, <3>1 DEF TransferOK, Away, Carried, Stored
      <4> QED
        BY <1>1, <2>2, <3>1, <4>1 DEF Away, Carried
    <3>2. CASE t.pc = "set"
      <4>1. t.profile = truth
        BY <2>1, <2>3, <3>2 DEF TransferOK, Away, Carried, Stored
      <4> QED
        BY <1>1, <2>2, <2>5, <3>2, <4>1 DEF Away, Stored
    <3>3. CASE t.pc \notin {"lock", "set"}
      <4>1. Stored
        BY <2>1, <2>3, <3>3 DEF TransferOK, Away, Carried
      <4> QED
        BY <1>1, <2>2, <3>3, <4>1 DEF Away, Stored
    <3> QED
      BY <1>1, <3>1, <3>2, <3>3
  <2>7. Alone' /\ Holding'
    BY <1>1, <2>2 DEF Alone, Holding
  <2>8. Settled' /\ FreshSession' /\ Passed' /\ Loaded' /\ Legible'
    BY <1>1, <2>1, <2>2, <2>3 DEF TransferOK, Settled, FreshSession, Passed, Loaded, Legible
  <2> QED
    BY <2>6, <2>7, <2>8 DEF TransferOK
<1>2. ASSUME NEW t \in tasks, t.pc = "del", Goto(t, None),
             UNCHANGED <<session, login, data, pending, disk, truth>>, lock' \in {None, lock}
      PROVE  TransferOK'
  <2>1. tasks = {t}
    BY DEF TransferOK, Alone
  <2>2. tasks' = {}
    BY <1>0, <1>2, <2>1, GotoKeeps DEF OrNone
  <2>3. session = None
    BY <2>1 DEF TransferOK, Settled
  <2>4. Away'
    BY <1>2, <2>1, <2>2, <2>3 DEF TransferOK, Away, Carried, Stored
  <2>5. Settled' /\ FreshSession' /\ Passed' /\ Loaded' /\ Alone' /\ Holding' /\ Legible'
    BY <1>2, <2>1, <2>2, <2>3
    DEF TransferOK, Settled, FreshSession, Passed, Loaded, Alone, Holding, Legible
  <2> QED
    BY <2>4, <2>5 DEF TransferOK
<1>3. ASSUME NEW t \in tasks, AcquireLock(t) PROVE TransferOK'
  <2>1. lock = None
    BY <1>3 DEF AcquireLock, TransferOK, Holding
  <2>2. t.srv \in GameServer
    BY <1>0 DEF TaskRec
  <2>3. [srv |-> t.srv, ttl |-> TRUE] \in LockRec
    BY <2>2 DEF LockRec
  <2>4. lock' # None /\ Goto(t, "set") /\ t.pc = "lock"
    BY <1>3, <2>1, <2>3, NoneAssumption DEF AcquireLock
  <2> QED
    BY <1>1, <1>3, <2>4 DEF AcquireLock, Steps
<1>4. ASSUME NEW t \in tasks, t.pc # "lock" PROVE lock # None
  BY <1>4 DEF TransferOK, Holding
<1>5. ASSUME NEW t \in tasks, StoreData(t) PROVE TransferOK'
  BY <1>1, <1>4, <1>5 DEF StoreData, Steps
<1>6. ASSUME NEW t \in tasks, PersistProfile(t) PROVE TransferOK'
  BY <1>1, <1>4, <1>6 DEF PersistProfile, redis, Steps
<1>7. ASSUME NEW t \in tasks, ClearRoute(t) PROVE TransferOK'
  BY <1>1, <1>4, <1>7 DEF ClearRoute, Steps
<1>8. ASSUME NEW t \in tasks, TrackOffline(t) PROVE TransferOK'
  BY <1>1, <1>4, <1>8 DEF TrackOffline, Steps
<1>9. ASSUME NEW t \in tasks, ReleaseLock(t) PROVE TransferOK'
  BY <1>2, <1>9 DEF ReleaseLock
<1>10. ASSUME NEW t \in tasks, TaskFails(t) PROVE TransferOK'
  <2>1. t.pc \in Steps /\ t.pc \notin {"lock", "set"}
    BY <1>0, <1>10 DEF TaskFails, Calm, TaskRec
  <2>2. CASE t.pc = "del"
    BY <1>2, <1>10, <2>2 DEF TaskFails, redis
  <2>3. CASE t.pc # "del"
    BY <1>1, <1>4, <1>10, <2>1, <2>3 DEF TaskFails, redis, Steps
  <2> QED
    BY <2>2, <2>3
<1> QED
  BY <1>3, <1>5, <1>6, <1>7, <1>8, <1>9, <1>10 DEF TaskStep

\* A calm step of the player, of a login or of Redis.
LEMMA TransferStep ==
    ASSUME TypeInv, TransferInv, [Next]_vars
    PROVE  TransferInv'
<1> SUFFICES ASSUME Calm' PROVE TransferOK'
  BY DEF TransferInv
<1>0. Calm /\ TransferOK
  BY AdverseGrows DEF Calm, TransferInv
<1>a. /\ session # None => session \in SessionRec
      /\ login # None => login \in LoginRec
      /\ pending \in [GameServer -> OrNone(Blob)] /\ disk \in [GameServer -> Version]
      /\ data \in OrNone(Blob) /\ tasks \subseteq TaskRec /\ truth \in Version
  BY DEF TypeInv, TypeOK, OrNone
<1>b. Legible /\ Away /\ Alone /\ Holding /\ Settled /\ Passed /\ Loaded /\ FreshSession
  BY <1>0 DEF TransferOK
\* The session goes on.
<1>1. ASSUME session # None, session' # None, UNCHANGED <<lock, login, tasks, pending, disk>>,
             FreshSession', Legible'
      PROVE  TransferOK'
  <2>1. login = None /\ tasks = {} /\ lock = None
    BY <1>1, <1>b DEF Settled
  <2> QED
    BY <1>1, <2>1
    DEF TransferOK, Away, Alone, Holding, Settled, Passed, Loaded
<1>2. CASE Play
  <2>1. session' \in SessionRec /\ session'.profile = truth' /\ session'.inject = None
    BY <1>2, <1>a, TypeInvStep DEF Play, SessionRec, TypeInv, TypeOK, Next, OrNone
  <2>2. session' # None
    BY <2>1, NoneAssumption
  <2> QED
    BY <1>1, <1>2, <2>1, <2>2 DEF Play, redis, FreshSession, Legible
<1>3. CASE Quit
  <2> DEFINE t == [srv |-> session.srv, profile |-> session.profile, pc |-> "lock", no |-> budget.logins]
  <2>1. session.inject = None /\ session # None
    BY <1>3 DEF Quit, Calm
  <2>2. tasks = {} /\ lock = None /\ login = None /\ session.profile = truth
    BY <1>b, <2>1 DEF Settled, FreshSession
  <2>3. tasks' = {t} /\ t.pc = "lock" /\ t.profile = truth
    BY <1>3, <2>2 DEF Quit
  <2> HIDE DEF t
  <2>4. UNCHANGED <<lock, login, data, pending, truth>> /\ session' = None
    BY <1>3 DEF Quit, redis
  <2> QED
    BY <2>2, <2>3, <2>4
    DEF TransferOK, Away, Carried, Alone, Holding, Settled, Passed, Loaded, FreshSession, Legible
<1>4. CASE QuitUnserialized \/ PreLoginFails \/ InjectFails
  BY <1>4 DEF QuitUnserialized, PreLoginFails, InjectFails, Calm
<1>5. CASE TaskStep \/ \E t \in tasks : TaskFails(t)
  BY <1>0, <1>5, TransferTask
\* The login goes on, while the player is on no server.
<1>6. ASSUME session = None, UNCHANGED <<lock, data, session, tasks, disk, truth>>, Passed', Loaded',
             pending' = pending \/ data # None
      PROVE  TransferOK'
  <2>1. Away'
    BY <1>6, <1>b DEF Away, Carried, Stored
  <2> QED
    BY <1>6, <1>b, <2>1 DEF TransferOK, Alone, Holding, Settled, FreshSession, Legible
<1>7. ASSUME NEW s \in GameServer, Connect(s) PROVE TransferOK'
  <2>1. login'.pc = "wait"
    BY <1>7 DEF Connect
  <2> QED
    BY <1>6, <1>7, <2>1 DEF Connect, redis, Passed, Loaded
<1>8. login # None => session = None
  BY <1>b DEF Settled
<1>9. CASE PassLock
  <2>1. lock = None /\ \A t \in tasks : t.pc # "lock"
    BY <1>9 DEF PassLock, Overtaking, Calm
  <2>2. tasks = {}
    BY <1>b, <2>1 DEF Holding
  <2>3. /\ login'.pc \in {"check", "fetch"} /\ login'.srv = login.srv
        /\ login'.pc = "check" => login.srv \in Paper
    BY <1>9, <1>a DEF PassLock, LoginRec
  <2> QED
    BY <1>6, <1>8, <1>9, <2>1, <2>2, <2>3 DEF PassLock, redis, Passed, Loaded
<1>10. CASE WaitTimeout
  <2>1. login.srv \in Paper
    BY <1>10 DEF WaitTimeout, Calm
  <2>2. login'.pc = "check" /\ login'.srv = login.srv
    BY <1>10, <1>a, <2>1 DEF WaitTimeout, LoginRec
  <2>3. \A t \in tasks : t.pc # "lock"
    BY <1>10, <1>b DEF WaitTimeout, Holding
  <2> QED
    BY <1>6, <1>8, <1>10, <2>1, <2>2, <2>3 DEF WaitTimeout, redis, Passed, Loaded
<1>11. CASE CheckLockAgain
  <2>1. CASE lock = None
    <3>1. \A t \in tasks : t.pc # "lock"
      BY <1>11, <1>b DEF CheckLockAgain, Passed
    <3>2. tasks = {} /\ login.srv \in Paper
      BY <1>11, <1>b, <2>1, <3>1 DEF CheckLockAgain, Passed, Holding
    <3>3. login'.pc = "join" /\ login'.srv = login.srv
      BY <1>11, <1>a, <2>1 DEF CheckLockAgain, LoginRec
    <3> QED
      BY <1>6, <1>8, <1>11, <2>1, <3>2, <3>3 DEF CheckLockAgain, redis, Passed, Loaded
  <2>2. CASE lock # None
    BY <1>6, <1>8, <1>11, <2>2 DEF CheckLockAgain, redis, Passed, Loaded
  <2> QED
    BY <2>1, <2>2
<1>12. CASE FetchProfile
  <2>1. tasks = {} /\ lock = None /\ session = None /\ login.srv \in GameServer
    BY <1>8, <1>12, <1>a, <1>b DEF FetchProfile, Passed, LoginRec
  <2>2. login'.pc = "join" /\ login'.srv = login.srv
    BY <1>12, <1>a DEF FetchProfile, LoginRec
  <2>3. pending'[login.srv] = data
    <3>1. CASE data = None
      <4>1. pending[login.srv] = None
        BY <1>b, <2>1, <3>1 DEF Away, Carried, Stored
      <4> QED
        BY <1>12, <3>1, <4>1 DEF FetchProfile
    <3>2. CASE data # None
      BY <1>12, <1>a, <2>1, <3>2 DEF FetchProfile
    <3> QED
      BY <3>1, <3>2
  <2>4. Passed' /\ Loaded'
    BY <1>12, <2>1, <2>2, <2>3 DEF FetchProfile, redis, Passed, Loaded
  <2> QED
    BY <1>6, <1>12, <2>1, <2>4 DEF FetchProfile, redis
<1>13. CASE LoginAborted
  BY <1>6, <1>8, <1>13 DEF LoginAborted, redis, Passed, Loaded
<1>14. CASE Join
  <2> DEFINE s == login.srv
             blob == IF s \in Paper THEN data ELSE pending[s]
             legible == blob = None \/ Readable(s, blob)
             profile == IF s \in Paper /\ legible /\ blob # None THEN blob.version ELSE disk[s]
  <2>1. tasks = {} /\ lock = None /\ session = None /\ s \in GameServer
    BY <1>8, <1>14, <1>a, <1>b DEF Join, Passed, LoginRec
  <2>2. blob = data
    BY <1>14, <1>b DEF Join, Loaded
  <2>3. \/ data # None /\ data.version = truth
        \/ data = None /\ truth = 0 /\ disk[s] = 0
    BY <1>b, <2>1 DEF Away, Carried, Stored
  <2>4. legible
    BY <1>14 DEF Join, Calm
  <2>5. /\ UNCHANGED <<lock, tasks, truth>> /\ login' = None
        /\ s \in Paper => session' = [srv |-> s, inject |-> None, profile |-> profile,
                                       pc |-> IF legible THEN "route" ELSE "on"]
        /\ s \notin Paper => session' = [srv |-> s, inject |-> blob, profile |-> profile,
                                          pc |-> "on"]
    BY <1>14 DEF Join, redis
  <2>6. session' # None
    <3>1. session' \in OrNone(SessionRec)
      BY TypeInvStep DEF TypeInv, TypeOK
    <3>2. profile \in Version /\ blob \in OrNone(Blob)
      BY <1>a, <2>1 DEF OrNone, Blob
    <3> HIDE DEF s, blob, legible, profile
    <3>3. session' \in SessionRec
      BY <2>1, <2>5, <3>2 DEF SessionRec, OrNone
    <3> QED
      BY <3>3, NoneAssumption
  <2>7. /\ s \in Paper => session'.inject = None /\ session'.profile = truth
        /\ s \notin Paper => session'.inject = blob /\ session'.profile = disk[s] /\ session'.srv = s
    BY <2>2, <2>3, <2>4, <2>5
  <2>8. FreshSession' /\ Legible'
    BY <2>2, <2>3, <2>4, <2>5, <2>7 DEF FreshSession, Legible, Readable, Format
  <2> QED
    BY <2>1, <2>5, <2>6, <2>8 DEF TransferOK, Away, Alone, Holding, Settled, Passed, Loaded
<1>15. CASE Inject
  <2>0. session \in SessionRec /\ session.inject \in Blob /\ Readable(session.srv, session.inject)
    BY <1>15, <1>a, <1>b DEF Inject, SessionRec, OrNone, Legible
  <2>1. /\ session' \in SessionRec /\ session'.inject = None
        /\ session'.profile = session.inject.version
    BY <1>15, <2>0 DEF Inject, SessionRec, OrNone, Blob
  <2>2. session' # None /\ session'.profile = truth
    BY <1>15, <1>b, <2>1, NoneAssumption DEF Inject, FreshSession
  <2> QED
    BY <1>1, <1>15, <2>1, <2>2 DEF Inject, redis, FreshSession, Legible
<1>16. CASE JoinRoute \/ JoinTrack \/ JoinFails
  <2>1. /\ session' \in SessionRec /\ session'.profile = session.profile
        /\ session'.inject = session.inject /\ session'.srv = session.srv
    BY <1>16, <1>a DEF JoinRoute, JoinTrack, JoinFails, SessionRec
  <2>2. session' # None /\ session # None
    BY <1>16, <2>1, NoneAssumption DEF JoinRoute, JoinTrack, JoinFails
  <2>3. UNCHANGED <<lock, login, tasks, pending, disk, truth>>
    BY <1>16 DEF JoinRoute, JoinTrack, JoinFails, redis
  <2> QED
    BY <1>1, <1>b, <2>1, <2>2, <2>3 DEF FreshSession, Legible, Readable, Format
<1>17. CASE LockExpires
  <2>1. \A t \in tasks : t.pc = "lock"
    BY <1>17 DEF LockExpires, Calm
  <2>2. lock' = None /\ UNCHANGED <<data, session, login, tasks, pending, disk, truth>>
    BY <1>17 DEF LockExpires
  <2>3. Holding' /\ Settled' /\ Passed'
    BY <1>b, <2>1, <2>2 DEF Holding, Settled, Passed
  <2>4. Away' /\ Alone' /\ Loaded' /\ FreshSession' /\ Legible'
    BY <1>b, <2>2 DEF Away, Carried, Stored, Alone, Loaded, FreshSession, Legible
  <2> QED
    BY <2>3, <2>4 DEF TransferOK
<1>18. CASE DataExpires
  <2>1. session # None /\ UNCHANGED <<lock, session, login, tasks, pending, disk, truth>>
    BY <1>18 DEF DataExpires, Calm
  <2> QED
    BY <1>1, <1>b, <2>1 DEF FreshSession, Legible
<1>19. ASSUME NEW s \in GameServer, Crash(s) PROVE TransferOK'
  <2>1. /\ ~(session # None /\ session.srv = s) /\ \A t \in tasks : t.srv # s
        /\ pending' = [pending EXCEPT ![s] = None] /\ login' \in {None, login}
        /\ login # None /\ login.srv = s => login' = None
        /\ UNCHANGED <<lock, data, disk, truth>>
    BY <1>19 DEF Crash, Calm, redis
  <2>2. session' = session /\ tasks' = tasks
    BY <1>19, <2>1 DEF Crash
  <2>3. Loaded'
    BY <1>a, <1>b, <2>1, <2>2 DEF Loaded, LoginRec
  <2>4. Away'
    <3>1. Stored => Stored'
      BY <1>a, <2>1, <2>2 DEF Stored
    <3>2. Carried => Carried'
      BY <2>1, <2>2 DEF Carried
    <3> QED
      BY <1>b, <2>2, <3>1, <3>2 DEF Away
  <2> QED
    BY <1>b, <2>1, <2>2, <2>3, <2>4
    DEF TransferOK, Alone, Holding, Settled, Passed, FreshSession, Legible
<1>20. CASE UNCHANGED vars
  BY <1>b, <1>20
  DEF vars, TransferOK, Away, Carried, Stored, Alone, Holding, Settled, Passed, Loaded, FreshSession,
      Legible
<1> QED
  BY <1>2, <1>3, <1>4, <1>5, <1>7, <1>9, <1>10, <1>11, <1>12, <1>13, <1>14, <1>15, <1>16, <1>17,
     <1>18, <1>19, <1>20
  DEF Next

\* What a login is given is the player's last version, as long as nothing has
\* happened that may cost the player one (a join that meets the other plugin's
\* format is among those things): however quits, logins, failures of MariaDB
\* and of the index, kicks and aborted logins interleave.
THEOREM FreshWhenCalmThm == Spec => []FreshWhenCalm
<1>1. Init => TransferInv
  BY DEF Init, TransferInv, TransferOK, Away, Stored, Alone, Holding, Settled, Passed, Loaded,
         FreshSession, Legible
<1>2. TypeInv /\ TransferInv /\ [Next]_vars => TransferInv'
  BY TransferStep
<1>3. TransferInv => FreshWhenCalm
  BY DEF TransferInv, Calm, TransferOK, FreshWhenCalm
<1> QED
  BY <1>1, <1>2, <1>3, TypeInvariant, PTL DEF Spec

-----------------------------------------------------------------------------
\* Where nothing has gone wrong, every step keeps the index in line.
LEMMA IndexStep ==
    ASSUME TypeInv, TransferInv, IndexInv, [Next]_vars
    PROVE  IndexInv'
<1> SUFFICES ASSUME adverse' = {} PROVE IndexOK'
  BY DEF IndexInv
<1>0. adverse = {} /\ IndexOK /\ TransferOK
  BY AdverseGrows DEF IndexInv, TransferInv, Calm
<1>a. /\ session # None => session \in SessionRec
      /\ login # None => login \in LoginRec
      /\ tasks \subseteq TaskRec
  BY DEF TypeInv, TypeOK, OrNone
<1>b. /\ session # None => tasks = {} /\ login = None
      /\ \A t \in tasks : tasks = {t} /\ session = None
  BY <1>0 DEF TransferOK, Settled, Alone
\* A handler moves on to its next step.
<1>1. ASSUME NEW t \in tasks, NEW pc \in Steps, Goto(t, pc), session' = session,
             \A u \in TaskRec : u.pc = pc /\ u.srv = t.srv => IndexOfTask(u)'
      PROVE  IndexOK'
  <2> DEFINE u == [t EXCEPT !.pc = pc]
  <2>1. tasks' = {u} /\ u \in TaskRec /\ u.pc = pc /\ u.srv = t.srv
    BY <1>1, <1>a, <1>b, GotoKeeps, GotoFields DEF OrNone
  <2> HIDE DEF u
  <2> QED
    BY <1>1, <1>b, <2>1 DEF IndexOK
<1>2. ASSUME NEW t \in tasks PROVE IndexOfTask(t) /\ t.srv \in GameServer /\ t.pc \in Steps
  BY <1>0, <1>2, <1>a, <1>b DEF IndexOK, TaskRec
\* A handler ends.
<1>3. ASSUME NEW t \in tasks, t.pc = "del", Goto(t, None), UNCHANGED <<session, route, tracked>>
      PROVE  IndexOK'
  <2>1. tasks' = {}
    BY <1>3, <1>a, <1>b, GotoKeeps DEF OrNone
  <2>2. NoIndex
    BY <1>2, <1>3 DEF IndexOfTask
  <2> QED
    BY <1>3, <1>b, <2>1, <2>2 DEF IndexOK, NoIndex
\* Neither the player nor the handlers move.
<1>4. ASSUME UNCHANGED <<session, tasks, route, tracked>> PROVE IndexOK'
  BY <1>0, <1>4 DEF IndexOK, IndexOfSession, IndexOfTask, NoIndex
<1>5. ASSUME NEW t \in tasks, AcquireLock(t) PROVE IndexOK'
  <2>1. lock = None
    BY <1>0, <1>5 DEF AcquireLock, TransferOK, Holding
  <2> QED
    BY <1>1, <1>2, <1>5, <2>1 DEF AcquireLock, IndexOfTask, NoIndex, Steps
<1>6. ASSUME NEW t \in tasks, StoreData(t) PROVE IndexOK'
  BY <1>1, <1>2, <1>6 DEF StoreData, IndexOfTask, NoIndex, Steps
<1>7. ASSUME NEW t \in tasks, PersistProfile(t) PROVE IndexOK'
  BY <1>1, <1>2, <1>7 DEF PersistProfile, redis, IndexOfTask, NoIndex, Steps
<1>8. ASSUME NEW t \in tasks, ClearRoute(t) PROVE IndexOK'
  BY <1>1, <1>2, <1>8 DEF ClearRoute, IndexOfTask, NoIndex, Steps
<1>9. ASSUME NEW t \in tasks, TrackOffline(t) PROVE IndexOK'
  BY <1>1, <1>2, <1>9 DEF TrackOffline, IndexOfTask, NoIndex, Steps
<1>10. ASSUME NEW t \in tasks, ReleaseLock(t) PROVE IndexOK'
  BY <1>3, <1>10 DEF ReleaseLock
<1>11. ASSUME NEW t \in tasks, TaskFails(t) PROVE IndexOK'
  <2>1. t.pc \in {"db", "del"}
    BY <1>2, <1>11 DEF TaskFails
  <2>2. CASE t.pc = "del"
    BY <1>3, <1>11, <2>2 DEF TaskFails, redis
  <2>3. CASE t.pc = "db"
    BY <1>1, <1>2, <1>11, <2>3 DEF TaskFails, redis, IndexOfTask, NoIndex, Steps
  <2> QED
    BY <2>1, <2>2, <2>3
<1>12. CASE Quit
  <2> DEFINE t == [srv |-> session.srv, profile |-> session.profile, pc |-> "lock", no |-> budget.logins]
  <2>1. tasks' = {t} /\ t.pc = "lock" /\ t.srv = session.srv
    BY <1>12, <1>b DEF Quit
  <2>2. IndexOfSession /\ session.pc = "on"
    BY <1>0, <1>12 DEF Quit, IndexOK
  <2> HIDE DEF t
  <2>3. UNCHANGED <<route, tracked>> /\ session' = None
    BY <1>12 DEF Quit, redis
  <2> QED
    BY <2>1, <2>2, <2>3 DEF IndexOK, IndexOfSession, IndexOfTask, NoIndex
<1>13. CASE QuitUnserialized \/ PreLoginFails \/ InjectFails \/ JoinFails
  BY <1>13 DEF QuitUnserialized, PreLoginFails, InjectFails, JoinFails
\* The session goes on.
<1>14. ASSUME session # None, session' # None, IndexOfSession' PROVE IndexOK'
  BY <1>14 DEF IndexOK
<1>15. CASE Play \/ Inject
  <2>0. session \in SessionRec /\ truth' \in Version
    BY <1>15, <1>a, TypeInvStep DEF Play, Inject, TypeInv, TypeOK
  <2>1. session' \in SessionRec /\ session' # None
    BY <1>15, <2>0, NoneAssumption DEF Play, Inject, SessionRec, OrNone, Blob
  <2>2. session'.srv = session.srv /\ session'.pc = session.pc
    BY <1>15, <2>0 DEF Play, Inject, SessionRec
  <2>3. UNCHANGED <<route, tracked>> /\ session # None
    BY <1>15 DEF Play, Inject, redis
  <2> QED
    BY <1>0, <1>14, <2>1, <2>2, <2>3 DEF IndexOK, IndexOfSession, NoIndex
<1>16. CASE JoinRoute
  <2>1. session \in SessionRec /\ session # None /\ session.pc = "route" /\ IndexOfSession
    BY <1>0, <1>16, <1>a DEF JoinRoute, IndexOK
  <2>2. session' \in SessionRec /\ session'.srv = session.srv /\ session'.pc = "track"
    BY <1>16, <2>1 DEF JoinRoute, SessionRec
  <2>3. IndexOfSession'
    BY <1>16, <2>1, <2>2 DEF JoinRoute, IndexOfSession, NoIndex
  <2> QED
    BY <1>14, <2>1, <2>2, <2>3, NoneAssumption
<1>17. CASE JoinTrack
  <2>1. session \in SessionRec /\ session # None /\ session.pc = "track" /\ IndexOfSession
    BY <1>0, <1>17, <1>a DEF JoinTrack, IndexOK
  <2>2. session' \in SessionRec /\ session'.srv = session.srv /\ session'.pc = "on"
    BY <1>17, <2>1 DEF JoinTrack, SessionRec
  <2>3. IndexOfSession'
    BY <1>17, <2>1, <2>2 DEF JoinTrack, IndexOfSession, NoIndex
  <2> QED
    BY <1>14, <2>1, <2>2, <2>3, NoneAssumption
<1>18. CASE Join
  <2>1. tasks = {} /\ session = None
    BY <1>0, <1>18, <1>b DEF Join, TransferOK, Passed
  <2>2. NoIndex /\ UNCHANGED <<route, tracked>> /\ tasks' = {}
    BY <1>0, <1>18, <2>1 DEF IndexOK, Join, redis
  <2>3. /\ session'.srv = login.srv
        /\ session'.pc = IF login.srv \in Paper THEN "route" ELSE "on"
    BY <1>18, <1>0 DEF Join
  <2>4. IndexOfSession'
    BY <2>2, <2>3 DEF IndexOfSession, NoIndex
  <2> QED
    BY <2>2, <2>4 DEF IndexOK, NoIndex
<1>19. ASSUME NEW s \in GameServer, Crash(s) PROVE IndexOK'
  <2>1. ~(session # None /\ session.srv = s) /\ \A t \in tasks : t.srv # s
    BY <1>19 DEF Crash
  <2>2. UNCHANGED <<session, tasks, route, tracked>>
    BY <1>19, <2>1 DEF Crash, redis
  <2> QED
    BY <1>4, <2>2
<1>20. ASSUME NEW s \in GameServer, Connect(s) PROVE IndexOK'
  BY <1>4, <1>20 DEF Connect, redis
<1>21. CASE PassLock \/ WaitTimeout \/ CheckLockAgain \/ FetchProfile \/ LoginAborted
            \/ LockExpires \/ DataExpires \/ UNCHANGED vars
  BY <1>4, <1>21
  DEF PassLock, WaitTimeout, CheckLockAgain, FetchProfile, LoginAborted, LockExpires, DataExpires,
      vars, redis
<1> QED
  BY <1>5, <1>6, <1>7, <1>8, <1>9, <1>10, <1>11, <1>12, <1>13, <1>15, <1>16, <1>17, <1>18, <1>19,
     <1>20, <1>21
  DEF Next, TaskStep

\* Once a join has been recorded, AetherPaper's index names the server the
\* player is on and no other, and none for a CloudBridge server, as long as
\* nothing has gone wrong and no join has met the other plugin's format.
THEOREM IndexWhenCalmThm == Spec => []IndexWhenCalm
<1>1. Init => TransferInv /\ IndexInv
  BY DEF Init, TransferInv, TransferOK, Away, Stored, Alone, Holding, Settled, Passed, Loaded,
         FreshSession, Legible, IndexInv, IndexOK, NoIndex
<1>2. TypeInv /\ TransferInv /\ IndexInv /\ [Next]_vars => TransferInv' /\ IndexInv'
  BY TransferStep, IndexStep
<1>3. IndexInv => IndexWhenCalm
  BY DEF IndexInv, IndexOK, IndexOfSession, NoIndex, IndexWhenCalm
<1> QED
  BY <1>1, <1>2, <1>3, TypeInvariant, PTL DEF Spec

-----------------------------------------------------------------------------
\* All servers run the same plugin.
Uniform == Paper = {} \/ Paper = GameServer

\* Every profile in Redis, and every one that waits for its join, is in the
\* format of every server.
OneFormat ==
    /\ "format" \notin adverse
    /\ \A s \in GameServer :
          /\ data # None => Readable(s, data)
          /\ \A u \in GameServer : pending[u] # None => Readable(s, pending[u])

\* Where all servers run one plugin, no join meets a format that it cannot read:
\* what FreshWhenCalm and IndexWhenCalm except does not happen there.
THEOREM NoClashThm ==
    ASSUME Uniform
    PROVE  Spec => []("format" \notin adverse)
<1>1. Init => OneFormat
  BY DEF Init, OneFormat
<1>2. TypeInv /\ OneFormat /\ [Next]_vars => OneFormat'
  <2> SUFFICES ASSUME TypeInv, OneFormat, [Next]_vars PROVE OneFormat'
    OBVIOUS
  <2>0. /\ pending \in [GameServer -> OrNone(Blob)] /\ tasks \subseteq TaskRec
        /\ login # None => login \in LoginRec
    BY DEF TypeInv, TypeOK, OrNone
  <2>1. ASSUME NEW t \in tasks, StoreData(t) PROVE OneFormat'
    <3>1. t.srv \in GameServer /\ t.profile \in Version
      BY <2>0 DEF TaskRec
    <3>2. \A s \in GameServer : Readable(s, Serialize(t.srv, t.profile))
      BY <3>1, SerializeType DEF Uniform, Readable, Format
    <3> QED
      BY <2>1, <3>2 DEF StoreData, OneFormat, Readable, Format
  <2>2. CASE FetchProfile
    <3>1. login.srv \in GameServer
      BY <2>0, <2>2 DEF FetchProfile, LoginRec
    <3> QED
      BY <2>0, <2>2, <3>1 DEF FetchProfile, redis, OneFormat, Readable, Format
  <2>3. CASE Join
    <3>1. login.srv \in GameServer
      BY <2>0, <2>3 DEF Join, LoginRec
    <3>2. UNCHANGED <<data, adverse>>
      BY <2>3, <3>1 DEF Join, redis, OneFormat
    <3>3. \A u \in GameServer : pending'[u] \in {None, pending[u]}
      BY <2>0, <2>3, <3>1 DEF Join
    <3> QED
      BY <3>2, <3>3 DEF OneFormat, Readable, Format
  <2>4. ASSUME NEW s \in GameServer, Crash(s) PROVE OneFormat'
    <3>1. data' = data /\ "format" \notin adverse'
      BY <2>4 DEF Crash, redis, OneFormat
    <3>2. \A u \in GameServer : pending'[u] \in {None, pending[u]}
      BY <2>0, <2>4 DEF Crash
    <3> QED
      BY <3>1, <3>2 DEF OneFormat, Readable, Format
  <2>5. ASSUME "format" \notin adverse', data' \in {None, data}, pending' = pending
        PROVE  OneFormat'
    BY <2>5 DEF OneFormat, Readable, Format
  <2>6. CASE Play \/ Quit \/ QuitUnserialized \/ PassLock \/ WaitTimeout \/ CheckLockAgain
             \/ PreLoginFails \/ LoginAborted \/ Inject \/ InjectFails \/ UNCHANGED vars
    BY <2>5, <2>6
    DEF Play, Quit, QuitUnserialized, PassLock, WaitTimeout, CheckLockAgain, PreLoginFails,
        LoginAborted, Inject, InjectFails, Overtaking, vars, redis, OneFormat
  <2>7. CASE JoinRoute \/ JoinTrack \/ JoinFails \/ LockExpires \/ DataExpires
             \/ \E s \in GameServer : Connect(s)
    BY <2>5, <2>7
    DEF JoinRoute, JoinTrack, JoinFails, LockExpires, DataExpires, Connect, redis, OneFormat
  <2>8. ASSUME NEW t \in tasks,
               \/ AcquireLock(t) \/ PersistProfile(t) \/ ClearRoute(t) \/ TrackOffline(t)
               \/ ReleaseLock(t) \/ TaskFails(t)
        PROVE  OneFormat'
    BY <2>5, <2>8
    DEF AcquireLock, PersistProfile, ClearRoute, TrackOffline, ReleaseLock, TaskFails, redis,
        OneFormat
  <2> QED
    BY <2>1, <2>2, <2>3, <2>4, <2>6, <2>7, <2>8 DEF Next, TaskStep
<1>3. OneFormat => "format" \notin adverse
  BY DEF OneFormat
<1> QED
  BY <1>1, <1>2, <1>3, TypeInvariant, PTL DEF Spec
=============================================================================
