---------------------------- MODULE Backup_proofs ---------------------------
(***************************************************************************)
(* Proofs about Backup, for every set of backups, every number of chunks   *)
(* and every value of the bounds: what an acknowledged command means, what *)
(* the key names, and which archives are consistent.                       *)
(***************************************************************************)
EXTENDS Backup, SequenceTheorems, TLAPS

BackupTypeOK ==
    /\ saving \in BOOLEAN /\ disk \in Nat /\ second \in Nat \ {0}
    /\ step \in [Backups -> {"idle", "write", "read", "upload", "done", "dead"}]
    /\ link \in [Backups -> {"none", "up", "lost", "closed"}]
    /\ authed \in [Backups -> BOOLEAN]
    /\ cmd \in [Backups -> 1..3]
    /\ sent \in [Backups -> Seq(1..3)] /\ answers \in [Backups -> Seq(0..3)]
    /\ archive \in [Backups -> Seq(Nat)]
    /\ tar \in [Backups -> {"off", "reading", "finished", "failed"}]
    /\ key \in [Backups -> Nat]
    /\ result \in [Backups -> {"none", "key", "error"}]
    /\ acked \in [Backups -> SUBSET (1..3)] /\ executed \in [Backups -> SUBSET (1..3)]
    /\ marks \in [Backups -> SUBSET {"overlap", "timeout", "lost", "restart", "died"}]

\* Every answer is a refusal or that of a command that took effect.
Honest(b) ==
    /\ \A i \in 1..Len(answers[b]) : answers[b][i] = Rejected \/ answers[b][i] \in executed[b]
    /\ acked[b] \subseteq executed[b]

\* Commands are sent and served in the order of their ids, and none is sent
\* twice.
InOrder(b) ==
    /\ \A i \in 1..Len(sent[b]) : /\ sent[b][i] <= cmd[b]
                                  /\ step[b] = "write" => sent[b][i] < cmd[b]
                                  /\ \A x \in executed[b] : x < sent[b][i]
                                  /\ \A j \in 1..Len(sent[b]) : i < j => sent[b][i] < sent[b][j]
    /\ \A x \in executed[b] : x <= cmd[b] /\ (step[b] = "write" => x < cmd[b])
    /\ step[b] = "idle" => sent[b] = <<>> /\ executed[b] = {} /\ cmd[b] = SaveOff
    /\ step[b] = "upload" => cmd[b] <= SaveAll

\* A backup that waits for no answer has no command under way, unless it gave
\* one up or the daemon died.
NoneUnderWay(b) ==
    /\ link[b] = "lost" => sent[b] = <<>>
    /\ step[b] # "read" /\ marks[b] \cap {"timeout", "died"} = {} => sent[b] = <<>>

\* A backup has no archive, no key and no result before its upload.
BeforeUpload(b) ==
    step[b] = "idle" \/ (step[b] \in {"write", "read"} /\ cmd[b] # SaveOn)

Phases(b) ==
    /\ BeforeUpload(b) => archive[b] = <<>> /\ key[b] = 0 /\ result[b] = "none"
    /\ step[b] = "upload" => key[b] # 0 /\ result[b] = "none"
    /\ result[b] = "key" => key[b] # 0

\* The object that a returned key names is the backup's own, or another one has
\* the same key.
Kept(b) ==
    result[b] = "key" =>
        /\ key[b] \in DOMAIN bucket
        /\ \/ bucket[key[b]] = [by |-> b, whole |-> TRUE]
           \/ \E c \in Backups \ {b} : key[c] = key[b]

\* Nothing but b acts on the game server.
Alone(b) ==
    /\ Running(b) /\ "overlap" \notin marks[b]
    /\ \A c \in Backups \ {b} : marks[c] \cap {"timeout", "died"} = {}

OthersQuiet(b) == Alone(b) => \A c \in Backups \ {b} : ~Running(c) /\ sent[c] = <<>>

\* Between save-off and save-on of a backup that is alone, saving is off.
SavingOff(b) ==
    Alone(b) /\ "restart" \notin marks[b] /\ SaveOff \in executed[b] /\ SaveOn \notin executed[b]
        => ~saving

\* While such a backup uploads, what it has read is what is on disk.
ReadsDisk(b) ==
    /\ step[b] = "upload" /\ Alone(b) /\ "restart" \notin marks[b]
    /\ {SaveOff, SaveAll} \subseteq acked[b]
    => \A i \in 1..Len(archive[b]) : archive[b][i] = disk

\* What ConsistentArchive says of one backup.
Consistent(b) ==
    (\E i, j \in DOMAIN archive[b] : archive[b][i] # archive[b][j]) =>
        \/ ~({SaveOff, SaveAll} \subseteq acked[b])
        \/ marks[b] \cap {"overlap", "restart"} # {}
        \/ \E c \in Backups \ {b} : marks[c] \cap {"timeout", "died"} # {}

-----------------------------------------------------------------------------
\* Changing one value of a function keeps its type.
LEMMA ExceptType ==
    ASSUME NEW D, NEW R, NEW f \in [D -> R], NEW d \in D, NEW v \in R
    PROVE  [f EXCEPT ![d] = v] \in [D -> R]
OBVIOUS

Steps == {"idle", "write", "read", "upload", "done", "dead"}
Links == {"none", "up", "lost", "closed"}
Tars == {"off", "reading", "finished", "failed"}

\* A backup that moves on is at a step.
LEMMA GoType ==
    ASSUME BackupTypeOK, NEW b \in Backups, NEW s \in Steps, Go(b, s)
    PROVE  step' \in [Backups -> Steps]
BY ExceptType DEF Go, BackupTypeOK, Steps

\* A backup that starts its archive keeps the types, and its key is not 0.
LEMMA StartTarType ==
    ASSUME BackupTypeOK, NEW b \in Backups, StartTar(b)
    PROVE  /\ step' \in [Backups -> Steps] /\ tar' \in [Backups -> Tars]
           /\ second' \in Nat \ {0} /\ key' \in [Backups -> Nat]
<1>1. Go(b, "upload") /\ "upload" \in Steps
  BY DEF StartTar, Steps
<1>2. step' \in [Backups -> Steps]
  BY <1>1, GoType
<1>3. tar' \in [Backups -> Tars]
  BY ExceptType DEF StartTar, BackupTypeOK, Tars
<1>4. second' \in Nat \ {0}
  BY BackupAssumption DEF StartTar, BackupTypeOK
<1>5. key' \in [Backups -> Nat]
  BY <1>4, ExceptType DEF StartTar, BackupTypeOK
<1> QED
  BY <1>2, <1>3, <1>4, <1>5

\* What follows a command keeps the types.
LEMMA ProceedType ==
    ASSUME BackupTypeOK, NEW b \in Backups, Proceed(b)
    PROVE  /\ step' \in [Backups -> Steps] /\ link' \in [Backups -> Links]
           /\ cmd' \in [Backups -> 1..3] /\ tar' \in [Backups -> Tars]
           /\ second' \in Nat \ {0} /\ key' \in [Backups -> Nat]
<1>0. /\ link \in [Backups -> Links] /\ cmd \in [Backups -> 1..3] /\ tar \in [Backups -> Tars]
      /\ second \in Nat \ {0} /\ key \in [Backups -> Nat]
  BY DEF BackupTypeOK, Links, Tars
<1>1. CASE /\ cmd' = [cmd EXCEPT ![b] = SaveAll] /\ Go(b, "write")
           /\ UNCHANGED <<link, tar, key, second>>
  <2>1. cmd' \in [Backups -> 1..3]
    BY <1>0, <1>1 DEF SaveAll
  <2>2. step' \in [Backups -> Steps]
    BY <1>1, GoType DEF Steps
  <2> QED
    BY <1>0, <1>1, <2>1, <2>2
<1>2. CASE StartTar(b) /\ UNCHANGED <<cmd, link>>
  BY <1>0, <1>2, StartTarType
<1>3. CASE /\ link' = [link EXCEPT ![b] = "closed"] /\ Go(b, "done")
           /\ UNCHANGED <<cmd, tar, key, second>>
  <2>1. link' \in [Backups -> Links]
    BY <1>0, <1>3, ExceptType DEF Links
  <2>2. step' \in [Backups -> Steps]
    BY <1>3, GoType DEF Steps
  <2> QED
    BY <1>0, <1>3, <2>1, <2>2
<1> QED
  BY <1>1, <1>2, <1>3 DEF Proceed

\* The marks keep their type.
LEMMA MarkType ==
    ASSUME BackupTypeOK, NEW bs,
           NEW what \in {"overlap", "timeout", "lost", "restart", "died"}, Mark(bs, what)
    PROVE  marks' \in [Backups -> SUBSET {"overlap", "timeout", "lost", "restart", "died"}]
BY DEF Mark, BackupTypeOK

\* Every step keeps the types.
LEMMA BackupTypeStep == BackupTypeOK /\ [BackupNext]_backupVars => BackupTypeOK'
<1> SUFFICES ASSUME BackupTypeOK, [BackupNext]_backupVars PROVE BackupTypeOK'
  OBVIOUS
<1> USE DEF rconVars, tarVars, worldVars
<1>1. CASE UNCHANGED backupVars
  BY <1>1 DEF backupVars, BackupTypeOK
<1>2. ASSUME NEW b \in Backups, Dial(b) PROVE BackupTypeOK'
  <2>1. marks' \in [Backups -> SUBSET {"overlap", "timeout", "lost", "restart", "died"}]
    BY <1>2, MarkType DEF Dial
  <2>2. CASE StartTar(b) /\ UNCHANGED <<link, authed>>
    BY <1>2, <2>1, <2>2, StartTarType DEF Dial, BackupTypeOK, Steps, Tars
  <2>3. CASE /\ authed' = [authed EXCEPT ![b] = TRUE] \/ UNCHANGED authed
             /\ link' = [link EXCEPT ![b] = "up"]
             /\ Go(b, "write") /\ UNCHANGED <<tar, key, second>>
    BY <1>2, <2>1, <2>3 DEF Dial, BackupTypeOK, Go
  <2> QED
    BY <1>2, <2>2, <2>3 DEF Dial
<1>3. ASSUME NEW b \in Backups, WriteCommand(b) PROVE BackupTypeOK'
  <2>1. CASE Proceed(b) /\ UNCHANGED sent
    BY <1>3, <2>1, ProceedType DEF WriteCommand, BackupTypeOK, Steps, Tars, Links
  <2>2. CASE /\ sent' = [sent EXCEPT ![b] = Append(@, cmd[b])]
             /\ Go(b, "read") /\ UNCHANGED <<link, cmd, tar, key, second>>
    BY <1>3, <2>2 DEF WriteCommand, BackupTypeOK, Go
  <2> QED
    BY <1>3, <2>1, <2>2 DEF WriteCommand
<1>4. ASSUME NEW b \in Backups, ReadAnswer(b) PROVE BackupTypeOK'
  <2>1. answers' \in [Backups -> Seq(0..3)]
    BY <1>4 DEF ReadAnswer, BackupTypeOK
  <2>2. CASE Proceed(b) /\ acked' = [acked EXCEPT ![b] = @ \cup {cmd[b]}]
    <3>1. acked' \in [Backups -> SUBSET (1..3)]
      BY <2>2 DEF BackupTypeOK
    <3> QED
      BY <1>4, <2>1, <2>2, <3>1, ProceedType
      DEF ReadAnswer, BackupTypeOK, Steps, Tars, Links
  <2>3. CASE UNCHANGED <<acked, link, cmd, step, tar, key, second>>
    BY <1>4, <2>1, <2>3 DEF ReadAnswer, BackupTypeOK
  <2> QED
    BY <1>4, <2>2, <2>3 DEF ReadAnswer
<1>5. ASSUME NEW b \in Backups, ReadFails(b) PROVE BackupTypeOK'
  <2>1. marks' \in [Backups -> SUBSET {"overlap", "timeout", "lost", "restart", "died"}]
    <3>1. CASE UNCHANGED marks
      BY <3>1 DEF BackupTypeOK
    <3>2. CASE Mark({b}, "timeout")
      BY <3>2, MarkType
    <3> QED
      BY <1>5, <3>1, <3>2 DEF ReadFails
  <2>2. Proceed(b)
    BY <1>5 DEF ReadFails
  <2> QED
    BY <1>5, <2>1, <2>2, ProceedType DEF ReadFails, BackupTypeOK, Steps, Tars, Links
<1>6. ASSUME NEW b \in Backups, ReadChunk(b) PROVE BackupTypeOK'
  <2>1. archive' \in [Backups -> Seq(Nat)]
    <3>1. CASE UNCHANGED archive
      BY <3>1 DEF BackupTypeOK
    <3>2. CASE archive' = [archive EXCEPT ![b] = Append(@, disk)]
      <4>1. archive[b] \in Seq(Nat) /\ Append(archive[b], disk) \in Seq(Nat)
        BY DEF BackupTypeOK
      <4> QED
        BY <3>2, <4>1, ExceptType DEF BackupTypeOK
    <3> QED
      BY <1>6, <3>1, <3>2 DEF ReadChunk
  <2>2. PICK t \in {"reading", "finished", "failed"} : tar' = [tar EXCEPT ![b] = t]
    <3>1. tar[b] = "reading"
      BY <1>6 DEF ReadChunk
    <3> QED
      BY <1>6, <3>1 DEF ReadChunk, BackupTypeOK
  <2>3. tar' \in [Backups -> {"off", "reading", "finished", "failed"}]
    BY <2>2, ExceptType DEF BackupTypeOK
  <2> QED
    BY <1>6, <2>1, <2>3 DEF ReadChunk, BackupTypeOK
<1>7. ASSUME NEW b \in Backups, PutObject(b) PROVE BackupTypeOK'
  <2>1. PICK r \in {"key", "error"} : Return(b, r)
    BY <1>7 DEF PutObject
  <2>2. step' \in [Backups -> Steps]
    BY <2>1, GoType DEF Return, Steps
  <2>3. result' \in [Backups -> {"none", "key", "error"}]
    BY <2>1, ExceptType DEF Return, BackupTypeOK
  <2>4. cmd' \in [Backups -> 1..3]
    <3>1. UNCHANGED cmd \/ cmd' = [cmd EXCEPT ![b] = 3]
      BY <2>1 DEF Return, SaveOn
    <3>2. CASE UNCHANGED cmd
      BY <3>2 DEF BackupTypeOK
    <3>3. CASE cmd' = [cmd EXCEPT ![b] = 3]
      BY <3>3 DEF BackupTypeOK
    <3> QED
      BY <3>1, <3>2, <3>3
  <2> QED
    BY <1>7, <2>2, <2>3, <2>4 DEF PutObject, BackupTypeOK, Steps
<1>8. ASSUME NEW b \in Backups, Serve(b) PROVE BackupTypeOK'
  <2>1. Head(sent[b]) \in 1..3 /\ Tail(sent[b]) \in Seq(1..3)
    BY <1>8 DEF Serve, BackupTypeOK
  <2>2. answers' \in [Backups -> Seq(0..3)]
    BY <1>8, <2>1 DEF Serve, BackupTypeOK, Rejected
  <2>3. sent' \in [Backups -> Seq(1..3)]
    BY <1>8, <2>1 DEF Serve, BackupTypeOK
  <2>4. executed' \in [Backups -> SUBSET (1..3)]
    BY <1>8, <2>1 DEF Serve, BackupTypeOK
  <2>5. saving' \in BOOLEAN
    BY <1>8, Zenon DEF Serve, BackupTypeOK
  <2>6. disk' \in Nat
    BY <1>8 DEF Serve, BackupTypeOK
  <2> QED
    BY <1>8, <2>2, <2>3, <2>4, <2>5, <2>6 DEF Serve, BackupTypeOK
<1>9. ASSUME NEW b \in Backups, ConnectionLost(b) PROVE BackupTypeOK'
  <2>1. marks' \in [Backups -> SUBSET {"overlap", "timeout", "lost", "restart", "died"}]
    BY <1>9, MarkType DEF ConnectionLost
  <2>2. link' \in [Backups -> {"none", "up", "lost", "closed"}]
    BY <1>9 DEF ConnectionLost, BackupTypeOK
  <2>3. sent' \in [Backups -> Seq(1..3)]
    BY <1>9, EmptySeq, ExceptType DEF ConnectionLost, BackupTypeOK
  <2> QED
    BY <1>9, <2>1, <2>2, <2>3 DEF ConnectionLost, BackupTypeOK
<1>10. CASE Autosave
  BY <1>10 DEF Autosave, BackupTypeOK
<1>11. CASE ServerRestarts
  <2>1. marks' \in [Backups -> SUBSET {"overlap", "timeout", "lost", "restart", "died"}]
    BY <1>11, MarkType DEF ServerRestarts
  <2> QED
    BY <1>11, <2>1 DEF ServerRestarts, BackupTypeOK
<1>12. CASE DaemonDies
  <2>1. marks' \in [Backups -> SUBSET {"overlap", "timeout", "lost", "restart", "died"}]
    BY <1>12, MarkType DEF DaemonDies
  <2> QED
    BY <1>12, <2>1 DEF DaemonDies, BackupTypeOK
<1> QED
  BY <1>1, <1>2, <1>3, <1>4, <1>5, <1>6, <1>7, <1>8, <1>9, <1>10, <1>11, <1>12
  DEF BackupNext, BackupStep

-----------------------------------------------------------------------------
\* The marks only grow.
LEMMA MarksGrow ==
    ASSUME BackupTypeOK, [BackupNext]_backupVars, NEW b \in Backups
    PROVE  marks[b] \subseteq marks'[b]
<1> USE DEF BackupTypeOK
<1>1. ASSUME NEW bs, NEW what, Mark(bs, what) PROVE marks[b] \subseteq marks'[b]
  BY <1>1 DEF Mark
<1>2. CASE UNCHANGED marks
  BY <1>2
<1>3. \/ UNCHANGED marks
      \/ \E bs \in SUBSET Backups : \E what \in {"overlap", "timeout", "lost", "restart", "died"} :
            Mark(bs, what)
  <2> USE DEF backupVars
  <2>1. ASSUME NEW c \in Backups, Dial(c) PROVE \E bs \in SUBSET Backups : Mark(bs, "overlap")
    <3>1. Mark(IF {d \in Backups : Running(d)} = {} THEN {}
               ELSE {d \in Backups : Running(d)} \cup {c}, "overlap")
      BY <2>1 DEF Dial
    <3>2. (IF {d \in Backups : Running(d)} = {} THEN {}
           ELSE {d \in Backups : Running(d)} \cup {c}) \in SUBSET Backups
      OBVIOUS
    <3> QED
      BY <3>1, <3>2
  <2>2. ASSUME NEW c \in Backups, BackupStep(c)
        PROVE  UNCHANGED marks \/ Mark({c}, "timeout")
    BY <2>2 DEF BackupStep, WriteCommand, ReadAnswer, ReadFails, ReadChunk, PutObject
  <2>3. ASSUME NEW c \in Backups, Serve(c) \/ ConnectionLost(c)
        PROVE  UNCHANGED marks \/ Mark({c}, "lost")
    BY <2>3 DEF Serve, ConnectionLost
  <2>4. Autosave => UNCHANGED marks
    BY DEF Autosave
  <2>5. (ServerRestarts => Mark(Backups, "restart")) /\ (DaemonDies => Mark(Backups, "died"))
    BY DEF ServerRestarts, DaemonDies
  <2> QED
    BY <2>1, <2>2, <2>3, <2>4, <2>5 DEF BackupNext
<1> QED
  BY <1>1, <1>2, <1>3

\* What belongs to b alone.
Own(b) == <<step[b], link[b], cmd[b], sent[b], answers[b], archive[b], key[b], result[b],
            acked[b], executed[b]>>

\* A step of another backup, or of its connection, leaves b as it is.
LEMMA Elsewhere ==
    ASSUME BackupTypeOK, NEW b \in Backups, NEW c \in Backups \ {b},
           Dial(c) \/ BackupStep(c) \/ Serve(c) \/ ConnectionLost(c)
    PROVE  Own(b)' = Own(b)
<1> USE DEF Own, BackupTypeOK
<1>1. CASE Dial(c)
  BY <1>1 DEF Dial, StartTar, Go
<1>2. ASSUME Proceed(c)
      PROVE  /\ step'[b] = step[b] /\ link'[b] = link[b] /\ cmd'[b] = cmd[b]
             /\ key'[b] = key[b]
  BY <1>2 DEF Proceed, StartTar, Go
<1>3. CASE WriteCommand(c)
  BY <1>2, <1>3 DEF WriteCommand, Go
<1>4. CASE ReadAnswer(c)
  BY <1>2, <1>4 DEF ReadAnswer
<1>5. CASE ReadFails(c)
  BY <1>2, <1>5 DEF ReadFails
<1>6. CASE ReadChunk(c)
  BY <1>6 DEF ReadChunk, rconVars
<1>7. CASE PutObject(c)
  BY <1>7 DEF PutObject, Return, Go
<1>8. CASE Serve(c)
  BY <1>8 DEF Serve, tarVars
<1>9. CASE ConnectionLost(c)
  BY <1>9 DEF ConnectionLost, tarVars
<1> QED
  BY <1>1, <1>3, <1>4, <1>5, <1>6, <1>7, <1>8, <1>9 DEF BackupStep

\* What follows a command of b, as b sees it.
LEMMA ProceedAt ==
    ASSUME BackupTypeOK, NEW b \in Backups, Proceed(b)
    PROVE  \/ /\ cmd[b] = SaveOff /\ cmd'[b] = SaveAll /\ step'[b] = "write"
              /\ link'[b] = link[b] /\ key' = key
           \/ /\ cmd[b] = SaveAll /\ cmd'[b] = SaveAll /\ step'[b] = "upload"
              /\ link'[b] = link[b] /\ key'[b] # 0 /\ key'[b] \in Nat
              /\ \A c \in Backups \ {b} : key'[c] = key[c]
           \/ /\ cmd[b] = SaveOn /\ cmd'[b] = SaveOn /\ step'[b] = "done"
              /\ link'[b] = "closed" /\ key' = key
<1>1. CASE cmd[b] = SaveAll
  <2>1. StartTar(b) /\ UNCHANGED <<cmd, link>>
    BY <1>1 DEF Proceed, SaveOff, SaveAll, SaveOn
  <2>2. second' \in Nat \ {0}
    BY <2>1, StartTarType
  <2> QED
    BY <1>1, <2>1, <2>2 DEF StartTar, Go, BackupTypeOK
<1>2. CASE cmd[b] = SaveOff
  BY <1>2 DEF Proceed, Go, BackupTypeOK, SaveOff, SaveAll, SaveOn
<1>3. CASE cmd[b] = SaveOn
  BY <1>3 DEF Proceed, Go, BackupTypeOK, SaveOff, SaveAll, SaveOn
<1> QED
  BY <1>1, <1>2, <1>3 DEF Proceed

-----------------------------------------------------------------------------
\* What a backup knows of its own commands, archive and key.
OwnInv(b) == Honest(b) /\ InOrder(b) /\ NoneUnderWay(b) /\ Phases(b)

\* OwnInv speaks of b alone and of its marks.
LEMMA OwnFrame ==
    ASSUME NEW b, OwnInv(b), Own(b)' = Own(b), marks[b] \subseteq marks'[b]
    PROVE  OwnInv(b)'
<1>1. /\ step'[b] = step[b] /\ link'[b] = link[b] /\ cmd'[b] = cmd[b] /\ sent'[b] = sent[b]
      /\ answers'[b] = answers[b] /\ archive'[b] = archive[b] /\ key'[b] = key[b]
      /\ result'[b] = result[b] /\ acked'[b] = acked[b] /\ executed'[b] = executed[b]
  BY DEF Own
<1>2. Honest(b)'
  BY <1>1 DEF OwnInv, Honest
<1>3. InOrder(b)'
  BY <1>1 DEF OwnInv, InOrder
<1>4. NoneUnderWay(b)'
  BY <1>1 DEF OwnInv, NoneUnderWay
<1>5. Phases(b)'
  BY <1>1 DEF OwnInv, Phases, BeforeUpload
<1> QED
  BY <1>2, <1>3, <1>4, <1>5 DEF OwnInv

\* A command that was acknowledged, and every one before it, is no longer
\* under way.
LEMMA AnswerEndsCommand ==
    ASSUME BackupTypeOK, NEW b \in Backups, Honest(b), InOrder(b),
           answers[b] # <<>>, Head(answers[b]) = cmd[b]
    PROVE  cmd[b] \in executed[b] /\ sent[b] = <<>>
<1>1. answers[b] \in Seq(0..3) /\ sent[b] \in Seq(1..3) /\ cmd[b] \in 1..3
  BY DEF BackupTypeOK
<1>2. 1 \in 1..Len(answers[b]) /\ Head(answers[b]) = answers[b][1]
  BY <1>1
<1>3. cmd[b] \in executed[b]
  BY <1>1, <1>2 DEF Honest, Rejected
<1>4. ASSUME sent[b] # <<>> PROVE FALSE
  <2>1. 1 \in 1..Len(sent[b]) /\ sent[b][1] \in 1..3
    BY <1>1, <1>4
  <2>2. cmd[b] < sent[b][1] /\ sent[b][1] <= cmd[b]
    BY <1>3, <2>1 DEF InOrder
  <2> QED
    BY <1>1, <2>1, <2>2
<1> QED
  BY <1>3, <1>4

\* Reading an answer: the rest of them is as honest, and so is what is taken
\* for the answer of the command.
LEMMA HonestRead ==
    ASSUME BackupTypeOK, NEW b \in Backups, OwnInv(b), ReadAnswer(b)
    PROVE  Honest(b)'
<1>1. /\ answers'[b] = Tail(answers[b]) /\ executed'[b] = executed[b]
      /\ \/ acked'[b] = acked[b]
         \/ acked'[b] = acked[b] \cup {cmd[b]} /\ Head(answers[b]) = cmd[b]
  BY DEF ReadAnswer, BackupTypeOK
<1>2. answers[b] \in Seq(0..3) /\ answers[b] # <<>>
  BY DEF ReadAnswer, BackupTypeOK
<1>3. acked'[b] \subseteq executed'[b]
  BY <1>1, <1>2, AnswerEndsCommand DEF OwnInv, Honest
<1>4. \A i \in 1..Len(answers'[b]) : answers'[b][i] = answers[b][i+1] /\ i+1 \in 1..Len(answers[b])
  BY <1>1, <1>2
<1>5. \A i \in 1..Len(answers'[b]) : answers'[b][i] = Rejected \/ answers'[b][i] \in executed'[b]
  BY <1>1, <1>4 DEF OwnInv, Honest
<1> QED
  BY <1>3, <1>5 DEF Honest

\* A command that is served takes effect after those that took effect, and its
\* answer is honest.
LEMMA ServeKeeps ==
    ASSUME BackupTypeOK, NEW b \in Backups, OwnInv(b), Serve(b)
    PROVE  Honest(b)' /\ InOrder(b)'
<1> DEFINE h == Head(sent[b])
           a == IF authed[b] THEN h ELSE Rejected
           n == Len(answers[b])
<1>1. /\ sent[b] \in Seq(1..3) /\ sent[b] # <<>> /\ answers[b] \in Seq(0..3) /\ cmd[b] \in 1..3
      /\ executed[b] \subseteq 1..3
  BY DEF Serve, BackupTypeOK
<1>2. /\ sent'[b] = Tail(sent[b]) /\ step'[b] = step[b] /\ cmd'[b] = cmd[b] /\ acked'[b] = acked[b]
      /\ answers'[b] = answers[b] \/ answers'[b] = Append(answers[b], a)
      /\ executed'[b] = IF authed[b] THEN executed[b] \cup {h} ELSE executed[b]
  BY DEF Serve, BackupTypeOK
<1>3. /\ h = sent[b][1] /\ h \in 1..3 /\ 1 \in 1..Len(sent[b]) /\ sent'[b] \in Seq(1..3)
      /\ \A i \in 1..Len(sent'[b]) : sent'[b][i] = sent[b][i+1] /\ i+1 \in 1..Len(sent[b])
  BY <1>1, <1>2
<1>4. a = Rejected \/ a \in executed'[b]
  BY <1>2
<1>5. Honest(b)'
  <2>1. CASE answers'[b] = answers[b]
    BY <1>2, <2>1 DEF OwnInv, Honest
  <2>2. CASE answers'[b] = Append(answers[b], a)
    <3> HIDE DEF a
    <3>1. Len(answers'[b]) = n + 1 /\ n \in Nat /\ answers'[b][n+1] = a
      BY <1>1, <2>2
    <3>2. \A i \in 1..n : answers'[b][i] = answers[b][i]
      BY <1>1, <2>2
    <3>3. \A i \in 1..Len(answers'[b]) : i \in 1..n \/ i = n + 1
      BY <3>1
    <3> QED
      BY <1>2, <1>4, <3>1, <3>2, <3>3 DEF OwnInv, Honest
  <2> QED
    BY <1>2, <2>1, <2>2
<1>6. InOrder(b)'
  <2> HIDE DEF h, a
  <2>1. /\ h <= cmd[b] /\ (step[b] = "write" => h < cmd[b])
    BY <1>3 DEF OwnInv, InOrder
  <2>2. \A i \in 1..Len(sent'[b]) : sent'[b][i] <= cmd[b] /\ (step[b] = "write" => sent'[b][i] < cmd[b])
    BY <1>3 DEF OwnInv, InOrder
  <2>3. \A i \in 1..Len(sent'[b]) : h < sent'[b][i]
    <3> TAKE i \in 1..Len(sent'[b])
    <3>1. 1 < i + 1 /\ i + 1 \in 1..Len(sent[b])
      BY <1>3
    <3> QED
      BY <1>3, <3>1 DEF OwnInv, InOrder
  <2>4. \A i \in 1..Len(sent'[b]) : \A x \in executed'[b] : x < sent'[b][i]
    BY <1>2, <1>3, <2>3 DEF OwnInv, InOrder
  <2>5. \A i, j \in 1..Len(sent'[b]) : i < j => sent'[b][i] < sent'[b][j]
    <3> TAKE i, j \in 1..Len(sent'[b])
    <3> HAVE i < j
    <3>1. i + 1 < j + 1 /\ i + 1 \in 1..Len(sent[b]) /\ j + 1 \in 1..Len(sent[b])
      BY <1>3
    <3> QED
      BY <1>3, <3>1 DEF OwnInv, InOrder
  <2>6. \A x \in executed'[b] : x <= cmd[b] /\ (step[b] = "write" => x < cmd[b])
    BY <1>2, <2>1 DEF OwnInv, InOrder
  <2>7. step[b] # "idle"
    BY <1>1 DEF OwnInv, InOrder
  <2>8. step[b] = "upload" => cmd[b] <= SaveAll
    BY DEF OwnInv, InOrder
  <2> QED
    BY <1>2, <2>2, <2>4, <2>5, <2>6, <2>7, <2>8 DEF InOrder
<1> QED
  BY <1>5, <1>6

\* What follows a command keeps the order, if no command is under way that
\* was sent later than the one that was carried out.
LEMMA InOrderProceeds ==
    ASSUME BackupTypeOK, NEW b \in Backups, OwnInv(b), Proceed(b),
           step[b] \in {"write", "read"}, sent'[b] = sent[b], executed'[b] = executed[b]
    PROVE  InOrder(b)'
<1>1. /\ cmd'[b] \in 1..3 /\ cmd[b] \in 1..3 /\ cmd[b] <= cmd'[b]
      /\ step'[b] = "write" => cmd[b] < cmd'[b]
      /\ step'[b] = "upload" => cmd'[b] <= SaveAll
      /\ step'[b] # "idle"
  BY ProceedAt DEF SaveOff, SaveAll, SaveOn
<1>2. sent[b] \in Seq(1..3) /\ executed[b] \subseteq 1..3
  BY DEF BackupTypeOK
<1>3. \A i \in 1..Len(sent[b]) : sent[b][i] \in 1..3 /\ sent[b][i] <= cmd[b]
  BY <1>2 DEF OwnInv, InOrder
<1>4. \A i \in 1..Len(sent'[b]) : sent'[b][i] <= cmd'[b] /\ (step'[b] = "write" => sent'[b][i] < cmd'[b])
  BY <1>1, <1>3
<1>5. \A i \in 1..Len(sent'[b]) : /\ \A x \in executed'[b] : x < sent'[b][i]
                                  /\ \A j \in 1..Len(sent'[b]) : i < j => sent'[b][i] < sent'[b][j]
  BY DEF OwnInv, InOrder
<1>6. \A x \in executed'[b] : x <= cmd'[b] /\ (step'[b] = "write" => x < cmd'[b])
  <2>1. \A x \in executed[b] : x \in 1..3 /\ x <= cmd[b]
    BY <1>2 DEF OwnInv, InOrder
  <2> QED
    BY <1>1, <2>1
<1> QED
  BY <1>1, <1>4, <1>5, <1>6 DEF InOrder

\* What follows a command, and the phases of a backup.
LEMMA PhasesProceed ==
    ASSUME BackupTypeOK, NEW b \in Backups, OwnInv(b), Proceed(b),
           step[b] \in {"write", "read"}, archive'[b] = archive[b], result'[b] = result[b]
    PROVE  Phases(b)'
<1>1. CASE cmd[b] = SaveOn
  <2>1. step'[b] = "done" /\ key'[b] = key[b]
    BY <1>1, ProceedAt DEF SaveOff, SaveAll, SaveOn
  <2> QED
    BY <2>1 DEF OwnInv, Phases, BeforeUpload
<1>2. CASE cmd[b] # SaveOn
  <2>1. archive[b] = <<>> /\ key[b] = 0 /\ result[b] = "none"
    BY <1>2 DEF OwnInv, Phases, BeforeUpload
  <2>2. (step'[b] = "write" /\ key'[b] = key[b]) \/ (step'[b] = "upload" /\ key'[b] # 0)
    BY <1>2, ProceedAt
  <2> QED
    BY <2>1, <2>2 DEF Phases, BeforeUpload
<1> QED
  BY <1>1, <1>2

\* A step of b, or of its connection, keeps what b knows.
LEMMA OwnStep ==
    ASSUME BackupTypeOK, NEW b \in Backups, OwnInv(b), marks[b] \subseteq marks'[b],
           Dial(b) \/ BackupStep(b) \/ Serve(b) \/ ConnectionLost(b)
    PROVE  OwnInv(b)'
<1>0. /\ sent[b] \in Seq(1..3) /\ answers[b] \in Seq(0..3) /\ cmd[b] \in 1..3
      /\ executed[b] \subseteq 1..3 /\ link[b] \in Links /\ step[b] \in Steps
  BY DEF BackupTypeOK, Links, Steps
<1>1. CASE Dial(b)
  <2>1. /\ step[b] = "idle" /\ cmd'[b] = cmd[b] /\ sent'[b] = sent[b] /\ answers'[b] = answers[b]
        /\ acked'[b] = acked[b] /\ executed'[b] = executed[b] /\ archive'[b] = archive[b]
        /\ result'[b] = result[b]
        /\ \/ step'[b] = "write" /\ link'[b] = "up" /\ key'[b] = key[b]
           \/ step'[b] = "upload" /\ link'[b] = link[b] /\ key'[b] # 0
    <3>1. ASSUME StartTar(b) PROVE second' # 0
      BY <3>1, StartTarType
    <3> QED
      BY <1>1, <3>1 DEF Dial, StartTar, Go, BackupTypeOK
  <2>2. sent[b] = <<>> /\ executed[b] = {} /\ cmd[b] = 1
    BY <2>1 DEF OwnInv, InOrder, SaveOff
  <2>3. archive[b] = <<>> /\ key[b] = 0 /\ result[b] = "none"
    BY <2>1 DEF OwnInv, Phases, BeforeUpload
  <2>4. Honest(b)'
    BY <2>1 DEF OwnInv, Honest
  <2>5. InOrder(b)'
    BY <2>1, <2>2 DEF InOrder, SaveAll
  <2>6. NoneUnderWay(b)'
    BY <2>1, <2>2 DEF NoneUnderWay
  <2>7. Phases(b)'
    BY <2>1, <2>2, <2>3 DEF Phases, BeforeUpload, SaveOn
  <2> QED
    BY <2>4, <2>5, <2>6, <2>7 DEF OwnInv
<1>2. CASE WriteCommand(b)
  <2>1. /\ step[b] = "write" /\ answers'[b] = answers[b]
        /\ acked'[b] = acked[b] /\ executed'[b] = executed[b] /\ archive'[b] = archive[b]
        /\ result'[b] = result[b]
    BY <1>2 DEF WriteCommand
  <2>2. Honest(b)'
    BY <2>1 DEF OwnInv, Honest
  <2>3. CASE /\ link[b] = "up" /\ Go(b, "read") /\ UNCHANGED <<link, cmd, key>>
             /\ sent' = [sent EXCEPT ![b] = Append(@, cmd[b])]
    <3> DEFINE n == Len(sent[b])
    <3>1. /\ step'[b] = "read" /\ link'[b] = "up" /\ cmd'[b] = cmd[b] /\ key'[b] = key[b]
          /\ sent'[b] = Append(sent[b], cmd[b])
      BY <2>3 DEF Go, BackupTypeOK
    <3>2. /\ n \in Nat /\ Len(sent'[b]) = n + 1 /\ sent'[b][n+1] = cmd[b]
          /\ \A i \in 1..n : sent'[b][i] = sent[b][i]
      BY <1>0, <3>1
    <3> HIDE DEF n
    <3>3. \A i \in 1..(n+1) : i \in 1..n \/ i = n + 1
      BY <3>2
    <3>4. \A i \in 1..n : sent[b][i] < cmd[b] /\ \A x \in executed[b] : x < sent[b][i]
      BY <2>1 DEF OwnInv, InOrder, n
    <3>5. \A x \in executed[b] : x < cmd[b]
      BY <2>1 DEF OwnInv, InOrder
    <3>6. \A i \in 1..(n+1) : sent'[b][i] <= cmd[b] /\ \A x \in executed[b] : x < sent'[b][i]
      <4> TAKE i \in 1..(n+1)
      <4>1. CASE i \in 1..n
        <5>1. sent[b][i] \in 1..3
          BY <1>0, <4>1 DEF n
        <5> QED
          BY <1>0, <3>2, <3>4, <4>1, <5>1
      <4>2. CASE i = n + 1
        BY <1>0, <3>2, <3>5, <4>2
      <4> QED
        BY <3>3, <4>1, <4>2
    <3>7. \A i, j \in 1..(n+1) : i < j => sent'[b][i] < sent'[b][j]
      <4> TAKE i, j \in 1..(n+1)
      <4> HAVE i < j
      <4>1. i \in 1..n
        BY <3>2
      <4>2. CASE j \in 1..n
        BY <3>2, <4>1, <4>2 DEF OwnInv, InOrder, n
      <4>3. CASE j = n + 1
        BY <3>2, <3>4, <4>1, <4>3
      <4> QED
        BY <3>3, <4>2, <4>3
    <3>8. \A x \in executed[b] : x <= cmd[b]
      BY DEF OwnInv, InOrder
    <3>9. InOrder(b)'
      BY <2>1, <3>1, <3>2, <3>6, <3>7, <3>8 DEF InOrder
    <3>10. NoneUnderWay(b)'
      BY <3>1 DEF NoneUnderWay
    <3>11. Phases(b)'
      BY <2>1, <3>1 DEF OwnInv, Phases, BeforeUpload
    <3> QED
      BY <2>2, <3>9, <3>10, <3>11 DEF OwnInv
  <2>4. CASE link[b] = "lost" /\ Proceed(b) /\ UNCHANGED sent
    <3>1. sent[b] = <<>>
      BY <2>4 DEF OwnInv, NoneUnderWay
    <3>2. InOrder(b)' /\ Phases(b)'
      BY <2>1, <2>4, InOrderProceeds, PhasesProceed
    <3>3. NoneUnderWay(b)'
      BY <2>4, <3>1 DEF NoneUnderWay
    <3> QED
      BY <2>2, <3>2, <3>3 DEF OwnInv
  <2> QED
    BY <1>2, <2>3, <2>4 DEF WriteCommand
<1>3. CASE ReadAnswer(b)
  <2>1. /\ step[b] = "read" /\ sent'[b] = sent[b] /\ executed'[b] = executed[b]
        /\ archive'[b] = archive[b] /\ result'[b] = result[b] /\ answers[b] # <<>>
    BY <1>3 DEF ReadAnswer
  <2>2. Honest(b)'
    BY <1>3, HonestRead
  <2>3. CASE Head(answers[b]) = cmd[b] /\ Proceed(b)
    <3>1. sent[b] = <<>>
      BY <2>1, <2>3, AnswerEndsCommand DEF OwnInv
    <3>2. InOrder(b)' /\ Phases(b)'
      BY <2>1, <2>3, InOrderProceeds, PhasesProceed
    <3>3. NoneUnderWay(b)'
      BY <2>1, <3>1 DEF NoneUnderWay
    <3> QED
      BY <2>2, <3>2, <3>3 DEF OwnInv
  <2>4. CASE UNCHANGED <<link, cmd, step, key>>
    <3>1. InOrder(b)'
      BY <2>1, <2>4 DEF OwnInv, InOrder
    <3>2. NoneUnderWay(b)'
      BY <2>1, <2>4 DEF OwnInv, NoneUnderWay
    <3>3. Phases(b)'
      BY <2>1, <2>4 DEF OwnInv, Phases, BeforeUpload
    <3> QED
      BY <2>2, <3>1, <3>2, <3>3 DEF OwnInv
  <2> QED
    BY <1>3, <2>3, <2>4 DEF ReadAnswer
<1>4. CASE ReadFails(b)
  <2>1. /\ step[b] = "read" /\ answers'[b] = answers[b] /\ sent'[b] = sent[b]
        /\ acked'[b] = acked[b] /\ executed'[b] = executed[b] /\ archive'[b] = archive[b]
        /\ result'[b] = result[b] /\ Proceed(b)
    BY <1>4 DEF ReadFails
  <2>2. Honest(b)'
    BY <2>1 DEF OwnInv, Honest
  <2>3. InOrder(b)' /\ Phases(b)'
    BY <2>1, InOrderProceeds, PhasesProceed
  <2>4. sent[b] = <<>> \/ (link[b] = "up" /\ "timeout" \in marks'[b])
    BY <1>4 DEF ReadFails, Mark, BackupTypeOK, OwnInv, NoneUnderWay
  <2>5. link'[b] = link[b] \/ link'[b] = "closed"
    BY <2>1, ProceedAt
  <2>6. NoneUnderWay(b)'
    BY <2>1, <2>4, <2>5 DEF NoneUnderWay
  <2> QED
    BY <2>2, <2>3, <2>6 DEF OwnInv
<1>5. CASE ReadChunk(b)
  <2>1. /\ step[b] = "upload" /\ UNCHANGED <<step, link, cmd, sent, answers, key, result, acked,
                                            executed>>
    BY <1>5 DEF ReadChunk, rconVars
  <2>2. Honest(b)'
    BY <2>1 DEF OwnInv, Honest
  <2>3. InOrder(b)'
    BY <2>1 DEF OwnInv, InOrder
  <2>4. NoneUnderWay(b)'
    BY <2>1 DEF OwnInv, NoneUnderWay
  <2>5. Phases(b)'
    BY <2>1 DEF OwnInv, Phases, BeforeUpload
  <2> QED
    BY <2>2, <2>3, <2>4, <2>5 DEF OwnInv
<1>6. CASE PutObject(b)
  <2>1. /\ step[b] = "upload" /\ UNCHANGED <<link, sent, answers, key, acked, executed, archive>>
    BY <1>6 DEF PutObject
  <2>2. PICK r : Return(b, r)
    BY <1>6 DEF PutObject
  <2>3. \/ step'[b] = "done" /\ cmd'[b] = cmd[b]
        \/ step'[b] = "write" /\ cmd'[b] = 3
    BY <2>2 DEF Return, Go, SaveOn, BackupTypeOK
  <2>4. Honest(b)'
    BY <2>1 DEF OwnInv, Honest
  <2>5. cmd[b] <= 2 /\ cmd[b] <= cmd'[b] /\ (step'[b] = "write" => cmd[b] < cmd'[b])
    BY <1>0, <2>1, <2>3 DEF OwnInv, InOrder, SaveAll
  <2>6. /\ \A i \in 1..Len(sent[b]) : sent[b][i] <= cmd'[b] /\ (step'[b] = "write" => sent[b][i] < cmd'[b])
        /\ \A x \in executed[b] : x <= cmd'[b] /\ (step'[b] = "write" => x < cmd'[b])
    <3>1. \A i \in 1..Len(sent[b]) : sent[b][i] \in 1..3 /\ sent[b][i] <= cmd[b]
      BY <1>0 DEF OwnInv, InOrder
    <3>2. \A x \in executed[b] : x \in 1..3 /\ x <= cmd[b]
      BY <1>0 DEF OwnInv, InOrder
    <3>3. cmd'[b] \in 1..3
      BY <1>0, <2>3
    <3> QED
      BY <1>0, <2>5, <3>1, <3>2, <3>3
  <2>7. InOrder(b)'
    BY <2>1, <2>3, <2>6 DEF OwnInv, InOrder
  <2>8. NoneUnderWay(b)'
    BY <2>1, <2>3 DEF OwnInv, NoneUnderWay
  <2>9. Phases(b)'
    BY <2>1, <2>3 DEF OwnInv, Phases, BeforeUpload, SaveOn
  <2> QED
    BY <2>4, <2>7, <2>8, <2>9 DEF OwnInv
<1>7. CASE Serve(b)
  <2>1. /\ sent[b] # <<>> /\ UNCHANGED <<step, link, cmd, key, result, archive, marks>>
    BY <1>7 DEF Serve, tarVars
  <2>2. Honest(b)' /\ InOrder(b)'
    BY <1>7, ServeKeeps
  <2>3. NoneUnderWay(b)'
    BY <2>1 DEF OwnInv, NoneUnderWay
  <2>4. Phases(b)'
    BY <2>1 DEF OwnInv, Phases, BeforeUpload
  <2> QED
    BY <2>2, <2>3, <2>4 DEF OwnInv
<1>8. CASE ConnectionLost(b)
  <2>1. /\ sent'[b] = <<>> /\ UNCHANGED <<step, cmd, answers, key, result, archive, acked, executed>>
    BY <1>8 DEF ConnectionLost, tarVars, BackupTypeOK
  <2>2. Honest(b)'
    BY <2>1 DEF OwnInv, Honest
  <2>3. InOrder(b)'
    BY <2>1 DEF OwnInv, InOrder
  <2>4. NoneUnderWay(b)'
    BY <2>1 DEF NoneUnderWay
  <2>5. Phases(b)'
    BY <2>1 DEF OwnInv, Phases, BeforeUpload
  <2> QED
    BY <2>2, <2>3, <2>4, <2>5 DEF OwnInv
<1> QED
  BY <1>1, <1>2, <1>3, <1>4, <1>5, <1>6, <1>7, <1>8 DEF BackupStep

\* Every step keeps what each backup knows of its own.
LEMMA OwnInvStep ==
    ASSUME BackupTypeOK, [BackupNext]_backupVars, NEW b \in Backups, OwnInv(b)
    PROVE  OwnInv(b)'
<1>0. marks[b] \subseteq marks'[b]
  BY MarksGrow
<1>1. CASE Own(b)' = Own(b)
  BY <1>0, <1>1, OwnFrame
<1>2. ASSUME NEW c \in Backups, Dial(c) \/ BackupStep(c) \/ Serve(c) \/ ConnectionLost(c)
      PROVE  OwnInv(b)'
  <2>1. CASE c = b
    BY <1>0, <1>2, <2>1, OwnStep
  <2>2. CASE c # b
    BY <1>1, <1>2, <2>2, Elsewhere
  <2> QED
    BY <2>1, <2>2
<1>3. CASE Autosave
  BY <1>1, <1>3 DEF Autosave, rconVars, tarVars, Own
<1>4. CASE ServerRestarts
  <2>1. /\ sent'[b] = <<>> /\ UNCHANGED <<step, cmd, answers, key, result, archive, acked, executed>>
    BY <1>4 DEF ServerRestarts, tarVars, BackupTypeOK
  <2>2. Honest(b)'
    BY <2>1 DEF OwnInv, Honest
  <2>3. InOrder(b)'
    BY <2>1 DEF OwnInv, InOrder
  <2>4. NoneUnderWay(b)'
    BY <2>1 DEF NoneUnderWay
  <2>5. Phases(b)'
    BY <2>1 DEF OwnInv, Phases, BeforeUpload
  <2> QED
    BY <2>2, <2>3, <2>4, <2>5 DEF OwnInv
<1>5. CASE DaemonDies
  <2>1. /\ step'[b] = (IF Running(b) THEN "dead" ELSE step[b])
        /\ link'[b] = link[b] \/ link'[b] = "closed"
        /\ "died" \in marks'[b]
        /\ UNCHANGED <<cmd, sent, answers, key, result, archive, acked, executed>>
    BY <1>5 DEF DaemonDies, Mark, tarVars, BackupTypeOK
  <2>2. Honest(b)'
    BY <2>1 DEF OwnInv, Honest
  <2>3. InOrder(b)'
    BY <2>1 DEF OwnInv, InOrder
  <2>4. NoneUnderWay(b)'
    BY <2>1 DEF OwnInv, NoneUnderWay
  <2>5. Phases(b)'
    BY <2>1 DEF OwnInv, Phases, BeforeUpload
  <2> QED
    BY <2>2, <2>3, <2>4, <2>5 DEF OwnInv
<1>6. CASE UNCHANGED backupVars
  BY <1>1, <1>6 DEF backupVars, rconVars, tarVars, Own
<1> QED
  BY <1>2, <1>3, <1>4, <1>5, <1>6 DEF BackupNext

BackupInv == BackupTypeOK /\ \A b \in Backups : OwnInv(b)

\* The invariant holds before anything was asked for.
LEMMA BackupInvInit == BackupInit => BackupInv
<1> SUFFICES ASSUME BackupInit PROVE BackupInv
  OBVIOUS
<1>1. BackupTypeOK
  BY EmptySeq DEF BackupInit, BackupTypeOK, SaveOff
<1>2. ASSUME NEW b \in Backups PROVE OwnInv(b)
  <2>1. Honest(b)
    BY DEF BackupInit, Honest
  <2>2. InOrder(b)
    BY DEF BackupInit, InOrder
  <2>3. NoneUnderWay(b) /\ Phases(b)
    BY DEF BackupInit, NoneUnderWay, Phases
  <2> QED
    BY <2>1, <2>2, <2>3 DEF OwnInv
<1> QED
  BY <1>1, <1>2 DEF BackupInv

\* Every step keeps the invariant.
LEMMA BackupInvStep == BackupInv /\ [BackupNext]_backupVars => BackupInv'
BY BackupTypeStep, OwnInvStep DEF BackupInv

\* The invariant holds throughout.
LEMMA BackupInvariant == BackupSpec => []BackupInv
BY BackupInvInit, BackupInvStep, PTL DEF BackupSpec

\* Command returns nil only for a command that the game server carried out,
\* however late the answers of earlier commands arrive and whether or not the
\* connection was authenticated.
THEOREM AckedExecutedThm == BackupSpec => []AckedExecuted
<1>1. BackupInv => AckedExecuted
  BY DEF BackupInv, OwnInv, Honest, AckedExecuted
<1> QED
  BY <1>1, BackupInvariant, PTL

-----------------------------------------------------------------------------
\* A key is given once: only a backup that has none gets one, and only its own.
LEMMA KeysKept ==
    ASSUME BackupInv, [BackupNext]_backupVars, NEW b \in Backups, key[b] # 0
    PROVE  key'[b] = key[b]
<1> USE DEF BackupInv
<1>1. ASSUME NEW c \in Backups, Dial(c) \/ BackupStep(c) \/ Serve(c) \/ ConnectionLost(c)
      PROVE  key'[b] = key[b]
  <2>1. CASE c # b
    BY <1>1, <2>1, Elsewhere DEF Own
  <2>2. CASE c = b
    <3>1. ~BeforeUpload(b)
      BY DEF OwnInv, Phases
    <3>2. ASSUME step[b] \in {"write", "read"}, Proceed(b) PROVE key'[b] = key[b]
      <4>1. cmd[b] = SaveOn
        BY <3>1, <3>2 DEF BeforeUpload
      <4> QED
        BY <3>2, <4>1, ProceedAt DEF SaveOff, SaveAll, SaveOn
    <3>3. ~Dial(b)
      BY <3>1 DEF Dial, BeforeUpload
    <3>4. WriteCommand(b) => key'[b] = key[b]
      BY <3>2 DEF WriteCommand
    <3>5. ReadAnswer(b) \/ ReadFails(b) => key'[b] = key[b]
      BY <3>2 DEF ReadAnswer, ReadFails
    <3>6. ReadChunk(b) \/ PutObject(b) \/ Serve(b) \/ ConnectionLost(b) => key'[b] = key[b]
      BY DEF ReadChunk, PutObject, Serve, ConnectionLost, tarVars
    <3> QED
      BY <1>1, <2>2, <3>3, <3>4, <3>5, <3>6 DEF BackupStep
  <2> QED
    BY <2>1, <2>2
<1>2. Autosave \/ ServerRestarts \/ DaemonDies \/ UNCHANGED backupVars => key'[b] = key[b]
  BY DEF Autosave, ServerRestarts, DaemonDies, backupVars, tarVars
<1> QED
  BY <1>1, <1>2 DEF BackupNext

\* The bucket changes only where a backup puts its object, and that backup then
\* has its result; nobody else's result changes.
LEMMA BucketStep ==
    ASSUME BackupInv, [BackupNext]_backupVars
    PROVE  \/ UNCHANGED bucket /\ \A b \in Backups : result'[b] = "key" => result[b] = "key"
           \/ \E c \in Backups :
                 /\ step[c] = "upload" /\ key' = key
                 /\ bucket' = [k \in DOMAIN bucket \cup {key[c]} |->
                                  IF k = key[c] THEN [by |-> c, whole |-> tar[c] = "finished"]
                                                ELSE bucket[k]]
                 /\ result'[c] = "key" => tar[c] = "finished"
                 /\ \A b \in Backups \ {c} : result'[b] = result[b]
<1>0. result \in [Backups -> {"none", "key", "error"}]
  BY DEF BackupInv, BackupTypeOK
<1>1. ASSUME NEW c \in Backups, PutObject(c)
      PROVE  \/ UNCHANGED bucket /\ \A b \in Backups : result'[b] = "key" => result[b] = "key"
             \/ /\ step[c] = "upload" /\ key' = key
                /\ bucket' = [k \in DOMAIN bucket \cup {key[c]} |->
                                 IF k = key[c] THEN [by |-> c, whole |-> tar[c] = "finished"]
                                               ELSE bucket[k]]
                /\ result'[c] = "key" => tar[c] = "finished"
                /\ \A b \in Backups \ {c} : result'[b] = result[b]
  <2>1. CASE Return(c, "error") /\ UNCHANGED bucket
    BY <1>0, <2>1 DEF Return
  <2>2. CASE /\ tar[c] \in {"finished", "failed"}
             /\ bucket' = [k \in DOMAIN bucket \cup {key[c]} |->
                              IF k = key[c] THEN [by |-> c, whole |-> tar[c] = "finished"]
                                            ELSE bucket[k]]
             /\ Return(c, IF tar[c] = "failed" THEN "error" ELSE "key")
    <3>1. result' = [result EXCEPT ![c] = IF tar[c] = "failed" THEN "error" ELSE "key"]
      BY <2>2 DEF Return
    <3>2. result'[c] = "key" => tar[c] = "finished"
      BY <1>0, <2>2, <3>1
    <3>3. \A b \in Backups \ {c} : result'[b] = result[b]
      BY <1>0, <3>1
    <3>4. step[c] = "upload" /\ key' = key
      BY <1>1 DEF PutObject
    <3> QED
      BY <2>2, <3>2, <3>3, <3>4
  <2> QED
    BY <1>1, <2>1, <2>2 DEF PutObject
<1>2. ASSUME NEW c \in Backups, Dial(c) \/ Serve(c) \/ ConnectionLost(c) \/ WriteCommand(c)
                                \/ ReadAnswer(c) \/ ReadFails(c) \/ ReadChunk(c)
      PROVE  UNCHANGED <<bucket, result>>
  BY <1>2 DEF Dial, Serve, ConnectionLost, WriteCommand, ReadAnswer, ReadFails, ReadChunk, tarVars
<1>3. Autosave \/ ServerRestarts \/ DaemonDies \/ UNCHANGED backupVars => UNCHANGED <<bucket, result>>
  BY DEF Autosave, ServerRestarts, DaemonDies, backupVars, tarVars
<1> QED
  BY <1>1, <1>2, <1>3 DEF BackupNext, BackupStep

\* Every step keeps what the returned keys name.
LEMMA KeptStep ==
    ASSUME BackupInv, BackupInv', [BackupNext]_backupVars, NEW b \in Backups, Kept(b)
    PROVE  Kept(b)'
<1> SUFFICES ASSUME result'[b] = "key"
             PROVE  /\ key'[b] \in DOMAIN bucket'
                    /\ \/ bucket'[key'[b]] = [by |-> b, whole |-> TRUE]
                       \/ \E c \in Backups \ {b} : key'[c] = key'[b]
  BY DEF Kept
<1>1. CASE UNCHANGED bucket /\ result[b] = "key"
  <2>1. key[b] # 0
    BY <1>1 DEF BackupInv, OwnInv, Phases
  <2>2. key'[b] = key[b]
    BY <2>1, KeysKept
  <2>3. \A c \in Backups : key[c] = key[b] => key'[c] = key[c]
    BY <2>1, KeysKept
  <2> QED
    BY <1>1, <2>2, <2>3 DEF Kept
<1>2. ASSUME NEW c \in Backups, step[c] = "upload", key' = key,
             bucket' = [k \in DOMAIN bucket \cup {key[c]} |->
                           IF k = key[c] THEN [by |-> c, whole |-> tar[c] = "finished"]
                                         ELSE bucket[k]],
             result'[c] = "key" => tar[c] = "finished",
             c # b => result'[b] = result[b]
      PROVE  /\ key'[b] \in DOMAIN bucket'
             /\ \/ bucket'[key'[b]] = [by |-> b, whole |-> TRUE]
                \/ \E d \in Backups \ {b} : key'[d] = key'[b]
  <2>1. CASE c = b
    <3>1. tar[b] = "finished" /\ key[b] \in DOMAIN bucket'
      BY <1>2, <2>1
    <3>2. bucket'[key[b]] = [by |-> b, whole |-> tar[b] = "finished"]
      BY <1>2, <2>1, <3>1
    <3>3. (tar[b] = "finished") = TRUE
      BY <3>1
    <3> QED
      BY <1>2, <3>1, <3>2, <3>3
  <2>2. CASE c # b
    <3>1. result[b] = "key"
      BY <1>2, <2>2
    <3>2. CASE key[c] = key[b]
      BY <1>2, <2>2, <3>2
    <3>3. CASE key[c] # key[b]
      BY <1>2, <3>1, <3>3 DEF Kept
    <3> QED
      BY <3>2, <3>3
  <2> QED
    BY <2>1, <2>2
<1> QED
  BY <1>1, <1>2, BucketStep

\* The key that BackupServer returns names a whole archive of that backup,
\* unless another backup of the server has the same key: no late failure of
\* the archive and no later backup can take it away.
THEOREM KeyNamesArchiveThm == BackupSpec => []KeyNamesArchive
<1> DEFINE KInv == \A b \in Backups : Kept(b)
<1>1. BackupInit => KInv
  BY DEF BackupInit, Kept
<1>2. BackupInv /\ BackupInv' /\ KInv /\ [BackupNext]_backupVars => KInv'
  BY KeptStep
<1>3. KInv => KeyNamesArchive
  BY DEF Kept, KeyNamesArchive
<1> QED
  BY <1>1, <1>2, <1>3, BackupInvariant, PTL DEF BackupSpec

-----------------------------------------------------------------------------
\* A backup that is alone was alone before, unless it has just started.
LEMMA AloneBefore ==
    ASSUME BackupInv, [BackupNext]_backupVars, NEW b \in Backups, Alone(b)'
    PROVE  Alone(b) \/ Dial(b)
<1>0. \A c \in Backups : marks[c] \subseteq marks'[c]
  BY MarksGrow DEF BackupInv
<1>1. SUFFICES ASSUME ~Dial(b) PROVE Running(b)
  BY <1>0, <1>1 DEF Alone
<1>2. Running(b)'
  BY DEF Alone
<1>3. ASSUME NEW c \in Backups, Dial(c) \/ BackupStep(c) \/ Serve(c) \/ ConnectionLost(c)
      PROVE  Running(b)
  <2>1. CASE c # b
    BY <1>2, <1>3, <2>1, Elsewhere DEF BackupInv, Own, Running
  <2>2. CASE c = b /\ BackupStep(b)
    BY <2>2 DEF BackupStep, WriteCommand, ReadAnswer, ReadFails, ReadChunk, PutObject, Running
  <2>3. CASE c = b /\ (Serve(b) \/ ConnectionLost(b))
    BY <1>2, <2>3 DEF Serve, ConnectionLost, Running
  <2> QED
    BY <1>1, <1>3, <2>1, <2>2, <2>3
<1>4. Autosave \/ ServerRestarts \/ UNCHANGED backupVars => Running(b)
  BY <1>2 DEF Autosave, ServerRestarts, backupVars, Running
<1>5. ~DaemonDies
  BY <1>2 DEF DaemonDies, Running, BackupInv, BackupTypeOK
<1> QED
  BY <1>3, <1>4, <1>5 DEF BackupNext

\* A backup that starts and is alone finds the others at rest.
LEMMA DialAlone ==
    ASSUME BackupInv, NEW b \in Backups, Dial(b), Alone(b)'
    PROVE  \A c \in Backups \ {b} : ~Running(c) /\ sent[c] = <<>>
<1> DEFINE others == {c \in Backups : Running(c)}
<1>1. Mark(IF others = {} THEN {} ELSE others \cup {b}, "overlap")
  BY DEF Dial
<1>2. others = {}
  <2> SUFFICES ASSUME others # {} PROVE FALSE
    OBVIOUS
  <2>1. Mark(others \cup {b}, "overlap")
    BY <1>1
  <2>2. "overlap" \in marks'[b]
    BY <2>1 DEF Mark
  <2> QED
    BY <2>2 DEF Alone
<1>3. Mark({}, "overlap")
  BY <1>1, <1>2
<1>4. marks' = marks
  BY <1>3 DEF Mark, BackupInv, BackupTypeOK
<1> SUFFICES ASSUME NEW c \in Backups \ {b} PROVE ~Running(c) /\ sent[c] = <<>>
  OBVIOUS
<1>5. ~Running(c) /\ step[c] # "read"
  BY <1>2 DEF Running
<1>6. marks[c] \cap {"timeout", "died"} = {}
  BY <1>4 DEF Alone
<1> QED
  BY <1>5, <1>6 DEF BackupInv, OwnInv, NoneUnderWay

\* Backups beside one that is alone stay at rest.
LEMMA QuietStep ==
    ASSUME BackupInv, [BackupNext]_backupVars, NEW b \in Backups, OthersQuiet(b)
    PROVE  OthersQuiet(b)'
<1> SUFFICES ASSUME Alone(b)', NEW c \in Backups \ {b}
             PROVE  (~Running(c) /\ sent[c] = <<>>)'
  BY DEF OthersQuiet
<1>1. ~Running(c) /\ sent[c] = <<>>
  BY AloneBefore, DialAlone DEF OthersQuiet
<1>2. ASSUME NEW d \in Backups, Dial(d) \/ BackupStep(d) \/ Serve(d) \/ ConnectionLost(d)
      PROVE  (~Running(c) /\ sent[c] = <<>>)'
  <2>1. CASE d # c
    BY <1>1, <1>2, <2>1, Elsewhere DEF BackupInv, Own, Running
  <2>2. CASE d = c
    <3>1. ~BackupStep(c)
      BY <1>1 DEF BackupStep, WriteCommand, ReadAnswer, ReadFails, ReadChunk, PutObject, Running
    <3>2. ~Serve(c)
      BY <1>1 DEF Serve
    <3>3. ASSUME Dial(c) PROVE FALSE
      <4> DEFINE others == {e \in Backups : Running(e)}
      <4>1. ~Dial(b)
        BY <3>3 DEF Dial, StartTar, Go, Alone, Running, BackupInv, BackupTypeOK
      <4>2. b \in others
        BY <4>1, AloneBefore DEF Alone
      <4>3. Mark(others \cup {c}, "overlap")
        BY <3>3, <4>2 DEF Dial
      <4>4. "overlap" \in marks'[b]
        BY <4>2, <4>3 DEF Mark
      <4> QED
        BY <4>4 DEF Alone
    <3>4. ASSUME ConnectionLost(c) PROVE (~Running(c) /\ sent[c] = <<>>)'
      BY <1>1, <3>4 DEF ConnectionLost, Running, BackupInv, BackupTypeOK
    <3> QED
      BY <1>2, <2>2, <3>1, <3>2, <3>3, <3>4
  <2> QED
    BY <2>1, <2>2
<1>3. CASE Autosave \/ UNCHANGED backupVars
  BY <1>1, <1>3 DEF Autosave, backupVars, rconVars, Running
<1>4. CASE ServerRestarts
  BY <1>1, <1>4 DEF ServerRestarts, Running, BackupInv, BackupTypeOK
<1>5. CASE DaemonDies
  BY <1>1, <1>5 DEF DaemonDies, Running, BackupInv, BackupTypeOK
<1> QED
  BY <1>2, <1>3, <1>4, <1>5 DEF BackupNext

\* What a step that reaches the game server can do to its world while b is
\* alone: only a command of b changes saving, and only one of b, or the server
\* of its own while it saves, writes the disk.
LEMMA WorldStep ==
    ASSUME BackupInv, [BackupNext]_backupVars, NEW b \in Backups, OthersQuiet(b), Alone(b)',
           "restart" \notin marks'[b]
    PROVE  \/ Serve(b)
           \/ executed'[b] = executed[b] /\ UNCHANGED saving /\ (disk' = disk \/ saving)
<1>1. ASSUME NEW c \in Backups, Serve(c) PROVE c = b
  <2>1. ~Dial(b)
    BY <1>1 DEF Serve, Dial, Go, StartTar, Alone, Running, BackupInv, BackupTypeOK
  <2>2. Alone(b)
    BY <2>1, AloneBefore
  <2> QED
    BY <1>1, <2>2 DEF OthersQuiet, Serve
<1>2. ASSUME NEW c \in Backups, Dial(c) \/ BackupStep(c) \/ ConnectionLost(c)
      PROVE  executed'[b] = executed[b] /\ UNCHANGED <<saving, disk>>
  BY <1>2 DEF Dial, BackupStep, ConnectionLost, WriteCommand, ReadAnswer, ReadFails, ReadChunk,
              PutObject, rconVars, worldVars
<1>3. CASE Autosave
  BY <1>3 DEF Autosave, rconVars
<1>4. ~ServerRestarts
  BY DEF ServerRestarts, Mark
<1>5. CASE DaemonDies \/ UNCHANGED backupVars
  BY <1>5 DEF DaemonDies, backupVars, rconVars, worldVars
<1> QED
  BY <1>1, <1>2, <1>3, <1>4, <1>5 DEF BackupNext

\* Saving stays off between save-off and save-on of a backup that is alone.
LEMMA SavingStep ==
    ASSUME BackupInv, [BackupNext]_backupVars, NEW b \in Backups, OthersQuiet(b), SavingOff(b)
    PROVE  SavingOff(b)'
<1> SUFFICES ASSUME Alone(b)', "restart" \notin marks'[b],
                    SaveOff \in executed'[b], SaveOn \notin executed'[b]
             PROVE  ~saving'
  BY DEF SavingOff
<1>0. marks[b] \subseteq marks'[b]
  BY MarksGrow DEF BackupInv
<1>1. CASE Dial(b)
  BY <1>1 DEF Dial, BackupInv, OwnInv, InOrder
<1>2. CASE Alone(b) /\ ~Serve(b)
  <2>1. executed'[b] = executed[b] /\ saving' = saving
    BY <1>2, WorldStep
  <2> QED
    BY <1>0, <1>2, <2>1 DEF SavingOff
<1>3. CASE Alone(b) /\ Serve(b)
  <2>1. CASE ~authed[b]
    BY <1>0, <1>3, <2>1 DEF Serve, SavingOff
  <2>2. CASE authed[b]
    <3>1. /\ executed'[b] = executed[b] \cup {Head(sent[b])}
          /\ saving' = IF Head(sent[b]) # SaveAll THEN Head(sent[b]) = SaveOn ELSE saving
      BY <1>3, <2>2 DEF Serve, BackupInv, BackupTypeOK
    <3>2. Head(sent[b]) # SaveOn
      BY <3>1
    <3>3. CASE Head(sent[b]) = SaveAll
      <4>1. SaveOff \in executed[b] /\ SaveOn \notin executed[b]
        BY <3>1, <3>3 DEF SaveOff, SaveAll
      <4>2. saving' = saving
        BY <3>1, <3>3
      <4> QED
        BY <1>0, <1>3, <4>1, <4>2 DEF SavingOff
    <3>4. CASE Head(sent[b]) # SaveAll
      BY <3>1, <3>2, <3>4
    <3> QED
      BY <3>3, <3>4
  <2> QED
    BY <2>1, <2>2
<1> QED
  BY <1>1, <1>2, <1>3, AloneBefore

\* Between two steps of the upload of a backup that is alone and whose save-off
\* and flush were confirmed, the disk does not change.
LEMMA DiskStill ==
    ASSUME BackupInv, [BackupNext]_backupVars, NEW b \in Backups, OthersQuiet(b), SavingOff(b),
           step[b] = "upload", Alone(b), Alone(b)', "restart" \notin marks'[b],
           {SaveOff, SaveAll} \subseteq acked[b]
    PROVE  disk' = disk
<1>1. {1, 2} \subseteq executed[b] /\ executed[b] \subseteq 1..3 /\ cmd[b] \in 1..2
  BY DEF BackupInv, BackupTypeOK, OwnInv, Honest, InOrder, SaveOff, SaveAll
<1>2. sent[b] \in Seq(1..3)
  BY DEF BackupInv, BackupTypeOK
<1>3. ~Serve(b)
  <2> SUFFICES ASSUME sent[b] # <<>> PROVE FALSE
    BY DEF Serve
  <2>1. 1 \in 1..Len(sent[b]) /\ sent[b][1] \in 1..3
    BY <1>2
  <2>2. 2 < sent[b][1] /\ sent[b][1] <= cmd[b]
    BY <1>1, <2>1 DEF BackupInv, OwnInv, InOrder
  <2> QED
    BY <1>1, <2>1, <2>2
<1>4. marks[b] \subseteq marks'[b]
  BY MarksGrow DEF BackupInv
<1>5. 3 \notin executed[b]
  <2> SUFFICES ASSUME 3 \in executed[b] PROVE FALSE
    OBVIOUS
  <2>1. 3 <= cmd[b]
    BY DEF BackupInv, OwnInv, InOrder
  <2> QED
    BY <1>1, <2>1
<1>6. ~saving
  BY <1>1, <1>4, <1>5 DEF SavingOff, SaveOff, SaveOn
<1> QED
  BY <1>3, <1>6, WorldStep

\* The archive of a backup grows only while it uploads, by what is on disk, and
\* what is acknowledged before the upload is acknowledged to an empty archive.
LEMMA ArchiveStep ==
    ASSUME BackupInv, [BackupNext]_backupVars, NEW b \in Backups
    PROVE  \/ archive'[b] = archive[b] /\ acked'[b] = acked[b]
              /\ (step'[b] = "upload" => step[b] = "upload" \/ archive[b] = <<>>)
           \/ archive'[b] = <<>>
           \/ archive'[b] = archive[b] /\ acked'[b] = acked[b] \cup {SaveOn} /\ step'[b] # "upload"
           \/ /\ archive'[b] = Append(archive[b], disk) /\ UNCHANGED <<acked, disk>>
              /\ step[b] = "upload" /\ step'[b] = "upload"
<1> DEFINE Goal == \/ archive'[b] = archive[b] /\ acked'[b] = acked[b]
                      /\ (step'[b] = "upload" => step[b] = "upload" \/ archive[b] = <<>>)
                   \/ archive'[b] = <<>>
                   \/ archive'[b] = archive[b] /\ acked'[b] = acked[b] \cup {SaveOn}
                      /\ step'[b] # "upload"
                   \/ /\ archive'[b] = Append(archive[b], disk) /\ UNCHANGED <<acked, disk>>
                      /\ step[b] = "upload" /\ step'[b] = "upload"
<1>1. BeforeUpload(b) => archive[b] = <<>>
  BY DEF BackupInv, OwnInv, Phases
<1>2. CASE /\ step[b] \in {"write", "read"} /\ archive'[b] = archive[b] /\ Proceed(b)
           /\ acked'[b] = acked[b] \/ acked'[b] = acked[b] \cup {cmd[b]}
  <2>1. CASE cmd[b] = SaveOn
    <3>1. step'[b] = "done"
      BY <1>2, <2>1, ProceedAt DEF BackupInv, SaveOff, SaveAll, SaveOn
    <3> QED
      BY <1>2, <2>1, <3>1
  <2>2. CASE cmd[b] # SaveOn
    BY <1>1, <1>2, <2>2 DEF BeforeUpload
  <2> QED
    BY <2>1, <2>2
<1>3. CASE Dial(b)
  BY <1>1, <1>3 DEF Dial, BeforeUpload
<1>4. CASE WriteCommand(b)
  <2>1. step[b] = "write" /\ archive'[b] = archive[b] /\ acked'[b] = acked[b]
    BY <1>4 DEF WriteCommand
  <2>2. Proceed(b) \/ step'[b] = "read"
    BY <1>4 DEF WriteCommand, Go, BackupInv, BackupTypeOK
  <2> QED
    BY <1>2, <2>1, <2>2
<1>5. CASE ReadAnswer(b)
  <2>1. step[b] = "read" /\ archive'[b] = archive[b]
    BY <1>5 DEF ReadAnswer
  <2>2. \/ Proceed(b) /\ acked'[b] = acked[b] \cup {cmd[b]}
        \/ step'[b] = step[b] /\ acked'[b] = acked[b]
    BY <1>5 DEF ReadAnswer, BackupInv, BackupTypeOK
  <2> QED
    BY <1>2, <2>1, <2>2
<1>6. CASE ReadFails(b)
  BY <1>2, <1>6 DEF ReadFails
<1>7. CASE ReadChunk(b)
  BY <1>7 DEF ReadChunk, rconVars, worldVars, BackupInv, BackupTypeOK
<1>8. CASE PutObject(b)
  BY <1>8 DEF PutObject
<1>9. CASE Serve(b) \/ ConnectionLost(b)
  BY <1>9 DEF Serve, ConnectionLost, tarVars
<1>10. ASSUME NEW c \in Backups \ {b}, Dial(c) \/ BackupStep(c) \/ Serve(c) \/ ConnectionLost(c)
       PROVE Goal
  BY <1>10, Elsewhere DEF BackupInv, Own
<1>11. CASE Autosave \/ ServerRestarts \/ UNCHANGED backupVars
  BY <1>11 DEF Autosave, ServerRestarts, backupVars, rconVars, tarVars
<1>12. CASE DaemonDies
  BY <1>12 DEF DaemonDies, tarVars, BackupInv, BackupTypeOK
<1> QED
  BY <1>3, <1>4, <1>5, <1>6, <1>7, <1>8, <1>9, <1>10, <1>11, <1>12 DEF BackupNext, BackupStep

\* What a backup that is alone has read stays what is on disk.
LEMMA ReadsStep ==
    ASSUME BackupInv, [BackupNext]_backupVars, NEW b \in Backups, OthersQuiet(b), SavingOff(b),
           ReadsDisk(b)
    PROVE  ReadsDisk(b)'
<1> SUFFICES ASSUME step'[b] = "upload", Alone(b)', "restart" \notin marks'[b],
                    {SaveOff, SaveAll} \subseteq acked'[b],
                    NEW i \in 1..Len(archive'[b])
             PROVE  archive'[b][i] = disk'
  BY DEF ReadsDisk
<1>0. archive[b] \in Seq(Nat) /\ marks[b] \subseteq marks'[b]
  BY MarksGrow DEF BackupInv, BackupTypeOK
<1>1. archive'[b] # <<>>
  OBVIOUS
<1>2. acked'[b] = acked[b] /\ step[b] = "upload"
      /\ (archive'[b] = archive[b] \/ (archive'[b] = Append(archive[b], disk) /\ disk' = disk))
  BY <1>1, ArchiveStep
<1>3. Alone(b)
  BY <1>2, AloneBefore DEF Dial
<1>4. disk' = disk
  BY <1>2, <1>3, DiskStill
<1>5. \A j \in 1..Len(archive[b]) : archive[b][j] = disk
  BY <1>0, <1>2, <1>3 DEF ReadsDisk
<1>6. CASE archive'[b] = archive[b]
  BY <1>4, <1>5, <1>6
<1>7. CASE archive'[b] = Append(archive[b], disk)
  BY <1>0, <1>4, <1>5, <1>7
<1> QED
  BY <1>2, <1>6, <1>7

\* An archive that is consistent stays so.
LEMMA ConsistentStep ==
    ASSUME BackupInv, [BackupNext]_backupVars, NEW b \in Backups, Consistent(b), ReadsDisk(b)'
    PROVE  Consistent(b)'
<1> SUFFICES ASSUME NEW i \in DOMAIN archive'[b], NEW j \in DOMAIN archive'[b],
                    archive'[b][i] # archive'[b][j],
                    {SaveOff, SaveAll} \subseteq acked'[b],
                    marks'[b] \cap {"overlap", "restart"} = {},
                    \A c \in Backups \ {b} : marks'[c] \cap {"timeout", "died"} = {}
             PROVE  FALSE
  BY DEF Consistent
<1>0. archive[b] \in Seq(Nat) /\ \A c \in Backups : marks[c] \subseteq marks'[c]
  BY MarksGrow DEF BackupInv, BackupTypeOK
<1>1. archive'[b] # <<>>
  OBVIOUS
<1>2. CASE archive'[b] = archive[b] /\ {SaveOff, SaveAll} \subseteq acked[b]
  BY <1>0, <1>2 DEF Consistent
<1>3. CASE archive'[b] = Append(archive[b], disk) /\ step'[b] = "upload"
  <2>1. Alone(b)'
    BY <1>3 DEF Alone, Running
  <2>2. \A k \in 1..Len(archive'[b]) : archive'[b][k] = disk'
    BY <2>1, <1>3 DEF ReadsDisk
  <2>3. DOMAIN archive'[b] = 1..Len(archive'[b])
    BY <1>0, <1>3 DEF BackupInv, BackupTypeOK
  <2> QED
    BY <2>2, <2>3
<1>4. {SaveOff, SaveAll} \subseteq acked[b] \cup {SaveOn} => {SaveOff, SaveAll} \subseteq acked[b]
  BY DEF SaveOff, SaveAll, SaveOn
<1> QED
  BY <1>1, <1>2, <1>3, <1>4, ArchiveStep

\* "avoids dirty reads": an archive mixes two versions of the world only when
\* RCON did not confirm save-off and the flush, when backups overlapped, when
\* the server restarted, or when a command of another backup took effect late.
THEOREM ConsistentArchiveThm == BackupSpec => []ConsistentArchive
<1> DEFINE CInv == \A b \in Backups : OthersQuiet(b) /\ SavingOff(b) /\ ReadsDisk(b) /\ Consistent(b)
<1>1. BackupInit => CInv
  BY DEF BackupInit, OthersQuiet, SavingOff, ReadsDisk, Consistent, Alone, Running
<1>2. BackupInv /\ CInv /\ [BackupNext]_backupVars => CInv'
  <2> SUFFICES ASSUME BackupInv, CInv, [BackupNext]_backupVars, NEW b \in Backups
               PROVE  (OthersQuiet(b) /\ SavingOff(b) /\ ReadsDisk(b) /\ Consistent(b))'
    OBVIOUS
  <2>1. OthersQuiet(b)'
    BY QuietStep
  <2>2. SavingOff(b)'
    BY SavingStep
  <2>3. ReadsDisk(b)'
    BY ReadsStep
  <2>4. Consistent(b)'
    BY <2>3, ConsistentStep
  <2> QED
    BY <2>1, <2>2, <2>3, <2>4
<1>3. CInv => ConsistentArchive
  BY DEF Consistent, ConsistentArchive
<1> QED
  BY <1>1, <1>2, <1>3, BackupInvariant, PTL DEF BackupSpec
=============================================================================
