------------------------------- MODULE Backup -------------------------------
(***************************************************************************)
(* The snapshot engine and the RCON client it uses: live backups of one    *)
(* game server.  A backup turns the server's saving off over RCON, has it  *)
(* flushed, streams a tar of the data directory to S3 and turns saving on  *)
(* again.  The server answers commands in order and at any time; a read    *)
(* has a deadline, and an answer that misses it stays in the connection.   *)
(* The game server, TCP and S3 are external.                               *)
(***************************************************************************)
EXTENDS Naturals, Sequences, FiniteSets

CONSTANTS
    Backups,         \* the calls of BackupServer
    Chunks,          \* reads that make an archive
    MaxSaves,        \* bound on autosaves
    MaxSeconds,      \* bound on the clock that names the objects
    MaxBackupFaults  \* bound on failures, timeouts and crashes

ASSUME BackupAssumption ==
    /\ IsFiniteSet(Backups)
    /\ {Chunks, MaxSaves, MaxSeconds, MaxBackupFaults} \subseteq Nat

VARIABLES
    saving,    \* the server writes its world to disk
    disk,      \* version of the world on disk
    step,      \* where each backup is
    link,      \* its RCON connection: "none", "up", "lost" or "closed"
    authed,    \* the server accepted the password
    cmd,       \* id of the command being carried out, from 1
    sent,      \* ids the server has not served
    answers,   \* ids of answers not read
    archive,   \* versions of the world read by tarDir
    tar,       \* "off", "reading", "finished" or "failed"
    key,       \* second that names the object
    result,    \* "none", "key" or "error"
    bucket,    \* objects: second -> [by, whole]
    second, saves, backupFaults,
    acked, executed, \* history: commands that returned nil, that took effect
    marks            \* history: what disturbed a backup

rconVars == <<link, authed, cmd, sent, answers, acked, executed>>
tarVars == <<archive, tar, key, result, bucket>>
worldVars == <<saving, disk, saves>>
backupVars == <<rconVars, tarVars, worldVars, step, second, backupFaults, marks>>

SaveOff == 1
SaveAll == 2
SaveOn == 3
Rejected == 0   \* the id of an answer to a connection that is not authenticated

BackupInit ==
    /\ saving = TRUE /\ disk = 0 /\ saves = 0
    /\ step = [b \in Backups |-> "idle"]
    /\ link = [b \in Backups |-> "none"] /\ authed = [b \in Backups |-> FALSE]
    /\ cmd = [b \in Backups |-> SaveOff]
    /\ sent = [b \in Backups |-> <<>>] /\ answers = [b \in Backups |-> <<>>]
    /\ archive = [b \in Backups |-> <<>>] /\ tar = [b \in Backups |-> "off"]
    /\ key = [b \in Backups |-> 0] /\ result = [b \in Backups |-> "none"]
    /\ bucket = <<>>
    /\ second = 1 /\ backupFaults = 0
    /\ acked = [b \in Backups |-> {}] /\ executed = [b \in Backups |-> {}]
    /\ marks = [b \in Backups |-> {}]

Running(b) == step[b] \notin {"idle", "done", "dead"}

BackupFault == backupFaults < MaxBackupFaults /\ backupFaults' = backupFaults + 1

Go(b, s) == step' = [step EXCEPT ![b] = s]

Mark(bs, what) == marks' = [b \in Backups |-> IF b \in bs THEN marks[b] \cup {what}
                                                         ELSE marks[b]]

\* The goroutine that fills the pipe starts, and the object gets the name of
\* the second: the last one in which a backup got its name, or a later one.
StartTar(b) ==
    /\ Go(b, "upload")
    /\ tar' = [tar EXCEPT ![b] = "reading"]
    /\ second' \in second .. MaxSeconds
    /\ key' = [key EXCEPT ![b] = second']

\* rcon.Dial.  auth looks for a packet of type -1, which no server sends: a
\* wrong password goes unnoticed.  The backup goes on without RCON when the
\* connection fails.
Dial(b) ==
    /\ step[b] = "idle"
    /\ \E others \in {{c \in Backups : Running(c)}} :
          Mark(IF others = {} THEN {} ELSE others \cup {b}, "overlap")
    /\ \/ /\ \/ authed' = [authed EXCEPT ![b] = TRUE] /\ UNCHANGED backupFaults
             \/ UNCHANGED authed /\ BackupFault
          /\ link' = [link EXCEPT ![b] = "up"]
          /\ Go(b, "write")
          /\ UNCHANGED <<tar, key, second>>
       \/ /\ BackupFault
          /\ StartTar(b)
          /\ UNCHANGED <<link, authed>>
    /\ UNCHANGED <<cmd, sent, answers, acked, executed, archive, result, bucket,
                   worldVars>>

\* Mutant: saving is turned on again without waiting for the upload.
ProceedWithoutDefer(b) ==
    \/ /\ cmd[b] # SaveOn
       /\ cmd' = [cmd EXCEPT ![b] = @ + 1] /\ Go(b, "write")
       /\ UNCHANGED <<link, tar, key, second>>
    \/ cmd[b] = SaveOn /\ tar[b] = "off" /\ StartTar(b) /\ UNCHANGED <<cmd, link>>
    \/ /\ cmd[b] = SaveOn /\ tar[b] # "off"
       /\ link' = [link EXCEPT ![b] = "closed"] /\ Go(b, "done")
       /\ UNCHANGED <<cmd, tar, key, second>>

\* What follows a command, whatever it returned.
Proceed(b) ==
    \/ /\ cmd[b] = SaveOff
       /\ cmd' = [cmd EXCEPT ![b] = SaveAll] /\ Go(b, "write")
       /\ UNCHANGED <<link, tar, key, second>>
    \/ cmd[b] = SaveAll /\ StartTar(b) /\ UNCHANGED <<cmd, link>>
    \/ /\ cmd[b] = SaveOn
       /\ link' = [link EXCEPT ![b] = "closed"] /\ Go(b, "done")
       /\ UNCHANGED <<cmd, tar, key, second>>

\* Command: writePacket, which fails on a connection that is lost.
WriteCommand(b) ==
    /\ step[b] = "write"
    /\ \/ /\ link[b] = "up"
          /\ sent' = [sent EXCEPT ![b] = Append(@, cmd[b])]
          /\ Go(b, "read")
          /\ UNCHANGED <<link, cmd, tar, key, second>>
       \/ /\ link[b] = "lost"
          /\ Proceed(b)
          /\ UNCHANGED sent
    /\ UNCHANGED <<authed, answers, acked, executed, archive, result, bucket,
                   worldVars, backupFaults, marks>>

\* Mutant: the first packet read is the answer.
ReadAnswerAny(b) ==
    /\ step[b] = "read" /\ answers[b] # <<>>
    /\ answers' = [answers EXCEPT ![b] = Tail(@)]
    /\ acked' = [acked EXCEPT ![b] = @ \cup {cmd[b]}]
    /\ Proceed(b)
    /\ UNCHANGED <<authed, sent, executed, archive, result, bucket, worldVars,
                   backupFaults, marks>>

\* Command reads packets until one carries its id.
ReadAnswer(b) ==
    /\ step[b] = "read" /\ answers[b] # <<>>
    /\ answers' = [answers EXCEPT ![b] = Tail(@)]
    /\ \/ /\ Head(answers[b]) = cmd[b]
          /\ acked' = [acked EXCEPT ![b] = @ \cup {cmd[b]}]
          /\ Proceed(b)
       \/ /\ Head(answers[b]) # cmd[b]
          /\ UNCHANGED <<acked, link, cmd, step, tar, key, second>>
    /\ UNCHANGED <<authed, sent, executed, archive, result, bucket, worldVars,
                   backupFaults, marks>>

\* The read fails: the connection is lost, the server refuses everything, or
\* the answer is late.
ReadFails(b) ==
    /\ step[b] = "read" /\ answers[b] = <<>>
    /\ \/ link[b] = "lost" /\ UNCHANGED <<backupFaults, marks>>
       \/ ~authed[b] /\ link[b] = "up" /\ sent[b] = <<>> /\ UNCHANGED <<backupFaults, marks>>
       \/ link[b] = "up" /\ BackupFault /\ Mark({b}, "timeout")
    /\ Proceed(b)
    /\ UNCHANGED <<authed, sent, answers, acked, executed, archive, result, bucket,
                   worldVars>>

\* tarDir reads the next part of the data directory into the pipe.
ReadChunk(b) ==
    /\ step[b] = "upload" /\ tar[b] = "reading"
    /\ \/ /\ archive' = [archive EXCEPT ![b] = Append(@, disk)]
          /\ tar' = [tar EXCEPT ![b] = IF Len(archive'[b]) = Chunks THEN "finished" ELSE @]
          /\ UNCHANGED backupFaults
       \/ /\ BackupFault
          /\ tar' = [tar EXCEPT ![b] = "failed"]
          /\ UNCHANGED archive
    /\ UNCHANGED <<rconVars, key, result, bucket, worldVars, step, second, marks>>

\* Mutant: save-on is sent at the end of a backup and not deferred.
ReturnEarly(b, r) ==
    /\ result' = [result EXCEPT ![b] = r]
    /\ IF link[b] = "none" \/ r = "error"
       THEN Go(b, "done") /\ UNCHANGED cmd
       ELSE Go(b, "write") /\ cmd' = [cmd EXCEPT ![b] = SaveOn]

\* BackupServer returns r; the deferred function runs where RCON was reached.
Return(b, r) ==
    /\ result' = [result EXCEPT ![b] = r]
    /\ IF link[b] = "none"
       THEN Go(b, "done") /\ UNCHANGED cmd
       ELSE Go(b, "write") /\ cmd' = [cmd EXCEPT ![b] = SaveOn]

\* Mutant: the error of tarDir is not waited for.
PutObjectIgnoringTar(b) ==
    /\ step[b] = "upload"
    /\ tar[b] \in {"finished", "failed"}
    /\ bucket' = [k \in DOMAIN bucket \cup {key[b]} |->
                     IF k = key[b] THEN [by |-> b, whole |-> tar[b] = "finished"]
                                   ELSE bucket[k]]
    /\ Return(b, "key")
    /\ UNCHANGED <<link, authed, sent, answers, acked, executed, archive, tar, key,
                   worldVars, second, backupFaults, marks>>

\* The bucket is looked up or made, and PutObject reads the pipe to its end,
\* which tarDir reaches whether or not it failed; then the error of tarDir is
\* looked at.  Each call of S3 may fail.
PutObject(b) ==
    /\ step[b] = "upload"
    /\ \/ /\ tar[b] \in {"finished", "failed"}
          /\ bucket' = [k \in DOMAIN bucket \cup {key[b]} |->
                           IF k = key[b] THEN [by |-> b, whole |-> tar[b] = "finished"]
                                         ELSE bucket[k]]
          /\ Return(b, IF tar[b] = "failed" THEN "error" ELSE "key")
          /\ UNCHANGED backupFaults
       \/ BackupFault /\ Return(b, "error") /\ UNCHANGED bucket
    /\ UNCHANGED <<link, authed, sent, answers, acked, executed, archive, tar, key,
                   worldVars, second, marks>>

-----------------------------------------------------------------------------
\* The environment.

\* The game server takes the next command of a connection; it answers unless
\* the connection was closed.
Serve(b) ==
    /\ sent[b] # <<>>
    /\ sent' = [sent EXCEPT ![b] = Tail(@)]
    /\ answers' = [answers EXCEPT ![b] =
                      IF link[b] = "closed" THEN @
                      ELSE Append(@, IF authed[b] THEN Head(sent[b]) ELSE Rejected)]
    /\ executed' = IF authed[b] THEN [executed EXCEPT ![b] = @ \cup {Head(sent[b])}]
                                ELSE executed
    /\ saving' = IF authed[b] /\ Head(sent[b]) # SaveAll THEN Head(sent[b]) = SaveOn
                                                         ELSE saving
    /\ disk' = IF authed[b] /\ Head(sent[b]) = SaveAll THEN disk + 1 ELSE disk
    /\ UNCHANGED <<link, authed, cmd, acked, tarVars, saves, step, second,
                   backupFaults, marks>>

Autosave ==
    /\ saving /\ saves < MaxSaves
    /\ saves' = saves + 1 /\ disk' = disk + 1
    /\ UNCHANGED <<rconVars, tarVars, saving, step, second, backupFaults, marks>>

\* Commands under way are lost with a connection: one that breaks, or one
\* that was closed before they were served.
ConnectionLost(b) ==
    /\ BackupFault
    /\ link[b] = "up" \/ (link[b] = "closed" /\ sent[b] # <<>>)
    /\ link' = [link EXCEPT ![b] = IF @ = "up" THEN "lost" ELSE @]
    /\ sent' = [sent EXCEPT ![b] = <<>>]
    /\ Mark({b}, "lost")
    /\ UNCHANGED <<authed, cmd, answers, acked, executed, tarVars, worldVars, step, second>>

\* The game server saves, stops and starts with saving on.
ServerRestarts ==
    /\ BackupFault
    /\ saving' = TRUE /\ disk' = disk + 1
    /\ link' = [b \in Backups |-> IF link[b] = "up" THEN "lost" ELSE link[b]]
    /\ sent' = [b \in Backups |-> <<>>]
    /\ Mark(Backups, "restart")
    /\ UNCHANGED <<authed, cmd, answers, acked, executed, tarVars, saves, step, second>>

\* The daemon dies: nothing deferred runs, and the upload is not completed.
DaemonDies ==
    /\ BackupFault
    /\ \E b \in Backups : Running(b)
    /\ step' = [b \in Backups |-> IF Running(b) THEN "dead" ELSE step[b]]
    /\ link' = [b \in Backups |-> IF Running(b) /\ link[b] = "up" THEN "closed" ELSE link[b]]
    /\ Mark(Backups, "died")
    /\ UNCHANGED <<authed, cmd, sent, answers, acked, executed, tarVars, worldVars, second>>

BackupStep(b) == WriteCommand(b) \/ ReadAnswer(b) \/ ReadFails(b) \/ ReadChunk(b)
                 \/ PutObject(b)

BackupNext ==
    \/ \E b \in Backups : Dial(b) \/ BackupStep(b) \/ Serve(b) \/ ConnectionLost(b)
    \/ Autosave \/ ServerRestarts \/ DaemonDies

BackupSpec == BackupInit /\ [][BackupNext]_backupVars

\* A backup goes on, for its calls have deadlines, and the server serves.
BackupFairSpec ==
    BackupSpec /\ \A b \in Backups : WF_backupVars(BackupStep(b)) /\ WF_backupVars(Serve(b))

-----------------------------------------------------------------------------
\* Properties.

\* Command returns nil only for a command that the server carried out: the
\* late answer of an earlier command and the refusal of a connection that is
\* not authenticated are never taken for its own.
AckedExecuted == \A b \in Backups : acked[b] \subseteq executed[b]

\* The key a backup returns names a whole archive of its own, unless another
\* backup of the server started its archive in the same second.
KeyNamesArchive ==
    \A b \in Backups :
        /\ result[b] = "key"
        /\ \A c \in Backups \ {b} : key[c] # key[b]
        => key[b] \in DOMAIN bucket /\ bucket[key[b]] = [by |-> b, whole |-> TRUE]

\* "avoids dirty reads": an archive mixes two versions of the world only when
\* RCON did not confirm save-off and the flush, when backups overlapped, when
\* the server restarted, or when a command of an earlier backup was given up
\* or orphaned and took effect late.
ConsistentArchive ==
    \A b \in Backups :
        (\E i, j \in DOMAIN archive[b] : archive[b][i] # archive[b][j]) =>
            \/ ~({SaveOff, SaveAll} \subseteq acked[b])
            \/ marks[b] \cap {"overlap", "restart"} # {}
            \/ \E c \in Backups \ {b} : marks[c] \cap {"timeout", "died"} # {}

\* "Send save-on via RCON to re-enable saving": a server whose saving is off
\* saves again, however the backup ends, unless the daemon died or a command
\* was lost with its connection.
SavingResumes ==
    ~saving ~> (saving \/ \E b \in Backups : marks[b] \cap {"lost", "died"} # {})

\* "to disable auto-saving (avoids dirty reads)": an archive whose save-off and
\* flush were confirmed holds one version of the world when nothing fails.
\* Nothing keeps two backups of a server apart: the flush of one writes while
\* the other reads, and the save-on of one ends the save-off of the other.
NoDirtyReads ==
    \A b \in Backups :
        {SaveOff, SaveAll} \subseteq acked[b] /\ backupFaults = 0 =>
            \A i, j \in DOMAIN archive[b] : archive[b][i] = archive[b][j]
=============================================================================
