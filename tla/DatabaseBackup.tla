--------------------------- MODULE DatabaseBackup ---------------------------
(***************************************************************************)
(* The calendar jobs of the process: the database backup with its retries, *)
(* its history and its retention (app/backup_runner.go, backup/backup.go), *)
(* and the daily storage cleanup (app/maintenance.go).                     *)
(*                                                                         *)
(* Time is relative so that behaviours never run out of it: hour is the    *)
(* tick of the local day, and everything that happened carries the number  *)
(* of midnights since, up to MaxAge, beyond which no decision changes.     *)
(***************************************************************************)
EXTENDS Integers, FiniteSets, FiniteSetsExt

CONSTANTS
    DayTicks,      \* ticks of a day; one tick is the retry delay
    BackupTick,    \* 04:00
    CleanupTick,   \* 03:00
    Intervals,     \* values of BACKUP_INTERVAL, in ticks
    MaxInterval,   \* none of them is longer
    RetentionDays, \* BACKUP_RETENTION_DAYS
    MaxCopy,       \* bound: ticks a copy takes
    MaxStops       \* bound: crashes and shutdowns of the process

ASSUME DatabaseBackupAssumption ==
    /\ DayTicks \in Nat \ {0} /\ MaxInterval \in Nat /\ Intervals \subseteq 1 .. MaxInterval
    /\ BackupTick \in 0 .. DayTicks - 1 /\ CleanupTick \in 0 .. DayTicks - 1
    /\ RetentionDays \in Nat /\ MaxStops \in Nat
    /\ MaxCopy \in 0 .. DayTicks - 1

RetryDelay == 1
MaxAge == RetentionDays + (MaxInterval \div DayTicks) + 2

VARIABLES
    interval,    \* BACKUP_INTERVAL of this installation
    hour,        \* tick of the local day
    files,       \* files below the backup directory: [dir, kind, whole]
    newest,      \* modification time of the newest backup
    runner,      \* the backup runner: [pc, wake, last, attempts, retry, began]
    storage,     \* the storage cleanup runner: [pc, wake, ran]
    cancelled,   \* the context of the runners
    stops,       \* crashes and shutdowns so far
    sinceLast    \* age in days of the last successful backup (history)

backupVars == <<interval, hour, files, newest, runner, storage, cancelled, stops, sinceLast>>

\* A moment: midnights since, and the tick of its day.
Now == [days |-> 0, hour |-> hour]
Never == [days |-> -1, hour |-> 0]
Older(n) == Min({n + 1, MaxAge})
Aged(t) == IF t = Never THEN t ELSE [t EXCEPT !.days = Older(@)]

\* Ticks from a moment to now.
Elapsed(t) == t.days * DayTicks + hour - t.hour

FreshRunner == [pc |-> "plan", wake |-> 0, last |-> Never, attempts |-> 0, retry |-> FALSE,
                began |-> Never]
FreshStorage == [pc |-> "plan", wake |-> 0, ran |-> FALSE]

BackupInit ==
    /\ interval \in Intervals
    /\ hour = 0 /\ files = {} /\ newest = Never /\ cancelled = FALSE /\ stops = 0 /\ sinceLast = MaxAge
    /\ runner = FreshRunner /\ storage = FreshStorage

-----------------------------------------------------------------------------
(* The schedule. *)

usesDailySchedule == interval >= DayTicks /\ interval % DayTicks = 0

dailyScheduleDays == interval \div DayTicks

\* ListFiles and LastBackupAt of the store: the newest complete name counts.
ListFiles == {f \in files : f.kind = "db"}

StoredBackupAt == IF ListFiles = {} THEN Never ELSE newest

\* The later of the remembered and the stored time; without the stored one when
\* the directory cannot be read.
lastBackupAtFromHistory(readable) ==
    IF ~readable \/ StoredBackupAt = Never THEN runner.last
    ELSE IF runner.last # Never /\ Elapsed(runner.last) <= Elapsed(StoredBackupAt)
    THEN runner.last ELSE StoredBackupAt

nextDailyAt(tick) == IF hour < tick THEN tick - hour ELSE DayTicks + tick - hour

nextDailyDelay(last) ==
    LET candidate == (dailyScheduleDays - last.days) * DayTicks + BackupTick - hour
    IN IF last # Never /\ candidate > 0 THEN candidate ELSE nextDailyAt(BackupTick)

nextDelay(last) ==
    IF runner.retry THEN RetryDelay
    ELSE IF usesDailySchedule THEN nextDailyDelay(last)
    ELSE IF last = Never THEN 0
    ELSE Max({0, interval - Elapsed(last)})

-----------------------------------------------------------------------------
(* The backup runner. *)

\* Run, top of the loop: the delay is computed and the runner sleeps.
PlanBackup ==
    /\ runner.pc = "plan"
    /\ \E readable \in BOOLEAN :
         runner' = [runner EXCEPT !.pc = "sleep",
                                  !.wake = nextDelay(lastBackupAtFromHistory(readable))]
    /\ UNCHANGED <<interval, newest, hour, files, storage, cancelled, stops, sinceLast>>

\* A plausible bug: the copy is written under its final name.
StartCopyInPlace ==
    /\ runner.pc = "sleep" /\ runner.wake = 0
    /\ runner' = [runner EXCEPT !.pc = "copy", !.began = Now]
    /\ files' = files \cup {[dir |-> 0, kind |-> "db", whole |-> FALSE]}
    /\ UNCHANGED <<interval, newest, hour, storage, cancelled, stops, sinceLast>>

\* The copy is written next to its final name.
StartCopy ==
    /\ runner.pc = "sleep" /\ runner.wake = 0
    /\ runner' = [runner EXCEPT !.pc = "copy", !.began = Now]
    /\ files' = files \cup {[dir |-> 0, kind |-> "tmp", whole |-> FALSE]}
    /\ UNCHANGED <<interval, newest, hour, storage, cancelled, stops, sinceLast>>

\* The file the running copy writes.
Copied == [dir |-> runner.began.days, kind |-> "tmp", whole |-> FALSE]

\* WriteDatabase succeeds: the whole copy gets its final name.
FinishCopy ==
    /\ runner.pc = "copy"
    /\ files' = (files \ {Copied})
                \cup {[dir |-> runner.began.days, kind |-> "db", whole |-> TRUE]}
    /\ runner' = [runner EXCEPT !.pc = "clean", !.last = runner.began,
                                !.attempts = 0, !.retry = FALSE]
    /\ sinceLast' = runner.began.days /\ newest' = Now
    /\ UNCHANGED <<interval, hour, storage, cancelled, stops>>

MaxRetries == 3

\* A plausible bug: the runner gives up after its retries.
FailCopyGivesUp ==
    /\ runner.pc = "copy"
    /\ files' = files \ {Copied}
    /\ runner' = [runner EXCEPT !.pc = IF runner.attempts < MaxRetries THEN "clean" ELSE "stopped",
                                !.attempts = Min({@ + 1, MaxRetries + 1}),
                                !.retry = runner.attempts + 1 <= MaxRetries]
    /\ UNCHANGED <<interval, newest, hour, storage, cancelled, stops, sinceLast>>

\* WriteDatabase fails or is cancelled: the partial copy is removed, and the
\* next three failures are retried soon.
FailCopy ==
    /\ runner.pc = "copy"
    /\ files' = files \ {Copied}
    /\ runner' = [runner EXCEPT !.pc = "clean",
                                !.attempts = Min({@ + 1, MaxRetries + 1}),
                                !.retry = runner.attempts + 1 <= MaxRetries]
    /\ UNCHANGED <<interval, newest, hour, storage, cancelled, stops, sinceLast>>

\* A plausible bug: the day of the cutoff itself expires.
ExpiredEarly(f) == RetentionDays > 0 /\ f.dir - runner.began.days >= RetentionDays

\* Directories of days before the first day that is kept.
Expired(f) == RetentionDays > 0 /\ f.dir - runner.began.days > RetentionDays

\* Cleanup: all expired directories go, or those before one that cannot be removed.
CleanBackups ==
    /\ runner.pc = "clean"
    /\ \E left \in {0} \cup {f.dir : f \in {x \in files : Expired(x)}} :
         files' = {f \in files : ~Expired(f) \/ f.dir <= left}
    /\ runner' = [runner EXCEPT !.pc = "plan"]
    /\ UNCHANGED <<interval, newest, hour, storage, cancelled, stops, sinceLast>>

\* The sleep ends because the context is cancelled.
StopBackup ==
    /\ runner.pc = "sleep" /\ cancelled
    /\ runner' = [runner EXCEPT !.pc = "stopped"]
    /\ UNCHANGED <<interval, newest, hour, files, storage, cancelled, stops, sinceLast>>

-----------------------------------------------------------------------------
(* The storage cleanup runner. *)

PlanCleanup ==
    /\ storage.pc = "plan"
    /\ storage' = [pc |-> "sleep", wake |-> nextDailyAt(CleanupTick), ran |-> FALSE]
    /\ UNCHANGED <<interval, newest, hour, files, runner, cancelled, stops, sinceLast>>

\* CleanupStorage: an error is logged and the schedule goes on.
RunCleanup ==
    /\ storage.pc = "sleep" /\ storage.wake = 0
    /\ storage' = [storage EXCEPT !.pc = "plan", !.ran = TRUE]
    /\ UNCHANGED <<interval, newest, hour, files, runner, cancelled, stops, sinceLast>>

StopCleanup ==
    /\ storage.pc = "sleep" /\ cancelled
    /\ storage' = [storage EXCEPT !.pc = "stopped"]
    /\ UNCHANGED <<interval, newest, hour, files, runner, cancelled, stops, sinceLast>>

-----------------------------------------------------------------------------
(* Time, shutdown and crashes. *)

Sleeping(r) == r.pc = "sleep" => r.wake > 0

\* A tick: timers run down, and at midnight everything is a day older.  The
\* steps between a timer and the next sleep take no time, the copy may.
Tick ==
    /\ ~cancelled
    /\ Sleeping(runner) /\ Sleeping(storage)
    /\ runner.pc \notin {"plan", "clean"} /\ storage.pc # "plan"
    /\ runner.pc = "copy" => Elapsed(runner.began) < MaxCopy
    /\ hour' = (hour + 1) % DayTicks
    /\ LET midnight == hour' = 0
           old(t) == IF midnight THEN Aged(t) ELSE t
       IN /\ files' = {[f EXCEPT !.dir = IF midnight THEN Older(@) ELSE @] : f \in files}
          /\ newest' = old(newest)
          /\ runner' = [runner EXCEPT !.wake = Max({0, @ - 1}), !.last = old(@), !.began = old(@)]
          /\ storage' = [storage EXCEPT !.wake = @ - 1, !.ran = FALSE]
          /\ sinceLast' = IF midnight THEN Older(sinceLast) ELSE sinceLast
    /\ UNCHANGED <<interval, cancelled, stops>>

CancelRunners ==
    /\ ~cancelled /\ stops < MaxStops
    /\ cancelled' = TRUE /\ stops' = stops + 1
    /\ UNCHANGED <<interval, newest, hour, files, runner, storage, sinceLast>>

\* The process dies, or ends after a shutdown, and is started again: only the
\* files remain, a partial copy among them.
Restart ==
    /\ \/ stops < MaxStops /\ stops' = stops + 1
       \/ /\ runner.pc = "stopped" /\ storage.pc = "stopped" /\ UNCHANGED stops
    /\ cancelled' = FALSE
    /\ runner' = FreshRunner /\ storage' = FreshStorage
    /\ UNCHANGED <<interval, newest, hour, files, sinceLast>>

BackupNext ==
    \/ PlanBackup \/ StartCopy \/ FinishCopy \/ FailCopy \/ CleanBackups \/ StopBackup
    \/ PlanCleanup \/ RunCleanup \/ StopCleanup \/ Tick \/ CancelRunners \/ Restart

BackupSpec == BackupInit /\ [][BackupNext]_backupVars

\* Timers expire, runners take their steps, and a copy that is tried again and
\* again does not fail forever.
BackupFairness ==
    /\ WF_backupVars(PlanBackup \/ StartCopy \/ CleanBackups \/ StopBackup)
    /\ WF_backupVars(PlanCleanup \/ RunCleanup \/ StopCleanup)
    /\ WF_backupVars(Tick) /\ WF_backupVars(Restart)
    /\ SF_backupVars(FinishCopy) /\ WF_backupVars(FinishCopy \/ FailCopy)

-----------------------------------------------------------------------------
(* Properties. *)

\* A crash or a failure at any moment of a copy leaves no file under a backup's
\* name that is not a whole backup, so a torn copy is never taken for a backup
\* (backup.go, WriteDatabase) nor for its time (LastBackupAt).
NoTornBackup == \A f \in ListFiles : f.whole

\* While the last successful backup is not older than the retention, there is a
\* whole backup: the retention of an old day, a cleanup after a failure or one
\* that breaks off never takes it.
RecentBackupKept ==
    sinceLast <= RetentionDays /\ RetentionDays > 0 => \E f \in ListFiles : f.whole /\ f.dir <= RetentionDays

\* Whatever fails and however the process stops, backups and cleanups go on:
\* neither used-up retries nor unreadable history ends the schedule.
JobsGoOn == []<>(runner.pc = "clean" /\ runner.attempts = 0) /\ []<>storage.ran

=============================================================================
