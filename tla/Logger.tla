------------------------------- MODULE Logger -------------------------------
(***************************************************************************)
(* The log files of libavproto/src/logging.hpp: auto_logger_file, which    *)
(* writes to one file, or to a file named by the date of which it keeps    *)
(* the last AVROUTER_LOG_FILE_NUM, and logger_writer, which calls it with  *)
(* the lock held.                                                          *)
(*                                                                         *)
(* A date is a number, and so is the name of its file: the names are       *)
(* "%Y%m%d" and the map of open files is ordered by them as the dates are. *)
(* All months have Month days.  Disk outlives the process, the rest does   *)
(* not.                                                                    *)
(***************************************************************************)
EXTENDS Integers, FiniteSets

CONSTANTS FileNum,      \* AVROUTER_LOG_FILE_NUM
          Month,        \* days in a month
          MaxDay,       \* bound on the date
          MaxLines,     \* bound on the lines written
          MaxRuns,      \* bound on the starts of the process
          DiskMayFail,  \* whether the opening or the removal of a file may fail
          NoDay, NoFile

ASSUME LoggerAssumption ==
    /\ FileNum \in Nat \ {0} /\ Month \in Nat \ {0}
    /\ MaxDay \in Nat /\ MaxLines \in Nat /\ MaxRuns \in Nat \ {0}
    /\ DiskMayFail \in BOOLEAN /\ NoDay \notin Nat /\ NoFile \notin Nat

VARIABLES now,          \* the date of local_time
          mode,         \* "none" before open, then "auto", "single" or "closed"
          mLogList,     \* m_log_list, the files in it that are open and those that are not
          mLastDay,     \* m_last_day
          mLastName,    \* m_last_filename
          disk,         \* the lines in every file there is: [file, day, no]
          files,        \* the files there are
          lines,        \* number of lines written (bounded by MaxLines)
          runs,         \* number of starts of the process (bounded by MaxRuns)
          used,         \* history: the files this run of the process has asked for
          stuck         \* history: those of them whose last removal failed

proc == <<mode, mLogList, mLastDay, mLastName, used, stuck>>
vars == <<now, proc, disk, files, lines, runs>>

-----------------------------------------------------------------------------
Days == 0..MaxDay
Single == -1            \* the file of a name without "*"
Line == [file : Days \cup {Single}, day : Days, no : 1..MaxLines]
Listed == mLogList.open \cup mLogList.failed

DayOfMonth(d) == d % Month

NoList == [open |-> {}, failed |-> {}]

Init ==
    /\ now \in Days /\ mode = "none" /\ mLogList = NoList
    /\ mLastDay = NoDay /\ mLastName = NoFile /\ used = {} /\ stuck = {}
    /\ disk = {} /\ files = {} /\ lines = 0 /\ runs = 1

\* Mutant: the name is made once.
MakeFilenameOnce == IF mLastDay # NoDay THEN mLastName ELSE now

\* make_filename: the last name as long as the day of the month is the same.
MakeFilename ==
    IF mLastDay # NoDay /\ DayOfMonth(mLastDay) = DayOfMonth(now) THEN mLastName ELSE now

\* Mutant: the newest file is closed.
VictimLast(list) == CHOOSE n \in list : \A o \in list : n >= o

\* begin() of the map.
Victim(list) == CHOOSE n \in list : \A o \in list : n <= o

\* Mutant: only a file that was just opened is written to.
WriteListedNothing(fn) == fn \in Listed /\ UNCHANGED <<disk, mLogList, files, stuck>>

\* write to a file that is in the list: only if it was opened.
WriteListed(fn) ==
    /\ fn \in Listed
    /\ disk' = IF fn \in mLogList.open
                 THEN disk \cup {[file |-> fn, day |-> now, no |-> lines + 1]} ELSE disk
    /\ UNCHANGED <<mLogList, files, stuck>>

\* write to one that is not: it is opened and put into the list; when the list
\* is too long its first file, the new one if it is first, is closed, leaves the
\* list and is removed from the disk, where it stays when that fails.
WriteNew(fn, ok, removed) ==
    LET list  == Listed \cup {fn}
        gone  == IF Cardinality(list) > FileNum THEN {Victim(list)} ELSE {}
        erase == IF removed THEN gone ELSE {}
        add   == IF ok THEN {fn} ELSE {}
    IN  /\ fn \notin Listed
        /\ mLogList' = [open   |-> (mLogList.open \cup add) \ gone,
                        failed |-> (mLogList.failed \cup ({fn} \ add)) \ gone]
        /\ files' = (files \cup add) \ erase
        /\ stuck' = (stuck \cup gone) \ erase
        /\ disk' = {l \in disk : l.file \notin erase}
                     \cup {[file |-> f, day |-> now, no |-> lines + 1] : f \in add \ gone}

\* write in auto mode; both choices are those of the file system.
WriteAuto(ok, removed) ==
    LET fn == MakeFilename IN
    /\ (WriteListed(fn) /\ ok /\ removed) \/ WriteNew(fn, ok, removed)
    /\ mLastName' = fn /\ mLastDay' = IF fn = mLastName THEN mLastDay ELSE now
    /\ used' = used \cup {fn}

\* write to the one file.
WriteSingle ==
    /\ files' = files \cup {Single}
    /\ disk' = disk \cup {[file |-> Single, day |-> now, no |-> lines + 1]}
    /\ UNCHANGED <<mLogList, mLastDay, mLastName, used, stuck>>

CountLine == lines < MaxLines /\ lines' = lines + 1 /\ UNCHANGED <<now, runs>>

Ok == IF DiskMayFail THEN BOOLEAN ELSE {TRUE}

\* open, with or without "*" in the name; it writes the first line.
OpenAuto ==
    /\ mode = "none" /\ mode' = "auto"
    /\ CountLine
    /\ \E ok, removed \in Ok : WriteAuto(ok, removed)

OpenSingle ==
    /\ mode = "none" /\ mode' = "single"
    /\ CountLine
    /\ WriteSingle

\* The one file cannot be opened: is_open stays false, nothing is written.
OpenFails ==
    /\ mode = "none" /\ DiskMayFail /\ mode' = "closed"
    /\ UNCHANGED <<now, mLogList, mLastDay, mLastName, used, stuck, disk, files, lines, runs>>

\* logger_writer, when is_open.
LoggerWriter ==
    /\ UNCHANGED mode
    /\ CountLine
    /\ \/ mode = "auto" /\ \E ok, removed \in Ok : WriteAuto(ok, removed)
       \/ mode = "single" /\ WriteSingle

-----------------------------------------------------------------------------
\* Local time goes on, by a day or by a month without a line, and back.
ClockMoves ==
    /\ now' \in {now + 1, now + Month, now - 1} \cap Days
    /\ UNCHANGED <<proc, disk, files, lines, runs>>

\* The process ends, and starts again with nothing but the files.
Restart ==
    /\ runs < MaxRuns /\ runs' = runs + 1
    /\ mode' = "none" /\ mLogList' = NoList
    /\ mLastDay' = NoDay /\ mLastName' = NoFile /\ used' = {} /\ stuck' = {}
    /\ UNCHANGED <<now, disk, files, lines>>

Next == OpenAuto \/ OpenSingle \/ OpenFails \/ LoggerWriter \/ ClockMoves \/ Restart

Spec == Init /\ [][Next]_vars

-----------------------------------------------------------------------------
(***************************************************************************)
(* Properties.                                                             *)
(***************************************************************************)

TypeOK ==
    /\ now \in Days /\ mode \in {"none", "auto", "single", "closed"}
    /\ mLogList \in [open : SUBSET Days, failed : SUBSET Days]
    /\ mLastDay \in Days \cup {NoDay} /\ mLastName \in Days \cup {NoFile}
    /\ disk \subseteq Line /\ files \subseteq Days \cup {Single} /\ used \subseteq Days
    /\ stuck \subseteq Days
    /\ lines \in 0..MaxLines /\ runs \in 1..MaxRuns

\* The rotation of write keeps the newest files: of those this run asked for,
\* the FileNum latest ones are listed, those of them that could be opened are
\* on the disk, and the others are gone, in whatever order the dates came; only
\* one whose last removal failed ("delete log failed") is left.
KeepsNewest ==
    LET newest == {n \in used : Cardinality({o \in used : o > n}) < FileNum}
    IN  /\ Listed = newest /\ mLogList.open \subseteq files
        /\ \A n \in (used \ newest) \cap files : n \in stuck

\* What logger_writer was given last is in the file of the last name, unless
\* that could not be opened or, the clock having gone back, FileNum newer files
\* were there: then write closes the file it has just opened.
LastLineStored ==
    mode = "auto" /\ mLastName \in mLogList.open =>
        \E l \in disk : l.file = mLastName /\ l.no = lines

\* make_filename never gives a line to the file of a wrong day, except that of
\* the same day of another month, for it compares no more than that.
FileOfDay ==
    \A l \in disk : l.file \in Days =>
        l.file = l.day \/ (DayOfMonth(l.file) = DayOfMonth(l.day)
                           /\ (l.day - l.file >= Month \/ l.file - l.day >= Month))

=============================================================================
