---------------------------- MODULE LoggerProofs ----------------------------
(***************************************************************************)
(* Proofs about Logger, for every number of files, length of a month and   *)
(* bound: its types, that the last line is stored, that no line goes to    *)
(* the file of a wrong day, except that of the same day of a month, and    *)
(* that the rotation keeps the newest files.                               *)
(***************************************************************************)
EXTENDS Logger, FiniteSetTheorems, WellFoundedInduction, TLAPS

\* m_last_filename is the name of m_last_day: make_filename sets them together.
NameOfDay ==
    /\ mLastDay = NoDay <=> mLastName = NoFile
    /\ mLastDay # NoDay => mLastName = mLastDay

IInv == TypeOK /\ NameOfDay /\ FileOfDay

\* Two dates with the same day of the month are the same or a month apart.
LEMMA SameDayOfMonth ==
    ASSUME NEW a \in Nat, NEW b \in Nat, DayOfMonth(a) = DayOfMonth(b), a < b
    PROVE  b - a >= Month
<1> DEFINE p == a \div Month
           q == b \div Month
<1>1. Month \in Nat /\ Month > 0
  BY LoggerAssumption
<1>2. /\ p \in Int /\ q \in Int
      /\ a = (Month * p) + (a % Month) /\ b = (Month * q) + (b % Month)
  BY <1>1
<1>3. b - a = Month * (q - p)
  BY <1>1, <1>2 DEF DayOfMonth
<1>4. q - p >= 1
  BY <1>1, <1>2, <1>3
<1> QED
  BY <1>1, <1>2, <1>3, <1>4

\* A line that make_filename sends to the file of fn today is in a right file.
FileFits(fn) ==
    fn = now \/ (DayOfMonth(fn) = DayOfMonth(now) /\ (now - fn >= Month \/ fn - now >= Month))

\* What make_filename returns is a date, the right one or one of another month.
LEMMA FilenameFits ==
    ASSUME TypeOK, NameOfDay
    PROVE  MakeFilename \in Days /\ FileFits(MakeFilename)
<1>1. now \in Days /\ MaxDay \in Nat /\ NoDay \notin Nat /\ NoFile \notin Nat
  BY LoggerAssumption DEF TypeOK
<1>2. CASE mLastDay # NoDay /\ DayOfMonth(mLastDay) = DayOfMonth(now)
  <2>1. MakeFilename = mLastDay /\ mLastDay \in Days
    BY <1>2 DEF MakeFilename, NameOfDay, TypeOK
  <2>2. now \in Nat /\ mLastDay \in Nat
    BY <1>1, <2>1 DEF Days
  <2>3. mLastDay = now \/ now - mLastDay >= Month \/ mLastDay - now >= Month
    BY <1>2, <2>2, SameDayOfMonth
  <2> QED
    BY <1>2, <2>1, <2>3 DEF FileFits
<1>3. CASE ~ (mLastDay # NoDay /\ DayOfMonth(mLastDay) = DayOfMonth(now))
  BY <1>1, <1>3 DEF MakeFilename, FileFits
<1> QED
  BY <1>2, <1>3

\* make_filename remembers the name and its day together.
LEMMA NameRemembered ==
    ASSUME TypeOK, NameOfDay, NEW ok \in BOOLEAN, NEW removed \in BOOLEAN, WriteAuto(ok, removed)
    PROVE  /\ mLastName' \in Days /\ mLastDay' \in Days
           /\ NameOfDay'
<1>1. MakeFilename \in Days /\ now \in Days /\ NoDay \notin Days /\ NoFile \notin Days
  BY FilenameFits, LoggerAssumption DEF TypeOK, Days
<1>2. mLastName' = MakeFilename /\ mLastDay' = IF MakeFilename = mLastName THEN mLastDay ELSE now
  BY DEF WriteAuto
<1>3. CASE MakeFilename = mLastName
  BY <1>1, <1>2, <1>3 DEF NameOfDay, TypeOK
<1>4. CASE MakeFilename # mLastName
  <2>1. MakeFilename = now
    BY <1>4 DEF MakeFilename
  <2> QED
    BY <1>1, <1>2, <1>4, <2>1 DEF NameOfDay
<1> QED
  BY <1>3, <1>4

Below == {p \in Nat \X Nat : p[1] < p[2]}

\* A set of dates that is not empty has a first one.
LEMMA FirstDate ==
    ASSUME NEW T \in SUBSET Nat, T # {}
    PROVE  \E m \in T : \A n \in T : m <= n
<1>1. IsWellFoundedOn(Below, Nat)
  BY NatLessThanWellFounded, IsWellFoundedOnSubrelation DEF Below, OpToRel
<1>2. PICK m \in T : \A n \in T : ~ (<<n, m>> \in Below)
  BY <1>1, WFMin
<1>3. ASSUME NEW n \in T PROVE m <= n
  <2>1. <<n, m>> \in Nat \X Nat /\ ~ (<<n, m>>[1] < <<n, m>>[2])
    BY <1>2 DEF Below
  <2> QED
    BY <2>1
<1> QED
  BY <1>3

\* begin() of a list that is not empty is its first date.
LEMMA VictimFirst ==
    ASSUME NEW list \in SUBSET Nat, list # {}
    PROVE  Victim(list) \in list /\ \A o \in list : Victim(list) <= o
<1>1. \E m \in list : \A o \in list : m <= o
  BY FirstDate
<1> QED
  BY <1>1 DEF Victim

\* The one line that write adds, if it adds one.
NewLine == [file |-> MakeFilename, day |-> now, no |-> lines + 1]

\* write in auto mode adds that line at most, and opens that file at most.
LEMMA WriteAdds ==
    ASSUME NEW ok \in BOOLEAN, NEW removed \in BOOLEAN, WriteAuto(ok, removed)
    PROVE  /\ disk' \subseteq disk \cup {NewLine}
           /\ files' \subseteq files \cup {MakeFilename}
           /\ used' = used \cup {MakeFilename}
           /\ \/ mLogList' = mLogList
              \/ \E gone \in SUBSET (Listed \cup {MakeFilename}), add \in SUBSET {MakeFilename} :
                    mLogList' = [open   |-> (mLogList.open \cup add) \ gone,
                                 failed |-> (mLogList.failed \cup ({MakeFilename} \ add)) \ gone]
<1>1. CASE WriteListed(MakeFilename)
  BY <1>1 DEF WriteAuto, WriteListed, NewLine
<1>2. CASE WriteNew(MakeFilename, ok, removed)
  <2> DEFINE list == Listed \cup {MakeFilename}
             gone == IF Cardinality(list) > FileNum THEN {Victim(list)} ELSE {}
             erase == IF removed THEN gone ELSE {}
             add  == IF ok THEN {MakeFilename} ELSE {}
  <2>1. /\ mLogList' = [open   |-> (mLogList.open \cup add) \ gone,
                        failed |-> (mLogList.failed \cup ({MakeFilename} \ add)) \ gone]
        /\ files' = (files \cup add) \ erase
        /\ stuck' = (stuck \cup gone) \ erase
        /\ disk' = {l \in disk : l.file \notin erase}
                     \cup {[file |-> f, day |-> now, no |-> lines + 1] : f \in add \ gone}
    BY <1>2 DEF WriteNew
  <2>2. add \subseteq {MakeFilename}
    OBVIOUS
  <2>3. disk' \subseteq disk \cup {NewLine} /\ files' \subseteq files \cup {MakeFilename}
    BY <2>1, <2>2 DEF NewLine
  <2>4. used' = used \cup {MakeFilename}
    BY DEF WriteAuto
  <2>5. \E g \in SUBSET (Listed \cup {MakeFilename}), a \in SUBSET {MakeFilename} :
           mLogList' = [open   |-> (mLogList.open \cup a) \ g,
                        failed |-> (mLogList.failed \cup ({MakeFilename} \ a)) \ g]
    <3> DEFINE g0 == gone \cap list
    <3>1. (mLogList.open \cup add) \ gone = (mLogList.open \cup add) \ g0
      BY <2>2 DEF Listed
    <3>2. (mLogList.failed \cup ({MakeFilename} \ add)) \ gone
            = (mLogList.failed \cup ({MakeFilename} \ add)) \ g0
      BY DEF Listed
    <3>3. g0 \in SUBSET (Listed \cup {MakeFilename}) /\ add \in SUBSET {MakeFilename}
      BY <2>2
    <3> HIDE DEF g0, gone, add
    <3> QED
      BY <2>1, <3>1, <3>2, <3>3
  <2> QED
    BY <2>3, <2>4, <2>5
<1> QED
  BY <1>1, <1>2 DEF WriteAuto

\* A file whose removal failed is one of the list, or that of today.
LEMMA StuckDates ==
    ASSUME TypeOK, NameOfDay, NEW ok \in BOOLEAN, NEW removed \in BOOLEAN, WriteAuto(ok, removed)
    PROVE  stuck' \subseteq Days
<1>1. stuck \subseteq Days /\ MakeFilename \in Days /\ Listed \subseteq Days
  BY FilenameFits DEF TypeOK, Listed
<1>2. CASE WriteListed(MakeFilename)
  BY <1>1, <1>2 DEF WriteListed
<1>3. CASE WriteNew(MakeFilename, ok, removed)
  <2> DEFINE list == Listed \cup {MakeFilename}
             gone == IF Cardinality(list) > FileNum THEN {Victim(list)} ELSE {}
  <2>1. stuck' \subseteq stuck \cup gone
    BY <1>3 DEF WriteNew
  <2>2. list \in SUBSET Nat /\ list # {} /\ list \subseteq Days
    BY <1>1, LoggerAssumption DEF Days
  <2>3. Victim(list) \in list
    BY <2>2, VictimFirst
  <2> QED
    BY <1>1, <2>1, <2>2, <2>3
<1> QED
  BY <1>2, <1>3 DEF WriteAuto

\* A write in auto mode keeps the invariant.
LEMMA WriteAutoKeeps ==
    ASSUME IInv, NEW ok \in BOOLEAN, NEW removed \in BOOLEAN, WriteAuto(ok, removed), CountLine,
           mode' \in {"none", "auto", "single", "closed"}
    PROVE  IInv'
<1>1. TypeOK /\ NameOfDay /\ FileOfDay
  BY DEF IInv
<1>2. MakeFilename \in Days /\ FileFits(MakeFilename)
  BY <1>1, FilenameFits
<1>3. /\ lines' = lines + 1 /\ lines < MaxLines /\ now' = now /\ runs' = runs
      /\ lines \in 0..MaxLines /\ MaxLines \in Nat
  BY <1>1, LoggerAssumption DEF CountLine, TypeOK
<1>4. lines' \in 0..MaxLines /\ lines + 1 \in 1..MaxLines
  BY <1>3
<1>5. NewLine \in Line
  BY <1>1, <1>2, <1>4 DEF NewLine, Line, TypeOK
<1>6. disk' \subseteq Line /\ files' \subseteq Days \cup {Single} /\ used' \subseteq Days
  BY <1>1, <1>2, <1>5, WriteAdds DEF TypeOK
<1>7. mLogList' \in [open : SUBSET Days, failed : SUBSET Days]
  BY <1>1, <1>2, WriteAdds DEF TypeOK, Listed
<1>8. mLastName' \in Days /\ mLastDay' \in Days /\ NameOfDay'
  BY <1>1, NameRemembered
<1>9. TypeOK'
  BY <1>1, <1>3, <1>4, <1>6, <1>7, <1>8, StuckDates DEF TypeOK
<1>10. FileOfDay'
  <2> SUFFICES ASSUME NEW l \in disk', l.file \in Days
               PROVE  \/ l.file = l.day
                      \/ /\ DayOfMonth(l.file) = DayOfMonth(l.day)
                         /\ l.day - l.file >= Month \/ l.file - l.day >= Month
    BY DEF FileOfDay, DayOfMonth, Days
  <2>1. l \in disk \/ l = NewLine
    BY WriteAdds
  <2>2. CASE l \in disk
    BY <1>1, <2>2 DEF FileOfDay
  <2>3. CASE l = NewLine
    <3>1. l.file = MakeFilename /\ l.day = now
      BY <2>3 DEF NewLine
    <3> QED
      BY <1>2, <3>1 DEF FileFits
  <2> QED
    BY <2>1, <2>2, <2>3
<1> QED
  BY <1>8, <1>9, <1>10 DEF IInv

\* A write to the one file keeps the invariant.
LEMMA WriteSingleKeeps ==
    ASSUME IInv, WriteSingle, CountLine, mode' \in {"none", "auto", "single", "closed"}
    PROVE  IInv'
<1> DEFINE line == [file |-> Single, day |-> now, no |-> lines + 1]
<1>1. TypeOK /\ NameOfDay /\ FileOfDay
  BY DEF IInv
<1>2. /\ lines' = lines + 1 /\ lines < MaxLines /\ now' = now /\ runs' = runs
      /\ lines \in 0..MaxLines /\ MaxLines \in Nat
  BY <1>1, LoggerAssumption DEF CountLine, TypeOK
<1>3. lines' \in 0..MaxLines /\ lines + 1 \in 1..MaxLines
  BY <1>2
<1>4. line \in Line
  BY <1>1, <1>3 DEF Line, TypeOK
<1>5. Single \notin Days
  BY LoggerAssumption DEF Single, Days
<1>6. /\ disk' = disk \cup {line} /\ files' = files \cup {Single}
      /\ UNCHANGED <<mLogList, mLastDay, mLastName, used, stuck>>
  BY DEF WriteSingle
<1> HIDE DEF line
<1>7. disk' \subseteq Line /\ files' \subseteq Days \cup {Single}
  BY <1>1, <1>4, <1>6 DEF TypeOK
<1>8. TypeOK'
  BY <1>1, <1>2, <1>3, <1>6, <1>7 DEF TypeOK
<1>9. NameOfDay'
  BY <1>1, <1>6 DEF NameOfDay
<1>10. FileOfDay'
  <2>1. line.file = Single
    BY DEF line
  <2> QED
    BY <1>1, <1>5, <1>6, <2>1 DEF FileOfDay, DayOfMonth, Days
<1> QED
  BY <1>8, <1>9, <1>10 DEF IInv

\* The invariant: the types, the name that goes with its day, and the lines.
LEMMA LoggerInvariant == Spec => []IInv
<1>1. Init => IInv
  BY LoggerAssumption DEF Init, IInv, TypeOK, NameOfDay, FileOfDay, NoList
<1>2. IInv /\ [Next]_vars => IInv'
  <2> SUFFICES ASSUME IInv, [Next]_vars PROVE IInv'
    OBVIOUS
  <2>1. CASE OpenAuto
    <3>1. PICK ok \in BOOLEAN, removed \in BOOLEAN : WriteAuto(ok, removed)
      BY <2>1, LoggerAssumption DEF OpenAuto, Ok
    <3> QED
      BY <2>1, <3>1, WriteAutoKeeps DEF OpenAuto
  <2>2. CASE OpenSingle
    BY <2>2, WriteSingleKeeps DEF OpenSingle
  <2>3. CASE OpenFails
    BY <2>3 DEF OpenFails, IInv, TypeOK, NameOfDay, FileOfDay
  <2>4. CASE LoggerWriter
    <3>1. mode' \in {"none", "auto", "single", "closed"} /\ CountLine
      BY <2>4 DEF LoggerWriter, IInv, TypeOK
    <3>2. CASE \E ok, removed \in Ok : WriteAuto(ok, removed)
      <4>1. PICK ok \in BOOLEAN, removed \in BOOLEAN : WriteAuto(ok, removed)
        BY <3>2, LoggerAssumption DEF Ok
      <4> QED
        BY <3>1, <4>1, WriteAutoKeeps
    <3>3. CASE WriteSingle
      BY <3>1, <3>3, WriteSingleKeeps
    <3> QED
      BY <2>4, <3>2, <3>3 DEF LoggerWriter
  <2>5. CASE ClockMoves
    <3>1. now' \in Days
      BY <2>5 DEF ClockMoves
    <3> QED
      BY <2>5, <3>1 DEF ClockMoves, proc, IInv, TypeOK, NameOfDay, FileOfDay
  <2>6. CASE Restart
    <3>1. runs' \in 1..MaxRuns
      BY <2>6, LoggerAssumption DEF Restart, IInv, TypeOK
    <3> QED
      BY <2>6, <3>1 DEF Restart, NoList, IInv, TypeOK, NameOfDay, FileOfDay
  <2>7. CASE UNCHANGED vars
    BY <2>7 DEF vars, proc, IInv, TypeOK, NameOfDay, FileOfDay
  <2> QED
    BY <2>1, <2>2, <2>3, <2>4, <2>5, <2>6, <2>7 DEF Next
<1> QED
  BY <1>1, <1>2, PTL DEF Spec

\* auto_logger_file's state stays within its types.
THEOREM LoggerTypeCorrect == Spec => []TypeOK
<1>1. IInv => TypeOK
  BY DEF IInv
<1> QED
  BY <1>1, LoggerInvariant, PTL

\* make_filename sends no line to the file of another day, unless it is the
\* same day of another month: for months of any length and any clock.
THEOREM LinesInTheirFile == Spec => []FileOfDay
<1>1. IInv => FileOfDay
  BY DEF IInv
<1> QED
  BY <1>1, LoggerInvariant, PTL

\* A write in auto mode stores its line, if its file is listed as open then.
LEMMA WriteAutoStores ==
    ASSUME NEW ok \in BOOLEAN, NEW removed \in BOOLEAN, WriteAuto(ok, removed), CountLine, mLastName' \in mLogList'.open
    PROVE  \E l \in disk' : l.file = mLastName' /\ l.no = lines'
<1>1. mLastName' = MakeFilename /\ lines' = lines + 1
  BY DEF WriteAuto, CountLine
<1>2. NewLine.file = MakeFilename /\ NewLine.no = lines + 1
  BY DEF NewLine
<1>3. NewLine \in disk'
  <2>1. CASE WriteListed(MakeFilename)
    BY <1>1, <2>1 DEF WriteListed, NewLine
  <2>2. CASE WriteNew(MakeFilename, ok, removed)
    <3> DEFINE list == Listed \cup {MakeFilename}
               gone == IF Cardinality(list) > FileNum THEN {Victim(list)} ELSE {}
               erase == IF removed THEN gone ELSE {}
               add  == IF ok THEN {MakeFilename} ELSE {}
    <3>1. /\ MakeFilename \notin Listed
          /\ mLogList'.open = (mLogList.open \cup add) \ gone
          /\ disk' = {l \in disk : l.file \notin erase}
                       \cup {[file |-> f, day |-> now, no |-> lines + 1] : f \in add \ gone}
      BY <2>2 DEF WriteNew
    <3>2. MakeFilename \in add \ gone
      BY <1>1, <3>1 DEF Listed
    <3> HIDE DEF add, gone, erase
    <3> QED
      BY <3>1, <3>2 DEF NewLine
  <2> QED
    BY <2>1, <2>2 DEF WriteAuto
<1> QED
  BY <1>1, <1>2, <1>3

\* The line logger_writer was given last is in the file of the last name, as
\* long as that is listed as open: whatever was rotated, failed or restarted.
THEOREM LastLineKept == Spec => []LastLineStored
<1>1. Init => LastLineStored
  BY DEF Init, LastLineStored
<1>2. LastLineStored /\ [Next]_vars => LastLineStored'
  <2> SUFFICES ASSUME LastLineStored, [Next]_vars,
                      mode' = "auto", mLastName' \in mLogList'.open
               PROVE  \E l \in disk' : l.file = mLastName' /\ l.no = lines'
    BY DEF LastLineStored
  <2>1. CASE OpenAuto \/ LoggerWriter
    <3>1. CountLine /\ \E ok, removed \in BOOLEAN : WriteAuto(ok, removed)
      BY <2>1, LoggerAssumption DEF OpenAuto, LoggerWriter, Ok
    <3> QED
      BY <3>1, WriteAutoStores
  <2>2. CASE OpenSingle \/ OpenFails \/ Restart
    BY <2>2 DEF OpenSingle, OpenFails, Restart
  <2>3. CASE ClockMoves \/ UNCHANGED vars
    BY <2>3 DEF ClockMoves, vars, proc, LastLineStored
  <2> QED
    BY <2>1, <2>2, <2>3 DEF Next
<1> QED
  BY <1>1, <1>2, PTL DEF Spec

-----------------------------------------------------------------------------
(***************************************************************************)
(* The rotation.                                                           *)
(***************************************************************************)
\* The same for the last one.
LEMMA LastDate ==
    ASSUME NEW T \in SUBSET Days, T # {}
    PROVE  \E m \in T : \A n \in T : n <= m
<1> DEFINE R == {z \in Nat : \E x \in T : z = MaxDay - x}
<1>1. \A x \in T : x \in Nat /\ x <= MaxDay /\ MaxDay - x \in Nat
  BY LoggerAssumption DEF Days
<1>2. R \in SUBSET Nat /\ R # {}
  BY <1>1
<1>3. PICK z \in R : \A y \in R : z <= y
  <2> HIDE DEF R
  <2> QED
    BY <1>2, FirstDate
<1>4. PICK m \in T : z = MaxDay - m
  BY <1>3
<1>5. ASSUME NEW n \in T PROVE n <= m
  <2>1. MaxDay - n \in R
    BY <1>1
  <2>2. MaxDay - m <= MaxDay - n
    BY <1>3, <1>4, <2>1
  <2> QED
    BY <1>1, <2>2, LoggerAssumption
<1> QED
  BY <1>4, <1>5

\* The dates of S behind n, and the newest FileNum dates of S.
Later(S, n) == {o \in S : o > n}
Newest(S) == {n \in S : Cardinality(Later(S, n)) < FileNum}

LEMMA DatesFinite ==
    ASSUME NEW S \in SUBSET Days
    PROVE  IsFiniteSet(S) /\ Cardinality(S) \in Nat
<1>1. 0 \in Int /\ MaxDay \in Int
  BY LoggerAssumption
<1>2. IsFiniteSet(Days)
  BY <1>1, FS_Interval DEF Days
<1>3. IsFiniteSet(S)
  BY <1>2, FS_Subset
<1> QED
  BY <1>3, FS_CardinalityType

\* What is later than one of the newest dates is one of them.
LEMMA NewestUp ==
    ASSUME NEW S \in SUBSET Days, NEW n \in Newest(S), NEW o \in S, o > n
    PROVE  o \in Newest(S)
<1>1. n \in Nat /\ o \in Nat /\ \A x \in S : x \in Nat
  BY LoggerAssumption DEF Newest, Days
<1>2. Later(S, o) \subseteq Later(S, n)
  <2> SUFFICES ASSUME NEW x \in S, x > o PROVE x > n
    BY DEF Later
  <2>1. x \in Nat
    BY <1>1
  <2> QED
    BY <1>1, <2>1
<1>3. Later(S, n) \in SUBSET Days
  BY DEF Later
<1>4. IsFiniteSet(Later(S, n)) /\ Cardinality(Later(S, n)) \in Nat
  BY <1>3, DatesFinite
<1>5. Cardinality(Later(S, o)) <= Cardinality(Later(S, n)) /\ Cardinality(Later(S, o)) \in Nat
  BY <1>2, <1>4, FS_Subset, FS_CardinalityType
<1>6. Cardinality(Later(S, n)) < FileNum /\ FileNum \in Nat
  BY LoggerAssumption DEF Newest
<1> QED
  BY <1>4, <1>5, <1>6 DEF Newest

\* There are at most FileNum newest dates, and that many when there are others.
LEMMA NewestCount ==
    ASSUME NEW S \in SUBSET Days
    PROVE  /\ Cardinality(Newest(S)) <= FileNum
           /\ S # Newest(S) => Cardinality(Newest(S)) = FileNum
<1> DEFINE T == Newest(S)
<1>1. T \in SUBSET Days /\ T \subseteq S
  BY DEF Newest
<1>2. IsFiniteSet(T) /\ Cardinality(T) \in Nat /\ FileNum \in Nat \ {0}
  BY <1>1, DatesFinite, LoggerAssumption
<1> HIDE DEF T
<1>3. Cardinality(T) <= FileNum
  <2>1. CASE T = {}
    BY <1>2, <2>1, FS_EmptySet
  <2>2. CASE T # {}
    <3>1. T \in SUBSET Nat
      BY <1>1, LoggerAssumption DEF Days
    <3>2. PICK y \in T : \A n \in T : y <= n
      BY <2>2, <3>1, FirstDate
    <3> DEFINE U == Later(S, y)
    <3>3. U \in SUBSET Days /\ y \notin U /\ Cardinality(U) < FileNum
      BY <1>1, <3>1, <3>2 DEF Later, T, Newest
    <3>4. IsFiniteSet(U) /\ Cardinality(U) \in Nat
      BY <3>3, DatesFinite
    <3>5. T \subseteq U \cup {y}
      BY <1>1, <3>1, <3>2 DEF Later
    <3> HIDE DEF U
    <3>6. IsFiniteSet(U \cup {y}) /\ Cardinality(U \cup {y}) = Cardinality(U) + 1
      BY <3>3, <3>4, FS_AddElement
    <3>7. Cardinality(T) <= Cardinality(U \cup {y})
      BY <3>5, <3>6, FS_Subset
    <3> QED
      BY <1>2, <3>3, <3>4, <3>6, <3>7
  <2> QED
    BY <2>1, <2>2
<1>4. ASSUME S # T PROVE Cardinality(T) >= FileNum
  <2>1. S \ T # {} /\ S \ T \in SUBSET Days
    BY <1>1, <1>4
  <2>2. PICK x \in S \ T : \A n \in S \ T : n <= x
    BY <2>1, LastDate
  <2>3. \A n \in S : n \in Nat
    BY LoggerAssumption DEF Days
  <2> DEFINE U == Later(S, x)
  <2>4. U \subseteq T
    BY <2>2, <2>3 DEF Later
  <2>5. ~ (Cardinality(U) < FileNum)
    BY <2>2 DEF T, Newest
  <2> HIDE DEF U
  <2>6. Cardinality(U) <= Cardinality(T) /\ Cardinality(U) \in Nat
    BY <1>2, <2>4, FS_Subset, FS_CardinalityType
  <2> QED
    BY <1>2, <2>5, <2>6
<1> QED
  BY <1>2, <1>3, <1>4 DEF T

\* The list of a file more, without its first when it is too long, is that of
\* the newest files again.
LEMMA Rotation ==
    ASSUME NEW S \in SUBSET Days, NEW fn \in Days, fn \notin Newest(S)
    PROVE  LET list == Newest(S) \cup {fn} IN
           /\ Cardinality(list) > FileNum =>
                 /\ Victim(list) \in list
                 /\ Newest(S \cup {fn}) = list \ {Victim(list)}
           /\ ~ (Cardinality(list) > FileNum) => S = Newest(S) /\ Newest(S \cup {fn}) = list
<1> DEFINE T == Newest(S)
           list == T \cup {fn}
           S2 == S \cup {fn}
<1>1. T \in SUBSET Days /\ T \subseteq S /\ list \in SUBSET Days /\ S2 \in SUBSET Days
      /\ fn \notin T /\ list \subseteq S2
  BY DEF Newest
<1>2. IsFiniteSet(T) /\ Cardinality(T) \in Nat /\ FileNum \in Nat \ {0}
  BY <1>1, DatesFinite, LoggerAssumption
<1>3. Cardinality(T) <= FileNum /\ (S # T => Cardinality(T) = FileNum)
  BY NewestCount
<1>4. \A n \in T, o \in S : o > n => o \in T
  BY NewestUp
<1>5. \A n \in S2 : n \in Nat
  BY <1>1, LoggerAssumption DEF Days
<1> HIDE DEF T
<1>6. IsFiniteSet(list) /\ Cardinality(list) = Cardinality(T) + 1
  BY <1>1, <1>2, FS_AddElement
<1>7. ASSUME Cardinality(list) > FileNum
      PROVE  Victim(list) \in list /\ Newest(S2) = list \ {Victim(list)}
  <2> DEFINE v == Victim(list)
  <2>1. Cardinality(T) = FileNum /\ Cardinality(list) = FileNum + 1
    BY <1>2, <1>3, <1>6, <1>7
  <2>2. v \in list /\ \A o \in list : v <= o
    <3>1. list \in SUBSET Nat /\ list # {}
      BY <1>1, <1>5
    <3> HIDE DEF list
    <3> QED
      BY <3>1, VictimFirst
  <2> HIDE DEF v
  <2>3. IsFiniteSet(list \ {v}) /\ Cardinality(list \ {v}) = FileNum
    <3> HIDE DEF list
    <3>1. IsFiniteSet(list \ {v}) /\ Cardinality(list \ {v}) = Cardinality(list) - 1
      BY <1>6, <2>2, FS_RemoveElement
    <3> QED
      BY <1>2, <2>1, <3>1
  <2>4. ASSUME NEW n \in list \ {v} PROVE n \in Newest(S2)
    <3>1. n \in Nat /\ v \in Nat /\ fn \in Nat /\ v < n
      BY <1>1, <1>5, <2>2, <2>4
    <3>2. Later(S2, n) \subseteq (list \ {v}) \ {n}
      <4> SUFFICES ASSUME NEW o \in S2, o > n PROVE o \in list /\ o # v /\ o # n
        BY DEF Later
      <4>1. o \in Nat /\ o # v /\ o # n
        BY <1>5, <3>1
      <4>2. CASE o = fn
        BY <4>1, <4>2
      <4>3. CASE o # fn /\ n \in T
        BY <1>4, <4>1, <4>3
      <4>4. CASE o # fn /\ n \notin T
        <5>1. n = fn /\ v \in T
          BY <2>2, <2>4, <4>4
        <5>2. o > v
          BY <3>1, <4>1
        <5> QED
          BY <1>4, <4>1, <4>4, <5>1, <5>2
      <4> QED
        BY <4>2, <4>3, <4>4
    <3> DEFINE R == (list \ {v}) \ {n}
    <3>3. IsFiniteSet(R) /\ Cardinality(R) = FileNum - 1
      <4> DEFINE L == list \ {v}
      <4>1. IsFiniteSet(L) /\ Cardinality(L) = FileNum /\ n \in L
        BY <2>3, <2>4
      <4> HIDE DEF L
      <4>2. IsFiniteSet(L \ {n}) /\ Cardinality(L \ {n}) = Cardinality(L) - 1
        BY <4>1, FS_RemoveElement
      <4> QED
        BY <4>1, <4>2 DEF L
    <3> HIDE DEF R
    <3>4. Cardinality(Later(S2, n)) <= Cardinality(R) /\ Cardinality(Later(S2, n)) \in Nat
      BY <3>2, <3>3, FS_Subset, FS_CardinalityType DEF R
    <3>5. Cardinality(Later(S2, n)) < FileNum
      BY <1>2, <3>3, <3>4
    <3> QED
      BY <1>1, <2>4, <3>5 DEF Newest
  <2>5. ASSUME NEW n \in S2, n \notin list \ {v} PROVE n \notin Newest(S2)
    <3>1. Later(S2, n) \in SUBSET Days
      BY <1>1 DEF Later
    <3>2. IsFiniteSet(Later(S2, n)) /\ Cardinality(Later(S2, n)) \in Nat
      BY <3>1, DatesFinite
    <3>3. \E U \in SUBSET Later(S2, n) : Cardinality(U) >= FileNum /\ Cardinality(U) \in Nat
      <4>1. CASE n = v
        <5>1. list \ {v} \subseteq Later(S2, n)
          <6> SUFFICES ASSUME NEW o \in list, o # v PROVE o \in S2 /\ o > v
            BY <4>1 DEF Later
          <6> QED
            BY <1>1, <1>5, <2>2
        <5> QED
          BY <1>2, <2>3, <5>1
      <4>2. CASE n # v
        <5>1. n \in S /\ n \notin T
          BY <2>5, <4>2
        <5>2. ~ (Cardinality(Later(S, n)) < FileNum)
          BY <5>1 DEF T, Newest
        <5>3. Later(S, n) \subseteq Later(S2, n) /\ Later(S, n) \in SUBSET Days
          BY DEF Later
        <5>4. Cardinality(Later(S, n)) \in Nat
          BY <5>3, DatesFinite
        <5> QED
          BY <1>2, <5>2, <5>3, <5>4
      <4> QED
        BY <4>1, <4>2
    <3>4. PICK U \in SUBSET Later(S2, n) : Cardinality(U) >= FileNum /\ Cardinality(U) \in Nat
      BY <3>3
    <3>5. Cardinality(U) <= Cardinality(Later(S2, n))
      BY <3>2, FS_Subset
    <3>6. ~ (Cardinality(Later(S2, n)) < FileNum)
      BY <1>2, <3>2, <3>4, <3>5
    <3> QED
      BY <3>6 DEF Newest
  <2>6. Newest(S2) \subseteq S2
    BY DEF Newest
  <2>7. Newest(S2) = list \ {v}
    BY <2>4, <2>5, <2>6
  <2> QED
    BY <2>2, <2>7 DEF v
<1>8. ASSUME ~ (Cardinality(list) > FileNum) PROVE S = T /\ Newest(S2) = list
  <2>1. S = T
    BY <1>2, <1>3, <1>6, <1>8
  <2>2. ASSUME NEW n \in S2 PROVE n \in Newest(S2)
    <3>1. IsFiniteSet(S2) /\ Cardinality(S2) = Cardinality(T) + 1
      BY <1>6, <2>1
    <3>2. Later(S2, n) \subseteq S2 \ {n}
      BY <1>5 DEF Later
    <3> HIDE DEF S2
    <3>3. IsFiniteSet(S2 \ {n}) /\ Cardinality(S2 \ {n}) = Cardinality(S2) - 1
      BY <2>2, <3>1, FS_RemoveElement
    <3>4. Cardinality(Later(S2, n)) <= Cardinality(S2 \ {n}) /\ Cardinality(Later(S2, n)) \in Nat
      BY <3>2, <3>3, FS_Subset, FS_CardinalityType
    <3>5. Cardinality(Later(S2, n)) < FileNum
      BY <1>2, <1>6, <1>8, <3>1, <3>3, <3>4
    <3> QED
      BY <2>2, <3>5 DEF Newest
  <2>3. Newest(S2) = S2 /\ S2 = list
    BY <2>1, <2>2 DEF Newest
  <2> QED
    BY <2>1, <2>3
<1> QED
  BY <1>7, <1>8 DEF T

\* KeepsNewest, in terms of Newest.
KeepsInv ==
    /\ Listed = Newest(used) /\ mLogList.open \subseteq files
    /\ \A n \in (used \ Newest(used)) \cap files : n \in stuck

LEMMA KeepsSame == KeepsInv <=> KeepsNewest
BY DEF KeepsInv, KeepsNewest, Newest, Later

\* write in auto mode keeps the newest files, whatever its date is.
LEMMA WriteAutoRotates ==
    ASSUME IInv, KeepsInv, NEW ok \in BOOLEAN, NEW removed \in BOOLEAN, WriteAuto(ok, removed)
    PROVE  KeepsInv'
<1> DEFINE fn == MakeFilename
<1>1. fn \in Days
  BY FilenameFits DEF IInv
<1>2. used \in SUBSET Days /\ used' = used \cup {fn}
  BY DEF IInv, TypeOK, WriteAuto
<1>3. Listed = Newest(used) /\ Newest(used) \subseteq used
  BY DEF KeepsInv, Newest
<1> HIDE DEF fn
<1>4. CASE WriteListed(fn)
  <2>1. fn \in Listed /\ mLogList' = mLogList /\ files' = files /\ stuck' = stuck
    BY <1>4 DEF WriteListed
  <2>2. used' = used
    BY <1>2, <1>3, <2>1
  <2> QED
    BY <2>1, <2>2 DEF KeepsInv, Listed
<1>5. CASE WriteNew(fn, ok, removed)
  <2> DEFINE list == Newest(used) \cup {fn}
             gone == IF Cardinality(list) > FileNum THEN {Victim(list)} ELSE {}
             erase == IF removed THEN gone ELSE {}
             add  == IF ok THEN {fn} ELSE {}
  <2>1. /\ fn \notin Listed
        /\ mLogList' = [open   |-> (mLogList.open \cup add) \ gone,
                        failed |-> (mLogList.failed \cup ({fn} \ add)) \ gone]
        /\ files' = (files \cup add) \ erase
        /\ stuck' = (stuck \cup gone) \ erase
    BY <1>3, <1>5 DEF WriteNew
  <2>2. /\ Newest(used') = list \ gone
        /\ gone = {} => used = Newest(used)
    <3>1. fn \notin Newest(used)
      BY <1>3, <2>1
    <3>2. /\ Cardinality(list) > FileNum => Newest(used \cup {fn}) = list \ {Victim(list)}
          /\ ~ (Cardinality(list) > FileNum) => used = Newest(used) /\ Newest(used \cup {fn}) = list
      BY <1>1, <1>2, <3>1, Rotation
    <3>3. CASE Cardinality(list) > FileNum
      BY <1>2, <3>2, <3>3
    <3>4. CASE ~ (Cardinality(list) > FileNum)
      BY <1>2, <3>2, <3>4
    <3> QED
      BY <3>3, <3>4
  <2>3. add \subseteq {fn}
    OBVIOUS
  <2>6. erase \subseteq gone
    OBVIOUS
  <2> HIDE DEF gone, add, erase
  <2>4. Listed' = list \ gone
    <3>1. mLogList'.open = (mLogList.open \cup add) \ gone
          /\ mLogList'.failed = (mLogList.failed \cup ({fn} \ add)) \ gone
      BY <2>1
    <3> QED
      BY <1>3, <2>3, <3>1 DEF Listed
  <2>5. mLogList'.open \subseteq files'
    BY <2>1, <2>6 DEF KeepsInv
  <2>7. ASSUME NEW n \in used' \ Newest(used'), n \in files' PROVE n \in stuck'
    <3>1. CASE n \in gone
      BY <2>1, <2>7, <3>1
    <3>2. CASE n \notin gone
      <4>1. n \notin list /\ n \in used
        BY <1>2, <2>2, <3>2
      <4>2. n \in files
        BY <2>1, <2>3, <2>7, <4>1
      <4>3. n \in stuck
        BY <4>1, <4>2 DEF KeepsInv
      <4> QED
        BY <2>1, <2>6, <3>2, <4>3
    <3> QED
      BY <3>1, <3>2
  <2> QED
    BY <2>2, <2>4, <2>5, <2>7 DEF KeepsInv
<1> QED
  BY <1>4, <1>5 DEF WriteAuto, fn

\* The rotation of write keeps the FileNum newest of the files this run asked
\* for and removes the others, whatever the order of the dates, but for those
\* whose removal failed.
THEOREM NewestAreKept == Spec => []KeepsNewest
<1>1. Init => KeepsInv
  BY DEF Init, KeepsInv, Listed, NoList, Newest
<1>2. IInv /\ KeepsInv /\ [Next]_vars => KeepsInv'
  <2> SUFFICES ASSUME IInv, KeepsInv, [Next]_vars PROVE KeepsInv'
    OBVIOUS
  <2>1. ASSUME WriteSingle PROVE KeepsInv'
    <3>1. files' = files \cup {Single} /\ mLogList' = mLogList /\ used' = used
          /\ stuck' = stuck
      BY <2>1 DEF WriteSingle
    <3>2. \A n \in used : n # Single
      BY LoggerAssumption DEF IInv, TypeOK, Days, Single
    <3> QED
      BY <3>1, <3>2 DEF KeepsInv, Listed
  <2>2. CASE OpenAuto \/ LoggerWriter
    <3>1. WriteSingle \/ \E ok, removed \in BOOLEAN : WriteAuto(ok, removed)
      BY <2>2, LoggerAssumption DEF OpenAuto, LoggerWriter, Ok
    <3> QED
      BY <2>1, <3>1, WriteAutoRotates
  <2>3. CASE OpenSingle
    BY <2>1, <2>3 DEF OpenSingle
  <2>4. CASE OpenFails \/ ClockMoves \/ UNCHANGED vars
    BY <2>4 DEF OpenFails, ClockMoves, vars, proc, KeepsInv, Listed
  <2>5. CASE Restart
    BY <2>5 DEF Restart, NoList, KeepsInv, Listed, Newest
  <2> QED
    BY <2>2, <2>3, <2>4, <2>5 DEF Next
<1> QED
  BY <1>1, <1>2, LoggerInvariant, KeepsSame, PTL DEF Spec
=============================================================================
