-------------------------- MODULE CoroQueueProofs ---------------------------
(***************************************************************************)
(* boost::async_coro_queue, for any values and any number of calls: the    *)
(* assertions of push hold, no value is lost or repeated between push and  *)
(* the handler it is bound to, no value and handler wait for each other,   *)
(* every handler is called exactly once, and what the handlers are called  *)
(* with is what a first-in first-out channel gives (Fifo).                 *)
(***************************************************************************)
EXTENDS CoroQueue, SequenceTheorems, TLAPS

\* Every pop was served with a value, was canceled, or is asleep.
PopsCounted == pops = canceled + Len(handed) + Len(mHandlers)

IInv == TypeOK /\ SleepersMeanEmpty /\ NothingLost /\ PopsCounted

-----------------------------------------------------------------------------
\* What is posted for a wait handler is a completion.
LEMMA WaitDoneType ==
    ASSUME NEW h \in 1..MaxWait, NEW ec \in {"ok", "canceled"}
    PROVE  WaitDone(h, ec) \in Completion
BY DEF WaitDone, Completion

\* What is posted for a pop handler, with a value or canceled, is one.
LEMMA PopDoneType ==
    ASSUME NEW h \in 1..MaxPop, NEW ec \in {"ok", "canceled"},
           NEW v \in Values \cup {NoValue}
    PROVE  PopDone(h, ec, v) \in Completion
BY DEF PopDone, Completion

\* The completions posted for a list of wait handlers are completions.
LEMMA WakeWaitersType ==
    ASSUME NEW hs \in Seq(1..MaxWait), NEW ec \in {"ok", "canceled"}
    PROVE  WakeWaiters(hs, ec) \in Seq(Completion)
<1>1. \A k \in 1..Len(hs) : WaitDone(hs[k], ec) \in Completion
    <2>. SUFFICES ASSUME NEW k \in 1..Len(hs) PROVE WaitDone(hs[k], ec) \in Completion
        OBVIOUS
    <2>1. hs[k] \in 1..MaxWait
        BY ElementOfSeq
    <2>. QED BY <2>1, WaitDoneType
<1>2. Len(hs) \in Nat
    OBVIOUS
<1>. QED BY <1>1, <1>2 DEF WakeWaiters

\* So are those posted for a list of canceled pop handlers.
LEMMA CancelPopsType ==
    ASSUME NEW hs \in Seq(1..MaxPop)
    PROVE  CancelPops(hs) \in Seq(Completion)
<1>1. \A k \in 1..Len(hs) : PopDone(hs[k], "canceled", NoValue) \in Completion
    <2>. SUFFICES ASSUME NEW k \in 1..Len(hs)
                  PROVE  PopDone(hs[k], "canceled", NoValue) \in Completion
        OBVIOUS
    <2>1. hs[k] \in 1..MaxPop
        BY ElementOfSeq
    <2>. QED BY <2>1, PopDoneType
<1>2. Len(hs) \in Nat
    OBVIOUS
<1>. QED BY <1>1, <1>2 DEF CancelPops

\* Taking the head of a non-empty m_list over to the end of handed leaves their
\* concatenation as it was.
LEMMA MoveHead ==
    ASSUME NEW s \in Seq(Values), NEW r \in Seq(Values), r # <<>>
    PROVE  Append(s, Head(r)) \o Tail(r) = s \o r
OBVIOUS

\* A value put at the end of m_list is put at the end of that concatenation.
LEMMA AppendRight ==
    ASSUME NEW s \in Seq(Values), NEW r \in Seq(Values), NEW v \in Values
    PROVE  s \o Append(r, v) = Append(s \o r, v)
OBVIOUS

-----------------------------------------------------------------------------
(***************************************************************************)
(* The completions of one kind are posted in the order of the calls: what  *)
(* posting and running one does to their numbers.                          *)
(***************************************************************************)

\* The next one of the kind is posted.
LEMMA NumberedAppend ==
    ASSUME NEW S, NEW cs \in Seq(S), NEW c \in S, NEW op, NEW lo \in Nat, NEW hi \in Nat,
           lo <= hi, Numbered(cs, op, lo, hi), c.op = op, c.id = hi + 1
    PROVE  Numbered(Append(cs, c), op, lo, hi + 1)
<1> DEFINE ds == Append(cs, c)
           n == Len(cs)
<1>1. n \in Nat /\ Len(ds) = n + 1 /\ ds[n + 1] = c /\ \A k \in 1..n : ds[k] = cs[k]
  OBVIOUS
<1>2. /\ \A k \in 1..n : cs[k].op = op => cs[k].id \in (lo + 1)..hi
      /\ \A h \in (lo + 1)..hi : \E k \in 1..n : cs[k].op = op /\ cs[k].id = h
      /\ \A j, k \in 1..n : cs[j].op = op /\ cs[k].op = op /\ j < k => cs[j].id < cs[k].id
  BY DEF Numbered
<1> HIDE DEF ds
<1>3. \A k \in 1..(n + 1) : ds[k].op = op => ds[k].id \in (lo + 1)..(hi + 1)
  BY <1>1, <1>2
<1>4. ASSUME NEW h \in (lo + 1)..(hi + 1)
      PROVE  \E k \in 1..(n + 1) : ds[k].op = op /\ ds[k].id = h
  <2>1. CASE h = hi + 1
    BY <1>1, <2>1
  <2>2. CASE h # hi + 1
    <3>1. h \in (lo + 1)..hi
      BY <2>2
    <3>2. PICK k \in 1..n : cs[k].op = op /\ cs[k].id = h
      BY <1>2, <3>1
    <3> QED
      BY <1>1, <3>2
  <2> QED
    BY <2>1, <2>2
<1>5. ASSUME NEW j \in 1..(n + 1), NEW k \in 1..(n + 1), ds[j].op = op, ds[k].op = op, j < k
      PROVE  ds[j].id < ds[k].id
  <2>1. CASE k = n + 1
    <3>1. ds[j].id \in (lo + 1)..hi /\ ds[k].id = hi + 1
      BY <1>1, <1>2, <1>5, <2>1
    <3> QED
      BY <3>1
  <2>2. CASE k # n + 1
    <3>1. j \in 1..n /\ k \in 1..n
      BY <1>1, <1>5, <2>2
    <3>2. ds[j] = cs[j] /\ ds[k] = cs[k]
      BY <1>1, <3>1
    <3> QED
      BY <1>2, <1>5, <3>1, <3>2
  <2> QED
    BY <2>1, <2>2
<1> QED
  BY <1>1, <1>3, <1>4, <1>5 DEF Numbered, ds

\* What is posted of the other kind does not count.
LEMMA NumberedOther ==
    ASSUME NEW S, NEW cs \in Seq(S), NEW ws \in Seq(S), NEW op, NEW lo \in Nat, NEW hi \in Nat,
           Numbered(cs, op, lo, hi), \A k \in 1..Len(ws) : ws[k].op # op
    PROVE  Numbered(cs \o ws, op, lo, hi)
<1> DEFINE ds == cs \o ws
           n == Len(cs)
           m == Len(ws)
<1>1. /\ n \in Nat /\ m \in Nat /\ Len(ds) = n + m
      /\ \A k \in 1..n : ds[k] = cs[k]
      /\ \A k \in 1..(n + m) : k > n => ds[k] = ws[k - n]
  BY ConcatProperties
<1>2. /\ \A k \in 1..n : cs[k].op = op => cs[k].id \in (lo + 1)..hi
      /\ \A h \in (lo + 1)..hi : \E k \in 1..n : cs[k].op = op /\ cs[k].id = h
      /\ \A j, k \in 1..n : cs[j].op = op /\ cs[k].op = op /\ j < k => cs[j].id < cs[k].id
  BY DEF Numbered
<1> HIDE DEF ds
<1>3. \A k \in 1..(n + m) : ds[k].op = op => k \in 1..n
  <2> SUFFICES ASSUME NEW k \in 1..(n + m), k > n
               PROVE  ds[k].op # op
    BY <1>1
  <2>1. k - n \in 1..m
    BY <1>1
  <2> QED
    BY <1>1, <2>1
<1>4. \A k \in 1..(n + m) : ds[k].op = op => ds[k].id \in (lo + 1)..hi
  BY <1>1, <1>2, <1>3
<1>5. ASSUME NEW h \in (lo + 1)..hi
      PROVE  \E k \in 1..(n + m) : ds[k].op = op /\ ds[k].id = h
  <2>1. PICK k \in 1..n : cs[k].op = op /\ cs[k].id = h
    BY <1>2
  <2>2. k \in 1..(n + m)
    BY <1>1
  <2> QED
    BY <1>1, <2>1, <2>2
<1>6. \A j, k \in 1..(n + m) : ds[j].op = op /\ ds[k].op = op /\ j < k => ds[j].id < ds[k].id
  BY <1>1, <1>2, <1>3
<1> QED
  BY <1>1, <1>4, <1>5, <1>6 DEF Numbered, ds

\* All that sleep are posted, in their order.
LEMMA NumberedAll ==
    ASSUME NEW S, NEW cs \in Seq(S), NEW ws \in Seq(S), NEW op, NEW lo \in Nat, NEW hi \in Nat,
           lo <= hi, Numbered(cs, op, lo, hi),
           \A k \in 1..Len(ws) : ws[k].op = op /\ ws[k].id = hi + k
    PROVE  Numbered(cs \o ws, op, lo, hi + Len(ws))
<1> DEFINE ds == cs \o ws
           n == Len(cs)
           m == Len(ws)
<1>1. /\ n \in Nat /\ m \in Nat /\ Len(ds) = n + m
      /\ \A k \in 1..n : ds[k] = cs[k]
      /\ \A k \in 1..(n + m) : k > n => ds[k] = ws[k - n]
  BY ConcatProperties
<1>2. /\ \A k \in 1..n : cs[k].op = op => cs[k].id \in (lo + 1)..hi
      /\ \A h \in (lo + 1)..hi : \E k \in 1..n : cs[k].op = op /\ cs[k].id = h
      /\ \A j, k \in 1..n : cs[j].op = op /\ cs[k].op = op /\ j < k => cs[j].id < cs[k].id
  BY DEF Numbered
<1> HIDE DEF ds, n, m
<1>3. ASSUME NEW k \in 1..(n + m), k > n
      PROVE  ds[k].op = op /\ ds[k].id = hi + (k - n)
  <2>1. k - n \in 1..m
    BY <1>1, <1>3
  <2>2. ws[k - n].op = op /\ ws[k - n].id = hi + (k - n)
    BY <2>1 DEF m
  <2> QED
    BY <1>1, <1>3, <2>2
<1>4. ASSUME NEW k \in 1..(n + m), ds[k].op = op
      PROVE  ds[k].id \in (lo + 1)..(hi + m)
  <2>1. CASE k <= n
    BY <1>1, <1>2, <1>4, <2>1
  <2>2. CASE k > n
    <3>1. ds[k].id = hi + (k - n)
      BY <1>3, <2>2
    <3>2. hi + (k - n) \in (lo + 1)..(hi + m)
      BY <1>1, <2>2
    <3> QED
      BY <3>1, <3>2
  <2> QED
    BY <1>1, <2>1, <2>2
<1>5. ASSUME NEW h \in (lo + 1)..(hi + m)
      PROVE  \E k \in 1..(n + m) : ds[k].op = op /\ ds[k].id = h
  <2>1. CASE h <= hi
    <3>1. h \in (lo + 1)..hi
      BY <1>1, <2>1
    <3>2. PICK k \in 1..n : cs[k].op = op /\ cs[k].id = h
      BY <1>2, <3>1
    <3>3. k \in 1..(n + m)
      BY <1>1
    <3> QED
      BY <1>1, <3>2, <3>3
  <2>2. CASE h > hi
    <3>1. n + (h - hi) \in 1..(n + m) /\ n + (h - hi) > n /\ hi + ((n + (h - hi)) - n) = h
      BY <1>1, <2>2
    <3> QED
      BY <1>3, <3>1
  <2> QED
    BY <1>1, <2>1, <2>2
<1>6. ASSUME NEW j \in 1..(n + m), NEW k \in 1..(n + m), ds[j].op = op, ds[k].op = op, j < k
      PROVE  ds[j].id < ds[k].id
  <2>1. CASE k <= n
    BY <1>1, <1>2, <1>6, <2>1
  <2>2. CASE j > n
    <3>1. k > n /\ j - n < k - n /\ j - n \in Int /\ k - n \in Int
      BY <1>1, <1>6, <2>2
    <3>2. ds[j].id = hi + (j - n) /\ ds[k].id = hi + (k - n)
      BY <1>3, <2>2, <3>1
    <3> QED
      BY <3>1, <3>2
  <2>3. CASE j <= n /\ k > n
    <3>1. ds[j].id \in (lo + 1)..hi
      <4>1. j \in 1..n
        BY <1>1, <2>3
      <4>2. ds[j] = cs[j]
        BY <1>1, <4>1
      <4> QED
        BY <1>2, <1>6, <4>1, <4>2
    <3>2. ds[k].id = hi + (k - n) /\ k - n > 0 /\ k - n \in Int
      BY <1>1, <1>3, <2>3
    <3> QED
      BY <3>1, <3>2
  <2> QED
    BY <1>1, <2>1, <2>2, <2>3
<1> QED
  BY <1>1, <1>4, <1>5, <1>6 DEF Numbered, ds, m

\* The completion posted first runs: when it is of the kind it is the next one.
LEMMA NumberedTail ==
    ASSUME NEW S, NEW cs \in Seq(S), cs # <<>>, NEW op, NEW lo \in Nat, NEW hi \in Nat,
           lo <= hi, Numbered(cs, op, lo, hi)
    PROVE  IF Head(cs).op = op THEN lo + 1 <= hi /\ Numbered(Tail(cs), op, lo + 1, hi)
                               ELSE Numbered(Tail(cs), op, lo, hi)
<1> DEFINE ds == Tail(cs)
           n == Len(cs)
<1>1. /\ n \in Nat /\ n >= 1 /\ Len(ds) = n - 1 /\ Head(cs) = cs[1]
      /\ \A k \in 1..(n - 1) : ds[k] = cs[k + 1]
  OBVIOUS
<1>2. /\ \A k \in 1..n : cs[k].op = op => cs[k].id \in (lo + 1)..hi
      /\ \A h \in (lo + 1)..hi : \E k \in 1..n : cs[k].op = op /\ cs[k].id = h
      /\ \A j, k \in 1..n : cs[j].op = op /\ cs[k].op = op /\ j < k => cs[j].id < cs[k].id
  BY DEF Numbered
<1> HIDE DEF ds, n
<1>3. \A k \in 1..(n - 1) : k + 1 \in 1..n /\ 1 \in 1..n /\ 1 < k + 1 /\ ds[k] = cs[k + 1]
  BY <1>1
<1>4. \A k \in 1..n : k = 1 \/ (k - 1 \in 1..(n - 1) /\ ds[k - 1] = cs[k])
  BY <1>1
<1>5. ASSUME NEW j \in 1..(n - 1), NEW k \in 1..(n - 1), ds[j].op = op, ds[k].op = op, j < k
      PROVE  ds[j].id < ds[k].id
  <2>1. j + 1 \in 1..n /\ k + 1 \in 1..n /\ j + 1 < k + 1
    BY <1>1, <1>5
  <2>2. ds[j] = cs[j + 1] /\ ds[k] = cs[k + 1]
    BY <1>3
  <2> QED
    BY <1>2, <1>5, <2>1, <2>2
<1>6. CASE Head(cs).op # op
  <2>1. ASSUME NEW h \in (lo + 1)..hi
        PROVE  \E k \in 1..(n - 1) : ds[k].op = op /\ ds[k].id = h
    <3>1. PICK k \in 1..n : cs[k].op = op /\ cs[k].id = h
      BY <1>2
    <3>2. k # 1
      BY <1>1, <1>6, <3>1
    <3> QED
      BY <1>4, <3>1, <3>2
  <2>2. \A k \in 1..(n - 1) : ds[k].op = op => ds[k].id \in (lo + 1)..hi
    BY <1>2, <1>3
  <2> QED
    BY <1>1, <1>5, <1>6, <2>1, <2>2 DEF Numbered, ds
<1>7. CASE Head(cs).op = op
  <2>1. 1 \in 1..n /\ cs[1].op = op /\ cs[1].id \in (lo + 1)..hi
    BY <1>1, <1>2, <1>7
  <2>2. lo + 1 \in (lo + 1)..hi
    BY <2>1
  <2>3. cs[1].id = lo + 1
    <3>1. PICK k \in 1..n : cs[k].op = op /\ cs[k].id = lo + 1
      BY <1>2, <2>2
    <3>2. CASE k = 1
      BY <3>1, <3>2
    <3>3. CASE 1 < k
      <4>1. cs[1].id < lo + 1
        BY <1>2, <2>1, <3>1, <3>3
      <4> QED
        BY <2>1, <4>1
    <3> QED
      BY <1>1, <3>2, <3>3
  <2>4. ASSUME NEW k \in 1..(n - 1), ds[k].op = op
        PROVE  ds[k].id \in (lo + 2)..hi
    <3>1. cs[1].id < cs[k + 1].id /\ cs[k + 1].id \in (lo + 1)..hi /\ ds[k] = cs[k + 1]
      BY <1>2, <1>3, <2>1, <2>4
    <3> QED
      BY <2>3, <3>1
  <2>5. ASSUME NEW h \in (lo + 2)..hi
        PROVE  \E k \in 1..(n - 1) : ds[k].op = op /\ ds[k].id = h
    <3>1. h \in (lo + 1)..hi /\ h # lo + 1
      OBVIOUS
    <3>2. PICK k \in 1..n : cs[k].op = op /\ cs[k].id = h
      BY <1>2, <3>1
    <3>3. k # 1
      BY <2>3, <3>1, <3>2
    <3> QED
      BY <1>4, <3>2, <3>3
  <2>6. lo + 1 <= hi /\ (lo + 1) + 1 = lo + 2
    BY <2>2
  <2> QED
    BY <1>1, <1>5, <1>7, <2>4, <2>5, <2>6 DEF Numbered, ds
<1> QED
  BY <1>6, <1>7

-----------------------------------------------------------------------------
LEMMA InitInv == Init => IInv
<1>. SUFFICES ASSUME Init PROVE IInv
    OBVIOUS
<1>1. TypeOK
    BY QueueAssumption DEF Init, TypeOK
<1>2. SleepersMeanEmpty /\ NothingLost
    BY DEF Init, SleepersMeanEmpty, NothingLost
<1>3. PopsCounted
    BY DEF Init, PopsCounted
<1>. QED BY <1>1, <1>2, <1>3 DEF IInv

\* async_pop on an empty list.
LEMMA PopSleepsInv ==
    ASSUME IInv, AsyncPop, PopSleeps
    PROVE  IInv'
<1>. USE QueueAssumption DEF IInv, AsyncPop, PopSleeps
<1>1. pops + 1 \in 1..MaxPop
    BY DEF TypeOK
<1>2. mHandlers' \in Seq(1..MaxPop) /\ Len(mHandlers') = Len(mHandlers) + 1
    BY <1>1 DEF TypeOK
<1>3. TypeOK'
    BY <1>1, <1>2 DEF TypeOK
<1>4. SleepersMeanEmpty' /\ NothingLost'
    BY DEF SleepersMeanEmpty, NothingLost
<1>5. PopsCounted'
    BY <1>2 DEF PopsCounted, TypeOK
<1>. QED BY <1>3, <1>4, <1>5

\* async_pop with a value at hand.
LEMMA PopTakesInv ==
    ASSUME IInv, AsyncPop, PopTakes
    PROVE  IInv'
<1>. USE QueueAssumption DEF IInv, AsyncPop, PopTakes
<1>1. pops + 1 \in 1..MaxPop /\ Head(mList) \in Values /\ mList' \in Seq(Values)
    BY DEF TypeOK
<1>2. ready' \in Seq(Completion)
    BY <1>1, PopDoneType DEF TypeOK
<1>3. handed' \in Seq(Values) /\ Len(handed') = Len(handed) + 1
    BY <1>1 DEF TypeOK
<1>4. TypeOK'
    BY <1>1, <1>2, <1>3 DEF TypeOK
<1>5. SleepersMeanEmpty'
    BY DEF SleepersMeanEmpty
<1>6. NothingLost'
    BY MoveHead DEF NothingLost, TypeOK
<1>7. PopsCounted'
    BY <1>3 DEF PopsCounted, TypeOK
<1>. QED BY <1>4, <1>5, <1>6, <1>7

\* async_wait.
LEMMA AsyncWaitInv ==
    ASSUME IInv, AsyncWait
    PROVE  IInv'
<1>. USE QueueAssumption DEF IInv, AsyncWait
<1>1. waits + 1 \in 1..MaxWait
    BY DEF TypeOK
<1>2. WaitDone(waits + 1, "ok") \in Completion
    BY <1>1, WaitDoneType
<1>3. mWaitHandlers' \in Seq(1..MaxWait) /\ ready' \in Seq(Completion)
    <2>1. mWaitHandlers \in Seq(1..MaxWait) /\ ready \in Seq(Completion)
        BY DEF TypeOK
    <2>2. CASE mList = <<>>
        <3>1. mWaitHandlers' = Append(mWaitHandlers, waits + 1) /\ ready' = ready
            BY <2>2
        <3>. QED BY <1>1, <2>1, <3>1
    <2>3. CASE mList # <<>>
        <3>1. ready' = Append(ready, WaitDone(waits + 1, "ok"))
              /\ mWaitHandlers' = mWaitHandlers
            BY <2>3
        <3>. QED BY <1>2, <2>1, <3>1
    <2>. QED BY <2>2, <2>3
<1>4. TypeOK'
    BY <1>1, <1>3 DEF TypeOK
<1>5. SleepersMeanEmpty' /\ NothingLost' /\ PopsCounted'
    BY DEF SleepersMeanEmpty, NothingLost, PopsCounted
<1>. QED BY <1>4, <1>5

\* push with a pop handler asleep: m_list is empty, so the value is the next.
LEMMA PushWakesInv ==
    ASSUME IInv, NEW v \in Values, Push(v), PushWakes(v)
    PROVE  IInv'
<1>. USE QueueAssumption DEF IInv, Push, PushWakes
<1>1. /\ Head(mHandlers) \in 1..MaxPop
      /\ mHandlers' \in Seq(1..MaxPop) /\ Len(mHandlers) = Len(mHandlers') + 1
    BY DEF TypeOK
<1>2. <<PopDone(Head(mHandlers), "ok", v)>> \in Seq(Completion)
    BY <1>1, PopDoneType
<1>3. WakeWaiters(mWaitHandlers, "ok") \in Seq(Completion)
    BY WakeWaitersType DEF TypeOK
<1>4. ready' \in Seq(Completion)
    BY <1>2, <1>3 DEF TypeOK
<1>5. handed' \in Seq(Values) /\ Len(handed') = Len(handed) + 1
    BY DEF TypeOK
<1>6. TypeOK'
    BY <1>1, <1>4, <1>5 DEF TypeOK
<1>7. mList = <<>>
    BY DEF SleepersMeanEmpty
<1>8. SleepersMeanEmpty'
    BY <1>7 DEF SleepersMeanEmpty
<1>9. NothingLost'
    BY <1>7 DEF NothingLost, TypeOK
<1>10. PopsCounted'
    BY <1>1, <1>5 DEF PopsCounted, TypeOK
<1>. QED BY <1>6, <1>8, <1>9, <1>10

\* push with nobody asleep on a pop; the wait handlers leave.
LEMMA PushKeepsInv ==
    ASSUME IInv, NEW v \in Values, Push(v), PushKeeps(v)
    PROVE  IInv'
<1>. USE QueueAssumption DEF IInv, Push, PushKeeps
<1>1. WakeWaiters(mWaitHandlers, "ok") \in Seq(Completion)
    BY WakeWaitersType DEF TypeOK
<1>2. ready' \in Seq(Completion)
    BY <1>1 DEF TypeOK
<1>3. TypeOK'
    BY <1>2 DEF TypeOK
<1>4. SleepersMeanEmpty' /\ PopsCounted'
    BY DEF SleepersMeanEmpty, PopsCounted
<1>5. NothingLost'
    BY AppendRight DEF NothingLost, TypeOK
<1>. QED BY <1>3, <1>4, <1>5

\* cancele: the sleeping pops become canceled ones.
LEMMA CanceleInv ==
    ASSUME IInv, Cancele
    PROVE  IInv'
<1>. USE QueueAssumption DEF IInv, Cancele
<1>1. /\ WakeWaiters(mWaitHandlers, "canceled") \in Seq(Completion)
      /\ CancelPops(mHandlers) \in Seq(Completion)
    BY WakeWaitersType, CancelPopsType DEF TypeOK
<1>2. ready' \in Seq(Completion) /\ mWaitHandlers' \in Seq(1..MaxWait)
    <2>1. mWaitHandlers \in Seq(1..MaxWait) /\ ready \in Seq(Completion)
        BY DEF TypeOK
    <2>2. CASE mHandlers # <<>>
        <3>1. ready' = ready \o WakeWaiters(mWaitHandlers, "canceled") \o CancelPops(mHandlers)
              /\ mWaitHandlers' = <<>>
            BY <2>2
        <3>. QED BY <1>1, <2>1, <3>1
    <2>3. CASE mHandlers = <<>>
        BY <2>1, <2>3
    <2>. QED BY <2>2, <2>3
<1>3. canceled' \in Nat /\ mHandlers' \in Seq(1..MaxPop) /\ Len(mHandlers') = 0
    BY DEF TypeOK
<1>4. TypeOK'
    BY <1>2, <1>3 DEF TypeOK
<1>5. SleepersMeanEmpty' /\ NothingLost'
    BY DEF SleepersMeanEmpty, NothingLost
<1>6. PopsCounted'
    BY <1>3 DEF PopsCounted, TypeOK
<1>. QED BY <1>4, <1>5, <1>6

\* The io_service runs a completion.
LEMMA RunReadyInv ==
    ASSUME IInv, RunReady
    PROVE  IInv'
<1>. USE DEF IInv, RunReady
<1>1. Head(ready) \in Completion /\ ready' \in Seq(Completion)
    BY DEF TypeOK
<1>2. Head(ready).op = "pop" => Head(ready).val \in Values \cup {NoValue}
    BY <1>1 DEF Completion
<1>3. got' \in Seq(Values \cup {NoValue}) /\ ran' \in Nat /\ woken' \in Nat
    <2>1. got \in Seq(Values \cup {NoValue}) /\ ran \in Nat /\ woken \in Nat
        BY DEF TypeOK
    <2>2. CASE Head(ready).op = "pop" /\ Head(ready).ec = "ok"
        <3>1. got' = Append(got, Head(ready).val) /\ ran' = ran + 1 /\ woken' = woken
            BY <2>2
        <3>. QED BY <1>2, <2>1, <2>2, <3>1
    <2>3. CASE Head(ready).op = "pop" /\ Head(ready).ec # "ok"
        BY <2>1, <2>3
    <2>4. CASE Head(ready).op # "pop"
        BY <2>1, <2>4
    <2>. QED BY <2>2, <2>3, <2>4
<1>4. TypeOK'
    BY <1>1, <1>3 DEF TypeOK
<1>5. SleepersMeanEmpty' /\ NothingLost' /\ PopsCounted'
    BY DEF SleepersMeanEmpty, NothingLost, PopsCounted
<1>. QED BY <1>4, <1>5

LEMMA StutterInv ==
    ASSUME IInv, UNCHANGED vars
    PROVE  IInv'
BY DEF vars, IInv, TypeOK, SleepersMeanEmpty, NothingLost, PopsCounted

\* The inductive invariant of async_coro_queue: its types, the assertions of
\* push, the conservation of values and the count of pops.
THEOREM QueueInvariance == Spec => []IInv
<1>1. IInv /\ [Next]_vars => IInv'
    <2>. SUFFICES ASSUME IInv, [Next]_vars PROVE IInv'
        OBVIOUS
    <2>1. CASE AsyncPop
        BY <2>1, PopSleepsInv, PopTakesInv DEF AsyncPop
    <2>2. CASE AsyncWait
        BY <2>2, AsyncWaitInv
    <2>3. CASE \E v \in Values : Push(v)
        BY <2>3, PushWakesInv, PushKeepsInv DEF Push
    <2>4. CASE Cancele
        BY <2>4, CanceleInv
    <2>5. CASE RunReady
        BY <2>5, RunReadyInv
    <2>6. CASE UNCHANGED vars
        BY <2>6, StutterInv
    <2>. QED BY <2>1, <2>2, <2>3, <2>4, <2>5, <2>6 DEF Next
<1>. QED BY InitInv, <1>1, PTL DEF Spec

\* The containers of async_coro_queue only ever hold what they are made for.
THEOREM QueueTypeCorrect == Spec => []TypeOK
<1>1. IInv => TypeOK
    BY DEF IInv
<1>. QED BY <1>1, QueueInvariance, PTL

\* The assertions of push never fail: m_list is empty while a handler sleeps.
THEOREM QueueAssertsHold == Spec => []SleepersMeanEmpty
<1>1. IInv => SleepersMeanEmpty
    BY DEF IInv
<1>. QED BY <1>1, QueueInvariance, PTL

\* No value pushed is lost, repeated or reordered before it reaches a handler.
THEOREM QueueLosesNothing == Spec => []NothingLost
<1>1. IInv => NothingLost
    BY DEF IInv
<1>. QED BY <1>1, QueueInvariance, PTL

\* No value waits in m_list while a pop that was not canceled goes without one.
THEOREM QueueNeverIdle == Spec => []NoIdleMatch
<1>1. IInv => NoIdleMatch
    <2>. SUFFICES ASSUME IInv PROVE NoIdleMatch
        OBVIOUS
    <2>1. Len(pushed) = Len(handed) + Len(mList) /\ Len(handed) \in Nat /\ Len(mList) \in Nat
        BY DEF IInv, NothingLost, TypeOK
    <2>2. pops - canceled = Len(handed) + Len(mHandlers) /\ Len(mHandlers) \in Nat
        BY DEF IInv, PopsCounted, TypeOK
    <2>3. Len(mHandlers) = 0 \/ Len(mList) = 0
        BY DEF IInv, SleepersMeanEmpty, TypeOK
    <2>. QED BY <2>1, <2>2, <2>3 DEF NoIdleMatch
<1>. QED BY <1>1, QueueInvariance, PTL

-----------------------------------------------------------------------------
(***************************************************************************)
(* Every handler is called once, in order.                                 *)
(***************************************************************************)

\* Handlers are numbers.
LEMMA SeqOfNumbers ==
    ASSUME NEW n \in Nat, NEW s \in Seq(1..n)
    PROVE  s \in Seq(Nat)
<1>1. Len(s) \in Nat /\ s \in [1..Len(s) -> 1..n]
  BY LenProperties
<1>2. s \in [1..Len(s) -> Nat]
  BY <1>1
<1> QED
  BY <1>1, <1>2

\* What EachHandlerOnce says, with the types the lemmas above ask for.
LEMMA OnceFacts ==
    ASSUME IInv, EachHandlerOnce
    PROVE  /\ ready \in Seq(Completion)
           /\ mHandlers \in Seq(Nat) /\ mWaitHandlers \in Seq(Nat)
           /\ ran \in Nat /\ woken \in Nat /\ pops \in Nat /\ waits \in Nat
           /\ pops - Len(mHandlers) \in Nat /\ ran <= pops - Len(mHandlers)
           /\ waits - Len(mWaitHandlers) \in Nat /\ woken <= waits - Len(mWaitHandlers)
           /\ Numbered(ready, "pop", ran, pops - Len(mHandlers))
           /\ Numbered(ready, "wait", woken, waits - Len(mWaitHandlers))
           /\ \A k \in 1..Len(mHandlers) : mHandlers[k] = (pops - Len(mHandlers)) + k
           /\ \A k \in 1..Len(mWaitHandlers) :
                 mWaitHandlers[k] = (waits - Len(mWaitHandlers)) + k
<1>1. /\ ready \in Seq(Completion)
      /\ mHandlers \in Seq(1..MaxPop) /\ mWaitHandlers \in Seq(1..MaxWait)
      /\ ran \in Nat /\ woken \in Nat /\ pops \in Nat /\ waits \in Nat
  BY QueueAssumption DEF IInv, TypeOK
<1>2. mHandlers \in Seq(Nat) /\ mWaitHandlers \in Seq(Nat)
  BY <1>1, SeqOfNumbers, QueueAssumption
<1>3. /\ ran <= pops - Len(mHandlers) /\ woken <= waits - Len(mWaitHandlers)
      /\ Numbered(ready, "pop", ran, pops - Len(mHandlers))
      /\ Numbered(ready, "wait", woken, waits - Len(mWaitHandlers))
      /\ \A k \in 1..Len(mHandlers) : mHandlers[k] = (pops - Len(mHandlers)) + k
      /\ \A k \in 1..Len(mWaitHandlers) :
            mWaitHandlers[k] = (waits - Len(mWaitHandlers)) + k
  BY DEF EachHandlerOnce, CalledOnce
<1>4. pops - Len(mHandlers) \in Nat /\ waits - Len(mWaitHandlers) \in Nat
  BY <1>1, <1>2, <1>3
<1> QED
  BY <1>1, <1>2, <1>3, <1>4

\* A handler that is put to sleep is the last one.
LEMMA SleepsLast ==
    ASSUME NEW hs \in Seq(Nat), NEW made \in Nat,
           \A k \in 1..Len(hs) : hs[k] = (made - Len(hs)) + k
    PROVE  LET as == Append(hs, made + 1) IN
           /\ (made + 1) - Len(as) = made - Len(hs)
           /\ \A k \in 1..Len(as) : as[k] = ((made + 1) - Len(as)) + k
<1> DEFINE as == Append(hs, made + 1)
<1>1. /\ Len(hs) \in Nat /\ Len(as) = Len(hs) + 1 /\ as[Len(hs) + 1] = made + 1
      /\ \A k \in 1..Len(hs) : as[k] = hs[k]
  OBVIOUS
<1> HIDE DEF as
<1>2. (made + 1) - Len(as) = made - Len(hs)
  BY <1>1
<1>3. ASSUME NEW k \in 1..(Len(hs) + 1)
      PROVE  as[k] = (made - Len(hs)) + k
  <2>1. CASE k = Len(hs) + 1
    <3>1. (made - Len(hs)) + (Len(hs) + 1) = made + 1
      BY <1>1
    <3> QED
      BY <1>1, <2>1, <3>1
  <2>2. CASE k # Len(hs) + 1
    <3>1. k \in 1..Len(hs)
      BY <1>1, <2>2
    <3> QED
      BY <1>1, <3>1
  <2> QED
    BY <2>1, <2>2
<1>4. \A k \in 1..Len(as) : as[k] = ((made + 1) - Len(as)) + k
  BY <1>1, <1>2, <1>3
<1> QED
  BY <1>2, <1>4 DEF as

\* The wait handlers are posted, all of them.
LEMMA WaitersPosted ==
    ASSUME IInv, EachHandlerOnce, NEW ec \in {"ok", "canceled"}
    PROVE  LET cs == ready \o WakeWaiters(mWaitHandlers, ec) IN
           /\ cs \in Seq(Completion)
           /\ Numbered(cs, "pop", ran, pops - Len(mHandlers))
           /\ woken <= waits /\ Numbered(cs, "wait", woken, waits)
<1> DEFINE ws == WakeWaiters(mWaitHandlers, ec)
           last == waits - Len(mWaitHandlers)
<1>1. ws \in Seq(Completion)
  BY WakeWaitersType DEF IInv, TypeOK
<1>2. Len(mWaitHandlers) \in Nat
  BY OnceFacts
<1>3. /\ Len(ws) = Len(mWaitHandlers)
      /\ \A k \in 1..Len(mWaitHandlers) : ws[k].op = "wait" /\ ws[k].id = mWaitHandlers[k]
  BY <1>2 DEF WakeWaiters, WaitDone
<1> HIDE DEF ws
<1>4. ready \o ws \in Seq(Completion)
  BY <1>1, OnceFacts, ConcatProperties
<1>5. Numbered(ready \o ws, "pop", ran, pops - Len(mHandlers))
  <2>1. \A k \in 1..Len(ws) : ws[k].op # "pop"
    BY <1>3
  <2> QED
    BY <1>1, <2>1, OnceFacts, NumberedOther
<1>6. last \in Nat /\ woken <= last /\ last + Len(ws) = waits /\ waits \in Nat /\ woken <= waits
  BY <1>2, <1>3, OnceFacts
<1>7. Numbered(ready \o ws, "wait", woken, last + Len(ws))
  <2>1. \A k \in 1..Len(ws) : ws[k].op = "wait" /\ ws[k].id = last + k
    BY <1>3, OnceFacts
  <2>2. Numbered(ready, "wait", woken, last) /\ ready \in Seq(Completion) /\ woken \in Nat
    BY OnceFacts
  <2> HIDE DEF last
  <2> QED
    BY <1>1, <1>6, <2>1, <2>2, NumberedAll
<1> QED
  BY <1>4, <1>5, <1>6, <1>7 DEF ws

\* async_pop, the handler asleep.
LEMMA PopSleepsOnce ==
    ASSUME IInv, EachHandlerOnce, AsyncPop, PopSleeps
    PROVE  EachHandlerOnce'
<1>1. /\ mHandlers' = Append(mHandlers, pops + 1) /\ pops' = pops + 1
      /\ UNCHANGED <<ready, ran, woken, waits, mWaitHandlers>>
  BY DEF AsyncPop, PopSleeps
<1>2. /\ pops' - Len(mHandlers') = pops - Len(mHandlers)
      /\ \A k \in 1..Len(mHandlers') : mHandlers'[k] = (pops' - Len(mHandlers')) + k
  BY <1>1, OnceFacts, SleepsLast
<1>3. CalledOnce("pop", ran, pops, mHandlers)'
  BY <1>1, <1>2, OnceFacts DEF CalledOnce
<1>4. CalledOnce("wait", woken, waits, mWaitHandlers)'
  BY <1>1 DEF EachHandlerOnce, CalledOnce
<1> QED
  BY <1>3, <1>4 DEF EachHandlerOnce

\* async_pop, the handler posted at once: nobody sleeps, for m_list is not empty.
LEMMA PopTakesOnce ==
    ASSUME IInv, EachHandlerOnce, AsyncPop, PopTakes
    PROVE  EachHandlerOnce'
<1> DEFINE c == PopDone(pops + 1, "ok", Head(mList))
<1>1. /\ ready' = Append(ready, c) /\ pops' = pops + 1
      /\ UNCHANGED <<mHandlers, ran, woken, waits, mWaitHandlers>>
  BY DEF AsyncPop, PopTakes
<1>2. c \in Completion
  <2>1. pops + 1 \in 1..MaxPop /\ Head(mList) \in Values
    BY QueueAssumption DEF IInv, TypeOK, AsyncPop, PopTakes
  <2> QED
    BY <2>1, PopDoneType
<1>3. c.op = "pop" /\ c.id = pops + 1
  BY DEF PopDone
<1> HIDE DEF c
<1>4. mHandlers = <<>> /\ Len(mHandlers) = 0
  BY DEF PopTakes, IInv, SleepersMeanEmpty
<1>5. Numbered(ready, "pop", ran, pops) /\ ran <= pops /\ pops \in Nat /\ ran \in Nat
      /\ ready \in Seq(Completion)
  BY <1>4, OnceFacts
<1>6. Numbered(ready', "pop", ran, pops + 1)
  BY <1>1, <1>2, <1>3, <1>5, NumberedAppend
<1>7. CalledOnce("pop", ran, pops, mHandlers)'
  BY <1>1, <1>4, <1>5, <1>6 DEF CalledOnce
<1>8. Numbered(ready', "wait", woken, waits - Len(mWaitHandlers))
  <2>1. ready' = ready \o <<c>> /\ <<c>> \in Seq(Completion)
        /\ \A k \in 1..Len(<<c>>) : <<c>>[k].op # "wait"
    BY <1>1, <1>2, <1>3, <1>5
  <2> QED
    BY <2>1, OnceFacts, NumberedOther
<1>9. CalledOnce("wait", woken, waits, mWaitHandlers)'
  BY <1>1, <1>8, OnceFacts DEF CalledOnce
<1> QED
  BY <1>7, <1>9 DEF EachHandlerOnce

\* async_wait, asleep or posted at once.
LEMMA AsyncWaitOnce ==
    ASSUME IInv, EachHandlerOnce, AsyncWait
    PROVE  EachHandlerOnce'
<1>1. waits' = waits + 1 /\ UNCHANGED <<mHandlers, ran, woken, pops>>
  BY DEF AsyncWait
<1>2. CASE mList = <<>>
  <2>1. mWaitHandlers' = Append(mWaitHandlers, waits + 1) /\ ready' = ready
    BY <1>2 DEF AsyncWait
  <2>2. /\ waits' - Len(mWaitHandlers') = waits - Len(mWaitHandlers)
        /\ \A k \in 1..Len(mWaitHandlers') :
              mWaitHandlers'[k] = (waits' - Len(mWaitHandlers')) + k
    BY <1>1, <2>1, OnceFacts, SleepsLast
  <2>3. CalledOnce("wait", woken, waits, mWaitHandlers)'
    BY <1>1, <2>1, <2>2, OnceFacts DEF CalledOnce
  <2>4. CalledOnce("pop", ran, pops, mHandlers)'
    BY <1>1, <2>1 DEF EachHandlerOnce, CalledOnce
  <2> QED
    BY <2>3, <2>4 DEF EachHandlerOnce
<1>3. CASE mList # <<>>
  <2> DEFINE c == WaitDone(waits + 1, "ok")
  <2>1. ready' = Append(ready, c) /\ mWaitHandlers' = mWaitHandlers
    BY <1>3 DEF AsyncWait
  <2>2. c \in Completion
    <3>1. waits + 1 \in 1..MaxWait
      BY QueueAssumption DEF IInv, TypeOK, AsyncWait
    <3> QED
      BY <3>1, WaitDoneType
  <2>3. c.op = "wait" /\ c.id = waits + 1
    BY DEF WaitDone
  <2> HIDE DEF c
  <2>4. mWaitHandlers = <<>> /\ Len(mWaitHandlers) = 0
    BY <1>3 DEF IInv, SleepersMeanEmpty
  <2>5. Numbered(ready, "wait", woken, waits) /\ woken <= waits /\ waits \in Nat /\ woken \in Nat
        /\ ready \in Seq(Completion)
    BY <2>4, OnceFacts
  <2>6. Numbered(ready', "wait", woken, waits + 1)
    BY <2>1, <2>2, <2>3, <2>5, NumberedAppend
  <2>7. CalledOnce("wait", woken, waits, mWaitHandlers)'
    BY <1>1, <2>1, <2>4, <2>5, <2>6 DEF CalledOnce
  <2>8. Numbered(ready', "pop", ran, pops - Len(mHandlers))
    <3>1. ready' = ready \o <<c>> /\ <<c>> \in Seq(Completion)
          /\ \A k \in 1..Len(<<c>>) : <<c>>[k].op # "pop"
      BY <2>1, <2>2, <2>3, <2>5
    <3> QED
      BY <3>1, OnceFacts, NumberedOther
  <2>9. CalledOnce("pop", ran, pops, mHandlers)'
    BY <1>1, <2>8, OnceFacts DEF CalledOnce
  <2> QED
    BY <2>7, <2>9 DEF EachHandlerOnce
<1> QED
  BY <1>2, <1>3

\* push with a pop handler asleep: the oldest one, behind all wait handlers.
LEMMA PushWakesOnce ==
    ASSUME IInv, EachHandlerOnce, NEW v \in Values, Push(v), PushWakes(v)
    PROVE  EachHandlerOnce'
<1> DEFINE c == PopDone(Head(mHandlers), "ok", v)
           cs == ready \o WakeWaiters(mWaitHandlers, "ok")
           last == pops - Len(mHandlers)
<1>1. /\ ready' = cs \o <<c>> /\ mHandlers' = Tail(mHandlers) /\ mWaitHandlers' = <<>>
      /\ UNCHANGED <<pops, ran, woken, waits>> /\ mHandlers # <<>>
  BY DEF Push, PushWakes
<1>2. c \in Completion
  <2>1. mHandlers \in Seq(1..MaxPop)
    BY DEF IInv, TypeOK
  <2>2. Head(mHandlers) \in 1..MaxPop
    BY <1>1, <2>1, HeadTailProperties
  <2> QED
    BY <2>2, PopDoneType
<1>3. c.op = "pop" /\ c.id = Head(mHandlers)
  BY DEF PopDone
<1>4. cs \in Seq(Completion) /\ Numbered(cs, "pop", ran, last) /\ Numbered(cs, "wait", woken, waits)
      /\ woken <= waits
  BY WaitersPosted
<1>5. /\ last \in Nat /\ ran \in Nat /\ ran <= last /\ mHandlers \in Seq(Nat) /\ pops \in Nat
      /\ waits \in Nat /\ woken \in Nat
      /\ \A k \in 1..Len(mHandlers) : mHandlers[k] = last + k
  BY OnceFacts
<1>6. /\ Len(mHandlers) \in Nat /\ Len(mHandlers) >= 1 /\ Head(mHandlers) = mHandlers[1]
      /\ Len(mHandlers') = Len(mHandlers) - 1
      /\ \A k \in 1..(Len(mHandlers) - 1) : mHandlers'[k] = mHandlers[k + 1]
  BY <1>1, <1>5
<1>7. c.id = last + 1 /\ pops - Len(mHandlers') = last + 1
  BY <1>3, <1>5, <1>6
<1> HIDE DEF c, cs, last
<1>8. ready' = Append(cs, c) /\ <<c>> \in Seq(Completion)
      /\ \A k \in 1..Len(<<c>>) : <<c>>[k].op # "wait"
  BY <1>1, <1>2, <1>3, <1>4
<1>9. Numbered(ready', "pop", ran, last + 1)
  BY <1>2, <1>3, <1>4, <1>5, <1>7, <1>8, NumberedAppend
<1>10. ASSUME NEW k \in 1..Len(mHandlers')
       PROVE  mHandlers'[k] = (last + 1) + k
  <2>1. k + 1 \in 1..Len(mHandlers) /\ mHandlers'[k] = mHandlers[k + 1]
    BY <1>6
  <2> QED
    BY <1>5, <2>1
<1>11. CalledOnce("pop", ran, pops, mHandlers)'
  <2>1. ran <= last + 1
    BY <1>5
  <2> QED
    BY <1>1, <1>7, <1>9, <1>10, <2>1 DEF CalledOnce
<1>12. Numbered(ready', "wait", woken, waits)
  BY <1>1, <1>4, <1>5, <1>8, NumberedOther
<1>13. CalledOnce("wait", woken, waits, mWaitHandlers)'
  BY <1>1, <1>4, <1>5, <1>12 DEF CalledOnce
<1> QED
  BY <1>11, <1>13 DEF EachHandlerOnce

\* push with nobody asleep on a pop.
LEMMA PushKeepsOnce ==
    ASSUME IInv, EachHandlerOnce, NEW v \in Values, Push(v), PushKeeps(v)
    PROVE  EachHandlerOnce'
<1>1. /\ ready' = ready \o WakeWaiters(mWaitHandlers, "ok") /\ mWaitHandlers' = <<>>
      /\ UNCHANGED <<mHandlers, pops, ran, woken, waits>>
  BY DEF Push, PushKeeps
<1>2. /\ Numbered(ready', "pop", ran, pops - Len(mHandlers))
      /\ woken <= waits /\ Numbered(ready', "wait", woken, waits)
  BY <1>1, WaitersPosted
<1>3. CalledOnce("pop", ran, pops, mHandlers)'
  BY <1>1, <1>2, OnceFacts DEF CalledOnce
<1>4. CalledOnce("wait", woken, waits, mWaitHandlers)'
  BY <1>1, <1>2, OnceFacts DEF CalledOnce
<1> QED
  BY <1>3, <1>4 DEF EachHandlerOnce

\* cancele: all sleepers are posted, or none when no pop handler sleeps.
LEMMA CanceleOnce ==
    ASSUME IInv, EachHandlerOnce, Cancele
    PROVE  EachHandlerOnce'
<1>1. mHandlers' = <<>> /\ UNCHANGED <<pops, ran, woken, waits>>
  BY DEF Cancele
<1>2. CASE mHandlers = <<>>
  <2>1. UNCHANGED <<ready, mWaitHandlers, mHandlers>>
    BY <1>1, <1>2 DEF Cancele
  <2> QED
    BY <1>1, <2>1 DEF EachHandlerOnce, CalledOnce
<1>3. CASE mHandlers # <<>>
  <2> DEFINE cs == ready \o WakeWaiters(mWaitHandlers, "canceled")
             ws == CancelPops(mHandlers)
             last == pops - Len(mHandlers)
  <2>1. ready' = cs \o ws /\ mWaitHandlers' = <<>>
    BY <1>3 DEF Cancele
  <2>2. cs \in Seq(Completion) /\ Numbered(cs, "pop", ran, last) /\ Numbered(cs, "wait", woken, waits)
        /\ woken <= waits
    BY WaitersPosted
  <2>3. /\ last \in Nat /\ ran \in Nat /\ ran <= last /\ mHandlers \in Seq(Nat) /\ pops \in Nat
        /\ waits \in Nat /\ woken \in Nat
        /\ \A k \in 1..Len(mHandlers) : mHandlers[k] = last + k
    BY OnceFacts
  <2>4. ws \in Seq(Completion)
    BY CancelPopsType DEF IInv, TypeOK
  <2>5. Len(mHandlers) \in Nat /\ last + Len(mHandlers) = pops
    BY <2>3
  <2>6. Len(ws) = Len(mHandlers) /\ \A k \in 1..Len(ws) : ws[k].op = "pop" /\ ws[k].id = last + k
    BY <2>3, <2>5 DEF CancelPops, PopDone
  <2> HIDE DEF cs, ws, last
  <2>7. Numbered(cs \o ws, "pop", ran, last + Len(ws))
    BY <2>2, <2>3, <2>4, <2>6, NumberedAll
  <2>8. Numbered(cs \o ws, "wait", woken, waits)
    <3>1. \A k \in 1..Len(ws) : ws[k].op # "wait"
      BY <2>6
    <3> QED
      BY <2>2, <2>3, <2>4, <3>1, NumberedOther
  <2>9. ran <= pops
    BY <2>3, <2>5
  <2>10. CalledOnce("pop", ran, pops, mHandlers)'
    BY <1>1, <2>1, <2>3, <2>5, <2>6, <2>7, <2>9 DEF CalledOnce
  <2>11. CalledOnce("wait", woken, waits, mWaitHandlers)'
    BY <1>1, <2>1, <2>2, <2>3, <2>8 DEF CalledOnce
  <2> QED
    BY <2>10, <2>11 DEF EachHandlerOnce
<1> QED
  BY <1>2, <1>3

\* The io_service runs the next completion.
LEMMA RunReadyOnce ==
    ASSUME IInv, EachHandlerOnce, RunReady
    PROVE  EachHandlerOnce'
<1>1. /\ ready # <<>> /\ ready' = Tail(ready)
      /\ UNCHANGED <<mHandlers, mWaitHandlers, pops, waits>>
      /\ IF Head(ready).op = "pop" THEN ran' = ran + 1 /\ woken' = woken
                                   ELSE woken' = woken + 1 /\ ran' = ran
  BY DEF RunReady
<1>2. Head(ready).op \in {"pop", "wait"}
  <2>1. Head(ready) \in Completion
    BY <1>1, OnceFacts
  <2> QED
    BY <2>1 DEF Completion
<1>3. IF Head(ready).op = "pop"
        THEN /\ ran + 1 <= pops - Len(mHandlers)
             /\ Numbered(Tail(ready), "pop", ran + 1, pops - Len(mHandlers))
        ELSE Numbered(Tail(ready), "pop", ran, pops - Len(mHandlers))
  BY <1>1, OnceFacts, NumberedTail
<1>4. IF Head(ready).op = "wait"
        THEN /\ woken + 1 <= waits - Len(mWaitHandlers)
             /\ Numbered(Tail(ready), "wait", woken + 1, waits - Len(mWaitHandlers))
        ELSE Numbered(Tail(ready), "wait", woken, waits - Len(mWaitHandlers))
  BY <1>1, OnceFacts, NumberedTail
<1>5. CalledOnce("pop", ran, pops, mHandlers)'
  BY <1>1, <1>2, <1>3, OnceFacts DEF CalledOnce
<1>6. CalledOnce("wait", woken, waits, mWaitHandlers)'
  BY <1>1, <1>2, <1>4, OnceFacts DEF CalledOnce
<1> QED
  BY <1>5, <1>6 DEF EachHandlerOnce

\* Every handler passed to async_pop or async_wait runs exactly once and in the
\* order of the calls, however pops, waits, pushes and cancels interleave.
THEOREM QueueCallsOnce == Spec => []EachHandlerOnce
<1>1. Init => EachHandlerOnce
  BY DEF Init, EachHandlerOnce, CalledOnce, Numbered
<1>2. IInv /\ EachHandlerOnce /\ [Next]_vars => EachHandlerOnce'
  <2> SUFFICES ASSUME IInv, EachHandlerOnce, [Next]_vars
               PROVE  EachHandlerOnce'
    OBVIOUS
  <2>1. CASE AsyncPop
    BY <2>1, PopSleepsOnce, PopTakesOnce DEF AsyncPop
  <2>2. CASE \E v \in Values : Push(v)
    BY <2>2, PushWakesOnce, PushKeepsOnce DEF Push
  <2>3. CASE UNCHANGED vars
    BY <2>3 DEF vars, EachHandlerOnce, CalledOnce
  <2> QED
    BY <2>1, <2>2, <2>3, AsyncWaitOnce, CanceleOnce, RunReadyOnce DEF Next
<1> QED
  BY <1>1, <1>2, QueueInvariance, PTL DEF Spec

-----------------------------------------------------------------------------
(***************************************************************************)
(* The queue is a first-in first-out channel.                              *)
(***************************************************************************)
OkPop(c) == c.op = "pop" /\ c.ec = "ok"

\* The values vs from number done + 1 on are in the completions cs, each in one
\* of its own, in order, and no other value is: p says which one has which.
Carried(cs, vs, done, p) ==
    /\ p \in [(done + 1)..Len(vs) -> 1..Len(cs)]
    /\ \A i, j \in (done + 1)..Len(vs) : i < j => p[i] < p[j]
    /\ \A i \in (done + 1)..Len(vs) : OkPop(cs[p[i]]) /\ cs[p[i]].val = vs[i]
    /\ \A k \in 1..Len(cs) : OkPop(cs[k]) => \E i \in (done + 1)..Len(vs) : p[i] = k

\* What was bound to a handler and has not reached it is in what is posted.
BoundInOrder ==
    /\ Len(got) <= Len(handed)
    /\ \E p \in [(Len(got) + 1)..Len(handed) -> 1..Len(ready)] :
          Carried(ready, handed, Len(got), p)

\* Completions without a value are posted.
LEMMA CarriedOther ==
    ASSUME NEW S, NEW cs \in Seq(S), NEW ws \in Seq(S), NEW vs, NEW done, NEW p,
           Carried(cs, vs, done, p), \A k \in 1..Len(ws) : ~ OkPop(ws[k])
    PROVE  Carried(cs \o ws, vs, done, p)
<1> DEFINE ds == cs \o ws
           n == Len(cs)
           m == Len(ws)
<1>1. /\ n \in Nat /\ m \in Nat /\ Len(ds) = n + m
      /\ \A k \in 1..n : ds[k] = cs[k]
      /\ \A k \in 1..(n + m) : k > n => ds[k] = ws[k - n]
  BY ConcatProperties
<1>2. /\ p \in [(done + 1)..Len(vs) -> 1..n]
      /\ \A i, j \in (done + 1)..Len(vs) : i < j => p[i] < p[j]
      /\ \A i \in (done + 1)..Len(vs) : OkPop(cs[p[i]]) /\ cs[p[i]].val = vs[i]
      /\ \A k \in 1..n : OkPop(cs[k]) => \E i \in (done + 1)..Len(vs) : p[i] = k
  BY DEF Carried
<1> HIDE DEF ds
<1>3. p \in [(done + 1)..Len(vs) -> 1..(n + m)]
  BY <1>1, <1>2
<1>4. \A i \in (done + 1)..Len(vs) : ds[p[i]] = cs[p[i]]
  BY <1>1, <1>2
<1>5. ASSUME NEW k \in 1..(n + m), OkPop(ds[k])
      PROVE  \E i \in (done + 1)..Len(vs) : p[i] = k
  <2>1. CASE k > n
    <3>1. k - n \in 1..m
      BY <1>1, <2>1
    <3> QED
      BY <1>1, <1>5, <2>1, <3>1
  <2>2. CASE k <= n
    <3>1. k \in 1..n /\ ds[k] = cs[k]
      BY <1>1, <2>2
    <3> QED
      BY <1>2, <1>5, <3>1
  <2> QED
    BY <1>1, <2>1, <2>2
<1> QED
  BY <1>1, <1>2, <1>3, <1>4, <1>5 DEF Carried, ds

\* A value is bound to a handler and posted with it.
LEMMA CarriedAppend ==
    ASSUME NEW S, NEW cs \in Seq(S), NEW c \in S, NEW V, NEW vs \in Seq(V), NEW v \in V,
           NEW done \in Nat, NEW p, done <= Len(vs),
           Carried(cs, vs, done, p), OkPop(c), c.val = v
    PROVE  \E q \in [(done + 1)..Len(Append(vs, v)) -> 1..Len(Append(cs, c))] :
              Carried(Append(cs, c), Append(vs, v), done, q)
<1> DEFINE ds == Append(cs, c)
           us == Append(vs, v)
           n == Len(cs)
           m == Len(vs)
           q == [i \in (done + 1)..(m + 1) |-> IF i = m + 1 THEN n + 1 ELSE p[i]]
<1>1. /\ n \in Nat /\ Len(ds) = n + 1 /\ ds[n + 1] = c /\ \A k \in 1..n : ds[k] = cs[k]
      /\ m \in Nat /\ Len(us) = m + 1 /\ us[m + 1] = v /\ \A k \in 1..m : us[k] = vs[k]
  OBVIOUS
<1>2. /\ p \in [(done + 1)..m -> 1..n]
      /\ \A i, j \in (done + 1)..m : i < j => p[i] < p[j]
      /\ \A i \in (done + 1)..m : OkPop(cs[p[i]]) /\ cs[p[i]].val = vs[i]
      /\ \A k \in 1..n : OkPop(cs[k]) => \E i \in (done + 1)..m : p[i] = k
  BY DEF Carried
<1> HIDE DEF ds, us
<1>3. /\ \A i \in (done + 1)..m : q[i] = p[i] /\ q[i] \in 1..n /\ i \in 1..m /\ i \in (done + 1)..(m + 1)
      /\ q[m + 1] = n + 1 /\ m + 1 \in (done + 1)..(m + 1)
      /\ DOMAIN q = (done + 1)..(m + 1)
  BY <1>1, <1>2
<1>4. \A i \in (done + 1)..(m + 1) : i = m + 1 \/ i \in (done + 1)..m
  BY <1>1
<1>5. q \in [(done + 1)..(m + 1) -> 1..(n + 1)]
  BY <1>1, <1>2, <1>4
<1> HIDE DEF q
<1>6. ASSUME NEW i \in (done + 1)..(m + 1), NEW j \in (done + 1)..(m + 1), i < j
      PROVE  q[i] < q[j]
  <2>1. i \in (done + 1)..m
    BY <1>1, <1>6
  <2>2. CASE j = m + 1
    <3>1. q[i] \in 1..n /\ q[j] = n + 1
      BY <1>3, <2>1, <2>2
    <3> QED
      BY <1>1, <3>1
  <2>3. CASE j \in (done + 1)..m
    BY <1>2, <1>3, <1>6, <2>1, <2>3
  <2> QED
    BY <1>4, <2>2, <2>3
<1>7. ASSUME NEW i \in (done + 1)..(m + 1)
      PROVE  OkPop(ds[q[i]]) /\ ds[q[i]].val = us[i]
  <2>1. CASE i = m + 1
    BY <1>1, <1>3, <2>1
  <2>2. CASE i \in (done + 1)..m
    <3>1. ds[q[i]] = cs[p[i]] /\ us[i] = vs[i]
      BY <1>1, <1>3, <2>2
    <3> QED
      BY <1>2, <2>2, <3>1
  <2> QED
    BY <1>4, <2>1, <2>2
<1>8. ASSUME NEW k \in 1..(n + 1), OkPop(ds[k])
      PROVE  \E i \in (done + 1)..(m + 1) : q[i] = k
  <2>1. CASE k = n + 1
    BY <1>3, <2>1
  <2>2. CASE k # n + 1
    <3>1. k \in 1..n /\ ds[k] = cs[k]
      BY <1>1, <2>2
    <3>2. PICK i \in (done + 1)..m : p[i] = k
      BY <1>2, <1>8, <3>1
    <3> QED
      BY <1>3, <3>2
  <2> QED
    BY <2>1, <2>2
<1>9. Carried(ds, us, done, q)
  BY <1>1, <1>5, <1>6, <1>7, <1>8 DEF Carried
<1> QED
  BY <1>1, <1>5, <1>9 DEF ds, us

\* The completion posted first runs: when it has a value, it is the next one.
LEMMA CarriedTail ==
    ASSUME NEW S, NEW cs \in Seq(S), cs # <<>>, NEW V, NEW vs \in Seq(V),
           NEW done \in Nat, NEW p, done <= Len(vs), Carried(cs, vs, done, p)
    PROVE  LET to == IF OkPop(Head(cs)) THEN done + 1 ELSE done IN
           /\ to <= Len(vs)
           /\ OkPop(Head(cs)) => Head(cs).val = vs[done + 1]
           /\ \E q \in [(to + 1)..Len(vs) -> 1..Len(Tail(cs))] : Carried(Tail(cs), vs, to, q)
<1> DEFINE ds == Tail(cs)
           n == Len(cs)
           m == Len(vs)
           to == IF OkPop(Head(cs)) THEN done + 1 ELSE done
           q == [i \in (to + 1)..m |-> p[i] - 1]
<1>1. /\ n \in Nat /\ n >= 1 /\ Len(ds) = n - 1 /\ Head(cs) = cs[1] /\ m \in Nat
      /\ \A k \in 1..(n - 1) : ds[k] = cs[k + 1]
  OBVIOUS
<1>2. /\ p \in [(done + 1)..m -> 1..n]
      /\ \A i, j \in (done + 1)..m : i < j => p[i] < p[j]
      /\ \A i \in (done + 1)..m : OkPop(cs[p[i]]) /\ cs[p[i]].val = vs[i]
      /\ \A k \in 1..n : OkPop(cs[k]) => \E i \in (done + 1)..m : p[i] = k
  BY DEF Carried
<1> HIDE DEF ds
<1>3. OkPop(Head(cs)) => done + 1 \in (done + 1)..m /\ p[done + 1] = 1
  <2> SUFFICES ASSUME OkPop(Head(cs)) PROVE done + 1 \in (done + 1)..m /\ p[done + 1] = 1
    OBVIOUS
  <2>1. PICK i \in (done + 1)..m : p[i] = 1
    BY <1>1, <1>2
  <2>2. done + 1 \in (done + 1)..m /\ p[done + 1] \in 1..n
    BY <1>1, <1>2
  <2>3. CASE i = done + 1
    BY <2>1, <2>2, <2>3
  <2>4. CASE done + 1 < i
    <3>1. p[done + 1] < 1
      BY <1>2, <2>1, <2>2, <2>4
    <3> QED
      BY <2>2, <3>1
  <2> QED
    BY <2>3, <2>4
<1>4. to \in Nat /\ to <= m /\ done <= to
  BY <1>1, <1>3
<1>5. OkPop(Head(cs)) => Head(cs).val = vs[done + 1]
  BY <1>1, <1>2, <1>3
<1>6. ASSUME NEW i \in (to + 1)..m
      PROVE  i \in (done + 1)..m /\ p[i] \in 2..n
  <2>1. i \in (done + 1)..m /\ p[i] \in 1..n
    BY <1>2, <1>4
  <2>2. p[i] # 1
    <3>1. CASE OkPop(Head(cs))
      <4>1. done + 1 < i
        BY <1>4, <3>1
      <4>2. 1 < p[i]
        BY <1>2, <1>3, <2>1, <3>1, <4>1
      <4> QED
        BY <2>1, <4>2
    <3>2. CASE ~ OkPop(Head(cs))
      BY <1>1, <1>2, <2>1, <3>2
    <3> QED
      BY <3>1, <3>2
  <2> QED
    BY <1>1, <2>1, <2>2
<1>7. q \in [(to + 1)..m -> 1..(n - 1)]
  BY <1>1, <1>6
<1>8. \A i \in (to + 1)..m : q[i] = p[i] - 1
  OBVIOUS
<1> HIDE DEF q, to
<1>9. ASSUME NEW i \in (to + 1)..m, NEW j \in (to + 1)..m, i < j
      PROVE  q[i] < q[j]
  <2>1. p[i] < p[j] /\ p[i] \in 2..n /\ p[j] \in 2..n
    BY <1>2, <1>6, <1>9
  <2> QED
    BY <1>1, <1>8, <2>1
<1>10. ASSUME NEW i \in (to + 1)..m
       PROVE  OkPop(ds[q[i]]) /\ ds[q[i]].val = vs[i]
  <2>1. p[i] - 1 \in 1..(n - 1) /\ (p[i] - 1) + 1 = p[i]
    BY <1>1, <1>6
  <2>2. ds[q[i]] = cs[p[i]]
    BY <1>1, <1>8, <2>1
  <2> QED
    BY <1>2, <1>6, <2>2
<1>11. ASSUME NEW k \in 1..(n - 1), OkPop(ds[k])
       PROVE  \E i \in (to + 1)..m : q[i] = k
  <2>1. k + 1 \in 1..n /\ ds[k] = cs[k + 1] /\ k + 1 # 1 /\ (k + 1) - 1 = k
    BY <1>1
  <2>2. PICK i \in (done + 1)..m : p[i] = k + 1
    BY <1>2, <1>11, <2>1
  <2>3. i \in (to + 1)..m
    <3>1. CASE OkPop(Head(cs))
      <4>1. i # done + 1
        BY <1>3, <2>1, <2>2, <3>1
      <4> QED
        BY <1>1, <3>1, <4>1 DEF to
    <3>2. CASE ~ OkPop(Head(cs))
      BY <3>2 DEF to
    <3> QED
      BY <3>1, <3>2
  <2> QED
    BY <1>8, <2>1, <2>2, <2>3
<1>12. Carried(ds, vs, to, q)
  BY <1>1, <1>7, <1>9, <1>10, <1>11 DEF Carried
<1> QED
  BY <1>1, <1>4, <1>5, <1>7, <1>12 DEF ds, to

\* What is posted for wait handlers carries no value.
LEMMA WaitersCarryNone ==
    ASSUME NEW S, NEW hs \in Seq(S), NEW ec, NEW k \in 1..Len(WakeWaiters(hs, ec))
    PROVE  ~ OkPop(WakeWaiters(hs, ec)[k])
<1>1. Len(hs) \in Nat
  OBVIOUS
<1>2. WakeWaiters(hs, ec)[k] = WaitDone(hs[k], ec)
  BY <1>1 DEF WakeWaiters
<1> QED
  BY <1>2 DEF WaitDone, OkPop

\* Nor does what is posted for canceled pop handlers.
LEMMA CanceledCarryNone ==
    ASSUME NEW S, NEW hs \in Seq(S), NEW k \in 1..Len(CancelPops(hs))
    PROVE  ~ OkPop(CancelPops(hs)[k])
<1>1. Len(hs) \in Nat
  OBVIOUS
<1>2. CancelPops(hs)[k] = PopDone(hs[k], "canceled", NoValue)
  BY <1>1 DEF CancelPops
<1> QED
  BY <1>2 DEF PopDone, OkPop

\* The types the lemmas above ask for, and the positions they speak of.
LEMMA BoundFacts ==
    ASSUME IInv, BoundInOrder
    PROVE  /\ ready \in Seq(Completion) /\ handed \in Seq(Values) /\ pushed \in Seq(Values)
           /\ mHandlers \in Seq(1..MaxPop) /\ mWaitHandlers \in Seq(1..MaxWait)
           /\ Len(got) \in Nat /\ Len(got) <= Len(handed)
           /\ \E p : Carried(ready, handed, Len(got), p)
  BY DEF IInv, TypeOK, BoundInOrder

\* A step that binds no value and runs nothing.
LEMMA BoundKept ==
    ASSUME IInv, BoundInOrder, NEW ws \in Seq(Completion), ready' = ready \o ws,
           \A k \in 1..Len(ws) : ~ OkPop(ws[k]), UNCHANGED <<handed, got>>
    PROVE  BoundInOrder'
<1>1. PICK p : Carried(ready, handed, Len(got), p)
  BY BoundFacts
<1>2. Carried(ready', handed', Len(got'), p)
  BY <1>1, BoundFacts, CarriedOther
<1> QED
  BY <1>2, BoundFacts DEF BoundInOrder, Carried

\* A value is bound to a handler, which is posted with it.
LEMMA BoundNext ==
    ASSUME IInv, BoundInOrder, NEW cs \in Seq(Completion), NEW p, NEW c \in Completion,
           Carried(cs, handed, Len(got), p),
           NEW v \in Values, OkPop(c), c.val = v,
           ready' = Append(cs, c), handed' = Append(handed, v), got' = got
    PROVE  BoundInOrder'
<1>1. \E q \in [(Len(got) + 1)..Len(handed') -> 1..Len(ready')] :
         Carried(ready', handed', Len(got), q)
  BY BoundFacts, CarriedAppend
<1>2. Len(got') <= Len(handed')
  BY BoundFacts
<1> QED
  BY <1>1, <1>2 DEF BoundInOrder

\* Every step keeps the values in order, and is a step of the channel: push puts
\* one in, a handler that runs with a value takes the next one out.
LEMMA FifoStep ==
    ASSUME IInv, BoundInOrder, [Next]_vars
    PROVE  BoundInOrder' /\ [Channel!Next]_(Channel!fifoVars)
<1> USE DEF Channel!Next, Channel!Put, Channel!Get, Channel!fifoVars
<1>0. ready = ready \o <<>> /\ <<>> \in Seq(Completion) /\ \A k \in 1..Len(<<>>) : ~ OkPop(<<>>[k])
  BY BoundFacts
<1>1. CASE UNCHANGED <<ready, handed, got, pushed>>
  BY <1>0, <1>1, BoundKept
<1>2. CASE AsyncPop /\ PopTakes
  <2> DEFINE c == PopDone(pops + 1, "ok", Head(mList))
  <2>1. /\ ready' = Append(ready, c) /\ handed' = Append(handed, Head(mList))
        /\ got' = got /\ pushed' = pushed
    BY <1>2 DEF AsyncPop, PopTakes
  <2>2. pops + 1 \in 1..MaxPop /\ Head(mList) \in Values
    BY <1>2, QueueAssumption DEF IInv, TypeOK, AsyncPop, PopTakes
  <2>3. c \in Completion /\ OkPop(c) /\ c.val = Head(mList)
    BY <2>2, PopDoneType DEF PopDone, OkPop
  <2> HIDE DEF c
  <2> QED
    BY <2>1, <2>2, <2>3, BoundFacts, BoundNext
<1>3. CASE AsyncWait
  <2>1. UNCHANGED <<handed, got, pushed>>
    BY <1>3 DEF AsyncWait
  <2>2. CASE mList = <<>>
    BY <1>1, <1>3, <2>1, <2>2 DEF AsyncWait
  <2>3. CASE mList # <<>>
    <3> DEFINE c == WaitDone(waits + 1, "ok")
    <3>1. ready' = Append(ready, c)
      BY <1>3, <2>3 DEF AsyncWait
    <3>2. waits + 1 \in 1..MaxWait
      BY <1>3, QueueAssumption DEF IInv, TypeOK, AsyncWait
    <3>3. c \in Completion /\ ~ OkPop(c)
      BY <3>2, WaitDoneType DEF WaitDone, OkPop
    <3> HIDE DEF c
    <3>4. ready \in Seq(Completion)
      BY BoundFacts
    <3>5. <<c>> \in Seq(Completion) /\ Len(<<c>>) = 1 /\ <<c>>[1] = c
      BY <3>3
    <3>6. ready' = ready \o <<c>>
      BY <3>1, <3>3, <3>4, AppendIsConcat
    <3> DEFINE ws == <<c>>
    <3> HIDE DEF ws
    <3>7. ws \in Seq(Completion) /\ Len(ws) = 1 /\ ws[1] = c /\ ready' = ready \o ws
      BY <3>5, <3>6 DEF ws
    <3>8. \A k \in 1..Len(ws) : ~ OkPop(ws[k])
      BY <3>3, <3>7
    <3> QED
      BY <2>1, <3>7, <3>8, BoundKept
  <2> QED
    BY <2>2, <2>3
<1>4. ASSUME NEW v \in Values, Push(v), PushWakes(v)
      PROVE  BoundInOrder' /\ [Channel!Next]_(Channel!fifoVars)
  <2> DEFINE c == PopDone(Head(mHandlers), "ok", v)
             ws == WakeWaiters(mWaitHandlers, "ok")
             cs == ready \o ws
  <2>1. /\ ready' = cs \o <<c>> /\ handed' = Append(handed, v) /\ got' = got
        /\ pushed' = Append(pushed, v) /\ mHandlers # <<>>
    BY <1>4 DEF Push, PushWakes
  <2>2. Head(mHandlers) \in 1..MaxPop
    BY <2>1, BoundFacts, HeadTailProperties
  <2>3. c \in Completion /\ OkPop(c) /\ c.val = v
    BY <2>2, PopDoneType DEF PopDone, OkPop
  <2>4. ws \in Seq(Completion) /\ \A k \in 1..Len(ws) : ~ OkPop(ws[k])
    BY BoundFacts, WakeWaitersType, WaitersCarryNone
  <2>5. PICK p : Carried(ready, handed, Len(got), p)
    BY BoundFacts
  <2> HIDE DEF c, ws
  <2>6. cs \in Seq(Completion) /\ Carried(cs, handed, Len(got), p)
    BY <2>4, <2>5, BoundFacts, CarriedOther, ConcatProperties
  <2> HIDE DEF cs
  <2>7. ready' = Append(cs, c)
    BY <2>1, <2>3, <2>6
  <2> QED
    BY <2>1, <2>3, <2>6, <2>7, BoundNext
<1>5. ASSUME NEW v \in Values, Push(v), PushKeeps(v)
      PROVE  BoundInOrder' /\ [Channel!Next]_(Channel!fifoVars)
  <2>1. /\ ready' = ready \o WakeWaiters(mWaitHandlers, "ok") /\ handed' = handed /\ got' = got
        /\ pushed' = Append(pushed, v)
    BY <1>5 DEF Push, PushKeeps
  <2>2. WakeWaiters(mWaitHandlers, "ok") \in Seq(Completion)
        /\ \A k \in 1..Len(WakeWaiters(mWaitHandlers, "ok")) :
              ~ OkPop(WakeWaiters(mWaitHandlers, "ok")[k])
    BY BoundFacts, WakeWaitersType, WaitersCarryNone
  <2> QED
    BY <2>1, <2>2, BoundKept
<1>6. CASE Cancele /\ mHandlers # <<>>
  <2> DEFINE ws == WakeWaiters(mWaitHandlers, "canceled")
             us == CancelPops(mHandlers)
  <2>1. ready' = (ready \o ws) \o us /\ UNCHANGED <<handed, got, pushed>>
    BY <1>6 DEF Cancele
  <2>2. ws \in Seq(Completion) /\ \A k \in 1..Len(ws) : ~ OkPop(ws[k])
    BY BoundFacts, WakeWaitersType, WaitersCarryNone
  <2>3. us \in Seq(Completion) /\ \A k \in 1..Len(us) : ~ OkPop(us[k])
    BY BoundFacts, CancelPopsType, CanceledCarryNone
  <2> HIDE DEF ws, us
  <2>4. PICK p : Carried(ready, handed, Len(got), p)
    BY BoundFacts
  <2>5. ready \o ws \in Seq(Completion) /\ Carried(ready \o ws, handed, Len(got), p)
    BY <2>2, <2>4, BoundFacts, CarriedOther, ConcatProperties
  <2>6. Carried(ready', handed', Len(got'), p)
    BY <2>1, <2>3, <2>5, CarriedOther
  <2> QED
    BY <2>1, <2>6, BoundFacts DEF BoundInOrder, Carried
<1>7. CASE RunReady
  <2> DEFINE c == Head(ready)
             to == IF OkPop(c) THEN Len(got) + 1 ELSE Len(got)
  <2>1. /\ ready # <<>> /\ ready' = Tail(ready) /\ UNCHANGED <<handed, pushed>>
        /\ got' = IF OkPop(c) THEN Append(got, c.val) ELSE got
    BY <1>7 DEF RunReady, OkPop
  <2>2. /\ to <= Len(handed) /\ (OkPop(c) => c.val = handed[Len(got) + 1])
        /\ \E q \in [(to + 1)..Len(handed) -> 1..Len(Tail(ready))] :
              Carried(Tail(ready), handed, to, q)
    BY <2>1, BoundFacts, CarriedTail
  <2>3. Len(got') = to
    BY <2>1 DEF IInv, TypeOK
  <2>4. BoundInOrder'
    BY <2>1, <2>2, <2>3 DEF BoundInOrder
  <2>5. OkPop(c) => Len(got) < Len(pushed) /\ c.val = pushed[Len(got) + 1]
    <3> SUFFICES ASSUME OkPop(c) PROVE Len(got) < Len(pushed) /\ c.val = pushed[Len(got) + 1]
      OBVIOUS
    <3>1. Len(got) \in Nat /\ Len(got) + 1 <= Len(handed) /\ handed \in Seq(Values)
          /\ mList \in Seq(Values) /\ Len(handed) \in Nat /\ Len(mList) \in Nat
      BY <2>2, BoundFacts DEF IInv, TypeOK
    <3>2. pushed = handed \o mList
      BY DEF IInv, NothingLost
    <3>3. Len(pushed) = Len(handed) + Len(mList)
      BY <3>1, <3>2
    <3>4. pushed[Len(got) + 1] = handed[Len(got) + 1]
      BY <3>1, <3>2, ConcatProperties
    <3> QED
      BY <2>2, <3>1, <3>3, <3>4
  <2>6. [Channel!Next]_(Channel!fifoVars)
    BY <2>1, <2>5
  <2> QED
    BY <2>4, <2>6
<1>8. CASE AsyncPop /\ PopSleeps
  BY <1>1, <1>8 DEF AsyncPop, PopSleeps
<1>9. CASE Cancele /\ mHandlers = <<>>
  BY <1>1, <1>9 DEF Cancele
<1>10. CASE UNCHANGED vars
  BY <1>1, <1>10 DEF vars
<1> QED
  BY <1>2, <1>3, <1>4, <1>5, <1>6, <1>7, <1>8, <1>9, <1>10 DEF Next, AsyncPop, Push

\* Seen from the handlers that run, async_coro_queue is a first-in first-out
\* channel: it implements Fifo.
THEOREM QueueImplementsFifo == Spec => ImplementsFifo
<1>1. Init => BoundInOrder /\ Channel!Init
  <2> SUFFICES ASSUME Init PROVE BoundInOrder /\ Channel!Init
    OBVIOUS
  <2>1. Channel!Init
    BY DEF Init, Channel!Init
  <2> DEFINE p == [i \in 1..0 |-> 1]
  <2>2. ready = <<>> /\ handed = <<>> /\ got = <<>> /\ Len(<<>>) = 0
    BY DEF Init
  <2>3. p \in [(Len(got) + 1)..Len(handed) -> 1..Len(ready)]
    BY <2>2
  <2>4. Carried(ready, handed, Len(got), p)
    BY <2>2, <2>3 DEF Carried
  <2>5. Len(got) <= Len(handed)
    BY <2>2
  <2> HIDE DEF p
  <2>6. BoundInOrder
    BY <2>3, <2>4, <2>5 DEF BoundInOrder
  <2> QED
    BY <2>1, <2>6
<1>2. IInv /\ BoundInOrder /\ [Next]_vars => BoundInOrder' /\ [Channel!Next]_(Channel!fifoVars)
  BY FifoStep
<1> QED
  BY <1>1, <1>2, QueueInvariance, PTL DEF Spec, ImplementsFifo, Channel!Spec
=============================================================================
