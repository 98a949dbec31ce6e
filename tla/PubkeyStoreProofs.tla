------------------------- MODULE PubkeyStoreProofs -------------------------
(***************************************************************************)
(* Proofs about PubkeyStore, for every number of addresses, lifetime and   *)
(* bound: its types, that the front of a vector is its newest key, and     *)
(* what purge_RSA_pubkey drops and what it passes over.                    *)
(***************************************************************************)
EXTENDS PubkeyStore, FiniteSetTheorems, SequenceTheorems, WellFoundedInduction, TLAPS

\* The keys of a vector, the one that is valid longest first.
IsSorted(s) == \A i, j \in 1..Len(s) : i <= j => s[i] >= s[j]

SortedInv == \A a \in Addresses : IsSorted(keys[a])

\* An address has an entry in the map as long as it has a key.
EntryInv == \A a \in Addresses : entry[a] <=> keys[a] # <<>>

\* The purge that is running, or the last one, has nothing left to do for a: its
\* expired keys are gone, unless the entry in front of it was erased.
Done(a) ==
    (\E k \in 1..Len(keys[a]) : keys[a][k] < now) =>
        \E b \in before : b < a /\ ~ entry[b] /\ \A c \in before : ~ (b < c /\ c < a)

\* While a purge runs it finds only entries that were there when it began, and
\* either it has dealt with them all (an iterator past end() has led it back
\* into the map) or with those in front of the iterator, and none behind.
PurgeInv ==
    iter # 0 =>
        /\ \A a \in Addresses : entry[a] => a \in before
        /\ iter \in Addresses /\ ~ stuck => entry[iter]
        /\ \/ \A a \in Addresses : Done(a)
           \/ \A a \in Addresses : /\ a < iter => Done(a)
                                   /\ a >= iter /\ a \in before => entry[a]

IInv == TypeOK /\ SortedInv /\ EntryInv /\ PurgeInv

-----------------------------------------------------------------------------
(***************************************************************************)
(* Facts about numbers, and about the vector of an address.                *)
(***************************************************************************)
Less == {p \in Nat \X Nat : p[1] < p[2]}

\* A set of natural numbers that is not empty has a least one.
LEMMA LeastNumber ==
    ASSUME NEW T \in SUBSET Nat, T # {}
    PROVE  \E m \in T : \A n \in T : m <= n
<1>1. IsWellFoundedOn(Less, Nat)
  BY NatLessThanWellFounded, IsWellFoundedOnSubrelation DEF Less, OpToRel
<1>2. PICK m \in T : \A n \in T : ~ (<<n, m>> \in Less)
  BY <1>1, WFMin
<1>3. ASSUME NEW n \in T
      PROVE  m <= n
  <2>1. <<n, m>> \in Nat \X Nat /\ ~ (<<n, m>>[1] < <<n, m>>[2])
    BY <1>2 DEF Less
  <2> QED
    BY <2>1
<1> QED
  BY <1>3

\* A part of 1..m that holds every number below one of its own is an interval.
LEMMA PrefixCount ==
    ASSUME NEW m \in Nat, NEW S \in SUBSET (1..m),
           \A j \in S, i \in 1..m : i <= j => i \in S
    PROVE  Cardinality(S) \in 0..m /\ S = 1..Cardinality(S)
<1>1. CASE S = 1..m
  <2>1. Cardinality(1..m) = IF 1 > m THEN 0 ELSE m - 1 + 1
    BY FS_Interval
  <2> QED
    BY <1>1, <2>1
<1>2. CASE S # 1..m
  <2>1. PICK c \in (1..m) \ S : \A n \in (1..m) \ S : c <= n
    <3>1. (1..m) \ S \in SUBSET Nat /\ (1..m) \ S # {}
      <4>1. S \subseteq 1..m
        OBVIOUS
      <4>2. (1..m) \ S # {}
        BY <1>2, <4>1
      <4> QED
        BY <4>2
    <3> QED
      BY <3>1, LeastNumber
  <2>2. S = 1..(c - 1)
    <3>1. ASSUME NEW i \in S PROVE i \in 1..(c - 1)
      BY <2>1
    <3>2. ASSUME NEW i \in 1..(c - 1) PROVE i \in S
      BY <2>1
    <3> QED
      BY <3>1, <3>2
  <2>3. Cardinality(1..(c - 1)) = c - 1
    <3>1. c \in Int /\ c >= 1
      BY <2>1
    <3>2. Cardinality(1..(c - 1)) = IF 1 > c - 1 THEN 0 ELSE (c - 1) - 1 + 1
      BY <3>1, FS_Interval
    <3> QED
      BY <3>1, <3>2
  <2> QED
    BY <2>2, <2>3
<1> QED
  BY <1>1, <1>2

\* push_back and sort: the vector stays sorted and has one key more.
LEMMA InsertKeySorted ==
    ASSUME NEW s \in Seq(Nat), IsSorted(s), NEW k \in Nat
    PROVE  /\ InsertKey(s, k) \in Seq(Nat)
           /\ Len(InsertKey(s, k)) = Len(s) + 1
           /\ IsSorted(InsertKey(s, k))
<1> DEFINE S == {j \in 1..Len(s) : s[j] >= k}
           n == Cardinality(S)
           p == SubSeq(s, 1, n)
           r == SubSeq(s, n + 1, Len(s))
           q == p \o <<k>> \o r
<1>1. Len(s) \in Nat /\ \A j \in 1..Len(s) : s[j] \in Nat
  OBVIOUS
<1>2. n \in 0..Len(s) /\ S = 1..n
  <2>1. \A j \in S, i \in 1..Len(s) : i <= j => i \in S
    BY <1>1 DEF IsSorted
  <2> HIDE DEF S
  <2>2. S \in SUBSET (1..Len(s))
    BY DEF S
  <2> QED
    BY <1>1, <2>1, <2>2, PrefixCount
<1>3. \A j \in 1..Len(s) : s[j] >= k <=> j <= n
  BY <1>1, <1>2
<1> HIDE DEF S, n
<1>4. /\ p \in Seq(Nat) /\ Len(p) = n /\ \A i \in 1..n : p[i] = s[i]
      /\ r \in Seq(Nat) /\ Len(r) = Len(s) - n /\ \A i \in 1..(Len(s) - n) : r[i] = s[n + i]
  BY <1>1, <1>2
<1> HIDE DEF p, r
<1>5. /\ q \in Seq(Nat) /\ Len(q) = Len(s) + 1
      /\ \A i \in 1..Len(q) : q[i] = IF i <= n THEN s[i] ELSE IF i = n + 1 THEN k ELSE s[i - 1]
  <2> DEFINE u == p \o <<k>>
  <2>1. <<k>> \in Seq(Nat) /\ Len(<<k>>) = 1 /\ <<k>>[1] = k
    OBVIOUS
  <2>2. /\ u \in Seq(Nat) /\ Len(u) = n + 1
        /\ \A i \in 1..(n + 1) : u[i] = IF i <= n THEN s[i] ELSE k
    BY <1>1, <1>2, <1>4, <2>1, ConcatProperties
  <2> HIDE DEF u
  <2>3. /\ q \in Seq(Nat) /\ Len(q) = Len(s) + 1
        /\ \A i \in 1..(Len(s) + 1) : q[i] = IF i <= n + 1 THEN u[i] ELSE r[i - (n + 1)]
    <3>1. q = u \o r
      BY DEF u
    <3>2. Len(u) = n + 1 /\ Len(u) + Len(r) = Len(s) + 1
      BY <1>1, <1>2, <1>4, <2>2
    <3> HIDE DEF q
    <3>3. /\ q \in Seq(Nat) /\ Len(q) = Len(u) + Len(r)
          /\ \A i \in 1..(Len(u) + Len(r)) : q[i] = IF i <= Len(u) THEN u[i] ELSE r[i - Len(u)]
      BY <1>4, <2>2, <3>1, ConcatProperties
    <3> QED
      BY <3>2, <3>3
  <2> HIDE DEF q
  <2>4. ASSUME NEW i \in 1..(Len(s) + 1)
        PROVE  q[i] = IF i <= n THEN s[i] ELSE IF i = n + 1 THEN k ELSE s[i - 1]
    <3>0. n \in Nat /\ i \in Nat /\ Len(s) \in Nat
      BY <1>1, <1>2
    <3>1. CASE i <= n + 1
      BY <2>2, <2>3, <3>0, <3>1
    <3>2. CASE i > n + 1
      <4>1. i - (n + 1) \in 1..(Len(s) - n) /\ n + (i - (n + 1)) = i - 1
        BY <3>0, <3>2
      <4>2. r[i - (n + 1)] = s[i - 1]
        BY <1>4, <4>1
      <4> QED
        BY <2>3, <3>0, <3>2, <4>2
    <3> QED
      BY <3>0, <3>1, <3>2
  <2> QED
    BY <2>3, <2>4
<1> HIDE DEF q
<1>6. IsSorted(q)
  <2> SUFFICES ASSUME NEW i \in 1..Len(q), NEW j \in 1..Len(q), i <= j
               PROVE  q[i] >= q[j]
    BY DEF IsSorted
  <2>1. \A x, y \in 1..Len(s) : x <= y => s[x] >= s[y]
    BY DEF IsSorted
  <2>2. /\ q[i] = IF i <= n THEN s[i] ELSE IF i = n + 1 THEN k ELSE s[i - 1]
        /\ q[j] = IF j <= n THEN s[j] ELSE IF j = n + 1 THEN k ELSE s[j - 1]
    BY <1>5
  <2>3. n \in Nat /\ i \in Nat /\ j \in Nat
    BY <1>2
  <2>4. CASE j <= n
    BY <1>1, <1>2, <2>1, <2>2, <2>4
  <2>5. CASE j = n + 1
    BY <1>1, <1>2, <1>3, <2>2, <2>3, <2>5
  <2>6. CASE j > n + 1
    <3>1. j - 1 \in 1..Len(s) /\ j - 1 > n
      BY <1>1, <1>2, <1>5, <2>3, <2>6
    <3>2. s[j - 1] < k
      BY <1>1, <1>3, <2>3, <3>1, <1>2
    <3>3. CASE i <= n
      <4>1. i \in 1..Len(s) /\ i <= j - 1
        BY <1>1, <1>2, <2>3, <2>6, <3>3
      <4>2. q[i] = s[i] /\ q[j] = s[j - 1]
        BY <1>2, <2>2, <2>3, <2>6, <3>3
      <4> QED
        BY <2>1, <3>1, <4>1, <4>2
    <3>4. CASE i = n + 1
      BY <1>1, <2>2, <2>3, <2>6, <3>1, <3>2, <3>4
    <3>5. CASE i > n + 1
      <4>1. i - 1 \in 1..Len(s) /\ i - 1 <= j - 1
        BY <1>1, <1>2, <1>5, <2>3, <3>5
      <4>2. q[i] = s[i - 1] /\ q[j] = s[j - 1]
        BY <1>2, <2>2, <2>3, <2>6, <3>5
      <4> QED
        BY <2>1, <3>1, <4>1, <4>2
    <3> QED
      BY <2>3, <3>3, <3>4, <3>5
  <2> QED
    BY <2>3, <2>4, <2>5, <2>6
<1>7. InsertKey(s, k) = q
  BY DEF InsertKey, q, p, r, n, S
<1> QED
  BY <1>5, <1>6, <1>7

\* What is kept of a vector is its front; of a sorted one, every valid key.
LEMMA KeepFront ==
    ASSUME NEW s \in Seq(Nat), now \in Nat
    PROVE  /\ Keep(s) \in Seq(Nat) /\ Len(Keep(s)) <= Len(s)
           /\ \A i \in 1..Len(Keep(s)) : Keep(s)[i] = s[i] /\ Keep(s)[i] >= now
           /\ IsSorted(s) => \A i \in 1..Len(s) : s[i] >= now => i <= Len(Keep(s))
<1> DEFINE old == {j \in 1..Len(s) : s[j] < now}
<1>1. Len(s) \in Nat /\ \A j \in 1..Len(s) : s[j] \in Nat
  OBVIOUS
<1>2. CASE old = {}
  <2>1. Keep(s) = s
    BY <1>2 DEF Keep
  <2> QED
    BY <1>1, <1>2, <2>1
<1>3. CASE old # {}
  <2> DEFINE f == CHOOSE j \in old : \A k \in old : j <= k
  <2>1. f \in old /\ \A k \in old : f <= k
    <3>1. \E j \in old : \A k \in old : j <= k
      <4>1. old \in SUBSET Nat
        BY <1>1
      <4> HIDE DEF old
      <4> QED
        BY <1>3, <4>1, LeastNumber
    <3> QED
      BY <3>1
  <2>2. Keep(s) = SubSeq(s, 1, f - 1)
    BY <1>3 DEF Keep
  <2> HIDE DEF f
  <2>3. f \in 1..Len(s) /\ s[f] < now /\ \A i \in 1..(f - 1) : s[i] >= now
    BY <1>1, <2>1
  <2>4. /\ Keep(s) \in Seq(Nat) /\ Len(Keep(s)) = f - 1
        /\ \A i \in 1..(f - 1) : Keep(s)[i] = s[i]
    BY <1>1, <2>2, <2>3
  <2>5. IsSorted(s) => \A i \in 1..Len(s) : s[i] >= now => i <= f - 1
    BY <1>1, <2>3 DEF IsSorted
  <2> QED
    BY <1>1, <2>3, <2>4, <2>5
<1> QED
  BY <1>2, <1>3

\* The iterator goes to the next entry, or to end() behind them all.
LEMMA AfterNext ==
    ASSUME TypeOK, NEW a \in 0..N
    PROVE  /\ After(a) \in Addresses \cup {End} /\ After(a) > a
           /\ After(a) \in Addresses => entry[After(a)]
           /\ \A x \in Addresses : entry[x] /\ x > a => After(a) <= x
<1> DEFINE later == {x \in Addresses : entry[x] /\ x > a}
<1>1. N \in Nat
  BY StoreAssumption
<1>2. CASE later = {}
  BY <1>1, <1>2 DEF After, End, Addresses
<1>3. CASE later # {}
  <2>1. \E x \in later : \A y \in later : x <= y
    <3>1. later \in SUBSET Nat
      BY <1>1 DEF Addresses
    <3> QED
      BY <1>3, <3>1, LeastNumber
  <2>2. After(a) \in later /\ \A y \in later : After(a) <= y
    BY <1>3, <2>1 DEF After
  <2> QED
    BY <1>1, <2>2 DEF Addresses
<1> QED
  BY <1>2, <1>3

-----------------------------------------------------------------------------
(***************************************************************************)
(* The invariant.                                                          *)
(***************************************************************************)

\* At the beginning there is nothing.
LEMMA InitEstablishes ==
    Init => IInv
<1> SUFFICES ASSUME Init PROVE IInv
  OBVIOUS
<1>1. TypeOK
  <2>1. keys \in [Addresses -> Seq(Nat)]
    BY DEF Init
  <2>2. entry \in [Addresses -> BOOLEAN] /\ stuck \in BOOLEAN
    BY DEF Init
  <2>3. now \in 0..MaxTime /\ iter \in 0..End /\ before \subseteq Addresses
    BY StoreAssumption DEF Init, End
  <2> QED
    BY <2>1, <2>2, <2>3 DEF TypeOK
<1>2. \A a \in Addresses : keys[a] = <<>> /\ ~ entry[a]
  BY DEF Init
<1>3. SortedInv
  <2>1. IsSorted(<<>>)
    BY DEF IsSorted
  <2> QED
    BY <1>2, <2>1 DEF SortedInv
<1>4. EntryInv /\ PurgeInv
  BY <1>2 DEF EntryInv, PurgeInv, Init
<1> QED
  BY <1>1, <1>3, <1>4 DEF IInv

\* add_RSA_pubkey.
LEMMA AddKeyKeeps ==
    ASSUME IInv, NEW a \in Addresses, AddKey(a)
    PROVE  IInv'
<1> DEFINE q == InsertKey(keys[a], now + Life)
<1>1. /\ keys \in [Addresses -> Seq(Nat)] /\ entry \in [Addresses -> BOOLEAN]
      /\ keys[a] \in Seq(Nat) /\ IsSorted(keys[a]) /\ now + Life \in Nat /\ now \in Nat
  BY StoreAssumption DEF IInv, TypeOK, SortedInv
<1>2. q \in Seq(Nat) /\ Len(q) = Len(keys[a]) + 1 /\ IsSorted(q)
  BY <1>1, InsertKeySorted
<1>3. /\ keys' = [keys EXCEPT ![a] = q] /\ entry' = [entry EXCEPT ![a] = TRUE]
      /\ UNCHANGED <<now, iter, stuck, before>> /\ iter = 0
  BY DEF AddKey, Resting
<1> HIDE DEF q
<1>4. q # <<>>
  BY <1>1, <1>2
<1>5. TypeOK'
  BY <1>1, <1>2, <1>3 DEF IInv, TypeOK
<1>6. SortedInv' /\ EntryInv'
  BY <1>1, <1>2, <1>3, <1>4 DEF IInv, SortedInv, EntryInv
<1>7. PurgeInv'
  BY <1>3 DEF PurgeInv
<1> QED
  BY <1>5, <1>6, <1>7 DEF IInv

\* The clock moves, and a purge begins or ends.
LEMMA AroundPurgeKeeps ==
    ASSUME IInv, ClockMoves \/ PurgeBegin \/ PurgeEnd
    PROVE  IInv'
<1> USE DEF IInv
<1>1. N \in Nat
  BY StoreAssumption
<1>2. CASE ClockMoves
  BY <1>2, StoreAssumption DEF ClockMoves, Resting, TypeOK, SortedInv, EntryInv, PurgeInv
<1>3. CASE PurgeBegin
  <2>1. /\ UNCHANGED <<keys, entry, now, stuck>> /\ iter' = After(0)
        /\ before' = {a \in Addresses : entry[a]}
    BY <1>3 DEF PurgeBegin
  <2>2. /\ After(0) \in Addresses \cup {End}
        /\ After(0) \in Addresses => entry[After(0)]
        /\ \A x \in Addresses : entry[x] => After(0) <= x
    BY <1>1, AfterNext DEF Addresses
  <2>3. TypeOK' /\ SortedInv' /\ EntryInv'
    BY <1>1, <2>1, <2>2 DEF TypeOK, SortedInv, EntryInv, End, Addresses
  <2>4. PurgeInv'
    <3>1. ASSUME NEW a \in Addresses, a < iter'
          PROVE  Done(a)'
      <4>1. keys[a] = <<>>
        BY <1>1, <2>1, <2>2, <3>1 DEF EntryInv, Addresses, TypeOK, End
      <4> QED
        BY <2>1, <4>1 DEF Done
    <3>2. \A a \in Addresses : a \in before' => entry'[a]
      BY <2>1
    <3> QED
      BY <2>1, <2>2, <3>1, <3>2 DEF PurgeInv
  <2> QED
    BY <2>3, <2>4
<1>4. CASE PurgeEnd
  BY <1>1, <1>4 DEF PurgeEnd, TypeOK, SortedInv, EntryInv, PurgeInv, End
<1> QED
  BY <1>2, <1>3, <1>4

\* What a step of the loop does to the entry at the iterator: its vector keeps
\* its front, and its entry goes when nothing is left.
Trims ==
    /\ iter \in Addresses /\ ~ stuck
    /\ keys' = [keys EXCEPT ![iter] = Keep(keys[iter])]
    /\ entry' = [entry EXCEPT ![iter] = Keep(keys[iter]) # <<>>]
    /\ UNCHANGED <<now, before>>

\* Both steps of the loop do that.
LEMMA LoopTrims ==
    ASSUME IInv, PurgeEntry \/ EraseEntry
    PROVE  Trims
<1>1. CASE PurgeEntry
  <2>1. entry[iter] = TRUE /\ entry \in [Addresses -> BOOLEAN] /\ iter \in Addresses
    BY <1>1, StoreAssumption DEF PurgeEntry, IInv, PurgeInv, TypeOK, Addresses
  <2>2. entry = [entry EXCEPT ![iter] = TRUE]
    BY <2>1
  <2> QED
    BY <1>1, <2>2 DEF PurgeEntry, Trims
<1>2. CASE EraseEntry
  BY <1>2 DEF EraseEntry, Trims
<1> QED
  BY <1>1, <1>2

\* A step of the loop keeps the types and the order, finishes the entry at the
\* iterator, and undoes nothing.
LEMMA TrimsKeep ==
    ASSUME IInv, Trims
    PROVE  /\ keys' \in [Addresses -> Seq(Nat)] /\ entry' \in [Addresses -> BOOLEAN]
           /\ SortedInv' /\ EntryInv'
           /\ \A a \in Addresses : entry'[a] => a \in before'
           /\ \A a \in Addresses : a # iter => entry'[a] = entry[a]
           /\ \A a \in Addresses : Done(a) \/ a = iter => Done(a)'
<1> USE DEF IInv
<1> DEFINE q == Keep(keys[iter])
<1>1. /\ keys \in [Addresses -> Seq(Nat)] /\ entry \in [Addresses -> BOOLEAN]
      /\ iter \in Addresses /\ keys[iter] \in Seq(Nat) /\ now \in Nat /\ IsSorted(keys[iter])
      /\ iter # 0
  BY StoreAssumption DEF TypeOK, Trims, SortedInv, Addresses
<1>2. /\ q \in Seq(Nat) /\ Len(q) <= Len(keys[iter])
      /\ \A i \in 1..Len(q) : q[i] = keys[iter][i] /\ q[i] >= now
  BY <1>1, KeepFront
<1>3. /\ keys' = [keys EXCEPT ![iter] = q] /\ entry' = [entry EXCEPT ![iter] = q # <<>>]
      /\ UNCHANGED <<now, before>>
  BY DEF Trims
<1> HIDE DEF q
<1>4. keys' \in [Addresses -> Seq(Nat)] /\ entry' \in [Addresses -> BOOLEAN]
  BY <1>1, <1>2, <1>3
<1>5. IsSorted(q)
  <2>1. \A i \in 1..Len(q) : i \in 1..Len(keys[iter]) /\ q[i] = keys[iter][i]
    BY <1>1, <1>2
  <2> QED
    BY <1>1, <2>1 DEF IsSorted
<1>6. SortedInv' /\ EntryInv'
  BY <1>1, <1>3, <1>5 DEF SortedInv, EntryInv
<1>7. \A a \in Addresses : entry'[a] => entry[a]
  <2>1. q # <<>> => entry[iter]
    <3>1. ~ stuck
      BY DEF Trims
    <3> QED
      BY <1>1, <3>1 DEF PurgeInv
  <2> QED
    BY <1>1, <1>3, <2>1
<1>8. ASSUME NEW a \in Addresses, a = iter
      PROVE  Done(a)'
  <2>1. keys'[a] = q /\ now' = now
    BY <1>1, <1>3, <1>8
  <2>2. \A i \in 1..Len(q) : q[i] \in Nat /\ ~ (q[i] < now)
    BY <1>1, <1>2
  <2>3. ~ \E i \in 1..Len(keys'[a]) : keys'[a][i] < now'
    BY <2>1, <2>2
  <2> QED
    BY <2>3 DEF Done
<1>9. ASSUME NEW a \in Addresses, Done(a), a # iter
      PROVE  Done(a)'
  <2>1. keys'[a] = keys[a] /\ now' = now /\ before' = before
    BY <1>1, <1>3, <1>9
  <2>2. \A b \in before : ~ entry[b] => ~ entry'[b]
    BY <1>7 DEF TypeOK
  <2> QED
    BY <1>9, <2>1, <2>2 DEF Done
<1>10. \A a \in Addresses : a # iter => entry'[a] = entry[a]
  BY <1>1, <1>3
<1>11. \A a \in Addresses : entry'[a] => a \in before'
  BY <1>1, <1>3, <1>7 DEF PurgeInv
<1> QED
  BY <1>4, <1>6, <1>8, <1>9, <1>10, <1>11

\* A step of the loop: the entry at the iterator is finished, and what is passed
\* over behind an entry that was erased is what PurgeMissesOnlyNext allows.
LEMMA LoopKeeps ==
    ASSUME IInv, PurgeEntry \/ EraseEntry
    PROVE  IInv'
<1>0. N \in Nat /\ iter \in Addresses /\ iter # 0 /\ iter \in 0..N /\ ~ stuck /\ TypeOK
  BY StoreAssumption DEF PurgeEntry, EraseEntry, Addresses, IInv
<1>1. Trims
  BY LoopTrims
<1>2. /\ keys' \in [Addresses -> Seq(Nat)] /\ entry' \in [Addresses -> BOOLEAN]
      /\ SortedInv' /\ EntryInv'
      /\ \A a \in Addresses : entry'[a] => a \in before'
      /\ \A a \in Addresses : a # iter => entry'[a] = entry[a]
      /\ \A a \in Addresses : Done(a) \/ a = iter => Done(a)'
  BY <1>1, TrimsKeep
<1>3. /\ \A a \in Addresses : entry[a] => a \in before
      /\ entry[iter] /\ entry \in [Addresses -> BOOLEAN] /\ before \subseteq Addresses
      /\ \/ \A a \in Addresses : Done(a)
         \/ \A a \in Addresses : /\ a < iter => Done(a)
                                 /\ a >= iter /\ a \in before => entry[a]
  BY <1>0 DEF IInv, PurgeInv, TypeOK
<1>4. UNCHANGED <<now, before>> /\ now \in 0..MaxTime
  BY <1>0, <1>1 DEF Trims, TypeOK
<1>5. ASSUME NEW a \in Addresses, ~ entry'[a]
      PROVE  Done(a)'
  <2>1. keys'[a] = <<>>
    BY <1>2, <1>5 DEF EntryInv
  <2> QED
    BY <2>1 DEF Done
<1>6. /\ After(iter) \in Addresses \cup {End} /\ After(iter) > iter
      /\ After(iter) \in Addresses => entry[After(iter)]
      /\ \A x \in Addresses : entry[x] /\ x > iter => After(iter) <= x
  BY <1>0, AfterNext
<1>7. ASSUME \A a \in Addresses : a < iter' => Done(a)',
             \A a \in Addresses : a > iter => entry'[a] = entry[a],
             iter' \in Addresses \cup {End}, iter' > iter, iter' \in Addresses => entry[iter'],
             stuck' = stuck
      PROVE  IInv'
  <2>1. TypeOK'
    BY <1>0, <1>2, <1>3, <1>4, <1>7 DEF TypeOK, End, Addresses
  <2>2. PurgeInv'
    <3>1. iter' \in Addresses => entry'[iter']
      BY <1>0, <1>2, <1>7 DEF Addresses
    <3>2. CASE \A a \in Addresses : Done(a)
      BY <1>2, <3>1, <3>2 DEF PurgeInv
    <3>3. CASE \A a \in Addresses : a >= iter /\ a \in before => entry[a]
      <4>1. \A a \in Addresses : a >= iter' /\ a \in before' => entry'[a]
        BY <1>0, <1>4, <1>7, <3>3 DEF Addresses, End
      <4> QED
        BY <1>2, <1>7, <3>1, <4>1 DEF PurgeInv
    <3> QED
      BY <1>3, <3>2, <3>3
  <2> QED
    BY <1>2, <2>1, <2>2 DEF IInv
<1>8. ASSUME \A a \in Addresses : a < iter => Done(a)
      PROVE  \A a \in Addresses : a < After(iter) => Done(a)'
  <2> SUFFICES ASSUME NEW a \in Addresses, a < After(iter), ~ Done(a), a # iter
               PROVE  Done(a)'
    BY <1>2
  <2>1. a > iter /\ ~ entry[a]
    BY <1>0, <1>3, <1>6, <1>8 DEF Addresses, End
  <2> QED
    BY <1>2, <1>5, <2>1
<1>9. CASE PurgeEntry
  <2>1. iter' = After(iter) /\ stuck' = stuck
    BY <1>9 DEF PurgeEntry
  <2>2. \A a \in Addresses : a < iter' => Done(a)'
    BY <1>2, <1>3, <1>8, <2>1
  <2>3. \A a \in Addresses : a > iter => entry'[a] = entry[a]
    BY <1>0, <1>2 DEF Addresses
  <2> QED
    BY <1>6, <1>7, <2>1, <2>2, <2>3
<1>10. CASE EraseEntry /\ After(iter) # End
  <2> DEFINE n == After(iter)
  <2>1. iter' = After(n) /\ stuck' = stuck /\ ~ entry'[iter]
    BY <1>0, <1>3, <1>10 DEF EraseEntry
  <2>2. n \in Addresses /\ n \in 0..N
    BY <1>0, <1>6, <1>10 DEF Addresses
  <2> HIDE DEF n
  <2>3. /\ After(n) \in Addresses \cup {End} /\ After(n) > n
        /\ After(n) \in Addresses => entry[After(n)]
        /\ \A x \in Addresses : entry[x] /\ x > n => After(n) <= x
    BY <1>0, <2>2, AfterNext
  <2>4. \A a \in Addresses : a < iter' => Done(a)'
    <3>1. CASE \A a \in Addresses : Done(a)
      BY <1>2, <3>1
    <3>2. CASE \A a \in Addresses : /\ a < iter => Done(a)
                                    /\ a >= iter /\ a \in before => entry[a]
      <4> SUFFICES ASSUME NEW a \in Addresses, a < iter'
                   PROVE  Done(a)'
        OBVIOUS
      <4>1. CASE a < n
        BY <1>8, <3>2, <4>1 DEF n
      <4>2. CASE a = n
        <5>1. iter \in before' /\ iter < a
          BY <1>0, <1>3, <1>4, <1>6, <4>2 DEF n
        <5>2. \A c \in before' : ~ (iter < c /\ c < a)
          BY <1>0, <1>3, <1>4, <1>6, <2>2, <3>2, <4>2 DEF n, Addresses
        <5> QED
          BY <2>1, <5>1, <5>2 DEF Done
      <4>3. CASE a > n
        <5>1. ~ entry[a]
          BY <1>0, <2>1, <2>2, <2>3, <4>3 DEF Addresses, End
        <5>2. a # iter
          BY <1>0, <1>6, <2>2, <4>3 DEF n, Addresses
        <5> QED
          BY <1>2, <1>5, <5>1, <5>2
      <4> QED
        BY <1>0, <2>2, <4>1, <4>2, <4>3 DEF Addresses
    <3> QED
      BY <1>3, <3>1, <3>2
  <2>5. \A a \in Addresses : a > iter => entry'[a] = entry[a]
    BY <1>0, <1>2 DEF Addresses
  <2>6. iter' > iter
    BY <1>0, <1>6, <2>1, <2>2, <2>3 DEF n, Addresses, End
  <2> QED
    BY <1>7, <2>1, <2>3, <2>4, <2>5, <2>6
<1>11. CASE EraseEntry /\ After(iter) = End
  <2>1. \A a \in Addresses : Done(a)'
    <3>1. \A a \in Addresses : a < End
      BY <1>0 DEF Addresses, End
    <3> QED
      BY <1>2, <1>3, <1>8, <1>11, <3>1
  <2> DEFINE left == {x \in Addresses : entry'[x]}
  <2>2. \/ left = {} /\ stuck' = TRUE /\ iter' = iter
        \/ iter' \in left /\ stuck' = stuck
    BY <1>11 DEF EraseEntry
  <2>3. /\ iter' \in Addresses /\ stuck' \in BOOLEAN
        /\ ~ stuck' => entry'[iter']
    BY <1>0, <2>2 DEF TypeOK
  <2>4. TypeOK'
    BY <1>0, <1>2, <1>3, <1>4, <2>3 DEF TypeOK, End, Addresses
  <2>5. PurgeInv'
    BY <1>2, <2>1, <2>3 DEF PurgeInv
  <2> QED
    BY <1>2, <2>4, <2>5 DEF IInv
<1> QED
  BY <1>9, <1>10, <1>11

\* Every step keeps the invariant.
LEMMA NextKeeps ==
    IInv /\ [Next]_vars => IInv'
<1> SUFFICES ASSUME IInv, [Next]_vars PROVE IInv'
  OBVIOUS
<1>1. CASE UNCHANGED vars
  BY <1>1 DEF vars, IInv, TypeOK, SortedInv, EntryInv, PurgeInv, Done
<1> QED
  BY <1>1, AddKeyKeeps, AroundPurgeKeeps, LoopKeeps DEF Next

\* The inductive invariant, in every reachable state.
THEOREM Invariant ==
    Spec => []IInv
  BY InitEstablishes, NextKeeps, PTL DEF Spec

\* The types of the store's variables.
THEOREM TypeCorrect ==
    Spec => []TypeOK
  BY Invariant, PTL DEF IInv

\* find_RSA_pubkey never takes the front of an empty vector, and the front is
\* the key that is valid longest.
THEOREM FindIsNewest ==
    Spec => []FindsNewest
<1>1. IInv => FindsNewest
  <2> SUFFICES ASSUME IInv, NEW a \in Addresses
               PROVE  /\ entry[a] <=> keys[a] # <<>>
                      /\ \A k \in 1..Len(keys[a]) : keys[a][k] <= FindKey(a)
    BY DEF FindsNewest
  <2>1. entry[a] <=> keys[a] # <<>>
    BY DEF IInv, EntryInv
  <2>2. keys[a] \in Seq(Nat) /\ IsSorted(keys[a])
    BY DEF IInv, TypeOK, SortedInv
  <2>3. ASSUME NEW k \in 1..Len(keys[a])
        PROVE  keys[a][k] <= FindKey(a)
    <3>1. keys[a] # <<>> /\ 1 \in 1..Len(keys[a]) /\ 1 <= k
      BY <2>2
    <3>2. FindKey(a) = keys[a][1]
      BY <2>1, <2>2, <3>1 DEF FindKey
    <3>3. keys[a][1] >= keys[a][k]
      BY <2>2, <3>1 DEF IsSorted
    <3>4. keys[a][1] \in Nat /\ keys[a][k] \in Nat
      BY <2>2, <3>1
    <3> QED
      BY <3>2, <3>3, <3>4
  <2> QED
    BY <2>1, <2>3
<1> QED
  BY <1>1, Invariant, PTL

\* A step of a purge keeps every key that is still valid, in its place.
LEMMA StepKeepsValid ==
    ASSUME IInv, [Next]_vars, NEW a \in Addresses, NEW k \in 1..MaxKeys,
           k <= Len(keys[a]), keys[a][k] >= now, iter # 0
    PROVE  k <= Len(keys'[a]) /\ keys'[a][k] = keys[a][k]
<1>1. CASE UNCHANGED keys
  BY <1>1
<1>2. CASE PurgeEntry \/ EraseEntry
  <2>1. /\ Trims /\ keys \in [Addresses -> Seq(Nat)] /\ keys[a] \in Seq(Nat) /\ now \in Nat
        /\ IsSorted(keys[a]) /\ k \in 1..Len(keys[a])
    BY <1>2, LoopTrims, StoreAssumption DEF IInv, TypeOK, SortedInv
  <2>2. CASE a = iter
    <3>1. keys'[a] = Keep(keys[a])
      BY <2>1, <2>2 DEF Trims
    <3> QED
      BY <2>1, <3>1, KeepFront
  <2>3. CASE a # iter
    BY <2>1, <2>3 DEF Trims
  <2> QED
    BY <2>2, <2>3
<1> QED
  BY <1>1, <1>2 DEF Next, AddKey, Resting, ClockMoves, PurgeBegin, PurgeEnd, vars

\* purge_RSA_pubkey drops no valid key, although it drops all keys behind the
\* first expired one without looking: the vector is sorted.
THEOREM PurgeDropsNoValid ==
    Spec => PurgeKeepsValid
<1>1. IInv /\ [Next]_vars =>
        [\A a \in Addresses, k \in 1..MaxKeys :
            k <= Len(keys[a]) /\ keys[a][k] >= now /\ iter # 0
              => k <= Len(keys'[a]) /\ keys'[a][k] = keys[a][k]]_vars
  BY StepKeepsValid
<1> QED
  BY <1>1, Invariant, PTL DEF Spec, PurgeKeepsValid

\* What survives a purge although its time is over is behind an entry that the
\* purge erased.
THEOREM PurgeMissesNext ==
    Spec => PurgeMissesOnlyNext
<1>1. ASSUME IInv, PurgeEnd, NEW a \in Addresses, NEW k \in 1..MaxKeys,
             k <= Len(keys[a]), keys[a][k] < now
      PROVE  \E b \in before : /\ b < a /\ ~ entry[b]
                               /\ \A c \in before : ~ (b < c /\ c < a)
  <2>1. N \in Nat /\ iter = N + 1 /\ a < iter /\ iter # 0
    BY <1>1, StoreAssumption DEF PurgeEnd, End, Addresses
  <2>2. Done(a)
    BY <1>1, <2>1 DEF IInv, PurgeInv
  <2>3. k \in 1..Len(keys[a])
    BY <1>1, StoreAssumption DEF IInv, TypeOK
  <2> QED
    BY <1>1, <2>2, <2>3 DEF Done
<1>2. IInv /\ [Next]_vars =>
        [PurgeEnd => \A a \in Addresses, k \in 1..MaxKeys :
            k <= Len(keys[a]) /\ keys[a][k] < now =>
                \E b \in before : /\ b < a /\ ~ entry[b]
                                  /\ \A c \in before : ~ (b < c /\ c < a)]_vars
  BY <1>1
<1> QED
  BY <1>2, Invariant, PTL DEF Spec, PurgeMissesOnlyNext
=============================================================================
