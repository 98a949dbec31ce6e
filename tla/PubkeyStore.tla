---------------------------- MODULE PubkeyStore -----------------------------
(***************************************************************************)
(* trusted_pubkey of avkernel_impl: a map from addresses, in their order,  *)
(* to the keys known for an address; add_RSA_pubkey, find_RSA_pubkey and   *)
(* purge_RSA_pubkey.  A key is its valid_until.                            *)
(*                                                                         *)
(* purge_RSA_pubkey runs from beginning to end in one handler.  Its loop   *)
(* is modelled entry by entry, nothing else happens meanwhile.             *)
(***************************************************************************)
EXTENDS Integers, Sequences, FiniteSets

CONSTANTS N,            \* the addresses are 1..N, in the order of the map
          Life,         \* the lifetime of a key (500 hours)
          MaxTime,      \* bound on the clock
          MaxKeys       \* bound on the keys of an address

ASSUME StoreAssumption ==
    N \in Nat /\ Life \in Nat \ {0} /\ MaxTime \in Nat /\ MaxKeys \in Nat

VARIABLES keys,         \* the keys of every address; <<>> when it is not in the map
          entry,        \* whether the address has an entry in the map
          now,          \* local_time
          iter,         \* where purge_RSA_pubkey is: 0 when it is not running
          stuck,        \* the increment of end() never returned
          before        \* history: the entries of the map when the last purge began

vars == <<keys, entry, now, iter, stuck, before>>

-----------------------------------------------------------------------------
Addresses == 1..N
End == N + 1            \* the iterator end() of the map

\* The iterator after position a.
After(a) ==
    LET later == {x \in Addresses : entry[x] /\ x > a}
    IN  IF later = {} THEN End ELSE CHOOSE x \in later : \A y \in later : x <= y

Init ==
    /\ keys = [a \in Addresses |-> <<>>]
    /\ entry = [a \in Addresses |-> FALSE]
    /\ now = 0 /\ iter = 0 /\ stuck = FALSE /\ before = {}

Resting == iter = 0 /\ ~ stuck

\* Mutant: the new key is put last, whatever its date.
InsertLast(s, k) == Append(s, k)

\* push_back and sort, the key that is valid longest first.
InsertKey(s, k) ==
    LET n == Cardinality({j \in 1..Len(s) : s[j] >= k})
    IN  SubSeq(s, 1, n) \o <<k>> \o SubSeq(s, n + 1, Len(s))

\* add_RSA_pubkey, with the lifetime both callers give it.
AddKey(a) ==
    /\ Resting /\ Len(keys[a]) < MaxKeys
    /\ keys' = [keys EXCEPT ![a] = InsertKey(@, now + Life)]
    /\ entry' = [entry EXCEPT ![a] = TRUE]
    /\ UNCHANGED <<now, iter, stuck, before>>

\* find_RSA_pubkey: the front of the vector; 0 for NULL.
FindKey(a) == IF entry[a] THEN Head(keys[a]) ELSE 0

\* Time goes by; local_time also goes back, when the clock or daylight saving does.
ClockMoves ==
    /\ Resting
    /\ now' \in {now + 1, now - 1} \cap 0..MaxTime
    /\ UNCHANGED <<keys, entry, iter, stuck, before>>

\* Mutant: the first entry is passed over.
PurgeBeginSecond ==
    /\ Resting
    /\ iter' = After(After(0))
    /\ before' = {a \in Addresses : entry[a]}
    /\ UNCHANGED <<keys, entry, now, stuck>>

\* timer2_tick calls purge_RSA_pubkey.
PurgeBegin ==
    /\ Resting
    /\ iter' = After(0)
    /\ before' = {a \in Addresses : entry[a]}
    /\ UNCHANGED <<keys, entry, now, stuck>>

\* Mutant: a key that expires now is dropped too early.
KeepLater(s) == SubSeq(s, 1, Cardinality({j \in 1..Len(s) : s[j] > now}))

\* The keys in front of the first one that has expired.
Keep(s) ==
    LET old == {j \in 1..Len(s) : s[j] < now}
    IN  IF old = {} THEN s ELSE SubSeq(s, 1, (CHOOSE j \in old : \A k \in old : j <= k) - 1)

\* Some key of the entry is still good: on to the next entry.
PurgeEntry ==
    /\ iter \in Addresses /\ ~ stuck
    /\ Keep(keys[iter]) # <<>>
    /\ keys' = [keys EXCEPT ![iter] = Keep(@)]
    /\ iter' = After(iter)
    /\ UNCHANGED <<entry, now, stuck, before>>

\* Mutant: the iterator is taken past end().
EraseEntryPastEnd ==
    /\ iter \in Addresses /\ ~ stuck
    /\ Keep(keys[iter]) = <<>>
    /\ keys' = [keys EXCEPT ![iter] = <<>>]
    /\ entry' = [entry EXCEPT ![iter] = FALSE]
    /\ iter' = After(iter) + 1
    /\ UNCHANGED <<now, stuck, before>>

\* None is: erase(iter++), and the loop increments the iterator once more.
\* From end() that is undefined: with the map of libstdc++ it never returns
\* when the map has become empty, and leads to one of its entries otherwise.
EraseEntry ==
    /\ iter \in Addresses /\ ~ stuck
    /\ Keep(keys[iter]) = <<>>
    /\ keys' = [keys EXCEPT ![iter] = <<>>]
    /\ entry' = [entry EXCEPT ![iter] = FALSE]
    /\ IF After(iter) # End
         THEN iter' = After(After(iter)) /\ UNCHANGED stuck
         ELSE LET left == {x \in Addresses : entry'[x]} IN
              IF left = {} THEN stuck' = TRUE /\ UNCHANGED iter
                           ELSE iter' \in left /\ UNCHANGED stuck
    /\ UNCHANGED <<now, before>>

\* The end of the loop.
PurgeEnd ==
    /\ iter = End
    /\ iter' = 0
    /\ UNCHANGED <<keys, entry, now, stuck, before>>

Next ==
    \/ \E a \in Addresses : AddKey(a)
    \/ ClockMoves
    \/ PurgeBegin
    \/ PurgeEntry
    \/ EraseEntry
    \/ PurgeEnd

Spec == Init /\ [][Next]_vars

-----------------------------------------------------------------------------
(***************************************************************************)
(* Properties.                                                             *)
(***************************************************************************)

TypeOK ==
    /\ keys \in [Addresses -> Seq(Nat)]
    /\ entry \in [Addresses -> BOOLEAN]
    /\ now \in 0..MaxTime /\ iter \in 0..End /\ stuck \in BOOLEAN
    /\ before \subseteq Addresses

\* find_RSA_pubkey never takes the front of an empty vector, whatever was
\* purged, and finds the key that is valid longest, although the clock may
\* have gone back between two calls of add_RSA_pubkey.
FindsNewest ==
    \A a \in Addresses :
        /\ entry[a] <=> keys[a] # <<>>
        /\ \A k \in 1..Len(keys[a]) : keys[a][k] <= FindKey(a)

\* purge_RSA_pubkey drops no key that is still valid, although it drops every
\* key behind the first expired one without looking at it.
PurgeKeepsValid ==
    [][\A a \in Addresses, k \in 1..MaxKeys :
          k <= Len(keys[a]) /\ keys[a][k] >= now /\ iter # 0
            => k <= Len(keys'[a]) /\ keys'[a][k] = keys[a][k]]_vars

\* What erase(iter++) costs in a loop that increments too: a key whose time was
\* over survives a purge only when the entry in front of it in the map was
\* erased by that purge.
PurgeMissesOnlyNext ==
    [][PurgeEnd => \A a \in Addresses, k \in 1..MaxKeys :
          k <= Len(keys[a]) /\ keys[a][k] < now =>
              \E b \in before : /\ b < a /\ ~ entry[b]
                                /\ \A c \in before : ~ (b < c /\ c < a)]_vars
=============================================================================
