--------------------------- MODULE NetworkProofs ---------------------------
(***************************************************************************)
(* Proofs about Network, for any nodes, certificates, sizes of keys,       *)
(* routes, sends and faults: cutting a text into chunks and encrypting     *)
(* them is undone by the receiver, packets are from whom they say they     *)
(* are, what is delivered is what was sent, and data leaves only for an    *)
(* address some certificate has.  In the second half: data that was sent   *)
(* is in one place for as long as nothing fails, if the routes lead to     *)
(* where they should.                                                      *)
(***************************************************************************)
EXTENDS Network, FiniteSetTheorems, SequenceTheorems, WellFoundedInduction, TLAPS

Below == {p \in Nat \X Nat : p[1] < p[2]}

\* A set of natural numbers that is not empty has a least one.
LEMMA LeastNumber ==
    ASSUME NEW T \in SUBSET Nat, T # {}
    PROVE  \E m \in T : \A n \in T : m <= n
<1>1. IsWellFoundedOn(Below, Nat)
  BY NatLessThanWellFounded, IsWellFoundedOnSubrelation DEF Below, OpToRel
<1>2. PICK m \in T : \A n \in T : ~ (<<n, m>> \in Below)
  BY <1>1, WFMin
<1>3. ASSUME NEW n \in T
      PROVE  m <= n
  <2>1. <<n, m>> \in Nat \X Nat /\ ~ (<<n, m>>[1] < <<n, m>>[2])
    BY <1>2 DEF Below
  <2> QED
    BY <2>1
<1> QED
  BY <1>3

\* Sequences of the same length and elements are the same.
LEMMA SameSeq ==
    ASSUME NEW S, NEW T, NEW s \in Seq(S), NEW t \in Seq(T), Len(s) = Len(t),
           \A k \in 1..Len(s) : s[k] = t[k]
    PROVE  s = t
OBVIOUS

-----------------------------------------------------------------------------
(***************************************************************************)
(* Chunks: cutting a text and putting it together again.                   *)
(***************************************************************************)

\* The number of chunks, and where they end.
LEMMA ChunkCount ==
    ASSUME NEW len \in Nat, NEW size \in Nat, size > 0
    PROVE  LET n == (len + size - 1) \div size IN
           /\ n \in Nat /\ n * size >= len /\ n * size < len + size
           /\ n = 0 <=> len = 0
<1> DEFINE a == len + size - 1
           n == a \div size
           r == a % size
<1>1. a \in Nat
  OBVIOUS
<1>2. n \in Int /\ a = (size * n) + r /\ r >= 0 /\ r < size
  BY <1>1
<1> HIDE DEF n, r
<1>3. n * size >= len /\ n * size < len + size
  <2> DEFINE z == n * size
  <2>1. z \in Int /\ a = z + r /\ r \in Int
    BY <1>1, <1>2 DEF r
  <2> HIDE DEF z
  <2>2. z >= len /\ z < len + size
    BY <1>2, <2>1
  <2> QED
    BY <2>2 DEF z
<1>4. n \in Nat
  <2> SUFFICES ASSUME n < 0 PROVE FALSE
    BY <1>2
  <2> DEFINE m == 0 - n - 1
  <2>1. m \in Nat /\ n * size = 0 - (m * size) - size
    BY <1>2
  <2>2. m * size \in Nat
    BY <2>1
  <2> QED
    BY <1>3, <2>1, <2>2
<1>5. n = 0 <=> len = 0
  BY <1>2, <1>3, <1>4
<1> QED
  BY <1>3, <1>4, <1>5 DEF n

\* What precedes the i-th chunk, and the chunk, are what precedes the next.
LEMMA Multiples ==
    ASSUME NEW n \in Nat, NEW size \in Nat, size > 0
    PROVE  \A i \in 1..n : /\ (i - 1) * size \in Nat /\ i * size \in Nat
                           /\ i * size = (i - 1) * size + size
                           /\ i < n => i * size <= (n - 1) * size
<1> SUFFICES ASSUME NEW i \in 1..n
             PROVE  /\ (i - 1) * size \in Nat /\ i * size \in Nat
                    /\ i * size = (i - 1) * size + size
                    /\ i < n => i * size <= (n - 1) * size
  OBVIOUS
<1>1. (i - 1) * size \in Nat /\ i * size \in Nat
  OBVIOUS
<1>2. i * size = (i - 1) * size + size
  OBVIOUS
<1>3. ASSUME i < n PROVE i * size <= (n - 1) * size
  <2>1. n - 1 - i \in Nat
    BY <1>3
  <2>2. (n - 1 - i) * size >= 0
    BY <2>1
  <2>3. (n - 1) * size = i * size + (n - 1 - i) * size
    OBVIOUS
  <2> QED
    BY <2>2, <2>3
<1> QED
  BY <1>1, <1>2, <1>3

\* FlattenSeq is the last value of a function that solves an equation.
Flat(ss) == CHOOSE f : f = [i \in 1..Len(ss) |-> IF i = 1 THEN ss[i] ELSE f[i - 1] \o ss[i]]
Solves(f, ss) == f = [i \in 1..Len(ss) |-> IF i = 1 THEN ss[i] ELSE f[i - 1] \o ss[i]]

\* A sequence is flattened as any function that solves the equation says.
LEMMA FlattenSolves ==
    ASSUME NEW ss, Len(ss) \in Nat, NEW g, Solves(g, ss)
    PROVE  Len(ss) # 0 => FlattenSeq(ss) = g[Len(ss)]
<1> SUFFICES ASSUME Len(ss) # 0 PROVE FlattenSeq(ss) = g[Len(ss)]
  OBVIOUS
<1> DEFINE f == Flat(ss)
           len == Len(ss)
<1>1. FlattenSeq(ss) = f[len]
  BY DEF FlattenSeq, Flat
<1>2. f = CHOOSE h : Solves(h, ss)
  BY DEF Flat, Solves
<1>3. Solves(f, ss)
  BY <1>2
<1> HIDE DEF f
<1>4. /\ \A i \in 1..len : f[i] = IF i = 1 THEN ss[i] ELSE f[i - 1] \o ss[i]
      /\ \A i \in 1..len : g[i] = IF i = 1 THEN ss[i] ELSE g[i - 1] \o ss[i]
  BY <1>3 DEF Solves
<1> DEFINE bad == {i \in 1..len : f[i] # g[i]}
<1>5. bad = {}
  <2> SUFFICES ASSUME bad # {} PROVE FALSE
    OBVIOUS
  <2>0. bad \in SUBSET Nat
    OBVIOUS
  <2>1. PICK i \in bad : \A j \in bad : i <= j
    <3> HIDE DEF bad
    <3> QED
      BY <2>0, LeastNumber
  <2>2. i \in 1..len /\ f[i] # g[i]
    OBVIOUS
  <2>3. i # 1
    BY <1>4, <2>2
  <2>4. i - 1 \in 1..len /\ i - 1 \notin bad
    BY <2>1, <2>2, <2>3
  <2>5. f[i - 1] = g[i - 1]
    BY <2>4
  <2> QED
    BY <1>4, <2>2, <2>3, <2>5
<1> QED
  BY <1>1, <1>5

\* The chunks of a text, put together, are the text.
LEMMA FlattenChunks ==
    ASSUME NEW T, NEW text \in Seq(T), NEW size \in Nat, size > 0
    PROVE  FlattenSeq(Chunks(text, size)) = text
<1> DEFINE len == Len(text)
           n == (len + size - 1) \div size
           ss == Chunks(text, size)
           End(i) == IF i * size < len THEN i * size ELSE len
           g == [i \in 1..n |-> SubSeq(text, 1, End(i))]
<1>1. len \in Nat
  OBVIOUS
<1>2. n \in Nat /\ n * size >= len /\ n * size < len + size /\ (n = 0 <=> len = 0)
  BY <1>1, ChunkCount
<1>3. ss = [c \in 1..n |-> SubSeq(text, (c - 1) * size + 1, End(c))]
  BY DEF Chunks
<1> HIDE DEF n
<1>4. Len(ss) = n
  BY <1>2, <1>3
<1> HIDE DEF ss
<1>5. CASE n = 0
  <2>1. text = <<>>
    BY <1>2, <1>5
  <2>2. ss = <<>>
    BY <1>3, <1>5
  <2>3. FlattenSeq(ss) = ss
    BY <1>4, <1>5 DEF FlattenSeq
  <2> QED
    BY <2>1, <2>2, <2>3 DEF ss
<1>6. CASE n # 0
  <2>1. \A i \in 1..n : /\ (i - 1) * size \in Nat /\ i * size \in Nat
                        /\ i * size = (i - 1) * size + size
                        /\ i < n => i * size <= (n - 1) * size
    BY <1>2, Multiples
  <2>2. n * size = (n - 1) * size + size
    BY <1>2, <1>6, <2>1
  <2>3. ASSUME NEW i \in 1..n
        PROVE  /\ i = 1 => g[i] = ss[i]
               /\ i # 1 => g[i] = g[i - 1] \o ss[i]
    <3> DEFINE x == (i - 1) * size
               y == End(i)
    <3>1. x \in Nat /\ y \in Nat /\ x <= y /\ y <= len /\ (i = 1 => x = 0)
      <4>1. i * size = x + size /\ x \in Nat /\ i * size \in Nat
        BY <2>1
      <4>2. x <= len
        <5>1. CASE i < n
          BY <1>1, <1>2, <2>1, <2>2, <4>1, <5>1
        <5>2. CASE i = n
          BY <1>1, <1>2, <2>2, <5>2
        <5> QED
          BY <1>2, <5>1, <5>2
      <4>3. i = 1 => x = 0
        OBVIOUS
      <4> QED
        BY <1>1, <4>1, <4>2, <4>3
    <3>2. ss[i] = SubSeq(text, x + 1, y) /\ g[i] = SubSeq(text, 1, y)
      BY <1>3
    <3>3. i # 1 => g[i - 1] = SubSeq(text, 1, x)
      <4> SUFFICES ASSUME i # 1 PROVE g[i - 1] = SubSeq(text, 1, x)
        OBVIOUS
      <4>1. i - 1 \in 1..n
        BY <1>2
      <4>2. End(i - 1) = x
        BY <1>1, <3>1
      <4> QED
        BY <4>1, <4>2
    <3> HIDE DEF g, x, y
    <3>4. SubSeq(text, 1, y) = SubSeq(text, 1, x) \o SubSeq(text, x + 1, y)
      BY <1>1, <3>1
    <3>5. i = 1 => x + 1 = 1
      BY <3>1
    <3> QED
      BY <3>2, <3>3, <3>4, <3>5
  <2>4. Solves(g, ss)
    BY <1>4, <2>3 DEF Solves
  <2>5. FlattenSeq(ss) = g[n]
    BY <1>2, <1>4, <1>6, <2>4, FlattenSolves
  <2>6. g[n] = SubSeq(text, 1, len)
    BY <1>1, <1>2, <1>6
  <2>7. SubSeq(text, 1, len) = text
    BY <1>1
  <2> QED
    BY <2>5, <2>6, <2>7 DEF ss
<1> QED
  BY <1>5, <1>6

\* A number behind c - 1 full blocks, in the next block.
LEMMA DivOfBlock ==
    ASSUME NEW size \in Nat, NEW b \in Nat, NEW i \in Nat, i < size
    PROVE  (b * size + i) \div size = b /\ (b * size + i) % size = i
<1> DEFINE a == b * size + i
           q == a \div size
           r == a % size
<1>1. a \in Nat /\ size > 0
  OBVIOUS
<1>2. q \in Int /\ a = (size * q) + r /\ r >= 0 /\ r < size /\ r \in Int
  BY <1>1
<1> HIDE DEF q, r
<1>3. (q - b) * size = i - r
  <2>1. (q - b) * size = size * q - b * size
    BY <1>2
  <2> QED
    BY <1>2, <2>1
<1>4. q - b = 0
  <2> DEFINE d == q - b
  <2>1. d \in Int /\ d * size = i - r
    BY <1>2, <1>3
  <2> HIDE DEF d
  <2>2. ASSUME d >= 1 PROVE FALSE
    <3>1. (d - 1) * size >= 0
      BY <2>1, <2>2
    <3>2. d * size = (d - 1) * size + size
      BY <2>1
    <3> QED
      BY <1>2, <2>1, <3>1, <3>2
  <2>3. ASSUME d <= 0 - 1 PROVE FALSE
    <3>1. (0 - d - 1) * size >= 0
      BY <2>1, <2>3
    <3>2. d * size = 0 - ((0 - d - 1) * size) - size
      BY <2>1
    <3> QED
      BY <1>2, <2>1, <3>1, <3>2
  <2> QED
    BY <2>1, <2>2, <2>3 DEF d
<1>5. q = b
  BY <1>2, <1>4
<1>6. r = i
  BY <1>2, <1>3, <1>4
<1> QED
  BY <1>5, <1>6 DEF q, r

\* Blocks of one size, put together and cut by that size, are the blocks again.
LEMMA ChunksOfBlocks ==
    ASSUME NEW T, NEW n \in Nat, NEW size \in Nat, size > 0, NEW bs \in [1..n -> Seq(T)],
           \A c \in 1..n : Len(bs[c]) = size
    PROVE  Chunks(FlattenSeq(bs), size) = bs /\ FlattenSeq(bs) \in Seq(T)
<1> DEFINE Blk(j) == (j - 1) \div size + 1
           Off(j) == ((j - 1) % size) + 1
           all == n * size
           R == [j \in 1..all |-> bs[Blk(j)][Off(j)]]
<1>1. all \in Nat
  OBVIOUS
<1>2. ASSUME NEW c \in 1..n, NEW i \in 1..size
      PROVE  /\ (c - 1) * size + i \in 1..all
             /\ R[(c - 1) * size + i] = bs[c][i] /\ bs[c][i] \in T
  <2> DEFINE b == c - 1
             z == b * size
  <2>1. b \in Nat /\ i - 1 \in Nat /\ i - 1 < size
    OBVIOUS
  <2>2. (z + (i - 1)) \div size = b /\ (z + (i - 1)) % size = i - 1
    BY <2>1, DivOfBlock
  <2>3. z \in Nat /\ z + size <= all
    <3>1. c * size = z + size /\ z \in Nat
      BY <2>1
    <3>2. c < n => c * size <= (n - 1) * size
      BY Multiples
    <3>3. (n - 1) * size <= all
      OBVIOUS
    <3>4. c * size \in Int /\ (n - 1) * size \in Int /\ (c = n => c * size = all)
      OBVIOUS
    <3> DEFINE w == c * size
               y == (n - 1) * size
    <3>5. c < n \/ c = n
      OBVIOUS
    <3> HIDE DEF z, all, w, y
    <3>6. w = z + size /\ (c < n => w <= y) /\ y <= all /\ w \in Int /\ y \in Int
          /\ (c = n => w = all) /\ z \in Nat
      BY <3>1, <3>2, <3>3, <3>4 DEF w, y
    <3> QED
      BY <1>1, <3>5, <3>6
  <2> HIDE DEF z, all
  <2>4. z + i \in 1..all /\ (z + i) - 1 = z + (i - 1)
    BY <1>1, <2>3
  <2>5. R[z + i] = bs[Blk(z + i)][Off(z + i)]
    BY <2>4
  <2>6. Blk(z + i) = c /\ Off(z + i) = i
    BY <2>2, <2>4
  <2>7. bs[c][i] \in T
    <3>1. bs[c] \in Seq(T) /\ Len(bs[c]) = size
      OBVIOUS
    <3> QED
      BY <3>1
  <2> QED
    BY <2>4, <2>5, <2>6, <2>7 DEF z
<1>3. \A j \in 1..all : R[j] \in T
  <2> SUFFICES ASSUME NEW j \in 1..all PROVE R[j] \in T
    OBVIOUS
  <2> DEFINE q == (j - 1) \div size
             r == (j - 1) % size
  <2>1. q \in Int /\ j - 1 = (size * q) + r /\ r >= 0 /\ r < size /\ r \in Int
    BY <1>1
  <2> HIDE DEF q, r
  <2>2. q >= 0
    <3> SUFFICES ASSUME 0 - q - 1 >= 0 PROVE FALSE
      BY <2>1
    <3>1. (0 - q - 1) * size >= 0
      BY <2>1
    <3>2. size * q = 0 - ((0 - q - 1) * size) - size
      BY <2>1
    <3> QED
      BY <1>1, <2>1, <3>1, <3>2
  <2>3. q < n
    <3> SUFFICES ASSUME q - n >= 0 PROVE FALSE
      BY <2>1
    <3>1. (q - n) * size >= 0
      BY <2>1
    <3>2. size * q = (q - n) * size + all
      BY <2>1
    <3>3. size * q \in Int
      BY <2>1
    <3> HIDE DEF all
    <3> QED
      BY <1>1, <2>1, <3>1, <3>2, <3>3
  <2>4. q + 1 \in 1..n /\ r + 1 \in 1..size
    BY <2>1, <2>2, <2>3
  <2>5. j = ((q + 1) - 1) * size + (r + 1)
    BY <2>1
  <2> HIDE DEF R
  <2> QED
    BY <1>2, <2>4, <2>5
<1>4. R \in Seq(T) /\ Len(R) = all
  <2> HIDE DEF all, Blk, Off
  <2>1. R = [j \in 1..all |-> R[j]]
    OBVIOUS
  <2>2. R \in [1..all -> T]
    BY <1>3, <2>1
  <2> HIDE DEF R
  <2> QED
    BY <1>1, <2>2
<1>5. (all + size - 1) \div size = n
  <2>1. size - 1 \in Nat /\ size - 1 < size
    OBVIOUS
  <2>2. (all + (size - 1)) \div size = n
    BY <2>1, DivOfBlock
  <2>3. all + size - 1 = all + (size - 1)
    OBVIOUS
  <2> QED
    BY <2>2, <2>3
<1>6. ASSUME NEW c \in 1..n
      PROVE  SubSeq(R, (c - 1) * size + 1, IF c * size < Len(R) THEN c * size ELSE Len(R)) = bs[c]
  <2> DEFINE z == (c - 1) * size
  <2>1. z \in Nat /\ c * size = z + size
    OBVIOUS
  <2>2. z + size <= all
    <3>1. size \in 1..size
      OBVIOUS
    <3>2. z + size \in 1..all
      BY <1>2, <3>1
    <3> HIDE DEF z, all
    <3> QED
      BY <1>1, <3>2
  <2> HIDE DEF all, R
  <2>3. (IF c * size < Len(R) THEN c * size ELSE Len(R)) = z + size
    <3> HIDE DEF z
    <3> QED
      BY <1>1, <1>4, <2>1, <2>2
  <2>4. \A i \in 1..size : R[z + i] = bs[c][i]
    BY <1>2
  <2> HIDE DEF z
  <2> DEFINE u == SubSeq(R, z + 1, z + size)
             v == bs[c]
  <2>5. u \in Seq(T) /\ Len(u) = size /\ \A i \in 1..size : u[i] = R[z + i]
    BY <1>1, <1>4, <2>1, <2>2
  <2>6. v \in Seq(T) /\ Len(v) = size /\ \A i \in 1..size : u[i] = v[i]
    BY <2>4, <2>5
  <2> HIDE DEF u, v
  <2>7. u = v
    BY <2>5, <2>6, SameSeq
  <2> QED
    BY <2>3, <2>7 DEF z, u, v
<1>7. Chunks(R, size) = bs
  <2>1. Chunks(R, size) = [c \in 1..((Len(R) + size - 1) \div size) |->
          SubSeq(R, (c - 1) * size + 1, IF c * size < Len(R) THEN c * size ELSE Len(R))]
    BY DEF Chunks
  <2>2. (Len(R) + size - 1) \div size = n
    BY <1>4, <1>5
  <2> HIDE DEF R
  <2>3. Chunks(R, size) = [c \in 1..n |-> bs[c]]
    BY <2>1, <2>2, <1>6
  <2> QED
    BY <2>3
<1>8. FlattenSeq(Chunks(R, size)) = R
  BY <1>4, FlattenChunks
<1> HIDE DEF R
<1> QED
  BY <1>4, <1>7, <1>8

-----------------------------------------------------------------------------
(***************************************************************************)
(* RSA, in chunks.                                                         *)
(***************************************************************************)
\* A key has room for the padding and more.
LEMMA SizeFacts ==
    ASSUME NEW k \in Key
    PROVE  SizeOf(k) \in Nat /\ SizeOf(k) > 0 /\ SizeOf(k) - Pad \in Nat /\ SizeOf(k) - Pad > 0
<1>1. k[1] \in Nodes
  BY DEF Key
<1>2. KeySize[k[1]] \in Nat /\ KeySize[k[1]] > Pad /\ Pad \in Nat
  BY <1>1, NetworkAssumption
<1> QED
  BY <1>2 DEF SizeOf

\* What is encrypted, cut into blocks of the size of the key: one for each chunk.
LEMMA EncryptedBlocks ==
    ASSUME NEW T, NEW k \in Key, NEW half, NEW text \in Seq(T)
    PROVE  LET parts == Chunks(text, SizeOf(k) - Pad) IN
           /\ Chunks(Encrypt(k, half, text), SizeOf(k))
                = [c \in DOMAIN parts |-> Block(k, half, parts[c])]
           /\ \E C : Encrypt(k, half, text) \in Seq(C)
<1> DEFINE size == SizeOf(k)
           room == SizeOf(k) - Pad
           parts == Chunks(text, room)
           n == (Len(text) + room - 1) \div room
           bs == [c \in 1..n |-> Block(k, half, parts[c])]
           C == {bs[c][i] : c \in 1..n, i \in 1..size}
<1>1. size \in Nat /\ size > 0 /\ room \in Nat /\ room > 0
  BY SizeFacts
<1> HIDE DEF size, room
<1>2. n \in Nat
  BY <1>1, ChunkCount
<1>3. DOMAIN parts = 1..n
  BY DEF Chunks
<1> HIDE DEF n, parts
<1>4. \A c \in 1..n : bs[c] = [i \in 1..size |->
          [key |-> k, half |-> half, chunk |-> parts[c], at |-> i]]
  BY DEF Block, size
<1>5. \A c \in 1..n : bs[c] \in Seq(C) /\ Len(bs[c]) = size
  <2> SUFFICES ASSUME NEW c \in 1..n PROVE bs[c] \in Seq(C) /\ Len(bs[c]) = size
    OBVIOUS
  <2> DEFINE b == bs[c]
  <2>1. \A i \in 1..size : b[i] \in C
    <3> HIDE DEF bs
    <3> QED
      OBVIOUS
  <2>2. b = [i \in 1..size |-> b[i]]
    BY <1>4
  <2> HIDE DEF b, C
  <2>3. b \in [1..size -> C]
    BY <2>1, <2>2
  <2>4. b \in Seq(C) /\ Len(b) = size
    BY <1>1, <2>3
  <2> QED
    BY <2>4 DEF b
<1>6. bs \in [1..n -> Seq(C)]
  <2> HIDE DEF C
  <2> QED
    BY <1>5
<1>7. Encrypt(k, half, text) = FlattenSeq(bs)
  BY <1>3 DEF Encrypt, parts, room
<1> HIDE DEF bs, C
<1>8. Chunks(FlattenSeq(bs), size) = bs /\ FlattenSeq(bs) \in Seq(C)
  BY <1>1, <1>2, <1>5, <1>6, ChunksOfBlocks
<1> QED
  BY <1>3, <1>7, <1>8 DEF bs, size, parts, room

\* RSA_private_decrypt, with a key of the same size: the text, or an exception.
LEMMA DecryptEncrypted ==
    ASSUME NEW T, NEW k \in Key, NEW h \in Key, SizeOf(h) = SizeOf(k),
           NEW half \in {"public", "private"}, NEW text \in Seq(T)
    PROVE  /\ Decrypt(h, Other(half), Encrypt(k, half, text)) \in {NoText, text}
           /\ Decrypt(k, Other(half), Encrypt(k, half, text)) = text
<1> DEFINE size == SizeOf(k)
           room == SizeOf(k) - Pad
           parts == Chunks(text, room)
           enc == Encrypt(k, half, text)
           cut == Chunks(enc, size)
<1>1. size \in Nat /\ size > 0 /\ room \in Nat /\ room > 0
  BY SizeFacts
<1>2. cut = [c \in DOMAIN parts |-> Block(k, half, parts[c])]
  BY EncryptedBlocks
<1>3. parts = [c \in DOMAIN parts |-> parts[c]]
  BY DEF Chunks
<1> HIDE DEF parts, cut, enc, room
<1>4. \A c \in DOMAIN cut : cut[c] = Block(k, half, parts[c]) /\ cut[c][1].chunk = parts[c]
  <2>1. 1 \in 1..SizeOf(k)
    BY <1>1
  <2> QED
    BY <1>2, <2>1 DEF Block
<1>5. [c \in DOMAIN cut |-> cut[c][1].chunk] = parts
  BY <1>2, <1>3, <1>4
<1>6. FlattenSeq([c \in DOMAIN cut |-> cut[c][1].chunk]) = text
  BY <1>1, <1>5, FlattenChunks DEF parts
<1>7. Other(Other(half)) = half
  BY DEF Other
<1>8. ~ \E c \in DOMAIN cut : cut[c] # Block(k, Other(Other(half)), cut[c][1].chunk)
  BY <1>4, <1>7
<1>9. \A g \in Key : SizeOf(g) = SizeOf(k) =>
        Decrypt(g, Other(half), enc) =
          IF \E c \in DOMAIN cut : cut[c] # Block(g, Other(Other(half)), cut[c][1].chunk)
            THEN NoText ELSE FlattenSeq([c \in DOMAIN cut |-> cut[c][1].chunk])
  BY DEF Decrypt, cut
<1>10. Decrypt(k, Other(half), enc) = text
  BY <1>6, <1>8, <1>9
<1>11. Decrypt(h, Other(half), enc) \in {NoText, text}
  BY <1>6, <1>9
<1> QED
  BY <1>10, <1>11 DEF enc

-----------------------------------------------------------------------------
(***************************************************************************)
(* Lists.                                                                  *)
(***************************************************************************)
\* A set of positions that is not empty has a greatest one.
LEMMA GreatestNumber ==
    ASSUME NEW m \in Nat, NEW S \in SUBSET (1..m), S # {}
    PROVE  \E g \in S : \A x \in S : x <= g
<1> DEFINE D == {m - x : x \in S}
<1>1. D \in SUBSET Nat /\ D # {}
  <2>1. \A x \in S : x \in 1..m
    OBVIOUS
  <2>2. \A x \in S : m - x \in Nat
    BY <2>1
  <2>3. D # {}
    <3>1. PICK x \in S : TRUE
      OBVIOUS
    <3>2. m - x \in D
      OBVIOUS
    <3> QED
      BY <3>2
  <2> QED
    BY <2>2, <2>3
<1>2. PICK d \in D : \A e \in D : d <= e
  <2> HIDE DEF D
  <2> QED
    BY <1>1, LeastNumber
<1>3. PICK g \in S : d = m - g
  OBVIOUS
<1>4. ASSUME NEW x \in S PROVE x <= g
  <2>1. m - x \in D
    OBVIOUS
  <2>2. m - g <= m - x
    BY <1>2, <1>3, <2>1
  <2> QED
    BY <2>2
<1> QED
  BY <1>4

Increasing(p, n) == \A j, k \in 1..n : j < k => p[j] < p[k]

\* Positions can be put in order.
LEMMA CanBeOrdered ==
    ASSUME NEW m \in Nat, NEW S \in SUBSET (1..m)
    PROVE  /\ IsFiniteSet(S) /\ Cardinality(S) \in Nat
           /\ \E p \in [1..Cardinality(S) -> S] : Increasing(p, Cardinality(S))
<1> DEFINE Has(R) == \E p \in [1..Cardinality(R) -> R] : Increasing(p, Cardinality(R))
           Bad == {n \in Nat : \E R \in SUBSET (1..m) : Cardinality(R) = n /\ ~ Has(R)}
<1>1. \A R \in SUBSET (1..m) : IsFiniteSet(R) /\ Cardinality(R) \in Nat
  <2>1. IsFiniteSet(1..m)
    BY FS_Interval
  <2>2. \A R \in SUBSET (1..m) : IsFiniteSet(R)
    BY <2>1, FS_Subset
  <2> QED
    BY <2>2, FS_CardinalityType
<1>2. Bad = {}
  <2> SUFFICES ASSUME Bad # {} PROVE FALSE
    OBVIOUS
  <2>1. PICK n \in Bad : \A x \in Bad : n <= x
    <3>1. Bad \in SUBSET Nat
      OBVIOUS
    <3> HIDE DEF Bad
    <3> QED
      BY <3>1, LeastNumber
  <2>2. PICK R \in SUBSET (1..m) : Cardinality(R) = n /\ ~ Has(R)
    OBVIOUS
  <2>3. CASE R = {}
    <3>1. Cardinality(R) = 0
      BY <2>3, FS_EmptySet
    <3> DEFINE p == [i \in 1..0 |-> i]
    <3>2. p \in [1..0 -> R] /\ Increasing(p, 0)
      BY DEF Increasing
    <3> QED
      BY <2>2, <3>1, <3>2
  <2>4. CASE R # {}
    <3>1. PICK g \in R : \A x \in R : x <= g
      BY <2>4, GreatestNumber
    <3> DEFINE Q == R \ {g}
    <3>2. Q \in SUBSET (1..m) /\ IsFiniteSet(R)
      BY <1>1
    <3>3. Cardinality(Q) = n - 1 /\ n \in Nat
      BY <2>2, <3>2, FS_RemoveElement
    <3>4. Cardinality(Q) \in Nat
      BY <1>1, <3>2
    <3>5. Has(Q)
      <4>1. n - 1 \in Nat /\ n - 1 \notin Bad
        BY <2>1, <3>3, <3>4
      <4> QED
        BY <3>2, <3>3, <4>1
    <3>6. PICK q \in [1..(n - 1) -> Q] : Increasing(q, n - 1)
      BY <3>3, <3>5
    <3> DEFINE p == [i \in 1..n |-> IF i = n THEN g ELSE q[i]]
    <3>7. \A i \in 1..n : i # n => i \in 1..(n - 1) /\ q[i] \in Q
      BY <3>3
    <3>8. p \in [1..n -> R]
      BY <3>7
    <3>9. ASSUME NEW j \in 1..n, NEW k \in 1..n, j < k PROVE p[j] < p[k]
      <4>1. j # n /\ j \in 1..(n - 1) /\ q[j] \in Q /\ p[j] = q[j]
        BY <3>3, <3>7, <3>9
      <4>2. CASE k = n
        <5>1. q[j] <= g /\ q[j] # g /\ q[j] \in Nat /\ g \in Nat
          <6>1. q[j] \in R /\ q[j] # g
            BY <4>1
          <6>2. q[j] \in 1..m /\ g \in 1..m
            BY <6>1
          <6> QED
            BY <3>1, <6>1, <6>2
        <5> QED
          BY <4>1, <4>2, <5>1
      <4>3. CASE k # n
        BY <3>6, <3>7, <3>9, <4>1, <4>3 DEF Increasing
      <4> QED
        BY <4>2, <4>3
    <3> HIDE DEF p
    <3> QED
      BY <2>2, <3>8, <3>9 DEF Increasing
  <2> QED
    BY <2>3, <2>4
<1>3. Has(S)
  <2> HIDE DEF Has
  <2>1. Cardinality(S) \notin Bad /\ Cardinality(S) \in Nat
    BY <1>1, <1>2
  <2> QED
    BY <2>1
<1> QED
  BY <1>1, <1>3

\* The elements of a list at some positions are elements of the list there.
LEMMA AtFacts ==
    ASSUME NEW T, NEW q \in Seq(T), NEW S \in SUBSET (DOMAIN q)
    PROVE  /\ At(q, S) \in Seq(T)
           /\ \A k \in DOMAIN At(q, S) : \E i \in S : At(q, S)[k] = q[i]
<1> DEFINE n == Cardinality(S)
           m == Len(q)
           P(p) == \A j, k \in DOMAIN p : j < k => p[j] < p[k]
           o == Ordered(S)
<1>1. m \in Nat /\ S \in SUBSET (1..m)
  OBVIOUS
<1>2. n \in Nat /\ \E p \in [1..n -> S] : Increasing(p, n)
  BY <1>1, CanBeOrdered
<1>3. \E p \in [1..n -> S] : P(p)
  BY <1>2 DEF Increasing
<1>4. o = CHOOSE p \in [1..n -> S] : P(p)
  BY DEF Ordered
<1>5. o \in [1..n -> S]
  <2> HIDE DEF P
  <2> QED
    BY <1>3, <1>4
<1> HIDE DEF o, n
<1>6. At(q, S) = [k \in 1..n |-> q[o[k]]]
  BY DEF At, o, n
<1>7. \A k \in 1..n : o[k] \in S /\ q[o[k]] \in T
  BY <1>1, <1>5
<1>8. [k \in 1..n |-> q[o[k]]] \in Seq(T)
  BY <1>2, <1>7
<1> QED
  BY <1>6, <1>7, <1>8

\* What is left of a list are elements of it, and none of W.
LEMMA WithoutFacts ==
    ASSUME NEW T, NEW q \in Seq(T), NEW W
    PROVE  /\ Without(q, W) \in Seq(T)
           /\ \A k \in DOMAIN Without(q, W) :
                 \E i \in DOMAIN q : Without(q, W)[k] = q[i] /\ q[i] \notin W
<1> DEFINE S == {k \in DOMAIN q : q[k] \notin W}
<1>1. S \in SUBSET (DOMAIN q)
  OBVIOUS
<1>2. Without(q, W) = At(q, S)
  BY DEF Without
<1>3. /\ At(q, S) \in Seq(T)
      /\ \A k \in DOMAIN At(q, S) : \E i \in S : At(q, S)[k] = q[i]
  <2> HIDE DEF S
  <2> QED
    BY <1>1, AtFacts
<1> QED
  BY <1>2, <1>3

-----------------------------------------------------------------------------
(***************************************************************************)
(* The inductive invariant.                                                *)
(***************************************************************************)
Strings(pl) == {pl[s].to : s \in DOMAIN pl} \cup {AddressToString(Cert[m]) : m \in Nodes}
Bodies == {NoText} \cup Key \cup {Sealed[<<k, m, t>>] : k \in Key, m \in Key, t \in Texts}
PacketRec(pl) ==
    [proto : {"pkask", "pkreply", "avim"}, src : Address, dest : Address,
     pub : Key \cup {NoKey}, body : Bodies, ttl : 1..Ttl, s : DOMAIN pl \cup {NoSend}]

\* The keys a node has had.
KeysOf(n, g) == {<<n, x>> : x \in 0..g[n]}

\* A packet comes from the node its source says, and the key it carries is one of
\* that node.  Data is what its send was given, for the node whose certificate
\* says the string it was sent to, and locked for a key of that node.
Genuine(p, pl, g) ==
    \E n \in Nodes :
        /\ p.src = Cert[n]
        /\ \/ p.proto = "pkask" /\ p.pub = NoKey
           \/ p.proto = "pkreply" /\ p.pub = NoKey /\ p.body \in KeysOf(n, g)
           \/ /\ p.proto = "avim" /\ p.s \in DOMAIN pl /\ pl[p.s].from = n
              /\ p.pub \in KeysOf(n, g) /\ p.dest = AddressFromString(pl[p.s].to)
              /\ \E m \in Nodes : /\ pl[p.s].to = AddressToString(Cert[m])
                                  /\ \E k \in KeysOf(m, g) :
                                        p.body = Sealed[<<k, p.pub, pl[p.s].text>>]
Packets(pl, g) == {p \in PacketRec(pl) : Genuine(p, pl, g)}

\* What a node takes for somebody's key is one of his, and kept for his name.
Trusted(ks, pl, g) ==
    /\ ks \in [Strings(pl) -> Key \cup {NoKey}]
    /\ \A str \in Strings(pl) : ks[str] # NoKey =>
          \E m \in Nodes : str = AddressToString(Cert[m]) /\ ks[str] \in KeysOf(m, g)

OpRec == [pc : {"idle", "wait", "sent", "unreachable", "dead"}, asks : 0..MaxAsks]
GotRec(pl) == [from : String, text : Texts, s : DOMAIN pl]

Types ==
    /\ plan \in Plans /\ up \subseteq Links /\ gen \in [Nodes -> {0, 1}] /\ faults \in 0..MaxFaults
    /\ op \in [Sends -> OpRec] /\ waiting \in [Nodes -> Seq(Sends)]
    /\ got \in [Nodes -> Seq(GotRec(plan))]
LinkInv == link \in [Links -> Seq(Packets(plan, gen))]
KeyInv == DOMAIN keys = Nodes /\ \A n \in Nodes : Trusted(keys[n], plan, gen)
WaitInv ==
    \A n \in Nodes : \A i \in DOMAIN waiting[n] :
        From(waiting[n][i]) = n /\ op[waiting[n][i]].pc = "wait"
GotInv ==
    \A n \in Nodes : \A i \in DOMAIN got[n] :
        LET m == got[n][i] IN
        /\ m.text = plan[m.s].text /\ m.from = AddressToString(Cert[From(m.s)])
        /\ To(m.s).user = Cert[n].user

IInv == Types /\ LinkInv /\ KeyInv /\ WaitInv /\ SentOnlyToCertified /\ GotInv

-----------------------------------------------------------------------------
(***************************************************************************)
(* The packets that are made.                                              *)
(***************************************************************************)
\* Parsing a string gives an address, formatting an address a string.
LEMMA AddressFacts ==
    /\ \A str \in String : AddressFromString(str) \in Address
    /\ \A a \in Address : AddressToString(a) \in String
    /\ \A n \in Nodes : Cert[n] \in Address
<1>1. \A str \in String : AddressFromString(str) \in Address
  BY DEF AddressFromString, String, Address
<1>2. \A a \in Address : AddressToString(a) \in String
  BY DEF AddressToString, String, Address
<1>3. \A n \in Nodes : Cert[n] \in Address
  BY NetworkAssumption
<1> QED
  BY <1>1, <1>2, <1>3

\* A send has a node that calls, a string it is for, and a text.
LEMMA PlanFacts ==
    ASSUME NEW pl \in Plans, NEW s \in DOMAIN pl
    PROVE  /\ pl[s].from \in Nodes /\ pl[s].to \in String /\ pl[s].text \in Seq(0..255)
           /\ pl[s].text \in Texts
BY NetworkAssumption DEF Texts

\* The keys a node has had are keys, and the one it has is among them.
LEMMA KeysOfFacts ==
    ASSUME NEW n \in Nodes, NEW g \in [Nodes -> {0, 1}]
    PROVE  KeysOf(n, g) \subseteq Key /\ <<n, g[n]>> \in KeysOf(n, g)
<1>1. g[n] \in {0, 1}
  OBVIOUS
<1>2. 0..g[n] \subseteq {0, 1} /\ g[n] \in 0..g[n]
  BY <1>1
<1> QED
  BY <1>2 DEF KeysOf, Key

\* A ttl for which a packet is kept.
LEMMA TtlFacts == Ttl \in 1..Ttl /\ MaxAsks \in Nat /\ MaxAsks >= 1
BY NetworkAssumption

\* An ask is a packet.
LEMMA AskGenuine ==
    ASSUME Types, NEW n \in Nodes, NEW str \in String
    PROVE  PkAsk(n, str) \in Packets(plan, gen)
<1> DEFINE p == PkAsk(n, str)
<1>1. p = [proto |-> "pkask", src |-> Cert[n], dest |-> AddressFromString(str), pub |-> NoKey,
           body |-> NoText, ttl |-> Ttl, s |-> NoSend]
  BY DEF PkAsk, Packet
<1>2. p \in PacketRec(plan)
  BY <1>1, AddressFacts, TtlFacts DEF PacketRec, Bodies
<1>3. Genuine(p, plan, gen)
  BY <1>1 DEF Genuine
<1> QED
  BY <1>2, <1>3 DEF Packets

\* An answer is a packet, and has the key of the node that answers.
LEMMA ReplyGenuine ==
    ASSUME Types, NEW n \in Nodes, NEW str \in String
    PROVE  PkReply(n, str) \in Packets(plan, gen)
<1> DEFINE p == PkReply(n, str)
           k == <<n, gen[n]>>
<1>1. p = [proto |-> "pkreply", src |-> Cert[n], dest |-> AddressFromString(str), pub |-> NoKey,
           body |-> k, ttl |-> Ttl, s |-> NoSend]
  BY DEF PkReply, Packet, Mine
<1>2. k \in KeysOf(n, gen) /\ k \in Key
  BY KeysOfFacts DEF Types
<1> HIDE DEF k, p
<1>3. p \in PacketRec(plan)
  BY <1>1, <1>2, AddressFacts, TtlFacts DEF PacketRec, Bodies
<1>4. Genuine(p, plan, gen)
  BY <1>1, <1>2 DEF Genuine
<1> QED
  BY <1>3, <1>4 DEF Packets, p

\* Data is a packet, when its key is the target's.
LEMMA DataGenuine ==
    ASSUME Types, NEW s \in Sends, NEW m \in Nodes, To(s) = AddressToString(Cert[m]),
           NEW k \in KeysOf(m, gen)
    PROVE  Data(From(s), s, k) \in Packets(plan, gen)
<1> DEFINE n == From(s)
           p == Data(n, s, k)
           own == <<n, gen[n]>>
           body == Sealed[<<k, own, plan[s].text>>]
<1>1. /\ plan \in Plans /\ s \in DOMAIN plan /\ n \in Nodes /\ To(s) \in String
      /\ plan[s].text \in Texts
  BY PlanFacts DEF Types, Sends, From, To
<1>2. p = [proto |-> "avim", src |-> Cert[n], dest |-> AddressFromString(To(s)), pub |-> own,
           body |-> body, ttl |-> Ttl, s |-> s]
  BY DEF Data, Packet, Mine
<1>3. own \in KeysOf(n, gen) /\ own \in Key /\ k \in Key
  BY <1>1, KeysOfFacts DEF Types
<1>4. body \in Bodies
  BY <1>1, <1>3 DEF Bodies
<1> HIDE DEF own, body, p
<1>5. p \in PacketRec(plan)
  BY <1>1, <1>2, <1>3, <1>4, AddressFacts, TtlFacts DEF PacketRec
<1>6. Genuine(p, plan, gen)
  <2>1. /\ p.src = Cert[n] /\ p.proto = "avim" /\ p.s = s /\ p.pub = own
        /\ p.dest = AddressFromString(To(s)) /\ p.body = body
    BY <1>2
  <2>2. plan[s].from = n /\ plan[s].to = To(s)
    BY DEF From, To
  <2>3. p.body = Sealed[<<k, p.pub, plan[p.s].text>>]
    BY <2>1 DEF body
  <2> QED
    BY <1>1, <1>3, <2>1, <2>2, <2>3 DEF Genuine
<1> QED
  BY <1>5, <1>6 DEF Packets, p

\* What is put on links leaves them sequences of packets.
LEMMA PushedFacts ==
    ASSUME NEW T, NEW f \in [Links -> Seq(T)], NEW n, NEW O, NEW out \in Seq(O),
           \A o \in O : o.pkt \in T
    PROVE  Pushed(f, n, out) \in [Links -> Seq(T)]
<1> SUFFICES ASSUME NEW l \in Links PROVE Pushed(f, n, out)[l] \in Seq(T)
  BY DEF Pushed
<1> DEFINE S == {k \in DOMAIN out : out[k].to = l[2]}
           mine == At(out, S)
           pkts == [i \in DOMAIN mine |-> mine[i].pkt]
<1>1. Pushed(f, n, out)[l] = IF l[1] # n \/ l \notin up THEN f[l] ELSE f[l] \o pkts
  BY DEF Pushed
<1>2. mine \in Seq(O)
  <2>1. S \in SUBSET (DOMAIN out)
    OBVIOUS
  <2> HIDE DEF S
  <2> QED
    BY <2>1, AtFacts
<1> HIDE DEF mine
<1>3. pkts \in Seq(T)
  <2>1. \A i \in DOMAIN mine : mine[i].pkt \in T
    BY <1>2
  <2>2. DOMAIN mine = 1..Len(mine) /\ Len(mine) \in Nat
    BY <1>2
  <2> QED
    BY <2>1, <2>2
<1> HIDE DEF pkts
<1>4. f[l] \in Seq(T)
  OBVIOUS
<1>5. f[l] \o pkts \in Seq(T)
  BY <1>3, <1>4
<1> QED
  BY <1>1, <1>4, <1>5

\* One packet is put on a link.
LEMMA PushedOne ==
    ASSUME NEW T, NEW f \in [Links -> Seq(T)], NEW n, NEW to, NEW p \in T
    PROVE  Pushed(f, n, <<[to |-> to, pkt |-> p]>>) \in [Links -> Seq(T)]
<1> DEFINE o == [to |-> to, pkt |-> p]
           O == {o}
           out == <<o>>
<1>1. out \in Seq(O) /\ \A x \in O : x.pkt \in T
  OBVIOUS
<1> HIDE DEF O, out
<1>2. Pushed(f, n, out) \in [Links -> Seq(T)]
  BY <1>1, PushedFacts
<1> QED
  BY <1>2 DEF out

-----------------------------------------------------------------------------
(***************************************************************************)
(* What a packet is when it is received.                                   *)
(***************************************************************************)
\* Data that reaches its node is opened to what was sent, or, with an old key, not.
LEMMA OpenedText ==
    ASSUME Types, NEW n \in Nodes, NEW p \in Packets(plan, gen), p.proto = "avim",
           IsToMe(n, p.dest)
    PROVE  /\ p.s \in Sends /\ Opened(n, p) \in {NoText, plan[p.s].text}
           /\ gen[n] = 0 => Opened(n, p) = plan[p.s].text
           /\ p.src = Cert[From(p.s)] /\ To(p.s).user = Cert[n].user
<1>1. /\ p.s \in DOMAIN plan /\ p.src = Cert[plan[p.s].from]
      /\ p.pub \in KeysOf(plan[p.s].from, gen) /\ p.dest = AddressFromString(plan[p.s].to)
      /\ \E m \in Nodes : /\ plan[p.s].to = AddressToString(Cert[m])
                          /\ \E k \in KeysOf(m, gen) : p.body = Sealed[<<k, p.pub, plan[p.s].text>>]
  BY DEF Packets, Genuine
<1> DEFINE s == p.s
           text == plan[s].text
<1>2. /\ plan[s].from \in Nodes /\ plan[s].to \in String /\ text \in Seq(0..255)
      /\ text \in Texts /\ plan \in Plans
  BY <1>1, PlanFacts DEF Types
<1>3. PICK m \in Nodes : /\ plan[s].to = AddressToString(Cert[m])
                         /\ \E k \in KeysOf(m, gen) : p.body = Sealed[<<k, p.pub, text>>]
  BY <1>1
<1>4. PICK k \in KeysOf(m, gen) : p.body = Sealed[<<k, p.pub, text>>]
  BY <1>3
<1>5. /\ p.dest.user = plan[s].to.user /\ plan[s].to.user = Cert[m].user
      /\ p.dest.user = Cert[n].user
  BY <1>1, <1>3 DEF AddressFromString, AddressToString, IsToMe
<1>6. m = n
  BY <1>5, NetworkAssumption
<1>7. gen \in [Nodes -> {0, 1}]
  BY DEF Types
<1>8. /\ p.pub \in Key /\ k \in Key /\ Mine(n) \in Key
      /\ k[1] = n /\ Mine(n)[1] = n /\ (gen[n] = 0 => k = Mine(n))
  <2>1. p.pub \in Key /\ k \in Key /\ Mine(n) \in Key
    BY <1>1, <1>2, <1>6, <1>7, KeysOfFacts DEF Mine
  <2>2. PICK x \in 0..gen[n] : k = <<n, x>>
    BY <1>6 DEF KeysOf
  <2>3. gen[n] = 0 => x = 0
    OBVIOUS
  <2> QED
    BY <2>1, <2>2, <2>3 DEF Mine
<1>9. SizeOf(Mine(n)) = SizeOf(k)
  BY <1>8 DEF SizeOf
<1> DEFINE inner == Encrypt(k, "public", text)
<1>10. p.body = Encrypt(p.pub, "private", inner)
  <2>1. <<k, p.pub, text>> \in Key \X Key \X Texts
    BY <1>2, <1>8
  <2> QED
    BY <1>4, <2>1 DEF Sealed
<1>11. inner # NoText
  BY <1>1, <1>2, <1>8, NoTextAssumption
<1>12. PICK C : inner \in Seq(C)
  BY <1>2, <1>8, EncryptedBlocks
<1> HIDE DEF inner
<1>13. Decrypt(p.pub, "public", p.body) = inner
  <2> DEFINE pub == p.pub
  <2>0. pub \in Key
    BY <1>8
  <2> HIDE DEF pub
  <2>1. Decrypt(pub, Other("private"), Encrypt(pub, "private", inner)) = inner
    BY ONLY <1>12, <2>0, DecryptEncrypted
  <2>2. Other("private") = "public"
    BY DEF Other
  <2> QED
    BY <1>10, <2>1, <2>2 DEF pub
<1>14. /\ Decrypt(Mine(n), "private", inner) \in {NoText, text}
       /\ Decrypt(k, "private", inner) = text
  <2>1. /\ Decrypt(Mine(n), Other("public"), Encrypt(k, "public", text)) \in {NoText, text}
        /\ Decrypt(k, Other("public"), Encrypt(k, "public", text)) = text
    BY <1>2, <1>8, <1>9, DecryptEncrypted
  <2>2. Other("public") = "private"
    BY DEF Other
  <2> QED
    BY <2>1, <2>2 DEF inner
<1>15. Opened(n, p) = Decrypt(Mine(n), "private", inner)
  BY <1>11, <1>13 DEF Opened
<1> QED
  BY <1>1, <1>5, <1>8, <1>14, <1>15 DEF From, To, Sends

\* A key that a packet brings is its source's.
LEMMA LearnedTrusted ==
    ASSUME Types, NEW n \in Nodes, Trusted(keys[n], plan, gen), NEW p \in Packets(plan, gen)
    PROVE  Trusted(Learned(n, p), plan, gen)
<1>1. CASE p.pub # NoKey
  <2>1. PICK m \in Nodes : p.src = Cert[m] /\ p.pub \in KeysOf(m, gen)
    BY <1>1 DEF Packets, Genuine
  <2> DEFINE str == AddressToString(p.src)
  <2>2. str = AddressToString(Cert[m]) /\ str \in Strings(plan)
    BY <2>1 DEF Strings
  <2>3. p.pub \in Key
    BY <2>1, KeysOfFacts DEF Types
  <2>4. Learned(n, p) = IF keys[n][str] = NoKey THEN [keys[n] EXCEPT ![str] = p.pub] ELSE keys[n]
    BY <1>1 DEF Learned
  <2> HIDE DEF str
  <2> QED
    BY <2>1, <2>2, <2>3, <2>4 DEF Trusted
<1>2. CASE p.pub = NoKey
  BY <1>2 DEF Learned
<1> QED
  BY <1>1, <1>2

\* The key of an answer is its source's.
LEMMA ReplyTrusted ==
    ASSUME Types, NEW n \in Nodes, Trusted(keys[n], plan, gen), NEW p \in Packets(plan, gen),
           p.proto = "pkreply"
    PROVE  Trusted([keys[n] EXCEPT ![AddressToString(p.src)] = p.body], plan, gen)
<1>1. PICK m \in Nodes : p.src = Cert[m] /\ p.body \in KeysOf(m, gen)
  BY DEF Packets, Genuine
<1> DEFINE str == AddressToString(p.src)
<1>2. str = AddressToString(Cert[m]) /\ str \in Strings(plan)
  BY <1>1 DEF Strings
<1>3. p.body \in Key
  BY <1>1, KeysOfFacts DEF Types
<1> HIDE DEF str
<1>4. Trusted([keys[n] EXCEPT ![str] = p.body], plan, gen)
  BY <1>1, <1>2, <1>3 DEF Trusted
<1> QED
  BY <1>4 DEF str

\* A forwarded packet is the packet, and not too old.
LEMMA OlderGenuine ==
    ASSUME NEW p \in Packets(plan, gen), Lives(p), NEW l, NEW to
    PROVE  Older(l, p, to) \in Packets(plan, gen)
<1> DEFINE q == Older(l, p, to)
<1>1. q = [p EXCEPT !.ttl = p.ttl - 1]
  BY DEF Older
<1>2. p \in PacketRec(plan)
  BY DEF Packets
<1>3. p.ttl \in 1..Ttl /\ p.ttl > 1
  BY <1>2 DEF PacketRec, Lives
<1>4. p.ttl - 1 \in 1..Ttl
  BY <1>3, TtlFacts, NetworkAssumption
<1>5. q \in PacketRec(plan)
  BY <1>1, <1>2, <1>4 DEF PacketRec
<1>6. /\ q.proto = p.proto /\ q.src = p.src /\ q.dest = p.dest /\ q.pub = p.pub
      /\ q.body = p.body /\ q.s = p.s
  BY <1>1, <1>2 DEF PacketRec
<1> HIDE DEF q
<1>7. Genuine(q, plan, gen)
  <2>1. Genuine(p, plan, gen)
    BY DEF Packets
  <2> QED
    BY <1>6, <2>1 DEF Genuine
<1> QED
  BY <1>5, <1>7 DEF Packets, q

-----------------------------------------------------------------------------
(***************************************************************************)
(* One lemma for each kind of step.                                        *)
(***************************************************************************)

\* All of the invariant but the history of what was received.
Core == /\ up \subseteq Links /\ op \in [Sends -> OpRec] /\ waiting \in [Nodes -> Seq(Sends)]
        /\ LinkInv /\ KeyInv /\ WaitInv /\ SentOnlyToCertified

\* The sends a packet wakes are in the list, and the key of their target is there.
LEMMA WokenFacts ==
    ASSUME Types, NEW n \in Nodes, NEW p, NEW ks
    PROVE  /\ Woken(n, p, ks) \in Seq(Sends)
           /\ \A k \in DOMAIN Woken(n, p, ks) : \E i \in DOMAIN waiting[n] :
                 /\ Woken(n, p, ks)[k] = waiting[n][i]
                 /\ AddressToString(p.src) = To(waiting[n][i]) /\ ks[To(waiting[n][i])] # NoKey
<1> DEFINE q == waiting[n]
           S == {k \in DOMAIN q : IsFrom(p.src, To(q[k])) /\ ks[To(q[k])] # NoKey}
<1>1. q \in Seq(Sends) /\ S \in SUBSET (DOMAIN q)
  BY DEF Types
<1>2. Woken(n, p, ks) = At(q, S)
  BY DEF Woken
<1>3. \A i \in S : /\ i \in DOMAIN q /\ AddressToString(p.src) = To(q[i])
                   /\ ks[To(q[i])] # NoKey
  BY DEF IsFrom
<1> HIDE DEF q, S
<1>4. /\ At(q, S) \in Seq(Sends)
      /\ \A k \in DOMAIN At(q, S) : \E i \in S : At(q, S)[k] = q[i]
  BY <1>1, AtFacts
<1> QED
  BY <1>2, <1>3, <1>4 DEF q

\* A send that is in the list of a node is the node's, and waits.
LEMMA InList ==
    ASSUME Types, WaitInv, NEW n \in Nodes, NEW i \in DOMAIN waiting[n]
    PROVE  waiting[n][i] \in Sends /\ From(waiting[n][i]) = n /\ op[waiting[n][i]].pc = "wait"
<1>1. waiting[n] \in Seq(Sends)
  BY DEF Types
<1> QED
  BY <1>1 DEF WaitInv

\* A packet is handled, and the sends it wakes make theirs.
LEMMA HandledStep ==
    ASSUME Types, Core, NEW l \in Links, link[l] # <<>>, NEW p \in Packets(plan, gen), NEW ks,
           Trusted(ks, plan, gen), NEW O, NEW out \in Seq(O),
           \A o \in O : o.pkt \in Packets(plan, gen), Handled(l, p, ks, out), up' = up
    PROVE  Core' /\ gen' = gen /\ faults' = faults /\ plan' = plan
<1> DEFINE n == l[2]
           woken == Woken(n, p, ks)
           data == [i \in DOMAIN woken |->
                      [to |-> SelectRoute(n, To(woken[i])),
                       pkt |-> Data(n, woken[i], ks[To(woken[i])])]]
           W == ToSet(woken)
           T == Packets(plan, gen)
<1>0. n \in Nodes
  BY DEF Links
<1>1. /\ keys' = [keys EXCEPT ![n] = ks]
      /\ waiting' = [waiting EXCEPT ![n] = Without(@, W)]
      /\ op' = [s \in Sends |-> IF s \in W THEN [op[s] EXCEPT !.pc = "sent"] ELSE op[s]]
      /\ link' = Pushed([link EXCEPT ![l] = Tail(@)], n, out \o data)
      /\ gen' = gen /\ faults' = faults /\ plan' = plan
  BY DEF Handled
<1>2. /\ woken \in Seq(Sends)
      /\ \A k \in DOMAIN woken : \E i \in DOMAIN waiting[n] :
            /\ woken[k] = waiting[n][i]
            /\ AddressToString(p.src) = To(waiting[n][i]) /\ ks[To(waiting[n][i])] # NoKey
  BY <1>0, WokenFacts
<1> HIDE DEF woken
<1>3. \A k \in DOMAIN woken :
         /\ woken[k] \in Sends /\ From(woken[k]) = n /\ op[woken[k]].pc = "wait"
         /\ AddressToString(p.src) = To(woken[k]) /\ ks[To(woken[k])] # NoKey
  <2> SUFFICES ASSUME NEW k \in DOMAIN woken
               PROVE  /\ woken[k] \in Sends /\ From(woken[k]) = n /\ op[woken[k]].pc = "wait"
                      /\ AddressToString(p.src) = To(woken[k]) /\ ks[To(woken[k])] # NoKey
    OBVIOUS
  <2>1. PICK i \in DOMAIN waiting[n] :
            /\ woken[k] = waiting[n][i]
            /\ AddressToString(p.src) = To(waiting[n][i]) /\ ks[To(waiting[n][i])] # NoKey
    BY <1>2
  <2> QED
    BY <1>0, <2>1, InList DEF Core
<1>4. \A k \in DOMAIN woken : \E m \in Nodes :
         To(woken[k]) = AddressToString(Cert[m]) /\ ks[To(woken[k])] \in KeysOf(m, gen)
  <2> SUFFICES ASSUME NEW k \in DOMAIN woken
               PROVE  \E m \in Nodes : /\ To(woken[k]) = AddressToString(Cert[m])
                                       /\ ks[To(woken[k])] \in KeysOf(m, gen)
    OBVIOUS
  <2>1. To(woken[k]) \in Strings(plan)
    BY <1>3 DEF Strings, To, Sends
  <2> QED
    BY <1>3, <2>1 DEF Trusted
<1>5. LinkInv'
  <2> DEFINE D == {data[i] : i \in DOMAIN woken}
             f == [link EXCEPT ![l] = Tail(@)]
  <2>1. \A i \in DOMAIN woken : data[i].pkt \in T
    <3> SUFFICES ASSUME NEW i \in DOMAIN woken PROVE Data(n, woken[i], ks[To(woken[i])]) \in T
      OBVIOUS
    <3>1. PICK m \in Nodes : /\ To(woken[i]) = AddressToString(Cert[m])
                             /\ ks[To(woken[i])] \in KeysOf(m, gen)
      BY <1>4
    <3>2. Data(From(woken[i]), woken[i], ks[To(woken[i])]) \in T
      BY <1>3, <3>1, DataGenuine
    <3> QED
      BY <1>3, <3>2
  <2>2. DOMAIN woken = 1..Len(woken) /\ Len(woken) \in Nat
    BY <1>2
  <2>3. data \in Seq(D) /\ \A o \in D : o.pkt \in T
    <3>1. \A i \in DOMAIN woken : data[i] \in D
      OBVIOUS
    <3>2. data = [i \in 1..Len(woken) |-> data[i]]
      BY <2>2
    <3>3. \A o \in D : o.pkt \in T
      BY <2>1
    <3> HIDE DEF data, D
    <3>4. data \in [1..Len(woken) -> D]
      BY <2>2, <3>1, <3>2
    <3> QED
      BY <2>2, <3>3, <3>4
  <2> HIDE DEF data, D
  <2>4. f \in [Links -> Seq(T)]
    <3>1. link \in [Links -> Seq(T)]
      BY DEF Core, LinkInv
    <3>2. link[l] \in Seq(T)
      BY <3>1
    <3>3. Tail(link[l]) \in Seq(T)
      <4> HIDE DEF T
      <4> QED
        BY <3>2
    <3> QED
      BY <3>1, <3>3
  <2> DEFINE both == out \o data
             P == O \cup D
  <2>5. both \in Seq(P) /\ \A o \in P : o.pkt \in T
    <3>1. out \in Seq(P) /\ data \in Seq(P)
      BY <2>3
    <3>2. both \in Seq(P)
      <4> HIDE DEF P
      <4> QED
        BY <3>1
    <3> QED
      BY <2>3, <3>2
  <2> HIDE DEF both, P, f, T
  <2>6. Pushed(f, n, both) \in [Links -> Seq(T)]
    BY <2>4, <2>5, PushedFacts
  <2> QED
    BY <1>1, <2>6 DEF LinkInv, both, f, T
<1>6. KeyInv'
  <2>1. \A m \in Nodes : Trusted(keys'[m], plan, gen)
    BY <1>1 DEF Core, KeyInv
  <2> QED
    BY <1>1, <2>1 DEF Core, KeyInv
<1>7. Sends' = Sends /\ \A s : From(s)' = From(s) /\ To(s)' = To(s)
  BY <1>1 DEF Sends, From, To
<1>8. \A s \in W : s \in Sends /\ From(s) = n /\ \E m \in Nodes : To(s) = AddressToString(Cert[m])
  BY <1>3, <1>4 DEF ToSet
<1> HIDE DEF W
<1>9. op' \in [Sends -> OpRec]
  BY <1>1 DEF Core, OpRec
<1>10. Without(waiting[n], W) \in Seq(Sends) /\
       \A k \in DOMAIN Without(waiting[n], W) : \E i \in DOMAIN waiting[n] :
          Without(waiting[n], W)[k] = waiting[n][i] /\ waiting[n][i] \notin W
  <2>1. waiting[n] \in Seq(Sends)
    BY <1>0 DEF Core
  <2> QED
    BY <2>1, WithoutFacts
<1>11. waiting' \in [Nodes -> Seq(Sends)]
  BY <1>1, <1>10 DEF Core
<1>12. WaitInv'
  <2>1. ASSUME NEW m \in Nodes, NEW i \in DOMAIN waiting'[m]
        PROVE  From(waiting'[m][i]) = m /\ op'[waiting'[m][i]].pc = "wait"
    <3>1. \E j \in DOMAIN waiting[m] : waiting'[m][i] = waiting[m][j] /\ waiting[m][j] \notin W
      <4>1. CASE m = n
        <5>1. waiting'[m] = Without(waiting[n], W)
          BY <1>1, <4>1 DEF Core
        <5> QED
          BY <1>10, <2>1, <4>1, <5>1
      <4>2. CASE m # n
        <5>1. waiting'[m] = waiting[m]
          BY <1>1, <4>2 DEF Core
        <5>2. From(waiting[m][i]) = m
          BY <2>1, <5>1, InList DEF Core
        <5>3. waiting[m][i] \notin W
          BY <1>8, <4>2, <5>2
        <5> QED
          BY <2>1, <5>1, <5>3
      <4> QED
        BY <4>1, <4>2
    <3>2. PICK j \in DOMAIN waiting[m] : waiting'[m][i] = waiting[m][j] /\ waiting[m][j] \notin W
      BY <3>1
    <3>3. /\ waiting[m][j] \in Sends /\ From(waiting[m][j]) = m
          /\ op[waiting[m][j]].pc = "wait"
      BY InList DEF Core
    <3> QED
      BY <1>1, <3>2, <3>3
  <2> QED
    BY <1>7, <2>1 DEF WaitInv
<1>13. SentOnlyToCertified'
  <2>1. ASSUME NEW s \in Sends, op'[s].pc = "sent"
        PROVE  \E m \in Nodes : To(s) = AddressToString(Cert[m])
    <3>1. CASE s \in W
      BY <1>8, <3>1
    <3>2. CASE s \notin W
      BY <1>1, <2>1, <3>2 DEF Core, SentOnlyToCertified
    <3> QED
      BY <3>1, <3>2
  <2> QED
    BY <1>7, <2>1 DEF SentOnlyToCertified
<1> QED
  BY <1>1, <1>5, <1>6, <1>7, <1>9, <1>11, <1>12, <1>13 DEF Core

\* A send starts.
LEMMA SendStep ==
    ASSUME Types, Core, NEW s \in Sends, Send(s)
    PROVE  Core' /\ gen' = gen /\ faults' = faults /\ plan' = plan
<1> DEFINE n == From(s)
           via == SelectRoute(n, To(s))
           k == keys[n][To(s)]
           T == Packets(plan, gen)
<1>1. /\ op[s].pc = "idle" /\ up' = up /\ keys' = keys /\ gen' = gen /\ faults' = faults
      /\ plan' = plan
  BY DEF Send
<1>2. n \in Nodes /\ To(s) \in String /\ To(s) \in Strings(plan)
  BY PlanFacts DEF Types, Sends, From, To, Strings
<1>3. Sends' = Sends /\ \A x : From(x)' = From(x) /\ To(x)' = To(x)
  BY <1>1 DEF Sends, From, To
<1>4. KeyInv'
  BY <1>1 DEF Core, KeyInv
<1>5. link \in [Links -> Seq(T)] /\ op \in [Sends -> OpRec] /\ waiting \in [Nodes -> Seq(Sends)]
  BY DEF Core, LinkInv
<1>6. \A m \in Nodes : \A i \in DOMAIN waiting[m] : waiting[m][i] # s
  BY <1>1, InList DEF Core
<1> SUFFICES /\ link' \in [Links -> Seq(T)] /\ op' \in [Sends -> OpRec]
             /\ waiting' \in [Nodes -> Seq(Sends)]
             /\ \A m \in Nodes : \A i \in DOMAIN waiting'[m] :
                   From(waiting'[m][i]) = m /\ op'[waiting'[m][i]].pc = "wait"
             /\ \A x \in Sends : op'[x].pc = "sent" =>
                   \E m \in Nodes : To(x) = AddressToString(Cert[m])
  BY <1>1, <1>3, <1>4 DEF Core, LinkInv, WaitInv, SentOnlyToCertified
<1>7. CASE via = NoNode /\ op' = [op EXCEPT ![s].pc = "unreachable"] /\ UNCHANGED <<link, waiting>>
  <2>1. op' \in [Sends -> OpRec]
    BY <1>5, <1>7 DEF OpRec
  <2>2. \A x \in Sends : x # s => op'[x] = op[x]
    BY <1>5, <1>7
  <2>3. op'[s].pc = "unreachable"
    BY <1>5, <1>7 DEF OpRec
  <2>4. \A m \in Nodes : \A i \in DOMAIN waiting[m] : waiting[m][i] \in Sends
    BY InList DEF Core
  <2> QED
    BY <1>5, <1>6, <1>7, <2>1, <2>2, <2>3, <2>4 DEF Core, WaitInv, SentOnlyToCertified
<1>8. CASE /\ via # NoNode /\ k # NoKey
           /\ op' = [op EXCEPT ![s].pc = "sent"]
           /\ link' = Pushed(link, n, <<[to |-> via, pkt |-> Data(n, s, k)]>>)
           /\ UNCHANGED waiting
  <2>1. op' \in [Sends -> OpRec]
    BY <1>5, <1>8 DEF OpRec
  <2>2. \A x \in Sends : x # s => op'[x] = op[x]
    BY <1>5, <1>8
  <2>3. PICK m \in Nodes : To(s) = AddressToString(Cert[m]) /\ k \in KeysOf(m, gen)
    BY <1>2, <1>8 DEF Core, KeyInv, Trusted
  <2>4. Data(n, s, k) \in T
    BY <2>3, DataGenuine
  <2> HIDE DEF T, via
  <2>5. link' \in [Links -> Seq(T)]
    BY <1>5, <1>8, <2>4, PushedOne
  <2>6. \A x \in Nodes : \A i \in DOMAIN waiting[x] : waiting[x][i] \in Sends
    BY InList DEF Core
  <2>7. \A x \in Nodes : \A i \in DOMAIN waiting'[x] :
           From(waiting'[x][i]) = x /\ op'[waiting'[x][i]].pc = "wait"
    BY <1>6, <1>8, <2>2, <2>6 DEF Core, WaitInv
  <2>8. \A x \in Sends : op'[x].pc = "sent" => \E y \in Nodes : To(x) = AddressToString(Cert[y])
    <3> SUFFICES ASSUME NEW x \in Sends, op'[x].pc = "sent"
                 PROVE  \E y \in Nodes : To(x) = AddressToString(Cert[y])
      OBVIOUS
    <3>1. CASE x = s
      BY <2>3, <3>1
    <3>2. CASE x # s
      BY <2>2, <3>2 DEF Core, SentOnlyToCertified
    <3> QED
      BY <3>1, <3>2
  <2> QED
    BY <1>5, <1>8, <2>1, <2>5, <2>7, <2>8
<1>9. CASE /\ via # NoNode /\ k = NoKey
           /\ op' = [op EXCEPT ![s] = [pc |-> "wait", asks |-> 1]]
           /\ link' = Pushed(link, n, <<[to |-> via, pkt |-> PkAsk(n, To(s))]>>)
           /\ waiting' = [waiting EXCEPT ![n] = Append(@, s)]
  <2>1. 1 \in 0..MaxAsks
    BY TtlFacts
  <2>2. op' \in [Sends -> OpRec] /\ op'[s] = [pc |-> "wait", asks |-> 1]
    BY <1>5, <1>9, <2>1 DEF OpRec
  <2>3. \A x \in Sends : x # s => op'[x] = op[x]
    BY <1>5, <1>9
  <2>4. PkAsk(n, To(s)) \in T
    BY <1>2, AskGenuine
  <2> HIDE DEF T, via
  <2>5. link' \in [Links -> Seq(T)]
    BY <1>5, <1>9, <2>4, PushedOne
  <2>6. waiting[n] \in Seq(Sends)
    BY <1>2, <1>5
  <2>7. waiting' \in [Nodes -> Seq(Sends)]
    <3>1. Append(waiting[n], s) \in Seq(Sends)
      BY <2>6
    <3> QED
      BY <1>5, <1>9, <3>1
  <2>8. ASSUME NEW m \in Nodes, NEW i \in DOMAIN waiting'[m]
        PROVE  From(waiting'[m][i]) = m /\ op'[waiting'[m][i]].pc = "wait"
    <3>1. \/ waiting'[m][i] = s /\ m = n
          \/ \E j \in DOMAIN waiting[m] : waiting'[m][i] = waiting[m][j]
      <4>1. CASE m # n
        BY <1>5, <1>9, <2>8, <4>1
      <4>2. CASE m = n
        <5>1. waiting'[n] = Append(waiting[n], s)
          BY <1>2, <1>5, <1>9
        <5>2. i \in 1..(Len(waiting[n]) + 1)
          BY <2>6, <2>8, <4>2, <5>1
        <5>3. CASE i = Len(waiting[n]) + 1
          BY <2>6, <4>2, <5>1, <5>3
        <5>4. CASE i # Len(waiting[n]) + 1
          <6>1. i \in 1..Len(waiting[n])
            BY <2>6, <5>2, <5>4
          <6> QED
            BY <2>6, <4>2, <5>1, <6>1
        <5> QED
          BY <5>3, <5>4
      <4> QED
        BY <4>1, <4>2
    <3>2. CASE waiting'[m][i] = s /\ m = n
      BY <2>2, <3>2
    <3>3. CASE \E j \in DOMAIN waiting[m] : waiting'[m][i] = waiting[m][j]
      <4>1. PICK j \in DOMAIN waiting[m] : waiting'[m][i] = waiting[m][j]
        BY <3>3
      <4>2. waiting[m][j] \in Sends /\ From(waiting[m][j]) = m /\ op[waiting[m][j]].pc = "wait"
        BY InList DEF Core
      <4> QED
        BY <1>6, <2>3, <4>1, <4>2
    <3> QED
      BY <3>1, <3>2, <3>3
  <2>9. \A x \in Sends : op'[x].pc = "sent" => \E m \in Nodes : To(x) = AddressToString(Cert[m])
    BY <2>2, <2>3 DEF Core, SentOnlyToCertified
  <2> QED
    BY <2>2, <2>5, <2>7, <2>8, <2>9
<1> QED
  BY <1>7, <1>8, <1>9 DEF Send

\* A tick finds sends expired.
LEMMA ExpireStep ==
    ASSUME Types, Core, NEW n \in Nodes, NEW W, Expire(n, W)
    PROVE  Core' /\ gen' = gen /\ faults' \in 0..MaxFaults /\ plan' = plan
<1> DEFINE q == waiting[n]
           S == {k \in DOMAIN q : q[k] \in W /\ op[q[k]].asks < MaxAsks}
           again == At(q, S)
           out == [i \in DOMAIN again |->
                     [to |-> SelectRoute(n, To(again[i])), pkt |-> PkAsk(n, To(again[i]))]]
           T == Packets(plan, gen)
<1>1. /\ W \subseteq ToSet(q) /\ faults < MaxFaults /\ faults' = faults + 1
      /\ waiting' = [waiting EXCEPT ![n] = Without(q, W) \o again]
      /\ op' = [s \in Sends |-> IF s \notin W THEN op[s]
                  ELSE IF op[s].asks < MaxAsks THEN [op[s] EXCEPT !.asks = @ + 1]
                  ELSE [op[s] EXCEPT !.pc = "unreachable"]]
      /\ link' = Pushed(link, n, out)
      /\ up' = up /\ keys' = keys /\ gen' = gen /\ plan' = plan
  BY DEF Expire
<1>2. /\ link \in [Links -> Seq(T)] /\ op \in [Sends -> OpRec]
      /\ waiting \in [Nodes -> Seq(Sends)] /\ q \in Seq(Sends)
  BY DEF Core, LinkInv
<1>3. Sends' = Sends /\ \A x : From(x)' = From(x) /\ To(x)' = To(x)
  BY <1>1 DEF Sends, From, To
<1>4. /\ again \in Seq(Sends)
      /\ \A k \in DOMAIN again : \E i \in S : again[k] = q[i]
  <2>1. S \in SUBSET (DOMAIN q)
    OBVIOUS
  <2> HIDE DEF S, q
  <2> QED
    BY <1>2, <2>1, AtFacts
<1>5. /\ Without(q, W) \in Seq(Sends)
      /\ \A k \in DOMAIN Without(q, W) :
            \E i \in DOMAIN q : Without(q, W)[k] = q[i] /\ q[i] \notin W
  BY <1>2, WithoutFacts
<1>6. \A i \in DOMAIN q : q[i] \in Sends /\ From(q[i]) = n /\ op[q[i]].pc = "wait"
  BY InList DEF Core
<1>7. \A s \in W : s \in Sends /\ From(s) = n /\ op[s].pc = "wait"
  BY <1>1, <1>6 DEF ToSet
<1>8. \A k \in DOMAIN again :
         /\ again[k] \in W /\ again[k] \in Sends /\ op[again[k]].asks < MaxAsks
         /\ From(again[k]) = n
  BY <1>4, <1>6
<1> HIDE DEF again
<1>9. link' \in [Links -> Seq(T)]
  <2> DEFINE D == {out[i] : i \in DOMAIN again}
  <2>1. DOMAIN again = 1..Len(again) /\ Len(again) \in Nat
    BY <1>4
  <2>2. \A i \in DOMAIN again : out[i].pkt \in T
    <3> SUFFICES ASSUME NEW i \in DOMAIN again PROVE PkAsk(n, To(again[i])) \in T
      OBVIOUS
    <3>1. To(again[i]) \in String
      BY <1>8, PlanFacts DEF Types, Sends, To
    <3> QED
      BY <3>1, AskGenuine
  <2>3. \A o \in D : o.pkt \in T
    BY <2>2
  <2>4. \A i \in DOMAIN again : out[i] \in D
    OBVIOUS
  <2>5. out = [i \in 1..Len(again) |-> out[i]]
    BY <2>1
  <2> HIDE DEF out, D, T
  <2>6. out \in [1..Len(again) -> D]
    BY <2>1, <2>4, <2>5
  <2>7. out \in Seq(D)
    BY <2>1, <2>6
  <2> QED
    BY <1>1, <1>2, <2>3, <2>7, PushedFacts
<1> HIDE DEF out
<1>10. op' \in [Sends -> OpRec]
  <2> SUFFICES ASSUME NEW s \in Sends PROVE op'[s] \in OpRec
    BY <1>1
  <2>1. op[s] \in OpRec
    BY <1>2
  <2>2. op[s].asks \in 0..MaxAsks
    BY <2>1 DEF OpRec
  <2>3. op[s].asks < MaxAsks => op[s].asks + 1 \in 0..MaxAsks
    BY <2>2, TtlFacts
  <2>4. op'[s] = IF s \notin W THEN op[s]
                   ELSE IF op[s].asks < MaxAsks THEN [op[s] EXCEPT !.asks = @ + 1]
                   ELSE [op[s] EXCEPT !.pc = "unreachable"]
    BY <1>1
  <2> QED
    BY <2>1, <2>3, <2>4 DEF OpRec
<1>11. waiting' \in [Nodes -> Seq(Sends)]
  <2>1. Without(q, W) \o again \in Seq(Sends)
    BY <1>4, <1>5
  <2> QED
    BY <1>1, <1>2, <2>1
<1>12. ASSUME NEW s \in Sends, op[s].pc = "wait", s \notin W \/ op[s].asks < MaxAsks
       PROVE  op'[s].pc = "wait"
  <2>1. op[s] \in OpRec
    BY <1>2
  <2> QED
    BY <1>1, <1>12, <2>1 DEF OpRec
<1>13. ASSUME NEW m \in Nodes, NEW i \in DOMAIN waiting'[m]
       PROVE  From(waiting'[m][i]) = m /\ op'[waiting'[m][i]].pc = "wait"
  <2>1. CASE m # n
    <3>1. waiting'[m] = waiting[m]
      BY <1>1, <1>2, <2>1
    <3>2. waiting[m][i] \in Sends /\ From(waiting[m][i]) = m /\ op[waiting[m][i]].pc = "wait"
      BY <1>13, <3>1, InList DEF Core
    <3>3. waiting[m][i] \notin W
      BY <1>7, <2>1, <3>2
    <3> QED
      BY <1>12, <3>1, <3>2, <3>3
  <2>2. CASE m = n
    <3> DEFINE a == Without(q, W)
    <3>1. waiting'[m] = a \o again
      BY <1>1, <1>2, <2>2
    <3>2. a \in Seq(Sends) /\ again \in Seq(Sends)
      BY <1>4, <1>5
    <3>3. \/ \E j \in DOMAIN a : waiting'[m][i] = a[j]
          \/ \E j \in DOMAIN again : waiting'[m][i] = again[j]
      <4> HIDE DEF a
      <4>1. i \in 1..(Len(a) + Len(again)) /\ Len(a) \in Nat /\ Len(again) \in Nat
        BY <1>13, <3>1, <3>2
      <4>2. CASE i <= Len(a)
        BY <3>1, <3>2, <4>1, <4>2
      <4>3. CASE i > Len(a)
        <5>1. i - Len(a) \in 1..Len(again) /\ (a \o again)[i] = again[i - Len(a)]
          BY <3>2, <4>1, <4>3
        <5> QED
          BY <3>1, <3>2, <5>1
      <4> QED
        BY <4>1, <4>2, <4>3
    <3>4. CASE \E j \in DOMAIN a : waiting'[m][i] = a[j]
      <4>1. PICK j \in DOMAIN q : waiting'[m][i] = q[j] /\ q[j] \notin W
        BY <1>5, <3>4
      <4> QED
        BY <1>6, <1>12, <2>2, <4>1
    <3>5. CASE \E j \in DOMAIN again : waiting'[m][i] = again[j]
      <4>1. PICK j \in DOMAIN again : waiting'[m][i] = again[j]
        BY <3>5
      <4> QED
        BY <1>7, <1>8, <1>12, <2>2, <4>1
    <3> QED
      BY <3>3, <3>4, <3>5
  <2> QED
    BY <2>1, <2>2
<1>14. WaitInv'
  BY <1>3, <1>13 DEF WaitInv
<1>15. SentOnlyToCertified'
  <2>1. ASSUME NEW s \in Sends, op'[s].pc = "sent"
        PROVE  \E m \in Nodes : To(s) = AddressToString(Cert[m])
    <3>1. op[s] \in OpRec
      BY <1>2
    <3>2. op[s].pc = "sent"
      BY <1>1, <1>7, <2>1, <3>1 DEF OpRec
    <3> QED
      BY <3>2 DEF Core, SentOnlyToCertified
  <2> QED
    BY <1>3, <2>1 DEF SentOnlyToCertified
<1>16. faults' \in 0..MaxFaults
  BY <1>1, NetworkAssumption DEF Types
<1>17. LinkInv' /\ KeyInv'
  BY <1>1, <1>9 DEF LinkInv, KeyInv, Core
<1> QED
  BY <1>1, <1>3, <1>10, <1>11, <1>14, <1>15, <1>16, <1>17 DEF Core

\* What was genuine stays so when a node gets another key.
LEMMA GenuineStays ==
    ASSUME NEW pl, NEW g \in [Nodes -> {0, 1}], NEW h \in [Nodes -> {0, 1}],
           \A n \in Nodes : g[n] <= h[n]
    PROVE  /\ Packets(pl, g) \subseteq Packets(pl, h)
           /\ \A ks : Trusted(ks, pl, g) => Trusted(ks, pl, h)
<1>1. \A n \in Nodes : KeysOf(n, g) \subseteq KeysOf(n, h)
  <2> SUFFICES ASSUME NEW n \in Nodes, NEW x \in 0..g[n] PROVE x \in 0..h[n]
    BY DEF KeysOf
  <2>1. g[n] \in {0, 1} /\ h[n] \in {0, 1} /\ g[n] <= h[n]
    OBVIOUS
  <2> QED
    BY <2>1
<1>2. ASSUME NEW p \in Packets(pl, g) PROVE p \in Packets(pl, h)
  <2>1. p \in PacketRec(pl) /\ Genuine(p, pl, g)
    BY DEF Packets
  <2>2. PICK n \in Nodes :
          /\ p.src = Cert[n]
          /\ \/ p.proto = "pkask" /\ p.pub = NoKey
             \/ p.proto = "pkreply" /\ p.pub = NoKey /\ p.body \in KeysOf(n, g)
             \/ /\ p.proto = "avim" /\ p.s \in DOMAIN pl /\ pl[p.s].from = n
                /\ p.pub \in KeysOf(n, g) /\ p.dest = AddressFromString(pl[p.s].to)
                /\ \E m \in Nodes : /\ pl[p.s].to = AddressToString(Cert[m])
                                    /\ \E k \in KeysOf(m, g) :
                                          p.body = Sealed[<<k, p.pub, pl[p.s].text>>]
    BY <2>1 DEF Genuine
  <2>3. Genuine(p, pl, h)
    BY <1>1, <2>2 DEF Genuine
  <2> QED
    BY <2>1, <2>3 DEF Packets
<1>3. ASSUME NEW ks, Trusted(ks, pl, g) PROVE Trusted(ks, pl, h)
  BY <1>1, <1>3 DEF Trusted
<1> QED
  BY <1>2, <1>3

\* Links are cut: by an exception, by a break, by a restart with a new key.
LEMMA CutStep ==
    ASSUME Types, Core, NEW gone, Cut(gone), plan' = plan, gen' \in [Nodes -> {0, 1}],
           \A n \in Nodes : gen[n] <= gen'[n]
    PROVE  /\ op' \in [Sends -> OpRec]' /\ waiting' \in [Nodes -> Seq(Sends)]'
           /\ LinkInv' /\ WaitInv' /\ SentOnlyToCertified'
<1> DEFINE lost == {s \in Sends : /\ op[s].pc = "wait"
                                  /\ <<From(s), SelectRoute(From(s), To(s))>> \in gone}
           T == Packets(plan, gen)
           U == Packets(plan, gen')
<1>1. /\ link' = [l \in Links |-> IF l \in gone THEN <<>> ELSE link[l]]
      /\ waiting' = [n \in Nodes |-> Without(waiting[n], lost)]
      /\ op' = [s \in Sends |-> IF s \in lost THEN [op[s] EXCEPT !.pc = "dead"] ELSE op[s]]
  BY DEF Cut
<1> HIDE DEF lost
<1>2. Sends' = Sends /\ \A x : From(x)' = From(x) /\ To(x)' = To(x)
  BY DEF Sends, From, To
<1>3. /\ link \in [Links -> Seq(T)] /\ op \in [Sends -> OpRec]
      /\ waiting \in [Nodes -> Seq(Sends)]
  BY DEF Core, LinkInv
<1>4. T \subseteq U
  BY GenuineStays DEF Types
<1> HIDE DEF T, U
<1>5. link' \in [Links -> Seq(U)]
  <2> SUFFICES ASSUME NEW l \in Links PROVE link'[l] \in Seq(U)
    BY <1>1
  <2>1. link[l] \in Seq(T) /\ Len(link[l]) \in Nat
    BY <1>3
  <2>2. link[l] \in Seq(U)
    BY <1>4, <2>1
  <2> QED
    BY <1>1, <2>2
<1>6. op' \in [Sends -> OpRec]
  BY <1>1, <1>3 DEF OpRec
<1>7. \A n \in Nodes :
        /\ Without(waiting[n], lost) \in Seq(Sends)
        /\ \A k \in DOMAIN Without(waiting[n], lost) : \E i \in DOMAIN waiting[n] :
              Without(waiting[n], lost)[k] = waiting[n][i] /\ waiting[n][i] \notin lost
  BY <1>3, WithoutFacts
<1>8. waiting' \in [Nodes -> Seq(Sends)]
  BY <1>1, <1>7
<1>9. WaitInv'
  <2>1. ASSUME NEW n \in Nodes, NEW k \in DOMAIN waiting'[n]
        PROVE  From(waiting'[n][k]) = n /\ op'[waiting'[n][k]].pc = "wait"
    <3>1. PICK i \in DOMAIN waiting[n] : waiting'[n][k] = waiting[n][i] /\ waiting[n][i] \notin lost
      BY <1>1, <1>7, <2>1
    <3>2. waiting[n][i] \in Sends /\ From(waiting[n][i]) = n /\ op[waiting[n][i]].pc = "wait"
      BY InList DEF Core
    <3> QED
      BY <1>1, <3>1, <3>2
  <2> QED
    BY <1>2, <2>1 DEF WaitInv
<1>10. SentOnlyToCertified'
  <2>1. ASSUME NEW s \in Sends, op'[s].pc = "sent"
        PROVE  \E m \in Nodes : To(s) = AddressToString(Cert[m])
    <3>1. op[s] \in OpRec
      BY <1>3
    <3>2. op[s].pc = "sent"
      BY <1>1, <2>1, <3>1 DEF OpRec
    <3> QED
      BY <3>2 DEF Core, SentOnlyToCertified
  <2> QED
    BY <1>2, <2>1 DEF SentOnlyToCertified
<1>11. LinkInv'
  BY <1>5 DEF LinkInv, U
<1>12. OpRec' = OpRec
  BY DEF OpRec
<1> QED
  BY <1>2, <1>6, <1>8, <1>9, <1>10, <1>11, <1>12

-----------------------------------------------------------------------------
\* What is read from a link is a packet.
LEMMA HeadGenuine ==
    ASSUME Core, NEW l \in Links, link[l] # <<>>
    PROVE  Head(link[l]) \in Packets(plan, gen) /\ l[1] \in Nodes /\ l[2] \in Nodes
<1> DEFINE T == Packets(plan, gen)
<1>1. link[l] \in Seq(T)
  BY DEF Core, LinkInv
<1> HIDE DEF T
<1>2. Head(link[l]) \in T
  BY <1>1
<1> QED
  BY <1>2 DEF T, Links

\* A packet is handled with keys that may be trusted, and no packet is made.
LEMMA HandledNone ==
    ASSUME Types, Core, NEW l \in Links, link[l] # <<>>, NEW p \in Packets(plan, gen), NEW ks,
           Trusted(ks, plan, gen), Handled(l, p, ks, <<>>), up' = up
    PROVE  Core' /\ gen' = gen /\ faults' = faults /\ plan' = plan
<1> DEFINE O == {}
           out == <<>>
<1>1. out \in Seq(O) /\ \A o \in O : o.pkt \in Packets(plan, gen)
  OBVIOUS
<1>2. Handled(l, p, ks, out)
  OBVIOUS
<1> HIDE DEF O, out
<1> QED
  BY <1>1, <1>2, HandledStep

\* The same with one packet made.
LEMMA HandledOne ==
    ASSUME Types, Core, NEW l \in Links, link[l] # <<>>, NEW p \in Packets(plan, gen), NEW ks,
           Trusted(ks, plan, gen), NEW to, NEW made \in Packets(plan, gen),
           Handled(l, p, ks, <<[to |-> to, pkt |-> made]>>), up' = up
    PROVE  Core' /\ gen' = gen /\ faults' = faults /\ plan' = plan
<1> DEFINE o == [to |-> to, pkt |-> made]
           O == {o}
           out == <<o>>
<1>1. out \in Seq(O) /\ \A x \in O : x.pkt \in Packets(plan, gen)
  OBVIOUS
<1>2. Handled(l, p, ks, out)
  OBVIOUS
<1> HIDE DEF O, out
<1> QED
  BY <1>1, <1>2, HandledStep

\* The parts of the invariant.
LEMMA IsCore == IInv => Types /\ Core /\ GotInv
BY DEF IInv, Types, Core

\* A step that nobody receives anything in.
LEMMA NothingReceived ==
    ASSUME Types, GotInv, Core', plan' = plan, gen' \in [Nodes -> {0, 1}],
           faults' \in 0..MaxFaults, got' = got
    PROVE  IInv'
<1>1. \A x : From(x)' = From(x) /\ To(x)' = To(x)
  BY DEF From, To
<1>2. GotInv'
  BY <1>1 DEF GotInv
<1>3. Types'
  BY DEF Types, Core, GotRec
<1> QED
  BY <1>2, <1>3 DEF IInv, Core

\* Data is received.
LEMMA DataStep ==
    ASSUME IInv, NEW l \in Links, link[l] # <<>>, NEW p, p = Head(link[l]), RecvData(l, p)
    PROVE  IInv'
<1> DEFINE n == l[2]
<1>1. Types /\ Core /\ GotInv
  BY IsCore
<1>2. p \in Packets(plan, gen) /\ n \in Nodes
  BY <1>1, HeadGenuine
<1>3. /\ IsToMe(n, p.dest) /\ p.proto = "avim" /\ up' = up
      /\ Handled(l, p, Learned(n, p), <<>>)
  BY DEF RecvData
<1>4. PICK text \in {Opened(n, p)} \ {NoText} :
         got' = [got EXCEPT ![n] =
                   Append(@, [from |-> AddressToString(p.src), text |-> text, s |-> p.s])]
  BY DEF RecvData
<1>5. Trusted(Learned(n, p), plan, gen)
  BY <1>1, <1>2, LearnedTrusted DEF Core, KeyInv
<1>6. Core' /\ gen' = gen /\ faults' = faults /\ plan' = plan
  BY <1>1, <1>2, <1>3, <1>5, HandledNone
<1>7. /\ p.s \in Sends /\ Opened(n, p) \in {NoText, plan[p.s].text}
      /\ p.src = Cert[From(p.s)] /\ To(p.s).user = Cert[n].user
  BY <1>1, <1>2, <1>3, OpenedText
<1>8. text = plan[p.s].text
  BY <1>4, <1>7
<1> DEFINE r == [from |-> AddressToString(p.src), text |-> text, s |-> p.s]
<1>9. r \in GotRec(plan)
  <2>1. From(p.s) \in Nodes /\ text \in Texts /\ p.s \in DOMAIN plan
    BY <1>1, <1>7, <1>8, PlanFacts DEF Types, Sends, From
  <2>2. AddressToString(p.src) \in String
    BY <1>7, <2>1, AddressFacts
  <2> QED
    BY <2>1, <2>2 DEF GotRec
<1>10. /\ r.text = plan[r.s].text /\ r.from = AddressToString(Cert[From(r.s)])
       /\ To(r.s).user = Cert[n].user
  BY <1>7, <1>8
<1>11. got' = [got EXCEPT ![n] = Append(@, r)]
  BY <1>4
<1> HIDE DEF r
<1>12. got \in [Nodes -> Seq(GotRec(plan))] /\ got[n] \in Seq(GotRec(plan))
  BY <1>1, <1>2 DEF Types
<1>13. got' \in [Nodes -> Seq(GotRec(plan))]
  <2>1. Append(got[n], r) \in Seq(GotRec(plan))
    BY <1>9, <1>12
  <2> QED
    BY <1>11, <1>12, <2>1
<1>14. \A x : From(x)' = From(x) /\ To(x)' = To(x)
  BY <1>6 DEF From, To
<1>15. ASSUME NEW y \in Nodes, NEW i \in DOMAIN got'[y]
       PROVE  LET m == got'[y][i] IN
              /\ m.text = plan[m.s].text /\ m.from = AddressToString(Cert[From(m.s)])
              /\ To(m.s).user = Cert[y].user
  <2>1. CASE y = n /\ got'[y][i] = r
    BY <1>10, <2>1
  <2>2. CASE \E j \in DOMAIN got[y] : got'[y][i] = got[y][j]
    BY <1>1, <2>2 DEF GotInv
  <2>3. \/ y = n /\ got'[y][i] = r
        \/ \E j \in DOMAIN got[y] : got'[y][i] = got[y][j]
    <3>1. CASE y # n
      BY <1>11, <1>12, <1>15, <3>1
    <3>2. CASE y = n
      <4>1. got'[n] = Append(got[n], r)
        BY <1>2, <1>11, <1>12
      <4>2. i \in 1..(Len(got[n]) + 1) /\ Len(got[n]) \in Nat
        BY <1>12, <1>15, <3>2, <4>1
      <4>3. CASE i = Len(got[n]) + 1
        BY <1>12, <3>2, <4>1, <4>3
      <4>4. CASE i # Len(got[n]) + 1
        <5>1. i \in 1..Len(got[n])
          BY <4>2, <4>4
        <5> QED
          BY <1>12, <3>2, <4>1, <5>1
      <4> QED
        BY <4>3, <4>4
    <3> QED
      BY <3>1, <3>2
  <2> QED
    BY <2>1, <2>2, <2>3
<1>16. GotInv'
  BY <1>6, <1>14, <1>15 DEF GotInv
<1>17. Types'
  BY <1>1, <1>6, <1>13 DEF Types, Core, GotRec
<1> QED
  BY <1>6, <1>16, <1>17 DEF IInv, Core

\* A packet is read, whatever it is.
LEMMA ReceiveStep ==
    ASSUME IInv, NEW l \in Links, Receive(l)
    PROVE  IInv'
<1> DEFINE n == l[2]
<1>1. Types /\ Core /\ GotInv
  BY IsCore
<1>2. link[l] # <<>>
  BY DEF Receive
<1>3. PICK p : p = Head(link[l])
  OBVIOUS
<1>4. p \in Packets(plan, gen) /\ l[1] \in Nodes /\ n \in Nodes
  BY <1>1, <1>2, <1>3, HeadGenuine
<1>5. \/ RecvAsk(l, p) \/ RecvReply(l, p) \/ RecvData(l, p) \/ RecvBad(l, p)
      \/ Forward(l, p) \/ Drop(l, p)
  BY <1>3 DEF Receive
<1>6. Trusted(keys[n], plan, gen)
  BY <1>1, <1>4 DEF Core, KeyInv
<1>7. Trusted(Learned(n, p), plan, gen)
  BY <1>1, <1>4, <1>6, LearnedTrusted
<1>8. gen \in [Nodes -> {0, 1}] /\ faults \in 0..MaxFaults
  BY <1>1 DEF Types
<1>9. CASE RecvAsk(l, p)
  <2>1. PICK reply : reply = PkReply(n, AddressToString(p.src))
    OBVIOUS
  <2>2. /\ Handled(l, p, Learned(n, p), <<[to |-> l[1], pkt |-> reply]>>)
        /\ up' = up /\ got' = got
    BY <1>9, <2>1 DEF RecvAsk
  <2>3. AddressToString(p.src) \in String
    <3>1. p \in PacketRec(plan)
      BY <1>4 DEF Packets
    <3>2. p.src \in Address
      BY <3>1 DEF PacketRec
    <3> QED
      BY <3>2, AddressFacts
  <2>4. reply \in Packets(plan, gen)
    BY <1>1, <1>4, <2>1, <2>3, ReplyGenuine
  <2>5. Core' /\ gen' = gen /\ faults' = faults /\ plan' = plan
    BY <1>1, <1>2, <1>4, <1>7, <2>2, <2>4, HandledOne
  <2> QED
    BY <1>1, <1>8, <2>2, <2>5, NothingReceived
<1>10. CASE RecvReply(l, p)
  <2>1. PICK ks : ks = [keys[n] EXCEPT ![AddressToString(p.src)] = p.body]
    OBVIOUS
  <2>2. p.proto = "pkreply" /\ Handled(l, p, ks, <<>>) /\ up' = up /\ got' = got
    BY <1>10, <2>1 DEF RecvReply
  <2>3. Trusted(ks, plan, gen)
    BY <1>1, <1>4, <1>6, <2>1, <2>2, ReplyTrusted
  <2>4. Core' /\ gen' = gen /\ faults' = faults /\ plan' = plan
    BY <1>1, <1>2, <1>4, <2>2, <2>3, HandledNone
  <2> QED
    BY <1>1, <1>8, <2>2, <2>4, NothingReceived
<1>11. CASE RecvData(l, p)
  BY <1>2, <1>3, <1>11, DataStep
<1>12. CASE RecvBad(l, p)
  <2>1. /\ Cut(LinksOf(n)) /\ up' = up \ LinksOf(n) /\ keys' = keys /\ got' = got /\ gen' = gen
        /\ faults' = faults /\ plan' = plan
    BY <1>12 DEF RecvBad
  <2>2. \A y \in Nodes : gen[y] <= gen'[y]
    BY <1>8, <2>1
  <2>3. /\ op' \in [Sends -> OpRec]' /\ waiting' \in [Nodes -> Seq(Sends)]'
        /\ LinkInv' /\ WaitInv' /\ SentOnlyToCertified'
    <3>1. gen' \in [Nodes -> {0, 1}]
      BY <1>8, <2>1
    <3>2. PICK gone : gone = LinksOf(n)
      OBVIOUS
    <3>3. Cut(gone)
      BY <2>1, <3>2
    <3> QED
      BY <1>1, <2>1, <2>2, <3>1, <3>3, CutStep
  <2>4. KeyInv' /\ up' \subseteq Links
    BY <1>1, <2>1 DEF Core, KeyInv
  <2>5. Core'
    BY <2>3, <2>4 DEF Core
  <2> QED
    BY <1>1, <1>8, <2>1, <2>5, NothingReceived
<1>13. CASE Forward(l, p)
  <2>1. PICK to : to = SelectRoute(n, AddressToString(p.dest))
    OBVIOUS
  <2>2. PICK older : older = Older(l, p, to)
    OBVIOUS
  <2>3. /\ Lives(p) /\ Handled(l, p, Learned(n, p), <<[to |-> to, pkt |-> older]>>)
        /\ up' = up /\ got' = got
    BY <1>13, <2>1, <2>2 DEF Forward
  <2>4. older \in Packets(plan, gen)
    BY <1>4, <2>2, <2>3, OlderGenuine
  <2>5. Core' /\ gen' = gen /\ faults' = faults /\ plan' = plan
    BY <1>1, <1>2, <1>4, <1>7, <2>3, <2>4, HandledOne
  <2> QED
    BY <1>1, <1>8, <2>3, <2>5, NothingReceived
<1>14. CASE Drop(l, p)
  <2>1. Handled(l, p, Learned(n, p), <<>>) /\ up' = up /\ got' = got
    BY <1>14 DEF Drop
  <2>2. Core' /\ gen' = gen /\ faults' = faults /\ plan' = plan
    BY <1>1, <1>2, <1>4, <1>7, <2>1, HandledNone
  <2> QED
    BY <1>1, <1>8, <2>1, <2>2, NothingReceived
<1> QED
  BY <1>5, <1>9, <1>10, <1>11, <1>12, <1>13, <1>14

\* A link breaks.
LEMMA BreakStep ==
    ASSUME IInv, NEW l \in Links, Break(l)
    PROVE  IInv'
<1>1. Types /\ Core /\ GotInv
  BY IsCore
<1>2. PICK gone : gone = {l, <<l[2], l[1]>>}
  OBVIOUS
<1>3. /\ faults < MaxFaults /\ faults' = faults + 1 /\ Cut(gone) /\ up' = up \ gone
      /\ keys' = keys /\ got' = got /\ gen' = gen /\ plan' = plan
  BY <1>2 DEF Break
<1>4. gen \in [Nodes -> {0, 1}] /\ gen' \in [Nodes -> {0, 1}] /\ \A y \in Nodes : gen[y] <= gen'[y]
  BY <1>1, <1>3 DEF Types
<1>5. faults' \in 0..MaxFaults
  BY <1>1, <1>3, NetworkAssumption DEF Types
<1>6. /\ op' \in [Sends -> OpRec]' /\ waiting' \in [Nodes -> Seq(Sends)]'
      /\ LinkInv' /\ WaitInv' /\ SentOnlyToCertified'
  BY <1>1, <1>3, <1>4, CutStep
<1>7. KeyInv' /\ up' \subseteq Links
  BY <1>1, <1>3 DEF Core, KeyInv
<1>8. Core'
  BY <1>6, <1>7 DEF Core
<1> QED
  BY <1>1, <1>3, <1>4, <1>5, <1>8, NothingReceived

\* A node starts again with a new key.
LEMMA RestartStep ==
    ASSUME IInv, NEW n \in Nodes, Restart(n)
    PROVE  IInv'
<1>1. Types /\ Core /\ GotInv
  BY IsCore
<1>2. PICK gone : gone = LinksOf(n)
  OBVIOUS
<1>3. /\ gen[n] = 0 /\ faults < MaxFaults /\ faults' = faults + 1
      /\ gen' = [gen EXCEPT ![n] = 1]
      /\ keys' = [keys EXCEPT ![n] = [str \in DOMAIN @ |-> NoKey]]
      /\ Cut(gone) /\ up' = up /\ got' = got /\ plan' = plan
  BY <1>2 DEF Restart
<1>4. gen \in [Nodes -> {0, 1}] /\ gen' \in [Nodes -> {0, 1}] /\ \A y \in Nodes : gen[y] <= gen'[y]
  <2>1. gen \in [Nodes -> {0, 1}]
    BY <1>1 DEF Types
  <2>2. gen' \in [Nodes -> {0, 1}] /\ \A y \in Nodes : gen'[y] = IF y = n THEN 1 ELSE gen[y]
    BY <1>3, <2>1
  <2>3. ASSUME NEW y \in Nodes PROVE gen[y] <= gen'[y]
    <3>1. gen[y] \in {0, 1} /\ gen'[y] = IF y = n THEN 1 ELSE gen[y]
      BY <2>1, <2>2
    <3> QED
      BY <1>3, <3>1
  <2> QED
    BY <2>1, <2>2, <2>3
<1>5. faults' \in 0..MaxFaults
  BY <1>1, <1>3, NetworkAssumption DEF Types
<1>6. /\ op' \in [Sends -> OpRec]' /\ waiting' \in [Nodes -> Seq(Sends)]'
      /\ LinkInv' /\ WaitInv' /\ SentOnlyToCertified'
  BY <1>1, <1>3, <1>4, CutStep
<1>7. KeyInv'
  <2>1. DOMAIN keys = Nodes /\ \A m \in Nodes : Trusted(keys[m], plan, gen)
    BY <1>1 DEF Core, KeyInv
  <2>2. DOMAIN keys' = Nodes
    BY <1>3, <2>1
  <2>3. ASSUME NEW m \in Nodes PROVE Trusted(keys'[m], plan, gen')
    <3>1. CASE m = n
      <4>1. DOMAIN keys[n] = Strings(plan)
        BY <2>1 DEF Trusted
      <4>2. keys'[m] = [str \in Strings(plan) |-> NoKey]
        BY <1>3, <2>1, <3>1, <4>1
      <4> QED
        BY <4>2 DEF Trusted
    <3>2. CASE m # n
      <4>1. keys'[m] = keys[m]
        BY <1>3, <2>1, <3>2
      <4>2. \A ks : Trusted(ks, plan, gen) => Trusted(ks, plan, gen')
        BY <1>4, GenuineStays
      <4> QED
        BY <2>1, <4>1, <4>2
    <3> QED
      BY <3>1, <3>2
  <2> QED
    BY <1>3, <2>2, <2>3 DEF KeyInv
<1>8. Core'
  BY <1>1, <1>3, <1>6, <1>7 DEF Core
<1> QED
  BY <1>1, <1>3, <1>4, <1>5, <1>8, NothingReceived

-----------------------------------------------------------------------------
\* Nothing is sent and nothing is known at first.
LEMMA StartsWell == Init => IInv
<1> SUFFICES ASSUME Init PROVE IInv
  OBVIOUS
<1>1. Types
  <2>1. op \in [Sends -> OpRec]
    <3>1. 0 \in 0..MaxAsks
      BY TtlFacts
    <3> QED
      BY <3>1 DEF Init, OpRec
  <2>2. waiting \in [Nodes -> Seq(Sends)] /\ got \in [Nodes -> Seq(GotRec(plan))]
    BY DEF Init
  <2>3. gen \in [Nodes -> {0, 1}] /\ faults \in 0..MaxFaults /\ plan \in Plans /\ up \subseteq Links
    BY NetworkAssumption DEF Init
  <2> QED
    BY <2>1, <2>2, <2>3 DEF Types
<1>2. LinkInv
  BY DEF Init, LinkInv
<1>3. KeyInv
  <2>1. keys = [n \in Nodes |-> [str \in Strings(plan) |-> NoKey]]
    BY DEF Init, Strings, To, Sends
  <2> QED
    BY <2>1 DEF KeyInv, Trusted
<1>4. WaitInv /\ GotInv
  BY DEF Init, WaitInv, GotInv
<1>5. SentOnlyToCertified
  BY DEF Init, SentOnlyToCertified
<1> QED
  BY <1>1, <1>2, <1>3, <1>4, <1>5 DEF IInv

\* The invariant holds: packets are genuine, stored keys are their owners', lists
\* hold the sends that wait, and what was received is what was sent.
THEOREM Invariance == Spec => []IInv
<1>1. Init => IInv
  BY StartsWell
<1>2. IInv /\ [Next]_vars => IInv'
  <2> SUFFICES ASSUME IInv, [Next]_vars PROVE IInv'
    OBVIOUS
  <2>0. /\ Types /\ Core /\ GotInv /\ gen \in [Nodes -> {0, 1}] /\ faults \in 0..MaxFaults
    BY IsCore DEF Types
  <2>1. ASSUME NEW s \in Sends, Send(s) PROVE IInv'
    <3>1. Core' /\ gen' = gen /\ faults' = faults /\ plan' = plan
      BY <2>0, <2>1, SendStep
    <3>2. got' = got
      BY <2>1 DEF Send
    <3> QED
      BY <2>0, <3>1, <3>2, NothingReceived
  <2>2. ASSUME NEW n \in Nodes, NEW W \in SUBSET ToSet(waiting[n]), Expire(n, W) PROVE IInv'
    <3>1. Core' /\ gen' = gen /\ faults' \in 0..MaxFaults /\ plan' = plan
      BY <2>0, <2>2, ExpireStep
    <3>2. got' = got
      BY <2>2 DEF Expire
    <3> QED
      BY <2>0, <3>1, <3>2, NothingReceived
  <2>3. ASSUME NEW l \in Links, Receive(l) PROVE IInv'
    BY <2>3, ReceiveStep
  <2>4. ASSUME NEW l \in Links, Break(l) PROVE IInv'
    BY <2>4, BreakStep
  <2>5. ASSUME NEW n \in Nodes, Restart(n) PROVE IInv'
    BY <2>5, RestartStep
  <2>6. CASE UNCHANGED vars
    <3>1. /\ plan' = plan /\ link' = link /\ up' = up /\ keys' = keys /\ op' = op
          /\ waiting' = waiting /\ got' = got /\ gen' = gen /\ faults' = faults
      BY <2>6 DEF vars
    <3>2. Core'
      BY <2>0, <3>1 DEF Core, LinkInv, KeyInv, WaitInv, SentOnlyToCertified, Sends, From, To, OpRec
    <3> QED
      BY <2>0, <3>1, <3>2, NothingReceived
  <2> QED
    BY <2>1, <2>2, <2>3, <2>4, <2>5, <2>6 DEF Next
<1> QED
  BY <1>1, <1>2, PTL DEF Spec

\* The state of the network stays within its types: a packet is one of the three
\* kinds and has a time to live that is not over, and whoever is in a list waits.
THEOREM TypeCorrect == Spec => []TypeOK
<1>1. IInv => TypeOK
  <2> SUFFICES ASSUME IInv PROVE TypeOK
    OBVIOUS
  <2>1. Types /\ Core
    BY IsCore
  <2>2. ASSUME NEW l \in Links, NEW i \in DOMAIN link[l]
        PROVE  LET p == link[l][i] IN
               /\ p.proto \in {"pkask", "pkreply", "avim"} /\ p.src \in Address /\ p.dest \in Address
               /\ p.ttl \in 1..Ttl /\ p.pub \in Key \cup {NoKey} /\ p.s \in Sends \cup {NoSend}
    <3>1. link[l] \in Seq(Packets(plan, gen))
      BY <2>1 DEF Core, LinkInv
    <3>2. link[l][i] \in Packets(plan, gen)
      BY <2>2, <3>1
    <3>3. link[l][i] \in PacketRec(plan)
      BY <3>2 DEF Packets
    <3> QED
      BY <3>3 DEF PacketRec, Sends
  <2>3. \A n \in Nodes : \A str \in DOMAIN keys[n] : keys[n][str] \in Key \cup {NoKey}
    BY <2>1 DEF Core, KeyInv, Trusted
  <2>4. \A n \in Nodes : ToSet(waiting[n]) \subseteq {s \in Sends : From(s) = n /\ op[s].pc = "wait"}
    BY <2>1, InList DEF ToSet, Core
  <2> QED
    BY <2>1, <2>2, <2>3, <2>4 DEF TypeOK, Types, OpRec
<1> QED
  BY <1>1, Invariance, PTL

\* What is delivered is what was sent, whatever the sizes of the keys, the lengths
\* of the texts, the way of a packet and the keys that changed meanwhile.
THEOREM DeliversIntact == Spec => []DeliveredIntact
<1>1. IInv => DeliveredIntact
  <2> SUFFICES ASSUME IInv PROVE DeliveredIntact
    OBVIOUS
  <2>1. Types /\ Core /\ GotInv
    BY IsCore
  <2>2. ASSUME NEW l \in Links, NEW i \in DOMAIN link[l], NEW n \in Nodes,
               link[l][i].proto = "avim", IsToMe(n, link[l][i].dest), gen[n] = 0
        PROVE  Opened(n, link[l][i]) = plan[link[l][i].s].text
    <3>1. link[l] \in Seq(Packets(plan, gen))
      BY <2>1 DEF Core, LinkInv
    <3>2. PICK p : p = link[l][i]
      OBVIOUS
    <3>3. p \in Packets(plan, gen)
      BY <2>2, <3>1, <3>2
    <3>4. Opened(n, p) = plan[p.s].text
      BY <2>1, <2>2, <3>2, <3>3, OpenedText
    <3> QED
      BY <3>2, <3>4
  <2> QED
    BY <2>1, <2>2 DEF DeliveredIntact, GotInv
<1> QED
  BY <1>1, Invariance, PTL

\* Data leaves a node only for the string that the certificate of a node says.
THEOREM OnlyToCertified == Spec => []SentOnlyToCertified
<1>1. IInv => SentOnlyToCertified
  BY DEF IInv
<1> QED
  BY <1>1, Invariance, PTL

-----------------------------------------------------------------------------
(***************************************************************************)
(* Where data is.                                                          *)
(***************************************************************************)
\* The places on links, and in buffers, with something of send s.
Spots(f, s) == UNION {{<<l, i>> : i \in {j \in DOMAIN f[l] : f[l][j].s = s}} : l \in Links}
Arrivals(f, s) == UNION {{<<n, i>> : i \in {j \in DOMAIN f[n] : f[n][j].s = s}} : n \in Nodes}
Single(S) == \E x : S = {x}

\* Positions in order: none is missing or there twice.
LEMMA OrderedFacts ==
    ASSUME NEW m \in Nat, NEW S \in SUBSET (1..m)
    PROVE  /\ Cardinality(S) \in Nat /\ Ordered(S) \in [1..Cardinality(S) -> S]
           /\ \A j, k \in 1..Cardinality(S) : Ordered(S)[j] = Ordered(S)[k] => j = k
           /\ \A x \in S : \E k \in 1..Cardinality(S) : Ordered(S)[k] = x
<1> DEFINE n == Cardinality(S)
           P(p) == \A j, k \in DOMAIN p : j < k => p[j] < p[k]
           o == Ordered(S)
<1>1. IsFiniteSet(S) /\ n \in Nat /\ \E p \in [1..n -> S] : Increasing(p, n)
  BY CanBeOrdered
<1>2. \E p \in [1..n -> S] : P(p)
  BY <1>1 DEF Increasing
<1>3. o = CHOOSE p \in [1..n -> S] : P(p)
  BY DEF Ordered
<1>4. o \in [1..n -> S] /\ P(o)
  <2> HIDE DEF P
  <2> QED
    BY <1>2, <1>3
<1> HIDE DEF o
<1>5. ASSUME NEW j \in 1..n, NEW k \in 1..n, o[j] = o[k] PROVE j = k
  <2>1. o[j] \in S /\ o[k] \in S
    BY <1>4
  <2>2. o[j] \in Nat /\ o[k] \in Nat
    <3>1. \A x \in S : x \in 1..m
      OBVIOUS
    <3>2. o[j] \in 1..m /\ o[k] \in 1..m
      BY <2>1, <3>1
    <3> QED
      BY <3>2
  <2>3. ~ (o[j] < o[k]) /\ ~ (o[k] < o[j])
    BY <1>5, <2>2
  <2>4. ~ (j < k) /\ ~ (k < j)
    BY <1>4, <2>3
  <2> QED
    BY <2>4
<1>6. \A x \in S : \E k \in 1..n : o[k] = x
  <2>1. o \in Injection(1..n, S)
    BY <1>4, <1>5 DEF Injection, IsInjective
  <2>2. Cardinality(1..n) = n
    <3>1. Cardinality(1..n) = IF 1 > n THEN 0 ELSE n - 1 + 1
      BY <1>1, FS_Interval
    <3> QED
      BY <1>1, <3>1
  <2>3. o \in Surjection(1..n, S)
    BY <1>1, <2>1, <2>2, FS_Injection
  <2> QED
    BY <2>3 DEF Surjection
<1> QED
  BY <1>1, <1>4, <1>5, <1>6 DEF o

\* What is taken out of a list without repetitions has none.
LEMMA AtOnce ==
    ASSUME NEW T, NEW q \in Seq(T), NEW S \in SUBSET (DOMAIN q),
           \A i, j \in DOMAIN q : q[i] = q[j] => i = j
    PROVE  \A j, k \in DOMAIN At(q, S) : At(q, S)[j] = At(q, S)[k] => j = k
<1> DEFINE n == Cardinality(S)
           o == Ordered(S)
<1>1. Len(q) \in Nat /\ S \in SUBSET (1..Len(q)) /\ DOMAIN q = 1..Len(q)
  OBVIOUS
<1>2. n \in Nat /\ o \in [1..n -> S] /\ \A j, k \in 1..n : o[j] = o[k] => j = k
  BY <1>1, OrderedFacts
<1>3. At(q, S) = [k \in 1..n |-> q[o[k]]]
  BY DEF At
<1> HIDE DEF n, o
<1>4. \A k \in 1..n : o[k] \in DOMAIN q
  BY <1>2
<1> QED
  BY <1>2, <1>3, <1>4

\* The element of out that is at place j of link l, behind those of f.
Slot(f, out, l, j) == Ordered({k \in DOMAIN out : out[k].to = l[2]})[j - Len(f[l])]

\* What was on link l stays in its place; what is put on it comes from out, each
\* element to its link, and to one place there.
PlacedOn(l, f, g, n, out) ==
    /\ \A j \in DOMAIN f[l] : j \in DOMAIN g[l] /\ g[l][j] = f[l][j]
    /\ \A j \in DOMAIN g[l] \ DOMAIN f[l] :
          /\ l[1] = n /\ l \in up /\ Slot(f, out, l, j) \in DOMAIN out
          /\ out[Slot(f, out, l, j)].to = l[2] /\ g[l][j] = out[Slot(f, out, l, j)].pkt
          /\ \A i \in DOMAIN g[l] \ DOMAIN f[l] :
                Slot(f, out, l, i) = Slot(f, out, l, j) => i = j
    /\ \A k \in DOMAIN out : l = <<n, out[k].to>> /\ l \in up =>
          \E j \in DOMAIN g[l] \ DOMAIN f[l] : Slot(f, out, l, j) = k

\* Writing packets to interfaces puts them on the links like that.
LEMMA PushedPlaces ==
    ASSUME NEW T, NEW f \in [Links -> Seq(T)], NEW n, NEW O, NEW out \in Seq(O), NEW l \in Links
    PROVE  PlacedOn(l, f, Pushed(f, n, out), n, out)
<1> DEFINE g == Pushed(f, n, out)
<1> SUFFICES PlacedOn(l, f, g, n, out)
  OBVIOUS
<1> DEFINE S == {k \in DOMAIN out : out[k].to = l[2]}
           c == Cardinality(S)
           o == Ordered(S)
           len == Len(f[l])
           pkts == [i \in 1..c |-> out[o[i]].pkt]
<1>1. Len(out) \in Nat /\ S \in SUBSET (1..Len(out)) /\ DOMAIN out = 1..Len(out)
  OBVIOUS
<1>2. /\ c \in Nat /\ o \in [1..c -> S] /\ \A j, k \in 1..c : o[j] = o[k] => j = k
      /\ \A x \in S : \E k \in 1..c : o[k] = x
  <2> HIDE DEF S
  <2> QED
    BY <1>1, OrderedFacts
<1>3. At(out, S) = [i \in 1..c |-> out[o[i]]]
  BY DEF At
<1>4. g[l] = IF l[1] # n \/ l \notin up THEN f[l] ELSE f[l] \o pkts
  <2>1. g[l] = IF l[1] # n \/ l \notin up THEN f[l]
                 ELSE f[l] \o [i \in DOMAIN At(out, S) |-> At(out, S)[i].pkt]
    BY DEF Pushed
  <2>2. [i \in DOMAIN At(out, S) |-> At(out, S)[i].pkt] = pkts
    BY <1>3
  <2> QED
    BY <2>1, <2>2
<1>5. \A j : Slot(f, out, l, j) = o[j - len]
  BY DEF Slot
<1>6. \A k \in DOMAIN out : k \in S <=> out[k].to = l[2]
  OBVIOUS
<1>7. f[l] \in Seq(T) /\ len \in Nat /\ DOMAIN f[l] = 1..len
  OBVIOUS
<1>8. \A k \in S : k \in DOMAIN out
  OBVIOUS
<1> HIDE DEF g, S, c, o
<1>9. CASE l[1] # n \/ l \notin up
  BY <1>4, <1>9 DEF PlacedOn
<1>10. CASE l[1] = n /\ l \in up
  <2>1. Len(pkts) = c /\ DOMAIN pkts = 1..c /\ pkts = [i \in 1..c |-> pkts[i]]
    BY <1>2
  <2>2. \A i \in 1..c : pkts[i] = out[o[i]].pkt
    OBVIOUS
  <2> HIDE DEF pkts
  <2> DEFINE P == {pkts[i] : i \in 1..c} \cup T
  <2>3. f[l] \in Seq(P) /\ pkts \in Seq(P)
    <3>1. \A i \in 1..c : pkts[i] \in P
      OBVIOUS
    <3>2. \A i \in 1..len : f[l][i] \in P
      BY <1>7
    <3> HIDE DEF P
    <3>3. pkts \in [1..c -> P] /\ f[l] \in [1..len -> P]
      BY <1>7, <2>1, <3>1, <3>2
    <3> HIDE DEF len
    <3>4. pkts \in Seq(P)
      BY <1>2, <3>3
    <3>5. f[l] \in Seq(P)
      BY <1>7, <3>3
    <3> QED
      BY <3>4, <3>5
  <2> HIDE DEF P
  <2>4. /\ Len(g[l]) = len + c /\ DOMAIN g[l] = 1..(len + c)
        /\ \A j \in 1..len : g[l][j] = f[l][j]
        /\ \A j \in 1..(len + c) : j > len => g[l][j] = pkts[j - len]
    BY <1>2, <1>4, <1>7, <1>10, <2>1, <2>3
  <2> HIDE DEF len
  <2>5. \A j \in DOMAIN g[l] \ DOMAIN f[l] : j - len \in 1..c /\ j > len
    BY <1>2, <1>7, <2>4
  <2>6. \A i \in 1..c : len + i \in DOMAIN g[l] \ DOMAIN f[l] /\ (len + i) - len = i
    BY <1>2, <1>7, <2>4
  <2>7. \A j \in DOMAIN f[l] : j \in DOMAIN g[l] /\ g[l][j] = f[l][j]
    BY <1>2, <1>7, <2>4
  <2>8. ASSUME NEW j \in DOMAIN g[l] \ DOMAIN f[l]
        PROVE  /\ Slot(f, out, l, j) \in DOMAIN out /\ out[Slot(f, out, l, j)].to = l[2]
               /\ g[l][j] = out[Slot(f, out, l, j)].pkt
               /\ \A i \in DOMAIN g[l] \ DOMAIN f[l] :
                     Slot(f, out, l, i) = Slot(f, out, l, j) => i = j
    <3>1. j - len \in 1..c /\ j > len /\ j \in Int
      BY <1>2, <1>7, <2>4, <2>5
    <3>2. o[j - len] \in S /\ g[l][j] = out[o[j - len]].pkt
      BY <1>2, <2>2, <2>4, <3>1
    <3>3. ASSUME NEW i \in DOMAIN g[l] \ DOMAIN f[l], o[i - len] = o[j - len]
          PROVE  i = j
      <4>1. i - len \in 1..c /\ i \in Int
        BY <1>2, <1>7, <2>4, <2>5
      <4>2. i - len = j - len
        BY <1>2, <3>1, <3>3, <4>1
      <4> QED
        BY <1>7, <3>1, <4>1, <4>2
    <3> QED
      BY <1>5, <1>6, <1>8, <3>2, <3>3
  <2>9. ASSUME NEW k \in DOMAIN out, l = <<n, out[k].to>>
        PROVE  \E j \in DOMAIN g[l] \ DOMAIN f[l] : Slot(f, out, l, j) = k
    <3>1. k \in S
      BY <1>6, <2>9
    <3>2. PICK i \in 1..c : o[i] = k
      BY <1>2, <3>1
    <3> QED
      BY <1>5, <2>6, <3>2
  <2> QED
    BY <1>10, <2>7, <2>8, <2>9 DEF PlacedOn
<1> QED
  BY <1>9, <1>10

\* Being one of the places.
LEMMA SpotIs ==
    ASSUME NEW f, NEW s
    PROVE  /\ \A l \in Links : \A i \in DOMAIN f[l] : f[l][i].s = s => <<l, i>> \in Spots(f, s)
           /\ \A x \in Spots(f, s) :
                 \E l \in Links : \E i \in DOMAIN f[l] : x = <<l, i>> /\ f[l][i].s = s
BY DEF Spots

\* What is put on links that is not of send s leaves its places alone.
LEMMA SpotsNone ==
    ASSUME NEW T, NEW f \in [Links -> Seq(T)], NEW n, NEW O, NEW out \in Seq(O), NEW s,
           \A k \in DOMAIN out : out[k].pkt.s # s
    PROVE  Spots(Pushed(f, n, out), s) = Spots(f, s)
<1> DEFINE g == Pushed(f, n, out)
<1>1. \A l \in Links : PlacedOn(l, f, g, n, out)
  BY PushedPlaces
<1> HIDE DEF g
<1>2. ASSUME NEW x \in Spots(f, s) PROVE x \in Spots(g, s)
  <2>1. PICK l \in Links : \E i \in DOMAIN f[l] : x = <<l, i>> /\ f[l][i].s = s
    BY SpotIs
  <2> QED
    BY <1>1, <2>1, SpotIs DEF PlacedOn
<1>3. ASSUME NEW x \in Spots(g, s) PROVE x \in Spots(f, s)
  <2>1. PICK l \in Links : \E i \in DOMAIN g[l] : x = <<l, i>> /\ g[l][i].s = s
    BY SpotIs
  <2>2. PICK i \in DOMAIN g[l] : x = <<l, i>> /\ g[l][i].s = s
    BY <2>1
  <2>3. i \in DOMAIN f[l] /\ g[l][i] = f[l][i]
    <3>1. PlacedOn(l, f, g, n, out)
      BY <1>1
    <3>2. CASE i \notin DOMAIN f[l]
      BY <2>2, <3>1, <3>2 DEF PlacedOn
    <3>3. CASE i \in DOMAIN f[l]
      BY <3>1, <3>3 DEF PlacedOn
    <3> QED
      BY <3>2, <3>3
  <2> QED
    BY <2>2, <2>3, SpotIs
<1> QED
  BY <1>2, <1>3 DEF g

\* Something of send s that is nowhere yet is put into one place.
LEMMA SpotsOne ==
    ASSUME NEW T, NEW f \in [Links -> Seq(T)], NEW n, NEW O, NEW out \in Seq(O), NEW s,
           Spots(f, s) = {}, NEW k \in DOMAIN out, <<n, out[k].to>> \in Links \cap up,
           \A i \in DOMAIN out : out[i].pkt.s = s <=> i = k
    PROVE  Single(Spots(Pushed(f, n, out), s))
<1> DEFINE g == Pushed(f, n, out)
           l == <<n, out[k].to>>
<1>1. \A m \in Links : PlacedOn(m, f, g, n, out)
  BY PushedPlaces
<1> HIDE DEF g
<1>2. PICK j \in DOMAIN g[l] \ DOMAIN f[l] : Slot(f, out, l, j) = k
  BY <1>1 DEF PlacedOn
<1>3. g[l][j].s = s
  BY <1>1, <1>2 DEF PlacedOn
<1>4. <<l, j>> \in Spots(g, s)
  BY <1>3, SpotIs
<1>5. ASSUME NEW x \in Spots(g, s) PROVE x = <<l, j>>
  <2>1. PICK m \in Links : \E i \in DOMAIN g[m] : x = <<m, i>> /\ g[m][i].s = s
    BY SpotIs
  <2>2. PICK i \in DOMAIN g[m] : x = <<m, i>> /\ g[m][i].s = s
    BY <2>1
  <2>3. PlacedOn(m, f, g, n, out)
    BY <1>1
  <2>4. i \notin DOMAIN f[m]
    <3> SUFFICES ASSUME i \in DOMAIN f[m] PROVE FALSE
      OBVIOUS
    <3>1. f[m][i].s = s
      BY <2>2, <2>3 DEF PlacedOn
    <3>2. <<m, i>> \in Spots(f, s)
      BY <3>1, SpotIs
    <3> QED
      BY <3>2
  <2>5. /\ m[1] = n /\ Slot(f, out, m, i) \in DOMAIN out /\ out[Slot(f, out, m, i)].to = m[2]
        /\ g[m][i] = out[Slot(f, out, m, i)].pkt
    BY <2>3, <2>4 DEF PlacedOn
  <2>6. Slot(f, out, m, i) = k
    BY <2>2, <2>5
  <2>7. m = l
    <3>1. m \in Nodes \X Nodes
      BY DEF Links
    <3>2. m = <<m[1], m[2]>>
      BY <3>1
    <3> QED
      BY <2>5, <2>6, <3>2
  <2>8. i = j
    BY <1>2, <2>3, <2>4, <2>6, <2>7 DEF PlacedOn
  <2> QED
    BY <2>2, <2>7, <2>8
<1>6. Spots(g, s) = {<<l, j>>}
  BY <1>4, <1>5
<1> QED
  BY <1>6 DEF Single, g

\* The head of a link is taken: its send is in no place any more, the others are
\* where they were.
LEMMA SpotsTail ==
    ASSUME NEW T, NEW f \in [Links -> Seq(T)], NEW l \in Links, f[l] # <<>>, NEW s
    PROVE  LET g == [f EXCEPT ![l] = Tail(@)] IN
           /\ Spots(f, s) = {} => Spots(g, s) = {}
           /\ Single(Spots(f, s)) =>
                 IF Head(f[l]).s = s THEN Spots(g, s) = {} ELSE Single(Spots(g, s))
<1> DEFINE g == [f EXCEPT ![l] = Tail(@)]
           Was(m, i) == IF m = l THEN i + 1 ELSE i
<1>0. /\ f[l] \in Seq(T) /\ Len(f[l]) \in Nat /\ Len(f[l]) > 0 /\ DOMAIN f[l] = 1..Len(f[l])
      /\ Head(f[l]) = f[l][1]
  OBVIOUS
<1>1. /\ DOMAIN Tail(f[l]) = 1..(Len(f[l]) - 1)
      /\ \A i \in 1..(Len(f[l]) - 1) : Tail(f[l])[i] = f[l][i + 1]
  BY <1>0
<1>2. g[l] = Tail(f[l]) /\ \A m \in Links : m # l => g[m] = f[m]
  OBVIOUS
<1> HIDE DEF g
<1>3. \A m \in Links : \A i \in DOMAIN g[m] : Was(m, i) \in DOMAIN f[m] /\ f[m][Was(m, i)] = g[m][i]
  <2>1. \A i \in DOMAIN g[l] : i + 1 \in DOMAIN f[l] /\ f[l][i + 1] = g[l][i]
    BY <1>0, <1>1, <1>2
  <2> QED
    BY <1>2, <2>1
<1>4. \A m \in Links : \A i \in DOMAIN f[m] : m # l \/ i # 1 =>
         \E j \in DOMAIN g[m] : Was(m, j) = i /\ g[m][j] = f[m][i]
  <2> SUFFICES ASSUME NEW m \in Links, NEW i \in DOMAIN f[m], m # l \/ i # 1
               PROVE  \E j \in DOMAIN g[m] : Was(m, j) = i /\ g[m][j] = f[m][i]
    OBVIOUS
  <2>1. CASE m # l
    BY <1>2, <2>1
  <2>2. CASE m = l
    <3>1. i - 1 \in 1..(Len(f[l]) - 1) /\ (i - 1) + 1 = i
      BY <1>0, <2>2
    <3> QED
      BY <1>1, <1>2, <2>2, <3>1
  <2> QED
    BY <2>1, <2>2
<1>5. \A m \in Links : \A i, j \in DOMAIN g[m] : Was(m, i) = Was(m, j) => i = j
  BY <1>0, <1>1, <1>2
<1>6. \A j \in DOMAIN g[l] : Was(l, j) # 1
  BY <1>0, <1>1, <1>2
<1> HIDE DEF Was
<1>7. \A x \in Spots(g, s) : \E m \in Links : \E i \in DOMAIN g[m] :
         x = <<m, i>> /\ <<m, Was(m, i)>> \in Spots(f, s)
  <2> SUFFICES ASSUME NEW x \in Spots(g, s)
               PROVE  \E m \in Links : \E i \in DOMAIN g[m] :
                         x = <<m, i>> /\ <<m, Was(m, i)>> \in Spots(f, s)
    OBVIOUS
  <2>1. PICK m \in Links : \E i \in DOMAIN g[m] : x = <<m, i>> /\ g[m][i].s = s
    BY SpotIs
  <2>2. PICK i \in DOMAIN g[m] : x = <<m, i>> /\ g[m][i].s = s
    BY <2>1
  <2>3. Was(m, i) \in DOMAIN f[m] /\ f[m][Was(m, i)].s = s
    BY <1>3, <2>2
  <2>4. <<m, Was(m, i)>> \in Spots(f, s)
    BY <2>3, SpotIs
  <2> QED
    BY <2>2, <2>4
<1>8. Spots(f, s) = {} => Spots(g, s) = {}
  BY <1>7
<1>9. ASSUME NEW x, Spots(f, s) = {x}
      PROVE  IF Head(f[l]).s = s THEN Spots(g, s) = {} ELSE Single(Spots(g, s))
  <2>1. CASE Head(f[l]).s = s
    <3>1. <<l, 1>> \in Spots(f, s)
      BY <1>0, <2>1, SpotIs
    <3>2. x = <<l, 1>>
      BY <1>9, <3>1
    <3>3. ASSUME NEW y \in Spots(g, s) PROVE FALSE
      <4>1. PICK m \in Links : \E i \in DOMAIN g[m] :
                y = <<m, i>> /\ <<m, Was(m, i)>> \in Spots(f, s)
        BY <1>7
      <4>2. PICK i \in DOMAIN g[m] : <<m, Was(m, i)>> \in Spots(f, s)
        BY <4>1
      <4>3. <<m, Was(m, i)>> = <<l, 1>>
        BY <1>9, <3>2, <4>2
      <4> QED
        BY <1>6, <4>3
    <3> QED
      BY <2>1, <3>3
  <2>2. CASE Head(f[l]).s # s
    <3>1. PICK m \in Links : \E i \in DOMAIN f[m] : x = <<m, i>> /\ f[m][i].s = s
      BY <1>9, SpotIs
    <3>2. PICK i \in DOMAIN f[m] : x = <<m, i>> /\ f[m][i].s = s
      BY <3>1
    <3>3. m # l \/ i # 1
      BY <1>0, <2>2, <3>2
    <3>4. PICK j \in DOMAIN g[m] : Was(m, j) = i /\ g[m][j] = f[m][i]
      BY <1>4, <3>3
    <3>5. <<m, j>> \in Spots(g, s)
      BY <3>2, <3>4, SpotIs
    <3>6. ASSUME NEW y \in Spots(g, s) PROVE y = <<m, j>>
      <4>1. PICK mm \in Links : \E ii \in DOMAIN g[mm] :
                y = <<mm, ii>> /\ <<mm, Was(mm, ii)>> \in Spots(f, s)
        BY <1>7
      <4>2. PICK ii \in DOMAIN g[mm] : y = <<mm, ii>> /\ <<mm, Was(mm, ii)>> \in Spots(f, s)
        BY <4>1
      <4>3. <<mm, Was(mm, ii)>> = <<m, i>>
        BY <1>9, <3>2, <4>2
      <4>4. mm = m /\ Was(m, ii) = Was(m, j)
        BY <3>4, <4>3
      <4> QED
        BY <1>5, <4>2, <4>4
    <3>7. Spots(g, s) = {<<m, j>>}
      BY <3>5, <3>6
    <3> QED
      BY <2>2, <3>7 DEF Single
  <2> QED
    BY <2>1, <2>2
<1> QED
  BY <1>8, <1>9 DEF Single, g

-----------------------------------------------------------------------------
(***************************************************************************)
(* Nothing is lost: the inductive invariant, on top of IInv.               *)
(***************************************************************************)
Hops == CHOOSE hops \in [Nodes \X Nodes -> 0..Ttl] : Nearer(hops)
NextHop(n, m) == FirstRoute(n, AddressToString(Cert[m]), Links)

\* Data on a link lives long enough for the rest of its way, and the node it comes
\* to knows where to go on; other packets are of no send.
OnItsWay(l, p) ==
    IF p.proto = "avim"
      THEN \A m \in Nodes : p.dest = Cert[m] =>
              Hops[<<l[2], m>>] < p.ttl /\ (l[2] # m => NextHop(l[2], m) # NoNode)
      ELSE p.s = NoSend
WayInv == \A l \in Links : \A i \in DOMAIN link[l] : OnItsWay(l, link[l][i])

\* A send is in a list once, and has a route.
OnceInv == \A n \in Nodes : \A i, j \in DOMAIN waiting[n] : waiting[n][i] = waiting[n][j] => i = j
RoutedInv == \A s \in Sends : op[s].pc = "wait" => FirstRoute(From(s), To(s), Links) # NoNode

\* What was sent is in one place, what was not is in none.
InOnePlace(s) ==
    IF op[s].pc = "sent"
      THEN \/ Single(Spots(link, s)) /\ Arrivals(got, s) = {}
           \/ Spots(link, s) = {} /\ Single(Arrivals(got, s))
      ELSE Spots(link, s) = {} /\ Arrivals(got, s) = {}

Complete == WayInv /\ OnceInv /\ RoutedInv /\ \A s \in Sends : InOnePlace(s)
PlaceInv == Calm => Complete

\* A route that is chosen is a link.
LEMMA RouteIsLink ==
    ASSUME NEW n \in Nodes, NEW str, FirstRoute(n, str, Links) # NoNode
    PROVE  <<n, FirstRoute(n, str, Links)>> \in Links /\ FirstRoute(n, str, Links) \in Nodes
<1> DEFINE usable == {k \in DOMAIN Routes[n] :
                         str \in Routes[n][k].pattern /\ <<n, Routes[n][k].to>> \in Links}
<1>1. FirstRoute(n, str, Links) = IF usable = {} THEN NoNode ELSE Routes[n][Min(usable)].to
  BY DEF FirstRoute
<1>2. usable # {}
  BY <1>1
<1>3. usable \in SUBSET Nat
  <2>1. Routes[n] \in Seq([pattern : SUBSET String, to : Nodes])
    BY NetworkAssumption
  <2>2. DOMAIN Routes[n] = 1..Len(Routes[n]) /\ Len(Routes[n]) \in Nat
    BY <2>1
  <2> QED
    BY <2>2
<1>4. \A k \in usable : <<n, Routes[n][k].to>> \in Links
  OBVIOUS
<1> HIDE DEF usable
<1>5. \E x \in usable : \A y \in usable : x <= y
  BY <1>2, <1>3, LeastNumber
<1>6. Min(usable) \in usable
  BY <1>5 DEF Min
<1>7. <<n, FirstRoute(n, str, Links)>> \in Links
  BY <1>1, <1>2, <1>4, <1>6
<1> QED
  BY <1>7 DEF Links

\* What the routes are taken to do.
LEMMA HopsFacts ==
    ASSUME RoutesLead
    PROVE  /\ Hops \in [Nodes \X Nodes -> 0..Ttl]
           /\ \A n, m \in Nodes : NextHop(n, m) # NoNode =>
                 /\ NextHop(n, m) \in Nodes /\ <<n, NextHop(n, m)>> \in Links
                 /\ Hops[<<NextHop(n, m), m>>] < Ttl
                 /\ n # m => Hops[<<NextHop(n, m), m>>] < Hops[<<n, m>>]
                 /\ NextHop(n, m) # m => NextHop(NextHop(n, m), m) # NoNode
<1>1. Hops \in [Nodes \X Nodes -> 0..Ttl] /\ Nearer(Hops)
  BY DEF RoutesLead, Hops
<1>2. \A n, m \in Nodes : NextHop(n, m) # NoNode =>
         NextHop(n, m) \in Nodes /\ <<n, NextHop(n, m)>> \in Links
  BY RouteIsLink DEF NextHop
<1> QED
  BY <1>1, <1>2 DEF Nearer, NextHop

\* The string of a certificate is parsed to the certificate's address.
LEMMA CertParsed ==
    ASSUME NEW m \in Nodes
    PROVE  /\ AddressFromString(AddressToString(Cert[m])) = Cert[m]
           /\ \A n \in Nodes : Cert[n] = Cert[m] => n = m
           /\ \A n \in Nodes : IsToMe(n, Cert[m]) <=> n = m
<1>1. Cert[m] \in Address /\ \A n \in Nodes : Cert[n].user = Cert[m].user => n = m
  BY NetworkAssumption
<1>2. AddressFromString(AddressToString(Cert[m])) = Cert[m]
  BY <1>1 DEF Address, AddressFromString, AddressToString
<1> QED
  BY <1>1, <1>2 DEF IsToMe

\* The target of data that was made or is on a link.
LEMMA DataFor ==
    ASSUME Types, NEW p \in Packets(plan, gen), p.proto = "avim"
    PROVE  p.s \in Sends /\ \E m \in Nodes : p.dest = Cert[m]
<1>1. p.s \in DOMAIN plan /\ p.dest = AddressFromString(plan[p.s].to)
  BY DEF Packets, Genuine
<1>2. PICK m \in Nodes : plan[p.s].to = AddressToString(Cert[m])
  BY DEF Packets, Genuine
<1> QED
  BY <1>1, <1>2, CertParsed DEF Sends

\* Data that leaves the node that sends it is on its way.
LEMMA DataLeaves ==
    ASSUME RoutesLead, NEW s \in Sends, From(s) \in Nodes, NEW m \in Nodes,
           To(s) = AddressToString(Cert[m]), NEW k,
           FirstRoute(From(s), To(s), Links) # NoNode
    PROVE  /\ OnItsWay(<<From(s), FirstRoute(From(s), To(s), Links)>>, Data(From(s), s, k))
           /\ Data(From(s), s, k).s = s
<1> DEFINE n == From(s)
           p == Data(n, s, k)
           next == NextHop(n, m)
<1>1. /\ p.proto = "avim" /\ p.dest = AddressFromString(To(s)) /\ p.ttl = Ttl /\ p.s = s
  BY DEF Data, Packet
<1>2. FirstRoute(n, To(s), Links) = next
  BY DEF NextHop
<1>3. p.dest = Cert[m] /\ \A x \in Nodes : Cert[x] = Cert[m] => x = m
  BY <1>1, CertParsed
<1>4. Hops[<<next, m>>] < Ttl /\ (next # m => NextHop(next, m) # NoNode)
  BY <1>2, HopsFacts
<1> HIDE DEF p, n, next
<1>5. OnItsWay(<<n, next>>, p)
  BY <1>1, <1>3, <1>4 DEF OnItsWay
<1> QED
  BY <1>1, <1>2, <1>5 DEF p, n

\* Data that has come to another node lives, has a route there, and is on its way
\* again once it is forwarded.
LEMMA DataGoesOn ==
    ASSUME RoutesLead, Types, NEW l \in Links, NEW p \in Packets(plan, gen), OnItsWay(l, p),
           p.proto = "avim", ~ IsToMe(l[2], p.dest), NEW to,
           to = FirstRoute(l[2], AddressToString(p.dest), Links)
    PROVE  /\ Lives(p) /\ to # NoNode /\ <<l[2], to>> \in Links
           /\ OnItsWay(<<l[2], to>>, Older(l, p, to))
<1> DEFINE n == l[2]
<1>1. n \in Nodes
  BY DEF Links
<1>2. PICK m \in Nodes : p.dest = Cert[m]
  BY DataFor
<1>3. n # m /\ \A x \in Nodes : Cert[x] = Cert[m] => x = m
  BY <1>1, <1>2, CertParsed
<1>4. to = NextHop(n, m)
  BY <1>2 DEF NextHop
<1>5. Hops[<<n, m>>] < p.ttl /\ to # NoNode
  BY <1>2, <1>3, <1>4 DEF OnItsWay
<1>6. /\ to \in Nodes /\ <<n, to>> \in Links /\ Hops[<<to, m>>] < Hops[<<n, m>>]
      /\ to # m => NextHop(to, m) # NoNode
  BY <1>1, <1>3, <1>4, <1>5, HopsFacts
<1>7. p \in PacketRec(plan)
  BY DEF Packets
<1>8. p.ttl \in Nat /\ Hops[<<to, m>>] \in Nat /\ Hops[<<n, m>>] \in Nat
  <2>1. p.ttl \in 1..Ttl
    BY <1>7 DEF PacketRec
  <2>2. Hops[<<to, m>>] \in 0..Ttl /\ Hops[<<n, m>>] \in 0..Ttl
    BY <1>1, <1>6, HopsFacts
  <2> QED
    BY <2>1, <2>2
<1>9. p.ttl > 1 /\ Hops[<<to, m>>] < p.ttl - 1
  BY <1>5, <1>6, <1>8
<1>10. LET q == Older(l, p, to) IN q.proto = "avim" /\ q.dest = p.dest /\ q.ttl = p.ttl - 1
  BY <1>7 DEF Older, PacketRec
<1>11. OnItsWay(<<n, to>>, Older(l, p, to))
  <2> DEFINE q == Older(l, p, to)
  <2>1. q.proto = "avim" /\ q.dest = Cert[m] /\ q.ttl = p.ttl - 1
    BY <1>2, <1>10
  <2> HIDE DEF q
  <2>2. OnItsWay(<<n, to>>, q)
    BY <1>3, <1>6, <1>9, <2>1 DEF OnItsWay
  <2> QED
    BY <2>2 DEF q
<1> QED
  BY <1>5, <1>6, <1>9, <1>11 DEF Lives

\* No send is called nothing.
LEMMA NoSendIsNone == Types => NoSend \notin Sends
BY NetworkAssumption DEF Types, Sends

\* Two lists, one behind the other.
LEMMA TwoLists ==
    ASSUME NEW P, NEW a \in Seq(P), NEW b \in Seq(P)
    PROVE  /\ a \o b \in Seq(P) /\ Len(a) \in Nat /\ DOMAIN a = 1..Len(a)
           /\ DOMAIN (a \o b) = 1..(Len(a) + Len(b))
           /\ \A k \in 1..Len(a) : (a \o b)[k] = a[k]
           /\ \A k \in 1..(Len(a) + Len(b)) : k > Len(a) => (a \o b)[k] = b[k - Len(a)]
OBVIOUS

\* What is on its way when it is put on links is so there.
LEMMA WayPushed ==
    ASSUME NEW T, NEW f \in [Links -> Seq(T)], NEW n, NEW O, NEW out \in Seq(O),
           \A l \in Links : \A i \in DOMAIN f[l] : OnItsWay(l, f[l][i]),
           \A k \in DOMAIN out : OnItsWay(<<n, out[k].to>>, out[k].pkt), link' = Pushed(f, n, out)
    PROVE  WayInv'
<1> DEFINE g == Pushed(f, n, out)
<1>1. ASSUME NEW l \in Links, NEW j \in DOMAIN g[l] PROVE OnItsWay(l, g[l][j])
  <2>1. PlacedOn(l, f, g, n, out)
    BY PushedPlaces
  <2> HIDE DEF g
  <2>2. CASE j \in DOMAIN f[l]
    BY <2>1, <2>2 DEF PlacedOn
  <2>3. CASE j \notin DOMAIN f[l]
    <3>1. PICK k \in DOMAIN out : l[1] = n /\ out[k].to = l[2] /\ g[l][j] = out[k].pkt
      BY <1>1, <2>1, <2>3 DEF PlacedOn
    <3>2. l \in Nodes \X Nodes
      BY DEF Links
    <3>3. l = <<l[1], l[2]>>
      BY <3>2
    <3> QED
      BY <3>1, <3>3
  <2> QED
    BY <2>2, <2>3
<1> QED
  BY <1>1 DEF WayInv

\* What becomes of the places of send s when packet p is handled: a send that is
\* resumed gets one, that of p leaves its own (and gets another one if p is made
\* again), the others keep theirs.
PlacesAfter(s, p, again) ==
    \/ /\ op[s].pc = "wait" /\ op'[s].pc = "sent" /\ Single(Spots(link', s))
    \/ /\ s # p.s /\ op'[s].pc = op[s].pc
       /\ Spots(link, s) = {} => Spots(link', s) = {}
       /\ Single(Spots(link, s)) => Single(Spots(link', s))
    \/ /\ s = p.s /\ op[s].pc = "sent" /\ op'[s].pc = "sent" /\ Arrivals(got, s) = {}
       /\ IF again THEN Single(Spots(link', s)) ELSE Spots(link', s) = {}

\* A packet is handled when nothing has failed.
LEMMA HandledPlaces ==
    ASSUME Types, Core, Complete, RoutesLead, up = Links, NEW l \in Links, link[l] # <<>>, NEW p,
           p = Head(link[l]), NEW ks, Trusted(ks, plan, gen), NEW O, NEW out \in Seq(O),
           \A k \in DOMAIN out : OnItsWay(<<l[2], out[k].to>>, out[k].pkt),
           NEW again \in BOOLEAN,
           IF again THEN /\ p.s # NoSend /\ out \in [{1} -> O] /\ out[1].pkt.s = p.s
                         /\ <<l[2], out[1].to>> \in Links
                    ELSE \A k \in DOMAIN out : out[k].pkt.s = NoSend,
           Handled(l, p, ks, out)
    PROVE  WayInv' /\ OnceInv' /\ RoutedInv' /\ \A s \in Sends : PlacesAfter(s, p, again)
<1> DEFINE n == l[2]
           woken == Woken(n, p, ks)
           data == [i \in DOMAIN woken |->
                      [to |-> SelectRoute(n, To(woken[i])),
                       pkt |-> Data(n, woken[i], ks[To(woken[i])])]]
           W == ToSet(woken)
           T == Packets(plan, gen)
           f == [link EXCEPT ![l] = Tail(@)]
           all == out \o data
<1>0. n \in Nodes /\ link \in [Links -> Seq(T)] /\ link[l] \in Seq(T)
  BY DEF Links, Core, LinkInv
<1>1. /\ waiting' = [waiting EXCEPT ![n] = Without(@, W)]
      /\ op' = [s \in Sends |-> IF s \in W THEN [op[s] EXCEPT !.pc = "sent"] ELSE op[s]]
      /\ link' = Pushed(f, n, all) /\ plan' = plan
  BY DEF Handled
<1>2. /\ woken \in Seq(Sends)
      /\ \A k \in DOMAIN woken : \E i \in DOMAIN waiting[n] :
            /\ woken[k] = waiting[n][i]
            /\ AddressToString(p.src) = To(waiting[n][i]) /\ ks[To(waiting[n][i])] # NoKey
  <2>1. n \in Nodes
    BY <1>0
  <2> HIDE DEF n
  <2> QED
    BY <2>1, WokenFacts
<1>3. \A i, j \in DOMAIN woken : woken[i] = woken[j] => i = j
  <2> DEFINE q == waiting[n]
             S == {k \in DOMAIN q : IsFrom(p.src, To(q[k])) /\ ks[To(q[k])] # NoKey}
  <2>1. q \in Seq(Sends) /\ S \in SUBSET (DOMAIN q)
    BY <1>0 DEF Core
  <2>2. \A i, j \in DOMAIN q : q[i] = q[j] => i = j
    BY <1>0 DEF Complete, OnceInv
  <2>3. woken = At(q, S)
    BY DEF Woken
  <2> HIDE DEF q, S, woken
  <2> QED
    BY <2>1, <2>2, <2>3, AtOnce
<1> HIDE DEF woken
<1>4. \A k \in DOMAIN woken :
         /\ woken[k] \in Sends /\ From(woken[k]) = n /\ op[woken[k]].pc = "wait"
         /\ \E m \in Nodes : To(woken[k]) = AddressToString(Cert[m])
  <2> SUFFICES ASSUME NEW k \in DOMAIN woken
               PROVE  /\ woken[k] \in Sends /\ From(woken[k]) = n /\ op[woken[k]].pc = "wait"
                      /\ \E m \in Nodes : To(woken[k]) = AddressToString(Cert[m])
    OBVIOUS
  <2>1. PICK i \in DOMAIN waiting[n] :
            /\ woken[k] = waiting[n][i]
            /\ AddressToString(p.src) = To(waiting[n][i]) /\ ks[To(waiting[n][i])] # NoKey
    BY <1>2
  <2>2. woken[k] \in Sends /\ From(woken[k]) = n /\ op[woken[k]].pc = "wait"
    BY <1>0, <2>1, InList DEF Core
  <2>3. To(woken[k]) \in Strings(plan)
    BY <2>2 DEF Strings, To, Sends
  <2> QED
    BY <2>1, <2>2, <2>3 DEF Trusted
<1>5. \A k \in DOMAIN woken :
         /\ <<n, data[k].to>> \in Links /\ data[k].pkt.s = woken[k]
         /\ OnItsWay(<<n, data[k].to>>, data[k].pkt)
  <2> SUFFICES ASSUME NEW k \in DOMAIN woken
               PROVE  /\ <<n, data[k].to>> \in Links /\ data[k].pkt.s = woken[k]
                      /\ OnItsWay(<<n, data[k].to>>, data[k].pkt)
    OBVIOUS
  <2>1. PICK s \in Sends : s = woken[k]
    BY <1>4
  <2>2. From(s) = n /\ op[s].pc = "wait"
    BY <1>4, <2>1
  <2>3. PICK m \in Nodes : To(s) = AddressToString(Cert[m])
    BY <1>4, <2>1
  <2>4. FirstRoute(From(s), To(s), Links) # NoNode
    BY <2>2 DEF Complete, RoutedInv
  <2>5. data[k].to = FirstRoute(From(s), To(s), Links) /\ data[k].pkt = Data(From(s), s, ks[To(s)])
    BY <2>1, <2>2 DEF SelectRoute
  <2>6. <<n, data[k].to>> \in Links
    BY <1>0, <2>2, <2>4, <2>5, RouteIsLink
  <2>7. /\ OnItsWay(<<n, data[k].to>>, data[k].pkt)
        /\ data[k].pkt.s = s
    <3> HIDE DEF data
    <3>1. From(s) \in Nodes
      BY <1>0, <2>2
    <3>2. /\ OnItsWay(<<From(s), FirstRoute(From(s), To(s), Links)>>, Data(From(s), s, ks[To(s)]))
          /\ Data(From(s), s, ks[To(s)]).s = s
      BY <2>3, <2>4, <3>1, DataLeaves
    <3> QED
      BY <2>2, <2>5, <3>2
  <2> QED
    BY <2>1, <2>6, <2>7
<1>6. DOMAIN woken = 1..Len(woken) /\ Len(woken) \in Nat
  BY <1>2
<1> DEFINE D == {data[i] : i \in DOMAIN woken}
           P == O \cup D
           len == Len(out)
<1>7. data \in Seq(P) /\ out \in Seq(P) /\ Len(data) = Len(woken)
  <2>1. \A i \in DOMAIN woken : data[i] \in P
    OBVIOUS
  <2>2. data = [i \in 1..Len(woken) |-> data[i]]
    BY <1>6
  <2>3. out \in Seq(P)
    OBVIOUS
  <2> HIDE DEF data, P
  <2>4. data \in [1..Len(woken) -> P]
    BY <1>6, <2>1, <2>2
  <2> QED
    BY <1>6, <2>3, <2>4
<1> HIDE DEF data, P
<1>8. /\ all \in Seq(P) /\ len \in Nat /\ DOMAIN out = 1..len
      /\ DOMAIN all = 1..(len + Len(woken))
      /\ \A k \in 1..len : all[k] = out[k]
      /\ \A k \in 1..(len + Len(woken)) : k > len => all[k] = data[k - len]
  <2>1. /\ out \o data \in Seq(P) /\ Len(out) \in Nat /\ DOMAIN out = 1..Len(out)
        /\ DOMAIN (out \o data) = 1..(Len(out) + Len(data))
        /\ \A k \in 1..Len(out) : (out \o data)[k] = out[k]
        /\ \A k \in 1..(Len(out) + Len(data)) :
              k > Len(out) => (out \o data)[k] = data[k - Len(out)]
    BY ONLY <1>7, TwoLists
  <2>2. Len(data) = Len(woken)
    BY <1>7
  <2> QED
    BY ONLY <2>1, <2>2
<1> HIDE DEF len, all
<1>9. \A k \in DOMAIN all :
         \/ k \in DOMAIN out /\ all[k] = out[k]
         \/ k - len \in DOMAIN woken /\ k \in Int /\ all[k] = data[k - len]
  BY <1>6, <1>8
<1>10. /\ \A k \in DOMAIN out : k \in DOMAIN all /\ all[k] = out[k]
       /\ \A i \in DOMAIN woken :
             len + i \in DOMAIN all /\ all[len + i] = data[i] /\ len + i \notin DOMAIN out
  <2>1. \A i \in DOMAIN woken : /\ len + i \in 1..(len + Len(woken)) /\ len + i > len
                                /\ (len + i) - len = i
    BY <1>6, <1>8
  <2> QED
    BY <1>6, <1>8, <2>1
<1>11. f \in [Links -> Seq(T)]
  <2>1. Tail(link[l]) \in Seq(T)
    <3> HIDE DEF T
    <3> QED
      BY <1>0
  <2> QED
    BY <1>0, <2>1
<1>12. \A s : /\ Spots(link, s) = {} => Spots(f, s) = {}
              /\ Single(Spots(link, s)) =>
                    IF p.s = s THEN Spots(f, s) = {} ELSE Single(Spots(f, s))
  <2> HIDE DEF T
  <2> QED
    BY <1>0, SpotsTail
<1>13. \A s \in Sends : s = p.s =>
          op[s].pc = "sent" /\ Single(Spots(link, s)) /\ Arrivals(got, s) = {}
  <2> SUFFICES ASSUME NEW s \in Sends, s = p.s
               PROVE  op[s].pc = "sent" /\ Single(Spots(link, s)) /\ Arrivals(got, s) = {}
    OBVIOUS
  <2>1. 1 \in DOMAIN link[l] /\ p = link[l][1]
    <3> HIDE DEF T
    <3> QED
      BY <1>0
  <2>2. <<l, 1>> \in Spots(link, s)
    BY <2>1, SpotIs
  <2>3. InOnePlace(s)
    BY DEF Complete
  <2> QED
    BY <2>2, <2>3 DEF InOnePlace
<1>14. \A s \in W : s \in Sends /\ op[s].pc = "wait" /\ s # p.s
  BY <1>4, <1>13 DEF ToSet
<1>15. \A s : s \in W <=> \E i \in DOMAIN woken : woken[i] = s
  BY DEF ToSet
<1>16. NoSend \notin Sends
  BY NoSendIsNone
<1> HIDE DEF W
<1>17. op \in [Sends -> OpRec]
  BY DEF Core
<1>18. \A s \in Sends : op'[s].pc = IF s \in W THEN "sent" ELSE op[s].pc
  BY <1>1, <1>17 DEF OpRec
<1>19. \A s \in Sends : \A k \in DOMAIN out : out[k].pkt.s = s => again /\ k = 1 /\ s = p.s
  BY <1>16
<1>20. \A s \in Sends : s \in W => PlacesAfter(s, p, again)
  <2> SUFFICES ASSUME NEW s \in Sends, s \in W PROVE PlacesAfter(s, p, again)
    OBVIOUS
  <2>1. op[s].pc = "wait" /\ op'[s].pc = "sent" /\ s # p.s
    BY <1>14, <1>18
  <2>2. Spots(f, s) = {}
    <3>1. InOnePlace(s)
      BY DEF Complete
    <3> QED
      BY <1>12, <2>1, <3>1 DEF InOnePlace
  <2>3. PICK i \in DOMAIN woken : woken[i] = s
    BY <1>15
  <2> DEFINE k == len + i
  <2>4. k \in DOMAIN all /\ all[k] = data[i] /\ k \notin DOMAIN out
    BY <1>10
  <2>5. <<n, all[k].to>> \in Links \cap up
    BY <1>5, <2>4
  <2>6. ASSUME NEW j \in DOMAIN all PROVE all[j].pkt.s = s <=> j = k
    <3>1. CASE j \in DOMAIN out /\ all[j] = out[j]
      BY <1>19, <2>1, <2>4, <3>1
    <3>2. CASE j - len \in DOMAIN woken /\ j \in Int /\ all[j] = data[j - len]
      <4>1. all[j].pkt.s = woken[j - len]
        BY <1>5, <3>2
      <4>2. j - len = i <=> j = k
        BY <1>6, <1>8, <3>2
      <4> QED
        BY <1>3, <2>3, <3>2, <4>1, <4>2
    <3> QED
      BY <1>9, <3>1, <3>2
  <2> HIDE DEF k, f, T
  <2>7. Single(Spots(Pushed(f, n, all), s))
    BY <1>8, <1>11, <2>2, <2>4, <2>5, <2>6, SpotsOne
  <2> QED
    BY <1>1, <2>1, <2>7 DEF PlacesAfter
<1>21. \A s \in Sends : s \notin W /\ s # p.s => PlacesAfter(s, p, again)
  <2> SUFFICES ASSUME NEW s \in Sends, s \notin W, s # p.s PROVE PlacesAfter(s, p, again)
    OBVIOUS
  <2>1. \A k \in DOMAIN all : all[k].pkt.s # s
    <3> SUFFICES ASSUME NEW k \in DOMAIN all PROVE all[k].pkt.s # s
      OBVIOUS
    <3>1. CASE k \in DOMAIN out /\ all[k] = out[k]
      BY <1>19, <3>1
    <3>2. CASE k - len \in DOMAIN woken /\ all[k] = data[k - len]
      BY <1>5, <1>15, <3>2
    <3> QED
      BY <1>9, <3>1, <3>2
  <2>2. Spots(Pushed(f, n, all), s) = Spots(f, s)
    <3> HIDE DEF f, T
    <3> QED
      BY ONLY <1>8, <1>11, <2>1, SpotsNone
  <2> QED
    BY <1>1, <1>12, <1>18, <2>2 DEF PlacesAfter
<1>22. \A s \in Sends : s = p.s => PlacesAfter(s, p, again)
  <2> SUFFICES ASSUME NEW s \in Sends, s = p.s PROVE PlacesAfter(s, p, again)
    OBVIOUS
  <2>1. op[s].pc = "sent" /\ Single(Spots(link, s)) /\ Arrivals(got, s) = {}
    BY <1>13
  <2>2. s \notin W /\ op'[s].pc = "sent" /\ Spots(f, s) = {}
    BY <1>12, <1>14, <1>18, <2>1
  <2>3. \A k \in DOMAIN all : k \notin DOMAIN out => all[k].pkt.s # s
    <3> SUFFICES ASSUME NEW k \in DOMAIN all, k \notin DOMAIN out PROVE all[k].pkt.s # s
      OBVIOUS
    <3>1. k - len \in DOMAIN woken /\ all[k] = data[k - len]
      BY <1>9
    <3> QED
      BY <1>5, <1>15, <2>2, <3>1
  <2>4. CASE ~ again
    <3>1. \A k \in DOMAIN all : all[k].pkt.s # s
      BY <1>10, <1>19, <2>3, <2>4
    <3>2. Spots(Pushed(f, n, all), s) = Spots(f, s)
      <4> HIDE DEF f, T
      <4> QED
        BY ONLY <1>8, <1>11, <3>1, SpotsNone
    <3> QED
      BY <1>1, <2>1, <2>2, <2>4, <3>2 DEF PlacesAfter
  <2>5. CASE again
    <3>1. /\ 1 \in DOMAIN all /\ all[1].pkt.s = s /\ <<n, all[1].to>> \in Links \cap up
      BY <1>10, <2>5
    <3>2. \A k \in DOMAIN all : all[k].pkt.s = s <=> k = 1
      BY <1>10, <1>19, <2>3, <3>1
    <3>3. Single(Spots(Pushed(f, n, all), s))
      <4> HIDE DEF f, T
      <4> QED
        BY <1>8, <1>11, <2>2, <3>1, <3>2, SpotsOne
    <3> QED
      BY <1>1, <2>1, <2>2, <2>5, <3>3 DEF PlacesAfter
  <2> QED
    BY <2>4, <2>5
<1>23. WayInv'
  <2>1. ASSUME NEW m \in Links, NEW i \in DOMAIN f[m] PROVE OnItsWay(m, f[m][i])
    <3>1. CASE m # l
      BY <1>0, <2>1, <3>1 DEF Complete, WayInv
    <3>2. CASE m = l
      <4>1. f[m] = Tail(link[l])
        BY <1>0, <3>2
      <4>2. i + 1 \in DOMAIN link[l] /\ f[m][i] = link[l][i + 1]
        <5> HIDE DEF T, f
        <5> QED
          BY <1>0, <2>1, <4>1
      <4> QED
        BY <3>2, <4>2 DEF Complete, WayInv
    <3> QED
      BY <3>1, <3>2
  <2>2. \A k \in DOMAIN all : OnItsWay(<<n, all[k].to>>, all[k].pkt)
    BY <1>5, <1>9
  <2> HIDE DEF f, T
  <2> QED
    BY <1>1, <1>8, <1>11, <2>1, <2>2, WayPushed
<1>24. OnceInv'
  <2> SUFFICES ASSUME NEW m \in Nodes, NEW i \in DOMAIN waiting'[m], NEW j \in DOMAIN waiting'[m],
                      waiting'[m][i] = waiting'[m][j]
               PROVE  i = j
    BY DEF OnceInv
  <2>1. waiting \in [Nodes -> Seq(Sends)]
    BY DEF Core
  <2>2. CASE m # n
    BY <1>1, <2>1, <2>2 DEF Complete, OnceInv
  <2>3. CASE m = n
    <3> DEFINE q == waiting[n]
               S == {k \in DOMAIN q : q[k] \notin W}
    <3>1. waiting'[m] = At(q, S)
      BY <1>0, <1>1, <2>1, <2>3 DEF Without
    <3>2. q \in Seq(Sends) /\ S \in SUBSET (DOMAIN q) /\ \A x, y \in DOMAIN q : q[x] = q[y] => x = y
      BY <1>0, <2>1 DEF Complete, OnceInv
    <3> HIDE DEF q, S
    <3>3. \A x, y \in DOMAIN At(q, S) : At(q, S)[x] = At(q, S)[y] => x = y
      BY <3>2, AtOnce
    <3> QED
      BY <3>1, <3>3
  <2> QED
    BY <2>2, <2>3
<1>25. RoutedInv'
  <2>1. Sends' = Sends /\ \A x : From(x)' = From(x) /\ To(x)' = To(x)
    BY <1>1 DEF Sends, From, To
  <2> QED
    BY <1>18, <2>1 DEF Complete, RoutedInv
<1> QED
  BY <1>20, <1>21, <1>22, <1>23, <1>24, <1>25

\* An ask, and an answer, is of no send.
LEMMA OfNoSend ==
    ASSUME NEW n, NEW str, NEW l
    PROVE  /\ PkAsk(n, str).s = NoSend /\ OnItsWay(l, PkAsk(n, str))
           /\ PkReply(n, str).s = NoSend /\ OnItsWay(l, PkReply(n, str))
BY DEF PkAsk, PkReply, Packet, OnItsWay

\* A send starts when nothing has failed.
LEMMA SendPlaces ==
    ASSUME Types, Core, Complete, RoutesLead, up = Links, NEW s \in Sends, Send(s)
    PROVE  Complete'
<1> DEFINE n == From(s)
           via == SelectRoute(n, To(s))
           k == keys[n][To(s)]
           T == Packets(plan, gen)
<1>1. op[s].pc = "idle" /\ keys' = keys /\ got' = got /\ plan' = plan
  BY DEF Send
<1>2. n \in Nodes /\ To(s) \in Strings(plan)
  BY PlanFacts DEF Types, Sends, From, To, Strings
<1>3. Sends' = Sends /\ \A x : From(x)' = From(x) /\ To(x)' = To(x)
  BY <1>1 DEF Sends, From, To
<1>4. /\ link \in [Links -> Seq(T)] /\ op \in [Sends -> OpRec] /\ waiting \in [Nodes -> Seq(Sends)]
      /\ waiting[n] \in Seq(Sends)
  BY <1>2 DEF Core, LinkInv
<1>5. \A x \in Sends : InOnePlace(x)
  BY DEF Complete
<1>6. Spots(link, s) = {} /\ Arrivals(got, s) = {}
  BY <1>1, <1>5 DEF InOnePlace
<1>7. via = FirstRoute(n, To(s), Links)
  BY DEF SelectRoute
<1>8. NoSend \notin Sends
  BY NoSendIsNone
<1> SUFFICES /\ WayInv' /\ OnceInv'
             /\ \A x \in Sends : op'[x].pc = "wait" => FirstRoute(From(x), To(x), Links) # NoNode
             /\ \A x \in Sends : x # s => op'[x] = op[x] /\ Spots(link', x) = Spots(link, x)
             /\ op'[s].pc # "idle"
             /\ IF op'[s].pc = "sent" THEN Single(Spots(link', s)) ELSE Spots(link', s) = {}
  <2>1. RoutedInv'
    BY <1>3 DEF RoutedInv
  <2>2. \A x \in Sends : InOnePlace(x)'
    BY <1>1, <1>5, <1>6 DEF InOnePlace
  <2> QED
    BY <1>3, <2>1, <2>2 DEF Complete
<1>9. CASE via = NoNode
  <2>1. op' = [op EXCEPT ![s].pc = "unreachable"] /\ link' = link /\ waiting' = waiting
    BY <1>9 DEF Send
  <2>2. op'[s].pc = "unreachable" /\ \A x \in Sends : x # s => op'[x] = op[x]
    BY <1>4, <2>1 DEF OpRec
  <2>3. WayInv' /\ OnceInv'
    BY <2>1 DEF Complete, WayInv, OnceInv
  <2> QED
    BY <1>6, <2>1, <2>2, <2>3 DEF Complete, RoutedInv
<1>10. CASE via # NoNode /\ k # NoKey
  <2> DEFINE o == [to |-> via, pkt |-> Data(n, s, k)]
             out == <<o>>
  <2>1. /\ op' = [op EXCEPT ![s].pc = "sent"] /\ link' = Pushed(link, n, out) /\ waiting' = waiting
    BY <1>10 DEF Send
  <2>2. op'[s].pc = "sent" /\ \A x \in Sends : x # s => op'[x] = op[x]
    BY <1>4, <2>1 DEF OpRec
  <2>3. PICK m \in Nodes : To(s) = AddressToString(Cert[m])
    BY <1>2, <1>10 DEF Core, KeyInv, Trusted
  <2>4. OnItsWay(<<n, via>>, Data(n, s, k)) /\ Data(n, s, k).s = s
    BY <1>2, <1>7, <1>10, <2>3, DataLeaves
  <2>5. <<n, via>> \in Links
    BY <1>2, <1>7, <1>10, RouteIsLink
  <2>6. /\ out \in Seq({o}) /\ DOMAIN out = {1} /\ out[1].to = via /\ out[1].pkt = Data(n, s, k)
    OBVIOUS
  <2> HIDE DEF o, out, via, k, T
  <2>7. Single(Spots(link', s))
    <3>1. \A i \in DOMAIN out : out[i].pkt.s = s <=> i = 1
      BY <2>4, <2>6
    <3>2. 1 \in DOMAIN out /\ <<n, out[1].to>> \in Links \cap up
      BY <2>5, <2>6
    <3>3. Single(Spots(Pushed(link, n, out), s))
      BY ONLY <1>4, <1>6, <2>6, <3>1, <3>2, SpotsOne
    <3> QED
      BY <2>1, <3>3
  <2>8. ASSUME NEW x \in Sends, x # s PROVE Spots(link', x) = Spots(link, x)
    <3>1. \A i \in DOMAIN out : out[i].pkt.s # x
      BY <2>4, <2>6, <2>8
    <3>2. Spots(Pushed(link, n, out), x) = Spots(link, x)
      <4>1. out \in Seq({o}) /\ link \in [Links -> Seq(T)]
        BY <1>4, <2>6
      <4> QED
        BY ONLY <3>1, <4>1, SpotsNone
    <3> QED
      BY <2>1, <3>2
  <2>9. WayInv'
    <3>1. \A i \in DOMAIN out : OnItsWay(<<n, out[i].to>>, out[i].pkt)
      BY <2>4, <2>6
    <3>2. \A l \in Links : \A i \in DOMAIN link[l] : OnItsWay(l, link[l][i])
      BY DEF Complete, WayInv
    <3> QED
      BY <1>4, <2>1, <2>6, <3>1, <3>2, WayPushed
  <2>10. OnceInv'
    BY <2>1 DEF Complete, OnceInv
  <2> QED
    BY <2>2, <2>7, <2>8, <2>9, <2>10 DEF Complete, RoutedInv
<1>11. CASE via # NoNode /\ k = NoKey
  <2> DEFINE o == [to |-> via, pkt |-> PkAsk(n, To(s))]
             out == <<o>>
  <2>1. /\ op' = [op EXCEPT ![s] = [pc |-> "wait", asks |-> 1]] /\ link' = Pushed(link, n, out)
        /\ waiting' = [waiting EXCEPT ![n] = Append(@, s)]
    BY <1>11 DEF Send
  <2>2. op'[s].pc = "wait" /\ \A x \in Sends : x # s => op'[x] = op[x]
    BY <1>4, <2>1
  <2>3. PkAsk(n, To(s)).s = NoSend /\ OnItsWay(<<n, via>>, PkAsk(n, To(s)))
    BY OfNoSend
  <2>4. /\ out \in Seq({o}) /\ DOMAIN out = {1} /\ out[1].to = via /\ out[1].pkt = PkAsk(n, To(s))
    OBVIOUS
  <2> HIDE DEF o, out, via, k, T
  <2>5. ASSUME NEW x \in Sends PROVE Spots(link', x) = Spots(link, x)
    <3>1. \A i \in DOMAIN out : out[i].pkt.s # x
      BY <1>8, <2>3, <2>4
    <3>2. Spots(Pushed(link, n, out), x) = Spots(link, x)
      BY ONLY <1>4, <2>4, <3>1, SpotsNone
    <3> QED
      BY <2>1, <3>2
  <2>6. WayInv'
    <3>1. \A i \in DOMAIN out : OnItsWay(<<n, out[i].to>>, out[i].pkt)
      BY <2>3, <2>4
    <3>2. \A l \in Links : \A i \in DOMAIN link[l] : OnItsWay(l, link[l][i])
      BY DEF Complete, WayInv
    <3> QED
      BY <1>4, <2>1, <2>4, <3>1, <3>2, WayPushed
  <2>7. OnceInv'
    <3> SUFFICES ASSUME NEW m \in Nodes, NEW i \in DOMAIN waiting'[m],
                        NEW j \in DOMAIN waiting'[m], waiting'[m][i] = waiting'[m][j]
                 PROVE  i = j
      BY DEF OnceInv
    <3>1. \A x, y \in DOMAIN waiting[m] : waiting[m][x] = waiting[m][y] => x = y
      BY DEF Complete, OnceInv
    <3>2. CASE m # n
      BY <1>4, <2>1, <3>1, <3>2
    <3>3. CASE m = n
      <4>1. waiting'[m] = Append(waiting[n], s)
        BY <1>2, <1>4, <2>1, <3>3
      <4>2. \A x \in DOMAIN waiting[n] : waiting[n][x] # s
        BY <1>1, <1>2, InList DEF Core
      <4> DEFINE q == waiting[n]
                 w == waiting'[m]
      <4>3. q \in Seq(Sends) /\ w = Append(q, s) /\ i \in DOMAIN w /\ j \in DOMAIN w /\ w[i] = w[j]
        BY <1>4, <4>1
      <4> HIDE DEF q, w
      <4>4. /\ Len(q) \in Nat /\ DOMAIN q = 1..Len(q) /\ DOMAIN w = 1..(Len(q) + 1)
            /\ w[Len(q) + 1] = s /\ \A x \in 1..Len(q) : w[x] = q[x]
        BY <4>3
      <4>5. /\ \A x \in 1..Len(q) : q[x] # s
            /\ \A x, y \in 1..Len(q) : q[x] = q[y] => x = y
        BY <3>1, <3>3, <4>2, <4>4 DEF q
      <4>6. CASE i = Len(q) + 1 \/ j = Len(q) + 1
        BY <4>3, <4>4, <4>5, <4>6
      <4>7. CASE i \in 1..Len(q) /\ j \in 1..Len(q)
        BY <4>3, <4>4, <4>5, <4>7
      <4> QED
        BY <4>3, <4>4, <4>6, <4>7
    <3> QED
      BY <3>2, <3>3
  <2>8. \A x \in Sends : op'[x].pc = "wait" => FirstRoute(From(x), To(x), Links) # NoNode
    BY <1>7, <1>11, <2>2 DEF Complete, RoutedInv
  <2> QED
    BY <1>6, <2>2, <2>5, <2>6, <2>7, <2>8
<1> QED
  BY <1>9, <1>10, <1>11

\* A tick finds sends expired when nothing has failed.
LEMMA ExpirePlaces ==
    ASSUME Types, Core, Complete, NEW n \in Nodes, NEW W, Expire(n, W)
    PROVE  Complete'
<1> DEFINE q == waiting[n]
           S == {k \in DOMAIN q : q[k] \in W /\ op[q[k]].asks < MaxAsks}
           R == {k \in DOMAIN q : q[k] \notin W}
           again == At(q, S)
           rest == At(q, R)
           out == [i \in DOMAIN again |->
                     [to |-> SelectRoute(n, To(again[i])), pkt |-> PkAsk(n, To(again[i]))]]
           T == Packets(plan, gen)
<1>1. /\ W \subseteq ToSet(q) /\ waiting' = [waiting EXCEPT ![n] = rest \o again]
      /\ op' = [s \in Sends |-> IF s \notin W THEN op[s]
                  ELSE IF op[s].asks < MaxAsks THEN [op[s] EXCEPT !.asks = @ + 1]
                  ELSE [op[s] EXCEPT !.pc = "unreachable"]]
      /\ link' = Pushed(link, n, out) /\ got' = got /\ plan' = plan
  BY DEF Expire, Without
<1>2. /\ link \in [Links -> Seq(T)] /\ op \in [Sends -> OpRec]
      /\ waiting \in [Nodes -> Seq(Sends)] /\ q \in Seq(Sends)
  BY DEF Core, LinkInv
<1>3. Sends' = Sends /\ \A x : From(x)' = From(x) /\ To(x)' = To(x)
  BY <1>1 DEF Sends, From, To
<1>4. /\ \A i \in DOMAIN q : q[i] \in Sends /\ op[q[i]].pc = "wait"
      /\ \A i, j \in DOMAIN q : q[i] = q[j] => i = j
  BY InList DEF Core, Complete, OnceInv
<1>5. \A s \in W : s \in Sends /\ op[s].pc = "wait"
  BY <1>1, <1>4 DEF ToSet
<1>6. /\ S \in SUBSET (DOMAIN q) /\ R \in SUBSET (DOMAIN q)
      /\ (\A k \in S : q[k] \in W) /\ (\A k \in R : q[k] \notin W)
  OBVIOUS
<1> HIDE DEF q, S, R
<1>7. /\ again \in Seq(Sends) /\ \A i, j \in DOMAIN again : again[i] = again[j] => i = j
      /\ \A k \in DOMAIN again : again[k] \in W
  <2>1. again \in Seq(Sends) /\ \A k \in DOMAIN again : \E i \in S : again[k] = q[i]
    BY <1>2, <1>6, AtFacts
  <2>2. \A i, j \in DOMAIN again : again[i] = again[j] => i = j
    BY <1>2, <1>4, <1>6, AtOnce
  <2> HIDE DEF again
  <2> QED
    BY <1>6, <2>1, <2>2
<1>8. /\ rest \in Seq(Sends) /\ \A i, j \in DOMAIN rest : rest[i] = rest[j] => i = j
      /\ \A k \in DOMAIN rest : rest[k] \notin W
  <2>1. rest \in Seq(Sends) /\ \A k \in DOMAIN rest : \E i \in R : rest[k] = q[i]
    BY <1>2, <1>6, AtFacts
  <2>2. \A i, j \in DOMAIN rest : rest[i] = rest[j] => i = j
    BY <1>2, <1>4, <1>6, AtOnce
  <2> HIDE DEF rest
  <2> QED
    BY <1>6, <2>1, <2>2
<1> HIDE DEF again, rest
<1>9. OnceInv'
  <2> SUFFICES ASSUME NEW m \in Nodes, NEW i \in DOMAIN waiting'[m], NEW j \in DOMAIN waiting'[m],
                      waiting'[m][i] = waiting'[m][j]
               PROVE  i = j
    BY DEF OnceInv
  <2>1. CASE m # n
    BY <1>1, <1>2, <2>1 DEF Complete, OnceInv
  <2>2. CASE m = n
    <3> DEFINE w == waiting'[m]
               a == Len(rest)
    <3>1. w = rest \o again
      BY <1>1, <1>2, <2>2
    <3>2. i \in DOMAIN w /\ j \in DOMAIN w /\ w[i] = w[j]
      OBVIOUS
    <3> HIDE DEF w
    <3>3. /\ a \in Nat /\ DOMAIN rest = 1..a /\ DOMAIN w = 1..(a + Len(again))
          /\ \A k \in 1..a : w[k] = rest[k]
          /\ \A k \in 1..(a + Len(again)) : k > a => w[k] = again[k - a]
      BY ONLY <1>7, <1>8, <3>1, TwoLists
    <3>4. DOMAIN again = 1..Len(again) /\ Len(again) \in Nat
      BY <1>7
    <3> HIDE DEF a
    <3>5. \A k \in DOMAIN w : k > a => k - a \in DOMAIN again /\ w[k] = again[k - a] /\ k \in Int
      BY <3>3, <3>4
    <3>6. \A k \in DOMAIN w : ~ (k > a) => k \in DOMAIN rest /\ w[k] = rest[k]
      BY <3>3, <3>4
    <3>7. CASE i > a /\ j > a
      <4>1. i - a = j - a /\ i \in Int /\ j \in Int
        BY <1>7, <3>2, <3>5, <3>7
      <4> QED
        BY <3>3, <4>1
    <3>8. CASE ~ (i > a) /\ ~ (j > a)
      BY <1>8, <3>2, <3>6, <3>8
    <3>9. CASE i > a /\ ~ (j > a)
      BY <1>7, <1>8, <3>2, <3>5, <3>6, <3>9
    <3>10. CASE ~ (i > a) /\ j > a
      BY <1>7, <1>8, <3>2, <3>5, <3>6, <3>10
    <3> QED
      BY ONLY <3>7, <3>8, <3>9, <3>10
  <2> QED
    BY <2>1, <2>2
<1>10. \A s \in Sends : /\ op'[s].pc = "wait" => op[s].pc = "wait"
                        /\ op'[s].pc = "sent" <=> op[s].pc = "sent"
  <2> SUFFICES ASSUME NEW s \in Sends
               PROVE  /\ op'[s].pc = "wait" => op[s].pc = "wait"
                      /\ op'[s].pc = "sent" <=> op[s].pc = "sent"
    OBVIOUS
  <2>1. op[s] \in OpRec
    BY <1>2
  <2> QED
    BY <1>1, <1>5, <2>1 DEF OpRec
<1>11. RoutedInv'
  BY <1>3, <1>10 DEF Complete, RoutedInv
<1> DEFINE D == {out[i] : i \in DOMAIN again}
<1>12. /\ out \in Seq(D) /\ \A k \in DOMAIN out : out[k].pkt.s = NoSend
       /\ \A k \in DOMAIN out : OnItsWay(<<n, out[k].to>>, out[k].pkt)
  <2>1. DOMAIN again = 1..Len(again) /\ Len(again) \in Nat
    BY <1>7
  <2>2. \A k \in DOMAIN again : out[k].pkt.s = NoSend /\ OnItsWay(<<n, out[k].to>>, out[k].pkt)
    BY OfNoSend
  <2>3. DOMAIN out = DOMAIN again /\ \A k \in DOMAIN again : out[k] \in D
    OBVIOUS
  <2>4. out = [k \in 1..Len(again) |-> out[k]]
    BY <2>1
  <2> HIDE DEF out, D
  <2>5. out \in [1..Len(again) -> D]
    BY <2>1, <2>3, <2>4
  <2>6. out \in Seq(D)
    BY <2>1, <2>5
  <2> QED
    BY <2>2, <2>3, <2>6
<1> HIDE DEF out, D, T
<1>13. WayInv'
  <2>1. \A l \in Links : \A i \in DOMAIN link[l] : OnItsWay(l, link[l][i])
    BY DEF Complete, WayInv
  <2> QED
    BY <1>1, <1>2, <1>12, <2>1, WayPushed
<1>14. ASSUME NEW s \in Sends PROVE Spots(link', s) = Spots(link, s)
  <2>1. \A k \in DOMAIN out : out[k].pkt.s # s
    BY <1>12, NoSendIsNone
  <2>2. out \in Seq(D) /\ link \in [Links -> Seq(T)]
    BY <1>2, <1>12
  <2>3. Spots(Pushed(link, n, out), s) = Spots(link, s)
    BY ONLY <2>1, <2>2, SpotsNone
  <2> QED
    BY <1>1, <2>3
<1>15. \A s \in Sends : InOnePlace(s)'
  BY <1>1, <1>10, <1>14 DEF Complete, InOnePlace
<1> QED
  BY <1>3, <1>9, <1>11, <1>13, <1>15 DEF Complete

\* Who has received nothing new, after a packet was handled.
LEMMA PlacesKept ==
    ASSUME Complete, NEW p, NEW again \in BOOLEAN, \A s \in Sends : PlacesAfter(s, p, again),
           again \/ p.s \notin Sends, got' = got, Sends' = Sends,
           WayInv', OnceInv', RoutedInv'
    PROVE  Complete'
<1>1. \A s \in Sends : InOnePlace(s)'
  <2> SUFFICES ASSUME NEW s \in Sends PROVE InOnePlace(s)'
    OBVIOUS
  <2>1. InOnePlace(s) /\ PlacesAfter(s, p, again)
    BY DEF Complete
  <2> QED
    BY <2>1 DEF InOnePlace, PlacesAfter
<1> QED
  BY <1>1 DEF Complete

\* Being one of the places in buffers.
LEMMA ArrivalIs ==
    ASSUME NEW f, NEW s
    PROVE  /\ \A n \in Nodes : \A i \in DOMAIN f[n] : f[n][i].s = s => <<n, i>> \in Arrivals(f, s)
           /\ \A x \in Arrivals(f, s) :
                 \E n \in Nodes : \E i \in DOMAIN f[n] : x = <<n, i>> /\ f[n][i].s = s
BY DEF Arrivals

\* Place k in the buffer of node n, and no other, is new, and r is there.
MoreBy(f, g, n, k, r) ==
    /\ n \in Nodes /\ k \in DOMAIN g[n] /\ g[n][k] = r
    /\ \A m \in Nodes : \A i \in DOMAIN f[m] : i \in DOMAIN g[m] /\ g[m][i] = f[m][i]
    /\ \A m \in Nodes : \A i \in DOMAIN g[m] :
          \/ i \in DOMAIN f[m] /\ g[m][i] = f[m][i]
          \/ m = n /\ i = k

\* The places of what is new, and of the rest.
LEMMA ArrivalsMore ==
    ASSUME NEW f, NEW g, NEW n, NEW k, NEW r, NEW s, MoreBy(f, g, n, k, r)
    PROVE  /\ r.s = s /\ Arrivals(f, s) = {} => Single(Arrivals(g, s))
           /\ r.s # s => Arrivals(g, s) = Arrivals(f, s)
<1>1. \A x \in Arrivals(f, s) : x \in Arrivals(g, s)
  <2> SUFFICES ASSUME NEW x \in Arrivals(f, s) PROVE x \in Arrivals(g, s)
    OBVIOUS
  <2>1. PICK m \in Nodes : \E i \in DOMAIN f[m] : x = <<m, i>> /\ f[m][i].s = s
    BY ArrivalIs
  <2> QED
    BY <2>1, ArrivalIs DEF MoreBy
<1>2. \A x \in Arrivals(g, s) : x \in Arrivals(f, s) \/ (x = <<n, k>> /\ r.s = s)
  <2> SUFFICES ASSUME NEW x \in Arrivals(g, s)
               PROVE  x \in Arrivals(f, s) \/ (x = <<n, k>> /\ r.s = s)
    OBVIOUS
  <2>1. PICK m \in Nodes : \E i \in DOMAIN g[m] : x = <<m, i>> /\ g[m][i].s = s
    BY ArrivalIs
  <2>2. PICK i \in DOMAIN g[m] : x = <<m, i>> /\ g[m][i].s = s
    BY <2>1
  <2>3. CASE i \in DOMAIN f[m] /\ g[m][i] = f[m][i]
    <3>1. f[m][i].s = s
      BY <2>2, <2>3
    <3>2. <<m, i>> \in Arrivals(f, s)
      BY <2>3, <3>1, ArrivalIs
    <3> QED
      BY <2>2, <3>2
  <2>4. CASE m = n /\ i = k
    BY <2>2, <2>4 DEF MoreBy
  <2> QED
    BY <2>3, <2>4 DEF MoreBy
<1>3. CASE r.s # s
  BY <1>1, <1>2, <1>3
<1>4. CASE r.s = s
  <2>1. <<n, k>> \in Arrivals(g, s)
    BY <1>4, ArrivalIs DEF MoreBy
  <2>2. ASSUME Arrivals(f, s) = {} PROVE Single(Arrivals(g, s))
    <3>1. Arrivals(g, s) = {<<n, k>>}
      BY <1>2, <2>1, <2>2
    <3> QED
      BY <3>1 DEF Single
  <2> QED
    BY <1>4, <2>2
<1> QED
  BY <1>3, <1>4

\* r is put into the buffer of node n.
Received(f, n, r) == [f EXCEPT ![n] = Append(@, r)]

\* Something new in the buffer of a node is in one place there.
LEMMA ArrivalsAppend ==
    ASSUME NEW T, NEW f \in [Nodes -> Seq(T)], NEW n \in Nodes, NEW r
    PROVE  \E k : MoreBy(f, Received(f, n, r), n, k, r)
<1> DEFINE len == Len(f[n])
           g == Received(f, n, r)
<1>1. f[n] \in Seq(T) /\ len \in Nat /\ DOMAIN f[n] = 1..len
  OBVIOUS
<1>2. g[n] = Append(f[n], r) /\ \A m \in Nodes : m # n => g[m] = f[m]
  BY DEF Received
<1> HIDE DEF g
<1>3. /\ DOMAIN g[n] = 1..(len + 1) /\ g[n][len + 1] = r
      /\ \A i \in 1..len : g[n][i] = f[n][i]
  <2>1. Append(f[n], r) = [i \in 1..(len + 1) |-> IF i = len + 1 THEN r ELSE f[n][i]]
    BY <1>1
  <2>2. len + 1 \in 1..(len + 1) /\ \A i \in 1..len : i \in 1..(len + 1) /\ i # len + 1
    BY <1>1
  <2> QED
    BY ONLY <1>2, <2>1, <2>2
<1>4. \A m \in Nodes : \A i \in DOMAIN f[m] : i \in DOMAIN g[m] /\ g[m][i] = f[m][i]
  BY <1>1, <1>2, <1>3
<1>5. \A m \in Nodes : \A i \in DOMAIN g[m] :
         \/ i \in DOMAIN f[m] /\ g[m][i] = f[m][i]
         \/ m = n /\ i = len + 1
  <2> TAKE m \in Nodes
  <2> TAKE i \in DOMAIN g[m]
  <2>1. CASE m # n
    BY <1>2, <2>1
  <2>2. CASE m = n
    <3>1. i \in 1..len \/ i = len + 1
      BY <1>1, <1>3, <2>2
    <3> QED
      BY <1>1, <1>3, <2>2, <3>1
  <2> QED
    BY <2>1, <2>2
<1>6. MoreBy(f, g, n, len + 1, r)
  BY <1>1, <1>3, <1>4, <1>5 DEF MoreBy
<1> QED
  BY <1>6 DEF g

\* Data arrives when nothing has failed: the place on the link becomes one in the
\* buffer.
LEMMA ArrivesOnce ==
    ASSUME IInv, Complete, RoutesLead, up = Links, NEW l \in Links, link[l] # <<>>, NEW p,
           p = Head(link[l]), RecvData(l, p)
    PROVE  Complete'
<1> DEFINE n == l[2]
<1>1. Types /\ Core /\ got \in [Nodes -> Seq(GotRec(plan))]
  BY IsCore DEF Types
<1>2. p \in Packets(plan, gen) /\ n \in Nodes
  BY <1>1, HeadGenuine
<1>3. /\ IsToMe(n, p.dest) /\ p.proto = "avim" /\ Handled(l, p, Learned(n, p), <<>>)
      /\ \E text \in {Opened(n, p)} \ {NoText} :
           got' = [got EXCEPT ![n] =
                     Append(@, [from |-> AddressToString(p.src), text |-> text, s |-> p.s])]
  BY DEF RecvData
<1>4. PICK r : r.s = p.s /\ got' = [got EXCEPT ![n] = Append(@, r)]
  BY <1>3
<1>5. p.s \in Sends
  BY <1>1, <1>2, <1>3, DataFor
<1>6. Trusted(Learned(n, p), plan, gen)
  <2>1. Trusted(keys[n], plan, gen)
    BY <1>1, <1>2 DEF Core, KeyInv
  <2> QED
    BY <1>1, <1>2, <2>1, LearnedTrusted
<1>7. plan' = plan /\ Sends' = Sends
  BY <1>3 DEF Handled, Sends
<1>8. /\ WayInv' /\ OnceInv' /\ RoutedInv'
      /\ \A s \in Sends : PlacesAfter(s, p, FALSE)
  <2>1. PICK out : out = <<>>
    OBVIOUS
  <2>2. out \in Seq({}) /\ DOMAIN out = {} /\ Handled(l, p, Learned(n, p), out)
    BY <1>3, <2>1
  <2> QED
    BY <1>1, <1>6, <2>2, HandledPlaces
<1>9. \A s : /\ r.s = s /\ Arrivals(got, s) = {} => Single(Arrivals(got', s))
             /\ r.s # s => Arrivals(got', s) = Arrivals(got, s)
  <2>1. PICK m, T : m = n /\ T = GotRec(plan)
    OBVIOUS
  <2>2. got \in [Nodes -> Seq(T)] /\ m \in Nodes
    BY <1>1, <1>2, <2>1
  <2>3. PICK k : MoreBy(got, Received(got, m, r), m, k, r)
    BY ONLY <2>2, ArrivalsAppend
  <2>4. got' = Received(got, m, r)
    BY <1>4, <2>1 DEF Received
  <2>5. MoreBy(got, got', m, k, r)
    BY <2>3, <2>4
  <2> QED
    BY <2>5, ArrivalsMore
<1>10. ASSUME NEW s \in Sends PROVE InOnePlace(s)'
  <2>1. InOnePlace(s) /\ PlacesAfter(s, p, FALSE)
    BY <1>8, <1>10 DEF Complete
  <2>2. CASE s # p.s
    <3>1. Arrivals(got', s) = Arrivals(got, s)
      BY <1>4, <1>9, <1>10, <2>2
    <3> QED
      BY <2>1, <2>2, <3>1 DEF InOnePlace, PlacesAfter
  <2>3. CASE s = p.s
    <3>1. Single(Spots(link, s))
      <4>1. <<l, 1>> \in Spots(link, s)
        <5>1. link[l] \in Seq(Packets(plan, gen))
          BY <1>1 DEF Core, LinkInv
        <5>2. 1 \in DOMAIN link[l] /\ link[l][1] = p
          BY <5>1
        <5> QED
          BY <2>3, <5>2, SpotIs
      <4> QED
        BY <2>1, <4>1 DEF InOnePlace
    <3>2. op[s].pc = "sent"
      BY <2>1, <3>1 DEF InOnePlace, Single
    <3>3. Arrivals(got, s) = {} /\ Spots(link', s) = {} /\ op'[s].pc = "sent"
      BY <2>1, <2>3, <3>2 DEF PlacesAfter
    <3>4. Single(Arrivals(got', s))
      BY <1>4, <1>9, <1>10, <2>3, <3>3
    <3> QED
      BY <3>3, <3>4 DEF InOnePlace
  <2> QED
    BY <2>2, <2>3
<1> QED
  BY <1>7, <1>8, <1>10 DEF Complete

\* A packet is read when nothing has failed, and nothing fails.
LEMMA ReceivePlaces ==
    ASSUME IInv, Complete, RoutesLead, up = Links, up' = Links, NEW l \in Links, Receive(l)
    PROVE  Complete'
<1> DEFINE n == l[2]
<1>1. Types /\ Core /\ NoSend \notin Sends
  BY IsCore, NoSendIsNone
<1>2. link[l] # <<>>
  BY DEF Receive
<1>3. PICK p : p = Head(link[l])
  OBVIOUS
<1>4. p \in Packets(plan, gen) /\ l[1] \in Nodes /\ n \in Nodes
  BY <1>1, <1>2, <1>3, HeadGenuine
<1>5. \/ RecvAsk(l, p) \/ RecvReply(l, p) \/ RecvData(l, p) \/ RecvBad(l, p)
      \/ Forward(l, p) \/ Drop(l, p)
  BY <1>3 DEF Receive
<1>6. Trusted(keys[n], plan, gen)
  BY <1>1, <1>4 DEF Core, KeyInv
<1>7. Trusted(Learned(n, p), plan, gen)
  BY <1>1, <1>4, <1>6, LearnedTrusted
<1>8. OnItsWay(l, p)
  <2>1. link[l] \in Seq(Packets(plan, gen))
    BY <1>1 DEF Core, LinkInv
  <2>2. 1 \in DOMAIN link[l] /\ link[l][1] = p
    BY <1>2, <1>3, <2>1
  <2> QED
    BY <2>2 DEF Complete, WayInv
<1>9. p.proto # "avim" => p.s = NoSend
  BY <1>8 DEF OnItsWay
<1>10. \A str : SelectRoute(n, str) = FirstRoute(n, str, Links)
  BY DEF SelectRoute
<1>11. ASSUME NEW ks, Trusted(ks, plan, gen), NEW O, NEW out \in Seq(O), got' = got,
              p.proto # "avim", Handled(l, p, ks, out),
              \A k \in DOMAIN out : /\ OnItsWay(<<n, out[k].to>>, out[k].pkt)
                                    /\ out[k].pkt.s = NoSend
       PROVE  Complete'
  <2>1. /\ WayInv' /\ OnceInv' /\ RoutedInv'
        /\ \A s \in Sends : PlacesAfter(s, p, FALSE)
    BY <1>1, <1>2, <1>3, <1>11, HandledPlaces
  <2>2. Sends' = Sends
    BY <1>11 DEF Handled, Sends
  <2> QED
    BY <1>1, <1>9, <1>11, <2>1, <2>2, PlacesKept
<1>12. \A x : /\ <<x>> \in Seq({x}) /\ <<x>> \in [{1} -> {x}] /\ DOMAIN <<x>> = {1}
              /\ <<x>>[1] = x
  OBVIOUS
<1>13. <<>> \in Seq({}) /\ DOMAIN <<>> = {}
  OBVIOUS
<1>14. CASE RecvAsk(l, p)
  <2>1. PICK x : x = [to |-> l[1], pkt |-> PkReply(n, AddressToString(p.src))]
    OBVIOUS
  <2>2. Handled(l, p, Learned(n, p), <<x>>) /\ got' = got /\ p.proto = "pkask"
    BY <1>14, <2>1 DEF RecvAsk
  <2>3. OnItsWay(<<n, x.to>>, x.pkt) /\ x.pkt.s = NoSend
    BY <2>1, OfNoSend
  <2>4. PICK out : out = <<x>>
    OBVIOUS
  <2>5. out \in Seq({x}) /\ \A k \in DOMAIN out : out[k] = x
    BY <1>12, <2>4
  <2> QED
    BY <1>7, <1>11, <2>2, <2>3, <2>4, <2>5
<1>15. CASE RecvReply(l, p)
  <2>1. PICK ks : ks = [keys[n] EXCEPT ![AddressToString(p.src)] = p.body]
    OBVIOUS
  <2>2. p.proto = "pkreply" /\ Handled(l, p, ks, <<>>) /\ got' = got
    BY <1>15, <2>1 DEF RecvReply
  <2>3. Trusted(ks, plan, gen)
    BY <1>1, <1>4, <1>6, <2>1, <2>2, ReplyTrusted
  <2> QED
    BY <1>11, <1>13, <2>2, <2>3
<1>16. CASE RecvData(l, p)
  BY <1>2, <1>3, <1>16, ArrivesOnce
<1>17. CASE RecvBad(l, p)
  <2>1. up' = up \ LinksOf(n) /\ l \in LinksOf(n)
    BY <1>17 DEF RecvBad, LinksOf
  <2> QED
    BY <2>1
<1>18. CASE Forward(l, p)
  <2>1. PICK to : to = FirstRoute(n, AddressToString(p.dest), Links)
    OBVIOUS
  <2>2. PICK x : x = [to |-> to, pkt |-> Older(l, p, to)]
    OBVIOUS
  <2>3. Handled(l, p, Learned(n, p), <<x>>) /\ got' = got /\ ~ IsToMe(n, p.dest)
    BY <1>10, <1>18, <2>1, <2>2 DEF Forward
  <2>4. PICK out : out = <<x>>
    OBVIOUS
  <2>5. /\ out \in Seq({x}) /\ out \in [{1} -> {x}] /\ out[1] = x
        /\ \A k \in DOMAIN out : out[k] = x
    BY <1>12, <2>4
  <2>6. p \in PacketRec(plan)
    BY <1>4 DEF Packets
  <2>7. x.to = to /\ x.pkt = Older(l, p, to) /\ x.pkt.s = p.s /\ x.pkt.proto = p.proto
    BY <2>2, <2>6 DEF Older, PacketRec
  <2>8. CASE p.proto = "avim"
    <3>1. <<n, to>> \in Links /\ OnItsWay(<<n, to>>, x.pkt)
      BY <1>1, <1>4, <1>8, <2>1, <2>3, <2>7, <2>8, DataGoesOn
    <3>2. p.s # NoSend
      BY <1>1, <1>4, <2>8, DataFor
    <3>3. /\ WayInv' /\ OnceInv' /\ RoutedInv'
          /\ \A s \in Sends : PlacesAfter(s, p, TRUE)
      <4>1. \A k \in DOMAIN out : OnItsWay(<<l[2], out[k].to>>, out[k].pkt)
        BY <2>5, <2>7, <3>1
      <4>2. /\ p.s # NoSend /\ out \in [{1} -> {x}] /\ out[1].pkt.s = p.s
            /\ <<l[2], out[1].to>> \in Links
        BY <2>5, <2>7, <3>1, <3>2
      <4>3. Handled(l, p, Learned(n, p), out)
        BY <2>3, <2>4
      <4> QED
        BY <1>1, <1>2, <1>3, <1>7, <2>5, <4>1, <4>2, <4>3, HandledPlaces
    <3>4. Sends' = Sends
      BY <2>3 DEF Handled, Sends
    <3> QED
      BY <2>3, <3>3, <3>4, PlacesKept
  <2>9. CASE p.proto # "avim"
    <3>1. x.pkt.s = NoSend /\ OnItsWay(<<n, x.to>>, x.pkt)
      BY <1>9, <2>7, <2>9 DEF OnItsWay
    <3> QED
      BY <1>7, <1>11, <2>3, <2>4, <2>5, <2>9, <3>1
  <2> QED
    BY <2>8, <2>9
<1>19. CASE Drop(l, p)
  <2>1. /\ Handled(l, p, Learned(n, p), <<>>) /\ got' = got /\ ~ IsToMe(n, p.dest)
        /\ ~ Lives(p) \/ FirstRoute(n, AddressToString(p.dest), Links) = NoNode
    BY <1>10, <1>19 DEF Drop
  <2>2. p.proto # "avim"
    BY <1>1, <1>4, <1>8, <2>1, DataGoesOn
  <2> QED
    BY <1>7, <1>11, <1>13, <2>1, <2>2
<1> QED
  BY <1>5, <1>14, <1>15, <1>16, <1>17, <1>18, <1>19

\* Nothing is sent at first, and a step in which nothing fails keeps it all.
LEMMA NothingLostStep ==
    ASSUME RoutesLead
    PROVE  /\ Init => PlaceInv
           /\ IInv /\ PlaceInv /\ [Next]_vars => PlaceInv'
<1>1. ASSUME Init PROVE Complete
  <2>1. /\ link = [l \in Links |-> <<>>] /\ waiting = [n \in Nodes |-> <<>>]
        /\ got = [n \in Nodes |-> <<>>] /\ op = [s \in Sends |-> [pc |-> "idle", asks |-> 0]]
    BY <1>1 DEF Init
  <2>2. WayInv /\ OnceInv /\ RoutedInv
    BY <2>1 DEF WayInv, OnceInv, RoutedInv
  <2>3. \A s \in Sends : Spots(link, s) = {} /\ Arrivals(got, s) = {}
    BY <2>1 DEF Spots, Arrivals
  <2> QED
    BY <2>1, <2>2, <2>3 DEF Complete, InOnePlace
<1>2. ASSUME IInv, PlaceInv, [Next]_vars, Calm' PROVE Complete'
  <2>1. Types /\ Core /\ up' = Links /\ gen \in [Nodes -> {0, 1}]
    BY <1>2, IsCore DEF Calm, Types
  <2>2. ASSUME up = Links, gen' = gen PROVE Complete
    BY <1>2, <2>2 DEF Calm, PlaceInv
  <2>3. ASSUME NEW s \in Sends, Send(s) PROVE Complete'
    <3>1. up' = up /\ gen' = gen
      BY <2>3 DEF Send
    <3> QED
      BY <2>1, <2>2, <2>3, <3>1, SendPlaces
  <2>4. ASSUME NEW n \in Nodes, NEW W \in SUBSET ToSet(waiting[n]), Expire(n, W) PROVE Complete'
    <3>1. up' = up /\ gen' = gen
      BY <2>4 DEF Expire
    <3> QED
      BY <2>1, <2>2, <2>4, <3>1, ExpirePlaces
  <2>5. ASSUME NEW l \in Links, Receive(l) PROVE Complete'
    <3>1. gen' = gen /\ up' \subseteq up
      BY <2>5 DEF Receive, RecvAsk, RecvReply, RecvData, RecvBad, Forward, Drop, Handled
    <3>2. up = Links
      BY <2>1, <3>1 DEF Types
    <3> QED
      BY <1>2, <2>1, <2>2, <2>5, <3>1, <3>2, ReceivePlaces
  <2>6. ASSUME NEW l \in Links, Break(l) PROVE FALSE
    BY <2>1, <2>6 DEF Break
  <2>7. ASSUME NEW n \in Nodes, Restart(n) PROVE FALSE
    <3>1. gen'[n] = 1
      BY <2>1, <2>7 DEF Restart
    <3> QED
      BY <1>2, <3>1 DEF Calm
  <2>8. CASE UNCHANGED vars
    <3>1. /\ plan' = plan /\ link' = link /\ up' = up /\ op' = op /\ waiting' = waiting
          /\ got' = got /\ gen' = gen
      BY <2>8 DEF vars
    <3>2. Complete
      BY <2>1, <2>2, <3>1
    <3> QED
      BY <3>1, <3>2
         DEF Complete, WayInv, OnceInv, RoutedInv, InOnePlace, Sends, From, To
  <2> QED
    BY <1>2, <2>3, <2>4, <2>5, <2>6, <2>7, <2>8 DEF Next
<1> QED
  BY <1>1, <1>2 DEF PlaceInv

\* Data that was sent is in one place, on a link or in a buffer, unless a node or a
\* link has failed, in every network whose routes lead to where they should.
THEOREM NothingIsLost == RoutesLead => (Spec => []SentIsSomewhere)
<1> SUFFICES ASSUME RoutesLead PROVE Spec => []SentIsSomewhere
  OBVIOUS
<1>1. Init => PlaceInv
  BY NothingLostStep
<1>2. IInv /\ PlaceInv /\ [Next]_vars => PlaceInv'
  BY NothingLostStep
<1>3. PlaceInv => SentIsSomewhere
  <2> SUFFICES ASSUME Calm, Complete, NEW s \in Sends, op[s].pc = "sent"
               PROVE  Cardinality(Spots(link, s)) + Cardinality(Arrivals(got, s)) = 1
    BY DEF PlaceInv, SentIsSomewhere, Spots, Arrivals
  <2>1. \A S : Single(S) => Cardinality(S) = 1
    BY FS_Singleton DEF Single
  <2>2. Cardinality({}) = 0
    BY FS_EmptySet
  <2>3. InOnePlace(s)
    BY DEF Complete
  <2> QED
    BY <2>1, <2>2, <2>3 DEF InOnePlace
<1> QED
  BY <1>1, <1>2, <1>3, Invariance, PTL DEF Spec
=============================================================================
