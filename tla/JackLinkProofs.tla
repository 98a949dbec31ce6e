--------------------------- MODULE JackLinkProofs ---------------------------
(***************************************************************************)
(* Proofs about JackLink, for any bodies of packets, any number of them    *)
(* and any place where the connection breaks: decode undoes encode, the    *)
(* reader never loses the beginning of a frame, a read error that is not   *)
(* looked at damages one packet at most, and the handshake is a success    *)
(* only when the router said so.                                           *)
(***************************************************************************)
EXTENDS JackLink, Integers, SequenceTheorems, TLAPS

-----------------------------------------------------------------------------
(***************************************************************************)
(* Sequences.                                                              *)
(***************************************************************************)
\* A concatenation; the definition keeps the provers from taking it apart.
Cat(a, b) == a \o b

LEMMA CatFacts ==
    ASSUME NEW S, NEW a \in Seq(S), NEW b \in Seq(S)
    PROVE  /\ Cat(a, b) \in Seq(S) /\ Len(Cat(a, b)) = Len(a) + Len(b)
           /\ \A k \in 1..(Len(a) + Len(b)) :
                 Cat(a, b)[k] = IF k <= Len(a) THEN a[k] ELSE b[k - Len(a)]
<1>1. Len(a) \in Nat /\ Len(b) \in Nat
  OBVIOUS
<1> QED
  BY <1>1, ConcatProperties DEF Cat

\* The n elements behind the first i, likewise.
Sub(s, i, n) == SubSeq(s, i + 1, i + n)

LEMMA SubFacts ==
    ASSUME NEW S, NEW s \in Seq(S), NEW i \in Nat, NEW n \in Nat, i + n <= Len(s)
    PROVE  /\ Sub(s, i, n) \in Seq(S) /\ Len(Sub(s, i, n)) = n
           /\ \A k \in 1..n : Sub(s, i, n)[k] = s[i + k]
BY DEF Sub

LEMMA SameSeq ==
    ASSUME NEW S, NEW T, NEW s \in Seq(S), NEW t \in Seq(T), Len(s) = Len(t),
           \A k \in 1..Len(s) : s[k] = t[k]
    PROVE  s = t
OBVIOUS

-----------------------------------------------------------------------------
(***************************************************************************)
(* encode and decode.                                                      *)
(***************************************************************************)
LEMMA TypeNames == Types = {"server_hello", "login_result", "avPacket"}
BY DEF Types, Name

\* The names of the types.
LEMMA NameFacts ==
    ASSUME NEW t \in Types
    PROVE  /\ Name[t] \in Seq(Nat \ {0}) /\ Len(Name[t]) \in Nat \ {0}
           /\ \A u \in Types : Name[u] = Name[t] => u = t
<1>1. /\ Name["server_hello"] = <<1>> /\ Name["login_result"] = <<2>>
      /\ Name["avPacket"] = <<3, 4>>
  BY DEF Name
<1>2. /\ Name["server_hello"] \in Seq(Nat \ {0}) /\ Len(Name["server_hello"]) = 1
      /\ Name["login_result"] \in Seq(Nat \ {0}) /\ Len(Name["login_result"]) = 1
      /\ Name["avPacket"] \in Seq(Nat \ {0}) /\ Len(Name["avPacket"]) = 2
  BY <1>1
<1>3. /\ Name["server_hello"] # Name["login_result"] /\ Name["server_hello"] # Name["avPacket"]
      /\ Name["login_result"] # Name["avPacket"]
  BY <1>1
<1> QED
  BY <1>2, <1>3, TypeNames

\* A message has a body, and the body has no zeros.
LEMMA MessageFacts ==
    ASSUME NEW m \in Message
    PROVE  /\ m.type \in Types /\ m.body \in Seq(Nat \ {0}) /\ Len(m.body) \in Nat \ {0}
           /\ m = Msg(m.type, m.body)
<1>1. m.type \in Types /\ m = [type |-> m.type, body |-> m.body]
      /\ m.body \in Bodies \cup {HelloBody, Succeed, Refuse}
  BY DEF Message
<1>2. /\ HelloBody \in Seq(Nat \ {0}) /\ HelloBody # <<>>
      /\ Succeed \in Seq(Nat \ {0}) /\ Succeed # <<>>
      /\ Refuse \in Seq(Nat \ {0}) /\ Refuse # <<>>
  BY DEF HelloBody, Succeed, Refuse
<1>3. m.body \in Seq(Nat \ {0}) /\ m.body # <<>>
  BY <1>1, <1>2, LinkAssumption
<1>4. Len(m.body) \in Nat \ {0}
  BY <1>3, EmptySeq
<1> QED
  BY <1>1, <1>3, <1>4 DEF Msg

\* The frame of a message: two lengths, the name and the body.
LEMMA EncodeFacts ==
    ASSUME NEW m \in Message
    PROVE  LET n == Len(Name[m.type]) IN
           /\ Encode(m) \in Seq(Nat)
           /\ Len(Encode(m)) = 2 + n + Len(m.body)
           /\ Encode(m)[1] = 1 + n + Len(m.body) /\ Encode(m)[2] = n
           /\ \A k \in 1..n : Encode(m)[2 + k] = Name[m.type][k]
           /\ \A k \in 1..Len(m.body) : Encode(m)[2 + n + k] = m.body[k]
<1> DEFINE nm == Name[m.type]
           n == Len(nm)
           q == Len(m.body)
           one == <<n>>
           f == Cat(one, nm)
           rest == Cat(f, m.body)
           h == <<Len(rest)>>
           e == Cat(h, rest)
<1>1. nm \in Seq(Nat) /\ n \in Nat \ {0} /\ m.body \in Seq(Nat) /\ q \in Nat
  <2>1. nm \in Seq(Nat \ {0}) /\ n \in Nat \ {0}
    BY MessageFacts, NameFacts
  <2>2. m.body \in Seq(Nat \ {0}) /\ q \in Nat
    BY MessageFacts
  <2> QED
    BY <2>1, <2>2
<1>2. Encode(m) = e
  BY DEF Encode, Cat
<1> HIDE DEF nm
<1>3. one \in Seq(Nat) /\ Len(one) = 1 /\ one[1] = n
  BY <1>1
<1> HIDE DEF one
<1>4. /\ f \in Seq(Nat) /\ Len(f) = 1 + n
      /\ \A k \in 1..(1 + n) : f[k] = IF k <= 1 THEN one[k] ELSE nm[k - 1]
  <2>1. /\ f \in Seq(Nat) /\ Len(f) = Len(one) + n
        /\ \A k \in 1..(Len(one) + n) : f[k] = IF k <= Len(one) THEN one[k] ELSE nm[k - Len(one)]
    <3>1. one \in Seq(Nat)
      BY <1>3
    <3> QED
      BY <1>1, <3>1, CatFacts
  <2> HIDE DEF f, n
  <2> QED
    BY <1>3, <2>1
<1> HIDE DEF f
<1>5. /\ rest \in Seq(Nat) /\ Len(rest) = 1 + n + q
      /\ \A k \in 1..(1 + n + q) : rest[k] = IF k <= 1 + n THEN f[k] ELSE m.body[k - (1 + n)]
  <2>1. /\ rest \in Seq(Nat) /\ Len(rest) = Len(f) + q
        /\ \A k \in 1..(Len(f) + q) : rest[k] = IF k <= Len(f) THEN f[k] ELSE m.body[k - Len(f)]
    <3>1. f \in Seq(Nat)
      BY <1>4
    <3> QED
      BY <1>1, <3>1, CatFacts
  <2> HIDE DEF rest, n, q
  <2> QED
    BY <1>4, <2>1
<1> HIDE DEF rest
<1>6. h \in Seq(Nat) /\ Len(h) = 1 /\ h[1] = 1 + n + q
  <2> HIDE DEF n, q
  <2>1. Len(rest) \in Nat /\ Len(rest) = 1 + n + q
    BY <1>1, <1>5
  <2> QED
    BY <2>1
<1> HIDE DEF h
<1>7. /\ e \in Seq(Nat) /\ Len(e) = 2 + n + q
      /\ \A k \in 1..(2 + n + q) : e[k] = IF k <= 1 THEN h[k] ELSE rest[k - 1]
  <2>1. /\ e \in Seq(Nat) /\ Len(e) = Len(h) + Len(rest)
        /\ \A k \in 1..(Len(h) + Len(rest)) : e[k] = IF k <= Len(h) THEN h[k] ELSE rest[k - Len(h)]
    <3>1. h \in Seq(Nat) /\ rest \in Seq(Nat)
      BY <1>5, <1>6
    <3> QED
      BY <3>1, CatFacts
  <2> HIDE DEF e, n, q
  <2>2. Len(h) = 1 /\ Len(h) + Len(rest) = 2 + n + q
    BY <1>1, <1>5, <1>6
  <2> QED
    BY <2>1, <2>2
<1> HIDE DEF e, n, q
<1>8. e[1] = 1 + n + q
  BY <1>1, <1>6, <1>7
<1>9. e[2] = n
  <2>1. /\ 2 \in 1..(2 + n + q) /\ ~ (2 <= 1) /\ 2 - 1 = 1
        /\ 1 \in 1..(1 + n + q) /\ 1 <= 1 + n /\ 1 \in 1..(1 + n) /\ 1 <= 1
    BY <1>1
  <2>2. e[2] = rest[1]
    BY <1>7, <2>1
  <2>3. rest[1] = f[1]
    BY <1>5, <2>1
  <2>4. f[1] = one[1]
    BY <1>4, <2>1
  <2> QED
    BY <1>3, <2>2, <2>3, <2>4
<1>10. ASSUME NEW k \in 1..n PROVE e[2 + k] = nm[k]
  <2>1. /\ 1 + k \in 1..(1 + n) /\ ~ (1 + k <= 1) /\ (1 + k) - 1 = k
        /\ 1 + k \in 1..(1 + n + q) /\ 1 + k <= 1 + n
        /\ 2 + k \in 1..(2 + n + q) /\ ~ (2 + k <= 1) /\ (2 + k) - 1 = 1 + k
    BY <1>1
  <2> QED
    BY <1>4, <1>5, <1>7, <2>1
<1>11. ASSUME NEW k \in 1..q PROVE e[2 + n + k] = m.body[k]
  <2>1. /\ 1 + n + k \in 1..(1 + n + q) /\ ~ (1 + n + k <= 1 + n) /\ (1 + n + k) - (1 + n) = k
        /\ 2 + n + k \in 1..(2 + n + q) /\ ~ (2 + n + k <= 1) /\ (2 + n + k) - 1 = 1 + n + k
    BY <1>1
  <2> QED
    BY <1>5, <1>7, <2>1
<1> QED
  BY <1>2, <1>7, <1>8, <1>9, <1>10, <1>11 DEF nm, n, q

\* decode undoes encode.
LEMMA DecodeEncode ==
    ASSUME NEW m \in Message
    PROVE  Decode(Encode(m)) = {m}
<1> DEFINE nm == Name[m.type]
           n == Len(nm)
           q == Len(m.body)
           buf == Encode(m)
           named == {t \in Types : Name[t] = SubSeq(buf, 3, 2 + buf[2])}
           body == SubSeq(buf, 3 + buf[2], Len(buf))
<1>1. /\ m.type \in Types /\ nm \in Seq(Nat \ {0}) /\ n \in Nat \ {0} /\ m = Msg(m.type, m.body)
      /\ m.body \in Seq(Nat \ {0}) /\ q \in Nat \ {0}
      /\ \A u \in Types : Name[u] = nm => u = m.type
  BY MessageFacts, NameFacts
<1>2. /\ buf \in Seq(Nat) /\ Len(buf) = 2 + n + q /\ buf[1] = 1 + n + q /\ buf[2] = n
      /\ \A k \in 1..n : buf[2 + k] = nm[k]
      /\ \A k \in 1..q : buf[2 + n + k] = m.body[k]
  BY EncodeFacts
<1>3. (\A k \in 1..q : m.body[k] \in Nat \ {0}) /\ Len(nm) = n /\ Len(m.body) = q
  BY <1>1
<1> HIDE DEF nm, buf, n, q
<1>4. SubSeq(buf, 3, 2 + buf[2]) = nm /\ body = m.body
  <2>1. /\ 2 \in Nat /\ 2 + n <= Len(buf) /\ 2 + 1 = 3 /\ n \in Nat /\ q \in Nat
        /\ 2 + n \in Nat /\ (2 + n) + q <= Len(buf) /\ (2 + n) + 1 = 3 + n /\ (2 + n) + q = Len(buf)
    BY <1>1, <1>2
  <2> DEFINE s == Sub(buf, 2, n)
             t == Sub(buf, 2 + n, q)
  <2>2. s \in Seq(Nat) /\ Len(s) = n /\ \A k \in 1..n : s[k] = buf[2 + k]
    <3>1. buf \in Seq(Nat) /\ 2 \in Nat /\ n \in Nat /\ 2 + n <= Len(buf)
      BY <1>2, <2>1
    <3> QED
      BY <3>1, SubFacts
  <2>3. t \in Seq(Nat) /\ Len(t) = q /\ \A k \in 1..q : t[k] = buf[(2 + n) + k]
    <3>1. buf \in Seq(Nat) /\ 2 + n \in Nat /\ q \in Nat /\ (2 + n) + q <= Len(buf)
      BY <1>2, <2>1
    <3> QED
      BY <3>1, SubFacts
  <2> HIDE DEF s, t
  <2>4. s = nm
    <3>1. \A k \in 1..n : s[k] = nm[k]
      BY <1>2, <2>2
    <3>2. s \in Seq(Nat) /\ nm \in Seq(Nat \ {0}) /\ Len(s) = Len(nm) /\ \A k \in 1..Len(s) : s[k] = nm[k]
      BY <1>1, <1>3, <2>2, <3>1
    <3> QED
      BY <3>2, SameSeq
  <2>5. t = m.body
    <3>1. \A k \in 1..q : t[k] = m.body[k]
      BY <1>2, <2>3
    <3>2. t \in Seq(Nat) /\ m.body \in Seq(Nat \ {0}) /\ Len(t) = Len(m.body)
          /\ \A k \in 1..Len(t) : t[k] = m.body[k]
      BY <1>1, <1>3, <2>3, <3>1
    <3> QED
      BY <3>2, SameSeq
  <2>6. Sub(buf, 2, n) = SubSeq(buf, 3, 2 + buf[2])
    BY <1>2, <2>1 DEF Sub
  <2>7. Sub(buf, 2 + n, q) = body
    BY <1>2, <2>1 DEF Sub
  <2> QED
    BY <2>4, <2>5, <2>6, <2>7 DEF s, t
<1>5. named = {m.type}
  BY <1>1, <1>4 DEF nm
<1>6. ~ \E k \in 1..Len(body) : body[k] = 0
  BY <1>3, <1>4
<1>7. ~ (Len(buf) < 2 \/ Len(buf) # buf[1] + 1 \/ buf[2] >= Len(buf) - 2 \/ named = {})
  <2>1. named # {}
    BY <1>5
  <2> HIDE DEF named
  <2> QED
    BY <1>1, <1>2, <2>1
<1> HIDE DEF named, body
<1>8. Decode(buf) = {Msg(t, body) : t \in named}
  <2>1. Decode(buf) = IF Len(buf) < 2 \/ Len(buf) # buf[1] + 1 \/ buf[2] >= Len(buf) - 2 \/ named = {}
                        THEN {Null}
                      ELSE IF \E k \in 1..Len(body) : body[k] = 0 THEN {Null, Damaged}
                      ELSE {Msg(t, body) : t \in named}
    BY DEF Decode, named, body
  <2> QED
    BY <1>6, <1>7, <2>1
<1> QED
  BY <1>1, <1>4, <1>5, <1>8 DEF buf

\* What was cut and filled with zeros is nothing, or a damaged packet.
LEMMA DecodeCut ==
    ASSUME NEW buf \in Seq(Nat), Len(buf) \in Nat \ {0}, buf[Len(buf)] = 0
    PROVE  Decode(buf) \subseteq {Null, Damaged}
<1> DEFINE len == Len(buf)
           named == {t \in Types : Name[t] = SubSeq(buf, 3, 2 + buf[2])}
           body == SubSeq(buf, 3 + buf[2], len)
           bad == len < 2 \/ len # buf[1] + 1 \/ buf[2] >= len - 2 \/ named = {}
<1>1. Decode(buf) = IF bad THEN {Null}
                    ELSE IF \E k \in 1..Len(body) : body[k] = 0 THEN {Null, Damaged}
                    ELSE {Msg(t, body) : t \in named}
  BY DEF Decode
<1>2. ASSUME ~ bad PROVE \E k \in 1..Len(body) : body[k] = 0
  <2>1. len \in Nat /\ len >= 2 /\ buf[2] \in Nat /\ buf[2] < len - 2
    <3> HIDE DEF named, body
    <3>1. len \in Nat /\ ~ (len < 2) /\ ~ (buf[2] >= len - 2)
      BY <1>2
    <3>2. 2 \in 1..len
      BY <3>1
    <3>3. buf[2] \in Nat
      BY <3>2
    <3> HIDE DEF len
    <3> QED
      BY <3>1, <3>3
  <2> DEFINE i == 2 + buf[2]
             n == len - i
             t == Sub(buf, i, n)
  <2>2. i \in Nat /\ n \in Nat \ {0} /\ i + n = len /\ i + 1 = 3 + buf[2]
    <3> HIDE DEF len
    <3>1. \A c \in Nat : c < len - 2 =>
             /\ 2 + c \in Nat /\ (2 + c) + 1 = 3 + c
             /\ len - (2 + c) \in Nat \ {0} /\ (2 + c) + (len - (2 + c)) = len
      BY <2>1
    <3> QED
      BY <2>1, <3>1
  <2> HIDE DEF i, n, named
  <2>3. Len(t) = n /\ \A k \in 1..n : t[k] = buf[i + k]
    <3>1. buf \in Seq(Nat) /\ i \in Nat /\ n \in Nat /\ i + n <= Len(buf)
      BY <2>2
    <3> QED
      BY <3>1, SubFacts
  <2>4. t = body
    BY <2>2 DEF Sub
  <2> HIDE DEF t, body
  <2>5. n \in 1..Len(body) /\ body[n] = 0
    <3>1. n \in 1..n /\ n \in 1..Len(t)
      BY <2>2, <2>3
    <3>2. t[n] = buf[len]
      BY <2>2, <2>3, <3>1
    <3> QED
      BY <2>4, <3>1, <3>2
  <2> QED
    BY <2>5
<1> HIDE DEF bad, named, body
<1> QED
  BY <1>1, <1>2

\* No name is empty: without a cell of the name there is nothing.
LEMMA DecodeEmpty ==
    ASSUME NEW buf \in Seq(Nat), Len(buf) >= 2 => buf[2] = 0
    PROVE  Decode(buf) = {Null}
<1> DEFINE named == {t \in Types : Name[t] = SubSeq(buf, 3, 2 + buf[2])}
<1>1. CASE Len(buf) < 2
  BY <1>1 DEF Decode
<1>2. CASE Len(buf) >= 2
  <2>1. 2 + buf[2] = 2
    BY <1>2
  <2>2. SubSeq(buf, 3, 2 + buf[2]) = <<>>
    BY <2>1
  <2>3. ASSUME NEW t \in Types PROVE Name[t] # <<>>
    <3>1. Name[t] \in Seq(Nat \ {0}) /\ Len(Name[t]) # 0
      BY NameFacts
    <3> QED
      BY <3>1
  <2>4. named = {}
    BY <2>2, <2>3
  <2> QED
    BY <2>4 DEF Decode
<1>3. Len(buf) \in Nat
  OBVIOUS
<1> QED
  BY <1>1, <1>2, <1>3

\* What is in the buffer when the read has ended.
LEMMA BufferFacts ==
    ASSUME stream \in Seq(Nat), NEW n \in Nat
    PROVE  /\ Buffer(n) \in Seq(Nat) /\ Len(Buffer(n)) = n + 1 /\ Buffer(n)[1] = n
           /\ \A k \in 2..(n + 1) :
                 Buffer(n)[k] = IF k - 1 <= Len(stream) THEN stream[k - 1] ELSE 0
<1> DEFINE z == [k \in 1..n |-> IF k <= Len(stream) THEN stream[k] ELSE 0]
           h == <<n>>
           e == Cat(h, z)
<1>1. Buffer(n) = e
  BY DEF Buffer, Cat
<1>2. z \in Seq(Nat) /\ Len(z) = n
  <2>1. \A k \in 1..n : (IF k <= Len(stream) THEN stream[k] ELSE 0) \in Nat
    OBVIOUS
  <2>2. z \in [1..n -> Nat]
    BY <2>1
  <2> QED
    BY <2>2
<1>3. \A k \in 1..n : z[k] = IF k <= Len(stream) THEN stream[k] ELSE 0
  OBVIOUS
<1> HIDE DEF z
<1>4. h \in Seq(Nat) /\ Len(h) = 1 /\ h[1] = n
  OBVIOUS
<1> HIDE DEF h
<1>5. /\ e \in Seq(Nat) /\ Len(e) = Len(h) + Len(z)
      /\ \A k \in 1..(Len(h) + Len(z)) : e[k] = IF k <= Len(h) THEN h[k] ELSE z[k - Len(h)]
  <2>1. h \in Seq(Nat) /\ z \in Seq(Nat)
    BY <1>2, <1>4
  <2> QED
    BY <2>1, CatFacts
<1> HIDE DEF e
<1>6. Len(h) + Len(z) = n + 1
  BY <1>2, <1>4
<1>7. \A k \in 1..(n + 1) : e[k] = IF k <= 1 THEN h[k] ELSE z[k - 1]
  BY <1>4, <1>5, <1>6
<1>8. e[1] = n
  BY <1>4, <1>7
<1>9. ASSUME NEW k \in 2..(n + 1)
      PROVE  e[k] = IF k - 1 <= Len(stream) THEN stream[k - 1] ELSE 0
  <2>1. k \in 1..(n + 1) /\ ~ (k <= 1) /\ k - 1 \in 1..n
    OBVIOUS
  <2> QED
    BY <1>3, <1>7, <2>1
<1> QED
  BY <1>1, <1>5, <1>6, <1>8, <1>9

-----------------------------------------------------------------------------
(***************************************************************************)
(* The stream.  All that the router ever sent is laid out in w, with the   *)
(* message k between the places b[k - 1] and b[k]; what is not yet read is *)
(* a piece of it that begins behind p, and goes to the end e unless the    *)
(* connection broke.                                                       *)
(***************************************************************************)
Laid(ms, w, b) ==
    /\ w \in [Nat -> Nat] /\ b \in [Nat -> Nat]
    /\ \A k \in 0..Len(ms) : b[k] <= b[Len(ms)]
    /\ \A k \in 1..Len(ms) : b[k] = b[k - 1] + Len(Encode(ms[k]))
    /\ \A k \in 1..Len(ms) : \A c \in 1..Len(Encode(ms[k])) :
          w[b[k - 1] + c] = Encode(ms[k])[c]

Ahead(st, br, w, p, e) ==
    /\ \A i \in 1..Len(st) : st[i] = w[p + i]
    /\ p + Len(st) <= e /\ (br \/ p + Len(st) = e)

\* A read takes the first cells of what is ahead.
LEMMA AheadRead ==
    ASSUME NEW st \in Seq(Nat), NEW br, NEW w, NEW p \in Nat, NEW e \in Nat, NEW n \in Nat,
           n <= Len(st), Ahead(st, br, w, p, e)
    PROVE  LET r == SubSeq(st, n + 1, Len(st)) IN
           r \in Seq(Nat) /\ Len(r) = Len(st) - n /\ Ahead(r, br, w, p + n, e)
<1> DEFINE j == Len(st) - n
           r == Sub(st, n, j)
<1>1. j \in Nat /\ n + j = Len(st) /\ Len(st) \in Nat
  OBVIOUS
<1> HIDE DEF j
<1>2. r \in Seq(Nat) /\ Len(r) = j /\ \A k \in 1..j : r[k] = st[n + k]
  <2>1. n + j <= Len(st)
    BY <1>1
  <2>2. j \in Nat
    BY <1>1
  <2> QED
    BY <2>1, <2>2, SubFacts
<1>3. r = SubSeq(st, n + 1, Len(st))
  BY <1>1 DEF Sub
<1> HIDE DEF r
<1>4. ASSUME NEW i \in 1..j PROVE r[i] = w[(p + n) + i]
  <2>1. n + i \in 1..Len(st) /\ p + (n + i) = (p + n) + i
    BY <1>1
  <2>2. st[n + i] = w[p + (n + i)]
    BY <2>1 DEF Ahead
  <2> QED
    BY <1>2, <2>1, <2>2
<1>5. (p + n) + Len(r) = p + Len(st)
  <2>1. (p + n) + j = p + (n + j)
    BY <1>1
  <2> QED
    BY <1>1, <1>2, <2>1
<1>6. Ahead(r, br, w, p + n, e)
  BY <1>2, <1>4, <1>5 DEF Ahead
<1> QED
  BY <1>2, <1>3, <1>6 DEF j

\* A break leaves the beginning of what is ahead.
LEMMA AheadBreak ==
    ASSUME NEW st \in Seq(Nat), NEW br, NEW w, NEW p \in Nat, NEW e \in Nat,
           NEW n \in 0..Len(st), Ahead(st, br, w, p, e)
    PROVE  SubSeq(st, 1, n) \in Seq(Nat) /\ Ahead(SubSeq(st, 1, n), TRUE, w, p, e)
<1> DEFINE r == SubSeq(st, 1, n)
<1>1. r \in Seq(Nat) /\ Len(r) = n /\ \A k \in 1..n : r[k] = st[k]
  OBVIOUS
<1> HIDE DEF r
<1>2. n \in Nat /\ n <= Len(st) /\ p + n <= p + Len(st)
  OBVIOUS
<1>3. p + Len(st) <= e /\ \A i \in 1..Len(st) : st[i] = w[p + i]
  BY DEF Ahead
<1>4. p + n <= e
  BY <1>2, <1>3
<1>5. \A i \in 1..n : r[i] = w[p + i]
  <2>1. \A i \in 1..n : i \in 1..Len(st)
    BY <1>2
  <2> QED
    BY <1>1, <1>3, <2>1
<1>6. Ahead(r, TRUE, w, p, e)
  BY <1>1, <1>4, <1>5 DEF Ahead
<1> QED
  BY <1>1, <1>6 DEF r

\* A message the router sends is laid out behind the others.
LaidBehind(ms, m, b, st, p) ==
    \E w2, b2 :
       /\ Laid(Append(ms, m), w2, b2)
       /\ \A k \in 0..Len(ms) : b2[k] = b[k]
       /\ st \o Encode(m) \in Seq(Nat)
       /\ Ahead(st \o Encode(m), FALSE, w2, p, b2[Len(ms) + 1])

LEMMA LaidSend ==
    ASSUME NEW ms \in Seq(Message), NEW m \in Message, NEW w, NEW b, Laid(ms, w, b),
           NEW st \in Seq(Nat), NEW p \in Nat, Ahead(st, FALSE, w, p, b[Len(ms)])
    PROVE  LaidBehind(ms, m, b, st, p)
<1> DEFINE n == Len(ms)
           x == Encode(m)
           q == Len(x)
           e == b[n]
           w2 == [i \in Nat |-> IF e < i /\ i <= e + q THEN x[i - e] ELSE w[i]]
           b2 == [k \in Nat |-> IF k = n + 1 THEN e + q ELSE b[k]]
           ms2 == Append(ms, m)
           st2 == Cat(st, x)
<1>1. n \in Nat /\ x \in Seq(Nat) /\ q \in Nat /\ e \in Nat /\ \A c \in 1..q : x[c] \in Nat
  <2>1. x \in Seq(Nat)
    BY EncodeFacts
  <2>2. n \in Nat
    OBVIOUS
  <2>3. e \in Nat
    BY <2>2 DEF Laid
  <2> HIDE DEF x
  <2>4. q \in Nat /\ \A c \in 1..q : x[c] \in Nat
    BY <2>1
  <2> QED
    BY <2>1, <2>2, <2>3, <2>4
<1>2. Len(ms2) = n + 1 /\ ms2[n + 1] = m /\ \A k \in 1..n : ms2[k] = ms[k]
  OBVIOUS
<1> HIDE DEF x, q, ms2
<1>3. w2 \in [Nat -> Nat] /\ b2 \in [Nat -> Nat]
  <2>1. \A i \in Nat : w[i] \in Nat /\ b[i] \in Nat
    BY DEF Laid
  <2>2. \A i \in Nat : e < i /\ i <= e + q => i - e \in 1..q
    BY <1>1
  <2> QED
    BY <1>1, <2>1, <2>2
<1>4. /\ \A i \in Nat : i <= e => w2[i] = w[i]
      /\ \A c \in 1..q : w2[e + c] = x[c]
  <2>1. ASSUME NEW c \in 1..q PROVE w2[e + c] = x[c]
    <3>1. e + c \in Nat /\ e < e + c /\ e + c <= e + q /\ (e + c) - e = c
      BY <1>1
    <3> QED
      BY <3>1
  <2> QED
    BY <1>1, <2>1
<1>5. b2[n + 1] = e + q /\ \A k \in 0..n : b2[k] = b[k]
  BY <1>1
<1> HIDE DEF w2, b2
<1>6. /\ \A k \in 0..n : b[k] <= e /\ b[k] \in Nat
      /\ \A k \in 1..n : b[k] = b[k - 1] + Len(Encode(ms[k]))
      /\ \A k \in 1..n : \A c \in 1..Len(Encode(ms[k])) : w[b[k - 1] + c] = Encode(ms[k])[c]
  BY DEF Laid
<1> HIDE DEF n, e
<1>7. \A k \in 0..(n + 1) : b2[k] <= b2[n + 1]
  <2>1. \A k \in 0..(n + 1) : k \in 0..n \/ k = n + 1
    BY <1>1
  <2>2. ASSUME NEW k \in 0..n PROVE b2[k] <= e + q
    <3>1. b2[k] = b[k] /\ b[k] <= e /\ b[k] \in Nat
      BY <1>5, <1>6
    <3> QED
      BY <1>1, <3>1
  <2>3. e + q <= e + q
    BY <1>1
  <2> QED
    BY <1>5, <2>1, <2>2, <2>3
<1>8. ASSUME NEW k \in 1..(n + 1)
      PROVE  /\ b2[k] = b2[k - 1] + Len(Encode(ms2[k]))
             /\ \A c \in 1..Len(Encode(ms2[k])) : w2[b2[k - 1] + c] = Encode(ms2[k])[c]
  <2>1. CASE k = n + 1
    <3>1. k - 1 = n /\ n \in 0..n
      BY <1>1, <2>1
    <3>2. b2[k - 1] = e /\ b2[k] = e + q /\ ms2[k] = m
      BY <1>2, <1>5, <2>1, <3>1 DEF e
    <3> QED
      BY <1>4, <3>2 DEF q, x
  <2>2. CASE k \in 1..n
    <3>1. k - 1 \in 0..n /\ k \in 0..n
      BY <1>1, <2>2
    <3>2. b2[k - 1] = b[k - 1] /\ b2[k] = b[k] /\ ms2[k] = ms[k]
      BY <1>2, <1>5, <2>2, <3>1
    <3> DEFINE y == Encode(ms[k])
    <3>3. y \in Seq(Nat)
      <4>1. ms[k] \in Message
        BY <2>2 DEF n
      <4> QED
        BY <4>1, EncodeFacts
    <3>4. b[k] = b[k - 1] + Len(y) /\ \A c \in 1..Len(y) : w[b[k - 1] + c] = y[c]
      BY <1>6, <2>2
    <3> HIDE DEF y
    <3>5. ASSUME NEW c \in 1..Len(y) PROVE w2[b2[k - 1] + c] = y[c]
      <4>1. b[k - 1] \in Nat /\ b[k] <= e
        BY <1>6, <3>1
      <4>2. b[k - 1] + c \in Nat /\ b[k - 1] + c <= e
        BY <1>1, <3>3, <3>4, <4>1
      <4> QED
        BY <1>4, <3>2, <3>4, <4>2
    <3> QED
      BY <3>2, <3>4, <3>5 DEF y
  <2> QED
    BY <1>1, <2>1, <2>2
<1>9. Laid(ms2, w2, b2)
  BY <1>2, <1>3, <1>7, <1>8 DEF Laid
<1>10. /\ st2 \in Seq(Nat) /\ Len(st2) = Len(st) + q
       /\ \A k \in 1..(Len(st) + q) : st2[k] = IF k <= Len(st) THEN st[k] ELSE x[k - Len(st)]
  BY <1>1, CatFacts DEF q
<1>11. st2 = st \o Encode(m)
  BY DEF Cat, x
<1> HIDE DEF st2
<1>12. Len(st) \in Nat /\ p + Len(st) = e /\ \A i \in 1..Len(st) : st[i] = w[p + i]
  BY DEF Ahead, e, n
<1>13. ASSUME NEW i \in 1..(Len(st) + q) PROVE st2[i] = w2[p + i]
  <2>1. CASE i <= Len(st)
    <3>1. i \in 1..Len(st) /\ p + i \in Nat /\ p + i <= e
      BY <1>1, <1>12, <2>1
    <3> QED
      BY <1>4, <1>10, <1>12, <2>1, <3>1
  <2>2. CASE ~ (i <= Len(st))
    <3>1. i - Len(st) \in 1..q
      BY <1>1, <1>12, <2>2
    <3>2. (p + Len(st)) + (i - Len(st)) = p + i
      BY <1>1, <1>12
    <3>3. e + (i - Len(st)) = p + i
      BY <1>12, <3>2
    <3> QED
      BY <1>4, <1>10, <2>2, <3>1, <3>3
  <2> QED
    BY <2>1, <2>2
<1>14. p + Len(st2) = b2[n + 1]
  <2>1. p + (Len(st) + q) = (p + Len(st)) + q
    BY <1>1, <1>12
  <2> QED
    BY <1>5, <1>10, <1>12, <2>1
<1>15. p + Len(st2) \in Nat
  BY <1>1, <1>10, <1>12
<1>16. Ahead(st2, FALSE, w2, p, b2[n + 1])
  BY <1>10, <1>13, <1>14, <1>15 DEF Ahead
<1> QED
  BY <1>5, <1>9, <1>10, <1>11, <1>16 DEF n, ms2, LaidBehind

\* The reader is where a message begins or, when it has read the length x of
\* the message behind the first n, behind that length.
InFrame(st, br, ms, n, x) ==
    /\ n \in 0..Len(ms)
    /\ x # NoLen => n < Len(ms) /\ x + 1 = Len(Encode(ms[n + 1]))
    /\ \E w, b : /\ Laid(ms, w, b)
                 /\ Ahead(st, br, w, b[n] + (IF x = NoLen THEN 0 ELSE 1), b[Len(ms)])

LEMMA FrameSend ==
    ASSUME NEW st \in Seq(Nat), NEW ms \in Seq(Message), NEW n, NEW x, NEW m \in Message,
           InFrame(st, FALSE, ms, n, x)
    PROVE  /\ st \o Encode(m) \in Seq(Nat)
           /\ InFrame(st \o Encode(m), FALSE, Append(ms, m), n, x)
<1> DEFINE h == IF x = NoLen THEN 0 ELSE 1
           ms2 == Append(ms, m)
<1>1. n \in 0..Len(ms) /\ (x # NoLen => n < Len(ms) /\ x + 1 = Len(Encode(ms[n + 1])))
  BY DEF InFrame
<1>2. PICK w, b : Laid(ms, w, b) /\ Ahead(st, FALSE, w, b[n] + h, b[Len(ms)])
  BY DEF InFrame
<1> DEFINE p == b[n] + h
<1>3. p \in Nat
  <2>1. h \in Nat /\ n \in Nat
    BY <1>1
  <2>2. b[n] \in Nat
    BY <1>2, <2>1 DEF Laid
  <2> HIDE DEF h
  <2> QED
    BY <2>1, <2>2
<1> HIDE DEF h, p
<1>4. PICK w2, b2 :
         /\ Laid(Append(ms, m), w2, b2)
         /\ \A k \in 0..Len(ms) : b2[k] = b[k]
         /\ st \o Encode(m) \in Seq(Nat)
         /\ Ahead(st \o Encode(m), FALSE, w2, p, b2[Len(ms) + 1])
  <2>1. Ahead(st, FALSE, w, p, b[Len(ms)])
    BY <1>2 DEF p
  <2>2. Laid(ms, w, b)
    BY <1>2
  <2>3. LaidBehind(ms, m, b, st, p)
    BY <1>3, <2>1, <2>2, LaidSend
  <2> QED
    BY <2>3 DEF LaidBehind
<1>5. Laid(ms2, w2, b2) /\ Len(ms2) = Len(ms) + 1 /\ ms2 \in Seq(Message) /\ \A k \in 1..Len(ms) : ms2[k] = ms[k]
  BY <1>4
<1> HIDE DEF ms2
<1>6. b2[n] = b[n]
  BY <1>1, <1>4
<1>7. n \in 0..Len(ms2) /\ (x # NoLen => n < Len(ms2) /\ x + 1 = Len(Encode(ms2[n + 1])))
  <2>1. Len(ms) \in Nat
    OBVIOUS
  <2>2. x # NoLen => n + 1 \in 1..Len(ms)
    BY <1>1, <2>1
  <2> QED
    BY <1>1, <1>5, <2>1, <2>2
<1>8. Ahead(st \o Encode(m), FALSE, w2, b2[n] + h, b2[Len(ms2)])
  BY <1>4, <1>5, <1>6 DEF p
<1> QED
  BY <1>4, <1>5, <1>7, <1>8 DEF InFrame, h, ms2

LEMMA FrameBreak ==
    ASSUME NEW st \in Seq(Nat), NEW br, NEW ms \in Seq(Message), NEW n, NEW x,
           InFrame(st, br, ms, n, x), NEW k \in 0..Len(st)
    PROVE  SubSeq(st, 1, k) \in Seq(Nat) /\ InFrame(SubSeq(st, 1, k), TRUE, ms, n, x)
<1> DEFINE h == IF x = NoLen THEN 0 ELSE 1
<1>1. PICK w, b : Laid(ms, w, b) /\ Ahead(st, br, w, b[n] + h, b[Len(ms)])
  BY DEF InFrame
<1>2. n \in 0..Len(ms)
  BY DEF InFrame
<1>3. b[n] + h \in Nat /\ b[Len(ms)] \in Nat
  <2>1. h \in Nat /\ n \in Nat /\ Len(ms) \in Nat
    BY <1>2
  <2>2. b[n] \in Nat /\ b[Len(ms)] \in Nat
    BY <1>1, <2>1 DEF Laid
  <2> HIDE DEF h
  <2> QED
    BY <2>1, <2>2
<1> HIDE DEF h
<1>4. SubSeq(st, 1, k) \in Seq(Nat) /\ Ahead(SubSeq(st, 1, k), TRUE, w, b[n] + h, b[Len(ms)])
  BY <1>1, <1>3, AheadBreak
<1> QED
  BY <1>1, <1>4 DEF InFrame, h

\* The head of the stream is a length where a message begins.
LEMMA FrameHead ==
    ASSUME NEW st \in Seq(Nat), NEW br, NEW ms \in Seq(Message), NEW n,
           InFrame(st, br, ms, n, NoLen), st # <<>>
    PROVE  /\ Head(st) \in Nat /\ Tail(st) \in Seq(Nat)
           /\ InFrame(Tail(st), br, ms, n, Head(st))
<1>1. n \in 0..Len(ms)
  BY DEF InFrame
<1>2. PICK w, b : Laid(ms, w, b) /\ Ahead(st, br, w, b[n] + 0, b[Len(ms)])
  BY DEF InFrame
<1>3. b[n] \in Nat /\ b[Len(ms)] \in Nat /\ b[n] + 0 = b[n]
  BY <1>1, <1>2 DEF Laid
<1>4. Len(st) \in Nat \ {0} /\ Head(st) = st[1] /\ Head(st) \in Nat
      /\ Tail(st) = SubSeq(st, 1 + 1, Len(st))
  OBVIOUS
<1>5. n + 1 \in 1..Len(ms)
  <2>1. b[n] + Len(st) <= b[Len(ms)]
    BY <1>2, <1>3 DEF Ahead
  <2>2. n # Len(ms)
    BY <1>3, <1>4, <2>1
  <2> QED
    BY <1>1, <2>2
<1> DEFINE e == Encode(ms[n + 1])
<1>6. Len(e) \in Nat \ {0, 1} /\ e[1] + 1 = Len(e)
  <2>1. ms[n + 1] \in Message
    BY <1>5
  <2> DEFINE y == ms[n + 1]
             c == Len(Name[y.type])
             d == Len(y.body)
  <2> HIDE DEF y
  <2>2. Len(Encode(y)) = 2 + c + d /\ Encode(y)[1] = 1 + c + d
    BY <2>1, EncodeFacts DEF y
  <2>3. c \in Nat \ {0} /\ d \in Nat \ {0}
    BY <2>1, MessageFacts, NameFacts DEF y
  <2> HIDE DEF c, d
  <2>4. Len(Encode(y)) \in Nat \ {0, 1} /\ Encode(y)[1] + 1 = Len(Encode(y))
    BY <2>2, <2>3
  <2> QED
    BY <2>4 DEF y
<1>7. st[1] = e[1]
  <2>1. (n + 1) - 1 = n /\ 1 \in 1..Len(e) /\ 1 \in 1..Len(st)
    BY <1>1, <1>4, <1>6
  <2>2. \A c \in 1..Len(e) : w[b[(n + 1) - 1] + c] = e[c]
    BY <1>2, <1>5 DEF Laid
  <2> HIDE DEF e
  <2>3. w[b[n] + 1] = e[1]
    BY <2>1, <2>2
  <2>4. st[1] = w[b[n] + 1]
    BY <1>2, <1>3, <2>1 DEF Ahead
  <2> QED
    BY <2>3, <2>4
<1>8. Head(st) # NoLen
  BY <1>4, LinkAssumption
<1>9. Tail(st) \in Seq(Nat) /\ Ahead(Tail(st), br, w, b[n] + 1, b[Len(ms)])
  <2>1. 1 \in Nat /\ 1 <= Len(st)
    BY <1>4
  <2>2. Ahead(st, br, w, b[n], b[Len(ms)])
    BY <1>2, <1>3
  <2> DEFINE one == 1
             p == b[n]
  <2>3. one \in Nat /\ one <= Len(st) /\ p \in Nat /\ Ahead(st, br, w, p, b[Len(ms)])
        /\ Tail(st) = SubSeq(st, one + 1, Len(st))
    BY <1>3, <1>4, <2>1, <2>2
  <2> HIDE DEF one, p
  <2>4. LET r == SubSeq(st, one + 1, Len(st)) IN
        r \in Seq(Nat) /\ Ahead(r, br, w, p + one, b[Len(ms)])
    BY <1>3, <2>3, AheadRead
  <2> QED
    BY <2>3, <2>4 DEF one, p
<1>10. n < Len(ms)
  BY <1>1, <1>5
<1>11. Head(st) + 1 = Len(e)
  BY <1>4, <1>6, <1>7
<1> QED
  BY <1>1, <1>2, <1>4, <1>8, <1>9, <1>10, <1>11 DEF InFrame

\* Behind the length there is the rest of the message, and then the next one.
LEMMA FrameBody ==
    ASSUME NEW st \in Seq(Nat), NEW br, NEW ms \in Seq(Message), NEW n, NEW x \in Nat,
           InFrame(st, br, ms, n, x), x <= Len(st)
    PROVE  /\ ms[n + 1] \in Message /\ x + 1 = Len(Encode(ms[n + 1]))
           /\ \A k \in 1..x : st[k] = Encode(ms[n + 1])[k + 1]
           /\ SubSeq(st, x + 1, Len(st)) \in Seq(Nat)
           /\ InFrame(SubSeq(st, x + 1, Len(st)), br, ms, n + 1, NoLen)
<1>0. x # NoLen
  BY LinkAssumption
<1>1. n \in 0..Len(ms) /\ n < Len(ms) /\ x + 1 = Len(Encode(ms[n + 1]))
  BY <1>0 DEF InFrame
<1>2. PICK w, b : Laid(ms, w, b) /\ Ahead(st, br, w, b[n] + 1, b[Len(ms)])
  BY <1>0 DEF InFrame
<1>3. b[n] \in Nat /\ b[Len(ms)] \in Nat /\ b[n] + 1 \in Nat
  <2>1. n \in Nat /\ Len(ms) \in Nat
    BY <1>1
  <2>2. b[n] \in Nat /\ b[Len(ms)] \in Nat
    BY <1>2, <2>1 DEF Laid
  <2> QED
    BY <2>2
<1>4. n + 1 \in 1..Len(ms) /\ n + 1 \in 0..Len(ms) /\ (n + 1) - 1 = n
  BY <1>1
<1>5. ms[n + 1] \in Message
  BY <1>4
<1> DEFINE e == Encode(ms[n + 1])
           r == SubSeq(st, x + 1, Len(st))
<1>6. b[n + 1] = b[n] + Len(e) /\ \A c \in 1..Len(e) : w[b[n] + c] = e[c]
  BY <1>2, <1>4 DEF Laid
<1>7. r \in Seq(Nat) /\ Ahead(r, br, w, (b[n] + 1) + x, b[Len(ms)])
  BY <1>2, <1>3, AheadRead
<1> HIDE DEF e, r
<1>8. (b[n] + 1) + x = b[n + 1] + 0
  <2>1. \A a \in Nat : (a + 1) + x = (a + (x + 1)) + 0
    OBVIOUS
  <2> QED
    BY <1>1, <1>3, <1>6, <2>1 DEF e
<1>9. ASSUME NEW k \in 1..x PROVE st[k] = e[k + 1]
  <2>1. k + 1 \in 1..(x + 1) /\ k \in 1..Len(st) /\ (b[n] + 1) + k = b[n] + (k + 1)
    <3>1. \A a \in Nat : (a + 1) + k = a + (k + 1)
      OBVIOUS
    <3>2. k \in 1..Len(st) /\ k + 1 \in 1..(x + 1)
      OBVIOUS
    <3> QED
      BY <1>3, <3>1, <3>2
  <2>2. st[k] = w[(b[n] + 1) + k]
    BY <1>2, <2>1 DEF Ahead
  <2>3. w[b[n] + (k + 1)] = e[k + 1]
    BY <1>1, <1>6, <2>1 DEF e
  <2> QED
    BY <2>1, <2>2, <2>3
<1>10. Ahead(r, br, w, b[n + 1] + 0, b[Len(ms)])
  BY <1>7, <1>8
<1>11. InFrame(r, br, ms, n + 1, NoLen)
  BY <1>2, <1>4, <1>10 DEF InFrame
<1> QED
  BY <1>1, <1>5, <1>7, <1>9, <1>11 DEF e, r

-----------------------------------------------------------------------------
(***************************************************************************)
(* What is read.                                                           *)
(***************************************************************************)

\* All of the message has come: it is what decode returns.
LEMMA ReadWhole ==
    ASSUME stream \in Seq(Nat), sent \in Seq(Message), NEW n, l \in Nat,
           InFrame(stream, broken, sent, n, l), l <= Len(stream)
    PROVE  /\ sent[n + 1] \in Message /\ Decode(Buffer(l)) = {sent[n + 1]}
           /\ Rest(l) \in Seq(Nat) /\ InFrame(Rest(l), broken, sent, n + 1, NoLen)
<1> DEFINE m == sent[n + 1]
           buf == Buffer(l)
           e == Encode(m)
<1>1. /\ m \in Message /\ l + 1 = Len(e) /\ \A k \in 1..l : stream[k] = e[k + 1]
      /\ Rest(l) \in Seq(Nat) /\ InFrame(Rest(l), broken, sent, n + 1, NoLen)
  BY FrameBody DEF Rest
<1>2. /\ buf \in Seq(Nat) /\ Len(buf) = l + 1 /\ buf[1] = l
      /\ \A k \in 2..(l + 1) : buf[k] = IF k - 1 <= Len(stream) THEN stream[k - 1] ELSE 0
  BY BufferFacts
<1> HIDE DEF m, buf
<1>3. e \in Seq(Nat) /\ e[1] = l
  <2> DEFINE c == Len(Name[m.type])
             d == Len(m.body)
  <2>1. e \in Seq(Nat) /\ Len(e) = 2 + c + d /\ e[1] = 1 + c + d
    BY <1>1, EncodeFacts
  <2>2. c \in Nat /\ d \in Nat
    BY <1>1, MessageFacts, NameFacts
  <2> HIDE DEF c, d, e
  <2>3. l = 1 + c + d
    BY <1>1, <2>1, <2>2
  <2> QED
    BY <2>1, <2>3
<1> HIDE DEF e
<1>4. ASSUME NEW k \in 1..(l + 1) PROVE buf[k] = e[k]
  <2>1. CASE k = 1
    BY <1>2, <1>3, <2>1
  <2>2. CASE k # 1
    <3>1. k \in 2..(l + 1) /\ k - 1 \in 1..l /\ k - 1 <= Len(stream) /\ (k - 1) + 1 = k
      BY <2>2
    <3>2. buf[k] = stream[k - 1]
      BY <1>2, <3>1
    <3>3. stream[k - 1] = e[(k - 1) + 1]
      BY <1>1, <3>1
    <3> QED
      BY <3>1, <3>2, <3>3
  <2> QED
    BY <2>1, <2>2
<1>5. buf = e
  <2>1. Len(buf) = Len(e) /\ \A k \in 1..Len(buf) : buf[k] = e[k]
    BY <1>1, <1>2, <1>4
  <2> QED
    BY <1>2, <1>3, <2>1, SameSeq
<1>6. Decode(e) = {m}
  BY <1>1, DecodeEncode DEF e
<1> QED
  BY <1>1, <1>5, <1>6 DEF m, buf

\* Not all of it has come.
LEMMA ReadCut ==
    ASSUME stream \in Seq(Nat), l \in Nat
    PROVE  /\ Len(stream) < l =>
                 /\ Decode(Buffer(l)) \subseteq {Null, Damaged}
                 /\ Rest(l) = <<>>
           /\ stream = <<>> => Decode(Buffer(l)) = {Null} /\ Rest(l) = <<>>
<1> DEFINE buf == Buffer(l)
<1>1. /\ buf \in Seq(Nat) /\ Len(buf) = l + 1
      /\ \A k \in 2..(l + 1) : buf[k] = IF k - 1 <= Len(stream) THEN stream[k - 1] ELSE 0
  BY BufferFacts
<1> HIDE DEF buf
<1>2. Len(stream) \in Nat
  OBVIOUS
<1>3. ASSUME Len(stream) < l PROVE Decode(buf) \subseteq {Null, Damaged} /\ Rest(l) = <<>>
  <2>1. l + 1 \in 2..(l + 1) /\ ~ ((l + 1) - 1 <= Len(stream))
    BY <1>2, <1>3
  <2>2. buf[Len(buf)] = 0 /\ Len(buf) \in Nat \ {0}
    BY <1>1, <2>1
  <2>3. Rest(l) = <<>>
    BY <1>2, <1>3, SubSeqEmpty DEF Rest
  <2> QED
    BY <1>1, <2>2, <2>3, DecodeCut
<1>4. ASSUME stream = <<>> PROVE Decode(buf) = {Null} /\ Rest(l) = <<>>
  <2>1. Len(stream) = 0
    BY <1>4
  <2>2. Len(buf) >= 2 => buf[2] = 0
    BY <1>1, <2>1
  <2>3. Rest(l) = <<>>
    BY <2>1, SubSeqEmpty DEF Rest
  <2> QED
    BY <1>1, <2>2, <2>3, DecodeEmpty
<1> QED
  BY <1>3, <1>4 DEF buf

-----------------------------------------------------------------------------
(***************************************************************************)
(* The invariant.                                                          *)
(***************************************************************************)

\* How many messages have been read.
Taken == IF phase \in {"start", "hello"} THEN 0
         ELSE IF phase \in {"login", "result"} THEN 1 ELSE 2 + Len(got)

Shaking == {"start", "hello", "login", "result"}

\* Nothing comes any more; what is in l may be garbage.
Drained == phase = "packet" /\ broken /\ stream = <<>>

StreamInv == phase \in Ended \/ Drained \/ InFrame(stream, broken, sent, Taken, l)

HistInv ==
    /\ got \in Seq(Message \cup {Damaged})
    /\ out \in Seq([type : {"client_hello", "login", "avPacket"}, body : {<<>>}])

\* What was returned, in order; damage only where nothing comes any more.
GotInv ==
    /\ got = <<>> \/ Len(got) + 2 <= Len(sent)
    /\ \A k \in 1..Len(got) :
          \/ got[k] = sent[k + 2]
          \/ got[k] = Damaged /\ k = Len(got) /\ broken /\ (phase = "packet" => stream = <<>>)
    /\ phase \in Shaking => got = <<>>

\* The router follows the protocol.
SentInv ==
    /\ Len(sent) >= 1 => sent[1] = Msg("server_hello", HelloBody)
    /\ Len(sent) >= 2 => sent[2] \in {Msg("login_result", Succeed), Msg("login_result", Refuse)}
    /\ \A k \in 3..Len(sent) : sent[2].body = Succeed /\ \E b \in Bodies : sent[k] = Msg("avPacket", b)

OutInv ==
    /\ phase = "start" => out = <<>>
    /\ phase \in {"hello", "login"} => Len(out) = 1 /\ out[1].type = "client_hello"
    /\ phase \in {"result", "packet"} =>
          Len(out) >= 2 /\ out[1].type = "client_hello" /\ out[2].type = "login"
    /\ Wrote("login") => Len(sent) >= 1

PhaseInv == phase = "packet" => Len(sent) >= 2 /\ sent[2].body = Succeed

IInv == TypeOK /\ HistInv /\ StreamInv /\ GotInv /\ SentInv /\ OutInv /\ PhaseInv

\* A damaged packet is no packet that was sent.
LEMMA DamagedIsNone == Damaged \notin Message /\ Null \notin Message /\ Null # Damaged
<1>1. Damaged \notin Message
  <2> SUFFICES ASSUME Damaged \in Message PROVE FALSE
    OBVIOUS
  <2>1. Damaged.body \in Seq(Nat \ {0})
    BY MessageFacts
  <2>2. Damaged.body = <<0>>
    BY DEF Damaged, Msg
  <2>3. <<0>>[1] \in Nat \ {0}
    BY <2>1, <2>2
  <2> QED
    BY <2>3
<1>2. Null.type = "none" /\ Damaged.type = "avPacket"
  BY DEF Null, Damaged, Msg
<1>3. Null \notin Message
  BY <1>2, MessageFacts, TypeNames
<1> QED
  BY <1>1, <1>2, <1>3

LEMMA InitIInv == Init => IInv
<1> SUFFICES ASSUME Init PROVE IInv
  OBVIOUS
<1> USE DEF Init
<1>0. Len(sent) = 0 /\ Len(got) = 0 /\ Len(out) = 0
  OBVIOUS
<1>1. TypeOK /\ HistInv /\ GotInv /\ SentInv /\ PhaseInv
  <2>1. TypeOK
    <3>1. phase \in {"start", "hello", "login", "result", "packet"} \cup Ended
      OBVIOUS
    <3>2. stream \in Seq(Nat) /\ sent \in Seq(Message)
      OBVIOUS
    <3>3. broken \in BOOLEAN /\ l \in Nat \cup {NoLen}
      OBVIOUS
    <3> QED
      BY <1>0, <3>1, <3>2, <3>3 DEF TypeOK
  <2>2. HistInv
    BY DEF HistInv
  <2>3. GotInv /\ PhaseInv
    BY <1>0 DEF GotInv, PhaseInv
  <2>4. SentInv
    BY <1>0 DEF SentInv
  <2> QED
    BY <2>1, <2>2, <2>3, <2>4
<1>2. OutInv
  BY <1>0 DEF OutInv, Wrote
<1>3. InFrame(stream, broken, sent, Taken, l)
  <2> DEFINE z == [k \in Nat |-> 0]
             h == IF l = NoLen THEN 0 ELSE 1
  <2>1. z \in [Nat -> Nat] /\ z[0] = 0 /\ h = 0 /\ l = NoLen
    OBVIOUS
  <2>2. Taken = 0 /\ Len(stream) = 0
    BY DEF Taken
  <2> HIDE DEF z, h, Init
  <2>3. Laid(sent, z, z)
    BY <1>0, <2>1 DEF Laid
  <2>4. Ahead(stream, broken, z, z[Taken] + h, z[Len(sent)])
    BY <1>0, <2>1, <2>2 DEF Ahead
  <2>5. Taken \in 0..Len(sent)
    BY <1>0, <2>2
  <2> QED
    BY <2>1, <2>3, <2>4, <2>5 DEF InFrame, h
<1> QED
  BY <1>1, <1>2, <1>3 DEF IInv, StreamInv

\* What every message of the router leaves as it is.
LEMMA SendsKeeps ==
    ASSUME IInv, NEW m \in Message, ServerSends(m)
    PROVE  TypeOK' /\ HistInv' /\ StreamInv' /\ GotInv' /\ OutInv' /\ PhaseInv'
           /\ Len(sent') = Len(sent) + 1 /\ sent'[Len(sent) + 1] = m
           /\ \A k \in 1..Len(sent) : sent'[k] = sent[k]
<1>1. /\ ~ broken /\ stream' = stream \o Encode(m) /\ sent' = Append(sent, m)
      /\ phase' = phase /\ l' = l /\ broken' = broken /\ out' = out /\ got' = got
  BY DEF ServerSends
<1>2. stream \in Seq(Nat) /\ sent \in Seq(Message) /\ broken = FALSE /\ Len(sent) \in Nat
  BY <1>1 DEF IInv, TypeOK
<1>3. /\ sent' \in Seq(Message) /\ Len(sent') = Len(sent) + 1 /\ sent'[Len(sent) + 1] = m
      /\ \A k \in 1..Len(sent) : sent'[k] = sent[k]
  BY <1>1, <1>2
<1>4. StreamInv' /\ stream' \in Seq(Nat)
  <2>1. stream' \in Seq(Nat)
    <3>1. Encode(m) \in Seq(Nat)
      BY EncodeFacts
    <3> QED
      BY <1>1, <1>2, <3>1
  <2>2. Taken' = Taken
    BY <1>1 DEF Taken
  <2>3. CASE phase \in Ended
    BY <1>1, <2>1, <2>3 DEF StreamInv, Ended
  <2>4. CASE phase \notin Ended
    <3>1. InFrame(stream, FALSE, sent, Taken, l)
      BY <1>1, <1>2, <2>4 DEF IInv, StreamInv, Drained
    <3>2. InFrame(stream \o Encode(m), FALSE, Append(sent, m), Taken, l)
      BY <1>2, <3>1, FrameSend
    <3>3. InFrame(stream', broken', sent', Taken', l')
      BY <1>1, <1>2, <2>2, <3>2
    <3> QED
      BY <2>1, <3>3 DEF StreamInv
  <2> QED
    BY <2>3, <2>4
<1>5. TypeOK' /\ HistInv'
  BY <1>1, <1>3, <1>4 DEF IInv, TypeOK, HistInv
<1>6. GotInv'
  <2>1. /\ got = <<>> \/ Len(got) + 2 <= Len(sent)
        /\ \A k \in 1..Len(got) : got[k] = sent[k + 2]
        /\ phase \in Shaking => got = <<>>
    BY <1>1 DEF IInv, GotInv
  <2>2. Len(got) \in Nat /\ (got = <<>> => Len(got) = 0)
    BY DEF IInv, HistInv
  <2>3. \A k \in 1..Len(got) : k + 2 \in 1..Len(sent)
    BY <1>2, <2>1, <2>2
  <2>4. \A k \in 1..Len(got) : got[k] = sent'[k + 2]
    BY <1>3, <2>1, <2>3
  <2>5. got = <<>> \/ Len(got) + 2 <= Len(sent')
    BY <1>2, <1>3, <2>1, <2>2
  <2> QED
    BY <1>1, <2>1, <2>4, <2>5 DEF GotInv
<1>7. OutInv' /\ PhaseInv'
  <2>1. Len(sent') >= Len(sent) /\ (Len(sent) >= 2 => 2 \in 1..Len(sent))
    BY <1>2, <1>3
  <2>2. Wrote("login")' = Wrote("login")
    BY <1>1 DEF Wrote
  <2>3. (Wrote("login") => Len(sent) >= 1) /\ (Len(sent) >= 1 => Len(sent') >= 1)
    BY <1>2, <1>3 DEF IInv, OutInv
  <2>4. OutInv'
    BY <1>1, <2>2, <2>3 DEF IInv, OutInv
  <2>5. PhaseInv'
    BY <1>1, <1>2, <1>3, <2>1 DEF IInv, PhaseInv
  <2> QED
    BY <2>4, <2>5
<1> QED
  BY <1>3, <1>4, <1>5, <1>6, <1>7

LEMMA ServerHelloKeeps == IInv /\ ServerHello => IInv'
<1> SUFFICES ASSUME IInv, ServerHello PROVE IInv'
  OBVIOUS
<1> DEFINE m == Msg("server_hello", HelloBody)
<1>1. ServerSends(m) /\ Sent("server_hello") = {}
  BY DEF ServerHello
<1>2. m \in Message
  BY TypeNames DEF Msg, Message
<1>3. Len(sent) = 0
  <2>1. Len(sent) \in Nat /\ m.type = "server_hello"
    BY DEF IInv, TypeOK, Msg
  <2>2. ~ (Len(sent) >= 1)
    <3> SUFFICES ASSUME Len(sent) >= 1 PROVE FALSE
      OBVIOUS
    <3>1. sent[1] = m /\ 1 \in 1..Len(sent)
      BY <2>1 DEF IInv, SentInv
    <3> QED
      BY <1>1, <2>1, <3>1 DEF Sent
  <2> QED
    BY <2>1, <2>2
<1> HIDE DEF m
<1>4. /\ TypeOK' /\ HistInv' /\ StreamInv' /\ GotInv' /\ OutInv' /\ PhaseInv'
      /\ Len(sent') = Len(sent) + 1 /\ sent'[Len(sent) + 1] = m
  BY <1>1, <1>2, SendsKeeps
<1>5. Len(sent') = 1 /\ sent'[1] = m
  BY <1>3, <1>4
<1>6. SentInv'
  BY <1>5 DEF SentInv, m
<1> QED
  BY <1>4, <1>6 DEF IInv

LEMMA ServerResultKeeps ==
    ASSUME IInv, NEW r \in {Succeed, Refuse}, ServerResult(r)
    PROVE  IInv'
<1> DEFINE m == Msg("login_result", r)
<1>1. ServerSends(m) /\ Sent("login_result") = {} /\ Wrote("login")
  BY DEF ServerResult
<1>2. m \in Message /\ m \in {Msg("login_result", Succeed), Msg("login_result", Refuse)}
  BY TypeNames DEF Msg, Message
<1>3. Len(sent) = 1
  <2>1. Len(sent) \in Nat /\ Len(sent) >= 1
    BY <1>1 DEF IInv, TypeOK, OutInv
  <2>2. ~ (Len(sent) >= 2)
    <3> SUFFICES ASSUME Len(sent) >= 2 PROVE FALSE
      OBVIOUS
    <3>1. sent[2].type = "login_result" /\ 2 \in 1..Len(sent)
      BY <2>1 DEF IInv, SentInv, Msg
    <3> QED
      BY <1>1, <3>1 DEF Sent
  <2>3. \A c \in Nat : c >= 1 /\ ~ (c >= 2) => c = 1
    OBVIOUS
  <2> QED
    BY <2>1, <2>2, <2>3
<1> HIDE DEF m
<1>4. /\ TypeOK' /\ HistInv' /\ StreamInv' /\ GotInv' /\ OutInv' /\ PhaseInv'
      /\ Len(sent') = Len(sent) + 1 /\ sent'[Len(sent) + 1] = m
      /\ \A k \in 1..Len(sent) : sent'[k] = sent[k]
  BY <1>1, <1>2, SendsKeeps
<1>5. Len(sent') = 2 /\ sent'[2] = m /\ sent'[1] = Msg("server_hello", HelloBody)
  <2>1. sent[1] = Msg("server_hello", HelloBody)
    BY <1>3 DEF IInv, SentInv
  <2> QED
    BY <1>3, <1>4, <2>1
<1>6. SentInv'
  BY <1>2, <1>5 DEF SentInv
<1> QED
  BY <1>4, <1>6 DEF IInv

LEMMA ServerPacketKeeps ==
    ASSUME IInv, NEW bd \in Bodies, ServerPacket(bd)
    PROVE  IInv'
<1> DEFINE m == Msg("avPacket", bd)
<1>1. ServerSends(m) /\ \E k \in Sent("login_result") : sent[k].body = Succeed
  BY DEF ServerPacket
<1>2. m \in Message
  BY TypeNames DEF Msg, Message
<1>3. Len(sent) \in Nat
  BY DEF IInv, TypeOK
<1>4. Len(sent) >= 2 /\ sent[2].body = Succeed
  <2>1. PICK k \in 1..Len(sent) : sent[k].type = "login_result" /\ sent[k].body = Succeed
    BY <1>1 DEF Sent
  <2>2. CASE k = 1
    <3>1. sent[1].type = "server_hello"
      BY <1>3, <2>2 DEF IInv, SentInv, Msg
    <3> QED
      BY <2>1, <2>2, <3>1
  <2>3. CASE k = 2
    BY <1>3, <2>1, <2>3
  <2>4. CASE k \in 3..Len(sent)
    <3>1. PICK b \in Bodies : sent[k] = Msg("avPacket", b)
      BY <2>4 DEF IInv, SentInv
    <3>2. sent[k].type = "avPacket"
      BY <3>1 DEF Msg
    <3> QED
      BY <2>1, <3>2
  <2> QED
    BY <1>3, <2>2, <2>3, <2>4
<1> HIDE DEF m
<1>5. /\ TypeOK' /\ HistInv' /\ StreamInv' /\ GotInv' /\ OutInv' /\ PhaseInv'
      /\ Len(sent') = Len(sent) + 1 /\ sent'[Len(sent) + 1] = m
      /\ \A k \in 1..Len(sent) : sent'[k] = sent[k]
  BY <1>1, <1>2, SendsKeeps
<1>6. 1 \in 1..Len(sent) /\ 2 \in 1..Len(sent) /\ Len(sent) >= 1
  BY <1>3, <1>4
<1>7. /\ sent'[1] = Msg("server_hello", HelloBody) /\ sent'[2].body = Succeed
      /\ sent'[2] \in {Msg("login_result", Succeed), Msg("login_result", Refuse)}
  BY <1>4, <1>5, <1>6 DEF IInv, SentInv
<1>8. ASSUME NEW k \in 3..Len(sent') PROVE \E b \in Bodies : sent'[k] = Msg("avPacket", b)
  <2>1. CASE k = Len(sent) + 1
    BY <1>5, <2>1 DEF m
  <2>2. CASE k \in 3..Len(sent)
    <3>1. k \in 1..Len(sent)
      BY <1>3, <2>2
    <3> QED
      BY <1>5, <2>2, <3>1 DEF IInv, SentInv
  <2> QED
    BY <1>3, <1>5, <2>1, <2>2
<1>9. SentInv'
  BY <1>7, <1>8 DEF SentInv
<1> QED
  BY <1>5, <1>9 DEF IInv

LEMMA BreakKeeps == IInv /\ Break => IInv'
<1> SUFFICES ASSUME IInv, Break PROVE IInv'
  OBVIOUS
<1>1. PICK n \in 0..Len(stream) : stream' = SubSeq(stream, 1, n)
  BY DEF Break
<1>2. /\ ~ broken /\ broken' = TRUE /\ phase' = phase /\ l' = l /\ sent' = sent
      /\ out' = out /\ got' = got
  BY DEF Break
<1>3. stream \in Seq(Nat) /\ sent \in Seq(Message)
  BY DEF IInv, TypeOK
<1>4. stream' \in Seq(Nat)
  BY <1>1, <1>3
<1>5. StreamInv'
  <2>1. Taken' = Taken
    BY <1>2 DEF Taken
  <2>2. CASE phase \in Ended
    BY <1>2, <2>2 DEF StreamInv, Ended
  <2>3. CASE phase \notin Ended
    <3>1. InFrame(stream, broken, sent, Taken, l)
      BY <1>2, <2>3 DEF IInv, StreamInv, Drained
    <3>2. InFrame(SubSeq(stream, 1, n), TRUE, sent, Taken, l)
      BY <1>3, <3>1, FrameBreak
    <3>3. InFrame(stream', broken', sent', Taken', l')
      BY <1>1, <1>2, <2>1, <3>2
    <3> QED
      BY <3>3 DEF StreamInv
  <2> QED
    BY <2>2, <2>3
<1>6. TypeOK' /\ HistInv'
  BY <1>2, <1>4 DEF IInv, TypeOK, HistInv
<1>7. GotInv'
  BY <1>2 DEF IInv, GotInv
<1>8. SentInv' /\ OutInv' /\ PhaseInv'
  BY <1>2 DEF IInv, SentInv, OutInv, PhaseInv, Wrote
<1> QED
  BY <1>5, <1>6, <1>7, <1>8 DEF IInv

\* An exception ends the handshake and leaves the rest.
LEMMA ThrowKeeps ==
    ASSUME IInv, phase' = "thrown", UNCHANGED <<l, stream, out, broken, sent, got>>
    PROVE  IInv'
<1>1. TypeOK' /\ HistInv' /\ StreamInv'
  BY DEF IInv, TypeOK, HistInv, StreamInv, Ended
<1>2. GotInv' /\ PhaseInv'
  BY DEF IInv, GotInv, PhaseInv, Shaking
<1>3. SentInv' /\ OutInv'
  BY DEF IInv, SentInv, OutInv, Wrote
<1> QED
  BY <1>1, <1>2, <1>3 DEF IInv

\* What a message written here leaves as it is.
LEMMA WriteFacts ==
    ASSUME IInv, NEW t \in {"client_hello", "login", "avPacket"}, out' = Append(out, Msg(t, <<>>))
    PROVE  /\ out' \in Seq([type : {"client_hello", "login", "avPacket"}, body : {<<>>}])
           /\ Len(out) \in Nat /\ Len(out') = Len(out) + 1 /\ out'[Len(out) + 1].type = t
           /\ \A k \in 1..Len(out) : out'[k] = out[k]
           /\ Wrote("login")' => Wrote("login") \/ t = "login"
<1> DEFINE m == Msg(t, <<>>)
<1>1. m \in [type : {"client_hello", "login", "avPacket"}, body : {<<>>}] /\ m.type = t
  BY DEF Msg
<1>2. out \in Seq([type : {"client_hello", "login", "avPacket"}, body : {<<>>}])
  BY DEF IInv, HistInv
<1> HIDE DEF m
<1>3. /\ out' \in Seq([type : {"client_hello", "login", "avPacket"}, body : {<<>>}])
      /\ Len(out) \in Nat /\ Len(out') = Len(out) + 1 /\ out'[Len(out) + 1] = m
      /\ \A k \in 1..Len(out) : out'[k] = out[k]
  <2>1. out' = Append(out, m)
    BY DEF m
  <2> QED
    BY <1>1, <1>2, <2>1
<1>4. ASSUME Wrote("login")' PROVE Wrote("login") \/ t = "login"
  <2>1. PICK k \in 1..Len(out') : out'[k].type = "login"
    BY <1>4 DEF Wrote
  <2>2. CASE k = Len(out) + 1
    BY <1>1, <1>3, <2>1, <2>2
  <2>3. CASE k \in 1..Len(out)
    BY <1>3, <2>1, <2>3 DEF Wrote
  <2> QED
    BY <1>3, <2>2, <2>3
<1> QED
  BY <1>1, <1>3, <1>4

LEMMA SendHelloKeeps == IInv /\ SendHello => IInv'
<1> SUFFICES ASSUME IInv, SendHello PROVE IInv'
  OBVIOUS
<1>1. phase = "start" /\ broken' = broken /\ sent' = sent /\ got' = got
  BY DEF SendHello, HandshakeWrite
<1>2. CASE broken /\ Throw
  BY <1>1, <1>2, ThrowKeeps DEF Throw
<1>3. CASE /\ phase' = "hello" /\ out' = Append(out, Msg("client_hello", <<>>))
           /\ UNCHANGED <<l, stream>>
  <2>1. /\ out' \in Seq([type : {"client_hello", "login", "avPacket"}, body : {<<>>}])
        /\ Len(out') = Len(out) + 1 /\ out'[Len(out) + 1].type = "client_hello"
        /\ Wrote("login")' => Wrote("login")
    BY <1>3, WriteFacts
  <2>2. Len(out) = 0
    BY <1>1 DEF IInv, OutInv
  <2>3. TypeOK' /\ HistInv'
    BY <1>1, <1>3, <2>1 DEF IInv, TypeOK, HistInv
  <2>4. GotInv' /\ PhaseInv'
    BY <1>1, <1>3 DEF IInv, GotInv, PhaseInv, Shaking
  <2>5. OutInv'
    <3>1. Len(out') = 1 /\ out'[1].type = "client_hello"
      BY <2>1, <2>2
    <3> QED
      BY <1>1, <1>3, <2>1, <3>1 DEF IInv, OutInv
  <2>6. StreamInv'
    <3>1. Taken' = Taken
      BY <1>1, <1>3 DEF Taken
    <3>2. InFrame(stream, broken, sent, Taken, l)
      BY <1>1 DEF IInv, StreamInv, Drained, Ended
    <3> QED
      BY <1>1, <1>3, <3>1, <3>2 DEF StreamInv
  <2>7. SentInv'
    BY <1>1 DEF IInv, SentInv
  <2> QED
    BY <2>3, <2>4, <2>5, <2>6, <2>7 DEF IInv
<1> QED
  BY <1>2, <1>3 DEF SendHello, HandshakeWrite

LEMMA SendLoginKeeps == IInv /\ SendLogin => IInv'
<1> SUFFICES ASSUME IInv, SendLogin PROVE IInv'
  OBVIOUS
<1>1. phase = "login" /\ broken' = broken /\ sent' = sent /\ got' = got
  BY DEF SendLogin, HandshakeWrite
<1>2. CASE broken /\ Throw
  BY <1>1, <1>2, ThrowKeeps DEF Throw
<1>3. CASE /\ phase' = "result" /\ out' = Append(out, Msg("login", <<>>))
           /\ UNCHANGED <<l, stream>>
  <2>1. /\ out' \in Seq([type : {"client_hello", "login", "avPacket"}, body : {<<>>}])
        /\ Len(out') = Len(out) + 1 /\ out'[Len(out) + 1].type = "login"
        /\ \A k \in 1..Len(out) : out'[k] = out[k]
    BY <1>3, WriteFacts
  <2>2. Len(out) = 1 /\ out[1].type = "client_hello"
    BY <1>1 DEF IInv, OutInv
  <2>3. TypeOK' /\ HistInv'
    BY <1>1, <1>3, <2>1 DEF IInv, TypeOK, HistInv
  <2>4. GotInv' /\ PhaseInv'
    BY <1>1, <1>3 DEF IInv, GotInv, PhaseInv, Shaking
  <2>5. InFrame(stream, broken, sent, Taken, l) /\ Taken = 1
    BY <1>1 DEF IInv, StreamInv, Drained, Ended, Taken
  <2>6. StreamInv'
    <3>1. Taken' = Taken
      BY <1>1, <1>3 DEF Taken
    <3> QED
      BY <1>1, <1>3, <2>5, <3>1 DEF StreamInv
  <2>7. OutInv'
    <3>1. Len(out') = 2 /\ out'[1].type = "client_hello" /\ out'[2].type = "login"
      BY <2>1, <2>2
    <3>2. Len(sent) >= 1
      <4>1. Taken \in 0..Len(sent) /\ Len(sent) \in Nat
        BY <2>5 DEF InFrame, IInv, TypeOK
      <4> QED
        BY <2>5, <4>1
    <3> QED
      BY <1>1, <1>3, <3>1, <3>2 DEF OutInv
  <2>8. SentInv'
    BY <1>1 DEF IInv, SentInv
  <2> QED
    BY <2>3, <2>4, <2>6, <2>7, <2>8 DEF IInv
<1> QED
  BY <1>2, <1>3 DEF SendLogin, HandshakeWrite

LEMMA WritePacketKeeps == IInv /\ WritePacket => IInv'
<1> SUFFICES ASSUME IInv, WritePacket PROVE IInv'
  OBVIOUS
<1>1. /\ phase = "packet" /\ phase' = phase /\ l' = l /\ stream' = stream /\ broken' = broken
      /\ sent' = sent /\ got' = got
  BY DEF WritePacket
<1>2. TypeOK' /\ StreamInv' /\ GotInv' /\ SentInv' /\ PhaseInv'
  BY <1>1 DEF IInv, TypeOK, StreamInv, Drained, Taken, GotInv, SentInv, PhaseInv
<1>3. CASE out' = out
  BY <1>1, <1>2, <1>3 DEF IInv, HistInv, OutInv, Wrote
<1>4. CASE out' = Append(out, Msg("avPacket", <<>>))
  <2>1. /\ out' \in Seq([type : {"client_hello", "login", "avPacket"}, body : {<<>>}])
        /\ Len(out) \in Nat /\ Len(out') = Len(out) + 1
        /\ \A k \in 1..Len(out) : out'[k] = out[k]
        /\ Wrote("login")' => Wrote("login")
    BY <1>4, WriteFacts
  <2>2. Len(out) >= 2 /\ out[1].type = "client_hello" /\ out[2].type = "login"
    BY <1>1 DEF IInv, OutInv
  <2>3. Len(out') >= 2 /\ out'[1] = out[1] /\ out'[2] = out[2]
    BY <2>1, <2>2
  <2>4. HistInv'
    BY <1>1, <2>1 DEF IInv, HistInv
  <2>5. OutInv'
    BY <1>1, <2>1, <2>2, <2>3 DEF IInv, OutInv
  <2> QED
    BY <1>2, <2>4, <2>5 DEF IInv
<1> QED
  BY <1>3, <1>4 DEF WritePacket

\* The head of a message is read, in the handshake and behind it.
LEMMA HeadKeeps ==
    ASSUME IInv, phase \notin Ended, l = NoLen, stream # <<>>, l' = Head(stream),
           stream' = Tail(stream), UNCHANGED <<phase, broken, sent, out, got>>
    PROVE  IInv'
<1>1. stream \in Seq(Nat) /\ sent \in Seq(Message)
  BY DEF IInv, TypeOK
<1>2. InFrame(stream, broken, sent, Taken, NoLen)
  BY DEF IInv, StreamInv, Drained
<1>3. /\ Head(stream) \in Nat /\ Tail(stream) \in Seq(Nat)
      /\ InFrame(Tail(stream), broken, sent, Taken, Head(stream))
  BY <1>1, <1>2, FrameHead
<1>4. Taken' = Taken
  BY DEF Taken
<1>5. StreamInv'
  BY <1>3, <1>4 DEF StreamInv
<1>6. TypeOK' /\ HistInv'
  BY <1>3 DEF IInv, TypeOK, HistInv
<1>7. GotInv'
  BY DEF IInv, GotInv
<1>8. SentInv' /\ OutInv' /\ PhaseInv'
  BY DEF IInv, SentInv, OutInv, PhaseInv, Wrote
<1> QED
  BY <1>5, <1>6, <1>7, <1>8 DEF IInv

LEMMA HandshakeHeadKeeps == IInv /\ HandshakeHead => IInv'
<1> SUFFICES ASSUME IInv, HandshakeHead PROVE IInv'
  OBVIOUS
<1>1. phase \in {"hello", "result"} /\ l = NoLen /\ broken' = broken /\ sent' = sent /\ got' = got
  BY DEF HandshakeHead
<1>2. CASE stream = <<>> /\ broken /\ Throw
  BY <1>1, <1>2, ThrowKeeps DEF Throw
<1>3. CASE /\ stream # <<>> /\ l' = Head(stream) /\ stream' = Tail(stream)
           /\ UNCHANGED <<phase, out>>
  BY <1>1, <1>3, HeadKeeps DEF Ended
<1> QED
  BY <1>2, <1>3 DEF HandshakeHead

LEMMA ReadHeadKeeps == IInv /\ ReadHead => IInv'
<1> SUFFICES ASSUME IInv, ReadHead PROVE IInv'
  OBVIOUS
<1>1. phase = "packet" /\ l = NoLen /\ broken' = broken /\ sent' = sent /\ out' = out /\ got' = got
  BY DEF ReadHead
<1>2. CASE stream # <<>> /\ l' = Head(stream) /\ stream' = Tail(stream) /\ UNCHANGED phase
  BY <1>1, <1>2, HeadKeeps DEF Ended
<1>3. CASE stream = <<>> /\ broken /\ l' \in Garbage /\ UNCHANGED <<phase, stream>>
  <2>1. StreamInv'
    BY <1>1, <1>3 DEF StreamInv, Drained
  <2>2. TypeOK' /\ HistInv'
    BY <1>1, <1>3, LinkAssumption DEF IInv, TypeOK, HistInv
  <2>3. GotInv'
    BY <1>1, <1>3 DEF IInv, GotInv
  <2>4. SentInv' /\ OutInv' /\ PhaseInv'
    BY <1>1, <1>3 DEF IInv, SentInv, OutInv, PhaseInv, Wrote
  <2> QED
    BY <2>1, <2>2, <2>3, <2>4 DEF IInv
<1>4. CASE stream = <<>> /\ broken /\ phase' = "thrown" /\ UNCHANGED <<l, stream>>
  BY <1>1, <1>4, ThrowKeeps
<1> QED
  BY <1>2, <1>3, <1>4 DEF ReadHead

LEMMA HandshakeBodyKeeps == IInv /\ HandshakeBody => IInv'
<1> SUFFICES ASSUME IInv, HandshakeBody PROVE IInv'
  OBVIOUS
<1>1. phase \in {"hello", "result"} /\ l # NoLen /\ broken' = broken /\ sent' = sent /\ got' = got
  BY DEF HandshakeBody
<1>2. CASE Len(stream) < l /\ broken /\ Throw
  BY <1>1, <1>2, ThrowKeeps DEF Throw
<1>3. CASE /\ Len(stream) >= l
           /\ \E m \in Decode(Buffer(l)) : phase' = AfterHandshake(m)
           /\ stream' = Rest(l) /\ l' = NoLen /\ UNCHANGED out
  <2>1. stream \in Seq(Nat) /\ sent \in Seq(Message) /\ l \in Nat /\ Len(stream) \in Nat
    BY <1>1 DEF IInv, TypeOK
  <2>2. l <= Len(stream)
    BY <1>3, <2>1
  <2>3. InFrame(stream, broken, sent, Taken, l)
    BY <1>1 DEF IInv, StreamInv, Drained, Ended
  <2>4. /\ Decode(Buffer(l)) = {sent[Taken + 1]}
        /\ Rest(l) \in Seq(Nat) /\ InFrame(Rest(l), broken, sent, Taken + 1, NoLen)
    BY <2>1, <2>2, <2>3, ReadWhole
  <2>5. phase' = AfterHandshake(sent[Taken + 1])
    BY <1>3, <2>4
  <2>6. got = <<>> /\ Len(got) = 0
    BY <1>1 DEF IInv, GotInv, Shaking
  <2>7. Taken + 1 \in 0..Len(sent) /\ Len(sent) \in Nat
    BY <2>1, <2>4 DEF InFrame
  <2>8. \/ phase = "hello" /\ phase' = "login" /\ Taken = 0 /\ Taken' = 1
        \/ phase = "result" /\ phase' = "packet" /\ Taken = 1 /\ Taken' = 2
           /\ sent[2].body = Succeed /\ Len(sent) >= 2
        \/ phase = "result" /\ phase' = "refused"
    <3>1. CASE phase = "hello"
      BY <2>5, <3>1 DEF AfterHandshake, Taken
    <3>2. CASE phase = "result" /\ sent[Taken + 1].body = Succeed
      <4>1. phase' = "packet"
        BY <2>5, <3>2 DEF AfterHandshake
      <4>2. Taken = 1 /\ Taken' = 2
        BY <1>1, <2>6, <3>2, <4>1 DEF Taken
      <4> QED
        BY <2>7, <3>2, <4>1, <4>2
    <3>3. CASE phase = "result" /\ sent[Taken + 1].body # Succeed
      BY <2>5, <3>3 DEF AfterHandshake
    <3> QED
      BY <1>1, <3>1, <3>2, <3>3
  <2>9. StreamInv'
    <3>1. CASE phase' \in Ended
      BY <3>1 DEF StreamInv, Ended
    <3>2. CASE phase' \notin Ended
      <4>1. Taken' = Taken + 1
        BY <2>8, <3>2 DEF Ended
      <4> QED
        BY <1>1, <1>3, <2>4, <4>1 DEF StreamInv
    <3> QED
      BY <3>1, <3>2
  <2>10. TypeOK'
    <3>1. phase' \in {"start", "hello", "login", "result", "packet"} \cup Ended
      BY <2>8 DEF Ended
    <3> QED
      BY <1>1, <1>3, <2>4, <3>1 DEF IInv, TypeOK
  <2>11. HistInv' /\ SentInv'
    BY <1>1, <1>3 DEF IInv, HistInv, SentInv
  <2>12. GotInv'
    BY <1>1, <2>6 DEF GotInv
  <2>13. PhaseInv'
    BY <1>1, <2>8 DEF PhaseInv
  <2>14. OutInv'
    BY <1>1, <1>3, <2>8 DEF IInv, OutInv, Wrote
  <2> QED
    BY <2>9, <2>10, <2>11, <2>12, <2>13, <2>14 DEF IInv
<1> QED
  BY <1>2, <1>3 DEF HandshakeBody

\* What a read of a packet does: it ends the reader, or it returns the next
\* packet or a damaged one in its place, and what was returned is not damaged.
Returned(m) ==
    /\ phase' = phase /\ got' = Append(got, m)
    /\ Len(got) + 3 \in 3..Len(sent) /\ sent[Len(got) + 3] \in Message
    /\ \A k \in 1..Len(got) : got[k] = sent[k + 2]

LEMMA ReadBodyCases ==
    ASSUME IInv, ReadBody
    PROVE  /\ stream' \in Seq(Nat)
           /\ \/ phase' = "quit" /\ got' = got
              \/ /\ Returned(sent[Len(got) + 3])
                 /\ InFrame(stream', broken, sent, Len(got) + 3, NoLen)
              \/ Returned(Damaged) /\ broken /\ stream' = <<>>
<1>1. /\ phase = "packet" /\ l # NoLen /\ (Len(stream) >= l \/ broken)
      /\ stream' = Rest(l) /\ l' = NoLen
  BY DEF ReadBody
<1>2. PICK m \in Decode(Buffer(l)) :
         IF m.type = "avPacket" THEN got' = Append(got, m) /\ UNCHANGED phase
                                ELSE phase' = "quit" /\ UNCHANGED got
  BY DEF ReadBody
<1>3. /\ stream \in Seq(Nat) /\ sent \in Seq(Message) /\ l \in Nat /\ Len(stream) \in Nat
      /\ Len(sent) \in Nat /\ Len(got) \in Nat
  BY <1>1 DEF IInv, TypeOK, HistInv
<1>4. Null.type # "avPacket"
  BY DEF Null, Msg
<1>5. CASE stream = <<>>
  <2>1. Decode(Buffer(l)) = {Null} /\ Rest(l) = <<>>
    BY <1>3, <1>5, ReadCut
  <2> QED
    BY <1>1, <1>2, <1>4, <2>1
<1>6. CASE stream # <<>>
  <2>1. InFrame(stream, broken, sent, 2 + Len(got), l)
    BY <1>1, <1>6 DEF IInv, StreamInv, Drained, Ended, Taken
  <2>2. \A k \in 1..Len(got) : got[k] = sent[k + 2]
    BY <1>1, <1>6 DEF IInv, GotInv
  <2>3. (2 + Len(got)) + 1 = Len(got) + 3
    BY <1>3
  <2>4. Len(got) + 3 \in 3..Len(sent)
    <3>1. 2 + Len(got) < Len(sent)
      BY <1>1, <2>1 DEF InFrame
    <3> QED
      BY <1>3, <3>1
  <2>5. sent[Len(got) + 3] \in Message
    <3>1. Len(got) + 3 \in 1..Len(sent)
      BY <1>3, <2>4
    <3> QED
      BY <1>3, <3>1
  <2>6. CASE l <= Len(stream)
    <3> DEFINE n == 2 + Len(got)
    <3>1. n + 1 = Len(got) + 3 /\ InFrame(stream, broken, sent, n, l)
      BY <2>1, <2>3
    <3> HIDE DEF n
    <3>2. /\ Decode(Buffer(l)) = {sent[n + 1]}
          /\ Rest(l) \in Seq(Nat) /\ InFrame(Rest(l), broken, sent, n + 1, NoLen)
      BY <1>3, <2>6, <3>1, ReadWhole
    <3>3. m = sent[Len(got) + 3]
      BY <3>1, <3>2
    <3>4. m.type = "avPacket"
      <4>1. PICK b \in Bodies : m = Msg("avPacket", b)
        BY <2>4, <3>3 DEF IInv, SentInv
      <4> QED
        BY <4>1 DEF Msg
    <3>5. Returned(sent[Len(got) + 3])
      BY <1>2, <2>2, <2>4, <2>5, <3>3, <3>4 DEF Returned
    <3> QED
      BY <1>1, <3>1, <3>2, <3>5
  <2>7. CASE ~ (l <= Len(stream))
    <3>1. Len(stream) < l /\ broken
      BY <1>1, <1>3, <2>7
    <3>2. Decode(Buffer(l)) \subseteq {Null, Damaged} /\ Rest(l) = <<>>
      BY <1>3, <3>1, ReadCut
    <3>3. CASE m = Null
      BY <1>1, <1>2, <1>4, <3>2, <3>3
    <3>4. CASE m = Damaged
      <4>1. m.type = "avPacket"
        BY <3>4 DEF Damaged, Msg
      <4>2. Returned(Damaged)
        BY <1>2, <2>2, <2>4, <2>5, <3>4, <4>1 DEF Returned
      <4> QED
        BY <1>1, <3>1, <3>2, <4>2
    <3> QED
      BY <3>2, <3>3, <3>4
  <2> QED
    BY <2>6, <2>7
<1> QED
  BY <1>5, <1>6

LEMMA ReturnedFacts ==
    ASSUME IInv, NEW m \in Message \cup {Damaged}, Returned(m)
    PROVE  /\ got' \in Seq(Message \cup {Damaged}) /\ Len(got) \in Nat
           /\ Len(got') = Len(got) + 1 /\ got'[Len(got) + 1] = m /\ got' # <<>>
           /\ \A k \in 1..Len(got) : got'[k] = got[k] /\ got'[k] = sent[k + 2]
<1>1. got \in Seq(Message \cup {Damaged}) /\ got' = Append(got, m)
  BY DEF IInv, HistInv, Returned
<1>2. /\ got' \in Seq(Message \cup {Damaged}) /\ Len(got) \in Nat
      /\ Len(got') = Len(got) + 1 /\ got'[Len(got) + 1] = m /\ got' # <<>>
      /\ \A k \in 1..Len(got) : got'[k] = got[k]
  BY <1>1
<1> QED
  BY <1>2 DEF Returned

LEMMA ReadBodyKeeps == IInv /\ ReadBody => IInv'
<1> SUFFICES ASSUME IInv, ReadBody PROVE IInv'
  OBVIOUS
<1>1. phase = "packet" /\ l' = NoLen /\ broken' = broken /\ sent' = sent /\ out' = out
  BY DEF ReadBody
<1>2. stream' \in Seq(Nat) /\ Len(sent) \in Nat
  BY ReadBodyCases DEF IInv, TypeOK
<1>3. SentInv'
  BY <1>1 DEF IInv, SentInv
<1>4. Wrote("login")' = Wrote("login")
  BY <1>1 DEF Wrote
<1>5. CASE phase' = "quit" /\ got' = got
  <2>1. TypeOK' /\ HistInv' /\ StreamInv'
    BY <1>1, <1>2, <1>5 DEF IInv, TypeOK, HistInv, StreamInv, Ended
  <2>2. GotInv'
    BY <1>1, <1>5 DEF IInv, GotInv, Shaking
  <2>3. OutInv' /\ PhaseInv'
    BY <1>1, <1>4, <1>5 DEF IInv, OutInv, PhaseInv
  <2> QED
    BY <1>3, <2>1, <2>2, <2>3 DEF IInv
<1>6. ASSUME NEW m \in Message \cup {Damaged}, Returned(m),
             \/ m = sent[Len(got) + 3] /\ InFrame(stream', broken, sent, Len(got) + 3, NoLen)
             \/ m = Damaged /\ broken /\ stream' = <<>>
      PROVE  IInv'
  <2>1. /\ got' \in Seq(Message \cup {Damaged}) /\ Len(got) \in Nat
        /\ Len(got') = Len(got) + 1 /\ got'[Len(got) + 1] = m /\ got' # <<>>
        /\ \A k \in 1..Len(got) : got'[k] = sent[k + 2]
    BY <1>6, ReturnedFacts
  <2>2. phase' = "packet" /\ Len(got) + 3 \in 3..Len(sent)
    BY <1>1, <1>6 DEF Returned
  <2>3. TypeOK' /\ HistInv'
    <3>1. \A k \in 1..Len(got') : got'[k] \in Message \cup {Damaged}
      BY <2>1
    <3> QED
      BY <1>1, <1>2, <2>1, <2>2, <3>1 DEF IInv, TypeOK, HistInv
  <2>4. StreamInv'
    <3>1. Taken' = 2 + (Len(got) + 1)
      BY <2>1, <2>2 DEF Taken
    <3>2. Taken' = Len(got) + 3
      BY <2>1, <3>1
    <3> QED
      BY <1>1, <1>6, <2>2, <3>2 DEF StreamInv, Drained
  <2>5. GotInv'
    <3>1. Len(got') + 2 <= Len(sent)
      BY <1>2, <2>1, <2>2
    <3>2. ASSUME NEW k \in 1..Len(got')
          PROVE  \/ got'[k] = sent[k + 2]
                 \/ got'[k] = Damaged /\ k = Len(got') /\ broken /\ stream' = <<>>
      <4>1. CASE k \in 1..Len(got)
        BY <2>1, <4>1
      <4>2. CASE k = Len(got) + 1
        <5>1. k + 2 = Len(got) + 3
          BY <2>1, <4>2
        <5> QED
          BY <1>6, <2>1, <4>2, <5>1
      <4> QED
        BY <2>1, <4>1, <4>2
    <3> QED
      BY <1>1, <2>2, <3>1, <3>2 DEF GotInv, Shaking
  <2>6. OutInv' /\ PhaseInv'
    BY <1>1, <1>4, <2>2 DEF IInv, OutInv, PhaseInv
  <2> QED
    BY <1>3, <2>3, <2>4, <2>5, <2>6 DEF IInv
<1>7. CASE /\ Returned(sent[Len(got) + 3])
           /\ InFrame(stream', broken, sent, Len(got) + 3, NoLen)
  <2>1. sent[Len(got) + 3] \in Message \cup {Damaged}
    BY <1>7 DEF Returned
  <2> QED
    BY <1>6, <1>7, <2>1
<1>8. CASE Returned(Damaged) /\ broken /\ stream' = <<>>
  BY <1>6, <1>8
<1> QED
  BY <1>5, <1>7, <1>8, ReadBodyCases

LEMMA NextIInv == IInv /\ [Next]_vars => IInv'
<1> SUFFICES ASSUME IInv, [Next]_vars PROVE IInv'
  OBVIOUS
<1>1. CASE UNCHANGED vars
  <2>1. TypeOK' /\ HistInv' /\ StreamInv'
    BY <1>1 DEF vars, IInv, TypeOK, HistInv, StreamInv, Drained, Taken
  <2>2. GotInv' /\ SentInv' /\ OutInv' /\ PhaseInv'
    BY <1>1 DEF vars, IInv, GotInv, SentInv, OutInv, PhaseInv, Wrote
  <2> QED
    BY <2>1, <2>2 DEF IInv
<1>2. CASE Router
  BY <1>2, ServerHelloKeeps, ServerResultKeeps, ServerPacketKeeps, BreakKeeps DEF Router
<1>3. CASE SendHello \/ SendLogin \/ WritePacket
  BY <1>3, SendHelloKeeps, SendLoginKeeps, WritePacketKeeps
<1>4. CASE Reader
  BY <1>4, HandshakeHeadKeeps, HandshakeBodyKeeps, ReadHeadKeeps, ReadBodyKeeps DEF Reader
<1> QED
  BY <1>1, <1>2, <1>3, <1>4 DEF Next

-----------------------------------------------------------------------------
(***************************************************************************)
(* The theorems.                                                           *)
(***************************************************************************)

\* The invariant holds of every behaviour of async_handshake and
\* async_read_packet.
THEOREM Invariance == Spec => []IInv
BY InitIInv, NextIInv, PTL DEF Spec

\* The variables stay within their types: a frame is never taken for anything
\* but a message that was sent, or for a damaged packet.
THEOREM TypeCorrect == Spec => []TypeOK
<1>1. IInv => TypeOK
  BY DEF IInv
<1> QED
  BY <1>1, Invariance, PTL

\* async_handshake returns true only behind the router's success.
THEOREM HandshakeIsSound == Spec => []HandshakeSound
<1>1. IInv => HandshakeSound
  <2> SUFFICES ASSUME IInv, phase = "packet" PROVE HandshakeSound
    BY DEF HandshakeSound
  <2>1. Len(sent) \in Nat /\ Len(sent) >= 2 /\ sent[2].body = Succeed
    BY DEF IInv, TypeOK, PhaseInv
  <2>2. sent[2] = Msg("login_result", Succeed)
    <3>1. CASE sent[2] = Msg("login_result", Succeed)
      BY <3>1
    <3>2. CASE sent[2] = Msg("login_result", Refuse)
      BY <2>1, <3>2 DEF Msg
    <3> QED
      BY <2>1, <3>1, <3>2 DEF IInv, SentInv
  <2>3. 2 \in 1..Len(sent)
    BY <2>1
  <2> QED
    BY <2>2, <2>3 DEF IInv, OutInv, HandshakeSound
<1> QED
  BY <1>1, Invariance, PTL

\* The error of async_read_packet that is not looked at damages one packet at
\* most, the last one, once the connection is broken.
THEOREM DamagesOnce == Spec => []DamagedOnce
<1>1. IInv => DamagedOnce
  <2> SUFFICES ASSUME IInv, NEW k \in 1..Len(got), got[k] = Damaged
               PROVE  broken /\ k = Len(got) /\ k <= Len(Packets)
    BY DEF DamagedOnce
  <2>1. sent \in Seq(Message) /\ Len(sent) \in Nat /\ Len(got) \in Nat
    BY DEF IInv, TypeOK, HistInv
  <2>2. got # <<>>
    OBVIOUS
  <2>3. Len(got) + 2 <= Len(sent)
    BY <2>2 DEF IInv, GotInv
  <2>4. k + 2 \in 1..Len(sent)
    BY <2>1, <2>3
  <2>5. sent[k + 2] \in Message
    BY <2>1, <2>4
  <2>6. got[k] # sent[k + 2]
    BY <2>5, DamagedIsNone
  <2>7. k = Len(got) /\ broken
    BY <2>6 DEF IInv, GotInv
  <2>8. Len(Packets) = Len(sent) - 2
    BY <2>1, <2>3 DEF Packets
  <2>9. Len(got) <= Len(Packets)
    BY <2>1, <2>3, <2>8
  <2> QED
    BY <2>7, <2>9
<1> QED
  BY <1>1, Invariance, PTL

-----------------------------------------------------------------------------
(***************************************************************************)
(* The refinement: the router puts packets in, reads take them out.        *)
(***************************************************************************)
LEMMA PacketsFacts ==
    ASSUME sent \in Seq(Message)
    PROVE  /\ Len(sent) <= 2 => Packets = <<>>
           /\ Len(sent) >= 2 => /\ Packets \in Seq(Message) /\ Len(Packets) = Len(sent) - 2
                                /\ \A k \in 1..(Len(sent) - 2) : Packets[k] = sent[2 + k]
<1>1. Len(sent) \in Nat
  OBVIOUS
<1>2. ASSUME Len(sent) <= 2 PROVE Packets = <<>>
  BY <1>1, <1>2, SubSeqEmpty DEF Packets
<1>3. ASSUME Len(sent) >= 2
      PROVE  /\ Packets \in Seq(Message) /\ Len(Packets) = Len(sent) - 2
             /\ \A k \in 1..(Len(sent) - 2) : Packets[k] = sent[2 + k]
  <2> DEFINE i == 2
             n == Len(sent) - 2
  <2>1. i \in Nat /\ n \in Nat /\ i + n <= Len(sent) /\ i + 1 = 3 /\ i + n = Len(sent)
    BY <1>1, <1>3
  <2> HIDE DEF i, n
  <2>2. /\ Sub(sent, i, n) \in Seq(Message) /\ Len(Sub(sent, i, n)) = n
        /\ \A k \in 1..n : Sub(sent, i, n)[k] = sent[i + k]
    BY <2>1, SubFacts
  <2>3. Sub(sent, i, n) = Packets
    BY <2>1 DEF Sub, Packets
  <2> QED
    BY <2>2, <2>3 DEF i, n
<1> QED
  BY <1>2, <1>3

\* What was returned in order is not damaged.
LEMMA WholeIsGot ==
    ASSUME IInv, \A k \in 1..Len(got) : got[k] = sent[k + 2]
    PROVE  Whole = got
<1>1. sent \in Seq(Message) /\ Len(sent) \in Nat /\ Len(got) \in Nat
      /\ got \in Seq(Message \cup {Damaged})
  BY DEF IInv, TypeOK, HistInv
<1>2. ASSUME got # <<>> PROVE got[Len(got)] # Damaged
  <2>1. Len(got) # 0
    BY <1>1, <1>2
  <2>2. Len(got) + 2 <= Len(sent)
    BY <1>2 DEF IInv, GotInv
  <2>3. Len(got) \in 1..Len(got) /\ Len(got) + 2 \in 1..Len(sent)
    BY <1>1, <2>1, <2>2
  <2>4. got[Len(got)] = sent[Len(got) + 2] /\ sent[Len(got) + 2] \in Message
    BY <1>1, <2>3
  <2> QED
    BY <2>4, DamagedIsNone
<1> QED
  BY <1>2 DEF Whole

\* A packet the router sends is put in; its other messages are not seen.
LEMMA SendsPut ==
    ASSUME IInv, IInv', NEW m \in Message, ServerSends(m)
    PROVE  [PacketStream!Next]_(PacketStream!fifoVars)
<1>1. /\ Len(sent') = Len(sent) + 1 /\ sent'[Len(sent) + 1] = m
      /\ \A k \in 1..Len(sent) : sent'[k] = sent[k]
  BY SendsKeeps
<1>2. Whole' = Whole
  BY DEF ServerSends, Whole
<1>3. sent \in Seq(Message) /\ sent' \in Seq(Message) /\ Len(sent) \in Nat /\ Len(sent') \in Nat
  BY DEF IInv, TypeOK
<1>4. CASE Len(sent) < 2
  <2>1. Packets = <<>>
    BY <1>3, <1>4, PacketsFacts
  <2>2. Len(sent') <= 2
    BY <1>1, <1>3, <1>4
  <2>3. Packets' = <<>>
    BY <1>3, <2>2, SubSeqEmpty DEF Packets
  <2> QED
    BY <1>2, <2>1, <2>3 DEF PacketStream!fifoVars
<1>5. CASE Len(sent) >= 2
  <2>1. PICK b \in Bodies : m = Msg("avPacket", b)
    <3>1. Len(sent) + 1 \in 3..Len(sent')
      BY <1>1, <1>3, <1>5
    <3> QED
      BY <1>1, <3>1 DEF IInv, SentInv
  <2>2. Packets' = Append(Packets, m)
    <3>1. sent' = Append(sent, m)
      BY DEF ServerSends
    <3> DEFINE n == Len(sent)
    <3>2. SubSeq(sent', 3, n + 1) = Append(SubSeq(sent, 3, n), m)
      <4> DEFINE a == SubSeq(sent, 3, n)
                 c == SubSeq(sent', 3, n + 1)
      <4>1. /\ a \in Seq(Message) /\ Len(a) = n - 2
            /\ \A k \in 1..(n - 2) : a[k] = sent[2 + k]
        BY <1>3, <1>5, PacketsFacts DEF Packets
      <4>2. /\ c \in Seq(Message) /\ Len(c) = n - 1
            /\ \A k \in 1..(n - 1) : c[k] = sent'[2 + k]
        <5> DEFINE i == 2
                   j == n - 1
        <5>1. i \in Nat /\ j \in Nat /\ i + j <= Len(sent') /\ i + 1 = 3 /\ i + j = n + 1
          BY <1>1, <1>3, <1>5
        <5> HIDE DEF i, j
        <5>2. /\ Sub(sent', i, j) \in Seq(Message) /\ Len(Sub(sent', i, j)) = j
              /\ \A k \in 1..j : Sub(sent', i, j)[k] = sent'[i + k]
          BY <1>3, <5>1, SubFacts
        <5>3. Sub(sent', i, j) = c
          BY <5>1 DEF Sub
        <5> QED
          BY <5>2, <5>3 DEF i, j
      <4> HIDE DEF a, c
      <4>3. /\ Append(a, m) \in Seq(Message) /\ Len(Append(a, m)) = n - 1
            /\ Append(a, m)[n - 1] = m /\ \A k \in 1..(n - 2) : Append(a, m)[k] = a[k]
        <5>1. (n - 2) + 1 = n - 1 /\ n \in Nat
          BY <1>3
        <5>2. /\ Append(a, m) \in Seq(Message) /\ Len(Append(a, m)) = Len(a) + 1
              /\ Append(a, m)[Len(a) + 1] = m /\ \A k \in 1..Len(a) : Append(a, m)[k] = a[k]
          BY <4>1
        <5> QED
          BY <4>1, <5>1, <5>2
      <4>4. ASSUME NEW k \in 1..(n - 1) PROVE c[k] = Append(a, m)[k]
        <5>1. CASE k = n - 1
          <6>1. 2 + k = n + 1
            BY <1>3, <5>1
          <6> QED
            BY <1>1, <4>2, <4>3, <5>1, <6>1
        <5>2. CASE k \in 1..(n - 2)
          <6>1. 2 + k \in 1..n
            BY <1>3, <5>2
          <6> QED
            BY <1>1, <4>1, <4>2, <4>3, <5>2, <6>1
        <5>3. k = n - 1 \/ k \in 1..(n - 2)
          BY <1>3
        <5> QED
          BY <5>1, <5>2, <5>3
      <4>5. c = Append(a, m)
        <5>1. Len(c) = Len(Append(a, m)) /\ \A k \in 1..Len(c) : c[k] = Append(a, m)[k]
          BY <4>2, <4>3, <4>4
        <5> DEFINE d == Append(a, m)
        <5>2. d \in Seq(Message) /\ c \in Seq(Message) /\ Len(c) = Len(d)
              /\ \A k \in 1..Len(c) : c[k] = d[k]
          BY <4>2, <4>3, <5>1
        <5> HIDE DEF d
        <5>3. c = d
          BY <5>2, SameSeq
        <5> QED
          BY <5>3 DEF d
      <4> QED
        BY <4>5 DEF a, c
    <3> QED
      BY <1>1, <3>2 DEF Packets
  <2>3. PacketStream!Put
    BY <1>2, <2>1, <2>2 DEF PacketStream!Put
  <2> QED
    BY <2>3 DEF PacketStream!Next
<1> QED
  BY <1>3, <1>4, <1>5

\* A packet that is returned is taken out; a damaged one is not seen.
LEMMA ReadGets ==
    ASSUME IInv, IInv', ReadBody
    PROVE  [PacketStream!Next]_(PacketStream!fifoVars)
<1>1. sent' = sent /\ Packets' = Packets
  BY DEF ReadBody, Packets
<1>2. sent \in Seq(Message) /\ Len(sent) \in Nat /\ Len(got) \in Nat
      /\ got \in Seq(Message \cup {Damaged})
  BY DEF IInv, TypeOK, HistInv
<1>3. CASE phase' = "quit" /\ got' = got
  BY <1>1, <1>3 DEF PacketStream!fifoVars, Whole
<1>4. CASE Returned(sent[Len(got) + 3])
  <2> DEFINE m == sent[Len(got) + 3]
  <2>1. m \in Message /\ Len(got) + 3 \in 3..Len(sent) /\ got' = Append(got, m)
        /\ \A k \in 1..Len(got) : got[k] = sent[k + 2]
    BY <1>4 DEF Returned
  <2>2. /\ Len(got') = Len(got) + 1 /\ got'[Len(got) + 1] = m /\ got' # <<>>
    BY <1>4, <2>1, ReturnedFacts
  <2>3. Whole = got
    BY <2>1, WholeIsGot
  <2>4. Whole' = got'
    <3>1. got'[Len(got')] # Damaged
      BY <2>1, <2>2, DamagedIsNone
    <3> QED
      BY <3>1 DEF Whole
  <2>5. Len(Packets) = Len(sent) - 2 /\ \A k \in 1..(Len(sent) - 2) : Packets[k] = sent[2 + k]
    <3>1. Len(sent) >= 2
      BY <1>2, <2>1
    <3> QED
      BY <1>2, <3>1, PacketsFacts
  <2>6. Len(got) < Len(Packets) /\ Packets[Len(got) + 1] = m
    <3>1. Len(got) + 1 \in 1..(Len(sent) - 2) /\ 2 + (Len(got) + 1) = Len(got) + 3
      BY <1>2, <2>1
    <3>2. Packets[Len(got) + 1] = sent[2 + (Len(got) + 1)]
      BY <2>5, <3>1
    <3>3. Len(got) < Len(sent) - 2
      BY <1>2, <2>1
    <3> QED
      BY <2>5, <3>1, <3>2, <3>3
  <2>7. PacketStream!Get
    BY <1>1, <2>1, <2>3, <2>4, <2>6 DEF PacketStream!Get
  <2> QED
    BY <2>7 DEF PacketStream!Next
<1>5. CASE Returned(Damaged)
  <2>1. got' = Append(got, Damaged) /\ \A k \in 1..Len(got) : got[k] = sent[k + 2]
    BY <1>5 DEF Returned
  <2>2. /\ got' \in Seq(Message \cup {Damaged})
        /\ Len(got') = Len(got) + 1 /\ got'[Len(got) + 1] = Damaged /\ got' # <<>>
        /\ \A k \in 1..Len(got) : got'[k] = got[k]
    BY <1>5, ReturnedFacts
  <2>3. Whole = got
    BY <2>1, WholeIsGot
  <2>4. Whole' = got
    <3> DEFINE a == SubSeq(got', 1, Len(got') - 1)
    <3>1. Whole' = a
      BY <2>2 DEF Whole
    <3>2. Len(got') - 1 = Len(got)
      BY <1>2, <2>2
    <3>3. /\ a \in Seq(Message \cup {Damaged}) /\ Len(a) = Len(got)
          /\ \A k \in 1..Len(got) : a[k] = got'[k]
      <4>1. /\ Sub(got', 0, Len(got)) \in Seq(Message \cup {Damaged})
            /\ Len(Sub(got', 0, Len(got))) = Len(got)
            /\ \A k \in 1..Len(got) : Sub(got', 0, Len(got))[k] = got'[0 + k]
        <5> DEFINE i == 0
        <5>1. i \in Nat /\ i + Len(got) <= Len(got')
          BY <1>2, <2>2
        <5> HIDE DEF i
        <5>2. /\ Sub(got', i, Len(got)) \in Seq(Message \cup {Damaged})
              /\ Len(Sub(got', i, Len(got))) = Len(got)
              /\ \A k \in 1..Len(got) : Sub(got', i, Len(got))[k] = got'[i + k]
          <6> DEFINE j == Len(got)
                     t == got'
          <6>1. t \in Seq(Message \cup {Damaged}) /\ j \in Nat /\ i + j <= Len(t) /\ i \in Nat
            BY <1>2, <2>2, <5>1
          <6> HIDE DEF j, t
          <6>2. /\ Sub(t, i, j) \in Seq(Message \cup {Damaged}) /\ Len(Sub(t, i, j)) = j
                /\ \A k \in 1..j : Sub(t, i, j)[k] = t[i + k]
            BY <6>1, SubFacts
          <6> QED
            BY <6>2 DEF j, t
        <5> QED
          BY <5>2 DEF i
      <4>2. Sub(got', 0, Len(got)) = a
        <5>1. 0 + Len(got) = Len(got) /\ 0 + 1 = 1
          BY <1>2
        <5> QED
          BY <3>2, <5>1 DEF Sub
      <4>3. \A k \in 1..Len(got) : 0 + k = k
        OBVIOUS
      <4> QED
        BY <4>1, <4>2, <4>3
    <3> HIDE DEF a
    <3>4. a = got
      <4>1. \A k \in 1..Len(a) : a[k] = got[k]
        BY <2>2, <3>3
      <4> QED
        BY <1>2, <3>3, <4>1, SameSeq
    <3> QED
      BY <3>1, <3>4
  <2> QED
    BY <1>1, <2>3, <2>4 DEF PacketStream!fifoVars
<1> QED
  BY <1>3, <1>4, <1>5, ReadBodyCases

\* The packets async_read_packet returns, but for a damaged one at the end, are
\* those the router sent, each once and in order.
THEOREM LinkImplementsFifo == Spec => ImplementsFifo
<1>1. Init => PacketStream!Init
  <2> SUFFICES ASSUME Init PROVE Packets = <<>> /\ Whole = <<>>
    BY DEF PacketStream!Init
  <2>1. sent = <<>> /\ got = <<>> /\ sent \in Seq(Message) /\ Len(sent) <= 2
    BY DEF Init
  <2> QED
    BY <2>1, PacketsFacts DEF Whole
<1>2. IInv /\ IInv' /\ [Next]_vars => [PacketStream!Next]_(PacketStream!fifoVars)
  <2> SUFFICES ASSUME IInv, IInv', [Next]_vars
               PROVE  [PacketStream!Next]_(PacketStream!fifoVars)
    OBVIOUS
  <2>1. CASE sent' = sent /\ got' = got
    BY <2>1 DEF PacketStream!fifoVars, Packets, Whole
  <2>2. CASE ServerHello
    <3>1. Msg("server_hello", HelloBody) \in Message
      BY TypeNames DEF Msg, Message
    <3> QED
      BY <2>2, <3>1, SendsPut DEF ServerHello
  <2>3. ASSUME NEW r \in {Succeed, Refuse}, ServerResult(r)
        PROVE  [PacketStream!Next]_(PacketStream!fifoVars)
    <3>1. Msg("login_result", r) \in Message
      BY TypeNames DEF Msg, Message
    <3> QED
      BY <2>3, <3>1, SendsPut DEF ServerResult
  <2>4. ASSUME NEW b \in Bodies, ServerPacket(b)
        PROVE  [PacketStream!Next]_(PacketStream!fifoVars)
    <3>1. Msg("avPacket", b) \in Message
      BY TypeNames DEF Msg, Message
    <3> QED
      BY <2>4, <3>1, SendsPut DEF ServerPacket
  <2>5. CASE Break \/ SendHello \/ SendLogin \/ HandshakeHead \/ HandshakeBody \/ ReadHead
             \/ WritePacket \/ UNCHANGED vars
    <3>1. sent' = sent /\ got' = got
      BY <2>5 DEF Break, SendHello, SendLogin, HandshakeWrite, HandshakeHead, HandshakeBody,
                  ReadHead, WritePacket, vars
    <3> QED
      BY <2>1, <3>1
  <2>6. CASE ReadBody
    BY <2>6, ReadGets
  <2> QED
    BY <2>2, <2>3, <2>4, <2>5, <2>6 DEF Next, Router, Reader
<1> QED
  BY <1>1, <1>2, Invariance, PTL DEF Spec, ImplementsFifo, PacketStream!Spec
=============================================================================
