------------------------------ MODULE JackLink ------------------------------
(***************************************************************************)
(* One avjackif: its handshake with the router and the packets it reads    *)
(* afterwards, over a TCP stream that may break between any two bytes.     *)
(* encode and decode are those of serialization.cpp.                       *)
(*                                                                         *)
(* A cell of the stream stands for the four bytes of a length, or for a    *)
(* piece of a type's name or of a message's body; lengths count cells, and *)
(* header_len is one.  A cell 0 is what std::string::resize fills in.  The *)
(* router is external and follows the protocol: it says hello when it was  *)
(* greeted, answers the login, and sends packets once that succeeded.      *)
(*                                                                         *)
(* An error in async_handshake throws, for its yield_context has no        *)
(* error_code; in async_read_packet the error goes into the caller's       *)
(* error_code, and the function carries on with what it has.               *)
(***************************************************************************)
EXTENDS Naturals, Sequences, FiniteSets

CONSTANTS Bodies,       \* bodies of packets, sequences of cells
          MaxPackets,   \* bound on the packets the router sends
          MaxWrites,    \* bound on the packets written here
          Garbage,      \* lengths an uninitialised `l` may hold
          NoLen         \* no length has been read

ASSUME LinkAssumption ==
    /\ Bodies \subseteq Seq(Nat \ {0}) /\ <<>> \notin Bodies
    /\ MaxPackets \in Nat /\ MaxWrites \in Nat /\ Garbage \subseteq Nat
    /\ NoLen \notin Nat

VARIABLES phase,        \* where the handshake or the reader is
          l,            \* the length read last, NoLen before a header is read
          stream,       \* the cells from the router not yet read
          broken,       \* the connection is broken
          sent,         \* history: the messages the router sent
          out,          \* history: the messages written here
          got           \* history: the packets async_read_packet returned

vars == <<phase, l, stream, broken, sent, out, got>>

-----------------------------------------------------------------------------
Name == [server_hello |-> <<1>>, login_result |-> <<2>>, avPacket |-> <<3, 4>>]
Types == DOMAIN Name

HelloBody == <<10>>
Succeed == <<11>>
Refuse == <<12>>

Message == [type : Types, body : Bodies \cup {HelloBody, Succeed, Refuse}]
Msg(type, body) == [type |-> type, body |-> body]

Null == Msg("none", <<>>)
Damaged == Msg("avPacket", <<0>>)

Ended == {"quit", "thrown", "refused"}

\* encode: the length of the rest, the length of the name, the name, the body.
Encode(m) ==
    LET rest == <<Len(Name[m.type])>> \o Name[m.type] \o m.body
    IN  <<Len(rest)>> \o rest

\* decode: what it may return.  A body that was cut and filled with zeros (only
\* that of a packet is decoded then) may parse, when the cut is inside a field.
Decode(buf) ==
    LET len == Len(buf)
        named == {t \in Types : Name[t] = SubSeq(buf, 3, 2 + buf[2])}
        body == SubSeq(buf, 3 + buf[2], len)
        cut == \E k \in 1..Len(body) : body[k] = 0
    IN  IF len < 2 \/ len # buf[1] + 1 \/ buf[2] >= len - 2 \/ named = {} THEN {Null}
        ELSE IF cut THEN {Null, Damaged}
        ELSE {Msg(t, body) : t \in named}

\* The buffer when n cells were asked for: what came, and zeros.
Buffer(n) ==
    <<n>> \o [k \in 1..n |-> IF k <= Len(stream) THEN stream[k] ELSE 0]

Rest(n) == SubSeq(stream, n + 1, Len(stream))

Init ==
    /\ phase = "start" /\ l = NoLen /\ stream = <<>> /\ broken = FALSE
    /\ sent = <<>> /\ out = <<>> /\ got = <<>>

-----------------------------------------------------------------------------
(***************************************************************************)
(* The router and the network.                                             *)
(***************************************************************************)

Sent(type) == {k \in 1..Len(sent) : sent[k].type = type}
Wrote(type) == \E k \in 1..Len(out) : out[k].type = type

ServerSends(m) ==
    /\ ~ broken
    /\ stream' = stream \o Encode(m)
    /\ sent' = Append(sent, m)
    /\ UNCHANGED <<phase, l, broken, out, got>>

ServerHello ==
    /\ Wrote("client_hello") /\ Sent("server_hello") = {}
    /\ ServerSends(Msg("server_hello", HelloBody))

ServerResult(r) ==
    /\ Wrote("login") /\ Sent("login_result") = {}
    /\ ServerSends(Msg("login_result", r))

ServerPacket(b) ==
    /\ \E k \in Sent("login_result") : sent[k].body = Succeed
    /\ Cardinality(Sent("avPacket")) < MaxPackets
    /\ ServerSends(Msg("avPacket", b))

\* The connection breaks: what is under way may be lost from any cell on.
Break ==
    /\ ~ broken /\ broken' = TRUE
    /\ \E n \in 0..Len(stream) : stream' = SubSeq(stream, 1, n)
    /\ UNCHANGED <<phase, l, sent, out, got>>

-----------------------------------------------------------------------------
(***************************************************************************)
(* async_handshake.                                                        *)
(***************************************************************************)

Throw == phase' = "thrown" /\ UNCHANGED <<l, stream, out>>

\* A write of the handshake: done, or the exception of a broken connection.
HandshakeWrite(from, type, to) ==
    /\ phase = from
    /\ \/ phase' = to /\ out' = Append(out, Msg(type, <<>>)) /\ UNCHANGED <<l, stream>>
       \/ broken /\ Throw
    /\ UNCHANGED <<broken, sent, got>>

SendHello == HandshakeWrite("start", "client_hello", "hello")
SendLogin == HandshakeWrite("login", "login", "result")

\* A length is read.  The one before the answer to the login is read with
\* transfer_exactly of the length of server_hello: never less than a header.
HandshakeHead ==
    /\ phase \in {"hello", "result"} /\ l = NoLen
    /\ \/ stream # <<>> /\ l' = Head(stream) /\ stream' = Tail(stream)
          /\ UNCHANGED <<phase, out>>
       \/ stream = <<>> /\ broken /\ Throw
    /\ UNCHANGED <<broken, sent, got>>

\* Mutant: any answer to the login is a success.
AfterHandshakeAlways(m) == IF phase = "hello" THEN "login" ELSE "packet"

\* What follows the message m: the login, or the end of the handshake.
AfterHandshake(m) ==
    CASE phase = "hello" -> "login"
      [] phase = "result" /\ m.body = Succeed -> "packet"
      [] OTHER -> "refused"

\* The rest of the message is read and decoded.
HandshakeBody ==
    /\ phase \in {"hello", "result"} /\ l # NoLen
    /\ \/ /\ Len(stream) >= l
          /\ \E m \in Decode(Buffer(l)) : phase' = AfterHandshake(m)
          /\ stream' = Rest(l) /\ l' = NoLen /\ UNCHANGED out
       \/ Len(stream) < l /\ broken /\ Throw
    /\ UNCHANGED <<broken, sent, got>>

-----------------------------------------------------------------------------
(***************************************************************************)
(* async_read_packet, called by interface_runner until it returns null, and *)
(* async_write_packet, called by interface_writer.                         *)
(***************************************************************************)

\* The length.  When the read fails, l is not initialised; the buffer may be
\* too large for memory, or the length in it whatever it is.
ReadHead ==
    /\ phase = "packet" /\ l = NoLen
    /\ \/ stream # <<>> /\ l' = Head(stream) /\ stream' = Tail(stream) /\ UNCHANGED phase
       \/ stream = <<>> /\ broken /\ l' \in Garbage /\ UNCHANGED <<phase, stream>>
       \/ stream = <<>> /\ broken /\ phase' = "thrown" /\ UNCHANGED <<l, stream>>
    /\ UNCHANGED <<broken, sent, out, got>>

\* Mutant: what there is of a cut packet is kept, and read once more.
ReadBodyAgain ==
    /\ phase = "packet" /\ l # NoLen
    /\ Len(stream) >= l \/ broken
    /\ \E m \in Decode(Buffer(l)) :
         IF m.type = "avPacket"
           THEN got' = Append(got, m) /\ UNCHANGED phase
           ELSE phase' = "quit" /\ UNCHANGED got
    /\ IF Len(stream) >= l THEN stream' = Rest(l) /\ l' = NoLen
                           ELSE UNCHANGED <<stream, l>>
    /\ UNCHANGED <<broken, sent, out>>

\* Mutant: whatever has come is taken out of the stream.
ReadBodyDrains ==
    /\ phase = "packet" /\ l # NoLen
    /\ Len(stream) >= l \/ broken
    /\ \E m \in Decode(Buffer(l)) :
         IF m.type = "avPacket"
           THEN got' = Append(got, m) /\ UNCHANGED phase
           ELSE phase' = "quit" /\ UNCHANGED got
    /\ stream' = <<>> /\ l' = NoLen
    /\ UNCHANGED <<broken, sent, out>>

\* Mutant: what was decoded is not looked at.
ReadBodyUnchecked ==
    /\ phase = "packet" /\ l # NoLen
    /\ Len(stream) >= l \/ broken
    /\ \E m \in Decode(Buffer(l)) : got' = Append(got, m)
    /\ phase' = IF broken THEN "quit" ELSE phase
    /\ stream' = Rest(l) /\ l' = NoLen
    /\ UNCHANGED <<broken, sent, out>>

\* Mutant: a read that failed is tried again.
ReadBodyRetries ==
    /\ phase = "packet" /\ l # NoLen
    /\ Len(stream) >= l \/ broken
    /\ \E m \in Decode(Buffer(l)) :
         got' = IF m.type = "avPacket" THEN Append(got, m) ELSE got
    /\ stream' = Rest(l) /\ l' = NoLen
    /\ UNCHANGED <<phase, broken, sent, out>>

\* The rest, or what there is of it: a packet is returned, or null, with which
\* interface_runner ends.
ReadBody ==
    /\ phase = "packet" /\ l # NoLen
    /\ Len(stream) >= l \/ broken
    /\ \E m \in Decode(Buffer(l)) :
         IF m.type = "avPacket"
           THEN got' = Append(got, m) /\ UNCHANGED phase
           ELSE phase' = "quit" /\ UNCHANGED got
    /\ stream' = Rest(l) /\ l' = NoLen
    /\ UNCHANGED <<broken, sent, out>>

\* async_write_packet: written, or not when the connection is broken.
WritePacket ==
    /\ phase = "packet"
    /\ Cardinality({k \in 1..Len(out) : out[k].type = "avPacket"}) < MaxWrites
    /\ out' = Append(out, Msg("avPacket", <<>>)) \/ (broken /\ UNCHANGED out)
    /\ UNCHANGED <<phase, l, stream, broken, sent, got>>

Router ==
    \/ ServerHello
    \/ \E r \in {Succeed, Refuse} : ServerResult(r)
    \/ \E b \in Bodies : ServerPacket(b)
    \/ Break

Reader == HandshakeHead \/ HandshakeBody \/ ReadHead \/ ReadBody

Next == Router \/ SendHello \/ SendLogin \/ Reader \/ WritePacket

\* asio completes a read when its cells are there or the connection is broken.
Spec == Init /\ [][Next]_vars /\ WF_vars(SendHello \/ SendLogin \/ Reader)

-----------------------------------------------------------------------------
(***************************************************************************)
(* Properties.                                                             *)
(***************************************************************************)

TypeOK ==
    /\ phase \in {"start", "hello", "login", "result", "packet"} \cup Ended
    /\ l \in Nat \cup {NoLen}
    /\ stream \in Seq(Nat) /\ broken \in BOOLEAN
    /\ sent \in Seq(Message)
    /\ \A k \in 1..Len(got) : got[k] \in Message \cup {Damaged}

\* async_read_packet never loses the beginning of a frame: the packets it
\* returns, but for a damaged one at the end, are those the router sent, each
\* once and in order, from the first one behind the answer to the login.
Packets == SubSeq(sent, 3, Len(sent))
Whole == IF got # <<>> /\ got[Len(got)] = Damaged THEN SubSeq(got, 1, Len(got) - 1) ELSE got
PacketStream == INSTANCE Fifo WITH
    Values <- {Msg("avPacket", b) : b \in Bodies}, in <- Packets, out <- Whole
ImplementsFifo == PacketStream!Spec

\* A read error that is not looked at does its harm once: only the last packet
\* returned may be damaged, only when the connection is broken, and it stands
\* for one the router sent.
DamagedOnce ==
    \A k \in 1..Len(got) : got[k] = Damaged =>
        broken /\ k = Len(got) /\ k <= Len(Packets)

\* async_handshake returns true only when the router answered the login with a
\* success, and nothing is written in between or before.
HandshakeSound ==
    phase = "packet" =>
        /\ \E k \in 1..Len(sent) : sent[k] = Msg("login_result", Succeed)
        /\ Len(out) >= 2 /\ out[1].type = "client_hello" /\ out[2].type = "login"

\* Once the connection is broken the reader ends, and interface_runner with it.
ReaderEnds == broken ~> phase \in Ended
=============================================================================
