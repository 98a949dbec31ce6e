------------------------------- MODULE Network -------------------------------
(***************************************************************************)
(* Several nodes, each an avkernel_impl (libavproto/src/avkernel.cpp), and *)
(* the packets between them: the exchange of keys, the encryption of data  *)
(* end to end, the forwarding by nodes in between, the time to live.       *)
(*                                                                         *)
(* A link stands for the write queue, the connection and the reader of an  *)
(* interface: CoroQueue and JackLink show that they keep the order.  What  *)
(* AvKernel has in several steps - a packet handled, then the sends that   *)
(* waited for it resumed - is one step here.  A node has one certificate,  *)
(* used on all of its interfaces.                                          *)
(*                                                                         *)
(* Two nodes and their link may part for ever, and a node may start again  *)
(* with a new key.  A send that waits for an answer over a link that fails *)
(* is left out from then on: what becomes of it is AvKernel's.  A process  *)
(* that has ended is a node without links.                                 *)
(***************************************************************************)
EXTENDS Integers, Sequences, FiniteSets, SequencesExt

CONSTANTS Nodes,
          Cert,         \* if_address of every node, from its certificate
          KeySize,      \* RSA_size of the key of every node
          Pad,          \* RSA_PKCS1_PADDING_SIZE
          Routes,       \* m_routes of every node: patterns and neighbours, cheapest first
          Plans,        \* sequences of calls of async_sendto: the node that calls, the
                        \* string it sends to and the data, a sequence of bytes
          Ttl,          \* time_to_live of a new packet
          MaxAsks,      \* asks for a key before a send gives up
          MaxFaults,    \* bound on the ticks of timer1 that find an entry expired, the
                        \* links that break and the nodes that restart
          Breaking,     \* links that may break
          Restarting,   \* nodes that may restart, once, with a new key
          NoKey, NoNode, NoSend, NoText

\* An address as proto::avAddress has it (all have the default domain), and
\* as a string: a user name alone, with the domain, or with a resource too.
Address == [user : STRING, res : BOOLEAN]
String  == [user : STRING, form : {"name", "full", "res"}]

Links == {l \in Nodes \X Nodes : \E i \in DOMAIN Routes[l[1]] : Routes[l[1]][i].to = l[2]}

ASSUME NetworkAssumption ==
    /\ \A n \in Nodes : Cert[n] \in Address /\ KeySize[n] \in Nat /\ KeySize[n] > Pad
    /\ \A n, m \in Nodes : Cert[n].user = Cert[m].user => n = m
    /\ \A n \in Nodes : Routes[n] \in Seq([pattern : SUBSET String, to : Nodes])
    /\ \A l \in Links : <<l[2], l[1]>> \in Links
    /\ \A p \in Plans : \A s \in DOMAIN p :
         /\ p[s].from \in Nodes /\ p[s].to \in String /\ p[s].text \in Seq(0..255)
         /\ s # NoSend
    /\ Breaking \subseteq Links
    /\ Pad \in Nat /\ Ttl \in Nat \ {0} /\ MaxAsks \in Nat \ {0} /\ MaxFaults \in Nat
    /\ Restarting \subseteq Nodes

VARIABLES plan,         \* the calls that are made, one of Plans
          link,         \* what is under way on every link
          up,           \* the links whose interfaces are in m_avifs
          keys,         \* trusted_pubkey of every node: the key find_RSA_pubkey returns
          op,           \* where async_sendto_op of every send is, and the asks it made
          waiting,      \* the postprocess list of every node
          got,          \* history: what every node has put into m_recv_buffer
          gen,          \* the number of times a node has started again
          faults        \* number of expiries and failures (bounded by MaxFaults)

vars == <<plan, link, up, keys, op, waiting, got, gen, faults>>

-----------------------------------------------------------------------------
\* Numbers in order, and the elements of a sequence at some positions: the loops
\* that pass over a list and take out those for which a condition holds.
Ordered(S) ==
    CHOOSE p \in [1..Cardinality(S) -> S] : \A j, k \in DOMAIN p : j < k => p[j] < p[k]
At(q, S) == [k \in 1..Cardinality(S) |-> q[Ordered(S)[k]]]

\* What a list is without the elements of W.
Without(q, W) == At(q, {k \in DOMAIN q : q[k] \notin W})

Sends == DOMAIN plan
From(s) == plan[s].from
To(s) == plan[s].to

-----------------------------------------------------------------------------
(***************************************************************************)
(* Addresses.                                                              *)
(***************************************************************************)

\* av_address_from_string: a name without a domain gets the default one.
AddressFromString(str) == [user |-> str.user, res |-> str.form = "res"]

\* av_address_to_string.
AddressToString(a) == [user |-> a.user, form |-> IF a.res THEN "res" ELSE "full"]

\* is_to_me compares no resources.
IsToMe(n, a) == a.user = Cert[n].user

\* The predicate of a waiting send: the source, as a string, is the target.
IsFrom(a, str) == AddressToString(a) = str

-----------------------------------------------------------------------------
(***************************************************************************)
(* RSA, in chunks.  A cell of a ciphertext knows the key, the half of it   *)
(* that was used, the chunk, and its place in the block.                   *)
(***************************************************************************)
Key == Nodes \X {0, 1}
Mine(n) == <<n, gen[n]>>
SizeOf(k) == KeySize[k[1]]
Other(half) == IF half = "public" THEN "private" ELSE "public"

\* The pieces of a text, each of the given size but the last.
Chunks(text, size) ==
    [c \in 1..((Len(text) + size - 1) \div size) |->
        SubSeq(text, (c - 1) * size + 1, IF c * size < Len(text) THEN c * size ELSE Len(text))]

Block(k, half, chunk) ==
    [i \in 1..SizeOf(k) |-> [key |-> k, half |-> half, chunk |-> chunk, at |-> i]]

\* RSA_public_encrypt and RSA_private_encrypt: every chunk leaves room for the
\* padding and becomes a block of the size of the key.
Encrypt(k, half, text) ==
    LET parts == Chunks(text, SizeOf(k) - Pad)
    IN  FlattenSeq([c \in DOMAIN parts |-> Block(k, half, parts[c])])

\* Mutant: the blocks are read in the steps they were made in.
DecryptSmallSteps(k, half, text) ==
    LET parts == Chunks(text, SizeOf(k) - Pad)
    IN  IF \E c \in DOMAIN parts : parts[c] # Block(k, Other(half), parts[c][1].chunk)
          THEN NoText
          ELSE FlattenSeq([c \in DOMAIN parts |-> parts[c][1].chunk])

\* RSA_public_decrypt and RSA_private_decrypt: a block of another key, or one
\* that is cut, returns -1, and append throws.
Decrypt(k, half, text) ==
    LET parts == Chunks(text, SizeOf(k))
    IN  IF \E c \in DOMAIN parts : parts[c] # Block(k, Other(half), parts[c][1].chunk)
          THEN NoText
          ELSE FlattenSeq([c \in DOMAIN parts |-> parts[c][1].chunk])

\* NoText stands for the exception: it is no ciphertext.
ASSUME NoTextAssumption ==
    \A p \in Plans : \A s \in DOMAIN p : \A k \in Key : Encrypt(k, "public", p[s].text) # NoText

\* The payload async_sendto_op makes for the holder of key k, sent under key m.
Texts == UNION {{p[s].text : s \in DOMAIN p} : p \in Plans}
Sealed ==
    [x \in Key \X Key \X Texts |-> Encrypt(x[2], "private", Encrypt(x[1], "public", x[3]))]

\* What process_recived_packet_to_me makes of a payload.
Opened(n, p) ==
    LET stage1 == Decrypt(p.pub, "public", p.body)
    IN  IF stage1 = NoText THEN NoText ELSE Decrypt(Mine(n), "private", stage1)

-----------------------------------------------------------------------------
(***************************************************************************)
(* Packets and routes.                                                     *)
(***************************************************************************)
Packet(proto, n, dest, pub, body, s) ==
    [proto |-> proto, src |-> Cert[n], dest |-> dest, pub |-> pub, body |-> body,
     ttl |-> Ttl, s |-> s]

PkAsk(n, str)   == Packet("pkask", n, AddressFromString(str), NoKey, NoText, NoSend)
PkReply(n, str) == Packet("pkreply", n, AddressFromString(str), NoKey, Mine(n), NoSend)
Data(n, s, k) ==
    Packet("avim", n, AddressFromString(To(s)), Mine(n),
           Sealed[<<k, Mine(n), plan[s].text>>], s)

\* The neighbour of the first route that matches and whose interface is there.
FirstRoute(n, str, there) ==
    LET usable == {k \in DOMAIN Routes[n] :
                      str \in Routes[n][k].pattern /\ <<n, Routes[n][k].to>> \in there}
    IN  IF usable = {} THEN NoNode ELSE Routes[n][Min(usable)].to

\* select_route: the routes of an interface have left with it.
SelectRoute(n, str) == FirstRoute(n, str, up)

\* Mutant: a link has room for what was written last only.
PushedOver(f, n, out) ==
    [l \in Links |->
        IF l[1] # n \/ l \notin up THEN f[l]
          ELSE LET mine == At(out, {k \in DOMAIN out : out[k].to = l[2]})
               IN  IF mine = <<>> THEN f[l] ELSE [i \in DOMAIN mine |-> mine[i].pkt]]

\* async_interface_write_packet for every element of out, in order.
Pushed(f, n, out) ==
    [l \in Links |->
        IF l[1] # n \/ l \notin up THEN f[l]
          ELSE LET mine == At(out, {k \in DOMAIN out : out[k].to = l[2]})
               IN  f[l] \o [i \in DOMAIN mine |-> mine[i].pkt]]

Init ==
    /\ plan \in Plans
    /\ link = [l \in Links |-> <<>>] /\ up = Links
    /\ keys = [n \in Nodes |-> [str \in {To(s) : s \in Sends} \cup {AddressToString(Cert[m]) : m \in Nodes}
                                  |-> NoKey]]
    /\ op = [s \in Sends |-> [pc |-> "idle", asks |-> 0]]
    /\ waiting = [n \in Nodes |-> <<>>]
    /\ got = [n \in Nodes |-> <<>>]
    /\ gen = [n \in Nodes |-> 0]
    /\ faults = 0

-----------------------------------------------------------------------------
(***************************************************************************)
(* async_sendto_op.  The calls of a node with one target are numbered in   *)
(* the order they are made.                                                *)
(***************************************************************************)
Send(s) ==
    LET n == From(s)
        via == SelectRoute(n, To(s))
        k == keys[n][To(s)]
    IN  /\ op[s].pc = "idle"
        /\ \A o \in 1..(s - 1) : From(o) = n /\ To(o) = To(s) => op[o].pc # "idle"
        /\ \/ /\ via = NoNode
              /\ op' = [op EXCEPT ![s].pc = "unreachable"]
              /\ UNCHANGED <<link, waiting>>
           \/ /\ via # NoNode /\ k # NoKey
              /\ op' = [op EXCEPT ![s].pc = "sent"]
              /\ link' = Pushed(link, n, <<[to |-> via, pkt |-> Data(n, s, k)]>>)
              /\ UNCHANGED waiting
           \/ /\ via # NoNode /\ k = NoKey
              /\ op' = [op EXCEPT ![s] = [pc |-> "wait", asks |-> 1]]
              /\ link' = Pushed(link, n, <<[to |-> via, pkt |-> PkAsk(n, To(s))]>>)
              /\ waiting' = [waiting EXCEPT ![n] = Append(@, s)]
        /\ UNCHANGED <<up, keys, got, gen, faults, plan>>

\* A tick of timer1 that finds the entries of W expired: W is any set of them,
\* for the deadlines were taken from local_time, and that jumps.  None has its
\* key (else it would not be in the list): it asks again, or gives up.
Expire(n, W) ==
    LET q == waiting[n]
        again == At(q, {k \in DOMAIN q : q[k] \in W /\ op[q[k]].asks < MaxAsks})
    IN  /\ W # {} /\ W \subseteq ToSet(waiting[n])
        /\ faults < MaxFaults /\ faults' = faults + 1
        /\ waiting' = [waiting EXCEPT ![n] = Without(q, W) \o again]
        /\ op' = [s \in Sends |-> IF s \notin W THEN op[s]
                    ELSE IF op[s].asks < MaxAsks THEN [op[s] EXCEPT !.asks = @ + 1]
                    ELSE [op[s] EXCEPT !.pc = "unreachable"]]
        /\ link' = Pushed(link, n, [i \in DOMAIN again |->
                      [to |-> SelectRoute(n, To(again[i])), pkt |-> PkAsk(n, To(again[i]))]])
        /\ UNCHANGED <<up, keys, got, gen, plan>>

-----------------------------------------------------------------------------
(***************************************************************************)
(* process_recived_packet: the head of link l, at the node it leads to.    *)
(***************************************************************************)
\* The key that comes with a packet of an unknown source is trusted.
Learned(n, p) ==
    LET str == AddressToString(p.src)
    IN  IF p.pub # NoKey /\ keys[n][str] = NoKey THEN [keys[n] EXCEPT ![str] = p.pub] ELSE keys[n]

\* The sends whose predicate holds for the packet.
Woken(n, p, ks) ==
    LET q == waiting[n]
    IN  At(q, {k \in DOMAIN q : IsFrom(p.src, To(q[k])) /\ ks[To(q[k])] # NoKey})

\* The node has the keys ks and has made the packets of out; now the sends
\* that waited for this packet are resumed and make theirs.
Handled(l, p, ks, out) ==
    LET n == l[2]
        woken == Woken(n, p, ks)
        data == [i \in DOMAIN woken |->
                    [to |-> SelectRoute(n, To(woken[i])),
                     pkt |-> Data(n, woken[i], ks[To(woken[i])])]]
    IN  /\ keys' = [keys EXCEPT ![n] = ks]
        /\ waiting' = [waiting EXCEPT ![n] = Without(@, ToSet(woken))]
        /\ op' = [s \in Sends |-> IF s \in ToSet(woken) THEN [op[s] EXCEPT !.pc = "sent"] ELSE op[s]]
        /\ \E all \in {out \o data} : link' = Pushed([link EXCEPT ![l] = Tail(@)], n, all)
        /\ UNCHANGED <<gen, faults, plan>>

RecvAsk(l, p) ==
    /\ IsToMe(l[2], p.dest) /\ p.proto = "pkask"
    /\ Handled(l, p, Learned(l[2], p),
               <<[to |-> l[1], pkt |-> PkReply(l[2], AddressToString(p.src))]>>)
    /\ UNCHANGED <<up, got>>

\* Mutant: the key is stored for the user, whatever the resource.
RecvReplyForUser(l, p) ==
    /\ IsToMe(l[2], p.dest) /\ p.proto = "pkreply"
    /\ Handled(l, p, [str \in DOMAIN keys[l[2]] |->
                        IF str.user = p.src.user THEN p.body ELSE keys[l[2]][str]], <<>>)
    /\ UNCHANGED <<up, got>>

RecvReply(l, p) ==
    /\ IsToMe(l[2], p.dest) /\ p.proto = "pkreply"
    /\ Handled(l, p, [keys[l[2]] EXCEPT ![AddressToString(p.src)] = p.body], <<>>)
    /\ UNCHANGED <<up, got>>

RecvData(l, p) ==
    /\ IsToMe(l[2], p.dest) /\ p.proto = "avim"
    /\ \E text \in {Opened(l[2], p)} \ {NoText} :
         got' = [got EXCEPT ![l[2]] =
                   Append(@, [from |-> AddressToString(p.src), text |-> text, s |-> p.s])]
    /\ Handled(l, p, Learned(l[2], p), <<>>)
    /\ UNCHANGED up

\* The links of gone are closed and what was on them is lost; the sends that
\* wait for an answer over one of them are left out.
Cut(gone) ==
    LET lost == {s \in Sends : op[s].pc = "wait" /\ <<From(s), SelectRoute(From(s), To(s))>> \in gone}
    IN  /\ link' = [l \in Links |-> IF l \in gone THEN <<>> ELSE link[l]]
        /\ waiting' = [n \in Nodes |-> Without(waiting[n], lost)]
        /\ op' = [s \in Sends |-> IF s \in lost THEN [op[s] EXCEPT !.pc = "dead"] ELSE op[s]]

LinksOf(n) == {l \in Links : n \in {l[1], l[2]}}

\* The data cannot be decrypted: the exception ends the process.
RecvBad(l, p) ==
    /\ IsToMe(l[2], p.dest) /\ p.proto = "avim"
    /\ Opened(l[2], p) = NoText
    /\ Cut(LinksOf(l[2]))
    /\ up' = up \ LinksOf(l[2])
    /\ UNCHANGED <<keys, got, gen, faults, plan>>

\* Mutant: a packet that goes back where it came from keeps its time to live.
OlderUnlessBack(l, p, to) == [p EXCEPT !.ttl = IF to = l[1] THEN @ ELSE @ - 1]

\* A packet as it is forwarded.
Older(l, p, to) == [p EXCEPT !.ttl = @ - 1]

\* Mutant: off by one.
LivesToZero(p) == p.ttl > 0

Lives(p) == p.ttl > 1

Forward(l, p) ==
    LET to == SelectRoute(l[2], AddressToString(p.dest)) IN
    /\ ~ IsToMe(l[2], p.dest) /\ Lives(p) /\ to # NoNode
    /\ Handled(l, p, Learned(l[2], p), <<[to |-> to, pkt |-> Older(l, p, to)]>>)
    /\ UNCHANGED <<up, got>>

Drop(l, p) ==
    /\ ~ IsToMe(l[2], p.dest)
    /\ ~ Lives(p) \/ SelectRoute(l[2], AddressToString(p.dest)) = NoNode
    /\ Handled(l, p, Learned(l[2], p), <<>>)
    /\ UNCHANGED <<up, got>>

Receive(l) ==
    /\ link[l] # <<>>
    /\ LET p == Head(link[l]) IN
        \/ RecvAsk(l, p) \/ RecvReply(l, p) \/ RecvData(l, p) \/ RecvBad(l, p)
        \/ Forward(l, p) \/ Drop(l, p)

-----------------------------------------------------------------------------
(***************************************************************************)
(* Faults.                                                                 *)
(***************************************************************************)
Break(l) ==
    /\ l \in Breaking \cap up
    /\ faults < MaxFaults /\ faults' = faults + 1
    /\ Cut({l, <<l[2], l[1]>>})
    /\ up' = up \ {l, <<l[2], l[1]>>}
    /\ UNCHANGED <<keys, got, gen, plan>>

\* A node starts again with a new key and logs in at once: what it knew, what
\* waited there and what was under way on its links is lost.
Restart(n) ==
    /\ n \in Restarting /\ gen[n] = 0
    /\ faults < MaxFaults /\ faults' = faults + 1
    /\ gen' = [gen EXCEPT ![n] = 1]
    /\ keys' = [keys EXCEPT ![n] = [str \in DOMAIN @ |-> NoKey]]
    /\ Cut(LinksOf(n))
    /\ UNCHANGED <<up, got, plan>>

Next ==
    \/ \E s \in Sends : Send(s)
    \/ \E n \in Nodes : \E W \in SUBSET ToSet(waiting[n]) : Expire(n, W)
    \/ \E l \in Links : Receive(l)
    \/ \E l \in Links : Break(l)
    \/ \E n \in Nodes : Restart(n)

\* What is on a link is read and handled: interface_writer and
\* interface_runner loop as long as the connection lasts.
Spec == Init /\ [][Next]_vars /\ WF_vars(\E l \in Links : Receive(l))

-----------------------------------------------------------------------------
(***************************************************************************)
(* Properties.                                                             *)
(***************************************************************************)

TypeOK ==
    /\ \A l \in Links : \A i \in DOMAIN link[l] :
         LET p == link[l][i] IN
         /\ p.proto \in {"pkask", "pkreply", "avim"} /\ p.src \in Address /\ p.dest \in Address
         /\ p.ttl \in 1..Ttl /\ p.pub \in Key \cup {NoKey} /\ p.s \in Sends \cup {NoSend}
    /\ up \subseteq Links
    /\ \A n \in Nodes : \A str \in DOMAIN keys[n] : keys[n][str] \in Key \cup {NoKey}
    /\ op \in [Sends -> [pc : {"idle", "wait", "sent", "unreachable", "dead"}, asks : 0..MaxAsks]]
    /\ \A n \in Nodes : ToSet(waiting[n]) \subseteq {s \in Sends : From(s) = n /\ op[s].pc = "wait"}
    /\ gen \in [Nodes -> {0, 1}] /\ plan \in Plans /\ faults \in 0..MaxFaults

\* What a node puts into m_recv_buffer is what async_sendto was given, from the
\* node that called it and at the node it was for: cut into chunks, encrypted
\* twice under keys of two sizes, carried over several nodes and put together
\* again.  The same holds of what is still under way, unless its receiver has
\* changed its key, of which nobody is told: then append throws.
DeliveredIntact ==
    /\ \A n \in Nodes : \A i \in DOMAIN got[n] :
         LET m == got[n][i] IN
         /\ m.text = plan[m.s].text /\ m.from = AddressToString(Cert[From(m.s)])
         /\ To(m.s).user = Cert[n].user
    /\ \A l \in Links : \A i \in DOMAIN link[l] : \A n \in Nodes :
         LET p == link[l][i]
         IN  p.proto = "avim" /\ IsToMe(n, p.dest) /\ gen[n] = 0 =>
               Opened(n, p) = plan[p.s].text

\* Data leaves only for the very string the certificate of a node says: the
\* answer of a node reached by its name alone or with a resource is not taken
\* for an answer, although the node answers.
SentOnlyToCertified ==
    \A s \in Sends : op[s].pc = "sent" => \E n \in Nodes : To(s) = AddressToString(Cert[n])

\* The routes lead where they should, hops being how far it is: when a node has a
\* route to another one, the neighbour is nearer and has a route too, and the way
\* is not longer than a packet lives.
Nearer(hops) ==
    \A n, m \in Nodes :
        LET str  == AddressToString(Cert[m])
            next == FirstRoute(n, str, Links)
        IN  next # NoNode =>
              /\ hops[<<next, m>>] < Ttl
              /\ n # m => hops[<<next, m>>] < hops[<<n, m>>]
              /\ next # m => FirstRoute(next, str, Links) # NoNode
RoutesLead == \E hops \in [Nodes \X Nodes -> 0..Ttl] : Nearer(hops)

Calm == up = Links /\ \A n \in Nodes : gen[n] = 0

\* Data that was sent has arrived or is on its way, and is in one place only,
\* unless a node or a link has failed: the time to live is enough for the way,
\* every node on it knows where to go on, and nothing is handled twice.
SentIsSomewhere ==
    LET onTheWay(s) == UNION {{<<l, i>> : i \in {j \in DOMAIN link[l] : link[l][j].s = s}} : l \in Links}
        arrived(s)  == UNION {{<<n, i>> : i \in {j \in DOMAIN got[n] : got[n][j].s = s}} : n \in Nodes}
    IN  Calm => \A s \in Sends : op[s].pc = "sent" =>
                    Cardinality(onTheWay(s)) + Cardinality(arrived(s)) = 1

\* Every packet comes to an end, those included that two nodes send to each
\* other because each takes the other for the way to an address nobody has.
PacketsDie == <>[](\A l \in Links : link[l] = <<>>)
==============================================================================
