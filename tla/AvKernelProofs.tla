--------------------------- MODULE AvKernelProofs ---------------------------
(***************************************************************************)
(* The safety invariants of AvKernel, for every set of interfaces, routes, *)
(* addresses, sends and packets.                                           *)
(***************************************************************************)
EXTENDS AvKernel, TLAPS

(***************************************************************************)
(* The inductive invariant: the invariants themselves and what makes them  *)
(* inductive.                                                              *)
(***************************************************************************)

\* An interface that is quitting was added; a write is of something.
WriterInv ==
    \A i \in Ifs : /\ quitting[i] => writer[i] # "none"
                   /\ writer[i] = "writing" => wq[i] # <<>>

\* A waiting send knows where it sends to, and has asked.
WaitInv ==
    \A s \in Sends : op[s].pc = "wait" =>
        op[s].target \in Addrs /\ op[s].ifc \in Ifs /\ op[s].asks \in 1..MaxAsks

\* Entries are numbered in the order they were put in.
NumberInv == \A w \in waiters : w.no < nextNo

\* A send that has not started has no interface and no asks.
IdleInv ==
    \A s \in Sends : op[s].pc = "idle" =>
        op[s].ifc = NoIf /\ op[s].asks = 0

IInv ==
    /\ TypeOK
    /\ RoutesBacked
    /\ WriterInv
    /\ WaitersMatchSends
    /\ WaitInv
    /\ NoLostWakeup
    /\ NumberInv
    /\ IdleInv
    /\ QueuedOnce
    /\ NotifiedOnce

-----------------------------------------------------------------------------
\* add_interface: the new interface has no routes yet and its writer runs.
LEMMA AddInterfaceInv ==
    ASSUME IInv, NEW i \in Ifs, AddInterface(i)
    PROVE  IInv'
<1>1. TypeOK'
    BY DEF IInv, TypeOK, AddInterface, Idle, envVars
<1>2. RoutesBacked' /\ WriterInv'
    BY DEF IInv, RoutesBacked, WriterInv, TypeOK, AddInterface, Idle, envVars
<1>3. /\ WaitersMatchSends'
      /\ WaitInv'
      /\ NoLostWakeup'
      /\ NumberInv'
      /\ IdleInv'
      /\ QueuedOnce'
      /\ NotifiedOnce'
    BY DEF IInv, WaitersMatchSends, WaitInv, NoLostWakeup, NumberInv, IdleInv,
      QueuedOnce, NotifiedOnce, AddInterface, Idle, envVars
<1>. QED BY <1>1, <1>2, <1>3 DEF IInv

\* add_route: the interface is in the map.
LEMMA AddRouteInv ==
    ASSUME IInv, NEW r \in RouteItems, AddRoute(r)
    PROVE  IInv'
<1>1. TypeOK'
    BY DEF IInv, TypeOK, AddRoute, envVars
<1>2. RoutesBacked'
    BY DEF IInv, RoutesBacked, TypeOK, AddRoute, envVars
<1>3. /\ WriterInv'
      /\ WaitersMatchSends'
      /\ WaitInv'
      /\ NoLostWakeup'
      /\ NumberInv'
      /\ IdleInv'
      /\ QueuedOnce'
      /\ NotifiedOnce'
    BY DEF IInv, WriterInv, WaitersMatchSends, WaitInv, NoLostWakeup, NumberInv,
      IdleInv, QueuedOnce, NotifiedOnce, AddRoute, envVars
<1>. QED BY <1>1, <1>2, <1>3 DEF IInv

\* interface_runner ends: the interface leaves with its routes.
LEMMA ReadFailInv ==
    ASSUME IInv, NEW i \in Ifs, ReadFail(i)
    PROVE  IInv'
<1>1. TypeOK'
    BY DEF IInv, TypeOK, ReadFail, CancelPop, RemoveInterface, envVars
<1>2. RoutesBacked'
    BY DEF IInv, RoutesBacked, TypeOK, ReadFail, CancelPop, RemoveInterface, envVars
<1>3. WriterInv'
    BY DEF IInv, WriterInv, TypeOK, RoutesBacked, ReadFail, CancelPop,
      RemoveInterface, envVars
<1>4. /\ WaitersMatchSends'
      /\ WaitInv'
      /\ NoLostWakeup'
      /\ NumberInv'
      /\ IdleInv'
      /\ QueuedOnce'
      /\ NotifiedOnce'
    BY DEF IInv, WaitersMatchSends, WaitInv, NoLostWakeup, NumberInv, IdleInv,
      QueuedOnce, NotifiedOnce, ReadFail, CancelPop, RemoveInterface,
      envVars
<1>. QED BY <1>1, <1>2, <1>3, <1>4 DEF IInv

\* async_recvfrom touches only m_recv_buffer.
LEMMA RecvFromInv ==
    ASSUME IInv, RecvFrom
    PROVE  IInv'
<1>1. TypeOK'
    BY DEF IInv, TypeOK, RecvFrom, netVars, waitVars, envVars
<1>2. /\ RoutesBacked'
      /\ WriterInv'
      /\ WaitersMatchSends'
      /\ WaitInv'
      /\ NoLostWakeup'
      /\ NumberInv'
      /\ IdleInv'
      /\ QueuedOnce'
      /\ NotifiedOnce'
    BY DEF IInv, RoutesBacked, WriterInv, WaitersMatchSends, WaitInv, NoLostWakeup,
      NumberInv, IdleInv, QueuedOnce, NotifiedOnce, RecvFrom, netVars,
      waitVars, envVars
<1>. QED BY <1>1, <1>2 DEF IInv

\* The writer has popped something.
LEMMA WriterStartInv ==
    ASSUME IInv, NEW i \in Ifs, WriterStart(i)
    PROVE  IInv'
<1>1. TypeOK'
    BY DEF IInv, TypeOK, WriterStart, waitVars, envVars
<1>2. RoutesBacked' /\ WriterInv'
    BY DEF IInv, RoutesBacked, WriterInv, TypeOK, WriterStart, waitVars, envVars
<1>3. /\ WaitersMatchSends'
      /\ WaitInv'
      /\ NoLostWakeup'
      /\ NumberInv'
      /\ IdleInv'
      /\ QueuedOnce'
      /\ NotifiedOnce'
    BY DEF IInv, WaitersMatchSends, WaitInv, NoLostWakeup, NumberInv, IdleInv,
      QueuedOnce, NotifiedOnce, WriterStart, waitVars, envVars
<1>. QED BY <1>1, <1>2, <1>3 DEF IInv

\* The writer whose pop was canceled ends; its interface is gone.
LEMMA WriterBreakInv ==
    ASSUME IInv, NEW i \in Ifs, WriterBreak(i)
    PROVE  IInv'
<1>1. TypeOK'
    BY DEF IInv, TypeOK, WriterBreak, waitVars, envVars
<1>2. RoutesBacked' /\ WriterInv'
    BY DEF IInv, RoutesBacked, WriterInv, TypeOK, WriterBreak, waitVars, envVars
<1>3. /\ WaitersMatchSends'
      /\ WaitInv'
      /\ NoLostWakeup'
      /\ NumberInv'
      /\ IdleInv'
      /\ QueuedOnce'
      /\ NotifiedOnce'
    BY DEF IInv, WaitersMatchSends, WaitInv, NoLostWakeup, NumberInv, IdleInv,
      QueuedOnce, NotifiedOnce, WriterBreak, waitVars, envVars
<1>. QED BY <1>1, <1>2, <1>3 DEF IInv

\* purge_RSA_pubkey: with fewer keys stored no send waits for a stored one.
LEMMA PurgeTickInv ==
    ASSUME IInv, NEW gone \in SUBSET trusted, PurgeTick(gone)
    PROVE  IInv'
<1>1. TypeOK'
    BY DEF IInv, TypeOK, PurgeTick, Rearm, netVars, waitVars
<1>2. NoLostWakeup'
    BY DEF IInv, NoLostWakeup, PurgeTick, Rearm, netVars, waitVars
<1>3. /\ RoutesBacked'
      /\ WriterInv'
      /\ WaitersMatchSends'
      /\ WaitInv'
      /\ NumberInv'
      /\ IdleInv'
      /\ QueuedOnce'
      /\ NotifiedOnce'
    BY DEF IInv, RoutesBacked, WriterInv, WaitersMatchSends, WaitInv, NumberInv,
      IdleInv, QueuedOnce, NotifiedOnce, PurgeTick, Rearm, netVars,
      waitVars
<1>. QED BY <1>1, <1>2, <1>3 DEF IInv

\* ~avkernel touches only m_quitting.
LEMMA DestroyInv ==
    ASSUME IInv, Destroy
    PROVE  IInv'
<1>1. TypeOK'
    BY DEF IInv, TypeOK, Destroy, netVars, waitVars
<1>2. /\ RoutesBacked'
      /\ WriterInv'
      /\ WaitersMatchSends'
      /\ WaitInv'
      /\ NoLostWakeup'
      /\ NumberInv'
      /\ IdleInv'
      /\ QueuedOnce'
      /\ NotifiedOnce'
    BY DEF IInv, RoutesBacked, WriterInv, WaitersMatchSends, WaitInv, NoLostWakeup,
      NumberInv, IdleInv, QueuedOnce, NotifiedOnce, Destroy, netVars,
      waitVars
<1>. QED BY <1>1, <1>2 DEF IInv

\* The end of a pass: nothing is left that it had to resume.
LEMMA EndPassInv ==
    ASSUME IInv, EndPass
    PROVE  IInv'
<1>1. TypeOK'
    BY DEF IInv, TypeOK, Pass, NoPass, EndPass, netVars, waitVars, envVars
<1>2. NoLostWakeup'
    BY DEF IInv, NoLostWakeup, TypeOK, Waiter, Pass, Answered, NoPass, EndPass,
      netVars, waitVars, envVars
<1>3. NumberInv'
    BY DEF IInv, NumberInv, TypeOK, Waiter, Expired, NoPass, EndPass, netVars,
      waitVars, envVars
<1>4. /\ RoutesBacked'
      /\ WriterInv'
      /\ WaitersMatchSends'
      /\ WaitInv'
      /\ IdleInv'
      /\ QueuedOnce'
      /\ NotifiedOnce'
    BY DEF IInv, RoutesBacked, WriterInv, WaitersMatchSends, WaitInv, IdleInv,
      QueuedOnce, NotifiedOnce, EndPass, netVars, waitVars, envVars
<1>. QED BY <1>1, <1>2, <1>3, <1>4 DEF IInv

-----------------------------------------------------------------------------
\* What push does to the places of a write queue.
LEMMA PushPlaces ==
    ASSUME TypeOK, NEW i \in Ifs, NEW item \in Item, PushTo(i, item)
    PROVE  /\ \A j \in Ifs \ {i} : wq'[j] = wq[j]
           /\ Len(wq'[i]) = Len(wq[i]) + 1
           /\ \A k \in 1..Len(wq[i]) : wq'[i][k] = wq[i][k]
           /\ wq'[i][Len(wq[i]) + 1] = item
BY DEF TypeOK, PushTo

\* push keeps the types, and empties no queue.
LEMMA PushType ==
    ASSUME TypeOK, NEW i \in Ifs, NEW item \in Item, PushTo(i, item)
    PROVE  /\ wq' \in [Ifs -> Seq(Item)]
           /\ \A j \in Ifs : wq[j] # <<>> => wq'[j] # <<>>
<1>1. wq' \in [Ifs -> Seq(Item)]
    BY DEF TypeOK, PushTo
<1>2. wq'[i] # <<>>
    BY PushPlaces DEF TypeOK
<1>. QED BY <1>1, <1>2, PushPlaces

\* A packet that belongs to no send disturbs no send's place.
LEMMA PushOther ==
    ASSUME TypeOK, QueuedOnce, NEW i \in Ifs, NEW item \in Item, PushTo(i, item),
           item.s = NoSend,
           \A s \in Sends : /\ op'[s].pc = "queued" <=> op[s].pc = "queued"
                            /\ op[s].pc = "queued" => op'[s].ifc = op[s].ifc
    PROVE  QueuedOnce'
<1>1. \A j \in Ifs : Len(wq[j]) \in Nat
    BY DEF TypeOK
<1>2. NoSend \notin Sends
    BY KernelAssumption
<1>3. ASSUME NEW j \in Ifs, NEW k \in 1..Len(wq'[j]), wq'[j][k].s \in Sends
      PROVE  k \in 1..Len(wq[j]) /\ wq'[j][k] = wq[j][k]
    BY <1>1, <1>2, <1>3, PushPlaces
<1>4. ASSUME NEW j \in Ifs, NEW k \in 1..Len(wq[j])
      PROVE  k \in 1..Len(wq'[j]) /\ wq'[j][k] = wq[j][k]
    BY <1>1, PushPlaces
<1>5. ASSUME NEW j \in Ifs, NEW k \in 1..Len(wq'[j]), wq'[j][k].s \in Sends
      PROVE  /\ op'[wq'[j][k].s].pc = "queued" /\ op'[wq'[j][k].s].ifc = j
             /\ \A l \in 1..Len(wq'[j]) : wq'[j][l].s = wq'[j][k].s => l = k
    <2>1. k \in 1..Len(wq[j]) /\ wq'[j][k] = wq[j][k]
        BY <1>3, <1>5
    <2>2. op[wq[j][k].s].pc = "queued" /\ op[wq[j][k].s].ifc = j
        BY <1>5, <2>1 DEF QueuedOnce
    <2>3. \A l \in 1..Len(wq[j]) : wq[j][l].s = wq[j][k].s => l = k
        BY <1>5, <2>1 DEF QueuedOnce
    <2>. QED BY <1>3, <1>5, <2>1, <2>2, <2>3
<1>6. ASSUME NEW r \in Sends, op'[r].pc = "queued"
      PROVE  op'[r].ifc \in Ifs /\ \E k \in 1..Len(wq'[op'[r].ifc]) : wq'[op'[r].ifc][k].s = r
    <2>1. op[r].pc = "queued" /\ op'[r].ifc = op[r].ifc
        BY <1>6
    <2>2. PICK k \in 1..Len(wq[op[r].ifc]) : wq[op[r].ifc][k].s = r
        BY <2>1 DEF QueuedOnce
    <2>3. op[r].ifc \in Ifs
        BY <2>1 DEF QueuedOnce
    <2>. QED BY <1>4, <2>1, <2>2, <2>3
<1>. QED BY <1>5, <1>6 DEF QueuedOnce

\* The data of a send that had no place gets one, and only one.
LEMMA PushData ==
    ASSUME TypeOK, QueuedOnce, NEW i \in Ifs, NEW s \in Sends, NEW d \in Addrs,
           PushTo(i, Data(s, d)), op[s].pc # "queued",
           op'[s].pc = "queued", op'[s].ifc = i,
           \A r \in Sends \ {s} : op'[r] = op[r]
    PROVE  QueuedOnce'
<1>0. Data(s, d) \in Item /\ Data(s, d).s = s
    BY DEF Data, Item, PacketTtl
<1>1. \A j \in Ifs : Len(wq[j]) \in Nat
    BY DEF TypeOK
<1>2. ASSUME NEW j \in Ifs, NEW k \in 1..Len(wq'[j])
      PROVE  \/ k \in 1..Len(wq[j]) /\ wq'[j][k] = wq[j][k] /\ wq[j][k].s # s
             \/ j = i /\ k = Len(wq[i]) + 1 /\ wq'[j][k].s = s
    BY <1>0, <1>1, PushPlaces DEF QueuedOnce
<1>3. ASSUME NEW j \in Ifs, NEW k \in 1..Len(wq[j])
      PROVE  k \in 1..Len(wq'[j]) /\ wq'[j][k] = wq[j][k]
    BY <1>0, <1>1, PushPlaces
<1>4. Len(wq[i]) + 1 \in 1..Len(wq'[i]) /\ wq'[i][Len(wq[i]) + 1].s = s
    BY <1>0, <1>1, PushPlaces
<1>5. ASSUME NEW j \in Ifs, NEW k \in 1..Len(wq'[j]), wq'[j][k].s \in Sends
      PROVE  /\ op'[wq'[j][k].s].pc = "queued" /\ op'[wq'[j][k].s].ifc = j
             /\ \A l \in 1..Len(wq'[j]) : wq'[j][l].s = wq'[j][k].s => l = k
    <2>1. CASE k \in 1..Len(wq[j]) /\ wq'[j][k] = wq[j][k] /\ wq[j][k].s # s
        <3>1. op[wq[j][k].s].pc = "queued" /\ op[wq[j][k].s].ifc = j
            BY <1>5, <2>1 DEF QueuedOnce
        <3>2. \A l \in 1..Len(wq[j]) : wq[j][l].s = wq[j][k].s => l = k
            BY <1>5, <2>1 DEF QueuedOnce
        <3>. QED BY <1>2, <1>5, <2>1, <3>1, <3>2
    <2>2. CASE j = i /\ k = Len(wq[i]) + 1 /\ wq'[j][k].s = s
        BY <1>2, <2>2
    <2>. QED BY <1>2, <2>1, <2>2
<1>6. ASSUME NEW r \in Sends, op'[r].pc = "queued"
      PROVE  op'[r].ifc \in Ifs /\ \E k \in 1..Len(wq'[op'[r].ifc]) : wq'[op'[r].ifc][k].s = r
    <2>1. CASE r = s
        BY <1>4, <2>1
    <2>2. CASE r # s
        <3>1. op[r].pc = "queued" /\ op'[r].ifc = op[r].ifc
            BY <1>6, <2>2
        <3>2. PICK k \in 1..Len(wq[op[r].ifc]) : wq[op[r].ifc][k].s = r
            BY <3>1 DEF QueuedOnce
        <3>3. op[r].ifc \in Ifs
            BY <3>1 DEF QueuedOnce
        <3>. QED BY <1>3, <3>1, <3>2, <3>3
    <2>. QED BY <2>1, <2>2
<1>. QED BY <1>5, <1>6 DEF QueuedOnce

\* The fields of a send.
LEMMA OpFields ==
    ASSUME TypeOK, NEW s \in Sends
    PROVE  /\ op[s].pc \in {"idle", "wait", "queued", "lost", "sent", "unreachable"}
           /\ op[s].target \in Addrs \cup {NoAddr} /\ op[s].ifc \in Ifs \cup {NoIf}
           /\ op[s].asks \in 0..MaxAsks /\ op[s].told \in Nat
BY DEF TypeOK, Op

\* async_sendto_op without a route: the send is over at once.
LEMMA SendNoRouteInv ==
    ASSUME IInv, NEW s \in Sends, NEW a \in Targets, SendNoRoute(s, a)
    PROVE  IInv'
<1>1. op'[s] = [pc |-> "unreachable", target |-> a, ifc |-> op[s].ifc, asks |-> op[s].asks,
                told |-> op[s].told + 1]
    <2>1. op' = [op EXCEPT ![s] = [@ EXCEPT !.pc = "unreachable", !.target = a,
                                              !.told = op[s].told + 1]]
        BY DEF SendNoRoute
    <2>2. op \in [Sends -> Op]
        BY DEF IInv, TypeOK
    <2>. QED BY <2>1, <2>2 DEF Op
<1>2. /\ op[s].pc = "idle" /\ \A r \in Sends \ {s} : op'[r] = op[r]
      /\ UNCHANGED <<waiters, nextNo, trusted, pass, fault, wq>>
    BY DEF IInv, TypeOK, SendNoRoute, Begin
<1>3. \A w \in waiters : w.s \in Sends \ {s}
    BY <1>2 DEF IInv, TypeOK, WaitersMatchSends, Waiter
<1>4. TypeOK'
    <2>1. op'[s] \in Op
        BY <1>1, KernelAssumption, OpFields DEF IInv, Op
    <2>. QED BY <2>1 DEF IInv, TypeOK, SendNoRoute, Begin, netVars
<1>5. WaitersMatchSends' /\ WaitInv' /\ IdleInv'
    <2>1. WaitersMatchSends'
        BY <1>1, <1>2, <1>3 DEF IInv, WaitersMatchSends
    <2>2. WaitInv' /\ IdleInv'
        BY <1>1, <1>2 DEF IInv, WaitInv, IdleInv
    <2>. QED BY <2>1, <2>2
<1>6. NoLostWakeup' /\ NumberInv'
    BY <1>2, <1>3 DEF IInv, NoLostWakeup, NumberInv
<1>7. QueuedOnce'
    BY <1>1, <1>2 DEF IInv, QueuedOnce
<1>8. NotifiedOnce'
    BY <1>1, <1>2 DEF IInv, NotifiedOnce, IdleInv
<1>9. RoutesBacked' /\ WriterInv'
    BY DEF IInv, RoutesBacked, WriterInv, SendNoRoute, netVars
<1>. QED BY <1>4, <1>5, <1>6, <1>7, <1>8, <1>9 DEF IInv

\* async_sendto_op with a stored key: the data gets its place.
LEMMA SendKnownInv ==
    ASSUME IInv, NEW s \in Sends, NEW a \in Targets, NEW i \in Ifs, SendKnown(s, a, i)
    PROVE  IInv'
<1>1. op'[s] = [pc |-> "queued", target |-> a, ifc |-> i, asks |-> op[s].asks,
                told |-> op[s].told]
    <2>1. op' = [op EXCEPT ![s] = [@ EXCEPT !.pc = "queued", !.target = a, !.ifc = i]]
        BY DEF SendKnown
    <2>2. op \in [Sends -> Op]
        BY DEF IInv, TypeOK
    <2>. QED BY <2>1, <2>2 DEF Op
<1>2. /\ op[s].pc = "idle" /\ \A r \in Sends \ {s} : op'[r] = op[r]
      /\ UNCHANGED <<waiters, nextNo, trusted, pass, fault>>
    BY DEF IInv, TypeOK, SendKnown, Begin
<1>3. \A w \in waiters : w.s \in Sends \ {s}
    BY <1>2 DEF IInv, TypeOK, WaitersMatchSends, Waiter
<1>4. a \in Addrs /\ Data(s, a) \in Item /\ PushTo(i, Data(s, a))
    BY KernelAssumption DEF SendKnown, Data, Item, PacketTtl
<1>5. TypeOK'
    <2>1. op'[s] \in Op
        BY <1>1, <1>4, OpFields DEF IInv, Op
    <2>2. wq' \in [Ifs -> Seq(Item)]
        BY <1>4, PushType DEF IInv
    <2>. QED BY <2>1, <2>2 DEF IInv, TypeOK, SendKnown, Begin, netVars
<1>6. WaitersMatchSends' /\ WaitInv' /\ IdleInv'
    <2>1. WaitersMatchSends'
        BY <1>1, <1>2, <1>3 DEF IInv, WaitersMatchSends
    <2>2. WaitInv' /\ IdleInv'
        BY <1>1, <1>2 DEF IInv, WaitInv, IdleInv
    <2>. QED BY <2>1, <2>2
<1>7. NoLostWakeup' /\ NumberInv'
    BY <1>2, <1>3 DEF IInv, NoLostWakeup, NumberInv
<1>8. QueuedOnce'
    BY <1>1, <1>2, <1>4, PushData DEF IInv
<1>9. NotifiedOnce'
    BY <1>1, <1>2 DEF IInv, NotifiedOnce
<1>10. RoutesBacked' /\ WriterInv'
    BY <1>4, PushType DEF IInv, RoutesBacked, WriterInv, SendKnown, netVars
<1>. QED BY <1>5, <1>6, <1>7, <1>8, <1>9, <1>10 DEF IInv

\* What a new entry of the waiting list is, and one that a tick has looked at.
LEMMA NewEntry ==
    ASSUME NEW s \in Sends, NEW late \in BOOLEAN, nextNo \in Nat
    PROVE  NewWaiter(s, late) \in Waiter /\ NewWaiter(s, late).s = s
           /\ NewWaiter(s, late).no = nextNo
BY DEF NewWaiter, Waiter

LEMMA LateEntry ==
    ASSUME NEW w \in Waiter, NEW late
    PROVE  LET v == [w EXCEPT !.late = w \in late]
           IN  v \in Waiter /\ v.s = w.s /\ v.no = w.no
<1>1. (w \in late) \in BOOLEAN
    OBVIOUS
<1>2. \E l \in BOOLEAN : [w EXCEPT !.late = w \in late] = [w EXCEPT !.late = l]
    BY <1>1, Zenon
<1>3. \A l \in BOOLEAN : LET v == [w EXCEPT !.late = l]
                        IN  v \in Waiter /\ v.s = w.s /\ v.no = w.no
    BY DEF Waiter
<1>. QED BY <1>2, <1>3, Zenon

LEMMA AskEntry ==
    ASSUME NEW s \in Sends, nextNo \in Nat, NEW a, NEW i, SendAsk(s, a, i)
    PROVE  \E n \in Waiter : n.s = s /\ n.no = nextNo /\ waiters' = waiters \cup {n}
<1>1. waiters' = waiters \cup {NewWaiter(s, FALSE)}
    BY DEF SendAsk
<1>2. \E late \in BOOLEAN : waiters' = waiters \cup {NewWaiter(s, late)}
    BY <1>1, Zenon
<1>. QED BY <1>2, NewEntry

\* async_sendto_op without a stored key: the send gets its entry.
LEMMA SendAskInv ==
    ASSUME IInv, NEW s \in Sends, NEW a \in Targets, NEW i \in Ifs, SendAsk(s, a, i)
    PROVE  IInv'
<1>1. op'[s] = [pc |-> "wait", target |-> a, ifc |-> i, asks |-> 1,
                told |-> op[s].told]
    <2>1. op' = [op EXCEPT ![s] = [@ EXCEPT !.pc = "wait", !.target = a, !.ifc = i,
                                              !.asks = 1]]
        BY DEF SendAsk
    <2>2. op \in [Sends -> Op]
        BY DEF IInv, TypeOK
    <2>. QED BY <2>1, <2>2 DEF Op
<1>2. /\ op[s].pc = "idle" /\ \A r \in Sends \ {s} : op'[r] = op[r]
      /\ pass = NoPass /\ a \notin trusted
      /\ UNCHANGED <<trusted, pass, fault>>
    BY DEF IInv, TypeOK, SendAsk, Begin, IdleInv, Idle
<1>3. \A w \in waiters : w.s \in Sends \ {s} /\ w.no \in Nat /\ w.no < nextNo
    BY <1>2 DEF IInv, TypeOK, WaitersMatchSends, Waiter, NumberInv
<1>4. a \in Addrs /\ PkAsk(a) \in Item /\ PushTo(i, PkAsk(a)) /\ PkAsk(a).s = NoSend
    BY KernelAssumption DEF SendAsk, PkAsk, Item, PacketTtl
<1>5. PICK n \in Waiter : /\ n.s = s /\ n.no = nextNo /\ nextNo \in Nat
                          /\ waiters' = waiters \cup {n} /\ nextNo' = nextNo + 1
    <2>1. nextNo \in Nat /\ nextNo' = nextNo + 1
        BY DEF IInv, TypeOK, SendAsk
    <2>. QED BY <2>1, AskEntry
<1>6. TypeOK'
    <2>1. op'[s] \in Op
        BY <1>1, <1>4, OpFields DEF IInv, Op, MaxAsks
    <2>2. wq' \in [Ifs -> Seq(Item)]
        BY <1>4, PushType DEF IInv
    <2>3. op' \in [Sends -> Op]
        BY <2>1 DEF IInv, TypeOK, SendAsk
    <2>4. /\ issued' = Append(issued, s)
          /\ UNCHANGED <<netVars, trusted, recvBuf, armed, mQuitting, pass, fault, reads, wire>>
        BY Zenon DEF SendAsk, Begin
    <2>. QED BY <1>5, <2>2, <2>3, <2>4 DEF IInv, TypeOK, netVars
<1>7. WaitersMatchSends'
    <2>1. \A w \in waiters' : op'[w.s].pc = "wait"
        BY <1>1, <1>2, <1>3, <1>5 DEF IInv, WaitersMatchSends
    <2>2. \A r \in Sends : op'[r].pc = "wait" => \E w \in waiters' : w.s = r
        BY <1>1, <1>2, <1>5 DEF IInv, WaitersMatchSends
    <2>3. \A v, w \in waiters' : v.s = w.s \/ v.no = w.no => v = w
        BY <1>3, <1>5 DEF IInv, WaitersMatchSends
    <2>. QED BY <2>1, <2>2, <2>3 DEF WaitersMatchSends
<1>8. WaitInv' /\ IdleInv'
    BY <1>1, <1>2, <1>4 DEF IInv, WaitInv, IdleInv, MaxAsks
<1>9. NoLostWakeup'
    BY <1>1, <1>2, <1>3, <1>5 DEF IInv, NoLostWakeup
<1>10. NumberInv'
    BY <1>1, <1>2, <1>3, <1>5 DEF IInv, NumberInv, NoPass
<1>11. QueuedOnce'
    BY <1>1, <1>2, <1>4, PushOther DEF IInv
<1>12. NotifiedOnce'
    BY <1>1, <1>2 DEF IInv, NotifiedOnce
<1>13. RoutesBacked' /\ WriterInv'
    BY <1>4, PushType DEF IInv, RoutesBacked, WriterInv, SendAsk, netVars
<1>. QED BY <1>6, <1>7, <1>8, <1>9, <1>10, <1>11, <1>12, <1>13 DEF IInv

\* Where no queue changes and no send becomes or ceases to be queued, the
\* places stay right.
LEMMA KeepQueues ==
    ASSUME QueuedOnce, UNCHANGED wq,
           \A s \in Sends : /\ op'[s].pc = "queued" <=> op[s].pc = "queued"
                            /\ op[s].pc = "queued" => op'[s].ifc = op[s].ifc
    PROVE  QueuedOnce'
<1>1. ASSUME NEW j \in Ifs, NEW k \in 1..Len(wq[j]), wq[j][k].s \in Sends
      PROVE  /\ op'[wq[j][k].s].pc = "queued" /\ op'[wq[j][k].s].ifc = j
             /\ \A l \in 1..Len(wq[j]) : wq[j][l].s = wq[j][k].s => l = k
    BY <1>1 DEF QueuedOnce
<1>2. ASSUME NEW r \in Sends, op'[r].pc = "queued"
      PROVE  op'[r].ifc \in Ifs /\ \E k \in 1..Len(wq[op'[r].ifc]) : wq[op'[r].ifc][k].s = r
    BY <1>2 DEF QueuedOnce
<1>. QED BY <1>1, <1>2 DEF QueuedOnce

\* The send behind an entry of the waiting list.
LEMMA WaiterFacts ==
    ASSUME IInv, NEW w \in waiters
    PROVE  /\ w.s \in Sends /\ w.no \in Nat
           /\ op[w.s].pc = "wait" /\ op[w.s].target \in Addrs /\ op[w.s].ifc \in Ifs
           /\ op[w.s].asks \in 1..MaxAsks
           /\ \A v \in waiters \ {w} : v.s \in Sends \ {w.s} /\ v.no # w.no
BY DEF IInv, TypeOK, Waiter, WaitersMatchSends, WaitInv

\* A resumed send whose key is there: its entry goes, its data gets a place
\* (or is lost with the removed interface).
LEMMA ResumeSendInv ==
    ASSUME IInv, NEW w \in waiters, fault = "none", ResumeSend(w),
           UNCHANGED <<netVars, trusted, recvBuf, pass, envVars, wire>>
    PROVE  IInv'
<1> DEFINE s == w.s
           i == op[s].ifc
           a == op[s].target
<1>1. op'[s] = [pc |-> IF i \in mAvifs THEN "queued" ELSE "lost", target |-> a, ifc |-> i,
                asks |-> op[s].asks, told |-> op[s].told]
    <2>1. op' = [op EXCEPT ![w.s] = [@ EXCEPT !.pc = IF i \in mAvifs THEN "queued" ELSE "lost"]]
        BY DEF ResumeSend
    <2>2. op \in [Sends -> Op] /\ w.s \in Sends
        BY WaiterFacts DEF IInv, TypeOK
    <2>. QED BY <2>1, <2>2 DEF Op
<1>2. /\ s \in Sends /\ i \in Ifs /\ a \in Addrs /\ op[s].pc = "wait"
      /\ \A r \in Sends \ {s} : op'[r] = op[r]
      /\ waiters' = waiters \ {w} /\ UNCHANGED <<nextNo, trusted, pass>>
      /\ \A v \in waiters' : v.s \in Sends \ {s}
    BY WaiterFacts DEF IInv, TypeOK, ResumeSend
<1>3. Data(s, a) \in Item
    BY <1>2 DEF Data, Item, PacketTtl
<1>4. \/ i \in mAvifs /\ PushTo(i, Data(s, a)) /\ UNCHANGED fault
      \/ i \notin mAvifs /\ fault' \in {"none", "dangling"} /\ UNCHANGED wq
    BY DEF ResumeSend, UseInterface
<1>5. TypeOK'
    <2>1. op'[s] \in Op
        BY <1>1, <1>2, OpFields DEF IInv, Op
    <2>2. wq' \in [Ifs -> Seq(Item)] /\ fault' \in {"none", "dangling", "badkey"}
        BY <1>2, <1>3, <1>4, PushType DEF IInv, TypeOK
    <2>3. op' \in [Sends -> Op]
        BY <2>1 DEF IInv, TypeOK, ResumeSend
    <2>. QED BY <1>2, <2>2, <2>3 DEF IInv, TypeOK, netVars, envVars
<1>6. WaitersMatchSends'
    <2>1. \A v \in waiters' : op'[v.s].pc = "wait"
        BY <1>2 DEF IInv, WaitersMatchSends
    <2>2. \A r \in Sends : op'[r].pc = "wait" => \E v \in waiters' : v.s = r
        BY <1>1, <1>2 DEF IInv, WaitersMatchSends
    <2>3. \A u, v \in waiters' : u.s = v.s \/ u.no = v.no => u = v
        BY <1>2 DEF IInv, WaitersMatchSends
    <2>. QED BY <2>1, <2>2, <2>3 DEF WaitersMatchSends
<1>7. WaitInv' /\ IdleInv'
    BY <1>1, <1>2 DEF IInv, WaitInv, IdleInv
<1>8. NoLostWakeup' /\ NumberInv'
    BY <1>2 DEF IInv, NoLostWakeup, NumberInv
<1>9. QueuedOnce'
    <2>1. CASE i \in mAvifs
        BY <1>1, <1>2, <1>4, <2>1, PushData DEF IInv
    <2>2. CASE i \notin mAvifs
        BY <1>1, <1>2, <1>4, <2>2, KeepQueues DEF IInv
    <2>. QED BY <2>1, <2>2
<1>10. NotifiedOnce'
    BY <1>1, <1>2 DEF IInv, NotifiedOnce
<1>11. RoutesBacked' /\ WriterInv'
    BY <1>2, <1>3, <1>4, PushType DEF IInv, RoutesBacked, WriterInv, netVars
<1>. QED BY <1>5, <1>6, <1>7, <1>8, <1>9, <1>10, <1>11 DEF IInv

\* A resumed send that asks again: its entry is replaced by a new one.
LEMMA ResumeAskInv ==
    ASSUME IInv, NEW w \in waiters, fault = "none", ResumeAsk(w),
           UNCHANGED <<netVars, trusted, recvBuf, pass, envVars, wire>>
    PROVE  IInv'
<1> DEFINE s == w.s
           i == op[s].ifc
           a == op[s].target
<1>1. op'[s] = [pc |-> op[s].pc, target |-> a, ifc |-> i, asks |-> op[s].asks + 1,
                told |-> op[s].told]
    <2>1. op \in [Sends -> Op] /\ w.s \in Sends
        BY WaiterFacts DEF IInv, TypeOK
    <2>2. op' = [op EXCEPT ![w.s] = [op[w.s] EXCEPT !.asks = op[w.s].asks + 1]]
        BY DEF ResumeAsk
    <2>3. op'[w.s] = [op[w.s] EXCEPT !.asks = op[w.s].asks + 1] /\ op[w.s] \in Op
        BY <2>1, <2>2
    <2>. QED BY <2>3 DEF Op
<1>2. /\ s \in Sends /\ i \in Ifs /\ a \in Addrs \ trusted /\ op[s].pc = "wait"
      /\ op[s].asks \in 1..(MaxAsks - 1)
      /\ \A r \in Sends \ {s} : op'[r] = op[r]
      /\ UNCHANGED <<trusted, pass>>
    BY WaiterFacts, OpFields DEF IInv, TypeOK, ResumeAsk, MaxAsks
<1>3. PkAsk(a) \in Item /\ PkAsk(a).s = NoSend
    BY <1>2 DEF PkAsk, Item, PacketTtl
<1>4. \/ i \in mAvifs /\ PushTo(i, PkAsk(a)) /\ UNCHANGED fault
      \/ i \notin mAvifs /\ fault' \in {"none", "dangling"} /\ UNCHANGED wq
    BY DEF ResumeAsk, UseInterface
<1>5. PICK n \in Waiter : /\ n.s = s /\ n.no = nextNo /\ nextNo \in Nat
                          /\ waiters' = (waiters \ {w}) \cup {n} /\ nextNo' = nextNo + 1
    <2>1. /\ nextNo \in Nat /\ nextNo' = nextNo + 1
          /\ \E late \in BOOLEAN : waiters' = (waiters \ {w}) \cup {NewWaiter(s, late)}
        BY DEF IInv, TypeOK, ResumeAsk
    <2>. QED BY <1>2, <2>1, NewEntry
<1>6. \A v \in waiters \ {w} : v.s \in Sends \ {s} /\ v.no \in Nat /\ v.no < nextNo
    BY WaiterFacts DEF IInv, TypeOK, Waiter, NumberInv
<1>7. TypeOK'
    <2>1. op'[s] \in Op
        BY <1>1, <1>2, OpFields DEF IInv, Op, MaxAsks
    <2>2. wq' \in [Ifs -> Seq(Item)] /\ fault' \in {"none", "dangling", "badkey"}
        BY <1>2, <1>3, <1>4, PushType DEF IInv, TypeOK
    <2>3. op' \in [Sends -> Op]
        BY <2>1 DEF IInv, TypeOK, ResumeAsk
    <2>. QED BY <1>5, <2>2, <2>3 DEF IInv, TypeOK, netVars, envVars
<1>8. WaitersMatchSends'
    <2>1. \A v \in waiters' : op'[v.s].pc = "wait"
        BY <1>1, <1>2, <1>5, <1>6 DEF IInv, WaitersMatchSends
    <2>2. \A r \in Sends : op'[r].pc = "wait" => \E v \in waiters' : v.s = r
        BY <1>1, <1>2, <1>5 DEF IInv, WaitersMatchSends
    <2>3. \A u, v \in waiters' : u.s = v.s \/ u.no = v.no => u = v
        BY <1>5, <1>6 DEF IInv, WaitersMatchSends
    <2>. QED BY <2>1, <2>2, <2>3 DEF WaitersMatchSends
<1>9. WaitInv' /\ IdleInv'
    BY <1>1, <1>2 DEF IInv, WaitInv, IdleInv, MaxAsks
<1>10. NoLostWakeup'
    BY <1>1, <1>2, <1>5, <1>6 DEF IInv, NoLostWakeup
<1>11. NumberInv'
    BY <1>2, <1>5, <1>6 DEF IInv, NumberInv
<1>12. QueuedOnce'
    <2>1. CASE i \in mAvifs
        BY <1>1, <1>2, <1>3, <1>4, <2>1, PushOther DEF IInv
    <2>2. CASE i \notin mAvifs
        BY <1>1, <1>2, <1>4, <2>2, KeepQueues DEF IInv
    <2>. QED BY <2>1, <2>2
<1>13. NotifiedOnce'
    BY <1>1, <1>2 DEF IInv, NotifiedOnce
<1>14. RoutesBacked' /\ WriterInv'
    BY <1>2, <1>3, <1>4, PushType DEF IInv, RoutesBacked, WriterInv, netVars
<1>. QED BY <1>7, <1>8, <1>9, <1>10, <1>11, <1>12, <1>13, <1>14 DEF IInv

\* A resumed send that gives up: its entry goes.
LEMMA ResumeGiveUpInv ==
    ASSUME IInv, NEW w \in waiters, ResumeGiveUp(w),
           UNCHANGED <<netVars, trusted, recvBuf, pass, envVars, wire>>
    PROVE  IInv'
<1> DEFINE s == w.s
<1>1. op'[s] = [pc |-> "unreachable", target |-> op[s].target, ifc |-> op[s].ifc,
                asks |-> op[s].asks, told |-> op[s].told + 1]
    <2>1. op \in [Sends -> Op] /\ w.s \in Sends
        BY WaiterFacts DEF IInv, TypeOK
    <2>2. op' = [op EXCEPT ![w.s] = [op[w.s] EXCEPT !.pc = "unreachable", !.told = op[w.s].told + 1]]
        BY DEF ResumeGiveUp
    <2>3. op'[w.s] = [op[w.s] EXCEPT !.pc = "unreachable", !.told = op[w.s].told + 1] /\ op[w.s] \in Op
        BY <2>1, <2>2
    <2>. QED BY <2>3 DEF Op
<1>2. /\ s \in Sends /\ op[s].pc = "wait" /\ op[s].asks = MaxAsks
      /\ \A r \in Sends \ {s} : op'[r] = op[r]
      /\ waiters' = waiters \ {w} /\ UNCHANGED <<nextNo, trusted, pass, fault, wq>>
      /\ \A v \in waiters' : v.s \in Sends \ {s}
    BY WaiterFacts DEF IInv, TypeOK, ResumeGiveUp
<1>3. TypeOK'
    <2>1. op'[s] \in Op
        BY <1>1, <1>2, OpFields DEF IInv, Op
    <2>2. op' \in [Sends -> Op]
        BY <2>1 DEF IInv, TypeOK, ResumeGiveUp
    <2>. QED BY <1>2, <2>2 DEF IInv, TypeOK, netVars, envVars
<1>4. WaitersMatchSends'
    <2>1. \A v \in waiters' : op'[v.s].pc = "wait"
        BY <1>2 DEF IInv, WaitersMatchSends
    <2>2. \A r \in Sends : op'[r].pc = "wait" => \E v \in waiters' : v.s = r
        BY <1>1, <1>2 DEF IInv, WaitersMatchSends
    <2>3. \A u, v \in waiters' : u.s = v.s \/ u.no = v.no => u = v
        BY <1>2 DEF IInv, WaitersMatchSends
    <2>. QED BY <2>1, <2>2, <2>3 DEF WaitersMatchSends
<1>5. WaitInv' /\ IdleInv'
    BY <1>1, <1>2 DEF IInv, WaitInv, IdleInv
<1>6. NoLostWakeup' /\ NumberInv'
    BY <1>2 DEF IInv, NoLostWakeup, NumberInv
<1>7. QueuedOnce'
    BY <1>1, <1>2 DEF IInv, QueuedOnce
<1>8. NotifiedOnce'
    BY <1>1, <1>2 DEF IInv, NotifiedOnce
<1>9. RoutesBacked' /\ WriterInv'
    BY <1>2 DEF IInv, RoutesBacked, WriterInv, netVars
<1>. QED BY <1>3, <1>4, <1>5, <1>6, <1>7, <1>8, <1>9 DEF IInv

\* process_recived_packet, whatever the packet: a key may be stored for its
\* source, and the pass that follows is for the sends that wait for that one.
LEMMA ReceiveInv ==
    ASSUME IInv, NEW i \in Ifs, NEW p \in Packets, Receive(i, p),
           trusted' \subseteq trusted \cup {p.src},
           \/ UNCHANGED wq
           \/ \E j \in Ifs, item \in Item : PushTo(j, item) /\ item.s = NoSend,
           recvBuf' \in Seq(Addrs),
           fault' \in {"none", "badkey"}
    PROVE  IInv'
<1>1. /\ p.src \in Addrs /\ pass = NoPass /\ fault = "none"
      /\ pass' = [kind |-> "packet", src |-> p.src]
      /\ UNCHANGED <<mAvifs, mRoutes, writer, quitting, waiters, nextNo, op>>
    BY KernelAssumption DEF Receive, Idle, netVars, waitVars
<1>2. wq' \in [Ifs -> Seq(Item)] /\ \A j \in Ifs : wq[j] # <<>> => wq'[j] # <<>>
    BY PushType DEF IInv, TypeOK
<1>3. TypeOK'
    BY <1>1, <1>2, KernelAssumption DEF IInv, TypeOK, Pass, Receive
<1>4. NoLostWakeup'
    BY <1>1 DEF IInv, NoLostWakeup, NoPass
<1>5. NumberInv'
    BY <1>1 DEF IInv, NumberInv, NoPass
<1>6. QueuedOnce'
    BY <1>1, PushOther, KeepQueues DEF IInv
<1>7. RoutesBacked' /\ WriterInv'
    BY <1>1, <1>2 DEF IInv, RoutesBacked, WriterInv
<1>8. WaitersMatchSends' /\ WaitInv' /\ IdleInv' /\ NotifiedOnce'
    BY <1>1 DEF IInv, WaitersMatchSends, WaitInv, IdleInv, NotifiedOnce
<1>. QED BY <1>3, <1>4, <1>5, <1>6, <1>7, <1>8 DEF IInv

\* The fields of a packet, and of the packets made from it.
LEMMA PacketFacts ==
    ASSUME NEW p \in Packets
    PROVE  /\ p.src \in Addrs /\ p.dest \in Addrs /\ p.ttl \in Nat
           /\ PkReply(p.src) \in Item /\ PkReply(p.src).s = NoSend
           /\ p.ttl > 1 => Forwarded(p) \in Item
           /\ Forwarded(p).s = NoSend
<1>1. /\ p.src \in Addrs /\ p.dest \in Addrs /\ p.ttl \in Nat
      /\ p.proto \in {"pkask", "pkreply", "avim", "other"}
    BY KernelAssumption
<1>. QED BY <1>1 DEF PkReply, Forwarded, Item, PacketTtl

\* Every kind of packet.
LEMMA RecvInv ==
    ASSUME IInv, NEW i \in Ifs, NEW p \in Packets,
           \/ RecvAsk(i, p)
           \/ RecvReply(i, p)
           \/ RecvData(i, p)
           \/ \E out \in Ifs : Forward(i, p, out)
           \/ Drop(i, p)
    PROVE  IInv'
<1>1. recvBuf \in Seq(Addrs) /\ p.src \in Addrs
    BY PacketFacts DEF IInv, TypeOK
<1>2. ASSUME Receive(i, p) PROVE fault = "none"
    BY <1>2 DEF Receive, Idle
<1>3. CASE RecvAsk(i, p)
    BY <1>1, <1>2, <1>3, PacketFacts, ReceiveInv DEF RecvAsk, Learn
<1>4. CASE RecvReply(i, p)
    BY <1>1, <1>2, <1>4, ReceiveInv DEF RecvReply
<1>5. CASE RecvData(i, p)
    BY <1>1, <1>2, <1>5, ReceiveInv DEF RecvData, Learn
<1>6. CASE \E out \in Ifs : Forward(i, p, out)
    BY <1>1, <1>2, <1>6, PacketFacts, ReceiveInv DEF Forward, Learn
<1>7. CASE Drop(i, p)
    BY <1>1, <1>2, <1>7, ReceiveInv DEF Drop, Learn
<1>. QED BY <1>3, <1>4, <1>5, <1>6, <1>7

\* timer1_tick: entries become late, and no send changes.
LEMMA TickInv ==
    ASSUME IInv, NEW late \in SUBSET waiters, Tick(late)
    PROVE  IInv'
<1> DEFINE next(w) == [w EXCEPT !.late = w \in late]
<1>1. /\ pass = NoPass /\ pass' = [kind |-> "tick", src |-> NoAddr]
      /\ waiters' = {next(w) : w \in waiters}
      /\ UNCHANGED <<mAvifs, mRoutes, writer, quitting, trusted, nextNo, op, wq, fault>>
    BY DEF Tick, Idle, netVars
<1>2. ASSUME NEW w \in waiters
      PROVE  next(w) \in Waiter /\ next(w).s = w.s /\ next(w).no = w.no
    <2>1. w \in Waiter
        BY DEF IInv, TypeOK
    <2>. QED BY <2>1, LateEntry
<1>. HIDE DEF next
<1>3. TypeOK'
    <2>1. pass' \in Pass
        BY <1>1 DEF Pass
    <2>2. waiters' \subseteq Waiter
        BY <1>1, <1>2
    <2>. QED BY <2>1, <2>2 DEF IInv, TypeOK, Tick, Rearm, netVars
<1>4. WaitersMatchSends'
    <2>1. \A v \in waiters' : op'[v.s].pc = "wait"
        BY <1>1, <1>2 DEF IInv, WaitersMatchSends
    <2>2. \A r \in Sends : op'[r].pc = "wait" => \E v \in waiters' : v.s = r
        BY <1>1, <1>2 DEF IInv, WaitersMatchSends
    <2>3. \A u, v \in waiters' : u.s = v.s \/ u.no = v.no => u = v
        BY <1>1, <1>2 DEF IInv, WaitersMatchSends
    <2>. QED BY <2>1, <2>2, <2>3 DEF WaitersMatchSends
<1>5. NoLostWakeup'
    <2>1. fault = "none" => \A w \in waiters : op[w.s].target \notin trusted
        BY <1>1 DEF IInv, NoLostWakeup, NoPass
    <2>. QED BY <1>1, <1>2, <2>1 DEF NoLostWakeup
<1>6. NumberInv'
    BY <1>1, <1>2 DEF IInv, NumberInv
<1>7. WaitInv' /\ IdleInv' /\ QueuedOnce' /\ NotifiedOnce' /\ RoutesBacked' /\ WriterInv'
    BY <1>1 DEF IInv, WaitInv, IdleInv, QueuedOnce, NotifiedOnce, RoutesBacked, WriterInv
<1>. QED BY <1>3, <1>4, <1>5, <1>6, <1>7 DEF IInv

\* The writer is done with the head of its queue: if that was a send's, the
\* send is over, and nothing else of it is queued.
LEMMA WriteDoneInv ==
    ASSUME IInv, NEW i \in Ifs, NEW ok \in BOOLEAN, WriteDone(i, ok)
    PROVE  IInv'
<1> DEFINE s == Head(wq[i]).s
<1>1. /\ wq[i] \in Seq(Item) /\ wq[i] # <<>> /\ Len(wq[i]) \in Nat \ {0}
      /\ Head(wq[i]) = wq[i][1] /\ s \in Sends \cup {NoSend}
    <2>1. wq[i] \in Seq(Item) /\ wq[i] # <<>>
        BY DEF IInv, TypeOK, WriterInv, WriteDone
    <2>2. Len(wq[i]) \in Nat \ {0} /\ Head(wq[i]) = wq[i][1]
        BY <2>1
    <2>3. wq[i][1] \in Item
        BY <2>1, <2>2
    <2>. QED BY <2>1, <2>2, <2>3 DEF Item
<1>2. /\ wq' \in [Ifs -> Seq(Item)]
      /\ \A j \in Ifs \ {i} : wq'[j] = wq[j]
      /\ Len(wq'[i]) = Len(wq[i]) - 1
      /\ \A k \in 1..Len(wq'[i]) : wq'[i][k] = wq[i][k + 1]
    BY <1>1 DEF IInv, TypeOK, WriteDone
<1>3. /\ UNCHANGED <<mAvifs, mRoutes, quitting, trusted, waiters, nextNo, pass, fault>>
      /\ writer' = [writer EXCEPT ![i] = IF quitting[i] THEN "exit" ELSE "pop"]
    BY DEF WriteDone
<1>4. s \in Sends =>
        /\ op[s].pc = "queued" /\ op[s].ifc = i /\ op[s].told = 0
        /\ op'[s].pc = "sent" /\ op'[s].told = 1 /\ op'[s] \in Op
    <2> SUFFICES ASSUME s \in Sends
                 PROVE  /\ op[s].pc = "queued" /\ op[s].ifc = i /\ op[s].told = 0
                        /\ op'[s].pc = "sent" /\ op'[s].told = 1 /\ op'[s] \in Op
        OBVIOUS
    <2>1. op[s].pc = "queued" /\ op[s].ifc = i
        BY <1>1 DEF IInv, QueuedOnce
    <2>2. op[s].told = 0
        BY <2>1 DEF IInv, NotifiedOnce
    <2>3. op' = [op EXCEPT ![s] = [op[s] EXCEPT !.pc = "sent", !.told = op[s].told + 1]]
        BY DEF WriteDone
    <2>4. op \in [Sends -> Op]
        BY DEF IInv, TypeOK
    <2>5. op'[s] = [pc |-> "sent", target |-> op[s].target, ifc |-> op[s].ifc,
                    asks |-> op[s].asks, told |-> op[s].told + 1]
        BY <2>3, <2>4 DEF Op
    <2>6. op'[s] \in Op
        BY <2>5, OpFields DEF IInv, Op
    <2>. QED BY <2>1, <2>2, <2>5, <2>6
<1>5. /\ op' \in [Sends -> Op]
      /\ \A r \in Sends \ {s} : op'[r] = op[r]
    <2>1. CASE s \in Sends
        <3>1. op' = [op EXCEPT ![s] = [op[s] EXCEPT !.pc = "sent", !.told = op[s].told + 1]]
            BY <2>1 DEF WriteDone
        <3>. QED BY <1>4, <2>1, <3>1 DEF IInv, TypeOK
    <2>2. CASE s \notin Sends
        BY <2>2 DEF IInv, TypeOK, WriteDone
    <2>. QED BY <2>1, <2>2
<1>6. wire' \in [Ifs -> Seq(Sends)]
    <2>1. wire \in [Ifs -> Seq(Sends)]
        BY DEF IInv, TypeOK
    <2>2. s \in Sends => wire' = IF ok THEN [wire EXCEPT ![i] = Append(@, s)] ELSE wire
        BY DEF WriteDone
    <2>3. s \notin Sends => wire' = wire
        BY DEF WriteDone
    <2>4. s \in Sends => [wire EXCEPT ![i] = Append(@, s)] \in [Ifs -> Seq(Sends)]
        BY <2>1
    <2>. QED BY <2>1, <2>2, <2>3, <2>4, Zenon
<1>. HIDE DEF s
<1>7. TypeOK'
    BY <1>2, <1>3, <1>5, <1>6 DEF IInv, TypeOK, WriteDone, envVars
<1>8. RoutesBacked' /\ WriterInv'
    BY <1>2, <1>3 DEF IInv, TypeOK, RoutesBacked, WriterInv
<1>9. \A w \in waiters : w.s \in Sends \ {s}
    BY <1>4, WaiterFacts
<1>10. WaitersMatchSends'
    <2>1. \A v \in waiters' : op'[v.s].pc = "wait"
        BY <1>3, <1>5, <1>9 DEF IInv, WaitersMatchSends
    <2>2. \A r \in Sends : op'[r].pc = "wait" => \E v \in waiters' : v.s = r
        BY <1>3, <1>4, <1>5 DEF IInv, WaitersMatchSends
    <2>. QED BY <1>3, <2>1, <2>2 DEF IInv, WaitersMatchSends
<1>11. WaitInv' /\ IdleInv'
    BY <1>4, <1>5 DEF IInv, WaitInv, IdleInv
<1>12. NoLostWakeup' /\ NumberInv'
    BY <1>3, <1>5, <1>9 DEF IInv, NoLostWakeup, NumberInv
<1>13. NotifiedOnce'
    BY <1>4, <1>5 DEF IInv, NotifiedOnce
<1>14. QueuedOnce'
    <2> DEFINE shift(j) == IF j = i THEN 1 ELSE 0
    <2>1. ASSUME NEW j \in Ifs, NEW k \in 1..Len(wq'[j])
          PROVE  k + shift(j) \in 1..Len(wq[j]) /\ wq'[j][k] = wq[j][k + shift(j)]
        <3>1. Len(wq[j]) \in Nat
            BY DEF IInv, TypeOK
        <3>. QED BY <1>1, <1>2, <2>1, <3>1
    <2>2. ASSUME NEW j \in Ifs, NEW k \in 1..Len(wq'[j]), wq'[j][k].s \in Sends
          PROVE  /\ op'[wq'[j][k].s].pc = "queued" /\ op'[wq'[j][k].s].ifc = j
                 /\ \A l \in 1..Len(wq'[j]) : wq'[j][l].s = wq'[j][k].s => l = k
        <3>1. /\ op[wq'[j][k].s].pc = "queued" /\ op[wq'[j][k].s].ifc = j
              /\ \A l \in 1..Len(wq[j]) : wq[j][l].s = wq'[j][k].s => l = k + shift(j)
            BY <2>1, <2>2 DEF IInv, QueuedOnce
        <3>2. wq'[j][k].s # s
            <4>1. CASE j # i
                BY <1>4, <2>2, <3>1, <4>1
            <4>2. CASE j = i
                BY <1>1, <3>1, <4>2 DEF s
            <4>. QED BY <4>1, <4>2
        <3>3. op'[wq'[j][k].s] = op[wq'[j][k].s]
            BY <1>5, <2>2, <3>2
        <3>4. \A l \in 1..Len(wq'[j]) : wq'[j][l].s = wq'[j][k].s => l = k
            BY <2>1, <3>1
        <3>. QED BY <3>1, <3>3, <3>4
    <2>3. ASSUME NEW r \in Sends, op'[r].pc = "queued"
          PROVE  op'[r].ifc \in Ifs /\ \E k \in 1..Len(wq'[op'[r].ifc]) : wq'[op'[r].ifc][k].s = r
        <3>1. r # s /\ op'[r] = op[r]
            BY <1>4, <1>5, <2>3
        <3>2. PICK k \in 1..Len(wq[op[r].ifc]) : wq[op[r].ifc][k].s = r
            BY <2>3, <3>1 DEF IInv, QueuedOnce
        <3>3. op[r].ifc \in Ifs
            BY <2>3, <3>1 DEF IInv, QueuedOnce
        <3>4. CASE op[r].ifc # i
            BY <1>2, <3>1, <3>2, <3>3, <3>4
        <3>5. CASE op[r].ifc = i
            <4>1. k # 1
                BY <1>1, <3>1, <3>2, <3>5 DEF s
            <4>2. k - 1 \in 1..Len(wq'[i]) /\ wq'[i][k - 1].s = r
                BY <1>1, <1>2, <3>2, <3>5, <4>1
            <4>. QED BY <3>1, <3>5, <4>2
        <3>. QED BY <3>4, <3>5
    <2>. QED BY <2>2, <2>3 DEF QueuedOnce
<1>. QED BY <1>7, <1>8, <1>10, <1>11, <1>12, <1>13, <1>14 DEF IInv

\* One coroutine resumed by a pass.
LEMMA PassInv ==
    ASSUME IInv, NEW w \in waiters, WakeWaiter(w) \/ ExpireWaiter(w)
    PROVE  IInv'
<1>1. /\ fault = "none" /\ UNCHANGED <<netVars, trusted, recvBuf, pass, envVars, wire>>
      /\ ResumeSend(w) \/ ResumeAsk(w) \/ ResumeGiveUp(w)
    BY DEF WakeWaiter, ExpireWaiter, Resume
<1>. QED BY <1>1, ResumeSendInv, ResumeAskInv, ResumeGiveUpInv

\* The initial state.
LEMMA InitInv == Init => IInv
<1> SUFFICES ASSUME Init PROVE IInv
    OBVIOUS
<1>1. TypeOK
    <2>1. \A s \in Sends : op[s] \in Op
        BY DEF Init, Op, MaxAsks
    <2>2. pass \in Pass
        BY DEF Init, Pass, NoPass
    <2>3. reads \in 0..MaxReads
        BY KernelAssumption DEF Init
    <2>4. op \in [Sends -> Op]
        BY <2>1 DEF Init
    <2>5. wq \in [Ifs -> Seq(Item)] /\ wire \in [Ifs -> Seq(Sends)]
        BY DEF Init
    <2>6. recvBuf \in Seq(Addrs) /\ issued \in Seq(Sends)
        BY DEF Init
    <2>. QED BY <2>2, <2>3, <2>4, <2>5, <2>6 DEF Init, TypeOK
<1>2. RoutesBacked /\ WriterInv /\ QueuedOnce
    BY DEF Init, RoutesBacked, WriterInv, QueuedOnce
<1>3. WaitersMatchSends /\ WaitInv /\ NoLostWakeup /\ NumberInv /\ IdleInv
    BY DEF Init, WaitersMatchSends, WaitInv, NoLostWakeup, NumberInv, IdleInv
<1>4. NotifiedOnce
    BY DEF Init, NotifiedOnce
<1>. QED BY <1>1, <1>2, <1>3, <1>4 DEF IInv

\* Every step of the node.
LEMMA NextInv == IInv /\ [Next]_vars => IInv'
<1> SUFFICES ASSUME IInv, [Next]_vars PROVE IInv'
    OBVIOUS
<1>1. ASSUME NEW i \in Ifs, AddInterface(i) \/ ReadFail(i) PROVE IInv'
    BY <1>1, AddInterfaceInv, ReadFailInv
<1>2. ASSUME NEW i \in Ifs, WriterStep(i) PROVE IInv'
    BY <1>2, WriterStartInv, WriterBreakInv, WriteDoneInv DEF WriterStep
<1>3. ASSUME NEW r \in RouteItems, AddRoute(r) PROVE IInv'
    BY <1>3, AddRouteInv
<1>4. CASE StartSend
    BY <1>4, SendNoRouteInv, SendKnownInv, SendAskInv DEF StartSend
<1>5. CASE Receives
    BY <1>5, RecvInv DEF Receives
<1>6. CASE RecvFrom
    BY <1>6, RecvFromInv
<1>7. CASE PassStep
    BY <1>7, PassInv, EndPassInv DEF PassStep
<1>8. ASSUME NEW late \in SUBSET waiters, Tick(late) PROVE IInv'
    BY <1>8, TickInv
<1>9. ASSUME NEW gone \in SUBSET trusted, PurgeTick(gone) PROVE IInv'
    BY <1>9, PurgeTickInv
<1>10. CASE Destroy
    BY <1>10, DestroyInv
<1>11. CASE UNCHANGED vars
    BY <1>11 DEF vars, IInv, TypeOK, RoutesBacked, WriterInv, WaitersMatchSends, WaitInv,
                 NoLostWakeup, NumberInv, IdleInv, QueuedOnce, NotifiedOnce
<1>. QED BY <1>1, <1>2, <1>3, <1>4, <1>5, <1>6, <1>7, <1>8, <1>9, <1>10, <1>11 DEF Next

-----------------------------------------------------------------------------
(***************************************************************************)
(* The theorems.                                                           *)
(***************************************************************************)

\* The inductive invariant holds in every state of every node.
THEOREM Invariance == Spec => []IInv
BY InitInv, NextInv, PTL DEF Spec

\* Every variable of avkernel_impl keeps its type.
THEOREM TypeCorrect == Spec => []TypeOK
<1>1. IInv => TypeOK
    BY DEF IInv
<1>. QED BY <1>1, Invariance, PTL

\* m_avifs.at in select_route never throws, whatever interfaces come and go.
THEOREM RoutesStayBacked == Spec => []RoutesBacked
<1>1. IInv => RoutesBacked
    BY DEF IInv
<1>. QED BY <1>1, Invariance, PTL

\* No send waits for a key that process_recived_packet has already stored.
THEOREM NoWakeupLost == Spec => []NoLostWakeup
<1>1. IInv => NoLostWakeup
    BY DEF IInv
<1>. QED BY <1>1, Invariance, PTL

\* The waiting list and the suspended sends agree, through asks, answers and
\* timeouts.
THEOREM WaitingListExact == Spec => []WaitersMatchSends
<1>1. IInv => WaitersMatchSends
    BY DEF IInv
<1>. QED BY <1>1, Invariance, PTL

\* The data of a send has exactly one place in the write queues while it waits
\* to be written, and none before or after.
THEOREM OnePlacePerSend == Spec => []QueuedOnce
<1>1. IInv => QueuedOnce
    BY DEF IInv
<1>. QED BY <1>1, Invariance, PTL

\* The handler of async_sendto is never called twice.
THEOREM OneNotification == Spec => []NotifiedOnce
<1>1. IInv => NotifiedOnce
    BY DEF IInv
<1>. QED BY <1>1, Invariance, PTL

\* While the key of a waiting send is stored, the node makes the pass that
\* resumes the send, and nothing else.
LEMMA AnswerStep ==
    ASSUME IInv, [Next]_vars, NEW s \in Sends, op[s].pc = "wait", op[s].target \in trusted
    PROVE  \/ op'[s] = op[s] /\ op[s].target \in trusted'
           \/ op'[s].pc \in {"queued", "lost"}
<1>1. PICK v \in waiters : v.s = s
    BY DEF IInv, WaitersMatchSends
<1>2. fault = "none" => pass = [kind |-> "packet", src |-> op[s].target]
    BY <1>1 DEF IInv, NoLostWakeup
<1>3. ~ Idle
    BY <1>2 DEF Idle, NoPass
<1>4. fault = "none" => v \in Answered /\ pass.kind = "packet"
    BY <1>1, <1>2 DEF Answered
<1>5. CASE UNCHANGED vars
    BY <1>5 DEF vars
<1>6. ASSUME NEW w \in waiters, WakeWaiter(w) \/ ExpireWaiter(w)
      PROVE  \/ op'[s] = op[s] /\ op[s].target \in trusted'
             \/ op'[s].pc \in {"queued", "lost"}
    <2>1. WakeWaiter(w)
        BY <1>4, <1>6 DEF ExpireWaiter
    <2>2. op[w.s].target \in trusted
        BY <2>1 DEF WakeWaiter, IsFirst, Answered
    <2>3. ResumeSend(w) /\ UNCHANGED trusted
        BY <2>1, <2>2 DEF WakeWaiter, Resume, ResumeAsk, ResumeGiveUp
    <2>4. op' = [op EXCEPT ![w.s] =
                   [@ EXCEPT !.pc = IF op[w.s].ifc \in mAvifs THEN "queued" ELSE "lost"]]
        BY <2>3 DEF ResumeSend
    <2>5. op \in [Sends -> Op] /\ w.s \in Sends
        BY WaiterFacts DEF IInv, TypeOK
    <2>6. CASE w.s = s
        BY <2>4, <2>5, <2>6 DEF Op
    <2>7. CASE w.s # s
        BY <2>3, <2>4, <2>5, <2>7
    <2>. QED BY <2>6, <2>7
<1>7. ~ EndPass
    BY <1>4 DEF EndPass
<1>8. ~ (\E i \in Ifs : AddInterface(i) \/ ReadFail(i) \/ WriterStep(i))
    BY <1>3 DEF AddInterface, ReadFail, WriterStep, WriterStart, WriterBreak, WriteDone
<1>9. ~ (\E r \in RouteItems : AddRoute(r)) /\ ~ StartSend /\ ~ RecvFrom /\ ~ Destroy
    BY <1>3 DEF AddRoute, StartSend, SendNoRoute, SendKnown, SendAsk, Begin, RecvFrom, Destroy
<1>10. ~ Receives
    BY <1>3 DEF Receives, RecvAsk, RecvReply, RecvData, Forward, Drop, Receive
<1>11. /\ ~ (\E late \in SUBSET waiters : Tick(late))
       /\ ~ (\E gone \in SUBSET trusted : PurgeTick(gone))
    BY <1>3 DEF Tick, PurgeTick
<1>. QED BY <1>5, <1>6, <1>7, <1>8, <1>9, <1>10, <1>11 DEF Next, PassStep

\* A send whose key has come uses it: no expiry, purge or give-up of any send
\* comes between the answer and the data.
THEOREM AnswersCount == Spec => AnswerCounts
<1>1. ASSUME IInv, [Next]_vars
      PROVE  [\A s \in Sends : op[s].pc = "wait" /\ op[s].target \in trusted =>
                \/ op'[s] = op[s] /\ op[s].target \in trusted'
                \/ op'[s].pc \in {"queued", "lost"}]_vars
    BY <1>1, AnswerStep
<1>. QED BY <1>1, Invariance, PTL DEF Spec, AnswerCounts

\* Every step of the node is, for interfaces and routes, a step of Routing or
\* changes neither.
LEMMA RoutingStep == IInv /\ [Next]_vars => [Table!Next]_<<mAvifs, mRoutes>>
<1> SUFFICES ASSUME IInv, [Next]_vars PROVE [Table!Next]_<<mAvifs, mRoutes>>
    OBVIOUS
<1>1. mAvifs \subseteq Ifs /\ mRoutes \subseteq RouteItems
    BY DEF IInv, TypeOK
<1>2. ASSUME NEW i \in Ifs, AddInterface(i) PROVE Table!Add
    BY <1>1, <1>2 DEF AddInterface, Table!Add
<1>3. ASSUME NEW r \in RouteItems, AddRoute(r) PROVE Table!Add
    BY <1>1, <1>3 DEF AddRoute, Table!Add
<1>4. ASSUME NEW i \in Ifs, ReadFail(i) PROVE Table!Remove
    BY <1>4 DEF ReadFail, RemoveInterface, Table!Remove
<1>5. ASSUME NEW i \in Ifs, WriterStep(i) PROVE UNCHANGED <<mAvifs, mRoutes>>
    BY <1>5 DEF WriterStep, WriterStart, WriterBreak, WriteDone
<1>6. CASE StartSend
    BY <1>6 DEF StartSend, SendNoRoute, SendKnown, SendAsk, netVars
<1>7. CASE Receives
    BY <1>7 DEF Receives, RecvAsk, RecvReply, RecvData, Forward, Drop, Receive, netVars
<1>8. CASE RecvFrom \/ PassStep \/ (\E late \in SUBSET waiters : Tick(late)) \/ Destroy
    BY <1>8 DEF RecvFrom, PassStep, WakeWaiter, ExpireWaiter, Resume, EndPass, Tick, Destroy,
                netVars
<1>9. ASSUME NEW gone \in SUBSET trusted, PurgeTick(gone) PROVE UNCHANGED <<mAvifs, mRoutes>>
    BY <1>9 DEF PurgeTick, netVars
<1>10. CASE UNCHANGED vars
    BY <1>10 DEF vars
<1>. QED BY <1>2, <1>3, <1>4, <1>5, <1>6, <1>7, <1>8, <1>9, <1>10 DEF Next, Table!Next

\* The node keeps the promise of Routing: no route outlives its interface, and
\* no interface takes another one's routes with it.
THEOREM KernelImplementsRouting == Spec => ImplementsRouting
<1>1. Init => Table!Init
    BY DEF Init, Table!Init
<1>. QED BY <1>1, RoutingStep, Invariance, PTL DEF Spec, ImplementsRouting, Table!Spec,
            Table!routingVars

-----------------------------------------------------------------------------
(***************************************************************************)
(* The order of the data of one target, and that it goes out once.  Two    *)
(* sends are compared while neither has asked twice.                       *)
(***************************************************************************)
Earlier(s, r) == \E j, k \in 1..Len(issued) : j < k /\ issued[j] = s /\ issued[k] = r
Peers(s, r) == op[s].target = op[r].target /\ op[s].asks <= 1 /\ op[r].asks <= 1

\* A send that has started is in the history of those that did.
IssuedInv == \A s \in Sends : op[s].pc # "idle" => \E k \in 1..Len(issued) : issued[k] = s

\* What is on the wire was sent, and is there once.
WireInv == \A i \in Ifs : \A k \in 1..Len(wire[i]) : op[wire[i][k]].pc = "sent"
WrittenInv ==
    \A i, j \in Ifs : \A k \in 1..Len(wire[i]), m \in 1..Len(wire[j]) :
        wire[i][k] = wire[j][m] => i = j /\ k = m

\* The wire, then the write queue, then the waiting list: on each of them, and
\* from one to the next, peers come in the order they started.
WireOrder ==
    \A i \in Ifs : \A j, k \in 1..Len(wire[i]) :
        j < k /\ Peers(wire[i][j], wire[i][k]) => Earlier(wire[i][j], wire[i][k])
WireQueueOrder ==
    \A i \in Ifs : \A j \in 1..Len(wire[i]), k \in 1..Len(wq[i]) :
        wq[i][k].s \in Sends /\ Peers(wire[i][j], wq[i][k].s)
          => Earlier(wire[i][j], wq[i][k].s)
QueueOrder ==
    \A i \in Ifs : \A j, k \in 1..Len(wq[i]) :
        j < k /\ wq[i][j].s \in Sends /\ wq[i][k].s \in Sends /\ Peers(wq[i][j].s, wq[i][k].s)
          => Earlier(wq[i][j].s, wq[i][k].s)
QueueWaitOrder ==
    \A s \in Sends : \A w \in waiters :
        op[s].pc \in {"queued", "sent"} /\ Peers(s, w.s) => Earlier(s, w.s)
WaitOrder == \A v, w \in waiters : v.no < w.no /\ Peers(v.s, w.s) => Earlier(v.s, w.s)

OrderInv ==
    /\ IssuedInv /\ WireInv /\ WrittenInv
    /\ WireOrder /\ WireQueueOrder /\ QueueOrder /\ QueueWaitOrder /\ WaitOrder

\* What a step may do without changing who started earlier: the history of
\* sends grows at its end, a target stays once it is chosen, asks are added.
Grows ==
    /\ \A s, r \in Sends : Earlier(s, r) => Earlier(s, r)'
    /\ \A s, r \in Sends :
          op[s].pc # "idle" /\ op[r].pc # "idle" /\ Peers(s, r)' => Peers(s, r)

LEMMA HistoryGrows ==
    ASSUME IInv, issued' = issued \/ \E e \in Sends : issued' = Append(issued, e),
           \A s \in Sends : op[s].pc # "idle" =>
               op'[s].target = op[s].target /\ op'[s].asks \in Nat /\ op[s].asks <= op'[s].asks
    PROVE  Grows
<1>1. issued \in Seq(Sends)
    BY DEF IInv, TypeOK
<1>2. \A k \in 1..Len(issued) : k \in 1..Len(issued') /\ issued'[k] = issued[k]
    <2>1. CASE issued' = issued
        BY <2>1
    <2>2. ASSUME NEW e \in Sends, issued' = Append(issued, e)
          PROVE  \A k \in 1..Len(issued) : k \in 1..Len(issued') /\ issued'[k] = issued[k]
        BY <1>1, <2>2
    <2>. QED BY <2>1, <2>2
<1>3. \A s, r \in Sends : Earlier(s, r) => Earlier(s, r)'
    BY <1>2 DEF Earlier
<1>4. ASSUME NEW s \in Sends, NEW r \in Sends, op[s].pc # "idle", op[r].pc # "idle", Peers(s, r)'
      PROVE  Peers(s, r)
    <2>1. op[s].asks \in Nat /\ op[r].asks \in Nat
        BY OpFields DEF IInv
    <2>. QED BY <1>4, <2>1 DEF Peers
<1>. QED BY <1>3, <1>4 DEF Grows

\* What is on a wire.
LEMMA OnWire ==
    ASSUME IInv, WireInv, NEW i \in Ifs, NEW k \in 1..Len(wire[i])
    PROVE  wire[i][k] \in Sends /\ op[wire[i][k]].pc = "sent"
<1>1. wire[i] \in Seq(Sends)
    BY DEF IInv, TypeOK
<1>. QED BY <1>1 DEF WireInv

\* Where the wire stays, and nothing is told that it was sent.
LEMMA WireKept ==
    ASSUME IInv, OrderInv, Grows, UNCHANGED wire,
           \A s \in Sends : op[s].pc = "sent" => op'[s].pc = "sent",
           \A s \in Sends : op'[s].pc = "sent" => op[s].pc = "sent" /\ op'[s].ifc = op[s].ifc
    PROVE  WireInv' /\ WrittenInv' /\ WireOrder'
<1>1. \A i \in Ifs : \A k \in 1..Len(wire[i]) : wire[i][k] \in Sends /\ op[wire[i][k]].pc = "sent"
    BY OnWire DEF OrderInv
<1>2. WireInv'
    BY <1>1 DEF WireInv
<1>3. WrittenInv'
    BY DEF OrderInv, WrittenInv
<1>4. WireOrder'
    <2> SUFFICES ASSUME NEW i \in Ifs, NEW j \in 1..Len(wire[i]), NEW k \in 1..Len(wire[i]), j < k,
                        NEW x \in Sends, NEW y \in Sends, x = wire[i][j], y = wire[i][k], Peers(x, y)'
                 PROVE  Earlier(x, y)'
        BY <1>1 DEF WireOrder, Peers, Earlier
    <2>1. Peers(x, y)
        BY <1>1 DEF Grows
    <2>2. Earlier(x, y)
        BY <2>1 DEF OrderInv, WireOrder
    <2>. QED BY <2>2 DEF Grows
<1>. QED BY <1>2, <1>3, <1>4

\* Where moreover no data is put into a write queue.
LEMMA QueuesKept ==
    ASSUME IInv, OrderInv, Grows, UNCHANGED wire,
           \A i \in Ifs : \A k \in 1..Len(wq'[i]) : wq'[i][k].s \in Sends =>
               k \in 1..Len(wq[i]) /\ wq'[i][k] = wq[i][k]
    PROVE  WireQueueOrder' /\ QueueOrder'
<1>1. \A i \in Ifs : \A k \in 1..Len(wire[i]) : wire[i][k] \in Sends /\ op[wire[i][k]].pc = "sent"
    BY OnWire DEF OrderInv
<1>2. \A i \in Ifs : \A k \in 1..Len(wq[i]) : wq[i][k].s \in Sends => op[wq[i][k].s].pc = "queued"
    BY DEF IInv, QueuedOnce
<1>3. WireQueueOrder'
    <2> SUFFICES ASSUME NEW i \in Ifs, NEW j \in 1..Len(wire[i]), NEW k \in 1..Len(wq'[i]),
                        NEW x \in Sends, NEW y \in Sends, x = wire[i][j], y = wq'[i][k].s,
                        Peers(x, y)'
                 PROVE  Earlier(x, y)'
        BY <1>1 DEF WireQueueOrder, Peers, Earlier
    <2>1. k \in 1..Len(wq[i]) /\ y = wq[i][k].s
        OBVIOUS
    <2>2. Peers(x, y)
        BY <1>1, <1>2, <2>1 DEF Grows
    <2>3. Earlier(x, y)
        BY <2>1, <2>2 DEF OrderInv, WireQueueOrder
    <2>. QED BY <2>3 DEF Grows
<1>4. QueueOrder'
    <2> SUFFICES ASSUME NEW i \in Ifs, NEW j \in 1..Len(wq'[i]), NEW k \in 1..Len(wq'[i]), j < k,
                        NEW x \in Sends, NEW y \in Sends, x = wq'[i][j].s, y = wq'[i][k].s,
                        Peers(x, y)'
                 PROVE  Earlier(x, y)'
        BY DEF QueueOrder, Peers, Earlier
    <2>1. j \in 1..Len(wq[i]) /\ x = wq[i][j].s /\ k \in 1..Len(wq[i]) /\ y = wq[i][k].s
        OBVIOUS
    <2>2. Peers(x, y)
        BY <1>2, <2>1 DEF Grows
    <2>3. Earlier(x, y)
        BY <2>1, <2>2 DEF OrderInv, QueueOrder
    <2>. QED BY <2>3 DEF Grows
<1>. QED BY <1>3, <1>4

\* Where the data of s is put into a write queue behind its peers.
LEMMA QueuePushed ==
    ASSUME IInv, OrderInv, Grows, UNCHANGED wire,
           NEW s \in Sends, NEW a \in Addrs, NEW o \in Ifs, PushTo(o, Data(s, a)),
           \A x \in Sends : op[x].pc \in {"queued", "sent"} /\ Peers(x, s)' => Earlier(x, s)'
    PROVE  WireQueueOrder' /\ QueueOrder'
<1>1. \A i \in Ifs : \A k \in 1..Len(wire[i]) : wire[i][k] \in Sends /\ op[wire[i][k]].pc = "sent"
    BY OnWire DEF OrderInv
<1>2. \A i \in Ifs : \A k \in 1..Len(wq[i]) : wq[i][k].s \in Sends => op[wq[i][k].s].pc = "queued"
    BY DEF IInv, QueuedOnce
<1>3. Data(s, a) \in Item /\ Data(s, a).s = s
    BY DEF Data, Item, PacketTtl
<1>4. \A i \in Ifs : Len(wq[i]) \in Nat
    BY DEF IInv, TypeOK
<1>5. ASSUME NEW i \in Ifs, NEW k \in 1..Len(wq'[i])
      PROVE  \/ k \in 1..Len(wq[i]) /\ wq'[i][k] = wq[i][k]
             \/ i = o /\ k = Len(wq[i]) + 1 /\ wq'[i][k].s = s
    BY <1>3, <1>4, PushPlaces DEF IInv
<1>6. WireQueueOrder'
    <2> SUFFICES ASSUME NEW i \in Ifs, NEW j \in 1..Len(wire[i]), NEW k \in 1..Len(wq'[i]),
                        NEW x \in Sends, NEW y \in Sends, x = wire[i][j], y = wq'[i][k].s,
                        Peers(x, y)'
                 PROVE  Earlier(x, y)'
        BY <1>1, SMTT(40) DEF WireQueueOrder, Peers, Earlier
    <2>1. CASE y = s
        BY <1>1, <2>1
    <2>2. CASE k \in 1..Len(wq[i]) /\ y = wq[i][k].s
        <3>1. Peers(x, y)
            BY <1>1, <1>2, <2>2 DEF Grows
        <3>2. Earlier(x, y)
            BY <2>2, <3>1 DEF OrderInv, WireQueueOrder
        <3>. QED BY <3>2 DEF Grows
    <2>. QED BY <1>5, <2>1, <2>2
<1>7. QueueOrder'
    <2> SUFFICES ASSUME NEW i \in Ifs, NEW j \in 1..Len(wq'[i]), NEW k \in 1..Len(wq'[i]), j < k,
                        NEW x \in Sends, NEW y \in Sends, x = wq'[i][j].s, y = wq'[i][k].s,
                        Peers(x, y)'
                 PROVE  Earlier(x, y)'
        BY DEF QueueOrder, Peers, Earlier
    <2>1. j \in 1..Len(wq[i]) /\ x = wq[i][j].s /\ op[x].pc = "queued"
        <3>1. Len(wq'[i]) <= Len(wq[i]) + 1 /\ Len(wq'[i]) \in Nat
            BY <1>3, <1>4, PushPlaces DEF IInv
        <3>. QED BY <1>2, <1>4, <1>5, <3>1
    <2>2. CASE y = s
        BY <2>1, <2>2
    <2>3. CASE k \in 1..Len(wq[i]) /\ y = wq[i][k].s
        <3>1. Peers(x, y)
            BY <1>2, <2>1, <2>3 DEF Grows
        <3>2. Earlier(x, y)
            BY <2>1, <2>3, <3>1 DEF OrderInv, QueueOrder
        <3>. QED BY <3>2 DEF Grows
    <2>. QED BY <1>5, <2>2, <2>3
<1>. QED BY <1>6, <1>7

\* Steps that neither start, resume nor end a send.
LEMMA OrderKept ==
    ASSUME IInv, OrderInv, UNCHANGED <<issued, wire>>,
           \A s \in Sends : /\ op'[s].pc = op[s].pc /\ op'[s].target = op[s].target
                            /\ op'[s].asks = op[s].asks /\ op'[s].ifc = op[s].ifc,
           \A w \in waiters' : \E v \in waiters : v.s = w.s /\ v.no = w.no,
           \A i \in Ifs : \A k \in 1..Len(wq'[i]) : wq'[i][k].s \in Sends =>
               k \in 1..Len(wq[i]) /\ wq'[i][k] = wq[i][k]
    PROVE  OrderInv'
<1>1. \A s \in Sends : op[s].asks \in Nat
    BY OpFields DEF IInv
<1>2. Grows
    BY <1>1, HistoryGrows
<1>3. IssuedInv'
    BY DEF OrderInv, IssuedInv
<1>4. WireInv' /\ WrittenInv' /\ WireOrder'
    BY <1>2, WireKept
<1>5. WireQueueOrder' /\ QueueOrder'
    BY <1>2, QueuesKept
<1>6. \A v \in waiters : v.s \in Sends
    BY WaiterFacts
<1>7. \A s, r \in Sends : (Peers(s, r)' <=> Peers(s, r)) /\ (Earlier(s, r)' <=> Earlier(s, r))
    BY DEF Peers, Earlier
<1>8. QueueWaitOrder'
    <2> SUFFICES ASSUME NEW s \in Sends, NEW w \in waiters', op'[s].pc \in {"queued", "sent"},
                        NEW r \in Sends, r = w.s, Peers(s, r)'
                 PROVE  Earlier(s, r)'
        BY <1>6 DEF QueueWaitOrder, Peers, Earlier
    <2>. QED BY <1>7 DEF OrderInv, QueueWaitOrder
<1>9. WaitOrder'
    <2> SUFFICES ASSUME NEW v \in waiters', NEW w \in waiters', v.no < w.no,
                        NEW s \in Sends, NEW r \in Sends, s = v.s, r = w.s, Peers(s, r)'
                 PROVE  Earlier(s, r)'
        BY <1>6 DEF WaitOrder, Peers, Earlier
    <2>. QED BY <1>7 DEF OrderInv, WaitOrder
<1>. QED BY <1>3, <1>4, <1>5, <1>8, <1>9 DEF OrderInv


\* A packet of no send in a write queue.
LEMMA AskPlaces ==
    ASSUME IInv, NEW o \in Ifs, NEW item \in Item, item.s = NoSend, PushTo(o, item)
    PROVE  \A i \in Ifs : \A k \in 1..Len(wq'[i]) : wq'[i][k].s \in Sends =>
               k \in 1..Len(wq[i]) /\ wq'[i][k] = wq[i][k]
<1>1. \A i \in Ifs : Len(wq[i]) \in Nat
    BY DEF IInv, TypeOK
<1>. QED BY <1>1, PushPlaces, KernelAssumption DEF IInv

LEMMA PkAskItem ==
    ASSUME NEW a \in Addrs
    PROVE  PkAsk(a) \in Item /\ PkAsk(a).s = NoSend
BY DEF PkAsk, Item, PacketTtl


\* A send that starts is behind all that have.
LEMMA StartsLast ==
    ASSUME IInv, OrderInv, NEW s \in Sends, issued' = Append(issued, s)
    PROVE  \A x \in Sends : op[x].pc # "idle" => Earlier(x, s)'
<1>1. issued \in Seq(Sends)
    BY DEF IInv, TypeOK
<1>2. /\ Len(issued) \in Nat /\ Len(issued') = Len(issued) + 1 /\ issued'[Len(issued) + 1] = s
      /\ \A k \in 1..Len(issued) : issued'[k] = issued[k]
    BY <1>1
<1>3. ASSUME NEW x \in Sends, op[x].pc # "idle" PROVE Earlier(x, s)'
    <2>1. PICK k \in 1..Len(issued) : issued[k] = x
        BY <1>3 DEF OrderInv, IssuedInv
    <2>2. /\ k \in 1..Len(issued') /\ Len(issued) + 1 \in 1..Len(issued')
          /\ k < Len(issued) + 1 /\ issued'[k] = x
        BY <1>2, <2>1
    <2>. QED BY <1>2, <2>2 DEF Earlier
<1>. QED BY <1>3

LEMMA IssuedKept ==
    ASSUME IInv, OrderInv, NEW s \in Sends, issued' = Append(issued, s),
           \A r \in Sends \ {s} : op'[r] = op[r]
    PROVE  IssuedInv'
<1>1. issued \in Seq(Sends)
    BY DEF IInv, TypeOK
<1>2. /\ Len(issued) \in Nat /\ Len(issued') = Len(issued) + 1 /\ issued'[Len(issued) + 1] = s
      /\ \A k \in 1..Len(issued) : issued'[k] = issued[k]
    BY <1>1
<1>3. Len(issued) + 1 \in 1..Len(issued') /\ \A k \in 1..Len(issued) : k \in 1..Len(issued')
    BY <1>2
<1>. QED BY <1>2, <1>3 DEF OrderInv, IssuedInv

\* No route: nothing is queued and nothing waits.
LEMMA SendNoRouteOrder ==
    ASSUME IInv, OrderInv, NEW s \in Sends, NEW a \in Targets, SendNoRoute(s, a)
    PROVE  OrderInv'
<1>1. /\ op[s].pc = "idle" /\ op'[s].pc = "unreachable" /\ \A r \in Sends \ {s} : op'[r] = op[r]
      /\ issued' = Append(issued, s) /\ UNCHANGED <<wire, wq, waiters>>
    <2>1. op \in [Sends -> Op]
        BY DEF IInv, TypeOK
    <2>. QED BY <2>1 DEF SendNoRoute, Begin, Op
<1>2. \A r \in Sends : op[r].asks \in Nat
    BY OpFields DEF IInv
<1>3. Grows
    BY <1>1, <1>2, HistoryGrows
<1>4. IssuedInv'
    BY <1>1, IssuedKept
<1>5. WireInv' /\ WrittenInv' /\ WireOrder'
    BY <1>1, <1>3, WireKept
<1>6. WireQueueOrder' /\ QueueOrder'
    BY <1>1, <1>3, QueuesKept
<1>7. \A w \in waiters : w.s \in Sends \ {s} /\ op[w.s].pc # "idle"
    BY <1>1, WaiterFacts
<1>8. QueueWaitOrder'
    <2> SUFFICES ASSUME NEW x \in Sends, NEW w \in waiters, op'[x].pc \in {"queued", "sent"},
                        NEW r \in Sends, r = w.s, Peers(x, r)'
                 PROVE  Earlier(x, r)'
        BY <1>1, <1>7 DEF QueueWaitOrder, Peers, Earlier
    <2>1. op[x].pc \in {"queued", "sent"}
        BY <1>1
    <2>2. Peers(x, r)
        BY <1>3, <1>7, <2>1 DEF Grows
    <2>. QED BY <1>3, <2>1, <2>2 DEF OrderInv, QueueWaitOrder, Grows
<1>9. WaitOrder'
    <2> SUFFICES ASSUME NEW v \in waiters, NEW w \in waiters, v.no < w.no,
                        NEW x \in Sends, NEW r \in Sends, x = v.s, r = w.s, Peers(x, r)'
                 PROVE  Earlier(x, r)'
        BY <1>1, <1>7 DEF WaitOrder, Peers, Earlier
    <2>1. Peers(x, r)
        BY <1>3, <1>7 DEF Grows
    <2>. QED BY <1>3, <2>1 DEF OrderInv, WaitOrder, Grows
<1>. QED BY <1>4, <1>5, <1>6, <1>8, <1>9 DEF OrderInv

\* The key is stored, so that no peer waits: the data goes behind its peers.
LEMMA SendKnownOrder ==
    ASSUME IInv, OrderInv, NEW s \in Sends, NEW a \in Targets, NEW i \in Ifs, SendKnown(s, a, i)
    PROVE  OrderInv'
<1>1. /\ op[s].pc = "idle" /\ op'[s].pc = "queued" /\ op'[s].target = a
      /\ \A r \in Sends \ {s} : op'[r] = op[r]
      /\ issued' = Append(issued, s) /\ UNCHANGED <<wire, waiters>> /\ PushTo(i, Data(s, a))
      /\ a \in trusted /\ a \in Addrs /\ Idle
    <2>1. op \in [Sends -> Op]
        BY DEF IInv, TypeOK
    <2>. QED BY <2>1, KernelAssumption DEF SendKnown, Begin, Op
<1>2. \A r \in Sends : op[r].asks \in Nat
    BY OpFields DEF IInv
<1>3. Grows
    BY <1>1, <1>2, HistoryGrows
<1>4. IssuedInv'
    BY <1>1, IssuedKept
<1>5. WireInv' /\ WrittenInv' /\ WireOrder'
    BY <1>1, <1>3, WireKept
<1>6. WireQueueOrder' /\ QueueOrder'
    <2>1. \A x \in Sends : op[x].pc \in {"queued", "sent"} => Earlier(x, s)'
        BY <1>1, StartsLast
    <2>. QED BY <1>1, <1>3, <2>1, QueuePushed
<1>7. \A w \in waiters : w.s \in Sends \ {s} /\ op[w.s].pc # "idle"
    BY <1>1, WaiterFacts
<1>8. \A w \in waiters : op[w.s].target # a
    BY <1>1 DEF IInv, NoLostWakeup, Idle, NoPass
<1>9. QueueWaitOrder'
    <2> SUFFICES ASSUME NEW x \in Sends, NEW w \in waiters, op'[x].pc \in {"queued", "sent"},
                        NEW r \in Sends, r = w.s, Peers(x, r)'
                 PROVE  Earlier(x, r)'
        BY <1>1, <1>7 DEF QueueWaitOrder, Peers, Earlier
    <2>1. x # s
        BY <1>1, <1>7, <1>8 DEF Peers
    <2>2. op[x].pc \in {"queued", "sent"}
        BY <1>1, <2>1
    <2>3. Peers(x, r)
        BY <1>3, <1>7, <2>2 DEF Grows
    <2>. QED BY <1>3, <2>2, <2>3 DEF OrderInv, QueueWaitOrder, Grows
<1>10. WaitOrder'
    <2> SUFFICES ASSUME NEW v \in waiters, NEW w \in waiters, v.no < w.no,
                        NEW x \in Sends, NEW r \in Sends, x = v.s, r = w.s, Peers(x, r)'
                 PROVE  Earlier(x, r)'
        BY <1>1, <1>7 DEF WaitOrder, Peers, Earlier
    <2>1. Peers(x, r)
        BY <1>3, <1>7 DEF Grows
    <2>. QED BY <1>3, <2>1 DEF OrderInv, WaitOrder, Grows
<1>. QED BY <1>4, <1>5, <1>6, <1>9, <1>10 DEF OrderInv

\* The key is not stored: the send waits behind its peers.
LEMMA SendAskOrder ==
    ASSUME IInv, OrderInv, NEW s \in Sends, NEW a \in Targets, NEW i \in Ifs, SendAsk(s, a, i)
    PROVE  OrderInv'
<1>1. /\ op[s].pc = "idle" /\ op'[s].pc = "wait"
      /\ \A r \in Sends \ {s} : op'[r] = op[r]
      /\ issued' = Append(issued, s) /\ UNCHANGED wire /\ PushTo(i, PkAsk(a))
      /\ a \in Addrs
    <2>1. op \in [Sends -> Op]
        BY DEF IInv, TypeOK
    <2>. QED BY <2>1, KernelAssumption DEF SendAsk, Begin, Op
<1>2. PICK n \in Waiter :
         /\ n.s = s /\ n.no = nextNo /\ waiters' = waiters \cup {n}
         /\ \A w \in waiters : w.no < n.no /\ w.no \in Nat /\ n.no \in Nat
    <2>1. nextNo \in Nat
        BY DEF IInv, TypeOK
    <2>. QED BY <2>1, AskEntry, WaiterFacts DEF IInv, NumberInv
<1>3. Grows
    <2>1. \A r \in Sends : op[r].asks \in Nat
        BY OpFields DEF IInv
    <2>. QED BY <1>1, <2>1, HistoryGrows
<1>4. IssuedInv'
    BY <1>1, IssuedKept
<1>5. WireInv' /\ WrittenInv' /\ WireOrder'
    BY <1>1, <1>3, WireKept
<1>6. WireQueueOrder' /\ QueueOrder'
    BY <1>1, <1>3, PkAskItem, AskPlaces, QueuesKept
<1>7. \A w \in waiters : w.s \in Sends \ {s} /\ op[w.s].pc # "idle"
    BY <1>1, WaiterFacts
<1>8. \A x \in Sends : op[x].pc # "idle" => Earlier(x, s)'
    BY <1>1, StartsLast
<1>9. QueueWaitOrder'
    <2> SUFFICES ASSUME NEW x \in Sends, NEW w \in waiters', op'[x].pc \in {"queued", "sent"},
                        NEW r \in Sends, r = w.s, Peers(x, r)'
                 PROVE  Earlier(x, r)'
        BY <1>1, <1>2, <1>7 DEF QueueWaitOrder, Peers, Earlier
    <2>1. op[x].pc \in {"queued", "sent"}
        BY <1>1
    <2>2. CASE w = n
        BY <1>2, <1>8, <2>1, <2>2
    <2>3. CASE w \in waiters
        <3>1. Peers(x, r)
            BY <1>3, <1>7, <2>1, <2>3 DEF Grows
        <3>. QED BY <1>3, <2>1, <2>3, <3>1 DEF OrderInv, QueueWaitOrder, Grows
    <2>. QED BY <1>1, <1>2, <2>2, <2>3
<1>10. WaitOrder'
    <2> SUFFICES ASSUME NEW v \in waiters', NEW w \in waiters', v.no < w.no,
                        NEW x \in Sends, NEW r \in Sends, x = v.s, r = w.s, Peers(x, r)'
                 PROVE  Earlier(x, r)'
        BY <1>1, <1>2, <1>7 DEF WaitOrder, Peers, Earlier
    <2>1. CASE w = n
        <3>1. v \in waiters
            <4>1. v # n
                BY <1>2, <2>1 DEF IInv, TypeOK
            <4>. QED BY <1>1, <1>2, <4>1
        <3>. QED BY <1>2, <1>7, <1>8, <2>1, <3>1
    <2>2. CASE w \in waiters
        <3>1. v \in waiters
            <4>1. v # n
                BY <1>2, <2>2
            <4>. QED BY <1>1, <1>2, <4>1
        <3>2. Peers(x, r)
            BY <1>3, <1>7, <2>2, <3>1 DEF Grows
        <3>. QED BY <1>3, <2>2, <3>1, <3>2 DEF OrderInv, WaitOrder, Grows
    <2>. QED BY <1>1, <1>2, <2>1, <2>2
<1>. QED BY <1>4, <1>5, <1>6, <1>9, <1>10 DEF OrderInv


\* The entries that stay when the one of s goes: their orders stay.
LEMMA EntryGone ==
    ASSUME IInv, OrderInv, Grows, NEW s \in Sends,
           \A r \in Sends \ {s} : op'[r] = op[r],
           \A w \in waiters' : w \in waiters \/ w.s = s,
           op'[s].pc \notin {"queued", "sent"},
           \A w \in waiters' : w.s = s => op'[s].asks \in Nat /\ op'[s].asks > 1
    PROVE  QueueWaitOrder' /\ WaitOrder'
<1>1. \A w \in waiters : w.s \in Sends /\ op[w.s].pc # "idle"
    BY WaiterFacts
<1>2. QueueWaitOrder'
    <2> SUFFICES ASSUME NEW x \in Sends, NEW w \in waiters', op'[x].pc \in {"queued", "sent"},
                        NEW r \in Sends, r = w.s, Peers(x, r)'
                 PROVE  Earlier(x, r)'
        BY <1>1 DEF QueueWaitOrder, Peers, Earlier
    <2>1. op[x].pc \in {"queued", "sent"}
        OBVIOUS
    <2>2. w \in waiters
        BY DEF Peers
    <2>3. Peers(x, r)
        BY <1>1, <2>1, <2>2 DEF Grows
    <2>. QED BY <2>1, <2>2, <2>3 DEF OrderInv, QueueWaitOrder, Grows
<1>3. WaitOrder'
    <2> SUFFICES ASSUME NEW v \in waiters', NEW w \in waiters', v.no < w.no,
                        NEW x \in Sends, NEW r \in Sends, x = v.s, r = w.s, Peers(x, r)'
                 PROVE  Earlier(x, r)'
        BY <1>1 DEF WaitOrder, Peers, Earlier
    <2>1. v \in waiters /\ w \in waiters
        BY DEF Peers
    <2>2. Peers(x, r)
        BY <1>1, <2>1 DEF Grows
    <2>. QED BY <2>1, <2>2 DEF OrderInv, WaitOrder, Grows
<1>. QED BY <1>2, <1>3

\* The sends that started are those that had.
LEMMA IssuedSame ==
    ASSUME OrderInv, UNCHANGED issued, NEW s \in Sends, op[s].pc # "idle",
           \A r \in Sends \ {s} : op'[r] = op[r]
    PROVE  IssuedInv'
BY DEF OrderInv, IssuedInv

\* A send is resumed with its key, in the pass after a packet (NoLostWakeup: the
\* pass of a tick finds no stored key): the peers that wait are behind it.
LEMMA ResumeSendOrder ==
    ASSUME IInv, OrderInv, NEW w \in waiters, WakeWaiter(w) \/ ExpireWaiter(w), ResumeSend(w),
           UNCHANGED <<issued, wire>>
    PROVE  OrderInv'
<1> DEFINE s == w.s
           i == op[s].ifc
           a == op[s].target
<1>1. /\ s \in Sends /\ i \in Ifs /\ a \in Addrs /\ op[s].pc = "wait" /\ op[s].asks \in Nat
      /\ w.no \in Nat
    BY WaiterFacts DEF MaxAsks
<1>2. /\ op'[s].pc = (IF i \in mAvifs THEN "queued" ELSE "lost")
      /\ op'[s].target = a /\ op'[s].asks = op[s].asks /\ op'[s].ifc = i
      /\ \A r \in Sends \ {s} : op'[r] = op[r]
    <2>1. op \in [Sends -> Op]
        BY DEF IInv, TypeOK
    <2>2. op' = [op EXCEPT ![s] = [op[s] EXCEPT !.pc = IF i \in mAvifs THEN "queued" ELSE "lost"]]
        BY DEF ResumeSend
    <2>3. op[s] \in Op /\ op'[s] = [op[s] EXCEPT !.pc = IF i \in mAvifs THEN "queued" ELSE "lost"]
        BY <1>1, <2>1, <2>2
    <2>. QED BY <1>1, <2>1, <2>2, <2>3 DEF Op
<1>3. /\ waiters' = waiters \ {w} /\ a \in trusted
      /\ \/ i \in mAvifs /\ PushTo(i, Data(s, a))
         \/ i \notin mAvifs /\ UNCHANGED wq
    BY DEF ResumeSend, UseInterface
<1>4. \A v \in waiters \ {w} : v.s \in Sends \ {s} /\ v.no # w.no /\ v.no \in Nat
                               /\ op[v.s].pc # "idle"
    BY WaiterFacts
<1>5. pass = [kind |-> "packet", src |-> a]
    <2>1. fault = "none"
        BY DEF WakeWaiter, ExpireWaiter
    <2>. QED BY <1>3, <2>1 DEF IInv, NoLostWakeup
<1>6. \A v \in waiters : op[v.s].target = a => w.no <= v.no
    <2>1. IsFirst(w, Answered)
        <3>1. ~ ExpireWaiter(w)
            BY <1>5 DEF ExpireWaiter
        <3>. QED BY <3>1 DEF WakeWaiter
    <2>2. \A v \in waiters : op[v.s].target = a => v \in Answered
        BY <1>3, <1>5 DEF Answered
    <2>. QED BY <2>1, <2>2 DEF IsFirst
<1>7. Grows
    <2>1. \A r \in Sends : op[r].asks \in Nat
        BY OpFields DEF IInv
    <2>. QED BY <1>2, <2>1, HistoryGrows
<1> HIDE DEF s, i, a
<1>8. IssuedInv'
    BY <1>1, <1>2, IssuedSame
<1>9. WireInv' /\ WrittenInv' /\ WireOrder'
    BY <1>1, <1>2, <1>7, WireKept
<1>10. CASE i \in mAvifs
    <2>1. ASSUME NEW r \in Sends, r = s PROVE WireQueueOrder' /\ QueueOrder'
        <3>1. \A x \in Sends : op[x].pc \in {"queued", "sent"} /\ Peers(x, r)' => Earlier(x, r)'
            <4> SUFFICES ASSUME NEW x \in Sends, op[x].pc \in {"queued", "sent"}, Peers(x, r)'
                         PROVE  Earlier(x, r)'
                OBVIOUS
            <4>1. Peers(x, r)
                BY <1>1, <1>7, <2>1 DEF Grows
            <4>2. Earlier(x, r)
                BY <2>1, <4>1 DEF OrderInv, QueueWaitOrder, s
            <4>. QED BY <1>7, <4>2 DEF Grows
        <3>2. PushTo(i, Data(r, a))
            BY <1>3, <1>10, <2>1
        <3>. QED BY <1>1, <1>7, <3>1, <3>2, QueuePushed
    <2>2. WireQueueOrder' /\ QueueOrder'
        BY <1>1, <2>1
    <2>3. QueueWaitOrder'
        <3> SUFFICES ASSUME NEW x \in Sends, NEW v \in waiters \ {w},
                            op'[x].pc \in {"queued", "sent"}, NEW r \in Sends, r = v.s, Peers(x, r)'
                     PROVE  Earlier(x, r)'
            BY <1>3, <1>4 DEF QueueWaitOrder, Peers, Earlier
        <3>1. op[x].pc # "idle" /\ (x # s => op[x].pc \in {"queued", "sent"})
            BY <1>1, <1>2
        <3>2. Peers(x, r)
            BY <1>4, <1>7, <3>1 DEF Grows
        <3>3. Earlier(x, r)
            <4>1. CASE x = s
                <5>1. w.no < v.no
                    BY <1>1, <1>4, <1>6, <3>2, <4>1 DEF Peers, a
                <5>. QED BY <3>2, <4>1, <5>1 DEF OrderInv, WaitOrder, s
            <4>2. CASE x # s
                BY <3>1, <3>2, <4>2 DEF OrderInv, QueueWaitOrder
            <4>. QED BY <4>1, <4>2
        <3>. QED BY <1>7, <3>3 DEF Grows
    <2>4. WaitOrder'
        <3> SUFFICES ASSUME NEW u \in waiters, NEW v \in waiters, u.no < v.no,
                            NEW x \in Sends, NEW r \in Sends, x = u.s, r = v.s, Peers(x, r)'
                     PROVE  Earlier(x, r)'
            BY <1>3, <1>4 DEF WaitOrder, Peers, Earlier
        <3>1. Peers(x, r)
            BY <1>7, WaiterFacts DEF Grows
        <3>. QED BY <1>7, <3>1 DEF OrderInv, WaitOrder, Grows
    <2>. QED BY <1>8, <1>9, <2>2, <2>3, <2>4 DEF OrderInv
<1>11. CASE i \notin mAvifs
    <2>1. WireQueueOrder' /\ QueueOrder'
        BY <1>3, <1>7, <1>11, QueuesKept
    <2>2. \A v \in waiters' : v \in waiters /\ v.s # s
        BY <1>3, <1>4
    <2>3. QueueWaitOrder' /\ WaitOrder'
        BY <1>1, <1>2, <1>7, <1>11, <2>2, EntryGone
    <2>. QED BY <1>8, <1>9, <2>1, <2>3 DEF OrderInv
<1>. QED BY <1>10, <1>11

\* A send asks again: it has asked twice, and is compared no more.
LEMMA ResumeAskOrder ==
    ASSUME IInv, OrderInv, NEW w \in waiters, ResumeAsk(w), UNCHANGED <<issued, wire>>
    PROVE  OrderInv'
<1> DEFINE s == w.s
           i == op[s].ifc
           a == op[s].target
<1>1. /\ s \in Sends /\ i \in Ifs /\ a \in Addrs /\ op[s].pc = "wait" /\ op[s].asks \in Nat \ {0}
    BY WaiterFacts DEF MaxAsks
<1>2. /\ op'[s].pc = "wait" /\ op'[s].target = a /\ op'[s].asks = op[s].asks + 1
      /\ \A r \in Sends \ {s} : op'[r] = op[r]
    <2>1. op \in [Sends -> Op]
        BY DEF IInv, TypeOK
    <2>2. op' = [op EXCEPT ![s] = [op[s] EXCEPT !.asks = op[s].asks + 1]]
        BY DEF ResumeAsk
    <2>3. op[s] \in Op /\ op'[s] = [op[s] EXCEPT !.asks = op[s].asks + 1]
        BY <1>1, <2>1, <2>2
    <2>. QED BY <1>1, <2>1, <2>2, <2>3 DEF Op
<1>3. /\ \E n \in Waiter : waiters' = (waiters \ {w}) \cup {n} /\ n.s = s
      /\ PushTo(i, PkAsk(a)) \/ UNCHANGED wq
    <2>1. /\ nextNo \in Nat
          /\ \E late \in BOOLEAN : waiters' = (waiters \ {w}) \cup {NewWaiter(s, late)}
          /\ PushTo(i, PkAsk(a)) \/ UNCHANGED wq
        BY DEF IInv, TypeOK, ResumeAsk, UseInterface
    <2>. QED BY <1>1, <2>1, NewEntry
<1> HIDE DEF s, i, a
<1>4. Grows
    <2>1. \A r \in Sends : op[r].asks \in Nat
        BY OpFields DEF IInv
    <2>2. \A r \in Sends : /\ op'[r].target = op[r].target
                           /\ op'[r].asks \in Nat /\ op[r].asks <= op'[r].asks
        BY <1>1, <1>2, <2>1 DEF a
    <2>. QED BY <2>2, HistoryGrows
<1>5. IssuedInv'
    BY <1>1, <1>2, IssuedSame
<1>6. WireInv' /\ WrittenInv' /\ WireOrder'
    BY <1>1, <1>2, <1>4, WireKept
<1>7. WireQueueOrder' /\ QueueOrder'
    <2>1. CASE PushTo(i, PkAsk(a))
        BY <1>1, <1>4, <2>1, PkAskItem, AskPlaces, QueuesKept
    <2>2. CASE UNCHANGED wq
        BY <1>4, <2>2, QueuesKept
    <2>. QED BY <1>3, <2>1, <2>2
<1>8. QueueWaitOrder' /\ WaitOrder'
    <2>1. \A v \in waiters' : v \in waiters \/ v.s = s
        BY <1>3
    <2>2. op'[s].asks \in Nat /\ op'[s].asks > 1 /\ op'[s].pc \notin {"queued", "sent"}
        BY <1>1, <1>2
    <2>. QED BY <1>1, <1>2, <1>4, <2>1, <2>2, EntryGone
<1>. QED BY <1>5, <1>6, <1>7, <1>8 DEF OrderInv

\* A send gives up: its entry goes.
LEMMA ResumeGiveUpOrder ==
    ASSUME IInv, OrderInv, NEW w \in waiters, ResumeGiveUp(w), UNCHANGED <<issued, wire>>
    PROVE  OrderInv'
<1> DEFINE s == w.s
<1>1. s \in Sends /\ op[s].pc = "wait" /\ op[s].asks \in Nat
    BY WaiterFacts DEF MaxAsks
<1>2. /\ op'[s].pc = "unreachable" /\ op'[s].target = op[s].target /\ op'[s].asks = op[s].asks
      /\ \A r \in Sends \ {s} : op'[r] = op[r]
    <2>1. op \in [Sends -> Op]
        BY DEF IInv, TypeOK
    <2>2. op' = [op EXCEPT ![s] = [op[s] EXCEPT !.pc = "unreachable", !.told = op[s].told + 1]]
        BY DEF ResumeGiveUp
    <2>3. op[s] \in Op /\ op'[s] = [op[s] EXCEPT !.pc = "unreachable", !.told = op[s].told + 1]
        BY <1>1, <2>1, <2>2
    <2>. QED BY <1>1, <2>1, <2>2, <2>3 DEF Op
<1>3. waiters' = waiters \ {w} /\ UNCHANGED wq /\ \A v \in waiters \ {w} : v.s # s
    BY WaiterFacts DEF ResumeGiveUp
<1> HIDE DEF s
<1>4. Grows
    <2>1. \A r \in Sends : op[r].asks \in Nat
        BY OpFields DEF IInv
    <2>. QED BY <1>1, <1>2, <2>1, HistoryGrows
<1>5. IssuedInv'
    BY <1>1, <1>2, IssuedSame
<1>6. WireInv' /\ WrittenInv' /\ WireOrder'
    BY <1>1, <1>2, <1>4, WireKept
<1>7. WireQueueOrder' /\ QueueOrder'
    BY <1>3, <1>4, QueuesKept
<1>8. QueueWaitOrder' /\ WaitOrder'
    BY <1>1, <1>2, <1>3, <1>4, EntryGone
<1>. QED BY <1>5, <1>6, <1>7, <1>8 DEF OrderInv


\* The writer is done with the head of its queue: on the wire it is behind its
\* peers there, and in front of those in the queue.
LEMMA WriteDoneOrder ==
    ASSUME IInv, OrderInv, NEW i \in Ifs, NEW ok \in BOOLEAN, WriteDone(i, ok)
    PROVE  OrderInv'
<1> DEFINE s == Head(wq[i]).s
<1>1. /\ wq[i] \in Seq(Item) /\ wq[i] # <<>> /\ Len(wq[i]) \in Nat \ {0}
      /\ s = wq[i][1].s /\ UNCHANGED <<issued, waiters>> /\ (ok \/ i \in Faulty)
    <2>1. wq[i] \in Seq(Item) /\ wq[i] # <<>>
        BY DEF IInv, TypeOK, WriterInv, WriteDone
    <2>. QED BY <2>1 DEF WriteDone, envVars
<1>2. /\ \A j \in Ifs \ {i} : wq'[j] = wq[j]
      /\ Len(wq'[i]) = Len(wq[i]) - 1
      /\ \A k \in 1..Len(wq'[i]) : wq'[i][k] = wq[i][k + 1]
    BY <1>1 DEF IInv, TypeOK, WriteDone
<1>3. \A j \in Ifs : wire[j] \in Seq(Sends) /\ Len(wire[j]) \in Nat /\ Len(wq[j]) \in Nat
    BY DEF IInv, TypeOK
<1>4. \A j \in Ifs : \A k \in 1..Len(wq'[j]) :
         \E m \in 1..Len(wq[j]) : m = (IF j = i THEN k + 1 ELSE k) /\ wq'[j][k] = wq[j][m]
    BY <1>1, <1>2, <1>3
<1>5. CASE s \notin Sends
    <2>1. UNCHANGED <<op, wire>>
        BY <1>5 DEF WriteDone
    <2>2. \A x, r \in Sends : (Peers(x, r)' <=> Peers(x, r)) /\ (Earlier(x, r)' <=> Earlier(x, r))
        BY <1>1, <2>1 DEF Peers, Earlier
    <2>3. IssuedInv' /\ WireInv' /\ WrittenInv' /\ WireOrder' /\ QueueWaitOrder' /\ WaitOrder'
        BY <1>1, <2>1 DEF OrderInv, IssuedInv, WireInv, WrittenInv, WireOrder, QueueWaitOrder,
                          WaitOrder, Peers, Earlier
    <2>4. WireQueueOrder'
        <3> SUFFICES ASSUME NEW o \in Ifs, NEW j \in 1..Len(wire'[o]), NEW k \in 1..Len(wq'[o]),
                            NEW x, NEW y \in Sends, x = wire'[o][j], y = wq'[o][k].s, Peers(x, y)'
                     PROVE  Earlier(x, y)'
            BY DEF WireQueueOrder, Peers, Earlier
        <3>1. PICK m \in 1..Len(wq[o]) : wq'[o][k] = wq[o][m]
            BY <1>4
        <3>2. j \in 1..Len(wire[o]) /\ x = wire[o][j] /\ x \in Sends
            BY <2>1, OnWire DEF OrderInv
        <3>. QED BY <2>2, <3>1, <3>2 DEF OrderInv, WireQueueOrder
    <2>5. QueueOrder'
        <3> SUFFICES ASSUME NEW o \in Ifs, NEW j \in 1..Len(wq'[o]), NEW k \in 1..Len(wq'[o]), j < k,
                            NEW x \in Sends, NEW y \in Sends, x = wq'[o][j].s, y = wq'[o][k].s,
                            Peers(x, y)'
                     PROVE  Earlier(x, y)'
            BY DEF QueueOrder, Peers, Earlier
        <3>1. PICK m \in 1..Len(wq[o]) : m = (IF o = i THEN j + 1 ELSE j) /\ wq'[o][j] = wq[o][m]
            BY <1>4
        <3>2. PICK n \in 1..Len(wq[o]) : n = (IF o = i THEN k + 1 ELSE k) /\ wq'[o][k] = wq[o][n]
            BY <1>4
        <3>3. m < n
            BY <3>1, <3>2
        <3>. QED BY <2>2, <3>1, <3>2, <3>3 DEF OrderInv, QueueOrder
    <2>. QED BY <2>3, <2>4, <2>5 DEF OrderInv
<1>6. CASE s \in Sends
    <2>1. op[s].pc = "queued" /\ op[s].ifc = i
        BY <1>1, <1>6 DEF IInv, QueuedOnce
    <2>2. /\ op'[s].pc = "sent" /\ op'[s].target = op[s].target /\ op'[s].asks = op[s].asks
          /\ op'[s].ifc = i /\ \A r \in Sends \ {s} : op'[r] = op[r]
        <3>1. op \in [Sends -> Op]
            BY DEF IInv, TypeOK
        <3>2. op' = [op EXCEPT ![s] = [op[s] EXCEPT !.pc = "sent", !.told = op[s].told + 1]]
            BY <1>6 DEF WriteDone
        <3>3. op[s] \in Op /\ op'[s] = [op[s] EXCEPT !.pc = "sent", !.told = op[s].told + 1]
            BY <1>6, <3>1, <3>2
        <3>. QED BY <1>6, <2>1, <3>1, <3>2, <3>3 DEF Op
    <2>3. wire' = IF ok THEN [wire EXCEPT ![i] = Append(@, s)] ELSE wire
        BY <1>6 DEF WriteDone
    <2> HIDE DEF s
    <2>4. /\ \A x, r \in Sends : Peers(x, r)' <=> Peers(x, r)
          /\ \A x, r \in Sends : Earlier(x, r)' <=> Earlier(x, r)
        BY <1>1, <2>2 DEF Peers, Earlier
    <2>5. \A o \in Ifs : \A k \in 1..Len(wire[o]) : k \in 1..Len(wire'[o]) /\ wire'[o][k] = wire[o][k]
        BY <1>3, <1>6, <2>3 DEF IInv, TypeOK
    <2>6. \A o \in Ifs : \A k \in 1..Len(wire'[o]) :
             \/ k \in 1..Len(wire[o]) /\ wire'[o][k] = wire[o][k]
             \/ o = i /\ k = Len(wire[i]) + 1 /\ wire'[o][k] = s
        <3>1. CASE ok
            <4>1. /\ Len(wire'[i]) = Len(wire[i]) + 1 /\ wire'[i][Len(wire[i]) + 1] = s
                  /\ \A k \in 1..Len(wire[i]) : wire'[i][k] = wire[i][k]
                  /\ \A o \in Ifs \ {i} : wire'[o] = wire[o]
                BY <1>3, <1>6, <2>3, <3>1 DEF IInv, TypeOK
            <4>. QED BY <1>3, <4>1
        <3>2. CASE ~ ok
            BY <2>3, <3>2
        <3>. QED BY <3>1, <3>2
    <2>7. IssuedInv'
        BY <1>1, <1>6, <2>1, <2>2, IssuedSame
    <2>8. WireInv'
        <3> SUFFICES ASSUME NEW o \in Ifs, NEW k \in 1..Len(wire'[o]) PROVE op'[wire'[o][k]].pc = "sent"
            BY DEF WireInv
        <3>1. CASE k \in 1..Len(wire[o]) /\ wire'[o][k] = wire[o][k]
            BY <2>2, <3>1, OnWire DEF OrderInv
        <3>2. CASE wire'[o][k] = s
            BY <2>2, <3>2
        <3>. QED BY <2>6, <3>1, <3>2
    <2>9. WrittenInv'
        <3>1. \A o \in Ifs : \A k \in 1..Len(wire[o]) : wire[o][k] # s
            BY <2>1, OnWire DEF OrderInv
        <3> SUFFICES ASSUME NEW o \in Ifs, NEW q \in Ifs, NEW k \in 1..Len(wire'[o]),
                            NEW m \in 1..Len(wire'[q]), wire'[o][k] = wire'[q][m]
                     PROVE  o = q /\ k = m
            BY DEF WrittenInv
        <3>2. CASE wire'[o][k] = s
            <4>1. o = i /\ k = Len(wire[i]) + 1
                BY <2>6, <3>1, <3>2
            <4>2. q = i /\ m = Len(wire[i]) + 1
                BY <2>6, <3>1, <3>2
            <4>. QED BY <4>1, <4>2
        <3>3. CASE wire'[o][k] # s
            BY <2>6, <3>3 DEF OrderInv, WrittenInv
        <3>. QED BY <3>2, <3>3
    <2>10. WireOrder'
        <3> SUFFICES ASSUME NEW o \in Ifs, NEW j \in 1..Len(wire'[o]), NEW k \in 1..Len(wire'[o]), j < k,
                            NEW x, NEW y, x = wire'[o][j], y = wire'[o][k], Peers(x, y)'
                     PROVE  Earlier(x, y)'
            BY DEF WireOrder, Peers, Earlier
        <3>1. j \in 1..Len(wire[o]) /\ wire'[o][j] = wire[o][j] /\ x \in Sends
            BY <1>3, <2>6, OnWire, SMTT(40) DEF OrderInv
        <3>2. CASE k \in 1..Len(wire[o]) /\ wire'[o][k] = wire[o][k]
            <4>1. y \in Sends
                BY <3>2, OnWire DEF OrderInv
            <4>. QED BY <2>4, <3>1, <3>2, <4>1 DEF OrderInv, WireOrder
        <3>3. CASE o = i /\ wire'[o][k] = s
            BY <1>1, <1>6, <2>4, <3>1, <3>3 DEF OrderInv, WireQueueOrder
        <3>. QED BY <2>6, <3>2, <3>3
    <2>11. WireQueueOrder'
        <3> SUFFICES ASSUME NEW o \in Ifs, NEW j \in 1..Len(wire'[o]), NEW k \in 1..Len(wq'[o]),
                            NEW x, NEW y \in Sends, x = wire'[o][j], y = wq'[o][k].s, Peers(x, y)'
                     PROVE  Earlier(x, y)'
            BY DEF WireQueueOrder, Peers, Earlier
        <3>1. PICK m \in 1..Len(wq[o]) : m = (IF o = i THEN k + 1 ELSE k) /\ wq'[o][k] = wq[o][m]
            BY <1>4
        <3>2. CASE j \in 1..Len(wire[o]) /\ wire'[o][j] = wire[o][j]
            <4>1. x \in Sends
                BY <3>2, OnWire DEF OrderInv
            <4>. QED BY <2>4, <3>1, <3>2, <4>1 DEF OrderInv, WireQueueOrder
        <3>3. CASE o = i /\ wire'[o][j] = s
            <4>1. 1 \in 1..Len(wq[i]) /\ 1 < m
                BY <1>1, <3>1, <3>3
            <4>. QED BY <1>1, <1>6, <2>4, <3>1, <3>3, <4>1 DEF OrderInv, QueueOrder
        <3>. QED BY <2>6, <3>2, <3>3
    <2>12. QueueOrder'
        <3> SUFFICES ASSUME NEW o \in Ifs, NEW j \in 1..Len(wq'[o]), NEW k \in 1..Len(wq'[o]), j < k,
                            NEW x \in Sends, NEW y \in Sends, x = wq'[o][j].s, y = wq'[o][k].s,
                            Peers(x, y)'
                     PROVE  Earlier(x, y)'
            BY DEF QueueOrder, Peers, Earlier
        <3>1. PICK m \in 1..Len(wq[o]) : m = (IF o = i THEN j + 1 ELSE j) /\ wq'[o][j] = wq[o][m]
            BY <1>4
        <3>2. PICK n \in 1..Len(wq[o]) : n = (IF o = i THEN k + 1 ELSE k) /\ wq'[o][k] = wq[o][n]
            BY <1>4
        <3>3. m < n
            BY <3>1, <3>2
        <3>. QED BY <2>4, <3>1, <3>2, <3>3 DEF OrderInv, QueueOrder
    <2>13. QueueWaitOrder' /\ WaitOrder'
        <3>1. \A w \in waiters : w.s \in Sends
            BY WaiterFacts
        <3>2. QueueWaitOrder'
            <4> SUFFICES ASSUME NEW x \in Sends, NEW w \in waiters, op'[x].pc \in {"queued", "sent"},
                                NEW r \in Sends, r = w.s, Peers(x, r)'
                         PROVE  Earlier(x, r)'
                BY <1>1, <3>1 DEF QueueWaitOrder, Peers, Earlier
            <4>1. op[x].pc \in {"queued", "sent"}
                BY <2>1, <2>2
            <4>. QED BY <2>4, <4>1 DEF OrderInv, QueueWaitOrder
        <3>3. WaitOrder'
            <4> SUFFICES ASSUME NEW v \in waiters, NEW w \in waiters, v.no < w.no,
                                NEW x \in Sends, NEW r \in Sends, x = v.s, r = w.s, Peers(x, r)'
                         PROVE  Earlier(x, r)'
                BY <1>1, <3>1 DEF WaitOrder, Peers, Earlier
            <4>. QED BY <2>4 DEF OrderInv, WaitOrder
        <3>. QED BY <3>2, <3>3
    <2>. QED BY <2>7, <2>8, <2>9, <2>10, <2>11, <2>12, <2>13 DEF OrderInv
<1>. QED BY <1>5, <1>6

\* The other steps.
LEMMA QuietOrder ==
    ASSUME IInv, OrderInv, UNCHANGED <<issued, wire, op, waiters>>,
           \/ UNCHANGED wq
           \/ \E j \in Ifs, item \in Item : PushTo(j, item) /\ item.s = NoSend
    PROVE  OrderInv'
<1>1. \A i \in Ifs : \A k \in 1..Len(wq'[i]) : wq'[i][k].s \in Sends =>
         k \in 1..Len(wq[i]) /\ wq'[i][k] = wq[i][k]
    BY AskPlaces
<1>. QED BY <1>1, OrderKept

LEMMA TickOrder ==
    ASSUME IInv, OrderInv, NEW late \in SUBSET waiters, Tick(late)
    PROVE  OrderInv'
<1>1. UNCHANGED <<issued, wire, wq, op>>
    BY DEF Tick
<1>2. ASSUME NEW w \in waiters' PROVE \E v \in waiters : v.s = w.s /\ v.no = w.no
    <2>1. PICK v \in waiters : w = [v EXCEPT !.late = v \in late]
        BY DEF Tick
    <2>2. v \in Waiter
        BY DEF IInv, TypeOK
    <2>. QED BY <2>1, <2>2, LateEntry
<1>. QED BY <1>1, <1>2, OrderKept

LEMMA NextOrder == IInv /\ OrderInv /\ [Next]_vars => OrderInv'
<1> SUFFICES ASSUME IInv, OrderInv, [Next]_vars PROVE OrderInv'
    OBVIOUS
<1>1. ASSUME NEW i \in Ifs, AddInterface(i) \/ ReadFail(i) PROVE OrderInv'
    BY <1>1, QuietOrder DEF AddInterface, ReadFail, envVars
<1>2. ASSUME NEW i \in Ifs, WriterStep(i) PROVE OrderInv'
    <2>1. CASE WriterStart(i) \/ WriterBreak(i)
        BY <2>1, QuietOrder DEF WriterStart, WriterBreak, waitVars, envVars
    <2>. QED BY <1>2, <2>1, WriteDoneOrder DEF WriterStep
<1>3. ASSUME NEW r \in RouteItems, AddRoute(r) PROVE OrderInv'
    BY <1>3, QuietOrder DEF AddRoute, envVars
<1>4. CASE StartSend
    BY <1>4, SendNoRouteOrder, SendKnownOrder, SendAskOrder DEF StartSend
<1>5. CASE Receives
    <2> SUFFICES ASSUME NEW i \in Ifs, NEW p \in Packets,
                        \/ RecvAsk(i, p) \/ RecvReply(i, p) \/ RecvData(i, p)
                        \/ \E out \in Ifs : Forward(i, p, out)
                        \/ Drop(i, p)
                 PROVE  OrderInv'
        BY <1>5 DEF Receives
    <2>1. UNCHANGED <<issued, wire, op, waiters>>
        BY DEF RecvAsk, RecvReply, RecvData, Forward, Drop, Receive, waitVars
    <2>2. \/ UNCHANGED wq
          \/ \E j \in Ifs, item \in Item : PushTo(j, item) /\ item.s = NoSend
        BY PacketFacts DEF RecvAsk, RecvReply, RecvData, Forward, Drop
    <2>. QED BY <2>1, <2>2, QuietOrder
<1>6. CASE RecvFrom
    BY <1>6, QuietOrder DEF RecvFrom, waitVars, envVars
<1>7. CASE PassStep
    <2>1. ASSUME NEW w \in waiters, WakeWaiter(w) \/ ExpireWaiter(w) PROVE OrderInv'
        <3>1. /\ UNCHANGED <<issued, wire>>
              /\ ResumeSend(w) \/ ResumeAsk(w) \/ ResumeGiveUp(w)
            BY <2>1 DEF WakeWaiter, ExpireWaiter, Resume, envVars
        <3>. QED BY <2>1, <3>1, ResumeSendOrder, ResumeAskOrder, ResumeGiveUpOrder
    <2>2. CASE EndPass
        BY <2>2, QuietOrder DEF EndPass, waitVars, envVars
    <2>. QED BY <1>7, <2>1, <2>2 DEF PassStep
<1>8. ASSUME NEW late \in SUBSET waiters, Tick(late) PROVE OrderInv'
    BY <1>8, TickOrder
<1>9. ASSUME NEW gone \in SUBSET trusted, PurgeTick(gone) PROVE OrderInv'
    BY <1>9, QuietOrder DEF PurgeTick, waitVars
<1>10. CASE Destroy
    BY <1>10, QuietOrder DEF Destroy, waitVars
<1>11. CASE UNCHANGED vars
    BY <1>11, QuietOrder DEF vars
<1>. QED BY <1>1, <1>2, <1>3, <1>4, <1>5, <1>6, <1>7, <1>8, <1>9, <1>10, <1>11 DEF Next

\* Wire, write queues and waiting list are in order in every state.
THEOREM OrderInvariance == Spec => []OrderInv
<1>1. Init => OrderInv
    BY DEF Init, OrderInv, IssuedInv, WireInv, WrittenInv, WireOrder, WireQueueOrder, QueueOrder,
           QueueWaitOrder, WaitOrder
<1>. QED BY <1>1, NextOrder, Invariance, PTL DEF Spec

\* The data of a send goes out at most once, whatever interfaces break, and
\* never after network_unreachable was told.
THEOREM DataGoesOutOnce == Spec => []WrittenOnce
<1>1. OrderInv => WrittenOnce
    BY DEF OrderInv, WireInv, WrittenInv, WrittenOnce
<1>. QED BY <1>1, OrderInvariance, PTL

\* "保证数据包次序": of two sends to one target over one interface, neither of
\* which had to ask twice, the later one never overtakes the other.
THEOREM OrderIsKept == Spec => []InOrder
<1>1. OrderInv => InOrder
    BY DEF OrderInv, WireOrder, InOrder, Peers, Earlier
<1>. QED BY <1>1, OrderInvariance, PTL
=============================================================================
