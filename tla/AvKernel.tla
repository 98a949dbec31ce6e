------------------------------ MODULE AvKernel ------------------------------
(***************************************************************************)
(* avkernel_impl (libavproto/src/avkernel.cpp): one node of the AV network *)
(* - its interfaces and routes, the public keys it trusts, the sends that  *)
(* wait for a key, the write queue and the reader and writer coroutines of *)
(* every interface, and the two timers.                                    *)
(*                                                                         *)
(* One thread runs the io_service, so an action is what the code does      *)
(* between two yields.  A pass over the list of waiting sends resumes      *)
(* their coroutines one after the other inside one handler: the model      *)
(* takes one step per resumed coroutine and lets nothing else happen until *)
(* the pass is over.                                                       *)
(*                                                                         *)
(* A write queue is a first-in first-out queue here: CoroQueue shows that  *)
(* boost::async_coro_queue is one.  Addresses are compared as the strings  *)
(* av_address_to_string returns; a route's pattern is the set of the       *)
(* addresses its regular expression matches.                               *)
(*                                                                         *)
(* get_ifname of an interface returns the same name at every call, as the  *)
(* kernel takes it to do; RouteTable shows what becomes of the tables with *)
(* avjackif, whose get_ifname does not.                                    *)
(***************************************************************************)
EXTENDS Integers, Sequences, FiniteSets

CONSTANTS Ifs,          \* interfaces that may be added, named by get_ifname
          Addrs,        \* AV addresses
          Bare,         \* the username and domain of an address
          IfAddr,       \* if_address of an interface
          RouteItems,   \* routes that may be added
          Sends,        \* calls of async_sendto
          Targets,      \* addresses sent to
          Packets,      \* packets the network may deliver; data comes with a payload
                        \* and the sender's key, as async_sendto_op makes it
          MaxReads,     \* bound on the packets read
          Faulty,       \* interfaces whose connection may break
          CanDestroy,   \* whether the avkernel may be destroyed
          NoIf, NoSend, NoAddr

MaxAsks == 3            \* a send asks for a key this many times

ASSUME KernelAssumption ==
    /\ Bare \in [Addrs -> Addrs] /\ IfAddr \in [Ifs -> Addrs]
    /\ RouteItems \subseteq [pattern : SUBSET Addrs, ifname : Ifs, metric : Nat]
    /\ Targets \subseteq Addrs
    /\ Packets \subseteq [proto : {"pkask", "pkreply", "avim", "other"}, src : Addrs,
                          dest : Addrs, haskey : BOOLEAN, ttl : Nat]
    /\ MaxReads \in Nat
    /\ Faulty \subseteq Ifs /\ CanDestroy \in BOOLEAN
    /\ NoIf \notin Ifs /\ NoSend \notin Sends /\ NoAddr \notin Addrs

VARIABLES mAvifs,       \* m_avifs: the interfaces in the map
          mRoutes,      \* m_routes
          trusted,      \* trusted_pubkey: the addresses with a stored key
          waiters,      \* the postprocess list, an entry's `no` its place in it
          nextNo,       \* the place of the next entry of that list
          op,           \* the async_sendto_op coroutine of every send
          wq,           \* _write_queue of every interface; its writer writes the head
          writer,       \* where interface_writer is
          quitting,     \* quitting of every interface
          recvBuf,      \* m_recv_buffer: senders of the data nobody has received yet
          armed,        \* the timers with a pending async_wait
          mQuitting,    \* m_quitting
          pass,         \* the pass over the waiting list being made, if any
          fault,        \* undefined behaviour or an uncaught exception ended the process
          reads,        \* number of packets read (bounded by MaxReads)
          issued,       \* history: the sends in the order they started
          wire          \* history: the data written on every interface, by send

netVars  == <<mAvifs, mRoutes, writer, quitting>>
waitVars == <<waiters, nextNo, op>>
envVars  == <<armed, mQuitting, reads, issued>>
vars == <<mAvifs, mRoutes, trusted, waiters, nextNo, op, wq, writer, quitting, recvBuf,
          armed, mQuitting, pass, fault, reads, issued, wire>>

-----------------------------------------------------------------------------
\* What is put into a write queue; s is the send to notify when it is written.
Item == [proto : {"pkask", "pkreply", "avim", "other"}, dest : Addrs, ttl : Nat,
         s : Sends \cup {NoSend}]

Pass == [kind : {"none", "packet", "tick"}, src : Addrs \cup {NoAddr}]
NoPass == [kind |-> "none", src |-> NoAddr]

\* late: the tick at work has found the deadline over.
Waiter == [s : Sends, late : BOOLEAN, no : Nat]

\* An async_sendto_op: where it is, its target and interface, the asks it sent
\* and, as history, the calls of its handler.
Op == [pc : {"idle", "wait", "queued", "lost", "sent", "unreachable"},
       target : Addrs \cup {NoAddr}, ifc : Ifs \cup {NoIf}, asks : 0..MaxAsks,
       told : Nat]

PacketTtl == 64         \* time_to_live of a packet made here

PkAsk(dest)   == [proto |-> "pkask", dest |-> dest, ttl |-> PacketTtl, s |-> NoSend]
PkReply(dest) == [proto |-> "pkreply", dest |-> dest, ttl |-> PacketTtl, s |-> NoSend]
Data(s, dest) == [proto |-> "avim", dest |-> dest, ttl |-> PacketTtl, s |-> s]
Forwarded(p)  == [proto |-> p.proto, dest |-> p.dest, ttl |-> p.ttl - 1, s |-> NoSend]

\* The handler at work may return to the io_service: the process is alive and
\* no pass over the waiting list is being made.
Idle == fault = "none" /\ pass = NoPass

\* select_route: a matching route of the smallest metric (m_routes is sorted
\* by it; which one of equal metric comes first is not determined).
Matching(a) == {r \in mRoutes : a \in r.pattern}
SelectRoute(a) ==
    {r.ifname : r \in {q \in Matching(a) : \A o \in Matching(a) : q.metric <= o.metric}}

\* is_to_me compares no resources.
IsToMe(a) == \E i \in mAvifs : Bare[IfAddr[i]] = Bare[a]

PushTo(i, item) == wq' = [wq EXCEPT ![i] = Append(@, item)]

NewWaiter(s, late) == [s |-> s, late |-> late, no |-> nextNo]

\* Mutant: the list is gone through from its end.
IsLast(w, W) == w \in W /\ \A o \in W : w.no >= o.no

\* The first entry of the list among those of W.
IsFirst(w, W) == w \in W /\ \A o \in W : w.no <= o.no

Init ==
    /\ mAvifs = {} /\ mRoutes = {} /\ trusted = {}
    /\ waiters = {} /\ nextNo = 0
    /\ op = [s \in Sends |->
               [pc |-> "idle", target |-> NoAddr, ifc |-> NoIf, asks |-> 0, told |-> 0]]
    /\ wq = [i \in Ifs |-> <<>>]
    /\ writer = [i \in Ifs |-> "none"]
    /\ quitting = [i \in Ifs |-> FALSE]
    /\ recvBuf = <<>>
    /\ armed = {"timer1", "timer2"} /\ mQuitting = FALSE
    /\ pass = NoPass /\ fault = "none"
    /\ reads = 0 /\ issued = <<>> /\ wire = [i \in Ifs |-> <<>>]

-----------------------------------------------------------------------------
(***************************************************************************)
(* Interfaces and routes.                                                  *)
(***************************************************************************)

\* add_interface: into the map, and the two coroutines are started.
AddInterface(i) ==
    /\ Idle /\ ~ mQuitting
    /\ writer[i] = "none"
    /\ mAvifs' = mAvifs \cup {i}
    /\ writer' = [writer EXCEPT ![i] = "pop"]
    /\ UNCHANGED <<mRoutes, trusted, waiters, nextNo, op, wq, quitting, recvBuf, pass,
                   fault, wire, envVars>>

\* Mutant: the interface is not looked for in the map.
AddRouteUnchecked(r) ==
    /\ Idle /\ ~ mQuitting
    /\ mRoutes' = mRoutes \cup {r}
    /\ UNCHANGED <<mAvifs, trusted, waiters, nextNo, op, wq, writer, quitting, recvBuf,
                   pass, fault, wire, envVars>>

\* add_route, for an interface in the map (it asserts so).
AddRoute(r) ==
    /\ Idle /\ ~ mQuitting
    /\ r.ifname \in mAvifs
    /\ mRoutes' = mRoutes \cup {r}
    /\ UNCHANGED <<mAvifs, trusted, waiters, nextNo, op, wq, writer, quitting, recvBuf,
                   pass, fault, wire, envVars>>

\* remove_interface: its routes first, then the interface.
RemoveInterface(i) ==
    /\ mRoutes' = {r \in mRoutes : r.ifname # i}
    /\ mAvifs' = mAvifs \ {i}

\* Mutant: the writer's pop is not canceled.
CancelNothing(i) == i \in Ifs /\ UNCHANGED writer

\* _write_queue->cancele(): a pop that has no value yet is canceled.
CancelPop(i) ==
    writer' = IF writer[i] = "pop" /\ wq[i] = <<>>
                THEN [writer EXCEPT ![i] = "canceled"] ELSE writer

\* interface_runner reads no packet: it sets quitting, cancels the writer's
\* pop if that sleeps, and removes the interface.
ReadFail(i) ==
    /\ Idle
    /\ i \in Faulty /\ i \in mAvifs
    /\ quitting' = [quitting EXCEPT ![i] = TRUE]
    /\ CancelPop(i)
    /\ RemoveInterface(i)
    /\ UNCHANGED <<trusted, waiters, nextNo, op, wq, recvBuf, pass, fault, wire, envVars>>

-----------------------------------------------------------------------------
(***************************************************************************)
(* async_sendto_op, up to its first yield.                                 *)
(***************************************************************************)

Begin(s) == Idle /\ ~ mQuitting /\ op[s].pc = "idle" /\ issued' = Append(issued, s)

\* No route to the target: the caller is told at once.
SendNoRoute(s, t) ==
    /\ Begin(s)
    /\ SelectRoute(t) = {}
    /\ op' = [op EXCEPT ![s] = [@ EXCEPT !.pc = "unreachable", !.target = t,
                                         !.told = op[s].told + 1]]
    /\ UNCHANGED <<netVars, trusted, waiters, nextNo, wq, recvBuf, armed, mQuitting,
                   pass, fault, reads, wire>>

\* The key of the target is stored: the data is queued on the interface.
SendKnown(s, t, i) ==
    /\ Begin(s)
    /\ i \in SelectRoute(t) /\ t \in trusted
    /\ op' = [op EXCEPT ![s] = [@ EXCEPT !.pc = "queued", !.target = t, !.ifc = i]]
    /\ PushTo(i, Data(s, t))
    /\ UNCHANGED <<netVars, trusted, waiters, nextNo, recvBuf, armed, mQuitting,
                   pass, fault, reads, wire>>

\* The key is not stored: a pkask is queued and the send waits for a packet.
SendAsk(s, t, i) ==
    /\ Begin(s)
    /\ i \in SelectRoute(t) /\ t \notin trusted
    /\ op' = [op EXCEPT ![s] = [@ EXCEPT !.pc = "wait", !.target = t, !.ifc = i,
                                         !.asks = 1]]
    /\ PushTo(i, PkAsk(t))
    /\ waiters' = waiters \cup {NewWaiter(s, FALSE)}
    /\ nextNo' = nextNo + 1
    /\ UNCHANGED <<netVars, trusted, recvBuf, armed, mQuitting, pass, fault, reads, wire>>

-----------------------------------------------------------------------------
(***************************************************************************)
(* async_sendto_op, resumed by a pass over the waiting list.  The avif     *)
(* pointer was taken before the wait: when the interface has been removed  *)
(* since, its use is undefined; the process crashes, or the packet goes    *)
(* into a queue nobody reads.                                              *)
(***************************************************************************)

UseInterface(i, item) ==
    \/ i \in mAvifs /\ PushTo(i, item) /\ UNCHANGED fault
    \/ i \notin mAvifs /\ fault' \in {"none", "dangling"} /\ UNCHANGED wq

\* Mutant: the resumed send stays in the list.
ResumeSendKeepsEntry(w) ==
    LET o == op[w.s] IN
    /\ o.target \in trusted
    /\ UseInterface(o.ifc, Data(w.s, o.target))
    /\ op' = [op EXCEPT ![w.s] =
                [@ EXCEPT !.pc = IF o.ifc \in mAvifs THEN "queued" ELSE "lost"]]
    /\ UNCHANGED <<waiters, nextNo>>

\* The key is there: the data is queued.
ResumeSend(w) ==
    LET o == op[w.s] IN
    /\ o.target \in trusted
    /\ UseInterface(o.ifc, Data(w.s, o.target))
    /\ op' = [op EXCEPT ![w.s] =
                [@ EXCEPT !.pc = IF o.ifc \in mAvifs THEN "queued" ELSE "lost"]]
    /\ waiters' = waiters \ {w}
    /\ UNCHANGED nextNo

\* It is not, and the loop may ask again: another pkask, another wait.  The new
\* entry is behind the others and the tick at work comes to it too: it is late
\* at once when local_time was set back since the tick read it.
ResumeAsk(w) ==
    LET o == op[w.s] IN
    /\ o.target \notin trusted /\ o.asks < MaxAsks
    /\ UseInterface(o.ifc, PkAsk(o.target))
    /\ op' = [op EXCEPT ![w.s] = [@ EXCEPT !.asks = o.asks + 1]]
    /\ \E late \in BOOLEAN : waiters' = (waiters \ {w}) \cup {NewWaiter(w.s, late)}
    /\ nextNo' = nextNo + 1

\* Mutant: the entry of a send that gave up stays in the list.
ResumeGiveUpKeepsEntry(w) ==
    LET o == op[w.s] IN
    /\ o.target \notin trusted /\ o.asks = MaxAsks
    /\ op' = [op EXCEPT ![w.s] = [@ EXCEPT !.pc = "unreachable", !.told = o.told + 1]]
    /\ UNCHANGED <<waiters, nextNo, wq, fault>>

\* It is not, and the loop is over: the caller is told.
ResumeGiveUp(w) ==
    LET o == op[w.s] IN
    /\ o.target \notin trusted /\ o.asks = MaxAsks
    /\ op' = [op EXCEPT ![w.s] = [@ EXCEPT !.pc = "unreachable", !.told = o.told + 1]]
    /\ waiters' = waiters \ {w}
    /\ UNCHANGED <<nextNo, wq, fault>>

Resume(w) ==
    /\ ResumeSend(w) \/ ResumeAsk(w) \/ ResumeGiveUp(w)
    /\ UNCHANGED <<netVars, trusted, recvBuf, pass, envVars, wire>>

\* The pass after a packet: entries whose predicate holds for it.
Answered == {w \in waiters : op[w.s].target = pass.src /\ op[w.s].target \in trusted}

\* The pass of timer1_tick: entries whose deadline is over.
Expired == {w \in waiters : w.late}

WakeWaiter(w) ==
    /\ fault = "none" /\ pass.kind = "packet"
    /\ IsFirst(w, Answered)
    /\ Resume(w)

ExpireWaiter(w) ==
    /\ fault = "none" /\ pass.kind = "tick"
    /\ IsFirst(w, Expired)
    /\ Resume(w)

\* Mutant: the pass over the list ends early.
EndPassEarly ==
    /\ fault = "none" /\ pass # NoPass
    /\ pass' = NoPass
    /\ UNCHANGED <<netVars, trusted, waitVars, wq, recvBuf, fault, envVars, wire>>

EndPass ==
    /\ fault = "none"
    /\ \/ pass.kind = "packet" /\ Answered = {}
       \/ pass.kind = "tick" /\ Expired = {}
    /\ pass' = NoPass
    /\ UNCHANGED <<netVars, trusted, waitVars, wq, recvBuf, fault, envVars, wire>>

-----------------------------------------------------------------------------
(***************************************************************************)
(* process_recived_packet: p is read from interface i.                     *)
(***************************************************************************)

\* Mutant: the waiting sends are not looked at after the packet.
ReceiveWithoutPass(i, p) ==
    /\ Idle
    /\ i \in mAvifs
    /\ reads < MaxReads /\ reads' = reads + 1
    /\ p \in Packets
    /\ UNCHANGED <<netVars, waitVars, armed, mQuitting, issued, wire, pass>>

\* A key that comes with a packet of an unknown source is trusted; then the
\* packet is handled, and when it has been, the pass over the waiting sends
\* is made.
Receive(i, p) ==
    /\ Idle
    /\ i \in mAvifs
    /\ reads < MaxReads /\ reads' = reads + 1
    /\ pass' = [kind |-> "packet", src |-> p.src]
    /\ UNCHANGED <<netVars, waitVars, armed, mQuitting, issued, wire>>

Learn(p) == trusted' = IF p.haskey THEN trusted \cup {p.src} ELSE trusted

\* A request for this node's key: the certificate goes back where it came from.
RecvAsk(i, p) ==
    /\ Receive(i, p)
    /\ IsToMe(p.dest) /\ p.proto = "pkask"
    /\ Learn(p)
    /\ PushTo(i, PkReply(p.src))
    /\ UNCHANGED <<recvBuf, fault>>

\* The answer to such a request: the key is stored.
RecvReply(i, p) ==
    /\ Receive(i, p)
    /\ IsToMe(p.dest) /\ p.proto = "pkreply"
    /\ trusted' = trusted \cup {p.src}
    /\ UNCHANGED <<wq, recvBuf, fault>>

\* Data: decrypted with the key of the interface it came in on.  When it was
\* encrypted for the key of another one, RSA_private_decrypt returns -1 and
\* the append of that many bytes throws through the io_service.
RecvData(i, p) ==
    /\ Receive(i, p)
    /\ IsToMe(p.dest) /\ p.proto \in {"avim", "other"}
    /\ Learn(p)
    /\ LET mine == Bare[IfAddr[i]] = Bare[p.dest] IN
         /\ fault' = IF mine THEN fault ELSE "badkey"
         /\ recvBuf' = IF mine /\ p.proto = "avim" THEN Append(recvBuf, p.src) ELSE recvBuf
    /\ UNCHANGED wq

\* Somebody else's packet, forwarded.
Forward(i, p, out) ==
    /\ Receive(i, p)
    /\ ~ IsToMe(p.dest) /\ p.ttl > 1
    /\ out \in SelectRoute(p.dest)
    /\ Learn(p)
    /\ PushTo(out, Forwarded(p))
    /\ UNCHANGED <<recvBuf, fault>>

\* Somebody else's packet, too old or without a route.
Drop(i, p) ==
    /\ Receive(i, p)
    /\ ~ IsToMe(p.dest)
    /\ p.ttl <= 1 \/ SelectRoute(p.dest) = {}
    /\ Learn(p)
    /\ UNCHANGED <<wq, recvBuf, fault>>

\* async_recvfrom takes the oldest received data.
RecvFrom ==
    /\ Idle
    /\ recvBuf # <<>>
    /\ recvBuf' = Tail(recvBuf)
    /\ UNCHANGED <<netVars, trusted, waitVars, wq, pass, fault, envVars, wire>>

-----------------------------------------------------------------------------
(***************************************************************************)
(* interface_writer.                                                       *)
(***************************************************************************)

\* The pop returns a value, and its write begins.
WriterStart(i) ==
    /\ Idle
    /\ writer[i] = "pop" /\ wq[i] # <<>>
    /\ writer' = [writer EXCEPT ![i] = "writing"]
    /\ UNCHANGED <<mAvifs, mRoutes, quitting, trusted, waitVars, wq, recvBuf, pass, fault,
                   envVars, wire>>

\* Mutant: what was written stays at the head of the queue.
WriteDoneKeeps(i, ok) ==
    /\ Idle
    /\ writer[i] = "writing"
    /\ ok \/ i \in Faulty
    /\ LET s == Head(wq[i]).s IN
         IF s \in Sends
           THEN /\ op' = [op EXCEPT ![s] = [@ EXCEPT !.pc = "sent", !.told = op[s].told + 1]]
                /\ wire' = IF ok THEN [wire EXCEPT ![i] = Append(@, s)] ELSE wire
           ELSE UNCHANGED <<op, wire>>
    /\ writer' = [writer EXCEPT ![i] = IF quitting[i] THEN "exit" ELSE "pop"]
    /\ UNCHANGED <<mAvifs, mRoutes, quitting, trusted, waiters, nextNo, wq, recvBuf, pass,
                   fault, envVars>>

\* The write ends.  Whether it worked is lost in async_write_packet: the send
\* is told it did.  The loop ends if the interface is quitting.
WriteDone(i, ok) ==
    /\ Idle
    /\ writer[i] = "writing"
    /\ ok \/ i \in Faulty
    /\ wq' = [wq EXCEPT ![i] = Tail(@)]
    /\ LET s == Head(wq[i]).s IN
         IF s \in Sends
           THEN /\ op' = [op EXCEPT ![s] = [@ EXCEPT !.pc = "sent", !.told = op[s].told + 1]]
                /\ wire' = IF ok THEN [wire EXCEPT ![i] = Append(@, s)] ELSE wire
           ELSE UNCHANGED <<op, wire>>
    /\ writer' = [writer EXCEPT ![i] = IF quitting[i] THEN "exit" ELSE "pop"]
    /\ UNCHANGED <<mAvifs, mRoutes, quitting, trusted, waiters, nextNo, recvBuf, pass, fault,
                   envVars>>

\* The pop was canceled: the loop ends.
WriterBreak(i) ==
    /\ Idle
    /\ writer[i] = "canceled"
    /\ writer' = [writer EXCEPT ![i] = "exit"]
    /\ UNCHANGED <<mAvifs, mRoutes, quitting, trusted, waitVars, wq, recvBuf, pass, fault,
                   envVars, wire>>

-----------------------------------------------------------------------------
(***************************************************************************)
(* The timers and the end of the kernel.                                   *)
(***************************************************************************)

\* Mutant: a timer that has ticked is not armed again.
RearmNever(t) == armed' = armed \ {t}

\* timer1_start, timer2_start: not armed again once the kernel is quitting.
Rearm(t) == armed' = IF mQuitting THEN armed \ {t} ELSE armed

\* timer1_tick: the deadlines of the entries of late are over.  A deadline is
\* local_time and 8 seconds when the wait began, and local_time jumps both ways:
\* late may be any of the entries.
Tick(late) ==
    /\ Idle
    /\ "timer1" \in armed /\ Rearm("timer1")
    /\ late \subseteq waiters
    /\ waiters' = {[w EXCEPT !.late = w \in late] : w \in waiters}
    /\ pass' = [kind |-> "tick", src |-> NoAddr]
    /\ UNCHANGED <<netVars, trusted, nextNo, op, wq, recvBuf, fault, mQuitting, reads, issued,
                   wire>>

\* timer2_tick: purge_RSA_pubkey drops the keys of some addresses.
PurgeTick(gone) ==
    /\ Idle
    /\ "timer2" \in armed /\ Rearm("timer2")
    /\ gone \subseteq trusted
    /\ trusted' = trusted \ gone
    /\ UNCHANGED <<netVars, waitVars, wq, recvBuf, pass, fault, mQuitting, reads, issued,
                   wire>>

\* ~avkernel: what runs goes on running, the timers stop at their next tick.
Destroy ==
    /\ Idle /\ CanDestroy /\ ~ mQuitting
    /\ mQuitting' = TRUE
    /\ UNCHANGED <<netVars, trusted, waitVars, wq, recvBuf, pass, fault, armed, reads,
                   issued, wire>>

-----------------------------------------------------------------------------
Receives == \E i \in Ifs, p \in Packets :
    \/ RecvAsk(i, p)
    \/ RecvReply(i, p)
    \/ RecvData(i, p)
    \/ \E out \in Ifs : Forward(i, p, out)
    \/ Drop(i, p)

StartSend == \E s \in Sends, t \in Targets :
    \/ SendNoRoute(s, t)
    \/ \E i \in Ifs : SendKnown(s, t, i) \/ SendAsk(s, t, i)

PassStep == (\E w \in waiters : WakeWaiter(w) \/ ExpireWaiter(w)) \/ EndPass

WriterStep(i) == WriterStart(i) \/ WriterBreak(i) \/ \E ok \in BOOLEAN : WriteDone(i, ok)

Next ==
    \/ \E i \in Ifs : AddInterface(i) \/ ReadFail(i) \/ WriterStep(i)
    \/ \E r \in RouteItems : AddRoute(r)
    \/ StartSend
    \/ Receives
    \/ RecvFrom
    \/ PassStep
    \/ \E late \in SUBSET waiters : Tick(late)
    \/ \E gone \in SUBSET trusted : PurgeTick(gone)
    \/ Destroy

\* A tick that finds the entry of send s late.
Overdue(s) == \E late \in SUBSET waiters : (\E w \in late : w.s = s) /\ Tick(late)

\* The io_service runs what was posted in that order, so that nothing posted
\* is passed over for ever; a write ends; the timer ticks, and local time, set
\* back as it may be now and then, comes to every deadline.
Fairness ==
    /\ WF_vars(PassStep)
    /\ \A s \in Sends : SF_vars(Overdue(s))
    /\ \A i \in Ifs : SF_vars(WriterStep(i))

Spec == Init /\ [][Next]_vars /\ Fairness

-----------------------------------------------------------------------------
(***************************************************************************)
(* Properties.                                                             *)
(***************************************************************************)

TypeOK ==
    /\ mAvifs \subseteq Ifs /\ mRoutes \subseteq RouteItems /\ trusted \subseteq Addrs
    /\ waiters \subseteq Waiter /\ nextNo \in Nat
    /\ op \in [Sends -> Op]
    /\ wq \in [Ifs -> Seq(Item)]
    /\ writer \in [Ifs -> {"none", "pop", "writing", "canceled", "exit"}]
    /\ quitting \in [Ifs -> BOOLEAN]
    /\ recvBuf \in Seq(Addrs)
    /\ armed \subseteq {"timer1", "timer2"} /\ mQuitting \in BOOLEAN
    /\ pass \in Pass /\ fault \in {"none", "dangling", "badkey"}
    /\ reads \in 0..MaxReads /\ issued \in Seq(Sends) /\ wire \in [Ifs -> Seq(Sends)]

\* m_avifs.at in select_route never throws: every route leads to an interface
\* in the map, and every interface in the map has its writer running.
RoutesBacked ==
    /\ \A r \in mRoutes : r.ifname \in mAvifs
    /\ \A i \in mAvifs : ~ quitting[i] /\ writer[i] \in {"pop", "writing"}

\* No lost wakeup in process_recived_packet: outside the pass that follows a
\* packet, no send is waiting for a key that is already stored.
NoLostWakeup ==
    fault = "none" =>
        \A w \in waiters : op[w.s].target \in trusted =>
            pass = [kind |-> "packet", src |-> op[w.s].target]

\* The list of async_wait_processed_packet and the suspended coroutines agree:
\* every waiting send has exactly one entry, and nothing else has one.
WaitersMatchSends ==
    /\ \A w \in waiters : op[w.s].pc = "wait"
    /\ \A s \in Sends : op[s].pc = "wait" => \E w \in waiters : w.s = s
    /\ \A v, w \in waiters : v.s = w.s \/ v.no = w.no => v = w

\* The data of a send is in exactly one write queue, that of the interface it
\* chose, from async_interface_write_packet until it is written.
QueuedOnce ==
    /\ \A i \in Ifs : \A k \in 1..Len(wq[i]) :
          LET s == wq[i][k].s IN
          s \in Sends => /\ op[s].pc = "queued" /\ op[s].ifc = i
                         /\ \A j \in 1..Len(wq[i]) : wq[i][j].s = s => j = k
    /\ \A s \in Sends : op[s].pc = "queued" =>
          op[s].ifc \in Ifs /\ \E k \in 1..Len(wq[op[s].ifc]) : wq[op[s].ifc][k].s = s

\* The handler given to async_sendto is called exactly once.
NotifiedOnce ==
    \A s \in Sends : op[s].told = IF op[s].pc \in {"sent", "unreachable"} THEN 1 ELSE 0

\* An answer counts: once the key of its target is stored while a send waits, the
\* key stays until the send has queued its data with it, however many others
\* wait, whatever expires meanwhile and though purge_RSA_pubkey may drop the key;
\* the send is neither told network_unreachable nor left to ask again.
AnswerCounts ==
    [][\A s \in Sends : op[s].pc = "wait" /\ op[s].target \in trusted =>
          \/ op'[s] = op[s] /\ op[s].target \in trusted'
          \/ op'[s].pc \in {"queued", "lost"}]_vars

\* "保证数据包次序" (packet order is kept): of two sends to one target over one
\* interface whose first ask was answered in time, the one that started later
\* never overtakes the other, through the waiting list, the write queue and
\* the writer.
InOrder ==
    LET Before(s, t) == \E j, k \in 1..Len(issued) : j < k /\ issued[j] = s /\ issued[k] = t
    IN  \A i \in Ifs : \A j, k \in 1..Len(wire[i]) :
            LET s == op[wire[i][j]]
                t == op[wire[i][k]]
            IN  j < k /\ s.target = t.target /\ s.asks <= 1 /\ t.asks <= 1
                  => Before(wire[i][j], wire[i][k])

\* Interfaces and routes come and go as Routing allows: an interface leaves
\* with all of its routes and no other, through reads, sends and ticks.
Table == INSTANCE Routing WITH
    Names <- Ifs, Items <- RouteItems, avifs <- mAvifs, routes <- mRoutes
ImplementsRouting == Table!Spec

\* "做完成通知" (notify the end), says async_sendto_op above its last statement, and
\* "FIXME 这里为何调用不到" (why is this never reached): every send ends with one call
\* of its handler, whatever is answered, late or purged, but for the sends whose
\* data lies, or went, into the queue of an interface whose reader has failed.
\* (When the kernel is destroyed its timers stop, and a waiting send may wait.)
SendEnds ==
    \A s \in Sends : op[s].pc # "idle" ~>
        \/ op[s].told = 1 \/ fault # "none" \/ mQuitting
        \/ op[s].pc \in {"queued", "lost"} /\ quitting[op[s].ifc]

\* interface_writer ends after interface_runner has, wherever it was.
WriterExits == \A i \in Ifs : quitting[i] ~> (writer[i] = "exit" \/ fault # "none")

\* What async_sendto_op's comment says: the interface chosen by the route is
\* the one the data goes out on, so it is there when the packet is queued.
InterfaceStillThere == fault # "dangling"

\* Data goes out at most once, on one interface, and what is out is of a send that
\* was told success: who was told network_unreachable may send again, and the
\* receiver does not get it twice.
WrittenOnce ==
    \A i, j \in Ifs : \A k \in 1..Len(wire[i]), m \in 1..Len(wire[j]) :
        /\ wire[i][k] = wire[j][m] => i = j /\ k = m
        /\ op[wire[i][k]].pc = "sent"
=============================================================================
