----------------------------- MODULE CoroQueue ------------------------------
(***************************************************************************)
(* boost::async_coro_queue (libavproto/src/async_coro_queue.hpp): the      *)
(* queue on which the kernel's coroutines sleep.  A consumer calls         *)
(* async_pop and is resumed, through the io_service, with a value; a       *)
(* consumer that only wants to know that there is something calls          *)
(* async_wait; a producer calls push; cancele wakes the sleepers with an   *)
(* error.                                                                  *)
(*                                                                         *)
(* Handlers are named by the order of the call that passed them: the k-th  *)
(* call of async_pop passes pop handler k.  The io_service is external:    *)
(* post appends a completion to its queue, its one thread runs them in     *)
(* that order.                                                             *)
(***************************************************************************)
EXTENDS Naturals, Sequences

CONSTANTS Values,       \* the values that may be pushed
          NoValue,      \* value_type(), the value of a canceled pop
          MaxPush,      \* bound on the calls of push
          MaxPop,       \* bound on the calls of async_pop
          MaxWait,      \* bound on the calls of async_wait
          MaxCancel     \* bound on the calls of cancele

ASSUME QueueAssumption ==
    /\ NoValue \notin Values
    /\ MaxPush \in Nat /\ MaxPop \in Nat /\ MaxWait \in Nat /\ MaxCancel \in Nat

VARIABLES mList,         \* m_list: values nobody has asked for yet
          mHandlers,     \* m_handlers: pop handlers asleep
          mWaitHandlers, \* m_wait_handlers: wait handlers asleep
          ready,         \* completions posted to the io_service, not yet run
          pushed,        \* history: every value pushed
          handed,        \* history: every value bound to a pop handler
          got,           \* history: every value a pop handler has run with
          pops,          \* history: number of calls of async_pop
          ran,           \* history: number of pop handlers that have run
          waits,         \* history: number of calls of async_wait
          woken,         \* history: number of wait handlers that have run
          canceled,      \* history: number of pop handlers canceled
          cancels        \* history: number of calls of cancele

vars == <<mList, mHandlers, mWaitHandlers, ready, pushed, handed, got,
          pops, ran, waits, woken, canceled, cancels>>

-----------------------------------------------------------------------------
Completion ==
    [op : {"pop"}, id : 1..MaxPop, ec : {"ok", "canceled"}, val : Values \cup {NoValue}]
      \cup [op : {"wait"}, id : 1..MaxWait, ec : {"ok", "canceled"}]

PopDone(h, ec, v) == [op |-> "pop", id |-> h, ec |-> ec, val |-> v]
WaitDone(h, ec)   == [op |-> "wait", id |-> h, ec |-> ec]

\* The completions posted by a BOOST_FOREACH over sleeping handlers.
WakeWaiters(hs, ec) == [k \in 1..Len(hs) |-> WaitDone(hs[k], ec)]
CancelPops(hs)      == [k \in 1..Len(hs) |-> PopDone(hs[k], "canceled", NoValue)]

Init ==
    /\ mList = <<>> /\ mHandlers = <<>> /\ mWaitHandlers = <<>> /\ ready = <<>>
    /\ pushed = <<>> /\ handed = <<>> /\ got = <<>>
    /\ pops = 0 /\ ran = 0 /\ waits = 0 /\ woken = 0
    /\ canceled = 0 /\ cancels = 0

\* async_pop on an empty list: the handler goes to sleep.
PopSleeps ==
    /\ mList = <<>>
    /\ mHandlers' = Append(mHandlers, pops + 1)
    /\ UNCHANGED <<mList, ready, handed>>

\* Mutant: the value stays in m_list after it was posted.
PopTakesAndKeeps ==
    /\ mList # <<>>
    /\ ready' = Append(ready, PopDone(pops + 1, "ok", Head(mList)))
    /\ handed' = Append(handed, Head(mList))
    /\ UNCHANGED <<mList, mHandlers>>

\* async_pop with a value at hand: the handler is posted with it at once.
PopTakes ==
    /\ mList # <<>>
    /\ ready' = Append(ready, PopDone(pops + 1, "ok", Head(mList)))
    /\ handed' = Append(handed, Head(mList))
    /\ mList' = Tail(mList)
    /\ UNCHANGED mHandlers

AsyncPop ==
    /\ pops < MaxPop
    /\ PopSleeps \/ PopTakes
    /\ pops' = pops + 1
    /\ UNCHANGED <<mWaitHandlers, pushed, got, ran, waits, woken, canceled, cancels>>

\* Mutant: async_wait sleeps without looking whether there is a value.
AsyncWaitAlways ==
    /\ waits < MaxWait
    /\ mWaitHandlers' = Append(mWaitHandlers, waits + 1)
    /\ waits' = waits + 1
    /\ UNCHANGED <<mList, mHandlers, ready, pushed, handed, got, pops, ran, woken,
                   canceled, cancels>>

\* async_wait: asleep until the next push, or posted if there is a value.
AsyncWait ==
    /\ waits < MaxWait
    /\ IF mList = <<>>
         THEN /\ mWaitHandlers' = Append(mWaitHandlers, waits + 1)
              /\ UNCHANGED ready
         ELSE /\ ready' = Append(ready, WaitDone(waits + 1, "ok"))
              /\ UNCHANGED mWaitHandlers
    /\ waits' = waits + 1
    /\ UNCHANGED <<mList, mHandlers, pushed, handed, got, pops, ran, woken,
                   canceled, cancels>>

\* Mutant: the oldest handler stays in m_handlers after it was posted.
PushWakesAndKeeps(v) ==
    /\ mHandlers # <<>>
    /\ ready' = ready \o WakeWaiters(mWaitHandlers, "ok")
                      \o <<PopDone(Head(mHandlers), "ok", v)>>
    /\ handed' = Append(handed, v)
    /\ UNCHANGED <<mHandlers, mList>>

\* Mutant: the oldest handler is dropped, its completion never posted.
PushForgetsPost(v) ==
    /\ mHandlers # <<>>
    /\ ready' = ready \o WakeWaiters(mWaitHandlers, "ok")
    /\ mHandlers' = Tail(mHandlers)
    /\ handed' = Append(handed, v)
    /\ UNCHANGED mList

\* push with a pop handler asleep: the oldest one is posted with the value.
PushWakes(v) ==
    /\ mHandlers # <<>>
    /\ ready' = ready \o WakeWaiters(mWaitHandlers, "ok")
                      \o <<PopDone(Head(mHandlers), "ok", v)>>
    /\ mHandlers' = Tail(mHandlers)
    /\ handed' = Append(handed, v)
    /\ UNCHANGED mList

\* Mutant: the newest value is taken out first.
PushKeepsInFront(v) ==
    /\ mHandlers = <<>>
    /\ ready' = ready \o WakeWaiters(mWaitHandlers, "ok")
    /\ mList' = <<v>> \o mList
    /\ UNCHANGED <<mHandlers, handed>>

\* push with nobody asleep on a pop: the value is kept.
PushKeeps(v) ==
    /\ mHandlers = <<>>
    /\ ready' = ready \o WakeWaiters(mWaitHandlers, "ok")
    /\ mList' = Append(mList, v)
    /\ UNCHANGED <<mHandlers, handed>>

\* push: in both cases every wait handler is posted first.
Push(v) ==
    /\ Len(pushed) < MaxPush
    /\ PushWakes(v) \/ PushKeeps(v)
    /\ pushed' = Append(pushed, v)
    /\ mWaitHandlers' = <<>>
    /\ UNCHANGED <<got, pops, ran, waits, woken, canceled, cancels>>

\* cancele: the wait handlers are canceled only when a pop handler sleeps too.
Cancele ==
    /\ cancels < MaxCancel
    /\ cancels' = cancels + 1
    /\ IF mHandlers # <<>>
         THEN /\ ready' = ready \o WakeWaiters(mWaitHandlers, "canceled")
                                \o CancelPops(mHandlers)
              /\ mWaitHandlers' = <<>>
         ELSE UNCHANGED <<ready, mWaitHandlers>>
    /\ mHandlers' = <<>>
    /\ canceled' = canceled + Len(mHandlers)
    /\ UNCHANGED <<mList, pushed, handed, got, pops, ran, waits, woken>>

\* The io_service's thread runs the completion posted first.
RunReady ==
    /\ ready # <<>>
    /\ LET c == Head(ready) IN
         IF c.op = "pop"
           THEN /\ ran' = ran + 1
                /\ got' = IF c.ec = "ok" THEN Append(got, c.val) ELSE got
                /\ UNCHANGED woken
           ELSE woken' = woken + 1 /\ UNCHANGED <<ran, got>>
    /\ ready' = Tail(ready)
    /\ UNCHANGED <<mList, mHandlers, mWaitHandlers, pushed, handed, pops, waits,
                   canceled, cancels>>

Next ==
    \/ AsyncPop
    \/ AsyncWait
    \/ \E v \in Values : Push(v)
    \/ Cancele
    \/ RunReady

\* The io_service keeps running what was posted; its users call when they like.
Spec == Init /\ [][Next]_vars /\ WF_vars(RunReady)

-----------------------------------------------------------------------------
(***************************************************************************)
(* Properties.                                                             *)
(***************************************************************************)

TypeOK ==
    /\ mList \in Seq(Values)
    /\ mHandlers \in Seq(1..MaxPop)
    /\ mWaitHandlers \in Seq(1..MaxWait)
    /\ ready \in Seq(Completion)
    /\ pushed \in Seq(Values) /\ handed \in Seq(Values)
    /\ got \in Seq(Values \cup {NoValue})
    /\ pops \in 0..MaxPop /\ ran \in Nat /\ waits \in 0..MaxWait /\ woken \in Nat
    /\ canceled \in Nat /\ cancels \in 0..MaxCancel

\* The two BOOST_ASSERTs of push: while a handler sleeps, of either kind, the
\* list is empty.  Whatever the order of pops, waits, pushes and cancels.
SleepersMeanEmpty ==
    mHandlers # <<>> \/ mWaitHandlers # <<>> => mList = <<>>

\* push and async_pop lose nothing and repeat nothing: what was pushed is what
\* was bound to a handler followed by what is still in m_list, in order.
NothingLost == pushed = handed \o mList

\* push and async_pop never leave a value and a pop handler that could have
\* had it waiting for each other: as many values are bound as the shorter of
\* the two queues allows.
NoIdleMatch ==
    Len(handed) = IF pops - canceled < Len(pushed) THEN pops - canceled
                                                   ELSE Len(pushed)

\* Every handler passed to async_pop or async_wait is called exactly once, in
\* the order of the calls, whether it slept, was served at once or was
\* canceled: the ones still to run are the posted ones, then the sleeping ones.
Numbered(cs, op, from, to) ==
    LET posted == {k \in 1..Len(cs) : cs[k].op = op}
    IN  /\ \A k \in posted : cs[k].id \in (from + 1)..to
        /\ \A h \in (from + 1)..to : \E k \in posted : cs[k].id = h
        /\ \A j, k \in posted : j < k => cs[j].id < cs[k].id
CalledOnce(op, done, made, asleep) ==
    LET last == made - Len(asleep)
    IN  /\ done <= last /\ Numbered(ready, op, done, last)
        /\ \A k \in 1..Len(asleep) : asleep[k] = last + k
EachHandlerOnce ==
    /\ CalledOnce("pop", ran, pops, mHandlers)
    /\ CalledOnce("wait", woken, waits, mWaitHandlers)

\* Seen from the handlers that run, the queue is a first-in first-out channel.
Channel == INSTANCE Fifo WITH in <- pushed, out <- got
ImplementsFifo == Channel!Spec

\* No lost wakeup in push and async_pop: once n values were pushed and n pops
\* (not canceled) were called, the n-th value reaches a handler.
Delivered ==
    \A n \in 1..MaxPush :
        (Len(pushed) >= n /\ pops - canceled >= n) ~> (Len(got) >= n)
=============================================================================
