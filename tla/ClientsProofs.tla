--------------------------- MODULE ClientsProofs ---------------------------
(***************************************************************************)
(* Proofs about Clients, for every set of threads and every bound:         *)
(* av_start returns with the kernel running, av_stop deletes nothing that  *)
(* is in use, a blocking call returns its own result, and the window       *)
(* serves nobody.                                                          *)
(***************************************************************************)
EXTENDS Clients, TLAPS

Places == {"idle", "once", "create", "thread", "ready", "posted", "waiting", "woken",
           "joining", "run"}
Kinds == {"send", "recv", "connect", "handshake"}
CallRec == [by : Threads, kind : Kinds, at : {"posted", "running", "ended", "dropped"}]

\* The places of a thread that av_start has returned to, and those in a call.
Started == {"ready", "posted", "waiting", "woken", "joining"}
Blocked == {"posted", "waiting", "woken"}

\* The types of the variables.
Types ==
    /\ program \in {"capi", "api", "gui"} /\ once \in {"no", "running", "done"}
    /\ core \in {"none", "live", "deleted"} /\ io \in {"none", "running", "exited"}
    /\ stopped \in BOOLEAN /\ fault \in {"none", "deleted", "exit", "null", "stack"}
    /\ pc \in [Threads -> Places]
    /\ calls \in Seq(CallRec) /\ ec \in Seq(Results) /\ outcome \in Seq(Results \cup {"none"})
    /\ Len(calls) <= MaxCalls /\ Len(ec) = Len(calls) /\ Len(outcome) = Len(calls)
    /\ cur \in [Threads -> {NoCall} \cup 1..Len(calls)]
    /\ handler \in {NoHandler} \cup [call : 1..Len(calls), at : {1, 2}]

\* What call_once and av_stop leave: until create_avkernel_instance returns to
\* the one thread that is in it there is no thread of the io_service and nothing
\* to stop; from then on nobody creates, and what is gone was stopped.
OnceInv ==
    /\ program # "capi" =>
         /\ once = "done" /\ core = "live"
         /\ \A t \in Threads : pc[t] \in Blocked \cup {"ready", "run"}
    /\ \A t, u \in Threads : pc[t] \in {"create", "thread"} /\ pc[u] \in {"create", "thread"}
         => t = u
    /\ once # "done" =>
         /\ io = "none" /\ ~ stopped
         /\ \A t \in Threads : pc[t] \in {"idle", "once", "create", "thread"}
    /\ \A t \in Threads :
         /\ pc[t] \in {"create", "thread"} => once = "running"
         /\ pc[t] = "thread" => core = "live"
    /\ program = "capi" /\ once = "done" =>
         /\ core # "none" /\ io # "none"
         /\ stopped \/ (core = "live" /\ io = "running")

\* The io_service runs handlers only in its thread.
HandlerInv ==
    /\ handler # NoHandler => io = "running" /\ calls[handler.call].at = "ended"
    /\ core = "deleted" => io = "exited"

\* A thread in a call is in one of its own.
FrameInv ==
    \A t \in Threads :
        /\ pc[t] \in Blocked => cur[t] # NoCall
        /\ cur[t] # NoCall => calls[cur[t]].by = t

\* ec of a call is what it was made with until its handler has set it.
ResultOf(c) ==
    /\ calls[c].at # "ended" => outcome[c] = "none" /\ ec[c] = "ok"
    /\ calls[c].at = "ended" =>
         /\ outcome[c] \in Results
         /\ \/ handler = [call |-> c, at |-> 1] /\ ec[c] = "ok"
            \/ ec[c] = outcome[c]
            \/ ~ InFrame(c)
ResultInv == \A c \in 1..Len(calls) : ResultOf(c)

\* Who was woken, and not by chance, was woken by the end of the handler.
WokenInv ==
    \A t \in Threads : pc[t] = "woken" /\ cur[t] \notin early =>
        calls[cur[t]].at = "ended" /\ handler # [call |-> cur[t], at |-> 1]

\* recvThread waits in handshake() for the io_service it would run itself, and
\* should it wake up it finds no address.
WindowNeverServes ==
    program = "gui" => io = "none" /\ \A c \in DOMAIN calls : calls[c].at = "posted"

IInv ==
    /\ Types /\ OnceInv /\ HandlerInv /\ FrameInv /\ ResultInv /\ WokenInv /\ WindowNeverServes

-----------------------------------------------------------------------------
(***************************************************************************)
(* The steps that leave the calls alone.                                   *)
(***************************************************************************)

\* Every call is of a thread.
LEMMA CallOf ==
    ASSUME Types, NEW c \in 1..Len(calls)
    PROVE  calls[c] \in CallRec /\ calls[c].by \in Threads
<1>1. calls[c] \in CallRec
  BY DEF Types
<1> QED
  BY <1>1 DEF CallRec

\* A step that touches no call and moves nobody into one, or to its end,
\* keeps what is known of the calls.
LEMMA CallsAlone ==
    ASSUME IInv, UNCHANGED callVars,
           \A t \in Threads : /\ pc'[t] \in Blocked => pc[t] \in Blocked
                              /\ pc'[t] = "woken" => pc[t] = "woken"
    PROVE  FrameInv' /\ ResultInv' /\ WokenInv'
<1> USE DEF IInv, callVars
<1>1. FrameInv'
  BY DEF FrameInv
<1>2. ResultInv'
  <2>1. \A c \in 1..Len(calls) : calls[c].by \in Threads
    BY CallOf
  <2>2. \A c \in 1..Len(calls) : InFrame(c)' => InFrame(c)
    BY <2>1 DEF InFrame, Blocked
  <2> QED
    BY <2>2 DEF ResultInv, ResultOf
<1>3. WokenInv'
  BY DEF WokenInv
<1> QED
  BY <1>1, <1>2, <1>3

\* av_start, by whoever creates the kernel and by whoever waits for it.
LEMMA StartKeeps ==
    ASSUME IInv, NEW t \in Threads,
           AvStart(t) \/ OnceReturns(t) \/ CreateKernel(t) \/ CreateThread(t)
    PROVE  IInv'
<1> USE DEF IInv, Go, callVars, coreVars
<1>1. Types'
  BY DEF Types, Places, AvStart, OnceReturns, CreateKernel, CreateThread
<1>2. OnceInv'
  <2>1. CASE AvStart(t)
    BY <2>1 DEF AvStart, OnceInv, Types, Blocked
  <2>2. CASE OnceReturns(t)
    BY <2>2 DEF OnceReturns, OnceInv, Types, Blocked
  <2>3. CASE CreateKernel(t)
    BY <2>3 DEF CreateKernel, OnceInv, Types, Blocked
  <2>4. CASE CreateThread(t)
    BY <2>4 DEF CreateThread, OnceInv, Types, Blocked
  <2> QED
    BY <2>1, <2>2, <2>3, <2>4
<1>3. HandlerInv' /\ WindowNeverServes'
  <2>1. CASE AvStart(t) \/ OnceReturns(t) \/ CreateKernel(t)
    BY <2>1 DEF AvStart, OnceReturns, CreateKernel, HandlerInv, WindowNeverServes, OnceInv
  <2>2. CASE CreateThread(t)
    <3>1. program = "capi" /\ io = "none" /\ core = "live"
      BY <2>2 DEF CreateThread, OnceInv, Blocked, Types
    <3> QED
      BY <2>2, <3>1 DEF CreateThread, HandlerInv, WindowNeverServes
  <2> QED
    BY <2>1, <2>2
<1>4. FrameInv' /\ ResultInv' /\ WokenInv'
  BY CallsAlone DEF AvStart, OnceReturns, CreateKernel, CreateThread, Types, Blocked
<1> QED
  BY <1>1, <1>2, <1>3, <1>4

\* av_stop, the end of io_service::run it waits for, and closeEvent.
LEMMA StopKeeps ==
    ASSUME IInv, (\E t \in Threads : AvStop(t) \/ Delete(t)) \/ IoExit \/ CloseEvent
    PROVE  IInv'
<1> USE DEF IInv, Go, callVars, coreVars
<1>1. Types'
  BY DEF Types, Places, AvStop, Delete, IoExit, CloseEvent
<1>2. OnceInv'
  <2>1. ASSUME NEW t \in Threads, AvStop(t)
        PROVE  OnceInv'
    BY <2>1 DEF AvStop, OnceInv, Types, Blocked
  <2>2. ASSUME NEW t \in Threads, Delete(t)
        PROVE  OnceInv'
    BY <2>2 DEF Delete, OnceInv, Types, Blocked
  <2>3. CASE IoExit
    BY <2>3 DEF IoExit, Serving, OnceInv, Types
  <2>4. CASE CloseEvent
    BY <2>4 DEF CloseEvent, OnceInv, Types
  <2> QED
    BY <2>1, <2>2, <2>3, <2>4
<1>3. HandlerInv'
  BY DEF AvStop, Delete, IoExit, CloseEvent, Serving, HandlerInv
<1>4. WindowNeverServes'
  BY DEF AvStop, Delete, IoExit, CloseEvent, Serving, WindowNeverServes
<1>5. FrameInv' /\ ResultInv' /\ WokenInv'
  BY CallsAlone DEF AvStop, Delete, IoExit, CloseEvent, Types, Blocked
<1> QED
  BY <1>1, <1>2, <1>3, <1>4, <1>5

\* ready.wait begins, and a call returns.
LEMMA WaitKeeps ==
    ASSUME IInv, NEW t \in Threads, BeginWait(t) \/ Return(t)
    PROVE  IInv'
<1> USE DEF IInv, Go, callVars, coreVars, BeginWait, Return
<1>1. Types'
  BY DEF Types, Places
<1>2. OnceInv'
  BY DEF OnceInv, Types, Blocked
<1>3. HandlerInv' /\ WindowNeverServes'
  BY DEF HandlerInv, WindowNeverServes
<1>4. FrameInv' /\ ResultInv' /\ WokenInv'
  BY CallsAlone DEF Types, Blocked
<1> QED
  BY <1>1, <1>2, <1>3, <1>4

\* The steps that end the process: recvThread after a handshake() that woke up
\* is one, because nobody has run the coroutine of the handshake.
LEMMA FaultKeeps ==
    ASSUME IInv, NEW t \in Threads,
           UseDeleted(t) \/ DeleteAgain(t) \/ ConnectFails(t) \/ AfterHandshake(t)
    PROVE  IInv'
<1> USE DEF IInv, callVars, coreVars
<1>1. UNCHANGED <<coreVars, pc, callVars>> /\ fault' \in {"deleted", "exit", "null"}
  <2>1. CASE UseDeleted(t) \/ DeleteAgain(t) \/ ConnectFails(t)
    BY <2>1 DEF UseDeleted, DeleteAgain, Deleted, ConnectFails
  <2>2. CASE AfterHandshake(t)
    <3>1. cur[t] \in 1..Len(calls) /\ program = "gui"
      BY <2>2 DEF AfterHandshake, Types
    <3>2. calls[cur[t]].at = "posted"
      BY <3>1 DEF WindowNeverServes, Types
    <3> QED
      BY <2>2, <3>2 DEF AfterHandshake
  <2> QED
    BY <2>1, <2>2
<1>2. Types' /\ OnceInv' /\ HandlerInv' /\ WindowNeverServes'
  BY <1>1 DEF Types, OnceInv, HandlerInv, WindowNeverServes
<1>3. FrameInv' /\ ResultInv' /\ WokenInv'
  BY <1>1, CallsAlone
<1> QED
  BY <1>2, <1>3

-----------------------------------------------------------------------------
(***************************************************************************)
(* The calls.                                                              *)
(***************************************************************************)

\* What a new call adds: its frame, which no other call shares.
LEMMA CallKeeps ==
    ASSUME IInv, NEW t \in Threads, NEW kind \in Kinds, Call(t, kind)
    PROVE  IInv'
<1> USE DEF IInv
<1> DEFINE n == Len(calls) + 1
<1>1. /\ calls \in Seq(CallRec) /\ ec \in Seq(Results) /\ outcome \in Seq(Results \cup {"none"})
      /\ Len(calls) \in Nat /\ Len(ec) = Len(calls) /\ Len(outcome) = Len(calls)
      /\ MaxCalls \in Nat /\ n \in 1..MaxCalls /\ n # NoCall
  BY ClientsAssumption DEF Types, Call
<1>2. /\ Len(calls') = n /\ Len(ec') = n /\ Len(outcome') = n
      /\ calls' \in Seq(CallRec) /\ ec' \in Seq(Results) /\ outcome' \in Seq(Results \cup {"none"})
      /\ calls'[n] = [by |-> t, kind |-> kind, at |-> "posted"]
      /\ ec'[n] = "ok" /\ outcome'[n] = "none"
      /\ \A c \in 1..Len(calls) :
            calls'[c] = calls[c] /\ ec'[c] = ec[c] /\ outcome'[c] = outcome[c]
  BY <1>1 DEF Call, CallRec, Results
<1>3. /\ pc[t] = "ready" /\ pc' = [pc EXCEPT ![t] = "posted"] /\ pc \in [Threads -> Places]
      /\ cur' = [cur EXCEPT ![t] = n] /\ cur \in [Threads -> {NoCall} \cup 1..Len(calls)]
      /\ UNCHANGED <<program, once, core, io, stopped, handler, fault, early>>
      /\ core = "live"
  BY DEF Call, Go, Types, coreVars
<1> HIDE DEF n
<1>4. 1..Len(calls') = 1..Len(calls) \cup {n} /\ n \notin 1..Len(calls)
  BY <1>1, <1>2 DEF n
<1>5. Types'
  <2>1. pc' \in [Threads -> Places] /\ cur' \in [Threads -> {NoCall} \cup 1..Len(calls')]
    BY <1>3, <1>4 DEF Places
  <2>2. handler' \in {NoHandler} \cup [call : 1..Len(calls'), at : {1, 2}]
    BY <1>3, <1>4 DEF Types
  <2> QED
    BY <1>1, <1>2, <1>3, <2>1, <2>2 DEF Types
<1>6. OnceInv'
  BY <1>3 DEF OnceInv, Blocked
<1>7. HandlerInv'
  BY <1>2, <1>3, <1>4 DEF HandlerInv, Types
<1>8. WindowNeverServes'
  <2>1. DOMAIN calls = 1..Len(calls) /\ DOMAIN calls' = 1..Len(calls')
    BY <1>1, <1>2
  <2> QED
    BY <1>2, <1>3, <1>4, <2>1 DEF WindowNeverServes
<1>9. FrameInv'
  BY <1>1, <1>2, <1>3, <1>4 DEF FrameInv, Blocked
<1>10. ResultInv'
  <2>1. \A c \in 1..Len(calls) : calls[c].by \in Threads
    BY CallOf
  <2>2. \A c \in 1..Len(calls) : InFrame(c)' => InFrame(c)
    BY <1>2, <1>3, <1>4, <2>1 DEF InFrame
  <2> QED
    <3> SUFFICES ASSUME NEW c \in 1..Len(calls')
                 PROVE  ResultOf(c)'
      BY DEF ResultInv
    <3>1. CASE c = n
      BY <1>2, <3>1 DEF ResultOf
    <3>2. CASE c \in 1..Len(calls)
      BY <1>2, <1>3, <2>2, <3>2 DEF ResultInv, ResultOf
    <3> QED
      BY <1>4, <3>1, <3>2
<1>11. WokenInv'
  <2> SUFFICES ASSUME NEW u \in Threads, pc'[u] = "woken", cur'[u] \notin early'
               PROVE  calls'[cur'[u]].at = "ended" /\ handler' # [call |-> cur'[u], at |-> 1]
    BY DEF WokenInv
  <2>1. u # t /\ pc[u] = "woken" /\ cur'[u] = cur[u]
    BY <1>3
  <2>2. cur[u] \in 1..Len(calls)
    BY <1>3, <2>1 DEF FrameInv, Blocked
  <2> QED
    BY <1>2, <1>3, <2>1, <2>2 DEF WokenInv
<1> QED
  BY <1>5, <1>6, <1>7, <1>8, <1>9, <1>10, <1>11

\* A spurious wakeup.
LEMMA SpuriousKeeps ==
    ASSUME IInv, NEW t \in Threads, Spurious(t)
    PROVE  IInv'
<1> USE DEF IInv
<1>1. /\ UNCHANGED <<program, once, core, io, stopped, cur, calls, ec, handler, outcome, fault>>
      /\ pc[t] = "waiting" /\ pc' = [pc EXCEPT ![t] = "woken"] /\ early' = early \cup {cur[t]}
      /\ pc \in [Threads -> Places]
  BY DEF Spurious, Go, coreVars, Types
<1>2. Types' /\ OnceInv' /\ HandlerInv' /\ WindowNeverServes'
  BY <1>1 DEF Types, Places, OnceInv, Blocked, HandlerInv, WindowNeverServes
<1>3. FrameInv' /\ WokenInv'
  BY <1>1 DEF FrameInv, WokenInv, Blocked
<1>4. ResultInv'
  <2>1. \A c \in 1..Len(calls) : calls[c].by \in Threads
    BY CallOf
  <2>2. \A c \in 1..Len(calls) : InFrame(c)' => InFrame(c)
    BY <1>1, <2>1 DEF InFrame
  <2> QED
    BY <1>1, <2>2 DEF ResultInv, ResultOf
<1> QED
  BY <1>2, <1>3, <1>4

-----------------------------------------------------------------------------
(***************************************************************************)
(* The thread of the io_service.                                           *)
(***************************************************************************)

\* The io_service runs nothing in the window.
LEMMA ServingIsNoWindow ==
    ASSUME IInv, io = "running"
    PROVE  program # "gui" /\ core # "deleted"
  BY DEF IInv, WindowNeverServes, HandlerInv

\* A coroutine starts.
LEMMA StartCoroutineKeeps ==
    ASSUME IInv, NEW c \in 1..Len(calls), StartCoroutine(c)
    PROVE  IInv'
<1> USE DEF IInv
<1>1. /\ calls \in Seq(CallRec) /\ calls[c].at = "posted" /\ calls[c] \in CallRec
      /\ calls' = [calls EXCEPT ![c].at = "running"]
      /\ UNCHANGED <<program, once, core, io, stopped, pc, cur, ec, handler, outcome, early>>
      /\ fault' \in {fault, "null"} /\ io = "running"
  BY DEF StartCoroutine, Serving, coreVars, Types
<1>2. /\ calls' \in Seq(CallRec) /\ Len(calls') = Len(calls)
      /\ calls'[c].at = "running" /\ calls'[c].by = calls[c].by
      /\ \A d \in 1..Len(calls) : d # c => calls'[d] = calls[d]
  BY <1>1 DEF CallRec
<1>3. Types' /\ OnceInv'
  BY <1>1, <1>2 DEF Types, OnceInv
<1>4. HandlerInv' /\ WindowNeverServes'
  BY <1>1, <1>2, ServingIsNoWindow DEF HandlerInv, WindowNeverServes, Types
<1>5. FrameInv'
  BY <1>1, <1>2 DEF FrameInv, Types
<1>6. ResultInv'
  BY <1>1, <1>2 DEF ResultInv, ResultOf, InFrame
<1>7. WokenInv'
  BY <1>1, <1>2 DEF WokenInv, FrameInv, Types, Blocked
<1> QED
  BY <1>3, <1>4, <1>5, <1>6, <1>7

\* The data of a send is dropped, and its coroutine stays where it is.
LEMMA SendDroppedKeeps ==
    ASSUME IInv, NEW c \in 1..Len(calls), SendDropped(c)
    PROVE  IInv'
<1> USE DEF IInv
<1>1. /\ calls \in Seq(CallRec) /\ calls[c].at = "running" /\ calls[c] \in CallRec
      /\ calls' = [calls EXCEPT ![c].at = "dropped"]
      /\ UNCHANGED <<program, once, core, io, stopped, pc, cur, ec, handler, outcome, early, fault>>
      /\ io = "running"
  BY DEF SendDropped, Serving, coreVars, Types
<1>2. /\ calls' \in Seq(CallRec) /\ Len(calls') = Len(calls)
      /\ calls'[c].at = "dropped" /\ calls'[c].by = calls[c].by
      /\ \A d \in 1..Len(calls) : d # c => calls'[d] = calls[d]
  BY <1>1 DEF CallRec
<1>3. Types' /\ OnceInv'
  BY <1>1, <1>2 DEF Types, OnceInv
<1>4. HandlerInv' /\ WindowNeverServes'
  BY <1>1, <1>2, ServingIsNoWindow DEF HandlerInv, WindowNeverServes, Types
<1>5. FrameInv'
  BY <1>1, <1>2 DEF FrameInv, Types
<1>6. ResultInv'
  BY <1>1, <1>2 DEF ResultInv, ResultOf, InFrame
<1>7. WokenInv'
  BY <1>1, <1>2 DEF WokenInv, FrameInv, Types, Blocked
<1> QED
  BY <1>3, <1>4, <1>5, <1>6, <1>7

\* A coroutine ends and its handler begins.
LEMMA EndsKeeps ==
    ASSUME IInv, NEW c \in 1..Len(calls), NEW kind, NEW result \in Results,
           Ends(c, kind, result)
    PROVE  IInv'
<1> USE DEF IInv
<1>1. /\ calls \in Seq(CallRec) /\ calls[c].at = "running" /\ calls[c] \in CallRec
      /\ calls' = [calls EXCEPT ![c].at = "ended"]
      /\ outcome' = [outcome EXCEPT ![c] = result]
      /\ outcome \in Seq(Results \cup {"none"}) /\ Len(outcome) = Len(calls)
      /\ handler = NoHandler /\ handler' = [call |-> c, at |-> 1]
      /\ UNCHANGED <<program, once, core, io, stopped, pc, cur, ec, fault, early>>
      /\ io = "running"
  BY DEF Ends, Serving, coreVars, Types
<1>2. /\ calls' \in Seq(CallRec) /\ Len(calls') = Len(calls)
      /\ calls'[c].at = "ended" /\ calls'[c].by = calls[c].by
      /\ outcome' \in Seq(Results \cup {"none"}) /\ Len(outcome') = Len(calls)
      /\ \A d \in 1..Len(calls) : d # c => calls'[d] = calls[d] /\ outcome'[d] = outcome[d]
  BY <1>1 DEF CallRec
<1>3. Types' /\ OnceInv'
  BY <1>1, <1>2 DEF Types, OnceInv
<1>4. HandlerInv' /\ WindowNeverServes'
  BY <1>1, <1>2, ServingIsNoWindow DEF HandlerInv, WindowNeverServes, Types
<1>5. FrameInv'
  BY <1>1, <1>2 DEF FrameInv, Types
<1>6. ResultInv'
  <2>1. NoCall \notin 1..Len(calls)
    BY ClientsAssumption DEF Types
  <2>2. \A d \in 1..Len(calls) : InFrame(d)' <=> InFrame(d)
    BY <1>1, <1>2 DEF InFrame
  <2>3. \A d \in 1..Len(calls) : handler # [call |-> d, at |-> 1]
    BY <1>1 DEF NoHandler
  <2> QED
    BY <1>1, <1>2, <2>2, <2>3 DEF ResultInv, ResultOf
<1>7. WokenInv'
  BY <1>1, <1>2 DEF WokenInv, FrameInv, Types, Blocked
<1> QED
  BY <1>3, <1>4, <1>5, <1>6, <1>7

\* A statement of the handler: the first sets ec, the second notifies.
LEMMA HandlerStepKeeps ==
    ASSUME IInv, HandlerStep
    PROVE  IInv'
<1> USE DEF IInv
<1> DEFINE c == handler.call
           t == calls[c].by
<1>1. /\ c \in 1..Len(calls) /\ handler = [call |-> c, at |-> handler.at]
      /\ handler.at \in {1, 2} /\ calls[c].at = "ended" /\ calls[c] \in CallRec
      /\ io = "running" /\ t \in Threads
  <2>1. c \in 1..Len(calls) /\ handler = [call |-> c, at |-> handler.at] /\ handler.at \in {1, 2}
    BY DEF HandlerStep, Types
  <2> HIDE DEF c
  <2> QED
    BY <2>1, CallOf DEF HandlerStep, HandlerInv, c
<1>2. /\ UNCHANGED <<program, once, core, io, stopped, cur, calls, outcome, early>>
      /\ fault' \in {fault, "stack"}
      /\ \/ /\ handler.at = 1 /\ handler' = [call |-> c, at |-> 2]
            /\ SetEc(c)
         \/ /\ handler.at = 2 /\ handler' = NoHandler
            /\ NotifyAll(c)
  <2>1. Len(HandlerBody) = 2 /\ HandlerBody[1] = "set" /\ HandlerBody[2] = "notify"
    BY DEF HandlerBody
  <2>2. CASE handler.at = 1
    BY <1>1, <2>1, <2>2 DEF HandlerStep, SetEc, coreVars
  <2>3. CASE handler.at = 2
    BY <1>1, <2>1, <2>3 DEF HandlerStep, NotifyAll, coreVars
  <2> QED
    BY <1>1, <2>2, <2>3
<1> HIDE DEF c, t
<1>3. CASE handler.at = 1 /\ handler' = [call |-> c, at |-> 2] /\ SetEc(c)
  <2>1. /\ pc' = pc
        /\ ec' = IF InFrame(c) THEN [ec EXCEPT ![c] = outcome[c]] ELSE ec
    BY <1>3 DEF SetEc
  <2>2. outcome[c] \in Results
    BY <1>1 DEF ResultInv, ResultOf
  <2>3. ec' \in Seq(Results) /\ Len(ec') = Len(calls)
        /\ (\A d \in 1..Len(calls) : d # c => ec'[d] = ec[d])
        /\ (InFrame(c) => ec'[c] = outcome[c])
    BY <1>1, <2>1, <2>2 DEF Types
  <2>4. Types' /\ OnceInv' /\ HandlerInv' /\ WindowNeverServes'
    BY <1>1, <1>2, <1>3, <2>1, <2>3 DEF Types, OnceInv, HandlerInv, WindowNeverServes
  <2>5. FrameInv' /\ WokenInv'
    BY <1>1, <1>2, <1>3, <2>1, <2>3 DEF FrameInv, WokenInv
  <2>6. ResultInv'
    <3>1. \A d \in 1..Len(calls) : InFrame(d)' <=> InFrame(d)
      BY <1>2, <2>1 DEF InFrame
    <3> QED
      BY <1>1, <1>2, <1>3, <2>3, <3>1 DEF ResultInv, ResultOf
  <2> QED
    BY <2>4, <2>5, <2>6
<1>4. CASE handler.at = 2 /\ handler' = NoHandler /\ NotifyAll(c)
  <2>1. /\ ec' = ec
        /\ pc' = IF InFrame(c) /\ pc[t] = "waiting" THEN [pc EXCEPT ![t] = "woken"] ELSE pc
    BY <1>4 DEF NotifyAll, t
  <2>2. Types' /\ OnceInv' /\ HandlerInv' /\ WindowNeverServes'
    BY <1>1, <1>2, <1>4, <2>1
       DEF Types, Places, OnceInv, Blocked, HandlerInv, WindowNeverServes
  <2>3. FrameInv'
    BY <1>1, <1>2, <1>4, <2>1 DEF FrameInv, Blocked, Types
  <2>4. ResultInv'
    <3>1. \A d \in 1..Len(calls) : InFrame(d)' <=> InFrame(d)
      BY <1>1, <1>2, <2>1 DEF InFrame, Types, CallRec
    <3> QED
      BY <1>1, <1>2, <1>4, <2>1, <3>1 DEF ResultInv, ResultOf
  <2>5. WokenInv'
    <3> SUFFICES ASSUME NEW u \in Threads, pc'[u] = "woken", cur[u] \notin early
                 PROVE  calls[cur[u]].at = "ended"
      BY <1>2, <1>4 DEF WokenInv, NoHandler
    <3>1. CASE pc[u] = "woken"
      BY <3>1 DEF WokenInv
    <3>2. CASE pc[u] # "woken"
      <4>1. u = t /\ cur[t] = c
        BY <2>1, <3>2 DEF InFrame, Types, t
      <4> QED
        BY <1>1, <4>1
    <3> QED
      BY <3>1, <3>2
  <2> QED
    BY <2>2, <2>3, <2>4, <2>5
<1> QED
  BY <1>2, <1>3, <1>4

-----------------------------------------------------------------------------
\* The invariant holds at the beginning of each of the three programs.
LEMMA InitEstablishes ==
    Init => IInv
<1> SUFFICES ASSUME Init PROVE IInv
  OBVIOUS
<1>1. /\ calls = <<>> /\ ec = <<>> /\ outcome = <<>> /\ Len(calls) = 0 /\ MaxCalls \in Nat
      /\ handler = NoHandler
  BY ClientsAssumption DEF Init
<1>2. Types
  <2>1. pc \in [Threads -> Places] /\ cur \in [Threads -> {NoCall} \cup 1..Len(calls)]
    BY DEF Init, Begins, Places
  <2>2. /\ calls \in Seq(CallRec) /\ ec \in Seq(Results)
        /\ outcome \in Seq(Results \cup {"none"})
        /\ Len(calls) <= MaxCalls /\ Len(ec) = Len(calls) /\ Len(outcome) = Len(calls)
    BY <1>1
  <2> QED
    BY <1>1, <2>1, <2>2 DEF Init, Begins, Types
<1>3. OnceInv
  BY DEF Init, Begins, OnceInv, Blocked
<1>4. HandlerInv /\ FrameInv
  BY DEF Init, Begins, HandlerInv, FrameInv, Blocked
<1>5. ResultInv /\ WokenInv /\ WindowNeverServes
  BY <1>1 DEF Init, Begins, ResultInv, ResultOf, WokenInv, WindowNeverServes
<1> QED
  BY <1>2, <1>3, <1>4, <1>5 DEF IInv

\* Every step keeps it.
LEMMA NextKeeps ==
    IInv /\ [Next]_vars => IInv'
<1> SUFFICES ASSUME IInv, [Next]_vars PROVE IInv'
  OBVIOUS
<1>0. DOMAIN calls = 1..Len(calls)
  BY DEF IInv, Types
<1>1. ASSUME NEW t \in Threads,
             \/ AvStart(t) \/ AvStop(t) \/ UseDeleted(t)
             \/ ConnectFails(t) \/ Spurious(t) \/ ThreadStep(t)
      PROVE  IInv'
  BY <1>1, StartKeeps, StopKeeps, FaultKeeps, WaitKeeps, SpuriousKeeps DEF ThreadStep
<1>2. ASSUME NEW t \in Threads,
             \/ Sendto(t) \/ Recvfrom(t) \/ ConnectToAvrouter(t) \/ OnSendButton(t)
             \/ RecvThreadRun(t)
      PROVE  IInv'
  <2>1. \E kind \in Kinds : Call(t, kind)
    BY <1>2 DEF Sendto, Recvfrom, ConnectToAvrouter, OnSendButton, RecvThreadRun, Kinds
  <2> QED
    BY <2>1, CallKeeps
<1>3. ASSUME NEW c \in DOMAIN calls, StartCoroutine(c) \/ SendEnds(c) \/ SendDropped(c) \/ DataComes(c)
      PROVE  IInv'
  BY <1>0, <1>3, StartCoroutineKeeps, SendDroppedKeeps, EndsKeeps DEF SendEnds, DataComes, Results
<1>4. CASE HandlerStep \/ IoExit \/ CloseEvent
  BY <1>4, HandlerStepKeeps, StopKeeps
<1>5. CASE UNCHANGED vars
  BY <1>5 DEF vars, IInv, Types, OnceInv, HandlerInv, FrameInv, ResultInv, ResultOf, InFrame, WokenInv,
              WindowNeverServes
<1> QED
  BY <1>1, <1>2, <1>3, <1>4, <1>5 DEF Next, IoStep

\* The inductive invariant, in every reachable state.
THEOREM Invariant ==
    Spec => []IInv
  BY InitEstablishes, NextKeeps, PTL DEF Spec

\* av_start returns to every caller with the kernel created and its thread
\* started, however many threads call it at once, until one calls av_stop.
THEOREM AvStartStarts ==
    Spec => []StartedOnReturn
<1>1. IInv => StartedOnReturn
  BY DEF IInv, OnceInv, Types, StartedOnReturn
<1> QED
  BY <1>1, Invariant, PTL

\* av_stop deletes the kernel and the service only when no handler is at work
\* on them: the thread of the io_service has left run().
THEOREM AvStopWaits ==
    Spec => []NoHandlerAfterDelete
<1>1. IInv => NoHandlerAfterDelete
  BY DEF IInv, HandlerInv, NoHandlerAfterDelete
<1> QED
  BY <1>1, Invariant, PTL

\* sendto and recvfrom return what their own handler was told, or success after
\* a spurious wakeup.
THEOREM CallReportsOwnResult ==
    Spec => []ReportsOwnResult
<1>1. IInv => ReportsOwnResult
  <2> SUFFICES ASSUME IInv, NEW t \in Threads, pc[t] = "woken"
               PROVE  \/ ec[cur[t]] = outcome[cur[t]]
                      \/ cur[t] \in early /\ ec[cur[t]] = "ok"
    BY DEF ReportsOwnResult
  <2>1. cur[t] \in 1..Len(calls) /\ calls[cur[t]].by = t /\ InFrame(cur[t])
    BY DEF IInv, FrameInv, Types, Blocked, InFrame
  <2> QED
    BY <2>1 DEF IInv, WokenInv, ResultInv, ResultOf
<1> QED
  BY <1>1, Invariant, PTL

\* In the window nothing ever runs the io_service, so that no coroutine starts.
THEOREM WindowServesNobody ==
    Spec => []WindowNeverServes
  BY Invariant, PTL DEF IInv
=============================================================================
