------------------------------- MODULE Clients -------------------------------
(***************************************************************************)
(* The blocking calls and the programs around the kernel: sendto and       *)
(* recvfrom of avkernel_impl, handshake of avjackif, the C interface       *)
(* (libavproto/src/avC_stub.cpp) and the window (gui/gavim.cpp).           *)
(*                                                                         *)
(* A blocking call spawns a coroutine and waits on a condition variable of *)
(* its own stack frame, without a predicate; the coroutine runs in the     *)
(* thread of the io_service and at its end calls a handler, which sets ec  *)
(* and notifies, without the mutex.  What the coroutine does is AvKernel's *)
(* and JackLink's; here it ends, or its data is dropped and it never does. *)
(*                                                                         *)
(* Three programs: "capi", threads that use the C interface; "api",        *)
(* threads that call an avkernel whose io_service runs and which has an    *)
(* interface; "gui", the window with its receiving thread and the threads  *)
(* its button starts.                                                      *)
(***************************************************************************)
EXTENDS Integers, Sequences, FiniteSets

CONSTANTS Threads,      \* the threads of the program, but for that of the io_service
          RecvThread,   \* the one that is recvThread in the window
          MaxCalls,     \* bound on the blocking calls
          MaxSpurious,  \* bound on the spurious wakeups
          NoCall

ASSUME ClientsAssumption ==
    /\ RecvThread \in Threads
    /\ MaxCalls \in Nat /\ MaxSpurious \in Nat /\ NoCall \notin 1..MaxCalls

VARIABLES program,      \* which program this is
          once,         \* onceflag
          core,         \* av_service, avkernel_intance and avkernelthread
          io,           \* the thread in io_service::run
          stopped,      \* io_service::stop was called
          pc,           \* where every thread is
          cur,          \* the call a thread is in, or was in last
          calls,        \* the calls made: who, what, where its coroutine is
          ec,           \* ec in the frame of a call
          handler,      \* the call whose handler is at work, and its next statement
          spurious,     \* number of spurious wakeups (bounded by MaxSpurious)
          fault,        \* what has ended the process: undefined behaviour or an exit
          outcome,      \* history: what the kernel told the handler of a call
          early,        \* history: the calls that a spurious wakeup ended
          missed        \* history: the calls whose handler notified before they waited

vars == <<program, once, core, io, stopped, pc, cur, calls, ec, handler, spurious, fault,
          outcome, early, missed>>

-----------------------------------------------------------------------------
Alive == fault = "none"
Results == {"ok", "unreachable"}
NoHandler == [call |-> NoCall, at |-> 0]

\* Mutant: the handler notifies first.
NotifyFirst == <<"notify", "set">>

\* The handler of sendto and recvfrom: ec = _ec; ready.notify_all().
HandlerBody == <<"set", "notify">>

Begins(p) ==
    /\ program = p
    /\ once = IF p = "capi" THEN "no" ELSE "done"
    /\ core = IF p = "capi" THEN "none" ELSE "live"
    /\ io = IF p = "api" THEN "running" ELSE "none"
    /\ pc = [t \in Threads |-> IF p = "capi" THEN "idle" ELSE "ready"]

Init ==
    /\ \E p \in {"capi", "api", "gui"} : Begins(p)
    /\ stopped = FALSE /\ cur = [t \in Threads |-> NoCall]
    /\ calls = <<>> /\ ec = <<>> /\ outcome = <<>>
    /\ handler = NoHandler /\ spurious = 0 /\ fault = "none" /\ early = {} /\ missed = {}

Go(t, from, to) == pc[t] = from /\ pc' = [pc EXCEPT ![t] = to]

callVars == <<cur, calls, ec, handler, spurious, outcome, early, missed>>
coreVars == <<program, once, core, io, stopped>>

-----------------------------------------------------------------------------
(***************************************************************************)
(* av_start and av_stop.                                                   *)
(***************************************************************************)

\* Mutant: a flag in place of the once_flag.
AvStartFlag(t) ==
    /\ Alive /\ program = "capi"
    /\ \/ once = "no" /\ once' = "done" /\ Go(t, "idle", "create")
       \/ once = "done" /\ Go(t, "idle", "ready") /\ UNCHANGED once
    /\ UNCHANGED <<program, core, io, stopped, callVars, fault>>

\* call_once: the first caller creates, those that come meanwhile wait.
AvStart(t) ==
    /\ Alive /\ program = "capi"
    /\ \/ once = "no" /\ once' = "running" /\ Go(t, "idle", "create")
       \/ once = "running" /\ Go(t, "idle", "once") /\ UNCHANGED once
       \/ once = "done" /\ Go(t, "idle", "ready") /\ UNCHANGED once
    /\ UNCHANGED <<program, core, io, stopped, callVars, fault>>

OnceReturns(t) ==
    /\ Alive /\ once = "done" /\ Go(t, "once", "ready")
    /\ UNCHANGED <<coreVars, callVars, fault>>

\* create_avkernel_instance: the service and the kernel, then the thread.
CreateKernel(t) ==
    /\ Alive /\ Go(t, "create", "thread") /\ core' = "live"
    /\ UNCHANGED <<program, once, io, stopped, callVars, fault>>

CreateThread(t) ==
    /\ Alive /\ Go(t, "thread", "ready") /\ io' = "running" /\ once' = "done"
    /\ UNCHANGED <<program, core, stopped, callVars, fault>>

\* Mutant: av_stop joins without the stop.
AvStopJoins(t) ==
    /\ Alive /\ program = "capi"
    /\ core = "live" /\ Go(t, "ready", "joining")
    /\ UNCHANGED <<program, once, core, io, stopped, callVars, fault>>

\* av_stop: stop(), join(), and the three objects are deleted.
AvStop(t) ==
    /\ Alive /\ program = "capi"
    /\ core = "live" /\ Go(t, "ready", "joining") /\ stopped' = TRUE
    /\ UNCHANGED <<program, once, core, io, callVars, fault>>

\* Mutant: av_stop does not join.
DeleteAtOnce(t) ==
    /\ Alive /\ core = "live" /\ Go(t, "joining", "idle") /\ core' = "deleted"
    /\ UNCHANGED <<program, once, io, stopped, callVars, fault>>

Delete(t) ==
    /\ Alive /\ io = "exited" /\ core = "live" /\ Go(t, "joining", "idle") /\ core' = "deleted"
    /\ UNCHANGED <<program, once, io, stopped, callVars, fault>>

\* A pointer to what av_stop has deleted is used: by a call after it or a
\* second av_stop, and by one that joined at the same time.
Deleted(t, at) ==
    /\ Alive /\ core = "deleted" /\ pc[t] = at
    /\ fault' = "deleted"
    /\ UNCHANGED <<coreVars, pc, callVars>>

UseDeleted(t) == Deleted(t, "ready")
DeleteAgain(t) == Deleted(t, "joining")

-----------------------------------------------------------------------------
(***************************************************************************)
(* A blocking call, in the thread that makes it.                           *)
(***************************************************************************)
\* The mutex is taken and the coroutine is spawned.
Call(t, kind) ==
    /\ Alive /\ core = "live" /\ Len(calls) < MaxCalls
    /\ Go(t, "ready", "posted")
    /\ calls' = Append(calls, [by |-> t, kind |-> kind, at |-> "posted"])
    /\ cur' = [cur EXCEPT ![t] = Len(calls) + 1]
    /\ ec' = Append(ec, "ok") /\ outcome' = Append(outcome, "none")
    /\ UNCHANGED <<coreVars, handler, spurious, fault, early, missed>>

Sendto(t)            == program # "gui" /\ Call(t, "send")
Recvfrom(t)          == program # "gui" /\ Call(t, "recv")
ConnectToAvrouter(t) == program = "capi" /\ Call(t, "connect")
OnSendButton(t)      == program = "gui" /\ t # RecvThread /\ Call(t, "send")

\* recvThread::run reads the key, connects and calls handshake().
RecvThreadRun(t) ==
    program = "gui" /\ t = RecvThread /\ cur[t] = NoCall /\ Call(t, "handshake")

\* Either of the two finds no key file and exits, or cannot connect and throws.
ConnectFails(t) ==
    /\ Alive /\ core = "live" /\ pc[t] = "ready"
    /\ program = "capi" \/ (program = "gui" /\ t = RecvThread /\ cur[t] = NoCall)
    /\ fault' = "exit"
    /\ UNCHANGED <<coreVars, pc, callVars>>

\* ready.wait(l) begins.
BeginWait(t) ==
    /\ Alive /\ Go(t, "posted", "waiting")
    /\ UNCHANGED <<coreVars, callVars, fault>>

Spurious(t) ==
    /\ Alive /\ spurious < MaxSpurious /\ spurious' = spurious + 1
    /\ Go(t, "waiting", "woken") /\ early' = early \cup {cur[t]}
    /\ UNCHANGED <<coreVars, cur, calls, ec, handler, outcome, fault, missed>>

\* The call returns ec.value().
Return(t) ==
    /\ Alive /\ Go(t, "woken", "ready")
    /\ UNCHANGED <<coreVars, callVars, fault>>

-----------------------------------------------------------------------------
(***************************************************************************)
(* The thread of the io_service.                                           *)
(***************************************************************************)
Serving == Alive /\ io = "running" /\ handler = NoHandler

\* Whether the frame of a call is still there.
InFrame(c) ==
    LET t == calls[c].by IN cur[t] = c /\ pc[t] \in {"posted", "waiting", "woken"}

\* The coroutine of a call starts.  That of connect_to_avrouter, jackif_login,
\* takes the address of an interface set_pki was not called for: there is none.
StartCoroutine(c) ==
    /\ Serving /\ ~ stopped
    /\ calls[c].at = "posted"
    /\ calls' = [calls EXCEPT ![c].at = "running"]
    /\ fault' = IF calls[c].kind = "connect" THEN "null" ELSE fault
    /\ UNCHANGED <<coreVars, pc, cur, ec, handler, spurious, outcome, early, missed>>

\* The coroutine of a send ends with a result: without an interface, and the C
\* interface never gets one, network_unreachable.
Ends(c, kind, result) ==
    /\ Serving /\ ~ stopped
    /\ calls[c].at = "running" /\ calls[c].kind = kind
    /\ calls' = [calls EXCEPT ![c].at = "ended"]
    /\ outcome' = [outcome EXCEPT ![c] = result]
    /\ handler' = [call |-> c, at |-> 1]
    /\ UNCHANGED <<coreVars, pc, cur, ec, spurious, fault, early, missed>>

SendEnds(c) == \E r \in Results : (program = "capi" => r = "unreachable") /\ Ends(c, "send", r)

\* Unless its interface quits while the data is in the write queue: the writer
\* leaves its loop, and the coroutine is never resumed.
SendDropped(c) ==
    /\ Serving /\ ~ stopped /\ program = "api"
    /\ calls[c].at = "running" /\ calls[c].kind = "send"
    /\ calls' = [calls EXCEPT ![c].at = "dropped"]
    /\ UNCHANGED <<coreVars, pc, cur, ec, handler, spurious, outcome, fault, early, missed>>

\* The coroutine of a recvfrom ends when data has come, if ever.
DataComes(c) == program = "api" /\ Ends(c, "recv", "ok")

\* A statement of the handler.  When the frame it refers to is gone, it writes
\* to whatever is there now, which may end the process.
SetEc(c) ==
    /\ ec' = IF InFrame(c) THEN [ec EXCEPT ![c] = outcome[c]] ELSE ec
    /\ fault' \in IF InFrame(c) THEN {fault} ELSE {fault, "stack"}
    /\ UNCHANGED <<pc, missed>>

\* Only a thread that waits is woken.
NotifyAll(c) ==
    LET t == calls[c].by IN
    /\ pc' = IF InFrame(c) /\ pc[t] = "waiting" THEN [pc EXCEPT ![t] = "woken"] ELSE pc
    /\ fault' \in IF InFrame(c) THEN {fault} ELSE {fault, "stack"}
    /\ missed' = IF InFrame(c) /\ pc[t] = "posted" THEN missed \cup {c} ELSE missed
    /\ UNCHANGED ec

HandlerStep ==
    /\ Alive /\ handler # NoHandler
    /\ \/ HandlerBody[handler.at] = "set" /\ SetEc(handler.call)
       \/ HandlerBody[handler.at] = "notify" /\ NotifyAll(handler.call)
    /\ handler' = IF handler.at = Len(HandlerBody) THEN NoHandler
                                                   ELSE [handler EXCEPT !.at = @ + 1]
    /\ UNCHANGED <<coreVars, cur, calls, spurious, outcome, early>>

\* run() returns after stop(), when the handler at work has ended.
IoExit ==
    /\ Serving /\ stopped /\ io' = "exited"
    /\ UNCHANGED <<program, once, core, stopped, pc, callVars, fault>>

-----------------------------------------------------------------------------
(***************************************************************************)
(* The window.                                                             *)
(***************************************************************************)

\* recvThread::run after handshake(): add_interface prints the remote address,
\* which there is only when the coroutine of the handshake has run; only then
\* would io_service_.run() be reached.
AfterHandshake(t) ==
    /\ Alive /\ program = "gui" /\ t = RecvThread /\ cur[t] # NoCall
    /\ IF calls[cur[t]].at = "posted"
         THEN pc[t] = "ready" /\ fault' = "null" /\ UNCHANGED <<pc, io>>
         ELSE Go(t, "ready", "run") /\ io' = "running" /\ UNCHANGED fault
    /\ UNCHANGED <<program, once, core, stopped, callVars>>

\* closeEvent.
CloseEvent ==
    /\ Alive /\ program = "gui" /\ ~ stopped /\ stopped' = TRUE
    /\ UNCHANGED <<program, once, core, io, pc, callVars, fault>>

-----------------------------------------------------------------------------
ThreadStep(t) ==
    \/ OnceReturns(t) \/ CreateKernel(t) \/ CreateThread(t) \/ Delete(t) \/ DeleteAgain(t)
    \/ BeginWait(t) \/ Return(t) \/ AfterHandshake(t)

IoStep ==
    \/ \E c \in DOMAIN calls : StartCoroutine(c) \/ SendEnds(c)
    \/ HandlerStep
    \/ IoExit

Next ==
    \/ \E t \in Threads :
          \/ AvStart(t) \/ AvStop(t) \/ UseDeleted(t)
          \/ Sendto(t) \/ Recvfrom(t) \/ ConnectToAvrouter(t) \/ OnSendButton(t)
          \/ RecvThreadRun(t) \/ ConnectFails(t)
          \/ Spurious(t)
          \/ ThreadStep(t)
    \/ IoStep
    \/ \E c \in DOMAIN calls : SendDropped(c) \/ DataComes(c)
    \/ CloseEvent

\* A thread that can go on does, and so does that of the io_service; a send of
\* the kernel ends or is dropped (AvKernel's SendEnds), a recvfrom need not end.
Spec == Init /\ [][Next]_vars /\ WF_vars(IoStep) /\ \A t \in Threads : WF_vars(ThreadStep(t))

-----------------------------------------------------------------------------
(***************************************************************************)
(* Properties.                                                             *)
(***************************************************************************)

\* av_start returns to every caller with the kernel created and its thread
\* started, also when two threads call it at once, until one of them calls av_stop.
StartedOnReturn ==
    \A t \in Threads : program = "capi" /\ pc[t] \in {"ready", "posted", "waiting", "woken", "joining"}
        => core # "none" /\ io # "none" /\ (stopped \/ (core = "live" /\ io = "running"))

\* av_stop deletes the kernel and the service only when their thread has left
\* io_service::run: no handler is at work on what is deleted.
NoHandlerAfterDelete ==
    core = "deleted" => io = "exited" /\ handler = NoHandler

\* A call of sendto or recvfrom returns what the kernel told its own handler,
\* unless a spurious wakeup has ended the wait: then it returns success.
ReportsOwnResult ==
    \A t \in Threads : pc[t] = "woken" =>
        LET c == cur[t] IN
        \/ calls[c].kind = "handshake"
        \/ ec[c] = outcome[c]
        \/ c \in early /\ ec[c] = "ok"

\* Every sendto returns, unless its interface quit with the data in the write
\* queue, its handler notified before the thread waited, the io_service was
\* stopped, or the process has ended; and av_stop returns.
CallsReturn ==
    \A t \in Threads :
        /\ (program # "gui" /\ pc[t] \in {"posted", "waiting"} /\ calls[cur[t]].kind = "send") ~>
             \/ pc[t] \notin {"posted", "waiting"} \/ stopped \/ ~ Alive
             \/ cur[t] \in missed \/ calls[cur[t]].at = "dropped"
        /\ pc[t] = "joining" ~> (pc[t] # "joining" \/ ~ Alive)

\* "开协程异步接收消息" (a coroutine receives the messages), says recvThread::run of
\* its last two statements: once the thread has called handshake() it comes to
\* io_service_.run(), unless the process ends or the window is closed.
WindowReceives ==
    (program = "gui" /\ pc[RecvThread] = "posted") ~> (io = "running" \/ stopped \/ ~ Alive)
==============================================================================
