------------------------------ MODULE FuseSession ------------------------------
(***************************************************************************)
(* The process that serves one mount: libfuse's worker pool                *)
(* (fuse_loop_mt.c), its request objects, INIT gate and interrupt list     *)
(* (fuse_lowlevel.c) and signal handlers (fuse_signals.c), driven through  *)
(* the custom I/O hooks and the SIGUSR2 handover of src/src/fuse_fs.zig,   *)
(* with the `modelfs update` command of src/src/main.zig on the other end. *)
(*                                                                         *)
(* A step is a critical section of mt.lock or se->lock, a blocking system  *)
(* call, or the code between two of them.  A handler is one step (what it  *)
(* does to the store is CachedFile, to the inode table InodeTable) and a   *)
(* request object is known by the request it was made for.  The kernel's   *)
(* side of /dev/fuse is external.                                          *)
(***************************************************************************)
EXTENDS Integers, Sequences, FiniteSets, SequencesExt, FiniteSetsExt

CONSTANTS Init_,        \* the FUSE_INIT request of the connection
          Ops,          \* requests a handler answers
          Forgets,      \* FUSE_FORGET and FUSE_BATCH_FORGET: no answer
          Signalled,    \* the requests whose caller may be signalled
          MaxThreads,   \* mt.max_threads (10 in the default configuration)
          Loads         \* what may happen to the session: see LoadType

ASSUME SessionAssumption ==
    /\ Init_ \notin Ops \cup Forgets
    /\ Ops \cap Forgets = {}
    /\ Signalled \subseteq Ops
    /\ MaxThreads \in Nat \ {0}

\* The requests sent; bounds on failures (thread creation, calloc, a step of
\* the exec) and on `modelfs update` commands; whether SIGTERM may arrive, and
\* whether the mount may go from outside (an unmount, or an abort).
LoadType ==
    [requests : SUBSET (Ops \cup Forgets), maxFaults : Nat, maxUpdates : Nat, mayTerminate : BOOLEAN,
     maySever : BOOLEAN]

ASSUME LoadAssumption == Loads \subseteq LoadType

Answered == {Init_} \cup Ops
Req == Answered \cup Forgets
Workers == 1..MaxThreads

\* What travels on the connection: a request, or an interrupt of one.
Msg(k, r) == [kind |-> k, of |-> r]
Msgs == {Msg("request", r) : r \in Req} \cup {Msg("interrupt", r) : r \in Signalled}
Nothing == [kind |-> "none", of |-> Init_]

VARIABLES
    load,        \* the load of this behaviour
    sent,        \* kernel: each request's state; the answer once it has one
    intr,        \* kernel: the interrupt of each signalled request
    nrep,        \* answers written to the connection per request
    severed,     \* kernel: the connection is gone
    ran,         \* handler runs per request
    wpc,         \* worker: where it is
    wmsg,        \* worker: its fbuf
    wagain,      \* worker: the queued interrupt it is about to bounce
    cancelled,   \* workers with a pending pthread_cancel
    numworker, numavail, mtExit, finish,   \* struct fuse_mt; finish is its semaphore
    gotInit, exited,                       \* struct fuse_session
    list,        \* se->list: the requests being processed
    interrupts,  \* se->interrupts: interrupts that overtook their request
    ctr,         \* req->ctr; 0 once the object is freed
    interrupted, \* requests flagged req->interrupted
    main,        \* the main thread
    asked,       \* st.handover_asked, and the wakeup pipe written with it
    captured,    \* st.init_len # 0
    armed,       \* SIGUSR2 has its handler, not SIG_DFL
    usr2,        \* the handler onUsr2
    reqFile, ackFile, token,   \* update.req, update.ack, st.update_token
    upc, round,  \* the update command and its number
    faults, timeouts, terminated           \* what went wrong so far

kernel == <<sent, intr, nrep, severed>>
request == <<list, interrupts, ctr, interrupted, ran>>
worker == <<wpc, wmsg, wagain>>
pool == <<numworker, numavail, mtExit, finish, cancelled>>
session == <<gotInit, exited>>
handover == <<asked, captured, armed, usr2, token>>
files == <<reqFile, ackFile>>
updater == <<upc, round, timeouts>>
vars == <<kernel, request, worker, pool, session, main, handover, files, updater, faults, terminated, load>>

Answers == {"ok", "ENOMEM", "EIO"}
Waiting == {"queued", "read"}
Gone == main \in {"ended", "dead"}

TypeOK ==
    /\ load \in Loads
    /\ sent \in [Req -> {"idle", "withdrawn", "aborted", "done"} \cup Waiting \cup Answers]
    /\ intr \in [Signalled -> {"none", "queued", "read", "done"}]
    /\ severed \in BOOLEAN /\ nrep \in [Req -> 0..2] /\ ran \in [Req -> 0..2]
    /\ wpc \in [Workers -> {"absent", "top", "poll", "read", "got", "lock", "process", "bounce", "handle",
                            "reply", "free", "mark", "put", "back", "post", "ended"}]
    /\ wmsg \in [Workers -> Msgs \cup {Nothing}]
    /\ wagain \in [Workers -> Signalled \cup {Init_}]
    /\ cancelled \subseteq Workers
    /\ numworker \in 0..MaxThreads /\ numavail \in -MaxThreads..MaxThreads
    /\ mtExit \in BOOLEAN /\ finish \in 0..MaxThreads
    /\ gotInit \in BOOLEAN /\ exited \in BOOLEAN
    /\ list \subseteq Req /\ interrupts \in Seq(Signalled) /\ ctr \in [Req -> 0..(MaxThreads + 1)]
    /\ interrupted \subseteq Req
    /\ main \in {"adopt", "replay", "arm", "ack", "start", "check", "wait", "cancel", "join", "out",
                 "exec", "ended", "dead"}
    /\ asked \in BOOLEAN /\ captured \in BOOLEAN /\ armed \in BOOLEAN
    /\ usr2 \in {"none", "pending", "asked"}
    /\ {reqFile, ackFile, token} \subseteq 0..load.maxUpdates
    /\ upc \in {"idle", "published", "waiting", "acked", "failed"} /\ round \in 0..load.maxUpdates
    /\ faults \in 0..load.maxFaults /\ timeouts \in 0..load.maxUpdates /\ terminated \in BOOLEAN

Init ==
    /\ load \in Loads
    /\ sent = [r \in Req |-> IF r = Init_ THEN "queued" ELSE "idle"]
    /\ intr = [r \in Signalled |-> "none"]
    /\ severed = FALSE /\ nrep = [r \in Req |-> 0] /\ ran = [r \in Req |-> 0]
    /\ wpc = [w \in Workers |-> "absent"] /\ wmsg = [w \in Workers |-> Nothing]
    /\ wagain = [w \in Workers |-> Init_]
    /\ cancelled = {} /\ numworker = 0 /\ numavail = 0 /\ mtExit = FALSE /\ finish = 0
    /\ gotInit = FALSE /\ exited = FALSE
    /\ list = {} /\ interrupts = <<>> /\ ctr = [r \in Req |-> 0] /\ interrupted = {}
    /\ main = "arm" /\ asked = FALSE /\ captured = FALSE /\ armed = FALSE /\ usr2 = "none"
    /\ reqFile = 0 /\ ackFile = 0 /\ token = 0
    /\ upc = "idle" /\ round = 0 /\ faults = 0 /\ timeouts = 0 /\ terminated = FALSE

-------------------------------------------------------------------------------
(* The kernel, external.                                                    *)

\* Requests follow the reply to FUSE_INIT.
Send(r) ==
    /\ ~Gone /\ ~severed
    /\ sent[Init_] = "ok" /\ sent[r] = "idle"
    /\ sent' = [sent EXCEPT ![r] = "queued"]
    /\ UNCHANGED <<intr, nrep, severed, request, worker, pool, session, main, handover, files, updater, faults, terminated, load>>

\* A caller killed before its request was read takes it back.
Withdraw(r) ==
    /\ sent[r] = "queued" /\ r \in Signalled
    /\ sent' = [sent EXCEPT ![r] = "withdrawn"]
    /\ UNCHANGED <<intr, nrep, severed, request, worker, pool, session, main, handover, files, updater, faults, terminated, load>>

Interrupt(r) ==
    /\ sent[r] = "read" /\ intr[r] = "none"
    /\ intr' = [intr EXCEPT ![r] = "queued"]
    /\ UNCHANGED <<sent, nrep, severed, request, worker, pool, session, main, handover, files, updater, faults, terminated, load>>

Queued == {Msg("request", r) : r \in {q \in Req : sent[q] = "queued"}}
          \cup {Msg("interrupt", r) : r \in {q \in Signalled : intr[q] = "queued"}}

\* read(2) hands out one message; a forget is then none of the kernel's business.
Dequeue(m) ==
    IF m.kind = "interrupt"
    THEN intr' = [intr EXCEPT ![m.of] = "read"] /\ UNCHANGED sent
    ELSE sent' = [sent EXCEPT ![m.of] = IF m.of \in Forgets THEN "done" ELSE "read"] /\ UNCHANGED intr

\* An answer to a request nobody waits for is ENOENT; an answer also drops
\* the interrupt still queued.  A connection that is gone takes none.
Answer(r, a) ==
    \/ severed /\ UNCHANGED kernel
    \/ /\ ~severed
       /\ nrep' = [nrep EXCEPT ![r] = @ + 1]
       /\ sent' = [sent EXCEPT ![r] = IF @ = "read" THEN a ELSE @]
       /\ intr' = [q \in Signalled |-> IF q = r /\ intr[q] = "queued" THEN "done" ELSE intr[q]]
       /\ UNCHANGED severed

\* The mount goes while the daemon serves it: what is out there is aborted.
Sever ==
    /\ load.maySever /\ ~severed /\ ~Gone /\ sent[Init_] = "ok"
    /\ severed' = TRUE
    /\ sent' = [r \in Req |-> IF sent[r] \in Waiting THEN "aborted" ELSE sent[r]]
    /\ intr' = [r \in Signalled |-> IF intr[r] = "queued" THEN "done" ELSE intr[r]]
    /\ UNCHANGED <<nrep, request, worker, pool, session, main, handover, files, updater, faults, terminated, load>>

Die(how) ==
    /\ main' = how
    /\ sent' = [r \in Req |-> IF sent[r] \in Waiting THEN "aborted" ELSE sent[r]]
    /\ wpc' = [w \in Workers |-> "ended"] /\ wmsg' = [w \in Workers |-> Nothing]
    /\ exited' = FALSE /\ list' = {} /\ ctr' = [r \in Req |-> 0]

-------------------------------------------------------------------------------
(* fuse_loop_mt.c: the workers.                                             *)

\* fuse_start_thread: the thread may not be had; the pool stays as it is.
NoThread(pcs, avail) ==
    /\ faults < load.maxFaults /\ faults' = faults + 1
    /\ wpc' = pcs /\ numavail' = avail /\ UNCHANGED numworker

\* fuse_loop_start_thread with the workers at pcs: one more reader.
StartThread(pcs, avail) ==
    \/ \E v \in Workers : /\ pcs[v] = "absent" /\ \A u \in 1..(v - 1) : pcs[u] # "absent"
                          /\ wpc' = [pcs EXCEPT ![v] = "top"]
                          /\ numworker' = numworker + 1 /\ numavail' = avail + 1
                          /\ UNCHANGED faults
    \/ NoThread(pcs, avail)

Goto(w, from, to) == wpc[w] = from /\ wpc' = [wpc EXCEPT ![w] = to]
Drop(w) == wmsg' = [wmsg EXCEPT ![w] = Nothing]

\* The loop head and ioRead's first test: with a handover asked but the
\* session not yet exited, the hook's -EINTR sends the worker round again.
Top(w) ==
    /\ exited \/ ~asked
    /\ Goto(w, "top", IF exited THEN "post" ELSE "poll")
    /\ UNCHANGED <<kernel, request, wmsg, wagain, pool, session, main, handover, files, updater, faults, terminated, load>>

\* poll(2) on the connection and on the wakeup pipe.  A severed connection is
\* POLLERR without POLLIN, and ioRead polls again, without end: no step here.
Poll(w) ==
    /\ asked \/ Queued # {}
    /\ Goto(w, "poll", IF asked THEN "top" ELSE "read")
    /\ UNCHANGED <<kernel, request, wmsg, wagain, pool, session, main, handover, files, updater, faults, terminated, load>>

\* The blocking read(2), and captureInit on what it returned.
Read(w) ==
    \E m \in Queued :
        /\ Goto(w, "read", "got")
        /\ Dequeue(m)
        /\ wmsg' = [wmsg EXCEPT ![w] = m]
        /\ captured' = (captured \/ m.of = Init_)
        /\ UNCHANGED <<nrep, severed, request, wagain, pool, session, main, asked, armed, usr2, token, files,
                       updater, faults, terminated, load>>

\* ENODEV: the filesystem was unmounted, and the session exits.
Unmounted(w) ==
    /\ severed /\ Goto(w, "read", "post")
    /\ exited' = TRUE
    /\ UNCHANGED <<kernel, request, wmsg, wagain, pool, gotInit, main, handover, files, updater, faults,
                   terminated, load>>

\* poll and read are cancellation points.
Cancelled(w) ==
    /\ w \in cancelled /\ wpc[w] \in {"poll", "read"}
    /\ wpc' = [wpc EXCEPT ![w] = "ended"]
    /\ UNCHANGED <<kernel, request, wmsg, wagain, pool, session, main, handover, files, updater, faults, terminated, load>>

\* fuse_session_receive_buf_int after the read: a session that exited
\* meanwhile returns 0, whatever was read.
Receive(w) ==
    /\ Goto(w, "got", IF exited THEN "post" ELSE "lock")
    /\ IF exited THEN Drop(w) ELSE UNCHANGED wmsg
    /\ UNCHANGED <<kernel, request, wagain, pool, session, main, handover, files, updater, faults, terminated, load>>

IsForget(w) == wmsg[w] \in {Msg("request", f) : f \in Forgets}

\* Mutant: the worker still counts as available.
BusyUncounted(w) == numavail

\* mt->numavail once this worker has a message to process.
Busy(w) == IF IsForget(w) THEN numavail ELSE numavail - 1

\* mt.lock after a message: leave if the pool is being torn down, else see
\* to it that somebody keeps reading.
Lock(w) ==
    /\ wpc[w] = "lock"
    /\ LET busy == [wpc EXCEPT ![w] = "process"] IN
       \/ /\ mtExit
          /\ wpc' = [wpc EXCEPT ![w] = "ended"] /\ Drop(w)
          /\ UNCHANGED <<numworker, numavail, faults>>
       \/ /\ ~mtExit /\ Busy(w) = 0 /\ numworker < MaxThreads
          /\ StartThread(busy, Busy(w)) /\ UNCHANGED wmsg
       \/ /\ ~mtExit /\ (Busy(w) # 0 \/ numworker = MaxThreads)
          /\ wpc' = busy /\ numavail' = Busy(w) /\ UNCHANGED <<numworker, faults, wmsg>>
    /\ UNCHANGED <<kernel, request, wagain, mtExit, finish, cancelled, session, main, handover, files, updater,
                   terminated, load>>

\* mt.lock after processing.
Back(w) ==
    /\ Goto(w, "back", "top")
    /\ numavail' = IF IsForget(w) THEN numavail ELSE numavail + 1
    /\ Drop(w)
    /\ UNCHANGED <<kernel, request, wagain, numworker, mtExit, finish, cancelled, session, main, handover, files,
                   updater, faults, terminated, load>>

Post(w) ==
    /\ Goto(w, "post", "ended")
    /\ finish' = finish + 1
    /\ UNCHANGED <<kernel, request, wmsg, wagain, numworker, numavail, mtExit, cancelled, session, main, handover,
                   files, updater, faults, terminated, load>>

-------------------------------------------------------------------------------
(* fuse_lowlevel.c: fuse_session_process_buf_int, a step at a time.          *)

MsgIs(w, k) == wpc[w] = "process" /\ wmsg[w].kind = k

\* FUSE_INIT first, and only once per session.
Gated(r) == gotInit = (r = Init_)

\* calloc of the request object failed; a forget or an interrupt has nobody
\* waiting for the ENOMEM.
NoMemory(w) ==
    /\ wpc[w] = "process" /\ faults < load.maxFaults /\ faults' = faults + 1
    /\ wpc' = [wpc EXCEPT ![w] = "back"]
    /\ IF MsgIs(w, "request") /\ ~IsForget(w) THEN Answer(wmsg[w].of, "ENOMEM") ELSE UNCHANGED kernel
    /\ UNCHANGED <<request, wmsg, wagain, pool, session, main, handover, files, updater, terminated, load>>

\* The reply_err exit: EIO, and the object is freed at once.
Refuse(w) ==
    /\ wpc' = [wpc EXCEPT ![w] = "back"]
    /\ IF IsForget(w) THEN UNCHANGED kernel ELSE Answer(wmsg[w].of, "EIO")
    /\ UNCHANGED <<list, ctr, interrupted, interrupts, wagain>>

\* check_interrupt and list_add_req in one section of se->lock: an interrupt
\* that came first marks the request, any other one is taken out and bounced.
Accept(w) ==
    LET r == wmsg[w].of
        early == r \in ToSet(interrupts)
        other == ~early /\ interrupts # <<>>
    IN /\ list' = list \cup {r} /\ ctr' = [ctr EXCEPT ![r] = 1]
       /\ interrupted' = IF early THEN interrupted \cup {r} ELSE interrupted
       /\ interrupts' = IF early THEN SelectSeq(interrupts, LAMBDA q : q # r)
                        ELSE IF other THEN Tail(interrupts) ELSE interrupts
       /\ wpc' = [wpc EXCEPT ![w] = IF other THEN "bounce" ELSE "handle"]
       /\ wagain' = [wagain EXCEPT ![w] = IF other THEN Head(interrupts) ELSE @]
       /\ UNCHANGED kernel

Process(w) ==
    /\ MsgIs(w, "request")
    /\ IF Gated(wmsg[w].of) THEN Refuse(w) ELSE Accept(w)
    /\ UNCHANGED <<ran, wmsg, pool, session, main, handover, files, updater, faults, terminated, load>>

\* Mutant: the worker that bounced an interrupt forgets its own request.
BounceInstead(w) ==
    LET r == wagain[w] IN
    /\ Goto(w, "bounce", "free")
    /\ intr' = [intr EXCEPT ![r] = IF sent[r] = "read" THEN "queued" ELSE "done"]
    /\ wagain' = [wagain EXCEPT ![w] = Init_]
    /\ UNCHANGED <<sent, nrep, severed, request, wmsg, pool, session, main, handover, files, updater, faults, terminated, load>>

\* EAGAIN: the kernel queues the interrupt again while its request is out.
Bounce(w) ==
    LET r == wagain[w] IN
    /\ Goto(w, "bounce", "handle")
    /\ intr' = [intr EXCEPT ![r] = IF sent[r] = "read" THEN "queued" ELSE "done"]
    /\ wagain' = [wagain EXCEPT ![w] = Init_]
    /\ UNCHANGED <<sent, nrep, severed, request, wmsg, pool, session, main, handover, files, updater, faults, terminated, load>>

\* The handler; do_init opens the session.  A forget ends in fuse_reply_none.
Handle(w) ==
    LET r == wmsg[w].of IN
    /\ Goto(w, "handle", IF IsForget(w) THEN "free" ELSE "reply")
    /\ ran' = [ran EXCEPT ![r] = @ + 1]
    /\ gotInit' = (gotInit \/ r = Init_)
    /\ UNCHANGED <<kernel, list, interrupts, ctr, interrupted, wmsg, wagain, pool, exited, main, handover, files,
                   updater, faults, terminated, load>>

\* fuse_send_msg through ioWritev.
Reply(w) ==
    /\ Goto(w, "reply", "free")
    /\ Answer(wmsg[w].of, "ok")
    /\ UNCHANGED <<request, wmsg, wagain, pool, session, main, handover, files, updater, faults, terminated, load>>

\* fuse_free_req: the last reference destroys the object.
Free(w) ==
    LET r == wmsg[w].of IN
    /\ Goto(w, "free", "back")
    /\ list' = list \ {r} /\ ctr' = [ctr EXCEPT ![r] = @ - 1]
    /\ UNCHANGED <<kernel, interrupts, interrupted, ran, wmsg, wagain, pool, session, main, handover, files, updater,
                   faults, terminated, load>>

\* Mutant: se->lock is dropped with no reference on the request.
InterruptUncounted(w) ==
    LET r == wmsg[w].of
        found == gotInit /\ r \in list
        known == ~gotInit \/ found \/ r \in ToSet(interrupts)
    IN /\ MsgIs(w, "interrupt")
       /\ wpc' = [wpc EXCEPT ![w] = IF found THEN "mark" ELSE "back"]
       /\ ctr' = ctr
       /\ interrupts' = IF known THEN interrupts ELSE Append(interrupts, r)
       /\ UNCHANGED <<kernel, list, interrupted, ran, wmsg, wagain, pool, session, main, handover, files, updater,
                      faults, terminated, load>>

\* do_interrupt up to the unlock inside find_interrupted: a request being
\* processed is held by a reference, an unknown one is remembered.  Before
\* FUSE_INIT the gate answers it with an EIO nobody reads.
DoInterrupt(w) ==
    LET r == wmsg[w].of
        found == gotInit /\ r \in list
        known == ~gotInit \/ found \/ r \in ToSet(interrupts)
    IN /\ MsgIs(w, "interrupt")
       /\ wpc' = [wpc EXCEPT ![w] = IF found THEN "mark" ELSE "back"]
       /\ ctr' = IF found THEN [ctr EXCEPT ![r] = @ + 1] ELSE ctr
       /\ interrupts' = IF known THEN interrupts ELSE Append(interrupts, r)
       /\ UNCHANGED <<kernel, list, interrupted, ran, wmsg, wagain, pool, session, main, handover, files, updater,
                      faults, terminated, load>>

Mark(w) ==
    /\ Goto(w, "mark", "put")
    /\ interrupted' = interrupted \cup {wmsg[w].of}
    /\ UNCHANGED <<kernel, list, interrupts, ctr, ran, wmsg, wagain, pool, session, main, handover, files, updater,
                   faults, terminated, load>>

Put(w) ==
    /\ Goto(w, "put", "back")
    /\ ctr' = [ctr EXCEPT ![wmsg[w].of] = @ - 1]
    /\ UNCHANGED <<kernel, list, interrupts, interrupted, ran, wmsg, wagain, pool, session, main, handover, files,
                   updater, faults, terminated, load>>

Worker(w) ==
    \/ Top(w) \/ Poll(w) \/ Read(w) \/ Unmounted(w) \/ Cancelled(w) \/ Receive(w) \/ Lock(w) \/ Back(w)
    \/ Post(w) \/ NoMemory(w) \/ Process(w) \/ Bounce(w) \/ Handle(w) \/ Reply(w) \/ Free(w)
    \/ DoInterrupt(w) \/ Mark(w) \/ Put(w)

-------------------------------------------------------------------------------
(* fuse_session_loop_mt and serve: the main thread.                          *)

MainGoto(from, to) == main = from /\ main' = to

\* Mutant: only the image that mounted installs the handler.
ArmMountOnly ==
    /\ MainGoto("arm", "ack")
    /\ armed' = ~gotInit
    /\ UNCHANGED <<kernel, request, worker, pool, session, asked, captured, usr2, token, files, updater, faults,
                   terminated, load>>

\* fuse_set_signal_handlers, installHandoverSignal.
Arm ==
    /\ MainGoto("arm", "ack")
    /\ armed' = TRUE
    /\ UNCHANGED <<kernel, request, worker, pool, session, asked, captured, usr2, token, files, updater, faults,
                   terminated, load>>

\* writeAck, by a replacement that found a token.
WriteAck ==
    /\ MainGoto("ack", "start")
    /\ ackFile' = IF token # 0 THEN token ELSE ackFile
    /\ UNCHANGED <<kernel, request, worker, pool, session, handover, reqFile, updater, faults, terminated, load>>

\* The first worker; without it the loop returns an error.
Start ==
    /\ main = "start"
    /\ StartThread(wpc, numavail)
    /\ main' = IF numworker' = 0 THEN "out" ELSE "check"
    /\ UNCHANGED <<kernel, request, wmsg, wagain, mtExit, finish, cancelled, session, handover, files, updater,
                   terminated, load>>

Check ==
    /\ MainGoto("check", IF exited THEN "cancel" ELSE "wait")
    /\ UNCHANGED <<kernel, request, worker, pool, session, handover, files, updater, faults, terminated, load>>

SemWait ==
    /\ MainGoto("wait", "check")
    /\ finish > 0 /\ finish' = finish - 1
    /\ UNCHANGED <<kernel, request, worker, numworker, numavail, mtExit, cancelled, session, handover, files,
                   updater, faults, terminated, load>>

\* Mutant: the workers are not cancelled.
CancelNone ==
    /\ MainGoto("cancel", "join")
    /\ mtExit' = TRUE
    /\ UNCHANGED <<kernel, request, worker, numworker, numavail, finish, cancelled, session, handover, files,
                   updater, faults, terminated, load>>

Cancel ==
    /\ MainGoto("cancel", "join")
    /\ cancelled' = {w \in Workers : wpc[w] # "absent"}
    /\ mtExit' = TRUE
    /\ UNCHANGED <<kernel, request, worker, numworker, numavail, finish, session, handover, files, updater, faults,
                   terminated, load>>

\* pthread_join of every worker, then fuse_session_reset.
Join ==
    /\ MainGoto("join", "out")
    /\ \A w \in Workers : wpc[w] \in {"absent", "ended"}
    /\ exited' = FALSE
    /\ UNCHANGED <<kernel, request, worker, pool, gotInit, handover, files, updater, faults, terminated, load>>

\* The signal handlers go; without a handover the mount goes too.
Leave ==
    /\ main = "out"
    /\ armed' = FALSE
    /\ IF asked THEN main' = "exec" /\ UNCHANGED <<sent, wpc, wmsg, exited, list, ctr>> ELSE Die("ended")
    /\ UNCHANGED <<intr, nrep, severed, interrupts, interrupted, ran, wagain, pool, gotInit, asked, captured, usr2, token,
                   files, updater, faults, terminated, load>>

\* execHandover: the new image starts with a session of its own.
Exec ==
    /\ MainGoto("exec", "adopt")
    /\ reqFile # 0
    /\ wpc' = [w \in Workers |-> "absent"] /\ wmsg' = [w \in Workers |-> Nothing]
    /\ wagain' = [w \in Workers |-> Init_]
    /\ cancelled' = {} /\ numworker' = 0 /\ numavail' = 0 /\ mtExit' = FALSE /\ finish' = 0
    /\ gotInit' = FALSE /\ exited' = FALSE
    /\ list' = {} /\ interrupts' = <<>> /\ ctr' = [r \in Req |-> 0] /\ interrupted' = {}
    /\ asked' = FALSE /\ usr2' = "none" /\ token' = 0
    /\ UNCHANGED <<kernel, ran, captured, armed, files, updater, faults, terminated, load>>

\* No request after a second of retries, or a step up to execve failed.
ExecFails ==
    /\ main = "exec"
    /\ \/ reqFile = 0 /\ UNCHANGED faults
       \/ faults < load.maxFaults /\ faults' = faults + 1
    /\ Die("dead")
    /\ UNCHANGED <<intr, nrep, severed, interrupts, interrupted, ran, wagain, pool, gotInit, handover, files, updater,
                   terminated, load>>

\* Mutant: the request is removed unread.
AdoptUnread ==
    /\ MainGoto("adopt", "replay")
    /\ token' = 0 /\ reqFile' = 0
    /\ UNCHANGED <<kernel, request, worker, pool, session, asked, captured, armed, usr2, ackFile, updater, faults,
                   terminated, load>>

\* cmdHandover consumes the request for its token.
Adopt ==
    /\ MainGoto("adopt", "replay")
    /\ token' = reqFile /\ reqFile' = 0
    /\ UNCHANGED <<kernel, request, worker, pool, session, asked, captured, armed, usr2, ackFile, updater, faults,
                   terminated, load>>

\* Mutant: the reply to the replayed FUSE_INIT goes out on the connection.
ReplayAloud ==
    /\ MainGoto("replay", "arm")
    /\ gotInit' = TRUE
    /\ Answer(Init_, "ok")
    /\ UNCHANGED <<request, worker, pool, exited, handover, files, updater, faults, terminated, load>>

\* replayInit: fuse_session_process_buf on the captured request, with the
\* reply swallowed by ioWritev.
ReplayInit ==
    /\ MainGoto("replay", "arm")
    /\ gotInit' = TRUE
    /\ UNCHANGED <<kernel, request, worker, pool, exited, handover, files, updater, faults, terminated, load>>

Main ==
    \/ Arm \/ WriteAck \/ Start \/ Check \/ SemWait \/ Cancel \/ Join \/ Leave
    \/ Exec \/ ExecFails \/ Adopt \/ ReplayInit

-------------------------------------------------------------------------------
(* Signals, and the update command.                                          *)

\* exit_handler; of the session's threads only the main one takes SIGTERM,
\* and only sem_wait is interrupted by it.  Without a handler it is fatal.
Terminate ==
    /\ load.mayTerminate /\ ~terminated /\ ~Gone
    /\ terminated' = TRUE
    /\ \/ /\ armed
          /\ exited' = TRUE /\ main' = IF main = "wait" THEN "check" ELSE main
          /\ UNCHANGED <<sent, wpc, wmsg, list, ctr>>
       \/ ~armed /\ Die("dead")
    /\ UNCHANGED <<intr, nrep, severed, interrupts, interrupted, ran, wagain, pool, gotInit, handover, files, updater, faults, load>>

\* onUsr2: refused without a captured FUSE_INIT or a request file.
OnUsr2 ==
    /\ usr2 = "pending"
    /\ LET go == armed /\ captured /\ reqFile # 0
       IN asked' = (asked \/ go) /\ usr2' = IF go THEN "asked" ELSE "none"
    /\ UNCHANGED <<kernel, request, worker, pool, session, main, captured, armed, token, files, updater, faults,
                   terminated, load>>

\* Its last statement, fuse_session_exit.
OnUsr2Exit ==
    /\ usr2 = "asked" /\ ~Gone
    /\ usr2' = "none" /\ exited' = TRUE
    /\ UNCHANGED <<kernel, request, worker, pool, gotInit, main, asked, captured, armed, token, files, updater,
                   faults, terminated, load>>

\* cmdReload: liveDaemon finds the daemon by the status document a thread
\* started at FUSE_INIT writes, publishReqStaged renames a whole request into
\* place.
Publish ==
    /\ ran[Init_] > 0
    /\ upc \in {"idle", "acked", "failed"} /\ round < load.maxUpdates /\ ~Gone
    /\ round' = round + 1 /\ reqFile' = round + 1 /\ upc' = "published"
    /\ UNCHANGED <<kernel, request, worker, pool, session, main, handover, ackFile, timeouts, faults, terminated, load>>

\* kill(pid, SIGUSR2): fatal to an image that has not installed its handler.
Kill ==
    /\ upc = "published"
    /\ \/ /\ Gone /\ upc' = "failed" /\ reqFile' = 0
          /\ UNCHANGED <<kernel, request, worker, session, main, usr2>>
       \/ /\ ~Gone /\ armed /\ upc' = "waiting"
          /\ usr2' = IF usr2 = "none" THEN "pending" ELSE usr2
          /\ UNCHANGED <<kernel, request, worker, session, main, reqFile>>
       \/ /\ ~Gone /\ ~armed /\ upc' = "waiting"
          /\ Die("dead")
          /\ UNCHANGED <<intr, nrep, severed, interrupts, interrupted, ran, wagain, gotInit, usr2, reqFile>>
    /\ UNCHANGED <<pool, asked, captured, armed, token, ackFile, round, timeouts, faults, terminated, load>>

Acked ==
    /\ upc = "waiting" /\ ackFile = round
    /\ upc' = "acked" /\ ackFile' = 0
    /\ UNCHANGED <<kernel, request, worker, pool, session, main, handover, reqFile, round, timeouts, faults,
                   terminated, load>>

\* Thirty seconds without an ack: both files are removed.
TimeOut ==
    /\ upc = "waiting"
    /\ upc' = "failed" /\ reqFile' = 0 /\ ackFile' = 0 /\ timeouts' = timeouts + 1
    /\ UNCHANGED <<kernel, request, worker, pool, session, main, handover, round, faults, terminated, load>>

Next ==
    \/ \E r \in load.requests : Send(r)
    \/ \E r \in Signalled : Withdraw(r) \/ Interrupt(r)
    \/ Sever
    \/ \E w \in Workers : Worker(w)
    \/ Main
    \/ Terminate \/ OnUsr2 \/ OnUsr2Exit
    \/ Publish \/ Kill \/ Acked \/ TimeOut

Spec == Init /\ [][Next]_vars

\* A runnable thread runs: handlers return, and a started command polls.
FairSpec ==
    /\ Spec
    /\ \A w \in Workers : WF_vars(Worker(w))
    /\ WF_vars(Main) /\ WF_vars(OnUsr2) /\ WF_vars(OnUsr2Exit) /\ WF_vars(Acked)

-------------------------------------------------------------------------------
(* Properties.                                                               *)

\* Workers whose request object is alive, and workers that interrupt one.
Processing(r) ==
    {w \in Workers : wmsg[w] = Msg("request", r) /\ wpc[w] \in {"bounce", "handle", "reply", "free"}}
Interrupting(r) == {w \in Workers : wmsg[w] = Msg("interrupt", r) /\ wpc[w] \in {"mark", "put"}}

\* fuse_free_req and find_interrupted: a request object lives exactly as long
\* as the worker that processes it or a worker interrupting it holds it, and
\* se->list names exactly the requests being processed, so that the interrupt
\* code, which drops se->lock in the middle, never follows a freed pointer.
ObjectsOwned ==
    \A r \in Req : /\ ctr[r] = Cardinality(Processing(r)) + Cardinality(Interrupting(r))
                   /\ r \in list <=> Processing(r) # {}

\* fuse_do_work's hand-off: while the session serves, a queued request always
\* has a worker that will come back to read it without waiting for a handler,
\* unless the pool is at its limit or a thread could not be created.
PoolKeepsReading ==
    main \in {"check", "wait"} /\ ~exited /\ numworker < MaxThreads /\ faults = 0 =>
        \E w \in Workers : \/ wpc[w] \in {"top", "poll", "read", "got", "lock", "back"}
                           \/ wpc[w] # "absent" /\ IsForget(w)

\* serve and cmdReload: an update whose command does not give up, on a system
\* where nothing fails and nobody unmounts, never leaves the mount without a server.
UpdateKeepsServing == main = "dead" => timeouts > 0 \/ faults > 0 \/ terminated \/ severed

Held(r) == \E w \in Workers : wmsg[w] = Msg("request", r)

Fate(r) ==
    CASE nrep[r] > 1 \/ ran[r] > 1 -> "twice"
      [] sent[r] = "queued" -> "waiting"
      [] sent[r] = "read" -> IF ~Held(r) THEN "lost" ELSE IF ran[r] = 1 THEN "run" ELSE "waiting"
      [] sent[r] = "ok" -> "replied"
      [] sent[r] = "ENOMEM" -> "refused"
      [] OTHER -> sent[r]

\* The session as the kernel sees it.
Conn == INSTANCE Connection WITH
            Req <- Answered, First <- Init_,
            fate <- [r \in Answered |-> Fate(r)], leaving <- exited, dead <- Gone

\* The worker pool, the INIT gate, the interrupt list and the handover keep
\* Connection's promise: one run and one answer per request, no EIO from the
\* INIT gate of a replacement image, no loss but on the way out.
ImplementsConnection == Conn!CSpec

\* Nothing but the next message of the kernel can move the pool.
AllParked ==
    /\ main = "wait" /\ finish = 0 /\ Queued = {}
    /\ \A w \in Workers :
          \/ wpc[w] \in {"absent", "ended"}
          \/ wpc[w] = "read" /\ ~severed
          \/ wpc[w] = "poll" /\ ~asked

\* fuse_do_work, receive_buf_int and ioRead: every request that was read or
\* could be is answered while the session stays up; none waits behind another
\* one's interrupt.
RequestsAnswered ==
    \A r \in Answered : (sent[r] \in Waiting /\ Fate(r) # "lost") ~> (sent[r] \notin Waiting \/ exited)

\* onUsr2, exit_handler and fuse_session_loop_mt: a session told to exit tears
\* its pool down, or is stuck only for want of a message: every worker parked
\* in poll or in a read that neither the flag nor the pipe interrupts.
ExitEnds == (exited ~> ~exited) \/ <>[](exited /\ AllParked)

\* serve, cmdHandover and cmdReload: a handover that began is acknowledged to
\* the command waiting for it, unless something failed on the way.
HandoverAcked ==
    ((upc = "waiting" /\ usr2 = "asked") ~> (upc # "waiting" \/ Gone)) \/ <>[](exited /\ AllParked)

\* fuse_session_loop_mt ends when the filesystem is unmounted; but a worker in
\* ioRead's poll never comes to the read that would tell it.
UnmountEnds == severed ~> Gone

\* README.md: an update keeps the kernel connection, so an engine's reads keep
\* being answered across the swap: a request taken off the connection is in
\* the hands of a worker until it is answered.
NoRequestLost == \A r \in Ops : sent[r] = "read" => Held(r)
===============================================================================
