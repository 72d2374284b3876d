-------------------------- MODULE FuseSessionProofs --------------------------
(***************************************************************************)
(* Proofs about FuseSession, for any pool size, requests and loads: that   *)
(* the session implements Connection, that request objects are owned, that *)
(* the pool keeps a reader, and that an update leaves a server.            *)
(*                                                                         *)
(* SessionInv follows a request through the hands of the workers (Hands,   *)
(* Fates), the INIT gate through the images (Gate), the pool through its   *)
(* life (Pool), and an update through its phases (UpdateInv).              *)
(***************************************************************************)
EXTENDS FuseSession, FiniteSetTheorems, TLAPS

Pcs == {"absent", "top", "poll", "read", "got", "lock", "process", "bounce", "handle",
        "reply", "free", "mark", "put", "back", "post", "ended"}
Empty == {"absent", "top", "poll", "read", "post", "ended"}
Unaccepted == {"got", "lock", "process"}
Unrun == Unaccepted \cup {"bounce", "handle"}
Unread == {"idle", "queued", "withdrawn"}

FlagTypes ==
    /\ mtExit \in BOOLEAN /\ gotInit \in BOOLEAN /\ exited \in BOOLEAN /\ asked \in BOOLEAN
    /\ armed \in BOOLEAN /\ terminated \in BOOLEAN /\ severed \in BOOLEAN

DataTypes ==
    /\ load \in LoadType
    /\ sent \in [Req -> {"idle", "withdrawn", "aborted", "done", "queued", "read", "ok", "ENOMEM", "EIO"}]
    /\ nrep \in [Req -> Nat] /\ ran \in [Req -> Nat] /\ ctr \in [Req -> Int]
    /\ wpc \in [Workers -> Pcs] /\ wmsg \in [Workers -> Msgs \cup {Nothing}]
    /\ numworker \in Nat /\ numavail \in Int /\ list \subseteq Req
    /\ faults \in Nat /\ timeouts \in Nat /\ round \in Nat
    /\ main \in {"adopt", "replay", "arm", "ack", "start", "check", "wait", "cancel", "join", "out",
                 "exec", "ended", "dead"}

Types == DataTypes /\ FlagTypes

Carries(w, r) == wmsg[w] = Msg("request", r)

\* What a worker holds where it stands, and that nobody else holds the same.
Hands ==
    \A w \in Workers :
        /\ wpc[w] \in Empty <=> wmsg[w] = Nothing
        /\ wpc[w] \in {"bounce", "handle", "reply", "free"} => wmsg[w].kind = "request"
        /\ wpc[w] = "reply" => wmsg[w].of \notin Forgets
        /\ wpc[w] \in {"mark", "put"} => wmsg[w].kind = "interrupt"
        /\ \A v \in Workers : wmsg[w].kind = "request" /\ wmsg[v] = wmsg[w] => v = w

\* How far a request is, for the kernel and for the worker that has it.
Fates ==
    /\ severed => \A r \in Req : sent[r] \notin {"queued", "read"}
    /\ \A r \in Answered :
          /\ nrep[r] = IF sent[r] \in {"ok", "ENOMEM"} THEN 1 ELSE 0
          /\ sent[r] \in Unread => ran[r] = 0
          /\ sent[r] = "ok" => ran[r] = 1
          /\ sent[r] \notin {"EIO", "done"} /\ ran[r] <= 1
    /\ \A w \in Workers, r \in Req : Carries(w, r) =>
          /\ sent[r] \notin Unread /\ (sent[r] = "aborted" => severed)
          /\ r \in Answered /\ wpc[w] \in Unrun => sent[r] \in {"read", "aborted"} /\ ran[r] = 0
          /\ r \in Answered /\ wpc[w] = "reply" => sent[r] \in {"read", "aborted"} /\ ran[r] = 1
          /\ r \in Answered /\ wpc[w] \in {"free", "back"} => sent[r] \in {"ok", "ENOMEM", "aborted"}

\* What is known of FUSE_INIT: nothing is sent before its reply, and every
\* image that has workers has processed it, itself or by the replay.
Gate ==
    /\ \A r \in Req \ {Init_} : sent[r] # "idle" => sent[Init_] = "ok"
    /\ main \in {"arm", "ack", "start", "check", "wait", "cancel", "join"} /\ ran[Init_] = 1 => gotInit
    /\ gotInit \/ asked \/ reqFile # 0 \/ main \in {"exec", "adopt", "replay"} => ran[Init_] = 1

\* The main thread and its workers.
Pool ==
    /\ main \in {"adopt", "replay", "arm", "ack", "start"} =>
          numworker = 0 /\ \A w \in Workers : wpc[w] = "absent"
    /\ main \in {"out", "exec", "ended", "dead"} => \A w \in Workers : wpc[w] \in {"absent", "ended"}
    /\ main \in {"cancel", "join"} => exited
    /\ mtExit => main \in {"join", "out", "exec", "ended", "dead"}
    /\ cancelled # {} => mtExit
    /\ main \in {"check", "wait"} /\ (\E w \in Workers : wpc[w] \in {"post", "ended"}) => exited

SessionInv == Types /\ Hands /\ Fates /\ Gate /\ Pool

\* An interrupt in progress is of a request that was accepted.
Interrupts ==
    \A v \in Workers, r \in Req : v \in Interrupting(r) =>
        sent[r] \notin Unread /\ \A w \in Workers : Carries(w, r) => wpc[w] \notin Unaccepted

ObjectInv == ObjectsOwned /\ Interrupts

\* The workers that fuse_do_work counts as available.
Available ==
    {w \in Workers : wpc[w] \in {"top", "poll", "read", "got", "lock"}
                     \/ (wpc[w] \in {"process", "bounce", "handle", "reply", "free", "back"} /\ IsForget(w))}

CountInv ==
    /\ ~exited /\ main \in {"adopt", "replay", "arm", "ack", "start", "check", "wait"} =>
          numavail = Cardinality(Available)
    /\ ~exited /\ main \in {"check", "wait"} /\ faults = 0 => numavail # 0 \/ ~(numworker < MaxThreads)

\* An update while nothing goes wrong, phase by phase.
Calm == timeouts = 0 /\ faults = 0 /\ ~terminated /\ ~severed
Serving == {"start", "check", "wait"}

NoUpdate == /\ upc \in {"idle", "acked"} /\ ~asked /\ ~exited /\ usr2 = "none" /\ reqFile = 0 /\ ackFile = 0
            /\ \/ main \in Serving
               \/ main \in {"arm", "ack"} /\ ran[Init_] = 0 /\ token = 0
Published == upc = "published" /\ ~asked /\ ~exited /\ usr2 = "none" /\ reqFile = round /\ ackFile = 0 /\ main \in Serving
Pending_ == /\ upc = "waiting" /\ ~asked /\ ~exited /\ usr2 \in {"none", "pending"} /\ reqFile = round /\ ackFile = 0
            /\ main \in Serving
Asked_ == /\ upc = "waiting" /\ asked /\ reqFile = round /\ ackFile = 0
          /\ \/ usr2 = "asked" /\ ~exited /\ main \in Serving
             \/ usr2 = "none" /\ exited /\ main \in Serving \cup {"cancel", "join"}
             \/ usr2 = "none" /\ ~exited /\ main \in {"out", "exec"}
Swapped == /\ upc = "waiting" /\ ~asked /\ ~exited /\ usr2 = "none" /\ ackFile = 0
           /\ \/ reqFile = round /\ main = "adopt"
              \/ reqFile = 0 /\ token = round /\ main \in {"replay", "arm", "ack"}
Acknowledged == upc = "waiting" /\ ~asked /\ ~exited /\ usr2 = "none" /\ reqFile = 0 /\ ackFile = round /\ main \in Serving

UpdateInv ==
    /\ main \in {"ack", "start", "check", "wait", "cancel", "join", "out"} => armed
    /\ Calm => NoUpdate \/ (round # 0 /\ (Published \/ Pending_ \/ Asked_ \/ Swapped \/ Acknowledged))

USE DEF kernel, request, worker, pool, session, handover, files, updater,
        FlagTypes, DataTypes, Pcs, Empty, Unaccepted, Unrun, Unread, Carries, Goto, MainGoto, Gone, Waiting

-----------------------------------------------------------------------------
(* Messages.                                                                 *)

LEMMA Requests ==
    /\ Answered \subseteq Req /\ Forgets \subseteq Req /\ Forgets \cap Answered = {}
    /\ Req \ Forgets = Answered /\ Init_ \in Answered
    /\ Signalled \subseteq Answered /\ Init_ \notin Signalled
  BY SessionAssumption DEF Req, Answered

LEMMA Messages ==
    /\ \A r : /\ Msg("request", r).of = r /\ Msg("request", r).kind = "request"
              /\ Msg("interrupt", r).of = r /\ Msg("interrupt", r).kind = "interrupt"
    /\ \A m \in Msgs : /\ m.kind \in {"request", "interrupt"} /\ m = Msg(m.kind, m.of) /\ m.of \in Req
                       /\ m.kind = "interrupt" => m.of \in Signalled
    /\ \A r \in Req : Msg("request", r) \in Msgs
    /\ Nothing.kind = "none" /\ Nothing \notin Msgs
PROOF
  <1>1. \A k, r : Msg(k, r).of = r /\ Msg(k, r).kind = k
    BY DEF Msg
  <1>2. Nothing.kind = "none"
    BY DEF Nothing
  <1> QED  BY <1>1, <1>2, Requests DEF Msgs

LEMMA QueuedMessages ==
    \A m \in Queued : m \in Msgs /\ (m.kind = "request" => sent[m.of] = "queued")
  BY Messages, Requests DEF Queued, Msgs

LEMMA Forgetting ==
    \A w : IsForget(w) <=> /\ wmsg[w].kind = "request" /\ wmsg[w].of \in Forgets
                           /\ wmsg[w] = Msg("request", wmsg[w].of)
  BY Messages DEF IsForget

-----------------------------------------------------------------------------
(* SessionInv, action by action: the workers.                                *)

LEMMA StepTop ==
    ASSUME NEW w \in Workers, SessionInv, Top(w) \/ Poll(w) \/ Unmounted(w) \/ Cancelled(w) \/ Post(w)
    PROVE  SessionInv'
PROOF
  <1>1. Types' /\ Hands'
    <2>1. CASE Top(w) \/ Poll(w) \/ Cancelled(w) \/ Post(w)
      BY <2>1 DEF SessionInv, Types, Hands, Top, Poll, Cancelled, Post
    <2>2. CASE Unmounted(w)
      BY <2>2 DEF SessionInv, Types, Hands, Unmounted
    <2> QED  BY <2>1, <2>2
  <1>2. Fates' /\ Gate' /\ Pool'
    BY DEF SessionInv, Types, Hands, Fates, Gate, Pool, Top, Poll, Unmounted, Cancelled, Post
  <1> QED  BY <1>1, <1>2 DEF SessionInv

\* A message is read once: the request was queued, so nobody had it.
LEMMA StepRead ==
    ASSUME NEW w \in Workers, SessionInv, Read(w)
    PROVE  SessionInv'
PROOF
  <1> PICK m \in Queued : Dequeue(m) /\ wmsg' = [wmsg EXCEPT ![w] = m]
    BY DEF Read
  <1>m. m \in Msgs /\ (m.kind = "request" => sent[m.of] = "queued")
    BY QueuedMessages
  <1>s. /\ m.kind = "request" => sent' = [sent EXCEPT ![m.of] = IF m.of \in Forgets THEN "done" ELSE "read"]
        /\ m.kind # "request" => sent' = sent
    BY <1>m, Messages DEF Dequeue
  <1>1. Types'
    BY <1>m, <1>s, Messages DEF SessionInv, Types, Read
  <1>2. Hands'
    <2>1. \A v \in Workers : m.kind = "request" => wmsg[v] # m
      BY <1>m, Messages DEF SessionInv, Types, Fates
    <2> QED  BY <1>m, <2>1, Messages DEF SessionInv, Types, Hands, Read
  <1>3. Fates'
    BY <1>m, <1>s, Messages, Requests DEF SessionInv, Types, Hands, Fates, Read
  <1>4. Gate' /\ Pool'
    BY <1>m, <1>s, Messages, Requests DEF SessionInv, Types, Fates, Gate, Pool, Read
  <1> QED  BY <1>1, <1>2, <1>3, <1>4 DEF SessionInv

LEMMA StepReceive ==
    ASSUME NEW w \in Workers, SessionInv, Receive(w)
    PROVE  SessionInv'
PROOF
  <1>1. Types' /\ Hands'
    BY Messages DEF SessionInv, Types, Hands, Receive, Drop
  <1>2. Fates' /\ Gate' /\ Pool'
    BY Messages DEF SessionInv, Types, Hands, Fates, Gate, Pool, Receive, Drop
  <1> QED  BY <1>1, <1>2 DEF SessionInv

\* The pool is torn down only after the session was told to exit.
LEMMA StepLock ==
    ASSUME NEW w \in Workers, SessionInv, Lock(w)
    PROVE  SessionInv'
PROOF
  <1>1. Types'
    BY Messages DEF SessionInv, Types, Lock, Busy, StartThread, NoThread, Drop
  <1>2. Hands'
    BY Messages DEF SessionInv, Types, Hands, Lock, StartThread, NoThread, Drop
  <1>3. Fates'
    BY Messages DEF SessionInv, Types, Hands, Fates, Lock, StartThread, NoThread, Drop
  <1>4. Gate' /\ Pool'
    BY Messages DEF SessionInv, Types, Hands, Gate, Pool, Lock, StartThread, NoThread, Drop
  <1> QED  BY <1>1, <1>2, <1>3, <1>4 DEF SessionInv

LEMMA StepBack ==
    ASSUME NEW w \in Workers, SessionInv, Back(w)
    PROVE  SessionInv'
PROOF
  <1>1. Types' /\ Hands'
    BY Messages DEF SessionInv, Types, Hands, Back, Drop
  <1>2. Fates' /\ Gate' /\ Pool'
    BY Messages DEF SessionInv, Types, Hands, Fates, Gate, Pool, Back, Drop
  <1> QED  BY <1>1, <1>2 DEF SessionInv

\* An error invented for want of memory is the request's only answer.
LEMMA StepNoMemory ==
    ASSUME NEW w \in Workers, SessionInv, NoMemory(w)
    PROVE  SessionInv'
PROOF
  <1>1. Types' /\ Hands'
    BY Messages, Forgetting, Requests DEF SessionInv, Types, Hands, NoMemory, MsgIs, Answer
  <1>2. Fates'
    <2>1. CASE severed
      BY <2>1, Messages, Forgetting, Requests DEF SessionInv, Types, Hands, Fates, NoMemory, MsgIs, Answer
    <2>2. CASE ~severed
      BY <2>2, Messages, Forgetting, Requests DEF SessionInv, Types, Hands, Fates, NoMemory, MsgIs, Answer
    <2> QED  BY <2>1, <2>2
  <1>3. Gate' /\ Pool'
    BY Messages, Forgetting, Requests DEF SessionInv, Types, Hands, Fates, Gate, Pool, NoMemory, MsgIs, Answer
  <1> QED  BY <1>1, <1>2, <1>3 DEF SessionInv

\* What accepting a request does, the interrupt list aside.
LEMMA Accepted ==
    ASSUME NEW w \in Workers, Accept(w)
    PROVE  /\ list' = list \cup {wmsg[w].of} /\ ctr' = [ctr EXCEPT ![wmsg[w].of] = 1]
           /\ wpc' = [wpc EXCEPT ![w] = "bounce"] \/ wpc' = [wpc EXCEPT ![w] = "handle"]
           /\ UNCHANGED kernel
  BY DEF Accept

\* The INIT gate never refuses a request that expects an answer: FUSE_INIT
\* comes once, and no image has workers before it has seen it.
LEMMA GateOpen ==
    ASSUME NEW w \in Workers, SessionInv, MsgIs(w, "request"), Gated(wmsg[w].of)
    PROVE  IsForget(w)
PROOF
  <1> DEFINE r == wmsg[w].of
  <1>1. r \in Req /\ Carries(w, r) /\ main \in {"check", "wait", "cancel", "join"}
    BY Messages DEF SessionInv, Types, Hands, Pool, MsgIs
  <1>2. CASE r = Init_
    <2>1. gotInit
      BY <1>2 DEF Gated
    <2>2. ran[Init_] = 0
      BY <1>1, <1>2, Requests DEF SessionInv, Fates, MsgIs
    <2> QED  BY <2>1, <2>2 DEF SessionInv, Gate
  <1>3. CASE r \in Answered /\ r # Init_
    <2>1. ran[Init_] = 1 /\ ~gotInit
      BY <1>1, <1>3, Requests, ZenonT(40) DEF SessionInv, Types, Fates, Gate, Gated
    <2> QED  BY <1>1, <2>1 DEF SessionInv, Gate
  <1>4. r = Init_ \/ r \in Answered \/ r \in Forgets
    BY <1>1, Requests
  <1>5. r \in Forgets => IsForget(w)
    BY <1>1 DEF IsForget, Carries
  <1> HIDE DEF r
  <1> QED  BY <1>2, <1>3, <1>4, <1>5

LEMMA StepProcess ==
    ASSUME NEW w \in Workers, SessionInv, Process(w)
    PROVE  SessionInv'
PROOF
  <1>1. CASE Refuse(w) /\ IsForget(w)
    <2>1. Types' /\ Hands'
      BY <1>1, Messages DEF SessionInv, Types, Hands, Process, MsgIs, Refuse
    <2>2. Fates' /\ Gate' /\ Pool'
      BY <1>1, Messages, Forgetting, Requests
         DEF SessionInv, Types, Hands, Fates, Gate, Pool, Process, MsgIs, Refuse
    <2> QED  BY <2>1, <2>2 DEF SessionInv
  <1>2. CASE Accept(w)
    <2>1. Types' /\ Hands'
      BY <1>2, Accepted, Messages DEF SessionInv, Types, Hands, Process, MsgIs
    <2>2. Fates' /\ Gate' /\ Pool'
      BY <1>2, Accepted, Messages DEF SessionInv, Types, Hands, Fates, Gate, Pool, Process, MsgIs
    <2> QED  BY <2>1, <2>2 DEF SessionInv
  <1> QED  BY <1>1, <1>2, GateOpen DEF Process

LEMMA StepBounce ==
    ASSUME NEW w \in Workers, SessionInv, Bounce(w)
    PROVE  SessionInv'
  BY DEF SessionInv, Types, Hands, Fates, Gate, Pool, Bounce

LEMMA StepHandle ==
    ASSUME NEW w \in Workers, SessionInv, Handle(w)
    PROVE  SessionInv'
PROOF
  <1> DEFINE r == wmsg[w].of
  <1>r. r \in Req /\ Carries(w, r) /\ wpc[w] = "handle" /\ ran' = [ran EXCEPT ![r] = @ + 1]
        /\ gotInit' = (gotInit \/ r = Init_)
    BY Messages DEF SessionInv, Types, Hands, Handle
  <1>1. Types' /\ Hands'
    BY <1>r, Forgetting DEF SessionInv, Types, Hands, Handle
  <1>2. Fates'
    BY <1>r, Messages, Forgetting, Requests DEF SessionInv, Types, Hands, Fates, Handle
  <1>3. Gate'
    <2>1. main \in {"check", "wait", "cancel", "join"}
      BY <1>r DEF SessionInv, Types, Pool
    <2>2. CASE r = Init_
      <3>1. ran[Init_] = 0
        BY <1>r, <2>2, Requests DEF SessionInv, Fates
      <3>2. ran'[Init_] = 1
        BY <1>r, <2>2, <3>1 DEF SessionInv, Types
      <3>3. gotInit'
        BY <1>r, <2>2
      <3> QED  BY <3>2, <3>3 DEF SessionInv, Gate, Handle
    <2>3. CASE r # Init_
      BY <1>r, <2>1, <2>3, Requests DEF SessionInv, Types, Gate, Handle
    <2> QED  BY <2>2, <2>3
  <1>4. Pool'
    BY <1>r DEF SessionInv, Types, Pool, Handle
  <1> QED  BY <1>1, <1>2, <1>3, <1>4 DEF SessionInv

LEMMA StepReply ==
    ASSUME NEW w \in Workers, SessionInv, Reply(w)
    PROVE  SessionInv'
PROOF
  <1>1. Types' /\ Hands'
    BY Messages DEF SessionInv, Types, Hands, Reply, Answer
  <1>2. Fates'
    <2>1. CASE severed
      BY <2>1, Messages, Requests DEF SessionInv, Types, Hands, Fates, Reply, Answer
    <2>2. CASE ~severed
      BY <2>2, Messages, Requests DEF SessionInv, Types, Hands, Fates, Reply, Answer
    <2> QED  BY <2>1, <2>2
  <1>3. Gate' /\ Pool'
    BY Messages, Requests DEF SessionInv, Types, Hands, Fates, Gate, Pool, Reply, Answer
  <1> QED  BY <1>1, <1>2, <1>3 DEF SessionInv

LEMMA StepFree ==
    ASSUME NEW w \in Workers, SessionInv, Free(w) \/ Mark(w) \/ Put(w)
    PROVE  SessionInv'
PROOF
  <1>1. Types' /\ Hands'
    BY Messages DEF SessionInv, Types, Hands, Free, Mark, Put
  <1>2. Fates' /\ Gate' /\ Pool'
    BY Messages DEF SessionInv, Types, Hands, Fates, Gate, Pool, Free, Mark, Put
  <1> QED  BY <1>1, <1>2 DEF SessionInv

LEMMA StepDoInterrupt ==
    ASSUME NEW w \in Workers, SessionInv, DoInterrupt(w)
    PROVE  SessionInv'
PROOF
  <1>1. Types' /\ Hands'
    BY Messages DEF SessionInv, Types, Hands, DoInterrupt, MsgIs
  <1>2. Fates' /\ Gate' /\ Pool'
    BY Messages DEF SessionInv, Types, Hands, Fates, Gate, Pool, DoInterrupt, MsgIs
  <1> QED  BY <1>1, <1>2 DEF SessionInv

LEMMA StepWorker ==
    ASSUME NEW w \in Workers, SessionInv, Worker(w)
    PROVE  SessionInv'
  BY StepTop, StepRead, StepReceive, StepLock, StepBack, StepNoMemory, StepProcess, StepBounce, StepHandle,
     StepReply, StepFree, StepDoInterrupt DEF Worker

-----------------------------------------------------------------------------
(* The main thread, signals, the kernel and the update command.              *)

\* A dead server has no workers and no requests outstanding.
LEMMA StepDie ==
    ASSUME SessionInv, NEW how \in {"ended", "dead"}, Die(how),
           UNCHANGED <<load, nrep, severed, ran, numworker, numavail, mtExit, cancelled, gotInit, asked>>,
           armed' \in BOOLEAN, terminated' \in BOOLEAN, faults' \in Nat, timeouts' \in Nat, round' \in Nat,
           reqFile' # 0 => reqFile # 0
    PROVE  SessionInv'
PROOF
  <1>0. FlagTypes'
    BY DEF SessionInv, Types, Die
  <1>1. DataTypes'
    BY DEF SessionInv, Types, Die
  <1>2. Hands'
    BY Messages DEF Hands, Die
  <1>3. Fates'
    BY Messages, Requests DEF SessionInv, Types, Fates, Die
  <1>4. Gate' /\ Pool'
    BY Requests DEF SessionInv, Types, Fates, Gate, Pool, Die
  <1> QED  BY <1>0, <1>1, <1>2, <1>3, <1>4 DEF SessionInv, Types

LEMMA StepMain ==
    ASSUME SessionInv, Main
    PROVE  SessionInv'
PROOF
  <1>1. CASE Arm \/ WriteAck \/ Check \/ SemWait \/ Cancel \/ Join \/ Adopt \/ ReplayInit
    <2>1. Types'
      <3>1. CASE Arm \/ WriteAck \/ Check \/ SemWait
        BY <3>1, ZenonT(40) DEF SessionInv, Types, Arm, WriteAck, Check, SemWait
      <3>2. CASE Cancel \/ Join \/ Adopt \/ ReplayInit
        BY <3>2, ZenonT(40) DEF SessionInv, Types, Cancel, Join, Adopt, ReplayInit
      <3> QED  BY <1>1, <3>1, <3>2
    <2>4. Hands' /\ Fates'
      BY <1>1 DEF SessionInv, Hands, Fates, Arm, WriteAck, Check, SemWait, Cancel, Join, Adopt, ReplayInit
    <2>2. Gate'
      BY <1>1 DEF SessionInv, Types, Gate, Arm, WriteAck, Check, SemWait, Cancel, Join, Adopt, ReplayInit
    <2>3. Pool'
      BY <1>1 DEF SessionInv, Types, Pool, Arm, WriteAck, Check, SemWait, Cancel, Join, Adopt, ReplayInit
    <2> QED  BY <2>1, <2>2, <2>3, <2>4 DEF SessionInv
  <1>2. CASE Start
    <2>1. Types' /\ Hands' /\ Fates'
      BY <1>2 DEF SessionInv, Types, Hands, Fates, Start, StartThread, NoThread
    <2>2. Gate' /\ Pool'
      BY <1>2 DEF SessionInv, Types, Gate, Pool, Start, StartThread, NoThread
    <2> QED  BY <2>1, <2>2 DEF SessionInv
  <1>3. CASE Leave
    <2>1. CASE asked
      <3>0. FlagTypes'
        BY <1>3, <2>1 DEF SessionInv, Types, Leave
      <3>1. DataTypes' /\ Hands'
        BY <1>3, <2>1 DEF SessionInv, Types, Hands, Leave
      <3>2. Fates' /\ Gate' /\ Pool'
        BY <1>3, <2>1 DEF SessionInv, Types, Fates, Gate, Pool, Leave
      <3> QED  BY <3>0, <3>1, <3>2 DEF SessionInv, Types
    <2>2. CASE ~asked
      BY <1>3, <2>2, StepDie DEF SessionInv, Types, Leave
    <2> QED  BY <2>1, <2>2
  <1>4. CASE Exec
    <2>0. FlagTypes'
      BY <1>4 DEF SessionInv, Types, Exec
    <2>1. DataTypes'
      BY <1>4 DEF SessionInv, Types, Exec
    <2>2. Hands'
      BY <1>4, Messages DEF Hands, Exec
    <2>3. Fates' /\ Gate' /\ Pool'
      BY <1>4, Messages DEF SessionInv, Types, Fates, Gate, Pool, Exec
    <2> QED  BY <2>0, <2>1, <2>2, <2>3 DEF SessionInv, Types
  <1>5. CASE ExecFails
    BY <1>5, StepDie DEF SessionInv, Types, ExecFails
  <1> QED  BY <1>1, <1>2, <1>3, <1>4, <1>5 DEF Main

LEMMA StepKernel ==
    ASSUME SessionInv,
           \/ \E r \in load.requests : Send(r)
           \/ \E r \in Signalled : Withdraw(r) \/ Interrupt(r)
           \/ Sever
    PROVE  SessionInv'
PROOF
  <1>1. CASE \E r \in load.requests : Send(r)
    <2> PICK r \in load.requests : Send(r)
      BY <1>1
    <2>r. r \in Req /\ r # Init_
      BY SessionAssumption DEF SessionInv, Types, LoadType, Req, Answered
    <2>1. Types' /\ Hands'
      BY <2>r DEF SessionInv, Types, Hands, Send
    <2>2. Fates' /\ Gate' /\ Pool'
      BY <2>r, Requests DEF SessionInv, Types, Fates, Gate, Pool, Send
    <2> QED  BY <2>1, <2>2 DEF SessionInv
  <1>2. CASE \E r \in Signalled : Withdraw(r)
    <2> PICK r \in Signalled : Withdraw(r)
      BY <1>2
    <2>r. r \in Answered /\ r \in Req /\ r # Init_
      BY Requests
    <2>1. Types' /\ Hands'
      BY <2>r DEF SessionInv, Types, Hands, Withdraw
    <2>2. Fates' /\ Gate' /\ Pool'
      BY <2>r, Requests DEF SessionInv, Types, Fates, Gate, Pool, Withdraw
    <2> QED  BY <2>1, <2>2 DEF SessionInv
  <1>3. CASE \E r \in Signalled : Interrupt(r)
    BY <1>3 DEF SessionInv, Types, Hands, Fates, Gate, Pool, Interrupt
  <1>4. CASE Sever
    <2>1. Types' /\ Hands' /\ Pool'
      BY <1>4 DEF SessionInv, Types, Hands, Pool, Sever
    <2>2. Fates' /\ Gate'
      BY <1>4, Requests DEF SessionInv, Types, Fates, Gate, Sever
    <2> QED  BY <2>1, <2>2 DEF SessionInv
  <1> QED  BY <1>1, <1>2, <1>3, <1>4

\* SIGTERM and SIGUSR2; onUsr2 sets its flag only for a published request.
LEMMA StepSignals ==
    ASSUME SessionInv, Terminate \/ OnUsr2 \/ OnUsr2Exit
    PROVE  SessionInv'
PROOF
  <1>1. CASE Terminate
    <2>1. CASE armed
      <3>1. Types' /\ Hands' /\ Fates'
        BY <1>1, <2>1 DEF SessionInv, Types, Hands, Fates, Terminate
      <3>2. Gate' /\ Pool'
        BY <1>1, <2>1 DEF SessionInv, Types, Gate, Pool, Terminate
      <3> QED  BY <3>1, <3>2 DEF SessionInv
    <2>2. CASE ~armed
      BY <1>1, <2>2, StepDie DEF SessionInv, Types, Terminate
    <2> QED  BY <2>1, <2>2
  <1>2. CASE OnUsr2
    <2>1. asked' \in BOOLEAN /\ (asked' => asked \/ reqFile # 0)
      BY <1>2 DEF OnUsr2, SessionInv, Types
    <2>2. FlagTypes'
      BY <1>2, <2>1 DEF OnUsr2, SessionInv, Types
    <2>3. DataTypes' /\ Hands' /\ Fates' /\ Pool'
      BY <1>2 DEF OnUsr2, SessionInv, Types, Hands, Fates, Pool
    <2>4. Gate'
      BY <1>2, <2>1 DEF OnUsr2, SessionInv, Gate
    <2> QED  BY <2>2, <2>3, <2>4 DEF SessionInv, Types
  <1>3. CASE OnUsr2Exit
    BY <1>3 DEF SessionInv, Types, Hands, Fates, Gate, Pool, OnUsr2Exit
  <1> QED  BY <1>1, <1>2, <1>3

LEMMA StepUpdate ==
    ASSUME SessionInv, Publish \/ Kill \/ Acked \/ TimeOut
    PROVE  SessionInv'
PROOF
  <1>1. CASE Publish
    <2>1. ran[Init_] = 1
      BY <1>1, Requests DEF Publish, SessionInv, Types, Fates
    <2> QED  BY <1>1, <2>1 DEF SessionInv, Types, Hands, Fates, Gate, Pool, Publish
  <1>2. CASE Kill
    <2>1. CASE ~Gone /\ ~armed
      BY <1>2, <2>1, StepDie DEF SessionInv, Types, Kill
    <2>2. CASE Gone \/ armed
      BY <1>2, <2>2 DEF SessionInv, Types, Hands, Fates, Gate, Pool, Kill
    <2> QED  BY <2>1, <2>2
  <1>3. CASE Acked \/ TimeOut
    BY <1>3 DEF SessionInv, Types, Hands, Fates, Gate, Pool, Acked, TimeOut
  <1> QED  BY <1>1, <1>2, <1>3

LEMMA InitSession == Init => SessionInv
PROOF
  <1> SUFFICES ASSUME Init PROVE SessionInv
    OBVIOUS
  <1>0. FlagTypes
    BY DEF Init
  <1>1. DataTypes
    <2>1. load \in LoadType
      BY LoadAssumption DEF Init
    <2> QED  BY <2>1, Requests DEF Init
  <1>2. Hands
    BY Messages DEF Init, Hands
  <1>3. Fates /\ Gate /\ Pool
    BY Messages, Requests DEF Init, Fates, Gate, Pool
  <1> QED  BY <1>0, <1>1, <1>2, <1>3 DEF SessionInv, Types

LEMMA StepSession == SessionInv /\ [Next]_vars => SessionInv'
PROOF
  <1> SUFFICES ASSUME SessionInv, [Next]_vars PROVE SessionInv'
    OBVIOUS
  <1>1. CASE UNCHANGED vars
    BY <1>1 DEF vars, SessionInv, Types, Hands, Fates, Gate, Pool
  <1> QED  BY <1>1, StepWorker, StepMain, StepKernel, StepSignals, StepUpdate DEF Next

\* In every state of every run a request is with one worker at most, has been
\* run and answered once at most, and every image with workers has processed
\* FUSE_INIT: what the other theorems rest on.
THEOREM SessionInvariant == Spec => []SessionInv
  BY InitSession, StepSession, PTL DEF Spec

-----------------------------------------------------------------------------
(* Updates: UpdateInv.                                                       *)

phases == <<upc, asked, usr2, reqFile, ackFile, token, main, armed, round>>

\* Of the workers, only one that finds the connection gone tells the session to exit.
LEMMA WorkerKeepsPhases ==
    ASSUME NEW w \in Workers, Worker(w)
    PROVE  /\ UNCHANGED <<phases, timeouts, terminated, severed>>
           /\ UNCHANGED exited \/ severed
           /\ faults' = faults \/ faults' = faults + 1
PROOF
  <1>1. CASE Top(w) \/ Poll(w) \/ Read(w) \/ Unmounted(w) \/ Cancelled(w) \/ Receive(w) \/ Back(w) \/ Post(w)
    BY <1>1 DEF phases, Top, Poll, Read, Unmounted, Cancelled, Receive, Back, Post
  <1>2. CASE NoMemory(w) \/ Reply(w)
    BY <1>2 DEF phases, NoMemory, Reply, Answer
  <1>3. CASE Lock(w)
    BY <1>3 DEF phases, Lock, StartThread, NoThread
  <1>4. CASE Process(w)
    BY <1>4, Accepted DEF phases, Process, Refuse, Answer
  <1>5. CASE Bounce(w) \/ Handle(w) \/ Free(w) \/ DoInterrupt(w) \/ Mark(w) \/ Put(w)
    BY <1>5 DEF phases, Bounce, Handle, Free, DoInterrupt, Mark, Put
  <1> QED  BY <1>1, <1>2, <1>3, <1>4, <1>5 DEF Worker

LEMMA UpdateWorker ==
    ASSUME SessionInv, UpdateInv, NEW w \in Workers, Worker(w)
    PROVE  UpdateInv'
PROOF
  <1>1. UNCHANGED <<phases, timeouts, terminated, severed>> /\ (Calm' => Calm /\ UNCHANGED exited)
    BY WorkerKeepsPhases DEF SessionInv, Types, Calm
  <1>2. main \in {"arm", "ack"} => wpc[w] = "absent"
    BY DEF SessionInv, Pool
  <1>3. main \in {"arm", "ack"} => FALSE
    BY <1>2 DEF Worker, Top, Poll, Read, Unmounted, Cancelled, Receive, Lock, Back, Post, NoMemory, Process, Bounce,
                Handle, Reply, Free, DoInterrupt, Mark, Put, MsgIs
  <1>4. Calm' /\ NoUpdate => NoUpdate'
    BY <1>1, <1>3 DEF phases, NoUpdate, Serving
  <1>5. Calm' => /\ Published => Published'
                 /\ Pending_ => Pending_'
                 /\ Asked_ => Asked_'
                 /\ Swapped => Swapped'
                 /\ Acknowledged => Acknowledged'
    BY <1>1 DEF phases, Published, Pending_, Asked_, Swapped, Acknowledged, Serving
  <1> QED  BY <1>1, <1>4, <1>5 DEF UpdateInv, phases

LEMMA UpdateMain ==
    ASSUME SessionInv, UpdateInv, Main
    PROVE  UpdateInv'
PROOF
  <1>1. Calm' => Calm
    BY DEF SessionInv, Types, Calm, Main, Arm, WriteAck, Start, StartThread, NoThread, Check, SemWait, Cancel, Join,
           Leave, Exec, ExecFails, Adopt, ReplayInit
  <1>2. CASE Arm \/ WriteAck \/ Check \/ SemWait \/ Cancel \/ Join \/ Adopt \/ ReplayInit
    BY <1>1, <1>2 DEF UpdateInv, NoUpdate, Published, Pending_, Asked_, Swapped, Acknowledged, Serving,
                      SessionInv, Types, Pool, Arm, WriteAck, Check, SemWait, Cancel, Join, Adopt, ReplayInit
  <1>3. CASE Start
    BY <1>1, <1>3 DEF UpdateInv, NoUpdate, Published, Pending_, Asked_, Swapped, Acknowledged, Serving,
                      SessionInv, Types, Pool, Start, StartThread, NoThread, Calm
  <1>4. CASE Leave \/ Exec \/ ExecFails
    BY <1>1, <1>4 DEF UpdateInv, NoUpdate, Published, Pending_, Asked_, Swapped, Acknowledged, Serving,
                      SessionInv, Types, Pool, Leave, Exec, ExecFails, Die, Calm
  <1> QED  BY <1>2, <1>3, <1>4 DEF Main

LEMMA UpdateRest ==
    ASSUME SessionInv, UpdateInv,
           \/ \E r \in load.requests : Send(r)
           \/ \E r \in Signalled : Withdraw(r) \/ Interrupt(r)
           \/ Sever \/ Terminate \/ OnUsr2 \/ OnUsr2Exit \/ Publish \/ Kill \/ Acked \/ TimeOut
    PROVE  UpdateInv'
PROOF
  <1>1. CASE \/ \E r \in load.requests : Send(r)
             \/ \E r \in Signalled : Withdraw(r) \/ Interrupt(r)
    BY <1>1 DEF UpdateInv, NoUpdate, Published, Pending_, Asked_, Swapped, Acknowledged, Serving, Calm,
                Send, Withdraw, Interrupt
  <1>2. CASE Terminate \/ Sever
    BY <1>2 DEF UpdateInv, Calm, Terminate, Die, Sever
  <1>3. CASE OnUsr2 \/ OnUsr2Exit
    BY <1>3 DEF UpdateInv, NoUpdate, Published, Pending_, Asked_, Swapped, Acknowledged, Serving, Calm,
                SessionInv, Types, OnUsr2, OnUsr2Exit
  <1>4. CASE Publish \/ Acked \/ TimeOut
    BY <1>4 DEF UpdateInv, NoUpdate, Published, Pending_, Asked_, Swapped, Acknowledged, Serving, Calm,
                SessionInv, Types, Publish, Acked, TimeOut
  <1>5. CASE Kill
    BY <1>5 DEF UpdateInv, NoUpdate, Published, Pending_, Asked_, Swapped, Acknowledged, Serving, Calm,
                SessionInv, Types, Kill, Die
  <1> QED  BY <1>1, <1>2, <1>3, <1>4, <1>5

LEMMA StepUpdateInv == SessionInv /\ UpdateInv /\ [Next]_vars => UpdateInv'
PROOF
  <1> SUFFICES ASSUME SessionInv, UpdateInv, [Next]_vars PROVE UpdateInv'
    OBVIOUS
  <1>1. CASE UNCHANGED vars
    BY <1>1 DEF vars, UpdateInv, NoUpdate, Published, Pending_, Asked_, Swapped, Acknowledged, Serving, Calm
  <1> QED  BY <1>1, UpdateWorker, UpdateMain, UpdateRest DEF Next

\* serve, onUsr2 and cmdReload, for any pool, any requests and any number of
\* update commands: as long as no command gives up and nothing fails, the
\* handler of SIGUSR2 is installed whenever the signal may come, the request
\* file is there when exec asks for it, and the mount keeps a server.
THEOREM UpdatesKeepServing == Spec => []UpdateKeepsServing
PROOF
  <1>1. Init => UpdateInv
    BY Requests DEF Init, UpdateInv, NoUpdate, Calm
  <1>2. SessionInv /\ UpdateInv => UpdateKeepsServing
    BY DEF SessionInv, Types, UpdateInv, UpdateKeepsServing, Calm, NoUpdate, Published, Pending_, Asked_, Swapped, Acknowledged, Serving
  <1> QED  BY <1>1, <1>2, StepUpdateInv, SessionInvariant, PTL DEF Spec

-----------------------------------------------------------------------------
(* The refinement of Connection.                                             *)

\* The fates of a session in which nothing runs or is answered twice.
Fated == [r \in Answered |->
    IF sent[r] = "queued" THEN "waiting"
    ELSE IF sent[r] = "read" THEN IF \A w \in Workers : ~Carries(w, r) THEN "lost"
                                  ELSE IF ran[r] = 1 THEN "run" ELSE "waiting"
    ELSE IF sent[r] = "ok" THEN "replied"
    ELSE IF sent[r] = "ENOMEM" THEN "refused"
    ELSE sent[r]]

LEMMA FatesAre == SessionInv => [r \in Answered |-> Fate(r)] = Fated
PROOF
  <1> SUFFICES ASSUME SessionInv, NEW r \in Answered PROVE Fate(r) = Fated[r]
    BY DEF Fated
  <1>1. nrep[r] \in {0, 1} /\ ran[r] \in {0, 1}
    BY Requests DEF SessionInv, Types, Fates
  <1>2. Held(r) <=> \E w \in Workers : Carries(w, r)
    BY DEF Held
  <1>3. ~(nrep[r] > 1 \/ ran[r] > 1)
    BY <1>1
  <1> QED  BY <1>2, <1>3 DEF Fate, Fated

\* A step of the session is one of Connection when it changes the fates so.
Moves(r, from, to) ==
    /\ Fated[r] = from /\ Fated' = [Fated EXCEPT ![r] = to]
    /\ UNCHANGED <<exited, main>>

Kept == UNCHANGED Fated /\ Gone' = Gone
Moved(r) ==
    \/ Moves(r, "idle", "waiting") /\ Fated[Init_] = "replied"
    \/ Moves(r, "waiting", "withdrawn") \/ Moves(r, "waiting", "run")
    \/ Moves(r, "run", "replied") \/ Moves(r, "waiting", "refused")
    \/ Moves(r, "waiting", "lost") /\ exited
AbortedAll == [r \in Answered |-> IF Fated[r] \in {"waiting", "run", "lost"} THEN "aborted" ELSE Fated[r]]
Aborted ==
    \/ Gone' /\ exited' = FALSE /\ Fated' = AbortedAll
    \/ UNCHANGED <<exited, main>> /\ Fated' = AbortedAll

Permitted == Kept \/ (\E r \in Answered : Moved(r)) \/ Aborted

LEMMA ConnectionSteps ==
    ASSUME SessionInv, SessionInv', Permitted
    PROVE  [Conn!CNext]_(Conn!cvars)
PROOF
  <1>1. [r \in Answered |-> Fate(r)] = Fated
    BY FatesAre
  <1>2. ([r \in Answered |-> Fate(r)] = Fated)'
    BY FatesAre, PTL
  <1>3. exited' \in BOOLEAN
    BY DEF SessionInv, Types
  <1>4. CASE Kept
    BY <1>1, <1>2, <1>3, <1>4 DEF Kept, Conn!CNext, Conn!Leave, Conn!cvars
  <1>5. ASSUME NEW r \in Answered, Moved(r) PROVE Conn!CNext
    BY <1>1, <1>2, <1>5 DEF Moved, Moves, Conn!CNext, Conn!Become, Conn!Send, Conn!Withdraw, Conn!Run, Conn!Reply,
                            Conn!Refuse, Conn!Lose
  <1>6. CASE Aborted
    BY <1>1, <1>2, <1>6 DEF Aborted, AbortedAll, Conn!CNext, Conn!Aborted, Conn!Abort, Conn!Sever
  <1> QED  BY <1>4, <1>5, <1>6 DEF Permitted

\* Most steps change no fate: who holds what, sent and ran stay as they are.
LEMMA FatesKept ==
    ASSUME SessionInv, UNCHANGED <<sent, ran, wmsg>>
    PROVE  UNCHANGED Fated
  BY DEF Fated

LEMMA PermittedQuiet ==
    ASSUME SessionInv, NEW w \in Workers,
           \/ Top(w) \/ Poll(w) \/ Unmounted(w) \/ Cancelled(w) \/ Post(w) \/ (Process(w) /\ Accept(w)) \/ Bounce(w)
           \/ Free(w) \/ DoInterrupt(w) \/ Mark(w) \/ Put(w)
    PROVE  Kept
  BY FatesKept, Accepted DEF Kept, Top, Poll, Unmounted, Cancelled, Post, Process, Bounce, Free, DoInterrupt, Mark, Put

LEMMA PermittedRead ==
    ASSUME SessionInv, SessionInv', NEW w \in Workers, Read(w)
    PROVE  Kept
PROOF
  <1> PICK m \in Queued : Dequeue(m) /\ wmsg' = [wmsg EXCEPT ![w] = m]
    BY DEF Read
  <1>m. m \in Msgs /\ (m.kind = "request" => sent[m.of] = "queued")
    BY QueuedMessages
  <1>s. /\ m.kind = "request" => sent' = [sent EXCEPT ![m.of] = IF m.of \in Forgets THEN "done" ELSE "read"]
        /\ m.kind # "request" => sent' = sent
        /\ wmsg[w] = Nothing /\ UNCHANGED <<ran, main>>
    BY <1>m, Messages DEF Dequeue, Read, SessionInv, Hands
  <1>1. ASSUME NEW r \in Answered PROVE Fated'[r] = Fated[r]
    <2>1. CASE m = Msg("request", r)
      BY <1>m, <1>s, <2>1, Messages, Requests DEF Fated, SessionInv, Types, Fates
    <2>2. CASE m # Msg("request", r)
      BY <1>m, <1>s, <2>2, Messages, Requests DEF Fated, SessionInv, Types
    <2> QED  BY <2>1, <2>2
  <1> QED  BY <1>1, <1>s DEF Kept, Fated

\* What a worker drops is lost, unless it was answered; the pool drops
\* messages unanswered only when the session was told to exit.
LEMMA PermittedDrop ==
    ASSUME SessionInv, SessionInv', NEW w \in Workers, Receive(w) \/ Lock(w) \/ Back(w)
    PROVE  Kept \/ \E r \in Answered : Moved(r)
PROOF
  <1>1. CASE UNCHANGED wmsg
    BY <1>1, FatesKept DEF Kept, Receive, Lock, Back
  <1>2. CASE Drop(w) /\ ~(wmsg[w].kind = "request" /\ wmsg[w].of \in Answered)
    BY <1>2, Messages, Requests DEF Kept, Fated, SessionInv, Types, Hands, Receive, Lock, Back, Drop
  <1>3. CASE Drop(w) /\ wmsg[w].kind = "request" /\ wmsg[w].of \in Answered
    <2> DEFINE r == wmsg[w].of
    <2>r. r \in Answered /\ Carries(w, r) /\ UNCHANGED <<sent, ran, main, exited>>
      BY <1>3, Messages DEF SessionInv, Types, Receive, Lock, Back
    <2>o. \A q \in Answered, v \in Workers : Carries(v, q)' <=> Carries(v, q) /\ v # w
      BY <1>3, Messages DEF SessionInv, Types, Drop
    <2>1. CASE wpc[w] = "back"
      BY <1>3, <2>1, <2>r, <2>o, Messages, Requests DEF Kept, Fated, SessionInv, Types, Fates
    <2>2. CASE wpc[w] # "back"
      <3>1. exited /\ sent[r] \in {"read", "aborted"} /\ ran[r] = 0
        BY <1>3, <2>2, <2>r, Messages DEF SessionInv, Types, Fates, Pool, Receive, Lock, Back, Drop
      <3>2. CASE sent[r] = "read"
        <4>1. Fated[r] = "waiting" /\ Fated' = [Fated EXCEPT ![r] = "lost"]
          BY <3>1, <3>2, <2>r, <2>o, Messages, Requests DEF Fated, SessionInv, Hands
        <4> QED  BY <3>1, <4>1, <2>r DEF Moved, Moves
      <3>3. CASE sent[r] = "aborted"
        BY <1>3, <3>3, <2>r, <2>o, Messages, Requests DEF Kept, Fated, SessionInv, Types
      <3> QED  BY <3>1, <3>2, <3>3
    <2> QED  BY <2>1, <2>2
  <1> QED  BY <1>1, <1>2, <1>3 DEF Receive, Lock, Back, StartThread, NoThread

\* Answering a request that was aborted changes nothing for the kernel.
LEMMA AnswerAborted ==
    ASSUME SessionInv, NEW r \in Answered, NEW a, sent[r] = "aborted", Answer(r, a), UNCHANGED <<ran, wmsg, main>>
    PROVE  Kept
PROOF
  <1>1. UNCHANGED sent
    BY Requests DEF Answer, SessionInv, Types
  <1> QED  BY <1>1, FatesKept DEF Kept

LEMMA PermittedNoMemory ==
    ASSUME SessionInv, SessionInv', NEW w \in Workers, NoMemory(w) \/ (Process(w) /\ Refuse(w) /\ IsForget(w))
    PROVE  Kept \/ \E r \in Answered : Moved(r)
PROOF
  <1>1. CASE ~(MsgIs(w, "request") /\ ~IsForget(w))
    BY <1>1, FatesKept DEF Kept, NoMemory, Process, Refuse
  <1>2. CASE MsgIs(w, "request") /\ ~IsForget(w)
    <2> DEFINE r == wmsg[w].of
    <2>r. r \in Answered /\ Carries(w, r) /\ sent[r] \in {"read", "aborted"} /\ ran[r] = 0
      BY <1>2, Messages, Forgetting, Requests DEF SessionInv, Types, Fates, MsgIs
    <2>1. CASE sent[r] = "read"
      <3>1. sent' = [sent EXCEPT ![r] = "ENOMEM"] /\ UNCHANGED <<ran, wmsg, main, exited>>
        BY <1>2, <2>r, <2>1, Requests DEF NoMemory, Answer, SessionInv, Fates
      <3>2. Fated[r] = "waiting" /\ Fated' = [Fated EXCEPT ![r] = "refused"]
        BY <2>r, <2>1, <3>1, Requests DEF Fated, SessionInv, Types
      <3> QED  BY <3>1, <3>2, <2>r DEF Moved, Moves
    <2>2. CASE sent[r] = "aborted"
      BY <1>2, <2>r, <2>2, AnswerAborted DEF NoMemory
    <2> QED  BY <2>r, <2>1, <2>2
  <1> QED  BY <1>1, <1>2

LEMMA PermittedHandle ==
    ASSUME SessionInv, SessionInv', NEW w \in Workers, Handle(w)
    PROVE  Kept \/ \E r \in Answered : Moved(r)
PROOF
  <1> DEFINE r == wmsg[w].of
  <1>r. r \in Req /\ Carries(w, r) /\ wpc[w] = "handle" /\ ran' = [ran EXCEPT ![r] = @ + 1]
        /\ UNCHANGED <<sent, wmsg, main, exited>>
    BY Messages DEF SessionInv, Types, Hands, Handle
  <1>1. CASE r \notin Answered
    BY <1>1, <1>r, Requests DEF Kept, Fated, SessionInv, Types
  <1>2. CASE r \in Answered
    <2>1. sent[r] \in {"read", "aborted"} /\ ran[r] = 0
      BY <1>2, <1>r DEF SessionInv, Fates
    <2>2. CASE sent[r] = "read"
      <3>1. Fated[r] = "waiting" /\ Fated' = [Fated EXCEPT ![r] = "run"]
        BY <1>2, <1>r, <2>1, <2>2, Requests DEF Fated, SessionInv, Types
      <3> QED  BY <1>2, <1>r, <3>1 DEF Moved, Moves
    <2>3. CASE sent[r] = "aborted"
      BY <1>2, <1>r, <2>3, Requests DEF Kept, Fated, SessionInv, Types
    <2> QED  BY <2>1, <2>2, <2>3
  <1> QED  BY <1>1, <1>2

LEMMA PermittedReply ==
    ASSUME SessionInv, SessionInv', NEW w \in Workers, Reply(w)
    PROVE  Kept \/ \E r \in Answered : Moved(r)
PROOF
  <1> DEFINE r == wmsg[w].of
  <1>r. r \in Answered /\ Carries(w, r) /\ wpc[w] = "reply" /\ sent[r] \in {"read", "aborted"} /\ ran[r] = 1
    BY Messages, Requests DEF SessionInv, Types, Hands, Fates, Reply
  <1>1. CASE sent[r] = "read"
    <2>1. sent' = [sent EXCEPT ![r] = "ok"] /\ UNCHANGED <<ran, wmsg, main, exited>>
      BY <1>r, <1>1, Requests DEF Reply, Answer, SessionInv, Fates
    <2>2. Fated[r] = "run" /\ Fated' = [Fated EXCEPT ![r] = "replied"]
      BY <1>r, <1>1, <2>1, Requests DEF Fated, SessionInv, Types
    <2> QED  BY <2>1, <2>2, <1>r DEF Moved, Moves
  <1>2. CASE sent[r] = "aborted"
    BY <1>r, <1>2, AnswerAborted DEF Reply
  <1> QED  BY <1>r, <1>1, <1>2

LEMMA PermittedWorker ==
    ASSUME SessionInv, SessionInv', NEW w \in Workers, Worker(w)
    PROVE  Permitted
PROOF
  <1>1. Process(w) => Accept(w) \/ (Refuse(w) /\ IsForget(w))
    BY GateOpen DEF Process
  <1>2. Kept \/ \E r \in Answered : Moved(r)
    <2>1. CASE Top(w) \/ Poll(w) \/ Unmounted(w) \/ Cancelled(w) \/ Post(w) \/ Bounce(w)
               \/ Free(w) \/ DoInterrupt(w) \/ Mark(w) \/ Put(w)
      BY <2>1, PermittedQuiet
    <2>2. CASE Process(w)
      BY <2>2, <1>1, PermittedQuiet, PermittedNoMemory
    <2>3. CASE Read(w) \/ Receive(w) \/ Lock(w) \/ Back(w)
      BY <2>3, PermittedRead, PermittedDrop
    <2>4. CASE NoMemory(w) \/ Handle(w) \/ Reply(w)
      BY <2>4, PermittedNoMemory, PermittedHandle, PermittedReply
    <2> QED  BY <2>1, <2>2, <2>3, <2>4 DEF Worker
  <1> QED  BY <1>2 DEF Permitted

\* A server that dies aborts what it has not answered.
LEMMA PermittedDie ==
    ASSUME SessionInv, NEW how \in {"ended", "dead"}, Die(how), UNCHANGED ran
    PROVE  Aborted
PROOF
  <1>1. ASSUME NEW r \in Answered
        PROVE  Fated'[r] = IF Fated[r] \in {"waiting", "run", "lost"} THEN "aborted" ELSE Fated[r]
    BY Requests DEF Fated, Die, SessionInv, Types
  <1> QED  BY <1>1 DEF Aborted, AbortedAll, Fated, Die

LEMMA PermittedMain ==
    ASSUME SessionInv, SessionInv', Main
    PROVE  Permitted
PROOF
  <1>1. CASE Arm \/ WriteAck \/ Start \/ Check \/ SemWait \/ Cancel \/ Join \/ Adopt \/ ReplayInit
    BY <1>1, FatesKept DEF Permitted, Kept, Arm, WriteAck, Start, Check, SemWait, Cancel, Join, Adopt, ReplayInit
  <1>2. CASE Leave /\ asked
    BY <1>2, FatesKept DEF Permitted, Kept, Leave
  <1>3. CASE (Leave /\ ~asked) \/ ExecFails
    BY <1>3, PermittedDie DEF Permitted, Leave, ExecFails
  <1>4. CASE Exec
    <2>1. \A w \in Workers : wmsg[w] = Nothing
      BY <1>4 DEF Exec, SessionInv, Hands, Pool
    <2> QED  BY <1>4, <2>1, Messages, Requests DEF Permitted, Kept, Fated, Exec
  <1> QED  BY <1>1, <1>2, <1>3, <1>4 DEF Main

LEMMA PermittedRest ==
    ASSUME SessionInv, SessionInv',
           \/ \E r \in load.requests : Send(r)
           \/ \E r \in Signalled : Withdraw(r) \/ Interrupt(r)
           \/ Sever \/ Terminate \/ OnUsr2 \/ OnUsr2Exit \/ Publish \/ Kill \/ Acked \/ TimeOut
    PROVE  Permitted
PROOF
  <1>1. ASSUME NEW r \in load.requests, Send(r) PROVE Permitted
    <2>1. CASE r \in Answered
      <3>0. Fated[r] = "idle" /\ Fated[Init_] = "replied"
        BY <1>1, <2>1, Requests DEF Fated, Send
      <3>1. Fated' = [Fated EXCEPT ![r] = "waiting"]
        BY <1>1, <2>1, Requests DEF Fated, Send, SessionInv, Types
      <3>2. UNCHANGED <<exited, main>>
        BY <1>1 DEF Send
      <3> QED  BY <2>1, <3>0, <3>1, <3>2 DEF Permitted, Moved, Moves
    <2>2. CASE r \notin Answered
      BY <1>1, <2>2, Requests DEF Permitted, Kept, Fated, Send, SessionInv, Types
    <2> QED  BY <2>1, <2>2
  <1>2. ASSUME NEW r \in Signalled, Withdraw(r) \/ Interrupt(r) PROVE Permitted
    <2>1. CASE Withdraw(r)
      <3>1. Fated[r] = "waiting" /\ Fated' = [Fated EXCEPT ![r] = "withdrawn"] /\ r \in Answered
        BY <2>1, Requests DEF Fated, Withdraw, SessionInv, Types
      <3>2. UNCHANGED <<exited, main>>
        BY <2>1 DEF Withdraw
      <3> QED  BY <3>1, <3>2 DEF Permitted, Moved, Moves
    <2>2. CASE Interrupt(r)
      BY <2>2, FatesKept DEF Permitted, Kept, Interrupt
    <2> QED  BY <1>2, <2>1, <2>2
  <1>3. CASE (Terminate /\ armed) \/ OnUsr2 \/ OnUsr2Exit \/ Publish \/ (Kill /\ (Gone \/ armed)) \/ Acked \/ TimeOut
    BY <1>3, FatesKept DEF Permitted, Kept, Terminate, OnUsr2, OnUsr2Exit, Publish, Kill, Acked, TimeOut
  <1>4. CASE (Terminate /\ ~armed) \/ (Kill /\ ~Gone /\ ~armed)
    BY <1>4, PermittedDie DEF Permitted, Terminate, Kill
  <1>5. CASE Sever
    <2>1. ASSUME NEW r \in Answered PROVE Fated'[r] = AbortedAll[r]
      BY <1>5, Requests DEF Fated, AbortedAll, Sever, SessionInv, Types
    <2> QED  BY <1>5, <2>1 DEF Permitted, Aborted, AbortedAll, Fated, Sever
  <1> QED  BY <1>1, <1>2, <1>3, <1>4, <1>5

\* fuse_lowlevel.c, fuse_loop_mt.c and the handover, for any pool, requests and
\* update commands: a request is run at most once and answered at most once,
\* with EIO never, and is lost only by a session on its way out.
THEOREM SessionImplementsConnection == Spec => ImplementsConnection
PROOF
  <1>1. Init => Conn!CInit
    <2> SUFFICES ASSUME Init PROVE Conn!CInit
      OBVIOUS
    <2>1. [r \in Answered |-> Fate(r)] = Fated
      BY FatesAre, InitSession
    <2>2. Fated = [r \in Answered |-> IF r = Init_ THEN "waiting" ELSE "idle"]
      BY Requests DEF Fated, Init
    <2>3. ~Gone /\ exited = FALSE
      BY DEF Init
    <2> QED  BY <2>1, <2>2, <2>3 DEF Conn!CInit
  <1>2. SessionInv /\ SessionInv' /\ [Next]_vars => [Conn!CNext]_(Conn!cvars)
    <2> SUFFICES ASSUME SessionInv, SessionInv', [Next]_vars PROVE [Conn!CNext]_(Conn!cvars)
      OBVIOUS
    <2>1. CASE UNCHANGED vars
      BY <2>1, FatesKept, ConnectionSteps DEF vars, Permitted, Kept
    <2>2. CASE Next
      <3>1. Permitted
        BY <2>2, PermittedWorker, PermittedMain, PermittedRest DEF Next
      <3> QED  BY <3>1, ConnectionSteps
    <2> QED  BY <2>1, <2>2
  <1> QED  BY <1>1, <1>2, SessionInvariant, PTL DEF Spec, ImplementsConnection, Conn!CSpec

-----------------------------------------------------------------------------
(* The pool: CountInv.                                                       *)

LEMMA WorkerSets ==
    /\ \A S \in SUBSET Workers : /\ IsFiniteSet(S) /\ Cardinality(S) \in Nat
                                 /\ Cardinality(S) = 0 <=> S = {}
    /\ \A S \in SUBSET Workers, w \in Workers : w \notin S => Cardinality(S \cup {w}) = Cardinality(S) + 1
PROOF
  <1>1. IsFiniteSet(Workers)
    BY FS_Interval, SessionAssumption DEF Workers
  <1>2. \A S \in SUBSET Workers : IsFiniteSet(S)
    BY <1>1, FS_Subset
  <1>3. \A S \in SUBSET Workers : Cardinality(S) \in Nat /\ (Cardinality(S) = 0 <=> S = {})
    BY <1>2, FS_CardinalityType, FS_EmptySet
  <1>4. \A S \in SUBSET Workers, w \in Workers : w \notin S => Cardinality(S \cup {w}) = Cardinality(S) + 1
    BY <1>2, FS_AddElement
  <1> QED  BY <1>2, <1>3, <1>4

\* Only the two sections of mt.lock, and the start of the pool, change who is
\* available.
LEMMA CountQuiet ==
    ASSUME SessionInv, CountInv, NEW w \in Workers, ~exited', main \in {"check", "wait"},
           \/ Top(w) \/ Poll(w) \/ Read(w) \/ Cancelled(w) \/ Receive(w) \/ Post(w) \/ NoMemory(w) \/ Process(w)
           \/ Bounce(w) \/ Handle(w) \/ Reply(w) \/ Free(w) \/ DoInterrupt(w) \/ Mark(w) \/ Put(w)
    PROVE  CountInv'
PROOF
  <1>0. exited = FALSE
    BY DEF SessionInv, Types, Top, Poll, Read, Cancelled, Receive, Post, NoMemory, Process, Bounce, Handle, Reply,
           Free, DoInterrupt, Mark, Put
  <1>1. UNCHANGED <<numavail, numworker, main, exited>> /\ (faults' = faults \/ faults' = faults + 1)
    BY <1>0 DEF Top, Poll, Read, Cancelled, Receive, Post, NoMemory, Process, Bounce, Handle, Reply,
                Free, DoInterrupt, Mark, Put
  <1>2. Available' = Available
    <2>1. CASE Top(w) \/ Poll(w) \/ Cancelled(w) \/ Receive(w) \/ Post(w)
      BY <1>0, <2>1 DEF Available, IsForget, SessionInv, Types, Pool, Top, Poll, Cancelled, Receive, Post
    <2>2. CASE Read(w)
      BY <2>2 DEF Available, IsForget, SessionInv, Types, Read
    <2>3. CASE NoMemory(w) \/ Bounce(w) \/ Handle(w) \/ Reply(w) \/ Free(w)
      BY <2>3 DEF Available, IsForget, SessionInv, Types, NoMemory, Bounce, Handle, Reply, Free
    <2>4. CASE Process(w)
      BY <2>4, Accepted DEF Available, IsForget, SessionInv, Types, Process, Refuse, MsgIs
    <2>5. CASE DoInterrupt(w) \/ Mark(w) \/ Put(w)
      <3>1. ~IsForget(w)
        BY <2>5, Forgetting DEF SessionInv, Hands, DoInterrupt, MsgIs, Mark, Put
      <3>2. /\ UNCHANGED wmsg /\ wpc[w] \in {"process", "mark", "put"}
            /\ \E to \in {"mark", "back", "put"} : wpc' = [wpc EXCEPT ![w] = to]
        BY <2>5 DEF DoInterrupt, MsgIs, Mark, Put
      <3> QED  BY <3>1, <3>2 DEF Available, IsForget, SessionInv, Types
    <2> QED  BY <2>1, <2>2, <2>3, <2>4, <2>5
  <1> QED  BY <1>0, <1>1, <1>2 DEF CountInv, SessionInv, Types

\* Another reader, or a thread that could not be created.
LEMMA CountStart ==
    ASSUME SessionInv, NEW w \in Workers, NEW pcs \in [Workers -> Pcs], NEW avail \in Nat, NEW keep \in SUBSET Workers,
           StartThread(pcs, avail), UNCHANGED wmsg,
           \A v \in keep : pcs[v] # "absent",
           \A v \in Workers : v \in keep <=>
               \/ pcs[v] \in {"top", "poll", "read", "got", "lock"}
               \/ pcs[v] \in {"process", "bounce", "handle", "reply", "free", "back"} /\ IsForget(v),
           avail = Cardinality(keep)
    PROVE  /\ numavail' = Cardinality(Available')
           /\ faults' = 0 => numavail' # 0
PROOF
  <1>1. CASE NoThread(pcs, avail)
    <2>1. Available' = keep
      BY <1>1 DEF NoThread, Available, IsForget
    <2> QED  BY <1>1, <2>1 DEF NoThread, SessionInv, Types
  <1>2. ASSUME NEW v \in Workers, pcs[v] = "absent", wpc' = [pcs EXCEPT ![v] = "top"], numavail' = avail + 1
        PROVE  numavail' = Cardinality(Available') /\ numavail' # 0
    <2>1. v \notin keep /\ Available' = keep \cup {v}
      BY <1>2 DEF Available, IsForget
    <2> QED  BY <1>2, <2>1, WorkerSets
  <1> QED  BY <1>1, <1>2 DEF StartThread

LEMMA CountLock ==
    ASSUME SessionInv, CountInv, NEW w \in Workers, ~exited', main \in {"check", "wait"}, Lock(w)
    PROVE  CountInv'
PROOF
  <1> DEFINE busy == [wpc EXCEPT ![w] = "process"]
             keep == IF IsForget(w) THEN Available ELSE Available \ {w}
  <1>1. exited = FALSE /\ mtExit = FALSE /\ UNCHANGED <<main, exited, wagain, mtExit>> /\ wpc[w] = "lock"
    BY DEF Lock, SessionInv, Types, Pool
  <1>2. numavail = Cardinality(Available) /\ Available \in SUBSET Workers /\ w \in Available
    BY <1>1 DEF CountInv, Available
  <1>3. Busy(w) = Cardinality(keep) /\ Busy(w) \in Nat /\ keep \in SUBSET Workers
    <2>1. CASE IsForget(w)
      BY <1>2, <2>1, WorkerSets DEF Busy
    <2>2. CASE ~IsForget(w)
      <3>1. Available = keep \cup {w} /\ keep \in SUBSET Workers /\ w \notin keep
        BY <1>2, <2>2
      <3>2. Cardinality(Available) = Cardinality(keep) + 1 /\ Cardinality(keep) \in Nat
        BY <3>1, WorkerSets
      <3> QED  BY <1>2, <2>2, <3>1, <3>2 DEF Busy
    <2> QED  BY <2>1, <2>2
  <1>4. busy \in [Workers -> Pcs]
    BY DEF SessionInv, Types
  <1>5. \A v \in Workers : v \in keep <=>
               \/ busy[v] \in {"top", "poll", "read", "got", "lock"}
               \/ busy[v] \in {"process", "bounce", "handle", "reply", "free", "back"} /\ IsForget(v)
    BY <1>1 DEF Available, SessionInv, Types
  <1>6. CASE StartThread(busy, Busy(w)) /\ UNCHANGED wmsg
    <2>1. \A v \in keep : busy[v] # "absent"
      BY <1>3, <1>5
    <2> HIDE DEF busy, keep
    <2>2. numavail' = Cardinality(Available') /\ (faults' = 0 => numavail' # 0)
      BY <1>3, <1>4, <1>5, <1>6, <2>1, CountStart
    <2> QED  BY <2>2 DEF CountInv
  <1>7. CASE /\ Busy(w) # 0 \/ numworker = MaxThreads
             /\ wpc' = busy /\ numavail' = Busy(w) /\ UNCHANGED <<numworker, faults, wmsg>>
    <2>1. Available' = keep
      BY <1>5, <1>7, <1>3 DEF Available, IsForget
    <2>2. ~(numworker < MaxThreads) \/ Busy(w) # 0
      BY <1>7, SessionAssumption DEF SessionInv, Types
    <2> QED  BY <1>3, <1>7, <2>1, <2>2 DEF CountInv
  <1> QED  BY <1>1, <1>6, <1>7 DEF Lock

LEMMA CountBack ==
    ASSUME SessionInv, CountInv, NEW w \in Workers, ~exited', main \in {"check", "wait"}, Back(w)
    PROVE  CountInv'
PROOF
  <1>1. exited = FALSE /\ UNCHANGED <<main, exited, numworker, faults>> /\ wpc[w] = "back"
        /\ wpc' = [wpc EXCEPT ![w] = "top"] /\ wmsg' = [wmsg EXCEPT ![w] = Nothing]
    BY DEF Back, Drop, SessionInv, Types
  <1>2. numavail = Cardinality(Available) /\ Available \in SUBSET Workers
    BY <1>1 DEF CountInv, Available
  <1>3. Available' = Available \cup {w}
    BY <1>1 DEF Available, IsForget, SessionInv, Types
  <1>4. w \in Available <=> IsForget(w)
    BY <1>1 DEF Available
  <1>5. Cardinality(Available') = (IF IsForget(w) THEN numavail ELSE numavail + 1) /\ Cardinality(Available') # 0
    <2>1. CASE IsForget(w)
      <3>1. Available' = Available /\ Available # {}
        BY <1>3, <1>4, <2>1
      <3> QED  BY <1>2, <2>1, <3>1, WorkerSets
    <2>2. CASE ~IsForget(w)
      BY <1>2, <1>3, <1>4, <2>2, WorkerSets
    <2> QED  BY <2>1, <2>2
  <1> QED  BY <1>5 DEF CountInv, Back

LEMMA StepCount == SessionInv /\ CountInv /\ [Next]_vars => CountInv'
PROOF
  <1> SUFFICES ASSUME SessionInv, CountInv, [Next]_vars,
                      ~exited', main' \in {"adopt", "replay", "arm", "ack", "start", "check", "wait"}
               PROVE  CountInv'
    BY DEF CountInv
  <1>1. CASE UNCHANGED vars
    BY <1>1 DEF vars, CountInv, Available, IsForget
  <1>2. ASSUME NEW w \in Workers, Worker(w) PROVE CountInv'
    <2>1. UNCHANGED main /\ main \in {"check", "wait"}
      <3>1. UNCHANGED main
        BY <1>2, WorkerKeepsPhases DEF phases
      <3>2. wpc[w] \notin {"absent", "ended"}
        BY <1>2 DEF Worker, Top, Poll, Read, Unmounted, Cancelled, Receive, Lock, Back, Post, NoMemory, Process,
                    Bounce, Handle, Reply, Free, DoInterrupt, Mark, Put, MsgIs
      <3> QED  BY <3>1, <3>2 DEF SessionInv, Pool
    <2>2. ~Unmounted(w)
      BY DEF Unmounted
    <2> QED  BY <1>2, <2>1, <2>2, CountQuiet, CountLock, CountBack DEF Worker
  <1>3. CASE Main
    <2>1. CASE Start
      <3>1. Available = {} /\ wpc \in [Workers -> Pcs] /\ \A v \in Workers : wpc[v] = "absent"
        BY <2>1 DEF Available, Start, SessionInv, Types, Pool
      <3>2. exited = FALSE /\ UNCHANGED exited /\ numavail = Cardinality({}) /\ numavail = 0
        BY <2>1, <3>1, WorkerSets DEF Start, SessionInv, Types, CountInv
      <3>3. numavail' = Cardinality(Available') /\ (faults' = 0 => numavail' # 0)
        <4>1. 1 \in Workers
          BY SessionAssumption DEF Workers
        <4> QED  BY <2>1, <3>1, <3>2, <4>1, CountStart DEF Start
      <3> QED  BY <3>3 DEF CountInv
    <2>2. CASE Exec \/ Adopt \/ ReplayInit \/ Arm \/ WriteAck
      <3>1. Available' = {}
        BY <2>2 DEF Available, SessionInv, Pool, Exec, Adopt, ReplayInit, Arm, WriteAck
      <3>2. Cardinality({}) = 0
        BY WorkerSets
      <3>3. numavail' = 0
        BY <2>2, <3>1, <3>2 DEF CountInv, Available, SessionInv, Types, Pool, Exec, Adopt, ReplayInit, Arm, WriteAck
      <3> QED  BY <2>2, <3>1, <3>2, <3>3 DEF CountInv, Exec, Adopt, ReplayInit, Arm, WriteAck
    <2>3. CASE Check \/ SemWait \/ Cancel \/ Join \/ Leave \/ ExecFails
      BY <2>3 DEF CountInv, Available, IsForget, Check, SemWait, Cancel, Join, Leave, ExecFails, Die
    <2> QED  BY <1>3, <2>1, <2>2, <2>3 DEF Main
  <1>4. CASE \/ \E r \in load.requests : Send(r)
             \/ \E r \in Signalled : Withdraw(r) \/ Interrupt(r)
             \/ Sever \/ OnUsr2 \/ OnUsr2Exit \/ Publish \/ Acked \/ TimeOut
    BY <1>4 DEF CountInv, Available, IsForget, Sever, Send, Withdraw, Interrupt, OnUsr2, OnUsr2Exit, Publish, Acked, TimeOut
  <1>5. CASE Terminate \/ Kill
    BY <1>5 DEF CountInv, Available, IsForget, Terminate, Kill, Die
  <1> QED  BY <1>1, <1>2, <1>3, <1>4, <1>5 DEF Next

\* fuse_do_work's hand-off, for any number of threads, requests and updates:
\* mt->numavail counts the workers that will be back at the connection without
\* waiting for a handler, so a worker that leaves it at zero starts another.
THEOREM PoolKeepsAReader == Spec => []PoolKeepsReading
PROOF
  <1>1. Init => CountInv
    BY WorkerSets DEF Init, CountInv, Available
  <1>2. SessionInv /\ CountInv => PoolKeepsReading
    <2> SUFFICES ASSUME SessionInv, CountInv, main \in {"check", "wait"}, ~exited, numworker < MaxThreads, faults = 0
                 PROVE  Available # {}
      BY DEF PoolKeepsReading, Available
    <2> QED  BY WorkerSets DEF CountInv
  <1> QED  BY <1>1, <1>2, StepCount, SessionInvariant, PTL DEF Spec

-----------------------------------------------------------------------------
(* Request objects: ObjectInv.                                               *)

\* Nothing changes when the same workers hold the same objects.
LEMMA ObjectsKept ==
    ASSUME SessionInv, ObjectInv, UNCHANGED <<list, ctr>>,
           \A r \in Req : Processing(r)' = Processing(r) /\ Interrupting(r)' = Interrupting(r),
           \A r \in Req : sent[r] \notin Unread => sent'[r] \notin Unread,
           \A r \in Req, v \in Workers :
              Interrupting(r) # {} /\ Carries(v, r)' /\ wpc'[v] \in Unaccepted => Carries(v, r) /\ wpc[v] \in Unaccepted
    PROVE  ObjectInv'
PROOF
  <1>1. ObjectsOwned'
    BY DEF ObjectInv, ObjectsOwned
  <1>2. Interrupts'
    BY DEF ObjectInv, Interrupts
  <1> QED  BY <1>1, <1>2 DEF ObjectInv

\* Steps that leave the objects alone: the workers they move hold none before
\* and after, or the same.
LEMMA ObjectsQuiet ==
    ASSUME SessionInv, SessionInv', ObjectInv, NEW w \in Workers,
           \/ Top(w) \/ Poll(w) \/ Unmounted(w) \/ Cancelled(w) \/ Receive(w) \/ Lock(w) \/ Back(w) \/ Post(w)
           \/ NoMemory(w) \/ (Process(w) /\ Refuse(w)) \/ Bounce(w) \/ Handle(w) \/ Reply(w) \/ Mark(w)
    PROVE  ObjectInv'
PROOF
  <1>1. UNCHANGED <<list, ctr>>
    BY DEF Top, Poll, Unmounted, Cancelled, Receive, Lock, Back, Post, NoMemory, Process, Refuse, Bounce, Handle, Reply, Mark
  <1>2. ASSUME NEW r \in Req PROVE Processing(r)' = Processing(r) /\ Interrupting(r)' = Interrupting(r)
    <2>1. CASE Top(w) \/ Poll(w) \/ Unmounted(w) \/ Cancelled(w) \/ Receive(w) \/ Back(w) \/ Post(w)
      BY <2>1, Messages DEF SessionInv, Types, Processing, Interrupting, Top, Poll, Unmounted, Cancelled, Receive, Drop, Back, Post
    <2>2. CASE Lock(w)
      BY <2>2, Messages DEF SessionInv, Types, Processing, Interrupting, Lock, StartThread, NoThread, Drop
    <2>3. CASE NoMemory(w) \/ (Process(w) /\ Refuse(w)) \/ Bounce(w) \/ Handle(w) \/ Reply(w) \/ Mark(w)
      BY <2>3, Messages DEF SessionInv, Types, Processing, Interrupting, NoMemory, Process, MsgIs, Refuse, Bounce,
                            Handle, Reply, Mark
    <2> QED  BY <2>1, <2>2, <2>3
  <1>3. ASSUME NEW r \in Req, sent[r] \notin Unread PROVE sent'[r] \notin Unread
    <2>1. \/ UNCHANGED sent
          \/ /\ wmsg[w].of \in Req
             /\ \E a \in {"ok", "ENOMEM", "EIO"} :
                   sent' = [sent EXCEPT ![wmsg[w].of] = IF @ = "read" THEN a ELSE @]
      <3>1. CASE Top(w) \/ Poll(w) \/ Unmounted(w) \/ Cancelled(w) \/ Receive(w) \/ Lock(w) \/ Back(w) \/ Post(w) \/ Bounce(w)
                 \/ Handle(w) \/ Mark(w)
        BY <3>1 DEF Top, Poll, Unmounted, Cancelled, Receive, Lock, Back, Post, Bounce, Handle, Mark
      <3>2. CASE NoMemory(w) \/ (Process(w) /\ Refuse(w)) \/ Reply(w)
        <4>1. \/ UNCHANGED sent
              \/ wmsg[w] # Nothing /\ \E a \in {"ok", "ENOMEM", "EIO"} : Answer(wmsg[w].of, a)
          <5>1. NoMemory(w) \/ (Process(w) /\ Refuse(w)) => wmsg[w] # Nothing \/ UNCHANGED sent
            BY Messages DEF NoMemory, Process, MsgIs, kernel
          <5>2. Reply(w) => wmsg[w] # Nothing
            BY DEF Reply, Goto, SessionInv, Hands, Empty
          <5> QED  BY <3>2, <5>1, <5>2 DEF NoMemory, Refuse, Reply, kernel
        <4>2. wmsg[w] # Nothing => wmsg[w].of \in Req
          BY Messages DEF SessionInv, Types, DataTypes
        <4> QED  BY <4>1, <4>2 DEF Answer
      <3> QED  BY <3>1, <3>2
    <2> QED  BY <1>3, <2>1 DEF SessionInv, Types
  <1>4. ASSUME NEW r \in Req, NEW v \in Workers, Carries(v, r)', wpc'[v] \in Unaccepted
        PROVE  Carries(v, r) /\ wpc[v] \in Unaccepted
    <2>1. CASE Top(w) \/ Poll(w) \/ Unmounted(w) \/ Cancelled(w) \/ Receive(w) \/ Back(w) \/ Post(w)
      BY <1>4, <2>1, Messages DEF SessionInv, Types, Top, Poll, Unmounted, Cancelled, Receive, Drop, Back, Post
    <2>2. CASE Lock(w)
      BY <1>4, <2>2, Messages DEF SessionInv, Types, Lock, StartThread, NoThread, Drop
    <2>3. CASE NoMemory(w) \/ (Process(w) /\ Refuse(w)) \/ Bounce(w) \/ Handle(w) \/ Reply(w) \/ Mark(w)
      BY <1>4, <2>3 DEF SessionInv, Types, NoMemory, Process, MsgIs, Refuse, Bounce, Handle, Reply, Mark
    <2> QED  BY <2>1, <2>2, <2>3
  <1> QED  BY <1>1, <1>2, <1>3, <1>4, ObjectsKept

LEMMA ObjectsRead ==
    ASSUME SessionInv, SessionInv', ObjectInv, NEW w \in Workers, Read(w)
    PROVE  ObjectInv'
PROOF
  <1> PICK m \in Queued : Dequeue(m) /\ wmsg' = [wmsg EXCEPT ![w] = m]
    BY DEF Read
  <1>m. m \in Msgs /\ (m.kind = "request" => sent[m.of] = "queued")
    BY QueuedMessages
  <1>s. /\ m.kind = "request" => sent' = [sent EXCEPT ![m.of] = IF m.of \in Forgets THEN "done" ELSE "read"]
        /\ m.kind # "request" => sent' = sent
        /\ wpc[w] = "read" /\ wpc' = [wpc EXCEPT ![w] = "got"] /\ UNCHANGED <<list, ctr>>
    BY <1>m, Messages DEF Dequeue, Read
  <1>1. \A r \in Req : Processing(r)' = Processing(r) /\ Interrupting(r)' = Interrupting(r)
    BY <1>s DEF SessionInv, Types, Processing, Interrupting
  <1>2. \A r \in Req : sent[r] \notin Unread => sent'[r] \notin Unread
    BY <1>m, <1>s, Messages DEF SessionInv, Types
  <1>3. ASSUME NEW r \in Req, NEW v \in Workers, Interrupting(r) # {}, Carries(v, r)', wpc'[v] \in Unaccepted
        PROVE  Carries(v, r) /\ wpc[v] \in Unaccepted
    <2>1. CASE v = w
      <3>1. m = Msg("request", r)
        BY <1>3, <2>1 DEF SessionInv, Types
      <3>2. sent[r] = "queued"
        BY <3>1, <1>m, Messages
      <3> QED  BY <1>3, <3>2 DEF ObjectInv, Interrupts, Interrupting
    <2>2. CASE v # w
      BY <1>3, <2>2, <1>s DEF SessionInv, Types
    <2> QED  BY <2>1, <2>2
  <1> QED  BY <1>s, <1>1, <1>2, <1>3, ObjectsKept

\* A new object: nobody else carries the request and no interrupt in progress
\* can be of one that was not accepted.
LEMMA ObjectsAccept ==
    ASSUME SessionInv, ObjectInv, NEW w \in Workers, Process(w), Accept(w)
    PROVE  ObjectInv'
PROOF
  <1>of. wmsg[w].of \in Req
    BY Messages DEF SessionInv, Types, Hands, Process, MsgIs
  <1>p. PICK r \in Req : r = wmsg[w].of
    BY <1>of
  <1>r. /\ r \in Req /\ Carries(w, r) /\ wpc[w] = "process" /\ UNCHANGED <<wmsg, sent>>
        /\ wpc'[w] \in {"bounce", "handle"} /\ \A v \in Workers \ {w} : wpc'[v] = wpc[v]
        /\ list' = list \cup {r} /\ ctr' = [ctr EXCEPT ![r] = 1]
    BY <1>p, Accepted, Messages DEF SessionInv, Types, Process, MsgIs
  <1>0. \A v \in Workers : Carries(v, r) => v = w
    BY <1>r, Messages DEF SessionInv, Hands
  <1>1. Interrupting(r) = {} /\ Interrupting(r)' = {}
    <2>1. Interrupting(r) = {}
      BY <1>r DEF ObjectInv, Interrupts, Interrupting
    <2>2. Interrupting(r)' = Interrupting(r)
      BY <1>r, Messages DEF Interrupting
    <2> QED  BY <2>1, <2>2
  <1>2. Processing(r)' = {w}
    BY <1>r, <1>0 DEF Processing
  <1>3. ASSUME NEW q \in Req, q # r PROVE Processing(q)' = Processing(q) /\ Interrupting(q)' = Interrupting(q)
    BY <1>r, <1>3, Messages DEF Processing, Interrupting
  <1>4. Cardinality({}) = 0 /\ Cardinality({w}) = 1
    BY WorkerSets, FS_Singleton
  <1>5. ObjectsOwned'
    <2>1. ctr'[r] = Cardinality(Processing(r)') + Cardinality(Interrupting(r)') /\ r \in list' /\ Processing(r)' # {}
      BY <1>r, <1>1, <1>2, <1>4 DEF SessionInv, Types
    <2>2. \A q \in Req : q # r => ctr'[q] = ctr[q] /\ (q \in list' <=> q \in list)
      BY <1>r DEF SessionInv, Types
    <2>3. ASSUME NEW q \in Req, q # r
          PROVE  /\ ctr'[q] = Cardinality(Processing(q)') + Cardinality(Interrupting(q)')
                 /\ q \in list' <=> Processing(q)' # {}
      BY <2>2, <2>3, <1>3 DEF ObjectInv, ObjectsOwned
    <2> QED  BY <2>1, <2>3 DEF ObjectsOwned
  <1>6. Interrupts'
    <2> SUFFICES ASSUME NEW v \in Workers, NEW q \in Req, v \in Interrupting(q)'
                 PROVE  sent'[q] \notin Unread /\ \A u \in Workers : Carries(u, q)' => wpc'[u] \notin Unaccepted
      BY DEF Interrupts
    <2>1. q # r /\ v \in Interrupting(q)
      BY <1>1, <1>3
    <2>2. sent[q] \notin Unread /\ \A u \in Workers : Carries(u, q) => wpc[u] \notin Unaccepted
      BY <2>1 DEF ObjectInv, Interrupts
    <2> QED  BY <2>2, <1>r
  <1> QED  BY <1>5, <1>6 DEF ObjectInv

\* The worker's reference: the object goes with it, unless an interrupt of the
\* request is between its two sections of se->lock.
LEMMA ObjectsFree ==
    ASSUME SessionInv, ObjectInv, NEW w \in Workers, Free(w)
    PROVE  ObjectInv'
PROOF
  <1>of. wmsg[w].of \in Req
    BY Messages DEF SessionInv, Types, Hands, Free
  <1>p. PICK r \in Req : r = wmsg[w].of
    BY <1>of
  <1>r. /\ r \in Req /\ Carries(w, r) /\ wpc[w] = "free" /\ UNCHANGED <<wmsg, sent>>
        /\ wpc' = [wpc EXCEPT ![w] = "back"]
        /\ list' = list \ {r} /\ ctr' = [ctr EXCEPT ![r] = @ - 1]
    BY <1>p, Messages DEF SessionInv, Types, Hands, Free
  <1>0. \A v \in Workers : Carries(v, r) => v = w
    BY <1>r, Messages DEF SessionInv, Hands
  <1>1. \A q \in Req : Interrupting(q)' = Interrupting(q) /\ Interrupting(q) \in SUBSET Workers
    BY <1>r DEF Interrupting, SessionInv, Types
  <1>2. Processing(r) = {w} /\ Processing(r)' = {}
    BY <1>r, <1>0 DEF Processing, SessionInv, Types
  <1>3. ASSUME NEW q \in Req, q # r PROVE Processing(q)' = Processing(q)
    BY <1>r, <1>3, Messages DEF Processing, SessionInv, Types
  <1>4. Cardinality({}) = 0 /\ Cardinality({w}) = 1
    BY WorkerSets, FS_Singleton
  <1>5. ObjectsOwned'
    <2>1. ctr'[r] = Cardinality(Processing(r)') + Cardinality(Interrupting(r)') /\ r \notin list'
      <3>1. ctr[r] = 1 + Cardinality(Interrupting(r)) /\ Cardinality(Interrupting(r)) \in Nat
        BY <1>r, <1>1, <1>2, <1>4, WorkerSets DEF ObjectInv, ObjectsOwned
      <3> QED  BY <3>1, <1>r, <1>1, <1>2, <1>4 DEF SessionInv, Types
    <2>2. \A q \in Req : q # r => ctr'[q] = ctr[q] /\ (q \in list' <=> q \in list)
      BY <1>r DEF SessionInv, Types
    <2>3. ASSUME NEW q \in Req, q # r
          PROVE  /\ ctr'[q] = Cardinality(Processing(q)') + Cardinality(Interrupting(q)')
                 /\ q \in list' <=> Processing(q)' # {}
      BY <2>2, <2>3, <1>1, <1>3 DEF ObjectInv, ObjectsOwned
    <2> QED  BY <2>1, <2>3, <1>2 DEF ObjectsOwned
  <1>6. Interrupts'
    BY <1>r, <1>1 DEF ObjectInv, Interrupts, SessionInv, Types
  <1> QED  BY <1>5, <1>6 DEF ObjectInv

\* find_interrupted: a request found on the list is held across the unlock by a
\* reference that keeps its object, whoever else is done with it meanwhile.
LEMMA ObjectsInterrupt ==
    ASSUME SessionInv, ObjectInv, NEW w \in Workers, DoInterrupt(w) \/ Put(w)
    PROVE  ObjectInv'
PROOF
  <1>of. wmsg[w].of \in Req
    BY Messages DEF SessionInv, Types, Hands, DoInterrupt, MsgIs, Put
  <1>p. PICK r \in Req : r = wmsg[w].of
    BY <1>of
  <1>r. /\ r \in Req /\ wmsg[w] = Msg("interrupt", r) /\ UNCHANGED <<wmsg, sent, list>>
        /\ wpc[w] \in {"process", "put"}
        /\ \A v \in Workers \ {w} : wpc'[v] = wpc[v]
    <2>1. wmsg[w].kind = "interrupt"
      BY DEF SessionInv, Hands, DoInterrupt, MsgIs, Put
    <2>2. wmsg[w] \in Msgs
      BY <2>1, Messages DEF SessionInv, Types
    <2>3. wmsg[w] = Msg("interrupt", r)
      BY <1>p, <2>1, <2>2, Messages
    <2> QED  BY <2>3 DEF SessionInv, Types, DoInterrupt, MsgIs, Put
  <1>1. wpc'[w] \in {"mark", "back"}
    BY DEF SessionInv, Types, DoInterrupt, Put, MsgIs
  <1>2. \A q \in Req : Processing(q)' = Processing(q)
    BY <1>r, Messages DEF Processing
  <1>3. \A q \in Req : Interrupting(q) \in SUBSET Workers /\ (q # r => Interrupting(q)' = Interrupting(q))
    BY <1>r, Messages DEF Interrupting
  <1>4. CASE UNCHANGED ctr /\ wpc[w] = "process" /\ wpc'[w] = "back"
    <2>1. Interrupting(r)' = Interrupting(r)
      BY <1>4, <1>r DEF Interrupting
    <2>2. ASSUME NEW q \in Req, NEW v \in Workers, Carries(v, q)', wpc'[v] \in Unaccepted
          PROVE  Carries(v, q) /\ wpc[v] \in Unaccepted
      BY <1>4, <1>r, <2>2
    <2> QED  BY <1>4, <1>r, <1>2, <1>3, <2>1, <2>2, ObjectsKept
  <1>5. CASE wpc[w] = "process" /\ wpc'[w] = "mark" /\ r \in list /\ ctr' = [ctr EXCEPT ![r] = @ + 1]
    <2>1. w \notin Interrupting(r) /\ Interrupting(r)' = Interrupting(r) \cup {w}
      BY <1>5, <1>r DEF Interrupting
    <2>2. Cardinality(Interrupting(r)') = Cardinality(Interrupting(r)) + 1 /\ Cardinality(Interrupting(r)) \in Nat
      BY <2>1, <1>3, <1>r, WorkerSets
    <2>3. ObjectsOwned'
      <3>1. Processing(r) \in SUBSET Workers
        BY DEF Processing
      <3>2. Cardinality(Processing(r)) \in Nat
        BY <3>1, WorkerSets
      <3>3. ctr'[r] = Cardinality(Processing(r)') + Cardinality(Interrupting(r)') /\ (r \in list' <=> Processing(r)' # {})
        BY <3>2, <2>2, <1>5, <1>r, <1>2 DEF ObjectInv, ObjectsOwned, SessionInv, Types
      <3>4. ASSUME NEW q \in Req, q # r
            PROVE  /\ ctr'[q] = Cardinality(Processing(q)') + Cardinality(Interrupting(q)')
                   /\ q \in list' <=> Processing(q)' # {}
        BY <3>4, <1>5, <1>r, <1>2, <1>3 DEF ObjectInv, ObjectsOwned, SessionInv, Types
      <3> QED  BY <3>3, <3>4 DEF ObjectsOwned
    <2>4. sent[r] \notin Unread /\ \A v \in Workers : Carries(v, r) => wpc[v] \notin Unaccepted
      <3>1. PICK u \in Workers : Carries(u, r) /\ wpc[u] \in {"bounce", "handle", "reply", "free"}
        BY <1>5, <1>r DEF ObjectInv, ObjectsOwned, Processing
      <3>2. \A v \in Workers : Carries(v, r) => v = u
        BY <3>1, Messages DEF SessionInv, Hands
      <3> QED  BY <3>1, <3>2, <1>r DEF SessionInv, Fates
    <2>5. Interrupts'
      <3> SUFFICES ASSUME NEW v \in Workers, NEW q \in Req, v \in Interrupting(q)'
                   PROVE  sent'[q] \notin Unread /\ \A u \in Workers : Carries(u, q)' => wpc'[u] \notin Unaccepted
        BY DEF Interrupts
      <3>1. sent[q] \notin Unread /\ \A u \in Workers : Carries(u, q) => wpc[u] \notin Unaccepted
        BY <2>4, <1>3 DEF ObjectInv, Interrupts
      <3> QED  BY <3>1, <1>r, <1>5
    <2> QED  BY <2>3, <2>5 DEF ObjectInv
  <1>6. CASE wpc[w] = "put" /\ wpc'[w] = "back" /\ ctr' = [ctr EXCEPT ![r] = @ - 1]
    <2>1. w \notin Interrupting(r)' /\ Interrupting(r) = Interrupting(r)' \cup {w} /\ Interrupting(r)' \in SUBSET Workers
      BY <1>6, <1>r DEF Interrupting
    <2>2. Cardinality(Interrupting(r)) = Cardinality(Interrupting(r)') + 1 /\ Cardinality(Interrupting(r)') \in Nat
      BY <2>1, WorkerSets
    <2>3. ObjectsOwned'
      <3>1. Processing(r) \in SUBSET Workers
        BY DEF Processing
      <3>2. Cardinality(Processing(r)) \in Nat
        BY <3>1, WorkerSets
      <3>3. ctr'[r] = Cardinality(Processing(r)') + Cardinality(Interrupting(r)') /\ (r \in list' <=> Processing(r)' # {})
        BY <3>2, <2>2, <1>6, <1>r, <1>2 DEF ObjectInv, ObjectsOwned, SessionInv, Types
      <3>4. ASSUME NEW q \in Req, q # r
            PROVE  /\ ctr'[q] = Cardinality(Processing(q)') + Cardinality(Interrupting(q)')
                   /\ q \in list' <=> Processing(q)' # {}
        BY <3>4, <1>6, <1>r, <1>2, <1>3 DEF ObjectInv, ObjectsOwned, SessionInv, Types
      <3> QED  BY <3>3, <3>4 DEF ObjectsOwned
    <2>4. Interrupts'
      BY <1>6, <1>r, <1>3, <2>1 DEF ObjectInv, Interrupts
    <2> QED  BY <2>3, <2>4 DEF ObjectInv
  <1> QED  BY <1>4, <1>5, <1>6, <1>p DEF DoInterrupt, MsgIs, Put, SessionInv, Types

\* Nobody holds an object once the process, or the image, is gone.
Unheld == (\A w \in Workers : wmsg[w] = Nothing) /\ list = {} /\ ctr = [r \in Req |-> 0]

LEMMA ObjectsGone == Unheld => ObjectInv
PROOF
  <1> SUFFICES ASSUME Unheld PROVE ObjectInv
    OBVIOUS
  <1>1. \A r \in Req : Processing(r) = {} /\ Interrupting(r) = {}
    BY Messages DEF Unheld, Processing, Interrupting
  <1>2. Cardinality({}) = 0
    BY WorkerSets
  <1>3. ObjectsOwned
    BY <1>1, <1>2 DEF Unheld, ObjectsOwned
  <1>4. Interrupts
    BY <1>1 DEF Interrupts
  <1> QED  BY <1>3, <1>4 DEF ObjectInv

LEMMA ObjectsMain ==
    ASSUME SessionInv, ObjectInv, Main
    PROVE  ObjectInv'
PROOF
  <1>1. CASE Arm \/ WriteAck \/ Check \/ SemWait \/ Cancel \/ Join \/ Adopt \/ ReplayInit \/ (Leave /\ asked)
    <2>1. UNCHANGED <<list, ctr, wpc, wmsg, sent>>
      BY <1>1 DEF Arm, WriteAck, Check, SemWait, Cancel, Join, Adopt, ReplayInit, Leave
    <2> QED  BY <2>1, ObjectsKept DEF Processing, Interrupting
  <1>2. CASE Start
    <2>1. UNCHANGED <<list, ctr, wmsg, sent>> /\ \A w \in Workers : wmsg[w] = Nothing
      BY <1>2 DEF Start, SessionInv, Hands, Pool
    <2> QED  BY <2>1, ObjectsKept, Messages DEF Processing, Interrupting
  <1>3. CASE Exec \/ ExecFails \/ (Leave /\ ~asked)
    <2>1. Unheld'
      BY <1>3 DEF Unheld, Exec, ExecFails, Leave, Die
    <2> QED  BY <2>1, ObjectsGone, PTL
  <1> QED  BY <1>1, <1>2, <1>3 DEF Main

LEMMA ObjectsRest ==
    ASSUME SessionInv, ObjectInv,
           \/ \E r \in load.requests : Send(r)
           \/ \E r \in Signalled : Withdraw(r) \/ Interrupt(r)
           \/ Sever \/ Terminate \/ OnUsr2 \/ OnUsr2Exit \/ Publish \/ Kill \/ Acked \/ TimeOut
    PROVE  ObjectInv'
PROOF
  <1>1. CASE \/ \E r \in load.requests : Send(r)
             \/ \E r \in Signalled : Withdraw(r) \/ Interrupt(r)
    <2>1. UNCHANGED <<list, ctr, wpc, wmsg>>
      BY <1>1 DEF Send, Withdraw, Interrupt
    <2>2. \A r \in Req : sent[r] \notin Unread => sent'[r] \notin Unread
      BY <1>1 DEF Send, Withdraw, Interrupt, SessionInv, Types
    <2> QED  BY <2>1, <2>2, ObjectsKept DEF Processing, Interrupting
  <1>2. CASE (Terminate /\ armed) \/ OnUsr2 \/ OnUsr2Exit \/ Publish \/ (Kill /\ (Gone \/ armed)) \/ Acked \/ TimeOut
    <2>1. UNCHANGED <<list, ctr, wpc, wmsg, sent>>
      BY <1>2 DEF Terminate, OnUsr2, OnUsr2Exit, Publish, Kill, Acked, TimeOut
    <2> QED  BY <2>1, ObjectsKept DEF Processing, Interrupting
  <1>3. CASE (Terminate /\ ~armed) \/ (Kill /\ ~Gone /\ ~armed)
    <2>1. Unheld'
      BY <1>3 DEF Unheld, Terminate, Kill, Die
    <2> QED  BY <2>1, ObjectsGone, PTL
  <1>4. CASE Sever
    <2>1. UNCHANGED <<list, ctr, wpc, wmsg>>
      BY <1>4 DEF Sever
    <2>2. \A r \in Req : sent[r] \notin Unread => sent'[r] \notin Unread
      BY <1>4 DEF Sever, SessionInv, Types
    <2> QED  BY <2>1, <2>2, ObjectsKept DEF Processing, Interrupting
  <1> QED  BY <1>1, <1>2, <1>3, <1>4

LEMMA StepObjects == SessionInv /\ SessionInv' /\ ObjectInv /\ [Next]_vars => ObjectInv'
PROOF
  <1> SUFFICES ASSUME SessionInv, SessionInv', ObjectInv, [Next]_vars PROVE ObjectInv'
    OBVIOUS
  <1>1. CASE UNCHANGED vars
    <2>1. UNCHANGED <<list, ctr, wpc, wmsg, sent>>
      BY <1>1 DEF vars
    <2> QED  BY <2>1, ObjectsKept DEF Processing, Interrupting
  <1>2. ASSUME NEW w \in Workers, Worker(w) PROVE ObjectInv'
    <2>1. CASE Process(w)
      BY <2>1, ObjectsQuiet, ObjectsAccept DEF Process
    <2>2. CASE Read(w) \/ Free(w) \/ DoInterrupt(w) \/ Put(w)
      BY <2>2, ObjectsRead, ObjectsFree, ObjectsInterrupt
    <2>3. CASE \/ Top(w) \/ Poll(w) \/ Unmounted(w) \/ Cancelled(w) \/ Receive(w) \/ Lock(w) \/ Back(w) \/ Post(w) \/ NoMemory(w)
               \/ Bounce(w) \/ Handle(w) \/ Reply(w) \/ Mark(w)
      BY <2>3, ObjectsQuiet
    <2> QED  BY <1>2, <2>1, <2>2, <2>3 DEF Worker
  <1> QED  BY <1>1, <1>2, ObjectsMain, ObjectsRest DEF Next

\* fuse_free_req, find_interrupted and list_add_req, for any number of threads
\* and requests: ctr counts exactly the workers that hold a request object, and
\* se->list names exactly the objects being processed, so the unlocked middle of
\* find_interrupted never follows a freed pointer.
THEOREM ObjectsAreOwned == Spec => []ObjectsOwned
PROOF
  <1>1. Init => ObjectInv
    BY ObjectsGone DEF Init, Unheld
  <1>2. ObjectInv => ObjectsOwned
    BY DEF ObjectInv
  <1> QED  BY <1>1, <1>2, StepObjects, SessionInvariant, PTL DEF Spec
=============================================================================
