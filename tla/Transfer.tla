------------------------------- MODULE Transfer -------------------------------
(***************************************************************************)
(* The data path of one libfuse worker: fuse_buf_copy (buffer.c) and the   *)
(* pipe a worker keeps across requests (fuse_lowlevel.c), through which    *)
(* requests come in by splice, payloads reach write_buf handlers and       *)
(* fuse_reply_data sends its replies.                                      *)
(*                                                                         *)
(* The pipe belongs to one thread, so one worker and a series of requests  *)
(* is all there is; what makes the code hard is the number of ways a       *)
(* system call can fall short, each of which must leave the pipe empty.    *)
(* Bytes are counted in pages: a header is one, a payload some more.       *)
(***************************************************************************)
EXTENDS Integers, Sequences, SequencesExt, FiniteSetsExt

CONSTANTS Loads,      \* the sessions: see LoadType
          PipeDefault, PipeMax    \* pipe sizes: of a new pipe, and the system's limit

\* What a session negotiated, se->bufsize among it, the requests it gets, and
\* how many calls fail.
LoadType ==
    [spliceRead : BOOLEAN, spliceWrite : BOOLEAN, writeBuf : BOOLEAN, bufPages : Nat,
     requests : Seq([kind : {"read", "write"}, pages : Nat, refused : BOOLEAN,
                     src : Seq([kind : {"mem", "file"}, size : Nat, have : Nat])]),
     maxFaults : Nat]

TransferAssumption ==
    /\ PipeDefault \in Nat /\ PipeMax \in Nat
    /\ \A l \in Loads : {"spliceRead", "spliceWrite", "writeBuf", "bufPages", "requests", "maxFaults"} \subseteq DOMAIN l

VARIABLES
    load,
    n,         \* the request being served, by its place in load.requests
    pc,
    pipe,      \* the thread's struct fuse_ll_pipe, and what is in it
    broken,    \* se->broken_splice_nonblock
    ibuf,      \* where the request is: "mem" or "fd"
    mem,       \* what a memory buffer has received
    cp,        \* the fuse_buf_copy going on
    file,      \* what the write handler got
    outlen,    \* out->len of the reply: the header in the pipe is this very one
    answers,   \* replies to this request
    faults, failed   \* failed calls so far, and whether this request met one

vars == <<load, n, pc, pipe, broken, ibuf, mem, cp, file, outlen, answers, faults, failed>>
state == <<load, n, broken, ibuf, file>>

\* Every byte says what it belongs to.
In(r, i) == <<"in", r, i>>       \* request r: page 0 is its header
Out(r, i) == <<"out", r, i>>     \* the data of the reply to r
HeaderPage(r) == <<"header", r>>

Req == load.requests[n]
Message(r) == [i \in 1..(load.requests[r].pages + 1) |-> In(r, i - 1)]
Payload(r) == Tail(Message(r))

NoPipe == [open |-> FALSE, size |-> 0, canGrow |-> FALSE, data |-> <<>>]
NewPipe == [open |-> TRUE, size |-> PipeDefault, canGrow |-> TRUE, data |-> <<>>]

At(p) == pc = p
Fault == faults < load.maxFaults /\ faults' = faults + 1 /\ failed' = TRUE
Fine == UNCHANGED <<faults, failed>>

-----------------------------------------------------------------------------
(* buffer.c.  A vector is its buffers, the current one and the offset in it. *)

Vec(bufs) == [bufs |-> bufs, idx |-> 1, off |-> 0]
MemVec(pages) == Vec(<<[kind |-> "mem", size |-> pages, data |-> <<>>]>>)
PipeVec(pages) == Vec(<<[kind |-> "pipe", size |-> pages, data |-> <<>>]>>)
FileVec(pages) == Vec(<<[kind |-> "file", size |-> pages, data |-> <<>>]>>)

BufSize(v) == FoldLeft(LAMBDA s, b : s + b.size, 0, v.bufs)
Current(v) == v.bufs[v.idx]
Exhausted(v) == v.idx > Len(v.bufs)

\* fuse_bufvec_advance; its answer is whether a buffer is left.
Advance(v, k) ==
    IF v.off + k # Current(v).size THEN [v EXCEPT !.off = @ + k]
    ELSE IF v.idx = Len(v.bufs) THEN [v EXCEPT !.off = @ + k, !.idx = @ + 1]
    ELSE [v EXCEPT !.idx = @ + 1, !.off = 0]

\* What a read of len at this point of the source can get.
Readable(b, off, len) ==
    LET from == IF b.kind = "pipe" THEN pipe.data ELSE b.data
        at == IF b.kind = "pipe" THEN 0 ELSE off
    IN SubSeq(from, at + 1, Min({at + len, Len(from)}))

\* The results of the calls: res pages copied or an error, eaten pages gone
\* from a pipe, and whether this takes a failing call (an error after some
\* pages were copied is a short count).
Outcome(res, eaten, bad) == [res |-> res, eaten |-> eaten, bad |-> bad, err |-> ""]
Error(e) == [res |-> 0, eaten |-> 0, bad |-> TRUE, err |-> e]
Shorts(most) == {Outcome(k, k, TRUE) : k \in 0..(most - 1)}

BufWrite(len) == {Outcome(len, 0, FALSE)} \cup Shorts(len) \cup {Error("EIO"), Error("EAGAIN")}
BufRead(avail) == {Outcome(avail, avail, FALSE)} \cup Shorts(avail) \cup {Error("EIO")}

\* Through a buffer on the stack: a short write has eaten what was read.
FdToFd(avail) ==
    BufRead(avail) \cup {Outcome(k, avail, TRUE) : k \in 0..(avail - 1)}

\* splice; EINVAL falls back unless the caller insists.
BufSplice(avail, force) ==
    BufRead(avail) \cup {Error("EAGAIN")}
    \cup (IF force THEN {Error("EINVAL")} ELSE {[o EXCEPT !.bad = TRUE] : o \in FdToFd(avail)})

CopyOne(src, off, dst, len, force) ==
    LET avail == Len(Readable(src, off, len))
        isFd(b) == b.kind # "mem"
    IN CASE len = 0 -> {Outcome(0, 0, FALSE)}
         [] ~isFd(src) /\ ~isFd(dst) -> {Outcome(len, 0, FALSE)}
         [] ~isFd(src) /\ isFd(dst) -> BufWrite(len)
         [] isFd(src) /\ ~isFd(dst) -> BufRead(avail)
         [] OTHER -> BufSplice(avail, force)

Copy(src, dst, force, ret) ==
    [src |-> src, dst |-> dst, force |-> force, copied |-> 0, res |-> 0, err |-> "", ret |-> ret]
NoCopy == Copy(MemVec(0), MemVec(0), FALSE, "idle")

\* One turn of fuse_buf_copy's loop.  The source advances first, and with
\* nothing left of it the destination does not.
CopyEnd(c, err) ==
    /\ cp' = [c EXCEPT !.res = c.copied, !.err = IF c.copied = 0 THEN err ELSE ""]
    /\ pc' = c.ret
CopyStep ==
    LET src == Current(cp.src)
        dst == Current(cp.dst)
        len == Min({src.size - cp.src.off, dst.size - cp.dst.off})
    IN /\ At("copy")
       /\ IF Exhausted(cp.src) \/ Exhausted(cp.dst)
          THEN CopyEnd(cp, "") /\ Fine /\ UNCHANGED <<mem, file, pipe>>
          ELSE \E o \in CopyOne(src, cp.src.off, dst, len, cp.force) :
                LET bytes == SubSeq(Readable(src, cp.src.off, len), 1, o.res)
                    s == Advance(cp.src, o.res)
                    d == IF Exhausted(s) THEN cp.dst ELSE Advance(cp.dst, o.res)
                    next == [cp EXCEPT !.copied = @ + o.res, !.src = s, !.dst = d]
                    left == IF src.kind = "pipe" THEN SubSeq(pipe.data, o.eaten + 1, Len(pipe.data)) ELSE pipe.data
                IN /\ IF o.bad THEN Fault ELSE Fine
                   /\ IF o.err # "" THEN CopyEnd(cp, o.err)
                      ELSE IF Exhausted(s) \/ Exhausted(d) \/ o.res < len THEN CopyEnd(next, "")
                      ELSE cp' = next /\ UNCHANGED pc
                   /\ mem' = IF dst.kind = "mem" THEN mem \o bytes ELSE mem
                   /\ file' = IF dst.kind = "file" THEN file \o bytes ELSE file
                   /\ pipe' = [pipe EXCEPT !.data = IF dst.kind = "pipe" THEN left \o bytes ELSE left]
       /\ UNCHANGED <<load, n, broken, ibuf, outlen, answers>>

-----------------------------------------------------------------------------
(* The pipe.                                                                 *)

ClearPipe == pipe' = NoPipe

\* fuse_ll_get_pipe and the growing of it, in both users.
GetPipe(need, ok, fallback) ==
    LET p == IF pipe.open THEN pipe ELSE NewPipe
        grown == [p EXCEPT !.size = need]
        most == [p EXCEPT !.size = PipeMax, !.canGrow = FALSE]
    IN \/ /\ ~pipe.open /\ Fault /\ pc' = fallback /\ UNCHANGED pipe
       \/ /\ p.size >= need
          /\ pipe' = p /\ pc' = ok /\ Fine
       \/ /\ p.size < need /\ p.canGrow
          /\ IF need <= PipeMax THEN pipe' = grown /\ pc' = ok ELSE pipe' = most /\ pc' = fallback
          /\ Fine
       \/ /\ p.size < need /\ ~p.canGrow
          /\ pipe' = p /\ pc' = fallback /\ Fine

-----------------------------------------------------------------------------
(* Receiving.                                                                *)

\* fuse_session_receive_buf_int.
Receive ==
    /\ At("idle") /\ n < Len(load.requests)
    /\ n' = n + 1 /\ pc' = IF load.spliceRead THEN "rpipe" ELSE "rread"
    /\ answers' = <<>> /\ failed' = FALSE /\ mem' = <<>> /\ file' = <<>> /\ cp' = NoCopy
    /\ UNCHANGED <<load, pipe, broken, ibuf, outlen, faults>>

ReceivePipe ==
    /\ At("rpipe")
    /\ GetPipe(load.bufPages, "rsplice", "rread")
    /\ UNCHANGED <<state, mem, cp, outlen, answers>>

\* read(2); a failure ends the worker.
ReceiveRead ==
    /\ At("rread")
    /\ \/ mem' = Message(n) /\ ibuf' = "mem" /\ pc' = "alloc" /\ Fine
       \/ Fault /\ pc' = "ended" /\ UNCHANGED <<mem, ibuf>>
    /\ UNCHANGED <<load, n, pipe, broken, cp, file, outlen, answers>>

\* splice(2).  A small request is copied out of the pipe, into a buffer that
\* may not be had.
ReceiveSplice ==
    /\ At("rsplice")
    /\ \/ /\ pipe' = [pipe EXCEPT !.data = @ \o Message(n)] /\ Fine
          /\ IF Req.pages = 0
             THEN /\ pc' = "copy" /\ ibuf' = "mem"
                  /\ cp' = Copy(PipeVec(1), MemVec(load.bufPages), FALSE, "rcopied")
             ELSE pc' = "head" /\ ibuf' = "fd" /\ UNCHANGED cp
       \/ /\ Fault /\ pc' = "ended" /\ UNCHANGED <<ibuf, cp>>
          /\ \/ UNCHANGED pipe
             \/ pipe' = [pipe EXCEPT !.data = @ \o Message(n)]
    /\ UNCHANGED <<load, n, broken, mem, file, outlen, answers>>

ReceiveCopied ==
    /\ At("rcopied")
    /\ IF cp.err = "" /\ cp.res = 1 THEN pc' = "alloc" /\ UNCHANGED pipe ELSE pc' = "ended" /\ ClearPipe
    /\ UNCHANGED <<state, mem, cp, outlen, answers, faults, failed>>

-----------------------------------------------------------------------------
(* fuse_session_process_buf_int.                                             *)

Done == pc' = "idle"
Answer(a) == answers' = Append(answers, a)
Msg(kind, len, data) == [kind |-> kind, len |-> len, data |-> data]
AnswerError == Answer(Msg("error", 1, <<>>))

\* fuse_send_msg: writev(2) sends it whole or fails.
Send(a) == \/ Answer(a) /\ Fine
           \/ Fault /\ UNCHANGED answers

\* clear_pipe: a spliced request that is given up.
Abandon == Done /\ IF ibuf = "fd" THEN ClearPipe ELSE UNCHANGED pipe

\* The header of a spliced request, into memory of its own.
ReadHeader ==
    /\ At("head")
    /\ \/ /\ pc' = "copy" /\ cp' = Copy(PipeVec(Req.pages + 1), MemVec(1), FALSE, "headed")
          /\ Fine /\ UNCHANGED pipe
       \/ Fault /\ Abandon /\ UNCHANGED cp
    /\ UNCHANGED <<state, mem, outlen, answers>>

Headed ==
    /\ At("headed")
    /\ IF cp.err = "" /\ cp.res = 1 THEN pc' = "alloc" /\ UNCHANGED pipe ELSE Abandon
    /\ UNCHANGED <<state, mem, cp, outlen, answers, faults, failed>>

\* The request object, and the tests that refuse a request; the rest of a
\* spliced request that no write_buf will take.
Alloc ==
    LET takes == Req.kind = "write" /\ load.writeBuf
        rest == ibuf = "fd" /\ Req.pages > 0 /\ ~takes
    IN /\ At("alloc")
       /\ \/ Fault /\ AnswerError /\ Abandon /\ UNCHANGED cp
          \/ Req.refused /\ AnswerError /\ Abandon /\ Fine /\ UNCHANGED cp
          \/ /\ ~Req.refused /\ Fine /\ UNCHANGED <<pipe, answers>>
             /\ IF rest
                THEN pc' = "copy" /\ cp' = Copy(PipeVec(Req.pages), MemVec(Req.pages), FALSE, "rested")
                ELSE pc' = Req.kind /\ UNCHANGED cp
       /\ UNCHANGED <<state, mem, outlen>>

Rested ==
    /\ At("rested")
    /\ IF cp.err = "" /\ cp.res = Req.pages
       THEN pc' = Req.kind /\ UNCHANGED <<pipe, answers>>
       ELSE AnswerError /\ Abandon
    /\ UNCHANGED <<state, mem, cp, outlen, faults, failed>>

\* do_write hands over memory; do_write_buf a vector, which the handler
\* copies to its file, or does not touch.
Write ==
    /\ At("write")
    /\ \/ /\ ~load.writeBuf
          /\ file' = Tail(mem) /\ Send(Msg("write", Len(Tail(mem)), <<>>)) /\ Done /\ UNCHANGED cp
       \/ /\ load.writeBuf
          /\ LET from == IF ibuf = "fd" THEN PipeVec(Req.pages)
                         ELSE Vec(<<[kind |-> "mem", size |-> Req.pages, data |-> Tail(mem)]>>)
                 to == Copy(from, FileVec(Req.pages), FALSE, "written")
             IN \/ cp' = to /\ pc' = "copy" /\ Fine
                \/ cp' = [to EXCEPT !.err = "ENOENT"] /\ pc' = "written" /\ Fault
          /\ UNCHANGED <<file, answers>>
    /\ UNCHANGED <<load, n, pipe, broken, ibuf, mem, outlen>>

\* do_write_buf after the handler: what it left in the pipe must go.
Written ==
    /\ At("written")
    /\ IF cp.err = "" THEN Send(Msg("write", cp.res, <<>>)) ELSE AnswerError /\ Fine
    /\ Done
    /\ IF ibuf = "fd" /\ ~Exhausted(cp.src) THEN ClearPipe ELSE UNCHANGED pipe
    /\ UNCHANGED <<state, mem, cp, outlen>>

-----------------------------------------------------------------------------
(* fuse_reply_data.                                                          *)

\* The handler's vector.  A file may end before its buffer does.
Source ==
    LET start(i) == FoldLeft(LAMBDA s, b : s + b.have, 0, SubSeq(Req.src, 1, i - 1))
    IN Vec([i \in DOMAIN Req.src |->
              [kind |-> Req.src[i].kind, size |-> Req.src[i].size,
               data |-> [k \in 1..Req.src[i].have |-> Out(n, start(i) + k)]]])

\* Whether splicing is worth it and possible.
Read ==
    /\ At("read")
    /\ pc' = IF broken \/ BufSize(Source) < 2 \/ ~load.spliceWrite THEN "fallback" ELSE "wpipe"
    /\ cp' = [NoCopy EXCEPT !.src = Source]
    /\ mem' = <<>>
    /\ UNCHANGED <<state, pipe, outlen, answers, faults, failed>>

ReplyPipe ==
    /\ At("wpipe")
    /\ GetPipe(Len(Req.src) + 3 + BufSize(cp.src), "vmsplice", "fallback")
    /\ UNCHANGED <<state, mem, cp, outlen, answers>>

\* The header goes in by reference, then the data by splice.
VmSplice ==
    /\ At("vmsplice")
    /\ outlen' = 1 + BufSize(cp.src)
    /\ \/ /\ pipe' = [pipe EXCEPT !.data = Append(@, HeaderPage(n))] /\ Fine
          /\ cp' = Copy(cp.src, PipeVec(BufSize(cp.src)), TRUE, "spliced") /\ pc' = "copy"
       \/ Fault /\ pc' = "fallback" /\ UNCHANGED <<pipe, cp>>
       \/ Fault /\ Done /\ ClearPipe /\ UNCHANGED cp
    /\ UNCHANGED <<state, mem, answers>>

\* EAGAIN and EINVAL only come with nothing copied; the pipe, which has the
\* header, is freed.
Spliced ==
    /\ At("spliced") /\ outlen' = 1 + cp.res
    /\ \/ /\ cp.err \in {"EAGAIN", "EINVAL"}
          /\ broken' = (broken \/ cp.err = "EAGAIN")
          /\ ClearPipe /\ pc' = "fallback" /\ UNCHANGED answers
       \/ cp.err = "EIO" /\ ClearPipe /\ AnswerError /\ Done /\ UNCHANGED broken
       \/ /\ cp.err = ""
          /\ pc' = IF cp.res \in 1..(BufSize(cp.src) - 1) THEN "more" ELSE "out"
          /\ UNCHANGED <<broken, pipe, answers>>
    /\ UNCHANGED <<load, n, ibuf, file, mem, cp, faults, failed>>

\* A short count: is there more?  Into memory, behind what the pipe has.
More ==
    LET dst == [MemVec(BufSize(cp.src)) EXCEPT !.off = cp.res] IN
    /\ At("more")
    /\ \/ cp' = Copy(cp.src, dst, FALSE, "mored") /\ pc' = "copy" /\ Fine /\ UNCHANGED <<pipe, answers>>
       \/ Fault /\ ClearPipe /\ AnswerError /\ Done /\ UNCHANGED cp
    /\ UNCHANGED <<state, mem, outlen>>

\* Mutant: the data already in the pipe is not read back.
MoredAlone ==
    /\ At("mored")
    /\ \/ /\ cp.err = "" /\ cp.res > 0
          /\ Send(Msg("data", 1 + Len(mem), mem))
          /\ pipe' = [pipe EXCEPT !.data = SubSeq(@, outlen + 1, Len(@))] /\ Done
       \/ (cp.err # "" \/ cp.res = 0) /\ pc' = "out" /\ Fine /\ UNCHANGED <<pipe, answers>>
    /\ UNCHANGED <<state, mem, cp, outlen>>

\* There is: header and data are read back from the pipe and all is written.
\* A failed read_back leaves the request unanswered.
Mored ==
    LET back == SubSeq(pipe.data, 2, outlen) \o mem IN
    /\ At("mored")
    /\ \/ /\ cp.err = "" /\ cp.res > 0
          /\ \/ /\ Send(Msg("data", 1 + Len(back), back))
                /\ pipe' = [pipe EXCEPT !.data = SubSeq(@, outlen + 1, Len(@))]
             \/ Fault /\ ClearPipe /\ AnswerError
             \/ Fault /\ ClearPipe /\ UNCHANGED answers
          /\ Done
       \/ (cp.err # "" \/ cp.res = 0) /\ pc' = "out" /\ Fine /\ UNCHANGED <<pipe, answers>>
    /\ UNCHANGED <<state, mem, cp, outlen>>

\* The splice from the pipe to the connection.
SpliceOut ==
    /\ At("out") /\ Done
    /\ \/ /\ Answer(Msg("data", outlen, SubSeq(pipe.data, 2, outlen))) /\ Fine
          /\ pipe' = [pipe EXCEPT !.data = SubSeq(@, outlen + 1, Len(@))]
       \/ Fault /\ ClearPipe /\ UNCHANGED answers
    /\ UNCHANGED <<state, mem, cp, outlen>>

\* fuse_send_data_iov_fallback: one memory buffer goes as it is.
Fallback ==
    LET only == Len(cp.src.bufs) = 1 /\ cp.src.idx = 1 /\ cp.src.off = 0 /\ Current(cp.src).kind = "mem" IN
    /\ At("fallback")
    /\ \/ only /\ Send(Msg("data", 1 + BufSize(cp.src), Current(cp.src).data)) /\ Done /\ UNCHANGED cp
       \/ ~only /\ Fault /\ AnswerError /\ Done /\ UNCHANGED cp
       \/ /\ ~only /\ Fine /\ UNCHANGED answers
          /\ cp' = Copy(cp.src, MemVec(BufSize(cp.src)), FALSE, "fellback") /\ pc' = "copy"
    /\ UNCHANGED <<state, pipe, mem, outlen>>

FellBack ==
    /\ At("fellback") /\ Done
    /\ IF cp.err # "" THEN AnswerError /\ Fine ELSE Send(Msg("data", 1 + cp.res, mem))
    /\ UNCHANGED <<state, pipe, mem, cp, outlen>>

Init ==
    /\ load \in Loads
    /\ n = 0 /\ pc = "idle" /\ pipe = NoPipe /\ broken = FALSE /\ ibuf = "mem" /\ mem = <<>> /\ cp = NoCopy
    /\ file = <<>> /\ outlen = 0 /\ answers = <<>> /\ faults = 0 /\ failed = FALSE

Next ==
    \/ Receive \/ ReceivePipe \/ ReceiveRead \/ ReceiveSplice \/ ReceiveCopied
    \/ ReadHeader \/ Headed \/ Alloc \/ Rested \/ Write \/ Written
    \/ Read \/ ReplyPipe \/ VmSplice \/ Spliced \/ More \/ Mored \/ SpliceOut \/ Fallback \/ FellBack
    \/ CopyStep

Spec == Init /\ [][Next]_vars

-----------------------------------------------------------------------------
(* Properties.                                                               *)

\* fuse_ll_clear_pipe and its callers: no request is received, and no reply
\* begun, with bytes of an earlier one in the pipe.
PipeClean ==
    pc \in {"idle", "rpipe", "rsplice", "rread", "read", "wpipe", "vmsplice", "fallback"} => pipe.data = <<>>

\* What a reply can carry: the source up to the first file that ends early.
Available ==
    LET ends == {i \in DOMAIN Req.src : Req.src[i].have < Req.src[i].size}
        last == IF ends = {} THEN Len(Req.src) ELSE Min(ends)
    IN [k \in 1..FoldLeft(LAMBDA s, b : s + b.have, 0, SubSeq(Req.src, 1, last)) |-> Out(n, k)]

\* fuse_buf_copy, fuse_send_data_iov and do_write_buf: a reply says how long it
\* is and carries the beginning of its own source, all of it unless a call
\* failed; a write counts what its handler got of the request's own payload.
BytesExact ==
    \A i \in DOMAIN answers :
        LET a == answers[i] IN
        /\ a.kind = "data" => /\ a.len = 1 + Len(a.data) /\ IsPrefix(a.data, Available)
                              /\ failed \/ a.data = Available
        /\ a.kind = "write" => /\ a.len = Len(file) /\ IsPrefix(file, Payload(n))
                               /\ failed \/ file = Payload(n)

\* fuse_session_process_buf_int and fuse_reply_data: no request is answered
\* twice, and one whose calls all worked is answered.
AnsweredOnce ==
    /\ Len(answers) <= 1
    /\ At("idle") /\ n > 0 /\ ~failed => Len(answers) = 1

\* What the data path promises of every sequence of requests.
DataSound == PipeClean /\ BytesExact /\ AnsweredOnce
==============================================================================
