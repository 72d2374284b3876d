---------------------------- MODULE MCAlgorithms ----------------------------
(* The algorithms of module Algorithms and, under topic "pipe", the data     *)
(* path of module Transfer: one behaviour exercises one of them.             *)
EXTENDS Algorithms

VARIABLES load, n, pc, pipe, broken, ibuf, mem, cp, file, outlen, answers, faults, failed

CONSTANTS Loads, PipeDefault, PipeMax

T == INSTANCE Transfer
pipeVars == <<load, n, pc, pipe, broken, ibuf, mem, cp, file, outlen, answers, faults, failed>>

ASSUME TransferAssumption == T!TransferAssumption

Mem(k) == [kind |-> "mem", size |-> k, have |-> k]
File(k, h) == [kind |-> "file", size |-> k, have |-> h]
ReadOf(src) == [kind |-> "read", pages |-> 0, refused |-> FALSE, src |-> src]
WriteOf(k) == [kind |-> "write", pages |-> k, refused |-> FALSE, src |-> <<>>]
Refused(k) == [WriteOf(k) EXCEPT !.refused = TRUE]

\* Replies from memory, from files that end early or not, from both, from an
\* empty buffer, and too large for a pipe.
Sources == {<<Mem(1)>>, <<Mem(3)>>, <<File(3, 3)>>, <<File(3, 1)>>, <<File(2, 0)>>, <<Mem(1), File(2, 2)>>,
            <<File(2, 1), Mem(1)>>, <<File(0, 0), File(2, 2)>>, <<File(5, 5)>>}

\* One request of every kind, then two that meet what it left behind.
Firsts == {ReadOf(x) : x \in Sources} \cup {WriteOf(1), WriteOf(2), Refused(1), Refused(0)}
Probes == {ReadOf(<<Mem(1), File(2, 2)>>), WriteOf(2)}
Series == {<<r, s, t>> : r \in Firsts, s \in Probes, t \in Probes}

\* The buffer of 9 pages is more than a pipe may hold; the other topics take
\* no request.
MCLoads ==
    [spliceRead : BOOLEAN, spliceWrite : BOOLEAN, writeBuf : BOOLEAN, bufPages : {4, 9}, requests : Series,
     maxFaults : {2}]
NoLoad ==
    [spliceRead |-> FALSE, spliceWrite |-> FALSE, writeBuf |-> FALSE, bufPages |-> 4, requests |-> <<>>,
     maxFaults |-> 0]
AllLoads == MCLoads \cup {NoLoad}

MCInit ==
    /\ Init
    /\ load \in IF topic = "pipe" THEN MCLoads ELSE {NoLoad}
    /\ T!Init

\* The operations of module Algorithms, and Transfer's Next.
MCNext ==
    \/ Widen /\ UNCHANGED pipeVars
    \/ \E x \in Nodes("ids") \cup Nodes("names"), memory \in BOOLEAN : Hash(x, memory) /\ UNCHANGED pipeVars
    \/ \E x \in Nodes("ids") \cup Nodes("names") : Unhash(x) /\ UNCHANGED pipeVars
    \/ \E p \in Pages : Alloc(p) /\ UNCHANGED pipeVars
    \/ \E x \in live : Free(x) /\ UNCHANGED pipeVars
    \/ \E type \in {"read", "write", "unlock"}, start \in Offsets, o \in Owners, memory \in BOOLEAN :
          \E len \in 0..(OffsetMax - start) : SetLock(type, start, len, o, memory) /\ UNCHANGED pipeVars
    \/ \E need \in Needs, rewind \in BOOLEAN, ok \in BOOLEAN : Read(need, rewind, ok) /\ UNCHANGED pipeVars
    \/ \E d \in Directories : Change(d) /\ UNCHANGED pipeVars
    \/ \E arg \in InitArgs : Ask(arg) /\ UNCHANGED pipeVars
    \/ T!Receive /\ UNCHANGED vars
    \/ T!ReceivePipe /\ UNCHANGED vars
    \/ T!ReceiveRead /\ UNCHANGED vars
    \/ T!ReceiveSplice /\ UNCHANGED vars
    \/ T!ReceiveCopied /\ UNCHANGED vars
    \/ T!ReadHeader /\ UNCHANGED vars
    \/ T!Headed /\ UNCHANGED vars
    \/ T!Alloc /\ UNCHANGED vars
    \/ T!Rested /\ UNCHANGED vars
    \/ T!Write /\ UNCHANGED vars
    \/ T!Written /\ UNCHANGED vars
    \/ T!Read /\ UNCHANGED vars
    \/ T!ReplyPipe /\ UNCHANGED vars
    \/ T!VmSplice /\ UNCHANGED vars
    \/ T!Spliced /\ UNCHANGED vars
    \/ T!More /\ UNCHANGED vars
    \/ T!Mored /\ UNCHANGED vars
    \/ T!SpliceOut /\ UNCHANGED vars
    \/ T!Fallback /\ UNCHANGED vars
    \/ T!FellBack /\ UNCHANGED vars
    \/ T!CopyStep /\ UNCHANGED vars

MCSpec == MCInit /\ [][MCNext]_<<vars, pipeVars>>

Interchangeable == Permutations(Owners)

\* Module Transfer's promise of every sequence of requests (fuse_buf_copy,
\* fuse_send_data_iov, fuse_reply_data): no request and no reply carries bytes
\* of another, lengths agree with the data, and nothing is answered twice.
DataSound == T!DataSound
=============================================================================
