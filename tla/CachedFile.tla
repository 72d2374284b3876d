----------------------------- MODULE CachedFile -----------------------------
(***************************************************************************)
(* One live cache entry (Store.Cached, src/src/store.zig) of one origin    *)
(* file, with every thread that touches it: FUSE readers that hydrate      *)
(* missing pieces, the one FUSE mutator the kernel's inode lock lets       *)
(* through at a time, opens that reconcile the entry with an origin stat,  *)
(* the culler, another node writing the origin, and a restart of the       *)
(* daemon that reloads the sidecar.                                        *)
(*                                                                         *)
(* A byte is a "unit" holding a value; Hole is the zero an unwritten cache *)
(* byte reads as.  A digest is the piece's content itself (blake3 taken as *)
(* collision free).  A critical section of file.mu is one step, except the *)
(* culler's, which spans two; content_mu is the variable cmu.  Recency     *)
(* stamps are left out: any thread may be descheduled for longer than      *)
(* recency_secs, so no step may rely on one for safety.                    *)
(***************************************************************************)
EXTENDS Piece, Sequences, FiniteSets

CONSTANTS
    Readers,      \* FUSE workers serving mf_read
    Openers,      \* threads that stat the origin and then reconcile
    PS,           \* piece_size, in units
    MaxSize,      \* bound: largest file size, in units
    Vals,         \* the values a client writes
    Workloads,    \* what clients may do in one behaviour: see Workload
    ByteBits,     \* bits per bitfield byte (8 in the code)
    IdBytes       \* bytes of the sidecar's identity trailer (24 in the code)

ASSUME SizeAssumption ==
    /\ PS \in Nat \ {0}
    /\ MaxSize \in Nat \ {0}
    /\ MaxSize <= U32Max
    /\ ByteBits \in Nat \ {0}
    /\ IdBytes \in Nat \ {0}

ASSUME ValueAssumption == Vals \subseteq Nat \ {0}

\* The <<off, len>> pairs of reads and writes.
Spans == {s \in (0 .. MaxSize) \X (1 .. MaxSize) : s[1] + s[2] <= MaxSize}

\* Sizes to start with and truncate to, spans to read and write, the calls and
\* the I/O faults that may happen, and how often: these are the bounds.
Workload ==
    [sizes : SUBSET (0 .. MaxSize), reads : SUBSET Spans, writes : SUBSET Spans,
     ops : SUBSET {"write", "truncate", "create", "unlink"},
     faults : SUBSET {"origin", "close", "cache", "save", "stat", "lag"},
     maxReaders : Nat, maxReads : Nat, maxMuts : Nat, maxForeigns : Nat, maxOpens : Nat,
     maxRestarts : Nat]

ASSUME WorkloadAssumption == \A w \in Workloads : w \in Workload

VARIABLES
    osize, odata, oid,            \* the origin file: size, bytes, mtime
    data, dlen, sidecar,          \* cache data file and its meta/*.pieces
    size, nbits, bits, filling,   \* Cached.size, .bits, .filling
    writes, hashes, id, dead,     \* Cached.writes, .hashes, .origin_id, .dead
    xfer,                         \* the readers counted in Cached.xfer
    cmu,                          \* holder of content_mu
    rd, wr, op, cull, ul,         \* what each thread is doing
    seen, floor,                  \* history: what the file was during a read
    foreign,                      \* history: another node wrote the origin
    load                          \* the workload, less what was done of it

originVars == <<osize, odata, oid>>
cacheVars == <<data, dlen, sidecar>>
entryVars == <<size, nbits, bits, filling, writes, hashes, id, dead>>
threadVars == <<rd, wr, op, cull, ul>>
ghostVars == <<seen, floor, foreign, load>>
vars == <<originVars, cacheVars, entryVars, xfer, cmu, threadVars, ghostVars>>

Hole == 0
Val == Vals \cup {Hole}
Units == 0 .. MaxSize - 1
Pieces == 0 .. Count(MaxSize, PS) - 1
NoClaim == -1
NoHash == <<>>
NoHashes == [i \in Pieces |-> NoHash]
Unknown == 0                      \* OriginId.known = false
NoSidecar == [size |-> 0, nbits |-> 0, bits |-> {}, id |-> Unknown]
Free == "free"
Mutator == "mutator"
Culler == "culler"

\* A thread is none of the other holders of a mutex.
ASSUME ReaderAssumption == Readers \cap {Free, Mutator, Culler} = {}

PLen(sz, i) == PieceLen(sz, i, PS)
PCount(sz) == Count(sz, PS)
Bytes(f, off, len) == [k \in 1 .. len |-> f[off + k - 1]]
Overlay(f, off, s) ==
    [u \in Units |-> IF u \in off .. off + Len(s) - 1 THEN s[u - off + 1] ELSE f[u]]
Cut(f, n) == [u \in Units |-> IF u < n THEN f[u] ELSE Hole]

\* pwrite extends a file of len bytes to its own end, never shortens it.
Extend(len, end) == IF end > len THEN end ELSE len
Fault(k) == k \in load.faults

xferBusy == xfer # {}

\* The culler is the only thread that keeps file.mu across steps.
FileMuFree == cull.pc = "idle"

\* Same inode, strictly newer mtime: somebody rewrote the file.
ContentChanged(recorded, observed) ==
    /\ recorded # Unknown
    /\ observed # Unknown
    /\ observed > recorded

\* Bitfield.set and Bitfield.clear ignore an index past nbits.
InField(S) == {i \in S : i < nbits}

-----------------------------------------------------------------------------
(* The sidecar *)

Image(sz, nb, bs, i) == [size |-> sz, nbits |-> nb, bits |-> bs, id |-> i]

\* saveBits truncates and rewrites in place: a failed save leaves the old
\* sidecar, or a torn one that decodes as nothing cached.
SaveBits(sz, nb, bs, i) ==
    sidecar' \in {Image(sz, nb, bs, i)}
                   \cup (IF Fault("save") THEN {sidecar, NoSidecar} ELSE {})

\* Bitfield.decode: the blob is the bit bytes and, when an identity is known,
\* a trailer; its length alone says which.
BodyLen == BytesLen(PCount(sidecar.size), ByteBits)
BlobLen == BytesLen(sidecar.nbits, ByteBits)
             + (IF sidecar.id = Unknown THEN 0 ELSE IdBytes)
BlobId == IF BlobLen = BodyLen + IdBytes THEN sidecar.id ELSE Unknown

\* loadBits: the sidecar's marks are taken up for a stat (sz, observed).  A
\* trailer cut out of surplus bit bytes names no inode of the origin.
SidecarUsable(sz, observed) ==
    /\ sidecar # NoSidecar
    /\ sidecar.size = sz
    /\ \/ BlobLen = BodyLen
       \/ BlobLen = BodyLen + IdBytes /\ sidecar.id # Unknown
    /\ ~ContentChanged(BlobId, observed)

\* The marks it yields.  A field short by exactly a trailer is completed by
\* the trailer's bytes, which are arbitrary.
SidecarMarks ==
    LET short == sidecar.id # Unknown /\ BlobLen = BodyLen
        junk  == IF short THEN sidecar.nbits .. PCount(sidecar.size) - 1 ELSE {}
    IN  {(sidecar.bits \cup g) \cap (0 .. PCount(sidecar.size) - 1) : g \in SUBSET junk}

-----------------------------------------------------------------------------
(* Changes of the entry's size and content *)

\* Drops the mark of a short last piece that a grow widens.
WidenedPiece == IF size % PS = 0 THEN {} ELSE {size \div PS}

\* Mutant: the buffer is swapped under a reader.
FieldSwapped(n) == PCount(n)

\* The bitfield a change of size to n leaves: a reader under xfer is indexing
\* the buffer, so it is only reallocated when there is none.
FieldSize(n) == IF xferBusy THEN nbits ELSE PCount(n)

\* truncateCacheFd: never under a transfer.
TruncateCacheFd(n) ==
    IF xferBusy THEN UNCHANGED <<data, dlen>>
    ELSE data' = Cut(data, n) /\ dlen' = n

\* clearHashes; the manifest flags it also resets are not in this module.
ClearHashes == hashes' = NoHashes

\* The locks reconcile needs: content_mu only when it has something to change.
ReconcileLocks(sz, observed) ==
    /\ FileMuFree
    /\ cmu = Free \/ (size = sz /\ ~ContentChanged(id, observed))

\* reconcile: bring the entry in line with a stat (sz, observed).
Reconcile(sz, observed) ==
    IF size = sz /\ ~ContentChanged(id, observed)
    THEN /\ IF observed # Unknown /\ id = Unknown
            THEN /\ id' = observed
                 /\ IF bits # {} THEN SaveBits(size, nbits, bits, observed)
                                 ELSE UNCHANGED sidecar
            ELSE UNCHANGED <<id, sidecar>>
         /\ UNCHANGED <<size, nbits, bits, writes, hashes, data, dlen>>
    ELSE /\ size' = sz
         /\ bits' = {}
         /\ nbits' = FieldSize(sz)
         /\ writes' = writes + 1
         /\ ClearHashes
         /\ id' = IF observed # Unknown THEN observed ELSE id
         /\ TruncateCacheFd(sz)
         /\ SaveBits(sz, nbits', {}, id')

\* growToLocked to end > size; no write generation is spent.
GrowTo(end) ==
    LET kept == bits \ WidenedPiece IN
    /\ size' = end
    /\ bits' = kept
    /\ hashes' = [i \in Pieces |-> IF i \in WidenedPiece THEN NoHash ELSE hashes[i]]
    /\ nbits' = FieldSize(end)
    /\ IF kept # bits THEN SaveBits(size, nbits, kept, id) ELSE UNCHANGED sidecar
-----------------------------------------------------------------------------
(* Reads: mf_read, serveHydrated, ensureRange, hydratePiece *)

IdleReader ==
    [pc |-> "idle", off |-> 0, n |-> 0, i |-> 0, stop |-> 0, flen |-> 0,
     buf |-> <<>>, ok |-> FALSE, prefer |-> FALSE, retry |-> FALSE]

\* The value the byte u of the file has, as a set: empty past the end.
Held(u) == IF u < osize THEN {odata[u]} ELSE {}

\* mf_read: the live entry is referenced and beginXfer takes content_mu.
ReadBegin(r, s) ==
    /\ rd[r].pc = "idle"
    /\ Cardinality(xfer) < load.maxReaders
    /\ load.maxReads > 0 /\ load' = [load EXCEPT !.maxReads = @ - 1]
    /\ ~dead
    /\ cmu = Free
    /\ xfer' = xfer \cup {r}
    /\ rd' = [rd EXCEPT ![r] = [IdleReader EXCEPT
                                  !.pc = "sample", !.off = s[1], !.n = s[2]]]
    /\ seen' = [seen EXCEPT ![r] = [u \in Units |-> Held(u) \cup wr.before[u]]]
    /\ floor' = [floor EXCEPT ![r] =
                   IF \E u \in Units : u >= osize /\ wr.before[u] # {}
                   THEN osize ELSE MaxSize]
    /\ UNCHANGED <<originVars, cacheVars, entryVars, cmu, wr, op, cull, ul, foreign>>

\* The reply is sent: endXfer.  The history variables go back to a fixed value.
ReadEnd(r) ==
    /\ xfer' = xfer \ {r}
    /\ rd' = [rd EXCEPT ![r] = IdleReader]
    /\ seen' = [seen EXCEPT ![r] = [u \in Units |-> {}]]
    /\ floor' = [floor EXCEPT ![r] = MaxSize]

\* One size and bit sample under file.mu; a read at or past the end is empty.
ReadSample(r) ==
    /\ rd[r].pc = "sample"
    /\ FileMuFree
    /\ IF rd[r].off >= size
       THEN ReadEnd(r)
       ELSE LET n   == MinOf(rd[r].n, size - rd[r].off)
                cov == Cover(rd[r].off, n, size, PS)
            IN  /\ rd' = [rd EXCEPT ![r].n = n,
                            ![r].i = CoverStart(rd[r].off, n, size, PS),
                            ![r].stop = CoverEnd(rd[r].off, n, size, PS),
                            ![r].pc = IF cov \subseteq bits THEN "serve" ELSE "walk"]
                /\ UNCHANGED <<xfer, seen, floor>>
    /\ UNCHANGED <<originVars, cacheVars, entryVars, cmu, wr, op, cull, ul, foreign, load>>

NextPiece(r) == rd' = [rd EXCEPT ![r].pc = "walk", ![r].i = @ + 1]

\* ensureRange probes the next bit without file.mu; a clear one starts
\* hydratePiece, which samples wroteLocally once.
Walk(r) ==
    /\ rd[r].pc = "walk"
    /\ \/ /\ rd[r].i = rd[r].stop
          /\ rd' = [rd EXCEPT ![r].pc = "serve"]
       \/ /\ rd[r].i < rd[r].stop /\ rd[r].i \in bits
          /\ NextPiece(r)
       \/ /\ rd[r].i < rd[r].stop /\ rd[r].i \notin bits
          /\ FileMuFree
          /\ rd' = [rd EXCEPT ![r].pc = "claim", ![r].prefer = (writes # 0),
                              ![r].retry = FALSE]
    /\ UNCHANGED <<originVars, cacheVars, entryVars, xfer, cmu, wr, op, cull, ul, ghostVars>>

\* Mutant: a claim is never given back.
ClaimKept(i) == UNCHANGED filling

Unclaimed(i) == filling[i] = NoClaim
Unclaim(i) == filling' = [filling EXCEPT ![i] = NoClaim]

\* Mutant: a late finisher does not look at dead.
NeverPurged == FALSE

\* finishPiece and copyIntoCache save nothing for an entry forget has purged.
Purged == dead

\* beginFill.  A claim held by another filler is waited for.
BeginFill(r) ==
    LET i == rd[r].i IN
    /\ rd[r].pc = "claim"
    /\ FileMuFree
    /\ \/ /\ dead \/ i \in bits                              \* raced, filled
          /\ NextPiece(r)
          /\ UNCHANGED filling
       \/ /\ ~dead /\ i \notin bits /\ Unclaimed(i)
          /\ PLen(size, i) = 0                               \* raced
          /\ NextPiece(r)
          /\ UNCHANGED filling
       \/ /\ ~dead /\ i \notin bits /\ Unclaimed(i)
          /\ PLen(size, i) > 0
          /\ filling' = [filling EXCEPT ![i] = writes]
          /\ rd' = [rd EXCEPT ![r].pc = "fetch", ![r].flen = PLen(size, i)]
    /\ UNCHANGED <<originVars, cacheVars, size, nbits, bits, writes, hashes, id, dead,
                   xfer, cmu, wr, op, cull, ul, ghostVars>>

\* A peer's bytes are admitted only when they match the trusted digest.
FetchPeer(r) ==
    LET h == hashes[rd[r].i] IN
    /\ rd[r].pc = "fetch"
    /\ FileMuFree
    /\ ~rd[r].prefer
    /\ h # NoHash /\ Len(h) = rd[r].flen
    /\ rd' = [rd EXCEPT ![r].buf = h, ![r].pc = "land"]
    /\ UNCHANGED <<originVars, cacheVars, entryVars, xfer, cmu, wr, op, cull, ul, ghostVars>>

\* originFillBuf: a short or failed origin read gives the claim up.
FetchOrigin(r) ==
    LET off == Offset(rd[r].i, PS) IN
    /\ rd[r].pc = "fetch"
    /\ \/ /\ osize >= off + rd[r].flen
          /\ rd' = [rd EXCEPT ![r].buf = Bytes(odata, off, rd[r].flen), ![r].pc = "land"]
       \/ /\ osize < off + rd[r].flen \/ Fault("origin")
          /\ rd' = [rd EXCEPT ![r].pc = "abort", ![r].ok = FALSE]
    /\ UNCHANGED <<originVars, cacheVars, entryVars, xfer, cmu, wr, op, cull, ul, ghostVars>>

\* Mutant: the write generation is not compared.
AnyGeneration(r) == PLen(size, rd[r].i) = Len(rd[r].buf)

\* The claim is of the current write generation, and the piece still has the
\* length that was fetched.
ClaimStands(r) ==
    /\ filling[rd[r].i] = writes
    /\ PLen(size, rd[r].i) = Len(rd[r].buf)

\* A short pwrite is a failed fill.
FillLanded(r, k) == k = Len(rd[r].buf)

\* completeFill up to its pwrite: a claim the entry outran is dropped.
FillOutrun(r) == dead \/ rd[r].i \in bits \/ ~ClaimStands(r)

CompleteFill(r) ==
    LET i   == rd[r].i
        off == Offset(i, PS)
    IN
    /\ rd[r].pc = "land"
    /\ cmu = Free /\ FileMuFree
    /\ \/ /\ FillOutrun(r)
          /\ Unclaim(i)
          /\ rd' = [rd EXCEPT ![r].pc = "probe"]
          /\ UNCHANGED <<data, dlen, cmu>>
       \/ /\ ~FillOutrun(r)
          /\ cmu' = r
          /\ \E k \in {Len(rd[r].buf)} \cup (IF Fault("cache") THEN 0 .. Len(rd[r].buf) - 1 ELSE {}) :
                /\ data' = Overlay(data, off, SubSeq(rd[r].buf, 1, k))
                /\ dlen' = IF k = 0 THEN dlen ELSE Extend(dlen, off + k)
                /\ rd' = [rd EXCEPT ![r].pc = "mark", ![r].ok = FillLanded(r, k)]
          /\ UNCHANGED filling
    /\ UNCHANGED <<originVars, sidecar, size, nbits, bits, writes, hashes, id, dead,
                   xfer, wr, op, cull, ul, ghostVars>>

\* finishPiece, for a landed fill and for an aborted one.
FillStands(r) == rd[r].ok /\ ClaimStands(r)

FinishPiece(r) ==
    LET i == rd[r].i IN
    /\ rd[r].pc \in {"mark", "abort"}
    /\ FileMuFree
    /\ Unclaim(i)
    /\ cmu' = IF rd[r].pc = "mark" THEN Free ELSE cmu
    /\ rd' = [rd EXCEPT ![r].pc = IF rd[r].ok THEN "probe" ELSE "fallback"]
    /\ IF Purged
       THEN UNCHANGED <<bits, hashes, sidecar>>
       ELSE /\ bits' = IF FillStands(r) THEN bits \cup InField({i}) ELSE bits
            /\ hashes' = IF FillStands(r) THEN [hashes EXCEPT ![i] = rd[r].buf] ELSE hashes
            /\ SaveBits(size, nbits, bits', id)
    /\ UNCHANGED <<originVars, data, dlen, size, nbits, writes, id, dead,
                   xfer, wr, op, cull, ul, ghostVars>>

\* Mutant: a discarded fill is taken for a filled piece.
ProbeTrusting(r) ==
    /\ rd[r].pc = "probe"
    /\ NextPiece(r)
    /\ UNCHANGED <<originVars, cacheVars, entryVars, xfer, cmu, wr, op, cull, ul, ghostVars>>

\* One origin retry after a discarded fill, then the read takes the origin.
Probe(r) ==
    /\ rd[r].pc = "probe"
    /\ \/ /\ rd[r].i \in bits
          /\ NextPiece(r)
       \/ /\ rd[r].i \notin bits /\ ~rd[r].retry
          /\ rd' = [rd EXCEPT ![r].pc = "claim", ![r].retry = TRUE, ![r].prefer = TRUE]
       \/ /\ rd[r].i \notin bits /\ rd[r].retry
          /\ rd' = [rd EXCEPT ![r].pc = "fallback"]
    /\ UNCHANGED <<originVars, cacheVars, entryVars, xfer, cmu, wr, op, cull, ul, ghostVars>>

\* readServed: a dead entry is answered from the origin, because pieces this
\* read meant to hydrate may be holes in the surviving descriptor.
ServeFromOrigin == dead

ReadServed(r) ==
    /\ rd[r].pc = "serve"
    /\ FileMuFree
    /\ rd' = [rd EXCEPT ![r].pc = IF ServeFromOrigin THEN "fallback" ELSE "pread"]
    /\ UNCHANGED <<originVars, cacheVars, entryVars, xfer, cmu, wr, op, cull, ul, ghostVars>>

\* The bytes leave: the cache pread, or originPread.  The bytes a pread
\* returns are whatever data holds while pc is "pread".
Reply(r) ==
    /\ rd[r].pc \in {"pread", "fallback"}
    /\ ReadEnd(r)
    /\ UNCHANGED <<originVars, cacheVars, entryVars, cmu, wr, op, cull, ul, foreign, load>>

ReadStep(r) ==
    \/ ReadSample(r) \/ Walk(r) \/ BeginFill(r) \/ FetchPeer(r) \/ FetchOrigin(r)
    \/ CompleteFill(r) \/ FinishPiece(r) \/ Probe(r) \/ ReadServed(r) \/ Reply(r)

-----------------------------------------------------------------------------
(* Writes, truncates and creates: one at a time, under the inode lock *)

IdleMutator ==
    [pc |-> "idle", kind |-> "none", off |-> 0, len |-> 0, val |-> Hole,
     sz |-> 0, obs |-> Unknown, copied |-> FALSE, note |-> FALSE,
     before |-> [u \in Units |-> {}]]

\* A mutation starting now, with the content it replaces as history: until
\* it returns, a read may still see that.
Begun(pc, kind) ==
    [IdleMutator EXCEPT !.pc = pc, !.kind = kind, !.before = [u \in Units |-> Held(u)]]

Reading(r) == rd[r].pc # "idle"

\* History: a read in progress may return what the file holds now; a shrink
\* releases it from the bytes that were cut.
Observe ==
    /\ seen' = [r \in Readers |-> [u \in Units |->
                   IF Reading(r) /\ u < osize' THEN seen[r][u] \cup {odata'[u]}
                                               ELSE seen[r][u]]]
    /\ floor' = [r \in Readers |->
                   IF Reading(r) /\ osize' < osize THEN MinOf(floor[r], osize')
                                                   ELSE floor[r]]

Mutation(kind) ==
    /\ kind \in load.ops
    /\ wr.pc = "idle" /\ ~dead /\ ul = "live"
    /\ load.maxMuts > 0 /\ load' = [load EXCEPT !.maxMuts = @ - 1]
    /\ UNCHANGED <<cacheVars, entryVars, xfer, cmu, rd, op, cull, ul, foreign>>

\* The first k units of the write buffer reach the origin.
OriginPwrite(off, k, v) ==
    /\ odata' = Overlay(odata, off, [j \in 1 .. k |-> v])
    /\ osize' = IF k = 0 THEN osize ELSE Extend(osize, off + k)
    /\ oid' = IF k = 0 THEN oid ELSE oid + 1

\* mf_write: originPwrite.  A failed one has landed any prefix and distrusts.
\* What a stat would have said before is what an NFS client may still answer.
WriteOrigin(s, v) ==
    /\ Mutation("write")
    /\ \/ /\ OriginPwrite(s[1], s[2], v)
          /\ wr' = [Begun("stat", "write") EXCEPT !.off = s[1], !.len = s[2], !.val = v,
                                                 !.sz = osize, !.obs = oid]
       \/ /\ Fault("origin")
          /\ \E k \in 0 .. s[2] : OriginPwrite(s[1], k, v)
          /\ wr' = [Begun("distrust", "write") EXCEPT !.off = s[1], !.len = s[2], !.val = v]
    /\ Observe

\* The post-write stat, whose attributes may lag the write.  A failed one is
\* retried once, through cachedFor.
Observed == {<<osize, oid>>} \cup (IF Fault("lag") THEN {<<wr.sz, wr.obs>>} ELSE {})

WriteStat ==
    /\ wr.pc = "stat"
    /\ \/ \E s \in Observed :
             \/ wr' = [wr EXCEPT !.sz = s[1], !.obs = s[2], !.note = TRUE,
                            !.pc = IF s[1] = wr.off + wr.len THEN "fill" ELSE "ident"]
             \/ /\ Fault("stat")
                /\ wr' = [wr EXCEPT !.sz = s[1], !.obs = s[2], !.pc = "ident"]
       \/ Fault("stat") /\ wr' = [wr EXCEPT !.pc = "distrust"]
    /\ UNCHANGED <<originVars, cacheVars, entryVars, xfer, cmu, rd, op, cull, ul, ghostVars>>

\* An entry a forget removed is not found again: the write goes to a new one.
EntryGone ==
    /\ dead
    /\ wr.pc \in {"fill", "ident"}
    /\ wr' = IdleMutator
    /\ UNCHANGED <<originVars, cacheVars, entryVars, xfer, cmu, rd, op, cull, ul, ghostVars>>

\* cacheFillIdentified before its copy: the file now ends where the write
\* does, so the entry follows and takes the post-write identity.
WriteFill ==
    LET end == wr.off + wr.len IN
    /\ wr.pc = "fill" /\ ~dead
    /\ cmu = Free /\ FileMuFree
    /\ \/ /\ end > size
          /\ GrowTo(end)
          /\ UNCHANGED <<writes, data, dlen>>
       \/ /\ end < size
          /\ size' = end
          /\ bits' = {}
          /\ nbits' = FieldSize(end)
          /\ writes' = writes + 1
          /\ ClearHashes
          /\ TruncateCacheFd(end)
          /\ SaveBits(end, nbits', {}, id)
       \/ /\ end = size
          /\ UNCHANGED <<size, bits, nbits, writes, hashes, data, dlen, sidecar>>
    /\ id' = IF id = Unknown \/ ContentChanged(id, wr.obs) THEN wr.obs ELSE id
    /\ wr' = [wr EXCEPT !.pc = "copy", !.note = FALSE]
    /\ UNCHANGED <<originVars, filling, dead, xfer, cmu, rd, op, cull, ul, ghostVars>>

\* Any other size: getIdentified's reset ...
WriteIdent ==
    /\ wr.pc = "ident" /\ ~dead
    /\ ReconcileLocks(wr.sz, wr.obs)
    /\ Reconcile(wr.sz, wr.obs)
    /\ wr' = [wr EXCEPT !.pc = "grow"]
    /\ UNCHANGED <<originVars, filling, dead, xfer, cmu, rd, op, cull, ul, ghostVars>>

\* ... then growToLocked, for a stat that lags the write.
WriteGrow ==
    LET end == wr.off + wr.len IN
    /\ wr.pc = "grow"
    /\ cmu = Free /\ FileMuFree
    /\ IF end > size THEN GrowTo(end)
                     ELSE UNCHANGED <<size, bits, hashes, nbits, sidecar>>
    /\ wr' = [wr EXCEPT !.pc = "copy"]
    /\ UNCHANGED <<originVars, data, dlen, filling, writes, id, dead, xfer, cmu,
                   rd, op, cull, ul, ghostVars>>

\* Mutant: the copy does not look at xfer.
NeverBlocked == FALSE

\* A transfer may be reading the bytes the copy would change.
CopyBlocked == xferBusy

CopyLanded(k) == k = wr.len

\* copyIntoCache takes content_mu and pwrites, unless a transfer is running.
CopyPwrite ==
    /\ wr.pc = "copy"
    /\ cmu = Free /\ FileMuFree
    /\ cmu' = Mutator
    /\ \/ /\ CopyBlocked
          /\ wr' = [wr EXCEPT !.pc = "mark", !.copied = FALSE]
          /\ UNCHANGED <<data, dlen>>
       \/ /\ ~CopyBlocked
          /\ \E k \in {wr.len} \cup (IF Fault("cache") THEN 0 .. wr.len - 1 ELSE {}) :
                /\ data' = Overlay(data, wr.off, [j \in 1 .. k |-> wr.val])
                /\ dlen' = IF k = 0 THEN dlen ELSE Extend(dlen, wr.off + k)
                /\ wr' = [wr EXCEPT !.pc = "mark", !.copied = CopyLanded(k)]
    /\ UNCHANGED <<originVars, sidecar, entryVars, xfer, rd, op, cull, ul, ghostVars>>

\* copyIntoCache under file.mu.  A retry of bytes the cache already holds
\* changes nothing; a copy marks the pieces it fills; a copy that did not
\* land unmarks every piece it should have changed.
FullPiece(v) == [j \in 1 .. PS |-> v]
Full == FullCover(wr.off, wr.len, PS)

Touched == Cover(wr.off, wr.len, size, PS)

AlreadyApplied ==
    /\ Full # {}
    /\ Cardinality(Full) * PS = wr.len
    /\ Full \subseteq bits
    /\ \A i \in Full : hashes[i] = FullPiece(wr.val)

CopyMark ==
    /\ wr.pc = "mark"
    /\ FileMuFree
    /\ \/ /\ Purged \/ AlreadyApplied
          /\ UNCHANGED <<bits, hashes, writes, sidecar>>
       \/ /\ ~Purged /\ ~AlreadyApplied
          /\ writes' = writes + 1
          /\ bits' = IF wr.copied THEN bits \cup InField(Full) ELSE bits \ Touched
          /\ hashes' = [i \in Pieces |->
                          IF wr.copied /\ i \in Full THEN FullPiece(wr.val)
                          ELSE IF i \in Touched THEN NoHash
                          ELSE hashes[i]]
          /\ SaveBits(size, nbits, bits', id)
    /\ cmu' = Free
    /\ wr' = IF wr.note THEN [wr EXCEPT !.pc = "note"] ELSE IdleMutator
    /\ UNCHANGED <<originVars, data, dlen, size, nbits, filling, id, dead, xfer,
                   rd, op, cull, ul, ghostVars>>

\* noteOriginId.
WriteNote ==
    /\ wr.pc = "note"
    /\ FileMuFree
    /\ IF id = Unknown \/ ContentChanged(id, wr.obs)
       THEN id' = wr.obs /\ SaveBits(size, nbits, bits, wr.obs)
       ELSE UNCHANGED <<id, sidecar>>
    /\ wr' = IdleMutator
    /\ UNCHANGED <<originVars, data, dlen, size, nbits, bits, filling, writes, hashes, dead,
                   xfer, cmu, rd, op, cull, ul, ghostVars>>

\* distrust: no mark survives, in memory or on disk.
Distrust ==
    /\ wr.pc = "distrust"
    /\ FileMuFree
    /\ sidecar' = NoSidecar
    /\ IF dead
       THEN UNCHANGED <<bits, writes, hashes>>
       ELSE bits' = {} /\ writes' = writes + 1 /\ ClearHashes
    /\ wr' = IF wr.kind = "create" THEN [wr EXCEPT !.pc = "warm"] ELSE IdleMutator
    /\ UNCHANGED <<originVars, data, dlen, size, nbits, filling, id, dead, xfer, cmu,
                   rd, op, cull, ul, ghostVars>>

\* mf_truncate: the origin first ...
TruncateOrigin(n) ==
    /\ Mutation("truncate")
    /\ osize' = n /\ odata' = Cut(odata, n) /\ oid' = oid + 1
    /\ wr' = [Begun("trunc", "truncate") EXCEPT !.sz = n]
    /\ Observe

\* ... then the live entry; Bitfield.resize runs whether or not xfer is busy.
TruncateEntry ==
    /\ wr.pc = "trunc"
    /\ cmu = Free /\ FileMuFree
    /\ \/ /\ dead
          /\ wr' = [wr EXCEPT !.pc = "distrust"]
          /\ UNCHANGED <<size, bits, nbits, writes, hashes, data, dlen, sidecar>>
       \/ /\ ~dead
          /\ IF size = wr.sz
             THEN UNCHANGED <<size, bits, nbits, writes, hashes, sidecar>>
             ELSE /\ size' = wr.sz
                  /\ bits' = {}
                  /\ nbits' = PCount(wr.sz)
                  /\ writes' = writes + 1
                  /\ ClearHashes
                  /\ SaveBits(wr.sz, nbits', {}, id)
          /\ TruncateCacheFd(wr.sz)
          /\ wr' = IdleMutator
    /\ UNCHANGED <<originVars, filling, id, dead, xfer, cmu, rd, op, cull, ul, ghostVars>>

\* mf_create of an existing name: O_TRUNC, distrust, then a warmup get().
CreateOrigin ==
    /\ Mutation("create")
    /\ osize' = 0 /\ odata' = Cut(odata, 0) /\ oid' = oid + 1
    /\ wr' = Begun("distrust", "create")
    /\ Observe

CreateWarm ==
    /\ wr.pc = "warm"
    /\ \/ ~dead /\ ReconcileLocks(0, Unknown) /\ Reconcile(0, Unknown)
       \/ /\ dead \/ Fault("close")               \* a failed close skips the warmup
          /\ UNCHANGED <<size, nbits, bits, writes, hashes, id, sidecar, data, dlen>>
    /\ wr' = IdleMutator
    /\ UNCHANGED <<originVars, filling, dead, xfer, cmu, rd, op, cull, ul, ghostVars>>

MutatorStep ==
    \/ WriteStat \/ EntryGone \/ WriteFill \/ WriteIdent \/ WriteGrow
    \/ CopyPwrite \/ CopyMark \/ WriteNote \/ Distrust
    \/ TruncateEntry \/ CreateWarm

-----------------------------------------------------------------------------
(* unlinkOrigin: forget, unlink the origin name, forget again *)

\* forget: the wipe, the purge and the dead stamp share one file.mu window.
UnlinkForget ==
    /\ "unlink" \in load.ops
    /\ ul = "live"
    /\ FileMuFree
    /\ bits' = {}
    /\ sidecar' = NoSidecar
    /\ dead' = TRUE
    /\ ul' = "forgotten"
    /\ UNCHANGED <<originVars, data, dlen, size, nbits, filling, writes, hashes, id, xfer, cmu,
                   rd, wr, op, cull, ghostVars>>

UnlinkOrigin ==
    /\ ul = "forgotten"
    /\ osize' = 0 /\ odata' = Cut(odata, 0) /\ oid' = oid + 1
    /\ ul' = "unlinked"
    /\ Observe
    /\ UNCHANGED <<cacheVars, entryVars, xfer, cmu, rd, wr, op, cull, foreign, load>>

\* The second forget finds no live entry and purges the artifacts again.
UnlinkPurge ==
    /\ ul = "unlinked"
    /\ sidecar' = NoSidecar
    /\ ul' = "purged"
    /\ UNCHANGED <<originVars, data, dlen, entryVars, xfer, cmu, rd, wr, op, cull, ghostVars>>

-----------------------------------------------------------------------------
(* mf_open: stat the origin, then getIdentified with that sample *)

IdleOpener == [pc |-> "idle", sz |-> 0, obs |-> Unknown]

OpenStat(o) ==
    /\ op[o].pc = "idle"
    /\ load.maxOpens > 0 /\ load' = [load EXCEPT !.maxOpens = @ - 1]
    /\ ~dead
    /\ op' = [op EXCEPT ![o] = [pc |-> "stat", sz |-> osize, obs |-> oid]]
    /\ UNCHANGED <<originVars, cacheVars, entryVars, xfer, cmu, rd, wr, cull, ul, seen, floor,
                   foreign>>

\* An opener that looked the entry up before a forget still reconciles it.
OpenReconcile(o) ==
    /\ op[o].pc = "stat"
    /\ \/ /\ ReconcileLocks(op[o].sz, op[o].obs)
          /\ Reconcile(op[o].sz, op[o].obs)
       \/ /\ dead
          /\ UNCHANGED <<size, nbits, bits, writes, hashes, id, sidecar, data, dlen>>
    /\ op' = [op EXCEPT ![o] = IdleOpener]
    /\ UNCHANGED <<originVars, filling, dead, xfer, cmu, rd, wr, cull, ul, ghostVars>>

-----------------------------------------------------------------------------
(* punchPiece: the culler holds content_mu and file.mu throughout *)

LastSet == CHOOSE i \in bits : \A j \in bits : j <= i

Punchable(i) == cmu = Free /\ ~xferBusy /\ Unclaimed(i)

\* Mutant: the hole is cut before the cleared mark is saved.
PunchUnsaved == sidecar

\* The sidecar punchPiece makes durable before it cuts.
PunchImage == Image(size, nbits, bits \ {LastSet}, id)

\* The cleared mark is durable before the hole is cut ...
PunchClear ==
    /\ cull.pc = "idle" /\ ~dead
    /\ bits # {}
    /\ Punchable(LastSet)
    /\ bits' = bits \ {LastSet}
    /\ sidecar' = PunchImage
    /\ cmu' = Culler
    /\ cull' = [pc |-> "cut", i |-> LastSet]
    /\ UNCHANGED <<originVars, data, dlen, size, nbits, filling, writes, hashes, id, dead,
                   xfer, rd, wr, op, ul, ghostVars>>

\* ... and a save that fails keeps both the mark and the bytes.
PunchSaveFails ==
    /\ Fault("save")
    /\ cull.pc = "idle" /\ ~dead
    /\ bits # {}
    /\ Punchable(LastSet)
    /\ sidecar' \in {sidecar, NoSidecar, PunchImage, Image(size, nbits, bits, id)}
    /\ UNCHANGED <<originVars, data, dlen, entryVars, xfer, cmu, threadVars, ghostVars>>

PunchCut ==
    /\ cull.pc = "cut"
    /\ \/ /\ ~xferBusy
          /\ data' = [u \in Units |-> IF u \div PS = cull.i /\ u < size THEN Hole ELSE data[u]]
          /\ UNCHANGED <<bits, sidecar>>
       \/ /\ xferBusy \/ Fault("cache")
          /\ bits' = bits \cup InField({cull.i})
          /\ SaveBits(size, nbits, bits', id)
          /\ UNCHANGED data
    /\ cmu' = Free
    /\ cull' = [pc |-> "idle", i |-> 0]
    /\ UNCHANGED <<originVars, dlen, size, nbits, filling, writes, hashes, id, dead,
                   xfer, rd, wr, op, ul, ghostVars>>

-----------------------------------------------------------------------------
(* The world outside this daemon *)

\* Another node rewrites the origin file in place.
ForeignRewrite(v) ==
    /\ load.maxForeigns > 0 /\ load' = [load EXCEPT !.maxForeigns = @ - 1]
    /\ ul = "live" /\ osize > 0
    /\ foreign' = TRUE
    /\ odata' = [u \in Units |-> IF u < osize THEN v ELSE Hole]
    /\ oid' = oid + 1
    /\ UNCHANGED osize
    /\ Observe
    /\ UNCHANGED <<cacheVars, entryVars, xfer, cmu, threadVars>>

\* The daemon dies between any two steps and comes back; the first open
\* builds the entry from the sidecar (getIdentified on a map miss, loadBits,
\* persistDiscardedWipe, reconcile) and openCache sizes the data file.
Restart ==
    /\ load.maxRestarts > 0 /\ load' = [load EXCEPT !.maxRestarts = @ - 1]
    /\ ul \in {"live", "forgotten"}
    /\ size' = osize /\ nbits' = PCount(osize)
    /\ IF SidecarUsable(osize, oid)
       THEN /\ bits' \in SidecarMarks
            /\ writes' = 0
            /\ id' = IF BlobId = Unknown THEN oid ELSE BlobId
            /\ IF BlobId = Unknown /\ bits' # {} THEN SaveBits(osize, nbits', bits', oid)
                                                ELSE UNCHANGED sidecar
       ELSE /\ bits' = {}
            /\ writes' = IF sidecar.size = osize /\ ContentChanged(BlobId, oid) THEN 1 ELSE 0
            /\ id' = oid
            /\ IF sidecar = NoSidecar THEN UNCHANGED sidecar
                                      ELSE SaveBits(osize, nbits', {}, oid)
    /\ data' = Cut(data, IF dead THEN 0 ELSE osize)
    /\ dlen' = osize
    /\ filling' = [i \in Pieces |-> NoClaim]
    /\ hashes' = NoHashes
    /\ dead' = FALSE
    /\ xfer' = {} /\ cmu' = Free
    /\ rd' = [r \in Readers |-> IdleReader]
    /\ wr' = IdleMutator
    /\ op' = [o \in Openers |-> IdleOpener]
    /\ cull' = [pc |-> "idle", i |-> 0]
    /\ ul' = "live"
    /\ seen' = [r \in Readers |-> [u \in Units |-> {}]]
    /\ floor' = [r \in Readers |-> MaxSize]
    /\ UNCHANGED <<originVars, foreign>>

-----------------------------------------------------------------------------
\* A first open of a file nothing is cached of, or mf_create's empty one.
Init ==
    /\ load \in Workloads
    /\ osize \in load.sizes
    /\ \E v \in Vals : odata = [u \in Units |-> IF u < osize THEN v ELSE Hole]
    /\ oid = 1
    /\ data = [u \in Units |-> Hole] /\ dlen = osize
    /\ sidecar = NoSidecar
    /\ size = osize /\ nbits = PCount(osize) /\ bits = {}
    /\ filling = [i \in Pieces |-> NoClaim]
    /\ writes = 0 /\ hashes = NoHashes /\ dead = FALSE
    /\ id \in {oid} \cup (IF osize = 0 THEN {Unknown} ELSE {})
    /\ xfer = {} /\ cmu = Free
    /\ rd = [r \in Readers |-> IdleReader]
    /\ wr = IdleMutator
    /\ op = [o \in Openers |-> IdleOpener]
    /\ cull = [pc |-> "idle", i |-> 0]
    /\ ul = "live"
    /\ seen = [r \in Readers |-> [u \in Units |-> {}]]
    /\ floor = [r \in Readers |-> MaxSize]
    /\ foreign = FALSE

Next ==
    \/ \E r \in Readers : ReadStep(r) \/ \E s \in load.reads : ReadBegin(r, s)
    \/ \E s \in load.writes, v \in Vals : WriteOrigin(s, v)
    \/ \E n \in load.sizes : TruncateOrigin(n)
    \/ CreateOrigin
    \/ MutatorStep
    \/ UnlinkForget \/ UnlinkOrigin \/ UnlinkPurge
    \/ \E o \in Openers : OpenStat(o) \/ OpenReconcile(o)
    \/ PunchClear \/ PunchSaveFails \/ PunchCut
    \/ \E v \in Vals : ForeignRewrite(v)
    \/ Restart

Spec == Init /\ [][Next]_vars

\* Every thread that is inside a handler keeps running; the kernel need not
\* send another request, and the culler need not start another round.
FairSpec ==
    /\ Spec
    /\ \A r \in Readers : WF_vars(ReadStep(r))
    /\ \A o \in Openers : WF_vars(OpenReconcile(o))
    /\ WF_vars(MutatorStep)
    /\ WF_vars(PunchCut)

-----------------------------------------------------------------------------
(* Properties *)

Rd == [pc : {"idle", "sample", "walk", "claim", "fetch", "land", "mark", "abort",
             "probe", "serve", "pread", "fallback"},
       off : Nat, n : Nat, i : Nat, stop : Nat, flen : Nat, buf : Seq(Val),
       ok : BOOLEAN, prefer : BOOLEAN, retry : BOOLEAN]
Wr == [pc : {"idle", "stat", "fill", "ident", "grow", "copy", "mark", "note",
             "distrust", "trunc", "warm"},
       kind : {"none", "write", "truncate", "create"}, off : Nat, len : Nat,
       val : Val, sz : Nat, obs : Nat, copied : BOOLEAN, note : BOOLEAN,
       before : [Units -> SUBSET Val]]

\* Every variable keeps the type its field of Cached, or its thread, has.
OriginTypes == osize \in 0 .. MaxSize /\ odata \in [Units -> Val] /\ oid \in Nat \ {0}
DataTypes == data \in [Units -> Val] /\ dlen \in 0 .. MaxSize
SidecarTypes == sidecar \in [size : 0 .. MaxSize, nbits : Nat, bits : SUBSET Pieces, id : Nat]
EntryTypes ==
    /\ size \in 0 .. MaxSize /\ nbits \in Nat /\ bits \subseteq Pieces
    /\ writes \in Nat /\ hashes \in [Pieces -> Seq(Val)] /\ id \in Nat
    /\ dead \in BOOLEAN
ClaimTypes == filling \in [Pieces -> Nat \cup {NoClaim}]
LockTypes == xfer \subseteq Readers /\ cmu \in Readers \cup {Free, Mutator, Culler}
ReaderTypes == rd \in [Readers -> Rd]
MutatorTypes == wr \in Wr
OtherTypes ==
    /\ op \in [Openers -> [pc : {"idle", "stat"}, sz : 0 .. MaxSize, obs : Nat]]
    /\ cull \in [pc : {"idle", "cut"}, i : Nat]
    /\ ul \in {"live", "forgotten", "unlinked", "purged"}
HistoryTypes ==
    /\ seen \in [Readers -> [Units -> SUBSET Val]]
    /\ floor \in [Readers -> 0 .. MaxSize]
    /\ foreign \in BOOLEAN /\ load \in Workload

TypeOK ==
    /\ OriginTypes /\ DataTypes /\ SidecarTypes /\ EntryTypes /\ ClaimTypes /\ LockTypes
    /\ ReaderTypes /\ MutatorTypes /\ OtherTypes /\ HistoryTypes

\* A byte the mutator has written to the origin and not yet settled in the cache.
Pending(u) ==
    /\ wr.kind = "write"
    /\ wr.pc \in {"stat", "fill", "ident", "grow", "copy", "mark", "distrust"}
    /\ u \in wr.off .. wr.off + wr.len - 1

\* A set mark never lies: the cache bytes of a marked piece are the origin's,
\* whatever fills, writes, truncates, culls and restarts ran before
\* (Cached.bits).  A rewrite by another node counts once the entry's
\* identity is the rewritten file's.
HonestMarks ==
    ~foreign \/ id = oid =>
        \A u \in Units :
            u \div PS \in bits /\ u < size /\ u < osize /\ ~Pending(u)
                => u < dlen /\ data[u] = odata[u]

\* mf_read never returns a byte the file did not hold at some moment of the
\* read, hole zeros included: whatever is in the cache during the pread may
\* be returned.  A read overlapping a shrink owes nothing past the new end.
ServeSafe ==
    \A r \in Readers : rd[r].pc = "pread" =>
        \A u \in rd[r].off .. rd[r].off + rd[r].n - 1 :
            u < floor[r] => u < dlen /\ data[u] \in seen[r][u]

\* What loadBits would take up if the daemon died now is true of the origin
\* (saveBits, punchPiece's write-ahead order).  The window of
\* cacheFillIdentified between adopting the identity and marking is excluded.
SidecarHonest ==
    (~foreign /\ SidecarUsable(osize, oid)
     /\ ~(wr.kind = "write" /\ wr.pc \in {"copy", "mark"} /\ ~wr.note))
        => \A B \in SidecarMarks : \A u \in Units :
              u \div PS \in B /\ u < osize => data[u] = odata[u]

\* The marks in memory and the ones on the disk.
RecordsHonest == HonestMarks /\ SidecarHonest

\* forget is final: no late fill, write-through or reconcile puts a mark
\* back, in the entry or in its sidecar (finishPiece, copyIntoCache).
DeadLeavesNoMarks == dead => bits = {} /\ sidecar.bits = {}

Filling(r) == rd[r].pc \in {"fetch", "land", "mark", "abort"}

\* Two readers never fill the same piece, and no claim outlives its filler:
\* one left behind would make every later reader of the piece wait forever
\* (beginFill, finishPiece).
FillClaims ==
    \A i \in Pieces :
        /\ filling[i] # NoClaim => \E r \in Readers : Filling(r) /\ rd[r].i = i
        /\ \A r, q \in Readers :
              Filling(r) /\ rd[r].i = i =>
                 /\ filling[i] # NoClaim
                 /\ Filling(q) /\ rd[q].i = i => q = r

Restarting == load'.maxRestarts # load.maxRestarts

\* While a transfer runs, the cache bytes of a marked piece do not change:
\* no write-through, truncate or punch reaches under it (Cached.xfer).
StableUnderXfer ==
    [][xfer # {} /\ ~Restarting =>
         \A u \in Units : u \div PS \in bits => data'[u] = data[u]]_vars

SameField == BytesLen(nbits', ByteBits) = BytesLen(nbits, ByteBits)

\* While a transfer runs, only mf_truncate reallocates the bitfield's buffer,
\* which readers index without a lock (growToLocked, reconcile and
\* cacheFillIdentified under Cached.xferBusy).  What such a reader then takes
\* for granted is the old buffer alone: no mark is left in the new one, the
\* claims taken before are outrun, and the cache file is whole.
FieldMovesInTruncate ==
    [][xfer # {} /\ ~Restarting /\ ~SameField =>
         /\ wr.pc = "trunc"
         /\ bits' = {} /\ \A i \in Pieces : filling'[i] # writes'
         /\ data' = data /\ dlen' = dlen]_vars

\* Every read is answered (mf_read), whatever the writers, opens and the
\* culler do meanwhile.
ReadCompletes == \A r \in Readers : Reading(r) ~> ~Reading(r)

-----------------------------------------------------------------------------
(* What the code's own comments promise and the code does not keep *)

\* Cached.xferBusy: while a transfer runs "a path that replaces the field
\* (reconcile, mf_write's grow, mf_truncate, cacheFillIdentified) must answer
\* true and invalidate in place rather than swap the buffer".
FieldStableUnderXfer == [][xfer # {} /\ ~Restarting => SameField]_vars

\* hydratePiece: a read that raced a truncate "returns a short count against
\* the new size", so every byte it does return was in the file.
NoInventedBytes ==
    \A r \in Readers : rd[r].pc = "pread" =>
        \A u \in rd[r].off .. rd[r].off + rd[r].n - 1 :
            u < dlen => data[u] \in seen[r][u]

\* fileForRead: "an external origin rewrite is visible on the next open".
RewriteVisibleOnOpen ==
    [][\A o \in Openers :
         op[o].pc = "stat" /\ op'[o].pc = "idle" /\ ~dead /\ wr.pc = "idle"
         /\ op[o].sz = osize /\ op[o].obs = oid
            => \A u \in Units : u \div PS \in bits' /\ u < osize => data'[u] = odata[u]]_vars

\* fileForRead: size changes through the mount "update the entry in place",
\* so with no call in progress a warm read is bounded by the origin's size.
SizeFollowsMount ==
    (wr.pc = "idle" /\ ~dead /\ ul = "live" /\ \A o \in Openers : op[o].pc = "idle")
        => size = osize

\* reconcile: a field left undersized "can only under-report marks"; the next
\* load takes it as empty.
UndersizedFieldIsEmpty ==
    BytesLen(sidecar.nbits, ByteBits) < BodyLen => ~SidecarUsable(sidecar.size, Unknown)
=============================================================================
