------------------------- MODULE CachedServeProofs -------------------------
(* What a reader of a cached file gets: a marked piece holds the origin's    *)
(* bytes, and no read returns a byte the file never held, for every workload *)
(* in which this daemon is the only one to write the origin, no open races a *)
(* write and the daemon does not die.  The runs that let them happen find    *)
(* the counterexamples that make each of these hypotheses necessary.         *)
EXTENDS CachedFileProofs, FiniteSetTheorems

USE DEF originVars, cacheVars, entryVars, threadVars, ghostVars

\* One client: the origin changes only through this mount.
OneClient == \A w \in Workloads : w.maxOpens = 0 /\ w.maxForeigns = 0 /\ w.maxRestarts = 0

Alone ==
    /\ load.maxOpens = 0 /\ load.maxForeigns = 0 /\ load.maxRestarts = 0
    /\ ~foreign /\ \A o \in Openers : op[o].pc = "idle"

-----------------------------------------------------------------------------
(* The bytes the daemon keeps of the file, in the cache file, as digests and *)
(* in the buffers of fills, and what each of them may be.                    *)

\* The position of byte u in its piece.
At(u) == u - Offset(u \div PS, PS) + 1

\* The pieces whose bytes the entry vouches for, the one the culler may still
\* have to restore among them.
Marked == bits \cup (IF cull.pc = "cut" THEN {cull.i} ELSE {})

\* A call that has cut the origin and not yet the entry.
Cutting == wr.pc \in {"trunc", "distrust"}

\* x is byte u of the origin, unless a write of u is under way ...
Exact(u, x) ==
    ~Pending(u) => /\ u < osize => x = odata[u]
                   /\ ~Cutting => u < osize
\* ... or it was when the call under way began ...
Fresh(u, x) == x \in Held(u) \cup wr.before[u]
\* ... and every read under way may return it.
Returnable(u, x) == \A r \in Readers : Reading(r) /\ u < floor[r] => x \in seen[r][u]
Fit(u, x) == Exact(u, x) /\ Fresh(u, x) /\ Returnable(u, x)

\* The bytes of the write under way, and those of them it has put in the cache.
Span == wr.off .. wr.off + wr.len - 1
Overwritten(u) == wr.pc = "mark" /\ u \in Span /\ data[u] = wr.val

Hashed(u) == At(u) \in DOMAIN hashes[u \div PS]
Hash(u) == hashes[u \div PS][At(u)]

MarksFit == \A u \in Units : u \div PS \in Marked /\ u < size => u < dlen /\ Fit(u, data[u])
MarksIn == \A i \in Marked : i * PS < size
HashesFit == \A u \in Units : Hashed(u) => Fit(u, Hash(u))
HashesLong == \A i \in Pieces : hashes[i] # NoHash => Len(hashes[i]) = PLen(size, i)
\* A digest is of the bytes in the cache, but for those a copy has replaced.
HashesHeld ==
    \A u \in Units : u \div PS \in Marked /\ Hashed(u) => data[u] = Hash(u) \/ Overwritten(u)
Store == MarksFit /\ MarksIn /\ HashesFit /\ HashesLong /\ HashesHeld

\* A fill that would still be marked, and what it carries.
Carries(r, u) == u \div PS = rd[r].i /\ At(u) \in DOMAIN rd[r].buf
Current(r) == rd[r].pc \in {"land", "mark"} /\ rd[r].i \notin bits /\ ClaimStands(r)
FillFits(r) == Current(r) => \A u \in Units : Carries(r, u) => Fit(u, rd[r].buf[At(u)])
FillLong(r) ==
    Filling(r) => /\ rd[r].flen > 0
                  /\ filling[rd[r].i] = writes => rd[r].flen <= PLen(size, rd[r].i)
                  /\ rd[r].pc \in {"land", "mark"} => Len(rd[r].buf) = rd[r].flen
FillIn(r) ==
    rd[r].pc = "mark" =>
        /\ rd[r].i \notin bits
        /\ rd[r].ok => \A u \in Units : Carries(r, u) => u < dlen /\ data[u] = rd[r].buf[At(u)]
AbortFails(r) == rd[r].pc = "abort" => ~rd[r].ok
FillSound(r) == FillFits(r) /\ FillLong(r) /\ FillIn(r) /\ AbortFails(r)
FillsOld == \A i \in Pieces : filling[i] <= writes
Fills == FillsOld /\ \A r \in Readers : FillSound(r)

\* What a call in progress knows of the origin and of the entry.
WriteKnown == Writing => \A u \in Span : u < osize /\ odata[u] = wr.val
WriteSized ==
    /\ wr.pc = "stat" => osize = wr.sz \/ osize = wr.off + wr.len
    /\ wr.pc \in {"stat", "fill", "ident"} => wr.sz <= osize
    /\ wr.pc = "fill" => osize = wr.off + wr.len
    /\ wr.pc \in {"copy", "mark"} => size >= wr.off + wr.len
    /\ wr.pc = "trunc" => osize = wr.sz
WriteLanded == wr.pc = "mark" /\ wr.copied => \A u \in Span : u < dlen /\ data[u] = wr.val
IdleBefore == wr.pc = "idle" => \A u \in Units : wr.before[u] = {}
OriginSeen == \A r \in Readers : Reading(r) => \A u \in Units : u < osize => odata[u] \in seen[r][u]
Call == WriteKnown /\ WriteSized /\ WriteLanded /\ IdleBefore /\ OriginSeen

\* Who holds content_mu and who is counted in xfer.
Locks ==
    /\ cmu = Culler <=> cull.pc = "cut"
    /\ cmu = Mutator <=> wr.pc = "mark"
    /\ \A r \in Readers : (cmu = r <=> rd[r].pc = "mark") /\ (Reading(r) <=> r \in xfer)
    /\ dead <=> ul # "live"
    /\ cull.pc = "cut" => xfer = {}

\* The piece being cut is nobody's to mark meanwhile.
PunchUnmarked == cull.pc = "cut" => cull.i \notin bits

\* Of a live entry; a forgotten one vouches for nothing.
Kept == ~dead => Store /\ Fills /\ Call
Base == TypeInv /\ DeadInv /\ FillClaims /\ Alone /\ Locks /\ PunchUnmarked
ServeInv == Base /\ Kept

-----------------------------------------------------------------------------
(* Bytes and pieces *)

LEMMA UnitPlace ==
    ASSUME NEW u \in Units
    PROVE  /\ u \in Nat /\ u < MaxSize /\ u \div PS \in Pieces /\ u \div PS \in Nat
           /\ Offset(u \div PS, PS) = (u \div PS) * PS /\ (u \div PS) * PS \in Nat
           /\ At(u) \in 1 .. PS /\ At(u) = u - (u \div PS) * PS + 1
           /\ Offset(u \div PS, PS) + At(u) - 1 = u
PROOF
  <1>1. u \in Nat /\ u < MaxSize /\ PS \in Nat \ {0}
    BY PiecesType, Sizes
  <1>2. u \div PS \in Nat /\ (u \div PS) * PS <= u /\ u < (u \div PS) * PS + PS
    BY <1>1, InPiece
  <1>3. u \div PS \in Pieces
    BY <1>1, <1>2, PiecesType, Sizes
  <1>4. (u \div PS) * PS \in Nat /\ Offset(u \div PS, PS) = (u \div PS) * PS
    BY <1>1, <1>2 DEF Offset
  <1>5. At(u) = u - (u \div PS) * PS + 1
    BY <1>4 DEF At
  <1> QED  BY <1>1, <1>2, <1>3, <1>4, <1>5

\* The bytes of a piece that a file of sz bytes has are the first PLen of it.
LEMMA UnitBelow ==
    ASSUME NEW u \in Units, NEW sz \in 0 .. MaxSize
    PROVE  /\ u < sz <=> At(u) <= PLen(sz, u \div PS)
           /\ u < sz <=> At(u) \in 1 .. PLen(sz, u \div PS)
PROOF
  <1> DEFINE i == u \div PS
             o == i * PS
  <1>1. /\ u \in Nat /\ i \in Nat /\ At(u) \in 1 .. PS /\ At(u) = u - o + 1 /\ o \in Nat
        /\ PS \in Nat /\ sz \in Nat
    BY UnitPlace, Sizes
  <1>2. PLen(sz, i) = (IF o >= sz THEN 0 ELSE IF sz - o <= PS THEN sz - o ELSE PS)
    BY <1>1, PieceLength
  <1> HIDE DEF i, o
  <1>3. u < sz <=> At(u) <= PLen(sz, i)
    BY <1>1, <1>2
  <1>4. PLen(sz, i) \in Nat
    BY <1>1, <1>2
  <1> QED  BY <1>1, <1>3, <1>4 DEF i

-----------------------------------------------------------------------------
(* The steps of one client *)

\* The steps that need another client, a racing open or a dying daemon.
LEMMA AloneStep ==
    ASSUME TypeInv, Alone, [Next]_vars
    PROVE  /\ \/ UNCHANGED vars
              \/ \E r \in Readers : ReadStep(r) \/ \E s \in load.reads : ReadBegin(r, s)
              \/ \E s \in load.writes, v \in Vals : WriteOrigin(s, v)
              \/ \E n \in load.sizes : TruncateOrigin(n)
              \/ CreateOrigin
              \/ MutatorStep
              \/ UnlinkForget \/ UnlinkOrigin \/ UnlinkPurge
              \/ PunchClear \/ PunchSaveFails \/ PunchCut
           /\ Alone'
PROOF
  <1>1. ~(\E o \in Openers : OpenStat(o) \/ OpenReconcile(o)) /\ ~(\E v \in Vals : ForeignRewrite(v)) /\ ~Restart
    BY DEF Alone, OpenStat, OpenReconcile, ForeignRewrite, Restart
  <1>2. ASSUME NEW r \in Readers, ReadStep(r) PROVE UNCHANGED <<op, foreign, load>>
    BY <1>2 DEF ReadStep, ReadSample, Walk, BeginFill, FetchPeer, FetchOrigin, CompleteFill,
                FinishPiece, Probe, ReadServed, Reply, ghostVars
  <1>3. ASSUME MutatorStep \/ UnlinkForget \/ UnlinkOrigin \/ UnlinkPurge
               \/ PunchClear \/ PunchSaveFails \/ PunchCut
        PROVE  UNCHANGED <<op, foreign, load>>
    BY <1>3 DEF MutatorStep, WriteStat, EntryGone, WriteFill, WriteIdent, WriteGrow, CopyPwrite,
                CopyMark, WriteNote, Distrust, TruncateEntry, CreateWarm, UnlinkForget, UnlinkOrigin,
                UnlinkPurge, PunchClear, PunchSaveFails, PunchCut, ghostVars, threadVars
  <1>4. ASSUME NEW r \in Readers, NEW s \in load.reads, ReadBegin(r, s)
        PROVE  UNCHANGED <<op, foreign>> /\ load' = [load EXCEPT !.maxReads = @ - 1]
    BY <1>4 DEF ReadBegin
  <1>5. ASSUME \/ \E s \in load.writes, v \in Vals : WriteOrigin(s, v)
               \/ \E n \in load.sizes : TruncateOrigin(n)
               \/ CreateOrigin
        PROVE  UNCHANGED <<op, foreign>> /\ load' = [load EXCEPT !.maxMuts = @ - 1]
    BY <1>5 DEF WriteOrigin, TruncateOrigin, CreateOrigin, Mutation
  <1>6. load \in Workload
    BY DEF TypeInv, TypeOK, HistoryTypes
  <1>7. \/ UNCHANGED load
        \/ load' = [load EXCEPT !.maxReads = @ - 1]
        \/ load' = [load EXCEPT !.maxMuts = @ - 1]
        => UNCHANGED <<load.maxOpens, load.maxForeigns, load.maxRestarts>>
    BY <1>6 DEF Workload
  <1>8. UNCHANGED vars => UNCHANGED <<op, foreign, load>>
    BY DEF vars, threadVars, ghostVars
  <1>9. UNCHANGED <<op, foreign>> /\ UNCHANGED <<load.maxOpens, load.maxForeigns, load.maxRestarts>> => Alone'
    BY DEF Alone
  <1>10. Alone'
    BY <1>1, <1>2, <1>3, <1>4, <1>5, <1>7, <1>8, <1>9 DEF Next
  <1> QED  BY <1>1, <1>10 DEF Next

\* Where a step takes a reader, and the locks it takes and leaves.
LEMMA ReadPlaces ==
    ASSUME TypeInv, NEW r \in Readers, ReadStep(r)
    PROVE  /\ \A q \in Readers \ {r} : rd'[q] = rd[q]
           /\ UNCHANGED <<originVars, size, nbits, writes, id, dead, wr, op, cull, ul, foreign, load>>
           /\ rd[r].pc # "idle"
           /\ rd'[r].pc = "mark" => rd[r].pc = "land"
           /\ rd'[r].pc = "idle" => rd[r].pc \in {"sample", "pread", "fallback"}
           /\ cmu' = IF rd'[r].pc = "mark" THEN r ELSE IF rd[r].pc = "mark" THEN Free ELSE cmu
           /\ xfer' = IF rd'[r].pc = "idle" THEN xfer \ {r} ELSE xfer
           /\ rd'[r].pc = "mark" => cmu = Free
PROOF
  <1>1. rd \in [Readers -> Rd] /\ rd[r] \in Rd
    BY DEF TypeInv, TypeOK, ReaderTypes
  <1>2. UNCHANGED <<originVars, size, nbits, writes, id, dead, wr, op, cull, ul, foreign, load>>
    BY DEF ReadStep, ReadSample, Walk, BeginFill, FetchPeer, FetchOrigin, CompleteFill,
           FinishPiece, Probe, ReadServed, Reply, entryVars, ghostVars
  <1> DEFINE Goes == /\ \A q \in Readers \ {r} : rd'[q] = rd[q]
                     /\ rd[r].pc # "idle"
                     /\ rd'[r].pc = "mark" => rd[r].pc = "land"
                     /\ rd'[r].pc = "idle" => rd[r].pc \in {"sample", "pread", "fallback"}
                     /\ cmu' = IF rd'[r].pc = "mark" THEN r ELSE IF rd[r].pc = "mark" THEN Free ELSE cmu
                     /\ xfer' = IF rd'[r].pc = "idle" THEN xfer \ {r} ELSE xfer
                     /\ rd'[r].pc = "mark" => cmu = Free
  <1>3. NextPiece(r) => (\A q \in Readers \ {r} : rd'[q] = rd[q]) /\ rd'[r].pc = "walk"
    BY <1>1 DEF NextPiece, Rd
  <1>4. ReadEnd(r) => (\A q \in Readers \ {r} : rd'[q] = rd[q]) /\ rd'[r].pc = "idle" /\ xfer' = xfer \ {r}
    BY <1>1 DEF ReadEnd, IdleReader
  <1>5. ASSUME ReadSample(r) PROVE Goes
    <2>1. UNCHANGED cmu /\ rd[r].pc = "sample"
      BY <1>5 DEF ReadSample
    <2>2. CASE ReadEnd(r)
      BY <2>1, <2>2, <1>4
    <2>3. CASE ~ReadEnd(r)
      <3> DEFINE n == MinOf(rd[r].n, size - rd[r].off)
                 a == CoverStart(rd[r].off, n, size, PS)
                 b == CoverEnd(rd[r].off, n, size, PS)
                 pc == IF Cover(rd[r].off, n, size, PS) \subseteq bits THEN "serve" ELSE "walk"
      <3>1. rd' = [rd EXCEPT ![r].n = n, ![r].i = a, ![r].stop = b, ![r].pc = pc] /\ UNCHANGED xfer
        BY <1>5, <2>3 DEF ReadSample
      <3>2. pc \in {"serve", "walk"}
        OBVIOUS
      <3> HIDE DEF n, a, b, pc
      <3>3. rd'[r].pc = pc /\ \A q \in Readers \ {r} : rd'[q] = rd[q]
        BY <3>1, <1>1 DEF Rd
      <3> QED  BY <3>1, <3>2, <3>3, <2>1
    <2> QED  BY <2>2, <2>3
  <1>6. ASSUME Walk(r) PROVE Goes
    <2>1. /\ \/ NextPiece(r)
             \/ rd' = [rd EXCEPT ![r].pc = "serve"]
             \/ rd' = [rd EXCEPT ![r].pc = "claim", ![r].prefer = (writes # 0), ![r].retry = FALSE]
          /\ UNCHANGED <<xfer, cmu>> /\ rd[r].pc = "walk"
      BY <1>6 DEF Walk
    <2>2. rd'[r].pc \in {"walk", "serve", "claim"} /\ \A q \in Readers \ {r} : rd'[q] = rd[q]
      BY <2>1, <1>1, <1>3 DEF Rd
    <2> QED  BY <2>1, <2>2
  <1>7. ASSUME BeginFill(r) PROVE Goes
    <2>1. /\ NextPiece(r) \/ rd' = [rd EXCEPT ![r].pc = "fetch", ![r].flen = PLen(size, rd[r].i)]
          /\ UNCHANGED <<xfer, cmu>> /\ rd[r].pc = "claim"
      BY <1>7 DEF BeginFill
    <2>2. rd'[r].pc \in {"walk", "fetch"} /\ \A q \in Readers \ {r} : rd'[q] = rd[q]
      BY <2>1, <1>1, <1>3 DEF Rd
    <2> QED  BY <2>1, <2>2
  <1>8. ASSUME FetchPeer(r) \/ FetchOrigin(r) PROVE Goes
    <2> DEFINE b == Bytes(odata, Offset(rd[r].i, PS), rd[r].flen)
               h == hashes[rd[r].i]
    <2>1. /\ \/ rd' = [rd EXCEPT ![r].buf = h, ![r].pc = "land"]
             \/ rd' = [rd EXCEPT ![r].buf = b, ![r].pc = "land"]
             \/ rd' = [rd EXCEPT ![r].pc = "abort", ![r].ok = FALSE]
          /\ UNCHANGED <<xfer, cmu>> /\ rd[r].pc = "fetch"
      BY <1>8 DEF FetchPeer, FetchOrigin
    <2> HIDE DEF b, h
    <2>2. rd'[r].pc \in {"land", "abort"} /\ \A q \in Readers \ {r} : rd'[q] = rd[q]
      BY <2>1, <1>1 DEF Rd
    <2> QED  BY <2>1, <2>2
  <1>9. ASSUME CompleteFill(r) PROVE Goes
    <2>1. /\ UNCHANGED xfer /\ cmu = Free /\ rd[r].pc = "land"
          /\ \/ rd' = [rd EXCEPT ![r].pc = "probe"] /\ UNCHANGED cmu
             \/ (\E ok : rd' = [rd EXCEPT ![r].pc = "mark", ![r].ok = ok]) /\ cmu' = r
      BY <1>9 DEF CompleteFill
    <2>2. (\E ok : rd' = [rd EXCEPT ![r].pc = "mark", ![r].ok = ok])
             => rd'[r].pc = "mark" /\ \A q \in Readers \ {r} : rd'[q] = rd[q]
      BY <1>1 DEF Rd
    <2>3. rd' = [rd EXCEPT ![r].pc = "probe"] => rd'[r].pc = "probe" /\ \A q \in Readers \ {r} : rd'[q] = rd[q]
      BY <1>1 DEF Rd
    <2> QED  BY <2>1, <2>2, <2>3
  <1>10. ASSUME FinishPiece(r) PROVE Goes
    <2>1. /\ UNCHANGED xfer /\ rd[r].pc \in {"mark", "abort"}
          /\ cmu' = IF rd[r].pc = "mark" THEN Free ELSE cmu
          /\ rd' = [rd EXCEPT ![r].pc = IF rd[r].ok THEN "probe" ELSE "fallback"]
      BY <1>10 DEF FinishPiece
    <2>2. rd'[r].pc \in {"probe", "fallback"} /\ \A q \in Readers \ {r} : rd'[q] = rd[q]
      BY <2>1, <1>1 DEF Rd
    <2> QED  BY <2>1, <2>2
  <1>11. ASSUME Probe(r) PROVE Goes
    <2>1. /\ \/ NextPiece(r)
             \/ rd' = [rd EXCEPT ![r].pc = "claim", ![r].retry = TRUE, ![r].prefer = TRUE]
             \/ rd' = [rd EXCEPT ![r].pc = "fallback"]
          /\ UNCHANGED <<xfer, cmu>> /\ rd[r].pc = "probe"
      BY <1>11 DEF Probe
    <2>2. rd'[r].pc \in {"walk", "claim", "fallback"} /\ \A q \in Readers \ {r} : rd'[q] = rd[q]
      BY <2>1, <1>1, <1>3 DEF Rd
    <2> QED  BY <2>1, <2>2
  <1>12. ASSUME ReadServed(r) PROVE Goes
    <2>1. /\ UNCHANGED <<xfer, cmu>> /\ rd[r].pc = "serve"
          /\ rd' = [rd EXCEPT ![r].pc = IF ServeFromOrigin THEN "fallback" ELSE "pread"]
      BY <1>12 DEF ReadServed
    <2>2. rd'[r].pc \in {"fallback", "pread"} /\ \A q \in Readers \ {r} : rd'[q] = rd[q]
      BY <2>1, <1>1 DEF Rd
    <2> QED  BY <2>1, <2>2
  <1>13. ASSUME Reply(r) PROVE Goes
    BY <1>13, <1>4 DEF Reply
  <1> QED  BY <1>2, <1>5, <1>6, <1>7, <1>8, <1>9, <1>10, <1>11, <1>12, <1>13 DEF ReadStep

LEMMA MutatorLocks ==
    ASSUME TypeInv, MutatorStep
    PROVE  /\ UNCHANGED <<originVars, filling, dead, xfer, rd, op, cull, ul, ghostVars>>
           /\ \/ UNCHANGED cmu /\ wr.pc # "mark" /\ wr'.pc # "mark"
              \/ CopyPwrite /\ cmu = Free /\ cmu' = Mutator /\ wr.pc = "copy" /\ wr'.pc = "mark"
              \/ CopyMark /\ cmu' = Free /\ wr.pc = "mark" /\ wr'.pc # "mark"
           /\ wr.pc # "idle" /\ wr'.pc # "stat"
PROOF
  <1>1. wr \in Wr
    BY MutatorTyped DEF MutatorTypes
  <1>2. UNCHANGED <<originVars, filling, dead, xfer, rd, op, cull, ul, ghostVars>>
    BY DEF MutatorStep, WriteStat, EntryGone, WriteFill, WriteIdent, WriteGrow, CopyPwrite,
           CopyMark, WriteNote, Distrust, TruncateEntry, CreateWarm, entryVars
  <1>3. ASSUME CopyPwrite PROVE cmu = Free /\ cmu' = Mutator /\ wr.pc = "copy" /\ wr'.pc = "mark"
    BY <1>1, <1>3 DEF CopyPwrite, Wr
  <1>4. ASSUME CopyMark PROVE cmu' = Free /\ wr.pc = "mark"
    BY <1>4 DEF CopyMark
  <1>5. ASSUME \/ WriteStat \/ EntryGone \/ WriteFill \/ WriteIdent \/ WriteGrow \/ WriteNote
               \/ Distrust \/ TruncateEntry \/ CreateWarm
        PROVE  UNCHANGED cmu /\ wr.pc \notin {"mark", "copy", "idle"}
    BY <1>5 DEF WriteStat, EntryGone, WriteFill, WriteIdent, WriteGrow, WriteNote, Distrust,
                TruncateEntry, CreateWarm
  <1>6. wr' = IdleMutator => wr'.pc \notin {"mark", "stat"}
    BY DEF IdleMutator
  <1> QED  BY <1>2, <1>3, <1>4, <1>5, <1>6, MutatorPlaces DEF MutatorStep

LEMMA LocksStep ==
    ASSUME Base, [Next]_vars
    PROVE  Locks'
PROOF
  <1>0. TypeInv /\ Alone /\ Locks
    BY DEF Base
  <1>1. /\ cmu \in Readers \cup {Free, Mutator, Culler} /\ rd \in [Readers -> Rd] /\ xfer \subseteq Readers
        /\ Free \notin Readers /\ Mutator \notin Readers /\ Culler \notin Readers
        /\ Free # Mutator /\ Free # Culler /\ Mutator # Culler
    BY <1>0, ReaderAssumption DEF TypeInv, TypeOK, LockTypes, ReaderTypes, Free, Mutator, Culler
  <1>2. CASE UNCHANGED vars
    <2>1. UNCHANGED <<cmu, cull, wr, rd, xfer, dead, ul>>
      BY <1>2 DEF vars, threadVars, entryVars
    <2> QED  BY <2>1, <1>0 DEF Locks, Reading
  <1>3. ASSUME NEW r \in Readers, ReadStep(r) PROVE Locks'
    <2>1. /\ \A q \in Readers \ {r} : rd'[q] = rd[q]
          /\ UNCHANGED <<dead, wr, cull, ul>>
          /\ rd[r].pc # "idle"
          /\ rd'[r].pc = "mark" => rd[r].pc = "land"
          /\ cmu' = IF rd'[r].pc = "mark" THEN r ELSE IF rd[r].pc = "mark" THEN Free ELSE cmu
          /\ xfer' = IF rd'[r].pc = "idle" THEN xfer \ {r} ELSE xfer
          /\ rd'[r].pc = "mark" => cmu = Free
      BY <1>0, <1>3, ReadPlaces
    <2>2. (cmu' = Culler <=> cull'.pc = "cut") /\ (cmu' = Mutator <=> wr'.pc = "mark")
      BY <2>1, <1>0, <1>1 DEF Locks
    <2>3. ASSUME NEW q \in Readers
          PROVE  (cmu' = q <=> rd'[q].pc = "mark") /\ (Reading(q)' <=> q \in xfer')
      BY <2>1, <1>0, <1>1 DEF Locks, Reading
    <2>4. (dead' <=> ul' # "live") /\ (cull'.pc = "cut" => xfer' = {})
      BY <2>1, <1>0 DEF Locks
    <2> QED  BY <2>2, <2>3, <2>4 DEF Locks
  <1>4. ASSUME NEW r \in Readers, NEW s, ReadBegin(r, s) PROVE Locks'
    <2>1. /\ \A q \in Readers \ {r} : rd'[q] = rd[q]
          /\ rd[r].pc = "idle" /\ rd'[r].pc = "sample" /\ cmu = Free /\ xfer' = xfer \cup {r}
          /\ UNCHANGED <<dead, wr, cull, ul, cmu>>
      BY <1>1, <1>4 DEF ReadBegin, IdleReader, entryVars
    <2> QED  BY <2>1, <1>0, <1>1 DEF Locks, Reading
  <1>5. ASSUME \/ \E s \in load.writes, v \in Vals : WriteOrigin(s, v)
               \/ \E n \in load.sizes : TruncateOrigin(n)
               \/ CreateOrigin
        PROVE  Locks'
    <2>1. UNCHANGED <<cmu, cull, rd, xfer, dead, ul>> /\ wr.pc = "idle"
      BY <1>5 DEF WriteOrigin, TruncateOrigin, CreateOrigin, Mutation
    <2>2. wr'.pc \in {"stat", "distrust", "trunc"}
      <3>1. ASSUME NEW sp, NEW v, WriteOrigin(sp, v) PROVE wr'.pc \in {"stat", "distrust"}
        BY <3>1 DEF WriteOrigin, Begun, IdleMutator
      <3>2. ASSUME NEW n, TruncateOrigin(n) PROVE wr'.pc = "trunc"
        BY <3>2 DEF TruncateOrigin, Begun, IdleMutator
      <3>3. CreateOrigin => wr'.pc = "distrust"
        BY DEF CreateOrigin, Begun, IdleMutator
      <3> QED  BY <1>5, <3>1, <3>2, <3>3
    <2> QED  BY <2>1, <2>2, <1>0 DEF Locks, Reading
  <1>6. ASSUME MutatorStep PROVE Locks'
    <2>1. UNCHANGED <<dead, xfer, rd, cull, ul>>
      BY <1>6, <1>0, MutatorLocks
    <2>2. \/ UNCHANGED cmu /\ wr.pc # "mark" /\ wr'.pc # "mark"
          \/ cmu = Free /\ cmu' = Mutator /\ wr.pc = "copy" /\ wr'.pc = "mark"
          \/ cmu' = Free /\ wr.pc = "mark" /\ wr'.pc # "mark"
      BY <1>6, <1>0, MutatorLocks
    <2> QED  BY <2>1, <2>2, <1>0, <1>1 DEF Locks, Reading
  <1>7. ASSUME UnlinkForget \/ UnlinkOrigin \/ UnlinkPurge PROVE Locks'
    <2>1. UNCHANGED <<xfer, cmu, rd, wr, cull>> /\ (dead' <=> ul' # "live")
      BY <1>7, <1>0 DEF UnlinkForget, UnlinkOrigin, UnlinkPurge, entryVars, Locks
    <2> QED  BY <2>1, <1>0 DEF Locks, Reading
  <1>8. ASSUME PunchClear \/ PunchSaveFails \/ PunchCut PROVE Locks'
    <2>1. /\ UNCHANGED <<xfer, rd, wr, dead, ul>>
          /\ \/ UNCHANGED <<cmu, cull>>
             \/ cmu = Free /\ xfer = {} /\ cmu' = Culler /\ cull'.pc = "cut"
             \/ cull.pc = "cut" /\ cmu' = Free /\ cull'.pc = "idle"
      BY <1>8 DEF PunchClear, PunchSaveFails, PunchCut, Punchable, xferBusy, threadVars, entryVars
    <2> QED  BY <2>1, <1>0, <1>1 DEF Locks, Reading
  <1> QED  BY <1>0, <1>2, <1>3, <1>4, <1>5, <1>6, <1>7, <1>8, AloneStep

LEMMA PunchedStep ==
    ASSUME Base, [Next]_vars
    PROVE  PunchUnmarked'
PROOF
  <1>0. TypeInv /\ Alone /\ PunchUnmarked
    BY DEF Base
  <1>1. ASSUME UNCHANGED cull, FileMuFree \/ bits' \subseteq bits
        PROVE  PunchUnmarked'
    BY <1>0, <1>1 DEF PunchUnmarked, FileMuFree
  <1>2. UNCHANGED vars => UNCHANGED <<cull, bits>>
    BY DEF vars
  <1>3. ASSUME NEW r \in Readers, ReadStep(r)
        PROVE  UNCHANGED cull /\ (FileMuFree \/ bits' \subseteq bits)
    BY <1>3 DEF ReadStep, ReadSample, Walk, BeginFill, FetchPeer, FetchOrigin, CompleteFill,
                FinishPiece, Probe, ReadServed, Reply
  <1>4. ASSUME \/ \E r \in Readers : \E s \in load.reads : ReadBegin(r, s)
               \/ \E s \in load.writes, v \in Vals : WriteOrigin(s, v)
               \/ \E n \in load.sizes : TruncateOrigin(n)
               \/ CreateOrigin
        PROVE  UNCHANGED <<cull, bits>>
    BY <1>4 DEF ReadBegin, WriteOrigin, TruncateOrigin, CreateOrigin, Mutation
  <1>5. ASSUME MutatorStep
        PROVE  UNCHANGED cull /\ (FileMuFree \/ bits' \subseteq bits)
    BY <1>5 DEF MutatorStep, WriteStat, EntryGone, WriteFill, WriteIdent, WriteGrow, CopyPwrite,
                CopyMark, WriteNote, Distrust, TruncateEntry, CreateWarm, ReconcileLocks
  <1>6. ASSUME UnlinkForget \/ UnlinkOrigin \/ UnlinkPurge
        PROVE  UNCHANGED cull /\ bits' \subseteq bits
    BY <1>6 DEF UnlinkForget, UnlinkOrigin, UnlinkPurge
  <1>7. ASSUME PunchClear PROVE PunchUnmarked'
    BY <1>7 DEF PunchClear, PunchUnmarked
  <1>8. PunchSaveFails => UNCHANGED <<cull, bits>>
    BY DEF PunchSaveFails
  <1>9. PunchCut => PunchUnmarked'
    BY DEF PunchCut, PunchUnmarked
  <1> QED  BY <1>0, <1>1, <1>2, <1>3, <1>4, <1>5, <1>6, <1>7, <1>8, <1>9, AloneStep

LEMMA BaseStep ==
    ASSUME Base, [Next]_vars
    PROVE  Base'
PROOF
  <1>1. TypeInv /\ DeadInv /\ FillClaims /\ Alone
    BY DEF Base
  <1> QED  BY <1>1, StepTypes, StepDead, StepClaims, AloneStep, LocksStep, PunchedStep DEF Base

LEMMA BaseInit ==
    ASSUME OneClient, Init
    PROVE  Base
PROOF
  <1>1. TypeInv /\ DeadInv /\ FillClaims
    BY InitTypes, InitDead DEF Init, FillClaims, Filling, IdleReader
  <1>2. Alone
    BY DEF Init, Alone, OneClient, IdleOpener
  <1>3. Locks
    BY ReaderAssumption DEF Init, Locks, Reading, IdleReader, IdleMutator, Free, Mutator, Culler
  <1>4. PunchUnmarked
    BY DEF Init, PunchUnmarked
  <1> QED  BY <1>1, <1>2, <1>3, <1>4 DEF Base

-----------------------------------------------------------------------------
(* What steps leave alone *)

\* A byte below the entry's end that was fit stays so.
FitGrows == \A u \in Units : u < size => \A x : Fit(u, x) => Fit(u, x)'

\* A step that is neither the mutator's nor the origin's.
LEMMA FitKept ==
    ASSUME UNCHANGED <<originVars, wr>>,
           \A q \in Readers : Reading(q)' => Reading(q) /\ seen'[q] = seen[q] /\ floor'[q] = floor[q]
    PROVE  \A u \in Units : \A x : Fit(u, x) => Fit(u, x)'
PROOF
  <1> TAKE u \in Units
  <1> TAKE x
  <1>1. (Pending(u)' <=> Pending(u)) /\ (Cutting' <=> Cutting) /\ Held(u)' = Held(u)
    BY DEF Pending, Cutting, Held
  <1>2. Exact(u, x) => Exact(u, x)'
    BY <1>1 DEF Exact
  <1>3. Fresh(u, x) => Fresh(u, x)'
    BY <1>1 DEF Fresh
  <1>4. Returnable(u, x) => Returnable(u, x)'
    BY DEF Returnable
  <1> QED  BY <1>2, <1>3, <1>4 DEF Fit

LEMMA HashedBelow ==
    ASSUME TypeInv, HashesLong, NEW u \in Units, Hashed(u)
    PROVE  u < size
PROOF
  <1>1. u \div PS \in Pieces
    BY UnitPlace
  <1>2. hashes[u \div PS] \in Seq(Val) /\ size \in 0 .. MaxSize
    BY <1>1 DEF TypeInv, TypeOK, EntryTypes
  <1>3. At(u) \in 1 .. Len(hashes[u \div PS])
    BY <1>2 DEF Hashed
  <1>4. hashes[u \div PS] # NoHash
    BY <1>3, <1>2 DEF NoHash
  <1>5. At(u) <= PLen(size, u \div PS)
    BY <1>1, <1>3, <1>4 DEF HashesLong
  <1> QED  BY <1>5, <1>2, UnitBelow

LEMMA CarriedBelow ==
    ASSUME TypeInv, NEW r \in Readers, ClaimStands(r), NEW u \in Units, Carries(r, u)
    PROVE  u < size
PROOF
  <1>1. rd[r].buf \in Seq(Val) /\ size \in 0 .. MaxSize
    BY DEF TypeInv, TypeOK, EntryTypes, ReaderTypes, Rd
  <1>2. At(u) <= Len(rd[r].buf) /\ u \div PS = rd[r].i
    BY <1>1 DEF Carries
  <1>3. At(u) <= PLen(size, u \div PS)
    BY <1>2 DEF ClaimStands
  <1> QED  BY <1>1, <1>3, UnitBelow

\* A step that adds no mark, changes no digest and no byte still marked.
LEMMA StoreStands ==
    ASSUME TypeInv, Store, FitGrows, UNCHANGED <<size, hashes>>, Marked' \subseteq Marked,
           \A u \in Units : u \div PS \in Marked' /\ u < size =>
               /\ data'[u] = data[u] /\ (u < dlen => u < dlen')
               /\ Overwritten(u) => Overwritten(u)'
    PROVE  Store'
PROOF
  <1> USE DEF Store
  <1>1. MarksFit'
    <2> SUFFICES ASSUME NEW u \in Units, u \div PS \in Marked', u < size
                 PROVE  u < dlen' /\ Fit(u, data[u])'
      BY DEF MarksFit
    <2>1. u < dlen' /\ data'[u] = data[u] /\ Fit(u, data[u])
      BY DEF MarksFit
    <2>2. \A x : Fit(u, x) => Fit(u, x)'
      BY DEF FitGrows
    <2>3. Fit(u, data[u]) => \A x : x = data'[u] => Fit(u, x)'
      BY <2>1, <2>2
    <2> QED  BY <2>1, <2>3
  <1>2. MarksIn' /\ HashesLong'
    BY DEF MarksIn, HashesLong
  <1>3. HashesFit'
    <2> SUFFICES ASSUME NEW u \in Units, Hashed(u)' PROVE Fit(u, Hash(u))'
      BY DEF HashesFit
    <2>1. Hashed(u) /\ Hash(u)' = Hash(u)
      BY DEF Hashed, Hash, At
    <2>2. u < size /\ Fit(u, Hash(u))
      BY <2>1, HashedBelow DEF HashesFit
    <2>3. \A x : Fit(u, x) => Fit(u, x)'
      BY <2>2 DEF FitGrows
    <2>4. Fit(u, Hash(u)) => \A x : x = Hash(u)' => Fit(u, x)'
      BY <2>1, <2>3
    <2> QED  BY <2>2, <2>4
  <1>4. HashesHeld'
    <2> SUFFICES ASSUME NEW u \in Units, u \div PS \in Marked', Hashed(u)'
                 PROVE  data'[u] = Hash(u)' \/ Overwritten(u)'
      BY DEF HashesHeld
    <2>1. Hashed(u) /\ Hash(u)' = Hash(u)
      BY DEF Hashed, Hash, At
    <2>2. u < size
      BY <2>1, HashedBelow
    <2> QED  BY <2>1, <2>2 DEF HashesHeld
  <1> QED  BY <1>1, <1>2, <1>3, <1>4

LEMMA StoreFrame ==
    ASSUME TypeInv, Store, FitGrows, UNCHANGED <<data, dlen, size, bits, hashes, cull>>,
           \A u \in Units : Overwritten(u) => Overwritten(u)'
    PROVE  Store'
PROOF
  <1>1. Marked' = Marked
    BY DEF Marked
  <1> QED  BY <1>1, StoreStands

LEMMA StoreEmptied ==
    ASSUME bits' = {}, hashes' = NoHashes, cull'.pc # "cut"
    PROVE  Store'
PROOF
  <1>1. Marked' = {}
    BY DEF Marked
  <1>2. \A u \in Units : ~Hashed(u)'
    BY UnitPlace DEF Hashed, NoHashes, NoHash
  <1>3. HashesLong'
    BY DEF HashesLong, NoHashes
  <1> QED  BY <1>1, <1>2, <1>3 DEF Store, MarksFit, MarksIn, HashesFit, HashesHeld

\* The fill of a reader that another thread's step passes by.
LEMMA FillKept ==
    ASSUME TypeInv, NEW r \in Readers, FillSound(r), FitGrows, rd'[r] = rd[r], UNCHANGED <<size, writes>>,
           Filling(r) => filling'[rd[r].i] = filling[rd[r].i],
           bits \subseteq bits',
           rd[r].pc = "mark" => rd[r].i \notin bits' /\ UNCHANGED <<data, dlen>>
    PROVE  FillSound(r)'
PROOF
  <1>1. (Filling(r)' <=> Filling(r)) /\ \A u \in Units : Carries(r, u)' <=> Carries(r, u)
    BY DEF Filling, Carries, At
  <1>2. Current(r)' => Current(r) /\ ClaimStands(r)
    BY DEF Current, ClaimStands, Filling
  <1>3. FillFits(r)'
    <2> SUFFICES ASSUME Current(r)', NEW u \in Units, Carries(r, u)'
                 PROVE  Fit(u, rd[r].buf[At(u)])'
      BY DEF FillFits, At
    <2>1. Current(r) /\ Carries(r, u) /\ u < size
      BY <1>1, <1>2, CarriedBelow
    <2>2. Fit(u, rd[r].buf[At(u)])
      BY <2>1 DEF FillSound, FillFits
    <2>3. \A x : Fit(u, x) => Fit(u, x)'
      BY <2>1 DEF FitGrows
    <2>4. Fit(u, rd[r].buf[At(u)]) => \A x : x = (rd[r].buf[At(u)])' => Fit(u, x)'
      BY <2>3 DEF At
    <2> QED  BY <2>2, <2>4
  <1>4. FillLong(r)'
    BY <1>1 DEF FillSound, FillLong, Filling
  <1>5. FillIn(r)'
    BY <1>1 DEF FillSound, FillIn, At
  <1>6. AbortFails(r)'
    BY DEF FillSound, AbortFails
  <1> QED  BY <1>3, <1>4, <1>5, <1>6 DEF FillSound

LEMMA NotFillingSound ==
    ASSUME NEW r \in Readers, rd'[r].pc \notin {"fetch", "land", "mark", "abort"}
    PROVE  FillSound(r)'
  BY DEF FillSound, FillFits, FillLong, FillIn, AbortFails, Current, Filling

\* A new write generation outdates every fill.
LEMMA FillsOutdated ==
    ASSUME TypeInv, Fills, writes' = writes + 1, UNCHANGED <<rd, filling>>,
           \/ \A r \in Readers : rd[r].pc # "mark"
           \/ bits' = {} /\ UNCHANGED <<data, dlen>>
    PROVE  Fills'
PROOF
  <1>1. filling \in [Pieces -> Nat \cup {NoClaim}] /\ writes \in Nat
    BY DEF TypeInv, TypeOK, ClaimTypes, EntryTypes
  <1>2. FillsOld'
    BY <1>1 DEF Fills, FillsOld, NoClaim
  <1>3. ASSUME NEW r \in Readers
        PROVE  FillSound(r)'
    <2>1. Filling(r) => rd[r].i \in Pieces
      BY Constants DEF TypeInv, TypeOK, ReaderTypes, ReadersSteady, ReaderSteady, Walks, AtPiece, Rd, Filling
    <2>2. Filling(r) => filling'[rd[r].i] # writes'
      BY <2>1, <1>1 DEF Fills, FillsOld, NoClaim
    <2>3. ~Current(r)'
      BY <2>2 DEF Current, ClaimStands, Filling
    <2>4. FillSound(r)
      BY DEF Fills
    <2>5. FillLong(r)'
      BY <2>2, <2>4 DEF FillSound, FillLong, Filling
    <2>6. FillIn(r)'
      BY <2>4 DEF FillSound, FillIn, Carries, At
    <2> QED  BY <2>3, <2>4, <2>5, <2>6 DEF FillSound, FillFits, AbortFails
  <1> QED  BY <1>2, <1>3 DEF Fills

\* No reader is in a fill while the culler cuts.
LEMMA FillsAbsent ==
    ASSUME FillsOld, UNCHANGED <<rd, filling, writes>>, \A r \in Readers : ~Reading(r)
    PROVE  Fills'
PROOF
  <1>1. \A r \in Readers : FillSound(r)'
    BY NotFillingSound DEF Reading
  <1> QED  BY <1>1 DEF Fills, FillsOld

LEMMA ReaderAtPiece ==
    ASSUME TypeInv, NEW r \in Readers, Filling(r)
    PROVE  rd[r].i \in Pieces
  BY Constants DEF TypeInv, TypeOK, ReaderTypes, ReadersSteady, ReaderSteady, Walks, AtPiece, Rd, Filling

\* The call in progress, seen from the other threads.
LEMMA CallKept ==
    ASSUME Call, UNCHANGED <<originVars, wr, size>>, wr.pc = "mark" => UNCHANGED <<data, dlen>>,
           \A q \in Readers : Reading(q)' => Reading(q) /\ seen'[q] = seen[q]
    PROVE  Call'
PROOF
  <1> USE DEF Call
  <1>1. WriteKnown' /\ WriteSized' /\ IdleBefore'
    BY DEF WriteKnown, WriteSized, IdleBefore, Writing, Span
  <1>2. WriteLanded'
    BY DEF WriteLanded, Span
  <1>3. OriginSeen'
    BY DEF OriginSeen
  <1> QED  BY <1>1, <1>2, <1>3

-----------------------------------------------------------------------------
(* Readers: Kept is kept *)

\* What every step of a reader leaves alone.
LEMMA ReadAside ==
    ASSUME Base, ~dead, Kept, NEW r \in Readers, ReadStep(r)
    PROVE  /\ TypeInv /\ Store /\ Fills /\ Call /\ ~dead'
           /\ \A q \in Readers \ {r} : rd'[q] = rd[q]
           /\ UNCHANGED <<originVars, size, writes, wr, cull>>
           /\ \A q \in Readers : Reading(q)' => Reading(q) /\ seen'[q] = seen[q] /\ floor'[q] = floor[q]
           /\ FitGrows
PROOF
  <1>1. TypeInv /\ Store /\ Fills /\ Call
    BY DEF Base, Kept
  <1>2. /\ \A q \in Readers \ {r} : rd'[q] = rd[q]
        /\ UNCHANGED <<originVars, size, writes, wr, cull, dead>>
        /\ rd[r].pc # "idle"
    BY <1>1, ReadPlaces
  <1>3. UNCHANGED <<seen, floor>> \/ ReadEnd(r)
    BY DEF ReadStep, ReadSample, Walk, BeginFill, FetchPeer, FetchOrigin, CompleteFill,
           FinishPiece, Probe, ReadServed, Reply
  <1>4. ReadEnd(r) => /\ rd'[r].pc = "idle"
                      /\ \A q \in Readers \ {r} : seen'[q] = seen[q] /\ floor'[q] = floor[q]
    BY <1>1 DEF ReadEnd, IdleReader, TypeInv, TypeOK, ReaderTypes, HistoryTypes
  <1>5. \A q \in Readers : Reading(q)' => Reading(q) /\ seen'[q] = seen[q] /\ floor'[q] = floor[q]
    BY <1>2, <1>3, <1>4 DEF Reading
  <1>6. FitGrows
    BY <1>2, <1>5, FitKept DEF FitGrows
  <1> QED  BY <1>1, <1>2, <1>5, <1>6

LEMMA KeptReadOther ==
    ASSUME Base, ~dead, Kept, NEW r \in Readers,
           ReadSample(r) \/ Walk(r) \/ Probe(r) \/ ReadServed(r) \/ Reply(r)
    PROVE  Kept'
PROOF
  <1>1. ReadStep(r)
    BY DEF ReadStep
  <1>2. /\ TypeInv /\ Store /\ Fills /\ Call
        /\ \A q \in Readers \ {r} : rd'[q] = rd[q]
        /\ UNCHANGED <<originVars, size, writes, wr, cull>>
        /\ \A q \in Readers : Reading(q)' => Reading(q) /\ seen'[q] = seen[q] /\ floor'[q] = floor[q]
        /\ FitGrows
    BY <1>1, ReadAside
  <1>3. UNCHANGED <<cacheVars, entryVars>>
    BY DEF ReadSample, Walk, Probe, ReadServed, Reply
  <1>4. Store'
    BY <1>2, <1>3, StoreFrame DEF Overwritten, Span
  <1>5. rd'[r].pc \notin {"fetch", "land", "mark", "abort"}
    BY <1>2, ReaderOutside
  <1>6. ASSUME NEW q \in Readers PROVE FillSound(q)'
    <2>1. CASE q = r
      BY <2>1, <1>5, NotFillingSound
    <2>2. CASE q # r
      BY <2>2, <1>2, <1>3, FillKept DEF Fills, FillSound, FillIn
    <2> QED  BY <2>1, <2>2
  <1>7. Fills'
    BY <1>2, <1>3, <1>6 DEF Fills, FillsOld
  <1>8. Call'
    BY <1>2, <1>3, CallKept
  <1> QED  BY <1>4, <1>7, <1>8 DEF Kept

LEMMA KeptReadBegin ==
    ASSUME Base, ~dead, Kept, NEW r \in Readers, NEW s, ReadBegin(r, s)
    PROVE  Kept'
PROOF
  <1>1. TypeInv /\ Store /\ Fills /\ Call
    BY DEF Base, Kept
  <1>2. /\ UNCHANGED <<originVars, cacheVars, entryVars, cmu, wr, op, cull, ul, foreign>>
        /\ rd[r].pc = "idle"
    BY DEF ReadBegin
  <1>3. /\ rd'[r].pc = "sample" /\ \A q \in Readers \ {r} : rd'[q] = rd[q]
        /\ seen'[r] = [u \in Units |-> Held(u) \cup wr.before[u]]
        /\ \A q \in Readers \ {r} : seen'[q] = seen[q] /\ floor'[q] = floor[q]
    BY <1>1 DEF ReadBegin, IdleReader, TypeInv, TypeOK, ReaderTypes, HistoryTypes
  <1>4. FitGrows
    <2> SUFFICES ASSUME NEW u \in Units, NEW x, Fit(u, x) PROVE Fit(u, x)'
      BY DEF FitGrows
    <2>1. (Pending(u)' <=> Pending(u)) /\ (Cutting' <=> Cutting) /\ Held(u)' = Held(u)
      BY <1>2 DEF Pending, Cutting, Held
    <2>2. Exact(u, x)' /\ Fresh(u, x)'
      BY <2>1, <1>2 DEF Fit, Exact, Fresh
    <2>3. ASSUME NEW q \in Readers, Reading(q)', u < floor'[q] PROVE x \in seen'[q][u]
      <3>1. CASE q = r
        BY <3>1, <1>3 DEF Fit, Fresh
      <3>2. CASE q # r
        BY <3>2, <2>3, <1>3 DEF Fit, Returnable, Reading
      <3> QED  BY <3>1, <3>2
    <2> QED  BY <2>2, <2>3 DEF Fit, Returnable
  <1>5. Store'
    BY <1>1, <1>2, <1>4, StoreFrame DEF Overwritten, Span
  <1>6. ASSUME NEW q \in Readers PROVE FillSound(q)'
    <2>1. CASE q = r
      BY <2>1, <1>3, NotFillingSound
    <2>2. CASE q # r
      BY <2>2, <1>1, <1>2, <1>3, <1>4, FillKept DEF Fills, FillSound, FillIn
    <2> QED  BY <2>1, <2>2
  <1>7. Fills'
    BY <1>1, <1>2, <1>6 DEF Fills, FillsOld
  <1>8. OriginSeen'
    <2> SUFFICES ASSUME NEW q \in Readers, Reading(q)', NEW u \in Units, u < osize'
                 PROVE  odata'[u] \in seen'[q][u]
      BY DEF OriginSeen
    <2>1. CASE q = r
      BY <2>1, <1>2, <1>3 DEF Held
    <2>2. CASE q # r
      BY <2>2, <1>1, <1>2, <1>3 DEF Call, OriginSeen, Reading
    <2> QED  BY <2>1, <2>2
  <1>9. Call'
    BY <1>1, <1>2, <1>8 DEF Call, WriteKnown, WriteSized, IdleBefore, WriteLanded, Writing, Span
  <1> QED  BY <1>5, <1>7, <1>9 DEF Kept

LEMMA KeptBeginFill ==
    ASSUME Base, ~dead, Kept, NEW r \in Readers, BeginFill(r)
    PROVE  Kept'
PROOF
  <1> DEFINE i == rd[r].i
  <1>1. ReadStep(r)
    BY DEF ReadStep
  <1>2. /\ TypeInv /\ Store /\ Fills /\ Call
        /\ \A q \in Readers \ {r} : rd'[q] = rd[q]
        /\ UNCHANGED <<originVars, size, writes, wr, cull>>
        /\ \A q \in Readers : Reading(q)' => Reading(q) /\ seen'[q] = seen[q] /\ floor'[q] = floor[q]
        /\ FitGrows
    BY <1>1, ReadAside
  <1>3. UNCHANGED <<cacheVars, bits, hashes>> /\ rd[r].pc = "claim"
    BY DEF BeginFill
  <1>4. Store'
    BY <1>2, <1>3, StoreFrame DEF Overwritten, Span
  <1>5. Call'
    BY <1>2, <1>3, CallKept
  <1>6. CASE NextPiece(r) /\ UNCHANGED filling
    <2>1. rd'[r].pc = "walk"
      BY <1>2, <1>6 DEF NextPiece, TypeInv, TypeOK, ReaderTypes, Rd
    <2>2. ASSUME NEW q \in Readers PROVE FillSound(q)'
      <3>1. CASE q = r
        BY <3>1, <2>1, NotFillingSound
      <3>2. CASE q # r
        BY <3>2, <1>2, <1>3, <1>6, FillKept DEF Fills, FillSound, FillIn
      <3> QED  BY <3>1, <3>2
    <2>3. Fills'
      BY <1>2, <1>6, <2>2 DEF Fills, FillsOld
    <2> QED  BY <1>4, <1>5, <2>3 DEF Kept
  <1>7. CASE ~(NextPiece(r) /\ UNCHANGED filling)
    <2>1. /\ Unclaimed(i) /\ PLen(size, i) > 0
          /\ filling' = [filling EXCEPT ![i] = writes]
          /\ rd' = [rd EXCEPT ![r].pc = "fetch", ![r].flen = PLen(size, i)]
      BY <1>7 DEF BeginFill
    <2>2. /\ filling \in [Pieces -> Nat \cup {NoClaim}] /\ writes \in Nat /\ i \in Pieces /\ size \in 0 .. MaxSize
      <3>1. i \in Pieces
        BY <1>2, <1>3, Constants DEF TypeInv, TypeOK, ReaderTypes, ReadersSteady, ReaderSteady, Walks, AtPiece, Rd
      <3> QED  BY <1>2, <3>1 DEF TypeInv, TypeOK, ClaimTypes, EntryTypes
    <2>3. rd'[r].pc = "fetch" /\ rd'[r].i = i /\ rd'[r].flen = PLen(size, i)
      BY <2>1, <1>2 DEF TypeInv, TypeOK, ReaderTypes, Rd
    <2>4. PLen(size, i) \in Nat
      <3>1. i \in Nat /\ PS \in Nat
        BY <2>2, Constants, Sizes
      <3> QED  BY <2>2, <3>1, PieceLength
    <2>5. ASSUME NEW q \in Readers PROVE FillSound(q)'
      <3>1. CASE q = r
        <4>1. FillLong(r)'
          BY <2>1, <2>3, <2>4, <1>2 DEF FillLong
        <4> QED  BY <3>1, <4>1, <2>3 DEF FillSound, FillFits, FillIn, AbortFails, Current
      <3>2. CASE q # r
        <4>1. Filling(q) => rd[q].i # i
          BY <2>1, <2>2 DEF Base, FillClaims, Unclaimed
        <4>2. Filling(q) => filling'[rd[q].i] = filling[rd[q].i]
          BY <4>1, <2>1, <2>2, <1>2, ReaderAtPiece
        <4> QED  BY <3>2, <4>2, <1>2, <1>3, FillKept DEF Fills, FillSound, FillIn
      <3> QED  BY <3>1, <3>2
    <2>6. FillsOld'
      BY <2>1, <2>2, <1>2 DEF Fills, FillsOld
    <2> QED  BY <1>4, <1>5, <2>5, <2>6 DEF Kept, Fills
  <1> QED  BY <1>6, <1>7

LEMMA KeptFetch ==
    ASSUME Base, ~dead, Kept, NEW r \in Readers, FetchPeer(r) \/ FetchOrigin(r)
    PROVE  Kept'
PROOF
  <1> DEFINE i == rd[r].i
             h == hashes[i]
             off == Offset(i, PS)
             b == Bytes(odata, off, rd[r].flen)
  <1>1. ReadStep(r)
    BY DEF ReadStep
  <1>2. /\ TypeInv /\ Store /\ Fills /\ Call
        /\ \A q \in Readers \ {r} : rd'[q] = rd[q]
        /\ UNCHANGED <<originVars, size, writes, wr, cull>>
        /\ \A q \in Readers : Reading(q)' => Reading(q) /\ seen'[q] = seen[q] /\ floor'[q] = floor[q]
        /\ FitGrows
    BY <1>1, ReadAside
  <1>3. UNCHANGED <<cacheVars, entryVars>> /\ rd[r].pc = "fetch"
    BY DEF FetchPeer, FetchOrigin
  <1>4. /\ rd[r] \in Rd /\ rd \in [Readers -> Rd] /\ i \in Pieces /\ Filling(r)
        /\ hashes \in [Pieces -> Seq(Val)] /\ rd[r].flen \in Nat
    BY <1>2, <1>3, ReaderAtPiece DEF TypeInv, TypeOK, ReaderTypes, EntryTypes, Filling, Rd
  <1>5. Store' /\ Call'
    BY <1>2, <1>3, StoreFrame, CallKept DEF Overwritten, Span
  <1>6. FillLong(r)
    BY <1>2 DEF Fills, FillSound
  <1>7. ASSUME NEW x \in Seq(Val), rd' = [rd EXCEPT ![r].buf = x, ![r].pc = "land"], Len(x) = rd[r].flen,
               \A u \in Units : u \div PS = i /\ At(u) \in DOMAIN x => Fit(u, x[At(u)])
        PROVE  FillSound(r)'
    <2>1. rd'[r].buf = x /\ rd'[r].pc = "land" /\ rd'[r].i = i /\ rd'[r].flen = rd[r].flen
      BY <1>4, <1>7 DEF Rd
    <2>2. FillLong(r)'
      BY <2>1, <1>3, <1>4, <1>6, <1>7 DEF FillLong, Filling
    <2>3. ASSUME NEW u \in Units, u \div PS = i, At(u) \in DOMAIN x
          PROVE  Fit(u, x[At(u)])'
      <3>1. Fit(u, x[At(u)])
        BY <2>3, <1>7
      <3>2. \A y : Fit(u, y) => Fit(u, y)'
        BY <1>2, FitKept
      <3>3. Fit(u, x[At(u)]) => \A y : y = x[At(u)]' => Fit(u, y)'
        BY <3>2 DEF At
      <3> QED  BY <3>1, <3>3
    <2>4. FillFits(r)'
      BY <2>1, <2>3 DEF FillFits, Carries, At
    <2> QED  BY <2>1, <2>2, <2>4 DEF FillSound, FillIn, AbortFails
  <1>8. ASSUME FetchPeer(r) PROVE FillSound(r)'
    <2>1. rd' = [rd EXCEPT ![r].buf = h, ![r].pc = "land"] /\ h \in Seq(Val) /\ Len(h) = rd[r].flen
      BY <1>4, <1>8 DEF FetchPeer
    <2>2. \A u \in Units : u \div PS = i /\ At(u) \in DOMAIN h => Fit(u, h[At(u)])
      BY <1>2 DEF Store, HashesFit, Hashed, Hash
    <2> QED  BY <2>1, <2>2, <1>7
  <1>9. ASSUME FetchOrigin(r), rd' = [rd EXCEPT ![r].buf = b, ![r].pc = "land"]
        PROVE  FillSound(r)'
    <2>1. osize >= off + rd[r].flen \/ rd' = [rd EXCEPT ![r].pc = "abort", ![r].ok = FALSE]
      BY <1>9 DEF FetchOrigin
    <2>2. osize >= off + rd[r].flen
      <3>1. rd'[r].pc = "land"
        BY <1>4, <1>9 DEF Rd
      <3>2. rd' = [rd EXCEPT ![r].pc = "abort", ![r].ok = FALSE] => rd'[r].pc = "abort"
        BY <1>4 DEF Rd
      <3> QED  BY <2>1, <3>1, <3>2
    <2>3. /\ odata \in [Units -> Val] /\ osize \in 0 .. MaxSize
          /\ off \in Nat /\ i \in Nat /\ MaxSize \in Nat
      BY <1>2, <1>4, Constants, Sizes DEF TypeInv, TypeOK, OriginTypes, Offset
    <2>4. b \in Seq(Val) /\ Len(b) = rd[r].flen
      <3>1. \A k \in 1 .. rd[r].flen : odata[off + k - 1] \in Val
        <4> TAKE k \in 1 .. rd[r].flen
        <4> HIDE DEF off, i
        <4>1. off + k - 1 \in Nat /\ off + k - 1 < MaxSize
          BY <2>2, <2>3, <1>4
        <4>2. off + k - 1 \in Units
          BY <4>1, <2>3 DEF Units
        <4> QED  BY <4>2, <2>3
      <3>2. b = [k \in 1 .. rd[r].flen |-> odata[off + k - 1]]
        BY DEF Bytes
      <3> HIDE DEF b, off
      <3> QED  BY <3>1, <3>2, <1>4
    <2>5. ASSUME NEW u \in Units, u \div PS = i, At(u) \in DOMAIN b
          PROVE  Fit(u, b[At(u)])
      <3>1. off + At(u) - 1 = u /\ At(u) \in 1 .. PS
        BY <2>5, UnitPlace
      <3>2. At(u) \in 1 .. rd[r].flen
        BY <2>4, <2>5
      <3>3. b[At(u)] = odata[u]
        BY <3>1, <3>2 DEF Bytes
      <3>4. u < osize
        <4> HIDE DEF off
        <4> QED  BY <3>1, <3>2, <2>2, <2>3, <1>4, Sizes
      <3>5. Returnable(u, odata[u])
        BY <3>4, <1>2 DEF Call, OriginSeen, Returnable
      <3>6. Exact(u, odata[u]) /\ Fresh(u, odata[u])
        BY <3>4 DEF Exact, Fresh, Held
      <3> QED  BY <3>3, <3>5, <3>6 DEF Fit
    <2> HIDE DEF b
    <2> QED  BY <2>4, <2>5, <1>7, <1>9
  <1>10. ASSUME FetchOrigin(r), rd' # [rd EXCEPT ![r].buf = b, ![r].pc = "land"]
         PROVE  FillSound(r)'
    <2>1. rd' = [rd EXCEPT ![r].pc = "abort", ![r].ok = FALSE]
      BY <1>10 DEF FetchOrigin
    <2>2. rd'[r].pc = "abort" /\ rd'[r].ok = FALSE /\ rd'[r].i = i /\ rd'[r].flen = rd[r].flen
      BY <2>1, <1>4 DEF Rd
    <2>3. FillLong(r)'
      BY <2>2, <1>3, <1>4, <1>6 DEF FillLong, Filling
    <2> QED  BY <2>2, <2>3 DEF FillSound, FillFits, FillIn, AbortFails, Current
  <1>11. FillSound(r)'
    BY <1>8, <1>9, <1>10
  <1>12. ASSUME NEW q \in Readers PROVE FillSound(q)'
    <2>1. CASE q # r
      BY <2>1, <1>2, <1>3, FillKept DEF Fills, FillSound, FillIn
    <2> QED  BY <2>1, <1>11
  <1>13. Fills'
    BY <1>2, <1>3, <1>12 DEF Fills, FillsOld
  <1> QED  BY <1>5, <1>13 DEF Kept

LEMMA KeptCompleteFill ==
    ASSUME Base, ~dead, Kept, NEW r \in Readers, CompleteFill(r)
    PROVE  Kept'
PROOF
  <1> DEFINE i == rd[r].i
             off == Offset(i, PS)
  <1>1. ReadStep(r)
    BY DEF ReadStep
  <1>2. /\ TypeInv /\ Store /\ Fills /\ Call
        /\ \A q \in Readers \ {r} : rd'[q] = rd[q]
        /\ UNCHANGED <<originVars, size, writes, wr, cull>>
        /\ \A q \in Readers : Reading(q)' => Reading(q) /\ seen'[q] = seen[q] /\ floor'[q] = floor[q]
        /\ FitGrows
    BY <1>1, ReadAside
  <1>3. /\ UNCHANGED <<sidecar, bits, hashes>> /\ rd[r].pc = "land" /\ cmu = Free /\ cull.pc = "idle"
    BY DEF CompleteFill, FileMuFree
  <1>4. /\ rd[r] \in Rd /\ rd \in [Readers -> Rd] /\ i \in Pieces /\ Filling(r) /\ rd[r].buf \in Seq(Val)
        /\ filling \in [Pieces -> Nat \cup {NoClaim}] /\ dlen \in 0 .. MaxSize
    BY <1>2, <1>3, ReaderAtPiece DEF TypeInv, TypeOK, ReaderTypes, ClaimTypes, Filling, Rd, DataTypes
  <1>5. wr.pc # "mark" /\ \A q \in Readers : rd[q].pc # "mark"
    BY <1>3, ReaderAssumption DEF Base, Locks, Free, Mutator
  <1>6. \A u \in Units : ~Overwritten(u)
    BY <1>5 DEF Overwritten
  <1>7. Call'
    BY <1>2, <1>5, CallKept
  <1>8. CASE FillOutrun(r)
    <2>1. UNCHANGED <<data, dlen>> /\ Unclaim(i) /\ rd' = [rd EXCEPT ![r].pc = "probe"]
      BY <1>8 DEF CompleteFill
    <2>2. Store'
      BY <2>1, <1>2, <1>3, <1>6, StoreFrame
    <2>3. rd'[r].pc = "probe"
      BY <2>1, <1>4 DEF Rd
    <2>4. ASSUME NEW q \in Readers PROVE FillSound(q)'
      <3>1. CASE q = r
        BY <3>1, <2>3, NotFillingSound
      <3>2. CASE q # r
        <4>1. Filling(q) => rd[q].i # i
          BY <3>2, <1>4 DEF Base, FillClaims
        <4>2. Filling(q) => filling'[rd[q].i] = filling[rd[q].i]
          BY <4>1, <2>1, <1>2, <1>4, ReaderAtPiece DEF Unclaim
        <4> QED  BY <3>2, <4>2, <2>1, <1>2, <1>3, <1>5, FillKept DEF Fills
      <3> QED  BY <3>1, <3>2
    <2>5. FillsOld'
      BY <2>1, <1>2, <1>4 DEF Fills, FillsOld, Unclaim, NoClaim, TypeInv, TypeOK, EntryTypes
    <2> QED  BY <1>7, <2>2, <2>4, <2>5 DEF Kept, Fills
  <1>9. CASE ~FillOutrun(r)
    <2>1. i \notin bits /\ ClaimStands(r)
      BY <1>9 DEF FillOutrun
    <2>2. PICK k \in {Len(rd[r].buf)} \cup (IF Fault("cache") THEN 0 .. Len(rd[r].buf) - 1 ELSE {}) :
            /\ data' = Overlay(data, off, SubSeq(rd[r].buf, 1, k))
            /\ dlen' = IF k = 0 THEN dlen ELSE Extend(dlen, off + k)
            /\ rd' = [rd EXCEPT ![r].pc = "mark", ![r].ok = FillLanded(r, k)]
      BY <1>9 DEF CompleteFill
    <2>3. k \in 0 .. Len(rd[r].buf) /\ off \in Nat /\ UNCHANGED filling
      <3>1. k \in 0 .. Len(rd[r].buf)
        BY <2>2, <1>4
      <3>2. i \in Nat
        BY <1>4, Constants
      <3>3. UNCHANGED filling
        BY <1>9 DEF CompleteFill
      <3> QED  BY <3>1, <3>2, <3>3, Sizes DEF Offset
    <2>4. dlen' \in Nat /\ dlen <= dlen' /\ (k > 0 => off + k <= dlen')
      <3> HIDE DEF off
      <3> QED  BY <2>2, <2>3, <1>4, Sizes DEF Extend
    <2>5. \A u \in Units : u \div PS # i => data'[u] = data[u]
      BY <1>2, FillLandsApart
    <2>6. Marked' = Marked /\ i \notin Marked
      BY <1>2, <1>3, <2>1 DEF Marked
    <2>7. \A u \in Units : u < dlen => u < dlen'
      BY <2>4, <1>4, UnitPlace
    <2>8. Store'
      BY <1>2, <1>3, <1>6, <2>5, <2>6, <2>7, StoreStands
    <2>9. /\ rd'[r].pc = "mark" /\ rd'[r].ok = FillLanded(r, k) /\ rd'[r].i = i /\ rd'[r].buf = rd[r].buf
          /\ rd'[r].flen = rd[r].flen
      BY <2>2, <1>4 DEF Rd
    <2>10. Current(r) /\ FillSound(r)
      BY <2>1, <1>2, <1>3 DEF Current, Fills
    <2>11. FillFits(r)'
      <3> SUFFICES ASSUME NEW u \in Units, Carries(r, u)'
                   PROVE  Fit(u, rd[r].buf[At(u)])'
        BY DEF FillFits, At
      <3>1. Carries(r, u)
        BY <2>9 DEF Carries, At
      <3>2. u < size /\ Fit(u, rd[r].buf[At(u)])
        BY <3>1, <2>1, <2>10, <1>2, CarriedBelow DEF FillSound, FillFits
      <3>3. \A x : Fit(u, x) => Fit(u, x)'
        BY <3>2, <1>2 DEF FitGrows
      <3>4. Fit(u, rd[r].buf[At(u)]) => \A x : x = (rd[r].buf[At(u)])' => Fit(u, x)'
        BY <3>3, <2>9 DEF At
      <3> QED  BY <3>2, <3>4
    <2>12. FillLong(r)'
      BY <2>9, <2>10, <2>3, <1>2, <1>3 DEF FillSound, FillLong, Filling
    <2>13. FillIn(r)'
      <3> SUFFICES ASSUME k = Len(rd[r].buf), NEW u \in Units, u \div PS = i, At(u) \in DOMAIN rd[r].buf
                   PROVE  u < dlen' /\ data'[u] = rd[r].buf[At(u)]
        BY <2>1, <2>9, <1>3 DEF FillIn, FillLanded, Carries, At
      <3>1. At(u) \in 1 .. k /\ off + At(u) - 1 = u /\ u \in Nat /\ Len(SubSeq(rd[r].buf, 1, k)) = k
            /\ SubSeq(rd[r].buf, 1, k)[At(u)] = rd[r].buf[At(u)]
        <4>1. u \in Nat /\ off + At(u) - 1 = u
          BY UnitPlace
        <4>2. At(u) \in 1 .. k /\ k \in Nat
          BY <1>4, <2>3
        <4> QED  BY <4>1, <4>2, <1>4, <2>3, PrefixType
      <3>2. u \in off .. off + k - 1 /\ u - off + 1 = At(u)
        <4> HIDE DEF off
        <4>1. k \in Nat /\ off \in Nat /\ u \in Nat /\ At(u) \in 1 .. k /\ off + At(u) - 1 = u
          BY <3>1, <2>3
        <4> QED  BY <4>1
      <3>3. data'[u] = rd[r].buf[At(u)]
        BY <2>2, <3>1, <3>2 DEF Overlay
      <3>4. u < dlen'
        <4> HIDE DEF off
        <4>0. k \in Nat /\ off \in Nat /\ u \in Nat
          BY <2>3, <3>1
        <4>1. k > 0 /\ u < off + k
          BY <3>2, <4>0
        <4> QED  BY <4>1, <2>3, <2>4, <3>1
      <3> QED  BY <3>3, <3>4
    <2>14. FillSound(r)'
      BY <2>9, <2>11, <2>12, <2>13 DEF FillSound, AbortFails
    <2>15. ASSUME NEW q \in Readers PROVE FillSound(q)'
      <3>1. CASE q # r
        BY <3>1, <1>2, <1>3, <1>5, <2>3, FillKept DEF Fills
      <3> QED  BY <3>1, <2>14
    <2>16. FillsOld'
      BY <2>3, <1>2 DEF Fills, FillsOld
    <2> QED  BY <1>7, <2>8, <2>15, <2>16 DEF Kept, Fills
  <1> QED  BY <1>8, <1>9

LEMMA KeptFinishPiece ==
    ASSUME Base, ~dead, Kept, NEW r \in Readers, FinishPiece(r)
    PROVE  Kept'
PROOF
  <1> DEFINE i == rd[r].i
  <1>1. ReadStep(r)
    BY DEF ReadStep
  <1>2. /\ TypeInv /\ Store /\ Fills /\ Call
        /\ \A q \in Readers \ {r} : rd'[q] = rd[q]
        /\ UNCHANGED <<originVars, size, writes, wr, cull>>
        /\ \A q \in Readers : Reading(q)' => Reading(q) /\ seen'[q] = seen[q] /\ floor'[q] = floor[q]
        /\ FitGrows
    BY <1>1, ReadAside
  <1>3. /\ UNCHANGED <<data, dlen>> /\ rd[r].pc \in {"mark", "abort"} /\ cull.pc = "idle" /\ Unclaim(i)
        /\ bits' = IF FillStands(r) THEN bits \cup InField({i}) ELSE bits
        /\ hashes' = IF FillStands(r) THEN [hashes EXCEPT ![i] = rd[r].buf] ELSE hashes
        /\ rd' = [rd EXCEPT ![r].pc = IF rd[r].ok THEN "probe" ELSE "fallback"]
    BY DEF FinishPiece, FileMuFree, Purged
  <1>4. /\ rd[r] \in Rd /\ rd \in [Readers -> Rd] /\ i \in Pieces /\ Filling(r) /\ rd[r].buf \in Seq(Val)
        /\ filling \in [Pieces -> Nat \cup {NoClaim}] /\ hashes \in [Pieces -> Seq(Val)]
        /\ size \in 0 .. MaxSize /\ i \in Nat /\ writes \in Nat /\ rd[r].flen \in Nat
    BY <1>2, <1>3, ReaderAtPiece, Constants DEF TypeInv, TypeOK, ReaderTypes, ClaimTypes, EntryTypes, Filling, Rd
  <1>5. FillSound(r)
    BY <1>2 DEF Fills
  <1>6. Call'
    BY <1>2, <1>3, CallKept
  <1>7. ASSUME FillStands(r)
        PROVE  /\ rd[r].pc = "mark" /\ i \notin bits /\ Len(rd[r].buf) = PLen(size, i) /\ i * PS < size
               /\ \A u \in Units : Carries(r, u) => /\ u < dlen /\ data[u] = rd[r].buf[At(u)]
                                                    /\ Fit(u, rd[r].buf[At(u)])
    <2>1. rd[r].ok /\ ClaimStands(r)
      BY <1>7 DEF FillStands
    <2>2. rd[r].pc = "mark"
      BY <2>1, <1>3, <1>5 DEF FillSound, AbortFails
    <2>3. i \notin bits /\ \A u \in Units : Carries(r, u) => u < dlen /\ data[u] = rd[r].buf[At(u)]
      BY <2>1, <2>2, <1>5 DEF FillSound, FillIn
    <2>4. Current(r)
      BY <2>1, <2>2, <2>3 DEF Current
    <2>5. Len(rd[r].buf) = PLen(size, i) /\ Len(rd[r].buf) > 0
      BY <2>1, <2>2, <1>5 DEF ClaimStands, FillSound, FillLong, Filling
    <2>6. i * PS < size
      <3>1. PLen(size, i) = (IF i * PS >= size THEN 0 ELSE IF size - i * PS <= PS THEN size - i * PS ELSE PS)
            /\ i * PS \in Nat
        BY <1>4, PieceLength
      <3> QED  BY <3>1, <2>5, <1>4
    <2> QED  BY <2>2, <2>3, <2>4, <2>5, <2>6, <1>5 DEF FillSound, FillFits
  <1>8. \A u \in Units : Overwritten(u)' <=> Overwritten(u)
    BY <1>2, <1>3 DEF Overwritten, Span
  <1>9. ASSUME ~FillStands(r) PROVE Store'
    BY <1>2, <1>3, <1>8, <1>9, StoreFrame
  <1>10. ASSUME FillStands(r) PROVE Store'
    <2>1. /\ Marked = bits /\ Marked' \subseteq bits \cup {i} /\ bits \subseteq Marked'
          /\ \A j \in Pieces : hashes'[j] = IF j = i THEN rd[r].buf ELSE hashes[j]
      BY <1>2, <1>3, <1>4, <1>10 DEF Marked, InField
    <2>2. ASSUME NEW u \in Units, u \div PS # i
          PROVE  (Hashed(u)' <=> Hashed(u)) /\ Hash(u)' = Hash(u)
      BY <2>1, <2>2, UnitPlace DEF Hashed, Hash, At
    <2>3. ASSUME NEW u \in Units, u \div PS = i
          PROVE  (Hashed(u)' <=> Carries(r, u)) /\ Hash(u)' = rd[r].buf[At(u)]
      BY <2>1, <2>3, <1>4 DEF Hashed, Hash, At, Carries
    <2>4. ASSUME NEW u \in Units, u \div PS = i, u < size
          PROVE  Carries(r, u)
      BY <2>4, <1>4, <1>7, <1>10, UnitBelow DEF Carries
    <2>5. ASSUME NEW u \in Units, u < size, NEW x, Fit(u, x) PROVE Fit(u, x)'
      BY <2>5, <1>2 DEF FitGrows
    <2>6. MarksFit'
      <3> SUFFICES ASSUME NEW u \in Units, u \div PS \in Marked', u < size
                   PROVE  u < dlen /\ Fit(u, data[u])'
        BY <1>2, <1>3 DEF MarksFit
      <3>1. u < dlen /\ Fit(u, data[u])
        <4>1. CASE u \div PS = i
          BY <4>1, <2>4, <1>7, <1>10
        <4>2. CASE u \div PS # i
          BY <4>2, <2>1, <1>2 DEF Store, MarksFit
        <4> QED  BY <4>1, <4>2
      <3>2. \A x : Fit(u, x) => Fit(u, x)'
        BY <2>5
      <3>3. Fit(u, data[u]) => \A x : x = data'[u] => Fit(u, x)'
        BY <3>2, <1>3
      <3> QED  BY <3>1, <3>3
    <2>7. MarksIn'
      BY <2>1, <1>2, <1>7, <1>10 DEF Store, MarksIn
    <2>8. HashesFit'
      <3> SUFFICES ASSUME NEW u \in Units, Hashed(u)' PROVE Fit(u, Hash(u))'
        BY DEF HashesFit
      <3>1. u < size /\ \E x : Fit(u, x) /\ Hash(u)' = x
        <4>1. CASE u \div PS = i
          <5>1. ClaimStands(r)
            BY <1>10 DEF FillStands
          <5>2. Carries(r, u) /\ Hash(u)' = rd[r].buf[At(u)]
            BY <4>1, <2>3
          <5> QED  BY <5>1, <5>2, <1>2, <1>7, <1>10, CarriedBelow
        <4>2. CASE u \div PS # i
          <5>1. Hashed(u) /\ Hash(u)' = Hash(u)
            BY <4>2, <2>2
          <5> QED  BY <5>1, <1>2, HashedBelow DEF Store, HashesFit
        <4> QED  BY <4>1, <4>2
      <3>2. PICK x : Fit(u, x) /\ Hash(u)' = x
        BY <3>1
      <3>3. Fit(u, x)'
        BY <3>1, <3>2, <2>5
      <3>4. \A y : y = Hash(u)' => Fit(u, y)'
        BY <3>2, <3>3
      <3> QED  BY <3>4
    <2>9. HashesLong'
      BY <2>1, <1>2, <1>7, <1>10 DEF Store, HashesLong
    <2>10. HashesHeld'
      <3> SUFFICES ASSUME NEW u \in Units, u \div PS \in Marked', Hashed(u)'
                   PROVE  data[u] = Hash(u)' \/ Overwritten(u)'
        BY <1>3 DEF HashesHeld
      <3>1. CASE u \div PS = i
        BY <3>1, <2>3, <1>7, <1>10
      <3>2. CASE u \div PS # i
        BY <3>2, <2>1, <2>2, <1>2, <1>8 DEF Store, HashesHeld
      <3> QED  BY <3>1, <3>2
    <2> QED  BY <2>6, <2>7, <2>8, <2>9, <2>10 DEF Store
  <1>11. Store'
    BY <1>9, <1>10
  <1>12. rd'[r].pc \in {"probe", "fallback"}
    BY <1>3, <1>4 DEF Rd
  <1>13. ASSUME NEW q \in Readers PROVE FillSound(q)'
    <2>1. CASE q = r
      BY <2>1, <1>12, NotFillingSound
    <2>2. CASE q # r
      <3>1. Filling(q) => rd[q].i # i
        BY <2>2, <1>4 DEF Base, FillClaims
      <3>2. Filling(q) => filling'[rd[q].i] = filling[rd[q].i]
        BY <3>1, <1>2, <1>3, <1>4, ReaderAtPiece DEF Unclaim
      <3>3. rd[q].pc = "mark" => rd[q].i \notin bits'
        <4> SUFFICES ASSUME rd[q].pc = "mark" PROVE rd[q].i \notin bits'
          OBVIOUS
        <4>1. rd[r].pc # "mark"
          BY <2>2 DEF Base, Locks
        <4>2. ~FillStands(r)
          BY <4>1, <1>7
        <4>3. FillIn(q)
          BY <1>2 DEF Fills, FillSound
        <4> QED  BY <4>2, <4>3, <1>3 DEF FillIn
      <3>4. bits \subseteq bits'
        BY <1>3
      <3> QED  BY <2>2, <3>2, <3>3, <3>4, <1>2, <1>3, FillKept DEF Fills
    <2> QED  BY <2>1, <2>2
  <1>14. FillsOld'
    BY <1>2, <1>3, <1>4 DEF Fills, FillsOld, Unclaim, NoClaim
  <1> QED  BY <1>6, <1>11, <1>13, <1>14 DEF Kept, Fills

-----------------------------------------------------------------------------
(* The mutator: Kept is kept *)

\* What every step of the mutator after its first leaves alone.
LEMMA MutatorAside ==
    ASSUME Base, ~dead, Kept, MutatorStep
    PROVE  /\ TypeInv /\ Store /\ Fills /\ Call /\ ~dead'
           /\ UNCHANGED <<originVars, filling, rd, cull, seen, floor>>
           /\ OriginSeen'
PROOF
  <1>1. TypeInv /\ Store /\ Fills /\ Call
    BY DEF Base, Kept
  <1>2. UNCHANGED <<originVars, filling, dead, xfer, rd, op, cull, ul, ghostVars>>
    BY <1>1, MutatorLocks
  <1>3. OriginSeen'
    BY <1>1, <1>2 DEF Call, OriginSeen, Reading
  <1> QED  BY <1>1, <1>2, <1>3

\* A write goes on: its bytes stay pending.
LEMMA FitProceeds ==
    ASSUME UNCHANGED <<originVars, rd, seen, floor>>,
           wr'.kind = wr.kind, wr'.off = wr.off, wr'.len = wr.len, wr'.before = wr.before,
           Writing, wr'.pc \in {"fill", "ident", "grow", "copy", "mark", "distrust"}
    PROVE  \A u \in Units : \A x : Fit(u, x) => Fit(u, x)'
PROOF
  <1> TAKE u \in Units
  <1> TAKE x
  <1>1. (Pending(u)' <=> Pending(u)) /\ Held(u)' = Held(u) /\ (Cutting => Cutting')
    BY DEF Pending, Cutting, Held, Writing
  <1>2. Exact(u, x) => Exact(u, x)'
    BY <1>1 DEF Exact
  <1>3. Fresh(u, x) => Fresh(u, x)'
    BY <1>1 DEF Fresh
  <1>4. Returnable(u, x) => Returnable(u, x)'
    BY DEF Returnable, Reading
  <1> QED  BY <1>2, <1>3, <1>4 DEF Fit

\* A call returns: what is kept of a byte it left alone is the origin's.
LEMMA FitReturns ==
    ASSUME UNCHANGED <<originVars, rd, seen, floor>>, wr' = IdleMutator,
           NEW u \in Units, ~Pending(u), u < osize \/ ~Cutting, NEW x, Fit(u, x)
    PROVE  Fit(u, x)'
PROOF
  <1>1. u < osize /\ x = odata[u]
    BY DEF Fit, Exact
  <1>2. Exact(u, x)' /\ Fresh(u, x)'
    BY <1>1 DEF Exact, Fresh, Held
  <1>3. Returnable(u, x)'
    BY DEF Fit, Returnable, Reading
  <1> QED  BY <1>2, <1>3 DEF Fit

LEMMA FillsFrame ==
    ASSUME TypeInv, Fills, FitGrows, UNCHANGED <<rd, filling, size, writes, bits>>,
           (\E r \in Readers : rd[r].pc = "mark") => UNCHANGED <<data, dlen>>
    PROVE  Fills'
PROOF
  <1>1. ASSUME NEW r \in Readers PROVE FillSound(r)'
    BY FillKept DEF Fills, FillSound, FillIn
  <1>2. FillsOld'
    BY DEF Fills, FillsOld
  <1> QED  BY <1>1, <1>2 DEF Fills

\* A call that returns, or that has nothing left to know.
LEMMA CallReturns ==
    ASSUME OriginSeen', wr' = IdleMutator \/ wr'.pc \in {"warm", "distrust"}
    PROVE  Call'
PROOF
  <1>1. wr'.pc \in {"idle", "warm", "distrust"}
    BY DEF IdleMutator
  <1>2. IdleBefore'
    BY DEF IdleBefore, IdleMutator
  <1> QED  BY <1>1, <1>2 DEF Call, WriteKnown, WriteSized, WriteLanded, Writing

\* A stat that lags the write sees the size it had before, which is the size
\* it has when the write ends there.
LEMMA StatSees ==
    ASSUME TypeInv, WriteSized, WriteStat
    PROVE  \/ /\ wr'.pc \in {"fill", "ident"} /\ wr'.sz \in {wr.sz, osize} /\ wr'.sz <= osize
              /\ wr'.pc = "fill" => osize = wr.off + wr.len
           \/ wr'.pc = "distrust"
PROOF
  <1>1. /\ wr \in Wr /\ wr.pc = "stat" /\ wr.sz <= osize /\ Writing
        /\ osize = wr.sz \/ osize = wr.off + wr.len
    BY MutatorTyped DEF WriteStat, MutatorTypes, WriteSized, Writing
  <1>2. osize \in Nat /\ wr.sz \in Nat /\ wr.off \in Nat /\ wr.len \in Nat /\ wr.len > 0
    BY <1>1, WrFields, Sizes DEF TypeInv, TypeOK, OriginTypes
  <1>3. \A s \in Observed : s[1] \in {wr.sz, osize} /\ s[1] <= osize
    BY <1>1, <1>2 DEF Observed
  <1>4. \/ wr'.pc = "distrust"
        \/ \E s \in Observed :
              /\ wr'.sz = s[1]
              /\ wr'.pc = "ident" \/ (wr'.pc = "fill" /\ s[1] = wr.off + wr.len)
    <2>1. \/ wr' = [wr EXCEPT !.pc = "distrust"]
          \/ \E s \in Observed :
                \/ wr' = [wr EXCEPT !.sz = s[1], !.obs = s[2], !.note = TRUE,
                               !.pc = IF s[1] = wr.off + wr.len THEN "fill" ELSE "ident"]
                \/ wr' = [wr EXCEPT !.sz = s[1], !.obs = s[2], !.pc = "ident"]
      BY DEF WriteStat
    <2> QED  BY <2>1, <1>1 DEF Wr
  <1>5. ASSUME NEW s \in Observed, wr'.sz = s[1],
               wr'.pc = "ident" \/ (wr'.pc = "fill" /\ s[1] = wr.off + wr.len)
        PROVE  /\ wr'.pc \in {"fill", "ident"} /\ wr'.sz \in {wr.sz, osize} /\ wr'.sz <= osize
               /\ wr'.pc = "fill" => osize = wr.off + wr.len
    <2>1. s[1] \in {wr.sz, osize} /\ s[1] <= osize
      BY <1>3
    <2>2. s[1] = wr.off + wr.len => osize = wr.off + wr.len
      BY <2>1, <1>1
    <2> QED  BY <1>5, <2>1, <2>2
  <1> QED  BY <1>4, <1>5

LEMMA KeptWriteStat ==
    ASSUME Base, ~dead, Kept, WriteStat
    PROVE  Kept'
PROOF
  <1>1. MutatorStep
    BY DEF MutatorStep
  <1>2. /\ TypeInv /\ Store /\ Fills /\ Call
        /\ UNCHANGED <<originVars, filling, rd, cull, seen, floor>> /\ OriginSeen'
    BY <1>1, MutatorAside
  <1>3. UNCHANGED <<cacheVars, entryVars>> /\ wr.pc = "stat"
    BY DEF WriteStat
  <1>4. wr \in Wr
    BY <1>2, MutatorTyped DEF MutatorTypes
  <1>5. \/ wr'.pc \in {"fill", "ident"} /\ wr'.sz <= osize /\ (wr'.pc = "fill" => osize = wr.off + wr.len)
        \/ wr'.pc = "distrust"
    BY <1>2, StatSees DEF Call
  <1>6. wr'.kind = wr.kind /\ wr'.off = wr.off /\ wr'.len = wr.len /\ wr'.val = wr.val /\ wr'.before = wr.before
    BY <1>1, <1>2, <1>5, MutatorPlaces DEF IdleMutator
  <1>7. FitGrows
    BY <1>2, <1>3, <1>5, <1>6, FitProceeds DEF Writing, FitGrows
  <1>8. Store'
    BY <1>2, <1>3, <1>7, StoreFrame DEF Overwritten
  <1>9. Fills'
    BY <1>2, <1>3, <1>7, FillsFrame
  <1>10. Call'
    <2>1. WriteKnown'
      BY <1>2, <1>3, <1>6 DEF Call, WriteKnown, Writing, Span
    <2> QED  BY <1>2, <1>5, <1>6, <2>1 DEF Call, WriteSized, WriteLanded, IdleBefore
  <1> QED  BY <1>8, <1>9, <1>10 DEF Kept

LEMMA KeptWriteNote ==
    ASSUME Base, ~dead, Kept, WriteNote
    PROVE  Kept'
PROOF
  <1>1. MutatorStep
    BY DEF MutatorStep
  <1>2. /\ TypeInv /\ Store /\ Fills /\ Call
        /\ UNCHANGED <<originVars, filling, rd, cull, seen, floor>> /\ OriginSeen'
    BY <1>1, MutatorAside
  <1>3. UNCHANGED <<data, dlen, size, bits, writes, hashes>> /\ wr.pc = "note" /\ wr' = IdleMutator
    BY DEF WriteNote
  <1>4. FitGrows
    BY <1>2, <1>3, FitReturns DEF FitGrows, Pending, Cutting
  <1>5. Store'
    BY <1>2, <1>3, <1>4, StoreFrame DEF Overwritten
  <1>6. Fills'
    BY <1>2, <1>3, <1>4, FillsFrame
  <1> QED  BY <1>2, <1>3, <1>5, <1>6, CallReturns DEF Kept

LEMMA KeptDistrust ==
    ASSUME Base, ~dead, Kept, Distrust
    PROVE  Kept'
PROOF
  <1>1. MutatorStep
    BY DEF MutatorStep
  <1>2. /\ TypeInv /\ Store /\ Fills /\ Call
        /\ UNCHANGED <<originVars, filling, rd, cull, seen, floor>> /\ OriginSeen'
    BY <1>1, MutatorAside
  <1>3. /\ UNCHANGED <<data, dlen>> /\ bits' = {} /\ writes' = writes + 1 /\ hashes' = NoHashes
        /\ cull.pc = "idle" /\ (wr' = IdleMutator \/ wr' = [wr EXCEPT !.pc = "warm"])
    BY DEF Distrust, ClearHashes, FileMuFree
  <1>4. wr' = IdleMutator \/ wr'.pc = "warm"
    BY <1>2, <1>3, MutatorTyped DEF MutatorTypes, Wr
  <1>5. Store'
    BY <1>2, <1>3, StoreEmptied
  <1>6. Fills'
    BY <1>2, <1>3, FillsOutdated
  <1> QED  BY <1>2, <1>4, <1>5, <1>6, CallReturns DEF Kept

\* The pieces a growth of the entry leaves whole, and the one it widens.
LEMMA WidenedExact ==
    ASSUME size \in 0 .. MaxSize, NEW end \in 0 .. MaxSize, end > size, NEW i \in Nat
    PROVE  /\ i \notin WidenedPiece /\ i * PS < size => PLen(size, i) = PS /\ PLen(end, i) = PS
           /\ i \in WidenedPiece => PLen(size, i) < PLen(end, i)
           /\ PLen(size, i) <= PLen(end, i)
           /\ PLen(size, i) \in Nat /\ PLen(end, i) \in Nat
PROOF
  <1> DEFINE q == size \div PS
             m == size % PS
             o == i * PS
             p == q * PS
  <1>1. /\ PS \in Nat \ {0} /\ size \in Nat /\ end \in Nat /\ q \in Nat /\ m \in 0 .. PS - 1
        /\ p \in Nat /\ size = p + m /\ o \in Nat
    BY Sizes
  <1>2. /\ PLen(size, i) = (IF o >= size THEN 0 ELSE IF size - o <= PS THEN size - o ELSE PS)
        /\ PLen(end, i) = (IF o >= end THEN 0 ELSE IF end - o <= PS THEN end - o ELSE PS)
    BY PieceLength
  <1>3. WidenedPiece = IF m = 0 THEN {} ELSE {q}
    BY DEF WidenedPiece
  <1>4. i + 1 <= q => o + PS <= p
    BY <1>1
  <1>5. q + 1 <= i => p + PS <= o
    BY <1>1
  <1>6. i = q => o = p
    OBVIOUS
  <1> HIDE DEF q, m, o, p
  <1>7. PLen(size, i) <= PLen(end, i) /\ PLen(size, i) \in Nat /\ PLen(end, i) \in Nat
    BY <1>1, <1>2
  <1>8. ASSUME i \notin WidenedPiece, o < size
        PROVE  PLen(size, i) = PS /\ PLen(end, i) = PS
    <2>1. i + 1 <= q
      <3>1. i <= q
        BY <1>1, <1>5, <1>8
      <3>2. i # q
        BY <1>1, <1>3, <1>6, <1>8
      <3> QED  BY <3>1, <3>2, <1>1
    <2> QED  BY <2>1, <1>1, <1>2, <1>4
  <1>9. ASSUME i \in WidenedPiece PROVE PLen(size, i) < PLen(end, i)
    <2>1. m # 0 /\ o = p
      BY <1>3, <1>6, <1>9
    <2> QED  BY <2>1, <1>1, <1>2
  <1> QED  BY <1>7, <1>8, <1>9 DEF o

\* growToLocked drops the mark and the digest of the piece it widens, and no
\* fill that was outrun becomes current.
LEMMA GrowKeeps ==
    ASSUME TypeInv, Store, Fills, NEW end \in 0 .. MaxSize, end > size, GrowTo(end),
           \A u \in Units : \A x : Fit(u, x) => Fit(u, x)',
           \A u \in Units : ~Overwritten(u), \A r \in Readers : rd[r].pc # "mark",
           cull.pc = "idle", UNCHANGED <<data, dlen, cull, rd, filling, writes>>
    PROVE  Store' /\ Fills'
PROOF
  <1>1. /\ size' = end /\ bits' = bits \ WidenedPiece
        /\ hashes' = [i \in Pieces |-> IF i \in WidenedPiece THEN NoHash ELSE hashes[i]]
    BY DEF GrowTo
  <1>2. /\ size \in 0 .. MaxSize /\ hashes \in [Pieces -> Seq(Val)] /\ bits \subseteq Pieces /\ Pieces \subseteq Nat
        /\ MaxSize \in Nat
    BY Constants, Sizes DEF TypeInv, TypeOK, EntryTypes
  <1>3. Marked = bits /\ Marked' = bits \ WidenedPiece
    BY <1>1 DEF Marked
  <1>4. \A i \in Pieces : hashes'[i] = IF i \in WidenedPiece THEN NoHash ELSE hashes[i]
    BY <1>1
  <1>5. ASSUME NEW u \in Units, Hashed(u)'
        PROVE  Hashed(u) /\ Hash(u)' = Hash(u) /\ u \div PS \notin WidenedPiece
    <2>1. u \div PS \in Pieces
      BY UnitPlace
    <2>2. u \div PS \notin WidenedPiece
      BY <2>1, <1>4, <1>5 DEF Hashed, NoHash
    <2> QED  BY <2>1, <2>2, <1>4, <1>5 DEF Hashed, Hash, At
  <1>6. ASSUME NEW u \in Units, u \div PS \in bits \ WidenedPiece
        PROVE  u < size
    <2>1. (u \div PS) * PS < size /\ u \div PS \in Nat
      BY <1>2, <1>3, <1>6 DEF Store, MarksIn
    <2>2. PLen(size, u \div PS) = PS /\ PS \in Nat /\ At(u) \in 1 .. PS
      BY <2>1, <1>2, <1>6, WidenedExact, Sizes, UnitPlace
    <2> QED  BY <2>2, <1>2, UnitBelow
  <1>7. MarksFit'
    <2> SUFFICES ASSUME NEW u \in Units, u \div PS \in bits \ WidenedPiece
                 PROVE  u < dlen /\ Fit(u, data[u])'
      BY <1>3 DEF MarksFit
    <2>1. u < dlen /\ Fit(u, data[u])
      BY <1>3, <1>6 DEF Store, MarksFit
    <2>2. Fit(u, data[u]) => \A x : x = data'[u] => Fit(u, x)'
      OBVIOUS
    <2> QED  BY <2>1, <2>2
  <1>8. MarksIn'
    <2> SUFFICES ASSUME NEW i \in bits PROVE i * PS < end
      BY <1>1, <1>3 DEF MarksIn
    <2>1. i * PS < size /\ i \in Nat
      BY <1>2, <1>3 DEF Store, MarksIn
    <2>2. i * PS \in Nat
      BY <2>1, <1>2, PieceLength
    <2> QED  BY <2>1, <2>2, <1>2
  <1>9. HashesFit'
    <2> SUFFICES ASSUME NEW u \in Units, Hashed(u)' PROVE Fit(u, Hash(u))'
      BY DEF HashesFit
    <2>1. Fit(u, Hash(u)) /\ Hash(u)' = Hash(u)
      BY <1>5 DEF Store, HashesFit
    <2>2. Fit(u, Hash(u)) => \A x : x = Hash(u)' => Fit(u, x)'
      BY <2>1
    <2> QED  BY <2>1, <2>2
  <1>10. HashesLong'
    <2> SUFFICES ASSUME NEW i \in Pieces, i \notin WidenedPiece, hashes[i] # NoHash
                 PROVE  Len(hashes[i]) = PLen(end, i)
      BY <1>1, <1>4 DEF HashesLong
    <2>1. Len(hashes[i]) = PLen(size, i) /\ hashes[i] \in Seq(Val) /\ i \in Nat
      BY <1>2 DEF Store, HashesLong
    <2>2. PLen(size, i) # 0
      BY <2>1 DEF NoHash
    <2>3. i * PS < size
      <3>1. i * PS \in Nat /\ PLen(size, i) = IF i * PS >= size THEN 0 ELSE IF size - i * PS <= PS THEN size - i * PS ELSE PS
        BY <2>1, <1>2, PieceLength
      <3> QED  BY <3>1, <2>2, <1>2
    <2>4. PLen(size, i) = PS /\ PLen(end, i) = PS
      BY <2>1, <2>3, <1>2, WidenedExact
    <2> QED  BY <2>1, <2>4
  <1>11. HashesHeld'
    <2> SUFFICES ASSUME NEW u \in Units, u \div PS \in bits, Hashed(u)' PROVE data[u] = Hash(u)'
      BY <1>3 DEF HashesHeld
    <2> QED  BY <1>3, <1>5 DEF Store, HashesHeld
  <1>12. ASSUME NEW r \in Readers PROVE FillSound(r)'
    <2>1. FillSound(r) /\ rd[r].pc # "mark" /\ rd'[r] = rd[r]
      BY DEF Fills
    <2>2. Filling(r) => rd[r].i \in Nat /\ rd[r].i \in Pieces
      BY <1>2, ReaderAtPiece
    <2>3. rd[r].flen \in Nat /\ Len(rd[r].buf) \in Nat
      BY DEF TypeInv, TypeOK, ReaderTypes, Rd
    <2>4. Filling(r) => /\ PLen(size, rd[r].i) <= PLen(end, rd[r].i) /\ PLen(size, rd[r].i) \in Nat
                        /\ PLen(end, rd[r].i) \in Nat
                        /\ rd[r].i \in WidenedPiece => PLen(size, rd[r].i) < PLen(end, rd[r].i)
      BY <1>2, <2>2, WidenedExact
    <2>5. FillLong(r)'
      <3> SUFFICES ASSUME Filling(r)
                   PROVE  /\ rd[r].flen > 0
                          /\ filling[rd[r].i] = writes => rd[r].flen <= PLen(end, rd[r].i)
                          /\ rd[r].pc \in {"land", "mark"} => Len(rd[r].buf) = rd[r].flen
        BY <1>1 DEF FillLong, Filling
      <3>1. /\ rd[r].flen > 0
            /\ filling[rd[r].i] = writes => rd[r].flen <= PLen(size, rd[r].i)
            /\ rd[r].pc \in {"land", "mark"} => Len(rd[r].buf) = rd[r].flen
        BY <2>1 DEF FillSound, FillLong
      <3> QED  BY <3>1, <2>3, <2>4
    <2>6. Current(r)' => Current(r)
      <3> SUFFICES ASSUME rd[r].pc = "land", rd[r].i \notin bits \ WidenedPiece, filling[rd[r].i] = writes,
                          PLen(end, rd[r].i) = Len(rd[r].buf)
                   PROVE  rd[r].i \notin bits /\ PLen(size, rd[r].i) = Len(rd[r].buf)
        BY <1>1, <2>1 DEF Current, ClaimStands
      <3>1. Filling(r)
        BY DEF Filling
      <3>2. Len(rd[r].buf) <= PLen(size, rd[r].i)
        BY <3>1, <2>1 DEF FillSound, FillLong
      <3> QED  BY <3>1, <3>2, <2>3, <2>4
    <2>7. FillFits(r)'
      <3> SUFFICES ASSUME Current(r), NEW u \in Units, Carries(r, u)
                   PROVE  Fit(u, rd[r].buf[At(u)])'
        BY <2>6 DEF FillFits, Carries, At
      <3>1. Fit(u, rd[r].buf[At(u)])
        BY <2>1 DEF FillSound, FillFits
      <3>2. Fit(u, rd[r].buf[At(u)]) => \A x : x = (rd[r].buf[At(u)])' => Fit(u, x)'
        BY DEF At
      <3> QED  BY <3>1, <3>2
    <2> QED  BY <2>1, <2>5, <2>7 DEF FillSound, FillIn, AbortFails
  <1>13. FillsOld'
    BY DEF Fills, FillsOld
  <1> QED  BY <1>7, <1>8, <1>9, <1>10, <1>11, <1>12, <1>13 DEF Store, Fills

\* A change of size below: everything is dropped.
LEMMA WipeKeeps ==
    ASSUME TypeInv, Fills, bits' = {}, hashes' = NoHashes, writes' = writes + 1,
           cull'.pc # "cut", UNCHANGED <<rd, filling>>, \A r \in Readers : rd[r].pc # "mark"
    PROVE  Store' /\ Fills'
  BY StoreEmptied, FillsOutdated

LEMMA ReconcileKeeps ==
    ASSUME TypeInv, Locks, Store, Fills, NEW sz, NEW observed, Reconcile(sz, observed),
           ReconcileLocks(sz, observed), FitGrows,
           \A u \in Units : ~Overwritten(u), UNCHANGED <<cull, rd, filling>>
    PROVE  Store' /\ Fills'
PROOF
  <1>1. cull.pc = "idle"
    BY DEF ReconcileLocks, FileMuFree
  <1>2. CASE size = sz /\ ~ContentChanged(id, observed)
    <2>1. UNCHANGED <<size, bits, writes, hashes, data, dlen>>
      BY <1>2 DEF Reconcile
    <2>2. Store'
      BY <2>1, StoreFrame
    <2>3. Fills'
      BY <2>1, FillsFrame
    <2> QED  BY <2>2, <2>3
  <1>3. CASE ~(size = sz /\ ~ContentChanged(id, observed))
    <2>1. bits' = {} /\ hashes' = NoHashes /\ writes' = writes + 1
      BY <1>3 DEF Reconcile, ClearHashes
    <2>2. \A r \in Readers : rd[r].pc # "mark"
      BY <1>3, ReaderAssumption DEF ReconcileLocks, Locks, Free
    <2> QED  BY <1>1, <2>1, <2>2, WipeKeeps
  <1> QED  BY <1>2, <1>3

\* The steps that take content_mu.
LEMMA MuTaken ==
    ASSUME Locks, cmu = Free
    PROVE  /\ wr.pc # "mark" /\ \A r \in Readers : rd[r].pc # "mark"
           /\ cull.pc # "cut" /\ \A u \in Units : ~Overwritten(u)
PROOF
  <1>1. Free # Mutator /\ Free # Culler /\ Free \notin Readers
    BY ReaderAssumption DEF Free, Mutator, Culler
  <1> QED  BY <1>1 DEF Locks, Overwritten

LEMMA KeptWriteFill ==
    ASSUME Base, ~dead, Kept, WriteFill
    PROVE  Kept'
PROOF
  <1> DEFINE end == wr.off + wr.len
  <1>1. MutatorStep
    BY DEF MutatorStep
  <1>2. /\ TypeInv /\ Store /\ Fills /\ Call
        /\ UNCHANGED <<originVars, filling, rd, cull, seen, floor>> /\ OriginSeen'
    BY <1>1, MutatorAside
  <1>3. /\ wr.pc = "fill" /\ cmu = Free /\ cull.pc = "idle"
        /\ wr' = [wr EXCEPT !.pc = "copy", !.note = FALSE]
    BY DEF WriteFill, FileMuFree
  <1>4. wr \in Wr
    BY <1>2, MutatorTyped DEF MutatorTypes
  <1>5. wr'.pc = "copy"
    BY <1>3, <1>4 DEF Wr
  <1>6. wr'.kind = wr.kind /\ wr'.off = wr.off /\ wr'.len = wr.len /\ wr'.val = wr.val /\ wr'.before = wr.before
    BY <1>1, <1>2, <1>5, MutatorPlaces DEF IdleMutator
  <1>7. \A u \in Units : \A x : Fit(u, x) => Fit(u, x)'
    BY <1>2, <1>3, <1>5, <1>6, FitProceeds DEF Writing
  <1>8. \A r \in Readers : rd[r].pc # "mark" /\ \A u \in Units : ~Overwritten(u)
    BY <1>3, MuTaken DEF Base
  <1>9. end \in 0 .. MaxSize /\ size \in 0 .. MaxSize /\ MaxSize \in Nat
    BY <1>2, <1>3, WrFields, Sizes DEF Writing, TypeInv, TypeOK, EntryTypes
  <1>10. Store' /\ Fills' /\ size' = end
    <2>1. ASSUME end > size, GrowTo(end), UNCHANGED <<writes, data, dlen>>
          PROVE  Store' /\ Fills' /\ size' = end
      <3>1. Store' /\ Fills'
        <4> HIDE DEF end
        <4>1. \A u \in Units : ~Overwritten(u)
          BY <1>3 DEF Overwritten
        <4> QED  BY <1>2, <1>3, <1>7, <1>8, <1>9, <2>1, <4>1, GrowKeeps
      <3> QED  BY <2>1, <3>1 DEF GrowTo
    <2>2. ASSUME size' = end, bits' = {}, writes' = writes + 1, ClearHashes
          PROVE  Store' /\ Fills' /\ size' = end
      BY <1>2, <1>3, <1>8, <2>2, WipeKeeps DEF ClearHashes
    <2>3. ASSUME end = size, UNCHANGED <<size, bits, nbits, writes, hashes, data, dlen, sidecar>>
          PROVE  Store' /\ Fills' /\ size' = end
      <3>1. FitGrows
        BY <1>7 DEF FitGrows
      <3>2. Store'
        BY <1>2, <1>3, <2>3, <3>1, StoreFrame DEF Overwritten
      <3>3. Fills'
        BY <1>2, <2>3, <3>1, FillsFrame
      <3> QED  BY <2>3, <3>2, <3>3
    <2> QED  BY <2>1, <2>2, <2>3 DEF WriteFill
  <1>11. Call'
    <2>1. WriteKnown'
      BY <1>2, <1>3, <1>6 DEF Call, WriteKnown, Writing, Span
    <2>2. WriteSized'
      BY <1>5, <1>6, <1>9, <1>10 DEF WriteSized
    <2> QED  BY <1>2, <1>5, <2>1, <2>2 DEF Call, WriteLanded, IdleBefore
  <1> QED  BY <1>10, <1>11 DEF Kept

LEMMA KeptWriteIdent ==
    ASSUME Base, ~dead, Kept, WriteIdent
    PROVE  Kept'
PROOF
  <1>1. MutatorStep
    BY DEF MutatorStep
  <1>2. /\ TypeInv /\ Store /\ Fills /\ Call
        /\ UNCHANGED <<originVars, filling, rd, cull, seen, floor>> /\ OriginSeen'
    BY <1>1, MutatorAside
  <1>3. /\ wr.pc = "ident" /\ wr' = [wr EXCEPT !.pc = "grow"]
        /\ ReconcileLocks(wr.sz, wr.obs) /\ Reconcile(wr.sz, wr.obs)
    BY DEF WriteIdent
  <1>4. wr \in Wr
    BY <1>2, MutatorTyped DEF MutatorTypes
  <1>5. wr'.pc = "grow"
    BY <1>3, <1>4 DEF Wr
  <1>6. wr'.kind = wr.kind /\ wr'.off = wr.off /\ wr'.len = wr.len /\ wr'.val = wr.val /\ wr'.before = wr.before
    BY <1>1, <1>2, <1>5, MutatorPlaces DEF IdleMutator
  <1>7. FitGrows
    BY <1>2, <1>3, <1>5, <1>6, FitProceeds DEF Writing, FitGrows
  <1>8. \A u \in Units : ~Overwritten(u)
    BY <1>3 DEF Overwritten
  <1>9. Store' /\ Fills'
    BY <1>2, <1>3, <1>7, <1>8, ReconcileKeeps DEF Base
  <1>10. Call'
    <2>1. WriteKnown'
      BY <1>2, <1>3, <1>6 DEF Call, WriteKnown, Writing, Span
    <2> QED  BY <1>2, <1>5, <2>1 DEF Call, WriteSized, WriteLanded, IdleBefore
  <1> QED  BY <1>9, <1>10 DEF Kept

LEMMA KeptWriteGrow ==
    ASSUME Base, ~dead, Kept, WriteGrow
    PROVE  Kept'
PROOF
  <1> DEFINE end == wr.off + wr.len
  <1>1. MutatorStep
    BY DEF MutatorStep
  <1>2. /\ TypeInv /\ Store /\ Fills /\ Call
        /\ UNCHANGED <<originVars, filling, rd, cull, seen, floor>> /\ OriginSeen'
    BY <1>1, MutatorAside
  <1>3. /\ wr.pc = "grow" /\ cmu = Free /\ cull.pc = "idle" /\ wr' = [wr EXCEPT !.pc = "copy"]
        /\ UNCHANGED <<data, dlen, writes>>
        /\ IF end > size THEN GrowTo(end) ELSE UNCHANGED <<size, bits, hashes, nbits, sidecar>>
    BY DEF WriteGrow, FileMuFree
  <1>4. wr \in Wr
    BY <1>2, MutatorTyped DEF MutatorTypes
  <1>5. wr'.pc = "copy"
    BY <1>3, <1>4 DEF Wr
  <1>6. wr'.kind = wr.kind /\ wr'.off = wr.off /\ wr'.len = wr.len /\ wr'.val = wr.val /\ wr'.before = wr.before
    BY <1>1, <1>2, <1>5, MutatorPlaces DEF IdleMutator
  <1>7. \A u \in Units : \A x : Fit(u, x) => Fit(u, x)'
    BY <1>2, <1>3, <1>5, <1>6, FitProceeds DEF Writing
  <1>8. /\ \A r \in Readers : rd[r].pc # "mark"
        /\ \A u \in Units : ~Overwritten(u)
    BY <1>3, MuTaken DEF Base
  <1>9. end \in 0 .. MaxSize /\ size \in 0 .. MaxSize /\ MaxSize \in Nat
    BY <1>2, <1>3, WrFields, Sizes DEF Writing, TypeInv, TypeOK, EntryTypes
  <1>10. Store' /\ Fills' /\ size' >= end
    <2>1. ASSUME end > size
          PROVE  Store' /\ Fills' /\ size' >= end
      <3>1. GrowTo(end)
        BY <1>3, <2>1
      <3>2. Store' /\ Fills'
        <4> HIDE DEF end
        <4> QED  BY <1>2, <1>3, <1>7, <1>8, <1>9, <2>1, <3>1, GrowKeeps
      <3> QED  BY <1>9, <3>1, <3>2 DEF GrowTo
    <2>2. ASSUME ~(end > size)
          PROVE  Store' /\ Fills' /\ size' >= end
      <3>1. UNCHANGED <<size, bits, hashes>>
        BY <1>3, <2>2
      <3>2. FitGrows
        BY <1>7 DEF FitGrows
      <3>3. Store'
        BY <1>2, <1>3, <3>1, <3>2, StoreFrame DEF Overwritten
      <3>4. Fills'
        BY <1>2, <1>3, <3>1, <3>2, FillsFrame
      <3> QED  BY <1>9, <2>2, <3>1, <3>3, <3>4
    <2> QED  BY <2>1, <2>2
  <1>11. Call'
    <2>1. WriteKnown'
      BY <1>2, <1>3, <1>6 DEF Call, WriteKnown, Writing, Span
    <2>2. WriteSized'
      BY <1>5, <1>6, <1>10 DEF WriteSized
    <2> QED  BY <1>2, <1>5, <2>1, <2>2 DEF Call, WriteLanded, IdleBefore
  <1> QED  BY <1>10, <1>11 DEF Kept

LEMMA KeptCreateWarm ==
    ASSUME Base, ~dead, Kept, CreateWarm
    PROVE  Kept'
PROOF
  <1>1. MutatorStep
    BY DEF MutatorStep
  <1>2. /\ TypeInv /\ Store /\ Fills /\ Call
        /\ UNCHANGED <<originVars, filling, rd, cull, seen, floor>> /\ OriginSeen'
    BY <1>1, MutatorAside
  <1>3. /\ wr.pc = "warm" /\ wr' = IdleMutator
        /\ \/ ReconcileLocks(0, Unknown) /\ Reconcile(0, Unknown)
           \/ UNCHANGED <<size, nbits, bits, writes, hashes, id, sidecar, data, dlen>>
    BY DEF CreateWarm
  <1>4. FitGrows
    BY <1>2, <1>3, FitReturns DEF FitGrows, Pending, Cutting
  <1>5. \A u \in Units : ~Overwritten(u)
    BY <1>3 DEF Overwritten
  <1>6. CASE ReconcileLocks(0, Unknown) /\ Reconcile(0, Unknown)
    BY <1>2, <1>3, <1>4, <1>5, <1>6, ReconcileKeeps, CallReturns DEF Base, Kept
  <1>7. CASE UNCHANGED <<size, nbits, bits, writes, hashes, id, sidecar, data, dlen>>
    <2>1. Store'
      BY <1>2, <1>4, <1>5, <1>7, StoreFrame
    <2>2. Fills'
      BY <1>2, <1>4, <1>7, FillsFrame
    <2> QED  BY <2>1, <2>2, <1>2, <1>3, CallReturns DEF Kept
  <1> QED  BY <1>3, <1>6, <1>7

LEMMA KeptTruncateEntry ==
    ASSUME Base, ~dead, Kept, TruncateEntry
    PROVE  Kept'
PROOF
  <1>1. MutatorStep
    BY DEF MutatorStep
  <1>2. /\ TypeInv /\ Store /\ Fills /\ Call
        /\ UNCHANGED <<originVars, filling, rd, cull, seen, floor>> /\ OriginSeen'
    BY <1>1, MutatorAside
  <1>3. /\ wr.pc = "trunc" /\ wr' = IdleMutator /\ cmu = Free /\ cull.pc = "idle"
        /\ TruncateCacheFd(wr.sz)
        /\ IF size = wr.sz THEN UNCHANGED <<size, bits, nbits, writes, hashes, sidecar>>
           ELSE bits' = {} /\ writes' = writes + 1 /\ ClearHashes
    BY DEF TruncateEntry, FileMuFree
  <1>4. /\ \A r \in Readers : rd[r].pc # "mark"
        /\ \A u \in Units : ~Overwritten(u)
    BY <1>3, MuTaken DEF Base
  <1>5. CASE size # wr.sz
    BY <1>2, <1>3, <1>4, <1>5, WipeKeeps, CallReturns DEF ClearHashes, Kept
  <1>6. CASE size = wr.sz
    <2>1. size = osize
      BY <1>2, <1>3, <1>6 DEF Call, WriteSized
    <2>2. FitGrows
      BY <1>2, <1>3, <2>1, FitReturns DEF FitGrows, Pending
    <2>3. Marked' = Marked /\ UNCHANGED <<size, bits, writes, hashes>>
      BY <1>2, <1>3, <1>6 DEF Marked
    <2>4. \A u \in Units : u < size => data'[u] = data[u] /\ (u < dlen => u < dlen')
      BY <1>3, <1>6 DEF TruncateCacheFd, Cut
    <2>5. Store'
      BY <1>2, <1>4, <2>2, <2>3, <2>4, StoreStands
    <2>6. Fills'
      BY <1>2, <1>4, <2>2, <2>3, FillsFrame
    <2> QED  BY <1>2, <1>3, <2>5, <2>6, CallReturns DEF Kept
  <1> QED  BY <1>5, <1>6

\* The bytes of a write that have reached a file.
Run(k, v) == [j \in 1 .. k |-> v]
Within(u, off, k) == u \in off .. off + k - 1

\* g is f with k bytes v written at off.
Written(g, f, off, k, v) == \A u \in Units : g[u] = IF Within(u, off, k) THEN v ELSE f[u]

LEMMA OverlaidAt ==
    ASSUME NEW f, NEW off \in Nat, NEW k \in Nat, NEW v
    PROVE  Written(Overlay(f, off, Run(k, v)), f, off, k, v)
PROOF
  <1> SUFFICES ASSUME NEW u \in Units
               PROVE  Overlay(f, off, Run(k, v))[u] = IF Within(u, off, k) THEN v ELSE f[u]
    BY DEF Written
  <1> DEFINE s == Run(k, v)
  <1>1. Len(s) = k
    BY DEF Run
  <1>2. Overlay(f, off, s)[u] = IF u \in off .. off + Len(s) - 1 THEN s[u - off + 1] ELSE f[u]
    BY DEF Overlay
  <1>3. u \in Nat
    BY UnitPlace
  <1>4. u \in off .. off + k - 1 => s[u - off + 1] = v
    BY <1>3 DEF Run
  <1> HIDE DEF s
  <1>5. Overlay(f, off, s)[u] = IF u \in off .. off + k - 1 THEN v ELSE f[u]
    BY <1>1, <1>2, <1>4
  <1> QED  BY <1>5 DEF s, Within

LEMMA KeptCopyPwrite ==
    ASSUME Base, ~dead, Kept, CopyPwrite
    PROVE  Kept'
PROOF
  <1>1. MutatorStep
    BY DEF MutatorStep
  <1>2. /\ TypeInv /\ Store /\ Fills /\ Call
        /\ UNCHANGED <<originVars, filling, rd, cull, seen, floor>> /\ OriginSeen'
    BY <1>1, MutatorAside
  <1>3. /\ wr.pc = "copy" /\ cmu = Free /\ cull.pc = "idle"
        /\ UNCHANGED <<size, bits, writes, hashes, filling>>
    BY DEF CopyPwrite, FileMuFree
  <1>4. wr \in Wr
    BY <1>2, MutatorTyped DEF MutatorTypes
  <1>5. wr'.pc = "mark"
    BY <1>4 DEF CopyPwrite, Wr
  <1>6. wr'.kind = wr.kind /\ wr'.off = wr.off /\ wr'.len = wr.len /\ wr'.val = wr.val /\ wr'.before = wr.before
    BY <1>1, <1>2, <1>5, MutatorPlaces DEF IdleMutator
  <1>7. \A u \in Units : \A x : Fit(u, x) => Fit(u, x)'
    BY <1>2, <1>3, <1>5, <1>6, FitProceeds DEF Writing
  <1>8. FitGrows
    BY <1>7 DEF FitGrows
  <1>9. \A r \in Readers : rd[r].pc # "mark" /\ \A u \in Units : ~Overwritten(u)
    BY <1>3, MuTaken DEF Base
  <1>10. /\ wr.off \in Nat /\ wr.len \in Nat /\ wr.kind = "write" /\ wr.off + wr.len \in 0 .. MaxSize
         /\ dlen \in 0 .. MaxSize /\ MaxSize \in Nat
    BY <1>2, <1>3, WrFields, MutatorTyped, Sizes DEF Writing, MutatorSteady, TypeInv, TypeOK, DataTypes
  <1>11. WriteKnown' /\ WriteSized' /\ IdleBefore'
    BY <1>2, <1>3, <1>5, <1>6 DEF Call, WriteKnown, WriteSized, IdleBefore, Writing, Span
  <1>12. ASSUME wr'.copied = FALSE, UNCHANGED <<data, dlen>> PROVE Kept'
    <2>1. Store'
      BY <1>2, <1>3, <1>8, <1>12, <1>9, StoreFrame DEF Overwritten
    <2>2. Fills'
      BY <1>2, <1>3, <1>8, <1>12, FillsFrame
    <2> QED  BY <1>2, <1>11, <1>12, <2>1, <2>2 DEF Kept, Call, WriteLanded
  <1>13. ASSUME xfer = {}, NEW k \in 0 .. wr.len,
                data' = Overlay(data, wr.off, [j \in 1 .. k |-> wr.val]),
                dlen' = IF k = 0 THEN dlen ELSE Extend(dlen, wr.off + k),
                wr'.copied = (k = wr.len)
         PROVE  Kept'
    <2>1. \A r \in Readers : ~Reading(r)
      BY <1>13 DEF Base, Locks
    <2>2. Fills'
      BY <1>2, <1>3, <2>1, FillsAbsent DEF Fills
    <2>3. k \in Nat /\ k <= wr.len
      BY <1>10
    <2>4. \A u \in Units : data'[u] = IF u \in wr.off .. wr.off + k - 1 THEN wr.val ELSE data[u]
      <3> TAKE u \in Units
      <3>1. data' = Overlay(data, wr.off, Run(k, wr.val))
        BY <1>13 DEF Run
      <3>2. wr.off \in Nat /\ k \in Nat
        BY <1>10, <2>3
      <3>3. Written(Overlay(data, wr.off, Run(k, wr.val)), data, wr.off, k, wr.val)
        BY <3>2, OverlaidAt
      <3> QED  BY <3>1, <3>3 DEF Written, Within
    <2>5. \A u \in wr.off .. wr.off + k - 1 : u \in Span
      BY <1>10, <2>3 DEF Span
    <2>6. dlen' >= dlen /\ dlen' \in Nat /\ (k # 0 => dlen' >= wr.off + k)
      BY <1>10, <1>13, <2>3 DEF Extend
    <2>7. ASSUME NEW u \in Units, u \in Span PROVE Fit(u, wr.val)'
      <3>1. u < osize /\ odata[u] = wr.val
        BY <1>2, <1>3, <2>7 DEF Call, WriteKnown, Writing
      <3>2. Pending(u)'
        BY <1>5, <1>6, <1>10, <2>7 DEF Pending, Span
      <3>3. wr.val \in Held(u)'
        BY <3>1, <1>2 DEF Held
      <3>4. \A x : x = wr.val => Exact(u, x)' /\ Fresh(u, x)' /\ Returnable(u, x)'
        BY <3>2, <3>3, <2>1, <1>2 DEF Exact, Fresh, Returnable, Reading
      <3> QED  BY <3>4, <1>6 DEF Fit
    <2>8. Marked = bits /\ Marked' = bits
      BY <1>2, <1>3 DEF Marked
    <2>9. MarksFit'
      <3> SUFFICES ASSUME NEW u \in Units, u \div PS \in bits, u < size
                   PROVE  u < dlen' /\ Fit(u, data[u])'
        BY <1>3, <2>8 DEF MarksFit
      <3>1. u < dlen /\ Fit(u, data[u])
        BY <1>2, <2>8 DEF Store, MarksFit
      <3>2. u \in Nat
        BY UnitPlace
      <3>3. CASE data'[u] = data[u]
        <4>1. Fit(u, data[u]) => \A x : x = data'[u] => Fit(u, x)'
          BY <1>7, <3>3
        <4> QED  BY <4>1, <3>1, <3>2, <2>6, <1>10
      <3>4. CASE data'[u] # data[u]
        <4>1. u \in Span /\ data'[u] = wr.val
          BY <3>4, <2>4, <2>5
        <4>2. Fit(u, wr.val)'
          BY <4>1, <2>7
        <4>3. wr'.val = data'[u]
          BY <4>1, <1>6
        <4>4. Fit(u, data[u])'
          BY <4>2, <4>3
        <4> QED  BY <4>4, <3>1, <3>2, <2>6, <1>10
      <3> QED  BY <3>3, <3>4
    <2>10. MarksIn' /\ HashesLong'
      BY <1>2, <1>3, <2>8 DEF Store, MarksIn, HashesLong
    <2>11. HashesFit'
      <3> SUFFICES ASSUME NEW u \in Units, Hashed(u)' PROVE Fit(u, Hash(u))'
        BY DEF HashesFit
      <3>1. Hashed(u) /\ Hash(u)' = Hash(u)
        BY <1>3 DEF Hashed, Hash, At
      <3>2. Fit(u, Hash(u))
        BY <3>1, <1>2 DEF Store, HashesFit
      <3>3. Fit(u, Hash(u)) => \A x : x = Hash(u)' => Fit(u, x)'
        BY <3>1, <1>7
      <3> QED  BY <3>2, <3>3
    <2>12. HashesHeld'
      <3> SUFFICES ASSUME NEW u \in Units, u \div PS \in bits, Hashed(u)'
                   PROVE  data'[u] = Hash(u)' \/ Overwritten(u)'
        BY <2>8 DEF HashesHeld
      <3>1. Hashed(u) /\ Hash(u)' = Hash(u)
        BY <1>3 DEF Hashed, Hash, At
      <3>2. data[u] = Hash(u)
        BY <3>1, <2>8, <1>2, <1>9, <1>3 DEF Store, HashesHeld, Overwritten
      <3>3. data'[u] # data[u] => Overwritten(u)'
        BY <2>4, <2>5, <1>5, <1>6 DEF Overwritten, Span
      <3> QED  BY <3>1, <3>2, <3>3
    <2>13. WriteLanded'
      <3> SUFFICES ASSUME k = wr.len, NEW u \in Span PROVE u < dlen' /\ data'[u] = wr.val
        BY <1>6, <1>13 DEF WriteLanded, Span
      <3>1. u \in Nat /\ u < wr.off + k /\ u \in wr.off .. wr.off + k - 1
        BY <1>10 DEF Span
      <3>2. u \in Units
        BY <3>1, <1>10, <2>3, PiecesType
      <3>3. u < dlen'
        BY <3>1, <1>10, <2>3, <2>6
      <3> QED  BY <3>1, <3>2, <3>3, <2>4
    <2> QED  BY <1>2, <1>11, <2>2, <2>9, <2>10, <2>11, <2>12, <2>13 DEF Kept, Store, Call
  <1>14. \/ wr'.copied = FALSE /\ UNCHANGED <<data, dlen>>
         \/ /\ xfer = {}
            /\ \E k \in {wr.len} \cup (IF Fault("cache") THEN 0 .. wr.len - 1 ELSE {}) :
                /\ data' = Overlay(data, wr.off, [j \in 1 .. k |-> wr.val])
                /\ dlen' = IF k = 0 THEN dlen ELSE Extend(dlen, wr.off + k)
                /\ wr'.copied = (k = wr.len)
    BY <1>4 DEF CopyPwrite, CopyBlocked, xferBusy, CopyLanded, Wr
  <1>15. \A k \in {wr.len} \cup (IF Fault("cache") THEN 0 .. wr.len - 1 ELSE {}) : k \in 0 .. wr.len
    BY <1>10
  <1> QED  BY <1>12, <1>13, <1>14, <1>15

\* A byte that a copy has settled, and one it left alone.
LEMMA OriginFits ==
    ASSUME OriginSeen', NEW u \in Units, u < osize', NEW x, x = odata'[u]
    PROVE  Fit(u, x)'
  BY DEF Fit, Exact, Fresh, Held, Returnable, OriginSeen

\* The pieces of a copy: their bytes are the write's, and a retry of a write
\* of whole pieces is one of exactly these.
LEMMA FullExact ==
    ASSUME TypeInv, Writing
    PROVE  /\ \A u \in Units : u \div PS \in Full => u \in Span
           /\ \A i \in Full : i \in Pieces /\ i * PS + PS <= wr.off + wr.len
           /\ Full # {} /\ Cardinality(Full) * PS = wr.len
                 => \A u \in Units : u \in Span => u \div PS \in Full
PROOF
  <1>1. /\ wr.off \in Nat /\ wr.len \in Nat \ {0} /\ wr.off + wr.len <= MaxSize /\ PS \in Nat \ {0}
        /\ wr.off + wr.len \in Nat
    BY WrFields, Sizes
  <1>2. \A i \in Full : i \in Pieces /\ i \in Nat /\ wr.off <= i * PS /\ i * PS + PS <= wr.off + wr.len
    BY <1>1, FullCoverExact DEF Full
  <1>3. ASSUME NEW u \in Units, u \div PS \in Full PROVE u \in Span
    <2> DEFINE o == (u \div PS) * PS
    <2>1. u \in Nat /\ u \div PS \in Nat /\ o <= u /\ u < o + PS /\ o \in Nat
      BY <1>1, UnitPlace, InPiece
    <2>2. wr.off <= o /\ o + PS <= wr.off + wr.len
      BY <1>2, <1>3
    <2> HIDE DEF o
    <2> QED  BY <1>1, <2>1, <2>2 DEF Span
  <1>4. ASSUME Full # {}, Cardinality(Full) * PS = wr.len, NEW u \in Units, u \in Span
        PROVE  u \div PS \in Full
    <2> DEFINE a == MinOf(DivCeil(wr.off, PS), U32Max)
               b == MinOf((wr.off + wr.len) \div PS, U32Max)
    <2>1. Full = a .. b - 1
      BY <1>1, <1>4, Sizes DEF Full, FullCover, SatAdd, MinOf
    <2>2. a \in Int /\ b \in Int
      <3>1. DivCeil(wr.off, PS) \in Int /\ (wr.off + wr.len) \div PS \in Int
        BY <1>1 DEF DivCeil
      <3> QED  BY <3>1, Sizes DEF MinOf
    <2> HIDE DEF a, b
    <2>3. Cardinality(Full) = IF a > b - 1 THEN 0 ELSE b - 1 - a + 1
      BY <2>1, <2>2, FS_Interval
    <2>4. a <= b - 1
      BY <2>1, <2>2, <1>4
    <2>5. (b - a) * PS = wr.len
      BY <2>2, <2>3, <2>4, <1>4
    <2>6. /\ a \in Nat /\ wr.off <= a * PS
          /\ b - 1 \in Nat /\ (b - 1) * PS + PS <= wr.off + wr.len
      <3>1. a \in Full /\ b - 1 \in Full
        BY <2>1, <2>2, <2>4
      <3> QED  BY <3>1, <1>2
    <2>7. (b - 1) * PS + PS = b * PS /\ (b - a) * PS = b * PS - a * PS
      BY <2>2, <1>1
    <2> DEFINE p == a * PS
               q == b * PS
               i == u \div PS
               o == i * PS
    <2>8. p \in Nat /\ q \in Nat /\ b \in Nat
      BY <2>2, <2>6, <1>1
    <2>9. u \in Nat /\ i \in Nat /\ o <= u /\ u < o + PS /\ o \in Nat
      BY <1>1, UnitPlace, InPiece
    <2>10. i + 1 <= a => o + PS <= p
      BY <1>1, <2>6, <2>9
    <2>11. b <= i => q <= o
      BY <1>1, <2>8, <2>9
    <2>12. wr.off = p /\ wr.off + wr.len = q
      <3> HIDE DEF p, q, o, i
      <3>1. q - p = wr.len /\ wr.off <= p /\ q <= wr.off + wr.len
        BY <2>5, <2>6, <2>7 DEF p, q
      <3> QED  BY <3>1, <2>8, <1>1
    <2> HIDE DEF p, q, o
    <2>13. p <= u /\ u < q
      BY <1>1, <1>4, <2>12, <2>9 DEF Span
    <2> HIDE DEF i
    <2>14. a <= i /\ i <= b - 1
      BY <2>13, <2>10, <2>11, <2>9, <2>8, <2>6, <1>1
    <2>15. i \in a .. b - 1
      BY <2>14, <2>2, <2>9
    <2> QED  BY <2>1, <2>15 DEF i
  <1> QED  BY <1>2, <1>3, <1>4

\* What the end of a copy does to each byte, whatever it marks.
LEMMA MarkSettles ==
    ASSUME Base, ~dead, Kept, CopyMark
    PROVE  /\ TypeInv /\ Store /\ Fills /\ Call /\ Writing /\ Marked = bits /\ Marked' = bits'
           /\ UNCHANGED <<originVars, data, dlen, size, filling, rd, cull, seen, floor>>
           /\ \A r \in Readers : rd[r].pc # "mark"
           /\ Call'
           /\ \A u \in Units : ~Overwritten(u)'
           /\ \A u \in Units : u \notin Span => \A x : Fit(u, x) => Fit(u, x)'
           /\ \A u \in Units : u \in Span => \A x : x = wr.val => Fit(u, x)'
PROOF
  <1>1. MutatorStep
    BY DEF MutatorStep
  <1>2. /\ TypeInv /\ Store /\ Fills /\ Call
        /\ UNCHANGED <<originVars, filling, rd, cull, seen, floor>> /\ OriginSeen'
    BY <1>1, MutatorAside
  <1>3. /\ wr.pc = "mark" /\ cull.pc = "idle" /\ UNCHANGED <<data, dlen, size>> /\ Writing
        /\ wr' = [wr EXCEPT !.pc = "note"] \/ wr' = IdleMutator
    BY DEF CopyMark, FileMuFree, Writing
  <1>4. Marked = bits /\ Marked' = bits'
    BY <1>2, <1>3 DEF Marked
  <1>5. wr' = IdleMutator \/ wr'.pc = "note"
    BY <1>2, <1>3, MutatorTyped DEF MutatorTypes, Wr
  <1>6. \A r \in Readers : rd[r].pc # "mark"
    BY <1>3, ReaderAssumption DEF Base, Locks, Mutator
  <1>7. wr'.pc \in {"note", "idle"}
    BY <1>5 DEF IdleMutator
  <1>8. Call'
    <2>1. IdleBefore'
      BY <1>5 DEF IdleBefore, IdleMutator
    <2> QED  BY <1>2, <1>7, <2>1 DEF Call, WriteKnown, WriteSized, WriteLanded, Writing
  <1>9. \A u \in Units : ~Overwritten(u)'
    BY <1>7 DEF Overwritten
  <1>10. ASSUME NEW u \in Units, u \notin Span, NEW x, Fit(u, x) PROVE Fit(u, x)'
    <2>1. u < osize /\ x = odata[u]
      BY <1>3, <1>10 DEF Fit, Exact, Pending, Span, Cutting
    <2> QED  BY <1>2, <2>1, OriginFits
  <1>11. ASSUME NEW u \in Units, u \in Span, NEW x, x = wr.val PROVE Fit(u, x)'
    <2>1. u < osize /\ x = odata[u]
      BY <1>2, <1>3, <1>11 DEF Call, WriteKnown
    <2> QED  BY <1>2, <2>1, OriginFits
  <1> QED  BY <1>2, <1>3, <1>4, <1>6, <1>8, <1>9, <1>10, <1>11

\* A retry of bytes the cache already holds: the digests of the pieces are of
\* the bytes of the write.
LEMMA KeptRetry ==
    ASSUME Base, ~dead, Kept, CopyMark, AlreadyApplied, UNCHANGED <<bits, hashes, writes>>
    PROVE  Kept'
PROOF
  <1>1. /\ TypeInv /\ Store /\ Fills /\ Call /\ Writing /\ Marked = bits /\ Marked' = bits
        /\ UNCHANGED <<originVars, data, dlen, size, filling, rd, cull, seen, floor>>
        /\ \A r \in Readers : rd[r].pc # "mark"
        /\ Call'
    BY MarkSettles
  <1>2. /\ \A u \in Units : ~Overwritten(u)'
        /\ \A u \in Units : u \notin Span => \A x : Fit(u, x) => Fit(u, x)'
        /\ \A u \in Units : u \in Span => \A x : x = wr.val => Fit(u, x)'
    BY MarkSettles
  <1>3. \A u \in Units : u \in Span => u \div PS \in Full /\ u \div PS \in bits
    BY <1>1, FullExact DEF AlreadyApplied
  <1>4. ASSUME NEW u \in Units, u \in Span
        PROVE  Hash(u) = wr.val /\ data[u] = wr.val
    <2>1. At(u) \in 1 .. PS /\ hashes[u \div PS] = FullPiece(wr.val)
      BY <1>3, <1>4, UnitPlace DEF AlreadyApplied
    <2>2. Hashed(u) /\ Hash(u) = wr.val
      BY <2>1 DEF Hashed, Hash, FullPiece
    <2>3. data[u] = Hash(u) \/ data[u] = wr.val
      BY <2>2, <1>1, <1>3, <1>4 DEF Store, HashesHeld, Overwritten
    <2> QED  BY <2>2, <2>3
  <1>5. MarksFit'
    <2> SUFFICES ASSUME NEW u \in Units, u \div PS \in bits, u < size
                 PROVE  u < dlen /\ Fit(u, data[u])'
      BY <1>1 DEF MarksFit
    <2>1. u < dlen /\ Fit(u, data[u])
      BY <1>1 DEF Store, MarksFit
    <2>2. \A x : x = data'[u] => Fit(u, x)'
      BY <2>1, <1>1, <1>2, <1>4
    <2> QED  BY <2>1, <2>2
  <1>6. MarksIn' /\ HashesLong'
    BY <1>1 DEF Store, MarksIn, HashesLong
  <1>7. \A u \in Units : (Hashed(u)' <=> Hashed(u)) /\ Hash(u)' = Hash(u)
    BY DEF Hashed, Hash, At
  <1>8. HashesFit'
    <2> SUFFICES ASSUME NEW u \in Units, Hashed(u) PROVE Fit(u, Hash(u))'
      BY <1>7 DEF HashesFit
    <2>1. Fit(u, Hash(u))
      BY <1>1 DEF Store, HashesFit
    <2>2. \A x : x = Hash(u)' => Fit(u, x)'
      BY <2>1, <1>2, <1>4, <1>7
    <2> QED  BY <2>2
  <1>9. HashesHeld'
    <2> SUFFICES ASSUME NEW u \in Units, u \div PS \in bits, Hashed(u) PROVE data[u] = Hash(u)
      BY <1>1, <1>7 DEF HashesHeld
    <2>1. data[u] = Hash(u) \/ u \in Span
      BY <1>1 DEF Store, HashesHeld, Overwritten
    <2> QED  BY <2>1, <1>4
  <1>10. ASSUME NEW r \in Readers PROVE FillSound(r)'
    <2>1. FillSound(r) /\ rd[r].pc # "mark" /\ rd'[r] = rd[r]
      BY <1>1 DEF Fills
    <2>2. Current(r)' <=> Current(r)
      BY <1>1 DEF Current, ClaimStands
    <2>3. ASSUME Current(r), NEW u \in Units, Carries(r, u)
          PROVE  Fit(u, rd[r].buf[At(u)])'
      <3>1. Fit(u, rd[r].buf[At(u)])
        BY <2>1, <2>3 DEF FillSound, FillFits
      <3>2. u \notin Span
        BY <2>3, <1>3 DEF Carries, Current
      <3>3. Fit(u, rd[r].buf[At(u)]) => \A x : x = (rd[r].buf[At(u)])' => Fit(u, x)'
        BY <3>2, <1>1, <1>2 DEF At
      <3> QED  BY <3>1, <3>3
    <2>4. FillFits(r)'
      BY <1>1, <2>2, <2>3 DEF FillFits, Carries, At
    <2> QED  BY <1>1, <2>1, <2>4 DEF FillSound, FillLong, FillIn, AbortFails, Filling
  <1>11. FillsOld'
    BY <1>1 DEF Fills, FillsOld
  <1> QED  BY <1>1, <1>5, <1>6, <1>8, <1>9, <1>10, <1>11 DEF Kept, Store, Fills

\* The pieces a copy filled are marked, the ones it may have spoilt unmarked.
LEMMA KeptCopyMark ==
    ASSUME Base, ~dead, Kept, CopyMark
    PROVE  Kept'
PROOF
  <1>1. /\ TypeInv /\ Store /\ Fills /\ Call /\ Writing /\ Marked = bits /\ Marked' = bits'
        /\ UNCHANGED <<originVars, data, dlen, size, filling, rd, cull, seen, floor>>
        /\ \A r \in Readers : rd[r].pc # "mark"
        /\ Call'
    BY MarkSettles
  <1>2. /\ \A u \in Units : ~Overwritten(u)'
        /\ \A u \in Units : u \notin Span => \A x : Fit(u, x) => Fit(u, x)'
        /\ \A u \in Units : u \in Span => \A x : x = wr.val => Fit(u, x)'
    BY MarkSettles
  <1>3. CASE AlreadyApplied /\ UNCHANGED <<bits, hashes, writes>>
    BY <1>3, KeptRetry
  <1>4. ASSUME /\ writes' = writes + 1
               /\ bits' = IF wr.copied THEN bits \cup InField(Full) ELSE bits \ Touched
               /\ hashes' = [i \in Pieces |->
                          IF wr.copied /\ i \in Full THEN FullPiece(wr.val)
                          ELSE IF i \in Touched THEN NoHash
                          ELSE hashes[i]]
        PROVE  Kept'
    <2>1. /\ wr.pc = "mark" /\ wr.off \in Nat /\ wr.len \in Nat \ {0} /\ wr.val \in Val
          /\ size \in 0 .. MaxSize /\ wr.off + wr.len <= size /\ MaxSize \in Nat
      BY <1>1, WrFields, Sizes DEF CopyMark, Call, WriteSized, TypeInv, TypeOK, EntryTypes
    <2>2. /\ \A u \in Units : u \div PS \in Full => u \in Span
          /\ \A i \in Full : i \in Pieces /\ i * PS + PS <= wr.off + wr.len
      BY <1>1, FullExact
    <2>3. ASSUME NEW u \in Units, u \in Span, u < size PROVE u \div PS \in Touched
      <3>1. u \in Nat /\ wr.off <= u /\ u < wr.off + wr.len
        BY <2>1, <2>3, UnitPlace DEF Span
      <3>2. wr.off < size
        BY <2>1
      <3> QED  BY <3>1, <3>2, <2>1, <2>3, CoverExact DEF Touched
    <2>4. wr.copied => \A u \in Units : u \in Span => u < dlen /\ data[u] = wr.val
      BY <1>1, <2>1 DEF Call, WriteLanded
    <2>5. ASSUME NEW u \in Units, u \div PS \in bits', u < size
          PROVE  \/ u \in Span /\ u < dlen /\ data[u] = wr.val
                 \/ u \notin Span /\ u \div PS \in bits
      BY <1>4, <2>2, <2>3, <2>4, <2>5 DEF InField
    <2>6. \A i \in Pieces : hashes'[i] = IF wr.copied /\ i \in Full THEN FullPiece(wr.val)
                                         ELSE IF i \in Touched THEN NoHash ELSE hashes[i]
      BY <1>4
    <2>7. ASSUME NEW u \in Units, Hashed(u)'
          PROVE  \/ u \in Span /\ u < dlen /\ data[u] = wr.val /\ Hash(u)' = wr.val
                 \/ u \notin Span /\ Hashed(u) /\ Hash(u)' = Hash(u) /\ u < size
      <3>1. u \div PS \in Pieces /\ At(u) \in 1 .. PS
        BY UnitPlace
      <3>2. CASE wr.copied /\ u \div PS \in Full
        <4>1. hashes'[u \div PS] = FullPiece(wr.val)
          BY <3>1, <3>2, <2>6
        <4>2. Hash(u)' = wr.val
          BY <4>1, <3>1 DEF Hash, At, FullPiece
        <4> QED  BY <4>2, <3>2, <2>2, <2>4
      <3>3. CASE ~(wr.copied /\ u \div PS \in Full)
        <4>1. u \div PS \notin Touched /\ hashes'[u \div PS] = hashes[u \div PS]
          BY <3>1, <3>3, <2>6, <2>7 DEF Hashed, NoHash
        <4>2. Hashed(u) /\ Hash(u)' = Hash(u)
          BY <4>1, <2>7 DEF Hashed, Hash, At
        <4>3. u < size
          BY <4>2, <1>1, HashedBelow DEF Store
        <4> QED  BY <4>1, <4>2, <4>3, <2>3
      <3> QED  BY <3>2, <3>3
    <2>8. MarksFit'
      <3> SUFFICES ASSUME NEW u \in Units, u \div PS \in bits', u < size
                   PROVE  u < dlen /\ Fit(u, data[u])'
        BY <1>1 DEF MarksFit
      <3>1. u \notin Span /\ u \div PS \in bits => u < dlen /\ Fit(u, data[u])
        BY <1>1 DEF Store, MarksFit
      <3>2. u < dlen /\ \A x : x = data'[u] => Fit(u, x)'
        BY <3>1, <2>5, <1>1, <1>2
      <3> QED  BY <3>2
    <2>9. MarksIn'
      <3> SUFFICES ASSUME NEW i \in bits' PROVE i * PS < size
        BY <1>1 DEF MarksIn
      <3>1. i \in bits => i * PS < size
        BY <1>1 DEF Store, MarksIn
      <3>2. ASSUME i \in Full PROVE i * PS < size
        <4>1. i \in Nat /\ PS \in Nat \ {0} /\ i * PS \in Nat
          <5>1. i \in Pieces
            BY <2>2, <3>2
          <5>2. i \in Nat
            BY <5>1, Constants
          <5> QED  BY <2>1, <5>2, PieceLength, Sizes
        <4>2. i * PS + PS <= wr.off + wr.len
          BY <2>2, <3>2
        <4> DEFINE o == i * PS
        <4> HIDE DEF o
        <4>3. o < size
          BY <4>1, <4>2, <2>1 DEF o
        <4> QED  BY <4>3 DEF o
      <3> QED  BY <3>1, <3>2, <1>4 DEF InField
    <2>10. HashesFit'
      <3> SUFFICES ASSUME NEW u \in Units, Hashed(u)' PROVE Fit(u, Hash(u))'
        BY DEF HashesFit
      <3>1. Hashed(u) => Fit(u, Hash(u))
        BY <1>1 DEF Store, HashesFit
      <3>2. \A x : x = Hash(u)' => Fit(u, x)'
        BY <3>1, <2>7, <1>2
      <3> QED  BY <3>2
    <2>11. HashesLong'
      <3> SUFFICES ASSUME NEW i \in Pieces, hashes'[i] # NoHash PROVE Len(hashes'[i]) = PLen(size, i)
        BY <1>1 DEF HashesLong
      <3>1. CASE wr.copied /\ i \in Full
        <4>1. i \in Nat /\ PS \in Nat \ {0} /\ i * PS \in Nat /\ i * PS + PS <= wr.off + wr.len
          BY <2>2, <3>1, Constants, Sizes
        <4>2. PLen(size, i) = IF i * PS >= size THEN 0 ELSE IF size - i * PS <= PS THEN size - i * PS ELSE PS
          BY <4>1, <2>1, PieceLength
        <4> DEFINE o == i * PS
        <4> HIDE DEF o
        <4>3. PLen(size, i) = PS
          BY <4>1, <4>2, <2>1 DEF o
        <4>4. hashes'[i] = FullPiece(wr.val)
          BY <2>6, <3>1
        <4>5. Len(FullPiece(wr.val)) = PS
          BY <2>1, <4>1, FilledType DEF FullPiece
        <4> QED  BY <4>3, <4>4, <4>5
      <3>2. CASE ~(wr.copied /\ i \in Full)
        <4>1. hashes'[i] = hashes[i]
          BY <3>2, <2>6
        <4> QED  BY <4>1, <1>1 DEF Store, HashesLong
      <3> QED  BY <3>1, <3>2
    <2>12. HashesHeld'
      <3> SUFFICES ASSUME NEW u \in Units, u \div PS \in bits', Hashed(u)' PROVE data[u] = Hash(u)'
        BY <1>1 DEF HashesHeld
      <3>1. CASE u \in Span
        BY <2>7, <3>1
      <3>2. CASE u \notin Span
        <4>1. Hashed(u) /\ Hash(u)' = Hash(u) /\ u \div PS \in bits
          BY <2>5, <2>7, <3>2
        <4>2. ~Overwritten(u)
          BY <3>2 DEF Overwritten
        <4> QED  BY <4>1, <4>2, <1>1 DEF Store, HashesHeld
      <3> QED  BY <3>1, <3>2
    <2>13. Fills'
      BY <1>1, <1>4, FillsOutdated
    <2> QED  BY <1>1, <2>8, <2>9, <2>10, <2>11, <2>12, <2>13 DEF Kept, Store
  <1>5. ~Purged
    BY DEF Purged
  <1> QED  BY <1>3, <1>4, <1>5 DEF CopyMark

-----------------------------------------------------------------------------
(* A call begins: Kept is kept *)

LEMMA BegunBefore ==
    ASSUME TypeInv, NEW pc \in {"stat", "trunc", "distrust"}, NEW kind \in {"none", "write", "truncate", "create"}
    PROVE  Begun(pc, kind).before = [u \in Units |-> Held(u)]
  BY IdleMutatorSteady DEF Begun, Wr

\* The bytes kept are the origin's, and the call remembers what it replaces.
LEMMA BeginKeeps ==
    ASSUME Base, ~dead, Kept, OriginTypes', NEW kind, Mutation(kind), Observe,
           wr'.before = [u \in Units |-> Held(u)], wr'.pc \in {"stat", "trunc", "distrust"},
           \A u \in Units : u < osize /\ ~Pending(u)' =>
               /\ u < osize' => odata'[u] = odata[u]
               /\ ~Cutting' => u < osize'
    PROVE  Store' /\ Fills' /\ OriginSeen' /\ IdleBefore' /\ WriteLanded'
PROOF
  <1>1. TypeInv /\ Store /\ Fills /\ Call
    BY DEF Base, Kept
  <1>2. /\ UNCHANGED <<data, dlen, size, bits, filling, writes, hashes, rd, cull>>
        /\ wr.pc = "idle"
    BY DEF Mutation
  <1>3. /\ \A r \in Readers : \A u \in Units :
             seen'[r][u] = IF Reading(r) /\ u < osize' THEN seen[r][u] \cup {odata'[u]} ELSE seen[r][u]
        /\ \A r \in Readers :
             floor'[r] = IF Reading(r) /\ osize' < osize THEN MinOf(floor[r], osize') ELSE floor[r]
    BY DEF Observe
  <1>4. OriginSeen'
    BY <1>1, <1>2, <1>3 DEF OriginSeen, Reading
  <1>5. ASSUME NEW u \in Units, NEW x, Fit(u, x) PROVE Fit(u, x)'
    <2>1. u < osize /\ x = odata[u]
      BY <1>2, <1>5 DEF Fit, Exact, Pending, Cutting
    <2>2. Exact(u, x)'
      BY <2>1 DEF Exact
    <2>3. Fresh(u, x)'
      <3>1. x \in Held(u)
        BY <2>1 DEF Held
      <3> QED  BY <3>1 DEF Fresh
    <2>4. Returnable(u, x)'
      <3> SUFFICES ASSUME NEW r \in Readers, Reading(r), u < floor'[r] PROVE x \in seen'[r][u]
        BY <1>2 DEF Returnable, Reading
      <3>1. floor[r] \in 0 .. MaxSize /\ osize' \in 0 .. MaxSize /\ MaxSize \in Nat /\ u \in Nat
        BY <1>1, Sizes, UnitPlace DEF OriginTypes, TypeInv, TypeOK, HistoryTypes
      <3>2. u < floor[r]
        BY <3>1, <1>3 DEF MinOf
      <3>3. x \in seen[r][u]
        BY <3>2, <1>5 DEF Fit, Returnable
      <3> QED  BY <3>3, <1>3
    <2> QED  BY <2>2, <2>3, <2>4 DEF Fit
  <1>6. FitGrows
    BY <1>5 DEF FitGrows
  <1>7. Store'
    BY <1>1, <1>2, <1>6, StoreFrame DEF Overwritten
  <1>8. Fills'
    BY <1>1, <1>2, <1>6, FillsFrame
  <1> QED  BY <1>4, <1>7, <1>8 DEF IdleBefore, WriteLanded

LEMMA KeptWriteOrigin ==
    ASSUME Base, ~dead, Kept, NEW s \in load.writes, NEW v \in Vals, WriteOrigin(s, v)
    PROVE  Kept'
PROOF
  <1>1. TypeInv /\ OriginTypes
    BY DEF Base, TypeInv, TypeOK
  <1>2. OriginTypes'
    BY <1>1, TypeWriteOrigin DEF TypeInv, TypeOK
  <1>3. s \in Spans
    BY <1>1 DEF TypeInv, TypeOK, HistoryTypes, Workload
  <1>4. s[1] \in Nat /\ s[2] \in Nat /\ s[2] > 0 /\ s[1] + s[2] <= MaxSize /\ v \in Val /\ MaxSize \in Nat
    BY <1>3, Sizes DEF Spans, Val
  <1>5. Mutation("write") /\ Observe
    BY DEF WriteOrigin
  <1>6. PICK k \in 0 .. s[2], pc \in {"stat", "distrust"} :
            /\ OriginPwrite(s[1], k, v)
            /\ \/ /\ pc = "stat" /\ k = s[2]
                  /\ wr' = [Begun(pc, "write") EXCEPT !.off = s[1], !.len = s[2], !.val = v,
                                                     !.sz = osize, !.obs = oid]
               \/ /\ pc = "distrust"
                  /\ wr' = [Begun(pc, "write") EXCEPT !.off = s[1], !.len = s[2], !.val = v]
    <2>1. s[2] \in 0 .. s[2]
      BY <1>4
    <2> QED  BY <2>1 DEF WriteOrigin
  <1>7. k \in Nat /\ k <= s[2]
    BY <1>4
  <1>8. /\ wr'.pc = pc /\ wr'.kind = "write" /\ wr'.off = s[1] /\ wr'.len = s[2] /\ wr'.val = v
        /\ wr'.before = [u \in Units |-> Held(u)]
        /\ pc = "stat" => wr'.sz = osize
    <2> DEFINE b == Begun(pc, "write")
               f == [u \in Units |-> Held(u)]
    <2>1. b \in Wr /\ b.pc = pc /\ b.kind = "write" /\ b.before = f
      BY <1>1, TypeBegun, BegunBefore
    <2>2. \/ wr' = [b EXCEPT !.off = s[1], !.len = s[2], !.val = v, !.sz = osize, !.obs = oid]
          \/ pc = "distrust" /\ wr' = [b EXCEPT !.off = s[1], !.len = s[2], !.val = v]
      BY <1>6
    <2> HIDE DEF b, f
    <2>3. /\ wr'.pc = pc /\ wr'.kind = "write" /\ wr'.off = s[1] /\ wr'.len = s[2] /\ wr'.val = v
          /\ wr'.before = f
          /\ pc = "stat" => wr'.sz = osize
      BY <2>1, <2>2 DEF Wr
    <2> QED  BY <2>3 DEF f
  <1>9. ASSUME NEW u \in Units
        PROVE  /\ Within(u, s[1], k) => odata'[u] = v /\ u < osize'
               /\ ~Within(u, s[1], k) => odata'[u] = odata[u]
               /\ u < osize => u < osize'
    <2>1. odata' = Overlay(odata, s[1], Run(k, v))
      BY <1>6 DEF OriginPwrite, Run
    <2>2. Written(Overlay(odata, s[1], Run(k, v)), odata, s[1], k, v)
      <3>1. s[1] \in Nat /\ k \in Nat
        BY <1>4, <1>7
      <3> QED  BY <3>1, OverlaidAt
    <2>3. osize' = IF k = 0 THEN osize ELSE Extend(osize, s[1] + k)
      BY <1>6 DEF OriginPwrite
    <2>4. osize \in Nat /\ u \in Nat
      BY <1>1, Sizes, UnitPlace DEF OriginTypes
    <2>5. u < osize => u < osize'
      BY <2>3, <2>4, <1>4, <1>7 DEF Extend
    <2>6. Within(u, s[1], k) => u < osize'
      BY <2>3, <2>4, <1>4, <1>7 DEF Extend, Within
    <2> QED  BY <2>1, <2>2, <2>5, <2>6 DEF Written
  <1>10. ASSUME NEW u \in Units, ~Pending(u)' PROVE ~Within(u, s[1], k)
    BY <1>4, <1>7, <1>8, <1>10 DEF Pending, Within
  <1>11. Store' /\ Fills' /\ OriginSeen' /\ IdleBefore' /\ WriteLanded'
    BY <1>2, <1>5, <1>8, <1>9, <1>10, BeginKeeps
  <1>12. WriteKnown'
    <2> SUFFICES ASSUME pc = "stat", NEW u \in s[1] .. s[1] + s[2] - 1
                 PROVE  u < osize' /\ odata'[u] = v
      BY <1>8 DEF WriteKnown, Writing, Span
    <2>1. u \in Units /\ Within(u, s[1], k)
      BY <1>4, <1>6, PiecesType DEF Within
    <2> QED  BY <2>1, <1>9
  <1>13. osize <= osize' /\ (osize' = osize \/ osize' = s[1] + k)
    <2>1. osize \in Nat /\ (osize' = osize \/ osize' = Extend(osize, s[1] + k))
      BY <1>1, <1>6, Sizes DEF OriginPwrite, OriginTypes
    <2> QED  BY <2>1, <1>4, <1>7 DEF Extend
  <1>14. WriteSized'
    <2>1. pc = "stat" => k = s[2]
      BY <1>6
    <2> QED  BY <1>8, <1>13, <2>1 DEF WriteSized
  <1> QED  BY <1>11, <1>12, <1>14 DEF Kept, Call

LEMMA KeptTruncateOrigin ==
    ASSUME Base, ~dead, Kept, NEW n \in load.sizes, TruncateOrigin(n)
    PROVE  Kept'
PROOF
  <1>1. TypeInv /\ OriginTypes
    BY DEF Base, TypeInv, TypeOK
  <1>2. OriginTypes'
    BY <1>1, TypeTruncateOrigin DEF TypeInv, TypeOK
  <1>3. Mutation("truncate") /\ Observe /\ osize' = n /\ odata' = Cut(odata, n)
    BY DEF TruncateOrigin
  <1>4. wr'.pc = "trunc" /\ wr'.sz = n /\ wr'.before = [u \in Units |-> Held(u)]
    <2> DEFINE b == Begun("trunc", "truncate")
               f == [u \in Units |-> Held(u)]
    <2>1. b \in Wr /\ b.pc = "trunc" /\ b.before = f
      BY <1>1, TypeBegun, BegunBefore
    <2>2. wr' = [b EXCEPT !.sz = n]
      BY DEF TruncateOrigin
    <2> HIDE DEF b, f
    <2>3. wr'.pc = "trunc" /\ wr'.sz = n /\ wr'.before = f
      BY <2>1, <2>2 DEF Wr
    <2> QED  BY <2>3 DEF f
  <1>5. \A u \in Units : u < osize' => odata'[u] = odata[u]
    BY <1>3 DEF Cut
  <1>6. Cutting'
    BY <1>4 DEF Cutting
  <1>7. Store' /\ Fills' /\ OriginSeen' /\ IdleBefore' /\ WriteLanded'
    BY <1>2, <1>3, <1>4, <1>5, <1>6, BeginKeeps
  <1> QED  BY <1>3, <1>4, <1>7 DEF Kept, Call, WriteKnown, WriteSized, Writing

LEMMA KeptCreateOrigin ==
    ASSUME Base, ~dead, Kept, CreateOrigin
    PROVE  Kept'
PROOF
  <1>1. TypeInv /\ OriginTypes
    BY DEF Base, TypeInv, TypeOK
  <1>2. OriginTypes'
    BY <1>1, TypeCreateOrigin DEF TypeInv, TypeOK
  <1>3. Mutation("create") /\ Observe /\ osize' = 0 /\ wr' = Begun("distrust", "create")
    BY DEF CreateOrigin
  <1>4. wr'.pc = "distrust" /\ wr'.before = [u \in Units |-> Held(u)]
    BY <1>1, <1>3, TypeBegun, BegunBefore
  <1>5. \A u \in Units : ~(u < osize')
    BY <1>3, UnitPlace
  <1>6. Cutting'
    BY <1>4 DEF Cutting
  <1>7. Store' /\ Fills' /\ OriginSeen' /\ IdleBefore' /\ WriteLanded'
    BY <1>2, <1>3, <1>4, <1>5, <1>6, BeginKeeps
  <1> QED  BY <1>4, <1>7 DEF Kept, Call, WriteKnown, WriteSized, Writing

-----------------------------------------------------------------------------
(* The culler, the names and the rest: Kept is kept *)

\* A step that leaves the threads and the origin alone.
LEMMA ThreadsAside ==
    ASSUME Base, ~dead, Kept, UNCHANGED <<originVars, wr, rd, seen, floor>>
    PROVE  /\ TypeInv /\ Store /\ Fills /\ Call /\ Locks
           /\ FitGrows
           /\ \A q \in Readers : Reading(q)' => Reading(q) /\ seen'[q] = seen[q]
PROOF
  <1>1. TypeInv /\ Store /\ Fills /\ Call /\ Locks
    BY DEF Base, Kept
  <1>2. \A q \in Readers : Reading(q)' => Reading(q) /\ seen'[q] = seen[q] /\ floor'[q] = floor[q]
    BY DEF Reading
  <1>3. FitGrows
    BY <1>2, FitKept DEF FitGrows
  <1> QED  BY <1>1, <1>2, <1>3

LEMMA KeptPunch ==
    ASSUME Base, ~dead, Kept, PunchClear \/ PunchCut
    PROVE  Kept'
PROOF
  <1>1. UNCHANGED <<originVars, wr, rd, seen, floor, size, hashes, filling, writes>>
    BY DEF PunchClear, PunchCut
  <1>2. /\ TypeInv /\ Store /\ Fills /\ Call /\ Locks
        /\ FitGrows
        /\ \A q \in Readers : Reading(q)' => Reading(q) /\ seen'[q] = seen[q]
    BY <1>1, ThreadsAside
  <1>3. xfer = {} /\ wr.pc # "mark"
    <2>1. CASE PunchClear
      BY <2>1, <1>2, MuTaken DEF PunchClear, Punchable, xferBusy
    <2>2. CASE PunchCut
      <3>1. Culler # Mutator
        BY DEF Culler, Mutator
      <3> QED  BY <2>2, <3>1, <1>2 DEF PunchCut, Locks
    <2> QED  BY <2>1, <2>2
  <1>4. \A r \in Readers : ~Reading(r)
    BY <1>2, <1>3 DEF Locks
  <1>5. Fills'
    BY <1>1, <1>2, <1>4, FillsAbsent DEF Fills
  <1>6. Call'
    BY <1>1, <1>2, <1>3, CallKept
  <1>7. \A u \in Units : ~Overwritten(u)
    BY <1>3 DEF Overwritten
  <1>8. CASE PunchClear
    <2>1. /\ cull.pc = "idle" /\ bits # {} /\ bits' = bits \ {LastSet} /\ UNCHANGED <<data, dlen>>
          /\ cull' = [pc |-> "cut", i |-> LastSet]
      BY <1>8 DEF PunchClear
    <2>2. LastSet \in bits
      <3>1. bits \subseteq Pieces
        BY <1>2 DEF TypeInv, TypeOK, EntryTypes
      <3>2. \E i \in bits : \A j \in bits : j <= i
        BY <2>1, <3>1, LastMark
      <3> QED  BY <3>2 DEF LastSet
    <2>3. Marked' = bits' \cup {LastSet} /\ Marked = bits
      BY <2>1 DEF Marked
    <2>4. Marked' \subseteq Marked
      BY <2>1, <2>2, <2>3
    <2>5. Store'
      BY <1>1, <1>2, <1>7, <2>1, <2>4, StoreStands
    <2> QED  BY <1>5, <1>6, <2>5 DEF Kept
  <1>9. CASE PunchCut
    <2>1. cull.pc = "cut" /\ cull'.pc = "idle" /\ UNCHANGED dlen /\ cull.i \notin bits
      BY <1>9 DEF PunchCut, Base, PunchUnmarked
    <2>2. \/ /\ data' = [u \in Units |-> IF u \div PS = cull.i /\ u < size THEN Hole ELSE data[u]]
             /\ UNCHANGED bits
          \/ bits' = bits \cup InField({cull.i}) /\ UNCHANGED data
      BY <1>9 DEF PunchCut
    <2>3. Marked = bits \cup {cull.i} /\ Marked' = bits'
      BY <2>1 DEF Marked
    <2>4. Marked' \subseteq Marked
      BY <2>2, <2>3 DEF InField
    <2>5. \A u \in Units : u \div PS \in Marked' => data'[u] = data[u]
      BY <2>1, <2>2, <2>3
    <2>6. Store'
      BY <1>1, <1>2, <1>7, <2>1, <2>4, <2>5, StoreStands
    <2> QED  BY <1>5, <1>6, <2>6 DEF Kept
  <1> QED  BY <1>8, <1>9

\* A step that changes nothing of the entry but its sidecar.
LEMMA KeptAside ==
    ASSUME Base, ~dead, Kept, UNCHANGED vars \/ PunchSaveFails
    PROVE  Kept'
PROOF
  <1>1. UNCHANGED <<originVars, data, dlen, entryVars, threadVars, seen, floor>>
    BY DEF vars, PunchSaveFails
  <1>2. /\ TypeInv /\ Store /\ Fills /\ Call /\ Locks
        /\ FitGrows
        /\ \A q \in Readers : Reading(q)' => Reading(q) /\ seen'[q] = seen[q]
    BY <1>1, ThreadsAside
  <1>3. Store'
    <2>1. UNCHANGED <<data, dlen, size, bits, hashes, cull, wr>>
      BY <1>1
    <2>2. \A u \in Units : Overwritten(u) => Overwritten(u)'
      BY <2>1 DEF Overwritten, Span
    <2> QED  BY <2>1, <2>2, <1>2, StoreFrame
  <1>4. Fills'
    BY <1>1, <1>2, FillsFrame
  <1>5. Call'
    BY <1>1, <1>2, CallKept
  <1> QED  BY <1>3, <1>4, <1>5 DEF Kept

\* Once forgotten the entry vouches for nothing more.
LEMMA KeptUnlink ==
    ASSUME Base, UnlinkForget \/ UnlinkOrigin \/ UnlinkPurge
    PROVE  Kept'
PROOF
  <1>1. dead'
    BY DEF UnlinkForget, UnlinkOrigin, UnlinkPurge, Base, Locks
  <1> QED  BY <1>1 DEF Kept

LEMMA DeadStays ==
    ASSUME Base, dead, [Next]_vars
    PROVE  dead'
PROOF
  <1>1. TypeInv /\ Alone
    BY DEF Base
  <1>2. CASE UNCHANGED vars
    BY <1>2 DEF vars
  <1>3. ASSUME NEW r \in Readers, ReadStep(r) PROVE UNCHANGED dead
    BY <1>1, <1>3, ReadPlaces
  <1>4. MutatorStep => UNCHANGED dead
    BY <1>1, MutatorLocks
  <1>5. ASSUME \/ \E r \in Readers : \E s \in load.reads : ReadBegin(r, s)
               \/ \E s \in load.writes, v \in Vals : WriteOrigin(s, v)
               \/ \E n \in load.sizes : TruncateOrigin(n)
               \/ CreateOrigin
        PROVE  UNCHANGED dead
    BY <1>5 DEF ReadBegin, WriteOrigin, TruncateOrigin, CreateOrigin, Mutation
  <1>6. ASSUME UnlinkForget \/ UnlinkOrigin \/ UnlinkPurge PROVE dead'
    BY <1>6 DEF UnlinkForget, UnlinkOrigin, UnlinkPurge
  <1>7. ASSUME PunchClear \/ PunchSaveFails \/ PunchCut PROVE UNCHANGED dead
    BY <1>7 DEF PunchClear, PunchSaveFails, PunchCut
  <1> QED  BY <1>1, <1>2, <1>3, <1>4, <1>5, <1>6, <1>7, AloneStep

LEMMA KeptReader ==
    ASSUME Base, ~dead, Kept, NEW r \in Readers, ReadStep(r)
    PROVE  Kept'
  BY KeptReadOther, KeptBeginFill, KeptFetch, KeptCompleteFill, KeptFinishPiece DEF ReadStep

LEMMA KeptMutator ==
    ASSUME Base, ~dead, Kept, MutatorStep
    PROVE  Kept'
PROOF
  <1>1. ~EntryGone
    BY DEF EntryGone
  <1> QED  BY <1>1, KeptWriteStat, KeptWriteFill, KeptWriteIdent, KeptWriteGrow, KeptCopyPwrite,
              KeptCopyMark, KeptWriteNote, KeptDistrust, KeptTruncateEntry, KeptCreateWarm
           DEF MutatorStep

LEMMA ServeStep ==
    ASSUME ServeInv, [Next]_vars
    PROVE  ServeInv'
PROOF
  <1>1. Base /\ Kept /\ TypeInv /\ Alone
    BY DEF ServeInv, Base
  <1>2. Base'
    BY <1>1, BaseStep
  <1>3. CASE dead
    BY <1>1, <1>2, <1>3, DeadStays DEF Kept, ServeInv
  <1>4. CASE ~dead
    <2>1. ASSUME NEW r \in Readers, ReadStep(r) PROVE Kept'
      BY <1>1, <1>4, <2>1, KeptReader
    <2>2. ASSUME NEW r \in Readers, NEW s \in load.reads, ReadBegin(r, s) PROVE Kept'
      BY <1>1, <1>4, <2>2, KeptReadBegin
    <2>3. ASSUME NEW s \in load.writes, NEW v \in Vals, WriteOrigin(s, v) PROVE Kept'
      BY <1>1, <1>4, <2>3, KeptWriteOrigin
    <2>4. ASSUME NEW n \in load.sizes, TruncateOrigin(n) PROVE Kept'
      BY <1>1, <1>4, <2>4, KeptTruncateOrigin
    <2>5. CreateOrigin => Kept'
      BY <1>1, <1>4, KeptCreateOrigin
    <2>6. MutatorStep => Kept'
      BY <1>1, <1>4, KeptMutator
    <2>7. UnlinkForget \/ UnlinkOrigin \/ UnlinkPurge => Kept'
      BY <1>1, KeptUnlink
    <2>8. PunchClear \/ PunchCut => Kept'
      BY <1>1, <1>4, KeptPunch
    <2>9. UNCHANGED vars \/ PunchSaveFails => Kept'
      BY <1>1, <1>4, KeptAside
    <2>10. Kept'
      BY <1>1, <2>1, <2>2, <2>3, <2>4, <2>5, <2>6, <2>7, <2>8, <2>9, AloneStep
    <2> QED  BY <1>2, <2>10 DEF ServeInv
  <1> QED  BY <1>3, <1>4

LEMMA ServeInit ==
    ASSUME OneClient, Init
    PROVE  ServeInv
PROOF
  <1>1. Base /\ TypeInv
    BY BaseInit DEF Base
  <1>2. Store
    <2>1. bits = {} /\ hashes = NoHashes /\ cull.pc = "idle"
      BY DEF Init
    <2>2. Marked = {}
      BY <2>1 DEF Marked
    <2>3. \A u \in Units : ~Hashed(u)
      BY <2>1, UnitPlace DEF Hashed, NoHashes, NoHash
    <2>4. HashesLong
      BY <2>1 DEF HashesLong, NoHashes
    <2> QED  BY <2>2, <2>3, <2>4 DEF Store, MarksFit, MarksIn, HashesFit, HashesHeld
  <1>3. \A r \in Readers : rd[r].pc = "idle"
    BY DEF Init, IdleReader
  <1>4. Fills
    <2>1. FillsOld
      BY DEF Init, FillsOld, NoClaim
    <2> QED  BY <1>3, <2>1 DEF Fills, FillSound, FillFits, FillLong, FillIn, AbortFails, Current, Filling
  <1>5. Call
    <2>1. wr = IdleMutator
      BY DEF Init
    <2>2. wr.pc = "idle" /\ \A u \in Units : wr.before[u] = {}
      BY <2>1 DEF IdleMutator
    <2> QED  BY <1>3, <2>2 DEF Call, WriteKnown, WriteSized, WriteLanded, IdleBefore, OriginSeen, Writing, Reading
  <1> QED  BY <1>1, <1>2, <1>4, <1>5 DEF ServeInv, Kept

\* A mark of a dead entry does not exist; one of a live entry is fit.
LEMMA ServeHonest ==
    ASSUME ServeInv
    PROVE  HonestMarks
PROOF
  <1>1. CASE dead
    BY <1>1 DEF ServeInv, Base, DeadInv, NoMarks, HonestMarks
  <1>2. CASE ~dead
    BY <1>2 DEF ServeInv, Kept, Store, MarksFit, Marked, Fit, Exact, HonestMarks
  <1> QED  BY <1>1, <1>2

\* A set mark never lies: with one client, no open between a write's stat and
\* its copy, and no restart, the cache bytes of a marked piece are the
\* origin's (Cached.bits, finishPiece, copyIntoCache, growToLocked, punchPiece).
THEOREM MarksAreHonest == OneClient => (Spec => []HonestMarks)
PROOF
  <1> SUFFICES ASSUME OneClient PROVE Spec => []HonestMarks
    OBVIOUS
  <1>1. Init => ServeInv
    BY ServeInit
  <1>2. ServeInv /\ [Next]_vars => ServeInv'
    BY ServeStep
  <1>3. ServeInv => HonestMarks
    BY ServeHonest
  <1> QED  BY <1>1, <1>2, <1>3, PTL DEF Spec
-----------------------------------------------------------------------------
(* What a read has walked past is fit to be returned.                        *)

\* A create never skips its warmup.
ClosesWork == \A w \in Workloads : "close" \notin w.faults

Asked(r, u) == u \in rd[r].off .. rd[r].off + rd[r].n - 1

\* A byte the read has found, filled or waited for.
Passed(r, u) ==
    /\ Asked(r, u)
    /\ \/ Walks(rd[r]) /\ u \div PS < rd[r].i
       \/ rd[r].pc \in {"serve", "pread"}

\* A reader of a forgotten entry that has not begun its pread takes the origin.
PassedFit ==
    \A r \in Readers : \A u \in Units :
        Passed(r, u) /\ u < floor[r] /\ (~dead \/ rd[r].pc = "pread")
            => u < dlen /\ data[u] \in seen[r][u]
Sampled ==
    \A r \in Readers : Walks(rd[r]) => \A u \in Units : Asked(r, u) => u \div PS < rd[r].stop

\* The entry is longer than the file only inside a call that shrinks it, and
\* the reads under way know.
SizeBounded ==
    /\ size > osize => (wr.pc = "trunc" \/ wr.kind = "create") /\ wr.before[osize] # {}
    /\ wr.kind = "create" => wr.pc \in {"distrust", "warm"} /\ osize = 0
    /\ wr.pc = "warm" => wr.kind = "create"
    /\ wr.pc \in {"stat", "ident"} => size <= wr.sz
    /\ \A r \in Readers : Reading(r) => size <= osize \/ floor[r] <= osize
ReadBounded ==
    \A r \in Readers :
        Reading(r) /\ rd[r].pc # "sample" => rd[r].off + rd[r].n <= size \/ floor[r] <= size
Sized == ~dead => SizeBounded /\ ReadBounded

ReadInv == ServeInv /\ PassedFit /\ Sampled /\ Sized /\ "close" \notin load.faults

\* A byte a transfer may return stays what it may return: only a fill writes
\* beside a transfer, and it writes what is fit.
LEMMA PassedStays ==
    ASSUME ServeInv, [Next]_vars, NEW r \in Readers, Reading(r), NEW u \in Units, u < floor[r],
           u < dlen, data[u] \in seen[r][u]
    PROVE  u < dlen' /\ data'[u] \in seen[r][u]
PROOF
  <1>1. Base /\ TypeInv /\ Alone /\ Locks /\ xfer # {}
    BY DEF ServeInv, Base, Locks
  <1>2. UNCHANGED <<data, dlen>> \/ \E q \in Readers : CompleteFill(q)
    <2>1. CASE UNCHANGED vars
      BY <2>1 DEF vars
    <2>2. ASSUME NEW q \in Readers, ReadStep(q) PROVE UNCHANGED <<data, dlen>> \/ CompleteFill(q)
      BY <2>2 DEF ReadStep, ReadSample, Walk, BeginFill, FetchPeer, FetchOrigin, FinishPiece, Probe,
                  ReadServed, Reply
    <2>3. ASSUME NEW sz, NEW observed, Reconcile(sz, observed) PROVE UNCHANGED <<data, dlen>>
      BY <1>1, <2>3 DEF Reconcile, TruncateCacheFd, xferBusy
    <2>4. ASSUME MutatorStep PROVE UNCHANGED <<data, dlen>>
      <3>1. WriteIdent \/ CreateWarm => UNCHANGED <<data, dlen>>
        BY <2>3 DEF WriteIdent, CreateWarm
      <3>2. WriteFill \/ CopyPwrite \/ TruncateEntry => UNCHANGED <<data, dlen>>
        BY <1>1 DEF WriteFill, CopyPwrite, CopyBlocked, TruncateEntry, TruncateCacheFd, xferBusy
      <3>3. WriteStat \/ EntryGone \/ WriteGrow \/ CopyMark \/ WriteNote \/ Distrust => UNCHANGED <<data, dlen>>
        BY DEF WriteStat, EntryGone, WriteGrow, CopyMark, WriteNote, Distrust
      <3> QED  BY <2>4, <3>1, <3>2, <3>3 DEF MutatorStep
    <2>5. ASSUME \/ \E q \in Readers : \E s \in load.reads : ReadBegin(q, s)
                 \/ \E s \in load.writes, v \in Vals : WriteOrigin(s, v)
                 \/ \E n \in load.sizes : TruncateOrigin(n)
                 \/ CreateOrigin
                 \/ UnlinkForget \/ UnlinkOrigin \/ UnlinkPurge
          PROVE  UNCHANGED <<data, dlen>>
      BY <2>5 DEF ReadBegin, WriteOrigin, TruncateOrigin, CreateOrigin, Mutation, UnlinkForget,
                  UnlinkOrigin, UnlinkPurge
    <2>6. ASSUME PunchClear \/ PunchSaveFails \/ PunchCut PROVE UNCHANGED <<data, dlen>>
      <3>1. ~PunchCut
        BY <1>1 DEF PunchCut, Locks
      <3> QED  BY <2>6, <3>1 DEF PunchClear, PunchSaveFails
    <2> QED  BY <1>1, <2>1, <2>2, <2>4, <2>5, <2>6, AloneStep
  <1>3. ASSUME NEW q \in Readers, CompleteFill(q) PROVE u < dlen' /\ data'[u] \in seen[r][u]
    <2> DEFINE i == rd[q].i
               off == Offset(i, PS)
    <2>1. CASE FillOutrun(q)
      BY <1>3, <2>1 DEF CompleteFill
    <2>2. CASE ~FillOutrun(q)
      <3>1. /\ ~dead /\ i \notin bits /\ ClaimStands(q) /\ rd[q].pc = "land"
            /\ rd[q].buf \in Seq(Val) /\ dlen \in 0 .. MaxSize /\ rd[q].i \in Nat
        BY <1>1, <1>3, <2>2 DEF FillOutrun, CompleteFill, TypeInv, TypeOK, ReaderTypes, DataTypes, Rd
      <3>2. PICK k \in {Len(rd[q].buf)} \cup (IF Fault("cache") THEN 0 .. Len(rd[q].buf) - 1 ELSE {}) :
              /\ data' = Overlay(data, off, SubSeq(rd[q].buf, 1, k))
              /\ dlen' = IF k = 0 THEN dlen ELSE Extend(dlen, off + k)
        BY <1>3, <2>2 DEF CompleteFill
      <3>3. k \in 0 .. Len(rd[q].buf) /\ off \in Nat /\ u \in Nat
        <4>1. k \in 0 .. Len(rd[q].buf)
          BY <3>1, <3>2
        <4>2. off \in Nat
          BY <3>1, Sizes DEF Offset
        <4> QED  BY <4>1, <4>2, UnitPlace
      <3>4. u < dlen'
        <4> HIDE DEF off
        <4> QED  BY <3>1, <3>2, <3>3, Sizes DEF Extend
      <3>5. CASE data'[u] = data[u]
        BY <3>4, <3>5
      <3>6. CASE data'[u] # data[u]
        <4>1. u \div PS = i
          BY <1>1, <1>3, <3>6, FillLandsApart
        <4>2. Len(SubSeq(rd[q].buf, 1, k)) = k /\ \A j \in 1 .. k : SubSeq(rd[q].buf, 1, k)[j] = rd[q].buf[j]
          BY <3>1, <3>3, PrefixType
        <4>3. u \in off .. off + k - 1 /\ data'[u] = SubSeq(rd[q].buf, 1, k)[u - off + 1]
          BY <3>2, <3>6, <4>2 DEF Overlay
        <4>4. At(u) = u - off + 1
          BY <4>1 DEF At
        <4>5. At(u) \in 1 .. k
          <5> HIDE DEF off
          <5> QED  BY <4>3, <4>4, <3>3
        <4>6. data'[u] = rd[q].buf[At(u)] /\ Carries(q, u)
          BY <4>1, <4>2, <4>3, <4>4, <4>5, <3>1, <3>3 DEF Carries
        <4>7. Fit(u, rd[q].buf[At(u)])
          BY <3>1, <4>6 DEF ServeInv, Kept, Fills, FillSound, FillFits, Current
        <4> QED  BY <3>4, <4>6, <4>7 DEF Fit, Returnable
      <3> QED  BY <3>5, <3>6
    <2> QED  BY <2>1, <2>2
  <1> QED  BY <1>2, <1>3

-----------------------------------------------------------------------------
(* The entry's size *)

\* The mutator takes the entry's size to the file's, or nearer to it; or the
\* entry waits for a create's warmup.
LEMMA SizeFollows ==
    ASSUME Base, ~dead, Kept, Sized, "close" \notin load.faults, MutatorStep
    PROVE  \/ UNCHANGED size /\ wr.kind = "create" /\ wr'.pc = "warm"
           \/ size' <= osize /\ (size <= size' \/ size' = osize)
PROOF
  <1>1. TypeInv /\ Call /\ SizeBounded
    BY DEF Base, Kept, Sized
  <1>2. /\ osize \in Nat /\ size \in Nat /\ wr.off \in Nat /\ wr.len \in Nat /\ wr.sz \in Nat
        /\ Writing => wr.len > 0
    BY <1>1, WrFields, Sizes DEF TypeInv, TypeOK, OriginTypes, EntryTypes
  <1>3. wr.pc \notin {"trunc", "distrust", "warm"} => size <= osize
    BY <1>1, <1>2 DEF SizeBounded
  <1>4. CASE WriteStat \/ CopyPwrite \/ CopyMark \/ WriteNote
    <2>1. UNCHANGED size /\ wr.pc \in {"stat", "copy", "mark", "note"}
      BY <1>4 DEF WriteStat, CopyPwrite, CopyMark, WriteNote
    <2> QED  BY <2>1, <1>2, <1>3
  <1>5. CASE Distrust
    <2>1. UNCHANGED size /\ wr.pc = "distrust"
      BY <1>5 DEF Distrust
    <2>2. CASE wr.kind = "create"
      <3>1. wr'.pc = "warm"
        <4>1. wr \in Wr /\ wr' = [wr EXCEPT !.pc = "warm"]
          BY <1>1, <1>5, <2>2, MutatorTyped DEF Distrust, MutatorTypes
        <4> QED  BY <4>1 DEF Wr
      <3> QED  BY <2>1, <2>2, <3>1
    <2>3. CASE wr.kind # "create"
      BY <1>1, <1>2, <2>1, <2>3 DEF SizeBounded
    <2> QED  BY <2>2, <2>3
  <1>6. CASE WriteFill
    <2>1. wr.pc = "fill" /\ osize = wr.off + wr.len
      BY <1>1, <1>6 DEF WriteFill, Call, WriteSized
    <2>2. size' = wr.off + wr.len \/ UNCHANGED size
      BY <1>6 DEF WriteFill, GrowTo
    <2> QED  BY <2>1, <2>2, <1>2, <1>3
  <1>7. CASE WriteIdent
    <2>1. size <= wr.sz /\ wr.sz <= osize /\ Reconcile(wr.sz, wr.obs)
      BY <1>1, <1>7 DEF WriteIdent, Call, WriteSized, SizeBounded
    <2>2. size' = wr.sz
      BY <2>1 DEF Reconcile
    <2> QED  BY <2>1, <2>2
  <1>8. CASE WriteGrow
    <2> DEFINE end == wr.off + wr.len
    <2>1. wr.pc = "grow" /\ Writing
      BY <1>8 DEF WriteGrow, Writing
    <2>2. end \in Nat /\ end <= osize
      <3>1. end - 1 \in Span
        BY <2>1, <1>2 DEF Span
      <3>2. end - 1 < osize
        BY <3>1, <2>1, <1>1 DEF Call, WriteKnown
      <3> QED  BY <3>2, <1>2
    <2>3. (end > size /\ size' = end) \/ UNCHANGED size
      BY <1>8 DEF WriteGrow, GrowTo
    <2> HIDE DEF end
    <2> QED  BY <2>1, <2>2, <2>3, <1>2, <1>3
  <1>9. CASE TruncateEntry
    <2>1. size' = wr.sz /\ wr.sz = osize
      BY <1>1, <1>9 DEF TruncateEntry, Call, WriteSized
    <2> QED  BY <2>1, <1>2
  <1>10. CASE CreateWarm
    <2>1. Reconcile(0, Unknown) /\ wr.pc = "warm"
      BY <1>10 DEF CreateWarm, Fault
    <2>2. size' = 0 /\ osize = 0
      BY <1>1, <2>1 DEF Reconcile, SizeBounded
    <2> QED  BY <2>2
  <1>11. ~EntryGone
    BY DEF EntryGone
  <1> QED  BY <1>4, <1>5, <1>6, <1>7, <1>8, <1>9, <1>10, <1>11 DEF MutatorStep

LEMMA SizedMutator ==
    ASSUME Base, ~dead, Kept, Sized, "close" \notin load.faults, MutatorStep
    PROVE  Sized'
PROOF
  <1>1. TypeInv /\ SizeBounded /\ ReadBounded /\ UNCHANGED <<originVars, rd, floor>>
    BY MutatorAside DEF Sized
  <1>2. \/ UNCHANGED size /\ wr.kind = "create" /\ wr'.pc = "warm"
        \/ size' <= osize /\ (size <= size' \/ size' = osize)
    BY SizeFollows
  <1>3. \/ wr'.kind = "none" /\ wr'.pc = "idle"
        \/ /\ wr'.kind = wr.kind /\ wr'.before = wr.before
           /\ <<wr.pc, wr'.pc>> \in
                   {<<"stat", "fill">>, <<"stat", "ident">>, <<"stat", "distrust">>, <<"fill", "copy">>,
                    <<"ident", "grow">>, <<"grow", "copy">>, <<"copy", "mark">>, <<"mark", "note">>,
                    <<"distrust", "warm">>, <<"trunc", "distrust">>}
    BY <1>1, MutatorPlaces DEF IdleMutator
  <1>4. osize \in Nat /\ size \in Nat /\ size' \in Nat
    <2>1. TypeInv'
      BY <1>1, StepTypes DEF Next
    <2> QED  BY <1>1, <2>1, Sizes DEF TypeInv, TypeOK, OriginTypes, EntryTypes
  <1>5. \A r \in Readers : floor[r] \in Nat /\ rd[r].off \in Nat /\ rd[r].n \in Nat
    BY <1>1, Sizes DEF TypeInv, TypeOK, ReaderTypes, HistoryTypes, Rd
  <1>6. wr'.kind = "create" => wr.kind = "create" /\ wr'.pc \in {"distrust", "warm"} /\ osize = 0
    BY <1>1, <1>3 DEF SizeBounded
  <1>7. wr'.pc = "warm" => wr'.kind = "create"
    <2>1. ASSUME wr'.pc = "warm" PROVE Distrust
      BY <1>3, <2>1 DEF MutatorStep, WriteStat, EntryGone, WriteFill, WriteIdent, WriteGrow, CopyPwrite,
                        CopyMark, WriteNote, TruncateEntry, CreateWarm
    <2> QED  BY <1>3, <2>1 DEF Distrust, IdleMutator
  <1>8. size' > osize => wr'.kind = "create" /\ wr'.before[osize] # {}
    BY <1>1, <1>2, <1>3, <1>4 DEF SizeBounded
  <1>9. \A r \in Readers : Reading(r) => size' <= osize \/ floor[r] <= osize
    BY <1>1, <1>2 DEF SizeBounded
  <1>10. ASSUME NEW r \in Readers, Reading(r), rd[r].pc # "sample"
         PROVE  rd[r].off + rd[r].n <= size' \/ floor[r] <= size'
    <2>1. rd[r].off + rd[r].n <= size \/ floor[r] <= size
      BY <1>1, <1>10 DEF ReadBounded
    <2>2. size <= osize \/ floor[r] <= osize
      BY <1>1, <1>10 DEF SizeBounded
    <2>3. UNCHANGED size \/ size <= size' \/ size' = osize
      BY <1>2
    <2> DEFINE e == rd[r].off + rd[r].n
    <2>4. e \in Nat
      BY <1>5
    <2> HIDE DEF e
    <2>5. e <= size \/ floor[r] <= size => e <= size' \/ floor[r] <= size'
      BY <2>2, <2>3, <2>4, <1>4, <1>5
    <2> QED  BY <2>1, <2>5 DEF e
  <1>11. ASSUME wr'.pc \in {"stat", "ident"} PROVE size' <= wr'.sz
    <2>1. wr.pc = "stat"
      BY <1>3, <1>11
    <2>2. WriteStat
      BY <2>1 DEF MutatorStep, WriteStat, EntryGone, WriteFill, WriteIdent, WriteGrow, CopyPwrite,
                  CopyMark, WriteNote, Distrust, TruncateEntry, CreateWarm
    <2>3. UNCHANGED size /\ wr'.sz \in {wr.sz, osize}
      BY <1>1, <1>11, <2>2, StatSees DEF WriteStat, Kept, Call
    <2>4. size <= osize /\ size <= wr.sz
      BY <1>1, <1>4, <2>1 DEF SizeBounded
    <2> QED  BY <2>3, <2>4
  <1> QED  BY <1>1, <1>6, <1>7, <1>8, <1>9, <1>10, <1>11 DEF Sized, SizeBounded, ReadBounded, Reading
-----------------------------------------------------------------------------
(* How a read goes on *)

\* The sample fixes what the read asks for; what it covers is at or past the
\* piece the walk starts from.
LEMMA SampleCourse ==
    ASSUME TypeInv, NEW r \in Readers, ReadSample(r), rd'[r].pc # "idle"
    PROVE  /\ rd'[r].off = rd[r].off /\ rd'[r].n \in Nat \ {0} /\ rd'[r].off + rd'[r].n <= size
           /\ rd'[r].pc \in {"serve", "walk"}
           /\ \A u \in Units : Asked(r, u)' =>
                 /\ u < size /\ rd'[r].i <= u \div PS /\ u \div PS < rd'[r].stop
                 /\ rd'[r].pc = "serve" => u \div PS \in bits
PROOF
  <1> DEFINE n == MinOf(rd[r].n, size - rd[r].off)
             cov == Cover(rd[r].off, n, size, PS)
  <1>1. rd \in [Readers -> Rd] /\ rd[r].off \in Nat /\ rd[r].n \in Nat \ {0} /\ size \in 0 .. MaxSize
    <2>1. rd \in [Readers -> Rd] /\ ReaderSteady(rd[r]) /\ rd[r].pc = "sample" /\ size \in 0 .. MaxSize
      BY DEF TypeInv, TypeOK, ReaderTypes, ReadersSteady, EntryTypes, ReadSample
    <2>2. rd[r] \in Rd
      BY <2>1
    <2>3. rd[r].off \in Nat /\ rd[r].n \in Nat
      BY <2>2 DEF Rd
    <2> QED  BY <2>1, <2>3 DEF ReaderSteady
  <1>2. /\ rd[r].off < size
        /\ rd' = [rd EXCEPT ![r].n = n,
                            ![r].i = CoverStart(rd[r].off, n, size, PS),
                            ![r].stop = CoverEnd(rd[r].off, n, size, PS),
                            ![r].pc = IF cov \subseteq bits THEN "serve" ELSE "walk"]
    <2>1. CASE rd[r].off >= size
      <3>1. rd' = [rd EXCEPT ![r] = IdleReader]
        BY <2>1 DEF ReadSample, ReadEnd
      <3>2. rd'[r] = IdleReader
        BY <3>1, <1>1
      <3> QED  BY <3>2 DEF IdleReader
    <2>2. CASE ~(rd[r].off >= size)
      BY <1>1, <2>2, Sizes DEF ReadSample
    <2> QED  BY <2>1, <2>2
  <1>3. n \in Nat \ {0} /\ rd[r].off + n <= size
    BY <1>1, <1>2, Sizes DEF MinOf
  <1> HIDE DEF n
  <1>4. /\ rd'[r].off = rd[r].off /\ rd'[r].n = n
        /\ rd'[r].i = CoverStart(rd[r].off, n, size, PS)
        /\ rd'[r].stop = CoverEnd(rd[r].off, n, size, PS)
        /\ rd'[r].pc = IF cov \subseteq bits THEN "serve" ELSE "walk"
    <2> HIDE DEF cov
    <2>1. rd[r] \in Rd
      BY <1>1
    <2> QED  BY <1>1, <1>2, <2>1 DEF Rd
  <1>5. /\ CoverStart(rd[r].off, n, size, PS) = rd[r].off \div PS
        /\ \A u \in Nat : rd[r].off <= u /\ u < rd[r].off + n /\ u < size => u \div PS \in cov
    BY <1>1, <1>2, <1>3, CoverExact
  <1>6. ASSUME NEW u \in Units, Asked(r, u)'
        PROVE  u < size /\ rd[r].off \div PS <= u \div PS /\ u \div PS \in cov
    <2>1. u \in Nat /\ rd[r].off <= u /\ u < rd[r].off + n
      <3>1. u \in rd[r].off .. rd[r].off + n - 1
        BY <1>4, <1>6 DEF Asked
      <3>2. u \in Nat
        BY UnitPlace
      <3> QED  BY <3>1, <3>2, <1>1, <1>3
    <2>2. u < size
      BY <2>1, <1>1, <1>3, Sizes
    <2>3. rd[r].off \div PS <= u \div PS
      BY <2>1, <1>1, DivMonotone
    <2> QED  BY <2>1, <2>2, <2>3, <1>5
  <1>7. ASSUME NEW u \in Units, Asked(r, u)' PROVE u \div PS < CoverEnd(rd[r].off, n, size, PS)
    <2>1. u \div PS \in cov
      BY <1>6, <1>7
    <2>2. CoverEnd(rd[r].off, n, size, PS) \in Nat /\ CoverStart(rd[r].off, n, size, PS) = rd[r].off \div PS
      BY <1>1, <1>2, <1>3, CoverExact
    <2>3. rd[r].off \div PS \in Nat
      BY <1>1, InPiece
    <2> QED  BY <2>1, <2>2, <2>3 DEF Cover
  <1>8. rd'[r].pc \in {"serve", "walk"} /\ (rd'[r].pc = "serve" => cov \subseteq bits)
    BY <1>4
  <1> HIDE DEF cov
  <1>9. rd'[r].off + rd'[r].n <= size /\ rd'[r].n \in Nat \ {0} /\ rd'[r].off = rd[r].off
    BY <1>3, <1>4
  <1> QED  BY <1>4, <1>5, <1>6, <1>7, <1>8, <1>9

\* After it a read keeps what it asked for, and passes a piece only when the
\* piece is marked, is past the end, or the entry is dead.
LEMMA ReadCourse ==
    ASSUME TypeInv, NEW r \in Readers, ReadStep(r), rd[r].pc # "sample", rd'[r].pc \notin {"idle", "fallback"}
    PROVE  /\ rd'[r].off = rd[r].off /\ rd'[r].n = rd[r].n /\ rd'[r].stop = rd[r].stop
           /\ \/ Walks(rd[r]) /\ Walks(rd'[r]) /\ rd'[r].i = rd[r].i
              \/ /\ Walks(rd[r]) /\ rd'[r].pc = "walk" /\ rd'[r].i = rd[r].i + 1
                 /\ rd[r].i \in bits \/ dead \/ PLen(size, rd[r].i) = 0
              \/ rd[r].pc = "walk" /\ rd[r].i = rd[r].stop /\ rd'[r].pc = "serve"
              \/ rd[r].pc = "serve" /\ rd'[r].pc = "pread" /\ ~dead
PROOF
  <1>1. rd \in [Readers -> Rd] /\ rd[r] \in Rd
    BY DEF TypeInv, TypeOK, ReaderTypes
  <1>2. ASSUME NextPiece(r)
        PROVE  /\ rd'[r].off = rd[r].off /\ rd'[r].n = rd[r].n /\ rd'[r].stop = rd[r].stop
               /\ rd'[r].pc = "walk" /\ rd'[r].i = rd[r].i + 1
    BY <1>1, <1>2 DEF NextPiece, Rd
  <1>3. CASE Walk(r)
    <2>1. CASE rd[r].i = rd[r].stop /\ rd' = [rd EXCEPT ![r].pc = "serve"]
      BY <1>1, <1>3, <2>1 DEF Walk, Rd
    <2>2. CASE rd[r].i \in bits /\ NextPiece(r)
      BY <1>2, <1>3, <2>2 DEF Walk, Walks
    <2>3. CASE rd' = [rd EXCEPT ![r].pc = "claim", ![r].prefer = (writes # 0), ![r].retry = FALSE]
      BY <1>1, <1>3, <2>3 DEF Walk, Walks, AtPiece, Rd
    <2> QED  BY <1>3, <2>1, <2>2, <2>3 DEF Walk
  <1>4. CASE BeginFill(r)
    <2>1. CASE NextPiece(r) /\ (dead \/ rd[r].i \in bits \/ PLen(size, rd[r].i) = 0)
      BY <1>2, <1>4, <2>1 DEF BeginFill, Walks, AtPiece
    <2>2. CASE rd' = [rd EXCEPT ![r].pc = "fetch", ![r].flen = PLen(size, rd[r].i)]
      BY <1>1, <1>4, <2>2 DEF BeginFill, Walks, AtPiece, Rd
    <2> QED  BY <1>4, <2>1, <2>2 DEF BeginFill
  <1>5. CASE FetchPeer(r)
    BY <1>1, <1>5 DEF FetchPeer, Walks, AtPiece, Rd
  <1>6. CASE FetchOrigin(r)
    BY <1>1, <1>6 DEF FetchOrigin, Walks, AtPiece, Rd
  <1>7. CASE CompleteFill(r)
    <2>1. rd[r].pc = "land"
      BY <1>7 DEF CompleteFill
    <2>2. rd' = [rd EXCEPT ![r].pc = "probe"] \/ \E b : rd' = [rd EXCEPT ![r].pc = "mark", ![r].ok = b]
      BY <1>7 DEF CompleteFill
    <2> QED  BY <1>1, <2>1, <2>2 DEF Walks, AtPiece, Rd
  <1>8. CASE FinishPiece(r)
    BY <1>1, <1>8 DEF FinishPiece, Walks, AtPiece, Rd
  <1>9. CASE Probe(r)
    <2>1. CASE rd[r].i \in bits /\ NextPiece(r)
      BY <1>2, <1>9, <2>1 DEF Probe, Walks, AtPiece
    <2>2. CASE ~(rd[r].i \in bits /\ NextPiece(r))
      BY <1>1, <1>9, <2>2 DEF Probe, Walks, AtPiece, Rd
    <2> QED  BY <2>1, <2>2
  <1>10. CASE ReadServed(r)
    BY <1>1, <1>10 DEF ReadServed, ServeFromOrigin, Rd
  <1>11. CASE Reply(r)
    <2>1. rd' = [rd EXCEPT ![r] = IdleReader]
      BY <1>11 DEF Reply, ReadEnd
    <2>2. rd'[r].pc = "idle"
      BY <2>1, <1>1 DEF IdleReader
    <2> QED  BY <2>2
  <1>12. ~ReadSample(r)
    BY DEF ReadSample
  <1> QED  BY <1>3, <1>4, <1>5, <1>6, <1>7, <1>8, <1>9, <1>10, <1>11, <1>12 DEF ReadStep

LEMMA SizedRead ==
    ASSUME Base, ~dead, Kept, Sized, NEW r \in Readers, ReadStep(r)
    PROVE  Sized'
PROOF
  <1>1. TypeInv /\ SizeBounded /\ ReadBounded /\ UNCHANGED <<osize, size, wr>>
    BY ReadAside DEF Sized
  <1>2. \A q \in Readers : Reading(q)' => Reading(q) /\ floor'[q] = floor[q]
    BY ReadAside
  <1>3. \A q \in Readers \ {r} : rd'[q] = rd[q]
    BY ReadAside
  <1>4. ASSUME Reading(r)', rd'[r].pc # "sample"
        PROVE  rd'[r].off + rd'[r].n <= size \/ floor'[r] <= size
    <2>1. CASE rd[r].pc = "sample"
      <3>1. ReadSample(r)
        BY <2>1 DEF ReadStep, Walk, BeginFill, FetchPeer, FetchOrigin, CompleteFill, FinishPiece, Probe,
                    ReadServed, Reply
      <3> QED  BY <1>1, <1>4, <3>1, SampleCourse DEF Reading
    <2>2. CASE rd[r].pc # "sample"
      <3>1. rd'[r].off = rd[r].off /\ rd'[r].n = rd[r].n
        <4>1. CASE rd'[r].pc = "fallback"
          <5>1. rd \in [Readers -> Rd] /\ rd[r] \in Rd
            BY <1>1 DEF TypeInv, TypeOK, ReaderTypes
          <5>2. FinishPiece(r) \/ Probe(r) \/ ReadServed(r)
            <6>1. ~Reply(r) /\ ~ReadSample(r)
              BY <5>1, <4>1, <2>2 DEF Reply, ReadEnd, IdleReader, ReadSample
            <6>2. ~Walk(r) /\ ~BeginFill(r)
              BY <5>1, <4>1 DEF Walk, BeginFill, NextPiece, Rd
            <6>3. ~FetchPeer(r) /\ ~FetchOrigin(r) /\ ~CompleteFill(r)
              BY <5>1, <4>1 DEF FetchPeer, FetchOrigin, CompleteFill, Rd
            <6> QED  BY <6>1, <6>2, <6>3 DEF ReadStep
          <5>3. CASE FinishPiece(r)
            BY <5>1, <5>3 DEF FinishPiece, Rd
          <5>4. CASE Probe(r)
            BY <5>1, <5>4, <4>1 DEF Probe, NextPiece, Rd
          <5>5. CASE ReadServed(r)
            BY <5>1, <5>5 DEF ReadServed, Rd
          <5> QED  BY <5>2, <5>3, <5>4, <5>5
        <4>2. CASE rd'[r].pc # "fallback"
          BY <1>1, <1>4, <2>2, <4>2, ReadCourse DEF Reading
        <4> QED  BY <4>1, <4>2
      <3> QED  BY <1>1, <1>2, <1>4, <2>2, <3>1 DEF ReadBounded
    <2> QED  BY <2>1, <2>2
  <1>5. SizeBounded'
    BY <1>1, <1>2 DEF SizeBounded
  <1>6. ReadBounded'
    <2> SUFFICES ASSUME NEW q \in Readers, Reading(q)', rd'[q].pc # "sample"
                 PROVE  rd'[q].off + rd'[q].n <= size \/ floor'[q] <= size
      BY <1>1 DEF ReadBounded
    <2>1. CASE q = r
      BY <1>4, <2>1
    <2>2. CASE q # r
      BY <1>1, <1>2, <1>3, <2>2 DEF ReadBounded
    <2> QED  BY <2>1, <2>2
  <1> QED  BY <1>5, <1>6 DEF Sized

\* A read that begins while a shrink is under way is released from the bytes
\* the shrink cuts.
LEMMA SizedReadBegin ==
    ASSUME Base, ~dead, Kept, Sized, NEW r \in Readers, NEW s, ReadBegin(r, s)
    PROVE  Sized'
PROOF
  <1>1. /\ TypeInv /\ SizeBounded /\ ReadBounded /\ UNCHANGED <<osize, size, wr>>
        /\ rd \in [Readers -> Rd] /\ floor \in [Readers -> 0 .. MaxSize]
        /\ size \in 0 .. MaxSize /\ osize \in 0 .. MaxSize
    BY DEF Base, Sized, ReadBegin, TypeInv, TypeOK, ReaderTypes, HistoryTypes, OriginTypes, EntryTypes
  <1>2. \A q \in Readers \ {r} : rd'[q] = rd[q] /\ floor'[q] = floor[q]
    BY <1>1 DEF ReadBegin
  <1>3. rd'[r].pc = "sample"
    BY <1>1 DEF ReadBegin, IdleReader
  <1>4. size <= osize \/ floor'[r] <= osize
    <2>1. CASE size > osize
      <3>1. osize \in Units /\ osize >= osize /\ wr.before[osize] # {}
        BY <1>1, <2>1, Sizes DEF SizeBounded, Units
      <3>2. floor'[r] = osize
        BY <1>1, <3>1 DEF ReadBegin
      <3> QED  BY <1>1, <3>2, Sizes
    <2> QED  BY <2>1, <1>1, Sizes
  <1>5. SizeBounded'
    BY <1>1, <1>2, <1>4 DEF SizeBounded, Reading
  <1>6. ReadBounded'
    BY <1>1, <1>2, <1>3 DEF ReadBounded, Reading
  <1> QED  BY <1>5, <1>6 DEF Sized

\* A mutation begins with the entry no longer than the file.
LEMMA SizedBegin ==
    ASSUME Base, ~dead, Kept, Sized,
           \/ \E s \in load.writes, v \in Vals : WriteOrigin(s, v)
           \/ \E n \in load.sizes : TruncateOrigin(n)
           \/ CreateOrigin
    PROVE  Sized'
PROOF
  <1>1. /\ TypeInv /\ SizeBounded /\ ReadBounded
        /\ size \in 0 .. MaxSize /\ osize \in 0 .. MaxSize /\ floor \in [Readers -> 0 .. MaxSize]
    BY DEF Base, Sized, TypeInv, TypeOK, HistoryTypes, OriginTypes, EntryTypes
  <1>2. wr.pc = "idle" /\ UNCHANGED <<rd, size>> /\ Observe
    BY DEF WriteOrigin, TruncateOrigin, CreateOrigin, Mutation
  <1>3. size <= osize
    BY <1>1, <1>2, Sizes DEF SizeBounded
  <1>4. osize' \in 0 .. MaxSize
    <2>1. TypeInv'
      BY <1>1, StepTypes DEF Next
    <2> QED  BY <2>1 DEF TypeInv, TypeOK, OriginTypes
  <1>5. /\ wr'.before = [u \in Units |-> Held(u)]
        /\ wr'.pc \notin {"warm", "ident"}
        /\ wr'.pc = "stat" => wr'.sz = osize
        /\ wr'.kind = "create" => wr'.pc = "distrust" /\ osize' = 0
        /\ osize' < osize => wr'.pc = "trunc" \/ wr'.kind = "create"
    <2>1. ASSUME NEW s \in load.writes, NEW v \in Vals, WriteOrigin(s, v)
          PROVE  /\ wr'.before = [u \in Units |-> Held(u)] /\ wr'.pc \in {"stat", "distrust"}
                 /\ wr'.kind = "write" /\ ~(osize' < osize)
                 /\ wr'.pc = "stat" => wr'.sz = osize
      <3>1. /\ Begun("stat", "write") \in Wr /\ Begun("stat", "write").kind = "write"
            /\ Begun("stat", "write").pc = "stat"
            /\ Begun("stat", "write").before = [u \in Units |-> Held(u)]
        BY <1>1, TypeBegun, BegunBefore
      <3>2. /\ Begun("distrust", "write") \in Wr /\ Begun("distrust", "write").kind = "write"
            /\ Begun("distrust", "write").pc = "distrust"
            /\ Begun("distrust", "write").before = [u \in Units |-> Held(u)]
        BY <1>1, TypeBegun, BegunBefore
      <3>3. \/ wr' = [Begun("stat", "write") EXCEPT !.off = s[1], !.len = s[2], !.val = v,
                                                   !.sz = osize, !.obs = oid]
            \/ wr' = [Begun("distrust", "write") EXCEPT !.off = s[1], !.len = s[2], !.val = v]
        BY <2>1 DEF WriteOrigin
      <3>4. /\ wr'.before = [u \in Units |-> Held(u)] /\ wr'.pc \in {"stat", "distrust"}
            /\ wr'.kind = "write"
            /\ wr'.pc = "stat" => wr'.sz = osize
        BY <3>1, <3>2, <3>3 DEF Wr
      <3>5. ~(osize' < osize)
        <4>1. UNCHANGED osize \/ \E k : osize' = Extend(osize, s[1] + k)
          BY <2>1 DEF WriteOrigin, OriginPwrite
        <4>2. UNCHANGED osize \/ osize' > osize
          BY <4>1 DEF Extend
        <4> QED  BY <4>2, <1>1, <1>4, Sizes
      <3> QED  BY <3>4, <3>5
    <2>2. ASSUME NEW n \in load.sizes, TruncateOrigin(n)
          PROVE  /\ wr'.before = [u \in Units |-> Held(u)] /\ wr'.pc = "trunc"
                 /\ wr'.kind = "truncate"
      <3>1. /\ Begun("trunc", "truncate") \in Wr /\ Begun("trunc", "truncate").kind = "truncate"
            /\ Begun("trunc", "truncate").pc = "trunc"
            /\ Begun("trunc", "truncate").before = [u \in Units |-> Held(u)]
        BY <1>1, TypeBegun, BegunBefore
      <3> QED  BY <2>2, <3>1 DEF TruncateOrigin, Wr
    <2>3. ASSUME CreateOrigin
          PROVE  /\ wr'.before = [u \in Units |-> Held(u)] /\ wr'.pc = "distrust"
                 /\ wr'.kind = "create" /\ osize' = 0
      <3>1. /\ Begun("distrust", "create").kind = "create"
            /\ Begun("distrust", "create").pc = "distrust"
            /\ Begun("distrust", "create").before = [u \in Units |-> Held(u)]
        BY <1>1, TypeBegun, BegunBefore
      <3> QED  BY <2>3, <3>1 DEF CreateOrigin
    <2> QED  BY <2>1, <2>2, <2>3
  <1>6. osize' < osize => wr'.before[osize'] # {}
    <2> SUFFICES ASSUME osize' < osize PROVE wr'.before[osize'] # {}
      OBVIOUS
    <2>1. osize' \in Units
      BY <1>1, <1>4, Sizes DEF Units
    <2> QED  BY <1>5, <2>1 DEF Held
  <1>7. /\ \A r \in Readers : Reading(r)' => Reading(r)
        /\ \A r \in Readers : floor'[r] <= floor[r]
        /\ osize' < osize => \A r \in Readers : Reading(r) => floor'[r] <= osize'
    <2> SUFFICES ASSUME NEW r \in Readers
                 PROVE  floor'[r] <= floor[r] /\ (osize' < osize /\ Reading(r) => floor'[r] <= osize')
      BY <1>2 DEF Reading
    <2>1. floor'[r] = IF Reading(r) /\ osize' < osize THEN MinOf(floor[r], osize') ELSE floor[r]
      BY <1>2 DEF Observe
    <2>2. floor[r] \in Nat
      BY <1>1, Sizes
    <2> QED  BY <2>1, <2>2, <1>4, Sizes DEF MinOf
  <1>8. size <= osize' \/ osize' < osize
    BY <1>1, <1>3, <1>4, Sizes
  <1>9. SizeBounded'
    <2>1. size > osize' => (wr'.pc = "trunc" \/ wr'.kind = "create") /\ wr'.before[osize'] # {}
      BY <1>1, <1>4, <1>5, <1>6, <1>8, Sizes
    <2> QED  BY <1>2, <1>3, <1>5, <1>7, <1>8, <2>1 DEF SizeBounded
  <1>10. ReadBounded'
    <2> SUFFICES ASSUME NEW r \in Readers, Reading(r), rd[r].pc # "sample"
                 PROVE  rd[r].off + rd[r].n <= size \/ floor'[r] <= size
      BY <1>2, <1>7 DEF ReadBounded
    <2>1. rd[r].off + rd[r].n <= size \/ floor[r] <= size
      BY <1>1 DEF ReadBounded
    <2>2. floor'[r] <= floor[r] /\ floor[r] \in Nat /\ floor'[r] \in Nat /\ size \in Nat
      <3>1. TypeInv'
        BY <1>1, StepTypes DEF Next
      <3>2. floor' \in [Readers -> 0 .. MaxSize]
        BY <3>1 DEF TypeInv, TypeOK, HistoryTypes
      <3> QED  BY <1>1, <1>7, <3>2, Sizes
    <2>3. floor[r] <= size => floor'[r] <= size
      BY <2>2
    <2> QED  BY <2>1, <2>3
  <1> QED  BY <1>9, <1>10 DEF Sized

LEMMA SizedStep ==
    ASSUME ServeInv, Sized, "close" \notin load.faults, [Next]_vars
    PROVE  Sized'
PROOF
  <1>1. CASE dead
    BY <1>1, DeadStays DEF ServeInv, Sized
  <1>2. CASE ~dead
    <2>1. Base /\ Kept /\ TypeInv /\ Alone
      BY DEF ServeInv, Base
    <2>2. CASE UNCHANGED <<osize, size, wr, rd, floor>>
      BY <1>2, <2>2 DEF Sized, SizeBounded, ReadBounded, Reading
    <2>3. UNCHANGED vars \/ PunchClear \/ PunchSaveFails \/ PunchCut => UNCHANGED <<osize, size, wr, rd, floor>>
      BY DEF vars, PunchClear, PunchSaveFails, PunchCut
    <2>4. UnlinkForget \/ UnlinkOrigin \/ UnlinkPurge => Sized'
      <3>1. UnlinkForget => dead'
        BY DEF UnlinkForget
      <3>2. ~UnlinkOrigin /\ ~UnlinkPurge
        BY <1>2, <2>1 DEF UnlinkOrigin, UnlinkPurge, Base, Locks
      <3> QED  BY <3>1, <3>2 DEF Sized
    <2> QED  BY <1>2, <2>1, <2>2, <2>3, <2>4, AloneStep, SizedRead, SizedReadBegin, SizedBegin, SizedMutator
  <1> QED  BY <1>1, <1>2

-----------------------------------------------------------------------------
(* What has been passed stays fit *)

\* A step of another thread leaves a read where it is; it may add to what the
\* read may return, and release it from more.
LEMMA ReadElsewhere ==
    ASSUME TypeInv, Alone, [Next]_vars, NEW r \in Readers,
           ~ReadStep(r), ~\E s \in load.reads : ReadBegin(r, s)
    PROVE  /\ rd'[r] = rd[r]
           /\ Reading(r) => /\ \A u \in Units : seen[r][u] \subseteq seen'[r][u]
                            /\ \A u \in Units : u < floor'[r] => u < floor[r]
PROOF
  <1>1. /\ rd \in [Readers -> Rd] /\ seen \in [Readers -> [Units -> SUBSET Val]]
        /\ floor \in [Readers -> 0 .. MaxSize]
    BY DEF TypeInv, TypeOK, ReaderTypes, HistoryTypes
  <1>2. CASE UNCHANGED <<rd, seen, floor>>
    BY <1>2
  <1>3. ASSUME NEW q \in Readers, q # r, ReadStep(q) \/ \E s \in load.reads : ReadBegin(q, s)
        PROVE  rd'[r] = rd[r] /\ seen'[r] = seen[r] /\ floor'[r] = floor[r]
    <2>1. rd'[r] = rd[r]
      BY <1>3, ReadPlaces, ReaderOutside
    <2>2. CASE ReadStep(q)
      <3>1. UNCHANGED <<seen, floor>> \/ ReadEnd(q)
        BY <2>2 DEF ReadStep, ReadSample, Walk, BeginFill, FetchPeer, FetchOrigin, CompleteFill,
                    FinishPiece, Probe, ReadServed, Reply
      <3> QED  BY <1>1, <1>3, <2>1, <3>1 DEF ReadEnd
    <2>3. CASE \E s \in load.reads : ReadBegin(q, s)
      BY <1>1, <1>3, <2>1, <2>3 DEF ReadBegin
    <2> QED  BY <1>3, <2>2, <2>3
  <1>4. ASSUME Observe, UNCHANGED rd
        PROVE  /\ \A u \in Units : seen[r][u] \subseteq seen'[r][u]
               /\ \A u \in Units : u < floor'[r] => u < floor[r]
    <2>1. \A u \in Units : seen[r][u] \subseteq seen'[r][u]
      BY <1>4 DEF Observe
    <2>2. floor'[r] = IF Reading(r) /\ osize' < osize THEN MinOf(floor[r], osize') ELSE floor[r]
      BY <1>4 DEF Observe
    <2>3. \A u \in Units : u \in Nat
      BY UnitPlace
    <2>4. osize' \in Nat /\ floor[r] \in Nat
      <3>1. TypeInv'
        BY StepTypes
      <3> QED  BY <1>1, <3>1, Sizes DEF TypeInv, TypeOK, OriginTypes
    <2>5. \A u \in Nat : u < floor'[r] => u < floor[r]
      BY <2>2, <2>4 DEF MinOf
    <2> QED  BY <2>1, <2>3, <2>5
  <1>5. MutatorStep => UNCHANGED <<rd, seen, floor>>
    BY MutatorLocks
  <1>6. PunchClear \/ PunchSaveFails \/ PunchCut \/ UNCHANGED vars \/ UnlinkForget \/ UnlinkPurge
          => UNCHANGED <<rd, seen, floor>>
    BY DEF PunchClear, PunchSaveFails, PunchCut, vars, UnlinkForget, UnlinkPurge
  <1>7. ASSUME \/ \E s \in load.writes, v \in Vals : WriteOrigin(s, v)
               \/ \E n \in load.sizes : TruncateOrigin(n)
               \/ CreateOrigin
               \/ UnlinkOrigin
        PROVE  Observe /\ UNCHANGED rd
    BY <1>7 DEF WriteOrigin, TruncateOrigin, CreateOrigin, UnlinkOrigin, Mutation
  <1> QED  BY <1>2, <1>3, <1>4, <1>5, <1>6, <1>7, AloneStep

\* What a marked byte of the entry holds, every read of it may return.
LEMMA MarkedServes ==
    ASSUME ServeInv, Sized, ~dead, NEW r \in Readers, Reading(r), rd[r].pc # "sample",
           NEW u \in Units, Asked(r, u), u < floor[r]
    PROVE  /\ u < size
           /\ PLen(size, u \div PS) > 0
           /\ u \div PS \in bits => u < dlen /\ data[u] \in seen[r][u]
PROOF
  <1>1. /\ rd[r].off + rd[r].n <= size \/ floor[r] <= size
        /\ size \in 0 .. MaxSize /\ floor[r] \in Nat /\ rd[r].off \in Nat /\ rd[r].n \in Nat
    <2>1. TypeInv
      BY DEF ServeInv, Base
    <2> QED  BY <2>1, Sizes DEF Sized, ReadBounded, TypeInv, TypeOK, EntryTypes, HistoryTypes, ReaderTypes, Rd
  <1>2. u \in Nat /\ u < rd[r].off + rd[r].n
    <2>1. u \in rd[r].off .. rd[r].off + rd[r].n - 1
      BY DEF Asked
    <2> QED  BY <1>1, <2>1, UnitPlace
  <1>3. u < size
    <2> DEFINE e == rd[r].off + rd[r].n
    <2>1. e \in Nat /\ u < e /\ (e <= size \/ floor[r] <= size)
      BY <1>1, <1>2
    <2>2. size \in Nat
      BY <1>1, Sizes
    <2> HIDE DEF e
    <2> QED  BY <1>1, <1>2, <2>1, <2>2
  <1>4. At(u) \in 1 .. PLen(size, u \div PS) /\ PLen(size, u \div PS) \in Nat
    <2>1. u \div PS \in Nat
      BY UnitPlace
    <2> QED  BY <1>1, <1>3, <2>1, UnitBelow, PieceLength, Sizes
  <1>5. PLen(size, u \div PS) > 0
    <2> HIDE DEF PLen
    <2> QED  BY <1>4
  <1>6. u \div PS \in bits => u < dlen /\ data[u] \in seen[r][u]
    BY <1>3 DEF ServeInv, Kept, Store, MarksFit, Marked, Fit, Returnable
  <1> QED  BY <1>3, <1>5, <1>6

LEMMA SampledStep ==
    ASSUME ServeInv, Sampled, [Next]_vars
    PROVE  Sampled'
PROOF
  <1>1. TypeInv /\ Alone
    BY DEF ServeInv, Base
  <1> SUFFICES ASSUME NEW r \in Readers, Walks(rd'[r]), NEW u \in Units, Asked(r, u)'
               PROVE  u \div PS < rd'[r].stop
    BY DEF Sampled
  <1>2. CASE ReadStep(r)
    <2>1. rd'[r].pc \notin {"idle", "fallback"}
      BY DEF Walks, AtPiece
    <2>2. CASE rd[r].pc = "sample"
      <3>1. ReadSample(r)
        BY <1>2, <2>2 DEF ReadStep, Walk, BeginFill, FetchPeer, FetchOrigin, CompleteFill, FinishPiece, Probe,
                          ReadServed, Reply
      <3> QED  BY <1>1, <2>1, <3>1, SampleCourse
    <2>3. CASE rd[r].pc # "sample"
      BY <1>1, <1>2, <2>1, <2>3, ReadCourse DEF Sampled, Asked, Walks, AtPiece
    <2> QED  BY <2>2, <2>3
  <1>3. ~\E s \in load.reads : ReadBegin(r, s)
    <2> SUFFICES ASSUME NEW s \in load.reads, ReadBegin(r, s) PROVE FALSE
      OBVIOUS
    <2>1. rd'[r].pc = "sample"
      BY <1>1 DEF ReadBegin, IdleReader, TypeInv, TypeOK, ReaderTypes
    <2> QED  BY <2>1 DEF Walks, AtPiece
  <1>4. CASE ~ReadStep(r)
    BY <1>1, <1>3, <1>4, ReadElsewhere DEF Sampled, Asked
  <1> QED  BY <1>2, <1>4

\* The reader's own step: it passes a piece that is marked, or takes the
\* descriptor of a live entry whose pieces it has all passed.
LEMMA PassedRead ==
    ASSUME ServeInv, PassedFit, Sampled, Sized, NEW r \in Readers, ReadStep(r), NEW u \in Units,
           Passed(r, u)', u < floor'[r], ~dead' \/ rd'[r].pc = "pread"
    PROVE  u < dlen' /\ data'[u] \in seen'[r][u]
PROOF
  <1>1. TypeInv /\ Alone /\ UNCHANGED dead /\ Next
    BY ReadPlaces DEF ServeInv, Base, Next
  <1>2. Reading(r) /\ rd'[r].pc \notin {"idle", "fallback", "sample"}
    BY <1>1, ReadPlaces DEF Passed, Walks, AtPiece, Reading
  <1>3. seen'[r] = seen[r] /\ floor'[r] = floor[r]
    <2>1. UNCHANGED <<seen, floor>> \/ ReadEnd(r)
      BY DEF ReadStep, ReadSample, Walk, BeginFill, FetchPeer, FetchOrigin, CompleteFill,
             FinishPiece, Probe, ReadServed, Reply
    <2>2. ~ReadEnd(r)
      BY <1>1, <1>2 DEF ReadEnd, IdleReader, TypeInv, TypeOK, ReaderTypes
    <2> QED  BY <2>1, <2>2
  <1>4. ASSUME u < dlen, data[u] \in seen[r][u] PROVE u < dlen' /\ data'[u] \in seen'[r][u]
    BY <1>1, <1>2, <1>3, <1>4, PassedStays
  <1>5. CASE rd[r].pc = "sample"
    <2>1. ReadSample(r)
      BY <1>5 DEF ReadStep, Walk, BeginFill, FetchPeer, FetchOrigin, CompleteFill, FinishPiece, Probe,
                  ReadServed, Reply
    <2>2. UNCHANGED <<data, dlen, size, bits, dead>> /\ rd'[r].pc \in {"serve", "walk"} /\ u < size
      BY <1>1, <1>2, <2>1, SampleCourse DEF ReadSample, Passed
    <2>3. ~dead
      BY <1>1, <2>2
    <2>4. rd'[r].i <= u \div PS /\ (rd'[r].pc = "serve" => u \div PS \in bits)
      BY <1>1, <1>2, <2>1, SampleCourse DEF Passed
    <2>5. u \div PS \in bits
      <3>1. rd'[r].i \in Nat /\ u \div PS \in Nat
        <4>1. TypeInv'
          BY <1>1, StepTypes
        <4> QED  BY <4>1, UnitPlace DEF TypeInv, TypeOK, ReaderTypes, Rd
      <3>2. rd'[r].pc # "serve" => u \div PS < rd'[r].i
        BY <2>2 DEF Passed, Walks
      <3> QED  BY <2>4, <3>1, <3>2
    <2>6. u < dlen /\ data[u] \in seen[r][u]
      BY <1>2, <1>3, <2>2, <2>3, <2>5 DEF ServeInv, Kept, Store, MarksFit, Marked, Fit, Returnable
    <2> QED  BY <1>4, <2>6
  <1>6. CASE rd[r].pc # "sample"
    <2>1. /\ rd'[r].off = rd[r].off /\ rd'[r].n = rd[r].n /\ rd'[r].stop = rd[r].stop
          /\ \/ Walks(rd[r]) /\ Walks(rd'[r]) /\ rd'[r].i = rd[r].i
             \/ /\ Walks(rd[r]) /\ rd'[r].pc = "walk" /\ rd'[r].i = rd[r].i + 1
                /\ rd[r].i \in bits \/ dead \/ PLen(size, rd[r].i) = 0
             \/ rd[r].pc = "walk" /\ rd[r].i = rd[r].stop /\ rd'[r].pc = "serve"
             \/ rd[r].pc = "serve" /\ rd'[r].pc = "pread" /\ ~dead
      BY <1>1, <1>2, <1>6, ReadCourse
    <2>2. ~dead /\ Asked(r, u) /\ u < floor[r]
      BY <1>1, <1>3, <2>1 DEF Passed, Walks, AtPiece, Asked
    <2>3. rd[r].i \in Nat /\ u \div PS \in Nat
      BY <1>1, UnitPlace DEF TypeInv, TypeOK, ReaderTypes, Rd
    <2>4. CASE Passed(r, u)
      BY <1>4, <2>2, <2>4 DEF PassedFit
    <2>5. CASE ~Passed(r, u)
      <3>1. Walks(rd[r]) /\ ~(u \div PS < rd[r].i)
        BY <2>1, <2>2, <2>5 DEF Passed, Walks
      <3>2. CASE rd'[r].pc = "walk" /\ rd'[r].i = rd[r].i + 1
        <4>1. u \div PS < rd[r].i + 1
          BY <3>2 DEF Passed, Walks
        <4>2. u \div PS = rd[r].i
          <5> DEFINE d == u \div PS
          <5>1. d \in Nat
            BY <2>3
          <5> HIDE DEF d
          <5>2. d < rd[r].i + 1 /\ ~(d < rd[r].i) => d = rd[r].i
            BY <2>3, <5>1
          <5> QED  BY <3>1, <4>1, <5>2 DEF d
        <4>3. rd[r].i \in bits \/ PLen(size, rd[r].i) = 0
          BY <2>1, <2>2, <2>3, <3>1, <3>2 DEF Walks, AtPiece
        <4>4. u < dlen /\ data[u] \in seen[r][u]
          <5>1. PLen(size, u \div PS) > 0 /\ (u \div PS \in bits => u < dlen /\ data[u] \in seen[r][u])
            BY <1>2, <1>6, <2>2, MarkedServes
          <5> HIDE DEF PLen
          <5> QED  BY <4>2, <4>3, <5>1
        <4> QED  BY <1>4, <4>4
      <3>3. CASE Walks(rd'[r]) /\ rd'[r].i = rd[r].i
        BY <3>1, <3>3 DEF Passed, Walks, AtPiece
      <3>4. CASE rd[r].pc = "walk" /\ rd[r].i = rd[r].stop
        <4>1. u \div PS < rd[r].stop
          BY <2>2, <3>1 DEF Sampled
        <4> QED  BY <3>1, <3>4, <4>1
      <3>5. rd[r].pc # "serve"
        BY <3>1 DEF Walks, AtPiece
      <3> QED  BY <2>1, <3>2, <3>3, <3>4, <3>5
    <2> QED  BY <2>4, <2>5
  <1> QED  BY <1>5, <1>6

LEMMA PassedStep ==
    ASSUME ServeInv, PassedFit, Sampled, Sized, [Next]_vars
    PROVE  PassedFit'
PROOF
  <1>1. TypeInv /\ Alone /\ Base
    BY DEF ServeInv, Base
  <1> SUFFICES ASSUME NEW r \in Readers, NEW u \in Units,
                      Passed(r, u)', u < floor'[r], ~dead' \/ rd'[r].pc = "pread"
               PROVE  u < dlen' /\ data'[u] \in seen'[r][u]
    BY DEF PassedFit
  <1>2. CASE ReadStep(r)
    BY <1>2, PassedRead
  <1>3. ~\E s \in load.reads : ReadBegin(r, s)
    <2> SUFFICES ASSUME NEW s \in load.reads, ReadBegin(r, s) PROVE FALSE
      OBVIOUS
    <2>1. rd'[r].pc = "sample"
      BY <1>1 DEF ReadBegin, IdleReader, TypeInv, TypeOK, ReaderTypes
    <2> QED  BY <2>1 DEF Passed, Walks, AtPiece
  <1>4. CASE ~ReadStep(r)
    <2>1. rd'[r] = rd[r]
      BY <1>1, <1>3, <1>4, ReadElsewhere
    <2>2. Passed(r, u) /\ Reading(r)
      BY <2>1 DEF Passed, Asked, Walks, AtPiece, Reading
    <2>3. seen[r][u] \subseteq seen'[r][u] /\ u < floor[r]
      BY <1>1, <1>3, <1>4, <2>2, ReadElsewhere
    <2>4. ~dead \/ rd[r].pc = "pread"
      BY <1>1, <2>1, DeadStays
    <2>5. u < dlen /\ data[u] \in seen[r][u]
      BY <2>2, <2>3, <2>4 DEF PassedFit
    <2>6. u < dlen' /\ data'[u] \in seen[r][u]
      BY <2>2, <2>3, <2>5, PassedStays
    <2> QED  BY <2>3, <2>6
  <1> QED  BY <1>2, <1>4

LEMMA ReadServes ==
    ASSUME ReadInv
    PROVE  ServeSafe
PROOF
  <1> SUFFICES ASSUME NEW r \in Readers, rd[r].pc = "pread",
                      NEW u \in rd[r].off .. rd[r].off + rd[r].n - 1, u < floor[r]
               PROVE  u < dlen /\ data[u] \in seen[r][u]
    BY DEF ServeSafe
  <1>1. u \in Units
    <2>1. TypeInv
      BY DEF ReadInv, ServeInv, Base
    <2>2. floor[r] \in 0 .. MaxSize /\ rd[r].off \in Nat /\ rd[r].n \in Nat
      BY <2>1 DEF TypeInv, TypeOK, HistoryTypes, ReaderTypes, Rd
    <2>3. u \in Nat /\ u < MaxSize
      BY <2>2, Sizes
    <2> QED  BY <2>3, PiecesType
  <1> QED  BY <1>1 DEF ReadInv, PassedFit, Passed, Asked

LEMMA ReadInvStep == ReadInv /\ [Next]_vars => ReadInv'
PROOF
  <1> SUFFICES ASSUME ReadInv, [Next]_vars PROVE ReadInv'
    OBVIOUS
  <1>1. load'.faults = load.faults
    BY OpsStay DEF ReadInv, ServeInv, Base
  <1> QED  BY <1>1, ServeStep, PassedStep, SampledStep, SizedStep DEF ReadInv

LEMMA ReadInvInit ==
    ASSUME OneClient, ClosesWork, Init
    PROVE  ReadInv
PROOF
  <1>1. ServeInv
    BY ServeInit
  <1>2. "close" \notin load.faults
    BY DEF ClosesWork, Init
  <1>3. \A r \in Readers : rd[r].pc = "idle"
    BY DEF Init, IdleReader
  <1>4. PassedFit /\ Sampled
    BY <1>3 DEF PassedFit, Sampled, Passed, Walks, AtPiece
  <1>5. Sized
    <2>1. size = osize /\ osize \in Nat /\ wr.pc = "idle" /\ wr.kind = "none"
      <3>1. osize \in Nat
        BY <1>1, Sizes DEF ServeInv, Base, TypeInv, TypeOK, OriginTypes
      <3> QED  BY <3>1, IdleMutatorSteady DEF Init
    <2> QED  BY <1>3, <2>1 DEF Sized, SizeBounded, ReadBounded, Reading
  <1> QED  BY <1>1, <1>2, <1>4, <1>5 DEF ReadInv

\* mf_read never returns a byte the file did not hold at some moment of the
\* read (readServed, ensureRange, completeFill), when one daemon is the file's
\* only client, it is not restarted, and a create's warmup is not skipped.
THEOREM ReadsAreServed == OneClient /\ ClosesWork => (Spec => []ServeSafe)
PROOF
  <1> SUFFICES ASSUME OneClient, ClosesWork PROVE Spec => []ServeSafe
    OBVIOUS
  <1>1. Init => ReadInv
    BY ReadInvInit
  <1>2. ReadInv /\ [Next]_vars => ReadInv'
    BY ReadInvStep
  <1>3. ReadInv => ServeSafe
    BY ReadServes
  <1> QED  BY <1>1, <1>2, <1>3, PTL DEF Spec
=============================================================================
