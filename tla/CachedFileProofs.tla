-------------------------- MODULE CachedFileProofs --------------------------
(***************************************************************************)
(* Proofs about CachedFile, for any readers, openers, sizes and workloads. *)
(*                                                                         *)
(* That forget is final is not inductive alone: the culler restores a mark *)
(* when its punch fails, so it must not be between its two steps when the  *)
(* entry dies.  It holds file.mu there, which forget waits for.            *)
(***************************************************************************)
EXTENDS CachedFile, WellFoundedInduction, TLAPS

NoMarks == bits = {} /\ sidecar.bits = {}

\* The culler is between its two steps only on a live entry.
PunchesLiveEntry == cull.pc # "idle" => ~dead

DeadInv == (dead => NoMarks) /\ PunchesLiveEntry

USE DEF originVars, cacheVars, entryVars, threadVars, ghostVars

\* Saving an empty field leaves a sidecar with no marks, torn or not.
LEMMA SavedEmpty ==
    ASSUME NEW sz, NEW nb, NEW i, sidecar.bits = {}, SaveBits(sz, nb, {}, i)
    PROVE  sidecar'.bits = {}
  BY DEF SaveBits, Image, NoSidecar

\* A step that leaves the entry's marks, its sidecar, dead and the culler alone.
LEMMA StepQuiet ==
    ASSUME DeadInv, UNCHANGED <<bits, sidecar, dead, cull>>
    PROVE  DeadInv'
  BY DEF DeadInv, NoMarks, PunchesLiveEntry

\* A step that adds no mark, and saves none the entry does not hold.
LEMMA StepNoNewMarks ==
    ASSUME DeadInv, UNCHANGED <<dead, cull>>,
           dead => bits' = {} /\ sidecar'.bits = {}
    PROVE  DeadInv'
  BY DEF DeadInv, NoMarks, PunchesLiveEntry

\* Reconciling a dead entry finds no mark to keep or to save.
LEMMA ReconcileNoMarks ==
    ASSUME NEW sz, NEW observed, NoMarks, Reconcile(sz, observed)
    PROVE  NoMarks'
PROOF
  <1>1. CASE size = sz /\ ~ContentChanged(id, observed)
    <2>1. bits' = bits /\ UNCHANGED sidecar
      BY <1>1 DEF Reconcile, NoMarks
    <2> QED  BY <2>1 DEF NoMarks
  <1>2. CASE ~(size = sz /\ ~ContentChanged(id, observed))
    <2>1. bits' = {} /\ SaveBits(sz, nbits', {}, id')
      BY <1>2 DEF Reconcile
    <2>2. sidecar'.bits = {}
      BY <2>1, SavedEmpty DEF NoMarks
    <2> QED  BY <2>1, <2>2 DEF NoMarks
  <1> QED  BY <1>1, <1>2

\* Growing a dead entry drops no mark and saves none.
LEMMA GrowNoMarks ==
    ASSUME NEW end, NoMarks, GrowTo(end)
    PROVE  NoMarks'
  BY DEF GrowTo, NoMarks

\* Every step of a reader; only finishPiece touches marks, and not of a dead
\* entry.
LEMMA StepReader ==
    ASSUME NEW r \in Readers, DeadInv, ReadStep(r)
    PROVE  DeadInv'
PROOF
  <1>1. CASE FinishPiece(r)
    <2>1. UNCHANGED <<dead, cull>>
      BY <1>1 DEF FinishPiece
    <2>2. dead => UNCHANGED <<bits, sidecar>>
      BY <1>1 DEF FinishPiece, Purged
    <2> QED  BY <2>1, <2>2, StepNoNewMarks DEF DeadInv, NoMarks
  <1>2. CASE ReadSample(r)
    BY <1>2, StepQuiet DEF ReadSample
  <1>3. CASE Walk(r) \/ Probe(r) \/ ReadServed(r)
    BY <1>3, StepQuiet DEF Walk, Probe, ReadServed
  <1>4. CASE BeginFill(r)
    BY <1>4, StepQuiet DEF BeginFill
  <1>5. CASE FetchPeer(r) \/ FetchOrigin(r)
    BY <1>5, StepQuiet DEF FetchPeer, FetchOrigin
  <1>6. CASE CompleteFill(r)
    BY <1>6, StepQuiet DEF CompleteFill
  <1>7. CASE Reply(r)
    BY <1>7, StepQuiet DEF Reply
  <1> QED  BY <1>1, <1>2, <1>3, <1>4, <1>5, <1>6, <1>7 DEF ReadStep

\* Every step of a write, truncate or create after its first.
LEMMA StepMutator ==
    ASSUME DeadInv, MutatorStep
    PROVE  DeadInv'
PROOF
  <1>1. CASE WriteStat \/ EntryGone \/ CopyPwrite
    BY <1>1, StepQuiet DEF WriteStat, EntryGone, CopyPwrite
  <1>2. CASE WriteFill
    BY <1>2, StepNoNewMarks DEF WriteFill
  <1>3. CASE WriteIdent
    BY <1>3, StepNoNewMarks DEF WriteIdent
  <1>4. CASE WriteGrow
    <2>1. UNCHANGED <<dead, cull>> /\ (GrowTo(wr.off + wr.len) \/ UNCHANGED <<bits, sidecar>>)
      BY <1>4 DEF WriteGrow
    <2> QED  BY <2>1, GrowNoMarks, StepNoNewMarks DEF DeadInv, NoMarks
  <1>5. CASE CopyMark
    <2>1. UNCHANGED <<dead, cull>>
      BY <1>5 DEF CopyMark
    <2>2. dead => UNCHANGED <<bits, sidecar>>
      BY <1>5 DEF CopyMark, Purged
    <2> QED  BY <2>1, <2>2, StepNoNewMarks DEF DeadInv, NoMarks
  <1>6. CASE WriteNote
    <2>1. UNCHANGED <<bits, dead, cull>>
      BY <1>6 DEF WriteNote
    <2>2. SaveBits(size, nbits, bits, wr.obs) \/ UNCHANGED sidecar
      BY <1>6 DEF WriteNote
    <2>3. dead => sidecar'.bits = {}
      BY <2>2, SavedEmpty DEF DeadInv, NoMarks
    <2> QED  BY <2>1, <2>3, StepNoNewMarks DEF DeadInv, NoMarks
  <1>7. CASE Distrust
    <2>1. UNCHANGED <<dead, cull>> /\ sidecar' = NoSidecar /\ (dead => UNCHANGED bits)
      BY <1>7 DEF Distrust
    <2> QED  BY <2>1, StepNoNewMarks DEF DeadInv, NoMarks, NoSidecar
  <1>8. CASE TruncateEntry
    <2>1. UNCHANGED <<dead, cull>> /\ (dead => UNCHANGED <<bits, sidecar>>)
      BY <1>8 DEF TruncateEntry
    <2> QED  BY <2>1, StepNoNewMarks DEF DeadInv, NoMarks
  <1>9. CASE CreateWarm
    <2>1. UNCHANGED <<dead, cull>> /\ (dead => UNCHANGED <<bits, sidecar>>)
      BY <1>9 DEF CreateWarm
    <2> QED  BY <2>1, StepNoNewMarks DEF DeadInv, NoMarks
  <1> QED  BY <1>1, <1>2, <1>3, <1>4, <1>5, <1>6, <1>7, <1>8, <1>9 DEF MutatorStep

\* The calls that begin, and the world outside: no mark is touched.
LEMMA StepBegin ==
    ASSUME DeadInv,
           \/ \E r \in Readers, s \in load.reads : ReadBegin(r, s)
           \/ \E s \in load.writes, v \in Vals : WriteOrigin(s, v)
           \/ \E n \in load.sizes : TruncateOrigin(n)
           \/ CreateOrigin
           \/ UnlinkOrigin
           \/ \E o \in Openers : OpenStat(o)
           \/ \E v \in Vals : ForeignRewrite(v)
    PROVE  DeadInv'
PROOF
  <1>1. UNCHANGED <<bits, sidecar, dead, cull>>
    BY DEF ReadBegin, WriteOrigin, TruncateOrigin, CreateOrigin, Mutation, UnlinkOrigin, OpenStat,
           ForeignRewrite
  <1> QED  BY <1>1, StepQuiet

\* An opener may still reconcile an entry a forget has removed.
LEMMA StepOpen ==
    ASSUME NEW o \in Openers, DeadInv, OpenReconcile(o)
    PROVE  DeadInv'
PROOF
  <1>1. UNCHANGED <<dead, cull>>
    BY DEF OpenReconcile
  <1>2. Reconcile(op[o].sz, op[o].obs) \/ UNCHANGED <<bits, sidecar>>
    BY DEF OpenReconcile
  <1>3. dead => NoMarks'
    BY <1>2, ReconcileNoMarks DEF DeadInv, NoMarks
  <1> QED  BY <1>1, <1>3, StepNoNewMarks DEF NoMarks

\* forget wipes the marks in the window that makes the entry dead, and no
\* punch is in progress then.
LEMMA StepUnlink ==
    ASSUME DeadInv, UnlinkForget \/ UnlinkPurge
    PROVE  DeadInv'
PROOF
  <1>1. CASE UnlinkForget
    BY <1>1 DEF UnlinkForget, FileMuFree, DeadInv, NoMarks, NoSidecar, PunchesLiveEntry
  <1>2. CASE UnlinkPurge
    BY <1>2 DEF UnlinkPurge, DeadInv, NoMarks, NoSidecar, PunchesLiveEntry
  <1> QED  BY <1>1, <1>2

\* The culler restores a mark only of a live entry.
LEMMA StepCull ==
    ASSUME DeadInv, PunchClear \/ PunchSaveFails \/ PunchCut
    PROVE  DeadInv'
PROOF
  <1>1. CASE PunchClear
    BY <1>1 DEF PunchClear, DeadInv, PunchesLiveEntry
  <1>2. CASE PunchSaveFails
    BY <1>2 DEF PunchSaveFails, DeadInv, PunchesLiveEntry
  <1>3. CASE PunchCut
    BY <1>3 DEF PunchCut, DeadInv, PunchesLiveEntry
  <1> QED  BY <1>1, <1>2, <1>3

\* A restarted daemon builds a live entry and no punch is in progress.
LEMMA StepRestart ==
    ASSUME DeadInv, Restart
    PROVE  DeadInv'
  BY DEF Restart, DeadInv, PunchesLiveEntry

\* The invariant holds of a first open.
LEMMA InitDead == Init => DeadInv
  BY DEF Init, DeadInv, PunchesLiveEntry

LEMMA StepDead == DeadInv /\ [Next]_vars => DeadInv'
PROOF
  <1> SUFFICES ASSUME DeadInv, [Next]_vars PROVE DeadInv'
    OBVIOUS
  <1>1. CASE UNCHANGED vars
    BY <1>1, StepQuiet DEF vars
  <1>2. CASE Next
    BY <1>2, StepReader, StepMutator, StepBegin, StepOpen, StepUnlink, StepCull, StepRestart
       DEF Next
  <1> QED  BY <1>1, <1>2

\* forget is final: no late fill, write-through, reconcile or failed punch
\* puts a mark back into a forgotten entry or its sidecar (finishPiece,
\* copyIntoCache, punchPiece).
THEOREM ForgetIsFinal == Spec => []DeadLeavesNoMarks
PROOF
  <1>1. DeadInv => DeadLeavesNoMarks
    BY DEF DeadInv, NoMarks, DeadLeavesNoMarks
  <1> QED  BY <1>1, InitDead, StepDead, PTL DEF Spec

-----------------------------------------------------------------------------
(* Pieces and bytes                                                          *)

LEMMA Sizes == PS \in Nat \ {0} /\ MaxSize \in Nat \ {0} /\ MaxSize <= U32Max /\ U32Max <= U64Max
                 /\ U32Max \in Nat /\ U64Max \in Nat /\ ByteBits \in Nat \ {0}
  BY SizeAssumption, WidthAssumption

\* The bytes of a piece.
LEMMA InPiece ==
    ASSUME NEW u \in Nat, NEW i \in Nat
    PROVE  /\ u \div PS \in Nat
           /\ u \div PS = i <=> (i * PS <= u /\ u < i * PS + PS)
PROOF
  <1>1. PS \in Nat \ {0}
    BY Sizes
  <1>2. /\ u \div PS \in Nat
        /\ (u \div PS) * PS <= u /\ u < (u \div PS) * PS + PS
    BY <1>1
  <1>3. ASSUME i * PS <= u, u < i * PS + PS
        PROVE  u \div PS = i
    BY <1>1, <1>3
  <1> QED  BY <1>2, <1>3

\* A file of sz bytes has the pieces that begin below its end.
LEMMA CountedPieces ==
    ASSUME NEW sz \in 0 .. MaxSize, NEW i \in Nat
    PROVE  PCount(sz) \in Nat /\ (i < PCount(sz) <=> i * PS < sz)
PROOF
  <1>1. PS \in Nat \ {0}
    BY Sizes
  <1>2. CASE sz = 0
    BY <1>1, <1>2 DEF PCount, Count
  <1>3. CASE sz # 0
    <2> DEFINE q == sz \div PS
    <2>1. q \in Nat /\ q * PS <= sz /\ sz < q * PS + PS /\ sz % PS = sz - q * PS
      BY <1>1, <1>3, Sizes
    <2>2. DivCeil(sz, PS) = IF sz = q * PS THEN q ELSE q + 1
      <3>1. (sz % PS # 0) = (sz # q * PS)
        BY <2>1, <1>1
      <3> QED  BY <3>1, <2>1 DEF DivCeil
    <2>3. i < DivCeil(sz, PS) <=> i * PS < sz
      <3> HIDE DEF q
      <3>1. CASE i <= q - 1
        <4>1. i * PS + PS <= q * PS
          BY <3>1, <2>1, <1>1
        <4> QED  BY <4>1, <3>1, <2>1, <2>2, <1>1
      <3>2. CASE i = q
        BY <3>2, <2>1, <2>2, <1>1
      <3>3. CASE i >= q + 1
        <4>1. q * PS + PS <= i * PS
          BY <3>3, <2>1, <1>1
        <4> QED  BY <4>1, <3>3, <2>1, <2>2, <1>1
      <3> QED  BY <3>1, <3>2, <3>3, <2>1
    <2>4. DivCeil(sz, PS) \in Nat
      BY <2>1, <2>2
    <2>5. DivCeil(sz, PS) <= U32Max
      <3> HIDE DEF q
      <3>1. q <= sz
        BY <2>1, <1>1
      <3>2. sz <= U32Max
        BY Sizes
      <3>3. CASE sz = q * PS
        BY <3>1, <3>2, <3>3, <2>1, <2>2, Sizes
      <3>4. CASE sz # q * PS
        <4>1. q < sz
          BY <3>1, <2>1, <3>4, <1>1
        <4> QED  BY <4>1, <3>2, <3>4, <2>1, <2>2, Sizes
      <3> QED  BY <3>3, <3>4
    <2>6. PCount(sz) = DivCeil(sz, PS)
      BY <2>4, <2>5, <1>1, <1>3, Sizes DEF PCount, Count, MinOf
    <2> QED  BY <2>3, <2>4, <2>6
  <1> QED  BY <1>2, <1>3

LEMMA PiecesType == Pieces = {i \in Nat : i * PS < MaxSize} /\ Units = {u \in Nat : u < MaxSize}
PROOF
  <1>1. MaxSize \in 0 .. MaxSize
    BY Sizes
  <1>2. PCount(MaxSize) \in Nat /\ \A i \in Nat : i < PCount(MaxSize) <=> i * PS < MaxSize
    BY <1>1, CountedPieces
  <1>3. Pieces = 0 .. PCount(MaxSize) - 1
    BY DEF Pieces, PCount
  <1> QED  BY <1>2, <1>3, Sizes DEF Units

\* A piece's length is what of it the file reaches.
LEMMA PieceLength ==
    ASSUME NEW sz \in 0 .. MaxSize, NEW i \in Nat
    PROVE  /\ i * PS \in Nat
           /\ PLen(sz, i) = IF i * PS >= sz THEN 0 ELSE IF sz - i * PS <= PS THEN sz - i * PS ELSE PS
           /\ PLen(sz, i) \in 0 .. PS
           /\ PLen(sz, i) > 0 => i \in Pieces /\ i * PS + PLen(sz, i) <= sz
PROOF
  <1>1. PS \in Nat \ {0} /\ i * PS \in Nat
    BY Sizes
  <1>2. PLen(sz, i) = IF i * PS >= sz THEN 0 ELSE IF sz - i * PS <= PS THEN sz - i * PS ELSE PS
    BY DEF PLen, PieceLen, Offset, MinOf
  <1>3. PLen(sz, i) > 0 => i * PS < sz
    BY <1>1, <1>2
  <1>4. i * PS < sz => i \in Pieces
    BY <1>1, PiecesType, Sizes
  <1> QED  BY <1>1, <1>2, <1>3, <1>4

LEMMA DivMonotone ==
    ASSUME NEW a \in Nat, NEW b \in Nat, a <= b
    PROVE  a \div PS <= b \div PS
PROOF
  <1> DEFINE p == a \div PS
             q == b \div PS
  <1>1. PS \in Nat \ {0} /\ p \in Nat /\ q \in Nat /\ p * PS <= a /\ b < q * PS + PS
    BY Sizes, InPiece
  <1> HIDE DEF p, q
  <1>2. ASSUME q + 1 <= p PROVE FALSE
    <2>1. q * PS + PS <= p * PS
      BY <1>1, <1>2
    <2> QED  BY <2>1, <1>1
  <1> QED  BY <1>1, <1>2 DEF p, q

LEMMA IndexExact ==
    ASSUME NEW u \in 0 .. MaxSize
    PROVE  IndexAt(u, PS) = u \div PS /\ u \div PS <= u
PROOF
  <1>1. PS \in Nat \ {0} /\ u \div PS \in Nat /\ (u \div PS) * PS <= u
    BY Sizes, InPiece
  <1>2. u \div PS <= u
    BY <1>1
  <1> QED  BY <1>1, <1>2, Sizes DEF IndexAt, MinOf

\* The pieces a span touches.
LEMMA CoverExact ==
    ASSUME NEW off \in Nat, NEW len \in Nat \ {0}, NEW sz \in 0 .. MaxSize, off < sz
    PROVE  /\ CoverStart(off, len, sz, PS) = off \div PS
           /\ CoverEnd(off, len, sz, PS) \in Nat
           /\ CoverEnd(off, len, sz, PS) <= PCount(MaxSize)
           /\ \A u \in Nat : off <= u /\ u < off + len /\ u < sz =>
                u \div PS \in Cover(off, len, sz, PS)
PROOF
  <1> DEFINE last == SatSub(MinOf(SatAdd(off, len), sz), 1)
  <1>1. PS \in Nat \ {0} /\ off \in 0 .. MaxSize /\ sz <= U64Max
    BY Sizes
  <1>2. /\ last \in 0 .. MaxSize /\ last < sz
        /\ \A u \in Nat : u < off + len /\ u < sz => u <= last
    BY <1>1, Sizes DEF SatSub, SatAdd, MinOf
  <1>3. CoverStart(off, len, sz, PS) = off \div PS
    BY <1>1, IndexExact DEF CoverStart
  <1> DEFINE q == last \div PS
  <1>4. q \in Nat /\ q * PS <= last /\ IndexAt(last, PS) = q /\ q <= last
    BY <1>2, InPiece, IndexExact
  <1>5. CoverEnd(off, len, sz, PS) = q + 1
    <2>1. q + 1 <= U32Max
      BY <1>2, <1>4, Sizes
    <2> QED  BY <2>1, <1>1, <1>4, Sizes DEF CoverEnd, MinOf
  <1>6. q + 1 <= PCount(MaxSize)
    <2>1. MaxSize \in 0 .. MaxSize
      BY Sizes
    <2>2. PCount(MaxSize) \in Nat /\ (q < PCount(MaxSize) <=> q * PS < MaxSize)
      BY <2>1, <1>4, CountedPieces
    <2> HIDE DEF q, last
    <2>3. q * PS < MaxSize
      BY <1>2, <1>4, <1>1, Sizes
    <2> QED  BY <2>2, <2>3, <1>4
  <1>7. ASSUME NEW u \in Nat, off <= u, u < off + len, u < sz
        PROVE  u \div PS \in Cover(off, len, sz, PS)
    <2>1. u <= last /\ last \in Nat
      BY <1>2, <1>7
    <2>2. off \div PS <= u \div PS /\ u \div PS <= q /\ u \div PS \in Nat /\ off \div PS \in Nat
      BY <2>1, <1>7, DivMonotone, InPiece
    <2> QED  BY <2>2, <1>3, <1>4, <1>5 DEF Cover
  <1> QED  BY <1>3, <1>4, <1>5, <1>6, <1>7

\* The pieces a span covers.
LEMMA FullCoverExact ==
    ASSUME NEW off \in Nat, NEW len \in Nat \ {0}, off + len <= MaxSize,
           NEW i \in FullCover(off, len, PS)
    PROVE  i \in Pieces /\ i \in Nat /\ off <= i * PS /\ i * PS + PS <= off + len
PROOF
  <1> DEFINE first == DivCeil(off, PS)
             stop == (off + len) \div PS
             q == off \div PS
  <1>1. PS \in Nat \ {0} /\ SatAdd(off, len) = off + len
    BY Sizes DEF SatAdd, MinOf
  <1>2. /\ q \in Nat /\ q * PS <= off /\ off < q * PS + PS
        /\ stop \in Nat /\ stop * PS <= off + len /\ off + len < stop * PS + PS
    BY <1>1, InPiece
  <1>3. first \in Nat /\ off <= first * PS
    <2>1. off % PS = off - q * PS
      BY <1>1, <1>2
    <2>2. first = IF off = q * PS THEN q ELSE q + 1
      BY <1>1, <1>2, <2>1 DEF DivCeil
    <2> HIDE DEF first, q, stop
    <2> QED  BY <2>2, <1>1, <1>2
  <1>4. stop <= U32Max
    <2>1. off + len \in 0 .. MaxSize
      BY Sizes
    <2> QED  BY <2>1, IndexExact, Sizes
  <1>5. first < stop /\ i \in first .. stop - 1
    BY <1>1, <1>3, <1>4, <1>2, Sizes DEF FullCover, MinOf
  <1> HIDE DEF first, stop, q
  <1>6. i \in Nat /\ first <= i /\ i + 1 <= stop
    BY <1>2, <1>3, <1>5
  <1>7. first * PS <= i * PS
    BY <1>6, <1>3, <1>1
  <1>8. i * PS + PS <= stop * PS
    BY <1>6, <1>2, <1>1
  <1>9. off <= i * PS /\ i * PS + PS <= off + len /\ i * PS \in Nat /\ stop * PS \in Nat /\ first * PS \in Nat
    BY <1>7, <1>8, <1>3, <1>2, <1>6, <1>1
  <1> QED  BY <1>9, <1>6, <1>1, PiecesType, Sizes

-----------------------------------------------------------------------------
(* Type correctness.  What keeps the indices in range: a reader stays below  *)
(* the end it sampled, a write ends below MaxSize, the culler takes a mark.  *)

AtPiece(x) == x.pc \in {"claim", "fetch", "land", "mark", "abort", "probe"}
Walks(x) == x.pc = "walk" \/ AtPiece(x)

ReaderSteady(x) ==
    /\ x.pc = "sample" => x.n > 0
    /\ Walks(x) => x.i <= x.stop /\ x.stop <= PCount(MaxSize)
    /\ AtPiece(x) => x.i < x.stop
ReadersSteady == \A r \in Readers : ReaderSteady(rd[r])

Writing == wr.pc \in {"stat", "fill", "ident", "grow", "copy", "mark"}
MutatorSteady ==
    /\ Writing => wr.kind = "write"
    /\ wr.kind = "write" => wr.len > 0 /\ wr.off + wr.len <= MaxSize
    /\ wr.sz <= MaxSize
CullerSteady == cull.pc = "cut" => cull.i \in Pieces

TypeInv == TypeOK /\ ReadersSteady /\ MutatorSteady /\ CullerSteady

LEMMA Constants ==
    /\ Val \subseteq Nat /\ Hole \in Val /\ Pieces \subseteq Nat /\ Units \subseteq 0 .. MaxSize
    /\ PCount(MaxSize) \in Nat /\ Pieces = 0 .. PCount(MaxSize) - 1
    /\ NoHash \in Seq(Val) /\ NoHashes \in [Pieces -> Seq(Val)]
    /\ \A sz \in 0 .. MaxSize : PCount(sz) \in Nat /\ 0 .. PCount(sz) - 1 \subseteq Pieces
PROOF
  <1>1. Val \subseteq Nat /\ Hole \in Val
    BY ValueAssumption DEF Val, Hole
  <1>2. Pieces \subseteq Nat /\ Units \subseteq 0 .. MaxSize
    BY PiecesType, Sizes
  <1>3. MaxSize \in 0 .. MaxSize
    BY Sizes
  <1>4. PCount(MaxSize) \in Nat /\ Pieces = 0 .. PCount(MaxSize) - 1
    BY <1>3, CountedPieces DEF Pieces, PCount
  <1>5. NoHash \in Seq(Val)
    BY DEF NoHash
  <1>6. ASSUME NEW sz \in 0 .. MaxSize
        PROVE  PCount(sz) \in Nat /\ 0 .. PCount(sz) - 1 \subseteq Pieces
    <2>1. PCount(sz) \in Nat
      BY CountedPieces
    <2>2. ASSUME NEW i \in 0 .. PCount(sz) - 1 PROVE i \in Pieces
      <3>1. i \in Nat /\ i * PS < sz
        BY <2>1, <2>2, CountedPieces
      <3> QED  BY <3>1, PiecesType, Sizes
    <2> QED  BY <2>1, <2>2
  <1> QED  BY <1>1, <1>2, <1>4, <1>5, <1>6 DEF NoHashes

LEMMA OverlayType ==
    ASSUME NEW f \in [Units -> Val], NEW off \in Nat, NEW s \in Seq(Val)
    PROVE  Overlay(f, off, s) \in [Units -> Val]
PROOF
  <1> SUFFICES ASSUME NEW u \in Units
               PROVE  (IF u \in off .. off + Len(s) - 1 THEN s[u - off + 1] ELSE f[u]) \in Val
    BY DEF Overlay
  <1>1. CASE u \in off .. off + Len(s) - 1
    <2>1. u - off + 1 \in 1 .. Len(s)
      BY <1>1, Constants
    <2> QED  BY <1>1, <2>1
  <1> QED  BY <1>1

LEMMA CutType ==
    ASSUME NEW f \in [Units -> Val], NEW n
    PROVE  Cut(f, n) \in [Units -> Val]
  BY Constants DEF Cut

LEMMA SavedType ==
    ASSUME SidecarTypes, NEW sz \in 0 .. MaxSize, NEW nb \in Nat, NEW bs \in SUBSET Pieces,
           NEW i \in Nat, SaveBits(sz, nb, bs, i)
    PROVE  SidecarTypes'
PROOF
  <1>1. NoSidecar \in [size : 0 .. MaxSize, nbits : Nat, bits : SUBSET Pieces, id : Nat]
    BY Sizes DEF NoSidecar, Unknown
  <1>2. sidecar' \in {Image(sz, nb, bs, i), sidecar, NoSidecar}
    BY DEF SaveBits
  <1> QED  BY <1>1, <1>2 DEF Image, SidecarTypes

LEMMA FieldSizeType ==
    ASSUME EntryTypes, NEW n \in 0 .. MaxSize
    PROVE  FieldSize(n) \in Nat
  BY Constants DEF FieldSize, EntryTypes

LEMMA TruncateType ==
    ASSUME DataTypes, NEW n \in 0 .. MaxSize, TruncateCacheFd(n)
    PROVE  DataTypes'
  BY CutType DEF DataTypes, TruncateCacheFd

LEMMA ReconcileTypes ==
    ASSUME DataTypes, SidecarTypes, EntryTypes, dead' = dead,
           NEW sz \in 0 .. MaxSize, NEW observed \in Nat, Reconcile(sz, observed)
    PROVE  DataTypes' /\ SidecarTypes' /\ EntryTypes'
PROOF
  <1>1. CASE size = sz /\ ~ContentChanged(id, observed)
    <2>1. UNCHANGED <<size, nbits, bits, writes, hashes, data, dlen>> /\ id' \in Nat
      BY <1>1 DEF Reconcile, EntryTypes
    <2>2. SaveBits(size, nbits, bits, observed) \/ UNCHANGED sidecar
      BY <1>1 DEF Reconcile
    <2>3. SidecarTypes'
      BY <2>2, SavedType DEF EntryTypes, SidecarTypes
    <2> QED  BY <2>1, <2>3 DEF EntryTypes, DataTypes
  <1>2. CASE ~(size = sz /\ ~ContentChanged(id, observed))
    <2>1. /\ size' = sz /\ bits' = {} /\ nbits' = FieldSize(sz) /\ writes' = writes + 1
          /\ hashes' = NoHashes /\ id' \in Nat /\ TruncateCacheFd(sz)
          /\ SaveBits(sz, nbits', {}, id')
      BY <1>2 DEF Reconcile, ClearHashes, EntryTypes
    <2>2. EntryTypes'
      BY <2>1, FieldSizeType, Constants DEF EntryTypes
    <2>3. SidecarTypes'
      BY <2>1, <2>2, SavedType DEF EntryTypes
    <2>4. DataTypes'
      BY <2>1, TruncateType
    <2> QED  BY <2>2, <2>3, <2>4
  <1> QED  BY <1>1, <1>2

LEMMA GrowTypes ==
    ASSUME SidecarTypes, EntryTypes, dead' = dead, writes' = writes, id' \in Nat,
           NEW end \in 0 .. MaxSize, GrowTo(end)
    PROVE  SidecarTypes' /\ EntryTypes'
PROOF
  <1>1. bits \ WidenedPiece \in SUBSET Pieces
    BY DEF EntryTypes
  <1>2. SaveBits(size, nbits, bits \ WidenedPiece, id) \/ UNCHANGED sidecar
    BY DEF GrowTo
  <1>3. SidecarTypes'
    BY <1>1, <1>2, SavedType DEF EntryTypes, SidecarTypes
  <1>4. hashes' \in [Pieces -> Seq(Val)]
    BY Constants DEF GrowTo, EntryTypes
  <1>5. nbits' \in Nat
    BY FieldSizeType DEF GrowTo
  <1> QED  BY <1>1, <1>3, <1>4, <1>5 DEF GrowTo, EntryTypes

\* A step of one reader.
LEMMA ReaderMoves ==
    ASSUME ReaderTypes, ReadersSteady, NEW r \in Readers, NEW x \in Rd, ReaderSteady(x),
           rd' = [rd EXCEPT ![r] = x]
    PROVE  ReaderTypes' /\ ReadersSteady'
  BY DEF ReaderTypes, ReadersSteady

LEMMA IdleReaderSteady == IdleReader \in Rd /\ ReaderSteady(IdleReader)
  BY DEF IdleReader, Rd, ReaderSteady, Walks, AtPiece

LEMMA IdleMutatorSteady ==
    /\ IdleMutator \in Wr
    /\ IdleMutator.pc = "idle" /\ IdleMutator.kind = "none" /\ IdleMutator.sz = 0
  BY Constants DEF IdleMutator, Wr, Unknown

\* The parts of the state a step leaves alone keep their types.
LEMMA OriginTypesKept == OriginTypes /\ UNCHANGED originVars => OriginTypes'
  BY DEF OriginTypes
LEMMA CacheTypesKept == DataTypes /\ SidecarTypes /\ UNCHANGED cacheVars => DataTypes' /\ SidecarTypes'
  BY DEF DataTypes, SidecarTypes
LEMMA EntryTypesKept == EntryTypes /\ ClaimTypes /\ UNCHANGED entryVars => EntryTypes' /\ ClaimTypes'
  BY DEF EntryTypes, ClaimTypes
LEMMA LockTypesKept == LockTypes /\ UNCHANGED <<xfer, cmu>> => LockTypes'
  BY DEF LockTypes
LEMMA MutatorKept == MutatorTypes /\ MutatorSteady /\ UNCHANGED wr => MutatorTypes' /\ MutatorSteady'
  BY DEF MutatorTypes, MutatorSteady, Writing
LEMMA OtherTypesKept == OtherTypes /\ CullerSteady /\ UNCHANGED <<op, cull, ul>> => OtherTypes' /\ CullerSteady'
  BY DEF OtherTypes, CullerSteady
LEMMA HistoryTypesKept == HistoryTypes /\ UNCHANGED ghostVars => HistoryTypes'
  BY DEF HistoryTypes
LEMMA ReadersKept == ReaderTypes /\ ReadersSteady /\ UNCHANGED rd => ReaderTypes' /\ ReadersSteady'
  BY DEF ReaderTypes, ReadersSteady, ReaderSteady, Walks, AtPiece

LEMMA HeldType == OriginTypes => \A u \in Units : Held(u) \subseteq Val
  BY DEF OriginTypes, Held

\* The budgets of a workload.
LEMMA WorkloadSpent ==
    ASSUME load \in Workload
    PROVE  /\ load.maxReads > 0 => [load EXCEPT !.maxReads = @ - 1] \in Workload
           /\ load.maxMuts > 0 => [load EXCEPT !.maxMuts = @ - 1] \in Workload
           /\ load.maxOpens > 0 => [load EXCEPT !.maxOpens = @ - 1] \in Workload
           /\ load.maxForeigns > 0 => [load EXCEPT !.maxForeigns = @ - 1] \in Workload
           /\ load.maxRestarts > 0 => [load EXCEPT !.maxRestarts = @ - 1] \in Workload
PROOF
  <1> DEFINE A == SUBSET (0 .. MaxSize)
             B == SUBSET Spans
             C == SUBSET {"write", "truncate", "create", "unlink"}
             D == SUBSET {"origin", "close", "cache", "save", "stat", "lag"}
  <1>1. Workload = [sizes : A, reads : B, writes : B, ops : C, faults : D, maxReaders : Nat,
                    maxReads : Nat, maxMuts : Nat, maxForeigns : Nat, maxOpens : Nat,
                    maxRestarts : Nat]
    BY DEF Workload
  <1> HIDE DEF A, B, C, D
  <1> QED  BY <1>1

LEMMA TypeReadBegin ==
    ASSUME TypeInv, NEW r \in Readers, NEW s \in load.reads, ReadBegin(r, s)
    PROVE  TypeInv'
PROOF
  <1> USE DEF TypeInv, TypeOK
  <1>1. s \in Spans
    BY DEF HistoryTypes, Workload
  <1>2. s[1] \in Nat /\ s[2] \in Nat /\ s[2] > 0
    BY <1>1, Sizes DEF Spans
  <1> DEFINE x == [IdleReader EXCEPT !.pc = "sample", !.off = s[1], !.n = s[2]]
  <1>3. rd' = [rd EXCEPT ![r] = x]
    BY DEF ReadBegin
  <1>4. x \in Rd /\ ReaderSteady(x)
    BY <1>2, IdleReaderSteady DEF Rd, ReaderSteady, Walks, AtPiece
  <1>5. ReaderTypes' /\ ReadersSteady'
    BY <1>3, <1>4, ReaderMoves
  <1>6. LockTypes'
    BY DEF ReadBegin, LockTypes
  <1>7. seen' \in [Readers -> [Units -> SUBSET Val]]
    <2>1. [u \in Units |-> Held(u) \cup wr.before[u]] \in [Units -> SUBSET Val]
      BY HeldType DEF MutatorTypes, Wr
    <2> QED  BY <2>1 DEF ReadBegin, HistoryTypes
  <1>8. floor' \in [Readers -> 0 .. MaxSize]
    BY Sizes DEF ReadBegin, HistoryTypes, OriginTypes
  <1>9. load' \in Workload
    BY WorkloadSpent DEF ReadBegin, HistoryTypes
  <1>10. HistoryTypes'
    BY <1>7, <1>8, <1>9 DEF HistoryTypes, ReadBegin
  <1>11. UNCHANGED <<originVars, cacheVars, entryVars, wr, op, cull, ul>>
    BY DEF ReadBegin
  <1> QED  BY <1>5, <1>6, <1>10, <1>11, OriginTypesKept, CacheTypesKept, EntryTypesKept, MutatorKept,
              OtherTypesKept

LEMMA TypeReadEnd ==
    ASSUME TypeInv, NEW r \in Readers, ReadEnd(r)
    PROVE  ReaderTypes' /\ ReadersSteady' /\ xfer' \subseteq Readers
           /\ seen' \in [Readers -> [Units -> SUBSET Val]] /\ floor' \in [Readers -> 0 .. MaxSize]
PROOF
  <1> USE DEF TypeInv, TypeOK
  <1>1. ReaderTypes' /\ ReadersSteady'
    BY IdleReaderSteady, ReaderMoves DEF ReadEnd
  <1> QED  BY <1>1, Sizes DEF ReadEnd, HistoryTypes, LockTypes

LEMMA TypeReadSample ==
    ASSUME TypeInv, NEW r \in Readers, ReadSample(r)
    PROVE  TypeInv'
PROOF
  <1> USE DEF TypeInv, TypeOK
  <1>1. UNCHANGED <<originVars, cacheVars, entryVars, cmu, wr, op, cull, ul, foreign, load>>
    BY DEF ReadSample
  <1>2. CASE rd[r].off >= size
    <2>1. ReadEnd(r)
      BY <1>2 DEF ReadSample
    <2>2. LockTypes' /\ HistoryTypes'
      BY <2>1, <1>1, TypeReadEnd DEF LockTypes, HistoryTypes
    <2> QED  BY <2>1, <2>2, <1>1, TypeReadEnd, OriginTypesKept, CacheTypesKept, EntryTypesKept,
                MutatorKept, OtherTypesKept
  <1>3. CASE ~(rd[r].off >= size)
    <2> DEFINE n == MinOf(rd[r].n, size - rd[r].off)
               cov == Cover(rd[r].off, n, size, PS)
               x == [rd[r] EXCEPT !.n = n, !.i = CoverStart(rd[r].off, n, size, PS),
                                  !.stop = CoverEnd(rd[r].off, n, size, PS),
                                  !.pc = IF cov \subseteq bits THEN "serve" ELSE "walk"]
    <2>1. rd[r] \in Rd /\ rd[r].pc = "sample" /\ rd[r].n > 0 /\ size \in 0 .. MaxSize
      BY DEF ReaderTypes, ReadersSteady, ReaderSteady, ReadSample, EntryTypes
    <2>2. rd[r].off \in Nat /\ n \in Nat \ {0} /\ rd[r].off < size
      BY <2>1, <1>3 DEF MinOf, Rd
    <2>3. rd' = [rd EXCEPT ![r] = x] /\ UNCHANGED <<xfer, seen, floor>>
      BY <1>3 DEF ReadSample
    <2> DEFINE lo == CoverStart(rd[r].off, n, size, PS)
               hi == CoverEnd(rd[r].off, n, size, PS)
    <2>4. /\ lo \in Nat /\ hi \in Nat /\ hi <= PCount(MaxSize)
          /\ rd[r].off \div PS \in lo .. hi - 1
      <3>1. /\ lo = rd[r].off \div PS /\ hi \in Nat /\ hi <= PCount(MaxSize)
            /\ \A u \in Nat : rd[r].off <= u /\ u < rd[r].off + n /\ u < size => u \div PS \in cov
        BY <2>1, <2>2, CoverExact
      <3>2. rd[r].off \div PS \in cov
        BY <3>1, <2>2
      <3> QED  BY <3>1, <3>2, <2>2, InPiece DEF Cover
    <2> HIDE DEF lo, hi, n
    <2>5. lo <= hi
      BY <2>4
    <2>6. x \in Rd
      BY <2>1, <2>2, <2>4 DEF Rd, lo, hi
    <2>7. x.pc \in {"serve", "walk"} /\ x.i = lo /\ x.stop = hi
      BY <2>1 DEF Rd, lo, hi
    <2>8. ReaderSteady(x)
      <3> HIDE DEF x
      <3> QED  BY <2>4, <2>5, <2>7 DEF ReaderSteady, Walks, AtPiece
    <2>9. ReaderTypes' /\ ReadersSteady'
      BY <2>3, <2>6, <2>8, ReaderMoves
    <2> QED  BY <2>9, <2>3, <1>1, OriginTypesKept, CacheTypesKept, EntryTypesKept, MutatorKept,
                OtherTypesKept, LockTypesKept, HistoryTypesKept
  <1> QED  BY <1>2, <1>3

\* A step that only moves a reader, or changes the entry with it.
LEMMA TypeReaderMove ==
    ASSUME TypeInv, NEW r \in Readers, NEW x \in Rd, ReaderSteady(x), rd' = [rd EXCEPT ![r] = x],
           UNCHANGED <<originVars, xfer, wr, op, cull, ul, ghostVars>>,
           DataTypes', SidecarTypes', EntryTypes', ClaimTypes', cmu' \in Readers \cup {Free, Mutator, Culler}
    PROVE  TypeInv'
PROOF
  <1> USE DEF TypeInv, TypeOK
  <1>1. ReaderTypes' /\ ReadersSteady'
    BY ReaderMoves
  <1>2. LockTypes'
    BY DEF LockTypes
  <1> QED  BY <1>1, <1>2, OriginTypesKept, MutatorKept, OtherTypesKept, HistoryTypesKept

LEMMA NextPieceSteady ==
    ASSUME NEW x \in Rd, x.i < x.stop, x.stop <= PCount(MaxSize)
    PROVE  LET y == [x EXCEPT !.pc = "walk", !.i = @ + 1]
           IN  y \in Rd /\ ReaderSteady(y)
PROOF
  <1> DEFINE z == [x EXCEPT !.i = @ + 1]
             y == [z EXCEPT !.pc = "walk"]
  <1>1. [x EXCEPT !.pc = "walk", !.i = @ + 1] = y
    BY DEF Rd
  <1>2. z \in Rd /\ z.i = x.i + 1 /\ z.stop = x.stop
    BY SMTT(30) DEF Rd
  <1> HIDE DEF z
  <1>3. y \in Rd /\ y.pc = "walk" /\ y.i = x.i + 1 /\ y.stop = x.stop
    BY <1>2 DEF Rd
  <1>4. x.i \in Nat /\ x.stop \in Nat
    BY DEF Rd
  <1> HIDE DEF y
  <1>5. ReaderSteady(y)
    BY <1>3, <1>4, Constants DEF ReaderSteady, Walks, AtPiece
  <1> QED  BY <1>1, <1>3, <1>5

LEMMA TypeWalk ==
    ASSUME TypeInv, NEW r \in Readers, Walk(r) \/ Probe(r) \/ ReadServed(r)
    PROVE  TypeInv'
PROOF
  <1>1. /\ UNCHANGED <<originVars, cacheVars, entryVars, xfer, cmu, wr, op, cull, ul, ghostVars>>
        /\ rd[r] \in Rd /\ ReaderSteady(rd[r])
    BY DEF Walk, Probe, ReadServed, TypeInv, TypeOK, ReaderTypes, ReadersSteady
  <1>2. PICK x : rd' = [rd EXCEPT ![r] = x] /\ x \in Rd /\ ReaderSteady(x)
    <2>1. CASE rd[r].pc = "walk" /\ rd[r].i = rd[r].stop /\ rd' = [rd EXCEPT ![r].pc = "serve"]
      <3> DEFINE x == [rd[r] EXCEPT !.pc = "serve"]
      <3>1. rd' = [rd EXCEPT ![r] = x] /\ x \in Rd /\ ReaderSteady(x)
        BY <1>1, <2>1 DEF Rd, ReaderSteady, Walks, AtPiece
      <3> QED  BY <3>1
    <2>2. CASE /\ \/ rd[r].pc = "walk" /\ rd[r].i < rd[r].stop
                  \/ rd[r].pc = "probe"
               /\ NextPiece(r)
      <3> DEFINE x == [rd[r] EXCEPT !.pc = "walk", !.i = @ + 1]
      <3>1. rd' = [rd EXCEPT ![r] = x]
        BY <2>2 DEF NextPiece
      <3>2. rd[r].i < rd[r].stop /\ rd[r].stop <= PCount(MaxSize)
        BY <1>1, <2>2 DEF ReaderSteady, Walks, AtPiece
      <3>3. x \in Rd /\ ReaderSteady(x)
        BY <1>1, <3>2, NextPieceSteady
      <3> QED  BY <3>1, <3>3
    <2>3. CASE /\ rd[r].pc = "walk" /\ rd[r].i < rd[r].stop
               /\ rd' = [rd EXCEPT ![r].pc = "claim", ![r].prefer = (writes # 0), ![r].retry = FALSE]
      <3> DEFINE x == [rd[r] EXCEPT !.pc = "claim", !.prefer = (writes # 0), !.retry = FALSE]
      <3>1. rd' = [rd EXCEPT ![r] = x] /\ x \in Rd /\ ReaderSteady(x)
        BY <1>1, <2>3 DEF Rd, ReaderSteady, Walks, AtPiece
      <3> QED  BY <3>1
    <2>4. CASE rd[r].pc = "probe" /\ rd' = [rd EXCEPT ![r].pc = "claim", ![r].retry = TRUE, ![r].prefer = TRUE]
      <3> DEFINE x == [rd[r] EXCEPT !.pc = "claim", !.retry = TRUE, !.prefer = TRUE]
      <3>1. rd' = [rd EXCEPT ![r] = x] /\ x \in Rd /\ ReaderSteady(x)
        BY <1>1, <2>4 DEF Rd, ReaderSteady, Walks, AtPiece
      <3> QED  BY <3>1
    <2>5. CASE rd' = [rd EXCEPT ![r].pc = "fallback"]
      <3> DEFINE x == [rd[r] EXCEPT !.pc = "fallback"]
      <3>1. rd' = [rd EXCEPT ![r] = x] /\ x \in Rd /\ ReaderSteady(x)
        BY <1>1, <2>5 DEF Rd, ReaderSteady, Walks, AtPiece
      <3> QED  BY <3>1
    <2>6. CASE rd' = [rd EXCEPT ![r].pc = "pread"]
      <3> DEFINE x == [rd[r] EXCEPT !.pc = "pread"]
      <3>1. rd' = [rd EXCEPT ![r] = x] /\ x \in Rd /\ ReaderSteady(x)
        BY <1>1, <2>6 DEF Rd, ReaderSteady, Walks, AtPiece
      <3> QED  BY <3>1
    <2>7. CASE Walk(r)
      BY <2>1, <2>2, <2>3, <2>7 DEF Walk
    <2>8. CASE Probe(r)
      BY <2>2, <2>4, <2>5, <2>8 DEF Probe
    <2>9. CASE ReadServed(r)
      BY <2>5, <2>6, <2>9 DEF ReadServed
    <2> QED  BY <2>7, <2>8, <2>9
  <1>3. DataTypes' /\ SidecarTypes' /\ EntryTypes' /\ ClaimTypes' /\ cmu' \in Readers \cup {Free, Mutator, Culler}
    BY <1>1, CacheTypesKept, EntryTypesKept DEF TypeInv, TypeOK, LockTypes
  <1> QED  BY <1>1, <1>2, <1>3, TypeReaderMove

LEMMA TypeBeginFill ==
    ASSUME TypeInv, NEW r \in Readers, BeginFill(r)
    PROVE  TypeInv'
PROOF
  <1>1. /\ UNCHANGED <<originVars, cacheVars, size, nbits, bits, writes, hashes, id, dead, xfer, cmu,
                        wr, op, cull, ul, ghostVars>>
        /\ rd[r] \in Rd /\ ReaderSteady(rd[r]) /\ rd[r].pc = "claim"
    BY DEF BeginFill, TypeInv, TypeOK, ReaderTypes, ReadersSteady
  <1>2. /\ rd[r].i \in Nat /\ rd[r].stop \in Nat /\ rd[r].i < rd[r].stop /\ rd[r].stop <= PCount(MaxSize)
        /\ size \in 0 .. MaxSize /\ writes \in Nat
    BY <1>1 DEF ReaderSteady, Walks, AtPiece, Rd, TypeInv, TypeOK, EntryTypes
  <1>3. PICK x : rd' = [rd EXCEPT ![r] = x] /\ x \in Rd /\ ReaderSteady(x)
    <2>1. CASE NextPiece(r)
      <3> DEFINE x == [rd[r] EXCEPT !.pc = "walk", !.i = @ + 1]
      <3>1. rd' = [rd EXCEPT ![r] = x]
        BY <2>1 DEF NextPiece
      <3>2. x \in Rd /\ ReaderSteady(x)
        BY <1>1, <1>2, NextPieceSteady
      <3> QED  BY <3>1, <3>2
    <2>2. CASE rd' = [rd EXCEPT ![r].pc = "fetch", ![r].flen = PLen(size, rd[r].i)]
      <3> DEFINE x == [rd[r] EXCEPT !.pc = "fetch", !.flen = PLen(size, rd[r].i)]
      <3>1. PLen(size, rd[r].i) \in Nat
        BY <1>2, PieceLength, Sizes
      <3>2. rd' = [rd EXCEPT ![r] = x] /\ x \in Rd /\ ReaderSteady(x)
        BY <1>1, <2>2, <3>1 DEF Rd, ReaderSteady, Walks, AtPiece
      <3> QED  BY <3>2
    <2> QED  BY <2>1, <2>2 DEF BeginFill
  <1>4. EntryTypes' /\ ClaimTypes'
    BY <1>1, <1>2 DEF BeginFill, TypeInv, TypeOK, EntryTypes, ClaimTypes
  <1>5. DataTypes' /\ SidecarTypes' /\ cmu' \in Readers \cup {Free, Mutator, Culler}
    BY <1>1, CacheTypesKept DEF TypeInv, TypeOK, LockTypes
  <1> QED  BY <1>1, <1>3, <1>4, <1>5, TypeReaderMove

LEMMA TypeFetch ==
    ASSUME TypeInv, NEW r \in Readers, FetchPeer(r) \/ FetchOrigin(r)
    PROVE  TypeInv'
PROOF
  <1>1. /\ UNCHANGED <<originVars, cacheVars, entryVars, xfer, cmu, wr, op, cull, ul, ghostVars>>
        /\ rd[r] \in Rd /\ ReaderSteady(rd[r]) /\ rd[r].pc = "fetch"
    BY DEF FetchPeer, FetchOrigin, TypeInv, TypeOK, ReaderTypes, ReadersSteady
  <1>2. /\ rd[r].i \in Pieces /\ rd[r].flen \in Nat
    <2>1. rd[r].i \in Nat /\ rd[r].stop \in Nat /\ rd[r].i < rd[r].stop /\ rd[r].stop <= PCount(MaxSize)
          /\ rd[r].flen \in Nat
      BY <1>1 DEF ReaderSteady, Walks, AtPiece, Rd
    <2> QED  BY <2>1, Constants
  <1>3. ASSUME NEW b \in Seq(Val), rd' = [rd EXCEPT ![r].buf = b, ![r].pc = "land"]
        PROVE  \E x : rd' = [rd EXCEPT ![r] = x] /\ x \in Rd /\ ReaderSteady(x)
    <2> DEFINE x == [rd[r] EXCEPT !.buf = b, !.pc = "land"]
    <2>1. rd' = [rd EXCEPT ![r] = x] /\ x \in Rd /\ ReaderSteady(x)
      BY <1>1, <1>3 DEF Rd, ReaderSteady, Walks, AtPiece
    <2> QED  BY <2>1
  <1>4. PICK x : rd' = [rd EXCEPT ![r] = x] /\ x \in Rd /\ ReaderSteady(x)
    <2>1. CASE FetchPeer(r)
      <3>1. hashes[rd[r].i] \in Seq(Val)
        BY <1>2 DEF TypeInv, TypeOK, EntryTypes
      <3> QED  BY <3>1, <2>1, <1>3 DEF FetchPeer
    <2>2. CASE osize >= Offset(rd[r].i, PS) + rd[r].flen /\
               rd' = [rd EXCEPT ![r].buf = Bytes(odata, Offset(rd[r].i, PS), rd[r].flen), ![r].pc = "land"]
      <3> DEFINE off == Offset(rd[r].i, PS)
                 b == Bytes(odata, off, rd[r].flen)
      <3>1. off \in Nat
        BY <1>2, Constants, Sizes DEF Offset
      <3> DEFINE n == rd[r].flen
      <3>20. n \in Nat /\ osize \in 0 .. MaxSize /\ off + n <= osize
        BY <1>2, <2>2 DEF Rd, TypeInv, TypeOK, OriginTypes
      <3> HIDE DEF off, n
      <3>21. \A k \in 1 .. n : off + k - 1 \in Units
        BY <3>1, <3>20, Sizes DEF Units
      <3>2. \A k \in 1 .. rd[r].flen : off + k - 1 \in Units
        BY <3>21 DEF n
      <3>3. b \in Seq(Val)
        <4>1. \A k \in 1 .. rd[r].flen : odata[off + k - 1] \in Val
          BY <3>2 DEF TypeInv, TypeOK, OriginTypes
        <4> QED  BY <4>1, <1>2 DEF Bytes
      <3> QED  BY <3>3, <2>2, <1>3 DEF off
    <2>3. CASE rd' = [rd EXCEPT ![r].pc = "abort", ![r].ok = FALSE]
      <3> DEFINE x == [rd[r] EXCEPT !.pc = "abort", !.ok = FALSE]
      <3>1. rd' = [rd EXCEPT ![r] = x] /\ x \in Rd /\ ReaderSteady(x)
        BY <1>1, <2>3 DEF Rd, ReaderSteady, Walks, AtPiece
      <3> QED  BY <3>1
    <2> QED  BY <2>1, <2>2, <2>3 DEF FetchOrigin
  <1>5. DataTypes' /\ SidecarTypes' /\ EntryTypes' /\ ClaimTypes' /\ cmu' \in Readers \cup {Free, Mutator, Culler}
    BY <1>1, CacheTypesKept, EntryTypesKept DEF TypeInv, TypeOK, LockTypes
  <1> QED  BY <1>1, <1>4, <1>5, TypeReaderMove

LEMMA PrefixType ==
    ASSUME NEW s \in Seq(Val), NEW k \in 0 .. Len(s)
    PROVE  /\ SubSeq(s, 1, k) \in Seq(Val) /\ Len(SubSeq(s, 1, k)) = k
           /\ \A j \in 1 .. k : SubSeq(s, 1, k)[j] = s[j]
  OBVIOUS

LEMMA TypeCompleteFill ==
    ASSUME TypeInv, NEW r \in Readers, CompleteFill(r)
    PROVE  TypeInv'
PROOF
  <1> DEFINE i == rd[r].i
             off == Offset(i, PS)
  <1>1. /\ UNCHANGED <<originVars, sidecar, size, nbits, bits, writes, hashes, id, dead,
                        xfer, wr, op, cull, ul, ghostVars>>
        /\ rd[r] \in Rd /\ ReaderSteady(rd[r]) /\ rd[r].pc = "land"
    BY DEF CompleteFill, TypeInv, TypeOK, ReaderTypes, ReadersSteady
  <1>2. /\ i \in Nat /\ off = i * PS /\ off \in Nat /\ rd[r].buf \in Seq(Val)
        /\ size \in 0 .. MaxSize /\ cmu \in Readers \cup {Free, Mutator, Culler}
    BY <1>1, Sizes DEF Rd, Offset, TypeInv, TypeOK, EntryTypes, LockTypes
  <1>3. EntryTypes' /\ SidecarTypes'
    BY <1>1 DEF TypeInv, TypeOK, EntryTypes, SidecarTypes
  <1>4. CASE FillOutrun(r)
    <2> DEFINE x == [rd[r] EXCEPT !.pc = "probe"]
    <2>1. UNCHANGED <<data, dlen, cmu>> /\ Unclaim(i) /\ rd' = [rd EXCEPT ![r] = x]
      BY <1>4 DEF CompleteFill
    <2>2. x \in Rd /\ ReaderSteady(x)
      BY <1>1 DEF Rd, ReaderSteady, Walks, AtPiece
    <2>3. ClaimTypes' /\ DataTypes'
      BY <2>1 DEF Unclaim, ClaimTypes, DataTypes, TypeInv, TypeOK
    <2> QED  BY <2>1, <2>2, <2>3, <1>1, <1>2, <1>3, TypeReaderMove
  <1>5. CASE ~FillOutrun(r)
    <2>1. PICK k \in {Len(rd[r].buf)} \cup (IF Fault("cache") THEN 0 .. Len(rd[r].buf) - 1 ELSE {}) :
            /\ data' = Overlay(data, off, SubSeq(rd[r].buf, 1, k))
            /\ dlen' = IF k = 0 THEN dlen ELSE Extend(dlen, off + k)
            /\ rd' = [rd EXCEPT ![r].pc = "mark", ![r].ok = FillLanded(r, k)]
      BY <1>5 DEF CompleteFill
    <2>2. k \in 0 .. Len(rd[r].buf)
      BY <2>1, <1>2
    <2> DEFINE x == [rd[r] EXCEPT !.pc = "mark", !.ok = FillLanded(r, k)]
    <2>3. rd' = [rd EXCEPT ![r] = x] /\ x \in Rd /\ ReaderSteady(x)
      BY <2>1, <1>1 DEF Rd, ReaderSteady, Walks, AtPiece, FillLanded
    <2>4. data' \in [Units -> Val]
      BY <2>1, <2>2, <1>2, PrefixType, OverlayType DEF TypeInv, TypeOK, DataTypes
    <2>5. dlen' \in 0 .. MaxSize
      <3>1. PLen(size, i) = Len(rd[r].buf)
        BY <1>5 DEF FillOutrun, ClaimStands
      <3>2. k > 0 => off + k <= size
        <4>1. k > 0 => PLen(size, i) > 0
          BY <3>1, <2>2, <1>2
        <4>2. PLen(size, i) > 0 => i * PS + PLen(size, i) <= size
          BY <1>2, PieceLength
        <4>3. i * PS \in Nat /\ PLen(size, i) \in Nat /\ k <= PLen(size, i) /\ k \in Nat
          BY <3>1, <2>2, <1>2
        <4> HIDE DEF off, i
        <4> QED  BY <4>1, <4>2, <4>3, <1>2
      <3>3. k \in Nat /\ dlen \in 0 .. MaxSize /\ size \in 0 .. MaxSize /\ off \in Nat
        BY <2>2, <1>2, Sizes DEF TypeInv, TypeOK, DataTypes, EntryTypes, Offset
      <3> HIDE DEF off, i
      <3> QED  BY <2>1, <3>2, <3>3, Sizes DEF Extend
    <2>6. ClaimTypes' /\ cmu' \in Readers \cup {Free, Mutator, Culler}
      BY <1>5 DEF CompleteFill, TypeInv, TypeOK, ClaimTypes
    <2>7. DataTypes'
      BY <2>4, <2>5 DEF DataTypes
    <2> QED  BY <2>3, <2>6, <2>7, <1>1, <1>3, TypeReaderMove
  <1> QED  BY <1>4, <1>5

LEMMA TypeFinishPiece ==
    ASSUME TypeInv, NEW r \in Readers, FinishPiece(r)
    PROVE  TypeInv'
PROOF
  <1> DEFINE i == rd[r].i
             x == [rd[r] EXCEPT !.pc = IF rd[r].ok THEN "probe" ELSE "fallback"]
  <1>1. /\ UNCHANGED <<originVars, data, dlen, size, nbits, writes, id, dead, xfer, wr, op, cull, ul, ghostVars>>
        /\ rd[r] \in Rd /\ ReaderSteady(rd[r]) /\ AtPiece(rd[r]) /\ Unclaim(i) /\ rd' = [rd EXCEPT ![r] = x]
    BY DEF FinishPiece, TypeInv, TypeOK, ReaderTypes, ReadersSteady, AtPiece
  <1>2. x \in Rd /\ ReaderSteady(x)
    BY <1>1 DEF Rd, ReaderSteady, Walks, AtPiece
  <1>3. i \in Pieces /\ rd[r].buf \in Seq(Val)
    <2>1. rd[r].i \in Nat /\ rd[r].stop \in Nat /\ rd[r].i < rd[r].stop /\ rd[r].stop <= PCount(MaxSize)
      BY <1>1 DEF ReaderSteady, Walks, Rd
    <2> QED  BY <1>1, <2>1, Constants DEF Rd
  <1>4. EntryTypes' /\ SidecarTypes'
    <2>1. CASE Purged
      BY <2>1, <1>1 DEF FinishPiece, TypeInv, TypeOK, EntryTypes, SidecarTypes
    <2>2. CASE ~Purged
      <3>1. bits' \in SUBSET Pieces /\ hashes' \in [Pieces -> Seq(Val)]
        BY <2>2, <1>3 DEF FinishPiece, InField, TypeInv, TypeOK, EntryTypes
      <3>2. SaveBits(size, nbits, bits', id)
        BY <2>2 DEF FinishPiece
      <3>3. EntryTypes'
        BY <3>1, <1>1 DEF TypeInv, TypeOK, EntryTypes
      <3>4. SidecarTypes'
        BY <3>1, <3>2, SavedType DEF TypeInv, TypeOK, EntryTypes
      <3> QED  BY <3>3, <3>4
    <2> QED  BY <2>1, <2>2
  <1>5. ClaimTypes' /\ DataTypes' /\ cmu' \in Readers \cup {Free, Mutator, Culler}
    BY <1>1 DEF FinishPiece, Unclaim, TypeInv, TypeOK, ClaimTypes, DataTypes, LockTypes
  <1> QED  BY <1>1, <1>2, <1>4, <1>5, TypeReaderMove

LEMMA TypeReply ==
    ASSUME TypeInv, NEW r \in Readers, Reply(r)
    PROVE  TypeInv'
PROOF
  <1>1. UNCHANGED <<originVars, cacheVars, entryVars, cmu, wr, op, cull, ul, foreign, load>> /\ ReadEnd(r)
    BY DEF Reply
  <1>2. LockTypes' /\ HistoryTypes'
    BY <1>1, TypeReadEnd DEF LockTypes, HistoryTypes, TypeInv, TypeOK
  <1> QED  BY <1>2, <1>1, TypeReadEnd, OriginTypesKept, CacheTypesKept, EntryTypesKept,
              MutatorKept, OtherTypesKept DEF TypeInv, TypeOK

LEMMA TypeReader ==
    ASSUME TypeInv, NEW r \in Readers, ReadStep(r)
    PROVE  TypeInv'
  BY TypeReadSample, TypeWalk, TypeBeginFill, TypeFetch, TypeCompleteFill, TypeFinishPiece, TypeReply
     DEF ReadStep

\* A step of the mutator after its first.
LEMMA TypeMutatorMove ==
    ASSUME TypeInv, UNCHANGED <<originVars, xfer, filling, dead, rd, op, cull, ul, ghostVars>>,
           MutatorTypes', MutatorSteady', DataTypes', SidecarTypes', EntryTypes',
           cmu' \in Readers \cup {Free, Mutator, Culler}
    PROVE  TypeInv'
PROOF
  <1> USE DEF TypeInv, TypeOK
  <1>1. LockTypes' /\ ClaimTypes'
    BY DEF LockTypes, ClaimTypes
  <1> QED  BY <1>1, OriginTypesKept, ReadersKept, OtherTypesKept, HistoryTypesKept

LEMMA MutatorRests ==
    ASSUME wr' = IdleMutator
    PROVE  MutatorTypes' /\ MutatorSteady'
  BY IdleMutatorSteady, Sizes DEF MutatorTypes, MutatorSteady, Writing

LEMMA MutatorTyped == TypeInv => MutatorTypes /\ MutatorSteady
  BY DEF TypeInv, TypeOK

LEMMA WrFields ==
    ASSUME TypeInv
    PROVE  /\ wr.off \in Nat /\ wr.len \in Nat /\ wr.sz \in 0 .. MaxSize /\ wr.obs \in Nat /\ wr.val \in Val
           /\ wr.copied \in BOOLEAN /\ wr.note \in BOOLEAN
           /\ wr.before \in [Units -> SUBSET Val]
           /\ Writing => wr.off + wr.len \in 0 .. MaxSize /\ wr.len > 0
           /\ wr = [wr EXCEPT !.pc = wr.pc, !.sz = wr.sz, !.obs = wr.obs, !.copied = wr.copied, !.note = wr.note]
PROOF
  <1>1. wr \in Wr
    BY DEF TypeInv, TypeOK, MutatorTypes
  <1>2. /\ wr.off \in Nat /\ wr.len \in Nat /\ wr.sz \in Nat /\ wr.obs \in Nat /\ wr.val \in Val
        /\ wr.copied \in BOOLEAN /\ wr.note \in BOOLEAN /\ wr.before \in [Units -> SUBSET Val]
    BY <1>1 DEF Wr
  <1>3. wr = [wr EXCEPT !.pc = wr.pc, !.sz = wr.sz, !.obs = wr.obs, !.copied = wr.copied, !.note = wr.note]
    BY <1>1 DEF Wr
  <1> QED  BY <1>2, <1>3, Sizes DEF TypeInv, MutatorSteady

\* The call in progress at another of its places.
Moved(pc, sz, obs, copied, note) ==
    [wr EXCEPT !.pc = pc, !.sz = sz, !.obs = obs, !.copied = copied, !.note = note]

\* A step of a call in progress to another of its places.
LEMMA MutatorMoves ==
    ASSUME TypeInv, NEW pc \in {"fill", "ident", "grow", "copy", "mark", "note", "distrust", "warm"},
           NEW sz \in 0 .. MaxSize, NEW obs \in Nat, NEW copied \in BOOLEAN, NEW note \in BOOLEAN,
           Writing \/ pc \in {"note", "distrust", "warm"}
    PROVE  wr' = Moved(pc, sz, obs, copied, note) => MutatorTypes' /\ MutatorSteady'
PROOF
  <1> DEFINE x == [wr EXCEPT !.pc = pc, !.sz = sz, !.obs = obs, !.copied = copied, !.note = note]
  <1>1. x \in Wr
    <2> DEFINE B == [Units -> SUBSET Val]
               P == {"idle", "stat", "fill", "ident", "grow", "copy", "mark", "note", "distrust", "trunc", "warm"}
               K == {"none", "write", "truncate", "create"}
    <2>1. pc \in P /\ wr \in Wr /\ sz \in Nat
      BY MutatorTyped DEF MutatorTypes
    <2>2. Wr = [pc : P, kind : K, off : Nat, len : Nat, val : Val, sz : Nat, obs : Nat, copied : BOOLEAN,
                note : BOOLEAN, before : B]
      BY DEF Wr
    <2> HIDE DEF B, P, K
    <2> QED  BY <2>1, <2>2
  <1>2. x.pc = pc /\ x.sz = sz /\ x.kind = wr.kind /\ x.len = wr.len /\ x.off = wr.off
    BY MutatorTyped DEF MutatorTypes, Wr
  <1> HIDE DEF x
  <1>3. ASSUME wr' = x PROVE MutatorTypes' /\ MutatorSteady'
    <2>1. MutatorTypes'
      BY <1>1, <1>3 DEF MutatorTypes
    <2>2. MutatorSteady'
      BY <1>2, <1>3, MutatorTyped, Sizes DEF MutatorSteady, Writing
    <2> QED  BY <2>1, <2>2
  <1> QED  BY <1>3 DEF x, Moved

\* One that changes nothing but its place and what the copy will do.
LEMMA MutatorProceeds ==
    ASSUME TypeInv, NEW pc \in {"fill", "ident", "grow", "copy", "mark", "note", "distrust", "warm"},
           Writing \/ pc \in {"note", "distrust", "warm"}
    PROVE  /\ wr' = [wr EXCEPT !.pc = pc] => MutatorTypes' /\ MutatorSteady'
           /\ wr' = [wr EXCEPT !.pc = pc, !.note = FALSE] => MutatorTypes' /\ MutatorSteady'
           /\ \A c \in BOOLEAN :
                wr' = [wr EXCEPT !.pc = pc, !.copied = c] => MutatorTypes' /\ MutatorSteady'
PROOF
  <1> DEFINE X(c, n) == Moved(pc, wr.sz, wr.obs, c, n)
  <1>1. ASSUME NEW c \in BOOLEAN, NEW n \in BOOLEAN, wr' = X(c, n)
        PROVE  MutatorTypes' /\ MutatorSteady'
    <2>1. wr.sz \in 0 .. MaxSize /\ wr.obs \in Nat
      BY WrFields
    <2> QED  BY <1>1, <2>1, MutatorMoves
  <1>2. wr \in Wr
    BY MutatorTyped DEF MutatorTypes
  <1>3. wr.copied \in BOOLEAN /\ wr.note \in BOOLEAN
    BY WrFields
  <1>4. [wr EXCEPT !.pc = pc] = X(wr.copied, wr.note)
    BY <1>2 DEF Wr, Moved
  <1>5. [wr EXCEPT !.pc = pc, !.note = FALSE] = X(wr.copied, FALSE)
    BY <1>2 DEF Wr, Moved
  <1>6. \A c \in BOOLEAN : [wr EXCEPT !.pc = pc, !.copied = c] = X(c, wr.note)
    BY <1>2 DEF Wr, Moved
  <1> HIDE DEF X
  <1> QED  BY <1>1, <1>3, <1>4, <1>5, <1>6

\* What a stat after a write may observe.
LEMMA ObservedTyped ==
    ASSUME TypeInv, NEW s \in Observed
    PROVE  s[1] \in 0 .. MaxSize /\ s[2] \in Nat
PROOF
  <1>1. osize \in 0 .. MaxSize /\ oid \in Nat
    BY DEF TypeInv, TypeOK, OriginTypes
  <1>2. wr.sz \in 0 .. MaxSize /\ wr.obs \in Nat
    BY WrFields
  <1>3. s = <<osize, oid>> \/ s = <<wr.sz, wr.obs>>
    BY DEF Observed
  <1> QED  BY <1>1, <1>2, <1>3

LEMMA TypeWriteStat ==
    ASSUME TypeInv, WriteStat
    PROVE  TypeInv'
PROOF
  <1>1. /\ UNCHANGED <<originVars, cacheVars, entryVars, xfer, cmu, rd, op, cull, ul, ghostVars>>
        /\ Writing
    BY DEF WriteStat, Writing
  <1>2. osize \in 0 .. MaxSize /\ oid \in Nat /\ MutatorTypes /\ MutatorSteady /\ wr \in Wr
    BY DEF TypeInv, TypeOK, OriginTypes, MutatorTypes
  <1>3. PICK pc \in {"fill", "ident", "distrust"}, sz \in 0 .. MaxSize, obs \in Nat, note \in BOOLEAN :
            wr' = Moved(pc, sz, obs, wr.copied, note)
    <2>1. ASSUME NEW s \in Observed,
                 wr' = [wr EXCEPT !.sz = s[1], !.obs = s[2], !.note = TRUE,
                            !.pc = IF s[1] = wr.off + wr.len THEN "fill" ELSE "ident"]
          PROVE  \E pc \in {"fill", "ident", "distrust"}, sz \in 0 .. MaxSize, obs \in Nat, note \in BOOLEAN :
                    wr' = Moved(pc, sz, obs, wr.copied, note)
      <3> DEFINE pc == IF s[1] = wr.off + wr.len THEN "fill" ELSE "ident"
      <3>1. pc \in {"fill", "ident", "distrust"}
        OBVIOUS
      <3>2. s[1] \in 0 .. MaxSize /\ s[2] \in Nat
        BY <1>2, ObservedTyped
      <3>3. wr' = Moved(pc, s[1], s[2], wr.copied, TRUE)
        <4> HIDE DEF pc
        <4> QED  BY <2>1, <1>2 DEF Wr, pc, Moved
      <3> QED  BY <3>1, <3>2, <3>3
    <2>2. ASSUME NEW s \in Observed,
                 wr' = [wr EXCEPT !.sz = s[1], !.obs = s[2], !.pc = "ident"]
          PROVE  \E pc \in {"fill", "ident", "distrust"}, sz \in 0 .. MaxSize, obs \in Nat, note \in BOOLEAN :
                    wr' = Moved(pc, sz, obs, wr.copied, note)
      <3>1. wr' = Moved("ident", s[1], s[2], wr.copied, wr.note)
        BY <2>2, <1>2 DEF Wr, Moved
      <3>2. s[1] \in 0 .. MaxSize /\ s[2] \in Nat
        BY <1>2, ObservedTyped
      <3> QED  BY <3>1, <3>2, WrFields
    <2>3. CASE wr' = [wr EXCEPT !.pc = "distrust"]
      <3>1. wr' = Moved("distrust", wr.sz, wr.obs, wr.copied, wr.note)
        BY <2>3, <1>2 DEF Wr, Moved
      <3> QED  BY <3>1, <1>2, WrFields
    <2> QED  BY <2>1, <2>2, <2>3 DEF WriteStat
  <1>4. MutatorTypes' /\ MutatorSteady'
    <2>1. wr.copied \in BOOLEAN
      BY WrFields
    <2> QED  BY <1>1, <1>3, <2>1, MutatorMoves
  <1> QED  BY <1>1, <1>4, TypeMutatorMove, CacheTypesKept, EntryTypesKept DEF TypeInv, TypeOK, LockTypes

LEMMA TypeWriteFill ==
    ASSUME TypeInv, WriteFill
    PROVE  TypeInv'
PROOF
  <1> DEFINE end == wr.off + wr.len
  <1>1. /\ UNCHANGED <<originVars, filling, dead, xfer, cmu, rd, op, cull, ul, ghostVars>>
        /\ Writing /\ wr' = [wr EXCEPT !.pc = "copy", !.note = FALSE]
    BY DEF WriteFill, Writing
  <1>2. end \in 0 .. MaxSize /\ wr \in Wr /\ wr.obs \in Nat
    BY <1>1, WrFields DEF TypeInv, TypeOK, MutatorTypes
  <1>3. id' \in Nat
    BY <1>2 DEF WriteFill, TypeInv, TypeOK, EntryTypes
  <1>4. DataTypes' /\ SidecarTypes' /\ EntryTypes'
    <2>1. CASE end > size /\ GrowTo(end) /\ UNCHANGED <<writes, data, dlen>>
      BY <2>1, <1>1, <1>2, <1>3, GrowTypes DEF TypeInv, TypeOK, DataTypes
    <2>2. CASE /\ size' = end /\ bits' = {} /\ nbits' = FieldSize(end) /\ writes' = writes + 1
               /\ ClearHashes /\ TruncateCacheFd(end) /\ SaveBits(end, nbits', {}, id)
      <3>1. nbits' \in Nat /\ id \in Nat
        BY <2>2, <1>2, FieldSizeType DEF TypeInv, TypeOK, EntryTypes
      <3>2. SidecarTypes'
        BY <2>2, <3>1, <1>2, SavedType DEF TypeInv, TypeOK
      <3>3. EntryTypes'
        BY <2>2, <3>1, <1>1, <1>2, <1>3, Constants, SMTT(30) DEF TypeInv, TypeOK, EntryTypes, ClearHashes
      <3> QED  BY <3>2, <3>3, <2>2, <1>2, TruncateType DEF TypeInv, TypeOK
    <2>3. CASE UNCHANGED <<size, bits, nbits, writes, hashes, data, dlen, sidecar>>
      <3>1. UNCHANGED dead
        BY <1>1
      <3>2. DataTypes' /\ SidecarTypes'
        BY <2>3 DEF TypeInv, TypeOK, DataTypes, SidecarTypes
      <3>3. EntryTypes'
        BY <2>3, <3>1, <1>3 DEF TypeInv, TypeOK, EntryTypes
      <3> QED  BY <3>2, <3>3
    <2> QED  BY <2>1, <2>2, <2>3 DEF WriteFill
  <1>6. MutatorTypes' /\ MutatorSteady'
    BY <1>1, MutatorProceeds
  <1> QED  BY <1>1, <1>4, <1>6, TypeMutatorMove DEF TypeInv, TypeOK, LockTypes

LEMMA TypeWriteIdent ==
    ASSUME TypeInv, WriteIdent
    PROVE  TypeInv'
PROOF
  <1>1. /\ UNCHANGED <<originVars, filling, dead, xfer, cmu, rd, op, cull, ul, ghostVars>>
        /\ Writing /\ wr' = [wr EXCEPT !.pc = "grow"] /\ Reconcile(wr.sz, wr.obs)
    BY DEF WriteIdent, Writing
  <1>2. DataTypes' /\ SidecarTypes' /\ EntryTypes'
    BY <1>1, WrFields, ReconcileTypes DEF TypeInv, TypeOK
  <1>4. MutatorTypes' /\ MutatorSteady'
    BY <1>1, MutatorProceeds
  <1> QED  BY <1>1, <1>2, <1>4, TypeMutatorMove DEF TypeInv, TypeOK, LockTypes

LEMMA TypeWriteGrow ==
    ASSUME TypeInv, WriteGrow
    PROVE  TypeInv'
PROOF
  <1>1. /\ UNCHANGED <<originVars, data, dlen, filling, writes, id, dead, xfer, cmu, rd, op, cull, ul, ghostVars>>
        /\ Writing /\ wr' = [wr EXCEPT !.pc = "copy"]
        /\ GrowTo(wr.off + wr.len) \/ UNCHANGED <<size, bits, hashes, nbits, sidecar>>
    BY DEF WriteGrow, Writing
  <1>2. DataTypes' /\ SidecarTypes' /\ EntryTypes'
    <2>1. CASE GrowTo(wr.off + wr.len)
      BY <2>1, <1>1, WrFields, GrowTypes DEF TypeInv, TypeOK, DataTypes, EntryTypes
    <2>2. CASE UNCHANGED <<size, bits, hashes, nbits, sidecar>>
      BY <2>2, <1>1 DEF TypeInv, TypeOK, DataTypes, EntryTypes, SidecarTypes
    <2> QED  BY <1>1, <2>1, <2>2
  <1>4. MutatorTypes' /\ MutatorSteady'
    BY <1>1, MutatorProceeds
  <1> QED  BY <1>1, <1>2, <1>4, TypeMutatorMove DEF TypeInv, TypeOK, LockTypes

LEMMA FilledType ==
    ASSUME NEW k \in Nat, NEW v \in Val
    PROVE  [j \in 1 .. k |-> v] \in Seq(Val) /\ Len([j \in 1 .. k |-> v]) = k
  OBVIOUS

LEMMA TypeCopyPwrite ==
    ASSUME TypeInv, CopyPwrite
    PROVE  TypeInv'
PROOF
  <1>1. /\ UNCHANGED <<originVars, sidecar, entryVars, xfer, rd, op, cull, ul, ghostVars>>
        /\ Writing /\ cmu' = Mutator
    BY DEF CopyPwrite, Writing
  <1>2. \E c \in BOOLEAN : wr' = [wr EXCEPT !.pc = "mark", !.copied = c]
    BY DEF CopyPwrite, CopyLanded
  <1>3. MutatorTypes' /\ MutatorSteady'
    BY <1>1, <1>2, MutatorProceeds
  <1>4. DataTypes'
    <2>1. CASE UNCHANGED <<data, dlen>>
      BY <2>1 DEF TypeInv, TypeOK, DataTypes
    <2>2. ASSUME NEW k \in 0 .. wr.len,
                 data' = Overlay(data, wr.off, [j \in 1 .. k |-> wr.val]),
                 dlen' = IF k = 0 THEN dlen ELSE Extend(dlen, wr.off + k)
          PROVE  DataTypes'
      <3>1. wr.off \in Nat /\ wr.len \in Nat /\ wr.val \in Val /\ wr.off + wr.len \in 0 .. MaxSize /\ k \in Nat
        BY <1>1, WrFields
      <3>2. data' \in [Units -> Val]
        BY <3>1, <2>2, FilledType, OverlayType DEF TypeInv, TypeOK, DataTypes
      <3>3. dlen \in 0 .. MaxSize /\ wr.off + k \in 0 .. MaxSize
        BY <3>1, Sizes DEF TypeInv, TypeOK, DataTypes
      <3>4. dlen' \in 0 .. MaxSize
        BY <3>3, <2>2 DEF Extend
      <3> QED  BY <3>2, <3>4 DEF DataTypes
    <2>3. \A k \in {wr.len} \cup (IF Fault("cache") THEN 0 .. wr.len - 1 ELSE {}) : k \in 0 .. wr.len
      BY WrFields
    <2>4. \/ UNCHANGED <<data, dlen>>
          \/ \E k \in {wr.len} \cup (IF Fault("cache") THEN 0 .. wr.len - 1 ELSE {}) :
                /\ data' = Overlay(data, wr.off, [j \in 1 .. k |-> wr.val])
                /\ dlen' = IF k = 0 THEN dlen ELSE Extend(dlen, wr.off + k)
      BY DEF CopyPwrite
    <2> QED  BY <2>1, <2>2, <2>3, <2>4
  <1> QED  BY <1>1, <1>3, <1>4, TypeMutatorMove DEF TypeInv, TypeOK, EntryTypes, SidecarTypes

LEMMA TypeCopyMark ==
    ASSUME TypeInv, CopyMark
    PROVE  TypeInv'
PROOF
  <1>1. /\ UNCHANGED <<originVars, data, dlen, size, nbits, filling, id, dead, xfer, rd, op, cull, ul, ghostVars>>
        /\ Writing /\ cmu' = Free
        /\ wr' = [wr EXCEPT !.pc = "note"] \/ wr' = IdleMutator
    BY DEF CopyMark, Writing
  <1>2. MutatorTypes' /\ MutatorSteady'
    BY <1>1, MutatorProceeds, MutatorRests
  <1>3. EntryTypes' /\ SidecarTypes'
    <2>1. CASE UNCHANGED <<bits, hashes, writes, sidecar>>
      BY <2>1, <1>1 DEF TypeInv, TypeOK, EntryTypes, SidecarTypes
    <2>2. CASE ~(Purged \/ AlreadyApplied)
      <3>1. /\ writes' = writes + 1
            /\ bits' = IF wr.copied THEN bits \cup InField(Full) ELSE bits \ Touched
            /\ hashes' = [i \in Pieces |-> IF wr.copied /\ i \in Full THEN FullPiece(wr.val)
                                           ELSE IF i \in Touched THEN NoHash ELSE hashes[i]]
            /\ SaveBits(size, nbits, bits', id)
        BY <2>2 DEF CopyMark
      <3>2. Full \subseteq Pieces
        BY <1>1, WrFields, FullCoverExact DEF Full
      <3>3. bits' \in SUBSET Pieces
        BY <3>1, <3>2 DEF InField, TypeInv, TypeOK, EntryTypes
      <3>4. FullPiece(wr.val) \in Seq(Val)
        BY WrFields, FilledType, Sizes DEF FullPiece
      <3>5. hashes' \in [Pieces -> Seq(Val)]
        BY <3>1, <3>4, Constants DEF TypeInv, TypeOK, EntryTypes
      <3>6. EntryTypes'
        BY <3>1, <3>3, <3>5, <1>1 DEF TypeInv, TypeOK, EntryTypes
      <3>7. SidecarTypes'
        BY <3>1, <3>3, SavedType DEF TypeInv, TypeOK, EntryTypes
      <3> QED  BY <3>6, <3>7
    <2> QED  BY <2>1, <2>2 DEF CopyMark
  <1>4. DataTypes'
    BY <1>1 DEF TypeInv, TypeOK, DataTypes
  <1> QED  BY <1>1, <1>2, <1>3, <1>4, TypeMutatorMove

LEMMA TypeWriteNote ==
    ASSUME TypeInv, WriteNote
    PROVE  TypeInv'
PROOF
  <1>1. /\ UNCHANGED <<originVars, data, dlen, size, nbits, bits, filling, writes, hashes, dead,
                        xfer, cmu, rd, op, cull, ul, ghostVars>>
        /\ wr' = IdleMutator
    BY DEF WriteNote
  <1>2. SaveBits(size, nbits, bits, wr.obs) \/ UNCHANGED sidecar
    BY DEF WriteNote
  <1>3. SidecarTypes'
    BY <1>2, WrFields, SavedType DEF TypeInv, TypeOK, EntryTypes, SidecarTypes
  <1>4. EntryTypes'
    <2>1. id' \in Nat
      BY WrFields DEF WriteNote, TypeInv, TypeOK, EntryTypes
    <2> QED  BY <2>1, <1>1 DEF TypeInv, TypeOK, EntryTypes
  <1> QED  BY <1>1, <1>3, <1>4, MutatorRests, TypeMutatorMove DEF TypeInv, TypeOK, DataTypes, LockTypes

LEMMA TypeDistrust ==
    ASSUME TypeInv, Distrust
    PROVE  TypeInv'
PROOF
  <1>1. /\ UNCHANGED <<originVars, data, dlen, size, nbits, filling, id, dead, xfer, cmu, rd, op, cull, ul, ghostVars>>
        /\ sidecar' = NoSidecar
        /\ wr' = [wr EXCEPT !.pc = "warm"] \/ wr' = IdleMutator
    BY DEF Distrust
  <1>2. EntryTypes'
    BY <1>1, Constants DEF Distrust, ClearHashes, TypeInv, TypeOK, EntryTypes
  <1>3. SidecarTypes'
    BY <1>1, Sizes DEF NoSidecar, Unknown, SidecarTypes
  <1>4. MutatorTypes' /\ MutatorSteady'
    BY <1>1, MutatorProceeds, MutatorRests
  <1> QED  BY <1>1, <1>2, <1>3, <1>4, TypeMutatorMove DEF TypeInv, TypeOK, DataTypes, LockTypes

LEMMA TypeTruncateEntry ==
    ASSUME TypeInv, TruncateEntry
    PROVE  TypeInv'
PROOF
  <1>1. UNCHANGED <<originVars, filling, id, dead, xfer, cmu, rd, op, cull, ul, ghostVars>>
    BY DEF TruncateEntry
  <1>2. wr.sz \in 0 .. MaxSize
    BY WrFields
  <1>3. CASE dead
    <2>1. wr' = [wr EXCEPT !.pc = "distrust"] /\ UNCHANGED <<size, bits, nbits, writes, hashes, data, dlen, sidecar>>
      BY <1>3 DEF TruncateEntry
    <2>2. MutatorTypes' /\ MutatorSteady'
      BY <2>1, MutatorProceeds
    <2> QED  BY <1>1, <2>1, <2>2, TypeMutatorMove
                DEF TypeInv, TypeOK, EntryTypes, SidecarTypes, DataTypes, LockTypes
  <1>4. CASE ~dead
    <2>1. wr' = IdleMutator /\ TruncateCacheFd(wr.sz)
      BY <1>4 DEF TruncateEntry
    <2>2. DataTypes'
      BY <2>1, <1>2, TruncateType DEF TypeInv, TypeOK
    <2>3. CASE UNCHANGED <<size, bits, nbits, writes, hashes, sidecar>>
      BY <2>1, <2>2, <2>3, <1>1, MutatorRests, TypeMutatorMove
         DEF TypeInv, TypeOK, EntryTypes, SidecarTypes, LockTypes
    <2>4. CASE /\ size' = wr.sz /\ bits' = {} /\ nbits' = PCount(wr.sz) /\ writes' = writes + 1
               /\ ClearHashes /\ SaveBits(wr.sz, nbits', {}, id)
      <3>1. nbits' \in Nat /\ id \in Nat
        BY <2>4, <1>2, Constants DEF TypeInv, TypeOK, EntryTypes
      <3>2. SidecarTypes'
        BY <2>4, <3>1, <1>2, SavedType DEF TypeInv, TypeOK
      <3>3. EntryTypes'
        BY <2>4, <3>1, <1>1, <1>2, Constants DEF TypeInv, TypeOK, EntryTypes, ClearHashes
      <3> QED  BY <2>1, <2>2, <3>2, <3>3, <1>1, MutatorRests, TypeMutatorMove
                  DEF TypeInv, TypeOK, LockTypes
    <2> QED  BY <1>4, <2>3, <2>4 DEF TruncateEntry
  <1> QED  BY <1>3, <1>4

LEMMA TypeCreateWarm ==
    ASSUME TypeInv, CreateWarm
    PROVE  TypeInv'
PROOF
  <1>1. /\ UNCHANGED <<originVars, filling, dead, xfer, cmu, rd, op, cull, ul, ghostVars>>
        /\ wr' = IdleMutator
    BY DEF CreateWarm
  <1>2. DataTypes' /\ SidecarTypes' /\ EntryTypes'
    <2>1. CASE Reconcile(0, Unknown)
      BY <2>1, <1>1, ReconcileTypes, Sizes DEF TypeInv, TypeOK, Unknown
    <2>2. CASE UNCHANGED <<size, nbits, bits, writes, hashes, id, sidecar, data, dlen>>
      BY <2>2, <1>1 DEF TypeInv, TypeOK, EntryTypes, SidecarTypes, DataTypes
    <2> QED  BY <2>1, <2>2 DEF CreateWarm
  <1> QED  BY <1>1, <1>2, MutatorRests, TypeMutatorMove DEF TypeInv, TypeOK, LockTypes

LEMMA TypeEntryGone ==
    ASSUME TypeInv, EntryGone
    PROVE  TypeInv'
  BY MutatorRests, TypeMutatorMove, CacheTypesKept, EntryTypesKept
     DEF EntryGone, TypeInv, TypeOK, LockTypes

LEMMA TypeMutator ==
    ASSUME TypeInv, MutatorStep
    PROVE  TypeInv'
  BY TypeWriteStat, TypeEntryGone, TypeWriteFill, TypeWriteIdent, TypeWriteGrow, TypeCopyPwrite,
     TypeCopyMark, TypeWriteNote, TypeDistrust, TypeTruncateEntry, TypeCreateWarm
     DEF MutatorStep

\* What a call that begins does to the origin and to the reads in progress.
LEMMA ObservedType ==
    ASSUME TypeInv, OriginTypes', Observe
    PROVE  /\ seen' \in [Readers -> [Units -> SUBSET Val]]
           /\ floor' \in [Readers -> 0 .. MaxSize]
PROOF
  <1>1. ASSUME NEW r \in Readers, NEW u \in Units
        PROVE  (IF Reading(r) /\ u < osize' THEN seen[r][u] \cup {odata'[u]} ELSE seen[r][u]) \in SUBSET Val
    BY <1>1 DEF TypeInv, TypeOK, HistoryTypes, OriginTypes
  <1>2. seen' \in [Readers -> [Units -> SUBSET Val]]
    BY <1>1 DEF Observe
  <1>3. floor' \in [Readers -> 0 .. MaxSize]
    BY DEF Observe, MinOf, TypeInv, TypeOK, HistoryTypes, OriginTypes
  <1> QED  BY <1>2, <1>3

LEMMA OriginPwriteType ==
    ASSUME OriginTypes, NEW off \in Nat, NEW k \in Nat, NEW v \in Val, off + k <= MaxSize,
           OriginPwrite(off, k, v)
    PROVE  OriginTypes'
PROOF
  <1>1. odata' \in [Units -> Val]
    BY FilledType, OverlayType DEF OriginPwrite, OriginTypes
  <1>2. osize' \in 0 .. MaxSize
    BY Sizes DEF OriginPwrite, OriginTypes, Extend
  <1>3. oid' \in Nat \ {0}
    BY DEF OriginPwrite, OriginTypes
  <1> QED  BY <1>1, <1>2, <1>3 DEF OriginTypes

LEMMA TypeBegin ==
    ASSUME TypeInv, NEW kind, Mutation(kind), Observe, OriginTypes', MutatorTypes', MutatorSteady'
    PROVE  TypeInv'
PROOF
  <1> USE DEF TypeInv, TypeOK
  <1>1. UNCHANGED <<cacheVars, entryVars, xfer, cmu, rd, op, cull, ul, foreign>>
        /\ load.maxMuts > 0 /\ load' = [load EXCEPT !.maxMuts = @ - 1]
    BY DEF Mutation
  <1>2. HistoryTypes'
    BY <1>1, WorkloadSpent, ObservedType DEF HistoryTypes
  <1> QED  BY <1>1, <1>2, CacheTypesKept, EntryTypesKept, LockTypesKept, ReadersKept, OtherTypesKept

LEMMA TypeBegun ==
    ASSUME TypeInv, NEW pc \in {"stat", "trunc", "distrust"}, NEW kind \in {"none", "write", "truncate", "create"}
    PROVE  /\ Begun(pc, kind) \in Wr /\ Begun(pc, kind).pc = pc /\ Begun(pc, kind).kind = kind
           /\ Begun(pc, kind).sz = 0
PROOF
  <1>1. [u \in Units |-> Held(u)] \in [Units -> SUBSET Val]
    BY HeldType DEF TypeInv, TypeOK
  <1> DEFINE b == [u \in Units |-> Held(u)]
  <1> HIDE DEF b
  <1>2. Begun(pc, kind) = [IdleMutator EXCEPT !.pc = pc, !.kind = kind, !.before = b]
    BY DEF Begun, b
  <1>3. IdleMutator \in Wr /\ b \in [Units -> SUBSET Val]
    BY <1>1, IdleMutatorSteady DEF b
  <1> DEFINE B == [Units -> SUBSET Val]
             P == {"idle", "stat", "fill", "ident", "grow", "copy", "mark", "note", "distrust", "trunc", "warm"}
             K == {"none", "write", "truncate", "create"}
  <1>4. Wr = [pc : P, kind : K, off : Nat, len : Nat, val : Val, sz : Nat, obs : Nat, copied : BOOLEAN,
              note : BOOLEAN, before : B]
    BY DEF Wr
  <1>5. pc \in P /\ kind \in K
    OBVIOUS
  <1> HIDE DEF B, P, K
  <1>6. Begun(pc, kind) \in Wr
    BY <1>2, <1>3, <1>4, <1>5 DEF B
  <1> QED  BY <1>6, <1>2, <1>3, <1>4, IdleMutatorSteady

LEMMA TypeWriteOrigin ==
    ASSUME TypeInv, NEW s \in load.writes, NEW v \in Vals, WriteOrigin(s, v)
    PROVE  TypeInv'
PROOF
  <1>1. s \in Spans
    BY DEF TypeInv, TypeOK, HistoryTypes, Workload
  <1>2. s[1] \in Nat /\ s[2] \in Nat /\ s[2] > 0 /\ s[1] + s[2] <= MaxSize /\ v \in Val
    BY <1>1, Sizes DEF Spans, Val
  <1>3. Mutation("write") /\ Observe
    BY DEF WriteOrigin
  <1>4. PICK k \in 0 .. s[2], pc \in {"stat", "distrust"} :
            /\ OriginPwrite(s[1], k, v)
            /\ \/ wr' = [Begun(pc, "write") EXCEPT !.off = s[1], !.len = s[2], !.val = v]
               \/ wr' = [Begun(pc, "write") EXCEPT !.off = s[1], !.len = s[2], !.val = v,
                                                  !.sz = osize, !.obs = oid]
    <2>1. s[2] \in 0 .. s[2]
      BY <1>2
    <2> QED  BY <2>1 DEF WriteOrigin
  <1>5. OriginTypes'
    <2>1. k \in Nat /\ s[1] + k <= MaxSize /\ s[1] \in Nat /\ v \in Val
      BY <1>2, Sizes
    <2>2. OriginTypes
      BY DEF TypeInv, TypeOK
    <2> QED  BY <2>1, <2>2, <1>4, OriginPwriteType
  <1>6. MutatorTypes' /\ MutatorSteady'
    <2> DEFINE b == Begun(pc, "write")
               x == [b EXCEPT !.off = s[1], !.len = s[2], !.val = v]
               y == [b EXCEPT !.off = s[1], !.len = s[2], !.val = v, !.sz = osize, !.obs = oid]
    <2>1. b \in Wr /\ b.pc = pc /\ b.kind = "write" /\ b.sz = 0
      BY TypeBegun
    <2>2. osize \in Nat /\ osize <= MaxSize /\ oid \in Nat
      BY Sizes DEF TypeInv, TypeOK, OriginTypes
    <2> HIDE DEF b
    <2>3. x \in Wr /\ x.pc = pc /\ x.kind = "write" /\ x.sz = 0 /\ x.off = s[1] /\ x.len = s[2]
      BY <2>1, <1>2 DEF Wr
    <2>4. y \in Wr /\ y.pc = pc /\ y.kind = "write" /\ y.sz = osize /\ y.off = s[1] /\ y.len = s[2]
      BY <2>1, <2>2, <1>2 DEF Wr
    <2>5. wr' = x \/ wr' = y
      BY <1>4 DEF b
    <2> HIDE DEF x, y
    <2> QED  BY <2>2, <2>3, <2>4, <2>5, <1>2, Sizes DEF MutatorTypes, MutatorSteady, Writing
  <1> QED  BY <1>3, <1>5, <1>6, TypeBegin

LEMMA TypeTruncateOrigin ==
    ASSUME TypeInv, NEW n \in load.sizes, TruncateOrigin(n)
    PROVE  TypeInv'
PROOF
  <1>1. n \in 0 .. MaxSize
    BY DEF TypeInv, TypeOK, HistoryTypes, Workload
  <1>2. OriginTypes'
    BY <1>1, CutType DEF TruncateOrigin, TypeInv, TypeOK, OriginTypes
  <1>3. MutatorTypes' /\ MutatorSteady'
    <2> DEFINE b == Begun("trunc", "truncate")
               x == [b EXCEPT !.sz = n]
    <2>1. b \in Wr /\ b.pc = "trunc" /\ b.kind = "truncate"
      BY TypeBegun
    <2> HIDE DEF b
    <2>2. x \in Wr /\ x.pc = "trunc" /\ x.kind = "truncate" /\ x.sz = n
      BY <2>1, <1>1 DEF Wr
    <2>3. wr' = x
      BY DEF b, TruncateOrigin
    <2> HIDE DEF x
    <2> QED  BY <2>2, <2>3, <1>1 DEF MutatorTypes, MutatorSteady, Writing
  <1> QED  BY <1>2, <1>3, TypeBegin DEF TruncateOrigin

LEMMA TypeCreateOrigin ==
    ASSUME TypeInv, CreateOrigin
    PROVE  TypeInv'
PROOF
  <1>1. OriginTypes'
    BY CutType, Sizes DEF CreateOrigin, TypeInv, TypeOK, OriginTypes
  <1>2. MutatorTypes' /\ MutatorSteady'
    <2>1. wr' = Begun("distrust", "create")
      BY DEF CreateOrigin
    <2> QED  BY <2>1, TypeBegun, Sizes DEF MutatorTypes, MutatorSteady, Writing
  <1> QED  BY <1>1, <1>2, TypeBegin DEF CreateOrigin

\* The culler takes the last mark.
LEMMA LastMark ==
    ASSUME NEW S, S \subseteq Pieces, S # {}
    PROVE  \E i \in S : \A j \in S : j <= i
PROOF
  <1> DEFINE N == PCount(MaxSize)
             T == {k \in Nat : N - k \in S}
  <1>1. N \in Nat /\ Pieces = 0 .. N - 1
    BY Constants
  <1> HIDE DEF N
  <1>2. T \subseteq Nat /\ T # {}
    <2>1. PICK i \in S : TRUE
      OBVIOUS
    <2>2. i \in Nat /\ N - i \in Nat /\ N - (N - i) = i
      BY <1>1
    <2> QED  BY <2>1, <2>2
  <1>3. PICK k \in T : \A j \in T : ~(<<j, k>> \in OpToRel(<, Nat))
    <2> HIDE DEF T
    <2> QED  BY <1>2, NatLessThanWellFounded, WFMin, Zenon
  <1>4. \A j \in T : k <= j
    <2>1. ASSUME NEW j \in T, j < k PROVE FALSE
      BY <2>1, <1>3 DEF OpToRel
    <2> QED  BY <2>1
  <1>5. ASSUME NEW j \in S PROVE j <= N - k
    <2>1. j \in Nat /\ N - j \in Nat /\ N - (N - j) = j
      BY <1>1
    <2>2. k <= N - j
      BY <2>1, <1>4
    <2> QED  BY <2>1, <2>2, <1>1
  <1> QED  BY <1>5

LEMMA TypeUnlink ==
    ASSUME TypeInv, UnlinkForget \/ UnlinkOrigin \/ UnlinkPurge
    PROVE  TypeInv'
PROOF
  <1> USE DEF TypeInv, TypeOK
  <1>1. NoSidecar \in [size : 0 .. MaxSize, nbits : Nat, bits : SUBSET Pieces, id : Nat]
    BY Sizes DEF NoSidecar, Unknown
  <1>2. CASE UnlinkForget
    <2>1. SidecarTypes' /\ EntryTypes' /\ DataTypes' /\ ClaimTypes'
      BY <1>1, <1>2 DEF UnlinkForget, SidecarTypes, EntryTypes, DataTypes, ClaimTypes
    <2>2. UNCHANGED <<originVars, xfer, cmu, rd, wr, op, cull, ghostVars>> /\ ul' = "forgotten"
      BY <1>2 DEF UnlinkForget
    <2> QED  BY <2>1, <2>2, OriginTypesKept, LockTypesKept, ReadersKept, MutatorKept, HistoryTypesKept
             DEF OtherTypes, CullerSteady
  <1>3. CASE UnlinkOrigin
    <2>1. OriginTypes'
      BY <1>3, CutType, Sizes DEF UnlinkOrigin, OriginTypes
    <2>2. UNCHANGED <<cacheVars, entryVars, xfer, cmu, rd, wr, op, cull, foreign, load>> /\ ul' = "unlinked"
          /\ Observe
      BY <1>3 DEF UnlinkOrigin
    <2>3. HistoryTypes'
      BY <2>1, <2>2, ObservedType DEF HistoryTypes
    <2> QED  BY <2>1, <2>2, <2>3, CacheTypesKept, EntryTypesKept, LockTypesKept, ReadersKept, MutatorKept
             DEF OtherTypes, CullerSteady
  <1>4. CASE UnlinkPurge
    <2>1. SidecarTypes' /\ DataTypes'
      BY <1>1, <1>4 DEF UnlinkPurge, SidecarTypes, DataTypes
    <2>2. UNCHANGED <<originVars, entryVars, xfer, cmu, rd, wr, op, cull, ghostVars>> /\ ul' = "purged"
      BY <1>4 DEF UnlinkPurge
    <2> QED  BY <2>1, <2>2, OriginTypesKept, EntryTypesKept, LockTypesKept, ReadersKept, MutatorKept,
                HistoryTypesKept
             DEF OtherTypes, CullerSteady
  <1> QED  BY <1>2, <1>3, <1>4

LEMMA TypeOpen ==
    ASSUME TypeInv, NEW o \in Openers, OpenStat(o) \/ OpenReconcile(o)
    PROVE  TypeInv'
PROOF
  <1> USE DEF TypeInv, TypeOK
  <1>1. CASE OpenStat(o)
    <2>1. UNCHANGED <<originVars, cacheVars, entryVars, xfer, cmu, rd, wr, cull, ul, seen, floor, foreign>>
      BY <1>1 DEF OpenStat
    <2>2. HistoryTypes'
      BY <1>1, WorkloadSpent DEF OpenStat, HistoryTypes
    <2>3. OtherTypes' /\ CullerSteady'
      BY <1>1 DEF OpenStat, OtherTypes, CullerSteady, OriginTypes
    <2> QED  BY <2>1, <2>2, <2>3, OriginTypesKept, CacheTypesKept, EntryTypesKept, LockTypesKept,
                ReadersKept, MutatorKept
  <1>2. CASE OpenReconcile(o)
    <2>1. UNCHANGED <<originVars, filling, dead, xfer, cmu, rd, wr, cull, ul, ghostVars>>
          /\ op' = [op EXCEPT ![o] = IdleOpener]
      BY <1>2 DEF OpenReconcile
    <2>2. op[o].sz \in 0 .. MaxSize /\ op[o].obs \in Nat
      BY DEF OtherTypes
    <2>3. DataTypes' /\ SidecarTypes' /\ EntryTypes'
      <3>1. CASE Reconcile(op[o].sz, op[o].obs)
        BY <3>1, <2>1, <2>2, ReconcileTypes
      <3>2. CASE UNCHANGED <<size, nbits, bits, writes, hashes, id, sidecar, data, dlen>>
        BY <3>2, <2>1 DEF DataTypes, SidecarTypes, EntryTypes
      <3> QED  BY <1>2, <3>1, <3>2 DEF OpenReconcile
    <2>4. OtherTypes' /\ CullerSteady' /\ ClaimTypes'
      BY <2>1, Sizes DEF OtherTypes, CullerSteady, IdleOpener, Unknown, ClaimTypes
    <2> QED  BY <2>1, <2>3, <2>4, OriginTypesKept, LockTypesKept, ReadersKept, MutatorKept, HistoryTypesKept
  <1> QED  BY <1>1, <1>2

LEMMA TypeCull ==
    ASSUME TypeInv, PunchClear \/ PunchSaveFails \/ PunchCut
    PROVE  TypeInv'
PROOF
  <1> USE DEF TypeInv, TypeOK
  <1>1. bits # {} => LastSet \in bits
    BY LastMark DEF LastSet, EntryTypes
  <1>2. CASE PunchClear
    <2>1. UNCHANGED <<originVars, data, dlen, size, nbits, filling, writes, hashes, id, dead,
                       xfer, rd, wr, op, ul, ghostVars>>
          /\ bits' = bits \ {LastSet} /\ sidecar' = Image(size, nbits, bits \ {LastSet}, id)
          /\ cmu' = Culler /\ cull' = [pc |-> "cut", i |-> LastSet] /\ LastSet \in Pieces
      BY <1>1, <1>2 DEF PunchClear, PunchImage, EntryTypes
    <2>2. SidecarTypes' /\ EntryTypes' /\ DataTypes' /\ ClaimTypes'
      BY <2>1 DEF SidecarTypes, EntryTypes, DataTypes, ClaimTypes, Image
    <2>3. OtherTypes' /\ CullerSteady' /\ LockTypes'
      BY <2>1, Constants DEF OtherTypes, CullerSteady, LockTypes
    <2> QED  BY <2>1, <2>2, <2>3, OriginTypesKept, ReadersKept, MutatorKept, HistoryTypesKept
  <1>3. CASE PunchSaveFails
    <2>1. UNCHANGED <<originVars, data, dlen, entryVars, xfer, cmu, threadVars, ghostVars>>
          /\ sidecar' \in {sidecar, NoSidecar, PunchImage, Image(size, nbits, bits, id)}
      BY <1>3 DEF PunchSaveFails
    <2>2. SidecarTypes' /\ DataTypes'
      BY <2>1, Sizes DEF SidecarTypes, EntryTypes, DataTypes, Image, PunchImage, NoSidecar, Unknown
    <2> QED  BY <2>1, <2>2, OriginTypesKept, EntryTypesKept, LockTypesKept, ReadersKept, MutatorKept,
                OtherTypesKept, HistoryTypesKept
  <1>4. CASE PunchCut
    <2>1. UNCHANGED <<originVars, dlen, size, nbits, filling, writes, hashes, id, dead,
                       xfer, rd, wr, op, ul, ghostVars>>
          /\ cmu' = Free /\ cull' = [pc |-> "idle", i |-> 0] /\ cull.i \in Pieces
      BY <1>4 DEF PunchCut, CullerSteady
    <2>2. bits' \in SUBSET Pieces
      BY <1>4, <2>1 DEF PunchCut, InField, EntryTypes
    <2>3. UNCHANGED sidecar \/ SaveBits(size, nbits, bits', id)
      BY <1>4 DEF PunchCut
    <2>4. SidecarTypes'
      BY <2>2, <2>3, SavedType DEF EntryTypes, SidecarTypes
    <2>5. data' \in [Units -> Val]
      BY <1>4, Constants DEF PunchCut, DataTypes
    <2>6. EntryTypes' /\ DataTypes' /\ ClaimTypes'
      BY <2>1, <2>2, <2>5 DEF EntryTypes, DataTypes, ClaimTypes
    <2>7. OtherTypes' /\ CullerSteady' /\ LockTypes'
      BY <2>1 DEF OtherTypes, CullerSteady, LockTypes
    <2> QED  BY <2>1, <2>4, <2>6, <2>7, OriginTypesKept, ReadersKept, MutatorKept, HistoryTypesKept
  <1> QED  BY <1>2, <1>3, <1>4

LEMMA TypeForeign ==
    ASSUME TypeInv, NEW v \in Vals, ForeignRewrite(v)
    PROVE  TypeInv'
PROOF
  <1> USE DEF TypeInv, TypeOK
  <1>1. UNCHANGED <<cacheVars, entryVars, xfer, cmu, threadVars>> /\ Observe
    BY DEF ForeignRewrite
  <1>2. OriginTypes'
    BY Constants DEF ForeignRewrite, OriginTypes, Val
  <1>3. HistoryTypes'
    BY <1>1, <1>2, ObservedType, WorkloadSpent DEF ForeignRewrite, HistoryTypes
  <1> QED  BY <1>1, <1>2, <1>3, CacheTypesKept, EntryTypesKept, LockTypesKept, ReadersKept, MutatorKept,
              OtherTypesKept

\* What a restart and a first open start with.
LEMMA FreshThreads ==
    ASSUME rd' = [r \in Readers |-> IdleReader], wr' = IdleMutator,
           op' = [o \in Openers |-> IdleOpener], cull' = [pc |-> "idle", i |-> 0], ul' = "live",
           xfer' = {}, cmu' = Free, filling' = [i \in Pieces |-> NoClaim]
    PROVE  /\ ReaderTypes' /\ ReadersSteady' /\ MutatorTypes' /\ MutatorSteady' /\ OtherTypes'
           /\ CullerSteady' /\ LockTypes' /\ ClaimTypes'
PROOF
  <1>1. ReaderTypes' /\ ReadersSteady'
    BY IdleReaderSteady DEF ReaderTypes, ReadersSteady
  <1>2. MutatorTypes' /\ MutatorSteady'
    BY MutatorRests
  <1>3. OtherTypes' /\ CullerSteady' /\ LockTypes' /\ ClaimTypes'
    BY Sizes DEF OtherTypes, CullerSteady, IdleOpener, Unknown, LockTypes, ClaimTypes
  <1> QED  BY <1>1, <1>2, <1>3

LEMMA TypeRestart ==
    ASSUME TypeInv, Restart
    PROVE  TypeInv'
PROOF
  <1> USE DEF TypeInv, TypeOK
  <1>1. UNCHANGED <<originVars, foreign>>
        /\ size' = osize /\ nbits' = PCount(osize) /\ hashes' = NoHashes /\ dead' = FALSE /\ dlen' = osize
    BY DEF Restart
  <1>2. osize \in 0 .. MaxSize /\ oid \in Nat /\ BlobId \in Nat
    BY DEF OriginTypes, BlobId, SidecarTypes, Unknown
  <1>3. bits' \in SUBSET Pieces
    <2>1. CASE SidecarUsable(osize, oid)
      <3>1. 0 .. PCount(sidecar.size) - 1 \subseteq Pieces
        BY Constants DEF SidecarTypes
      <3> QED  BY <2>1, <3>1 DEF Restart, SidecarMarks
    <2>2. CASE ~SidecarUsable(osize, oid)
      BY <2>2 DEF Restart
    <2> QED  BY <2>1, <2>2
  <1>4. writes' \in Nat /\ id' \in Nat
    BY <1>2 DEF Restart
  <1>5. EntryTypes'
    BY <1>1, <1>2, <1>3, <1>4, Constants DEF EntryTypes
  <1>6. \/ UNCHANGED sidecar
        \/ \E bs \in SUBSET Pieces : SaveBits(osize, nbits', bs, oid)
    BY <1>3 DEF Restart
  <1>7. SidecarTypes'
    BY <1>1, <1>2, <1>6, SavedType, Constants DEF SidecarTypes
  <1>8. DataTypes'
    BY <1>1, <1>2, CutType DEF Restart, DataTypes
  <1>9. HistoryTypes'
    BY WorkloadSpent, Sizes DEF Restart, HistoryTypes
  <1> QED  BY <1>1, <1>5, <1>7, <1>8, <1>9, FreshThreads, OriginTypesKept DEF Restart

LEMMA InitTypes == Init => TypeInv
PROOF
  <1> SUFFICES ASSUME Init PROVE TypeInv
    OBVIOUS
  <1>1. load \in Workload
    BY WorkloadAssumption DEF Init
  <1>2. osize \in 0 .. MaxSize /\ load.sizes \subseteq 0 .. MaxSize
    BY <1>1 DEF Workload, Init
  <1>3. OriginTypes
    BY <1>2, Constants DEF OriginTypes, Val, Init
  <1> USE DEF Init
  <1>4. DataTypes /\ SidecarTypes /\ EntryTypes
    <2>1. DataTypes
      BY <1>2, Constants DEF DataTypes
    <2>2. SidecarTypes
      BY Sizes DEF SidecarTypes, NoSidecar, Unknown
    <2>3. EntryTypes
      <3>1. size = osize /\ nbits = PCount(osize) /\ bits = {} /\ writes = 0 /\ dead = FALSE
        OBVIOUS
      <3>2. nbits \in Nat /\ size \in 0 .. MaxSize
        BY <1>2, <3>1, Constants
      <3>3. hashes = NoHashes /\ id \in Nat
        BY DEF Unknown
      <3>4. hashes \in [Pieces -> Seq(Val)]
        BY <3>3 DEF NoHashes, NoHash
      <3> HIDE DEF Init
      <3> QED  BY <3>1, <3>2, <3>3, <3>4 DEF EntryTypes
    <2> QED  BY <2>1, <2>2, <2>3
  <1>5. ReaderTypes /\ ReadersSteady
    BY IdleReaderSteady DEF ReaderTypes, ReadersSteady
  <1>6. MutatorTypes /\ MutatorSteady
    BY IdleMutatorSteady, Sizes DEF MutatorTypes, MutatorSteady, Writing
  <1>7. OtherTypes /\ CullerSteady /\ LockTypes /\ ClaimTypes
    BY Sizes DEF OtherTypes, CullerSteady, IdleOpener, Unknown, LockTypes, ClaimTypes
  <1>8. HistoryTypes
    <2>1. [u \in Units |-> {}] \in [Units -> SUBSET Val]
      OBVIOUS
    <2>2. seen \in [Readers -> [Units -> SUBSET Val]] /\ floor \in [Readers -> 0 .. MaxSize]
      BY <2>1, Sizes
    <2> QED  BY <1>1, <2>2 DEF HistoryTypes
  <1> QED  BY <1>3, <1>4, <1>5, <1>6, <1>7, <1>8 DEF TypeInv, TypeOK

LEMMA StepTypes == TypeInv /\ [Next]_vars => TypeInv'
PROOF
  <1> SUFFICES ASSUME TypeInv, [Next]_vars PROVE TypeInv'
    OBVIOUS
  <1>1. CASE UNCHANGED vars
    BY <1>1, OriginTypesKept, CacheTypesKept, EntryTypesKept, LockTypesKept, ReadersKept, MutatorKept,
       OtherTypesKept, HistoryTypesKept
       DEF vars, TypeInv, TypeOK
  <1>2. CASE Next
    BY <1>2, TypeReader, TypeReadBegin, TypeMutator, TypeWriteOrigin, TypeTruncateOrigin,
       TypeCreateOrigin, TypeUnlink, TypeOpen, TypeCull, TypeForeign, TypeRestart
       DEF Next
  <1> QED  BY <1>1, <1>2

\* Every variable keeps its type, and no reader, writer or culler ever names a
\* piece or a byte outside the file (hydratePiece, copyIntoCache, punchPiece).
THEOREM TypesKept == Spec => []TypeInv
  BY InitTypes, StepTypes, PTL DEF Spec

-----------------------------------------------------------------------------
(* The bytes a transfer reads (Cached.xfer)                                  *)

\* The steps that write or cut the cache file give way to a transfer, except
\* a fill's own copy.
LEMMA StepsGiveWay ==
    ASSUME TypeInv, Next, xfer # {}, ~Restarting
    PROVE  UNCHANGED data \/ \E r \in Readers : CompleteFill(r)
PROOF
  <1>1. ASSUME NEW r \in Readers, ReadStep(r)
        PROVE  UNCHANGED data \/ CompleteFill(r)
    BY <1>1 DEF ReadStep, ReadSample, Walk, BeginFill, FetchPeer, FetchOrigin, FinishPiece, Probe,
                ReadServed, Reply, cacheVars
  <1>2. ASSUME NEW sz, NEW observed, Reconcile(sz, observed)
        PROVE  UNCHANGED data
    BY <1>2 DEF Reconcile, TruncateCacheFd, xferBusy
  <1>3. CASE MutatorStep
    <2>1. CASE WriteFill
      BY <2>1 DEF WriteFill, TruncateCacheFd, xferBusy
    <2>2. CASE WriteIdent \/ CreateWarm
      BY <2>2, <1>2 DEF WriteIdent, CreateWarm
    <2>3. CASE CopyPwrite \/ TruncateEntry
      BY <2>3 DEF CopyPwrite, CopyBlocked, TruncateEntry, TruncateCacheFd, xferBusy
    <2>4. CASE WriteStat \/ EntryGone \/ WriteGrow \/ CopyMark \/ WriteNote \/ Distrust
      BY <2>4 DEF WriteStat, EntryGone, WriteGrow, CopyMark, WriteNote, Distrust, cacheVars
    <2> QED  BY <1>3, <2>1, <2>2, <2>3, <2>4 DEF MutatorStep
  <1>4. ASSUME NEW o \in Openers, OpenStat(o) \/ OpenReconcile(o)
        PROVE  UNCHANGED data
    BY <1>4, <1>2 DEF OpenStat, OpenReconcile, cacheVars
  <1>5. CASE PunchClear \/ PunchSaveFails \/ PunchCut
    BY <1>5 DEF PunchClear, PunchSaveFails, PunchCut, xferBusy
  <1>6. ~Restart
    BY DEF Restart, Restarting, TypeInv, TypeOK, HistoryTypes, Workload
  <1>7. ASSUME \/ \E r \in Readers : \E s \in load.reads : ReadBegin(r, s)
               \/ \E s \in load.writes, v \in Vals : WriteOrigin(s, v)
               \/ \E n \in load.sizes : TruncateOrigin(n)
               \/ CreateOrigin \/ UnlinkForget \/ UnlinkOrigin \/ UnlinkPurge
               \/ \E v \in Vals : ForeignRewrite(v)
        PROVE  UNCHANGED data
    BY <1>7 DEF ReadBegin, WriteOrigin, TruncateOrigin, CreateOrigin, Mutation, UnlinkForget,
                UnlinkOrigin, UnlinkPurge, ForeignRewrite, cacheVars
  <1> QED  BY <1>1, <1>3, <1>4, <1>5, <1>6, <1>7 DEF Next

\* A fill that lands writes its own piece only, and that one has no mark.
LEMMA FillLandsApart ==
    ASSUME TypeInv, NEW r \in Readers, CompleteFill(r), NEW u \in Units, data'[u] # data[u]
    PROVE  /\ rd[r].i \notin bits /\ u \div PS = rd[r].i /\ ClaimStands(r)
           /\ rd'[r].pc = "mark"
PROOF
  <1> DEFINE i == rd[r].i
             off == Offset(i, PS)
  <1>1. ~FillOutrun(r)
    BY DEF CompleteFill
  <1>2. i \notin bits /\ ClaimStands(r)
    BY <1>1 DEF FillOutrun
  <1>3. /\ i \in Nat /\ off = i * PS /\ off \in Nat /\ rd[r].buf \in Seq(Val) /\ rd[r] \in Rd
        /\ size \in 0 .. MaxSize /\ u \in Nat
    <2>1. i \in Nat /\ rd[r].buf \in Seq(Val) /\ rd[r] \in Rd /\ size \in 0 .. MaxSize
      BY DEF Rd, TypeInv, TypeOK, EntryTypes, ReaderTypes
    <2>2. u \in Nat
      BY PiecesType
    <2>3. off = i * PS /\ off \in Nat
      BY <2>1, Sizes DEF Offset
    <2> QED  BY <2>1, <2>2, <2>3
  <1>4. PICK k \in {Len(rd[r].buf)} \cup (IF Fault("cache") THEN 0 .. Len(rd[r].buf) - 1 ELSE {}) :
          /\ data' = Overlay(data, off, SubSeq(rd[r].buf, 1, k))
          /\ rd' = [rd EXCEPT ![r].pc = "mark", ![r].ok = FillLanded(r, k)]
    BY <1>1 DEF CompleteFill
  <1>5. k \in 0 .. Len(rd[r].buf)
    BY <1>4, <1>3
  <1>6. Len(SubSeq(rd[r].buf, 1, k)) = k
    BY <1>3, <1>5, PrefixType
  <1>7. u \in off .. off + k - 1
    BY <1>4, <1>6 DEF Overlay
  <1>8. Len(rd[r].buf) \in 0 .. PS
    <2>1. PLen(size, i) = Len(rd[r].buf)
      BY <1>2 DEF ClaimStands
    <2>2. PLen(size, i) \in 0 .. PS
      BY <1>3, PieceLength
    <2> QED  BY <2>1, <2>2
  <1>9. i * PS <= u /\ u < i * PS + PS
    BY <1>7, <1>8, <1>5, <1>3, Sizes
  <1>10. u \div PS = i
    BY <1>9, <1>3, InPiece
  <1>11. rd'[r].pc = "mark"
    BY <1>4 DEF TypeInv, TypeOK, ReaderTypes, Rd
  <1> QED  BY <1>2, <1>10, <1>11

LEMMA StepStable ==
    TypeInv /\ [Next]_vars =>
        (xfer # {} /\ ~Restarting => \A u \in Units : u \div PS \in bits => data'[u] = data[u])
PROOF
  <1>1. CASE UNCHANGED vars
    BY <1>1 DEF vars, cacheVars
  <1>2. CASE Next
    BY <1>2, StepsGiveWay, FillLandsApart
  <1> QED  BY <1>1, <1>2

\* A transfer that has begun never has the cached bytes changed under it: a
\* write-through, a truncate, a reconcile and a punch all leave the file alone
\* (copyIntoCache, truncateCacheFd, punchPiece under Cached.xfer), and a fill
\* lands only where nothing is marked (completeFill).
THEOREM BytesStayUnderXfer == Spec => StableUnderXfer
PROOF
  <1>1. TypeInv /\ [Next]_vars =>
          [xfer # {} /\ ~Restarting => \A u \in Units : u \div PS \in bits => data'[u] = data[u]]_vars
    BY StepStable
  <1> QED  BY <1>1, TypesKept, PTL DEF Spec, StableUnderXfer

\* No step changes which calls and which faults may happen.
LEMMA OpsStay ==
    ASSUME TypeInv, [Next]_vars
    PROVE  load'.ops = load.ops /\ load'.faults = load.faults
PROOF
  <1>1. CASE UNCHANGED load
    BY <1>1
  <1>2. CASE ~UNCHANGED load
    <2>1. \/ load' = [load EXCEPT !.maxReads = @ - 1]
          \/ load' = [load EXCEPT !.maxMuts = @ - 1]
          \/ load' = [load EXCEPT !.maxOpens = @ - 1]
          \/ load' = [load EXCEPT !.maxForeigns = @ - 1]
          \/ load' = [load EXCEPT !.maxRestarts = @ - 1]
      <3>1. ASSUME NEW r \in Readers, ReadStep(r) PROVE UNCHANGED load
        BY <3>1 DEF ReadStep, ReadSample, Walk, BeginFill, FetchPeer, FetchOrigin, CompleteFill,
                    FinishPiece, Probe, ReadServed, Reply, ghostVars
      <3>2. ASSUME MutatorStep PROVE UNCHANGED load
        BY <3>2 DEF MutatorStep, WriteStat, EntryGone, WriteFill, WriteIdent, WriteGrow, CopyPwrite,
                    CopyMark, WriteNote, Distrust, TruncateEntry, CreateWarm, ghostVars
      <3>3. ASSUME \/ UnlinkForget \/ UnlinkOrigin \/ UnlinkPurge
                   \/ PunchClear \/ PunchSaveFails \/ PunchCut
            PROVE  UNCHANGED load
        BY <3>3 DEF UnlinkForget, UnlinkOrigin, UnlinkPurge, PunchClear, PunchSaveFails, PunchCut, ghostVars
      <3>4. ASSUME NEW o \in Openers, OpenStat(o) \/ OpenReconcile(o)
            PROVE  UNCHANGED load \/ load' = [load EXCEPT !.maxOpens = @ - 1]
        BY <3>4 DEF OpenStat, OpenReconcile, ghostVars
      <3>5. ASSUME \/ \E s \in load.writes, v \in Vals : WriteOrigin(s, v)
                   \/ \E n \in load.sizes : TruncateOrigin(n)
                   \/ CreateOrigin
            PROVE  load' = [load EXCEPT !.maxMuts = @ - 1]
        BY <3>5 DEF WriteOrigin, TruncateOrigin, CreateOrigin, Mutation
      <3>6. ASSUME NEW r \in Readers, NEW s \in load.reads, ReadBegin(r, s)
            PROVE  load' = [load EXCEPT !.maxReads = @ - 1]
        BY <3>6 DEF ReadBegin
      <3>7. CASE (\E v \in Vals : ForeignRewrite(v)) \/ Restart
        BY <3>7 DEF ForeignRewrite, Restart
      <3> QED  BY <1>2, <3>1, <3>2, <3>3, <3>4, <3>5, <3>6, <3>7 DEF Next, vars, ghostVars
    <2>2. load \in Workload
      BY DEF TypeInv, TypeOK, HistoryTypes
    <2> QED  BY <2>1, <2>2 DEF Workload
  <1> QED  BY <1>1, <1>2

\* A call in progress keeps its span and what it replaces, until it returns.
LEMMA MutatorPlaces ==
    ASSUME TypeInv, MutatorStep
    PROVE  \/ wr' = IdleMutator
           \/ /\ wr'.kind = wr.kind /\ wr'.off = wr.off /\ wr'.len = wr.len /\ wr'.val = wr.val
              /\ wr'.before = wr.before
              /\ <<wr.pc, wr'.pc>> \in
                   {<<"stat", "fill">>, <<"stat", "ident">>, <<"stat", "distrust">>, <<"fill", "copy">>,
                    <<"ident", "grow">>, <<"grow", "copy">>, <<"copy", "mark">>, <<"mark", "note">>,
                    <<"distrust", "warm">>, <<"trunc", "distrust">>}
PROOF
  <1>1. wr \in Wr
    BY MutatorTyped DEF MutatorTypes
  <1>2. CASE WriteStat
    <2>1. /\ wr.pc = "stat"
          /\ \/ wr' = [wr EXCEPT !.pc = "distrust"]
             \/ \E sz, obs : \/ wr' = [wr EXCEPT !.sz = sz, !.obs = obs, !.pc = "ident"]
                             \/ \E pc \in {"fill", "ident"} :
                                  wr' = [wr EXCEPT !.sz = sz, !.obs = obs, !.note = TRUE, !.pc = pc]
      BY <1>2 DEF WriteStat
    <2> QED  BY <1>1, <2>1 DEF Wr
  <1>3. CASE EntryGone \/ WriteNote \/ CreateWarm
    BY <1>3 DEF EntryGone, WriteNote, CreateWarm
  <1>4. CASE WriteFill
    BY <1>1, <1>4 DEF WriteFill, Wr
  <1>5. CASE WriteIdent
    BY <1>1, <1>5 DEF WriteIdent, Wr
  <1>6. CASE WriteGrow
    BY <1>1, <1>6 DEF WriteGrow, Wr
  <1>7. CASE CopyPwrite
    BY <1>1, <1>7 DEF CopyPwrite, Wr
  <1>8. CASE CopyMark
    <2>1. wr.pc = "mark" /\ (wr' = [wr EXCEPT !.pc = "note"] \/ wr' = IdleMutator)
      BY <1>8 DEF CopyMark
    <2> QED  BY <1>1, <2>1 DEF Wr
  <1>9. CASE Distrust
    <2>1. wr.pc = "distrust" /\ (wr' = [wr EXCEPT !.pc = "warm"] \/ wr' = IdleMutator)
      BY <1>9 DEF Distrust
    <2> QED  BY <1>1, <2>1 DEF Wr
  <1>10. CASE TruncateEntry
    BY <1>1, <1>10 DEF TruncateEntry, Wr
  <1> QED  BY <1>2, <1>3, <1>4, <1>5, <1>6, <1>7, <1>8, <1>9, <1>10 DEF MutatorStep

\* No claim is of a write generation still to come.
ClaimsOld == \A i \in Pieces : filling[i] <= writes

LEMMA ClaimsAge ==
    ASSUME TypeInv, ClaimsOld, UNCHANGED filling, writes' \in {writes, writes + 1}
    PROVE  ClaimsOld'
PROOF
  <1>1. writes \in Nat /\ filling \in [Pieces -> Nat \cup {NoClaim}]
    BY DEF TypeInv, TypeOK, EntryTypes, ClaimTypes
  <1>2. ASSUME NEW i \in Pieces PROVE filling[i] <= writes'
    BY <1>1 DEF ClaimsOld, NoClaim
  <1> QED  BY <1>2 DEF ClaimsOld

LEMMA ReaderClaimsOld ==
    ASSUME TypeInv, ClaimsOld, NEW r \in Readers, ReadStep(r)
    PROVE  ClaimsOld'
PROOF
  <1>1. writes \in Nat /\ filling \in [Pieces -> Nat \cup {NoClaim}]
    BY DEF TypeInv, TypeOK, EntryTypes, ClaimTypes
  <1>2. UNCHANGED writes
    BY DEF ReadStep, ReadSample, Walk, BeginFill, FetchPeer, FetchOrigin, CompleteFill,
           FinishPiece, Probe, ReadServed, Reply, entryVars
  <1>3. \/ UNCHANGED filling
        \/ filling' = [filling EXCEPT ![rd[r].i] = writes]
        \/ filling' = [filling EXCEPT ![rd[r].i] = NoClaim]
    BY DEF ReadStep, ReadSample, Walk, BeginFill, FetchPeer, FetchOrigin, CompleteFill,
           FinishPiece, Probe, ReadServed, Reply, Unclaim, entryVars
  <1>4. ASSUME NEW i \in Pieces PROVE filling'[i] <= writes
    BY <1>1, <1>3 DEF ClaimsOld, NoClaim
  <1> QED  BY <1>2, <1>4 DEF ClaimsOld

LEMMA MutatorClaimsOld ==
    ASSUME TypeInv, ClaimsOld, MutatorStep
    PROVE  ClaimsOld'
PROOF
  <1>1. UNCHANGED filling
    BY DEF MutatorStep, WriteStat, EntryGone, WriteFill, WriteIdent, WriteGrow, CopyPwrite, CopyMark,
           WriteNote, Distrust, TruncateEntry, CreateWarm, entryVars
  <1>2. writes' \in {writes, writes + 1}
    BY DEF MutatorStep, WriteStat, EntryGone, WriteFill, WriteIdent, WriteGrow, CopyPwrite, CopyMark,
           WriteNote, Distrust, TruncateEntry, CreateWarm, Reconcile, entryVars
  <1> QED  BY <1>1, <1>2, ClaimsAge

LEMMA StepClaimsOld ==
    ASSUME TypeInv, ClaimsOld, [Next]_vars
    PROVE  ClaimsOld'
PROOF
  <1>1. CASE UNCHANGED vars
    BY <1>1 DEF vars, entryVars, ClaimsOld
  <1>2. ASSUME NEW o \in Openers, OpenStat(o) \/ OpenReconcile(o)
        PROVE  ClaimsOld'
    <2>1. UNCHANGED filling /\ writes' \in {writes, writes + 1}
      BY <1>2 DEF OpenStat, OpenReconcile, Reconcile, entryVars
    <2> QED  BY <2>1, ClaimsAge
  <1>3. CASE Restart
    <2>1. filling' = [i \in Pieces |-> NoClaim] /\ writes' \in {0, 1}
      BY <1>3 DEF Restart
    <2> QED  BY <2>1 DEF ClaimsOld, NoClaim
  <1>4. ASSUME \/ \E r \in Readers : \E s \in load.reads : ReadBegin(r, s)
               \/ \E s \in load.writes, v \in Vals : WriteOrigin(s, v)
               \/ \E n \in load.sizes : TruncateOrigin(n)
               \/ CreateOrigin \/ UnlinkForget \/ UnlinkOrigin \/ UnlinkPurge
               \/ PunchClear \/ PunchSaveFails \/ PunchCut
               \/ \E v \in Vals : ForeignRewrite(v)
        PROVE  ClaimsOld'
    <2>1. UNCHANGED <<filling, writes>>
      BY <1>4 DEF ReadBegin, WriteOrigin, TruncateOrigin, CreateOrigin, Mutation, UnlinkForget,
                  UnlinkOrigin, UnlinkPurge, PunchClear, PunchSaveFails, PunchCut, ForeignRewrite, entryVars
    <2> QED  BY <2>1, ClaimsAge
  <1> QED  BY <1>1, <1>2, <1>3, <1>4, ReaderClaimsOld, MutatorClaimsOld DEF Next

\* mf_truncate's is the one step that leaves a field of another length under a
\* transfer.
LEMMA FieldMover ==
    ASSUME TypeInv, [Next]_vars, xfer # {}, ~Restarting
    PROVE  UNCHANGED nbits \/ TruncateEntry
PROOF
  <1>1. CASE UNCHANGED vars
    BY <1>1 DEF vars, entryVars
  <1>2. ASSUME NEW r \in Readers, ReadStep(r) PROVE UNCHANGED nbits
    BY <1>2 DEF ReadStep, ReadSample, Walk, BeginFill, FetchPeer, FetchOrigin, CompleteFill,
                FinishPiece, Probe, ReadServed, Reply, entryVars
  <1>3. ASSUME NEW sz, NEW observed, Reconcile(sz, observed)
        PROVE  UNCHANGED nbits
    BY <1>3 DEF Reconcile, FieldSize, xferBusy
  <1>4. ASSUME MutatorStep, ~TruncateEntry PROVE UNCHANGED nbits
    <2>1. CASE WriteFill \/ WriteGrow
      BY <2>1 DEF WriteFill, WriteGrow, GrowTo, FieldSize, xferBusy
    <2>2. CASE WriteIdent \/ CreateWarm
      BY <2>2, <1>3 DEF WriteIdent, CreateWarm
    <2>3. CASE WriteStat \/ EntryGone \/ CopyPwrite \/ CopyMark \/ WriteNote \/ Distrust
      BY <2>3 DEF WriteStat, EntryGone, CopyPwrite, CopyMark, WriteNote, Distrust, entryVars
    <2> QED  BY <1>4, <2>1, <2>2, <2>3 DEF MutatorStep
  <1>5. ASSUME NEW o \in Openers, OpenStat(o) \/ OpenReconcile(o)
        PROVE  UNCHANGED nbits
    BY <1>5, <1>3 DEF OpenStat, OpenReconcile, entryVars
  <1>6. ~Restart
    BY DEF Restart, Restarting, TypeInv, TypeOK, HistoryTypes, Workload
  <1>7. ASSUME \/ \E r \in Readers : \E s \in load.reads : ReadBegin(r, s)
               \/ \E s \in load.writes, v \in Vals : WriteOrigin(s, v)
               \/ \E n \in load.sizes : TruncateOrigin(n)
               \/ CreateOrigin \/ UnlinkForget \/ UnlinkOrigin \/ UnlinkPurge
               \/ PunchClear \/ PunchSaveFails \/ PunchCut
               \/ \E v \in Vals : ForeignRewrite(v)
        PROVE  UNCHANGED nbits
    BY <1>7 DEF ReadBegin, WriteOrigin, TruncateOrigin, CreateOrigin, Mutation, UnlinkForget,
                UnlinkOrigin, UnlinkPurge, PunchClear, PunchSaveFails, PunchCut, ForeignRewrite, entryVars
  <1> QED  BY <1>1, <1>2, <1>4, <1>5, <1>6, <1>7 DEF Next

\* That step discards every mark and outruns every claim.
LEMMA FieldMoved ==
    ASSUME TypeInv, ClaimsOld, TruncateEntry, xfer # {}, ~SameField
    PROVE  /\ wr.pc = "trunc"
           /\ bits' = {} /\ \A i \in Pieces : filling'[i] # writes'
           /\ data' = data /\ dlen' = dlen
PROOF
  <1>1. nbits' # nbits
    BY DEF SameField
  <1>2. /\ wr.pc = "trunc" /\ UNCHANGED filling
        /\ bits' = {} /\ writes' = writes + 1
        /\ data' = data /\ dlen' = dlen
    BY <1>1 DEF TruncateEntry, TruncateCacheFd, xferBusy
  <1>3. writes \in Nat /\ filling \in [Pieces -> Nat \cup {NoClaim}]
    BY DEF TypeInv, TypeOK, EntryTypes, ClaimTypes
  <1>4. ASSUME NEW i \in Pieces PROVE filling'[i] # writes'
    BY <1>2, <1>3 DEF ClaimsOld, NoClaim
  <1> QED  BY <1>2, <1>4

\* The buffer a transfer's readers index without a lock is reallocated by
\* mf_truncate alone (growToLocked, reconcile and cacheFillIdentified give way
\* to Cached.xfer), and no mark, live claim or changed cache byte is left for
\* the reader that lost its buffer.
THEOREM FieldMovesOnlyInTruncate == Spec => FieldMovesInTruncate
PROOF
  <1>1. Init => ClaimsOld
    BY DEF Init, ClaimsOld, NoClaim
  <1>2. ClaimsOld /\ TypeInv /\ [Next]_vars => ClaimsOld'
    BY StepClaimsOld
  <1>3. ClaimsOld /\ TypeInv /\ [Next]_vars =>
          [xfer # {} /\ ~Restarting /\ ~SameField =>
             /\ wr.pc = "trunc"
             /\ bits' = {} /\ \A i \in Pieces : filling'[i] # writes'
             /\ data' = data /\ dlen' = dlen]_vars
    BY FieldMover, FieldMoved DEF SameField
  <1> QED  BY <1>1, <1>2, <1>3, TypesKept, PTL DEF Spec, FieldMovesInTruncate

-----------------------------------------------------------------------------
(* Claims (Cached.filling)                                                   *)

\* A step that neither takes nor gives back a claim.
LEMMA ClaimsKept ==
    ASSUME FillClaims, UNCHANGED filling,
           \A r \in Readers : /\ Filling(r)' <=> Filling(r)
                              /\ Filling(r) => rd'[r].i = rd[r].i
    PROVE  FillClaims'
  BY DEF FillClaims

LEMMA ClaimsAside ==
    ASSUME FillClaims, UNCHANGED <<filling, rd>>
    PROVE  FillClaims'
  BY DEF FillClaims, Filling

LEMMA ReaderElsewhere ==
    ASSUME TypeInv, FillClaims, UNCHANGED filling, NEW r \in Readers, ~Filling(r),
           \A q \in Readers \ {r} : rd'[q] = rd[q],
           rd'[r].pc \notin {"fetch", "land", "mark", "abort"}
    PROVE  FillClaims'
PROOF
  <1>1. ASSUME NEW q \in Readers
        PROVE  (Filling(q)' <=> Filling(q)) /\ (Filling(q) => rd'[q].i = rd[q].i)
    BY DEF Filling
  <1> QED  BY <1>1, ClaimsKept

\* A reader gives its claim back.
LEMMA ClaimReturned ==
    ASSUME TypeInv, FillClaims, NEW r \in Readers, Filling(r), Unclaim(rd[r].i), NEW x,
           rd' = [rd EXCEPT ![r] = x], x.pc \notin {"fetch", "land", "mark", "abort"}
    PROVE  FillClaims'
PROOF
  <1>1. rd \in [Readers -> Rd] /\ filling \in [Pieces -> Nat \cup {NoClaim}]
    BY DEF TypeInv, TypeOK, ReaderTypes, ClaimTypes
  <1>2. rd'[r] = x /\ \A q \in Readers : q # r => rd'[q] = rd[q]
    BY <1>1
  <1>3. ~Filling(r)' /\ \A q \in Readers : q # r => (Filling(q)' <=> Filling(q))
    BY <1>2 DEF Filling
  <1>4. \A j \in Pieces : filling'[j] = IF j = rd[r].i THEN NoClaim ELSE filling[j]
    BY <1>1 DEF Unclaim
  <1>5. ASSUME NEW j \in Pieces, filling'[j] # NoClaim
        PROVE  \E q \in Readers : Filling(q)' /\ rd'[q].i = j
    <2>1. filling[j] # NoClaim /\ j # rd[r].i
      BY <1>4, <1>5
    <2>2. PICK q \in Readers : Filling(q) /\ rd[q].i = j
      BY <2>1 DEF FillClaims
    <2> QED  BY <2>1, <2>2, <1>2, <1>3
  <1>6. ASSUME NEW j \in Pieces, NEW q \in Readers, NEW p \in Readers, Filling(q)', rd'[q].i = j
        PROVE  filling'[j] # NoClaim /\ (Filling(p)' /\ rd'[p].i = j => p = q)
    <2>1. q # r /\ Filling(q) /\ rd[q].i = j
      BY <1>6, <1>2, <1>3
    <2>2. j # rd[r].i
      BY <2>1 DEF FillClaims
    <2>3. filling[j] # NoClaim
      BY <2>1 DEF FillClaims
    <2>4. Filling(p)' /\ rd'[p].i = j => Filling(p) /\ rd[p].i = j
      BY <1>2, <1>3
    <2>5. Filling(p) /\ rd[p].i = j => p = q
      BY <2>1 DEF FillClaims
    <2> QED  BY <2>2, <2>3, <2>4, <2>5, <1>4
  <1> QED  BY <1>5, <1>6 DEF FillClaims

LEMMA ClaimsBeginFill ==
    ASSUME TypeInv, FillClaims, NEW r \in Readers, BeginFill(r)
    PROVE  FillClaims'
PROOF
  <1> DEFINE i == rd[r].i
  <1>1. rd \in [Readers -> Rd] /\ rd[r] \in Rd /\ rd[r].pc = "claim"
    BY DEF BeginFill, TypeInv, TypeOK, ReaderTypes
  <1>2. ~Filling(r)
    BY <1>1 DEF Filling
  <1>3. CASE NextPiece(r) /\ UNCHANGED filling
    <2> DEFINE x == [rd[r] EXCEPT !.pc = "walk", !.i = @ + 1]
    <2>1. rd' = [rd EXCEPT ![r] = x]
      BY <1>3 DEF NextPiece
    <2>2. x.pc = "walk"
      BY <1>1 DEF Rd
    <2> HIDE DEF x
    <2>3. rd'[r] = x /\ \A q \in Readers \ {r} : rd'[q] = rd[q]
      BY <2>1, <1>1
    <2> QED  BY <2>2, <2>3, <1>2, <1>3, ReaderElsewhere
  <1>4. CASE ~(NextPiece(r) /\ UNCHANGED filling)
    <2>1. /\ Unclaimed(i) /\ PLen(size, i) > 0
          /\ filling' = [filling EXCEPT ![i] = writes]
          /\ rd' = [rd EXCEPT ![r].pc = "fetch", ![r].flen = PLen(size, i)]
      BY <1>4 DEF BeginFill
    <2>2. /\ filling \in [Pieces -> Nat \cup {NoClaim}] /\ writes # NoClaim /\ i \in Pieces
      <3>1. i \in Pieces
        BY <1>1, Constants DEF TypeInv, ReadersSteady, ReaderSteady, Walks, AtPiece, Rd
      <3>2. writes \in Nat
        BY DEF TypeInv, TypeOK, EntryTypes
      <3> QED  BY <3>1, <3>2 DEF TypeInv, TypeOK, ClaimTypes, NoClaim
    <2>3. ~ \E q \in Readers : Filling(q) /\ rd[q].i = i
      BY <2>1, <2>2 DEF FillClaims, Unclaimed
    <2>4. /\ rd'[r].pc = "fetch" /\ rd'[r].i = i /\ \A q \in Readers : q # r => rd'[q] = rd[q]
      BY <2>1, <1>1 DEF Rd
    <2>5. Filling(r)' /\ \A q \in Readers : q # r => (Filling(q)' <=> Filling(q))
      BY <2>4 DEF Filling
    <2>6. \A j \in Pieces : filling'[j] = IF j = i THEN writes ELSE filling[j]
      BY <2>1, <2>2
    <2>7. ASSUME NEW j \in Pieces, filling'[j] # NoClaim
          PROVE  \E q \in Readers : Filling(q)' /\ rd'[q].i = j
      <3>1. CASE j = i
        BY <3>1, <2>4, <2>5
      <3>2. CASE j # i
        <4>1. PICK q \in Readers : Filling(q) /\ rd[q].i = j
          BY <3>2, <2>6, <2>7 DEF FillClaims
        <4>2. q # r
          BY <4>1, <1>2
        <4> QED  BY <4>1, <4>2, <2>4, <2>5
      <3> QED  BY <3>1, <3>2
    <2>8. ASSUME NEW j \in Pieces, NEW q \in Readers, NEW p \in Readers, Filling(q)', rd'[q].i = j
          PROVE  filling'[j] # NoClaim /\ (Filling(p)' /\ rd'[p].i = j => p = q)
      <3>1. CASE j = i
        <4>1. q = r /\ (Filling(p)' /\ rd'[p].i = j => p = r)
          BY <3>1, <2>3, <2>4, <2>5, <2>8
        <4> QED  BY <4>1, <3>1, <2>2, <2>6
      <3>2. CASE j # i
        <4>1. q # r /\ Filling(q) /\ rd[q].i = j
          BY <3>2, <2>4, <2>5, <2>8
        <4>2. Filling(p)' /\ rd'[p].i = j => Filling(p) /\ rd[p].i = j
          BY <3>2, <2>4, <2>5
        <4>3. filling[j] # NoClaim /\ (Filling(p) /\ rd[p].i = j => p = q)
          BY <4>1 DEF FillClaims
        <4> QED  BY <4>2, <4>3, <3>2, <2>6
      <3> QED  BY <3>1, <3>2
    <2> QED  BY <2>7, <2>8 DEF FillClaims
  <1> QED  BY <1>3, <1>4

\* The steps of a fill that keep its claim.
LEMMA ClaimHeld ==
    ASSUME TypeInv, FillClaims, UNCHANGED filling, NEW r \in Readers, Filling(r), NEW x,
           rd' = [rd EXCEPT ![r] = x], x.pc \in {"fetch", "land", "mark", "abort"}, x.i = rd[r].i
    PROVE  FillClaims'
PROOF
  <1>1. ASSUME NEW q \in Readers
        PROVE  (Filling(q)' <=> Filling(q)) /\ (Filling(q) => rd'[q].i = rd[q].i)
    BY DEF Filling, TypeInv, TypeOK, ReaderTypes
  <1> QED  BY <1>1, ClaimsKept

LEMMA ClaimsFill ==
    ASSUME TypeInv, FillClaims, NEW r \in Readers,
           FetchPeer(r) \/ FetchOrigin(r) \/ CompleteFill(r) \/ FinishPiece(r)
    PROVE  FillClaims'
PROOF
  <1>1. rd \in [Readers -> Rd] /\ rd[r] \in Rd
    BY DEF TypeInv, TypeOK, ReaderTypes
  <1>2. Filling(r)
    BY DEF FetchPeer, FetchOrigin, CompleteFill, FinishPiece, Filling
  <1>3. ASSUME FetchPeer(r) \/ FetchOrigin(r)
        PROVE  FillClaims'
    <2>1. UNCHANGED filling
      BY <1>3 DEF FetchPeer, FetchOrigin, entryVars
    <2>2. \E b, ok, pc : rd' = [rd EXCEPT ![r] = [rd[r] EXCEPT !.pc = pc, !.buf = b, !.ok = ok]]
                          /\ pc \in {"land", "abort"}
      <3>1. CASE FetchPeer(r)
        <4>1. rd' = [rd EXCEPT ![r] = [rd[r] EXCEPT !.pc = "land", !.buf = hashes[rd[r].i], !.ok = rd[r].ok]]
          BY <3>1, <1>1 DEF FetchPeer, Rd
        <4> QED  BY <4>1
      <3>2. CASE FetchOrigin(r)
        <4> DEFINE b == Bytes(odata, Offset(rd[r].i, PS), rd[r].flen)
        <4>1. \/ rd' = [rd EXCEPT ![r].buf = b, ![r].pc = "land"]
              \/ rd' = [rd EXCEPT ![r].pc = "abort", ![r].ok = FALSE]
          BY <3>2 DEF FetchOrigin
        <4> HIDE DEF b
        <4>2. \/ rd' = [rd EXCEPT ![r] = [rd[r] EXCEPT !.pc = "land", !.buf = b, !.ok = rd[r].ok]]
              \/ rd' = [rd EXCEPT ![r] = [rd[r] EXCEPT !.pc = "abort", !.buf = rd[r].buf, !.ok = FALSE]]
          BY <4>1, <1>1, ZenonT(40) DEF Rd
        <4> QED  BY <4>2
      <3> QED  BY <1>3, <3>1, <3>2
    <2>3. PICK b, ok, pc : rd' = [rd EXCEPT ![r] = [rd[r] EXCEPT !.pc = pc, !.buf = b, !.ok = ok]]
                            /\ pc \in {"land", "abort"}
      BY <2>2
    <2> DEFINE x == [rd[r] EXCEPT !.pc = pc, !.buf = b, !.ok = ok]
    <2>4. x.pc = pc /\ x.i = rd[r].i /\ rd' = [rd EXCEPT ![r] = x]
      BY <2>3, <1>1 DEF Rd
    <2> HIDE DEF x
    <2> QED  BY <2>1, <2>3, <2>4, <1>2, ClaimHeld
  <1>4. ASSUME CompleteFill(r) PROVE FillClaims'
    <2>1. CASE FillOutrun(r)
      <3> DEFINE x == [rd[r] EXCEPT !.pc = "probe"]
      <3>1. Unclaim(rd[r].i) /\ rd' = [rd EXCEPT ![r] = x] /\ x.pc = "probe"
        BY <1>4, <2>1, <1>1 DEF CompleteFill, Rd
      <3> HIDE DEF x
      <3> QED  BY <3>1, <1>2, ClaimReturned
    <2>2. CASE ~FillOutrun(r)
      <3>1. UNCHANGED filling /\ \E ok \in BOOLEAN : rd' = [rd EXCEPT ![r].pc = "mark", ![r].ok = ok]
        BY <1>4, <2>2 DEF CompleteFill, FillLanded
      <3>2. PICK ok \in BOOLEAN : rd' = [rd EXCEPT ![r].pc = "mark", ![r].ok = ok]
        BY <3>1
      <3> DEFINE x == [rd[r] EXCEPT !.pc = "mark", !.ok = ok]
      <3>3. x.pc = "mark" /\ x.i = rd[r].i /\ rd' = [rd EXCEPT ![r] = x]
        BY <3>2, <1>1 DEF Rd
      <3> HIDE DEF x
      <3> QED  BY <3>1, <3>3, <1>2, ClaimHeld
    <2> QED  BY <2>1, <2>2
  <1>5. ASSUME FinishPiece(r) PROVE FillClaims'
    <2> DEFINE x == [rd[r] EXCEPT !.pc = IF rd[r].ok THEN "probe" ELSE "fallback"]
    <2>1. Unclaim(rd[r].i) /\ rd' = [rd EXCEPT ![r] = x] /\ x.pc \in {"probe", "fallback"}
      BY <1>5, <1>1 DEF FinishPiece, Rd
    <2> HIDE DEF x
    <2> QED  BY <2>1, <1>2, ClaimReturned
  <1> QED  BY <1>3, <1>4, <1>5

\* The steps of a reader outside a fill.
LEMMA ReaderOutside ==
    ASSUME TypeInv, NEW r \in Readers,
           \/ \E s \in load.reads : ReadBegin(r, s)
           \/ ReadSample(r) \/ Walk(r) \/ Probe(r) \/ ReadServed(r) \/ Reply(r)
    PROVE  /\ UNCHANGED filling /\ ~Filling(r)
           /\ \A q \in Readers \ {r} : rd'[q] = rd[q]
           /\ rd'[r].pc \in {"idle", "sample", "walk", "claim", "serve", "pread", "fallback"}
PROOF
  <1> DEFINE Outside == {"idle", "sample", "walk", "claim", "serve", "pread", "fallback"}
             Goes == /\ \A q \in Readers \ {r} : rd'[q] = rd[q]
                     /\ rd'[r].pc \in Outside
  <1>1. rd \in [Readers -> Rd] /\ rd[r] \in Rd
    BY DEF TypeInv, TypeOK, ReaderTypes
  <1>2. UNCHANGED filling /\ ~Filling(r)
    BY DEF ReadBegin, ReadSample, Walk, Probe, ReadServed, Reply, entryVars, Filling
  <1>3. ASSUME NEW s, ReadBegin(r, s) PROVE Goes
    BY <1>1, <1>3 DEF ReadBegin, IdleReader
  <1>4. NextPiece(r) => Goes
    BY <1>1 DEF NextPiece, Rd
  <1>5. ReadEnd(r) => Goes
    BY <1>1 DEF ReadEnd, IdleReader
  <1>6. ASSUME ReadSample(r) PROVE Goes
    <2>1. CASE rd[r].off >= size
      BY <1>5, <1>6, <2>1 DEF ReadSample
    <2>2. CASE ~(rd[r].off >= size)
      <3> DEFINE n == MinOf(rd[r].n, size - rd[r].off)
                 a == CoverStart(rd[r].off, n, size, PS)
                 b == CoverEnd(rd[r].off, n, size, PS)
                 pc == IF Cover(rd[r].off, n, size, PS) \subseteq bits THEN "serve" ELSE "walk"
      <3>1. rd' = [rd EXCEPT ![r].n = n, ![r].i = a, ![r].stop = b, ![r].pc = pc]
        BY <1>6, <2>2 DEF ReadSample
      <3>2. pc \in Outside
        OBVIOUS
      <3> HIDE DEF n, a, b, pc
      <3> QED  BY <3>1, <3>2, <1>1 DEF Rd
    <2> QED  BY <2>1, <2>2
  <1>7. ASSUME Walk(r) PROVE Goes
    <2>1. \/ NextPiece(r)
          \/ rd' = [rd EXCEPT ![r].pc = "serve"]
          \/ rd' = [rd EXCEPT ![r].pc = "claim", ![r].prefer = (writes # 0), ![r].retry = FALSE]
      BY <1>7 DEF Walk
    <2> QED  BY <2>1, <1>1, <1>4 DEF Rd
  <1>8. ASSUME Probe(r) PROVE Goes
    <2>1. \/ NextPiece(r)
          \/ rd' = [rd EXCEPT ![r].pc = "claim", ![r].retry = TRUE, ![r].prefer = TRUE]
          \/ rd' = [rd EXCEPT ![r].pc = "fallback"]
      BY <1>8 DEF Probe
    <2> QED  BY <2>1, <1>1, <1>4 DEF Rd
  <1>9. ASSUME ReadServed(r) PROVE Goes
    BY <1>9, <1>1 DEF ReadServed, Rd
  <1>10. Reply(r) => Goes
    BY <1>5 DEF Reply
  <1> QED  BY <1>2, <1>3, <1>6, <1>7, <1>8, <1>9, <1>10

\* The other threads leave claims and readers alone.
LEMMA ClaimsUntouched ==
    ASSUME [Next]_vars
    PROVE  \/ UNCHANGED <<filling, rd>>
           \/ \E r \in Readers : ReadStep(r) \/ \E s \in load.reads : ReadBegin(r, s)
           \/ Restart
PROOF
  <1>1. CASE UNCHANGED vars
    BY <1>1 DEF vars, entryVars, threadVars
  <1>2. ASSUME MutatorStep PROVE UNCHANGED <<filling, rd>>
    BY <1>2 DEF MutatorStep, WriteStat, EntryGone, WriteFill, WriteIdent, WriteGrow, CopyPwrite,
                CopyMark, WriteNote, Distrust, TruncateEntry, CreateWarm, entryVars
  <1>3. ASSUME \/ \E s \in load.writes, v \in Vals : WriteOrigin(s, v)
               \/ \E n \in load.sizes : TruncateOrigin(n)
               \/ CreateOrigin \/ UnlinkForget \/ UnlinkOrigin \/ UnlinkPurge
               \/ \E o \in Openers : OpenStat(o) \/ OpenReconcile(o)
               \/ PunchClear \/ PunchSaveFails \/ PunchCut
               \/ \E v \in Vals : ForeignRewrite(v)
        PROVE  UNCHANGED <<filling, rd>>
    BY <1>3 DEF WriteOrigin, TruncateOrigin, CreateOrigin, Mutation, UnlinkForget, UnlinkOrigin,
                UnlinkPurge, OpenStat, OpenReconcile, PunchClear, PunchSaveFails, PunchCut,
                ForeignRewrite, entryVars, threadVars
  <1> QED  BY <1>1, <1>2, <1>3 DEF Next

LEMMA StepClaims ==
    ASSUME TypeInv, FillClaims, [Next]_vars
    PROVE  FillClaims'
PROOF
  <1>1. CASE UNCHANGED <<filling, rd>>
    BY <1>1, ClaimsAside
  <1>2. CASE Restart
    BY <1>2 DEF Restart, FillClaims, Filling, IdleReader
  <1>3. ASSUME NEW r \in Readers,
               \/ \E s \in load.reads : ReadBegin(r, s)
               \/ ReadSample(r) \/ Walk(r) \/ Probe(r) \/ ReadServed(r) \/ Reply(r)
        PROVE  FillClaims'
    <2>1. /\ UNCHANGED filling /\ ~Filling(r) /\ \A q \in Readers \ {r} : rd'[q] = rd[q]
          /\ rd'[r].pc \notin {"fetch", "land", "mark", "abort"}
      BY <1>3, ReaderOutside
    <2> QED  BY <2>1, ReaderElsewhere
  <1> QED  BY <1>1, <1>2, <1>3, ClaimsUntouched, ClaimsBeginFill, ClaimsFill DEF ReadStep

\* A piece is filled by one reader at a time, and a claim never outlives its
\* filler: none is left behind for a later reader to wait on for ever
\* (beginFill, finishPiece).
THEOREM ClaimsBelong == Spec => []FillClaims
PROOF
  <1>1. Init => FillClaims
    BY DEF Init, FillClaims, Filling, IdleReader
  <1>2. TypeInv /\ FillClaims /\ [Next]_vars => FillClaims'
    BY StepClaims
  <1> QED  BY <1>1, <1>2, TypesKept, PTL DEF Spec
=============================================================================
