---------------------------- MODULE ManifestProofs ----------------------------
(***************************************************************************)
(* Proofs about Manifest, for any nodes, fillers, closers, sizes and       *)
(* loads: published digests, and what entries hold and refill to, are of   *)
(* the file's content unless a publication misdated them, and a writer     *)
(* that thinks its digests published has published them, unless it wrote   *)
(* or published twice meanwhile.                                           *)
(*                                                                         *)
(* Shapes types the state.  Clocks relates stamps to the clock, Own says   *)
(* where the writer's entry stands between two writes and inside one.      *)
(* Vouched is what makes a digest safe to use; Publishing relates the      *)
(* writer's entry to the manifest it is writing and has written.           *)
(***************************************************************************)
EXTENDS Manifest, FiniteSetTheorems, TLAPS

Marks == [Pieces -> Stamps \cup {None, Torn}]
DigestMap == [Pieces -> Stamps \cup {None}]
Sizes == 1..MaxSize
EntType ==
    [size : Sizes, id : Stamps, writes : Nat, cache : Marks, hash : DigestMap, dirty : BOOLEAN,
     msize : Sizes \cup {None}, wait : BOOLEAN, loading : BOOLEAN, filling : SUBSET Pieces]
WriteType == [pc : {"idle", "fill", "get", "copy", "note"}, p : Pieces, before : Stamps, whole : BOOLEAN]
OpenType == [pc : {"idle", "stat"}, size : Sizes, id : Stamps]
PubType == [pc : {"idle", "snap", "write", "clear"}, fsize : Sizes \cup {0}, dig : DigestMap, n : Nat, id : Stamps]
BlobShape == [size : Sizes \cup {None}, by : Nodes, id : Stamps, dig : DigestMap, mtime : Stamps]
FillPcs == {"idle", "claim", "ask", "sample", "read", "stat", "retry", "merge", "unload", "lookup", "peer", "origin", "done"}
FillType ==
    [pc : FillPcs, p : Pieces, prefer : BOOLEAN, again : BOOLEAN, gen : Nat, gen0 : Nat,
     seen : BlobShape \cup {None}, mtime : Stamps, expect : Stamps \cup {None}, buf : Stamps]

Wholes == {{TRUE}, {FALSE}, BOOLEAN}
LoadShape ==
    [size : Sizes, writes : 0..MaxStamp, whole : Wholes, fills : [Nodes -> Nat], releases : [Nodes -> Nat],
     opens : [Nodes -> Nat], drops : Nat]

\* Between the read of a manifest and its merge.
Loading(f) == fl[f].pc \in {"stat", "merge"}

Shapes ==
    /\ load \in LoadShape /\ clock \in Nat /\ clock + load.writes <= MaxStamp
    /\ odata \in [Pieces -> Stamps] /\ osize \in Sizes /\ hist \in [Pieces -> SUBSET Stamps] /\ lowered \in BOOLEAN
    /\ blob \in BlobShape /\ ent \in [Nodes -> EntType] /\ wr \in WriteType /\ op \in [Nodes -> OpenType]
    /\ fl \in [Fillers -> FillType] /\ pb \in [Closers -> PubType]
    /\ misdated \subseteq Pieces \X Stamps /\ crowded \subseteq Closers /\ unsure \in BOOLEAN
    /\ \A f \in Fillers : Loading(f) => fl[f].seen \in BlobShape
    /\ \A c \in Closers : pb[c].pc # "idle" => pb[c].fsize \in Sizes

\* Identities and contents are of writes that happened; a piece holds its
\* last write, and a write in progress is the last one of all.
Clocks ==
    /\ \A p \in Pieces : odata[p] \in hist[p] /\ \A t \in hist[p] : t <= odata[p] /\ t <= clock
    /\ blob.id <= clock
    /\ \A n \in Nodes : ent[n].id <= clock /\ op[n].id <= clock
    /\ \A c \in Closers : pb[c].id <= clock
    /\ \A n \in Nodes : op[n].pc = "stat" /\ op[n].id = clock => op[n].size = osize
    /\ \A f \in Fillers : Loading(f) => fl[f].seen.id <= clock
    /\ wr.pc # "idle" =>
          /\ wr.p < osize /\ odata[wr.p] = clock
          /\ wr.before \in hist[wr.p] /\ wr.before < clock
          /\ \A t \in hist[wr.p] : t = clock \/ t <= wr.before
          /\ \A q \in Pieces \ {wr.p} : clock \notin hist[q]

\* The writer's entry has its last write's identity and size, or is about to
\* take them; it has digests of pieces in the file only.
Mine == ent[Writer]
Own ==
    ~lowered =>
      /\ wr.pc \in {"idle", "copy", "note"} => Mine.id = clock /\ Mine.size = osize
      /\ Mine.id >= clock - 1
      /\ \A p \in Pieces : Mine.hash[p] # None => p < Mine.size

\* The identity that a content of piece p has to stand for on node n: once a
\* write's identity is adopted, and until it is copied in, the one before it.
Due(n, p) == IF n = Writer /\ wr.p = p /\ wr.pc = "copy" THEN clock - 1 ELSE ent[n].id

\* Superseded content is the result of a publication, and on the writer of a
\* manifest that it took digests from since its entry was last wiped.
Excused(n, p, v) == Misdated(p, v) /\ (n = Writer => Mine.msize # None)
Fit(n, p, v) == v \in hist[p] \cup {Torn} /\ (Superseded(p, v, Due(n, p)) => Excused(n, p, v))

\* A set of digests that is true of identity id and lies in the file's size.
Truthful(dig, id, size) ==
    \A p \in Pieces : dig[p] # None => dig[p] \in hist[p] /\ ~Outdated(p, dig[p], id) /\ p < size

EntriesVouched ==
    \A n \in Nodes, p \in Pieces :
      /\ ent[n].cache[p] # None => Fit(n, p, ent[n].cache[p])
      /\ ent[n].hash[p] # None => Fit(n, p, ent[n].hash[p])

FillsVouched ==
    \A f \in Fillers :
      fl[f].gen = Entry(f).writes =>
        /\ fl[f].pc = "peer" => Fit(Home[f], fl[f].p, fl[f].expect)
        /\ fl[f].pc = "done" => Fit(Home[f], fl[f].p, fl[f].buf)

BlobsVouched ==
    /\ Truthful(blob.dig, blob.id, blob.size)
    /\ \A f \in Fillers : Loading(f) => Truthful(fl[f].seen.dig, fl[f].seen.id, fl[f].seen.size)
    /\ \A c \in Closers : pb[c].pc \in {"write", "clear"} => Truthful(pb[c].dig, pb[c].id, pb[c].fsize)

Generations == \A f \in Fillers : fl[f].gen <= Entry(f).writes

Vouched == Generations /\ (~lowered => EntriesVouched /\ FillsVouched /\ BlobsVouched)

\* A publication that nothing crowds is the writer's only one and overlaps no
\* write: until it clears the flag the entry still has every digest being
\* published.  A clean entry has none beside those published.
Alone(c) ==
    /\ wr.pc = "idle" /\ Publishers(Writer) = {c}
    /\ pb[c].pc = "snap" => pb[c].fsize = Mine.size
    /\ pb[c].pc \in {"write", "clear"} =>
         /\ Mine.dirty /\ pb[c].n = Cardinality(Known(pb[c].dig))
         /\ Mine.msize = None => \A p \in Pieces : pb[c].dig[p] # None => Mine.hash[p] = pb[c].dig[p]
    /\ pb[c].pc = "clear" /\ blob.by = Writer => blob.dig = pb[c].dig

Clean ==
    /\ Publishers(Writer) = {}
    /\ Mine.msize = None /\ blob.by = Writer => \A p \in Pieces : Mine.hash[p] # None => blob.dig[p] = Mine.hash[p]

Publishing ==
    ~lowered =>
      /\ \A c \in Publishers(Writer) \ crowded : Alone(c)
      /\ ~unsure /\ ~Mine.dirty => Clean

ManifestInv == Shapes /\ Clocks /\ Own /\ Vouched /\ Publishing

USE DEF origin, history, Sizes, Loading, Entry, To, Mine

-----------------------------------------------------------------------------
(* Shapes.                                                                   *)

LEMMA Numbers ==
    /\ None = -1 /\ Torn = -2 /\ MaxSize \in Nat /\ 0 \in Pieces /\ 0 \in Stamps /\ 1 \in Sizes
    /\ Stamps \subseteq Nat /\ Pieces \subseteq Nat /\ Sizes \subseteq Nat
    /\ \A p \in Pieces : p + 1 \in Sizes
    /\ NoDigests \in DigestMap /\ NoDigests \in Marks /\ Writer \in Nodes
    /\ (\A f \in Fillers : Home[f] \in Nodes) /\ \A c \in Closers : Closes[c] \in Nodes
  BY ManifestAssumption DEF None, Torn, Pieces, Stamps, NoDigests, DigestMap, Marks

LEMMA IdleShapes ==
    /\ IdleWrite \in WriteType /\ IdleOpen \in OpenType /\ IdlePub \in PubType /\ IdleFill \in FillType
  BY Numbers DEF IdleWrite, IdleOpen, IdlePub, IdleFill, WriteType, OpenType, PubType, FillType, FillPcs

LEMMA ClearedShape ==
    ASSUME NEW e \in EntType
    PROVE  ClearHashes(e) \in EntType /\ ClearHashes(e) = [e EXCEPT !.hash = NoDigests, !.msize = None, !.wait = FALSE, !.dirty = TRUE]
  BY Numbers DEF ClearHashes, EntType

LEMMA EntUpdate ==
    ASSUME NEW e \in EntType, NEW w \in Nat, NEW c \in Marks, NEW h \in DigestMap, NEW d \in BOOLEAN,
           NEW size \in Sizes, NEW id \in Stamps
    PROVE  /\ e.writes + 1 \in Nat
           /\ [e EXCEPT !.writes = w, !.cache = c, !.hash = h, !.dirty = d] \in EntType
           /\ [e EXCEPT !.size = size, !.id = id, !.cache = c, !.writes = w] \in EntType
  <1>1. e.writes + 1 \in Nat
    BY DEF EntType
  <1>2. [e EXCEPT !.writes = w, !.cache = c, !.hash = h, !.dirty = d] \in EntType
    BY DEF EntType
  <1>3. [e EXCEPT !.size = size, !.id = id, !.cache = c, !.writes = w] \in EntType
    BY DEF EntType
  <1> QED  BY <1>1, <1>2, <1>3

LEMMA ReconcileShape ==
    ASSUME NEW e \in EntType, NEW size \in Sizes, NEW id \in Stamps
    PROVE  Reconcile(e, size, id) \in EntType
  <1> DEFINE c == ClearHashes(e)
  <1>1. c \in EntType
    BY ClearedShape
  <1> HIDE DEF c
  <1>2. [c EXCEPT !.size = size, !.id = id, !.cache = NoDigests, !.writes = @ + 1] \in EntType
    <2>1. NoDigests \in Marks /\ NoDigests \in DigestMap /\ TRUE \in BOOLEAN /\ 0 \in Nat
      BY Numbers
    <2>2. c.writes + 1 \in Nat
      BY <1>1, <2>1, EntUpdate
    <2> DEFINE w == c.writes + 1
    <2> HIDE DEF w
    <2>3. [c EXCEPT !.size = size, !.id = id, !.cache = NoDigests, !.writes = w] \in EntType
      BY <1>1, <2>1, <2>2, EntUpdate DEF w
    <2> QED  BY <2>3 DEF w
  <1> QED  BY <1>2 DEF Reconcile, c

LEMMA CopiedShape ==
    ASSUME NEW e \in EntType, NEW p \in Pieces, clock \in Stamps
    PROVE  Copied(e, p) \in EntType /\ NotCopied(e, p) \in EntType
  <1>1. \A c \in Stamps \cup {None, Torn} : [e.cache EXCEPT ![p] = c] \in Marks
    BY DEF EntType, Marks
  <1>2. \A h \in Stamps \cup {None} : [e.hash EXCEPT ![p] = h] \in DigestMap
    BY DEF EntType, DigestMap
  <1>3. ASSUME NEW c \in Marks, NEW h \in DigestMap, NEW b \in BOOLEAN
        PROVE  [e EXCEPT !.writes = @ + 1, !.cache = c, !.hash = h, !.dirty = b] \in EntType
    <2> DEFINE w == e.writes + 1
    <2>1. w \in Nat
      BY DEF EntType
    <2> HIDE DEF w
    <2>2. [e EXCEPT !.writes = w, !.cache = c, !.hash = h, !.dirty = b] \in EntType
      BY <2>1 DEF EntType
    <2> QED  BY <2>2 DEF w
  <1> DEFINE d == e.dirty \/ e.hash[p] # None
  <1>4. e.cache[p] \in Stamps \cup {None, Torn} /\ d \in BOOLEAN
    BY DEF EntType, Marks
  <1>5. NotCopied(e, p) = [e EXCEPT !.writes = @ + 1, !.cache = [e.cache EXCEPT ![p] = None],
                              !.hash = [e.hash EXCEPT ![p] = None], !.dirty = d]
    BY DEF NotCopied, EntType
  <1>9. wr.whole \/ Copied(e, p) = [e EXCEPT !.writes = @ + 1, !.cache = [e.cache EXCEPT ![p] =
                                        IF @ = None THEN None ELSE IF @ \in {wr.before, clock} THEN clock ELSE Torn],
                              !.hash = [e.hash EXCEPT ![p] = None], !.dirty = d]
    BY DEF Copied, EntType
  <1> HIDE DEF d
  <1>6. ASSUME NEW b \in BOOLEAN, NEW h \in Stamps \cup {None}, NEW c \in Stamps \cup {None, Torn}
        PROVE  [e EXCEPT !.writes = @ + 1, !.cache = [e.cache EXCEPT ![p] = c],
                              !.hash = [e.hash EXCEPT ![p] = h], !.dirty = b] \in EntType
    BY <1>1, <1>2, <1>3
  <1>7. NotCopied(e, p) \in EntType
    <2>1. [e EXCEPT !.writes = @ + 1, !.cache = [e.cache EXCEPT ![p] = None],
                    !.hash = [e.hash EXCEPT ![p] = None], !.dirty = d] \in EntType
      BY <1>4, <1>6
    <2> QED  BY <1>5, <2>1
  <1>8. PICK b \in BOOLEAN, h \in Stamps \cup {None}, c \in Stamps \cup {None, Torn} :
            Copied(e, p) = [e EXCEPT !.writes = @ + 1, !.cache = [e.cache EXCEPT ![p] = c],
                              !.hash = [e.hash EXCEPT ![p] = h], !.dirty = b]
    <2>1. CASE wr.whole
      <3>1. Copied(e, p) = [e EXCEPT !.writes = @ + 1, !.cache = [e.cache EXCEPT ![p] = IF p < e.size THEN clock ELSE None],
                              !.hash = [e.hash EXCEPT ![p] = clock], !.dirty = TRUE]
        BY <2>1 DEF Copied, EntType
      <3> QED  BY <3>1
    <2>2. CASE ~wr.whole
      BY <2>2, <1>4, <1>9
    <2> QED  BY <2>1, <2>2
  <1>10. [e EXCEPT !.writes = @ + 1, !.cache = [e.cache EXCEPT ![p] = c],
                   !.hash = [e.hash EXCEPT ![p] = h], !.dirty = b] \in EntType
    BY <1>6
  <1> QED  BY <1>7, <1>8, <1>10

LEMMA InitShapes == Init => Shapes
PROOF
  <1> SUFFICES ASSUME Init PROVE Shapes
    OBVIOUS
  <1>1. load \in LoadShape /\ clock = 0 /\ clock + load.writes <= MaxStamp
    <2>1. load \in Loads /\ clock = 0
      BY DEF Init
    <2>2. load \in LoadShape
      BY <2>1, ManifestAssumption DEF LoadType, LoadShape, Wholes
    <2>3. load.writes \in 0..MaxStamp /\ MaxStamp \in Nat
      BY <2>2, ManifestAssumption DEF LoadShape
    <2> QED  BY <2>1, <2>2, <2>3
  <1>2. odata \in [Pieces -> Stamps] /\ osize \in Sizes /\ hist \in [Pieces -> SUBSET Stamps] /\ lowered \in BOOLEAN
    BY <1>1, Numbers DEF Init, LoadShape
  <1>3. blob \in BlobShape
    BY Numbers DEF Init, BlobShape
  <1>4. ent \in [Nodes -> EntType]
    BY <1>2, Numbers DEF Init, EntType
  <1>5. wr \in WriteType /\ op \in [Nodes -> OpenType] /\ pb \in [Closers -> PubType] /\ fl \in [Fillers -> FillType]
    BY IdleShapes DEF Init
  <1>6. (\A f \in Fillers : ~Loading(f)) /\ \A c \in Closers : pb[c].pc = "idle"
    BY DEF Init, IdleFill, IdlePub
  <1>7. misdated = {} /\ crowded = {} /\ unsure = FALSE
    BY DEF Init
  <1> QED  BY <1>1, <1>2, <1>3, <1>4, <1>5, <1>6, <1>7 DEF Shapes

\* A workload after one more operation has begun.
LEMMA LoadLeft ==
    ASSUME NEW l \in LoadShape, NEW n \in Nodes
    PROVE  /\ l.opens[n] > 0 => [l EXCEPT !.opens[n] = @ - 1] \in LoadShape
           /\ l.fills[n] > 0 => [l EXCEPT !.fills[n] = @ - 1] \in LoadShape
           /\ l.releases[n] > 0 => [l EXCEPT !.releases[n] = @ - 1] \in LoadShape
           /\ l.drops > 0 => [l EXCEPT !.drops = @ - 1] \in LoadShape
           /\ l.writes > 0 /\ MaxStamp \in Nat => [l EXCEPT !.writes = @ - 1] \in LoadShape
           /\ l.writes \in Int
PROOF
  <1>1. ASSUME l.opens[n] > 0 PROVE [l EXCEPT !.opens[n] = @ - 1] \in LoadShape
    BY <1>1 DEF LoadShape
  <1>2. ASSUME l.fills[n] > 0 PROVE [l EXCEPT !.fills[n] = @ - 1] \in LoadShape
    BY <1>2 DEF LoadShape
  <1>3. ASSUME l.releases[n] > 0 PROVE [l EXCEPT !.releases[n] = @ - 1] \in LoadShape
    BY <1>3 DEF LoadShape
  <1>4. ASSUME l.drops > 0 PROVE [l EXCEPT !.drops = @ - 1] \in LoadShape
    BY <1>4 DEF LoadShape
  <1>5. ASSUME l.writes > 0, MaxStamp \in Nat PROVE [l EXCEPT !.writes = @ - 1] \in LoadShape
    BY <1>5 DEF LoadShape
  <1>6. l.writes \in Int
    BY ManifestAssumption DEF LoadShape
  <1> QED  BY <1>1, <1>2, <1>3, <1>4, <1>5, <1>6

\* The actions that keep the shape of everything but the entry of one node, an
\* open, a publication or a fill.
LEMMA ShapesOpen ==
    ASSUME Shapes, NEW n \in Nodes, OpenStat(n) \/ OpenReconcile(n)
    PROVE  Shapes'
PROOF
  <1>0. clock \in Stamps
    BY ManifestAssumption DEF Shapes, Stamps, LoadShape
  <1>1. CASE OpenStat(n)
    <2>1. load' \in LoadShape /\ load'.writes = load.writes
      <3>1. load.opens[n] > 0 /\ load' = [load EXCEPT !.opens[n] = @ - 1] /\ load \in LoadShape
        BY <1>1 DEF OpenStat, Shapes
      <3>2. load' \in LoadShape
        BY <3>1, LoadLeft
      <3> QED  BY <3>1, <3>2 DEF LoadShape
    <2>2. op' \in [Nodes -> OpenType]
      BY <1>0, <1>1 DEF OpenStat, Shapes, OpenType
    <2> QED  BY <1>1, <2>1, <2>2 DEF OpenStat, Shapes
  <1>2. CASE OpenReconcile(n)
    <2>1. op[n].size \in Sizes /\ op[n].id \in Stamps /\ ent[n] \in EntType
      BY DEF Shapes, OpenType
    <2>2. ent' \in [Nodes -> EntType]
      BY <1>2, <2>1, ReconcileShape DEF OpenReconcile, Shapes
    <2>3. op' \in [Nodes -> OpenType]
      BY <1>2, IdleShapes DEF OpenReconcile, Shapes
    <2>4. lowered' \in BOOLEAN
      BY <1>2 DEF OpenReconcile
    <2> QED  BY <1>2, <2>2, <2>3, <2>4 DEF OpenReconcile, Shapes
  <1> QED  BY <1>1, <1>2

LEMMA ShapesWrite ==
    ASSUME Shapes, Write
    PROVE  Shapes'
PROOF
  <1>0. clock \in Stamps /\ Mine \in EntType /\ Writer \in Nodes /\ wr.p \in Pieces /\ osize \in Sizes
    BY ManifestAssumption DEF Shapes, Stamps, LoadShape, WriteType
  <1>1. ASSUME NEW p \in Pieces, NEW whole \in BOOLEAN, WriteLands(p, whole)
        PROVE  Shapes'
    <2>1. load.writes > 0 /\ load' = [load EXCEPT !.writes = @ - 1] /\ load \in LoadShape /\ clock' = clock + 1
      BY <1>1 DEF WriteLands, Shapes
    <2>2. load' \in LoadShape /\ load'.writes = load.writes - 1
      <3>1. load' \in LoadShape
        BY <2>1, LoadLeft, Numbers, ManifestAssumption
      <3> QED  BY <2>1, <3>1 DEF LoadShape
    <2>3. clock' \in Nat /\ clock' + load'.writes <= MaxStamp /\ clock' \in Stamps
      BY <2>1, <2>2, ManifestAssumption DEF Shapes, Stamps, LoadShape
    <2>4. odata' \in [Pieces -> Stamps] /\ hist' \in [Pieces -> SUBSET Stamps]
      BY <1>1, <2>3 DEF WriteLands, Shapes
    <2>5. osize' \in Sizes
      BY <1>1, Numbers DEF WriteLands, Shapes
    <2>6. wr' \in WriteType
      BY <1>1 DEF WriteLands, Shapes, WriteType
    <2>7. crowded' \subseteq Closers
      BY <1>1 DEF WriteLands, Shapes, Publishers
    <2> QED  BY <1>1, <2>2, <2>3, <2>4, <2>5, <2>6, <2>7 DEF WriteLands, Shapes
  <1>2. CASE CacheFill
    <2> DEFINE c == IF osize < Mine.size
                    THEN [ClearHashes(Mine) EXCEPT !.cache = NoDigests, !.writes = @ + 1, !.size = osize]
                    ELSE [Mine EXCEPT !.size = osize]
               i == IF ContentChanged(c.id, clock) THEN clock ELSE c.id
    <2>1. c \in EntType
      <3>1. CASE osize < Mine.size
        <4> DEFINE d == ClearHashes(Mine)
                   w == d.writes + 1
        <4>1. d \in EntType
          BY <1>0, ClearedShape
        <4> HIDE DEF d
        <4>2. w \in Nat /\ NoDigests \in Marks
          BY <4>1, Numbers DEF EntType
        <4>3. c = [d EXCEPT !.cache = NoDigests, !.writes = w, !.size = osize]
          BY <3>1 DEF d
        <4> HIDE DEF w, c
        <4>4. [d EXCEPT !.cache = NoDigests, !.writes = w, !.size = osize] \in EntType
          BY <1>0, <4>1, <4>2 DEF EntType
        <4> QED  BY <4>3, <4>4
      <3>2. CASE ~(osize < Mine.size)
        <4>1. c = [Mine EXCEPT !.size = osize]
          BY <3>2
        <4> HIDE DEF c
        <4>2. [Mine EXCEPT !.size = osize] \in EntType
          BY <1>0 DEF EntType
        <4> QED  BY <4>1, <4>2
      <3> QED  BY <3>1, <3>2
    <2>2. ent' = [ent EXCEPT ![Writer] = [c EXCEPT !.id = i]]
      BY <1>2 DEF CacheFill
    <2> HIDE DEF c
    <2>3. [c EXCEPT !.id = i] \in EntType
      BY <2>1, <1>0 DEF EntType
    <2>4. ent' \in [Nodes -> EntType]
      BY <2>2, <2>3 DEF Shapes
    <2>5. wr' \in WriteType
      BY <1>2 DEF CacheFill, Shapes, WriteType
    <2> QED  BY <1>2, <2>4, <2>5 DEF CacheFill, Shapes
  <1>3. CASE GetAfterWrite
    <2>1. ent' \in [Nodes -> EntType]
      BY <1>0, <1>3, ReconcileShape DEF GetAfterWrite, Shapes
    <2>2. wr' \in WriteType
      BY <1>3 DEF GetAfterWrite, Shapes, WriteType
    <2> QED  BY <1>3, <2>1, <2>2 DEF GetAfterWrite, Shapes
  <1>4. CASE CopyIntoCache
    <2>1. ent' \in [Nodes -> EntType]
      BY <1>0, <1>4, CopiedShape DEF CopyIntoCache, Shapes
    <2>2. wr' \in WriteType
      BY <1>4, IdleShapes DEF CopyIntoCache, Shapes, WriteType
    <2> QED  BY <1>4, <2>1, <2>2 DEF CopyIntoCache, Shapes
  <1>5. CASE NoteOriginId
    <2>1. ent' \in [Nodes -> EntType]
      BY <1>0, <1>5 DEF NoteOriginId, Shapes, EntType
    <2> QED  BY <1>5, <2>1, IdleShapes DEF NoteOriginId, Shapes
  <1> QED  BY <1>1, <1>2, <1>3, <1>4, <1>5 DEF Write

LEMMA ShapesPublish ==
    ASSUME Shapes, NEW c \in Closers, Publish(c)
    PROVE  Shapes'
PROOF
  <1> DEFINE n == Closes[c]
  <1>0. clock \in Stamps /\ n \in Nodes /\ ent[n] \in EntType /\ pb[c] \in PubType
    BY Numbers, ManifestAssumption DEF Shapes, Stamps, LoadShape
  <1>1. CASE Release(c)
    <2>1. load.releases[n] > 0 /\ load' = [load EXCEPT !.releases[n] = @ - 1] /\ load \in LoadShape
      BY <1>1 DEF Release, Shapes
    <2>2. load' \in LoadShape /\ load'.writes = load.writes
      BY <2>1, LoadLeft DEF LoadShape
    <2>3. pb' \in [Closers -> PubType]
      BY <1>0, <1>1, IdleShapes DEF Release, Shapes, PubType, EntType
    <2>4. \A m \in Closers : pb'[m].pc # "idle" => pb'[m].fsize \in Sizes
      BY <1>0, <1>1 DEF Release, Shapes, EntType, IdlePub
    <2>5. crowded' \subseteq Closers
      BY <1>1 DEF Release, Shapes, Publishers
    <2> QED  BY <1>1, <2>2, <2>3, <2>4, <2>5 DEF Release, Shapes
  <1>2. CASE Snapshot(c)
    <2> DEFINE dig == [p \in Pieces |-> IF p < pb[c].fsize THEN ent[n].hash[p] ELSE None]
    <2>1. dig \in DigestMap
      BY <1>0 DEF EntType, DigestMap
    <2>2. ent[n].id \in Stamps /\ Cardinality(Known(ent[n].hash)) \in Nat
      <3>1. IsFiniteSet(Pieces)
        <4>1. MaxSize - 1 \in Int
          BY Numbers
        <4> QED  BY <4>1, FS_Interval DEF Pieces
      <3>2. Known(ent[n].hash) \subseteq Pieces
        BY DEF Known
      <3> QED  BY <1>0, <3>1, <3>2, FS_Subset, FS_CardinalityType DEF EntType
    <2>3. pb' = [pb EXCEPT ![c] = [@ EXCEPT !.pc = "write", !.dig = dig, !.n = Cardinality(Known(ent[n].hash)), !.id = ent[n].id]]
          \/ pb' = [pb EXCEPT ![c] = IdlePub]
      BY <1>2 DEF Snapshot, Sampled
    <2>9. misdated' \subseteq Pieces \X Stamps
      BY <1>2 DEF Snapshot, Shapes, WriteType
    <2> HIDE DEF dig
    <2> DEFINE m == Cardinality(Known(ent[n].hash))
               j == ent[n].id
               new == [pb[c] EXCEPT !.pc = "write", !.dig = dig, !.n = m, !.id = j]
    <2>4. pb' = [pb EXCEPT ![c] = new] \/ pb' = [pb EXCEPT ![c] = IdlePub]
      BY <2>3
    <2>5. j \in Stamps /\ m \in Nat
      BY <2>2
    <2> HIDE DEF m, j
    <2>6. new \in PubType
      BY <1>0, <2>1, <2>5 DEF PubType
    <2> HIDE DEF new
    <2>7. pb' \in [Closers -> PubType]
      BY <2>4, <2>6, IdleShapes DEF Shapes
    <2>8. \A k \in Closers : pb'[k].pc # "idle" => pb'[k].fsize \in Sizes
      BY <1>0, <1>2 DEF Snapshot, Shapes, PubType, IdlePub
    <2> QED  BY <1>2, <2>7, <2>8, <2>9 DEF Snapshot, Shapes
  <1>3. CASE WriteBlob(c)
    <2>1. pb' \in [Closers -> PubType]
      BY <1>0, <1>3, IdleShapes, SMTT(30) DEF WriteBlob, Shapes, PubType
    <2>2. blob' \in BlobShape
      <3>1. blob' = blob \/ blob' = [size |-> pb[c].fsize, by |-> n, id |-> pb[c].id, dig |-> pb[c].dig, mtime |-> clock]
        BY <1>3 DEF WriteBlob
      <3>2. pb[c].fsize \in Sizes
        BY <1>3 DEF WriteBlob, Shapes
      <3> QED  BY <1>0, <3>1, <3>2 DEF Shapes, PubType, BlobShape
    <2>3. \A m \in Closers : pb'[m].pc # "idle" => pb'[m].fsize \in Sizes
      <3>1. pb' = [pb EXCEPT ![c].pc = "clear"] \/ pb' = [pb EXCEPT ![c] = IdlePub]
        BY <1>3 DEF WriteBlob
      <3>2. pb[c].pc = "write" /\ pb \in [Closers -> PubType] /\ \A m \in Closers : pb[m].pc # "idle" => pb[m].fsize \in Sizes
        BY <1>3 DEF WriteBlob, Shapes
      <3>3. \A m \in Closers \ {c} : pb'[m] = pb[m]
        BY <3>1, <3>2
      <3>4. pb'[c].fsize = pb[c].fsize \/ pb'[c] = IdlePub
        BY <3>1, <3>2 DEF PubType
      <3> QED  BY <3>2, <3>3, <3>4 DEF IdlePub
    <2> QED  BY <1>3, <2>1, <2>2, <2>3 DEF WriteBlob, Shapes
  <1>4. CASE ClearDirty(c)
    <2> DEFINE d == ent[n].dirty /\ ~(ent[n].dirty /\ Cardinality(Known(ent[n].hash)) = pb[c].n)
    <2>1. ent' = [ent EXCEPT ![n] = [@ EXCEPT !.dirty = d]] /\ d \in BOOLEAN
      BY <1>4 DEF ClearDirty
    <2> HIDE DEF d
    <2>2. ent' \in [Nodes -> EntType]
      BY <1>0, <2>1 DEF Shapes, EntType
    <2>3. pb' \in [Closers -> PubType]
      BY <1>4, IdleShapes DEF ClearDirty, Shapes
    <2>4. \A m \in Closers : pb'[m].pc # "idle" => pb'[m].fsize \in Sizes
      BY <1>0, <1>4 DEF ClearDirty, Shapes, IdlePub
    <2>5. unsure' \in BOOLEAN
      <3>1. CASE c \in crowded
        <4>1. unsure' = TRUE \/ unsure' = unsure
          BY <1>4, <3>1 DEF ClearDirty
        <4> QED  BY <4>1 DEF Shapes
      <3>2. CASE c \notin crowded
        <4>1. unsure' = (c \in crowded) \/ unsure' = unsure
          BY <1>4 DEF ClearDirty
        <4>2. (c \in crowded) = FALSE
          BY <3>2
        <4>3. unsure' = FALSE \/ unsure' = unsure
          BY <4>1, <4>2, Zenon
        <4> QED  BY <4>3 DEF Shapes
      <3> QED  BY <3>1, <3>2
    <2> QED  BY <1>4, <2>2, <2>3, <2>4, <2>5 DEF ClearDirty, Shapes
  <1> QED  BY <1>1, <1>2, <1>3, <1>4 DEF Publish

\* A step of a filler: its place is a fill, and holds a manifest where it should.
LEMMA FillStep ==
    ASSUME Shapes, NEW f \in Fillers, NEW j \in FillType, fl' = [fl EXCEPT ![f] = j],
           j.pc \in {"stat", "merge"} => j.seen \in BlobShape,
           UNCHANGED <<origin, blob, wr, op, pb>>, load' \in LoadShape, load'.writes = load.writes,
           ent' \in [Nodes -> EntType]
    PROVE  Shapes'
PROOF
  <1>1. fl' \in [Fillers -> FillType]
    BY DEF Shapes
  <1>2. \A g \in Fillers : fl'[g].pc \in {"stat", "merge"} => fl'[g].seen \in BlobShape
    BY DEF Shapes
  <1> QED  BY <1>1, <1>2 DEF Shapes

\* The place of a filler after each of its steps.
LEMMA FillPlaces ==
    ASSUME Shapes, NEW f \in Fillers, Fill(f)
    PROVE  \E j \in FillType : fl' = [fl EXCEPT ![f] = j] /\ (j.pc \in {"stat", "merge"} => j.seen \in BlobShape)
PROOF
  <1>0. fl[f] \in FillType /\ Entry(f) \in EntType /\ fl \in [Fillers -> FillType]
        /\ (fl[f].pc \in {"stat", "merge"} => fl[f].seen \in BlobShape)
    BY Numbers DEF Shapes
  <1>1. ASSUME NEW p \in Pieces, FillStart(f, p)
        PROVE  \E j \in FillType : fl' = [fl EXCEPT ![f] = j] /\ (j.pc \in {"stat", "merge"} => j.seen \in BlobShape)
    <2> DEFINE w == Entry(f).writes # 0
               j == [IdleFill EXCEPT !.pc = "claim", !.p = p, !.prefer = w]
    <2>1. fl' = [fl EXCEPT ![f] = j] /\ w \in BOOLEAN
      BY <1>1 DEF FillStart
    <2> HIDE DEF w
    <2>2. j \in FillType /\ j.pc = "claim"
      BY <2>1, IdleShapes DEF FillType, FillPcs
    <2> QED  BY <2>1, <2>2
  <1>2. CASE BeginFill(f)
    <2> DEFINE pc == IF fl[f].prefer THEN "origin" ELSE "ask"
               g == Entry(f).writes
               j == [fl[f] EXCEPT !.pc = pc, !.gen = g]
    <2>1. fl' = [fl EXCEPT ![f] = j] \/ fl' = [fl EXCEPT ![f] = IdleFill]
      BY <1>0, <1>2 DEF BeginFill
    <2>2. pc \in FillPcs \ {"stat", "merge"} /\ g \in Nat
      BY <1>0 DEF EntType, FillPcs
    <2> HIDE DEF pc, g
    <2>3. j \in FillType /\ j.pc = pc
      BY <1>0, <2>2 DEF FillType
    <2> QED  BY <2>1, <2>2, <2>3, IdleShapes DEF IdleFill
  <1>3. ASSUME TakeDigest(f)
        PROVE  \E j \in FillType : fl' = [fl EXCEPT ![f] = j] /\ (j.pc \in {"stat", "merge"} => j.seen \in BlobShape)
    <2> DEFINE h == Entry(f).hash[fl[f].p]
               pc == IF h = None THEN "origin" ELSE "peer"
               j == [fl[f] EXCEPT !.pc = pc, !.expect = h]
    <2>1. fl' = [fl EXCEPT ![f] = j]
      BY <1>0, <1>3 DEF TakeDigest, FillType
    <2>2. pc \in FillPcs \ {"stat", "merge"} /\ h \in Stamps \cup {None}
      BY <1>0 DEF EntType, DigestMap, FillType, FillPcs
    <2> HIDE DEF pc, h
    <2>3. j \in FillType /\ j.pc = pc
      BY <1>0, <2>2 DEF FillType
    <2> QED  BY <2>1, <2>2, <2>3
  <1>4. ASSUME NEW pc \in FillPcs, fl' = [fl EXCEPT ![f].pc = pc],
               pc \in {"stat", "merge"} => fl[f].seen \in BlobShape
        PROVE  \E j \in FillType : fl' = [fl EXCEPT ![f] = j] /\ (j.pc \in {"stat", "merge"} => j.seen \in BlobShape)
    <2> DEFINE j == [fl[f] EXCEPT !.pc = pc]
    <2>1. j \in FillType /\ j.pc = pc /\ j.seen = fl[f].seen
      BY <1>0, <1>4 DEF FillType
    <2> QED  BY <1>4, <2>1
  <1>5. CASE Expected(f)
    BY <1>3, <1>4, <1>5 DEF Expected, FillPcs
  <1>6. CASE LoadSample(f)
    <2> DEFINE g == Entry(f).writes
               j == [fl[f] EXCEPT !.pc = "read", !.gen0 = g]
    <2>1. fl' = [fl EXCEPT ![f] = j] /\ g \in Nat
      BY <1>0, <1>6 DEF LoadSample, EntType
    <2> HIDE DEF g
    <2>2. j \in FillType /\ j.pc = "read"
      BY <1>0, <2>1 DEF FillType, FillPcs
    <2> QED  BY <2>1, <2>2
  <1>7. CASE LoadRead(f)
    <2> DEFINE j == [fl[f] EXCEPT !.pc = "stat", !.seen = blob]
    <2>1. CASE fl' = [fl EXCEPT ![f] = j]
      <3>1. j \in FillType /\ j.seen = blob /\ blob \in BlobShape
        BY <1>0 DEF FillType, FillPcs, Shapes
      <3> QED  BY <2>1, <3>1
    <2>2. CASE fl' = [fl EXCEPT ![f].pc = "retry"]
      BY <1>4, <2>2 DEF FillPcs
    <2> QED  BY <1>0, <1>7, <2>1, <2>2 DEF LoadRead
  <1>8. CASE LoadStat(f)
    <2> DEFINE t == blob.mtime
               j == [fl[f] EXCEPT !.pc = "merge", !.mtime = t]
    <2>1. fl' = [fl EXCEPT ![f] = j] /\ t \in Stamps /\ fl[f].seen \in BlobShape
      BY <1>0, <1>8 DEF LoadStat, Shapes, BlobShape
    <2> HIDE DEF t
    <2>2. j \in FillType /\ j.seen = fl[f].seen
      BY <1>0, <2>1 DEF FillType, FillPcs
    <2> QED  BY <2>1, <2>2
  <1>9. CASE LoadRetry(f)
    <2> DEFINE j == [fl[f] EXCEPT !.pc = "unload", !.gen0 = 0]
    <2>1. fl' = [fl EXCEPT ![f] = j]
      BY <1>0, <1>9 DEF LoadRetry
    <2>2. j \in FillType /\ j.pc = "unload"
      BY <1>0 DEF FillType, FillPcs
    <2> QED  BY <2>1, <2>2
  <1>10. CASE LoadMerge(f)
    <2> DEFINE j == [fl[f] EXCEPT !.pc = "unload", !.seen = None, !.mtime = 0, !.gen0 = 0]
    <2>1. fl' = [fl EXCEPT ![f] = j]
      BY <1>0, <1>10 DEF LoadMerge
    <2>2. j \in FillType /\ j.pc = "unload"
      BY <1>0, Numbers DEF FillType, FillPcs
    <2> QED  BY <2>1, <2>2
  <1>11. CASE LoadEnd(f)
    BY <1>4, <1>11 DEF LoadEnd, FillPcs
  <1>12. CASE Lookup(f)
    BY <1>3, <1>12 DEF Lookup
  <1>13. CASE PeerFill(f)
    <2> DEFINE j(b) == [fl[f] EXCEPT !.pc = "done", !.buf = b, !.expect = None]
               k == [fl[f] EXCEPT !.pc = "origin", !.expect = None]
    <2>1. fl' = [fl EXCEPT ![f] = k] \/ \E b \in hist[fl[f].p] : fl' = [fl EXCEPT ![f] = j(b)]
      BY <1>0, <1>13 DEF PeerFill
    <2>2. hist[fl[f].p] \subseteq Stamps
      BY <1>0 DEF Shapes, FillType
    <2>3. k \in FillType /\ k.pc = "origin"
      BY <1>0, Numbers DEF FillType, FillPcs
    <2>4. \A b \in Stamps : j(b) \in FillType /\ j(b).pc = "done"
      BY <1>0, Numbers DEF FillType, FillPcs
    <2> HIDE DEF j, k
    <2>5. CASE fl' = [fl EXCEPT ![f] = k]
      BY <2>3, <2>5
    <2>6. ASSUME NEW b \in hist[fl[f].p], fl' = [fl EXCEPT ![f] = j(b)]
          PROVE  \E i \in FillType : fl' = [fl EXCEPT ![f] = i] /\ (i.pc \in {"stat", "merge"} => i.seen \in BlobShape)
      <3>1. j(b) \in FillType /\ j(b).pc = "done"
        BY <2>2, <2>4
      <3> QED  BY <2>6, <3>1
    <2> QED  BY <2>1, <2>5, <2>6
  <1>14. CASE OriginFill(f)
    <2> DEFINE b == odata[fl[f].p]
               j == [fl[f] EXCEPT !.pc = "done", !.buf = b]
    <2>1. fl' = [fl EXCEPT ![f] = j] \/ fl' = [fl EXCEPT ![f] = IdleFill]
      BY <1>0, <1>14 DEF OriginFill
    <2>2. b \in Stamps
      BY <1>0 DEF Shapes, FillType
    <2> HIDE DEF b
    <2>3. j \in FillType /\ j.pc = "done"
      BY <1>0, <2>2 DEF FillType, FillPcs
    <2> QED  BY <2>1, <2>3, IdleShapes DEF IdleFill
  <1>15. CASE CompleteFill(f)
    <2> DEFINE p == fl[f].p
               j == [IdleFill EXCEPT !.pc = "claim", !.p = p, !.prefer = TRUE, !.again = TRUE]
    <2>1. fl' = [fl EXCEPT ![f] = j] \/ fl' = [fl EXCEPT ![f] = IdleFill]
      BY <1>15 DEF CompleteFill
    <2>2. p \in Pieces
      BY <1>0 DEF FillType
    <2> HIDE DEF p
    <2>3. j \in FillType /\ j.pc = "claim"
      BY <2>2, IdleShapes DEF FillType, FillPcs
    <2> QED  BY <2>1, <2>3, IdleShapes DEF IdleFill
  <1> QED  BY <1>1, <1>2, <1>5, <1>6, <1>7, <1>8, <1>9, <1>10, <1>11, <1>12, <1>13, <1>14, <1>15 DEF Fill

\* A step that may drop marks and moves the flags of an entry, nothing else.
Quiet ==
    \A n \in Nodes :
      /\ ent'[n].size = ent[n].size /\ ent'[n].id = ent[n].id /\ ent'[n].writes = ent[n].writes
      /\ ent'[n].hash = ent[n].hash /\ ent'[n].dirty = ent[n].dirty /\ ent'[n].msize = ent[n].msize
      /\ \A p \in Pieces : ent'[n].cache[p] = ent[n].cache[p] \/ ent'[n].cache[p] = None

LEMMA QuietSteps ==
    ASSUME Shapes, NEW n \in Nodes, NEW b \in BOOLEAN, NEW S \in SUBSET Pieces, NEW q \in Pieces,
           \/ ent' = ent
           \/ ent' = [ent EXCEPT ![n].wait = b]
           \/ ent' = [ent EXCEPT ![n].loading = b]
           \/ ent' = [ent EXCEPT ![n].filling = S]
           \/ ent' = [ent EXCEPT ![n].cache[q] = None]
    PROVE  Quiet /\ ent' \in [Nodes -> EntType]
PROOF
  <1>0. ent \in [Nodes -> EntType] /\ ent[n] \in EntType
    BY DEF Shapes
  <1> DEFINE e == ent[n]
             d == ent'[n]
  <1>1. \/ ent' = ent
        \/ ent' = [ent EXCEPT ![n] = [e EXCEPT !.wait = b]]
        \/ ent' = [ent EXCEPT ![n] = [e EXCEPT !.loading = b]]
        \/ ent' = [ent EXCEPT ![n] = [e EXCEPT !.filling = S]]
        \/ ent' = [ent EXCEPT ![n] = [e EXCEPT !.cache[q] = None]]
    BY <1>0
  <1>2. (\A m \in Nodes \ {n} : ent'[m] = ent[m])
        /\ (d = e \/ d = [e EXCEPT !.wait = b] \/ d = [e EXCEPT !.loading = b] \/ d = [e EXCEPT !.filling = S]
            \/ d = [e EXCEPT !.cache[q] = None])
    BY <1>0, <1>1
  <1>3. d \in EntType
    <2>1. [e EXCEPT !.wait = b] \in EntType /\ [e EXCEPT !.loading = b] \in EntType
      BY <1>0 DEF EntType
    <2>2. [e EXCEPT !.filling = S] \in EntType
      BY <1>0 DEF EntType
    <2>3. [e.cache EXCEPT ![q] = None] \in Marks
      BY <1>0 DEF EntType, Marks
    <2>4. [e EXCEPT !.cache[q] = None] \in EntType
      BY <1>0, <2>3 DEF EntType
    <2> QED  BY <1>0, <1>2, <2>1, <2>2, <2>4
  <1>4. ent' \in [Nodes -> EntType]
    BY <1>0, <1>1, <1>3
  <1>5. /\ d.size = e.size /\ d.id = e.id /\ d.writes = e.writes
        /\ d.hash = e.hash /\ d.dirty = e.dirty /\ d.msize = e.msize
        /\ \A p \in Pieces : d.cache[p] = e.cache[p] \/ d.cache[p] = None
    BY <1>0, <1>2 DEF EntType, Marks
  <1> QED  BY <1>2, <1>4, <1>5 DEF Quiet

\* What fills do to entries: only a merge and a completed fill say anything new.
LEMMA FillEntries ==
    ASSUME Shapes, NEW f \in Fillers, Fill(f)
    PROVE  /\ ent' \in [Nodes -> EntType]
           /\ LoadMerge(f) \/ CompleteFill(f) \/ Quiet
PROOF
  <1>0. fl[f] \in FillType /\ Entry(f) \in EntType /\ Home[f] \in Nodes /\ 0 \in Pieces
    BY Numbers DEF Shapes
  <1>1. ASSUME ent' = ent PROVE ent' \in [Nodes -> EntType] /\ Quiet
    BY <1>0, <1>1, QuietSteps
  <1>2. CASE LoadMerge(f)
    <2> DEFINE e == Entry(f)
               m == fl[f].seen
               h == [p \in Pieces |-> IF e.hash[p] # None THEN e.hash[p] ELSE m.dig[p]]
    <2>1. m \in BlobShape
      BY <1>2 DEF LoadMerge, Shapes
    <2>2. h \in DigestMap
      BY <1>0, <2>1 DEF EntType, BlobShape, DigestMap
    <2>3. Merged(f) \in {e, [e EXCEPT !.msize = e.size], [e EXCEPT !.wait = TRUE], [e EXCEPT !.msize = e.size, !.hash = h]}
      BY <1>0 DEF Merged, EntType
    <2> HIDE DEF h, m
    <2>4. Merged(f) \in EntType
      BY <1>0, <2>2, <2>3 DEF EntType
    <2> QED  BY <1>0, <1>2, <2>4 DEF LoadMerge, Shapes
  <1>3. CASE CompleteFill(f)
    <2> DEFINE p == fl[f].p
               S == Entry(f).filling \ {p}
               b == fl[f].buf
               e == [Entry(f) EXCEPT !.filling = S]
               d == [e EXCEPT !.cache[p] = b, !.hash[p] = b, !.dirty = TRUE]
    <2>1. ent' = [ent EXCEPT ![Home[f]] = IF StillWanted(f) THEN d ELSE e]
      BY <1>3 DEF CompleteFill
    <2>2. S \in SUBSET Pieces /\ p \in Pieces /\ b \in Stamps
      BY <1>0 DEF EntType, FillType
    <2> HIDE DEF S, p, b
    <2>3. e \in EntType
      BY <1>0, <2>2 DEF EntType
    <2>4. [e.cache EXCEPT ![p] = b] \in Marks /\ [e.hash EXCEPT ![p] = b] \in DigestMap
      BY <2>2, <2>3 DEF EntType, Marks, DigestMap
    <2> HIDE DEF e
    <2>5. d \in EntType
      BY <2>3, <2>4 DEF EntType
    <2> HIDE DEF d
    <2> QED  BY <1>0, <2>1, <2>3, <2>5, <1>3 DEF Shapes
  <1>4. CASE BeginFill(f) \/ OriginFill(f)
    <2>1. ent' = ent \/ \E S \in SUBSET Pieces : ent' = [ent EXCEPT ![Home[f]].filling = S]
      <3>1. fl[f].p \in Pieces /\ ent[Home[f]].filling \subseteq Pieces /\ ent \in [Nodes -> EntType]
        BY <1>0 DEF FillType, EntType, Entry, Shapes
      <3>2. /\ ent[Home[f]].filling \cup {fl[f].p} \in SUBSET Pieces
            /\ ent[Home[f]].filling \ {fl[f].p} \in SUBSET Pieces
        BY <3>1
      <3>3. \/ ent' = ent
            \/ ent' = [ent EXCEPT ![Home[f]].filling = ent[Home[f]].filling \cup {fl[f].p}]
            \/ ent' = [ent EXCEPT ![Home[f]].filling = ent[Home[f]].filling \ {fl[f].p}]
        BY <1>4 DEF BeginFill, OriginFill
      <3> QED  BY <3>2, <3>3
    <2> QED  BY <1>0, <1>1, <2>1, QuietSteps
  <1>5. CASE Expected(f)
    <2>1. ent' = ent \/ \E b \in BOOLEAN : ent' = [ent EXCEPT ![Home[f]].loading = b]
      <3> DEFINE b == Entry(f).loading \/ (~Entry(f).wait /\ ~Entry(f).loading)
      <3>1. ent' = ent \/ ent' = [ent EXCEPT ![Home[f]].loading = b]
        BY <1>0, <1>5 DEF Expected, Shapes
      <3>2. b \in BOOLEAN
        BY DEF Expected
      <3> HIDE DEF b
      <3> QED  BY <3>1, <3>2
    <2> QED  BY <1>0, <1>1, <2>1, QuietSteps
  <1>6. CASE LoadRetry(f)
    <2>1. ent' = [ent EXCEPT ![Home[f]].wait = TRUE]
      BY <1>6 DEF LoadRetry
    <2> QED  BY <1>0, <2>1, QuietSteps
  <1>7. CASE LoadEnd(f)
    <2>1. ent' = [ent EXCEPT ![Home[f]].loading = FALSE]
      BY <1>7 DEF LoadEnd
    <2> QED  BY <1>0, <2>1, QuietSteps
  <1>8. CASE (\E p \in Pieces : FillStart(f, p)) \/ LoadSample(f) \/ LoadRead(f) \/ LoadStat(f) \/ Lookup(f) \/ PeerFill(f)
    BY <1>1, <1>8 DEF FillStart, LoadSample, LoadRead, LoadStat, Lookup, PeerFill
  <1> QED  BY <1>2, <1>3, <1>4, <1>5, <1>6, <1>7, <1>8 DEF Fill

\* What no fill changes.
LEMMA FillFrame ==
    ASSUME Shapes, NEW f \in Fillers, Fill(f)
    PROVE  UNCHANGED <<origin, blob, wr, op, pb>> /\ load' \in LoadShape /\ load'.writes = load.writes
PROOF
  <1>1. UNCHANGED <<origin, blob, wr, op, pb>>
    BY DEF Fill, FillStart, BeginFill, Expected, LoadSample, LoadRead, LoadStat, LoadRetry, LoadMerge, LoadEnd,
           Lookup, PeerFill, OriginFill, CompleteFill
  <1>2. load' = load \/ (load.fills[Home[f]] > 0 /\ load' = [load EXCEPT !.fills[Home[f]] = @ - 1])
    BY DEF Fill, FillStart, BeginFill, Expected, LoadSample, LoadRead, LoadStat, LoadRetry, LoadMerge, LoadEnd,
           Lookup, PeerFill, OriginFill, CompleteFill
  <1>3. load' \in LoadShape
    <2>1. load \in LoadShape /\ Home[f] \in Nodes
      BY Numbers DEF Shapes
    <2>2. load.fills[Home[f]] > 0 => [load EXCEPT !.fills[Home[f]] = @ - 1] \in LoadShape
      BY <2>1, LoadLeft
    <2> QED  BY <1>2, <2>1, <2>2
  <1>4. load'.writes = load.writes
    BY <1>2 DEF Shapes, LoadShape
  <1> QED  BY <1>1, <1>3, <1>4

LEMMA ShapesDrop ==
    ASSUME Shapes, NEW n \in Nodes, NEW p \in Pieces, DropMark(n, p) \/ RetryDue(n)
    PROVE  Shapes' /\ Quiet
PROOF
  <1>1. ent' = [ent EXCEPT ![n].cache[p] = None] \/ ent' = [ent EXCEPT ![n].wait = FALSE]
    BY DEF DropMark, RetryDue
  <1>2. ent' \in [Nodes -> EntType] /\ Quiet
    BY <1>1, QuietSteps
  <1>3. load' = load \/ (load.drops > 0 /\ load' = [load EXCEPT !.drops = @ - 1])
    BY DEF DropMark, RetryDue
  <1>4. load' \in LoadShape
    BY <1>3, LoadLeft DEF Shapes
  <1>5. load'.writes = load.writes
    BY <1>3 DEF Shapes, LoadShape
  <1>6. UNCHANGED <<origin, blob, wr, op, fl, pb>>
    BY DEF DropMark, RetryDue
  <1> QED  BY <1>2, <1>4, <1>5, <1>6 DEF Shapes

LEMMA StepShapes == Shapes /\ [Next]_vars => Shapes'
PROOF
  <1> SUFFICES ASSUME Shapes, [Next]_vars PROVE Shapes'
    OBVIOUS
  <1>1. ASSUME NEW f \in Fillers, Fill(f) PROVE Shapes'
    <2>1. PICK j \in FillType : fl' = [fl EXCEPT ![f] = j] /\ (j.pc \in {"stat", "merge"} => j.seen \in BlobShape)
      BY <1>1, FillPlaces
    <2> QED  BY <1>1, <2>1, FillEntries, FillFrame, FillStep
  <1>2. CASE UNCHANGED vars
    BY <1>2 DEF vars, Shapes
  <1> QED  BY <1>1, <1>2, ShapesOpen, ShapesWrite, ShapesPublish, ShapesDrop, Numbers DEF Next

-----------------------------------------------------------------------------
(* What a step of a filler says.                                             *)

\* Where a filler's first steps and its failures leave it.
LEMMA FillRestarts ==
    ASSUME Shapes, NEW f \in Fillers,
           \/ \E p \in Pieces : FillStart(f, p)
           \/ BeginFill(f)
           \/ CompleteFill(f)
    PROVE  fl'[f].pc \in {"idle", "claim", "origin", "ask"} /\ fl'[f].gen \in {0, Entry(f).writes}
PROOF
  <1>0. fl[f] \in FillType /\ fl \in [Fillers -> FillType]
    BY DEF Shapes
  <1>1. ASSUME NEW p \in Pieces, FillStart(f, p)
        PROVE  fl'[f].pc \in {"idle", "claim", "origin", "ask"} /\ fl'[f].gen \in {0, Entry(f).writes}
    <2> DEFINE w == Entry(f).writes # 0
    <2>1. fl'[f] = [IdleFill EXCEPT !.pc = "claim", !.p = p, !.prefer = w]
      BY <1>0, <1>1 DEF FillStart
    <2> HIDE DEF w
    <2> QED  BY <2>1 DEF IdleFill
  <1>2. CASE BeginFill(f)
    <2> DEFINE pc == IF fl[f].prefer THEN "origin" ELSE "ask"
               g == Entry(f).writes
    <2>1. fl'[f] = IdleFill \/ fl'[f] = [fl[f] EXCEPT !.pc = pc, !.gen = g]
      BY <1>0, <1>2 DEF BeginFill
    <2>2. pc \in {"origin", "ask"} /\ IdleFill.pc = "idle" /\ IdleFill.gen = 0
      BY DEF IdleFill
    <2> HIDE DEF pc, g
    <2>3. [fl[f] EXCEPT !.pc = pc, !.gen = g].pc = pc /\ [fl[f] EXCEPT !.pc = pc, !.gen = g].gen = g
      BY <1>0 DEF FillType
    <2>4. fl'[f].pc \in {"idle", pc} /\ fl'[f].gen \in {0, g}
      BY <2>1, <2>2, <2>3
    <2> QED  BY <2>2, <2>4 DEF g
  <1>3. CASE CompleteFill(f)
    BY <1>0, <1>3 DEF CompleteFill, IdleFill
  <1> QED  BY <1>1, <1>2, <1>3

\* Where a look at the peers leaves it.
LEMMA PeerLeaves ==
    ASSUME Shapes, NEW f \in Fillers, PeerFill(f)
    PROVE  /\ fl'[f].p = fl[f].p /\ fl'[f].gen = fl[f].gen /\ fl'[f].pc \in {"origin", "done"}
           /\ fl'[f].pc = "done" => fl[f].pc = "peer" /\ fl'[f].buf = fl[f].expect
PROOF
  <1>0. fl[f] \in FillType /\ fl \in [Fillers -> FillType] /\ fl[f].pc = "peer"
    BY DEF Shapes, PeerFill
  <1>1. CASE fl'[f] = [fl[f] EXCEPT !.pc = "origin", !.expect = None]
    BY <1>0, <1>1 DEF FillType
  <1>2. CASE \E b \in hist[fl[f].p] : b = fl[f].expect /\ fl'[f] = [fl[f] EXCEPT !.pc = "done", !.buf = b, !.expect = None]
    BY <1>0, <1>2 DEF FillType
  <1>3. \/ fl'[f] = [fl[f] EXCEPT !.pc = "origin", !.expect = None]
        \/ \E b \in hist[fl[f].p] : b = fl[f].expect /\ fl'[f] = [fl[f] EXCEPT !.pc = "done", !.buf = b, !.expect = None]
    BY <1>0 DEF PeerFill
  <1> QED  BY <1>1, <1>2, <1>3

\* The manifest a load holds is the one it read.
LEMMA FillSeen ==
    ASSUME Shapes, NEW f \in Fillers, Fill(f), fl'[f].pc \in {"stat", "merge"}
    PROVE  fl'[f].seen = blob \/ (Loading(f) /\ fl'[f].seen = fl[f].seen)
PROOF
  <1>0. fl[f] \in FillType /\ fl \in [Fillers -> FillType]
    BY DEF Shapes
  <1>1. CASE LoadRead(f)
    BY <1>0, <1>1 DEF LoadRead, FillType
  <1>2. CASE LoadStat(f)
    BY <1>0, <1>2 DEF LoadStat, FillType
  <1>3. CASE (\E p \in Pieces : FillStart(f, p)) \/ BeginFill(f) \/ CompleteFill(f)
    BY <1>3, FillRestarts
  <1>4. CASE Expected(f) \/ LoadSample(f) \/ LoadRetry(f) \/ LoadMerge(f)
    BY <1>0, <1>4 DEF Expected, TakeDigest, LoadSample, LoadRetry, LoadMerge, FillType
  <1>5. CASE LoadEnd(f) \/ Lookup(f) \/ OriginFill(f)
    BY <1>0, <1>5 DEF LoadEnd, Lookup, TakeDigest, OriginFill, FillType, IdleFill
  <1>6. CASE PeerFill(f)
    BY <1>6, PeerLeaves
  <1> QED  BY <1>1, <1>2, <1>3, <1>4, <1>5, <1>6 DEF Fill

\* A claim's generation is of when it was made.
LEMMA FillGen ==
    ASSUME Shapes, NEW f \in Fillers, Fill(f)
    PROVE  fl'[f].gen \in {0, fl[f].gen, Entry(f).writes}
PROOF
  <1>0. fl[f] \in FillType /\ fl \in [Fillers -> FillType]
    BY DEF Shapes
  <1>1. CASE (\E p \in Pieces : FillStart(f, p)) \/ BeginFill(f) \/ CompleteFill(f)
    BY <1>1, FillRestarts
  <1>2. CASE Expected(f) \/ LoadSample(f) \/ LoadRead(f) \/ LoadStat(f) \/ LoadRetry(f) \/ LoadMerge(f)
    BY <1>0, <1>2 DEF Expected, TakeDigest, LoadSample, LoadRead, LoadStat, LoadRetry, LoadMerge, FillType
  <1>3. CASE LoadEnd(f) \/ Lookup(f) \/ OriginFill(f)
    BY <1>0, <1>3 DEF LoadEnd, Lookup, TakeDigest, OriginFill, FillType, IdleFill
  <1>4. CASE PeerFill(f)
    BY <1>4, PeerLeaves
  <1> QED  BY <1>1, <1>2, <1>3, <1>4 DEF Fill

\* A peer's bytes are held to the entry's digest; what completes a fill is the
\* origin's piece, or a content that met that digest.
LEMMA FillSays ==
    ASSUME Shapes, NEW f \in Fillers, Fill(f), fl'[f].pc \in {"peer", "done"}
    PROVE  /\ fl'[f].p = fl[f].p /\ fl'[f].gen = fl[f].gen /\ Quiet
           /\ fl'[f].pc = "peer" => fl'[f].expect = Entry(f).hash[fl[f].p] /\ fl'[f].expect # None
           /\ fl'[f].pc = "done" => \/ fl'[f].buf = odata[fl[f].p]
                                    \/ fl[f].pc = "peer" /\ fl'[f].buf = fl[f].expect
PROOF
  <1>0. fl[f] \in FillType /\ fl \in [Fillers -> FillType]
    BY DEF Shapes
  <1>1. CASE (\E p \in Pieces : FillStart(f, p)) \/ BeginFill(f) \/ CompleteFill(f)
    BY <1>1, FillRestarts
  <1>2. CASE LoadSample(f) \/ LoadRead(f) \/ LoadStat(f) \/ LoadRetry(f) \/ LoadMerge(f) \/ LoadEnd(f)
    BY <1>0, <1>2 DEF LoadSample, LoadRead, LoadStat, LoadRetry, LoadMerge, LoadEnd, FillType
  <1>4. CASE Expected(f) \/ Lookup(f)
    <2>1. TakeDigest(f)
      BY <1>0, <1>4 DEF Expected, Lookup, FillType
    <2>2. /\ fl'[f].p = fl[f].p /\ fl'[f].gen = fl[f].gen /\ fl'[f].pc # "done"
          /\ fl'[f].pc = "peer" => fl'[f].expect = Entry(f).hash[fl[f].p] /\ fl'[f].expect # None
      BY <1>0, <2>1 DEF TakeDigest, FillType
    <2> QED  BY <1>4, <2>2, FillEntries DEF Fill, Expected, Lookup, LoadMerge, CompleteFill
  <1>5. CASE PeerFill(f)
    <2>1. /\ fl'[f].p = fl[f].p /\ fl'[f].gen = fl[f].gen /\ fl'[f].pc # "peer"
          /\ fl'[f].pc = "done" => fl[f].pc = "peer" /\ fl'[f].buf = fl[f].expect
      BY <1>5, PeerLeaves
    <2> QED  BY <1>5, <2>1, FillEntries DEF Fill, PeerFill, LoadMerge, CompleteFill
  <1>6. CASE OriginFill(f)
    <2>1. /\ fl'[f].pc # "peer"
          /\ fl'[f].pc = "done" => fl'[f].p = fl[f].p /\ fl'[f].gen = fl[f].gen /\ fl'[f].buf = odata[fl[f].p]
      BY <1>0, <1>6 DEF OriginFill, FillType, IdleFill
    <2> QED  BY <1>6, <2>1, FillEntries DEF Fill, OriginFill, LoadMerge, CompleteFill
  <1> QED  BY <1>1, <1>2, <1>4, <1>5, <1>6 DEF Fill

\* A merge fills gaps with digests of the entry's own object and size.
LEMMA MergeEffect ==
    ASSUME Shapes, NEW f \in Fillers, LoadMerge(f)
    PROVE  /\ \A n \in Nodes \ {Home[f]} : ent'[n] = ent[n]
           /\ Entry(f)'.size = Entry(f).size /\ Entry(f)'.id = Entry(f).id /\ Entry(f)'.writes = Entry(f).writes
           /\ Entry(f)'.cache = Entry(f).cache /\ Entry(f)'.dirty = Entry(f).dirty
           /\ \A p \in Pieces : \/ Entry(f)'.hash[p] = Entry(f).hash[p]
                                \/ /\ Entry(f).hash[p] = None /\ Entry(f)'.hash[p] = fl[f].seen.dig[p]
                                   /\ fl[f].seen.id = Entry(f).id /\ fl[f].seen.size = Entry(f).size
           /\ (Entry(f)'.msize = Entry(f).msize /\ Entry(f)'.hash = Entry(f).hash) \/ Entry(f)'.msize # None
PROOF
  <1> DEFINE e == Entry(f)
             d == Merged(f)
             h == [p \in Pieces |-> IF e.hash[p] # None THEN e.hash[p] ELSE fl[f].seen.dig[p]]
  <1>0. e \in EntType /\ Home[f] \in Nodes /\ ent \in [Nodes -> EntType] /\ e.size # None
    BY Numbers DEF Shapes, EntType
  <1>1. ent' = [ent EXCEPT ![Home[f]] = d] /\ Entry(f)' = d
    BY <1>0 DEF LoadMerge
  <1>2. \/ d = e \/ d = [e EXCEPT !.msize = e.size] \/ d = [e EXCEPT !.wait = TRUE]
        \/ d = [e EXCEPT !.msize = e.size, !.hash = h] /\ fl[f].seen.id = e.id /\ fl[f].seen.size = e.size
    BY <1>0 DEF Merged, SameObject, EntType
  <1>3. \A p \in Pieces : h[p] = e.hash[p] \/ (e.hash[p] = None /\ h[p] = fl[f].seen.dig[p])
    OBVIOUS
  <1> HIDE DEF h, d
  <1>4. /\ d.size = e.size /\ d.id = e.id /\ d.writes = e.writes /\ d.cache = e.cache /\ d.dirty = e.dirty
        /\ d.hash = e.hash \/ (d.hash = h /\ fl[f].seen.id = e.id /\ fl[f].seen.size = e.size)
        /\ (d.msize = e.msize /\ d.hash = e.hash) \/ d.msize = e.size
    BY <1>0, <1>2 DEF EntType
  <1> QED  BY <1>0, <1>1, <1>3, <1>4

\* A fill that is still wanted records its content and its digest.
LEMMA CompleteEffect ==
    ASSUME Shapes, NEW f \in Fillers, CompleteFill(f)
    PROVE  /\ \A n \in Nodes \ {Home[f]} : ent'[n] = ent[n]
           /\ Entry(f)'.size = Entry(f).size /\ Entry(f)'.id = Entry(f).id /\ Entry(f)'.writes = Entry(f).writes
           /\ Entry(f)'.msize = Entry(f).msize
           /\ \A p \in Pieces \ {fl[f].p} : Entry(f)'.cache[p] = Entry(f).cache[p] /\ Entry(f)'.hash[p] = Entry(f).hash[p]
           /\ \/ Entry(f)'.cache = Entry(f).cache /\ Entry(f)'.hash = Entry(f).hash /\ Entry(f)'.dirty = Entry(f).dirty
              \/ /\ fl[f].pc = "done" /\ fl[f].gen = Entry(f).writes /\ fl[f].p < Entry(f).size /\ Entry(f)'.dirty
                 /\ Entry(f)'.cache[fl[f].p] = fl[f].buf /\ Entry(f)'.hash[fl[f].p] = fl[f].buf
PROOF
  <1> DEFINE e == Entry(f)
             p == fl[f].p
             b == fl[f].buf
             S == e.filling \ {p}
             d == [e EXCEPT !.filling = S, !.cache[p] = b, !.hash[p] = b, !.dirty = TRUE]
             k == [e EXCEPT !.filling = S]
  <1>0. e \in EntType /\ Home[f] \in Nodes /\ ent \in [Nodes -> EntType] /\ fl[f].pc = "done"
    BY Numbers DEF Shapes, CompleteFill
  <1>1. /\ ent' = [ent EXCEPT ![Home[f]] = IF StillWanted(f) THEN d ELSE k]
        /\ StillWanted(f) => fl[f].gen = e.writes /\ p < e.size
    BY DEF CompleteFill, StillWanted
  <1>2. (\A n \in Nodes \ {Home[f]} : ent'[n] = ent[n]) /\ Entry(f)' = IF StillWanted(f) THEN d ELSE k
    BY <1>0, <1>1
  <1>3. p \in Pieces
    BY DEF Shapes, FillType
  <1> HIDE DEF S, p, b
  <1>4. /\ d.size = e.size /\ d.id = e.id /\ d.writes = e.writes /\ d.msize = e.msize /\ d.dirty
        /\ \A q \in Pieces \ {p} : d.cache[q] = e.cache[q] /\ d.hash[q] = e.hash[q]
        /\ d.cache[p] = b /\ d.hash[p] = b
    BY <1>0, <1>3 DEF EntType, Marks, DigestMap
  <1>5. /\ k.size = e.size /\ k.id = e.id /\ k.writes = e.writes /\ k.msize = e.msize
        /\ k.cache = e.cache /\ k.hash = e.hash /\ k.dirty = e.dirty
    BY <1>0 DEF EntType
  <1> HIDE DEF d, k
  <1>6. CASE StillWanted(f)
    <2>1. Entry(f)' = d
      BY <1>2, <1>6
    <2> QED  BY <1>0, <1>1, <1>2, <1>4, <1>6, <2>1 DEF p, b
  <1>7. CASE ~StillWanted(f)
    <2>1. Entry(f)' = k
      BY <1>2, <1>7
    <2> QED  BY <1>2, <1>5, <2>1 DEF p, b
  <1> QED  BY <1>6, <1>7

-----------------------------------------------------------------------------
(* What the other steps do to an entry.                                      *)

\* Nothing is left of what the entry knew.
Wiped(n) ==
    /\ ent'[n].cache = NoDigests /\ ent'[n].hash = NoDigests /\ ent'[n].msize = None /\ ent'[n].dirty
    /\ ent'[n].writes = ent[n].writes + 1

Kept(n) ==
    /\ ent'[n].cache = ent[n].cache /\ ent'[n].hash = ent[n].hash /\ ent'[n].msize = ent[n].msize
    /\ ent'[n].dirty = ent[n].dirty /\ ent'[n].writes = ent[n].writes

\* An entry in line with a stat, or wiped and brought in line with it.
LEMMA ReconcileEffect ==
    ASSUME Shapes, NEW n \in Nodes, NEW size \in Sizes, NEW id \in Stamps,
           ent' = [ent EXCEPT ![n] = Reconcile(@, size, id)]
    PROVE  /\ \A m \in Nodes \ {n} : ent'[m] = ent[m]
           /\ \/ ent'[n] = ent[n] /\ ent[n].size = size /\ id <= ent[n].id
              \/ /\ Wiped(n) /\ ent'[n].size = size /\ ent'[n].id = id
                 /\ ent[n].size # size \/ id > ent[n].id
PROOF
  <1> DEFINE e == ent[n]
             c == ClearHashes(e)
             w == c.writes + 1
             d == [c EXCEPT !.size = size, !.id = id, !.cache = NoDigests, !.writes = w]
  <1>0. e \in EntType /\ c \in EntType /\ c = [e EXCEPT !.hash = NoDigests, !.msize = None, !.wait = FALSE, !.dirty = TRUE]
    BY ClearedShape DEF Shapes
  <1>1. ent'[n] = Reconcile(e, size, id) /\ \A m \in Nodes \ {n} : ent'[m] = ent[m]
    BY DEF Shapes
  <1>2. e.id \in Nat /\ id \in Nat
    BY <1>0, Numbers DEF EntType
  <1>3. \/ ent'[n] = e /\ e.size = size /\ ~(id > e.id)
        \/ ent'[n] = d /\ (e.size # size \/ id > e.id)
    BY <1>1 DEF Reconcile, ContentChanged
  <1>4. c.hash = NoDigests /\ c.msize = None /\ c.dirty = TRUE /\ w = e.writes + 1
    BY <1>0 DEF EntType
  <1> HIDE DEF c, w
  <1>5. /\ d.size = size /\ d.id = id /\ d.cache = NoDigests /\ d.writes = w
        /\ d.hash = c.hash /\ d.msize = c.msize /\ d.dirty = c.dirty
    BY <1>0 DEF EntType
  <1> HIDE DEF d
  <1>6. CASE ent'[n] = d /\ (e.size # size \/ id > e.id)
    BY <1>1, <1>4, <1>5, <1>6 DEF Wiped
  <1> QED  BY <1>1, <1>2, <1>3, <1>6

\* The writer's entry after a write that ended the file.
LEMMA CacheFillEffect ==
    ASSUME Shapes, CacheFill
    PROVE  /\ \A m \in Nodes \ {Writer} : ent'[m] = ent[m]
           /\ ent'[Writer].size = osize
           /\ ent'[Writer].id = IF Mine.id < clock THEN clock ELSE Mine.id
           /\ Wiped(Writer) \/ (Kept(Writer) /\ Mine.size <= osize)
PROOF
  <1> DEFINE k == ClearHashes(Mine)
             w == k.writes + 1
             c == IF osize < Mine.size
                    THEN [k EXCEPT !.cache = NoDigests, !.writes = w, !.size = osize]
                    ELSE [Mine EXCEPT !.size = osize]
             i == IF ContentChanged(c.id, clock) THEN clock ELSE c.id
             d == [c EXCEPT !.id = i]
  <1>0. /\ Mine \in EntType /\ k \in EntType /\ k = [Mine EXCEPT !.hash = NoDigests, !.msize = None, !.wait = FALSE, !.dirty = TRUE]
    BY ClearedShape, Numbers DEF Shapes
  <1>7. Mine.size \in Nat /\ osize \in Nat /\ Mine.id \in Nat /\ clock \in Nat
    <2>1. Mine.size \in Sizes /\ Mine.id \in Stamps /\ osize \in Sizes /\ clock \in Nat
      BY <1>0 DEF EntType, Shapes
    <2> QED  BY <2>1, Numbers
  <1>1. ent' = [ent EXCEPT ![Writer] = d]
    BY DEF CacheFill
  <1>2. k.hash = NoDigests /\ k.msize = None /\ k.dirty = TRUE /\ w = Mine.writes + 1 /\ k.id = Mine.id
    BY <1>0 DEF EntType
  <1> HIDE DEF k, w
  <1>3. DOMAIN c = DOMAIN Mine /\ c.size = osize /\ c.id = Mine.id
        /\ \/ /\ osize >= Mine.size /\ c.cache = Mine.cache /\ c.hash = Mine.hash /\ c.msize = Mine.msize
              /\ c.dirty = Mine.dirty /\ c.writes = Mine.writes
           \/ c.cache = NoDigests /\ c.hash = NoDigests /\ c.msize = None /\ c.dirty /\ c.writes = Mine.writes + 1
    <2>1. CASE osize < Mine.size
      <3>1. c = [k EXCEPT !.cache = NoDigests, !.writes = w, !.size = osize]
        BY <2>1
      <3> HIDE DEF c
      <3> QED  BY <1>0, <1>2, <3>1 DEF EntType
    <2>2. CASE ~(osize < Mine.size)
      <3>1. c = [Mine EXCEPT !.size = osize]
        BY <2>2
      <3> HIDE DEF c
      <3> QED  BY <1>0, <1>7, <2>2, <3>1 DEF EntType
    <2> QED  BY <2>1, <2>2
  <1>4. i = IF Mine.id < clock THEN clock ELSE Mine.id
    BY <1>3, <1>7 DEF ContentChanged
  <1> HIDE DEF c, i
  <1>5. /\ d.size = c.size /\ d.id = i /\ d.cache = c.cache /\ d.hash = c.hash /\ d.msize = c.msize
        /\ d.dirty = c.dirty /\ d.writes = c.writes
    BY <1>0, <1>3 DEF EntType
  <1> HIDE DEF d
  <1>6. ent'[Writer] = d /\ \A m \in Nodes \ {Writer} : ent'[m] = ent[m]
    BY <1>1, Numbers DEF Shapes
  <1> QED  BY <1>0, <1>3, <1>4, <1>5, <1>6 DEF Wiped, Kept

\* The writer's entry after a copy: the piece written, and no other, changes.
LEMMA CopyEffect ==
    ASSUME Shapes, CopyIntoCache
    PROVE  /\ \A m \in Nodes \ {Writer} : ent'[m] = ent[m]
           /\ ent'[Writer].size = Mine.size /\ ent'[Writer].id = Mine.id /\ ent'[Writer].msize = Mine.msize
           /\ ent'[Writer].writes = Mine.writes + 1
           /\ \A q \in Pieces \ {wr.p} : ent'[Writer].cache[q] = Mine.cache[q] /\ ent'[Writer].hash[q] = Mine.hash[q]
           /\ \/ ent'[Writer].cache[wr.p] \in {None, clock} /\ ent'[Writer].hash[wr.p] = clock /\ ent'[Writer].dirty
              \/ /\ ent'[Writer].hash[wr.p] = None /\ Mine.cache[wr.p] # None
                 /\ Mine.dirty \/ Mine.hash[wr.p] # None => ent'[Writer].dirty
                 /\ ent'[Writer].cache[wr.p] =
                        IF Mine.cache[wr.p] \in {wr.before, clock} THEN clock ELSE Torn
              \/ /\ ent'[Writer].hash[wr.p] = None /\ ent'[Writer].cache[wr.p] = None
                 /\ Mine.dirty \/ Mine.hash[wr.p] # None => ent'[Writer].dirty
PROOF
  <1> DEFINE e == Mine
             p == wr.p
             W(c, h, d) == [e EXCEPT !.writes = @ + 1, !.cache = [e.cache EXCEPT ![p] = c],
                              !.hash = [e.hash EXCEPT ![p] = h], !.dirty = d]
             dd == e.dirty \/ e.hash[p] # None
             on == TRUE
             c1 == IF p < e.size THEN clock ELSE None
             c2 == IF e.cache[p] = None THEN None ELSE IF e.cache[p] \in {wr.before, clock} THEN clock ELSE Torn
  <1>0. e \in EntType /\ p \in Pieces
    BY Numbers DEF Shapes, WriteType
  <1>1. PICK d : d \in {Copied(e, p), NotCopied(e, p)} /\ ent' = [ent EXCEPT ![Writer] = d]
    BY DEF CopyIntoCache
  <1>2. NotCopied(e, p) = W(None, None, dd)
    BY <1>0 DEF NotCopied, EntType
  <1>3. wr.whole => Copied(e, p) = W(c1, clock, on)
    BY <1>0 DEF Copied, EntType
  <1>4. ~wr.whole => Copied(e, p) = W(c2, None, dd)
    BY <1>0 DEF Copied, EntType, Marks
  <1>5. ASSUME NEW c, NEW h, NEW b
        PROVE  /\ W(c, h, b).size = e.size /\ W(c, h, b).id = e.id /\ W(c, h, b).msize = e.msize
               /\ W(c, h, b).writes = e.writes + 1 /\ W(c, h, b).dirty = b
               /\ W(c, h, b).cache[p] = c /\ W(c, h, b).hash[p] = h
               /\ \A q \in Pieces \ {p} : W(c, h, b).cache[q] = e.cache[q] /\ W(c, h, b).hash[q] = e.hash[q]
    BY <1>0 DEF EntType, Marks, DigestMap
  <1>6. d = W(None, None, dd) \/ d = W(c1, clock, on) \/ d = W(c2, None, dd)
    BY <1>1, <1>2, <1>3, <1>4
  <1>7. /\ c1 \in {None, clock}
        /\ c2 = None \/ (e.cache[p] # None /\ c2 = IF e.cache[p] \in {wr.before, clock} THEN clock ELSE Torn)
    OBVIOUS
  <1>8. dd <=> (e.dirty \/ e.hash[p] # None)
    OBVIOUS
  <1>13. W(c1, clock, on).dirty
    BY <1>0 DEF EntType
  <1> HIDE DEF W, c1, c2, dd, on
  <1>9. ent'[Writer] = d /\ \A m \in Nodes \ {Writer} : ent'[m] = ent[m]
    BY <1>1, Numbers DEF Shapes
  <1>10. CASE d = W(c1, clock, on)
    <2>1. /\ d.size = e.size /\ d.id = e.id /\ d.msize = e.msize /\ d.writes = e.writes + 1
          /\ \A q \in Pieces \ {p} : d.cache[q] = e.cache[q] /\ d.hash[q] = e.hash[q]
      BY <1>5, <1>10
    <2>2. d.cache[p] \in {None, clock} /\ d.hash[p] = clock
      BY <1>5, <1>7, <1>10
    <2>3. d.dirty
      BY <1>10, <1>13
    <2> QED  BY <1>9, <2>1, <2>2, <2>3
  <1>11. CASE d = W(None, None, dd)
    BY <1>5, <1>8, <1>9, <1>11
  <1>12. CASE d = W(c2, None, dd)
    BY <1>5, <1>7, <1>8, <1>9, <1>12
  <1> QED  BY <1>6, <1>10, <1>11, <1>12

LEMMA NoteEffect ==
    ASSUME Shapes, NoteOriginId
    PROVE  /\ \A m \in Nodes \ {Writer} : ent'[m] = ent[m]
           /\ Kept(Writer) /\ ent'[Writer].size = Mine.size
           /\ ent'[Writer].id = IF Mine.id < clock THEN clock ELSE Mine.id
PROOF
  <1> DEFINE i == IF ContentChanged(Mine.id, clock) THEN clock ELSE Mine.id
             d == [Mine EXCEPT !.id = i]
  <1>0. Mine \in EntType /\ clock \in Nat /\ Mine.id \in Nat
    <2>1. Mine \in EntType /\ clock \in Nat
      BY Numbers DEF Shapes
    <2>2. Mine.id \in Stamps
      BY <2>1 DEF EntType
    <2> QED  BY <2>1, <2>2, Numbers
  <1>1. ent' = [ent EXCEPT ![Writer] = d]
    BY DEF NoteOriginId
  <1>2. i = IF Mine.id < clock THEN clock ELSE Mine.id
    BY <1>0 DEF ContentChanged
  <1> HIDE DEF i
  <1>3. /\ d.size = Mine.size /\ d.id = i /\ d.cache = Mine.cache /\ d.hash = Mine.hash /\ d.msize = Mine.msize
        /\ d.dirty = Mine.dirty /\ d.writes = Mine.writes
    BY <1>0 DEF EntType
  <1> HIDE DEF d
  <1>4. ent'[Writer] = d /\ \A m \in Nodes \ {Writer} : ent'[m] = ent[m]
    BY <1>1, Numbers DEF Shapes
  <1> QED  BY <1>2, <1>3, <1>4 DEF Kept

\* The flag comes down only when as many digests are known as were published.
LEMMA ClearEffect ==
    ASSUME Shapes, NEW c \in Closers, NEW n, n = Closes[c], ClearDirty(c)
    PROVE  /\ \A m \in Nodes \ {n} : ent'[m] = ent[m]
           /\ ent'[n].size = ent[n].size /\ ent'[n].id = ent[n].id /\ ent'[n].writes = ent[n].writes
           /\ ent'[n].cache = ent[n].cache /\ ent'[n].hash = ent[n].hash /\ ent'[n].msize = ent[n].msize
           /\ ent'[n].dirty \/ ~ent[n].dirty \/ Cardinality(Known(ent[n].hash)) = pb[c].n
           /\ ent'[n].dirty => ent[n].dirty
PROOF
  <1> DEFINE b == ent[n].dirty /\ ~(ent[n].dirty /\ Cardinality(Known(ent[n].hash)) = pb[c].n)
             d == [ent[n] EXCEPT !.dirty = b]
  <1>0. n \in Nodes /\ ent[n] \in EntType
    BY Numbers DEF Shapes
  <1>1. ent' = [ent EXCEPT ![n] = d]
    BY DEF ClearDirty
  <1>2. (b \/ ~ent[n].dirty \/ Cardinality(Known(ent[n].hash)) = pb[c].n) /\ (b => ent[n].dirty)
    OBVIOUS
  <1> HIDE DEF b
  <1>3. /\ d.size = ent[n].size /\ d.id = ent[n].id /\ d.cache = ent[n].cache /\ d.hash = ent[n].hash
        /\ d.msize = ent[n].msize /\ d.dirty = b /\ d.writes = ent[n].writes
    BY <1>0 DEF EntType
  <1> HIDE DEF d
  <1>4. ent'[n] = d /\ \A m \in Nodes \ {n} : ent'[m] = ent[m]
    BY <1>0, <1>1 DEF Shapes
  <1> QED  BY <1>2, <1>3, <1>4

-----------------------------------------------------------------------------
(* Clocks.                                                                   *)

\* A step other than a write's landing: the identities it leaves are of writes
\* that happened, and a write in progress stays the one it was.
LEMMA ClocksKept ==
    ASSUME Shapes, Clocks, UNCHANGED <<odata, osize, clock, hist>>,
           wr'.pc = "idle" \/ (wr.pc # "idle" /\ wr'.p = wr.p /\ wr'.before = wr.before),
           \A n \in Nodes : ent'[n].id <= clock /\ op'[n].id <= clock,
           \A c \in Closers : pb'[c].id <= clock,
           \A n \in Nodes : op'[n].pc = "stat" /\ op'[n].id = clock => op'[n].size = osize,
           blob'.id <= clock,
           \A f \in Fillers : fl'[f].pc \in {"stat", "merge"} => fl'[f].seen.id <= clock
    PROVE  Clocks'
  BY DEF Clocks

LEMMA ClocksLands ==
    ASSUME Shapes, Clocks, NEW p \in Pieces, NEW whole \in BOOLEAN, WriteLands(p, whole)
    PROVE  Clocks'
PROOF
  <1>0. /\ clock \in Nat /\ clock' = clock + 1 /\ odata' = [odata EXCEPT ![p] = clock']
        /\ hist' = [hist EXCEPT ![p] = @ \cup {clock'}] /\ UNCHANGED <<blob, ent, op, fl, pb>>
    BY DEF WriteLands, Shapes
  <1>1. /\ odata \in [Pieces -> Stamps] /\ hist \in [Pieces -> SUBSET Stamps] /\ blob.id \in Nat
        /\ (\A n \in Nodes : ent[n].id \in Nat /\ op[n].id \in Nat) /\ \A c \in Closers : pb[c].id \in Nat
        /\ \A f \in Fillers : Loading(f) => fl[f].seen.id \in Nat
    BY Numbers DEF Shapes, EntType, OpenType, PubType, BlobShape
  <1>2. \A q \in Pieces : hist[q] \subseteq Nat /\ odata[q] \in Nat
    BY <1>1, Numbers
  <1>3. odata'[p] = clock' /\ hist'[p] = hist[p] \cup {clock'}
        /\ \A q \in Pieces \ {p} : odata'[q] = odata[q] /\ hist'[q] = hist[q]
    BY <1>0, <1>1
  <1>4. \A q \in Pieces : odata[q] \in hist[q] /\ \A t \in hist[q] : t <= odata[q] /\ t <= clock
    BY DEF Clocks
  <1>5. \A q \in Pieces : odata'[q] \in hist'[q] /\ \A t \in hist'[q] : t <= odata'[q] /\ t <= clock'
    <2>1. \A t \in hist'[p] : t <= clock'
      BY <1>0, <1>2, <1>3, <1>4
    <2>2. \A q \in Pieces \ {p} : odata'[q] \in hist'[q] /\ \A t \in hist'[q] : t <= odata'[q] /\ t <= clock'
      BY <1>0, <1>2, <1>3, <1>4
    <2> QED  BY <1>3, <2>1, <2>2
  <1>6. /\ blob'.id <= clock' /\ \A n \in Nodes : ent'[n].id <= clock' /\ op'[n].id <= clock'
        /\ \A c \in Closers : pb'[c].id <= clock'
        /\ \A n \in Nodes : op'[n].id # clock'
        /\ \A f \in Fillers : fl'[f].pc \in {"stat", "merge"} => fl'[f].seen.id <= clock'
    BY <1>0, <1>1 DEF Clocks
  <1>7. wr'.p = p /\ wr'.before = odata[p] /\ p < osize'
    <2>1. p <= osize /\ osize' = (IF p = osize THEN p + 1 ELSE osize) /\ p \in Nat /\ osize \in Nat
      BY Numbers DEF WriteLands, Shapes
    <2>2. wr'.p = p /\ wr'.before = odata[p]
      BY DEF WriteLands
    <2> QED  BY <2>1, <2>2
  <1>8. /\ odata[p] \in hist'[p] /\ odata[p] < clock' /\ \A t \in hist'[p] : t = clock' \/ t <= odata[p]
        /\ \A q \in Pieces \ {p} : clock' \notin hist'[q]
    BY <1>0, <1>2, <1>3, <1>4
  <1> QED  BY <1>3, <1>5, <1>6, <1>7, <1>8 DEF Clocks

LEMMA StepClocks == Shapes /\ Shapes' /\ Clocks /\ [Next]_vars => Clocks'
PROOF
  <1> SUFFICES ASSUME Shapes, Shapes', Clocks, [Next]_vars PROVE Clocks'
    OBVIOUS
  <1>0. /\ (\A n \in Nodes : ent[n].id <= clock /\ op[n].id <= clock) /\ (\A c \in Closers : pb[c].id <= clock)
        /\ \A n \in Nodes : op[n].pc = "stat" /\ op[n].id = clock => op[n].size = osize
        /\ blob.id <= clock /\ (\A f \in Fillers : Loading(f) => fl[f].seen.id <= clock)
        /\ clock \in Nat /\ clock \in Stamps /\ osize \in Sizes /\ Writer \in Nodes
    BY Numbers, ManifestAssumption DEF Clocks, Shapes, Stamps, LoadShape
  <1>1. ASSUME NEW n \in Nodes, OpenStat(n) PROVE Clocks'
    <2>1. op' = [op EXCEPT ![n] = [pc |-> "stat", size |-> osize, id |-> clock]] /\ op \in [Nodes -> OpenType]
      BY <1>1 DEF OpenStat, Shapes
    <2>2. \A m \in Nodes : op'[m].id <= clock /\ (op'[m].pc = "stat" /\ op'[m].id = clock => op'[m].size = osize)
      BY <1>0, <2>1
    <2> QED  BY <1>0, <1>1, <2>2, ClocksKept DEF OpenStat
  <1>2. ASSUME NEW n \in Nodes, OpenReconcile(n) PROVE Clocks'
    <2>1. op[n].size \in Sizes /\ op[n].id \in Stamps /\ ent' = [ent EXCEPT ![n] = Reconcile(@, op[n].size, op[n].id)]
      BY <1>2 DEF OpenReconcile, Shapes, OpenType
    <2>2. \A m \in Nodes : ent'[m].id <= clock
      <3>1. (\A m \in Nodes \ {n} : ent'[m] = ent[m]) /\ ent'[n].id \in {ent[n].id, op[n].id}
        BY <2>1, ReconcileEffect
      <3> QED  BY <1>0, <3>1
    <2>3. op' = [op EXCEPT ![n] = IdleOpen] /\ op \in [Nodes -> OpenType]
      BY <1>2 DEF OpenReconcile, Shapes
    <2>4. \A m \in Nodes : op'[m].id <= clock /\ (op'[m].pc = "stat" /\ op'[m].id = clock => op'[m].size = osize)
      BY <1>0, <2>3 DEF IdleOpen
    <2> QED  BY <1>0, <1>2, <2>2, <2>4, ClocksKept DEF OpenReconcile
  <1>3. CASE CacheFill \/ GetAfterWrite \/ CopyIntoCache \/ NoteOriginId
    <2>1. \A m \in Nodes : ent'[m].id <= clock
      <3>1. CASE CacheFill
        BY <1>0, <3>1, CacheFillEffect
      <3>2. CASE GetAfterWrite
        <4>1. ent' = [ent EXCEPT ![Writer] = Reconcile(@, osize, clock)]
          BY <3>2 DEF GetAfterWrite
        <4>2. (\A m \in Nodes \ {Writer} : ent'[m] = ent[m]) /\ ent'[Writer].id \in {ent[Writer].id, clock}
          BY <1>0, <4>1, ReconcileEffect
        <4> QED  BY <1>0, <4>2
      <3>3. CASE CopyIntoCache
        BY <1>0, <3>3, CopyEffect
      <3>4. CASE NoteOriginId
        BY <1>0, <3>4, NoteEffect
      <3> QED  BY <1>3, <3>1, <3>2, <3>3, <3>4
    <2>2. UNCHANGED <<odata, osize, clock, hist, blob, op, fl, pb>>
      BY <1>3 DEF CacheFill, GetAfterWrite, CopyIntoCache, NoteOriginId
    <2>3. wr.pc # "idle" /\ (wr' = IdleWrite \/ wr' = [wr EXCEPT !.pc = "copy"] \/ wr' = [wr EXCEPT !.pc = "note"])
      BY <1>3 DEF CacheFill, GetAfterWrite, CopyIntoCache, NoteOriginId
    <2>4. wr'.pc = "idle" \/ (wr'.p = wr.p /\ wr'.before = wr.before)
      BY <2>3 DEF Shapes, WriteType, IdleWrite
    <2> QED  BY <1>0, <2>1, <2>2, <2>3, <2>4, ClocksKept
  <1>4. ASSUME NEW c \in Closers, Release(c) \/ Snapshot(c) PROVE Clocks'
    <2>1. /\ UNCHANGED <<odata, osize, clock, hist, blob, ent, wr, op, fl>> /\ Closes[c] \in Nodes /\ pb \in [Closers -> PubType]
          /\ \/ pb' = [pb EXCEPT ![c] = [IdlePub EXCEPT !.pc = "snap", !.fsize = ent[Closes[c]].size]]
             \/ pb' = [pb EXCEPT ![c] = IdlePub]
             \/ \E d, m : pb' = [pb EXCEPT ![c] = [@ EXCEPT !.pc = "write", !.dig = d, !.n = m, !.id = ent[Closes[c]].id]]
      BY <1>4, Numbers DEF Release, Snapshot, Shapes
    <2>2. \A m \in Closers : pb'[m].id <= clock
      <3>1. CASE pb' = [pb EXCEPT ![c] = [IdlePub EXCEPT !.pc = "snap", !.fsize = ent[Closes[c]].size]] \/ pb' = [pb EXCEPT ![c] = IdlePub]
        <4>1. IdlePub.id = 0 /\ [IdlePub EXCEPT !.pc = "snap", !.fsize = ent[Closes[c]].size].id = 0
          BY DEF IdlePub
        <4>2. pb'[c].id = 0 /\ \A m \in Closers \ {c} : pb'[m] = pb[m]
          BY <2>1, <3>1, <4>1
        <4> QED  BY <1>0, <4>2
      <3>2. ASSUME NEW d, NEW m, pb' = [pb EXCEPT ![c] = [@ EXCEPT !.pc = "write", !.dig = d, !.n = m, !.id = ent[Closes[c]].id]]
            PROVE  \A k \in Closers : pb'[k].id <= clock
        <4> DEFINE i == ent[Closes[c]].id
                   new == [pb[c] EXCEPT !.pc = "write", !.dig = d, !.n = m, !.id = i]
        <4>2. pb'[c] = new
          BY <2>1, <3>2
        <4>3. pb[c] \in PubType
          BY <2>1
        <4> HIDE DEF i
        <4>4. new.id = i
          BY <4>3 DEF PubType
        <4>1. pb'[c].id = ent[Closes[c]].id
          BY <4>2, <4>4 DEF i
        <4> QED  BY <1>0, <2>1, <3>2, <4>1
      <3> QED  BY <2>1, <3>1, <3>2
    <2> QED  BY <1>0, <2>1, <2>2, ClocksKept
  <1>5. ASSUME NEW c \in Closers, WriteBlob(c) PROVE Clocks'
    <2>1. blob'.id <= clock
      BY <1>0, <1>5 DEF WriteBlob
    <2>2. pb' = [pb EXCEPT ![c].pc = "clear"] \/ pb' = [pb EXCEPT ![c] = IdlePub]
      BY <1>5 DEF WriteBlob
    <2>3. \A m \in Closers : pb'[m].id <= clock
      <3>1. pb'[c].id \in {pb[c].id, 0} /\ \A m \in Closers \ {c} : pb'[m] = pb[m]
        BY <2>2 DEF Shapes, PubType, IdlePub
      <3> QED  BY <1>0, <3>1
    <2> QED  BY <1>0, <1>5, <2>1, <2>3, ClocksKept DEF WriteBlob
  <1>6. ASSUME NEW c \in Closers, ClearDirty(c) PROVE Clocks'
    <2>1. \A m \in Nodes : ent'[m].id <= clock
      BY <1>0, <1>6, ClearEffect
    <2>2. \A m \in Closers : pb'[m].id <= clock
      BY <1>0, <1>6 DEF ClearDirty, Shapes, IdlePub
    <2> QED  BY <1>0, <1>6, <2>1, <2>2, ClocksKept DEF ClearDirty
  <1>7. ASSUME NEW f \in Fillers, Fill(f) PROVE Clocks'
    <2>1. \A m \in Nodes : ent'[m].id <= clock
      <3>1. LoadMerge(f) \/ CompleteFill(f) \/ Quiet
        BY <1>7, FillEntries
      <3> QED  BY <1>0, <3>1, MergeEffect, CompleteEffect, ZenonT(40) DEF Quiet
    <2>2. UNCHANGED <<odata, osize, clock, hist, blob, wr, op, pb>>
      BY <1>7, FillFrame
    <2>3. \A g \in Fillers : fl'[g].pc \in {"stat", "merge"} => fl'[g].seen.id <= clock
      <3>1. \A g \in Fillers \ {f} : fl'[g] = fl[g]
        BY <1>7, FillPlaces DEF Shapes
      <3>2. fl'[f].pc \in {"stat", "merge"} => fl'[f].seen.id <= clock
        BY <1>0, <1>7, FillSeen
      <3> QED  BY <1>0, <3>1, <3>2
    <2> QED  BY <1>0, <2>1, <2>2, <2>3, ClocksKept
  <1>8. ASSUME NEW n \in Nodes, NEW p \in Pieces, DropMark(n, p) \/ RetryDue(n) PROVE Clocks'
    <2>1. \A m \in Nodes : ent'[m].id <= clock
      BY <1>0, <1>8, ShapesDrop DEF Quiet
    <2> QED  BY <1>0, <1>8, <2>1, ClocksKept DEF DropMark, RetryDue
  <1>9. CASE UNCHANGED vars
    BY <1>9 DEF vars, Clocks
  <1>10. ASSUME NEW p \in Pieces, NEW whole \in BOOLEAN, WriteLands(p, whole) PROVE Clocks'
    BY <1>10, ClocksLands
  <1>11. 0 \in Pieces
    BY Numbers
  <1> QED  BY <1>1, <1>2, <1>3, <1>4, <1>5, <1>6, <1>7, <1>8, <1>9, <1>10, <1>11 DEF Next, Write, Publish

-----------------------------------------------------------------------------
(* Own.                                                                      *)

\* What the proofs about the writer's entry use of numbers.
LEMMA MyNumbers ==
    ASSUME Shapes
    PROVE  /\ Mine.id \in Nat /\ Mine.size \in Nat /\ clock \in Nat /\ osize \in Nat /\ wr.p \in Pieces /\ wr.p \in Nat
           /\ osize \in Sizes /\ clock \in Stamps /\ Writer \in Nodes
           /\ \A n \in Nodes : /\ ent[n] \in EntType /\ ent[n].id \in Nat /\ ent[n].size \in Nat /\ ent[n].writes \in Nat
                               /\ op[n].size \in Sizes /\ op[n].id \in Stamps /\ op[n].id \in Nat
PROOF
  <1>1. clock \in Nat /\ clock \in Stamps /\ osize \in Sizes /\ osize \in Nat /\ wr.p \in Pieces /\ wr.p \in Nat
    <2>1. clock \in Nat /\ clock \in Stamps
      BY ManifestAssumption DEF Shapes, Stamps, LoadShape
    <2>2. osize \in Sizes /\ wr.p \in Pieces
      BY DEF Shapes, WriteType
    <2> QED  BY <2>1, <2>2, Numbers
  <1>2. \A n \in Nodes : ent[n] \in EntType /\ ent[n].id \in Nat /\ ent[n].size \in Nat /\ ent[n].writes \in Nat
    BY Numbers DEF Shapes, EntType
  <1>3. \A n \in Nodes : op[n].size \in Sizes /\ op[n].id \in Stamps /\ op[n].id \in Nat
    BY Numbers DEF Shapes, OpenType
  <1>4. Writer \in Nodes
    BY Numbers
  <1> QED  BY <1>1, <1>2, <1>3, <1>4

\* An open that leaves the writer's entry no older.
LEMMA OpenMine ==
    ASSUME Shapes, OpenReconcile(Writer), ~lowered'
    PROVE  ent'[Writer] = ent[Writer] \/ (Wiped(Writer) /\ ent'[Writer].size = op[Writer].size
                                            /\ ent'[Writer].id = op[Writer].id /\ op[Writer].id >= Mine.id)
PROOF
  <1>1. \/ ent'[Writer] = ent[Writer]
        \/ /\ Wiped(Writer) /\ ent'[Writer].size = op[Writer].size /\ ent'[Writer].id = op[Writer].id
           /\ Mine.size # op[Writer].size \/ op[Writer].id > Mine.id
    <2>1. ent' = [ent EXCEPT ![Writer] = Reconcile(@, op[Writer].size, op[Writer].id)]
      BY DEF OpenReconcile
    <2> QED  BY <2>1, MyNumbers, ReconcileEffect
  <1>2. op[Writer].size = Mine.size \/ op[Writer].id >= Mine.id
    <2>1. ~(op[Writer].size # ent[Writer].size /\ op[Writer].id < ent[Writer].id)
      BY Zenon DEF OpenReconcile
    <2> QED  BY <2>1, MyNumbers
  <1> QED  BY <1>1, <1>2, MyNumbers

LEMMA OwnWrite ==
    ASSUME Shapes, Clocks, Own, Write, ~lowered'
    PROVE  Own'
PROOF
  <1>0. \A q \in Pieces : NoDigests[q] = None
    BY DEF NoDigests
  <1>1. ASSUME NEW p \in Pieces, NEW whole \in BOOLEAN, WriteLands(p, whole) PROVE Own'
    <2>1. wr.pc = "idle" /\ wr'.pc \in {"fill", "get"} /\ clock' = clock + 1 /\ ent' = ent /\ lowered' = lowered
      BY <1>1 DEF WriteLands
    <2> QED  BY <2>1, MyNumbers DEF Own
  <1>2. CASE CacheFill
    <2>1. /\ ent'[Writer].size = osize /\ ent'[Writer].id = (IF Mine.id < clock THEN clock ELSE Mine.id)
          /\ Wiped(Writer) \/ (Kept(Writer) /\ Mine.size <= osize)
      BY <1>2, CacheFillEffect
    <2>2. wr'.pc = "copy" /\ clock' = clock /\ osize' = osize /\ lowered' = lowered
      BY <1>2 DEF CacheFill, Shapes, WriteType
    <2>3. Mine.id <= clock
      BY MyNumbers DEF Clocks
    <2>4. \A q \in Pieces : ent'[Writer].hash[q] # None => q < osize
      BY <2>1, <2>2, <1>0, MyNumbers, Numbers DEF Own, Wiped, Kept
    <2> QED  BY <2>1, <2>2, <2>3, <2>4, MyNumbers DEF Own
  <1>3. CASE GetAfterWrite
    <2>1. ent' = [ent EXCEPT ![Writer] = Reconcile(@, osize, clock)] /\ lowered' = lowered
      BY <1>3 DEF GetAfterWrite
    <2>4. osize \in Sizes /\ clock \in Stamps /\ Writer \in Nodes /\ ent' = [ent EXCEPT ![Writer] = Reconcile(@, osize, clock)]
      BY <2>1, MyNumbers
    <2>2. \/ ent'[Writer] = ent[Writer] /\ Mine.size = osize /\ clock <= Mine.id
          \/ Wiped(Writer) /\ ent'[Writer].size = osize /\ ent'[Writer].id = clock
      <3>1. \/ ent'[Writer] = ent[Writer] /\ ent[Writer].size = osize /\ clock <= ent[Writer].id
            \/ /\ Wiped(Writer) /\ ent'[Writer].size = osize /\ ent'[Writer].id = clock
               /\ ent[Writer].size # osize \/ clock > ent[Writer].id
        BY <2>4, ReconcileEffect, Zenon
      <3> QED  BY <3>1
    <2>3. wr'.pc = "copy" /\ clock' = clock /\ osize' = osize /\ Mine.id <= clock
      BY <1>3, MyNumbers DEF GetAfterWrite, Shapes, WriteType, Clocks
    <2> QED  BY <1>0, <2>1, <2>2, <2>3, MyNumbers DEF Own, Wiped
  <1>4. CASE CopyIntoCache
    <2>1. /\ ent'[Writer].size = Mine.size /\ ent'[Writer].id = Mine.id
          /\ \A q \in Pieces \ {wr.p} : ent'[Writer].hash[q] = Mine.hash[q]
      BY <1>4, CopyEffect
    <2>2. wr.pc = "copy" /\ clock' = clock /\ osize' = osize /\ lowered' = lowered
      BY <1>4 DEF CopyIntoCache
    <2>3. wr.p < osize
      BY <2>2 DEF Clocks
    <2> QED  BY <2>1, <2>2, <2>3, MyNumbers DEF Own
  <1>5. CASE NoteOriginId
    <2>1. Kept(Writer) /\ ent'[Writer].size = Mine.size /\ ent'[Writer].id = (IF Mine.id < clock THEN clock ELSE Mine.id)
      BY <1>5, NoteEffect
    <2>2. wr.pc = "note" /\ clock' = clock /\ osize' = osize /\ lowered' = lowered
      BY <1>5 DEF NoteOriginId
    <2> QED  BY <2>1, <2>2, MyNumbers DEF Own, Kept
  <1> QED  BY <1>1, <1>2, <1>3, <1>4, <1>5 DEF Write

LEMMA StepOwn == Shapes /\ Clocks /\ Own /\ Vouched /\ [Next]_vars => Own'
PROOF
  <1> SUFFICES ASSUME Shapes, Clocks, Own, Vouched, [Next]_vars PROVE Own'
    OBVIOUS
  <1>0. ASSUME UNCHANGED <<clock, osize, wr, lowered>>,
               \A p \in Pieces : ent'[Writer].hash[p] = Mine.hash[p] \/ p < Mine.size,
               ent'[Writer].size = Mine.size, ent'[Writer].id = Mine.id
        PROVE  Own'
    BY <1>0 DEF Own
  <1>1. CASE lowered'
    BY <1>1 DEF Own
  <1> SUFFICES ASSUME ~lowered' PROVE Own'
    BY <1>1
  <1>2. CASE Write
    BY <1>2, OwnWrite
  <1>3. CASE (\E n \in Nodes : OpenStat(n)) \/ \E c \in Closers : Release(c) \/ Snapshot(c) \/ WriteBlob(c)
    BY <1>0, <1>3 DEF OpenStat, Release, Snapshot, WriteBlob
  <1>4. ASSUME NEW n \in Nodes, OpenReconcile(n) PROVE Own'
    <2>0. UNCHANGED <<clock, osize, wr>> /\ op[n].pc = "stat" /\ ~lowered
      BY <1>4 DEF OpenReconcile
    <2>1. CASE n # Writer
      <3>1. ent'[Writer] = ent[Writer]
        BY <1>4, <2>1, MyNumbers DEF OpenReconcile, Shapes
      <3> QED  BY <2>0, <3>1 DEF Own
    <2>2. CASE n = Writer
      <3>1. CASE ent'[Writer] = ent[Writer]
        BY <2>0, <3>1 DEF Own
      <3>2. CASE Wiped(Writer) /\ ent'[Writer].size = op[Writer].size
                   /\ ent'[Writer].id = op[Writer].id /\ op[Writer].id >= Mine.id
        <4>1. \A q \in Pieces : ent'[Writer].hash[q] = None
          BY <3>2 DEF Wiped, NoDigests
        <4>2. op[Writer].id <= clock /\ (op[Writer].id = clock => op[Writer].size = osize)
          BY <2>0, <2>2, MyNumbers DEF Clocks
        <4>3. Mine.id >= clock - 1 /\ (wr.pc \in {"idle", "copy", "note"} => Mine.id = clock)
          BY <2>0 DEF Own
        <4> QED  BY <2>0, <3>2, <4>1, <4>2, <4>3, MyNumbers DEF Own
      <3> QED  BY <1>4, <2>2, <3>1, <3>2, OpenMine
    <2> QED  BY <2>1, <2>2
  <1>5. ASSUME NEW c \in Closers, ClearDirty(c) PROVE Own'
    <2> DEFINE n == Closes[c]
    <2>1. /\ \A m \in Nodes \ {n} : ent'[m] = ent[m]
          /\ ent'[n].size = ent[n].size /\ ent'[n].id = ent[n].id /\ ent'[n].hash = ent[n].hash
      BY <1>5, ClearEffect
    <2>2. /\ ent'[Writer].size = Mine.size /\ ent'[Writer].id = Mine.id /\ ent'[Writer].hash = Mine.hash
      BY <2>1, MyNumbers
    <2> QED  BY <1>0, <1>5, <2>2 DEF ClearDirty
  <1>6. ASSUME NEW f \in Fillers, Fill(f) PROVE Own'
    <2>0. UNCHANGED <<clock, osize, wr, lowered>>
      BY <1>6, FillFrame
    <2>1. CASE LoadMerge(f)
      <3>1. Truthful(fl[f].seen.dig, fl[f].seen.id, fl[f].seen.size)
        BY <2>0, <2>1 DEF LoadMerge, Vouched, BlobsVouched
      <3>2. /\ \A m \in Nodes \ {Home[f]} : ent'[m] = ent[m]
            /\ Entry(f)'.size = Entry(f).size /\ Entry(f)'.id = Entry(f).id
            /\ \A p \in Pieces : \/ Entry(f)'.hash[p] = Entry(f).hash[p]
                                 \/ /\ Entry(f)'.hash[p] = fl[f].seen.dig[p] /\ fl[f].seen.size = Entry(f).size
        BY <2>1, MergeEffect
      <3>3. \A p \in Pieces : ent'[Writer].hash[p] # None => ent'[Writer].hash[p] = Mine.hash[p] \/ p < Mine.size
        BY <3>1, <3>2, MyNumbers DEF Truthful
      <3>4. ent'[Writer].size = Mine.size /\ ent'[Writer].id = Mine.id
        BY <3>2, MyNumbers
      <3> QED  BY <2>0, <3>3, <3>4 DEF Own
    <2>2. CASE CompleteFill(f)
      <3>1. /\ \A m \in Nodes \ {Home[f]} : ent'[m] = ent[m]
            /\ Entry(f)'.size = Entry(f).size /\ Entry(f)'.id = Entry(f).id
            /\ \A p \in Pieces : Entry(f)'.hash[p] = Entry(f).hash[p] \/ p < Entry(f).size
        BY <2>2, CompleteEffect
      <3> QED  BY <1>0, <2>0, <3>1, MyNumbers
    <2>3. CASE Quiet
      BY <1>0, <2>0, <2>3, MyNumbers DEF Quiet
    <2> QED  BY <1>6, <2>1, <2>2, <2>3, FillEntries
  <1>7. ASSUME NEW n \in Nodes, NEW p \in Pieces, DropMark(n, p) \/ RetryDue(n) PROVE Own'
    <2>1. Quiet /\ UNCHANGED <<clock, osize, wr, lowered>>
      BY <1>7, ShapesDrop DEF DropMark, RetryDue
    <2> QED  BY <1>0, <2>1, MyNumbers DEF Quiet
  <1>8. CASE UNCHANGED vars
    BY <1>8 DEF vars, Own
  <1>9. 0 \in Pieces
    BY Numbers
  <1> QED  BY <1>2, <1>3, <1>4, <1>5, <1>6, <1>7, <1>8, <1>9 DEF Next, Publish

-----------------------------------------------------------------------------
(* Vouched.                                                                  *)

\* Fit and Truthful, of the state a step leads to.
DueThen(n, p) == IF n = Writer /\ wr'.p = p /\ wr'.pc = "copy" THEN clock' - 1 ELSE ent'[n].id
MisdatedThen(p, v) == \E u \in Stamps : <<p, u>> \in misdated' /\ v \in {u, Torn}
SupersededThen(p, v, id) == \E t \in hist'[p] : v < t /\ t <= id
FitThen(n, p, v) ==
    /\ v \in hist'[p] \cup {Torn}
    /\ SupersededThen(p, v, DueThen(n, p)) => MisdatedThen(p, v) /\ (n = Writer => ent'[Writer].msize # None)
TruthThen(dig, id, size) ==
    \A p \in Pieces : dig[p] # None =>
        dig[p] \in hist'[p] /\ (SupersededThen(p, dig[p], id) => MisdatedThen(p, dig[p])) /\ p < size
Stays(n, p) == \A v : Fit(n, p, v) => FitThen(n, p, v)

LEMMA VouchedThen ==
    /\ (\A n \in Nodes, p \in Pieces :
          /\ ent'[n].cache[p] # None => FitThen(n, p, ent'[n].cache[p])
          /\ ent'[n].hash[p] # None => FitThen(n, p, ent'[n].hash[p])) => EntriesVouched'
    /\ (\A f \in Fillers : fl'[f].gen = ent'[Home[f]].writes =>
          /\ fl'[f].pc = "peer" => FitThen(Home[f], fl'[f].p, fl'[f].expect)
          /\ fl'[f].pc = "done" => FitThen(Home[f], fl'[f].p, fl'[f].buf)) => FillsVouched'
    /\ (/\ TruthThen(blob'.dig, blob'.id, blob'.size)
        /\ \A f \in Fillers : fl'[f].pc \in {"stat", "merge"} =>
              TruthThen(fl'[f].seen.dig, fl'[f].seen.id, fl'[f].seen.size)
        /\ \A c \in Closers : pb'[c].pc \in {"write", "clear"} => TruthThen(pb'[c].dig, pb'[c].id, pb'[c].fsize))
        => BlobsVouched'
PROOF
  <1>1. (\A n \in Nodes, p \in Pieces :
          /\ ent'[n].cache[p] # None => FitThen(n, p, ent'[n].cache[p])
          /\ ent'[n].hash[p] # None => FitThen(n, p, ent'[n].hash[p])) => EntriesVouched'
    BY DEF EntriesVouched, FitThen, Fit, Excused, Misdated, MisdatedThen, Superseded, SupersededThen, Due, DueThen
  <1>2. (\A f \in Fillers : fl'[f].gen = ent'[Home[f]].writes =>
          /\ fl'[f].pc = "peer" => FitThen(Home[f], fl'[f].p, fl'[f].expect)
          /\ fl'[f].pc = "done" => FitThen(Home[f], fl'[f].p, fl'[f].buf)) => FillsVouched'
    BY DEF FillsVouched, FitThen, Fit, Excused, Misdated, MisdatedThen, Superseded, SupersededThen, Due, DueThen
  <1>3. (/\ TruthThen(blob'.dig, blob'.id, blob'.size)
         /\ \A f \in Fillers : fl'[f].pc \in {"stat", "merge"} =>
              TruthThen(fl'[f].seen.dig, fl'[f].seen.id, fl'[f].seen.size)
         /\ \A c \in Closers : pb'[c].pc \in {"write", "clear"} => TruthThen(pb'[c].dig, pb'[c].id, pb'[c].fsize))
        => BlobsVouched'
    BY DEF BlobsVouched, TruthThen, Truthful, Outdated, Misdated, MisdatedThen, Superseded, SupersededThen
  <1> QED  BY <1>1, <1>2, <1>3

LEMMA HistNumbers ==
    ASSUME Shapes, Clocks
    PROVE  \A p \in Pieces : /\ hist[p] \subseteq Nat /\ odata[p] \in Nat /\ odata[p] \in hist[p]
                             /\ \A t \in hist[p] : t \in Nat /\ t <= odata[p] /\ t <= clock
PROOF
  <1>1. \A p \in Pieces : hist[p] \subseteq Nat /\ odata[p] \in Nat
    BY Numbers DEF Shapes
  <1> QED  BY <1>1 DEF Clocks

\* The identity due is the entry's, or an older one.
LEMMA DueBounds ==
    ASSUME Shapes, Clocks, Own, ~lowered, NEW n \in Nodes, NEW p \in Pieces
    PROVE  Due(n, p) \in Int /\ Due(n, p) <= ent[n].id /\ Due(n, p) <= clock
PROOF
  <1>1. ent[n].id <= clock
    BY DEF Clocks
  <1>2. Due(n, p) = ent[n].id \/ (n = Writer /\ Due(n, p) = clock - 1)
    BY DEF Due
  <1> QED  BY <1>1, <1>2, MyNumbers DEF Own

\* A content stays good for an identity that is not newer, of an unchanged file.
LEMMA StaysSame ==
    ASSUME Shapes, Clocks, NEW n \in Nodes, NEW p \in Pieces, hist' = hist, misdated \subseteq misdated',
           n = Writer /\ Mine.msize # None => ent'[Writer].msize # None,
           Due(n, p) \in Int, DueThen(n, p) \in Int, \A t \in hist[p] : t <= DueThen(n, p) => t <= Due(n, p)
    PROVE  Stays(n, p)
  BY HistNumbers DEF Stays, Fit, FitThen, Excused, Misdated, MisdatedThen, Superseded, SupersededThen

\* What is current for an identity so far stays so.
Keeps ==
    /\ misdated \subseteq misdated'
    /\ \A q \in Pieces :
         /\ hist[q] \subseteq hist'[q]
         /\ \A v : \A id \in Int : id <= clock /\ SupersededThen(q, v, id) => Superseded(q, v, id)

\* A write that lands is newer than every identity.
LEMMA LandsKeeps ==
    ASSUME Shapes, Clocks, NEW p \in Pieces, NEW whole \in BOOLEAN, WriteLands(p, whole)
    PROVE  Keeps
PROOF
  <1>1. \A q \in Pieces : hist[q] \subseteq hist'[q] /\ hist'[q] \subseteq hist[q] \cup {clock + 1}
    BY DEF WriteLands, Shapes
  <1>2. misdated' = misdated
    BY DEF WriteLands
  <1>3. ASSUME NEW q \in Pieces, NEW v, NEW id \in Int, id <= clock, SupersededThen(q, v, id)
        PROVE  Superseded(q, v, id)
    <2>1. PICK t \in hist'[q] : v < t /\ t <= id
      BY <1>3 DEF SupersededThen
    <2>2. t # clock + 1
      BY <1>3, <2>1, MyNumbers
    <2> QED  BY <1>1, <2>1, <2>2 DEF Superseded
  <1> QED  BY <1>1, <1>2, <1>3 DEF Keeps

LEMMA StaysLands ==
    ASSUME Shapes, Clocks, Own, ~lowered, NEW p \in Pieces, NEW whole \in BOOLEAN, WriteLands(p, whole),
           NEW n \in Nodes, NEW q \in Pieces
    PROVE  Stays(n, q)
PROOF
  <1>1. wr.pc = "idle" /\ wr'.pc \in {"fill", "get"} /\ ent' = ent
    BY DEF WriteLands
  <1>2. Due(n, q) = ent[n].id /\ Due(n, q) \in Int /\ Due(n, q) <= clock
    BY <1>1, DueBounds DEF Due
  <1>3. DueThen(n, q) = Due(n, q)
    BY <1>1, <1>2 DEF DueThen
  <1>4. Keeps
    BY LandsKeeps
  <1> QED  BY <1>1, <1>2, <1>3, <1>4 DEF Stays, Fit, FitThen, Excused, Misdated, MisdatedThen, Keeps

\* What fillers hold stays good through a step of somebody else: an entry is
\* wiped, and then no fill of it is wanted, or keeps what it knew.
LEMMA VouchedKept ==
    ASSUME Shapes, Vouched, ~lowered, fl' = fl,
           \A n \in Nodes : \/ Wiped(n)
                            \/ /\ \A p \in Pieces : Stays(n, p) /\ ent'[n].cache[p] \in {ent[n].cache[p], None}
                               /\ ent'[n].hash = ent[n].hash /\ ent'[n].writes = ent[n].writes
    PROVE  EntriesVouched' /\ FillsVouched'
PROOF
  <1>0. \A p \in Pieces : NoDigests[p] = None
    BY DEF NoDigests
  <1>1. ASSUME NEW n \in Nodes, NEW p \in Pieces
        PROVE  /\ ent'[n].cache[p] # None => FitThen(n, p, ent'[n].cache[p])
               /\ ent'[n].hash[p] # None => FitThen(n, p, ent'[n].hash[p])
    <2>1. CASE Wiped(n)
      BY <1>0, <2>1 DEF Wiped
    <2>2. CASE ~Wiped(n)
      <3>1. Stays(n, p) /\ ent'[n].cache[p] \in {ent[n].cache[p], None} /\ ent'[n].hash = ent[n].hash
        BY <2>2
      <3>2. /\ ent[n].cache[p] # None => Fit(n, p, ent[n].cache[p])
            /\ ent[n].hash[p] # None => Fit(n, p, ent[n].hash[p])
        BY DEF Vouched, EntriesVouched
      <3> QED  BY <3>1, <3>2 DEF Stays
    <2> QED  BY <2>1, <2>2
  <1>2. ASSUME NEW f \in Fillers, fl'[f].gen = ent'[Home[f]].writes
        PROVE  /\ fl'[f].pc = "peer" => FitThen(Home[f], fl'[f].p, fl'[f].expect)
               /\ fl'[f].pc = "done" => FitThen(Home[f], fl'[f].p, fl'[f].buf)
    <2>0. Home[f] \in Nodes /\ fl[f].p \in Pieces /\ fl[f].gen \in Nat /\ fl[f].gen <= Entry(f).writes /\ Entry(f).writes \in Nat
      <3>1. Home[f] \in Nodes
        BY Numbers
      <3>2. fl[f].p \in Pieces /\ fl[f].gen \in Nat
        BY DEF Shapes, FillType
      <3> QED  BY <3>1, <3>2, MyNumbers DEF Vouched, Generations
    <2>1. ~Wiped(Home[f])
      BY <1>2, <2>0 DEF Wiped
    <2>2. Stays(Home[f], fl[f].p) /\ fl[f].gen = Entry(f).writes
      BY <1>2, <2>0, <2>1
    <2>3. /\ fl[f].pc = "peer" => Fit(Home[f], fl[f].p, fl[f].expect)
          /\ fl[f].pc = "done" => Fit(Home[f], fl[f].p, fl[f].buf)
      BY <2>2 DEF Vouched, FillsVouched
    <2> QED  BY <2>2, <2>3 DEF Stays
  <1> QED  BY <1>1, <1>2, VouchedThen

\* Manifests in place, being loaded and being published stay truthful.
LEMMA BlobsKept ==
    ASSUME Shapes, Clocks, Vouched, ~lowered, (hist' = hist /\ misdated \subseteq misdated') \/ Keeps, blob' = blob,
           \A f \in Fillers : fl'[f].pc \in {"stat", "merge"} =>
                fl'[f].seen = blob \/ (Loading(f) /\ fl'[f].seen = fl[f].seen),
           \A c \in Closers : pb'[c].pc \in {"write", "clear"} =>
                /\ pb[c].pc \in {"write", "clear"}
                /\ pb'[c].dig = pb[c].dig /\ pb'[c].id = pb[c].id /\ pb'[c].fsize = pb[c].fsize
    PROVE  BlobsVouched'
PROOF
  <1>1. Keeps
    BY DEF Keeps, Superseded, SupersededThen
  <1>2. ASSUME NEW dig, NEW id \in Int, NEW size, id <= clock, Truthful(dig, id, size)
        PROVE  TruthThen(dig, id, size)
    BY <1>1, <1>2 DEF Truthful, TruthThen, Keeps, Outdated, Misdated, MisdatedThen
  <1>3. /\ blob.id \in Nat /\ \A c \in Closers : pb[c].id \in Nat
        /\ \A f \in Fillers : Loading(f) => fl[f].seen.id \in Nat
    BY Numbers DEF Shapes, BlobShape, PubType
  <1>4. /\ blob.id <= clock /\ \A c \in Closers : pb[c].id <= clock
        /\ \A f \in Fillers : Loading(f) => fl[f].seen.id <= clock
    BY DEF Clocks
  <1>5. TruthThen(blob.dig, blob.id, blob.size)
    BY <1>2, <1>3, <1>4 DEF Vouched, BlobsVouched
  <1>6. ASSUME NEW f \in Fillers, Loading(f) PROVE TruthThen(fl[f].seen.dig, fl[f].seen.id, fl[f].seen.size)
    BY <1>2, <1>3, <1>4, <1>6 DEF Vouched, BlobsVouched
  <1>7. ASSUME NEW c \in Closers, pb[c].pc \in {"write", "clear"} PROVE TruthThen(pb[c].dig, pb[c].id, pb[c].fsize)
    BY <1>2, <1>3, <1>4, <1>7 DEF Vouched, BlobsVouched
  <1> QED  BY <1>5, <1>6, <1>7, VouchedThen

\* The piece being written: a copy leaves it with the write's content, or
\* unmarked; a patched piece is the content before the write, patched.
LEMMA CopyVouched ==
    ASSUME Shapes, Clocks, Own, Vouched, ~lowered, CopyIntoCache
    PROVE  EntriesVouched' /\ FillsVouched'
PROOF
  <1> DEFINE p == wr.p
             e == ent'[Writer]
  <1>0. wr.pc = "copy" /\ UNCHANGED <<hist, clock, fl, misdated>> /\ p \in Pieces /\ wr'.pc \in {"idle", "note"}
    BY MyNumbers DEF CopyIntoCache, IdleWrite, Shapes, WriteType
  <1>1. /\ \A m \in Nodes \ {Writer} : ent'[m] = ent[m]
        /\ e.id = Mine.id /\ e.writes = Mine.writes + 1 /\ e.msize = Mine.msize
        /\ \A q \in Pieces \ {p} : e.cache[q] = Mine.cache[q] /\ e.hash[q] = Mine.hash[q]
        /\ \/ e.cache[p] \in {None, clock}
           \/ Mine.cache[p] # None /\ e.cache[p] = IF Mine.cache[p] \in {wr.before, clock} THEN clock ELSE Torn
        /\ e.hash[p] \in {clock, None}
    BY CopyEffect
  <1>2. Mine.id = clock
    BY <1>0 DEF Own
  <1>3. \A m \in Nodes, q \in Pieces : DueThen(m, q) = ent'[m].id /\ ent'[m].id = ent[m].id
    BY <1>0, <1>1 DEF DueThen
  <1>4. FitThen(Writer, p, clock)
    <2>1. odata[p] = clock
      BY <1>0 DEF Clocks
    <2> QED  BY <1>0, <2>1, HistNumbers, MyNumbers DEF FitThen, SupersededThen
  <1>5. Mine.cache[p] # None => Mine.cache[p] \in {wr.before, clock} \/ FitThen(Writer, p, Torn)
    <2>1. ASSUME Mine.cache[p] # None PROVE Fit(Writer, p, Mine.cache[p])
      BY <1>0, <2>1, MyNumbers DEF Vouched, EntriesVouched
    <2>2. /\ wr.before \in hist[p] /\ wr.before < clock
          /\ \A t \in hist[p] : t = clock \/ t <= wr.before
      BY <1>0 DEF Clocks
    <2>3. Due(Writer, p) = clock - 1
      BY <1>0 DEF Due
    <2> DEFINE v == Mine.cache[p]
    <2>4. CASE v # None /\ Excused(Writer, p, v)
      <3>1. PICK u \in Stamps : <<p, u>> \in misdated
        BY <2>4 DEF Excused, Misdated
      <3>2. MisdatedThen(p, Torn) /\ ent'[Writer].msize # None
        BY <1>0, <1>1, <2>4, <3>1 DEF Excused, MisdatedThen
      <3> QED  BY <3>2 DEF FitThen
    <2>5. CASE v # None /\ ~Superseded(p, v, clock - 1)
      <3>1. v \in hist[p] \cup {Torn} /\ ~(v < wr.before)
        <4>1. wr.before \in hist[p] /\ wr.before <= clock - 1
          BY <1>0, <2>2, HistNumbers, MyNumbers
        <4> QED  BY <2>1, <2>5, <4>1 DEF Fit, Superseded
      <3>2. wr.before \in Nat
        BY <1>0, <2>2, HistNumbers
      <3>3. v # Torn
        BY <3>1, <3>2, Numbers
      <3>4. v \in Nat /\ (v = clock \/ v <= wr.before)
        BY <1>0, <2>2, <3>1, <3>3, HistNumbers
      <3> QED  BY <3>1, <3>2, <3>4
    <2> QED  BY <2>1, <2>3, <2>4, <2>5 DEF Fit
  <1>6. ASSUME NEW m \in Nodes, NEW q \in Pieces, m # Writer \/ q # p PROVE Stays(m, q)
    <2>1. Due(m, q) = ent[m].id
      BY <1>0, <1>6 DEF Due
    <2> QED  BY <1>0, <1>1, <1>3, <2>1, StaysSame, MyNumbers
  <1>7. ASSUME NEW m \in Nodes, NEW q \in Pieces
        PROVE  /\ ent'[m].cache[q] # None => FitThen(m, q, ent'[m].cache[q])
               /\ ent'[m].hash[q] # None => FitThen(m, q, ent'[m].hash[q])
    <2>1. CASE m = Writer /\ q = p
      BY <1>1, <1>4, <1>5, <2>1
    <2>2. CASE m # Writer \/ q # p
      <3>1. /\ ent[m].cache[q] # None => Fit(m, q, ent[m].cache[q])
            /\ ent[m].hash[q] # None => Fit(m, q, ent[m].hash[q])
        BY DEF Vouched, EntriesVouched
      <3>2. ent'[m].cache[q] = ent[m].cache[q] /\ ent'[m].hash[q] = ent[m].hash[q]
        BY <1>1, <2>2
      <3> QED  BY <1>6, <2>2, <3>1, <3>2 DEF Stays
    <2> QED  BY <2>1, <2>2
  <1>8. ASSUME NEW f \in Fillers, fl'[f].gen = ent'[Home[f]].writes
        PROVE  /\ fl'[f].pc = "peer" => FitThen(Home[f], fl'[f].p, fl'[f].expect)
               /\ fl'[f].pc = "done" => FitThen(Home[f], fl'[f].p, fl'[f].buf)
    <2>0. Home[f] \in Nodes /\ fl[f].p \in Pieces /\ fl[f].gen \in Nat /\ fl[f].gen <= Entry(f).writes
      BY Numbers DEF Vouched, Generations, Shapes, FillType
    <2>1. Home[f] # Writer
      BY <1>0, <1>1, <1>8, <2>0, MyNumbers
    <2>2. Stays(Home[f], fl[f].p) /\ fl[f].gen = Entry(f).writes
      BY <1>0, <1>1, <1>6, <1>8, <2>0, <2>1
    <2>3. /\ fl[f].pc = "peer" => Fit(Home[f], fl[f].p, fl[f].expect)
          /\ fl[f].pc = "done" => Fit(Home[f], fl[f].p, fl[f].buf)
      BY <2>2 DEF Vouched, FillsVouched
    <2> QED  BY <1>0, <2>2, <2>3 DEF Stays
  <1> QED  BY <1>7, <1>8, VouchedThen

LEMMA VouchedWrite ==
    ASSUME Shapes, Clocks, Own, Vouched, ~lowered, Write
    PROVE  EntriesVouched' /\ FillsVouched' /\ BlobsVouched'
PROOF
  <1>1. fl' = fl /\ pb' = pb /\ blob' = blob
    BY DEF Write, WriteLands, CacheFill, GetAfterWrite, CopyIntoCache, NoteOriginId
  <1>2. (hist' = hist /\ misdated' = misdated) \/ Keeps
    BY LandsKeeps DEF Write, CacheFill, GetAfterWrite, CopyIntoCache, NoteOriginId
  <1>3. BlobsVouched'
    BY <1>1, <1>2, BlobsKept
  <1>4. ASSUME NEW p \in Pieces, NEW whole \in BOOLEAN, WriteLands(p, whole)
        PROVE  EntriesVouched' /\ FillsVouched'
    <2>1. ent' = ent
      BY <1>4 DEF WriteLands
    <2> QED  BY <1>1, <1>4, <2>1, StaysLands, VouchedKept
  <1>5. CASE CacheFill \/ GetAfterWrite \/ NoteOriginId
    <2>0. UNCHANGED <<hist, clock, misdated>> /\ wr.pc # "idle" /\ wr.p \in Pieces
      BY <1>5, MyNumbers DEF CacheFill, GetAfterWrite, NoteOriginId
    <2>1. /\ \A m \in Nodes \ {Writer} : ent'[m] = ent[m]
          /\ \/ Wiped(Writer)
             \/ /\ ent'[Writer].cache = Mine.cache /\ ent'[Writer].hash = Mine.hash /\ ent'[Writer].writes = Mine.writes
                /\ ent'[Writer].id = clock /\ ent'[Writer].msize = Mine.msize
      <3>0. Mine.id <= clock
        BY MyNumbers DEF Clocks
      <3>1. CASE CacheFill
        BY <3>0, <3>1, CacheFillEffect, MyNumbers DEF Kept
      <3>2. CASE GetAfterWrite
        <4>1. osize \in Sizes /\ clock \in Stamps /\ Writer \in Nodes /\ ent' = [ent EXCEPT ![Writer] = Reconcile(@, osize, clock)]
          BY <3>2, MyNumbers DEF GetAfterWrite
        <4>2. /\ \A m \in Nodes \ {Writer} : ent'[m] = ent[m]
              /\ \/ ent'[Writer] = ent[Writer] /\ ent[Writer].size = osize /\ clock <= ent[Writer].id
                 \/ /\ Wiped(Writer) /\ ent'[Writer].size = osize /\ ent'[Writer].id = clock
                    /\ ent[Writer].size # osize \/ clock > ent[Writer].id
          BY <4>1, ReconcileEffect, Zenon
        <4> QED  BY <3>0, <4>2, MyNumbers
      <3>3. CASE NoteOriginId
        BY <3>0, <3>3, NoteEffect, MyNumbers DEF Kept
      <3> QED  BY <1>5, <3>1, <3>2, <3>3
    <2>2. (wr' = IdleWrite /\ wr.pc = "note") \/ (wr.pc \in {"fill", "get"} /\ wr' = [wr EXCEPT !.pc = "copy"])
      BY <1>5 DEF CacheFill, GetAfterWrite, NoteOriginId
    <2>3. ASSUME NEW q \in Pieces, ent'[Writer].id = clock, ent'[Writer].msize = Mine.msize PROVE Stays(Writer, q)
      <3>1. CASE wr.pc = "note"
        <4>1. Due(Writer, q) = Mine.id /\ Mine.id = clock /\ DueThen(Writer, q) = clock
          BY <2>2, <2>3, <3>1 DEF Due, DueThen, Own, IdleWrite
        <4> QED  BY <2>0, <2>3, <4>1, StaysSame, MyNumbers
      <3>2. CASE wr.pc \in {"fill", "get"} /\ wr' = [wr EXCEPT !.pc = "copy"]
        <4>1. wr'.p = wr.p /\ wr'.pc = "copy"
          BY <3>2 DEF Shapes, WriteType
        <4>2. CASE q = wr.p
          <5>1. Due(Writer, q) = Mine.id /\ Mine.id >= clock - 1 /\ DueThen(Writer, q) = clock - 1
            BY <2>0, <3>2, <4>1, <4>2 DEF Due, DueThen, Own
          <5>2. \A t \in hist[q] : t <= DueThen(Writer, q) => t <= Due(Writer, q)
            BY <5>1, HistNumbers, MyNumbers
          <5> QED  BY <2>0, <2>3, <5>1, <5>2, StaysSame, MyNumbers
        <4>3. CASE q # wr.p
          <5>1. Due(Writer, q) = Mine.id /\ DueThen(Writer, q) = clock /\ Mine.id >= clock - 1
            BY <2>0, <2>3, <3>2, <4>1, <4>3 DEF Due, DueThen, Own
          <5>2. clock \notin hist[q]
            BY <2>0, <4>3 DEF Clocks
          <5>3. \A t \in hist[q] : t <= DueThen(Writer, q) => t <= Due(Writer, q)
            BY <5>1, <5>2, HistNumbers, MyNumbers
          <5> QED  BY <2>0, <2>3, <5>1, <5>3, StaysSame, MyNumbers
        <4> QED  BY <4>2, <4>3
      <3> QED  BY <2>2, <3>1, <3>2
    <2>4. ASSUME NEW n \in Nodes, NEW q \in Pieces, n # Writer PROVE Stays(n, q)
      <3>1. Due(n, q) = ent[n].id /\ DueThen(n, q) = ent[n].id
        BY <2>1, <2>4 DEF Due, DueThen
      <3> QED  BY <2>0, <2>4, <3>1, StaysSame, MyNumbers
    <2> QED  BY <1>1, <1>3, <2>1, <2>3, <2>4, VouchedKept
  <1>6. CASE CopyIntoCache
    BY <1>3, <1>6, CopyVouched
  <1> QED  BY <1>3, <1>4, <1>5, <1>6 DEF Write

LEMMA VouchedOpen ==
    ASSUME Shapes, Clocks, Own, Vouched, ~lowered, NEW n \in Nodes, OpenStat(n) \/ OpenReconcile(n)
    PROVE  EntriesVouched' /\ FillsVouched' /\ BlobsVouched'
PROOF
  <1>1. UNCHANGED <<hist, clock, wr, fl, pb, blob, misdated>>
    BY DEF OpenStat, OpenReconcile
  <1>2. BlobsVouched'
    BY <1>1, BlobsKept
  <1>3. (\A m \in Nodes \ {n} : ent'[m] = ent[m]) /\ (Wiped(n) \/ ent'[n] = ent[n])
    <2>1. CASE OpenStat(n)
      BY <2>1 DEF OpenStat
    <2>2. CASE OpenReconcile(n)
      <3>1. op[n].size \in Sizes /\ op[n].id \in Stamps /\ ent' = [ent EXCEPT ![n] = Reconcile(@, op[n].size, op[n].id)]
        BY <2>2, MyNumbers DEF OpenReconcile
      <3> QED  BY <3>1, ReconcileEffect
    <2> QED  BY <2>1, <2>2
  <1>4. ASSUME NEW m \in Nodes, NEW q \in Pieces, ent'[m] = ent[m] PROVE Stays(m, q)
    <2>1. DueThen(m, q) = Due(m, q)
      BY <1>1, <1>4 DEF Due, DueThen
    <2> QED  BY <1>1, <1>4, <2>1, StaysSame, DueBounds
  <1> QED  BY <1>1, <1>2, <1>3, <1>4, VouchedKept

\* A step that at most drops marks.
LEMMA VouchedStill ==
    ASSUME Shapes, Clocks, Own, Vouched, ~lowered, UNCHANGED <<hist, clock, wr, fl>>, misdated \subseteq misdated',
           \A n \in Nodes : /\ ent'[n].id = ent[n].id /\ ent'[n].writes = ent[n].writes /\ ent'[n].hash = ent[n].hash
                            /\ ent'[n].msize = ent[n].msize
                            /\ \A p \in Pieces : ent'[n].cache[p] \in {ent[n].cache[p], None}
    PROVE  EntriesVouched' /\ FillsVouched'
PROOF
  <1>1. ASSUME NEW m \in Nodes, NEW q \in Pieces PROVE Stays(m, q)
    <2>1. DueThen(m, q) = Due(m, q)
      BY <1>1 DEF Due, DueThen
    <2> QED  BY <1>1, <2>1, StaysSame, DueBounds
  <1> QED  BY <1>1, VouchedKept

\* The snapshot of a publication is of digests good for the entry's identity,
\* or it misdates the one digest that a copy has not replaced yet.
LEMMA SnapshotTruthful ==
    ASSUME Shapes, Clocks, Own, Vouched, ~lowered, NEW c \in Closers, Snapshot(c)
    PROVE  TruthThen(Sampled(c), ent[Closes[c]].id, pb[c].fsize)
PROOF
  <1> DEFINE n == Closes[c]
             dig == Sampled(c)
  <1>0. hist' = hist /\ misdated \subseteq misdated' /\ n \in Nodes
    BY Numbers DEF Snapshot
  <1>1. SUFFICES ASSUME NEW p \in Pieces, dig[p] # None
                 PROVE  /\ dig[p] \in hist'[p] /\ p < pb[c].fsize
                        /\ SupersededThen(p, dig[p], ent[n].id) => MisdatedThen(p, dig[p])
    BY DEF TruthThen
  <1>2. dig[p] = ent[n].hash[p] /\ p < pb[c].fsize /\ dig[p] \in Stamps
    <2>1. dig[p] = ent[n].hash[p] /\ p < pb[c].fsize
      BY <1>1 DEF Sampled
    <2> QED  BY <1>0, <1>1, <2>1, MyNumbers DEF EntType, DigestMap
  <1>3. Fit(n, p, dig[p])
    BY <1>0, <1>1, <1>2 DEF Vouched, EntriesVouched
  <1>4. dig[p] \in hist[p]
    BY <1>2, <1>3, Numbers DEF Fit
  <1>5. CASE Superseded(p, dig[p], Due(n, p))
    <2>1. Misdated(p, dig[p])
      BY <1>3, <1>5 DEF Fit, Excused
    <2> QED  BY <1>0, <1>2, <1>4, <2>1 DEF Misdated, MisdatedThen
  <1>6. CASE ~Superseded(p, dig[p], Due(n, p)) /\ ~(n = Writer /\ wr.p = p /\ wr.pc = "copy")
    <2>1. Due(n, p) = ent[n].id
      BY <1>6 DEF Due
    <2> QED  BY <1>0, <1>2, <1>4, <1>6, <2>1 DEF Superseded, SupersededThen
  <1>7. CASE ~Superseded(p, dig[p], Due(n, p)) /\ n = Writer /\ wr.p = p /\ wr.pc = "copy"
    <2>1. Due(n, p) = clock - 1 /\ ent[n].id = clock
      BY <1>7 DEF Due, Own
    <2>2. /\ wr.before \in hist[p] /\ wr.before <= clock - 1
          /\ \A t \in hist[p] : t \in Nat /\ t <= clock /\ (t = clock \/ t <= wr.before)
      BY <1>7, HistNumbers, MyNumbers DEF Clocks
    <2>3. ~(dig[p] < wr.before)
      BY <1>7, <2>1, <2>2 DEF Superseded
    <2>4. dig[p] = clock \/ dig[p] = wr.before
      BY <1>4, <2>2, <2>3
    <2>5. CASE dig[p] = clock
      BY <1>0, <1>2, <1>4, <2>1, <2>2, <2>5 DEF SupersededThen
    <2>6. CASE dig[p] = wr.before
      <3>1. <<p, wr.before>> \in misdated'
        BY <1>7, <2>6 DEF Snapshot
      <3> QED  BY <1>0, <1>2, <1>4, <2>6, <3>1 DEF MisdatedThen
    <2> QED  BY <2>4, <2>5, <2>6
  <1> QED  BY <1>5, <1>6, <1>7

LEMMA VouchedPublish ==
    ASSUME Shapes, Clocks, Own, Vouched, ~lowered, NEW c \in Closers, Publish(c)
    PROVE  EntriesVouched' /\ FillsVouched' /\ BlobsVouched'
PROOF
  <1> DEFINE n == Closes[c]
  <1>1. UNCHANGED <<hist, clock, wr, fl>> /\ misdated \subseteq misdated' /\ n \in Nodes
    BY Numbers DEF Publish, Release, Snapshot, WriteBlob, ClearDirty
  <1>2. EntriesVouched' /\ FillsVouched'
    <2>1. CASE ClearDirty(c)
      BY <1>1, <2>1, ClearEffect, VouchedStill
    <2>2. CASE ~ClearDirty(c)
      <3>1. ent' = ent
        BY <2>2 DEF Publish, Release, Snapshot, WriteBlob
      <3> QED  BY <1>1, <3>1, VouchedStill
    <2> QED  BY <2>1, <2>2
  <1>3. ASSUME NEW dig, NEW id, NEW size, Truthful(dig, id, size) PROVE TruthThen(dig, id, size)
    BY <1>1, <1>3 DEF Truthful, TruthThen, Outdated, Misdated, MisdatedThen, Superseded, SupersededThen
  <1>4. \A m \in Closers : pb[m].pc \in {"write", "clear"} => TruthThen(pb[m].dig, pb[m].id, pb[m].fsize)
    BY <1>3 DEF Vouched, BlobsVouched
  <1>5. \A f \in Fillers : fl'[f].pc \in {"stat", "merge"} => TruthThen(fl'[f].seen.dig, fl'[f].seen.id, fl'[f].seen.size)
    BY <1>1, <1>3 DEF Vouched, BlobsVouched
  <1>6. TruthThen(blob.dig, blob.id, blob.size)
    BY <1>3 DEF Vouched, BlobsVouched
  <1>7. CASE Release(c) \/ ClearDirty(c)
    <2>1. blob' = blob /\ (\A m \in Closers \ {c} : pb'[m] = pb[m]) /\ pb'[c].pc \in {"idle", "snap"}
      <3>1. CASE Release(c)
        <4>1. pb'[c] = [IdlePub EXCEPT !.pc = "snap", !.fsize = ent[n].size] /\ blob' = blob /\ \A m \in Closers \ {c} : pb'[m] = pb[m]
          BY <3>1 DEF Release, Shapes
        <4> QED  BY <4>1 DEF IdlePub
      <3>2. CASE ClearDirty(c)
        BY <3>2 DEF ClearDirty, Shapes, IdlePub
      <3> QED  BY <1>7, <3>1, <3>2
    <2> QED  BY <1>2, <1>4, <1>5, <1>6, <2>1, VouchedThen
  <1>8. CASE Snapshot(c)
    <2> DEFINE dig == Sampled(c)
               m == Cardinality(Known(ent[n].hash))
               i == ent[n].id
               new == [pb[c] EXCEPT !.pc = "write", !.dig = dig, !.n = m, !.id = i]
    <2>1. blob' = blob /\ (\A k \in Closers \ {c} : pb'[k] = pb[k]) /\ pb'[c] \in {new, IdlePub}
      BY <1>8 DEF Snapshot, Shapes
    <2>2. TruthThen(dig, i, pb[c].fsize)
      BY <1>8, SnapshotTruthful
    <2> HIDE DEF dig, m, i
    <2>3. new.pc = "write" /\ new.dig = dig /\ new.id = i /\ new.fsize = pb[c].fsize
      BY DEF Shapes, PubType
    <2> HIDE DEF new
    <2>4. pb'[c].pc \in {"write", "clear"} => TruthThen(pb'[c].dig, pb'[c].id, pb'[c].fsize)
      BY <2>1, <2>2, <2>3 DEF IdlePub
    <2> QED  BY <1>2, <1>4, <1>5, <1>6, <2>1, <2>4, VouchedThen
  <1>9. CASE WriteBlob(c)
    <2>1. \A m \in Closers \ {c} : pb'[m] = pb[m]
      BY <1>9 DEF WriteBlob, Shapes
    <2>2. pb[c].pc = "write" /\ TruthThen(pb[c].dig, pb[c].id, pb[c].fsize)
      BY <1>4, <1>9 DEF WriteBlob
    <2>3. pb'[c].pc = "idle" \/ (pb'[c].dig = pb[c].dig /\ pb'[c].id = pb[c].id /\ pb'[c].fsize = pb[c].fsize)
      BY <1>9 DEF WriteBlob, Shapes, PubType, IdlePub
    <2>4. blob' = blob \/ (blob'.dig = pb[c].dig /\ blob'.id = pb[c].id /\ blob'.size = pb[c].fsize)
      BY <1>9 DEF WriteBlob
    <2> QED  BY <1>2, <1>4, <1>5, <1>6, <2>1, <2>2, <2>3, <2>4, VouchedThen
  <1> QED  BY <1>7, <1>8, <1>9 DEF Publish

\* A filler: the origin's content is current, a peer's meets a digest that is,
\* and a merged digest is of the entry's identity.
LEMMA VouchedFill ==
    ASSUME Shapes, Clocks, Own, Vouched, ~lowered, NEW f \in Fillers, Fill(f)
    PROVE  EntriesVouched' /\ FillsVouched' /\ BlobsVouched'
PROOF
  <1> DEFINE h == Home[f]
             p == fl[f].p
  <1>0. UNCHANGED <<hist, clock, wr, blob, pb, odata, misdated>> /\ h \in Nodes /\ p \in Pieces
    BY FillFrame, Numbers DEF Shapes, FillType
  <1>1. \A g \in Fillers \ {f} : fl'[g] = fl[g]
    BY FillPlaces DEF Shapes
  <1>2. BlobsVouched'
    BY <1>0, <1>1, FillSeen, BlobsKept
  <1>3. \A n \in Nodes : /\ ent'[n].id = ent[n].id /\ ent'[n].writes = ent[n].writes
                         /\ ent[n].msize # None => ent'[n].msize # None
    <2>1. CASE LoadMerge(f)
      BY <2>1, MergeEffect
    <2>2. CASE CompleteFill(f)
      BY <2>2, CompleteEffect
    <2>3. CASE Quiet
      BY <2>3 DEF Quiet
    <2> QED  BY <2>1, <2>2, <2>3, FillEntries
  <1>4. ASSUME NEW n \in Nodes, NEW q \in Pieces PROVE Stays(n, q)
    <2>1. DueThen(n, q) = Due(n, q)
      BY <1>0, <1>3, <1>4 DEF Due, DueThen
    <2> QED  BY <1>0, <1>3, <1>4, <2>1, StaysSame, DueBounds
  <1>5. \A n \in Nodes, q \in Pieces : /\ ent[n].cache[q] # None => FitThen(n, q, ent[n].cache[q])
                                       /\ ent[n].hash[q] # None => FitThen(n, q, ent[n].hash[q])
    BY <1>4 DEF Vouched, EntriesVouched, Stays
  <1>6. EntriesVouched'
    <2>1. CASE LoadMerge(f)
      <3>1. /\ \A n \in Nodes \ {h} : ent'[n] = ent[n]
            /\ ent'[h].cache = ent[h].cache
            /\ (ent'[h].msize = ent[h].msize /\ ent'[h].hash = ent[h].hash) \/ ent'[h].msize # None
            /\ \A q \in Pieces : \/ ent'[h].hash[q] = ent[h].hash[q]
                                 \/ ent'[h].hash[q] = fl[f].seen.dig[q] /\ fl[f].seen.id = ent[h].id
        BY <2>1, MergeEffect
      <3>2. Truthful(fl[f].seen.dig, fl[f].seen.id, fl[f].seen.size)
        BY <2>1 DEF LoadMerge, Vouched, BlobsVouched
      <3>3. ASSUME NEW q \in Pieces, fl[f].seen.dig[q] # None, fl[f].seen.id = ent[h].id, ent'[h].msize # None
            PROVE  FitThen(h, q, fl[f].seen.dig[q])
        <4> DEFINE v == fl[f].seen.dig[q]
        <4>1. v \in hist[q] /\ (Superseded(q, v, ent[h].id) => Misdated(q, v))
          BY <3>2, <3>3 DEF Truthful, Outdated
        <4>2. DueThen(h, q) \in Int /\ DueThen(h, q) <= ent[h].id
          <5>1. DueThen(h, q) = Due(h, q)
            BY <1>0, <1>3 DEF Due, DueThen
          <5> QED  BY <1>0, <5>1, DueBounds
        <4>3. SupersededThen(q, v, DueThen(h, q)) => Superseded(q, v, ent[h].id)
          BY <1>0, <4>2, HistNumbers, MyNumbers DEF Superseded, SupersededThen
        <4> QED  BY <1>0, <3>3, <4>1, <4>3 DEF FitThen, Misdated, MisdatedThen
      <3>4. ASSUME NEW q \in Pieces, ent'[h].hash[q] # None PROVE FitThen(h, q, ent'[h].hash[q])
        <4>1. CASE ent'[h].hash[q] = ent[h].hash[q]
          BY <1>0, <1>5, <3>4, <4>1
        <4>2. CASE ent'[h].hash[q] # ent[h].hash[q]
          BY <3>1, <3>3, <3>4, <4>2
        <4> QED  BY <4>1, <4>2
      <3> QED  BY <1>5, <3>1, <3>4, VouchedThen
    <2>2. CASE CompleteFill(f)
      <3>1. /\ \A n \in Nodes \ {h} : ent'[n] = ent[n]
            /\ \A q \in Pieces \ {p} : ent'[h].cache[q] = ent[h].cache[q] /\ ent'[h].hash[q] = ent[h].hash[q]
            /\ \/ ent'[h].cache = ent[h].cache /\ ent'[h].hash = ent[h].hash
               \/ /\ fl[f].pc = "done" /\ fl[f].gen = ent[h].writes
                  /\ ent'[h].cache[p] = fl[f].buf /\ ent'[h].hash[p] = fl[f].buf
        BY <2>2, CompleteEffect
      <3>2. fl[f].pc = "done" /\ fl[f].gen = ent[h].writes => FitThen(h, p, fl[f].buf)
        BY <1>0, <1>4 DEF Vouched, FillsVouched, Stays
      <3>3. \A q \in Pieces : /\ ent'[h].cache[q] # None => FitThen(h, q, ent'[h].cache[q])
                              /\ ent'[h].hash[q] # None => FitThen(h, q, ent'[h].hash[q])
        BY <1>0, <1>5, <3>1, <3>2
      <3> QED  BY <1>5, <3>1, <3>3, VouchedThen
    <2>3. CASE Quiet
      BY <1>5, <2>3, VouchedThen DEF Quiet
    <2> QED  BY <2>1, <2>2, <2>3, FillEntries
  <1>7. ASSUME NEW g \in Fillers, fl'[g].gen = ent'[Home[g]].writes
        PROVE  /\ fl'[g].pc = "peer" => FitThen(Home[g], fl'[g].p, fl'[g].expect)
               /\ fl'[g].pc = "done" => FitThen(Home[g], fl'[g].p, fl'[g].buf)
    <2>0. Home[g] \in Nodes /\ fl[g].p \in Pieces
      BY Numbers DEF Shapes, FillType
    <2>1. fl[g].gen = Entry(g).writes =>
            /\ fl[g].pc = "peer" => FitThen(Home[g], fl[g].p, fl[g].expect)
            /\ fl[g].pc = "done" => FitThen(Home[g], fl[g].p, fl[g].buf)
      BY <1>4, <2>0 DEF Vouched, FillsVouched, Stays
    <2>2. CASE g # f
      BY <1>1, <1>3, <1>7, <2>0, <2>1, <2>2
    <2>3. CASE g = f /\ fl'[f].pc \in {"peer", "done"}
      <3>1. /\ fl'[f].p = p /\ fl'[f].gen = fl[f].gen
            /\ fl'[f].pc = "peer" => fl'[f].expect = ent[h].hash[p] /\ fl'[f].expect # None
            /\ fl'[f].pc = "done" => fl'[f].buf = odata[p] \/ (fl[f].pc = "peer" /\ fl'[f].buf = fl[f].expect)
        BY <2>3, FillSays
      <3>2. fl[f].gen = Entry(f).writes
        BY <1>0, <1>3, <1>7, <2>3, <3>1
      <3>3. FitThen(h, p, odata[p])
        <4>1. Fit(h, p, odata[p])
          BY <1>0, HistNumbers DEF Fit, Superseded
        <4> QED  BY <1>0, <1>4, <4>1 DEF Stays
      <3> QED  BY <1>0, <1>5, <2>1, <2>3, <3>1, <3>2, <3>3
    <2> QED  BY <2>2, <2>3
  <1>8. FillsVouched'
    BY <1>7, VouchedThen
  <1> QED  BY <1>2, <1>6, <1>8

\* The write generation of an entry only grows.
LEMMA WritesGrow ==
    ASSUME Shapes, Clocks, [Next]_vars, NEW n \in Nodes
    PROVE  ent'[n].writes >= ent[n].writes
PROOF
  <1>0. ent[n].writes \in Nat /\ ent[n].writes >= ent[n].writes /\ ent[n].writes + 1 >= ent[n].writes
    BY MyNumbers
  <1>1. CASE Write
    <2>1. CASE GetAfterWrite
      <3>1. osize \in Sizes /\ clock \in Stamps /\ Writer \in Nodes /\ ent' = [ent EXCEPT ![Writer] = Reconcile(@, osize, clock)]
        BY <2>1, MyNumbers DEF GetAfterWrite
      <3> QED  BY <1>0, <3>1, ReconcileEffect DEF Wiped
    <2>2. CASE CacheFill
      BY <1>0, <2>2, CacheFillEffect DEF Wiped, Kept
    <2>3. CASE CopyIntoCache
      BY <1>0, <2>3, CopyEffect
    <2>4. CASE NoteOriginId
      BY <1>0, <2>4, NoteEffect DEF Kept
    <2>5. CASE \E p \in Pieces, whole \in BOOLEAN : WriteLands(p, whole)
      BY <1>0, <2>5 DEF WriteLands
    <2> QED  BY <1>1, <2>1, <2>2, <2>3, <2>4, <2>5 DEF Write
  <1>2. ASSUME NEW f \in Fillers, Fill(f) PROVE ent'[n].writes >= ent[n].writes
    <2>1. ent'[n].writes = ent[n].writes
      BY <1>2, FillEntries, MergeEffect, CompleteEffect DEF Quiet
    <2> QED  BY <1>0, <2>1
  <1>3. ASSUME NEW m \in Nodes, OpenReconcile(m) PROVE ent'[n].writes >= ent[n].writes
    <2>1. op[m].size \in Sizes /\ op[m].id \in Stamps /\ ent' = [ent EXCEPT ![m] = Reconcile(@, op[m].size, op[m].id)]
      BY <1>3, MyNumbers DEF OpenReconcile
    <2> QED  BY <1>0, <2>1, ReconcileEffect DEF Wiped
  <1>4. ASSUME NEW c \in Closers, ClearDirty(c) PROVE ent'[n].writes >= ent[n].writes
    BY <1>0, <1>4, ClearEffect
  <1>5. ASSUME NEW m \in Nodes, NEW p \in Pieces, DropMark(m, p) \/ RetryDue(m) PROVE ent'[n].writes >= ent[n].writes
    BY <1>0, <1>5, ShapesDrop DEF Quiet
  <1>6. CASE (\E m \in Nodes : OpenStat(m)) \/ \E c \in Closers : Release(c) \/ Snapshot(c) \/ WriteBlob(c)
    BY <1>0, <1>6 DEF OpenStat, Release, Snapshot, WriteBlob
  <1>7. CASE UNCHANGED vars
    BY <1>0, <1>7 DEF vars
  <1>8. 0 \in Pieces
    BY Numbers
  <1> QED  BY <1>1, <1>2, <1>3, <1>4, <1>5, <1>6, <1>7, <1>8 DEF Next, Publish

LEMMA StepGenerations == Shapes /\ Shapes' /\ Clocks /\ Generations /\ [Next]_vars => Generations'
PROOF
  <1> SUFFICES ASSUME Shapes, Shapes', Clocks, Generations, [Next]_vars, NEW f \in Fillers
               PROVE  fl'[f].gen <= ent'[Home[f]].writes
    BY DEF Generations
  <1>0. /\ Home[f] \in Nodes /\ fl[f].gen \in Nat /\ ent[Home[f]].writes \in Nat /\ fl[f].gen <= ent[Home[f]].writes
        /\ ent'[Home[f]].writes \in Nat
    BY Numbers DEF Shapes, FillType, EntType, Generations
  <1>1. ent'[Home[f]].writes >= ent[Home[f]].writes
    BY <1>0, WritesGrow
  <1>2. fl'[f].gen \in {0, fl[f].gen, ent[Home[f]].writes}
    <2>1. ASSUME NEW g \in Fillers, Fill(g) PROVE fl'[f].gen \in {0, fl[f].gen, ent[Home[f]].writes}
      BY <2>1, FillGen, FillPlaces DEF Shapes
    <2>2. CASE UNCHANGED fl
      BY <2>2
    <2>3. fl' = fl \/ \E g \in Fillers : Fill(g)
      BY DEF Next, vars, Write, WriteLands, CacheFill, GetAfterWrite, CopyIntoCache, NoteOriginId, Publish, Release,
             Snapshot, WriteBlob, ClearDirty, OpenStat, OpenReconcile, DropMark, RetryDue
    <2> QED  BY <2>1, <2>2, <2>3
  <1> QED  BY <1>0, <1>1, <1>2

LEMMA StepVouched ==
    Shapes /\ Shapes' /\ Clocks /\ Own /\ Vouched /\ [Next]_vars => Vouched'
PROOF
  <1> SUFFICES ASSUME Shapes, Shapes', Clocks, Own, Vouched, [Next]_vars PROVE Vouched'
    OBVIOUS
  <1>1. Generations'
    BY StepGenerations DEF Vouched
  <1> SUFFICES ASSUME ~lowered' PROVE EntriesVouched' /\ FillsVouched' /\ BlobsVouched'
    BY <1>1 DEF Vouched
  <1>2. ~lowered
    <2>1. lowered' = lowered \/ \E n \in Nodes : OpenReconcile(n)
      BY FillFrame DEF Next, vars, Write, WriteLands, CacheFill, GetAfterWrite, CopyIntoCache, NoteOriginId, Publish, Release,
             Snapshot, WriteBlob, ClearDirty, OpenStat, DropMark, RetryDue
    <2>2. ASSUME NEW n \in Nodes, OpenReconcile(n) PROVE ~lowered
      BY <2>2, Zenon DEF OpenReconcile
    <2> QED  BY <2>1, <2>2
  <1>3. ASSUME NEW n \in Nodes, NEW p \in Pieces, DropMark(n, p) \/ RetryDue(n)
        PROVE  EntriesVouched' /\ FillsVouched' /\ BlobsVouched'
    <2>1. UNCHANGED <<hist, clock, wr, fl, blob, pb, misdated>> /\ Quiet
      BY <1>3, ShapesDrop DEF DropMark, RetryDue
    <2> QED  BY <1>2, <2>1, BlobsKept, VouchedStill DEF Quiet
  <1>4. CASE UNCHANGED vars
    <2>1. UNCHANGED <<hist, clock, wr, fl, blob, pb, ent, misdated>>
      BY <1>4 DEF vars
    <2> QED  BY <1>2, <2>1, BlobsKept, VouchedStill
  <1>5. 0 \in Pieces
    BY Numbers
  <1> QED  BY <1>2, <1>3, <1>4, <1>5, VouchedWrite, VouchedOpen, VouchedPublish, VouchedFill DEF Next

-----------------------------------------------------------------------------
(* Publishing.                                                               *)

\* Between two writes an open finds the writer's entry as the file is.
LEMMA OpenIdle ==
    ASSUME Shapes, Clocks, Own, OpenReconcile(Writer), ~lowered, ~lowered', wr.pc = "idle"
    PROVE  ent' = ent
PROOF
  <1>1. /\ \A m \in Nodes \ {Writer} : ent'[m] = ent[m]
        /\ \/ ent'[Writer] = ent[Writer]
           \/ Mine.size # op[Writer].size \/ op[Writer].id > Mine.id
    <2>1. /\ op[Writer].size \in Sizes /\ op[Writer].id \in Stamps /\ Writer \in Nodes
          /\ ent' = [ent EXCEPT ![Writer] = Reconcile(@, op[Writer].size, op[Writer].id)]
      BY MyNumbers DEF OpenReconcile
    <2> QED  BY <2>1, ReconcileEffect
  <1>2. op[Writer].size = Mine.size \/ op[Writer].id >= Mine.id
    <2>1. ~(op[Writer].size # ent[Writer].size /\ op[Writer].id < ent[Writer].id)
      BY Zenon DEF OpenReconcile
    <2> QED  BY <2>1, MyNumbers
  <1>3. Mine.id = clock /\ Mine.size = osize
    BY DEF Own
  <1>4. op[Writer].id <= clock /\ (op[Writer].id = clock => op[Writer].size = osize)
    BY MyNumbers DEF OpenReconcile, Clocks
  <1>5. ent'[Writer] = ent[Writer]
    BY <1>1, <1>2, <1>3, <1>4, MyNumbers
  <1>6. ent \in [Nodes -> EntType] /\ DOMAIN ent' = Nodes
    BY DEF OpenReconcile, Shapes
  <1>7. ent' = [m \in Nodes |-> ent'[m]]
    BY DEF OpenReconcile, Shapes
  <1> QED  BY <1>1, <1>5, <1>6, <1>7

\* Between two writes only one content is current, until a manifest is loaded.
LEMMA OneContent ==
    ASSUME Shapes, Clocks, Own, ~lowered, wr.pc = "idle", Mine.msize = None, NEW p \in Pieces,
           NEW v \in Stamps, Fit(Writer, p, v)
    PROVE  v = odata[p]
PROOF
  <1>1. Due(Writer, p) = clock /\ ~Excused(Writer, p, v)
    BY DEF Due, Own, Excused
  <1>2. v \in hist[p]
    BY Numbers DEF Fit
  <1> QED  BY <1>1, <1>2, HistNumbers, MyNumbers DEF Fit, Superseded

\* Who publishes on the writer after a step.
PublishersThen == {c \in Closers : Closes[c] = Writer /\ pb'[c].pc # "idle"}

\* Publishing, of the state a step leads to.
AloneThen(c) ==
    /\ wr'.pc = "idle" /\ PublishersThen = {c}
    /\ pb'[c].pc = "snap" => pb'[c].fsize = ent'[Writer].size
    /\ pb'[c].pc \in {"write", "clear"} =>
         /\ ent'[Writer].dirty /\ pb'[c].n = Cardinality({p \in Pieces : pb'[c].dig[p] # None})
         /\ ent'[Writer].msize = None => \A p \in Pieces : pb'[c].dig[p] # None => ent'[Writer].hash[p] = pb'[c].dig[p]
    /\ pb'[c].pc = "clear" /\ blob'.by = Writer => blob'.dig = pb'[c].dig

CleanThen ==
    /\ PublishersThen = {}
    /\ ent'[Writer].msize = None /\ blob'.by = Writer =>
         \A p \in Pieces : ent'[Writer].hash[p] # None => blob'.dig[p] = ent'[Writer].hash[p]

LEMMA PublishingThen ==
    /\ lowered' => Publishing'
    /\ (\A c \in PublishersThen \ crowded' : AloneThen(c)) /\ (~unsure' /\ ~ent'[Writer].dirty => CleanThen)
          => Publishing'
PROOF
  <1>1. Publishers(Writer)' = PublishersThen
    BY DEF Publishers, PublishersThen
  <1>2. \A c : AloneThen(c) => Alone(c)'
    BY <1>1 DEF AloneThen, Alone, Known
  <1>3. CleanThen => Clean'
    BY <1>1 DEF CleanThen, Clean
  <1> QED  BY <1>1, <1>2, <1>3 DEF Publishing

\* A writer that is publishing is not clean, and if one of its publications is
\* not crowded it is the only one, with no write under way.
LEMMA PublisherFacts ==
    ASSUME Publishing, ~lowered, NEW c \in Publishers(Writer)
    PROVE  /\ unsure \/ Mine.dirty
           /\ Publishers(Writer) \ crowded # {} => c \notin crowded /\ Alone(c)
  BY DEF Publishing, Clean, Alone

\* A step that leaves publications alone, and what the writer's entry says.
LEMMA PublishingKept ==
    ASSUME Shapes, Publishing, ~lowered, UNCHANGED <<pb, crowded, unsure, wr, blob>>,
           wr.pc = "idle" =>
              /\ ent'[Writer].size = Mine.size /\ (Mine.dirty => ent'[Writer].dirty)
              /\ ent'[Writer].msize = None =>
                   Mine.msize = None /\ \A p \in Pieces : Mine.hash[p] # None => ent'[Writer].hash[p] = Mine.hash[p],
           \/ ent'[Writer].dirty
           \/ /\ ~Mine.dirty
              /\ ent'[Writer].msize = None =>
                   Mine.msize = None /\ \A p \in Pieces : ent'[Writer].hash[p] \in {Mine.hash[p], None}
    PROVE  Publishing'
PROOF
  <1>1. PublishersThen = Publishers(Writer)
    BY DEF Publishers, PublishersThen
  <1>2. ASSUME NEW c \in Publishers(Writer) \ crowded PROVE AloneThen(c)
    <2>1. Alone(c)
      BY <1>2 DEF Publishing
    <2>2. \A p \in Pieces : pb[c].pc \in {"write", "clear"} /\ Mine.msize = None /\ pb[c].dig[p] # None => Mine.hash[p] # None
      BY <2>1 DEF Alone
    <2> QED  BY <1>1, <2>1, <2>2 DEF Alone, AloneThen, Known
  <1>3. ASSUME ~unsure', ~ent'[Writer].dirty PROVE CleanThen
    <2>1. Clean
      BY <1>3 DEF Publishing
    <2> QED  BY <1>1, <1>3, <2>1 DEF Clean, CleanThen
  <1> QED  BY <1>1, <1>2, <1>3, PublishingThen

\* Writes: one that lands crowds every publication, and none is alone until it
\* is over.
LEMMA PublishingWrite ==
    ASSUME Shapes, Clocks, Own, Publishing, ~lowered, Write
    PROVE  Publishing'
PROOF
  <1>1. UNCHANGED <<pb, blob, unsure>>
    BY DEF Write, WriteLands, CacheFill, GetAfterWrite, CopyIntoCache, NoteOriginId
  <1>2. \/ ent'[Writer].dirty
        \/ /\ ~Mine.dirty /\ (ent'[Writer].msize = None => Mine.msize = None)
           /\ \A p \in Pieces : ent'[Writer].hash[p] \in {Mine.hash[p], None}
    <2>1. CASE CacheFill
      BY <2>1, CacheFillEffect DEF Wiped, Kept
    <2>2. CASE NoteOriginId
      BY <2>2, NoteEffect DEF Kept
    <2>3. CASE GetAfterWrite
      <3>1. osize \in Sizes /\ clock \in Stamps /\ Writer \in Nodes /\ ent' = [ent EXCEPT ![Writer] = Reconcile(@, osize, clock)]
        BY <2>3, MyNumbers DEF GetAfterWrite
      <3>2. ent'[Writer] = ent[Writer] \/ Wiped(Writer)
        BY <3>1, ReconcileEffect
      <3> QED  BY <3>2 DEF Wiped
    <2>4. CASE CopyIntoCache
      <3>1. /\ ent'[Writer].msize = Mine.msize
            /\ \A q \in Pieces \ {wr.p} : ent'[Writer].hash[q] = Mine.hash[q]
            /\ \/ ent'[Writer].dirty
               \/ ent'[Writer].hash[wr.p] = None /\ ~Mine.dirty
        BY <2>4, CopyEffect
      <3> QED  BY <3>1
    <2>5. CASE \E p \in Pieces, whole \in BOOLEAN : WriteLands(p, whole)
      BY <2>5 DEF WriteLands
    <2> QED  BY <2>1, <2>2, <2>3, <2>4, <2>5 DEF Write
  <1>3. PublishersThen = Publishers(Writer)
    BY <1>1 DEF Publishers, PublishersThen
  <1>4. Publishers(Writer) \ crowded' = {}
    <2>1. CASE \E p \in Pieces, whole \in BOOLEAN : WriteLands(p, whole)
      BY <2>1 DEF WriteLands
    <2>2. CASE CacheFill \/ GetAfterWrite \/ CopyIntoCache \/ NoteOriginId
      <3>1. wr.pc # "idle" /\ crowded' = crowded
        BY <2>2 DEF CacheFill, GetAfterWrite, CopyIntoCache, NoteOriginId
      <3> QED  BY <3>1 DEF Publishing, Alone
    <2> QED  BY <2>1, <2>2 DEF Write
  <1>5. ASSUME ~unsure', ~ent'[Writer].dirty PROVE CleanThen
    <2>1. Clean
      BY <1>1, <1>2, <1>5 DEF Publishing
    <2> QED  BY <1>1, <1>2, <1>3, <1>5, <2>1 DEF Clean, CleanThen
  <1> QED  BY <1>3, <1>4, <1>5, PublishingThen

\* A fill while the manifest is published: the digest it records is the one
\* the entry had, or a gap's.
LEMMA PublishingFill ==
    ASSUME Shapes, Clocks, Own, Vouched, Publishing, ~lowered, NEW f \in Fillers, Fill(f)
    PROVE  Publishing'
PROOF
  <1>0. UNCHANGED <<pb, crowded, unsure, wr, blob>> /\ Writer \in Nodes
    BY FillFrame, Numbers
  <1>1. CASE ent'[Writer] = ent[Writer]
    BY <1>0, <1>1, PublishingKept
  <1>2. CASE Quiet
    BY <1>0, <1>2, PublishingKept DEF Quiet
  <1>3. CASE LoadMerge(f) /\ Home[f] = Writer
    <2>1. /\ ent'[Writer].size = Mine.size /\ ent'[Writer].dirty = Mine.dirty
          /\ (ent'[Writer].msize = Mine.msize /\ ent'[Writer].hash = Mine.hash) \/ ent'[Writer].msize # None
      BY <1>3, MergeEffect
    <2> QED  BY <1>0, <2>1, PublishingKept
  <1>4. CASE CompleteFill(f) /\ Home[f] = Writer
    <2> DEFINE q == fl[f].p
    <2>1. /\ ent'[Writer].size = Mine.size /\ ent'[Writer].msize = Mine.msize
          /\ \A p \in Pieces \ {q} : ent'[Writer].hash[p] = Mine.hash[p]
          /\ \/ ent'[Writer].hash = Mine.hash /\ ent'[Writer].dirty = Mine.dirty
             \/ /\ fl[f].pc = "done" /\ fl[f].gen = Mine.writes /\ ent'[Writer].dirty
                /\ ent'[Writer].hash[q] = fl[f].buf
      BY <1>4, CompleteEffect
    <2>2. CASE ent'[Writer].hash = Mine.hash /\ ent'[Writer].dirty = Mine.dirty
      BY <1>0, <2>1, <2>2, PublishingKept
    <2>3. CASE /\ fl[f].pc = "done" /\ fl[f].gen = Mine.writes /\ ent'[Writer].dirty
               /\ ent'[Writer].hash[q] = fl[f].buf
      <3>1. q \in Pieces /\ fl[f].buf \in Stamps
        BY DEF Shapes, FillType
      <3>2. Fit(Writer, q, fl[f].buf)
        BY <1>4, <2>3 DEF Vouched, FillsVouched
      <3>3. Mine.hash[q] # None => Fit(Writer, q, Mine.hash[q]) /\ Mine.hash[q] \in Stamps
        <4>1. Mine.hash[q] # None => Mine.hash[q] \in Stamps
          BY <3>1, MyNumbers DEF EntType, DigestMap
        <4> QED  BY <1>0, <3>1, <4>1 DEF Vouched, EntriesVouched
      <3>4. wr.pc = "idle" /\ Mine.msize = None /\ Mine.hash[q] # None => fl[f].buf = Mine.hash[q]
        BY <3>1, <3>2, <3>3, OneContent
      <3> QED  BY <1>0, <2>1, <2>3, <3>4, PublishingKept
    <2> QED  BY <2>1, <2>2, <2>3
  <1> QED  BY <1>0, <1>1, <1>2, <1>3, <1>4, FillEntries, MergeEffect, CompleteEffect

\* As many digests as were published, and all of those: no other.
LEMMA SameDigests ==
    ASSUME NEW d, NEW e, \A p \in Pieces : d[p] # None => e[p] = d[p], Cardinality(Known(e)) = Cardinality(Known(d))
    PROVE  \A p \in Pieces : e[p] # None => e[p] = d[p]
PROOF
  <1>1. Known(d) \subseteq Known(e) /\ Known(e) \subseteq Pieces
    BY DEF Known
  <1>2. IsFiniteSet(Pieces)
    BY Numbers, FS_Interval DEF Pieces
  <1>3. IsFiniteSet(Known(e))
    BY <1>1, <1>2, FS_Subset
  <1>4. Known(d) = Known(e)
    BY <1>1, <1>3, FS_Subset
  <1> QED  BY <1>4 DEF Known

\* Publications of other nodes: theirs is not the writer's manifest.
LEMMA PublishingElse ==
    ASSUME Shapes, Publishing, ~lowered, NEW c \in Closers, Closes[c] # Writer, Publish(c)
    PROVE  Publishing'
PROOF
  <1>0. wr' = wr /\ Writer \in Nodes /\ pb \in [Closers -> PubType]
    BY Numbers DEF Publish, Release, Snapshot, WriteBlob, ClearDirty, Shapes
  <1>1. \A d \in Closers \ {c} : pb'[d] = pb[d]
    BY <1>0 DEF Publish, Release, Snapshot, WriteBlob, ClearDirty
  <1>2. blob' = blob \/ blob'.by # Writer
    BY DEF Publish, Release, Snapshot, WriteBlob, ClearDirty
  <1>3. ent'[Writer] = ent[Writer]
    <2>1. CASE ClearDirty(c)
      BY <1>0, <2>1, ClearEffect
    <2> QED  BY <2>1 DEF Publish, Release, Snapshot, WriteBlob
  <1>4. unsure' = unsure /\ crowded' \in {crowded, crowded \ {c}}
    BY DEF Publish, Release, Snapshot, WriteBlob, ClearDirty
  <1>5. PublishersThen = Publishers(Writer) /\ c \notin Publishers(Writer)
    BY <1>1 DEF Publishers, PublishersThen
  <1>6. ASSUME NEW d \in PublishersThen \ crowded' PROVE AloneThen(d)
    <2>1. d \in Publishers(Writer) \ crowded /\ d # c /\ d \in Closers
      BY <1>4, <1>5, <1>6 DEF Publishers
    <2>2. Alone(d)
      BY <2>1 DEF Publishing
    <2> QED  BY <1>0, <1>1, <1>2, <1>3, <1>5, <2>1, <2>2 DEF Alone, AloneThen, Known
  <1>7. ASSUME ~unsure', ~ent'[Writer].dirty PROVE CleanThen
    <2>1. Clean
      BY <1>3, <1>4, <1>7 DEF Publishing
    <2> QED  BY <1>2, <1>3, <1>5, <2>1 DEF Clean, CleanThen
  <1> QED  BY <1>6, <1>7, PublishingThen

\* The start of a publication: it crowds those under way, unless there are none
\* and no write either.
LEMMA PublishingRelease ==
    ASSUME Shapes, Publishing, ~lowered, NEW c \in Closers, Closes[c] = Writer, Release(c)
    PROVE  Publishing'
PROOF
  <1>1. /\ wr' = wr /\ ent' = ent /\ blob' = blob /\ Mine.dirty
        /\ pb'[c] = [IdlePub EXCEPT !.pc = "snap", !.fsize = Mine.size]
        /\ \A d \in Closers \ {c} : pb'[d] = pb[d]
    BY DEF Release, Shapes
  <1>2. pb'[c].pc = "snap" /\ pb'[c].fsize = Mine.size
    BY <1>1 DEF IdlePub
  <1>3. PublishersThen = Publishers(Writer) \cup {c}
    BY <1>1, <1>2 DEF Publishers, PublishersThen
  <1>4. ASSUME NEW d \in PublishersThen \ crowded' PROVE AloneThen(d)
    <2>1. wr.pc = "idle" /\ Publishers(Writer) = {} /\ d = c
      BY <1>3, <1>4 DEF Release
    <2> QED  BY <1>1, <1>2, <1>3, <2>1 DEF AloneThen
  <1> QED  BY <1>1, <1>4, PublishingThen

LEMMA PublishingPublish ==
    ASSUME Shapes, Clocks, Own, Publishing, ~lowered, NEW c \in Closers, Closes[c] = Writer,
           Snapshot(c) \/ WriteBlob(c) \/ ClearDirty(c)
    PROVE  Publishing'
PROOF
  <1>0. wr' = wr /\ Writer \in Nodes /\ crowded' = crowded /\ pb[c].pc # "idle" /\ pb[c] \in PubType
    BY Numbers DEF Snapshot, WriteBlob, ClearDirty, Shapes
  <1>1. c \in Publishers(Writer)
    BY <1>0 DEF Publishers
  <1>2. /\ unsure \/ Mine.dirty
        /\ Publishers(Writer) \ crowded # {} => c \notin crowded /\ Alone(c)
    BY <1>1, PublisherFacts
  <1>3. /\ \A d \in Closers \ {c} : pb'[d] = pb[d]
        /\ PublishersThen \subseteq Publishers(Writer)
    <2>1. \A d \in Closers \ {c} : pb'[d] = pb[d]
      BY DEF Snapshot, WriteBlob, ClearDirty, Shapes
    <2> QED  BY <1>0, <1>1, <2>1 DEF Publishers, PublishersThen
  <1>4. CASE c \in crowded
    <2>1. PublishersThen \ crowded' = {}
      BY <1>0, <1>2, <1>3, <1>4
    <2>2. unsure' \/ ent'[Writer].dirty
      <3>1. CASE ClearDirty(c)
        BY <1>2, <1>4, <3>1, ClearEffect DEF ClearDirty, Shapes, EntType
      <3>2. CASE Snapshot(c) \/ WriteBlob(c)
        BY <1>2, <3>2 DEF Snapshot, WriteBlob
      <3> QED  BY <3>1, <3>2
    <2> QED  BY <2>1, <2>2, PublishingThen
  <1>5. CASE c \notin crowded
    <2>1. Alone(c) /\ wr.pc = "idle" /\ Publishers(Writer) = {c}
      BY <1>1, <1>2, <1>5 DEF Alone
    <2>2. PublishersThen = IF pb'[c].pc = "idle" THEN {} ELSE {c}
      BY <1>0, <1>1, <1>3, <2>1 DEF Publishers, PublishersThen
    <2>3. CASE Snapshot(c)
      <3> DEFINE dig == Sampled(c)
                 m == Cardinality(Known(Mine.hash))
                 i == Mine.id
                 new == [pb[c] EXCEPT !.pc = "write", !.dig = dig, !.n = m, !.id = i]
      <3>1. /\ ent' = ent /\ blob' = blob /\ unsure' = unsure
            /\ pb'[c] = IdlePub \/ (Mine.dirty /\ pb'[c] = new)
        BY <1>0, <2>3 DEF Snapshot, Shapes
      <3>2. \A p \in Pieces : dig[p] = Mine.hash[p]
        <4>1. pb[c].fsize = Mine.size
          BY <2>1, <2>3 DEF Alone, Snapshot
        <4> QED  BY <4>1 DEF Sampled, Own
      <3>3. {p \in Pieces : dig[p] # None} = Known(Mine.hash)
        BY <3>2 DEF Known
      <3> HIDE DEF dig, m, i
      <3>4. new.pc = "write" /\ new.dig = dig /\ new.n = m
        BY <1>0 DEF PubType
      <3> HIDE DEF new
      <3>5. CASE pb'[c] = IdlePub
        <4>1. PublishersThen = {}
          BY <2>2, <3>5 DEF IdlePub
        <4> QED  BY <1>2, <3>1, <4>1, PublishingThen
      <3>6. CASE Mine.dirty /\ pb'[c] = new
        <4>1. pb'[c].n = Cardinality({p \in Pieces : pb'[c].dig[p] # None})
          BY <3>3, <3>4, <3>6 DEF m
        <4>2. AloneThen(c)
          BY <1>0, <2>1, <2>2, <3>1, <3>2, <3>4, <3>6, <4>1 DEF AloneThen
        <4> QED  BY <2>2, <3>1, <3>6, <4>2, PublishingThen
      <3> QED  BY <3>1, <3>5, <3>6
    <2>4. CASE WriteBlob(c)
      <3>1. ent' = ent /\ pb[c].pc = "write" /\ unsure' = unsure
        BY <2>4 DEF WriteBlob
      <3>2. CASE blob' = blob /\ pb'[c] = IdlePub
        <4>1. PublishersThen = {}
          BY <2>2, <3>2 DEF IdlePub
        <4> QED  BY <1>2, <3>1, <4>1, PublishingThen
      <3>3. CASE blob'.dig = pb[c].dig /\ pb'[c] = [pb[c] EXCEPT !.pc = "clear"]
        <4>1. pb'[c].pc = "clear" /\ pb'[c].dig = pb[c].dig /\ pb'[c].n = pb[c].n
          BY <1>0, <3>3 DEF PubType
        <4>2. AloneThen(c)
          BY <1>0, <2>1, <2>2, <3>1, <3>3, <4>1 DEF Alone, AloneThen, Known
        <4> QED  BY <1>2, <2>2, <3>1, <4>1, <4>2, PublishingThen
      <3> QED  BY <1>0, <2>4, <3>2, <3>3 DEF WriteBlob, Shapes
    <2>5. CASE ClearDirty(c)
      <3>1. blob' = blob /\ pb[c].pc = "clear" /\ pb'[c] = IdlePub
        BY <2>5 DEF ClearDirty, Shapes
      <3>2. PublishersThen = {}
        BY <2>2, <3>1 DEF IdlePub
      <3>3. /\ ent'[Writer].hash = Mine.hash /\ ent'[Writer].msize = Mine.msize
            /\ ent'[Writer].dirty \/ ~Mine.dirty \/ Cardinality(Known(Mine.hash)) = pb[c].n
        BY <2>5, ClearEffect
      <3>4. /\ Mine.dirty /\ pb[c].n = Cardinality(Known(pb[c].dig))
            /\ Mine.msize = None => \A p \in Pieces : pb[c].dig[p] # None => Mine.hash[p] = pb[c].dig[p]
            /\ blob.by = Writer => blob.dig = pb[c].dig
        BY <2>1, <3>1 DEF Alone
      <3>5. ent'[Writer].dirty \/ Mine.msize # None \/ \A p \in Pieces : Mine.hash[p] # None => Mine.hash[p] = pb[c].dig[p]
        BY <3>3, <3>4, SameDigests
      <3>6. ent'[Writer].dirty \/ CleanThen
        BY <3>1, <3>2, <3>3, <3>4, <3>5 DEF CleanThen
      <3> QED  BY <3>2, <3>6, PublishingThen
    <2> QED  BY <2>3, <2>4, <2>5
  <1> QED  BY <1>4, <1>5

LEMMA StepPublishing ==
    ASSUME Shapes, Clocks, Own, Vouched, Publishing, [Next]_vars
    PROVE  Publishing'
PROOF
  <1> SUFFICES ASSUME ~lowered' PROVE Publishing'
    BY PublishingThen
  <1>2. ~lowered
    <2>1. lowered' = lowered \/ \E n \in Nodes : OpenReconcile(n)
      BY FillFrame DEF Next, vars, Write, WriteLands, CacheFill, GetAfterWrite, CopyIntoCache, NoteOriginId, Publish, Release,
             Snapshot, WriteBlob, ClearDirty, OpenStat, DropMark, RetryDue
    <2>2. ASSUME NEW n \in Nodes, OpenReconcile(n) PROVE ~lowered
      BY <2>2, Zenon DEF OpenReconcile
    <2> QED  BY <2>1, <2>2
  <1>3. ASSUME NEW n \in Nodes, OpenReconcile(n) PROVE Publishing'
    <2>1. UNCHANGED <<pb, crowded, unsure, wr, blob>> /\ Writer \in Nodes
      BY <1>3, Numbers DEF OpenReconcile
    <2>2. CASE n # Writer
      <3>1. ent'[Writer] = ent[Writer]
        BY <1>3, <2>1, <2>2 DEF OpenReconcile, Shapes
      <3> QED  BY <1>2, <2>1, <3>1, PublishingKept
    <2>3. CASE n = Writer /\ wr.pc = "idle"
      <3>1. ent' = ent
        BY <1>2, <1>3, <2>3, OpenIdle
      <3> QED  BY <1>2, <2>1, <3>1, PublishingKept
    <2>4. CASE n = Writer /\ wr.pc # "idle"
      <3>1. ent'[Writer] = ent[Writer] \/ Wiped(Writer)
        BY <1>3, <2>4, OpenMine
      <3> QED  BY <1>2, <2>1, <2>4, <3>1, PublishingKept DEF Wiped
    <2> QED  BY <2>2, <2>3, <2>4
  <1>4. ASSUME NEW n \in Nodes, NEW p \in Pieces, DropMark(n, p) \/ RetryDue(n) PROVE Publishing'
    <2>1. UNCHANGED <<pb, crowded, unsure, wr, blob>> /\ Quiet /\ Writer \in Nodes
      BY <1>4, Numbers, ShapesDrop DEF DropMark, RetryDue
    <2> QED  BY <1>2, <2>1, PublishingKept DEF Quiet
  <1>5. ASSUME NEW n \in Nodes, OpenStat(n) PROVE Publishing'
    BY <1>2, <1>5, PublishingKept DEF OpenStat
  <1>6. CASE UNCHANGED vars
    BY <1>2, <1>6, PublishingKept DEF vars
  <1>7. ASSUME NEW c \in Closers, Publish(c) PROVE Publishing'
    BY <1>2, <1>7, PublishingElse, PublishingRelease, PublishingPublish DEF Publish
  <1>8. 0 \in Pieces
    BY Numbers
  <1> QED  BY <1>2, <1>3, <1>4, <1>5, <1>6, <1>7, <1>8, PublishingWrite, PublishingFill DEF Next

-----------------------------------------------------------------------------
(* The theorems: whatever closes, writes, opens and fills overlap.           *)

LEMMA InitInv == Init => ManifestInv
PROOF
  <1> SUFFICES ASSUME Init PROVE ManifestInv
    OBVIOUS
  <1>0. Shapes
    BY InitShapes
  <1>1. /\ clock = 0 /\ wr.pc = "idle" /\ ~lowered
        /\ \A p \in Pieces : odata[p] = 0 /\ hist[p] = {0}
        /\ blob.id = 0 /\ \A p \in Pieces : blob.dig[p] = None
    BY DEF Init, IdleWrite, NoDigests
  <1>2. \A n \in Nodes : /\ ent[n].id = 0 /\ ent[n].size = osize /\ ent[n].dirty = FALSE
                         /\ \A p \in Pieces : ent[n].cache[p] = None /\ ent[n].hash[p] = None
                         /\ op[n].id = 0 /\ op[n].pc = "idle"
    BY DEF Init, NoDigests, IdleOpen
  <1>3. /\ \A f \in Fillers : fl[f].pc = "idle" /\ fl[f].gen = 0
        /\ \A c \in Closers : pb[c].id = 0 /\ pb[c].pc = "idle"
    BY DEF Init, IdleFill, IdlePub
  <1>4. Clocks
    BY <1>1, <1>2, <1>3 DEF Clocks
  <1>5. Own
    BY <1>0, <1>1, <1>2, MyNumbers DEF Own
  <1>6. Vouched
    <2>1. Generations
      <3>1. \A f \in Fillers : Home[f] \in Nodes /\ ent[Home[f]].writes \in Nat
        BY <1>0, Numbers, MyNumbers
      <3> QED  BY <1>3, <3>1 DEF Generations
    <2>2. EntriesVouched /\ FillsVouched /\ BlobsVouched
      BY <1>1, <1>2, <1>3 DEF EntriesVouched, FillsVouched, BlobsVouched, Truthful
    <2> QED  BY <2>1, <2>2 DEF Vouched
  <1>7. Publishing
    <2>1. Publishers(Writer) = {}
      BY <1>3 DEF Publishers
    <2> QED  BY <1>2, <2>1, Numbers DEF Publishing, Clean
  <1> QED  BY <1>0, <1>4, <1>5, <1>6, <1>7 DEF ManifestInv

LEMMA StepInv == ManifestInv /\ [Next]_vars => ManifestInv'
  BY StepShapes, StepClocks, StepOwn, StepVouched, StepPublishing DEF ManifestInv

\* The state is of its shape, identities are of writes that happened, and all
\* of it is vouched for.
THEOREM ManifestInvariant == Spec => []ManifestInv
  BY InitInv, StepInv, PTL DEF Spec

\* No manifest on the origin gives a piece, under the identity it names, a
\* digest that an earlier write of that identity's file had replaced, unless
\* its publication fell between the adoption of that identity and the copy.
THEOREM PublishedIsCurrent == Spec => []BlobCurrent
PROOF
  <1>1. ManifestInv => BlobCurrent
    BY DEF ManifestInv, Vouched, BlobsVouched, Truthful, BlobCurrent, Known
  <1> QED  BY <1>1, ManifestInvariant, PTL

\* No entry marks, or would refill a piece to, content older than the identity
\* the node last checked the entry against, unless a publication misdated it.
THEOREM EntriesStayCurrent == Spec => []EntriesCurrent
PROOF
  <1>1. ManifestInv => EntriesCurrent
    <2> SUFFICES ASSUME ManifestInv, ~lowered, NEW n \in Nodes, NEW p \in Pieces, ~InWrite(n, p) PROVE Current(n, p)
      BY DEF EntriesCurrent, EntriesAlwaysCurrent
    <2>1. Due(n, p) = ent[n].id
      BY DEF Due, InWrite
    <2> QED  BY <2>1 DEF ManifestInv, Vouched, EntriesVouched, Fit, Excused, Outdated, Current
  <1> QED  BY <1>1, ManifestInvariant, PTL

\* A writer that thinks every digest published has published every digest, when
\* that publication overlapped no write and no other close of its own.
THEOREM CleanWasPublished == Spec => []CleanIsPublished
PROOF
  <1>1. ManifestInv => CleanIsPublished
    BY DEF ManifestInv, Publishing, Clean, CleanIsPublished, CleanAlwaysPublished, Known
  <1> QED  BY <1>1, ManifestInvariant, PTL
=============================================================================
