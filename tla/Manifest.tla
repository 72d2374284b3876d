------------------------------- MODULE Manifest -------------------------------
(***************************************************************************)
(* The piece-hash manifest of src/src/store.zig and the fills it admits: a *)
(* node that wrote or filled a file publishes the digests of its pieces on *)
(* the origin when it closes the file, and other nodes take bytes from a   *)
(* peer only when they match a digest so learned.  One file, one writing   *)
(* node ("ingest on one node; everyone else reads"), whole pieces.         *)
(*                                                                         *)
(* The content of a piece is the stamp of the write that produced it, and  *)
(* so is its digest; the origin's mtime is the stamp of the last write.    *)
(* Every critical section of file.mu and every access to the origin is a   *)
(* step.  completeFill and copyIntoCache hold content_mu throughout and    *)
(* are one step each.  What a peer answers is any content the piece ever   *)
(* had, or nothing: what the peer's own cache may hold is not restricted.  *)
(* Any handle's close publishes, whatever the writer and other closes do.  *)
(***************************************************************************)
EXTENDS Integers, FiniteSets

CONSTANTS Nodes, Writer,   \* the nodes, and the one that writes
          Fillers, Home,   \* threads that hydrate pieces, and their nodes
          Closers, Closes, \* threads that close a handle, and their nodes
          MaxSize,         \* bound on the file's size, in pieces
          MaxStamp,        \* bound on writes
          Loads            \* see LoadType

\* The file's first size, and how many operations of each kind a behaviour may
\* still begin: writes and
\* whether they may patch a piece, fills, releases and opens per node, marks
\* dropped by a cull or a heal.
LoadType ==
    [size : 1..MaxSize, writes : 0..MaxStamp, whole : {{TRUE}, {FALSE}, BOOLEAN}, fills : [Nodes -> Nat], releases : [Nodes -> Nat], 
     opens : [Nodes -> Nat], drops : Nat]

ASSUME ManifestAssumption ==
    /\ Writer \in Nodes /\ Home \in [Fillers -> Nodes] /\ Closes \in [Closers -> Nodes]
    /\ MaxSize \in Nat \ {0} /\ MaxStamp \in Nat
    /\ Loads \subseteq LoadType

Pieces == 0..MaxSize - 1
Stamps == 0..MaxStamp
None == -1     \* no mark; no digest; no manifest; manifest_size = null
Torn == -2     \* a marked piece that holds no write's content

VARIABLES
    odata, osize, clock,  \* origin: the file, its length, its mtime
    blob,                 \* origin: the manifest, and (history) who published it
    ent,                  \* per node: the Cached entry
    wr,                   \* the writer's mf_write
    op,                   \* per node: an open, with the stat it sampled
    fl,                   \* hydratePiece in each filler
    pb,                   \* mf_release in each closer
    hist,                 \* history: the stamps each piece was written at
    lowered,              \* history: an open took the writer's entry back
    misdated,             \* history: <<piece, digest>> published too late
    crowded, unsure,      \* history: publications the writer did not make alone
    load

vars == <<odata, osize, clock, blob, ent, wr, op, fl, pb, hist, lowered, misdated, crowded, unsure, load>>
history == <<misdated, crowded, unsure>>
origin == <<odata, osize, clock, hist, lowered, history>>

NoDigests == [p \in Pieces |-> None]
Known(h) == {p \in Pieces : h[p] # None}

IdleWrite == [pc |-> "idle", p |-> 0, before |-> 0, whole |-> TRUE]
IdleOpen == [pc |-> "idle", size |-> 1, id |-> 0]
IdlePub == [pc |-> "idle", fsize |-> 0, dig |-> NoDigests, n |-> 0, id |-> 0]
IdleFill == [pc |-> "idle", p |-> 0, prefer |-> FALSE, again |-> FALSE, gen |-> 0,
             gen0 |-> 0, seen |-> None, mtime |-> 0, expect |-> None, buf |-> 0]

\* Every node has opened the file once and cached nothing.  cache[p] is what the
\* data file holds for a marked piece, None for an unmarked one.
Init ==
    /\ load \in Loads
    /\ odata = [p \in Pieces |-> 0] /\ osize = load.size /\ clock = 0
    /\ blob = [size |-> None, by |-> Writer, id |-> 0, dig |-> NoDigests, mtime |-> 0]
    /\ ent = [n \in Nodes |->
                [size |-> load.size, id |-> 0, writes |-> 0, cache |-> NoDigests, hash |-> NoDigests, dirty |-> FALSE,
                 msize |-> None, wait |-> FALSE, loading |-> FALSE, filling |-> {}]]
    /\ wr = IdleWrite
    /\ op = [n \in Nodes |-> IdleOpen]
    /\ fl = [f \in Fillers |-> IdleFill]
    /\ pb = [c \in Closers |-> IdlePub]
    /\ hist = [p \in Pieces |-> {0}] /\ lowered = FALSE
    /\ misdated = {} /\ crowded = {} /\ unsure = FALSE

-----------------------------------------------------------------------------
(* Changes of an entry *)

ClearHashes(e) ==
    [e EXCEPT !.hash = NoDigests, !.msize = None, !.wait = FALSE, !.dirty = TRUE]

ContentChanged(recorded, observed) == observed > recorded

\* reconcile: the entry of a stat that shows another size or a newer write.
Reconcile(e, size, id) ==
    IF e.size = size /\ ~ContentChanged(e.id, id) THEN e
    ELSE [ClearHashes(e) EXCEPT !.size = size, !.id = id, !.cache = NoDigests, !.writes = @ + 1]

\* An open (or a read without a live entry) stats the origin ...
OpenStat(n) ==
    /\ op[n].pc = "idle"
    /\ load.opens[n] > 0 /\ load' = [load EXCEPT !.opens[n] = @ - 1]
    /\ op' = [op EXCEPT ![n] = [pc |-> "stat", size |-> osize, id |-> clock]]
    /\ UNCHANGED <<origin, blob, ent, wr, fl, pb>>

\* ... and getIdentified brings the entry in line with what it saw.  A stat from
\* before an own append takes the writer's entry back to an older identity.
OpenReconcile(n) ==
    /\ op[n].pc = "stat"
    /\ ent' = [ent EXCEPT ![n] = Reconcile(@, op[n].size, op[n].id)]
    /\ op' = [op EXCEPT ![n] = IdleOpen]
    /\ lowered' = (lowered \/ (n = Writer /\ op[n].size # ent[n].size /\ op[n].id < ent[n].id))
    /\ UNCHANGED <<odata, osize, clock, hist, history, blob, wr, fl, pb, load>>

\* healPiece, and punchPiece of a piece no read is using: the mark goes, the
\* digest stays as what a refill is held to.
DropMark(n, p) ==
    /\ load.drops > 0 /\ load' = [load EXCEPT !.drops = @ - 1]
    /\ ent[n].cache[p] # None
    /\ ent' = [ent EXCEPT ![n].cache[p] = None]
    /\ UNCHANGED <<origin, blob, wr, op, fl, pb>>

\* The closes on node n that are publishing.
Publishers(n) == {c \in Closers : Closes[c] = n /\ pb[c].pc # "idle"}

-----------------------------------------------------------------------------
(* mf_write on the writing node *)

\* originPwrite of all or a part of a piece, an append included, and the stat
\* behind it: nobody else writes the file, so the stat shows this write.
WriteLands(p, whole) ==
    /\ wr.pc = "idle"
    /\ load.writes > 0 /\ load' = [load EXCEPT !.writes = @ - 1]
    /\ whole \in load.whole
    /\ p <= osize
    /\ p = osize => whole
    /\ clock' = clock + 1
    /\ odata' = [odata EXCEPT ![p] = clock']
    /\ osize' = IF p = osize THEN p + 1 ELSE osize
    /\ hist' = [hist EXCEPT ![p] = @ \cup {clock'}]
    /\ wr' = [pc |-> IF p + 1 = osize' THEN "fill" ELSE "get", p |-> p,
              before |-> odata[p], whole |-> whole]
    /\ crowded' = crowded \cup Publishers(Writer)
    /\ UNCHANGED <<blob, ent, op, fl, pb, lowered, misdated, unsure>>

\* cacheFillIdentified, a write that ends the file: under the locks the entry
\* grows or is cut to the observed end, and takes the identity of the write.
CacheFill ==
    LET e == ent[Writer] IN
    /\ wr.pc = "fill"
    /\ ent' = [ent EXCEPT ![Writer] =
                 [IF osize < e.size
                  THEN [ClearHashes(e) EXCEPT !.cache = NoDigests, !.writes = @ + 1, !.size = osize]
                  ELSE [e EXCEPT !.size = osize]
                  EXCEPT !.id = IF ContentChanged(@, clock) THEN clock ELSE @]]
    /\ wr' = [wr EXCEPT !.pc = "copy"]
    /\ UNCHANGED <<origin, blob, op, fl, pb, load>>

\* A write elsewhere in the file: getIdentified with the new stat.
GetAfterWrite ==
    /\ wr.pc = "get"
    /\ ent' = [ent EXCEPT ![Writer] = Reconcile(@, osize, clock)]
    /\ wr' = [wr EXCEPT !.pc = "copy"]
    /\ UNCHANGED <<origin, blob, op, fl, pb, load>>

\* The entry a copy of piece p leaves.  A whole piece is marked with its
\* digest; a patched piece loses its digest and is whatever it was, patched.
Copied(e, p) ==
    IF wr.whole
    THEN [e EXCEPT !.writes = @ + 1, !.cache[p] = IF p < e.size THEN clock ELSE None,
                   !.hash[p] = clock, !.dirty = TRUE]
    ELSE [e EXCEPT !.writes = @ + 1,
                   !.cache[p] = IF @ = None THEN None
                                ELSE IF @ \in {wr.before, clock} THEN clock ELSE Torn,
                   !.dirty = @ \/ e.hash[p] # None, !.hash[p] = None]

\* Mutant: the old digest is kept when the copy did not land.
KeepsDigest(e, p) == [e EXCEPT !.writes = @ + 1, !.cache[p] = None]

\* A read holds the cache file, or the copy failed: nothing of it is trusted.
NotCopied(e, p) ==
    [e EXCEPT !.writes = @ + 1, !.cache[p] = None,
              !.dirty = @ \/ e.hash[p] # None, !.hash[p] = None]

\* copyIntoCache.
CopyIntoCache ==
    /\ wr.pc = "copy"
    /\ \/ ent' = [ent EXCEPT ![Writer] = Copied(@, wr.p)]
       \/ ent' = [ent EXCEPT ![Writer] = NotCopied(@, wr.p)]
    /\ wr' = IF wr.p + 1 = osize THEN IdleWrite ELSE [wr EXCEPT !.pc = "note"]
    /\ UNCHANGED <<origin, blob, op, fl, pb, load>>

\* noteOriginId, on the path without cacheFillIdentified.
NoteOriginId ==
    /\ wr.pc = "note"
    /\ ent' = [ent EXCEPT ![Writer].id = IF ContentChanged(@, clock) THEN clock ELSE @]
    /\ wr' = IdleWrite
    /\ UNCHANGED <<origin, blob, op, fl, pb, load>>

-----------------------------------------------------------------------------
(* publishManifest, called by mf_release *)

\* Nothing new to say, or the size the entries will be cut to.  Writes and other
\* closes of this node go on meanwhile.
Release(c) ==
    LET n == Closes[c] IN
    /\ pb[c].pc = "idle"
    /\ load.releases[n] > 0 /\ load' = [load EXCEPT !.releases[n] = @ - 1]
    /\ ent[n].dirty /\ Known(ent[n].hash) # {}
    /\ pb' = [pb EXCEPT ![c] = [IdlePub EXCEPT !.pc = "snap", !.fsize = ent[n].size]]
    /\ crowded' = IF n # Writer \/ (wr.pc = "idle" /\ Publishers(n) = {})
                  THEN crowded \ {c} ELSE crowded \cup Publishers(n) \cup {c}
    /\ UNCHANGED <<odata, osize, clock, hist, lowered, misdated, unsure, blob, ent, wr, op, fl>>

\* The digests of the pieces in the file as it was at Release.
Sampled(c) == [p \in Pieces |-> IF p < pb[c].fsize THEN ent[Closes[c]].hash[p] ELSE None]

\* Digests, their number and the identity, under one hold of file.mu.  After
\* cacheFillIdentified and before copyIntoCache the identity is that of the
\* write and the digest of its piece is still the one before it.
Snapshot(c) ==
    LET e == ent[Closes[c]] IN
    /\ pb[c].pc = "snap"
    /\ pb' = [pb EXCEPT ![c] =
                IF e.dirty /\ Known(Sampled(c)) # {}
                THEN [@ EXCEPT !.pc = "write", !.dig = Sampled(c),
                               !.n = Cardinality(Known(e.hash)), !.id = e.id]
                ELSE IdlePub]
    /\ misdated' = misdated \cup
         {pv \in {<<wr.p, wr.before>>} :
            Closes[c] = Writer /\ wr.pc = "copy" /\ Sampled(c)[wr.p] = wr.before}
    /\ UNCHANGED <<odata, osize, clock, hist, lowered, crowded, unsure, blob, ent, wr, op, fl, load>>

\* The temporary file is written and renamed into place, or something fails
\* and the flag stays up for the next release.
WriteBlob(c) ==
    /\ pb[c].pc = "write"
    /\ \/ /\ blob' = [size |-> pb[c].fsize, by |-> Closes[c], id |-> pb[c].id,
                      dig |-> pb[c].dig, mtime |-> clock]
          /\ pb' = [pb EXCEPT ![c].pc = "clear"]
       \/ blob' = blob /\ pb' = [pb EXCEPT ![c] = IdlePub]
    /\ UNCHANGED <<origin, ent, wr, op, fl, load>>

\* Mutant: the flag is cleared whatever was recorded during the write.
ClearAnyway(c) ==
    /\ pb[c].pc = "clear"
    /\ ent' = [ent EXCEPT ![Closes[c]].dirty = FALSE]
    /\ pb' = [pb EXCEPT ![c] = IdlePub]
    /\ unsure' = IF Closes[c] = Writer THEN c \in crowded ELSE unsure
    /\ UNCHANGED <<odata, osize, clock, hist, lowered, misdated, crowded, blob, wr, op, fl, load>>

\* The flag is cleared when the number of digests is the one published.
ClearDirty(c) ==
    LET e       == ent[Closes[c]]
        settled == e.dirty /\ Cardinality(Known(e.hash)) = pb[c].n
    IN  /\ pb[c].pc = "clear"
        /\ ent' = [ent EXCEPT ![Closes[c]].dirty = @ /\ ~settled]
        /\ pb' = [pb EXCEPT ![c] = IdlePub]
        /\ unsure' = IF settled /\ Closes[c] = Writer THEN c \in crowded ELSE unsure
        /\ UNCHANGED <<odata, osize, clock, hist, lowered, misdated, crowded, blob, wr, op, fl, load>>

-----------------------------------------------------------------------------
(* hydratePiece *)

Entry(f) == ent[Home[f]]
To(f, pc) == fl' = [fl EXCEPT ![f].pc = pc]

\* wroteLocally is sampled before the piece is claimed.
FillStart(f, p) ==
    /\ fl[f].pc = "idle"
    /\ load.fills[Home[f]] > 0 /\ load' = [load EXCEPT !.fills[Home[f]] = @ - 1]
    /\ p < Entry(f).size /\ Entry(f).cache[p] = None
    /\ fl' = [fl EXCEPT ![f] = [IdleFill EXCEPT !.pc = "claim", !.p = p,
                                  !.prefer = Entry(f).writes # 0]]
    /\ UNCHANGED <<origin, blob, ent, wr, op, pb>>

\* beginFill: filled by another, cut away, claimed by another (wait), or ours.
BeginFill(f) ==
    LET p == fl[f].p IN
    /\ fl[f].pc = "claim"
    /\ \/ /\ Entry(f).cache[p] # None \/ p >= Entry(f).size
          /\ fl' = [fl EXCEPT ![f] = IdleFill]
          /\ ent' = ent
       \/ /\ Entry(f).cache[p] = None /\ p < Entry(f).size
          /\ p \notin Entry(f).filling
          /\ ent' = [ent EXCEPT ![Home[f]].filling = @ \cup {p}]
          /\ fl' = [fl EXCEPT ![f].pc = IF fl[f].prefer THEN "origin" ELSE "ask",
                              ![f].gen = Entry(f).writes]
    /\ UNCHANGED <<origin, blob, wr, op, pb, load>>

\* Without a trusted digest only the origin will do.
TakeDigest(f) ==
    LET h == Entry(f).hash[fl[f].p] IN
    fl' = [fl EXCEPT ![f].expect = h, ![f].pc = IF h = None THEN "origin" ELSE "peer"]

\* expectedHash: the manifest was loaded for this size; or it is due and this
\* thread loads it; or somebody else is loading it.
Expected(f) ==
    LET e   == Entry(f)
        due == ~e.wait /\ ~e.loading
    IN  /\ fl[f].pc = "ask"
        /\ \/ e.msize = e.size /\ TakeDigest(f) /\ ent' = ent
           \/ /\ e.msize # e.size
              /\ ent' = [ent EXCEPT ![Home[f]].loading = @ \/ due]
              /\ To(f, IF due THEN "sample" ELSE "lookup")
        /\ UNCHANGED <<origin, blob, wr, op, pb, load>>

\* tryLoadManifest: the write generation, then the blob.
LoadSample(f) ==
    /\ fl[f].pc = "sample"
    /\ fl' = [fl EXCEPT ![f].pc = "read", ![f].gen0 = Entry(f).writes]
    /\ UNCHANGED <<origin, blob, ent, wr, op, pb, load>>

\* The blob is missing, unreadable for now, or read; its mtime is asked for
\* afterwards, by name.
LoadRead(f) ==
    /\ fl[f].pc = "read"
    /\ \/ blob.size # None /\ fl' = [fl EXCEPT ![f].pc = "stat", ![f].seen = blob]
       \/ To(f, "retry")
    /\ UNCHANGED <<origin, blob, ent, wr, op, pb, load>>

LoadStat(f) ==
    /\ fl[f].pc = "stat"
    /\ fl' = [fl EXCEPT ![f].pc = "merge", ![f].mtime = blob.mtime]
    /\ UNCHANGED <<origin, blob, ent, wr, op, pb, load>>

\* manifest_retry_at is set to a later instant.
LoadRetry(f) ==
    /\ fl[f].pc = "retry"
    /\ ent' = [ent EXCEPT ![Home[f]].wait = TRUE]
    /\ fl' = [fl EXCEPT ![f].pc = "unload", ![f].gen0 = 0]
    /\ UNCHANGED <<origin, blob, wr, op, pb, load>>

\* Mutant: the trailer is not looked at.
AnyObject(f) == fl[f].mtime >= Entry(f).id

\* A blob names this object when it has the entry's identity and was not
\* written before the object was.
SameObject(f) ==
    /\ fl[f].seen.id = Entry(f).id
    /\ fl[f].mtime >= Entry(f).id

\* What the entry becomes: a wiped entry takes nothing, a blob of another size
\* is remembered as loaded, one of another object is asked for again, and the
\* right one fills the gaps.
Merged(f) ==
    LET e == Entry(f)
        m == fl[f].seen
    IN  IF e.writes # fl[f].gen0 THEN e
        ELSE IF e.size # m.size THEN [e EXCEPT !.msize = e.size]
        ELSE IF ~SameObject(f) THEN [e EXCEPT !.wait = TRUE]
        ELSE [e EXCEPT !.msize = e.size,
                       !.hash = [p \in Pieces |-> IF @[p] # None THEN @[p] ELSE m.dig[p]]]

LoadMerge(f) ==
    /\ fl[f].pc = "merge"
    /\ ent' = [ent EXCEPT ![Home[f]] = Merged(f)]
    /\ fl' = [fl EXCEPT ![f].pc = "unload", ![f].seen = None, ![f].mtime = 0, ![f].gen0 = 0]
    /\ UNCHANGED <<origin, blob, wr, op, pb, load>>

\* The deferred release of the load claim, on every way out.
LoadEnd(f) ==
    /\ fl[f].pc = "unload"
    /\ ent' = [ent EXCEPT ![Home[f]].loading = FALSE]
    /\ To(f, "lookup")
    /\ UNCHANGED <<origin, blob, wr, op, pb, load>>

Lookup(f) ==
    /\ fl[f].pc = "lookup"
    /\ TakeDigest(f)
    /\ UNCHANGED <<origin, blob, ent, wr, op, pb, load>>

\* fillFromPeers, and the digest check of what it brought: no answer, a short
\* one and a wrong one all end at the origin.
PeerFill(f) ==
    /\ fl[f].pc = "peer"
    /\ \/ fl' = [fl EXCEPT ![f].pc = "origin", ![f].expect = None]
       \/ \E bytes \in hist[fl[f].p] :
            /\ bytes = fl[f].expect
            /\ fl' = [fl EXCEPT ![f].pc = "done", ![f].buf = bytes, ![f].expect = None]
    /\ UNCHANGED <<origin, blob, ent, wr, op, pb, load>>

\* originFillBuf: a failed read drops the claim and fails the read.
OriginFill(f) ==
    LET p == fl[f].p IN
    /\ fl[f].pc = "origin"
    /\ \/ fl' = [fl EXCEPT ![f].pc = "done", ![f].buf = odata[p]] /\ ent' = ent
       \/ /\ fl' = [fl EXCEPT ![f] = IdleFill]
          /\ ent' = [ent EXCEPT ![Home[f]].filling = @ \ {p}]
    /\ UNCHANGED <<origin, blob, wr, op, pb, load>>

\* Whether completeFill and finishPiece still take the bytes.
StillWanted(f) ==
    LET e == Entry(f) IN
    e.cache[fl[f].p] = None /\ fl[f].p < e.size /\ fl[f].gen = e.writes

\* completeFill; a discarded fill is retried once, from the origin.
CompleteFill(f) ==
    LET p == fl[f].p
        e == [Entry(f) EXCEPT !.filling = @ \ {p}]
    IN  /\ fl[f].pc = "done"
        /\ ent' = [ent EXCEPT ![Home[f]] =
                     IF StillWanted(f)
                     THEN [e EXCEPT !.cache[p] = fl[f].buf, !.hash[p] = fl[f].buf, !.dirty = TRUE]
                     ELSE e]
        /\ fl' = [fl EXCEPT ![f] =
                    IF StillWanted(f) \/ e.cache[p] # None \/ fl[f].again THEN IdleFill
                    ELSE [IdleFill EXCEPT !.pc = "claim", !.p = p, !.prefer = TRUE,
                                          !.again = TRUE]]
        /\ UNCHANGED <<origin, blob, wr, op, pb, load>>

\* The retry instant passes.
RetryDue(n) ==
    /\ ent[n].wait
    /\ ent' = [ent EXCEPT ![n].wait = FALSE]
    /\ UNCHANGED <<origin, blob, wr, op, fl, pb, load>>

-----------------------------------------------------------------------------

Fill(f) ==
    \/ \E p \in Pieces : FillStart(f, p)
    \/ BeginFill(f) \/ Expected(f)
    \/ LoadSample(f) \/ LoadRead(f) \/ LoadStat(f) \/ LoadRetry(f) \/ LoadMerge(f) \/ LoadEnd(f)
    \/ Lookup(f) \/ PeerFill(f) \/ OriginFill(f) \/ CompleteFill(f)

Write ==
    \/ \E p \in Pieces, whole \in BOOLEAN : WriteLands(p, whole)
    \/ CacheFill \/ GetAfterWrite \/ CopyIntoCache \/ NoteOriginId

Publish(c) == Release(c) \/ Snapshot(c) \/ WriteBlob(c) \/ ClearDirty(c)

Next ==
    \/ Write
    \/ \E f \in Fillers : Fill(f)
    \/ \E c \in Closers : Publish(c)
    \/ \E n \in Nodes :
         \/ OpenStat(n) \/ OpenReconcile(n)
         \/ RetryDue(n)
         \/ \E p \in Pieces : DropMark(n, p)

Spec == Init /\ [][Next]_vars

-----------------------------------------------------------------------------

Digests == [Pieces -> Stamps \cup {None}]
BlobType == [size : (0..MaxSize) \cup {None}, by : Nodes, id : Stamps, dig : Digests, mtime : Stamps]

\* Shape, and what the piece tables may be asked: a mark or a claim lies in
\* the file, a claim belongs to one filler, and a manifest is never empty.
TypeOK ==
    /\ odata \in [Pieces -> Stamps] /\ osize \in 1..MaxSize /\ clock \in Stamps
    /\ blob \in BlobType
    /\ \A n \in Nodes :
         LET e == ent[n] IN
         /\ e.size \in 1..MaxSize /\ e.id \in Stamps /\ e.writes \in Nat
         /\ e.cache \in [Pieces -> Stamps \cup {None, Torn}] /\ Known(e.cache) \subseteq 0..e.size - 1
         /\ e.hash \in Digests
         /\ e.filling = {fl[f].p : f \in {g \in Fillers : Home[g] = n
                                            /\ fl[g].pc \notin {"idle", "claim"}}}
    /\ blob.size # None => Known(blob.dig) # {}

\* A content is superseded for identity id when the piece was rewritten after
\* it and not after id.
Superseded(p, v, id) == \E t \in hist[p] : v < t /\ t <= id

\* A publication gave content v of piece p too new an identity; a patch over
\* such a content leaves bytes that are no write's.
Misdated(p, v) == \E u \in Stamps : <<p, u>> \in misdated /\ v \in {u, Torn}

Outdated(p, v, id) == Superseded(p, v, id) /\ ~Misdated(p, v)

InWrite(n, p) == n = Writer /\ wr.pc # "idle" /\ wr.p = p

\* No published manifest says of the object it names that a piece has a
\* digest which an earlier write of that object already replaced, whatever
\* write, open and other close the publication overlaps: but for the digests
\* that publishManifest took between a write's cacheFillIdentified, which adopts
\* the new identity, and its copyIntoCache, which records the new digest.
BlobCurrent ==
    lowered \/ blob.size = None
      \/ \A p \in Known(blob.dig) : ~Outdated(p, blob.dig[p], blob.id)

\* The same without the exception.
BlobAlwaysCurrent ==
    lowered \/ blob.size = None
      \/ \A p \in Known(blob.dig) : ~Superseded(p, blob.dig[p], blob.id)

\* What an entry serves and what it holds refills to is not older than the
\* identity the entry was last checked against: once a node has opened the file
\* it never again takes or serves a piece as it was before, whatever peers send
\* and whichever manifest was in flight, unless a publication misdated just that
\* content of that piece.  A piece being written is exempt until the write is
\* copied in.
Current(n, p) ==
    /\ ent[n].cache[p] # None => ~Outdated(p, ent[n].cache[p], ent[n].id)
    /\ ent[n].hash[p] # None => ~Outdated(p, ent[n].hash[p], ent[n].id)

EntriesAlwaysCurrent == \A n \in Nodes, p \in Pieces : InWrite(n, p) \/ Current(n, p)

\* The same, until an open's stat from before an append took the writer's entry
\* back: pieces it then takes from a peer are kept when the next append adopts
\* its own identity.
EntriesCurrent == lowered \/ EntriesAlwaysCurrent

\* Whatever the publication overlapped, what publishManifest's comment says.
CleanAlwaysPublished ==
    LET e == ent[Writer] IN
    ~lowered /\ wr.pc = "idle" /\ Publishers(Writer) = {} /\ ~e.dirty /\ e.msize = None /\ blob.by = Writer
      => \A p \in Known(e.hash) : p < e.size => blob.dig[p] = e.hash[p]

\* A writer with nothing left to publish has published exactly its digests: a
\* digest that a fill recorded while the manifest was being written is not lost.
\* The number of digests cannot tell one that a write replaced meanwhile, nor
\* which of two closes renamed its blob last, so the publication that cleared
\* the flag must have overlapped neither.  Digests loaded from a manifest are not
\* the writer's to publish, and another node's publication replaces the writer's.
CleanIsPublished ==
    unsure \/ CleanAlwaysPublished

=============================================================================
