----------------------------- MODULE Algorithms -----------------------------
(***************************************************************************)
(* The pure algorithms against what they stand for.  A behaviour exercises *)
(* one of them, named by topic: the piece arithmetic of piece.zig on a     *)
(* span that is widened a byte at a time, and the data structures of       *)
(* lib/fuse.c (the hash tables of nodes and the pages nodes live in, the   *)
(* list of POSIX locks, the buffered directory listing) under any sequence *)
(* of their operations, and the FUSE_INIT exchange of fuse_lowlevel.c,     *)
(* asked again after a newer version was refused.  MCAlgorithms puts them  *)
(* together, with topic "pipe", the data path of module Transfer.          *)
(***************************************************************************)
EXTENDS Piece, NodeTable, Slab, LockList, DirBuffer, Negotiation

CONSTANTS MaxPieceSize,  \* bound: piece sizes 0 .. MaxPieceSize
          MaxNode,       \* bound: node numbers 0 .. MaxNode
          MaxName,       \* bound: names 0 .. MaxName, in two directories
          Pages,         \* bound: the pages mmap can give
          Owners,        \* bound: the owners of locks
          MaxLost,       \* bound: bytes the list was not told of at once ...
          Losable,       \* ... and where these may be
          MaxEntry,      \* bound: directory entries 1 .. MaxEntry
          Needs          \* bound: what the kernel asks for at once

ASSUME AlgorithmBounds ==
    /\ {MaxPieceSize, MaxNode, MaxName, MaxLost, MaxEntry} \subseteq Nat
    /\ Needs \subseteq 1 .. TopSize /\ Losable \subseteq 0 .. OffsetMax

VARIABLES topic,
          span,     \* piece arithmetic: the file, the piece size, the span
          table,    \* a hash table, by number or by name
          nodes,    \* and the nodes that must be in it
          slabs,    \* the pages of nodes, and whether they are LRU nodes
          live,     \* and the nodes in use
          locks,    \* the lock list
          held,     \* what each owner holds of each byte
          lost,     \* and the bytes the list was not told of, with their owner
          listing,  \* a reader of a directory
          init      \* a session: the last INIT, and what it was told

vars == <<topic, span, table, nodes, slabs, live, locks, held, lost, listing, init>>

Offsets == 0 .. OffsetMax
Nodes(by) == IF by = "ids" THEN {[nodeid |-> i, parent |-> 1, name |-> i] : i \in 0..MaxNode}
             ELSE {[nodeid |-> 31 * p + i, parent |-> p, name |-> i] : p \in 1..2, i \in 0..MaxName}
Entry(i) == [id |-> i, namelen |-> 1 + (i % 2)]
Directories == {SelectSeq([i \in 1..MaxEntry |-> Entry(i)], LAMBDA e : e.id \in ids) :
                   ids \in SUBSET (1..MaxEntry)}
NoReader == [dh |-> NoListing, dir |-> <<>>, offsets |-> FALSE, plus |-> FALSE, off |-> 0, got |-> <<>>,
             reply |-> 0, fill |-> <<>>, stayed |-> {}]

\* INIT requests, of versions on both sides of the tests, and filesystems;
\* modelfs is the one with io, that wants and limits nothing.
InitArgs == [major : 6..8, minor : {5, 13, 18}, max_readahead : {1, UintMax},
             flags : SUBSET {"ASYNC_READ", "POSIX_LOCKS", "MAX_PAGES"}]
Filesystems ==
    {[io |-> io, op |-> IF io THEN {} ELSE {"write_buf", "setlk"}, want |-> want, max_write |-> w,
      max_background |-> q, threshold |-> th, max_read |-> 0, max_read_mo |-> mo] :
        io \in BOOLEAN, want \in {{}, {"POSIX_LOCKS"}}, w \in {0, 1, OsPage + 1}, q \in {1, BackgroundTop},
        th \in {0, BackgroundTop}, mo \in {0, 1}}
NoArg == [major |-> 0, minor |-> 0, max_readahead |-> 0, flags |-> {}]

Init ==
    /\ topic \in {"piece", "ids", "names", "slabs", "locks", "listing", "init", "pipe"}
    /\ span \in IF topic = "piece"
                THEN [fileSize : 0..U64Max, ps : 0..MaxPieceSize, off : 0..U64Max, len : {0}]
                ELSE {[fileSize |-> 0, ps |-> 0, off |-> 0, len |-> 0]}
    /\ table = NodeTableInit /\ nodes = {}
    /\ slabs \in {[s |-> NoSlabs, lru |-> b] : b \in IF topic = "slabs" THEN BOOLEAN ELSE {FALSE}}
    /\ live = {}
    /\ locks = <<>> /\ held = [o \in Owners |-> [u \in Offsets |-> "unlock"]] /\ lost = {}
    /\ listing \in IF topic = "listing"
                   THEN {[NoReader EXCEPT !.dir = d, !.offsets = b, !.plus = p] :
                             d \in Directories, b \in BOOLEAN, p \in BOOLEAN}
                   ELSE {NoReader}
    /\ init \in {[se |-> NewSession, arg |-> NoArg, out |-> Silent, fs |-> fs] :
                    fs \in IF topic = "init" THEN Filesystems ELSE {CHOOSE f \in Filesystems : TRUE}}

-----------------------------------------------------------------------------
Widen ==
    /\ topic = "piece" /\ span.len < U64Max
    /\ span' = [span EXCEPT !.len = @ + 1]
    /\ UNCHANGED <<topic, table, nodes, slabs, live, locks, held, lost, listing, init>>

Hash(n, memory) ==
    /\ topic \in {"ids", "names"} /\ n \in Nodes(topic) \ nodes
    /\ table' = IF topic = "ids" THEN HashId(table, n, memory) ELSE HashName(table, n, memory)
    /\ nodes' = nodes \cup {n}
    /\ UNCHANGED <<topic, span, slabs, live, locks, held, lost, listing, init>>

Unhash(n) ==
    /\ topic \in {"ids", "names"} /\ n \in nodes
    /\ table' = IF topic = "ids" THEN UnhashId(table, n) ELSE UnhashName(table, n)
    /\ nodes' = nodes \ {n}
    /\ UNCHANGED <<topic, span, slabs, live, locks, held, lost, listing, init>>

Alloc(p) ==
    LET r == AllocNode(slabs.s, p, slabs.lru)
    IN /\ topic = "slabs" /\ p \notin DOMAIN slabs.s.page
       /\ slabs' = [slabs EXCEPT !.s = r.s]
       /\ live' = live \cup {r.node}
       /\ UNCHANGED <<topic, span, table, nodes, locks, held, lost, listing, init>>

Free(n) ==
    /\ topic = "slabs"
    /\ slabs' = [slabs EXCEPT !.s = FreeNodeMem(@, n)]
    /\ live' = live \ {n}
    /\ UNCHANGED <<topic, span, table, nodes, locks, held, lost, listing, init>>

\* The filesystem below grants only what nobody else holds; the list is told
\* afterwards (fuse_lib_setlk, fuse_flush_common), and nobody looks at whether
\* locks_insert failed: the owner holds what it was granted all the same.
Granted(lock) ==
    \A o \in Owners \ {lock.owner}, u \in lock.start .. lock.end :
        lock.type # "unlock" => "write" \notin {lock.type, held[o][u]} \/ held[o][u] = "unlock"

SetLock(type, start, len, o, memory) ==
    LET lock == FlockToLock(type, start, len, o)
        range == lock.start .. lock.end
    IN /\ topic = "locks" /\ lock.start <= lock.end /\ lock.end <= OffsetMax /\ Granted(lock)
       /\ lost' = IF InsertFails(lock, memory) THEN lost \cup ({o} \X range) ELSE lost \ ({o} \X range)
       /\ Cardinality(lost') <= MaxLost /\ lost' \subseteq Owners \X Losable
       /\ locks' = LocksInsert(locks, lock, memory)
       /\ held' = [held EXCEPT ![o] = [u \in Offsets |-> IF u \in range THEN type ELSE @[u]]]
       /\ UNCHANGED <<topic, span, table, nodes, slabs, live, listing, init>>

\* The next chunk, or the first one after a rewind; a reader that is told of
\* an error starts over.
Read(need, rewind, ok) ==
    LET off == IF rewind THEN 0 ELSE listing.off
        filling == ~Kept(listing.dh, off)
        r == Readdir(listing.dh, listing.dir, off, need, listing.plus, listing.offsets, ok)
        before == IF off = 0 THEN <<>> ELSE listing.got
    IN /\ topic = "listing"
       /\ \A e \in ToSet(listing.dir) : Length(<<e>>, listing.plus) <= need
       /\ ok \/ filling
       /\ listing' = [listing EXCEPT
              !.dh = r.dh,
              !.reply = Length(r.sent, listing.plus),
              !.got = IF ok THEN before \o r.sent ELSE <<>>,
              !.off = IF ~ok THEN 0
                      ELSE IF r.sent = <<>> THEN off
                      ELSE IF listing.offsets THEN Last(r.sent).id ELSE off + Len(r.sent),
              !.fill = IF filling /\ ok THEN listing.dir ELSE @,
              !.stayed = IF off = 0 THEN ToSet(listing.dir) ELSE @]
       /\ UNCHANGED <<topic, span, table, nodes, slabs, live, locks, held, lost, init>>

\* An entry comes or goes between two reads.
Change(d) ==
    /\ topic = "listing" /\ listing.off > 0
    /\ Cardinality(ToSet(d) \ ToSet(listing.dir)) + Cardinality(ToSet(listing.dir) \ ToSet(d)) = 1
    /\ listing' = [listing EXCEPT !.dir = d, !.stayed = @ \cap ToSet(d)]
    /\ UNCHANGED <<topic, span, table, nodes, slabs, live, locks, held, lost, init>>

\* process_buf lets no INIT through once one was accepted.
Ask(arg) ==
    LET r == DoInit(init.se, arg, init.fs)
    IN /\ topic = "init" /\ ~init.se.got_init
       /\ init' = [init EXCEPT !.se = r.se, !.arg = arg, !.out = r.out]
       /\ UNCHANGED <<topic, span, table, nodes, slabs, live, locks, held, lost, listing>>

-----------------------------------------------------------------------------
\* Every byte a u64 offset can name, the ones of the span, and the piece
\* indices a u32 bitfield can hold.
Bytes == 0 .. U64Max - 1
Span == {u \in Bytes : span.off <= u /\ u < span.off + span.len}
Indices == 0 .. U32Max - 1
PieceBytes(i) == {u \in Bytes : i * span.ps <= u /\ u < (i + 1) * span.ps}

\* cover names exactly the pieces that hold a byte of the span that is in the
\* file, and fullCover exactly the pieces whose every byte is in the span (so
\* that a write may mark them without reading the origin), up to the clamps.
CoversExact ==
    span.ps > 0 =>
        /\ Cover(span.off, span.len, span.fileSize, span.ps) =
             {i \in Indices : \E u \in Span : u < span.fileSize /\ u \in PieceBytes(i)}
        /\ FullCover(span.off, span.len, span.ps) =
             {i \in Indices : PieceBytes(i) \subseteq Span /\ (i + 1) * span.ps <= U64Max}

\* The pieces tile the file up to the u32 clamp: each of its bytes is in one
\* piece, and no piece reaches past the end.  rangeTracked says no exactly
\* when some byte of the span that is in the file lies past the last bit,
\* where a cache read would return unmarked zeros.
TilesExact ==
    span.ps > 0 =>
        /\ \A u \in Bytes :
              Cardinality({i \in 0 .. Count(span.fileSize, span.ps) - 1 :
                  /\ Offset(i, span.ps) <= u
                  /\ u < Offset(i, span.ps) + PieceLen(span.fileSize, i, span.ps)})
              = (IF u < span.fileSize /\ u \div span.ps < U32Max THEN 1 ELSE 0)
        /\ RangeTracked(span.off, span.len, span.fileSize, span.ps)
             <=> \A u \in Span : u < span.fileSize => u \div span.ps < U32Max

\* The arithmetic of piece.zig: what a span covers, and what the pieces cover.
PiecesExact == CoversExact /\ TilesExact

\* Whatever was split, merged or not enlarged for want of memory, a node that
\* was hashed is found (get_node aborts the process otherwise), one that was
\* unhashed is not, and none is in two chains.
TableFinds ==
    /\ topic = "ids" => \A n \in Nodes("ids") : GetNode(table, n) <=> n \in nodes
    /\ topic = "names" => \A n \in Nodes("names") : LookupNode(table, n) <=> n \in nodes
    /\ \A i, j \in DOMAIN table.array : i # j => table.array[i] \cap table.array[j] = {}
    /\ UNION {table.array[i] : i \in DOMAIN table.array} = nodes
    /\ table.use = Cardinality(nodes)

\* A page is on the partial list when it has a free node and on the full list
\* when it has none; its count is the number of its nodes in use; a node is
\* free or in use and never both; a page none of whose nodes is in use is gone,
\* so both lists are empty when every node is freed, as fuse_destroy asserts.
SlabsExact ==
    LET s == slabs.s
    IN /\ ToSet(s.partial) \cup ToSet(s.full) = DOMAIN s.page
       /\ Len(s.partial) + Len(s.full) = Cardinality(DOMAIN s.page)
       /\ \A n \in live : NodeToSlab(n) \in DOMAIN s.page
       /\ \A p \in DOMAIN s.page :
             LET free == ToSet(s.page[p].freelist)
                 inUse == {n \in live : NodeToSlab(n) = p}
             IN /\ p \in ToSet(s.partial) <=> free # {}
                /\ s.page[p].used = Cardinality(inUse) /\ inUse # {}
                /\ free \cap inUse = {} /\ IsInjective(s.page[p].freelist)
                /\ free \cup inUse =
                     {<<p, i>> : i \in 1 .. ((PageSize - SlabHeader) \div GetNodeSize(slabs.lru))}

\* The list says of every byte what its owner holds there, but where an
\* insertion failed and none has succeeded since; it has one range per stretch
\* all the same, and F_GETLK finds a lock in the way exactly when there is one.
LocksTold ==
    /\ \A o \in Owners, u \in Offsets :
          <<o, u>> \notin lost =>
             {locks[i].type : i \in {j \in DOMAIN locks : /\ locks[j].owner = o
                                                          /\ u \in locks[j].start .. locks[j].end}}
             = {held[o][u]} \ {"unlock"}
    /\ \A i, j \in DOMAIN locks :
          i < j /\ locks[i].owner = locks[j].owner =>
              locks[i].end < locks[j].start - (IF locks[i].type = locks[j].type THEN 1 ELSE 0)
    /\ \A o \in Owners, type \in {"read", "write"}, u \in Offsets :
          LET i == LocksConflict(locks, FlockToLock(type, u, 1, o))
          IN (\A p \in Owners \ {o} : <<p, u>> \notin lost) =>
             IF \E p \in Owners \ {o} : held[p][u] # "unlock" /\ "write" \in {type, held[p][u]}
             THEN i # 0 /\ LET f == LockToFlock(locks[i])
                           IN FlockToLock(f.type, f.start, f.len, locks[i].owner) = locks[i]
             ELSE i = 0

\* A reader sees the listing as it was when it rewound, in order and without
\* a gap, when the library keeps the listing; with offsets it sees every entry
\* that stayed, once and in order.  The reply is never larger than its buffer.
ListingExact ==
    /\ ~listing.offsets => IsPrefix(listing.got, listing.fill)
    /\ listing.offsets =>
          /\ \A i, j \in DOMAIN listing.got : i < j => listing.got[i].id < listing.got[j].id
          /\ \A e \in listing.stayed : e.id <= listing.off => \E i \in DOMAIN listing.got : listing.got[i] = e
    /\ listing.dh.filled => listing.dh.list = listing.fill
    /\ listing.reply <= listing.dh.size

\* A worker's buffer is as large as bufsize was when it first read (before
\* INIT), and every later read uses bufsize: it must never have grown, and must
\* hold the largest write the kernel was told of, behind its headers.  max_pages
\* is what that write needs.  The kernel is told of nothing it did not offer,
\* and the queue limits fit the reply's fields.  A new process that is fed the
\* same INIT (replayInit) lands on the same terms.
InitSound ==
    LET se == init.se
        out == init.out
    IN /\ se.bufsize <= NewSession.bufsize
       /\ se.got_init /\ ~out.error =>
             /\ se.bufsize >= out.max_write + Header /\ out.max_write > 0
             /\ "MAX_PAGES" \in out.flags =>
                   /\ (out.max_pages - 1) * OsPage < out.max_write /\ out.max_write <= out.max_pages * OsPage
                   /\ out.max_pages <= MaxPages
             /\ "MAX_PAGES" \notin init.arg.flags /\ init.arg.minor >= 6 =>
                   out.max_write <= DefaultPages * OsPage
             /\ out.flags \subseteq init.arg.flags \cup {"BIG_WRITES"}
             /\ out.max_readahead <= init.arg.max_readahead
             /\ out.congestion_threshold <= out.max_background /\ out.max_background < BackgroundTop
       /\ se.got_init => (se.exited <=> out.error)
       /\ se.got_init => DoInit(NewSession, init.arg, init.fs) = [se |-> se, out |-> out]
=============================================================================
