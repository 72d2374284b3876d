-------------------------------- MODULE Slab --------------------------------
(***************************************************************************)
(* The allocator of lib/fuse.c's nodes: pages cut into nodes.  A page with *)
(* a free node is on the partial list, one without on the full list, and   *)
(* the last node freed gives the page back.  A node is the pair of its     *)
(* page and its place in it, which is what node_to_slab reads off its      *)
(* address.                                                                *)
(***************************************************************************)
EXTENDS Integers, Sequences, SequencesExt

CONSTANTS PageSize, SlabHeader,    \* f->pagesize, sizeof(struct node_slab)
          NodeSize, LruNodeSize    \* sizeof(struct node), sizeof(struct node_lru)

ASSUME SlabAssumption ==
    /\ {PageSize, SlabHeader, NodeSize, LruNodeSize} \subseteq Nat \ {0}
    /\ SlabHeader + NodeSize <= PageSize /\ SlabHeader + LruNodeSize <= PageSize

\* struct node_slab of every mapped page, and the two lists of struct fuse.
NoSlabs == [partial |-> <<>>, full |-> <<>>, page |-> [p \in {} |-> {}]]

GetNodeSize(lru) == IF lru THEN LruNodeSize ELSE NodeSize

NodeToSlab(n) == n[1]

\* mmap gives a page that is not mapped.
AllocSlab(s, p, lru) ==
    LET num == (PageSize - SlabHeader) \div GetNodeSize(lru)
        fresh == [used |-> 0, freelist |-> [i \in 1..num |-> <<p, i>>]]
    IN [s EXCEPT !.partial = Append(@, p),
                 !.page = [q \in DOMAIN @ \cup {p} |-> IF q = p THEN fresh ELSE @[q]]]

\* The first free node of the first partial page.
AllocNode(s0, p, lru) ==
    LET s == IF s0.partial = <<>> THEN AllocSlab(s0, p, lru) ELSE s0
        q == Head(s.partial)
        free == s.page[q].freelist
        took == [s EXCEPT !.page[q] = [used |-> @.used + 1, freelist |-> Tail(free)]]
    IN [node |-> Head(free),
        s |-> IF Len(free) > 1 THEN took
              ELSE [took EXCEPT !.partial = Tail(@), !.full = Append(@, q)]]

FreeSlab(s, p) ==
    [partial |-> SelectSeq(s.partial, LAMBDA q : q # p),
     full |-> SelectSeq(s.full, LAMBDA q : q # p),
     page |-> [q \in DOMAIN s.page \ {p} |-> s.page[q]]]

\* Mutant: a page that was full is not offered again.
FreeStaysFull(s, n) ==
    LET p == NodeToSlab(n)
    IN IF s.page[p].used = 1 THEN FreeSlab(s, p)
       ELSE [s EXCEPT !.page[p] = [used |-> @.used - 1, freelist |-> <<n>> \o @.freelist]]

FreeNodeMem(s, n) ==
    LET p == NodeToSlab(n)
        back == [s EXCEPT !.page[p] = [used |-> @.used - 1, freelist |-> <<n>> \o @.freelist]]
    IN CASE s.page[p].used = 1 -> FreeSlab(s, p)
         [] s.page[p].used > 1 /\ s.page[p].freelist # <<>> -> back
         [] OTHER -> [back EXCEPT !.full = SelectSeq(@, LAMBDA q : q # p), !.partial = Append(@, p)]
=============================================================================
