------------------------------ MODULE DirBuffer ------------------------------
(***************************************************************************)
(* The directory handle of lib/fuse.c: how a listing the filesystem fills  *)
(* in one go is handed out in replies of the size the kernel asks for.     *)
(* An entry is a record with the length of its name; the handle is a       *)
(* record too.                                                             *)
(***************************************************************************)
EXTENDS Integers, Sequences, SequencesExt, FiniteSetsExt

CONSTANTS FirstSize, HalfSize, TopSize,  \* 1024, 0x80000000, 0xffffffff
          DirentSize, PlusSize,          \* FUSE_NAME_OFFSET, and with the attributes
          Align                          \* sizeof(uint64_t), what FUSE_DIRENT_ALIGN rounds up to

ASSUME DirBufferAssumption ==
    {FirstSize, HalfSize, TopSize, DirentSize, PlusSize, Align} \subseteq Nat \ {0}

\* struct fuse_dh: the entries kept, whether they are a whole listing, the
\* size of the reply buffer.
NoListing == [list |-> <<>>, filled |-> FALSE, size |-> 0]

Padded(len) == ((len + Align - 1) \div Align) * Align

\* What an entry takes in the reply, and with its attributes.
AddDirentry(e) == Padded(DirentSize + e.namelen)
AddDirentryPlus(e) == Padded(PlusSize + e.namelen)

Length(entries, plus) ==
    FoldLeft(LAMBDA s, e : s + (IF plus THEN AddDirentryPlus(e) ELSE AddDirentry(e)), 0, entries)

\* extend_contents doubles the buffer; the last doubling would overflow.
ExtendContents(size, need) ==
    LET from == IF size = 0 THEN FirstSize ELSE size
        grown[s \in 1..TopSize] ==
            IF s >= need THEN s ELSE IF s >= HalfSize THEN grown[TopSize] ELSE grown[2 * s]
    IN IF need <= size THEN size ELSE grown[from]

\* The longest beginning of a listing that fits.
Fitting(entries, need, plus) ==
    LET fits == {k \in 0..Len(entries) : Length(SubSeq(entries, 1, k), plus) <= need}
    IN SubSeq(entries, 1, Max(fits))

\* fill_dir from a filesystem that numbers its entries: each call starts at
\* the offset and ends when the buffer is full.  Nothing is kept.
FillOffsets(dh, dir, off, need, plus) ==
    LET offered == SelectSeq(dir, LAMBDA e : e.id > off)
    IN [dh |-> [list |-> <<>>, filled |-> FALSE,
                size |-> IF offered = <<>> THEN dh.size ELSE ExtendContents(dh.size, need)],
        sent |-> Fitting(offered, need, plus)]

\* fill_dir without offsets keeps every entry of the directory.
FillList(dh, dir) == [dh EXCEPT !.list = dir, !.filled = dir # <<>>]

\* readdir_fill when the filesystem fails, or memory does, part of the way.
FillFailed(dh) == [dh |-> [dh EXCEPT !.list = <<>>, !.filled = FALSE], sent |-> <<>>]

\* readdir_fill_from_list sends what fits behind the off-th entry.
FillFromList(dh, off, need, plus) ==
    [dh |-> [dh EXCEPT !.size = ExtendContents(dh.size, need)],
     sent |-> Fitting(SubSeq(dh.list, off + 1, Len(dh.list)), need, plus)]

\* Mutant: the listing is made anew for every reply.
KeptNever(dh, off) == FALSE

\* fuse_readdir_common: a rewind forgets the listing.
Kept(dh, off) == off # 0 /\ dh.filled

Readdir(dh, dir, off, need, plus, offsets, ok) ==
    LET full == IF Kept(dh, off) THEN dh ELSE FillList(dh, dir)
    IN CASE ~ok /\ ~Kept(dh, off) -> FillFailed(dh)
         [] ok /\ offsets -> FillOffsets(dh, dir, off, need, plus)
         [] OTHER -> IF full.filled THEN FillFromList(full, off, need, plus) ELSE [dh |-> full, sent |-> <<>>]
=============================================================================
