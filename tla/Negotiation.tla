----------------------------- MODULE Negotiation -----------------------------
(***************************************************************************)
(* do_init of lib/fuse_lowlevel.c: what the session and the kernel agree   *)
(* on.  Of the capability bits one is kept of each kind: offered by a flag *)
(* or by the protocol's minor version; wanted by default, for an operation *)
(* the filesystem has, or only on its demand; told in the reply or not.    *)
(***************************************************************************)
EXTENDS Integers, FiniteSetsExt

CONSTANTS OsPage, Header, MinBuffer,   \* getpagesize, FUSE_BUFFER_HEADER_SIZE, FUSE_MIN_READ_BUFFER
          MaxPages, DefaultPages,      \* FUSE_MAX_MAX_PAGES, FUSE_DEFAULT_MAX_PAGES_PER_REQ
          UintMax,                     \* UINT_MAX
          BackgroundTop                \* 1 << 16

ASSUME NegotiationAssumption ==
    /\ {OsPage, Header, MinBuffer, MaxPages, DefaultPages, BackgroundTop} \subseteq Nat \ {0}
    /\ DefaultPages < MaxPages /\ UintMax \in Nat /\ UintMax > MaxPages * OsPage
    /\ Header < MinBuffer /\ MinBuffer <= DefaultPages * OsPage + Header

\* fuse_session_new.
NewSession == [max_write |-> UintMax, max_readahead |-> UintMax, bufsize |-> MaxPages * OsPage + Header,
               capable |-> {}, want |-> {}, got_init |-> FALSE, exited |-> FALSE]

Silent == [error |-> FALSE, flags |-> {}, max_readahead |-> 0, max_write |-> 0, max_pages |-> 0,
           max_background |-> 0, congestion_threshold |-> 0]

\* What the kernel can do; modelfs' hooks (se->io) have no splice.
Capable(arg, io) ==
    (IF arg.minor >= 6 THEN arg.flags \cap {"ASYNC_READ", "POSIX_LOCKS", "WRITEBACK_CACHE"} ELSE {})
    \cup (IF arg.minor >= 14 /\ ~io THEN {"SPLICE_READ"} ELSE {})
    \cup (IF arg.minor >= 18 THEN {"IOCTL_DIR"} ELSE {})

\* The defaults (LL_SET_DEFAULT).
Wanted(capable, op) ==
    capable \cap ({"ASYNC_READ", "IOCTL_DIR"}
                  \cup (IF "write_buf" \in op THEN {"SPLICE_READ"} ELSE {})
                  \cup (IF "setlk" \in op THEN {"POSIX_LOCKS"} ELSE {}))

\* Mutant: the headers are not counted.
SizedBare(se, arg) ==
    LET old == arg.minor >= 6 /\ "MAX_PAGES" \notin arg.flags
        cut == IF old THEN Min({se.bufsize, DefaultPages * OsPage + Header}) ELSE se.bufsize
        size == IF cut < MinBuffer THEN MinBuffer ELSE cut
    IN [se EXCEPT !.bufsize = size, !.max_write = Min({@, size})]

\* The buffer for one request: an older kernel sends fewer pages, and what it
\* may write at once fits behind the headers.
Sized(se, arg) ==
    LET old == arg.minor >= 6 /\ "MAX_PAGES" \notin arg.flags
        cut == IF old THEN Min({se.bufsize, DefaultPages * OsPage + Header}) ELSE se.bufsize
        size == IF cut < MinBuffer THEN MinBuffer ELSE cut
    IN [se EXCEPT !.bufsize = size, !.max_write = Min({@, size - Header})]

\* op.init: the filesystem may want more, write less, or ask for queues.
FsInit(se, fs) ==
    [se EXCEPT !.got_init = TRUE, !.want = @ \cup fs.want,
               !.max_write = IF fs.max_write = 0 THEN @ ELSE Min({@, fs.max_write})]

\* It cannot have what the kernel does not offer, nor another max_read than
\* the one mounted with.
Unsupported(se, fs) == ~(se.want \subseteq se.capable) \/ fs.max_read # fs.max_read_mo

Background(fs) ==
    LET most == IF fs.max_background >= BackgroundTop THEN BackgroundTop - 1 ELSE fs.max_background
    IN [most |-> most,
        threshold |-> IF fs.threshold = 0 THEN (most * 3) \div 4 ELSE Min({fs.threshold, most})]

\* The reply.
Told(se, arg, fs) ==
    LET b == IF arg.minor >= 13 THEN Background(fs) ELSE [most |-> 0, threshold |-> 0]
        pages == "MAX_PAGES" \in arg.flags
    IN [error |-> FALSE,
        flags |-> {"BIG_WRITES"} \cup (se.want \cap {"ASYNC_READ", "POSIX_LOCKS", "WRITEBACK_CACHE"})
                  \cup (IF pages THEN {"MAX_PAGES"} ELSE {}),
        max_readahead |-> se.max_readahead, max_write |-> se.max_write,
        max_pages |-> IF pages THEN (se.max_write - 1) \div OsPage + 1 ELSE 0,
        max_background |-> b.most, congestion_threshold |-> b.threshold]

\* A version 7 INIT settles everything.
Settle(se, arg, fs) ==
    LET capable == Capable(arg, fs.io)
        ahead == IF arg.minor < 6 THEN 0 ELSE Min({se.max_readahead, arg.max_readahead})
        met == [Sized(se, arg) EXCEPT !.capable = capable, !.want = Wanted(capable, fs.op),
                                      !.max_readahead = ahead]
        asked == FsInit(met, fs)
        done == [asked EXCEPT !.bufsize = IF asked.max_write < met.bufsize - Header
                                          THEN asked.max_write + Header ELSE @]
    IN IF Unsupported(asked, fs)
       THEN [se |-> [asked EXCEPT !.exited = TRUE], out |-> [Silent EXCEPT !.error = TRUE]]
       ELSE [se |-> done, out |-> Told(done, arg, fs)]

\* An older major version is refused; a newer one is told ours and expected to
\* ask again.
DoInit(se0, arg, fs) ==
    LET se == [se0 EXCEPT !.capable = {}, !.want = {}]
    IN CASE arg.major < 7 -> [se |-> se, out |-> [Silent EXCEPT !.error = TRUE]]
         [] arg.major > 7 -> [se |-> se, out |-> Silent]
         [] OTHER -> Settle(se, arg, fs)
==============================================================================
