----------------------------- MODULE MCCachedFile -----------------------------
(* Instances of CachedFile for TLC: pieces of two units, files of up to two  *)
(* pieces, and the workloads of the runs.                                    *)
EXTENDS CachedFile, TLC

\* Spans: the whole file, piece 0, both pieces from the middle of piece 0;
\* a rewrite of piece 0, an append or rewrite of piece 1, an unaligned patch.
Whole == {<<0, 4>>}
Straddling == {<<0, 2>>, <<1, 3>>}
Aligned == {<<0, 2>>, <<2, 2>>}
Appends == {<<2, 2>>, <<1, 1>>}
Inner == {<<0, 2>>, <<1, 1>>}
Mixed == Aligned \cup Inner

\* One read and one write of a file of two pieces.
Plain ==
    [sizes |-> {4}, reads |-> Straddling, writes |-> Aligned, ops |-> {"write"}, faults |-> {},
     maxReaders |-> 1, maxReads |-> 1, maxMuts |-> 1, maxForeigns |-> 0, maxOpens |-> 0,
     maxRestarts |-> 0]

\* Two concurrent readers and a write; every way to change the size; I/O faults.
ServeLoads ==
    {[Plain EXCEPT !.writes = Mixed, !.maxReaders = 2, !.maxReads = 2],
     [Plain EXCEPT !.sizes = {1, 4}, !.reads = Whole, !.writes = Inner, !.maxMuts = 2,
                   !.ops = {"truncate", "create", "unlink", "write"}, !.faults = {"lag"}],
     [Plain EXCEPT !.writes = Inner, !.maxReads = 2, !.ops = {"write", "create"},
                   !.faults = {"origin", "close", "cache", "save", "stat", "lag"}]}

\* Appends racing an open; restarts with saves that fail; rewrites by another
\* node; truncates and a write beside two reads.
DriftLoads ==
    {[Plain EXCEPT !.sizes = {1, 2}, !.reads = Whole, !.writes = Mixed, !.maxMuts = 2, !.maxOpens = 1],
     [Plain EXCEPT !.writes = Inner, !.maxReads = 2, !.maxRestarts = 1, !.faults = {"save", "lag"}],
     [Plain EXCEPT !.ops = {}, !.maxReads = 2, !.maxForeigns = 2, !.maxOpens = 2],
     [Plain EXCEPT !.sizes = {2, 4}, !.writes = {<<0, 2>>, <<2, 2>>}, !.ops = {"truncate", "write"}, !.maxMuts = 2,
                   !.maxReads = 2]}

\* Reads of piece 0 against a writer, an unlink and a failing origin.
LiveLoads ==
    {[Plain EXCEPT !.sizes = {2}, !.reads = {<<0, 2>>}, !.writes = Inner,
                   !.maxReaders = 2, !.maxReads = 2, !.ops = {"write", "unlink"}, !.faults = {"origin"}]}

TruncateLoads == {[Plain EXCEPT !.sizes = {2, 4}, !.ops = {"truncate"}]}
CrashLoads == {[Plain EXCEPT !.maxReads = 2, !.maxRestarts = 1]}
OpenLoads == {[Plain EXCEPT !.sizes = {2}, !.writes = Appends, !.maxOpens = 1]}
RewriteLoads == {[Plain EXCEPT !.maxForeigns = 1, !.maxOpens = 1]}
AppendLoads == {[Plain EXCEPT !.sizes = {2}, !.writes = Appends]}
\* An open and a reader between a write past the end and truncates to where it was.
StrayLoads ==
    {[Plain EXCEPT !.sizes = {2}, !.reads = {<<0, 2>>}, !.writes = {<<2, 2>>, <<5, 1>>}, !.maxReads = 2,
                   !.ops = {"write", "truncate"}, !.maxMuts = 3, !.maxOpens = 1]}
\* A create whose close fails, and the next one, between two reads.
SkippedLoads ==
    {[Plain EXCEPT !.reads = Whole, !.writes = {<<0, 2>>}, !.maxReads = 2, !.maxMuts = 2,
                   !.ops = {"write", "create"}, !.faults = {"close"}]}

Interchangeable == Permutations(Readers) \cup Permutations(Openers)
=============================================================================
