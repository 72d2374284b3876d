# modelfs in TLA+

modelfs is a FUSE filesystem that keeps a piece-wise NVMe cache of model files
whose truth lives on a shared NFS origin. Nodes serve each other pieces over
HTTP. Two promises carry it. *A mark in the bitfield never lies*: a marked piece
is served without asking the origin, so a mark over a hole, over pre-write bytes
or over a deleted file's bytes is silent data corruption. And *the mount never
stops serving*: one process answers the kernel through libfuse, which is
compiled in (`-Dfuse-static`), and replaces itself by a new binary under load.
Almost every way to break either is a race nobody tests. This project models the
code that sets, clears, saves and trusts marks, the tables that give the kernel
its inode numbers, and the library under both.

Source paths are relative to the directory that holds `src/`, `tla/`; the
program's own code is in `src/src/*.zig`, its documentation in `src/docs/`,
libfuse 3.16.2 in `src/.deps/libfuse3-3.16.2/`.

## 1. Inventory

| Component | State it keeps | Operations | Talks to |
|---|---|---|---|
| `piece.zig` | none (arithmetic), `Bitfield` | count, offset, len, cover, fullCover, trackedEnd, rangeTracked; set, clear, lastSet, resize, encode, decode | used by everything |
| `store.zig`, `Cached` | size, bits, filling, writes, hashes, origin_id, dead, xfer, cache_fd; locks `content_mu` then `mu` | beginFill, completeFill, finishPiece, abortFill, readCache, readServed, copyIntoCache, cacheFillIdentified, growToLocked, reconcile, noteOriginId, punchPiece, truncateCacheFd, saveBits | data file, `meta/*.pieces` sidecar, origin |
| `store.zig`, `Store.files` | path → entry, refs, dead, freed, purge_epoch, pins; lock `store.mu` | getIdentified, lookupRef, releaseFile, forget, distrust, reapIdle, cullOne, punchDisk, setPin | the entries, the cache directory |
| `store.zig`, manifests | trusted piece digests, manifest_dirty, retry stamp | tryLoadManifest, publishManifest, expectedHash, healPiece, clearHashes | origin `.cluster/manifests` |
| `fuse_fs.zig` handlers | none of their own (kernel inode lock) | mf_open, mf_read, mf_write, mf_truncate, mf_create, mf_unlink, mf_rename, mf_release | store, peer client |
| `fuse_fs.zig`, inode tables | `nodes`, `paths`, `opens`, next numbers; lock `nodes_mu` | internPath, dropLookup, renameNodes, pathForIno, rememberOpen, forgetOpen; ll_* | kernel, origin |
| `fuse_fs.zig` session, `handover.zig` | captured INIT, wakeup pipe, handover and ack flags, sealed memfd | serve, ioRead, onUsr2, execHandover, replayInit, restoreMaps | libfuse, `modelfs update` |
| libfuse `fuse_loop_mt.c`, `fuse_lowlevel.c` (requests, INIT), `fuse_signals.c` | worker list and counters, request list, interrupts, session flags | the worker loop, process_buf, replies, do_interrupt, do_init, signal handlers | kernel, handlers |
| libfuse `fuse_lowlevel.c` (data), `buffer.c` | per-thread pipe, request and reply buffers | receive_buf, send_data_iov, do_write_buf, fuse_buf_copy | kernel |
| libfuse `mount.c`, `mount_util.c`, `helper.c` | device and helper descriptors, mount point, mtab | session_mount, kern_mount, setup_auto_unmount, daemonize, kern_unmount | kernel, fusermount3 |
| libfuse `fuse.c` | node tree and its two hash tables, tree locks, hidden files, lock lists, directory handles | the fuse_lib_* handlers | not on modelfs' request path (see 5) |
| `fuse_fs.zig` loops | round clocks | cullLoop, discLoop, tickCluster, init/deinit | store, discover |
| `cull.zig` | none | watermark policy | cullLoop |
| `discover.zig` | lease files, Catalog, /have cache, probe claims | publish, refresh, sweepLeases, havePut, probeTryClaim, updateGoodput | origin `.cluster` |
| `peer.zig` | connection slots | acceptLoop, serveHave, serveData, hydrateRange; fetchFromCands, fillFromPeers | store, discover |
| `proto.zig` | none | wire parsing and formatting | peer, discover |
| `hf.zig`, `update.zig`, `main.zig`, `clispec.zig` | CLI only | pull, self-update, reload, arguments, schema | store, discover, the daemon's signal and files |
| `sys.zig`, `c.zig`, `root.zig`, `determinism.zig`, `fuzzcorpus.zig` | none | syscalls, bindings, test support | everything |

What is hard here:

* **Interleavings.** FUSE workers, peer handlers, the culler, the reaper and the
  CLI meet on one entry. `file.mu` is dropped around every pread and pwrite, the
  bitfield is probed without a lock under `xfer`, `releaseFile` takes none. A
  rename falls between a handler's look at a path and its use of it. An
  interrupt finds a request that another thread is answering.
* **Stale samples.** An open's stat, a read's size, a fill's bytes, a builder's
  sidecar, a disk cull's sidecar and a manifest's identity are all used after a
  lock was released. The code defends each with something to compare: a write
  generation, a length, a purge epoch, an origin identity.
* **Failure.** Short pwrites, torn sidecars, failed stats, a crash between a
  durable clear and a punch, an origin write that failed after landing a prefix,
  a reply the kernel no longer wants, a splice that moved half a payload, a mount
  abandoned half way.
* **Replacement.** The process image changes under a live connection; signals
  arrive before the handlers are armed and after they are gone.
* **Liveness.** Readers wait for the filler of a piece; `get` restarts its build
  whenever a purge moved the epoch; a pool with everybody in a handler reads no
  interrupts; a request waits in a queue for somebody else's unlock.
* **Edges.** Short last pieces, grows that widen them, u32 and u64 clamps, a
  sidecar format told apart by length alone, buffer sizes settled from each other.

Correct means: marks honest in memory and on disk, reads that return only what
the file held during the read, nothing changed or freed under a transfer, a
forget that is final, exact references without leaks; digests that vouch for the
file's content; every request run and answered once whichever image serves it;
numbers and handles that go on naming their file; and calls that return.
`PROJECT.json` lists the hazards line by line with the property for each.

## 2. Modules

    Piece ──────── CachedFile ── MCCachedFile       one entry, piece by piece
      │                └──────── CachedFileProofs ── CachedServeProofs
      │            EntryTable ── EntryTableProofs   the entries of one path
      │            Manifest ──── MCManifest         digests between two nodes
      │                └──────── ManifestProofs
      │
      │   Connection  <= refines =  FuseSession ── MCFuseSession   worker pool, handover
      │                                └────────── FuseSessionProofs
      │            InodeTable ── MCInodeTable       numbers, paths, handles
      │                └──────── InodeTableProofs ── HandleProofs
      │            Mount ─────── MCMount            processes, descriptors, mounts
      │                └──────── MountProofs
      │            PathTree ──── MCPathTree         fuse.c's tree and its locks
      └──────────┐
    NodeTable, Slab, LockList, DirBuffer, Negotiation ── Algorithms ── MCAlgorithms
                                      data structures vs. what they stand for │
                   Transfer ──────────────────────────────────────────────────┘
                                                    one worker's pipe

The modules share no variables; they meet at operations that one of them takes
as a step and another opens up:

* `FuseSession`'s Handle is one handler. What it does to the cache is
  `CachedFile`, to the inode table `InodeTable`, and how its bytes travel is
  `Transfer`. `FuseSession`'s Exec and Adopt are `InodeTable`'s and `Mount`'s
  Handover.
* `CachedFile` follows the entry that was forgotten and its late fillers,
  `EntryTable` the path and its next entry; they meet in `forget`.
* `CachedFile`'s FetchPeer is opened up by `Manifest`: which bytes of a peer pass.
* `PathTree` finds nodes through `NodeTable` and allocates them from `Slab`;
  there both are plain sets.

### The cache

**`Piece`** is `piece.zig`'s arithmetic as operators. `maxInt(u32)` and
`maxInt(u64)` are the constants `U32Max`, `U64Max`; `+|` saturates and indices
clamp as in the code, so small values reach the clamps.

**`CachedFile`** is one live `Cached` and everything that touches it.

| Variable | Code |
|---|---|
| `osize, odata, oid` | the origin file: length, bytes, mtime (`OriginId`; the inode does not change here) |
| `data, dlen, sidecar` | the cache data file and `meta/*.pieces` |
| `size, nbits, bits, filling, writes, hashes, id, dead` | the fields of `Cached`; `filling` maps a piece to the generation its claim was taken at |
| `xfer`, `cmu` | `Cached.xfer` as the set of readers counted in it; holder of `content_mu` |
| `rd, wr, op, cull, ul` | program counters and locals of the readers, the mutator, the openers, the culler and the unlink |
| `seen, floor, foreign, wr.before` | history only: what the file held during each read, how far a shrink excuses it, whether another node wrote |
| `load` | the workload of this behaviour, less what has been done: every bound on calls is here |

A byte is a unit with a value and `Hole` is the zero an unwritten byte reads as.
A digest is the content itself. A `file.mu` critical section is one step; the
culler's, which spans a durable save and a punch, is two, and blocks everyone
who needs `file.mu`. `content_mu` is a variable because it is held across
unlocked I/O. Actions and handlers:

| Handler | Actions in order |
|---|---|
| `mf_read` | ReadBegin, ReadSample, then per missing piece Walk, BeginFill, FetchPeer or FetchOrigin, CompleteFill, FinishPiece, Probe; ReadServed, Reply |
| `mf_write` | WriteOrigin, WriteStat, then WriteFill (`cacheFillIdentified`) or WriteIdent, WriteGrow; CopyPwrite, CopyMark (`copyIntoCache`), WriteNote; or Distrust |
| `mf_truncate` | TruncateOrigin, TruncateEntry (or Distrust) |
| `mf_create` | CreateOrigin, Distrust, CreateWarm |
| `mf_unlink` | UnlinkForget, UnlinkOrigin, UnlinkPurge |
| `mf_open` | OpenStat, OpenReconcile |
| culler | PunchClear, PunchCut, PunchSaveFails |
| environment | ForeignRewrite, Restart |

Writes, truncates and creates of a file are serialised by the kernel's inode
lock, so there is one mutator; reads, opens, the unlink (issued on the parent
directory) and the culler run beside it. `data` is what a `pread` returns at any
moment of the `pread` state, so `ServeSafe` speaks about every byte the call may
copy, not about one instant.

**`EntryTable`** is the life of the entries of one path. What `CachedFile` shows
piece by piece is here one mark and three kinds of bytes (`Good`, `Stale`,
`Hole`); in exchange every step of `getIdentified`, `releaseFile`, `forget`,
`distrust`, `reapIdle`, `cullOne` and `punchDisk` on the map, the reference
counts, `dead`, `freed`, the purge epoch and the files is there. `store.mu`
windows are single steps, except where an unlocked `releaseFile` can interleave:
`forget` between its dead stamp and its look at `refs`, and the reaper's third
phase. A releaser that reads `dead` of freed memory gets either answer.
`getIdentified`'s reconcile with the origin and its wipe of a discarded sidecar
are in `CachedFile` (Reconcile, Restart), not here.

**`Manifest`** is one file between the node that writes it and one that reads
it. `ent[n]` is node n's `Cached` as far as digests go (marks and their content,
digests, `manifest_dirty`, the size the manifest was loaded for, the retry
stamp), `blob` the manifest on the origin. The content of a piece is the stamp
of the write that produced it, and the origin's mtime is the stamp of the last
write, so "older than" can be said. `pb[c]` is one `mf_release`, and a node has
several: the close of any handle publishes (read-only ones too), whatever the
writer and the other closes do meanwhile. History, for what the code lets
happen and the properties except: `lowered`, an open whose stat was older than
the writer's entry has taken that entry back; `misdated`, the digests a
publication took of a piece between a write's `cacheFillIdentified`, which
adopts the new identity, and its `copyIntoCache`, which records the new digest;
`crowded`, publications that overlapped a write or another close; `unsure`, the
flag was cleared by one of those.

| Code | Actions |
|---|---|
| `mf_write` | WriteLands, CacheFill, GetAfterWrite, CopyIntoCache, NoteOriginId |
| `hydratePiece`, `expectedHash`, `tryLoadManifest` | FillStart, BeginFill, TakeDigest; LoadSample, LoadRead, LoadStat, LoadMerge or LoadRetry, LoadEnd; Lookup, PeerFill or OriginFill, CompleteFill |
| `mf_release`, `publishManifest` | Release, Snapshot, WriteBlob, ClearDirty |
| `mf_open` | OpenStat, OpenReconcile |
| culler, `healPiece` | DropMark |

A peer answers with any content the piece ever had, or with nothing: the reading
node must defend itself. The kernel holds the inode lock over a write, so one
`mf_write` is under way on the writing node at a time; nothing holds off a close.

### The session

**`Connection`** is what a FUSE server promises the kernel on one connection,
said without workers, locks or processes: a request's handler runs at most once,
a request is answered at most once and, if its handler ran, with the handler's
result; an error is invented only for want of memory; only a session that is
leaving may lose a request, and never one it ran; a severed connection or a dead
server aborts the rest.

**`FuseSession`** is the process that serves: `fuse_session_loop_mt`'s pool,
request objects and the interrupt list, `serve` with its signal handlers, the
`exec` of a new image, and the `modelfs update` command.

| Code | Actions |
|---|---|
| `fuse_do_work`, `fuse_session_receive_buf_int` | Top, Poll and Read (`ioRead`), Unmounted (the ENODEV exit), Receive, Cancelled, Lock, Back; StartThread where a worker starts another |
| `fuse_session_process_buf_int` | Process (the INIT gate, check_interrupt, the list), NoMemory, Bounce |
| a handler and `fuse_reply_*` | Handle, Reply, Free |
| `do_interrupt`, `find_interrupted` | DoInterrupt, Mark, Put: the two halves around the dropped lock |
| `fuse_session_loop_mt_32` | Start, Check, SemWait, Cancel, Join, Leave |
| `serve`, `execHandover`, `replayInit` | Arm, WriteAck, Exec or ExecFails, Adopt, ReplayInit |
| signals | Terminate, OnUsr2, OnUsr2Exit |
| `cmdReload` | Publish, Kill, Acked, TimeOut |
| kernel (external) | Send, Withdraw, Interrupt; Sever, the mount goes |

A step is a critical section of `mt.lock` or `se->lock`, a blocking call, or the
code between two of them. The refinement mapping is `Fate(r)`: *queued* until
the handler ran, *ran* with its result until the reply is written, then what the
kernel recorded. `leaving` is the session's exit flag or a main thread on its
way out, `dead` the process's end.

**`InodeTable`** is `State.nodes`, `State.paths` and `State.opens` under two
concurrent handlers. Every critical section of `nodes_mu` and every call into
the origin is a step of its own: Stat and Intern (`ll_lookup`), Make (create,
mkdir), OpenFile and Remember (`ll_open`), RemoveFile, Move and Tables
(`renameNodes`), Reply, ReplyLost with UndoOpen and UndoLookup, Release, Forget,
and Handover (snapshot and `restoreMaps`). An operation that finds its work done
is taken for an NFS retry: a mkdir that finds its directory (in Make) succeeds,
and so does a rename that finds no source and a file at its destination
(Converge); the tables are then renamed as after a rename. A `paths` key is a slice of some
node's own string, so it is modelled as that node's number and can dangle. The
kernel's counts (`refs`, `forgets`, `handles`) are external. History variables
say which handles were opened under a rename (`torn`), and which lie under a
name that was exchanged or were moved by a rename that crossed another
(`crossed`): one that found, when it changed the origin, a rename of a path above
or below its own still on its way to the tables. Both are torn from then on, and
what the tables of a torn rename move is not judged.

**`Mount`** is how a mount comes up and goes down. Who holds which descriptor
decides everything, so each process (image, waiting parent, helper) has a table
of descriptors, and fork, exec and exit do to it what the kernel does. The
actions are named for the functions: NewSession, Stdio (the `/dev/null` loop),
OpenDev, MountSys, AddMtab, SetupAutoUnmount; MountFusermount, ReceiveFd;
SaveMountpoint, CustomIo, WakeupPipe, Replay, Daemonize, Detached; Handover;
PollUnmount (the poll and close of `fuse_kern_unmount`), KernUnmount (its umount,
by name), SessionDestroy, Exits; and the helper's HelperMounts, HelperFails,
HelperUnmounts. Replace is an operator who unmounts and mounts on the same
directory, while the session serves or between that poll and that umount; `late`
is history, that it was after the poll. There
are at least ten descriptors (`MountAssumption`): a mount has no more open, so
that no open of the model fails for want of a number.

**`Transfer`** is one worker's pipe over a series of requests, bytes counted in
pages: Receive… is `fuse_session_receive_buf_int` with its splice and read
branches, ReadHeader… to Write is `fuse_session_process_buf_int` and
`do_write_buf`, ReplyPipe to Fallback is `fuse_send_data_iov`, and CopyStep is
`fuse_buf_copy` with its memory, read, write and splice pieces.

### The path layer

**`PathTree`** is `lib/fuse.c`: `nodes` is the tree (name, parent, `nlookup`,
`refctr`, `open_count`, `treelock`, `is_hidden` as a name of its own), `lockq`
the queue of waiting requests, `th[t]` the handler thread t is in, `ents` and
`dirs` the user filesystem, `kl` and `kh` the kernel's lookups and handles. One
step is one section under `f->lock` or one call into the filesystem: GetPath and
WaitPath (`get_path_common`, `wait_path`), the Lib… actions, DoLookup, CountOpen
and AnswerOpen, DoRelease and PurgeHidden, TestOpen to HideNode (`hide_node`),
RemoveEntry, DropNode, MoveEntry, MoveNode, FreePath (`free_path` with
`wake_up_queued`), Reply, ForgetNode, Destroy. Handlers that differ only in the
filesystem call they make share an action, with the set of their names.

**`NodeTable`** (linear hashing with one bucket split or merged at a time),
**`Slab`** (pages of nodes), **`LockList`** (POSIX locks split and merged),
**`DirBuffer`** (a listing handed out in replies) and **`Negotiation`**
(`do_init`) are functions on records. **`Algorithms`** drives each, and `Piece`,
through any sequence of operations and compares it with what it stands for: a
set of nodes, a set of live places, the lock the filesystem granted on each byte
to each owner, the list of names, a set of bytes. When `locks_insert` has no
memory, the filesystem has granted the lock and `fuse_lib_setlk` answers success
all the same; `lost` is the bytes the list was not told of, and the list must be
right about all others.

## 3. Runs

Passing:

| Run | Checks | States, and what happens |
|---|---|---|
| `Serve` | ServeSafe, HonestMarks, DeadLeavesNoMarks, StableUnderXfer | 1.8 M. Two concurrent readers and a writer; truncate, create, unlink and write with a reader; every I/O fault with writes and creates |
| `Drift` | RecordsHonest, FieldMovesInTruncate | 1.9 M. Appends racing an open; restart at any step with failing saves; rewrites by another node with two opens; truncates beside reads |
| `Live` | ReadCompletes | 73 k, under fairness |
| `EntryTable` | MarksBacked, SidecarBacked, RefsExact, NoLeak, GetReturns | 142 k, under fairness |
| `Manifest` | BlobCurrent, EntriesCurrent, CleanIsPublished | MANSTATES. Two closes while pieces are filled and written; a reader behind a rewriting or appending writer, with a close on each; the same with a refill after a cull; patches and a fill on the writer; an open on the writer over its own writes; three writes with a fill and a close |
| `FuseSession` | ObjectsOwned, PoolKeepsReading, UpdateKeepsServing, ImplementsConnection, RequestsAnswered, ExitEnds, HandoverAcked | two requests, a forget and an interrupt; an update with a failing call, or a termination; an update after one that timed out; an unmount, with an update or without; under fairness |
| `InodeTable` | LookupsBalanced, KeysAliased, HandlesSound, NumbersNeverReused | 2.0 M. A directory renamed under an open file, or exchanged beside a rename inside it; files made, removed and exchanged; a rename taken for a retry; a failing allocation; a handover |
| `Mount` | ServesItsMount, OthersStay, TornDown | root or not, any standard descriptors closed, with a failing call and a kill, two handovers, or a mount replaced while it serves or while it is unmounted; under fairness |
| `PathTree` | PathsGuarded, RefsExact, HiddenFilesKept, NobodyStuck | TREESTATES. Sets of two to four requests over three threads: every handler, copy_file_range too, beside a rename and an unlink and beside a rename and a forget; opens, creates and lookups whose answer is lost |
| `Algorithms` | PiecesExact, TableFinds, SlabsExact, LocksTold, ListingExact, InitSound, DataSound | ALGSTATES. Each structure through any sequence of operations, with failing allocations; series of three requests on a worker's pipe, every source and buffer kind, two faults |

Some properties name several that are about one thing: `RecordsHonest` is
`HonestMarks` and `SidecarHonest` (memory and disk), `DataSound` is `PipeClean`,
`BytesExact` and `AnsweredOnce`, `HandlesSound` is `HandlesRecorded` and
`HandlesFollowUnraced`, `PathsGuarded` is `LocksExact` and `PathsHold`,
`HiddenFilesKept` is `OpenFilesStay` and `HiddenFilesGo`, `PiecesExact` is
`CoversExact` and `TilesExact`. Each part is a definition of its own. The type
invariants (`TypeOK`, `EntryTypeOK`) and `FillClaims` are parts of inductive
invariants; they are proved, and no run lists them.

Two runs end in a counterexample against the code's own comment (quoted in
`PROJECT.json` under findings):

| Run | Property | What the code does |
|---|---|---|
| `EntryTableFree` | HeldIsAlive | `releaseFile` drops the last reference, stalls before loading `dead`; another thread looks the entry up, `forget` marks it dead, and the stalled releaser frees it under its holder |
| `TruncateRealloc` | FieldStableUnderXfer | `mf_truncate` calls `bits.resize` in the arm taken when a reader is indexing the buffer |

Further configurations stand beside the runs. Each ends in a violation and shows
where a passing property had to stop, or a trade the code makes:

| Configuration | Module | Property | What it shows |
|---|---|---|---|
| `TruncateRead` | MCCachedFile | NoInventedBytes | a read that sampled the old size returns hole zeros past the new end after a shrink |
| `CrashWindow` | MCCachedFile | HonestMarks | the post-write identity can be saved, by another piece's `finishPiece`, before the written piece loses its mark; a crash then makes the old bytes trusted |
| `StaleOpen` | MCCachedFile | SizeFollowsMount | an open's stat from before an append reconciles the size back |
| `MaskedRewrite` | MCCachedFile | RewriteVisibleOnOpen | an own write adopts a foreign rewrite's newer identity and keeps the old marks |
| `UndersizedSidecar` | MCCachedFile | UndersizedFieldIsEmpty | a bit field short by exactly the trailer's length decodes as full, the trailer becoming marks (24 bytes in the code, 1 in the configuration) |
| `StrayMark` | MCCachedFile | HonestMarks | an open's stale stat shrinks the entry under a transfer, which keeps the bit field long; a write of the last piece is then marked past the size, a truncate to that same size keeps the mark, and the next grow makes it count over bytes the cache does not have |
| `SkippedWarmup` | MCCachedFile | ServeSafe | `mf_create` skips its warmup when its `close` fails, so the entry keeps its old size over an empty file; the next create or write takes that size back under a reader whose read began after the shrink |
| `StaleReopen` | MCManifest | EntriesAlwaysCurrent | an open on the writing node stats before an append and reconciles between `copyIntoCache` and `noteOriginId`; the entry, back at the older identity, merges the manifest of the file as it was, and `noteOriginId` then puts the new identity over those digests |
| `HandoverLoss` | MCFuseSession | NoRequestLost | a worker that returns from its read after SIGUSR2 set `exited` drops what it read; the caller of that request waits until the connection ends |
| `UnmountSpin` | MCFuseSession | UnmountEnds | after an unmount `poll` answers `POLLERR` without `POLLIN`; `ioRead` looks at `POLLIN` alone and polls again, so the worker never comes to the read that would tell it |
| `OpenRename` | MCInodeTable | HandlesFollow | an `ll_open` that looked its path up before a rename records the handle under the old name |
| `CrossedRenames` | MCInodeTable | HandlesFollowRenames | a rename inside a directory and one of the directory itself run at once; `renameNodes` runs for them in the other order than `rename(2)` did, and the open handle ends under a name that is no more |
| `RestoreAlias` | MCInodeTable | KeysAliased | two nodes may carry one path (a renamed-over one and its successor); `restoreMaps` leaves a `paths` entry with the first one's string as key and the second one's number, and forgetting the first leaves the key dangling |
| `NoHelper` | MCMount | TornDown | without `fusermount3`, a successor that did not mount itself has no mount point to unmount and the mount outlives it |

Four more are a run's own configuration with a property of the same module that
leaves out the exception the run's makes:

| Run | Property | instead of | What it shows |
|---|---|---|---|
| `Manifest` | CleanAlwaysPublished | CleanIsPublished | a write replaces a digest while the close of any handle, a read-only one too, is in `publishManifest`; the count stays the same, and `manifest_dirty` is cleared over a digest nobody published |
| `Manifest` | BlobAlwaysCurrent | BlobCurrent | a close takes its digests after a write's `cacheFillIdentified` has adopted the new identity and before its `copyIntoCache` has recorded the new digest, and publishes the old digest under the new identity |
| `PathTree` | EverybodyMoves | NobodyStuck | `fuse_lib_copy_file_range` holds its first path while it waits for its second; a rename queued between the two waits for the one and blocks the other |
| `Mount` | OthersAlwaysStay | OthersStay | `fuse_kern_unmount` polls the device, then unmounts by name: a mount that takes the place in between is unmounted instead |

Passing properties are stated around these: `SidecarHonest` excludes the
`CrashWindow` interval; `FieldMovesInTruncate` allows the buffer to move in `mf_truncate`
alone (`TruncateRealloc`) and says what that must leave behind: no mark, no
claim that still counts, the cache file untouched; `ServeSafe` lets a read overlapping a shrink return anything past the
new end, and its run has no opens and no foreign rewrites. In `Drift`, the
workload with restarts keeps a fixed size and writes that end before the end of
the file, which reconcile through `getIdentified`; a write that ends where the
file does goes through `cacheFillIdentified`, whose crash window is the
`CrashWindow` configuration. `HandlesFollowUnraced` exempts handles whose open
overlapped a rename or an exchange (`OpenRename`), whose name was exchanged, or
whose name two renames moved at once (`CrossedRenames`). In `Manifest` closes and
writes overlap freely; `BlobCurrent` and `EntriesCurrent` except a content of a
piece that a publication misdated (`BlobAlwaysCurrent`), `CleanIsPublished` holds
until a publication that overlapped a write or another close clears the flag
(`CleanAlwaysPublished`), and all three say nothing once an open took the writer's entry
back (`StaleReopen`). `InodeTable`'s load with a handover has no rename.
`OthersStay` is about a mount that was there when the device was polled
(`OthersAlwaysStay`), `NobodyStuck` excepts requests that wait behind a copy which
itself waits for its second path (`EverybodyMoves`), and `ExitEnds` begins with
the exit flag, which an unmount sets only if some worker comes to the read
(`UnmountSpin`).

**Bounds.** Cache: pieces of two units and files of up to two pieces: enough for
a short last piece, an aligned and an unaligned write, a span that straddles, a
grow that widens the last piece and a second piece whose fill saves the sidecar
of the first. Two readers are enough for one to wait on the other's claim. One
or two mutations cover a write racing a fill and a second write over a deferred
grow. `ByteBits = 1` makes every change of the piece count a change of the
buffer. The stat after a write may answer with the
attributes from before it, as an NFS client's cache may (fault `lag`).
`EntryTable` needs two handlers and the reaper for the reference races,
two entries for a successor and two purges for a purge during a build; the
theorems below drop those bounds. `Manifest` needs two writes for a digest to be
superseded, two pieces for a manifest to be partly true, two hydrating
threads on the reader for one to find the other's load claim, and two closing
threads on the writer for their publications to cross.

Session: two workers are the smallest pool in which one can be blocked while the
other reads, interrupts or is cancelled; one failing call at any point shows
every error path once. Four inode numbers beside the root and six paths give two directories, two
names for a child in each, so that a rename inside a directory can meet one of
the directory, and one number to spare for a reuse.
Three path-layer threads are two that exclude each other and one that waits for
both, or a copy, a rename and one between them; six node numbers are more than
any load keeps alive at once. `Transfer` takes three requests: one of each kind,
and two to meet what it left in the pipe. Its pipes hold 3 pages and may grow to
8, so a payload fits, needs a bigger pipe, or needs the fall-back.

Algorithms: 11 byte addresses, piece sizes 0 to 4 and at most 3 indices, so
spans cross both clamps; tables of at least 4 buckets and 8 nodes, so that they
double and halve; three slab pages of a few nodes; locks over four offsets, of which the list may miss one inner byte;
listings whose reply sizes cut anywhere.

**Symmetry** permutes readers and openers, handlers, hydrating threads of one
node, path-layer threads; in safety runs only.

**Deadlock** as TLC understands it is not checked: clients may stop issuing calls,
the bounds do, and `PathTree` really stops when a copy and a rename wait for each
other. Its `NobodyStuck` says of every state where only waiting requests are left
that it is this one; the other modules have liveness properties instead.

**Fairness.** Weak, and only for threads and processes that can run: each
reader's steps, the mutator's, an opener's reconcile, the second half of a
punch, a builder, a releaser, whoever holds `store.mu` (`CachedFile`,
`EntryTable`); each worker, the main thread, a signal handler that has been
entered, a started command's poll for its ack (`FuseSession`); the serving
process, its waiting parent, the helpers (`Mount`). These are OS threads and
processes that wait for nobody but each other, mutexes are held for bounded
work, and handlers return. No fairness is given to starting a call, to a
signal's arrival, to faults, culls, forgets, restarts or time-outs. A reader waiting on a
claim polls in the code (`beginFill` sleeps and retries); in the model it is
simply not enabled until the claim is gone. `RequestsAnswered`, `ExitEnds` and
`HandoverAcked` name the cases the code leaves open (a worker parked in a pool
whose other workers all wait, a command that gave up) in their hypotheses.

**Mutants.** Every property of a passing run has a mutated definition in the
module it concerns, marked `Mutant`, that the property refutes: a dropped
generation check, a hole cut before its save, a skipped `dead` check, a worker
not counted busy, a key left under the old name, a digest taken from any object,
and so on.

## 4. Proofs

`EntryTableProofs` proves, for every finite set of handlers and every bound on
entries, lookups and purges:

* `PublishedMarksBacked`, `PersistedMarksBacked`: `MarksBacked` and
  `SidecarBacked` are invariants;
* `EntriesAreFreed`: `NoLeak` is;
* `ReferencesCounted`: `RefsExact` is;
* `EntryTypeCorrect`: `EntryTypeOK` is;
* `EntryInvariant`: the inductive invariant they follow from.

Assumptions: the bounds are naturals (`EntryBounds`); the handlers are finitely
many and are neither the reaper nor forget's name for itself
(`FinitelyManyUsers`).

None of the properties is inductive. `MarksBacked` is broken by an insert of a
bit read long ago, so `BuildsBacked` says what a build may claim *while its
epoch stands*: that a sidecar it saw set is still backed. Preserving that needs
every step that can spoil bytes with no live entry in the map (forget, evict, a
disk punch) to move the epoch, or a create in progress to be visible in `mut`,
and `ep <= epoch` so that a moved epoch never comes back. `SidecarBacked` needs
that a dead entry cannot fill, and that the only live entry is the map's
(`Lifecycle`). `NoLeak` needs to know where a thread can be when it names an
entry (`Positions`). The invariant was model-checked before it was proved.

`RefsExact` is a counting argument on top: each step leaves the set of holders
of every entry alone (`SameHolders`), adds one thread to one (`TakesHold`) or
removes one (`LetsGo`), and changes that entry's count by the same amount. The
counter's type (never below zero) follows from it rather than the other way
round, which is why the inductive invariant types `refs` as an integer.

`CachedFileProofs` proves, for any readers, openers, sizes, workloads and
faults, opens, foreign rewrites and restarts among them:

* `ForgetIsFinal`: `DeadLeavesNoMarks`;
* `BytesStayUnderXfer`: `StableUnderXfer`, an action property;
* `FieldMovesOnlyInTruncate`: `FieldMovesInTruncate`, an action property too: of
  all the paths that replace the bitfield only `mf_truncate` does so under a
  transfer, and the reader that lost its buffer finds no mark in the new one;
* `TypesKept`, `ClaimsBelong`: the types (with `DeadInv`), and `FillClaims`.

`DeadLeavesNoMarks` alone is not inductive, because a punch that fails restores
the mark it cleared. The strengthening (`PunchesLiveEntry`) is that the culler is
never between its two steps on a dead entry: it keeps `file.mu` from the check to
the restore, and `forget` stamps `dead` under `file.mu`. With that, each
remaining step either leaves marks and sidecar alone, or saves the empty field of
a dead entry (`SavedEmpty`, `ReconcileNoMarks`, `GrowNoMarks`), or looks at
`dead` first (`finishPiece`, `copyIntoCache`, `truncateWithClose`). The types are
not free either: that no mark is past the last piece needs `Piece`'s arithmetic
(`PiecesType`, `CoverBounds`), and that a write's bytes stay in the file the
workload's spans. `BytesStayUnderXfer` is about which steps write `data`: a
transfer stops the truncate, the punch and the reconcile; a fill writes only a
piece whose claim it holds, which is unmarked, and needs that the buffer is no
longer than the piece (`FillLength`). `copyIntoCache` looks at `xfer` under
`content_mu`. `FillClaims` says that claims and fillers match one to one.

`CachedServeProofs` proves `MarksAreHonest`: `HonestMarks`, for every workload in
which the origin is written through this mount only, no open brings a stat and
the daemon does not die (`OneClient`), whatever the I/O faults (a stat that lags
the write among them), sizes, values and numbers of readers, truncates, creates, culls and unlinks. `MaskedRewrite`,
`StrayMark` and `CrashWindow` are the counterexamples without each part of that.

`HonestMarks` is far from inductive: a mark is set from a buffer read long
before, under a claim that may have been overtaken; a write passes through ten
steps in which the origin, the cache, the digests and the marks follow one
another; and a digest taken then vouches for a peer's bytes later. `ServeInv`
says, of an entry that is not dead, for every byte the daemon keeps of the file
and may use (`Fit`): it is the origin's byte unless a write of it is under way,
it is a byte the file had since the call under way began, and every read under
way may return it. `Store` says so of the bytes of marked pieces, the one under
the culler's hand included, and of digests; `Fills` of the buffer of a fill that
would still be accepted (its claim is of the entry's generation, its length the
piece's); `Call` what the mutator knows of the origin and the size at each of its
steps; `Locks` who holds `content_mu` and who is counted in `xfer`. An origin
call moves every byte from *Exact* to *Pending* (`BeginKeeps`), the fill of a
whole write or the copy brings it back (`FullExact`, `MarkSettles`), a grow drops
the mark and the digest of the piece it widens (`WidenedExact`), and a failing
step falls back to a wipe. Assumptions: those of `CachedFile`, and that readers
are none of the other holders of a lock. The invariant was model-checked on the
loads of `Serve` and on larger ones before it was proved; the search for it found
`StrayMark` and `SkippedWarmup`.

`ReadsAreServed` is `ServeSafe` under the same hypothesis and one more, that a
create's warmup is never skipped (`ClosesWork`); `SkippedWarmup` is the
counterexample without it. A read looks at a piece's mark once, without the lock,
and uses the piece later, when a write or a truncate may have dropped the mark.
`ReadInv` adds to `ServeInv`: every byte of a piece the read has passed is in the
cache and may be returned (`PassedFit`); the walk ends past the last byte asked
for (`Sampled`); and the sampled size still bounds the read, or the shrink that
cut the entry has released the read from what it cut (`Sized`). `PassedStays` is
the heart of it: beside a transfer only `completeFill` writes the data file, over
an unmarked piece, and what it writes is fit as well (`ServeInv`). A piece is
passed when it is marked, so fit by `MarksFit`; when the file has shrunk away
from it, and then the read owes nothing there; or when the entry is dead, and
then `readServed` takes the origin. `SizeFollows` says how far each step of a
mutator takes the entry's size.

`FuseSessionProofs` proves, for every pool size, every set of requests and any
number of updates and failing calls:

* `SessionImplementsConnection`: `ImplementsConnection`, the refinement. Each
  step maps to one of `Connection`'s or leaves it alone;
* `ObjectsAreOwned`, `PoolKeepsAReader`, `UpdatesKeepServing`: the run's three
  invariants;
* `SessionInvariant`: what they rest on.

`SessionInv` has five parts. `Types`; `Hands`, at which step a worker has which
request in hand, and that no two have the same; `Fates`, what the kernel, the
handler's result and the answer of a request can be while it is in a queue, in a
hand or answered, and that a severed connection has none outstanding; `Gate`, that nothing is sent before INIT was answered, and
that each image with workers has processed it, itself or by the replay; `Pool`, which workers exist in which phase of the main thread. The refinement
needs all of them: that Handle maps to `Connection`'s Run rests on the request
being in one hand only and not run yet, that Exec maps to a stutter on no worker
being left with a request. `ObjectInv` counts hands per object, `CountInv` the
workers outside their handlers against `numavail`, and `UpdateInv` ties a
command's phase to the daemon's.

`InodeTableProofs` proves, for any finite set of handlers, any paths and trees
and every load:

* `LookupsAreBalanced`: `LookupsBalanced`. One counting lemma per way a handler
  gains or loses a reference; in `Forget`, that what the kernel gives back is
  never more than the count, so the subtraction in `dropLookup` is exact;
* `NumbersAreFresh`: `NumbersNeverReused`, an action property. Every number in
  use is below `nextIno`, and the restore keeps it;
* `HandlesAreRecorded`: `HandlesRecorded`, half of `HandlesSound`. Two handlers
  never hold one handle, and the kernel holds none that a handler still has;
* `HandlesAreSound` (in `HandleProofs`): `HandlesSound`;
* `KeysAreOwned`: `KeysAliased` while no handover has happened or no rename is
  among the operations. Inductive is more (`Keys`): a key and its number are one
  node, and without renames every node is the one its path resolves to, so that
  a restore has no path to choose between. The condition cannot go: `RestoreAlias` is the
  counterexample;
* `TablesSound`: types and positions (`TableInv`), under all of these.

The second half of `HandlesSound`, `HandlesFollowUnraced`, says nothing while a
rename is between the origin and the tables, so it cannot be inductive. `Sound`
says of a record, at any time, where its file is if it has a name: where the
rename that is to move the record will put it (`Follows`), or where the record
says when none will. Three facts make that unambiguous. The objects of the
origin have one path each (`Objects`). Two renames under way whose paths are
above one another are torn, and under the old name of one that is not there is
nothing (`Untorn`). And nothing comes to be there: the kernel's locks keep the
directories of running operations apart, and a file is made in a directory that
exists (`Apart`, `MadeUncovered`). The steps then need that renaming is injective
and undone by its inverse, and that two prefixes of a path are comparable, which
the first section of `HandleProofs` proves of sequences. A rename taken for a retry (Converge) moves
records without moving a file: it found nothing under the old name, so no record
that was right is under it. The attempt to prove
this refuted an earlier form of `crossed`, in which only the first of two crossing
renames was noticed: with a directory exchanged between a rename inside it and
that rename's tables, a handle opened afterwards is moved though its file is not.
The load `Swapped` has the case now.

Assumptions: finitely many handlers, finite first trees, and paths that are
sequences of names (`TableAssumption`).
The inductive invariants of both modules were model-checked on the runs'
instances, and `Keys` on one with renames and a handover, before they were
proved.

`ManifestProofs` proves, for any nodes, fillers, closing threads, sizes and
loads, with closes beside writes and beside each other:

* `PublishedIsCurrent`: `BlobCurrent`;
* `EntriesStayCurrent`: `EntriesCurrent`;
* `CleanWasPublished`: `CleanIsPublished`;
* `ManifestInvariant`: what they rest on.

`ManifestInv` has five parts. `Shapes` types the state. `Clocks` says that every
identity anywhere is of a write that happened and that a piece holds its last
write. `Own` says that the writer's entry has the last write's identity between
writes, and one less at worst inside one. `Vouched` is the heart: every mark,
every digest, every fill that would still be accepted (its generation is the
entry's) and every manifest, in place, being loaded or being published, is *fit*
(`Fit`): it has content that was not rewritten up to the identity it stands for,
which for the piece a write is about to copy is the one before that write
(`Due`), or content that a publication misdated (`Excused`). An excuse must not
grow: on the writer it counts only while its entry holds digests from a
manifest, since what it copies and fills itself is of the file. An identity may
therefore rise only over unchanged pieces or over a wiped entry, and a patch
finds a piece as it was or as it is and tears only one that was misdated.
`Publishing` is about the publications of the writer that are not in `crowded`:
such a one is alone (`Alone`), until it clears the flag the entry still has every
digest it is publishing, and that the counts are equal then means that the sets
are (`SameDigests`). A flag that was cleared while `unsure` is false was cleared
by one of those.

Two guards of `tryLoadManifest` carry no weight in the argument: the write
generation it samples and the manifest's modification time. With one writing
node the identity in the trailer alone keeps an old manifest out. The search for
this invariant found two counterexamples: `StaleReopen`, where `Own` failed on an
open whose stat was older than the entry, and that of `BlobAlwaysCurrent`, where
`Vouched` failed on a digest taken inside a write.

Assumptions: `ManifestAssumption`. The invariant was model-checked on the run's
instance before it was proved.

`MountProofs` proves, for root or not, any standard descriptors closed at the
start, with or without `fusermount3`, and any number of faults and handovers:

* `ServesWhatIsMounted`: `ServesItsMount`;
* `OthersAreLeftAlone`: `OthersStay`, an action property;
* `MountInvariant`: what they rest on.

`MountInv` has seven parts. `Types`; `Forking`, which process the image is in and
whether it can have inherited its connection; `Table`, which numbers the image
can have open at each step: `Room` is exact enough that the lowest free number
is known wherever one is taken, `se->fd` is always 3, and what an exec would
close stays between 3 and 7; `Device`, that `se->fd` is the device of a mounted
connection; `Sockets`, that the image keeps its end of a running helper's
socket above the standard descriptors and through every exec, so that no helper
unmounts while it lives; `Helping`, where a helper and a descriptor under way
to the image can be; `Replacing`, that what the operator mounted is alone, and
that the image comes to unmounting over it only if it came after the poll. The
`/dev/null` loop of `fuse_session_mount` is what `Table` starts from: without
it the device may be descriptor 0, which `fuse_daemonize` replaces. Assumptions:
`MountAssumption`. The invariant was model-checked on the run's instance before
it was proved.

Only model-checked: liveness (`ReadCompletes`, `GetReturns`, `RequestsAnswered`,
`ExitEnds`, `HandoverAcked`, `TornDown`), which needs fairness and ENABLED;
`LockList`, which is recursive; what `DataSound` says of sums over a series of
pieces, and the functions of `Algorithms` over any sequence of operations, which
are inductions over data; and, so far, `RecordsHonest` (the marks on
disk, and the marks in memory when opens, restarts and other nodes take part)
and the safety properties of `PathTree`.

## 5. Not modelled, and why

**Across the modules.** Logging, statistics and recency stamps (a stamp only
delays a cull; no step may rely on it for safety). Allocation failure, except
where a module counts it among its faults (`FuseSession`, `InodeTable`,
`Algorithms`, `Mount`). A crash is a process crash: loss of unsynced data at a
power cut is not modelled, and `saveBits` without `durable` does not promise more.

**Cache.** Descriptors: `cache_fd`'s opening and the reaper's closing of it.
`mf_rename` and `renameOrigin` on entries; `serveData`'s transfers to peers. In
`Manifest`: forget, a dead entry and truncates during a load, an unknown
identity, a failed allocation while recording, two writes of one node in flight at
once (the inode lock excludes them), several writing nodes (the documentation asks for ingest on one node; the
comment in the module quotes it). A manifest of another size is remembered as loaded, as in
the code. The wire formats (`proto`, the manifest's text, decompression limits)
are pure conversions with fuzz corpora of their own.

**Session.** `fuse_fs` sets `max_idle_threads` to -1, so retiring of idle threads
does not happen. The notify calls, the interrupt function of the high-level
library, CUSE, `SIGHUP` handling by other programs, the pool of read buffers
(`claimReadBuf`). An operator who replaces the mount while the auto_unmount helper
looks at it. Option parsing, FreeBSD.

**Path layer.** `lib/fuse.c` and the splice paths of `buffer.c` are in the
binary, but modelfs registers a low-level operations table and replies from
memory, so requests do not pass through them: a property of `PathTree`,
`NodeTable`, `Slab`, `LockList`, `DirBuffer` or (with splice) `Transfer` is a
property of the library as linked, and says nothing of the cache; `PROJECT.json`
lists no hazard of that code. The model's filesystem creates regular files and
nothing puts a directory in the place of a path that is held, so
`fuse_lib_create`'s arm for something else is unreachable in it. `remember` and
`auto_cache`, module stacking (`modules/subdir.c`, `iconv.c`), the interrupt
signal, and the option parser of the high-level API are left out.

**Not yet.** `discover`, `peer`'s server and candidate loop, `cull` and the
loops: see the plan. `hf`, `update` and the rest of the CLI: sequential network
and text I/O with no state the daemon shares.

**Seen while modelling, outside the properties.** For the reader of the code;
each is either excluded by a load, noted where the model stops, or left to the
caller's contract:

* `Manifest`: two closes of one file can write the blob in either order, so an
  older manifest may replace a newer one; nothing then publishes the newer again
  (`CleanAlwaysPublished`). Digests a node loaded from another node's manifest are not in
  what it publishes itself. An open's stat from before an own append takes the
  entry's identity back, and `noteOriginId` later covers what was taken in
  meanwhile (`StaleReopen`). A close inside a write can publish the old digest
  under the new identity (`BlobAlwaysCurrent`): a reader with that manifest takes
  the old bytes from a peer for the new ones until the next publication.
* `fuse_fs.zig`: the comment in `onUsr2` relies on a non-blocking wakeup pipe,
  and `O_NONBLOCK` is not set there. `SIGUSR2` has its default action until it is
  armed and after it is disarmed. `captureInit` keeps the first INIT only.
  `ioRead` does not look at `POLLERR` (`UnmountSpin`). `renameOrigin`'s comment says
  that an ENOENT of a first call "has no new name either" (store.zig, above
  `renameOrigin`); a missing source beside an unrelated destination that was there
  before is answered with success too (Converge). `renameNodes`' comment on OOM says the node is
  dropped; it keeps its old name. `ll_lookup` stats, then interns: a rename of an
  ancestor falls in between. `RENAME_EXCHANGE` leaves open handles with the name
  instead of the file. `ll_rename` calls `rename(2)` and `renameNodes` without a
  lock over both, so two renames of overlapping paths can reach the tables in the
  other order than the origin (`CrossedRenames`).
* `main.zig`: on a time-out `modelfs update` removes its request file while the daemon
  may still be joining its workers.
* `fuse_loop_mt.c:365`: a termination between the test of `exited` and
  `sem_wait` is noticed when a worker next wakes; workers that leave post the
  semaphore, which is why `ExitEnds` holds.
* `mount.c`: a failed `setup_auto_unmount` leaves the device descriptor and the
  mtab line; a failed `strdup` in `fuse_session_mount` leaves `se->fd` naming a
  closed descriptor; a kill between the mount and its helper leaves the mount;
  `fuse_kern_unmount` unmounts by name what it looked at by descriptor
  (`OthersAlwaysStay`).
* `fuse_lowlevel.c`: a short `vmsplice`, a failed read-back and a failed header
  allocation leave a request without an answer; `do_init` asks for parallel
  directory operations and `handle_killpriv` and does not tell the kernel; a
  filesystem `init` that raises `max_write` gets the smaller buffer.
* `buffer.c`: `fuse_buf_fd_to_fd` after a short write loses what it read of a
  stream.
* `fuse.c`: `copy_file_range` takes its two paths one after the other (the code's
  own FIXME; `EverybodyMoves`); with `nullpath_ok` a hidden file can be left behind; releasing a
  create the kernel gave up uses the path it had then; `readdirplus` counts
  lookups of entries that did not fit; `fuse_lib_unlink` looks at the tree
  without `f->lock` (2972); `setlk` ignores an `ENOLCK` of `locks_insert`, so the
  list misses a lock the filesystem granted (`lost` in `Algorithms`).

## 6. Plan

Done: the marks and their entries, the manifest, the session with its
replacement, the inode tables, mounting, the data path and the path layer. Next:

1. Proofs. `CachedFile`: `SidecarHonest` without other nodes. `PathTree`:
   the lock counts (`LocksExact`), `RefsExact`.
2. `LeaseCatalog`: publish, refresh, sweep and the /have cache with probe
   claims, clocks that differ between hosts, lost and late files. Abstract
   specification: the catalog is a subset of leases that were live at the last
   refresh.
3. `PeerServer`: connection slots, serveData's transfer against the culler and
   the write-through, fillFromPeers' candidate loop with deadlines.
4. `CullPolicy`: the watermarks as operators with cullLoop's phases; hysteresis
   never oscillates within a round.
5. Rename and the reaper's descriptors in `EntryTable`; the wipe of a discarded
   sidecar after publication.
6. A regular-register specification of one file (a read returns for every byte a
   value it had during the read), with `CachedFile` as its implementation.
