----------------------------- MODULE EntryTable -----------------------------
(***************************************************************************)
(* The life of the cache entries of one path in Store.files                *)
(* (src/src/store.zig): get() building an entry from the sidecar outside   *)
(* store.mu, references, forget, distrust, the idle reaper, the two        *)
(* cullers, and the two places that may free an entry.                     *)
(*                                                                         *)
(* What CachedFile models piece by piece is here one mark: an entry, and   *)
(* the sidecar, either claim the cached bytes or do not; the bytes are     *)
(* Good (the origin's), Stale (the origin was rewritten) or Hole.  A       *)
(* store.mu window is one step, except forget's and the reaper's, whose    *)
(* reference drops interleave with releases outside the lock.              *)
(***************************************************************************)
EXTENDS Integers, FiniteSets

CONSTANTS
    Users,       \* FUSE and peer handler threads
    MaxEntries,  \* bound: entries ever allocated
    MaxGets,     \* bound: lookups each handler starts
    MaxPurges    \* bound: forgets, creates and culls

ASSUME EntryBounds == MaxEntries \in Nat /\ MaxGets \in Nat /\ MaxPurges \in Nat

\* Who may be inside store.mu between two steps, besides nobody.
Reaper == "reaper"
Forgetter == "forgetter"
ASSUME FinitelyManyUsers == IsFiniteSet(Users) /\ Users \cap {Reaper, Forgetter} = {}

VARIABLES
    map,      \* Store.files: the path's entry, or None
    used,     \* entries allocated so far
    epoch,    \* Store.purge_epoch
    alloc,    \* per entry: its memory is live
    refs,     \* per entry: Cached.refs
    dead,     \* per entry: Cached.dead
    freed,    \* per entry: Cached.freed
    mark,     \* per entry: Cached.bits, as one mark
    sidecar,  \* meta/*.pieces claims the bytes
    bytes,    \* the data file's content
    ino,      \* which data file the path names: a purge unlinks it
    pin,      \* pin/* exists
    smu,      \* holder of store.mu across steps
    gone,     \* the entry forget has removed and is about to look at
    pc,       \* per thread: where it is
    at,       \* per thread: the entry it references or is releasing
    ep,       \* per thread: a builder's sample of purge_epoch
    seen,     \* per thread: the mark a builder read from the sidecar
    gets,     \* per thread: counter for the bound
    mut,      \* a create that has truncated the origin and not yet distrusted
    disk,     \* punchDisk: where it is
    diskFd,   \* the data file it opened
    diskEp,   \* its sample of purge_epoch
    purges    \* counter for the bound

tableVars == <<map, used, epoch>>
entryVars == <<alloc, refs, dead, freed, mark>>
fileVars == <<sidecar, bytes, ino, pin>>
lockVars == <<smu, gone>>
threadVars == <<pc, at, ep, seen, gets>>
diskVars == <<disk, diskFd, diskEp>>

vars == <<tableVars, entryVars, fileVars, lockVars, threadVars, mut, diskVars, purges>>

None == 0
Entries == 1 .. MaxEntries
Threads == Users \cup {Reaper}
Free == "free"

StoreMu == smu = Free
MayPurge == purges < MaxPurges /\ purges' = purges + 1
MayGet(t) == gets[t] < MaxGets /\ gets' = [gets EXCEPT ![t] = @ + 1]

\* A thread moves on; it takes hold of an entry; it is done with it.
Goto(t, l) == pc' = [pc EXCEPT ![t] = l]
Hold(t, e, l) == Goto(t, l) /\ at' = [at EXCEPT ![t] = e]
Rest(t) == Hold(t, None, "idle")

\* Reference counting: refs.fetchAdd on a hit, refs.fetchSub in releaseFile.
Referenced(e) == [refs EXCEPT ![e] = @ + 1]

DropOnlyLive(e) == IF dead[e] THEN refs    \* mutant: forget owns a dead entry's count
                   ELSE [refs EXCEPT ![e] = @ - 1]
Dropped(e) == [refs EXCEPT ![e] = @ - 1]

\* freed.swap: the first to set it destroys the entry.
Destroy(e) ==
    /\ freed' = [freed EXCEPT ![e] = TRUE]
    /\ alloc' = IF freed[e] THEN alloc ELSE [alloc EXCEPT ![e] = FALSE]

-----------------------------------------------------------------------------
(* getIdentified and lookupRef *)

\* A hit is referenced under store.mu; a miss samples the epoch to build.
Lookup(u) ==
    /\ pc[u] = "idle" /\ MayGet(u)
    /\ StoreMu
    /\ \/ /\ map # None
          /\ refs' = Referenced(map)
          /\ Hold(u, map, "hold")
          /\ UNCHANGED ep
       \/ /\ map = None
          /\ Goto(u, "load")
          /\ ep' = [ep EXCEPT ![u] = epoch]
          /\ UNCHANGED <<refs, at>>
    /\ UNCHANGED <<tableVars, alloc, dead, freed, mark, fileVars, lockVars, seen, mut, diskVars,
                   purges>>

\* loadBits, outside every lock.
LoadBits(u) ==
    /\ pc[u] = "load"
    /\ Goto(u, "insert")
    /\ seen' = [seen EXCEPT ![u] = sidecar]
    /\ UNCHANGED <<tableVars, entryVars, fileVars, lockVars, at, ep, gets, mut, diskVars, purges>>

\* A build is published only if no purge happened since its epoch sample.
AnyEpoch(u) == TRUE           \* mutant: no second look at purge_epoch
BuildCurrent(u) == epoch = ep[u]

\* A build that lost to a purge starts over from a fresh sample.
EpochKept(u) == ep            \* mutant: epoch sampled once
Resampled(u) == [ep EXCEPT ![u] = epoch]

\* The insert window: a winner is taken, a changed epoch restarts the build,
\* otherwise the entry is published with its first reference.
Insert(u) ==
    /\ pc[u] = "insert"
    /\ StoreMu
    /\ \/ /\ map # None
          /\ refs' = Referenced(map)
          /\ Hold(u, map, "hold")
          /\ UNCHANGED <<map, used, alloc, mark, ep>>
       \/ /\ map = None /\ ~BuildCurrent(u)
          /\ Goto(u, "load")
          /\ ep' = Resampled(u)
          /\ UNCHANGED <<map, used, alloc, refs, mark, at>>
       \/ /\ map = None /\ BuildCurrent(u)
          /\ used < MaxEntries
          /\ used' = used + 1
          /\ map' = used + 1
          /\ alloc' = [alloc EXCEPT ![used + 1] = TRUE]
          /\ refs' = Referenced(used + 1)
          /\ mark' = [mark EXCEPT ![used + 1] = seen[u]]
          /\ Hold(u, used + 1, "hold")
          /\ UNCHANGED ep
    /\ UNCHANGED <<epoch, dead, freed, fileVars, lockVars, seen, gets, mut, diskVars, purges>>

-----------------------------------------------------------------------------
(* What a handler does with its reference *)

DeadMarkable(e) == ~mark[e]    \* mutant: finishPiece does not look at dead
Markable(e) == ~dead[e] /\ ~mark[e]

\* A fill that completes: finishPiece marks and saves unless the entry died.
\* The descriptor of an entry that left the map names a purged file.
Fill(u) ==
    /\ pc[u] = "hold"
    /\ Markable(at[u])
    /\ mark' = [mark EXCEPT ![at[u]] = TRUE]
    /\ bytes' = IF at[u] = map THEN "Good" ELSE bytes
    /\ sidecar' = TRUE
    /\ UNCHANGED <<tableVars, alloc, refs, dead, freed, ino, pin, lockVars, threadVars, mut,
                   diskVars, purges>>

\* cullOne's punchPiece on a referenced entry: the mark goes first.
PunchLive(u) ==
    /\ pc[u] = "hold"
    /\ MayPurge
    /\ ~pin
    /\ mark[at[u]]
    /\ mark' = [mark EXCEPT ![at[u]] = FALSE]
    /\ sidecar' = FALSE
    /\ bytes' = "Hole"
    /\ UNCHANGED <<tableVars, alloc, refs, dead, freed, ino, pin, lockVars, threadVars, mut,
                   diskVars>>

\* The end of a release; the reaper's last one gives store.mu back.
Released(t) ==
    /\ Rest(t)
    /\ smu' = IF smu = t THEN Free ELSE smu

\* releaseFile: drop the reference; only the last one looks further ...
ReleaseRef(t) ==
    /\ pc[t] \in {"hold", "unpin"}
    /\ refs' = Dropped(at[t])
    /\ \/ refs[at[t]] = 1 /\ Goto(t, "checkDead") /\ UNCHANGED <<at, smu>>
       \/ refs[at[t]] # 1 /\ Released(t)
    /\ UNCHANGED <<tableVars, alloc, dead, freed, mark, fileVars, gone, ep, seen, gets, mut,
                   diskVars, purges>>

\* ... at dead, which is garbage once another thread freed the entry ...
ReleaseCheckDead(t) ==
    /\ pc[t] = "checkDead"
    /\ \/ /\ dead[at[t]] \/ ~alloc[at[t]]
          /\ Goto(t, "swap") /\ UNCHANGED <<at, smu>>
       \/ /\ ~dead[at[t]] \/ ~alloc[at[t]]
          /\ Released(t)
    /\ UNCHANGED <<tableVars, entryVars, fileVars, gone, ep, seen, gets, mut, diskVars, purges>>

\* ... and the winner of freed destroys it.
ReleaseFree(t) ==
    /\ pc[t] = "swap"
    /\ Destroy(at[t])
    /\ Released(t)
    /\ UNCHANGED <<tableVars, refs, dead, mark, fileVars, gone, ep, seen, gets, mut, diskVars,
                   purges>>

Release(t) == ReleaseRef(t) \/ ReleaseCheckDead(t) \/ ReleaseFree(t)

-----------------------------------------------------------------------------
(* forget and distrust *)

\* purgeArtifacts: data, sidecar and pin are unlinked.
PurgeArtifacts ==
    /\ sidecar' = FALSE
    /\ bytes' = "Hole"
    /\ ino' = ino + 1
    /\ pin' = FALSE

\* forget: removal, wipe, purge, dead stamp and epoch in one window ...
Forget ==
    /\ StoreMu
    /\ MayPurge
    /\ PurgeArtifacts
    /\ epoch' = epoch + 1
    /\ map' = None
    /\ \/ map = None /\ UNCHANGED <<dead, mark, lockVars>>
       \/ /\ map # None
          /\ mark' = [mark EXCEPT ![map] = FALSE]
          /\ dead' = [dead EXCEPT ![map] = TRUE]
          /\ smu' = Forgetter /\ gone' = map
    /\ UNCHANGED <<used, alloc, refs, freed, threadVars, mut, diskVars>>

LeftToReleaser(e) == FALSE    \* mutant: only releaseFile ever frees
Unreferenced(e) == refs[e] = 0

\* ... then, still under store.mu, the entry nobody references is freed.
ForgetFree ==
    /\ smu = Forgetter
    /\ smu' = Free /\ gone' = None
    /\ \/ Unreferenced(gone) /\ Destroy(gone)
       \/ ~Unreferenced(gone) /\ UNCHANGED <<alloc, freed>>
    /\ UNCHANGED <<tableVars, refs, dead, mark, fileVars, threadVars, mut, diskVars, purges>>

\* mf_create truncates the origin: what the cache holds is no longer current.
CreateOrigin ==
    /\ mut = "idle"
    /\ MayPurge
    /\ mut' = "created"
    /\ bytes' = IF bytes = "Good" THEN "Stale" ELSE bytes
    /\ UNCHANGED <<tableVars, entryVars, sidecar, ino, pin, lockVars, threadVars, diskVars>>

Distrust ==
    /\ mut = "created"
    /\ StoreMu
    /\ mut' = "idle"
    /\ sidecar' = FALSE
    /\ epoch' = epoch + 1
    /\ mark' = IF map = None THEN mark ELSE [mark EXCEPT ![map] = FALSE]
    /\ UNCHANGED <<map, used, alloc, refs, dead, freed, bytes, ino, pin, lockVars, threadVars,
                   diskVars, purges>>

-----------------------------------------------------------------------------
(* reapIdle *)

\* Phase 1 pins an idle entry nobody references.
ReapPin ==
    /\ pc[Reaper] = "idle" /\ MayGet(Reaper)
    /\ StoreMu
    /\ map # None
    /\ Unreferenced(map)
    /\ refs' = Referenced(map)
    /\ Hold(Reaper, map, "scan")
    /\ UNCHANGED <<tableVars, alloc, dead, freed, mark, fileVars, lockVars, ep, seen, mut, diskVars,
                   purges>>

\* Phase 2 keeps what holds a piece or a pin.
ReapScan ==
    /\ pc[Reaper] = "scan"
    /\ Goto(Reaper, IF mark[at[Reaper]] \/ pin THEN "unpin" ELSE "evict")
    /\ UNCHANGED <<tableVars, entryVars, fileVars, lockVars, at, ep, seen, gets, mut, diskVars,
                   purges>>

Evictable(e) == ~dead[e] /\ refs[e] = 1 /\ ~mark[e] /\ ~pin /\ map = e

\* Phase 3 looks again under store.mu, which it keeps until its reference is
\* dropped.
ReapEvict ==
    /\ pc[Reaper] = "evict"
    /\ StoreMu
    /\ smu' = Reaper
    /\ Goto(Reaper, "unpin")
    /\ \/ ~Evictable(at[Reaper]) /\ UNCHANGED <<map, epoch, dead, fileVars>>
       \/ /\ Evictable(at[Reaper])
          /\ map' = None
          /\ PurgeArtifacts
          /\ dead' = [dead EXCEPT ![at[Reaper]] = TRUE]
          /\ epoch' = epoch + 1
    /\ UNCHANGED <<used, alloc, refs, freed, mark, gone, at, ep, seen, gets, mut, diskVars, purges>>

-----------------------------------------------------------------------------
(* punchDisk: culls a file that has no live entry *)

DiskOpen ==
    /\ disk = "idle"
    /\ MayPurge
    /\ ~pin
    /\ disk' = "open" /\ diskFd' = ino
    /\ UNCHANGED <<tableVars, entryVars, fileVars, lockVars, threadVars, mut, diskEp>>

\* The epoch is sampled, then the sidecar read outside the lock.
DiskSample ==
    /\ disk = "open"
    /\ StoreMu
    /\ disk' = "sampled" /\ diskEp' = epoch
    /\ UNCHANGED <<tableVars, entryVars, fileVars, lockVars, threadVars, mut, diskFd, purges>>

\* One window: a live entry or a changed epoch calls it off; the cleared
\* sidecar is durable before the hole, which may fail; the epoch moves last.
\* Unclaimed bytes (no mark) go the same way.
DiskPunch ==
    /\ disk = "sampled"
    /\ StoreMu
    /\ disk' = "idle" /\ diskFd' = 0 /\ diskEp' = 0
    /\ \/ /\ map # None \/ epoch # diskEp
          /\ UNCHANGED <<sidecar, bytes, epoch>>
       \/ /\ map = None /\ epoch = diskEp                 \* punched
          /\ sidecar' = FALSE
          /\ bytes' = IF diskFd = ino THEN "Hole" ELSE bytes
          /\ epoch' = epoch + 1
       \/ /\ map = None /\ epoch = diskEp                 \* punch or save failed
          /\ sidecar' = FALSE \/ UNCHANGED sidecar
          /\ UNCHANGED <<bytes, epoch>>
    /\ UNCHANGED <<map, used, entryVars, ino, pin, lockVars, threadVars, mut, purges>>

\* `modelfs pin` and `unpin` run in another process and take no lock.
SetPin ==
    /\ pin' = ~pin
    /\ MayPurge
    /\ UNCHANGED <<tableVars, entryVars, sidecar, bytes, ino, lockVars, threadVars, mut, diskVars>>

-----------------------------------------------------------------------------
\* The daemon starts with an empty map over what an earlier run left.
Init ==
    /\ map = None /\ used = 0 /\ epoch = 0
    /\ alloc = [e \in Entries |-> FALSE]
    /\ refs = [e \in Entries |-> 0]
    /\ dead = [e \in Entries |-> FALSE]
    /\ freed = [e \in Entries |-> FALSE]
    /\ mark = [e \in Entries |-> FALSE]
    /\ sidecar \in BOOLEAN
    /\ bytes = IF sidecar THEN "Good" ELSE "Hole"
    /\ ino = 1 /\ pin = FALSE /\ smu = Free /\ gone = None
    /\ pc = [t \in Threads |-> "idle"]
    /\ at = [t \in Threads |-> None]
    /\ ep = [t \in Threads |-> 0]
    /\ seen = [t \in Threads |-> FALSE]
    /\ gets = [t \in Threads |-> 0]
    /\ mut = "idle" /\ disk = "idle" /\ diskFd = 0 /\ diskEp = 0 /\ purges = 0

UserStep(u) == LoadBits(u) \/ Insert(u) \/ Release(u)
ReaperStep == ReapScan \/ ReapEvict \/ Release(Reaper)

Next ==
    \/ \E u \in Users : Lookup(u) \/ UserStep(u) \/ Fill(u) \/ PunchLive(u)
    \/ ReapPin \/ ReaperStep
    \/ Forget \/ ForgetFree
    \/ CreateOrigin \/ Distrust
    \/ DiskOpen \/ DiskSample \/ DiskPunch
    \/ SetPin

Spec == Init /\ [][Next]_vars

\* A handler inside a call keeps running, and so does whoever holds store.mu.
FairSpec ==
    /\ Spec
    /\ \A u \in Users : WF_vars(UserStep(u))
    /\ WF_vars(ReaperStep)
    /\ WF_vars(ForgetFree)

-----------------------------------------------------------------------------
(* Properties *)

\* Every variable keeps its type; a reference count never wraps below zero
\* (releaseFile's fetchSub on an unsigned counter).
EntryTypeOK ==
    /\ map \in Entries \cup {None} /\ used \in 0 .. MaxEntries /\ epoch \in Nat
    /\ alloc \in [Entries -> BOOLEAN] /\ refs \in [Entries -> Nat]
    /\ dead \in [Entries -> BOOLEAN] /\ freed \in [Entries -> BOOLEAN]
    /\ mark \in [Entries -> BOOLEAN]
    /\ sidecar \in BOOLEAN /\ bytes \in {"Good", "Stale", "Hole"}
    /\ ino \in Nat /\ pin \in BOOLEAN
    /\ smu \in {Free, Forgetter, Reaper} /\ gone \in Entries \cup {None}
    /\ pc \in [Threads -> {"idle", "load", "insert", "hold", "scan", "evict", "unpin",
                           "checkDead", "swap"}]
    /\ at \in [Threads -> Entries \cup {None}] /\ ep \in [Threads -> Nat]
    /\ seen \in [Threads -> BOOLEAN] /\ gets \in [Threads -> Nat]
    /\ mut \in {"idle", "created"}
    /\ disk \in {"idle", "open", "sampled"} /\ diskFd \in Nat /\ diskEp \in Nat
    /\ purges \in Nat

\* The entry in the map claims only bytes that are there and current: a
\* builder whose sidecar read raced a purge, a distrust or a disk punch
\* publishes nothing (getIdentified's purge_epoch check).
MarksBacked == map # None /\ mark[map] /\ mut = "idle" => bytes = "Good"

\* So does the sidecar: no late fill recreates one over purged or holed
\* bytes, for the next entry build to believe (forget, punchDisk).
SidecarBacked == sidecar /\ mut = "idle" => bytes = "Good"

Holding(t) == pc[t] \in {"hold", "scan", "evict", "unpin"}

\* Every reference is accounted for: the count is the number of threads that
\* hold one, on every path through get(), the reaper's phases and the
\* releases (Cached.refs).
RefsExact ==
    \A e \in Entries : refs[e] = Cardinality({t \in Threads : Holding(t) /\ at[t] = e})

\* Whatever the order of the last release and the eviction, an entry that
\* left the map and lost its last reference is freed once nobody is in the
\* middle of looking at it (releaseFile, forget).
NoLeak ==
    \A e \in Entries :
        (dead[e] /\ refs[e] = 0 /\ gone # e /\ \A t \in Threads : at[t] # e) => ~alloc[e]

\* get() returns an entry, however purges restart its build.
GetReturns == \A u \in Users : pc[u] = "load" ~> pc[u] = "hold"

\* forget: "concurrent holders keep their reference alive until releaseFile;
\* whoever holds the last reference frees the entry".
HeldIsAlive == \A t \in Threads : Holding(t) => alloc[at[t]]
=============================================================================
