-------------------------- MODULE EntryTableProofs --------------------------
(***************************************************************************)
(* Proofs about EntryTable, for any number of handlers and any bounds.     *)
(*                                                                         *)
(* None of the safety properties is inductive alone.  The invariant below  *)
(* ties them together: which entries exist and which one the map names     *)
(* (Lifecycle), what a thread's program counter says about its reference   *)
(* (Positions), what an unfinished build may claim (BuildsBacked), and the *)
(* reference count itself.                                                 *)
(***************************************************************************)
EXTENDS EntryTable, FiniteSetTheorems, TLAPS

Pcs == {"idle", "load", "insert", "hold", "scan", "evict", "unpin", "checkDead", "swap"}

\* Types, without the claim that a reference count never goes negative.
EntryTypes ==
    /\ alloc \in [Entries -> BOOLEAN]
    /\ refs \in [Entries -> Int]
    /\ dead \in [Entries -> BOOLEAN]
    /\ freed \in [Entries -> BOOLEAN]
    /\ mark \in [Entries -> BOOLEAN]

ThreadTypes ==
    /\ pc \in [Threads -> Pcs]
    /\ at \in [Threads -> Entries \cup {None}]
    /\ ep \in [Threads -> Nat]
    /\ seen \in [Threads -> BOOLEAN]
    /\ gets \in [Threads -> Nat]

FlagTypes == sidecar \in BOOLEAN /\ pin \in BOOLEAN

OtherTypes ==
    /\ map \in Entries \cup {None}
    /\ used \in 0 .. MaxEntries
    /\ epoch \in Nat
    /\ bytes \in {"Good", "Stale", "Hole"}
    /\ ino \in Nat
    /\ smu \in {Free, Forgetter, Reaper}
    /\ gone \in Entries \cup {None}
    /\ mut \in {"idle", "created"}
    /\ disk \in {"idle", "open", "sampled"}
    /\ diskFd \in Nat
    /\ diskEp \in Nat
    /\ purges \in Nat

Types == EntryTypes /\ ThreadTypes /\ FlagTypes /\ OtherTypes

\* The map names the one allocated entry that is not dead; a dead entry
\* claims nothing; forget looks at an entry only while it holds store.mu.
Lifecycle ==
    /\ map <= used /\ gone <= used
    /\ \A e \in Entries : e > used => ~dead[e] /\ ~freed[e] /\ refs[e] = 0
    /\ \A e \in Entries : e <= used => (dead[e] <=> e # map)
    /\ \A e \in Entries : dead[e] => ~mark[e]
    /\ \A e \in Entries : freed[e] => ~alloc[e]
    /\ smu = Forgetter <=> gone # None

\* A thread names an entry exactly from its lookup to the end of its release.
Positions ==
    \A t \in Threads :
        /\ at[t] <= used
        /\ pc[t] \in {"idle", "load", "insert"} <=> at[t] = None
        /\ ep[t] <= epoch

\* What a build has read is still true of the bytes if its epoch stands.
BuildsBacked ==
    \A t \in Threads :
        (pc[t] = "insert" /\ ep[t] = epoch /\ map = None /\ seen[t] /\ mut = "idle")
            => bytes = "Good"

EntryInv ==
    /\ Types /\ Lifecycle /\ Positions /\ BuildsBacked
    /\ MarksBacked /\ SidecarBacked /\ NoLeak

-----------------------------------------------------------------------------
USE DEF EntryInv, Types, tableVars, entryVars, fileVars, lockVars, threadVars, diskVars

\* A hit adds a holder to the live entry; a miss starts a build at this epoch.
LEMMA StepLookup ==
    ASSUME NEW u \in Users, EntryInv, Lookup(u)
    PROVE  EntryInv'
PROOF
  <1>u. u \in Threads  BY DEF Threads
  <1>1. FlagTypes' /\ OtherTypes' /\ MarksBacked' /\ SidecarBacked'
    BY DEF Lookup, FlagTypes, OtherTypes, MarksBacked, SidecarBacked
  <1>2. EntryTypes'
    BY <1>u DEF Lookup, MayGet, Hold, Goto, Referenced, EntryTypes
  <1>3. ThreadTypes'
    BY <1>u DEF Lookup, MayGet, Hold, Goto, Referenced, ThreadTypes, OtherTypes, Threads, Pcs
  <1>4. Lifecycle'
    <2>1. (map <= used /\ gone <= used)'
      BY <1>u, EntryBounds DEF Lookup, MayGet, Hold, Goto, Referenced, Lifecycle, EntryTypes,
        OtherTypes, Positions, ThreadTypes, Entries, None
    <2>2. (\A e \in Entries : e > used => ~dead[e] /\ ~freed[e] /\ refs[e] = 0)'
      BY <1>u, EntryBounds DEF Lookup, MayGet, Hold, Goto, Referenced, Lifecycle, EntryTypes,
        OtherTypes, Positions, ThreadTypes, Entries, None
    <2>3. (\A e \in Entries : e <= used => (dead[e] <=> e # map))'
      BY <1>u, EntryBounds DEF Lookup, MayGet, Hold, Goto, Referenced, Lifecycle, EntryTypes,
        OtherTypes, Positions, ThreadTypes, Entries, None
    <2>4. (\A e \in Entries : dead[e] => ~mark[e])'
      BY <1>u, EntryBounds DEF Lookup, MayGet, Hold, Goto, Referenced, Lifecycle, EntryTypes,
        OtherTypes, Positions, ThreadTypes, Entries, None
    <2>5. (\A e \in Entries : freed[e] => ~alloc[e])'
      BY <1>u, EntryBounds DEF Lookup, MayGet, Hold, Goto, Referenced, Lifecycle, EntryTypes,
        OtherTypes, Positions, ThreadTypes, Entries, None
    <2>6. (smu = Forgetter <=> gone # None)'
      BY <1>u, EntryBounds DEF Lookup, MayGet, Hold, Goto, Referenced, Lifecycle, EntryTypes,
        OtherTypes, Positions, ThreadTypes, Entries, None
    <2> QED  BY <2>1, <2>2, <2>3, <2>4, <2>5, <2>6 DEF Lifecycle
  <1>5. Positions'
    BY <1>u DEF Lookup, MayGet, Hold, Goto, Referenced, Positions, ThreadTypes, OtherTypes,
      Lifecycle
  <1>6. BuildsBacked'
    BY <1>u DEF Lookup, MayGet, Hold, Goto, Referenced, BuildsBacked, Positions, ThreadTypes,
      OtherTypes, SidecarBacked
  <1>7. NoLeak'
    <2> SUFFICES ASSUME NEW e \in Entries, dead'[e], refs'[e] = 0, gone' # e,
                        \A t \in Threads : at'[t] # e
                 PROVE  ~alloc'[e]
      BY DEF NoLeak
    <2>1. UNCHANGED <<alloc, dead, gone>>
      BY DEF Lookup
    <2>2. refs[e] = 0
      BY DEF Lookup, Referenced, EntryTypes, OtherTypes, Lifecycle
    <2>3. \A t \in Threads : at[t] # e
      BY <1>u DEF Lookup, Hold, Goto, ThreadTypes, Positions, Entries, None
    <2> QED  BY <2>1, <2>2, <2>3 DEF NoLeak
  <1> QED  BY <1>1, <1>2, <1>3, <1>4, <1>5, <1>6, <1>7

\* The mark a build reads is backed if nothing purges before it is published.
LEMMA StepLoadBits ==
    ASSUME NEW u \in Users, EntryInv, LoadBits(u)
    PROVE  EntryInv'
PROOF
  <1>u. u \in Threads  BY DEF Threads
  <1>1. EntryTypes' /\ FlagTypes' /\ OtherTypes' /\ Lifecycle' /\ MarksBacked' /\ SidecarBacked'
        /\ NoLeak'
    BY DEF LoadBits, EntryTypes, FlagTypes, OtherTypes, Lifecycle, MarksBacked, SidecarBacked,
      NoLeak
  <1>2. ThreadTypes'
    <2>1. pc' \in [Threads -> Pcs]
      BY DEF LoadBits, Goto, ThreadTypes, Pcs
    <2>2. seen' \in [Threads -> BOOLEAN]
      BY DEF LoadBits, ThreadTypes, FlagTypes
    <2> QED  BY <2>1, <2>2 DEF LoadBits, ThreadTypes
  <1>3. Positions'
    BY <1>u DEF LoadBits, Goto, Positions, ThreadTypes, OtherTypes, Lifecycle
  <1>4. BuildsBacked'
    BY <1>u DEF LoadBits, Goto, BuildsBacked, Positions, ThreadTypes, OtherTypes, SidecarBacked
  <1> QED  BY <1>1, <1>2, <1>3, <1>4

\* An entry is published only by a build whose epoch still stands.
LEMMA StepInsert ==
    ASSUME NEW u \in Users, EntryInv, Insert(u)
    PROVE  EntryInv'
PROOF
  <1>u. u \in Threads  BY DEF Threads
  <1>1. FlagTypes' /\ SidecarBacked'
    BY DEF Insert, FlagTypes, SidecarBacked
  <1>2. EntryTypes'
    <2>0. seen[u] \in BOOLEAN  BY <1>u DEF ThreadTypes
    <2>1. CASE map # None
      BY <2>1 DEF Insert, Referenced, EntryTypes
    <2>2. CASE map = None /\ ~BuildCurrent(u)
      BY <2>2 DEF Insert, EntryTypes
    <2>3. CASE map = None /\ BuildCurrent(u)
      <3>1. refs' \in [Entries -> Int]
        BY <2>3 DEF Insert, Referenced, EntryTypes
      <3>2. mark' \in [Entries -> BOOLEAN]
        BY <2>0, <2>3 DEF Insert, EntryTypes
      <3>3. alloc' \in [Entries -> BOOLEAN]
        BY <2>3 DEF Insert, EntryTypes
      <3> QED  BY <3>1, <3>2, <3>3 DEF Insert, EntryTypes
    <2> QED  BY <2>1, <2>2, <2>3
  <1>3. ThreadTypes'
    <2>1. CASE map # None
      BY <2>1, <1>u DEF Insert, Hold, Goto, ThreadTypes, OtherTypes, Pcs
    <2>2. CASE map = None /\ ~BuildCurrent(u)
      BY <2>2, <1>u DEF Insert, Goto, Resampled, ThreadTypes, OtherTypes, Pcs
    <2>3. CASE map = None /\ BuildCurrent(u)
      BY <2>3, <1>u, EntryBounds DEF Insert, Hold, Goto, ThreadTypes, OtherTypes, Pcs, Entries
    <2> QED  BY <2>1, <2>2, <2>3
  <1>4. OtherTypes'
    <2>1. CASE map # None
      BY <2>1 DEF Insert, OtherTypes
    <2>2. CASE map = None /\ ~BuildCurrent(u)
      BY <2>2 DEF Insert, OtherTypes
    <2>3. CASE map = None /\ BuildCurrent(u)
      BY <2>3, EntryBounds DEF Insert, OtherTypes, Entries
    <2> QED  BY <2>1, <2>2, <2>3
  <1>5. Lifecycle'
    <2>1. (map <= used /\ gone <= used)'
      BY <1>u, EntryBounds DEF Insert, Hold, Goto, Referenced, BuildCurrent, Resampled,
        Lifecycle, EntryTypes, OtherTypes, Positions, ThreadTypes, Entries, None
    <2>2. (\A e \in Entries : e > used => ~dead[e] /\ ~freed[e] /\ refs[e] = 0)'
      BY <1>u, EntryBounds DEF Insert, Hold, Goto, Referenced, BuildCurrent, Resampled,
        Lifecycle, EntryTypes, OtherTypes, Positions, ThreadTypes, Entries, None
    <2>3. (\A e \in Entries : e <= used => (dead[e] <=> e # map))'
      BY <1>u, EntryBounds DEF Insert, Hold, Goto, Referenced, BuildCurrent, Resampled,
        Lifecycle, EntryTypes, OtherTypes, Positions, ThreadTypes, Entries, None
    <2>4. (\A e \in Entries : dead[e] => ~mark[e])'
      BY <1>u, EntryBounds DEF Insert, Hold, Goto, Referenced, BuildCurrent, Resampled,
        Lifecycle, EntryTypes, OtherTypes, Positions, ThreadTypes, Entries, None
    <2>5. (\A e \in Entries : freed[e] => ~alloc[e])'
      BY <1>u, EntryBounds DEF Insert, Hold, Goto, Referenced, BuildCurrent, Resampled,
        Lifecycle, EntryTypes, OtherTypes, Positions, ThreadTypes, Entries, None
    <2>6. (smu = Forgetter <=> gone # None)'
      BY <1>u, EntryBounds DEF Insert, Hold, Goto, Referenced, BuildCurrent, Resampled,
        Lifecycle, EntryTypes, OtherTypes, Positions, ThreadTypes, Entries, None
    <2> QED  BY <2>1, <2>2, <2>3, <2>4, <2>5, <2>6 DEF Lifecycle
  <1>6. Positions'
    <2>1. CASE map # None
      BY <2>1, <1>u, EntryBounds DEF Insert, Hold, Goto, Positions, ThreadTypes, OtherTypes,
        Lifecycle, Entries, None, Pcs
    <2>2. CASE map = None /\ ~BuildCurrent(u)
      BY <2>2, <1>u, EntryBounds DEF Insert, Goto, Resampled, Positions, ThreadTypes,
        OtherTypes, Lifecycle, Entries, None, Pcs
    <2>3. CASE map = None /\ BuildCurrent(u)
      BY <2>3, <1>u, EntryBounds DEF Insert, Hold, Goto, Positions, ThreadTypes, OtherTypes,
        Lifecycle, Entries, None, Pcs
    <2> QED  BY <2>1, <2>2, <2>3
  <1>7. BuildsBacked'
    BY <1>u DEF Insert, Hold, Goto, Referenced, BuildCurrent, Resampled, BuildsBacked,
      Positions, ThreadTypes, OtherTypes, SidecarBacked, MarksBacked
  <1>8. MarksBacked'
    <2>1. CASE map # None
      BY <2>1 DEF Insert, MarksBacked, EntryTypes, OtherTypes
    <2>2. CASE map = None /\ ~BuildCurrent(u)
      BY <2>2 DEF Insert, MarksBacked, EntryTypes, OtherTypes
    <2>3. CASE map = None /\ BuildCurrent(u)
      BY <2>3, <1>u, EntryBounds DEF Insert, BuildCurrent, BuildsBacked, ThreadTypes, Entries,
        None, MarksBacked, EntryTypes, OtherTypes
    <2> QED  BY <2>1, <2>2, <2>3
  <1>9. NoLeak'
    <2> SUFFICES ASSUME NEW e \in Entries, dead'[e], refs'[e] = 0, gone' # e,
                        \A t \in Threads : at'[t] # e
                 PROVE  ~alloc'[e]
      BY DEF NoLeak
    <2>1. dead[e] /\ gone # e /\ e <= used
      BY EntryBounds DEF Insert, Lifecycle, OtherTypes, Entries
    <2>2. alloc'[e] = alloc[e] /\ refs[e] = 0
      BY <2>1, EntryBounds DEF Insert, Referenced, EntryTypes, OtherTypes, Lifecycle, Entries, None
    <2>3. \A t \in Threads : at[t] # e
      BY <1>u DEF Insert, Hold, Goto, ThreadTypes, Positions, Entries, None
    <2> QED  BY <2>1, <2>2, <2>3 DEF NoLeak
  <1> QED  BY <1>1, <1>2, <1>3, <1>4, <1>5, <1>6, <1>7, <1>8, <1>9

\* A fill marks only the entry in the map: a dead one is not markable.
LEMMA StepFill ==
    ASSUME NEW u \in Users, EntryInv, Fill(u)
    PROVE  EntryInv'
PROOF
  <1>u. u \in Threads  BY DEF Threads
  <1>h. at[u] \in Entries
    BY <1>u DEF Fill, Positions, ThreadTypes
  <1>m. at[u] = map
    BY <1>u, <1>h DEF Fill, Markable, Lifecycle, Positions
  <1>b. bytes' = "Good"
    BY <1>m DEF Fill
  <1>1. ThreadTypes' /\ Positions' /\ NoLeak'
    BY DEF Fill, ThreadTypes, Positions, NoLeak
  <1>2. EntryTypes'
    BY <1>u, <1>h DEF Fill, Markable, EntryTypes
  <1>3. FlagTypes'
    BY <1>u, <1>h DEF Fill, Markable, FlagTypes
  <1>4. OtherTypes'
    BY <1>b DEF Fill, Markable, OtherTypes
  <1>5. Lifecycle'
    BY <1>u, <1>h DEF Fill, Markable, Lifecycle, EntryTypes, OtherTypes
  <1>6. BuildsBacked'
    BY <1>b DEF BuildsBacked
  <1>7. MarksBacked'
    BY <1>b DEF MarksBacked
  <1>8. SidecarBacked'
    BY <1>b DEF SidecarBacked
  <1> QED  BY <1>1, <1>2, <1>3, <1>4, <1>5, <1>6, <1>7, <1>8

\* A marked entry is the one in the map, so no build is about to be published.
LEMMA StepPunchLive ==
    ASSUME NEW u \in Users, EntryInv, PunchLive(u)
    PROVE  EntryInv'
PROOF
  <1>u. u \in Threads  BY DEF Threads
  <1>h. at[u] \in Entries
    BY <1>u DEF PunchLive, Positions, ThreadTypes
  <1>1. ThreadTypes' /\ Positions' /\ NoLeak'
    BY DEF PunchLive, ThreadTypes, Positions, NoLeak
  <1>2. EntryTypes'
    BY <1>u, <1>h DEF PunchLive, MayPurge, EntryTypes
  <1>3. FlagTypes'
    BY <1>u, <1>h DEF PunchLive, MayPurge, FlagTypes
  <1>4. OtherTypes'
    BY <1>u, <1>h DEF PunchLive, MayPurge, OtherTypes
  <1>5. Lifecycle'
    BY <1>u, <1>h DEF PunchLive, MayPurge, Lifecycle, EntryTypes, OtherTypes
  <1>6. BuildsBacked'
    <2>1. map # None
      BY <1>u, <1>h, EntryBounds DEF PunchLive, Lifecycle, Positions, EntryTypes, OtherTypes, ThreadTypes, Entries, None
    <2> QED  BY <2>1 DEF PunchLive, BuildsBacked
  <1>7. MarksBacked'
    BY <1>u, <1>h DEF PunchLive, MayPurge, MarksBacked, EntryTypes, OtherTypes, Lifecycle,
      Positions
  <1>8. SidecarBacked'
    BY <1>u, <1>h DEF PunchLive, MayPurge, SidecarBacked
  <1> QED  BY <1>1, <1>2, <1>3, <1>4, <1>5, <1>6, <1>7, <1>8

\* Dropping a reference leaves a dead entry in the hands of its last holder.
LEMMA StepReleaseRef ==
    ASSUME NEW s \in Threads, EntryInv, ReleaseRef(s)
    PROVE  EntryInv'
PROOF
  <1>h. at[s] \in Entries
    BY DEF ReleaseRef, Positions, ThreadTypes
  <1>1. FlagTypes' /\ MarksBacked' /\ SidecarBacked'
    BY DEF ReleaseRef, FlagTypes, MarksBacked, SidecarBacked
  <1>2. EntryTypes'
    BY <1>h DEF ReleaseRef, Released, Rest, Hold, Dropped, Goto, EntryTypes
  <1>3. ThreadTypes'
    BY <1>h DEF ReleaseRef, Released, Rest, Hold, Dropped, Goto, ThreadTypes, OtherTypes,
      Threads, Pcs
  <1>4. OtherTypes'
    BY DEF ReleaseRef, Released, OtherTypes
  <1>5. Lifecycle'
    <2>1. (map <= used /\ gone <= used)'
      BY <1>h, FinitelyManyUsers, EntryBounds DEF ReleaseRef, Released, Rest, Hold, Dropped,
        Goto, Lifecycle, EntryTypes, OtherTypes, Positions, ThreadTypes, Free, Forgetter,
        Reaper, Threads, Entries, None
    <2>2. (\A e \in Entries : e > used => ~dead[e] /\ ~freed[e] /\ refs[e] = 0)'
      BY <1>h, FinitelyManyUsers, EntryBounds DEF ReleaseRef, Released, Rest, Hold, Dropped,
        Goto, Lifecycle, EntryTypes, OtherTypes, Positions, ThreadTypes, Free, Forgetter,
        Reaper, Threads, Entries, None
    <2>3. (\A e \in Entries : e <= used => (dead[e] <=> e # map))'
      BY <1>h, FinitelyManyUsers, EntryBounds DEF ReleaseRef, Released, Rest, Hold, Dropped,
        Goto, Lifecycle, EntryTypes, OtherTypes, Positions, ThreadTypes, Free, Forgetter,
        Reaper, Threads, Entries, None
    <2>4. (\A e \in Entries : dead[e] => ~mark[e])'
      BY <1>h, FinitelyManyUsers, EntryBounds DEF ReleaseRef, Released, Rest, Hold, Dropped,
        Goto, Lifecycle, EntryTypes, OtherTypes, Positions, ThreadTypes, Free, Forgetter,
        Reaper, Threads, Entries, None
    <2>5. (\A e \in Entries : freed[e] => ~alloc[e])'
      BY <1>h, FinitelyManyUsers, EntryBounds DEF ReleaseRef, Released, Rest, Hold, Dropped,
        Goto, Lifecycle, EntryTypes, OtherTypes, Positions, ThreadTypes, Free, Forgetter,
        Reaper, Threads, Entries, None
    <2>6. (smu = Forgetter <=> gone # None)'
      BY <1>h, FinitelyManyUsers, EntryBounds DEF ReleaseRef, Released, Rest, Hold, Dropped,
        Goto, Lifecycle, EntryTypes, OtherTypes, Positions, ThreadTypes, Free, Forgetter,
        Reaper, Threads, Entries, None
    <2> QED  BY <2>1, <2>2, <2>3, <2>4, <2>5, <2>6 DEF Lifecycle
  <1>6. Positions'
    BY <1>h, EntryBounds DEF ReleaseRef, Released, Rest, Hold, Dropped, Goto, Positions,
      ThreadTypes, OtherTypes, Lifecycle, Entries, None, Pcs
  <1>7. BuildsBacked'
    BY <1>h DEF ReleaseRef, Released, Rest, Hold, Dropped, Goto, BuildsBacked, Positions,
      ThreadTypes, OtherTypes, SidecarBacked
  <1>8. NoLeak'
    <2> SUFFICES ASSUME NEW e \in Entries, dead'[e], refs'[e] = 0, gone' # e,
                        \A t \in Threads : at'[t] # e
                 PROVE  ~alloc'[e]
      BY DEF NoLeak
    <2> QED
      BY <1>h DEF ReleaseRef, Released, Rest, Hold, Dropped, Goto, NoLeak, EntryTypes,
        ThreadTypes, OtherTypes, Lifecycle, StoreMu, Free, Forgetter
  <1> QED  BY <1>1, <1>2, <1>3, <1>4, <1>5, <1>6, <1>7, <1>8

\* A release that sees the entry alive leaves it to forget or the reaper.
LEMMA StepReleaseCheckDead ==
    ASSUME NEW s \in Threads, EntryInv, ReleaseCheckDead(s)
    PROVE  EntryInv'
PROOF
  <1>h. at[s] \in Entries
    BY DEF ReleaseCheckDead, Positions, ThreadTypes
  <1>1. EntryTypes' /\ FlagTypes' /\ MarksBacked' /\ SidecarBacked'
    BY DEF ReleaseCheckDead, EntryTypes, FlagTypes, MarksBacked, SidecarBacked
  <1>2. ThreadTypes'
    BY <1>h DEF ReleaseCheckDead, Released, Rest, Hold, Goto, ThreadTypes, OtherTypes, Threads,
      Pcs
  <1>3. OtherTypes'
    BY <1>h DEF ReleaseCheckDead, Released, Rest, Hold, Goto, OtherTypes
  <1>4. Lifecycle'
    BY <1>h, FinitelyManyUsers DEF ReleaseCheckDead, Released, Rest, Hold, Goto, Lifecycle,
      EntryTypes, OtherTypes, Free, Forgetter, Reaper, Threads
  <1>5. Positions'
    BY <1>h, EntryBounds DEF ReleaseCheckDead, Released, Rest, Hold, Goto, Positions,
      ThreadTypes, OtherTypes, Lifecycle, Entries, None, Pcs
  <1>6. BuildsBacked'
    BY <1>h DEF ReleaseCheckDead, Released, Rest, Hold, Goto, BuildsBacked, Positions,
      ThreadTypes, OtherTypes, SidecarBacked
  <1>7. NoLeak'
    <2> SUFFICES ASSUME NEW e \in Entries, dead'[e], refs'[e] = 0, gone' # e,
                        \A t \in Threads : at'[t] # e
                 PROVE  ~alloc'[e]
      BY DEF NoLeak
    <2> QED
      BY <1>h DEF ReleaseCheckDead, Released, Rest, Hold, Goto, NoLeak, EntryTypes, ThreadTypes,
        OtherTypes, Lifecycle, StoreMu, Free, Forgetter
  <1> QED  BY <1>1, <1>2, <1>3, <1>4, <1>5, <1>6, <1>7

\* The last releaser of a dead entry frees it.
LEMMA StepReleaseFree ==
    ASSUME NEW s \in Threads, EntryInv, ReleaseFree(s)
    PROVE  EntryInv'
PROOF
  <1>h. at[s] \in Entries
    BY DEF ReleaseFree, Positions, ThreadTypes
  <1>1. FlagTypes' /\ MarksBacked' /\ SidecarBacked'
    BY DEF ReleaseFree, FlagTypes, MarksBacked, SidecarBacked
  <1>2. EntryTypes'
    BY <1>h DEF ReleaseFree, Destroy, EntryTypes
  <1>3. ThreadTypes'
    BY <1>h DEF ReleaseFree, Destroy, Released, Rest, Hold, Goto, ThreadTypes, OtherTypes,
      Threads, Pcs
  <1>4. OtherTypes'
    BY <1>h DEF ReleaseFree, Destroy, Released, Rest, Hold, Goto, OtherTypes
  <1>5. Lifecycle'
    <2>1. (map <= used /\ gone <= used)'
      BY <1>h, FinitelyManyUsers, EntryBounds DEF ReleaseFree, Destroy, Released, Rest, Hold,
        Goto, Lifecycle, EntryTypes, OtherTypes, Positions, ThreadTypes, Free, Forgetter,
        Reaper, Threads, Entries, None
    <2>2. (\A e \in Entries : e > used => ~dead[e] /\ ~freed[e] /\ refs[e] = 0)'
      BY <1>h, FinitelyManyUsers, EntryBounds DEF ReleaseFree, Destroy, Released, Rest, Hold,
        Goto, Lifecycle, EntryTypes, OtherTypes, Positions, ThreadTypes, Free, Forgetter,
        Reaper, Threads, Entries, None
    <2>3. (\A e \in Entries : e <= used => (dead[e] <=> e # map))'
      BY <1>h, FinitelyManyUsers, EntryBounds DEF ReleaseFree, Destroy, Released, Rest, Hold,
        Goto, Lifecycle, EntryTypes, OtherTypes, Positions, ThreadTypes, Free, Forgetter,
        Reaper, Threads, Entries, None
    <2>4. (\A e \in Entries : dead[e] => ~mark[e])'
      BY <1>h, FinitelyManyUsers, EntryBounds DEF ReleaseFree, Destroy, Released, Rest, Hold,
        Goto, Lifecycle, EntryTypes, OtherTypes, Positions, ThreadTypes, Free, Forgetter,
        Reaper, Threads, Entries, None
    <2>5. (\A e \in Entries : freed[e] => ~alloc[e])'
      BY <1>h, FinitelyManyUsers, EntryBounds DEF ReleaseFree, Destroy, Released, Rest, Hold,
        Goto, Lifecycle, EntryTypes, OtherTypes, Positions, ThreadTypes, Free, Forgetter,
        Reaper, Threads, Entries, None
    <2>6. (smu = Forgetter <=> gone # None)'
      BY <1>h, FinitelyManyUsers, EntryBounds DEF ReleaseFree, Destroy, Released, Rest, Hold,
        Goto, Lifecycle, EntryTypes, OtherTypes, Positions, ThreadTypes, Free, Forgetter,
        Reaper, Threads, Entries, None
    <2> QED  BY <2>1, <2>2, <2>3, <2>4, <2>5, <2>6 DEF Lifecycle
  <1>6. Positions'
    BY <1>h, EntryBounds DEF ReleaseFree, Destroy, Released, Rest, Hold, Goto, Positions,
      ThreadTypes, OtherTypes, Lifecycle, Entries, None, Pcs
  <1>7. BuildsBacked'
    BY DEF ReleaseFree, Released, Rest, Hold, Goto, BuildsBacked, ThreadTypes
  <1>8. NoLeak'
    <2> SUFFICES ASSUME NEW e \in Entries, dead'[e], refs'[e] = 0, gone' # e,
                        \A t \in Threads : at'[t] # e
                 PROVE  ~alloc'[e]
      BY DEF NoLeak
    <2> QED
      BY <1>h DEF ReleaseFree, Destroy, Released, Rest, Hold, Goto, NoLeak, EntryTypes,
        ThreadTypes, OtherTypes, Lifecycle, StoreMu, Free, Forgetter
  <1> QED  BY <1>1, <1>2, <1>3, <1>4, <1>5, <1>6, <1>7, <1>8

\* The reaper becomes the only holder of the entry in the map.
LEMMA StepReapPin ==
    ASSUME EntryInv, ReapPin
    PROVE  EntryInv'
PROOF
  <1>u. Reaper \in Threads  BY DEF Threads
  <1>1. FlagTypes' /\ OtherTypes' /\ MarksBacked' /\ SidecarBacked'
    BY DEF ReapPin, FlagTypes, OtherTypes, MarksBacked, SidecarBacked
  <1>2. EntryTypes'
    <2>1. map \in Entries /\ refs' = [refs EXCEPT ![map] = @ + 1]
      BY DEF ReapPin, Referenced, OtherTypes
    <2> QED  BY <2>1 DEF ReapPin, EntryTypes
  <1>3. ThreadTypes'
    BY <1>u DEF ReapPin, MayGet, Hold, Goto, Referenced, Unreferenced, ThreadTypes, OtherTypes,
      Threads, Pcs
  <1>4. Lifecycle'
    <2>1. (map <= used /\ gone <= used)'
      BY <1>u, EntryBounds DEF ReapPin, MayGet, Hold, Goto, Referenced, Unreferenced, Lifecycle,
        EntryTypes, OtherTypes, Positions, ThreadTypes, Entries, None
    <2>2. (\A e \in Entries : e > used => ~dead[e] /\ ~freed[e] /\ refs[e] = 0)'
      BY <1>u, EntryBounds DEF ReapPin, MayGet, Hold, Goto, Referenced, Unreferenced, Lifecycle,
        EntryTypes, OtherTypes, Positions, ThreadTypes, Entries, None
    <2>3. (\A e \in Entries : e <= used => (dead[e] <=> e # map))'
      BY <1>u, EntryBounds DEF ReapPin, MayGet, Hold, Goto, Referenced, Unreferenced, Lifecycle,
        EntryTypes, OtherTypes, Positions, ThreadTypes, Entries, None
    <2>4. (\A e \in Entries : dead[e] => ~mark[e])'
      BY <1>u, EntryBounds DEF ReapPin, MayGet, Hold, Goto, Referenced, Unreferenced, Lifecycle,
        EntryTypes, OtherTypes, Positions, ThreadTypes, Entries, None
    <2>5. (\A e \in Entries : freed[e] => ~alloc[e])'
      BY <1>u, EntryBounds DEF ReapPin, MayGet, Hold, Goto, Referenced, Unreferenced, Lifecycle,
        EntryTypes, OtherTypes, Positions, ThreadTypes, Entries, None
    <2>6. (smu = Forgetter <=> gone # None)'
      BY <1>u, EntryBounds DEF ReapPin, MayGet, Hold, Goto, Referenced, Unreferenced, Lifecycle,
        EntryTypes, OtherTypes, Positions, ThreadTypes, Entries, None
    <2> QED  BY <2>1, <2>2, <2>3, <2>4, <2>5, <2>6 DEF Lifecycle
  <1>5. Positions'
    BY <1>u DEF ReapPin, MayGet, Hold, Goto, Referenced, Unreferenced, Positions, ThreadTypes,
      OtherTypes, Lifecycle
  <1>6. BuildsBacked'
    BY <1>u DEF ReapPin, MayGet, Hold, Goto, Referenced, Unreferenced, BuildsBacked, Positions,
      ThreadTypes, OtherTypes, SidecarBacked
  <1>7. NoLeak'
    <2> SUFFICES ASSUME NEW e \in Entries, dead'[e], refs'[e] = 0, gone' # e,
                        \A t \in Threads : at'[t] # e
                 PROVE  ~alloc'[e]
      BY DEF NoLeak
    <2>1. UNCHANGED <<alloc, dead, gone>>
      BY DEF ReapPin
    <2>2. refs[e] = 0
      BY DEF ReapPin, Referenced, EntryTypes, OtherTypes, Lifecycle
    <2>3. \A t \in Threads : at[t] # e
      BY <1>u DEF ReapPin, Hold, Goto, ThreadTypes, Positions, Entries, None
    <2> QED  BY <2>1, <2>2, <2>3 DEF NoLeak
  <1> QED  BY <1>1, <1>2, <1>3, <1>4, <1>5, <1>6, <1>7

\* The scan only moves the reaper.
LEMMA StepReapScan ==
    ASSUME EntryInv, ReapScan
    PROVE  EntryInv'
PROOF
  <1>u. Reaper \in Threads  BY DEF Threads
  <1>1. EntryTypes' /\ FlagTypes' /\ OtherTypes' /\ Lifecycle' /\ MarksBacked' /\ SidecarBacked'
        /\ NoLeak'
    BY DEF ReapScan, EntryTypes, FlagTypes, OtherTypes, Lifecycle, MarksBacked, SidecarBacked,
      NoLeak
  <1>2. ThreadTypes'
    BY <1>u DEF ReapScan, Goto, ThreadTypes, OtherTypes, Threads, Pcs
  <1>3. Positions'
    BY <1>u DEF ReapScan, Goto, Positions, ThreadTypes, OtherTypes, Lifecycle
  <1>4. BuildsBacked'
    BY <1>u DEF ReapScan, Goto, BuildsBacked, Positions, ThreadTypes, OtherTypes, SidecarBacked
  <1> QED  BY <1>1, <1>2, <1>3, <1>4

\* An eviction takes the entry, its artifacts and the epoch together.
LEMMA StepReapEvict ==
    ASSUME EntryInv, ReapEvict
    PROVE  EntryInv'
PROOF
  <1>u. Reaper \in Threads  BY DEF Threads
  <1>h. at[Reaper] \in Entries
    BY <1>u DEF ReapEvict, Positions, ThreadTypes
  <1>1. EntryTypes'
    BY <1>u, <1>h DEF ReapEvict, Evictable, PurgeArtifacts, Goto, EntryTypes
  <1>2. ThreadTypes'
    BY <1>u, <1>h DEF ReapEvict, Evictable, PurgeArtifacts, Goto, ThreadTypes, OtherTypes,
      Threads, Pcs
  <1>3. FlagTypes'
    BY <1>u, <1>h DEF ReapEvict, Evictable, PurgeArtifacts, Goto, FlagTypes
  <1>4. OtherTypes'
    BY <1>u, <1>h DEF ReapEvict, Evictable, PurgeArtifacts, Goto, OtherTypes
  <1>5. Lifecycle'
    <2>1. CASE ~Evictable(at[Reaper])
      BY <2>1 DEF ReapEvict, Lifecycle, StoreMu, Free, Forgetter, Reaper
    <2>2. CASE Evictable(at[Reaper])
      <3>1. map' = None /\ dead' = [dead EXCEPT ![map] = TRUE] /\ map \in Entries /\ ~mark[map]
        BY <1>h, <2>2 DEF ReapEvict, Evictable
      <3>2. UNCHANGED <<used, refs, freed, alloc, mark, gone>>
        BY DEF ReapEvict
      <3>3. (map <= used /\ gone <= used)'
        BY <3>1, <3>2, EntryBounds DEF Lifecycle, EntryTypes, OtherTypes, Entries, None
      <3>4. (\A e \in Entries : e > used => ~dead[e] /\ ~freed[e] /\ refs[e] = 0)'
        BY <3>1, <3>2, EntryBounds DEF Lifecycle, EntryTypes, OtherTypes, Entries, None
      <3>5. (\A e \in Entries : e <= used => (dead[e] <=> e # map))'
        BY <3>1, <3>2, EntryBounds DEF Lifecycle, EntryTypes, OtherTypes, Entries, None
      <3>6. (\A e \in Entries : dead[e] => ~mark[e])'
        BY <3>1, <3>2, EntryBounds DEF Lifecycle, EntryTypes, OtherTypes, Entries, None
      <3>7. (\A e \in Entries : freed[e] => ~alloc[e])'
        BY <3>1, <3>2, EntryBounds DEF Lifecycle, EntryTypes, OtherTypes, Entries, None
      <3>8. (smu = Forgetter <=> gone # None)'
        BY <3>1, <3>2, EntryBounds DEF ReapEvict, Lifecycle, StoreMu, Free, Forgetter, Reaper
      <3> QED  BY <3>3, <3>4, <3>5, <3>6, <3>7, <3>8 DEF Lifecycle
    <2> QED  BY <2>1, <2>2
  <1>6. Positions'
    BY <1>u, <1>h DEF ReapEvict, Evictable, PurgeArtifacts, Goto, Positions, ThreadTypes,
      OtherTypes, Lifecycle
  <1>7. BuildsBacked'
    BY <1>u, <1>h DEF ReapEvict, Evictable, PurgeArtifacts, Goto, BuildsBacked, Positions,
      ThreadTypes, OtherTypes, SidecarBacked
  <1>8. MarksBacked'
    BY <1>u, <1>h DEF ReapEvict, Evictable, PurgeArtifacts, Goto, MarksBacked, EntryTypes,
      OtherTypes, Lifecycle, Positions
  <1>9. SidecarBacked'
    BY <1>u, <1>h DEF ReapEvict, Evictable, PurgeArtifacts, Goto, SidecarBacked
  <1>10. NoLeak'
    <2> SUFFICES ASSUME NEW e \in Entries, dead'[e], refs'[e] = 0, gone' # e,
                        \A t \in Threads : at'[t] # e
                 PROVE  ~alloc'[e]
      BY DEF NoLeak
    <2> QED
      BY <1>u, <1>h DEF ReapEvict, Evictable, PurgeArtifacts, Goto, NoLeak, EntryTypes,
        ThreadTypes, OtherTypes, Lifecycle, StoreMu, Free, Forgetter
  <1> QED  BY <1>1, <1>2, <1>3, <1>4, <1>5, <1>6, <1>7, <1>8, <1>9, <1>10

\* So does a forget, whether or not the path had an entry.
LEMMA StepForget ==
    ASSUME EntryInv, Forget
    PROVE  EntryInv'
PROOF
  <1>1. ThreadTypes'
    BY DEF Forget, ThreadTypes
  <1>2. EntryTypes'
    BY DEF Forget, PurgeArtifacts, MayPurge, EntryTypes
  <1>3. FlagTypes'
    BY DEF Forget, PurgeArtifacts, MayPurge, FlagTypes
  <1>4. OtherTypes'
    BY DEF Forget, PurgeArtifacts, MayPurge, OtherTypes
  <1>5. Lifecycle'
    <2>1. (map <= used /\ gone <= used)'
      BY EntryBounds DEF Forget, PurgeArtifacts, MayPurge, Lifecycle, EntryTypes, OtherTypes,
        Positions, ThreadTypes, Free, Forgetter, Reaper, StoreMu, Entries, None
    <2>2. (\A e \in Entries : e > used => ~dead[e] /\ ~freed[e] /\ refs[e] = 0)'
      BY EntryBounds DEF Forget, PurgeArtifacts, MayPurge, Lifecycle, EntryTypes, OtherTypes,
        Positions, ThreadTypes, Free, Forgetter, Reaper, StoreMu, Entries, None
    <2>3. (\A e \in Entries : e <= used => (dead[e] <=> e # map))'
      BY EntryBounds DEF Forget, PurgeArtifacts, MayPurge, Lifecycle, EntryTypes, OtherTypes,
        Positions, ThreadTypes, Free, Forgetter, Reaper, StoreMu, Entries, None
    <2>4. (\A e \in Entries : dead[e] => ~mark[e])'
      BY EntryBounds DEF Forget, PurgeArtifacts, MayPurge, Lifecycle, EntryTypes, OtherTypes,
        Positions, ThreadTypes, Free, Forgetter, Reaper, StoreMu, Entries, None
    <2>5. (\A e \in Entries : freed[e] => ~alloc[e])'
      BY EntryBounds DEF Forget, PurgeArtifacts, MayPurge, Lifecycle, EntryTypes, OtherTypes,
        Positions, ThreadTypes, Free, Forgetter, Reaper, StoreMu, Entries, None
    <2>6. (smu = Forgetter <=> gone # None)'
      BY EntryBounds DEF Forget, PurgeArtifacts, MayPurge, Lifecycle, EntryTypes, OtherTypes,
        Positions, ThreadTypes, Free, Forgetter, Reaper, StoreMu, Entries, None
    <2> QED  BY <2>1, <2>2, <2>3, <2>4, <2>5, <2>6 DEF Lifecycle
  <1>6. Positions'
    BY DEF Forget, PurgeArtifacts, MayPurge, Positions, ThreadTypes, OtherTypes, Lifecycle
  <1>7. BuildsBacked'
    BY DEF Forget, PurgeArtifacts, MayPurge, BuildsBacked, Positions, ThreadTypes, OtherTypes,
      SidecarBacked
  <1>8. MarksBacked'
    BY DEF Forget, PurgeArtifacts, MayPurge, MarksBacked, EntryTypes, OtherTypes, Lifecycle,
      Positions
  <1>9. SidecarBacked'
    BY DEF Forget, PurgeArtifacts, MayPurge, SidecarBacked
  <1>10. NoLeak'
    <2> SUFFICES ASSUME NEW e \in Entries, dead'[e], refs'[e] = 0, gone' # e,
                        \A t \in Threads : at'[t] # e
                 PROVE  ~alloc'[e]
      BY DEF NoLeak
    <2>1. map # e /\ dead[e]
      BY DEF Forget, EntryTypes, OtherTypes, Lifecycle, StoreMu, Free, Forgetter
    <2>2. gone # e
      BY DEF Forget, Lifecycle, StoreMu, Free, Forgetter, Entries, None
    <2> QED  BY <2>1, <2>2 DEF Forget, NoLeak
  <1> QED  BY <1>1, <1>2, <1>3, <1>4, <1>5, <1>6, <1>7, <1>8, <1>9, <1>10

\* Forget frees the entry it removed, unless a holder will.
LEMMA StepForgetFree ==
    ASSUME EntryInv, ForgetFree
    PROVE  EntryInv'
PROOF
  <1>1. ThreadTypes' /\ FlagTypes' /\ Positions' /\ BuildsBacked' /\ MarksBacked' /\
        SidecarBacked'
    BY DEF ForgetFree, ThreadTypes, FlagTypes, Positions, BuildsBacked, MarksBacked,
      SidecarBacked
  <1>2. EntryTypes'
    BY DEF ForgetFree, Destroy, Unreferenced, EntryTypes
  <1>3. OtherTypes'
    BY DEF ForgetFree, Destroy, Unreferenced, OtherTypes
  <1>4. Lifecycle'
    <2>1. (map <= used /\ gone <= used)'
      BY EntryBounds DEF ForgetFree, Destroy, Unreferenced, Lifecycle, EntryTypes, OtherTypes,
        Positions, ThreadTypes, Free, Forgetter, Reaper, StoreMu, Entries, None
    <2>2. (\A e \in Entries : e > used => ~dead[e] /\ ~freed[e] /\ refs[e] = 0)'
      BY EntryBounds DEF ForgetFree, Destroy, Unreferenced, Lifecycle, EntryTypes, OtherTypes,
        Positions, ThreadTypes, Free, Forgetter, Reaper, StoreMu, Entries, None
    <2>3. (\A e \in Entries : e <= used => (dead[e] <=> e # map))'
      BY EntryBounds DEF ForgetFree, Destroy, Unreferenced, Lifecycle, EntryTypes, OtherTypes,
        Positions, ThreadTypes, Free, Forgetter, Reaper, StoreMu, Entries, None
    <2>4. (\A e \in Entries : dead[e] => ~mark[e])'
      BY EntryBounds DEF ForgetFree, Destroy, Unreferenced, Lifecycle, EntryTypes, OtherTypes,
        Positions, ThreadTypes, Free, Forgetter, Reaper, StoreMu, Entries, None
    <2>5. (\A e \in Entries : freed[e] => ~alloc[e])'
      BY EntryBounds DEF ForgetFree, Destroy, Unreferenced, Lifecycle, EntryTypes, OtherTypes,
        Positions, ThreadTypes, Free, Forgetter, Reaper, StoreMu, Entries, None
    <2>6. (smu = Forgetter <=> gone # None)'
      BY EntryBounds DEF ForgetFree, Destroy, Unreferenced, Lifecycle, EntryTypes, OtherTypes,
        Positions, ThreadTypes, Free, Forgetter, Reaper, StoreMu, Entries, None
    <2> QED  BY <2>1, <2>2, <2>3, <2>4, <2>5, <2>6 DEF Lifecycle
  <1>5. NoLeak'
    <2> SUFFICES ASSUME NEW e \in Entries, dead'[e], refs'[e] = 0, gone' # e,
                        \A t \in Threads : at'[t] # e
                 PROVE  ~alloc'[e]
      BY DEF NoLeak
    <2> QED
      BY DEF ForgetFree, Destroy, Unreferenced, NoLeak, EntryTypes, ThreadTypes, OtherTypes,
        Lifecycle, StoreMu, Free, Forgetter
  <1> QED  BY <1>1, <1>2, <1>3, <1>4, <1>5

\* A create makes every claim void until its distrust.
LEMMA StepCreateOrigin ==
    ASSUME EntryInv, CreateOrigin
    PROVE  EntryInv'
PROOF
  <1>1. EntryTypes' /\ ThreadTypes' /\ FlagTypes' /\ Lifecycle' /\ Positions' /\ NoLeak'
    BY DEF CreateOrigin, EntryTypes, ThreadTypes, FlagTypes, Lifecycle, Positions, NoLeak
  <1>2. OtherTypes'
    BY DEF CreateOrigin, MayPurge, OtherTypes
  <1>3. BuildsBacked'
    BY DEF CreateOrigin, MayPurge, BuildsBacked, Positions, ThreadTypes, OtherTypes,
      SidecarBacked
  <1>4. MarksBacked'
    BY DEF CreateOrigin, MayPurge, MarksBacked, EntryTypes, OtherTypes, Lifecycle, Positions
  <1>5. SidecarBacked'
    BY DEF CreateOrigin, MayPurge, SidecarBacked
  <1> QED  BY <1>1, <1>2, <1>3, <1>4, <1>5

\* Distrust clears both claims and moves the epoch before the create is over.
LEMMA StepDistrust ==
    ASSUME EntryInv, Distrust
    PROVE  EntryInv'
PROOF
  <1>1. ThreadTypes' /\ NoLeak'
    BY DEF Distrust, ThreadTypes, NoLeak
  <1>2. EntryTypes'
    BY DEF Distrust, EntryTypes
  <1>3. FlagTypes'
    BY DEF Distrust, FlagTypes
  <1>4. OtherTypes'
    BY DEF Distrust, OtherTypes
  <1>5. Lifecycle'
    BY DEF Distrust, Lifecycle, EntryTypes, OtherTypes
  <1>6. Positions'
    BY DEF Distrust, Positions, ThreadTypes, OtherTypes, Lifecycle
  <1>7. BuildsBacked'
    BY DEF Distrust, BuildsBacked, Positions, ThreadTypes, OtherTypes, SidecarBacked
  <1>8. MarksBacked'
    BY DEF Distrust, MarksBacked, EntryTypes, OtherTypes, Lifecycle, Positions
  <1>9. SidecarBacked'
    BY DEF Distrust, SidecarBacked
  <1> QED  BY <1>1, <1>2, <1>3, <1>4, <1>5, <1>6, <1>7, <1>8, <1>9

\* Opening the data file changes nothing that is claimed.
LEMMA StepDiskOpen ==
    ASSUME EntryInv, DiskOpen
    PROVE  EntryInv'
PROOF
  <1>1. EntryTypes' /\ ThreadTypes' /\ FlagTypes' /\ Lifecycle' /\ Positions' /\ BuildsBacked' /\
        MarksBacked' /\ SidecarBacked' /\ NoLeak'
    BY DEF DiskOpen, EntryTypes, ThreadTypes, FlagTypes, Lifecycle, Positions, BuildsBacked,
      MarksBacked, SidecarBacked, NoLeak
  <1>2. OtherTypes'
    BY DEF DiskOpen, MayPurge, OtherTypes
  <1> QED  BY <1>1, <1>2

\* Nor does sampling the epoch.
LEMMA StepDiskSample ==
    ASSUME EntryInv, DiskSample
    PROVE  EntryInv'
PROOF
  <1>1. EntryTypes' /\ ThreadTypes' /\ FlagTypes' /\ Lifecycle' /\ Positions' /\ BuildsBacked' /\
        MarksBacked' /\ SidecarBacked' /\ NoLeak'
    BY DEF DiskSample, EntryTypes, ThreadTypes, FlagTypes, Lifecycle, Positions, BuildsBacked,
      MarksBacked, SidecarBacked, NoLeak
  <1>2. OtherTypes'
    BY DEF DiskSample, OtherTypes
  <1> QED  BY <1>1, <1>2

\* A disk punch finds no entry and moves the epoch, so no build outlives it.
LEMMA StepDiskPunch ==
    ASSUME EntryInv, DiskPunch
    PROVE  EntryInv'
PROOF
  <1>1. EntryTypes' /\ ThreadTypes' /\ Lifecycle' /\ NoLeak'
    BY DEF DiskPunch, EntryTypes, ThreadTypes, Lifecycle, NoLeak
  <1>2. FlagTypes'
    BY DEF DiskPunch, FlagTypes
  <1>3. OtherTypes'
    <2>1. bytes' \in {"Good", "Stale", "Hole"} /\ epoch' \in Nat
      BY DEF DiskPunch, OtherTypes
    <2> QED  BY <2>1 DEF DiskPunch, OtherTypes
  <1>4. Positions'
    <2>1. epoch' \in Nat /\ epoch <= epoch'
      BY DEF DiskPunch, OtherTypes
    <2> QED  BY <2>1 DEF DiskPunch, Positions, ThreadTypes, OtherTypes
  <1>5. BuildsBacked'
    <2>1. CASE epoch' = epoch /\ bytes' = bytes
      BY <2>1 DEF DiskPunch, BuildsBacked, Positions, ThreadTypes, OtherTypes
    <2>2. CASE epoch' = epoch + 1
      BY <2>2 DEF DiskPunch, BuildsBacked, Positions, ThreadTypes, OtherTypes
    <2> QED  BY <2>1, <2>2 DEF DiskPunch
  <1>6. MarksBacked'
    BY DEF DiskPunch, MarksBacked, EntryTypes, OtherTypes, Lifecycle, Positions
  <1>7. SidecarBacked'
    BY DEF DiskPunch, SidecarBacked
  <1> QED  BY <1>1, <1>2, <1>3, <1>4, <1>5, <1>6, <1>7

\* A pin changes nothing that is claimed.
LEMMA StepSetPin ==
    ASSUME EntryInv, SetPin
    PROVE  EntryInv'
PROOF
  <1>1. EntryTypes' /\ ThreadTypes' /\ Lifecycle' /\ Positions' /\ BuildsBacked' /\ MarksBacked'
        /\ SidecarBacked' /\ NoLeak'
    BY DEF SetPin, EntryTypes, ThreadTypes, Lifecycle, Positions, BuildsBacked, MarksBacked,
      SidecarBacked, NoLeak
  <1>2. FlagTypes'
    BY DEF SetPin, MayPurge, FlagTypes
  <1>3. OtherTypes'
    BY DEF SetPin, MayPurge, OtherTypes
  <1> QED  BY <1>1, <1>2, <1>3

-----------------------------------------------------------------------------
(* The invariant and what follows from it *)

\* A daemon that starts over what an earlier run left satisfies it.
LEMMA InitInv == Init => EntryInv
PROOF
  <1> SUFFICES ASSUME Init  PROVE EntryInv
    OBVIOUS
  <1>1. EntryTypes /\ ThreadTypes
    BY DEF Init, EntryTypes, ThreadTypes, None, Pcs
  <1>2. FlagTypes
    BY DEF Init, FlagTypes
  <1>3. OtherTypes
    BY EntryBounds DEF Init, OtherTypes, None, Free
  <1>4. Lifecycle /\ Positions
    BY EntryBounds DEF Init, Lifecycle, Positions, Entries, None, Free, Forgetter
  <1>5. BuildsBacked /\ MarksBacked /\ SidecarBacked /\ NoLeak
    BY DEF Init, BuildsBacked, MarksBacked, SidecarBacked, NoLeak
  <1> QED  BY <1>1, <1>2, <1>3, <1>4, <1>5

\* Every step keeps it, one lemma per action.
LEMMA StepInv == EntryInv /\ [Next]_vars => EntryInv'
PROOF
  <1> SUFFICES ASSUME EntryInv, [Next]_vars  PROVE EntryInv'
    OBVIOUS
  <1>1. ASSUME NEW u \in Users, Lookup(u) \/ UserStep(u) \/ Fill(u) \/ PunchLive(u)
        PROVE  EntryInv'
    BY <1>1, StepLookup, StepLoadBits, StepInsert, StepFill, StepPunchLive, StepReleaseRef,
       StepReleaseCheckDead, StepReleaseFree DEF UserStep, Release, Threads
  <1>2. CASE ReapPin \/ ReaperStep
    BY <1>2, StepReapPin, StepReapScan, StepReapEvict, StepReleaseRef, StepReleaseCheckDead,
       StepReleaseFree DEF ReaperStep, Release, Threads
  <1>3. CASE Forget \/ ForgetFree \/ CreateOrigin \/ Distrust
    BY <1>3, StepForget, StepForgetFree, StepCreateOrigin, StepDistrust
  <1>4. CASE DiskOpen \/ DiskSample \/ DiskPunch \/ SetPin
    BY <1>4, StepDiskOpen, StepDiskSample, StepDiskPunch, StepSetPin
  <1>5. CASE UNCHANGED vars
    BY <1>5 DEF vars, EntryTypes, ThreadTypes, FlagTypes, OtherTypes, Lifecycle, Positions,
       BuildsBacked, MarksBacked, SidecarBacked, NoLeak
  <1> QED  BY <1>1, <1>2, <1>3, <1>4, <1>5 DEF Next

\* EntryInv holds in every state of every run of the entry table.
THEOREM EntryInvariant == Spec => []EntryInv
  BY InitInv, StepInv, PTL DEF Spec

\* An entry that get() publishes never claims bytes a purge, a distrust or a
\* disk punch has taken away, however its build interleaves with them.
THEOREM PublishedMarksBacked == Spec => []MarksBacked
PROOF
  <1>1. EntryInv => MarksBacked  OBVIOUS
  <1> QED  BY <1>1, EntryInvariant, PTL

\* The sidecar on disk never claims bytes that are not there for the next
\* build to believe: no fill of a dead entry brings it back (finishPiece).
THEOREM PersistedMarksBacked == Spec => []SidecarBacked
PROOF
  <1>1. EntryInv => SidecarBacked  OBVIOUS
  <1> QED  BY <1>1, EntryInvariant, PTL

\* Whichever of forget, the reaper and the last releaseFile comes last, a
\* removed entry without references is freed.
THEOREM EntriesAreFreed == Spec => []NoLeak
PROOF
  <1>1. EntryInv => NoLeak  OBVIOUS
  <1> QED  BY <1>1, EntryInvariant, PTL

-----------------------------------------------------------------------------
(* Reference counts: counting the holders *)

HoldersOf(e) == {t \in Threads : Holding(t) /\ at[t] = e}

\* There are finitely many threads, so the holders can be counted.
LEMMA ThreadsFinite == IsFiniteSet(Threads)
  BY FinitelyManyUsers, FS_AddElement DEF Threads

\* The holders of an entry, before and after a step, are a finite set.
LEMMA HoldersFinite == \A e : IsFiniteSet(HoldersOf(e)) /\ IsFiniteSet(HoldersOf(e)')
PROOF
  <1>1. \A e : HoldersOf(e) \in SUBSET Threads /\ HoldersOf(e)' \in SUBSET Threads
    BY DEF HoldersOf
  <1> QED  BY <1>1, ThreadsFinite, FS_Subset

\* A step that moves no thread in or out of a hold and leaves refs alone.
LEMMA SameHolders ==
    ASSUME RefsExact, UNCHANGED refs,
           \A t \in Threads : (Holding(t)' <=> Holding(t)) /\ (Holding(t) => at'[t] = at[t])
    PROVE  RefsExact'
PROOF
  <1>1. \A e \in Entries : HoldersOf(e)' = HoldersOf(e)
    BY DEF HoldersOf
  <1> QED  BY <1>1 DEF RefsExact, HoldersOf

\* A thread that takes hold of an entry and counts itself.
LEMMA TakesHold ==
    ASSUME RefsExact, refs \in [Entries -> Int], NEW t \in Threads, NEW x \in Entries,
           ~Holding(t), Holding(t)', at'[t] = x,
           refs' = [refs EXCEPT ![x] = @ + 1],
           \A s \in Threads \ {t} : (Holding(s)' <=> Holding(s)) /\ at'[s] = at[s]
    PROVE  RefsExact'
PROOF
  <1>1. HoldersOf(x)' = HoldersOf(x) \cup {t} /\ t \notin HoldersOf(x)
    BY DEF HoldersOf
  <1>2. Cardinality(HoldersOf(x)') = Cardinality(HoldersOf(x)) + 1
    BY <1>1, HoldersFinite, FS_AddElement
  <1>3. \A e \in Entries : e # x => HoldersOf(e)' = HoldersOf(e)
    BY DEF HoldersOf
  <1>4. \A e \in Entries : refs'[e] = IF e = x THEN refs[e] + 1 ELSE refs[e]
    OBVIOUS
  <1>5. \A e \in Entries : refs[e] = Cardinality(HoldersOf(e))
    BY DEF RefsExact, HoldersOf
  <1>6. \A e \in Entries : refs'[e] = Cardinality(HoldersOf(e)')
    BY <1>2, <1>3, <1>4, <1>5
  <1> QED  BY <1>6 DEF RefsExact, HoldersOf

\* A thread that lets go of its entry and drops its count.
LEMMA LetsGo ==
    ASSUME RefsExact, refs \in [Entries -> Int], NEW t \in Threads, NEW x \in Entries,
           at[t] = x, Holding(t), ~Holding(t)',
           refs' = [refs EXCEPT ![x] = @ - 1],
           \A s \in Threads \ {t} : (Holding(s)' <=> Holding(s)) /\ at'[s] = at[s]
    PROVE  RefsExact'
PROOF
  <1>1. HoldersOf(x)' = HoldersOf(x) \ {t} /\ t \in HoldersOf(x)
    BY DEF HoldersOf
  <1>2. Cardinality(HoldersOf(x)') = Cardinality(HoldersOf(x)) - 1
    BY <1>1, HoldersFinite, FS_RemoveElement
  <1>3. \A e \in Entries : e # x => HoldersOf(e)' = HoldersOf(e)
    BY DEF HoldersOf
  <1>4. \A e \in Entries : refs'[e] = IF e = x THEN refs[e] - 1 ELSE refs[e]
    OBVIOUS
  <1>5. \A e \in Entries : refs[e] = Cardinality(HoldersOf(e))
    BY DEF RefsExact, HoldersOf
  <1>6. \A e \in Entries : refs'[e] = Cardinality(HoldersOf(e)')
    BY <1>2, <1>3, <1>4, <1>5
  <1> QED  BY <1>6 DEF RefsExact, HoldersOf

\* The count is exact: every path through get(), the reaper's phases and the
\* releases adds and drops exactly the reference it holds.
LEMMA StepRefs == EntryInv /\ RefsExact /\ [Next]_vars => RefsExact'
PROOF
  <1> SUFFICES ASSUME EntryInv, RefsExact, [Next]_vars  PROVE RefsExact'
    OBVIOUS
  <1>0. refs \in [Entries -> Int] /\ Reaper \in Threads /\ \A u \in Users : u \in Threads
    BY DEF EntryTypes, Threads
  <1>1. ASSUME NEW u \in Users, Lookup(u)
        PROVE  RefsExact'
    <2>1. CASE map # None
      <3>1. map \in Entries /\ refs' = [refs EXCEPT ![map] = @ + 1]
        BY <1>1, <2>1 DEF Lookup, Referenced, OtherTypes
      <3>2. ~Holding(u) /\ Holding(u)' /\ at'[u] = map
        BY <1>0, <1>1, <2>1 DEF Lookup, Hold, Goto, Holding, ThreadTypes
      <3>3. \A s \in Threads \ {u} : (Holding(s)' <=> Holding(s)) /\ at'[s] = at[s]
        BY <1>1, <2>1 DEF Lookup, Hold, Goto, Holding, ThreadTypes
      <3> QED  BY <1>0, <3>1, <3>2, <3>3, TakesHold
    <2>2. CASE map = None
      <3>1. \A t \in Threads : (Holding(t)' <=> Holding(t)) /\ at'[t] = at[t]
        BY <1>1, <2>2 DEF Lookup, Goto, Holding, ThreadTypes
      <3> QED  BY <1>1, <2>2, <3>1, SameHolders DEF Lookup
    <2> QED  BY <2>1, <2>2
  <1>2. ASSUME NEW u \in Users, LoadBits(u)
        PROVE  RefsExact'
    <2>1. \A t \in Threads : (Holding(t)' <=> Holding(t)) /\ at'[t] = at[t]
      BY <1>2 DEF LoadBits, Goto, Holding, ThreadTypes
    <2> QED  BY <1>2, <2>1, SameHolders DEF LoadBits
  <1>3. ASSUME NEW u \in Users, Insert(u)
        PROVE  RefsExact'
    <2>1. CASE map = None /\ ~BuildCurrent(u)
      <3>1. \A t \in Threads : (Holding(t)' <=> Holding(t)) /\ at'[t] = at[t]
        BY <1>3, <2>1 DEF Insert, Goto, Holding, ThreadTypes
      <3> QED  BY <1>3, <2>1, <3>1, SameHolders DEF Insert
    <2>2. CASE map # None \/ BuildCurrent(u)
      <3>1. PICK x \in Entries : refs' = [refs EXCEPT ![x] = @ + 1] /\ Hold(u, x, "hold")
        BY <1>3, <2>2, EntryBounds DEF Insert, Referenced, OtherTypes, Entries
      <3>2. ~Holding(u) /\ Holding(u)' /\ at'[u] = x
        BY <1>0, <1>3, <3>1 DEF Insert, Hold, Goto, Holding, ThreadTypes
      <3>3. \A s \in Threads \ {u} : (Holding(s)' <=> Holding(s)) /\ at'[s] = at[s]
        BY <3>1 DEF Hold, Goto, Holding, ThreadTypes
      <3> QED  BY <1>0, <3>1, <3>2, <3>3, TakesHold
    <2> QED  BY <2>1, <2>2
  <1>4. ASSUME NEW s \in Threads, ReleaseRef(s)
        PROVE  RefsExact'
    <2>1. at[s] \in Entries /\ refs' = [refs EXCEPT ![at[s]] = @ - 1] /\ Holding(s)
      BY <1>4 DEF ReleaseRef, Dropped, Holding, Positions, ThreadTypes
    <2>2. ~Holding(s)'
      BY <1>4 DEF ReleaseRef, Released, Rest, Hold, Goto, Holding, ThreadTypes
    <2>3. \A t \in Threads \ {s} : (Holding(t)' <=> Holding(t)) /\ at'[t] = at[t]
      BY <1>4 DEF ReleaseRef, Released, Rest, Hold, Goto, Holding, ThreadTypes
    <2> QED  BY <1>0, <2>1, <2>2, <2>3, LetsGo
  <1>5. ASSUME NEW s \in Threads, ReleaseCheckDead(s) \/ ReleaseFree(s)
        PROVE  RefsExact'
    <2>1. \A t \in Threads : (Holding(t)' <=> Holding(t)) /\ (Holding(t) => at'[t] = at[t])
      BY <1>5 DEF ReleaseCheckDead, ReleaseFree, Released, Rest, Hold, Goto, Holding, ThreadTypes
    <2> QED  BY <1>5, <2>1, SameHolders DEF ReleaseCheckDead, ReleaseFree
  <1>6. CASE ReapPin
    <2>1. map \in Entries /\ refs' = [refs EXCEPT ![map] = @ + 1]
      BY <1>6 DEF ReapPin, Referenced, OtherTypes
    <2>2. ~Holding(Reaper) /\ Holding(Reaper)' /\ at'[Reaper] = map
      BY <1>0, <1>6 DEF ReapPin, Hold, Goto, Holding, ThreadTypes
    <2>3. \A s \in Threads \ {Reaper} : (Holding(s)' <=> Holding(s)) /\ at'[s] = at[s]
      BY <1>6 DEF ReapPin, Hold, Goto, Holding, ThreadTypes
    <2> QED  BY <1>0, <2>1, <2>2, <2>3, TakesHold
  <1>7. CASE ReapScan \/ ReapEvict
    <2>1. \A t \in Threads : (Holding(t)' <=> Holding(t)) /\ at'[t] = at[t]
      BY <1>0, <1>7 DEF ReapScan, ReapEvict, Goto, Holding, ThreadTypes
    <2> QED  BY <1>7, <2>1, SameHolders DEF ReapScan, ReapEvict
  <1>8. ASSUME UNCHANGED <<pc, at, refs>>
        PROVE  RefsExact'
    BY <1>8, SameHolders DEF Holding
  <1>9. ASSUME NEW u \in Users, Fill(u) \/ PunchLive(u)
        PROVE  RefsExact'
    BY <1>8, <1>9 DEF Fill, PunchLive
  <1>10. CASE Forget \/ ForgetFree \/ CreateOrigin \/ Distrust \/ UNCHANGED vars
    BY <1>8, <1>10 DEF Forget, ForgetFree, CreateOrigin, Distrust, vars
  <1>11. CASE DiskOpen \/ DiskSample \/ DiskPunch \/ SetPin
    BY <1>8, <1>11 DEF DiskOpen, DiskSample, DiskPunch, SetPin
  <1> QED
    BY <1>0, <1>1, <1>2, <1>3, <1>4, <1>5, <1>6, <1>7, <1>9, <1>10, <1>11
    DEF Next, UserStep, ReaperStep, Release

\* Every reference count is the number of threads that hold the entry.
THEOREM ReferencesCounted == Spec => []RefsExact
PROOF
  <1>1. Init => RefsExact
    <2> SUFFICES ASSUME Init, NEW e \in Entries  PROVE refs[e] = Cardinality(HoldersOf(e))
      BY DEF RefsExact, HoldersOf
    <2>1. HoldersOf(e) = {}
      BY DEF Init, HoldersOf, Holding
    <2> QED  BY <2>1, FS_EmptySet DEF Init
  <1> QED  BY <1>1, StepRefs, EntryInvariant, PTL DEF Spec

\* Every variable keeps its type; in particular no reference count wraps
\* below zero, because it counts holders.
THEOREM EntryTypeCorrect == Spec => []EntryTypeOK
PROOF
  <1>1. EntryInv /\ RefsExact => EntryTypeOK
    <2> SUFFICES ASSUME EntryInv, RefsExact  PROVE EntryTypeOK
      OBVIOUS
    <2>1. \A e \in Entries : refs[e] \in Nat
      BY HoldersFinite, FS_CardinalityType DEF RefsExact, HoldersOf
    <2>2. refs \in [Entries -> Nat]
      BY <2>1 DEF EntryTypes
    <2> QED  BY <2>2 DEF EntryTypeOK, EntryTypes, ThreadTypes, FlagTypes, OtherTypes, Pcs
  <1> QED  BY <1>1, EntryInvariant, ReferencesCounted, PTL
=============================================================================
