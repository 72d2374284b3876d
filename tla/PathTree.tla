------------------------------ MODULE PathTree ------------------------------
(***************************************************************************)
(* The path layer of libfuse (lib/fuse.c): the tree of nodes that turns    *)
(* the kernel's inode numbers into paths, the tree locks that keep a path  *)
(* true while the filesystem works on it, and the fuse_lib_* handlers.     *)
(* The file is compiled into the -Dfuse-static build.                      *)
(*                                                                         *)
(* A thread runs one request.  One step is one section under f->lock or    *)
(* one call into the user filesystem, so steps of different requests       *)
(* interleave exactly where the code lets go of the mutex.                 *)
(*                                                                         *)
(* Abstractions: the user filesystem is a tree of objects and a call on    *)
(* it is atomic; the kernel is what the VFS may send (its inode locks, its *)
(* lookup counts, its handles); attributes, file contents, the node        *)
(* caches (remember, auto_cache), "." and ".." lookups, generation         *)
(* numbers, request interruption by a signal and failing allocations are   *)
(* left out.  A path is the sequence of its names.                         *)
(***************************************************************************)
EXTENDS Integers, Sequences, FiniteSets, SequencesExt

CONSTANTS
  Threads,       \* worker threads
  Names,         \* the names the kernel uses
  Hidden,        \* the sequence of .fuse_hidden names, by hidectr
  Ids,           \* 1 .. n: the inode numbers, 1 is FUSE_ROOT_ID
  Loads,         \* records: the requests a session gets, and how many of their
                 \* answers find the request gone (ENOENT)
  FailCtr,       \* failctr of hidden_name
  NullPathOk,    \* conf.nullpath_ok
  HardRemove     \* conf.hard_remove

VARIABLES
  nodes,     \* the two tables: inode number -> node, for the nodes that exist
  ctr,       \* f->ctr
  hidectr,   \* f->hidectr
  lockq,     \* f->lockq: the waiting threads, oldest first
  th,        \* what each thread is doing
  ents,      \* the user filesystem: <<directory object, name>> -> object
  dirs,      \* its objects that are directories
  made,      \* how many objects it ever had
  kl,        \* kernel: lookups it holds on each inode number
  kh,        \* kernel: open handles on each inode number
  todo,      \* requests the kernel still sends
  losses     \* answers that may still find their request gone

vars == <<nodes, ctr, hidectr, lockq, th, ents, dirs, made, kl, kh, todo, losses>>
tree == <<nodes, ctr, hidectr, lockq>>
fsys == <<ents, dirs, made>>
kern == <<kl, kh, todo, losses>>

Root == 1
TreelockWrite == -1
WaitOffset == -100       \* TREELOCK_WAIT_OFFSET, INT_MIN in the code

(* The handlers that share one shape: take the path of an inode, make one  *)
(* kind of call that leaves the names alone, give the path back, reply.    *)
AttrOps  == {"getattr", "setattr"}
InodeOps == {"access", "readlink"}
StatfsOps == {"statfs"}
XattrOps == {"setxattr", "getxattr", "listxattr", "removexattr"}
BmapOps  == {"bmap"}
ReadOps  == {"read"}
WriteOps == {"write", "fsync"}
FlushOps == {"flush"}
LockOps  == {"lock", "flock"}
FileOps  == {"ioctl", "poll", "fallocate"}
SeekOps  == {"lseek"}
DirOps   == {"opendir"}
DirHandleOps == {"readdir", "fsyncdir", "releasedir"}
OnFile   == ReadOps \union WriteOps \union FlushOps \union LockOps \union FileOps
Plain    == AttrOps \union InodeOps \union StatfsOps \union XattrOps \union BmapOps
              \union OnFile \union SeekOps \union DirOps \union DirHandleOps

(* The ones that go through get_path_nullok, and so run without a path on  *)
(* a node that has lost its name.                                          *)
NullOk == OnFile \union DirHandleOps \union {"release", "readdirplus", "copy"}

Makes   == {"mknod", "mkdir", "symlink"}
Named   == Makes \union {"lookup", "create"}
Removes == {"unlink", "rmdir"}
Ops == Plain \union NullOk \union Named \union Removes
         \union {"open", "link", "rename", "exchange", "forget"}

ASSUME PathTreeAssumption ==
  /\ Threads # {} /\ 1 \in Ids /\ Ids \subseteq Nat \ {0}
  /\ \A l \in Loads : l.ops \subseteq Ops /\ l.losses \in Nat
  /\ FailCtr \in Nat \ {0}
  /\ NullPathOk \in BOOLEAN /\ HardRemove \in BOOLEAN

(* On these the reply goes out before the path is given back.              *)
AnswersFirst == {"open", "create", "opendir", "copy"}

(* A request at rest.  has/has2: the first/second path is held; w, w2: the *)
(* write-locked nodes (0: none); e: the inode number of the entry or the   *)
(* handle; k: a count; queued/done: it waits in lockq, it was served there;*)
(* live: the kernel still waits for the answer.                            *)
Idle == [op |-> "none", ino |-> 0, name |-> "", ino2 |-> 0, name2 |-> "",
         pc |-> "idle", has |-> FALSE, has2 |-> FALSE, path |-> <<>>, path2 |-> <<>>,
         w |-> 0, w2 |-> 0, src |-> 0, err |-> "", obj |-> 0, e |-> 0, k |-> 0, hname |-> "",
         queued |-> FALSE, done |-> FALSE, live |-> FALSE]

-----------------------------------------------------------------------------
(* Nodes.                                                                  *)

IsNamed(ns, n) == n # Root /\ ns[n].parent # 0

(* lookup_node: the node a name has in a directory, 0 if none.             *)
LookupNode(ns, dir, name) ==
  LET s == {n \in DOMAIN ns : ns[n].parent = dir /\ ns[n].name = name}
  IN IF s = {} THEN 0 ELSE CHOOSE n \in s : TRUE

(* The nodes on the walk from a node to the root, the root left out.       *)
Up(ns, id) ==
  LET up[n \in Ids \union {0}] ==
        IF n \in {0, Root} THEN {} ELSE {n} \union up[ns[n].parent]
  IN up[id]

PathOf(ns, id) ==
  LET up[n \in Ids \union {0}] ==
        IF n \in {0, Root} THEN <<>> ELSE Append(up[ns[n].parent], ns[n].name)
  IN up[id]

(* unref_node and the delete_node it may end in, which takes the name out  *)
(* of the table and so drops a reference on the parent in turn: the nodes  *)
(* that go, and the first one above them that stays.                       *)
UnrefNode(ns, id) ==
  LET gone[n \in Ids \union {0}] ==
        IF n = 0 \/ ns[n].ref > 1 THEN {} ELSE {n} \union gone[ns[n].parent]
      last == {n \in gone[id] : ns[n].parent \notin gone[id]}
      kept == IF gone[id] = {} THEN {id} ELSE {ns[n].parent : n \in last}
  IN [n \in DOMAIN ns \ gone[id] |->
        IF n \in kept THEN [ns[n] EXCEPT !.ref = @ - 1] ELSE ns[n]]

UnhashName(ns, n) ==
  IF ~IsNamed(ns, n) THEN ns
  ELSE UnrefNode([ns EXCEPT ![n].parent = 0, ![n].name = ""], ns[n].parent)

(* Mutant: the directory is not held by its new entry.                     *)
HashNameUncounted(ns, n, dir, name) ==
  [ns EXCEPT ![n].parent = dir, ![n].name = name]
HashName(ns, n, dir, name) ==
  [ns EXCEPT ![dir].ref = @ + 1, ![n].parent = dir, ![n].name = name]

IncNlookup(ns, n) ==
  [ns EXCEPT ![n].ref = IF ns[n].nlookup = 0 THEN @ + 1 ELSE @, ![n].nlookup = @ + 1]

RemoveNode(ns, dir, name) ==
  LET n == LookupNode(ns, dir, name) IN IF n = 0 THEN ns ELSE UnhashName(ns, n)

RenameNode(ns, dir, name, dir2, name2, hide) ==
  LET n == LookupNode(ns, dir, name)
      o == LookupNode(ns, dir2, name2)
      freed == IF o = 0 THEN ns ELSE UnhashName(ns, o)
  IN IF n = 0 \/ (o # 0 /\ hide) THEN ns
     ELSE [HashName(UnhashName(freed, n), n, dir2, name2)
             EXCEPT ![n].hidden = IF hide THEN TRUE ELSE @]

ExchangeNode(ns, dir, name, dir2, name2) ==
  LET n == LookupNode(ns, dir, name)
      o == LookupNode(ns, dir2, name2)
      out(s, x) == IF x = 0 THEN s ELSE UnhashName(s, x)
      put(s, x, d, m) == IF x = 0 THEN s ELSE HashName(s, x, d, m)
  IN put(put(out(out(ns, n), o), n, dir2, name2), o, dir, name)

IsOpen(ns, dir, name) ==
  LET n == LookupNode(ns, dir, name) IN n # 0 /\ ns[n].open > 0

(* next_id: the next number, cyclically, that no node has.                 *)
NextId(ns, c) ==
  LET size == Cardinality(Ids) + 2     \* 0 and FUSE_UNKNOWN_INO are skipped
      at(i) == (c + i) % size
      i == CHOOSE j \in 1 .. size : /\ at(j) \in Ids \ DOMAIN ns
                                    /\ \A l \in 1 .. j - 1 : at(l) \notin Ids \ DOMAIN ns
  IN at(i)

-----------------------------------------------------------------------------
(* Tree locks.                                                             *)

(* unlock_path.                                                            *)
UnlockPath(ns, id, w) ==
  [n \in DOMAIN ns |->
     IF n = w THEN [ns[n] EXCEPT !.lock = 0]
     ELSE IF n \in Up(ns, id)
     THEN [ns[n] EXCEPT !.lock = IF @ - 1 = WaitOffset THEN 0 ELSE @ - 1]
     ELSE ns[n]]

(* A failed attempt holds nothing.                                         *)
Failed(ns, err) == [ns |-> ns, err |-> err, w |-> 0, path |-> <<>>]

(* try_get_path with need_lock: all the locks of the path, or none.  A     *)
(* writer that finds readers marks the node so that no new reader enters.  *)
TryGetPath(ns, id, name, wr) ==
  LET w == IF wr THEN LookupNode(ns, id, name) ELSE 0
      walk == Up(ns, id)
  IN IF w # 0 /\ ns[w].lock # 0
     THEN Failed([ns EXCEPT ![w].lock = IF @ > 0 THEN @ + WaitOffset ELSE @], "EAGAIN")
     ELSE IF \E n \in walk : IsNamed(ns, n) /\ ns[n].lock < 0 THEN Failed(ns, "EAGAIN")
     ELSE IF \E n \in walk : ~IsNamed(ns, n) THEN Failed(ns, "ESTALE")
     ELSE [ns |-> [n \in DOMAIN ns |->
                     IF n = w THEN [ns[n] EXCEPT !.lock = TreelockWrite]
                     ELSE IF n \in walk THEN [ns[n] EXCEPT !.lock = @ + 1]
                     ELSE ns[n]],
           err |-> "", w |-> w,
           path |-> IF name = "" THEN PathOf(ns, id) ELSE Append(PathOf(ns, id), name)]

(* What a request asks for: the handlers' calls of get_path, get_path_name,*)
(* get_path_wrlock and get_path2.  The second inode of a copy is asked for *)
(* by a later call (pc "get2").                                            *)
TwoPaths == {"rename", "exchange", "link"}
\* Mutant: a rename locks the directories of its two names only.
WritesOfRemoves(r) == r.op \in Removes
WritesOf(r) == r.op \in Removes \union {"rename", "exchange"}

(* try_get_path or try_get_path2 for request r: the tree and r after it.   *)
Attempt(ns, r) ==
  LET second == r.pc = "get2"
      a == IF second THEN TryGetPath(ns, r.ino2, "", FALSE)
           ELSE TryGetPath(ns, r.ino, IF r.op = "readdirplus" THEN "" ELSE r.name, WritesOf(r))
      b == TryGetPath(a.ns, r.ino2, r.name2, WritesOf(r))
  IN IF second
     THEN [ns |-> a.ns, r |-> [r EXCEPT !.err = a.err, !.has2 = a.err = "", !.path2 = a.path]]
     ELSE IF a.err # "" THEN [ns |-> a.ns, r |-> [r EXCEPT !.err = a.err]]
     ELSE IF r.op \notin TwoPaths
     THEN [ns |-> a.ns, r |-> [r EXCEPT !.err = "", !.has = TRUE, !.path = a.path, !.w = a.w]]
     ELSE IF b.err # ""
     THEN [ns |-> UnlockPath(b.ns, r.ino, a.w), r |-> [r EXCEPT !.err = b.err]]
     ELSE [ns |-> b.ns,
           r |-> [r EXCEPT !.err = "", !.has = TRUE, !.path = a.path, !.w = a.w,
                           !.has2 = TRUE, !.path2 = b.path, !.w2 = b.w]]


(* Where a request goes once its path is there, or will never be: a node   *)
(* without a name has no path, which the null-path handlers accept.        *)
AllowsNull(r) == r.op \in NullOk \/ (r.op \in AttrOps /\ r.k = 1)
AfterRelease(r) ==
  IF r.op = "create" THEN [r EXCEPT !.pc = "forget", !.k = 1] ELSE [r EXCEPT !.pc = "free"]
Got(r0) ==
  LET r == [r0 EXCEPT !.queued = FALSE, !.done = FALSE]
      ok == [r EXCEPT !.err = ""]
  IN IF r.pc = "purge" THEN IF r.err = "" THEN r ELSE AfterRelease(ok)
     ELSE IF r.err # "" /\ ~AllowsNull(r)
     THEN [r EXCEPT !.pc = IF r.op \in AnswersFirst THEN "answer" ELSE "reply"]
     ELSE [ok EXCEPT !.pc = IF r.op = "copy" /\ r.pc = "get" THEN "get2" ELSE "call"]

(* get_path_common, get_path_nullok and get_path2: try, or join the queue. *)
GetPath(t) ==
  LET r == th[t]
      a == Attempt(nodes, r)
  IN /\ ~r.queued
     /\ r.pc \in {"get", "get2"} \/ (r.pc = "purge" /\ ~r.has /\ NullPathOk)
     /\ IF AllowsNull(r) /\ NullPathOk /\ r.pc # "purge"
        THEN /\ th' = [th EXCEPT ![t] = Got(r)]
             /\ UNCHANGED tree
        ELSE /\ nodes' = a.ns
             /\ IF a.r.err = "EAGAIN"
                THEN /\ lockq' = Append(lockq, t)
                     /\ th' = [th EXCEPT ![t].queued = TRUE]
                ELSE /\ th' = [th EXCEPT ![t] = Got(a.r)]
                     /\ UNCHANGED lockq
             /\ UNCHANGED <<ctr, hidectr>>
     /\ UNCHANGED <<fsys, kern>>

(* queue_element_wakeup: serve one waiting request.  A forget only waits   *)
(* for its node to be unlocked.                                            *)
QueueElementWakeup(a, t) ==
  LET r == a.th[t]
      x == Attempt(a.ns, r)
  IN IF r.pc = "forget"
     THEN [a EXCEPT !.th[t].done = @ \/ a.ns[r.e].lock = 0]
     ELSE IF r.done THEN a
     ELSE IF x.r.err = "EAGAIN" THEN [a EXCEPT !.ns = x.ns]
     ELSE [ns |-> x.ns, th |-> [a.th EXCEPT ![t] = [x.r EXCEPT !.done = TRUE]]]

(* wait_path returns: the lock was taken by the thread that woke us.       *)
WaitPath(t) ==
  /\ th[t].queued /\ th[t].done /\ th[t].pc # "forget"
  /\ lockq' = SelectSeq(lockq, LAMBDA u : u # t)
  /\ th' = [th EXCEPT ![t] = Got(th[t])]
  /\ UNCHANGED <<nodes, ctr, hidectr, fsys, kern>>

(* A getattr that went well looks at its node once more, the path given    *)
(* back: get_node, which aborts when the node is gone.                     *)
AfterFree(r) == IF r.op = "getattr" /\ r.err = "" THEN "stat" ELSE "reply"

(* Mutant: only the oldest waiting request is tried.                       *)
FreeWakesOne(t) ==
  LET r == th[t]
      one == IF r.has THEN UnlockPath(nodes, r.ino, r.w) ELSE nodes
      two == IF r.has2 THEN UnlockPath(one, r.ino2, r.w2) ELSE one
      rest == [r EXCEPT !.pc = AfterFree(r), !.has = FALSE, !.has2 = FALSE, !.path = <<>>,
                        !.path2 = <<>>, !.w = 0, !.w2 = 0, !.hname = "", !.obj = 0]
      freed == [ns |-> two, th |-> [th EXCEPT ![t] = IF r.op \in AnswersFirst THEN Idle ELSE rest]]
      woken == IF lockq = <<>> THEN freed ELSE QueueElementWakeup(freed, Head(lockq))
  IN /\ r.pc = "free"
     /\ nodes' = woken.ns /\ th' = woken.th
     /\ UNCHANGED <<ctr, hidectr, lockq, fsys, kern>>

(* free_path, free_path_wrlock and free_path2: unlock, then wake_up_queued.*)
FreePath(t) ==
  LET r == th[t]
      one == IF r.has THEN UnlockPath(nodes, r.ino, r.w) ELSE nodes
      two == IF r.has2 THEN UnlockPath(one, r.ino2, r.w2) ELSE one
      rest == [r EXCEPT !.pc = AfterFree(r), !.has = FALSE, !.has2 = FALSE, !.path = <<>>,
                        !.path2 = <<>>, !.w = 0, !.w2 = 0, !.hname = "", !.obj = 0]
      next == IF r.op \in AnswersFirst THEN Idle ELSE rest
      woken[i \in 0 .. Len(lockq)] ==     \* wake_up_queued: oldest first
        IF i = 0 THEN [ns |-> two, th |-> [th EXCEPT ![t] = next]]
        ELSE QueueElementWakeup(woken[i - 1], lockq[i])
  IN /\ r.pc = "free"
     /\ IF r.has \/ r.has2
        THEN nodes' = woken[Len(lockq)].ns /\ th' = woken[Len(lockq)].th
        ELSE nodes' = nodes /\ th' = [th EXCEPT ![t] = next]
     /\ UNCHANGED <<ctr, hidectr, lockq, fsys, kern>>

-----------------------------------------------------------------------------
(* The user filesystem: the fuse_fs_* calls, on paths.                     *)

(* What a path names: an object, or 0.                                     *)
Obj(path) ==
  LET at[i \in 0 .. Len(path)] ==
        IF i = 0 THEN Root
        ELSE IF <<at[i - 1], path[i]>> \in DOMAIN ents THEN ents[<<at[i - 1], path[i]>>]
        ELSE 0
  IN at[Len(path)]
Key(path) == <<Obj(Front(path)), Last(path)>>
Without(f, x) == [y \in DOMAIN f \ {x} |-> f[y]]
With(f, x, v) == [y \in DOMAIN f \union {x} |-> IF y = x THEN v ELSE f[y]]
Empty(o) == \A x \in DOMAIN ents : x[1] # o

FsGetattr(path) == Obj(path)
FsOpenOk(path) == Obj(path) # 0
FsMakeOk(path) == Obj(path) = 0 /\ Obj(Front(path)) \in dirs
FsSymlinkOk(path) == FsMakeOk(path)
FsLinkOk(p, q) == Obj(p) \notin dirs \union {0} /\ FsMakeOk(q)
FsCreateOk(path) == Obj(Front(path)) \in dirs /\ Obj(path) \notin dirs
FsUnlinkOk(path) == Obj(path) \notin dirs \union {0}
FsRmdirOk(path)  == Obj(path) \in dirs /\ Empty(Obj(path))
FsRenameOk(p, q) ==
  /\ Obj(p) # 0 /\ Obj(Front(q)) \in dirs
  /\ Obj(q) # 0 => ((Obj(p) \in dirs) = (Obj(q) \in dirs)) /\ Empty(Obj(q))
FsRename(p, q) == With(Without(ents, Key(p)), Key(q), Obj(p))
FsExchange(p, q) == With(With(ents, Key(p), Obj(q)), Key(q), Obj(p))

Goto(t, pc) == th' = [th EXCEPT ![t].pc = pc]
Fail(t, pc, err) == th' = [th EXCEPT ![t].pc = pc, ![t].err = err]
At(t, pc, ops) == th[t].pc = pc /\ th[t].op \in ops

(* The handlers of one shape.                                              *)
LibAttr(t) ==
  \/ At(t, "call", AttrOps) /\ Goto(t, "free") /\ UNCHANGED <<tree, fsys, kern>>
  \/ At(t, "stat", {"getattr"}) /\ Goto(t, "reply") /\ UNCHANGED <<tree, fsys, kern>>
LibInode(t) == At(t, "call", InodeOps) /\ Goto(t, "free") /\ UNCHANGED <<tree, fsys, kern>>
LibStatfs(t) == At(t, "call", StatfsOps) /\ Goto(t, "free") /\ UNCHANGED <<tree, fsys, kern>>
LibXattr(t) == At(t, "call", XattrOps) /\ Goto(t, "free") /\ UNCHANGED <<tree, fsys, kern>>
LibBmap(t) == At(t, "call", BmapOps) /\ Goto(t, "free") /\ UNCHANGED <<tree, fsys, kern>>
LibRead(t) == At(t, "call", ReadOps) /\ Goto(t, "free") /\ UNCHANGED <<tree, fsys, kern>>
LibWrite(t) == At(t, "call", WriteOps) /\ Goto(t, "free") /\ UNCHANGED <<tree, fsys, kern>>
LibFlush(t) == At(t, "call", FlushOps) /\ Goto(t, "free") /\ UNCHANGED <<tree, fsys, kern>>
LibLock(t) == At(t, "call", LockOps) /\ Goto(t, "free") /\ UNCHANGED <<tree, fsys, kern>>
LibFile(t) == At(t, "call", FileOps) /\ Goto(t, "free") /\ UNCHANGED <<tree, fsys, kern>>
LibSeek(t) == At(t, "call", SeekOps) /\ Goto(t, "free") /\ UNCHANGED <<tree, fsys, kern>>
LibDirHandle(t) == At(t, "call", DirHandleOps) /\ Goto(t, "free") /\ UNCHANGED <<tree, fsys, kern>>
LibOpendir(t) == At(t, "call", DirOps) /\ Goto(t, "answer") /\ UNCHANGED <<tree, fsys, kern>>
LibCopy(t) == At(t, "call", {"copy"}) /\ Goto(t, "answer") /\ UNCHANGED <<tree, fsys, kern>>

(* lookup_path: getattr on the entry's path, then do_lookup.               *)
EntryPath(r) == IF r.op = "link" THEN r.path2 ELSE r.path
LookupPath(t) ==
  LET o == FsGetattr(EntryPath(th[t])) IN
  /\ At(t, "call", {"lookup"}) \/ At(t, "look", Makes \union {"create", "link"})
  /\ IF o = 0 THEN Fail(t, IF th[t].op = "create" THEN "answer" ELSE "free", "ENOENT")
     ELSE th' = [th EXCEPT ![t].pc = "find", ![t].obj = o]
  /\ UNCHANGED <<tree, fsys, kern>>

(* find_node: the entry's node, a new one if it has none, with one more    *)
(* lookup on it; the tree, the number and f->ctr after it.                 *)
Fresh(obj) == [parent |-> 0, name |-> "", ref |-> 0, nlookup |-> 0, open |-> 0,
               hidden |-> FALSE, lock |-> 0, obj |-> obj]
FindNode(dir, name, obj) ==
  LET n == LookupNode(nodes, dir, name)
      id == NextId(nodes, ctr)
  IN IF n # 0 THEN [ns |-> IncNlookup(nodes, n), id |-> n, ctr |-> ctr]
     ELSE [ns |-> IncNlookup(HashName(With(nodes, id, Fresh(obj)), id, dir, name), id),
           id |-> id, ctr |-> id]

(* do_lookup.  A create that finds something else than a regular file gives *)
(* the handle and the lookup back (EIO), with its path held.               *)
DoLookup(t) ==
  LET r == th[t]
      f == IF r.op = "link" THEN FindNode(r.ino2, r.name2, r.obj)
           ELSE FindNode(r.ino, r.name, r.obj)
  IN /\ r.pc = "find"
     /\ nodes' = f.ns /\ ctr' = f.ctr
     /\ \/ th' = [th EXCEPT ![t].e = f.id, ![t].pc = IF r.op = "create" THEN "count" ELSE "free"]
        \/ /\ r.op = "create"
           /\ th' = [th EXCEPT ![t].e = f.id, ![t].pc = "forget", ![t].k = 1, ![t].err = "EIO"]
     /\ UNCHANGED <<hidectr, lockq, fsys, kern>>

(* fuse_lib_mknod and fuse_lib_mkdir.                                      *)
FsMake(path, dir) ==
  /\ ents' = With(ents, Key(path), made + 1)
  /\ dirs' = IF dir THEN dirs \union {made + 1} ELSE dirs
  /\ made' = made + 1
LibMake(t) ==
  LET r == th[t] IN
  /\ At(t, "call", {"mknod", "mkdir"})
  /\ IF FsMakeOk(r.path) THEN FsMake(r.path, r.op = "mkdir") /\ Goto(t, "look")
     ELSE Fail(t, "free", "EEXIST") /\ UNCHANGED fsys
  /\ UNCHANGED <<tree, kern>>

LibSymlink(t) ==
  LET r == th[t] IN
  /\ At(t, "call", {"symlink"})
  /\ IF FsSymlinkOk(r.path) THEN FsMake(r.path, FALSE) /\ Goto(t, "look")
     ELSE Fail(t, "free", "EEXIST") /\ UNCHANGED fsys
  /\ UNCHANGED <<tree, kern>>

LibLink(t) ==
  LET r == th[t] IN
  /\ At(t, "call", {"link"})
  /\ IF FsLinkOk(r.path, r.path2)
     THEN ents' = With(ents, Key(r.path2), Obj(r.path)) /\ Goto(t, "look")
     ELSE Fail(t, "free", "EEXIST") /\ UNCHANGED ents
  /\ UNCHANGED <<dirs, made>>
  /\ UNCHANGED <<tree, kern>>

(* fuse_lib_create: make or open the file, look it up, count the handle.   *)
LibCreate(t) ==
  LET r == th[t] IN
  /\ At(t, "call", {"create"})
  /\ IF FsCreateOk(r.path)
     THEN /\ Goto(t, "look")
          /\ IF Obj(r.path) # 0 THEN UNCHANGED fsys ELSE FsMake(r.path, FALSE)
     ELSE Fail(t, "answer", "EISDIR") /\ UNCHANGED fsys
  /\ UNCHANGED <<tree, kern>>

LibOpen(t) ==
  /\ At(t, "call", {"open"})
  /\ IF FsOpenOk(th[t].path) THEN Goto(t, "count") ELSE Fail(t, "answer", "ENOENT")
  /\ UNCHANGED <<tree, fsys, kern>>

(* open_count++, under f->lock, before the reply.                          *)
CountOpen(t) ==
  /\ th[t].pc = "count"
  /\ nodes' = [nodes EXCEPT ![th[t].e].open = @ + 1]
  /\ Goto(t, "answer")
  /\ UNCHANGED <<ctr, hidectr, lockq, fsys, kern>>

(* The reply of open, create, opendir and copy, with the path still held:  *)
(* the kernel gets the handle, or has dropped the request (ENOENT), and    *)
(* then the handle must be given back at once.                             *)
AnswerOpen(t) ==
  LET r == th[t]
      open == r.op \in {"open", "create"} /\ r.err = ""
  IN /\ r.pc = "answer"
     /\ \/ /\ kh' = IF open THEN [kh EXCEPT ![r.e] = @ + 1] ELSE kh
           /\ kl' = IF open /\ r.op = "create" THEN [kl EXCEPT ![r.e] = @ + 1] ELSE kl
           /\ th' = [th EXCEPT ![t].pc = "free", ![t].live = FALSE]
           /\ UNCHANGED losses
        \/ /\ losses > 0 /\ open
           /\ losses' = losses - 1
           /\ th' = [th EXCEPT ![t].pc = "cancel", ![t].live = FALSE]
           /\ UNCHANGED <<kl, kh>>
     /\ UNCHANGED <<tree, fsys, todo>>

(* Mutant: the last release leaves the hidden file where it is.            *)
DoReleaseKeeps(t) ==
  /\ At(t, "call", {"release"}) \/ th[t].pc = "cancel"
  /\ nodes' = [nodes EXCEPT ![th[t].e].open = @ - 1]
  /\ th' = [th EXCEPT ![t] = AfterRelease(th[t])]
  /\ UNCHANGED <<ctr, hidectr, lockq, fsys, kern>>

(* fuse_do_release after the fuse_fs_release call: the last handle of a    *)
(* hidden file takes the file with it.                                     *)
DoRelease(t) ==
  LET r == th[t]
      n == nodes[r.e]
      last == n.hidden /\ n.open = 1
      purge == last /\ (r.has \/ NullPathOk)
  IN /\ At(t, "call", {"release"}) \/ r.pc = "cancel"
     /\ nodes' = [nodes EXCEPT ![r.e].open = @ - 1, ![r.e].hidden = @ /\ ~last]
     /\ th' = [th EXCEPT ![t] = IF purge THEN [r EXCEPT !.pc = "purge"] ELSE AfterRelease(r)]
     /\ UNCHANGED <<ctr, hidectr, lockq, fsys, kern>>

PurgeHidden(t) ==
  LET r == th[t] IN
  /\ r.pc = "purge" /\ r.has /\ ~r.queued
  /\ ents' = IF FsUnlinkOk(r.path) THEN Without(ents, Key(r.path)) ELSE ents
  /\ th' = [th EXCEPT ![t] = AfterRelease(r)]
  /\ UNCHANGED <<tree, dirs, made, kern>>

-----------------------------------------------------------------------------
(* Removing and renaming.                                                  *)

(* The entry an unlink or a rename takes away: the victim.                 *)
VDir(r)  == IF r.op = "rename" THEN r.ino2 ELSE r.ino
VName(r) == IF r.op = "rename" THEN r.name2 ELSE r.name
VPath(r) == IF r.op = "rename" THEN r.path2 ELSE r.path

(* The is_open test of fuse_lib_unlink and fuse_lib_rename.                *)
TestOpen(t) ==
  LET r == th[t]
      hide == r.op \notin {"rmdir", "exchange"} /\ ~HardRemove /\ IsOpen(nodes, VDir(r), VName(r))
  IN /\ At(t, "call", Removes \union {"rename", "exchange"})
     /\ Goto(t, IF hide THEN "hname" ELSE IF r.op \in Removes THEN "remove" ELSE "move")
     /\ UNCHANGED <<tree, fsys, kern>>

(* hidden_name, under f->lock: the next hidden name no node has.           *)
HiddenName(t) ==
  LET r == th[t]
      c == CHOOSE i \in hidectr + 1 .. Len(Hidden) :
             /\ LookupNode(nodes, VDir(r), Hidden[i]) = 0
             /\ \A j \in hidectr + 1 .. i - 1 : LookupNode(nodes, VDir(r), Hidden[j]) # 0
  IN /\ r.pc = "hname"
     /\ IF LookupNode(nodes, VDir(r), VName(r)) = 0
        THEN Fail(t, "free", "EBUSY") /\ UNCHANGED hidectr
        ELSE /\ hidectr' = c
             /\ th' = [th EXCEPT ![t].pc = "hstat", ![t].hname = Hidden[c]]
     /\ UNCHANGED <<nodes, ctr, lockq, fsys, kern>>

HiddenPath(r) == Append(Front(VPath(r)), r.hname)

(* hidden_name, the getattr: the name must be free in the filesystem too.  *)
HiddenStat(t) ==
  LET r == th[t] IN
  /\ r.pc = "hstat"
  /\ IF FsGetattr(HiddenPath(r)) = 0 THEN th' = [th EXCEPT ![t].pc = "hmove", ![t].k = 0]
     ELSE IF r.k + 1 < FailCtr THEN th' = [th EXCEPT ![t].pc = "hname", ![t].k = @ + 1]
     ELSE Fail(t, "free", "EBUSY")
  /\ UNCHANGED <<tree, fsys, kern>>

(* hide_node: rename in the filesystem, then rename_node.                  *)
HideFile(t) ==
  LET r == th[t] IN
  /\ r.pc = "hmove"
  /\ IF FsRenameOk(VPath(r), HiddenPath(r))
     THEN ents' = FsRename(VPath(r), HiddenPath(r)) /\ Goto(t, "hnode")
     ELSE Fail(t, "free", "ENOENT") /\ UNCHANGED ents
  /\ UNCHANGED <<tree, dirs, made, kern>>

HideNode(t) ==
  LET r == th[t] IN
  /\ r.pc = "hnode"
  /\ nodes' = RenameNode(nodes, VDir(r), VName(r), VDir(r), r.hname, TRUE)
  /\ Goto(t, IF r.op = "rename" THEN "move" ELSE "recheck")
  /\ UNCHANGED <<ctr, hidectr, lockq, fsys, kern>>

(* fuse_lib_unlink looks again: the last handle may have been released     *)
(* before the node was marked hidden.                                      *)
RecheckOpen(t) ==
  /\ th[t].pc = "recheck"
  /\ Goto(t, IF IsOpen(nodes, th[t].ino, nodes[th[t].w].name) THEN "free" ELSE "remove")
  /\ UNCHANGED <<tree, fsys, kern>>

(* fuse_fs_unlink or fuse_fs_rmdir: of the path, or of the hidden path.    *)
RemoveEntry(t) ==
  LET r == th[t]
      path == IF r.hname # "" THEN HiddenPath(r) ELSE r.path
      ok == IF r.op = "rmdir" THEN FsRmdirOk(path) ELSE FsUnlinkOk(path)
  IN /\ r.pc = "remove"
     /\ IF ok THEN ents' = Without(ents, Key(path)) /\ Goto(t, "drop")
        ELSE Fail(t, "free", "ENOENT") /\ UNCHANGED ents
     /\ UNCHANGED <<tree, dirs, made, kern>>

DropNode(t) ==
  LET r == th[t] IN
  /\ r.pc = "drop"
  /\ nodes' = RemoveNode(nodes, r.ino, IF r.hname # "" THEN nodes[r.w].name ELSE r.name)
  /\ Goto(t, "free")
  /\ UNCHANGED <<ctr, hidectr, lockq, fsys, kern>>

(* fuse_lib_rename: the filesystem's rename, then the node's.              *)
MoveEntry(t) ==
  LET r == th[t]
      ok == IF r.op = "exchange" THEN Obj(r.path) # 0 /\ Obj(r.path2) # 0
            ELSE FsRenameOk(r.path, r.path2)
  IN /\ r.pc = "move"
     /\ IF ok THEN /\ ents' = IF r.op = "exchange" THEN FsExchange(r.path, r.path2)
                              ELSE FsRename(r.path, r.path2)
                   /\ Goto(t, "renode")
        ELSE Fail(t, "free", "ENOENT") /\ UNCHANGED ents
     /\ UNCHANGED <<tree, dirs, made, kern>>

MoveNode(t) ==
  LET r == th[t] IN
  /\ r.pc = "renode"
  /\ nodes' = IF r.op = "exchange" THEN ExchangeNode(nodes, r.ino, r.name, r.ino2, r.name2)
              ELSE RenameNode(nodes, r.ino, r.name, r.ino2, r.name2, FALSE)
  /\ Goto(t, "free")
  /\ UNCHANGED <<ctr, hidectr, lockq, fsys, kern>>

-----------------------------------------------------------------------------
(* Directory listings, replies and forgets.                                *)

(* readdir_fill with fill_dir_plus: an entry the filesystem lists with its *)
(* attributes (FUSE_FILL_DIR_PLUS) is looked up.  One entry stands for the *)
(* listing.                                                                *)
LibReaddirplus(t) ==
  LET r == th[t]
      dir == nodes[r.ino].obj
  IN /\ At(t, "call", {"readdirplus"})
     /\ \/ \E x \in DOMAIN ents :
             /\ x[1] = dir /\ x[2] \in Names
             /\ th' = [th EXCEPT ![t].pc = "find", ![t].name = x[2], ![t].obj = ents[x]]
        \/ Goto(t, "free")
     /\ UNCHANGED <<tree, fsys, kern>>

(* reply_err, reply_entry and the other replies.  An entry the kernel gets *)
(* is one lookup it holds; if it has dropped the request the lookup is     *)
(* forgotten here; a directory entry that did not fit in the buffer is not *)
(* sent, and its lookup stays.                                             *)
Reply(t) ==
  LET r == th[t]
      entry == r.e # 0 /\ r.err = "" /\ r.op \in Makes \union {"lookup", "link", "readdirplus"}
  IN /\ r.pc = "reply"
     /\ \/ /\ kl' = IF entry THEN [kl EXCEPT ![r.e] = @ + 1] ELSE kl
           /\ th' = [th EXCEPT ![t] = Idle]
           /\ UNCHANGED losses
        \/ /\ entry /\ losses > 0
           /\ losses' = losses - 1
           /\ th' = [th EXCEPT ![t] = IF r.op = "readdirplus" THEN Idle
                       ELSE [r EXCEPT !.pc = "forget", !.k = 1, !.live = FALSE]]
           /\ UNCHANGED kl
     /\ UNCHANGED <<tree, fsys, kh, todo>>

(* forget_node: the last lookup waits until no path goes through the node. *)
Forgotten(ns, id, k) ==
  LET less == [ns EXCEPT ![id].nlookup = @ - k]
  IN IF less[id].nlookup = 0 THEN UnrefNode(less, id) ELSE less
MustWait(r) == nodes[r.e].nlookup = r.k /\ nodes[r.e].lock # 0
ForgetNode(t) ==
  LET r == th[t] IN
  /\ r.pc = "forget" /\ (r.queued => r.done)
  /\ IF MustWait(r)
     THEN /\ th' = [th EXCEPT ![t].queued = TRUE, ![t].done = FALSE]
          /\ lockq' = IF r.queued THEN lockq ELSE Append(lockq, t)
          /\ UNCHANGED nodes
     ELSE /\ nodes' = Forgotten(nodes, r.e, r.k)
          /\ lockq' = SelectSeq(lockq, LAMBDA u : u # t)
          /\ th' = [th EXCEPT ![t] = IF r.has
                      THEN [r EXCEPT !.pc = IF r.live THEN "answer" ELSE "free",
                                     !.queued = FALSE, !.done = FALSE]
                      ELSE Idle]
  /\ UNCHANGED <<ctr, hidectr, fsys, kern>>

-----------------------------------------------------------------------------
(* The kernel: what the VFS may send.                                      *)

Child(dir, name) == LookupNode(nodes, dir, name)
KNode(n) == n = Root \/ kl[n] > 0
KDir(n) == KNode(n) /\ nodes[n].obj \in dirs
KFile(n) == KNode(n) /\ nodes[n].obj \notin dirs

(* The inodes whose lock the VFS holds while a request is out.             *)
VfsLocks(r) ==
  (CASE r.op \in Named \union {"readdirplus"} -> {r.ino}
     [] r.op \in Removes -> {r.ino, r.e}
     [] r.op \in {"rename", "exchange"} ->
          {r.ino, r.ino2, r.e} \union (IF KFile(r.src) THEN {r.src} ELSE {})
     [] r.op = "link" -> {r.ino, r.ino2}
     [] r.op = "copy" -> {r.ino2}
     [] OTHER -> {}) \ {0}
Live == {t \in Threads : th[t].live}

(* A cross-directory rename holds s_vfs_rename_mutex as well.              *)
Crosses(r) == r.op \in {"rename", "exchange"} /\ r.ino # r.ino2
VfsFree(r) ==
  \A t \in Live : /\ VfsLocks(th[t]) \intersect VfsLocks(r) = {}
                  /\ ~(Crosses(th[t]) /\ Crosses(r))

UsesHandle(r) == r.op \in OnFile \union {"copy"} \/ (r.op \in AttrOps /\ r.k = 1)
HandleFree(n) == kh[n] > Cardinality({t \in Live : UsesHandle(th[t]) /\ n \in {th[t].ino, th[t].ino2}})

(* The inodes a request out there keeps the kernel from forgetting.        *)
Pinned(r) ==
  {r.ino, r.ino2, r.src} \union
  (IF r.op \in Removes \union {"rename", "exchange"} THEN {r.e} ELSE {})

Under(n, m) == m \in Up(nodes, n)

Send(t, r) ==
  /\ VfsFree(r)
  /\ th' = [th EXCEPT ![t] = [r EXCEPT !.pc = "get", !.live = TRUE]]
  /\ todo' = todo \ {r.op}
  /\ UNCHANGED <<tree, fsys, kl, losses>>

OnInode(t, n) ==
  \/ \E op \in todo \intersect (InodeOps \union StatfsOps \union XattrOps \union AttrOps) :
       KNode(n) /\ Send(t, [Idle EXCEPT !.op = op, !.ino = n]) /\ UNCHANGED kh
  \/ \E op \in todo \intersect (BmapOps \union {"open"}) :
       KFile(n) /\ Send(t, [Idle EXCEPT !.op = op, !.ino = n, !.e = n]) /\ UNCHANGED kh
  \/ \E op \in todo \intersect (DirOps \union DirHandleOps \union {"readdirplus"}) :
       KDir(n) /\ Send(t, [Idle EXCEPT !.op = op, !.ino = n]) /\ UNCHANGED kh

OnHandle(t, n) ==
  \/ \E op \in todo \intersect (OnFile \union SeekOps \union AttrOps) :
       /\ kh[n] > 0
       /\ Send(t, [Idle EXCEPT !.op = op, !.ino = n, !.k = IF op \in AttrOps THEN 1 ELSE 0])
       /\ UNCHANGED kh
  \/ \E m \in Ids :
       /\ "copy" \in todo /\ kh[n] > 0 /\ kh[m] > 0
       /\ Send(t, [Idle EXCEPT !.op = "copy", !.ino = n, !.ino2 = m])
       /\ UNCHANGED kh
  \/ /\ "release" \in todo /\ HandleFree(n)
     /\ Send(t, [Idle EXCEPT !.op = "release", !.ino = n, !.e = n])
     /\ kh' = [kh EXCEPT ![n] = @ - 1]

OnEntry(t, dir, name) ==
  LET c == Child(dir, name) IN
  /\ KDir(dir)
  /\ UNCHANGED kh
  /\ \/ \E op \in todo \intersect Named : Send(t, [Idle EXCEPT !.op = op, !.ino = dir, !.name = name])
     \/ /\ "unlink" \in todo /\ c # 0 /\ KFile(c)
        /\ Send(t, [Idle EXCEPT !.op = "unlink", !.ino = dir, !.name = name, !.e = c])
     \/ /\ "rmdir" \in todo /\ c # 0 /\ KDir(c)
        /\ Send(t, [Idle EXCEPT !.op = "rmdir", !.ino = dir, !.name = name, !.e = c])
     \/ \E n \in Ids : /\ "link" \in todo /\ KFile(n) /\ c = 0
                       /\ Send(t, [Idle EXCEPT !.op = "link", !.ino = n, !.ino2 = dir, !.name2 = name])

OnEntries(t, dir, name, dir2, name2) ==
  LET c == Child(dir, name)
      v == Child(dir2, name2)
  IN /\ KDir(dir) /\ KDir(dir2) /\ c # 0 /\ KNode(c) /\ c # v
     /\ ~Under(dir2, c)
     /\ v # 0 => KNode(v) /\ ~Under(dir, v)
     /\ \E op \in todo \intersect {"rename", "exchange"} :
          /\ op = "exchange" => v # 0
          /\ op = "rename" /\ v # 0 => (nodes[c].obj \in dirs) = (nodes[v].obj \in dirs)
          /\ Send(t, [Idle EXCEPT !.op = op, !.ino = dir, !.name = name,
                                  !.ino2 = dir2, !.name2 = name2, !.e = v, !.src = c])
     /\ UNCHANGED kh

(* An inode leaves the kernel's cache, with all the lookups it had.        *)
SendForget(t, n) ==
  /\ "forget" \in todo
  /\ kl[n] > 0 /\ kh[n] = 0
  /\ \A u \in Live : n \notin Pinned(th[u])
  /\ \A m \in DOMAIN nodes : nodes[m].parent = n => kl[m] = 0
  /\ th' = [th EXCEPT ![t] = [Idle EXCEPT !.op = "forget", !.pc = "forget", !.e = n, !.k = kl[n]]]
  /\ kl' = [kl EXCEPT ![n] = 0]
  /\ todo' = todo \ {"forget"}
  /\ UNCHANGED <<tree, fsys, kh, losses>>

Kernel(t) ==
  /\ th[t] = Idle
  /\ \/ \E n \in DOMAIN nodes : OnInode(t, n)
     \/ \E n \in Ids : OnHandle(t, n)
     \/ \E n \in DOMAIN nodes, name \in Names : OnEntry(t, n, name)
     \/ /\ todo \intersect {"rename", "exchange"} # {}
        /\ \E n, m \in DOMAIN nodes, a, b \in Names : OnEntries(t, n, a, m, b)
     \/ \E n \in DOMAIN nodes \ {Root} : SendForget(t, n)

-----------------------------------------------------------------------------
(* /d/f is open, /g is not; the filesystem also has a left-over hidden     *)
(* file in /d.                                                             *)
Start(parent, name, ref, open, obj) ==
  [Fresh(obj) EXCEPT !.parent = parent, !.name = name, !.ref = ref, !.nlookup = 1, !.open = open]
Init ==
  /\ nodes = <<Start(0, "", 3, 0, 1), Start(1, "d", 2, 0, 2),
               Start(2, "f", 1, 1, 3), Start(1, "g", 1, 0, 5)>>
  /\ ctr = 4 /\ hidectr = 0
  /\ lockq = <<>>
  /\ th = [t \in Threads |-> Idle]
  /\ ents = [x \in {<<1, "d">>, <<2, "f">>, <<1, "g">>, <<2, Hidden[1]>>} |->
               CASE x[2] = "d" -> 2 [] x[2] = "f" -> 3 [] x[2] = "g" -> 5 [] OTHER -> 4]
  /\ dirs = {1, 2}
  /\ made = 5
  /\ kl = [n \in Ids |-> IF n \in {2, 3, 4} THEN 1 ELSE 0]
  /\ kh = [n \in Ids |-> IF n = 3 THEN 1 ELSE 0]
  /\ \E l \in Loads : todo = l.ops /\ losses = l.losses

Step(t) ==
  \/ GetPath(t) \/ WaitPath(t) \/ FreePath(t)
  \/ LibAttr(t) \/ LibInode(t) \/ LibStatfs(t) \/ LibXattr(t) \/ LibBmap(t) \/ LibRead(t)
  \/ LibWrite(t) \/ LibFlush(t) \/ LibLock(t) \/ LibFile(t) \/ LibSeek(t)
  \/ LibOpendir(t) \/ LibDirHandle(t) \/ LibCopy(t) \/ LookupPath(t) \/ DoLookup(t)
  \/ LibMake(t) \/ LibSymlink(t) \/ LibLink(t) \/ LibCreate(t) \/ LibOpen(t) \/ CountOpen(t) \/ AnswerOpen(t)
  \/ DoRelease(t) \/ PurgeHidden(t)
  \/ TestOpen(t) \/ HiddenName(t) \/ HiddenStat(t) \/ HideFile(t) \/ HideNode(t)
  \/ RecheckOpen(t) \/ RemoveEntry(t) \/ DropNode(t) \/ MoveEntry(t) \/ MoveNode(t)
  \/ LibReaddirplus(t) \/ Reply(t) \/ ForgetNode(t)

(* fuse_destroy, after the last request: unlink every file that is still   *)
(* hidden and has a path, then free the nodes.  The kernel has unmounted.  *)
Gone == DOMAIN nodes = {}
HasPath(id) == \A n \in Up(nodes, id) : IsNamed(nodes, n)
Destroy ==
  LET paths == {PathOf(nodes, n) : n \in {m \in DOMAIN nodes : nodes[m].hidden /\ HasPath(m)}}
      cut == {Key(p) : p \in {q \in paths : FsUnlinkOk(q)}}
  IN /\ ~Gone /\ \A t \in Threads : th[t] = Idle
     /\ ents' = [x \in DOMAIN ents \ cut |-> ents[x]]
     /\ nodes' = [n \in {} |-> 0]
     /\ kl' = [n \in Ids |-> 0] /\ kh' = [n \in Ids |-> 0]
     /\ UNCHANGED <<ctr, hidectr, lockq, th, dirs, made, todo, losses>>

Rest == Gone /\ UNCHANGED vars

Next == (\E t \in Threads : Kernel(t) \/ Step(t)) \/ Destroy \/ Rest

Spec == Init /\ [][Next]_vars

-----------------------------------------------------------------------------
(* Properties.                                                             *)

(* The two tables and the queue are what their fields say.                 *)
TypeOK ==
  /\ \A n \in DOMAIN nodes :
       /\ n \in Ids /\ nodes[n].parent \in DOMAIN nodes \union {0}
       /\ nodes[n].ref > 0 /\ nodes[n].open >= 0 /\ nodes[n].nlookup >= 0
       /\ nodes[n].lock >= WaitOffset
  /\ Range(lockq) = {t \in Threads : th[t].queued} /\ Len(lockq) = Cardinality(Range(lockq))
  /\ \A n \in Ids : kl[n] >= 0 /\ kh[n] >= 0

(* The treelock counters (unlock_path's asserts): a node's lock is exactly *)
(* the requests that hold a path through it, or the one that holds it for  *)
(* writing, and readers are only kept out while a writer waits for them.   *)
Readers(n) ==
  Cardinality({t \in Threads : th[t].has /\ Under(th[t].ino, n)})
    + Cardinality({t \in Threads : th[t].has2 /\ Under(th[t].ino2, n)})
Writers(n) == {t \in Threads : n \in {th[t].w, th[t].w2}}
WaitsFor(t, n) ==
  LET r == th[t] IN
  /\ r.queued /\ ~r.done /\ WritesOf(r)
  /\ n \in {Child(r.ino, r.name), Child(r.ino2, r.name2)}
LocksExact ==
  \A n \in DOMAIN nodes \ {Root} :
    IF Writers(n) # {}
    THEN nodes[n].lock = TreelockWrite /\ Readers(n) = 0 /\ Cardinality(Writers(n)) = 1
    ELSE \/ nodes[n].lock = Readers(n)
         \/ /\ nodes[n].lock = Readers(n) + WaitOffset /\ Readers(n) > 0
            /\ \E t \in Threads : WaitsFor(t, n)

(* The tree locks do their work: while a request holds a path, the inode   *)
(* it was computed from keeps that path, and the filesystem resolves it to *)
(* that inode's object (a hidden file may already be gone).                *)
PathsHold ==
  \A t \in Threads :
    LET r == th[t]
        mine == IF r.op \in Named \union Removes \union {"rename", "exchange"}
                THEN Front(r.path) ELSE r.path
        good(id, p) == /\ p = PathOf(nodes, id)
                       /\ Obj(p) \in {nodes[id].obj} \union (IF nodes[id].name \in Names THEN {} ELSE {0})
    IN /\ r.has => good(r.ino, mine)
       /\ r.has2 => good(r.ino2, IF r.op = "copy" THEN r.path2 ELSE Front(r.path2))

(* The locks and what they are for.                                        *)
PathsGuarded == LocksExact /\ PathsHold

(* A node between the filesystem's change and its own, which a write lock  *)
(* covers.                                                                 *)
InWindow(n) ==
  \E t \in Threads : /\ th[t].pc \in {"hnode", "drop", "renode"}
                     /\ \E m \in {th[t].w, th[t].w2} \ {0} : m = n \/ Under(n, m)

(* Reference counts: a node lives exactly as long as a lookup or a child   *)
(* needs it (refctr), and the library never counts fewer lookups or        *)
(* handles than the kernel holds and the requests under way will give it,  *)
(* so get_node never aborts.                                               *)
Pending(n) ==
  Cardinality({t \in Threads : th[t].e = n /\ th[t].pc \in {"free", "reply", "count", "answer"}
                 /\ th[t].live /\ th[t].err = ""
                 /\ th[t].op \in Makes \union {"lookup", "link", "create", "readdirplus"}})
RefsExact ==
  /\ \A n \in DOMAIN nodes :
       nodes[n].ref = Cardinality({m \in DOMAIN nodes : nodes[m].parent = n})
                        + (IF nodes[n].nlookup > 0 THEN 1 ELSE 0)
  /\ \A n \in Ids \ {Root} :
       /\ kl[n] + Pending(n) > 0 => n \in DOMAIN nodes /\ nodes[n].nlookup >= kl[n] + Pending(n)
       /\ kh[n] > 0 => n \in DOMAIN nodes /\ nodes[n].open >= kh[n]
  /\ \A t \in Threads : th[t].pc = "stat" => th[t].ino \in DOMAIN nodes

(* An open file that was not hidden is still in the filesystem: removing   *)
(* it and replacing it hide it first (hard_remove off).                    *)
Linked(o) == \E x \in DOMAIN ents : ents[x] = o
OpenFilesStay ==
  \A n \in DOMAIN nodes :
    nodes[n].open > 0 /\ nodes[n].name \notin Range(Hidden) /\ ~InWindow(n) => Linked(nodes[n].obj)

(* fuse.h on hard_remove: a deleted open file is renamed to a hidden file  *)
(* and "removed when the file is finally released".  With no request under *)
(* way a file that was hidden and has no handle left is out of the         *)
(* filesystem, and after fuse_destroy no file this session hid is there.   *)
LeftOver == 4        \* the hidden file Init starts with
HiddenFilesGo ==
  /\ (\A t \in Threads : th[t] = Idle) =>
       \A n \in DOMAIN nodes :
         nodes[n].name \notin Names /\ nodes[n].parent # 0 /\ nodes[n].open = 0 =>
           ~Linked(nodes[n].obj)
  /\ Gone => \A x \in DOMAIN ents : x[2] \in Names \/ ents[x] = LeftOver

(* What an open file keeps when its name goes, and no longer than that.    *)
HiddenFilesKept == OpenFilesStay /\ HiddenFilesGo

(* What a request waits for is really not there: its paths are locked, or  *)
(* the node it forgets is.                                                 *)
Waits(t) == th[t].queued /\ ~th[t].done
MustGoOnWaiting(t) ==
  IF th[t].pc = "forget" THEN MustWait(th[t]) ELSE Attempt(nodes, th[t]).r.err = "EAGAIN"

(* The hold and wait the code admits to (FIXME in                          *)
(* fuse_lib_copy_file_range): a copy that holds its first path waits for   *)
(* its second, and a rename or a removal waits for a node of the first.    *)
CopyHoldsAndWaits ==
  \E t, u \in Threads, n \in DOMAIN nodes :
    /\ th[t].op = "copy" /\ th[t].pc = "get2" /\ th[t].has /\ Waits(t)
    /\ WaitsFor(u, n) /\ Under(th[t].ino, n)

(* As long as requests are under way some request can go on: none is left  *)
(* in the lock queue by a lost wake-up, and none waits for one that waits  *)
(* for it, but for the copy above; and even then nobody waits for a path   *)
(* that is free.                                                           *)
Stuck == (\E t \in Threads : th[t] # Idle) /\ \A t \in Threads : th[t] = Idle \/ Waits(t)
NobodyStuck ==
  Stuck => CopyHoldsAndWaits /\ \A t \in Threads : Waits(t) => MustGoOnWaiting(t)

(* The same without the exception, which copy_file_range breaks.           *)
EverybodyMoves == ~Stuck

=============================================================================
