------------------------------ MODULE InodeTable ------------------------------
(***************************************************************************)
(* The inode and open-handle tables of src/src/fuse_fs.zig (State.nodes,   *)
(* State.paths, State.opens) under the handlers that use them, and their   *)
(* passage to the next process image.  Every critical section of nodes_mu  *)
(* and every call into the origin is a step of its own, so a rename may    *)
(* fall between a handler's look at a path and its use.                    *)
(*                                                                         *)
(* A path is a sequence of names, the root the empty one.  A `paths` key   *)
(* is the memory of some node's path: key is that node's number, and is    *)
(* dangling once the node is gone or renamed.  fs is the origin's          *)
(* namespace, what each path holds; the kernel (refs, handles) is external.*)
(***************************************************************************)
EXTENDS Integers, Sequences, FiniteSets, SequencesExt, FiniteSetsExt

CONSTANTS Handlers,   \* worker threads
          Paths,      \* the paths in use, the root not included
          MaxIno,     \* bound on inode numbers
          MaxFh,      \* bound on file handles
          Loads       \* see LoadType

\* The origin's first namespace, the kernel operations that may run and how
\* many, and bounds on failed allocations and on handovers.
LoadType ==
    [tree : SUBSET Paths, ops : SUBSET {"lookup", "create", "mkdir", "open", "unlink", "rename", "exchange"},
     maxOps : Nat, maxFaults : Nat, maxHandovers : Nat]

ASSUME TableAssumption ==
    /\ IsFiniteSet(Handlers)
    /\ MaxIno \in Nat /\ MaxFh \in Nat
    /\ <<>> \notin Paths /\ \A p \in Paths : p \in Seq(Range(p))
    /\ Loads \subseteq LoadType /\ \A l \in Loads : IsFiniteSet(l.tree)

Root == 1
Inos == 2..MaxIno
Fhs == 1..MaxFh

VARIABLES
    load,
    nodes,      \* State.nodes: inode number -> [path, nlookup]
    paths,      \* State.paths: path -> [ino, key]
    opens,      \* State.opens: handle -> path
    nextIno, nextFh,
    job,        \* the request each handler is in
    fs,         \* origin: path -> what it holds
    nextObj,
    refs,       \* kernel: references to each inode number
    forgets,    \* kernel: references given back by a FORGET not yet handled
    handles,    \* kernel: open handles, each with its inode number
    leaked,     \* references of FORGETs an exiting session dropped
    used,       \* numbers ever given to the kernel
    opened,     \* what each handle was opened on
    torn,       \* handles whose open overlapped a rename or an exchange
    crossed,    \* handles under names exchanged, or moved by crossing renames
    count, faults, handovers

tables == <<nodes, paths, opens, nextIno, nextFh>>
origin == <<fs, nextObj>>
kernel == <<refs, forgets, handles>>
ghosts == <<leaked, used, opened, torn, crossed>>
vars == <<load, tables, job, origin, kernel, ghosts, count, faults, handovers>>

Starting(op, pc, path, to, ino) ==
    [op |-> op, pc |-> pc, path |-> path, to |-> to, ino |-> ino, fh |-> 0, obj |-> 0, torn |-> FALSE]
Idle == Starting("none", "idle", <<>>, <<>>, 0)
Empty == [x \in {} |-> x]
MaxObj == Cardinality(Paths) + Max({l.maxOps : l \in Loads})

TypeOK ==
    /\ load \in Loads
    /\ DOMAIN nodes \subseteq Inos
    /\ \A i \in DOMAIN nodes : nodes[i].path \in Paths /\ nodes[i].nlookup \in Nat \ {0}
    /\ DOMAIN paths \subseteq Paths
    /\ \A p \in DOMAIN paths : paths[p].ino \in Inos /\ paths[p].key \in Inos
    /\ DOMAIN opens \subseteq Fhs /\ \A h \in DOMAIN opens : opens[h] \in Paths
    /\ nextIno \in 2..(MaxIno + 1) /\ nextFh \in 1..(MaxFh + 1)
    /\ DOMAIN job = Handlers
    /\ DOMAIN fs \subseteq Paths /\ nextObj \in 1..(MaxObj + 1)
    /\ refs \in [Inos -> Nat] /\ forgets \in [Inos -> Nat] /\ leaked \in [Inos -> Nat]
    /\ DOMAIN handles \subseteq Fhs /\ opened \in [Fhs -> 0..MaxObj]
    /\ torn \cup crossed \subseteq Fhs

Init ==
    /\ load \in Loads
    /\ nodes = Empty /\ paths = Empty /\ opens = Empty /\ nextIno = 2 /\ nextFh = 1
    /\ job = [h \in Handlers |-> Idle]
    /\ LET s == SetToSeq(load.tree)
       IN fs = [p \in load.tree |-> CHOOSE n \in 1..Len(s) : s[n] = p]
    /\ nextObj = Cardinality(load.tree) + 1
    /\ refs = [i \in Inos |-> 0] /\ forgets = refs /\ leaked = refs
    /\ handles = Empty /\ used = {} /\ opened = [h \in Fhs |-> 0] /\ torn = {} /\ crossed = {}
    /\ count = 0 /\ faults = 0 /\ handovers = 0

-------------------------------------------------------------------------------
(* Operations of the tables, each under nodes_mu.                            *)

Without(f, x) == [y \in DOMAIN f \ {x} |-> f[y]]
With(f, x, v) == [y \in DOMAIN f \cup {x} |-> IF y = x THEN v ELSE f[y]]

Held(i) == i = Root \/ refs[i] > 0

\* pathForIno: no path for a number the table does not know.
Resolves(i) == i = Root \/ i \in DOMAIN nodes
PathForIno(i) == IF i = Root THEN <<>> ELSE nodes[i].path

\* internPath: a mapped path gains a reference, another gets the next number.
InternPath(p, i) ==
    IF p \in DOMAIN paths
    THEN /\ i = paths[p].ino
         /\ nodes' = [nodes EXCEPT ![i].nlookup = @ + 1]
         /\ UNCHANGED <<paths, nextIno>>
    ELSE /\ i = nextIno
         /\ nodes' = With(nodes, i, [path |-> p, nlookup |-> 1])
         /\ paths' = With(paths, p, [ino |-> i, key |-> i])
         /\ nextIno' = nextIno + 1

\* Mutant: the freed path stays a key.
DropKeepsName(i, n) ==
    IF i \notin DOMAIN nodes THEN UNCHANGED <<nodes, paths>>
    ELSE IF nodes[i].nlookup > n
    THEN nodes' = [nodes EXCEPT ![i].nlookup = @ - n] /\ UNCHANGED paths
    ELSE nodes' = Without(nodes, i) /\ UNCHANGED paths

\* dropLookup: at zero the node goes, and its name when it still resolves here.
DropLookup(i, n) ==
    IF i \notin DOMAIN nodes THEN UNCHANGED <<nodes, paths>>
    ELSE IF nodes[i].nlookup > n
    THEN nodes' = [nodes EXCEPT ![i].nlookup = @ - n] /\ UNCHANGED paths
    ELSE LET p == nodes[i].path
             mapped == p \in DOMAIN paths /\ paths[p].ino = i
         IN /\ nodes' = Without(nodes, i)
            /\ paths' = IF mapped THEN Without(paths, p) ELSE paths

\* renamedPath: a component-wise prefix match, rewritten.
Covered(old, p) == IsPrefix(old, p)
Renamed(old, new, p) == new \o SubSeq(p, Len(old) + 1, Len(p))

\* Mutant: the open handles keep the old name.
RenameOnlyNodes(old, new, stuck, unput, stuckFhs) ==
    LET moved == {i \in DOMAIN nodes \ stuck : Covered(old, nodes[i].path)}
        dest(i) == Renamed(old, new, nodes[i].path)
        gone == {p \in DOMAIN paths : paths[p].ino \in moved} \cup {dest(i) : i \in moved}
        claimed == {dest(i) : i \in moved \ unput}
    IN /\ nodes' = [i \in DOMAIN nodes |-> IF i \in moved THEN [nodes[i] EXCEPT !.path = dest(i)] ELSE nodes[i]]
       /\ \E last \in [claimed -> moved \ unput] :
             /\ \A p \in claimed : dest(last[p]) = p
             /\ paths' = [p \in (DOMAIN paths \ gone) \cup claimed |->
                             IF p \in claimed THEN [ino |-> last[p], key |-> last[p]] ELSE paths[p]]
       /\ UNCHANGED opens

\* renameNodes: every covered node moves, except `stuck`, whose new path could
\* not be allocated; the destination names go to a moved node each, the last
\* one visited where two had one path, or to none when the put failed (`unput`).
\* Then every covered handle moves, but for those in `stuckFhs`.
RenameNodes(old, new, stuck, unput, stuckFhs) ==
    LET moved == {i \in DOMAIN nodes \ stuck : Covered(old, nodes[i].path)}
        dest(i) == Renamed(old, new, nodes[i].path)
        gone == {p \in DOMAIN paths : paths[p].ino \in moved} \cup {dest(i) : i \in moved}
        claimed == {dest(i) : i \in moved \ unput}
    IN /\ nodes' = [i \in DOMAIN nodes |-> IF i \in moved THEN [nodes[i] EXCEPT !.path = dest(i)] ELSE nodes[i]]
       /\ \E last \in [claimed -> moved \ unput] :
             /\ \A p \in claimed : dest(last[p]) = p
             /\ paths' = [p \in (DOMAIN paths \ gone) \cup claimed |->
                             IF p \in claimed THEN [ino |-> last[p], key |-> last[p]] ELSE paths[p]]
       /\ opens' = [h \in DOMAIN opens |->
                     IF h \notin stuckFhs /\ Covered(old, opens[h]) THEN Renamed(old, new, opens[h]) ELSE opens[h]]

\* Mutant: the replacement starts numbering afresh.
RestoreNumbers == nextIno' = 2 + Cardinality(DOMAIN nodes) /\ nextFh' = nextFh

\* snapNodes sorts by number; restoreMaps puts each path in that order, and a
\* put on an existing key keeps the first one's memory and the last one's number.
RestoreNext == nextIno' = nextIno /\ nextFh' = nextFh

RestoreMaps ==
    LET at(p) == {i \in DOMAIN nodes : nodes[i].path = p}
    IN /\ paths' = [p \in {nodes[i].path : i \in DOMAIN nodes} |-> [ino |-> Max(at(p)), key |-> Min(at(p))]]
       /\ RestoreNext
       /\ UNCHANGED <<nodes, opens>>

-------------------------------------------------------------------------------
(* The handlers.  Begin copies the paths out of the table; the kernel holds   *)
(* the directories of a create, unlink or rename, and names only inode        *)
(* numbers it has references to.                                              *)

Set(h, fields) == job' = [job EXCEPT ![h] = fields]
At(h, op, pc) == job[h].pc = pc /\ job[h].op \in op
Goto(h, pc) == Set(h, [job[h] EXCEPT !.pc = pc])
Done(h) == Set(h, Idle)
Counted == count < load.maxOps /\ count' = count + 1

\* Directories of running namespace operations.
Locked == {Front(q) : q \in UNION {{job[h].path, job[h].to} \ {<<>>} :
              h \in {g \in Handlers : job[g].op \in {"create", "mkdir", "unlink", "rename", "exchange"}}}}

Child(parent, name) == Append(PathForIno(parent), name)
Names == {Last(p) : p \in Paths}

Begin(h, op, first) ==
    /\ op \in load.ops /\ job[h] = Idle /\ Counted
    /\ \E parent \in {i \in Inos \cup {Root} : Held(i) /\ Resolves(i)}, name \in Names :
          /\ Child(parent, name) \in Paths
          /\ op = "lookup" \/ PathForIno(parent) \notin Locked
          /\ Set(h, Starting(op, first, Child(parent, name), <<>>, 0))
    /\ UNCHANGED <<load, tables, origin, kernel, ghosts, faults, handovers>>

\* The requests answered with an entry.
Entries == {"lookup", "create", "mkdir"}

Lookup(h) == Begin(h, "lookup", "stat")
Create(h) == Begin(h, "create", "make")
Mkdir(h) == Begin(h, "mkdir", "make")
Unlink(h) == Begin(h, "unlink", "remove")

Open(h) ==
    /\ "open" \in load.ops /\ job[h] = Idle /\ Counted
    /\ \E i \in {j \in Inos : Held(j) /\ Resolves(j)} :
          Set(h, Starting("open", "open", PathForIno(i), <<>>, i))
    /\ UNCHANGED <<load, tables, origin, kernel, ghosts, faults, handovers>>

\* Bound: a rename does not leave the paths of the instance.
Within(old, new) == \A p \in Paths : Covered(old, p) => Renamed(old, new, p) \in Paths

Rename(h) ==
    /\ job[h] = Idle /\ Counted
    /\ \E op \in load.ops \cap {"rename", "exchange"} :
       \E p, q \in {i \in Inos \cup {Root} : Held(i) /\ Resolves(i)}, n, m \in Names :
          /\ {Child(p, n), Child(q, m)} \subseteq Paths
          /\ ~IsPrefix(Child(p, n), Child(q, m)) /\ ~IsPrefix(Child(q, m), Child(p, n))
          /\ {PathForIno(p), PathForIno(q)} \cap Locked = {}
          /\ Within(Child(p, n), Child(q, m)) /\ (op = "exchange" => Within(Child(q, m), Child(p, n)))
          /\ Set(h, Starting(op, "move", Child(p, n), Child(q, m), 0))
    /\ UNCHANGED <<load, tables, origin, kernel, ghosts, faults, handovers>>

\* A name with names below it is a directory; what the others are is not kept.
Populated(p) == \E q \in DOMAIN fs : IsStrictPrefix(p, q)

\* mf_create: a new file, unless there is one; mf_mkdir: a new directory,
\* unless there is one.
Make(h) ==
    /\ At(h, {"create", "mkdir"}, "make")
    /\ LET p == job[h].path
           new == p \notin DOMAIN fs
           inside == Front(p) = <<>> \/ Front(p) \in DOMAIN fs
       IN \/ /\ inside
             /\ fs' = IF new THEN With(fs, p, nextObj) ELSE fs
             /\ nextObj' = IF new THEN nextObj + 1 ELSE nextObj
             /\ Goto(h, "stat")
          \/ /\ ~inside \/ (job[h].op = "mkdir" /\ ~new /\ ~Populated(p))
             /\ Done(h) /\ UNCHANGED origin
    /\ UNCHANGED <<load, tables, kernel, ghosts, count, faults, handovers>>

\* fillEntry's mf_getattr.
Stat(h) ==
    /\ At(h, Entries, "stat")
    /\ IF job[h].path \in DOMAIN fs
       THEN Set(h, [job[h] EXCEPT !.pc = "intern", !.obj = fs[job[h].path]])
       ELSE Done(h)
    /\ UNCHANGED <<load, tables, origin, kernel, ghosts, count, faults, handovers>>

\* fillEntry's internPath, or its ENOMEM.
Intern(h) ==
    /\ At(h, Entries, "intern")
    /\ \/ \E i \in Inos :
            /\ InternPath(job[h].path, i)
            /\ Set(h, [job[h] EXCEPT !.ino = i, !.pc = IF job[h].op = "create" THEN "remember" ELSE "reply"])
            /\ used' = used \cup {i}
            /\ UNCHANGED faults
       \/ /\ faults < load.maxFaults /\ faults' = faults + 1
          /\ Done(h)
          /\ UNCHANGED <<nodes, paths, nextIno, used>>
    /\ UNCHANGED <<load, opens, nextFh, origin, kernel, leaked, opened, torn, crossed, count, handovers>>

\* mf_open of the path copied before.
OpenFile(h) ==
    /\ At(h, {"open"}, "open")
    /\ IF job[h].path \in DOMAIN fs
       THEN Set(h, [job[h] EXCEPT !.pc = "remember", !.obj = fs[job[h].path]])
       ELSE Done(h)
    /\ UNCHANGED <<load, tables, origin, kernel, ghosts, count, faults, handovers>>

\* rememberOpen; without memory the handle is 0 and no record is kept.
Remember(h) ==
    /\ At(h, {"open", "create"}, "remember")
    /\ \/ /\ nextFh <= MaxFh
          /\ opens' = With(opens, nextFh, job[h].path)
          /\ nextFh' = nextFh + 1
          /\ opened' = [opened EXCEPT ![nextFh] = job[h].obj]
          /\ torn' = IF job[h].torn THEN torn \cup {nextFh} ELSE torn
          /\ Set(h, [job[h] EXCEPT !.pc = "reply", !.fh = nextFh])
          /\ UNCHANGED faults
       \/ /\ faults < load.maxFaults /\ faults' = faults + 1
          /\ Goto(h, "reply")
          /\ UNCHANGED <<opens, nextFh, opened, torn>>
    /\ UNCHANGED <<load, nodes, paths, nextIno, origin, kernel, leaked, used, crossed, count, handovers>>

\* The reply is taken: the kernel owns a reference for an entry, and a handle.
Reply(h) ==
    LET j == job[h]
        entry == j.op \in Entries
    IN /\ At(h, Entries \cup {"open"}, "reply")
       /\ refs' = IF entry THEN [refs EXCEPT ![j.ino] = @ + 1] ELSE refs
       /\ handles' = IF j.fh # 0 THEN With(handles, j.fh, j.ino) ELSE handles
       /\ Done(h)
       /\ UNCHANGED <<load, tables, origin, forgets, ghosts, count, faults, handovers>>

\* The request was interrupted: -ENOENT, and the acquisitions are undone.
ReplyLost(h) ==
    /\ At(h, Entries \cup {"open"}, "reply")
    /\ Goto(h, IF job[h].op \in {"create", "open"} THEN "close" ELSE "drop")
    /\ UNCHANGED <<load, tables, origin, kernel, ghosts, count, faults, handovers>>

UndoOpen(h) ==
    /\ At(h, {"create", "open"}, "close")
    /\ opens' = Without(opens, job[h].fh)
    /\ IF job[h].op = "create" THEN Set(h, [job[h] EXCEPT !.pc = "drop", !.fh = 0]) ELSE Done(h)
    /\ UNCHANGED <<load, nodes, paths, nextIno, nextFh, origin, kernel, ghosts, count, faults, handovers>>

\* Mutant: the reference of an undelivered entry is kept.
UndoNothing(h) ==
    /\ At(h, Entries, "drop")
    /\ Done(h)
    /\ UNCHANGED <<load, tables, origin, kernel, ghosts, count, faults, handovers>>

UndoLookup(h) ==
    /\ At(h, Entries, "drop")
    /\ DropLookup(job[h].ino, 1)
    /\ Done(h)
    /\ UNCHANGED <<load, opens, nextIno, nextFh, origin, kernel, ghosts, count, faults, handovers>>

\* mf_unlink: the tables keep the name until the kernel forgets it.
RemoveFile(h) ==
    /\ At(h, {"unlink"}, "remove")
    /\ fs' = IF Populated(job[h].path) THEN fs ELSE Without(fs, job[h].path)
    /\ Done(h)
    /\ UNCHANGED <<load, tables, nextObj, kernel, ghosts, count, faults, handovers>>

Moved(old, new) ==
    LET kept == {p \in DOMAIN fs : ~IsPrefix(old, p) /\ ~IsPrefix(new, p)}
        from(p) == Renamed(new, old, p)
        moved == {p \in Paths : IsPrefix(new, p) /\ from(p) \in DOMAIN fs}
    IN [p \in kept \cup moved |-> IF p \in moved THEN fs[from(p)] ELSE fs[p]]

Exchanged(old, new) ==
    LET other(p) == IF IsPrefix(old, p) THEN Renamed(old, new, p)
                    ELSE IF IsPrefix(new, p) THEN Renamed(new, old, p) ELSE p
    IN [p \in {q \in Paths : other(q) \in DOMAIN fs} |-> fs[other(p)]]

\* A handler that has copied a path under `old` and recorded no handle yet.
Opening(g, old) ==
    /\ job[g].op \in {"open", "create"} /\ job[g].pc \in {"open", "make", "stat", "intern", "remember"}
    /\ Covered(old, job[g].path)

\* Other renames of the origin whose tables are still to follow, and that
\* name a path above or below one of h's.  Such renames reach the tables in
\* either order, and are torn: the handles their tables move are not judged.
Crossing(h) ==
    {g \in Handlers \ {h} : job[g].pc = "tables" /\
        \E p \in {job[h].path, job[h].to}, q \in {job[g].path, job[g].to} : Covered(p, q) \/ Covered(q, p)}

\* mf_rename on the origin.  An exchange leaves the tables alone: a handle stays
\* with its name, not with what it was opened on.
Move(h) ==
    LET old == job[h].path
        new == job[h].to
        plain == job[h].op = "rename"
        ok == /\ old \in DOMAIN fs /\ (Front(new) = <<>> \/ Front(new) \in DOMAIN fs)
              /\ plain \/ new \in DOMAIN fs
              /\ ~plain \/ ~Populated(new)
        swapped == ok /\ ~plain
        crossing == IF ok THEN Crossing(h) ELSE {}
    IN /\ At(h, {"rename", "exchange"}, "move")
       /\ fs' = IF ~ok THEN fs ELSE IF plain THEN Moved(old, new) ELSE Exchanged(old, new)
       /\ job' = [g \in Handlers |->
                     IF g # h THEN [job[g] EXCEPT !.torn = @ \/ g \in crossing
                                       \/ (swapped /\ (Opening(g, old) \/ Opening(g, new)))]
                     ELSE IF ok /\ plain THEN [job[h] EXCEPT !.pc = "tables", !.torn = crossing # {}] ELSE Idle]
       /\ crossed' = IF swapped THEN crossed \cup {f \in DOMAIN opens : Covered(old, opens[f]) \/ Covered(new, opens[f])}
                     ELSE crossed
       /\ UNCHANGED <<load, tables, nextObj, kernel, leaked, used, opened, torn, count, faults, handovers>>

\* renameOrigin takes a missing source beside an existing destination for a
\* retry of a rename that landed: nothing moves, and the tables follow all the
\* same.
Converge(h) ==
    /\ At(h, {"rename"}, "move")
    /\ ~\E p \in DOMAIN fs : Covered(job[h].path, p)
    /\ job[h].to \in DOMAIN fs /\ ~Populated(job[h].to)
    /\ job' = [g \in Handlers |->
                  IF g # h THEN [job[g] EXCEPT !.torn = @ \/ g \in Crossing(h)]
                  ELSE [job[h] EXCEPT !.pc = "tables", !.torn = Crossing(h) # {}]]
    /\ UNCHANGED <<load, tables, origin, kernel, ghosts, count, faults, handovers>>

\* renameNodes, with at most one allocation failing.
Tables(h) ==
    /\ At(h, {"rename"}, "tables")
    /\ \/ RenameNodes(job[h].path, job[h].to, {}, {}, {}) /\ UNCHANGED faults
       \/ /\ faults < load.maxFaults /\ faults' = faults + 1
          /\ \/ \E i \in DOMAIN nodes : \/ RenameNodes(job[h].path, job[h].to, {i}, {}, {})
                                        \/ RenameNodes(job[h].path, job[h].to, {}, {i}, {})
             \/ \E f \in DOMAIN opens : RenameNodes(job[h].path, job[h].to, {}, {}, {f})
    /\ job' = [g \in Handlers |-> IF g = h THEN Idle
                                  ELSE [job[g] EXCEPT !.torn = @ \/ Opening(g, job[h].path)]]
    /\ crossed' = IF job[h].torn THEN crossed \cup {f \in DOMAIN opens : Covered(job[h].path, opens[f])} ELSE crossed
    /\ UNCHANGED <<load, nextIno, nextFh, origin, kernel, leaked, used, opened, torn, count, handovers>>

\* The kernel evicts an inode and gives back every reference to it.
Evict(i) ==
    /\ refs[i] > 0 /\ forgets[i] = 0 /\ i \notin Range(handles)
    /\ ~\E h \in Handlers : job[h].op = "open" /\ job[h].ino = i
    /\ forgets' = [forgets EXCEPT ![i] = refs[i]] /\ refs' = [refs EXCEPT ![i] = 0]
    /\ UNCHANGED <<load, tables, job, origin, handles, ghosts, count, faults, handovers>>

Forget(i) ==
    /\ forgets[i] > 0
    /\ DropLookup(i, forgets[i])
    /\ forgets' = [forgets EXCEPT ![i] = 0]
    /\ UNCHANGED <<load, opens, nextIno, nextFh, job, origin, refs, handles, ghosts, count, faults, handovers>>

Release(f) ==
    /\ f \in DOMAIN handles
    /\ handles' = Without(handles, f) /\ opens' = Without(opens, f)
    /\ UNCHANGED <<load, nodes, paths, nextIno, nextFh, job, origin, refs, forgets, ghosts, count, faults, handovers>>

\* snapNodes, snapOpens, restoreMaps: no handler is running.  A FORGET the
\* exiting session had read and dropped never reaches either image.
Handover ==
    /\ handovers < load.maxHandovers /\ handovers' = handovers + 1
    /\ \A h \in Handlers : job[h] = Idle
    /\ RestoreMaps
    /\ \E lost \in SUBSET {i \in Inos : forgets[i] > 0} :
          /\ leaked' = [i \in Inos |-> leaked[i] + IF i \in lost THEN forgets[i] ELSE 0]
          /\ forgets' = [i \in Inos |-> IF i \in lost THEN 0 ELSE forgets[i]]
    /\ UNCHANGED <<load, job, origin, refs, handles, used, opened, torn, crossed, count, faults>>

Next ==
    \/ \E h \in Handlers :
          \/ Lookup(h) \/ Create(h) \/ Mkdir(h) \/ Unlink(h) \/ Open(h) \/ Rename(h)
          \/ Make(h) \/ Stat(h) \/ Intern(h) \/ OpenFile(h) \/ Remember(h) \/ Reply(h) \/ ReplyLost(h)
          \/ UndoOpen(h) \/ UndoLookup(h) \/ RemoveFile(h) \/ Move(h) \/ Converge(h) \/ Tables(h)
    \/ \E i \in Inos : Evict(i) \/ Forget(i)
    \/ \E f \in Fhs : Release(f)
    \/ Handover

Spec == Init /\ [][Next]_vars

-------------------------------------------------------------------------------
(* Properties.                                                               *)

\* Handlers that have interned number i and not yet delivered or undone it.
Holding(i) ==
    {h \in Handlers : job[h].op \in Entries /\ job[h].ino = i}

\* internPath, dropLookup, the rollbacks and the handover: a node's lookup
\* count is exactly what the kernel holds or has sent back, plus replies on
\* their way; so a number the kernel may still name always resolves, and
\* nothing but a FORGET lost with the old image keeps a node behind.
LookupsBalanced ==
    \A i \in Inos :
        (IF i \in DOMAIN nodes THEN nodes[i].nlookup ELSE 0)
            = refs[i] + forgets[i] + leaked[i] + Cardinality(Holding(i))

\* State.Node: a path is owned by its node and aliased as the `paths` key, so
\* a key must be the present path of a live node, and the number it resolves
\* to must be one: internPath dereferences it.
KeysAliased ==
    \A p \in DOMAIN paths :
        LET e == paths[p] IN {e.key, e.ino} \subseteq DOMAIN nodes /\ nodes[e.key].path = p

\* rememberOpen, forgetOpen and the rollbacks: the table holds a record for
\* exactly the handles the kernel will release, and those being replied.
HandlesRecorded ==
    DOMAIN opens = DOMAIN handles \cup ({job[h].fh : h \in Handlers} \ {0})

Renaming == \E h \in Handlers : job[h].pc = "tables"
Where(o) == {p \in DOMAIN fs : fs[p] = o}

\* pathForFh: a rename between open and I/O moves the handle with the name.
\* Outside a rename, a record names the file it was opened on as long as that
\* file has a name.
HandlesFollow ==
    ~Renaming /\ faults = 0 => \A f \in DOMAIN opens : Where(opened[f]) \subseteq {opens[f]}

\* renameNodes and rememberOpen: the same for a handle whose path was not
\* already copied, and its record not yet made, when a rename or exchange ran.
HandlesFollowRenames ==
    ~Renaming /\ faults = 0 => \A f \in DOMAIN opens \ torn : Where(opened[f]) \subseteq {opens[f]}

\* renameNodes: the same, unless its record was moved by one of two renames of
\* paths above one another that were under way at once, or an exchange swapped
\* the name.
HandlesFollowUnraced ==
    ~Renaming /\ faults = 0 => \A f \in DOMAIN opens \ (torn \cup crossed) : Where(opened[f]) \subseteq {opens[f]}

\* Both halves, of the handle table.
HandlesSound == HandlesRecorded /\ HandlesFollowUnraced

\* dropLookup: an inode number is never reused, so a stale request naming it
\* can only answer ENOENT, never a different file; also across a handover.
NumbersNeverReused == [][DOMAIN nodes' \ DOMAIN nodes \subseteq Inos \ used]_vars
===============================================================================
