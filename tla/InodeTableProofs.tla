--------------------------- MODULE InodeTableProofs ---------------------------
(***************************************************************************)
(* Proofs about InodeTable, for any handlers, paths and loads: the lookup  *)
(* counts balance, numbers are never reused, the handle table holds what   *)
(* the kernel will release, and the keys of the path map are owned.        *)
(*                                                                         *)
(* TableInv types the tables, says at which step a handler holds what      *)
(* (Jobs) and that every number in use was handed out (Numbers).  The      *)
(* counting lemmas (Count, Holds, OneHolder) carry the balance of lookups, *)
(* Handles that of handles and opens, Keys the ownership of map keys.      *)
(***************************************************************************)
EXTENDS InodeTable, FiniteSetTheorems, TLAPS

OpNames == {"none", "lookup", "create", "mkdir", "open", "unlink", "rename", "exchange"}
PcNames == {"idle", "stat", "make", "intern", "remember", "reply", "close", "drop", "open", "remove", "move", "tables"}
NodeType == [path : Paths, nlookup : Nat \ {0}]
KeyType == [ino : Inos, key : Inos]
JobType ==
    [op : OpNames, pc : PcNames, path : Paths \cup {<<>>}, to : Paths \cup {<<>>}, ino : Inos \cup {0},
     fh : Fhs \cup {0}, obj : Nat, torn : BOOLEAN]

Types ==
    /\ load \in LoadType
    /\ DOMAIN nodes \subseteq Inos /\ nodes \in [DOMAIN nodes -> NodeType]
    /\ DOMAIN paths \subseteq Paths /\ paths \in [DOMAIN paths -> KeyType]
    /\ DOMAIN opens \subseteq Fhs /\ opens \in [DOMAIN opens -> Paths]
    /\ nextIno \in Nat /\ nextIno >= 2 /\ nextFh \in Nat \ {0}
    /\ job \in [Handlers -> JobType]
    /\ DOMAIN fs \subseteq Paths /\ fs \in [DOMAIN fs -> Nat] /\ nextObj \in Nat
    /\ refs \in [Inos -> Nat] /\ forgets \in [Inos -> Nat] /\ leaked \in [Inos -> Nat]
    /\ DOMAIN handles \subseteq Fhs /\ handles \in [DOMAIN handles -> Inos \cup {0}]
    /\ used \subseteq Inos /\ opened \in [Fhs -> Nat]

\* What a handler holds at each of its steps.
JobOk(j) ==
    /\ j.op \in {"none", "unlink", "rename", "exchange"} => j.ino = 0
    /\ j.op \in Entries => (j.ino = 0 <=> j.pc \in {"make", "stat", "intern"})
    /\ j.op = "open" => j.ino # 0
    /\ j.fh # 0 => j.pc \in {"reply", "close"} /\ j.op \in {"create", "open"}
    /\ j.op # "none" => j.path \in Paths
    /\ j.op \in {"rename", "exchange"} => j.to \in Paths /\ Within(j.path, j.to)
    /\ j.op = "none" <=> j.pc = "idle"

Jobs == \A h \in Handlers : JobOk(job[h])

\* Numbers given out are below the next one, and a name resolves to a node of
\* that name.
Numbers ==
    /\ DOMAIN nodes \cup used \subseteq 2..(nextIno - 1)
    /\ DOMAIN nodes \subseteq used
    /\ \A p \in DOMAIN paths : paths[p].ino \in DOMAIN nodes /\ nodes[paths[p].ino].path = p

TableInv == Types /\ Jobs /\ Numbers

\* A handle is the kernel's or one handler's, and was given out.
Handles ==
    /\ HandlesRecorded
    /\ \A f \in DOMAIN opens : f < nextFh
    /\ \A h \in Handlers : job[h].fh # 0 =>
          job[h].fh \notin DOMAIN handles /\ \A g \in Handlers : job[g].fh = job[h].fh => g = h

\* A name is aliased from the node it resolves to, until a handover maps it
\* anew; where nothing is renamed, a node is the only one of its name.
NoRename == "rename" \notin load.ops
Keys ==
    /\ handovers \in Nat
    /\ \A h \in Handlers : job[h].op = "rename" => ~NoRename
    /\ (handovers = 0 \/ NoRename) => \A p \in DOMAIN paths : paths[p].key = paths[p].ino
    /\ NoRename => \A i \in DOMAIN nodes : nodes[i].path \in DOMAIN paths /\ paths[nodes[i].path].ino = i

USE DEF tables, origin, kernel, ghosts, OpNames, PcNames, Entries, Set, At, Goto, Done, NodeType, KeyType

-----------------------------------------------------------------------------
(* Jobs.                                                                     *)

LEMMA JobFields ==
    \A j \in JobType :
        /\ j.op \in OpNames /\ j.pc \in PcNames /\ j.path \in Paths \cup {<<>>} /\ j.to \in Paths \cup {<<>>}
        /\ j.ino \in Inos \cup {0} /\ j.fh \in Fhs \cup {0} /\ j.obj \in Nat /\ j.torn \in BOOLEAN
  BY DEF JobType

LEMMA IdleJob ==
    /\ Idle \in JobType /\ JobOk(Idle)
    /\ Idle.op = "none" /\ Idle.pc = "idle" /\ Idle.ino = 0 /\ Idle.fh = 0
  BY DEF Idle, Starting, JobType, JobOk

LEMMA JobSet ==
    ASSUME Types, Jobs, NEW h \in Handlers, NEW r \in JobType, JobOk(r), Set(h, r)
    PROVE  /\ job' \in [Handlers -> JobType] /\ Jobs'
           /\ job'[h] = r /\ \A g \in Handlers \ {h} : job'[g] = job[g]
  BY DEF Types, Jobs

-----------------------------------------------------------------------------
(* The operations of the tables.                                             *)

\* internPath: a node of the path, with one reference more; a node it makes
\* has the next number.
LEMMA Interned ==
    ASSUME Types, Numbers, NEW p \in Paths, NEW i \in Inos, InternPath(p, i)
    PROVE  /\ nodes' \in [DOMAIN nodes \cup {i} -> NodeType] /\ paths' \in [DOMAIN paths \cup {p} -> KeyType]
           /\ \A j \in DOMAIN nodes \ {i} : nodes'[j] = nodes[j]
           /\ nodes'[i].path = p
           /\ nodes'[i].nlookup = 1 + (IF i \in DOMAIN nodes THEN nodes[i].nlookup ELSE 0)
           /\ paths'[p].ino = i /\ \A q \in DOMAIN paths \ {p} : paths'[q] = paths[q]
           /\ IF p \in DOMAIN paths THEN paths'[p] = paths[p] ELSE paths'[p].key = i
           /\ i \notin DOMAIN nodes => i = nextIno
           /\ i \in DOMAIN nodes => nodes[i].path = p
           /\ nextIno' \in Nat /\ nextIno' >= nextIno /\ i < nextIno'
PROOF
  <1>1. CASE p \in DOMAIN paths
    <2>1. /\ i = paths[p].ino /\ i \in DOMAIN nodes /\ nodes[i].path = p /\ i < nextIno
          /\ nodes' = [nodes EXCEPT ![i].nlookup = @ + 1] /\ UNCHANGED <<paths, nextIno>>
      BY <1>1 DEF InternPath, Numbers, Inos, Types
    <2>2. /\ nodes' \in [DOMAIN nodes -> NodeType] /\ nodes'[i].path = p
          /\ nodes'[i].nlookup = 1 + nodes[i].nlookup /\ \A j \in DOMAIN nodes \ {i} : nodes'[j] = nodes[j]
      BY <2>1 DEF Types
    <2>3. DOMAIN nodes \cup {i} = DOMAIN nodes /\ DOMAIN paths \cup {p} = DOMAIN paths
      BY <1>1, <2>1
    <2>4. paths' \in [DOMAIN paths \cup {p} -> KeyType]
      BY <2>1, <2>3 DEF Types
    <2> QED  BY <1>1, <2>1, <2>2, <2>3, <2>4 DEF Types
  <1>2. CASE p \notin DOMAIN paths
    <2>1. /\ i = nextIno /\ i \notin DOMAIN nodes /\ nextIno' = nextIno + 1
          /\ nodes' = With(nodes, i, [path |-> p, nlookup |-> 1])
          /\ paths' = With(paths, p, [ino |-> i, key |-> i])
      BY <1>2 DEF InternPath, Numbers, Inos, Types
    <2> QED  BY <1>2, <2>1 DEF With, Types
  <1> QED  BY <1>1, <1>2

\* dropLookup: the node goes exactly when its count would reach zero, and with
\* it the name that resolves to it.
LEMMA Dropped ==
    ASSUME Types, Numbers, NEW i \in Inos, NEW n \in Nat, DropLookup(i, n)
    PROVE  /\ DOMAIN nodes' \subseteq DOMAIN nodes /\ nodes' \in [DOMAIN nodes' -> NodeType]
           /\ \A j \in DOMAIN nodes \ {i} : j \in DOMAIN nodes' /\ nodes'[j] = nodes[j]
           /\ \A j \in DOMAIN nodes' : nodes'[j].path = nodes[j].path
           /\ i \in DOMAIN nodes =>
                IF nodes[i].nlookup > n THEN i \in DOMAIN nodes' /\ nodes'[i].nlookup = nodes[i].nlookup - n
                ELSE i \notin DOMAIN nodes'
           /\ DOMAIN paths' \subseteq DOMAIN paths /\ paths' \in [DOMAIN paths' -> KeyType]
           /\ \A q \in DOMAIN paths' : paths'[q] = paths[q] /\ paths'[q].ino \in DOMAIN nodes'
PROOF
  <1>1. CASE i \notin DOMAIN nodes
    BY <1>1 DEF DropLookup, Types, Numbers
  <1>2. CASE i \in DOMAIN nodes /\ nodes[i].nlookup > n
    <2>1. nodes' = [nodes EXCEPT ![i].nlookup = @ - n] /\ UNCHANGED paths
      BY <1>2 DEF DropLookup
    <2>2. nodes[i] \in NodeType /\ nodes[i].nlookup - n \in Nat \ {0}
      BY <1>2 DEF Types
    <2> QED  BY <1>2, <2>1, <2>2 DEF Types, Numbers
  <1>3. CASE i \in DOMAIN nodes /\ ~(nodes[i].nlookup > n)
    <2> DEFINE p == nodes[i].path
    <2>1. /\ nodes' = Without(nodes, i)
          /\ paths' = IF p \in DOMAIN paths /\ paths[p].ino = i THEN Without(paths, p) ELSE paths
      BY <1>3 DEF DropLookup
    <2>2. \A q \in DOMAIN paths' : q \in DOMAIN paths /\ paths'[q] = paths[q] /\ paths[q].ino # i
      BY <2>1 DEF Without, Numbers
    <2>3. paths' \in [DOMAIN paths' -> KeyType]
      BY <2>1 DEF Without, Types
    <2> QED  BY <1>3, <2>1, <2>2, <2>3 DEF Without, Types, Numbers
  <1> QED  BY <1>1, <1>2, <1>3

\* renameNodes: nodes and handles keep their numbers and counts, and a name
\* still resolves to a node of that name; a key it sets is its node's.
LEMMA NodesRenamed ==
    ASSUME Types, Numbers, NEW old \in Paths, NEW new \in Paths, Within(old, new),
           NEW stuck, NEW unput, NEW stuckFhs, RenameNodes(old, new, stuck, unput, stuckFhs)
    PROVE  /\ nodes' \in [DOMAIN nodes -> NodeType]
           /\ \A i \in DOMAIN nodes : nodes'[i].nlookup = nodes[i].nlookup
           /\ DOMAIN paths' \subseteq Paths /\ paths' \in [DOMAIN paths' -> KeyType]
           /\ \A p \in DOMAIN paths' : paths'[p].ino \in DOMAIN nodes /\ nodes'[paths'[p].ino].path = p
           /\ \A p \in DOMAIN paths' : paths'[p].key = paths'[p].ino \/ (p \in DOMAIN paths /\ paths'[p] = paths[p])
           /\ opens' \in [DOMAIN opens -> Paths]
PROOF
  <1> DEFINE moved == {i \in DOMAIN nodes \ stuck : Covered(old, nodes[i].path)}
             dest(i) == Renamed(old, new, nodes[i].path)
             gone == {p \in DOMAIN paths : paths[p].ino \in moved} \cup {dest(i) : i \in moved}
             claimed == {dest(i) : i \in moved \ unput}
  <1>1. nodes' = [i \in DOMAIN nodes |-> IF i \in moved THEN [nodes[i] EXCEPT !.path = dest(i)] ELSE nodes[i]]
    BY DEF RenameNodes
  <1>2. PICK last \in [claimed -> moved \ unput] :
           /\ \A p \in claimed : dest(last[p]) = p
           /\ paths' = [p \in (DOMAIN paths \ gone) \cup claimed |->
                           IF p \in claimed THEN [ino |-> last[p], key |-> last[p]] ELSE paths[p]]
    BY DEF RenameNodes
  <1>3. \A i \in moved : dest(i) \in Paths
    BY DEF Within, Types
  <1> HIDE DEF dest
  <1>4. \A i \in DOMAIN nodes : nodes[i] \in NodeType /\ i \in Inos
    BY DEF Types
  <1>5. \A i \in DOMAIN nodes : /\ nodes'[i] \in NodeType /\ nodes'[i].nlookup = nodes[i].nlookup
                                /\ nodes'[i].path = IF i \in moved THEN dest(i) ELSE nodes[i].path
    BY <1>1, <1>3, <1>4
  <1>6. nodes' \in [DOMAIN nodes -> NodeType]
    BY <1>1, <1>5
  <1>7. \A p \in DOMAIN paths' : p \in claimed \/ p \in DOMAIN paths \ gone
    BY <1>2
  <1>8. \A p \in claimed : /\ p \in Paths /\ paths'[p] = [ino |-> last[p], key |-> last[p]]
                           /\ last[p] \in moved /\ dest(last[p]) = p
    BY <1>2, <1>3
  <1>9. \A p \in DOMAIN paths \ gone : p \in claimed \/ (paths'[p] = paths[p] /\ paths[p].ino \notin moved)
    BY <1>2
  <1> HIDE DEF moved, gone, claimed
  <1>10. DOMAIN paths' \subseteq Paths
    BY <1>7, <1>8 DEF Types
  <1>11. ASSUME NEW p \in DOMAIN paths'
         PROVE  /\ paths'[p] \in KeyType /\ paths'[p].ino \in DOMAIN nodes /\ nodes'[paths'[p].ino].path = p
                /\ paths'[p].key = paths'[p].ino \/ (p \in DOMAIN paths /\ paths'[p] = paths[p])
    <2>1. CASE p \in claimed
      <3>1. last[p] \in DOMAIN nodes /\ last[p] \in Inos
        BY <2>1, <1>4, <1>8 DEF moved
      <3>2. paths'[p] = [ino |-> last[p], key |-> last[p]]
        BY <2>1, <1>8
      <3>3. paths'[p] \in KeyType /\ paths'[p].ino = last[p] /\ paths'[p].key = last[p]
        BY <3>1, <3>2
      <3>4. nodes'[last[p]].path = p
        BY <2>1, <3>1, <1>5, <1>8
      <3> QED  BY <3>1, <3>3, <3>4
    <2>2. CASE p \notin claimed
      <3>1. p \in DOMAIN paths /\ paths'[p] = paths[p] /\ paths[p].ino \notin moved
        BY <2>2, <1>7, <1>9
      <3>2. paths[p] \in KeyType /\ paths[p].ino \in DOMAIN nodes /\ nodes[paths[p].ino].path = p
        BY <3>1 DEF Types, Numbers
      <3>3. nodes'[paths[p].ino].path = p
        BY <3>1, <3>2, <1>5
      <3> QED  BY <3>1, <3>2, <3>3
    <2> QED  BY <2>1, <2>2
  <1>12. paths' \in [DOMAIN paths' -> KeyType]
    BY <1>2, <1>11
  <1>15. opens' \in [DOMAIN opens -> Paths]
    BY DEF RenameNodes, Within, Types
  <1> QED  BY <1>5, <1>6, <1>10, <1>11, <1>12, <1>15

-----------------------------------------------------------------------------
(* TableInv, action by action.                                               *)

\* A handler that only moves on leaves the tables as they were.
LEMMA TablesKept ==
    ASSUME TableInv, UNCHANGED <<load, tables, origin, kernel, ghosts>>, job' \in [Handlers -> JobType], Jobs'
    PROVE  TableInv'
  BY DEF TableInv, Types, Numbers

\* What the kernel starts, and on what.
LEMMA Begun ==
    ASSUME TableInv, NEW h \in Handlers,
           Lookup(h) \/ Create(h) \/ Mkdir(h) \/ Unlink(h) \/ Open(h) \/ Rename(h)
    PROVE  \E r \in JobType : /\ Set(h, r) /\ JobOk(r) /\ job[h] = Idle /\ r.fh = 0 /\ r.torn = FALSE
                              /\ r.op \in Entries => r.ino = 0
PROOF
  <1>1. CASE Lookup(h) \/ Create(h) \/ Mkdir(h) \/ Unlink(h)
    <2>1. PICK p \in Paths, op \in {"lookup", "create", "mkdir", "unlink"}, pc \in {"stat", "make", "remove"} :
             /\ Set(h, Starting(op, pc, p, <<>>, 0)) /\ job[h] = Idle
             /\ op = "lookup" => pc = "stat"
             /\ op \in {"create", "mkdir"} => pc = "make"
      BY <1>1 DEF Lookup, Create, Mkdir, Unlink, Begin
    <2> DEFINE r == Starting(op, pc, p, <<>>, 0)
    <2>2. r \in JobType /\ r.pc = pc /\ r.op = op /\ r.path = p /\ r.to = <<>> /\ r.ino = 0 /\ r.fh = 0 /\ r.torn = FALSE
      BY <2>1 DEF Starting, JobType
    <2> HIDE DEF r
    <2>3. JobOk(r)
      BY <2>1, <2>2 DEF JobOk
    <2> QED  BY <2>1, <2>2, <2>3 DEF r
  <1>2. CASE Open(h)
    <2>1. PICK i \in {j \in Inos : Held(j) /\ Resolves(j)} :
             Set(h, Starting("open", "open", PathForIno(i), <<>>, i)) /\ job[h] = Idle
      BY <1>2 DEF Open
    <2> DEFINE r == Starting("open", "open", PathForIno(i), <<>>, i)
    <2>2. i \in Inos /\ i # Root /\ i # 0
      BY DEF Inos, Root
    <2>3. PathForIno(i) \in Paths
      BY <2>1, <2>2 DEF Resolves, PathForIno, TableInv, Types
    <2>4. /\ r \in JobType /\ r.pc = "open" /\ r.op = "open" /\ r.path = PathForIno(i) /\ r.to = <<>> /\ r.ino = i
          /\ r.fh = 0 /\ r.torn = FALSE
      BY <2>2, <2>3 DEF Starting, JobType
    <2> HIDE DEF r
    <2>5. JobOk(r)
      BY <2>2, <2>3, <2>4 DEF JobOk
    <2> QED  BY <2>1, <2>4, <2>5 DEF r
  <1>3. CASE Rename(h)
    <2>1. PICK op \in {"rename", "exchange"}, p \in Paths, q \in Paths :
             Within(p, q) /\ Set(h, Starting(op, "move", p, q, 0)) /\ job[h] = Idle
      <3>1. PICK op \in load.ops \cap {"rename", "exchange"},
                 p, q \in {i \in Inos \cup {Root} : Held(i) /\ Resolves(i)}, n, m \in Names :
               /\ {Child(p, n), Child(q, m)} \subseteq Paths
               /\ ~IsPrefix(Child(p, n), Child(q, m)) /\ ~IsPrefix(Child(q, m), Child(p, n))
               /\ {PathForIno(p), PathForIno(q)} \cap Locked = {}
               /\ Within(Child(p, n), Child(q, m)) /\ (op = "exchange" => Within(Child(q, m), Child(p, n)))
               /\ Set(h, Starting(op, "move", Child(p, n), Child(q, m), 0))
        BY <1>3 DEF Rename
      <3>2. op \in {"rename", "exchange"} /\ Child(p, n) \in Paths /\ Child(q, m) \in Paths
        BY <3>1
      <3>3. job[h] = Idle
        BY <1>3 DEF Rename
      <3> QED  BY <3>1, <3>2, <3>3
    <2> DEFINE r == Starting(op, "move", p, q, 0)
    <2>2. /\ r \in JobType /\ r.pc = "move" /\ r.op = op /\ r.path = p /\ r.to = q /\ r.ino = 0
          /\ r.fh = 0 /\ r.torn = FALSE
      BY <2>1 DEF Starting, JobType
    <2> HIDE DEF r
    <2>3. JobOk(r)
      BY <2>1, <2>2 DEF JobOk
    <2> QED  BY <2>1, <2>2, <2>3 DEF r
  <1> QED  BY <1>1, <1>2, <1>3

\* A handler that leaves its job.
LEMMA JobDone ==
    ASSUME Types, Jobs, NEW h \in Handlers, Done(h)
    PROVE  /\ job' \in [Handlers -> JobType] /\ Jobs'
           /\ job'[h] = Idle /\ \A g \in Handlers \ {h} : job'[g] = job[g]
  BY IdleJob, JobSet

LEMMA StepBegin ==
    ASSUME TableInv, NEW h \in Handlers,
           Lookup(h) \/ Create(h) \/ Mkdir(h) \/ Unlink(h) \/ Open(h) \/ Rename(h)
    PROVE  TableInv'
PROOF
  <1>1. UNCHANGED <<load, tables, origin, kernel, ghosts>>
    BY DEF Lookup, Create, Mkdir, Unlink, Begin, Open, Rename
  <1>2. PICK r \in JobType : Set(h, r) /\ JobOk(r)
    BY Begun
  <1>3. job' \in [Handlers -> JobType] /\ Jobs'
    BY <1>2, JobSet DEF TableInv
  <1> QED  BY <1>1, <1>3, TablesKept

LEMMA StepSees ==
    ASSUME TableInv, NEW h \in Handlers, Stat(h) \/ OpenFile(h)
    PROVE  TableInv'
PROOF
  <1>1. UNCHANGED <<load, tables, origin, kernel, ghosts>>
    BY DEF Stat, OpenFile
  <1>2. CASE Done(h)
    BY <1>1, <1>2, JobDone, TablesKept DEF TableInv
  <1>3. CASE ~Done(h)
    <2>1. PICK pc \in {"intern", "remember"} :
             /\ Set(h, [job[h] EXCEPT !.pc = pc, !.obj = fs[job[h].path]]) /\ job[h].path \in DOMAIN fs
             /\ pc = "intern" => job[h].op \in Entries /\ job[h].pc = "stat"
             /\ pc = "remember" => job[h].op = "open" /\ job[h].pc = "open"
      BY <1>3 DEF Stat, OpenFile
    <2> DEFINE r == [job[h] EXCEPT !.pc = pc, !.obj = fs[job[h].path]]
    <2>2. job[h] \in JobType /\ fs[job[h].path] \in Nat /\ pc \in PcNames
      BY <2>1 DEF TableInv, Types
    <2>3. r \in JobType /\ r.pc = pc /\ r.op = job[h].op /\ r.path = job[h].path /\ r.to = job[h].to
          /\ r.ino = job[h].ino /\ r.fh = job[h].fh
      BY <2>2 DEF JobType
    <2> HIDE DEF r
    <2>4. JobOk(r)
      BY <2>1, <2>3 DEF TableInv, Jobs, JobOk
    <2>5. job' \in [Handlers -> JobType] /\ Jobs'
      BY <2>1, <2>3, <2>4, JobSet DEF TableInv, r
    <2> QED  BY <1>1, <2>5, TablesKept
  <1> QED  BY <1>2, <1>3

LEMMA StepReplyLost ==
    ASSUME TableInv, NEW h \in Handlers, ReplyLost(h)
    PROVE  TableInv'
PROOF
  <1> DEFINE pc == IF job[h].op \in {"create", "open"} THEN "close" ELSE "drop"
             r == [job[h] EXCEPT !.pc = pc]
  <1>1. UNCHANGED <<load, tables, origin, kernel, ghosts>> /\ Set(h, r) /\ job[h].pc = "reply"
        /\ job[h].op \in Entries \cup {"open"}
    BY DEF ReplyLost
  <1>2. job[h] \in JobType /\ pc \in PcNames
    BY DEF TableInv, Types
  <1>3. r \in JobType /\ r.pc = pc /\ r.op = job[h].op /\ r.path = job[h].path /\ r.to = job[h].to
        /\ r.ino = job[h].ino /\ r.fh = job[h].fh
    BY <1>2 DEF JobType
  <1> HIDE DEF r
  <1>4. JobOk(r)
    BY <1>1, <1>3 DEF TableInv, Jobs, JobOk
  <1>5. job' \in [Handlers -> JobType] /\ Jobs'
    BY <1>1, <1>3, <1>4, JobSet DEF TableInv
  <1> QED  BY <1>1, <1>5, TablesKept

LEMMA StepMake ==
    ASSUME TableInv, NEW h \in Handlers, Make(h)
    PROVE  TableInv'
PROOF
  <1>1. UNCHANGED <<load, tables, kernel, ghosts>>
    BY DEF Make
  <1>2. job' \in [Handlers -> JobType] /\ Jobs'
    <2>1. CASE Done(h)
      BY <2>1, JobDone DEF TableInv
    <2>2. CASE Goto(h, "stat")
      <3> DEFINE r == [job[h] EXCEPT !.pc = "stat"]
      <3>1. job[h] \in JobType /\ job[h].op \in {"create", "mkdir"} /\ job[h].pc = "make"
        BY DEF Make, TableInv, Types
      <3>2. r \in JobType /\ r.pc = "stat" /\ r.op = job[h].op /\ r.path = job[h].path /\ r.to = job[h].to
            /\ r.ino = job[h].ino /\ r.fh = job[h].fh
        BY <3>1 DEF JobType
      <3> HIDE DEF r
      <3>3. JobOk(r)
        BY <3>1, <3>2 DEF TableInv, Jobs, JobOk
      <3> QED  BY <2>2, <3>2, <3>3, JobSet DEF TableInv, r
    <2> QED  BY <2>1, <2>2 DEF Make
  <1>3. /\ DOMAIN fs' \subseteq Paths /\ fs' \in [DOMAIN fs' -> Nat] /\ nextObj' \in Nat
    <2>1. job[h].path \in Paths
      BY DEF Make, TableInv, Jobs, JobOk
    <2>2. CASE UNCHANGED <<fs, nextObj>>
      BY <2>2 DEF TableInv, Types
    <2>3. CASE fs' = With(fs, job[h].path, nextObj) /\ nextObj' = nextObj + 1
      BY <2>1, <2>3 DEF With, TableInv, Types
    <2> QED  BY <2>2, <2>3 DEF Make
  <1> QED  BY <1>1, <1>2, <1>3 DEF TableInv, Types, Numbers

\* internPath's node is the handler's until the reply is delivered or undone.
LEMMA StepIntern ==
    ASSUME TableInv, NEW h \in Handlers, Intern(h)
    PROVE  TableInv'
PROOF
  <1>1. UNCHANGED <<load, opens, nextFh, origin, kernel, leaked, opened, torn>>
    BY DEF Intern
  <1>2. CASE Done(h) /\ UNCHANGED <<nodes, paths, nextIno, used>>
    BY <1>1, <1>2, JobDone DEF TableInv, Types, Numbers
  <1>3. CASE ~(Done(h) /\ UNCHANGED <<nodes, paths, nextIno, used>>)
    <2>1. PICK i \in Inos :
             /\ InternPath(job[h].path, i)
             /\ Set(h, [job[h] EXCEPT !.ino = i, !.pc = IF job[h].op = "create" THEN "remember" ELSE "reply"])
             /\ used' = used \cup {i}
      BY <1>3 DEF Intern
    <2> DEFINE pc == IF job[h].op = "create" THEN "remember" ELSE "reply"
               r == [job[h] EXCEPT !.ino = i, !.pc = pc]
    <2>2. job[h] \in JobType /\ job[h].op \in Entries /\ job[h].pc = "intern" /\ job[h].path \in Paths
      BY DEF Intern, TableInv, Types, Jobs, JobOk
    <2>3. r \in JobType /\ r.pc = pc /\ r.op = job[h].op /\ r.path = job[h].path /\ r.to = job[h].to
          /\ r.ino = i /\ r.fh = job[h].fh
      BY <2>2 DEF JobType
    <2> HIDE DEF r
    <2>4. JobOk(r)
      BY <2>2, <2>3 DEF TableInv, Jobs, JobOk, Inos
    <2>5. job' \in [Handlers -> JobType] /\ Jobs'
      BY <2>1, <2>3, <2>4, JobSet DEF TableInv, r
    <2> DEFINE p == job[h].path
    <2>6. /\ nodes' \in [DOMAIN nodes \cup {i} -> NodeType] /\ paths' \in [DOMAIN paths \cup {p} -> KeyType]
          /\ \A j \in DOMAIN nodes \ {i} : nodes'[j] = nodes[j]
          /\ nodes'[i].path = p
          /\ paths'[p].ino = i /\ \A q \in DOMAIN paths \ {p} : paths'[q] = paths[q]
          /\ i \notin DOMAIN nodes => i = nextIno
          /\ i \in DOMAIN nodes => nodes[i].path = p
          /\ nextIno' \in Nat /\ nextIno' >= nextIno /\ i < nextIno'
      <3>1. Types /\ Numbers /\ p \in Paths /\ InternPath(p, i)
        BY <2>1, <2>2 DEF TableInv
      <3> HIDE DEF p
      <3> QED  BY <3>1, Interned
    <2> HIDE DEF p
    <2>7. p \in Paths
      BY <2>2 DEF p
    <2>8. Types'
      BY <1>1, <2>1, <2>5, <2>6, <2>7 DEF TableInv, Types
    <2>9. DOMAIN nodes' \cup used' \subseteq 2..(nextIno' - 1)
      BY <2>1, <2>6 DEF TableInv, Types, Numbers, Inos
    <2>10. DOMAIN nodes' \subseteq used'
      BY <2>1, <2>6 DEF TableInv, Numbers
    <2>11. \A q \in DOMAIN paths' : paths'[q].ino \in DOMAIN nodes' /\ nodes'[paths'[q].ino].path = q
      BY <2>6 DEF TableInv, Numbers
    <2> QED  BY <2>5, <2>8, <2>9, <2>10, <2>11 DEF TableInv, Numbers
  <1> QED  BY <1>2, <1>3

\* rememberOpen: the record's number is the handler's until the kernel has it.
LEMMA StepRemember ==
    ASSUME TableInv, NEW h \in Handlers, Remember(h)
    PROVE  TableInv'
PROOF
  <1>1. UNCHANGED <<load, nodes, paths, nextIno, origin, kernel, leaked, used>>
    BY DEF Remember
  <1>2. job[h] \in JobType /\ job[h].op \in {"open", "create"} /\ job[h].pc = "remember" /\ job[h].path \in Paths
    BY DEF Remember, TableInv, Types, Jobs, JobOk
  <1>3. CASE Goto(h, "reply") /\ UNCHANGED <<opens, nextFh, opened, torn>>
    <2> DEFINE r == [job[h] EXCEPT !.pc = "reply"]
    <2>1. r \in JobType /\ r.pc = "reply" /\ r.op = job[h].op /\ r.path = job[h].path /\ r.to = job[h].to
          /\ r.ino = job[h].ino /\ r.fh = job[h].fh
      BY <1>2 DEF JobType
    <2> HIDE DEF r
    <2>2. JobOk(r)
      BY <1>2, <2>1 DEF TableInv, Jobs, JobOk
    <2>3. job' \in [Handlers -> JobType] /\ Jobs'
      BY <1>3, <2>1, <2>2, JobSet DEF TableInv, r
    <2> QED  BY <1>1, <1>3, <2>3 DEF TableInv, Types, Numbers
  <1>4. CASE ~(Goto(h, "reply") /\ UNCHANGED <<opens, nextFh, opened, torn>>)
    <2> DEFINE r == [job[h] EXCEPT !.pc = "reply", !.fh = nextFh]
    <2>1. /\ nextFh <= MaxFh /\ opens' = With(opens, nextFh, job[h].path) /\ nextFh' = nextFh + 1
          /\ opened' = [opened EXCEPT ![nextFh] = job[h].obj] /\ Set(h, r)
      BY <1>4 DEF Remember
    <2>2. nextFh \in Fhs /\ nextFh # 0 /\ nextFh' \in Nat \ {0}
      BY <2>1, TableAssumption DEF Fhs, TableInv, Types
    <2>3. r \in JobType /\ r.pc = "reply" /\ r.op = job[h].op /\ r.path = job[h].path /\ r.to = job[h].to
          /\ r.ino = job[h].ino /\ r.fh = nextFh
      BY <1>2, <2>2 DEF JobType
    <2> HIDE DEF r
    <2>4. JobOk(r)
      BY <1>2, <2>3 DEF TableInv, Jobs, JobOk
    <2>5. job' \in [Handlers -> JobType] /\ Jobs'
      BY <2>1, <2>3, <2>4, JobSet DEF TableInv
    <2>6. job[h].obj \in Nat
      BY <1>2 DEF JobType
    <2>7. DOMAIN opens' \subseteq Fhs /\ opens' \in [DOMAIN opens' -> Paths] /\ opened' \in [Fhs -> Nat]
      BY <1>2, <2>1, <2>2, <2>6 DEF With, TableInv, Types
    <2> QED  BY <1>1, <2>2, <2>5, <2>7 DEF TableInv, Types, Numbers
  <1> QED  BY <1>3, <1>4

\* A delivered reply and an undone one both end the request; the kernel's
\* tables and the handle table change.
LEMMA StepReply ==
    ASSUME TableInv, NEW h \in Handlers, Reply(h)
    PROVE  TableInv'
PROOF
  <1>1. UNCHANGED <<load, tables, origin, forgets, ghosts>> /\ Done(h)
    BY DEF Reply
  <1>2. job[h] \in JobType /\ job[h].op \in Entries \cup {"open"} /\ job[h].pc = "reply"
    BY DEF Reply, TableInv, Types
  <1>3. job[h].ino \in Inos /\ job[h].fh \in Fhs \cup {0}
    BY <1>2 DEF TableInv, Jobs, JobOk, JobType
  <1>4. refs' \in [Inos -> Nat]
    BY <1>2, <1>3 DEF Reply, TableInv, Types
  <1>5. DOMAIN handles' \subseteq Fhs /\ handles' \in [DOMAIN handles' -> Inos \cup {0}]
    BY <1>3 DEF Reply, With, TableInv, Types
  <1>6. job' \in [Handlers -> JobType] /\ Jobs'
    BY <1>1, JobDone DEF TableInv
  <1> QED  BY <1>1, <1>4, <1>5, <1>6 DEF TableInv, Types, Numbers

LEMMA StepUndoOpen ==
    ASSUME TableInv, NEW h \in Handlers, UndoOpen(h)
    PROVE  TableInv'
PROOF
  <1>1. UNCHANGED <<load, nodes, paths, nextIno, nextFh, origin, kernel, ghosts>> /\ opens' = Without(opens, job[h].fh)
    BY DEF UndoOpen
  <1>2. job' \in [Handlers -> JobType] /\ Jobs'
    <2>1. CASE Done(h)
      BY <2>1, JobDone DEF TableInv
    <2>2. CASE ~Done(h)
      <3> DEFINE r == [job[h] EXCEPT !.pc = "drop", !.fh = 0]
      <3>1. job[h] \in JobType /\ job[h].op = "create" /\ job[h].pc = "close" /\ Set(h, r)
        BY <2>2 DEF UndoOpen, TableInv, Types
      <3>2. r \in JobType /\ r.pc = "drop" /\ r.op = job[h].op /\ r.path = job[h].path /\ r.to = job[h].to
            /\ r.ino = job[h].ino /\ r.fh = 0
        BY <3>1 DEF JobType
      <3> HIDE DEF r
      <3>3. JobOk(r)
        BY <3>1, <3>2 DEF TableInv, Jobs, JobOk
      <3> QED  BY <3>1, <3>2, <3>3, JobSet DEF TableInv
    <2> QED  BY <2>1, <2>2
  <1>3. DOMAIN opens' \subseteq Fhs /\ opens' \in [DOMAIN opens' -> Paths]
    BY <1>1 DEF Without, TableInv, Types
  <1> QED  BY <1>1, <1>2, <1>3 DEF TableInv, Types, Numbers

\* dropLookup, for an undone entry and for a FORGET.
LEMMA DropKept ==
    ASSUME TableInv, NEW i \in Inos, NEW n \in Nat, DropLookup(i, n),
           UNCHANGED <<load, opens, nextIno, nextFh, origin, refs, handles, ghosts>>,
           job' \in [Handlers -> JobType], Jobs', forgets' \in [Inos -> Nat]
    PROVE  TableInv'
PROOF
  <1>1. /\ DOMAIN nodes' \subseteq DOMAIN nodes /\ nodes' \in [DOMAIN nodes' -> NodeType]
        /\ \A j \in DOMAIN nodes' : nodes'[j].path = nodes[j].path
        /\ DOMAIN paths' \subseteq DOMAIN paths /\ paths' \in [DOMAIN paths' -> KeyType]
        /\ \A q \in DOMAIN paths' : paths'[q] = paths[q] /\ paths'[q].ino \in DOMAIN nodes'
    BY Dropped DEF TableInv
  <1>2. Types'
    BY <1>1 DEF TableInv, Types
  <1>3. Numbers'
    BY <1>1 DEF TableInv, Numbers
  <1> QED  BY <1>2, <1>3 DEF TableInv

LEMMA StepUndoLookup ==
    ASSUME TableInv, NEW h \in Handlers, UndoLookup(h)
    PROVE  TableInv'
PROOF
  <1>1. job[h].ino \in Inos
    BY DEF UndoLookup, TableInv, Types, JobType, Jobs, JobOk
  <1>2. job' \in [Handlers -> JobType] /\ Jobs'
    BY JobDone DEF UndoLookup, TableInv
  <1>3. DropLookup(job[h].ino, 1) /\ UNCHANGED <<load, opens, nextIno, nextFh, origin, kernel, ghosts>>
    BY DEF UndoLookup
  <1>4. forgets' \in [Inos -> Nat]
    BY <1>3 DEF TableInv, Types
  <1> QED  BY <1>1, <1>2, <1>3, <1>4, DropKept

LEMMA StepForget ==
    ASSUME TableInv, NEW i \in Inos, Forget(i)
    PROVE  TableInv'
PROOF
  <1>1. /\ DropLookup(i, forgets[i]) /\ forgets[i] \in Nat /\ forgets' = [forgets EXCEPT ![i] = 0]
        /\ UNCHANGED <<load, opens, nextIno, nextFh, job, origin, refs, handles, ghosts>>
    BY DEF Forget, TableInv, Types
  <1>2. job' \in [Handlers -> JobType] /\ Jobs' /\ forgets' \in [Inos -> Nat]
    BY <1>1 DEF TableInv, Types, Jobs
  <1> QED  BY <1>1, <1>2, DropKept

LEMMA StepRemoveFile ==
    ASSUME TableInv, NEW h \in Handlers, RemoveFile(h)
    PROVE  TableInv'
PROOF
  <1>1. UNCHANGED <<load, tables, nextObj, kernel, ghosts>> /\ Done(h)
    BY DEF RemoveFile
  <1>2. DOMAIN fs' \subseteq Paths /\ fs' \in [DOMAIN fs' -> Nat]
    <2>1. fs' = fs \/ fs' = Without(fs, job[h].path)
      BY DEF RemoveFile
    <2> QED  BY <2>1 DEF Without, TableInv, Types
  <1>3. job' \in [Handlers -> JobType] /\ Jobs'
    BY <1>1, JobDone DEF TableInv
  <1> QED  BY <1>1, <1>2, <1>3 DEF TableInv, Types, Numbers

\* A rename marks the opens it overlaps; their requests go on as they were.
LEMMA JobsMarked ==
    ASSUME TableInv, NEW h \in Handlers, NEW r \in JobType, JobOk(r),
           job' = [g \in Handlers |-> job'[g]], job'[h] = r,
           \A g \in Handlers \ {h} : \E t \in BOOLEAN : job'[g] = [job[g] EXCEPT !.torn = t]
    PROVE  /\ job' \in [Handlers -> JobType] /\ Jobs'
           /\ \A g \in Handlers \ {h} : /\ job'[g].op = job[g].op /\ job'[g].ino = job[g].ino
                                        /\ job'[g].fh = job[g].fh
PROOF
  <1>1. ASSUME NEW g \in Handlers \ {h}
        PROVE  /\ job'[g] \in JobType /\ JobOk(job'[g])
               /\ job'[g].op = job[g].op /\ job'[g].ino = job[g].ino /\ job'[g].fh = job[g].fh
    <2>1. job[g] \in JobType /\ JobOk(job[g])
      BY DEF TableInv, Types, Jobs
    <2>2. PICK t \in BOOLEAN : job'[g] = [job[g] EXCEPT !.torn = t]
      OBVIOUS
    <2>3. job'[g] \in JobType
      BY <2>1, <2>2 DEF JobType
    <2>4. /\ job'[g].op = job[g].op /\ job'[g].pc = job[g].pc /\ job'[g].path = job[g].path /\ job'[g].to = job[g].to
          /\ job'[g].ino = job[g].ino /\ job'[g].fh = job[g].fh
      BY <2>1, <2>2 DEF JobType
    <2>5. JobOk(job'[g])
      BY <2>1, <2>4 DEF JobOk
    <2> QED  BY <2>3, <2>4, <2>5
  <1>2. \A g \in Handlers : job'[g] \in JobType /\ JobOk(job'[g])
    BY <1>1
  <1>3. job' \in [Handlers -> JobType]
    BY <1>2
  <1> QED  BY <1>1, <1>2, <1>3 DEF Jobs

LEMMA MoveJobs ==
    ASSUME TableInv, NEW h \in Handlers, Move(h)
    PROVE  /\ job' \in [Handlers -> JobType] /\ Jobs'
           /\ job[h].op \in {"rename", "exchange"} /\ job'[h].op \in {job[h].op, "none"}
           /\ job[h].fh = 0 /\ job'[h].fh = 0
           /\ \A g \in Handlers \ {h} : /\ job'[g].op = job[g].op /\ job'[g].ino = job[g].ino
                                        /\ job'[g].fh = job[g].fh
PROOF
  <1>1. job[h] \in JobType /\ JobOk(job[h]) /\ job[h].op \in {"rename", "exchange"} /\ job[h].pc = "move"
    BY DEF Move, TableInv, Types, Jobs
  <1> DEFINE crossing == Crossing(h) # {}
             s == [job[h] EXCEPT !.pc = "tables", !.torn = crossing]
  <1>2. s \in JobType /\ s.pc = "tables" /\ s.op = job[h].op /\ s.path = job[h].path /\ s.to = job[h].to
        /\ s.ino = job[h].ino /\ s.fh = job[h].fh
    BY <1>1 DEF JobType
  <1>3. job' = [g \in Handlers |-> job'[g]] /\ (job'[h] = Idle \/ (job'[h] = s /\ job[h].op = "rename"))
    <2>1. job' = [g \in Handlers |-> job'[g]]
      BY DEF Move
    <2>2. job'[h] = Idle \/ (job'[h] = s /\ job[h].op = "rename")
      BY ZenonT(60) DEF Move
    <2> QED  BY <2>1, <2>2
  <1>4. ASSUME NEW g \in Handlers \ {h}
        PROVE  \E t \in BOOLEAN : job'[g] = [job[g] EXCEPT !.torn = t]
    <2>1. job[g].torn \in BOOLEAN
      BY DEF TableInv, Types, JobType
    <2>2. PICK u \in BOOLEAN : job'[g] = [job[g] EXCEPT !.torn = @ \/ u]
      <3> DEFINE old == job[h].path
                 new == job[h].to
                 plain == job[h].op = "rename"
                 ok == /\ old \in DOMAIN fs /\ (Front(new) = <<>> \/ Front(new) \in DOMAIN fs)
                       /\ plain \/ new \in DOMAIN fs
                       /\ ~plain \/ ~Populated(new)
                 c == IF ok THEN Crossing(h) ELSE {}
                 w == g \in c \/ ((ok /\ ~plain) /\ (Opening(g, old) \/ Opening(g, new)))
      <3>1. job'[g] = [job[g] EXCEPT !.torn = @ \/ w]
        BY DEF Move
      <3>2. w \in BOOLEAN
        BY DEF Opening
      <3> HIDE DEF w
      <3> QED  BY <3>1, <3>2
    <2>3. (job[g].torn \/ u) \in BOOLEAN
      BY <2>1
    <2> QED  BY <2>2, <2>3
  <1> HIDE DEF s
  <1>5. job'[h] \in JobType /\ JobOk(job'[h]) /\ job'[h].op \in {job[h].op, "none"} /\ job'[h].fh = 0
    BY <1>1, <1>2, <1>3, IdleJob DEF JobOk
  <1>6. job[h].fh = 0
    BY <1>1 DEF JobOk
  <1> QED  BY <1>1, <1>3, <1>4, <1>5, <1>6, JobsMarked

\* A rename of the origin is of its names alone: what they hold stays what it was.
LEMMA StepMove ==
    ASSUME TableInv, NEW h \in Handlers, Move(h)
    PROVE  TableInv'
PROOF
  <1> DEFINE old == job[h].path
             new == job[h].to
  <1>1. UNCHANGED <<load, tables, nextObj, kernel, leaked, used, opened>>
    BY DEF Move
  <1>3. DOMAIN fs' \subseteq Paths /\ fs' \in [DOMAIN fs' -> Nat]
    <2>1. CASE fs' = fs
      BY <2>1 DEF TableInv, Types
    <2>2. CASE fs' = Moved(old, new)
      BY <2>2 DEF Moved, TableInv, Types
    <2>3. CASE fs' = Exchanged(old, new)
      BY <2>3 DEF Exchanged, TableInv, Types
    <2> QED  BY <2>1, <2>2, <2>3 DEF Move
  <1>4. job' \in [Handlers -> JobType] /\ Jobs'
    BY MoveJobs
  <1> QED  BY <1>1, <1>3, <1>4 DEF TableInv, Types, Numbers

LEMMA ConvergeJobs ==
    ASSUME TableInv, NEW h \in Handlers, Converge(h)
    PROVE  /\ job' \in [Handlers -> JobType] /\ Jobs'
           /\ job[h].op = "rename" /\ job'[h].op = "rename"
           /\ job[h].fh = 0 /\ job'[h].fh = 0
           /\ \A g \in Handlers \ {h} : /\ job'[g].op = job[g].op /\ job'[g].ino = job[g].ino
                                        /\ job'[g].fh = job[g].fh
PROOF
  <1>1. job[h] \in JobType /\ JobOk(job[h]) /\ job[h].op = "rename" /\ job[h].pc = "move"
    BY DEF Converge, TableInv, Types, Jobs
  <1> DEFINE crossing == Crossing(h) # {}
             s == [job[h] EXCEPT !.pc = "tables", !.torn = crossing]
  <1>2. s \in JobType /\ s.pc = "tables" /\ s.op = job[h].op /\ s.path = job[h].path /\ s.to = job[h].to
        /\ s.ino = job[h].ino /\ s.fh = job[h].fh
    BY <1>1 DEF JobType
  <1>3. job' = [g \in Handlers |-> job'[g]] /\ job'[h] = s
    BY DEF Converge
  <1>4. ASSUME NEW g \in Handlers \ {h}
        PROVE  \E t \in BOOLEAN : job'[g] = [job[g] EXCEPT !.torn = t]
    <2>1. job[g].torn \in BOOLEAN
      BY DEF TableInv, Types, JobType
    <2>2. job'[g] = [job[g] EXCEPT !.torn = @ \/ g \in Crossing(h)]
      BY DEF Converge
    <2>3. (job[g].torn \/ g \in Crossing(h)) \in BOOLEAN
      BY <2>1
    <2> QED  BY <2>2, <2>3
  <1> HIDE DEF s
  <1>5. job'[h] \in JobType /\ JobOk(job'[h]) /\ job'[h].op = "rename" /\ job'[h].fh = 0
    BY <1>1, <1>2, <1>3 DEF JobOk
  <1>6. job[h].fh = 0
    BY <1>1 DEF JobOk
  <1> QED  BY <1>1, <1>3, <1>4, <1>5, <1>6, JobsMarked

LEMMA StepConverge ==
    ASSUME TableInv, NEW h \in Handlers, Converge(h)
    PROVE  TableInv'
PROOF
  <1>1. UNCHANGED <<load, tables, origin, kernel, leaked, used, opened>>
    BY DEF Converge
  <1>2. job' \in [Handlers -> JobType] /\ Jobs'
    BY ConvergeJobs
  <1> QED  BY <1>1, <1>2 DEF TableInv, Types, Numbers

\* What Tables does to the tables and to the jobs, whichever allocation fails.
LEMMA TablesRename ==
    ASSUME TableInv, NEW h \in Handlers, Tables(h)
    PROVE  /\ job[h].path \in Paths /\ job[h].to \in Paths /\ Within(job[h].path, job[h].to)
           /\ \E stuck, unput, stuckFhs : RenameNodes(job[h].path, job[h].to, stuck, unput, stuckFhs)
PROOF
  <1>1. job[h].op = "rename"
    BY DEF Tables
  <1>2. job[h].path \in Paths /\ job[h].to \in Paths /\ Within(job[h].path, job[h].to)
    BY <1>1 DEF TableInv, Jobs, JobOk
  <1>3. CASE RenameNodes(job[h].path, job[h].to, {}, {}, {})
    BY <1>2, <1>3
  <1>4. CASE \E i \in DOMAIN nodes : \/ RenameNodes(job[h].path, job[h].to, {i}, {}, {})
                                     \/ RenameNodes(job[h].path, job[h].to, {}, {i}, {})
    BY <1>2, <1>4
  <1>5. CASE \E f \in DOMAIN opens : RenameNodes(job[h].path, job[h].to, {}, {}, {f})
    BY <1>2, <1>5
  <1> QED  BY <1>3, <1>4, <1>5 DEF Tables

LEMMA TablesJobs ==
    ASSUME TableInv, NEW h \in Handlers, Tables(h)
    PROVE  /\ job' \in [Handlers -> JobType] /\ Jobs'
           /\ job'[h] = Idle
           /\ \A g \in Handlers \ {h} : /\ job'[g].op = job[g].op /\ job'[g].ino = job[g].ino
                                        /\ job'[g].fh = job[g].fh
PROOF
  <1>1. /\ job' = [g \in Handlers |-> job'[g]] /\ job'[h] = Idle
        /\ \A g \in Handlers \ {h} : job'[g] = [job[g] EXCEPT !.torn = @ \/ Opening(g, job[h].path)]
    BY DEF Tables
  <1>2. ASSUME NEW g \in Handlers \ {h}
        PROVE  \E t \in BOOLEAN : job'[g] = [job[g] EXCEPT !.torn = t]
    <2>1. job[g].torn \in BOOLEAN
      BY DEF TableInv, Types, JobType
    <2>2. (job[g].torn \/ Opening(g, job[h].path)) \in BOOLEAN
      BY <2>1 DEF Opening
    <2> QED  BY <1>1, <2>2
  <1> QED  BY <1>1, <1>2, IdleJob, JobsMarked

LEMMA StepTables ==
    ASSUME TableInv, NEW h \in Handlers, Tables(h)
    PROVE  TableInv'
PROOF
  <1>1. UNCHANGED <<load, nextIno, nextFh, origin, kernel, leaked, used, opened>>
    BY DEF Tables
  <1>2. job' \in [Handlers -> JobType] /\ Jobs'
    BY TablesJobs
  <1> DEFINE old == job[h].path
             new == job[h].to
  <1>3. /\ nodes' \in [DOMAIN nodes -> NodeType]
        /\ DOMAIN paths' \subseteq Paths /\ paths' \in [DOMAIN paths' -> KeyType]
        /\ \A p \in DOMAIN paths' : paths'[p].ino \in DOMAIN nodes /\ nodes'[paths'[p].ino].path = p
        /\ opens' \in [DOMAIN opens -> Paths]
    <2>1. PICK stuck, unput, stuckFhs : RenameNodes(old, new, stuck, unput, stuckFhs)
      BY TablesRename
    <2>2. Types /\ Numbers /\ old \in Paths /\ new \in Paths /\ Within(old, new)
      BY TablesRename DEF TableInv
    <2> HIDE DEF old, new
    <2> QED  BY <2>1, <2>2, NodesRenamed
  <1>4. Types'
    BY <1>1, <1>2, <1>3 DEF TableInv, Types
  <1>5. Numbers'
    BY <1>1, <1>3 DEF TableInv, Numbers
  <1> QED  BY <1>2, <1>4, <1>5 DEF TableInv

LEMMA StepEvict ==
    ASSUME TableInv, NEW i \in Inos, Evict(i)
    PROVE  TableInv'
  BY DEF Evict, TableInv, Types, Numbers, Jobs

LEMMA StepRelease ==
    ASSUME TableInv, NEW f \in Fhs, Release(f)
    PROVE  TableInv'
  BY DEF Release, Without, TableInv, Types, Numbers, Jobs

\* restoreMaps gives a path to one of the nodes that have it: the least and
\* the greatest number of a path exist, since among finitely many intervals
\* one contains no other.
LEMMA SmallestInterval ==
    ASSUME NEW T, T # {}, \A t \in T : t \in SUBSET Nat /\ IsFiniteSet(t)
    PROVE  \E t \in T : \A u \in T : u \subseteq t => u = t
PROOF
  <1>1. T \subseteq FiniteSubsetsOf(Nat)
    BY DEF FiniteSubsetsOf
  <1>2. PICK t \in T : \A u \in T : ~(<<u, t>> \in StrictSubsetOrdering(Nat))
    <2> HIDE DEF FiniteSubsetsOf
    <2> QED  BY <1>1, FS_StrictSubsetOrderingWellFounded, WFMin
  <1>3. \A u \in T : u \in SUBSET Nat
    OBVIOUS
  <1> QED  BY <1>2, <1>3 DEF StrictSubsetOrdering

LEMMA LeastExists ==
    ASSUME NEW S \in SUBSET Nat, S # {}
    PROVE  Min(S) \in S
PROOF
  <1> DEFINE T == {0..x : x \in S}
  <1>1. T # {} /\ \A t \in T : t \in SUBSET Nat /\ IsFiniteSet(t)
    <2>1. ASSUME NEW x \in S
          PROVE  0..x \in SUBSET Nat /\ IsFiniteSet(0..x)
      <3>1. 0 \in Int /\ x \in Int /\ 0..x \in SUBSET Nat
        OBVIOUS
      <3> QED  BY <3>1, FS_Interval
    <2> QED  BY <2>1
  <1>2. PICK t \in T : \A u \in T : u \subseteq t => u = t
    <2> HIDE DEF T
    <2> QED  BY <1>1, SmallestInterval
  <1>3. PICK x \in S : t = 0..x
    OBVIOUS
  <1>4. ASSUME NEW y \in S
        PROVE  x <= y
    <2>1. 0..y \in T /\ x \in Nat /\ y \in Nat
      OBVIOUS
    <2>2. CASE y < x
      <3>1. 0..y \subseteq 0..x /\ x \in 0..x /\ x \notin 0..y
        BY <2>1, <2>2
      <3> QED  BY <1>2, <1>3, <2>1, <3>1
    <2> QED  BY <2>1, <2>2
  <1> QED  BY <1>4 DEF Min

LEMMA GreatestExists ==
    ASSUME NEW n \in Nat, NEW S \in SUBSET (0..n), S # {}
    PROVE  Max(S) \in S
PROOF
  <1> DEFINE T == {x..n : x \in S}
  <1>1. T # {} /\ \A t \in T : t \in SUBSET Nat /\ IsFiniteSet(t)
    <2>1. ASSUME NEW x \in S
          PROVE  x..n \in SUBSET Nat /\ IsFiniteSet(x..n)
      <3>1. x \in Int /\ n \in Int /\ x..n \in SUBSET Nat
        OBVIOUS
      <3> QED  BY <3>1, FS_Interval
    <2> QED  BY <2>1
  <1>2. PICK t \in T : \A u \in T : u \subseteq t => u = t
    <2> HIDE DEF T
    <2> QED  BY <1>1, SmallestInterval
  <1>3. PICK x \in S : t = x..n
    OBVIOUS
  <1>4. ASSUME NEW y \in S
        PROVE  x >= y
    <2>1. y..n \in T /\ x \in 0..n /\ y \in 0..n
      OBVIOUS
    <2>2. CASE x < y
      <3>1. y..n \subseteq x..n /\ x \in x..n /\ x \notin y..n
        BY <2>1, <2>2
      <3> QED  BY <1>2, <1>3, <2>1, <3>1
    <2> QED  BY <2>1, <2>2
  <1> QED  BY <1>4 DEF Max

\* restoreMaps: every path of a node resolves again, to a node of that path.
LEMMA MapsRestored ==
    ASSUME TableInv, RestoreMaps
    PROVE  /\ UNCHANGED <<nodes, opens, nextIno, nextFh>>
           /\ DOMAIN paths' \subseteq Paths /\ paths' \in [DOMAIN paths' -> KeyType]
           /\ \A p \in DOMAIN paths' : paths'[p].ino \in DOMAIN nodes /\ nodes[paths'[p].ino].path = p
PROOF
  <1> DEFINE at(p) == {i \in DOMAIN nodes : nodes[i].path = p}
  <1>1. /\ UNCHANGED <<nodes, opens, nextIno, nextFh>>
        /\ paths' = [p \in {nodes[i].path : i \in DOMAIN nodes} |-> [ino |-> Max(at(p)), key |-> Min(at(p))]]
    BY DEF RestoreMaps, RestoreNext
  <1>2. ASSUME NEW p \in {nodes[i].path : i \in DOMAIN nodes}
        PROVE  p \in Paths /\ Max(at(p)) \in at(p) /\ Min(at(p)) \in at(p)
    <2>1. p \in Paths
      BY DEF TableInv, Types
    <2>2. at(p) # {} /\ at(p) \in SUBSET (0..MaxIno)
      BY DEF TableInv, Types, Inos
    <2>3. Max(at(p)) \in at(p)
      BY <2>2, GreatestExists, TableAssumption
    <2>4. Min(at(p)) \in at(p)
      BY <2>2, LeastExists
    <2> QED  BY <2>1, <2>3, <2>4
  <1>3. ASSUME NEW p \in DOMAIN paths'
        PROVE  p \in Paths /\ paths'[p] \in KeyType /\ paths'[p].ino \in DOMAIN nodes /\ nodes[paths'[p].ino].path = p
    <2>1. p \in {nodes[i].path : i \in DOMAIN nodes} /\ paths'[p] = [ino |-> Max(at(p)), key |-> Min(at(p))]
      BY <1>1
    <2>2. p \in Paths /\ Max(at(p)) \in at(p) /\ Min(at(p)) \in at(p)
      BY <1>2, <2>1
    <2>3. \A i \in at(p) : i \in DOMAIN nodes /\ i \in Inos /\ nodes[i].path = p
      BY DEF TableInv, Types
    <2> HIDE DEF at
    <2> QED  BY <2>1, <2>2, <2>3
  <1> QED  BY <1>1, <1>3

LEMMA StepHandover ==
    ASSUME TableInv, Handover
    PROVE  TableInv'
PROOF
  <1>1. RestoreMaps /\ UNCHANGED <<load, job, origin, refs, handles, used, opened, torn>>
    BY DEF Handover
  <1>2. PICK lost \in SUBSET {i \in Inos : forgets[i] > 0} :
           /\ leaked' = [i \in Inos |-> leaked[i] + IF i \in lost THEN forgets[i] ELSE 0]
           /\ forgets' = [i \in Inos |-> IF i \in lost THEN 0 ELSE forgets[i]]
    BY DEF Handover
  <1>3. leaked' \in [Inos -> Nat] /\ forgets' \in [Inos -> Nat]
    BY <1>2 DEF TableInv, Types
  <1>4. /\ UNCHANGED <<nodes, opens, nextIno, nextFh>>
        /\ DOMAIN paths' \subseteq Paths /\ paths' \in [DOMAIN paths' -> KeyType]
        /\ \A p \in DOMAIN paths' : paths'[p].ino \in DOMAIN nodes /\ nodes[paths'[p].ino].path = p
    BY <1>1, MapsRestored
  <1>5. Types'
    BY <1>1, <1>3, <1>4 DEF TableInv, Types
  <1>6. Numbers'
    BY <1>1, <1>4 DEF TableInv, Numbers
  <1> QED  BY <1>1, <1>5, <1>6 DEF TableInv, Jobs

\* Before the first request the tables are empty; the origin's files are
\* numbered as SetToSeq lists them.
LEMMA TreeNumbered ==
    ASSUME NEW S, IsFiniteSet(S)
    PROVE  /\ Cardinality(S) \in Nat
           /\ \A p \in S : LET m == CHOOSE n \in 1..Len(SetToSeq(S)) : SetToSeq(S)[n] = p
                           IN m \in 1..Cardinality(S) /\ SetToSeq(S)[m] = p
PROOF
  <1> DEFINE c == Cardinality(S)
             s == SetToSeq(S)
  <1>1. c \in Nat /\ ExistsBijection(1..c, S)
    BY FS_CardinalityType
  <1>2. \E f \in [1..c -> S] : IsInjective(f)
    BY <1>1 DEF ExistsBijection, Bijection, Injection
  <1>3. s \in [1..c -> S] /\ IsInjective(s)
    BY <1>2 DEF SetToSeq
  <1>4. Cardinality(1..c) = c
    BY <1>1, FS_Interval
  <1>5. s \in Surjection(1..c, S)
    BY <1>1, <1>3, <1>4, FS_Injection DEF Injection
  <1>6. Len(s) = c
    BY <1>1, <1>3
  <1> HIDE DEF s
  <1>7. \A p \in S : \E n \in 1..Len(s) : s[n] = p
    BY <1>5, <1>6 DEF Surjection
  <1>8. ASSUME NEW p \in S
        PROVE  LET m == CHOOSE n \in 1..Len(s) : s[n] = p IN m \in 1..c /\ s[m] = p
    BY <1>6, <1>7
  <1> QED  BY <1>1, <1>8 DEF s

LEMMA InitTables == Init => TableInv
PROOF
  <1> SUFFICES ASSUME Init PROVE TableInv
    OBVIOUS
  <1>1. load \in LoadType /\ IsFiniteSet(load.tree) /\ load.tree \subseteq Paths
    BY TableAssumption DEF Init, LoadType
  <1>2. DOMAIN fs = load.tree /\ fs \in [load.tree -> Nat]
    <2>1. \A p \in load.tree : (CHOOSE n \in 1..Len(SetToSeq(load.tree)) : SetToSeq(load.tree)[n] = p) \in Nat
      BY <1>1, TreeNumbered
    <2> QED  BY <2>1 DEF Init
  <1>3. nextObj \in Nat
    BY <1>1, FS_CardinalityType DEF Init
  <1>4. job = [h \in Handlers |-> Idle]
    BY DEF Init
  <1>5. job \in [Handlers -> JobType] /\ Jobs
    BY <1>4, IdleJob DEF Jobs
  <1>6. /\ nodes = Empty /\ paths = Empty /\ opens = Empty /\ handles = Empty /\ nextIno = 2 /\ nextFh = 1
        /\ refs = [i \in Inos |-> 0] /\ forgets = refs /\ leaked = refs
        /\ used = {} /\ opened = [h \in Fhs |-> 0]
    BY DEF Init
  <1>7. Types
    BY <1>1, <1>2, <1>3, <1>5, <1>6 DEF Types, Empty
  <1>8. Numbers
    BY <1>6 DEF Numbers, Empty
  <1> QED  BY <1>5, <1>7, <1>8 DEF TableInv

LEMMA StepTable == TableInv /\ [Next]_vars => TableInv'
PROOF
  <1> SUFFICES ASSUME TableInv, [Next]_vars PROVE TableInv'
    OBVIOUS
  <1>1. ASSUME NEW h \in Handlers,
               Lookup(h) \/ Create(h) \/ Mkdir(h) \/ Unlink(h) \/ Open(h) \/ Rename(h)
        PROVE  TableInv'
    BY <1>1, StepBegin
  <1>2. ASSUME NEW h \in Handlers, Make(h) \/ Stat(h) \/ Intern(h) \/ OpenFile(h) \/ Remember(h)
        PROVE  TableInv'
    BY <1>2, StepMake, StepSees, StepIntern, StepRemember
  <1>3. ASSUME NEW h \in Handlers, Reply(h) \/ ReplyLost(h) \/ UndoOpen(h) \/ UndoLookup(h)
        PROVE  TableInv'
    BY <1>3, StepReply, StepReplyLost, StepUndoOpen, StepUndoLookup
  <1>4. ASSUME NEW h \in Handlers, RemoveFile(h) \/ Move(h) \/ Converge(h) \/ Tables(h)
        PROVE  TableInv'
    BY <1>4, StepRemoveFile, StepMove, StepConverge, StepTables
  <1>5. ASSUME NEW i \in Inos, Evict(i) \/ Forget(i)
        PROVE  TableInv'
    BY <1>5, StepEvict, StepForget
  <1>6. ASSUME NEW f \in Fhs, Release(f)
        PROVE  TableInv'
    BY <1>6, StepRelease
  <1>7. CASE Handover
    BY <1>7, StepHandover
  <1>8. CASE UNCHANGED vars
    BY <1>8 DEF vars, TableInv, Types, Jobs, Numbers
  <1> QED  BY <1>1, <1>2, <1>3, <1>4, <1>5, <1>6, <1>7, <1>8 DEF Next

\* State.nodes, State.paths and State.opens keep their shape, and every name of
\* the path map resolves to a node of that name, whose number was given out.
THEOREM TablesSound == Spec => []TableInv
PROOF
  <1>1. Init => TableInv
    BY InitTables
  <1>2. TableInv /\ [Next]_vars => TableInv'
    BY StepTable
  <1> QED  BY <1>1, <1>2, PTL DEF Spec

-----------------------------------------------------------------------------
(* Lookup counts.                                                            *)

Holds(j, i) == j.op \in Entries /\ j.ino = i
Count(i) == IF i \in DOMAIN nodes THEN nodes[i].nlookup ELSE 0

\* One job changes hands: the holders of a number change by that handler alone.
LEMMA OneHolder ==
    ASSUME NEW h \in Handlers, NEW i,
           \A g \in Handlers \ {h} : Holds(job'[g], i) <=> Holds(job[g], i)
    PROVE  /\ Cardinality(Holding(i)) \in Nat /\ Cardinality(Holding(i)') \in Nat
           /\ (Holds(job'[h], i) <=> Holds(job[h], i)) => Cardinality(Holding(i)') = Cardinality(Holding(i))
           /\ Holds(job'[h], i) /\ ~Holds(job[h], i) => Cardinality(Holding(i)') = Cardinality(Holding(i)) + 1
           /\ ~Holds(job'[h], i) /\ Holds(job[h], i) => Cardinality(Holding(i)') = Cardinality(Holding(i)) - 1
           /\ Holds(job[h], i) => Cardinality(Holding(i)) > 0
PROOF
  <1>1. /\ Holding(i) = {g \in Handlers : Holds(job[g], i)}
        /\ Holding(i)' = {g \in Handlers : Holds(job'[g], i)}
    BY DEF Holding, Holds
  <1> HIDE DEF Entries
  <1>2. IsFiniteSet(Holding(i)) /\ IsFiniteSet(Holding(i)')
    BY <1>1, TableAssumption, FS_Subset
  <1>3. Cardinality(Holding(i)) \in Nat /\ Cardinality(Holding(i)') \in Nat
    BY <1>2, FS_CardinalityType
  <1>4. (Holds(job'[h], i) <=> Holds(job[h], i)) => Holding(i)' = Holding(i)
    BY <1>1
  <1>5. ASSUME Holds(job'[h], i), ~Holds(job[h], i)
        PROVE  Cardinality(Holding(i)') = Cardinality(Holding(i)) + 1
    <2>1. Holding(i)' = Holding(i) \cup {h} /\ h \notin Holding(i)
      BY <1>1, <1>5
    <2> QED  BY <1>2, <2>1, FS_AddElement
  <1>6. ASSUME ~Holds(job'[h], i), Holds(job[h], i)
        PROVE  Cardinality(Holding(i)') = Cardinality(Holding(i)) - 1
    <2>1. Holding(i)' = Holding(i) \ {h} /\ h \in Holding(i)
      BY <1>1, <1>6
    <2> QED  BY <1>2, <2>1, FS_RemoveElement
  <1>7. Holds(job[h], i) => Cardinality(Holding(i)) > 0
    BY <1>1, <1>2, <1>3, FS_EmptySet
  <1> QED  BY <1>3, <1>4, <1>5, <1>6, <1>7

LEMMA BalanceOf ==
    LookupsBalanced <=> \A i \in Inos : Count(i) = refs[i] + forgets[i] + leaked[i] + Cardinality(Holding(i))
  BY DEF LookupsBalanced, Count

LEMMA BalanceNext ==
    LookupsBalanced' <=>
        \A i \in Inos : Count(i)' = refs'[i] + forgets'[i] + leaked'[i] + Cardinality(Holding(i)')
PROOF
  <1>1. (LookupsBalanced <=> \A i \in Inos : Count(i) = refs[i] + forgets[i] + leaked[i] + Cardinality(Holding(i)))'
    BY BalanceOf, PTL
  <1> QED  BY <1>1

\* Every sum but that of number i is as it was.
LEMMA BalanceMoves ==
    ASSUME LookupsBalanced, NEW i \in Inos,
           \A j \in Inos \ {i} : /\ Count(j)' = Count(j) /\ refs'[j] = refs[j] /\ forgets'[j] = forgets[j]
                                 /\ leaked'[j] = leaked[j]
                                 /\ Cardinality(Holding(j)') = Cardinality(Holding(j)),
           Count(i)' = refs'[i] + forgets'[i] + leaked'[i] + Cardinality(Holding(i)')
    PROVE  LookupsBalanced'
PROOF
  <1>1. \A j \in Inos : Count(j) = refs[j] + forgets[j] + leaked[j] + Cardinality(Holding(j))
    BY BalanceOf
  <1>2. \A j \in Inos : Count(j)' = refs'[j] + forgets'[j] + leaked'[j] + Cardinality(Holding(j)')
    BY <1>1
  <1> QED  BY <1>2, BalanceNext

\* A step that gives and takes no reference.
LEMMA BalanceKept ==
    ASSUME LookupsBalanced, NEW h \in Handlers,
           \A g \in Handlers \ {h} : job'[g].op = job[g].op /\ job'[g].ino = job[g].ino,
           \A i \in Inos : Holds(job'[h], i) <=> Holds(job[h], i),
           \A i \in Inos : Count(i)' = Count(i),
           UNCHANGED <<refs, forgets, leaked>>
    PROVE  LookupsBalanced'
PROOF
  <1>1. \A i \in Inos : Cardinality(Holding(i)') = Cardinality(Holding(i))
    <2> SUFFICES ASSUME NEW i \in Inos PROVE Cardinality(Holding(i)') = Cardinality(Holding(i))
      OBVIOUS
    <2>1. \A g \in Handlers \ {h} : Holds(job'[g], i) <=> Holds(job[g], i)
      BY DEF Holds
    <2>2. Holds(job'[h], i) <=> Holds(job[h], i)
      OBVIOUS
    <2> HIDE DEF Entries
    <2> QED  BY <2>1, <2>2, OneHolder
  <1>2. \A i \in Inos : Count(i) = refs[i] + forgets[i] + leaked[i] + Cardinality(Holding(i))
    BY BalanceOf
  <1>3. \A i \in Inos : Count(i)' = refs'[i] + forgets'[i] + leaked'[i] + Cardinality(Holding(i)')
    BY <1>1, <1>2
  <1> QED  BY <1>3, BalanceNext

\* Requests that begin, look at the origin, or leave without an entry: the
\* handler holds no number before or after, or the same one.
LEMMA QuietJob ==
    ASSUME TableInv, NEW h \in Handlers,
           \/ Lookup(h) \/ Create(h) \/ Mkdir(h) \/ Unlink(h) \/ Open(h) \/ Rename(h)
           \/ Make(h) \/ Stat(h) \/ OpenFile(h) \/ Remember(h) \/ ReplyLost(h)
           \/ UndoOpen(h) \/ RemoveFile(h) \/ Move(h) \/ Converge(h) \/ Tables(h)
    PROVE  /\ \A g \in Handlers \ {h} : job'[g].op = job[g].op /\ job'[g].ino = job[g].ino
           /\ \A i \in Inos : Holds(job'[h], i) <=> Holds(job[h], i)
PROOF
  <1>0. job \in [Handlers -> JobType] /\ job[h] \in JobType /\ JobOk(job[h]) /\ 0 \notin Inos
    BY DEF TableInv, Types, Jobs, Inos
  <1>1. CASE Lookup(h) \/ Create(h) \/ Mkdir(h) \/ Unlink(h) \/ Open(h) \/ Rename(h)
    <2>1. PICK r \in JobType : Set(h, r) /\ job[h] = Idle /\ (r.op \in Entries => r.ino = 0)
      BY <1>1, Begun
    <2>2. job'[h] = r /\ \A g \in Handlers \ {h} : job'[g] = job[g]
      BY <1>0, <2>1
    <2>3. \A i \in Inos : ~Holds(r, i) /\ ~Holds(Idle, i)
      BY <1>0, <2>1, IdleJob DEF Holds
    <2> QED  BY <2>1, <2>2, <2>3
  <1>2. CASE Done(h) /\ (job[h].op \in Entries => job[h].ino = 0)
    <2>1. job'[h] = Idle /\ \A g \in Handlers \ {h} : job'[g] = job[g]
      BY <1>0, <1>2
    <2>2. \A i \in Inos : ~Holds(job[h], i) /\ ~Holds(Idle, i)
      BY <1>0, <1>2, IdleJob DEF Holds
    <2> QED  BY <2>1, <2>2
  <1>3. CASE \E pc, o, f : \/ job' = [job EXCEPT ![h] = [job[h] EXCEPT !.pc = pc]]
                           \/ job' = [job EXCEPT ![h] = [job[h] EXCEPT !.pc = pc, !.obj = o]]
                           \/ job' = [job EXCEPT ![h] = [job[h] EXCEPT !.pc = pc, !.fh = f]]
    <2>1. \A g \in Handlers \ {h} : job'[g] = job[g]
      BY <1>0, <1>3
    <2>2. PICK pc, o, f : \/ job'[h] = [job[h] EXCEPT !.pc = pc]
                          \/ job'[h] = [job[h] EXCEPT !.pc = pc, !.obj = o]
                          \/ job'[h] = [job[h] EXCEPT !.pc = pc, !.fh = f]
      <3>1. PICK pc, o, f : \/ job' = [job EXCEPT ![h] = [job[h] EXCEPT !.pc = pc]]
                            \/ job' = [job EXCEPT ![h] = [job[h] EXCEPT !.pc = pc, !.obj = o]]
                            \/ job' = [job EXCEPT ![h] = [job[h] EXCEPT !.pc = pc, !.fh = f]]
        BY <1>3
      <3>2. \A r : job' = [job EXCEPT ![h] = r] => job'[h] = r
        BY <1>0
      <3> QED  BY <3>1, <3>2
    <2>3. ASSUME NEW j \in JobType
          PROVE  /\ [j EXCEPT !.pc = pc].op = j.op /\ [j EXCEPT !.pc = pc].ino = j.ino
                 /\ [j EXCEPT !.pc = pc, !.obj = o].op = j.op /\ [j EXCEPT !.pc = pc, !.obj = o].ino = j.ino
                 /\ [j EXCEPT !.pc = pc, !.fh = f].op = j.op /\ [j EXCEPT !.pc = pc, !.fh = f].ino = j.ino
      BY DEF JobType
    <2>4. job'[h].op = job[h].op /\ job'[h].ino = job[h].ino
      BY <1>0, <2>2, <2>3
    <2> QED  BY <2>1, <2>4 DEF Holds
  <1>4. CASE Make(h)
    <2>1. job[h].ino = 0 \/ job[h].op \notin Entries
      BY <1>0, <1>4 DEF Make, JobOk
    <2>2. Done(h) \/ Goto(h, "stat")
      BY <1>4 DEF Make
    <2> QED  BY <2>1, <2>2, <1>2, <1>3
  <1>5. CASE Stat(h)
    <2>1. job[h].ino = 0 \/ job[h].op \notin Entries
      BY <1>0, <1>5 DEF Stat, JobOk
    <2>2. Done(h) \/ Set(h, [job[h] EXCEPT !.pc = "intern", !.obj = fs[job[h].path]])
      BY <1>5 DEF Stat
    <2> QED  BY <2>1, <2>2, <1>2, <1>3
  <1>6. CASE OpenFile(h)
    <2>1. job[h].op \notin Entries
      BY <1>6 DEF OpenFile
    <2>2. Done(h) \/ Set(h, [job[h] EXCEPT !.pc = "remember", !.obj = fs[job[h].path]])
      BY <1>6 DEF OpenFile
    <2> QED  BY <2>1, <2>2, <1>2, <1>3
  <1>7. CASE Remember(h)
    <2>1. Goto(h, "reply") \/ Set(h, [job[h] EXCEPT !.pc = "reply", !.fh = nextFh])
      BY <1>7 DEF Remember
    <2> QED  BY <2>1, <1>3
  <1>8. CASE ReplyLost(h)
    <2>1. Goto(h, IF job[h].op \in {"create", "open"} THEN "close" ELSE "drop")
      BY <1>8 DEF ReplyLost
    <2> QED  BY <2>1, <1>3
  <1>9. CASE UndoOpen(h)
    <2>1. (Done(h) /\ job[h].op \notin Entries) \/ Set(h, [job[h] EXCEPT !.pc = "drop", !.fh = 0])
      BY <1>9 DEF UndoOpen
    <2> QED  BY <2>1, <1>2, <1>3
  <1>10. CASE RemoveFile(h)
    <2>1. Done(h) /\ job[h].op \notin Entries
      BY <1>10 DEF RemoveFile
    <2> QED  BY <2>1, <1>2
  <1>11. CASE Move(h) \/ Converge(h)
    <2>1. /\ \A g \in Handlers \ {h} : job'[g].op = job[g].op /\ job'[g].ino = job[g].ino
          /\ job[h].op \notin Entries /\ job'[h].op \notin Entries
      BY <1>11, MoveJobs, ConvergeJobs
    <2>2. \A i \in Inos : ~Holds(job[h], i) /\ ~Holds(job'[h], i)
      BY <2>1 DEF Holds
    <2> QED  BY <2>1, <2>2
  <1>12. CASE Tables(h)
    <2>1. /\ job'[h] = Idle
          /\ \A g \in Handlers \ {h} : job'[g].op = job[g].op /\ job'[g].ino = job[g].ino
      BY <1>12, TablesJobs
    <2>2. job[h].op \notin Entries
      BY <1>12 DEF Tables
    <2>3. \A i \in Inos : ~Holds(job[h], i) /\ ~Holds(Idle, i)
      BY <2>2, IdleJob DEF Holds
    <2> QED  BY <2>1, <2>3
  <1> QED  BY <1>1, <1>4, <1>5, <1>6, <1>7, <1>8, <1>9, <1>10, <1>11, <1>12

LEMMA QuietNodes ==
    ASSUME TableInv, NEW h \in Handlers,
           \/ Lookup(h) \/ Create(h) \/ Mkdir(h) \/ Unlink(h) \/ Open(h) \/ Rename(h)
           \/ Make(h) \/ Stat(h) \/ OpenFile(h) \/ Remember(h) \/ ReplyLost(h)
           \/ UndoOpen(h) \/ RemoveFile(h) \/ Move(h) \/ Converge(h) \/ Tables(h)
    PROVE  UNCHANGED <<refs, forgets, leaked>> /\ \A i \in Inos : Count(i)' = Count(i)
PROOF
  <1>1. CASE Tables(h)
    <2> DEFINE old == job[h].path
               new == job[h].to
    <2>1. nodes' \in [DOMAIN nodes -> NodeType] /\ \A i \in DOMAIN nodes : nodes'[i].nlookup = nodes[i].nlookup
      <3>1. PICK stuck, unput, stuckFhs : RenameNodes(old, new, stuck, unput, stuckFhs)
        BY <1>1, TablesRename
      <3>2. Types /\ Numbers /\ old \in Paths /\ new \in Paths /\ Within(old, new)
        BY <1>1, TablesRename DEF TableInv
      <3> HIDE DEF old, new
      <3> QED  BY <3>1, <3>2, NodesRenamed
    <2>2. UNCHANGED <<refs, forgets, leaked>>
      BY <1>1 DEF Tables
    <2> QED  BY <2>1, <2>2 DEF Count
  <1>2. CASE ~Tables(h)
    <2>1. UNCHANGED <<nodes, refs, forgets, leaked>>
      BY <1>2 DEF Lookup, Create, Mkdir, Unlink, Begin, Open, Rename, Make, Stat, OpenFile, Remember, ReplyLost,
                  UndoOpen, RemoveFile, Move, Converge
    <2> QED  BY <2>1 DEF Count
  <1> QED  BY <1>1, <1>2

LEMMA BalanceQuiet ==
    ASSUME TableInv, LookupsBalanced, NEW h \in Handlers,
           \/ Lookup(h) \/ Create(h) \/ Mkdir(h) \/ Unlink(h) \/ Open(h) \/ Rename(h)
           \/ Make(h) \/ Stat(h) \/ OpenFile(h) \/ Remember(h) \/ ReplyLost(h)
           \/ UndoOpen(h) \/ RemoveFile(h) \/ Move(h) \/ Converge(h) \/ Tables(h)
    PROVE  LookupsBalanced'
PROOF
  <1>1. /\ \A g \in Handlers \ {h} : job'[g].op = job[g].op /\ job'[g].ino = job[g].ino
        /\ \A i \in Inos : Holds(job'[h], i) <=> Holds(job[h], i)
    BY QuietJob
  <1>2. UNCHANGED <<refs, forgets, leaked>> /\ \A i \in Inos : Count(i)' = Count(i)
    BY QuietNodes
  <1> QED  BY <1>1, <1>2, BalanceKept

\* internPath: one more holder, one more reference.
LEMMA BalanceIntern ==
    ASSUME TableInv, LookupsBalanced, NEW h \in Handlers, Intern(h)
    PROVE  LookupsBalanced'
PROOF
  <1>1. UNCHANGED <<refs, forgets, leaked>>
    BY DEF Intern
  <1>2. /\ job[h] \in JobType /\ job \in [Handlers -> JobType] /\ 0 \notin Inos
        /\ job[h].op \in Entries /\ job[h].ino = 0 /\ job[h].path \in Paths
    <2>1. job[h] \in JobType /\ job \in [Handlers -> JobType] /\ 0 \notin Inos
      BY DEF TableInv, Types, Inos
    <2>2. job[h].op \in Entries /\ job[h].pc = "intern"
      BY DEF Intern
    <2>3. JobOk(job[h])
      BY DEF TableInv, Jobs
    <2> QED  BY <2>1, <2>2, <2>3 DEF JobOk
  <1>3. CASE Done(h) /\ UNCHANGED nodes
    <2>1. job'[h] = Idle /\ \A g \in Handlers \ {h} : job'[g] = job[g]
      BY <1>2, <1>3
    <2>2. \A i \in Inos : ~Holds(job[h], i) /\ ~Holds(job'[h], i)
      BY <1>2, <2>1, IdleJob DEF Holds
    <2>3. \A i \in Inos : Count(i)' = Count(i)
      BY <1>3 DEF Count
    <2> QED  BY <1>1, <2>1, <2>2, <2>3, BalanceKept
  <1>4. CASE ~(Done(h) /\ UNCHANGED nodes)
    <2>1. PICK i \in Inos :
             /\ InternPath(job[h].path, i)
             /\ Set(h, [job[h] EXCEPT !.ino = i, !.pc = IF job[h].op = "create" THEN "remember" ELSE "reply"])
      BY <1>4 DEF Intern
    <2>2. /\ \A g \in Handlers \ {h} : job'[g] = job[g]
          /\ job'[h] = [job[h] EXCEPT !.ino = i, !.pc = IF job[h].op = "create" THEN "remember" ELSE "reply"]
      BY <1>2, <2>1
    <2>3. job'[h].op = job[h].op /\ job'[h].ino = i
      BY <1>2, <2>2 DEF JobType
    <2>4. /\ \A j \in Inos : ~Holds(job[h], j)
          /\ Holds(job'[h], i) /\ \A j \in Inos \ {i} : ~Holds(job'[h], j)
      BY <1>2, <2>3 DEF Holds
    <2>5. \A j \in Inos : \A g \in Handlers \ {h} : Holds(job'[g], j) <=> Holds(job[g], j)
      BY <2>2
    <2>6. \A j \in Inos \ {i} : Cardinality(Holding(j)') = Cardinality(Holding(j))
      BY <2>4, <2>5, OneHolder
    <2>7. Cardinality(Holding(i)) \in Nat /\ Cardinality(Holding(i)') = Cardinality(Holding(i)) + 1
      BY <2>4, <2>5, OneHolder
    <2>8. /\ DOMAIN nodes' = DOMAIN nodes \cup {i} /\ \A j \in DOMAIN nodes \ {i} : nodes'[j] = nodes[j]
          /\ nodes'[i].nlookup = 1 + (IF i \in DOMAIN nodes THEN nodes[i].nlookup ELSE 0)
      <3> DEFINE p == job[h].path
      <3>1. Types /\ Numbers /\ p \in Paths /\ InternPath(p, i)
        BY <1>2, <2>1 DEF TableInv
      <3> HIDE DEF p
      <3>2. nodes' \in [DOMAIN nodes \cup {i} -> NodeType]
        BY <3>1, Interned
      <3> QED  BY <3>1, <3>2, Interned
    <2>9. Count(i)' = 1 + Count(i) /\ \A j \in Inos \ {i} : Count(j)' = Count(j)
      BY <2>8 DEF Count
    <2>10. Count(i) = refs[i] + forgets[i] + leaked[i] + Cardinality(Holding(i))
      BY BalanceOf
    <2>11. refs[i] \in Nat /\ forgets[i] \in Nat /\ leaked[i] \in Nat
      BY DEF TableInv, Types
    <2>12. Count(i)' = refs'[i] + forgets'[i] + leaked'[i] + Cardinality(Holding(i)')
      BY <1>1, <2>7, <2>9, <2>10, <2>11
    <2> QED  BY <1>1, <2>6, <2>9, <2>12, BalanceMoves
  <1> QED  BY <1>3, <1>4 DEF Intern

\* A delivered entry: the handler's reference becomes the kernel's.
LEMMA BalanceReply ==
    ASSUME TableInv, LookupsBalanced, NEW h \in Handlers, Reply(h)
    PROVE  LookupsBalanced'
PROOF
  <1>0. PICK i \in Inos : i = job[h].ino
    BY DEF Reply, TableInv, Types, Jobs, JobOk, JobType
  <1>1. UNCHANGED <<nodes, forgets, leaked>> /\ Done(h)
    BY DEF Reply
  <1>2. /\ job[h] \in JobType /\ job \in [Handlers -> JobType] /\ 0 \notin Inos 
        /\ job[h].op \in Entries \cup {"open"}
    BY DEF Reply, TableInv, Types, Inos
  <1>3. /\ job'[h] = Idle /\ \A g \in Handlers \ {h} : job'[g] = job[g]
        /\ \A j \in Inos : ~Holds(job'[h], j)
    BY <1>1, <1>2, IdleJob DEF Holds
  <1>4. \A j \in Inos : Count(j)' = Count(j)
    BY <1>1 DEF Count
  <1>5. CASE job[h].op \notin Entries
    <2>1. UNCHANGED refs
      BY <1>5 DEF Reply
    <2>2. \A j \in Inos : ~Holds(job[h], j)
      BY <1>5 DEF Holds
    <2> QED  BY <1>1, <1>3, <1>4, <2>1, <2>2, BalanceKept
  <1>6. CASE job[h].op \in Entries
    <2>1. refs' = [refs EXCEPT ![i] = @ + 1] /\ refs \in [Inos -> Nat]
      BY <1>0, <1>6 DEF Reply, TableInv, Types
    <2>2. Holds(job[h], i) /\ \A j \in Inos \ {i} : ~Holds(job[h], j)
      BY <1>0, <1>6 DEF Holds
    <2>3. \A j \in Inos : \A g \in Handlers \ {h} : Holds(job'[g], j) <=> Holds(job[g], j)
      BY <1>3
    <2>4. \A j \in Inos \ {i} : Cardinality(Holding(j)') = Cardinality(Holding(j)) /\ refs'[j] = refs[j]
      BY <1>3, <2>1, <2>2, <2>3, OneHolder
    <2>5. Cardinality(Holding(i)) \in Nat /\ Cardinality(Holding(i)') = Cardinality(Holding(i)) - 1
      BY <1>2, <1>3, <2>2, <2>3, OneHolder
    <2>6. Count(i) = refs[i] + forgets[i] + leaked[i] + Cardinality(Holding(i))
      BY <1>2, BalanceOf
    <2>7. refs[i] \in Nat /\ forgets[i] \in Nat /\ leaked[i] \in Nat /\ refs'[i] = refs[i] + 1
      BY <1>2, <2>1 DEF TableInv, Types
    <2>8. Count(i)' = refs'[i] + forgets'[i] + leaked'[i] + Cardinality(Holding(i)')
      BY <1>1, <1>2, <1>4, <2>5, <2>6, <2>7
    <2> QED  BY <1>1, <1>2, <1>4, <2>4, <2>8, BalanceMoves
  <1> QED  BY <1>5, <1>6

\* A drop of no more references than there are leaves exactly the others.
LEMMA CountDropped ==
    ASSUME TableInv, NEW i \in Inos, NEW n \in Nat, DropLookup(i, n), n <= Count(i)
    PROVE  Count(i)' = Count(i) - n /\ \A j \in Inos \ {i} : Count(j)' = Count(j)
PROOF
  <1>1. /\ DOMAIN nodes' \subseteq DOMAIN nodes
        /\ \A j \in DOMAIN nodes \ {i} : j \in DOMAIN nodes' /\ nodes'[j] = nodes[j]
        /\ i \in DOMAIN nodes =>
             IF nodes[i].nlookup > n THEN i \in DOMAIN nodes' /\ nodes'[i].nlookup = nodes[i].nlookup - n
             ELSE i \notin DOMAIN nodes'
    BY Dropped DEF TableInv
  <1>2. i \in DOMAIN nodes => nodes[i].nlookup \in Nat
    BY DEF TableInv, Types
  <1>3. \A j \in Inos \ {i} : Count(j)' = Count(j)
    BY <1>1 DEF Count
  <1>4. Count(i)' = Count(i) - n
    BY <1>1, <1>2 DEF Count
  <1> QED  BY <1>3, <1>4

\* An entry that never reached the kernel gives its reference back.
LEMMA BalanceUndo ==
    ASSUME TableInv, LookupsBalanced, NEW h \in Handlers, UndoLookup(h)
    PROVE  LookupsBalanced'
PROOF
  <1>0. PICK i \in Inos : i = job[h].ino
    BY DEF UndoLookup, TableInv, Types, Jobs, JobOk, JobType
  <1>1. UNCHANGED <<refs, forgets, leaked>> /\ Done(h) /\ DropLookup(i, 1)
    BY <1>0 DEF UndoLookup
  <1>2. /\ job[h] \in JobType /\ job \in [Handlers -> JobType] /\ 0 \notin Inos 
        /\ job[h].op \in Entries
    BY DEF UndoLookup, TableInv, Types, Inos
  <1>3. /\ job'[h] = Idle /\ \A g \in Handlers \ {h} : job'[g] = job[g]
        /\ \A j \in Inos : ~Holds(job'[h], j)
    BY <1>1, <1>2, IdleJob DEF Holds
  <1>4. Holds(job[h], i) /\ \A j \in Inos \ {i} : ~Holds(job[h], j)
    BY <1>0, <1>2 DEF Holds
  <1>5. \A j \in Inos : \A g \in Handlers \ {h} : Holds(job'[g], j) <=> Holds(job[g], j)
    BY <1>3
  <1>6. \A j \in Inos \ {i} : Cardinality(Holding(j)') = Cardinality(Holding(j))
    BY <1>3, <1>4, <1>5, OneHolder
  <1>7. /\ Cardinality(Holding(i)) \in Nat /\ Cardinality(Holding(i)') = Cardinality(Holding(i)) - 1
        /\ Cardinality(Holding(i)) > 0
    BY <1>2, <1>3, <1>4, <1>5, OneHolder
  <1>8. Count(i) = refs[i] + forgets[i] + leaked[i] + Cardinality(Holding(i))
    BY <1>2, BalanceOf
  <1>9. refs[i] \in Nat /\ forgets[i] \in Nat /\ leaked[i] \in Nat
    BY <1>2 DEF TableInv, Types
  <1>10. Count(i)' = Count(i) - 1 /\ \A j \in Inos \ {i} : Count(j)' = Count(j)
    BY <1>1, <1>2, <1>7, <1>8, <1>9, CountDropped
  <1>11. Count(i)' = refs'[i] + forgets'[i] + leaked'[i] + Cardinality(Holding(i)')
    BY <1>1, <1>7, <1>8, <1>9, <1>10
  <1> QED  BY <1>1, <1>2, <1>6, <1>10, <1>11, BalanceMoves

\* The kernel's own steps and the handover hold no number.
LEMMA SameHolders ==
    ASSUME UNCHANGED job, NEW i
    PROVE  Cardinality(Holding(i)') = Cardinality(Holding(i))
  BY DEF Holding

LEMMA HoldersCounted ==
    ASSUME NEW i
    PROVE  Cardinality(Holding(i)) \in Nat
  BY TableAssumption, FS_Subset, FS_CardinalityType DEF Holding

LEMMA BalanceForget ==
    ASSUME TableInv, LookupsBalanced, NEW i \in Inos, Forget(i)
    PROVE  LookupsBalanced'
PROOF
  <1>1. UNCHANGED <<refs, leaked, job>> /\ DropLookup(i, forgets[i]) /\ forgets' = [forgets EXCEPT ![i] = 0]
    BY DEF Forget
  <1>2. refs[i] \in Nat /\ forgets[i] \in Nat /\ leaked[i] \in Nat /\ forgets \in [Inos -> Nat]
    BY DEF TableInv, Types
  <1>3. \A j \in Inos : Cardinality(Holding(j)') = Cardinality(Holding(j))
    BY <1>1, SameHolders
  <1>4. Cardinality(Holding(i)) \in Nat
    BY HoldersCounted
  <1>5. Count(i) = refs[i] + forgets[i] + leaked[i] + Cardinality(Holding(i))
    BY BalanceOf
  <1>6. Count(i)' = Count(i) - forgets[i] /\ \A j \in Inos \ {i} : Count(j)' = Count(j)
    BY <1>1, <1>2, <1>4, <1>5, CountDropped
  <1>7. Count(i)' = refs'[i] + forgets'[i] + leaked'[i] + Cardinality(Holding(i)')
    BY <1>1, <1>2, <1>3, <1>4, <1>5, <1>6
  <1>8. \A j \in Inos \ {i} : refs'[j] = refs[j] /\ forgets'[j] = forgets[j] /\ leaked'[j] = leaked[j]
    BY <1>1, <1>2
  <1> QED  BY <1>3, <1>6, <1>7, <1>8, BalanceMoves

\* An eviction sends the kernel's references back; a handover loses some of those.
LEMMA BalanceKernel ==
    ASSUME TableInv, LookupsBalanced, (\E i \in Inos : Evict(i)) \/ (\E f \in Fhs : Release(f)) \/ Handover
    PROVE  LookupsBalanced'
PROOF
  <1>1. UNCHANGED <<nodes, job>>
    <2>1. ASSUME Handover PROVE UNCHANGED <<nodes, job>>
      BY <2>1 DEF Handover, RestoreMaps
    <2> QED  BY <2>1 DEF Evict, Release
  <1>2. \A j \in Inos : Cardinality(Holding(j)') = Cardinality(Holding(j)) /\ Cardinality(Holding(j)) \in Nat
    BY <1>1, SameHolders, HoldersCounted
  <1>3. \A j \in Inos : refs[j] \in Nat /\ forgets[j] \in Nat /\ leaked[j] \in Nat
    BY DEF TableInv, Types
  <1>4. \A j \in Inos : refs'[j] + forgets'[j] + leaked'[j] = refs[j] + forgets[j] + leaked[j]
    <2>1. ASSUME NEW i \in Inos, Evict(i)
          PROVE  \A j \in Inos : refs'[j] + forgets'[j] + leaked'[j] = refs[j] + forgets[j] + leaked[j]
      <3>1. /\ refs[i] > 0 /\ forgets[i] = 0 /\ leaked' = leaked
            /\ forgets' = [forgets EXCEPT ![i] = refs[i]] /\ refs' = [refs EXCEPT ![i] = 0]
            /\ refs \in [Inos -> Nat] /\ forgets \in [Inos -> Nat]
        BY <2>1 DEF Evict, TableInv, Types
      <3> QED  BY <1>3, <3>1
    <2>2. ASSUME Handover
          PROVE  \A j \in Inos : refs'[j] + forgets'[j] + leaked'[j] = refs[j] + forgets[j] + leaked[j]
      <3>1. PICK lost \in SUBSET {i \in Inos : forgets[i] > 0} :
               /\ leaked' = [i \in Inos |-> leaked[i] + IF i \in lost THEN forgets[i] ELSE 0]
               /\ forgets' = [i \in Inos |-> IF i \in lost THEN 0 ELSE forgets[i]]
        BY <2>2 DEF Handover
      <3>2. UNCHANGED refs
        BY <2>2 DEF Handover
      <3> QED  BY <1>3, <3>1, <3>2
    <2>3. ASSUME NEW f \in Fhs, Release(f)
          PROVE  \A j \in Inos : refs'[j] + forgets'[j] + leaked'[j] = refs[j] + forgets[j] + leaked[j]
      BY <2>3 DEF Release
    <2> QED  BY <2>1, <2>2, <2>3
  <1>5. \A j \in Inos : Count(j)' = Count(j)
    BY <1>1 DEF Count
  <1>6. \A j \in Inos : Count(j) = refs[j] + forgets[j] + leaked[j] + Cardinality(Holding(j))
    BY BalanceOf
  <1>7. \A j \in Inos : Count(j)' = refs'[j] + forgets'[j] + leaked'[j] + Cardinality(Holding(j)')
    BY <1>2, <1>4, <1>5, <1>6
  <1> QED  BY <1>7, BalanceNext

LEMMA InitBalanced == Init => LookupsBalanced
PROOF
  <1> SUFFICES ASSUME Init, NEW i \in Inos
               PROVE  Count(i) = refs[i] + forgets[i] + leaked[i] + Cardinality(Holding(i))
    BY BalanceOf
  <1>1. /\ nodes = Empty /\ refs = [j \in Inos |-> 0] /\ forgets = refs /\ leaked = refs
        /\ job = [h \in Handlers |-> Idle]
    BY DEF Init
  <1>2. Holding(i) = {}
    BY <1>1, IdleJob DEF Holding
  <1>3. Cardinality(Holding(i)) = 0
    BY <1>2, FS_EmptySet
  <1>4. Count(i) = 0
    BY <1>1 DEF Count, Empty
  <1> QED  BY <1>1, <1>3, <1>4

LEMMA StepBalanced == TableInv /\ LookupsBalanced /\ [Next]_vars => LookupsBalanced'
PROOF
  <1> SUFFICES ASSUME TableInv, LookupsBalanced, [Next]_vars PROVE LookupsBalanced'
    OBVIOUS
  <1>1. ASSUME NEW h \in Handlers,
               \/ Lookup(h) \/ Create(h) \/ Mkdir(h) \/ Unlink(h) \/ Open(h) \/ Rename(h)
               \/ Make(h) \/ Stat(h) \/ OpenFile(h) \/ Remember(h) \/ ReplyLost(h)
               \/ UndoOpen(h) \/ RemoveFile(h) \/ Move(h) \/ Converge(h) \/ Tables(h)
        PROVE  LookupsBalanced'
    BY <1>1, BalanceQuiet
  <1>2. ASSUME NEW h \in Handlers, Intern(h) \/ Reply(h) \/ UndoLookup(h)
        PROVE  LookupsBalanced'
    BY <1>2, BalanceIntern, BalanceReply, BalanceUndo
  <1>3. ASSUME NEW i \in Inos, Forget(i)
        PROVE  LookupsBalanced'
    BY <1>3, BalanceForget
  <1>4. CASE (\E i \in Inos : Evict(i)) \/ (\E f \in Fhs : Release(f)) \/ Handover
    BY <1>4, BalanceKernel
  <1>5. CASE UNCHANGED vars
    BY <1>5 DEF vars, LookupsBalanced, Holding
  <1> QED  BY <1>1, <1>2, <1>3, <1>4, <1>5 DEF Next

\* internPath, dropLookup, the rollbacks and the handover, for any number of
\* handlers: a node's count is what the kernel holds, has sent back or lost
\* with an old image, plus the replies on their way.
THEOREM LookupsAreBalanced == Spec => []LookupsBalanced
PROOF
  <1>1. Init => TableInv /\ LookupsBalanced
    BY InitTables, InitBalanced
  <1>2. (TableInv /\ LookupsBalanced) /\ [Next]_vars => (TableInv /\ LookupsBalanced)'
    BY StepTable, StepBalanced
  <1> QED  BY <1>1, <1>2, PTL DEF Spec

-----------------------------------------------------------------------------
(* Inode numbers.                                                            *)

\* Only internPath makes a node.
LEMMA NodesMade ==
    ASSUME TableInv, [Next]_vars, ~\E h \in Handlers : Intern(h)
    PROVE  DOMAIN nodes' \subseteq DOMAIN nodes
PROOF
  <1>1. ASSUME NEW h \in Handlers, Tables(h)
        PROVE  DOMAIN nodes' \subseteq DOMAIN nodes
    BY <1>1, TablesRename DEF RenameNodes
  <1>2. ASSUME NEW i, NEW n, DropLookup(i, n)
        PROVE  DOMAIN nodes' \subseteq DOMAIN nodes
    BY <1>2 DEF DropLookup, Without
  <1>3. ASSUME NEW h \in Handlers, UndoLookup(h)
        PROVE  DOMAIN nodes' \subseteq DOMAIN nodes
    BY <1>2, <1>3 DEF UndoLookup
  <1>4. ASSUME NEW i \in Inos, Forget(i)
        PROVE  DOMAIN nodes' \subseteq DOMAIN nodes
    BY <1>2, <1>4 DEF Forget
  <1>5. ASSUME NEW h \in Handlers,
               \/ Lookup(h) \/ Create(h) \/ Mkdir(h) \/ Unlink(h) \/ Open(h) \/ Rename(h)
               \/ Make(h) \/ Stat(h) \/ OpenFile(h) \/ Remember(h) \/ Reply(h) \/ ReplyLost(h)
               \/ UndoOpen(h) \/ RemoveFile(h) \/ Move(h) \/ Converge(h)
        PROVE  DOMAIN nodes' \subseteq DOMAIN nodes
    BY <1>5 DEF Lookup, Create, Mkdir, Unlink, Begin, Open, Rename, Make, Stat, OpenFile, Remember, Reply,
                ReplyLost, UndoOpen, RemoveFile, Move, Converge
  <1>6. CASE (\E i \in Inos : Evict(i)) \/ (\E f \in Fhs : Release(f)) \/ Handover
    BY <1>6 DEF Evict, Release, Handover, RestoreMaps
  <1>7. CASE UNCHANGED vars
    BY <1>7 DEF vars
  <1> QED  BY <1>1, <1>3, <1>4, <1>5, <1>6, <1>7 DEF Next

\* internPath numbers a new node past every number ever given out, also after
\* a handover: a late request naming an old number never meets another file.
THEOREM NumbersAreFresh == Spec => NumbersNeverReused
PROOF
  <1>1. TableInv /\ [Next]_vars => [DOMAIN nodes' \ DOMAIN nodes \subseteq Inos \ used]_vars
    <2> SUFFICES ASSUME TableInv, [Next]_vars
                 PROVE  DOMAIN nodes' \ DOMAIN nodes \subseteq Inos \ used
      OBVIOUS
    <2>1. ASSUME NEW h \in Handlers, Intern(h)
          PROVE  DOMAIN nodes' \ DOMAIN nodes \subseteq Inos \ used
      <3>1. UNCHANGED nodes \/ \E i \in Inos : InternPath(job[h].path, i)
        BY <2>1 DEF Intern
      <3>2. ASSUME NEW p, NEW i \in Inos, InternPath(p, i)
            PROVE  DOMAIN nodes' \ DOMAIN nodes \subseteq Inos \ used
        <4>1. CASE p \in DOMAIN paths
          BY <3>2, <4>1 DEF InternPath
        <4>2. CASE p \notin DOMAIN paths
          <5>1. i = nextIno /\ DOMAIN nodes' = DOMAIN nodes \cup {i}
            BY <3>2, <4>2 DEF InternPath, With
          <5>2. i \notin used
            BY <5>1 DEF TableInv, Types, Numbers
          <5> QED  BY <5>1, <5>2
        <4> QED  BY <4>1, <4>2
      <3> QED  BY <3>1, <3>2
    <2>2. CASE ~\E h \in Handlers : Intern(h)
      BY <2>2, NodesMade
    <2> QED  BY <2>1, <2>2
  <1> QED  BY <1>1, TablesSound, PTL DEF Spec, NumbersNeverReused

-----------------------------------------------------------------------------
(* Open handles.                                                             *)

\* A step that makes, delivers and drops no handle.
LEMMA HandlesKept ==
    ASSUME Handles, \A g \in Handlers : job'[g].fh = job[g].fh,
           DOMAIN opens' = DOMAIN opens, UNCHANGED <<handles, nextFh>>
    PROVE  Handles'
PROOF
  <1>1. {job'[h].fh : h \in Handlers} = {job[h].fh : h \in Handlers}
    OBVIOUS
  <1>2. HandlesRecorded'
    BY <1>1 DEF Handles, HandlesRecorded
  <1> QED  BY <1>2 DEF Handles

LEMMA QuietHandles ==
    ASSUME TableInv, NEW h \in Handlers,
           \/ Lookup(h) \/ Create(h) \/ Mkdir(h) \/ Unlink(h) \/ Open(h) \/ Rename(h)
           \/ Make(h) \/ Stat(h) \/ Intern(h) \/ OpenFile(h) \/ ReplyLost(h)
           \/ UndoLookup(h) \/ RemoveFile(h) \/ Move(h) \/ Converge(h)
    PROVE  /\ UNCHANGED <<opens, handles, nextFh>>
           /\ \A g \in Handlers : job'[g].fh = job[g].fh
PROOF
  <1>0. job \in [Handlers -> JobType] /\ job[h] \in JobType /\ JobOk(job[h])
    BY DEF TableInv, Types, Jobs
  <1>1. UNCHANGED <<opens, handles, nextFh>>
    BY DEF Lookup, Create, Mkdir, Unlink, Begin, Open, Rename, Make, Stat, Intern, OpenFile, ReplyLost,
           UndoLookup, RemoveFile, Move, Converge
  <1>2. CASE Lookup(h) \/ Create(h) \/ Mkdir(h) \/ Unlink(h) \/ Open(h) \/ Rename(h)
    <2>1. PICK r \in JobType : Set(h, r) /\ job[h] = Idle /\ r.fh = 0
      BY <1>2, Begun
    <2> QED  BY <1>0, <1>1, <2>1, IdleJob
  <1>3. CASE Move(h) \/ Converge(h)
    BY <1>1, <1>3, MoveJobs, ConvergeJobs
  <1>4. CASE ~(Lookup(h) \/ Create(h) \/ Mkdir(h) \/ Unlink(h) \/ Open(h) \/ Rename(h) \/ Move(h) \/ Converge(h))
    <2>1. job[h].fh = 0 \/ job[h].pc \in {"reply"}
      BY <1>0, <1>4 DEF Make, Stat, Intern, OpenFile, ReplyLost, UndoLookup, RemoveFile, JobOk
    <2>2. CASE Done(h) /\ job[h].fh = 0
      BY <1>0, <1>1, <2>2, IdleJob
    <2>3. CASE ~(Done(h) /\ job[h].fh = 0)
      <3>1. PICK pc, o, i : \/ Set(h, [job[h] EXCEPT !.pc = pc])
                            \/ Set(h, [job[h] EXCEPT !.pc = pc, !.obj = o])
                            \/ Set(h, [job[h] EXCEPT !.ino = i, !.pc = pc])
        <4>1. CASE Make(h) \/ ReplyLost(h)
          <5>1. \E pc : Set(h, [job[h] EXCEPT !.pc = pc])
            BY <2>1, <2>3, <4>1 DEF Make, ReplyLost
          <5> QED  BY <5>1
        <4>2. CASE Stat(h) \/ OpenFile(h)
          <5>1. \E pc, o : Set(h, [job[h] EXCEPT !.pc = pc, !.obj = o])
            BY <2>1, <2>3, <4>2 DEF Stat, OpenFile
          <5> QED  BY <5>1
        <4>3. CASE Intern(h)
          <5>1. \E pc, i : Set(h, [job[h] EXCEPT !.ino = i, !.pc = pc])
            BY <2>1, <2>3, <4>3 DEF Intern
          <5> QED  BY <5>1
        <4>4. CASE UndoLookup(h) \/ RemoveFile(h)
          BY <2>1, <2>3, <4>4 DEF UndoLookup, RemoveFile
        <4> QED  BY <1>4, <4>1, <4>2, <4>3, <4>4
      <3>2. ASSUME NEW j \in JobType
            PROVE  /\ [j EXCEPT !.pc = pc].fh = j.fh /\ [j EXCEPT !.pc = pc, !.obj = o].fh = j.fh
                   /\ [j EXCEPT !.ino = i, !.pc = pc].fh = j.fh
        BY DEF JobType
      <3>3. \A r : job' = [job EXCEPT ![h] = r] => (job'[h] = r /\ \A g \in Handlers \ {h} : job'[g] = job[g])
        BY <1>0
      <3>4. job'[h].fh = job[h].fh /\ \A g \in Handlers \ {h} : job'[g] = job[g]
        BY <1>0, <3>1, <3>2, <3>3
      <3> QED  BY <1>1, <3>4
    <2> QED  BY <2>2, <2>3
  <1> QED  BY <1>2, <1>3, <1>4

\* rememberOpen takes a handle nobody was ever given.
LEMMA HandlesRemember ==
    ASSUME TableInv, Handles, NEW h \in Handlers, Remember(h)
    PROVE  Handles'
PROOF
  <1>0. /\ job \in [Handlers -> JobType] /\ job[h] \in JobType /\ job[h].fh = 0 /\ nextFh \in Nat \ {0}
        /\ UNCHANGED handles
    BY DEF Remember, TableInv, Types, Jobs, JobOk
  <1>1. CASE Goto(h, "reply") /\ UNCHANGED <<opens, nextFh>>
    <2>1. \A g \in Handlers \ {h} : job'[g] = job[g]
      BY <1>0, <1>1
    <2>2. job'[h] = [job[h] EXCEPT !.pc = "reply"]
      BY <1>0, <1>1
    <2>3. job'[h].fh = job[h].fh
      BY <1>0, <2>2 DEF JobType
    <2> QED  BY <1>0, <1>1, <2>1, <2>3, HandlesKept
  <1>2. CASE ~(Goto(h, "reply") /\ UNCHANGED <<opens, nextFh>>)
    <2>1. /\ opens' = With(opens, nextFh, job[h].path) /\ nextFh' = nextFh + 1
          /\ Set(h, [job[h] EXCEPT !.pc = "reply", !.fh = nextFh])
      BY <1>2 DEF Remember
    <2>2. /\ \A g \in Handlers \ {h} : job'[g] = job[g]
          /\ job'[h] = [job[h] EXCEPT !.pc = "reply", !.fh = nextFh]
      BY <1>0, <2>1
    <2>3. job'[h].fh = nextFh
      BY <1>0, <2>2 DEF JobType
    <2>4. DOMAIN opens' = DOMAIN opens \cup {nextFh}
      BY <2>1 DEF With
    <2>5. {job'[g].fh : g \in Handlers} \ {0} = ({job[g].fh : g \in Handlers} \ {0}) \cup {nextFh}
      <3> DEFINE F == {job[g].fh : g \in Handlers}
                 G == {job'[g].fh : g \in Handlers}
      <3>1. \A g \in Handlers : job'[g].fh = IF g = h THEN nextFh ELSE job[g].fh
        BY <2>2, <2>3
      <3>2. G \subseteq F \cup {nextFh} /\ nextFh \in G
        BY <3>1
      <3>3. \A f \in F \ {0} : f \in G
        <4> SUFFICES ASSUME NEW g \in Handlers, job[g].fh # 0 PROVE job[g].fh \in G
          OBVIOUS
        <4>1. g # h
          BY <1>0
        <4> QED  BY <3>1, <4>1
      <3> HIDE DEF F, G
      <3>4. G \ {0} = (F \ {0}) \cup {nextFh}
        BY <1>0, <3>2, <3>3
      <3> QED  BY <3>4 DEF F, G
    <2>6. HandlesRecorded'
      BY <1>0, <2>4, <2>5 DEF Handles, HandlesRecorded
    <2>7. nextFh \notin DOMAIN opens /\ \A f \in DOMAIN opens : f \in Nat /\ f < nextFh'
      BY <1>0, <2>1 DEF Handles, TableInv, Types, Fhs
    <2>8. nextFh \notin DOMAIN handles /\ \A g \in Handlers : job[g].fh # nextFh
      BY <1>0, <2>7 DEF Handles, HandlesRecorded
    <2>9. \A f \in DOMAIN opens' : f < nextFh'
      BY <1>0, <2>1, <2>4, <2>7
    <2>10. \A g \in Handlers : job'[g].fh # 0 =>
              (job'[g].fh \notin DOMAIN handles /\ \A k \in Handlers : job'[k].fh = job'[g].fh => k = g)
      <3>1. \A g \in Handlers : job'[g].fh = IF g = h THEN nextFh ELSE job[g].fh
        BY <2>2, <2>3
      <3>2. \A g \in Handlers : job[g].fh # 0 =>
              (job[g].fh \notin DOMAIN handles /\ \A k \in Handlers : job[k].fh = job[g].fh => k = g)
        BY DEF Handles
      <3> QED  BY <3>1, <3>2, <2>8
    <2> QED  BY <1>0, <2>6, <2>9, <2>10 DEF Handles
  <1> QED  BY <1>1, <1>2

\* A handler that lets its handle go: to the kernel, or back.
LEMMA HandleLeft ==
    ASSUME Handles, NEW h \in Handlers, \A g \in Handlers \ {h} : job'[g].fh = job[g].fh, job'[h].fh = 0,
           UNCHANGED nextFh,
           \/ /\ DOMAIN handles' = DOMAIN handles \cup ({job[h].fh} \ {0})
              /\ DOMAIN opens' = DOMAIN opens
           \/ /\ DOMAIN opens' = DOMAIN opens \ {job[h].fh}
              /\ DOMAIN handles' = DOMAIN handles
              /\ 0 \notin DOMAIN opens
    PROVE  Handles'
PROOF
  <1>1. ({job'[g].fh : g \in Handlers} \ {0}) \cup ({job[h].fh} \ {0}) = {job[g].fh : g \in Handlers} \ {0}
    OBVIOUS
  <1>2. \A g \in Handlers \ {h} : job[h].fh # 0 => job[g].fh # job[h].fh
    BY DEF Handles
  <1>3. job[h].fh # 0 => job[h].fh \notin DOMAIN handles
    BY DEF Handles
  <1>4. job[h].fh # 0 => job[h].fh \notin {job'[g].fh : g \in Handlers}
    BY <1>2
  <1>5. DOMAIN opens = DOMAIN handles \cup ({job[g].fh : g \in Handlers} \ {0})
    BY DEF Handles, HandlesRecorded
  <1>6. DOMAIN opens' = DOMAIN handles' \cup ({job'[g].fh : g \in Handlers} \ {0})
    BY <1>1, <1>3, <1>4, <1>5
  <1>7. \A g \in Handlers : job'[g].fh # 0 =>
           (job'[g].fh \notin DOMAIN handles' /\ \A k \in Handlers : job'[k].fh = job'[g].fh => k = g)
    BY <1>2 DEF Handles
  <1>8. \A f \in DOMAIN opens' : f < nextFh'
    BY DEF Handles
  <1> QED  BY <1>6, <1>7, <1>8 DEF Handles, HandlesRecorded

LEMMA StepHandles == TableInv /\ Handles /\ [Next]_vars => Handles'
PROOF
  <1> SUFFICES ASSUME TableInv, Handles, [Next]_vars PROVE Handles'
    OBVIOUS
  <1>0. job \in [Handlers -> JobType] /\ 0 \notin DOMAIN opens /\ 0 \notin DOMAIN handles
    BY DEF TableInv, Types, Fhs
  <1>1. ASSUME NEW h \in Handlers,
               \/ Lookup(h) \/ Create(h) \/ Mkdir(h) \/ Unlink(h) \/ Open(h) \/ Rename(h)
               \/ Make(h) \/ Stat(h) \/ Intern(h) \/ OpenFile(h) \/ ReplyLost(h)
               \/ UndoLookup(h) \/ RemoveFile(h) \/ Move(h) \/ Converge(h)
        PROVE  Handles'
    BY <1>1, QuietHandles, HandlesKept
  <1>2. ASSUME NEW h \in Handlers, Remember(h)
        PROVE  Handles'
    BY <1>2, HandlesRemember
  <1>3. ASSUME NEW h \in Handlers, Reply(h)
        PROVE  Handles'
    <2>1. /\ Done(h) /\ UNCHANGED <<opens, nextFh>>
          /\ handles' = IF job[h].fh # 0 THEN With(handles, job[h].fh, job[h].ino) ELSE handles
      BY <1>3 DEF Reply
    <2>2. job'[h].fh = 0 /\ \A g \in Handlers \ {h} : job'[g].fh = job[g].fh
      BY <1>0, <2>1, IdleJob
    <2>3. DOMAIN handles' = DOMAIN handles \cup ({job[h].fh} \ {0})
      BY <2>1 DEF With
    <2> QED  BY <2>1, <2>2, <2>3, HandleLeft
  <1>4. ASSUME NEW h \in Handlers, UndoOpen(h)
        PROVE  Handles'
    <2>1. opens' = Without(opens, job[h].fh) /\ UNCHANGED <<handles, nextFh>>
      BY <1>4 DEF UndoOpen
    <2>2. job'[h].fh = 0 /\ \A g \in Handlers \ {h} : job'[g].fh = job[g].fh
      <3>1. CASE Done(h)
        BY <1>0, <3>1, IdleJob
      <3>2. CASE ~Done(h)
        <4>1. job' = [job EXCEPT ![h] = [job[h] EXCEPT !.pc = "drop", !.fh = 0]]
          BY <1>4, <3>2 DEF UndoOpen
        <4>2. job'[h] = [job[h] EXCEPT !.pc = "drop", !.fh = 0] /\ \A g \in Handlers \ {h} : job'[g] = job[g]
          BY <1>0, <4>1
        <4>3. job'[h].fh = 0
          BY <1>0, <4>2 DEF JobType
        <4> QED  BY <4>2, <4>3
      <3> QED  BY <3>1, <3>2
    <2>3. DOMAIN opens' = DOMAIN opens \ {job[h].fh}
      BY <2>1 DEF Without
    <2> QED  BY <1>0, <2>1, <2>2, <2>3, HandleLeft
  <1>5. ASSUME NEW h \in Handlers, Tables(h)
        PROVE  Handles'
    <2>1. /\ job'[h] = Idle /\ job[h].fh = 0
          /\ \A g \in Handlers \ {h} : job'[g].fh = job[g].fh
      BY <1>5, TablesJobs DEF Tables, TableInv, Jobs, JobOk
    <2>2. DOMAIN opens' = DOMAIN opens
      BY <1>5, TablesRename DEF RenameNodes
    <2>3. UNCHANGED <<handles, nextFh>>
      BY <1>5 DEF Tables
    <2> QED  BY <2>1, <2>2, <2>3, IdleJob, HandlesKept
  <1>6. ASSUME NEW i \in Inos, Evict(i) \/ Forget(i)
        PROVE  Handles'
    <2>1. UNCHANGED <<opens, handles, nextFh, job>>
      BY <1>6 DEF Evict, Forget
    <2> QED  BY <2>1, HandlesKept
  <1>7. ASSUME NEW f \in Fhs, Release(f)
        PROVE  Handles'
    <2>1. /\ f \in DOMAIN handles /\ UNCHANGED <<job, nextFh>>
          /\ DOMAIN handles' = DOMAIN handles \ {f} /\ DOMAIN opens' = DOMAIN opens \ {f}
      BY <1>7 DEF Release, Without
    <2>2. f \notin {job[h].fh : h \in Handlers} \ {0}
      BY <2>1 DEF Handles
    <2>3. HandlesRecorded'
      BY <2>1, <2>2 DEF Handles, HandlesRecorded
    <2> QED  BY <2>1, <2>3 DEF Handles
  <1>8. CASE Handover
    <2>1. UNCHANGED <<opens, handles, nextFh, job>>
      BY <1>8 DEF Handover, RestoreMaps, RestoreNext
    <2> QED  BY <2>1, HandlesKept
  <1>9. CASE UNCHANGED vars
    BY <1>9, HandlesKept DEF vars
  <1> QED  BY <1>1, <1>2, <1>3, <1>4, <1>5, <1>6, <1>7, <1>8, <1>9 DEF Next

\* rememberOpen, forgetOpen and the rollbacks, for any number of handlers: the
\* handle table holds a record for exactly the handles the kernel will
\* release and those being replied, so none leaks and none is dropped early.
THEOREM HandlesAreRecorded == Spec => []HandlesRecorded
PROOF
  <1>1. Init => TableInv /\ Handles
    <2> SUFFICES ASSUME Init PROVE Handles
      BY InitTables
    <2>1. opens = Empty /\ handles = Empty /\ job = [h \in Handlers |-> Idle]
      BY DEF Init
    <2>2. \A h \in Handlers : job[h].fh = 0
      BY <2>1, IdleJob
    <2> QED  BY <2>1, <2>2 DEF Handles, HandlesRecorded, Empty
  <1>2. (TableInv /\ Handles) /\ [Next]_vars => (TableInv /\ Handles)'
    BY StepTable, StepHandles
  <1>3. Handles => HandlesRecorded
    BY DEF Handles
  <1> QED  BY <1>1, <1>2, <1>3, PTL DEF Spec

-----------------------------------------------------------------------------
(* The keys of the path map.                                                 *)


-----------------------------------------------------------------------------
(* The keys of the path map.                                                 *)

\* A request keeps its operation until it is done.
LEMMA OpsKept ==
    ASSUME TableInv, NEW h \in Handlers,
           \/ Make(h) \/ Stat(h) \/ Intern(h) \/ OpenFile(h) \/ Remember(h) \/ Reply(h) \/ ReplyLost(h)
           \/ UndoOpen(h) \/ UndoLookup(h) \/ RemoveFile(h) \/ Move(h) \/ Converge(h) \/ Tables(h)
    PROVE  \A g \in Handlers : job'[g].op \in {job[g].op, "none"}
PROOF
  <1>0. job \in [Handlers -> JobType] /\ job[h] \in JobType
    BY DEF TableInv, Types
  <1>1. CASE Tables(h)
    BY <1>1, TablesJobs, IdleJob
  <1>2. CASE Done(h)
    BY <1>0, <1>2, IdleJob
  <1>3. CASE Move(h) \/ Converge(h)
    BY <1>3, MoveJobs, ConvergeJobs
  <1>4. CASE ~Tables(h) /\ ~Move(h) /\ ~Converge(h) /\ ~Done(h)
    <2>1. PICK pc, o, i, f : \/ Set(h, [job[h] EXCEPT !.pc = pc])
                             \/ Set(h, [job[h] EXCEPT !.pc = pc, !.obj = o])
                             \/ Set(h, [job[h] EXCEPT !.ino = i, !.pc = pc])
                             \/ Set(h, [job[h] EXCEPT !.pc = pc, !.fh = f])
      <3>1. CASE Make(h) \/ ReplyLost(h)
        <4>1. \E pc : Set(h, [job[h] EXCEPT !.pc = pc])
          BY <1>4, <3>1 DEF Make, ReplyLost
        <4> QED  BY <4>1
      <3>2. CASE Stat(h) \/ OpenFile(h)
        <4>1. \E pc, o : Set(h, [job[h] EXCEPT !.pc = pc, !.obj = o])
          BY <1>4, <3>2 DEF Stat, OpenFile
        <4> QED  BY <4>1
      <3>3. CASE Intern(h)
        <4>1. \E pc, i : Set(h, [job[h] EXCEPT !.ino = i, !.pc = pc])
          BY <1>4, <3>3 DEF Intern
        <4> QED  BY <4>1
      <3>4. CASE Remember(h)
        <4>1. (\E pc : Set(h, [job[h] EXCEPT !.pc = pc])) \/ (\E pc, f : Set(h, [job[h] EXCEPT !.pc = pc, !.fh = f]))
          BY <3>4 DEF Remember
        <4> QED  BY <4>1
      <3>5. CASE UndoOpen(h)
        <4>1. \E pc, f : Set(h, [job[h] EXCEPT !.pc = pc, !.fh = f])
          BY <1>4, <3>5 DEF UndoOpen
        <4> QED  BY <4>1
      <3>6. CASE Reply(h) \/ UndoLookup(h) \/ RemoveFile(h)
        BY <1>4, <3>6 DEF Reply, UndoLookup, RemoveFile
      <3> QED  BY <1>4, <3>1, <3>2, <3>3, <3>4, <3>5, <3>6
    <2>2. ASSUME NEW j \in JobType
          PROVE  /\ [j EXCEPT !.pc = pc].op = j.op /\ [j EXCEPT !.pc = pc, !.obj = o].op = j.op
                 /\ [j EXCEPT !.ino = i, !.pc = pc].op = j.op /\ [j EXCEPT !.pc = pc, !.fh = f].op = j.op
      BY DEF JobType
    <2>3. \A r : job' = [job EXCEPT ![h] = r] => (job'[h] = r /\ \A g \in Handlers \ {h} : job'[g] = job[g])
      BY <1>0
    <2>4. job'[h].op = job[h].op /\ \A g \in Handlers \ {h} : job'[g] = job[g]
      BY <1>0, <2>1, <2>2, <2>3
    <2> QED  BY <2>4
  <1> QED  BY <1>1, <1>2, <1>3, <1>4

\* The kernel's renames are among the operations that may run.
LEMMA RenamesRun ==
    ASSUME TableInv, Keys, [Next]_vars
    PROVE  \A g \in Handlers : job'[g].op = "rename" => "rename" \in load.ops
PROOF
  <1>0. /\ job \in [Handlers -> JobType]
        /\ \A g \in Handlers : job[g].op = "rename" => "rename" \in load.ops
    BY DEF TableInv, Types, Keys, NoRename
  <1>1. ASSUME NEW h \in Handlers, NEW op, NEW pc, NEW p, NEW q, NEW i,
               Set(h, Starting(op, pc, p, q, i)), op = "rename" => "rename" \in load.ops
        PROVE  \A g \in Handlers : job'[g].op = "rename" => "rename" \in load.ops
    <2>1. Starting(op, pc, p, q, i).op = op
      BY DEF Starting
    <2> QED  BY <1>0, <1>1, <2>1
  <1>2. ASSUME NEW h \in Handlers, Lookup(h) \/ Create(h) \/ Mkdir(h) \/ Unlink(h)
        PROVE  \A g \in Handlers : job'[g].op = "rename" => "rename" \in load.ops
    <2>1. PICK op \in {"lookup", "create", "mkdir", "unlink"} : \E pc, p : Set(h, Starting(op, pc, p, <<>>, 0))
      BY <1>2 DEF Lookup, Create, Mkdir, Unlink, Begin
    <2> QED  BY <1>1, <2>1
  <1>3. ASSUME NEW h \in Handlers, Open(h)
        PROVE  \A g \in Handlers : job'[g].op = "rename" => "rename" \in load.ops
    <2>1. PICK i, p : Set(h, Starting("open", "open", p, <<>>, i))
      BY <1>3 DEF Open
    <2> QED  BY <1>1, <2>1
  <1>4. ASSUME NEW h \in Handlers, Rename(h)
        PROVE  \A g \in Handlers : job'[g].op = "rename" => "rename" \in load.ops
    <2>1. PICK op \in load.ops \cap {"rename", "exchange"} : \E p, q : Set(h, Starting(op, "move", p, q, 0))
      BY <1>4, ZenonT(30) DEF Rename
    <2>2. PICK p, q : Set(h, Starting(op, "move", p, q, 0))
      BY <2>1
    <2>3. op = "rename" => "rename" \in load.ops
      OBVIOUS
    <2> QED  BY <1>1, <2>2, <2>3
  <1>5. ASSUME NEW h \in Handlers,
               \/ Make(h) \/ Stat(h) \/ Intern(h) \/ OpenFile(h) \/ Remember(h) \/ Reply(h) \/ ReplyLost(h)
               \/ UndoOpen(h) \/ UndoLookup(h) \/ RemoveFile(h) \/ Move(h) \/ Converge(h) \/ Tables(h)
        PROVE  \A g \in Handlers : job'[g].op = "rename" => "rename" \in load.ops
    BY <1>0, <1>5, OpsKept
  <1>6. CASE (\E i \in Inos : Evict(i) \/ Forget(i)) \/ (\E f \in Fhs : Release(f)) \/ Handover \/ UNCHANGED vars
    <2>1. UNCHANGED job
      BY <1>6 DEF Evict, Forget, Release, Handover, vars
    <2> QED  BY <1>0, <2>1
  <1> QED  BY <1>2, <1>3, <1>4, <1>5, <1>6 DEF Next

\* Of an action that is no handover, only internPath, dropLookup and
\* renameNodes touch the nodes and their names.
LEMMA KeysNext ==
    ASSUME TableInv, Keys, [Next]_vars, UNCHANGED <<load, handovers>>,
           (handovers = 0 \/ NoRename) =>
               \A p \in DOMAIN paths' : paths'[p].key = paths'[p].ino,
           NoRename => \A i \in DOMAIN nodes' : nodes'[i].path \in DOMAIN paths' /\ paths'[nodes'[i].path].ino = i
    PROVE  Keys'
  BY RenamesRun DEF Keys, NoRename

LEMMA KeysUnmoved ==
    ASSUME TableInv, Keys, [Next]_vars, UNCHANGED <<nodes, paths, load, handovers>>
    PROVE  Keys'
  BY KeysNext DEF Keys

LEMMA KeysIntern ==
    ASSUME TableInv, Keys, [Next]_vars, NEW h \in Handlers, Intern(h)
    PROVE  Keys'
PROOF
  <1>1. UNCHANGED <<load, handovers>>
    BY DEF Intern
  <1>2. CASE UNCHANGED <<nodes, paths>>
    BY <1>1, <1>2, KeysUnmoved
  <1>3. CASE ~UNCHANGED <<nodes, paths>>
    <2> DEFINE p == job[h].path
    <2>1. PICK i \in Inos : InternPath(p, i)
      BY <1>3 DEF Intern
    <2>2. Types /\ Numbers /\ p \in Paths
      BY DEF Intern, TableInv, Jobs, JobOk
    <2>3. PICK q \in Paths : q = p
      BY <2>2
    <2>4. InternPath(q, i)
      BY <2>1, <2>3
    <2>5. /\ DOMAIN nodes' = DOMAIN nodes \cup {i} /\ DOMAIN paths' = DOMAIN paths \cup {q}
          /\ \A j \in DOMAIN nodes \ {i} : nodes'[j] = nodes[j]
          /\ nodes'[i].path = q
          /\ paths'[q].ino = i /\ \A x \in DOMAIN paths \ {q} : paths'[x] = paths[x]
          /\ IF q \in DOMAIN paths THEN paths'[q] = paths[q] ELSE paths'[q].key = i
      <3>1. nodes' \in [DOMAIN nodes \cup {i} -> NodeType] /\ paths' \in [DOMAIN paths \cup {q} -> KeyType]
        BY <2>2, <2>4, Interned
      <3> QED  BY <3>1, <2>2, <2>4, Interned
    <2> HIDE DEF p
    <2>6. (handovers = 0 \/ NoRename) => \A x \in DOMAIN paths' : paths'[x].key = paths'[x].ino
      BY <2>5 DEF Keys
    <2>7. NoRename => \A j \in DOMAIN nodes' : nodes'[j].path \in DOMAIN paths' /\ paths'[nodes'[j].path].ino = j
      BY <2>5 DEF Keys
    <2> QED  BY <1>1, <2>6, <2>7, KeysNext
  <1> QED  BY <1>2, <1>3

LEMMA KeysDrop ==
    ASSUME TableInv, Keys, [Next]_vars, UNCHANGED <<load, handovers>>, NEW i \in Inos, NEW n \in Nat, DropLookup(i, n)
    PROVE  Keys'
PROOF
  <1>1. /\ DOMAIN nodes' \subseteq DOMAIN nodes
        /\ \A j \in DOMAIN nodes' : nodes'[j].path = nodes[j].path
        /\ \A q \in DOMAIN paths' : q \in DOMAIN paths /\ paths'[q] = paths[q]
    BY Dropped DEF TableInv
  <1>2. \A q \in DOMAIN paths : paths[q].ino \in DOMAIN nodes' => q \in DOMAIN paths'
    BY DEF DropLookup, Without, TableInv, Types
  <1>3. NoRename => \A j \in DOMAIN nodes' : nodes'[j].path \in DOMAIN paths' /\ paths'[nodes'[j].path].ino = j
    BY <1>1, <1>2 DEF Keys
  <1>4. (handovers = 0 \/ NoRename) => \A q \in DOMAIN paths' : paths'[q].key = paths'[q].ino
    BY <1>1 DEF Keys
  <1> QED  BY <1>3, <1>4, KeysNext

LEMMA KeysTables ==
    ASSUME TableInv, Keys, [Next]_vars, NEW h \in Handlers, Tables(h)
    PROVE  Keys'
PROOF
  <1>1. UNCHANGED <<load, handovers>> /\ ~NoRename
    BY DEF Tables, Keys
  <1> DEFINE old == job[h].path
             new == job[h].to
  <1>2. \A p \in DOMAIN paths' : paths'[p].key = paths'[p].ino \/ (p \in DOMAIN paths /\ paths'[p] = paths[p])
    <2>1. PICK stuck, unput, stuckFhs : RenameNodes(old, new, stuck, unput, stuckFhs)
      BY TablesRename
    <2>2. Types /\ Numbers /\ old \in Paths /\ new \in Paths /\ Within(old, new)
      BY TablesRename DEF TableInv
    <2> HIDE DEF old, new
    <2> QED  BY <2>1, <2>2, NodesRenamed
  <1>3. (handovers = 0 \/ NoRename) => \A q \in DOMAIN paths' : paths'[q].key = paths'[q].ino
    BY <1>1, <1>2 DEF Keys
  <1> QED  BY <1>1, <1>3, KeysNext

\* A handover maps the paths anew, from the nodes: the same map where no two
\* nodes share a path.
LEMMA KeysHandover ==
    ASSUME TableInv, Keys, [Next]_vars, Handover
    PROVE  Keys'
PROOF
  <1>1. RestoreMaps /\ UNCHANGED <<load, nodes>> /\ handovers' = handovers + 1
    BY DEF Handover, RestoreMaps
  <1>2. handovers' \in Nat /\ handovers' # 0
    BY <1>1 DEF Keys
  <1>3. CASE ~NoRename
    BY <1>1, <1>2, <1>3, RenamesRun DEF Keys, NoRename
  <1>4. CASE NoRename
    <2> DEFINE at(p) == {i \in DOMAIN nodes : nodes[i].path = p}
    <2>1. paths' = [p \in {nodes[i].path : i \in DOMAIN nodes} |-> [ino |-> Max(at(p)), key |-> Min(at(p))]]
      BY <1>1 DEF RestoreMaps
    <2>2. ASSUME NEW i \in DOMAIN nodes
          PROVE  Max(at(nodes[i].path)) = i /\ Min(at(nodes[i].path)) = i
      <3>1. at(nodes[i].path) = {i}
        BY <1>4 DEF Keys
      <3>2. i \in Nat /\ i \in 0..MaxIno
        BY TableAssumption DEF TableInv, Types, Inos
      <3>3. {i} \in SUBSET Nat /\ {i} \in SUBSET (0..MaxIno) /\ {i} # {} /\ MaxIno \in Nat
        BY <3>2, TableAssumption
      <3>4. Max({i}) \in {i} /\ Min({i}) \in {i}
        BY <3>3, LeastExists, GreatestExists
      <3> QED  BY <3>1, <3>4
    <2>3. \A i \in DOMAIN nodes : nodes[i].path \in DOMAIN paths' /\ paths'[nodes[i].path] = [ino |-> i, key |-> i]
      BY <2>1, <2>2
    <2>4. \A p \in DOMAIN paths' : \E i \in DOMAIN nodes : p = nodes[i].path
      BY <2>1
    <2> HIDE DEF at
    <2>5. ASSUME NEW p \in DOMAIN paths'
          PROVE  paths'[p].key = paths'[p].ino
      <3>1. PICK i \in DOMAIN nodes : p = nodes[i].path
        BY <2>4
      <3>2. paths'[p] = [ino |-> i, key |-> i]
        BY <2>3, <3>1
      <3> QED  BY <3>2
    <2>6. ASSUME NEW i \in DOMAIN nodes'
          PROVE  nodes'[i].path \in DOMAIN paths' /\ paths'[nodes'[i].path].ino = i
      <3>1. nodes' = nodes
        BY <1>1
      <3>2. nodes[i].path \in DOMAIN paths' /\ paths'[nodes[i].path] = [ino |-> i, key |-> i]
        BY <2>3, <3>1
      <3> QED  BY <3>1, <3>2
    <2> QED  BY <1>1, <1>2, <2>5, <2>6, RenamesRun DEF Keys, NoRename
  <1> QED  BY <1>3, <1>4

LEMMA StepKeys == TableInv /\ Keys /\ [Next]_vars => Keys'
PROOF
  <1> SUFFICES ASSUME TableInv, Keys, [Next]_vars PROVE Keys'
    OBVIOUS
  <1>1. ASSUME NEW h \in Handlers,
               \/ Lookup(h) \/ Create(h) \/ Mkdir(h) \/ Unlink(h) \/ Open(h) \/ Rename(h)
               \/ Make(h) \/ Stat(h) \/ OpenFile(h) \/ Remember(h) \/ Reply(h) \/ ReplyLost(h)
               \/ UndoOpen(h) \/ RemoveFile(h) \/ Move(h) \/ Converge(h)
        PROVE  Keys'
    <2>1. UNCHANGED <<nodes, paths, load, handovers>>
      BY <1>1 DEF Lookup, Create, Mkdir, Unlink, Begin, Open, Rename, Make, Stat, OpenFile, Remember, Reply,
                  ReplyLost, UndoOpen, RemoveFile, Move, Converge
    <2> QED  BY <2>1, KeysUnmoved
  <1>2. ASSUME NEW h \in Handlers, Intern(h)
        PROVE  Keys'
    BY <1>2, KeysIntern
  <1>3. ASSUME NEW h \in Handlers, UndoLookup(h)
        PROVE  Keys'
    <2>1. PICK i \in Inos : i = job[h].ino
      BY <1>3 DEF UndoLookup, TableInv, Types, Jobs, JobOk, JobType
    <2>2. DropLookup(i, 1) /\ UNCHANGED <<load, handovers>>
      BY <1>3, <2>1 DEF UndoLookup
    <2> QED  BY <2>2, KeysDrop
  <1>4. ASSUME NEW i \in Inos, Forget(i)
        PROVE  Keys'
    <2>1. PICK n \in Nat : n = forgets[i]
      BY DEF TableInv, Types
    <2>2. DropLookup(i, n) /\ UNCHANGED <<load, handovers>>
      BY <1>4, <2>1 DEF Forget
    <2> QED  BY <2>2, KeysDrop
  <1>5. ASSUME NEW h \in Handlers, Tables(h)
        PROVE  Keys'
    BY <1>5, KeysTables
  <1>6. CASE Handover
    BY <1>6, KeysHandover
  <1>7. CASE (\E i \in Inos : Evict(i)) \/ (\E f \in Fhs : Release(f)) \/ UNCHANGED vars
    <2>1. UNCHANGED <<nodes, paths, load, handovers>>
      BY <1>7 DEF Evict, Release, vars
    <2> QED  BY <2>1, KeysUnmoved
  <1> QED  BY <1>1, <1>2, <1>3, <1>4, <1>5, <1>6, <1>7 DEF Next

\* State.Node: a path is owned by its node and aliased as a key, and the key
\* stays that of a live node of that path, unless a handover maps anew the
\* paths of a session in which a rename put two nodes at one path.
THEOREM KeysAreOwned == Spec => []((handovers = 0 \/ "rename" \notin load.ops) => KeysAliased)
PROOF
  <1>1. Init => TableInv /\ Keys
    <2> SUFFICES ASSUME Init PROVE Keys
      BY InitTables
    <2>1. nodes = Empty /\ paths = Empty /\ handovers = 0 /\ job = [h \in Handlers |-> Idle]
      BY DEF Init
    <2> QED  BY <2>1, IdleJob DEF Keys, Empty
  <1>2. (TableInv /\ Keys) /\ [Next]_vars => (TableInv /\ Keys)'
    BY StepTable, StepKeys
  <1>3. TableInv /\ Keys => ((handovers = 0 \/ "rename" \notin load.ops) => KeysAliased)
    BY DEF TableInv, Numbers, Keys, NoRename, KeysAliased
  <1> QED  BY <1>1, <1>2, <1>3, PTL DEF Spec
=============================================================================
