------------------------------ MODULE NodeTable ------------------------------
(***************************************************************************)
(* The tables of lib/fuse.c that find a node by its number or by its name: *)
(* linear hashing, one bucket split or merged at a time.  A table is a     *)
(* record, a chain is the set of the nodes in it, and a node is a record   *)
(* of its number, its parent's number and its name (a byte).  The two      *)
(* tables differ in their hash functions alone.                            *)
(***************************************************************************)
EXTENDS Integers, FiniteSets, FiniteSetsExt

CONSTANTS MinSize,     \* NODE_TABLE_MIN_SIZE, 8192
          MergeIter    \* the bound on remerge's loop, 8

ASSUME NodeTableAssumption == MinSize \in Nat /\ MinSize % 2 = 0 /\ MinSize > 1 /\ MergeIter \in Nat \ {0}

NodeTableInit == [array |-> [i \in 0..(MinSize - 1) |-> {}], size |-> MinSize, split |-> 0, use |-> 0]

\* Buckets below split use the whole size, the others half of it.
Bucket(t, key) ==
    LET hash == key % t.size
        oldhash == hash % (t.size \div 2)
    IN IF oldhash >= t.split THEN oldhash ELSE hash

IdHash(t, n) == Bucket(t, n.nodeid)
NameHash(t, n) == Bucket(t, n.parent * 31 + n.name)

\* get_node_nocheck and lookup_node.
GetNode(t, n) == \E m \in t.array[IdHash(t, n)] : m.nodeid = n.nodeid
LookupNode(t, n) == \E m \in t.array[NameHash(t, n)] : m.parent = n.parent /\ m.name = n.name

\* node_table_resize; memory may not be had.
Resize(t, memory) ==
    IF ~memory THEN t
    ELSE [t EXCEPT !.array = [i \in 0..(2 * t.size - 1) |-> IF i < t.size THEN t.array[i] ELSE {}],
                   !.size = 2 * t.size, !.split = 0]

\* The next bucket is split; key says what each of its nodes is hashed by.
Split(t, key, memory) ==
    LET up == [t EXCEPT !.split = @ + 1]
        moved == {n \in t.array[t.split] : Bucket(up, key[n]) # t.split}
        done == [up EXCEPT !.array = [i \in DOMAIN t.array |->
                    (IF i = t.split THEN t.array[i] \ moved ELSE t.array[i])
                    \cup {n \in moved : Bucket(up, key[n]) = i}]]
    IN IF t.split = t.size \div 2 THEN t
       ELSE IF done.split = done.size \div 2 THEN Resize(done, memory) ELSE done

RehashId(t, memory) == Split(t, [n \in t.array[t.split] |-> n.nodeid], memory)
RehashName(t, memory) == Split(t, [n \in t.array[t.split] |-> n.parent * 31 + n.name], memory)

HashId(t, n, memory) ==
    LET in == [t EXCEPT !.array[IdHash(t, n)] = @ \cup {n}, !.use = @ + 1]
    IN IF in.use >= in.size \div 2 THEN RehashId(in, memory) ELSE in

HashName(t, n, memory) ==
    LET in == [t EXCEPT !.array[NameHash(t, n)] = @ \cup {n}, !.use = @ + 1]
    IN IF in.use >= in.size \div 2 THEN RehashName(in, memory) ELSE in

\* Mutant: the table is halved with buckets of its upper half in use.
ReduceEarly(t) ==
    IF t.size \div 2 < MinSize THEN t
    ELSE [t EXCEPT !.size = t.size \div 2, !.split = t.size \div 4,
                   !.array = [i \in 0..(t.size \div 2 - 1) |-> t.array[i]]]

\* node_table_reduce, called with split at 0.  A realloc that fails leaves the
\* array longer than it need be.
Reduce(t) ==
    IF t.split # 0 \/ t.size \div 2 < MinSize THEN t
    ELSE [t EXCEPT !.size = t.size \div 2, !.split = t.size \div 4,
                   !.array = [i \in 0..(t.size \div 2 - 1) |-> t.array[i]]]

\* Splits are undone, the last one first: up to a bucket that had something to
\* merge, and not more than MergeIter.
Merge(t0) ==
    LET t == Reduce(t0)
        steps == Min({MergeIter, t.split})
        upper(s) == t.array[t.split - s + t.size \div 2]
        hits == {s \in 1..steps : upper(s) # {}}
        k == IF hits = {} THEN steps ELSE Min(hits)
        at == t.split - k
    IN IF hits = {} THEN [t EXCEPT !.split = at]
       ELSE [t EXCEPT !.split = at,
                      !.array[at] = @ \cup upper(k), !.array[at + t.size \div 2] = {}]

RemergeId(t) == Merge(t)
RemergeName(t) == Merge(t)

UnhashId(t, n) ==
    LET out == [t EXCEPT !.array[IdHash(t, n)] = @ \ {n}, !.use = @ - 1]
    IN IF out.use < out.size \div 4 THEN RemergeId(out) ELSE out

UnhashName(t, n) ==
    LET out == [t EXCEPT !.array[NameHash(t, n)] = @ \ {n}, !.use = @ - 1]
    IN IF out.use < out.size \div 4 THEN RemergeName(out) ELSE out
==============================================================================
