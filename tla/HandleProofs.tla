----------------------------- MODULE HandleProofs -----------------------------
(***************************************************************************)
(* The open handles of InodeTable keep to their files, for any handlers,   *)
(* paths, trees and loads: outside a rename the record of a handle names   *)
(* the file it was opened on, if that file has a name.                     *)
(*                                                                         *)
(* Between a rename of the origin and that of the tables the records lag   *)
(* behind.  Follows says where the file of a record is in the meantime,    *)
(* Untorn that no two renames under way disagree about it but the torn     *)
(* ones, whose records are not judged, and Apart, from the kernel's locks  *)
(* on directories, that a name under way is not made anew.                 *)
(***************************************************************************)
EXTENDS InodeTableProofs, SequenceTheorems

-----------------------------------------------------------------------------
(* Paths: prefixes of sequences of names, and renaming one.                  *)

Steps == UNION {Range(p) : p \in Paths}
Tracks == Seq(Steps)

LEMMA PathsAreTracks == Paths \subseteq Tracks \ {<<>>}
PROOF
  <1> SUFFICES ASSUME NEW p \in Paths PROVE p \in Seq(Steps) /\ p # <<>>
    BY DEF Tracks
  <1>1. p \in Seq(Range(p)) /\ p # <<>>
    BY TableAssumption
  <1>2. Range(p) \subseteq Steps
    BY DEF Steps
  <1> QED  BY <1>1, <1>2

\* IsPrefix, name by name.
LEMMA CoveredNames ==
    ASSUME NEW a \in Tracks, NEW b \in Tracks
    PROVE  Covered(a, b) <=> Len(a) <= Len(b) /\ \A i \in 1..Len(a) : a[i] = b[i]
PROOF
  <1>1. a \in Seq(Steps) /\ b \in Seq(Steps) /\ Len(a) \in Nat /\ Len(b) \in Nat
    BY DEF Tracks
  <1>2. SubSeq(a, 1, Len(a)) = [i \in 1..Len(a) |-> a[i]]
    BY <1>1
  <1>3. CASE Len(a) <= Len(b)
    <2>1. SubSeq(b, 1, Len(a)) = [i \in 1..Len(a) |-> b[i]]
      BY <1>1, <1>3
    <2>2. SubSeq(a, 1, Len(a)) = SubSeq(b, 1, Len(a)) <=> \A i \in 1..Len(a) : a[i] = b[i]
      BY <1>2, <2>1
    <2> QED  BY <1>3, <2>2 DEF Covered, IsPrefix
  <1> QED  BY <1>1, <1>3 DEF Covered, IsPrefix

\* Paths are equal when their names are.
LEMMA SameNames ==
    ASSUME NEW a \in Tracks, NEW b \in Tracks, Len(a) = Len(b), \A i \in 1..Len(a) : a[i] = b[i]
    PROVE  a = b
  BY DEF Tracks

\* renamedPath, name by name.
LEMMA RenamedNames ==
    ASSUME NEW a \in Tracks, NEW b \in Tracks, NEW p \in Tracks, Covered(a, p)
    PROVE  /\ Renamed(a, b, p) \in Tracks
           /\ Len(Renamed(a, b, p)) = Len(b) + Len(p) - Len(a)
           /\ \A i \in 1..Len(b) : Renamed(a, b, p)[i] = b[i]
           /\ \A i \in 1..(Len(p) - Len(a)) : Renamed(a, b, p)[Len(b) + i] = p[Len(a) + i]
PROOF
  <1> DEFINE s == SubSeq(p, Len(a) + 1, Len(p))
             r == b \o s
  <1>1. a \in Seq(Steps) /\ b \in Seq(Steps) /\ p \in Seq(Steps)
        /\ Len(a) \in Nat /\ Len(b) \in Nat /\ Len(p) \in Nat /\ Len(a) <= Len(p)
    BY CoveredNames DEF Tracks
  <1>2. s \in Seq(Steps) /\ Len(s) = Len(p) - Len(a) /\ \A i \in 1..(Len(p) - Len(a)) : s[i] = p[Len(a) + i]
    BY <1>1
  <1> HIDE DEF s
  <1>3. r \in Seq(Steps) /\ Len(r) = Len(b) + Len(s) /\ (\A i \in 1..Len(b) : r[i] = b[i])
        /\ \A i \in 1..Len(s) : r[Len(b) + i] = s[i]
    <2> HIDE DEF r
    <2>1. Len(s) \in Nat
      BY <1>2
    <2>2. /\ r \in Seq(Steps) /\ Len(r) = Len(b) + Len(s)
          /\ \A i \in 1..(Len(b) + Len(s)) : r[i] = IF i <= Len(b) THEN b[i] ELSE s[i - Len(b)]
      BY <1>1, <1>2, ConcatProperties DEF r
    <2>3. \A i \in 1..Len(b) : r[i] = b[i]
      BY <1>1, <2>1, <2>2
    <2>4. ASSUME NEW i \in 1..Len(s) PROVE r[Len(b) + i] = s[i]
      <3>1. Len(b) + i \in 1..(Len(b) + Len(s)) /\ ~(Len(b) + i <= Len(b)) /\ (Len(b) + i) - Len(b) = i
        BY <1>1, <2>1
      <3>2. r[Len(b) + i] = s[(Len(b) + i) - Len(b)]
        BY <2>2, <3>1
      <3> QED  BY <3>1, <3>2
    <2> QED  BY <2>2, <2>3, <2>4
  <1>4. r = Renamed(a, b, p)
    BY DEF Renamed, r, s
  <1> HIDE DEF r
  <1> QED  BY <1>1, <1>2, <1>3, <1>4 DEF Tracks

\* Two prefixes of one path: one of them is a prefix of the other.
LEMMA Comparable ==
    ASSUME NEW a \in Tracks, NEW b \in Tracks, NEW p \in Tracks, Covered(a, p), Covered(b, p)
    PROVE  Covered(a, b) \/ Covered(b, a)
PROOF
  <1>1. Len(a) \in Nat /\ Len(b) \in Nat /\ Len(p) \in Nat
    BY DEF Tracks
  <1>2. Len(a) <= Len(p) /\ Len(b) <= Len(p) /\ (\A i \in 1..Len(a) : a[i] = p[i]) /\ \A i \in 1..Len(b) : b[i] = p[i]
    BY CoveredNames
  <1>3. CASE Len(a) <= Len(b)
    BY <1>1, <1>2, <1>3, CoveredNames
  <1>4. CASE Len(b) <= Len(a)
    BY <1>1, <1>2, <1>4, CoveredNames
  <1> QED  BY <1>1, <1>3, <1>4

\* A renamed path is under the new name.
LEMMA RenamedCovered ==
    ASSUME NEW a \in Tracks, NEW b \in Tracks, NEW p \in Tracks, Covered(a, p)
    PROVE  Renamed(a, b, p) \in Tracks /\ Covered(b, Renamed(a, b, p))
PROOF
  <1> DEFINE r == Renamed(a, b, p)
  <1>1. Len(a) \in Nat /\ Len(b) \in Nat /\ Len(p) \in Nat /\ Len(a) <= Len(p)
    BY CoveredNames DEF Tracks
  <1>2. r \in Tracks /\ Len(r) = Len(b) + Len(p) - Len(a) /\ \A i \in 1..Len(b) : r[i] = b[i]
    BY RenamedNames
  <1> HIDE DEF r
  <1>3. Covered(b, r)
    BY <1>1, <1>2, CoveredNames
  <1> QED  BY <1>2, <1>3 DEF r

\* Renaming back is the inverse.
LEMMA RenamedBack ==
    ASSUME NEW a \in Tracks, NEW b \in Tracks, NEW p \in Tracks, Covered(a, p)
    PROVE  Renamed(b, a, Renamed(a, b, p)) = p
PROOF
  <1> DEFINE r == Renamed(a, b, p)
             q == Renamed(b, a, r)
  <1>1. Len(a) \in Nat /\ Len(b) \in Nat /\ Len(p) \in Nat /\ Len(a) <= Len(p) /\ \A i \in 1..Len(a) : a[i] = p[i]
    BY CoveredNames DEF Tracks
  <1>2. r \in Tracks /\ Covered(b, r)
    BY RenamedCovered
  <1>3. Len(r) = Len(b) + Len(p) - Len(a) /\ \A i \in 1..(Len(p) - Len(a)) : r[Len(b) + i] = p[Len(a) + i]
    BY RenamedNames
  <1> HIDE DEF r
  <1>4. /\ q \in Tracks /\ Len(q) = Len(a) + Len(r) - Len(b)
        /\ \A i \in 1..Len(a) : q[i] = a[i]
        /\ \A i \in 1..(Len(r) - Len(b)) : q[Len(a) + i] = r[Len(b) + i]
    BY <1>2, RenamedNames, ZenonT(60)
  <1> HIDE DEF q
  <1>5. Len(q) = Len(p)
    BY <1>1, <1>3, <1>4
  <1>6. ASSUME NEW i \in 1..Len(q) PROVE q[i] = p[i]
    <2>1. CASE i <= Len(a)
      BY <1>1, <1>4, <1>5, <2>1
    <2>2. CASE i > Len(a)
      <3>1. i - Len(a) \in 1..(Len(p) - Len(a)) /\ i - Len(a) \in 1..(Len(r) - Len(b)) /\ Len(a) + (i - Len(a)) = i
        BY <1>1, <1>3, <1>5, <2>2
      <3>2. q[Len(a) + (i - Len(a))] = r[Len(b) + (i - Len(a))] /\ r[Len(b) + (i - Len(a))] = p[Len(a) + (i - Len(a))]
        BY <1>3, <1>4, <3>1
      <3> QED  BY <3>1, <3>2
    <2> QED  BY <1>1, <1>5, <2>1, <2>2
  <1>7. q = p
    BY <1>4, <1>5, <1>6, SameNames
  <1> QED  BY <1>7 DEF q, r

\* A path under a directory, and not the directory itself: its parent is too.
LEMMA CoveredParent ==
    ASSUME NEW a \in Tracks \ {<<>>}, NEW p \in Tracks, Covered(a, p), a # p
    PROVE  Front(p) \in Tracks \ {<<>>} /\ Covered(a, Front(p))
PROOF
  <1>1. Len(a) \in Nat /\ Len(p) \in Nat /\ Len(a) <= Len(p) /\ (\A i \in 1..Len(a) : a[i] = p[i]) /\ Len(a) # 0
    BY CoveredNames DEF Tracks
  <1>2. Len(a) # Len(p)
    BY <1>1, SameNames
  <1>3. Front(p) = [i \in 1..(Len(p) - 1) |-> p[i]] /\ Front(p) \in Tracks /\ Len(Front(p)) = Len(p) - 1
    BY <1>1, <1>2 DEF Front, Tracks
  <1>4. Covered(a, Front(p))
    BY <1>1, <1>2, <1>3, CoveredNames
  <1>5. Front(p) # <<>>
    <2>1. Len(p) - 1 # 0
      BY <1>1, <1>2
    <2>2. Len(Front(p)) = Len(p) - 1
      BY <1>3
    <2> QED  BY <2>1, <2>2, EmptySeq
  <1> QED  BY <1>3, <1>4, <1>5

-----------------------------------------------------------------------------
(* The invariant.                                                            *)

USE DEF tables, origin, kernel, ghosts, OpNames, PcNames, Entries, Set, At, Goto, Done

NameOps == {"create", "mkdir", "unlink", "rename", "exchange"}
Fronts(j) == {Front(q) : q \in {j.path, j.to} \ {<<>>}}
Pending(g) == job[g].pc = "tables"
Related(g, h) ==
    \E p \in {job[g].path, job[g].to}, q \in {job[h].path, job[h].to} : Covered(p, q) \/ Covered(q, p)

\* The directories of two operations under way are not the same ones, the two
\* names of a rename are not above one another, and only a rename waits for the
\* tables.
Apart ==
    /\ \A g, h \in Handlers : g # h /\ job[g].op \in NameOps /\ job[h].op \in NameOps =>
          Fronts(job[g]) \cap Fronts(job[h]) = {}
    /\ \A g \in Handlers : job[g].op \in {"rename", "exchange"} =>
          /\ ~Covered(job[g].path, job[g].to) /\ ~Covered(job[g].to, job[g].path)
          /\ job[g].op = "exchange" => Within(job[g].to, job[g].path)
    /\ \A g \in Handlers : Pending(g) => job[g].op = "rename"

\* Two renames on their way to the tables that name paths above one another are
\* both torn, and under the old name of one that is not there is nothing.
Untorn ==
    /\ \A g, h \in Handlers : g # h /\ Pending(g) /\ Pending(h) /\ Related(g, h) => job[g].torn
    /\ \A g \in Handlers : Pending(g) /\ ~job[g].torn => \A p \in DOMAIN fs : ~Covered(job[g].path, p)

\* The origin's objects have one path each, and the next one is new.
Objects ==
    /\ \A p \in DOMAIN fs : fs[p] < nextObj
    /\ \A p, q \in DOMAIN fs : fs[p] = fs[q] => p = q
    /\ \A f \in DOMAIN opens : opened[f] < nextObj
    /\ \A h \in Handlers : job[h].obj < nextObj

\* Where a file recorded under p is: where the renames on their way to the
\* tables will put the record, unless one that moves it is torn.
Follows(p, q) ==
    \/ \E g \in Handlers : Pending(g) /\ job[g].torn /\ Covered(job[g].path, p)
    \/ \E g \in Handlers : /\ Pending(g) /\ ~job[g].torn /\ Covered(job[g].path, p)
                           /\ q = Renamed(job[g].path, job[g].to, p)
    \/ q = p /\ \A g \in Handlers : Pending(g) => ~Covered(job[g].path, p)
Sound(p, o) == \A q \in DOMAIN fs : fs[q] = o => Follows(p, q)

\* A handler that has opened, or made and looked up, the file it will record.
Copying(h) == job[h].op \in {"open", "create"} /\ job[h].pc \in {"intern", "remember"}
Records ==
    /\ faults = 0 => \A f \in DOMAIN opens : f \notin torn \cup crossed => Sound(opens[f], opened[f])
    /\ \A h \in Handlers : Copying(h) /\ ~job[h].torn => Sound(job[h].path, job[h].obj)

HandleInv == TableInv /\ Handles /\ faults \in Nat /\ Apart /\ Untorn /\ Objects /\ Records

-----------------------------------------------------------------------------
(* What the jobs of a step have in common.                                   *)

\* The renames on their way to the tables are the same.
SamePending ==
    \A g \in Handlers : /\ job'[g].pc = "tables" <=> job[g].pc = "tables"
                        /\ job[g].pc = "tables" => /\ job'[g].path = job[g].path /\ job'[g].to = job[g].to
                                                   /\ job'[g].torn = job[g].torn

LEMMA FollowsKept ==
    ASSUME SamePending, NEW p, NEW q
    PROVE  Follows(p, q)' <=> Follows(p, q)
  BY DEF SamePending, Follows, Pending

\* Nothing appears in the origin.
LEMMA SoundKept ==
    ASSUME SamePending, \A q \in DOMAIN fs' : q \in DOMAIN fs /\ fs'[q] = fs[q], NEW p, NEW o, Sound(p, o)
    PROVE  Sound(p, o)'
  BY FollowsKept DEF Sound

LEMMA UntornKept ==
    ASSUME SamePending, Untorn, \A q \in DOMAIN fs' : q \in DOMAIN fs
    PROVE  Untorn'
PROOF
  <1>1. ASSUME NEW g \in Handlers, NEW h \in Handlers, g # h, Pending(g)', Pending(h)', Related(g, h)'
        PROVE  job'[g].torn
    <2>1. Pending(g) /\ Pending(h) /\ Related(g, h)
      BY <1>1 DEF SamePending, Pending, Related
    <2> QED  BY <1>1, <2>1 DEF SamePending, Pending, Untorn
  <1>2. ASSUME NEW g \in Handlers, Pending(g)', ~job'[g].torn, NEW p \in DOMAIN fs'
        PROVE  ~Covered(job'[g].path, p)
    BY <1>2 DEF SamePending, Pending, Untorn
  <1> QED  BY <1>1, <1>2 DEF Untorn

\* An operation goes on under the names it began with, or is over.
GoesOn(g) ==
    \/ job'[g].op = job[g].op /\ job'[g].path = job[g].path /\ job'[g].to = job[g].to
    \/ job'[g].op = "none"

LEMMA ApartKept ==
    ASSUME Apart, \A g \in Handlers : GoesOn(g),
           \A g \in Handlers : job'[g].pc = "tables" => job'[g].op = "rename"
    PROVE  Apart'
PROOF
  <1>1. ASSUME NEW g \in Handlers, NEW h \in Handlers, g # h, job'[g].op \in NameOps, job'[h].op \in NameOps
        PROVE  Fronts(job'[g]) \cap Fronts(job'[h]) = {}
    <2>1. job[g].op \in NameOps /\ job[h].op \in NameOps
      BY <1>1 DEF GoesOn, NameOps
    <2>2. Fronts(job'[g]) = Fronts(job[g]) /\ Fronts(job'[h]) = Fronts(job[h])
      BY <1>1 DEF GoesOn, NameOps, Fronts
    <2> QED  BY <1>1, <2>1, <2>2 DEF Apart
  <1>2. ASSUME NEW g \in Handlers, job'[g].op \in {"rename", "exchange"}
        PROVE  /\ ~Covered(job'[g].path, job'[g].to) /\ ~Covered(job'[g].to, job'[g].path)
               /\ job'[g].op = "exchange" => Within(job'[g].to, job'[g].path)
    <2>1. job'[g].op = job[g].op /\ job'[g].path = job[g].path /\ job'[g].to = job[g].to
      BY <1>2 DEF GoesOn
    <2> QED  BY <1>2, <2>1 DEF Apart
  <1> QED  BY <1>1, <1>2 DEF Apart, Pending, Within

\* The paths of a rename under way.
LEMMA PendingPaths ==
    ASSUME TableInv, Apart, NEW g \in Handlers, Pending(g)
    PROVE  /\ job[g].path \in Paths /\ job[g].to \in Paths /\ Within(job[g].path, job[g].to)
           /\ job[g].path \in Tracks \ {<<>>} /\ job[g].to \in Tracks \ {<<>>}
           /\ ~Covered(job[g].path, job[g].to) /\ ~Covered(job[g].to, job[g].path)
PROOF
  <1>1. job[g].op = "rename"
    BY DEF Apart
  <1>2. job[g].path \in Paths /\ job[g].to \in Paths /\ Within(job[g].path, job[g].to)
    BY <1>1 DEF TableInv, Jobs, JobOk
  <1> QED  BY <1>1, <1>2, PathsAreTracks DEF Apart

\* A step of one handler that is neither Move, Converge nor Tables.
QuietStep(h, r) ==
    /\ Set(h, r) /\ job[h].pc # "tables" /\ r.pc # "tables"
    /\ \/ r.op = job[h].op /\ r.path = job[h].path /\ r.to = job[h].to
       \/ r.op = "none"

LEMMA QuietJobs ==
    ASSUME TableInv, Apart, NEW h \in Handlers, NEW r, QuietStep(h, r)
    PROVE  /\ SamePending /\ Apart' /\ job'[h] = r /\ \A g \in Handlers \ {h} : job'[g] = job[g]
PROOF
  <1>1. job'[h] = r /\ \A g \in Handlers \ {h} : job'[g] = job[g]
    <2>1. job \in [Handlers -> JobType]
      BY DEF TableInv, Types
    <2>2. job' = [job EXCEPT ![h] = r]
      BY DEF QuietStep
    <2> QED  BY <2>1, <2>2
  <1>2. SamePending
    BY <1>1 DEF QuietStep, SamePending
  <1>3. \A g \in Handlers : GoesOn(g)
    BY <1>1 DEF QuietStep, GoesOn
  <1>4. \A g \in Handlers : job'[g].pc = "tables" => job'[g].op = "rename"
    BY <1>1 DEF QuietStep, Apart, Pending
  <1> QED  BY <1>1, <1>2, <1>3, <1>4, ApartKept

-----------------------------------------------------------------------------
(* A rename or an exchange of the origin.                                    *)

\* The three ways Move ends.
Fails(h) ==
    /\ fs' = fs /\ crossed' = crossed /\ job'[h] = Idle
    /\ \A g \in Handlers \ {h} : job'[g].torn = job[g].torn
Renames(h) ==
    /\ job[h].op = "rename" /\ fs' = Moved(job[h].path, job[h].to) /\ crossed' = crossed
    /\ job'[h].pc = "tables" /\ job'[h].op = job[h].op /\ job'[h].path = job[h].path /\ job'[h].to = job[h].to
    /\ job'[h].obj = job[h].obj /\ job'[h].torn = (Crossing(h) # {})
    /\ \A g \in Handlers \ {h} : job'[g].torn = (job[g].torn \/ g \in Crossing(h))
Swaps(h) ==
    /\ job[h].op = "exchange" /\ fs' = Exchanged(job[h].path, job[h].to) /\ job'[h] = Idle
    /\ \A f \in DOMAIN opens : Covered(job[h].path, opens[f]) \/ Covered(job[h].to, opens[f]) => f \in crossed'
    /\ crossed \subseteq crossed'
    /\ \A g \in Handlers \ {h} :
          job'[g].torn = (job[g].torn \/ g \in Crossing(h) \/ Opening(g, job[h].path) \/ Opening(g, job[h].to))

LEMMA MoveIs ==
    ASSUME TableInv, NEW h \in Handlers, Move(h)
    PROVE  /\ job[h].pc = "move" /\ job[h].op \in {"rename", "exchange"}
           /\ UNCHANGED <<load, tables, nextObj, kernel, leaked, used, opened, torn, count, faults, handovers>>
           /\ \A g \in Handlers \ {h} : /\ job'[g].op = job[g].op /\ job'[g].pc = job[g].pc
                                        /\ job'[g].path = job[g].path /\ job'[g].to = job[g].to
                                        /\ job'[g].obj = job[g].obj
           /\ Fails(h) \/ Renames(h) \/ Swaps(h)
PROOF
  <1> DEFINE old == job[h].path
             new == job[h].to
             plain == job[h].op = "rename"
             ok == /\ old \in DOMAIN fs /\ (Front(new) = <<>> \/ Front(new) \in DOMAIN fs)
                   /\ plain \/ new \in DOMAIN fs
                   /\ ~plain \/ ~Populated(new)
             swapped == ok /\ ~plain
             crossing == IF ok THEN Crossing(h) ELSE {}
             mark(g) == g \in crossing \/ (swapped /\ (Opening(g, old) \/ Opening(g, new)))
             jobs == [g \in Handlers |->
                        IF g # h THEN [job[g] EXCEPT !.torn = @ \/ mark(g)]
                        ELSE IF ok /\ plain THEN [job[h] EXCEPT !.pc = "tables", !.torn = crossing # {}] ELSE Idle]
  <1>1. job[h].pc = "move" /\ job[h].op \in {"rename", "exchange"}
    BY DEF Move
  <1>2. UNCHANGED <<load, tables, nextObj, kernel, leaked, used, opened, torn, count, faults, handovers>>
    BY DEF Move
  <1>3. fs' = IF ~ok THEN fs ELSE IF plain THEN Moved(old, new) ELSE Exchanged(old, new)
    BY DEF Move
  <1>4. crossed' = IF swapped THEN crossed \cup {f \in DOMAIN opens : Covered(old, opens[f]) \/ Covered(new, opens[f])}
                   ELSE crossed
    BY DEF Move
  <1>5. job' = jobs
    BY ZenonT(60) DEF Move
  <1>6. job[h] \in JobType /\ \A g \in Handlers : job[g] \in JobType
    BY DEF TableInv, Types
  <1>o. ok \in BOOLEAN
    OBVIOUS
  <1> HIDE DEF ok
  <1>7. ASSUME NEW g \in Handlers \ {h}
        PROVE  /\ job'[g].op = job[g].op /\ job'[g].pc = job[g].pc /\ job'[g].path = job[g].path
               /\ job'[g].to = job[g].to /\ job'[g].obj = job[g].obj
               /\ job'[g].torn = (job[g].torn \/ mark(g))
    <2> DEFINE m == mark(g)
    <2>1. job'[g] = [job[g] EXCEPT !.torn = @ \/ m]
      BY <1>5
    <2> HIDE DEF m
    <2>2. /\ job'[g].op = job[g].op /\ job'[g].pc = job[g].pc /\ job'[g].path = job[g].path
          /\ job'[g].to = job[g].to /\ job'[g].obj = job[g].obj /\ job'[g].torn = (job[g].torn \/ m)
      BY <1>6, <2>1 DEF JobType
    <2> QED  BY <2>2 DEF m
  <1>8. CASE ~ok
    <2>1. fs' = fs /\ crossed' = crossed /\ job'[h] = Idle
      BY <1>3, <1>4, <1>5, <1>8
    <2>2. \A g \in Handlers \ {h} : job'[g].torn = job[g].torn
      <3>1. \A g \in Handlers \ {h} : ~mark(g) /\ job[g].torn \in BOOLEAN
        BY <1>6, <1>8 DEF JobType
      <3> QED  BY <1>7, <3>1
    <2>3. Fails(h)
      BY <2>1, <2>2 DEF Fails
    <2> QED  BY <1>1, <1>2, <1>7, <2>3
  <1>9. CASE ok /\ plain
    <2>1. fs' = Moved(old, new) /\ crossed' = crossed /\ job'[h] = [job[h] EXCEPT !.pc = "tables", !.torn = crossing # {}]
      BY <1>3, <1>4, <1>5, <1>9
    <2>2. crossing = Crossing(h)
      BY <1>9
    <2> DEFINE c == Crossing(h) # {}
    <2>3. job'[h] = [job[h] EXCEPT !.pc = "tables", !.torn = c]
      BY <2>1, <2>2
    <2> HIDE DEF c
    <2>4. /\ job'[h].pc = "tables" /\ job'[h].op = job[h].op /\ job'[h].path = job[h].path
          /\ job'[h].to = job[h].to /\ job'[h].obj = job[h].obj /\ job'[h].torn = c
      BY <1>6, <2>3 DEF JobType
    <2>5. \A g \in Handlers \ {h} : job'[g].torn = (job[g].torn \/ g \in Crossing(h))
      <3>1. \A g \in Handlers \ {h} : mark(g) <=> g \in Crossing(h)
        BY <1>9, <2>2
      <3> QED  BY <1>7, <3>1
    <2>6. Renames(h)
      BY <1>9, <2>1, <2>4, <2>5 DEF Renames, c
    <2> QED  BY <1>1, <1>2, <1>7, <2>6
  <1>10. CASE ok /\ ~plain
    <2>1. fs' = Exchanged(old, new) /\ job'[h] = Idle /\ job[h].op = "exchange"
      BY <1>1, <1>3, <1>5, <1>10
    <2>2. /\ \A f \in DOMAIN opens : Covered(job[h].path, opens[f]) \/ Covered(job[h].to, opens[f]) => f \in crossed'
          /\ crossed \subseteq crossed'
      BY <1>4, <1>10
    <2>3. \A g \in Handlers \ {h} :
             mark(g) <=> g \in Crossing(h) \/ Opening(g, old) \/ Opening(g, new)
      BY <1>10
    <2>4. \A g \in Handlers \ {h} :
             job'[g].torn = (job[g].torn \/ g \in Crossing(h) \/ Opening(g, old) \/ Opening(g, new))
      BY <1>7, <2>3
    <2>5. Swaps(h)
      BY <2>1, <2>2, <2>4 DEF Swaps
    <2> QED  BY <1>1, <1>2, <1>7, <2>5
  <1> QED  BY <1>8, <1>9, <1>10

\* What a path of the origin held before a rename, or an exchange, is at.
Stays(old, new, p, q) == p = q /\ ~Covered(old, q) /\ ~Covered(new, q)
Goes(old, new, p, q) == Covered(old, q) /\ p = Renamed(old, new, q) /\ Covered(new, p)

\* Moved: a path holds what it did, or what the one it was renamed from did.
LEMMA MovedFrom ==
    ASSUME NEW old \in Paths, NEW new \in Paths, DOMAIN fs \subseteq Paths, fs' = Moved(old, new),
           NEW p \in DOMAIN fs'
    PROVE  p \in Tracks /\ \E q \in DOMAIN fs : /\ q \in Tracks /\ fs'[p] = fs[q]
                                                /\ Stays(old, new, p, q) \/ Goes(old, new, p, q)
PROOF
  <1> DEFINE from == Renamed(new, old, p)
             kept == {x \in DOMAIN fs : ~IsPrefix(old, x) /\ ~IsPrefix(new, x)}
             moved == {x \in Paths : IsPrefix(new, x) /\ Renamed(new, old, x) \in DOMAIN fs}
  <1>1. p \in kept \cup moved /\ fs'[p] = IF p \in moved THEN fs[from] ELSE fs[p]
    BY DEF Moved
  <1>2. old \in Tracks /\ new \in Tracks /\ p \in Tracks
    BY <1>1, PathsAreTracks
  <1>3. CASE p \in moved
    <2>1. Covered(new, p) /\ from \in DOMAIN fs /\ fs'[p] = fs[from]
      BY <1>1, <1>3 DEF Covered
    <2>2. from \in Tracks /\ Covered(old, from) /\ Renamed(old, new, from) = p
      BY <1>2, <2>1, RenamedCovered, RenamedBack
    <2>3. Goes(old, new, p, from)
      BY <2>1, <2>2 DEF Goes
    <2> HIDE DEF from
    <2> QED  BY <1>2, <2>1, <2>2, <2>3
  <1>4. CASE p \notin moved
    <2>1. p \in kept /\ fs'[p] = fs[p]
      BY <1>1, <1>4
    <2>2. Stays(old, new, p, p) /\ p \in DOMAIN fs
      BY <2>1 DEF Stays, Covered
    <2> HIDE DEF kept, moved
    <2> QED  BY <1>2, <2>1, <2>2
  <1> QED  BY <1>3, <1>4

\* Exchanged: the same, either way.
LEMMA ExchangedFrom ==
    ASSUME NEW old \in Paths, NEW new \in Paths, DOMAIN fs \subseteq Paths, fs' = Exchanged(old, new),
           NEW p \in DOMAIN fs'
    PROVE  p \in Tracks /\ \E q \in DOMAIN fs : /\ q \in Tracks /\ fs'[p] = fs[q]
                                                /\ \/ Stays(old, new, p, q) \/ Goes(old, new, p, q)
                                                   \/ Goes(new, old, p, q)
PROOF
  <1> DEFINE other(x) == IF IsPrefix(old, x) THEN Renamed(old, new, x)
                         ELSE IF IsPrefix(new, x) THEN Renamed(new, old, x) ELSE x
             from == other(p)
  <1>1. fs' = [x \in {q \in Paths : other(q) \in DOMAIN fs} |-> fs[other(x)]]
    BY DEF Exchanged
  <1>a. p \in Paths /\ from \in DOMAIN fs /\ fs'[p] = fs[from]
    BY <1>1
  <1>2. old \in Tracks /\ new \in Tracks /\ p \in Tracks
    BY <1>a, PathsAreTracks
  <1>3. CASE Covered(old, p)
    <2>1. from = Renamed(old, new, p)
      BY <1>3 DEF Covered
    <2> HIDE DEF from
    <2>2. from \in Tracks /\ Covered(new, from) /\ Renamed(new, old, from) = p
      BY <1>2, <1>3, <2>1, RenamedCovered, RenamedBack
    <2>3. Goes(new, old, p, from)
      BY <1>3, <2>2 DEF Goes
    <2> QED  BY <1>a, <1>2, <2>2, <2>3
  <1>4. CASE ~Covered(old, p) /\ Covered(new, p)
    <2>1. from = Renamed(new, old, p)
      BY <1>4 DEF Covered
    <2> HIDE DEF from
    <2>2. from \in Tracks /\ Covered(old, from) /\ Renamed(old, new, from) = p
      BY <1>2, <1>4, <2>1, RenamedCovered, RenamedBack
    <2>3. Goes(old, new, p, from)
      BY <1>4, <2>2 DEF Goes
    <2> QED  BY <1>a, <1>2, <2>2, <2>3
  <1>5. CASE ~Covered(old, p) /\ ~Covered(new, p)
    <2>1. from = p
      BY <1>5 DEF Covered
    <2>2. Stays(old, new, p, p)
      BY <1>5 DEF Stays
    <2> HIDE DEF from
    <2> QED  BY <1>a, <1>2, <2>1, <2>2
  <1> QED  BY <1>3, <1>4, <1>5

\* Both keep the objects of the origin apart.
LEMMA ShiftedApart ==
    ASSUME NEW old \in Tracks, NEW new \in Tracks, ~Covered(old, new), ~Covered(new, old),
           NEW p1, NEW p2, NEW q \in Tracks,
           Stays(old, new, p1, q) \/ Goes(old, new, p1, q) \/ Goes(new, old, p1, q),
           Stays(old, new, p2, q) \/ Goes(old, new, p2, q) \/ Goes(new, old, p2, q)
    PROVE  p1 = p2
PROOF
  <1>1. ~(Covered(old, q) /\ Covered(new, q))
    BY Comparable
  <1> QED  BY <1>1 DEF Stays, Goes

\* The paths of h's operation and of another rename under way that share a name
\* below them are related.
LEMMA MeetsCrossing ==
    ASSUME TableInv, Apart, NEW h \in Handlers, NEW g \in Handlers \ {h}, Pending(g),
           NEW a \in {job[h].path, job[h].to}, NEW b \in {job[g].path, job[g].to}, a \in Tracks,
           NEW p \in Tracks, Covered(a, p), Covered(b, p)
    PROVE  g \in Crossing(h)
PROOF
  <1>1. b \in Tracks
    BY PendingPaths
  <1>2. Covered(a, b) \/ Covered(b, a)
    BY <1>1, Comparable
  <1> QED  BY <1>2 DEF Crossing, Pending

LEMMA MoverPaths ==
    ASSUME TableInv, Apart, NEW h \in Handlers, job[h].op \in {"rename", "exchange"}
    PROVE  /\ job[h].path \in Paths /\ job[h].to \in Paths
           /\ job[h].path \in Tracks \ {<<>>} /\ job[h].to \in Tracks \ {<<>>}
           /\ ~Covered(job[h].path, job[h].to) /\ ~Covered(job[h].to, job[h].path)
PROOF
  <1>1. job[h].path \in Paths /\ job[h].to \in Paths
    BY DEF TableInv, Jobs, JobOk
  <1> QED  BY <1>1, PathsAreTracks DEF Apart

\* The renames on their way before a Move are on their way after it, some torn.
LEMMA MovePending ==
    ASSUME TableInv, NEW h \in Handlers, Move(h), NEW g \in Handlers \ {h}
    PROVE  /\ Pending(g)' <=> Pending(g)
           /\ job'[g].path = job[g].path /\ job'[g].to = job[g].to
           /\ job[g].torn => job'[g].torn
           /\ ~Fails(h) => (g \in Crossing(h) => job'[g].torn)
           /\ Pending(g) /\ job'[g].torn => job[g].torn \/ g \in Crossing(h)
PROOF
  <1>1. job'[g].pc = job[g].pc /\ job'[g].path = job[g].path /\ job'[g].to = job[g].to
        /\ (Fails(h) \/ Renames(h) \/ Swaps(h))
    BY MoveIs
  <1>2. job[g].pc = "tables" => ~Opening(g, job[h].path) /\ ~Opening(g, job[h].to)
    BY DEF Opening
  <1>3. job[g].torn \in BOOLEAN
    BY DEF TableInv, Types, JobType
  <1> QED  BY <1>1, <1>2, <1>3 DEF Pending, Fails, Renames, Swaps

\* A rename of the origin: each record still follows, now by the pending rename.
LEMMA RenameSound ==
    ASSUME TableInv, Apart, NEW h \in Handlers, Move(h), Renames(h), ~Fails(h),
           NEW p \in Tracks, NEW o, Sound(p, o)
    PROVE  Sound(p, o)'
PROOF
  <1> DEFINE old == job[h].path
             new == job[h].to
  <1>1. old \in Paths /\ new \in Paths /\ old \in Tracks /\ new \in Tracks
        /\ job[h].op = "rename" /\ job[h].pc = "move"
    BY MoverPaths, MoveIs DEF Renames
  <1>2. DOMAIN fs \subseteq Paths /\ fs' = Moved(old, new)
    BY DEF TableInv, Types, Renames
  <1>3. /\ job'[h].pc = "tables" /\ job'[h].path = old /\ job'[h].to = new
        /\ job'[h].torn = (Crossing(h) # {})
    BY DEF Renames
  <1> SUFFICES ASSUME NEW r \in DOMAIN fs', fs'[r] = o
               PROVE  Follows(p, r)'
    BY DEF Sound
  <1>4. PICK q \in DOMAIN fs : /\ q \in Tracks /\ fs'[r] = fs[q]
                               /\ Stays(old, new, r, q) \/ Goes(old, new, r, q)
    BY <1>1, <1>2, MovedFrom
  <1>5. r \in Tracks
    BY <1>1, <1>2, MovedFrom
  <1>6. Follows(p, q)
    BY <1>4 DEF Sound
  <1> HIDE DEF old, new
  <1>7. ASSUME NEW g \in Handlers, Pending(g), Covered(job[g].path, p), job[g].torn \/ g \in Crossing(h)
        PROVE  Follows(p, r)'
    <2>1. g # h
      BY <1>1, <1>7 DEF Pending
    <2>2. Pending(g)' /\ job'[g].path = job[g].path /\ job'[g].torn
      BY <1>7, <2>1, MovePending
    <2> QED  BY <1>7, <2>2 DEF Follows
  <1>8. CASE \E g \in Handlers : Pending(g) /\ job[g].torn /\ Covered(job[g].path, p)
    BY <1>7, <1>8
  <1>9. ASSUME NEW g \in Handlers, Pending(g), ~job[g].torn, Covered(job[g].path, p),
               q = Renamed(job[g].path, job[g].to, p)
        PROVE  Follows(p, r)'
    <2>1. g # h
      BY <1>1, <1>9 DEF Pending
    <2>2. Covered(job[g].to, q)
      BY <1>9, PendingPaths, RenamedCovered
    <2>3. CASE g \in Crossing(h)
      BY <1>7, <1>9, <2>3
    <2>4. CASE g \notin Crossing(h)
      <3>1. ~Covered(old, q)
        BY <1>1, <1>4, <1>9, <2>1, <2>2, <2>4, MeetsCrossing DEF old
      <3>2. r = q
        BY <1>4, <3>1 DEF Stays, Goes
      <3>3. Pending(g)' /\ job'[g].path = job[g].path /\ job'[g].to = job[g].to /\ ~job'[g].torn
        BY <1>9, <2>1, <2>4, MovePending
      <3> QED  BY <1>9, <3>2, <3>3 DEF Follows
    <2> QED  BY <2>3, <2>4
  <1>10. CASE q = p /\ \A g \in Handlers : Pending(g) => ~Covered(job[g].path, p)
    <2>1. \A g \in Handlers \ {h} : Pending(g)' => ~Covered(job'[g].path, p)
      BY <1>10, MovePending
    <2>2. CASE Stays(old, new, r, q)
      <3>1. r = p /\ ~Covered(old, p)
        BY <1>10, <2>2 DEF Stays
      <3>2. \A g \in Handlers : Pending(g)' => ~Covered(job'[g].path, p)
        BY <1>3, <2>1, <3>1
      <3> QED  BY <3>1, <3>2 DEF Follows
    <2>3. CASE Goes(old, new, r, q)
      <3>1. Covered(old, p) /\ r = Renamed(old, new, p)
        BY <1>10, <2>3 DEF Goes
      <3>2. Pending(h)' /\ Covered(job'[h].path, p) /\ r = Renamed(job'[h].path, job'[h].to, p)
        BY <1>3, <3>1 DEF Pending
      <3> QED  BY <3>2 DEF Follows
    <2> QED  BY <1>4, <2>2, <2>3
  <1> QED  BY <1>6, <1>8, <1>9, <1>10 DEF Follows

\* An exchange: each record that neither name covers still follows.
LEMMA SwapSound ==
    ASSUME TableInv, Apart, NEW h \in Handlers, Move(h), Swaps(h), ~Fails(h),
           NEW p \in Tracks, NEW o, Sound(p, o), ~Covered(job[h].path, p), ~Covered(job[h].to, p)
    PROVE  Sound(p, o)'
PROOF
  <1> DEFINE old == job[h].path
             new == job[h].to
  <1>1. old \in Paths /\ new \in Paths /\ old \in Tracks /\ new \in Tracks
        /\ job[h].op = "exchange" /\ job[h].pc = "move"
    BY MoverPaths, MoveIs DEF Swaps
  <1>2. DOMAIN fs \subseteq Paths /\ fs' = Exchanged(old, new)
    BY DEF TableInv, Types, Swaps
  <1>3. job'[h].pc = "idle"
    BY IdleJob DEF Swaps
  <1> SUFFICES ASSUME NEW r \in DOMAIN fs', fs'[r] = o
               PROVE  Follows(p, r)'
    BY DEF Sound
  <1>4. PICK q \in DOMAIN fs : /\ q \in Tracks /\ fs'[r] = fs[q]
                               /\ Stays(old, new, r, q) \/ Goes(old, new, r, q) \/ Goes(new, old, r, q)
    BY <1>1, <1>2, ExchangedFrom
  <1>6. Follows(p, q)
    BY <1>4 DEF Sound
  <1>o. ~Covered(old, p) /\ ~Covered(new, p)
    OBVIOUS
  <1> HIDE DEF old, new
  <1>7. ASSUME NEW g \in Handlers, Pending(g), Covered(job[g].path, p), job[g].torn \/ g \in Crossing(h)
        PROVE  Follows(p, r)'
    <2>1. g # h
      BY <1>1, <1>7 DEF Pending
    <2>2. Pending(g)' /\ job'[g].path = job[g].path /\ job'[g].torn
      BY <1>7, <2>1, MovePending
    <2> QED  BY <1>7, <2>2 DEF Follows
  <1>8. CASE \E g \in Handlers : Pending(g) /\ job[g].torn /\ Covered(job[g].path, p)
    BY <1>7, <1>8
  <1>9. ASSUME NEW g \in Handlers, Pending(g), ~job[g].torn, Covered(job[g].path, p),
               q = Renamed(job[g].path, job[g].to, p)
        PROVE  Follows(p, r)'
    <2>1. g # h
      BY <1>1, <1>9 DEF Pending
    <2>2. Covered(job[g].to, q)
      BY <1>9, PendingPaths, RenamedCovered
    <2>3. CASE g \in Crossing(h)
      BY <1>7, <1>9, <2>3
    <2>4. CASE g \notin Crossing(h)
      <3>1. ~Covered(old, q) /\ ~Covered(new, q)
        BY <1>1, <1>4, <1>9, <2>1, <2>2, <2>4, MeetsCrossing DEF old, new
      <3>2. r = q
        BY <1>4, <3>1 DEF Stays, Goes
      <3>3. Pending(g)' /\ job'[g].path = job[g].path /\ job'[g].to = job[g].to /\ ~job'[g].torn
        BY <1>9, <2>1, <2>4, MovePending
      <3> QED  BY <1>9, <3>2, <3>3 DEF Follows
    <2> QED  BY <2>3, <2>4
  <1>10. CASE q = p /\ \A g \in Handlers : Pending(g) => ~Covered(job[g].path, p)
    <2>1. \A g \in Handlers \ {h} : Pending(g)' => ~Covered(job'[g].path, p)
      BY <1>10, MovePending
    <2>2. r = p
      BY <1>4, <1>10, <1>o DEF Stays, Goes
    <2>3. \A g \in Handlers : Pending(g)' => ~Covered(job'[g].path, p)
      BY <1>3, <2>1 DEF Pending
    <2> QED  BY <2>2, <2>3 DEF Follows
  <1> QED  BY <1>6, <1>8, <1>9, <1>10 DEF Follows

LEMMA FailSound ==
    ASSUME TableInv, NEW h \in Handlers, Move(h), Fails(h)
    PROVE  SamePending /\ fs' = fs
PROOF
  <1>1. job[h].pc = "move" /\ job'[h].pc = "idle"
    BY MoveIs, IdleJob DEF Fails
  <1>2. \A g \in Handlers \ {h} : /\ job'[g].pc = job[g].pc /\ job'[g].path = job[g].path
                                  /\ job'[g].to = job[g].to /\ job'[g].torn = job[g].torn
    BY MoveIs DEF Fails
  <1> QED  BY <1>1, <1>2 DEF SamePending, Fails

\* Where the origin's paths come from, whichever way Move ends.
LEMMA MoveFrom ==
    ASSUME TableInv, Apart, NEW h \in Handlers, Move(h), ~Fails(h), NEW r \in DOMAIN fs'
    PROVE  /\ r \in Tracks
           /\ \E q \in DOMAIN fs : /\ q \in Tracks /\ fs'[r] = fs[q]
                                   /\ \/ Stays(job[h].path, job[h].to, r, q) \/ Goes(job[h].path, job[h].to, r, q)
                                      \/ Swaps(h) /\ Goes(job[h].to, job[h].path, r, q)
PROOF
  <1>1. job[h].path \in Paths /\ job[h].to \in Paths
    BY MoverPaths, MoveIs
  <1>2. DOMAIN fs \subseteq Paths
    BY DEF TableInv, Types
  <1>3. CASE Renames(h)
    <2>1. fs' = Moved(job[h].path, job[h].to)
      BY <1>3 DEF Renames
    <2> QED  BY <1>1, <1>2, <2>1, MovedFrom
  <1>4. CASE Swaps(h)
    <2>1. fs' = Exchanged(job[h].path, job[h].to)
      BY <1>4 DEF Swaps
    <2> QED  BY <1>1, <1>2, <1>4, <2>1, ExchangedFrom
  <1> QED  BY <1>3, <1>4, MoveIs

LEMMA MoveApart ==
    ASSUME TableInv, Apart, NEW h \in Handlers, Move(h)
    PROVE  Apart'
PROOF
  <1>1. \A g \in Handlers \ {h} : job'[g].op = job[g].op /\ job'[g].pc = job[g].pc
                                  /\ job'[g].path = job[g].path /\ job'[g].to = job[g].to
    BY MoveIs
  <1>2. job'[h] = Idle \/ Renames(h)
    BY MoveIs DEF Fails, Swaps
  <1>3. GoesOn(h) /\ (job'[h].pc = "tables" => job'[h].op = "rename")
    BY <1>2, IdleJob DEF GoesOn, Renames
  <1>4. \A g \in Handlers : GoesOn(g)
    BY <1>1, <1>3 DEF GoesOn
  <1>5. \A g \in Handlers : job'[g].pc = "tables" => job'[g].op = "rename"
    BY <1>1, <1>3 DEF Apart, Pending
  <1> QED  BY <1>4, <1>5, ApartKept

LEMMA MoveUntorn ==
    ASSUME TableInv, Apart, Untorn, NEW h \in Handlers, Move(h)
    PROVE  Untorn'
PROOF
  <1>1. CASE Fails(h)
    BY <1>1, FailSound, UntornKept
  <1>2. CASE ~Fails(h)
    <2>0. job[h].pc = "move" /\ job[h].path \in Tracks /\ job[h].to \in Tracks
          /\ ~Covered(job[h].path, job[h].to) /\ ~Covered(job[h].to, job[h].path)
      BY MoverPaths, MoveIs
    <2>1. ASSUME Pending(h)'
          PROVE  job'[h].path = job[h].path /\ job'[h].to = job[h].to /\ job'[h].torn = (Crossing(h) # {}) /\ ~Swaps(h)
      BY <1>2, <2>1, MoveIs, IdleJob DEF Pending, Renames, Swaps
    <2>2. ASSUME NEW g \in Handlers \ {h}, Related(g, h)' \/ Related(h, g)', Pending(g)', Pending(h)'
          PROVE  g \in Crossing(h)
      <3>1. Pending(g) /\ job'[g].path = job[g].path /\ job'[g].to = job[g].to
        BY <2>2, MovePending
      <3>2. Related(g, h) \/ Related(h, g)
        BY <2>1, <2>2, <3>1 DEF Related
      <3>3. \E p \in {job[h].path, job[h].to}, q \in {job[g].path, job[g].to} : Covered(p, q) \/ Covered(q, p)
        BY <3>2 DEF Related
      <3> QED  BY <3>1, <3>3 DEF Crossing, Pending
    <2>3. ASSUME NEW g \in Handlers, NEW f \in Handlers, g # f, Pending(g)', Pending(f)', Related(g, f)'
          PROVE  job'[g].torn
      <3>1. CASE g = h
        BY <2>1, <2>2, <2>3, <3>1
      <3>2. CASE f = h
        BY <1>2, <2>2, <2>3, <3>2, MovePending
      <3>3. CASE g # h /\ f # h
        <4>1. /\ Pending(g) /\ job'[g].path = job[g].path /\ job'[g].to = job[g].to
              /\ Pending(f) /\ job'[f].path = job[f].path /\ job'[f].to = job[f].to
          BY <2>3, <3>3, MovePending
        <4>2. Related(g, f)
          BY <2>3, <4>1 DEF Related
        <4>3. job[g].torn
          BY <2>3, <4>1, <4>2 DEF Untorn
        <4> QED  BY <3>3, <4>3, MovePending
      <3> QED  BY <3>1, <3>2, <3>3
    <2>4. ASSUME NEW g \in Handlers, Pending(g)', ~job'[g].torn, NEW r \in DOMAIN fs', Covered(job'[g].path, r)
          PROVE  FALSE
      <3>1. PICK q \in DOMAIN fs : /\ q \in Tracks /\ fs'[r] = fs[q]
                                   /\ \/ Stays(job[h].path, job[h].to, r, q) \/ Goes(job[h].path, job[h].to, r, q)
                                      \/ Swaps(h) /\ Goes(job[h].to, job[h].path, r, q)
        BY <1>2, MoveFrom
      <3>2. r \in Tracks
        BY <1>2, MoveFrom
      <3>3. CASE g = h
        BY <2>0, <2>1, <2>4, <3>1, <3>2, <3>3, Comparable DEF Stays, Goes
      <3>4. CASE g # h
        <4>1. Pending(g) /\ job'[g].path = job[g].path /\ ~job[g].torn /\ g \notin Crossing(h)
          BY <1>2, <2>4, <3>4, MovePending
        <4>2. ~Covered(job[h].path, r) /\ ~Covered(job[h].to, r)
          BY <2>0, <2>4, <3>2, <3>4, <4>1, MeetsCrossing
        <4>3. r = q
          BY <3>1, <4>2 DEF Stays, Goes
        <4> QED  BY <2>4, <4>1, <4>3 DEF Untorn
      <3> QED  BY <3>3, <3>4
    <2> QED  BY <2>3, <2>4 DEF Untorn
  <1> QED  BY <1>1, <1>2

LEMMA MoveObjects ==
    ASSUME TableInv, Apart, Objects, NEW h \in Handlers, Move(h)
    PROVE  Objects'
PROOF
  <1>1. nextObj' = nextObj /\ opens' = opens /\ opened' = opened
    BY MoveIs
  <1>2. 0 < nextObj
    <2>1. job[h].obj \in Nat /\ nextObj \in Nat /\ job[h].obj < nextObj
      BY DEF TableInv, Types, JobType, Objects
    <2> QED  BY <2>1
  <1>3. \A g \in Handlers : job'[g].obj < nextObj
    <2>1. \A g \in Handlers \ {h} : job'[g].obj = job[g].obj
      BY MoveIs
    <2>2. job'[h].obj \in {job[h].obj, 0}
      BY MoveIs DEF Fails, Renames, Swaps, Idle, Starting
    <2> QED  BY <1>2, <2>1, <2>2 DEF Objects
  <1>4. CASE Fails(h)
    BY <1>1, <1>3, <1>4 DEF Objects, Fails
  <1>5. CASE ~Fails(h)
    <2>1. \A r \in DOMAIN fs' : fs'[r] < nextObj
      BY <1>5, MoveFrom DEF Objects
    <2>2. ASSUME NEW r \in DOMAIN fs', NEW s \in DOMAIN fs', fs'[r] = fs'[s]
          PROVE  r = s
      <3>1. job[h].path \in Tracks /\ job[h].to \in Tracks
            /\ ~Covered(job[h].path, job[h].to) /\ ~Covered(job[h].to, job[h].path)
        BY MoverPaths, MoveIs
      <3>2. PICK q \in DOMAIN fs : /\ q \in Tracks /\ fs'[r] = fs[q]
                                   /\ \/ Stays(job[h].path, job[h].to, r, q) \/ Goes(job[h].path, job[h].to, r, q)
                                      \/ Swaps(h) /\ Goes(job[h].to, job[h].path, r, q)
        BY <1>5, MoveFrom
      <3>3. PICK u \in DOMAIN fs : /\ u \in Tracks /\ fs'[s] = fs[u]
                                   /\ \/ Stays(job[h].path, job[h].to, s, u) \/ Goes(job[h].path, job[h].to, s, u)
                                      \/ Swaps(h) /\ Goes(job[h].to, job[h].path, s, u)
        BY <1>5, MoveFrom
      <3>4. q = u
        BY <2>2, <3>2, <3>3 DEF Objects
      <3> QED  BY <3>1, <3>2, <3>3, <3>4, ShiftedApart
    <2> QED  BY <1>1, <1>3, <2>1, <2>2 DEF Objects
  <1> QED  BY <1>4, <1>5

\* mf_rename: the handles an exchange swaps are in crossed from now on.
LEMMA MoveRecords ==
    ASSUME TableInv, Apart, Untorn, Records, NEW h \in Handlers, Move(h)
    PROVE  Records'
PROOF
  <1>1. /\ opens' = opens /\ opened' = opened /\ torn' = torn /\ faults' = faults /\ crossed \subseteq crossed'
        /\ Swaps(h) => \A f \in DOMAIN opens :
              Covered(job[h].path, opens[f]) \/ Covered(job[h].to, opens[f]) => f \in crossed'
    BY MoveIs DEF Fails, Renames, Swaps
  <1>2. ASSUME NEW p \in Tracks, NEW o, Sound(p, o),
               Swaps(h) => ~Covered(job[h].path, p) /\ ~Covered(job[h].to, p)
        PROVE  Sound(p, o)'
    <2>1. CASE Fails(h)
      BY <1>2, <2>1, FailSound, SoundKept
    <2>2. CASE ~Fails(h) /\ Renames(h)
      BY <1>2, <2>2, RenameSound
    <2>3. CASE ~Fails(h) /\ Swaps(h)
      BY <1>2, <2>3, SwapSound
    <2> QED  BY <2>1, <2>2, <2>3, MoveIs
  <1>3. ASSUME faults = 0, NEW f \in DOMAIN opens, f \notin torn \cup crossed'
        PROVE  Sound(opens[f], opened[f])'
    <2> DEFINE p == opens[f]
               o == opened[f]
    <2>1. p \in Tracks /\ Sound(p, o) /\ (Swaps(h) => ~Covered(job[h].path, p) /\ ~Covered(job[h].to, p))
      BY <1>1, <1>3, PathsAreTracks DEF TableInv, Types, Records
    <2>2. p' = p /\ o' = o
      BY <1>1
    <2> QED  BY <1>1, <1>2, <2>1, <2>2 DEF Sound
  <1>4. ASSUME NEW g \in Handlers, Copying(g)', ~job'[g].torn
        PROVE  Sound(job[g].path, job[g].obj)'
    <2>1. g # h
      BY <1>4, MoveIs, IdleJob DEF Copying, Fails, Renames, Swaps
    <2>2. Copying(g) /\ job'[g].path = job[g].path /\ job'[g].obj = job[g].obj
      BY <1>4, <2>1, MoveIs DEF Copying
    <2>3. job[g].torn \in BOOLEAN
      BY DEF TableInv, Types, JobType
    <2>4. ~job[g].torn /\ (Swaps(h) => ~Opening(g, job[h].path) /\ ~Opening(g, job[h].to))
      <3>1. Fails(h) \/ Renames(h) \/ Swaps(h)
        BY MoveIs
      <3>2. Fails(h) => job'[g].torn = job[g].torn
        BY <2>1 DEF Fails
      <3>3. Renames(h) => job'[g].torn = (job[g].torn \/ g \in Crossing(h))
        BY <2>1 DEF Renames
      <3>4. Swaps(h) => job'[g].torn = (job[g].torn \/ g \in Crossing(h) \/ Opening(g, job[h].path) \/ Opening(g, job[h].to))
        BY <2>1 DEF Swaps
      <3> QED  BY <1>4, <2>3, <3>1, <3>2, <3>3, <3>4
    <2>5. Swaps(h) => ~Covered(job[h].path, job[g].path) /\ ~Covered(job[h].to, job[g].path)
      BY <2>2, <2>4 DEF Opening, Copying
    <2> DEFINE p == job[g].path
               o == job[g].obj
    <2>6. p \in Tracks
      BY <2>2, PathsAreTracks DEF Copying, TableInv, Jobs, JobOk
    <2>7. Sound(p, o)
      BY <2>2, <2>4 DEF Records
    <2>8. p' = p /\ o' = o
      BY <2>2
    <2> HIDE DEF p, o
    <2>9. Sound(p, o)'
      BY <1>2, <2>5, <2>6, <2>7, <2>8 DEF p, Sound
    <2> QED  BY <2>9 DEF p, o
  <1> QED  BY <1>1, <1>3, <1>4 DEF Records

LEMMA HandlesMove ==
    ASSUME HandleInv, NEW h \in Handlers, Move(h)
    PROVE  faults' \in Nat /\ Apart' /\ Untorn' /\ Objects' /\ Records'
  BY MoveIs, MoveApart, MoveUntorn, MoveObjects, MoveRecords DEF HandleInv

-----------------------------------------------------------------------------
(* A rename taken for a retry: the origin stays, and the tables will follow. *)

LEMMA ConvergeIs ==
    ASSUME TableInv, NEW h \in Handlers, Converge(h)
    PROVE  /\ job[h].pc = "move" /\ job[h].op = "rename" /\ \A p \in DOMAIN fs : ~Covered(job[h].path, p)
           /\ UNCHANGED <<load, tables, origin, kernel, ghosts, count, faults, handovers>>
           /\ job'[h].pc = "tables" /\ job'[h].op = job[h].op
           /\ job'[h].path = job[h].path /\ job'[h].to = job[h].to /\ job'[h].obj = job[h].obj
           /\ job'[h].torn = (Crossing(h) # {})
           /\ \A g \in Handlers \ {h} : /\ job'[g].op = job[g].op /\ job'[g].pc = job[g].pc
                                        /\ job'[g].path = job[g].path /\ job'[g].to = job[g].to
                                        /\ job'[g].obj = job[g].obj
                                        /\ job'[g].torn = (job[g].torn \/ g \in Crossing(h))
PROOF
  <1>1. /\ job[h].pc = "move" /\ job[h].op = "rename" /\ \A p \in DOMAIN fs : ~Covered(job[h].path, p)
        /\ UNCHANGED <<load, tables, origin, kernel, ghosts, count, faults, handovers>>
    BY DEF Converge
  <1>2. job[h] \in JobType /\ \A g \in Handlers : job[g] \in JobType
    BY DEF TableInv, Types
  <1>3. /\ job'[h].pc = "tables" /\ job'[h].op = job[h].op /\ job'[h].path = job[h].path
        /\ job'[h].to = job[h].to /\ job'[h].obj = job[h].obj /\ job'[h].torn = (Crossing(h) # {})
    <2> DEFINE c == Crossing(h) # {}
    <2>1. job'[h] = [job[h] EXCEPT !.pc = "tables", !.torn = c]
      BY DEF Converge
    <2> HIDE DEF c
    <2>2. /\ job'[h].pc = "tables" /\ job'[h].op = job[h].op /\ job'[h].path = job[h].path
          /\ job'[h].to = job[h].to /\ job'[h].obj = job[h].obj /\ job'[h].torn = c
      BY <1>2, <2>1 DEF JobType
    <2> QED  BY <2>2 DEF c
  <1>4. ASSUME NEW g \in Handlers \ {h}
        PROVE  /\ job'[g].op = job[g].op /\ job'[g].pc = job[g].pc /\ job'[g].path = job[g].path
               /\ job'[g].to = job[g].to /\ job'[g].obj = job[g].obj
               /\ job'[g].torn = (job[g].torn \/ g \in Crossing(h))
    <2> DEFINE m == g \in Crossing(h)
    <2>1. job'[g] = [job[g] EXCEPT !.torn = @ \/ m]
      BY DEF Converge
    <2> HIDE DEF m
    <2>2. /\ job'[g].op = job[g].op /\ job'[g].pc = job[g].pc /\ job'[g].path = job[g].path
          /\ job'[g].to = job[g].to /\ job'[g].obj = job[g].obj /\ job'[g].torn = (job[g].torn \/ m)
      BY <1>2, <2>1 DEF JobType
    <2> QED  BY <2>2 DEF m
  <1> QED  BY <1>1, <1>3, <1>4

LEMMA ConvergePending ==
    ASSUME TableInv, NEW h \in Handlers, Converge(h), NEW g \in Handlers \ {h}
    PROVE  /\ Pending(g)' <=> Pending(g)
           /\ job'[g].path = job[g].path /\ job'[g].to = job[g].to
           /\ job[g].torn \/ g \in Crossing(h) => job'[g].torn
           /\ job'[g].torn => job[g].torn \/ g \in Crossing(h)
PROOF
  <1>1. /\ job'[g].pc = job[g].pc /\ job'[g].path = job[g].path /\ job'[g].to = job[g].to
        /\ job'[g].torn = (job[g].torn \/ g \in Crossing(h))
    BY ConvergeIs
  <1> QED  BY <1>1 DEF Pending

\* Nothing was under the old name, so no record that was right is moved.
LEMMA ConvergeSound ==
    ASSUME TableInv, Apart, NEW h \in Handlers, Converge(h), NEW p, NEW o, Sound(p, o)
    PROVE  Sound(p, o)'
PROOF
  <1>1. fs' = fs /\ job[h].pc = "move" /\ job'[h].path = job[h].path /\ \A q \in DOMAIN fs : ~Covered(job[h].path, q)
    BY ConvergeIs
  <1> SUFFICES ASSUME NEW r \in DOMAIN fs, fs[r] = o
               PROVE  Follows(p, r)'
    BY <1>1 DEF Sound
  <1>2. Follows(p, r)
    BY DEF Sound
  <1>3. ASSUME NEW g \in Handlers, Pending(g), Covered(job[g].path, p), job[g].torn \/ g \in Crossing(h)
        PROVE  Follows(p, r)'
    <2>1. g # h
      BY <1>1, <1>3 DEF Pending
    <2>2. Pending(g)' /\ job'[g].path = job[g].path /\ job'[g].torn
      BY <1>3, <2>1, ConvergePending
    <2> QED  BY <1>3, <2>2 DEF Follows
  <1>4. CASE \E g \in Handlers : Pending(g) /\ job[g].torn /\ Covered(job[g].path, p)
    BY <1>3, <1>4
  <1>5. ASSUME NEW g \in Handlers, Pending(g), ~job[g].torn, Covered(job[g].path, p),
               r = Renamed(job[g].path, job[g].to, p)
        PROVE  Follows(p, r)'
    <2>1. CASE g \in Crossing(h)
      BY <1>3, <1>5, <2>1
    <2>2. CASE g \notin Crossing(h)
      <3>1. g # h
        BY <1>1, <1>5 DEF Pending
      <3>2. Pending(g)' /\ job'[g].path = job[g].path /\ job'[g].to = job[g].to /\ ~job'[g].torn
        BY <1>5, <2>2, <3>1, ConvergePending
      <3> QED  BY <1>5, <3>2 DEF Follows
    <2> QED  BY <2>1, <2>2
  <1>6. CASE r = p /\ \A g \in Handlers : Pending(g) => ~Covered(job[g].path, p)
    <2>1. \A g \in Handlers : Pending(g)' => ~Covered(job'[g].path, p)
      BY <1>1, <1>6, ConvergePending
    <2> QED  BY <1>6, <2>1 DEF Follows
  <1> QED  BY <1>2, <1>4, <1>5, <1>6 DEF Follows

LEMMA ConvergeApart ==
    ASSUME TableInv, Apart, NEW h \in Handlers, Converge(h)
    PROVE  Apart'
PROOF
  <1>1. \A g \in Handlers : GoesOn(g)
    BY ConvergeIs DEF GoesOn
  <1>2. \A g \in Handlers : job'[g].pc = "tables" => job'[g].op = "rename"
    BY ConvergeIs DEF Apart, Pending
  <1> QED  BY <1>1, <1>2, ApartKept

LEMMA ConvergeUntorn ==
    ASSUME TableInv, Untorn, NEW h \in Handlers, Converge(h)
    PROVE  Untorn'
PROOF
  <1>1. /\ fs' = fs /\ \A p \in DOMAIN fs : ~Covered(job[h].path, p)
        /\ job'[h].path = job[h].path /\ job'[h].to = job[h].to /\ job'[h].torn = (Crossing(h) # {})
    BY ConvergeIs
  <1>2. ASSUME NEW g \in Handlers \ {h}, Related(g, h)' \/ Related(h, g)', Pending(g)'
        PROVE  g \in Crossing(h)
    <2>1. Pending(g) /\ job'[g].path = job[g].path /\ job'[g].to = job[g].to
      BY <1>2, ConvergePending
    <2>2. Related(g, h) \/ Related(h, g)
      BY <1>1, <1>2, <2>1 DEF Related
    <2>3. \E p \in {job[h].path, job[h].to}, q \in {job[g].path, job[g].to} : Covered(p, q) \/ Covered(q, p)
      BY <2>2 DEF Related
    <2> QED  BY <2>1, <2>3 DEF Crossing, Pending
  <1>3. ASSUME NEW g \in Handlers, NEW f \in Handlers, g # f, Pending(g)', Pending(f)', Related(g, f)'
        PROVE  job'[g].torn
    <2>1. CASE g = h
      BY <1>1, <1>2, <1>3, <2>1
    <2>2. CASE f = h
      BY <1>2, <1>3, <2>2, ConvergePending
    <2>3. CASE g # h /\ f # h
      <3>1. /\ Pending(g) /\ job'[g].path = job[g].path /\ job'[g].to = job[g].to
            /\ Pending(f) /\ job'[f].path = job[f].path /\ job'[f].to = job[f].to
        BY <1>3, <2>3, ConvergePending
      <3>2. Related(g, f)
        BY <1>3, <3>1 DEF Related
      <3>3. job[g].torn
        BY <1>3, <3>1, <3>2 DEF Untorn
      <3> QED  BY <2>3, <3>3, ConvergePending
    <2> QED  BY <2>1, <2>2, <2>3
  <1>4. ASSUME NEW g \in Handlers, Pending(g)', ~job'[g].torn, NEW p \in DOMAIN fs'
        PROVE  ~Covered(job'[g].path, p)
    <2>1. CASE g = h
      BY <1>1, <2>1
    <2>2. CASE g # h
      <3>1. Pending(g) /\ job'[g].path = job[g].path /\ ~job[g].torn
        BY <1>4, <2>2, ConvergePending
      <3> QED  BY <1>1, <1>4, <3>1 DEF Untorn
    <2> QED  BY <2>1, <2>2
  <1> QED  BY <1>3, <1>4 DEF Untorn

LEMMA HandlesConverge ==
    ASSUME HandleInv, NEW h \in Handlers, Converge(h)
    PROVE  faults' \in Nat /\ Apart' /\ Untorn' /\ Objects' /\ Records'
PROOF
  <1>0. TableInv /\ faults \in Nat /\ Apart /\ Untorn /\ Objects /\ Records
    BY DEF HandleInv
  <1>1. UNCHANGED <<fs, nextObj, opens, opened, torn, crossed, faults>>
    BY <1>0, ConvergeIs
  <1>2. Objects'
    <2>1. \A g \in Handlers : job'[g].obj = job[g].obj
      BY <1>0, ConvergeIs
    <2> QED  BY <1>0, <1>1, <2>1 DEF Objects
  <1>3. ASSUME faults = 0, NEW f \in DOMAIN opens, f \notin torn \cup crossed
        PROVE  Sound(opens[f], opened[f])'
    <2> DEFINE p == opens[f]
               o == opened[f]
    <2>1. Sound(p, o)
      BY <1>0, <1>3 DEF Records
    <2>2. p' = p /\ o' = o
      BY <1>1
    <2> HIDE DEF p, o
    <2>3. Sound(p, o)'
      BY <1>0, <2>1, <2>2, ConvergeSound DEF Sound
    <2> QED  BY <2>3 DEF p, o
  <1>4. ASSUME NEW g \in Handlers, Copying(g)', ~job'[g].torn
        PROVE  Sound(job[g].path, job[g].obj)'
    <2>1. g # h
      BY <1>0, <1>4, ConvergeIs DEF Copying
    <2>2. Copying(g) /\ job'[g].path = job[g].path /\ job'[g].obj = job[g].obj /\ ~job[g].torn
      <3>1. /\ job'[g].op = job[g].op /\ job'[g].pc = job[g].pc /\ job'[g].path = job[g].path
            /\ job'[g].obj = job[g].obj /\ job'[g].torn = (job[g].torn \/ g \in Crossing(h))
        BY <1>0, <2>1, ConvergeIs
      <3> QED  BY <1>4, <3>1 DEF Copying
    <2> DEFINE p == job[g].path
               o == job[g].obj
    <2>3. Sound(p, o) /\ p' = p /\ o' = o
      BY <1>0, <2>2 DEF Records
    <2> HIDE DEF p, o
    <2>4. Sound(p, o)'
      BY <1>0, <2>3, ConvergeSound DEF Sound
    <2> QED  BY <2>4 DEF p, o
  <1>5. Records'
    BY <1>1, <1>3, <1>4 DEF Records
  <1> QED  BY <1>0, <1>1, <1>2, <1>5, ConvergeApart, ConvergeUntorn

-----------------------------------------------------------------------------
(* The tables follow a rename.                                               *)

LEMMA TablesIs ==
    ASSUME TableInv, faults \in Nat, NEW h \in Handlers, Tables(h)
    PROVE  /\ Pending(h) /\ job'[h] = Idle
           /\ \A g \in Handlers \ {h} : /\ job'[g].op = job[g].op /\ job'[g].pc = job[g].pc
                                        /\ job'[g].path = job[g].path /\ job'[g].to = job[g].to
                                        /\ job'[g].obj = job[g].obj
                                        /\ job'[g].torn = (job[g].torn \/ Opening(g, job[h].path))
           /\ UNCHANGED <<fs, nextObj, opened, torn>> /\ DOMAIN opens' = DOMAIN opens
           /\ crossed \subseteq crossed'
           /\ job[h].torn => \A f \in DOMAIN opens : Covered(job[h].path, opens[f]) => f \in crossed'
           /\ faults' \in Nat
           /\ faults' = 0 => /\ faults = 0
                             /\ \A f \in DOMAIN opens :
                                   opens'[f] = IF Covered(job[h].path, opens[f])
                                               THEN Renamed(job[h].path, job[h].to, opens[f]) ELSE opens[f]
PROOF
  <1>1. job[h].pc = "tables" /\ UNCHANGED <<fs, nextObj, opened, torn>>
    BY DEF Tables
  <1>2. \A g \in Handlers : job[g] \in JobType
    BY DEF TableInv, Types
  <1>3. job' = [g \in Handlers |-> IF g = h THEN Idle ELSE [job[g] EXCEPT !.torn = @ \/ Opening(g, job[h].path)]]
    BY DEF Tables
  <1>4. ASSUME NEW g \in Handlers \ {h}
        PROVE  /\ job'[g].op = job[g].op /\ job'[g].pc = job[g].pc /\ job'[g].path = job[g].path
               /\ job'[g].to = job[g].to /\ job'[g].obj = job[g].obj
               /\ job'[g].torn = (job[g].torn \/ Opening(g, job[h].path))
    <2> DEFINE m == Opening(g, job[h].path)
    <2>1. job'[g] = [job[g] EXCEPT !.torn = @ \/ m]
      BY <1>3
    <2> HIDE DEF m
    <2>2. /\ job'[g].op = job[g].op /\ job'[g].pc = job[g].pc /\ job'[g].path = job[g].path
          /\ job'[g].to = job[g].to /\ job'[g].obj = job[g].obj /\ job'[g].torn = (job[g].torn \/ m)
      BY <1>2, <2>1 DEF JobType
    <2> QED  BY <2>2 DEF m
  <1>5. crossed' = IF job[h].torn THEN crossed \cup {f \in DOMAIN opens : Covered(job[h].path, opens[f])} ELSE crossed
    BY DEF Tables
  <1>6. DOMAIN opens' = DOMAIN opens
    <2>1. PICK stuck, unput, stuckFhs : RenameNodes(job[h].path, job[h].to, stuck, unput, stuckFhs)
      BY TablesRename
    <2> QED  BY <2>1 DEF RenameNodes
  <1>7. \/ RenameNodes(job[h].path, job[h].to, {}, {}, {}) /\ faults' = faults
        \/ faults' = faults + 1
    BY DEF Tables
  <1>8. faults' \in Nat
    BY <1>7
  <1>9. ASSUME faults' = 0
        PROVE  /\ faults = 0
               /\ \A f \in DOMAIN opens :
                     opens'[f] = IF Covered(job[h].path, opens[f])
                                 THEN Renamed(job[h].path, job[h].to, opens[f]) ELSE opens[f]
    <2>1. faults = 0 /\ RenameNodes(job[h].path, job[h].to, {}, {}, {})
      BY <1>7, <1>9
    <2>2. opens' = [f \in DOMAIN opens |->
                      IF f \notin {} /\ Covered(job[h].path, opens[f])
                      THEN Renamed(job[h].path, job[h].to, opens[f]) ELSE opens[f]]
      BY <2>1 DEF RenameNodes
    <2> QED  BY <2>1, <2>2
  <1> QED  BY <1>1, <1>3, <1>4, <1>5, <1>6, <1>8, <1>9 DEF Pending

\* The renames left are those that were there, as they were.
LEMMA TablesPending ==
    ASSUME TableInv, faults \in Nat, NEW h \in Handlers, Tables(h), NEW g \in Handlers
    PROVE  /\ Pending(g)' <=> Pending(g) /\ g # h
           /\ Pending(g)' => /\ job'[g].path = job[g].path /\ job'[g].to = job[g].to
                             /\ job'[g].torn = job[g].torn
PROOF
  <1>1. CASE g = h
    BY <1>1, TablesIs, IdleJob DEF Pending
  <1>2. CASE g # h
    <2>1. Pending(g) => ~Opening(g, job[h].path)
      BY DEF Pending, Opening
    <2>2. job[g].torn \in BOOLEAN
      BY DEF TableInv, Types, JobType
    <2> QED  BY <1>2, <2>1, <2>2, TablesIs DEF Pending
  <1> QED  BY <1>1, <1>2

\* A record the rename does not move still follows the others.
LEMMA TablesUnmoved ==
    ASSUME TableInv, faults \in Nat, NEW h \in Handlers, Tables(h),
           NEW p \in Tracks, NEW o, Sound(p, o), ~Covered(job[h].path, p)
    PROVE  Sound(p, o)'
PROOF
  <1>1. ASSUME NEW r \in DOMAIN fs', fs'[r] = o
        PROVE  Follows(p, r)'
    <2>1. Follows(p, r)
      BY <1>1, TablesIs DEF Sound
    <2>2. CASE \E g \in Handlers : Pending(g) /\ job[g].torn /\ Covered(job[g].path, p)
      <3>1. PICK g \in Handlers : Pending(g) /\ job[g].torn /\ Covered(job[g].path, p)
        BY <2>2
      <3>2. Pending(g)' /\ job'[g].torn /\ Covered(job'[g].path, p)
        BY <3>1, TablesPending
      <3> QED  BY <3>2 DEF Follows
    <2>3. CASE \E g \in Handlers : /\ Pending(g) /\ ~job[g].torn /\ Covered(job[g].path, p)
                                   /\ r = Renamed(job[g].path, job[g].to, p)
      <3>1. PICK g \in Handlers : /\ Pending(g) /\ ~job[g].torn /\ Covered(job[g].path, p)
                                  /\ r = Renamed(job[g].path, job[g].to, p)
        BY <2>3
      <3>2. Pending(g)' /\ ~job'[g].torn /\ Covered(job'[g].path, p) /\ r = Renamed(job'[g].path, job'[g].to, p)
        BY <3>1, TablesPending
      <3> QED  BY <3>2 DEF Follows
    <2>4. CASE r = p /\ \A g \in Handlers : Pending(g) => ~Covered(job[g].path, p)
      <3>1. \A g \in Handlers : Pending(g)' => ~Covered(job'[g].path, p)
        BY <2>4, TablesPending
      <3> QED  BY <2>4, <3>1 DEF Follows
    <2>5. \/ \E g \in Handlers : Pending(g) /\ job[g].torn /\ Covered(job[g].path, p)
          \/ \E g \in Handlers : /\ Pending(g) /\ ~job[g].torn /\ Covered(job[g].path, p)
                                 /\ r = Renamed(job[g].path, job[g].to, p)
          \/ r = p /\ \A g \in Handlers : Pending(g) => ~Covered(job[g].path, p)
      BY <2>1 DEF Follows
    <2> QED  BY <2>2, <2>3, <2>4, <2>5
  <1> QED  BY <1>1 DEF Sound

\* A record the rename moves is where the file is.
LEMMA TablesMoved ==
    ASSUME TableInv, Apart, Untorn, faults \in Nat, NEW h \in Handlers, Tables(h), ~job[h].torn,
           NEW p \in Tracks, NEW o, Sound(p, o), Covered(job[h].path, p),
           NEW n, n = Renamed(job[h].path, job[h].to, p)
    PROVE  Sound(n, o)'
PROOF
  <1> DEFINE old == job[h].path
             new == job[h].to
  <1>1. Pending(h) /\ old \in Tracks /\ new \in Tracks
    BY TablesIs, PendingPaths
  <1>2. n \in Tracks /\ Covered(new, n)
    BY <1>1, RenamedCovered
  <1>3. ASSUME NEW g \in Handlers \ {h}, Pending(g), NEW q \in Tracks, Covered(job[g].path, q),
               Covered(old, q) \/ Covered(new, q)
        PROVE  FALSE
    <2>1. job[g].path \in Tracks
      BY <1>3, PendingPaths
    <2>2. Related(h, g)
      BY <1>1, <1>3, <2>1, Comparable DEF Related
    <2> QED  BY <1>1, <1>3, <2>2 DEF Untorn
  <1>4. ASSUME NEW q \in DOMAIN fs, fs[q] = o
        PROVE  q = n
    <2>1. Follows(p, q)
      BY <1>4 DEF Sound
    <2>2. \A g \in Handlers \ {h} : Pending(g) => ~Covered(job[g].path, p)
      BY <1>3
    <2> QED  BY <1>1, <2>1, <2>2 DEF Follows
  <1>5. \A g \in Handlers : Pending(g)' => ~Covered(job'[g].path, n)
    BY <1>2, <1>3, TablesPending
  <1>6. fs' = fs
    BY TablesIs
  <1> QED  BY <1>4, <1>5, <1>6 DEF Sound, Follows

LEMMA SomeObject ==
    ASSUME TableInv, Objects, NEW h \in Handlers
    PROVE  0 < nextObj /\ Idle.obj = 0
PROOF
  <1>1. job[h].obj \in Nat /\ nextObj \in Nat /\ job[h].obj < nextObj
    BY DEF TableInv, Types, JobType, Objects
  <1> QED  BY <1>1 DEF Idle, Starting

\* renameNodes: every record not excepted still follows.
LEMMA HandlesTables ==
    ASSUME HandleInv, NEW h \in Handlers, Tables(h)
    PROVE  faults' \in Nat /\ Apart' /\ Untorn' /\ Objects' /\ Records'
PROOF
  <1>0. TableInv /\ faults \in Nat /\ Apart /\ Untorn /\ Objects /\ Records
    BY DEF HandleInv
  <1>1. faults' \in Nat
    BY <1>0, TablesIs
  <1>2. Apart'
    <2>1. \A g \in Handlers : GoesOn(g)
      BY <1>0, TablesIs, IdleJob DEF GoesOn
    <2>2. \A g \in Handlers : job'[g].pc = "tables" => job'[g].op = "rename"
      BY <1>0, TablesIs, IdleJob DEF Apart, Pending
    <2> QED  BY <1>0, <2>1, <2>2, ApartKept
  <1>3. Untorn'
    <2>1. ASSUME NEW g \in Handlers, NEW f \in Handlers, g # f, Pending(g)', Pending(f)', Related(g, f)'
          PROVE  job'[g].torn
      <3>1. /\ Pending(g) /\ job'[g].path = job[g].path /\ job'[g].to = job[g].to /\ job'[g].torn = job[g].torn
            /\ Pending(f) /\ job'[f].path = job[f].path /\ job'[f].to = job[f].to
        BY <1>0, <2>1, TablesPending
      <3>2. Related(g, f)
        BY <2>1, <3>1 DEF Related
      <3> QED  BY <1>0, <2>1, <3>1, <3>2 DEF Untorn
    <2>2. ASSUME NEW g \in Handlers, Pending(g)', ~job'[g].torn, NEW p \in DOMAIN fs'
          PROVE  ~Covered(job'[g].path, p)
      <3>1. Pending(g) /\ job'[g].path = job[g].path /\ ~job[g].torn /\ fs' = fs
        BY <1>0, <2>2, TablesPending, TablesIs
      <3> QED  BY <1>0, <2>2, <3>1 DEF Untorn
    <2> QED  BY <2>1, <2>2 DEF Untorn
  <1>4. Objects'
    <2>1. \A g \in Handlers : job'[g].obj < nextObj
      BY <1>0, TablesIs, SomeObject DEF Objects
    <2>2. UNCHANGED <<fs, nextObj, opened>> /\ DOMAIN opens' = DOMAIN opens
      BY <1>0, TablesIs
    <2> QED  BY <1>0, <2>1, <2>2 DEF Objects
  <1>5. ASSUME faults' = 0, NEW f \in DOMAIN opens', f \notin torn' \cup crossed'
        PROVE  Sound(opens[f], opened[f])'
    <2>1. /\ faults = 0 /\ f \in DOMAIN opens /\ f \notin torn \cup crossed /\ opened' = opened
          /\ opens'[f] = IF Covered(job[h].path, opens[f])
                         THEN Renamed(job[h].path, job[h].to, opens[f]) ELSE opens[f]
          /\ job[h].torn => ~Covered(job[h].path, opens[f])
      BY <1>0, <1>5, TablesIs
    <2> DEFINE p == opens[f]
               o == opened[f]
    <2>2. p \in Tracks /\ Sound(p, o)
      BY <1>0, <2>1, PathsAreTracks DEF TableInv, Types, Records
    <2>3. o' = o
      BY <2>1
    <2>4. CASE Covered(job[h].path, p)
      <3>1. ~job[h].torn /\ p' = Renamed(job[h].path, job[h].to, p)
        BY <2>1, <2>4
      <3> DEFINE n == p'
      <3> HIDE DEF p, o
      <3>2. \A m : m = n => Sound(m, o)'
        BY <1>0, <2>2, <2>3, <2>4, <3>1, TablesMoved DEF Sound
      <3>3. Sound(p, o)'
        BY <2>3, <3>2 DEF Sound, n
      <3> QED  BY <3>3 DEF p, o
    <2>5. CASE ~Covered(job[h].path, p)
      <3>1. p' = p
        BY <2>1, <2>5
      <3> HIDE DEF p, o
      <3>2. Sound(p, o)'
        BY <1>0, <2>2, <2>3, <2>5, <3>1, TablesUnmoved DEF Sound
      <3> QED  BY <3>2 DEF p, o
    <2> QED  BY <2>4, <2>5
  <1>6. ASSUME NEW g \in Handlers, Copying(g)', ~job'[g].torn
        PROVE  Sound(job[g].path, job[g].obj)'
    <2>1. g # h
      BY <1>0, <1>6, TablesIs, IdleJob DEF Copying
    <2>2. /\ Copying(g) /\ job'[g].path = job[g].path /\ job'[g].obj = job[g].obj
          /\ ~job[g].torn /\ ~Opening(g, job[h].path)
      <3>1. job[g].torn \in BOOLEAN
        BY <1>0 DEF TableInv, Types, JobType
      <3> QED  BY <1>0, <1>6, <2>1, <3>1, TablesIs DEF Copying
    <2> DEFINE p == job[g].path
               o == job[g].obj
    <2>3. ~Covered(job[h].path, p)
      BY <2>2 DEF Copying, Opening
    <2>4. p \in Tracks
      BY <1>0, <2>2, PathsAreTracks DEF Copying, TableInv, Jobs, JobOk
    <2>5. Sound(p, o) /\ p' = p /\ o' = o
      BY <1>0, <2>2 DEF Records
    <2> HIDE DEF p, o
    <2>6. Sound(p, o)'
      BY <1>0, <2>3, <2>4, <2>5, TablesUnmoved DEF Sound
    <2> QED  BY <2>6 DEF p, o
  <1> QED  BY <1>1, <1>2, <1>3, <1>4, <1>5, <1>6 DEF Records

-----------------------------------------------------------------------------
(* The other steps of a handler.                                             *)

\* The file a path of the origin holds, as the path's record.
LEMMA SeenSound ==
    ASSUME Apart, Untorn, Objects, NEW p \in DOMAIN fs
    PROVE  Sound(p, fs[p])
PROOF
  <1>1. Follows(p, p)
    BY DEF Follows, Untorn
  <1> QED  BY <1>1 DEF Sound, Objects

\* The record r of a job carries a file that its path follows.
Carries(r) == r.op \in {"open", "create"} /\ r.pc \in {"intern", "remember"} /\ ~r.torn => Sound(r.path, r.obj)

LEMMA CarriesNow ==
    ASSUME Records, NEW h \in Handlers
    PROVE  Carries(job[h])
  BY DEF Records, Copying, Carries

\* A step that leaves the origin, or takes from it, and records no new handle.
LEMMA RecordsStay ==
    ASSUME HandleInv, SamePending, Apart', \A g \in Handlers : Carries(job'[g]) /\ job'[g].obj < nextObj,
           \A q \in DOMAIN fs' : q \in DOMAIN fs /\ fs'[q] = fs[q],
           \A f \in DOMAIN opens' : f \in DOMAIN opens /\ opens'[f] = opens[f],
           nextObj' = nextObj, opened' = opened, torn' = torn, crossed' = crossed,
           faults' \in Nat, faults' = 0 => faults = 0
    PROVE  faults' \in Nat /\ Apart' /\ Untorn' /\ Objects' /\ Records'
PROOF
  <1>0. TableInv /\ faults \in Nat /\ Apart /\ Untorn /\ Objects /\ Records
    BY DEF HandleInv
  <1>1. SamePending /\ Apart' /\ \A g \in Handlers : Carries(job'[g]) /\ job'[g].obj < nextObj
    OBVIOUS
  <1>2. Untorn'
    BY <1>0, <1>1, UntornKept
  <1>3. Objects'
    BY <1>0, <1>1 DEF Objects
  <1>4. ASSUME NEW p, NEW o, Sound(p, o)
        PROVE  Sound(p, o)'
    BY <1>1, <1>4, SoundKept
  <1>5. ASSUME faults' = 0, NEW f \in DOMAIN opens', f \notin torn' \cup crossed'
        PROVE  Sound(opens[f], opened[f])'
    <2> DEFINE p == opens[f]
               o == opened[f]
    <2>1. Sound(p, o) /\ p' = p /\ o' = o
      BY <1>0, <1>5 DEF Records
    <2> HIDE DEF p, o
    <2>2. Sound(p, o)'
      BY <1>4, <2>1 DEF Sound
    <2> QED  BY <2>2 DEF p, o
  <1>6. ASSUME NEW g \in Handlers, Copying(g)', ~job'[g].torn
        PROVE  Sound(job[g].path, job[g].obj)'
    <2> DEFINE j == job'[g]
    <2>1. Carries(j)
      BY <1>1
    <2>2. Sound(j.path, j.obj)
      BY <1>6, <2>1 DEF Carries, Copying
    <2> HIDE DEF j
    <2>3. \A p, o : p = j.path /\ o = j.obj => Sound(p, o)'
      BY <1>4, <2>2
    <2> QED  BY <2>3 DEF j, Sound
  <1> QED  BY <1>1, <1>2, <1>3, <1>5, <1>6 DEF Records


\* The same, one handler's job changing.
LEMMA OneJobMoves ==
    ASSUME HandleInv, NEW h \in Handlers, NEW r, SamePending, Apart', job'[h] = r,
           \A g \in Handlers \ {h} : job'[g] = job[g], Carries(r), r.obj < nextObj,
           \A q \in DOMAIN fs' : q \in DOMAIN fs /\ fs'[q] = fs[q],
           \A f \in DOMAIN opens' : f \in DOMAIN opens /\ opens'[f] = opens[f],
           nextObj' = nextObj, opened' = opened, torn' = torn, crossed' = crossed,
           faults' \in Nat, faults' = 0 => faults = 0
    PROVE  faults' \in Nat /\ Apart' /\ Untorn' /\ Objects' /\ Records'
PROOF
  <1>1. \A g \in Handlers : Carries(job[g]) /\ job[g].obj < nextObj
    BY CarriesNow DEF HandleInv, Objects
  <1>2. ASSUME NEW g \in Handlers PROVE Carries(job'[g]) /\ job'[g].obj < nextObj
    <2>1. job'[g] = IF g = h THEN r ELSE job[g]
      OBVIOUS
    <2> QED  BY <1>1, <2>1
  <1> QED  BY <1>2, RecordsStay

LEMMA QuietHandle ==
    ASSUME HandleInv, NEW h \in Handlers, NEW r, QuietStep(h, r), Carries(r), r.obj < nextObj,
           \A q \in DOMAIN fs' : q \in DOMAIN fs /\ fs'[q] = fs[q],
           \A f \in DOMAIN opens' : f \in DOMAIN opens /\ opens'[f] = opens[f],
           nextObj' = nextObj, opened' = opened, torn' = torn, crossed' = crossed,
           faults' \in Nat, faults' = 0 => faults = 0
    PROVE  faults' \in Nat /\ Apart' /\ Untorn' /\ Objects' /\ Records'
PROOF
  <1>1. SamePending /\ Apart' /\ job'[h] = r /\ \A g \in Handlers \ {h} : job'[g] = job[g]
    BY QuietJobs DEF HandleInv
  <1> QED  BY <1>1, OneJobMoves

LEMMA QuietDone ==
    ASSUME TableInv, Objects, NEW h \in Handlers, Done(h), job[h].pc # "tables"
    PROVE  QuietStep(h, Idle) /\ Carries(Idle) /\ Idle.obj < nextObj
  BY IdleJob, SomeObject DEF QuietStep, Carries

LEMMA QuietGoes ==
    ASSUME TableInv, Objects, Records, NEW h \in Handlers, NEW pc, Goto(h, pc), job[h].pc # "tables",
           pc \notin {"tables", "intern", "remember"}
    PROVE  LET r == [job[h] EXCEPT !.pc = pc] IN QuietStep(h, r) /\ Carries(r) /\ r.obj < nextObj
PROOF
  <1>1. job[h] \in JobType /\ job[h].obj < nextObj
    BY DEF TableInv, Types, Objects
  <1> DEFINE r == [job[h] EXCEPT !.pc = pc]
  <1>2. r.pc = pc /\ r.op = job[h].op /\ r.path = job[h].path /\ r.to = job[h].to /\ r.obj = job[h].obj
    BY <1>1 DEF JobType
  <1>3. Set(h, r)
    OBVIOUS
  <1> HIDE DEF r
  <1>4. QuietStep(h, r) /\ Carries(r) /\ r.obj < nextObj
    BY <1>1, <1>2, <1>3 DEF QuietStep, Carries
  <1> QED  BY <1>4 DEF r

\* mf_getattr, mf_open: the handler sees the file its path names now.
LEMMA HandlesSee ==
    ASSUME HandleInv, NEW h \in Handlers, Stat(h) \/ OpenFile(h)
    PROVE  faults' \in Nat /\ Apart' /\ Untorn' /\ Objects' /\ Records'
PROOF
  <1>0. TableInv /\ faults \in Nat /\ Apart /\ Untorn /\ Objects /\ Records
    BY DEF HandleInv
  <1>1. /\ UNCHANGED <<fs, nextObj, opens, opened, torn, crossed, faults>> /\ job[h].pc # "tables"
    BY DEF Stat, OpenFile
  <1>2. CASE Done(h)
    BY <1>0, <1>1, <1>2, QuietDone, QuietHandle
  <1>3. CASE job[h].path \in DOMAIN fs
    <2>1. PICK pc \in {"intern", "remember"} : Set(h, [job[h] EXCEPT !.pc = pc, !.obj = fs[job[h].path]])
      BY <1>3 DEF Stat, OpenFile
    <2> DEFINE o == fs[job[h].path]
               r == [job[h] EXCEPT !.pc = pc, !.obj = o]
    <2>2. Set(h, r)
      BY <2>1
    <2>3. o < nextObj /\ Sound(job[h].path, o)
      BY <1>0, <1>3, SeenSound DEF Objects
    <2> HIDE DEF o
    <2>4. r.pc = pc /\ r.op = job[h].op /\ r.path = job[h].path /\ r.to = job[h].to /\ r.obj = o
      BY <1>0 DEF TableInv, Types, JobType
    <2> HIDE DEF r
    <2>5. QuietStep(h, r) /\ Carries(r) /\ r.obj < nextObj
      BY <1>1, <2>2, <2>3, <2>4 DEF QuietStep, Carries
    <2> QED  BY <1>0, <1>1, <2>5, QuietHandle
  <1> QED  BY <1>2, <1>3 DEF Stat, OpenFile

\* The end of a request, and what a reply undone takes back.
LEMMA HandlesReply ==
    ASSUME HandleInv, NEW h \in Handlers,
           Reply(h) \/ ReplyLost(h) \/ UndoOpen(h) \/ UndoLookup(h) \/ RemoveFile(h)
    PROVE  faults' \in Nat /\ Apart' /\ Untorn' /\ Objects' /\ Records'
PROOF
  <1>0. TableInv /\ faults \in Nat /\ Apart /\ Untorn /\ Objects /\ Records
    BY DEF HandleInv
  <1>1. CASE Reply(h) \/ UndoLookup(h)
    <2>1. Done(h) /\ UNCHANGED <<fs, nextObj, opens, opened, torn, crossed, faults>> /\ job[h].pc # "tables"
      BY <1>1 DEF Reply, UndoLookup
    <2> QED  BY <1>0, <2>1, QuietDone, QuietHandle
  <1>2. CASE ReplyLost(h)
    <2>1. PICK pc \in {"close", "drop"} : Goto(h, pc)
      BY <1>2 DEF ReplyLost
    <2>2. UNCHANGED <<fs, nextObj, opens, opened, torn, crossed, faults>> /\ job[h].pc # "tables"
      BY <1>2 DEF ReplyLost
    <2> DEFINE r == [job[h] EXCEPT !.pc = pc]
    <2>3. QuietStep(h, r) /\ Carries(r) /\ r.obj < nextObj
      BY <1>0, <2>1, <2>2, QuietGoes
    <2> HIDE DEF r
    <2> QED  BY <1>0, <2>2, <2>3, QuietHandle
  <1>3. CASE UndoOpen(h)
    <2>1. /\ UNCHANGED <<fs, nextObj, opened, torn, crossed, faults>> /\ job[h].pc # "tables"
          /\ \A f \in DOMAIN opens' : f \in DOMAIN opens /\ opens'[f] = opens[f]
      BY <1>3 DEF UndoOpen, Without
    <2>2. CASE Done(h)
      BY <1>0, <2>1, <2>2, QuietDone, QuietHandle
    <2>3. CASE Set(h, [job[h] EXCEPT !.pc = "drop", !.fh = 0])
      <3> DEFINE r == [job[h] EXCEPT !.pc = "drop", !.fh = 0]
      <3>1. Set(h, r)
        BY <2>3
      <3>2. r.pc = "drop" /\ r.op = job[h].op /\ r.path = job[h].path /\ r.to = job[h].to /\ r.obj = job[h].obj
        BY <1>0 DEF TableInv, Types, JobType
      <3> HIDE DEF r
      <3>3. QuietStep(h, r) /\ Carries(r) /\ r.obj < nextObj
        BY <1>0, <2>1, <3>1, <3>2 DEF QuietStep, Carries, Objects
      <3> QED  BY <1>0, <2>1, <3>3, QuietHandle
    <2> QED  BY <1>3, <2>2, <2>3 DEF UndoOpen
  <1>4. CASE RemoveFile(h)
    <2>1. Done(h) /\ UNCHANGED <<nextObj, opens, opened, torn, crossed, faults>> /\ job[h].pc # "tables"
      BY <1>4 DEF RemoveFile
    <2>2. \A q \in DOMAIN fs' : q \in DOMAIN fs /\ fs'[q] = fs[q]
      BY <1>4 DEF RemoveFile, Without
    <2> QED  BY <1>0, <2>1, <2>2, QuietDone, QuietHandle
  <1> QED  BY <1>1, <1>2, <1>3, <1>4

\* internPath carries the file seen to the record.
LEMMA HandlesIntern ==
    ASSUME HandleInv, NEW h \in Handlers, Intern(h)
    PROVE  faults' \in Nat /\ Apart' /\ Untorn' /\ Objects' /\ Records'
PROOF
  <1>0. TableInv /\ faults \in Nat /\ Apart /\ Untorn /\ Objects /\ Records
    BY DEF HandleInv
  <1>1. UNCHANGED <<fs, nextObj, opens, opened, torn, crossed>> /\ job[h].pc # "tables" /\ job[h].pc = "intern"
    BY DEF Intern
  <1>2. CASE Done(h) /\ faults' = faults + 1
    <2>1. faults' \in Nat /\ faults' # 0
      BY <1>0, <1>2
    <2> QED  BY <1>0, <1>1, <1>2, <2>1, QuietDone, QuietHandle
  <1>3. ASSUME NEW i \in Inos, NEW pc \in {"remember", "reply"}, Set(h, [job[h] EXCEPT !.ino = i, !.pc = pc]),
               faults' = faults
        PROVE  faults' \in Nat /\ Apart' /\ Untorn' /\ Objects' /\ Records'
    <2> DEFINE r == [job[h] EXCEPT !.ino = i, !.pc = pc]
    <2>1. Set(h, r)
      BY <1>3
    <2>2. /\ r.pc = pc /\ r.op = job[h].op /\ r.path = job[h].path /\ r.to = job[h].to /\ r.obj = job[h].obj
          /\ r.torn = job[h].torn
      BY <1>0 DEF TableInv, Types, JobType
    <2> HIDE DEF r
    <2>3. Carries(r)
      BY <1>0, <1>1, <2>2, CarriesNow DEF Carries
    <2>4. QuietStep(h, r) /\ r.obj < nextObj
      BY <1>0, <1>1, <1>3, <2>1, <2>2 DEF QuietStep, Objects
    <2> QED  BY <1>0, <1>1, <1>3, <2>3, <2>4, QuietHandle
  <1>4. \/ \E i \in Inos, pc \in {"remember", "reply"} : Set(h, [job[h] EXCEPT !.ino = i, !.pc = pc]) /\ faults' = faults
        \/ Done(h) /\ faults' = faults + 1
    BY DEF Intern
  <1> QED  BY <1>2, <1>3, <1>4

\* rememberOpen: the record made names the file the handler opened, or the
\* handler was torn on the way.
LEMMA RecordsRemember ==
    ASSUME HandleInv, NEW h \in Handlers, Remember(h)
    PROVE  faults' \in Nat /\ Apart' /\ Untorn' /\ Objects' /\ Records'
PROOF
  <1>0. TableInv /\ Handles /\ faults \in Nat /\ Apart /\ Untorn /\ Objects /\ Records
    BY DEF HandleInv
  <1>1. UNCHANGED <<fs, nextObj, crossed>> /\ job[h].pc # "tables" /\ job[h].pc = "remember" /\ job[h].op \in {"open", "create"}
    BY DEF Remember
  <1>2. CASE Goto(h, "reply") /\ faults' = faults + 1 /\ UNCHANGED <<opens, opened, torn>>
    <2>1. faults' \in Nat /\ faults' # 0
      BY <1>0, <1>2
    <2> DEFINE r == [job[h] EXCEPT !.pc = "reply"]
    <2>2. QuietStep(h, r) /\ Carries(r) /\ r.obj < nextObj
      BY <1>0, <1>1, <1>2, QuietGoes
    <2> HIDE DEF r
    <2> QED  BY <1>0, <1>1, <1>2, <2>1, <2>2, QuietHandle
  <1>3. CASE /\ nextFh <= MaxFh /\ opens' = With(opens, nextFh, job[h].path)
             /\ opened' = [opened EXCEPT ![nextFh] = job[h].obj]
             /\ torn' = (IF job[h].torn THEN torn \cup {nextFh} ELSE torn)
             /\ Set(h, [job[h] EXCEPT !.pc = "reply", !.fh = nextFh]) /\ faults' = faults
    <2> DEFINE r == [job[h] EXCEPT !.pc = "reply", !.fh = nextFh]
    <2>1. Set(h, r)
      BY <1>3
    <2>2. r.pc = "reply" /\ r.op = job[h].op /\ r.path = job[h].path /\ r.to = job[h].to /\ r.obj = job[h].obj
      BY <1>0 DEF TableInv, Types, JobType
    <2> HIDE DEF r
    <2>3. QuietStep(h, r)
      BY <1>1, <2>1, <2>2 DEF QuietStep
    <2>4. SamePending /\ Apart' /\ job'[h] = r /\ \A g \in Handlers \ {h} : job'[g] = job[g]
      BY <1>0, <2>3, QuietJobs
    <2>5. Untorn'
      BY <1>0, <1>1, <2>4, UntornKept
    <2>6. /\ DOMAIN opens' = DOMAIN opens \cup {nextFh} /\ nextFh \notin DOMAIN opens
          /\ opens'[nextFh] = job[h].path /\ opened'[nextFh] = job[h].obj
      <3>1. nextFh \in Fhs
        BY <1>0, <1>3 DEF TableInv, Types, Fhs
      <3>2. nextFh \notin DOMAIN opens
        BY <1>0 DEF Handles, TableInv, Types
      <3> QED  BY <1>0, <1>3, <3>1, <3>2 DEF With, TableInv, Types
    <2>7. \A f \in DOMAIN opens : opens'[f] = opens[f] /\ opened'[f] = opened[f] /\ f # nextFh
      BY <1>0, <1>3, <2>6 DEF With, TableInv, Types
    <2>8. Objects'
      <3>1. \A f \in DOMAIN opens' : opened'[f] < nextObj'
        BY <1>0, <1>1, <2>6, <2>7 DEF Objects
      <3>2. \A g \in Handlers : job'[g].obj < nextObj'
        BY <1>0, <1>1, <2>2, <2>4 DEF Objects
      <3> QED  BY <1>0, <1>1, <3>1, <3>2 DEF Objects
    <2>9. ASSUME NEW p, NEW o, Sound(p, o)
          PROVE  Sound(p, o)'
      BY <1>1, <2>4, <2>9, SoundKept
    <2>10. ASSUME faults' = 0, NEW f \in DOMAIN opens', f \notin torn' \cup crossed'
           PROVE  Sound(opens[f], opened[f])'
      <3> DEFINE p == opens'[f]
                 o == opened'[f]
      <3>1. Sound(p, o)
        <4>1. CASE f \in DOMAIN opens
          BY <1>0, <1>1, <1>3, <2>7, <2>10, <4>1 DEF Records
        <4>2. CASE f = nextFh
          <5>1. ~job[h].torn
            BY <1>3, <2>10, <4>2
          <5> QED  BY <1>0, <1>1, <2>6, <4>2, <5>1 DEF Records, Copying
        <4> QED  BY <2>6, <4>1, <4>2
      <3> HIDE DEF p, o
      <3>2. \A m, n : m = p /\ n = o => Sound(m, n)'
        BY <2>9, <3>1
      <3> QED  BY <3>2 DEF p, o, Sound
    <2>11. ASSUME NEW g \in Handlers, Copying(g)', ~job'[g].torn
           PROVE  Sound(job[g].path, job[g].obj)'
      <3>1. g # h
        BY <2>2, <2>4, <2>11 DEF Copying
      <3> DEFINE p == job[g].path
                 o == job[g].obj
      <3>2. Sound(p, o) /\ p' = p /\ o' = o
        BY <1>0, <2>4, <2>11, <3>1 DEF Records, Copying
      <3> HIDE DEF p, o
      <3>3. Sound(p, o)'
        BY <2>9, <3>2 DEF Sound
      <3> QED  BY <3>3 DEF p, o
    <2> QED  BY <1>0, <1>3, <2>4, <2>5, <2>8, <2>10, <2>11 DEF Records
  <1> QED  BY <1>2, <1>3 DEF Remember

\* A name is made under a directory that is there, so not under one on its way.
LEMMA MadeUncovered ==
    ASSUME TableInv, Apart, Untorn, NEW h \in Handlers, job[h].op \in {"create", "mkdir"}, ~Pending(h),
           Front(job[h].path) = <<>> \/ Front(job[h].path) \in DOMAIN fs,
           NEW g \in Handlers, Pending(g), ~job[g].torn
    PROVE  ~Covered(job[g].path, job[h].path)
PROOF
  <1> DEFINE a == job[g].path
             p == job[h].path
  <1>1. p \in Paths /\ p \in Tracks /\ p # <<>>
    BY PathsAreTracks DEF TableInv, Jobs, JobOk
  <1>2. a \in Tracks \ {<<>>} /\ g # h
    BY PendingPaths
  <1>3. a # p
    <2>1. Fronts(job[g]) \cap Fronts(job[h]) = {}
      BY <1>2 DEF Apart, NameOps
    <2>2. Front(a) \in Fronts(job[g]) /\ Front(p) \in Fronts(job[h])
      BY <1>1, <1>2 DEF Fronts
    <2> QED  BY <2>1, <2>2
  <1>4. Front(p) \in DOMAIN fs => ~Covered(a, Front(p))
    BY DEF Untorn
  <1>5. Front(p) = <<>> \/ Front(p) \in DOMAIN fs
    OBVIOUS
  <1> HIDE DEF a, p
  <1>6. ~Covered(a, p)
    BY <1>1, <1>2, <1>3, <1>4, <1>5, CoveredParent
  <1> QED  BY <1>6 DEF a, p

\* mf_create, mf_mkdir: the new file has a number of its own.
LEMMA HandlesMake ==
    ASSUME HandleInv, NEW h \in Handlers, Make(h)
    PROVE  faults' \in Nat /\ Apart' /\ Untorn' /\ Objects' /\ Records'
PROOF
  <1>0. TableInv /\ Handles /\ faults \in Nat /\ Apart /\ Untorn /\ Objects /\ Records
    BY DEF HandleInv
  <1>1. UNCHANGED <<opens, opened, torn, crossed, faults>> /\ job[h].pc # "tables" /\ job[h].op \in {"create", "mkdir"}
    BY DEF Make
  <1>2. CASE Done(h) /\ UNCHANGED origin
    BY <1>0, <1>1, <1>2, QuietDone, QuietHandle
  <1> DEFINE r == [job[h] EXCEPT !.pc = "stat"]
  <1>3. ASSUME Goto(h, "stat")
        PROVE  /\ QuietStep(h, r) /\ Carries(r) /\ r.obj < nextObj /\ r.obj = job[h].obj
               /\ r.pc = "stat"
    <2>1. r.obj = job[h].obj /\ r.pc = "stat"
      BY <1>0 DEF TableInv, Types, JobType
    <2>2. QuietStep(h, r) /\ Carries(r) /\ r.obj < nextObj
      BY <1>0, <1>1, <1>3, QuietGoes
    <2> QED  BY <2>1, <2>2
  <1> HIDE DEF r
  <1>4. CASE Goto(h, "stat") /\ UNCHANGED origin
    BY <1>0, <1>1, <1>3, <1>4, QuietHandle
  <1> DEFINE p == job[h].path
  <1>5. CASE /\ Goto(h, "stat") /\ p \notin DOMAIN fs /\ fs' = With(fs, p, nextObj) /\ nextObj' = nextObj + 1
             /\ Front(p) = <<>> \/ Front(p) \in DOMAIN fs
    <2>1. SamePending /\ Apart' /\ job'[h] = r /\ \A g \in Handlers \ {h} : job'[g] = job[g]
      BY <1>0, <1>3, <1>5, QuietJobs
    <2>2. /\ DOMAIN fs' = DOMAIN fs \cup {p} /\ fs'[p] = nextObj
          /\ \A q \in DOMAIN fs : q # p /\ fs'[q] = fs[q] /\ fs[q] < nextObj
      <3>1. \A q \in DOMAIN fs : fs[q] < nextObj
        BY <1>0 DEF Objects
      <3> HIDE DEF p
      <3> QED  BY <1>5, <3>1 DEF With
    <2>3. nextObj \in Nat /\ nextObj' = nextObj + 1
      BY <1>0, <1>5 DEF TableInv, Types
    <2>4. ASSUME NEW g \in Handlers, Pending(g), ~job[g].torn
          PROVE  ~Covered(job[g].path, p)
      BY <1>0, <1>1, <1>5, <2>4, MadeUncovered DEF Pending
    <2>5. Untorn'
      <3>1. \A g \in Handlers : job'[g].pc = "tables" <=> job[g].pc = "tables"
        BY <2>1 DEF SamePending
      <3>2. \A g \in Handlers : Pending(g) => /\ job'[g].path = job[g].path /\ job'[g].to = job[g].to
                                              /\ job'[g].torn = job[g].torn
        BY <2>1 DEF SamePending, Pending
      <3>3. ASSUME NEW g \in Handlers, NEW k \in Handlers, g # k, Pending(g)', Pending(k)', Related(g, k)'
            PROVE  job'[g].torn
        <4>1. Pending(g) /\ Pending(k)
          BY <3>1, <3>3 DEF Pending
        <4>2. Related(g, k)
          BY <3>2, <3>3, <4>1 DEF Related
        <4> QED  BY <1>0, <3>2, <3>3, <4>1, <4>2 DEF Untorn
      <3>4. ASSUME NEW g \in Handlers, Pending(g)', ~job'[g].torn, NEW q \in DOMAIN fs'
            PROVE  ~Covered(job'[g].path, q)
        <4>1. Pending(g) /\ ~job[g].torn /\ job'[g].path = job[g].path
          BY <3>1, <3>2, <3>4 DEF Pending
        <4>2. CASE q \in DOMAIN fs
          BY <1>0, <4>1, <4>2 DEF Untorn
        <4>3. CASE q = p
          BY <2>4, <4>1, <4>3
        <4> QED  BY <2>2, <4>2, <4>3
      <3> QED  BY <3>3, <3>4 DEF Untorn
    <2>6. Objects'
      <3>1. \A f \in DOMAIN opens : opened[f] \in Nat /\ opened[f] < nextObj
        BY <1>0 DEF Objects, TableInv, Types
      <3>2. \A g \in Handlers : job'[g].obj \in Nat /\ job'[g].obj < nextObj
        <4>1. \A g \in Handlers : job[g].obj \in Nat /\ job[g].obj < nextObj
          BY <1>0 DEF Objects, TableInv, Types, JobType
        <4> QED  BY <1>3, <1>5, <2>1, <4>1
      <3>3. \A q \in DOMAIN fs : fs[q] \in Nat
        BY <1>0 DEF TableInv, Types
      <3>4. \A a, b \in DOMAIN fs : fs[a] = fs[b] => a = b
        BY <1>0 DEF Objects
      <3> HIDE DEF p
      <3>5. \A q \in DOMAIN fs' : fs'[q] < nextObj'
        BY <2>2, <2>3, <3>3
      <3>6. \A a, b \in DOMAIN fs' : fs'[a] = fs'[b] => a = b
        BY <2>2, <2>3, <3>3, <3>4
      <3> QED  BY <1>1, <2>3, <3>1, <3>2, <3>5, <3>6 DEF Objects
    <2>7. ASSUME NEW m, NEW o, Sound(m, o), o < nextObj, o \in Nat
          PROVE  Sound(m, o)'
      <3>1. ASSUME NEW q \in DOMAIN fs', fs'[q] = o
            PROVE  Follows(m, q)'
        <4>1. q \in DOMAIN fs /\ fs[q] = o
          BY <2>2, <2>3, <2>7, <3>1
        <4> QED  BY <2>1, <2>7, <4>1, FollowsKept DEF Sound
      <3> QED  BY <3>1 DEF Sound
    <2> HIDE DEF p
    <2>8. ASSUME faults' = 0, NEW f \in DOMAIN opens', f \notin torn' \cup crossed'
          PROVE  Sound(opens[f], opened[f])'
      <3> DEFINE m == opens[f]
                 o == opened[f]
      <3>1. Sound(m, o) /\ m' = m /\ o' = o /\ o \in Nat /\ o < nextObj
        BY <1>0, <1>1, <2>8 DEF Records, Objects, TableInv, Types
      <3> HIDE DEF m, o
      <3>2. Sound(m, o)'
        BY <2>7, <3>1 DEF Sound
      <3> QED  BY <3>2 DEF m, o
    <2>9. ASSUME NEW g \in Handlers, Copying(g)', ~job'[g].torn
          PROVE  Sound(job[g].path, job[g].obj)'
      <3>1. g # h
        BY <1>3, <1>5, <2>1, <2>9 DEF Copying
      <3> DEFINE m == job[g].path
                 o == job[g].obj
      <3>2. Sound(m, o) /\ m' = m /\ o' = o /\ o \in Nat /\ o < nextObj
        BY <1>0, <2>1, <2>9, <3>1 DEF Records, Copying, Objects, TableInv, Types, JobType
      <3> HIDE DEF m, o
      <3>3. Sound(m, o)'
        BY <2>7, <3>2 DEF Sound
      <3> QED  BY <3>3 DEF m, o
    <2> QED  BY <1>0, <1>1, <2>1, <2>5, <2>6, <2>8, <2>9 DEF Records
  <1> QED  BY <1>2, <1>4, <1>5 DEF Make

\* The directory of a child is its parent.
LEMMA FrontAppend ==
    ASSUME NEW s \in Tracks, NEW n
    PROVE  Append(s, n) # <<>> /\ Front(Append(s, n)) = s
PROOF
  <1> DEFINE S == Steps \cup {n}
             t == Append(s, n)
  <1>1. s \in Seq(S) /\ n \in S /\ Len(s) \in Nat
    BY DEF Tracks
  <1>2. t \in Seq(S) /\ Len(t) = Len(s) + 1 /\ \A i \in 1..Len(s) : t[i] = s[i]
    <2> HIDE DEF S
    <2> QED  BY <1>1
  <1> HIDE DEF S, t
  <1>3. t # <<>>
    BY <1>1, <1>2, EmptySeq
  <1>4. Front(t) = [i \in 1..Len(s) |-> t[i]] /\ Front(t) \in Seq(S)
    BY <1>1, <1>2 DEF Front
  <1>5. Front(t) = s
    BY <1>1, <1>2, <1>4, SeqEqual
  <1> QED  BY <1>3, <1>5 DEF t

\* The job a handler begins with: the directories of its names are not those of
\* another's.
Fresh(h, r) ==
    /\ r.op # "none" /\ r.pc \notin {"tables", "intern", "remember"} /\ r.obj = 0
    /\ r.op \in NameOps => Fronts(r) \cap Locked = {}
    /\ r.op \in {"rename", "exchange"} =>
          /\ ~Covered(r.path, r.to) /\ ~Covered(r.to, r.path)
          /\ r.op = "exchange" => Within(r.to, r.path)

LEMMA ParentTrack ==
    ASSUME TableInv, NEW i \in Inos \cup {Root}, Resolves(i)
    PROVE  PathForIno(i) \in Tracks
PROOF
  <1>1. <<>> \in Tracks
    BY DEF Tracks
  <1> QED  BY <1>1, PathsAreTracks DEF PathForIno, Resolves, TableInv, Types, NodeType

LEMMA BeginFresh ==
    ASSUME TableInv, NEW h \in Handlers,
           Lookup(h) \/ Create(h) \/ Mkdir(h) \/ Unlink(h)
    PROVE  \E r : Set(h, r) /\ job[h] = Idle /\ Fresh(h, r)
PROOF
  <1>1. PICK op \in {"lookup", "create", "mkdir", "unlink"}, pc \in {"stat", "make", "remove"} : Begin(h, op, pc)
    BY DEF Lookup, Create, Mkdir, Unlink
  <1>2. PICK i \in Inos \cup {Root}, n \in Names :
           /\ Resolves(i) /\ (op = "lookup" \/ PathForIno(i) \notin Locked)
           /\ Set(h, Starting(op, pc, Child(i, n), <<>>, 0))
    BY <1>1 DEF Begin
  <1> DEFINE s == PathForIno(i)
             t == Child(i, n)
             r == Starting(op, pc, t, <<>>, 0)
  <1>3. Set(h, r) /\ job[h] = Idle
    BY <1>1, <1>2 DEF Begin
  <1>4. t # <<>> /\ Front(t) = s
    BY <1>2, ParentTrack, FrontAppend DEF Child
  <1> HIDE DEF t
  <1>5. r.op = op /\ r.pc = pc /\ r.path = t /\ r.to = <<>> /\ r.obj = 0
    BY DEF Starting
  <1> HIDE DEF r
  <1>6. Fronts(r) = {s}
    BY <1>4, <1>5 DEF Fronts
  <1>7. op \in NameOps => s \notin Locked
    BY <1>2 DEF NameOps
  <1> HIDE DEF s
  <1>8. Fresh(h, r)
    BY <1>1, <1>5, <1>6, <1>7 DEF Fresh
  <1> QED  BY <1>3, <1>8

LEMMA OpenFresh ==
    ASSUME TableInv, NEW h \in Handlers, Open(h)
    PROVE  \E r : Set(h, r) /\ job[h] = Idle /\ Fresh(h, r)
PROOF
  <1>1. PICK i \in Inos : Set(h, Starting("open", "open", PathForIno(i), <<>>, i)) /\ job[h] = Idle
    BY DEF Open
  <1> DEFINE r == Starting("open", "open", PathForIno(i), <<>>, i)
  <1>2. Set(h, r)
    BY <1>1
  <1>3. r.op = "open" /\ r.pc = "open" /\ r.obj = 0
    BY DEF Starting
  <1> HIDE DEF r
  <1>4. Fresh(h, r)
    BY <1>3 DEF Fresh, NameOps
  <1> QED  BY <1>1, <1>2, <1>4

LEMMA RenameFresh ==
    ASSUME TableInv, NEW h \in Handlers, Rename(h)
    PROVE  \E r : Set(h, r) /\ job[h] = Idle /\ Fresh(h, r)
PROOF
  <1>1. PICK op \in load.ops \cap {"rename", "exchange"} :
           \E p, q \in {i \in Inos \cup {Root} : Held(i) /\ Resolves(i)}, n, m \in Names :
              /\ {Child(p, n), Child(q, m)} \subseteq Paths
              /\ ~IsPrefix(Child(p, n), Child(q, m)) /\ ~IsPrefix(Child(q, m), Child(p, n))
              /\ {PathForIno(p), PathForIno(q)} \cap Locked = {}
              /\ Within(Child(p, n), Child(q, m)) /\ (op = "exchange" => Within(Child(q, m), Child(p, n)))
              /\ Set(h, Starting(op, "move", Child(p, n), Child(q, m), 0))
    BY ZenonT(60) DEF Rename
  <1>2. PICK p \in {i \in Inos \cup {Root} : Held(i) /\ Resolves(i)}, q \in {i \in Inos \cup {Root} : Held(i) /\ Resolves(i)},
             n \in Names, m \in Names :
              /\ ~IsPrefix(Child(p, n), Child(q, m)) /\ ~IsPrefix(Child(q, m), Child(p, n))
              /\ {PathForIno(p), PathForIno(q)} \cap Locked = {}
              /\ (op = "exchange" => Within(Child(q, m), Child(p, n)))
              /\ Set(h, Starting(op, "move", Child(p, n), Child(q, m), 0))
    BY <1>1, ZenonT(60)
  <1> DEFINE a == Child(p, n)
             b == Child(q, m)
             s == PathForIno(p)
             t == PathForIno(q)
             r == Starting(op, "move", a, b, 0)
  <1>3. Set(h, r) /\ job[h] = Idle
    BY <1>2 DEF Rename
  <1>4. a # <<>> /\ Front(a) = s /\ b # <<>> /\ Front(b) = t
    BY <1>2, ParentTrack, FrontAppend DEF Child
  <1>5. ~Covered(a, b) /\ ~Covered(b, a) /\ (op = "exchange" => Within(b, a))
    BY <1>2 DEF Covered
  <1>6. {s, t} \cap Locked = {}
    BY <1>2
  <1> HIDE DEF a, b
  <1>7. r.op = op /\ r.pc = "move" /\ r.path = a /\ r.to = b /\ r.obj = 0
    BY DEF Starting
  <1> HIDE DEF r
  <1>8. Fronts(r) = {s, t}
    BY <1>4, <1>7 DEF Fronts
  <1> HIDE DEF s, t
  <1>9. Fresh(h, r)
    BY <1>1, <1>5, <1>6, <1>7, <1>8 DEF Fresh
  <1> QED  BY <1>3, <1>9

\* A request begins, holding the locks of its directories.
LEMMA HandlesBegin ==
    ASSUME HandleInv, NEW h \in Handlers,
           Lookup(h) \/ Create(h) \/ Mkdir(h) \/ Unlink(h) \/ Open(h) \/ Rename(h)
    PROVE  faults' \in Nat /\ Apart' /\ Untorn' /\ Objects' /\ Records'
PROOF
  <1>0. TableInv /\ faults \in Nat /\ Apart /\ Untorn /\ Objects /\ Records
    BY DEF HandleInv
  <1>1. PICK r : Set(h, r) /\ job[h] = Idle /\ Fresh(h, r)
    BY <1>0, BeginFresh, OpenFresh, RenameFresh
  <1>2. UNCHANGED <<fs, nextObj, opens, opened, torn, crossed, faults>>
    BY DEF Begin, Lookup, Create, Mkdir, Unlink, Open, Rename
  <1>3. job'[h] = r /\ \A g \in Handlers \ {h} : job'[g] = job[g]
    BY <1>0, <1>1 DEF TableInv, Types
  <1>4. r.pc \notin {"tables", "intern", "remember"} /\ r.obj = 0 /\ job[h].pc = "idle"
    BY <1>1, IdleJob DEF Fresh
  <1>5. SamePending
    BY <1>3, <1>4 DEF SamePending
  <1>6. Carries(r) /\ r.obj < nextObj
    BY <1>0, <1>4, SomeObject DEF Carries
  <1>7. \A g \in Handlers : job[g].op \in NameOps => Fronts(job[g]) \subseteq Locked
    BY DEF Fronts, Locked, NameOps
  <1>8. Apart'
    <2>1. ASSUME NEW g \in Handlers, NEW k \in Handlers, g # k, job'[g].op \in NameOps, job'[k].op \in NameOps
          PROVE  Fronts(job'[g]) \cap Fronts(job'[k]) = {}
      <3>1. CASE g = h
        <4>1. Fronts(job'[k]) \subseteq Locked /\ Fronts(job'[g]) \cap Locked = {}
          BY <1>1, <1>3, <1>7, <2>1, <3>1 DEF Fresh
        <4> QED  BY <4>1
      <3>2. CASE k = h
        <4>1. Fronts(job'[g]) \subseteq Locked /\ Fronts(job'[k]) \cap Locked = {}
          BY <1>1, <1>3, <1>7, <2>1, <3>2 DEF Fresh
        <4> QED  BY <4>1
      <3>3. CASE g # h /\ k # h
        BY <1>0, <1>3, <2>1, <3>3 DEF Apart
      <3> QED  BY <3>1, <3>2, <3>3
    <2>2. ASSUME NEW g \in Handlers, job'[g].op \in {"rename", "exchange"}
          PROVE  /\ ~Covered(job'[g].path, job'[g].to) /\ ~Covered(job'[g].to, job'[g].path)
                 /\ job'[g].op = "exchange" => Within(job'[g].to, job'[g].path)
      BY <1>0, <1>1, <1>3, <2>2 DEF Apart, Fresh
    <2>3. \A g \in Handlers : job'[g].pc = "tables" => job'[g].op = "rename"
      BY <1>0, <1>3, <1>4 DEF Apart, Pending
    <2> QED  BY <2>1, <2>2, <2>3 DEF Apart, Pending, Fronts, Within
  <1> QED  BY <1>0, <1>2, <1>3, <1>5, <1>6, <1>8, OneJobMoves

LEMMA HandlesStill ==
    ASSUME HandleInv, UNCHANGED <<fs, nextObj, opened, torn, crossed, faults, job>>,
           \A f \in DOMAIN opens' : f \in DOMAIN opens /\ opens'[f] = opens[f]
    PROVE  faults' \in Nat /\ Apart' /\ Untorn' /\ Objects' /\ Records'
PROOF
  <1>0. TableInv /\ faults \in Nat /\ Apart /\ Untorn /\ Objects /\ Records
    BY DEF HandleInv
  <1>1. SamePending
    BY DEF SamePending
  <1>2. Apart'
    BY <1>0 DEF Apart, Pending, Fronts, Within
  <1>3. \A g \in Handlers : Carries(job'[g]) /\ job'[g].obj < nextObj
    BY <1>0, CarriesNow DEF Objects
  <1> QED  BY <1>0, <1>1, <1>2, <1>3, RecordsStay

\* The kernel's own steps, and a handover, take no part.
LEMMA HandlesKernel ==
    ASSUME HandleInv,
           (\E i \in Inos : Evict(i) \/ Forget(i)) \/ (\E f \in Fhs : Release(f)) \/ Handover \/ UNCHANGED vars
    PROVE  faults' \in Nat /\ Apart' /\ Untorn' /\ Objects' /\ Records'
PROOF
  <1>1. UNCHANGED <<fs, nextObj, opened, torn, crossed, faults, job>>
    BY DEF Evict, Forget, Release, Handover, vars
  <1>2. \A f \in DOMAIN opens' : f \in DOMAIN opens /\ opens'[f] = opens[f]
    <2>1. CASE UNCHANGED opens
      BY <2>1
    <2>2. CASE \E f \in Fhs : Release(f)
      BY <2>2 DEF Release, Without
    <2> QED  BY <2>1, <2>2 DEF Evict, Forget, Handover, RestoreMaps, vars
  <1> QED  BY <1>1, <1>2, HandlesStill

LEMMA StepHandleInv == HandleInv /\ [Next]_vars => HandleInv'
PROOF
  <1> SUFFICES ASSUME HandleInv, [Next]_vars PROVE HandleInv'
    OBVIOUS
  <1>1. TableInv' /\ Handles'
    BY StepTable, StepHandles DEF HandleInv
  <1> DEFINE Rest == faults' \in Nat /\ Apart' /\ Untorn' /\ Objects' /\ Records'
  <1>2. ASSUME NEW h \in Handlers,
               \/ Lookup(h) \/ Create(h) \/ Mkdir(h) \/ Unlink(h) \/ Open(h) \/ Rename(h)
        PROVE  Rest
    BY <1>2, HandlesBegin
  <1>3. ASSUME NEW h \in Handlers, Make(h) \/ Stat(h) \/ Intern(h) \/ OpenFile(h) \/ Remember(h)
        PROVE  Rest
    BY <1>3, HandlesMake, HandlesSee, HandlesIntern, RecordsRemember
  <1>4. ASSUME NEW h \in Handlers, Reply(h) \/ ReplyLost(h) \/ UndoOpen(h) \/ UndoLookup(h) \/ RemoveFile(h)
        PROVE  Rest
    BY <1>4, HandlesReply
  <1>5. ASSUME NEW h \in Handlers, Move(h) \/ Converge(h) \/ Tables(h)
        PROVE  Rest
    BY <1>5, HandlesMove, HandlesConverge, HandlesTables
  <1>6. ASSUME (\E i \in Inos : Evict(i) \/ Forget(i)) \/ (\E f \in Fhs : Release(f)) \/ Handover \/ UNCHANGED vars
        PROVE  Rest
    BY <1>6, HandlesKernel
  <1> HIDE DEF Rest
  <1>7. Rest
    BY <1>2, <1>3, <1>4, <1>5, <1>6 DEF Next
  <1> QED  BY <1>1, <1>7 DEF HandleInv, Rest

LEMMA InitHandleInv == Init => HandleInv
PROOF
  <1> SUFFICES ASSUME Init PROVE HandleInv
    OBVIOUS
  <1>1. TableInv
    BY InitTables
  <1>2. \A h \in Handlers : job[h] = Idle
    BY DEF Init
  <1>3. opens = Empty /\ handles = Empty /\ faults = 0 /\ DOMAIN opens = {} /\ DOMAIN handles = {}
    BY DEF Init, Empty
  <1>4. Handles
    <2>1. \A h \in Handlers : job[h].fh = 0
      BY <1>2, IdleJob
    <2> QED  BY <1>3, <2>1 DEF Handles, HandlesRecorded
  <1>5. \A h \in Handlers : job[h].op = "none" /\ job[h].pc = "idle"
    BY <1>2, IdleJob
  <1>6. Apart
    BY <1>5 DEF Apart, Pending, NameOps
  <1>7. Untorn
    BY <1>5 DEF Untorn, Pending
  <1>8. Objects
    <2> DEFINE S == load.tree
               seq == SetToSeq(S)
               num(p) == CHOOSE n \in 1..Len(seq) : seq[n] = p
    <2>1. IsFiniteSet(S)
      BY TableAssumption DEF Init
    <2>2. Cardinality(S) \in Nat /\ \A p \in S : num(p) \in 1..Cardinality(S) /\ seq[num(p)] = p
      BY <2>1, TreeNumbered
    <2>3. DOMAIN fs = S /\ (\A p \in S : fs[p] = num(p)) /\ nextObj = Cardinality(S) + 1
      BY DEF Init
    <2> HIDE DEF S, seq, num
    <2>4. \A p \in DOMAIN fs : fs[p] < nextObj
      BY <2>2, <2>3
    <2>5. \A p, q \in DOMAIN fs : fs[p] = fs[q] => p = q
      BY <2>2, <2>3
    <2>6. \A h \in Handlers : job[h].obj < nextObj
      <3>1. Idle.obj = 0
        BY DEF Idle, Starting
      <3> QED  BY <1>2, <2>2, <2>3, <3>1
    <2> QED  BY <1>3, <2>4, <2>5, <2>6 DEF Objects
  <1>9. Records
    BY <1>3, <1>5 DEF Records, Copying
  <1> QED  BY <1>1, <1>3, <1>4, <1>6, <1>7, <1>8, <1>9 DEF HandleInv

\* Outside a rename a record that is followed names its file.
LEMMA UnracedFollow == HandleInv => HandlesFollowUnraced
PROOF
  <1> SUFFICES ASSUME HandleInv, ~Renaming, faults = 0, NEW f \in DOMAIN opens \ (torn \cup crossed),
                      NEW q \in Where(opened[f])
               PROVE  q = opens[f]
    BY DEF HandlesFollowUnraced
  <1>1. Sound(opens[f], opened[f])
    BY DEF HandleInv, Records
  <1>2. Follows(opens[f], q)
    BY <1>1 DEF Sound, Where
  <1> QED  BY <1>2 DEF Follows, Pending, Renaming

\* rememberOpen, renameNodes, forgetOpen: the table of handles has a record for
\* the handles the kernel holds and those on their way, and no other; and
\* outside a rename a record names the file it was opened on, as long as that
\* file has a name.  The handles excepted are those opened while a rename ran,
\* those whose record one of two crossing renames moved, and those an exchange
\* swapped.
THEOREM HandlesAreSound == Spec => []HandlesSound
PROOF
  <1>1. HandleInv => HandlesSound
    BY UnracedFollow DEF HandleInv, Handles, HandlesSound
  <1> QED  BY InitHandleInv, StepHandleInv, <1>1, PTL DEF Spec
====
