----------------------------- MODULE MountProofs -----------------------------
(***************************************************************************)
(* Proofs about Mount, for any systems, faults and handovers: whatever     *)
(* descriptors were closed before the start, and through every fork and    *)
(* exec, an image that serves has the device of a mounted connection open  *)
(* and its helper leaves it alone, and a mount that had taken the place of *)
(* ours when the device was polled is never unmounted.                     *)
(*                                                                         *)
(* MountInv says for every step of the image which descriptors it has open *)
(* (Table), that se->fd is the device and of which connection (Device),    *)
(* that the sockets the helpers listen on are held past every exec         *)
(* (Sockets), what is under way between a helper and the image (Helping),  *)
(* and that what the operator mounted is alone, unless it came after that  *)
(* poll (Replacing).                                                       *)
(***************************************************************************)
EXTENDS Mount, SequenceTheorems, NaturalsInduction, WellFoundedInduction, TLAPS

Thing == {"free", "null", "wake", "waiter", "dev", "sock", "peer"} \X (Nat \cup Helpers)
Over == {"umount", "destroy", "exit", "gone"}
Mounting == {"stdio", "dev", "mount", "mtab", "auto", "fusermount1", "recv1", "fusermount2", "recv2", "save"}
PcNames == {"new", "io", "wake", "replay", "daemonize", "child", "serve", "unmount", "undo"} \cup Over \cup Mounting

Types ==
    /\ load \in LoadType
    /\ alive \subseteq Procs /\ fdt \in [Procs -> [Fds -> Thing]] /\ cloexec \in [Procs -> SUBSET Fds]
    /\ mounts \in Seq(Nat) /\ conns \in Nat
    /\ pc \in PcNames /\ who \in Image /\ inherited \in BOOLEAN /\ sefd \in Fds \cup {-1}
    /\ saved \in BOOLEAN /\ hooked \in BOOLEAN /\ completed \in BOOLEAN
    /\ hpc \in [Helpers -> {"none", "mount", "watch", "fail", "gone"}]
    /\ hconn \in [Helpers -> Nat] /\ sent \in [Helpers -> Nat]
    /\ replaced \in BOOLEAN /\ late \in BOOLEAN

\* The image runs in the command until it forks; an inherited connection
\* skips the mount and the fork.
Fresh == pc \in Mounting \cup {"undo", "daemonize"} \/ (pc \in {"new", "io", "wake"} /\ ~inherited)
Forking ==
    /\ pc \notin Over => who \in alive
    /\ Fresh => who = "cmd" /\ ~inherited
    /\ pc = "replay" => inherited

\* Which descriptors the image has open, by where it is.
Taken(t) == {i \in Fds : t[i] # Free}
Waiting(t) == {i \in Fds : t[i] \in {Waiter(0), Waiter(1)}}
Bare == pc = "stdio" \/ (pc = "new" /\ ~inherited)
Room ==
    CASE Bare \/ pc \in {"dev", "fusermount1"} -> 0..2
      [] pc \in {"mount", "mtab", "auto"} -> 0..3
      [] pc \in {"recv1", "fusermount2"} -> {0, 1, 2, 4}
      [] pc = "recv2" -> {0, 1, 2, 4, 5}
      [] ~Bare /\ pc \in {"new", "save", "io", "wake", "undo"} -> 0..5
      [] pc = "child" -> 0..5 \cup cloexec[who] \cup Waiting(Mine)
      [] OTHER -> 0..5 \cup cloexec[who]
Table ==
    pc \notin Over =>
        /\ Taken(Mine) \subseteq Room
        /\ ~Bare => 0..2 \subseteq Taken(Mine)
        /\ cloexec[who] \subseteq 3..7

\* se->fd is the device, of a connection that is mounted unless another
\* mount has taken its place.
Opened == pc \in {"mtab", "auto", "save", "io", "wake", "replay", "daemonize", "child", "serve", "unmount", "undo"}
          \/ (pc = "new" /\ inherited)
Device ==
    /\ pc = "mount" => sefd = 3 /\ Mine[3] = Dev(conns)
    /\ pc \in {"mount", "mtab", "auto"} => conns # 0
    /\ Opened => sefd = 3 /\ \E c \in Nat \ {0} : Mine[3] = Dev(c) /\ (~replaced => Mounted(c))

\* The image keeps the other end of a running helper's socket.
Sockets ==
    pc \notin Over =>
        \A h \in Helpers : hpc[h] \in {"mount", "watch"} =>
            \E i \in Fds : i > 2 /\ i \notin cloexec[who] /\ Mine[i] = Sock(h)

Unforked(h) == Bare \/ pc \in {"dev", "mount", "mtab", "auto", "fusermount1"} \/ (h = "h2" /\ pc \in {"recv1", "fusermount2"})
Answering(h) ==
    /\ Unforked(h) => hpc[h] = "none"
    /\ hpc[h] = "mount" => h \in alive /\ \E i \in Fds : fdt[h][i] = Peer(h)
    /\ hpc[h] = "mount" => <<h, pc>> \in {<<"h1", "recv1">>, <<"h2", "recv2">>}
    /\ hpc[h] \in {"none", "mount"} => sent[h] = 0
    /\ sent[h] # 0 /\ pc \notin Over /\ ~replaced => sent[h] \in ToSet(mounts)
    /\ hpc[h] = "watch" => hconn[h] # 0
Helping == \A h \in Helpers : Answering(h)

Replacing ==
    /\ ~replaced => ~Mounted(Other) /\ ~late
    /\ replaced => ~Fresh /\ pc # "child" /\ ToSet(mounts) \subseteq {Other}
    /\ replaced /\ ~late => mounts = <<Other>> /\ pc # "umount"
    /\ late => pc \in Over

MountInv == Types /\ Forking /\ Table /\ Device /\ Sockets /\ Helping /\ Replacing

-----------------------------------------------------------------------------
(* Descriptors.                                                              *)

LEMMA SmallestOf ==
  ASSUME NEW S \in SUBSET Nat, S # {}
  PROVE  Min(S) \in S /\ \A y \in S : Min(S) <= y
<1>1. PICK x \in S : \A y \in S : <<y, x>> \notin OpToRel(<, Nat)
  BY NatLessThanWellFounded, WFMin, Zenon
<1>2. \A y \in Nat : y < x => <<y, x>> \in OpToRel(<, Nat)
  BY Zenon DEF OpToRel
<1>3. \A y \in S : ~(y < x)
  BY <1>1, <1>2, Zenon
<1>4. \A y \in S : x <= y
  BY <1>3
<1>5. QED
  BY <1>4 DEF Min

\* There is a number for every descriptor a mount has open.
LEMMA TenNumbers == 0..9 \subseteq Fds /\ Fds \subseteq Nat
BY MountAssumption

\* The kinds of thing a descriptor names are told apart, and of each kind
\* the members are.
LEMMA ThingsDiffer ==
  /\ {Free, Null, Wake, Waiter(0), Waiter(1)} \subseteq Thing
  /\ \A h \in Helpers : {Sock(h), Peer(h)} \subseteq Thing \ {Free}
  /\ \A c \in Nat : Dev(c) \in Thing \ {Free}
  /\ Null # Free /\ Wake # Free /\ Waiter(0) # Free /\ Waiter(1) # Free
  /\ \A c, d \in Nat : Dev(c) = Dev(d) => c = d
  /\ \A h, g \in Helpers : /\ Sock(h) # Peer(g)
                           /\ Sock(h) = Sock(g) => h = g
                           /\ Peer(h) = Peer(g) => h = g
  /\ \A h \in Helpers : {Sock(h), Peer(h)} \cap {Null, Wake, Waiter(0), Waiter(1)} = {}
  /\ \A c \in Nat : Dev(c) \notin {Null, Wake, Waiter(0), Waiter(1)}
  /\ \A c \in Nat, h \in Helpers : Dev(c) \notin {Sock(h), Peer(h)}
<1> USE DEF Thing, Free, Null, Wake, Waiter, Sock, Peer, Dev
<1>1. {Free, Null, Wake, Waiter(0), Waiter(1)} \subseteq Thing
  OBVIOUS
<1>2. \A h \in Helpers : {Sock(h), Peer(h)} \subseteq Thing \ {Free}
  OBVIOUS
<1>3. \A c \in Nat : Dev(c) \in Thing \ {Free}
  OBVIOUS
<1>4. Null # Free /\ Wake # Free /\ Waiter(0) # Free /\ Waiter(1) # Free
  OBVIOUS
<1>5. \A c, d \in Nat : Dev(c) = Dev(d) => c = d
  OBVIOUS
<1>6. \A h, g \in Helpers : /\ Sock(h) # Peer(g)
                            /\ Sock(h) = Sock(g) => h = g
                            /\ Peer(h) = Peer(g) => h = g
  OBVIOUS
<1>7. \A h \in Helpers : {Sock(h), Peer(h)} \cap {Null, Wake, Waiter(0), Waiter(1)} = {}
  OBVIOUS
<1>8. \A c \in Nat : Dev(c) \notin {Null, Wake, Waiter(0), Waiter(1)}
  OBVIOUS
<1>9. \A c \in Nat, h \in Helpers : Dev(c) \notin {Sock(h), Peer(h)}
  OBVIOUS
<1>10. QED
  BY <1>1, <1>2, <1>3, <1>4, <1>5, <1>6, <1>7, <1>8, <1>9

\* While the open descriptors are among the first k, the next one is at most
\* the one after them, and the first hole there is.
LEMMA LowestIs ==
  ASSUME NEW t \in [Fds -> Thing], NEW k \in 0..8, Taken(t) \subseteq 0..k
  PROVE  /\ Lowest(t) \in Fds /\ Lowest(t) \in 0..(k + 1) /\ t[Lowest(t)] = Free
         /\ \A i \in Fds : t[i] = Free => Lowest(t) <= i
         /\ 0..2 \subseteq Taken(t) => Lowest(t) > 2
         /\ 0..2 \subseteq Taken(t) /\ 3 \notin Taken(t) => Lowest(t) = 3
<1> DEFINE F == {i \in Fds : t[i] = Free}
<1>1. k + 1 \in F
  BY TenNumbers DEF Taken
<1>2. F \in SUBSET Nat /\ F # {}
  BY <1>1, TenNumbers
<1> HIDE DEF F
<1>3. Min(F) \in F /\ \A y \in F : Min(F) <= y
  BY <1>2, SmallestOf
<1>4. Lowest(t) = Min(F)
  BY DEF Lowest, F
<1>5. Lowest(t) \in F /\ Lowest(t) \in Nat /\ Lowest(t) <= k + 1 /\ \A y \in F : Lowest(t) <= y
  BY <1>1, <1>2, <1>3, <1>4
<1>6. 0..2 \subseteq Taken(t) => Lowest(t) \notin 0..2
  BY <1>5 DEF F, Taken
<1>7. 0..2 \subseteq Taken(t) => Lowest(t) > 2
  BY <1>5, <1>6
<1>8. 3 \notin Taken(t) => 3 \in F
  BY TenNumbers DEF F, Taken
<1>9. QED
  BY <1>5, <1>7, <1>8 DEF F

LEMMA PutAdds ==
  ASSUME NEW t \in [Fds -> Thing], NEW x \in Thing \ {Free}, Lowest(t) \in Fds
  PROVE  /\ Put(t, x) \in [Fds -> Thing]
         /\ Put(t, x)[Lowest(t)] = x
         /\ \A i \in Fds \ {Lowest(t)} : Put(t, x)[i] = t[i]
         /\ Taken(Put(t, x)) = Taken(t) \cup {Lowest(t)}
BY DEF Put, Taken

LEMMA CloseFrees ==
  ASSUME NEW t \in [Fds -> Thing], NEW j \in Fds
  PROVE  /\ Close(t, j) \in [Fds -> Thing]
         /\ Close(t, j)[j] = Free
         /\ \A i \in Fds \ {j} : Close(t, j)[i] = t[i]
         /\ Taken(Close(t, j)) = Taken(t) \ {j}
BY ThingsDiffer DEF Close, Taken

\* The session's descriptor, when it has one.
LEMMA SessionFdCloses ==
  ASSUME Types
  PROVE  Close(fdt[who], sefd) \in [Fds -> Thing]
<1>1. fdt[who] \in [Fds -> Thing] /\ sefd \in Fds \cup {-1}
  BY DEF Types, Procs
<1>2. CASE sefd \in Fds
  BY <1>1, <1>2, CloseFrees
<1>3. CASE sefd \notin Fds
  BY <1>1, <1>3 DEF Close
<1>4. QED
  BY <1>2, <1>3

-----------------------------------------------------------------------------
(* What is mounted.                                                          *)

LEMMA MountAdds ==
  ASSUME NEW s \in Seq(Nat), NEW c \in Nat
  PROVE  Append(s, c) \in Seq(Nat) /\ ToSet(Append(s, c)) = ToSet(s) \cup {c}
<1> DEFINE r == Append(s, c)
<1>1. /\ r \in Seq(Nat) /\ Len(r) = Len(s) + 1
      /\ \A i \in 1..Len(s) : r[i] = s[i]
      /\ r[Len(s) + 1] = c
  BY AppendProperties
<1>2. DOMAIN r = 1..(Len(s) + 1) /\ DOMAIN s = 1..Len(s) /\ Len(s) \in Nat
  BY <1>1, LenProperties
<1> HIDE DEF r
<1>3. ToSet(r) = ToSet(s) \cup {c}
  <2>1. \A x \in ToSet(r) : x \in ToSet(s) \/ x = c
    <3> SUFFICES ASSUME NEW i \in DOMAIN r PROVE r[i] \in ToSet(s) \/ r[i] = c
      BY DEF ToSet
    <3>1. i \in 1..Len(s) \/ i = Len(s) + 1
      BY <1>2
    <3> QED
      BY <1>1, <1>2, <3>1 DEF ToSet
  <2>2. c \in ToSet(r)
    BY <1>1, <1>2 DEF ToSet
  <2>3. \A x \in ToSet(s) : x \in ToSet(r)
    BY <1>1, <1>2 DEF ToSet
  <2>4. QED
    BY <2>1, <2>2, <2>3
<1>4. QED
  BY <1>1, <1>3 DEF r

LEMMA PartOf ==
  ASSUME NEW s \in Seq(Nat), NEW m \in Nat \ {0}, NEW n \in Nat, n <= Len(s)
  PROVE  SubSeq(s, m, n) \in Seq(Nat) /\ ToSet(SubSeq(s, m, n)) \subseteq ToSet(s)
<1> DEFINE r == SubSeq(s, m, n)
<1>1. Len(s) \in Nat /\ DOMAIN s = 1..Len(s) /\ \A i \in 1..Len(s) : s[i] \in Nat
  BY LenProperties, ElementOfSeq
<1>2. \A i \in m..n : i \in 1..Len(s)
  BY <1>1
<1>3. \A i \in m..n : s[i] \in Nat
  BY <1>1, <1>2
<1>4. /\ r \in Seq(Nat)
      /\ Len(r) = (IF m <= n THEN n - m + 1 ELSE 0)
      /\ \A i \in 1..(n - m + 1) : r[i] = s[m + i - 1]
  BY <1>3, SubSeqProperties
<1> HIDE DEF r
<1>5. DOMAIN r = 1..Len(r)
  BY <1>4, LenProperties
<1>6. ASSUME NEW i \in DOMAIN r
      PROVE  r[i] \in ToSet(s)
  <2> DEFINE l == Len(r)
  <2>0. l = (IF m <= n THEN n - m + 1 ELSE 0) /\ i \in 1..l
    BY <1>4, <1>5
  <2> HIDE DEF l
  <2>1. i \in 1..(n - m + 1) /\ m + i - 1 \in m..n
    BY <2>0
  <2>2. m + i - 1 \in DOMAIN s
    BY <2>1, <1>1, <1>2
  <2>3. r[i] = s[m + i - 1]
    BY <2>1, <1>4
  <2>4. QED
    BY <2>2, <2>3 DEF ToSet
<1>7. ToSet(r) \subseteq ToSet(s)
  BY <1>6 DEF ToSet
<1>8. QED
  BY <1>4, <1>7 DEF r

LEMMA TopLeaves ==
  ASSUME NEW s \in Seq(Nat), s # <<>>
  PROVE  Front(s) \in Seq(Nat) /\ ToSet(Front(s)) \subseteq ToSet(s)
<1>1. Len(s) \in Nat \ {0}
  BY EmptySeq
<1>2. Len(s) - 1 \in Nat /\ Len(s) - 1 <= Len(s) /\ 1 \in Nat \ {0}
  BY <1>1
<1>3. QED
  BY <1>2, PartOf DEF Front

LEMMA OneLeaves ==
  ASSUME NEW s \in Seq(Nat), NEW e
  PROVE  /\ RemoveFirst(s, e) \in Seq(Nat)
         /\ ToSet(RemoveFirst(s, e)) \subseteq ToSet(s)
         /\ e \notin ToSet(s) => RemoveFirst(s, e) = s
<1> DEFINE I == {i \in 1..Len(s) : s[i] = e}
           a(k) == SubSeq(s, 1, k - 1)
           b(k) == SubSeq(s, k + 1, Len(s))
<1>1. Len(s) \in Nat /\ DOMAIN s = 1..Len(s)
  BY LenProperties
<1>2. I = {} => RemoveFirst(s, e) = s
  BY DEF RemoveFirst
<1>3. I # {} => RemoveFirst(s, e) = a(Min(I)) \o b(Min(I))
  BY DEF RemoveFirst, RemoveAt, SelectInSeq
<1>4. e \notin ToSet(s) => I = {}
  BY <1>1 DEF ToSet
<1>5. I \in SUBSET Nat /\ I \subseteq 1..Len(s)
  BY <1>1
<1> HIDE DEF I
<1>6. I # {} => Min(I) \in 1..Len(s)
  BY <1>5, SmallestOf
<1>7. ASSUME NEW k \in 1..Len(s)
      PROVE  a(k) \o b(k) \in Seq(Nat) /\ ToSet(a(k) \o b(k)) \subseteq ToSet(s)
  <2>1. 1 \in Nat \ {0} /\ k - 1 \in Nat /\ k - 1 <= Len(s) /\ k + 1 \in Nat \ {0} /\ Len(s) <= Len(s)
    BY <1>1
  <2>2. a(k) \in Seq(Nat) /\ ToSet(a(k)) \subseteq ToSet(s)
    BY <2>1, PartOf
  <2>3. b(k) \in Seq(Nat) /\ ToSet(b(k)) \subseteq ToSet(s)
    BY <1>1, <2>1, PartOf
  <2> HIDE DEF a, b
  <2>4. Range(a(k) \o b(k)) = Range(a(k)) \cup Range(b(k))
    BY <2>2, <2>3, RangeConcatenation
  <2>5. a(k) \o b(k) \in Seq(Nat)
    BY <2>2, <2>3, ConcatProperties
  <2>6. QED
    BY <2>2, <2>3, <2>4, <2>5 DEF Range, ToSet
<1>8. QED
  BY <1>2, <1>3, <1>4, <1>6, <1>7

-----------------------------------------------------------------------------
(* The first state.                                                          *)

LEMMA MountInit == Init => MountInv
<1> SUFFICES ASSUME Init PROVE MountInv
  OBVIOUS
<1>1. load \in LoadType
  BY MountAssumption DEF Init
<1>2. Mine = [i \in Fds |-> IF i \in (0..2) \ load.closed THEN Null ELSE Free] /\ cloexec[who] = {}
  BY DEF Init, Mine, Procs, Image
<1>3. fdt \in [Procs -> [Fds -> Thing]]
  BY ThingsDiffer DEF Init
<1>4. Types
  <2>1. alive \subseteq Procs /\ who \in Image /\ cloexec \in [Procs -> SUBSET Fds]
    BY DEF Init, Procs, Image
  <2>2. hpc \in [Helpers -> {"none", "mount", "watch", "fail", "gone"}] /\ hconn \in [Helpers -> Nat] /\ sent \in [Helpers -> Nat]
    BY DEF Init
  <2>3. mounts \in Seq(Nat) /\ conns \in Nat /\ pc \in PcNames /\ sefd \in Fds \cup {-1}
    BY EmptySeq DEF Init, PcNames
  <2>4. QED
    BY <1>1, <1>3, <2>1, <2>2, <2>3 DEF Init, Types
<1>5. Forking
  BY DEF Init, Forking, Fresh, Mounting, Over
<1>6. Bare /\ pc = "new" /\ pc \notin Over
  BY DEF Init, Bare, Over
<1>7. Taken(Mine) \subseteq 0..2
  BY <1>2 DEF Taken
<1>8. Table
  BY <1>2, <1>6, <1>7 DEF Table, Room
<1>9. Device
  BY DEF Init, Device, Opened
<1>10. \A h \in Helpers : hpc[h] = "none" /\ sent[h] = 0
  BY DEF Init
<1>11. Sockets /\ Helping
  BY <1>10 DEF Sockets, Helping, Answering
<1>12. Replacing
  BY DEF Init, Replacing, Mounted, ToSet
<1>13. QED
  BY <1>4, <1>5, <1>8, <1>9, <1>11, <1>12 DEF MountInv

-----------------------------------------------------------------------------
(* Steps that only go on, and the ends of the image.                         *)

\* A step of the image that touches no table and nothing of its helpers:
\* it goes on to the next call, or past one that failed.
Onward ==
    /\ UNCHANGED <<load, alive, fdt, cloexec, mounts, conns, who, inherited, sefd, helper, replaced, late>>
    /\ saved' \in BOOLEAN /\ hooked' \in BOOLEAN /\ completed' \in BOOLEAN
    /\ \/ pc = "new" /\ pc' = IF inherited THEN "io" ELSE "stdio"
       \/ pc = "serve" /\ pc' = IF inherited THEN "destroy" ELSE "unmount"
       \/ <<pc, pc'>> \in {<<"mtab", "auto">>, <<"fusermount1", "fusermount2">>, <<"save", "io">>, <<"save", "undo">>,
                           <<"replay", "serve">>, <<"daemonize", "serve">>, <<"daemonize", "unmount">>}
       \/ pc \notin {"recv1", "recv2"} /\ pc' \in Over \ {"umount"}

LEMMA OnwardKeeps == ASSUME MountInv, Onward PROVE MountInv'
<1> USE DEF MountInv, Onward, helper
<1>1. Types'
  BY DEF Types, PcNames, Mounting, Over
<1>2. Forking'
  BY DEF Types, Forking, Fresh, Over, Mounting
<1>3. Table'
  BY DEF Types, Table, Room, Bare, Mine, Over
<1>4. Device'
  BY DEF Types, Device, Opened, Mine, Mounted, Over
<1>5. Sockets'
  BY DEF Sockets, Over, Mine
<1>6. Helping'
  BY DEF Types, Helping, Answering, Unforked, Bare, Mounted, Over
<1>7. Replacing'
  BY DEF Types, Replacing, Fresh, Mounted, Mounting, Over
<1>8. QED
  BY <1>1, <1>2, <1>3, <1>4, <1>5, <1>6, <1>7

\* A step of the image after which nothing is asked of its table.
LEMMA OverKeeps ==
  ASSUME MountInv, Types', pc' \in Over, pc \notin {"recv1", "recv2"} \/ \A h \in Helpers : hpc[h] # "mount",
         hpc' = hpc, hconn' = hconn, replaced' = replaced, late' = late,
         \A h \in Helpers : sent'[h] \in {sent[h], 0},
         ToSet(mounts') \subseteq ToSet(mounts), replaced /\ ~late => mounts' = mounts /\ pc' # "umount"
  PROVE  MountInv'
<1> USE DEF MountInv
<1>1. Forking' /\ Table' /\ Device' /\ Sockets'
  BY DEF Forking, Fresh, Table, Device, Opened, Sockets, Over, Mounting
<1>2. \A h \in Helpers : hpc[h] # "mount"
  BY DEF Helping, Answering
<1>3. Helping'
  BY <1>2 DEF Types, Helping, Answering, Unforked, Bare, Over
<1>4. Replacing'
  BY DEF Replacing, Fresh, Mounting, Over, Mounted
<1>5. QED
  BY <1>1, <1>3, <1>4

LEMMA ExitTypes ==
  ASSUME Types, NEW p \in Procs, Exit(p)
  PROVE  /\ alive' \subseteq Procs /\ fdt' \in [Procs -> [Fds -> Thing]] /\ cloexec' \in [Procs -> SUBSET Fds]
         /\ \A q \in Procs \ {p} : fdt'[q] = fdt[q] /\ cloexec'[q] = cloexec[q] /\ (q \in alive <=> q \in alive')
<1>1. AllFree \in [Fds -> Thing]
  BY ThingsDiffer DEF AllFree
<1>2. QED
  BY <1>1 DEF Types, Exit

LEMMA MountsShrink ==
  ASSUME Types
  PROVE  TopUnmounted \in Seq(Nat) /\ ToSet(TopUnmounted) \subseteq ToSet(mounts)
BY TopLeaves DEF Types, TopUnmounted

\* The steps that go on, and those that end in a failure or with the image.
LEMMA EndsKeep ==
  ASSUME MountInv,
         \/ NewSession \/ SaveMountpoint \/ Replay \/ Terminate
         \/ Kill \/ Exits \/ SessionDestroy
  PROVE  MountInv'
<1> USE DEF MountInv
<1>1. CASE NewSession
  <2>1. CASE pc' = "gone"
    <3>1. pc = "new" /\ Exit(who) /\ UNCHANGED <<load, mounts, conns, who, inherited, sefd, saved, hooked, completed, hpc, hconn, sent, replaced, late>>
      BY <1>1, <2>1 DEF NewSession, At, Goto, helper
    <3>2. Types'
      BY <3>1, <2>1, ExitTypes DEF Types, Procs, PcNames, Over
    <3>3. QED
      BY <3>1, <3>2, <2>1, OverKeeps DEF Over, Types
  <2>2. CASE pc' # "gone"
    <3>1. Onward
      BY <1>1, <2>2 DEF NewSession, At, Goto, Onward, Types, procs
    <3>2. QED
      BY <3>1, OnwardKeeps
  <2>3. QED
    BY <2>1, <2>2
<1>2. CASE SaveMountpoint \/ Replay \/ Terminate
  <2>1. Onward
    BY <1>2 DEF SaveMountpoint, Replay, Terminate, At, Goto, Onward, Types, procs, counts, Over
  <2>2. QED
    BY <2>1, OnwardKeeps
<1>3. CASE Kill \/ Exits
  <2>1. pc' = "gone" /\ pc \in {"serve", "exit"} /\ Exit(who)
        /\ UNCHANGED <<load, mounts, conns, who, inherited, sefd, saved, hooked, completed, hpc, hconn, sent, replaced, late>>
    BY <1>3 DEF Kill, Exits, At, Goto, helper, counts
  <2>2. Types'
    BY <2>1, ExitTypes DEF Types, Procs, PcNames, Over
  <2>3. QED
    BY <2>1, <2>2, OverKeeps DEF Over, Types
<1>4. CASE SessionDestroy
  <2>1. pc = "destroy" /\ pc' = "exit" /\ fdt' = [fdt EXCEPT ![who] = Close(@, sefd)] /\ sefd' = -1
        /\ UNCHANGED <<load, alive, cloexec, mounts, conns, who, inherited, saved, hooked, completed, hpc, hconn, sent, replaced, late>>
    BY <1>4 DEF SessionDestroy, At, Goto, helper, counts
  <2>2. Close(fdt[who], sefd) \in [Fds -> Thing]
    BY SessionFdCloses
  <2>3. Types'
    BY <2>1, <2>2 DEF Types, Procs, PcNames, Over
  <2>4. QED
    BY <2>1, <2>3, OverKeeps DEF Over, Types
<1>5. QED
  BY <1>1, <1>2, <1>3, <1>4

-----------------------------------------------------------------------------
(* The steps of the mount.                                                   *)

LEMMA StdioKeeps == ASSUME MountInv, Stdio PROVE MountInv'
<1> USE DEF MountInv
<1> DEFINE t == [i \in Fds |-> IF i \in 0..2 /\ Mine[i] = Free THEN Null ELSE Mine[i]]
<1>1. /\ pc = "stdio" /\ pc' = "dev" /\ fdt' = [fdt EXCEPT ![who] = t]
      /\ UNCHANGED <<load, alive, cloexec, mounts, conns, who, inherited, sefd, saved, hooked, completed,
                     hpc, hconn, sent, replaced, late>>
  BY DEF Stdio, At, Goto, helper, counts, Mine
<1>2. t \in [Fds -> Thing] /\ Taken(t) = Taken(Mine) \cup 0..2
  BY ThingsDiffer, TenNumbers DEF Types, Mine, Taken, Procs
<1> HIDE DEF t
<1>3. Types'
  BY <1>1, <1>2 DEF Types, PcNames, Mounting, Procs
<1>4. Mine' = t /\ \A h \in Helpers : fdt'[h] = fdt[h]
  BY <1>1 DEF Types, Mine, Procs, Image, Helpers
<1>5. Forking'
  BY <1>1 DEF Forking, Fresh, Over, Mounting
<1>6. Table'
  BY <1>1, <1>2, <1>4 DEF Table, Room, Bare, Over
<1>7. Device'
  BY <1>1 DEF Device, Opened
<1>8. \A h \in Helpers : hpc[h] = "none" /\ sent[h] = 0
  BY <1>1 DEF Helping, Answering, Unforked, Bare
<1>9. Sockets' /\ Helping'
  BY <1>1, <1>8 DEF Sockets, Helping, Answering
<1>10. Replacing'
  BY <1>1 DEF Replacing, Fresh, Mounting, Mounted
<1>11. QED
  BY <1>3, <1>5, <1>6, <1>7, <1>9, <1>10

LEMMA OpenDevKeeps == ASSUME MountInv, OpenDev PROVE MountInv'
<1> USE DEF MountInv
<1> DEFINE t == Put(Mine, Dev(conns + 1))
           l == Lowest(Mine)
<1>1. CASE pc' = "exit"
  <2>1. Onward
    BY <1>1 DEF OpenDev, At, Goto, Onward, Types, helper, Over
  <2>2. QED
    BY <2>1, OnwardKeeps
<1>2. CASE pc' # "exit"
  <2>1. /\ pc = "dev" /\ pc' = "mount" /\ fdt' = [fdt EXCEPT ![who] = t]
        /\ cloexec' = [cloexec EXCEPT ![who] = @ \cup {l}] /\ conns' = conns + 1 /\ sefd' = l
        /\ UNCHANGED <<load, alive, mounts, who, inherited, saved, hooked, completed, hpc, hconn, sent, replaced, late>>
    BY <1>2 DEF OpenDev, At, Goto, helper, Mine
  <2>2. Mine \in [Fds -> Thing] /\ Taken(Mine) = 0..2 /\ conns + 1 \in Nat \ {0} /\ cloexec[who] \subseteq 3..7
    BY <2>1 DEF Types, Mine, Table, Room, Bare, Over, Procs
  <2>3. l = 3 /\ l \in Fds
    <3>1. 2 \in 0..8 /\ Taken(Mine) \subseteq 0..2 /\ 0..2 \subseteq Taken(Mine) /\ 3 \notin Taken(Mine)
      BY <2>2
    <3>2. QED
      BY <2>2, <3>1, LowestIs
  <2>4. t \in [Fds -> Thing] /\ Taken(t) = 0..2 \cup {3} /\ t[3] = Dev(conns + 1)
    BY <2>2, <2>3, PutAdds, ThingsDiffer
  <2> HIDE DEF t, l
  <2>5. Mine' = t /\ cloexec'[who'] = cloexec[who] \cup {3} /\ \A h \in Helpers : fdt'[h] = fdt[h]
    BY <2>1, <2>3 DEF Types, Mine, Procs, Image, Helpers
  <2>6. Types'
    BY <2>1, <2>2, <2>3, <2>4 DEF Types, PcNames, Mounting, Procs
  <2>7. Forking'
    BY <2>1 DEF Forking, Fresh, Over, Mounting
  <2>8. Table'
    BY <2>1, <2>2, <2>4, <2>5 DEF Table, Room, Bare, Over
  <2>9. Device'
    BY <2>1, <2>2, <2>3, <2>4, <2>5 DEF Device, Opened
  <2>10. \A h \in Helpers : hpc[h] = "none" /\ sent[h] = 0
    BY <2>1 DEF Types, Helping, Answering, Unforked
  <2>11. Sockets' /\ Helping'
    BY <2>1, <2>10 DEF Sockets, Helping, Answering
  <2>12. Replacing'
    BY <2>1 DEF Replacing, Fresh, Mounting, Mounted
  <2>13. QED
    BY <2>6, <2>7, <2>8, <2>9, <2>11, <2>12
<1>3. QED
  BY <1>1, <1>2

LEMMA MountSysKeeps == ASSUME MountInv, MountSys PROVE MountInv'
<1> USE DEF MountInv
<1> DEFINE t == Close(Mine, sefd)
<1>1. pc = "mount" /\ conns \in Nat \ {0} /\ sefd = 3 /\ 3 \in Fds /\ Mine[3] = Dev(conns) /\ ~replaced
      /\ who \in Procs /\ who \notin Helpers
  BY TenNumbers DEF MountSys, At, Types, Device, Replacing, Fresh, Mounting, Procs, Image, Helpers
<1>2. \A h \in Helpers : hpc[h] = "none" /\ sent[h] = 0
  BY <1>1 DEF Types, Helping, Answering, Unforked
<1>3. CASE pc' = "mtab"
  <2>1. /\ pc' = "mtab" /\ mounts' = Append(mounts, conns)
        /\ UNCHANGED <<load, alive, fdt, cloexec, conns, who, inherited, sefd, saved, hooked, completed,
                       hpc, hconn, sent, replaced, late>>
    BY <1>3 DEF MountSys, At, Goto, helper
  <2>2. mounts' \in Seq(Nat) /\ ToSet(mounts') = ToSet(mounts) \cup {conns}
    BY <1>1, <2>1, MountAdds DEF Types
  <2>3. Types'
    BY <2>1, <2>2 DEF Types, PcNames, Mounting
  <2>4. Forking' /\ Table'
    BY <1>1, <2>1 DEF Forking, Fresh, Over, Mounting, Table, Room, Bare, Mine
  <2>5. Device'
    BY <1>1, <2>1, <2>2 DEF Device, Opened, Mine, Mounted
  <2>6. Sockets' /\ Helping'
    BY <1>2, <2>1 DEF Sockets, Helping, Answering
  <2>7. Replacing'
    BY <1>1, <2>1, <2>2 DEF Replacing, Mounted, Other
  <2>8. QED
    BY <2>3, <2>4, <2>5, <2>6, <2>7
<1>4. CASE pc' # "mtab"
  <2>1. /\ pc' \in {"exit", "fusermount1"} /\ fdt' = [fdt EXCEPT ![who] = t] /\ sefd' = -1
        /\ UNCHANGED <<load, alive, cloexec, mounts, conns, who, inherited, saved, hooked, completed,
                       hpc, hconn, sent, replaced, late>>
    BY <1>4 DEF MountSys, At, Goto, helper, Mine
  <2>2. Mine \in [Fds -> Thing]
    BY <1>1 DEF Types, Mine
  <2>3. t \in [Fds -> Thing] /\ Taken(t) = Taken(Mine) \ {3}
    BY <1>1, <2>2, CloseFrees
  <2> HIDE DEF t
  <2>4. Types'
    BY <2>1, <2>3 DEF Types, PcNames, Mounting, Over
  <2>5. CASE pc' = "exit"
    BY <2>1, <2>4, <2>5, <1>1, OverKeeps DEF Over
  <2>6. CASE pc' = "fusermount1"
    <3>1. Mine' = t
      BY <2>1, <1>1 DEF Types, Mine
    <3>2. Forking'
      BY <1>1, <2>1, <2>6 DEF Forking, Fresh, Over, Mounting
    <3>3. Table'
      BY <1>1, <2>1, <2>6, <2>3, <3>1 DEF Types, Table, Room, Bare, Over
    <3>4. Device'
      BY <2>6, <2>1 DEF Device, Opened
    <3>5. Sockets' /\ Helping'
      BY <1>2, <2>1 DEF Sockets, Helping, Answering
    <3>6. Replacing'
      BY <1>1, <2>1 DEF Replacing, Mounted
    <3>7. QED
      BY <2>4, <3>2, <3>3, <3>4, <3>5, <3>6
  <2>7. QED
    BY <2>1, <2>5, <2>6
<1>5. QED
  BY <1>3, <1>4

LEMMA MtabKeeps == ASSUME MountInv, AddMtab PROVE MountInv'
<1> USE DEF MountInv
<1>1. CASE pc' = "auto"
  <2>1. Onward
    BY <1>1 DEF AddMtab, At, Goto, Onward, Types, helper, procs
  <2>2. QED
    BY <2>1, OnwardKeeps
<1>2. CASE pc' # "auto"
  <2>1. /\ pc = "mtab" /\ pc' = "exit" /\ mounts' = TopUnmounted /\ fdt' = [fdt EXCEPT ![who] = Close(@, sefd)] /\ sefd' = -1
        /\ UNCHANGED <<load, alive, cloexec, conns, who, inherited, saved, hooked, completed, hpc, hconn, sent, replaced, late>>
    BY <1>2 DEF AddMtab, At, Goto, helper
  <2>2. Close(fdt[who], sefd) \in [Fds -> Thing]
    BY SessionFdCloses
  <2>3. Types'
    BY <2>1, <2>2, MountsShrink DEF Types, Procs, PcNames, Over
  <2>4. ~replaced
    BY <2>1 DEF Replacing, Fresh, Mounting
  <2>5. QED
    BY <2>1, <2>3, <2>4, MountsShrink, OverKeeps DEF Over, Types
<1>3. QED
  BY <1>1, <1>2

-----------------------------------------------------------------------------
(* Forking a helper.                                                         *)

\* The pair of ForkHelper: both ends get numbers past the standard
\* descriptors, and each side keeps its own.
Paired(t, h) == Put(Put(t, Peer(h)), Sock(h))
Here(t, h) == Lowest(Put(t, Peer(h)))
PairMade(t, h, m) ==
    LET there == Lowest(t)
        here == Here(t, h)
        kept == Close(Paired(t, h), there)
        given == Close(Paired(t, h), here)
    IN /\ there \in Fds /\ here \in Fds /\ there > 2 /\ here > 2 /\ there # here /\ here <= m + 1
       /\ t[there] = Free /\ t[here] = Free
       /\ kept \in [Fds -> Thing] /\ given \in [Fds -> Thing]
       /\ kept[here] = Sock(h) /\ given[there] = Peer(h)
       /\ \A i \in Fds \ {there, here} : kept[i] = t[i]
       /\ Taken(kept) = Taken(t) \cup {here}

LEMMA PairIsMade ==
  ASSUME NEW t \in [Fds -> Thing], NEW h \in Helpers, NEW k \in 0..8, NEW m \in 0..8, 0..2 \subseteq Taken(t),
         Taken(t) \subseteq 0..k, Taken(t) \cup {Lowest(t)} \subseteq 0..m
  PROVE  PairMade(t, h, m)
<1> DEFINE there == Lowest(t)
           one == Put(t, Peer(h))
           here == Lowest(one)
           pair == Put(one, Sock(h))
<1>1. there \in Fds /\ there \in Nat /\ there > 2 /\ t[there] = Free
  <2>1. Lowest(t) \in Fds /\ Lowest(t) \in 0..(k + 1) /\ t[Lowest(t)] = Free /\ Lowest(t) > 2
    BY LowestIs
  <2>2. QED
    BY <2>1
<1>2. Peer(h) \in Thing \ {Free} /\ Sock(h) \in Thing \ {Free}
  BY ThingsDiffer
<1>3. /\ one \in [Fds -> Thing] /\ one[there] = Peer(h) /\ Taken(one) = Taken(t) \cup {there}
      /\ \A i \in Fds \ {there} : one[i] = t[i]
  BY <1>1, <1>2, PutAdds
<1>4. here \in Fds /\ here \in Nat /\ here > 2 /\ here <= m + 1 /\ one[here] = Free
  <2>1. 0..2 \subseteq Taken(one) /\ Taken(one) \subseteq 0..m
    BY <1>3
  <2>2. Lowest(one) \in Fds /\ Lowest(one) \in 0..(m + 1) /\ one[Lowest(one)] = Free /\ Lowest(one) > 2
    BY <1>3, <2>1, LowestIs
  <2>3. QED
    BY <2>2
<1>5. here # there /\ t[here] = Free
  BY <1>2, <1>3, <1>4
<1>6. /\ pair \in [Fds -> Thing] /\ pair[here] = Sock(h) /\ Taken(pair) = Taken(one) \cup {here}
      /\ \A i \in Fds \ {here} : pair[i] = one[i]
  BY <1>2, <1>3, <1>4, PutAdds
<1>7. /\ Close(pair, there) \in [Fds -> Thing] /\ Taken(Close(pair, there)) = Taken(pair) \ {there}
      /\ \A i \in Fds \ {there} : Close(pair, there)[i] = pair[i]
  BY <1>1, <1>6, CloseFrees
<1>8. Close(pair, here) \in [Fds -> Thing] /\ \A i \in Fds \ {here} : Close(pair, here)[i] = pair[i]
  BY <1>4, <1>6, CloseFrees
<1>9. there \notin Taken(t)
  BY <1>1 DEF Taken
<1> HIDE DEF there, one, here, pair
<1>10. /\ there \in Fds /\ here \in Fds /\ there > 2 /\ here > 2 /\ there # here /\ here <= m + 1
       /\ t[there] = Free /\ t[here] = Free
       /\ Close(pair, there) \in [Fds -> Thing] /\ Close(pair, here) \in [Fds -> Thing]
       /\ Close(pair, there)[here] = Sock(h) /\ Close(pair, here)[there] = Peer(h)
       /\ \A i \in Fds \ {there, here} : Close(pair, there)[i] = t[i]
       /\ Taken(Close(pair, there)) = Taken(t) \cup {here}
  BY <1>1, <1>3, <1>4, <1>5, <1>6, <1>7, <1>8, <1>9
<1>11. there = Lowest(t) /\ here = Here(t, h) /\ pair = Paired(t, h)
  BY DEF there, here, one, pair, Here, Paired
<1>12. QED
  BY <1>10, <1>11 DEF PairMade

LEMMA HelperForked ==
  ASSUME MountInv, NEW h \in Helpers, NEW state, NEW c, ForkHelper(h, state, c), who' = who,
         pc \in {"auto", "fusermount1", "fusermount2"}
  PROVE  /\ alive' = alive \cup {h} /\ fdt' \in [Procs -> [Fds -> Thing]] /\ cloexec' \in [Procs -> SUBSET Fds]
         /\ hpc' = [hpc EXCEPT ![h] = IF load.helper THEN state ELSE "fail"] /\ hconn' = [hconn EXCEPT ![h] = c]
         /\ \E i \in Fds : fdt'[h][i] = Peer(h)
         /\ \A g \in Helpers \ {h} : fdt'[g] = fdt[g]
         /\ \E here \in Fds :
              /\ here > 2 /\ Mine[here] = Free /\ Mine'[here] = Sock(h)
              /\ here \notin cloexec'[who'] /\ cloexec'[who'] \subseteq cloexec[who]
              /\ Taken(Mine') = Taken(Mine) \cup {here}
              /\ \A i \in Fds \ {here} : Mine[i] # Free => Mine'[i] = Mine[i]
              /\ here <= (IF pc = "fusermount1" THEN 4 ELSE 5)
              /\ pc # "auto" => here # 3
<1> USE DEF MountInv
<1> DEFINE there == Lowest(Mine)
           here == Here(Mine, h)
           pair == Paired(Mine, h)
           run == Execed(Close(pair, here), cloexec[who] \ {there, here})
           k == IF pc = "auto" THEN 3 ELSE IF pc = "fusermount1" THEN 2 ELSE 4
           m == IF pc = "fusermount1" THEN 3 ELSE 4
<1>1. Mine \in [Fds -> Thing] /\ who \in Procs /\ who # h /\ h \in Procs /\ cloexec[who] \in SUBSET Fds
  BY DEF Types, Mine, Procs, Image, Helpers
<1>2. /\ alive' = alive \cup {h}
      /\ fdt' = [fdt EXCEPT ![who] = Close(pair, there), ![h] = run]
      /\ cloexec' = [cloexec EXCEPT ![who] = @ \ {there, here}, ![h] = {}]
      /\ hpc' = [hpc EXCEPT ![h] = IF load.helper THEN state ELSE "fail"]
      /\ hconn' = [hconn EXCEPT ![h] = c]
  BY DEF ForkHelper, Paired, Here
<1>3. /\ 0..2 \subseteq Taken(Mine) /\ Taken(Mine) \subseteq 0..k
      /\ pc = "fusermount2" => Taken(Mine) \subseteq {0, 1, 2, 4}
  BY DEF Table, Room, Bare, Over
<1>4. k \in 0..8 /\ m \in 0..8
  OBVIOUS
<1>5. there \in 0..(k + 1) /\ (pc # "auto" => there = 3)
  BY <1>1, <1>3, <1>4, LowestIs
<1>6. Taken(Mine) \cup {there} \subseteq 0..m
  BY <1>3, <1>5
<1> HIDE DEF there, pair, here, k, m
<1>7. /\ there \in Fds /\ here \in Fds /\ there > 2 /\ here > 2 /\ there # here /\ here <= m + 1
      /\ Mine[there] = Free /\ Mine[here] = Free
      /\ Close(pair, there) \in [Fds -> Thing] /\ Close(pair, here) \in [Fds -> Thing]
      /\ Close(pair, there)[here] = Sock(h) /\ Close(pair, here)[there] = Peer(h)
      /\ \A i \in Fds \ {there, here} : Close(pair, there)[i] = Mine[i]
      /\ Taken(Close(pair, there)) = Taken(Mine) \cup {here}
  <2>1. PairMade(Mine, h, m)
    <3>1. Taken(Mine) \cup {Lowest(Mine)} \subseteq 0..m
      BY <1>6 DEF there
    <3>2. QED
      BY <1>1, <1>3, <1>4, <3>1, PairIsMade
  <2>2. QED
    BY <2>1 DEF PairMade, there, here, pair
<1>8. run \in [Fds -> Thing] /\ run[there] = Peer(h)
  BY <1>7, ThingsDiffer DEF Execed
<1> HIDE DEF run
<1>9. fdt' \in [Procs -> [Fds -> Thing]] /\ cloexec' \in [Procs -> SUBSET Fds]
  BY <1>1, <1>2, <1>7, <1>8 DEF Types
<1>10. fdt'[h] = run /\ \A g \in Helpers \ {h} : fdt'[g] = fdt[g]
  BY <1>1, <1>2 DEF Types, Procs, Helpers, Image
<1>11. Mine' = Close(pair, there) /\ cloexec'[who'] = cloexec[who] \ {there, here}
  BY <1>1, <1>2 DEF Types, Mine
<1>12. here <= (IF pc = "fusermount1" THEN 4 ELSE 5) /\ (pc # "auto" => here # 3)
  BY <1>5, <1>7 DEF m
<1>13. QED
  BY <1>2, <1>7, <1>8, <1>9, <1>10, <1>11, <1>12

\* What both uses of ForkHelper keep.
LEMMA ForkKeeps ==
  ASSUME MountInv, NEW h \in Helpers, NEW state \in {"mount", "watch"}, NEW c \in Nat, ForkHelper(h, state, c),
         hpc[h] = "none", state = "watch" => c # 0 /\ pc = "auto" /\ pc' = "save",
         state = "mount" => <<h, pc, pc'>> \in {<<"h1", "fusermount1", "recv1">>, <<"h2", "fusermount2", "recv2">>},
         UNCHANGED <<load, mounts, conns, who, inherited, sefd, saved, hooked, completed, sent, replaced, late>>
  PROVE  MountInv'
<1> USE DEF MountInv
<1>1. pc \in {"auto", "fusermount1", "fusermount2"} /\ pc' \in {"save", "recv1", "recv2"}
  OBVIOUS
<1>2. /\ alive' = alive \cup {h} /\ fdt' \in [Procs -> [Fds -> Thing]] /\ cloexec' \in [Procs -> SUBSET Fds]
      /\ hpc' = [hpc EXCEPT ![h] = IF load.helper THEN state ELSE "fail"] /\ hconn' = [hconn EXCEPT ![h] = c]
      /\ \E i \in Fds : fdt'[h][i] = Peer(h)
      /\ \A g \in Helpers \ {h} : fdt'[g] = fdt[g]
  BY <1>1, HelperForked
<1>3. PICK here \in Fds :
        /\ here > 2 /\ Mine[here] = Free /\ Mine'[here] = Sock(h)
        /\ here \notin cloexec'[who'] /\ cloexec'[who'] \subseteq cloexec[who]
        /\ Taken(Mine') = Taken(Mine) \cup {here}
        /\ \A i \in Fds \ {here} : Mine[i] # Free => Mine'[i] = Mine[i]
        /\ here <= (IF pc = "fusermount1" THEN 4 ELSE 5)
        /\ pc # "auto" => here # 3
  BY <1>1, HelperForked
<1>4. \A g \in Helpers : hpc'[g] = IF g = h THEN IF load.helper THEN state ELSE "fail" ELSE hpc[g]
  BY <1>2 DEF Types
<1>5. Types'
  <2>1. alive' \subseteq Procs
    BY <1>2 DEF Types, Procs
  <2>2. hpc' \in [Helpers -> {"none", "mount", "watch", "fail", "gone"}] /\ hconn' \in [Helpers -> Nat]
    BY <1>2 DEF Types
  <2>3. QED
    BY <1>1, <1>2, <2>1, <2>2 DEF Types, PcNames, Mounting
<1>6. Forking'
  BY <1>1, <1>2 DEF Forking, Fresh, Over, Mounting
<1>7. Table'
  <2>1. 0..2 \subseteq Taken(Mine) /\ cloexec[who] \subseteq 3..7
    BY <1>1 DEF Table, Bare, Over
  <2>2. here \in Nat
    BY TenNumbers
  <2>3. Taken(Mine') \subseteq Room'
    BY <1>1, <1>3, <2>2 DEF Table, Room, Bare, Over
  <2>4. QED
    BY <1>1, <1>3, <2>1, <2>3 DEF Table, Bare
<1>8. Device'
  <2>1. CASE pc' = "save"
    <3>1. PICK d \in Nat \ {0} : Mine[3] = Dev(d) /\ (~replaced => Mounted(d))
      BY <1>1, <2>1 DEF Device, Opened
    <3>2. sefd = 3 /\ 3 \in Fds /\ Mine[3] # Free
      BY <1>1, <2>1, <3>1, TenNumbers, ThingsDiffer DEF Device, Opened
    <3>3. Mine'[3] = Dev(d)
      BY <1>3, <3>1, <3>2
    <3>4. QED
      BY <2>1, <3>1, <3>2, <3>3 DEF Device, Opened, Mounted
  <2>2. CASE pc' # "save"
    BY <1>1, <2>2 DEF Device, Opened
  <2>3. QED
    BY <2>1, <2>2
<1>9. Sockets'
  <2> SUFFICES ASSUME NEW g \in Helpers, hpc'[g] \in {"mount", "watch"}
               PROVE  \E i \in Fds : i > 2 /\ i \notin cloexec'[who'] /\ Mine'[i] = Sock(g)
    BY DEF Sockets
  <2>1. CASE g = h
    BY <1>3, <2>1
  <2>2. CASE g # h
    <3>1. PICK i \in Fds : i > 2 /\ i \notin cloexec[who] /\ Mine[i] = Sock(g)
      BY <1>1, <1>4, <2>2 DEF Sockets, Over
    <3>2. Mine'[i] = Sock(g)
      BY <1>3, <3>1, ThingsDiffer
    <3>3. QED
      BY <1>3, <3>1, <3>2
  <2>3. QED
    BY <2>1, <2>2
<1>10. Helping'
  <2> SUFFICES ASSUME NEW g \in Helpers
               PROVE  Answering(g)'
    BY DEF Helping, Answering
  <2>1. sent'[g] # 0 /\ ~replaced' => sent'[g] \in ToSet(mounts')
    BY <1>1 DEF Helping, Answering, Over
  <2>2. sent[h] = 0 /\ UNCHANGED sent
    BY DEF Helping, Answering
  <2>3. CASE g = h
    BY <1>1, <1>2, <1>4, <2>1, <2>2, <2>3 DEF Types, Answering, Unforked, Bare
  <2>4. CASE g # h
    BY <1>1, <1>2, <1>4, <2>1, <2>4 DEF Types, Helping, Answering, Unforked, Bare
  <2>5. QED
    BY <2>3, <2>4
<1>11. Replacing'
  BY <1>1 DEF Replacing, Fresh, Mounting, Mounted
<1>12. QED
  BY <1>5, <1>6, <1>7, <1>8, <1>9, <1>10, <1>11

LEMMA SetupAutoUnmountKeeps == ASSUME MountInv, SetupAutoUnmount PROVE MountInv'
<1> USE DEF MountInv
<1>1. CASE pc' = "save"
  <2>1. /\ pc = "auto" /\ ForkHelper("h1", "watch", conns)
        /\ UNCHANGED <<load, mounts, conns, who, inherited, sefd, saved, hooked, completed, sent, replaced, late>>
    BY <1>1 DEF SetupAutoUnmount, At, Goto
  <2>2. conns \in Nat \ {0} /\ hpc["h1"] = "none" /\ "h1" \in Helpers
    BY <2>1 DEF Types, Device, Helping, Answering, Unforked, Helpers
  <2>3. QED
    BY <1>1, <2>1, <2>2, ForkKeeps
<1>2. CASE pc' # "save"
  <2>1. /\ pc = "auto" /\ pc' = "exit" /\ mounts' = TopUnmounted /\ sefd' = -1
        /\ UNCHANGED <<load, alive, fdt, cloexec, conns, who, inherited, saved, hooked, completed,
                       hpc, hconn, sent, replaced, late>>
    BY <1>2 DEF SetupAutoUnmount, At, Goto, procs
  <2>2. Types'
    BY <2>1, MountsShrink DEF Types, PcNames, Over
  <2>3. ~replaced
    BY <2>1 DEF Replacing, Fresh, Mounting
  <2>4. QED
    BY <2>1, <2>2, <2>3, MountsShrink, OverKeeps DEF Over, Types
<1>3. QED
  BY <1>1, <1>2

LEMMA MountFusermountKeeps == ASSUME MountInv, MountFusermount PROVE MountInv'
<1> USE DEF MountInv
<1>1. PICK a \in Attempts :
        /\ At(a[1])
        /\ \/ ForkHelper(a[2], "mount", 0) /\ Goto(a[3])
           \/ Goto(a[4]) /\ UNCHANGED <<procs, hpc, hconn>>
        /\ UNCHANGED <<load, mounts, conns, who, inherited, sefd, saved, hooked, completed, sent, replaced, late>>
  BY DEF MountFusermount
<1>2. a[2] \in Helpers
      /\ <<a[2], a[1], a[3]>> \in {<<"h1", "fusermount1", "recv1">>, <<"h2", "fusermount2", "recv2">>}
      /\ <<a[1], a[4]>> \in {<<"fusermount1", "fusermount2">>, <<"fusermount2", "exit">>}
  BY <1>1 DEF Attempts, Helpers
<1>3. CASE ForkHelper(a[2], "mount", 0) /\ Goto(a[3])
  <2>1. hpc[a[2]] = "none"
    BY <1>1, <1>2 DEF At, Helping, Answering, Unforked
  <2>2. <<a[2], pc, pc'>> \in {<<"h1", "fusermount1", "recv1">>, <<"h2", "fusermount2", "recv2">>}
    BY <1>1, <1>2, <1>3 DEF At, Goto
  <2>3. QED
    BY <1>1, <1>2, <1>3, <2>1, <2>2, ForkKeeps
<1>4. CASE Goto(a[4]) /\ UNCHANGED <<procs, hpc, hconn>>
  <2>1. Onward
    BY <1>1, <1>2, <1>4 DEF At, Goto, Onward, Types, procs, helper, Over
  <2>2. QED
    BY <2>1, OnwardKeeps
<1>5. QED
  BY <1>1, <1>3, <1>4

LEMMA ReceiveFdKeeps == ASSUME MountInv, ReceiveFd PROVE MountInv'
<1> USE DEF MountInv
<1>1. PICK a \in Attempts :
        /\ At(a[3])
        /\ \/ /\ sent[a[2]] # 0
              /\ fdt' = [fdt EXCEPT ![who] = Put(@, Dev(sent[a[2]]))]
              /\ cloexec' = [cloexec EXCEPT ![who] = @ \cup {Lowest(Mine)}]
              /\ sefd' = Lowest(Mine) /\ Goto("save")
           \/ /\ sent[a[2]] # 0 \/ ~Held(Peer(a[2]))
              /\ Goto(a[4]) /\ UNCHANGED <<fdt, cloexec, sefd>>
        /\ sent' = [sent EXCEPT ![a[2]] = 0]
        /\ UNCHANGED <<load, alive, mounts, conns, who, inherited, saved, hooked, completed, hpc, hconn, replaced, late>>
  BY DEF ReceiveFd
<1> DEFINE h == a[2]
<1>2. h \in Helpers /\ <<h, a[3], a[4]>> \in {<<"h1", "recv1", "fusermount2">>, <<"h2", "recv2", "exit">>}
  BY DEF Attempts, Helpers
<1> HIDE DEF h
<1>3. pc = a[3] /\ <<h, pc>> \in {<<"h1", "recv1">>, <<"h2", "recv2">>}
  BY <1>1, <1>2 DEF At
<1>4. hpc[h] # "mount" => \A g \in Helpers : hpc[g] # "mount"
  BY <1>2, <1>3 DEF Helping, Answering, Helpers
<1>5. hpc[h] # "mount"
  <2>1. CASE sent[h] # 0
    BY <1>2, <2>1 DEF Helping, Answering
  <2>2. CASE sent[h] = 0
    <3>1. ~Held(Peer(h))
      BY <1>1, <2>2 DEF h
    <3>2. QED
      BY <1>2, <3>1 DEF Held, Holds, Helping, Answering, Procs
  <2>3. QED
    BY <2>1, <2>2
<1>6. pc \in Mounting /\ who = "cmd" /\ ~inherited /\ ~replaced
  BY <1>3 DEF Mounting, Forking, Fresh, Replacing
<1>7. sent' = [sent EXCEPT ![h] = 0] /\ UNCHANGED <<load, alive, mounts, conns, who, inherited, saved, hooked, completed, hpc, hconn, replaced, late>>
  BY <1>1 DEF h
<1>8. \A g \in Helpers : sent'[g] \in {sent[g], 0} /\ (g = h => sent'[g] = 0)
  BY <1>7 DEF Types
<1>9. ASSUME pc' # "exit"
      PROVE  Helping'
  <2>1. pc' \in {"save", "fusermount2"}
    BY <1>1, <1>2, <1>9 DEF Goto
  <2>2. pc' = "fusermount2" => pc = "recv1"
    BY <1>1, <1>2, <1>3, <2>1 DEF Goto
  <2> SUFFICES ASSUME NEW g \in Helpers PROVE Answering(g)'
    BY DEF Helping
  <2>3. Unforked(g)' => hpc'[g] = "none"
    BY <1>3, <1>7, <2>1, <2>2 DEF Helping, Answering, Unforked, Bare
  <2>4. hpc'[g] # "mount"
    BY <1>4, <1>5, <1>7
  <2>5. /\ Answering(g) /\ pc \notin Over /\ (sent'[g] # 0 => sent'[g] = sent[g])
        /\ UNCHANGED <<mounts, hpc, hconn, replaced, late>> /\ sent[g] \in Nat
    BY <1>3, <1>7, <1>8 DEF Types, Helping, Over
  <2>6. QED
    BY <2>3, <2>4, <2>5 DEF Answering
<1>10. CASE fdt' = [fdt EXCEPT ![who] = Put(@, Dev(sent[h]))] /\ pc' = "save" /\ sent[h] # 0
            /\ cloexec' = [cloexec EXCEPT ![who] = @ \cup {Lowest(Mine)}] /\ sefd' = Lowest(Mine)
  <2> DEFINE t == Put(Mine, Dev(sent[h]))
             l == Lowest(Mine)
  <2>1. Mine \in [Fds -> Thing] /\ 0..2 \subseteq Taken(Mine) /\ Taken(Mine) \subseteq {0, 1, 2, 4, 5} /\ cloexec[who] \subseteq 3..7
        /\ sent[h] \in Nat \ {0}
    BY <1>2, <1>3, <1>10 DEF Types, Mine, Table, Room, Bare, Over, Procs, Image
  <2>2. l = 3 /\ l \in Fds
    <3>1. 5 \in 0..8 /\ Taken(Mine) \subseteq 0..5 /\ 3 \notin Taken(Mine)
      BY <2>1
    <3>2. QED
      BY <2>1, <3>1, LowestIs
  <2>3. t \in [Fds -> Thing] /\ Taken(t) = Taken(Mine) \cup {3} /\ t[3] = Dev(sent[h])
        /\ \A i \in Fds \ {3} : t[i] = Mine[i]
    BY <2>1, <2>2, PutAdds, ThingsDiffer
  <2>4. fdt' = [fdt EXCEPT ![who] = t] /\ cloexec' = [cloexec EXCEPT ![who] = @ \cup {3}] /\ sefd' = 3
    BY <1>10, <2>2 DEF Mine
  <2> HIDE DEF t, l
  <2>5. Mine' = t /\ cloexec'[who'] = cloexec[who] \cup {3}
    BY <1>7, <2>4 DEF Types, Mine, Procs
  <2>6. Types'
    <3>1. sent' \in [Helpers -> Nat]
      BY <1>7 DEF Types
    <3>2. fdt' \in [Procs -> [Fds -> Thing]] /\ cloexec' \in [Procs -> SUBSET Fds] /\ sefd' \in Fds
      BY <2>2, <2>3, <2>4 DEF Types
    <3>3. QED
      BY <1>7, <1>10, <3>1, <3>2 DEF Types, PcNames, Mounting
  <2>7. Forking'
    BY <1>3, <1>6, <1>7, <1>10 DEF Forking, Over
  <2>8. Table'
    BY <1>10, <2>1, <2>3, <2>5 DEF Table, Room, Bare, Over
  <2>9. Device'
    <3>1. sent[h] \in ToSet(mounts')
      BY <1>2, <1>3, <1>6, <1>7, <1>10 DEF Helping, Answering, Over
    <3>2. QED
      BY <1>10, <2>1, <2>3, <2>4, <2>5, <3>1 DEF Device, Opened, Mounted
  <2>10. Sockets'
    <3> SUFFICES ASSUME NEW g \in Helpers, hpc[g] \in {"mount", "watch"}
                 PROVE  \E i \in Fds : i > 2 /\ i \notin cloexec'[who'] /\ Mine'[i] = Sock(g)
      BY <1>7 DEF Sockets
    <3>1. PICK i \in Fds : i > 2 /\ i \notin cloexec[who] /\ Mine[i] = Sock(g)
      BY <1>3 DEF Sockets, Over
    <3>2. i # 3
      BY <2>1, <3>1, ThingsDiffer DEF Taken
    <3>3. QED
      BY <2>3, <2>5, <3>1, <3>2
  <2>11. Replacing'
    BY <1>6, <1>7 DEF Replacing, Mounted
  <2>12. QED
    BY <1>9, <1>10, <2>6, <2>7, <2>8, <2>9, <2>10, <2>11
<1>11. CASE UNCHANGED <<fdt, cloexec, sefd>> /\ Goto(a[4])
  <2>1. pc' \in {"fusermount2", "exit"} /\ (pc' = "fusermount2" => pc = "recv1")
    BY <1>2, <1>3, <1>11 DEF Goto
  <2>2. Types'
    BY <1>2, <1>7, <1>11, <2>1 DEF Types, PcNames, Mounting, Over
  <2>3. CASE pc' = "exit"
    BY <1>4, <1>5, <1>6, <1>7, <1>8, <2>2, <2>3, OverKeeps DEF Over
  <2>4. CASE pc' = "fusermount2"
    <3>1. Forking' /\ Table' /\ Device' /\ Sockets' /\ Replacing'
      <4>1. Forking' /\ Table'
        BY <1>6, <1>7, <1>11, <2>1, <2>4 DEF Forking, Fresh, Over, Mounting, Table, Room, Bare, Mine
      <4>2. Device'
        BY <2>4 DEF Device, Opened
      <4>3. Sockets'
        BY <1>3, <1>7, <1>11, <2>4 DEF Sockets, Over, Mine
      <4>4. Replacing'
        BY <1>6, <1>7 DEF Replacing, Mounted
      <4>5. QED
        BY <4>1, <4>2, <4>3, <4>4
    <3>2. QED
      BY <1>9, <2>2, <2>4, <3>1
  <2>5. QED
    BY <2>1, <2>3, <2>4
<1>12. QED
  BY <1>1, <1>10, <1>11 DEF h, Goto

-----------------------------------------------------------------------------
(* The steps of serve.                                                       *)

LEMMA CustomIoKeeps == ASSUME MountInv, CustomIo PROVE MountInv'
<1> USE DEF MountInv
<1>1. /\ pc = "io" /\ pc' \in {"wake", "destroy"} /\ hooked' \in BOOLEAN
      /\ cloexec' = [cloexec EXCEPT ![who] = @ \cup {sefd}] \/ (cloexec' = cloexec /\ pc' = "destroy")
      /\ UNCHANGED <<load, alive, fdt, mounts, conns, who, inherited, sefd, saved, completed, hpc, hconn, sent, replaced, late>>
  <2>1. pc = "io" /\ hooked' \in BOOLEAN
        /\ UNCHANGED <<load, alive, fdt, mounts, conns, who, inherited, sefd, saved, completed, hpc, hconn, sent, replaced, late>>
    BY DEF CustomIo, At, helper
  <2>2. CASE inherited /\ pc' = "destroy"
    <3>1. cloexec' = [cloexec EXCEPT ![who] = cloexec[who]]
          \/ cloexec' = [cloexec EXCEPT ![who] = @ \cup {sefd}]
      BY <2>2 DEF CustomIo
    <3>2. QED
      BY <2>1, <2>2, <3>1 DEF Types
  <2>3. CASE ~(inherited /\ pc' = "destroy")
    BY <2>1, <2>3 DEF CustomIo, Goto, Types
  <2>4. QED
    BY <2>2, <2>3
<1>2. sefd = 3 /\ \E c \in Nat \ {0} : Mine[3] = Dev(c) /\ (~replaced => Mounted(c))
  BY <1>1 DEF Types, Device, Opened
<1>3. cloexec' \in [Procs -> SUBSET Fds] /\ cloexec'[who'] \subseteq cloexec[who] \cup {3}
      /\ (pc' = "wake" => cloexec[who] \subseteq cloexec'[who'])
  <2>1. who \in Procs /\ 3 \in Fds /\ cloexec \in [Procs -> SUBSET Fds]
    BY TenNumbers DEF Types, Procs
  <2>2. CASE cloexec' = [cloexec EXCEPT ![who] = @ \cup {sefd}]
    BY <1>1, <1>2, <2>1, <2>2
  <2>3. CASE cloexec' = cloexec /\ pc' = "destroy"
    BY <1>1, <2>1, <2>3
  <2>4. QED
    BY <1>1, <2>2, <2>3
<1>4. Types'
  BY <1>1, <1>3 DEF Types, PcNames, Over
<1>5. CASE pc' = "destroy"
  BY <1>1, <1>4, <1>5, OverKeeps DEF Over, Types
<1>6. CASE pc' = "wake"
  <2>1. Forking'
    BY <1>1, <1>6 DEF Forking, Fresh, Over, Mounting
  <2>2. Table'
    BY <1>1, <1>3, <1>6 DEF Table, Room, Bare, Over, Mine
  <2>3. Device'
    BY <1>1, <1>2, <1>6 DEF Device, Opened, Mine, Mounted
  <2>4. Sockets'
    <3> SUFFICES ASSUME NEW g \in Helpers, hpc[g] \in {"mount", "watch"}
                 PROVE  \E i \in Fds : i > 2 /\ i \notin cloexec'[who'] /\ Mine[i] = Sock(g)
      BY <1>1 DEF Sockets, Mine
    <3>1. PICK i \in Fds : i > 2 /\ i \notin cloexec[who] /\ Mine[i] = Sock(g)
      BY <1>1 DEF Sockets, Over
    <3>2. i # 3
      BY <1>2, <3>1, ThingsDiffer
    <3>3. QED
      BY <1>3, <3>1, <3>2
  <2>5. Helping'
    BY <1>1, <1>6 DEF Types, Helping, Answering, Unforked, Bare, Over
  <2>6. Replacing'
    BY <1>1, <1>6 DEF Replacing, Fresh, Mounting, Mounted, Over
  <2>7. QED
    BY <1>4, <2>1, <2>2, <2>3, <2>4, <2>5, <2>6
<1>7. QED
  BY <1>1, <1>5, <1>6

\* Two descriptors of a pipe.
LEMMA PipeMade ==
  ASSUME NEW t \in [Fds -> Thing], NEW k \in 0..7, 0..2 \subseteq Taken(t), Taken(t) \subseteq 0..k,
         NEW x \in Thing \ {Free}, NEW y \in Thing \ {Free}
  PROVE  LET l == Lowest(t)
             r == Lowest(Put(t, x))
             both == Put(Put(t, x), y)
         IN /\ l \in Fds /\ r \in Fds /\ {l, r} \subseteq 3..(k + 2) /\ t[l] = Free /\ t[r] = Free
            /\ both \in [Fds -> Thing] /\ both[l] = x /\ both[r] = y
            /\ \A i \in Fds \ {l, r} : both[i] = t[i]
            /\ Taken(both) = Taken(t) \cup {l, r}
<1> DEFINE l == Lowest(t)
           one == Put(t, x)
           r == Lowest(one)
           both == Put(one, y)
<1>1. l \in Fds /\ l \in 3..(k + 1) /\ t[l] = Free
  <2>1. k \in 0..8
    OBVIOUS
  <2>2. Lowest(t) \in Fds /\ Lowest(t) \in 0..(k + 1) /\ t[Lowest(t)] = Free /\ Lowest(t) > 2
    BY <2>1, LowestIs
  <2>3. QED
    BY <2>2
<1>2. one \in [Fds -> Thing] /\ one[l] = x /\ Taken(one) = Taken(t) \cup {l} /\ \A i \in Fds \ {l} : one[i] = t[i]
  BY <1>1, PutAdds
<1>3. r \in Fds /\ r \in 3..(k + 2) /\ one[r] = Free
  <2>1. k + 1 \in 0..8 /\ Taken(one) \subseteq 0..(k + 1) /\ 0..2 \subseteq Taken(one)
    BY <1>1, <1>2
  <2>2. Lowest(one) \in Fds /\ Lowest(one) \in 0..(k + 1 + 1) /\ one[Lowest(one)] = Free /\ Lowest(one) > 2
    BY <1>2, <2>1, LowestIs
  <2>3. QED
    BY <2>2
<1>4. both \in [Fds -> Thing] /\ both[r] = y /\ Taken(both) = Taken(one) \cup {r} /\ \A i \in Fds \ {r} : both[i] = one[i]
  BY <1>2, <1>3, PutAdds
<1> HIDE DEF l, one, r, both
<1>5. /\ l \in Fds /\ r \in Fds /\ {l, r} \subseteq 3..(k + 2) /\ t[l] = Free /\ t[r] = Free
      /\ both \in [Fds -> Thing] /\ both[l] = x /\ both[r] = y
      /\ \A i \in Fds \ {l, r} : both[i] = t[i]
      /\ Taken(both) = Taken(t) \cup {l, r}
  BY <1>1, <1>2, <1>3, <1>4
<1>6. QED
  BY <1>5 DEF l, one, r, both

LEMMA WakeupPipeKeeps == ASSUME MountInv, WakeupPipe PROVE MountInv'
<1> USE DEF MountInv
<1> DEFINE one == Put(Mine, Wake)
           l == Lowest(Mine)
           r == Lowest(one)
           t == Put(one, Wake)
<1>1. CASE pc' = "destroy"
  <2>1. Onward
    BY <1>1 DEF WakeupPipe, At, Goto, Onward, Types, helper, Over
  <2>2. QED
    BY <2>1, OnwardKeeps
<1>2. CASE pc' # "destroy"
  <2>1. /\ pc = "wake" /\ pc' = (IF inherited THEN "replay" ELSE "daemonize")
        /\ fdt' = [fdt EXCEPT ![who] = t] /\ cloexec' = [cloexec EXCEPT ![who] = @ \cup {l, r}]
        /\ UNCHANGED <<load, alive, mounts, conns, who, inherited, sefd, saved, hooked, completed,
                       hpc, hconn, sent, replaced, late>>
    BY <1>2 DEF WakeupPipe, At, Goto, helper, Mine
  <2>2. Mine \in [Fds -> Thing] /\ 0..2 \subseteq Taken(Mine) /\ Taken(Mine) \subseteq 0..5 /\ cloexec[who] \subseteq 3..7
    BY <2>1 DEF Types, Mine, Table, Room, Bare, Over, Procs
  <2>3. /\ l \in Fds /\ r \in Fds /\ {l, r} \subseteq 3..7 /\ Mine[l] = Free /\ Mine[r] = Free
        /\ t \in [Fds -> Thing] /\ \A i \in Fds \ {l, r} : t[i] = Mine[i]
        /\ Taken(t) = Taken(Mine) \cup {l, r}
    <3>1. Wake \in Thing \ {Free} /\ 5 \in 0..7
      BY ThingsDiffer
    <3>2. QED
      BY <2>2, <3>1, PipeMade
  <2> HIDE DEF one, l, r, t
  <2>4. Mine' = t /\ cloexec'[who'] = cloexec[who] \cup {l, r}
    BY <2>1 DEF Types, Mine, Procs
  <2>5. Types'
    <3>1. fdt' \in [Procs -> [Fds -> Thing]] /\ cloexec' \in [Procs -> SUBSET Fds]
      BY <2>1, <2>3 DEF Types
    <3>2. QED
      BY <2>1, <3>1 DEF Types, PcNames
  <2>6. Forking'
    BY <2>1 DEF Forking, Fresh, Over, Mounting
  <2>7. Table'
    BY <2>1, <2>2, <2>3, <2>4 DEF Table, Room, Bare, Over
  <2>8. Device'
    <3>1. PICK c \in Nat \ {0} : Mine[3] = Dev(c) /\ (~replaced => Mounted(c))
      BY <2>1 DEF Device, Opened
    <3>2. sefd = 3 /\ t[3] = Dev(c)
      BY <2>1, <2>3, <3>1, ThingsDiffer, TenNumbers DEF Types, Device, Opened
    <3>3. QED
      BY <2>1, <2>4, <3>1, <3>2 DEF Device, Opened, Mounted
  <2>9. Sockets'
    <3> SUFFICES ASSUME NEW g \in Helpers, hpc[g] \in {"mount", "watch"}
                 PROVE  \E i \in Fds : i > 2 /\ i \notin cloexec'[who'] /\ Mine'[i] = Sock(g)
      BY <2>1 DEF Sockets
    <3>1. PICK i \in Fds : i > 2 /\ i \notin cloexec[who] /\ Mine[i] = Sock(g)
      BY <2>1 DEF Sockets, Over
    <3>2. i \notin {l, r}
      BY <2>3, <3>1, ThingsDiffer
    <3>3. QED
      BY <2>3, <2>4, <3>1, <3>2
  <2>10. Helping'
    <3>1. \A g \in Helpers : fdt'[g] = fdt[g] /\ hpc[g] # "mount"
      BY <2>1 DEF Types, Procs, Image, Helpers, Helping, Answering
    <3>2. QED
      BY <2>1, <3>1 DEF Types, Helping, Answering, Unforked, Bare, Over
  <2>11. Replacing'
    BY <2>1 DEF Types, Replacing, Fresh, Mounting, Mounted, Over
  <2>12. QED
    BY <2>5, <2>6, <2>7, <2>8, <2>9, <2>10, <2>11
<1>3. QED
  BY <1>1, <1>2

LEMMA DaemonizeKeeps == ASSUME MountInv, Daemonize PROVE MountInv'
<1> USE DEF MountInv
<1> DEFINE one == Put(Mine, Waiter(0))
           l == Lowest(Mine)
           r == Lowest(one)
           t == Put(one, Waiter(1))
<1>1. CASE pc' # "child"
  <2>1. Onward
    BY <1>1 DEF Daemonize, At, Goto, Onward, Types, helper, procs
  <2>2. QED
    BY <2>1, OnwardKeeps
<1>2. CASE pc' = "child"
  <2>1. /\ pc = "daemonize" /\ pc' = "child" /\ who' = "dmn" /\ alive' = alive \cup {"dmn"}
        /\ fdt' = [fdt EXCEPT !["cmd"] = t, !["dmn"] = t] /\ cloexec' = [cloexec EXCEPT !["dmn"] = cloexec["cmd"]]
        /\ UNCHANGED <<load, mounts, conns, inherited, sefd, saved, hooked, completed, hpc, hconn, sent, replaced, late>>
    BY <1>2 DEF Daemonize, At, Goto, helper
  <2>2. who = "cmd" /\ ~inherited /\ ~replaced
    BY <2>1 DEF Forking, Fresh, Replacing
  <2>3. Mine \in [Fds -> Thing] /\ 0..2 \subseteq Taken(Mine) /\ Taken(Mine) \subseteq 0..5 \cup cloexec[who]
        /\ cloexec[who] \subseteq 3..7
    BY <2>1 DEF Types, Mine, Table, Room, Bare, Over, Procs
  <2>4. /\ l \in Fds /\ r \in Fds /\ {l, r} \subseteq 3..9 /\ Mine[l] = Free /\ Mine[r] = Free
        /\ t \in [Fds -> Thing] /\ t[l] = Waiter(0) /\ t[r] = Waiter(1) /\ \A i \in Fds \ {l, r} : t[i] = Mine[i]
        /\ Taken(t) = Taken(Mine) \cup {l, r}
    <3>1. Waiter(0) \in Thing \ {Free} /\ Waiter(1) \in Thing \ {Free} /\ 7 \in 0..7 /\ Taken(Mine) \subseteq 0..7
      BY <2>3, ThingsDiffer
    <3>2. QED
      BY <2>3, <3>1, PipeMade
  <2> HIDE DEF one, l, r, t
  <2>5. Mine' = t /\ cloexec'[who'] = cloexec[who] /\ \A g \in Helpers : fdt'[g] = fdt[g]
    BY <2>1, <2>2 DEF Types, Mine, Procs, Image, Helpers
  <2>6. Types'
    <3>1. fdt' \in [Procs -> [Fds -> Thing]] /\ cloexec' \in [Procs -> SUBSET Fds] /\ alive' \subseteq Procs
      BY <2>1, <2>4 DEF Types, Procs, Image
    <3>2. QED
      BY <2>1, <3>1 DEF Types, PcNames, Image
  <2>7. Forking'
    BY <2>1 DEF Forking, Fresh, Over, Mounting
  <2>8. Table'
    <3>1. {l, r} \subseteq Waiting(t)
      BY <2>4 DEF Waiting
    <3>2. QED
      BY <2>1, <2>3, <2>4, <2>5, <3>1 DEF Table, Room, Bare, Over
  <2>9. Device'
    <3>1. PICK c \in Nat \ {0} : Mine[3] = Dev(c) /\ (~replaced => Mounted(c))
      BY <2>1 DEF Device, Opened
    <3>2. sefd = 3 /\ t[3] = Dev(c)
      BY <2>1, <2>4, <3>1, ThingsDiffer, TenNumbers DEF Types, Device, Opened
    <3>3. QED
      BY <2>1, <2>5, <3>1, <3>2 DEF Device, Opened, Mounted
  <2>10. Sockets'
    <3> SUFFICES ASSUME NEW g \in Helpers, hpc[g] \in {"mount", "watch"}
                 PROVE  \E i \in Fds : i > 2 /\ i \notin cloexec'[who'] /\ Mine'[i] = Sock(g)
      BY <2>1 DEF Sockets
    <3>1. PICK i \in Fds : i > 2 /\ i \notin cloexec[who] /\ Mine[i] = Sock(g)
      BY <2>1 DEF Sockets, Over
    <3>2. i \notin {l, r}
      BY <2>4, <3>1, ThingsDiffer
    <3>3. QED
      BY <2>4, <2>5, <3>1, <3>2
  <2>11. Helping'
    <3>1. \A g \in Helpers : hpc[g] # "mount"
      BY <2>1 DEF Helping, Answering
    <3>2. QED
      BY <2>1, <3>1 DEF Types, Helping, Answering, Unforked, Bare, Over
  <2>12. Replacing'
    BY <2>1, <2>2 DEF Replacing, Mounted
  <2>13. QED
    BY <2>6, <2>7, <2>8, <2>9, <2>10, <2>11, <2>12
<1>3. QED
  BY <1>1, <1>2

LEMMA DetachedKeeps == ASSUME MountInv, Detached PROVE MountInv'
<1> USE DEF MountInv
<1> DEFINE t == [i \in Fds |-> IF i \in 0..2 THEN Null ELSE IF Mine[i] \in {Waiter(0), Waiter(1)} THEN Free ELSE Mine[i]]
<1>1. /\ pc = "child" /\ pc' = "serve" /\ fdt' = [fdt EXCEPT ![who] = t] /\ completed' = TRUE
      /\ UNCHANGED <<load, alive, cloexec, mounts, conns, who, inherited, sefd, saved, hooked, hpc, hconn, sent, replaced, late>>
  BY DEF Detached, At, Goto, helper, counts, Mine
<1>2. Mine \in [Fds -> Thing] /\ Taken(Mine) \subseteq 0..5 \cup cloexec[who] \cup Waiting(Mine) /\ cloexec[who] \subseteq 3..7
      /\ who \in Procs /\ who \notin Helpers
  BY <1>1 DEF Types, Mine, Table, Room, Bare, Over, Procs, Image, Helpers
<1>3. t \in [Fds -> Thing]
  BY <1>2, ThingsDiffer
<1>4. \A i \in 0..2 : i \in Fds /\ t[i] = Null
  BY TenNumbers
<1>5. \A i \in Fds : i > 2 => t[i] = IF Mine[i] \in {Waiter(0), Waiter(1)} THEN Free ELSE Mine[i]
  OBVIOUS
<1> HIDE DEF t
<1>6. 0..2 \subseteq Taken(t)
  BY <1>4, ThingsDiffer DEF Taken
<1>7. Taken(t) \subseteq 0..5 \cup cloexec[who]
  <2> SUFFICES ASSUME NEW i \in Taken(t), i > 2
               PROVE  i \in 0..5 \cup cloexec[who]
    BY TenNumbers DEF Taken
  <2>1. i \in Fds /\ t[i] # Free /\ t[i] = Mine[i] /\ Mine[i] \notin {Waiter(0), Waiter(1)}
    BY <1>5 DEF Taken
  <2>2. QED
    BY <1>2, <2>1 DEF Taken, Waiting
<1>8. Mine' = t /\ cloexec'[who'] = cloexec[who] /\ \A g \in Helpers : fdt'[g] = fdt[g]
  BY <1>1, <1>2 DEF Types, Mine, Procs, Helpers
<1>9. Types'
  <2>1. fdt' \in [Procs -> [Fds -> Thing]]
    BY <1>1, <1>3 DEF Types
  <2>2. QED
    BY <1>1, <2>1 DEF Types, PcNames
<1>10. Forking'
  BY <1>1 DEF Forking, Fresh, Over, Mounting
<1>11. Table'
  BY <1>1, <1>2, <1>6, <1>7, <1>8 DEF Table, Room, Bare, Over
<1>12. Device'
  <2>1. PICK c \in Nat \ {0} : Mine[3] = Dev(c) /\ (~replaced => Mounted(c))
    BY <1>1 DEF Device, Opened
  <2>2. sefd = 3 /\ t[3] = Dev(c)
    BY <1>1, <1>5, <2>1, ThingsDiffer, TenNumbers DEF Types, Device, Opened
  <2>3. QED
    BY <1>1, <1>8, <2>1, <2>2 DEF Device, Opened, Mounted
<1>13. Sockets'
  <2> SUFFICES ASSUME NEW g \in Helpers, hpc[g] \in {"mount", "watch"}
               PROVE  \E i \in Fds : i > 2 /\ i \notin cloexec'[who'] /\ Mine'[i] = Sock(g)
    BY <1>1 DEF Sockets
  <2>1. PICK i \in Fds : i > 2 /\ i \notin cloexec[who] /\ Mine[i] = Sock(g)
    BY <1>1 DEF Sockets, Over
  <2>2. t[i] = Sock(g)
    BY <1>5, <2>1, ThingsDiffer
  <2>3. QED
    BY <1>8, <2>1, <2>2
<1>14. Helping'
  <2>1. \A g \in Helpers : hpc[g] # "mount"
    BY <1>1 DEF Helping, Answering
  <2>2. QED
    BY <1>1, <2>1 DEF Types, Helping, Answering, Unforked, Bare, Over
<1>15. Replacing'
  BY <1>1 DEF Types, Replacing, Fresh, Mounting, Mounted
<1>16. QED
  BY <1>9, <1>10, <1>11, <1>12, <1>13, <1>14, <1>15

LEMMA ParentExitsKeeps == ASSUME MountInv, ParentExits PROVE MountInv'
<1> USE DEF MountInv
<1>1. who = "dmn" /\ Exit("cmd")
      /\ UNCHANGED <<load, mounts, conns, pc, who, inherited, sefd, saved, hooked, completed, hpc, hconn, sent, replaced, late>>
  BY DEF ParentExits, image, helper, counts
<1>2. /\ alive' \subseteq Procs /\ fdt' \in [Procs -> [Fds -> Thing]] /\ cloexec' \in [Procs -> SUBSET Fds]
      /\ \A q \in Procs \ {"cmd"} : fdt'[q] = fdt[q] /\ cloexec'[q] = cloexec[q] /\ (q \in alive <=> q \in alive')
  <2>1. "cmd" \in Procs
    BY DEF Procs, Image
  <2>2. QED
    BY <1>1, <2>1, ExitTypes
<1>3. Mine' = Mine /\ cloexec'[who'] = cloexec[who] /\ (who \in alive <=> who \in alive')
      /\ \A g \in Helpers : fdt'[g] = fdt[g] /\ (g \in alive <=> g \in alive')
  BY <1>1, <1>2 DEF Mine, Procs, Image, Helpers
<1>4. Types'
  BY <1>1, <1>2 DEF Types
<1>5. Forking' /\ Table' /\ Device' /\ Sockets'
  BY <1>1, <1>3 DEF Forking, Fresh, Table, Room, Bare, Device, Opened, Mounted, Sockets
<1>6. Helping' /\ Replacing'
  BY <1>1, <1>3 DEF Helping, Answering, Unforked, Bare, Replacing, Fresh, Mounted
<1>7. QED
  BY <1>4, <1>5, <1>6

LEMMA HandoverKeeps == ASSUME MountInv, Handover PROVE MountInv'
<1> USE DEF MountInv
<1> DEFINE cx == cloexec[who] \ {sefd}
           t == Execed(Mine, cx)
<1>1. pc = "serve" /\ who \in Procs /\ who \notin Helpers
  BY DEF Handover, At, Types, Procs, Image, Helpers
<1>2. CASE pc' = "gone"
  <2>1. Exit(who) /\ UNCHANGED <<load, mounts, conns, who, inherited, sefd, saved, hooked, completed, hpc, hconn, sent, replaced, late>>
    BY <1>2 DEF Handover, Goto, helper
  <2>2. Types'
    BY <1>1, <1>2, <2>1, ExitTypes DEF Types, PcNames, Over
  <2>3. QED
    BY <1>1, <1>2, <2>1, <2>2, OverKeeps DEF Over, Types
<1>3. CASE pc' # "gone"
  <2>1. /\ pc' = "new" /\ inherited' = TRUE /\ saved' = FALSE
        /\ fdt' = [fdt EXCEPT ![who] = t] /\ cloexec' = [cloexec EXCEPT ![who] = {}]
        /\ UNCHANGED <<load, alive, mounts, conns, who, sefd, hooked, completed, hpc, hconn, sent, replaced, late>>
    BY <1>3 DEF Handover, Goto, helper, Mine
  <2>2. /\ Mine \in [Fds -> Thing] /\ 0..2 \subseteq Taken(Mine) /\ Taken(Mine) \subseteq 0..5 \cup cloexec[who]
        /\ cloexec[who] \subseteq 3..7
    BY <1>1 DEF Types, Mine, Table, Room, Bare, Over, Procs
  <2>3. PICK c \in Nat \ {0} : Mine[3] = Dev(c) /\ (~replaced => Mounted(c))
    BY <1>1 DEF Device, Opened
  <2>4. sefd = 3 /\ 3 \in Fds
    BY <1>1, TenNumbers DEF Types, Device, Opened
  <2>5. t \in [Fds -> Thing] /\ \A i \in Fds : t[i] = IF i \in cx THEN Free ELSE Mine[i]
    BY <2>2, ThingsDiffer DEF Execed
  <2> HIDE DEF t
  <2>6. Taken(t) = Taken(Mine) \ cx
    BY <2>5 DEF Taken
  <2>7. Mine' = t /\ cloexec'[who'] = {} /\ \A g \in Helpers : fdt'[g] = fdt[g]
    BY <1>1, <2>1 DEF Types, Mine, Procs, Helpers
  <2>8. Types'
    <3>1. fdt' \in [Procs -> [Fds -> Thing]] /\ cloexec' \in [Procs -> SUBSET Fds]
      BY <2>1, <2>5 DEF Types
    <3>2. QED
      BY <2>1, <3>1 DEF Types, PcNames
  <2>9. Forking'
    BY <1>1, <2>1 DEF Forking, Fresh, Over, Mounting
  <2>10. Table'
    BY <2>1, <2>2, <2>4, <2>6, <2>7 DEF Table, Room, Bare, Over
  <2>11. Device'
    BY <2>1, <2>3, <2>4, <2>5, <2>7 DEF Device, Opened, Mounted
  <2>12. Sockets'
    <3> SUFFICES ASSUME NEW g \in Helpers, hpc[g] \in {"mount", "watch"}
                 PROVE  \E i \in Fds : i > 2 /\ i \notin cloexec'[who'] /\ Mine'[i] = Sock(g)
      BY <2>1 DEF Sockets
    <3>1. PICK i \in Fds : i > 2 /\ i \notin cloexec[who] /\ Mine[i] = Sock(g)
      BY <1>1 DEF Sockets, Over
    <3>2. QED
      BY <2>5, <2>7, <3>1
  <2>13. Helping'
    <3>1. \A g \in Helpers : hpc[g] # "mount"
      BY <1>1 DEF Helping, Answering
    <3>2. QED
      BY <1>1, <2>1, <3>1 DEF Types, Helping, Answering, Unforked, Bare, Over
  <2>14. Replacing'
    BY <1>1, <2>1 DEF Types, Replacing, Fresh, Mounting, Mounted, Over
  <2>15. QED
    BY <2>8, <2>9, <2>10, <2>11, <2>12, <2>13, <2>14
<1>4. QED
  BY <1>2, <1>3

\* fuse_kern_unmount leaves what has taken our place: its connection is not
\* the one of se->fd.
LEMMA DepartedIsPolled == ASSUME MountInv, pc \in {"unmount", "undo"}, replaced PROVE Polled
<1>1. pc = "unmount" /\ mounts = <<Other>>
  BY DEF MountInv, Replacing, Fresh, Over
<1>2. PICK c \in Nat \ {0} : Mine[3] = Dev(c)
  BY <1>1 DEF MountInv, Device, Opened
<1>3. sefd = 3
  BY <1>1 DEF MountInv, Device, Opened, Types
<1>4. \A i \in DOMAIN mounts : mounts[i] = 0
  BY <1>1 DEF Other
<1>5. Dev(c) # Dev(0)
  BY ThingsDiffer
<1>6. QED
  BY <1>2, <1>3, <1>4, <1>5 DEF Polled

LEMMA PollUnmountKeeps == ASSUME MountInv, PollUnmount PROVE MountInv'
<1> USE DEF MountInv
<1>1. /\ pc \in {"unmount", "undo"} /\ pc' \in {"destroy", "umount"} /\ (pc' = "umount" => ~Polled)
      /\ fdt' = [fdt EXCEPT ![who] = Close(@, sefd)] /\ sefd' \in {-1, sefd} /\ saved' = FALSE
      /\ UNCHANGED <<load, alive, cloexec, mounts, conns, who, inherited, hooked, completed, hpc, hconn, sent,
                     replaced, late>>
  BY DEF PollUnmount, Goto, helper, counts
<1>2. Close(fdt[who], sefd) \in [Fds -> Thing]
  BY SessionFdCloses
<1>3. Types'
  BY <1>1, <1>2 DEF Types, Procs, PcNames, Over
<1>4. replaced => pc' # "umount"
  BY <1>1, DepartedIsPolled
<1>5. QED
  BY <1>1, <1>3, <1>4, OverKeeps DEF Over, Types

LEMMA KernUnmountKeeps == ASSUME MountInv, KernUnmount PROVE MountInv'
<1> USE DEF MountInv
<1>1. /\ pc = "umount" /\ pc' = "destroy" /\ mounts' \in {mounts, TopUnmounted}
      /\ UNCHANGED <<load, alive, fdt, cloexec, conns, who, inherited, sefd, saved, hooked, completed, hpc, hconn,
                     sent, replaced, late>>
  BY DEF KernUnmount, At, Goto, procs, helper
<1>2. mounts' \in Seq(Nat) /\ ToSet(mounts') \subseteq ToSet(mounts)
  BY <1>1, MountsShrink DEF Types
<1>3. Types'
  BY <1>1, <1>2 DEF Types, PcNames, Over
<1>4. ~(replaced /\ ~late)
  BY <1>1 DEF Replacing
<1>5. QED
  BY <1>1, <1>2, <1>3, <1>4, OverKeeps DEF Over, Types

-----------------------------------------------------------------------------
(* The steps of the helpers and of the operator.                             *)

LEMMA HelperMountsKeeps == ASSUME MountInv, NEW h \in Helpers, HelperMounts(h) PROVE MountInv'
<1> USE DEF MountInv
<1>1. hpc[h] = "mount" /\ <<h, pc>> \in {<<"h1", "recv1">>, <<"h2", "recv2">>} /\ ~replaced /\ conns + 1 \in Nat \ {0}
  BY DEF HelperMounts, Helping, Answering, Types, Replacing, Fresh, Mounting
<1>2. /\ UNCHANGED <<load, alive, fdt, cloexec, pc, who, inherited, sefd, saved, hooked, completed, replaced, late>>
      /\ \/ /\ mounts' = Append(mounts, conns + 1) /\ conns' = conns + 1
            /\ sent' = [sent EXCEPT ![h] = conns + 1] /\ hconn' = [hconn EXCEPT ![h] = conns + 1]
            /\ hpc' = [hpc EXCEPT ![h] = "watch"]
         \/ hpc' = [hpc EXCEPT ![h] = "fail"] /\ UNCHANGED <<mounts, conns, sent, hconn>>
  BY DEF HelperMounts, procs, image
<1>3. mounts' \in Seq(Nat) /\ ToSet(mounts) \subseteq ToSet(mounts') /\ ToSet(mounts') \subseteq ToSet(mounts) \cup {conns + 1}
      /\ (mounts' # mounts => conns + 1 \in ToSet(mounts'))
  <2>1. Append(mounts, conns + 1) \in Seq(Nat) /\ ToSet(Append(mounts, conns + 1)) = ToSet(mounts) \cup {conns + 1}
    BY <1>1, MountAdds DEF Types
  <2>2. mounts \in Seq(Nat) /\ (mounts' = mounts \/ mounts' = Append(mounts, conns + 1))
    BY <1>2 DEF Types
  <2>3. CASE mounts' = mounts
    BY <2>2, <2>3
  <2>4. CASE mounts' = Append(mounts, conns + 1)
    BY <2>1, <2>4
  <2>5. QED
    BY <2>2, <2>3, <2>4
<1>4. Types'
  <2>1. hpc' \in [Helpers -> {"none", "mount", "watch", "fail", "gone"}]
    BY <1>2 DEF Types
  <2>2. sent' \in [Helpers -> Nat] /\ hconn' \in [Helpers -> Nat] /\ conns' \in Nat
    BY <1>1, <1>2, ZenonT(40) DEF Types
  <2>3. QED
    BY <1>2, <1>3, <2>1, <2>2 DEF Types
<1>5. Forking' /\ Table' /\ Device'
  BY <1>1, <1>2 DEF Forking, Fresh, Table, Room, Bare, Mine, Device, Opened
<1>6. \A g \in Helpers : hpc'[g] = (IF g = h THEN hpc'[h] ELSE hpc[g]) /\ hpc'[h] \in {"watch", "fail"}
  BY <1>2 DEF Types
<1>7. Sockets'
  BY <1>1, <1>2, <1>6 DEF Sockets, Mine
<1>8. \A g \in Helpers : /\ g # h => sent'[g] = sent[g] /\ hconn'[g] = hconn[g]
                         /\ hpc'[h] = "watch" => hconn'[h] = conns + 1
                         /\ sent'[h] \in {0, conns + 1} /\ (sent'[h] # 0 => mounts' = Append(mounts, conns + 1))
  BY <1>1, <1>2 DEF Types, Helping, Answering
<1>9. Helping'
  <2> SUFFICES ASSUME NEW g \in Helpers PROVE Answering(g)'
    BY DEF Helping
  <2>1. CASE g = h
    <3>1. sent'[h] # 0 => sent'[h] \in ToSet(mounts')
      BY <1>1, <1>8, MountAdds DEF Types
    <3>2. QED
      BY <1>1, <1>2, <1>6, <1>8, <2>1, <3>1 DEF Answering, Unforked, Bare
  <2>2. CASE g # h
    BY <1>2, <1>3, <1>6, <1>8, <2>2 DEF Helping, Answering, Unforked, Bare
  <2>3. QED
    BY <2>1, <2>2
<1>10. Replacing'
  BY <1>1, <1>2, <1>3 DEF Replacing, Mounted, Other
<1>11. QED
  BY <1>4, <1>5, <1>7, <1>9, <1>10

\* What the exit of a helper leaves, when its mount goes with it or not.
LEMMA HelperExitKeeps ==
  ASSUME MountInv, NEW h \in Helpers, hpc[h] \in {"watch", "fail"}, Exit(h), hpc' = [hpc EXCEPT ![h] = "gone"],
         UNCHANGED <<load, conns, pc, who, inherited, sefd, saved, hooked, completed, hconn, sent, replaced, late>>,
         mounts' = mounts \/ (pc \in Over /\ hpc[h] = "watch" /\ mounts' = RemoveFirst(mounts, hconn[h]))
  PROVE  MountInv'
<1> USE DEF MountInv
<1>1. /\ alive' \subseteq Procs /\ fdt' \in [Procs -> [Fds -> Thing]] /\ cloexec' \in [Procs -> SUBSET Fds]
      /\ \A q \in Procs \ {h} : fdt'[q] = fdt[q] /\ cloexec'[q] = cloexec[q] /\ (q \in alive <=> q \in alive')
  <2>1. h \in Procs
    BY DEF Procs
  <2>2. QED
    BY <2>1, ExitTypes
<1>2. who \in Procs \ {h}
  BY DEF Types, Procs, Image, Helpers
<1>3. Mine' = Mine /\ cloexec'[who'] = cloexec[who] /\ (who' \in alive' <=> who \in alive)
  BY <1>1, <1>2 DEF Mine
<1>4. mounts' \in Seq(Nat) /\ ToSet(mounts') \subseteq ToSet(mounts)
  BY OneLeaves DEF Types
<1>5. replaced => mounts' = mounts
  <2>1. hpc[h] = "watch" => hconn[h] # 0
    BY DEF Helping, Answering
  <2>2. replaced => ToSet(mounts) \subseteq {0}
    BY DEF Replacing, Other, ToSet
  <2>3. QED
    BY <2>1, <2>2, OneLeaves DEF Types
<1>6. Types'
  <2>1. hpc' \in [Helpers -> {"none", "mount", "watch", "fail", "gone"}]
    BY DEF Types
  <2>2. QED
    BY <1>1, <1>4, <2>1 DEF Types
<1>7. \A g \in Helpers : hpc'[g] = (IF g = h THEN "gone" ELSE hpc[g])
  BY DEF Types
<1>8. Forking' /\ Table' /\ Device'
  BY <1>3 DEF Types, Forking, Fresh, Table, Room, Bare, Device, Opened, Mounted, Over
<1>9. Sockets'
  BY <1>3, <1>7 DEF Sockets
<1>10. Helping'
  <2> SUFFICES ASSUME NEW g \in Helpers PROVE Answering(g)'
    BY DEF Helping
  <2>1. CASE g = h
    BY <1>7, <2>1 DEF Helping, Answering, Unforked, Bare, Over
  <2>2. CASE g # h
    <3>1. fdt'[g] = fdt[g] /\ (g \in alive <=> g \in alive')
      BY <1>1, <2>2 DEF Procs
    <3>2. QED
      BY <1>7, <2>2, <3>1 DEF Helping, Answering, Unforked, Bare, Over
  <2>3. QED
    BY <2>1, <2>2
<1>11. Replacing'
  BY <1>4, <1>5 DEF Replacing, Mounted, Fresh
<1>12. QED
  BY <1>6, <1>8, <1>9, <1>10, <1>11

LEMMA HelperLeavesKeeps == ASSUME MountInv, NEW h \in Helpers, HelperFails(h) \/ HelperUnmounts(h) PROVE MountInv'
<1>1. CASE HelperFails(h)
  <2>1. hpc[h] = "fail" /\ Exit(h) /\ hpc' = [hpc EXCEPT ![h] = "gone"] /\ mounts' = mounts
        /\ UNCHANGED <<load, conns, pc, who, inherited, sefd, saved, hooked, completed, hconn, sent, replaced, late>>
    BY <1>1 DEF HelperFails, image, counts
  <2>2. QED
    BY <2>1, HelperExitKeeps
<1>2. CASE HelperUnmounts(h)
  <2>1. /\ hpc[h] = "watch" /\ ~Held(Sock(h)) /\ Exit(h) /\ hpc' = [hpc EXCEPT ![h] = "gone"]
        /\ mounts' = RemoveFirst(mounts, hconn[h])
        /\ UNCHANGED <<load, conns, pc, who, inherited, sefd, saved, hooked, completed, hconn, sent, replaced, late>>
    BY <1>2 DEF HelperUnmounts, image, counts
  <2>2. pc \in Over
    BY <2>1 DEF MountInv, Types, Forking, Sockets, Held, Holds, Mine, Procs
  <2>3. QED
    BY <2>1, <2>2, HelperExitKeeps
<1>3. QED
  BY <1>1, <1>2

LEMMA ReplaceKeeps == ASSUME MountInv, Replace PROVE MountInv'
<1> USE DEF MountInv
<1>1. /\ pc \in {"serve", "umount"} /\ replaced' = TRUE /\ late' = (pc = "umount") /\ mounts' = <<Other>>
      /\ UNCHANGED <<load, alive, fdt, cloexec, conns, pc, who, inherited, sefd, saved, hooked, completed, hpc, hconn, sent>>
  BY DEF Replace, At, procs, image, helper
<1>2. Types'
  BY <1>1 DEF Types, Other
<1>3. Forking' /\ Table' /\ Sockets'
  BY <1>1 DEF Forking, Fresh, Table, Room, Bare, Mine, Sockets
<1>4. Device'
  BY <1>1 DEF Device, Opened, Mine
<1>5. Helping'
  BY <1>1 DEF Helping, Answering, Unforked, Bare
<1>6. ToSet(mounts') \subseteq {Other}
  BY <1>1 DEF ToSet
<1>7. Replacing'
  BY <1>1, <1>6 DEF Replacing, Fresh, Mounting, Over
<1>8. QED
  BY <1>2, <1>3, <1>4, <1>5, <1>6, <1>7

-----------------------------------------------------------------------------
(* The theorems.                                                             *)

LEMMA MountStep == MountInv /\ [Next]_vars => MountInv'
<1> SUFFICES ASSUME MountInv, [Next]_vars PROVE MountInv'
  OBVIOUS
<1>1. CASE UNCHANGED vars
  BY <1>1 DEF MountInv, Types, Forking, Fresh, Table, Room, Bare, Waiting, Mine, Device, Opened, Mounted, Sockets,
              Helping, Answering, Unforked, Replacing, vars, procs, image, helper, counts
<1>2. CASE Serve
  <2>1. CASE NewSession \/ SaveMountpoint \/ Replay \/ Exits \/ SessionDestroy
    BY <2>1, EndsKeep
  <2>2. CASE Stdio \/ OpenDev \/ MountSys \/ AddMtab
    BY <2>2, StdioKeeps, OpenDevKeeps, MountSysKeeps, MtabKeeps
  <2>3. CASE SetupAutoUnmount \/ MountFusermount \/ ReceiveFd
    BY <2>3, SetupAutoUnmountKeeps, MountFusermountKeeps, ReceiveFdKeeps
  <2>4. CASE CustomIo \/ WakeupPipe \/ Daemonize \/ Detached
    BY <2>4, CustomIoKeeps, WakeupPipeKeeps, DaemonizeKeeps, DetachedKeeps
  <2>5. CASE PollUnmount \/ KernUnmount
    BY <2>5, PollUnmountKeeps, KernUnmountKeeps
  <2>6. QED
    BY <1>2, <2>1, <2>2, <2>3, <2>4, <2>5 DEF Serve
<1>3. CASE ParentExits
  BY <1>3, ParentExitsKeeps
<1>4. CASE Terminate \/ Kill
  BY <1>4, EndsKeep
<1>5. CASE Handover
  BY <1>5, HandoverKeeps
<1>6. CASE \E h \in Helpers : Helper(h)
  BY <1>6, HelperMountsKeeps, HelperLeavesKeeps DEF Helper
<1>7. CASE Replace
  BY <1>7, ReplaceKeeps
<1>8. QED
  BY <1>1, <1>2, <1>3, <1>4, <1>5, <1>6, <1>7 DEF Next

\* The invariant of Mount: at every step of the image, which descriptors it
\* and its helpers hold, and what is mounted of theirs.
THEOREM MountInvariant == Spec => []MountInv
<1>1. Init => MountInv
  BY MountInit
<1>2. MountInv /\ [Next]_vars => MountInv'
  BY MountStep
<1>3. QED
  BY <1>1, <1>2, PTL DEF Spec

\* fuse_session_mount's /dev/null loop, fuse_daemonize's dup2, execHandover
\* and setup_auto_unmount's socket: while an image serves, se->fd is the
\* device of a connection that is mounted.
THEOREM ServesWhatIsMounted == Spec => []ServesItsMount
<1>1. MountInv => ServesItsMount
  <2> SUFFICES ASSUME MountInv, pc = "serve", ~replaced
               PROVE  sefd \in Fds /\ \E i \in DOMAIN mounts : Mine[sefd] = Dev(mounts[i])
    BY DEF ServesItsMount, At
  <2>1. sefd = 3 /\ 3 \in Fds
    BY TenNumbers DEF MountInv, Device, Opened, Types
  <2>2. PICK c \in Nat \ {0} : Mine[3] = Dev(c) /\ Mounted(c)
    BY DEF MountInv, Device, Opened
  <2>3. QED
    BY <2>1, <2>2 DEF Mounted, ToSet
<1>2. QED
  BY <1>1, MountInvariant, PTL

\* The operator replaces a mount for good, and once.
LEMMA ReplacedStays == ASSUME [Next]_vars, replaced PROVE replaced' /\ late' = late
<1> USE DEF counts
<1>1. CASE UNCHANGED vars
  BY <1>1 DEF vars
<1>2. CASE Serve
  BY <1>2 DEF Serve, NewSession, Stdio, OpenDev, MountSys, AddMtab, SetupAutoUnmount, MountFusermount, ReceiveFd,
              SaveMountpoint, CustomIo, WakeupPipe, Replay, Daemonize, Detached, PollUnmount, KernUnmount, SessionDestroy, Exits
<1>3. CASE ParentExits \/ Terminate \/ Kill \/ Handover \/ Replace
  BY <1>3 DEF ParentExits, Terminate, Kill, Handover, Replace
<1>4. CASE \E h \in Helpers : Helper(h)
  BY <1>4 DEF Helper, HelperMounts, HelperFails, HelperUnmounts
<1>5. QED
  BY <1>1, <1>2, <1>3, <1>4 DEF Next

\* fuse_kern_unmount's poll, and the helper's unmount by connection: what the
\* operator had mounted in our place when the device was polled is never
\* unmounted.
THEOREM OthersAreLeftAlone == Spec => OthersStay
<1>1. MountInv /\ [Next]_vars /\ MountInv' => [Mounted(Other) /\ ~late => Mounted(Other)']_vars
  <2> SUFFICES ASSUME MountInv, [Next]_vars, MountInv', Mounted(Other), ~late
               PROVE  Mounted(Other)'
    OBVIOUS
  <2>1. replaced
    BY DEF MountInv, Replacing
  <2>2. replaced' /\ ~late'
    BY <2>1, ReplacedStays
  <2>3. mounts' = <<Other>>
    BY <2>2 DEF MountInv, Replacing
  <2>4. QED
    BY <2>3 DEF Mounted, ToSet
<1>2. QED
  BY <1>1, MountInvariant, PTL DEF Spec, OthersStay
=============================================================================
