------------------------------- MODULE LockList -------------------------------
(***************************************************************************)
(* The list of POSIX locks a node of lib/fuse.c remembers for F_GETLK: the *)
(* ranges of one owner are kept apart and joined by locks_insert.  The     *)
(* list is a sequence of locks.                                            *)
(***************************************************************************)
EXTENDS Integers, Sequences, SequencesExt

CONSTANTS OffsetMax    \* OFFSET_MAX

ASSUME LockListAssumption == OffsetMax \in Nat

\* flock_to_lock: a length of 0 means to the end.
FlockToLock(type, start, len, owner) ==
    [type |-> type, start |-> start, end |-> IF len = 0 THEN OffsetMax ELSE start + len - 1, owner |-> owner]

\* lock_to_flock: what F_GETLK reports of a lock.
LockToFlock(l) ==
    [type |-> l.type, start |-> l.start, len |-> IF l.end = OffsetMax THEN 0 ELSE l.end - l.start + 1]

\* locks_conflict: the first lock of somebody else in the way.
LocksConflict(list, lock) ==
    SelectInSeq(list, LAMBDA l :
        /\ l.owner # lock.owner
        /\ lock.start <= l.end /\ l.start <= lock.end
        /\ "write" \in {l.type, lock.type})

\* Mutant: ranges that touch are not joined.
TouchesOverlap(l, lock) == lock.start <= l.end /\ l.start <= lock.end

\* Of one type, ranges are joined if they overlap or are neighbours.
Touches(l, lock) == lock.start - 1 <= l.end /\ l.start - 1 <= lock.end

\* locks_insert's loop: done is the list before lp, rest from it on.
RECURSIVE InsertFrom(_, _, _)
InsertFrom(done, rest, lock) ==
    LET l == Head(rest)
        more == Tail(rest)
        skip == InsertFrom(Append(done, l), more, lock)
        here == done \o (IF lock.type = "unlock" THEN <<>> ELSE <<lock>>) \o rest
        low(a, b) == IF a < b THEN a ELSE b
        high(a, b) == IF a < b THEN b ELSE a
        joined == [lock EXCEPT !.start = low(l.start, lock.start), !.end = high(l.end, lock.end)]
        left == [l EXCEPT !.end = lock.start - 1]
        right == [l EXCEPT !.start = lock.end + 1]
    IN CASE rest = <<>> -> here
         [] rest # <<>> /\ l.owner # lock.owner -> skip
         [] rest # <<>> /\ l.owner = lock.owner /\ l.type = lock.type ->
              IF ~Touches(l, lock) THEN (IF l.end < lock.start THEN skip ELSE here)
              ELSE IF l.start <= lock.start /\ lock.end <= l.end THEN done \o rest
              ELSE InsertFrom(done, more, joined)
         [] rest # <<>> /\ l.owner = lock.owner /\ l.type # lock.type ->
              IF l.end < lock.start THEN skip
              ELSE IF lock.end < l.start THEN here
              ELSE IF lock.start <= l.start /\ l.end <= lock.end THEN InsertFrom(done, more, lock)
              ELSE IF l.end <= lock.end THEN InsertFrom(Append(done, left), more, lock)
              ELSE IF lock.start <= l.start
                   THEN done \o (IF lock.type = "unlock" THEN <<>> ELSE <<lock>>) \o <<right>> \o more
              ELSE InsertFrom(Append(done, left), <<right>> \o more, lock)

\* The two spare locks, which an unlock of everything does without, may not be
\* had: then nothing changes.
InsertFails(lock, memory) ==
    ~memory /\ ~(lock.type = "unlock" /\ lock.start = 0 /\ lock.end = OffsetMax)
LocksInsert(list, lock, memory) ==
    IF InsertFails(lock, memory) THEN list ELSE InsertFrom(<<>>, list, lock)
==============================================================================
