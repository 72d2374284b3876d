---------------------------- MODULE MCInodeTable ----------------------------
(* Instances of InodeTable for TLC: two names at the root, and names below each. *)
EXTENDS InodeTable, TLC

A == <<"a">>
B == <<"b">>
C == <<"c">>
D == <<"d">>
AllPaths == {A, B, A \o C, B \o C}
TwoEach == AllPaths \cup {A \o D, B \o D}

Walk == [tree |-> {A}, ops |-> {"lookup", "open"}, maxOps |-> 3, maxFaults |-> 0, maxHandovers |-> 0]

\* A directory and a file in it renamed at once, under an open file and over a
\* name still referenced; the same directory exchanged for another, while the
\* rename of its file is on its way to the tables; files made, removed and
\* exchanged under their names, with an allocation that fails; a handover among
\* lookups, creates and opens.
Nested == [Walk EXCEPT !.tree = {A, A \o C}, !.ops = @ \cup {"rename"}, !.maxOps = 5]
Swapped == [Nested EXCEPT !.tree = AllPaths, !.ops = @ \cup {"exchange"}]
TableLoads ==
    {Nested, Swapped,
     [Walk EXCEPT !.tree = {A, B}, !.ops = @ \cup {"rename", "exchange", "unlink"}, !.maxOps = 4],
     [Walk EXCEPT !.ops = {"create", "mkdir", "lookup", "rename"}, !.maxFaults = 1],
     [Walk EXCEPT !.ops = @ \cup {"create", "unlink"}, !.maxHandovers = 1]}

RaceLoads == {[Walk EXCEPT !.ops = @ \cup {"rename"}]}
NestedLoads == {Nested}
DisplacedLoads == {[Walk EXCEPT !.tree = {A, B}, !.ops = {"lookup", "rename"}, !.maxHandovers = 1]}

Interchangeable == Permutations(Handlers)
=============================================================================
