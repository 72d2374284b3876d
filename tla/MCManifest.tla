----------------------------- MODULE MCManifest -----------------------------
(* Bounded instances of Manifest for TLC: a writing node and a reading one,  *)
(* with one hydrating thread on the first and two on the second, two closing *)
(* threads on the first and one on the second.                               *)
EXTENDS Manifest, TLC

CONSTANTS w, r, f1, f2, f3, c1, c2, c3

MCHome == f1 :> w @@ f2 :> r @@ f3 :> r
MCCloses == c1 :> w @@ c2 :> w @@ c3 :> r
MCSymmetry == Permutations({f2, f3}) \cup Permutations({c1, c2})

\* Fills, releases and opens on the writer and on the reader.
Work(size, wn, whole, fw, fr, pw, pr, ow, or, d) ==
    [size |-> size, writes |-> wn, whole |-> whole, fills |-> w :> fw @@ r :> fr,
     releases |-> w :> pw @@ r :> pr, opens |-> w :> ow @@ r :> or, drops |-> d]

\* Closes while pieces are filled and written; a reader behind a rewriting or
\* appending writer, with two releases; the same with a refill after a cull;
\* patches and a fill on the writer; an open on the writer that overlaps its
\* writes; three writes with a fill and a close beside them.
MCLoads ==
    {Work(2, 1, {TRUE}, 2, 0, 2, 0, 0, 0, 0),
     Work(1, 2, {TRUE}, 0, 2, 1, 1, 0, 1, 0),
     Work(2, 1, {TRUE}, 0, 2, 1, 1, 0, 1, 1),
     Work(1, 2, BOOLEAN, 1, 0, 1, 0, 0, 0, 1),
     Work(1, 2, BOOLEAN, 1, 0, 0, 0, 1, 0, 0),
     Work(1, 3, BOOLEAN, 1, 0, 1, 0, 0, 0, 0)}

\* An open on the writer from before a rewrite and an append, and a fill on it
\* that began before both.
ReopenLoads == {Work(1, 2, {TRUE}, 1, 1, 0, 1, 1, 0, 0)}

=============================================================================
