---------------------------- MODULE MCFuseSession ----------------------------
(* An instance of FuseSession for TLC: a pool of two threads.                *)
EXTENDS FuseSession

CONSTANTS init, o1, o2, f1

Quiet == [requests |-> {o1}, maxFaults |-> 0, maxUpdates |-> 0, mayTerminate |-> FALSE,
          maySever |-> FALSE]

\* Two operations, a forget and an interrupt; an update with a failure, or with
\* a termination, in the middle; an update after one that timed
\* out; an unmount, with an update.
SessionLoads ==
    {[Quiet EXCEPT !.requests = {o1, o2, f1}],
     [Quiet EXCEPT !.maxUpdates = 1, !.maxFaults = 1],
     [Quiet EXCEPT !.maxUpdates = 1, !.mayTerminate = TRUE],
     [Quiet EXCEPT !.maxUpdates = 2, !.requests = {}],
     [Quiet EXCEPT !.maxUpdates = 1, !.maySever = TRUE]}

SeverLoads == {[Quiet EXCEPT !.maySever = TRUE]}
UpdateLoads == {[Quiet EXCEPT !.maxUpdates = 1]}
===============================================================================
