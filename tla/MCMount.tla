------------------------------- MODULE MCMount -------------------------------
(* Systems and mishaps for Mount.                                            *)
EXTENDS Mount

Calm == [root |-> TRUE, helper |-> TRUE, closed |-> {}, detach |-> TRUE,
         maxFaults |-> 0, maxHandovers |-> 1, mayKill |-> FALSE, mayReplace |-> FALSE]

\* Any system with fusermount3, with one failing call and a kill, after at
\* most two handovers, or with the mount replaced by the operator; and root
\* without fusermount3, as long as the image that mounted ends in order.
MCLoads ==
    {[Calm EXCEPT !.root = r, !.closed = c, !.detach = d, !.maxFaults = 1, !.maxHandovers = 2, !.mayKill = TRUE] :
        r \in BOOLEAN, d \in BOOLEAN, c \in {{}, {0}, {0, 1, 2}}}
    \cup {[Calm EXCEPT !.root = r, !.mayReplace = TRUE, !.maxFaults = 1] : r \in BOOLEAN}
    \cup {[Calm EXCEPT !.helper = FALSE, !.maxHandovers = 0]}
    \cup {[Calm EXCEPT !.helper = FALSE, !.root = FALSE]}

\* Root without fusermount3, and a handover.
NoHelperLoads == {[Calm EXCEPT !.helper = FALSE]}
==============================================================================
