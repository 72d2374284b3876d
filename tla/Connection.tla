------------------------------ MODULE Connection ------------------------------
(***************************************************************************)
(* What a FUSE server promises the kernel on one connection: a request the *)
(* kernel sent runs its handler at most once, is answered at most once,    *)
(* and a handler that ran is answered with its own result.  An error is    *)
(* invented only for want of memory.  Only while the session is leaving    *)
(* (a handover, or a termination) may a request be lost unrun; a severed   *)
(* connection and a dead server abort what is outstanding.  FuseSession    *)
(* implements this specification.                                          *)
(***************************************************************************)
CONSTANTS Req,      \* the requests that expect an answer
          First     \* the one that opens the connection (FUSE_INIT)

VARIABLES fate,     \* what became of each request
          leaving,  \* the session is exiting
          dead      \* the server is gone for good

cvars == <<fate, leaving, dead>>

CInit ==
    /\ fate = [r \in Req |-> IF r = First THEN "waiting" ELSE "idle"]
    /\ leaving = FALSE
    /\ dead = FALSE

Become(r, from, to) ==
    /\ fate[r] = from
    /\ fate' = [fate EXCEPT ![r] = to]
    /\ UNCHANGED <<leaving, dead>>

\* Nothing is sent before the connection is open.
Send(r) == fate[First] = "replied" /\ Become(r, "idle", "waiting")
Withdraw(r) == Become(r, "waiting", "withdrawn")
Run(r) == Become(r, "waiting", "run")
Reply(r) == Become(r, "run", "replied")
Refuse(r) == Become(r, "waiting", "refused")
Lose(r) == leaving /\ Become(r, "waiting", "lost")

Leave == leaving' \in BOOLEAN /\ UNCHANGED <<fate, dead>>

Aborted == [r \in Req |-> IF fate[r] \in {"waiting", "run", "lost"} THEN "aborted" ELSE fate[r]]
Sever == fate' = Aborted /\ UNCHANGED <<leaving, dead>>
Abort == dead' = TRUE /\ fate' = Aborted /\ leaving' = FALSE

CNext ==
    \/ \E r \in Req : Send(r) \/ Withdraw(r) \/ Run(r) \/ Reply(r) \/ Refuse(r) \/ Lose(r)
    \/ Leave
    \/ Sever \/ Abort

CSpec == CInit /\ [][CNext]_cvars
===============================================================================
