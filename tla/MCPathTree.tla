---------------------------- MODULE MCPathTree -----------------------------
(* Small instances of PathTree: sessions of two to four requests, chosen   *)
(* so that every handler meets a rename, a removal or a forget.  Where a   *)
(* copy meets one of them the two can wait for each other for ever: the    *)
(* run does not check deadlock, and NobodyStuck says which stop it is.     *)
EXTENDS PathTree, TLC

Lossy(S) == {[ops |-> s, losses |-> 1] : s \in S}
Safe(S)  == {[ops |-> s, losses |-> 0] : s \in S}

(* No lost create together with an unlink: the release of the lost handle  *)
(* uses the path of the create.                                            *)
MCLoads ==
  Lossy({{"rename", "open", "getattr"}, {"unlink", "open", "release"},
         {"rename", "release", "forget"}, {"create", "release", "forget"},
         {"lookup", "rmdir", "unlink"}, {"mkdir", "unlink", "lookup"},
         {"link", "unlink", "mknod"}, {"readdirplus", "rename", "forget"},
         {"opendir", "rename", "lseek"}, {"unlink", "open", "release", "forget"}})
  \union
  Safe({{"exchange", "read", "setattr"}, {"copy", "flush", "symlink"},
        {"access", "rename", "lock"}, {"getxattr", "rmdir", "poll"},
        {"bmap", "rmdir", "readdir"}, {"create", "unlink", "release"},
        {"copy", "unlink", "forget"}, {"releasedir", "rmdir", "forget"}}
       \union {{op, "rename", "unlink"} : op \in Ops}
       \union {{op, "rename", "forget"} : op \in Ops})

MCHidden == <<"h1", "h2", "h3", "h4">>
Symmetry == Permutations(Threads)
=============================================================================
