-------------------------------- MODULE Mount --------------------------------
(***************************************************************************)
(* How a mount comes up and goes down: serve of src/src/fuse_fs.zig on the *)
(* libfuse calls fuse_session_new, fuse_session_mount, fuse_daemonize and  *)
(* fuse_session_unmount (fuse_lowlevel.c, mount.c, mount_util.c, helper.c),*)
(* the fusermount3 helper that auto_unmount leaves behind, and the exec of *)
(* a handover.                                                             *)
(*                                                                         *)
(* What decides everything here is who holds which descriptor: the         *)
(* connection lives while somebody has its /dev/fuse open, and the helper  *)
(* unmounts when nobody has the other end of its socket.  So each process  *)
(* has its table of descriptors, and fork, exec and exit do to it what the *)
(* kernel does.  Serving itself is FuseSession; here it is one state.      *)
(***************************************************************************)
EXTENDS Integers, Sequences, FiniteSets, SequencesExt, FiniteSetsExt

CONSTANTS Fds,     \* 0..n: descriptor numbers
          Loads    \* the systems and the mishaps: see LoadType

\* geteuid() = 0; fusermount3 is there; started with these standard
\* descriptors closed; not --foreground; failing calls; handovers; whether
\* the daemon is killed; whether the operator unmounts and mounts another.
LoadType ==
    [root : BOOLEAN, helper : BOOLEAN, closed : SUBSET (0..2), detach : BOOLEAN,
     maxFaults : Nat, maxHandovers : Nat, mayKill : BOOLEAN, mayReplace : BOOLEAN]

\* A mount never has more than ten of the descriptors below open, so none of
\* its opens fails for want of a number.
ASSUME MountAssumption ==
    /\ Loads \subseteq LoadType
    /\ \E n \in Fds : n \in Nat /\ n >= 9 /\ Fds = 0..n

Image == {"cmd", "dmn"}            \* the command, and what it forks to serve
Helpers == {"h1", "h2"}            \* fusermount3, one per socket pair
Procs == Image \cup Helpers
Other == 0                         \* somebody else's mount on the same directory

\* What a descriptor names.
Free == <<"free", 0>>
Null == <<"null", 0>>
Wake == <<"wake", 0>>
Waiter(end) == <<"waiter", end>>   \* the pipe of fuse_daemonize: 0 reads, 1 writes
Dev(c) == <<"dev", c>>             \* /dev/fuse, connection c
Sock(h) == <<"sock", h>>           \* fds[1] of the pair made for helper h
Peer(h) == <<"peer", h>>           \* fds[0]

VARIABLES
    load,
    alive,      \* the processes there are
    fdt,        \* their descriptors
    cloexec,    \* and which of them close on exec
    mounts,     \* what is mounted on the directory, the last one on top
    conns,      \* connections opened so far
    pc,         \* where the image that mounts, or serves, is
    who,        \* the process it runs in
    inherited,  \* serve's inherit_fd
    sefd,       \* se->fd, -1 if none
    saved,      \* se->mountpoint # NULL
    hooked,     \* the custom I/O is in place, and keeps the FUSE_INIT request
    completed,  \* the byte the daemon writes to its waiting parent
    hpc, hconn, \* a helper, and the mount it answers for
    sent,       \* the connection whose descriptor is in a socket, 0 if none
    faults, handovers,
    replaced, late  \* the operator put another mount there; after the poll

procs == <<alive, fdt, cloexec>>
image == <<pc, who, inherited, sefd, saved, hooked, completed>>
helper == <<hpc, hconn, sent>>
counts == <<faults, handovers, replaced, late>>
vars == <<load, procs, mounts, conns, image, helper, counts>>

AllFree == [i \in Fds |-> Free]
At(p) == pc = p
Goto(p) == pc' = p
Fault == faults < load.maxFaults /\ faults' = faults + 1

Init ==
    /\ load \in Loads
    /\ alive = {"cmd"}
    /\ fdt = [p \in Procs |-> [i \in Fds |-> IF p = "cmd" /\ i \in (0..2) \ load.closed THEN Null ELSE Free]]
    /\ cloexec = [p \in Procs |-> {}]
    /\ mounts = <<>> /\ conns = 0
    /\ pc = "new" /\ who = "cmd" /\ inherited = FALSE /\ sefd = -1 /\ saved = FALSE
    /\ hooked = FALSE /\ completed = FALSE
    /\ hpc = [h \in Helpers |-> "none"] /\ hconn = [h \in Helpers |-> 0] /\ sent = [h \in Helpers |-> 0]
    /\ faults = 0 /\ handovers = 0 /\ replaced = FALSE /\ late = FALSE

-----------------------------------------------------------------------------
(* Descriptors.                                                              *)

Lowest(t) == Min({i \in Fds : t[i] = Free})
Put(t, x) == [t EXCEPT ![Lowest(t)] = x]
Close(t, i) == IF i \in Fds THEN [t EXCEPT ![i] = Free] ELSE t
Mine == fdt[who]
Holds(p, x) == p \in alive /\ \E i \in Fds : fdt[p][i] = x
Held(x) == \E p \in Procs : Holds(p, x)

\* What execve leaves of a table.
Execed(t, cx) == [i \in Fds |-> IF i \in cx THEN Free ELSE t[i]]

Exit(p) ==
    /\ alive' = alive \ {p}
    /\ fdt' = [fdt EXCEPT ![p] = AllFree]
    /\ cloexec' = [cloexec EXCEPT ![p] = {}]

\* umount2 names the directory: what is on top goes.
TopUnmounted == IF mounts = <<>> THEN mounts ELSE Front(mounts)

-----------------------------------------------------------------------------
(* fuse_session_new, fuse_session_mount.                                     *)

\* Options parsed and the session allocated, or serve returns 1.
NewSession ==
    /\ At("new")
    /\ \/ Goto(IF inherited THEN "io" ELSE "stdio") /\ UNCHANGED <<procs, faults>>
       \/ Fault /\ Goto("gone") /\ Exit(who)
    /\ UNCHANGED <<load, mounts, conns, who, inherited, sefd, saved, hooked, completed, helper, handovers,
                   replaced, late>>

\* Mutant: /dev/fuse may take the number of a closed standard descriptor.
StdioKept ==
    /\ At("stdio") /\ Goto("dev")
    /\ UNCHANGED <<load, procs, mounts, conns, who, inherited, sefd, saved, hooked, completed, helper, counts>>

\* The loop on /dev/null: 0, 1 and 2 are open afterwards.
Stdio ==
    /\ At("stdio") /\ Goto("dev")
    /\ fdt' = [fdt EXCEPT ![who] = [i \in Fds |-> IF i \in 0..2 /\ @[i] = Free THEN Null ELSE @[i]]]
    /\ UNCHANGED <<load, alive, cloexec, mounts, conns, who, inherited, sefd, saved, hooked, completed,
                   helper, counts>>

\* fuse_mount_sys up to the open of /dev/fuse; fuse_kern_mount's option
\* strings before it fail the same way.
OpenDev ==
    /\ At("dev")
    /\ \/ /\ fdt' = [fdt EXCEPT ![who] = Put(@, Dev(conns + 1))]
          /\ cloexec' = [cloexec EXCEPT ![who] = @ \cup {Lowest(Mine)}]
          /\ conns' = conns + 1 /\ sefd' = Lowest(Mine) /\ Goto("mount") /\ UNCHANGED faults
       \/ Fault /\ Goto("exit") /\ UNCHANGED <<fdt, cloexec, conns, sefd>>
    /\ UNCHANGED <<load, alive, mounts, who, inherited, saved, hooked, completed, helper, handovers, replaced, late>>

\* mount(2), once more without the subtype on ENODEV.  EPERM goes to
\* fusermount3 (fuse_kern_mount); any other failure ends it.
MountSys ==
    /\ At("mount")
    /\ \/ /\ load.root /\ mounts' = Append(mounts, conns)
          /\ Goto("mtab") /\ UNCHANGED <<fdt, sefd, faults>>
       \/ /\ IF load.root THEN Fault /\ Goto("exit") ELSE Goto("fusermount1") /\ UNCHANGED faults
          /\ fdt' = [fdt EXCEPT ![who] = Close(@, sefd)] /\ sefd' = -1
          /\ UNCHANGED mounts
    /\ UNCHANGED <<load, alive, cloexec, conns, who, inherited, saved, hooked, completed, helper, handovers,
                   replaced, late>>

\* Mutant: the mount outlives a failure to record it.
AddMtabKeeps ==
    /\ At("mtab")
    /\ \/ Goto("auto") /\ UNCHANGED <<fdt, sefd, mounts, faults>>
       \/ /\ Fault /\ Goto("exit")
          /\ UNCHANGED mounts /\ fdt' = [fdt EXCEPT ![who] = Close(@, sefd)] /\ sefd' = -1
    /\ UNCHANGED <<load, alive, cloexec, conns, who, inherited, saved, hooked, completed, helper, handovers,
                   replaced, late>>

\* As root, the mtab entry: without it the mount is undone.
AddMtab ==
    /\ At("mtab")
    /\ \/ Goto("auto") /\ UNCHANGED <<fdt, sefd, mounts, faults>>
       \/ /\ Fault /\ Goto("exit")
          /\ mounts' = TopUnmounted /\ fdt' = [fdt EXCEPT ![who] = Close(@, sefd)] /\ sefd' = -1
    /\ UNCHANGED <<load, alive, cloexec, conns, who, inherited, saved, hooked, completed, helper, handovers,
                   replaced, late>>

\* socketpair, fork, and in the child the exec of fusermount3 (or its
\* failure) with fds[0].  Neither end is close-on-exec.
ForkHelper(h, state, c) ==
    LET there == Lowest(Mine)
        here == Lowest(Put(Mine, Peer(h)))
        pair == Put(Put(Mine, Peer(h)), Sock(h))
        run == Execed(Close(pair, here), cloexec[who] \ {there, here})
    IN /\ alive' = alive \cup {h}
       /\ fdt' = [fdt EXCEPT ![who] = Close(pair, there), ![h] = run]
       /\ cloexec' = [cloexec EXCEPT ![who] = @ \ {there, here}, ![h] = {}]
       /\ hpc' = [hpc EXCEPT ![h] = IF load.helper THEN state ELSE "fail"]
       /\ hconn' = [hconn EXCEPT ![h] = c]

\* setup_auto_unmount after a mount(2) that worked; on failure the mount is
\* undone, and the descriptor is left to the exit.
SetupAutoUnmount ==
    /\ At("auto")
    /\ \/ ForkHelper("h1", "watch", conns) /\ Goto("save") /\ UNCHANGED <<mounts, sefd, faults>>
       \/ /\ Fault /\ Goto("exit") /\ mounts' = TopUnmounted /\ sefd' = -1
          /\ UNCHANGED <<procs, hpc, hconn>>
    /\ UNCHANGED <<load, conns, who, inherited, saved, hooked, completed, sent, handovers, replaced, late>>

\* fuse_mount_fusermount: first with the subtype, then without.  A socket
\* pair or a fork that fails is a failed attempt.
Attempts == {<<"fusermount1", "h1", "recv1", "fusermount2">>, <<"fusermount2", "h2", "recv2", "exit">>}
MountFusermount ==
    \E a \in Attempts :
        /\ At(a[1])
        /\ \/ ForkHelper(a[2], "mount", 0) /\ Goto(a[3]) /\ UNCHANGED faults
           \/ Fault /\ Goto(a[4]) /\ UNCHANGED <<procs, hpc, hconn>>
        /\ UNCHANGED <<load, mounts, conns, who, inherited, sefd, saved, hooked, completed, sent, handovers,
                       replaced, late>>

\* receive_fd: the descriptor, or the end of file of a helper that gave up
\* (or a recvmsg that failed: the descriptor is lost with the message).
ReceiveFd ==
    \E a \in Attempts :
        /\ At(a[3])
        /\ \/ /\ sent[a[2]] # 0
              /\ fdt' = [fdt EXCEPT ![who] = Put(@, Dev(sent[a[2]]))]
              /\ cloexec' = [cloexec EXCEPT ![who] = @ \cup {Lowest(Mine)}]
              /\ sefd' = Lowest(Mine) /\ Goto("save") /\ UNCHANGED faults
           \/ /\ sent[a[2]] = 0 /\ ~Held(Peer(a[2]))
              /\ Goto(a[4]) /\ UNCHANGED <<fdt, cloexec, sefd, faults>>
           \/ /\ sent[a[2]] # 0 /\ Fault
              /\ Goto(a[4]) /\ UNCHANGED <<fdt, cloexec, sefd>>
        /\ sent' = [sent EXCEPT ![a[2]] = 0]
        /\ UNCHANGED <<load, alive, mounts, conns, who, inherited, saved, hooked, completed, hpc, hconn,
                       handovers, replaced, late>>

\* se->fd, and a copy of the mount point, which may not be had.
SaveMountpoint ==
    /\ At("save")
    /\ \/ Goto("io") /\ saved' = TRUE /\ UNCHANGED faults
       \/ Fault /\ Goto("undo") /\ UNCHANGED saved
    /\ UNCHANGED <<load, procs, mounts, conns, who, inherited, sefd, hooked, completed, helper, handovers,
                   replaced, late>>

-----------------------------------------------------------------------------
(* serve.                                                                    *)

\* fuse_session_custom_io; only an inherited connection cannot do without it.
CustomIo ==
    /\ At("io")
    /\ \/ /\ hooked' = TRUE /\ Goto("wake") /\ cloexec' = [cloexec EXCEPT ![who] = @ \cup {sefd}]
          /\ UNCHANGED faults
       \/ Fault /\ hooked' = FALSE /\ Goto(IF inherited THEN "destroy" ELSE "wake")
          /\ cloexec' = [cloexec EXCEPT ![who] = IF inherited THEN @ ELSE @ \cup {sefd}]
    /\ UNCHANGED <<load, alive, fdt, mounts, conns, who, inherited, sefd, saved, completed, helper, handovers,
                   replaced, late>>

\* The wakeup pipe; without it serve returns and leaves the mount to the helper.
WakeupPipe ==
    LET one == Put(Mine, Wake) IN
    /\ At("wake")
    /\ \/ /\ fdt' = [fdt EXCEPT ![who] = Put(one, Wake)]
          /\ cloexec' = [cloexec EXCEPT ![who] = @ \cup {Lowest(Mine), Lowest(one)}]
          /\ Goto(IF inherited THEN "replay" ELSE "daemonize") /\ UNCHANGED faults
       \/ Fault /\ Goto("destroy") /\ UNCHANGED <<fdt, cloexec>>
    /\ UNCHANGED <<load, alive, mounts, conns, who, inherited, sefd, saved, hooked, completed, helper,
                   handovers, replaced, late>>

\* replayInit of a replacement image.
Replay ==
    /\ At("replay")
    /\ \/ Goto("serve") /\ UNCHANGED faults
       \/ Fault /\ Goto("destroy")
    /\ UNCHANGED <<load, procs, mounts, conns, who, inherited, sefd, saved, hooked, completed, helper,
                   handovers, replaced, late>>

\* fuse_daemonize: the fork.  Parent and child have both ends of the pipe.
Daemonize ==
    LET both == Put(Put(Mine, Waiter(0)), Waiter(1)) IN
    /\ At("daemonize")
    /\ \/ /\ ~load.detach /\ Goto("serve") /\ UNCHANGED <<procs, who, faults>>
       \/ /\ load.detach /\ Goto("child") /\ who' = "dmn"
          /\ alive' = alive \cup {"dmn"}
          /\ fdt' = [fdt EXCEPT !["cmd"] = both, !["dmn"] = both]
          /\ cloexec' = [cloexec EXCEPT !["dmn"] = cloexec["cmd"]]
          /\ UNCHANGED faults
       \/ load.detach /\ Fault /\ Goto("unmount") /\ UNCHANGED <<procs, who>>
    /\ UNCHANGED <<load, mounts, conns, inherited, sefd, saved, hooked, completed, helper, handovers, replaced, late>>

\* The child: /dev/null over 0, 1 and 2, then the byte its parent waits for.
Detached ==
    /\ At("child") /\ Goto("serve")
    /\ fdt' = [fdt EXCEPT ![who] =
                 [i \in Fds |-> IF i \in 0..2 THEN Null ELSE IF @[i] \in {Waiter(0), Waiter(1)} THEN Free ELSE @[i]]]
    /\ completed' = TRUE
    /\ UNCHANGED <<load, alive, cloexec, mounts, conns, who, inherited, sefd, saved, hooked, helper, counts>>

\* The parent's read returns on the byte, or when nobody can write one: it
\* could itself.
ParentExits ==
    /\ who = "dmn" /\ "cmd" \in alive
    /\ completed \/ ~Held(Waiter(1))
    /\ Exit("cmd")
    /\ UNCHANGED <<load, mounts, conns, image, helper, counts>>

\* The session loop ends: a signal, or the connection is gone.
Terminate ==
    /\ At("serve") /\ Goto(IF inherited THEN "destroy" ELSE "unmount")
    /\ UNCHANGED <<load, procs, mounts, conns, who, inherited, sefd, saved, hooked, completed, helper, counts>>

Kill ==
    /\ At("serve") /\ load.mayKill
    /\ Exit(who) /\ Goto("gone")
    /\ UNCHANGED <<load, mounts, conns, who, inherited, sefd, saved, hooked, completed, helper, counts>>

\* execHandover: the connection outlives the image, or the process ends.
Handover ==
    LET cx == cloexec[who] \ {sefd} IN
    /\ At("serve") /\ hooked /\ handovers < load.maxHandovers
    /\ handovers' = handovers + 1
    /\ \/ /\ fdt' = [fdt EXCEPT ![who] = Execed(@, cx)] /\ cloexec' = [cloexec EXCEPT ![who] = {}]
          /\ Goto("new") /\ inherited' = TRUE /\ saved' = FALSE
          /\ UNCHANGED <<alive, faults>>
       \/ Fault /\ Exit(who) /\ Goto("gone") /\ UNCHANGED <<inherited, saved>>
    /\ UNCHANGED <<load, mounts, conns, who, sefd, hooked, completed, helper, replaced, late>>

\* Mutant: the severed connection is not noticed.
Departed == FALSE

\* fuse_kern_unmount's poll: POLLERR, the mount is gone already.
Polled == Mine[sefd] \notin {Dev(mounts[i]) : i \in DOMAIN mounts}

\* fuse_kern_unmount, the poll and the close after it; fuse_session_unmount
\* forgets the descriptor, fuse_session_mount's error path keeps its number.
PollUnmount ==
    /\ pc \in {"unmount", "undo"}
    /\ Goto(IF Polled THEN "destroy" ELSE "umount")
    /\ fdt' = [fdt EXCEPT ![who] = Close(@, sefd)]
    /\ sefd' = (IF At("unmount") THEN -1 ELSE sefd) /\ saved' = FALSE
    /\ UNCHANGED <<load, alive, cloexec, mounts, conns, who, inherited, hooked, completed, helper, counts>>

\* And then the directory by its name, whatever is mounted there by now:
\* umount2 as root, fusermount3 -u otherwise.
KernUnmount ==
    /\ At("umount") /\ Goto("destroy")
    /\ \/ /\ mounts' = IF load.root \/ load.helper THEN TopUnmounted ELSE mounts
          /\ UNCHANGED faults
       \/ Fault /\ UNCHANGED mounts
    /\ UNCHANGED <<load, procs, conns, who, inherited, sefd, saved, hooked, completed, helper, handovers,
                   replaced, late>>

\* fuse_session_destroy closes what se->fd names.
SessionDestroy ==
    /\ At("destroy") /\ Goto("exit")
    /\ fdt' = [fdt EXCEPT ![who] = Close(@, sefd)] /\ sefd' = -1
    /\ UNCHANGED <<load, alive, cloexec, mounts, conns, who, inherited, saved, hooked, completed, helper, counts>>

Exits ==
    /\ At("exit") /\ Goto("gone") /\ Exit(who)
    /\ UNCHANGED <<load, mounts, conns, who, inherited, sefd, saved, hooked, completed, helper, counts>>

Serve ==
    \/ NewSession \/ Stdio \/ OpenDev \/ MountSys \/ AddMtab \/ SetupAutoUnmount \/ MountFusermount
    \/ ReceiveFd \/ SaveMountpoint \/ CustomIo \/ WakeupPipe \/ Replay \/ Daemonize \/ Detached
    \/ PollUnmount \/ KernUnmount \/ SessionDestroy \/ Exits

-----------------------------------------------------------------------------
(* fusermount3 and the operator, external.                                   *)

\* It mounts, sends the descriptor and closes its own; or it gives up.
HelperMounts(h) ==
    /\ hpc[h] = "mount"
    /\ \/ /\ mounts' = Append(mounts, conns + 1) /\ conns' = conns + 1
          /\ sent' = [sent EXCEPT ![h] = conns + 1] /\ hconn' = [hconn EXCEPT ![h] = conns + 1]
          /\ hpc' = [hpc EXCEPT ![h] = "watch"] /\ UNCHANGED faults
       \/ /\ Fault /\ hpc' = [hpc EXCEPT ![h] = "fail"] /\ UNCHANGED <<mounts, conns, sent, hconn>>
    /\ UNCHANGED <<load, procs, image, handovers, replaced, late>>

\* It could not be run, or could not mount.
HelperFails(h) ==
    /\ hpc[h] = "fail"
    /\ hpc' = [hpc EXCEPT ![h] = "gone"] /\ Exit(h)
    /\ UNCHANGED <<load, mounts, conns, image, hconn, sent, counts>>

\* The end of file on its socket: its mount goes, served or not.
HelperUnmounts(h) ==
    /\ hpc[h] = "watch" /\ ~Held(Sock(h))
    /\ hpc' = [hpc EXCEPT ![h] = "gone"] /\ Exit(h)
    /\ mounts' = RemoveFirst(mounts, hconn[h])
    /\ UNCHANGED <<load, conns, image, hconn, sent, counts>>

Helper(h) == HelperMounts(h) \/ HelperFails(h) \/ HelperUnmounts(h)

\* The operator unmounts the directory and mounts something else there: while
\* it is served, or while fuse_kern_unmount is between its poll and its umount.
Replace ==
    /\ pc \in {"serve", "umount"} /\ load.mayReplace /\ ~replaced
    /\ replaced' = TRUE /\ mounts' = <<Other>> /\ late' = At("umount")
    /\ UNCHANGED <<load, procs, conns, image, helper, faults, handovers>>

Next ==
    \/ Serve \/ ParentExits \/ Terminate \/ Kill \/ Handover
    \/ \E h \in Helpers : Helper(h)
    \/ Replace

Spec == Init /\ [][Next]_vars

\* A process that can run does.
FairSpec ==
    /\ Spec
    /\ WF_vars(Serve) /\ WF_vars(ParentExits)
    /\ \A h \in Helpers : WF_vars(Helper(h))

-----------------------------------------------------------------------------
(* Properties.                                                               *)

\* fuse_session_mount's /dev/null loop, fuse_daemonize's dup2, execHandover
\* and the helper's socket: an image that serves has the device of a mounted
\* connection under se->fd, whatever was closed, forked, or replaced by exec,
\* and the helper does not unmount it meanwhile.
ServesItsMount ==
    At("serve") /\ ~replaced =>
        /\ sefd \in Fds
        /\ \E i \in DOMAIN mounts : Mine[sefd] = Dev(mounts[i])

\* fuse_kern_unmount: a mount that had taken the place of ours when the device
\* was polled stays.  One that arrives between the poll and the umount is
\* unmounted in its turn (OthersAlwaysStay): nothing there looks again.
Mounted(c) == c \in ToSet(mounts)
OthersStay == [][Mounted(Other) /\ ~late => Mounted(Other)']_vars
OthersAlwaysStay == [][Mounted(Other) => Mounted(Other)']_vars

\* mountOpts' auto_unmount, setup_auto_unmount and serve's exits: the mount
\* goes with the process that served it, or failed to, however that ended.
TornDown == (pc = "gone") ~> (ToSet(mounts) \subseteq {Other})
==============================================================================
