------------------------------- MODULE Rebuild -------------------------------
(***************************************************************************)
(* How the patched module gets into /usr/lib/modules and out again:        *)
(* bin/apple-avd-rebuild, started by the pacman hook, the boot service,    *)
(* install.sh or by hand; install.sh and uninstall.sh, which change the    *)
(* same files without taking its lock; kernel updates, reboots, crashes.   *)
(*                                                                         *)
(* A set of patches is named by a pair: the version of the file names that *)
(* were globbed before the lock was taken, and the version of the contents *)
(* read later.  Versions of the repository only grow.  A kernel stands for *)
(* its tag; linux-asahi owns one kernel at a time.                         *)
(*                                                                         *)
(* depmod -a (external) reads the module directory of a kernel and writes  *)
(* its index later, a rename at the end: a scan and a write.  Nothing      *)
(* keeps two of them apart: the lock of apple-avd-rebuild is taken neither *)
(* by uninstall.sh nor by pacman.                                          *)
(***************************************************************************)
EXTENDS Naturals, FiniteSets

CONSTANTS
    Kernel,       \* kernel versions, in the order of release
    Proc,         \* processes that may run apple-avd-rebuild
    NoProc,
    Upstream,     \* <<kernel, version>>: upstream has every patch of it
    MaxVersion,   \* bound: versions of the patches
    MaxFaults,    \* bound: crashes and failed file operations
    MaxStarts     \* bound: rebuilds started other than at boot

ASSUME RebuildAssumption ==
    /\ Kernel \subseteq Nat
    /\ \E k \in Kernel : \A j \in Kernel : k <= j
    /\ NoProc \notin Proc
    /\ {MaxVersion, MaxFaults, MaxStarts} \subseteq Nat
    /\ Upstream \subseteq Kernel \X (1..MaxVersion)

VARIABLES
    share,    \* the version of the patches in $SHARE/patches, 0: none
    version,  \* the version of the repository install.sh is run from
    script,   \* apple-avd-rebuild, the hooks and the service are installed
    kernel,   \* the kernel of the linux-asahi package
    running,  \* uname -r
    ko,       \* per kernel: the patches updates/apple-avd.ko was built from
    stamp,    \* per kernel: the patches its stamp names
    dep,      \* per kernel: the index lists updates/apple-avd.ko
    overlap,  \* history: a depmod began inside another of the same kernel
    lock,     \* the holder of /run/apple-avd-rebuild.lock
    proc,     \* the rebuilds
    admin,    \* install.sh or uninstall.sh, one at a time
    pacman,   \* the depmod that follows a kernel update
    service,  \* the boot service is about to run
    removed,  \* uninstall.sh has ended and install.sh not been run since
    faults,
    starts

index == <<dep, overlap, pacman>>
files == <<ko, stamp, index>>
system == <<version, script, kernel, running, service, removed, faults,
            starts>>
vars == <<share, system, files, lock, proc, admin>>

Patches == (0..MaxVersion) \X (0..MaxVersion)
None == <<0, 0>>

Stopped == [pc |-> "off", force |-> FALSE, glob |-> 0, pid |-> None,
            k |-> 0, built |-> None, listed |-> FALSE]
NoAdmin == [pc |-> "idle", todo |-> {}, k |-> 0, listed |-> FALSE]
NoPacman == [pc |-> "idle", listed |-> FALSE]

Oldest == CHOOSE k \in Kernel : \A j \in Kernel : k <= j

Init ==
    /\ share = 0
    /\ version = 1
    /\ script = FALSE
    /\ kernel = Oldest
    /\ running = Oldest
    /\ ko = [k \in Kernel |-> None]
    /\ stamp = [k \in Kernel |-> None]
    /\ dep = [k \in Kernel |-> FALSE]
    /\ overlap = FALSE
    /\ pacman = NoPacman
    /\ lock = NoProc
    /\ proc = [p \in Proc |-> Stopped]
    /\ admin = NoAdmin
    /\ service = FALSE
    /\ removed = FALSE
    /\ faults = 0
    /\ starts = 0

Quiet ==
    admin = NoAdmin /\ pacman = NoPacman /\ \A p \in Proc : proc[p].pc = "off"

(* A depmod of kernel k has scanned and not written yet. *)
Scanned(k) ==
    \/ \E p \in Proc : proc[p].pc = "write" /\ proc[p].k = k
    \/ admin.pc = "write" /\ admin.k = k
    \/ pacman.pc = "write" /\ kernel = k

Present(k) ==
    ko[k] # None

(* The two halves of depmod -a: the caller keeps what the first one saw. *)
Scan(k) ==
    overlap' = (overlap \/ Scanned(k))

Write(k, listed) ==
    dep' = [dep EXCEPT ![k] = listed]

-----------------------------------------------------------------------------
(***************************************************************************)
(* apple-avd-rebuild.                                                      *)
(***************************************************************************)
At(p, pc) ==
    proc[p].pc = pc

Goes(p, pc) ==
    proc' = [proc EXCEPT ![p].pc = pc]

(* The end of the script; the lock goes with its descriptor. *)
Exit(p) ==
    /\ proc' = [proc EXCEPT ![p] = Stopped]
    /\ lock' = IF lock = p THEN NoProc ELSE lock

(* A failure that leaves the files alone. *)
Gives_up(p) ==
    Exit(p) /\ UNCHANGED <<share, system, files, admin>>

(* The file names are globbed before the lock is asked for. *)
Begins(p, force) ==
    /\ At(p, "off")
    /\ proc' = [proc EXCEPT ![p] = [Stopped EXCEPT !.pc = "wait",
                                        !.force = force, !.glob = share]]
    /\ UNCHANGED <<share, version, script, kernel, running, removed, faults,
                   files, lock>>

(* By hand or by the pacman hook. *)
Start(p, force) ==
    /\ script
    /\ starts < MaxStarts
    /\ starts' = starts + 1
    /\ Begins(p, force)
    /\ UNCHANGED <<service, admin>>

(* flock -w 600 *)
Lock(p) ==
    /\ At(p, "wait")
    /\ lock = NoProc
    /\ lock' = p
    /\ Goes(p, "plan")
    /\ UNCHANGED <<share, system, files, admin>>

LockTimeout(p) ==
    /\ At(p, "wait")
    /\ lock # NoProc
    /\ Gives_up(p)

NoPatches(p) ==
    /\ At(p, "plan")
    /\ proc[p].glob = 0
    /\ Gives_up(p)

(* The first half of depmod -a "$K". *)
Scans(p) ==
    /\ Scan(proc[p].k)
    /\ proc' = [proc EXCEPT ![p].pc = "write",
                            ![p].listed = Present(proc[p].k)]
    /\ UNCHANGED <<share, system, ko, stamp, dep, pacman, lock, admin>>

(***************************************************************************)
(* cleanup_orphans: modules with a stamp whose kernel is neither installed *)
(* nor running.  No depmod: the kernel is gone.                            *)
(***************************************************************************)
Orphans ==
    {k \in Kernel : stamp[k] # None /\ k \notin {running, kernel}}

(***************************************************************************)
(* patchset_id and the kernel to build for.                                *)
(***************************************************************************)
Plan(p) ==
    /\ At(p, "plan")
    /\ proc[p].glob # 0
    /\ proc' = [proc EXCEPT ![p].pc = "check", ![p].k = kernel,
                            ![p].pid = <<proc[p].glob, share>>]
    /\ ko' = [k \in Kernel |-> IF k \in Orphans THEN None ELSE ko[k]]
    /\ stamp' = [k \in Kernel |-> IF k \in Orphans THEN None ELSE stamp[k]]
    /\ UNCHANGED <<share, system, index, lock, admin>>

IsUpToDate(p) ==
    /\ ~proc[p].force
    /\ Present(proc[p].k)
    /\ stamp[proc[p].k] = proc[p].pid

UpToDate(p) ==
    /\ At(p, "check")
    /\ IsUpToDate(p)
    /\ Exit(p)
    /\ UNCHANGED <<share, system, files, admin>>

(* The headers, a build user, a directory and the source are there. *)
Fetch(p) ==
    /\ At(p, "check")
    /\ ~IsUpToDate(p)
    /\ Goes(p, "prepare")
    /\ UNCHANGED <<share, system, files, lock, admin>>

FetchFails(p) ==
    /\ At(p, "check")
    /\ ~IsUpToDate(p)
    /\ Gives_up(p)

(***************************************************************************)
(* prepare_tree reads the globbed names again.  A name that is gone makes  *)
(* it fail; a mixture of two versions may or may not apply.                *)
(***************************************************************************)
Prepare(p) ==
    /\ At(p, "prepare")
    /\ share # 0
    /\ <<proc[p].k, share>> \notin Upstream
    /\ proc' = [proc EXCEPT ![p].pc = "build",
                            ![p].built = <<proc[p].glob, share>>]
    /\ UNCHANGED <<share, system, files, lock, admin>>

PrepareFails(p) ==
    /\ At(p, "prepare")
    /\ Gives_up(p)

(* Every patch is upstream: a stamped module is removed. *)
UpstreamFixed(p) ==
    LET k == proc[p].k
    IN  /\ At(p, "prepare")
        /\ <<k, share>> \in Upstream
        /\ IF stamp[k] # None
           THEN /\ ko' = [ko EXCEPT ![k] = None]
                /\ stamp' = [stamp EXCEPT ![k] = None]
                /\ Goes(p, "undepmod")
                /\ UNCHANGED lock
           ELSE /\ Exit(p)
                /\ UNCHANGED <<ko, stamp>>
        /\ UNCHANGED <<share, system, index, admin>>

UpstreamDepmod(p) ==
    /\ At(p, "undepmod")
    /\ Scans(p)

(* make, the copy, vermagic, install and strip of the temporary file. *)
Build(p) ==
    /\ At(p, "build")
    /\ Goes(p, "mvko")
    /\ UNCHANGED <<share, system, files, lock, admin>>

BuildFails(p) ==
    /\ At(p, "build")
    /\ Gives_up(p)

(* Mutant: whether the move worked is not looked at. *)
MoveKoUnchecked(p) ==
    /\ At(p, "mvko")
    /\ ko' \in {ko, [ko EXCEPT ![proc[p].k] = proc[p].built]}
    /\ Goes(p, "mvstamp")
    /\ UNCHANGED <<share, system, stamp, index, lock, admin>>

MoveKo(p) ==
    /\ At(p, "mvko")
    /\ ko' = [ko EXCEPT ![proc[p].k] = proc[p].built]
    /\ Goes(p, "mvstamp")
    /\ UNCHANGED <<share, system, stamp, index, lock, admin>>

(* Mutant: depmod is left out. *)
MoveStampLast(p) ==
    /\ At(p, "mvstamp")
    /\ stamp' = [stamp EXCEPT ![proc[p].k] = proc[p].pid]
    /\ Exit(p)
    /\ UNCHANGED <<share, system, ko, index, admin>>

MoveStamp(p) ==
    /\ At(p, "mvstamp")
    /\ stamp' = [stamp EXCEPT ![proc[p].k] = proc[p].pid]
    /\ Goes(p, "depmod")
    /\ UNCHANGED <<share, system, ko, index, lock, admin>>

Depmod(p) ==
    /\ At(p, "depmod")
    /\ Scans(p)

(* The second half, of either depmod; nothing is left to do. *)
DepmodWrite(p) ==
    /\ At(p, "write")
    /\ Write(proc[p].k, proc[p].listed)
    /\ Exit(p)
    /\ UNCHANGED <<share, system, ko, stamp, overlap, pacman, admin>>

(* A command of the installation, or a depmod, fails; what was done stays. *)
InstallFails(p) ==
    /\ proc[p].pc \in {"undepmod", "mvko", "mvstamp", "depmod", "write"}
    /\ faults < MaxFaults
    /\ faults' = faults + 1
    /\ Exit(p)
    /\ UNCHANGED <<share, version, script, kernel, running, service, removed, starts,
                   files, admin>>

-----------------------------------------------------------------------------
(***************************************************************************)
(* install.sh, from the managed patch directory on; it stops where a       *)
(* command fails (die) or the user interrupts it.                          *)
(***************************************************************************)
Admin(pc) ==
    admin' = [NoAdmin EXCEPT !.pc = pc]

InstallDelete ==
    /\ admin.pc = "idle"
    /\ Admin("copy")
    /\ share' = 0
    /\ removed' = FALSE
    /\ UNCHANGED <<version, script, kernel, running, service, faults, starts, files,
                   lock, proc>>

InstallCopy ==
    /\ admin.pc = "copy"
    /\ Admin("script")
    /\ share' = version
    /\ UNCHANGED <<system, files, lock, proc>>

InstallScript ==
    /\ admin.pc = "script"
    /\ Admin("force")
    /\ script' = TRUE
    /\ UNCHANGED <<share, version, kernel, running, service, removed, faults, starts,
                   files, lock, proc>>

(***************************************************************************)
(* apple-avd-rebuild --force.  What follows it only touches mpv.conf, and  *)
(* nothing keeps install.sh or uninstall.sh from being run again meanwhile *)
(* in another terminal.                                                    *)
(***************************************************************************)
InstallRebuild(p) ==
    /\ admin.pc = "force"
    /\ starts < MaxStarts
    /\ starts' = starts + 1
    /\ Begins(p, TRUE)
    /\ admin' = NoAdmin
    /\ UNCHANGED service

InstallDies ==
    /\ admin.pc \in {"copy", "script", "force"}
    /\ admin' = NoAdmin
    /\ UNCHANGED <<share, system, files, lock, proc>>

(* The user updates the checkout. *)
Pull ==
    /\ admin.pc = "idle"
    /\ version < MaxVersion
    /\ version' = version + 1
    /\ UNCHANGED <<share, script, kernel, running, service, removed, faults, starts,
                   files, lock, proc, admin>>

(***************************************************************************)
(* uninstall.sh: the service, the hooks and the script; the patches; then  *)
(* every module directory that has a stamp.  It can be run again at any    *)
(* time, and set -e ends it where a command fails.                         *)
(***************************************************************************)
UninstallScript ==
    /\ admin.pc = "idle"
    /\ Admin("patches")
    /\ script' = FALSE
    /\ UNCHANGED <<share, version, kernel, running, service, removed, faults, starts,
                   files, lock, proc>>

UninstallPatches ==
    /\ admin.pc = "patches"
    /\ admin' = [NoAdmin EXCEPT !.pc = "modules",
                                !.todo = {k \in Kernel : stamp[k] # None}]
    /\ share' = 0
    /\ UNCHANGED <<system, files, lock, proc>>

UninstallModule(k) ==
    /\ admin.pc = "modules"
    /\ k \in admin.todo
    /\ ko' = [ko EXCEPT ![k] = None]
    /\ stamp' = [stamp EXCEPT ![k] = None]
    /\ admin' = [NoAdmin EXCEPT !.pc = "depmod", !.todo = admin.todo \ {k},
                                !.k = k]
    /\ UNCHANGED <<share, system, index, lock, proc>>

UninstallDepmod ==
    /\ admin.pc = "depmod"
    /\ Scan(admin.k)
    /\ admin' = [NoAdmin EXCEPT !.pc = "write", !.todo = admin.todo,
                                !.k = admin.k, !.listed = Present(admin.k)]
    /\ UNCHANGED <<share, system, ko, stamp, dep, pacman, lock, proc>>

UninstallWrite ==
    /\ admin.pc = "write"
    /\ Write(admin.k, admin.listed)
    /\ admin' = [NoAdmin EXCEPT !.pc = "modules", !.todo = admin.todo]
    /\ UNCHANGED <<share, system, ko, stamp, overlap, pacman, lock, proc>>

(* It ends early between two modules. *)
UninstallStops ==
    /\ admin.pc \in {"patches", "modules"}
    /\ admin' = NoAdmin
    /\ UNCHANGED <<share, system, files, lock, proc>>

(* It ends after a module is gone, before depmod is done. *)
UninstallDies ==
    /\ admin.pc \in {"depmod", "write"}
    /\ faults < MaxFaults
    /\ faults' = faults + 1
    /\ admin' = NoAdmin
    /\ UNCHANGED <<share, version, script, kernel, running, service, removed, starts,
                   files, lock, proc>>

UninstallEnds ==
    /\ admin.pc = "modules"
    /\ admin.todo = {}
    /\ admin' = NoAdmin
    /\ removed' = TRUE
    /\ UNCHANGED <<share, version, script, kernel, running, service, faults, starts,
                   files, lock, proc>>

-----------------------------------------------------------------------------
(***************************************************************************)
(* pacman replaces the kernel and runs depmod for it; its hook then starts *)
(* a rebuild like any other.                                               *)
(***************************************************************************)
KernelUpdate(k) ==
    /\ pacman.pc = "idle"
    /\ k > kernel
    /\ kernel' = k
    /\ pacman' = [NoPacman EXCEPT !.pc = "depmod"]
    /\ UNCHANGED <<share, version, script, running, service, removed, faults, starts,
                   ko, stamp, dep, overlap, lock, proc, admin>>

PacmanDepmod ==
    /\ pacman.pc = "depmod"
    /\ Scan(kernel)
    /\ pacman' = [pc |-> "write", listed |-> Present(kernel)]
    /\ UNCHANGED <<share, system, ko, stamp, dep, lock, proc, admin>>

PacmanWrite ==
    /\ pacman.pc = "write"
    /\ Write(kernel, pacman.listed)
    /\ pacman' = NoPacman
    /\ UNCHANGED <<share, system, ko, stamp, overlap, lock, proc, admin>>

(***************************************************************************)
(* A reboot.  With a script still running it is one of the faults.  The    *)
(* boot service runs if its conditions hold: the script is there and the   *)
(* running kernel has no stamp.                                            *)
(***************************************************************************)
Boot ==
    /\ Quiet \/ faults < MaxFaults
    /\ faults' = IF Quiet THEN faults ELSE faults + 1
    /\ running' = kernel
    /\ service' = (script /\ stamp[kernel] = None)
    /\ proc' = [p \in Proc |-> Stopped]
    /\ lock' = NoProc
    /\ admin' = NoAdmin
    /\ pacman' = NoPacman
    /\ UNCHANGED <<share, version, script, kernel, removed, starts, ko, stamp, dep,
                   overlap>>

BootService(p) ==
    /\ service
    /\ service' = FALSE
    /\ Begins(p, FALSE)
    /\ UNCHANGED <<admin, starts>>

Step(p) ==
    \/ Lock(p) \/ LockTimeout(p) \/ NoPatches(p) \/ Plan(p) \/ UpToDate(p)
    \/ Fetch(p) \/ FetchFails(p) \/ Prepare(p) \/ PrepareFails(p)
    \/ UpstreamFixed(p) \/ UpstreamDepmod(p) \/ Build(p) \/ BuildFails(p)
    \/ MoveKo(p) \/ MoveStamp(p) \/ Depmod(p) \/ DepmodWrite(p)

Install ==
    \/ InstallDelete \/ InstallCopy \/ InstallScript \/ InstallDies
    \/ \E p \in Proc : InstallRebuild(p)

Uninstall ==
    \/ UninstallScript \/ UninstallPatches \/ UninstallDepmod \/ UninstallWrite
    \/ UninstallStops \/ UninstallDies \/ UninstallEnds
    \/ \E k \in Kernel : UninstallModule(k)

Pacman ==
    PacmanDepmod \/ PacmanWrite

Next ==
    \/ \E p \in Proc, force \in BOOLEAN : Start(p, force)
    \/ \E p \in Proc : Step(p) \/ InstallFails(p) \/ BootService(p)
    \/ Install
    \/ Pull
    \/ Uninstall
    \/ \E k \in Kernel : KernelUpdate(k)
    \/ Pacman
    \/ Boot

Spec == Init /\ [][Next]_vars

(***************************************************************************)
(* The machine is rebooted again and again with nothing running, systemd   *)
(* starts the service, and what runs gets on.  A retry sometimes gets the  *)
(* lock, finds the source, applies the patches and builds.                 *)
(***************************************************************************)
Fairness ==
    /\ WF_vars(Quiet /\ ~service /\ Boot)
    /\ WF_vars(admin.pc # "idle" /\ (Install \/ Uninstall))
    /\ WF_vars(Pacman)
    /\ WF_vars(\E p \in Proc : BootService(p))
    /\ \A p \in Proc :
           /\ WF_vars(Step(p))
           /\ SF_vars(Lock(p))
           /\ SF_vars(Fetch(p))
           /\ SF_vars(Prepare(p))
           /\ SF_vars(Build(p))

FairSpec == Spec /\ Fairness

-----------------------------------------------------------------------------
(* Type correctness. *)
TypeOK ==
    /\ share \in 0..MaxVersion
    /\ version \in 1..MaxVersion
    /\ {script, service, removed} \subseteq BOOLEAN
    /\ {kernel, running} \subseteq Kernel
    /\ ko \in [Kernel -> Patches]
    /\ stamp \in [Kernel -> Patches]
    /\ dep \in [Kernel -> BOOLEAN]
    /\ overlap \in BOOLEAN
    /\ pacman \in [pc : {"idle", "depmod", "write"}, listed : BOOLEAN]
    /\ lock \in Proc \cup {NoProc}
    /\ proc \in [Proc -> [pc : {"off", "wait", "plan", "check", "prepare",
                               "undepmod", "build", "mvko", "mvstamp",
                               "depmod", "write"},
                         force : BOOLEAN, glob : 0..MaxVersion, pid : Patches,
                         k : Kernel \cup {0}, built : Patches,
                         listed : BOOLEAN]]
    /\ admin \in [pc : {"idle", "copy", "script", "force", "patches",
                        "modules", "depmod", "write"},
                  todo : SUBSET Kernel, k : Kernel \cup {0}, listed : BOOLEAN]
    /\ faults \in 0..MaxFaults
    /\ starts \in 0..MaxStarts

(***************************************************************************)
(* A rebuild that finds the module up to date leaves none in place that    *)
(* was built from older contents than it wanted, although the stamp is a   *)
(* second file, crashes come between the two, and install.sh changes the   *)
(* patches under a running rebuild.                                        *)
(***************************************************************************)
SkipIsCurrent ==
    [][\A p \in Proc :
          UpToDate(p) => ko[proc[p].k][2] >= proc[p].pid[2]]_vars

(***************************************************************************)
(* When nothing runs, nothing has gone wrong and no two depmods of one     *)
(* kernel overlapped, the index of the installed kernel is true: the       *)
(* module of updates/ is the one selected if and only if it is there.      *)
(* Rebuilds, install.sh, uninstall.sh and pacman may interleave in any     *)
(* other way, a module be moved in or removed between the two halves of    *)
(* another's depmod included.  That depmods do not overlap is assumed, not *)
(* ensured, by the scripts: see IndexAlwaysFresh.                          *)
(***************************************************************************)
IndexFresh ==
    Quiet /\ faults = 0 /\ ~overlap => dep[kernel] = Present(kernel)

-----------------------------------------------------------------------------
(***************************************************************************)
(* What the documentation says of the program and TLC refutes: the         *)
(* disagreements described in the README.  UnstampedIsRetried is the part  *)
(* of the last one that holds under FairSpec.                              *)
(***************************************************************************)

(***************************************************************************)
(* IndexFresh whatever the depmods do.  The depmod of a rebuild scans, the *)
(* module is removed by uninstall.sh, whose own depmod runs to its end,    *)
(* and the first one writes last: a module is listed that is gone.         *)
(***************************************************************************)
IndexAlwaysFresh ==
    Quiet /\ faults = 0 => dep[kernel] = Present(kernel)

(***************************************************************************)
(* A module that is up to date is the one the next load selects: the       *)
(* program keeps the module "in sync with the installed linux-asahi        *)
(* kernels" (bin/apple-avd-rebuild:3).                                     *)
(***************************************************************************)
UpToDateSelected ==
    [][\A p \in Proc : UpToDate(p) => dep[proc[p].k]]_vars

(***************************************************************************)
(* uninstall.sh:3 says that the stock module is used again after a reboot: *)
(* once it has ended and nothing runs any more, no patched module is       *)
(* selected for the installed kernel.                                      *)
(***************************************************************************)
UninstallRestoresStock ==
    removed /\ Quiet => ~dep[kernel]

(***************************************************************************)
(* While the installed kernel has no stamp, the boot service tries again   *)
(* at every boot, and so a module is stamped in the end, after crashes     *)
(* and failed builds too, unless the program is removed, the patches are   *)
(* gone or upstream has them all.                                          *)
(***************************************************************************)
UnstampedIsRetried ==
    (script /\ stamp[kernel] = None) ~>
        \/ stamp[kernel] # None
        \/ ~script
        \/ share = 0
        \/ <<kernel, share>> \in Upstream

(***************************************************************************)
(* README.md:180 says more: "the boot service retries at the next boot     *)
(* while the module is missing".                                           *)
(***************************************************************************)
MissingIsBuilt ==
    (script /\ ko[kernel] = None) ~>
        \/ ko[kernel] # None
        \/ ~script
        \/ share = 0
        \/ <<kernel, share>> \in Upstream

=============================================================================
