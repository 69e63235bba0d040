--------------------------------- MODULE Dawn ---------------------------------
(***************************************************************************)
(* dawn, the mount stage: from the initramfs to execl() of nw-root.  The   *)
(* kernel's rules are the environment: pivot_root(2) fails on the rootfs   *)
(* that an initramfs is, it and MS_MOVE both fail under a shared parent,   *)
(* and a filesystem that is there already answers EBUSY.                   *)
(***************************************************************************)
EXTENDS Integers, Sequences, FiniteSets

CONSTANT Machines   \* [params, rootfs, shared, given]

ASSUME DawnAssumption ==
  \A x \in Machines : {x.params, x.rootfs, x.shared} \subseteq BOOLEAN
                      /\ x.given \subseteq {"/dev", "/proc", "/sys", "/cgroup"}

VARIABLES
  machine,
  d       \* [at, root, mounts, ro, dirs, private, old, end]

dawnVars == <<machine, d>>

Skeleton == {"bricks", "layers", "evidence", "brick_mnt"}

DawnOrder == <<"env", "dev", "root", "esp", "skeleton", "private", "pivot", "proc", "sys",
               "dev2", "run", "tmp", "cgroup", "oldroot", "exec">>

\* `end' is "none", "exec", "refused", or "own" for what dawn brings on itself.
Begin(x) ==
  [at |-> 1, root |-> "initramfs", mounts |-> x.given, ro |-> {}, dirs |-> {},
   private |-> ~x.shared, old |-> "absent", end |-> "none"]

DawnInit == machine \in Machines /\ d = Begin(machine)

Dawning(step) == d.end = "none" /\ DawnOrder[d.at] = step
Did(new) == d' = [new EXCEPT !.at = @ + 1] /\ UNCHANGED machine
Die(why) == d' = [d EXCEPT !.end = why] /\ UNCHANGED machine

\* Nothing is defaulted.
NeedEnv ==
  /\ Dawning("env")
  /\ IF machine.params THEN Did(d) ELSE Die("refused")

\* ensure_mount(): there, by whoever's hand.
Ensure(step, path) ==
  /\ Dawning(step)
  /\ \/ Did([d EXCEPT !.mounts = @ \union {path}])
     \/ path \notin d.mounts /\ Die("refused")

\* do_mount(): made here or fatal.
MountAt(step, path, flags) ==
  /\ Dawning(step)
  /\ \/ Did([d EXCEPT !.mounts = @ \union {path}, !.ro = @ \union flags])
     \/ Die("refused")

\* mkpath(): what is there already is fine.
MakeSkeleton ==
  /\ Dawning("skeleton")
  /\ IF "/sysroot" \in d.mounts THEN Did([d EXCEPT !.dirs = Skeleton, !.old = "dir"])
     ELSE Die("own")

MakeRootPrivate ==
  /\ Dawning("private")
  /\ \/ Did([d EXCEPT !.private = TRUE])
     \/ Die("refused")

\* The new root comes with what is mounted beneath it; the old one stays at
\* /oldroot, or under it all.
Rooted(old) ==
  [d EXCEPT !.root = "real", !.old = old,
            !.mounts = {"/"} \union {x \in {"/efi"} : "/sysroot/efi" \in d.mounts}]

PivotRoot ==
  /\ Dawning("pivot")
  /\ IF ~d.private THEN Die("own")
     ELSE IF machine.rootfs THEN Did(Rooted("dir")) ELSE Did(Rooted("mounted"))

\* umount2() only where the branch above mounted it; then rmdir(), where an
\* empty directory may stay: the same to this model.
DropOldRoot_Always ==
  /\ Dawning("oldroot")
  /\ IF d.old = "dir" THEN Die("own")
     ELSE \/ Did([d EXCEPT !.old = "gone"])
          \/ Die("refused")

DropOldRoot ==
  /\ Dawning("oldroot")
  /\ \/ Did([d EXCEPT !.old = "gone"])
     \/ Die("refused")

ExecRoot ==
  /\ Dawning("exec")
  /\ \/ d' = [d EXCEPT !.end = "exec"] /\ UNCHANGED machine
     \/ Die("refused")

DawnNext ==
  \/ NeedEnv \/ Ensure("dev", "/dev")
  \/ MountAt("root", "/sysroot", {}) \/ MountAt("esp", "/sysroot/efi", {"/efi"})
  \/ MakeSkeleton \/ MakeRootPrivate \/ PivotRoot
  \/ Ensure("proc", "/proc") \/ Ensure("sys", "/sys") \/ Ensure("dev2", "/dev")
  \/ MountAt("run", "/run", {}) \/ MountAt("tmp", "/tmp", {})
  \/ Ensure("cgroup", "/cgroup")
  \/ DropOldRoot \/ ExecRoot
==============================================================================
