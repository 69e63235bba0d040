-------------------------------- MODULE House --------------------------------
(***************************************************************************)
(* What nw-sup does between reading its kernel and execv() of a house:     *)
(* the cgroup limits, the child branch of main() and the lids.  Every step *)
(* uses something that a later or an earlier step takes away -- a          *)
(* capability, descriptors, the machine's paths, a system call -- so the   *)
(* order of the steps is the subject, and the kernel's rules are the       *)
(* environment.  A step that cannot be done ends in die().                 *)
(***************************************************************************)
EXTENDS Integers, Sequences, FiniteSets

CONSTANTS
  Units,        \* what the environment declares, once main() has accepted it
  Kernels,      \* [abi, last, soft, hard, controllers]
  Inode,        \* bind path -> what it resolves to on the machine
  Files,        \* the inodes that are not directories
  Refusals,     \* steps that the kernel may refuse although all is well
  OpenAtStart,  \* descriptors open in the child
  Gens          \* bound: generations

CtlDir == "ctl"    \* the inode of NW_CTL_DIR, under whatever spelling
Setpcap == 8
SysAdmin == 21
SysNice == 23
SysResource == 24

Settings == {"cpu", "sched", "nice", "oom"}
Limits == {"memory", "cpu", "pids"}
Lids == {"newnet", "newns", "landlock", "seccomp"}

\* The cross rules of main(): see Handoff.
Validated(u, k) ==
  /\ u.lids \subseteq Lids /\ u.settings \subseteq Settings /\ u.limits \subseteq Limits
  /\ u.brick => "newns" \in u.lids
  /\ "landlock" \in u.lids => u.brick
  /\ u.brick <=> u.layer # "none"
  /\ u.layer \in {"none", "plain", "sized"}
  /\ u.binds \in Seq(DOMAIN Inode) /\ (u.binds # <<>> => u.brick)
  /\ u.caps \subseteq 0..k.last /\ u.nofile \in Nat

ASSUME HouseAssumption ==
  /\ OpenAtStart \in Nat /\ Gens \in Nat
  /\ \A x \in DOMAIN Inode : Inode[x] \notin {"root", "own"}    \* a house's own directories
  /\ \A k \in Kernels : /\ k.abi \in Nat \ {0} /\ k.last \in SysResource..63
                        /\ {k.soft, k.hard} \subseteq Nat /\ k.soft <= k.hard
                        /\ OpenAtStart + 3 <= k.soft
  /\ \A u \in Units : \E k \in Kernels : Validated(u, k)

VARIABLES
  unit, kernel, gen,
  k,      \* the next step: an index of Order
  p,      \* the process
  m,      \* its view of the mounts
  ll,     \* its Landlock domain
  end     \* "none", "exec", "refused" by the kernel, or "lacking"

vars == <<unit, kernel, gen, k, p, m, ll, end>>

(***************************************************************************)
(* The filter of lids.c                                                    *)
(***************************************************************************)
strict_allow == <<
  "read", "write", "close", "fcntl", "getsockopt", "setsockopt", "nanosleep",
  "clock_nanosleep", "clock_gettime", "exit", "exit_group", "rt_sigreturn", "brk",
  "mmap", "mprotect", "munmap", "execve", "execveat", "openat", "newfstatat", "fstat",
  "stat", "pread64", "access", "getdents64", "arch_prctl", "set_tid_address",
  "set_robust_list", "prlimit64", "getpid", "getcwd", "rseq", "futex", "readlinkat",
  "getrandom">>

AllowList == {strict_allow[i] : i \in 1..Len(strict_allow)}
SetupCalls == {"unshare", "sched_setaffinity", "sched_setscheduler", "setpriority", "mount",
               "ioctl", "fchdir", "chdir", "pivot_root", "umount2", "landlock", "prctl",
               "capget", "capset", "mkdir", "rt_sigprocmask", "rt_sigaction"}
Syscalls == AllowList \union SetupCalls

\* Instruction 0 loads the number, 1 to n compare it, n + 1 kills, n + 2 allows.
\* A match jumps `offset' instructions further; offsets are one byte.
Offset(n, i) == (n - i + 1) % 256

Filter(allow) ==
  LET n == Len(allow)
  IN  {allow[i] : i \in {j \in 1..n : j + 1 + Offset(n, j) = n + 2}}

(***************************************************************************)
(* The rights of lid_landlock()                                            *)
(***************************************************************************)
DirOnly == {"READ_DIR", "MAKE_REG", "MAKE_DIR", "MAKE_SYM", "MAKE_SOCK", "MAKE_FIFO",
            "REMOVE_FILE", "REMOVE_DIR"}
Devices == {"MAKE_CHAR", "MAKE_BLOCK"}

Handled(abi) ==
  {"EXECUTE", "WRITE_FILE", "READ_FILE"} \union DirOnly \union Devices
  \union (IF abi >= 3 THEN {"TRUNCATE"} ELSE {})

ro == {"EXECUTE", "READ_FILE", "READ_DIR"}
rw(abi) == (ro \union (DirOnly \ {"READ_DIR"}) \union {"WRITE_FILE", "TRUNCATE"}) \intersect Handled(abi)

RootAccess(abi) == (ro \union {"WRITE_FILE"}) \intersect Handled(abi)

\* ll_beneath(): a file takes none of the rights about what is in a directory.
Beneath(at, access) ==
  [at |-> at, access |-> IF at \in Files THEN access \ DirOnly ELSE access]

\* landlock_add_rule(2) answers EINVAL to anything else.
RuleTaken(r, abi) == r.access \subseteq Handled(abi) /\ (r.at \in Files => r.access \intersect DirOnly = {})

(***************************************************************************)
(* Mounts                                                                  *)
(***************************************************************************)
\* A mount reaches the machine unless it is made in a private copy.
Mounted(new) == [new EXCEPT !.leaked = @ \/ ~m.private \/ "mnt" \notin p.ns]

\* The bind of a path is seen unless something covered its mountpoint later.
Seen(b) == b.on = Len(m.stack)

\* What a bind's path names for the process.
Resolve(path) ==
  IF m.root = "machine" \/ \E i \in 1..Len(m.binds) : m.binds[i].path = path /\ Seen(m.binds[i])
    THEN Inode[path] ELSE "own"

BindMount(path) == [path |-> path, on |-> Len(m.stack), ro |-> Inode[path] = CtlDir]

(***************************************************************************)
(* Steps                                                                   *)
(***************************************************************************)
Order_SeccompFirst == <<
  "last", "parent", "limits", "signals", "newnet", "newns", "cpu", "sched", "nice", "oom",
  "raise", "private", "brick", "store", "overlay", "binds", "pivot", "landlock", "seccomp",
  "capabilities", "lower", "exec">>

Order == <<
  "last", "parent", "limits", "signals", "newnet", "newns", "cpu", "sched", "nice", "oom",
  "raise", "private", "brick", "store", "overlay", "binds", "pivot", "landlock",
  "capabilities", "lower", "seccomp", "exec">>

LimitsAt == 3    \* where a generation begins

At(step) == end = "none" /\ k \in 1..Len(Order) /\ Order[k] = step

\* What a step uses: capabilities, descriptors, the machine's paths, system calls.
Uses(caps, fds, machine, calls) ==
  [caps |-> caps, fds |-> fds, machine |-> machine, calls |-> calls]

Has(n) ==
  /\ n.caps \subseteq p.caps
  /\ n.fds > 0 => OpenAtStart + n.fds <= p.soft    \* what is open stays open under a lower limit
  /\ n.machine => m.root = "machine"
  /\ n.calls \subseteq p.calls
  /\ "mount" \in n.calls => ll.handled = {}    \* no mounting in a Landlock domain

\* A step that is not declared is skipped; one that is happens, or ends the child.
Step(step, declared, n, newp, newm) ==
  /\ At(step)
  /\ \/ ~declared /\ k' = k + 1 /\ UNCHANGED <<p, m, end>>
     \/ /\ declared
        /\ IF Has(n) THEN k' = k + 1 /\ p' = newp /\ m' = newm /\ UNCHANGED end
           ELSE end' = "lacking" /\ UNCHANGED <<k, p, m>>
     \/ declared /\ step \in Refusals /\ end' = "refused" /\ UNCHANGED <<k, p, m>>
  /\ UNCHANGED <<unit, kernel, gen, ll>>

\* A process as clone3() makes it, and the mounts it begins with.
Fresh(kn, last, mask) ==
  [last |-> last, mask |-> mask, term |-> "on_term", ns |-> {}, set |-> {}, limits |-> {},
   soft |-> kn.soft, hard |-> kn.hard, lower |-> FALSE, caps |-> 0..kn.last,
   bset |-> 0..kn.last, calls |-> Syscalls]

Machine(leaked) ==
  [private |-> FALSE, stack |-> <<>>, store |-> FALSE, upper |-> "none", binds |-> <<>>,
   root |-> "machine", old |-> FALSE, leaked |-> leaked]

NoDomain == [handled |-> {}, rules |-> {}]

Init ==
  /\ unit \in Units /\ kernel \in {kn \in Kernels : Validated(unit, kn)} /\ gen = 1
  /\ k = 1 /\ end = "none"
  /\ p = Fresh(kernel, 0, {}) /\ m = Machine(FALSE) /\ ll = NoDomain

Proc(fds, calls) == Uses({}, fds, TRUE, calls)      \* a file of /proc or /sys
Admin(fds, calls) == Uses({SysAdmin}, fds, TRUE, calls)
Plain(calls) == Uses({}, 0, FALSE, calls)

\* nw_cap_last_cap(), asked once, before any lid.
ReadLast == Step("last", TRUE, Proc(1, {"openat", "read", "close"}), [p EXCEPT !.last = kernel.last], m)

\* cgroup_parent_setup(): a declared limit needs its controller.
Parent ==
  /\ unit.limits \subseteq kernel.controllers
  /\ Step("parent", TRUE, Proc(1, {"mkdir", "openat", "write", "close"}), p, m)

NoController ==
  /\ At("parent") /\ ~(unit.limits \subseteq kernel.controllers)
  /\ end' = "refused"
  /\ UNCHANGED <<unit, kernel, gen, k, p, m, ll>>

\* house_cgroup_open_generation(): a value is written, read back and compared.
\* `taken' are the limits that the kernel took as they were written.
TakeLimits(taken) ==
  IF taken = unit.limits
    THEN k' = k + 1 /\ p' = [p EXCEPT !.limits = taken] /\ UNCHANGED end
    ELSE end' = "refused" /\ UNCHANGED <<k, p>>

LimitsWritten ==
  /\ At("limits")
  /\ \E taken \in SUBSET unit.limits : TakeLimits(taken)
  /\ UNCHANGED <<unit, kernel, gen, m, ll>>

\* The child begins here.  Dispositions and mask are nw-sup's own.
Signals_NoMask ==
  Step("signals", TRUE, Plain({"rt_sigaction", "rt_sigprocmask"}), [p EXCEPT !.term = "default"], m)

Signals ==
  Step("signals", TRUE, Plain({"rt_sigaction", "rt_sigprocmask"}),
       [p EXCEPT !.term = "default", !.mask = {}], m)

NewNet == Step("newnet", "newnet" \in unit.lids, Uses({SysAdmin}, 0, FALSE, {"unshare", "write"}),
               [p EXCEPT !.ns = @ \union {"net"}], m)
NewNs == Step("newns", "newns" \in unit.lids, Uses({SysAdmin}, 0, FALSE, {"unshare", "write"}),
              [p EXCEPT !.ns = @ \union {"mnt"}], m)

Setting(s, n) == Step(s, s \in unit.settings, n, [p EXCEPT !.set = @ \union {s}], m)

CpuMask == Setting("cpu", Plain({"sched_setaffinity"}))
SchedPolicy == Setting("sched", Plain({"sched_setscheduler"}))
Nice == Setting("nice", Uses({SysNice}, 0, FALSE, {"setpriority"}))
OomScoreAdj == Setting("oom", Uses({SysResource}, 1, TRUE, {"openat", "write", "close"}))

Raising == Uses(IF unit.nofile > p.hard THEN {SysResource} ELSE {}, 0, FALSE, {"prlimit64"})

\* A nofile above the limit is set now, one below it is only noted.
NofileRaise ==
  Step("raise", unit.nofile > 0, Raising,
       IF unit.nofile > p.soft
         THEN [p EXCEPT !.soft = unit.nofile, !.hard = IF unit.nofile > @ THEN unit.nofile ELSE @]
         ELSE [p EXCEPT !.lower = unit.nofile < p.soft], m)

(***************************************************************************)
(* lid_brick()                                                             *)
(***************************************************************************)
MakePrivate_Skipped ==
  Step("private", unit.brick, Admin(0, {"mount"}), p, m)

MakePrivate ==
  Step("private", unit.brick, Admin(0, {"mount"}), p, [m EXCEPT !.private = "mnt" \in p.ns])

\* The image, the loop control and the loop device: LoopAttach has the retries.
MountBrick ==
  Step("brick", unit.brick, Admin(3, {"openat", "ioctl", "mount", "close"}), p,
       Mounted([m EXCEPT !.stack = Append(@, "erofs")]))

MountStore ==
  Step("store", unit.brick /\ unit.layer = "sized",
       Admin(3, {"openat", "ioctl", "mount", "close", "write"}), p, Mounted([m EXCEPT !.store = TRUE]))

MountLayer ==
  Step("overlay", unit.brick /\ unit.layer # "none", Admin(0, {"mount", "write"}), p,
       Mounted([m EXCEPT !.stack = Append(@, "overlay"), !.upper = IF m.store THEN "store" ELSE "host"]))

Binds ==
  Step("binds", unit.brick, Admin(0, {"newfstatat", "mount"}), p,
       Mounted([m EXCEPT !.binds = [i \in 1..Len(unit.binds) |-> BindMount(unit.binds[i])]]))

\* pivot_root(".", "."), and the old root detached through its descriptor.
Pivot ==
  Step("pivot", unit.brick,
       Admin(2, {"openat", "fchdir", "pivot_root", "mount", "umount2", "close", "chdir", "write"}), p,
       [m EXCEPT !.root = "brick", !.old = TRUE])

(***************************************************************************)
(* lid_landlock(), apply_capabilities(), the rest                          *)
(***************************************************************************)
Rules ==
  {Beneath("root", RootAccess(kernel.abi))}
  \union {Beneath(Resolve(unit.binds[i]), rw(kernel.abi)) : i \in 1..Len(unit.binds)}

\* The ruleset and one path at a time.
Landlock ==
  LET n == Uses({}, 2, FALSE, {"landlock", "openat", "fstat", "prctl", "close", "write"})
      good == \A r \in Rules : RuleTaken(r, kernel.abi)
  IN  /\ At("landlock")
      /\ \/ "landlock" \notin unit.lids /\ k' = k + 1 /\ UNCHANGED <<ll, end>>
         \/ /\ "landlock" \in unit.lids
            /\ IF Has(n) /\ good
                 THEN /\ k' = k + 1 /\ ll' = [handled |-> Handled(kernel.abi), rules |-> Rules]
                      /\ UNCHANGED end
                 ELSE end' = "lacking" /\ UNCHANGED <<k, ll>>
         \/ "landlock" \in unit.lids /\ "landlock" \in Refusals /\ end' = "refused" /\ UNCHANGED <<k, ll>>
      /\ UNCHANGED <<unit, kernel, gen, p, m>>

\* The bounding set bit by bit up to the kernel's last, then the three sets.
Capabilities ==
  Step("capabilities", TRUE, Uses({Setpcap}, 0, FALSE, {"prctl", "capget", "capset"}),
       [p EXCEPT !.bset = @ \ ((0..p.last) \ unit.caps), !.caps = @ \intersect unit.caps], m)

NofileLower ==
  Step("lower", p.lower, Plain({"prlimit64"}), [p EXCEPT !.soft = unit.nofile], m)

Seccomp ==
  Step("seccomp", "seccomp" \in unit.lids, Plain({"prctl"}), [p EXCEPT !.calls = Filter(strict_allow)], m)

\* A right that the domain handles is had only where a rule gives it; the rule
\* of the root is above every path.
May(at, right) ==
  right \in ll.handled => \E r \in ll.rules : r.at \in {"root", at} /\ right \in r.access

\* execv(): a root process starts with what its bounding set leaves it.
Exec ==
  /\ At("exec")
  /\ end' = IF "execve" \in p.calls /\ May("root", "EXECUTE") THEN "exec" ELSE "lacking"
  /\ p' = [p EXCEPT !.caps = p.bset]
  /\ UNCHANGED <<unit, kernel, gen, k, m, ll>>

ExecRefused ==
  /\ At("exec") /\ "exec" \in Refusals /\ end' = "refused"
  /\ UNCHANGED <<unit, kernel, gen, k, p, m, ll>>

\* A child that has ended is replaced by one cloned from nw-sup, whose
\* wait_house() has left SIGCHLD blocked.  A failure before the clone is
\* nw-sup's own end.
Restart ==
  /\ end # "none" /\ k > LimitsAt /\ gen < Gens
  /\ gen' = gen + 1
  /\ k' = LimitsAt /\ end' = "none"
  /\ p' = Fresh(kernel, p.last, {"CHLD"}) /\ m' = Machine(m.leaked) /\ ll' = NoDomain
  /\ UNCHANGED <<unit, kernel>>

Next ==
  \/ ReadLast \/ Parent \/ NoController \/ LimitsWritten \/ Signals \/ NewNet \/ NewNs
  \/ CpuMask \/ SchedPolicy \/ Nice \/ OomScoreAdj \/ NofileRaise
  \/ MakePrivate \/ MountBrick \/ MountStore \/ MountLayer \/ Binds \/ Pivot
  \/ Landlock \/ Capabilities \/ NofileLower \/ Seccomp \/ Exec \/ ExecRefused \/ Restart

Spec == Init /\ [][Next]_vars
==============================================================================
