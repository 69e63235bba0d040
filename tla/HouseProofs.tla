------------------------------ MODULE HouseProofs ------------------------------
(***************************************************************************)
(* The lids of a house, for every unit, every kernel and any number of     *)
(* generations: the order of the child's steps is right, and a house that  *)
(* runs has everything declared in force.                                  *)
(***************************************************************************)
EXTENDS HouseProps, SequenceTheorems, TLAPS

(***************************************************************************)
(* The filter and the order                                                *)
(***************************************************************************)
LEMMA AllowLength == Len(strict_allow) = 35
  BY DEF strict_allow

(* Every comparison of the filter jumps to the instruction that allows. *)
LEMMA FilterAllows == Filter(strict_allow) = AllowList
<1>1. \A j \in 1..35 : (35 - j + 1) % 256 = 35 - j + 1
  OBVIOUS
<1>2. \A j \in 1..35 : j + 1 + Offset(35, j) = 37
  BY <1>1 DEF Offset
<1> QED
  BY <1>2, AllowLength DEF Filter, AllowList

LEMMA AllowHas == {"openat", "read", "close", "write", "execve", "fstat", "newfstatat", "prlimit64"} \subseteq AllowList
<1>1. /\ strict_allow[1] = "read" /\ strict_allow[2] = "write" /\ strict_allow[3] = "close"
      /\ strict_allow[17] = "execve" /\ strict_allow[19] = "openat" /\ strict_allow[20] = "newfstatat"
      /\ strict_allow[21] = "fstat" /\ strict_allow[29] = "prlimit64"
  BY DEF strict_allow
<1> QED
  BY <1>1, AllowLength DEF AllowList

(* Every call that a step makes exists. *)
LEMMA CallsKnown ==
  /\ SetupCalls \subseteq Syscalls /\ AllowList \subseteq Syscalls
  /\ {"openat", "read", "close", "write", "execve", "fstat", "newfstatat", "prlimit64"} \subseteq Syscalls
  BY AllowHas DEF Syscalls

LEMMA OrderPlaces ==
  /\ Len(Order) = 22
  /\ Order[1] = "last" /\ Order[2] = "parent" /\ Order[3] = "limits" /\ Order[4] = "signals"
  /\ Order[5] = "newnet" /\ Order[6] = "newns" /\ Order[7] = "cpu" /\ Order[8] = "sched"
  /\ Order[9] = "nice" /\ Order[10] = "oom" /\ Order[11] = "raise" /\ Order[12] = "private"
  /\ Order[13] = "brick" /\ Order[14] = "store" /\ Order[15] = "overlay" /\ Order[16] = "binds"
  /\ Order[17] = "pivot" /\ Order[18] = "landlock" /\ Order[19] = "capabilities"
  /\ Order[20] = "lower" /\ Order[21] = "seccomp" /\ Order[22] = "exec"
  BY DEF Order

(* Where a child is when it takes a step. *)
LEMMA StepAt ==
  ASSUME HouseInv
  PROVE  /\ At("last") => k = 1
         /\ At("parent") => k = 2
         /\ At("limits") => k = 3
         /\ At("signals") => k = 4
         /\ At("newnet") => k = 5
         /\ At("newns") => k = 6
         /\ At("cpu") => k = 7
         /\ At("sched") => k = 8
         /\ At("nice") => k = 9
         /\ At("oom") => k = 10
         /\ At("raise") => k = 11
         /\ At("private") => k = 12
         /\ At("brick") => k = 13
         /\ At("store") => k = 14
         /\ At("overlay") => k = 15
         /\ At("binds") => k = 16
         /\ At("pivot") => k = 17
         /\ At("landlock") => k = 18
         /\ At("capabilities") => k = 19
         /\ At("lower") => k = 20
         /\ At("seccomp") => k = 21
         /\ At("exec") => k = 22
<1>1. k \in 1..22
  BY OrderPlaces DEF HouseInv, HouseType
<1>2. \/ k = 1 \/ k = 2 \/ k = 3 \/ k = 4 \/ k = 5 \/ k = 6 \/ k = 7 \/ k = 8 \/ k = 9 \/ k = 10 \/ k = 11
      \/ k = 12 \/ k = 13 \/ k = 14 \/ k = 15 \/ k = 16 \/ k = 17 \/ k = 18 \/ k = 19 \/ k = 20 \/ k = 21
      \/ k = 22
  BY <1>1
<1> QED
  BY <1>2, OrderPlaces DEF At

(***************************************************************************)
(* Steps                                                                   *)
(***************************************************************************)
LEMMA KernelFacts ==
  ASSUME HouseInv
  PROVE  /\ kernel.last \in 24..63 /\ kernel.last \in Nat /\ kernel.soft \in Nat /\ kernel.hard \in Nat
         /\ OpenAtStart \in Nat /\ OpenAtStart + 3 <= kernel.soft
         /\ k \in 1..22 /\ p \in Procs /\ m \in Views /\ Validated(unit, kernel)
<1>1. kernel \in Kernels /\ k \in 1..22 /\ p \in Procs /\ m \in Views /\ Validated(unit, kernel)
  BY OrderPlaces DEF HouseInv, HouseType
<1>2. kernel.last \in 24..63
  BY <1>1, HouseAssumption DEF SysResource
<1> QED
  BY <1>1, <1>2, HouseAssumption

(* What a step uses is there: the capabilities up to where they are        *)
(* dropped, the descriptors up to where nofile is lowered, the machine's   *)
(* paths up to the pivot, mounts up to the domain, calls up to the filter. *)
LEMMA HasIt ==
  ASSUME HouseInv,
         NEW caps \in SUBSET {Setpcap, SysAdmin, SysNice, SysResource}, NEW fds \in 0..3,
         NEW machine \in BOOLEAN, NEW calls \in SUBSET Syscalls,
         k <= 21, caps = {} \/ k <= 19, fds = 0 \/ k <= 20, ~machine \/ k <= 17, "mount" \notin calls \/ k <= 18
  PROVE  Has(Uses(caps, fds, machine, calls))
<1> DEFINE n == Uses(caps, fds, machine, calls)
<1>1. k \in 1..22 /\ p \in Procs /\ kernel \in Kernels
  BY OrderPlaces DEF HouseInv, HouseType
<1>2. n.caps = caps /\ n.fds = fds /\ n.machine = machine /\ n.calls = calls
  BY DEF Uses
<1>3. caps \subseteq p.caps
  <2>1. k <= 19 => p.caps = 0..kernel.last
    BY <1>1 DEF HouseInv, ProcessAt
  <2>2. kernel.last \in 24..63
    BY <1>1, HouseAssumption DEF SysResource
  <2>3. \A c \in caps : c \in 0..kernel.last
    BY <2>2 DEF Setpcap, SysAdmin, SysNice, SysResource
  <2>4. CASE k <= 19
    BY <2>1, <2>3, <2>4
  <2>5. CASE caps = {}
    BY <2>5
  <2> QED
    BY <2>4, <2>5
<1>4. fds > 0 => OpenAtStart + fds <= p.soft
  <2>1. k <= 20 => p.soft >= kernel.soft
    BY DEF HouseInv, ProcessAt
  <2>2. OpenAtStart + 3 <= kernel.soft /\ OpenAtStart \in Nat /\ kernel.soft \in Nat /\ p.soft \in Nat
    BY <1>1, HouseAssumption DEF Procs
  <2> QED
    BY <2>1, <2>2
<1>5. machine => m.root = "machine"
  BY <1>1 DEF HouseInv, ViewAt
<1>6. calls \subseteq p.calls
  BY <1>1 DEF HouseInv, ProcessAt
<1>7. "mount" \in calls => ll.handled = {}
  BY <1>1 DEF HouseInv, DomainAt, NoDomain
<1> QED
  BY <1>2, <1>3, <1>4, <1>5, <1>6, <1>7 DEF Has

LEMMA HasPlain ==
  ASSUME HouseInv, NEW calls \in SUBSET Syscalls, k <= 21, "mount" \notin calls
  PROVE  Has(Plain(calls))
<1>1. {} \in SUBSET {Setpcap, SysAdmin, SysNice, SysResource} /\ 0 \in 0..3 /\ FALSE \in BOOLEAN
  OBVIOUS
<1> QED
  BY <1>1, HasIt DEF Plain

LEMMA HasProc ==
  ASSUME HouseInv, NEW calls \in SUBSET Syscalls, k <= 17, "mount" \notin calls
  PROVE  Has(Proc(1, calls))
<1>1. {} \in SUBSET {Setpcap, SysAdmin, SysNice, SysResource} /\ 1 \in 0..3 /\ TRUE \in BOOLEAN
  OBVIOUS
<1>2. k <= 20 /\ k <= 21
  BY KernelFacts
<1> QED
  BY <1>1, <1>2, HasIt DEF Proc

LEMMA HasAdmin ==
  ASSUME HouseInv, NEW fds \in 0..3, NEW machine \in BOOLEAN, NEW calls \in SUBSET Syscalls, k <= 17
  PROVE  Has(Uses({SysAdmin}, fds, machine, calls))
<1>1. {SysAdmin} \in SUBSET {Setpcap, SysAdmin, SysNice, SysResource}
  OBVIOUS
<1>2. k <= 18 /\ k <= 19 /\ k <= 20 /\ k <= 21
  BY KernelFacts
<1> QED
  BY <1>1, <1>2, HasIt

(* A step that the kernel refuses. *)
LEMMA Refused ==
  ASSUME HouseInv, end' = "refused", UNCHANGED <<unit, kernel, k, p, m, ll>>
  PROVE  HouseInv'
<1>1. HouseType'
  BY DEF HouseInv, HouseType, Views, BindsMade
<1>2. ProcessAt' /\ ViewAt' /\ DomainAt'
  BY DEF HouseInv, ProcessAt, ViewAt, DomainAt, BindsMade, BindRules
<1> QED
  BY <1>1, <1>2 DEF HouseInv

(* A step that changes the process only. *)
LEMMA ProcessStep ==
  ASSUME HouseInv, k' = k + 1, k < 22, end = "none", UNCHANGED <<unit, kernel, m, ll, end>>,
         k \notin 12..18, p' \in Procs, ProcessAt'
  PROVE  HouseInv'
<1>1. k \in 1..22
  BY OrderPlaces DEF HouseInv, HouseType
<1>2. HouseType'
  BY <1>1, OrderPlaces DEF HouseInv, HouseType, Views, BindsMade
<1>3. ViewAt'
  BY <1>1 DEF HouseInv, ViewAt, BindsMade
<1>4. DomainAt'
  BY <1>1 DEF HouseInv, DomainAt, BindRules
<1> QED
  BY <1>2, <1>3, <1>4 DEF HouseInv

(* A step that changes the mounts only. *)
LEMMA MountStep ==
  ASSUME HouseInv, k' = k + 1, end = "none", UNCHANGED <<unit, kernel, p, end>>,
         k \in 12..18, m' \in Views, ViewAt', DomainAt'
  PROVE  HouseInv'
<1>1. HouseType'
  BY OrderPlaces DEF HouseInv, HouseType, Views, BindsMade
<1>2. \A s \in Settings : SetAt[s] <= 10 /\ SetAt[s] \in Nat
  BY DEF Settings, SetAt
<1>3. ProcessAt'
  <2>1. k \in Nat /\ k > 11 /\ k < 19 /\ k' > 11 /\ k' <= 19 /\ k' \in Nat
    OBVIOUS
  <2>2. /\ p'.last = kernel'.last /\ p'.limits = unit'.limits /\ p'.mask = {} /\ p'.term = "default"
        /\ "net" \in p'.ns <=> "newnet" \in unit'.lids
        /\ "mnt" \in p'.ns <=> "newns" \in unit'.lids
    BY <2>1 DEF HouseInv, ProcessAt
  <2>3. \A s \in Settings : s \in p'.set <=> s \in unit'.settings
    BY <1>2, <2>1 DEF HouseInv, ProcessAt
  <2>4. /\ p'.soft >= kernel'.soft
        /\ unit'.nofile > 0 => p'.soft = unit'.nofile \/ p'.lower
    BY <2>1 DEF HouseInv, ProcessAt
  <2>5. p'.bset = 0..kernel'.last /\ p'.caps = p'.bset /\ p'.calls = Syscalls
    BY <2>1 DEF HouseInv, ProcessAt
  <2>6. \A s \in Settings : k' > SetAt[s]
    BY <1>2, <2>1
  <2> QED
    BY <2>1, <2>2, <2>3, <2>4, <2>5, <2>6 DEF ProcessAt
<1> QED
  BY <1>1, <1>3 DEF HouseInv

(***************************************************************************)
(* The steps that change the process                                       *)
(***************************************************************************)
LEMMA SetPlaces ==
  /\ Settings = {"cpu", "sched", "nice", "oom"}
  /\ SetAt["cpu"] = 7 /\ SetAt["sched"] = 8 /\ SetAt["nice"] = 9 /\ SetAt["oom"] = 10
  BY DEF Settings, SetAt

LEMMA ReadLastKeeps ==
  ASSUME HouseInv, ReadLast
  PROVE  HouseInv'
<1>1. k = 1 /\ end = "none"
  BY StepAt DEF ReadLast, Step, At
<1>2. Has(Proc(1, {"openat", "read", "close"}))
  <2>1. {"openat", "read", "close"} \subseteq Syscalls
    BY CallsKnown
  <2> QED
    BY <1>1, <2>1, HasProc
<1>3. CASE end' = "refused" /\ UNCHANGED <<k, p, m>>
  BY <1>3, Refused DEF ReadLast, Step
<1>4. CASE k' = k + 1 /\ p' = [p EXCEPT !.last = kernel.last] /\ m' = m /\ end' = end
  <2>1. kernel.last \in Nat
    BY KernelFacts
  <2>2. p' \in Procs
    BY <1>4, <2>1 DEF HouseInv, HouseType, Procs
  <2>3. ProcessAt'
    BY <1>1, <1>4, SetPlaces DEF ReadLast, Step, HouseInv, HouseType, Procs, ProcessAt
  <2> QED
    BY <1>1, <1>4, <2>2, <2>3, ProcessStep DEF ReadLast, Step
<1> QED
  BY <1>2, <1>3, <1>4 DEF ReadLast, Step

LEMMA ParentKeeps ==
  ASSUME HouseInv, Parent
  PROVE  HouseInv'
<1>1. k = 2 /\ end = "none"
  BY StepAt DEF Parent, Step, At
<1>2. Has(Proc(1, {"mkdir", "openat", "write", "close"}))
  <2>1. {"mkdir", "openat", "write", "close"} \subseteq Syscalls
    BY CallsKnown DEF SetupCalls
  <2> QED
    BY <1>1, <2>1, HasProc
<1>3. CASE end' = "refused" /\ UNCHANGED <<k, p, m>>
  BY <1>3, Refused DEF Parent, Step
<1>4. CASE k' = k + 1 /\ UNCHANGED <<p, m, end>>
  <2>1. p' \in Procs
    BY <1>4 DEF HouseInv, HouseType
  <2>2. ProcessAt'
    BY <1>1, <1>4, SetPlaces DEF Parent, Step, HouseInv, HouseType, Procs, ProcessAt
  <2> QED
    BY <1>1, <1>4, <2>1, <2>2, ProcessStep DEF Parent, Step
<1> QED
  BY <1>2, <1>3, <1>4 DEF Parent, Step

LEMMA LimitsKeeps ==
  ASSUME HouseInv, LimitsWritten
  PROVE  HouseInv'
<1>1. k = 3 /\ end = "none"
  BY StepAt DEF LimitsWritten, At
<1>2. CASE end' = "refused" /\ UNCHANGED <<k, p>>
  BY <1>2, Refused DEF LimitsWritten
<1>3. CASE k' = k + 1 /\ p' = [p EXCEPT !.limits = unit.limits] /\ end' = end
  <2>1. unit.limits \in SUBSET Limits
    BY DEF HouseInv, HouseType, Validated
  <2>2. p' \in Procs
    BY <1>3, <2>1 DEF HouseInv, HouseType, Procs
  <2>3. ProcessAt'
    BY <1>1, <1>3, SetPlaces DEF LimitsWritten, HouseInv, HouseType, Procs, ProcessAt
  <2> QED
    BY <1>1, <1>3, <2>2, <2>3, ProcessStep DEF LimitsWritten
<1> QED
  BY <1>2, <1>3 DEF LimitsWritten, TakeLimits

LEMMA SignalsKeeps ==
  ASSUME HouseInv, Signals
  PROVE  HouseInv'
<1>1. k = 4 /\ end = "none"
  BY StepAt DEF Signals, Step, At
<1>2. Has(Plain({"rt_sigaction", "rt_sigprocmask"}))
  <2>1. {"rt_sigaction", "rt_sigprocmask"} \subseteq Syscalls
    BY CallsKnown DEF SetupCalls
  <2> QED
    BY <1>1, <2>1, HasPlain
<1>3. CASE end' = "refused" /\ UNCHANGED <<k, p, m>>
  BY <1>3, Refused DEF Signals, Step
<1>4. CASE k' = k + 1 /\ p' = [p EXCEPT !.term = "default", !.mask = {}] /\ m' = m /\ end' = end
  <2>1. p' \in Procs
    BY <1>4 DEF HouseInv, HouseType, Procs
  <2>2. ProcessAt'
    BY <1>1, <1>4, SetPlaces DEF Signals, Step, HouseInv, HouseType, Procs, ProcessAt
  <2> QED
    BY <1>1, <1>4, <2>1, <2>2, ProcessStep DEF Signals, Step
<1> QED
  BY <1>2, <1>3, <1>4 DEF Signals, Step

LEMMA NamespaceKeeps ==
  ASSUME HouseInv, NewNet \/ NewNs
  PROVE  HouseInv'
<1>1. k = 5 \/ k = 6
  BY StepAt DEF NewNet, NewNs, Step
<1>2. end = "none" /\ (NewNet => k = 5) /\ (NewNs => k = 6)
  BY StepAt DEF NewNet, NewNs, Step, At
<1>3. Has(Uses({SysAdmin}, 0, FALSE, {"unshare", "write"}))
  <2>1. {"unshare", "write"} \subseteq Syscalls
    BY CallsKnown DEF SetupCalls
  <2> QED
    <3>1. 0 \in 0..3 /\ FALSE \in BOOLEAN /\ k <= 17
      BY <1>1
    <3> QED
      BY <2>1, <3>1, HasAdmin
<1>4. CASE end' = "refused" /\ UNCHANGED <<k, p, m>>
  BY <1>4, Refused DEF NewNet, NewNs, Step
<1>5. UNCHANGED <<unit, kernel, ll>> /\ k < 22 /\ k <= 17 /\ k \notin 12..18
  <2>1. UNCHANGED <<unit, kernel, ll>>
    BY DEF NewNet, NewNs, Step
  <2>2. k < 22 /\ k <= 17 /\ k \notin 12..18
    BY <1>1
  <2> QED
    BY <2>1, <2>2
<1>6. CASE UNCHANGED <<p, m, end>> /\ k' = k + 1
           /\ (NewNet => "newnet" \notin unit.lids) /\ (NewNs => "newns" \notin unit.lids)
  <2>1. p' \in Procs
    BY <1>6 DEF HouseInv, HouseType
  <2>2. ProcessAt'
    BY <1>2, <1>6, <1>5, SetPlaces DEF HouseInv, HouseType, Procs, ProcessAt
  <2> QED
    BY <1>2, <1>6, <1>5, <2>1, <2>2, ProcessStep
<1>7. CASE /\ k' = k + 1 /\ m' = m /\ end' = end
           /\ \/ k = 5 /\ "newnet" \in unit.lids /\ p' = [p EXCEPT !.ns = @ \union {"net"}]
              \/ k = 6 /\ "newns" \in unit.lids /\ p' = [p EXCEPT !.ns = @ \union {"mnt"}]
  <2>1. p \in Procs
    BY KernelFacts
  <2>2. p' \in Procs
    BY <1>7, <2>1 DEF Procs
  <2>3. /\ p'.last = p.last /\ p'.mask = p.mask /\ p'.term = p.term /\ p'.set = p.set /\ p'.limits = p.limits
        /\ p'.soft = p.soft /\ p'.lower = p.lower /\ p'.caps = p.caps /\ p'.bset = p.bset
        /\ p'.calls = p.calls
    BY <1>7, <2>1 DEF Procs
  <2>4. /\ k = 5 => p'.ns = p.ns \union {"net"} /\ "newnet" \in unit.lids
        /\ k = 6 => p'.ns = p.ns \union {"mnt"} /\ "newns" \in unit.lids
    BY <1>7, <2>1 DEF Procs
  <2>5. ProcessAt'
    <3>1. k' = k + 1 /\ k' \in {6, 7} /\ UNCHANGED <<unit, kernel>>
      BY <1>1, <1>5, <1>7
    <3>2. /\ p'.last = kernel'.last /\ p'.limits = unit'.limits
          /\ p'.mask = {} /\ p'.term = "default"
      BY <1>1, <2>3, <3>1 DEF HouseInv, ProcessAt
    <3>3. /\ "net" \in p'.ns <=> k' > 5 /\ "newnet" \in unit'.lids
          /\ "mnt" \in p'.ns <=> k' > 6 /\ "newns" \in unit'.lids
      BY <1>1, <2>4, <3>1 DEF HouseInv, ProcessAt
    <3>4. \A s \in Settings : s \notin p'.set /\ ~(k' > SetAt[s])
      BY <1>1, <2>3, <3>1, SetPlaces DEF HouseInv, ProcessAt
    <3>5. p'.soft = kernel'.soft /\ ~p'.lower /\ p'.soft >= kernel'.soft
      BY <1>1, <2>3, <3>1 DEF HouseInv, ProcessAt
    <3>6. p'.bset = 0..kernel'.last /\ p'.caps = p'.bset /\ p'.calls = Syscalls
      BY <1>1, <2>3, <3>1 DEF HouseInv, ProcessAt
    <3> QED
      BY <3>1, <3>2, <3>3, <3>4, <3>5, <3>6 DEF ProcessAt
  <2> QED
    BY <1>2, <1>7, <1>5, <2>2, <2>5, ProcessStep
<1> QED
  BY <1>2, <1>3, <1>4, <1>6, <1>7 DEF NewNet, NewNs, Step

(* CPU mask, scheduling policy, nice and the OOM score, each in its place. *)
LEMMA SettingKeeps ==
  ASSUME HouseInv, NEW s \in Settings, k = SetAt[s], end = "none", UNCHANGED <<unit, kernel, gen, ll>>,
         \/ end' = "refused" /\ UNCHANGED <<k, p, m>>
         \/ s \notin unit.settings /\ k' = k + 1 /\ UNCHANGED <<p, m, end>>
         \/ s \in unit.settings /\ k' = k + 1 /\ p' = [p EXCEPT !.set = @ \union {s}] /\ UNCHANGED <<m, end>>
  PROVE  HouseInv'
<1>1. p \in Procs /\ k \in 7..10
  BY KernelFacts, SetPlaces
<1>2. \A t \in Settings : SetAt[t] = SetAt[s] => t = s
  BY SetPlaces
<1>3. \A t \in Settings : SetAt[t] \in Int
  BY SetPlaces
<1>4. CASE end' = "refused" /\ UNCHANGED <<k, p, m>>
  BY <1>4, Refused
<1>5. CASE k' = k + 1 /\ p' \in Procs /\ UNCHANGED <<m, end>>
           /\ p'.last = p.last /\ p'.mask = p.mask /\ p'.term = p.term /\ p'.ns = p.ns /\ p'.limits = p.limits
           /\ p'.soft = p.soft /\ p'.lower = p.lower /\ p'.caps = p.caps /\ p'.bset = p.bset
           /\ p'.calls = p.calls
           /\ \A t \in Settings : t \in p'.set <=> t \in p.set \/ (t = s /\ s \in unit.settings)
  <2>1. \A t \in Settings : t \in p'.set <=> k + 1 > SetAt[t] /\ t \in unit.settings
    <3> SUFFICES ASSUME NEW t \in Settings
                 PROVE  t \in p'.set <=> k + 1 > SetAt[t] /\ t \in unit.settings
      OBVIOUS
    <3>1. t \in p.set <=> k > SetAt[t] /\ t \in unit.settings
      BY DEF HouseInv, ProcessAt
    <3> QED
      BY <1>1, <1>2, <1>3, <1>5, <3>1
  <2>2. ProcessAt'
    BY <1>1, <1>5, <2>1 DEF HouseInv, ProcessAt
  <2>3. k < 22 /\ k \notin 12..18
    BY <1>1
  <2> QED
    BY <1>5, <2>2, <2>3, ProcessStep
<1>6. CASE s \notin unit.settings /\ k' = k + 1 /\ UNCHANGED <<p, m, end>>
  BY <1>1, <1>5, <1>6
<1>7. CASE s \in unit.settings /\ k' = k + 1 /\ p' = [p EXCEPT !.set = @ \union {s}] /\ UNCHANGED <<m, end>>
  <2>1. /\ p' \in Procs
        /\ p'.last = p.last /\ p'.mask = p.mask /\ p'.term = p.term /\ p'.ns = p.ns /\ p'.limits = p.limits
        /\ p'.soft = p.soft /\ p'.lower = p.lower /\ p'.caps = p.caps /\ p'.bset = p.bset
        /\ p'.calls = p.calls
    BY <1>1, <1>7 DEF Procs
  <2>2. p'.set = p.set \union {s}
    BY <1>1, <1>7 DEF Procs
  <2> QED
    BY <1>5, <1>7, <2>1, <2>2
<1> QED
  BY <1>4, <1>6, <1>7

LEMMA SettingsKeep ==
  ASSUME HouseInv, CpuMask \/ SchedPolicy \/ Nice \/ OomScoreAdj
  PROVE  HouseInv'
<1>1. CASE CpuMask
  <2>1. k = 7 /\ end = "none"
    BY <1>1, StepAt DEF CpuMask, Setting, Step, At
  <2>2. {"sched_setaffinity"} \subseteq Syscalls
    BY CallsKnown DEF SetupCalls
  <2>3. Has(Plain({"sched_setaffinity"}))
    BY <2>1, <2>2, HasPlain
  <2> QED
    BY <1>1, <2>1, <2>3, SetPlaces, SettingKeeps DEF CpuMask, Setting, Step
<1>2. CASE SchedPolicy
  <2>1. k = 8 /\ end = "none"
    BY <1>2, StepAt DEF SchedPolicy, Setting, Step, At
  <2>2. {"sched_setscheduler"} \subseteq Syscalls
    BY CallsKnown DEF SetupCalls
  <2>3. Has(Plain({"sched_setscheduler"}))
    BY <2>1, <2>2, HasPlain
  <2> QED
    BY <1>2, <2>1, <2>3, SetPlaces, SettingKeeps DEF SchedPolicy, Setting, Step
<1>3. CASE Nice
  <2>1. k = 9 /\ end = "none"
    BY <1>3, StepAt DEF Nice, Setting, Step, At
  <2>2. {"setpriority"} \in SUBSET Syscalls /\ {SysNice} \in SUBSET {Setpcap, SysAdmin, SysNice, SysResource}
        /\ 0 \in 0..3 /\ FALSE \in BOOLEAN /\ k <= 21 /\ k <= 19 /\ k <= 18
    BY <2>1, CallsKnown DEF SetupCalls
  <2>3. Has(Uses({SysNice}, 0, FALSE, {"setpriority"}))
    BY <2>2, HasIt
  <2> QED
    BY <1>3, <2>1, <2>3, SetPlaces, SettingKeeps DEF Nice, Setting, Step
<1>4. CASE OomScoreAdj
  <2>1. k = 10 /\ end = "none"
    BY <1>4, StepAt DEF OomScoreAdj, Setting, Step, At
  <2>2. {"openat", "write", "close"} \in SUBSET Syscalls
        /\ {SysResource} \in SUBSET {Setpcap, SysAdmin, SysNice, SysResource}
        /\ 1 \in 0..3 /\ TRUE \in BOOLEAN /\ k <= 21 /\ k <= 20 /\ k <= 19 /\ k <= 18 /\ k <= 17
    BY <2>1, CallsKnown
  <2>3. Has(Uses({SysResource}, 1, TRUE, {"openat", "write", "close"}))
    BY <2>2, HasIt
  <2> QED
    BY <1>4, <2>1, <2>3, SetPlaces, SettingKeeps DEF OomScoreAdj, Setting, Step
<1> QED
  BY <1>1, <1>2, <1>3, <1>4

(* nofile: raised here, or noted for later. *)
LEMMA RaiseKeeps ==
  ASSUME HouseInv, NofileRaise
  PROVE  HouseInv'
<1>1. k = 11 /\ end = "none" /\ p \in Procs
  BY KernelFacts, StepAt DEF NofileRaise, Step, At
<1>2. Has(Raising)
  <2>1. {"prlimit64"} \in SUBSET Syscalls /\ 0 \in 0..3 /\ FALSE \in BOOLEAN /\ k <= 21 /\ k <= 19 /\ k <= 18
        /\ (IF unit.nofile > p.hard THEN {SysResource} ELSE {}) \in SUBSET {Setpcap, SysAdmin, SysNice, SysResource}
    BY <1>1, CallsKnown
  <2> QED
    BY <2>1, HasIt DEF Raising
<1>3. unit.nofile \in Nat /\ p.soft \in Nat /\ kernel.soft \in Nat /\ p.soft = kernel.soft /\ ~p.lower
  BY <1>1, KernelFacts DEF Validated, Procs, HouseInv, ProcessAt
<1>4. UNCHANGED <<unit, kernel, ll>> /\ k < 22 /\ k \notin 12..18
  BY <1>1 DEF NofileRaise, Step
<1>5. CASE end' = "refused" /\ UNCHANGED <<k, p, m>>
  BY <1>4, <1>5, Refused
<1>6. CASE k' = k + 1 /\ p' \in Procs /\ UNCHANGED <<m, end>>
           /\ p'.last = p.last /\ p'.mask = p.mask /\ p'.term = p.term /\ p'.ns = p.ns /\ p'.limits = p.limits
           /\ p'.set = p.set /\ p'.caps = p.caps /\ p'.bset = p.bset /\ p'.calls = p.calls
           /\ p'.soft >= kernel.soft
           /\ (unit.nofile > 0 => p'.soft = unit.nofile \/ p'.lower)
  <2>1. ProcessAt'
    BY <1>1, <1>3, <1>4, <1>6, SetPlaces DEF HouseInv, ProcessAt
  <2> QED
    BY <1>1, <1>4, <1>6, <2>1, ProcessStep
<1>7. CASE unit.nofile = 0 /\ k' = k + 1 /\ UNCHANGED <<p, m, end>>
  BY <1>1, <1>3, <1>6, <1>7
<1>8. CASE /\ unit.nofile > p.soft /\ k' = k + 1 /\ UNCHANGED <<m, end>>
           /\ p' = [p EXCEPT !.soft = unit.nofile, !.hard = IF unit.nofile > @ THEN unit.nofile ELSE @]
  <2>1. /\ p' \in Procs
        /\ p'.last = p.last /\ p'.mask = p.mask /\ p'.term = p.term /\ p'.ns = p.ns /\ p'.limits = p.limits
        /\ p'.set = p.set /\ p'.caps = p.caps /\ p'.bset = p.bset /\ p'.calls = p.calls
        /\ p'.soft = unit.nofile
    BY <1>1, <1>3, <1>8 DEF Procs
  <2> QED
    BY <1>3, <1>6, <1>8, <2>1
<1>9. CASE /\ ~(unit.nofile > p.soft) /\ k' = k + 1 /\ UNCHANGED <<m, end>>
           /\ p' = [p EXCEPT !.lower = unit.nofile < p.soft]
  <2>1. PICK b \in BOOLEAN : p' = [p EXCEPT !.lower = b] /\ (unit.nofile < p.soft => b)
    <3>1. CASE unit.nofile < p.soft
      <4>1. (unit.nofile < p.soft) = TRUE
        BY <3>1
      <4>2. p' = [p EXCEPT !.lower = TRUE]
        BY <1>9, <4>1
      <4> QED
        BY <4>2
    <3>2. CASE ~(unit.nofile < p.soft)
      <4>1. (unit.nofile < p.soft) = FALSE
        BY <3>2
      <4>2. p' = [p EXCEPT !.lower = FALSE]
        BY <1>9, <4>1
      <4> QED
        BY <3>2, <4>2
    <3> QED
      BY <3>1, <3>2
  <2>2. /\ p' \in Procs
        /\ p'.last = p.last /\ p'.mask = p.mask /\ p'.term = p.term /\ p'.ns = p.ns /\ p'.limits = p.limits
        /\ p'.set = p.set /\ p'.caps = p.caps /\ p'.bset = p.bset /\ p'.calls = p.calls
        /\ p'.soft = p.soft /\ p'.lower = b
    BY <1>1, <2>1 DEF Procs
  <2>3. unit.nofile < p.soft => b
    BY <2>1
  <2>4. p'.soft >= kernel.soft /\ (unit.nofile > 0 => p'.soft = unit.nofile \/ p'.lower)
    BY <1>3, <1>9, <2>2, <2>3
  <2> QED
    BY <1>6, <1>9, <2>2, <2>4
<1> QED
  BY <1>2, <1>3, <1>5, <1>7, <1>8, <1>9 DEF NofileRaise, Step

(* The bounding set is left with what is declared, bit by bit. *)
LEMMA CapabilitiesKeeps ==
  ASSUME HouseInv, Capabilities
  PROVE  HouseInv'
<1>1. k = 19 /\ end = "none" /\ p \in Procs
  BY KernelFacts, StepAt DEF Capabilities, Step, At
<1>2. Has(Uses({Setpcap}, 0, FALSE, {"prctl", "capget", "capset"}))
  <2>1. {"prctl", "capget", "capset"} \in SUBSET Syscalls /\ 0 \in 0..3 /\ FALSE \in BOOLEAN
        /\ {Setpcap} \in SUBSET {Setpcap, SysAdmin, SysNice, SysResource} /\ k <= 21 /\ k <= 19
    BY <1>1, CallsKnown DEF SetupCalls
  <2> QED
    BY <2>1, HasIt
<1>3. UNCHANGED <<unit, kernel, ll>> /\ k < 22 /\ k \notin 12..18
  BY <1>1 DEF Capabilities, Step
<1>4. CASE end' = "refused" /\ UNCHANGED <<k, p, m>>
  BY <1>3, <1>4, Refused
<1>5. CASE /\ k' = k + 1 /\ UNCHANGED <<m, end>>
           /\ p' = [p EXCEPT !.bset = @ \ ((0..p.last) \ unit.caps), !.caps = @ \intersect unit.caps]
  <2>1. /\ p' \in Procs
        /\ p'.last = p.last /\ p'.mask = p.mask /\ p'.term = p.term /\ p'.ns = p.ns /\ p'.limits = p.limits
        /\ p'.set = p.set /\ p'.soft = p.soft /\ p'.lower = p.lower /\ p'.calls = p.calls
    BY <1>1, <1>5 DEF Procs
  <2>2. p'.bset = p.bset \ ((0..p.last) \ unit.caps) /\ p'.caps = p.caps \intersect unit.caps
    BY <1>1, <1>5 DEF Procs
  <2>3. p.last = kernel.last /\ p.bset = 0..kernel.last /\ p.caps = 0..kernel.last
    BY <1>1 DEF HouseInv, ProcessAt
  <2>4. unit.caps \subseteq 0..kernel.last
    BY KernelFacts DEF Validated
  <2>5. p'.bset = unit.caps /\ p'.caps = unit.caps
    BY <2>2, <2>3, <2>4
  <2>6. ProcessAt'
    BY <1>1, <1>3, <1>5, <2>1, <2>5, SetPlaces DEF HouseInv, ProcessAt
  <2> QED
    BY <1>1, <1>3, <1>5, <2>1, <2>6, ProcessStep
<1> QED
  BY <1>2, <1>4, <1>5 DEF Capabilities, Step

LEMMA LowerKeeps ==
  ASSUME HouseInv, NofileLower
  PROVE  HouseInv'
<1>1. k = 20 /\ end = "none" /\ p \in Procs /\ unit.nofile \in Nat
  BY KernelFacts, StepAt DEF NofileLower, Step, At, Validated
<1>2. Has(Plain({"prlimit64"}))
  <2>1. {"prlimit64"} \in SUBSET Syscalls
    BY CallsKnown
  <2> QED
    BY <1>1, <2>1, HasPlain
<1>3. UNCHANGED <<unit, kernel, ll>> /\ k < 22 /\ k \notin 12..18
  BY <1>1 DEF NofileLower, Step
<1>4. CASE end' = "refused" /\ UNCHANGED <<k, p, m>>
  BY <1>3, <1>4, Refused
<1>5. CASE k' = k + 1 /\ p' \in Procs /\ UNCHANGED <<m, end>>
           /\ p'.last = p.last /\ p'.mask = p.mask /\ p'.term = p.term /\ p'.ns = p.ns /\ p'.limits = p.limits
           /\ p'.set = p.set /\ p'.caps = p.caps /\ p'.bset = p.bset /\ p'.calls = p.calls
           /\ (unit.nofile > 0 => p'.soft = unit.nofile)
  <2>1. ProcessAt'
    BY <1>1, <1>3, <1>5, SetPlaces DEF HouseInv, ProcessAt
  <2> QED
    BY <1>1, <1>3, <1>5, <2>1, ProcessStep
<1>6. CASE ~p.lower /\ k' = k + 1 /\ UNCHANGED <<p, m, end>>
  <2>1. unit.nofile > 0 => p.soft = unit.nofile
    BY <1>1, <1>6 DEF HouseInv, ProcessAt
  <2> QED
    BY <1>1, <1>5, <1>6, <2>1
<1>7. CASE p.lower /\ k' = k + 1 /\ p' = [p EXCEPT !.soft = unit.nofile] /\ UNCHANGED <<m, end>>
  <2>1. /\ p' \in Procs
        /\ p'.last = p.last /\ p'.mask = p.mask /\ p'.term = p.term /\ p'.ns = p.ns /\ p'.limits = p.limits
        /\ p'.set = p.set /\ p'.caps = p.caps /\ p'.bset = p.bset /\ p'.calls = p.calls
        /\ p'.soft = unit.nofile
    BY <1>1, <1>7 DEF Procs
  <2> QED
    BY <1>5, <1>7, <2>1
<1> QED
  BY <1>2, <1>4, <1>6, <1>7 DEF NofileLower, Step

LEMMA SeccompKeeps ==
  ASSUME HouseInv, Seccomp
  PROVE  HouseInv'
<1>1. k = 21 /\ end = "none" /\ p \in Procs
  BY KernelFacts, StepAt DEF Seccomp, Step, At
<1>2. Has(Plain({"prctl"}))
  <2>1. {"prctl"} \in SUBSET Syscalls
    BY CallsKnown DEF SetupCalls
  <2> QED
    BY <1>1, <2>1, HasPlain
<1>3. UNCHANGED <<unit, kernel, ll>> /\ k < 22 /\ k \notin 12..18
  BY <1>1 DEF Seccomp, Step
<1>4. CASE end' = "refused" /\ UNCHANGED <<k, p, m>>
  BY <1>3, <1>4, Refused
<1>5. CASE k' = k + 1 /\ p' \in Procs /\ UNCHANGED <<m, end>>
           /\ p'.last = p.last /\ p'.mask = p.mask /\ p'.term = p.term /\ p'.ns = p.ns /\ p'.limits = p.limits
           /\ p'.set = p.set /\ p'.soft = p.soft /\ p'.lower = p.lower /\ p'.caps = p.caps /\ p'.bset = p.bset
           /\ p'.calls = IF "seccomp" \in unit.lids THEN AllowList ELSE Syscalls
  <2>1. ProcessAt'
    BY <1>1, <1>3, <1>5, SetPlaces DEF HouseInv, ProcessAt
  <2> QED
    BY <1>1, <1>3, <1>5, <2>1, ProcessStep
<1>6. CASE "seccomp" \notin unit.lids /\ k' = k + 1 /\ UNCHANGED <<p, m, end>>
  <2>1. p.calls = Syscalls
    BY <1>1 DEF HouseInv, ProcessAt
  <2> QED
    BY <1>1, <1>5, <1>6, <2>1
<1>7. CASE /\ "seccomp" \in unit.lids /\ k' = k + 1 /\ UNCHANGED <<m, end>>
           /\ p' = [p EXCEPT !.calls = Filter(strict_allow)]
  <2>1. AllowList \in SUBSET Syscalls /\ p' = [p EXCEPT !.calls = AllowList]
    BY <1>7, FilterAllows, CallsKnown
  <2>2. /\ p' \in Procs
        /\ p'.last = p.last /\ p'.mask = p.mask /\ p'.term = p.term /\ p'.ns = p.ns /\ p'.limits = p.limits
        /\ p'.set = p.set /\ p'.soft = p.soft /\ p'.lower = p.lower /\ p'.caps = p.caps /\ p'.bset = p.bset
        /\ p'.calls = AllowList
    BY <1>1, <2>1 DEF Procs
  <2> QED
    BY <1>5, <1>7, <2>2
<1> QED
  BY <1>2, <1>4, <1>6, <1>7 DEF Seccomp, Step

(* execv() finds its call allowed and the root executable. *)
LEMMA ExecKeeps ==
  ASSUME HouseInv, Exec
  PROVE  HouseInv' /\ end' = "exec"
<1>1. k = 22 /\ end = "none" /\ p \in Procs /\ UNCHANGED <<unit, kernel, k, m, ll>>
  BY KernelFacts, StepAt DEF Exec, At
<1>2. "execve" \in p.calls
  BY <1>1, CallsKnown, AllowHas DEF HouseInv, ProcessAt
<1>3. "EXECUTE" \in Beneath("root", RootAccess(kernel.abi)).access
  BY DEF Beneath, RootAccess, ro, Handled, DirOnly
<1>4. Beneath("root", RootAccess(kernel.abi)).at = "root"
  BY DEF Beneath
<1>5. May("root", "EXECUTE")
  <2>1. CASE "landlock" \in unit.lids
    BY <1>1, <1>3, <1>4, <2>1 DEF HouseInv, DomainAt, BindRules, May
  <2>2. CASE "landlock" \notin unit.lids
    BY <1>1, <2>2 DEF HouseInv, DomainAt, NoDomain, May
  <2> QED
    BY <2>1, <2>2
<1>6. end' = "exec" /\ p' = [p EXCEPT !.caps = p.bset]
  BY <1>2, <1>5 DEF Exec
<1>7. p.caps = p.bset
  BY DEF HouseInv, ProcessAt
<1>8. p' = p
  BY <1>1, <1>6, <1>7 DEF Procs
<1>9. HouseType'
  BY <1>1, <1>6, <1>8, OrderPlaces DEF HouseInv, HouseType, Views, BindsMade
<1>10. ProcessAt' /\ ViewAt' /\ DomainAt'
  BY <1>1, <1>8 DEF HouseInv, ProcessAt, ViewAt, DomainAt, BindsMade, BindRules
<1> QED
  BY <1>6, <1>9, <1>10 DEF HouseInv

LEMMA RestartKeeps ==
  ASSUME HouseInv, Restart
  PROVE  HouseInv'
<1>1. UNCHANGED <<unit, kernel>> /\ k' = 3 /\ end' = "none" /\ p' = Fresh(kernel, kernel.last, {"CHLD"})
      /\ m' = Machine(m.leaked) /\ ll' = NoDomain
  <2>1. p.last = kernel.last
    <3>1. k \in 1..22 /\ k > 3
      BY KernelFacts DEF Restart, LimitsAt
    <3> QED
      BY <3>1 DEF HouseInv, ProcessAt
  <2> QED
    BY <2>1 DEF Restart, LimitsAt
<1>2. p' \in Procs
  BY <1>1, KernelFacts DEF Fresh, Procs
<1>3. /\ p'.last = kernel.last /\ p'.ns = {} /\ p'.set = {} /\ p'.limits = {} /\ p'.soft = kernel.soft
      /\ p'.lower = FALSE /\ p'.caps = 0..kernel.last /\ p'.bset = 0..kernel.last /\ p'.calls = Syscalls
  BY <1>1 DEF Fresh
<1>4. ProcessAt'
  BY <1>1, <1>3, KernelFacts, SetPlaces DEF ProcessAt
<1>5. /\ m' \in Views /\ m'.private = FALSE /\ m'.stack = <<>> /\ m'.store = FALSE /\ m'.binds = <<>>
      /\ m'.root = "machine" /\ m'.old = FALSE /\ m'.leaked = FALSE
  <2>1. m.leaked = FALSE
    BY KernelFacts DEF HouseInv, ViewAt, Views
  <2>2. m' = [private |-> FALSE, stack |-> <<>>, store |-> FALSE, upper |-> "none", binds |-> <<>>,
              root |-> "machine", old |-> FALSE, leaked |-> FALSE]
    BY <1>1, <2>1 DEF Machine
  <2> QED
    BY <2>2 DEF Views
<1>6. ViewAt' /\ DomainAt'
  BY <1>1, <1>5 DEF ViewAt, DomainAt
<1>7. HouseType'
  BY <1>1, <1>2, <1>5, OrderPlaces DEF HouseInv, HouseType, Views, BindsMade
<1> QED
  BY <1>4, <1>6, <1>7 DEF HouseInv

(***************************************************************************)
(* The steps that change the mounts                                        *)
(***************************************************************************)
(* Past the private copy of the mounts, a mount does not leak. *)
LEMMA MountedFacts ==
  ASSUME HouseInv, k \in 13..17, unit.brick, NEW new \in Views, new.leaked = m.leaked
  PROVE  /\ Mounted(new) \in Views
         /\ Mounted(new).private = new.private /\ Mounted(new).stack = new.stack
         /\ Mounted(new).store = new.store /\ Mounted(new).upper = new.upper
         /\ Mounted(new).binds = new.binds /\ Mounted(new).root = new.root
         /\ Mounted(new).old = new.old /\ Mounted(new).leaked = FALSE
<1>1. m.private /\ ~m.leaked /\ "newns" \in unit.lids
  BY KernelFacts DEF HouseInv, ViewAt, Validated
<1>2. "mnt" \in p.ns
  BY <1>1 DEF HouseInv, ProcessAt
<1>3. new.leaked = FALSE
  BY <1>1 DEF Views
<1>4. (new.leaked \/ ~m.private \/ "mnt" \notin p.ns) = FALSE
  BY <1>1, <1>2, <1>3
<1>5. Mounted(new) = [new EXCEPT !.leaked = FALSE]
  BY <1>4 DEF Mounted
<1> QED
  BY <1>5 DEF Views

LEMMA LayerOnBrick == Append(Brick, "overlay") = Layered
<1> DEFINE S == {"erofs", "overlay"}
<1>1. Brick \in Seq(S) /\ Len(Brick) = 1 /\ Brick[1] = "erofs"
  BY DEF Brick
<1>2. Layered \in Seq(S) /\ Len(Layered) = 2 /\ Layered[1] = "erofs" /\ Layered[2] = "overlay"
  BY DEF Layered
<1>3. "overlay" \in S
  OBVIOUS
<1> HIDE DEF S
<1>4. /\ Append(Brick, "overlay") \in Seq(S) /\ Len(Append(Brick, "overlay")) = 2
      /\ Append(Brick, "overlay")[1] = "erofs" /\ Append(Brick, "overlay")[2] = "overlay"
  <2>1. Append(Brick, "overlay") \in Seq(S)
    BY <1>1, <1>3
  <2>2. Len(Append(Brick, "overlay")) = Len(Brick) + 1
    BY <1>1, <1>3
  <2>3. Append(Brick, "overlay")[1] = Brick[1]
    BY <1>1, <1>3
  <2>4. Append(Brick, "overlay")[Len(Brick) + 1] = "overlay"
    <3>1. Brick \in Seq(S)
      BY <1>1
    <3> QED
      BY <1>3, <3>1
  <2> QED
    BY <1>1, <2>1, <2>2, <2>3, <2>4
<1>5. \A i \in 1..2 : Append(Brick, "overlay")[i] = Layered[i]
  BY <1>2, <1>4
<1> QED
  BY <1>2, <1>4, <1>5, SeqEqual

(* A unit without a brick passes these steps by. *)
LEMMA SkipMount ==
  ASSUME HouseInv, end = "none", k \in 12..17, k' = k + 1, UNCHANGED <<unit, kernel, ll, p, m, end>>,
         \/ ~unit.brick
         \/ k = 14 /\ unit.layer # "sized"
  PROVE  HouseInv'
<1>1. m' \in Views
  BY KernelFacts
<1>2. ~unit.brick => unit.layer = "none"
  BY KernelFacts DEF Validated
<1>3. ViewAt'
  BY <1>2 DEF HouseInv, ViewAt, BindsMade
<1>4. DomainAt'
  BY DEF HouseInv, DomainAt, BindRules
<1>5. k \in 12..18
  OBVIOUS
<1> QED
  BY <1>1, <1>3, <1>4, <1>5, MountStep

(* One that makes a mount. *)
LEMMA DoMount ==
  ASSUME HouseInv, end = "none", k \in 12..17, k' = k + 1, UNCHANGED <<unit, kernel, ll, p, end>>,
         m' \in Views, ViewAt'
  PROVE  HouseInv'
<1>1. DomainAt'
  BY DEF HouseInv, DomainAt, BindRules
<1>2. k \in 12..18
  OBVIOUS
<1> QED
  BY <1>1, <1>2, MountStep

LEMMA PrivateKeeps ==
  ASSUME HouseInv, MakePrivate
  PROVE  HouseInv'
<1>1. k = 12 /\ end = "none" /\ m \in Views /\ Validated(unit, kernel)
  BY KernelFacts, StepAt DEF MakePrivate, Step, At
<1>2. Has(Admin(0, {"mount"}))
  <2>1. {"mount"} \in SUBSET Syscalls /\ 0 \in 0..3 /\ TRUE \in BOOLEAN /\ k <= 17
    BY <1>1, CallsKnown DEF SetupCalls
  <2> QED
    BY <2>1, HasAdmin DEF Admin
<1>3. UNCHANGED <<unit, kernel, ll>> /\ k \in 12..17
  BY <1>1 DEF MakePrivate, Step
<1>4. CASE end' = "refused" /\ UNCHANGED <<k, p, m>>
  BY <1>3, <1>4, Refused
<1>5. CASE ~unit.brick /\ k' = k + 1 /\ UNCHANGED <<p, m, end>>
  BY <1>1, <1>3, <1>5, SkipMount
<1>6. CASE unit.brick /\ k' = k + 1 /\ m' = [m EXCEPT !.private = "mnt" \in p.ns] /\ UNCHANGED <<p, end>>
  <2>1. ("mnt" \in p.ns) = TRUE
    BY <1>1, <1>6 DEF Validated, HouseInv, ProcessAt
  <2>2. m' = [m EXCEPT !.private = TRUE]
    BY <1>6, <2>1
  <2>3. /\ m' \in Views /\ m'.private = TRUE /\ m'.stack = m.stack /\ m'.store = m.store /\ m'.upper = m.upper
        /\ m'.binds = m.binds /\ m'.root = m.root /\ m'.old = m.old /\ m'.leaked = m.leaked
    BY <1>1, <2>2 DEF Views
  <2>4. ViewAt'
    BY <1>1, <1>3, <1>6, <2>3 DEF HouseInv, ViewAt, BindsMade
  <2> QED
    BY <1>1, <1>3, <1>6, <2>3, <2>4, DoMount
<1> QED
  BY <1>2, <1>4, <1>5, <1>6 DEF MakePrivate, Step

LEMMA BrickKeeps ==
  ASSUME HouseInv, MountBrick
  PROVE  HouseInv'
<1>1. k = 13 /\ end = "none" /\ m \in Views
  BY KernelFacts, StepAt DEF MountBrick, Step, At
<1>2. Has(Admin(3, {"openat", "ioctl", "mount", "close"}))
  <2>1. {"openat", "ioctl", "mount", "close"} \in SUBSET Syscalls /\ 3 \in 0..3 /\ TRUE \in BOOLEAN /\ k <= 17
    BY <1>1, CallsKnown DEF SetupCalls
  <2> QED
    BY <2>1, HasAdmin DEF Admin
<1>3. UNCHANGED <<unit, kernel, ll>> /\ k \in 12..17 /\ k \in 13..17
  BY <1>1 DEF MountBrick, Step
<1>4. CASE end' = "refused" /\ UNCHANGED <<k, p, m>>
  BY <1>3, <1>4, Refused
<1>5. CASE ~unit.brick /\ k' = k + 1 /\ UNCHANGED <<p, m, end>>
  BY <1>1, <1>3, <1>5, SkipMount
<1>6. CASE /\ unit.brick /\ k' = k + 1 /\ m' = Mounted([m EXCEPT !.stack = Append(@, "erofs")])
           /\ UNCHANGED <<p, end>>
  <2> DEFINE new == [m EXCEPT !.stack = Append(@, "erofs")]
  <2>1. m.stack = <<>> /\ Append(<<>>, "erofs") = Brick
    BY <1>1 DEF HouseInv, ViewAt, Brick
  <2>2. new = [m EXCEPT !.stack = Brick]
    BY <2>1
  <2>3. /\ new \in Views /\ new.private = m.private /\ new.stack = Brick /\ new.store = m.store
        /\ new.upper = m.upper /\ new.binds = m.binds /\ new.root = m.root /\ new.old = m.old
        /\ new.leaked = m.leaked
    BY <1>1, <2>2 DEF Views
  <2> HIDE DEF new
  <2>4. /\ m' \in Views /\ m'.private = m.private /\ m'.stack = Brick /\ m'.store = m.store
        /\ m'.upper = m.upper /\ m'.binds = m.binds /\ m'.root = m.root /\ m'.old = m.old
        /\ m'.leaked = FALSE
    <3>1. m' = Mounted(new)
      BY <1>6 DEF new
    <3> QED
      BY <1>3, <1>6, <2>3, <3>1, MountedFacts
  <2>5. ViewAt'
    BY <1>1, <1>3, <1>6, <2>4 DEF HouseInv, ViewAt, BindsMade
  <2> QED
    BY <1>1, <1>3, <1>6, <2>4, <2>5, DoMount
<1> QED
  BY <1>2, <1>4, <1>5, <1>6 DEF MountBrick, Step

LEMMA StoreKeeps ==
  ASSUME HouseInv, MountStore
  PROVE  HouseInv'
<1>1. k = 14 /\ end = "none" /\ m \in Views
  BY KernelFacts, StepAt DEF MountStore, Step, At
<1>2. Has(Admin(3, {"openat", "ioctl", "mount", "close", "write"}))
  <2>1. {"openat", "ioctl", "mount", "close", "write"} \in SUBSET Syscalls /\ 3 \in 0..3 /\ TRUE \in BOOLEAN
        /\ k <= 17
    BY <1>1, CallsKnown DEF SetupCalls
  <2> QED
    BY <2>1, HasAdmin DEF Admin
<1>3. UNCHANGED <<unit, kernel, ll>> /\ k \in 12..17 /\ k \in 13..17
  BY <1>1 DEF MountStore, Step
<1>4. CASE end' = "refused" /\ UNCHANGED <<k, p, m>>
  BY <1>3, <1>4, Refused
<1>5. CASE ~(unit.brick /\ unit.layer = "sized") /\ k' = k + 1 /\ UNCHANGED <<p, m, end>>
  BY <1>1, <1>3, <1>5, SkipMount
<1>6. CASE /\ unit.brick /\ unit.layer = "sized" /\ k' = k + 1 /\ m' = Mounted([m EXCEPT !.store = TRUE])
           /\ UNCHANGED <<p, end>>
  <2> DEFINE new == [m EXCEPT !.store = TRUE]
  <2>1. /\ new \in Views /\ new.private = m.private /\ new.stack = m.stack /\ new.store = TRUE
        /\ new.upper = m.upper /\ new.binds = m.binds /\ new.root = m.root /\ new.old = m.old
        /\ new.leaked = m.leaked
    BY <1>1 DEF Views
  <2> HIDE DEF new
  <2>2. /\ m' \in Views /\ m'.private = m.private /\ m'.stack = m.stack /\ m'.store = TRUE
        /\ m'.upper = m.upper /\ m'.binds = m.binds /\ m'.root = m.root /\ m'.old = m.old
        /\ m'.leaked = FALSE
    <3>1. m' = Mounted(new)
      BY <1>6 DEF new
    <3> QED
      BY <1>3, <1>6, <2>1, <3>1, MountedFacts
  <2>3. m.private /\ m.stack = Brick /\ m.binds = <<>> /\ m.root = "machine" /\ ~m.old
    BY <1>1, <1>6 DEF HouseInv, ViewAt
  <2>4. ViewAt'
    <3>1. ~m'.leaked /\ m'.private /\ m'.stack = Brick /\ m'.store /\ m'.binds = <<>> /\ m'.root = "machine" /\ ~m'.old
      BY <2>2, <2>3
    <3>2. /\ k' > 14 /\ ~(k' > 15) /\ ~(k' > 16) /\ ~(k' > 17) /\ k' <= 15 /\ ~(k' <= 13)
          /\ unit'.layer = "sized" /\ unit'.brick
      BY <1>1, <1>3, <1>6
    <3> QED
      BY <3>1, <3>2 DEF ViewAt
  <2> QED
    BY <1>1, <1>3, <1>6, <2>2, <2>4, DoMount
<1> QED
  BY <1>2, <1>4, <1>5, <1>6 DEF MountStore, Step

LEMMA LayerKeeps ==
  ASSUME HouseInv, MountLayer
  PROVE  HouseInv'
<1>1. k = 15 /\ end = "none" /\ m \in Views
  BY KernelFacts, StepAt DEF MountLayer, Step, At
<1>2. Has(Admin(0, {"mount", "write"}))
  <2>1. {"mount", "write"} \in SUBSET Syscalls /\ 0 \in 0..3 /\ TRUE \in BOOLEAN /\ k <= 17
    BY <1>1, CallsKnown DEF SetupCalls
  <2> QED
    BY <2>1, HasAdmin DEF Admin
<1>3. UNCHANGED <<unit, kernel, ll>> /\ k \in 12..17 /\ k \in 13..17
  BY <1>1 DEF MountLayer, Step
<1>4. CASE end' = "refused" /\ UNCHANGED <<k, p, m>>
  BY <1>3, <1>4, Refused
<1>5. CASE ~(unit.brick /\ unit.layer # "none") /\ k' = k + 1 /\ UNCHANGED <<p, m, end>>
  <2>1. ~unit.brick
    <3>1. unit.brick <=> unit.layer # "none"
      BY KernelFacts DEF Validated
    <3> QED
      BY <1>5, <3>1
  <2> QED
    BY <1>1, <1>3, <1>5, <2>1, SkipMount
<1>6. CASE /\ unit.brick /\ k' = k + 1 /\ UNCHANGED <<p, end>>
           /\ m' = Mounted([m EXCEPT !.stack = Append(@, "overlay"), !.upper = IF m.store THEN "store" ELSE "host"])
  <2> DEFINE up == IF unit.layer = "sized" THEN "store" ELSE "host"
  <2> DEFINE new == [m EXCEPT !.stack = Layered, !.upper = up]
  <2>1. m.stack = Brick /\ Append(Brick, "overlay") = Layered
    <3>1. Append(Brick, "overlay") = Layered
      BY LayerOnBrick
    <3>2. m.stack = Brick
      BY <1>1, <1>6 DEF HouseInv, ViewAt
    <3> QED
      BY <3>1, <3>2
  <2>2. (IF m.store THEN "store" ELSE "host") = up
    BY <1>1 DEF HouseInv, ViewAt
  <2>3. m' = Mounted(new)
    BY <1>6, <2>1, <2>2
  <2>4. up \in {"none", "host", "store"}
    OBVIOUS
  <2> HIDE DEF up
  <2>5. /\ new \in Views /\ new.private = m.private /\ new.stack = Layered /\ new.store = m.store
        /\ new.upper = up /\ new.binds = m.binds /\ new.root = m.root /\ new.old = m.old
        /\ new.leaked = m.leaked
    BY <1>1, <2>4 DEF Views
  <2> HIDE DEF new
  <2>6. /\ m' \in Views /\ m'.private = m.private /\ m'.stack = Layered /\ m'.store = m.store
        /\ m'.upper = up /\ m'.binds = m.binds /\ m'.root = m.root /\ m'.old = m.old
        /\ m'.leaked = FALSE
    BY <1>3, <1>6, <2>3, <2>5, MountedFacts
  <2>7. m.private /\ m.binds = <<>> /\ m.root = "machine" /\ ~m.old /\ (m.store <=> unit.layer = "sized")
    BY <1>1, <1>6 DEF HouseInv, ViewAt
  <2>8. ViewAt'
    <3>1. ~m'.leaked /\ m'.private /\ m'.stack = Layered /\ m'.binds = <<>> /\ m'.root = "machine" /\ ~m'.old
          /\ (m'.store <=> unit.layer = "sized") /\ m'.upper = IF unit.layer = "sized" THEN "store" ELSE "host"
      BY <2>6, <2>7 DEF up
    <3>2. /\ k' > 12 /\ k' > 14 /\ k' > 15 /\ ~(k' > 16) /\ ~(k' > 17) /\ ~(k' <= 15) /\ ~(k' <= 13)
          /\ unit' = unit /\ unit.brick
      BY <1>1, <1>3, <1>6
    <3> QED
      BY <3>1, <3>2 DEF ViewAt
  <2> QED
    BY <1>1, <1>3, <1>6, <2>6, <2>8, DoMount
<1> QED
  BY <1>2, <1>4, <1>5, <1>6 DEF MountLayer, Step

(* Every declared bind is made, over the layer. *)
LEMMA BindsKeeps ==
  ASSUME HouseInv, Binds
  PROVE  HouseInv'
<1>1. k = 16 /\ end = "none" /\ m \in Views
  BY KernelFacts, StepAt DEF Binds, Step, At
<1>2. Has(Admin(0, {"newfstatat", "mount"}))
  <2>1. {"newfstatat", "mount"} \in SUBSET Syscalls /\ 0 \in 0..3 /\ TRUE \in BOOLEAN /\ k <= 17
    BY <1>1, CallsKnown DEF SetupCalls
  <2> QED
    BY <2>1, HasAdmin DEF Admin
<1>3. UNCHANGED <<unit, kernel, ll>> /\ k \in 12..17 /\ k \in 13..17
  BY <1>1 DEF Binds, Step
<1>4. CASE end' = "refused" /\ UNCHANGED <<k, p, m>>
  BY <1>3, <1>4, Refused
<1>5. CASE ~unit.brick /\ k' = k + 1 /\ UNCHANGED <<p, m, end>>
  BY <1>1, <1>3, <1>5, SkipMount
<1>6. CASE /\ unit.brick /\ k' = k + 1 /\ UNCHANGED <<p, end>>
           /\ m' = Mounted([m EXCEPT !.binds = [i \in 1..Len(unit.binds) |-> BindMount(unit.binds[i])]])
  <2> DEFINE new == [m EXCEPT !.binds = BindsMade]
  <2>1. /\ m.private /\ m.stack = Layered /\ m.root = "machine" /\ ~m.old /\ (m.store <=> unit.layer = "sized")
        /\ m.upper = IF unit.layer = "sized" THEN "store" ELSE "host"
    BY <1>1, <1>6 DEF HouseInv, ViewAt
  <2>2. Len(m.stack) = 2
    BY <2>1 DEF Layered
  <2>3. [i \in 1..Len(unit.binds) |-> BindMount(unit.binds[i])] = BindsMade
    BY <2>2 DEF BindMount, BindsMade
  <2>4. m' = Mounted(new)
    BY <1>6, <2>3
  <2>5. /\ new \in Views /\ new.private = m.private /\ new.stack = m.stack /\ new.store = m.store
        /\ new.upper = m.upper /\ new.binds = BindsMade /\ new.root = m.root /\ new.old = m.old
        /\ new.leaked = m.leaked
    BY <1>1 DEF Views
  <2> HIDE DEF new
  <2>6. /\ m' \in Views /\ m'.private = m.private /\ m'.stack = m.stack /\ m'.store = m.store
        /\ m'.upper = m.upper /\ m'.binds = BindsMade /\ m'.root = m.root /\ m'.old = m.old
        /\ m'.leaked = FALSE
    BY <1>3, <1>6, <2>4, <2>5, MountedFacts
  <2>7. ViewAt'
    <3>1. /\ ~m'.leaked /\ m'.private /\ m'.stack = Layered /\ m'.root = "machine" /\ ~m'.old
          /\ (m'.store <=> unit.layer = "sized") /\ m'.upper = IF unit.layer = "sized" THEN "store" ELSE "host"
      BY <2>1, <2>6
    <3>2. m'.binds = BindsMade'
      BY <1>3, <2>6 DEF BindsMade
    <3>3. /\ k' > 12 /\ k' > 14 /\ k' > 15 /\ k' > 16 /\ ~(k' > 17) /\ ~(k' <= 15) /\ ~(k' <= 13)
          /\ unit' = unit /\ unit.brick
      BY <1>1, <1>3, <1>6
    <3> QED
      BY <3>1, <3>2, <3>3 DEF ViewAt
  <2> QED
    BY <1>1, <1>3, <1>6, <2>6, <2>7, DoMount
<1> QED
  BY <1>2, <1>4, <1>5, <1>6 DEF Binds, Step

LEMMA PivotKeeps ==
  ASSUME HouseInv, Pivot
  PROVE  HouseInv'
<1> DEFINE calls == {"openat", "fchdir", "pivot_root", "mount", "umount2", "close", "chdir", "write"}
<1>1. k = 17 /\ end = "none" /\ m \in Views
  BY KernelFacts, StepAt DEF Pivot, Step, At
<1>2. Has(Admin(2, calls))
  <2>1. calls \in SUBSET Syscalls /\ 2 \in 0..3 /\ TRUE \in BOOLEAN /\ k <= 17
    BY <1>1, CallsKnown DEF SetupCalls
  <2> QED
    BY <2>1, HasAdmin DEF Admin
<1>3. UNCHANGED <<unit, kernel, ll>> /\ k \in 12..17
  BY <1>1 DEF Pivot, Step
<1>4. CASE end' = "refused" /\ UNCHANGED <<k, p, m>>
  BY <1>3, <1>4, Refused
<1>5. CASE ~unit.brick /\ k' = k + 1 /\ UNCHANGED <<p, m, end>>
  BY <1>1, <1>3, <1>5, SkipMount
<1>6. CASE unit.brick /\ k' = k + 1 /\ m' = [m EXCEPT !.root = "brick", !.old = TRUE] /\ UNCHANGED <<p, end>>
  <2>1. /\ m' \in Views /\ m'.private = m.private /\ m'.stack = m.stack /\ m'.store = m.store
        /\ m'.upper = m.upper /\ m'.binds = m.binds /\ m'.root = "brick" /\ m'.old = TRUE
        /\ m'.leaked = m.leaked
    BY <1>1, <1>6 DEF Views
  <2>2. /\ m.private /\ ~m.leaked /\ m.stack = Layered /\ (m.store <=> unit.layer = "sized")
        /\ m.upper = (IF unit.layer = "sized" THEN "store" ELSE "host") /\ m.binds = BindsMade
    BY <1>1, <1>6 DEF HouseInv, ViewAt
  <2>3. ViewAt'
    <3>1. /\ ~m'.leaked /\ m'.private /\ m'.stack = Layered /\ m'.root = "brick" /\ m'.old
          /\ (m'.store <=> unit.layer = "sized") /\ m'.upper = IF unit.layer = "sized" THEN "store" ELSE "host"
      BY <2>1, <2>2
    <3>2. m'.binds = BindsMade'
      BY <1>3, <2>1, <2>2 DEF BindsMade
    <3>3. /\ k' > 12 /\ k' > 14 /\ k' > 15 /\ k' > 16 /\ k' > 17 /\ ~(k' <= 15) /\ ~(k' <= 13)
          /\ unit' = unit /\ unit.brick
      BY <1>1, <1>3, <1>6
    <3> QED
      BY <3>1, <3>2, <3>3 DEF ViewAt
  <2> QED
    BY <1>1, <1>3, <1>6, <2>1, <2>3, DoMount
<1> QED
  BY <1>2, <1>4, <1>5, <1>6 DEF Pivot, Step

(* Every rule is one that the kernel takes: no right it does not handle,   *)
(* none about directories on a file.                                       *)
LEMMA RulesTaken ==
  ASSUME NEW at, NEW abi, NEW access \in SUBSET Handled(abi)
  PROVE  RuleTaken(Beneath(at, access), abi)
<1>1. Beneath(at, access).at = at /\ Beneath(at, access).access = IF at \in Files THEN access \ DirOnly ELSE access
  BY DEF Beneath
<1> QED
  BY <1>1 DEF RuleTaken

(* The paths of the rules are the binds, seen from inside the brick. *)
LEMMA RulesAreBinds ==
  ASSUME HouseInv, k = 18, unit.brick
  PROVE  Rules = BindRules
<1>1. m.root = "brick" /\ m.binds = BindsMade /\ m.stack = Layered
  BY DEF HouseInv, ViewAt
<1>2. unit.binds \in Seq(DOMAIN Inode) /\ Len(unit.binds) \in Nat
  BY KernelFacts DEF Validated
<1>3. Len(m.binds) = Len(unit.binds)
  BY <1>1, <1>2 DEF BindsMade
<1>4. Len(m.stack) = 2
  BY <1>1 DEF Layered
<1>5. ASSUME NEW i \in 1..Len(unit.binds)
      PROVE  Resolve(unit.binds[i]) = Inode[unit.binds[i]]
  <2>1. m.binds[i].path = unit.binds[i] /\ m.binds[i].on = 2
    BY <1>1 DEF BindsMade
  <2> QED
    BY <1>3, <1>4, <2>1 DEF Resolve, Seen
<1> QED
  BY <1>5 DEF Rules, BindRules

LEMMA LandlockKeeps ==
  ASSUME HouseInv, Landlock
  PROVE  HouseInv'
<1> DEFINE calls == {"landlock", "openat", "fstat", "prctl", "close", "write"}
<1>1. k = 18 /\ end = "none" /\ m \in Views
  BY KernelFacts, StepAt DEF Landlock, At
<1>2. Has(Uses({}, 2, FALSE, calls))
  <2>1. /\ calls \in SUBSET Syscalls /\ 2 \in 0..3 /\ FALSE \in BOOLEAN /\ k <= 21 /\ k <= 20 /\ k <= 18
        /\ {} \in SUBSET {Setpcap, SysAdmin, SysNice, SysResource}
    BY <1>1, CallsKnown DEF SetupCalls
  <2> QED
    BY <2>1, HasIt
<1>3. "landlock" \in unit.lids => unit.brick
  BY KernelFacts DEF Validated
<1>4. ASSUME "landlock" \in unit.lids
      PROVE  Rules = BindRules /\ \A r \in Rules : RuleTaken(r, kernel.abi)
  <2>1. Rules = BindRules
    BY <1>1, <1>3, <1>4, RulesAreBinds
  <2>2. RootAccess(kernel.abi) \subseteq Handled(kernel.abi) /\ rw(kernel.abi) \subseteq Handled(kernel.abi)
    BY DEF RootAccess, rw
  <2>3. \A r \in BindRules : \E at, access : r = Beneath(at, access) /\ access \subseteq Handled(kernel.abi)
    BY <2>2 DEF BindRules
  <2> QED
    BY <2>1, <2>3, RulesTaken
<1>5. UNCHANGED <<unit, kernel, p, m>>
  BY DEF Landlock
<1>6. CASE end' = "refused" /\ UNCHANGED <<k, ll>>
  BY <1>5, <1>6, Refused
<1>7. CASE k' = k + 1 /\ end' = end
           /\ ll' = IF "landlock" \in unit.lids THEN [handled |-> Handled(kernel.abi), rules |-> BindRules] ELSE NoDomain
  <2>1. DomainAt'
    BY <1>1, <1>5, <1>7 DEF DomainAt, BindRules
  <2>2. ViewAt'
    BY <1>1, <1>5, <1>7 DEF HouseInv, ViewAt, BindsMade
  <2>3. k \in 12..18 /\ m' \in Views
    BY <1>1, <1>5
  <2> QED
    BY <1>1, <1>5, <1>7, <2>1, <2>2, <2>3, MountStep
<1>8. CASE "landlock" \notin unit.lids /\ k' = k + 1 /\ UNCHANGED <<ll, end>>
  <2>1. ll = NoDomain
    BY <1>1 DEF HouseInv, DomainAt
  <2> QED
    BY <1>7, <1>8, <2>1
<1>9. CASE "landlock" \in unit.lids /\ k' = k + 1 /\ ll' = [handled |-> Handled(kernel.abi), rules |-> Rules]
           /\ UNCHANGED end
  BY <1>4, <1>7, <1>9
<1> QED
  BY <1>2, <1>4, <1>6, <1>8, <1>9 DEF Landlock

(***************************************************************************)
(* The invariant and what follows from it                                  *)
(***************************************************************************)
LEMMA InitHouse ==
  ASSUME Init
  PROVE  HouseInv
<1>1. /\ unit \in Units /\ kernel \in Kernels /\ Validated(unit, kernel) /\ k = 1 /\ end = "none"
      /\ p = Fresh(kernel, 0, {}) /\ m = Machine(FALSE) /\ ll = NoDomain
  BY DEF Init
<1>2. kernel.last \in Nat /\ kernel.soft \in Nat /\ kernel.hard \in Nat
  <2>1. kernel.last \in 24..63
    BY <1>1, HouseAssumption DEF SysResource
  <2> QED
    BY <1>1, <2>1, HouseAssumption
<1>3. /\ p \in Procs /\ p.last = 0 /\ p.ns = {} /\ p.set = {} /\ p.limits = {} /\ p.soft = kernel.soft
      /\ p.lower = FALSE /\ p.caps = 0..kernel.last /\ p.bset = 0..kernel.last /\ p.calls = Syscalls
  BY <1>1, <1>2 DEF Fresh, Procs
<1>4. ProcessAt
  BY <1>1, <1>2, <1>3, SetPlaces DEF ProcessAt
<1>5. /\ m \in Views /\ m.private = FALSE /\ m.stack = <<>> /\ m.store = FALSE /\ m.binds = <<>>
      /\ m.root = "machine" /\ m.old = FALSE /\ m.leaked = FALSE
  BY <1>1 DEF Machine, Views
<1>6. ViewAt /\ DomainAt
  <2>1. k = 1 /\ ll = NoDomain
    BY <1>1
  <2>2. DomainAt
    BY <2>1 DEF DomainAt
  <2>3. ViewAt
    BY <2>1, <1>5 DEF ViewAt
  <2> QED
    BY <2>2, <2>3
<1>7. HouseType
  <2>1. unit \in Units /\ kernel \in Kernels /\ Validated(unit, kernel) /\ k \in 1..Len(Order) /\ end = "none"
    BY <1>1, OrderPlaces
  <2>2. p \in Procs /\ m \in Views
    BY <1>3, <1>5
  <2> QED
    BY <2>1, <2>2 DEF HouseType
<1> QED
  BY <1>4, <1>6, <1>7 DEF HouseInv

LEMMA StepHouse ==
  ASSUME HouseInv, [Next]_vars
  PROVE  HouseInv'
<1>1. CASE NoController \/ ExecRefused
  BY <1>1, Refused DEF NoController, ExecRefused
<1>2. CASE UNCHANGED vars
  <2>1. HouseType'
    BY <1>2 DEF vars, HouseInv, HouseType, Views, BindsMade
  <2>2. ProcessAt' /\ ViewAt' /\ DomainAt'
    BY <1>2 DEF vars, HouseInv, ProcessAt, ViewAt, DomainAt, BindsMade, BindRules
  <2> QED
    BY <2>1, <2>2 DEF HouseInv
<1> QED
  BY <1>1, <1>2, ReadLastKeeps, ParentKeeps, LimitsKeeps, SignalsKeeps, NamespaceKeeps, SettingsKeep, RaiseKeeps,
     PrivateKeeps, BrickKeeps, StoreKeeps, LayerKeeps, BindsKeeps, PivotKeeps, LandlockKeeps,
     CapabilitiesKeeps, LowerKeeps, SeccompKeeps, ExecKeeps, RestartKeeps DEF Next

(* What a child has after each step, whatever is declared. *)
THEOREM HouseInvariant == Spec => []HouseInv
<1> QED
  BY InitHouse, StepHouse, PTL DEF Spec

(* No step of the child takes away what a later one needs. *)
THEOREM OrderIsRight == Spec => []RightOrder
<1>1. HouseInv => RightOrder
  BY DEF HouseInv, HouseType, RightOrder
<1> QED
  BY <1>1, HouseInvariant, PTL

(* No mount made for a house is made on the machine. *)
THEOREM MountsStayInside == Spec => []NothingLeaks
<1>1. HouseInv => NothingLeaks
  BY DEF HouseInv, ViewAt, NothingLeaks
<1> QED
  BY <1>1, HouseInvariant, PTL

LEMMA BindsInSight ==
  ASSUME HouseInv, k = 22
  PROVE  BindsSeen /\ CtlReadOnly
<1>1. unit.binds \in Seq(DOMAIN Inode) /\ (unit.binds # <<>> => unit.brick)
  BY KernelFacts DEF Validated
<1>2. CASE unit.brick
  <2>1. m.binds = BindsMade /\ m.stack = Layered
    BY <1>2 DEF HouseInv, ViewAt
  <2>2. Len(m.stack) = 2
    BY <2>1 DEF Layered
  <2>3. Len(m.binds) = Len(unit.binds)
    BY <1>1, <2>1 DEF BindsMade
  <2>4. \A i \in 1..Len(unit.binds) :
          m.binds[i] = [path |-> unit.binds[i], on |-> 2, ro |-> Inode[unit.binds[i]] = CtlDir]
    BY <2>1 DEF BindsMade
  <2>5. ASSUME NEW i \in 1..Len(unit.binds)
        PROVE  /\ m.binds[i].path = unit.binds[i] /\ m.binds[i].on = 2
               /\ Inode[unit.binds[i]] = CtlDir => m.binds[i].ro
    <3>1. m.binds[i].path = unit.binds[i] /\ m.binds[i].on = 2
      <4>1. m.binds[i] = [path |-> unit.binds[i], on |-> 2, ro |-> Inode[unit.binds[i]] = CtlDir]
        BY <2>4
      <4> QED
        BY <4>1
    <3>2. ASSUME Inode[unit.binds[i]] = CtlDir
          PROVE  m.binds[i].ro
      <4>1. m.binds[i] = [path |-> unit.binds[i], on |-> 2, ro |-> TRUE]
        <5>1. (Inode[unit.binds[i]] = CtlDir) = TRUE
          BY <3>2
        <5> QED
          BY <2>4, <5>1
      <4> QED
        BY <4>1
    <3> QED
      BY <3>1, <3>2
  <2> QED
    BY <2>2, <2>3, <2>5 DEF BindsSeen, CtlReadOnly, Seen
<1>3. CASE ~unit.brick
  <2>1. m.binds = <<>> /\ unit.binds = <<>>
    BY <1>1, <1>3 DEF HouseInv, ViewAt
  <2> QED
    BY <2>1 DEF BindsSeen, CtlReadOnly
<1> QED
  BY <1>2, <1>3

(* What the rules give, and nothing else does. *)
LEMMA RulesGive ==
  ASSUME HouseInv, k = 22, "landlock" \in unit.lids
  PROVE  ll.handled = Handled(kernel.abi) /\ Confined
<1>1. ll.handled = Handled(kernel.abi) /\ ll.rules = BindRules
  BY DEF HouseInv, DomainAt
<1>2. \A r \in BindRules :
        \/ r.at = "root" /\ r.access \subseteq RootAccess(kernel.abi)
        \/ /\ r.access \subseteq rw(kernel.abi)
           /\ \E i \in 1..Len(unit.binds) : r.at = Inode[unit.binds[i]]
  <2> SUFFICES ASSUME NEW r \in BindRules
               PROVE  \/ r.at = "root" /\ r.access \subseteq RootAccess(kernel.abi)
                      \/ /\ r.access \subseteq rw(kernel.abi)
                         /\ \E i \in 1..Len(unit.binds) : r.at = Inode[unit.binds[i]]
    OBVIOUS
  <2>1. CASE r = Beneath("root", RootAccess(kernel.abi))
    BY <2>1 DEF Beneath
  <2>2. CASE \E i \in 1..Len(unit.binds) : r = Beneath(Inode[unit.binds[i]], rw(kernel.abi))
    <3>1. PICK i \in 1..Len(unit.binds) : r = Beneath(Inode[unit.binds[i]], rw(kernel.abi))
      BY <2>2
    <3>2. r.at = Inode[unit.binds[i]] /\ r.access \subseteq rw(kernel.abi)
      BY <3>1 DEF Beneath
    <3> QED
      BY <3>2
  <2> QED
    BY <2>1, <2>2 DEF BindRules
<1>3. \A i \in 1..Len(unit.binds) : Inode[unit.binds[i]] \notin {"root", "own"}
  BY KernelFacts, HouseAssumption DEF Validated
<1>4. /\ RootAccess(kernel.abi) \intersect ((DirOnly \ {"READ_DIR"}) \union Devices \union {"TRUNCATE"}) = {}
      /\ rw(kernel.abi) \intersect Devices = {}
      /\ (DirOnly \union Devices) \subseteq Handled(kernel.abi)
      /\ kernel.abi >= 3 => "TRUNCATE" \in Handled(kernel.abi)
      /\ "MAKE_REG" \in rw(kernel.abi)
      /\ "TRUNCATE" \in Handled(kernel.abi) => "TRUNCATE" \in rw(kernel.abi)
      /\ "TRUNCATE" \notin DirOnly
  BY DEF RootAccess, rw, ro, Handled, DirOnly, Devices
<1>5. \A right : right \in Handled(kernel.abi) /\ right \notin RootAccess(kernel.abi) => ~May("own", right)
  BY <1>1, <1>2, <1>3 DEF May
<1>6. \A r \in DirOnly \ {"READ_DIR"} : ~May("own", r)
  BY <1>4, <1>5
<1>7. kernel.abi >= 3 => ~May("own", "TRUNCATE")
  BY <1>4, <1>5
<1>8. ASSUME NEW i \in 1..Len(unit.binds)
      PROVE  LET at == Inode[unit.binds[i]]
             IN  /\ at \notin Files => May(at, "MAKE_REG")
                 /\ May(at, "TRUNCATE")
                 /\ \A d \in Devices : ~May(at, d)
  <2> DEFINE at == Inode[unit.binds[i]]
  <2>1. Beneath(at, rw(kernel.abi)) \in BindRules
    BY DEF BindRules
  <2> DEFINE mine == Beneath(at, rw(kernel.abi))
  <2>2. /\ mine.at = at /\ ("TRUNCATE" \in Handled(kernel.abi) => "TRUNCATE" \in mine.access)
        /\ at \notin Files => "MAKE_REG" \in mine.access
    BY <1>4 DEF Beneath
  <2> HIDE DEF mine
  <2>3. mine \in ll.rules
    BY <1>1, <2>1 DEF mine
  <2>4. at \notin Files => May(at, "MAKE_REG")
    BY <2>2, <2>3 DEF May
  <2>5. May(at, "TRUNCATE")
    BY <1>1, <2>2, <2>3 DEF May
  <2>6. \A d \in Devices : ~May(at, d)
    BY <1>1, <1>2, <1>4 DEF May
  <2> QED
    BY <2>4, <2>5, <2>6
<1> QED
  BY <1>1, <1>6, <1>7, <1>8 DEF Confined

(* A house that runs has everything that its unit declares, in force at    *)
(* once, in every generation.                                              *)
THEOREM LidsInForce == Spec => []AsDeclared
<1>1. ASSUME HouseInv, end = "exec"
      PROVE  AsDeclared
  <2>1. k = 22 /\ p \in Procs /\ Validated(unit, kernel)
    BY <1>1, KernelFacts, OrderPlaces DEF HouseInv, HouseType
  <2>2. /\ "net" \in p.ns <=> "newnet" \in unit.lids
        /\ "mnt" \in p.ns <=> "newns" \in unit.lids
        /\ p.limits = unit.limits
        /\ unit.nofile > 0 => p.soft = unit.nofile
        /\ p.caps = unit.caps
        /\ p.calls = IF "seccomp" \in unit.lids THEN AllowList ELSE Syscalls
        /\ p.mask = {} /\ p.term = "default"
    BY <1>1, <2>1 DEF HouseInv, ProcessAt
  <2>3. p.set = unit.settings
    <3>1. p.set \subseteq Settings /\ unit.settings \subseteq Settings
      BY <2>1 DEF Procs, Validated
    <3>2. \A s \in Settings : s \in p.set <=> s \in unit.settings
      BY <1>1, <2>1, SetPlaces DEF HouseInv, ProcessAt
    <3> QED
      BY <3>1, <3>2
  <2>4. unit.brick => /\ m.root = "brick" /\ m.old
                      /\ m.stack = <<"erofs", "overlay">>
                      /\ m.upper = IF unit.layer = "sized" THEN "store" ELSE "host"
    BY <1>1, <2>1 DEF HouseInv, ViewAt, Layered
  <2>5. BindsSeen /\ CtlReadOnly
    BY <1>1, <2>1, BindsInSight
  <2>6. "landlock" \in unit.lids => ll.handled = Handled(kernel.abi) /\ Confined
    BY <1>1, <2>1, RulesGive
  <2> QED
    BY <2>2, <2>3, <2>4, <2>5, <2>6 DEF AsDeclared
<1>2. HouseInv => AsDeclared
  BY <1>1 DEF AsDeclared
<1> QED
  BY <1>2, HouseInvariant, PTL
================================================================================
