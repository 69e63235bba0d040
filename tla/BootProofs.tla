------------------------------ MODULE BootProofs ------------------------------
(***************************************************************************)
(* What a boot finds, for every set of slots, names, plans, layers and     *)
(* machines, and any number of boots: dawn leaves PID 1 what it needs, a   *)
(* staged slot is whole, no plan is started that was not read whole, and   *)
(* careful staging leaves every layer its brick.                           *)
(***************************************************************************)
EXTENDS BootProps, TLAPS

(***************************************************************************)
(* dawn                                                                    *)
(***************************************************************************)
LEMMA DawnPlaces ==
  /\ Len(DawnOrder) = 15
  /\ DawnOrder[1] = "env" /\ DawnOrder[2] = "dev" /\ DawnOrder[3] = "root" /\ DawnOrder[4] = "esp"
  /\ DawnOrder[5] = "skeleton" /\ DawnOrder[6] = "private" /\ DawnOrder[7] = "pivot"
  /\ DawnOrder[8] = "proc" /\ DawnOrder[9] = "sys" /\ DawnOrder[10] = "dev2" /\ DawnOrder[11] = "run"
  /\ DawnOrder[12] = "tmp" /\ DawnOrder[13] = "cgroup" /\ DawnOrder[14] = "oldroot"
  /\ DawnOrder[15] = "exec"
  BY DEF DawnOrder

(* Where dawn is when it takes a step. *)
LEMMA DawnAt ==
  ASSUME DawnMade
  PROVE  /\ Dawning("env") => d.at = 1
         /\ Dawning("dev") => d.at = 2
         /\ Dawning("root") => d.at = 3
         /\ Dawning("esp") => d.at = 4
         /\ Dawning("skeleton") => d.at = 5
         /\ Dawning("private") => d.at = 6
         /\ Dawning("pivot") => d.at = 7
         /\ Dawning("proc") => d.at = 8
         /\ Dawning("sys") => d.at = 9
         /\ Dawning("dev2") => d.at = 10
         /\ Dawning("run") => d.at = 11
         /\ Dawning("tmp") => d.at = 12
         /\ Dawning("cgroup") => d.at = 13
         /\ Dawning("oldroot") => d.at = 14
         /\ Dawning("exec") => d.at = 15
<1>1. d.at \in 1..15
  BY DawnPlaces DEF DawnMade, DawnStates
<1>2. \A x \in 1..15 : x = 1 \/ x = 2 \/ x = 3 \/ x = 4 \/ x = 5 \/ x = 6 \/ x = 7 \/ x = 8
        \/ x = 9 \/ x = 10 \/ x = 11 \/ x = 12 \/ x = 13 \/ x = 14 \/ x = 15
  OBVIOUS
<1> QED
  BY <1>1, <1>2, DawnPlaces DEF Dawning

(* A step that is done, and one that ends dawn. *)
LEMMA DidFacts ==
  ASSUME NEW new \in DawnStates, new.at < 15, Did(new)
  PROVE  /\ d' \in DawnStates /\ d'.at = new.at + 1
         /\ d'.root = new.root /\ d'.mounts = new.mounts /\ d'.ro = new.ro /\ d'.dirs = new.dirs
         /\ d'.private = new.private /\ d'.old = new.old /\ d'.end = new.end
         /\ machine' = machine
  BY DawnPlaces DEF Did, DawnStates

LEMMA DieFacts ==
  ASSUME DawnMade, Die("refused")
  PROVE  DawnMade'
<1>1. /\ d' \in DawnStates /\ d'.at = d.at /\ d'.end = "refused"
      /\ d'.root = d.root /\ d'.mounts = d.mounts /\ d'.ro = d.ro /\ d'.dirs = d.dirs
      /\ d'.private = d.private /\ d'.old = d.old /\ machine' = machine
  BY DawnPlaces DEF Die, DawnStates, DawnMade
<1> QED
  BY <1>1 DEF DawnMade

(* More is mounted, and nothing else changes. *)
LEMMA MoreMounted ==
  ASSUME DawnMade, NEW paths \in SUBSET Paths, NEW flags \in SUBSET Paths,
         Did([d EXCEPT !.mounts = @ \union paths, !.ro = @ \union flags]),
         d.end = "none", d.at < 15, d.at \notin {5, 6, 7, 14},
         d.at = 3 => "/sysroot" \in paths, d.at = 4 => "/sysroot/efi" \in paths /\ "/efi" \in flags,
         d.at = 8 => "/proc" \in paths, d.at = 9 => "/sys" \in paths, d.at = 10 => "/dev" \in paths,
         d.at = 11 => "/run" \in paths, d.at = 12 => "/tmp" \in paths, d.at = 13 => "/cgroup" \in paths
  PROVE  DawnMade'
<1> DEFINE new == [d EXCEPT !.mounts = @ \union paths, !.ro = @ \union flags]
<1>1. d \in DawnStates /\ d.at \in 1..15 /\ machine \in Machines
  BY DawnPlaces DEF DawnMade, DawnStates
<1>2. /\ new \in DawnStates /\ new.at = d.at /\ new.root = d.root /\ new.mounts = d.mounts \union paths
      /\ new.ro = d.ro \union flags /\ new.dirs = d.dirs /\ new.private = d.private
      /\ new.old = d.old /\ new.end = "none"
  BY <1>1 DEF DawnStates
<1>3. Did(new)
  OBVIOUS
<1> HIDE DEF new
<1>4. /\ d' \in DawnStates /\ d'.at = d.at + 1 /\ d'.root = d.root /\ d'.mounts = d.mounts \union paths
      /\ d'.ro = d.ro \union flags /\ d'.dirs = d.dirs /\ d'.private = d.private
      /\ d'.old = d.old /\ d'.end = "none" /\ machine' = machine
  BY <1>2, <1>3, DidFacts
<1> QED
  BY <1>1, <1>4 DEF DawnMade

LEMMA EnsureKeeps ==
  ASSUME DawnMade, NEW step, NEW path \in Paths, Ensure(step, path), d.at < 15, d.at \notin {3, 4, 5, 6, 7, 14},
         d.at = 8 => path = "/proc", d.at = 9 => path = "/sys", d.at = 10 => path = "/dev",
         d.at \notin {11, 12}, d.at = 13 => path = "/cgroup"
  PROVE  DawnMade'
<1>1. CASE Did([d EXCEPT !.mounts = @ \union {path}])
  <2>1. d \in DawnStates
    BY DEF DawnMade
  <2>2. [d EXCEPT !.mounts = @ \union {path}]
          = [d EXCEPT !.mounts = @ \union {path}, !.ro = @ \union {}]
    BY <2>1 DEF DawnStates
  <2>3. Did([d EXCEPT !.mounts = @ \union {path}, !.ro = @ \union {}])
    BY <1>1, <2>2
  <2>4. d.end = "none"
    BY DEF Ensure, Dawning
  <2>5. {path} \in SUBSET Paths /\ {} \in SUBSET Paths
    OBVIOUS
  <2>6. /\ d.at \notin {5, 6, 7, 14}
        /\ d.at = 3 => "/sysroot" \in {path}
        /\ d.at = 4 => "/sysroot/efi" \in {path} /\ "/efi" \in {}
        /\ d.at = 8 => "/proc" \in {path}
        /\ d.at = 9 => "/sys" \in {path}
        /\ d.at = 10 => "/dev" \in {path}
        /\ d.at = 11 => "/run" \in {path}
        /\ d.at = 12 => "/tmp" \in {path}
        /\ d.at = 13 => "/cgroup" \in {path}
    OBVIOUS
  <2> QED
    BY <2>3, <2>4, <2>5, <2>6, MoreMounted
<1>2. CASE Die("refused")
  BY <1>2, DieFacts
<1> QED
  BY <1>1, <1>2 DEF Ensure

LEMMA MountAtKeeps ==
  ASSUME DawnMade, NEW step, NEW path \in Paths, NEW flags \in SUBSET Paths, MountAt(step, path, flags),
         d.at \in {3, 4, 11, 12},
         d.at = 3 => path = "/sysroot", d.at = 4 => path = "/sysroot/efi" /\ "/efi" \in flags,
         d.at = 11 => path = "/run", d.at = 12 => path = "/tmp"
  PROVE  DawnMade'
<1>1. CASE Did([d EXCEPT !.mounts = @ \union {path}, !.ro = @ \union flags])
  <2>1. d.end = "none"
    BY DEF MountAt, Dawning
  <2>2. {path} \in SUBSET Paths /\ d.at < 15 /\ d.at \notin {5, 6, 7, 14}
    OBVIOUS
  <2>3. /\ d.at = 3 => "/sysroot" \in {path}
        /\ d.at = 4 => "/sysroot/efi" \in {path} /\ "/efi" \in flags
        /\ d.at = 8 => "/proc" \in {path}
        /\ d.at = 9 => "/sys" \in {path}
        /\ d.at = 10 => "/dev" \in {path}
        /\ d.at = 11 => "/run" \in {path}
        /\ d.at = 12 => "/tmp" \in {path}
        /\ d.at = 13 => "/cgroup" \in {path}
    OBVIOUS
  <2> QED
    BY <1>1, <2>1, <2>2, <2>3, MoreMounted
<1>2. CASE Die("refused")
  BY <1>2, DieFacts
<1> QED
  BY <1>1, <1>2 DEF MountAt

LEMMA DawnKeeps ==
  ASSUME DawnMade, DawnNext
  PROVE  DawnMade'
<1>1. d \in DawnStates /\ machine \in Machines
  BY DEF DawnMade
<1>p. {"/dev", "/proc", "/sys", "/cgroup", "/run", "/tmp", "/efi", "/sysroot", "/sysroot/efi"} \subseteq Paths
  BY DEF Paths
<1>2. CASE NeedEnv
  <2>1. d.at = 1 /\ d.end = "none"
    BY <1>2, DawnAt DEF NeedEnv, Dawning
  <2>2. CASE Did(d)
    BY <1>1, <2>1, <2>2, DidFacts DEF DawnMade
  <2> QED
    BY <1>2, <2>2, DieFacts DEF NeedEnv
<1>3. CASE Ensure("dev", "/dev")
  <2>1. d.at = 2
    BY <1>3, DawnAt DEF Ensure
  <2> QED
    BY <1>3, <2>1, <1>p, EnsureKeeps
<1>4. CASE MountAt("root", "/sysroot", {})
  <2>1. d.at = 3
    BY <1>4, DawnAt DEF MountAt
  <2> QED
    BY <1>4, <2>1, <1>p, MountAtKeeps
<1>5. CASE MountAt("esp", "/sysroot/efi", {"/efi"})
  <2>1. d.at = 4
    BY <1>5, DawnAt DEF MountAt
  <2> QED
    BY <1>5, <2>1, <1>p, MountAtKeeps
<1>6. CASE MakeSkeleton
  <2>1. d.at = 5 /\ d.end = "none"
    BY <1>6, DawnAt DEF MakeSkeleton, Dawning
  <2> DEFINE new == [d EXCEPT !.dirs = Skeleton, !.old = "dir"]
  <2>2. /\ new \in DawnStates /\ new.at = 5 /\ new.end = "none"
        /\ new.root = d.root /\ new.mounts = d.mounts /\ new.ro = d.ro /\ new.dirs = Skeleton
        /\ new.private = d.private
    BY <1>1, <2>1 DEF DawnStates, Skeleton
  <2> HIDE DEF new
  <2>3. CASE Did(new)
    BY <2>1, <2>2, <2>3, <1>1, DidFacts DEF DawnMade
  <2>4. "/sysroot" \in d.mounts
    BY <2>1 DEF DawnMade
  <2> QED
    BY <1>6, <2>3, <2>4 DEF MakeSkeleton, new
<1>7. CASE MakeRootPrivate
  <2>1. d.at = 6 /\ d.end = "none"
    BY <1>7, DawnAt DEF MakeRootPrivate, Dawning
  <2> DEFINE new == [d EXCEPT !.private = TRUE]
  <2>2. /\ new \in DawnStates /\ new.at = 6 /\ new.end = "none"
        /\ new.root = d.root /\ new.mounts = d.mounts /\ new.ro = d.ro /\ new.dirs = d.dirs
        /\ new.private
    BY <1>1, <2>1 DEF DawnStates
  <2> HIDE DEF new
  <2>3. CASE Did(new)
    BY <2>1, <2>2, <2>3, <1>1, DidFacts DEF DawnMade
  <2> QED
    BY <1>7, <2>3, DieFacts DEF MakeRootPrivate, new
<1>8. CASE PivotRoot
  <2>1. d.at = 7 /\ d.end = "none" /\ d.private /\ "/sysroot/efi" \in d.mounts
    BY <1>8, DawnAt DEF PivotRoot, Dawning, DawnMade
  <2>2. ASSUME NEW old \in {"dir", "mounted"}, Did(Rooted(old)) PROVE DawnMade'
    <3> DEFINE new == Rooted(old)
    <3>1. /\ new \in DawnStates /\ new.at = 7 /\ new.end = "none"
          /\ new.root = "real" /\ "/efi" \in new.mounts /\ new.ro = d.ro /\ new.dirs = d.dirs
          /\ new.private = d.private
      BY <1>1, <2>1 DEF DawnStates, Rooted, Paths
    <3>2. Did(new)
      BY <2>2
    <3> HIDE DEF new
    <3>3. /\ d' \in DawnStates /\ d'.at = 8 /\ d'.end = "none" /\ machine' = machine
          /\ d'.root = "real" /\ "/efi" \in d'.mounts /\ d'.ro = d.ro /\ d'.dirs = d.dirs
          /\ d'.private = d.private
      BY <3>1, <3>2, DidFacts
    <3> QED
      BY <2>1, <3>3, <1>1 DEF DawnMade
  <2> QED
    BY <1>8, <2>1, <2>2 DEF PivotRoot
<1>9. CASE Ensure("proc", "/proc")
  <2>1. d.at = 8
    BY <1>9, DawnAt DEF Ensure
  <2> QED
    BY <1>9, <2>1, <1>p, EnsureKeeps
<1>10. CASE Ensure("sys", "/sys")
  <2>1. d.at = 9
    BY <1>10, DawnAt DEF Ensure
  <2> QED
    BY <1>10, <2>1, <1>p, EnsureKeeps
<1>11. CASE Ensure("dev2", "/dev")
  <2>1. d.at = 10
    BY <1>11, DawnAt DEF Ensure
  <2> QED
    BY <1>11, <2>1, <1>p, EnsureKeeps
<1>12. CASE MountAt("run", "/run", {})
  <2>1. d.at = 11
    BY <1>12, DawnAt DEF MountAt
  <2> QED
    BY <1>12, <2>1, <1>p, MountAtKeeps
<1>13. CASE MountAt("tmp", "/tmp", {})
  <2>1. d.at = 12
    BY <1>13, DawnAt DEF MountAt
  <2> QED
    BY <1>13, <2>1, <1>p, MountAtKeeps
<1>14. CASE Ensure("cgroup", "/cgroup")
  <2>1. d.at = 13
    BY <1>14, DawnAt DEF Ensure
  <2> QED
    BY <1>14, <2>1, <1>p, EnsureKeeps
<1>15. CASE DropOldRoot
  <2>1. d.at = 14 /\ d.end = "none"
    BY <1>15, DawnAt DEF DropOldRoot, Dawning
  <2> DEFINE new == [d EXCEPT !.old = "gone"]
  <2>2. /\ new \in DawnStates /\ new.at = 14 /\ new.end = "none"
        /\ new.root = d.root /\ new.mounts = d.mounts /\ new.ro = d.ro /\ new.dirs = d.dirs
        /\ new.private = d.private /\ new.old = "gone"
    BY <1>1, <2>1 DEF DawnStates
  <2> HIDE DEF new
  <2>3. CASE Did(new)
    BY <2>1, <2>2, <2>3, <1>1, DidFacts DEF DawnMade
  <2> QED
    BY <1>15, <2>3, DieFacts DEF DropOldRoot, new
<1>16. CASE ExecRoot
  <2>1. d.at = 15
    BY <1>16, DawnAt DEF ExecRoot
  <2>2. CASE d' = [d EXCEPT !.end = "exec"] /\ UNCHANGED machine
    <3>1. /\ d' \in DawnStates /\ d'.at = 15 /\ d'.root = d.root /\ d'.mounts = d.mounts /\ d'.ro = d.ro
          /\ d'.dirs = d.dirs /\ d'.private = d.private /\ d'.old = d.old
      BY <1>1, <2>1, <2>2 DEF DawnStates
    <3> QED
      BY <3>1, <2>1, <2>2, DawnPlaces DEF DawnMade
  <2> QED
    BY <1>16, <2>2, DieFacts DEF ExecRoot
<1> QED
  BY <1>2, <1>3, <1>4, <1>5, <1>6, <1>7, <1>8, <1>9, <1>10, <1>11, <1>12, <1>13, <1>14, <1>15, <1>16
  DEF DawnNext

(***************************************************************************)
(* stage-candidate.py                                                      *)
(***************************************************************************)
LEMMA StagePlaces ==
  /\ Len(StageOrder) = 8
  /\ StageOrder[1] = "bake" /\ StageOrder[2] = "check" /\ StageOrder[3] = "clash"
  /\ StageOrder[4] = "layers" /\ StageOrder[5] = "sha" /\ StageOrder[6] = "list"
  /\ StageOrder[7] = "blob" /\ StageOrder[8] = "cleanup"
  BY DEF StageOrder

LEMMA StageAt ==
  ASSUME st \in ToolStates
  PROVE  /\ Stage("bake") => st.at = 1
         /\ Stage("check") => st.at = 2
         /\ Stage("clash") => st.at = 3
         /\ Stage("layers") => st.at = 4
         /\ Stage("sha") => st.at = 5
         /\ Stage("list") => st.at = 6
         /\ Stage("blob") => st.at = 7
         /\ Stage("cleanup") => st.at = 8
<1>1. st.at \in 0..8
  BY StagePlaces DEF ToolStates
<1>2. \A x \in 0..8 : x = 0 \/ x = 1 \/ x = 2 \/ x = 3 \/ x = 4 \/ x = 5 \/ x = 6 \/ x = 7 \/ x = 8
  OBVIOUS
<1> QED
  BY <1>1, <1>2, StagePlaces DEF Stage

SameStage ==
  /\ st'.live = st.live /\ st'.target = st.target /\ st'.plan = st.plan
  /\ st'.made = st.made

LEMMA GoFacts ==
  ASSUME st \in ToolStates, st.at < 8, st' = Go
  PROVE  st' \in ToolStates /\ st'.at = st.at + 1 /\ st'.todo = st.todo /\ SameStage
  BY StagePlaces DEF ToolStates, Go, SameStage

LEMMA AbortFacts ==
  ASSUME st \in ToolStates, st' = Abort
  PROVE  st' \in ToolStates /\ st'.at = 8 /\ st'.todo = st.todo /\ SameStage
  BY StagePlaces DEF ToolStates, Abort, SameStage

LEMMA IdleFacts == Idle \in ToolStates /\ Idle.at = 0
  BY StagePlaces DEF ToolStates, Idle, StagePlans

(* What the staging invariants say together, on a running machine. *)
ToolInv == SlotsType /\ LeavesInside /\ StagedWhole /\ SlotsWhole /\ TargetClear

(* Care is never regained, and was taken at the last start. *)
CareKept == careful' => careful /\ (st.at = 0 => Apt)

LEMMA ToolCare ==
  ASSUME ToolStep
  PROVE  CareKept
  BY Zenon DEF ToolStep, CareKept

DiskSame == UNCHANGED <<slot, current, store, running>>

(* A step of the tool that touches neither slots nor layers. *)
LEMMA ToolMoves ==
  ASSUME ToolInv, CareKept, DiskSame, st' \in ToolStates, SameStage, st.at > 0, st'.todo = st.todo,
         \/ st'.at = 8
         \/ /\ st'.at = st.at + 1 /\ st.at < 8
            /\ st.at = 2 => st.plan.ok
            /\ st.at = 4 => st.todo = {}
  PROVE  ToolInv'
<1> USE DEF DiskSame, SameStage
<1>1. st.at \in 0..8 /\ st'.at \in 0..8
  BY StagePlaces DEF ToolInv, SlotsType, ToolStates
<1>2. SlotsType'
  BY DEF ToolInv, SlotsType
<1>3. LeavesInside' /\ SlotsWhole'
  BY DEF ToolInv, LeavesInside, SlotsWhole, Ready
<1>4. StagedWhole'
  BY <1>1 DEF ToolInv, StagedWhole, Ready
<1>5. TargetClear'
  BY DEF ToolInv, TargetClear, CareKept
<1> QED
  BY <1>2, <1>3, <1>4, <1>5 DEF ToolInv

LEMMA ToolStops ==
  ASSUME ToolInv, DiskSame, st' = Idle
  PROVE  ToolInv'
<1>1. SlotsType' /\ StagedWhole' /\ TargetClear'
  BY IdleFacts DEF ToolInv, DiskSame, SlotsType, StagedWhole, TargetClear
<1>2. LeavesInside' /\ SlotsWhole'
  BY DEF ToolInv, DiskSame, LeavesInside, SlotsWhole, Ready
<1> QED
  BY <1>1, <1>2 DEF ToolInv

LEMMA StartKeeps ==
  ASSUME ToolInv, CareKept, Start
  PROVE  ToolInv'
<1>1. PICK q \in Plans, target \in Names :
        /\ MayWrite(target, current)
        /\ st' = [at |-> 1, live |-> current, target |-> target, plan |-> q,
                  todo |-> DOMAIN q.layers, made |-> DirOf[target] \notin exists]
  BY DEF Start
<1>2. current \in Names /\ st.at = 0 /\ DiskSame
  BY DEF Start, DiskSame
<1>3. DOMAIN q.layers \subseteq Ids
  BY SlotsAssumption
<1>4. /\ st' \in ToolStates /\ st'.at = 1 /\ st'.live = current /\ st'.target = target /\ st'.plan = q
      /\ st'.todo = DOMAIN q.layers
  BY <1>1, <1>2, <1>3, StagePlaces DEF ToolStates, StagePlans
<1>5. SlotsType'
  BY <1>2, <1>4 DEF ToolInv, SlotsType, DiskSame
<1>6. LeavesInside' /\ SlotsWhole'
  BY <1>2 DEF ToolInv, DiskSame, LeavesInside, SlotsWhole, Ready
<1>7. StagedWhole'
  BY <1>4 DEF StagedWhole
<1>8. TargetClear'
  BY <1>1, <1>2, <1>4 DEF TargetClear, MayWrite, DiskSame, CareKept, Apt
<1> QED
  BY <1>5, <1>6, <1>7, <1>8 DEF ToolInv

(* What is ready for one plan stays ready: stage-layers.py makes what is   *)
(* missing and refuses what is there in another form.                      *)
LEMMA ReadyStays ==
  ASSUME ToolInv, NEW id \in Ids, NEW bytes \in Nat, ~Ready(id, bytes),
         ~(store[id].dir /\ Unfit(id, bytes)), store' = [store EXCEPT ![id] = Made(id, bytes)],
         NEW i \in Ids, NEW b \in Nat, Ready(i, b)
  PROVE  Ready(i, b)'
<1>1. store[id] \in [dir : BOOLEAN, upper : BOOLEAN, work : BOOLEAN, img : Nat]
      /\ (store[id].upper \/ store[id].img > 0 => store[id].dir) /\ (store[id].work => store[id].upper)
  BY DEF ToolInv, SlotsType, LeavesInside
<1>2. CASE i # id
  <2>1. store'[i] = store[i]
    BY <1>2 DEF ToolInv, SlotsType
  <2> QED
    BY <2>1 DEF Ready
<1>3. CASE i = id
  <2>1. store'[id] = Made(id, bytes)
    BY DEF ToolInv, SlotsType
  <2>2. CASE ~store[id].dir
    BY <1>1, <1>3, <2>2 DEF Ready
  <2>3. CASE store[id].dir
    <3>1. bytes > 0 => ~store[id].upper /\ store[id].img = 0
      BY <1>1, <2>3 DEF Unfit, Ready
    <3>2. bytes = 0 => store[id].img = 0
      BY <1>1, <2>3 DEF Unfit
    <3>3. CASE bytes > 0
      BY <1>1, <1>3, <3>1, <3>3 DEF Ready
    <3>4. CASE bytes = 0
      BY <1>1, <1>3, <2>1, <2>3, <3>2, <3>4 DEF Ready, Made
    <3> QED
      BY <3>3, <3>4
  <2> QED
    BY <2>2, <2>3
<1> QED
  BY <1>2, <1>3

LEMMA StageLayerKeeps ==
  ASSUME ToolInv, CareKept, NEW id \in Ids, StageLayer(id)
  PROVE  ToolInv'
<1> DEFINE bytes == st.plan.layers[id].bytes
<1>1. /\ st.at = 4 /\ id \in st.todo /\ st \in ToolStates /\ st.plan \in Plans
      /\ st.todo \subseteq DOMAIN st.plan.layers /\ DOMAIN st.plan.layers \subseteq Ids
  BY StageAt, SlotsAssumption DEF ToolInv, SlotsType, StageLayer, StagedWhole
<1>2. bytes \in Nat
  BY <1>1, SlotsAssumption
<1>3. UNCHANGED <<slot, current, running>>
  BY DEF StageLayer
<1>4. CASE Ready(id, bytes) /\ st' = [st EXCEPT !.todo = @ \ {id}] /\ UNCHANGED store
  <2>1. st' \in ToolStates /\ st'.at = 4 /\ st'.todo = st.todo \ {id} /\ SameStage
    BY <1>1, <1>4 DEF ToolStates, SameStage
  <2>2. SlotsType'
    BY <1>3, <1>4, <2>1, <1>1 DEF ToolInv, SlotsType, SameStage
  <2>3. LeavesInside' /\ SlotsWhole'
    BY <1>3, <1>4 DEF ToolInv, LeavesInside, SlotsWhole, Ready
  <2>4. StagedWhole'
    <3>1. \A i \in DOMAIN st.plan.layers \ st'.todo : Ready(i, st.plan.layers[i].bytes)
      BY <1>1, <1>4, <2>1 DEF ToolInv, StagedWhole
    <3>2. \A i, b : Ready(i, b)' = Ready(i, b)
      BY <1>4 DEF Ready
    <3> QED
      BY <1>1, <2>1, <3>1, <3>2 DEF ToolInv, StagedWhole, SameStage
  <2>5. TargetClear'
    BY <1>1, <1>3, <2>1 DEF ToolInv, TargetClear, SameStage, CareKept
  <2> QED
    BY <2>2, <2>3, <2>4, <2>5 DEF ToolInv
<1>5. CASE st' = Abort /\ UNCHANGED store
  BY <1>1, <1>3, <1>5, AbortFacts, ToolMoves DEF DiskSame
<1>6. CASE /\ ~Ready(id, bytes) /\ ~(store[id].dir /\ Unfit(id, bytes))
           /\ store' = [store EXCEPT ![id] = Made(id, bytes)] /\ UNCHANGED st
  <2>1. store[id] \in [dir : BOOLEAN, upper : BOOLEAN, work : BOOLEAN, img : Nat]
        /\ (store[id].upper \/ store[id].img > 0 => store[id].dir) /\ (store[id].work => store[id].upper)
    BY DEF ToolInv, SlotsType, LeavesInside
  <2>2. Made(id, bytes) \in [dir : BOOLEAN, upper : BOOLEAN, work : BOOLEAN, img : Nat]
    BY <2>1, <1>2 DEF Made
  <2>3. SlotsType'
    BY <2>2, <1>3, <1>6 DEF ToolInv, SlotsType
  <2>4. LeavesInside'
    <3>1. LET new == Made(id, bytes)
          IN  (new.upper \/ new.img > 0 => new.dir) /\ (new.work => new.upper)
      BY <2>1, <1>2 DEF Made
    <3>2. \A i \in Ids : store'[i] = IF i = id THEN Made(id, bytes) ELSE store[i]
      BY <1>6 DEF ToolInv, SlotsType
    <3> QED
      BY <3>1, <3>2 DEF ToolInv, LeavesInside
  <2>5. \A i \in Ids, b \in Nat : Ready(i, b) => Ready(i, b)'
    BY <1>2, <1>6, ReadyStays
  <2>6. SlotsWhole'
    <3> SUFFICES ASSUME NEW x \in Dirs, slot[x]["blob"] # None
                 PROVE  /\ slot[x]["blob"].ok
                        /\ \A i \in DOMAIN slot[x]["blob"].layers : Ready(i, slot[x]["blob"].layers[i].bytes)'
      BY <1>3 DEF SlotsWhole, Ready
    <3>1. slot[x]["blob"] \in Plans
      BY DEF ToolInv, SlotsType, StagePlans, Files
    <3>2. \A i \in DOMAIN slot[x]["blob"].layers : i \in Ids /\ slot[x]["blob"].layers[i].bytes \in Nat
      BY <3>1, SlotsAssumption
    <3>3. slot[x]["blob"].ok /\ \A i \in DOMAIN slot[x]["blob"].layers : Ready(i, slot[x]["blob"].layers[i].bytes)
      BY DEF ToolInv, SlotsWhole
    <3>4. ASSUME NEW i \in DOMAIN slot[x]["blob"].layers
          PROVE  Ready(i, slot[x]["blob"].layers[i].bytes)'
      <4>1. Ready(i, slot[x]["blob"].layers[i].bytes)
        BY <3>3
      <4> HIDE DEF Ready
      <4> QED
        BY <3>2, <2>5, <4>1, <1>3
    <3> QED
      BY <3>3, <3>4
  <2>7. StagedWhole'
    <3>1. \A i \in DOMAIN st.plan.layers : i \in Ids /\ st.plan.layers[i].bytes \in Nat
      BY <1>1, SlotsAssumption
    <3>2. ASSUME NEW i \in DOMAIN st.plan.layers \ st.todo
          PROVE  Ready(i, st.plan.layers[i].bytes)'
      <4>1. Ready(i, st.plan.layers[i].bytes)
        BY <1>1 DEF ToolInv, StagedWhole
      <4> QED
        BY <3>1, <2>5, <4>1, <1>6
    <3> QED
      BY <3>2, <1>6 DEF ToolInv, StagedWhole, Ready
  <2>8. TargetClear'
    BY <1>3, <1>6 DEF ToolInv, TargetClear, CareKept
  <2> QED
    BY <2>3, <2>4, <2>6, <2>7, <2>8 DEF ToolInv
<1> QED
  BY <1>4, <1>5, <1>6 DEF StageLayer

(* One of the three renames. *)
LEMMA RenameKeeps ==
  ASSUME ToolInv, CareKept, NEW name \in Files, Put(name), st' = Go, UNCHANGED <<current, store, running>>,
         st.at \in 5..7, name = "blob" => st.at = 7
  PROVE  ToolInv'
<1>1. st' \in ToolStates /\ st'.at = st.at + 1 /\ st'.todo = st.todo /\ SameStage
  BY GoFacts DEF ToolInv, SlotsType
<1>2. st.plan \in Plans /\ Target \in Dirs /\ st.plan \in StagePlans
  BY DEF ToolInv, SlotsType, Target, Dirs, StagePlans
<1>3. /\ slot' \in [Dirs -> [Files -> StagePlans]]
      /\ \A x \in Dirs : slot'[x]["blob"] = IF x = Target /\ name = "blob" THEN st.plan ELSE slot[x]["blob"]
  BY <1>2 DEF ToolInv, SlotsType, Put, Files
<1>4. SlotsType'
  BY <1>1, <1>3 DEF ToolInv, SlotsType, SameStage
<1>5. LeavesInside'
  BY DEF ToolInv, LeavesInside
<1>6. \A i, b : Ready(i, b)' = Ready(i, b)
  BY DEF Ready
<1>7. SlotsWhole'
  <2>1. st.at = 7 => st.plan.ok /\ \A i \in DOMAIN st.plan.layers : Ready(i, st.plan.layers[i].bytes)
    BY DEF ToolInv, StagedWhole
  <2> QED
    BY <1>3, <1>6, <2>1 DEF ToolInv, SlotsWhole
<1>8. StagedWhole'
  BY <1>1, <1>6 DEF ToolInv, StagedWhole, SameStage
<1>9. TargetClear'
  BY <1>1 DEF ToolInv, TargetClear, SameStage, CareKept
<1> QED
  BY <1>4, <1>5, <1>7, <1>8, <1>9 DEF ToolInv

LEMMA ToolKeeps ==
  ASSUME ToolInv, CareKept, Tool
  PROVE  ToolInv'
<1>1. st \in ToolStates
  BY DEF ToolInv, SlotsType
<1>2. CASE Start
  BY <1>2, StartKeeps
<1>3. CASE Bake \/ NwCheck \/ Clash \/ LayersDone
  <2>1. DiskSame
    BY <1>3 DEF Bake, NwCheck, Clash, LayersDone, DiskSame
  <2>2. \/ st' = Abort /\ st.at > 0
        \/ st' = Go /\ st.at \in 1..4 /\ (st.at = 2 => st.plan.ok) /\ (st.at = 4 => st.todo = {})
    BY <1>1, <1>3, StageAt DEF Bake, NwCheck, Clash, LayersDone
  <2>3. CASE st' = Abort /\ st.at > 0
    BY <1>1, <2>1, <2>3, AbortFacts, ToolMoves
  <2>4. CASE st' = Go /\ st.at \in 1..4 /\ (st.at = 2 => st.plan.ok) /\ (st.at = 4 => st.todo = {})
    <3>1. st.at < 8 /\ st.at > 0
      BY <2>4
    <3> QED
      BY <1>1, <2>1, <2>4, <3>1, GoFacts, ToolMoves
  <2> QED
    BY <2>2, <2>3, <2>4
<1>4. CASE \E id \in Ids : StageLayer(id)
  BY <1>4, StageLayerKeeps
<1>5. CASE RenameSha \/ RenameList \/ RenameBlob
  BY <1>1, <1>5, StageAt, RenameKeeps DEF RenameSha, RenameList, RenameBlob, Files
<1>6. CASE Raise
  BY <1>1, <1>6, AbortFacts, ToolMoves DEF Raise, DiskSame
<1>7. CASE Cleanup \/ KillTool
  BY <1>7, ToolStops DEF Cleanup, KillTool, DiskSame
<1> QED
  BY <1>2, <1>3, <1>4, <1>5, <1>6, <1>7 DEF Tool

(***************************************************************************)
(* The boots                                                               *)
(***************************************************************************)
LEMMA InitBoot ==
  ASSUME Init
  PROVE  BootInv
<1>1. machine \in Machines /\ d = Begin(machine) /\ phase = "dawn" /\ booting = "none" /\ running = "none"
      /\ st = Idle /\ ~overrun /\ current = FirstSlot
  BY DEF Init, DawnInit, SlotsInit
<1>2. d \in DawnStates /\ d.at = 1 /\ d.end = "none"
  BY <1>1, DawnAssumption, DawnPlaces DEF Begin, DawnStates, Paths, Skeleton
<1>3. DawnMade
  BY <1>1, <1>2, DawnPlaces DEF DawnMade
<1>4. BootOrder /\ HaltMeaning /\ PlanReadWhole
  BY <1>1 DEF BootOrder, HaltMeaning, PlanReadWhole
<1>5. StagedWhole /\ TargetClear
  BY <1>1, IdleFacts DEF StagedWhole, TargetClear
<1>6. \A x \in Dirs : slot[x]["blob"] \in {FirstPlan, None}
  BY DEF Init, SlotsInit
<1>7. slot \in [Dirs -> [Files -> StagePlans]]
  BY SlotsAssumption DEF Init, SlotsInit, Files, StagePlans
<1>8. \A i \in DOMAIN FirstPlan.layers : i \in Ids /\ FirstPlan.layers[i].bytes \in Nat
  BY SlotsAssumption
<1>9. store \in [Ids -> [dir : BOOLEAN, upper : BOOLEAN, work : BOOLEAN, img : Nat]]
  BY <1>8 DEF Init, SlotsInit, NoStore
<1>10. SlotsType
  BY <1>1, <1>7, <1>9, IdleFacts, BootAssumption DEF SlotsType
<1>11. LeavesInside
  BY <1>8 DEF Init, SlotsInit, NoStore, LeavesInside
<1>12. ASSUME NEW i \in DOMAIN FirstPlan.layers
       PROVE  Ready(i, FirstPlan.layers[i].bytes)
  <2>1. LET b == FirstPlan.layers[i].bytes
        IN  store[i] = [dir |-> TRUE, upper |-> b = 0, work |-> b = 0, img |-> b]
    BY <1>8 DEF Init, SlotsInit
  <2>2. CASE FirstPlan.layers[i].bytes = 0
    <3>1. store[i] = [dir |-> TRUE, upper |-> TRUE, work |-> TRUE, img |-> 0]
      BY <2>1, <2>2
    <3> QED
      BY <2>2, <3>1 DEF Ready
  <2>3. CASE FirstPlan.layers[i].bytes > 0
    BY <2>1, <2>3 DEF Ready
  <2> QED
    BY <1>8, <2>2, <2>3
<1>13. SlotsWhole
  BY <1>6, <1>12, SlotsAssumption DEF SlotsWhole
<1> QED
  BY <1>3, <1>4, <1>5, <1>10, <1>11, <1>13 DEF BootInv

(* What a step that leaves the slots alone keeps. *)
LEMMA SlotsSame ==
  ASSUME BootInv, UNCHANGED slotVars, careful' = careful
  PROVE  SlotsType' /\ LeavesInside' /\ StagedWhole' /\ SlotsWhole' /\ TargetClear'
  BY DEF BootInv, slotVars, SlotsType, LeavesInside, StagedWhole, SlotsWhole, TargetClear, Ready

LEMMA DawnSame ==
  ASSUME BootInv, UNCHANGED dawnVars
  PROVE  DawnMade'
  BY DEF BootInv, dawnVars, DawnMade

LEMMA DawnStepKeeps ==
  ASSUME BootInv, DawnStep
  PROVE  BootInv'
<1>1. DawnMade'
  BY DawnKeeps DEF BootInv, DawnStep
<1>2. UNCHANGED slotVars /\ careful' = careful
  BY DEF DawnStep
<1>3. d'.end \in {"none", "exec", "refused"}
  BY <1>1 DEF DawnMade, DawnStates
<1>4. BootOrder' /\ HaltMeaning' /\ PlanReadWhole'
  BY <1>3 DEF BootInv, BootOrder, HaltMeaning, PlanReadWhole, DawnStep, slotVars
<1> QED
  BY <1>1, <1>2, <1>4, SlotsSame DEF BootInv

LEMMA ReadPointerKeeps ==
  ASSUME BootInv, ReadPointer
  PROVE  BootInv'
<1>1. UNCHANGED slotVars /\ UNCHANGED dawnVars /\ careful' = careful
  BY DEF ReadPointer, Halt
<1>2. BootOrder'
  BY <1>1 DEF BootInv, BootOrder, ReadPointer, Halt, slotVars, dawnVars, Dirs
<1>3. HaltMeaning' /\ PlanReadWhole'
  BY DEF BootInv, BootOrder, HaltMeaning, PlanReadWhole, ReadPointer, Halt
<1> QED
  BY <1>1, <1>2, <1>3, SlotsSame, DawnSame DEF BootInv

(* What a read of the plan finds: another's file, or what was staged. *)
LEMMA FoundFacts ==
  ASSUME BootInv, booting \in Dirs, NEW f \in Found
  PROVE  /\ f.size \in Nat
         /\ \/ f \in Others
            \/ /\ f.plan = slot[booting].blob /\ f.size = f.plan.len
               /\ f.plan # None => f.plan.ok /\ f.size \in 1..BlobMax
<1>1. CASE f \in Others
  BY <1>1, BootAssumption
<1>2. CASE f = [plan |-> slot[booting].blob, size |-> slot[booting].blob.len]
  <2>1. slot[booting].blob \in StagePlans
    BY DEF BootInv, SlotsType, Files
  <2>2. CASE slot[booting].blob = None
    BY <1>2, <2>2 DEF None
  <2>3. CASE slot[booting].blob # None
    <3>1. slot[booting].blob.len \in 1..BlobMax /\ slot[booting].blob.ok
      BY <2>1, <2>3, BootAssumption DEF BootInv, SlotsWhole, StagePlans
    <3> QED
      BY <1>2, <3>1, BootAssumption
  <2> QED
    BY <2>2, <2>3
<1> QED
  BY <1>1, <1>2 DEF Found

LEMMA ReadPlanKeeps ==
  ASSUME BootInv, ReadPlan
  PROVE  BootInv'
<1>1. UNCHANGED slotVars /\ UNCHANGED dawnVars /\ careful' = careful /\ booting \in Dirs /\ booting' = booting /\ phase = "plan"
  BY DEF ReadPlan, Halt, BootInv, BootOrder
<1>2. PICK f \in Found :
        /\ file' = f
        /\ overrun' = (SizeFits(f.size) /\ f.size > BlobMax + 1)
        /\ IF SizeFits(f.size) /\ nw_check(f, f.size)
             THEN phase' = "spawn" /\ sealed' = f.plan
             ELSE phase' = "halt" /\ sealed' = sealed
  BY DEF ReadPlan, Halt
<1>3. /\ f.size \in Nat
      /\ \/ f \in Others
         \/ /\ f.plan = slot[booting].blob /\ f.size = f.plan.len
            /\ f.plan # None => f.plan.ok /\ f.size \in 1..BlobMax
  BY <1>1, FoundFacts
<1>4. BootOrder'
  BY <1>1, <1>2 DEF BootInv, BootOrder, slotVars, dawnVars, nw_check
<1>5. PlanReadWhole'
  <2>1. ~(SizeFits(f.size) /\ f.size > BlobMax + 1)
    BY <1>3, BootAssumption DEF SizeFits
  <2>2. phase' # "up"
    BY <1>2
  <2> QED
    BY <1>2, <2>1, <2>2 DEF PlanReadWhole
<1>6. HaltMeaning'
  <2>1. phase' = "halt" => f \in Others \/ slot[booting].blob = None
    BY <1>2, <1>3, BootAssumption DEF SizeFits, nw_check
  <2> QED
    BY <1>1, <1>2, <2>1 DEF HaltMeaning, slotVars
<1> QED
  BY <1>1, <1>4, <1>5, <1>6, SlotsSame, DawnSame DEF BootInv

LEMMA SpawnPlanKeeps ==
  ASSUME BootInv, SpawnPlan
  PROVE  BootInv'
<1>1. /\ UNCHANGED <<slot, current, store, st>> /\ UNCHANGED dawnVars /\ booting \in Dirs /\ booting' = booting
      /\ phase = "spawn" /\ sealed' = sealed /\ overrun' = overrun /\ st = Idle /\ sealed.ok /\ running = "none"
  BY DEF SpawnPlan, Halt, BootInv, BootOrder, slotVars
<1>2. PICK f \in Found :
        /\ file' = f
        /\ IF SpawnAccepts(f) THEN phase' = "up" /\ running' = booting /\ last' = f.plan
           ELSE phase' = "halt" /\ running' = running
  BY DEF SpawnPlan, Halt, slotVars
<1>3. /\ f.size \in Nat
      /\ \/ f \in Others
         \/ /\ f.plan = slot[booting].blob /\ f.size = f.plan.len
            /\ f.plan # None => f.plan.ok /\ f.size \in 1..BlobMax
  BY <1>1, FoundFacts
<1>4. BootOrder'
  BY <1>1, <1>2 DEF BootInv, BootOrder, dawnVars
<1>5. PlanReadWhole'
  BY <1>1, <1>2, <1>3, BootAssumption DEF BootInv, PlanReadWhole, SpawnAccepts, nw_check
<1>6. HaltMeaning'
  <2>1. phase' = "halt" /\ f \notin Others => slot[booting].blob = None \/ slot[booting].blob.units # sealed.units
    BY <1>2, <1>3, BootAssumption DEF SpawnAccepts, nw_check
  <2>2. sealed # None
    BY <1>1 DEF None
  <2> QED
    BY <1>1, <1>2, <2>1, <2>2 DEF HaltMeaning
<1>7. SlotsType' /\ LeavesInside' /\ SlotsWhole'
  BY <1>1 DEF BootInv, SlotsType, LeavesInside, SlotsWhole, Ready
<1>8. StagedWhole' /\ TargetClear'
  BY <1>1, IdleFacts DEF StagedWhole, TargetClear
<1> QED
  BY <1>1, <1>4, <1>5, <1>6, <1>7, <1>8, DawnSame DEF BootInv

LEMMA UpKeeps ==
  ASSUME BootInv, ToolStep \/ SwitchStep
  PROVE  BootInv'
<1>1. /\ UNCHANGED <<dawnVars, phase, booting, sealed, file, overrun, last>>
      /\ phase = "up" /\ running' = running
  BY DEF ToolStep, bootVars, SwitchStep, Switch, Tool, Start, Bake, NwCheck, Clash, StageLayer, LayersDone,
         RenameSha, RenameList, RenameBlob, Cleanup, Raise, KillTool
<1>2. BootOrder' /\ HaltMeaning' /\ PlanReadWhole'
  BY <1>1 DEF BootInv, BootOrder, HaltMeaning, PlanReadWhole, dawnVars
<1>3. CASE ToolStep
  BY <1>1, <1>2, <1>3, ToolCare, ToolKeeps, DawnSame DEF BootInv, ToolInv, ToolStep
<1>4. CASE SwitchStep
  <2>1. SlotsType' /\ LeavesInside' /\ StagedWhole' /\ SlotsWhole' /\ TargetClear'
    BY <1>4 DEF BootInv, SwitchStep, bootVars, Switch, SlotsType, LeavesInside, StagedWhole, SlotsWhole, TargetClear, Ready
  <2> QED
    BY <1>1, <1>2, <2>1, DawnSame DEF BootInv
<1> QED
  BY <1>3, <1>4

LEMMA RebootKeeps ==
  ASSUME BootInv, Reboot
  PROVE  BootInv'
<1>1. /\ UNCHANGED <<machine, slot, current, store, overrun>> /\ st' = Idle /\ running' = "none"
      /\ phase' = "dawn" /\ booting' = "none" /\ d' = Begin(machine)
  BY DEF Reboot
<1>2. machine \in Machines
  BY DEF BootInv, DawnMade
<1>3. d' \in DawnStates /\ d'.at = 1 /\ d'.end = "none"
  BY <1>1, <1>2, DawnAssumption, DawnPlaces DEF Begin, DawnStates, Paths, Skeleton
<1>4. DawnMade'
  BY <1>1, <1>2, <1>3, DawnPlaces DEF DawnMade
<1>5. BootOrder' /\ HaltMeaning' /\ PlanReadWhole'
  BY <1>1 DEF BootInv, BootOrder, HaltMeaning, PlanReadWhole
<1>6. SlotsType' /\ StagedWhole' /\ TargetClear'
  BY <1>1, IdleFacts DEF BootInv, SlotsType, StagedWhole, TargetClear
<1>7. LeavesInside' /\ SlotsWhole'
  BY <1>1 DEF BootInv, LeavesInside, SlotsWhole, Ready
<1> QED
  BY <1>4, <1>5, <1>6, <1>7 DEF BootInv

LEMMA StepBoot ==
  ASSUME BootInv, [Next]_vars
  PROVE  BootInv'
<1>1. CASE Next
  BY <1>1, DawnStepKeeps, ReadPointerKeeps, ReadPlanKeeps, SpawnPlanKeeps, UpKeeps, RebootKeeps DEF Next
<1>2. CASE UNCHANGED vars
  <2>1. UNCHANGED slotVars /\ UNCHANGED dawnVars /\ UNCHANGED bootVars /\ careful' = careful
    BY <1>2 DEF vars, bootVars
  <2>2. BootOrder' /\ HaltMeaning' /\ PlanReadWhole'
    BY <2>1 DEF BootInv, BootOrder, HaltMeaning, PlanReadWhole, slotVars, dawnVars, bootVars
  <2> QED
    BY <2>1, <2>2, SlotsSame, DawnSame DEF BootInv
<1> QED
  BY <1>1, <1>2

(* Everything that holds at every instant of every boot. *)
THEOREM BootInvariant == Spec => []BootInv
<1> QED
  BY InitBoot, StepBoot, PTL DEF Spec

(* PID 1 starts in a complete real root, whatever the initramfs was and    *)
(* whatever had been mounted, and dawn never brings a failure on itself.   *)
THEOREM DawnLeavesReady == Spec => []DawnReady
<1>1. BootInv => DawnReady
  BY DawnPlaces DEF BootInv, DawnMade, DawnStates, BootOrder, DawnReady
<1> QED
  BY <1>1, BootInvariant, PTL

(* A staged slot is bootable after any interruption, any number of stages  *)
(* and any number of boots.                                                *)
THEOREM StagedSlotsBoot == Spec => []BootsWhole
<1>1. BootInv => BootsWhole
  BY DEF BootInv, SlotsWhole, HaltMeaning, BootsWhole
<1> QED
  BY <1>1, BootInvariant, PTL

(* No city is started from a file that was not read whole and checked.     *)
THEOREM NoPartialPlan == Spec => []PlanReadWhole
<1>1. BootInv => PlanReadWhole
  BY DEF BootInv
<1> QED
  BY <1>1, BootInvariant, PTL

(***************************************************************************)
(* The bricks under the layers                                             *)
(***************************************************************************)
LEMMA CompatibleFacts ==
  /\ \A q, r : Compatible(q, r) => Compatible(r, q)
  /\ \A q : Compatible(q, q)
  /\ \A q, r : Bare(q) => Compatible(q, r)
  BY DEF Compatible, Bare

LEMMA NoneBare == Bare(None)
<1>1. None.layers = [i \in {} |-> 0]
  BY DEF None
<1> QED
  BY <1>1 DEF Bare

LEMMA InitBricks ==
  ASSUME Init
  PROVE  BricksInv
<1>1. st = Idle /\ phase = "dawn" /\ last = None
  BY DEF Init, SlotsInit
<1>2. /\ \A x \in Dirs : \/ slot[x].blob = FirstPlan /\ slot[x].sha = FirstPlan /\ slot[x].list = FirstPlan
                         \/ slot[x].blob = None /\ slot[x].sha = None /\ slot[x].list = None
      /\ \A x \in Dirs : slot[x].blob = FirstPlan => x = DirOf[FirstSlot]
  BY SlotsAssumption DEF Init, SlotsInit
<1>3. \A x, y \in Dirs : x # y => Compatible(slot[x].blob, slot[y].blob)
  <2>1. \A x, y \in Dirs : x # y => slot[x].blob = None \/ slot[y].blob = None
    BY <1>2
  <2> QED
    BY <2>1, CompatibleFacts, NoneBare
<1>4. SidecarsTrusted
  BY <1>2 DEF SidecarsTrusted
<1> QED
  BY <1>1, <1>3, <1>4, NoneBare, IdleFacts DEF BricksInv

(* A step that leaves the slots, and the tool where it is or at rest. *)
LEMMA BricksSame ==
  ASSUME BricksInv, slot' = slot, st' = st \/ st'.at \in {0, 8}, last' = last,
         phase' = "up" => phase = "up" /\ running' = running
  PROVE  BricksInv'
<1>1. SidecarsTrusted'
  BY DEF BricksInv, SidecarsTrusted
<1>2. /\ \A x, y \in Dirs : x # y => Compatible(slot'[x].blob, slot'[y].blob)
      /\ Bare(last') \/ \E x \in Dirs : last' = slot'[x].blob
      /\ phase' = "up" => Bare(last') \/ last' = slot'[running'].blob
  BY DEF BricksInv
<1>3. CASE st' = st
  BY <1>1, <1>2, <1>3 DEF BricksInv, Target, Compatible, Bare
<1>4. CASE st'.at \in {0, 8}
  BY <1>1, <1>2, <1>4 DEF BricksInv, Compatible, Bare
<1> QED
  BY <1>3, <1>4

(* The tool's steps before the renames. *)
LEMMA BricksMove ==
  ASSUME BricksInv, BootInv, slot' = slot, UNCHANGED <<last, phase, running>>, SameStage,
         st.at \in 1..4, st'.at \in {st.at, st.at + 1},
         st.at = 3 => Compatible(st.plan, slot[DirOf[st.live]].blob)
  PROVE  BricksInv'
<1>1. SidecarsTrusted'
  BY DEF BricksInv, SidecarsTrusted
<1>2. /\ \A x, y \in Dirs : x # y => Compatible(slot'[x].blob, slot'[y].blob)
      /\ Bare(last') \/ \E x \in Dirs : last' = slot'[x].blob
      /\ phase' = "up" => Bare(last') \/ last' = slot'[running'].blob
  BY DEF BricksInv
<1>3. /\ st'.plan = st.plan /\ st'.live = st.live /\ Target' = Target
      /\ st'.at \in 1..5 /\ (st'.at > 3 => st.at > 2)
  BY DEF SameStage, Target
<1>4. st'.plan # slot'[Target'].blob
  BY <1>3 DEF BricksInv
<1>5. st'.at > 3 => Compatible(st'.plan, slot'[DirOf[st'.live]].blob)
  BY <1>3 DEF BricksInv
<1> QED
  BY <1>1, <1>2, <1>3, <1>4, <1>5 DEF BricksInv, Compatible, Bare

LEMMA BricksStart ==
  ASSUME BricksInv, Apt, Start, UNCHANGED <<last, phase>>
  PROVE  BricksInv'
<1>1. SidecarsTrusted'
  BY DEF BricksInv, SidecarsTrusted, Start
<1>2. /\ \A x, y \in Dirs : x # y => Compatible(slot'[x].blob, slot'[y].blob)
      /\ Bare(last') \/ \E x \in Dirs : last' = slot'[x].blob
      /\ phase' = "up" => Bare(last') \/ last' = slot'[running'].blob
  BY DEF BricksInv, Start
<1>3. st'.at = 1 /\ st'.plan # slot'[Target'].blob
  BY DEF Start, Apt, Target
<1> QED
  BY <1>1, <1>2, <1>3 DEF BricksInv, Compatible, Bare

(* With the sidecars in their order, the sidecars that the clash check     *)
(* reads are those of the blob.                                            *)
LEMMA ClashMeans ==
  ASSUME BricksInv, BootInv, st.at = 3, NoClash(st.plan, slot[DirOf[st.live]])
  PROVE  Compatible(st.plan, slot[DirOf[st.live]].blob)
<1>1. DirOf[st.live] \in Dirs
  BY DEF BootInv, SlotsType, Dirs
<1>2. slot[DirOf[st.live]].list = slot[DirOf[st.live]].blob
  BY <1>1 DEF BricksInv, SidecarsTrusted, NoClash
<1> QED
  BY <1>2 DEF NoClash, Compatible

(* One of the three renames. *)
LEMMA BricksRename ==
  ASSUME BricksInv, BootInv, Orderly, careful, phase = "up", NEW name \in Files, Put(name), st' = Go,
         UNCHANGED <<last, phase, running>>,
         name = "sha" => st.at = 5, name = "list" => st.at = 6, name = "blob" => st.at = 7
  PROVE  BricksInv'
<1>1. st.at \in 5..7
  BY DEF Files
<1>2. st' \in ToolStates /\ st'.at = st.at + 1 /\ SameStage
  BY <1>1, GoFacts DEF BootInv, SlotsType
<1>3. st.plan \in StagePlans /\ Target \in Dirs /\ Target' = Target /\ st'.plan = st.plan /\ st'.live = st.live
  BY <1>1, <1>2 DEF BootInv, SlotsType, Target, Dirs, StagePlans, SameStage
<1>4. /\ DirOf[st.live] \in Dirs /\ Target # DirOf[st.live] /\ Target # running /\ running \in Dirs
      /\ DirOf[st.live] = running
  BY <1>1 DEF BootInv, SlotsType, TargetClear, BootOrder, Target, Dirs
<1>5. \A x \in Dirs, g \in Files : slot'[x][g] = IF x = Target /\ g = name THEN st.plan ELSE slot[x][g]
  BY <1>3 DEF BootInv, SlotsType, Put
<1>6. \A x \in Dirs : /\ slot'[x].blob = IF x = Target /\ name = "blob" THEN st.plan ELSE slot[x].blob
                      /\ slot'[x].sha = IF x = Target /\ name = "sha" THEN st.plan ELSE slot[x].sha
                      /\ slot'[x].list = IF x = Target /\ name = "list" THEN st.plan ELSE slot[x].list
  BY <1>5 DEF Files
<1>7. /\ st.plan # slot[Target].blob
      /\ st.at \in 6..7 => slot[Target].sha = st.plan
      /\ st.at = 7 => slot[Target].list = st.plan
      /\ Compatible(st.plan, slot[DirOf[st.live]].blob)
  BY <1>1 DEF BricksInv
<1>8. SidecarsTrusted'
  <2> SUFFICES ASSUME NEW x \in Dirs, slot'[x].sha = slot'[x].blob
               PROVE  slot'[x].list = slot'[x].blob
    BY DEF SidecarsTrusted
  <2>1. CASE x # Target
    BY <1>6, <2>1 DEF BricksInv, SidecarsTrusted
  <2>2. CASE x = Target
    BY <1>6, <1>7, <2>2 DEF Files
  <2> QED
    BY <2>1, <2>2
<1>9. \A x, y \in Dirs : x # y => Compatible(slot'[x].blob, slot'[y].blob)
  <2> SUFFICES ASSUME NEW x \in Dirs, NEW y \in Dirs, x # y
               PROVE  Compatible(slot'[x].blob, slot'[y].blob)
    OBVIOUS
  <2>1. Compatible(slot[x].blob, slot[y].blob)
    BY DEF BricksInv
  <2>2. CASE name # "blob" \/ Target \notin {x, y}
    BY <1>6, <2>1, <2>2
  <2>3. CASE name = "blob" /\ x = Target
    <3>1. y = DirOf[st.live]
      BY <1>3, <1>4, <2>3 DEF Orderly
    <3> QED
      BY <1>4, <1>6, <1>7, <2>3, <3>1
  <2>4. CASE name = "blob" /\ y = Target
    <3>1. x = DirOf[st.live]
      BY <1>3, <1>4, <2>4 DEF Orderly
    <3> QED
      BY <1>4, <1>6, <1>7, <2>4, <3>1, CompatibleFacts
  <2> QED
    BY <2>2, <2>3, <2>4
<1>10. Bare(last) \/ last = slot'[running].blob
  BY <1>4, <1>6 DEF BricksInv
<1>11. /\ st'.at < 8 => st'.plan # slot'[Target'].blob
       /\ st'.at \in 6..7 => slot'[Target'].sha = st'.plan
       /\ st'.at = 7 => slot'[Target'].list = st'.plan
  BY <1>1, <1>2, <1>3, <1>6, <1>7 DEF Files
<1>12. Compatible(st'.plan, slot'[DirOf[st'.live]].blob)
  BY <1>3, <1>4, <1>6, <1>7
<1>13. st'.at \in 6..8
  BY <1>1, <1>2
<1> QED
  BY <1>4, <1>8, <1>9, <1>10, <1>11, <1>12, <1>13 DEF BricksInv, Compatible, Bare

LEMMA BricksTool ==
  ASSUME BricksInv, BootInv, Orderly, careful, ToolStep, CareKept, careful'
  PROVE  BricksInv'
<1>1. st \in ToolStates /\ phase = "up" /\ Tool /\ UNCHANGED <<last, phase>> /\ running' = running
  BY DEF BootInv, SlotsType, ToolStep, bootVars, Tool, Start, Bake, NwCheck, Clash, StageLayer, LayersDone,
         RenameSha, RenameList, RenameBlob, Cleanup, Raise, KillTool
<1>2. CASE Start
  <2>1. Apt
    BY <1>2 DEF Start, CareKept
  <2> QED
    BY <1>1, <1>2, <2>1, BricksStart
<1>3. CASE Bake \/ NwCheck \/ Clash \/ LayersDone
  <2>1. slot' = slot
    BY <1>3 DEF Bake, NwCheck, Clash, LayersDone
  <2>2. CASE st' = Abort
    BY <1>1, <2>1, <2>2, AbortFacts, BricksSame
  <2>3. CASE st' = Go /\ st.at \in 1..4 /\ (st.at = 3 => NoClash(st.plan, slot[DirOf[st.live]]))
    <3>1. st' \in ToolStates /\ st'.at = st.at + 1 /\ SameStage
      BY <1>1, <2>3, GoFacts
    <3>2. st.at = 3 => Compatible(st.plan, slot[DirOf[st.live]].blob)
      BY <2>3, ClashMeans
    <3> QED
      BY <1>1, <2>1, <2>3, <3>1, <3>2, BricksMove
  <2> QED
    BY <1>1, <1>3, <2>2, <2>3, StageAt DEF Bake, NwCheck, Clash, LayersDone
<1>4. CASE \E id \in Ids : StageLayer(id)
  <2>1. st.at = 4 /\ slot' = slot
    BY <1>1, <1>4, StageAt DEF StageLayer
  <2>2. CASE st' = Abort
    BY <1>1, <2>1, <2>2, AbortFacts, BricksSame
  <2>3. CASE st' = st
    BY <1>1, <2>1, <2>3, BricksSame
  <2>4. CASE \E id \in Ids : st' = [st EXCEPT !.todo = @ \ {id}]
    <3>1. SameStage /\ st'.at = st.at
      BY <1>1, <2>4 DEF SameStage, ToolStates
    <3> QED
      BY <1>1, <2>1, <3>1, BricksMove
  <2> QED
    BY <1>4, <2>2, <2>3, <2>4 DEF StageLayer
<1>5. CASE RenameSha \/ RenameList \/ RenameBlob
  BY <1>1, <1>5, StageAt, BricksRename DEF RenameSha, RenameList, RenameBlob, Files
<1>6. CASE Raise
  BY <1>1, <1>6, AbortFacts, BricksSame DEF Raise
<1>7. CASE Cleanup \/ KillTool
  BY <1>1, <1>7, IdleFacts, BricksSame DEF Cleanup, KillTool
<1> QED
  BY <1>1, <1>2, <1>3, <1>4, <1>5, <1>6, <1>7 DEF Tool

(* A new city is what a slot holds, or has no layers. *)
LEMMA BricksSpawn ==
  ASSUME BricksInv, BootInv, Orderly, SpawnPlan
  PROVE  BricksInv' /\ (phase' = "up" => Compatible(last', last))
<1>1. st' = st /\ slot' = slot /\ booting \in Dirs
  BY DEF SpawnPlan, Halt, slotVars, BootInv, BootOrder
<1>2. CASE phase' = "halt" /\ last' = last
  BY <1>1, <1>2, BricksSame
<1>3. CASE \E f \in Found : phase' = "up" /\ running' = booting /\ last' = f.plan
  <2>1. PICK f \in Found : phase' = "up" /\ running' = booting /\ last' = f.plan
    BY <1>3
  <2>2. Bare(last') \/ last' = slot[booting].blob
    BY <2>1 DEF Found, Orderly
  <2>3. Compatible(last', last)
    BY <1>1, <2>1, <2>2, CompatibleFacts DEF BricksInv
  <2>4. st = Idle
    BY DEF BootInv, BootOrder, SpawnPlan
  <2>5. SidecarsTrusted' /\ \A x, y \in Dirs : x # y => Compatible(slot'[x].blob, slot'[y].blob)
    BY <1>1 DEF BricksInv, SidecarsTrusted
  <2>6. BricksInv'
    BY <1>1, <2>1, <2>2, <2>4, <2>5, IdleFacts DEF BricksInv, Compatible, Bare
  <2> QED
    BY <2>3, <2>6
<1> QED
  BY <1>2, <1>3 DEF SpawnPlan, Halt

(* With care so far. *)
CarefulBricks == careful => BricksInv

LEMMA StepBricks ==
  ASSUME BootInv, Orderly, CarefulBricks, [Next]_vars
  PROVE  CarefulBricks' /\ (careful /\ phase' = "up" => Compatible(last', last))
<1>1. CASE SpawnPlan
  <2>1. careful' = careful
    BY <1>1 DEF SpawnPlan, Halt
  <2> QED
    BY <1>1, <2>1, BricksSpawn DEF CarefulBricks
<1>2. CASE ToolStep
  <2>1. CareKept /\ Compatible(last', last)
    BY <1>2, ToolCare, CompatibleFacts DEF ToolStep
  <2>2. careful' => BricksInv'
    BY <1>2, <2>1, BricksTool DEF CareKept, CarefulBricks
  <2> QED
    BY <2>1, <2>2 DEF CarefulBricks
<1>3. CASE DawnStep \/ ReadPointer \/ ReadPlan \/ SwitchStep \/ Reboot \/ UNCHANGED vars
  <2>1. slot' = slot /\ last' = last /\ careful' = careful
    BY <1>3 DEF DawnStep, ReadPointer, ReadPlan, Halt, SwitchStep, Switch, Reboot, vars, slotVars, bootVars
  <2>2. st' = st \/ st' = Idle
    BY <1>3 DEF DawnStep, ReadPointer, ReadPlan, Halt, SwitchStep, Switch, Reboot, vars, slotVars
  <2>3. phase' = "up" => phase = "up" /\ running' = running
    BY <1>3 DEF DawnStep, ReadPointer, ReadPlan, Halt, SwitchStep, Switch, Reboot, vars, slotVars, bootVars
  <2>4. careful => BricksInv'
    BY <2>1, <2>2, <2>3, IdleFacts, BricksSame DEF CarefulBricks
  <2> QED
    BY <2>1, <2>4, CompatibleFacts DEF CarefulBricks
<1> QED
  BY <1>1, <1>2, <1>3 DEF Next

(* From one city to the next no layer changes its brick, when the tool is  *)
(* run with care and two slots are used in turn: the clash check looks at  *)
(* the slot that the pointer names only, so that a third slot could hold a *)
(* plan it has never been compared with.                                   *)
THEOREM LayersKeepBricks == Orderly => (Spec => BricksKept)
<1> SUFFICES ASSUME Orderly
             PROVE  Spec => BricksKept
  OBVIOUS
<1>1. Init => CarefulBricks
  BY InitBricks DEF CarefulBricks
<1>2. BootInv /\ CarefulBricks /\ [Next]_vars => CarefulBricks'
  BY StepBricks
<1>3. BootInv /\ CarefulBricks /\ [Next]_vars => [careful /\ phase' = "up" => Compatible(last', last)]_vars
  BY StepBricks
<1> QED
  BY <1>1, <1>2, <1>3, BootInvariant, PTL DEF Spec, BricksKept
===============================================================================
