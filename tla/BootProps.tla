------------------------------ MODULE BootProps ------------------------------
(* What a boot finds, whatever was interrupted before it. *)
EXTENDS Boot

(* PID 1 starts in the real root with everything it, nw-sup and the        *)
(* loggers use in place, the ESP read-only and nothing left of the         *)
(* initramfs, by pivot_root or by MS_MOVE; and dawn never fails for a      *)
(* thing it did or left undone itself.                                     *)
DawnReady ==
  /\ d.end # "own"
  /\ phase \in {"pointer", "plan", "spawn", "up"} =>
       /\ d.root = "real" /\ d.private /\ d.old = "gone" /\ d.dirs = Skeleton
       /\ {"/efi", "/proc", "/sys", "/dev", "/run", "/tmp", "/cgroup"} \subseteq d.mounts
       /\ "/efi" \in d.ro

(* A slot that has ever been staged can be booted: after a tool that was   *)
(* killed or a machine that stopped anywhere, and after later staging for  *)
(* another slot, its plan.blob is whole and checked, has every layer it    *)
(* names on disk in the representation it declares, and PID 1 halts on it  *)
(* only if something else than the tool has written the file.              *)
BootsWhole ==
  /\ \A x \in Dirs : slot[x].blob # None =>
       /\ slot[x].blob.ok
       /\ \A i \in DOMAIN slot[x].blob.layers : Ready(i, slot[x].blob.layers[i].bytes)
  /\ phase = "halt" /\ booting # "none" =>
       slot[booting].blob = None \/ file \in Others \/ sealed \notin {None, slot[booting].blob}

(* PID 1 never reads past its buffer, and a city is only ever started from *)
(* a whole file that nw-check accepts and that has as many units as PID 1  *)
(* has loggers, though the file is read twice and may change in between.   *)
PlanReadWhole ==
  /\ ~overrun
  /\ phase = "up" => /\ last.ok /\ last = file.plan /\ file.size = last.len
                     /\ last.units = sealed.units

Compatible(q, r) ==
  \A i \in DOMAIN q.layers \intersect DOMAIN r.layers : q.layers[i].brick = r.layers[i].brick

(* From one city to the next no layer changes its brick: what the clash    *)
(* check is for, with stages that were interrupted and sidecars left       *)
(* beside an older blob, as long as the tool has never been started        *)
(* between a switch and the reboot nor for the plan the slot holds.        *)
BricksKept == [][careful /\ phase' = "up" => Compatible(last', last)]_vars

(* "this tool's guard is that it does not write the running plan": the     *)
(* slot that the machine runs still holds the plan it was started from.    *)
RunningKept == phase = "up" /\ file \notin Others => slot[running].blob = last

(* The inference of the clash check: where .sha256 describes the blob, so  *)
(* does .layers, whatever stage was interrupted.                           *)
SidecarsTrusted == \A x \in Dirs : slot[x].sha = slot[x].blob => slot[x].list = slot[x].blob
-------------------------------------------------------------------------------
(* The parts of the inductive invariants. *)

Files == {"blob", "sha", "list"}
StagePlans == Plans \union {None}

ToolStates ==
  [at : 0..Len(StageOrder), live : Names \union {"none"}, target : Names \union {"none"},
   plan : StagePlans, todo : SUBSET Ids, made : BOOLEAN]

\* The slots, the pointer, the layers on disk and the tool.
SlotsType ==
  /\ slot \in [Dirs -> [Files -> StagePlans]]
  /\ current \in Names \union Pointers
  /\ store \in [Ids -> [dir : BOOLEAN, upper : BOOLEAN, work : BOOLEAN, img : Nat]]
  /\ st \in ToolStates
  /\ st.at > 0 => st.live \in Names /\ st.target \in Names /\ st.plan \in Plans

Paths == {"/", "/dev", "/proc", "/sys", "/cgroup", "/run", "/tmp", "/efi", "/sysroot", "/sysroot/efi"}

DawnStates ==
  [at : 1..Len(DawnOrder), root : {"initramfs", "real"}, mounts : SUBSET Paths, ro : SUBSET Paths,
   dirs : SUBSET Skeleton, private : BOOLEAN, old : {"absent", "dir", "mounted", "gone"},
   end : {"none", "exec", "refused"}]

\* How far dawn has come is in what it has made.
DawnMade ==
  /\ machine \in Machines /\ d \in DawnStates
  /\ d.at \in 4..7 => "/sysroot" \in d.mounts
  /\ d.at \in 5..7 => "/sysroot/efi" \in d.mounts
  /\ d.at > 4 => "/efi" \in d.ro
  /\ d.at > 5 => d.dirs = Skeleton
  /\ d.at > 6 => d.private
  /\ d.at > 7 => d.root = "real" /\ "/efi" \in d.mounts
  /\ d.at > 8 => "/proc" \in d.mounts
  /\ d.at > 9 => "/sys" \in d.mounts
  /\ d.at > 10 => "/dev" \in d.mounts
  /\ d.at > 11 => "/run" \in d.mounts
  /\ d.at > 12 => "/tmp" \in d.mounts
  /\ d.at > 13 => "/cgroup" \in d.mounts
  /\ d.at > 14 => d.old = "gone"
  /\ d.end = "exec" => d.at = Len(DawnOrder)

\* PID 1 comes after dawn, and has a slot once it has read the pointer.
BootOrder ==
  /\ phase \in {"dawn", "pointer", "plan", "spawn", "up", "halt"}
  /\ phase \in {"pointer", "plan", "spawn", "up"} => d.end = "exec"
  /\ phase \in {"dawn", "pointer"} => booting = "none"
  /\ phase \in {"plan", "spawn", "up"} => booting \in Dirs
  /\ phase \in {"spawn", "up"} => sealed.ok
  /\ running = IF phase = "up" THEN booting ELSE "none"
  /\ phase # "up" => st = Idle

\* An image or a leaf is in a directory, and the second leaf comes last.
LeavesInside ==
  \A i \in Ids : /\ store[i].upper \/ store[i].img > 0 => store[i].dir
                 /\ store[i].work => store[i].upper

\* A plan past nw-check is a good one, and past its layers has them.
StagedWhole ==
  /\ st.at \in 3..7 => st.plan.ok
  /\ st.at \in 1..7 => st.todo \subseteq DOMAIN st.plan.layers
  /\ st.at \in 5..7 => st.todo = {}
  /\ st.at \in 1..7 => \A i \in DOMAIN st.plan.layers \ st.todo : Ready(i, st.plan.layers[i].bytes)

SlotsWhole ==
  \A x \in Dirs : slot[x]["blob"] # None =>
    /\ slot[x]["blob"].ok
    /\ \A i \in DOMAIN slot[x]["blob"].layers : Ready(i, slot[x]["blob"].layers[i].bytes)

\* Why PID 1 is where it is on the slot it boots.
HaltMeaning ==
  phase = "halt" /\ booting # "none" =>
    slot[booting].blob = None \/ file \in Others \/ sealed \notin {None, slot[booting].blob}

\* The directory that is written is not the one the pointer named, which is the
\* running one if that was so at the start.
TargetClear ==
  st.at > 0 => /\ DirOf[st.target] # DirOf[st.live]
               /\ careful => DirOf[st.live] = running

BootInv ==
  /\ SlotsType /\ DawnMade /\ BootOrder /\ LeavesInside /\ StagedWhole /\ SlotsWhole
  /\ HaltMeaning /\ PlanReadWhole /\ TargetClear

Bare(q) == DOMAIN q.layers = {}

\* The machines the clash check is made for: two slots, and no layers in files
\* from elsewhere.
Orderly ==
  /\ \A x, y, z \in Dirs : x = y \/ y = z \/ x = z
  /\ \A f \in Others : Bare(f.plan)

BricksInv ==
  /\ SidecarsTrusted
  /\ st.at \in 1..7 => st.plan # slot[Target].blob
  /\ st.at \in 6..7 => slot[Target].sha = st.plan
  /\ st.at = 7 => slot[Target].list = st.plan
  /\ st.at \in 4..7 => Compatible(st.plan, slot[DirOf[st.live]].blob)
  /\ \A x, y \in Dirs : x # y => Compatible(slot[x].blob, slot[y].blob)
  /\ Bare(last) \/ \E x \in Dirs : last = slot[x].blob
  /\ phase = "up" => Bare(last) \/ last = slot[running].blob
==============================================================================
