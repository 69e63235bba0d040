------------------------------ MODULE HouseProps ------------------------------
(* What a house that runs has around it, and why a child never ends itself. *)
EXTENDS House

\* Every declared bind is seen: none is under the layer's overlay, which is
\* mounted on the same directory.
BindsSeen ==
  /\ Len(m.binds) = Len(unit.binds)
  /\ \A i \in 1..Len(m.binds) : m.binds[i].path = unit.binds[i] /\ Seen(m.binds[i])

\* A bind that is NW_CTL_DIR, however it is spelled, is read-only.
CtlReadOnly == \A i \in 1..Len(m.binds) : Inode[m.binds[i].path] = CtlDir => m.binds[i].ro

\* What lid_landlock() says of itself: nothing is created, deleted or, where
\* the kernel knows the right, truncated outside a declared bind; inside a bind
\* of a directory files are; device nodes are made nowhere.
Confined ==
  /\ \A r \in DirOnly \ {"READ_DIR"} : ~May("own", r)
  /\ kernel.abi >= 3 => ~May("own", "TRUNCATE")
  /\ \A i \in 1..Len(unit.binds) :
       LET at == Inode[unit.binds[i]]
       IN  /\ at \notin Files => May(at, "MAKE_REG")
           /\ May(at, "TRUNCATE")
           /\ \A d \in Devices : ~May(at, d)

(* "LIDS ARE NOT ADVISORY": a house that runs, in any generation, has      *)
(* everything its unit declares in force at once -- namespaces, settings,  *)
(* the limits as written, nofile in either direction, exactly the declared *)
(* capabilities after execv(), the filter, its brick for a root and the    *)
(* machine's gone, the layer on the sized store, every bind in sight, the  *)
(* control directory read-only, the Landlock rules lid_landlock() promises *)
(* -- and no signal blocked or caught that nw-sup had blocked or caught.   *)
AsDeclared ==
  end = "exec" =>
    /\ "net" \in p.ns <=> "newnet" \in unit.lids
    /\ "mnt" \in p.ns <=> "newns" \in unit.lids
    /\ p.set = unit.settings /\ p.limits = unit.limits
    /\ unit.nofile > 0 => p.soft = unit.nofile
    /\ p.caps = unit.caps
    /\ p.calls = IF "seccomp" \in unit.lids THEN AllowList ELSE Syscalls
    /\ unit.brick => /\ m.root = "brick" /\ m.old
                     /\ m.stack = <<"erofs", "overlay">>
                     /\ m.upper = IF unit.layer = "sized" THEN "store" ELSE "host"
    /\ BindsSeen /\ CtlReadOnly
    /\ "landlock" \in unit.lids => ll.handled = Handled(kernel.abi) /\ Confined
    /\ p.mask = {} /\ p.term = "default"

(* No step of nw-sup takes away what a later one needs: whatever is        *)
(* declared, no child ends for want of a capability it has dropped, a      *)
(* descriptor it has forbidden itself, a path it has pivoted away from or  *)
(* a call it has filtered, nor for a Landlock rule the kernel cannot take. *)
RightOrder == end # "lacking"

(* No mount made for a house reaches the machine, in any generation.       *)
NothingLeaks == ~m.leaked
-------------------------------------------------------------------------------
(* The inductive invariant: what a child has, by how far it has come. *)

Procs ==
  [last : Nat, mask : SUBSET {"CHLD"}, term : {"on_term", "default"}, ns : SUBSET {"net", "mnt"},
   set : SUBSET Settings, limits : SUBSET Limits, soft : Nat, hard : Nat, lower : BOOLEAN,
   caps : SUBSET Nat, bset : SUBSET Nat, calls : SUBSET Syscalls]

BindsMade ==
  [i \in 1..Len(unit.binds) |->
     [path |-> unit.binds[i], on |-> 2, ro |-> Inode[unit.binds[i]] = CtlDir]]

Brick == <<"erofs">>
Layered == <<"erofs", "overlay">>

Views ==
  [private : BOOLEAN, stack : {<<>>, Brick, Layered}, store : BOOLEAN,
   upper : {"none", "host", "store"}, binds : {<<>>, BindsMade},
   root : {"machine", "brick"}, old : BOOLEAN, leaked : BOOLEAN]

HouseType ==
  /\ unit \in Units /\ kernel \in Kernels /\ Validated(unit, kernel)
  /\ k \in 1..Len(Order) /\ end \in {"none", "exec", "refused"}
  /\ end = "exec" => k = Len(Order)
  /\ p \in Procs /\ m \in Views

\* The place of each setting in Order.
SetAt == [cpu |-> 7, sched |-> 8, nice |-> 9, oom |-> 10]

ProcessAt ==
  /\ k > 1 => p.last = kernel.last
  /\ p.limits = IF k > 3 THEN unit.limits ELSE {}
  /\ k > 4 => p.mask = {} /\ p.term = "default"
  /\ "net" \in p.ns <=> k > 5 /\ "newnet" \in unit.lids
  /\ "mnt" \in p.ns <=> k > 6 /\ "newns" \in unit.lids
  /\ \A s \in Settings : s \in p.set <=> k > SetAt[s] /\ s \in unit.settings
  /\ k <= 11 => p.soft = kernel.soft /\ ~p.lower
  /\ k <= 20 => p.soft >= kernel.soft
  /\ k > 11 /\ unit.nofile > 0 => p.soft = unit.nofile \/ (k <= 20 /\ p.lower)
  /\ p.bset = IF k > 19 THEN unit.caps ELSE 0..kernel.last
  /\ p.caps = p.bset
  /\ p.calls = IF k > 21 /\ "seccomp" \in unit.lids THEN AllowList ELSE Syscalls

ViewAt ==
  /\ ~m.leaked
  /\ k > 12 /\ unit.brick => m.private
  /\ m.stack = IF k <= 13 \/ ~unit.brick THEN <<>>
               ELSE IF k <= 15 THEN Brick ELSE Layered
  /\ m.store <=> k > 14 /\ unit.layer = "sized"
  /\ k > 15 /\ unit.brick => m.upper = IF unit.layer = "sized" THEN "store" ELSE "host"
  /\ m.binds = IF k > 16 /\ unit.brick THEN BindsMade ELSE <<>>
  /\ m.root = IF k > 17 /\ unit.brick THEN "brick" ELSE "machine"
  /\ m.old <=> k > 17 /\ unit.brick

\* The rules over what the binds are on the machine.
BindRules ==
  {Beneath("root", RootAccess(kernel.abi))}
  \union {Beneath(Inode[unit.binds[i]], rw(kernel.abi)) : i \in 1..Len(unit.binds)}

DomainAt ==
  ll = IF k > 18 /\ "landlock" \in unit.lids
         THEN [handled |-> Handled(kernel.abi), rules |-> BindRules] ELSE NoDomain

HouseInv == HouseType /\ ProcessAt /\ ViewAt /\ DomainAt
==============================================================================
