------------------------------- MODULE MCBoot -------------------------------
(* Two slots, one of them with a second name, five cities and three boots.  *)
EXTENDS BootProps

MCDirOf == [n \in {"A", "B", "A2"} |-> IF n = "A2" THEN "A" ELSE n]

City(ok, len, units, layers) == [ok |-> ok, len |-> len, units |-> units, layers |-> layers]
Layer(i, brick, bytes) == [x \in {i} |-> [brick |-> brick, bytes |-> bytes]]

P0 == City(TRUE, 1, 1, Layer("x", 1, 0))
P1 == City(TRUE, 2, 2, Layer("y", 1, 4))
P2 == City(TRUE, 2, 1, Layer("x", 2, 0))
P3 == City(FALSE, 1, 1, Layer("x", 1, 0))
P4 == City(TRUE, 1, 1, Layer("x", 1, 4))
MCPlans == {P0, P1, P2, P3, P4}

MCPointerReads == [q \in {"long", "dotted"} |-> IF q = "long" THEN "A" ELSE "halt"]

\* Other files: a plan with a byte more, one of another size, and one that is
\* small modulo 2^32.
MCOthers ==
  LET bare == City(TRUE, 2, 1, [i \in {} |-> 0])
      many == City(TRUE, 2, 3, [i \in {} |-> 0])
  IN  {[plan |-> bare, size |-> 3], [plan |-> many, size |-> 2], [plan |-> bare, size |-> Wrap + 2]}

MCMachines ==
  { [params |-> FALSE, rootfs |-> TRUE, shared |-> TRUE, given |-> {}],
    [params |-> TRUE, rootfs |-> TRUE, shared |-> TRUE, given |-> {}],
    [params |-> TRUE, rootfs |-> FALSE, shared |-> FALSE, given |-> {"/dev", "/proc", "/sys", "/cgroup"}] }
==============================================================================
