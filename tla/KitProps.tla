------------------------------ MODULE KitProps ------------------------------
(***************************************************************************)
(* What the boot chain promises about descriptors.                         *)
(***************************************************************************)
EXTENDS Kit

Phases == {"preflight", "pipes", "report", "exec", "edges", "gather", "null",
           "log", "wires", "stdio", "place", "packed",
           "refused", "halted", "starved", "nodev", "unpacked"}

Objects ==
    {Closed, Foreign, Null, SigFd, Report}
        \union {Log(u) : u \in Units}
        \union {End(k, s) : k \in 1..Len(edges), s \in Sides}

WireType == [fd : Fd, edge : 1..Len(edges), side : Sides, peer : Units]

(* The variables of the chain, PID 1 to nw-spawn to the house, hold what   *)
(* their C counterparts in pid1.c and nwspawn.c can hold.                  *)
TypeOK ==
    /\ edges \in EdgeTables
    /\ me \in Units
    /\ born \in SUBSET Fd
    /\ hard \in 0..FdMax /\ soft \in 0..hard /\ nrOpen \in Nat
    /\ fdt \in [Fd -> Objects]
    /\ cloexec \in SUBSET Fd
    /\ pc \in Phases
    /\ n \in Nat
    /\ reportw \in Fd
    /\ wire \in Seq(WireType)
    /\ nullfd \in Fd /\ logn \in Fd
    /\ scratch \in Seq(Fd)

(* What nw-sup is executed with (nwspawn.c's pack_kit, whatever numbers    *)
(* PID 1, nw-spawn and the kernel came up with): /dev/null on 0, the       *)
(* unit's own log on 1 and 2, one end of each edge that names the unit on  *)
(* 3 and up, each on the slot whose NW_WIRE_<slot> names the unit that was *)
(* given the other end, and not one descriptor more.                       *)
KitExact ==
    pc = "packed" =>
        /\ fdt[0] = Null
        /\ fdt[1] = Log(me) /\ fdt[2] = Log(me)
        /\ \A k \in 1..Len(wire) :
              /\ 2 + k \in Fd
              /\ fdt[2 + k] = End(wire[k].edge, wire[k].side)
              /\ IF wire[k].side = 0
                 THEN edges[wire[k].edge] = [a |-> me, b |-> wire[k].peer]
                 ELSE edges[wire[k].edge] = [a |-> wire[k].peer, b |-> me]
        /\ \A fd \in Fd : fd > 2 + Len(wire) => fdt[fd] = Closed

(* An edge is wired exactly once into the house: what nw-spawn's census    *)
(* (wired_total == 2 * n_edges) adds up over the units is right for each.  *)
EveryEdgeWired ==
    pc = "packed" =>
        \A k \in 1..Len(edges) :
            me \in {edges[k].a, edges[k].b} =>
                \E j \in 1..Len(wire) :
                    /\ wire[j].edge = k
                    /\ \A i \in 1..Len(wire) : wire[i].edge = k => i = j

(* No scratch descriptor of pack_kit is a slot that is placed before it is *)
(* read: dup2(wire_scratch[k], 3 + k) never closes a later wire's scratch  *)
(* (nwspawn.c's three collision axes, and the fourth).                     *)
ScratchClearOfTargets ==
    pc \in {"stdio", "place"} =>
        \A k \in 1..Len(scratch) :
            /\ scratch[k] > 2 + k
            /\ \A j \in 1..Len(scratch) : j < k => scratch[j] < scratch[k]

(* A PID 1 started with nothing but stdio whose pre-flight accepts the     *)
(* plan does not run out of descriptors, and neither does nw-spawn: the    *)
(* arithmetic of NW_BOOT_NEED (blob.h) covers both processes' peaks.       *)
PreflightSuffices == born \subseteq 0..2 => pc # "starved"
----------------------------------------------------------------------------
(* The parts of the inductive invariant. *)

Wired == {"gather", "null", "log", "wires"}
Spawning == {"exec", "edges"} \union Wired
Packing == {"wires", "stdio", "place", "packed"}
Starting == {"preflight", "pipes", "report"} \union Spawning

(* Nothing is collected before its step has come. *)
NotYet ==
    /\ pc \in (Starting \ Wired) => wire = << >>
    /\ pc \in (Starting \ {"wires"}) => scratch = << >>
    /\ pc \in {"pipes"} => n <= NUnits
    /\ pc \in {"edges", "gather"} => n <= Len(edges)

(* Every write end made so far is open, and is its own unit's log. *)
LogsOpen ==
    LET upto(m) == \A u \in 0..(m - 1) : logw[u] \in Fd /\ fdt[logw[u]] = Log(u)
    IN  /\ pc = "pipes" => upto(n)
        /\ pc \in {"report"} \union Spawning => upto(NUnits)

(* Every socket made so far is open at its recorded number. *)
EdgesOpen ==
    LET upto(m) == \A k \in 1..m : \A s \in Sides :
                       edgeFd[k][s] \in Fd /\ fdt[edgeFd[k][s]] = End(k, s)
    IN  /\ pc = "edges" => upto(n)
        /\ pc \in Wired => upto(Len(edges))

(* A wire is the end of an edge that names this unit on that side ... *)
WireMeans ==
    \A k \in 1..Len(wire) :
        IF wire[k].side = 0
        THEN edges[wire[k].edge] = [a |-> me, b |-> wire[k].peer]
        ELSE edges[wire[k].edge] = [a |-> wire[k].peer, b |-> me]

(* ... still open where it was found until the sweep ... *)
WiresOpen ==
    pc \in Wired =>
        \A k \in 1..Len(wire) :
            fdt[wire[k].fd] = End(wire[k].edge, wire[k].side)

(* ... and the wires are the edges that name it, in table order.           *)
WiresAll ==
    LET seen(m) ==
            \A k \in 1..m : me \in {edges[k].a, edges[k].b} =>
                \E j \in 1..Len(wire) : wire[j].edge = k
    IN  /\ \A i, j \in 1..Len(wire) : i < j => wire[i].edge < wire[j].edge
        /\ pc = "gather" => seen(n) /\ \A j \in 1..Len(wire) : wire[j].edge <= n
        /\ pc \in {"null", "log"} \union Packing => seen(Len(edges))

(* pack_kit's descriptors hold what they were opened for; no number from 3 *)
(* up to the last of them was free when it was asked for.                  *)
NullOpen ==
    pc \in {"log", "wires", "stdio"} => fdt[nullfd] = Null

LognOpen ==
    pc \in {"wires", "stdio"} =>
        /\ logn >= 3 /\ fdt[logn] = Log(me)
        /\ pc = "wires" => \A g \in 3..logn : fdt[g] # Closed

ScratchOpen ==
    /\ pc = "wires" =>
          /\ Len(scratch) = n /\ n <= Len(wire)
          /\ \A k \in 1..n : \A g \in 3..scratch[k] : fdt[g] # Closed
    /\ pc \in {"wires", "stdio"} =>
          \A k \in 1..Len(scratch) :
              /\ scratch[k] > logn
              /\ fdt[scratch[k]] = End(wire[k].edge, wire[k].side)

ScratchHigh ==
    /\ pc \in {"stdio", "place"} => Len(scratch) = Len(wire)
    /\ pc \in {"wires", "stdio", "place"} =>
          \A k \in 1..Len(scratch) :
              /\ scratch[k] > 2 + k
              /\ \A j \in 1..Len(scratch) : j < k => scratch[j] < scratch[k]

(* After the sweep nothing is open but what is still to be placed and what *)
(* has been.                                                               *)
SweptClean ==
    pc = "stdio" => \A fd \in Fd : fd \notin Keep => fdt[fd] = Closed

Placed ==
    pc = "place" =>
        /\ n <= Len(wire)
        /\ fdt[0] = Null /\ fdt[1] = Log(me) /\ fdt[2] = Log(me)
        /\ \A k \in 1..n :
              2 + k \in Fd /\ fdt[2 + k] = End(wire[k].edge, wire[k].side)
        /\ \A k \in (n + 1)..Len(wire) :
              fdt[scratch[k]] = End(wire[k].edge, wire[k].side)
        /\ \A fd \in Fd :
              fd > 2 + n /\ (\A k \in (n + 1)..Len(wire) : fd # scratch[k])
                  => fdt[fd] = Closed

(* An exec of nw-sup would close only what is not yet placed. *)
Flags ==
    /\ pc \in {"edges", "gather", "null"} => cloexec = {}
    /\ pc = "log" => cloexec = {nullfd}
    /\ pc \in {"wires", "stdio"} => cloexec \subseteq Keep
    /\ pc = "place" =>
          \A fd \in cloexec : \E k \in (n + 1)..Len(wire) : fd = scratch[k]

IInv ==
    /\ TypeOK
    /\ NotYet /\ LogsOpen /\ EdgesOpen
    /\ WireMeans /\ WiresOpen /\ WiresAll
    /\ NullOpen /\ LognOpen /\ ScratchOpen /\ ScratchHigh
    /\ SweptClean /\ Placed /\ Flags
    /\ KitExact

----------------------------------------------------------------------------
(* The high-water mark of a boot that starts with nothing but stdio: how   *)
(* far up the table can be in use at each point, in NW_BOOT_NEED's terms.  *)
(* While the log pipes are made a number of 0..3 stays free, because every *)
(* read end is closed again.                                               *)
NothingFrom(h) == \A fd \in Fd : fd >= h => fdt[fd] = Closed

Admitted == {"pipes", "report", "exec", "edges", "gather"}

Tide ==
    born \subseteq 0..2 =>
        /\ pc = "preflight" => NothingFrom(3)
        /\ pc \in Admitted => Need <= soft
        /\ pc = "pipes" =>
              NothingFrom(4 + n) /\ \E c \in 0..3 : fdt[c] = Closed
        /\ pc = "report" => NothingFrom(4 + NUnits)
        /\ pc = "exec" => NothingFrom(6 + NUnits)
        /\ pc = "edges" => NothingFrom(6 + NUnits + 2 * n)
        /\ pc = "gather" => NothingFrom(6 + NUnits + 2 * Len(edges))
        /\ pc # "starved"
=============================================================================
