-------------------------------- MODULE Kit --------------------------------
(***************************************************************************)
(* The descriptors a house is born with.  One table of open descriptors is *)
(* followed down the boot chain: PID 1 admits the plan against             *)
(* RLIMIT_NOFILE and opens the log pipes, nw-spawn inherits what survives  *)
(* its exec and opens a socket pair per edge, the house `me` inherits that *)
(* by fork and pack_kit() rebuilds it as /dev/null on 0, its own log on 1  *)
(* and 2, and its wires contiguous from 3.                                 *)
(*                                                                         *)
(* The kernel hands out the lowest free number, so every collision a       *)
(* dup2(2) could have with a descriptor still needed is a matter of the    *)
(* numbers the earlier steps happened to get: they are kept concrete.      *)
(***************************************************************************)
EXTENDS Integers, Sequences

CONSTANTS
    FdMax,       \* descriptors are numbered 0..FdMax-1 (NW_FD_SWEEP, 1024)
    NUnits,      \* units of the plan
    EdgeTables,  \* edge tables the plan may declare: sequences of EdgeType
    Softs,       \* soft RLIMIT_NOFILE PID 1 may start with
    Hards,       \* hard RLIMIT_NOFILE it may start with
    NrOpens,     \* values of the kernel's fs.nr_open
    Inherits     \* sets of descriptors PID 1 may be started with

Fd == 0..(FdMax - 1)
Units == 0..(NUnits - 1)
Sides == {0, 1}
EdgeType == [a : Units, b : Units]

ASSUME FdMaxAssumption == FdMax \in Nat /\ FdMax > 3
ASSUME UnitsAssumption == NUnits \in Nat \ {0}
ASSUME EdgesAssumption ==
    \A t \in EdgeTables :
        /\ t \in Seq(EdgeType)
        /\ \A k \in 1..Len(t) : t[k].a # t[k].b
ASSUME LimitsAssumption ==
    /\ Softs \subseteq 0..FdMax
    /\ Hards \subseteq 0..FdMax
    /\ NrOpens \subseteq Nat
    /\ Inherits \subseteq SUBSET Fd

(* What a descriptor may refer to. *)
Closed == <<"closed", 0, 0>>
Foreign == <<"foreign", 0, 0>>
Null   == <<"null", 0, 0>>
SigFd  == <<"signalfd", 0, 0>>
Report == <<"report", 0, 0>>
Log(u) == <<"log", u, 0>>
End(k, s) == <<"edge", k, s>>

VARIABLES
    edges, me,          \* the plan's edge table and the house followed
    born,               \* the descriptors PID 1 was started with
    soft, hard, nrOpen, \* RLIMIT_NOFILE of the process, and the kernel's cap
    fdt,                \* the descriptor table: what each number refers to
    cloexec,            \* the descriptors an exec closes
    pc,                 \* where the chain stands
    n,                  \* loop counter of the step under way
    logw,               \* houses[i].log_w, for the units that have one
    reportw,            \* report[1]
    edgeFd,             \* edge_fd, for the edges that have a pair
    wire,               \* my_wire_fd and my_wire_peer
    nullfd, logn,       \* pack_kit's scratch descriptors
    scratch             \* wire_scratch

plan == <<edges, me, born>>
limits == <<soft, hard, nrOpen>>
table == <<fdt, cloexec>>
pid1 == <<logw, reportw>>
kit == <<nullfd, logn, scratch>>
vars == <<plan, limits, table, pc, n, pid1, edgeFd, wire, kit>>

(* NW_BOOT_NEED as it was before the edge term. *)
Need_HousesOnly == 8 + NUnits

(* NW_BOOT_NEED(n_houses, n_edges) *)
Need == 8 + NUnits + 2 * Len(edges)

(* The descriptor the kernel gives for a request of at least `from`. *)
LowestFree(fd, from) ==
    /\ fd \in from..(soft - 1)
    /\ fdt[fd] = Closed
    /\ \A g \in from..(fd - 1) : fdt[g] # Closed

(* The two descriptors a pipe or a socket pair gets. *)
TwoFree(r, w) ==
    /\ LowestFree(r, 0)
    /\ LowestFree(w, r + 1)

Emfile(from) == ~ \E fd \in Fd : LowestFree(fd, from)
EmfilePair == ~ \E r, w \in Fd : TwoFree(r, w)

Init ==
    /\ edges \in EdgeTables
    /\ me \in Units
    /\ soft \in Softs
    /\ hard \in Hards
    /\ soft <= hard
    /\ nrOpen \in NrOpens
    /\ born \in Inherits
    /\ fdt = [fd \in Fd |-> IF fd \in born THEN Foreign ELSE Closed]
    /\ cloexec = {}
    /\ pc = "preflight"
    /\ n = 0
    /\ logw = [u \in {} |-> 0]
    /\ reportw = 0
    /\ edgeFd = [k \in {} |-> 0]
    /\ wire = << >>
    /\ nullfd = 0
    /\ logn = 0
    /\ scratch = << >>

----------------------------------------------------------------------------
(* PID 1 *)

(* The plan needs more than the machine can ever give: refused unforked. *)
Refuse ==
    /\ pc = "preflight"
    /\ Need > hard
    /\ pc' = "refused"
    /\ UNCHANGED <<plan, limits, table, n, pid1, edgeFd, wire, kit>>

(* setrlimit(2) with a hard limit above fs.nr_open is EPERM; PID 1 then    *)
(* gives up its hard limit too and asks once more.                         *)
Preflight ==
    /\ pc = "preflight"
    /\ Need <= hard
    /\ \/ Need <= soft /\ UNCHANGED limits
       \/ /\ Need > soft
          /\ soft' = Need
          /\ \/ hard <= nrOpen /\ hard' = hard
             \/ hard > nrOpen /\ Need <= nrOpen /\ hard' = Need
          /\ UNCHANGED nrOpen
    /\ pc' = "pipes"
    /\ n' = 0
    /\ UNCHANGED <<plan, table, pid1, edgeFd, wire, kit>>

RaiseFails ==
    /\ pc = "preflight"
    /\ Need <= hard /\ Need > soft /\ Need > nrOpen
    /\ pc' = "halted"
    /\ UNCHANGED <<plan, limits, table, n, pid1, edgeFd, wire, kit>>

(* pipe2, fork the logger, close the read end: one pipe at a time. *)
LogPipe ==
    /\ pc = "pipes"
    /\ n < NUnits
    /\ \E r, w \in Fd :
          /\ TwoFree(r, w)
          /\ fdt' = [fdt EXCEPT ![w] = Log(n)]
          /\ cloexec' = cloexec \union {w}
          /\ logw' = [u \in 0..n |-> IF u = n THEN w ELSE logw[u]]
    /\ n' = n + 1
    /\ UNCHANGED <<plan, limits, pc, reportw, edgeFd, wire, kit>>

LogPipeFails ==
    /\ pc = "pipes"
    /\ n < NUnits /\ EmfilePair
    /\ pc' = "starved"
    /\ UNCHANGED <<plan, limits, table, n, pid1, edgeFd, wire, kit>>

(* There is always a number for it: the last read end has just been       *)
(* closed.                                                                 *)
SignalFd ==
    /\ pc = "pipes"
    /\ n = NUnits
    /\ \E fd \in Fd :
          /\ LowestFree(fd, 0)
          /\ fdt' = [fdt EXCEPT ![fd] = SigFd]
          /\ cloexec' = cloexec \union {fd}
    /\ pc' = "report"
    /\ UNCHANGED <<plan, limits, n, pid1, edgeFd, wire, kit>>

(* The report pipe; the spawner closes its read end at once. *)
ReportPipe ==
    /\ pc = "report"
    /\ \E r, w \in Fd :
          /\ TwoFree(r, w)
          /\ fdt' = [fdt EXCEPT ![w] = Report]
          /\ cloexec' = cloexec \union {w}
          /\ reportw' = w
    /\ pc' = "exec"
    /\ UNCHANGED <<plan, limits, n, logw, edgeFd, wire, kit>>

ReportPipeFails ==
    /\ pc = "report"
    /\ EmfilePair
    /\ pc' = "starved"
    /\ UNCHANGED <<plan, limits, table, n, pid1, edgeFd, wire, kit>>

(* The forked spawner keeps the report end and the write ends, and execs.  *)
(* The number nw-spawn reads the plan through is free again before "edges".*)
ExecSpawner ==
    /\ pc = "exec"
    /\ LET gone == cloexec \ ({reportw} \union {logw[u] : u \in Units})
       IN  fdt' = [fd \in Fd |-> IF fd \in gone THEN Closed ELSE fdt[fd]]
    /\ cloexec' = {}
    /\ pc' = "edges"
    /\ n' = 0
    /\ UNCHANGED <<plan, limits, pid1, edgeFd, wire, kit>>

----------------------------------------------------------------------------
(* nw-spawn *)

SocketPair ==
    /\ pc = "edges"
    /\ n < Len(edges)
    /\ \E r, w \in Fd :
          /\ TwoFree(r, w)
          /\ fdt' = [fdt EXCEPT ![r] = End(n + 1, 0), ![w] = End(n + 1, 1)]
          /\ edgeFd' = [k \in 1..(n + 1) |->
                           IF k = n + 1
                           THEN [s \in Sides |-> IF s = 0 THEN r ELSE w]
                           ELSE edgeFd[k]]
    /\ n' = n + 1
    /\ UNCHANGED <<plan, limits, cloexec, pc, pid1, wire, kit>>

SocketPairFails ==
    /\ pc = "edges"
    /\ n < Len(edges) /\ EmfilePair
    /\ pc' = "starved"
    /\ UNCHANGED <<plan, limits, table, n, pid1, edgeFd, wire, kit>>

(* The per-unit loop, for the unit followed: the edges that name it, in    *)
(* table order, each with the end that is its own and the unit across.     *)
Gather ==
    /\ pc = "edges"
    /\ n = Len(edges)
    /\ pc' = "gather"
    /\ n' = 0
    /\ UNCHANGED <<plan, limits, table, pid1, edgeFd, wire, kit>>

Wire(k, s, peer) == [fd |-> edgeFd[k][s], edge |-> k, side |-> s, peer |-> peer]

(* Only the edges that name the unit first. *)
GatherEdge_FirstSide ==
    /\ pc = "gather"
    /\ n < Len(edges)
    /\ wire' = IF edges[n + 1].a = me
               THEN Append(wire, Wire(n + 1, 0, edges[n + 1].b))
               ELSE wire
    /\ n' = n + 1
    /\ UNCHANGED <<plan, limits, table, pc, pid1, edgeFd, kit>>

GatherEdge ==
    /\ pc = "gather"
    /\ n < Len(edges)
    /\ LET k == n + 1
       IN  wire' = IF edges[k].a = me
                   THEN Append(wire, Wire(k, 0, edges[k].b))
                   ELSE IF edges[k].b = me
                        THEN Append(wire, Wire(k, 1, edges[k].a))
                        ELSE wire
    /\ n' = n + 1
    /\ UNCHANGED <<plan, limits, table, pc, pid1, edgeFd, kit>>

(* The pid pipe is open while the house is forked; the house has closed    *)
(* both its ends before it packs.                                          *)
ForkHouse ==
    /\ pc = "gather"
    /\ n = Len(edges)
    /\ ~EmfilePair
    /\ pc' = "null"
    /\ UNCHANGED <<plan, limits, table, n, pid1, edgeFd, wire, kit>>

PidPipeFails ==
    /\ pc = "gather"
    /\ n = Len(edges) /\ EmfilePair
    /\ pc' = "starved"
    /\ UNCHANGED <<plan, limits, table, n, pid1, edgeFd, wire, kit>>

----------------------------------------------------------------------------
(* pack_kit, in the house *)

OpenNull ==
    /\ pc = "null"
    /\ \E fd \in Fd :
          /\ LowestFree(fd, 0)
          /\ fdt' = [fdt EXCEPT ![fd] = Null]
          /\ cloexec' = cloexec \union {fd}
          /\ nullfd' = fd
    /\ pc' = "log"
    /\ UNCHANGED <<plan, limits, n, pid1, edgeFd, wire, logn, scratch>>

(* No /dev/null to open.  (There is a descriptor for it: the pid pipe's    *)
(* two have just been closed.)                                             *)
NoNull ==
    /\ pc = "null"
    /\ pc' = "nodev"
    /\ UNCHANGED <<plan, limits, table, n, pid1, edgeFd, wire, kit>>

(* fcntl(log_w, F_DUPFD_CLOEXEC, 3) *)
DupLog ==
    /\ pc = "log"
    /\ \E fd \in Fd :
          /\ LowestFree(fd, 3)
          /\ fdt' = [fdt EXCEPT ![fd] = fdt[logw[me]]]
          /\ cloexec' = cloexec \union {fd}
          /\ logn' = fd
    /\ pc' = "wires"
    /\ n' = 0
    /\ UNCHANGED <<plan, limits, pid1, edgeFd, wire, nullfd, scratch>>

(* fcntl(wire_fd[k], F_DUPFD_CLOEXEC, 3), for every wire before any is     *)
(* placed.                                                                 *)
DupWire ==
    /\ pc = "wires"
    /\ n < Len(wire)
    /\ \E fd \in Fd :
          /\ LowestFree(fd, 3)
          /\ fdt' = [fdt EXCEPT ![fd] = fdt[wire[n + 1].fd]]
          /\ cloexec' = cloexec \union {fd}
          /\ scratch' = Append(scratch, fd)
    /\ n' = n + 1
    /\ UNCHANGED <<plan, limits, pc, pid1, edgeFd, wire, nullfd, logn>>

PackFails ==
    /\ \/ pc = "log" /\ Emfile(3)
       \/ pc = "wires" /\ n < Len(wire) /\ Emfile(3)
    /\ pc' = "unpacked"
    /\ UNCHANGED <<plan, limits, table, n, pid1, edgeFd, wire, kit>>

Keep == {nullfd, logn} \union {scratch[k] : k \in 1..Len(scratch)}

(* The sweep left out: the house keeps whatever nw-spawn had. *)
CloseOthers_Skipped ==
    /\ pc = "wires"
    /\ n = Len(wire)
    /\ pc' = "stdio"
    /\ UNCHANGED <<plan, limits, table, n, pid1, edgeFd, wire, kit>>

(* close_others: through /proc/self/fd, or by number when that cannot be   *)
(* opened; either way only the scratch descriptors are left.               *)
CloseOthers ==
    /\ pc = "wires"
    /\ n = Len(wire)
    /\ fdt' = [fd \in Fd |-> IF fd \in Keep THEN fdt[fd] ELSE Closed]
    /\ cloexec' = cloexec \intersect Keep
    /\ pc' = "stdio"
    /\ UNCHANGED <<plan, limits, n, pid1, edgeFd, wire, kit>>

(* dup2 to 0, 1 and 2, the scratch descriptors closed, the flag cleared.   *)
PlaceStdio ==
    /\ pc = "stdio"
    /\ LET gone == {nullfd, logn} \ (0..2)
       IN  /\ fdt' = [fd \in Fd |-> CASE fd = 0 -> fdt[nullfd]
                                      [] fd \in {1, 2} -> fdt[logn]
                                      [] fd \in gone -> Closed
                                      [] OTHER -> fdt[fd]]
           /\ cloexec' = cloexec \ ({0, 1, 2} \union gone)
    /\ pc' = "place"
    /\ n' = 0
    /\ UNCHANGED <<plan, limits, pid1, edgeFd, wire, kit>>

(* dup2(wire_scratch[k], 3 + k), close the scratch, clear the flag. *)
Place ==
    /\ pc = "place"
    /\ n < Len(wire)
    /\ LET target == 3 + n
           from == scratch[n + 1]
       IN  /\ fdt' = [fd \in Fd |-> CASE fd = target -> fdt[from]
                                      [] fd = from /\ fd # target -> Closed
                                      [] OTHER -> fdt[fd]]
           /\ cloexec' = cloexec \ {target, from}
    /\ n' = n + 1
    /\ UNCHANGED <<plan, limits, pc, pid1, edgeFd, wire, kit>>

(* NW_WIRE_<slot> names the peer, and nw-sup is executed with the table.   *)
ExecSup ==
    /\ pc = "place"
    /\ n = Len(wire)
    /\ fdt' = [fd \in Fd |-> IF fd \in cloexec THEN Closed ELSE fdt[fd]]
    /\ cloexec' = {}
    /\ pc' = "packed"
    /\ UNCHANGED <<plan, limits, n, pid1, edgeFd, wire, kit>>

(* The chain has ended, well or badly. *)
Over ==
    /\ pc \in {"refused", "halted", "starved", "nodev", "unpacked", "packed"}
    /\ UNCHANGED vars

Next ==
    \/ Refuse \/ Preflight \/ RaiseFails
    \/ LogPipe \/ LogPipeFails \/ SignalFd
    \/ ReportPipe \/ ReportPipeFails \/ ExecSpawner
    \/ SocketPair \/ SocketPairFails
    \/ Gather \/ GatherEdge \/ ForkHouse \/ PidPipeFails
    \/ OpenNull \/ NoNull \/ DupLog \/ DupWire \/ PackFails
    \/ CloseOthers \/ PlaceStdio \/ Place \/ ExecSup
    \/ Over

Spec == Init /\ [][Next]_vars
=============================================================================
