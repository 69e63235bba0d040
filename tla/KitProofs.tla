----------------------------- MODULE KitProofs -----------------------------
(***************************************************************************)
(* Whatever the plan, the limits and the descriptors PID 1 was born with,  *)
(* a house that is executed at all is executed with exactly its kit.  The  *)
(* argument is the one number theory of descriptors there is here: the     *)
(* kernel gives out the lowest free number, nothing is closed while        *)
(* pack_kit collects, so its k-th scratch lies above the k-th slot.        *)
(***************************************************************************)
EXTENDS KitProps, WellFoundedInduction, TLAPS

LEMMA EdgeFacts ==
    ASSUME TypeOK
    PROVE  /\ Len(edges) \in Nat
           /\ \A k \in 1..Len(edges) :
                 /\ edges[k] \in EdgeType
                 /\ edges[k].a # edges[k].b
<1>1. edges \in Seq(EdgeType)
  BY EdgesAssumption DEF TypeOK
<1>2. \A k \in 1..Len(edges) : edges[k].a # edges[k].b
  BY EdgesAssumption DEF TypeOK
<1>3. Len(edges) \in Nat /\ \A k \in 1..Len(edges) : edges[k] \in EdgeType
  BY <1>1
<1> QED
  BY <1>2, <1>3

LEMMA WireFacts ==
    ASSUME TypeOK
    PROVE  /\ Len(wire) \in Nat
           /\ \A k \in 1..Len(wire) :
                 /\ wire[k].fd \in Fd /\ wire[k].edge \in 1..Len(edges)
                 /\ wire[k].side \in Sides /\ wire[k].peer \in Units
           /\ Len(scratch) \in Nat
           /\ \A k \in 1..Len(scratch) : scratch[k] \in Fd
<1>1. wire \in Seq(WireType) /\ scratch \in Seq(Fd)
  BY DEF TypeOK
<1>2. /\ Len(wire) \in Nat /\ \A k \in 1..Len(wire) : wire[k] \in WireType
      /\ Len(scratch) \in Nat /\ \A k \in 1..Len(scratch) : scratch[k] \in Fd
  BY <1>1
<1> QED
  BY <1>2 DEF WireType

LEMMA ObjectFacts ==
    /\ {Closed, Foreign, Null, SigFd, Report} \subseteq Objects
    /\ \A u \in Units : Log(u) \in Objects
    /\ \A k \in 1..Len(edges), s \in Sides : End(k, s) \in Objects
  BY DEF Objects

(* An open descriptor is not a closed one. *)
LEMMA OpenObjects ==
    /\ Null # Closed
    /\ \A u : Log(u) # Closed
    /\ \A k, s : End(k, s) # Closed
  BY DEF Null, Closed, Log, End

(* The plan and the table of objects are fixed. *)
LEMMA PlanFixed ==
    ASSUME plan' = plan
    PROVE  /\ edges' = edges /\ me' = me /\ born' = born
           /\ Objects' = Objects /\ WireType' = WireType
<1>1. edges' = edges /\ me' = me /\ born' = born
  BY DEF plan
<1> QED
  BY <1>1 DEF Objects, WireType

(* A step that only opens descriptors leaves the open ones alone. *)
Grows == \A fd \in Fd : fdt[fd] # Closed => fdt'[fd] = fdt[fd]

LEMMA Survivors ==
    ASSUME IInv, Grows, plan' = plan, logw' = logw, edgeFd' = edgeFd, wire' = wire
    PROVE  /\ \A u \in Units : /\ logw[u] \in Fd
                               /\ fdt[logw[u]] = Log(u)
                               => fdt'[logw[u]] = Log(u)
           /\ \A k \in Nat, s \in Sides :
                 /\ edgeFd[k][s] \in Fd
                 /\ fdt[edgeFd[k][s]] = End(k, s)
                 => fdt'[edgeFd[k][s]] = End(k, s)
           /\ \A k \in 1..Len(wire) :
                 fdt[wire[k].fd] = End(wire[k].edge, wire[k].side)
                 => fdt'[wire[k].fd] = End(wire[k].edge, wire[k].side)
  BY WireFacts, OpenObjects DEF Grows, IInv

----------------------------------------------------------------------------
(* Steps at which the chain ends, or does nothing. *)
LEMMA DeadEnds ==
    ASSUME IInv,
           \/ Refuse \/ RaiseFails \/ LogPipeFails \/ ReportPipeFails
           \/ SocketPairFails \/ PidPipeFails \/ NoNull \/ PackFails
    PROVE  IInv'
<1>1. /\ pc' \in {"refused", "halted", "starved", "nodev", "unpacked"}
      /\ UNCHANGED <<plan, limits, table, n, pid1, edgeFd, wire, kit>>
  BY DEF Refuse, RaiseFails, LogPipeFails, ReportPipeFails, SocketPairFails,
         PidPipeFails, NoNull, PackFails
<1>2. TypeOK'
  BY <1>1, PlanFixed DEF IInv, TypeOK, Phases, limits, table, pid1, kit
<1>3. WireMeans' /\ WiresAll'
  BY <1>1, PlanFixed DEF IInv, WireMeans, WiresAll, Packing
<1>4. /\ NotYet' /\ LogsOpen' /\ EdgesOpen' /\ WiresOpen'
      /\ NullOpen' /\ LognOpen' /\ ScratchOpen' /\ ScratchHigh'
      /\ SweptClean' /\ Placed' /\ Flags' /\ KitExact'
  BY <1>1 DEF NotYet, LogsOpen, EdgesOpen, WiresOpen, NullOpen, LognOpen,
              ScratchOpen, ScratchHigh, SweptClean, Placed, Flags, KitExact,
              Wired, Spawning, Starting
<1> QED
  BY <1>2, <1>3, <1>4 DEF IInv

LEMMA Stutters ==
    ASSUME IInv, UNCHANGED vars
    PROVE  IInv'
<1>1. /\ pc' = pc
      /\ UNCHANGED <<plan, limits, table, n, pid1, edgeFd, wire, kit>>
  BY DEF vars
<1>2. /\ soft' = soft /\ hard' = hard /\ nrOpen' = nrOpen
      /\ fdt' = fdt /\ cloexec' = cloexec /\ n' = n
      /\ logw' = logw /\ reportw' = reportw
      /\ nullfd' = nullfd /\ logn' = logn /\ scratch' = scratch
  BY <1>1 DEF limits, table, pid1, kit
<1>3. TypeOK'
  BY <1>1, <1>2, PlanFixed DEF IInv, TypeOK
<1>4. NotYet' /\ LogsOpen' /\ EdgesOpen' /\ WireMeans' /\ WiresOpen' /\ WiresAll'
  BY <1>1, <1>2, PlanFixed
     DEF IInv, NotYet, LogsOpen, EdgesOpen, WireMeans, WiresOpen, WiresAll
<1>5. /\ NullOpen' /\ LognOpen' /\ ScratchOpen' /\ ScratchHigh'
      /\ SweptClean' /\ Placed' /\ Flags' /\ KitExact'
  BY <1>1, <1>2, PlanFixed
     DEF IInv, NullOpen, LognOpen, ScratchOpen, ScratchHigh, SweptClean,
         Placed, Flags, KitExact, Keep
<1> QED
  BY <1>3, <1>4, <1>5 DEF IInv

----------------------------------------------------------------------------
(* PID 1 and nw-spawn: one lemma per step. *)
LEMMA PreflightInv ==
    ASSUME IInv, Preflight
    PROVE  IInv'
<1> USE DEF IInv
<1>1. /\ pc' = "pipes"
      /\ edges' = edges /\ me' = me /\ born' = born
      /\ fdt' = fdt /\ cloexec' = cloexec
      /\ n' = 0
      /\ logw' = logw /\ reportw' = reportw
      /\ edgeFd' = edgeFd /\ wire' = wire
      /\ nullfd' = nullfd /\ logn' = logn /\ scratch' = scratch
  BY DEF Preflight, limits, table, pid1, kit, plan
<1>2. /\ plan' = plan /\ Objects' = Objects /\ WireType' = WireType
  BY PlanFixed DEF Preflight
<1>3. TypeOK'
  <2>1. Need \in Nat
    BY UnitsAssumption, EdgeFacts DEF Need
  <2>2. hard' \in 0..FdMax /\ soft' \in 0..hard' /\ nrOpen' \in Nat
    BY <2>1, FdMaxAssumption DEF Preflight, TypeOK, limits
  <2> QED
    BY <1>1, <1>2, <2>2 DEF TypeOK, Phases
<1>4. WireMeans' /\ WiresAll'
  BY <1>1 DEF Preflight, WireMeans, WiresAll, Packing, Wired, Spawning, Starting
<1>5. NotYet' /\ LogsOpen'
  BY <1>1, UnitsAssumption DEF Preflight, NotYet, LogsOpen, Wired, Spawning, Starting
<1>6. EdgesOpen' /\ WiresOpen' /\ NullOpen' /\ LognOpen' /\ ScratchOpen' /\
      ScratchHigh' /\ SweptClean' /\ Placed' /\ Flags' /\ KitExact'
  BY <1>1 DEF EdgesOpen, WiresOpen, NullOpen, LognOpen, ScratchOpen,
              ScratchHigh, SweptClean, Placed, Flags, KitExact, Wired,
              Spawning, Starting
<1> QED
  BY <1>1, <1>3, <1>4, <1>5, <1>6

LEMMA LogPipeInv ==
    ASSUME IInv, LogPipe
    PROVE  IInv'
<1> USE DEF IInv
<1>1. /\ pc' = "pipes"
      /\ edges' = edges /\ me' = me /\ born' = born
      /\ soft' = soft /\ hard' = hard /\ nrOpen' = nrOpen
      /\ n' = n + 1 /\ n < NUnits /\ reportw' = reportw
      /\ edgeFd' = edgeFd /\ wire' = wire
      /\ nullfd' = nullfd /\ logn' = logn /\ scratch' = scratch
  BY DEF LogPipe, limits, table, pid1, kit, plan
<1>2. /\ plan' = plan /\ Objects' = Objects /\ WireType' = WireType
  BY PlanFixed DEF LogPipe
<1>3. TypeOK'
  <2>1. Log(n) \in Objects
    BY UnitsAssumption, ObjectFacts DEF LogPipe, TypeOK, Units
  <2> QED
    BY <1>1, <1>2, <2>1 DEF LogPipe, TypeOK, Phases
<1>4. WireMeans' /\ WiresAll'
  BY <1>1 DEF LogPipe, WireMeans, WiresAll, Packing, Wired, Spawning, Starting
<1>5. NotYet'
  BY <1>1, UnitsAssumption DEF LogPipe, NotYet, TypeOK, Wired, Spawning, Starting
<1>6. LogsOpen'
  <2>1. PICK r, w \in Fd :
           /\ fdt[w] = Closed
           /\ fdt' = [fdt EXCEPT ![w] = Log(n)]
           /\ logw' = [u \in 0..n |-> IF u = n THEN w ELSE logw[u]]
    BY DEF LogPipe, TwoFree, LowestFree
  <2>2. \A u \in 0..(n - 1) : logw[u] \in Fd /\ fdt[logw[u]] = Log(u)
    BY DEF LogPipe, LogsOpen
  <2>3. \A u \in 0..(n - 1) : logw'[u] \in Fd /\ fdt'[logw'[u]] = Log(u)
    BY <2>1, <2>2, OpenObjects DEF TypeOK
  <2>4. logw'[n] = w /\ fdt'[w] = Log(n)
    BY <2>1 DEF TypeOK
  <2>5. \A u \in 0..(n' - 1) : logw'[u] \in Fd /\ fdt'[logw'[u]] = Log(u)
    <3>1. n \in Nat
      BY DEF TypeOK
    <3>2. \A u \in 0..(n' - 1) : u \in 0..(n - 1) \/ u = n
      BY <1>1, <3>1
    <3> QED
      BY <2>1, <2>3, <2>4, <3>2
  <2> QED
    BY <1>1, <2>5 DEF LogsOpen, Spawning, Wired
<1>7. EdgesOpen' /\ WiresOpen' /\ NullOpen' /\ LognOpen' /\ ScratchOpen' /\
      ScratchHigh' /\ SweptClean' /\ Placed' /\ Flags' /\ KitExact'
  BY <1>1 DEF EdgesOpen, WiresOpen, NullOpen, LognOpen, ScratchOpen,
              ScratchHigh, SweptClean, Placed, Flags, KitExact, Wired,
              Spawning, Starting
<1> QED
  BY <1>1, <1>3, <1>4, <1>5, <1>6, <1>7

LEMMA SignalFdInv ==
    ASSUME IInv, SignalFd
    PROVE  IInv'
<1> USE DEF IInv
<1>1. /\ pc' = "report"
      /\ edges' = edges /\ me' = me /\ born' = born
      /\ soft' = soft /\ hard' = hard /\ nrOpen' = nrOpen
      /\ n' = n /\ n = NUnits
      /\ logw' = logw /\ reportw' = reportw
      /\ edgeFd' = edgeFd /\ wire' = wire
      /\ nullfd' = nullfd /\ logn' = logn /\ scratch' = scratch
  BY DEF SignalFd, limits, table, pid1, kit, plan
<1>2. /\ plan' = plan /\ Objects' = Objects /\ WireType' = WireType
  BY PlanFixed DEF SignalFd
<1>3. TypeOK'
  BY <1>1, <1>2, ObjectFacts DEF SignalFd, TypeOK, Phases
<1>4. WireMeans' /\ WiresAll'
  BY <1>1 DEF SignalFd, WireMeans, WiresAll, Packing, Wired, Spawning, Starting
<1>5. NotYet'
  BY <1>1 DEF SignalFd, NotYet, Wired, Spawning, Starting
<1>6. LogsOpen'
  <2>1. Grows
    BY DEF SignalFd, Grows, TypeOK, TwoFree, LowestFree
  <2>2. \A u \in Units : logw[u] \in Fd /\ fdt[logw[u]] = Log(u)
    BY DEF SignalFd, LogsOpen, Units, Spawning, Wired
  <2>3. \A u \in Units : fdt'[logw[u]] = Log(u)
    BY <1>1, <1>2, <2>1, <2>2, Survivors
  <2> QED
    BY <1>1, <2>2, <2>3 DEF LogsOpen, Units
<1>7. EdgesOpen' /\ WiresOpen' /\ NullOpen' /\ LognOpen' /\ ScratchOpen' /\
      ScratchHigh' /\ SweptClean' /\ Placed' /\ Flags' /\ KitExact'
  BY <1>1 DEF EdgesOpen, WiresOpen, NullOpen, LognOpen, ScratchOpen,
              ScratchHigh, SweptClean, Placed, Flags, KitExact, Wired,
              Spawning, Starting
<1> QED
  BY <1>1, <1>3, <1>4, <1>5, <1>6, <1>7

LEMMA ReportPipeInv ==
    ASSUME IInv, ReportPipe
    PROVE  IInv'
<1> USE DEF IInv
<1>1. /\ pc' = "exec"
      /\ edges' = edges /\ me' = me /\ born' = born
      /\ soft' = soft /\ hard' = hard /\ nrOpen' = nrOpen
      /\ n' = n /\ logw' = logw
      /\ edgeFd' = edgeFd /\ wire' = wire
      /\ nullfd' = nullfd /\ logn' = logn /\ scratch' = scratch
  BY DEF ReportPipe, limits, table, pid1, kit, plan
<1>2. /\ plan' = plan /\ Objects' = Objects /\ WireType' = WireType
  BY PlanFixed DEF ReportPipe
<1>3. TypeOK'
  BY <1>1, <1>2, ObjectFacts DEF ReportPipe, TypeOK, Phases
<1>4. WireMeans' /\ WiresAll'
  BY <1>1 DEF ReportPipe, WireMeans, WiresAll, Packing, Wired, Spawning, Starting
<1>5. NotYet'
  BY <1>1 DEF ReportPipe, NotYet, Wired, Spawning, Starting
<1>6. LogsOpen'
  <2>1. Grows
    BY DEF ReportPipe, Grows, TypeOK, TwoFree, LowestFree
  <2>2. \A u \in Units : logw[u] \in Fd /\ fdt[logw[u]] = Log(u)
    BY DEF ReportPipe, LogsOpen, Units, Spawning, Wired
  <2>3. \A u \in Units : fdt'[logw[u]] = Log(u)
    BY <1>1, <1>2, <2>1, <2>2, Survivors
  <2> QED
    BY <1>1, <2>2, <2>3 DEF LogsOpen, Units
<1>7. EdgesOpen' /\ WiresOpen' /\ NullOpen' /\ LognOpen' /\ ScratchOpen' /\
      ScratchHigh' /\ SweptClean' /\ Placed' /\ Flags' /\ KitExact'
  BY <1>1 DEF EdgesOpen, WiresOpen, NullOpen, LognOpen, ScratchOpen,
              ScratchHigh, SweptClean, Placed, Flags, KitExact, Wired,
              Spawning, Starting
<1> QED
  BY <1>1, <1>3, <1>4, <1>5, <1>6, <1>7

LEMMA ExecSpawnerInv ==
    ASSUME IInv, ExecSpawner
    PROVE  IInv'
<1> USE DEF IInv
<1>1. /\ pc' = "edges"
      /\ edges' = edges /\ me' = me /\ born' = born
      /\ soft' = soft /\ hard' = hard /\ nrOpen' = nrOpen
      /\ n' = 0 /\ cloexec' = {}
      /\ logw' = logw /\ reportw' = reportw
      /\ edgeFd' = edgeFd /\ wire' = wire
      /\ nullfd' = nullfd /\ logn' = logn /\ scratch' = scratch
  BY DEF ExecSpawner, limits, table, pid1, kit, plan
<1>2. /\ plan' = plan /\ Objects' = Objects /\ WireType' = WireType
  BY PlanFixed DEF ExecSpawner
<1>3. TypeOK'
  <2>1. fdt' \in [Fd -> Objects]
    BY <1>2, ObjectFacts DEF ExecSpawner, TypeOK
  <2> QED
    BY <1>1, <1>2, <2>1 DEF TypeOK, Phases
<1>4. WireMeans' /\ WiresAll'
  BY <1>1 DEF ExecSpawner, WireMeans, WiresAll, Packing, Wired, Spawning, Starting
<1>5. NotYet' /\ EdgesOpen' /\ Flags'
  BY <1>1, EdgeFacts DEF ExecSpawner, NotYet, EdgesOpen, Flags, Wired, Spawning, Starting
<1>6. LogsOpen'
  <2>1. \A u \in Units : logw[u] \in Fd /\ fdt[logw[u]] = Log(u)
    BY DEF ExecSpawner, LogsOpen, Units, Spawning, Wired
  <2>2. \A u \in Units : fdt'[logw[u]] = fdt[logw[u]]
    BY <2>1 DEF ExecSpawner
  <2> QED
    BY <1>1, <2>1, <2>2 DEF LogsOpen, Units
<1>7. WiresOpen' /\ NullOpen' /\ LognOpen' /\ ScratchOpen' /\
      ScratchHigh' /\ SweptClean' /\ Placed' /\ KitExact'
  BY <1>1 DEF WiresOpen, NullOpen, LognOpen, ScratchOpen, ScratchHigh,
              SweptClean, Placed, KitExact, Wired, Spawning, Starting
<1> QED
  BY <1>1, <1>3, <1>4, <1>5, <1>6, <1>7

LEMMA SocketPairInv ==
    ASSUME IInv, SocketPair
    PROVE  IInv'
<1> USE DEF IInv
<1>1. /\ pc' = "edges"
      /\ edges' = edges /\ me' = me /\ born' = born
      /\ soft' = soft /\ hard' = hard /\ nrOpen' = nrOpen
      /\ n' = n + 1 /\ n < Len(edges) /\ cloexec' = cloexec
      /\ wire' = wire
      /\ logw' = logw /\ reportw' = reportw
      /\ nullfd' = nullfd /\ logn' = logn /\ scratch' = scratch
  BY DEF SocketPair, limits, table, pid1, kit, plan
<1>2. /\ plan' = plan /\ Objects' = Objects /\ WireType' = WireType
  BY PlanFixed DEF SocketPair
<1>3. TypeOK'
  <2>1. PICK r, w \in Fd :
           fdt' = [fdt EXCEPT ![r] = End(n + 1, 0), ![w] = End(n + 1, 1)]
    BY DEF SocketPair
  <2>2. n + 1 \in 1..Len(edges)
    BY <1>1, EdgeFacts DEF TypeOK
  <2>3. End(n + 1, 0) \in Objects /\ End(n + 1, 1) \in Objects
    BY <2>2, ObjectFacts DEF Sides
  <2>4. fdt' \in [Fd -> Objects]
    BY <1>2, <2>1, <2>3 DEF TypeOK
  <2> QED
    BY <1>1, <1>2, <2>4 DEF TypeOK, Phases
<1>4. WireMeans' /\ WiresAll'
  BY <1>1 DEF SocketPair, WireMeans, WiresAll, Packing, Wired, Spawning, Starting
<1>5. NotYet' /\ Flags'
  BY <1>1, EdgeFacts DEF SocketPair, TypeOK, NotYet, Flags, Wired, Spawning, Starting
<1>6. LogsOpen'
  <2>1. \A u \in Units : logw[u] \in Fd /\ fdt[logw[u]] = Log(u)
    BY DEF SocketPair, LogsOpen, Units, Spawning, Wired
  <2>2. \A u \in Units : fdt'[logw[u]] = Log(u)
    BY <2>1, OpenObjects DEF SocketPair, TypeOK, TwoFree, LowestFree
  <2> QED
    BY <1>1, <2>1, <2>2 DEF LogsOpen, Units
<1>7. EdgesOpen'
  <2>1. PICK r, w \in Fd :
           /\ fdt[r] = Closed /\ fdt[w] = Closed /\ r # w
           /\ fdt' = [fdt EXCEPT ![r] = End(n + 1, 0), ![w] = End(n + 1, 1)]
           /\ edgeFd' = [k \in 1..(n + 1) |->
                            IF k = n + 1
                            THEN [s \in Sides |-> IF s = 0 THEN r ELSE w]
                            ELSE edgeFd[k]]
    <3>1. \A r, w \in Fd : TwoFree(r, w) => fdt[r] = Closed /\ fdt[w] = Closed /\ r # w
      BY FdMaxAssumption DEF TwoFree, LowestFree, Fd
    <3> QED
      BY <3>1 DEF SocketPair
  <2>2. \A k \in 1..n : \A s \in Sides :
            edgeFd[k][s] \in Fd /\ fdt[edgeFd[k][s]] = End(k, s)
    BY DEF SocketPair, EdgesOpen
  <2>3. \A k \in 1..n : \A s \in Sides :
            edgeFd'[k][s] \in Fd /\ fdt'[edgeFd'[k][s]] = End(k, s)
    BY <2>1, <2>2, OpenObjects DEF TypeOK
  <2>4. \A s \in Sides :
            /\ edgeFd'[n + 1][s] \in Fd
            /\ fdt'[edgeFd'[n + 1][s]] = End(n + 1, s)
    BY <2>1 DEF TypeOK, Sides
  <2>5. \A k \in 1..n' : \A s \in Sides :
            edgeFd'[k][s] \in Fd /\ fdt'[edgeFd'[k][s]] = End(k, s)
    BY <1>1, <2>3, <2>4 DEF TypeOK
  <2> QED
    BY <1>1, <2>5 DEF EdgesOpen, Wired
<1>8. WiresOpen' /\ NullOpen' /\ LognOpen' /\ ScratchOpen' /\
      ScratchHigh' /\ SweptClean' /\ Placed' /\ KitExact'
  BY <1>1 DEF WiresOpen, NullOpen, LognOpen, ScratchOpen, ScratchHigh,
              SweptClean, Placed, KitExact, Wired, Spawning, Starting
<1> QED
  BY <1>1, <1>3, <1>4, <1>5, <1>6, <1>7, <1>8

LEMMA GatherInv ==
    ASSUME IInv, Gather
    PROVE  IInv'
<1> USE DEF IInv
<1>1. /\ pc' = "gather"
      /\ edges' = edges /\ me' = me /\ born' = born
      /\ soft' = soft /\ hard' = hard /\ nrOpen' = nrOpen
      /\ fdt' = fdt /\ cloexec' = cloexec
      /\ n' = 0 /\ n = Len(edges)
      /\ logw' = logw /\ reportw' = reportw
      /\ edgeFd' = edgeFd /\ wire' = wire
      /\ nullfd' = nullfd /\ logn' = logn /\ scratch' = scratch
  BY DEF Gather, limits, table, pid1, kit, plan
<1>2. /\ plan' = plan /\ Objects' = Objects /\ WireType' = WireType
  BY PlanFixed DEF Gather
<1>3. TypeOK'
  BY <1>1, <1>2 DEF TypeOK, Phases
<1>4. WireMeans'
  BY <1>1 DEF Gather, WireMeans, Packing, Wired, Spawning, Starting
<1>5. NotYet' /\ LogsOpen' /\ EdgesOpen' /\ Flags'
  BY <1>1, EdgeFacts DEF Gather, NotYet, LogsOpen, EdgesOpen, Flags, Wired, Spawning, Starting
<1>6. WiresOpen' /\ WiresAll'
  <2>1. wire' = << >>
    BY <1>1 DEF Gather, NotYet, Starting, Spawning, Wired
  <2> QED
    BY <1>1, <2>1 DEF WiresOpen, WiresAll, Packing
<1>7. NullOpen' /\ LognOpen' /\ ScratchOpen' /\ ScratchHigh' /\
      SweptClean' /\ Placed' /\ KitExact'
  BY <1>1 DEF NullOpen, LognOpen, ScratchOpen, ScratchHigh, SweptClean,
              Placed, KitExact, Wired, Spawning, Starting
<1> QED
  BY <1>1, <1>3, <1>4, <1>5, <1>6, <1>7

LEMMA GatherEdgeInv ==
    ASSUME IInv, GatherEdge
    PROVE  IInv'
<1> USE DEF IInv
<1>1. /\ pc' = "gather"
      /\ edges' = edges /\ me' = me /\ born' = born
      /\ soft' = soft /\ hard' = hard /\ nrOpen' = nrOpen
      /\ fdt' = fdt /\ cloexec' = cloexec
      /\ n' = n + 1 /\ n < Len(edges) /\ edgeFd' = edgeFd
      /\ logw' = logw /\ reportw' = reportw
      /\ nullfd' = nullfd /\ logn' = logn /\ scratch' = scratch
  BY DEF GatherEdge, limits, table, pid1, kit, plan
<1>2. /\ plan' = plan /\ Objects' = Objects /\ WireType' = WireType
  BY PlanFixed DEF GatherEdge
<1>3. TypeOK'
  <2>1. n + 1 \in 1..Len(edges)
    BY <1>1, EdgeFacts DEF TypeOK
  <2>2. \A s \in Sides : edgeFd[n + 1][s] \in Fd
    BY <2>1 DEF GatherEdge, EdgesOpen, Wired
  <2>3. edges[n + 1].a \in Units /\ edges[n + 1].b \in Units
    BY <2>1, EdgeFacts DEF EdgeType
  <2>4. \A s \in Sides, p \in Units : Wire(n + 1, s, p) \in WireType
    BY <2>1, <2>2 DEF Wire, WireType
  <2>5. wire' \in Seq(WireType)
    BY <2>3, <2>4 DEF GatherEdge, TypeOK, Sides
  <2> QED
    BY <1>1, <1>2, <2>5 DEF TypeOK, Phases
<1>4. NotYet' /\ LogsOpen' /\ EdgesOpen' /\ Flags'
  BY <1>1, EdgeFacts DEF GatherEdge, TypeOK, NotYet, LogsOpen, EdgesOpen, Flags, Wired, Spawning, Starting
<1>5. WireMeans' /\ WiresOpen' /\ WiresAll'
  <2> DEFINE k == n + 1
  <2>1. k \in 1..Len(edges) /\ n \in Nat
    BY <1>1, EdgeFacts DEF TypeOK
  <2>2. edges[k] = [a |-> edges[k].a, b |-> edges[k].b] /\ edges[k].a # edges[k].b
    BY <2>1, EdgeFacts DEF EdgeType
  <2>3. \A s \in Sides : fdt[edgeFd[k][s]] = End(k, s)
    BY <2>1 DEF GatherEdge, EdgesOpen, Wired
  <2>4. \A i \in 1..Len(wire) : wire[i].edge <= n
    BY DEF GatherEdge, WiresAll
  <2>5. \A i \in 1..n : me \in {edges[i].a, edges[i].b} =>
            \E j \in 1..Len(wire) : wire[j].edge = i
    BY DEF GatherEdge, WiresAll
  <2>6. \A i \in 1..n' : i \in 1..n \/ i = k
    BY <1>1, <2>1
  <2>7. CASE edges[k].a # me /\ edges[k].b # me
    <3>1. wire' = wire
      BY <2>7 DEF GatherEdge
    <3>2. WireMeans' /\ WiresOpen'
      BY <1>1, <3>1 DEF GatherEdge, WireMeans, WiresOpen, Wired
    <3>3. \A i \in 1..Len(wire) : wire[i].edge <= n'
      BY <1>1, <2>1, <2>4, WireFacts
    <3>4. \A i \in 1..n' : me \in {edges[i].a, edges[i].b} =>
              \E j \in 1..Len(wire) : wire[j].edge = i
      BY <2>5, <2>6, <2>7
    <3> QED
      BY <1>1, <3>1, <3>2, <3>3, <3>4 DEF WiresAll, Packing
  <2>8. ASSUME NEW s \in Sides, NEW p \in Units,
               wire' = Append(wire, Wire(k, s, p)),
               edges[k] = IF s = 0 THEN [a |-> me, b |-> p] ELSE [a |-> p, b |-> me]
        PROVE  WireMeans' /\ WiresOpen' /\ WiresAll'
    <3> DEFINE l == Len(wire) + 1
    <3>0. wire \in Seq(WireType) /\ Len(wire) \in Nat
      BY WireFacts DEF TypeOK
    <3>1. /\ Len(wire') = l
          /\ wire'[l] = Wire(k, s, p)
          /\ \A i \in 1..Len(wire) : wire'[i] = wire[i]
          /\ \A i \in 1..l : i \in 1..Len(wire) \/ i = l
      BY <2>8, <3>0
    <3>2. /\ wire'[l].fd = edgeFd[k][s] /\ wire'[l].edge = k
          /\ wire'[l].side = s /\ wire'[l].peer = p
      BY <3>1 DEF Wire
    <3> HIDE DEF l, k
    <3>3. WireMeans'
      BY <1>1, <2>8, <3>1, <3>2 DEF WireMeans
    <3>4. WiresOpen'
      BY <1>1, <2>3, <3>1, <3>2 DEF GatherEdge, WiresOpen, Wired
    <3>5. \A i, j \in 1..Len(wire') : i < j => wire'[i].edge < wire'[j].edge
      <4>1. \A i, j \in 1..Len(wire) : i < j => wire[i].edge < wire[j].edge
        BY DEF WiresAll
      <4>2. \A i \in 1..Len(wire) : wire[i].edge < k
        BY <2>1, <2>4, WireFacts, EdgeFacts DEF k
      <4>3. \A i \in 1..Len(wire) : i < l
        BY <3>0 DEF l
      <4>4. ~ (l < l) /\ \A i \in 1..Len(wire) : ~ (l < i)
        BY <3>0 DEF l
      <4> QED
        BY <3>1, <3>2, <4>1, <4>2, <4>3, <4>4
    <3>6. \A i \in 1..Len(wire') : wire'[i].edge <= n'
      BY <1>1, <2>1, <2>4, <3>1, <3>2, WireFacts, EdgeFacts DEF k
    <3>7. \A i \in 1..n' : me \in {edges[i].a, edges[i].b} =>
              \E j \in 1..Len(wire') : wire'[j].edge = i
      <4>1. l \in 1..Len(wire') /\ \A i \in 1..Len(wire) : i \in 1..Len(wire')
        BY <3>0, <3>1 DEF l
      <4> QED
        BY <2>5, <2>6, <3>1, <3>2, <4>1
    <3> QED
      BY <1>1, <3>3, <3>4, <3>5, <3>6, <3>7 DEF WiresAll, Packing
  <2>9. CASE edges[k].a = me
    BY <2>1, <2>2, <2>8, <2>9, EdgeFacts DEF GatherEdge, EdgeType, Sides
  <2>10. CASE edges[k].a # me /\ edges[k].b = me
    BY <2>1, <2>2, <2>8, <2>10, EdgeFacts DEF GatherEdge, EdgeType, Sides
  <2> QED
    BY <2>7, <2>9, <2>10
<1>6. NullOpen' /\ LognOpen' /\ ScratchOpen' /\ ScratchHigh' /\
      SweptClean' /\ Placed' /\ KitExact'
  BY <1>1 DEF NullOpen, LognOpen, ScratchOpen, ScratchHigh, SweptClean,
              Placed, KitExact, Wired, Spawning, Starting
<1> QED
  BY <1>1, <1>3, <1>4, <1>5, <1>6

LEMMA ForkHouseInv ==
    ASSUME IInv, ForkHouse
    PROVE  IInv'
<1> USE DEF IInv
<1>1. /\ pc' = "null"
      /\ edges' = edges /\ me' = me /\ born' = born
      /\ soft' = soft /\ hard' = hard /\ nrOpen' = nrOpen
      /\ fdt' = fdt /\ cloexec' = cloexec
      /\ n' = n /\ n = Len(edges)
      /\ logw' = logw /\ reportw' = reportw
      /\ edgeFd' = edgeFd /\ wire' = wire
      /\ nullfd' = nullfd /\ logn' = logn /\ scratch' = scratch
  BY DEF ForkHouse, limits, table, pid1, kit, plan
<1>2. /\ plan' = plan /\ Objects' = Objects /\ WireType' = WireType
  BY PlanFixed DEF ForkHouse
<1>3. TypeOK'
  BY <1>1, <1>2 DEF TypeOK, Phases
<1>4. WireMeans'
  BY <1>1 DEF ForkHouse, WireMeans, Packing, Wired, Spawning, Starting
<1>5. NotYet' /\ LogsOpen' /\ EdgesOpen' /\ Flags' /\ WiresOpen'
  BY <1>1 DEF ForkHouse, NotYet, LogsOpen, EdgesOpen, Flags, WiresOpen, Wired, Spawning, Starting
<1>6. WiresAll'
  BY <1>1 DEF ForkHouse, WiresAll, Packing
<1>7. NullOpen' /\ LognOpen' /\ ScratchOpen' /\ ScratchHigh' /\
      SweptClean' /\ Placed' /\ KitExact'
  BY <1>1 DEF NullOpen, LognOpen, ScratchOpen, ScratchHigh, SweptClean,
              Placed, KitExact, Wired, Spawning, Starting
<1> QED
  BY <1>1, <1>3, <1>4, <1>5, <1>6, <1>7

----------------------------------------------------------------------------
(* pack_kit: collecting. *)
LEMMA OpenNullInv ==
    ASSUME IInv, OpenNull
    PROVE  IInv'
<1> USE DEF IInv
<1>1. /\ pc' = "log"
      /\ edges' = edges /\ me' = me /\ born' = born
      /\ soft' = soft /\ hard' = hard /\ nrOpen' = nrOpen
      /\ n' = n /\ logn' = logn /\ scratch' = scratch
      /\ logw' = logw /\ reportw' = reportw
      /\ edgeFd' = edgeFd /\ wire' = wire
  BY DEF OpenNull, limits, table, pid1, kit, plan
<1>2. /\ plan' = plan /\ Objects' = Objects /\ WireType' = WireType
  BY PlanFixed DEF OpenNull
<1>3. TypeOK'
  BY <1>1, <1>2, ObjectFacts DEF OpenNull, TypeOK, Phases
<1>4. WireMeans' /\ WiresAll' /\ NotYet'
  BY <1>1 DEF OpenNull, WireMeans, WiresAll, NotYet, Packing, Wired, Spawning, Starting
<1>5. LogsOpen' /\ EdgesOpen' /\ WiresOpen'
  <2>1. Grows
    BY DEF OpenNull, Grows, TypeOK, LowestFree
  <2>2. /\ \A u \in Units : logw[u] \in Fd /\ fdt[logw[u]] = Log(u)
        /\ \A k \in 1..Len(edges) : \A s \in Sides :
              edgeFd[k][s] \in Fd /\ fdt[edgeFd[k][s]] = End(k, s)
        /\ \A k \in 1..Len(wire) :
              fdt[wire[k].fd] = End(wire[k].edge, wire[k].side)
    BY DEF OpenNull, LogsOpen, EdgesOpen, WiresOpen, Units, Spawning, Wired
  <2>3. /\ \A u \in Units : fdt'[logw[u]] = Log(u)
        /\ \A k \in 1..Len(edges) : \A s \in Sides :
              fdt'[edgeFd[k][s]] = End(k, s)
        /\ \A k \in 1..Len(wire) :
              fdt'[wire[k].fd] = End(wire[k].edge, wire[k].side)
    BY <1>1, <1>2, <2>1, <2>2, Survivors, EdgeFacts
  <2> QED
    BY <1>1, <2>2, <2>3 DEF LogsOpen, EdgesOpen, WiresOpen, Units, Wired
<1>6. NullOpen' /\ Flags'
  BY <1>1 DEF OpenNull, NullOpen, Flags, TypeOK
<1>7. LognOpen' /\ ScratchOpen' /\ ScratchHigh' /\ SweptClean' /\ Placed' /\
      KitExact'
  BY <1>1 DEF LognOpen, ScratchOpen, ScratchHigh, SweptClean, Placed,
              KitExact, Wired, Spawning, Starting
<1> QED
  BY <1>1, <1>3, <1>4, <1>5, <1>6, <1>7

LEMMA DupLogInv ==
    ASSUME IInv, DupLog
    PROVE  IInv'
<1> USE DEF IInv
<1>1. /\ pc' = "wires"
      /\ edges' = edges /\ me' = me /\ born' = born
      /\ soft' = soft /\ hard' = hard /\ nrOpen' = nrOpen
      /\ n' = 0 /\ nullfd' = nullfd /\ scratch' = scratch
      /\ logw' = logw /\ reportw' = reportw
      /\ edgeFd' = edgeFd /\ wire' = wire
  BY DEF DupLog, limits, table, pid1, kit, plan
<1>2. /\ plan' = plan /\ Objects' = Objects /\ WireType' = WireType
  BY PlanFixed DEF DupLog
<1>3. TypeOK'
  <2>1. logw[me] \in Fd
    BY DEF DupLog, LogsOpen, TypeOK, Units, Spawning, Wired
  <2> QED
    BY <1>1, <1>2, <2>1 DEF DupLog, TypeOK, Phases
<1>4. WireMeans' /\ WiresAll'
  BY <1>1 DEF DupLog, WireMeans, WiresAll, Packing, Wired, Spawning, Starting
<1>5. LogsOpen' /\ EdgesOpen' /\ WiresOpen'
  <2>1. Grows
    BY DEF DupLog, Grows, TypeOK, LowestFree
  <2>2. /\ \A u \in Units : logw[u] \in Fd /\ fdt[logw[u]] = Log(u)
        /\ \A k \in 1..Len(edges) : \A s \in Sides :
              edgeFd[k][s] \in Fd /\ fdt[edgeFd[k][s]] = End(k, s)
        /\ \A k \in 1..Len(wire) :
              fdt[wire[k].fd] = End(wire[k].edge, wire[k].side)
    BY DEF DupLog, LogsOpen, EdgesOpen, WiresOpen, Units, Spawning, Wired
  <2>3. /\ \A u \in Units : fdt'[logw[u]] = Log(u)
        /\ \A k \in 1..Len(edges) : \A s \in Sides :
              fdt'[edgeFd[k][s]] = End(k, s)
        /\ \A k \in 1..Len(wire) :
              fdt'[wire[k].fd] = End(wire[k].edge, wire[k].side)
    BY <1>1, <1>2, <2>1, <2>2, Survivors, EdgeFacts
  <2> QED
    BY <1>1, <2>2, <2>3 DEF LogsOpen, EdgesOpen, WiresOpen, Units, Wired
<1>6. NullOpen' /\ LognOpen'
  <2>1. fdt[logw[me]] = Log(me) /\ fdt[nullfd] = Null
    BY DEF DupLog, LogsOpen, NullOpen, TypeOK, Units, Spawning, Wired
  <2>2. PICK fd \in Fd :
           /\ LowestFree(fd, 3)
           /\ fdt' = [fdt EXCEPT ![fd] = Log(me)]
           /\ logn' = fd
    BY <2>1 DEF DupLog
  <2>3. fd >= 3 /\ fd \in Int /\ fdt[fd] = Closed /\ \A g \in 3..(fd - 1) : fdt[g] # Closed
    BY <2>2, FdMaxAssumption DEF LowestFree, Fd
  <2>4. fdt'[nullfd] = Null
    BY <2>1, <2>2, <2>3, OpenObjects DEF TypeOK
  <2>5. fdt'[fd] = Log(me)
    BY <2>2 DEF TypeOK
  <2>6. \A g \in 3..fd : g \in 3..(fd - 1) \/ g = fd
    BY <2>3
  <2>7. \A g \in 3..fd : g \in Fd
    BY <2>2, <2>3, FdMaxAssumption DEF Fd
  <2>8. \A g \in 3..fd : fdt'[g] # Closed
    BY <2>2, <2>3, <2>5, <2>6, <2>7, OpenObjects DEF TypeOK
  <2> QED
    BY <1>1, <2>2, <2>3, <2>4, <2>5, <2>8 DEF NullOpen, LognOpen
<1>7. ScratchOpen' /\ ScratchHigh'
  <2>1. scratch' = << >>
    BY <1>1 DEF DupLog, NotYet, Starting, Spawning, Wired
  <2> QED
    BY <1>1, <2>1, WireFacts DEF ScratchOpen, ScratchHigh
<1>8. Flags'
  BY <1>1 DEF DupLog, Flags, Keep
<1>9. NotYet' /\ SweptClean' /\ Placed' /\ KitExact'
  BY <1>1 DEF NotYet, SweptClean, Placed, KitExact, Wired, Spawning,
              Starting
<1> QED
  BY <1>1, <1>3, <1>4, <1>5, <1>6, <1>7, <1>8, <1>9

LEMMA DupWireInv ==
    ASSUME IInv, DupWire
    PROVE  IInv'
<1> USE DEF IInv
<1>1. /\ pc' = "wires"
      /\ edges' = edges /\ me' = me /\ born' = born
      /\ soft' = soft /\ hard' = hard /\ nrOpen' = nrOpen
      /\ n' = n + 1 /\ n < Len(wire) /\ nullfd' = nullfd /\ logn' = logn
      /\ logw' = logw /\ reportw' = reportw
      /\ edgeFd' = edgeFd /\ wire' = wire
  BY DEF DupWire, limits, table, pid1, kit, plan
<1>2. /\ plan' = plan /\ Objects' = Objects /\ WireType' = WireType
  BY PlanFixed DEF DupWire
<1>3. TypeOK'
  <2>1. n + 1 \in 1..Len(wire)
    BY <1>1, WireFacts DEF TypeOK
  <2>2. wire[n + 1].fd \in Fd
    BY <2>1, WireFacts
  <2>3. fdt' \in [Fd -> Objects] /\ cloexec' \in SUBSET Fd /\ scratch' \in Seq(Fd)
    BY <1>2, <2>2 DEF DupWire, TypeOK
  <2> QED
    BY <1>1, <1>2, <2>3 DEF TypeOK, Phases
<1>4. WireMeans' /\ WiresAll'
  BY <1>1 DEF DupWire, WireMeans, WiresAll, Packing, Wired, Spawning, Starting
<1>5. LogsOpen' /\ EdgesOpen' /\ WiresOpen'
  <2>1. Grows
    BY DEF DupWire, Grows, TypeOK, LowestFree
  <2>2. /\ \A u \in Units : logw[u] \in Fd /\ fdt[logw[u]] = Log(u)
        /\ \A k \in 1..Len(edges) : \A s \in Sides :
              edgeFd[k][s] \in Fd /\ fdt[edgeFd[k][s]] = End(k, s)
        /\ \A k \in 1..Len(wire) :
              fdt[wire[k].fd] = End(wire[k].edge, wire[k].side)
    BY DEF DupWire, LogsOpen, EdgesOpen, WiresOpen, Units, Spawning, Wired
  <2>3. /\ \A u \in Units : fdt'[logw[u]] = Log(u)
        /\ \A k \in 1..Len(edges) : \A s \in Sides :
              fdt'[edgeFd[k][s]] = End(k, s)
        /\ \A k \in 1..Len(wire) :
              fdt'[wire[k].fd] = End(wire[k].edge, wire[k].side)
    BY <1>1, <1>2, <2>1, <2>2, Survivors, EdgeFacts
  <2> QED
    BY <1>1, <2>2, <2>3 DEF LogsOpen, EdgesOpen, WiresOpen, Units, Wired
<1>6. NullOpen' /\ LognOpen' /\ ScratchOpen' /\ ScratchHigh' /\ Flags'
  <2> DEFINE l == n + 1
  <2>1. /\ n \in Nat /\ Len(scratch) = n /\ l \in 1..Len(wire)
        /\ scratch \in Seq(Fd)
    BY <1>1, WireFacts DEF DupWire, TypeOK, ScratchOpen
  <2>2. fdt[wire[l].fd] = End(wire[l].edge, wire[l].side)
    BY <2>1 DEF DupWire, WiresOpen, Wired
  <2>3. PICK fd \in Fd :
           /\ LowestFree(fd, 3)
           /\ fdt' = [fdt EXCEPT ![fd] = End(wire[l].edge, wire[l].side)]
           /\ cloexec' = cloexec \union {fd}
           /\ scratch' = Append(scratch, fd)
    BY <2>2 DEF DupWire
  <2>4. fd >= 3 /\ fd \in Int /\ fdt[fd] = Closed /\ \A g \in 3..(fd - 1) : fdt[g] # Closed
    BY <2>3, FdMaxAssumption DEF LowestFree, Fd
  <2>5. /\ Len(scratch') = l /\ scratch'[l] = fd
        /\ \A i \in 1..n : scratch'[i] = scratch[i]
        /\ \A i \in 1..l : i \in 1..n \/ i = l
    BY <2>1, <2>3
  <2>6. /\ fdt[nullfd] = Null /\ fdt[logn] = Log(me) /\ logn >= 3
        /\ \A g \in 3..logn : fdt[g] # Closed
    BY DEF DupWire, NullOpen, LognOpen
  <2>7. \A i \in 1..n :
           /\ \A g \in 3..scratch[i] : fdt[g] # Closed
           /\ scratch[i] > logn /\ scratch[i] > 2 + i
           /\ fdt[scratch[i]] = End(wire[i].edge, wire[i].side)
           /\ \A j \in 1..n : j < i => scratch[j] < scratch[i]
    BY <2>1 DEF DupWire, ScratchOpen, ScratchHigh
  <2>8. /\ logn \in Nat /\ logn \in Fd /\ nullfd \in Fd
        /\ \A i \in 1..n : scratch[i] \in Nat /\ scratch[i] \in Fd
    BY <2>1, WireFacts, FdMaxAssumption DEF TypeOK, Fd
  <2> HIDE DEF l
  (* the number is above every one already taken *)
  <2>9. logn < fd
    <3>1. CASE fd <= logn
      BY <2>4, <2>6, <2>8, <3>1
    <3> QED
      BY <2>4, <2>8, <3>1
  <2>10. \A i \in 1..n : scratch[i] < fd
    <3>1. SUFFICES ASSUME NEW i \in 1..n, fd <= scratch[i] PROVE FALSE
      BY <2>4, <2>8
    <3>2. fd \in 3..scratch[i]
      BY <2>4, <2>8, <3>1
    <3> QED
      BY <2>4, <2>7, <3>2
  <2>11. fd > 2 + l
    <3>1. CASE n = 0
      BY <2>4, <2>6, <2>8, <2>9, <3>1 DEF l
    <3>2. CASE n > 0
      <4>1. n \in 1..n
        BY <2>1, <3>2
      <4>2. scratch[n] > 2 + n /\ scratch[n] < fd /\ scratch[n] \in Nat
        BY <2>7, <2>8, <2>10, <4>1
      <4> QED
        BY <2>1, <2>4, <4>2 DEF l
    <3> QED
      BY <2>1, <3>1, <3>2
  (* and nothing already open is disturbed *)
  <2>12. /\ \A g \in Fd : fdt[g] # Closed => fdt'[g] = fdt[g]
         /\ fdt'[fd] = End(wire[l].edge, wire[l].side)
    BY <2>3, <2>4 DEF TypeOK
  <2>13. NullOpen'
    BY <1>1, <2>6, <2>8, <2>12, OpenObjects DEF NullOpen
  <2>14. \A g : g \in 3..fd => g \in Fd /\ (g \in 3..(fd - 1) \/ g = fd)
    BY <2>3, <2>4, FdMaxAssumption DEF Fd
  <2>15. \A g \in 3..fd : fdt'[g] # Closed
    BY <2>4, <2>12, <2>14, OpenObjects
  <2>16. \A g \in 3..logn : g \in 3..fd
    BY <2>4, <2>8, <2>9
  <2>17. LognOpen'
    BY <1>1, <2>6, <2>8, <2>12, <2>15, <2>16, OpenObjects DEF LognOpen
  <2>18. \A i \in 1..n : \A g \in 3..scratch[i] : g \in 3..fd
    BY <2>4, <2>8, <2>10
  <2>19. \A i \in 1..n : fdt'[scratch[i]] = End(wire[i].edge, wire[i].side)
    BY <2>7, <2>8, <2>12, OpenObjects
  <2>20. \A i \in 1..l :
            /\ \A g \in 3..scratch'[i] : fdt'[g] # Closed
            /\ scratch'[i] > logn /\ scratch'[i] > 2 + i
            /\ fdt'[scratch'[i]] = End(wire[i].edge, wire[i].side)
    BY <2>4, <2>5, <2>7, <2>8, <2>9, <2>11, <2>12, <2>15, <2>18, <2>19
  <2>21. \A i, j \in 1..l : j < i => scratch'[j] < scratch'[i]
    <3>1. \A i \in 1..n : i < l /\ ~ (l < i)
      BY <2>1 DEF l
    <3>2. ~ (l < l)
      BY <2>1 DEF l
    <3> QED
      BY <2>5, <2>7, <2>10, <3>1, <3>2
  <2>22. ScratchOpen'
    BY <1>1, <2>1, <2>5, <2>20, WireFacts DEF ScratchOpen, l
  <2>23. ScratchHigh'
    BY <1>1, <2>5, <2>20, <2>21 DEF ScratchHigh
  <2>24. Flags'
    <3>1. cloexec \subseteq Keep
      BY DEF DupWire, Flags
    <3>2. Keep \subseteq Keep' /\ fd \in Keep'
      BY <1>1, <2>1, <2>5 DEF Keep, l
    <3> QED
      BY <1>1, <2>3, <3>1, <3>2 DEF Flags
  <2> QED
    BY <2>13, <2>17, <2>22, <2>23, <2>24
<1>7. NotYet' /\ SweptClean' /\ Placed' /\ KitExact'
  BY <1>1 DEF NotYet, SweptClean, Placed, KitExact, Wired, Spawning,
              Starting
<1> QED
  BY <1>1, <1>3, <1>4, <1>5, <1>6, <1>7

----------------------------------------------------------------------------
(* pack_kit: placing. *)
LEMMA CloseOthersInv ==
    ASSUME IInv, CloseOthers
    PROVE  IInv'
<1> USE DEF IInv
<1>1. /\ pc' = "stdio"
      /\ edges' = edges /\ me' = me /\ born' = born
      /\ soft' = soft /\ hard' = hard /\ nrOpen' = nrOpen
      /\ n' = n /\ n = Len(wire)
      /\ logw' = logw /\ reportw' = reportw
      /\ edgeFd' = edgeFd /\ wire' = wire
      /\ nullfd' = nullfd /\ logn' = logn /\ scratch' = scratch
  BY DEF CloseOthers, limits, table, pid1, kit, plan
<1>2. /\ plan' = plan /\ Objects' = Objects /\ WireType' = WireType
  BY PlanFixed DEF CloseOthers
<1>3. TypeOK'
  <2>1. fdt' \in [Fd -> Objects] /\ cloexec' \in SUBSET Fd
    BY <1>2, ObjectFacts DEF CloseOthers, TypeOK
  <2> QED
    BY <1>1, <1>2, <2>1 DEF TypeOK, Phases
<1>4. WireMeans' /\ WiresAll'
  BY <1>1 DEF CloseOthers, WireMeans, WiresAll, Packing, Wired, Spawning, Starting
<1>5. NullOpen' /\ LognOpen' /\ ScratchOpen'
  <2>1. /\ nullfd \in Fd /\ logn \in Fd /\ nullfd \in Keep /\ logn \in Keep
        /\ \A k \in 1..Len(scratch) : scratch[k] \in Fd /\ scratch[k] \in Keep
    BY WireFacts DEF TypeOK, Keep
  <2>2. \A fd \in Fd : fd \in Keep => fdt'[fd] = fdt[fd]
    BY DEF CloseOthers
  <2> QED
    BY <1>1, <2>1, <2>2 DEF CloseOthers, NullOpen, LognOpen, ScratchOpen
<1>6. ScratchHigh' /\ SweptClean' /\ Flags'
  <2>1. Keep' = Keep
    BY <1>1 DEF Keep
  <2> QED
    BY <1>1, <2>1 DEF CloseOthers, ScratchHigh, ScratchOpen, SweptClean, Flags
<1>7. NotYet' /\ LogsOpen' /\ EdgesOpen' /\ WiresOpen' /\ Placed' /\
      KitExact'
  BY <1>1 DEF NotYet, LogsOpen, EdgesOpen, WiresOpen, Placed, KitExact,
              Wired, Spawning, Starting
<1> QED
  BY <1>1, <1>3, <1>4, <1>5, <1>6, <1>7

LEMMA PlaceStdioInv ==
    ASSUME IInv, PlaceStdio
    PROVE  IInv'
<1> USE DEF IInv
<1>1. /\ pc' = "place"
      /\ edges' = edges /\ me' = me /\ born' = born
      /\ soft' = soft /\ hard' = hard /\ nrOpen' = nrOpen
      /\ n' = 0
      /\ logw' = logw /\ reportw' = reportw
      /\ edgeFd' = edgeFd /\ wire' = wire
      /\ nullfd' = nullfd /\ logn' = logn /\ scratch' = scratch
  BY DEF PlaceStdio, limits, table, pid1, kit, plan
<1>2. /\ plan' = plan /\ Objects' = Objects /\ WireType' = WireType
  BY PlanFixed DEF PlaceStdio
<1>3. TypeOK'
  <2>1. nullfd \in Fd /\ logn \in Fd
    BY DEF TypeOK
  <2>2. fdt' \in [Fd -> Objects]
    BY <1>2, <2>1, ObjectFacts DEF PlaceStdio, TypeOK
  <2>3. cloexec' \in SUBSET Fd
    BY DEF PlaceStdio, TypeOK
  <2> QED
    BY <1>1, <1>2, <2>2, <2>3 DEF TypeOK, Phases
<1>4. WireMeans' /\ WiresAll' /\ ScratchHigh'
  BY <1>1 DEF PlaceStdio, WireMeans, WiresAll, ScratchHigh, Packing, Wired, Spawning, Starting
<1>5. Placed' /\ Flags'
  <2>1. /\ fdt[nullfd] = Null /\ fdt[logn] = Log(me) /\ logn >= 3
        /\ nullfd \in Fd /\ logn \in Fd /\ nullfd \in Nat /\ logn \in Nat
        /\ {0, 1, 2} \subseteq Fd
    BY FdMaxAssumption DEF PlaceStdio, NullOpen, LognOpen, TypeOK, Fd
  <2>2. /\ Len(scratch) = Len(wire) /\ Len(wire) \in Nat
        /\ \A k \in 1..Len(wire) :
              /\ scratch[k] \in Fd /\ scratch[k] \in Nat /\ scratch[k] > logn
              /\ fdt[scratch[k]] = End(wire[k].edge, wire[k].side)
    BY WireFacts, FdMaxAssumption DEF PlaceStdio, ScratchHigh, ScratchOpen, Fd
  <2>3. fdt'[0] = Null /\ fdt'[1] = Log(me) /\ fdt'[2] = Log(me)
    BY <2>1 DEF PlaceStdio
  <2>4. \A k \in 1..Len(wire) : scratch[k] \notin {0, 1, 2, logn}
    BY <2>1, <2>2
  <2>5. \A k \in 1..Len(wire) : scratch[k] # nullfd
    BY <2>1, <2>2 DEF Null, End
  <2>6. \A k \in 1..Len(wire) :
            fdt'[scratch[k]] = End(wire[k].edge, wire[k].side)
    BY <2>1, <2>2, <2>4, <2>5 DEF PlaceStdio
  <2>7. ASSUME NEW fd \in Fd, fd > 2, \A k \in 1..Len(wire) : fd # scratch[k]
        PROVE  fdt'[fd] = Closed
    <3>1. fd \notin {0, 1, 2} /\ fd \notin 0..2
      BY <2>7
    <3>2. CASE fd \in {nullfd, logn}
      BY <3>1, <3>2 DEF PlaceStdio
    <3>3. CASE fd \notin {nullfd, logn}
      <4>1. fd \notin Keep
        BY <2>2, <2>7, <3>3 DEF Keep
      <4>2. fdt[fd] = Closed
        BY <4>1 DEF PlaceStdio, SweptClean
      <4> QED
        BY <3>1, <3>3, <4>2 DEF PlaceStdio
    <3> QED
      BY <3>2, <3>3
  <2>8. Placed'
    BY <1>1, <2>2, <2>3, <2>6, <2>7 DEF Placed
  <2>9. cloexec \subseteq Keep
    BY DEF PlaceStdio, Flags
  <2>10. ASSUME NEW fd \in cloexec' PROVE \E k \in 1..Len(wire) : fd = scratch[k]
    <3>1. fd \in cloexec /\ fd \notin {0, 1, 2} /\ fd \notin {nullfd, logn} \ (0..2)
      BY <2>10 DEF PlaceStdio
    <3>2. \A x \in {nullfd, logn} : x \in 0..2 => x \in {0, 1, 2}
      BY <2>1
    <3>3. fd \notin {nullfd, logn}
      BY <3>1, <3>2
    <3> QED
      BY <2>2, <2>9, <3>1, <3>3 DEF Keep
  <2> QED
    BY <1>1, <2>8, <2>10 DEF Flags
<1>6. NotYet' /\ LogsOpen' /\ EdgesOpen' /\ WiresOpen' /\ NullOpen' /\
      LognOpen' /\ ScratchOpen' /\ SweptClean' /\ KitExact'
  BY <1>1 DEF NotYet, LogsOpen, EdgesOpen, WiresOpen, NullOpen, LognOpen,
              ScratchOpen, SweptClean, KitExact, Wired, Spawning, Starting
<1> QED
  BY <1>1, <1>3, <1>4, <1>5, <1>6

LEMMA PlaceInv ==
    ASSUME IInv, Place
    PROVE  IInv'
<1> USE DEF IInv
<1>1. /\ pc' = "place"
      /\ edges' = edges /\ me' = me /\ born' = born
      /\ soft' = soft /\ hard' = hard /\ nrOpen' = nrOpen
      /\ n' = n + 1 /\ n < Len(wire)
      /\ logw' = logw /\ reportw' = reportw
      /\ edgeFd' = edgeFd /\ wire' = wire
      /\ nullfd' = nullfd /\ logn' = logn /\ scratch' = scratch
  BY DEF Place, limits, table, pid1, kit, plan
<1>2. /\ plan' = plan /\ Objects' = Objects /\ WireType' = WireType
  BY PlanFixed DEF Place
<1>3. TypeOK'
  <2>1. n + 1 \in 1..Len(scratch)
    BY <1>1, WireFacts DEF Place, TypeOK, ScratchHigh
  <2>2. scratch[n + 1] \in Fd
    BY <2>1, WireFacts
  <2>3. fdt' \in [Fd -> Objects]
    BY <1>2, <2>2, ObjectFacts DEF Place, TypeOK
  <2>4. cloexec' \in SUBSET Fd
    BY DEF Place, TypeOK
  <2> QED
    BY <1>1, <1>2, <2>3, <2>4 DEF TypeOK, Phases
<1>4. WireMeans' /\ WiresAll' /\ ScratchHigh'
  BY <1>1 DEF Place, WireMeans, WiresAll, ScratchHigh, Packing, Wired, Spawning, Starting
<1>5. Placed' /\ Flags'
  <2> DEFINE l == n + 1
             target == 3 + n
             from == scratch[l]
  <2>1. /\ n \in Nat /\ Len(wire) \in Nat /\ Len(scratch) = Len(wire)
        /\ l \in 1..Len(wire) /\ n' = l
    BY <1>1, WireFacts DEF Place, TypeOK, ScratchHigh
  <2>2. \A k \in 1..Len(wire) :
           /\ scratch[k] \in Fd /\ scratch[k] \in Nat /\ scratch[k] > 2 + k
           /\ \A j \in 1..Len(wire) : j < k => scratch[j] < scratch[k]
    BY <2>1, WireFacts, FdMaxAssumption DEF Place, ScratchHigh, Fd
  <2>3. /\ from \in Fd /\ from > target /\ target \in Fd
    BY <2>1, <2>2, FdMaxAssumption DEF Fd
  <2>4. \A k \in (l + 1)..Len(wire) : scratch[k] > from /\ scratch[k] \in Fd
    BY <2>1, <2>2
  <2>5. fdt' = [fd \in Fd |-> CASE fd = target -> fdt[from]
                               [] fd = from /\ fd # target -> Closed
                               [] OTHER -> fdt[fd]]
    BY DEF Place
  <2>6. fdt'[target] = fdt[from] /\ fdt'[from] = Closed
    BY <2>3, <2>5 DEF Fd
  <2>7. \A fd \in Fd : fd # target /\ fd # from => fdt'[fd] = fdt[fd]
    BY <2>5
  <2>8. /\ fdt[0] = Null /\ fdt[1] = Log(me) /\ fdt[2] = Log(me)
        /\ \A k \in 1..n :
              2 + k \in Fd /\ fdt[2 + k] = End(wire[k].edge, wire[k].side)
        /\ \A k \in l..Len(wire) :
              fdt[scratch[k]] = End(wire[k].edge, wire[k].side)
        /\ \A fd \in Fd :
              fd > 2 + n /\ (\A k \in l..Len(wire) : fd # scratch[k])
                  => fdt[fd] = Closed
    BY DEF Place, Placed
  <2>9. fdt'[0] = Null /\ fdt'[1] = Log(me) /\ fdt'[2] = Log(me)
    <3>1. \A fd \in {0, 1, 2} : fd \in Fd /\ fd # target /\ fd # from
      BY <2>1, <2>3, FdMaxAssumption DEF Fd
    <3> QED
      BY <2>7, <2>8, <3>1
  <2>10. \A k \in 1..n : fdt'[2 + k] = End(wire[k].edge, wire[k].side)
    <3>1. \A k \in 1..n : 2 + k # target /\ 2 + k # from
      BY <2>1, <2>3, FdMaxAssumption DEF Fd
    <3> QED
      BY <2>7, <2>8, <3>1
  <2>11. fdt'[target] = End(wire[l].edge, wire[l].side)
    BY <2>1, <2>6, <2>8
  <2>12. \A k \in 1..l :
             2 + k \in Fd /\ fdt'[2 + k] = End(wire[k].edge, wire[k].side)
    <3>1. \A k \in 1..l : k \in 1..n \/ k = l
      BY <2>1
    <3>2. 2 + l = target
      BY <2>1
    <3> HIDE DEF l, target, from
    <3> QED
      BY <2>3, <2>8, <2>10, <2>11, <3>1, <3>2
  <2>13. \A k \in (l + 1)..Len(wire) :
             fdt'[scratch[k]] = End(wire[k].edge, wire[k].side)
    <3>1. \A k \in (l + 1)..Len(wire) : k \in l..Len(wire)
      BY <2>1
    <3>2. \A k \in (l + 1)..Len(wire) : scratch[k] # target /\ scratch[k] # from
      BY <2>3, <2>4, FdMaxAssumption DEF Fd
    <3> QED
      BY <2>4, <2>7, <2>8, <3>1, <3>2
  <2>14. ASSUME NEW fd \in Fd, fd > 2 + l,
                \A k \in (l + 1)..Len(wire) : fd # scratch[k]
         PROVE  fdt'[fd] = Closed
    <3>1. fd # target /\ fd > 2 + n
      BY <2>1, <2>14, FdMaxAssumption DEF Fd
    <3>2. CASE fd = from
      BY <2>6, <3>2
    <3>3. CASE fd # from
      <4>1. \A k \in l..Len(wire) : k \in (l + 1)..Len(wire) \/ k = l
        BY <2>1
      <4>2. \A k \in l..Len(wire) : fd # scratch[k]
        BY <2>14, <3>3, <4>1
      <4> QED
        BY <2>7, <2>8, <3>1, <3>3, <4>2
    <3> QED
      BY <3>2, <3>3
  <2>15. Placed'
    BY <1>1, <2>1, <2>9, <2>12, <2>13, <2>14 DEF Placed
  <2>16. ASSUME NEW fd \in cloexec' PROVE \E k \in (l + 1)..Len(wire) : fd = scratch[k]
    <3>1. fd \in cloexec /\ fd # from
      BY <2>16 DEF Place
    <3>2. PICK k \in l..Len(wire) : fd = scratch[k]
      BY <3>1 DEF Place, Flags
    <3>3. k \in (l + 1)..Len(wire)
      BY <2>1, <3>1, <3>2
    <3> QED
      BY <3>2, <3>3
  <2> QED
    BY <1>1, <2>1, <2>15, <2>16 DEF Flags
<1>6. NotYet' /\ LogsOpen' /\ EdgesOpen' /\ WiresOpen' /\ NullOpen' /\
      LognOpen' /\ ScratchOpen' /\ SweptClean' /\ KitExact'
  BY <1>1 DEF NotYet, LogsOpen, EdgesOpen, WiresOpen, NullOpen, LognOpen,
              ScratchOpen, SweptClean, KitExact, Wired, Spawning, Starting
<1> QED
  BY <1>1, <1>3, <1>4, <1>5, <1>6

LEMMA ExecSupInv ==
    ASSUME IInv, ExecSup
    PROVE  IInv'
<1> USE DEF IInv
<1>1. /\ pc' = "packed"
      /\ edges' = edges /\ me' = me /\ born' = born
      /\ soft' = soft /\ hard' = hard /\ nrOpen' = nrOpen
      /\ n' = n /\ n = Len(wire) /\ cloexec' = {}
      /\ logw' = logw /\ reportw' = reportw
      /\ edgeFd' = edgeFd /\ wire' = wire
      /\ nullfd' = nullfd /\ logn' = logn /\ scratch' = scratch
  BY DEF ExecSup, limits, table, pid1, kit, plan
<1>2. /\ plan' = plan /\ Objects' = Objects /\ WireType' = WireType
  BY PlanFixed DEF ExecSup
<1>3. TypeOK'
  <2>1. fdt' \in [Fd -> Objects]
    BY <1>2, ObjectFacts DEF ExecSup, TypeOK
  <2> QED
    BY <1>1, <1>2, <2>1 DEF TypeOK, Phases
<1>4. WireMeans' /\ WiresAll'
  BY <1>1 DEF ExecSup, WireMeans, WiresAll, Packing, Wired, Spawning, Starting
<1>5. KitExact'
  <2>1. cloexec = {}
    BY <1>1, WireFacts DEF ExecSup, Flags
  <2>2. \A fd \in Fd : fdt'[fd] = fdt[fd]
    BY <2>1 DEF ExecSup
  <2>3. {0, 1, 2} \subseteq Fd
    BY FdMaxAssumption DEF Fd
  <2>4. /\ fdt'[0] = Null /\ fdt'[1] = Log(me) /\ fdt'[2] = Log(me)
        /\ \A k \in 1..Len(wire) :
              2 + k \in Fd /\ fdt'[2 + k] = End(wire[k].edge, wire[k].side)
    BY <1>1, <2>2, <2>3 DEF ExecSup, Placed
  <2>5. \A fd \in Fd : fd > 2 + Len(wire) => fdt'[fd] = Closed
    BY <1>1, <2>2, WireFacts DEF ExecSup, Placed
  <2> QED
    BY <1>1, <2>4, <2>5 DEF KitExact, WireMeans
<1>6. NotYet' /\ LogsOpen' /\ EdgesOpen' /\ WiresOpen' /\ NullOpen' /\
      LognOpen' /\ ScratchOpen' /\ ScratchHigh' /\ SweptClean' /\ Placed' /\
      Flags'
  BY <1>1 DEF NotYet, LogsOpen, EdgesOpen, WiresOpen, NullOpen, LognOpen,
              ScratchOpen, ScratchHigh, SweptClean, Placed, Flags, Wired,
              Spawning, Starting
<1> QED
  BY <1>1, <1>3, <1>4, <1>5, <1>6

----------------------------------------------------------------------------
LEMMA InitIInv == Init => IInv
<1> SUFFICES ASSUME Init PROVE IInv
  OBVIOUS
<1>1. TypeOK
  <2>1. fdt \in [Fd -> Objects] /\ born \in SUBSET Fd
    BY ObjectFacts, LimitsAssumption DEF Init
  <2> QED
    BY <2>1, LimitsAssumption, FdMaxAssumption DEF Init, TypeOK, Phases, Fd
<1>2. NotYet /\ WireMeans /\ WiresAll
  BY DEF Init, NotYet, WireMeans, WiresAll, Wired, Packing
<1>3. /\ LogsOpen /\ EdgesOpen /\ WiresOpen /\ NullOpen /\ LognOpen
      /\ ScratchOpen /\ ScratchHigh /\ SweptClean /\ Placed /\ Flags /\ KitExact
  BY DEF Init, LogsOpen, EdgesOpen, WiresOpen, NullOpen, LognOpen, ScratchOpen,
         ScratchHigh, SweptClean, Placed, Flags, KitExact, Wired, Spawning
<1> QED
  BY <1>1, <1>2, <1>3 DEF IInv

LEMMA NextIInv == IInv /\ [Next]_vars => IInv'
  BY DeadEnds, Stutters, PreflightInv, LogPipeInv, SignalFdInv, ReportPipeInv,
     ExecSpawnerInv, SocketPairInv, GatherInv, GatherEdgeInv, ForkHouseInv,
     OpenNullInv, DupLogInv, DupWireInv, CloseOthersInv, PlaceStdioInv,
     PlaceInv, ExecSupInv
     DEF Next, Over

LEMMA Invariance == Spec => []IInv
  BY InitIInv, NextIInv, PTL DEF Spec

(* The chain's state is well typed, for every plan and every machine. *)
THEOREM Typing == Spec => []TypeOK
  BY Invariance, PTL DEF IInv

(* pack_kit gives every house that is executed exactly its kit, whatever   *)
(* the plan's size and edges, the limits, and the descriptors PID 1 was    *)
(* started with.                                                           *)
THEOREM KitIsExact == Spec => []KitExact
  BY Invariance, PTL DEF IInv

(* No dup2 of pack_kit lands on a wire's scratch that is still to be       *)
(* placed: the fourth collision axis, which nwspawn.c's comment leaves     *)
(* out, is closed by the lowest-number rule alone.                         *)
THEOREM NoCollision == Spec => []ScratchClearOfTargets
<1>1. IInv => ScratchClearOfTargets
  BY DEF IInv, ScratchHigh, ScratchClearOfTargets
<1> QED
  BY <1>1, Invariance, PTL

(* Each edge that names the house is wired into it once, for every edge    *)
(* table: the sum nw-spawn's census checks is right house by house.        *)
THEOREM AllEdgesWired == Spec => []EveryEdgeWired
<1>1. ASSUME IInv, pc = "packed", NEW k \in 1..Len(edges),
             me \in {edges[k].a, edges[k].b}
      PROVE  \E j \in 1..Len(wire) :
                 /\ wire[j].edge = k
                 /\ \A i \in 1..Len(wire) : wire[i].edge = k => i = j
  <2>1. PICK j \in 1..Len(wire) : wire[j].edge = k
    BY <1>1 DEF IInv, WiresAll, Packing
  <2>2. \A i \in 1..Len(wire) : wire[i].edge = k => i = j
    <3>1. SUFFICES ASSUME NEW i \in 1..Len(wire), wire[i].edge = k, i # j PROVE FALSE
      OBVIOUS
    <3>2. /\ i \in Int /\ j \in Int /\ k \in Int
          /\ i < j => wire[i].edge < wire[j].edge
          /\ j < i => wire[j].edge < wire[i].edge
      BY <1>1, WireFacts, EdgeFacts DEF IInv, WiresAll
    <3> QED
      BY <2>1, <3>1, <3>2
  <2> QED
    BY <2>1, <2>2
<1>2. IInv => EveryEdgeWired
  BY <1>1 DEF EveryEdgeWired
<1> QED
  BY <1>2, Invariance, PTL

----------------------------------------------------------------------------
(* The pre-flight's arithmetic. *)

(* A nonempty set of numbers has a least one: the well-founded minimum. *)
LEMMA Least ==
    ASSUME NEW S \in SUBSET Nat, NEW h \in S
    PROVE  \E m \in S : m <= h /\ \A g \in S : m <= g
<1>1. \E x \in S : \A y \in S : ~(<<y, x>> \in OpToRel(<, Nat))
  BY NatLessThanWellFounded, WFMin
<1>2. \A x, y \in Nat : y < x => <<y, x>> \in OpToRel(<, Nat)
  BY DEF OpToRel
<1>3. PICK m \in S : \A y \in S : ~(<<y, m>> \in OpToRel(<, Nat))
  BY <1>1
<1>4. \A y \in S : ~(y < m)
  BY <1>2, <1>3
<1> QED
  BY <1>4

(* A closed number below the limit means that a request is met. *)
LEMMA FreeBelow ==
    ASSUME TypeOK, NEW from \in Nat, NEW h \in from..(soft - 1), fdt[h] = Closed
    PROVE  \E fd \in Fd : LowestFree(fd, from) /\ fd <= h
<1> DEFINE S == {fd \in from..(soft - 1) : fdt[fd] = Closed}
<1>1. S \in SUBSET Nat /\ h \in S
  BY DEF TypeOK
<1>2. PICK m \in S : m <= h /\ \A g \in S : m <= g
  BY <1>1, Least
<1>3. m \in from..(soft - 1) /\ fdt[m] = Closed /\ m \in Nat
  BY <1>1
<1>4. m \in Fd
  BY <1>3, FdMaxAssumption DEF TypeOK, Fd
<1>5. ASSUME NEW g \in from..(m - 1) PROVE fdt[g] # Closed
  <2>1. g \in from..(soft - 1) /\ ~(m <= g)
    BY <1>3 DEF TypeOK
  <2> QED
    BY <1>2, <2>1
<1> QED
  BY <1>2, <1>3, <1>4, <1>5 DEF LowestFree

(* Two numbers above the mark and below the limit are enough for a pair. *)
LEMMA PairBelow ==
    ASSUME TypeOK, NEW h \in Nat, NothingFrom(h), h + 1 < soft
    PROVE  ~EmfilePair
<1>1. /\ h \in Fd /\ h + 1 \in Fd
      /\ h \in 0..(soft - 1) /\ h + 1 \in 0..(soft - 1)
  BY FdMaxAssumption DEF TypeOK, Fd
<1>2. fdt[h] = Closed /\ fdt[h + 1] = Closed
  BY <1>1 DEF NothingFrom
<1>3. PICK r \in Fd : LowestFree(r, 0) /\ r <= h
  BY <1>1, <1>2, FreeBelow
<1>4. r + 1 \in Nat /\ h + 1 \in (r + 1)..(soft - 1)
  BY <1>1, <1>3 DEF Fd
<1>5. PICK w \in Fd : LowestFree(w, r + 1) /\ w <= h + 1
  BY <1>2, <1>4, FreeBelow
<1> QED
  BY <1>3, <1>5 DEF EmfilePair, TwoFree

(* The lowest-number rule: the kernel passes over no closed number. *)
LEMMA NoneSkipped ==
    ASSUME NEW fd \in Fd, NEW from \in Nat, LowestFree(fd, from),
           NEW h \in Nat, h >= from, fdt[h] = Closed
    PROVE  fd <= h
<1>1. \A g \in from..(fd - 1) : fdt[g] # Closed
  BY DEF LowestFree
<1>2. fd \in Int /\ ~(h \in from..(fd - 1))
  BY <1>1 DEF Fd
<1> QED
  BY <1>2

(* So one descriptor more raises the mark by one, and a pair by two. *)
LEMMA OneAbove ==
    ASSUME NEW fd \in Fd, NEW from \in Nat, LowestFree(fd, from),
           NEW h \in Nat, h >= from, NothingFrom(h)
    PROVE  fd <= h
<1>1. fd \in Nat /\ (fd > h => h \in Fd)
  BY FdMaxAssumption DEF Fd
<1>2. CASE fd > h
  BY <1>1, <1>2, NoneSkipped DEF NothingFrom
<1> QED
  BY <1>1, <1>2

LEMMA TwoAbove ==
    ASSUME NEW r \in Fd, NEW w \in Fd, TwoFree(r, w),
           NEW h \in Nat, NothingFrom(h)
    PROVE  r <= h /\ w <= h + 1
<1>1. LowestFree(r, 0) /\ LowestFree(w, r + 1) /\ r \in Nat
  BY DEF TwoFree, Fd
<1>2. r <= h
  BY <1>1, OneAbove
<1>3. NothingFrom(h + 1)
  BY DEF NothingFrom, Fd
<1>4. w <= h + 1
  BY <1>1, <1>2, <1>3, OneAbove
<1> QED
  BY <1>2, <1>4

LEMMA NeedFacts ==
    ASSUME TypeOK
    PROVE  Need \in Nat /\ NUnits \in Nat /\ Len(edges) \in Nat /\ n \in Nat
  BY UnitsAssumption, EdgeFacts DEF Need, TypeOK

LEMMA TideEnds ==
    ASSUME IInv, Tide,
           \/ Refuse \/ RaiseFails \/ LogPipeFails \/ ReportPipeFails
           \/ SocketPairFails \/ PidPipeFails \/ NoNull \/ PackFails
    PROVE  Tide'
<1> SUFFICES ASSUME born' \subseteq 0..2
             PROVE  pc' \in {"refused", "halted", "nodev", "unpacked"}
  BY DEF Tide, Admitted
<1>1. born \subseteq 0..2
  BY DEF Refuse, RaiseFails, LogPipeFails, ReportPipeFails, SocketPairFails,
         PidPipeFails, NoNull, PackFails, plan
<1>2. TypeOK /\ soft \in Nat
  BY DEF IInv, TypeOK
<1>3. ~LogPipeFails
  <2>1. SUFFICES ASSUME LogPipeFails PROVE FALSE
    OBVIOUS
  <2>2. NothingFrom(4 + n) /\ Need <= soft /\ n < NUnits /\ EmfilePair
    BY <1>1, <2>1 DEF LogPipeFails, Tide, Admitted
  <2>3. 4 + n \in Nat /\ (4 + n) + 1 < soft
    BY <1>2, <2>2, NeedFacts DEF Need
  <2> QED
    BY <1>2, <2>2, <2>3, PairBelow
<1>4. ~ReportPipeFails
  <2>1. SUFFICES ASSUME ReportPipeFails PROVE FALSE
    OBVIOUS
  <2>2. NothingFrom(4 + NUnits) /\ Need <= soft /\ EmfilePair
    BY <1>1, <2>1 DEF ReportPipeFails, Tide, Admitted
  <2>3. 4 + NUnits \in Nat /\ (4 + NUnits) + 1 < soft
    BY <1>2, <2>2, NeedFacts DEF Need
  <2> QED
    BY <1>2, <2>2, <2>3, PairBelow
<1>5. ~SocketPairFails
  <2>1. SUFFICES ASSUME SocketPairFails PROVE FALSE
    OBVIOUS
  <2>2. /\ NothingFrom(6 + NUnits + 2 * n) /\ Need <= soft
        /\ n < Len(edges) /\ EmfilePair
    BY <1>1, <2>1 DEF SocketPairFails, Tide, Admitted
  <2>3. /\ 6 + NUnits + 2 * n \in Nat
        /\ (6 + NUnits + 2 * n) + 1 < soft
    BY <1>2, <2>2, NeedFacts DEF Need
  <2> QED
    BY <1>2, <2>2, <2>3, PairBelow
<1>6. ~PidPipeFails
  <2>1. SUFFICES ASSUME PidPipeFails PROVE FALSE
    OBVIOUS
  <2>2. NothingFrom(6 + NUnits + 2 * Len(edges)) /\ Need <= soft /\ EmfilePair
    BY <1>1, <2>1 DEF PidPipeFails, Tide, Admitted
  <2>3. /\ 6 + NUnits + 2 * Len(edges) \in Nat
        /\ (6 + NUnits + 2 * Len(edges)) + 1 < soft
    BY <1>2, <2>2, NeedFacts DEF Need
  <2> QED
    BY <1>2, <2>2, <2>3, PairBelow
<1> QED
  BY <1>3, <1>4, <1>5, <1>6 DEF Refuse, RaiseFails, NoNull, PackFails

LEMMA TidePreflight ==
    ASSUME IInv, Tide, Preflight
    PROVE  Tide'
<1> SUFFICES ASSUME born \subseteq 0..2 PROVE Tide'
  BY DEF Preflight, plan, Tide
<1>1. TypeOK /\ Need \in Nat /\ soft \in Nat
  BY NeedFacts DEF IInv, TypeOK
<1>2. /\ pc' = "pipes" /\ n' = 0 /\ Need' = Need /\ Need <= soft'
      /\ fdt' = fdt /\ NothingFrom(3)
  BY <1>1 DEF Preflight, Need, Tide, plan, table, limits
<1>3. 3 \in Fd /\ 3 \in 0..3 /\ fdt'[3] = Closed
  BY <1>2, FdMaxAssumption DEF NothingFrom, Fd
<1>4. NothingFrom(4 + n)'
  BY <1>1, <1>2 DEF NothingFrom, Fd
<1> QED
  BY <1>2, <1>3, <1>4 DEF Tide

LEMMA TideLogPipe ==
    ASSUME IInv, Tide, LogPipe
    PROVE  Tide'
<1> SUFFICES ASSUME born \subseteq 0..2 PROVE Tide'
  BY DEF LogPipe, plan, Tide
<1>1. TypeOK /\ n \in Nat
  BY NeedFacts DEF IInv
<1>2. /\ pc' = "pipes" /\ n' = n + 1 /\ Need' = Need /\ soft' = soft
      /\ Need <= soft /\ NothingFrom(4 + n)
  BY <1>1 DEF LogPipe, Need, Tide, plan, limits, Admitted
<1>3. PICK c \in 0..3 : fdt[c] = Closed
  BY DEF LogPipe, Tide
<1>4. PICK r, w \in Fd : TwoFree(r, w) /\ fdt' = [fdt EXCEPT ![w] = Log(n)]
  BY DEF LogPipe
<1>5. /\ LowestFree(r, 0) /\ LowestFree(w, r + 1)
      /\ r \in Nat /\ r + 1 \in Nat /\ w \in Nat /\ 4 + n \in Nat
  BY <1>1, <1>4 DEF TwoFree, Fd
<1>6. r <= 3
  BY <1>3, <1>5, NoneSkipped
<1>7. w <= 4 + n
  BY <1>1, <1>2, <1>5, <1>6, OneAbove
<1>8. r # w /\ fdt[r] = Closed
  BY <1>5 DEF LowestFree
<1>9. r \in 0..3 /\ fdt'[r] = Closed
  BY <1>1, <1>4, <1>5, <1>6, <1>8 DEF TypeOK
<1>10. \A fd \in Fd : fd >= 4 + n' => fdt'[fd] = fdt[fd] /\ fd >= 4 + n
  BY <1>1, <1>2, <1>4, <1>5, <1>7 DEF TypeOK, Fd
<1>11. NothingFrom(4 + n)'
  BY <1>2, <1>10 DEF NothingFrom
<1> QED
  BY <1>2, <1>9, <1>11 DEF Tide

LEMMA TideSignalFd ==
    ASSUME IInv, Tide, SignalFd
    PROVE  Tide'
<1> SUFFICES ASSUME born \subseteq 0..2 PROVE Tide'
  BY DEF SignalFd, plan, Tide
<1>1. TypeOK /\ NUnits \in Nat
  BY NeedFacts DEF IInv
<1>2. /\ pc' = "report" /\ n = NUnits /\ Need' = Need /\ soft' = soft
      /\ Need <= soft /\ NothingFrom(4 + NUnits)
  BY <1>1 DEF SignalFd, Need, Tide, plan, limits, Admitted
<1>3. PICK c \in 0..3 : fdt[c] = Closed
  BY DEF SignalFd, Tide
<1>4. PICK fd \in Fd : LowestFree(fd, 0) /\ fdt' = [fdt EXCEPT ![fd] = SigFd]
  BY DEF SignalFd
<1>5. c \in Nat /\ 0 \in Nat /\ c >= 0 /\ c <= 3 /\ fd \in Nat
  BY DEF Fd
<1>6. fd <= c
  BY <1>3, <1>4, <1>5, NoneSkipped
<1>7. \A g \in Fd : g >= 4 + NUnits => fdt'[g] = fdt[g]
  BY <1>1, <1>4, <1>5, <1>6 DEF TypeOK, Fd
<1>8. NothingFrom(4 + NUnits)'
  BY <1>2, <1>7 DEF NothingFrom
<1> QED
  BY <1>2, <1>8 DEF Tide

LEMMA TideReportPipe ==
    ASSUME IInv, Tide, ReportPipe
    PROVE  Tide'
<1> SUFFICES ASSUME born \subseteq 0..2 PROVE Tide'
  BY DEF ReportPipe, plan, Tide
<1>1. TypeOK /\ NUnits \in Nat /\ 4 + NUnits \in Nat
  BY NeedFacts DEF IInv
<1>2. /\ pc' = "exec" /\ Need' = Need /\ soft' = soft
      /\ Need <= soft /\ NothingFrom(4 + NUnits)
  BY <1>1 DEF ReportPipe, Need, Tide, plan, limits, Admitted
<1>3. PICK r, w \in Fd : TwoFree(r, w) /\ fdt' = [fdt EXCEPT ![w] = Report]
  BY DEF ReportPipe
<1>4. w <= (4 + NUnits) + 1
  BY <1>1, <1>2, <1>3, TwoAbove
<1>5. \A g \in Fd : g >= 6 + NUnits => fdt'[g] = fdt[g] /\ g >= 4 + NUnits
  BY <1>1, <1>3, <1>4 DEF TypeOK, Fd
<1>6. NothingFrom(6 + NUnits)'
  BY <1>2, <1>5 DEF NothingFrom
<1> QED
  BY <1>2, <1>6 DEF Tide

LEMMA TideExecSpawner ==
    ASSUME IInv, Tide, ExecSpawner
    PROVE  Tide'
<1> SUFFICES ASSUME born \subseteq 0..2 PROVE Tide'
  BY DEF ExecSpawner, plan, Tide
<1>1. TypeOK /\ NUnits \in Nat
  BY NeedFacts DEF IInv
<1>2. /\ pc' = "edges" /\ n' = 0 /\ Need' = Need /\ soft' = soft
      /\ Need <= soft /\ NothingFrom(6 + NUnits)
  BY <1>1 DEF ExecSpawner, Need, Tide, plan, limits, Admitted
<1>3. \A fd \in Fd : fdt[fd] = Closed => fdt'[fd] = Closed
  BY DEF ExecSpawner
<1>4. 6 + NUnits + 2 * n' = 6 + NUnits
  BY <1>1, <1>2
<1>5. NothingFrom(6 + NUnits + 2 * n)'
  BY <1>2, <1>3, <1>4 DEF NothingFrom
<1> QED
  BY <1>2, <1>5 DEF Tide

LEMMA TideSocketPair ==
    ASSUME IInv, Tide, SocketPair
    PROVE  Tide'
<1> SUFFICES ASSUME born \subseteq 0..2 PROVE Tide'
  BY DEF SocketPair, plan, Tide
<1> DEFINE h == 6 + NUnits + 2 * n
<1>1. TypeOK /\ NUnits \in Nat /\ n \in Nat /\ h \in Nat
  BY NeedFacts DEF IInv
<1>2. /\ pc' = "edges" /\ n' = n + 1 /\ Need' = Need /\ soft' = soft
      /\ Need <= soft /\ NothingFrom(h)
  BY <1>1 DEF SocketPair, Need, Tide, plan, limits, Admitted
<1>3. PICK r, w \in Fd :
         /\ TwoFree(r, w)
         /\ fdt' = [fdt EXCEPT ![r] = End(n + 1, 0), ![w] = End(n + 1, 1)]
  BY DEF SocketPair
<1>4. r <= h /\ w <= h + 1
  BY <1>1, <1>2, <1>3, TwoAbove
<1>5. \A g \in Fd : g >= h + 2 => fdt'[g] = fdt[g] /\ g >= h
  BY <1>1, <1>3, <1>4 DEF TypeOK, Fd
<1>6. 6 + NUnits + 2 * n' = h + 2
  BY <1>1, <1>2
<1>7. NothingFrom(6 + NUnits + 2 * n)'
  BY <1>2, <1>5, <1>6 DEF NothingFrom
<1> QED
  BY <1>2, <1>7 DEF Tide

LEMMA TideGather ==
    ASSUME IInv, Tide, Gather \/ GatherEdge
    PROVE  Tide'
<1> SUFFICES ASSUME born \subseteq 0..2 PROVE Tide'
  BY DEF Gather, GatherEdge, plan, Tide
<1>1. /\ pc' = "gather" /\ Need' = Need /\ soft' = soft /\ edges' = edges
      /\ fdt' = fdt /\ Need <= soft
      /\ NothingFrom(6 + NUnits + 2 * Len(edges))
  BY DEF Gather, GatherEdge, Need, Tide, plan, limits, table, Admitted
<1>2. NothingFrom(6 + NUnits + 2 * Len(edges))'
  BY <1>1 DEF NothingFrom
<1> QED
  BY <1>1, <1>2 DEF Tide

(* From the fork on there is nothing left to run out of: pack_kit's        *)
(* failures are the house's own ("unpacked").                              *)
LEMMA TideRest ==
    ASSUME IInv, Tide,
           \/ ForkHouse \/ OpenNull \/ DupLog \/ DupWire \/ CloseOthers
           \/ PlaceStdio \/ Place \/ ExecSup
    PROVE  Tide'
<1>1. pc' \in {"null", "log", "wires", "stdio", "place", "packed"}
  BY DEF ForkHouse, OpenNull, DupLog, DupWire, CloseOthers, PlaceStdio, Place,
         ExecSup
<1> QED
  BY <1>1 DEF Tide, Admitted

LEMMA TideStutters ==
    ASSUME Tide, UNCHANGED vars
    PROVE  Tide'
  BY DEF Tide, NothingFrom, Need, vars, plan, limits, table

LEMMA InitTide ==
    ASSUME Init PROVE Tide
<1>1. pc = "preflight" /\ fdt = [fd \in Fd |-> IF fd \in born THEN Foreign ELSE Closed]
  BY DEF Init
<1>2. born \subseteq 0..2 => NothingFrom(3)
  BY <1>1 DEF NothingFrom, Fd
<1> QED
  BY <1>1, <1>2 DEF Tide, Admitted

LEMMA NextTide == IInv /\ Tide /\ [Next]_vars => Tide'
  BY TideEnds, TidePreflight, TideLogPipe, TideSignalFd, TideReportPipe,
     TideExecSpawner, TideSocketPair, TideGather, TideRest, TideStutters
     DEF Next, Over

(* A boot that starts with nothing but stdio and whose pre-flight admits   *)
(* the plan never finds the table full, in PID 1 or in nw-spawn, whatever  *)
(* the plan's size: NW_BOOT_NEED covers the peak, and the pid pipe of the  *)
(* last fork reaches it exactly.                                           *)
THEOREM PreflightIsEnough == Spec => []PreflightSuffices
<1>1. Init => Tide
  BY InitTide
<1>2. Tide => PreflightSuffices
  BY DEF Tide, PreflightSuffices
<1> QED
  BY <1>1, <1>2, Invariance, NextTide, PTL DEF Spec
=============================================================================
