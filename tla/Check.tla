-------------------------------- MODULE Check --------------------------------
(***************************************************************************)
(* nw_check() of nwcheck.c: the one function that decides whether a sealed *)
(* plan is admitted.  A blob is read in file order: header, units, binds,  *)
(* edges; the first rule that fails is the answer.  Arrays are indexed     *)
(* from 0 as in C.  Text is an array of character classes, integers are    *)
(* exact, and the 32-bit size computation keeps its width.                 *)
(***************************************************************************)
EXTENDS Integers, Sequences, FiniteSets

CONSTANTS
  Inputs,      \* files offered, each with a slot for every text in it:
               \* [blob, hash], hash being hash_name() & (NW_DUP_SLOTS - 1)
  Slots,       \* NW_DUP_SLOTS
  MaxUnits, MaxBinds, MaxEdges,
  NameLen, PathLen,
  HashLen,     \* NW_BRICK_HASH
  U32,         \* 2^32
  HdrSize, UnitSize, BindSize, EdgeSize,
  CpuWeightMax, SchedMax, NiceMin, NiceMax, OomMin, OomMax, StopsigMax, GraceMax

(* blob.h's static assertions, and sizes and limits as numbers. *)
ASSUME CheckAssumption ==
  /\ {MaxUnits, MaxBinds, MaxEdges} \subseteq Nat
  /\ {NameLen, PathLen, HashLen, Slots, U32} \subseteq Nat \ {0}
  /\ {HdrSize, UnitSize, BindSize, EdgeSize} \subseteq Nat \ {0}
  /\ {CpuWeightMax, SchedMax, NiceMin, NiceMax, OomMin, OomMax, StopsigMax, GraceMax}
       \subseteq Int
  /\ NiceMin <= 0 /\ 0 <= NiceMax /\ SchedMax >= 1
  /\ MaxUnits < Slots

Empty == -1

(***************************************************************************)
(* Text fields                                                             *)
(***************************************************************************)
NameChars == {"a", "b", "c"}
Chars == NameChars \union {"/", ".", "ctl", "nul"}
NameField == [0..(NameLen - 1) -> Chars]
PathField == [0..(PathLen - 1) -> Chars]

\* Length up to the first NUL, or the whole field.
TextLen(f, max) ==
  LET ends == {k \in 0..(max - 1) : f[k] = "nul"}
  IN  IF ends = {} THEN max ELSE CHOOSE k \in ends : \A j \in ends : k <= j

Text(f, max) == [k \in 1..TextLen(f, max) |-> f[k - 1]]

ZeroTail(f, n, max) == \A k \in n..(max - 1) : f[k] = "nul"

name_ok(f) ==
  LET n == TextLen(f, NameLen)
  IN  /\ n # 0 /\ n < NameLen
      /\ \A k \in 0..(n - 1) : f[k] \in NameChars
      /\ ZeroTail(f, n, NameLen)

path_ok(f) ==
  LET n == TextLen(f, PathLen)
  IN  /\ f[0] = "/" /\ n >= 2 /\ n < PathLen
      /\ \A k \in 0..(n - 1) : f[k] # "ctl"
      /\ ZeroTail(f, n, PathLen)
      /\ \A k \in 0..(n - 1) :
           ~(f[k] = "/" /\ f[k + 1] = "." /\ f[k + 2] = "." /\ f[k + 3] \in {"/", "nul"})

(***************************************************************************)
(* The duplicate table                                                     *)
(***************************************************************************)
NoTable == [k \in 0..(Slots - 1) |-> Empty]

\* (s + p) & (NW_DUP_SLOTS - 1), for a start and a distance below NW_DUP_SLOTS.
ProbeAt(s, p) == IF s + p < Slots THEN s + p ELSE s + p - Slots

\* field_dup(): key[j] is the field of unit j, h the slot each key hashes to.
\* The first slot of the probe that is empty or holds the same text decides.
field_dup(tab, key, h, i) ==
  LET s == h[key[i]]
      stops == {p \in 0..(Slots - 1) :
                  \/ tab[ProbeAt(s, p)] = Empty
                  \/ key[tab[ProbeAt(s, p)]] = key[i]}
      k == ProbeAt(s, CHOOSE p \in stops : \A q \in stops : p <= q)
  IN  IF stops = {} THEN [found |-> FALSE, tab |-> tab]
      ELSE IF tab[k] = Empty
        THEN [found |-> FALSE, tab |-> [tab EXCEPT ![k] = i]]
        ELSE [found |-> TRUE, tab |-> tab]

(***************************************************************************)
(* Rules                                                                   *)
(***************************************************************************)
\* Early returns: the code of the first rule that is broken.
First(rules) ==
  LET broken == {k \in 1..Len(rules) : rules[k][2]}
  IN  IF broken = {} THEN "OK"
      ELSE rules[CHOOSE k \in broken : \A j \in broken : k <= j][1]

BlobSize(nu, nb, ne) == HdrSize + nu * UnitSize + nb * BindSize + ne * EdgeSize

\* The largest plan that the limits of blob.h allow does not wrap the size.
ASSUME SizeAssumption == BlobSize(MaxUnits, MaxBinds, MaxEdges) < U32

HeaderRules_NoUnitBound(b) ==
  << <<"SIZE",  b.len < HdrSize>>,
     <<"MAGIC", ~b.magic>>,
     <<"UNITS", b.nu < 1>>,
     <<"BINDS", b.nb > MaxBinds>>,
     <<"EDGES", b.ne > MaxEdges>>,
     <<"SIZE",  b.len # BlobSize(b.nu, b.nb, b.ne) % U32>>,
     <<"CRC",   ~b.crc>> >>

HeaderRules(b) ==
  << <<"SIZE",  b.len < HdrSize>>,
     <<"MAGIC", ~b.magic>>,
     <<"UNITS", b.nu < 1 \/ b.nu > MaxUnits>>,
     <<"BINDS", b.nb > MaxBinds>>,
     <<"EDGES", b.ne > MaxEdges>>,
     <<"SIZE",  b.len # BlobSize(b.nu, b.nb, b.ne) % U32>>,
     <<"CRC",   ~b.crc>> >>

\* nw_unit_has_brick(): every byte of the hash counts.
HasBrick_FirstByte(u) == u.brick[0] # 0

HasBrick(u) == \E k \in DOMAIN u.brick : u.brick[k] # 0

HasLayer(u) == u.layer[0] # "nul"

\* lids is a byte: SECCOMP, LANDLOCK, NEWNS, NEWNET from the lowest bit.
Bit(x, k) == (x \div 2^k) % 2 = 1
Landlock(lids) == Bit(lids, 1)
NewNs(lids) == Bit(lids, 2)

\* The resource block.
ResRules(u) ==
  LET r == u.res
  IN  << <<"RESWEIGHT",  r.cpu_weight > CpuWeightMax>>,
         <<"RESSCHED",   r.sched_policy > SchedMax>>,
         <<"RESNICE",    r.nice < NiceMin \/ r.nice > NiceMax>>,
         <<"OOMRANGE",   r.oom_score_adj < OomMin \/ r.oom_score_adj > OomMax>>,
         <<"MEMORDER",   r.mem_high # 0 /\ r.mem_max # 0 /\ r.mem_high >= r.mem_max>>,
         <<"NICEPOL",    r.nice # 0 /\ r.sched_policy # 1>>,
         <<"CAPNOLAYER", r.layer_bytes # 0 /\ ~HasLayer(u)>> >>

\* What is said of one unit alone, in the order of the loop.
UnitRules(u) ==
  << <<"NAME",    ~name_ok(u.name)>>,
     <<"PATH",    ~path_ok(u.exec_path)>>,
     <<"KIND",    u.kind \notin {0, 1}>>,
     <<"LLBRICK", Landlock(u.lids) /\ ~HasBrick(u)>>,
     <<"BRICKNS", HasBrick(u) /\ ~NewNs(u.lids)>>,
     <<"LAYER",   IF HasLayer(u) THEN ~name_ok(u.layer)
                  ELSE ~ZeroTail(u.layer, 0, NameLen)>>,
     <<"LAYERPAIR", HasLayer(u) # HasBrick(u)>> >>
  \o ResRules(u)
  \o << <<"LOCK",  u.lock > 1>>,
        <<"STOPSIG", u.stop_signal > StopsigMax>>,
        <<"GRACERANGE", u.grace_period > GraceMax>>,
        <<"SUPDEATH", u.supervisor_death_policy # 0>>,
        <<"LIDS",  u.lids >= 16>> >>

BindRules(b, i) ==
  LET bd == b.binds[i]
  IN  << <<"BINDIDX",  bd.unit >= b.nu>>,
         <<"BINDPATH", ~path_ok(bd.path)>>,
         <<"BINDIDX",  bd.unit < b.nu /\ ~HasBrick(b.units[bd.unit])>> >>

SamePair(e, f) == \/ e.a = f.a /\ e.b = f.b
                  \/ e.a = f.b /\ e.b = f.a

EdgeRules(b, i) ==
  LET e == b.edges[i]
      in == e.a < b.nu /\ e.b < b.nu
  IN  << <<"EDGEIDX",  ~in \/ e.a = e.b>>,
         <<"LOCKEDGE", in /\ (b.units[e.a].lock = 1 \/ b.units[e.b].lock = 1)>>,
         <<"EDGEDUP",  \E j \in 0..(i - 1) : SamePair(e, b.edges[j])>> >>

(***************************************************************************)
(* Files                                                                   *)
(***************************************************************************)
ResType ==
  [cpu_mask : Nat, mem_high : Nat, mem_max : Nat, layer_bytes : Nat, cpu_weight : Nat,
   nice : Int, sched_policy : Nat, task_cap : Nat, oom_score_adj : Int]

UnitType ==
  [name : NameField, exec_path : PathField, brick : [0..(HashLen - 1) -> 0..255],
   layer : NameField, kind : Nat, budget : Nat, lids : Nat, lock : Nat,
   stop_signal : Nat, grace_period : Nat, nofile : Nat, capabilities : Nat,
   supervisor_death_policy : Nat, res : ResType]

BindType == [unit : Nat, path : PathField]
EdgeType == [a : Nat, b : Nat]

\* Any header, and as many units, binds and edges as a file of the announced
\* length holds.
IsFile(b) ==
  /\ {b.len, b.nu, b.nb, b.ne} \subseteq Nat
  /\ {b.magic, b.crc} \subseteq BOOLEAN
  /\ b.len = BlobSize(b.nu, b.nb, b.ne) =>
       /\ \A k \in 0..(b.nu - 1) : k \in DOMAIN b.units /\ b.units[k] \in UnitType
       /\ \A k \in 0..(b.nb - 1) : b.binds[k] \in BindType
       /\ \A k \in 0..(b.ne - 1) : b.edges[k] \in EdgeType

\* What a name may be, and is hashed as.
NameTexts == UNION {[1..n -> NameChars] : n \in 1..(NameLen - 1)}

ASSUME InputsAssumption ==
  \A x \in Inputs : IsFile(x.blob) /\ x.hash \in [NameTexts -> 0..(Slots - 1)]

(***************************************************************************)
(* nw_check()                                                              *)
(***************************************************************************)
VARIABLES
  blob,     \* the file, and
  hash,     \* the hash of every text: neither changes
  pc,       \* "header", "units", "binds", "edges" or "done"
  i,        \* the loop's index
  dup, lay, \* the two tables
  verdict

inputs == <<blob, hash>>
checkVars == <<blob, hash, pc, i, dup, lay, verdict>>

NameKey == [j \in DOMAIN blob.units |-> Text(blob.units[j].name, NameLen)]
LayerKey == [j \in DOMAIN blob.units |-> Text(blob.units[j].layer, NameLen)]

CheckInit ==
  /\ \E x \in Inputs : blob = x.blob /\ hash = x.hash
  /\ pc = "header" /\ i = 0
  /\ dup = NoTable /\ lay = NoTable
  /\ verdict = "none"

Return(code) == pc' = "done" /\ verdict' = code

Header ==
  /\ pc = "header"
  /\ LET e == First(HeaderRules(blob))
     IN  \/ e # "OK" /\ Return(e)
         \/ e = "OK" /\ pc' = "units" /\ UNCHANGED verdict
  /\ UNCHANGED <<inputs, i, dup, lay>>

\* One unit: its own rules, then its name, then its layer if it has one.
Unit ==
  /\ pc = "units" /\ i < blob.nu
  /\ LET u == blob.units[i]
         e == First(UnitRules(u))
         n == field_dup(dup, NameKey, hash, i)
         l == field_dup(lay, LayerKey, hash, i)
     IN  \/ e # "OK" /\ Return(e) /\ UNCHANGED <<i, dup, lay>>
         \/ e = "OK" /\ n.found /\ Return("DUPNAME") /\ UNCHANGED <<i, dup, lay>>
         \/ /\ e = "OK" /\ ~n.found /\ dup' = n.tab
            /\ \/ /\ HasLayer(u) /\ l.found
                  /\ Return("LAYERDUP") /\ UNCHANGED <<i, lay>>
               \/ /\ HasLayer(u) => ~l.found
                  /\ lay' = IF HasLayer(u) THEN l.tab ELSE lay
                  /\ i' = i + 1 /\ UNCHANGED <<pc, verdict>>
  /\ UNCHANGED inputs

UnitsDone ==
  /\ pc = "units" /\ i >= blob.nu
  /\ pc' = "binds" /\ i' = 0
  /\ UNCHANGED <<inputs, dup, lay, verdict>>

Bind ==
  /\ pc = "binds" /\ i < blob.nb
  /\ LET e == First(BindRules(blob, i))
     IN  \/ e # "OK" /\ Return(e) /\ UNCHANGED i
         \/ e = "OK" /\ i' = i + 1 /\ UNCHANGED <<pc, verdict>>
  /\ UNCHANGED <<inputs, dup, lay>>

BindsDone ==
  /\ pc = "binds" /\ i >= blob.nb
  /\ pc' = "edges" /\ i' = 0
  /\ UNCHANGED <<inputs, dup, lay, verdict>>

Edge ==
  /\ pc = "edges" /\ i < blob.ne
  /\ LET e == First(EdgeRules(blob, i))
     IN  \/ e # "OK" /\ Return(e) /\ UNCHANGED i
         \/ e = "OK" /\ i' = i + 1 /\ UNCHANGED <<pc, verdict>>
  /\ UNCHANGED <<inputs, dup, lay>>

EdgesDone ==
  /\ pc = "edges" /\ i >= blob.ne
  /\ Return("OK")
  /\ UNCHANGED <<inputs, i, dup, lay>>

nw_check ==
  \/ Header \/ Unit \/ UnitsDone \/ Bind \/ BindsDone \/ Edge \/ EdgesDone
==============================================================================
