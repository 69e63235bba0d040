----------------------------- MODULE HandoffProps -----------------------------
(* What nw_check() and nw-sup's reading of its environment promise.         *)
EXTENDS Handoff

(***************************************************************************)
(* A valid plan, said without an order of checks or a table                *)
(***************************************************************************)
IsName(f) ==
  \E n \in 1..(NameLen - 1) : /\ \A k \in 0..(n - 1) : f[k] \in NameChars
                              /\ \A k \in n..(NameLen - 1) : f[k] = "nul"

\* The components of a path are what lies between its slashes.
Spans(f, n) ==
  {r \in (0..(n - 1)) \X (1..n) :
     /\ r[1] < r[2] /\ f[r[1]] = "/"
     /\ r[2] = n \/ f[r[2]] = "/"
     /\ \A k \in (r[1] + 1)..(r[2] - 1) : f[k] # "/"}

Components(f, n) == {SubSeq(Text(f, PathLen), r[1] + 2, r[2]) : r \in Spans(f, n)}

IsPath(f) ==
  \E n \in 2..(PathLen - 1) :
    /\ f[0] = "/"
    /\ \A k \in 0..(n - 1) : f[k] \notin {"nul", "ctl"}
    /\ \A k \in n..(PathLen - 1) : f[k] = "nul"
    /\ <<".", ".">> \notin Components(f, n)

NoBrick(u) == u.brick = [k \in DOMAIN u.brick |-> 0]
NoLayer(u) == u.layer = [k \in 0..(NameLen - 1) |-> "nul"]

InRange(x, lo, hi) == lo <= x /\ x <= hi

ValidUnit(u) ==
  /\ IsName(u.name) /\ IsPath(u.exec_path)
  /\ \/ NoBrick(u) /\ NoLayer(u) /\ ~Landlock(u.lids) /\ u.res.layer_bytes = 0
     \/ ~NoBrick(u) /\ IsName(u.layer) /\ NewNs(u.lids)
  /\ u.kind \in 0..1 /\ u.lock \in 0..1 /\ u.lids \in 0..15
  /\ u.stop_signal \in 0..StopsigMax /\ u.supervisor_death_policy = 0
  /\ u.grace_period <= GraceMax
  /\ u.res.cpu_weight <= CpuWeightMax
  /\ InRange(u.res.oom_score_adj, OomMin, OomMax)
  /\ 0 \in {u.res.mem_high, u.res.mem_max} \/ u.res.mem_high < u.res.mem_max
  /\ \/ u.res.nice = 0 /\ u.res.sched_policy <= SchedMax
     \/ InRange(u.res.nice, NiceMin, NiceMax) /\ u.res.sched_policy = 1

Valid(b) ==
  LET Us == 0..(b.nu - 1)
  IN  /\ b.magic /\ b.crc
      /\ b.nu \in 1..MaxUnits /\ b.nb <= MaxBinds /\ b.ne <= MaxEdges
      /\ b.len = BlobSize(b.nu, b.nb, b.ne)
      /\ \A u \in Us : ValidUnit(b.units[u])
      /\ \A u, w \in Us : u # w =>
           /\ b.units[u].name # b.units[w].name
           /\ b.units[u].layer = b.units[w].layer => NoLayer(b.units[u])
      /\ \A k \in 0..(b.nb - 1) : /\ b.binds[k].unit \in Us
                                  /\ ~NoBrick(b.units[b.binds[k].unit])
                                  /\ IsPath(b.binds[k].path)
      /\ \A k \in 0..(b.ne - 1) :
           LET e == b.edges[k]
           IN  /\ {e.a, e.b} \subseteq Us /\ e.a # e.b
               /\ \A u \in {e.a, e.b} : b.units[u].lock = 0
      /\ \A k, j \in 0..(b.ne - 1) :
           k # j => {b.edges[k].a, b.edges[k].b} # {b.edges[j].a, b.edges[j].b}

(***************************************************************************)
(* Properties                                                              *)
(***************************************************************************)
(* nw_check() answers NW_OK for the valid plans and for no other, whatever *)
(* its names hash to: no early return is in the way of a later rule, and   *)
(* the probe neither misses a duplicate nor sees one that is not there.    *)
AcceptsExactly == pc = "done" /\ verdict # "none" => (verdict = "OK" <=> Valid(blob))

(* Nothing past the end of the file is read: by the time a table is walked *)
(* the 32-bit size has not wrapped and the counts fit the length.          *)
InBounds ==
  /\ pc = "units" /\ i < blob.nu => BlobSize(i + 1, 0, 0) <= blob.len
  /\ pc = "binds" /\ i < blob.nb => BlobSize(blob.nu, i + 1, 0) <= blob.len
  /\ pc = "edges" /\ i < blob.ne => BlobSize(blob.nu, blob.nb, i + 1) <= blob.len

\* nw-sup has given up on a unit that nw_check() has admitted.
Refused == me # -1 /\ stage \notin {"env", "up"}

\* y is unit n of plan b in every field, at both ends of its range; the
\* brick's text is that of this brick and of no other of the plan.
ReadBack(b, n, y) ==
  LET u == b.units[n]
      r == u.res
      mine == {k \in 0..(b.nb - 1) : b.binds[k].unit = n}
  IN  /\ <<y.lids, y.budget, y.kind, y.lock>> = <<u.lids, u.budget, u.kind, u.lock>>
      /\ <<y.grace, y.nofile, y.caps>> = <<u.grace_period, u.nofile, u.capabilities>>
      /\ y.signal = (CASE u.stop_signal \in {0, 1} -> "TERM" [] u.stop_signal = 2 -> "INT"
                         [] u.stop_signal = 3 -> "HUP" [] u.stop_signal = 4 -> "QUIT")
      /\ <<y.cpu_mask, y.mem_high, y.mem_max, y.layer_bytes>>
           = <<r.cpu_mask, r.mem_high, r.mem_max, r.layer_bytes>>
      /\ <<y.weight, y.nice, y.sched, y.task_cap, y.oom>>
           = <<r.cpu_weight, r.nice, r.sched_policy, r.task_cap, r.oom_score_adj>>
      /\ (y.brick = <<>>) = NoBrick(u)
      /\ \A w \in 0..(b.nu - 1) :
           ~NoBrick(u) /\ Hex(b.units[w].brick) = y.brick => b.units[w].brick = u.brick
      /\ y.layer = Text(u.layer, NameLen)
      /\ Len(y.binds) = Cardinality(mine)
      /\ \A k \in mine : \E j \in DOMAIN y.binds : y.binds[j] = Text(b.binds[k].path, PathLen)

(* Two validators, one language, and text that carries every field across: *)
(* a unit nw_check() has admitted reaches its house as the plan says it,   *)
(* and the nw-sup that nw-spawn starts for it refuses it only for a        *)
(* capability that the running kernel does not have.                       *)
UnitArrives ==
  /\ Refused => \/ stage = "cap_last_cap"
                \/ /\ stage = "past-cap_last_cap"
                   /\ blob.units[me].capabilities >= 2^(cap_last + 1)
  /\ stage = "up" /\ me # -1 => ReadBack(blob, me, eff)

(* Whatever the environment was, a unit nw-sup goes on with keeps the      *)
(* rules its child relies on: a house never pivots without a namespace, no *)
(* brick is without its layer, priority, weight, scheduling class and      *)
(* memory limits are within their ranges, and no grace period is one that  *)
(* poll(2) would read as "for ever".                                       *)
NothingTrusted ==
  stage = "up" =>
    /\ eff.brick # <<>> => NewNs(eff.lids) /\ eff.layer # <<>> /\ Len(eff.brick) = HexLen
    /\ eff.brick = <<>> => ~Landlock(eff.lids) /\ eff.layer = <<>> /\ eff.layer_bytes = 0
    /\ eff.grace \in 0..(2^(IntBits - 1) - 1)
    /\ InRange(eff.nice, NiceMin, NiceMax) /\ InRange(eff.oom, OomMin, OomMax)
    /\ eff.nice # 0 => eff.sched = 1
    /\ eff.weight <= CpuWeightMax /\ eff.sched <= SchedMax /\ eff.lock <= 1
    /\ 0 \in {eff.mem_high, eff.mem_max} \/ eff.mem_high < eff.mem_max
    /\ Len(eff.binds) = eff.nbinds /\ \A k \in DOMAIN eff.binds : eff.binds[k] # <<>>

(***************************************************************************)
(* The inductive invariant of nw_check()                                   *)
(***************************************************************************)
Used(tab) == {s \in DOMAIN tab : tab[s] # Empty}

\* The open-addressed table after the units S: each is found by its own probe
\* before an empty slot is, and no more slots are used than units were seen.
TableInv(tab, key, S, m) ==
  /\ tab \in [0..(Slots - 1) -> S \union {Empty}]
  /\ Cardinality(Used(tab)) <= m
  /\ \A j \in S : \E p \in 0..(Slots - 1) :
       /\ tab[ProbeAt(hash[key[j]], p)] = j
       /\ \A q \in 0..(p - 1) : tab[ProbeAt(hash[key[j]], q)] # Empty

Layered(m) == {j \in 0..(m - 1) : HasLayer(blob.units[j])}

\* The rules that the first m units, binds or edges have passed.
UnitsPassed(m) ==
  /\ \A j \in 0..(m - 1) : First(UnitRules(blob.units[j])) = "OK"
  /\ \A j, k \in 0..(m - 1) : NameKey[j] = NameKey[k] => j = k
  /\ \A j, k \in Layered(m) : LayerKey[j] = LayerKey[k] => j = k
BindsPassed(m) == \A j \in 0..(m - 1) : First(BindRules(blob, j)) = "OK"
EdgesPassed(m) == \A j \in 0..(m - 1) : First(EdgeRules(blob, j)) = "OK"

TablePhases == {"units", "binds", "edges"}

CheckInv ==
  /\ pc \in TablePhases \union {"header", "done"}
  /\ pc # "done" \/ verdict # "none" =>
       IsFile(blob) /\ hash \in [NameTexts -> 0..(Slots - 1)]
  /\ pc # "done" => verdict = "none"
  /\ pc = "header" => i = 0 /\ dup = NoTable /\ lay = NoTable
  /\ pc \in TablePhases => First(HeaderRules(blob)) = "OK"
  /\ pc = "units" =>
       /\ i \in 0..blob.nu /\ UnitsPassed(i)
       /\ TableInv(dup, NameKey, 0..(i - 1), i)
       /\ TableInv(lay, LayerKey, Layered(i), i)
  /\ pc \in {"binds", "edges"} => UnitsPassed(blob.nu)
  /\ pc = "binds" => i \in 0..blob.nb /\ BindsPassed(i)
  /\ pc = "edges" => BindsPassed(blob.nb) /\ i \in 0..blob.ne /\ EdgesPassed(i)
  /\ AcceptsExactly

(***************************************************************************)
(* The inductive invariant of the handoff                                  *)
(***************************************************************************)
HandInv ==
  /\ stage = "plan" => me = -1 /\ Fits(blob)
  /\ stage = "env" => env \in EnvType
  /\ me # -1 =>
       /\ stage # "plan" /\ pc = "done" /\ verdict = "OK" /\ Fits(blob)
       /\ me \in 0..(blob.nu - 1) /\ env = Export(blob, me)
  /\ UnitArrives /\ NothingTrusted
==============================================================================
