------------------------------ MODULE MCHandoff ------------------------------
(***************************************************************************)
(* Plans of at most three units: every collision of names and layers under *)
(* every hash, every path of a short field, every product of related       *)
(* fields at and around their limits, every small bind and edge table, and *)
(* headers whose counts wrap the size.                                     *)
(***************************************************************************)
EXTENDS HandoffProps

Array(t) == [k \in 0..(Len(t) - 1) |-> t[k + 1]]
Field(t, len) == [k \in 0..(len - 1) |-> IF k < Len(t) THEN t[k + 1] ELSE "nul"]
Name(t) == Field(t, NameLen)
Path(t) == Field(t, PathLen)

Plain ==
  [name |-> Name(<<"a">>), exec_path |-> Path(<<"/", "a">>), brick |-> Array(<<0, 0>>),
   layer |-> Name(<<>>), kind |-> 1, budget |-> 3, lids |-> 1, lock |-> 0,
   stop_signal |-> 0, grace_period |-> 0, nofile |-> 0, capabilities |-> 0,
   supervisor_death_policy |-> 0,
   res |-> [cpu_mask |-> 0, mem_high |-> 0, mem_max |-> 0, layer_bytes |-> 0,
            cpu_weight |-> 0, nice |-> 0, sched_policy |-> 0, task_cap |-> 0,
            oom_score_adj |-> 0]]

\* The brick of house n; the first byte of the first one is zero.
Bricked(n, l) ==
  [Plain EXCEPT !.name = Name(n), !.layer = Name(l), !.brick = Array(<<0, 171>>), !.lids = 7]
House(n, l) == IF l = <<>> THEN [Plain EXCEPT !.name = Name(n)] ELSE Bricked(n, l)

Blob(us, bs, es) ==
  [len |-> BlobSize(Len(us), Len(bs), Len(es)), magic |-> TRUE, crc |-> TRUE,
   nu |-> Len(us), nb |-> Len(bs), ne |-> Len(es),
   units |-> Array(us), binds |-> Array(bs), edges |-> Array(es)]

Single(u) == Blob(<<u>>, <<>>, <<>>)

Keys == UNION {[1..l -> NameChars] : l \in 1..2}
Few == {<<"a">>, <<"b">>, <<"a", "b">>}
Same == [k \in Keys |-> Slots - 2]       \* every text in one slot
AllHashes == {[k \in Keys |-> IF k \in Few THEN h[k] ELSE 0] : h \in [Few -> 0..(Slots - 1)]}

Cross(bs, hs) == [blob : bs, hash : hs]

Collisions ==
  {Blob(<<House(n[1], l[1]), House(n[2], l[2]), House(n[3], l[3])>>, <<>>, <<>>) :
     <<n, l>> \in ({n \in [1..3 -> Few] : n[1] = <<"a">>} \X {<< <<>>, <<>>, <<>> >>})
              \union ({<< <<"a">>, <<"b">>, <<"a", "b">> >>} \X [1..3 -> {<<>>, <<"a">>, <<"b">>}])}

Texts ==
  {Single([Plain EXCEPT !.exec_path = f]) :
     f \in [0..(PathLen - 1) -> {"a", "/", ".", "ctl", "nul"}]}
  \union {Single([Plain EXCEPT !.name = f]) :
     f \in [0..(NameLen - 1) -> {"a", "b", "/", "nul"}]}

Confined ==
  {Single([Plain EXCEPT !.brick = Array(b), !.layer = l, !.lids = k, !.res.layer_bytes = c]) :
     b \in {<<0, 0>>, <<0, 1>>, <<16, 0>>}, k \in 0..31, c \in {0, 1000},
     l \in {Name(<<>>), Name(<<"b", "a">>), Name(<<"a", "/">>), Name(<<"a", "b", "c">>),
            [Name(<<>>) EXCEPT ![1] = "a"], [Name(<<"a">>) EXCEPT ![2] = "b"]}}

Around(lo, hi) == {lo - 1, lo, 0, hi, hi + 1}

Resources ==
  {Single([Plain EXCEPT !.res.cpu_weight = w, !.res.sched_policy = s, !.res.nice = n,
                        !.res.oom_score_adj = o, !.res.mem_high = m[1], !.res.mem_max = m[2]]) :
     w \in {0, CpuWeightMax, CpuWeightMax + 1}, s \in {0, 1, SchedMax, SchedMax + 1},
     n \in Around(NiceMin, NiceMax), o \in Around(OomMin, OomMax),
     m \in {<<0, 0>>, <<1, 0>>, <<0, 9>>, <<8, 9>>, <<9, 9>>, <<9, 8>>}}

Numbers ==
  {Single([Plain EXCEPT !.stop_signal = s, !.grace_period = g]) : s \in 0..5, g \in {0, 1, GraceMax, GraceMax + 1}}
  \union {Single([Plain EXCEPT !.kind = k, !.lock = l, !.supervisor_death_policy = d]) :
            k \in 0..2, l \in 0..2, d \in 0..1}
  \union {Single([Plain EXCEPT !.nofile = x, !.res.task_cap = y, !.capabilities = c, !.res.cpu_mask = m]) :
            x \in {0, 127, 128, 255}, y \in {0, 128, 255}, c \in {0, 3, 4, 512, 1023}, m \in {0, 1023}}

Triple == <<House(<<"a">>, <<"b">>), [House(<<"b">>, <<>>) EXCEPT !.lock = 1], House(<<"a", "b">>, <<>>)>>
EdgeSet == [a : 0..3, b : 0..3]
BindSet == [unit : 0..3, path : {Path(<<"/", "a">>), Path(<<"/", ".", ".">>), Path(<<"/", "b">>)}]
Tables ==
  {Blob(Triple, <<>>, es) : es \in UNION {[1..k -> EdgeSet] : k \in 1..2}}
  \union {Blob(Triple, bs, <<>>) : bs \in UNION {[1..k -> BindSet] : k \in 1..2}}
  \union {Blob([Triple EXCEPT ![2].lock = 0], <<>>, es) : es \in [1..2 -> EdgeSet]}

Headers ==
  LET b == Blob(Triple, <<>>, <<>>)
  IN  {[b EXCEPT !.nu = n, !.nb = x, !.ne = y, !.len = l] :
         n \in {0, 1, 4, 5, 9, 10, 18, 19}, x \in {0, 3}, y \in {0, 3}, l \in 0..63}
      \union {[b EXCEPT !.magic = m, !.crc = c, !.len = l] :
                m \in BOOLEAN, c \in BOOLEAN, l \in 0..63}

MCInputs ==
  Cross(Collisions, AllHashes)
  \union Cross(Texts \union Confined \union Resources \union Numbers \union Tables, {Same})
  \union Cross({b \in Headers : b.len = BlobSize(b.nu, b.nb, b.ne) => b.nu <= 3 /\ b.nb = 0 /\ b.ne = 0},
               {Same})

MCNiceMin == -5
MCOomMin == -10
MCCapLasts == {-1, 1, 9}

\* Environments set by hand: one or two variables of a good one changed.
GoodEnv == Export(Blob(Triple, <<[unit |-> 0, path |-> Path(<<"/", "a">>)]>>, <<>>), 0)
Odd == {Absent, Blank, Trailing(1)} \union {Num(v) :
         v \in {-1023, -129, -128, -6, -1, 1, 5, 127, 128, 255, 256, 257, 511, 512, 1023, 1024, 1025}}
NumVars == DOMAIN GoodEnv \ {"NW_BRICK", "NW_LAYER", "NW_BIND"}
MCForged ==
  {[GoodEnv EXCEPT ![x] = v] : x \in NumVars, v \in Odd}
  \union {[GoodEnv EXCEPT !.NW_NICE = v, !.NW_SCHED_POLICY = w] : v \in Odd, w \in {Num(1), Num(257), Num(2)}}
  \union {[GoodEnv EXCEPT !.NW_MEM_HIGH = v, !.NW_MEM_MAX = w] : v \in Odd, w \in Odd}
  \union {[GoodEnv EXCEPT !.NW_BRICK = b, !.NW_LAYER = l, !.NW_LAYER_BYTES = c, !.NW_LIDS = k] :
            b \in {<<>>, <<0>>, <<0, 0, 0, 0>>, <<1, 2, 3, 16>>},
            l \in {<<>>, <<"a">>, <<"/">>, <<"a", "b", "c">>},
            c \in {Num(0), Num(7), Absent}, k \in {Num(0), Num(2), Num(4), Num(6)}}
  \union {[GoodEnv EXCEPT !.NW_BIND = b, !.NW_NBINDS = n] :
            b \in {<<>>, << <<>> >>, << <<"/">>, <<"/">> >>}, n \in {Num(0), Num(1), Num(2), Num(3)}}
==============================================================================
