------------------------------- MODULE Handoff -------------------------------
(***************************************************************************)
(* How a unit of an admitted plan reaches its supervisor.  nw-spawn prints *)
(* every field into an environment variable; nw-sup reads its unit from    *)
(* the environment and trusts none of it, so a variable may also have been *)
(* set by hand.  A numeric variable is absent, empty, a decimal number, or *)
(* a number followed by something else; the number is exact and the C      *)
(* conversions that read it have the width of their types.                 *)
(***************************************************************************)
EXTENDS Check

CONSTANTS
  IntBits, LongBits,  \* widths of int and long
  Forged,             \* environments set by hand
  CapLasts            \* what the kernel's cap_last_cap may be, -1 for unreadable

IntRange == -(2^(IntBits - 1))..(2^(IntBits - 1) - 1)
UIntRange == 0..(2^IntBits - 1)
ULongRange == 0..(2^LongBits - 1)

(* A long is wider than an int, which holds every limit of blob.h. *)
ASSUME WidthAssumption ==
  /\ IntBits \in Nat \ {0} /\ LongBits \in Nat \ {0} /\ IntBits < LongBits
  /\ {NiceMin, NiceMax, OomMin, OomMax, MaxBinds, GraceMax} \subseteq IntRange
  /\ StopsigMax <= 4

(* What arithmetic says of the powers that occur. *)
ASSUME PowerAssumption ==
  /\ {2^(IntBits - 1), 2^IntBits, 2^(LongBits - 1), 2^LongBits} \subseteq Nat \ {0}
  /\ 2^IntBits = 2 * 2^(IntBits - 1) /\ 2^LongBits = 2 * 2^(LongBits - 1)
  /\ 2^IntBits <= 2^(LongBits - 1)
  /\ \A c \in CapLasts : c \in Int /\ 2^(c + 1) \in Nat \ {0}

VARIABLES
  stage,    \* "plan", then "env" in nw-sup's main(), then "up" or the die()
  me,       \* the unit followed, or -1 for an environment set by hand
  env,      \* the environment nw-sup starts with
  eff,      \* the unit as nw-sup has read it
  cap_last

handVars == <<stage, me, env, eff, cap_last>>
vars == <<checkVars, handVars>>

(***************************************************************************)
(* Numbers as text                                                         *)
(***************************************************************************)
Absent == [k |-> "absent", v |-> 0]
Blank == [k |-> "empty", v |-> 0]
Num(n) == [k |-> "num", v |-> n]
Trailing(n) == [k |-> "trail", v |-> n]

Strtol(n) == IF n < -(2^(LongBits - 1)) THEN -(2^(LongBits - 1))
             ELSE IF n >= 2^(LongBits - 1) THEN 2^(LongBits - 1) - 1 ELSE n

Signed(n) == LET m == n % 2^IntBits IN IF m >= 2^(IntBits - 1) THEN m - 2^IntBits ELSE m
Unsigned(n) == n % 2^IntBits

\* atoi() is (int)strtol(); text without a number reads as 0.
Atoi(t, default) ==
  CASE t.k = "absent" -> default
    [] t.k = "empty" -> 0
    [] OTHER -> Signed(Strtol(t.v))

UAtoi_Saturating(t, default) ==
  LET max == 2^(IntBits - 1) - 1
  IN  CASE t.k = "absent" -> default
        [] t.k = "empty" -> 0
        [] OTHER -> IF t.v > max THEN max ELSE IF t.v < 0 THEN Unsigned(t.v) ELSE t.v

UAtoi(t, default) == Unsigned(Atoi(t, default))

\* Digits only, then strtoull() within uint64_t; absent or empty is 0.
U64Ok(t) == t.k \in {"absent", "empty"} \/ (t.k = "num" /\ t.v >= 0 /\ t.v < 2^LongBits)
U64(t) == IF t.k = "num" THEN t.v ELSE 0

\* strtoul() takes a sign and wraps; ERANGE is by magnitude.
GraceOk(t) ==
  \/ t.k = "absent"
  \/ /\ t.k = "num" /\ t.v < 2^LongBits /\ -t.v < 2^LongBits
     /\ t.v % 2^LongBits <= GraceMax
Grace(t) == IF t.k = "absent" THEN 0 ELSE t.v % 2^LongBits

\* What a variable may be set to, by nw-spawn or by hand.
NumText == [k : {"absent", "empty", "num", "trail"}, v : Int]
EnvType ==
  [NW_LIDS : NumText, NW_BUDGET : NumText, NW_KIND : NumText, NW_LOCK : NumText,
   NW_STOP_SIGNAL : NumText, NW_GRACE_PERIOD : NumText, NW_NOFILE : NumText,
   NW_CAPABILITIES : NumText, NW_SUPERVISOR_DEATH_POLICY : NumText,
   NW_BRICK : Seq(Int), NW_LAYER : Seq(Chars), NW_LAYER_BYTES : NumText,
   NW_CPU_MASK : NumText, NW_MEM_HIGH : NumText, NW_MEM_MAX : NumText,
   NW_CPU_WEIGHT : NumText, NW_NICE : NumText, NW_SCHED_POLICY : NumText,
   NW_TASK_CAP : NumText, NW_OOM_SCORE_ADJ : NumText, NW_NBINDS : NumText,
   NW_BIND : Seq(Seq(Chars))]

\* The unsigned fields of a unit fit the types blob.h gives them.
Fits(b) ==
  b.len = BlobSize(b.nu, b.nb, b.ne) =>
    \A k \in 0..(b.nu - 1) :
      LET u == b.units[k]
      IN  /\ {u.lids, u.budget, u.kind, u.lock, u.stop_signal, u.nofile,
              u.supervisor_death_policy, u.res.cpu_weight, u.res.sched_policy,
              u.res.task_cap} \subseteq UIntRange
          /\ {u.capabilities, u.res.layer_bytes, u.res.cpu_mask, u.res.mem_high,
              u.res.mem_max} \subseteq ULongRange

ASSUME HandoffAssumption ==
  /\ \A x \in Inputs : Fits(x.blob)
  /\ Forged \subseteq EnvType

(***************************************************************************)
(* nw-spawn: the unit as an environment                                    *)
(***************************************************************************)
HexLen == 2 * HashLen

\* "%02x" of every byte: two digits each, the high one first.
Hex(brick) ==
  [k \in 1..HexLen |->
     LET byte == brick[(k - 1) \div 2]
     IN  IF k % 2 = 1 THEN byte \div 16 ELSE byte % 16]

\* The binds of unit n, in table order: a bind is printed as NW_BIND_<number
\* of the unit's binds before it>.
Mine(b, n) == {j \in 0..(b.nb - 1) : b.binds[j].unit = n}
Before(S, j) == Cardinality({m \in S : m < j})

BindsOf(b, n) ==
  [k \in 1..Cardinality(Mine(b, n)) |->
     Text(b.binds[CHOOSE j \in Mine(b, n) : Before(Mine(b, n), j) = k - 1].path, PathLen)]

Export(b, n) ==
  LET u == b.units[n]
      r == u.res
  IN  [NW_LIDS |-> Num(u.lids), NW_BUDGET |-> Num(u.budget), NW_KIND |-> Num(u.kind),
       NW_LOCK |-> Num(u.lock), NW_STOP_SIGNAL |-> Num(u.stop_signal),
       NW_GRACE_PERIOD |-> Num(u.grace_period), NW_NOFILE |-> Num(u.nofile),
       NW_CAPABILITIES |-> Num(u.capabilities),
       NW_SUPERVISOR_DEATH_POLICY |-> Num(u.supervisor_death_policy),
       NW_BRICK |-> IF HasBrick(u) THEN Hex(u.brick) ELSE <<>>,
       NW_LAYER |-> Text(u.layer, NameLen),
       NW_LAYER_BYTES |-> Num(r.layer_bytes), NW_CPU_MASK |-> Num(r.cpu_mask),
       NW_MEM_HIGH |-> Num(r.mem_high), NW_MEM_MAX |-> Num(r.mem_max),
       NW_CPU_WEIGHT |-> Num(r.cpu_weight), NW_NICE |-> Num(r.nice),
       NW_SCHED_POLICY |-> Num(r.sched_policy), NW_TASK_CAP |-> Num(r.task_cap),
       NW_OOM_SCORE_ADJ |-> Num(r.oom_score_adj),
       NW_NBINDS |-> Num(Len(BindsOf(b, n))), NW_BIND |-> BindsOf(b, n)]

(***************************************************************************)
(* nw-sup: the environment as a unit                                       *)
(***************************************************************************)
\* The stop signal a byte stands for; unset is SIGTERM.
SignalOf(byte) == <<"TERM", "TERM", "INT", "HUP", "QUIT">>[byte + 1]

\* What main() holds after its reads; the signal and the binds come once the
\* checks have passed.  The widths are those of its locals.
Read(e) ==
  [lids |-> UAtoi(e.NW_LIDS, 0), budget |-> UAtoi(e.NW_BUDGET, 0),
   kind |-> UAtoi(e.NW_KIND, 1), lock |-> UAtoi(e.NW_LOCK, 0),
   stop |-> UAtoi(e.NW_STOP_SIGNAL, 0), grace |-> Grace(e.NW_GRACE_PERIOD),
   policy |-> UAtoi(e.NW_SUPERVISOR_DEATH_POLICY, 0),
   nofile |-> UAtoi(e.NW_NOFILE, 0), caps |-> U64(e.NW_CAPABILITIES),
   brick |-> e.NW_BRICK, layer |-> e.NW_LAYER,
   layer_bytes |-> U64(e.NW_LAYER_BYTES), cpu_mask |-> U64(e.NW_CPU_MASK),
   mem_high |-> U64(e.NW_MEM_HIGH), mem_max |-> U64(e.NW_MEM_MAX),
   weight |-> UAtoi(e.NW_CPU_WEIGHT, 0), nice |-> Atoi(e.NW_NICE, 0),
   sched |-> UAtoi(e.NW_SCHED_POLICY, 0), task_cap |-> UAtoi(e.NW_TASK_CAP, 0),
   oom |-> Atoi(e.NW_OOM_SCORE_ADJ, 0),
   nbinds |-> IF e.NW_BRICK = <<>> THEN 0 ELSE Atoi(e.NW_NBINDS, 0),
   signal |-> "none", binds |-> <<>>]

\* Widths and ranges, in the order main() meets them.
ValueRules(e, x, last) ==
  << <<"lock-value", x.lock > 1>>,
     <<"stop-signal-value", x.stop > StopsigMax>>,
     <<"grace-period", ~GraceOk(e.NW_GRACE_PERIOD)>>,
     <<"supervisor-death-policy", x.policy # 0>>,
     <<"capabilities-not-a-number", ~U64Ok(e.NW_CAPABILITIES)>>,
     <<"cap_last_cap", last = -1>>,
     <<"past-cap_last_cap",
       last # LongBits - 1 /\ x.caps \div 2^(last + 1) # 0>>,
     <<"brick-hash-length", x.brick # <<>> /\ Len(x.brick) # HexLen>>,
     <<"brick-hash-not-hex", \E k \in DOMAIN x.brick : x.brick[k] \notin 0..15>>,
     <<"layer-id-length", Len(x.layer) >= NameLen>>,
     <<"layer-id-not-a-name", \E k \in DOMAIN x.layer : x.layer[k] \notin NameChars>>,
     <<"layer-bytes", ~U64Ok(e.NW_LAYER_BYTES)>>,
     <<"cpu-mask", ~U64Ok(e.NW_CPU_MASK)>>,
     <<"mem-high", ~U64Ok(e.NW_MEM_HIGH)>>,
     <<"mem-max", ~U64Ok(e.NW_MEM_MAX)>>,
     <<"cpu-weight-range", x.weight > CpuWeightMax>>,
     <<"nice-range", x.nice < NiceMin \/ x.nice > NiceMax>>,
     <<"sched-policy-value", x.sched > SchedMax>> >>

\* The rules between fields, again in order.
CrossRules_NoCapacity(e, x) ==
  << <<"mem-high/max-order", x.mem_high # 0 /\ x.mem_max # 0 /\ x.mem_high >= x.mem_max>>,
     <<"nice-without-sched=other", x.nice # 0 /\ x.sched # 1>>,
     <<"oom-score-adj-range", x.oom < OomMin \/ x.oom > OomMax>>,
     <<"landlock-without-brick", Landlock(x.lids) /\ x.brick = <<>> >>,
     <<"brick-without-layer", x.brick # <<>> /\ x.layer = <<>> >>,
     <<"layer-without-brick", x.brick = <<>> /\ x.layer # <<>> >>,
     <<"brick-without-newns", x.brick # <<>> /\ ~NewNs(x.lids)>>,
     <<"nbinds", x.nbinds < 0 \/ x.nbinds > MaxBinds>>,
     <<"missing-bind", \E k \in 1..x.nbinds :
          k \notin DOMAIN e.NW_BIND \/ e.NW_BIND[k] = <<>> >> >>

CrossRules(e, x) ==
  << <<"mem-high/max-order", x.mem_high # 0 /\ x.mem_max # 0 /\ x.mem_high >= x.mem_max>>,
     <<"nice-without-sched=other", x.nice # 0 /\ x.sched # 1>>,
     <<"oom-score-adj-range", x.oom < OomMin \/ x.oom > OomMax>>,
     <<"landlock-without-brick", Landlock(x.lids) /\ x.brick = <<>> >>,
     <<"brick-without-layer", x.brick # <<>> /\ x.layer = <<>> >>,
     <<"layer-without-brick", x.brick = <<>> /\ x.layer # <<>> >>,
     <<"layer-bytes-without-layer", x.layer_bytes # 0 /\ x.layer = <<>> >>,
     <<"brick-without-newns", x.brick # <<>> /\ ~NewNs(x.lids)>>,
     <<"nbinds", x.nbinds < 0 \/ x.nbinds > MaxBinds>>,
     <<"missing-bind", \E k \in 1..x.nbinds :
          k \notin DOMAIN e.NW_BIND \/ e.NW_BIND[k] = <<>> >> >>

(***************************************************************************)
(* Steps                                                                   *)
(***************************************************************************)
NoEnv == [none |-> TRUE]

InitPlan ==
  /\ CheckInit
  /\ stage = "plan" /\ env = NoEnv

\* nw-sup started with an environment nobody checked, and without a plan.
InitByHand ==
  /\ blob = NoEnv /\ hash = NoEnv
  /\ pc = "done" /\ verdict = "none" /\ i = 0
  /\ dup = NoTable /\ lay = NoTable
  /\ stage = "env" /\ env \in Forged

Init ==
  /\ InitPlan \/ InitByHand
  /\ me = -1 /\ eff = NoEnv /\ cap_last = -1

\* nw-spawn's child for unit n: the environment, then exec of nw-sup.
Spawn ==
  /\ stage = "plan" /\ pc = "done" /\ verdict = "OK"
  /\ \E n \in 0..(blob.nu - 1) : me' = n /\ env' = Export(blob, n)
  /\ stage' = "env"
  /\ UNCHANGED <<checkVars, eff, cap_last>>

\* main() up to its signal mask.
Validate ==
  /\ stage = "env"
  /\ cap_last' \in CapLasts
  /\ LET x == Read(env)
         e == First(ValueRules(env, x, cap_last') \o CrossRules(env, x))
     IN  \/ e # "OK" /\ stage' = e /\ UNCHANGED eff
         \/ /\ e = "OK" /\ stage' = "up"
            /\ eff' = [x EXCEPT !.signal = SignalOf(x.stop),
                                !.binds = SubSeq(env.NW_BIND, 1, x.nbinds)]
  /\ UNCHANGED <<checkVars, me, env>>

Next ==
  \/ stage = "plan" /\ nw_check /\ UNCHANGED handVars
  \/ Spawn
  \/ Validate

Spec == Init /\ [][Next]_vars
==============================================================================
