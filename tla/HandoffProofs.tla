--------------------------- MODULE HandoffProofs ---------------------------
(***************************************************************************)
(* nw_check() decides exactly the valid plans, for every file, every limit *)
(* and every hash of the names; and what nw-sup goes on with keeps its     *)
(* child's rules whatever the environment was.                             *)
(***************************************************************************)
EXTENDS HandoffProps, FiniteSetTheorems, SequenceTheorems, WellFoundedInduction, TLAPS

----------------------------------------------------------------------------
(* Least numbers and early returns *)

(* A nonempty set of numbers has a least one: the well-founded minimum. *)
LEMMA Least ==
    ASSUME NEW S \in SUBSET Nat, S # {}
    PROVE  \E m \in S : \A g \in S : m <= g
<1>1. PICK m \in S : \A y \in S : ~(<<y, m>> \in OpToRel(<, Nat))
  BY NatLessThanWellFounded, WFMin
<1>2. \A x, y \in Nat : y < x => <<y, x>> \in OpToRel(<, Nat)
  BY DEF OpToRel
<1>3. \A y \in S : ~(y < m)
  BY <1>1, <1>2
<1> QED
  BY <1>3

(* So the CHOOSE of a least element is one. *)
LEMMA LeastChosen ==
    ASSUME NEW S \in SUBSET Nat, S # {}
    PROVE  LET m == CHOOSE k \in S : \A j \in S : k <= j
           IN  m \in S /\ \A j \in S : m <= j
<1>1. \E k \in S : \A j \in S : k <= j
  BY Least
<1> QED
  BY <1>1

(* The answer is "OK" when no rule is broken, and else the code of a       *)
(* broken rule.                                                            *)
LEMMA FirstUnbroken ==
    ASSUME NEW rules, \A k \in 1..Len(rules) : ~rules[k][2]
    PROVE  First(rules) = "OK"
  BY DEF First

LEMMA FirstBroken ==
    ASSUME NEW rules, Len(rules) \in Nat,
           NEW k \in 1..Len(rules), rules[k][2]
    PROVE  \E m \in 1..Len(rules) : rules[m][2] /\ First(rules) = rules[m][1]
<1> DEFINE broken == {j \in 1..Len(rules) : rules[j][2]}
<1>1. broken \in SUBSET Nat /\ broken # {}
  OBVIOUS
<1> DEFINE m == CHOOSE j \in broken : \A l \in broken : j <= l
<1>2. m \in broken
  BY <1>1, LeastChosen
<1>3. First(rules) = rules[m][1]
  BY <1>1 DEF First
<1> QED
  BY <1>2, <1>3

(* Early returns of a table of rules none of whose codes is "OK".          *)
LEMMA FirstDecides ==
    ASSUME NEW rules, Len(rules) \in Nat,
           \A k \in 1..Len(rules) : rules[k][1] # "OK"
    PROVE  First(rules) = "OK" <=> \A k \in 1..Len(rules) : ~rules[k][2]
  BY FirstUnbroken, FirstBroken

----------------------------------------------------------------------------
(* Text *)

LEMMA TextLenFacts ==
    ASSUME NEW max \in Nat, NEW f
    PROVE  LET n == TextLen(f, max)
           IN  /\ n \in 0..max
               /\ \A k \in 0..(n - 1) : f[k] # "nul"
               /\ n < max => f[n] = "nul"
<1> DEFINE ends == {k \in 0..(max - 1) : f[k] = "nul"}
           n == TextLen(f, max)
<1>1. CASE ends = {}
  <2>1. n = max
    BY <1>1 DEF TextLen
  <2> QED
    BY <1>1, <2>1
<1>2. CASE ends # {}
  <2>1. ends \in SUBSET Nat
    OBVIOUS
  <2>2. n = CHOOSE k \in ends : \A j \in ends : k <= j
    BY <1>2 DEF TextLen
  <2>3. n \in ends /\ \A j \in ends : n <= j
    BY <1>2, <2>1, <2>2, LeastChosen
  <2>4. n \in 0..(max - 1) /\ f[n] = "nul"
    BY <2>3
  <2>5. \A k \in 0..(n - 1) : f[k] # "nul"
    <3>1. SUFFICES ASSUME NEW k \in 0..(n - 1), f[k] = "nul" PROVE FALSE
      OBVIOUS
    <3>2. k \in ends
      BY <2>4, <3>1
    <3> QED
      BY <2>3, <2>4, <3>2
  <2> QED
    BY <2>4, <2>5
<1> QED
  BY <1>1, <1>2

(* The first NUL is where the text ends. *)
LEMMA TextLenIs ==
    ASSUME NEW max \in Nat, NEW f, NEW n \in 0..(max - 1),
           \A k \in 0..(n - 1) : f[k] # "nul", f[n] = "nul"
    PROVE  TextLen(f, max) = n
<1> DEFINE t == TextLen(f, max)
<1>1. /\ t \in 0..max /\ (\A k \in 0..(t - 1) : f[k] # "nul")
      /\ t < max => f[t] = "nul"
  BY TextLenFacts
<1>2. ~(t < n)
  BY <1>1
<1>3. ~(n < t)
  BY <1>1
<1> QED
  BY <1>1, <1>2, <1>3

LEMMA NameExact ==
    ASSUME NEW f \in NameField
    PROVE  name_ok(f) <=> IsName(f)
<1> DEFINE n == TextLen(f, NameLen)
<1>1. NameLen \in Nat /\ NameLen > 0
  BY CheckAssumption
<1>2. /\ n \in 0..NameLen /\ (\A k \in 0..(n - 1) : f[k] # "nul")
  BY <1>1, TextLenFacts
<1>3. ASSUME name_ok(f) PROVE IsName(f)
  <2>1. n # 0 /\ n < NameLen /\ (\A k \in 0..(n - 1) : f[k] \in NameChars)
    BY <1>3 DEF name_ok
  <2>2. \A k \in n..(NameLen - 1) : f[k] = "nul"
    BY <1>3 DEF name_ok, ZeroTail
  <2>3. n \in 1..(NameLen - 1)
    BY <1>1, <1>2, <2>1
  <2> QED
    BY <2>1, <2>2, <2>3 DEF IsName
<1>4. ASSUME IsName(f) PROVE name_ok(f)
  <2>1. PICK m \in 1..(NameLen - 1) : /\ \A k \in 0..(m - 1) : f[k] \in NameChars
                                      /\ \A k \in m..(NameLen - 1) : f[k] = "nul"
    BY <1>4 DEF IsName
  <2>2. m \in 0..(NameLen - 1) /\ f[m] = "nul" /\ \A k \in 0..(m - 1) : f[k] # "nul"
    BY <1>1, <2>1 DEF NameChars
  <2>3. n = m
    BY <1>1, <2>2, TextLenIs
  <2> QED
    BY <1>1, <2>1, <2>3 DEF name_ok, ZeroTail
<1> QED
  BY <1>3, <1>4

(* Two good names with the same text are the same field. *)
LEMMA TextIsField ==
    ASSUME NEW f \in NameField, NEW g \in NameField, IsName(f), IsName(g)
    PROVE  Text(f, NameLen) = Text(g, NameLen) <=> f = g
<1> DEFINE n == TextLen(f, NameLen)
           m == TextLen(g, NameLen)
<1>1. NameLen \in Nat
  BY CheckAssumption
<1>2. /\ n \in Nat /\ n < NameLen /\ \A k \in n..(NameLen - 1) : f[k] = "nul"
      /\ m \in Nat /\ m < NameLen /\ \A k \in m..(NameLen - 1) : g[k] = "nul"
  <2>1. n \in 0..NameLen /\ m \in 0..NameLen
    BY <1>1, TextLenFacts
  <2>2. name_ok(f) /\ name_ok(g)
    BY NameExact
  <2> QED
    BY <2>1, <2>2 DEF name_ok, ZeroTail
<1>3. ASSUME Text(f, NameLen) = Text(g, NameLen) PROVE f = g
  <2>1. /\ Text(f, NameLen) = [k \in 1..n |-> f[k - 1]]
        /\ Text(g, NameLen) = [k \in 1..m |-> g[k - 1]]
    BY DEF Text
  <2>2. 1..n = 1..m
    BY <1>3, <2>1
  <2>3. n = m
    BY <1>2, <2>2
  <2>4. \A k \in 1..n : f[k - 1] = g[k - 1]
    BY <1>3, <2>1, <2>3
  <2>5. \A k \in 0..(NameLen - 1) : f[k] = g[k]
    <3>1. TAKE k \in 0..(NameLen - 1)
    <3>2. CASE k < n
      <4>1. k + 1 \in 1..n /\ (k + 1) - 1 = k
        BY <1>1, <1>2, <3>2
      <4> QED
        BY <2>4, <4>1
    <3>3. CASE k >= n
      <4>1. k \in n..(NameLen - 1)
        BY <1>1, <1>2, <3>3
      <4> QED
        BY <1>2, <2>3, <4>1
    <3> QED
      BY <1>1, <1>2, <3>2, <3>3
  <2>6. /\ f = [k \in 0..(NameLen - 1) |-> f[k]]
        /\ g = [k \in 0..(NameLen - 1) |-> g[k]]
    BY DEF NameField
  <2> QED
    BY <2>5, <2>6
<1> QED
  BY <1>3

(* A good name has a place in the hash. *)
LEMMA NameHashed ==
    ASSUME NEW f \in NameField, IsName(f)
    PROVE  Text(f, NameLen) \in NameTexts
<1> DEFINE n == TextLen(f, NameLen)
<1>1. name_ok(f) /\ NameLen \in Nat
  BY NameExact, CheckAssumption
<1>2. n \in 0..NameLen
  BY <1>1, TextLenFacts
<1>3. n \in 1..(NameLen - 1) /\ \A k \in 0..(n - 1) : f[k] \in NameChars
  BY <1>1, <1>2 DEF name_ok
<1>4. \A k \in 1..n : f[k - 1] \in NameChars
  BY <1>2, <1>3
<1>5. Text(f, NameLen) \in [1..n -> NameChars]
  BY <1>4 DEF Text
<1> QED
  BY <1>3, <1>5 DEF NameTexts

(* A component ".." is a slash, two dots, and a slash or the end. *)
LEMMA DotDot ==
    ASSUME NEW f \in PathField, NEW n \in 2..(PathLen - 1),
           \A k \in 0..(n - 1) : f[k] # "nul",
           \A k \in n..(PathLen - 1) : f[k] = "nul"
    PROVE  <<".", ".">> \in Components(f, n)
             <=> \E k \in 0..(n - 1) : /\ f[k] = "/" /\ f[k + 1] = "." /\ f[k + 2] = "."
                                       /\ f[k + 3] \in {"/", "nul"}
<1> DEFINE t == Text(f, PathLen)
<1>1. PathLen \in Nat /\ n \in Nat
  BY CheckAssumption
<1>2. TextLen(f, PathLen) = n
  BY <1>1, TextLenIs
<1>3. t = [k \in 1..n |-> f[k - 1]]
  BY <1>2 DEF Text
<1>4. t \in Seq(Chars) /\ Len(t) = n
  <2>1. \A k \in 1..n : f[k - 1] \in Chars
    BY <1>1 DEF PathField
  <2> QED
    BY <1>1, <1>3, <2>1
<1>5. ASSUME NEW a \in 0..(n - 1), NEW z \in 1..n, a < z
      PROVE  SubSeq(t, a + 2, z) = [k \in 1..(z - a - 1) |-> f[k + a]]
  <2>1. SubSeq(t, a + 2, z) = [k \in 1..(z - (a + 2) + 1) |-> t[k + (a + 2) - 1]]
    BY <1>1, <1>4
  <2>2. z - (a + 2) + 1 = z - a - 1
    BY <1>1
  <2>3. \A k \in 1..(z - a - 1) : t[k + (a + 2) - 1] = f[k + a]
    BY <1>1, <1>3
  <2> QED
    BY <2>1, <2>2, <2>3
<1>6. ASSUME <<".", ".">> \in Components(f, n)
      PROVE  \E k \in 0..(n - 1) : /\ f[k] = "/" /\ f[k + 1] = "." /\ f[k + 2] = "."
                                   /\ f[k + 3] \in {"/", "nul"}
  <2>1. PICK r \in Spans(f, n) : <<".", ".">> = SubSeq(t, r[1] + 2, r[2])
    BY <1>6 DEF Components
  <2>2. /\ r[1] \in 0..(n - 1) /\ r[2] \in 1..n /\ r[1] < r[2] /\ f[r[1]] = "/"
        /\ r[2] = n \/ f[r[2]] = "/"
    BY DEF Spans
  <2>3. <<".", ".">> = [k \in 1..(r[2] - r[1] - 1) |-> f[k + r[1]]]
    BY <1>5, <2>1, <2>2
  <2>4. 1..2 = 1..(r[2] - r[1] - 1) /\ f[1 + r[1]] = "." /\ f[2 + r[1]] = "."
    <3>1. DOMAIN <<".", ".">> = 1..2 /\ <<".", ".">>[1] = "." /\ <<".", ".">>[2] = "."
      OBVIOUS
    <3> QED
      BY <2>3, <3>1
  <2>5. r[2] = r[1] + 3
    BY <1>1, <2>2, <2>4
  <2>6. f[r[1] + 3] \in {"/", "nul"}
    BY <1>1, <2>2, <2>5
  <2> QED
    BY <1>1, <2>2, <2>4, <2>6
<1>7. ASSUME NEW k \in 0..(n - 1), f[k] = "/", f[k + 1] = ".", f[k + 2] = ".",
             f[k + 3] \in {"/", "nul"}
      PROVE  <<".", ".">> \in Components(f, n)
  <2>1. k + 1 < n
    BY <1>1, <1>7
  <2>2. k + 2 < n
    BY <1>1, <1>7, <2>1
  <2>3. k + 3 \in 1..n /\ (k + 3 = n \/ f[k + 3] = "/")
    BY <1>1, <1>7, <2>2
  <2>4. \A j \in (k + 1)..(k + 2) : f[j] # "/"
    <3>1. \A j \in (k + 1)..(k + 2) : j = k + 1 \/ j = k + 2
      BY <1>1
    <3> QED
      BY <1>7, <3>1
  <2> DEFINE r == <<k, k + 3>>
  <2>5. r \in Spans(f, n)
    <3>1. r \in (0..(n - 1)) \X (1..n) /\ r[1] = k /\ r[2] = k + 3 /\ (k + 3) - 1 = k + 2
      BY <1>1, <2>3
    <3>2. k < k + 3
      BY <1>1
    <3> QED
      BY <1>7, <2>3, <2>4, <3>1, <3>2 DEF Spans
  <2>6. SubSeq(t, k + 2, k + 3) = <<".", ".">>
    <3>1. PICK z \in 1..n : z = k + 3
      BY <2>3
    <3>2. SubSeq(t, k + 2, z) = [j \in 1..(z - k - 1) |-> f[j + k]] /\ z - k - 1 = 2
      <4>1. k < z /\ z - k - 1 = 2
        BY <1>1, <3>1
      <4> QED
        BY <1>5, <4>1
    <3>3. [j \in 1..2 |-> f[j + k]] = <<f[1 + k], f[2 + k]>>
      OBVIOUS
    <3>4. 1 + k = k + 1 /\ 2 + k = k + 2
      BY <1>1
    <3> QED
      BY <1>7, <3>1, <3>2, <3>3, <3>4
  <2>7. r[1] = k /\ r[2] = k + 3
    OBVIOUS
  <2> QED
    BY <2>5, <2>6, <2>7 DEF Components
<1> QED
  BY <1>6, <1>7

LEMMA PathExact ==
    ASSUME NEW f \in PathField
    PROVE  path_ok(f) <=> IsPath(f)
<1> DEFINE n == TextLen(f, PathLen)
           DD(k) == /\ f[k] = "/" /\ f[k + 1] = "." /\ f[k + 2] = "."
                    /\ f[k + 3] \in {"/", "nul"}
<1>1. PathLen \in Nat
  BY CheckAssumption
<1>2. n \in 0..PathLen /\ \A k \in 0..(n - 1) : f[k] # "nul"
  BY <1>1, TextLenFacts
<1>3. ASSUME path_ok(f) PROVE IsPath(f)
  <2>1. f[0] = "/" /\ n >= 2 /\ n < PathLen /\ \A k \in 0..(n - 1) : f[k] # "ctl" /\ ~DD(k)
    BY <1>3 DEF path_ok
  <2>2. \A k \in n..(PathLen - 1) : f[k] = "nul"
    BY <1>3 DEF path_ok, ZeroTail
  <2>3. n \in 2..(PathLen - 1)
    BY <1>1, <1>2, <2>1
  <2>4. <<".", ".">> \notin Components(f, n)
    BY <1>2, <2>1, <2>2, <2>3, DotDot
  <2> QED
    BY <1>2, <2>1, <2>2, <2>3, <2>4 DEF IsPath
<1>4. ASSUME IsPath(f) PROVE path_ok(f)
  <2>1. PICK m \in 2..(PathLen - 1) :
           /\ f[0] = "/"
           /\ \A k \in 0..(m - 1) : f[k] \notin {"nul", "ctl"}
           /\ \A k \in m..(PathLen - 1) : f[k] = "nul"
           /\ <<".", ".">> \notin Components(f, m)
    BY <1>4 DEF IsPath
  <2>2. m \in 0..(PathLen - 1) /\ f[m] = "nul" /\ \A k \in 0..(m - 1) : f[k] # "nul"
    BY <1>1, <2>1
  <2>3. n = m
    BY <1>1, <2>2, TextLenIs
  <2>4. \A k \in 0..(m - 1) : ~DD(k)
    BY <2>1, <2>2, DotDot
  <2>5. n >= 2 /\ n < PathLen
    BY <1>1, <2>3
  <2> QED
    BY <2>1, <2>3, <2>4, <2>5 DEF path_ok, ZeroTail
<1> QED
  BY <1>3, <1>4

----------------------------------------------------------------------------
(* Rules *)

Codes == {"SIZE", "MAGIC", "UNITS", "BINDS", "EDGES", "CRC", "NAME", "PATH",
          "KIND", "LLBRICK", "BRICKNS", "LAYER", "LAYERPAIR", "RESWEIGHT",
          "RESSCHED", "RESNICE", "OOMRANGE", "MEMORDER", "NICEPOL",
          "CAPNOLAYER", "LOCK", "STOPSIG", "GRACERANGE", "SUPDEATH", "LIDS",
          "BINDIDX", "BINDPATH", "EDGEIDX", "LOCKEDGE", "EDGEDUP",
          "DUPNAME", "LAYERDUP", "lock-value", "stop-signal-value",
          "grace-period", "supervisor-death-policy",
          "capabilities-not-a-number", "cap_last_cap", "past-cap_last_cap",
          "brick-hash-length", "brick-hash-not-hex", "layer-id-length",
          "layer-id-not-a-name", "layer-bytes", "cpu-mask", "mem-high",
          "mem-max", "cpu-weight-range", "nice-range", "sched-policy-value",
          "mem-high/max-order", "nice-without-sched=other",
          "oom-score-adj-range", "landlock-without-brick",
          "brick-without-layer", "layer-without-brick",
          "layer-bytes-without-layer", "brick-without-newns", "nbinds",
          "missing-bind"}

Unbroken(rules) == \A k \in 1..Len(rules) : ~rules[k][2]

(* A table of rules passes exactly when none of its rules is broken. *)
LEMMA FirstExact ==
    ASSUME NEW rules \in Seq(Codes \X BOOLEAN)
    PROVE  /\ First(rules) = "OK" <=> Unbroken(rules)
           /\ First(rules) \in Codes \union {"OK"}
<1>1. Len(rules) \in Nat /\ \A k \in 1..Len(rules) : rules[k] \in Codes \X BOOLEAN
  OBVIOUS
<1>2. \A k \in 1..Len(rules) : rules[k][1] \in Codes
  BY <1>1
<1>3. "OK" \notin Codes
  BY DEF Codes
<1>4. CASE Unbroken(rules)
  BY <1>4, FirstUnbroken DEF Unbroken
<1>5. CASE ~Unbroken(rules)
  <2>1. PICK k \in 1..Len(rules) : rules[k][2]
    BY <1>5 DEF Unbroken
  <2>2. \E m \in 1..Len(rules) : rules[m][2] /\ First(rules) = rules[m][1]
    BY <1>1, <2>1, FirstBroken
  <2> QED
    BY <1>2, <1>3, <1>5, <2>2
<1> QED
  BY <1>4, <1>5

(* The rules of a table made of two are those of both. *)
LEMMA UnbrokenConcat ==
    ASSUME NEW r \in Seq(Codes \X BOOLEAN), NEW s \in Seq(Codes \X BOOLEAN)
    PROVE  /\ r \o s \in Seq(Codes \X BOOLEAN)
           /\ Unbroken(r \o s) <=> Unbroken(r) /\ Unbroken(s)
<1>1. /\ Len(r) \in Nat /\ Len(s) \in Nat /\ Len(r \o s) = Len(r) + Len(s)
      /\ r \o s \in Seq(Codes \X BOOLEAN)
  OBVIOUS
<1>2. \A k \in 1..Len(r) : k \in 1..Len(r \o s) /\ (r \o s)[k] = r[k]
  BY <1>1
<1>3. \A k \in 1..Len(s) : k + Len(r) \in 1..Len(r \o s) /\ (r \o s)[k + Len(r)] = s[k]
  BY <1>1
<1>4. \A k \in 1..Len(r \o s) : \/ k \in 1..Len(r) /\ (r \o s)[k] = r[k]
                                \/ \E j \in 1..Len(s) : (r \o s)[k] = s[j]
  <2>1. TAKE k \in 1..Len(r \o s)
  <2>2. CASE k <= Len(r)
    BY <1>1, <2>2
  <2>3. CASE k > Len(r)
    <3>1. k - Len(r) \in 1..Len(s) /\ (r \o s)[k] = s[k - Len(r)]
      BY <1>1, <2>3
    <3> QED
      BY <3>1
  <2> QED
    BY <1>1, <2>2, <2>3
<1>5. Unbroken(r \o s) => Unbroken(r) /\ Unbroken(s)
  BY <1>2, <1>3 DEF Unbroken
<1>6. Unbroken(r) /\ Unbroken(s) => Unbroken(r \o s)
  BY <1>4 DEF Unbroken
<1> QED
  BY <1>1, <1>5, <1>6

LEMMA HeaderTable ==
    ASSUME NEW b, IsFile(b)
    PROVE  /\ HeaderRules(b) \in Seq(Codes \X BOOLEAN)
           /\ Unbroken(HeaderRules(b)) <=>
                /\ b.len >= HdrSize /\ b.magic /\ b.nu \in 1..MaxUnits
                /\ b.nb <= MaxBinds /\ b.ne <= MaxEdges
                /\ b.len = BlobSize(b.nu, b.nb, b.ne) % U32 /\ b.crc
<1> DEFINE p1 == (b.len < HdrSize)
           p2 == (~b.magic)
           p3 == (b.nu < 1 \/ b.nu > MaxUnits)
           p4 == (b.nb > MaxBinds)
           p5 == (b.ne > MaxEdges)
           p6 == (b.len # BlobSize(b.nu, b.nb, b.ne) % U32)
           p7 == (~b.crc)
           r == HeaderRules(b)
<1>1. p1 \in BOOLEAN /\ p2 \in BOOLEAN /\ p3 \in BOOLEAN /\ p4 \in BOOLEAN
      /\ p5 \in BOOLEAN /\ p6 \in BOOLEAN /\ p7 \in BOOLEAN
  OBVIOUS
<1>2. r = << <<"SIZE", p1>>, <<"MAGIC", p2>>, <<"UNITS", p3>>, <<"BINDS", p4>>,
          <<"EDGES", p5>>, <<"SIZE", p6>>, <<"CRC", p7>> >>
  BY DEF HeaderRules
<1>3. "SIZE" \in Codes /\ "MAGIC" \in Codes /\ "UNITS" \in Codes
      /\ "BINDS" \in Codes /\ "EDGES" \in Codes /\ "CRC" \in Codes
  BY DEF Codes
<1> HIDE DEF p1, p2, p3, p4, p5, p6, p7, r
<1>4. r \in Seq(Codes \X BOOLEAN) /\ Len(r) = 7
  BY <1>1, <1>2, <1>3
<1>5. r[1][2] = p1 /\ r[2][2] = p2 /\ r[3][2] = p3 /\ r[4][2] = p4
      /\ r[5][2] = p5 /\ r[6][2] = p6 /\ r[7][2] = p7
  BY <1>2
<1>6. \A k \in 1..7 : k = 1 \/ k = 2 \/ k = 3 \/ k = 4 \/ k = 5 \/ k = 6 \/ k = 7
  OBVIOUS
<1>7. Unbroken(r) <=>
         ~p1 /\ ~p2 /\ ~p3 /\ ~p4 /\ ~p5 /\ ~p6 /\ ~p7
  BY <1>4, <1>5, <1>6 DEF Unbroken
<1> USE DEF r
<1>8. ~p1 /\ ~p2 /\ ~p3 /\ ~p4 /\ ~p5 /\ ~p6 /\ ~p7 <=>
        /\ b.len >= HdrSize /\ b.magic /\ b.nu \in 1..MaxUnits
        /\ b.nb <= MaxBinds /\ b.ne <= MaxEdges
        /\ b.len = BlobSize(b.nu, b.nb, b.ne) % U32 /\ b.crc
  BY CheckAssumption DEF IsFile, p1, p2, p3, p4, p5, p6, p7
<1> QED
  BY <1>4, <1>7, <1>8

LEMMA ResTable ==
    ASSUME NEW u \in UnitType
    PROVE  /\ ResRules(u) \in Seq(Codes \X BOOLEAN)
           /\ Unbroken(ResRules(u)) <=>
                /\ u.res.cpu_weight <= CpuWeightMax /\ u.res.sched_policy <= SchedMax
                /\ InRange(u.res.nice, NiceMin, NiceMax)
                /\ InRange(u.res.oom_score_adj, OomMin, OomMax)
                /\ \/ u.res.mem_high = 0 \/ u.res.mem_max = 0
                   \/ u.res.mem_high < u.res.mem_max
                /\ u.res.nice = 0 \/ u.res.sched_policy = 1
                /\ u.res.layer_bytes = 0 \/ HasLayer(u)
<1> DEFINE p1 == (u.res.cpu_weight > CpuWeightMax)
           p2 == (u.res.sched_policy > SchedMax)
           p3 == (u.res.nice < NiceMin \/ u.res.nice > NiceMax)
           p4 == (u.res.oom_score_adj < OomMin \/ u.res.oom_score_adj > OomMax)
           p5 == (u.res.mem_high # 0 /\ u.res.mem_max # 0 /\ u.res.mem_high >= u.res.mem_max)
           p6 == (u.res.nice # 0 /\ u.res.sched_policy # 1)
           p7 == (u.res.layer_bytes # 0 /\ ~HasLayer(u))
           r == ResRules(u)
<1>1. p1 \in BOOLEAN /\ p2 \in BOOLEAN /\ p3 \in BOOLEAN /\ p4 \in BOOLEAN
      /\ p5 \in BOOLEAN /\ p6 \in BOOLEAN /\ p7 \in BOOLEAN
  OBVIOUS
<1>2. r = << <<"RESWEIGHT", p1>>, <<"RESSCHED", p2>>, <<"RESNICE", p3>>,
          <<"OOMRANGE", p4>>, <<"MEMORDER", p5>>, <<"NICEPOL", p6>>,
          <<"CAPNOLAYER", p7>> >>
  BY DEF ResRules
<1>3. "RESWEIGHT" \in Codes /\ "RESSCHED" \in Codes /\ "RESNICE" \in Codes
      /\ "OOMRANGE" \in Codes /\ "MEMORDER" \in Codes /\ "NICEPOL" \in Codes
      /\ "CAPNOLAYER" \in Codes
  BY DEF Codes
<1> HIDE DEF p1, p2, p3, p4, p5, p6, p7, r
<1>4. r \in Seq(Codes \X BOOLEAN) /\ Len(r) = 7
  BY <1>1, <1>2, <1>3
<1>5. r[1][2] = p1 /\ r[2][2] = p2 /\ r[3][2] = p3 /\ r[4][2] = p4
      /\ r[5][2] = p5 /\ r[6][2] = p6 /\ r[7][2] = p7
  BY <1>2
<1>6. \A k \in 1..7 : k = 1 \/ k = 2 \/ k = 3 \/ k = 4 \/ k = 5 \/ k = 6 \/ k = 7
  OBVIOUS
<1>7. Unbroken(r) <=>
         ~p1 /\ ~p2 /\ ~p3 /\ ~p4 /\ ~p5 /\ ~p6 /\ ~p7
  BY <1>4, <1>5, <1>6 DEF Unbroken
<1> USE DEF r
<1>8. /\ u.res.cpu_weight \in Int /\ u.res.sched_policy \in Int /\ u.res.nice \in Int
      /\ u.res.oom_score_adj \in Int /\ u.res.mem_high \in Int /\ u.res.mem_max \in Int
      /\ u.res.layer_bytes \in Int
  <2>1. u.res \in ResType
    BY DEF UnitType
  <2> QED
    BY <2>1 DEF ResType
<1>9. ~p1 /\ ~p2 /\ ~p3 /\ ~p4 /\ ~p5 /\ ~p6 /\ ~p7 <=>
                /\ u.res.cpu_weight <= CpuWeightMax /\ u.res.sched_policy <= SchedMax
                /\ InRange(u.res.nice, NiceMin, NiceMax)
                /\ InRange(u.res.oom_score_adj, OomMin, OomMax)
                /\ \/ u.res.mem_high = 0 \/ u.res.mem_max = 0
                   \/ u.res.mem_high < u.res.mem_max
                /\ u.res.nice = 0 \/ u.res.sched_policy = 1
                /\ u.res.layer_bytes = 0 \/ HasLayer(u)
  BY <1>8, CheckAssumption DEF InRange, p1, p2, p3, p4, p5, p6, p7
<1> QED
  BY <1>4, <1>7, <1>9

(* The unit's own rules: those before the resource block and those after it. *)
RulesBefore(u) ==
  << <<"NAME", ~name_ok(u.name)>>,
     <<"PATH", ~path_ok(u.exec_path)>>,
     <<"KIND", u.kind \notin {0, 1}>>,
     <<"LLBRICK", Landlock(u.lids) /\ ~HasBrick(u)>>,
     <<"BRICKNS", HasBrick(u) /\ ~NewNs(u.lids)>>,
     <<"LAYER", IF HasLayer(u) THEN ~name_ok(u.layer) ELSE ~ZeroTail(u.layer, 0, NameLen)>>,
     <<"LAYERPAIR", HasLayer(u) # HasBrick(u)>> >>

RulesAfter(u) ==
  << <<"LOCK", u.lock > 1>>,
     <<"STOPSIG", u.stop_signal > StopsigMax>>,
     <<"GRACERANGE", u.grace_period > GraceMax>>,
     <<"SUPDEATH", u.supervisor_death_policy # 0>>,
     <<"LIDS", u.lids >= 16>> >>

LEMMA BeforeTable ==
    ASSUME NEW u \in UnitType
    PROVE  /\ RulesBefore(u) \in Seq(Codes \X BOOLEAN)
           /\ Unbroken(RulesBefore(u)) <=>
                /\ name_ok(u.name) /\ path_ok(u.exec_path) /\ u.kind \in {0, 1}
                /\ ~(Landlock(u.lids) /\ ~HasBrick(u)) /\ ~(HasBrick(u) /\ ~NewNs(u.lids))
                /\ IF HasLayer(u) THEN name_ok(u.layer) ELSE ZeroTail(u.layer, 0, NameLen)
                /\ HasLayer(u) <=> HasBrick(u)
<1> DEFINE p1 == (~name_ok(u.name))
           p2 == (~path_ok(u.exec_path))
           p3 == (u.kind \notin {0, 1})
           p4 == (Landlock(u.lids) /\ ~HasBrick(u))
           p5 == (HasBrick(u) /\ ~NewNs(u.lids))
           p6 == (IF HasLayer(u) THEN ~name_ok(u.layer) ELSE ~ZeroTail(u.layer, 0, NameLen))
           p7 == (HasLayer(u) # HasBrick(u))
           r == RulesBefore(u)
<1>1. p1 \in BOOLEAN /\ p2 \in BOOLEAN /\ p3 \in BOOLEAN /\ p4 \in BOOLEAN
      /\ p5 \in BOOLEAN /\ p6 \in BOOLEAN /\ p7 \in BOOLEAN
  OBVIOUS
<1>2. r = << <<"NAME", p1>>, <<"PATH", p2>>, <<"KIND", p3>>, <<"LLBRICK", p4>>,
          <<"BRICKNS", p5>>, <<"LAYER", p6>>, <<"LAYERPAIR", p7>> >>
  BY DEF RulesBefore
<1>3. "NAME" \in Codes /\ "PATH" \in Codes /\ "KIND" \in Codes
      /\ "LLBRICK" \in Codes /\ "BRICKNS" \in Codes /\ "LAYER" \in Codes
      /\ "LAYERPAIR" \in Codes
  BY DEF Codes
<1> HIDE DEF p1, p2, p3, p4, p5, p6, p7, r
<1>4. r \in Seq(Codes \X BOOLEAN) /\ Len(r) = 7
  BY <1>1, <1>2, <1>3
<1>5. r[1][2] = p1 /\ r[2][2] = p2 /\ r[3][2] = p3 /\ r[4][2] = p4
      /\ r[5][2] = p5 /\ r[6][2] = p6 /\ r[7][2] = p7
  BY <1>2
<1>6. \A k \in 1..7 : k = 1 \/ k = 2 \/ k = 3 \/ k = 4 \/ k = 5 \/ k = 6 \/ k = 7
  OBVIOUS
<1>7. Unbroken(r) <=>
         ~p1 /\ ~p2 /\ ~p3 /\ ~p4 /\ ~p5 /\ ~p6 /\ ~p7
  BY <1>4, <1>5, <1>6 DEF Unbroken
<1> USE DEF r
<1>8. ~p1 /\ ~p2 /\ ~p3 /\ ~p4 /\ ~p5 /\ ~p6 <=>
                /\ name_ok(u.name) /\ path_ok(u.exec_path) /\ u.kind \in {0, 1}
                /\ ~(Landlock(u.lids) /\ ~HasBrick(u)) /\ ~(HasBrick(u) /\ ~NewNs(u.lids))
                /\ IF HasLayer(u) THEN name_ok(u.layer) ELSE ZeroTail(u.layer, 0, NameLen)
  BY DEF p1, p2, p3, p4, p5, p6
<1>9. ~p7 <=> (HasLayer(u) <=> HasBrick(u))
  BY DEF p7, HasLayer, HasBrick
<1> QED
  BY <1>4, <1>7, <1>8, <1>9

LEMMA AfterTable ==
    ASSUME NEW u \in UnitType
    PROVE  /\ RulesAfter(u) \in Seq(Codes \X BOOLEAN)
           /\ Unbroken(RulesAfter(u)) <=>
                /\ u.lock <= 1 /\ u.stop_signal <= StopsigMax /\ u.grace_period <= GraceMax
                /\ u.supervisor_death_policy = 0 /\ u.lids < 16
<1> DEFINE p1 == (u.lock > 1)
           p2 == (u.stop_signal > StopsigMax)
           p3 == (u.grace_period > GraceMax)
           p4 == (u.supervisor_death_policy # 0)
           p5 == (u.lids >= 16)
           r == RulesAfter(u)
<1>1. p1 \in BOOLEAN /\ p2 \in BOOLEAN /\ p3 \in BOOLEAN /\ p4 \in BOOLEAN
      /\ p5 \in BOOLEAN
  OBVIOUS
<1>2. r = << <<"LOCK", p1>>, <<"STOPSIG", p2>>, <<"GRACERANGE", p3>>,
          <<"SUPDEATH", p4>>, <<"LIDS", p5>> >>
  BY DEF RulesAfter
<1>3. "LOCK" \in Codes /\ "STOPSIG" \in Codes /\ "GRACERANGE" \in Codes
      /\ "SUPDEATH" \in Codes /\ "LIDS" \in Codes
  BY DEF Codes
<1> HIDE DEF p1, p2, p3, p4, p5, r
<1>4. r \in Seq(Codes \X BOOLEAN) /\ Len(r) = 5
  BY <1>1, <1>2, <1>3
<1>5. r[1][2] = p1 /\ r[2][2] = p2 /\ r[3][2] = p3 /\ r[4][2] = p4
      /\ r[5][2] = p5
  BY <1>2
<1>6. \A k \in 1..5 : k = 1 \/ k = 2 \/ k = 3 \/ k = 4 \/ k = 5
  OBVIOUS
<1>7. Unbroken(r) <=>
         ~p1 /\ ~p2 /\ ~p3 /\ ~p4 /\ ~p5
  BY <1>4, <1>5, <1>6 DEF Unbroken
<1> USE DEF r
<1>8. /\ u.lock \in Int /\ u.stop_signal \in Int /\ u.grace_period \in Int
      /\ u.supervisor_death_policy \in Int /\ u.lids \in Int
  BY DEF UnitType
<1>9. ~p1 /\ ~p2 /\ ~p3 /\ ~p4 /\ ~p5 <=>
                /\ u.lock <= 1 /\ u.stop_signal <= StopsigMax /\ u.grace_period <= GraceMax
                /\ u.supervisor_death_policy = 0 /\ u.lids < 16
  BY <1>8, CheckAssumption DEF p1, p2, p3, p4, p5
<1> QED
  BY <1>4, <1>7, <1>9


(* The layer is all NUL or a good name, and which of them is told by its   *)
(* first byte.                                                             *)
LEMMA LayerFacts ==
    ASSUME NEW u \in UnitType
    PROVE  /\ HasBrick(u) <=> ~NoBrick(u)
           /\ IsName(u.layer) => HasLayer(u)
           /\ ~HasLayer(u) /\ ZeroTail(u.layer, 0, NameLen) <=> NoLayer(u)
<1>1. /\ u.layer \in NameField /\ u.brick \in [0..(HashLen - 1) -> 0..255]
      /\ NameLen \in Nat /\ NameLen > 0
  <2>1. u.layer \in NameField /\ u.brick \in [0..(HashLen - 1) -> 0..255]
    BY DEF UnitType
  <2>2. NameLen \in Nat \ {0}
    BY CheckAssumption
  <2> QED
    BY <2>1, <2>2
<1>2. HasBrick(u) <=> ~NoBrick(u)
  <2>1. u.brick = [k \in DOMAIN u.brick |-> u.brick[k]]
    BY <1>1
  <2>2. ~HasBrick(u) => NoBrick(u)
    BY <2>1 DEF HasBrick, NoBrick
  <2>3. NoBrick(u) => ~HasBrick(u)
    BY DEF HasBrick, NoBrick
  <2> QED
    BY <2>2, <2>3
<1>3. IsName(u.layer) => HasLayer(u)
  <2>1. SUFFICES ASSUME IsName(u.layer) PROVE HasLayer(u)
    OBVIOUS
  <2>2. PICK n \in 1..(NameLen - 1) : \A k \in 0..(n - 1) : u.layer[k] \in NameChars
    BY <2>1 DEF IsName
  <2>3. 0 \in 0..(n - 1)
    BY <1>1
  <2> QED
    BY <2>2, <2>3 DEF HasLayer, NameChars
<1>4. ~HasLayer(u) /\ ZeroTail(u.layer, 0, NameLen) => NoLayer(u)
  <2>1. u.layer = [k \in 0..(NameLen - 1) |-> u.layer[k]]
    BY <1>1 DEF NameField
  <2> QED
    BY <2>1 DEF ZeroTail, NoLayer
<1>5. NoLayer(u) => ~HasLayer(u) /\ ZeroTail(u.layer, 0, NameLen)
  <2>1. 0 \in 0..(NameLen - 1)
    BY <1>1
  <2> QED
    BY <2>1 DEF ZeroTail, NoLayer, HasLayer
<1> QED
  BY <1>2, <1>3, <1>4, <1>5

(* The unit's rules are the definition of a valid unit. *)
LEMMA UnitExact ==
    ASSUME NEW u \in UnitType
    PROVE  /\ First(UnitRules(u)) \in Codes \union {"OK"}
           /\ First(UnitRules(u)) = "OK" <=> ValidUnit(u)
<1>1. UnitRules(u) = RulesBefore(u) \o ResRules(u) \o RulesAfter(u)
  BY DEF UnitRules, RulesBefore, RulesAfter
<1>2. /\ RulesBefore(u) \in Seq(Codes \X BOOLEAN)
      /\ ResRules(u) \in Seq(Codes \X BOOLEAN)
      /\ RulesAfter(u) \in Seq(Codes \X BOOLEAN)
  BY BeforeTable, ResTable, AfterTable
<1>3. /\ UnitRules(u) \in Seq(Codes \X BOOLEAN)
      /\ Unbroken(UnitRules(u)) <=>
           Unbroken(RulesBefore(u)) /\ Unbroken(ResRules(u)) /\ Unbroken(RulesAfter(u))
  <2>1. /\ RulesBefore(u) \o ResRules(u) \in Seq(Codes \X BOOLEAN)
        /\ Unbroken(RulesBefore(u) \o ResRules(u)) <=>
             Unbroken(RulesBefore(u)) /\ Unbroken(ResRules(u))
    BY <1>2, UnbrokenConcat
  <2> DEFINE front == RulesBefore(u) \o ResRules(u)
             back == RulesAfter(u)
  <2>2. front \in Seq(Codes \X BOOLEAN) /\ back \in Seq(Codes \X BOOLEAN)
    BY <1>2, <2>1
  <2> HIDE DEF front, back
  <2>3. /\ front \o back \in Seq(Codes \X BOOLEAN)
        /\ Unbroken(front \o back) <=> Unbroken(front) /\ Unbroken(back)
    BY <2>2, UnbrokenConcat
  <2> QED
    BY <1>1, <2>1, <2>3 DEF front, back
<1>4. /\ u.name \in NameField /\ u.layer \in NameField /\ u.exec_path \in PathField
      /\ u.kind \in Int /\ u.lock \in Nat /\ u.lids \in Nat /\ u.stop_signal \in Nat
  BY DEF UnitType
<1>5. /\ name_ok(u.name) <=> IsName(u.name)
      /\ name_ok(u.layer) <=> IsName(u.layer)
      /\ path_ok(u.exec_path) <=> IsPath(u.exec_path)
  BY <1>4, NameExact, PathExact
<1>6. Unbroken(RulesBefore(u)) /\ (u.res.layer_bytes = 0 \/ HasLayer(u)) <=>
        /\ IsName(u.name) /\ IsPath(u.exec_path) /\ u.kind \in {0, 1}
        /\ \/ NoBrick(u) /\ NoLayer(u) /\ ~Landlock(u.lids) /\ u.res.layer_bytes = 0
           \/ ~NoBrick(u) /\ IsName(u.layer) /\ NewNs(u.lids)
  BY <1>5, LayerFacts, BeforeTable
<1>7. Unbroken(RulesAfter(u)) /\ u.kind \in {0, 1} <=>
        /\ u.kind \in 0..1 /\ u.lock \in 0..1 /\ u.lids \in 0..15
        /\ u.stop_signal \in 0..StopsigMax /\ u.supervisor_death_policy = 0
        /\ u.grace_period <= GraceMax
  <2>1. Unbroken(RulesAfter(u)) <=>
          /\ u.lock <= 1 /\ u.stop_signal <= StopsigMax /\ u.grace_period <= GraceMax
          /\ u.supervisor_death_policy = 0 /\ u.lids < 16
    BY AfterTable
  <2>2. /\ u.lock <= 1 <=> u.lock \in 0..1
        /\ u.lids < 16 <=> u.lids \in 0..15
        /\ u.stop_signal <= StopsigMax <=> u.stop_signal \in 0..StopsigMax
        /\ u.kind \in {0, 1} <=> u.kind \in 0..1
    BY <1>4, CheckAssumption
  <2> QED
    BY <2>1, <2>2
<1>8. Unbroken(ResRules(u)) <=>
        /\ u.res.layer_bytes = 0 \/ HasLayer(u)
        /\ u.res.cpu_weight <= CpuWeightMax
        /\ InRange(u.res.oom_score_adj, OomMin, OomMax)
        /\ 0 \in {u.res.mem_high, u.res.mem_max} \/ u.res.mem_high < u.res.mem_max
        /\ InRange(u.res.nice, NiceMin, NiceMax) /\ u.res.sched_policy <= SchedMax
        /\ u.res.nice = 0 \/ u.res.sched_policy = 1
  BY ResTable
<1>9. /\ InRange(u.res.nice, NiceMin, NiceMax) /\ u.res.sched_policy <= SchedMax
      /\ u.res.nice = 0 \/ u.res.sched_policy = 1
      <=> \/ u.res.nice = 0 /\ u.res.sched_policy <= SchedMax
          \/ InRange(u.res.nice, NiceMin, NiceMax) /\ u.res.sched_policy = 1
  BY CheckAssumption DEF InRange
<1>10. Unbroken(UnitRules(u)) <=> ValidUnit(u)
  BY <1>3, <1>6, <1>7, <1>8, <1>9 DEF ValidUnit
<1> QED
  BY <1>3, <1>10, FirstExact

LEMMA BindExact ==
    ASSUME NEW b, IsFile(b), b.len = BlobSize(b.nu, b.nb, b.ne), NEW k \in 0..(b.nb - 1)
    PROVE  /\ First(BindRules(b, k)) \in Codes \union {"OK"}
           /\ First(BindRules(b, k)) = "OK" <=>
                /\ b.binds[k].unit \in 0..(b.nu - 1)
                /\ ~NoBrick(b.units[b.binds[k].unit])
                /\ IsPath(b.binds[k].path)
<1> DEFINE p1 == (b.binds[k].unit >= b.nu)
           p2 == (~path_ok(b.binds[k].path))
           p3 == (b.binds[k].unit < b.nu /\ ~HasBrick(b.units[b.binds[k].unit]))
           r == BindRules(b, k)
<1>1. p1 \in BOOLEAN /\ p2 \in BOOLEAN /\ p3 \in BOOLEAN
  OBVIOUS
<1>2. r = << <<"BINDIDX", p1>>, <<"BINDPATH", p2>>, <<"BINDIDX", p3>> >>
  BY DEF BindRules
<1>3. "BINDIDX" \in Codes /\ "BINDPATH" \in Codes
  BY DEF Codes
<1> HIDE DEF p1, p2, p3, r
<1>4. r \in Seq(Codes \X BOOLEAN) /\ Len(r) = 3
  BY <1>1, <1>2, <1>3
<1>5. r[1][2] = p1 /\ r[2][2] = p2 /\ r[3][2] = p3
  BY <1>2
<1>6. \A x \in 1..3 : x = 1 \/ x = 2 \/ x = 3
  OBVIOUS
<1>7. Unbroken(r) <=>
         ~p1 /\ ~p2 /\ ~p3
  BY <1>4, <1>5, <1>6 DEF Unbroken
<1> USE DEF r
<1>8. b.binds[k] \in BindType /\ b.nu \in Nat
  BY DEF IsFile
<1>9. b.binds[k].unit \in Nat /\ b.binds[k].path \in PathField
  BY <1>8 DEF BindType
<1>10. b.binds[k].unit \in 0..(b.nu - 1) <=> b.binds[k].unit < b.nu
  BY <1>8, <1>9
<1>11. b.binds[k].unit \in 0..(b.nu - 1) => b.units[b.binds[k].unit] \in UnitType
  BY DEF IsFile
<1>12. b.binds[k].unit \in 0..(b.nu - 1) =>
         (HasBrick(b.units[b.binds[k].unit]) <=> ~NoBrick(b.units[b.binds[k].unit]))
  BY <1>11, LayerFacts
<1>13. path_ok(b.binds[k].path) <=> IsPath(b.binds[k].path)
  BY <1>9, PathExact
<1>14. ~p1 /\ ~p2 /\ ~p3 <=>
         /\ b.binds[k].unit \in 0..(b.nu - 1)
         /\ ~NoBrick(b.units[b.binds[k].unit])
         /\ IsPath(b.binds[k].path)
  BY <1>8, <1>9, <1>10, <1>12, <1>13 DEF p1, p2, p3
<1> QED
  BY <1>4, <1>7, <1>14, FirstExact

LEMMA EdgeExact ==
    ASSUME NEW b, IsFile(b), b.len = BlobSize(b.nu, b.nb, b.ne), NEW k \in 0..(b.ne - 1),
           \A u \in 0..(b.nu - 1) : ValidUnit(b.units[u])
    PROVE  /\ First(EdgeRules(b, k)) \in Codes \union {"OK"}
           /\ First(EdgeRules(b, k)) = "OK" <=>
                /\ {b.edges[k].a, b.edges[k].b} \subseteq 0..(b.nu - 1)
                /\ b.edges[k].a # b.edges[k].b
                /\ \A u \in {b.edges[k].a, b.edges[k].b} : b.units[u].lock = 0
                /\ \A j \in 0..(k - 1) :
                     {b.edges[k].a, b.edges[k].b} # {b.edges[j].a, b.edges[j].b}
<1> DEFINE p1 == (~(b.edges[k].a < b.nu /\ b.edges[k].b < b.nu) \/ b.edges[k].a = b.edges[k].b)
           p2 == ((b.edges[k].a < b.nu /\ b.edges[k].b < b.nu) /\ (b.units[b.edges[k].a].lock = 1 \/ b.units[b.edges[k].b].lock = 1))
           p3 == (\E j \in 0..(k - 1) : SamePair(b.edges[k], b.edges[j]))
           r == EdgeRules(b, k)
<1>1. p1 \in BOOLEAN /\ p2 \in BOOLEAN /\ p3 \in BOOLEAN
  OBVIOUS
<1>2. r = << <<"EDGEIDX", p1>>, <<"LOCKEDGE", p2>>, <<"EDGEDUP", p3>> >>
  BY DEF EdgeRules
<1>3. "EDGEIDX" \in Codes /\ "LOCKEDGE" \in Codes /\ "EDGEDUP" \in Codes
  BY DEF Codes
<1> HIDE DEF p1, p2, p3, r
<1>4. r \in Seq(Codes \X BOOLEAN) /\ Len(r) = 3
  BY <1>1, <1>2, <1>3
<1>5. r[1][2] = p1 /\ r[2][2] = p2 /\ r[3][2] = p3
  BY <1>2
<1>6. \A x \in 1..3 : x = 1 \/ x = 2 \/ x = 3
  OBVIOUS
<1>7. Unbroken(r) <=>
         ~p1 /\ ~p2 /\ ~p3
  BY <1>4, <1>5, <1>6 DEF Unbroken
<1> USE DEF r
<1>8. b.edges[k] \in EdgeType /\ b.nu \in Nat
  BY DEF IsFile
<1>9. b.edges[k].a \in Nat /\ b.edges[k].b \in Nat
  BY <1>8 DEF EdgeType
<1>10. (b.edges[k].a < b.nu /\ b.edges[k].b < b.nu) <=> {b.edges[k].a, b.edges[k].b} \subseteq 0..(b.nu - 1)
  BY <1>8, <1>9
<1>11. \A u \in 0..(b.nu - 1) : b.units[u].lock = 0 \/ b.units[u].lock = 1
  BY DEF ValidUnit
<1>12. \A j : SamePair(b.edges[k], b.edges[j]) <=>
          {b.edges[k].a, b.edges[k].b} = {b.edges[j].a, b.edges[j].b}
  BY DEF SamePair
<1>13. ~p1 <=> /\ {b.edges[k].a, b.edges[k].b} \subseteq 0..(b.nu - 1)
               /\ b.edges[k].a # b.edges[k].b
  BY <1>10 DEF p1
<1>14. ~p1 => (~p2 <=> \A u \in {b.edges[k].a, b.edges[k].b} : b.units[u].lock = 0)
  BY <1>10, <1>11, <1>13 DEF p2
<1>15. ~p3 <=> \A j \in 0..(k - 1) :
          {b.edges[k].a, b.edges[k].b} # {b.edges[j].a, b.edges[j].b}
  BY <1>12 DEF p3
<1> QED
  BY <1>4, <1>7, <1>13, <1>14, <1>15, FirstExact


----------------------------------------------------------------------------
(* The duplicate table *)

LEMMA ProbeInTable ==
    ASSUME NEW s \in 0..(Slots - 1), NEW p \in 0..(Slots - 1)
    PROVE  ProbeAt(s, p) \in 0..(Slots - 1)
  BY CheckAssumption DEF ProbeAt

(* A probe reaches every slot, and no slot twice. *)
LEMMA ProbeReaches ==
    ASSUME NEW s \in 0..(Slots - 1), NEW t \in 0..(Slots - 1)
    PROVE  \E p \in 0..(Slots - 1) : ProbeAt(s, p) = t
<1>1. Slots \in Nat
  BY CheckAssumption
<1>2. CASE t >= s
  <2>1. t - s \in 0..(Slots - 1) /\ ProbeAt(s, t - s) = t
    BY <1>1, <1>2 DEF ProbeAt
  <2> QED
    BY <2>1
<1>3. CASE t < s
  <2>1. t - s + Slots \in 0..(Slots - 1) /\ ProbeAt(s, t - s + Slots) = t
    BY <1>1, <1>3 DEF ProbeAt
  <2> QED
    BY <2>1
<1> QED
  BY <1>1, <1>2, <1>3

LEMMA ProbeOnce ==
    ASSUME NEW s \in 0..(Slots - 1), NEW p \in 0..(Slots - 1),
           NEW q \in 0..(Slots - 1), ProbeAt(s, p) = ProbeAt(s, q)
    PROVE  p = q
  BY CheckAssumption DEF ProbeAt

(* Fewer units than slots leave a slot empty: the pigeonhole principle. *)
LEMMA SlotLeft ==
    ASSUME NEW tab, DOMAIN tab = 0..(Slots - 1), NEW m \in Nat, m < Slots,
           Cardinality(Used(tab)) <= m
    PROVE  \E t \in 0..(Slots - 1) : tab[t] = Empty
<1>1. SUFFICES ASSUME \A t \in 0..(Slots - 1) : tab[t] # Empty PROVE FALSE
  OBVIOUS
<1>2. Used(tab) = 0..(Slots - 1)
  BY <1>1 DEF Used
<1>3. Slots \in Nat
  BY CheckAssumption
<1>4. 0 \in Int /\ Slots - 1 \in Int
  BY <1>3
<1>5. Cardinality(0..(Slots - 1)) = IF 0 > Slots - 1 THEN 0 ELSE (Slots - 1) - 0 + 1
  BY <1>4, FS_Interval
<1> QED
  BY <1>2, <1>3, <1>5

LEMMA UsedFinite ==
    ASSUME NEW tab, DOMAIN tab = 0..(Slots - 1)
    PROVE  IsFiniteSet(Used(tab)) /\ Cardinality(Used(tab)) \in Nat
<1>0. Slots \in Nat
  BY CheckAssumption
<1>1. 0 \in Int /\ Slots - 1 \in Int
  BY <1>0
<1>2. IsFiniteSet(0..(Slots - 1))
  BY <1>1, FS_Interval
<1>3. Used(tab) \subseteq 0..(Slots - 1)
  BY DEF Used
<1>4. IsFiniteSet(Used(tab))
  BY <1>2, <1>3, FS_Subset
<1> QED
  BY <1>4, FS_CardinalityType

(* field_dup() finds a unit exactly when one with the same text is in the  *)
(* table, and else leaves the table with this unit in it as well.          *)
LEMMA FieldDup ==
    ASSUME NEW tab, NEW key, NEW S \in SUBSET Nat, NEW u \in Nat, u < Slots,
           u \notin S, TableInv(tab, key, S, u),
           \A j \in S \union {u} : hash[key[j]] \in 0..(Slots - 1)
    PROVE  LET r == field_dup(tab, key, hash, u)
           IN  /\ r.found \in BOOLEAN
               /\ r.found <=> \E j \in S : key[j] = key[u]
               /\ ~r.found => TableInv(r.tab, key, S \union {u}, u + 1)
<1> DEFINE s == hash[key[u]]
           at(p) == ProbeAt(s, p)
           stops == {p \in 0..(Slots - 1) : tab[at(p)] = Empty \/ key[tab[at(p)]] = key[u]}
           first == CHOOSE p \in stops : \A q \in stops : p <= q
           r == field_dup(tab, key, hash, u)
<1>0. Slots \in Nat /\ s \in 0..(Slots - 1)
  BY CheckAssumption
<1>1. /\ tab \in [0..(Slots - 1) -> S \union {Empty}]
      /\ s \in 0..(Slots - 1)
      /\ Empty \notin S /\ Empty \notin Nat
  <2>1. tab \in [0..(Slots - 1) -> S \union {Empty}]
    BY DEF TableInv
  <2>2. Empty \notin Nat
    BY DEF Empty
  <2> QED
    BY <1>0, <2>1, <2>2
<1>2. stops # {}
  <2>1. PICK t \in 0..(Slots - 1) : tab[t] = Empty
    BY <1>1, SlotLeft DEF TableInv
  <2>2. PICK p \in 0..(Slots - 1) : at(p) = t
    BY <1>1, ProbeReaches
  <2> QED
    BY <2>1, <2>2
<1>3. stops \in SUBSET Nat
  OBVIOUS
<1>4. first \in stops /\ \A q \in stops : first <= q
  BY <1>2, <1>3, LeastChosen, Zenon
<1>5. /\ first \in 0..(Slots - 1) /\ at(first) \in 0..(Slots - 1)
      /\ tab[at(first)] = Empty \/ key[tab[at(first)]] = key[u]
  BY <1>1, <1>4, ProbeInTable, Zenon
<1>6. r = IF tab[at(first)] = Empty
          THEN [found |-> FALSE, tab |-> [tab EXCEPT ![at(first)] = u]]
          ELSE [found |-> TRUE, tab |-> tab]
  BY <1>2 DEF field_dup
<1>7. \A q \in 0..(first - 1) : tab[at(q)] # Empty /\ key[tab[at(q)]] # key[u]
  <2>1. \A q \in 0..(Slots - 1) :
           q \notin stops => tab[at(q)] # Empty /\ key[tab[at(q)]] # key[u]
    OBVIOUS
  <2> HIDE DEF stops, first, at
  <2>2. \A q \in 0..(first - 1) : q \in 0..(Slots - 1) /\ ~(first <= q)
    BY <1>0, <1>5
  <2> QED
    BY <1>4, <2>1, <2>2
<1> HIDE DEF stops, first, r
<1>8. ASSUME NEW j \in S, key[j] = key[u] PROVE tab[at(first)] # Empty
  <2>1. PICK p \in 0..(Slots - 1) :
           /\ tab[at(p)] = j
           /\ \A q \in 0..(p - 1) : tab[at(q)] # Empty
    BY <1>8 DEF TableInv
  <2>2. first <= p
    BY <1>5, <1>7, <1>8, <2>1
  <2>3. CASE first = p
    BY <1>1, <2>1, <2>3
  <2>4. CASE first < p
    BY <1>5, <2>1, <2>4
  <2> QED
    BY <1>5, <2>2, <2>3, <2>4
<1>9. ASSUME tab[at(first)] # Empty PROVE \E j \in S : key[j] = key[u]
  BY <1>1, <1>5, <1>9
<1>10. r.found \in BOOLEAN /\ (r.found <=> tab[at(first)] # Empty)
  BY <1>6
<1>11. ASSUME tab[at(first)] = Empty PROVE TableInv(r.tab, key, S \union {u}, u + 1)
  <2> DEFINE new == [tab EXCEPT ![at(first)] = u]
  <2>1. r.tab = new
    BY <1>6, <1>11
  <2>2. new \in [0..(Slots - 1) -> (S \union {u}) \union {Empty}]
    BY <1>1, <1>5
  <2>3. Cardinality(Used(new)) <= u + 1
    <3>1. u # Empty
      BY <1>1
    <3>2. Used(new) = Used(tab) \union {at(first)} /\ at(first) \notin Used(tab)
      BY <1>1, <1>5, <1>11, <3>1 DEF Used
    <3>3. IsFiniteSet(Used(tab)) /\ Cardinality(Used(tab)) \in Nat
      BY <1>1, UsedFinite
    <3>4. Cardinality(Used(new)) = Cardinality(Used(tab)) + 1
      BY <3>2, <3>3, FS_AddElement
    <3>5. Cardinality(Used(tab)) <= u
      BY DEF TableInv
    <3> QED
      BY <3>3, <3>4, <3>5
  <2>4. ASSUME NEW j \in S \union {u}
        PROVE  \E p \in 0..(Slots - 1) :
                 /\ new[ProbeAt(hash[key[j]], p)] = j
                 /\ \A q \in 0..(p - 1) : new[ProbeAt(hash[key[j]], q)] # Empty
    <3>1. hash[key[j]] \in 0..(Slots - 1)
      OBVIOUS
    <3>2. CASE j = u
      <4>1. new[at(first)] = u
        BY <1>1, <1>5
      <4>2. \A q \in 0..(first - 1) : new[at(q)] # Empty
        <5>1. TAKE q \in 0..(first - 1)
        <5>2. q \in 0..(Slots - 1)
          BY <1>0, <1>5
        <5>3. at(q) \in 0..(Slots - 1)
          BY <1>0, <5>2, ProbeInTable
        <5> QED
          BY <1>1, <1>7, <5>3
      <4> QED
        BY <1>5, <3>2, <4>1, <4>2
    <3>3. CASE j \in S
      <4>1. PICK p \in 0..(Slots - 1) :
               /\ tab[ProbeAt(hash[key[j]], p)] = j
               /\ \A q \in 0..(p - 1) : tab[ProbeAt(hash[key[j]], q)] # Empty
        BY <3>3 DEF TableInv
      <4>2. ProbeAt(hash[key[j]], p) \in 0..(Slots - 1)
        BY <3>1, ProbeInTable
      <4>3. new[ProbeAt(hash[key[j]], p)] = j
        BY <1>1, <1>11, <3>3, <4>1, <4>2
      <4>4. \A q \in 0..(p - 1) : new[ProbeAt(hash[key[j]], q)] # Empty
        <5>1. TAKE q \in 0..(p - 1)
        <5>2. q \in 0..(Slots - 1)
          BY <1>0
        <5>3. ProbeAt(hash[key[j]], q) \in 0..(Slots - 1)
          BY <3>1, <5>2, ProbeInTable
        <5> QED
          BY <1>1, <4>1, <5>3
      <4> QED
        BY <4>3, <4>4
    <3> QED
      BY <3>2, <3>3
  <2> HIDE DEF new
  <2> QED
    BY <2>1, <2>2, <2>3, <2>4 DEF TableInv
<1> QED
  BY <1>8, <1>9, <1>10, <1>11 DEF r

----------------------------------------------------------------------------
(* What a whole plan has passed *)

LEMMA Times ==
    ASSUME NEW a \in Nat, NEW b \in Nat, NEW c \in Nat, a <= b
    PROVE  a * c \in Nat /\ b * c \in Nat /\ a * c <= b * c
<1>1. b * c - a * c = (b - a) * c /\ (b - a) * c >= 0
  OBVIOUS
<1> QED
  BY <1>1

LEMMA SizeGrows ==
    ASSUME NEW u \in Nat, NEW v \in Nat, u <= v, NEW b \in Nat, NEW c \in Nat, b <= c,
           NEW e \in Nat, NEW g \in Nat, e <= g
    PROVE  /\ BlobSize(u, b, e) \in Nat /\ BlobSize(u, b, e) >= HdrSize
           /\ BlobSize(u, b, e) <= BlobSize(v, c, g)
<1>1. HdrSize \in Nat /\ UnitSize \in Nat /\ BindSize \in Nat /\ EdgeSize \in Nat
  BY CheckAssumption
<1>2. /\ u * UnitSize \in Nat /\ v * UnitSize \in Nat /\ u * UnitSize <= v * UnitSize
      /\ b * BindSize \in Nat /\ c * BindSize \in Nat /\ b * BindSize <= c * BindSize
      /\ e * EdgeSize \in Nat /\ g * EdgeSize \in Nat /\ e * EdgeSize <= g * EdgeSize
  BY <1>1, Times
<1> QED
  BY <1>1, <1>2 DEF BlobSize

(* Within the limits the 32-bit size is the size. *)
LEMMA SizeExact ==
    ASSUME NEW b, IsFile(b), b.nu <= MaxUnits, b.nb <= MaxBinds, b.ne <= MaxEdges
    PROVE  /\ BlobSize(b.nu, b.nb, b.ne) % U32 = BlobSize(b.nu, b.nb, b.ne)
           /\ BlobSize(b.nu, b.nb, b.ne) >= HdrSize
<1>1. /\ b.nu \in Nat /\ b.nb \in Nat /\ b.ne \in Nat
      /\ MaxUnits \in Nat /\ MaxBinds \in Nat /\ MaxEdges \in Nat
      /\ U32 \in Nat /\ HdrSize \in Nat
  BY CheckAssumption DEF IsFile
<1> DEFINE z == BlobSize(b.nu, b.nb, b.ne)
           y == BlobSize(MaxUnits, MaxBinds, MaxEdges)
<1>2. z \in Nat /\ z >= HdrSize /\ z <= y
  BY <1>1, SizeGrows
<1>3. y \in Nat /\ y < U32
  <2>1. MaxUnits <= MaxUnits /\ MaxBinds <= MaxBinds /\ MaxEdges <= MaxEdges
    BY <1>1
  <2>2. y \in Nat
    BY <1>1, <2>1, SizeGrows
  <2> QED
    BY <2>2, SizeAssumption
<1> HIDE DEF z, y
<1>4. z % U32 = z
  BY <1>1, <1>2, <1>3
<1> QED
  BY <1>2, <1>4 DEF z

LEMMA HeaderExact ==
    ASSUME NEW b, IsFile(b)
    PROVE  /\ First(HeaderRules(b)) \in Codes \union {"OK"}
           /\ First(HeaderRules(b)) = "OK" <=>
                /\ b.magic /\ b.crc
                /\ b.nu \in 1..MaxUnits /\ b.nb <= MaxBinds /\ b.ne <= MaxEdges
                /\ b.len = BlobSize(b.nu, b.nb, b.ne)
<1>1. /\ HeaderRules(b) \in Seq(Codes \X BOOLEAN)
      /\ Unbroken(HeaderRules(b)) <=>
           /\ b.len >= HdrSize /\ b.magic /\ b.nu \in 1..MaxUnits
           /\ b.nb <= MaxBinds /\ b.ne <= MaxEdges
           /\ b.len = BlobSize(b.nu, b.nb, b.ne) % U32 /\ b.crc
  BY HeaderTable
<1>2. /\ First(HeaderRules(b)) \in Codes \union {"OK"}
      /\ First(HeaderRules(b)) = "OK" <=> Unbroken(HeaderRules(b))
  BY <1>1, FirstExact
<1>3. b.nu \in 1..MaxUnits => b.nu <= MaxUnits
  OBVIOUS
<1> QED
  BY <1>1, <1>2, <1>3, SizeExact

(* A file past its header: its tables are there, and are what they are. *)
Whole == IsFile(blob) /\ First(HeaderRules(blob)) = "OK"

LEMMA WholeFacts ==
    ASSUME Whole
    PROVE  /\ blob.nu \in Nat /\ blob.nb \in Nat /\ blob.ne \in Nat /\ blob.nu < Slots
           /\ blob.len = BlobSize(blob.nu, blob.nb, blob.ne)
           /\ \A k \in 0..(blob.nu - 1) :
                /\ blob.units[k] \in UnitType
                /\ NameKey[k] = Text(blob.units[k].name, NameLen)
                /\ LayerKey[k] = Text(blob.units[k].layer, NameLen)
<1>1. /\ blob.nu \in Nat /\ blob.nb \in Nat /\ blob.ne \in Nat
  BY DEF Whole, IsFile
<1>2. /\ blob.nu \in 1..MaxUnits
      /\ blob.len = BlobSize(blob.nu, blob.nb, blob.ne)
  BY HeaderExact DEF Whole
<1>3. blob.nu < Slots
  BY <1>1, <1>2, CheckAssumption
<1>4. \A k \in 0..(blob.nu - 1) : k \in DOMAIN blob.units /\ blob.units[k] \in UnitType
  BY <1>2 DEF Whole, IsFile
<1> QED
  BY <1>1, <1>2, <1>3, <1>4 DEF NameKey, LayerKey

(* The text of a valid unit's name, or of its layer if it has one, is as   *)
(* good as the field, and is in the hash.                                  *)
LEMMA KeyFacts ==
    ASSUME Whole, NEW j \in 0..(blob.nu - 1), ValidUnit(blob.units[j])
    PROVE  /\ NameKey[j] \in NameTexts
           /\ HasLayer(blob.units[j]) => LayerKey[j] \in NameTexts
           /\ HasLayer(blob.units[j]) <=> ~NoLayer(blob.units[j])
           /\ HasLayer(blob.units[j]) => IsName(blob.units[j].layer)
<1> DEFINE u == blob.units[j]
<1>1. u \in UnitType
  BY WholeFacts
<1>2. u.name \in NameField /\ u.layer \in NameField
  BY <1>1 DEF UnitType
<1>3. IsName(u.name) /\ (NoLayer(u) \/ IsName(u.layer))
  BY DEF ValidUnit
<1>4. /\ HasLayer(u) <=> ~NoLayer(u)
      /\ HasLayer(u) => IsName(u.layer)
  BY <1>1, <1>3, LayerFacts
<1> HIDE DEF u
<1>5. /\ NameKey[j] = Text(u.name, NameLen)
      /\ LayerKey[j] = Text(u.layer, NameLen)
  BY WholeFacts DEF u
<1>6. Text(u.name, NameLen) \in NameTexts
  BY <1>2, <1>3, NameHashed
<1>7. HasLayer(u) => Text(u.layer, NameLen) \in NameTexts
  BY <1>2, <1>4, NameHashed
<1> QED
  BY <1>4, <1>5, <1>6, <1>7 DEF u

LEMMA SameKey ==
    ASSUME Whole, NEW j \in 0..(blob.nu - 1), NEW k \in 0..(blob.nu - 1),
           ValidUnit(blob.units[j]), ValidUnit(blob.units[k])
    PROVE  /\ NameKey[j] = NameKey[k] <=> blob.units[j].name = blob.units[k].name
           /\ HasLayer(blob.units[j]) /\ HasLayer(blob.units[k]) =>
                (LayerKey[j] = LayerKey[k] <=> blob.units[j].layer = blob.units[k].layer)
<1> DEFINE u == blob.units[j]
           v == blob.units[k]
<1>1. u \in UnitType /\ v \in UnitType
  BY WholeFacts
<1>2. u.name \in NameField /\ u.layer \in NameField /\ v.name \in NameField /\ v.layer \in NameField
  BY <1>1 DEF UnitType
<1>3. /\ IsName(u.name) /\ (HasLayer(u) => IsName(u.layer))
      /\ IsName(v.name) /\ (HasLayer(v) => IsName(v.layer))
  BY KeyFacts DEF ValidUnit
<1> HIDE DEF u, v
<1>4. /\ NameKey[j] = Text(u.name, NameLen) /\ LayerKey[j] = Text(u.layer, NameLen)
      /\ NameKey[k] = Text(v.name, NameLen) /\ LayerKey[k] = Text(v.layer, NameLen)
  BY WholeFacts DEF u, v
<1>5. Text(u.name, NameLen) = Text(v.name, NameLen) <=> u.name = v.name
  BY <1>2, <1>3, TextIsField
<1>6. HasLayer(u) /\ HasLayer(v) =>
        (Text(u.layer, NameLen) = Text(v.layer, NameLen) <=> u.layer = v.layer)
  BY <1>2, <1>3, TextIsField
<1> QED
  BY <1>4, <1>5, <1>6 DEF u, v

LEMMA UnitPasses ==
    ASSUME Whole, NEW j \in 0..(blob.nu - 1)
    PROVE  /\ First(UnitRules(blob.units[j])) \in Codes \union {"OK"}
           /\ First(UnitRules(blob.units[j])) = "OK" <=> ValidUnit(blob.units[j])
<1>1. blob.units[j] \in UnitType
  BY WholeFacts
<1> QED
  BY <1>1, UnitExact

(* The units, one by one and in pairs. *)
LEMMA UnitsExact ==
    ASSUME Whole
    PROVE  UnitsPassed(blob.nu) <=>
             /\ \A u \in 0..(blob.nu - 1) : ValidUnit(blob.units[u])
             /\ \A u, w \in 0..(blob.nu - 1) : u # w =>
                  /\ blob.units[u].name # blob.units[w].name
                  /\ blob.units[u].layer = blob.units[w].layer => NoLayer(blob.units[u])
<1> DEFINE Us == 0..(blob.nu - 1)
           AllValid == \A u \in Us : ValidUnit(blob.units[u])
           Names == \A j, k \in Us : NameKey[j] = NameKey[k] => j = k
           Layers == \A j, k \in Layered(blob.nu) : LayerKey[j] = LayerKey[k] => j = k
           Distinct == \A u, w \in Us : u # w =>
                  /\ blob.units[u].name # blob.units[w].name
                  /\ blob.units[u].layer = blob.units[w].layer => NoLayer(blob.units[u])
<1>1. UnitsPassed(blob.nu) <=> AllValid /\ Names /\ Layers
  BY UnitPasses DEF UnitsPassed
<1>2. ASSUME AllValid, Names, Layers, NEW u \in Us, NEW w \in Us, u # w
      PROVE  /\ blob.units[u].name # blob.units[w].name
             /\ blob.units[u].layer = blob.units[w].layer => NoLayer(blob.units[u])
  <2>1. ValidUnit(blob.units[u]) /\ ValidUnit(blob.units[w])
    BY <1>2
  <2>2. blob.units[u].name # blob.units[w].name
    BY <1>2, <2>1, SameKey
  <2>3. ASSUME blob.units[u].layer = blob.units[w].layer, ~NoLayer(blob.units[u])
        PROVE  FALSE
    <3>1. HasLayer(blob.units[u])
      BY <2>1, <2>3, KeyFacts
    <3>2. HasLayer(blob.units[w])
      BY <2>3, <3>1 DEF HasLayer
    <3>3. LayerKey[u] = LayerKey[w]
      BY <2>1, <2>3, <3>1, <3>2, SameKey
    <3>4. u \in Layered(blob.nu) /\ w \in Layered(blob.nu)
      BY <3>1, <3>2 DEF Layered
    <3> QED
      BY <1>2, <3>3, <3>4
  <2> QED
    BY <2>2, <2>3
<1>3. ASSUME AllValid, Distinct PROVE Names
  <2>1. SUFFICES ASSUME NEW j \in Us, NEW k \in Us, NameKey[j] = NameKey[k], j # k PROVE FALSE
    OBVIOUS
  <2>2. blob.units[j].name = blob.units[k].name
    BY <1>3, <2>1, SameKey
  <2> QED
    BY <1>3, <2>1, <2>2
<1>4. ASSUME AllValid, Distinct PROVE Layers
  <2>1. SUFFICES ASSUME NEW j \in Layered(blob.nu), NEW k \in Layered(blob.nu),
                        LayerKey[j] = LayerKey[k], j # k
                 PROVE  FALSE
    OBVIOUS
  <2>2. j \in Us /\ k \in Us /\ HasLayer(blob.units[j]) /\ HasLayer(blob.units[k])
    BY DEF Layered
  <2>3. blob.units[j].layer = blob.units[k].layer
    BY <1>4, <2>1, <2>2, SameKey
  <2>4. ~NoLayer(blob.units[j])
    BY <1>4, <2>2, KeyFacts
  <2> QED
    BY <1>4, <2>1, <2>2, <2>3, <2>4
<1>5. AllValid /\ Names /\ Layers => Distinct
  BY <1>2
<1> HIDE DEF Names, Layers
<1> QED
  BY <1>1, <1>3, <1>4, <1>5

(* A plan is valid exactly when its header, units, binds and edges pass. *)
LEMMA ValidExact ==
    ASSUME IsFile(blob)
    PROVE  Valid(blob) <=>
             /\ First(HeaderRules(blob)) = "OK"
             /\ UnitsPassed(blob.nu) /\ BindsPassed(blob.nb) /\ EdgesPassed(blob.ne)
<1>1. CASE First(HeaderRules(blob)) # "OK"
  <2>1. ~Valid(blob)
    BY <1>1, HeaderExact DEF Valid
  <2> QED
    BY <1>1, <2>1
<1>2. CASE First(HeaderRules(blob)) = "OK"
  <2>1. Whole
    BY <1>2 DEF Whole
  <2>2. /\ blob.len = BlobSize(blob.nu, blob.nb, blob.ne)
        /\ blob.magic /\ blob.crc
        /\ blob.nu \in 1..MaxUnits /\ blob.nb <= MaxBinds /\ blob.ne <= MaxEdges
        /\ blob.ne \in Nat
    BY <1>2, <2>1, HeaderExact, WholeFacts
  <2> DEFINE Us == 0..(blob.nu - 1)
             B == \A k \in 0..(blob.nb - 1) : /\ blob.binds[k].unit \in Us
                                              /\ ~NoBrick(blob.units[blob.binds[k].unit])
                                              /\ IsPath(blob.binds[k].path)
             pair(k) == {blob.edges[k].a, blob.edges[k].b}
             E1 == \A k \in 0..(blob.ne - 1) :
                      /\ pair(k) \subseteq Us /\ blob.edges[k].a # blob.edges[k].b
                      /\ \A u \in pair(k) : blob.units[u].lock = 0
             E2 == \A k, j \in 0..(blob.ne - 1) : k # j => pair(k) # pair(j)
             U == /\ \A u \in Us : ValidUnit(blob.units[u])
                  /\ \A u, w \in Us : u # w =>
                       /\ blob.units[u].name # blob.units[w].name
                       /\ blob.units[u].layer = blob.units[w].layer => NoLayer(blob.units[u])
  <2>3. Valid(blob) <=> U /\ B /\ E1 /\ E2
    BY <2>2 DEF Valid
  <2>4. UnitsPassed(blob.nu) <=> U
    BY <2>1, UnitsExact
  <2>5. BindsPassed(blob.nb) <=> B
    BY <2>2, BindExact DEF BindsPassed
  <2>6. ASSUME U PROVE EdgesPassed(blob.ne) <=> E1 /\ E2
    <3> DEFINE E3 == \A k \in 0..(blob.ne - 1) : \A j \in 0..(k - 1) : pair(k) # pair(j)
    <3>1. EdgesPassed(blob.ne) <=> E1 /\ E3
      <4>1. \A u \in 0..(blob.nu - 1) : ValidUnit(blob.units[u])
        BY <2>6
      <4>2. \A k \in 0..(blob.ne - 1) :
              First(EdgeRules(blob, k)) = "OK" <=>
                /\ pair(k) \subseteq Us /\ blob.edges[k].a # blob.edges[k].b
                /\ \A u \in pair(k) : blob.units[u].lock = 0
                /\ \A j \in 0..(k - 1) : pair(k) # pair(j)
        BY <2>2, <4>1, EdgeExact
      <4> HIDE DEF pair
      <4> QED
        BY <4>2 DEF EdgesPassed
    <3>2. E2 => E3
      <4>1. \A k \in 0..(blob.ne - 1) : \A j \in 0..(k - 1) :
               j \in 0..(blob.ne - 1) /\ k # j
        BY <2>2
      <4> HIDE DEF pair
      <4> QED
        BY <4>1
    <3>3. ASSUME E3 PROVE E2
      <4>1. SUFFICES ASSUME NEW k \in 0..(blob.ne - 1), NEW j \in 0..(blob.ne - 1), k # j
                     PROVE  pair(k) # pair(j)
        OBVIOUS
      <4>2. CASE j < k
        <5>1. j \in 0..(k - 1)
          BY <2>2, <4>2
        <5> QED
          BY <3>3, <5>1
      <4>3. CASE k < j
        <5>1. k \in 0..(j - 1)
          BY <2>2, <4>3
        <5> QED
          BY <3>3, <5>1
      <4>4. j < k \/ k < j
        BY <2>2, <4>1
      <4> QED
        BY <4>2, <4>3, <4>4
    <3> HIDE DEF E1, E2, E3
    <3> QED
      BY <3>1, <3>2, <3>3
  <2> HIDE DEF U, B, E1, E2
  <2> QED
    BY <1>2, <2>3, <2>4, <2>5, <2>6
<1> QED
  BY <1>1, <1>2

----------------------------------------------------------------------------
(* The steps of nw_check() *)

(* The file is read only. *)
LEMMA SameFile ==
    ASSUME UNCHANGED inputs
    PROVE  /\ blob' = blob /\ hash' = hash
           /\ NameKey' = NameKey /\ LayerKey' = LayerKey
           /\ \A m : /\ UnitsPassed(m)' <=> UnitsPassed(m)
                     /\ BindsPassed(m)' <=> BindsPassed(m)
                     /\ EdgesPassed(m)' <=> EdgesPassed(m)
                     /\ Layered(m)' = Layered(m)
<1>1. blob' = blob /\ hash' = hash
  BY DEF inputs
<1>2. NameKey' = NameKey /\ LayerKey' = LayerKey
  BY <1>1 DEF NameKey, LayerKey
<1>3. \A m : Layered(m)' = Layered(m)
  BY <1>1 DEF Layered
<1>4. ASSUME NEW m
      PROVE  /\ UnitsPassed(m)' <=> UnitsPassed(m)
             /\ BindsPassed(m)' <=> BindsPassed(m)
             /\ EdgesPassed(m)' <=> EdgesPassed(m)
  BY <1>1, <1>2, <1>3 DEF UnitsPassed, BindsPassed, EdgesPassed
<1> QED
  BY <1>1, <1>2, <1>3, <1>4

(* An early return is right when the plan is not valid. *)
LEMMA Rejects ==
    ASSUME UNCHANGED inputs, IsFile(blob), hash \in [NameTexts -> 0..(Slots - 1)],
           NEW code \in Codes, Return(code), ~Valid(blob)
    PROVE  CheckInv'
<1>1. pc' = "done" /\ verdict' = code /\ blob' = blob /\ hash' = hash
  BY SameFile DEF Return
<1>2. code # "none" /\ code # "OK"
  BY DEF Codes
<1>3. AcceptsExactly'
  BY <1>1, <1>2 DEF AcceptsExactly
<1> QED
  BY <1>1, <1>3 DEF CheckInv, TablePhases

LEMMA HeaderInv ==
    ASSUME CheckInv, Header
    PROVE  CheckInv'
<1>1. /\ IsFile(blob) /\ hash \in [NameTexts -> 0..(Slots - 1)]
      /\ verdict = "none" /\ i = 0 /\ dup = NoTable /\ lay = NoTable
      /\ pc = "header" /\ UNCHANGED <<inputs, i, dup, lay>>
  BY DEF CheckInv, Header
<1> DEFINE e == First(HeaderRules(blob))
<1>2. CASE e # "OK"
  <2>1. Return(e) /\ e \in Codes
    BY <1>1, <1>2, HeaderExact DEF Header
  <2>2. ~Valid(blob)
    BY <1>1, <1>2, ValidExact
  <2> QED
    BY <1>1, <2>1, <2>2, Rejects
<1>3. CASE e = "OK"
  <2>1. /\ pc' = "units" /\ verdict' = verdict /\ blob' = blob /\ hash' = hash
        /\ i' = 0 /\ dup' = NoTable /\ lay' = NoTable
    BY <1>1, <1>3, SameFile DEF Header
  <2>2. blob.nu \in Nat
    BY <1>1 DEF IsFile
  <2>3. 0..(0 - 1) = {} /\ Layered(0)' = {}
    BY DEF Layered
  <2>4. UnitsPassed(0)'
    BY <2>3 DEF UnitsPassed
  <2>5. \A key : TableInv(NoTable, key, {}, 0)'
    <3>1. NoTable \in [0..(Slots - 1) -> {} \union {Empty}] /\ Used(NoTable) = {}
      BY DEF NoTable, Used
    <3>2. Cardinality(Used(NoTable)) <= 0
      BY <3>1, FS_EmptySet
    <3> QED
      BY <3>1, <3>2 DEF TableInv
  <2>6. /\ TableInv(dup, NameKey, 0..(i - 1), i)'
        /\ TableInv(lay, LayerKey, Layered(i), i)'
    BY <2>1, <2>3, <2>5 DEF TableInv
  <2> QED
    BY <1>1, <1>3, <2>1, <2>2, <2>4, <2>6 DEF CheckInv, AcceptsExactly, TablePhases
<1> QED
  BY <1>2, <1>3

(* What holds at a unit, and what the two tables then say of it. *)
LEMMA AtUnit ==
    ASSUME CheckInv, pc = "units", i < blob.nu
    PROVE  /\ Whole /\ hash \in [NameTexts -> 0..(Slots - 1)] /\ verdict = "none"
           /\ i \in 0..(blob.nu - 1) /\ i \in Nat /\ i < Slots /\ blob.nu \in Nat
           /\ UnitsPassed(i)
           /\ TableInv(dup, NameKey, 0..(i - 1), i)
           /\ TableInv(lay, LayerKey, Layered(i), i)
<1>1. /\ Whole /\ hash \in [NameTexts -> 0..(Slots - 1)] /\ verdict = "none"
      /\ i \in 0..blob.nu /\ UnitsPassed(i)
      /\ TableInv(dup, NameKey, 0..(i - 1), i)
      /\ TableInv(lay, LayerKey, Layered(i), i)
  BY DEF CheckInv, TablePhases, Whole
<1>2. blob.nu \in Nat /\ blob.nu < Slots
  BY <1>1, WholeFacts
<1>3. i \in 0..blob.nu /\ Slots \in Nat
  BY <1>1, CheckAssumption
<1>4. i \in 0..(blob.nu - 1) /\ i \in Nat /\ i < Slots
  BY <1>2, <1>3
<1> QED
  BY <1>1, <1>2, <1>4

LEMMA AtUnitTables ==
    ASSUME CheckInv, pc = "units", i < blob.nu,
           First(UnitRules(blob.units[i])) = "OK"
    PROVE  LET d == field_dup(dup, NameKey, hash, i)
               l == field_dup(lay, LayerKey, hash, i)
           IN  /\ d.found <=> \E j \in 0..(i - 1) : NameKey[j] = NameKey[i]
               /\ ~d.found => TableInv(d.tab, NameKey, 0..i, i + 1)
               /\ HasLayer(blob.units[i]) =>
                    /\ l.found <=> \E j \in Layered(i) : LayerKey[j] = LayerKey[i]
                    /\ ~l.found => TableInv(l.tab, LayerKey, Layered(i) \union {i}, i + 1)
<1>1. /\ Whole /\ hash \in [NameTexts -> 0..(Slots - 1)]
      /\ i \in 0..(blob.nu - 1) /\ i \in Nat /\ i < Slots /\ blob.nu \in Nat
      /\ UnitsPassed(i)
      /\ TableInv(dup, NameKey, 0..(i - 1), i)
      /\ TableInv(lay, LayerKey, Layered(i), i)
  BY AtUnit
<1>2. \A j \in 0..i : j \in 0..(blob.nu - 1) /\ ValidUnit(blob.units[j])
  <2>1. \A j \in 0..i : j \in 0..(blob.nu - 1) /\ (j \in 0..(i - 1) \/ j = i)
    BY <1>1
  <2>2. \A j \in 0..i : First(UnitRules(blob.units[j])) = "OK"
    BY <1>1, <2>1 DEF UnitsPassed
  <2> QED
    BY <1>1, <2>1, <2>2, UnitPasses
<1>3. \A j \in 0..i : hash[NameKey[j]] \in 0..(Slots - 1)
  BY <1>1, <1>2, KeyFacts
<1>4. \A j \in 0..i : HasLayer(blob.units[j]) => hash[LayerKey[j]] \in 0..(Slots - 1)
  BY <1>1, <1>2, KeyFacts
<1>5. (0..(i - 1)) \union {i} = 0..i /\ i \notin 0..(i - 1) /\ 0..(i - 1) \in SUBSET Nat
  BY <1>1
<1>6. LET d == field_dup(dup, NameKey, hash, i)
      IN  /\ d.found <=> \E j \in 0..(i - 1) : NameKey[j] = NameKey[i]
          /\ ~d.found => TableInv(d.tab, NameKey, (0..(i - 1)) \union {i}, i + 1)
  <2> DEFINE S == 0..(i - 1)
  <2>1. S \in SUBSET Nat /\ i \notin S /\ TableInv(dup, NameKey, S, i)
    BY <1>1, <1>5
  <2>2. \A j \in S \union {i} : hash[NameKey[j]] \in 0..(Slots - 1)
    BY <1>3, <1>5
  <2> HIDE DEF S
  <2>3. LET d == field_dup(dup, NameKey, hash, i)
        IN  /\ d.found <=> \E j \in S : NameKey[j] = NameKey[i]
            /\ ~d.found => TableInv(d.tab, NameKey, S \union {i}, i + 1)
    BY <1>1, <2>1, <2>2, FieldDup
  <2> QED
    BY <2>3 DEF S
<1>7. ASSUME HasLayer(blob.units[i])
      PROVE  LET l == field_dup(lay, LayerKey, hash, i)
             IN  /\ l.found <=> \E j \in Layered(i) : LayerKey[j] = LayerKey[i]
                 /\ ~l.found => TableInv(l.tab, LayerKey, Layered(i) \union {i}, i + 1)
  <2>1. /\ Layered(i) \in SUBSET Nat /\ i \notin Layered(i)
        /\ \A j \in Layered(i) : j \in 0..i /\ HasLayer(blob.units[j])
    BY <1>1 DEF Layered
  <2>2. \A j \in Layered(i) \union {i} : hash[LayerKey[j]] \in 0..(Slots - 1)
    BY <1>1, <1>4, <1>7, <2>1
  <2> QED
    BY <1>1, <2>1, <2>2, FieldDup
<1> QED
  BY <1>5, <1>6, <1>7

LEMMA UnitInv ==
    ASSUME CheckInv, Unit
    PROVE  CheckInv'
<1> DEFINE u == blob.units[i]
           e == First(UnitRules(u))
           d == field_dup(dup, NameKey, hash, i)
           l == field_dup(lay, LayerKey, hash, i)
<1>1. pc = "units" /\ i < blob.nu /\ UNCHANGED inputs
  BY DEF Unit
<1>2. /\ Whole /\ hash \in [NameTexts -> 0..(Slots - 1)] /\ verdict = "none"
      /\ i \in 0..(blob.nu - 1) /\ i \in Nat /\ i < Slots /\ blob.nu \in Nat
      /\ UnitsPassed(i)
      /\ TableInv(dup, NameKey, 0..(i - 1), i)
      /\ TableInv(lay, LayerKey, Layered(i), i)
  BY <1>1, AtUnit
<1>3. IsFile(blob) /\ blob' = blob /\ hash' = hash
  BY <1>1, <1>2, SameFile DEF Whole
<1>4. e \in Codes \union {"OK"}
  BY <1>2, UnitPasses
<1>5. 0..(i - 1) \subseteq 0..(blob.nu - 1)
  BY <1>2
<1>6. CASE e # "OK"
  <2>1. Return(e)
    BY <1>6 DEF Unit
  <2>2. ~UnitsPassed(blob.nu)
    BY <1>2, <1>6 DEF UnitsPassed
  <2> QED
    BY <1>1, <1>2, <1>3, <1>4, <1>6, <2>1, <2>2, ValidExact, Rejects
<1>7. CASE e = "OK" /\ d.found
  <2>1. Return("DUPNAME")
    BY <1>7 DEF Unit
  <2>2. PICK j \in 0..(i - 1) : NameKey[j] = NameKey[i]
    BY <1>1, <1>7, AtUnitTables
  <2>3. j \in 0..(blob.nu - 1) /\ j # i
    BY <1>2, <1>5
  <2>4. ~UnitsPassed(blob.nu)
    BY <1>2, <2>2, <2>3 DEF UnitsPassed
  <2>5. "DUPNAME" \in Codes
    BY DEF Codes
  <2> QED
    BY <1>1, <1>2, <1>3, <2>1, <2>4, <2>5, ValidExact, Rejects
<1>8. CASE e = "OK" /\ ~d.found /\ HasLayer(u) /\ l.found
  <2>1. Return("LAYERDUP")
    BY <1>8 DEF Unit
  <2>2. PICK j \in Layered(i) : LayerKey[j] = LayerKey[i]
    BY <1>1, <1>8, AtUnitTables
  <2>3. j \in Layered(blob.nu) /\ i \in Layered(blob.nu) /\ j # i
    BY <1>2, <1>5, <1>8 DEF Layered
  <2>4. ~UnitsPassed(blob.nu)
    BY <2>2, <2>3 DEF UnitsPassed
  <2>5. "LAYERDUP" \in Codes
    BY DEF Codes
  <2> QED
    BY <1>1, <1>2, <1>3, <2>1, <2>4, <2>5, ValidExact, Rejects
<1>9. CASE e = "OK" /\ ~d.found /\ (HasLayer(u) => ~l.found)
  <2>1. /\ dup' = d.tab /\ lay' = (IF HasLayer(u) THEN l.tab ELSE lay)
        /\ i' = i + 1 /\ pc' = pc /\ verdict' = verdict
    BY <1>9 DEF Unit
  <2>2. /\ TableInv(d.tab, NameKey, 0..i, i + 1)
        /\ ~(\E j \in 0..(i - 1) : NameKey[j] = NameKey[i])
        /\ HasLayer(u) =>
             /\ ~(\E j \in Layered(i) : LayerKey[j] = LayerKey[i])
             /\ TableInv(l.tab, LayerKey, Layered(i) \union {i}, i + 1)
    BY <1>1, <1>9, AtUnitTables
  <2>3. /\ i' \in 0..blob.nu /\ i' - 1 = i
        /\ \A j \in 0..i : j \in 0..(i - 1) \/ j = i
        /\ 0..(i - 1) \subseteq 0..i /\ i \in 0..i
    BY <1>2, <2>1
  <2>4. Layered(i + 1) = IF HasLayer(u) THEN Layered(i) \union {i} ELSE Layered(i)
    <3>1. (i + 1) - 1 = i
      BY <1>2
    <3> QED
      BY <2>3, <3>1 DEF Layered
  <2>5. UnitsPassed(i + 1)
    <3>1. (i + 1) - 1 = i
      BY <1>2
    <3>2. \A j \in 0..i : First(UnitRules(blob.units[j])) = "OK"
      BY <1>2, <1>9, <2>3 DEF UnitsPassed
    <3>3. \A j, k \in 0..i : NameKey[j] = NameKey[k] => j = k
      BY <1>2, <2>2, <2>3 DEF UnitsPassed
    <3>4. \A j, k \in Layered(i + 1) : LayerKey[j] = LayerKey[k] => j = k
      BY <1>2, <2>2, <2>4 DEF UnitsPassed
    <3> QED
      BY <3>1, <3>2, <3>3, <3>4 DEF UnitsPassed
  <2>6. TableInv(lay', LayerKey, Layered(i + 1), i + 1)
    <3>1. CASE HasLayer(u)
      BY <2>1, <2>2, <2>4, <3>1
    <3>2. CASE ~HasLayer(u)
      <4>1. Cardinality(Used(lay)) \in Nat
        <5>1. DOMAIN lay = 0..(Slots - 1)
          BY <1>2 DEF TableInv
        <5> QED
          BY <5>1, UsedFinite
      <4>2. Cardinality(Used(lay)) <= i + 1
        BY <1>2, <4>1 DEF TableInv
      <4>3. lay' = lay /\ Layered(i + 1) = Layered(i)
        BY <2>1, <2>4, <3>2
      <4>4. TableInv(lay, LayerKey, Layered(i), i)
        BY <1>2
      <4>5. TableInv(lay, LayerKey, Layered(i), i + 1)
        BY <4>2, <4>4, Zenon DEF TableInv
      <4> QED
        BY <4>3, <4>5
    <3> QED
      BY <3>1, <3>2
  <2>7. UnitsPassed(i)'
    BY <1>1, <2>1, <2>5, SameFile
  <2>8. TableInv(dup, NameKey, 0..(i - 1), i)'
    <3>1. 0..(i' - 1) = 0..i
      BY <2>3
    <3>2. TableInv(dup', NameKey, 0..(i' - 1), i')
      BY <2>1, <2>2, <3>1
    <3>3. NameKey' = NameKey
      BY <1>1, SameFile
    <3> QED
      BY <1>3, <3>2, <3>3 DEF TableInv
  <2>9. TableInv(lay, LayerKey, Layered(i), i)'
    BY <1>1, <1>3, <2>1, <2>6, SameFile DEF TableInv
  <2> QED
    BY <1>1, <1>2, <1>3, <2>1, <2>3, <2>7, <2>8, <2>9
       DEF CheckInv, AcceptsExactly, TablePhases, Whole
<1> QED
  BY <1>6, <1>7, <1>8, <1>9

LEMMA UnitsDoneInv ==
    ASSUME CheckInv, UnitsDone
    PROVE  CheckInv'
<1>1. /\ IsFile(blob) /\ First(HeaderRules(blob)) = "OK" /\ UnitsPassed(i)
      /\ hash \in [NameTexts -> 0..(Slots - 1)] /\ verdict = "none"
      /\ i \in 0..blob.nu /\ i >= blob.nu
      /\ pc' = "binds" /\ i' = 0 /\ verdict' = verdict /\ UNCHANGED inputs
  BY DEF CheckInv, UnitsDone, TablePhases
<1>2. blob.nu \in Nat /\ blob.nb \in Nat
  BY <1>1 DEF IsFile
<1>3. i = blob.nu
  BY <1>1, <1>2
<1>4. blob' = blob /\ hash' = hash /\ UnitsPassed(blob.nu)'
  BY <1>1, <1>3, SameFile
<1>5. BindsPassed(0)' /\ 0 \in 0..blob.nb
  BY <1>2 DEF BindsPassed
<1> QED
  BY <1>1, <1>4, <1>5 DEF CheckInv, AcceptsExactly, TablePhases

LEMMA BindInv ==
    ASSUME CheckInv, Bind
    PROVE  CheckInv'
<1> DEFINE e == First(BindRules(blob, i))
<1>1. /\ IsFile(blob) /\ First(HeaderRules(blob)) = "OK"
      /\ UnitsPassed(blob.nu) /\ BindsPassed(i)
      /\ hash \in [NameTexts -> 0..(Slots - 1)] /\ verdict = "none"
      /\ i \in 0..blob.nb /\ i < blob.nb /\ pc = "binds" /\ UNCHANGED inputs
  BY DEF CheckInv, Bind, TablePhases
<1>2. Whole /\ blob.nb \in Nat /\ blob.len = BlobSize(blob.nu, blob.nb, blob.ne)
  BY <1>1, WholeFacts DEF Whole
<1>3. i \in 0..(blob.nb - 1) /\ i \in Nat
  BY <1>1, <1>2
<1>4. e \in Codes \union {"OK"}
  BY <1>1, <1>2, <1>3, BindExact
<1>5. CASE e # "OK"
  <2>1. Return(e)
    BY <1>5 DEF Bind
  <2>2. ~BindsPassed(blob.nb)
    BY <1>3, <1>5 DEF BindsPassed
  <2> QED
    BY <1>1, <1>4, <1>5, <2>1, <2>2, ValidExact, Rejects
<1>6. CASE e = "OK"
  <2>1. i' = i + 1 /\ pc' = pc /\ verdict' = verdict
    BY <1>6 DEF Bind
  <2>2. \A j \in 0..((i + 1) - 1) : j \in 0..(i - 1) \/ j = i
    BY <1>3
  <2>3. BindsPassed(i + 1)
    BY <1>1, <1>6, <2>2 DEF BindsPassed
  <2>4. /\ blob' = blob /\ hash' = hash
        /\ UnitsPassed(blob.nu)' /\ BindsPassed(i)' /\ i' \in 0..blob.nb
    BY <1>1, <1>2, <1>3, <2>1, <2>3, SameFile
  <2> QED
    BY <1>1, <2>1, <2>4 DEF CheckInv, AcceptsExactly, TablePhases
<1> QED
  BY <1>5, <1>6

LEMMA BindsDoneInv ==
    ASSUME CheckInv, BindsDone
    PROVE  CheckInv'
<1>1. /\ IsFile(blob) /\ First(HeaderRules(blob)) = "OK"
      /\ UnitsPassed(blob.nu) /\ BindsPassed(i)
      /\ hash \in [NameTexts -> 0..(Slots - 1)] /\ verdict = "none"
      /\ i \in 0..blob.nb /\ i >= blob.nb
      /\ pc' = "edges" /\ i' = 0 /\ verdict' = verdict /\ UNCHANGED inputs
  BY DEF CheckInv, BindsDone, TablePhases
<1>2. blob.nb \in Nat /\ blob.ne \in Nat
  BY <1>1 DEF IsFile
<1>3. i = blob.nb
  BY <1>1, <1>2
<1>4. blob' = blob /\ hash' = hash /\ UnitsPassed(blob.nu)' /\ BindsPassed(blob.nb)'
  BY <1>1, <1>3, SameFile
<1>5. EdgesPassed(0)' /\ 0 \in 0..blob.ne
  BY <1>2 DEF EdgesPassed
<1> QED
  BY <1>1, <1>4, <1>5 DEF CheckInv, AcceptsExactly, TablePhases

LEMMA EdgeInv ==
    ASSUME CheckInv, Edge
    PROVE  CheckInv'
<1> DEFINE e == First(EdgeRules(blob, i))
<1>1. /\ IsFile(blob) /\ First(HeaderRules(blob)) = "OK"
      /\ UnitsPassed(blob.nu) /\ BindsPassed(blob.nb) /\ EdgesPassed(i)
      /\ hash \in [NameTexts -> 0..(Slots - 1)] /\ verdict = "none"
      /\ i \in 0..blob.ne /\ i < blob.ne /\ pc = "edges" /\ UNCHANGED inputs
  BY DEF CheckInv, Edge, TablePhases
<1>2. Whole /\ blob.ne \in Nat /\ blob.len = BlobSize(blob.nu, blob.nb, blob.ne)
  BY <1>1, WholeFacts DEF Whole
<1>3. i \in 0..(blob.ne - 1) /\ i \in Nat
  BY <1>1, <1>2
<1>4. e \in Codes \union {"OK"}
  <2>1. \A u \in 0..(blob.nu - 1) : ValidUnit(blob.units[u])
    BY <1>1, <1>2, UnitPasses DEF UnitsPassed
  <2> QED
    BY <1>1, <1>2, <1>3, <2>1, EdgeExact
<1>5. CASE e # "OK"
  <2>1. Return(e)
    BY <1>5 DEF Edge
  <2>2. ~EdgesPassed(blob.ne)
    BY <1>3, <1>5 DEF EdgesPassed
  <2> QED
    BY <1>1, <1>4, <1>5, <2>1, <2>2, ValidExact, Rejects
<1>6. CASE e = "OK"
  <2>1. i' = i + 1 /\ pc' = pc /\ verdict' = verdict
    BY <1>6 DEF Edge
  <2>2. \A j \in 0..((i + 1) - 1) : j \in 0..(i - 1) \/ j = i
    BY <1>3
  <2>3. EdgesPassed(i + 1)
    BY <1>1, <1>6, <2>2 DEF EdgesPassed
  <2>4. /\ blob' = blob /\ hash' = hash
        /\ UnitsPassed(blob.nu)' /\ BindsPassed(blob.nb)'
        /\ EdgesPassed(i)' /\ i' \in 0..blob.ne
    BY <1>1, <1>2, <1>3, <2>1, <2>3, SameFile
  <2> QED
    BY <1>1, <2>1, <2>4 DEF CheckInv, AcceptsExactly, TablePhases
<1> QED
  BY <1>5, <1>6

LEMMA EdgesDoneInv ==
    ASSUME CheckInv, EdgesDone
    PROVE  CheckInv'
<1>1. /\ IsFile(blob) /\ First(HeaderRules(blob)) = "OK"
      /\ UnitsPassed(blob.nu) /\ BindsPassed(blob.nb) /\ EdgesPassed(i)
      /\ hash \in [NameTexts -> 0..(Slots - 1)]
      /\ i \in 0..blob.ne /\ i >= blob.ne
      /\ pc' = "done" /\ verdict' = "OK" /\ UNCHANGED inputs
  BY DEF CheckInv, EdgesDone, TablePhases, Return
<1>2. blob.ne \in Nat
  BY <1>1 DEF IsFile
<1>3. i = blob.ne
  BY <1>1, <1>2
<1>4. Valid(blob)
  BY <1>1, <1>3, ValidExact
<1>5. blob' = blob /\ hash' = hash
  BY <1>1, SameFile
<1> QED
  BY <1>1, <1>4, <1>5 DEF CheckInv, AcceptsExactly, TablePhases

LEMMA CheckKept ==
    ASSUME CheckInv, UNCHANGED checkVars
    PROVE  CheckInv'
<1>1. /\ UNCHANGED inputs /\ pc' = pc /\ i' = i /\ dup' = dup /\ lay' = lay
      /\ verdict' = verdict /\ blob' = blob /\ hash' = hash
  BY DEF checkVars, inputs
<1>2. /\ NameKey' = NameKey /\ LayerKey' = LayerKey /\ Layered(i)' = Layered(i)
      /\ UnitsPassed(i)' <=> UnitsPassed(i)
      /\ UnitsPassed(blob.nu)' <=> UnitsPassed(blob.nu)
      /\ BindsPassed(i)' <=> BindsPassed(i)
      /\ BindsPassed(blob.nb)' <=> BindsPassed(blob.nb)
      /\ EdgesPassed(i)' <=> EdgesPassed(i)
  BY <1>1, SameFile
<1>3. /\ TableInv(dup, NameKey, 0..(i - 1), i)' <=> TableInv(dup, NameKey, 0..(i - 1), i)
      /\ TableInv(lay, LayerKey, Layered(i), i)' <=> TableInv(lay, LayerKey, Layered(i), i)
  BY <1>1, <1>2 DEF TableInv
<1> QED
  BY <1>1, <1>2, <1>3 DEF CheckInv, AcceptsExactly

LEMMA InitCheck ==
    ASSUME Init
    PROVE  CheckInv
<1>1. CASE InitByHand
  BY <1>1 DEF InitByHand, CheckInv, AcceptsExactly, TablePhases
<1>2. CASE InitPlan
  <2>1. /\ IsFile(blob) /\ hash \in [NameTexts -> 0..(Slots - 1)]
        /\ pc = "header" /\ i = 0 /\ dup = NoTable /\ lay = NoTable /\ verdict = "none"
    BY <1>2, InputsAssumption DEF InitPlan, CheckInit
  <2> QED
    BY <2>1 DEF CheckInv, AcceptsExactly, TablePhases
<1> QED
  BY <1>1, <1>2 DEF Init

LEMMA NextCheck == CheckInv /\ [Next]_vars => CheckInv'
<1>1. CheckInv /\ nw_check => CheckInv'
  BY HeaderInv, UnitInv, UnitsDoneInv, BindInv, BindsDoneInv, EdgeInv, EdgesDoneInv
     DEF nw_check
<1>2. Spawn \/ Validate \/ UNCHANGED vars => UNCHANGED checkVars
  BY DEF Spawn, Validate, vars
<1> QED
  BY <1>1, <1>2, CheckKept DEF Next

LEMMA CheckInvariance == Spec => []CheckInv
  BY InitCheck, NextCheck, PTL DEF Spec

(* nw_check() says NW_OK for the valid plans and for no other: for every   *)
(* file, every limit within blob.h's assertions, and every way the names   *)
(* may hash.                                                               *)
THEOREM ExactlyTheValid == Spec => []AcceptsExactly
  BY CheckInvariance, PTL DEF CheckInv

(* No table is read past the end of the file: the header has admitted the  *)
(* counts by then, and within the limits their 32-bit size has not wrapped.*)
THEOREM ReadsInBounds == Spec => []InBounds
<1>1. ASSUME CheckInv PROVE InBounds
  <2>1. SUFFICES ASSUME pc \in TablePhases PROVE InBounds
    BY DEF InBounds, TablePhases
  <2>2. Whole
    BY <1>1, <2>1 DEF CheckInv, TablePhases, Whole
  <2>3. /\ pc = "units" => i \in 0..blob.nu
        /\ pc = "binds" => i \in 0..blob.nb
        /\ pc = "edges" => i \in 0..blob.ne
    BY <1>1 DEF CheckInv
  <2>4. /\ blob.nu \in Nat /\ blob.nb \in Nat /\ blob.ne \in Nat
        /\ blob.len = BlobSize(blob.nu, blob.nb, blob.ne)
    BY <2>2, WholeFacts
  <2>5. \A u, b, e \in Nat : u <= blob.nu /\ b <= blob.nb /\ e <= blob.ne
                               => BlobSize(u, b, e) <= blob.len
    <3> SUFFICES ASSUME NEW u \in Nat, NEW b \in Nat, NEW e \in Nat,
                        u <= blob.nu, b <= blob.nb, e <= blob.ne
                 PROVE  BlobSize(u, b, e) <= BlobSize(blob.nu, blob.nb, blob.ne)
      BY <2>4
    <3> QED
      BY <2>4, SizeGrows
  <2>6. ASSUME pc = "units", i < blob.nu PROVE BlobSize(i + 1, 0, 0) <= blob.len
    <3>1. i + 1 \in Nat /\ i + 1 <= blob.nu /\ 0 \in Nat /\ 0 <= blob.nb /\ 0 <= blob.ne
      BY <2>3, <2>4, <2>6
    <3> QED
      BY <2>5, <3>1
  <2>7. ASSUME pc = "binds", i < blob.nb PROVE BlobSize(blob.nu, i + 1, 0) <= blob.len
    <3>1. i + 1 \in Nat /\ i + 1 <= blob.nb /\ 0 \in Nat /\ blob.nu <= blob.nu /\ 0 <= blob.ne
      BY <2>3, <2>4, <2>7
    <3> QED
      BY <2>4, <2>5, <3>1
  <2>8. ASSUME pc = "edges", i < blob.ne PROVE BlobSize(blob.nu, blob.nb, i + 1) <= blob.len
    <3>1. /\ i + 1 \in Nat /\ i + 1 <= blob.ne
          /\ blob.nu <= blob.nu /\ blob.nb <= blob.nb
      BY <2>3, <2>4, <2>8
    <3> QED
      BY <2>4, <2>5, <3>1
  <2> QED
    BY <2>6, <2>7, <2>8 DEF InBounds
<1> QED
  BY <1>1, CheckInvariance, PTL

----------------------------------------------------------------------------
(* Numbers as text *)

LEMMA ModFacts ==
    ASSUME NEW N \in Nat \ {0}, NEW a \in Int
    PROVE  /\ a % N \in 0..(N - 1)
           /\ a \in 0..(N - 1) => a % N = a
           /\ a + N \in 0..(N - 1) => a % N = a + N
  OBVIOUS

LEMMA StrtolFacts ==
    ASSUME NEW n \in Int
    PROVE  /\ Strtol(n) \in Int
           /\ n \in IntRange \/ n \in UIntRange => Strtol(n) = n
<1> DEFINE H == 2^(IntBits - 1)  N == 2^IntBits  L == 2^(LongBits - 1)
<1>1. H \in Nat /\ N \in Nat /\ L \in Nat /\ N = 2 * H /\ N <= L
  BY PowerAssumption
<1>2. IntRange = (-H)..(H - 1) /\ UIntRange = 0..(N - 1)
  BY DEF IntRange, UIntRange
<1>3. Strtol(n) = IF n < -L THEN -L ELSE IF n >= L THEN L - 1 ELSE n
  BY DEF Strtol
<1> HIDE DEF H, N, L
<1> QED
  BY <1>1, <1>2, <1>3

LEMMA SignedFacts ==
    ASSUME NEW n \in Int
    PROVE  /\ Signed(n) \in Int /\ Unsigned(n) \in UIntRange
           /\ n \in IntRange => Signed(n) = n
           /\ n \in UIntRange => Unsigned(Signed(n)) = n
<1> DEFINE H == 2^(IntBits - 1)  N == 2^IntBits  m == n % N
<1>1. H \in Nat /\ N \in Nat \ {0} /\ N = 2 * H
  BY PowerAssumption
<1>2. IntRange = (-H)..(H - 1) /\ UIntRange = 0..(N - 1)
  BY DEF IntRange, UIntRange
<1>3. Signed(n) = (IF m >= H THEN m - N ELSE m) /\ Unsigned(n) = m
  BY DEF Signed, Unsigned
<1>4. \A a \in Int : Unsigned(a) = a % N
  BY DEF Unsigned
<1> HIDE DEF H, N
<1>5. m \in 0..(N - 1) /\ (n \in 0..(N - 1) => m = n) /\ (n + N \in 0..(N - 1) => m = n + N)
  BY <1>1, ModFacts
<1> HIDE DEF m
<1>6. Signed(n) \in Int /\ Unsigned(n) \in UIntRange
  BY <1>1, <1>2, <1>3, <1>5
<1>7. n \in IntRange => Signed(n) = n
  BY <1>1, <1>2, <1>3, <1>5
<1>8. ASSUME n \in UIntRange PROVE Unsigned(Signed(n)) = n
  <2>1. n \in 0..(N - 1) /\ m = n
    BY <1>2, <1>5, <1>8
  <2>2. CASE n >= H
    <3>1. Signed(n) = n - N /\ n - N \in Int /\ (n - N) + N \in 0..(N - 1)
      BY <1>1, <1>3, <2>1, <2>2
    <3>2. (n - N) % N = (n - N) + N
      BY <1>1, <3>1, ModFacts
    <3> QED
      BY <1>1, <1>4, <2>1, <3>1, <3>2
  <2>3. CASE n < H
    <3>1. Signed(n) = n
      BY <1>1, <1>3, <2>1, <2>3
    <3>2. n % N = n
      BY <1>1, <2>1, ModFacts
    <3> QED
      BY <1>4, <3>1, <3>2
  <2> QED
    BY <1>1, <2>1, <2>2, <2>3
<1> QED
  BY <1>6, <1>7, <1>8

(* What nw-sup may read, whatever the text. *)
LEMMA ReadNumber ==
    ASSUME NEW t \in NumText, NEW d \in Int
    PROVE  /\ Atoi(t, d) \in Int /\ UAtoi(t, d) \in UIntRange
           /\ U64(t) \in Int /\ Grace(t) \in Int
           /\ GraceOk(t) => Grace(t) \in (0..GraceMax) \union {0}
<1>1. t.v \in Int /\ t.k \in {"absent", "empty", "num", "trail"}
  BY DEF NumText
<1>2. Signed(Strtol(t.v)) \in Int
  BY <1>1, StrtolFacts, SignedFacts
<1>3. Atoi(t, d) \in Int
  BY <1>1, <1>2 DEF Atoi
<1>4. UAtoi(t, d) \in UIntRange
  BY <1>3, SignedFacts DEF UAtoi
<1> DEFINE W == 2^LongBits
<1>5. W \in Nat \ {0}
  BY PowerAssumption
<1>6. /\ Grace(t) = (IF t.k = "absent" THEN 0 ELSE t.v % W)
      /\ GraceOk(t) => t.k = "absent" \/ t.v % W <= GraceMax
  BY DEF Grace, GraceOk
<1>7. U64(t) \in Int
  BY <1>1 DEF U64
<1> HIDE DEF W
<1>8. t.v % W \in 0..(W - 1)
  BY <1>1, <1>5, ModFacts
<1>9. GraceMax \in Int
  BY CheckAssumption
<1>10. Grace(t) \in Int
  BY <1>5, <1>6, <1>8
<1>11. GraceOk(t) => Grace(t) \in (0..GraceMax) \union {0}
  <2>1. CASE t.k = "absent"
    BY <1>6, <2>1
  <2>2. CASE t.k # "absent"
    <3> DEFINE g == t.v % W
    <3>1. Grace(t) = g
      BY <1>6, <2>2
    <3>2. GraceOk(t) => g <= GraceMax
      BY <1>6, <2>2
    <3>3. g \in 0..(W - 1)
      BY <1>8
    <3> HIDE DEF g
    <3>4. g <= GraceMax => g \in 0..GraceMax
      BY <1>5, <1>9, <3>3
    <3> QED
      BY <3>1, <3>2, <3>4
  <2> QED
    BY <2>1, <2>2
<1> QED
  BY <1>3, <1>4, <1>7, <1>10, <1>11

(* A number printed by nw-spawn is read back as it was. *)
LEMMA ReadsBack ==
    ASSUME NEW n \in Int, NEW d \in Int
    PROVE  /\ n \in IntRange => Atoi(Num(n), d) = n
           /\ n \in UIntRange => UAtoi(Num(n), d) = n
           /\ n \in ULongRange => U64(Num(n)) = n /\ U64Ok(Num(n))
           /\ n \in 0..GraceMax => Grace(Num(n)) = n /\ GraceOk(Num(n))
<1>1. Num(n).k = "num" /\ Num(n).v = n
  BY DEF Num
<1>2. Atoi(Num(n), d) = Signed(Strtol(n))
  BY <1>1 DEF Atoi
<1>3. n \in IntRange => Atoi(Num(n), d) = n
  BY <1>2, StrtolFacts, SignedFacts
<1>4. n \in UIntRange => UAtoi(Num(n), d) = n
  BY <1>2, StrtolFacts, SignedFacts DEF UAtoi
<1>5. n \in ULongRange => U64(Num(n)) = n /\ U64Ok(Num(n))
  <2>1. 2^LongBits \in Nat
    BY PowerAssumption
  <2> QED
    BY <1>1, <2>1 DEF ULongRange, U64, U64Ok
<1>6. ASSUME n \in 0..GraceMax PROVE Grace(Num(n)) = n /\ GraceOk(Num(n))
  <2> DEFINE H == 2^(IntBits - 1)  N == 2^IntBits  L == 2^(LongBits - 1)  W == 2^LongBits
  <2>1. /\ H \in Nat \ {0} /\ N \in Nat /\ L \in Nat /\ W \in Nat \ {0}
        /\ N = 2 * H /\ N <= L /\ W = 2 * L
    BY PowerAssumption
  <2>2. GraceMax \in Int /\ GraceMax <= H - 1
    <3>1. GraceMax \in Int /\ GraceMax \in IntRange
      BY CheckAssumption, WidthAssumption
    <3> QED
      BY <2>1, <3>1 DEF IntRange
  <2>3. Grace(Num(n)) = n % W
    BY <1>1 DEF Grace
  <2>4. n < W /\ -n < W /\ n % W <= GraceMax => GraceOk(Num(n))
    BY <1>1 DEF GraceOk
  <2> HIDE DEF H, N, L, W
  <2>5. n \in 0..(W - 1) /\ n < W /\ -n < W /\ n <= GraceMax
    BY <1>6, <2>1, <2>2
  <2>6. n % W = n
    BY <2>1, <2>5, ModFacts
  <2> QED
    BY <2>3, <2>4, <2>5, <2>6
<1> QED
  BY <1>3, <1>4, <1>5, <1>6

----------------------------------------------------------------------------
(* nw-sup's rules *)

(* What the rules on single values say of an environment e read as x, apart *)
(* from the capabilities the kernel knows, and the rules between fields.    *)
ValuesFit(e, x) ==
  /\ x.lock <= 1 /\ x.stop <= StopsigMax /\ x.policy = 0
  /\ GraceOk(e.NW_GRACE_PERIOD) /\ U64Ok(e.NW_CAPABILITIES) /\ U64Ok(e.NW_LAYER_BYTES)
  /\ U64Ok(e.NW_CPU_MASK) /\ U64Ok(e.NW_MEM_HIGH) /\ U64Ok(e.NW_MEM_MAX)
  /\ x.brick = <<>> \/ Len(x.brick) = HexLen
  /\ \A k \in DOMAIN x.brick : x.brick[k] \in 0..15
  /\ Len(x.layer) < NameLen
  /\ \A k \in DOMAIN x.layer : x.layer[k] \in NameChars
  /\ x.weight <= CpuWeightMax /\ InRange(x.nice, NiceMin, NiceMax)
  /\ x.sched <= SchedMax

PastLast(x, last) == last # LongBits - 1 /\ x.caps \div 2^(last + 1) # 0

FieldsAgree(e, x) ==
  /\ x.mem_high = 0 \/ x.mem_max = 0 \/ x.mem_high < x.mem_max
  /\ x.nice = 0 \/ x.sched = 1
  /\ InRange(x.oom, OomMin, OomMax)
  /\ x.brick = <<>> => ~Landlock(x.lids) /\ x.layer = <<>>
  /\ x.brick # <<>> => NewNs(x.lids) /\ x.layer # <<>>
  /\ x.layer = <<>> => x.layer_bytes = 0
  /\ x.nbinds >= 0 /\ x.nbinds <= MaxBinds
  /\ \A k \in 1..x.nbinds : k \in DOMAIN e.NW_BIND /\ e.NW_BIND[k] # <<>>

IsRead(x) ==
  /\ x.lock \in Int /\ x.stop \in Int /\ x.weight \in Int /\ x.nice \in Int
  /\ x.sched \in Int /\ x.oom \in Int /\ x.nbinds \in Int /\ x.mem_high \in Int
  /\ x.mem_max \in Int /\ x.caps \in Int /\ Len(x.layer) \in Nat

LEMMA ValueTable ==
    ASSUME NEW e, NEW x, IsRead(x), NEW last
    PROVE  LET r == ValueRules(e, x, last)
           IN  /\ r \in Seq(Codes \X BOOLEAN) /\ Len(r) = 18
               /\ r[6] = <<"cap_last_cap", last = -1>>
               /\ r[7] = <<"past-cap_last_cap", PastLast(x, last)>>
               /\ (\A k \in 1..18 : k # 6 /\ k # 7 => ~r[k][2]) <=> ValuesFit(e, x)
<1> DEFINE p1 == (x.lock > 1)
           p2 == (x.stop > StopsigMax)
           p3 == (~GraceOk(e.NW_GRACE_PERIOD))
           p4 == (x.policy # 0)
           p5 == (~U64Ok(e.NW_CAPABILITIES))
           p6 == (last = -1)
           p7 == (last # LongBits - 1 /\ x.caps \div 2^(last + 1) # 0)
           p8 == (x.brick # <<>> /\ Len(x.brick) # HexLen)
           p9 == (\E k \in DOMAIN x.brick : x.brick[k] \notin 0..15)
           p10 == (Len(x.layer) >= NameLen)
           p11 == (\E k \in DOMAIN x.layer : x.layer[k] \notin NameChars)
           p12 == (~U64Ok(e.NW_LAYER_BYTES))
           p13 == (~U64Ok(e.NW_CPU_MASK))
           p14 == (~U64Ok(e.NW_MEM_HIGH))
           p15 == (~U64Ok(e.NW_MEM_MAX))
           p16 == (x.weight > CpuWeightMax)
           p17 == (x.nice < NiceMin \/ x.nice > NiceMax)
           p18 == (x.sched > SchedMax)
           r == ValueRules(e, x, last)
<1>1. /\ p1 \in BOOLEAN /\ p2 \in BOOLEAN /\ p3 \in BOOLEAN /\ p4 \in BOOLEAN
      /\ p5 \in BOOLEAN /\ p6 \in BOOLEAN /\ p7 \in BOOLEAN /\ p8 \in BOOLEAN
      /\ p9 \in BOOLEAN /\ p10 \in BOOLEAN /\ p11 \in BOOLEAN
      /\ p12 \in BOOLEAN /\ p13 \in BOOLEAN /\ p14 \in BOOLEAN
      /\ p15 \in BOOLEAN /\ p16 \in BOOLEAN /\ p17 \in BOOLEAN
      /\ p18 \in BOOLEAN
  OBVIOUS
<1>2. r = << <<"lock-value", p1>>, <<"stop-signal-value", p2>>,
          <<"grace-period", p3>>, <<"supervisor-death-policy", p4>>,
          <<"capabilities-not-a-number", p5>>, <<"cap_last_cap", p6>>,
          <<"past-cap_last_cap", p7>>, <<"brick-hash-length", p8>>,
          <<"brick-hash-not-hex", p9>>, <<"layer-id-length", p10>>,
          <<"layer-id-not-a-name", p11>>, <<"layer-bytes", p12>>,
          <<"cpu-mask", p13>>, <<"mem-high", p14>>, <<"mem-max", p15>>,
          <<"cpu-weight-range", p16>>, <<"nice-range", p17>>,
          <<"sched-policy-value", p18>> >>
  BY DEF ValueRules
<1>3. /\ "lock-value" \in Codes /\ "stop-signal-value" \in Codes
      /\ "grace-period" \in Codes /\ "supervisor-death-policy" \in Codes
      /\ "capabilities-not-a-number" \in Codes /\ "cap_last_cap" \in Codes
      /\ "past-cap_last_cap" \in Codes /\ "brick-hash-length" \in Codes
      /\ "brick-hash-not-hex" \in Codes /\ "layer-id-length" \in Codes
      /\ "layer-id-not-a-name" \in Codes /\ "layer-bytes" \in Codes
      /\ "cpu-mask" \in Codes /\ "mem-high" \in Codes /\ "mem-max" \in Codes
      /\ "cpu-weight-range" \in Codes /\ "nice-range" \in Codes
      /\ "sched-policy-value" \in Codes
  BY DEF Codes
<1> HIDE DEF p1, p2, p3, p4, p5, p6, p7, p8, p9, p10, p11, p12, p13, p14, p15,
         p16, p17, p18, r
<1>4. r \in Seq(Codes \X BOOLEAN) /\ Len(r) = 18
  BY <1>1, <1>2, <1>3
<1>5. /\ r[1][2] = p1 /\ r[2][2] = p2 /\ r[3][2] = p3 /\ r[4][2] = p4
      /\ r[5][2] = p5 /\ r[6][2] = p6 /\ r[7][2] = p7 /\ r[8][2] = p8
      /\ r[9][2] = p9 /\ r[10][2] = p10 /\ r[11][2] = p11 /\ r[12][2] = p12
      /\ r[13][2] = p13 /\ r[14][2] = p14 /\ r[15][2] = p15 /\ r[16][2] = p16
      /\ r[17][2] = p17 /\ r[18][2] = p18
  BY <1>2
<1>6. \A k \in 1..18 : k = 1 \/ k = 2 \/ k = 3 \/ k = 4 \/ k = 5 \/ k = 6
      \/ k = 7 \/ k = 8 \/ k = 9 \/ k = 10 \/ k = 11 \/ k = 12 \/ k = 13
      \/ k = 14 \/ k = 15 \/ k = 16 \/ k = 17 \/ k = 18
  OBVIOUS
<1>7. (\A k \in 1..18 : k # 6 /\ k # 7 => ~r[k][2]) <=>
        ~p1 /\ ~p2 /\ ~p3 /\ ~p4 /\ ~p5 /\ ~p8 /\ ~p9 /\ ~p10 /\ ~p11 /\ ~p12
        /\ ~p13 /\ ~p14 /\ ~p15 /\ ~p16 /\ ~p17 /\ ~p18
  BY <1>5, <1>6
<1>8. r[6] = <<"cap_last_cap", p6>> /\ r[7] = <<"past-cap_last_cap", p7>>
  BY <1>2
<1> USE DEF r
<1>9. /\ ~p1 <=> x.lock <= 1
      /\ ~p2 <=> x.stop <= StopsigMax
      /\ ~p10 <=> Len(x.layer) < NameLen
      /\ ~p16 <=> x.weight <= CpuWeightMax
      /\ ~p17 <=> InRange(x.nice, NiceMin, NiceMax)
      /\ ~p18 <=> x.sched <= SchedMax
  <2>1. /\ StopsigMax \in Int /\ CpuWeightMax \in Int /\ SchedMax \in Int
        /\ NameLen \in Int /\ NiceMin \in Int /\ NiceMax \in Int
    BY CheckAssumption
  <2>2. /\ x.lock \in Int /\ x.stop \in Int /\ x.weight \in Int /\ x.sched \in Int
        /\ x.nice \in Int /\ Len(x.layer) \in Int
    BY DEF IsRead
  <2>3. (~p1 <=> x.lock <= 1) /\ (~p2 <=> x.stop <= StopsigMax)
    BY <2>1, <2>2 DEF p1, p2
  <2>4. (~p16 <=> x.weight <= CpuWeightMax) /\ (~p18 <=> x.sched <= SchedMax)
    BY <2>1, <2>2 DEF p16, p18
  <2>5. ~p10 <=> Len(x.layer) < NameLen
    BY <2>1, <2>2 DEF p10
  <2>6. ~p17 <=> InRange(x.nice, NiceMin, NiceMax)
    BY <2>1, <2>2 DEF p17, InRange
  <2> QED
    BY <2>3, <2>4, <2>5, <2>6
<1>10. /\ ~p3 <=> GraceOk(e.NW_GRACE_PERIOD)
       /\ ~p4 <=> x.policy = 0
       /\ ~p5 <=> U64Ok(e.NW_CAPABILITIES)
       /\ ~p8 <=> (x.brick = <<>> \/ Len(x.brick) = HexLen)
       /\ ~p9 <=> \A k \in DOMAIN x.brick : x.brick[k] \in 0..15
       /\ ~p11 <=> \A k \in DOMAIN x.layer : x.layer[k] \in NameChars
       /\ ~p12 <=> U64Ok(e.NW_LAYER_BYTES)
       /\ ~p13 <=> U64Ok(e.NW_CPU_MASK)
       /\ ~p14 <=> U64Ok(e.NW_MEM_HIGH)
       /\ ~p15 <=> U64Ok(e.NW_MEM_MAX)
  BY Zenon DEF p3, p4, p5, p8, p9, p11, p12, p13, p14, p15
<1>11. p6 = (last = -1) /\ p7 = PastLast(x, last)
  BY DEF p6, p7, PastLast
<1>12. (\A k \in 1..18 : k # 6 /\ k # 7 => ~r[k][2]) <=> ValuesFit(e, x)
  BY <1>7, <1>9, <1>10, Zenon DEF ValuesFit
<1> QED
  BY <1>4, <1>8, <1>11, <1>12

LEMMA CrossTable ==
    ASSUME NEW e, NEW x, IsRead(x)
    PROVE  LET r == CrossRules(e, x)
           IN  /\ r \in Seq(Codes \X BOOLEAN) /\ Len(r) = 10
               /\ Unbroken(r) <=> FieldsAgree(e, x)
<1> DEFINE p1 == (x.mem_high # 0 /\ x.mem_max # 0 /\ x.mem_high >= x.mem_max)
           p2 == (x.nice # 0 /\ x.sched # 1)
           p3 == (x.oom < OomMin \/ x.oom > OomMax)
           p4 == (Landlock(x.lids) /\ x.brick = <<>>)
           p5 == (x.brick # <<>> /\ x.layer = <<>>)
           p6 == (x.brick = <<>> /\ x.layer # <<>>)
           p7 == (x.layer_bytes # 0 /\ x.layer = <<>>)
           p8 == (x.brick # <<>> /\ ~NewNs(x.lids))
           p9 == (x.nbinds < 0 \/ x.nbinds > MaxBinds)
           p10 == (\E k \in 1..x.nbinds : k \notin DOMAIN e.NW_BIND \/ e.NW_BIND[k] = <<>>)
           r == CrossRules(e, x)
<1>1. /\ p1 \in BOOLEAN /\ p2 \in BOOLEAN /\ p3 \in BOOLEAN /\ p4 \in BOOLEAN
      /\ p5 \in BOOLEAN /\ p6 \in BOOLEAN /\ p7 \in BOOLEAN /\ p8 \in BOOLEAN
      /\ p9 \in BOOLEAN /\ p10 \in BOOLEAN
  OBVIOUS
<1>2. r = << <<"mem-high/max-order", p1>>, <<"nice-without-sched=other", p2>>,
          <<"oom-score-adj-range", p3>>, <<"landlock-without-brick", p4>>,
          <<"brick-without-layer", p5>>, <<"layer-without-brick", p6>>,
          <<"layer-bytes-without-layer", p7>>, <<"brick-without-newns", p8>>,
          <<"nbinds", p9>>, <<"missing-bind", p10>> >>
  BY DEF CrossRules
<1>3. /\ "mem-high/max-order" \in Codes
      /\ "nice-without-sched=other" \in Codes
      /\ "oom-score-adj-range" \in Codes /\ "landlock-without-brick" \in Codes
      /\ "brick-without-layer" \in Codes /\ "layer-without-brick" \in Codes
      /\ "layer-bytes-without-layer" \in Codes
      /\ "brick-without-newns" \in Codes /\ "nbinds" \in Codes
      /\ "missing-bind" \in Codes
  BY DEF Codes
<1> HIDE DEF p1, p2, p3, p4, p5, p6, p7, p8, p9, p10, r
<1>4. r \in Seq(Codes \X BOOLEAN) /\ Len(r) = 10
  BY <1>1, <1>2, <1>3
<1>5. /\ r[1][2] = p1 /\ r[2][2] = p2 /\ r[3][2] = p3 /\ r[4][2] = p4
      /\ r[5][2] = p5 /\ r[6][2] = p6 /\ r[7][2] = p7 /\ r[8][2] = p8
      /\ r[9][2] = p9 /\ r[10][2] = p10
  BY <1>2
<1>6. \A k \in 1..10 : k = 1 \/ k = 2 \/ k = 3 \/ k = 4 \/ k = 5 \/ k = 6
      \/ k = 7 \/ k = 8 \/ k = 9 \/ k = 10
  OBVIOUS
<1>7. Unbroken(r) <=>
        ~p1 /\ ~p2 /\ ~p3 /\ ~p4 /\ ~p5 /\ ~p6 /\ ~p7 /\ ~p8 /\ ~p9 /\ ~p10
  BY <1>4, <1>5, <1>6 DEF Unbroken
<1> USE DEF r
<1>8. /\ ~p1 <=> (x.mem_high = 0 \/ x.mem_max = 0 \/ x.mem_high < x.mem_max)
      /\ ~p3 <=> InRange(x.oom, OomMin, OomMax)
      /\ ~p9 <=> x.nbinds >= 0 /\ x.nbinds <= MaxBinds
  <2>1. OomMin \in Int /\ OomMax \in Int /\ MaxBinds \in Int
    BY CheckAssumption
  <2>2. x.mem_high \in Int /\ x.mem_max \in Int /\ x.oom \in Int /\ x.nbinds \in Int
    BY DEF IsRead
  <2>3. ~p1 <=> (x.mem_high = 0 \/ x.mem_max = 0 \/ x.mem_high < x.mem_max)
    BY <2>2 DEF p1
  <2>4. ~p3 <=> InRange(x.oom, OomMin, OomMax)
    BY <2>1, <2>2 DEF p3, InRange
  <2>5. ~p9 <=> x.nbinds >= 0 /\ x.nbinds <= MaxBinds
    BY <2>1, <2>2 DEF p9
  <2> QED
    BY <2>3, <2>4, <2>5
<1>9. /\ ~p2 <=> (x.nice = 0 \/ x.sched = 1)
      /\ ~p4 /\ ~p6 <=> (x.brick = <<>> => ~Landlock(x.lids) /\ x.layer = <<>>)
      /\ ~p5 /\ ~p8 <=> (x.brick # <<>> => NewNs(x.lids) /\ x.layer # <<>>)
      /\ ~p7 <=> (x.layer = <<>> => x.layer_bytes = 0)
      /\ ~p10 <=> \A k \in 1..x.nbinds : k \in DOMAIN e.NW_BIND /\ e.NW_BIND[k] # <<>>
  BY Zenon DEF p2, p4, p5, p6, p7, p8, p10
<1>10. Unbroken(r) <=> FieldsAgree(e, x)
  BY <1>7, <1>8, <1>9, Zenon DEF FieldsAgree
<1> QED
  BY <1>4, <1>10

(* main() goes on exactly when every rule holds and the kernel knows the   *)
(* capabilities; when only the kernel stands in the way, it says so.       *)
LEMMA SupRules ==
    ASSUME NEW e, NEW x, IsRead(x), NEW last
    PROVE  LET c == First(ValueRules(e, x, last) \o CrossRules(e, x))
           IN  /\ c \in Codes \union {"OK"}
               /\ c = "OK" <=> /\ ValuesFit(e, x) /\ FieldsAgree(e, x)
                               /\ last # -1 /\ ~PastLast(x, last)
               /\ ValuesFit(e, x) /\ FieldsAgree(e, x) =>
                    \/ c \in {"OK", "cap_last_cap"}
                    \/ c = "past-cap_last_cap" /\ PastLast(x, last)
<1> DEFINE r == ValueRules(e, x, last)
           s == CrossRules(e, x)
<1>1. /\ r \in Seq(Codes \X BOOLEAN) /\ Len(r) = 18
      /\ r[6] = <<"cap_last_cap", last = -1>>
      /\ r[7] = <<"past-cap_last_cap", PastLast(x, last)>>
      /\ (\A k \in 1..18 : k # 6 /\ k # 7 => ~r[k][2]) <=> ValuesFit(e, x)
  BY ValueTable
<1>2. s \in Seq(Codes \X BOOLEAN) /\ Len(s) = 10 /\ (Unbroken(s) <=> FieldsAgree(e, x))
  BY CrossTable
<1> HIDE DEF r, s
<1>3. /\ r \o s \in Seq(Codes \X BOOLEAN)
      /\ Unbroken(r \o s) <=> Unbroken(r) /\ Unbroken(s)
  BY <1>1, <1>2, UnbrokenConcat
<1>4. /\ First(r \o s) = "OK" <=> Unbroken(r \o s)
      /\ First(r \o s) \in Codes \union {"OK"}
  BY <1>3, FirstExact
<1>5. Unbroken(r) <=> ValuesFit(e, x) /\ last # -1 /\ ~PastLast(x, last)
  <2>1. r[6][2] = (last = -1) /\ r[7][2] = PastLast(x, last)
    BY <1>1
  <2>2. Unbroken(r) <=> \A k \in 1..18 : ~r[k][2]
    BY <1>1 DEF Unbroken
  <2>3. 6 \in 1..18 /\ 7 \in 1..18
    OBVIOUS
  <2> QED
    BY <1>1, <2>1, <2>2, <2>3
<1>6. ASSUME ValuesFit(e, x), FieldsAgree(e, x), First(r \o s) # "OK"
      PROVE  \/ First(r \o s) = "cap_last_cap"
             \/ First(r \o s) = "past-cap_last_cap" /\ PastLast(x, last)
  <2>1. /\ Len(r \o s) = 28
        /\ \A k \in 1..18 : (r \o s)[k] = r[k]
        /\ \A k \in 19..28 : k - 18 \in 1..10 /\ (r \o s)[k] = s[k - 18]
    <3>1. r \in Seq(Codes \X BOOLEAN) /\ s \in Seq(Codes \X BOOLEAN)
      BY <1>1, <1>2
    <3>2. Len(r) = 18 /\ Len(s) = 10
      BY <1>1, <1>2
    <3> DEFINE t == r \o s
    <3>3. /\ Len(t) = Len(r) + Len(s)
          /\ \A k \in 1..(Len(r) + Len(s)) :
               t[k] = IF k <= Len(r) THEN r[k] ELSE s[k - Len(r)]
      BY <3>1, ConcatProperties
    <3> HIDE DEF t
    <3>4. Len(t) = 28 /\ \A k \in 1..28 : t[k] = IF k <= 18 THEN r[k] ELSE s[k - 18]
      BY <3>2, <3>3
    <3>5. /\ \A k \in 1..18 : t[k] = r[k]
          /\ \A k \in 19..28 : t[k] = s[k - 18]
      BY <3>4
    <3>6. \A k \in 19..28 : k - 18 \in 1..10
      OBVIOUS
    <3> QED
      BY <3>4, <3>5, <3>6 DEF t
  <2>2. PICK k \in 1..Len(r \o s) : (r \o s)[k][2]
    BY <1>4, <1>6 DEF Unbroken
  <2>3. Len(r \o s) \in Nat
    BY <2>1
  <2>4. PICK m \in 1..Len(r \o s) :
          (r \o s)[m][2] /\ First(r \o s) = (r \o s)[m][1]
    BY <2>2, <2>3, FirstBroken
  <2>5. \A q \in 1..10 : ~s[q][2]
    BY <1>2, <1>6 DEF Unbroken
  <2>6. m \in 1..18
    <3>1. m \in 1..18 \/ m \in 19..28
      BY <2>1
    <3> QED
      BY <2>1, <2>4, <2>5, <3>1
  <2>7. m = 6 \/ m = 7
    BY <1>1, <1>6, <2>1, <2>4, <2>6
  <2>8. (r \o s)[m] = r[m]
    BY <2>1, <2>6
  <2>9. CASE m = 6
    BY <1>1, <2>4, <2>8, <2>9
  <2>10. CASE m = 7
    BY <1>1, <2>4, <2>8, <2>10
  <2> QED
    BY <2>7, <2>9, <2>10
<1>7. First(r \o s) = "OK" <=> /\ ValuesFit(e, x) /\ FieldsAgree(e, x)
                               /\ last # -1 /\ ~PastLast(x, last)
  BY <1>2, <1>3, <1>4, <1>5
<1>8. ValuesFit(e, x) /\ FieldsAgree(e, x) =>
        \/ First(r \o s) \in {"OK", "cap_last_cap"}
        \/ First(r \o s) = "past-cap_last_cap" /\ PastLast(x, last)
  BY <1>6
<1> QED
  BY <1>4, <1>7, <1>8 DEF r, s

----------------------------------------------------------------------------
(* nw-sup: whatever the environment was *)

LEMMA EnvFields ==
    ASSUME NEW e \in EnvType
    PROVE  /\ e.NW_LIDS \in NumText /\ e.NW_BUDGET \in NumText /\ e.NW_KIND \in NumText
           /\ e.NW_LOCK \in NumText /\ e.NW_STOP_SIGNAL \in NumText
           /\ e.NW_GRACE_PERIOD \in NumText /\ e.NW_NOFILE \in NumText
           /\ e.NW_CAPABILITIES \in NumText /\ e.NW_SUPERVISOR_DEATH_POLICY \in NumText
           /\ e.NW_BRICK \in Seq(Int) /\ e.NW_LAYER \in Seq(Chars)
           /\ e.NW_LAYER_BYTES \in NumText /\ e.NW_CPU_MASK \in NumText
           /\ e.NW_MEM_HIGH \in NumText /\ e.NW_MEM_MAX \in NumText
           /\ e.NW_CPU_WEIGHT \in NumText /\ e.NW_NICE \in NumText
           /\ e.NW_SCHED_POLICY \in NumText /\ e.NW_TASK_CAP \in NumText
           /\ e.NW_OOM_SCORE_ADJ \in NumText /\ e.NW_NBINDS \in NumText
           /\ e.NW_BIND \in Seq(Seq(Chars))
  BY DEF EnvType

LEMMA ReadFields ==
    ASSUME NEW e
    PROVE  LET x == Read(e)
           IN  /\ x.lids = UAtoi(e.NW_LIDS, 0) /\ x.budget = UAtoi(e.NW_BUDGET, 0)
               /\ x.kind = UAtoi(e.NW_KIND, 1) /\ x.lock = UAtoi(e.NW_LOCK, 0)
               /\ x.stop = UAtoi(e.NW_STOP_SIGNAL, 0) /\ x.grace = Grace(e.NW_GRACE_PERIOD)
               /\ x.policy = UAtoi(e.NW_SUPERVISOR_DEATH_POLICY, 0)
               /\ x.nofile = UAtoi(e.NW_NOFILE, 0) /\ x.caps = U64(e.NW_CAPABILITIES)
               /\ x.brick = e.NW_BRICK /\ x.layer = e.NW_LAYER
               /\ x.layer_bytes = U64(e.NW_LAYER_BYTES) /\ x.cpu_mask = U64(e.NW_CPU_MASK)
               /\ x.mem_high = U64(e.NW_MEM_HIGH) /\ x.mem_max = U64(e.NW_MEM_MAX)
               /\ x.weight = UAtoi(e.NW_CPU_WEIGHT, 0) /\ x.nice = Atoi(e.NW_NICE, 0)
               /\ x.sched = UAtoi(e.NW_SCHED_POLICY, 0)
               /\ x.task_cap = UAtoi(e.NW_TASK_CAP, 0)
               /\ x.oom = Atoi(e.NW_OOM_SCORE_ADJ, 0)
               /\ x.nbinds = IF e.NW_BRICK = <<>> THEN 0 ELSE Atoi(e.NW_NBINDS, 0)
  BY DEF Read

LEMMA ReadTyped ==
    ASSUME NEW e \in EnvType
    PROVE  IsRead(Read(e))
<1> DEFINE x == Read(e)
<1>1. \A t \in NumText : /\ Atoi(t, 0) \in Int /\ UAtoi(t, 0) \in UIntRange
                         /\ U64(t) \in Int
  BY ReadNumber
<1>2. UIntRange \in SUBSET Int
  BY DEF UIntRange
<1>3. Len(x.layer) \in Nat
  BY EnvFields, ReadFields
<1>4. /\ x.lock \in Int /\ x.stop \in Int /\ x.weight \in Int /\ x.sched \in Int
  BY <1>1, <1>2, EnvFields, ReadFields
<1>5. /\ x.nice \in Int /\ x.oom \in Int /\ x.nbinds \in Int
  <2>1. /\ e.NW_NICE \in NumText /\ e.NW_OOM_SCORE_ADJ \in NumText /\ e.NW_NBINDS \in NumText
    BY EnvFields
  <2>2. /\ x.nice = Atoi(e.NW_NICE, 0) /\ x.oom = Atoi(e.NW_OOM_SCORE_ADJ, 0)
        /\ x.nbinds = IF e.NW_BRICK = <<>> THEN 0 ELSE Atoi(e.NW_NBINDS, 0)
    BY ReadFields
  <2> HIDE DEF x
  <2>3. Atoi(e.NW_NBINDS, 0) \in Int
    BY <1>1, <2>1
  <2>4. x.nbinds \in Int
    BY <2>2, <2>3
  <2> QED
    BY <1>1, <2>1, <2>2, <2>4
<1>6. /\ x.mem_high \in Int /\ x.mem_max \in Int /\ x.caps \in Int
  BY <1>1, EnvFields, ReadFields
<1> QED
  BY <1>3, <1>4, <1>5, <1>6 DEF IsRead

Accepted(e) ==
  [Read(e) EXCEPT !.signal = SignalOf(Read(e).stop),
                  !.binds = SubSeq(e.NW_BIND, 1, Read(e).nbinds)]

LEMMA AcceptedFields ==
    ASSUME NEW e
    PROVE  LET x == Read(e)
               y == Accepted(e)
           IN  /\ y.lids = x.lids /\ y.budget = x.budget /\ y.kind = x.kind
               /\ y.lock = x.lock /\ y.grace = x.grace /\ y.nofile = x.nofile
               /\ y.caps = x.caps /\ y.brick = x.brick /\ y.layer = x.layer
               /\ y.layer_bytes = x.layer_bytes /\ y.cpu_mask = x.cpu_mask
               /\ y.mem_high = x.mem_high /\ y.mem_max = x.mem_max
               /\ y.weight = x.weight /\ y.nice = x.nice /\ y.sched = x.sched
               /\ y.task_cap = x.task_cap /\ y.oom = x.oom /\ y.nbinds = x.nbinds
               /\ y.signal = SignalOf(x.stop)
               /\ y.binds = SubSeq(e.NW_BIND, 1, x.nbinds)
<1> DEFINE x == Read(e)
           n == x.nbinds
           Fs == {"lids", "budget", "kind", "lock", "grace", "nofile", "caps",
           "brick", "layer", "layer_bytes", "cpu_mask", "mem_high",
           "mem_max", "weight", "nice", "sched", "task_cap", "oom", "nbinds",
           "signal", "binds"}
<1>1. Fs \subseteq DOMAIN x
  BY DEF Read
<1>2. Accepted(e) = [x EXCEPT !.signal = SignalOf(x.stop),
                              !.binds = SubSeq(e.NW_BIND, 1, n)]
  BY DEF Accepted
<1> HIDE DEF x, n
<1>3. \A f \in Fs : f # "signal" /\ f # "binds" => Accepted(e)[f] = x[f]
  BY <1>1, <1>2
<1>4. /\ Accepted(e).signal = SignalOf(x.stop)
      /\ Accepted(e).binds = SubSeq(e.NW_BIND, 1, n)
  BY <1>1, <1>2
<1> QED
  BY <1>3, <1>4 DEF x, n

LEMMA ValidateOutcome ==
    ASSUME Validate, env \in EnvType
    PROVE  LET x == Read(env)
           IN  /\ cap_last' \in CapLasts
               /\ \/ /\ stage' \in Codes
                     /\ ValuesFit(env, x) /\ FieldsAgree(env, x) =>
                          \/ stage' = "cap_last_cap"
                          \/ stage' = "past-cap_last_cap" /\ PastLast(x, cap_last')
                  \/ /\ stage' = "up" /\ eff' = Accepted(env)
                     /\ ValuesFit(env, x) /\ FieldsAgree(env, x)
<1> DEFINE x == Read(env)
           c == First(ValueRules(env, x, cap_last') \o CrossRules(env, x))
<1>1. IsRead(x)
  BY ReadTyped
<1>2. /\ cap_last' \in CapLasts
      /\ \/ c # "OK" /\ stage' = c
         \/ c = "OK" /\ stage' = "up" /\ eff' = Accepted(env)
  BY DEF Validate, Accepted
<1> HIDE DEF x
<1>3. /\ c \in Codes \union {"OK"}
      /\ c = "OK" <=> /\ ValuesFit(env, x) /\ FieldsAgree(env, x)
                      /\ cap_last' # -1 /\ ~PastLast(x, cap_last')
      /\ ValuesFit(env, x) /\ FieldsAgree(env, x) =>
           \/ c \in {"OK", "cap_last_cap"}
           \/ c = "past-cap_last_cap" /\ PastLast(x, cap_last')
  BY <1>1, SupRules
<1> HIDE DEF c
<1>4. \/ /\ stage' \in Codes
         /\ ValuesFit(env, x) /\ FieldsAgree(env, x) =>
              \/ stage' = "cap_last_cap"
              \/ stage' = "past-cap_last_cap" /\ PastLast(x, cap_last')
      \/ /\ stage' = "up" /\ eff' = Accepted(env)
         /\ ValuesFit(env, x) /\ FieldsAgree(env, x)
  BY <1>2, <1>3
<1> QED
  BY <1>2, <1>4 DEF x

(* The unit that every rule has let through. *)
LEMMA Trustworthy ==
    ASSUME NEW e \in EnvType, ValuesFit(e, Read(e)), FieldsAgree(e, Read(e))
    PROVE  LET y == Accepted(e)
           IN  /\ y.brick # <<>> => NewNs(y.lids) /\ y.layer # <<>> /\ Len(y.brick) = HexLen
               /\ y.brick = <<>> => ~Landlock(y.lids) /\ y.layer = <<>> /\ y.layer_bytes = 0
               /\ y.grace \in 0..(2^(IntBits - 1) - 1)
               /\ InRange(y.nice, NiceMin, NiceMax) /\ InRange(y.oom, OomMin, OomMax)
               /\ y.nice # 0 => y.sched = 1
               /\ y.weight <= CpuWeightMax /\ y.sched <= SchedMax /\ y.lock <= 1
               /\ 0 \in {y.mem_high, y.mem_max} \/ y.mem_high < y.mem_max
               /\ Len(y.binds) = y.nbinds /\ \A k \in DOMAIN y.binds : y.binds[k] # <<>>
<1> DEFINE x == Read(e)
           y == Accepted(e)
<1>1. /\ y.lids = x.lids /\ y.lock = x.lock /\ y.grace = x.grace /\ y.brick = x.brick
      /\ y.layer = x.layer /\ y.layer_bytes = x.layer_bytes /\ y.mem_high = x.mem_high
      /\ y.mem_max = x.mem_max /\ y.weight = x.weight /\ y.nice = x.nice
      /\ y.sched = x.sched /\ y.oom = x.oom /\ y.nbinds = x.nbinds
      /\ y.binds = SubSeq(e.NW_BIND, 1, x.nbinds)
  BY AcceptedFields
<1>2. /\ e.NW_GRACE_PERIOD \in NumText /\ e.NW_BIND \in Seq(Seq(Chars))
      /\ x.grace = Grace(e.NW_GRACE_PERIOD)
  BY EnvFields, ReadFields
<1>3. ValuesFit(e, x) /\ FieldsAgree(e, x) /\ x.nbinds \in Int
  BY ReadTyped DEF IsRead
<1> HIDE DEF x, y
<1>4. y.grace \in 0..(2^(IntBits - 1) - 1)
  <2> DEFINE H == 2^(IntBits - 1)
  <2>1. H \in Nat \ {0}
    BY PowerAssumption
  <2>2. GraceMax \in (-H)..(H - 1)
    BY WidthAssumption DEF IntRange
  <2>3. Grace(e.NW_GRACE_PERIOD) \in (0..GraceMax) \union {0}
    BY <1>2, <1>3, ReadNumber DEF ValuesFit
  <2> HIDE DEF H
  <2>4. Grace(e.NW_GRACE_PERIOD) \in 0..(H - 1)
    BY <2>1, <2>2, <2>3
  <2> QED
    BY <1>1, <1>2, <2>4 DEF H
<1>5. Len(y.binds) = y.nbinds /\ \A k \in DOMAIN y.binds : y.binds[k] # <<>>
  <2> DEFINE t == e.NW_BIND
             n == x.nbinds
  <2>1. /\ n \in Int /\ n >= 0
        /\ \A k \in 1..n : k \in DOMAIN t /\ t[k] # <<>>
    BY <1>3 DEF FieldsAgree
  <2>2. t \in Seq(Seq(Chars)) /\ y.binds = SubSeq(t, 1, n) /\ y.nbinds = n
    BY <1>1, <1>2
  <2> HIDE DEF t, n
  <2>3. DOMAIN t = 1..Len(t) /\ Len(t) \in Nat
    BY <2>2
  <2>4. n \in Nat /\ n <= Len(t)
    BY <2>1, <2>3
  <2>5. /\ Len(SubSeq(t, 1, n)) = n /\ DOMAIN SubSeq(t, 1, n) = 1..n
        /\ \A k \in 1..n : SubSeq(t, 1, n)[k] = t[k]
    BY <2>2, <2>4
  <2> QED
    BY <2>1, <2>2, <2>5
<1>6. /\ y.brick # <<>> => NewNs(y.lids) /\ y.layer # <<>> /\ Len(y.brick) = HexLen
      /\ y.brick = <<>> => ~Landlock(y.lids) /\ y.layer = <<>> /\ y.layer_bytes = 0
  BY <1>1, <1>3 DEF ValuesFit, FieldsAgree
<1>7. /\ InRange(y.nice, NiceMin, NiceMax) /\ InRange(y.oom, OomMin, OomMax)
      /\ y.nice # 0 => y.sched = 1
      /\ y.weight <= CpuWeightMax /\ y.sched <= SchedMax /\ y.lock <= 1
      /\ 0 \in {y.mem_high, y.mem_max} \/ y.mem_high < y.mem_max
  BY <1>1, <1>3 DEF ValuesFit, FieldsAgree
<1> QED
  BY <1>4, <1>5, <1>6, <1>7 DEF y

----------------------------------------------------------------------------
(* nw-spawn's text *)

(* The elements of a finite set of numbers are numbered without a gap and  *)
(* without a repetition by how many lie before each.                       *)
LEMMA Numbered ==
    ASSUME NEW S \in SUBSET Nat, IsFiniteSet(S)
    PROVE  /\ Cardinality(S) \in Nat
           /\ \A j \in S : Before(S, j) \in 0..(Cardinality(S) - 1)
           /\ \A j, k \in S : Before(S, j) = Before(S, k) => j = k
           /\ \A n \in 0..(Cardinality(S) - 1) : \E j \in S : Before(S, j) = n
<1> DEFINE B(j) == {m \in S : m < j}
           c == Cardinality(S)
           T == 0..(c - 1)
           f == [j \in S |-> Before(S, j)]
<1>1. c \in Nat
  BY FS_CardinalityType
<1>2. \A j \in S : Before(S, j) = Cardinality(B(j))
  BY DEF Before
<1>3. \A j \in S : IsFiniteSet(B(j)) /\ Cardinality(B(j)) \in Nat /\ Cardinality(B(j)) <= c - 1
  <2>1. TAKE j \in S
  <2>2. IsFiniteSet(S \ {j}) /\ Cardinality(S \ {j}) = c - 1
    BY FS_RemoveElement
  <2>3. B(j) \in SUBSET (S \ {j})
    OBVIOUS
  <2>4. IsFiniteSet(B(j)) /\ Cardinality(B(j)) <= Cardinality(S \ {j})
    BY <2>2, <2>3, FS_Subset
  <2>5. Cardinality(B(j)) \in Nat
    BY <2>4, FS_CardinalityType
  <2> QED
    BY <2>2, <2>4, <2>5
<1>4. \A j, k \in S : j < k => Cardinality(B(j)) + 1 <= Cardinality(B(k))
  <2>1. SUFFICES ASSUME NEW j \in S, NEW k \in S, j < k
                 PROVE  Cardinality(B(j)) + 1 <= Cardinality(B(k))
    OBVIOUS
  <2>2. IsFiniteSet(B(j) \union {j}) /\ Cardinality(B(j) \union {j}) = Cardinality(B(j)) + 1
    <3>1. IsFiniteSet(B(j)) /\ j \notin B(j)
      BY <1>3
    <3> HIDE DEF B
    <3> QED
      BY <3>1, FS_AddElement
  <2>3. (B(j) \union {j}) \in SUBSET B(k)
    <3>1. \A m \in S : m < j => m < k
      BY <2>1
    <3> QED
      BY <2>1, <3>1
  <2>4. IsFiniteSet(B(k))
    BY <1>3
  <2> HIDE DEF B
  <2>5. Cardinality(B(j) \union {j}) <= Cardinality(B(k))
    BY <2>3, <2>4, FS_Subset
  <2> QED
    BY <2>2, <2>5
<1> HIDE DEF B
<1>5. \A j \in S : Before(S, j) \in T
  BY <1>1, <1>2, <1>3
<1>6. \A j, k \in S : Before(S, j) = Before(S, k) => j = k
  <2>1. SUFFICES ASSUME NEW j \in S, NEW k \in S, Before(S, j) = Before(S, k), j # k
                 PROVE  FALSE
    OBVIOUS
  <2>2. Cardinality(B(j)) = Cardinality(B(k)) /\ Cardinality(B(j)) \in Nat
    BY <1>2, <1>3, <2>1
  <2>3. j < k \/ k < j
    BY <2>1
  <2> QED
    BY <1>4, <2>2, <2>3
<1>7. IsFiniteSet(T) /\ Cardinality(T) = c
  <2>1. 0 \in Int /\ c - 1 \in Int
    BY <1>1
  <2>2. IsFiniteSet(0..(c - 1)) /\ Cardinality(0..(c - 1)) = IF 0 > c - 1 THEN 0 ELSE (c - 1) - 0 + 1
    BY <2>1, FS_Interval
  <2> QED
    BY <1>1, <2>2
<1>8. f \in Injection(S, T)
  BY <1>5, <1>6 DEF Injection, IsInjective
<1> HIDE DEF T, f, c
<1>9. f \in Surjection(S, T)
  BY <1>7, <1>8, FS_Injection DEF c
<1>10. \A n \in T : \E j \in S : f[j] = n
  BY <1>9 DEF Surjection
<1> QED
  BY <1>1, <1>5, <1>6, <1>10 DEF T, f, c

(* Two hexadecimal digits for every byte, and the bytes back from them. *)
LEMMA HexFacts ==
    ASSUME NEW h \in [0..(HashLen - 1) -> 0..255]
    PROVE  /\ Hex(h) \in Seq(Int) /\ Len(Hex(h)) = HexLen /\ Hex(h) # <<>>
           /\ \A k \in DOMAIN Hex(h) : Hex(h)[k] \in 0..15
<1>1. HashLen \in Nat \ {0}
  BY CheckAssumption
<1>2. HexLen \in Nat \ {0} /\ HexLen = 2 * HashLen
  BY <1>1 DEF HexLen
<1>3. \A k \in 1..HexLen : (k - 1) \div 2 \in 0..(HashLen - 1)
  BY <1>1, <1>2
<1>4. \A k \in 1..HexLen :
        (IF k % 2 = 1 THEN h[(k - 1) \div 2] \div 16 ELSE h[(k - 1) \div 2] % 16) \in 0..15
  <2>1. \A y \in 0..255 : y \div 16 \in 0..15 /\ y % 16 \in 0..15
    OBVIOUS
  <2> QED
    BY <1>3, <2>1
<1>5. Hex(h) \in [1..HexLen -> 0..15]
  BY <1>4 DEF Hex
<1>6. Hex(h) \in Seq(Int) /\ Len(Hex(h)) = HexLen /\ DOMAIN Hex(h) = 1..HexLen
  BY <1>2, <1>5
<1>7. Hex(h) # <<>>
  BY <1>2, <1>6
<1> QED
  BY <1>5, <1>6, <1>7

LEMMA HexInjective ==
    ASSUME NEW g \in [0..(HashLen - 1) -> 0..255], NEW h \in [0..(HashLen - 1) -> 0..255],
           Hex(g) = Hex(h)
    PROVE  g = h
<1>1. HashLen \in Nat \ {0}
  BY CheckAssumption
<1>2. SUFFICES ASSUME NEW j \in 0..(HashLen - 1) PROVE g[j] = h[j]
  <2>1. /\ g = [j \in 0..(HashLen - 1) |-> g[j]]
        /\ h = [j \in 0..(HashLen - 1) |-> h[j]]
    OBVIOUS
  <2> QED
    BY <2>1, Zenon
<1> DEFINE a == 2 * j + 1
           z == 2 * j + 2
<1>3. /\ a \in 1..HexLen /\ z \in 1..HexLen
      /\ a % 2 = 1 /\ z % 2 = 0 /\ (a - 1) \div 2 = j /\ (z - 1) \div 2 = j
  BY <1>1 DEF HexLen
<1> HIDE DEF a, z
<1>4. /\ Hex(g)[a] = g[j] \div 16 /\ Hex(h)[a] = h[j] \div 16
      /\ Hex(g)[z] = g[j] % 16 /\ Hex(h)[z] = h[j] % 16
  <2>1. Hex(g)[a] = g[j] \div 16 /\ Hex(g)[z] = g[j] % 16
    BY <1>3 DEF Hex
  <2>2. Hex(h)[a] = h[j] \div 16 /\ Hex(h)[z] = h[j] % 16
    BY <1>3 DEF Hex
  <2> QED
    BY <2>1, <2>2
<1>5. g[j] \div 16 = h[j] \div 16 /\ g[j] % 16 = h[j] % 16
  BY <1>4
<1>6. g[j] \in 0..255 /\ h[j] \in 0..255
  OBVIOUS
<1>7. \A x, y \in 0..255 : x \div 16 = y \div 16 /\ x % 16 = y % 16 => x = y
  OBVIOUS
<1> QED
  BY <1>5, <1>6, <1>7

LEMMA TextTyped ==
    ASSUME NEW max \in Nat, NEW f \in [0..(max - 1) -> Chars]
    PROVE  Text(f, max) \in Seq(Chars) /\ Len(Text(f, max)) = TextLen(f, max)
<1> DEFINE n == TextLen(f, max)
<1>1. n \in 0..max
  BY TextLenFacts
<1> HIDE DEF n
<1>2. \A k \in 1..n : f[k - 1] \in Chars
  BY <1>1
<1>3. Text(f, max) = [k \in 1..n |-> f[k - 1]]
  BY DEF Text, n
<1>4. Text(f, max) \in [1..n -> Chars]
  BY <1>2, <1>3
<1> QED
  BY <1>1, <1>4 DEF n

LEMMA LayerText ==
    ASSUME NEW f \in NameField
    PROVE  LET t == Text(f, NameLen)
           IN  /\ t \in Seq(Chars)
               /\ IsName(f) => /\ t # <<>> /\ Len(t) < NameLen
                               /\ \A k \in DOMAIN t : t[k] \in NameChars
               /\ f = [k \in 0..(NameLen - 1) |-> "nul"] => t = <<>>
<1> DEFINE t == Text(f, NameLen)
           n == TextLen(f, NameLen)
<1>1. NameLen \in Nat \ {0}
  BY CheckAssumption
<1>2. t \in Seq(Chars) /\ Len(t) = n
  BY <1>1, TextTyped DEF NameField
<1>3. n \in 0..NameLen /\ \A k \in 0..(n - 1) : f[k] # "nul"
  BY <1>1, TextLenFacts
<1>4. ASSUME IsName(f)
      PROVE  t # <<>> /\ Len(t) < NameLen /\ \A k \in DOMAIN t : t[k] \in NameChars
  <2>1. n # 0 /\ n < NameLen /\ \A k \in 0..(n - 1) : f[k] \in NameChars
    BY <1>4, NameExact DEF name_ok
  <2>2. t = [k \in 1..n |-> f[k - 1]]
    BY DEF Text
  <2> HIDE DEF n, t
  <2>3. \A k \in 1..n : k - 1 \in 0..(n - 1)
    BY <1>3
  <2>4. \A k \in DOMAIN t : t[k] \in NameChars
    BY <2>1, <2>2, <2>3
  <2>5. t # <<>>
    BY <1>2, <2>1
  <2> QED
    BY <1>2, <2>1, <2>4, <2>5
<1>5. ASSUME f = [k \in 0..(NameLen - 1) |-> "nul"] PROVE t = <<>>
  <2>1. f[0] = "nul"
    BY <1>1, <1>5
  <2>2. n = 0
    BY <1>3, <2>1
  <2> QED
    BY <1>2, <2>2
<1> QED
  BY <1>2, <1>4, <1>5

LEMMA PathText ==
    ASSUME NEW f \in PathField, IsPath(f)
    PROVE  Text(f, PathLen) \in Seq(Chars) /\ Text(f, PathLen) # <<>>
<1>1. PathLen \in Nat
  BY CheckAssumption
<1>2. /\ Text(f, PathLen) \in Seq(Chars) /\ Len(Text(f, PathLen)) = TextLen(f, PathLen)
  BY <1>1, TextTyped DEF PathField
<1>3. TextLen(f, PathLen) \in 0..PathLen /\ TextLen(f, PathLen) >= 2
  BY <1>1, PathExact, TextLenFacts DEF path_ok
<1> QED
  BY <1>2, <1>3

----------------------------------------------------------------------------
(* A unit of an admitted plan, in text and read again *)

Admissible(b) == IsFile(b) /\ Fits(b) /\ Valid(b)

LEMMA UnitFacts ==
    ASSUME NEW b, Admissible(b), NEW n \in 0..(b.nu - 1)
    PROVE  /\ b.units[n] \in UnitType /\ ValidUnit(b.units[n])
           /\ LET u == b.units[n]
              IN  /\ u.lids \in UIntRange /\ u.budget \in UIntRange /\ u.kind \in UIntRange
                  /\ u.lock \in UIntRange /\ u.stop_signal \in UIntRange
                  /\ u.nofile \in UIntRange /\ u.supervisor_death_policy \in UIntRange
                  /\ u.res.cpu_weight \in UIntRange /\ u.res.sched_policy \in UIntRange
                  /\ u.res.task_cap \in UIntRange /\ u.capabilities \in ULongRange
                  /\ u.res.layer_bytes \in ULongRange /\ u.res.cpu_mask \in ULongRange
                  /\ u.res.mem_high \in ULongRange /\ u.res.mem_max \in ULongRange
<1>1. b.len = BlobSize(b.nu, b.nb, b.ne) /\ ValidUnit(b.units[n])
  BY DEF Admissible, Valid
<1>2. b.units[n] \in UnitType
  BY <1>1 DEF Admissible, IsFile
<1> QED
  BY <1>1, <1>2 DEF Admissible, Fits

LEMMA BindFacts ==
    ASSUME NEW b, Admissible(b)
    PROVE  /\ b.nb \in Nat /\ b.nb <= MaxBinds
           /\ \A k \in 0..(b.nb - 1) : /\ b.binds[k].path \in PathField
                                       /\ IsPath(b.binds[k].path)
                                       /\ ~NoBrick(b.units[b.binds[k].unit])
<1>1. b.nb \in Nat /\ b.len = BlobSize(b.nu, b.nb, b.ne) /\ b.nb <= MaxBinds
  BY DEF Admissible, Valid, IsFile
<1>2. \A k \in 0..(b.nb - 1) : b.binds[k] \in BindType
  BY <1>1 DEF Admissible, IsFile
<1>3. \A k \in 0..(b.nb - 1) : IsPath(b.binds[k].path) /\ ~NoBrick(b.units[b.binds[k].unit])
  BY DEF Admissible, Valid
<1> QED
  BY <1>1, <1>2, <1>3 DEF BindType

LEMMA BindsText ==
    ASSUME NEW b, Admissible(b), NEW n
    PROVE  LET c == Cardinality(Mine(b, n))
               t == BindsOf(b, n)
           IN  /\ c \in Nat /\ c <= MaxBinds
               /\ t \in Seq(Seq(Chars)) /\ Len(t) = c
               /\ \A k \in 1..c : t[k] # <<>>
               /\ \A j \in Mine(b, n) : \E k \in 1..c : t[k] = Text(b.binds[j].path, PathLen)
               /\ c # 0 => \E j \in 0..(b.nb - 1) : b.binds[j].unit = n
<1> DEFINE S == Mine(b, n)
           c == Cardinality(S)
           t == BindsOf(b, n)
           at(k) == CHOOSE j \in S : Before(S, j) = k - 1
<1>1. b.nb \in Nat /\ b.nb <= MaxBinds /\ MaxBinds \in Nat
  BY BindFacts, CheckAssumption
<1>2. IsFiniteSet(0..(b.nb - 1)) /\ Cardinality(0..(b.nb - 1)) = b.nb
  <2>1. 0 \in Int /\ b.nb - 1 \in Int
    BY <1>1
  <2>2. /\ IsFiniteSet(0..(b.nb - 1))
        /\ Cardinality(0..(b.nb - 1)) = IF 0 > b.nb - 1 THEN 0 ELSE (b.nb - 1) - 0 + 1
    BY <2>1, FS_Interval
  <2> QED
    BY <1>1, <2>2
<1>3. S \in SUBSET (0..(b.nb - 1)) /\ S \in SUBSET Nat
  BY DEF Mine
<1>4. \A j \in S : b.binds[j].unit = n
  BY DEF Mine
<1>5. t = [k \in 1..c |-> Text(b.binds[at(k)].path, PathLen)]
  BY DEF BindsOf
<1> HIDE DEF S, t
<1>6. IsFiniteSet(S) /\ c <= b.nb
  BY <1>2, <1>3, FS_Subset
<1>7. /\ c \in Nat
      /\ \A j \in S : Before(S, j) \in 0..(c - 1)
      /\ \A j, k \in S : Before(S, j) = Before(S, k) => j = k
      /\ \A m \in 0..(c - 1) : \E j \in S : Before(S, j) = m
  BY <1>3, <1>6, Numbered
<1>8. ASSUME NEW k \in 1..c PROVE at(k) \in S /\ Before(S, at(k)) = k - 1
  <2>1. k - 1 \in 0..(c - 1)
    BY <1>7, <1>8
  <2>2. \E j \in S : Before(S, j) = k - 1
    BY <1>7, <2>1
  <2> QED
    BY <2>2
<1> HIDE DEF at, c
<1>9. ASSUME NEW k \in 1..c PROVE t[k] \in Seq(Chars) /\ t[k] # <<>>
  <2>1. at(k) \in 0..(b.nb - 1)
    BY <1>3, <1>8, <1>9
  <2>2. b.binds[at(k)].path \in PathField /\ IsPath(b.binds[at(k)].path)
    BY <2>1, BindFacts
  <2> QED
    BY <1>5, <1>9, <2>2, PathText
<1>10. t \in Seq(Seq(Chars)) /\ Len(t) = c
  <2>1. t \in [1..c -> Seq(Chars)]
    BY <1>5, <1>9
  <2> QED
    BY <1>7, <2>1
<1>11. ASSUME NEW j \in S PROVE \E k \in 1..c : t[k] = Text(b.binds[j].path, PathLen)
  <2> DEFINE k == Before(S, j) + 1
  <2>1. Before(S, j) \in 0..(c - 1)
    BY <1>7, <1>11
  <2>2. k \in 1..c /\ k - 1 = Before(S, j)
    BY <1>7, <2>1
  <2> HIDE DEF k
  <2>3. at(k) \in S /\ Before(S, at(k)) = Before(S, j)
    BY <1>8, <2>2
  <2>4. at(k) = j
    BY <1>7, <1>11, <2>3
  <2> QED
    BY <1>5, <2>2, <2>4
<1>12. c # 0 => \E j \in 0..(b.nb - 1) : b.binds[j].unit = n
  <2>1. c # 0 => S # {}
    BY FS_EmptySet DEF c
  <2> QED
    BY <1>3, <1>4, <2>1
<1>13. c \in Nat /\ c <= MaxBinds
  BY <1>1, <1>6, <1>7 DEF c
<1> QED
  BY <1>9, <1>10, <1>11, <1>12, <1>13 DEF S, c, t

LEMMA ExportFields ==
    ASSUME NEW b, NEW n
    PROVE  LET u == b.units[n]
               x == Export(b, n)
           IN  /\ x.NW_LIDS = Num(u.lids) /\ x.NW_BUDGET = Num(u.budget)
               /\ x.NW_KIND = Num(u.kind) /\ x.NW_LOCK = Num(u.lock)
               /\ x.NW_STOP_SIGNAL = Num(u.stop_signal)
               /\ x.NW_GRACE_PERIOD = Num(u.grace_period) /\ x.NW_NOFILE = Num(u.nofile)
               /\ x.NW_CAPABILITIES = Num(u.capabilities)
               /\ x.NW_SUPERVISOR_DEATH_POLICY = Num(u.supervisor_death_policy)
               /\ x.NW_BRICK = (IF HasBrick(u) THEN Hex(u.brick) ELSE <<>>)
               /\ x.NW_LAYER = Text(u.layer, NameLen)
               /\ x.NW_LAYER_BYTES = Num(u.res.layer_bytes)
               /\ x.NW_CPU_MASK = Num(u.res.cpu_mask)
               /\ x.NW_MEM_HIGH = Num(u.res.mem_high) /\ x.NW_MEM_MAX = Num(u.res.mem_max)
               /\ x.NW_CPU_WEIGHT = Num(u.res.cpu_weight) /\ x.NW_NICE = Num(u.res.nice)
               /\ x.NW_SCHED_POLICY = Num(u.res.sched_policy)
               /\ x.NW_TASK_CAP = Num(u.res.task_cap)
               /\ x.NW_OOM_SCORE_ADJ = Num(u.res.oom_score_adj)
               /\ x.NW_NBINDS = Num(Len(BindsOf(b, n))) /\ x.NW_BIND = BindsOf(b, n)
  BY DEF Export

LEMMA UnitTyped ==
    ASSUME NEW u \in UnitType
    PROVE  /\ u.lids \in Int /\ u.budget \in Int /\ u.kind \in Int /\ u.lock \in Int
           /\ u.stop_signal \in Int /\ u.grace_period \in Nat /\ u.nofile \in Int
           /\ u.capabilities \in Nat /\ u.supervisor_death_policy \in Int
           /\ u.brick \in [0..(HashLen - 1) -> 0..255] /\ u.layer \in NameField
           /\ u.res.layer_bytes \in Int /\ u.res.cpu_mask \in Int /\ u.res.mem_high \in Int
           /\ u.res.mem_max \in Int /\ u.res.cpu_weight \in Int /\ u.res.nice \in Int
           /\ u.res.sched_policy \in Int /\ u.res.task_cap \in Int
           /\ u.res.oom_score_adj \in Int
<1>1. u.res \in ResType
  BY DEF UnitType
<1>2. /\ u.res.layer_bytes \in Int /\ u.res.cpu_mask \in Int /\ u.res.mem_high \in Int
      /\ u.res.mem_max \in Int /\ u.res.cpu_weight \in Int /\ u.res.nice \in Int
      /\ u.res.sched_policy \in Int /\ u.res.task_cap \in Int
      /\ u.res.oom_score_adj \in Int
  BY <1>1 DEF ResType
<1>3. /\ u.lids \in Int /\ u.budget \in Int /\ u.kind \in Int /\ u.lock \in Int
      /\ u.stop_signal \in Int /\ u.grace_period \in Nat /\ u.nofile \in Int
      /\ u.capabilities \in Nat /\ u.supervisor_death_policy \in Int
      /\ u.brick \in [0..(HashLen - 1) -> 0..255] /\ u.layer \in NameField
  BY DEF UnitType
<1> QED
  BY <1>2, <1>3

LEMMA ExportTyped ==
    ASSUME NEW b, Admissible(b), NEW n \in 0..(b.nu - 1)
    PROVE  Export(b, n) \in EnvType
<1> DEFINE u == b.units[n]
           t == BindsOf(b, n)
           h == IF HasBrick(u) THEN Hex(u.brick) ELSE <<>>
           l == Text(u.layer, NameLen)
<1>1. u \in UnitType
  BY UnitFacts
<1>2. \A v \in Int : Num(v) \in NumText
  BY DEF Num, NumText
<1>3. t \in Seq(Seq(Chars)) /\ Len(t) \in Int
  BY BindsText
<1>4. h \in Seq(Int)
  <2>1. Hex(u.brick) \in Seq(Int)
    BY <1>1, UnitTyped, HexFacts
  <2>2. <<>> \in Seq(Int)
    OBVIOUS
  <2> QED
    BY <2>1, <2>2
<1>5. l \in Seq(Chars)
  BY <1>1, UnitTyped, LayerText
<1>6. /\ Num(u.lids) \in NumText /\ Num(u.budget) \in NumText /\ Num(u.kind) \in NumText
      /\ Num(u.lock) \in NumText /\ Num(u.stop_signal) \in NumText
      /\ Num(u.grace_period) \in NumText /\ Num(u.nofile) \in NumText
      /\ Num(u.capabilities) \in NumText /\ Num(u.supervisor_death_policy) \in NumText
      /\ Num(u.res.layer_bytes) \in NumText /\ Num(u.res.cpu_mask) \in NumText
      /\ Num(u.res.mem_high) \in NumText /\ Num(u.res.mem_max) \in NumText
      /\ Num(u.res.cpu_weight) \in NumText /\ Num(u.res.nice) \in NumText
      /\ Num(u.res.sched_policy) \in NumText /\ Num(u.res.task_cap) \in NumText
      /\ Num(u.res.oom_score_adj) \in NumText /\ Num(Len(t)) \in NumText
  <2>1. /\ u.lids \in Int /\ u.budget \in Int /\ u.kind \in Int /\ u.lock \in Int
        /\ u.stop_signal \in Int /\ u.grace_period \in Nat /\ u.nofile \in Int
        /\ u.capabilities \in Nat /\ u.supervisor_death_policy \in Int
        /\ u.res.layer_bytes \in Int /\ u.res.cpu_mask \in Int /\ u.res.mem_high \in Int
        /\ u.res.mem_max \in Int /\ u.res.cpu_weight \in Int /\ u.res.nice \in Int
        /\ u.res.sched_policy \in Int /\ u.res.task_cap \in Int
        /\ u.res.oom_score_adj \in Int
    BY <1>1, UnitTyped
  <2>2. u.grace_period \in Int /\ u.capabilities \in Int
    BY <2>1
  <2> HIDE DEF u, t
  <2> QED
    BY <1>2, <1>3, <2>1, <2>2, Zenon
<1> HIDE DEF t, h, l
<1> QED
  BY <1>3, <1>4, <1>5, <1>6 DEF Export, EnvType, t, h, l

(* What nw-sup reads is what the plan says, field by field. *)
LEMMA ReadExport ==
    ASSUME NEW b, Admissible(b), NEW n \in 0..(b.nu - 1)
    PROVE  LET u == b.units[n]
               x == Read(Export(b, n))
           IN  /\ x.lids = u.lids /\ x.budget = u.budget /\ x.kind = u.kind
               /\ x.lock = u.lock /\ x.stop = u.stop_signal /\ x.grace = u.grace_period
               /\ x.policy = u.supervisor_death_policy /\ x.nofile = u.nofile
               /\ x.caps = u.capabilities /\ x.layer_bytes = u.res.layer_bytes
               /\ x.cpu_mask = u.res.cpu_mask /\ x.mem_high = u.res.mem_high
               /\ x.mem_max = u.res.mem_max /\ x.weight = u.res.cpu_weight
               /\ x.nice = u.res.nice /\ x.sched = u.res.sched_policy
               /\ x.task_cap = u.res.task_cap /\ x.oom = u.res.oom_score_adj
               /\ x.brick = (IF HasBrick(u) THEN Hex(u.brick) ELSE <<>>)
               /\ x.layer = Text(u.layer, NameLen)
               /\ x.nbinds = Cardinality(Mine(b, n))
<1> DEFINE u == b.units[n]
           e == Export(b, n)
           x == Read(e)
           c == Cardinality(Mine(b, n))
<1>1. u \in UnitType /\ ValidUnit(u)
  BY UnitFacts
<1>2. /\ u.lids \in UIntRange /\ u.budget \in UIntRange /\ u.kind \in UIntRange
      /\ u.lock \in UIntRange /\ u.stop_signal \in UIntRange /\ u.nofile \in UIntRange
      /\ u.supervisor_death_policy \in UIntRange /\ u.res.cpu_weight \in UIntRange
      /\ u.res.sched_policy \in UIntRange /\ u.res.task_cap \in UIntRange
      /\ u.capabilities \in ULongRange /\ u.res.layer_bytes \in ULongRange
      /\ u.res.cpu_mask \in ULongRange /\ u.res.mem_high \in ULongRange
      /\ u.res.mem_max \in ULongRange
  BY UnitFacts
<1>3. /\ \A v \in UIntRange : v \in Int /\ UAtoi(Num(v), 0) = v /\ UAtoi(Num(v), 1) = v
      /\ \A v \in ULongRange : v \in Int /\ U64(Num(v)) = v
      /\ \A v \in IntRange : v \in Int /\ Atoi(Num(v), 0) = v
      /\ \A v \in 0..GraceMax : v \in Int /\ Grace(Num(v)) = v
  <2>1. \A v \in Int : /\ v \in UIntRange => UAtoi(Num(v), 0) = v /\ UAtoi(Num(v), 1) = v
                       /\ v \in ULongRange => U64(Num(v)) = v
                       /\ v \in IntRange => Atoi(Num(v), 0) = v
                       /\ v \in 0..GraceMax => Grace(Num(v)) = v
    BY ReadsBack
  <2>2. /\ UIntRange \subseteq Int /\ ULongRange \subseteq Int /\ IntRange \subseteq Int
    BY DEF UIntRange, ULongRange, IntRange
  <2> QED
    BY <2>1, <2>2
<1>4. u.res.nice \in IntRange /\ u.res.oom_score_adj \in IntRange
  <2> DEFINE H == 2^(IntBits - 1)
  <2>1. H \in Nat
    BY PowerAssumption
  <2>2. /\ NiceMin \in (-H)..(H - 1) /\ NiceMax \in (-H)..(H - 1)
        /\ OomMin \in (-H)..(H - 1) /\ OomMax \in (-H)..(H - 1)
    BY WidthAssumption DEF IntRange
  <2>3. IntRange = (-H)..(H - 1)
    BY DEF IntRange
  <2>4. u.res.nice \in Int /\ u.res.oom_score_adj \in Int
    BY <1>1, UnitTyped
  <2>5. /\ InRange(u.res.oom_score_adj, OomMin, OomMax)
        /\ u.res.nice = 0 \/ InRange(u.res.nice, NiceMin, NiceMax)
    BY <1>1 DEF ValidUnit
  <2>6. NiceMin <= 0 /\ 0 <= NiceMax
    BY CheckAssumption
  <2> HIDE DEF H, u
  <2>7. \A v, lo, hi \in Int : /\ lo \in (-H)..(H - 1) /\ hi \in (-H)..(H - 1)
                                /\ lo <= v /\ v <= hi => v \in (-H)..(H - 1)
    BY <2>1
  <2>8. u.res.oom_score_adj \in IntRange
    BY <2>2, <2>3, <2>4, <2>5, <2>7, CheckAssumption DEF InRange
  <2>9. NiceMin <= u.res.nice /\ u.res.nice <= NiceMax
    BY <2>5, <2>6 DEF InRange
  <2>10. u.res.nice \in IntRange
    BY <2>2, <2>3, <2>4, <2>7, <2>9, CheckAssumption
  <2> QED
    BY <2>8, <2>10
<1>5. u.grace_period \in 0..GraceMax
  <2>1. u.grace_period \in Nat /\ u.grace_period <= GraceMax /\ GraceMax \in Int
    BY <1>1, UnitTyped, CheckAssumption DEF ValidUnit
  <2> QED
    BY <2>1
<1>6. c \in IntRange /\ Len(BindsOf(b, n)) = c
  <2> DEFINE H == 2^(IntBits - 1)
  <2>1. H \in Nat
    BY PowerAssumption
  <2>2. MaxBinds \in (-H)..(H - 1) /\ IntRange = (-H)..(H - 1)
    BY WidthAssumption DEF IntRange
  <2>3. c \in Nat /\ c <= MaxBinds /\ Len(BindsOf(b, n)) = c
    BY BindsText
  <2> HIDE DEF H, c
  <2> QED
    BY <2>1, <2>2, <2>3
<1>7. /\ e.NW_LIDS = Num(u.lids) /\ e.NW_BUDGET = Num(u.budget)
      /\ e.NW_KIND = Num(u.kind) /\ e.NW_LOCK = Num(u.lock)
      /\ e.NW_STOP_SIGNAL = Num(u.stop_signal) /\ e.NW_GRACE_PERIOD = Num(u.grace_period)
      /\ e.NW_NOFILE = Num(u.nofile) /\ e.NW_CAPABILITIES = Num(u.capabilities)
      /\ e.NW_SUPERVISOR_DEATH_POLICY = Num(u.supervisor_death_policy)
      /\ e.NW_BRICK = (IF HasBrick(u) THEN Hex(u.brick) ELSE <<>>)
      /\ e.NW_LAYER = Text(u.layer, NameLen) /\ e.NW_LAYER_BYTES = Num(u.res.layer_bytes)
      /\ e.NW_CPU_MASK = Num(u.res.cpu_mask) /\ e.NW_MEM_HIGH = Num(u.res.mem_high)
      /\ e.NW_MEM_MAX = Num(u.res.mem_max) /\ e.NW_CPU_WEIGHT = Num(u.res.cpu_weight)
      /\ e.NW_NICE = Num(u.res.nice) /\ e.NW_SCHED_POLICY = Num(u.res.sched_policy)
      /\ e.NW_TASK_CAP = Num(u.res.task_cap)
      /\ e.NW_OOM_SCORE_ADJ = Num(u.res.oom_score_adj)
      /\ e.NW_NBINDS = Num(Len(BindsOf(b, n)))
  BY ExportFields
<1>8. /\ x.lids = UAtoi(e.NW_LIDS, 0) /\ x.budget = UAtoi(e.NW_BUDGET, 0)
      /\ x.kind = UAtoi(e.NW_KIND, 1) /\ x.lock = UAtoi(e.NW_LOCK, 0)
      /\ x.stop = UAtoi(e.NW_STOP_SIGNAL, 0) /\ x.grace = Grace(e.NW_GRACE_PERIOD)
      /\ x.policy = UAtoi(e.NW_SUPERVISOR_DEATH_POLICY, 0)
      /\ x.nofile = UAtoi(e.NW_NOFILE, 0) /\ x.caps = U64(e.NW_CAPABILITIES)
      /\ x.brick = e.NW_BRICK /\ x.layer = e.NW_LAYER
      /\ x.layer_bytes = U64(e.NW_LAYER_BYTES) /\ x.cpu_mask = U64(e.NW_CPU_MASK)
      /\ x.mem_high = U64(e.NW_MEM_HIGH) /\ x.mem_max = U64(e.NW_MEM_MAX)
      /\ x.weight = UAtoi(e.NW_CPU_WEIGHT, 0) /\ x.nice = Atoi(e.NW_NICE, 0)
      /\ x.sched = UAtoi(e.NW_SCHED_POLICY, 0) /\ x.task_cap = UAtoi(e.NW_TASK_CAP, 0)
      /\ x.oom = Atoi(e.NW_OOM_SCORE_ADJ, 0)
      /\ x.nbinds = IF e.NW_BRICK = <<>> THEN 0 ELSE Atoi(e.NW_NBINDS, 0)
  BY ReadFields
<1>9. /\ x.lids = u.lids /\ x.budget = u.budget /\ x.kind = u.kind /\ x.lock = u.lock
      /\ x.stop = u.stop_signal /\ x.policy = u.supervisor_death_policy
      /\ x.nofile = u.nofile /\ x.weight = u.res.cpu_weight
      /\ x.sched = u.res.sched_policy /\ x.task_cap = u.res.task_cap
  <2> HIDE DEF u, e, x
  <2>1. x.lids = u.lids /\ x.budget = u.budget /\ x.kind = u.kind /\ x.lock = u.lock
    BY <1>2, <1>3, <1>7, <1>8, Zenon
  <2>2. x.stop = u.stop_signal /\ x.policy = u.supervisor_death_policy /\ x.nofile = u.nofile
    BY <1>2, <1>3, <1>7, <1>8, Zenon
  <2>3. /\ x.weight = u.res.cpu_weight /\ x.sched = u.res.sched_policy
        /\ x.task_cap = u.res.task_cap
    BY <1>2, <1>3, <1>7, <1>8, Zenon
  <2> QED
    BY <2>1, <2>2, <2>3
<1>10. /\ x.caps = u.capabilities /\ x.layer_bytes = u.res.layer_bytes
       /\ x.cpu_mask = u.res.cpu_mask /\ x.mem_high = u.res.mem_high
       /\ x.mem_max = u.res.mem_max
       /\ x.nice = u.res.nice /\ x.oom = u.res.oom_score_adj /\ x.grace = u.grace_period
  <2> HIDE DEF u, e, x
  <2>1. /\ x.caps = u.capabilities /\ x.layer_bytes = u.res.layer_bytes
        /\ x.cpu_mask = u.res.cpu_mask
    BY <1>2, <1>3, <1>4, <1>5, <1>7, <1>8, Zenon
  <2>2. x.mem_high = u.res.mem_high /\ x.mem_max = u.res.mem_max
    BY <1>2, <1>3, <1>4, <1>5, <1>7, <1>8, Zenon
  <2>3. x.nice = u.res.nice /\ x.oom = u.res.oom_score_adj /\ x.grace = u.grace_period
    BY <1>2, <1>3, <1>4, <1>5, <1>7, <1>8, Zenon
  <2> QED
    BY <2>1, <2>2, <2>3
<1>11. /\ x.brick = (IF HasBrick(u) THEN Hex(u.brick) ELSE <<>>)
       /\ x.layer = Text(u.layer, NameLen)
       /\ x.nbinds = IF x.brick = <<>> THEN 0 ELSE Atoi(Num(c), 0)
  <2> HIDE DEF u, e, x, c
  <2> QED
    BY <1>6, <1>7, <1>8
<1>12. x.nbinds = c
  <2>1. Atoi(Num(c), 0) = c
    BY <1>3, <1>6
  <2>2. x.brick = <<>> => c = 0
    <3>1. Hex(u.brick) # <<>>
      BY <1>1, UnitTyped, HexFacts
    <3>2. ~HasBrick(u) => NoBrick(u)
      BY <1>1, LayerFacts
    <3>3. c # 0 => \E j \in 0..(b.nb - 1) : b.binds[j].unit = n
      BY BindsText
    <3>4. c # 0 => ~NoBrick(u)
      BY <3>3, BindFacts
    <3> HIDE DEF x, c, u
    <3> QED
      BY <1>11, <3>1, <3>2, <3>4
  <2> HIDE DEF x, c
  <2> QED
    BY <1>11, <2>1, <2>2
<1> QED
  BY <1>9, <1>10, <1>11, <1>12

(* nw-sup's rules hold of a unit that nw_check() has admitted: its two     *)
(* validators speak one language.                                          *)
LEMMA ExportPasses ==
    ASSUME NEW b, Admissible(b), NEW n \in 0..(b.nu - 1)
    PROVE  LET e == Export(b, n)
           IN  ValuesFit(e, Read(e)) /\ FieldsAgree(e, Read(e))
<1> DEFINE u == b.units[n]
           e == Export(b, n)
           x == Read(e)
           c == Cardinality(Mine(b, n))
<1>1. u \in UnitType /\ ValidUnit(u)
  BY UnitFacts
<1>2. /\ x.lids = u.lids /\ x.lock = u.lock /\ x.stop = u.stop_signal
      /\ x.policy = u.supervisor_death_policy /\ x.layer_bytes = u.res.layer_bytes
      /\ x.mem_high = u.res.mem_high /\ x.mem_max = u.res.mem_max
      /\ x.weight = u.res.cpu_weight /\ x.nice = u.res.nice
      /\ x.sched = u.res.sched_policy /\ x.oom = u.res.oom_score_adj
      /\ x.brick = (IF HasBrick(u) THEN Hex(u.brick) ELSE <<>>)
      /\ x.layer = Text(u.layer, NameLen) /\ x.nbinds = c
  BY ReadExport
<1>3. /\ GraceOk(e.NW_GRACE_PERIOD) /\ U64Ok(e.NW_CAPABILITIES) /\ U64Ok(e.NW_LAYER_BYTES)
      /\ U64Ok(e.NW_CPU_MASK) /\ U64Ok(e.NW_MEM_HIGH) /\ U64Ok(e.NW_MEM_MAX)
  <2>1. /\ e.NW_GRACE_PERIOD = Num(u.grace_period) /\ e.NW_CAPABILITIES = Num(u.capabilities)
        /\ e.NW_LAYER_BYTES = Num(u.res.layer_bytes) /\ e.NW_CPU_MASK = Num(u.res.cpu_mask)
        /\ e.NW_MEM_HIGH = Num(u.res.mem_high) /\ e.NW_MEM_MAX = Num(u.res.mem_max)
    BY ExportFields
  <2>2. /\ u.capabilities \in ULongRange /\ u.res.layer_bytes \in ULongRange
        /\ u.res.cpu_mask \in ULongRange /\ u.res.mem_high \in ULongRange
        /\ u.res.mem_max \in ULongRange
    BY UnitFacts
  <2>3. \A v \in ULongRange : U64Ok(Num(v))
    <3>1. ULongRange \subseteq Int
      BY DEF ULongRange
    <3> QED
      BY <3>1, ReadsBack
  <2>4. u.grace_period \in 0..GraceMax /\ u.grace_period \in Int
    <3>1. u.grace_period \in Nat /\ u.grace_period <= GraceMax /\ GraceMax \in Int
      BY <1>1, UnitTyped, CheckAssumption DEF ValidUnit
    <3> QED
      BY <3>1
  <2>5. GraceOk(Num(u.grace_period))
    BY <2>4, ReadsBack
  <2> HIDE DEF u, e
  <2> QED
    BY <2>1, <2>2, <2>3, <2>5
<1>4. /\ HasBrick(u) <=> ~NoBrick(u)
      /\ NoBrick(u) => NoLayer(u) /\ ~Landlock(u.lids) /\ u.res.layer_bytes = 0
      /\ ~NoBrick(u) => IsName(u.layer) /\ NewNs(u.lids)
  BY <1>1, LayerFacts DEF ValidUnit
<1>5. /\ x.layer \in Seq(Chars) /\ Len(x.layer) < NameLen
      /\ \A k \in DOMAIN x.layer : x.layer[k] \in NameChars
      /\ NoBrick(u) <=> x.layer = <<>>
  <2> DEFINE l == Text(u.layer, NameLen)
  <2>1. u.layer \in NameField /\ NameLen \in Nat \ {0}
    BY <1>1, UnitTyped, CheckAssumption
  <2>2. /\ IsName(u.layer) => /\ l # <<>> /\ Len(l) < NameLen
                              /\ \A k \in DOMAIN l : l[k] \in NameChars
        /\ NoLayer(u) => l = <<>>
        /\ l \in Seq(Chars)
    BY <2>1, LayerText DEF NoLayer
  <2> HIDE DEF u, l, x
  <2>3. l = <<>> => Len(l) < NameLen /\ \A k \in DOMAIN l : l[k] \in NameChars
    BY <2>1
  <2>4. x.layer = l
    BY <1>2 DEF l
  <2> QED
    BY <1>4, <2>2, <2>3, <2>4
<1>6. /\ x.brick = <<>> <=> NoBrick(u)
      /\ x.brick = <<>> \/ Len(x.brick) = HexLen
      /\ \A k \in DOMAIN x.brick : x.brick[k] \in 0..15
  <2>1. /\ Len(Hex(u.brick)) = HexLen /\ Hex(u.brick) # <<>>
        /\ \A k \in DOMAIN Hex(u.brick) : Hex(u.brick)[k] \in 0..15
    BY <1>1, UnitTyped, HexFacts
  <2>2. \A k \in DOMAIN << >> : << >>[k] \in 0..15
    OBVIOUS
  <2> HIDE DEF u, x
  <2>3. CASE HasBrick(u)
    BY <1>2, <1>4, <2>1, <2>3
  <2>4. CASE ~HasBrick(u)
    BY <1>2, <1>4, <2>2, <2>4
  <2> QED
    BY <2>3, <2>4
<1>7. /\ x.lock <= 1 /\ x.stop <= StopsigMax /\ x.policy = 0 /\ x.weight <= CpuWeightMax
  <2>1. /\ u.lock \in 0..1 /\ u.stop_signal \in 0..StopsigMax
        /\ u.supervisor_death_policy = 0 /\ u.res.cpu_weight <= CpuWeightMax
    BY <1>1 DEF ValidUnit
  <2>2. u.lock <= 1 /\ u.stop_signal <= StopsigMax
    BY <2>1
  <2> HIDE DEF u, x
  <2> QED
    BY <1>2, <2>1, <2>2
<1>8. /\ InRange(x.nice, NiceMin, NiceMax) /\ x.sched <= SchedMax
      /\ x.nice = 0 \/ x.sched = 1
      /\ InRange(x.oom, OomMin, OomMax)
      /\ x.mem_high = 0 \/ x.mem_max = 0 \/ x.mem_high < x.mem_max
  <2>1. /\ InRange(u.res.oom_score_adj, OomMin, OomMax)
        /\ 0 \in {u.res.mem_high, u.res.mem_max} \/ u.res.mem_high < u.res.mem_max
        /\ \/ u.res.nice = 0 /\ u.res.sched_policy <= SchedMax
           \/ InRange(u.res.nice, NiceMin, NiceMax) /\ u.res.sched_policy = 1
    BY <1>1 DEF ValidUnit
  <2>2. NiceMin <= 0 /\ 0 <= NiceMax /\ 1 <= SchedMax
    BY CheckAssumption
  <2> HIDE DEF u, x
  <2>3. InRange(x.nice, NiceMin, NiceMax) /\ x.sched <= SchedMax /\ (x.nice = 0 \/ x.sched = 1)
    BY <1>2, <2>1, <2>2 DEF InRange
  <2> QED
    BY <1>2, <2>1, <2>3
<1>9. /\ x.nbinds >= 0 /\ x.nbinds <= MaxBinds
      /\ \A k \in 1..x.nbinds : k \in DOMAIN e.NW_BIND /\ e.NW_BIND[k] # <<>>
  <2> DEFINE t == BindsOf(b, n)
  <2>1. /\ c \in Nat /\ c <= MaxBinds /\ t \in Seq(Seq(Chars)) /\ Len(t) = c
        /\ \A k \in 1..c : t[k] # <<>>
    BY BindsText
  <2>2. e.NW_BIND = t
    BY ExportFields
  <2> HIDE DEF c, t, e, x
  <2>3. DOMAIN t = 1..c /\ c >= 0
    BY <2>1
  <2> QED
    BY <1>2, <2>1, <2>2, <2>3
<1> HIDE DEF u, e, x
<1>10. ValuesFit(e, x)
  BY <1>3, <1>5, <1>6, <1>7, <1>8 DEF ValuesFit
<1>11. FieldsAgree(e, x)
  BY <1>2, <1>4, <1>5, <1>6, <1>8, <1>9 DEF FieldsAgree
<1> QED
  BY <1>10, <1>11 DEF e, x

(* The unit that nw-sup goes on with is the unit of the plan. *)
LEMMA Arrives ==
    ASSUME NEW b, Admissible(b), NEW n \in 0..(b.nu - 1)
    PROVE  ReadBack(b, n, Accepted(Export(b, n)))
<1> DEFINE u == b.units[n]
           e == Export(b, n)
           x == Read(e)
           y == Accepted(e)
           c == Cardinality(Mine(b, n))
<1>1. u \in UnitType /\ ValidUnit(u)
  BY UnitFacts
<1>2. /\ x.lids = u.lids /\ x.budget = u.budget /\ x.kind = u.kind /\ x.lock = u.lock
      /\ x.stop = u.stop_signal /\ x.grace = u.grace_period /\ x.nofile = u.nofile
      /\ x.caps = u.capabilities /\ x.layer_bytes = u.res.layer_bytes
      /\ x.cpu_mask = u.res.cpu_mask /\ x.mem_high = u.res.mem_high
      /\ x.mem_max = u.res.mem_max /\ x.weight = u.res.cpu_weight
      /\ x.nice = u.res.nice /\ x.sched = u.res.sched_policy
      /\ x.task_cap = u.res.task_cap /\ x.oom = u.res.oom_score_adj
      /\ x.brick = (IF HasBrick(u) THEN Hex(u.brick) ELSE <<>>)
      /\ x.layer = Text(u.layer, NameLen) /\ x.nbinds = c
  BY ReadExport
<1>3. /\ y.lids = x.lids /\ y.budget = x.budget /\ y.kind = x.kind /\ y.lock = x.lock
      /\ y.grace = x.grace /\ y.nofile = x.nofile /\ y.caps = x.caps
      /\ y.brick = x.brick /\ y.layer = x.layer /\ y.layer_bytes = x.layer_bytes
      /\ y.cpu_mask = x.cpu_mask /\ y.mem_high = x.mem_high /\ y.mem_max = x.mem_max
      /\ y.weight = x.weight /\ y.nice = x.nice /\ y.sched = x.sched
      /\ y.task_cap = x.task_cap /\ y.oom = x.oom
      /\ y.signal = SignalOf(x.stop) /\ y.binds = SubSeq(e.NW_BIND, 1, x.nbinds)
  BY AcceptedFields
<1>4. y.signal = (CASE u.stop_signal \in {0, 1} -> "TERM" [] u.stop_signal = 2 -> "INT"
                    [] u.stop_signal = 3 -> "HUP" [] u.stop_signal = 4 -> "QUIT")
  <2>1. u.stop_signal \in 0..StopsigMax /\ StopsigMax \in Int /\ StopsigMax <= 4
    BY <1>1, CheckAssumption, WidthAssumption DEF ValidUnit
  <2> DEFINE s == u.stop_signal
  <2>2. y.signal = SignalOf(s)
    BY <1>2, <1>3
  <2>3. s \in Int /\ (s = 0 \/ s = 1 \/ s = 2 \/ s = 3 \/ s = 4)
    BY <2>1
  <2>4. /\ SignalOf(0) = "TERM" /\ SignalOf(1) = "TERM" /\ SignalOf(2) = "INT"
        /\ SignalOf(3) = "HUP" /\ SignalOf(4) = "QUIT"
    BY DEF SignalOf
  <2> HIDE DEF s, y
  <2>5. SignalOf(s) = (CASE s \in {0, 1} -> "TERM" [] s = 2 -> "INT"
                         [] s = 3 -> "HUP" [] s = 4 -> "QUIT")
    BY <2>3, <2>4
  <2> QED
    BY <2>2, <2>5 DEF s
<1>5. (y.brick = <<>>) = NoBrick(u)
  <2>1. Hex(u.brick) # <<>>
    BY <1>1, UnitTyped, HexFacts
  <2>2. HasBrick(u) <=> ~NoBrick(u)
    BY <1>1, LayerFacts
  <2>3. NoBrick(u) \in BOOLEAN
    BY DEF NoBrick
  <2>4. y.brick = IF HasBrick(u) THEN Hex(u.brick) ELSE <<>>
    BY <1>2, <1>3
  <2> HIDE DEF u, y
  <2> QED
    BY <2>1, <2>2, <2>3, <2>4
<1>6. ASSUME NEW w \in 0..(b.nu - 1), ~NoBrick(u), Hex(b.units[w].brick) = y.brick
      PROVE  b.units[w].brick = u.brick
  <2>1. y.brick = Hex(u.brick)
    BY <1>1, <1>2, <1>3, <1>6, LayerFacts
  <2>2. /\ u.brick \in [0..(HashLen - 1) -> 0..255]
        /\ b.units[w].brick \in [0..(HashLen - 1) -> 0..255]
    <3>1. b.units[w] \in UnitType
      BY <1>6, UnitFacts
    <3> QED
      BY <1>1, <3>1, UnitTyped
  <2> QED
    BY <1>6, <2>1, <2>2, HexInjective
<1>7. /\ Len(y.binds) = c
      /\ \A k \in Mine(b, n) : \E j \in DOMAIN y.binds :
           y.binds[j] = Text(b.binds[k].path, PathLen)
  <2> DEFINE t == BindsOf(b, n)
  <2>1. /\ c \in Nat /\ t \in Seq(Seq(Chars)) /\ Len(t) = c
        /\ \A j \in Mine(b, n) : \E k \in 1..c : t[k] = Text(b.binds[j].path, PathLen)
    BY BindsText
  <2>2. y.binds = SubSeq(t, 1, c)
    <3>1. e.NW_BIND = t
      BY ExportFields
    <3> HIDE DEF e, t, c, x, y
    <3> QED
      BY <1>2, <1>3, <3>1
  <2> HIDE DEF t, c, y
  <2>3. /\ Len(SubSeq(t, 1, c)) = c /\ DOMAIN SubSeq(t, 1, c) = 1..c
        /\ \A k \in 1..c : SubSeq(t, 1, c)[k] = t[k]
    BY <2>1
  <2> QED
    BY <2>1, <2>2, <2>3
<1>8. Mine(b, n) = {k \in 0..(b.nb - 1) : b.binds[k].unit = n}
  BY DEF Mine
<1>9. /\ <<y.lids, y.budget, y.kind, y.lock>> = <<u.lids, u.budget, u.kind, u.lock>>
      /\ <<y.grace, y.nofile, y.caps>> = <<u.grace_period, u.nofile, u.capabilities>>
      /\ <<y.cpu_mask, y.mem_high, y.mem_max, y.layer_bytes>>
           = <<u.res.cpu_mask, u.res.mem_high, u.res.mem_max, u.res.layer_bytes>>
      /\ <<y.weight, y.nice, y.sched, y.task_cap, y.oom>>
           = <<u.res.cpu_weight, u.res.nice, u.res.sched_policy, u.res.task_cap,
               u.res.oom_score_adj>>
      /\ y.layer = Text(u.layer, NameLen)
  <2> HIDE DEF u, x, y
  <2> QED
    BY <1>2, <1>3
<1> HIDE DEF e, x, y, c
<1> QED
  BY <1>4, <1>5, <1>6, <1>7, <1>8, <1>9 DEF ReadBack, y, e, c

----------------------------------------------------------------------------
(* The handoff, step by step *)

LEMMA AdmittedPlan ==
    ASSUME CheckInv, Fits(blob), pc = "done", verdict = "OK"
    PROVE  Admissible(blob)
<1>1. IsFile(blob)
  BY DEF CheckInv
<1>2. Valid(blob)
  BY DEF CheckInv, AcceptsExactly
<1> QED
  BY <1>1, <1>2 DEF Admissible

LEMMA InitHand ==
    ASSUME Init
    PROVE  HandInv
<1>1. me = -1
  BY DEF Init
<1>2. CASE InitByHand
  <2>1. stage = "env" /\ env \in EnvType
    BY <1>2, HandoffAssumption DEF InitByHand
  <2> QED
    BY <1>1, <2>1 DEF HandInv, UnitArrives, Refused, NothingTrusted
<1>3. CASE InitPlan
  <2>1. stage = "plan" /\ Fits(blob)
    BY <1>3, HandoffAssumption DEF InitPlan, CheckInit
  <2> QED
    BY <1>1, <2>1 DEF HandInv, UnitArrives, Refused, NothingTrusted
<1> QED
  BY <1>2, <1>3 DEF Init

LEMMA CheckHand ==
    ASSUME HandInv, stage = "plan", nw_check, UNCHANGED handVars
    PROVE  HandInv'
<1>1. blob' = blob
  BY DEF nw_check, Header, Unit, UnitsDone, Bind, BindsDone, Edge, EdgesDone, inputs
<1>2. stage' = "plan" /\ me' = -1
  BY DEF HandInv, handVars
<1>3. Fits(blob')
  BY <1>1 DEF HandInv
<1> QED
  BY <1>2, <1>3 DEF HandInv, UnitArrives, Refused, NothingTrusted

LEMMA SpawnHand ==
    ASSUME CheckInv, HandInv, Spawn
    PROVE  HandInv'
<1>1. /\ blob' = blob /\ pc' = "done" /\ verdict' = "OK" /\ pc = "done" /\ verdict = "OK"
      /\ stage = "plan" /\ stage' = "env"
  BY DEF Spawn, checkVars
<1>2. PICK n \in 0..(blob.nu - 1) : me' = n /\ env' = Export(blob, n)
  BY DEF Spawn
<1>3. Fits(blob)
  BY <1>1 DEF HandInv
<1>4. Admissible(blob)
  BY <1>1, <1>3, AdmittedPlan
<1>5. env' \in EnvType
  BY <1>2, <1>4, ExportTyped
<1>6. me' \in 0..(blob'.nu - 1) /\ env' = Export(blob', me') /\ Fits(blob')
  BY <1>1, <1>2, <1>3
<1> QED
  BY <1>1, <1>5, <1>6 DEF HandInv, UnitArrives, Refused, NothingTrusted

(* A capability past the kernel's last is one whose bit is too high. *)
LEMMA PastIsHigh ==
    ASSUME NEW x, x.caps \in Nat, NEW last \in CapLasts, PastLast(x, last)
    PROVE  x.caps >= 2^(last + 1)
<1> DEFINE D == 2^(last + 1)
           v == x.caps
<1>1. D \in Nat \ {0} /\ v \in Nat
  BY PowerAssumption
<1>2. v \div D # 0
  BY DEF PastLast
<1> HIDE DEF D, v
<1>3. v < D => v \div D = 0
  BY <1>1
<1>4. v >= D
  BY <1>1, <1>2, <1>3
<1> QED
  BY <1>4 DEF D, v

LEMMA ValidateHand ==
    ASSUME CheckInv, HandInv, Validate
    PROVE  HandInv'
<1> DEFINE x == Read(env)
<1>1. /\ stage = "env" /\ blob' = blob /\ pc' = pc /\ verdict' = verdict
      /\ me' = me /\ env' = env
  BY DEF Validate, checkVars
<1>2. env \in EnvType
  BY <1>1 DEF HandInv
<1>3. /\ cap_last' \in CapLasts
      /\ \/ /\ stage' \in Codes
            /\ ValuesFit(env, x) /\ FieldsAgree(env, x) =>
                 \/ stage' = "cap_last_cap"
                 \/ stage' = "past-cap_last_cap" /\ PastLast(x, cap_last')
         \/ /\ stage' = "up" /\ eff' = Accepted(env)
            /\ ValuesFit(env, x) /\ FieldsAgree(env, x)
  BY <1>2, ValidateOutcome
<1>4. stage' \notin {"plan", "env"} /\ "up" \notin Codes
  BY <1>3 DEF Codes
<1>5. me' # -1 => /\ stage' # "plan" /\ pc' = "done" /\ verdict' = "OK" /\ Fits(blob')
                  /\ me' \in 0..(blob'.nu - 1) /\ env' = Export(blob', me')
  BY <1>1, <1>4 DEF HandInv
<1>6. NothingTrusted'
  <2>1. SUFFICES ASSUME stage' = "up" PROVE NothingTrusted'
    BY DEF NothingTrusted
  <2>2. eff' = Accepted(env) /\ ValuesFit(env, Read(env)) /\ FieldsAgree(env, Read(env))
    BY <1>3, <1>4, <2>1
  <2> QED
    BY <1>2, <2>2, Trustworthy DEF NothingTrusted
<1>7. ASSUME me # -1 PROVE UnitArrives'
  <2>1. /\ env = Export(blob, me) /\ me \in 0..(blob.nu - 1) /\ Fits(blob)
        /\ pc = "done" /\ verdict = "OK"
    BY <1>7 DEF HandInv
  <2>2. Admissible(blob)
    BY <2>1, AdmittedPlan
  <2>3. ValuesFit(env, x) /\ FieldsAgree(env, x)
    BY <2>1, <2>2, ExportPasses
  <2>4. x.caps = blob.units[me].capabilities /\ x.caps \in Nat
    BY <2>1, <2>2, ReadExport, UnitFacts, UnitTyped
  <2>5. stage' # "up" =>
          \/ stage' = "cap_last_cap"
          \/ /\ stage' = "past-cap_last_cap"
             /\ blob'.units[me'].capabilities >= 2^(cap_last' + 1)
    <3> HIDE DEF x
    <3> QED
      BY <1>1, <1>3, <2>3, <2>4, PastIsHigh
  <2>6. ASSUME stage' = "up" PROVE ReadBack(blob, me, eff)'
    <3>1. eff' = Accepted(Export(blob, me))
      BY <1>3, <1>4, <2>1, <2>6
    <3> QED
      BY <1>1, <2>1, <2>2, <3>1, Arrives
  <2> QED
    BY <1>4, <2>5, <2>6 DEF UnitArrives, Refused
<1>8. ASSUME me = -1 PROVE UnitArrives'
  BY <1>1, <1>8 DEF UnitArrives, Refused
<1> QED
  BY <1>4, <1>5, <1>6, <1>7, <1>8 DEF HandInv

LEMMA NextHand == CheckInv /\ HandInv /\ [Next]_vars => HandInv'
<1>1. CASE UNCHANGED vars
  BY <1>1 DEF vars, checkVars, handVars, HandInv, UnitArrives, Refused, NothingTrusted
<1> QED
  BY <1>1, CheckHand, SpawnHand, ValidateHand DEF Next

LEMMA HandInvariance == Spec => []HandInv
<1>1. Spec => []CheckInv
  BY CheckInvariance
<1> QED
  BY <1>1, InitHand, NextHand, PTL DEF Spec

(* A unit that nw_check() has admitted reaches its house as the plan says  *)
(* it: what nw-spawn prints nw-sup reads back, every field of it, and no   *)
(* rule of nw-sup refuses what nw_check() allows, save for a capability    *)
(* the running kernel does not have.                                       *)
THEOREM AdmittedUnitArrives == Spec => []UnitArrives
  BY HandInvariance, PTL DEF HandInv

(* Whatever the environment says, what nw-sup goes on with keeps the rules *)
(* its child relies on.                                                    *)
THEOREM TrustsNoVariable == Spec => []NothingTrusted
  BY HandInvariance, PTL DEF HandInv
=============================================================================
