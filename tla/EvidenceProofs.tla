---------------------------- MODULE EvidenceProofs ----------------------------
(***************************************************************************)
(* The ring and the tail file hold the end of the log, a calm and drained  *)
(* record has the last words of its house, and the store implements the    *)
(* shelf of store.h: for every size of ring and chunk, any number of       *)
(* callers, and every fault.                                               *)
(***************************************************************************)
EXTENDS EvidenceProps, SequenceTheorems, TLAPS

(***************************************************************************)
(* Sequences                                                               *)
(***************************************************************************)
LEMMA FunctionIsSeq ==
  ASSUME NEW n \in Nat, NEW f \in [1..n -> Int]
  PROVE  f \in Seq(Int) /\ Len(f) = n
  BY IsASeq, LenProperties

(* What pwrite(2) leaves. *)
LEMMA OverwriteFacts ==
  ASSUME NEW f \in Seq(Int), NEW n \in Nat, NEW data \in [1..n -> Int], NEW off \in Nat,
         off <= Len(f)
  PROVE  /\ Overwrite(f, data, off) \in Seq(Int)
         /\ off + n > Len(f) => Len(Overwrite(f, data, off)) = off + n
         /\ off + n <= Len(f) => Len(Overwrite(f, data, off)) = Len(f)
         /\ \A j \in Nat : j >= 1 /\ j <= Len(Overwrite(f, data, off)) =>
              Overwrite(f, data, off)[j] = IF j > off /\ j <= off + n THEN data[j - off] ELSE f[j]
<1>1. data \in Seq(Int) /\ Len(data) = n
  BY FunctionIsSeq
<1>2. Len(f) \in Nat /\ f \in [1..Len(f) -> Int]
  BY LenProperties
<1>3. data # <<>> <=> n # 0
  BY <1>1, EmptySeq
<1> DEFINE top == IF off + n > Len(f) THEN off + n ELSE Len(f)
           g == [j \in 1..top |-> IF j > off /\ j <= off + n THEN data[j - off]
                                  ELSE IF j <= Len(f) THEN f[j] ELSE 0]
<1>4. Overwrite(f, data, off) = g
  BY <1>1, <1>2, <1>3 DEF Overwrite
<1>5. top \in Nat /\ g \in [1..top -> Int]
  BY <1>2
<1>6. \A j \in 1..top : g[j] = IF j > off /\ j <= off + n THEN data[j - off] ELSE f[j]
  BY <1>2
<1> HIDE DEF g
<1>7. (off + n > Len(f) => top = off + n) /\ (off + n <= Len(f) => top = Len(f))
  <2>1. (off + n <= Len(f)) = ~(off + n > Len(f))
    BY <1>2
  <2> QED
    BY <2>1, Zenon
<1> HIDE DEF top
<1>8. g \in Seq(Int) /\ Len(g) = top
  BY <1>5, FunctionIsSeq
<1>9. \A j \in Nat : j >= 1 /\ j <= Len(g) =>
        g[j] = IF j > off /\ j <= off + n THEN data[j - off] ELSE f[j]
  <2> SUFFICES ASSUME NEW j \in Nat, j >= 1, j <= Len(g)
               PROVE  g[j] = IF j > off /\ j <= off + n THEN data[j - off] ELSE f[j]
    OBVIOUS
  <2>1. j \in 1..top
    BY <1>5, <1>8
  <2> QED
    BY <2>1, <1>6
<1> QED
  BY <1>4, <1>7, <1>8, <1>9

LEMMA RingFromFacts ==
  ASSUME LogType, NEW a \in 0..TailMax, NEW b \in 0..TailMax, a <= b
  PROVE  /\ RingFrom(a, b) \in [1..(b - a) -> Int]
         /\ \A j \in 1..(b - a) : RingFrom(a, b)[j] = ring[a + j - 1]
  BY EvidenceAssumption DEF LogType, RingFrom

(***************************************************************************)
(* The logger                                                              *)
(***************************************************************************)
(* A chunk goes into the ring where the cursor says, and around its end. *)
LEMMA ChunkKeepsRing ==
  ASSUME LogType, RingMeaning, tail_fd, NEW n \in 1..Chunk,
         taken' = taken + n, ring' = RingAfter(n), Advance(n), tail_fd' = tail_fd
  PROVE  RingMeaning' /\ cursor' \in 0..(TailMax - 1) /\ wrapped' \in BOOLEAN
         /\ ring' \in [0..(TailMax - 1) -> Int]
<1>1. TailMax \in Nat /\ n \in Nat /\ n >= 1 /\ n <= TailMax /\ taken \in Nat
      /\ cursor \in Nat /\ cursor < TailMax
  BY EvidenceAssumption DEF LogType
<1>2. ring' \in [0..(TailMax - 1) -> Int]
  BY <1>1 DEF RingAfter, LogType
<1>3. \A j \in 0..(TailMax - 1) :
        ring'[j] = IF j >= cursor /\ j < cursor + n THEN taken + (j - cursor) + 1
                   ELSE IF j + TailMax < cursor + n THEN taken + (j + TailMax - cursor) + 1
                   ELSE ring[j]
  BY DEF RingAfter
<1>4. CASE cursor + n >= TailMax
  <2>1. cursor' = cursor + n - TailMax /\ wrapped' = TRUE
    BY <1>4, <1>1 DEF Advance
  <2>2. taken' >= TailMax
    BY <1>1, <1>4 DEF RingMeaning, LogType
  <2>3. \A j \in 0..(cursor' - 1) : ring'[j] = taken' - cursor' + j + 1
    BY <1>1, <1>3, <2>1
  <2>4. \A j \in cursor'..(TailMax - 1) : ring'[j] = taken' - TailMax - cursor' + j + 1
    <3> SUFFICES ASSUME NEW j \in cursor'..(TailMax - 1)
                 PROVE  ring'[j] = taken' - TailMax - cursor' + j + 1
      OBVIOUS
    <3>1. j \in 0..(TailMax - 1) /\ j + TailMax >= cursor + n
      BY <1>1, <1>4, <2>1
    <3>2. CASE j >= cursor
      BY <3>1, <3>2, <1>1, <1>3, <1>4, <2>1
    <3>3. CASE j < cursor
      <4>1. ring'[j] = ring[j]
        BY <3>1, <3>3, <1>1, <1>3
      <4>2. j \in 0..(cursor - 1)
        BY <3>1, <3>3, <1>1
      <4>3. CASE wrapped
        BY <4>1, <4>2, <4>3, <1>1, <2>1 DEF RingMeaning
      <4>4. CASE ~wrapped
        <5>1. ring[j] = j + 1 /\ cursor = taken
          BY <4>2, <4>4 DEF RingMeaning
        <5> QED
          BY <4>1, <5>1, <3>1, <1>1, <2>1
      <4> QED BY <4>3, <4>4
    <3> QED BY <3>1, <3>2, <3>3, <1>1
  <2> QED
    BY <1>1, <1>2, <1>4, <2>1, <2>2, <2>3, <2>4 DEF RingMeaning
<1>5. CASE cursor + n < TailMax
  <2>1. cursor' = cursor + n /\ wrapped' = wrapped
    BY <1>5, <1>1 DEF Advance
  <2>2. \A j \in 0..(TailMax - 1) :
          ring'[j] = IF j >= cursor /\ j < cursor + n THEN taken + (j - cursor) + 1 ELSE ring[j]
    BY <1>1, <1>3, <1>5
  <2>3. CASE wrapped
    <3>1. \A j \in 0..(cursor' - 1) : ring'[j] = taken' - cursor' + j + 1
      <4> SUFFICES ASSUME NEW j \in 0..(cursor' - 1)
                   PROVE  ring'[j] = taken' - cursor' + j + 1
        OBVIOUS
      <4>1. CASE j < cursor
        BY <4>1, <2>1, <2>2, <2>3, <1>1, <1>5 DEF RingMeaning
      <4>2. CASE j >= cursor
        BY <4>2, <2>1, <2>2, <1>1, <1>5
      <4> QED BY <4>1, <4>2, <1>1, <2>1
    <3>2. \A j \in cursor'..(TailMax - 1) : ring'[j] = taken' - TailMax - cursor' + j + 1
      BY <2>1, <2>2, <2>3, <1>1, <1>5 DEF RingMeaning
    <3> QED
      BY <3>1, <3>2, <2>1, <2>3, <1>1, <1>2, <1>5 DEF RingMeaning
  <2>4. CASE ~wrapped
    <3>1. cursor' = taken'
      BY <2>1, <2>4, <1>1 DEF RingMeaning
    <3>2. \A j \in 0..(cursor' - 1) : ring'[j] = j + 1
      BY <2>1, <2>2, <2>4, <1>1, <1>5 DEF RingMeaning
    <3>3. RingMeaning' /\ cursor' \in 0..(TailMax - 1)
      BY <3>1, <3>2, <2>1, <2>4, <1>1, <1>5 DEF RingMeaning
    <3>4. wrapped' \in BOOLEAN
      BY <2>1 DEF LogType
    <3> QED
      BY <3>3, <3>4, <1>2
  <2> QED
    BY <2>3, <2>4 DEF LogType
<1> QED
  BY <1>1, <1>4, <1>5

(* A step that leaves the logger's variables alone keeps what is said of them. *)
LEMMA LogUntouched ==
  ASSUME LogInv, UNCHANGED logVars
  PROVE  LogInv'
  BY DEF LogInv, logVars, LogType, OpenedOnce, RingMeaning, FileMeaning, Total

LEMMA OpenTailKeeps ==
  ASSUME LogInv, OpenTail
  PROVE  LogInv'
<1>1. LogType' /\ OpenedOnce'
  BY DEF LogInv, OpenTail, LogType, OpenedOnce
<1>2. RingMeaning'
  BY EvidenceAssumption DEF LogInv, OpenTail, LogType, OpenedOnce, RingMeaning
<1>3. <<>> \in Seq(Int) /\ Len(<<>>) = 0
  BY EmptySeq
<1>4. FileMeaning'
  BY <1>3, EvidenceAssumption DEF LogInv, OpenTail, LogType, OpenedOnce, FileMeaning, Total
<1> QED
  BY <1>1, <1>2, <1>4 DEF LogInv

LEMMA ReadChunkKeeps ==
  ASSUME LogInv, ReadChunk
  PROVE  LogInv'
<1>1. PICK n \in 1..Chunk : /\ taken' = taken + n
                            /\ IF ~tail_fd THEN UNCHANGED <<ring, cursor, wrapped>>
                               ELSE ring' = RingAfter(n) /\ Advance(n)
  BY DEF ReadChunk
<1>2. n \in Nat /\ taken \in Nat /\ lpc = "read" /\ tail_fd' = tail_fd /\ wrote_all' = wrote_all
      /\ eof' = eof /\ file' = file /\ lpc' = IF tail_fd THEN "seg1" ELSE "relay"
  BY EvidenceAssumption DEF ReadChunk, LogInv, LogType
<1>3. CASE tail_fd
  <2>1. RingMeaning' /\ cursor' \in 0..(TailMax - 1) /\ wrapped' \in BOOLEAN
        /\ ring' \in [0..(TailMax - 1) -> Int]
    BY <1>1, <1>2, <1>3, ChunkKeepsRing DEF LogInv
  <2>2. LogType'
    BY <1>1, <1>2, <2>1, <1>3 DEF LogInv, LogType
  <2>3. OpenedOnce'
    BY <1>2, <1>3 DEF OpenedOnce
  <2>4. FileMeaning'
    BY <1>2, <1>3 DEF LogInv, FileMeaning
  <2> QED
    BY <2>1, <2>2, <2>3, <2>4 DEF LogInv
<1>4. CASE ~tail_fd
  <2>1. LogType'
    BY <1>1, <1>2, <1>4 DEF LogInv, LogType
  <2>2. OpenedOnce' /\ RingMeaning' /\ FileMeaning'
    BY <1>2, <1>4 DEF OpenedOnce, RingMeaning, FileMeaning
  <2> QED
    BY <2>1, <2>2 DEF LogInv
<1> QED
  BY <1>3, <1>4

LEMMA ReadEofKeeps ==
  ASSUME LogInv, ReadEof
  PROVE  LogInv'
<1>1. LogType' /\ OpenedOnce'
  BY DEF LogInv, ReadEof, LogType, OpenedOnce
<1>2. RingMeaning'
  BY DEF LogInv, ReadEof, RingMeaning
<1>3. FileMeaning'
  BY DEF LogInv, ReadEof, FileMeaning, Total
<1> QED
  BY <1>1, <1>2, <1>3 DEF LogInv

LEMMA RelayKeeps ==
  ASSUME LogInv, Relay
  PROVE  LogInv'
<1>1. LogType' /\ OpenedOnce'
  BY DEF LogInv, Relay, LogType, OpenedOnce
<1>2. RingMeaning'
  BY DEF LogInv, Relay, RingMeaning
<1>3. FileMeaning'
  BY DEF LogInv, Relay, FileMeaning, Total
<1> QED
  BY <1>1, <1>2, <1>3 DEF LogInv

(* What every call of flush_tail() leaves alone. *)
LEMMA FlushKeeps ==
  ASSUME LogInv, NEW new, NEW next \in {"seg2", "trunc", "relay", "exit"}, Flush(new, next),
         lpc \in {"seg1", "seg2", "trunc"}
  PROVE  LogType' /\ OpenedOnce' /\ RingMeaning'
         /\ (wrote_all' => wrote_all /\ file' = new)
         /\ tail_fd /\ tail_fd' = tail_fd /\ taken' = taken /\ cursor' = cursor /\ wrapped' = wrapped
         /\ lpc' = next
<1>1. lpc' = next /\ taken' = taken /\ cursor' = cursor /\ wrapped' = wrapped /\ ring' = ring
      /\ tail_fd' = tail_fd /\ eof' = eof
  BY DEF Flush
<1>2. tail_fd
  BY DEF LogInv, OpenedOnce
<1>3. LogType'
  BY <1>1 DEF LogInv, LogType, Flush
<1>4. OpenedOnce' /\ RingMeaning'
  BY <1>1, <1>2 DEF LogInv, OpenedOnce, RingMeaning
<1>5. wrote_all' => wrote_all /\ file' = new
  BY DEF Flush
<1> QED
  BY <1>1, <1>2, <1>3, <1>4, <1>5

(* The ring's bytes from the cursor on are the oldest, those before it follow. *)
LEMMA FlushOldKeeps ==
  ASSUME LogInv, FlushOld
  PROVE  LogInv'
<1>1. TailMax \in Nat /\ cursor \in 0..TailMax /\ TailMax \in 0..TailMax /\ cursor <= TailMax
      /\ lpc = "seg1" /\ taken \in Nat /\ cursor < TailMax
  BY EvidenceAssumption DEF LogInv, LogType, FlushOld
<1>2. CASE wrapped
  <2> DEFINE data == RingFrom(cursor, TailMax)
             new == Overwrite(file, data, 0)
  <2>1. Flush(new, "seg2")
    BY <1>2 DEF FlushOld
  <2> HIDE DEF new
  <2>2. LogType' /\ OpenedOnce' /\ RingMeaning'
        /\ (wrote_all' => wrote_all /\ file' = new)
        /\ tail_fd /\ tail_fd' = tail_fd /\ taken' = taken /\ cursor' = cursor /\ wrapped' = wrapped
        /\ lpc' = "seg2"
    BY <1>1, <2>1, FlushKeeps
  <2>3. ASSUME wrote_all' PROVE FileMeaning'
    <3>1. file \in Seq(Int) /\ Len(file) <= TailMax /\ Len(file) \in Nat
      BY <2>2, <2>3, LenProperties DEF LogInv, FileMeaning
    <3>2. /\ data \in [1..(TailMax - cursor) -> Int]
          /\ \A j \in 1..(TailMax - cursor) : data[j] = ring[cursor + j - 1]
      BY <1>1, RingFromFacts DEF LogInv
    <3>3. TailMax - cursor \in Nat
      BY <1>1
    <3> HIDE DEF data
    <3> DEFINE n == TailMax - cursor
    <3>n. n \in Nat /\ data \in [1..n -> Int] /\ 0 \in Nat /\ 0 <= Len(file)
      BY <3>1, <3>2, <3>3
    <3> HIDE DEF n
    <3>m. /\ new \in Seq(Int)
          /\ 0 + n > Len(file) => Len(new) = 0 + n
          /\ 0 + n <= Len(file) => Len(new) = Len(file)
          /\ \A j \in Nat : j >= 1 /\ j <= Len(new) =>
               new[j] = IF j > 0 /\ j <= 0 + n THEN data[j - 0] ELSE file[j]
      BY <3>1, <3>n, OverwriteFacts DEF new
    <3>4. /\ new \in Seq(Int)
          /\ TailMax - cursor > Len(file) => Len(new) = TailMax - cursor
          /\ TailMax - cursor <= Len(file) => Len(new) = Len(file)
          /\ \A j \in Nat : j >= 1 /\ j <= Len(new) =>
               new[j] = IF j > 0 /\ j <= TailMax - cursor THEN data[j] ELSE file[j]
      BY <3>m, <3>n, <1>1 DEF n
    <3>5. Len(new) <= TailMax /\ Len(new) >= TailMax - cursor
      BY <3>1, <3>4, <1>1
    <3>6. \A j \in 1..(TailMax - cursor) : new[j] = taken - TailMax + j
      <4> SUFFICES ASSUME NEW j \in 1..(TailMax - cursor)
                   PROVE  new[j] = taken - TailMax + j
        OBVIOUS
      <4>0. j \in Nat /\ j >= 1 /\ j <= Len(new) /\ j > 0 /\ j <= TailMax - cursor
        BY <3>4, <3>5, <1>1, LenProperties
      <4>1. new[j] = data[j]
        BY <3>4, <4>0
      <4>2. data[j] = ring[cursor + j - 1]
        BY <3>2
      <4>3. cursor + j - 1 \in cursor..(TailMax - 1)
        BY <1>1
      <4>4. ring[cursor + j - 1] = taken - TailMax - cursor + (cursor + j - 1) + 1
        BY <4>3, <1>2, <2>2 DEF LogInv, RingMeaning
      <4> QED
        BY <4>1, <4>2, <4>4, <1>1
    <3> QED
      BY <2>2, <2>3, <3>4, <3>5, <3>6 DEF FileMeaning
  <2>4. FileMeaning'
    BY <2>3 DEF FileMeaning
  <2> QED
    BY <2>2, <2>4 DEF LogInv
<1>3. CASE ~wrapped
  <2>1. lpc' = "seg2" /\ UNCHANGED <<taken, ring, cursor, wrapped, tail_fd, eof, file, wrote_all>>
    BY <1>3 DEF FlushOld
  <2>2. LogType' /\ OpenedOnce' /\ RingMeaning'
    BY <1>1, <2>1 DEF LogInv, LogType, OpenedOnce, RingMeaning
  <2>3. FileMeaning'
    BY <1>3, <2>1 DEF LogInv, FileMeaning
  <2> QED
    BY <2>2, <2>3 DEF LogInv
<1> QED
  BY <1>2, <1>3

LEMMA FlushNewKeeps ==
  ASSUME LogInv, FlushNew
  PROVE  LogInv'
<1> DEFINE off == IF wrapped THEN TailMax - cursor ELSE 0
           data == RingFrom(0, cursor)
           new == Overwrite(file, data, off)
<1>1. TailMax \in Nat /\ cursor \in 0..TailMax /\ 0 \in 0..TailMax /\ cursor \in Nat
      /\ lpc = "seg2" /\ taken \in Nat /\ cursor < TailMax /\ off \in Nat
  BY EvidenceAssumption DEF LogInv, LogType, FlushNew
<1>2. Flush(new, "trunc")
  BY DEF FlushNew
<1> HIDE DEF new
<1>3. LogType' /\ OpenedOnce' /\ RingMeaning'
      /\ (wrote_all' => wrote_all /\ file' = new)
      /\ tail_fd /\ tail_fd' = tail_fd /\ taken' = taken /\ cursor' = cursor /\ wrapped' = wrapped
      /\ lpc' = "trunc"
  BY <1>1, <1>2, FlushKeeps
<1>4. ASSUME wrote_all' PROVE FileMeaning'
  <2>1. file \in Seq(Int) /\ Len(file) <= TailMax /\ Len(file) \in Nat
    BY <1>3, <1>4, LenProperties DEF LogInv, FileMeaning
  <2>2. wrapped => /\ Len(file) >= TailMax - cursor
                   /\ \A j \in 1..(TailMax - cursor) : file[j] = taken - TailMax + j
    BY <1>1, <1>3, <1>4 DEF LogInv, FileMeaning
  <2>3. data \in [1..cursor -> Int] /\ \A j \in 1..cursor : data[j] = ring[j - 1]
    <3>1. /\ data \in [1..(cursor - 0) -> Int]
          /\ \A j \in 1..(cursor - 0) : data[j] = ring[0 + j - 1]
      BY <1>1, RingFromFacts DEF LogInv
    <3> HIDE DEF data
    <3> QED
      BY <3>1, <1>1
  <2> HIDE DEF data
  <2>4. off <= Len(file)
    BY <1>1, <2>1, <2>2
  <2>o. off \in Nat /\ off <= Len(file)
    BY <1>1, <2>4
  <2> HIDE DEF off
  <2>5. /\ new \in Seq(Int)
        /\ off + cursor > Len(file) => Len(new) = off + cursor
        /\ off + cursor <= Len(file) => Len(new) = Len(file)
        /\ \A j \in Nat : j >= 1 /\ j <= Len(new) =>
             new[j] = IF j > off /\ j <= off + cursor THEN data[j - off] ELSE file[j]
    <3>1. cursor \in Nat /\ data \in [1..cursor -> Int] /\ file \in Seq(Int)
      BY <1>1, <2>1, <2>3
    <3> QED
      BY <2>o, <3>1, OverwriteFacts, Zenon DEF new
  <2> USE DEF off
  <2>6. Len(new) <= TailMax /\ Len(new) >= Total
    BY <1>1, <2>1, <2>5 DEF Total
  <2>7. \A j \in 1..Total : new[j] = taken - Total + j
    <3> SUFFICES ASSUME NEW j \in 1..Total PROVE new[j] = taken - Total + j
      OBVIOUS
    <3>1. CASE wrapped
      <4>1. Total = TailMax /\ off = TailMax - cursor /\ Len(new) = TailMax
        BY <3>1, <1>1, <2>1, <2>5 DEF Total
      <4>2. CASE j <= off
        <5>1. new[j] = file[j]
          BY <4>1, <4>2, <2>5, <1>1
        <5>2. file[j] = taken - TailMax + j
          BY <4>1, <4>2, <2>2, <3>1, <1>1
        <5> QED
          BY <5>1, <5>2, <4>1
      <4>3. CASE j > off
        <5>1. new[j] = data[j - off]
          BY <4>1, <4>3, <2>5, <1>1
        <5>2. data[j - off] = ring[j - off - 1]
          BY <4>1, <4>3, <2>3, <1>1
        <5>3. j - off - 1 \in 0..(cursor - 1)
          BY <4>1, <4>3, <1>1
        <5>4. ring[j - off - 1] = taken - cursor + (j - off - 1) + 1
          BY <5>3, <3>1, <1>3 DEF LogInv, RingMeaning
        <5> QED
          BY <5>1, <5>2, <5>4, <4>1, <1>1
      <4> QED
        BY <4>1, <4>2, <4>3, <1>1
    <3>2. CASE ~wrapped
      <4>1. Total = cursor /\ off = 0 /\ cursor = taken
        BY <3>2, <1>3 DEF Total, LogInv, RingMeaning
      <4>2. new[j] = data[j]
        BY <4>1, <2>5, <2>1, <1>1
      <4>3. data[j] = ring[j - 1] /\ j - 1 \in 0..(cursor - 1)
        BY <4>1, <2>3, <1>1
      <4>4. ring[j - 1] = (j - 1) + 1
        BY <4>3, <3>2, <1>3 DEF LogInv, RingMeaning
      <4> QED
        BY <4>1, <4>2, <4>3, <4>4, <1>1
    <3> QED
      BY <3>1, <3>2
  <2>8. Total' = Total
    BY <1>3 DEF Total
  <2> HIDE DEF off
  <2> QED
    BY <1>3, <1>4, <2>5, <2>6, <2>7, <2>8 DEF FileMeaning
<1>5. FileMeaning'
  BY <1>4 DEF FileMeaning
<1> QED
  BY <1>3, <1>5 DEF LogInv

LEMMA FlushLenKeeps ==
  ASSUME LogInv, FlushLen
  PROVE  LogInv'
<1> DEFINE new == [j \in 1..Total |-> IF j <= Len(file) THEN file[j] ELSE 0]
           next == IF eof THEN "exit" ELSE "relay"
<1>1. TailMax \in Nat /\ cursor \in Nat /\ lpc = "trunc" /\ taken \in Nat /\ cursor < TailMax
      /\ Total \in Nat /\ Total <= TailMax /\ Total' = Total
  BY EvidenceAssumption DEF LogInv, LogType, FlushLen, Flush, Total
<1>2. Flush(new, next)
  BY DEF FlushLen, Total
<1> HIDE DEF new, next
<1>3. next \in {"relay", "exit"}
  BY DEF next
<1>4. LogType' /\ OpenedOnce' /\ RingMeaning'
      /\ (wrote_all' => wrote_all /\ file' = new)
      /\ tail_fd /\ tail_fd' = tail_fd /\ taken' = taken /\ cursor' = cursor /\ wrapped' = wrapped
      /\ lpc' = next
  BY <1>1, <1>2, <1>3, FlushKeeps
<1>5. ASSUME wrote_all' PROVE FileMeaning'
  <2>1. file \in Seq(Int) /\ Len(file) >= Total /\ Len(file) \in Nat
        /\ \A j \in 1..Total : file[j] = taken - Total + j
    BY <1>1, <1>4, <1>5, LenProperties DEF LogInv, FileMeaning
  <2>2. new \in [1..Total -> Int] /\ \A j \in 1..Total : new[j] = taken - Total + j
    BY <1>1, <2>1 DEF new
  <2>3. new \in Seq(Int) /\ Len(new) = Total
    BY <1>1, <2>2, FunctionIsSeq
  <2> QED
    BY <1>1, <1>3, <1>4, <1>5, <2>2, <2>3 DEF FileMeaning
<1>6. FileMeaning'
  BY <1>5 DEF FileMeaning
<1> QED
  BY <1>4, <1>6 DEF LogInv

LEMMA LogInitially == Init => LogInv
<1> SUFFICES ASSUME Init PROVE LogInv
  OBVIOUS
<1>1. LogType
  <2>1. ring \in [0..(TailMax - 1) -> Int]
    BY DEF Init
  <2>2. cursor \in 0..(TailMax - 1) /\ taken \in Nat
    BY EvidenceAssumption DEF Init
  <2> QED
    BY <2>1, <2>2 DEF Init, LogType
<1>2. OpenedOnce /\ RingMeaning /\ FileMeaning
  BY DEF Init, OpenedOnce, RingMeaning, FileMeaning
<1> QED
  BY <1>1, <1>2 DEF LogInv

LEMMA LogPreserved == LogInv /\ [Next]_vars => LogInv'
<1> SUFFICES ASSUME LogInv, [Next]_vars PROVE LogInv'
  OBVIOUS
<1>1. CASE Logger
  BY <1>1, OpenTailKeeps, ReadChunkKeeps, ReadEofKeeps, FlushOldKeeps, FlushNewKeeps,
     FlushLenKeeps, RelayKeeps DEF Logger
<1>2. CASE HouseWrites \/ HouseDies \/ KidsEnd \/ SupKilled
  BY <1>2, LogUntouched DEF HouseWrites, HouseDies, KidsEnd, SupKilled
<1>3. CASE Sup
  BY <1>3, LogUntouched DEF Sup, JudgeDeath, Drain, ReadTail, SelfPut, PutDone, Say
<1>4. CASE \E w \in Writers : Peer(w)
  BY <1>4, LogUntouched DEF Peer
<1>5. CASE UNCHANGED vars
  BY <1>5, LogUntouched DEF vars
<1> QED
  BY <1>1, <1>2, <1>3, <1>4, <1>5 DEF Next

LEMMA LogInvariance == Spec => []LogInv
  BY LogInitially, LogPreserved, PTL DEF Spec

(* The bytes that Last stands for. *)
LEMMA LastFacts ==
  ASSUME LogType, NEW t \in Nat, t = IF taken < TailMax THEN taken ELSE TailMax
  PROVE  /\ Last(taken) \in Seq(Int) /\ Len(Last(taken)) = t
         /\ \A j \in 1..t : Last(taken)[j] = taken - t + j
<1>1. Last(taken) = [j \in 1..t |-> taken - t + j]
  BY DEF Last
<1>2. [j \in 1..t |-> taken - t + j] \in [1..t -> Int]
  BY DEF LogType
<1> QED
  BY <1>1, <1>2, FunctionIsSeq

LEMMA TotalIsAll ==
  ASSUME LogInv, tail_fd
  PROVE  Total \in Nat /\ Total = IF taken < TailMax THEN taken ELSE TailMax
<1>1. TailMax \in Nat /\ cursor \in Nat /\ cursor < TailMax /\ taken \in Nat
  BY EvidenceAssumption DEF LogInv, LogType
<1> QED
  BY <1>1 DEF LogInv, RingMeaning, Total, LogType

LEMMA RingIsEnd ==
  ASSUME LogInv, tail_fd
  PROVE  Logical = Last(taken)
<1>1. TailMax \in Nat /\ cursor \in 0..TailMax /\ 0 \in 0..TailMax /\ TailMax \in 0..TailMax
      /\ cursor < TailMax /\ 0 <= cursor /\ cursor \in Nat /\ taken \in Nat /\ LogType
  BY EvidenceAssumption DEF LogInv, LogType
<1>2. /\ Last(taken) \in Seq(Int) /\ Len(Last(taken)) = Total
      /\ \A j \in 1..Total : Last(taken)[j] = taken - Total + j
  BY <1>1, LastFacts, TotalIsAll
<1> DEFINE old == RingFrom(cursor, TailMax)
           young == RingFrom(0, cursor)
           n == TailMax - cursor
<1>3. n \in Nat /\ old \in [1..n -> Int] /\ \A j \in 1..n : old[j] = ring[cursor + j - 1]
  BY <1>1, RingFromFacts
<1>4. young \in [1..cursor -> Int] /\ \A j \in 1..cursor : young[j] = ring[j - 1]
  <2>1. young \in [1..(cursor - 0) -> Int] /\ \A j \in 1..(cursor - 0) : young[j] = ring[0 + j - 1]
    BY <1>1, RingFromFacts
  <2> HIDE DEF young
  <2> QED
    BY <2>1, <1>1
<1>5. Logical = IF wrapped THEN old \o young ELSE young
  BY DEF Logical
<1> HIDE DEF old, young, n
<1>6. old \in Seq(Int) /\ Len(old) = n
  BY <1>3, FunctionIsSeq
<1>7. young \in Seq(Int) /\ Len(young) = cursor
  BY <1>1, <1>4, FunctionIsSeq
<1>8. CASE ~wrapped
  <2>1. Total = cursor /\ cursor = taken /\ \A j \in 0..(cursor - 1) : ring[j] = j + 1
    BY <1>8 DEF LogInv, RingMeaning, Total
  <2>2. \A j \in 1..cursor : young[j] = Last(taken)[j]
    BY <2>1, <1>1, <1>2, <1>4
  <2> QED
    BY <2>1, <2>2, <1>2, <1>5, <1>7, <1>8, SeqEqual
<1>9. CASE wrapped
  <2>1. /\ Total = TailMax
        /\ \A j \in 0..(cursor - 1) : ring[j] = taken - cursor + j + 1
        /\ \A j \in cursor..(TailMax - 1) : ring[j] = taken - TailMax - cursor + j + 1
    BY <1>9 DEF LogInv, RingMeaning, Total
  <2>2. n + cursor = TailMax
    BY <1>1 DEF n
  <2>3. /\ old \o young \in Seq(Int) /\ Len(old \o young) = TailMax
        /\ \A j \in 1..TailMax : (old \o young)[j] = IF j <= n THEN old[j] ELSE young[j - n]
    BY <1>6, <1>7, <2>2, ConcatProperties
  <2>4. ASSUME NEW j \in 1..TailMax PROVE (old \o young)[j] = Last(taken)[j]
    <3>1. Last(taken)[j] = taken - TailMax + j
      BY <1>2, <2>1
    <3>2. CASE j <= n
      <4>1. j \in 1..n /\ cursor + j - 1 \in cursor..(TailMax - 1)
        BY <3>2, <1>1, <1>3, <2>2
      <4>2. (old \o young)[j] = ring[cursor + j - 1]
        BY <4>1, <3>2, <2>3, <1>3
      <4>3. ring[cursor + j - 1] = taken - TailMax - cursor + (cursor + j - 1) + 1
        BY <4>1, <2>1
      <4> QED
        BY <4>2, <4>3, <3>1, <1>1
    <3>3. CASE j > n
      <4>1. j - n \in 1..cursor /\ j - n - 1 \in 0..(cursor - 1)
        BY <3>3, <1>1, <1>3, <2>2
      <4>2. (old \o young)[j] = ring[j - n - 1]
        BY <4>1, <3>3, <2>3, <1>3, <1>4
      <4>3. ring[j - n - 1] = taken - cursor + (j - n - 1) + 1
        BY <4>1, <2>1
      <4> QED
        BY <4>2, <4>3, <3>1, <1>1, <1>3, <2>2
    <3>4. j <= n \/ j > n
      BY <1>1 DEF n
    <3> QED
      BY <3>2, <3>3, <3>4
  <2> QED
    BY <2>1, <2>3, <2>4, <1>2, <1>5, <1>9, SeqEqual
<1> QED
  BY <1>8, <1>9 DEF LogInv, LogType

LEMMA FileIsEnd ==
  ASSUME LogInv, Calm
  PROVE  file = Last(taken) /\ file \in Seq(Int) /\ Len(file) <= TailMax
<1>1. tail_fd /\ wrote_all /\ lpc \in {"read", "relay", "exit"}
  BY DEF Calm
<1>2. /\ file \in Seq(Int) /\ Len(file) <= TailMax /\ Len(file) = Total
      /\ \A j \in 1..Total : file[j] = taken - Total + j
  BY <1>1 DEF LogInv, FileMeaning
<1>3. /\ Last(taken) \in Seq(Int) /\ Len(Last(taken)) = Total
      /\ \A j \in 1..Total : Last(taken)[j] = taken - Total + j
  BY <1>1, LastFacts, TotalIsAll DEF LogInv
<1>4. \A j \in 1..Len(file) : file[j] = Last(taken)[j]
  BY <1>2, <1>3
<1> QED
  BY <1>2, <1>3, <1>4, SeqEqual

(* The ring has the end of the log whatever read(2) returns, and so has    *)
(* <name>.tail between two flushes that did not fail: flush_tail() and     *)
(* spawn_logger() of pid1.c, for every size of ring and buffer.              *)
THEOREM TailEnd == Spec => []TailIsEnd
<1>1. LogInv => TailIsEnd
  BY RingIsEnd, FileIsEnd DEF TailIsEnd
<1> QED
  BY <1>1, LogInvariance, PTL

(***************************************************************************)
(* The drain                                                               *)
(***************************************************************************)
(* The logger never gives back what it has read. *)
LEMMA TakenGrows ==
  ASSUME LogInv, [Next]_vars
  PROVE  taken' \in Nat /\ taken \in Nat /\ taken' >= taken
<1>1. taken \in Nat
  BY DEF LogInv, LogType
<1>2. taken' = taken \/ ReadChunk
  BY DEF Next, Logger, Sup, vars, logVars, OpenTail, ReadEof, FlushOld, FlushNew, FlushLen, Flush,
     Relay, HouseWrites, HouseDies, KidsEnd, SupKilled, JudgeDeath, Drain, ReadTail, SelfPut,
     PutDone, Say, Peer
<1>3. CASE ReadChunk
  <2>1. PICK n \in 1..Chunk : taken' = taken + n
    BY <1>3 DEF ReadChunk
  <2> QED
    BY <2>1, <1>1, EvidenceAssumption
<1> QED
  BY <1>1, <1>2, <1>3

LEMMA DrainPreserved ==
  ASSUME LogInv, DrainMeaning, [Next]_vars
  PROVE  DrainMeaning'
<1>1. taken' \in Nat /\ taken \in Nat /\ taken' >= taken
  BY TakenGrows
<1>2. /\ written \in Nat /\ died \in Nat /\ spins \in Nat /\ Spins \in Nat /\ died <= written
      /\ (spc \in {"drain", "read", "put", "say"} => house = "dead")
      /\ (spc = "read" /\ spins < Spins => taken >= died)
  BY EvidenceAssumption DEF DrainMeaning
<1>3. CASE UNCHANGED <<written, died, spins, spc, house>>
  BY <1>1, <1>2, <1>3 DEF DrainMeaning
<1>4. CASE HouseWrites
  BY <1>1, <1>2, <1>4 DEF DrainMeaning, HouseWrites, supVars
<1>5. CASE HouseDies
  BY <1>1, <1>2, <1>5 DEF DrainMeaning, HouseDies, supVars
<1>6. CASE JudgeDeath
  BY <1>1, <1>2, <1>6 DEF DrainMeaning, JudgeDeath, houseVars
<1>7. CASE Drain
  BY <1>1, <1>2, <1>7 DEF DrainMeaning, Drain, houseVars
<1>8. CASE ReadTail
  BY <1>1, <1>2, <1>8 DEF DrainMeaning, ReadTail, houseVars
<1>9. CASE PutDone
  BY <1>1, <1>2, <1>9 DEF DrainMeaning, PutDone, houseVars
<1>10. CASE Say
  BY <1>1, <1>2, <1>10 DEF DrainMeaning, Say
<1>11. CASE SupKilled
  BY <1>1, <1>2, <1>11 DEF DrainMeaning, SupKilled, houseVars
<1>12. CASE Logger \/ SelfPut \/ KidsEnd \/ UNCHANGED vars \/ \E w \in Writers : Peer(w)
  <2>1. UNCHANGED <<written, died, spins, spc, house>>
    BY <1>12 DEF Logger, OpenTail, ReadChunk, ReadEof, FlushOld, FlushNew, FlushLen, Flush, Relay,
       SelfPut, KidsEnd, Peer, vars, houseVars, supVars
  <2> QED
    BY <2>1, <1>3
<1> QED
  BY <1>4, <1>5, <1>6, <1>7, <1>8, <1>9, <1>10, <1>11, <1>12 DEF Next, Sup

LEMMA CompletePreserved ==
  ASSUME LogInv, DrainMeaning, EvidenceComplete, [Next]_vars
  PROVE  EvidenceComplete'
<1>1. CASE ReadTail
  <2> DEFINE r == [tail |-> tail', calm |-> Calm, taken |-> taken,
                   drained |-> spins < Spins, died |-> died]
  <2>1. reads' = {r} /\ spc = "read"
        /\ tail' = SubSeq(file, 1, IF Len(file) < TailMax THEN Len(file) ELSE TailMax)
    BY <1>1 DEF ReadTail
  <2>2. ASSUME Calm, spins < Spins PROVE taken >= died /\ tail' = Last(taken)
    <3>1. file = Last(taken) /\ file \in Seq(Int) /\ Len(file) <= TailMax
      BY <2>2, FileIsEnd
    <3>2. (IF Len(file) < TailMax THEN Len(file) ELSE TailMax) = Len(file)
      BY <3>1, LenProperties, EvidenceAssumption
    <3>3. tail' = file
      BY <2>1, <3>1, <3>2, SubSeqFull
    <3> QED
      BY <2>1, <2>2, <3>1, <3>3 DEF DrainMeaning
  <2>3. r.calm = Calm /\ r.drained = (spins < Spins) /\ r.taken = taken /\ r.died = died
        /\ r.tail = tail'
    OBVIOUS
  <2> HIDE DEF r
  <2>4. \A x \in reads' : x = r
    BY <2>1
  <2>5. Last(r.taken) = Last(taken)
    BY <2>3
  <2>6. r.calm /\ r.drained => r.taken >= r.died /\ r.tail = Last(r.taken)
    BY <2>2, <2>3, <2>5
  <2> QED
    BY <2>4, <2>6 DEF EvidenceComplete, Last
<1>2. CASE ~ReadTail
  <2>1. reads' = reads
    BY <1>2 DEF Next, Logger, Sup, vars, supVars, OpenTail, ReadChunk, ReadEof, FlushOld, FlushNew,
       FlushLen, Flush, Relay, HouseWrites, HouseDies, KidsEnd, SupKilled, JudgeDeath, Drain,
       SelfPut, PutDone, Say, Peer
  <2> QED
    BY <2>1 DEF EvidenceComplete, Last
<1> QED
  BY <1>1, <1>2

(* A record that write_evidence() makes of a pipe it saw empty, with the   *)
(* logger between two flushes, has everything that the house wrote before  *)
(* it died and ends with the last of it.                                   *)
THEOREM Complete == Spec => []EvidenceComplete
<1>1. Init => DrainMeaning /\ EvidenceComplete
  BY DEF Init, DrainMeaning, EvidenceComplete
<1>2. LogInv /\ DrainMeaning /\ EvidenceComplete /\ [Next]_vars
        => DrainMeaning' /\ EvidenceComplete'
  BY DrainPreserved, CompletePreserved
<1> QED
  BY <1>1, <1>2, LogInvariance, PTL DEF Spec

(***************************************************************************)
(* The store                                                               *)
(***************************************************************************)
(* nw_store_put() of one caller keeps what every caller knows. *)
LEMMA PutStepKeeps ==
  ASSUME PutMeaning, NEW w \in Writers, PutStep(w) \/ Killed(w) \/ \E c : Begin(w, c)
  PROVE  PutMeaning'
<1> USE DEF PutMeaning, Goto, Answer
<1>1. CASE Stat(w)
  BY <1>1 DEF Stat
<1>2. CASE Compare(w)
  BY <1>2 DEF Compare
<1>3. CASE MakeTemp(w)
  BY <1>3 DEF MakeTemp
<1>4. CASE Write(w)
  BY <1>4 DEF Write
<1>5. CASE Rename(w)
  BY <1>5 DEF Rename
<1>6. CASE Killed(w)
  BY <1>6 DEF Killed
<1>7. CASE \E c : Begin(w, c)
  BY <1>7 DEF Begin
<1> QED
  BY <1>1, <1>2, <1>3, <1>4, <1>5, <1>6, <1>7 DEF PutStep

(* Only a rename(2) changes what is on the shelf, and only a comparison or *)
(* a rename(2) is answered well.                                           *)
LEMMA PutStepKeepsShelf ==
  ASSUME PutMeaning, NEW w \in Writers, PutStep(w) \/ Killed(w) \/ \E c : Begin(w, c)
  PROVE  AbstractShelf!Next \/ UNCHANGED <<Right, acked>>
<1>1. CASE Compare(w)
  <2>1. CASE files[want[w]] = "right" /\ Answer(w, 0)
    <3>1. want[w] \in Right /\ Right' = Right
      BY <1>1, <2>1 DEF Compare, PutMeaning, Right
    <3>2. acked' = acked \union {want[w]}
      BY <2>1 DEF Answer
    <3> QED
      BY <3>1, <3>2 DEF AbstractShelf!Next, AbstractShelf!Acknowledge
  <2>2. CASE UNCHANGED <<files, acked>>
    BY <2>2 DEF Right
  <2> QED
    BY <1>1, <2>1, <2>2 DEF Compare
<1>2. CASE Rename(w)
  <2>1. temp[w] = "whole"
    BY <1>2 DEF Rename, PutMeaning
  <2>2. CASE /\ files' = [c \in DOMAIN files \union {want[w]} |->
                            IF c # want[w] THEN files[c] ELSE "right"]
             /\ Answer(w, 1)
    <3>1. Right' = Right \union {want[w]}
      BY <2>2 DEF Right
    <3>2. acked' = acked \union {want[w]}
      BY <2>2 DEF Answer
    <3> QED
      BY <3>1, <3>2 DEF AbstractShelf!Next, AbstractShelf!Acknowledge
  <2>3. CASE UNCHANGED <<files, acked>>
    BY <2>3 DEF Right
  <2> QED
    BY <1>2, <2>1, <2>2, <2>3 DEF Rename, Answer
<1>3. CASE Stat(w) \/ MakeTemp(w) \/ Write(w) \/ Killed(w) \/ \E c : Begin(w, c)
  <2>1. UNCHANGED <<files, acked>>
    BY <1>3 DEF Stat, MakeTemp, Write, Killed, Begin, Answer
  <2> QED
    BY <2>1 DEF Right
<1> QED
  BY <1>1, <1>2, <1>3 DEF PutStep

(* Every step of the system is one caller's, or leaves the store alone. *)
LEMMA StoreSteps ==
  ASSUME [Next]_vars
  PROVE  \/ UNCHANGED storeVars
         \/ \E w \in Writers : PutStep(w) \/ Killed(w) \/ \E c : Begin(w, c)
<1>1. CASE ReadTail \/ SelfPut \/ SupKilled
  BY <1>1, EvidenceAssumption DEF ReadTail, SelfPut, SupKilled, Self
<1>2. CASE \E w \in Writers : Peer(w)
  BY <1>2 DEF Peer
<1>3. CASE \/ Logger \/ HouseWrites \/ HouseDies \/ KidsEnd \/ JudgeDeath \/ Drain
           \/ PutDone \/ Say \/ UNCHANGED vars
  BY <1>3 DEF Logger, OpenTail, ReadChunk, ReadEof, FlushOld, FlushNew, FlushLen, Flush, Relay,
     HouseWrites, HouseDies, KidsEnd, JudgeDeath, Drain, PutDone, Say, vars
<1> QED
  BY <1>1, <1>2, <1>3 DEF Next, Sup

(* nw_store_put() keeps the promise of store.h: what it acknowledges is    *)
(* there byte for byte and no stored content is lost, for any number of    *)
(* callers that race for a name, fail or die between any two calls, and    *)
(* whatever bytes are found under a name.                                  *)
THEOREM ShelfKept == Spec => OnTheShelf
<1>1. Init => PutMeaning /\ AbstractShelf!Init
  BY DEF Init, StoreInit, PutMeaning, AbstractShelf!Init
<1>2. PutMeaning /\ [Next]_vars => PutMeaning'
  <2> SUFFICES ASSUME PutMeaning, [Next]_vars PROVE PutMeaning'
    OBVIOUS
  <2>1. CASE UNCHANGED storeVars
    BY <2>1 DEF PutMeaning, storeVars
  <2> QED
    BY <2>1, StoreSteps, PutStepKeeps
<1>3. PutMeaning /\ [Next]_vars => [AbstractShelf!Next]_<<Right, acked>>
  <2> SUFFICES ASSUME PutMeaning, [Next]_vars
               PROVE  AbstractShelf!Next \/ UNCHANGED <<Right, acked>>
    OBVIOUS
  <2>1. CASE UNCHANGED storeVars
    BY <2>1 DEF Right, storeVars
  <2> QED
    BY <2>1, StoreSteps, PutStepKeepsShelf
<1> QED
  BY <1>1, <1>2, <1>3, PTL DEF Spec, OnTheShelf, AbstractShelf!Spec
==============================================================================
