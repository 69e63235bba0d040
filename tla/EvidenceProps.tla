---------------------------- MODULE EvidenceProps ----------------------------
(* What the logger's ring, the tail file, the records and the store promise. *)
EXTENDS Evidence

\* The last bytes of the first n, as many as the ring holds.
Last(n) == LET m == IF n < TailMax THEN n ELSE TailMax IN [k \in 1..m |-> n - m + k]

\* The ring, oldest byte first.
Logical == IF wrapped THEN RingFrom(cursor, TailMax) \o RingFrom(0, cursor)
           ELSE RingFrom(0, cursor)

(* What is kept of a log is its end: whatever sizes read(2) returns and    *)
(* wherever a chunk wraps, one that exactly fills the ring included, the   *)
(* ring has the last bytes in their order, and between two flushes so has  *)
(* <name>.tail, where two pwrite(2)s at shifting offsets leave nothing of  *)
(* an older tail.                                                          *)
TailIsEnd ==
  /\ tail_fd => Logical = Last(taken)
  /\ Calm => file = Last(taken)

(* A record made after the pipe had drained, with the logger between two   *)
(* flushes, has the house's last words: everything it wrote before it      *)
(* died has been read, and the record ends with the last of what was read. *)
EvidenceComplete ==
  \A r \in reads : r.calm /\ r.drained => r.taken >= r.died /\ r.tail = Last(r.taken)

Right == {c \in DOMAIN files : files[c] = "right"}

(* The store is the shelf store.h describes: what is acknowledged is there *)
(* byte for byte, no content is ever lost or replaced by another, with     *)
(* callers racing for one name, dying between any two calls, and other     *)
(* bytes found under a name.                                               *)
AbstractShelf == INSTANCE Shelf WITH shelf <- Right, acked <- acked
OnTheShelf == AbstractShelf!Spec

-------------------------------------------------------------------------------
(* The parts of the inductive invariants. *)

LogType ==
  /\ taken \in Nat /\ cursor \in 0..(TailMax - 1)
  /\ ring \in [0..(TailMax - 1) -> Int]
  /\ {wrapped, tail_fd, eof, wrote_all} \subseteq BOOLEAN
  /\ lpc \in {"open", "read", "seg1", "seg2", "trunc", "relay", "exit"}

\* The logger opens its file once, and flushes only into an open one.
OpenedOnce ==
  /\ lpc = "open" => ~tail_fd /\ ~wrapped /\ cursor = 0 /\ taken = 0
  /\ lpc \in {"seg1", "seg2", "trunc"} => tail_fd

\* Which byte is where in the ring.
RingMeaning ==
  tail_fd =>
    /\ ~wrapped => /\ cursor = taken
                   /\ \A j \in 0..(cursor - 1) : ring[j] = j + 1
    /\ wrapped => /\ taken >= TailMax
                  /\ \A j \in 0..(cursor - 1) : ring[j] = taken - cursor + j + 1
                  /\ \A j \in cursor..(TailMax - 1) : ring[j] = taken - TailMax - cursor + j + 1

\* How many bytes the ring has.
Total == IF wrapped THEN TailMax ELSE cursor

\* What of the file is right already at each step of a flush.
FileMeaning ==
  tail_fd /\ wrote_all =>
    /\ file \in Seq(Int) /\ Len(file) <= TailMax
    /\ lpc \in {"read", "relay", "exit"} =>
         Len(file) = Total /\ \A j \in 1..Total : file[j] = taken - Total + j
    /\ lpc = "seg2" /\ wrapped =>
         /\ Len(file) >= TailMax - cursor
         /\ \A j \in 1..(TailMax - cursor) : file[j] = taken - TailMax + j
    /\ lpc = "trunc" =>
         Len(file) >= Total /\ \A j \in 1..Total : file[j] = taken - Total + j

LogInv == LogType /\ OpenedOnce /\ RingMeaning /\ FileMeaning

\* The drain has seen the pipe empty after the house was dead.
DrainMeaning ==
  /\ {written, died, spins} \subseteq Nat /\ died <= written
  /\ spc \in {"drain", "read", "put", "say"} => house = "dead"
  /\ spc = "read" /\ spins < Spins => taken >= died

\* What nw_store_put() knows where it is.
PutMeaning ==
  /\ at \in [Writers -> {"idle", "stat", "compare", "temp", "write", "rename", "dead"}]
  /\ temp \in [Writers -> {"none", "part", "whole"}]
  /\ DOMAIN want = Writers
  /\ \A w \in Writers : at[w] = "rename" => temp[w] = "whole"
  /\ \A w \in Writers : at[w] = "compare" => want[w] \in DOMAIN files
-------------------------------------------------------------------------------
(* write_evidence() returns: a logger that is stuck, slow or gone never    *)
(* keeps nw-sup from judging a death.                                      *)
EvidenceEnds == spc = "drain" ~> spc \in {"say", "exit"}
==============================================================================
