------------------------------- MODULE Evidence -------------------------------
(***************************************************************************)
(* The evidence of a death.  A house and its nw-sup write into one pipe;   *)
(* PID 1's logger reads it in chunks into a ring of the last TailMax bytes *)
(* and copies the ring to <name>.tail after every chunk, in up to two      *)
(* pwrite(2)s and an ftruncate(2); when the house dies nw-sup waits for    *)
(* the pipe to drain, a bounded number of times, reads <name>.tail and     *)
(* stores a record.  Nothing else orders the three processes.              *)
(*                                                                         *)
(* The bytes of this boot are numbered 1, 2, ... as they enter the pipe;   *)
(* 0 is the NUL of a hole in a file, -1 a byte of an earlier boot.         *)
(***************************************************************************)
EXTENDS Store, Integers, Sequences

CONSTANTS
  TailMax,   \* NW_EVIDENCE_TAIL_MAX
  Chunk,     \* the logger's buffer
  Spins,     \* NW_EVIDENCE_DRAIN_SPINS
  Budget,
  MaxBytes,  \* bound: bytes of the house and what it leaves behind
  OldTails,  \* tails of an earlier boot found on disk
  Shared     \* bound: the records that another producer may store too

\* "n <= sizeof buf < NW_EVIDENCE_TAIL_MAX always"
ASSUME EvidenceAssumption ==
  /\ TailMax \in Nat \ {0} /\ Chunk \in 1..TailMax
  /\ {Spins, Budget, MaxBytes} \subseteq Nat
  /\ "sup" \in Writers    \* nw-sup among the callers of the store

VARIABLES
  written,         \* bytes put into the pipe
  lpc,             \* the logger: "open", "read", "seg1", "seg2", "trunc", "relay", "exit"
  taken,           \* bytes it has read
  ring, cursor, wrapped,
  tail_fd,         \* whether it has the tail file open
  eof,             \* the flush under way is the last one
  file,            \* <name>.tail
  wrote_all,       \* no pwrite or ftruncate of the logger has failed
  house,           \* "run" or "dead"
  kids,            \* whether processes of the house are left, with the pipe open
  spc,             \* nw-sup: "wait", "drain", "read", "put", "say", "exit"
  spins, deaths,
  died,            \* history: bytes written when the house died
  tail,            \* its copy of the tail
  reads            \* history: what the last reading of the tail found

logVars == <<lpc, taken, ring, cursor, wrapped, tail_fd, eof, file, wrote_all>>
supVars == <<spc, spins, deaths, tail, reads>>
houseVars == <<written, house, kids, died>>
vars == <<storeVars, houseVars, logVars, supVars>>

Self == "sup"
OldByte == -1
Record(d, t) == [death |-> d, tail |-> t]

Init ==
  /\ StoreInit(Record(0, <<>>))
  /\ written = 0 /\ house = "run" /\ kids = FALSE /\ died = 0
  /\ lpc = "open" /\ taken = 0
  /\ ring = [k \in 0..(TailMax - 1) |-> 0] /\ cursor = 0 /\ wrapped = FALSE
  /\ tail_fd = FALSE /\ eof = FALSE /\ wrote_all = TRUE
  /\ file \in OldTails
  /\ spc = "wait" /\ spins = 0 /\ deaths = 0 /\ tail = <<>> /\ reads = {}

(***************************************************************************)
(* The logger                                                              *)
(***************************************************************************)
\* O_TRUNC, or no tail at all for the life of this logger.
OpenTail ==
  /\ lpc = "open" /\ lpc' = "read"
  /\ \/ tail_fd' = TRUE /\ file' = <<>>
     \/ "tail" \in Faults /\ tail_fd' = FALSE /\ UNCHANGED file
  /\ UNCHANGED <<storeVars, houseVars, taken, ring, cursor, wrapped, eof, wrote_all, supVars>>

\* memcpy of the n bytes after `taken' at the cursor, and of the rest at the start.
RingAfter_NoRest(n) ==
  [k \in 0..(TailMax - 1) |->
     IF k >= cursor /\ k < cursor + n THEN taken + (k - cursor) + 1 ELSE ring[k]]

RingAfter(n) ==
  [k \in 0..(TailMax - 1) |->
     IF k >= cursor /\ k < cursor + n THEN taken + (k - cursor) + 1
     ELSE IF k + TailMax < cursor + n THEN taken + (k + TailMax - cursor) + 1
     ELSE ring[k]]

\* Where the next byte goes: a chunk that exactly fills the ring wraps it too.
Advance(n) ==
  IF cursor + n >= TailMax
    THEN cursor' = cursor + n - TailMax /\ wrapped' = TRUE
    ELSE cursor' = cursor + n /\ UNCHANGED wrapped

\* read(2) returns, and the chunk goes into the ring before anything else.
ReadChunk ==
  /\ lpc = "read"
  /\ \E n \in 1..Chunk :
       /\ n <= written - taken
       /\ taken' = taken + n
       /\ IF ~tail_fd THEN UNCHANGED <<ring, cursor, wrapped>>
          ELSE ring' = RingAfter(n) /\ Advance(n)
  /\ lpc' = IF tail_fd THEN "seg1" ELSE "relay"
  /\ UNCHANGED <<storeVars, houseVars, tail_fd, eof, file, wrote_all, supVars>>

\* End-of-file: the pipe is empty and nobody can write any more.
ReadEof ==
  /\ lpc = "read" /\ taken = written
  /\ spc = "exit" /\ house = "dead" /\ ~kids
  /\ eof' = TRUE
  /\ lpc' = IF tail_fd THEN "seg1" ELSE "exit"
  /\ UNCHANGED <<storeVars, houseVars, taken, ring, cursor, wrapped, tail_fd, file, wrote_all, supVars>>

\* pwrite(2) of data at an offset: no data, no effect.
Overwrite(f, data, off) ==
  LET len == IF data # <<>> /\ off + Len(data) > Len(f) THEN off + Len(data) ELSE Len(f)
  IN  [k \in 1..len |-> IF k > off /\ k <= off + Len(data) THEN data[k - off]
                        ELSE IF k <= Len(f) THEN f[k] ELSE 0]

RingFrom(a, b) == [k \in 1..(b - a) |-> ring[a + k - 1]]

\* One call of flush_tail(): it happens, or fails and is not looked at (bound:
\* one failure).
Flush(new, next) ==
  /\ \/ file' = new /\ UNCHANGED wrote_all
     \/ "flush" \in Faults /\ wrote_all /\ wrote_all' = FALSE /\ UNCHANGED file
  /\ lpc' = next
  /\ UNCHANGED <<storeVars, houseVars, taken, ring, cursor, wrapped, tail_fd, eof, supVars>>

FlushOld ==
  /\ lpc = "seg1"
  /\ IF wrapped THEN Flush(Overwrite(file, RingFrom(cursor, TailMax), 0), "seg2")
     ELSE /\ lpc' = "seg2"
          /\ UNCHANGED <<storeVars, houseVars, taken, ring, cursor, wrapped, tail_fd, eof, file, wrote_all, supVars>>

FlushNew ==
  /\ lpc = "seg2"
  /\ Flush(Overwrite(file, RingFrom(0, cursor), IF wrapped THEN TailMax - cursor ELSE 0), "trunc")

FlushLen ==
  /\ lpc = "trunc"
  /\ LET total == IF wrapped THEN TailMax ELSE cursor
     IN  Flush([k \in 1..total |-> IF k <= Len(file) THEN file[k] ELSE 0],
               IF eof THEN "exit" ELSE "relay")

\* The console, last: it may block for ever.
Relay ==
  /\ lpc = "relay" /\ lpc' = "read"
  /\ UNCHANGED <<storeVars, houseVars, taken, ring, cursor, wrapped, tail_fd, eof, file, wrote_all, supVars>>

Logger == OpenTail \/ ReadChunk \/ ReadEof \/ FlushOld \/ FlushNew \/ FlushLen \/ Relay

(***************************************************************************)
(* The house and what it leaves behind                                     *)
(***************************************************************************)
HouseWrites ==
  /\ house = "run" \/ kids
  /\ written < MaxBytes
  /\ written' = written + 1
  /\ UNCHANGED <<storeVars, house, kids, died, logVars, supVars>>

HouseDies ==
  /\ house = "run"
  /\ house' = "dead" /\ kids' \in BOOLEAN /\ died' = written
  /\ UNCHANGED <<storeVars, written, logVars, supVars>>

KidsEnd ==
  /\ kids /\ kids' = FALSE
  /\ UNCHANGED <<storeVars, written, house, died, logVars, supVars>>

(***************************************************************************)
(* nw-sup                                                                  *)
(***************************************************************************)
\* A death that counts, judged by nw_decide(): Supervisor has the others.
JudgeDeath ==
  /\ spc = "wait" /\ house = "dead"
  /\ deaths' = deaths + 1 /\ spins' = 0
  /\ spc' = "drain"
  /\ UNCHANGED <<storeVars, houseVars, logVars, tail, reads>>

\* FIONREAD on its own write end, then sched_yield(); not for ever.
Drain_Unbounded ==
  /\ spc = "drain"
  /\ written = taken
  /\ spc' = "read"
  /\ UNCHANGED <<storeVars, houseVars, logVars, spins, deaths, tail, reads>>

Drain_NoWait ==
  /\ spc = "drain"
  /\ spc' = "read"
  /\ UNCHANGED <<storeVars, houseVars, logVars, spins, deaths, tail, reads>>

Drain ==
  /\ spc = "drain"
  /\ IF written = taken \/ spins = Spins THEN spc' = "read" /\ UNCHANGED spins
     ELSE spins' = spins + 1 /\ UNCHANGED spc
  /\ UNCHANGED <<storeVars, houseVars, logVars, deaths, tail, reads>>

\* Neither is a flush of the logger under way nor has one failed.
Calm == lpc \in {"read", "relay", "exit"} /\ tail_fd /\ wrote_all

\* One read(2) of <name>.tail.
ReadTail ==
  /\ spc = "read"
  /\ tail' = SubSeq(file, 1, IF Len(file) < TailMax THEN Len(file) ELSE TailMax)
  /\ reads' = {[tail |-> tail', calm |-> Calm, taken |-> taken,
                 drained |-> spins < Spins, died |-> died]}
  /\ spc' = "put"
  /\ Begin(Self, Record(deaths, tail'))
  /\ UNCHANGED <<houseVars, logVars, spins, deaths>>

\* nw_store_put() has returned; its result is not looked at.
PutDone ==
  /\ spc = "put" /\ at[Self] = "idle"
  /\ spc' = "say"
  /\ UNCHANGED <<storeVars, houseVars, logVars, spins, deaths, tail, reads>>

\* The restart or spent line, and the next generation or the end.
Say ==
  /\ spc = "say"
  /\ written' = written + 1
  /\ IF deaths > Budget THEN spc' = "exit" /\ UNCHANGED house
     ELSE spc' = "wait" /\ house' = "run"
  /\ UNCHANGED <<storeVars, kids, died, logVars, spins, deaths, tail, reads>>

SelfPut ==
  /\ spc = "put" /\ PutStep(Self)
  /\ UNCHANGED <<houseVars, logVars, supVars>>

\* PID 1 kills it at shutdown; the house keeps its end of the pipe.
SupKilled ==
  /\ "kill" \in Faults /\ spc # "exit"
  /\ spc' = "exit"
  /\ Killed(Self) \/ (at[Self] = "idle" /\ UNCHANGED storeVars)
  /\ UNCHANGED <<houseVars, logVars, spins, deaths, tail, reads>>

Sup == JudgeDeath \/ Drain \/ ReadTail \/ SelfPut \/ PutDone \/ Say

\* Another producer of the same content.
Peer(w) ==
  /\ w # Self
  /\ \/ at[w] = "idle" /\ spc = "put" /\ want[Self] \in Shared \ acked /\ Begin(w, want[Self])
     \/ PutStep(w)
     \/ Killed(w)
  /\ UNCHANGED <<houseVars, logVars, supVars>>

Next ==
  \/ Logger \/ HouseWrites \/ HouseDies \/ KidsEnd \/ Sup \/ SupKilled
  \/ \E w \in Writers : Peer(w)

Spec == Init /\ [][Next]_vars

\* nw-sup is scheduled.  Nothing is assumed of the logger, which may block on
\* the console, nor of the house or of other producers.
FairSpec == Spec /\ WF_vars(Sup)
==============================================================================
