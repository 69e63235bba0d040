-------------------------------- MODULE Store --------------------------------
(***************************************************************************)
(* nw_store_put() of store.c by any number of callers at once.  A file is  *)
(* named by the hash of what it should hold, so the name is the content    *)
(* itself and `files' says what is really there: the content ("right"),    *)
(* other bytes of the same length ("junk") or of another ("short").  A     *)
(* caller may be killed between any two calls, and any call may fail.      *)
(***************************************************************************)
EXTENDS Naturals, FiniteSets

CONSTANTS
  Writers,    \* the callers
  Found,      \* stores found at the start: partial functions to Qualities
  Faults      \* which things go wrong: "stat", "open", "temp", "write", "rename", "kill"

Qualities == {"right", "junk", "short"}

ASSUME StoreAssumption ==
  \A f \in Found : \A c \in DOMAIN f : f[c] \in Qualities

VARIABLES
  files,   \* name -> quality, for the names that exist
  at,      \* where each caller is in nw_store_put()
  want,    \* the content it was given
  temp,    \* its temporary file: "none", "part" or "whole"
  acked    \* contents acknowledged with a result of 0 or 1

storeVars == <<files, at, want, temp, acked>>

StoreInit(c0) ==
  /\ files \in Found
  /\ at = [w \in Writers |-> "idle"]
  /\ want = [w \in Writers |-> c0]
  /\ temp = [w \in Writers |-> "none"]
  /\ acked = {}

Goto(w, place) == at' = [at EXCEPT ![w] = place]

\* The call returns; a result of 0 or 1 says that the content is on disk.
Answer(w, result) ==
  /\ Goto(w, "idle")
  /\ acked' = IF result >= 0 THEN acked \union {want[w]} ELSE acked

Begin(w, c) ==
  /\ at[w] = "idle"
  /\ want' = [want EXCEPT ![w] = c]
  /\ Goto(w, "stat")
  /\ UNCHANGED <<files, temp, acked>>

\* stat() of the final name: absent, or of another size, is "not there".
Stat(w) ==
  /\ at[w] = "stat"
  /\ \/ /\ want[w] \in DOMAIN files /\ files[want[w]] # "short"
        /\ Goto(w, "compare") /\ UNCHANGED acked
     \/ /\ want[w] \in DOMAIN files => files[want[w]] = "short"
        /\ Goto(w, "temp") /\ UNCHANGED acked
     \/ "stat" \in Faults /\ Answer(w, 0 - 1)
  /\ UNCHANGED <<files, want, temp>>

\* The bytes are compared, as they are now; a file that does not open is no match.
Compare_TrustName(w) ==
  /\ at[w] = "compare"
  /\ Answer(w, 0)
  /\ UNCHANGED <<files, want, temp>>

Compare(w) ==
  /\ at[w] = "compare"
  /\ \/ files[want[w]] = "right" /\ Answer(w, 0)
     \/ /\ files[want[w]] # "right" \/ "open" \in Faults
        /\ Goto(w, "temp") /\ UNCHANGED acked
  /\ UNCHANGED <<files, want, temp>>

MakeTemp(w) ==
  /\ at[w] = "temp"
  /\ \/ Goto(w, "write") /\ temp' = [temp EXCEPT ![w] = "part"] /\ UNCHANGED acked
     \/ "temp" \in Faults /\ Answer(w, 0 - 1) /\ UNCHANGED temp
  /\ UNCHANGED <<files, want>>

\* A short write removes the temporary file.
Write(w) ==
  /\ at[w] = "write"
  /\ \/ Goto(w, "rename") /\ temp' = [temp EXCEPT ![w] = "whole"] /\ UNCHANGED acked
     \/ "write" \in Faults /\ Answer(w, 0 - 1) /\ temp' = [temp EXCEPT ![w] = "none"]
  /\ UNCHANGED <<files, want>>

\* rename(2) replaces whatever had the name.
Rename(w) ==
  /\ at[w] = "rename"
  /\ \/ /\ files' = [c \in DOMAIN files \union {want[w]} |->
                       IF c # want[w] THEN files[c]
                       ELSE IF temp[w] = "whole" THEN "right" ELSE "short"]
        /\ Answer(w, 1)
     \/ "rename" \in Faults /\ Answer(w, 0 - 1) /\ UNCHANGED files
  /\ temp' = [temp EXCEPT ![w] = "none"]
  /\ UNCHANGED want

\* The caller is killed; its temporary file stays behind.
Killed(w) ==
  /\ "kill" \in Faults /\ at[w] \notin {"idle", "dead"}
  /\ Goto(w, "dead")
  /\ UNCHANGED <<files, want, temp, acked>>

PutStep(w) == Stat(w) \/ Compare(w) \/ MakeTemp(w) \/ Write(w) \/ Rename(w)
==============================================================================
