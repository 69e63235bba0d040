-------------------------------- MODULE Shelf --------------------------------
(***************************************************************************)
(* What store.h promises, without files: a shelf of contents that only     *)
(* fills, and acknowledgements that are only given for what is on it.      *)
(***************************************************************************)
VARIABLES shelf, acked

Init == acked = {}

\* A content comes to lie on the shelf.
Keep == \E c \in shelf' : shelf' = shelf \union {c} /\ UNCHANGED acked

\* A caller is told that its content is there, in the same step or later.
Acknowledge ==
  \E c \in shelf' : /\ shelf' = shelf \union {c}
                    /\ acked' = acked \union {c}

Next == Keep \/ Acknowledge
Spec == Init /\ [][Next]_<<shelf, acked>>
==============================================================================
