------------------------------ MODULE MCEvidence ------------------------------
(* One unit, a ring of two bytes, and a second producer of its records.     *)
EXTENDS EvidenceProps

\* Two producers race for the record of a silent death.
MCShared == {Record(1, <<>>)}

\* A store that is empty, or has other bytes under the name of a silent death.
MCFound == {[c \in {} |-> "right"]}
           \union {[c \in MCShared |-> "junk"]}

MCOldTails == {<<OldByte, OldByte>>}
==============================================================================
