------------------------------- MODULE Lifecycle -------------------------------
(***************************************************************************)
(* What a unit's supervisor promises, without saying how: the life of one  *)
(* unit as its plan sees it.                                               *)
(*                                                                         *)
(*   unit     what the plan declares: [lock, oneshot, budget, ...]         *)
(*   phase    "resting"  no house, and none will be started unasked        *)
(*            "due"      no house, and one is to be started                *)
(*            "up"       a house has been started and not yet judged       *)
(*            "over"     the supervisor is gone                            *)
(*   counted  deaths charged to the budget, over the supervisor's life     *)
(*   asked    a STOP was accepted for the house that is up                 *)
(*   closing  the supervisor has been told to shut down                    *)
(*                                                                         *)
(* A unit is started again only against its budget or on request.  A house *)
(* brought down on request, or while closing, is charged to nobody; once   *)
(* closing, the house that comes down is the last one.                     *)
(***************************************************************************)
EXTENDS Integers

CONSTANT Units

VARIABLES unit, phase, counted, asked, closing

lcVars == <<unit, phase, counted, asked, closing>>

LInit == /\ unit \in Units
         /\ phase = IF unit.lock THEN "due" ELSE "resting"
         /\ counted = 0
         /\ asked = FALSE
         /\ closing = FALSE

\* A START is granted.
Grant == /\ phase = "resting"
         /\ phase' = "due"
         /\ UNCHANGED <<unit, counted, asked, closing>>

Launch == /\ phase = "due"
          /\ phase' = "up"
          /\ UNCHANGED <<unit, counted, asked, closing>>

\* A STOP is accepted for the house that is up.
Ask == /\ phase = "up"
       /\ asked' = TRUE
       /\ UNCHANGED <<unit, phase, counted, closing>>

\* The house died, nobody asked it to, and its plan keeps it locked.
Unrequested == phase = "up" /\ unit.lock /\ ~closing /\ ~asked

Charge == /\ Unrequested /\ counted < unit.budget
          /\ phase' = "due"
          /\ counted' = counted + 1
          /\ UNCHANGED <<unit, asked, closing>>

\* The death the budget does not cover.
Spend == /\ Unrequested /\ counted = unit.budget
         /\ phase' = "over"
         /\ counted' = counted + 1
         /\ UNCHANGED <<unit, asked, closing>>

\* A requested stop, or any end of an unlocked house: not charged.
Rest == /\ phase = "up" /\ ~closing /\ (asked \/ ~unit.lock)
        /\ phase' = "resting"
        /\ asked' = FALSE
        /\ UNCHANGED <<unit, counted, closing>>

\* A oneshot's clean end.
Complete == /\ phase = "up" /\ unit.oneshot /\ ~asked
            /\ phase' = "over"
            /\ UNCHANGED <<unit, counted, asked, closing>>

Close == /\ phase # "over"
         /\ closing' = TRUE
         /\ UNCHANGED <<unit, phase, counted, asked>>

\* Leaving because of the shutdown.
Leave == /\ phase # "over" /\ closing
         /\ phase' = "over"
         /\ UNCHANGED <<unit, counted, asked, closing>>

\* The supervisor fails: it is gone without having decided to leave.
Break == /\ phase # "over"
         /\ phase' = "over"
         /\ UNCHANGED <<unit, counted, closing>>
         /\ asked' \in {asked, TRUE}

LNext == Grant \/ Launch \/ Ask \/ Charge \/ Spend \/ Rest \/ Complete
           \/ Close \/ Leave \/ Break

LSpec == LInit /\ [][LNext]_lcVars
===============================================================================
