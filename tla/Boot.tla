--------------------------------- MODULE Boot ---------------------------------
(***************************************************************************)
(* The machine over several boots: dawn, then PID 1, which takes the slot  *)
(* that <slots>/current names, reads and checks its plan, then nw-spawn,   *)
(* which reads the file again; a running city, in which the operator       *)
(* stages candidates and switches; and a stop at any instant.  What a call *)
(* has put on disk before the stop is there after it.                      *)
(***************************************************************************)
EXTENDS Slots, Dawn

CONSTANTS
  FirstSlot,
  PointerReads,  \* what slot_from_current() makes of the other pointers: a name or "halt"
  BlobMax,       \* NW_BLOB_MAX
  Wrap,          \* 2^32
  Others,        \* files that something else may have put in the plan's place: [plan, size]
  MaxBoots       \* bound

ASSUME BootAssumption ==
  /\ FirstSlot \in Names /\ DOMAIN PointerReads = Pointers
  /\ \A x \in Pointers : PointerReads[x] \in Names \union {"halt"}
  /\ BlobMax \in Nat \ {0} /\ Wrap \in Nat /\ BlobMax + 1 < Wrap
  /\ \A q \in Plans : q.len \in 1..BlobMax
  /\ \A f \in Others : f.plan.len \in 1..BlobMax /\ f.size \in Nat

VARIABLES
  phase,     \* "dawn", "pointer", "plan", "spawn", "up", "halt", "off"
  booting,   \* the directory of the slot being booted
  sealed,    \* the plan that PID 1 has checked
  file,      \* the file that was read last
  overrun,   \* whether PID 1 was asked to read past its buffer
  last,      \* history: the plan of the city that runs or ran last,
  careful,   \*          whether the tool was always started as the clash check expects
  boots

bootVars == <<phase, booting, sealed, file, overrun, last, careful, boots>>
vars == <<slotVars, dawnVars, bootVars>>

NoFile == [plan |-> None, size |-> 0]

Init ==
  /\ SlotsInit(FirstSlot) /\ DawnInit
  /\ phase = "dawn" /\ booting = "none" /\ sealed = None /\ file = NoFile /\ overrun = FALSE
  /\ last = None /\ careful = TRUE /\ boots = 1

DawnStep ==
  /\ phase = "dawn" /\ DawnNext
  /\ phase' = IF d'.end = "none" THEN "dawn" ELSE IF d'.end = "exec" THEN "pointer" ELSE "halt"
  /\ UNCHANGED <<slotVars, booting, sealed, file, overrun, last, careful, boots>>

Halt ==
  /\ phase' = "halt"
  /\ UNCHANGED <<slotVars, dawnVars, booting, sealed, last, careful, boots>>

\* slot_from_current() and <slot>/plan.blob.
ReadPointer ==
  /\ phase = "pointer"
  /\ LET name == IF current \in Names THEN current ELSE PointerReads[current]
     IN  IF name \in Names
           THEN /\ phase' = "plan" /\ booting' = DirOf[name]
                /\ UNCHANGED <<slotVars, dawnVars, sealed, file, overrun, last, careful, boots>>
           ELSE Halt /\ UNCHANGED <<file, overrun>>

\* The file as it was staged, or as something else has left it.
Found == {[plan |-> slot[booting].blob, size |-> slot[booting].blob.len]} \union Others

nw_check(f, n) == f.plan.ok /\ n = f.plan.len

\* "Compared in off_t, NOT through a cast to uint32_t."
SizeFits(size) == size > 0 /\ size <= BlobMax

ReadPlan ==
  /\ phase = "plan"
  /\ \E f \in Found :
       /\ file' = f
       /\ overrun' = (SizeFits(f.size) /\ f.size > BlobMax + 1)
       /\ IF SizeFits(f.size) /\ nw_check(f, f.size)
            THEN /\ phase' = "spawn" /\ sealed' = f.plan
                 /\ UNCHANGED <<slotVars, dawnVars, booting, last, careful, boots>>
            ELSE Halt

\* nw-spawn reads into NW_BLOB_BUF, one byte more than any plan.  When it
\* refuses, PID 1 is left without a city: a halt to this model.
SpawnAccepts_NoSentinel(f) ==
  LET n == IF f.size < BlobMax THEN f.size ELSE BlobMax
  IN  n > 0 /\ n <= BlobMax /\ nw_check(f, n) /\ f.plan.units = sealed.units

SpawnAccepts(f) ==
  LET n == IF f.size < BlobMax + 1 THEN f.size ELSE BlobMax + 1
  IN  n > 0 /\ n <= BlobMax /\ nw_check(f, n) /\ f.plan.units = sealed.units

SpawnPlan ==
  /\ phase = "spawn"
  /\ \E f \in Found :
       /\ file' = f
       /\ IF SpawnAccepts(f)
            THEN /\ phase' = "up" /\ running' = booting
                 /\ last' = f.plan
                 /\ UNCHANGED <<slot, exists, current, store, st, dawnVars,
                                booting, sealed, overrun, careful, boots>>
            ELSE Halt /\ UNCHANGED overrun

\* The tool is started with the pointer at the slot that runs, and with another
\* plan than the target holds.
Apt == DirOf[st'.live] = running /\ st'.plan # slot[DirOf[st'.target]].blob

ToolStep ==
  /\ phase = "up" /\ Tool
  /\ careful' = (careful /\ (st.at = 0 => Apt))
  /\ UNCHANGED <<dawnVars, phase, booting, sealed, file, overrun, last, boots>>

SwitchStep == phase = "up" /\ Switch /\ UNCHANGED <<dawnVars, bootVars>>

\* The machine stops, at any instant, and starts again.
Reboot ==
  /\ boots < MaxBoots
  /\ boots' = boots + 1 /\ phase' = "dawn"
  /\ d' = Begin(machine) /\ UNCHANGED machine
  /\ st' = Idle /\ running' = "none" /\ booting' = "none" /\ sealed' = None /\ file' = NoFile
  /\ UNCHANGED <<slot, exists, current, store, overrun, last, careful>>

Next ==
  \/ DawnStep \/ ReadPointer \/ ReadPlan \/ SpawnPlan
  \/ ToolStep \/ SwitchStep \/ Reboot

Spec == Init /\ [][Next]_vars
==============================================================================
