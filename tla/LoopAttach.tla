----------------------------- MODULE LoopAttach -----------------------------
(***************************************************************************)
(* The houses of a city take loop devices for their images, all at once:   *)
(* one for the brick, and a second for the store of a layer with a size.   *)
(* LOOP_CTL_GET_FREE only reports an index, so whoever configures it first *)
(* has it and everybody else is told EBUSY and asks again, as often as     *)
(* loop_attach() allows.  A device is AUTOCLEAR: it goes with the mount    *)
(* namespace that holds it, which is that of the house and of whatever the *)
(* house has left behind.  Every other failure on the way is a die() that  *)
(* leaves no device behind.                                                *)
(***************************************************************************)
EXTENDS Integers, FiniteSets

CONSTANTS
    Houses,    \* the houses with a brick
    Stores,    \* those whose plan sizes their layer
    Attempts,  \* the bound of the retry loop (NW_MAX_UNITS)
    MaxStarts  \* bound: further generations, of all houses together

ASSUME HousesAssumption == IsFiniteSet(Houses) /\ Stores \subseteq Houses
ASSUME AttemptsAssumption == Attempts \in Nat \ {0} /\ MaxStarts \in Nat

(* An image to be attached: whose it is and which of the two. *)
Images == (Houses \X {"brick"}) \union (Stores \X {"store"})

(* The kernel makes devices as they are needed: no more than are ever held. *)
Index == 0..(Cardinality(Images) + 2 * MaxStarts)

VARIABLES
    step,     \* where each house stands in loop_attach
    image,    \* the image it is attaching
    attempt,  \* attempts behind it
    idx,      \* the index GET_FREE last gave it
    device,   \* the images of the generations there are, with their index
    old,      \* the devices in the namespaces that dead generations have left
    starts,   \* further generations so far
    rivals    \* history: devices configured by others since this loop_attach began

vars == <<step, image, attempt, idx, device, old, starts, rivals>>

Init ==
    /\ step = [h \in Houses |-> "free"]
    /\ image = [h \in Houses |-> <<h, "brick">>]
    /\ attempt = [h \in Houses |-> 0]
    /\ idx = [h \in Houses |-> 0]
    /\ device = {}
    /\ old = {}
    /\ starts = 0
    /\ rivals = [h \in Houses |-> 0]

Held == device \union UNION old
Taken(i) == \E m \in Images : <<m, i>> \in Held
Mine(h) == {d \in device : d[1][1] = h}
Attaching(h) == step[h] \in {"free", "configure"}

(* LOOP_CTL_GET_FREE: the lowest free index, free at that moment. *)
GetFree(h) ==
    /\ step[h] = "free"
    /\ attempt[h] < Attempts
    /\ \E i \in Index :
          /\ ~Taken(i)
          /\ \A j \in 0..(i - 1) : Taken(j)
          /\ idx' = [idx EXCEPT ![h] = i]
    /\ step' = [step EXCEPT ![h] = "configure"]
    /\ UNCHANGED <<image, attempt, device, old, starts, rivals>>

(* LOOP_CONFIGURE succeeds and the image is mounted; a house whose layer   *)
(* has a size comes back for its store.                                    *)
Attached(h) ==
    /\ step[h] = "configure"
    /\ ~Taken(idx[h])
    /\ device' = device \union {<<image[h], idx[h]>>}
    /\ attempt' = [attempt EXCEPT ![h] = 0]
    /\ rivals' = [g \in Houses |-> IF g = h THEN 0 ELSE IF Attaching(g) THEN rivals[g] + 1 ELSE rivals[g]]
    /\ IF image[h] = <<h, "brick">> /\ h \in Stores
       THEN /\ image' = [image EXCEPT ![h] = <<h, "store">>]
            /\ step' = [step EXCEPT ![h] = "free"]
       ELSE /\ step' = [step EXCEPT ![h] = "up"]
            /\ UNCHANGED image
    /\ UNCHANGED <<idx, old, starts>>

(* The same index configured again, without an end. *)
Busy_Forever(h) ==
    /\ step[h] = "configure"
    /\ Taken(idx[h])
    /\ UNCHANGED vars

(* The same index configured again, as often as is allowed. *)
Busy_SameIndex(h) ==
    /\ step[h] = "configure"
    /\ Taken(idx[h])
    /\ attempt' = [attempt EXCEPT ![h] = @ + 1]
    /\ step' = [step EXCEPT ![h] = IF attempt[h] + 1 < Attempts THEN "configure" ELSE "free"]
    /\ UNCHANGED <<image, idx, device, old, starts, rivals>>

(* EBUSY: the device is dropped and another index asked for. *)
Busy(h) ==
    /\ step[h] = "configure"
    /\ Taken(idx[h])
    /\ attempt' = [attempt EXCEPT ![h] = @ + 1]
    /\ step' = [step EXCEPT ![h] = "free"]
    /\ UNCHANGED <<image, idx, device, old, starts, rivals>>

(* die("loop configure: no free device"), before the house has forked      *)
(* anything: AUTOCLEAR frees what it had.                                  *)
GiveUp(h) ==
    /\ step[h] = "free"
    /\ attempt[h] = Attempts
    /\ step' = [step EXCEPT ![h] = "dead"]
    /\ device' = device \ Mine(h)
    /\ UNCHANGED <<image, attempt, idx, old, starts, rivals>>

(* A house ends.  What it has forked and not reaped keeps its namespace,   *)
(* and with it the devices: the sweep kills but does not wait.             *)
HouseEnds(h) ==
    /\ step[h] = "up"
    /\ step' = [step EXCEPT ![h] = "over"]
    /\ device' = device \ Mine(h)
    /\ old' \in {old, old \union {Mine(h)}}
    /\ UNCHANGED <<image, attempt, idx, starts, rivals>>

(* The last process of such a namespace is gone. *)
NamespaceDies ==
    /\ \E n \in old : old' = old \ {n}
    /\ UNCHANGED <<step, image, attempt, idx, device, starts, rivals>>

(* nw-sup forks the next generation, which starts over. *)
NextGeneration(h) ==
    /\ step[h] \in {"over", "dead"}
    /\ starts < MaxStarts
    /\ starts' = starts + 1
    /\ step' = [step EXCEPT ![h] = "free"]
    /\ image' = [image EXCEPT ![h] = <<h, "brick">>]
    /\ attempt' = [attempt EXCEPT ![h] = 0]
    /\ rivals' = [rivals EXCEPT ![h] = 0]
    /\ UNCHANGED <<idx, device, old>>

House(h) == GetFree(h) \/ Attached(h) \/ Busy(h) \/ GiveUp(h)

Next ==
    \/ \E h \in Houses : House(h) \/ HouseEnds(h) \/ NextGeneration(h)
    \/ NamespaceDies

Spec == Init /\ [][Next]_vars

(* A house is scheduled until it has what it came for. *)
FairSpec == Spec /\ \A h \in Houses : WF_vars(House(h))

----------------------------------------------------------------------------
(* A house's loop counter, image and devices are values loop_attach() can  *)
(* have.                                                                   *)
TypeOK ==
    /\ step \in [Houses -> {"free", "configure", "up", "over", "dead"}]
    /\ image \in [Houses -> Images]
    /\ \A h \in Houses : image[h][1] = h
    /\ attempt \in [Houses -> 0..Attempts]
    /\ idx \in [Houses -> Index]
    /\ device \subseteq Images \X Index
    /\ old \subseteq SUBSET (Images \X Index)
    /\ starts \in 0..MaxStarts
    /\ rivals \in [Houses -> Nat]

(* nwsup.c, lid_brick: "losing means some other house won that index,      *)
(* which is progress".  A house that dies for want of a device has seen as *)
(* many devices go to others, since it began to attach this image, as it   *)
(* has made attempts: no attempt is wasted on an index that was gone when  *)
(* it was asked for, and none is charged to the same winner twice, whoever *)
(* ends or starts meanwhile.                                               *)
LosingIsProgress == \A h \in Houses : step[h] = "dead" => rivals[h] >= Attempts

(* nwsup.c, lid_brick: NW_MAX_UNITS attempts "is enough for every one of   *)
(* them to have taken theirs": no house is refused a device for want of    *)
(* attempts.                                                               *)
BoundSuffices == \A h \in Houses : step[h] # "dead"

(* loop_attach() ends however often the race is lost: a house gets its     *)
(* devices, or is refused one after the last attempt.                      *)
AttachEnds == \A h \in Houses : step[h] = "free" ~> step[h] \in {"up", "dead"}
----------------------------------------------------------------------------
(* The parts of the inductive invariant. *)

(* An attempt under way is one of those allowed. *)
Within == \A h \in Houses : step[h] = "configure" => attempt[h] < Attempts

(* Every lost attempt has a winner of its own, and so will the one that is *)
(* about to be lost.                                                       *)
LostToOthers ==
    \A h \in Houses :
        /\ step[h] = "free" => attempt[h] <= rivals[h]
        /\ step[h] = "configure" => attempt[h] + (IF Taken(idx[h]) THEN 1 ELSE 0) <= rivals[h]

IInv == TypeOK /\ Within /\ LostToOthers /\ LosingIsProgress

(* The images whose loop_attach() is behind their house. *)
Done ==
    {m \in Images : ~Attaching(m[1]) \/ (m[2] = "brick" /\ image[m[1]] # m)}

(* Without a second generation the rivals are images, each of them once. *)
Counted == \A h \in Houses : Attaching(h) => rivals[h] <= Cardinality(Done)
=============================================================================
