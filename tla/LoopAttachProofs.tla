-------------------------- MODULE LoopAttachProofs --------------------------
(***************************************************************************)
(* A house that is refused a device has lost it to as many others as it    *)
(* made attempts, for any number of houses, generations and namespaces     *)
(* left behind; and loop_attach()'s bound is enough as long as there are   *)
(* no more images than attempts and no house is started twice.             *)
(***************************************************************************)
EXTENDS LoopAttach, FiniteSetTheorems, TLAPS

USE HousesAssumption, AttemptsAssumption

LEMMA ImageShape ==
    ASSUME NEW m \in Images
    PROVE  /\ m = <<m[1], m[2]>>
           /\ m[1] \in Houses
           /\ m[2] \in {"brick", "store"}
           /\ m[2] = "store" => m[1] \in Stores
  BY DEF Images

LEMMA ImagesFinite == IsFiniteSet(Images) /\ Cardinality(Images) \in Nat
  <1>1. IsFiniteSet(Stores)
    BY FS_Subset
  <1>2. IsFiniteSet({"brick"}) /\ IsFiniteSet({"store"})
    BY FS_Singleton
  <1>3. IsFiniteSet(Houses \X {"brick"}) /\ IsFiniteSet(Stores \X {"store"})
    BY <1>1, <1>2, FS_Product
  <1>4. IsFiniteSet(Images)
    BY <1>3, FS_Union DEF Images
  <1> QED  BY <1>4, FS_CardinalityType

(* What a house starts over with. *)
LEMMA BrickIsImage ==
    ASSUME NEW h \in Houses
    PROVE  <<h, "brick">> \in Images
  BY DEF Images

LEMMA Begins == Init => IInv
  <1> SUFFICES ASSUME Init PROVE IInv
    OBVIOUS
  <1>1. 0 \in Index
    BY ImagesFinite DEF Index
  <1>2. TypeOK
    BY <1>1, BrickIsImage DEF Init, TypeOK
  <1>3. Within /\ LostToOthers /\ LosingIsProgress
    BY DEF Init, Within, LostToOthers, LosingIsProgress
  <1> QED  BY <1>2, <1>3 DEF IInv

(* What an attempt has cost a house, and what its death says. *)
Fair(h) ==
    /\ step[h] = "configure" => attempt[h] < Attempts
    /\ step[h] = "free" => attempt[h] <= rivals[h]
    /\ step[h] = "configure" => attempt[h] + (IF Taken(idx[h]) THEN 1 ELSE 0) <= rivals[h]
    /\ step[h] = "dead" => rivals[h] >= Attempts

LEMMA Parts ==
    /\ IInv => TypeOK /\ \A h \in Houses : Fair(h)
    /\ TypeOK' /\ (\A h \in Houses : Fair(h)') => IInv'
  BY DEF IInv, Within, LostToOthers, LosingIsProgress, Fair

LEMMA Types ==
    ASSUME TypeOK, NEW h \in Houses
    PROVE  /\ step[h] \in {"free", "configure", "up", "over", "dead"}
           /\ attempt[h] \in 0..Attempts /\ idx[h] \in Index /\ rivals[h] \in Nat
           /\ image[h] \in Images /\ image[h][1] = h
  BY DEF TypeOK

(* A house that a step leaves where it is, with devices at most released. *)
LEMMA Stays ==
    ASSUME TypeOK, NEW h \in Houses, Fair(h), Held' \subseteq Held,
           step'[h] = step[h], attempt'[h] = attempt[h], idx'[h] = idx[h], rivals'[h] = rivals[h]
    PROVE  Fair(h)'
  <1>1. Taken(idx[h])' => Taken(idx[h])
    BY DEF Taken
  <1> QED  BY <1>1, Types DEF Fair

LEMMA Inductive == IInv /\ [Next]_vars => IInv'
  <1> SUFFICES ASSUME IInv, [Next]_vars
               PROVE  IInv'
    OBVIOUS
  <1>0. TypeOK /\ \A g \in Houses : Fair(g)
    BY Parts
  <1>1. ASSUME NEW h \in Houses, GetFree(h)
        PROVE  IInv'
    <2> USE <1>1
    <2>1. TypeOK'
      BY <1>0 DEF GetFree, TypeOK
    <2>2. Held' = Held
      BY DEF GetFree, Held
    <2>3. /\ step[h] = "free" /\ step'[h] = "configure" /\ attempt[h] < Attempts
          /\ attempt' = attempt /\ rivals' = rivals
          /\ \A g \in Houses : g # h => step'[g] = step[g] /\ idx'[g] = idx[g]
      BY <1>0 DEF GetFree, TypeOK
    <2>4. ~Taken(idx[h])'
      BY <1>0, <2>2 DEF GetFree, Taken, TypeOK
    <2>5. ASSUME NEW g \in Houses PROVE Fair(g)'
      <3>1. CASE g = h
        BY <1>0, <2>3, <2>4, <3>1, Types DEF Fair
      <3>2. CASE g # h
        BY <1>0, <2>2, <2>3, <3>2, Stays
      <3> QED  BY <3>1, <3>2
    <2> QED  BY <2>1, <2>5, Parts
  <1>2. ASSUME NEW h \in Houses, Attached(h)
        PROVE  IInv'
    <2> USE <1>2
    <2>1. image[h] \in Images /\ image[h][1] = h /\ idx[h] \in Index
      BY <1>0, Types
    <2>2. TypeOK'
      <3>1. device' \subseteq Images \X Index
        BY <1>0, <2>1 DEF Attached, TypeOK
      <3>2. rivals' \in [Houses -> Nat]
        BY <1>0 DEF Attached, TypeOK
      <3>3. CASE image[h] = <<h, "brick">> /\ h \in Stores
        <4>1. <<h, "store">> \in Images
          BY <3>3 DEF Images
        <4>2. image' = [image EXCEPT ![h] = <<h, "store">>]
          BY <3>3 DEF Attached
        <4>3. image' \in [Houses -> Images] /\ \A g \in Houses : image'[g][1] = g
          BY <1>0, <4>1, <4>2 DEF TypeOK
        <4> QED  BY <1>0, <3>1, <3>2, <3>3, <4>3 DEF Attached, TypeOK
      <3>4. CASE ~(image[h] = <<h, "brick">> /\ h \in Stores)
        BY <1>0, <3>1, <3>2, <3>4 DEF Attached, TypeOK
      <3> QED  BY <3>3, <3>4
    <2>3. /\ step'[h] \in {"free", "up"} /\ attempt'[h] = 0 /\ idx' = idx /\ rivals'[h] = 0
          /\ \A g \in Houses : g # h =>
               /\ step'[g] = step[g] /\ attempt'[g] = attempt[g]
               /\ rivals'[g] = IF Attaching(g) THEN rivals[g] + 1 ELSE rivals[g]
      BY <1>0 DEF Attached, TypeOK
    <2>4. ASSUME NEW g \in Houses PROVE Fair(g)'
      <3>1. CASE g = h
        BY <2>3, <3>1 DEF Fair
      <3>2. CASE g # h
        <4>1. /\ step'[g] = step[g] /\ attempt'[g] = attempt[g]
              /\ step[g] \in {"free", "configure"} => rivals'[g] = rivals[g] + 1
              /\ step[g] \notin {"free", "configure"} => rivals'[g] = rivals[g]
          BY <2>3, <3>2 DEF Attaching
        <4>2. step[g] \in {"free", "configure"} => attempt[g] <= rivals[g]
          BY <1>0, Types DEF Fair
        <4> QED  BY <1>0, <4>1, <4>2, Types DEF Fair
      <3> QED  BY <3>1, <3>2
    <2> QED  BY <2>2, <2>4, Parts
  <1>3. ASSUME NEW h \in Houses, Busy(h)
        PROVE  IInv'
    <2> USE <1>3
    <2>1. attempt[h] < Attempts /\ attempt[h] + 1 <= rivals[h]
      BY <1>0 DEF Busy, Fair
    <2>2. TypeOK'
      BY <1>0, <2>1 DEF Busy, TypeOK
    <2>3. /\ step'[h] = "free" /\ attempt'[h] = attempt[h] + 1 /\ rivals' = rivals /\ idx' = idx
          /\ Held' = Held
          /\ \A g \in Houses : g # h => step'[g] = step[g] /\ attempt'[g] = attempt[g]
      BY <1>0 DEF Busy, TypeOK, Held
    <2>4. ASSUME NEW g \in Houses PROVE Fair(g)'
      <3>1. CASE g = h
        BY <2>1, <2>3, <3>1 DEF Fair
      <3>2. CASE g # h
        BY <1>0, <2>3, <3>2, Stays
      <3> QED  BY <3>1, <3>2
    <2> QED  BY <2>2, <2>4, Parts
  <1>4. ASSUME NEW h \in Houses, GiveUp(h)
        PROVE  IInv'
    <2> USE <1>4
    <2>1. TypeOK'
      BY <1>0 DEF GiveUp, TypeOK
    <2>2. /\ step[h] = "free" /\ attempt[h] = Attempts /\ step'[h] = "dead"
          /\ attempt' = attempt /\ rivals' = rivals /\ idx' = idx /\ Held' \subseteq Held
          /\ \A g \in Houses : g # h => step'[g] = step[g]
      BY <1>0 DEF GiveUp, TypeOK, Held
    <2>3. ASSUME NEW g \in Houses PROVE Fair(g)'
      <3>1. CASE g = h
        BY <1>0, <2>2, <3>1, Types DEF Fair
      <3>2. CASE g # h
        BY <1>0, <2>2, <3>2, Stays
      <3> QED  BY <3>1, <3>2
    <2> QED  BY <2>1, <2>3, Parts
  <1>5. ASSUME NEW h \in Houses, HouseEnds(h)
        PROVE  IInv'
    <2> USE <1>5
    <2>1. Mine(h) \subseteq device
      BY DEF Mine
    <2>2. TypeOK' /\ Held' \subseteq Held
      BY <1>0, <2>1 DEF HouseEnds, TypeOK, Held
    <2>3. /\ step'[h] = "over" /\ attempt' = attempt /\ rivals' = rivals /\ idx' = idx
          /\ \A g \in Houses : g # h => step'[g] = step[g]
      BY <1>0 DEF HouseEnds, TypeOK
    <2>4. ASSUME NEW g \in Houses PROVE Fair(g)'
      <3>1. CASE g = h
        BY <2>3, <3>1 DEF Fair
      <3>2. CASE g # h
        BY <1>0, <2>2, <2>3, <3>2, Stays
      <3> QED  BY <3>1, <3>2
    <2> QED  BY <2>2, <2>4, Parts
  <1>6. ASSUME NEW h \in Houses, NextGeneration(h)
        PROVE  IInv'
    <2> USE <1>6
    <2>1. TypeOK'
      BY <1>0, BrickIsImage DEF NextGeneration, TypeOK
    <2>2. /\ step'[h] = "free" /\ attempt'[h] = 0 /\ rivals'[h] = 0 /\ idx' = idx /\ Held' = Held
          /\ \A g \in Houses : g # h => step'[g] = step[g] /\ attempt'[g] = attempt[g] /\ rivals'[g] = rivals[g]
      BY <1>0 DEF NextGeneration, TypeOK, Held
    <2>3. ASSUME NEW g \in Houses PROVE Fair(g)'
      <3>1. CASE g = h
        BY <2>2, <3>1 DEF Fair
      <3>2. CASE g # h
        BY <1>0, <2>2, <3>2, Stays
      <3> QED  BY <3>1, <3>2
    <2> QED  BY <2>1, <2>3, Parts
  <1>7. ASSUME NamespaceDies
        PROVE  IInv'
    <2> USE <1>7
    <2>1. TypeOK' /\ Held' \subseteq Held
      BY <1>0 DEF NamespaceDies, TypeOK, Held
    <2>2. UNCHANGED <<step, attempt, idx, rivals>>
      BY DEF NamespaceDies
    <2> QED  BY <1>0, <2>1, <2>2, Stays, Parts
  <1>8. ASSUME UNCHANGED vars
        PROVE  IInv'
    <2>1. TypeOK' /\ Held' = Held
      BY <1>0, <1>8 DEF vars, TypeOK, Held
    <2> QED  BY <1>0, <1>8, <2>1, Stays, Parts DEF vars
  <1> QED  BY <1>1, <1>2, <1>3, <1>4, <1>5, <1>6, <1>7, <1>8 DEF Next, House

(* The houses' state is well formed at every step of loop_attach(), for    *)
(* any set of houses.                                                      *)
THEOREM Typing == Spec => []TypeOK
  <1>1. IInv => TypeOK
    BY DEF IInv
  <1> QED  BY <1>1, Begins, Inductive, PTL DEF Spec

(* A house dies for want of a device only after losing it to as many other *)
(* houses' devices as it has attempts, for any number of houses attaching, *)
(* ending, leaving namespaces behind and starting over.                    *)
THEOREM NoAttemptWasted == Spec => []LosingIsProgress
  <1>1. IInv => LosingIsProgress
    BY DEF IInv
  <1> QED  BY <1>1, Begins, Inductive, PTL DEF Spec

----------------------------------------------------------------------------
LEMMA DoneFinite ==
    /\ Done \subseteq Images
    /\ IsFiniteSet(Done)
    /\ Cardinality(Done) \in Nat
  <1>1. Done \subseteq Images
    BY DEF Done
  <1> QED  BY <1>1, ImagesFinite, FS_Subset, FS_CardinalityType

(* A house that is attaching has an image to go. *)
LEMMA OneMissing ==
    ASSUME TypeOK, NEW h \in Houses, Attaching(h)
    PROVE  Cardinality(Done) < Cardinality(Images)
  <1>1. image[h] \in Images \ Done
    BY Types DEF Done
  <1>2. Done \subseteq Images /\ Done # Images
    BY <1>1, DoneFinite
  <1>3. Cardinality(Done) <= Cardinality(Images) /\ Cardinality(Done) # Cardinality(Images)
    BY <1>2, ImagesFinite, FS_Subset
  <1> QED  BY <1>3, DoneFinite, ImagesFinite

Enough == MaxStarts = 0 /\ Cardinality(Images) <= Attempts

(* A device more is an image less to go. *)
LEMMA AttachedCounts ==
    ASSUME TypeOK, NEW h \in Houses, Attached(h)
    PROVE  Cardinality(Done)' = Cardinality(Done) + 1
  <1>1. image[h] \in Images /\ image[h][1] = h /\ Attaching(h)
    BY Types DEF Attached, Attaching
  <1>2. image[h] = <<h, "brick">> \/ (image[h] = <<h, "store">> /\ h \in Stores)
    BY <1>1, ImageShape
  <1>3. \A g \in Houses : g # h => Attaching(g)' = Attaching(g) /\ image'[g] = image[g]
    BY DEF Attached, TypeOK, Attaching
  <1>4. ASSUME NEW m \in Images PROVE m \in Done' <=> m \in Done \/ m = image[h]
    <2>1. m = <<m[1], m[2]>> /\ m[1] \in Houses /\ m[2] \in {"brick", "store"}
          /\ (m[2] = "store" => m[1] \in Stores)
      BY ImageShape
    <2>2. CASE m[1] # h
      <3>1. m # image[h]
        BY <1>1, <2>2
      <3> QED  BY <1>3, <2>1, <2>2, <3>1 DEF Done
    <2>3. CASE m[1] = h /\ image[h] = <<h, "brick">> /\ h \in Stores
      <3>1. Attaching(h)' /\ image'[h] = <<h, "store">>
        BY <2>3 DEF Attached, TypeOK, Attaching
      <3>2. m \in Done' <=> m[2] = "brick"
        BY <2>1, <2>3, <3>1 DEF Done
      <3>3. m \notin Done
        BY <1>1, <2>1, <2>3 DEF Done
      <3> QED  BY <2>1, <2>3, <3>2, <3>3
    <2>4. CASE m[1] = h /\ image[h] = <<h, "brick">> /\ h \notin Stores
      <3>1. ~Attaching(h)'
        BY <2>4 DEF Attached, TypeOK, Attaching
      <3>2. m \in Done' /\ m = image[h]
        BY <2>1, <2>4, <3>1 DEF Done
      <3> QED  BY <3>2
    <2>5. CASE m[1] = h /\ image[h] = <<h, "store">>
      <3>1. ~Attaching(h)'
        BY <2>5 DEF Attached, TypeOK, Attaching
      <3>2. m \in Done'
        BY <2>5, <3>1 DEF Done
      <3>3. m \in Done <=> m[2] = "brick"
        BY <1>1, <2>1, <2>5 DEF Done
      <3> QED  BY <2>1, <2>5, <3>2, <3>3
    <2> QED  BY <1>2, <2>2, <2>3, <2>4, <2>5
  <1>5. Done' \subseteq Images
    BY DEF Done
  <1>6. Done' = Done \union {image[h]} /\ image[h] \notin Done
    <2>1. Done' = Done \union {image[h]}
      BY <1>1, <1>4, <1>5, DoneFinite
    <2>2. image[h] \notin Done
      BY <1>1 DEF Done
    <2> QED  BY <2>1, <2>2
  <1> QED  BY <1>6, DoneFinite, FS_AddElement

LEMMA CountInductive ==
    ASSUME Enough, IInv, Counted, BoundSuffices, [Next]_vars
    PROVE  Counted' /\ BoundSuffices'
  <1>0. TypeOK /\ \A g \in Houses : Fair(g) /\ step[g] # "dead" /\ (Attaching(g) => rivals[g] <= Cardinality(Done))
    BY Parts DEF Counted, BoundSuffices
  <1>1. ASSUME NEW h \in Houses, GetFree(h) \/ Busy(h)
        PROVE  Counted' /\ BoundSuffices'
    <2>1. /\ image' = image /\ rivals' = rivals /\ \A g \in Houses : step'[g] # "dead"
          /\ \A g \in Houses : Attaching(g)' = Attaching(g)
      BY <1>0, <1>1 DEF GetFree, Busy, TypeOK, Attaching
    <2>2. Done' = Done
      BY <2>1, ImageShape DEF Done
    <2> QED  BY <1>0, <2>1, <2>2 DEF Counted, BoundSuffices
  <1>2. ASSUME NEW h \in Houses, Attached(h)
        PROVE  Counted' /\ BoundSuffices'
    <2> USE <1>2
    <2>1. Cardinality(Done)' = Cardinality(Done) + 1 /\ Cardinality(Done) \in Nat
      BY <1>0, AttachedCounts, DoneFinite
    <2>2. /\ step'[h] # "dead" /\ rivals'[h] = 0
          /\ \A g \in Houses : g # h =>
               /\ step'[g] = step[g] /\ Attaching(g)' = Attaching(g)
               /\ rivals'[g] = IF Attaching(g) THEN rivals[g] + 1 ELSE rivals[g]
      BY <1>0 DEF Attached, TypeOK, Attaching
    <2>3. ASSUME NEW g \in Houses PROVE step'[g] # "dead" /\ (Attaching(g)' => rivals'[g] <= Cardinality(Done)')
      <3>1. CASE g = h
        BY <2>1, <2>2, <3>1
      <3>2. CASE g # h
        BY <1>0, <2>1, <2>2, <3>2, Types
      <3> QED  BY <3>1, <3>2
    <2> QED  BY <2>3 DEF Counted, BoundSuffices
  <1>3. ASSUME NEW h \in Houses, GiveUp(h)
        PROVE  FALSE
    <2>1. attempt[h] = Attempts /\ attempt[h] <= rivals[h] /\ Attaching(h)
      BY <1>0, <1>3 DEF GiveUp, Fair, Attaching
    <2>2. rivals[h] <= Cardinality(Done) /\ Cardinality(Done) < Cardinality(Images)
      BY <1>0, <2>1, OneMissing
    <2> QED  BY <1>0, <2>1, <2>2, DoneFinite, ImagesFinite, Types DEF Enough
  <1>4. ASSUME NEW h \in Houses, HouseEnds(h)
        PROVE  Counted' /\ BoundSuffices'
    <2>1. /\ image' = image /\ rivals' = rivals /\ \A g \in Houses : step'[g] # "dead"
          /\ \A g \in Houses : Attaching(g)' = Attaching(g)
      BY <1>0, <1>4 DEF HouseEnds, TypeOK, Attaching
    <2>2. Done' = Done
      BY <2>1, ImageShape DEF Done
    <2> QED  BY <1>0, <2>1, <2>2 DEF Counted, BoundSuffices
  <1>5. ASSUME NEW h \in Houses, NextGeneration(h)
        PROVE  FALSE
    BY <1>0, <1>5 DEF NextGeneration, Enough, TypeOK
  <1>6. ASSUME NamespaceDies \/ UNCHANGED vars
        PROVE  Counted' /\ BoundSuffices'
    <2>1. UNCHANGED <<step, image, rivals>>
      BY <1>6 DEF NamespaceDies, vars
    <2>2. Done' = Done /\ \A g \in Houses : Attaching(g)' = Attaching(g)
      BY <2>1 DEF Done, Attaching
    <2> QED  BY <1>0, <2>1, <2>2 DEF Counted, BoundSuffices
  <1> QED  BY <1>1, <1>2, <1>3, <1>4, <1>5, <1>6 DEF Next, House

(* NW_MAX_UNITS attempts are enough for any number of houses that have no  *)
(* more images between them, none of which is started a second time: every *)
(* lost attempt was lost to another image that needs no device any more.   *)
THEOREM BoundIsEnough ==
    ASSUME Enough
    PROVE  Spec => []BoundSuffices
  <1>1. Init => Counted /\ BoundSuffices
    <2> SUFFICES ASSUME Init PROVE Counted /\ BoundSuffices
      OBVIOUS
    <2> QED  BY DoneFinite DEF Init, Counted, BoundSuffices
  <1>2. IInv /\ Counted /\ BoundSuffices /\ [Next]_vars => Counted' /\ BoundSuffices'
    BY CountInductive
  <1> QED  BY <1>1, <1>2, Begins, Inductive, PTL DEF Spec
=============================================================================
