----------------------------- MODULE CityProofs -----------------------------
(***************************************************************************)
(* The invariants of PID 1's city, for any number of units and any length  *)
(* of the grace windows.                                                   *)
(***************************************************************************)
EXTENDS CityProps, TLAPS

USE UnitsAssumption, BoundsAssumption

(* The two halves of the type invariant, a leaf each in the proof below. *)
ScalarsOK ==
    /\ pc \in Booting \union Opened \union {"reap", "off", "halted"}
    /\ ret \in {"poll", "graceLook", "drainLook", "off"}
    /\ tick \in 0..GraceTicks
    /\ made \in 0..N /\ held \subseteq Units /\ reportw \in BOOLEAN
    /\ sig \subseteq Signals \union {"CHLD"} /\ sigs \in 0..MaxSignals
    /\ termed \subseteq Units /\ killed \subseteq Units /\ shot \subseteq Units
    /\ spawner \in {"none", "spawning", "reporting", "zombie", "gone"}
    /\ spun \in 0..N /\ clean \in BOOLEAN /\ sent \in 0..2
MapsOK ==
    /\ hrec \in [Units -> BOOLEAN] /\ lrec \in [Units -> BOOLEAN]
    /\ tally \in [Units -> {"none", "house", "orphan"}]
    /\ sup \in [Units -> {"none", "packing", "up", "zombie", "gone"}]
    /\ kin \in [Units -> {"none", "up", "zombie", "gone"}]
    /\ logger \in [Units -> {"none", "up", "zombie", "gone"}]
    /\ lheld \in [Units -> SUBSET Units]
    /\ written \in [Units -> 0..MaxLines] /\ relayed \in [Units -> 0..MaxLines]

LEMMA Begins == Init => IInv
  <1> SUFFICES ASSUME Init PROVE IInv
    OBVIOUS
  <1>0. TypeOK
    <2>1. made \in 0..N /\ spun \in 0..N /\ tick \in 0..GraceTicks /\ sigs \in 0..MaxSignals
      BY DEF Init
    <2>2. written \in [Units -> 0..MaxLines] /\ relayed \in [Units -> 0..MaxLines]
      BY DEF Init
    <2>3. lheld \in [Units -> SUBSET Units]
      BY DEF Init
    <2>4. hrec \in [Units -> BOOLEAN] /\ lrec \in [Units -> BOOLEAN]
      BY DEF Init
    <2>5. tally \in [Units -> {"none", "house", "orphan"}]
      BY DEF Init
    <2>6. /\ sup \in [Units -> {"none", "packing", "up", "zombie", "gone"}]
          /\ kin \in [Units -> {"none", "up", "zombie", "gone"}]
          /\ logger \in [Units -> {"none", "up", "zombie", "gone"}]
      BY DEF Init
    <2>7. /\ pc \in Booting \union Opened \union {"reap", "off", "halted"}
          /\ ret \in {"poll", "graceLook", "drainLook", "off"}
          /\ spawner \in {"none", "spawning", "reporting", "zombie", "gone"}
          /\ sent \in 0..2
      BY DEF Init, Booting
    <2>8. /\ held \subseteq Units /\ sig \subseteq Signals \union {"CHLD"}
          /\ termed \subseteq Units /\ killed \subseteq Units /\ shot \subseteq Units
      BY DEF Init
    <2>9. reportw \in BOOLEAN /\ clean \in BOOLEAN
      BY DEF Init
    <2> QED  BY <2>1, <2>2, <2>3, <2>4, <2>5, <2>6, <2>7, <2>8, <2>9, Zenon DEF TypeOK
  <1>1. BootOrder /\ Reported /\ Recorded
    BY DEF Init, BootOrder, Reported, Recorded, Units
  <1>2. OpenMeansWhole /\ EndedLogs /\ ShutdownOrder /\ KillAfterTerm
    BY DEF Init, OpenMeansWhole, Opened, EndedLogs, ShutdownOrder, At, KillAfterTerm
  <1> QED  BY <1>0, <1>1, <1>2 DEF IInv

(* One step per action, one leaf per part of the invariant it can disturb. *)
LEMMA Inductive == IInv /\ [Next]_vars => IInv'
  <1> SUFFICES ASSUME IInv, [Next]_vars
               PROVE  IInv'
    OBVIOUS
  <1>1. ASSUME SpawnLogger
        PROVE  IInv'
    <2> USE <1>1
    <2>1. TypeOK'
      <3> USE DEF IInv, TypeOK, SpawnLogger, Booting, Opened, Signals, Units,
           control, signals, deadly, spawning, children
      <3>1. ScalarsOK'  BY DEF ScalarsOK
      <3>2. MapsOK'  BY DEF MapsOK
      <3> QED  BY <3>1, <3>2 DEF ScalarsOK, MapsOK
    <2>2. BootOrder'
      BY DEF IInv, BootOrder, TypeOK, Units, SpawnLogger, control, signals,
         deadly, spawning, children, Booting, Opened, Signals
    <2>3. Recorded'
      BY DEF IInv, Recorded, TypeOK, SpawnLogger, Booting, Units, control,
         signals, deadly, spawning, children, Opened, Signals
    <2>4. EndedLogs'
      BY DEF IInv, EndedLogs, TypeOK, BootOrder, Recorded, Units,
         SpawnLogger, HasWriter, control, signals, deadly, spawning, children,
         Booting, Opened, Signals
    <2>5. ShutdownOrder'
      BY DEF IInv, ShutdownOrder, TypeOK, Units, SpawnLogger, At, control,
         signals, deadly, spawning, children, Booting, Opened, Signals
    <2>6. Reported' /\ OpenMeansWhole' /\ KillAfterTerm'
      BY DEF IInv, Reported, OpenMeansWhole, KillAfterTerm, SpawnLogger,
         control, signals, deadly, spawning, children, Units, Opened, Booting
    <2> QED  BY <2>1, <2>2, <2>3, <2>4, <2>5, <2>6 DEF IInv
  <1>2. ASSUME ForkSpawner
        PROVE  IInv'
    <2> USE <1>2
    <2>1. TypeOK'
      <3> USE DEF IInv, TypeOK, ForkSpawner, Booting, Opened, Signals, Units,
           signals, record, deadly, children, logs
      <3>1. ScalarsOK'  BY DEF ScalarsOK
      <3>2. MapsOK'  BY DEF MapsOK
      <3> QED  BY <3>1, <3>2 DEF ScalarsOK, MapsOK
    <2>2. BootOrder'
      BY DEF IInv, BootOrder, TypeOK, Units, ForkSpawner, signals, record,
         deadly, children, logs, Booting, Opened, Signals
    <2>3. Reported'
      BY DEF IInv, Reported, TypeOK, BootOrder, ForkSpawner, Units, signals,
         record, deadly, children, logs, Booting, Opened, Signals
    <2>4. Recorded'
      BY DEF IInv, Recorded, TypeOK, ForkSpawner, Booting, Units, signals,
         record, deadly, children, logs, Opened, Signals
    <2>5. OpenMeansWhole'
      BY DEF IInv, OpenMeansWhole, TypeOK, ForkSpawner, Opened, Booting,
         signals, record, deadly, children, logs, Signals, Units
    <2>6. EndedLogs'
      BY DEF IInv, EndedLogs, TypeOK, BootOrder, Units, ForkSpawner,
         HasWriter, signals, record, deadly, children, logs, Booting, Opened,
         Signals
    <2>7. ShutdownOrder'
      BY DEF IInv, ShutdownOrder, TypeOK, ForkSpawner, At, signals, record,
         deadly, children, logs, Booting, Opened, Signals, Units
    <2>8. KillAfterTerm'
      BY DEF IInv, KillAfterTerm, ForkSpawner, signals, record, deadly,
         children, logs
    <2> QED  BY <2>1, <2>2, <2>3, <2>4, <2>5, <2>6, <2>7, <2>8 DEF IInv
  <1>3. ASSUME BootFails
        PROVE  IInv'
    <2> USE <1>3
    <2>1. TypeOK'
      <3> USE DEF IInv, TypeOK, BootFails, Booting, Opened, Signals, Units,
           boot, signals, record, deadly, spawning, children, logs
      <3>1. ScalarsOK'  BY DEF ScalarsOK
      <3>2. MapsOK'  BY DEF MapsOK
      <3> QED  BY <3>1, <3>2 DEF ScalarsOK, MapsOK
    <2>2. BootOrder'
      BY DEF IInv, BootOrder, TypeOK, BootFails, Units, boot, signals,
         record, deadly, spawning, children, logs, Booting, Opened, Signals
    <2>3. Recorded'
      BY DEF IInv, Recorded, TypeOK, BootFails, Booting, Units, boot,
         signals, record, deadly, spawning, children, logs, Opened, Signals
    <2>4. OpenMeansWhole'
      BY DEF IInv, OpenMeansWhole, TypeOK, BootFails, Opened, Booting, boot,
         signals, record, deadly, spawning, children, logs, Signals, Units
    <2>5. ShutdownOrder'
      BY DEF IInv, ShutdownOrder, TypeOK, BootFails, At, boot, signals,
         record, deadly, spawning, children, logs, Booting, Opened, Signals,
         Units
    <2>6. Reported' /\ EndedLogs' /\ KillAfterTerm'
      BY DEF IInv, Reported, EndedLogs, KillAfterTerm, BootFails, boot,
         signals, record, deadly, spawning, children, logs, Units, HasWriter
    <2> QED  BY <2>1, <2>2, <2>3, <2>4, <2>5, <2>6 DEF IInv
  <1>4. ASSUME CloseWriteEnds
        PROVE  IInv'
    <2> USE <1>4
    <2>1. TypeOK'
      <3> USE DEF IInv, TypeOK, CloseWriteEnds, Booting, Opened, Signals,
           Units, signals, record, deadly, spawning, children, logs
      <3>1. ScalarsOK'  BY DEF ScalarsOK
      <3>2. MapsOK'  BY DEF MapsOK
      <3> QED  BY <3>1, <3>2 DEF ScalarsOK, MapsOK
    <2>2. BootOrder'
      BY DEF IInv, BootOrder, TypeOK, CloseWriteEnds, Units, signals,
         record, deadly, spawning, children, logs, Booting, Opened, Signals
    <2>3. Recorded'
      BY DEF IInv, Recorded, TypeOK, CloseWriteEnds, Booting, Units,
         signals, record, deadly, spawning, children, logs, Opened, Signals
    <2>4. OpenMeansWhole'
      BY DEF IInv, OpenMeansWhole, TypeOK, CloseWriteEnds, Opened, Booting,
         signals, record, deadly, spawning, children, logs, Signals, Units
    <2>5. EndedLogs'
      BY DEF IInv, EndedLogs, TypeOK, CloseWriteEnds, HasWriter, signals,
         record, deadly, spawning, children, logs, Booting, Opened, Signals,
         Units
    <2>6. ShutdownOrder'
      BY DEF IInv, ShutdownOrder, TypeOK, CloseWriteEnds, At, signals,
         record, deadly, spawning, children, logs, Booting, Opened, Signals,
         Units
    <2>7. Reported' /\ KillAfterTerm'
      BY DEF IInv, Reported, KillAfterTerm, CloseWriteEnds, signals, record,
         deadly, spawning, children, logs, Units
    <2> QED  BY <2>1, <2>2, <2>3, <2>4, <2>5, <2>6, <2>7 DEF IInv
  <1>5. ASSUME ReadCount
        PROVE  IInv'
    <2> USE <1>5
    <2>1. TypeOK'
      <3> USE DEF IInv, TypeOK, ReadCount, Booting, Opened, Signals, Units,
           boot, signals, record, deadly, spawning, children, logs
      <3>1. ScalarsOK'  BY DEF ScalarsOK
      <3>2. MapsOK'  BY DEF MapsOK
      <3> QED  BY <3>1, <3>2 DEF ScalarsOK, MapsOK
    <2>2. BootOrder'
      BY DEF IInv, BootOrder, TypeOK, ReadCount, Units, boot, signals,
         record, deadly, spawning, children, logs, Booting, Opened, Signals
    <2>3. Recorded'
      BY DEF IInv, Recorded, TypeOK, ReadCount, Booting, Units, boot,
         signals, record, deadly, spawning, children, logs, Opened, Signals
    <2>4. OpenMeansWhole'
      BY DEF IInv, OpenMeansWhole, TypeOK, ReadCount, Opened, Booting, boot,
         signals, record, deadly, spawning, children, logs, Signals, Units
    <2>5. ShutdownOrder'
      BY DEF IInv, ShutdownOrder, TypeOK, ReadCount, At, boot, signals,
         record, deadly, spawning, children, logs, Booting, Opened, Signals,
         Units
    <2>6. Reported' /\ EndedLogs' /\ KillAfterTerm'
      BY DEF IInv, Reported, EndedLogs, KillAfterTerm, ReadCount, boot,
         signals, record, deadly, spawning, children, logs, Units, HasWriter
    <2> QED  BY <2>1, <2>2, <2>3, <2>4, <2>5, <2>6 DEF IInv
  <1>6. ASSUME ReadPids
        PROVE  IInv'
    <2> USE <1>6
    <2>1. TypeOK'
      <3> USE DEF IInv, TypeOK, ReadPids, Booting, Opened, Signals, Units,
           boot, signals, deadly, spawning, children, logs
      <3>1. ScalarsOK'  BY DEF ScalarsOK
      <3>2. MapsOK'  BY DEF MapsOK
      <3> QED  BY <3>1, <3>2 DEF ScalarsOK, MapsOK
    <2>2. BootOrder'
      BY DEF IInv, BootOrder, TypeOK, Units, ReadPids, boot, signals,
         deadly, spawning, children, logs, Booting, Opened, Signals
    <2>3. Recorded'
      BY DEF IInv, Recorded, TypeOK, Reported, ReadPids, Booting, Units,
         boot, signals, deadly, spawning, children, logs, Opened, Signals
    <2>4. OpenMeansWhole'
      BY DEF IInv, OpenMeansWhole, TypeOK, ReadPids, Opened, Booting, boot,
         signals, deadly, spawning, children, logs, Signals, Units
    <2>5. ShutdownOrder'
      BY DEF IInv, ShutdownOrder, TypeOK, ReadPids, At, boot, signals,
         deadly, spawning, children, logs, Booting, Opened, Signals, Units
    <2>6. Reported' /\ EndedLogs' /\ KillAfterTerm'
      BY DEF IInv, Reported, EndedLogs, KillAfterTerm, ReadPids, boot,
         signals, deadly, spawning, children, logs, Units, HasWriter
    <2> QED  BY <2>1, <2>2, <2>3, <2>4, <2>5, <2>6 DEF IInv
  <1>7. ASSUME ReportEnds
        PROVE  IInv'
    <2> USE <1>7
    <2>1. TypeOK'
      <3> USE DEF IInv, TypeOK, ReportEnds, Booting, Opened, Signals, Units,
           boot, signals, record, deadly, spawning, children, logs
      <3>1. ScalarsOK'  BY DEF ScalarsOK
      <3>2. MapsOK'  BY DEF MapsOK
      <3> QED  BY <3>1, <3>2 DEF ScalarsOK, MapsOK
    <2>2. BootOrder'
      BY DEF IInv, BootOrder, TypeOK, ReportEnds, Units, boot, signals,
         record, deadly, spawning, children, logs, Booting, Opened, Signals
    <2>3. Recorded'
      BY DEF IInv, Recorded, TypeOK, ReportEnds, Booting, Units, boot,
         signals, record, deadly, spawning, children, logs, Opened, Signals
    <2>4. OpenMeansWhole'
      BY DEF IInv, OpenMeansWhole, TypeOK, ReportEnds, Opened, Booting,
         boot, signals, record, deadly, spawning, children, logs, Signals,
         Units
    <2>5. ShutdownOrder'
      BY DEF IInv, ShutdownOrder, TypeOK, ReportEnds, At, boot, signals,
         record, deadly, spawning, children, logs, Booting, Opened, Signals,
         Units
    <2>6. Reported' /\ EndedLogs' /\ KillAfterTerm'
      BY DEF IInv, Reported, EndedLogs, KillAfterTerm, ReportEnds, boot,
         signals, record, deadly, spawning, children, logs, Units, HasWriter
    <2> QED  BY <2>1, <2>2, <2>3, <2>4, <2>5, <2>6 DEF IInv
  <1>8. ASSUME CollectSpawner
        PROVE  IInv'
    <2> USE <1>8
    <2>1. TypeOK'
      <3> USE DEF IInv, TypeOK, CollectSpawner, Booting, Opened, Signals,
           Units, boot, signals, record, deadly, children, logs
      <3>1. ScalarsOK'  BY DEF ScalarsOK
      <3>2. MapsOK'  BY DEF MapsOK
      <3> QED  BY <3>1, <3>2 DEF ScalarsOK, MapsOK
    <2>2. BootOrder'
      BY DEF IInv, BootOrder, TypeOK, CollectSpawner, Units, boot, signals,
         record, deadly, children, logs, Booting, Opened, Signals
    <2>3. Reported'
      BY DEF IInv, Reported, TypeOK, CollectSpawner, Units, boot, signals,
         record, deadly, children, logs, Booting, Opened, Signals
    <2>4. Recorded'
      BY DEF IInv, Recorded, TypeOK, CollectSpawner, Booting, Units, boot,
         signals, record, deadly, children, logs, Opened, Signals
    <2>5. OpenMeansWhole'
      BY DEF IInv, OpenMeansWhole, TypeOK, BootOrder, Reported, Units,
         CollectSpawner, Opened, Booting, boot, signals, record, deadly,
         children, logs, Signals
    <2>6. EndedLogs'
      BY DEF IInv, EndedLogs, TypeOK, CollectSpawner, HasWriter, boot,
         signals, record, deadly, children, logs, Booting, Opened, Signals,
         Units
    <2>7. ShutdownOrder'
      BY DEF IInv, ShutdownOrder, TypeOK, CollectSpawner, At, boot, signals,
         record, deadly, children, logs, Booting, Opened, Signals, Units
    <2>8. KillAfterTerm'
      BY DEF IInv, KillAfterTerm, CollectSpawner, boot, signals, record,
         deadly, children, logs
    <2> QED  BY <2>1, <2>2, <2>3, <2>4, <2>5, <2>6, <2>7, <2>8 DEF IInv
  <1>9. ASSUME PollSignal
        PROVE  IInv'
    <2> USE <1>9
    <2>1. TypeOK'
      <3> USE DEF IInv, TypeOK, PollSignal, Dequeue, Booting, Opened,
           Signals, Units, boot, record, deadly, spawning, children, logs
      <3>1. ScalarsOK'  BY DEF ScalarsOK
      <3>2. MapsOK'  BY DEF MapsOK
      <3> QED  BY <3>1, <3>2 DEF ScalarsOK, MapsOK
    <2>2. BootOrder'
      BY DEF IInv, BootOrder, TypeOK, OpenMeansWhole, PollSignal, Dequeue,
         Units, boot, record, deadly, spawning, children, logs, Booting,
         Opened, Signals
    <2>3. Recorded'
      BY DEF IInv, Recorded, TypeOK, PollSignal, Dequeue, Booting, Units,
         boot, record, deadly, spawning, children, logs, Opened, Signals
    <2>4. OpenMeansWhole'
      BY DEF IInv, OpenMeansWhole, TypeOK, PollSignal, Dequeue, Opened,
         Booting, boot, record, deadly, spawning, children, logs, Signals,
         Units
    <2>5. ShutdownOrder'
      BY DEF IInv, ShutdownOrder, TypeOK, PollSignal, Dequeue, At, boot,
         record, deadly, spawning, children, logs, Booting, Opened, Signals,
         Units
    <2>6. Reported' /\ EndedLogs' /\ KillAfterTerm'
      BY DEF IInv, Reported, EndedLogs, KillAfterTerm, PollSignal, Dequeue,
         boot, record, deadly, spawning, children, logs, Units, HasWriter
    <2> QED  BY <2>1, <2>2, <2>3, <2>4, <2>5, <2>6 DEF IInv
  <1>10. ASSUME PollTimesOut
        PROVE  IInv'
    <2> USE <1>10
    <2>1. TypeOK'
      <3> USE DEF IInv, TypeOK, PollTimesOut, Booting, Opened, Signals,
           Units, boot, signals, record, deadly, spawning, children, logs
      <3>1. ScalarsOK'  BY DEF ScalarsOK
      <3>2. MapsOK'  BY DEF MapsOK
      <3> QED  BY <3>1, <3>2 DEF ScalarsOK, MapsOK
    <2>2. BootOrder'
      BY DEF IInv, BootOrder, TypeOK, OpenMeansWhole, PollTimesOut, Units,
         boot, signals, record, deadly, spawning, children, logs, Booting,
         Opened, Signals
    <2>3. Recorded'
      BY DEF IInv, Recorded, TypeOK, PollTimesOut, Booting, Units, boot,
         signals, record, deadly, spawning, children, logs, Opened, Signals
    <2>4. OpenMeansWhole'
      BY DEF IInv, OpenMeansWhole, TypeOK, PollTimesOut, Opened, Booting,
         boot, signals, record, deadly, spawning, children, logs, Signals,
         Units
    <2>5. ShutdownOrder'
      BY DEF IInv, ShutdownOrder, TypeOK, PollTimesOut, At, boot, signals,
         record, deadly, spawning, children, logs, Booting, Opened, Signals,
         Units
    <2>6. Reported' /\ EndedLogs' /\ KillAfterTerm'
      BY DEF IInv, Reported, EndedLogs, KillAfterTerm, PollTimesOut, boot,
         signals, record, deadly, spawning, children, logs, Units, HasWriter
    <2> QED  BY <2>1, <2>2, <2>3, <2>4, <2>5, <2>6 DEF IInv
  <1>11. ASSUME HoldExpires
        PROVE  IInv'
    <2> USE <1>11
    <2>1. TypeOK'
      <3> USE DEF IInv, TypeOK, HoldExpires, Booting, Opened, Signals, Units,
           boot, signals, record, deadly, spawning, children, logs
      <3>1. ScalarsOK'  BY DEF ScalarsOK
      <3>2. MapsOK'  BY DEF MapsOK
      <3> QED  BY <3>1, <3>2 DEF ScalarsOK, MapsOK
    <2>2. BootOrder'
      BY DEF IInv, BootOrder, TypeOK, OpenMeansWhole, HoldExpires, Units,
         boot, signals, record, deadly, spawning, children, logs, Booting,
         Opened, Signals
    <2>3. Recorded'
      BY DEF IInv, Recorded, TypeOK, HoldExpires, Booting, Units, boot,
         signals, record, deadly, spawning, children, logs, Opened, Signals
    <2>4. OpenMeansWhole'
      BY DEF IInv, OpenMeansWhole, TypeOK, HoldExpires, Opened, Booting,
         boot, signals, record, deadly, spawning, children, logs, Signals,
         Units
    <2>5. ShutdownOrder'
      BY DEF IInv, ShutdownOrder, TypeOK, HoldExpires, At, boot, signals,
         record, deadly, spawning, children, logs, Booting, Opened, Signals,
         Units
    <2>6. Reported' /\ EndedLogs' /\ KillAfterTerm'
      BY DEF IInv, Reported, EndedLogs, KillAfterTerm, HoldExpires, boot,
         signals, record, deadly, spawning, children, logs, Units, HasWriter
    <2> QED  BY <2>1, <2>2, <2>3, <2>4, <2>5, <2>6 DEF IInv
  <1>12. ASSUME Reap
        PROVE  IInv'
    <2> USE <1>12
    <2>0. PICK u \in Units : ReapHouse(u) \/ ReapLogger(u) \/ ReapOrphan(u)
      BY DEF Reap
    <2>1. CASE ReapHouse(u)
      <3> USE <2>1
      <3>1. TypeOK'
        <4> USE DEF IInv, TypeOK, ReapHouse, Reap, Booting, Opened, Signals,
             Units, control, boot, signals, deadly, spawning, record, children
        <4>1. ScalarsOK'  BY DEF ScalarsOK
        <4>2. MapsOK'  BY DEF MapsOK
        <4> QED  BY <4>1, <4>2 DEF ScalarsOK, MapsOK
      <3>2. BootOrder'
        BY DEF IInv, BootOrder, TypeOK, ReapHouse, Reap, Units, control, boot,
           signals, deadly, spawning, record, children, Booting, Opened, Signals
      <3>3. Reported'
        BY DEF IInv, Reported, TypeOK, OpenMeansWhole, ReapHouse, Reap, Units,
           control, boot, signals, deadly, spawning, record, children, Booting,
           Opened, Signals
      <3>4. Recorded'
        BY DEF IInv, Recorded, TypeOK, OpenMeansWhole, ReapHouse, Reap,
           Booting, Units, control, boot, signals, deadly, spawning, record,
           children, Opened, Signals
      <3>5. OpenMeansWhole'
        BY DEF IInv, OpenMeansWhole, TypeOK, ReapHouse, Reap, Opened, Booting,
           control, boot, signals, deadly, spawning, record, children, Signals,
           Units
      <3>6. EndedLogs'
        BY DEF IInv, EndedLogs, TypeOK, ReapHouse, Reap, HasWriter, control,
           boot, signals, deadly, spawning, record, children, Booting, Opened,
           Signals, Units
      <3>7. ShutdownOrder'
        BY DEF IInv, ShutdownOrder, TypeOK, ReapHouse, Reap, At, control,
           boot, signals, deadly, spawning, record, children, Booting, Opened,
           Signals, Units
      <3>8. KillAfterTerm'
        BY DEF IInv, KillAfterTerm, ReapHouse, Reap, control, boot, signals,
           deadly, spawning, record, children
      <3> QED  BY <3>1, <3>2, <3>3, <3>4, <3>5, <3>6, <3>7, <3>8 DEF IInv
    <2>2. CASE ReapLogger(u)
      <3> USE <2>2
      <3>1. TypeOK'
        <4> USE DEF IInv, TypeOK, ReapLogger, Reap, Booting, Opened, Signals,
             Units, control, boot, signals, deadly, spawning, record, children
        <4>1. ScalarsOK'  BY DEF ScalarsOK
        <4>2. MapsOK'  BY DEF MapsOK
        <4> QED  BY <4>1, <4>2 DEF ScalarsOK, MapsOK
      <3>2. Recorded'
        BY DEF IInv, Recorded, TypeOK, ReapLogger, Reap, Booting, Units,
           control, boot, signals, deadly, spawning, record, children, Opened,
           Signals
      <3>3. EndedLogs'
        BY DEF IInv, EndedLogs, TypeOK, ReapLogger, Reap, HasWriter, control,
           boot, signals, deadly, spawning, record, children, Booting, Opened,
           Signals, Units
      <3>4. ShutdownOrder'
        BY DEF IInv, ShutdownOrder, TypeOK, Recorded, BootOrder, Units,
           ReapLogger, Reap, At, control, boot, signals, deadly, spawning,
           record, children, Booting, Opened, Signals
      <3>5. BootOrder' /\ Reported' /\ OpenMeansWhole' /\ KillAfterTerm'
        BY DEF IInv, BootOrder, Reported, OpenMeansWhole, KillAfterTerm,
           ReapLogger, Reap, control, boot, signals, deadly, spawning, record,
           children, Units, Opened, Booting
      <3> QED  BY <3>1, <3>2, <3>3, <3>4, <3>5 DEF IInv
    <2>3. CASE ReapOrphan(u)
      <3> USE <2>3
      <3>1. TypeOK'
        <4> USE DEF IInv, TypeOK, ReapOrphan, Reap, Booting, Opened, Signals,
             Units, control, boot, signals, deadly, spawning, record, children
        <4>1. ScalarsOK'  BY DEF ScalarsOK
        <4>2. MapsOK'  BY DEF MapsOK
        <4> QED  BY <4>1, <4>2 DEF ScalarsOK, MapsOK
      <3>2. EndedLogs'
        BY DEF IInv, EndedLogs, TypeOK, ReapOrphan, Reap, HasWriter, control,
           boot, signals, deadly, spawning, record, children, Booting, Opened,
           Signals, Units
      <3>3. BootOrder' /\ Reported' /\ Recorded' /\ OpenMeansWhole' /\ ShutdownOrder' /\ KillAfterTerm'
        BY DEF IInv, BootOrder, Reported, Recorded, OpenMeansWhole,
           ShutdownOrder, KillAfterTerm, ReapOrphan, Reap, control, boot,
           signals, deadly, spawning, record, children, Units, Booting, Opened,
           At
      <3> QED  BY <3>1, <3>2, <3>3 DEF IInv
    <2> QED  BY <2>0, <2>1, <2>2, <2>3
  <1>13. ASSUME ReapDone
        PROVE  IInv'
    <2> USE <1>13
    <2>1. TypeOK'
      <3> USE DEF IInv, TypeOK, ReapDone, Booting, Opened, Signals, Units,
           boot, signals, record, deadly, spawning, children, logs
      <3>1. ScalarsOK'  BY DEF ScalarsOK
      <3>2. MapsOK'  BY DEF MapsOK
      <3> QED  BY <3>1, <3>2 DEF ScalarsOK, MapsOK
    <2>2. BootOrder'
      BY DEF IInv, BootOrder, TypeOK, OpenMeansWhole, ReapDone, Units, boot,
         signals, record, deadly, spawning, children, logs, Booting, Opened,
         Signals
    <2>3. Recorded'
      BY DEF IInv, Recorded, TypeOK, ReapDone, Booting, Units, boot,
         signals, record, deadly, spawning, children, logs, Opened, Signals
    <2>4. OpenMeansWhole'
      BY DEF IInv, OpenMeansWhole, TypeOK, ReapDone, Opened, Booting, boot,
         signals, record, deadly, spawning, children, logs, Signals, Units
    <2>5. ShutdownOrder'
      BY DEF IInv, ShutdownOrder, TypeOK, ReapDone, At, boot, signals,
         record, deadly, spawning, children, logs, Booting, Opened, Signals,
         Units
    <2>6. Reported' /\ EndedLogs' /\ KillAfterTerm'
      BY DEF IInv, Reported, EndedLogs, KillAfterTerm, ReapDone, boot,
         signals, record, deadly, spawning, children, logs, Units, HasWriter
    <2> QED  BY <2>1, <2>2, <2>3, <2>4, <2>5, <2>6 DEF IInv
  <1>14. ASSUME TermHouses
        PROVE  IInv'
    <2> USE <1>14
    <2>1. TypeOK'
      <3> USE DEF IInv, TypeOK, TermHouses, Booting, Opened, Signals, Units,
           boot, signals, record, spawning, children, logs
      <3>1. ScalarsOK'  BY DEF ScalarsOK
      <3>2. MapsOK'  BY DEF MapsOK
      <3> QED  BY <3>1, <3>2 DEF ScalarsOK, MapsOK
    <2>2. BootOrder'
      BY DEF IInv, BootOrder, TypeOK, OpenMeansWhole, TermHouses, Units,
         boot, signals, record, spawning, children, logs, Booting, Opened,
         Signals
    <2>3. Recorded'
      BY DEF IInv, Recorded, TypeOK, TermHouses, Booting, Units, boot,
         signals, record, spawning, children, logs, Opened, Signals
    <2>4. OpenMeansWhole'
      BY DEF IInv, OpenMeansWhole, TypeOK, TermHouses, Opened, Booting,
         boot, signals, record, spawning, children, logs, Signals, Units
    <2>5. ShutdownOrder'
      BY DEF IInv, ShutdownOrder, TypeOK, TermHouses, At, boot, signals,
         record, spawning, children, logs, Booting, Opened, Signals, Units
    <2>6. KillAfterTerm'
      BY DEF IInv, KillAfterTerm, TypeOK, ShutdownOrder, TermHouses, boot,
         signals, record, spawning, children, logs, Booting, Opened, Signals,
         Units, At
    <2>7. Reported' /\ EndedLogs'
      BY DEF IInv, Reported, EndedLogs, TermHouses, boot, signals, record,
         spawning, children, logs, Units, HasWriter
    <2> QED  BY <2>1, <2>2, <2>3, <2>4, <2>5, <2>6, <2>7 DEF IInv
  <1>15. ASSUME GracePass
        PROVE  IInv'
    <2> USE <1>15
    <2>1. TypeOK'
      <3> USE DEF IInv, TypeOK, GracePass, Pass, Booting, Opened, Signals,
           Units, boot, signals, record, deadly, spawning, children, logs
      <3>1. ScalarsOK'  BY DEF ScalarsOK
      <3>2. MapsOK'  BY DEF MapsOK
      <3> QED  BY <3>1, <3>2 DEF ScalarsOK, MapsOK
    <2>2. BootOrder'
      BY DEF IInv, BootOrder, TypeOK, OpenMeansWhole, GracePass, Pass,
         Units, boot, signals, record, deadly, spawning, children, logs,
         Booting, Opened, Signals
    <2>3. Recorded'
      BY DEF IInv, Recorded, TypeOK, GracePass, Pass, Booting, Units, boot,
         signals, record, deadly, spawning, children, logs, Opened, Signals
    <2>4. OpenMeansWhole'
      BY DEF IInv, OpenMeansWhole, TypeOK, GracePass, Pass, Opened, Booting,
         boot, signals, record, deadly, spawning, children, logs, Signals,
         Units
    <2>5. ShutdownOrder'
      BY DEF IInv, ShutdownOrder, TypeOK, GracePass, Pass, At, boot,
         signals, record, deadly, spawning, children, logs, Booting, Opened,
         Signals, Units
    <2>6. Reported' /\ EndedLogs' /\ KillAfterTerm'
      BY DEF IInv, Reported, EndedLogs, KillAfterTerm, GracePass, Pass,
         boot, signals, record, deadly, spawning, children, logs, Units,
         HasWriter
    <2> QED  BY <2>1, <2>2, <2>3, <2>4, <2>5, <2>6 DEF IInv
  <1>16. ASSUME GraceLook
        PROVE  IInv'
    <2> USE <1>16
    <2>1. TypeOK'
      <3> USE DEF IInv, TypeOK, ShutdownOrder, GraceLook, Look, Booting,
           Opened, Signals, Units, boot, signals, record, deadly, spawning,
           children, logs, At
      <3>1. ScalarsOK'  BY DEF ScalarsOK
      <3>2. MapsOK'  BY DEF MapsOK
      <3> QED  BY <3>1, <3>2 DEF ScalarsOK, MapsOK
    <2>2. BootOrder'
      BY DEF IInv, BootOrder, TypeOK, OpenMeansWhole, GraceLook, Look,
         Units, boot, signals, record, deadly, spawning, children, logs,
         Booting, Opened, Signals
    <2>3. Recorded'
      BY DEF IInv, Recorded, TypeOK, GraceLook, Look, Booting, Units, boot,
         signals, record, deadly, spawning, children, logs, Opened, Signals
    <2>4. OpenMeansWhole'
      BY DEF IInv, OpenMeansWhole, TypeOK, GraceLook, Look, Opened, Booting,
         boot, signals, record, deadly, spawning, children, logs, Signals,
         Units
    <2>5. ShutdownOrder'
      BY DEF IInv, ShutdownOrder, TypeOK, GraceLook, Look, At, boot,
         signals, record, deadly, spawning, children, logs, Booting, Opened,
         Signals, Units
    <2>6. Reported' /\ EndedLogs' /\ KillAfterTerm'
      BY DEF IInv, Reported, EndedLogs, KillAfterTerm, GraceLook, Look,
         boot, signals, record, deadly, spawning, children, logs, Units,
         HasWriter
    <2> QED  BY <2>1, <2>2, <2>3, <2>4, <2>5, <2>6 DEF IInv
  <1>17. ASSUME KillHouses
        PROVE  IInv'
    <2> USE <1>17
    <2>1. TypeOK'
      <3> USE DEF IInv, TypeOK, KillHouses, Booting, Opened, Signals, Units,
           boot, signals, record, spawning, children, logs
      <3>1. ScalarsOK'  BY DEF ScalarsOK
      <3>2. MapsOK'  BY DEF MapsOK
      <3> QED  BY <3>1, <3>2 DEF ScalarsOK, MapsOK
    <2>2. BootOrder'
      BY DEF IInv, BootOrder, TypeOK, OpenMeansWhole, KillHouses, Units,
         boot, signals, record, spawning, children, logs, Booting, Opened,
         Signals
    <2>3. Recorded'
      BY DEF IInv, Recorded, TypeOK, KillHouses, Booting, Units, boot,
         signals, record, spawning, children, logs, Opened, Signals
    <2>4. OpenMeansWhole'
      BY DEF IInv, OpenMeansWhole, TypeOK, KillHouses, Opened, Booting,
         boot, signals, record, spawning, children, logs, Signals, Units
    <2>5. ShutdownOrder'
      BY DEF IInv, ShutdownOrder, TypeOK, KillHouses, At, boot, signals,
         record, spawning, children, logs, Booting, Opened, Signals, Units
    <2>6. KillAfterTerm'
      BY DEF IInv, KillAfterTerm, TypeOK, ShutdownOrder, KillHouses, boot,
         signals, record, spawning, children, logs, Booting, Opened, Signals,
         Units, At
    <2>7. Reported' /\ EndedLogs'
      BY DEF IInv, Reported, EndedLogs, KillHouses, boot, signals, record,
         spawning, children, logs, Units, HasWriter
    <2> QED  BY <2>1, <2>2, <2>3, <2>4, <2>5, <2>6, <2>7 DEF IInv
  <1>18. ASSUME DrainPass
        PROVE  IInv'
    <2> USE <1>18
    <2>1. TypeOK'
      <3> USE DEF IInv, TypeOK, DrainPass, Pass, Booting, Opened, Signals,
           Units, boot, signals, record, deadly, spawning, children, logs
      <3>1. ScalarsOK'  BY DEF ScalarsOK
      <3>2. MapsOK'  BY DEF MapsOK
      <3> QED  BY <3>1, <3>2 DEF ScalarsOK, MapsOK
    <2>2. BootOrder'
      BY DEF IInv, BootOrder, TypeOK, OpenMeansWhole, DrainPass, Pass,
         Units, boot, signals, record, deadly, spawning, children, logs,
         Booting, Opened, Signals
    <2>3. Recorded'
      BY DEF IInv, Recorded, TypeOK, DrainPass, Pass, Booting, Units, boot,
         signals, record, deadly, spawning, children, logs, Opened, Signals
    <2>4. OpenMeansWhole'
      BY DEF IInv, OpenMeansWhole, TypeOK, DrainPass, Pass, Opened, Booting,
         boot, signals, record, deadly, spawning, children, logs, Signals,
         Units
    <2>5. ShutdownOrder'
      BY DEF IInv, ShutdownOrder, TypeOK, DrainPass, Pass, At, boot,
         signals, record, deadly, spawning, children, logs, Booting, Opened,
         Signals, Units
    <2>6. Reported' /\ EndedLogs' /\ KillAfterTerm'
      BY DEF IInv, Reported, EndedLogs, KillAfterTerm, DrainPass, Pass,
         boot, signals, record, deadly, spawning, children, logs, Units,
         HasWriter
    <2> QED  BY <2>1, <2>2, <2>3, <2>4, <2>5, <2>6 DEF IInv
  <1>19. ASSUME DrainLook
        PROVE  IInv'
    <2> USE <1>19
    <2>1. TypeOK'
      <3> USE DEF IInv, TypeOK, ShutdownOrder, DrainLook, Look, Booting,
           Opened, Signals, Units, boot, signals, record, deadly, spawning,
           children, logs, At
      <3>1. ScalarsOK'  BY DEF ScalarsOK
      <3>2. MapsOK'  BY DEF MapsOK
      <3> QED  BY <3>1, <3>2 DEF ScalarsOK, MapsOK
    <2>2. BootOrder'
      BY DEF IInv, BootOrder, TypeOK, OpenMeansWhole, DrainLook, Look,
         Units, boot, signals, record, deadly, spawning, children, logs,
         Booting, Opened, Signals
    <2>3. Recorded'
      BY DEF IInv, Recorded, TypeOK, DrainLook, Look, Booting, Units, boot,
         signals, record, deadly, spawning, children, logs, Opened, Signals
    <2>4. OpenMeansWhole'
      BY DEF IInv, OpenMeansWhole, TypeOK, DrainLook, Look, Opened, Booting,
         boot, signals, record, deadly, spawning, children, logs, Signals,
         Units
    <2>5. ShutdownOrder'
      BY DEF IInv, ShutdownOrder, TypeOK, DrainLook, Look, At, boot,
         signals, record, deadly, spawning, children, logs, Booting, Opened,
         Signals, Units
    <2>6. Reported' /\ EndedLogs' /\ KillAfterTerm'
      BY DEF IInv, Reported, EndedLogs, KillAfterTerm, DrainLook, Look,
         boot, signals, record, deadly, spawning, children, logs, Units,
         HasWriter
    <2> QED  BY <2>1, <2>2, <2>3, <2>4, <2>5, <2>6 DEF IInv
  <1>20. ASSUME KillLoggers
        PROVE  IInv'
    <2> USE <1>20
    <2>1. TypeOK'
      <3> USE DEF IInv, TypeOK, KillLoggers, Booting, Opened, Signals, Units,
           boot, signals, record, spawning, children, logs
      <3>1. ScalarsOK'  BY DEF ScalarsOK
      <3>2. MapsOK'  BY DEF MapsOK
      <3> QED  BY <3>1, <3>2 DEF ScalarsOK, MapsOK
    <2>2. BootOrder'
      BY DEF IInv, BootOrder, TypeOK, OpenMeansWhole, KillLoggers, Units,
         boot, signals, record, spawning, children, logs, Booting, Opened,
         Signals
    <2>3. Recorded'
      BY DEF IInv, Recorded, TypeOK, KillLoggers, Booting, Units, boot,
         signals, record, spawning, children, logs, Opened, Signals
    <2>4. OpenMeansWhole'
      BY DEF IInv, OpenMeansWhole, TypeOK, KillLoggers, Opened, Booting,
         boot, signals, record, spawning, children, logs, Signals, Units
    <2>5. EndedLogs'
      BY DEF IInv, EndedLogs, TypeOK, ShutdownOrder, Recorded, KillLoggers,
         HasWriter, boot, signals, record, spawning, children, logs, Booting,
         Opened, Signals, Units, At
    <2>6. ShutdownOrder'
      BY DEF IInv, ShutdownOrder, TypeOK, Recorded, BootOrder, Units,
         KillLoggers, At, boot, signals, record, spawning, children, logs,
         Booting, Opened, Signals
    <2>7. Reported' /\ KillAfterTerm'
      BY DEF IInv, Reported, KillAfterTerm, KillLoggers, boot, signals,
         record, spawning, children, logs, Units
    <2> QED  BY <2>1, <2>2, <2>3, <2>4, <2>5, <2>6, <2>7 DEF IInv
  <1>21. ASSUME SpawnUnit
        PROVE  IInv'
    <2> USE <1>21
    <2>1. TypeOK'
      <3> USE DEF IInv, TypeOK, SpawnUnit, Booting, Opened, Signals, Units,
           control, boot, signals, record, deadly, logs
      <3>1. ScalarsOK'  BY DEF ScalarsOK
      <3>2. MapsOK'  BY DEF MapsOK
      <3> QED  BY <3>1, <3>2 DEF ScalarsOK, MapsOK
    <2>2. Reported'
      BY DEF IInv, Reported, TypeOK, Units, SpawnUnit, control, boot,
         signals, record, deadly, logs, Booting, Opened, Signals
    <2>3. Recorded'
      BY DEF IInv, Recorded, TypeOK, Reported, Units, SpawnUnit, Booting,
         control, boot, signals, record, deadly, logs, Opened, Signals
    <2>4. OpenMeansWhole'
      BY DEF IInv, OpenMeansWhole, TypeOK, Reported, SpawnUnit, Opened,
         Booting, control, boot, signals, record, deadly, logs, Signals, Units
    <2>5. EndedLogs'
      BY DEF IInv, EndedLogs, TypeOK, SpawnUnit, HasWriter, control, boot,
         signals, record, deadly, logs, Booting, Opened, Signals, Units
    <2>6. BootOrder' /\ ShutdownOrder' /\ KillAfterTerm'
      BY DEF IInv, BootOrder, ShutdownOrder, KillAfterTerm, SpawnUnit,
         control, boot, signals, record, deadly, logs, Units, At
    <2> QED  BY <2>1, <2>2, <2>3, <2>4, <2>5, <2>6 DEF IInv
  <1>22. ASSUME SpawnerCloses
        PROVE  IInv'
    <2> USE <1>22
    <2>1. TypeOK'
      <3> USE DEF IInv, TypeOK, SpawnerCloses, Booting, Opened, Signals,
           Units, control, boot, signals, record, deadly, children, logs
      <3>1. ScalarsOK'  BY DEF ScalarsOK
      <3>2. MapsOK'  BY DEF MapsOK
      <3> QED  BY <3>1, <3>2 DEF ScalarsOK, MapsOK
    <2>2. BootOrder'
      BY DEF IInv, BootOrder, TypeOK, SpawnerCloses, Units, control, boot,
         signals, record, deadly, children, logs, Booting, Opened, Signals
    <2>3. Reported'
      BY DEF IInv, Reported, TypeOK, SpawnerCloses, Units, control, boot,
         signals, record, deadly, children, logs, Booting, Opened, Signals
    <2>4. OpenMeansWhole'
      BY DEF IInv, OpenMeansWhole, TypeOK, SpawnerCloses, Opened, Booting,
         control, boot, signals, record, deadly, children, logs, Signals, Units
    <2>5. EndedLogs'
      BY DEF IInv, EndedLogs, TypeOK, SpawnerCloses, HasWriter, control,
         boot, signals, record, deadly, children, logs, Booting, Opened,
         Signals, Units
    <2>6. Recorded' /\ ShutdownOrder' /\ KillAfterTerm'
      BY DEF IInv, Recorded, ShutdownOrder, KillAfterTerm, SpawnerCloses,
         control, boot, signals, record, deadly, children, logs, Booting,
         Units, At
    <2> QED  BY <2>1, <2>2, <2>3, <2>4, <2>5, <2>6 DEF IInv
  <1>23. ASSUME SpawnerReports
        PROVE  IInv'
    <2> USE <1>23
    <2>1. TypeOK'
      <3> USE DEF IInv, TypeOK, SpawnerReports, Booting, Opened, Signals,
           Units, control, boot, signals, record, deadly, children, logs
      <3>1. ScalarsOK'  BY DEF ScalarsOK
      <3>2. MapsOK'  BY DEF MapsOK
      <3> QED  BY <3>1, <3>2 DEF ScalarsOK, MapsOK
    <2>2. BootOrder'
      BY DEF IInv, BootOrder, TypeOK, SpawnerReports, Units, control, boot,
         signals, record, deadly, children, logs, Booting, Opened, Signals
    <2>3. Reported'
      BY DEF IInv, Reported, TypeOK, SpawnerReports, Units, control, boot,
         signals, record, deadly, children, logs, Booting, Opened, Signals
    <2>4. Recorded' /\ OpenMeansWhole' /\ EndedLogs' /\ ShutdownOrder' /\ KillAfterTerm'
      BY DEF IInv, Recorded, OpenMeansWhole, EndedLogs, ShutdownOrder,
         KillAfterTerm, SpawnerReports, control, boot, signals, record, deadly,
         children, logs, Booting, Units, Opened, HasWriter, At
    <2> QED  BY <2>1, <2>2, <2>3, <2>4 DEF IInv
  <1>24. ASSUME SpawnerExits
        PROVE  IInv'
    <2> USE <1>24
    <2>1. TypeOK'
      <3> USE DEF IInv, TypeOK, SpawnerExits, Booting, Opened, Signals,
           Units, control, boot, record, deadly, children, logs
      <3>1. ScalarsOK'  BY DEF ScalarsOK
      <3>2. MapsOK'  BY DEF MapsOK
      <3> QED  BY <3>1, <3>2 DEF ScalarsOK, MapsOK
    <2>2. BootOrder'
      BY DEF IInv, BootOrder, TypeOK, SpawnerExits, Units, control, boot,
         record, deadly, children, logs, Booting, Opened, Signals
    <2>3. Reported'
      BY DEF IInv, Reported, TypeOK, SpawnerExits, Units, control, boot,
         record, deadly, children, logs, Booting, Opened, Signals
    <2>4. OpenMeansWhole'
      BY DEF IInv, OpenMeansWhole, TypeOK, SpawnerExits, Opened, Booting,
         control, boot, record, deadly, children, logs, Signals, Units
    <2>5. EndedLogs'
      BY DEF IInv, EndedLogs, TypeOK, SpawnerExits, HasWriter, control,
         boot, record, deadly, children, logs, Booting, Opened, Signals, Units
    <2>6. Recorded' /\ ShutdownOrder' /\ KillAfterTerm'
      BY DEF IInv, Recorded, ShutdownOrder, KillAfterTerm, SpawnerExits,
         control, boot, record, deadly, children, logs, Booting, Units, At
    <2> QED  BY <2>1, <2>2, <2>3, <2>4, <2>5, <2>6 DEF IInv
  <1>25. ASSUME SpawnerDies
        PROVE  IInv'
    <2> USE <1>25
    <2>1. TypeOK'
      <3> USE DEF IInv, TypeOK, SpawnerDies, Booting, Opened, Signals, Units,
           control, boot, record, deadly, children, logs
      <3>1. ScalarsOK'  BY DEF ScalarsOK
      <3>2. MapsOK'  BY DEF MapsOK
      <3> QED  BY <3>1, <3>2 DEF ScalarsOK, MapsOK
    <2>2. BootOrder'
      BY DEF IInv, BootOrder, TypeOK, SpawnerDies, Units, control, boot,
         record, deadly, children, logs, Booting, Opened, Signals
    <2>3. Reported'
      BY DEF IInv, Reported, TypeOK, SpawnerDies, Units, control, boot,
         record, deadly, children, logs, Booting, Opened, Signals
    <2>4. OpenMeansWhole'
      BY DEF IInv, OpenMeansWhole, TypeOK, SpawnerDies, Opened, Booting,
         control, boot, record, deadly, children, logs, Signals, Units
    <2>5. EndedLogs'
      BY DEF IInv, EndedLogs, TypeOK, SpawnerDies, HasWriter, control, boot,
         record, deadly, children, logs, Booting, Opened, Signals, Units
    <2>6. Recorded' /\ ShutdownOrder' /\ KillAfterTerm'
      BY DEF IInv, Recorded, ShutdownOrder, KillAfterTerm, SpawnerDies,
         control, boot, record, deadly, children, logs, Booting, Units, At
    <2> QED  BY <2>1, <2>2, <2>3, <2>4, <2>5, <2>6 DEF IInv
  <1>26. ASSUME NEW u \in Units, Packed(u)
        PROVE  IInv'
    <2> USE <1>26
    <2>1. TypeOK'
      <3> USE DEF IInv, TypeOK, Packed, Booting, Opened, Signals, Units,
           control, boot, signals, record, deadly, spawning, logs
      <3>1. ScalarsOK'  BY DEF ScalarsOK
      <3>2. MapsOK'  BY DEF MapsOK
      <3> QED  BY <3>1, <3>2 DEF ScalarsOK, MapsOK
    <2>2. Reported'
      BY DEF IInv, Reported, TypeOK, Packed, Units, control, boot, signals,
         record, deadly, spawning, logs, Booting, Opened, Signals
    <2>3. Recorded'
      BY DEF IInv, Recorded, TypeOK, Packed, Booting, Units, control, boot,
         signals, record, deadly, spawning, logs, Opened, Signals
    <2>4. OpenMeansWhole'
      BY DEF IInv, OpenMeansWhole, TypeOK, Packed, Opened, Booting, control,
         boot, signals, record, deadly, spawning, logs, Signals, Units
    <2>5. EndedLogs'
      BY DEF IInv, EndedLogs, TypeOK, Packed, HasWriter, control, boot,
         signals, record, deadly, spawning, logs, Booting, Opened, Signals,
         Units
    <2>6. BootOrder' /\ ShutdownOrder' /\ KillAfterTerm'
      BY DEF IInv, BootOrder, ShutdownOrder, KillAfterTerm, Packed, control,
         boot, signals, record, deadly, spawning, logs, Units, At
    <2> QED  BY <2>1, <2>2, <2>3, <2>4, <2>5, <2>6 DEF IInv
  <1>27. ASSUME NEW u \in Units, HouseStarts(u)
        PROVE  IInv'
    <2> USE <1>27
    <2>1. TypeOK'
      <3> USE DEF IInv, TypeOK, HouseStarts, Booting, Opened, Signals, Units,
           control, boot, signals, record, deadly, spawning, logs
      <3>1. ScalarsOK'  BY DEF ScalarsOK
      <3>2. MapsOK'  BY DEF MapsOK
      <3> QED  BY <3>1, <3>2 DEF ScalarsOK, MapsOK
    <2>2. EndedLogs'
      BY DEF IInv, EndedLogs, TypeOK, HouseStarts, HasWriter, control, boot,
         signals, record, deadly, spawning, logs, Booting, Opened, Signals,
         Units
    <2>3. BootOrder' /\ Reported' /\ Recorded' /\ OpenMeansWhole' /\ ShutdownOrder' /\ KillAfterTerm'
      BY DEF IInv, BootOrder, Reported, Recorded, OpenMeansWhole,
         ShutdownOrder, KillAfterTerm, HouseStarts, control, boot, signals,
         record, deadly, spawning, logs, Units, Booting, Opened, At
    <2> QED  BY <2>1, <2>2, <2>3 DEF IInv
  <1>28. ASSUME NEW u \in Units, HouseCollected(u)
        PROVE  IInv'
    <2> USE <1>28
    <2>1. TypeOK'
      <3> USE DEF IInv, TypeOK, HouseCollected, Booting, Opened, Signals,
           Units, control, boot, signals, record, deadly, spawning, logs
      <3>1. ScalarsOK'  BY DEF ScalarsOK
      <3>2. MapsOK'  BY DEF MapsOK
      <3> QED  BY <3>1, <3>2 DEF ScalarsOK, MapsOK
    <2>2. EndedLogs'
      BY DEF IInv, EndedLogs, TypeOK, HouseCollected, HasWriter, control,
         boot, signals, record, deadly, spawning, logs, Booting, Opened,
         Signals, Units
    <2>3. BootOrder' /\ Reported' /\ Recorded' /\ OpenMeansWhole' /\ ShutdownOrder' /\ KillAfterTerm'
      BY DEF IInv, BootOrder, Reported, Recorded, OpenMeansWhole,
         ShutdownOrder, KillAfterTerm, HouseCollected, control, boot, signals,
         record, deadly, spawning, logs, Units, Booting, Opened, At
    <2> QED  BY <2>1, <2>2, <2>3 DEF IInv
  <1>29. ASSUME NEW u \in Units, SupEnds(u)
        PROVE  IInv'
    <2> USE <1>29
    <2>1. TypeOK'
      <3> USE DEF IInv, TypeOK, SupEnds, Booting, Opened, Signals, Units,
           control, boot, record, deadly, spawning, logs
      <3>1. ScalarsOK'  BY DEF ScalarsOK
      <3>2. MapsOK'  BY DEF MapsOK
      <3> QED  BY <3>1, <3>2 DEF ScalarsOK, MapsOK
    <2>2. Reported'
      BY DEF IInv, Reported, TypeOK, SupEnds, Units, control, boot, record,
         deadly, spawning, logs, Booting, Opened, Signals
    <2>3. Recorded'
      BY DEF IInv, Recorded, TypeOK, SupEnds, Booting, Units, control, boot,
         record, deadly, spawning, logs, Opened, Signals
    <2>4. OpenMeansWhole'
      BY DEF IInv, OpenMeansWhole, TypeOK, SupEnds, Opened, Booting,
         control, boot, record, deadly, spawning, logs, Signals, Units
    <2>5. EndedLogs'
      BY DEF IInv, EndedLogs, TypeOK, SupEnds, HasWriter, control, boot,
         record, deadly, spawning, logs, Booting, Opened, Signals, Units
    <2>6. BootOrder' /\ ShutdownOrder' /\ KillAfterTerm'
      BY DEF IInv, BootOrder, ShutdownOrder, KillAfterTerm, SupEnds,
         control, boot, record, deadly, spawning, logs, Units, At
    <2> QED  BY <2>1, <2>2, <2>3, <2>4, <2>5, <2>6 DEF IInv
  <1>30. ASSUME NEW u \in Units, OrphanEnds(u)
        PROVE  IInv'
    <2> USE <1>30
    <2>1. TypeOK'
      <3> USE DEF IInv, TypeOK, OrphanEnds, Booting, Opened, Signals, Units,
           control, boot, record, deadly, spawning, logs
      <3>1. ScalarsOK'  BY DEF ScalarsOK
      <3>2. MapsOK'  BY DEF MapsOK
      <3> QED  BY <3>1, <3>2 DEF ScalarsOK, MapsOK
    <2>2. EndedLogs'
      BY DEF IInv, EndedLogs, TypeOK, OrphanEnds, HasWriter, control, boot,
         record, deadly, spawning, logs, Booting, Opened, Signals, Units
    <2>3. BootOrder' /\ Reported' /\ Recorded' /\ OpenMeansWhole' /\ ShutdownOrder' /\ KillAfterTerm'
      BY DEF IInv, BootOrder, Reported, Recorded, OpenMeansWhole,
         ShutdownOrder, KillAfterTerm, OrphanEnds, control, boot, record,
         deadly, spawning, logs, Units, Booting, Opened, At
    <2> QED  BY <2>1, <2>2, <2>3 DEF IInv
  <1>31. ASSUME NEW u \in Units, Writes(u)
        PROVE  IInv'
    <2> USE <1>31
    <2>1. TypeOK'
      <3> USE DEF IInv, TypeOK, Writes, Booting, Opened, Signals, Units,
           control, boot, signals, record, deadly, spawning, children
      <3>1. ScalarsOK'  BY DEF ScalarsOK
      <3>2. MapsOK'  BY DEF MapsOK
      <3> QED  BY <3>1, <3>2 DEF ScalarsOK, MapsOK
    <2>2. EndedLogs'
      BY DEF IInv, EndedLogs, TypeOK, Writes, HasWriter, control, boot,
         signals, record, deadly, spawning, children, Booting, Opened, Signals,
         Units
    <2>3. BootOrder' /\ Reported' /\ Recorded' /\ OpenMeansWhole' /\ ShutdownOrder' /\ KillAfterTerm'
      BY DEF IInv, BootOrder, Reported, Recorded, OpenMeansWhole,
         ShutdownOrder, KillAfterTerm, Writes, control, boot, signals, record,
         deadly, spawning, children, Units, Booting, Opened, At
    <2> QED  BY <2>1, <2>2, <2>3 DEF IInv
  <1>32. ASSUME NEW u \in Units, LoggerRelays(u)
        PROVE  IInv'
    <2> USE <1>32
    <2>0. relayed[u] + 1 \in 0..MaxLines
      BY DEF IInv, TypeOK, LoggerRelays
    <2>1. TypeOK'
      BY <2>0 DEF IInv, TypeOK, LoggerRelays, Booting, Opened, Signals, Units,
         control, boot, signals, record, deadly, spawning, children
    <2>2. EndedLogs'
      BY DEF IInv, EndedLogs, TypeOK, LoggerRelays, HasWriter, control,
         boot, signals, record, deadly, spawning, children, Booting, Opened,
         Signals, Units
    <2>3. BootOrder' /\ Reported' /\ Recorded' /\ OpenMeansWhole' /\ ShutdownOrder' /\ KillAfterTerm'
      BY DEF IInv, BootOrder, Reported, Recorded, OpenMeansWhole,
         ShutdownOrder, KillAfterTerm, LoggerRelays, control, boot, signals,
         record, deadly, spawning, children, Units, Booting, Opened, At
    <2> QED  BY <2>1, <2>2, <2>3 DEF IInv
  <1>33. ASSUME NEW u \in Units, LoggerEnds(u)
        PROVE  IInv'
    <2> USE <1>33
    <2>1. TypeOK'
      <3> USE DEF IInv, TypeOK, LoggerEnds, Booting, Opened, Signals, Units,
           control, boot, record, deadly, spawning, children
      <3>1. ScalarsOK'  BY DEF ScalarsOK
      <3>2. MapsOK'  BY DEF MapsOK
      <3> QED  BY <3>1, <3>2 DEF ScalarsOK, MapsOK
    <2>2. Recorded'
      BY DEF IInv, Recorded, TypeOK, LoggerEnds, Booting, Units, control,
         boot, record, deadly, spawning, children, Opened, Signals
    <2>3. EndedLogs'
      BY DEF IInv, EndedLogs, TypeOK, LoggerEnds, HasWriter, control, boot,
         record, deadly, spawning, children, Booting, Opened, Signals, Units
    <2>4. ShutdownOrder'
      BY DEF IInv, ShutdownOrder, TypeOK, Recorded, LoggerEnds, At, control,
         boot, record, deadly, spawning, children, Booting, Opened, Signals,
         Units
    <2>5. BootOrder' /\ Reported' /\ OpenMeansWhole' /\ KillAfterTerm'
      BY DEF IInv, BootOrder, Reported, OpenMeansWhole, KillAfterTerm,
         LoggerEnds, control, boot, record, deadly, spawning, children, Units,
         Opened, Booting
    <2> QED  BY <2>1, <2>2, <2>3, <2>4, <2>5 DEF IInv
  <1>34. ASSUME NEW u \in Units, LoggerShot(u)
        PROVE  IInv'
    <2> USE <1>34
    <2>1. TypeOK'
      <3> USE DEF IInv, TypeOK, LoggerShot, Booting, Opened, Signals, Units,
           control, boot, record, deadly, spawning, children
      <3>1. ScalarsOK'  BY DEF ScalarsOK
      <3>2. MapsOK'  BY DEF MapsOK
      <3> QED  BY <3>1, <3>2 DEF ScalarsOK, MapsOK
    <2>2. Recorded'
      BY DEF IInv, Recorded, TypeOK, LoggerShot, Booting, Units, control,
         boot, record, deadly, spawning, children, Opened, Signals
    <2>3. EndedLogs'
      BY DEF IInv, EndedLogs, TypeOK, LoggerShot, HasWriter, control, boot,
         record, deadly, spawning, children, Booting, Opened, Signals, Units
    <2>4. ShutdownOrder'
      BY DEF IInv, ShutdownOrder, TypeOK, Recorded, LoggerShot, At, control,
         boot, record, deadly, spawning, children, Booting, Opened, Signals,
         Units
    <2>5. BootOrder' /\ Reported' /\ OpenMeansWhole' /\ KillAfterTerm'
      BY DEF IInv, BootOrder, Reported, OpenMeansWhole, KillAfterTerm,
         LoggerShot, control, boot, record, deadly, spawning, children, Units,
         Opened, Booting
    <2> QED  BY <2>1, <2>2, <2>3, <2>4, <2>5 DEF IInv
  <1>35. ASSUME NEW s \in Signals, Signalled(s)
        PROVE  IInv'
    <2> USE <1>35
    <2>1. TypeOK'
      <3> USE DEF IInv, TypeOK, Signalled, Booting, Opened, Signals, Units,
           control, boot, record, deadly, spawning, children, logs
      <3>1. ScalarsOK'  BY DEF ScalarsOK
      <3>2. MapsOK'  BY DEF MapsOK
      <3> QED  BY <3>1, <3>2 DEF ScalarsOK, MapsOK
    <2>2. BootOrder' /\ Reported' /\ Recorded' /\ OpenMeansWhole' /\ EndedLogs' /\ ShutdownOrder' /\ KillAfterTerm'
      BY DEF IInv, BootOrder, Reported, Recorded, OpenMeansWhole, EndedLogs,
         ShutdownOrder, KillAfterTerm, Signalled, control, boot, record,
         deadly, spawning, children, logs, Units, Booting, Opened, HasWriter,
         At
    <2> QED  BY <2>1, <2>2 DEF IInv
  <1>36. ASSUME UNCHANGED vars
        PROVE  IInv'
    <2> USE <1>36 DEF vars, control, boot, signals, record, deadly, spawning, children, logs
    <2>1. TypeOK' /\ BootOrder' /\ Reported' /\ Recorded'
      BY DEF IInv, TypeOK, BootOrder, Reported, Recorded
    <2>2. OpenMeansWhole' /\ EndedLogs' /\ ShutdownOrder' /\ KillAfterTerm'
      BY DEF IInv, OpenMeansWhole, EndedLogs, HasWriter, ShutdownOrder, At, KillAfterTerm
    <2> QED  BY <2>1, <2>2 DEF IInv
  <1> QED
    BY <1>1, <1>2, <1>3, <1>4, <1>5, <1>6, <1>7, <1>8, <1>9, <1>10, <1>11,
       <1>12, <1>13, <1>14, <1>15, <1>16, <1>17, <1>18, <1>19, <1>20, <1>21,
       <1>22, <1>23, <1>24, <1>25, <1>26, <1>27, <1>28, <1>29, <1>30, <1>31,
       <1>32, <1>33, <1>34, <1>35, <1>36 DEF Next, Pid1, Boots, Runs, Lab, Closes,
       Spawner, Child, Logger, Ended

(* PID 1's tables and the states of its children are well formed at every  *)
(* step, for any number of units.                                          *)
THEOREM Typing == Spec => []TypeOK
  <1>1. IInv => TypeOK
    BY DEF IInv
  <1> QED  BY <1>1, Begins, Inductive, PTL DEF Spec

(* reap_all() clears a pid in the step that frees it: shutdown_city() only *)
(* signals children that have not been waited for.                         *)
THEOREM NoStalePid == Spec => []PidsLive
  <1>1. IInv => PidsLive
    BY DEF IInv, Recorded, PidsLive
  <1> QED  BY <1>1, Begins, Inductive, PTL DEF Spec

(* PID 1 opens the city only on a whole report and a clean exit of         *)
(* nw-spawn, and never takes the exit of a house for that of an orphan.    *)
THEOREM WholeCity == Spec => []OpenMeansWhole
  <1>1. IInv => OpenMeansWhole
    BY DEF IInv
  <1> QED  BY <1>1, Begins, Inductive, PTL DEF Spec

(* shutdown_city() kills no house it has not told to stop. *)
THEOREM TermFirst == Spec => []KillAfterTerm
  <1>1. IInv => KillAfterTerm
    BY DEF IInv
  <1> QED  BY <1>1, Begins, Inductive, PTL DEF Spec

(* A logger that reads end-of-file has relayed all there will ever be.     *)
THEOREM EofIsFinal == Spec => []EofIsEnd
  <1>1. IInv => EofIsEnd
    BY DEF IInv, EndedLogs, EofIsEnd
  <1> QED  BY <1>1, Begins, Inductive, PTL DEF Spec

(* Power goes with part of a log unrelayed only when the loggers' window   *)
(* was used up.                                                            *)
THEOREM TailIsKept == Spec => []TailKept
  <1>1. IInv => TailKept
    BY DEF IInv, TypeOK, EndedLogs, ShutdownOrder, At, TailKept
  <1> QED  BY <1>1, Begins, Inductive, PTL DEF Spec
=============================================================================
