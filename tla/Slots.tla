-------------------------------- MODULE Slots --------------------------------
(***************************************************************************)
(* The slots on disk and the tool that fills them: stage-candidate.py with *)
(* stage-layers.py.  A slot holds plan.blob and, for the tools, the        *)
(* sidecars plan.blob.sha256 and plan.blob.layers; each is replaced by a   *)
(* rename, one after the other.  The layers are directories or images on   *)
(* the machine's root.  The tool may be killed between any two calls, and  *)
(* any call may raise.                                                     *)
(***************************************************************************)
EXTENDS Integers, Sequences, FiniteSets

CONSTANTS
  DirOf,      \* slot name -> directory: two names may be one directory
  Pointers,   \* what <slots>/current may hold besides a name
  Plans,      \* [ok, len, units, layers], layers: id -> [brick, bytes]
  FirstPlan,  \* the plan of the first slot, staged with its layers
  Ids         \* layer ids

Names == DOMAIN DirOf
Dirs == {DirOf[n] : n \in Names}
None == [ok |-> FALSE, len |-> 0, units |-> 0, layers |-> [i \in {} |-> 0]]

ASSUME SlotsAssumption ==
  /\ FirstPlan \in Plans /\ FirstPlan.ok /\ None \notin Plans
  /\ \A q \in Plans : /\ DOMAIN q.layers \subseteq Ids
                     /\ \A id \in DOMAIN q.layers : q.layers[id].bytes \in Nat
  /\ Pointers \intersect Names = {}

VARIABLES
  slot,      \* directory -> [blob, sha, list]; sha and list as of which plan
  exists,    \* slot directories that there are
  current,   \* what <slots>/current holds
  store,     \* id -> [dir, upper, work, img]: what is on disk for a layer
  running,   \* the directory of the slot the machine runs, or "none"
  st         \* the tool: [at, live, target, plan, todo, made]

slotVars == <<slot, exists, current, store, running, st>>

Idle == [at |-> 0, live |-> "none", target |-> "none", plan |-> None, todo |-> {}, made |-> FALSE]
NoStore == [dir |-> FALSE, upper |-> FALSE, work |-> FALSE, img |-> 0]

Ready(id, bytes) ==
  IF bytes > 0 THEN store[id].dir /\ store[id].img = bytes
  ELSE store[id].upper /\ store[id].work /\ store[id].img = 0

SlotsInit(first) ==
  /\ slot = [d \in Dirs |-> IF d = DirOf[first] THEN [blob |-> FirstPlan, sha |-> FirstPlan, list |-> FirstPlan]
                            ELSE [blob |-> None, sha |-> None, list |-> None]]
  /\ exists = {DirOf[first]}
  /\ current = first /\ running = "none"
  /\ store = [i \in Ids |->
                IF i \notin DOMAIN FirstPlan.layers THEN NoStore
                ELSE LET b == FirstPlan.layers[i].bytes
                     IN  [dir |-> TRUE, upper |-> b = 0, work |-> b = 0, img |-> b]]
  /\ st = Idle

(***************************************************************************)
(* stage-candidate.py                                                      *)
(***************************************************************************)
\* 1 bake, 2 nw-check, 3 the clash check, then the part that others see, then
\* the `finally'.
StageOrder_BlobEarly == <<"bake", "check", "clash", "sha", "list", "blob", "layers", "cleanup">>
StageOrder == <<"bake", "check", "clash", "layers", "sha", "list", "blob", "cleanup">>

Stage(step) == st.at > 0 /\ StageOrder[st.at] = step
Go == [st EXCEPT !.at = @ + 1]
Abort == [st EXCEPT !.at = Len(StageOrder)]      \* SystemExit, through the `finally'
Target == DirOf[st.target]

\* The two guards: the name, and the directory behind it.
MayWrite_ByName(target, live) == target # live
MayWrite(target, live) == target # live /\ DirOf[target] # DirOf[live]

\* live_slot() is strict: a pointer that is not a plain name is refused.  The
\* target is named with --slot, or is the one other slot there is.
Start ==
  /\ st.at = 0 /\ running # "none"
  /\ current \in Names
  /\ \E q \in Plans, target \in Names :
       /\ MayWrite(target, current)
       /\ st' = [at |-> 1, live |-> current, target |-> target, plan |-> q,
                 todo |-> DOMAIN q.layers, made |-> DirOf[target] \notin exists]
       /\ exists' = exists \union {DirOf[target]}
  /\ UNCHANGED <<slot, current, store, running>>

\* nw-cc.py into the scratch directory; the baker may refuse.
Bake ==
  /\ Stage("bake")
  /\ st' \in {Go, Abort}
  /\ UNCHANGED <<slot, exists, current, store, running>>

NwCheck ==
  /\ Stage("check")
  /\ st' = IF st.plan.ok THEN Go ELSE Abort
  /\ UNCHANGED <<slot, exists, current, store, running>>

\* The live slot's sidecars describe its blob, and no layer of theirs is
\* wanted over another brick.
NoClash(q, s) ==
  /\ s.sha = s.blob /\ s.sha # None /\ s.list # None
  /\ \A i \in DOMAIN q.layers \intersect DOMAIN s.list.layers :
       q.layers[i].brick = s.list.layers[i].brick

Clash ==
  /\ Stage("clash")
  /\ st' = IF NoClash(st.plan, slot[DirOf[st.live]]) THEN Go ELSE Abort
  /\ UNCHANGED <<slot, exists, current, store, running>>

\* stage-layers.py, one id and one call at a time.  What is on disk in the
\* other representation, or of another size, is refused and never converted.
Unfit(id, bytes) ==
  IF bytes > 0 THEN IF store[id].img > 0 THEN store[id].img # bytes ELSE store[id].upper
  ELSE store[id].img > 0

Made(id, bytes) ==
  IF ~store[id].dir THEN [store[id] EXCEPT !.dir = TRUE]
  ELSE IF bytes > 0 THEN [store[id] EXCEPT !.img = bytes]     \* mkfs into a temporary name, renamed
  ELSE IF ~store[id].upper THEN [store[id] EXCEPT !.upper = TRUE]
  ELSE [store[id] EXCEPT !.work = TRUE]

StageLayer(id) ==
  /\ Stage("layers") /\ id \in st.todo
  /\ LET bytes == st.plan.layers[id].bytes
     IN  \/ /\ Ready(id, bytes) /\ st' = [st EXCEPT !.todo = @ \ {id}]
            /\ UNCHANGED store
         \/ /\ ~Ready(id, bytes)
            /\ IF store[id].dir /\ Unfit(id, bytes) THEN st' = Abort /\ UNCHANGED store
               ELSE store' = [store EXCEPT ![id] = Made(id, bytes)] /\ UNCHANGED st
  /\ UNCHANGED <<slot, exists, current, running>>

LayersDone ==
  /\ Stage("layers") /\ st.todo = {}
  /\ st' = Go
  /\ UNCHANGED <<slot, exists, current, store, running>>

Put(file) == slot' = [slot EXCEPT ![Target] = [@ EXCEPT ![file] = st.plan]]

RenameSha ==
  /\ Stage("sha") /\ Put("sha") /\ st' = Go
  /\ UNCHANGED <<exists, current, store, running>>

RenameList ==
  /\ Stage("list") /\ Put("list") /\ st' = Go
  /\ UNCHANGED <<exists, current, store, running>>

RenameBlob ==
  /\ Stage("blob") /\ Put("blob") /\ st' = Go
  /\ UNCHANGED <<exists, current, store, running>>

\* rmtree of the tool's own scratch directory, which nothing else looks at, and
\* rmdir of a slot made for nothing.
Empty(d) == slot[d].blob = None /\ slot[d].sha = None /\ slot[d].list = None

Cleanup ==
  /\ Stage("cleanup")
  /\ exists' = IF st.made /\ Empty(Target) THEN exists \ {Target} ELSE exists
  /\ st' = Idle
  /\ UNCHANGED <<slot, current, store, running>>

\* A call raises: the `finally' runs.  A signal: it does not.
Raise ==
  /\ st.at > 0 /\ st.at < Len(StageOrder) /\ st' = Abort
  /\ UNCHANGED <<slot, exists, current, store, running>>

KillTool ==
  /\ st.at > 0 /\ st' = Idle
  /\ UNCHANGED <<slot, exists, current, store, running>>

Tool ==
  \/ Start \/ Bake \/ NwCheck \/ Clash \/ (\E id \in Ids : StageLayer(id)) \/ LayersDone
  \/ RenameSha \/ RenameList \/ RenameBlob \/ Cleanup \/ Raise \/ KillTool

\* The operator writes <slots>/current.
Switch ==
  /\ running # "none"
  /\ current' \in (Names \union Pointers) \ {current}
  /\ UNCHANGED <<slot, exists, store, running, st>>
==============================================================================
