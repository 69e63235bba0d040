---------------------------- MODULE SupervisorProps ----------------------------
(***************************************************************************)
(* What is claimed of nw-sup (module Supervisor), and the map from it to   *)
(* the abstract life of a unit (module Lifecycle).                         *)
(***************************************************************************)
EXTENDS Supervisor

\* From clone3 to the verdict on the death.
InHouse == {"assign", "postfork", "waitOpen", "reaped", "sweep", "rmdir",
            "judge"} \cup Waiting

\* From clone3 to the waitpid that collects the house.
HasProcess == {"assign", "postfork", "waitOpen"} \cup Waiting

-------------------------------------------------------------------------------
(* Safety *)

\* The restart budget (decide.c, `deaths >= budget') is a hard total: every
\* counted death but the last is covered by it, and the one that exceeds it
\* is the supervisor's last act.
BudgetIsHard ==
  IF pc = "spent" THEN deaths = unit.budget + 1 ELSE deaths <= unit.budget

\* Every generation house_cgroup_open_generation() creates is paid for: by a
\* counted death, by a client's request, or by being the first of a locked
\* unit.  No interleaving of STOP, START, TERM and crashes forks a free one.
GenerationsPaid ==
  cg_gen <= deaths + asks + (IF unit.lock THEN 1 ELSE 0)

\* A generation nw-sup has signalled, from whichever of its kill() sites, is
\* never counted as a death when it ends (the `deaths++' of main()).
SignalledNeverCounts == [][deaths' # deaths => told = "no"]_vars

\* A STOP is for the house it found: stop_requested is down again before the
\* loop can fork the next generation or sit idle.
StopIsConsumed ==
  stop_requested => pc \in (InHouse \cup Exited) \ {"assign", "postfork",
                                                     "waitOpen"}

\* Once nw-sup waits for the house, a shutdown or STOP it knows of has been
\* signalled to a live house, whatever the moment the TERM came at: before
\* the fork, between clone3 and `child = p', or later.  (The inherited
\* handler may have swallowed it: `lost'.)
StopReachesHouse ==
  pc \in Waiting /\ (stopping \/ stop_requested) /\ house \in Alive
    => told # "no" \/ lost

\* nw-sup is never in its loop's idle or fork part, and never leaves by its
\* own decision, while a house it forked is still its child.
OneHouse == pc \notin HasProcess \cup {"died", "piped"} => house = "none"

\* mkdir in house_cgroup_open_generation() never meets an old directory,
\* though the rmdir of an earlier generation may have failed.
GenerationFresh == pc = "open" => cg_gen \notin dirs

\* Processes a house left behind are under a SIGKILL before the next
\* generation is opened or the supervisor leaves, unless the sweep failed.
StragglersDoomed ==
  \A g \in kids \ doomed :
     \/ g = cg_gen - 1 /\ pc \in (InHouse \cup {"died", "piped"})
                                   \ {"rmdir", "judge"}
     \/ "sweep" \in Faults

-------------------------------------------------------------------------------
(* The inductive strengthening of the above *)

\* A process, or a directory about to get one, belongs to a generation.
Opened == pc \in InHouse \cup {"clone"} \/ house # "none" => cg_gen > 0

\* There is a connection to be served wherever one is served next.
Served == Serving \/ (pc = "spinTry" /\ "ctl" \in rdy) => queue # <<>>

\* `child' is set from `child = p' to `child = 0'.
ChildKnown ==
  pc \notin Exited =>
    (child <=> pc \in {"postfork", "waitOpen", "reaped"} \cup Waiting)

\* `stopped' is set in the idle branch and clear from mkdir to the verdict.
StoppedKnown ==
  /\ pc \in {"idleGap", "idlePoll", "idleRead"} => stopped
  /\ pc \in InHouse \cup {"open", "clone"} => ~stopped

\* A bounded wait has a reason, and so has every signal sent.
SignalHasReason ==
  pc = "armed" \/ (pc \in InHouse /\ told # "no") => stopping \/ stop_requested

\* StopReachesHouse, from the moment the post-fork check is behind.
StopSent ==
  pc \in Waiting \cup {"waitOpen"} /\ (stopping \/ stop_requested)
      /\ house \in Alive
    => told # "no" \/ lost

\* GenerationsPaid, with the requests still queued and the generation that
\* the loop is on its way to open.
Owed == IF pc \in {"boot", "top", "open"} /\ ~stopped THEN 1 ELSE 0
Ledger == cg_gen + Owed + Len(queue)
            <= deaths + asks + (IF unit.lock THEN 1 ELSE 0)

IInv == /\ TypeOK /\ Opened /\ Served
        /\ OneHouse /\ ChildKnown /\ StoppedKnown /\ StopIsConsumed
        /\ SignalHasReason /\ StopSent
        /\ BudgetIsHard /\ Ledger /\ StragglersDoomed

-------------------------------------------------------------------------------
(* Liveness, under FairSpec *)

Gone == house = "none" \/ pc \in {"died", "piped"}

\* wait_house() notices every death: a zombie is collected.  What can keep it
\* from looking is a client it has accepted and that never says anything.
DeathNoticed == house = "zombie" ~> Gone \/ (Serving /\ ~Readable)

\* A house that ignores its STOP is down after its declared grace_period,
\* however the control socket is used meanwhile.
StopEscalates == stop_requested /\ unit.grace > 0 ~> Gone

\* Once wait_house() is in its bounded wait, the house comes down.
EscalationBounded == pc = "armed" ~> Gone

\* The same for a shutdown: on_term() makes wait_house() escalate.
TermEscalates == stopping /\ unit.grace > 0 /\ pc \in Waiting ~> Gone

-------------------------------------------------------------------------------
(* Refinement *)

\* A unit is up from the clone3 to the verdict, and over when nw-sup is.
phaseMap == CASE pc \in Exited  -> "over"
              [] pc \in InHouse -> "up"
              [] OTHER -> IF stopped THEN "resting" ELSE "due"

LC == INSTANCE Lifecycle WITH phase <- phaseMap, counted <- deaths,
                              asked <- stop_requested, closing <- stopping

\* nw-sup implements Lifecycle: restarts only against the budget or on
\* request, requested and closing deaths uncharged, no house after closing
\* but the one the shutdown raced with.
Refinement == LC!LSpec
===============================================================================
