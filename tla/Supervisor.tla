------------------------------ MODULE Supervisor ------------------------------
(***************************************************************************)
(* nw-sup, the supervisor of one unit: main() from the end of its setup,   *)
(* wait_house(), handle_ctl_live() and the on_term() handler of nwsup.c,   *)
(* with the house it forks, the clients of its control socket and the      *)
(* cgroup of each generation as its environment.                           *)
(*                                                                         *)
(* The process is one thread; `pc' names the instruction it is at or the   *)
(* call it is blocked in.  What makes it hard is that SIGTERM may run      *)
(* on_term() between any two of those instructions, and that the house     *)
(* goes through fork, handler reset and exec at its own pace.              *)
(*                                                                         *)
(*   boot         masks, handlers, control socket, cgroup parent           *)
(*   top          loop top: the `stopping' and `stopped' tests             *)
(*   idleGap      decided to wait for a client, poll(2) not yet entered    *)
(*   idlePoll     in poll(lfd, -1)                                         *)
(*   idleRead     connection accepted; read(2), then the answer            *)
(*   open clone assign postfork      mkdir, clone3, child = p, TERM check  *)
(*   waitOpen     pidfd_open / signalfd: which tier                        *)
(*   waitCheck    head of the wait loop: is the grace period armed?        *)
(*   waitGap      decided on an unbounded poll(2), not yet entered         *)
(*   waitPoll     in poll(2)                                               *)
(*   waitRead     handle_ctl_live: accepted; read(2), then the answer      *)
(*   waitHouse    the house's member of the poll set                       *)
(*   spinTry      waitpid(WNOHANG) of the last tier                        *)
(*   armed        in ppoll(2), SIGTERM and SIGINT blocked                  *)
(*   reap reaped  blocking waitpid; reaped, `child' not yet 0              *)
(*   sweep rmdir judge    cgroup.kill, rmdir, nw_decide                    *)
(*   done spent   left by its own decision                                 *)
(*   died piped   gone through die(); killed by SIGPIPE                    *)
(***************************************************************************)
EXTENDS Decide, Sequences, FiniteSets

CONSTANTS
  Units,     \* plans: [lock, oneshot, budget, grace, caught, stubborn]
  Tiers,     \* the ways of noticing a death the kernel may offer
  Verbs,     \* what clients send; "none": nothing yet
  Faults,    \* which failures may happen
  Backlog,   \* listen(2)'s second argument
  MaxAsks,   \* bound: connections in one behaviour
  MaxTerms   \* bound: SIGTERMs in one behaviour

\* lock and oneshot are the plan's; grace is grace_period in 50 ms cycles, 0
\* when undeclared; caught says that stop_signal is one that nw-sup itself
\* handles (SIGTERM, SIGINT); stubborn that the running house ignores it.
AllUnits == [lock : BOOLEAN, oneshot : BOOLEAN, budget : Nat, grace : Nat,
             caught : BOOLEAN, stubborn : BOOLEAN]
AllTiers  == {"pidfd", "signalfd", "spin"}
AllVerbs  == {"START", "STOP", "BAD", "none"}
AllFaults == {"boot", "cgroup", "clone", "poll", "sweep", "kids", "hangup"}

ASSUME UnitsAssumption  == Units \subseteq AllUnits
ASSUME TiersAssumption  == Tiers \subseteq AllTiers /\ Tiers # {}
ASSUME ClientAssumption == /\ Verbs \subseteq AllVerbs
                           /\ Faults \subseteq AllFaults
                           /\ Backlog \in Nat
ASSUME BoundsAssumption == MaxAsks \in Nat /\ MaxTerms \in Nat

VARIABLES
  unit,            \* the plan's record, never written
  pc,
  stopping, stop_requested, stopped, deaths, child,
  tier, armed_cycles, rdy,
  pend,            \* a SIGTERM is pending behind ppoll's mask
  chldBlocked, chldPending,
  house,           \* the current generation's process
  told,            \* the strongest signal that took effect on it
  lost,            \* a stop signal was swallowed by the inherited handler
  st,              \* its wait status: "zero" is exit(0)
  cg_gen, dirs, kids, doomed,
  queue,           \* accept queue; while one is served, its head is it
  asks, terms

unitVars  == unit
flagVars  == <<stopping, stop_requested, stopped, deaths, child>>
waitVars  == <<tier, armed_cycles, rdy>>
sigVars   == <<pend, chldBlocked, chldPending, terms>>
houseVars == <<house, told, lost, st>>
cgVars    == <<cg_gen, dirs, kids, doomed>>
ctlVars   == <<queue, asks>>
vars == <<unit, pc, flagVars, waitVars, sigVars, houseVars, cgVars, ctlVars>>

Exited  == {"done", "spent", "died", "piped"}
Waiting == {"waitCheck", "waitGap", "waitPoll", "waitRead", "waitHouse",
            "spinTry", "armed", "reap"}
PCs == Exited \cup Waiting \cup
       {"boot", "top", "idleGap", "idlePoll", "idleRead", "open", "clone",
        "assign", "postfork", "waitOpen", "reaped", "sweep", "rmdir", "judge"}
Alive == {"born", "reset", "run"}
Connection == [verb : AllVerbs, gone : BOOLEAN]

TypeFlags == /\ stopping \in BOOLEAN /\ stop_requested \in BOOLEAN
             /\ stopped \in BOOLEAN /\ child \in BOOLEAN
             /\ deaths \in Nat
TypeWait  == /\ tier \in AllTiers
             /\ armed_cycles \in Nat
             /\ rdy \subseteq {"ctl", "house"}
TypeSig   == /\ pend \in BOOLEAN /\ chldBlocked \in BOOLEAN
             /\ chldPending \in BOOLEAN
             /\ terms \in Nat
TypeHouse == /\ house \in Alive \cup {"none", "zombie"}
             /\ told \in {"no", "stop", "kill"}
             /\ lost \in BOOLEAN
             /\ st \in {"zero", "fail"}
TypeCg    == /\ cg_gen \in Nat
             /\ dirs \subseteq 0 .. (cg_gen - 1)
             /\ kids \subseteq 0 .. (cg_gen - 1)
             /\ doomed \subseteq 0 .. (cg_gen - 1)
TypeCtl   == /\ queue \in Seq(Connection)
             /\ asks \in Nat

\* The type invariant: every variable keeps to its range, and the cgroup
\* bookkeeping speaks only of generations that house_cgroup_open_generation()
\* has been asked for.
TypeOK == /\ unit \in Units
          /\ pc \in PCs
          /\ TypeFlags /\ TypeWait /\ TypeSig /\ TypeHouse /\ TypeCg /\ TypeCtl

Init ==
  /\ unit \in Units
  /\ pc = "boot"
  /\ stopping = FALSE /\ stop_requested = FALSE /\ child = FALSE
  /\ stopped = ~unit.lock
  /\ deaths = 0
  /\ tier = "pidfd" /\ armed_cycles = 0 /\ rdy = {}
  /\ pend = FALSE /\ chldBlocked = FALSE /\ chldPending = FALSE
  /\ house = "none" /\ told = "no" /\ lost = FALSE /\ st = "zero"
  /\ cg_gen = 0 /\ dirs = {} /\ kids = {} /\ doomed = {}
  /\ queue = <<>>
  /\ asks = 0 /\ terms = 0

-------------------------------------------------------------------------------
(* Signals to the house *)

\* kill(child, nw_stop_signal).  A house that has not yet run
\* signal(SIGTERM, SIG_DFL) still has on_term() installed and swallows a
\* signal nw-sup itself handles.  kill(2) on a zombie does nothing.
SendStop ==
  /\ lost' = (lost \/ (house = "born" /\ unit.caught))
  /\ told' = IF house \in Alive /\ told = "no"
                  /\ ~(house = "born" /\ unit.caught)
             THEN "stop" ELSE told

\* kill(p, SIGKILL)
SendKill == /\ told' = IF house \in Alive THEN "kill" ELSE told
            /\ UNCHANGED lost

\* on_term(): what runs when a SIGTERM or SIGINT is delivered.
OnTerm ==
  /\ stopping' = TRUE
  /\ IF child THEN SendStop ELSE UNCHANGED <<told, lost>>

\* The end of a ppoll(2): a signal held back by its mask is delivered.
DeliverPending ==
  /\ pend' = FALSE
  /\ stopping' = (stopping \/ pend)

-------------------------------------------------------------------------------
(* Setup and loop top *)

Boot ==
  /\ pc = "boot"
  /\ pc' = "top"
  /\ UNCHANGED <<unit, flagVars, waitVars, sigVars, houseVars, cgVars, ctlVars>>

\* Any die() of the setup: environment, control directory, socket,
\* controllers.  Or a SIGTERM that was pending behind nw-spawn's mask when
\* main() clears it, one statement before on_term() is installed.
BootFails ==
  /\ pc = "boot" /\ "boot" \in Faults
  /\ pc' = "died"
  /\ UNCHANGED <<unit, flagVars, waitVars, sigVars, houseVars, cgVars, ctlVars>>

\* if (stopping) ...; if (stopped) ...; else a new generation
LoopTop ==
  /\ pc = "top"
  /\ pc' = IF stopping THEN "done" ELSE IF stopped THEN "idleGap" ELSE "open"
  /\ UNCHANGED <<unit, flagVars, waitVars, sigVars, houseVars, cgVars, ctlVars>>

-------------------------------------------------------------------------------
(* The idle branch *)

IdleEnter ==
  /\ pc = "idleGap"
  /\ pc' = "idlePoll"
  /\ UNCHANGED <<unit, flagVars, waitVars, sigVars, houseVars, cgVars, ctlVars>>

IdleAccept ==
  /\ pc = "idlePoll" /\ queue # <<>>
  /\ pc' = "idleRead"
  /\ UNCHANGED <<unit, flagVars, waitVars, sigVars, houseVars, cgVars, ctlVars>>

IdlePollFails ==
  /\ pc = "idlePoll" /\ "poll" \in Faults
  /\ pc' = "died"
  /\ UNCHANGED <<unit, flagVars, waitVars, sigVars, houseVars, cgVars, ctlVars>>

\* read(2) has something to return: the request, or end of file.
Readable == Head(queue).verb # "none" \/ Head(queue).gone

\* What the answer to START does: nw_decide with start_requested.
IdleStart ==
  LET d == NwDecide(unit.lock, unit.oneshot, stopping, stop_requested, TRUE,
                    FALSE, FALSE, FALSE, deaths, unit.budget)
  IN  /\ pc' = IF d = "EXIT_SUP" THEN "done" ELSE "top"
      /\ stopped' = (d # "FORK")

\* One request, one reply, close.  The reply is a write(2) with SIGPIPE at
\* its default disposition, before `stopped' is written.
IdleServe ==
  /\ pc = "idleRead" /\ Readable
  /\ queue' = Tail(queue)
  /\ IF Head(queue).gone
     THEN pc' = "piped" /\ UNCHANGED stopped
     ELSE IF Head(queue).verb = "START"
     THEN IdleStart
     ELSE pc' = "top" /\ UNCHANGED stopped
  /\ UNCHANGED <<unit, stopping, stop_requested, deaths, child, waitVars,
                 sigVars, houseVars, cgVars, asks>>

-------------------------------------------------------------------------------
(* A new generation *)

\* Mutant: one directory for all generations.
OpenGeneration_Reuse ==
  /\ pc = "open" /\ cg_gen \notin dirs
  /\ pc' = "clone"
  /\ dirs' = dirs \cup {cg_gen}
  /\ UNCHANGED <<unit, flagVars, waitVars, sigVars, houseVars, cg_gen, kids,
                 doomed, ctlVars>>

\* house_cgroup_open_generation(name, cg_gen++): mkdir, limits, open.
OpenGeneration ==
  /\ pc = "open" /\ cg_gen \notin dirs
  /\ pc' = "clone"
  /\ cg_gen' = cg_gen + 1
  /\ dirs' = dirs \cup {cg_gen}
  /\ UNCHANGED <<unit, flagVars, waitVars, sigVars, houseVars, kids, doomed,
                 ctlVars>>

\* mkdir fails, with EEXIST or otherwise, or a limit cannot be set and
\* die_cgroup() removes the directory again.
OpenFails ==
  /\ pc = "open"
  /\ cg_gen \in dirs \/ "cgroup" \in Faults
  /\ pc' = "died"
  /\ cg_gen' = cg_gen + 1
  /\ UNCHANGED <<unit, flagVars, waitVars, sigVars, houseVars, dirs, kids,
                 doomed, ctlVars>>

\* clone_into_cgroup().  told, lost and st speak of the new process.
CloneHouse ==
  /\ pc = "clone"
  /\ pc' = "assign"
  /\ house' = "born" /\ told' = "no" /\ lost' = FALSE /\ st' = "zero"
  /\ UNCHANGED <<unit, flagVars, waitVars, sigVars, cgVars, ctlVars>>

CloneFails ==
  /\ pc = "clone" /\ "clone" \in Faults
  /\ pc' = "died"
  /\ dirs' = dirs \ {cg_gen - 1}
  /\ UNCHANGED <<unit, flagVars, waitVars, sigVars, houseVars, cg_gen, kids,
                 doomed, ctlVars>>

AssignChild ==
  /\ pc = "assign"
  /\ pc' = "postfork"
  /\ child' = TRUE
  /\ UNCHANGED <<unit, stopping, stop_requested, stopped, deaths, waitVars,
                 sigVars, houseVars, cgVars, ctlVars>>

\* Mutant: no second look at `stopping' after the fork.
PostFork_NoCheck ==
  /\ pc = "postfork"
  /\ pc' = "waitOpen"
  /\ UNCHANGED <<unit, flagVars, waitVars, sigVars, houseVars, cgVars, ctlVars>>

\* The TERM that on_term() could not send while `child' was still 0.
PostFork ==
  /\ pc = "postfork"
  /\ pc' = "waitOpen"
  /\ IF NwDecide(unit.lock, unit.oneshot, stopping, stop_requested, FALSE,
                 TRUE, FALSE, FALSE, deaths, unit.budget) = "TERM_CHILD"
     THEN SendStop ELSE UNCHANGED <<told, lost>>
  /\ UNCHANGED <<unit, flagVars, waitVars, sigVars, house, st, cgVars, ctlVars>>

-------------------------------------------------------------------------------
(* wait_house() *)

\* pidfd_open, else signalfd with SIGCHLD blocked, else neither.  SIGCHLD
\* stays blocked for the rest of the process's life.
WaitOpen ==
  /\ pc = "waitOpen"
  /\ pc' = "waitCheck"
  /\ tier' \in Tiers
  /\ chldBlocked' = (chldBlocked \/ tier' # "pidfd")
  /\ armed_cycles' = 0
  /\ rdy' = {}
  /\ UNCHANGED <<unit, flagVars, pend, chldPending, terms, houseVars, cgVars,
                 ctlVars>>

\* Mutant: only shutdown is escalated.
Armed_ShutdownOnly == unit.grace > 0 /\ stopping

Armed == unit.grace > 0 /\ (stopping \/ stop_requested)

\* Mutant: the house's descriptor never becomes readable.
HouseReady_Never == FALSE

\* Does the poll member that stands for the house report something?
HouseReady == \/ tier = "pidfd" /\ house = "zombie"
              \/ tier = "signalfd" /\ chldPending

Ready == {m \in {"ctl", "house"} : \/ m = "ctl" /\ queue # <<>>
                                   \/ m = "house" /\ HouseReady}

\* The head of either loop.  In the last tier an expired count of cycles
\* ends the wait here, and an unarmed poll(2) has a bound of its own.
WaitCheck ==
  /\ pc = "waitCheck"
  /\ ~(tier = "spin" /\ Armed /\ armed_cycles >= unit.grace)
  /\ pc' = IF Armed THEN "armed" ELSE IF tier = "spin" THEN "waitPoll"
           ELSE "waitGap"
  /\ armed_cycles' = IF Armed THEN armed_cycles ELSE 0
  /\ UNCHANGED <<unit, flagVars, tier, rdy, sigVars, houseVars, cgVars, ctlVars>>

SpinExpires ==
  /\ pc = "waitCheck" /\ tier = "spin" /\ Armed
  /\ armed_cycles >= unit.grace
  /\ pc' = "reap"
  /\ SendKill
  /\ UNCHANGED <<unit, flagVars, waitVars, sigVars, house, st, cgVars, ctlVars>>

WaitEnter ==
  /\ pc = "waitGap"
  /\ pc' = "waitPoll"
  /\ UNCHANGED <<unit, flagVars, waitVars, sigVars, houseVars, cgVars, ctlVars>>

\* poll(2) returns; in the last tier also after 50 ms with nothing ready.
WaitPoll ==
  /\ pc = "waitPoll"
  /\ Ready # {} \/ tier = "spin"
  /\ rdy' = Ready
  /\ pc' = IF tier = "spin" THEN "spinTry"
           ELSE IF "ctl" \in Ready THEN "waitRead" ELSE "waitHouse"
  /\ UNCHANGED <<unit, flagVars, tier, armed_cycles, sigVars, houseVars, cgVars,
                 ctlVars>>

\* die("poll house"), of poll(2) or of ppoll(2): the house is left running.
WaitPollFails ==
  /\ pc \in {"waitPoll", "armed"} /\ "poll" \in Faults
  /\ pc' = "died"
  /\ UNCHANGED <<unit, flagVars, waitVars, sigVars, houseVars, cgVars, ctlVars>>

\* STOP on a live house: idempotent, one signal for the first.
CtlStop ==
  /\ stop_requested' = TRUE
  /\ IF ~stop_requested
          /\ NwDecide(unit.lock, unit.oneshot, stopping, TRUE, FALSE, TRUE,
                      FALSE, FALSE, deaths, unit.budget) = "TERM_CHILD"
     THEN SendStop ELSE UNCHANGED <<told, lost>>

\* handle_ctl_live(): START and garbage change nothing.
WaitServe ==
  /\ pc = "waitRead" /\ Readable
  /\ queue' = Tail(queue)
  /\ IF Head(queue).verb = "STOP"
     THEN CtlStop ELSE UNCHANGED <<stop_requested, told, lost>>
  /\ pc' = IF Head(queue).gone THEN "piped"
           ELSE IF tier = "spin" THEN "waitCheck" ELSE "waitHouse"
  /\ UNCHANGED <<unit, stopping, stopped, deaths, child, waitVars, sigVars,
                 house, st, cgVars, asks>>

\* waitpid() has collected the house.
Collect == house = "zombie" /\ house' = "none"

\* The house's member of the poll set, looked at after the control socket.
WaitHouse ==
  /\ pc = "waitHouse"
  /\ \/ /\ "house" \notin rdy
        /\ pc' = "waitCheck"
        /\ UNCHANGED <<chldPending, house>>
     \/ /\ "house" \in rdy /\ tier = "pidfd"
        /\ pc' = "reap"
        /\ UNCHANGED <<chldPending, house>>
     \/ /\ "house" \in rdy /\ tier = "signalfd"
        /\ chldPending' = FALSE
        /\ \/ Collect /\ pc' = "reaped"
           \/ house # "zombie" /\ pc' = "waitCheck" /\ UNCHANGED house
  /\ UNCHANGED <<unit, flagVars, waitVars, pend, chldBlocked, terms, told, lost,
                 st, cgVars, ctlVars>>

\* waitpid(p, WNOHANG) of the last tier, and only then the client.
SpinTry ==
  /\ pc = "spinTry"
  /\ \/ Collect /\ pc' = "reaped"
     \/ /\ house # "zombie"
        /\ pc' = IF "ctl" \in rdy THEN "waitRead" ELSE "waitCheck"
        /\ UNCHANGED house
  /\ UNCHANGED <<unit, flagVars, waitVars, sigVars, told, lost, st, cgVars,
                 ctlVars>>

\* ppoll(2) in the last tier: no descriptors, one cycle.
ArmedCycle ==
  /\ pc = "armed" /\ tier = "spin"
  /\ armed_cycles' = armed_cycles + 1
  /\ rdy' = {}
  /\ pc' = "spinTry"
  /\ DeliverPending
  /\ IF pend THEN SendStop ELSE UNCHANGED <<told, lost>>
  /\ UNCHANGED <<unit, stop_requested, stopped, deaths, child, tier,
                 chldBlocked, chldPending, terms, house, st, cgVars, ctlVars>>

\* ppoll(2) on the house's descriptor alone returns it ready...
ArmedReady ==
  /\ pc = "armed" /\ tier # "spin" /\ HouseReady
  /\ pc' = "reap"
  /\ DeliverPending
  /\ IF pend THEN SendStop ELSE UNCHANGED <<told, lost>>
  /\ UNCHANGED <<unit, stop_requested, stopped, deaths, child, waitVars,
                 chldBlocked, chldPending, terms, house, st, cgVars, ctlVars>>

\* Mutant: the wait simply ends with the grace period.
ArmedExpires_NoKill ==
  /\ pc = "armed" /\ tier # "spin" /\ ~HouseReady
  /\ pc' = "reap"
  /\ DeliverPending
  /\ UNCHANGED <<unit, stop_requested, stopped, deaths, child, waitVars,
                 chldBlocked, chldPending, terms, houseVars, cgVars, ctlVars>>

\* ... or times out: SIGKILL.
ArmedExpires ==
  /\ pc = "armed" /\ tier # "spin" /\ ~HouseReady
  /\ pc' = "reap"
  /\ DeliverPending
  /\ SendKill
  /\ UNCHANGED <<unit, stop_requested, stopped, deaths, child, waitVars,
                 chldBlocked, chldPending, terms, house, st, cgVars, ctlVars>>

\* waitpid(p, &st, 0)
Reap ==
  /\ pc = "reap"
  /\ Collect
  /\ pc' = "reaped"
  /\ UNCHANGED <<unit, flagVars, waitVars, sigVars, told, lost, st, cgVars,
                 ctlVars>>

-------------------------------------------------------------------------------
(* After a death *)

ForgetChild ==
  /\ pc = "reaped"
  /\ pc' = "sweep"
  /\ child' = FALSE
  /\ UNCHANGED <<unit, stopping, stop_requested, stopped, deaths, waitVars,
                 sigVars, houseVars, cgVars, ctlVars>>

\* Mutant: only a house that was told to stop is swept.
Sweep_OnStop ==
  /\ pc = "sweep"
  /\ pc' = "rmdir"
  /\ doomed' = IF told = "no" THEN doomed ELSE doomed \cup {cg_gen - 1}
  /\ UNCHANGED <<unit, flagVars, waitVars, sigVars, houseVars, cg_gen, dirs,
                 kids, ctlVars>>

\* cg_kill_sweep(): every process left in the generation's cgroup gets a
\* SIGKILL.  Best effort: it may fail and nobody is told.
Sweep ==
  /\ pc = "sweep"
  /\ pc' = "rmdir"
  /\ \/ doomed' = doomed \cup {cg_gen - 1}
     \/ "sweep" \in Faults /\ UNCHANGED doomed
  /\ UNCHANGED <<unit, flagVars, waitVars, sigVars, houseVars, cg_gen, dirs,
                 kids, ctlVars>>

\* rmdir(cgroup_path): EBUSY, ignored, while something in it still lives.
RemoveCgroup ==
  /\ pc = "rmdir"
  /\ pc' = "judge"
  /\ dirs' = IF cg_gen - 1 \in kids THEN dirs ELSE dirs \ {cg_gen - 1}
  /\ UNCHANGED <<unit, flagVars, waitVars, sigVars, houseVars, cg_gen, kids,
                 doomed, ctlVars>>

Verdict == NwDecide(unit.lock, unit.oneshot, stopping, stop_requested, FALSE,
                    TRUE, TRUE, st = "zero", deaths, unit.budget)

JudgeExit ==
  /\ pc = "judge" /\ Verdict = "EXIT_SUP"
  /\ pc' = "done"
  /\ UNCHANGED <<unit, flagVars, waitVars, sigVars, houseVars, cgVars, ctlVars>>

\* Mutant: the STOP is left standing.
JudgeIdle_KeepStop ==
  /\ pc = "judge" /\ Verdict = "IDLE"
  /\ pc' = "top"
  /\ stopped' = TRUE
  /\ UNCHANGED <<unit, stopping, stop_requested, deaths, child, waitVars,
                 sigVars, houseVars, cgVars, ctlVars>>

JudgeIdle ==
  /\ pc = "judge" /\ Verdict = "IDLE"
  /\ pc' = "top"
  /\ stop_requested' = FALSE
  /\ stopped' = TRUE
  /\ UNCHANGED <<unit, stopping, deaths, child, waitVars, sigVars, houseVars,
                 cgVars, ctlVars>>

\* Mutant: restarts forget to count.
JudgeDeath_Uncounted ==
  /\ pc = "judge" /\ Verdict \in {"SPENT", "RESTART"}
  /\ pc' = IF Verdict = "SPENT" THEN "spent" ELSE "top"
  /\ deaths' = IF Verdict = "SPENT" THEN deaths + 1 ELSE deaths
  /\ UNCHANGED <<unit, stopping, stop_requested, stopped, child, waitVars,
                 sigVars, houseVars, cgVars, ctlVars>>

\* The only place `deaths' is written.
JudgeDeath ==
  /\ pc = "judge" /\ Verdict \in {"SPENT", "RESTART"}
  /\ pc' = IF Verdict = "SPENT" THEN "spent" ELSE "top"
  /\ deaths' = deaths + 1
  /\ UNCHANGED <<unit, stopping, stop_requested, stopped, child, waitVars,
                 sigVars, houseVars, cgVars, ctlVars>>

-------------------------------------------------------------------------------
(* The environment: signals, clients, the house *)

\* SIGTERM or SIGINT reaches nw-sup.  It is held back only inside ppoll(2).
\* poll(2) returns EINTR if nothing was ready; read(2) is restarted.
Term ==
  /\ pc \notin Exited /\ terms < MaxTerms
  /\ terms' = terms + 1
  /\ IF pc = "armed"
     THEN pend' = TRUE /\ UNCHANGED <<pc, stopping, told, lost>>
     ELSE /\ OnTerm
          /\ pc' = CASE pc = "idlePoll" /\ queue = <<>> -> "top"
                     [] pc = "waitPoll" /\ Ready = {} -> "waitCheck"
                     [] OTHER -> pc
          /\ UNCHANGED pend
  /\ UNCHANGED <<unit, stop_requested, stopped, deaths, child, waitVars,
                 chldBlocked, chldPending, house, st, cgVars, ctlVars>>

Serving == pc \in {"idleRead", "waitRead"}

\* A client connects, having sent its request or ("none") not yet.  The
\* kernel queues Backlog + 1 connections that are not yet accepted.
Connect ==
  /\ pc \notin Exited \cup {"boot"} /\ asks < MaxAsks
  /\ Len(queue) <= IF Serving THEN Backlog + 1 ELSE Backlog
  /\ asks' = asks + 1
  /\ \E v \in Verbs : queue' = Append(queue, [verb |-> v, gone |-> FALSE])
  /\ UNCHANGED <<unit, pc, flagVars, waitVars, sigVars, houseVars, cgVars>>

\* The client being served sends its request, or closes its end.  (One that
\* does so while still queued is not told apart.)
Speak ==
  /\ Serving /\ ~Readable
  /\ \E v \in Verbs \ {"none"} :
       queue' = [queue EXCEPT ![1] = [verb |-> v, gone |-> FALSE]]
  /\ UNCHANGED <<unit, pc, flagVars, waitVars, sigVars, houseVars, cgVars, asks>>

HangUp ==
  /\ Serving /\ "hangup" \in Faults /\ ~Head(queue).gone
  /\ queue' = [queue EXCEPT ![1] = [verb |-> Head(queue).verb, gone |-> TRUE]]
  /\ UNCHANGED <<unit, pc, flagVars, waitVars, sigVars, houseVars, cgVars, asks>>

\* The child: handlers and mask reset, then lids and execv().  A signal that
\* took effect before the exec has its default action.
HouseReset ==
  /\ house = "born" /\ told = "no"
  /\ house' = "reset"
  /\ UNCHANGED <<unit, pc, flagVars, waitVars, sigVars, told, lost, st, cgVars,
                 ctlVars>>

HouseExec ==
  /\ house = "reset" /\ told = "no"
  /\ house' = "run"
  /\ UNCHANGED <<unit, pc, flagVars, waitVars, sigVars, told, lost, st, cgVars,
                 ctlVars>>

\* The house ends, by itself or by a signal; before the exec never with 0.
\* SIGCHLD has no handler: unless blocked, it leaves no trace.
HouseEnds ==
  /\ house \in Alive
  /\ house' = "zombie"
  /\ st' \in IF house = "run" /\ told # "kill" THEN {"zero", "fail"} ELSE {"fail"}
  /\ chldPending' = (chldPending \/ chldBlocked)
  /\ UNCHANGED <<unit, pc, flagVars, waitVars, pend, chldBlocked, terms, told,
                 lost, cgVars, ctlVars>>

\* A running house leaves processes behind in its cgroup.
KidForked ==
  /\ house = "run" /\ told # "kill" /\ "kids" \in Faults
  /\ kids' = kids \cup {cg_gen - 1}
  /\ UNCHANGED <<unit, pc, flagVars, waitVars, sigVars, houseVars, cg_gen, dirs,
                 doomed, ctlVars>>

KidsEnd ==
  /\ \E g \in kids : kids' = kids \ {g}
  /\ UNCHANGED <<unit, pc, flagVars, waitVars, sigVars, houseVars, cg_gen, dirs,
                 doomed, ctlVars>>

-------------------------------------------------------------------------------
Step ==
  \/ Boot \/ BootFails \/ LoopTop
  \/ IdleEnter \/ IdleAccept \/ IdlePollFails \/ IdleServe
  \/ OpenGeneration \/ OpenFails \/ CloneHouse \/ CloneFails
  \/ AssignChild \/ PostFork
  \/ WaitOpen \/ WaitCheck \/ SpinExpires \/ WaitEnter \/ WaitPoll
  \/ WaitPollFails \/ WaitServe \/ WaitHouse \/ SpinTry
  \/ ArmedCycle \/ ArmedReady \/ ArmedExpires \/ Reap
  \/ ForgetChild \/ Sweep \/ RemoveCgroup
  \/ JudgeExit \/ JudgeIdle \/ JudgeDeath

Client == Connect \/ Speak \/ HangUp

House == HouseReset \/ HouseExec \/ HouseEnds \/ KidForked \/ KidsEnd

Next == Step \/ Term \/ Client \/ House

\* The kernel runs nw-sup whenever it is not blocked, and delivers what was
\* sent: a SIGKILL always ends the house, a stop signal unless it is ignored.
HouseObeys ==
  /\ \/ told = "kill"
     \/ told = "stop" /\ ~(house = "run" /\ unit.stubborn)
  /\ HouseEnds

Fairness == WF_vars(Step) /\ WF_vars(HouseObeys)

Spec == Init /\ [][Next]_vars
FairSpec == Spec /\ Fairness
===============================================================================
