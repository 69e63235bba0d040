-------------------------------- MODULE City --------------------------------
(***************************************************************************)
(* PID 1, from its first fork to power-off, with every process it ever has *)
(* for a child: a logger per unit, nw-spawn, the nw-sup of each unit (its  *)
(* "house"), and what a supervisor leaves behind when it dies before its   *)
(* house does.  The plan has been admitted; Kit follows the descriptors.   *)
(*                                                                         *)
(* SIGCHLD is one pending bit however many children die, and a log pipe    *)
(* reads end-of-file only when the last process holding its write end has  *)
(* gone: both are kept.  Milliseconds are not: a grace window is GraceTicks *)
(* passes of its 20 ms loop.                                               *)
(***************************************************************************)
EXTENDS Integers, FiniteSets

CONSTANTS
    N,           \* units of the plan; boot visits them in order
    GraceTicks,  \* NW_GRACE_MS / 20 passes of a grace loop
    MaxLines,    \* bound: lines a unit writes to its log
    MaxSignals,  \* bound: what comes from outside, signals and the lab's deadline
    Hold         \* TRUE: --hold-ms, a lab run with a deadline

Units == 1..N
Signals == {"HUP", "INT", "TERM"}

ASSUME UnitsAssumption == N \in Nat \ {0}
ASSUME BoundsAssumption ==
    /\ GraceTicks \in Nat /\ MaxLines \in Nat /\ MaxSignals \in Nat
    /\ Hold \in BOOLEAN

VARIABLES
    pc,       \* where PID 1 stands
    ret,      \* where reap_all returns to
    made,     \* log pipes and loggers made so far
    sig,      \* signals pending on the signalfd
    sigs,     \* how many of them have come
    held,     \* log pipes whose write end PID 1 still holds
    reportw,  \* PID 1 still holds the report pipe's write end
    hrec,     \* houses[i].pid # 0
    lrec,     \* houses[i].logger # 0
    tally,    \* what reap_all took a house's exit for
    tick,     \* passes of the grace loop under way
    termed,   \* houses PID 1 has sent SIGTERM
    killed,   \* houses PID 1 has sent SIGKILL
    shot,     \* loggers PID 1 has sent SIGKILL
    spawner,  \* nw-spawn
    spun,     \* units nw-spawn has forked
    clean,    \* nw-spawn exits 0
    sent,     \* writes on the report pipe: 1 the count, 2 the pids
    sup,      \* the nw-sup of each unit
    kin,      \* the house under it, and whatever outlives it
    logger,   \* the logger of each unit
    lheld,    \* write ends a logger inherited and kept
    written,  \* lines written to a unit's log
    relayed   \* lines its logger has put on the console

control == <<pc, ret, tick>>
boot == <<made, held, reportw>>
signals == <<sig, sigs>>
record == <<hrec, lrec, tally>>
deadly == <<termed, killed, shot>>
spawning == <<spawner, spun, clean, sent>>
children == <<sup, kin>>
logs == <<logger, lheld, written, relayed>>
vars == <<control, boot, signals, record, deadly, spawning, children, logs>>

Init ==
    /\ pc = "logs" /\ ret = "poll"
    /\ made = 0 /\ held = {} /\ reportw = FALSE
    /\ sig = {} /\ sigs = 0
    /\ hrec = [u \in Units |-> FALSE] /\ lrec = [u \in Units |-> FALSE]
    /\ tally = [u \in Units |-> "none"]
    /\ tick = 0
    /\ termed = {} /\ killed = {} /\ shot = {}
    /\ spawner = "none" /\ spun = 0 /\ clean = FALSE /\ sent = 0
    /\ sup = [u \in Units |-> "none"] /\ kin = [u \in Units |-> "none"]
    /\ logger = [u \in Units |-> "none"]
    /\ lheld = [u \in Units |-> {}]
    /\ written = [u \in Units |-> 0] /\ relayed = [u \in Units |-> 0]

(* Who still holds the write end of a unit's log.  A house that has not    *)
(* packed its kit yet has everything nw-spawn had.                         *)
HasWriter(u) ==
    \/ u \in held
    \/ spawner = "spawning"
    \/ \E v \in Units : sup[v] = "packing"
    \/ sup[u] = "up"
    \/ kin[u] = "up"
    \/ \E v \in Units : logger[v] = "up" /\ u \in lheld[v]

ReportHasWriter ==
    \/ reportw
    \/ spawner \in {"spawning", "reporting"}
    \/ \E v \in Units : sup[v] = "packing"

----------------------------------------------------------------------------
(* PID 1 boots. *)

(* A logger that forgets the write ends of the units before it. *)
SpawnLogger_KeepsEarlier ==
    /\ pc = "logs" /\ made < N
    /\ LET i == made + 1
           inherited == held \union {i}
       IN  /\ made' = i
           /\ held' = inherited
           /\ logger' = [logger EXCEPT ![i] = "up"]
           /\ lheld' = [lheld EXCEPT ![i] = inherited \ {i}]
           /\ lrec' = [lrec EXCEPT ![i] = TRUE]
    /\ UNCHANGED <<control, reportw, signals, hrec, tally, deadly, spawning,
                   children, written, relayed>>

(* A pipe and the fork of its reader; the reader closes its own write end  *)
(* and those of the pipes made before it.                                  *)
SpawnLogger ==
    /\ pc = "logs" /\ made < N
    /\ LET i == made + 1
           inherited == held \union {i}
       IN  /\ made' = i
           /\ held' = inherited
           /\ logger' = [logger EXCEPT ![i] = "up"]
           /\ lheld' = [lheld EXCEPT ![i] = inherited \ (1..i)]
           /\ lrec' = [lrec EXCEPT ![i] = TRUE]
    /\ UNCHANGED <<control, reportw, signals, hrec, tally, deadly, spawning,
                   children, written, relayed>>

ForkSpawner ==
    /\ pc = "logs" /\ made = N
    /\ reportw' = TRUE
    /\ spawner' = "spawning"
    /\ pc' = "close"
    /\ UNCHANGED <<ret, tick, made, held, signals, record, deadly, spun,
                   clean, sent, children, logs>>

(* A fork, a pipe or a signalfd fails: the machine is halted. *)
BootFails ==
    /\ pc = "logs"
    /\ pc' = "halted"
    /\ UNCHANGED <<ret, tick, boot, signals, record, deadly, spawning,
                   children, logs>>

(* The report's write end left open in PID 1. *)
CloseWriteEnds_NotReport ==
    /\ pc = "close"
    /\ held' = {}
    /\ pc' = "count"
    /\ UNCHANGED <<ret, tick, made, reportw, signals, record, deadly,
                   spawning, children, logs>>

(* PID 1 lets go of every write end; from now on end-of-file is possible.  *)
CloseWriteEnds ==
    /\ pc = "close"
    /\ reportw' = FALSE
    /\ held' = {}
    /\ pc' = "count"
    /\ UNCHANGED <<ret, tick, made, signals, record, deadly, spawning,
                   children, logs>>

ReadCount ==
    /\ pc = "count"
    /\ sent >= 1
    /\ pc' = "pids"
    /\ UNCHANGED <<ret, tick, boot, signals, record, deadly, spawning,
                   children, logs>>

ReadPids ==
    /\ pc = "pids"
    /\ sent = 2
    /\ hrec' = [u \in Units |-> TRUE]
    /\ pc' = "collect"
    /\ UNCHANGED <<ret, tick, boot, signals, lrec, tally, deadly, spawning,
                   children, logs>>

(* End-of-file where a report was expected. *)
ReportEnds ==
    /\ \/ pc = "count" /\ sent = 0
       \/ pc = "pids" /\ sent = 1
    /\ ~ReportHasWriter
    /\ pc' = "halted"
    /\ UNCHANGED <<ret, tick, boot, signals, record, deadly, spawning,
                   children, logs>>

(* waitpid(-1) where only nw-spawn was meant. *)
CollectSpawner_Any ==
    /\ pc = "collect"
    /\ \/ /\ spawner = "zombie"
          /\ spawner' = "gone"
          /\ pc' = IF clean THEN "poll" ELSE "halted"
          /\ UNCHANGED sup
       \/ \E u \in Units :
             /\ sup[u] = "zombie"
             /\ sup' = [sup EXCEPT ![u] = "gone"]
             /\ pc' = "poll"
             /\ UNCHANGED spawner
    /\ UNCHANGED <<ret, tick, boot, signals, record, deadly, spun, clean,
                   sent, kin, logs>>

(* The report taken for the whole answer. *)
CollectSpawner_AnyStatus ==
    /\ pc = "collect"
    /\ spawner = "zombie"
    /\ spawner' = "gone"
    /\ pc' = "poll"
    /\ UNCHANGED <<ret, tick, boot, signals, record, deadly, spun, clean,
                   sent, children, logs>>

(* waitpid(spawner): only an exit 0 is a boot. *)
CollectSpawner ==
    /\ pc = "collect"
    /\ spawner = "zombie"
    /\ spawner' = "gone"
    /\ pc' = IF clean THEN "poll" ELSE "halted"
    /\ UNCHANGED <<ret, tick, boot, signals, record, deadly, spun, clean,
                   sent, children, logs>>

----------------------------------------------------------------------------
(* The loop of an open city. *)

Number(s) == CASE s = "HUP" -> 1 [] s = "INT" -> 2 [] s = "TERM" -> 15 [] OTHER -> 17

(* read(2) on the signalfd gives the lowest pending signal. *)
Dequeue(s) ==
    /\ s \in sig
    /\ \A t \in sig : Number(s) <= Number(t)
    /\ sig' = sig \ {s}

PollSignal ==
    /\ pc = "poll"
    /\ \E s \in sig :
          /\ Dequeue(s)
          /\ pc' = CASE s = "CHLD" -> "reap"
                     [] s \in {"TERM", "INT"} -> "term"
                     [] OTHER -> "poll"
    /\ ret' = "poll"
    /\ UNCHANGED <<tick, boot, sigs, record, deadly, spawning, children,
                   logs>>

(* The lab's deadline: poll(2) times out, nothing being pending, and what   *)
(* is dead is reaped ...                                                   *)
PollTimesOut ==
    /\ Hold
    /\ pc = "poll"
    /\ sig = {}
    /\ pc' = "reap"
    /\ ret' = "poll"
    /\ UNCHANGED <<tick, boot, signals, record, deadly, spawning, children,
                   logs>>

(* ... or the top of the loop finds no time left. *)
HoldExpires ==
    /\ Hold
    /\ pc = "poll"
    /\ sigs < MaxSignals
    /\ sigs' = sigs + 1
    /\ pc' = "term"
    /\ UNCHANGED <<ret, tick, boot, sig, record, deadly, spawning,
                   children, logs>>

(* One child taken by waitpid(-1, WNOHANG), recorded or counted an orphan. *)
ReapHouse(u) ==
    /\ sup[u] = "zombie"
    /\ sup' = [sup EXCEPT ![u] = "gone"]
    /\ hrec' = [hrec EXCEPT ![u] = FALSE]
    /\ tally' = [tally EXCEPT ![u] = IF hrec[u] THEN "house" ELSE "orphan"]
    /\ UNCHANGED <<lrec, kin, logger>>

ReapLogger(u) ==
    /\ logger[u] = "zombie"
    /\ logger' = [logger EXCEPT ![u] = "gone"]
    /\ lrec' = [lrec EXCEPT ![u] = FALSE]
    /\ UNCHANGED <<hrec, tally, children>>

ReapOrphan(u) ==
    /\ kin[u] = "zombie"
    /\ kin' = [kin EXCEPT ![u] = "gone"]
    /\ UNCHANGED <<record, sup, logger>>

(* One child per SIGCHLD. *)
Reap_OneOnly ==
    /\ pc = "reap"
    /\ pc' = ret
    /\ \E u \in Units : ReapHouse(u) \/ ReapLogger(u) \/ ReapOrphan(u)
    /\ UNCHANGED <<ret, tick, boot, signals, deadly, spawning, lheld,
                   written, relayed>>

Reap ==
    /\ pc = "reap"
    /\ \E u \in Units : ReapHouse(u) \/ ReapLogger(u) \/ ReapOrphan(u)
    /\ UNCHANGED <<control, boot, signals, deadly, spawning, lheld, written,
                   relayed>>

(* waitpid without WNOHANG: back only when there is no child left. *)
ReapDone_Blocking ==
    /\ pc = "reap"
    /\ \A u \in Units : sup[u] \in {"none", "gone"} /\ logger[u] \in {"none", "gone"}
    /\ pc' = ret
    /\ UNCHANGED <<ret, tick, boot, signals, record, deadly, spawning,
                   children, logs>>

(* waitpid found no dead child. *)
ReapDone ==
    /\ pc = "reap"
    /\ \A u \in Units : "zombie" \notin {sup[u], logger[u], kin[u]}
    /\ pc' = ret
    /\ UNCHANGED <<ret, tick, boot, signals, record, deadly, spawning,
                   children, logs>>

----------------------------------------------------------------------------
(* shutdown_city *)

TermHouses ==
    /\ pc = "term"
    /\ termed' = {u \in Units : hrec[u]}
    /\ tick' = 0
    /\ pc' = "grace"
    /\ UNCHANGED <<ret, boot, signals, record, killed, shot, spawning,
                   children, logs>>

(* A pass of either loop: reap, then look who is left, then sleep 20 ms.   *)
Pass(loop, look) ==
    /\ pc = loop
    /\ tick < GraceTicks
    /\ pc' = "reap"
    /\ ret' = look
    /\ UNCHANGED <<tick, boot, signals, record, deadly, spawning, children,
                   logs>>

Look(look, loop, done, live) ==
    /\ pc = look
    /\ pc' = IF live THEN loop ELSE done
    /\ tick' = IF live THEN tick + 1 ELSE tick
    /\ UNCHANGED <<ret, boot, signals, record, deadly, spawning, children,
                   logs>>

GracePass == Pass("grace", "graceLook")
GraceLook == Look("graceLook", "grace", "kill", \E u \in Units : hrec[u])

(* Everyone left is killed, and the loggers' window begins. *)
KillHouses ==
    /\ \/ pc = "kill"
       \/ pc = "grace" /\ tick = GraceTicks
    /\ killed' = {u \in Units : hrec[u]}
    /\ tick' = 0
    /\ pc' = "drain"
    /\ UNCHANGED <<ret, boot, signals, record, termed, shot, spawning,
                   children, logs>>

DrainPass == Pass("drain", "drainLook")
DrainLook == Look("drainLook", "drain", "drained", \E u \in Units : lrec[u])

(* The loggers killed without waiting for them. *)
KillLoggers_AtOnce ==
    /\ pc \in {"drain", "drained"}
    /\ shot' = {u \in Units : lrec[u]}
    /\ pc' = "reap"
    /\ ret' = "off"
    /\ UNCHANGED <<tick, boot, signals, record, termed, killed, spawning,
                   children, logs>>

(* SIGKILL is the drain's deadline; a last reap, then the power goes.      *)
KillLoggers ==
    /\ \/ pc = "drained"
       \/ pc = "drain" /\ tick = GraceTicks
    /\ shot' = {u \in Units : lrec[u]}
    /\ pc' = "reap"
    /\ ret' = "off"
    /\ UNCHANGED <<tick, boot, signals, record, termed, killed, spawning,
                   children, logs>>

(* sync and reboot, from shutdown_city or from halt_now. *)
Ended ==
    /\ pc \in {"off", "halted"}
    /\ UNCHANGED vars

----------------------------------------------------------------------------
(* nw-spawn *)

(* One unit forked twice over; nw-spawn waits for the one between and has  *)
(* the house's pid.                                                        *)
SpawnUnit ==
    /\ spawner = "spawning"
    /\ spun < N
    /\ spun' = spun + 1
    /\ sup' = [sup EXCEPT ![spun + 1] = "packing"]
    /\ UNCHANGED <<control, boot, signals, record, deadly, spawner, clean,
                   sent, kin, logs>>

(* The write ends and the sockets closed, the wiring counted. *)
SpawnerCloses ==
    /\ spawner = "spawning"
    /\ spun = N
    /\ spawner' = "reporting"
    /\ UNCHANGED <<control, boot, signals, record, deadly, spun, clean,
                   sent, children, logs>>

SpawnerReports ==
    /\ spawner = "reporting"
    /\ sent < 2
    /\ sent' = sent + 1
    /\ UNCHANGED <<control, boot, signals, record, deadly, spawner, spun,
                   clean, children, logs>>

SpawnerExits ==
    /\ spawner = "reporting"
    /\ sent = 2
    /\ spawner' = "zombie"
    /\ clean' = TRUE
    /\ sig' = sig \union {"CHLD"}
    /\ UNCHANGED <<control, boot, sigs, record, deadly, spun, sent,
                   children, logs>>

(* A failed exec, die(), or SIGKILL, at any point. *)
SpawnerDies ==
    /\ spawner \in {"spawning", "reporting"}
    /\ spawner' = "zombie"
    /\ sig' = sig \union {"CHLD"}
    /\ UNCHANGED <<control, boot, sigs, record, deadly, spun, clean, sent,
                   children, logs>>

----------------------------------------------------------------------------
(* The children, as PID 1 sees them. *)

Packed(u) ==
    /\ sup[u] = "packing"
    /\ sup' = [sup EXCEPT ![u] = "up"]
    /\ UNCHANGED <<control, boot, signals, record, deadly, spawning, kin,
                   logs>>

(* nw-sup starts a house, and collects it again. *)
HouseStarts(u) ==
    /\ sup[u] = "up" /\ kin[u] = "none"
    /\ kin' = [kin EXCEPT ![u] = "up"]
    /\ UNCHANGED <<control, boot, signals, record, deadly, spawning, sup,
                   logs>>

HouseCollected(u) ==
    /\ sup[u] = "up" /\ kin[u] = "up"
    /\ kin' = [kin EXCEPT ![u] = "none"]
    /\ UNCHANGED <<control, boot, signals, record, deadly, spawning, sup,
                   logs>>

(* nw-sup ends, its house collected or not. *)
SupEnds(u) ==
    /\ sup[u] \in {"packing", "up"}
    /\ sup' = [sup EXCEPT ![u] = "zombie"]
    /\ sig' = sig \union {"CHLD"}
    /\ UNCHANGED <<control, boot, sigs, record, deadly, spawning, kin, logs>>

(* A house without a supervisor ends: it has been PID 1's since. *)
OrphanEnds(u) ==
    /\ kin[u] = "up" /\ sup[u] \in {"zombie", "gone"}
    /\ kin' = [kin EXCEPT ![u] = "zombie"]
    /\ sig' = sig \union {"CHLD"}
    /\ UNCHANGED <<control, boot, sigs, record, deadly, spawning, sup, logs>>

Writes(u) ==
    /\ sup[u] = "up" \/ kin[u] = "up"
    /\ written[u] < MaxLines
    /\ written' = [written EXCEPT ![u] = @ + 1]
    /\ UNCHANGED <<control, boot, signals, record, deadly, spawning,
                   children, logger, lheld, relayed>>

LoggerRelays(u) ==
    /\ logger[u] = "up"
    /\ relayed[u] < written[u]
    /\ relayed' = [relayed EXCEPT ![u] = @ + 1]
    /\ UNCHANGED <<control, boot, signals, record, deadly, spawning,
                   children, logger, lheld, written>>

(* An empty pipe taken for a closed one. *)
LoggerEnds_WhenIdle(u) ==
    /\ logger[u] = "up"
    /\ relayed[u] = written[u]
    /\ logger' = [logger EXCEPT ![u] = "zombie"]
    /\ sig' = sig \union {"CHLD"}
    /\ UNCHANGED <<control, boot, sigs, record, deadly, spawning, children,
                   lheld, written, relayed>>

(* End-of-file: the pipe is empty and nobody is left who could fill it. *)
LoggerEnds(u) ==
    /\ logger[u] = "up"
    /\ relayed[u] = written[u]
    /\ ~HasWriter(u)
    /\ logger' = [logger EXCEPT ![u] = "zombie"]
    /\ sig' = sig \union {"CHLD"}
    /\ UNCHANGED <<control, boot, sigs, record, deadly, spawning, children,
                   lheld, written, relayed>>

LoggerShot(u) ==
    /\ logger[u] = "up" /\ u \in shot
    /\ logger' = [logger EXCEPT ![u] = "zombie"]
    /\ sig' = sig \union {"CHLD"}
    /\ UNCHANGED <<control, boot, sigs, record, deadly, spawning, children,
                   lheld, written, relayed>>

(* Someone signals PID 1.  SIGHUP is in the mask and read to no effect. *)
Signalled(s) ==
    /\ sigs < MaxSignals
    /\ sigs' = sigs + 1
    /\ sig' = sig \union {s}
    /\ UNCHANGED <<control, boot, record, deadly, spawning, children, logs>>

----------------------------------------------------------------------------
Boots ==
    \/ SpawnLogger \/ ForkSpawner \/ BootFails \/ CloseWriteEnds
    \/ ReadCount \/ ReadPids \/ ReportEnds \/ CollectSpawner
Runs == PollSignal \/ Reap \/ ReapDone
Lab == PollTimesOut \/ HoldExpires
Closes ==
    \/ TermHouses \/ GracePass \/ GraceLook \/ KillHouses
    \/ DrainPass \/ DrainLook \/ KillLoggers
Pid1 == Boots \/ Runs \/ Closes
Spawner == SpawnUnit \/ SpawnerCloses \/ SpawnerReports \/ SpawnerExits
Child(u) ==
    \/ Packed(u) \/ HouseStarts(u) \/ HouseCollected(u) \/ SupEnds(u)
    \/ OrphanEnds(u) \/ Writes(u)
Logger(u) == LoggerRelays(u) \/ LoggerEnds(u) \/ LoggerShot(u)

(* Power-off stops everything. *)
Live == pc \notin {"off", "halted"}

Next ==
    \/ Pid1 \/ Lab
    \/ Live /\ (Spawner \/ SpawnerDies)
    \/ Live /\ \E u \in Units : Child(u) \/ Logger(u)
    \/ Live /\ \E s \in Signals : Signalled(s)
    \/ Ended

Spec == Init /\ [][Next]_vars

(* PID 1, nw-spawn and the loggers are scheduled; a killed process dies.   *)
(* Nothing is assumed of a house, of a supervisor that was not killed, of  *)
(* who signals PID 1, or of the lab's deadline, which may be far away.     *)
Fairness ==
    /\ WF_vars(Pid1)
    /\ WF_vars(Live /\ Spawner)
    /\ \A u \in Units :
          /\ WF_vars(Live /\ Packed(u))
          /\ WF_vars(Live /\ Logger(u))
          /\ WF_vars(Live /\ u \in killed /\ SupEnds(u))

FairSpec == Spec /\ Fairness
=============================================================================
