----------------------------- MODULE CityProps -----------------------------
(***************************************************************************)
(* What PID 1 promises of the city it opens and closes.                    *)
(***************************************************************************)
EXTENDS City

Booting == {"logs", "close", "count", "pids", "collect"}
Opened == {"poll", "term", "grace", "graceLook", "kill", "drain", "drainLook", "drained"}

(* PID 1's tables and its children's states take the values pid1.c gives   *)
(* them.                                                                   *)
TypeOK ==
    /\ pc \in Booting \union Opened \union {"reap", "off", "halted"}
    /\ ret \in {"poll", "graceLook", "drainLook", "off"}
    /\ tick \in 0..GraceTicks
    /\ made \in 0..N /\ held \subseteq Units /\ reportw \in BOOLEAN
    /\ sig \subseteq Signals \union {"CHLD"} /\ sigs \in 0..MaxSignals
    /\ hrec \in [Units -> BOOLEAN] /\ lrec \in [Units -> BOOLEAN]
    /\ tally \in [Units -> {"none", "house", "orphan"}]
    /\ termed \subseteq Units /\ killed \subseteq Units /\ shot \subseteq Units
    /\ spawner \in {"none", "spawning", "reporting", "zombie", "gone"}
    /\ spun \in 0..N /\ clean \in BOOLEAN /\ sent \in 0..2
    /\ sup \in [Units -> {"none", "packing", "up", "zombie", "gone"}]
    /\ kin \in [Units -> {"none", "up", "zombie", "gone"}]
    /\ logger \in [Units -> {"none", "up", "zombie", "gone"}]
    /\ lheld \in [Units -> SUBSET Units]
    /\ written \in [Units -> 0..MaxLines] /\ relayed \in [Units -> 0..MaxLines]

(* A pid PID 1 has on record is a child it has not waited for, so no       *)
(* kill(2) of shutdown_city can reach a recycled pid.                      *)
PidsLive ==
    \A u \in Units :
        /\ hrec[u] => sup[u] \in {"packing", "up", "zombie"}
        /\ lrec[u] => logger[u] \in {"up", "zombie"}

(* "city open" is said only when nw-spawn has come and gone with exit 0    *)
(* and every unit of the plan was started; from then on each house is on   *)
(* record or its exit was reported as a house's, never as an orphan's.     *)
OpenMeansWhole ==
    pc \in Opened \union {"reap", "off"} =>
        /\ spawner = "gone" /\ clean
        /\ \A u \in Units :
              /\ sup[u] # "none"
              /\ hrec[u] \/ (sup[u] = "gone" /\ tally[u] = "house")

(* SIGKILL is shutdown_city's last resort: no house gets it that was not   *)
(* sent SIGTERM at the start of the grace window.                          *)
KillAfterTerm == killed \subseteq termed

(* The end of a log is lost only to the drain's deadline: if the machine   *)
(* goes down with lines unrelayed, every pass of the window was taken.     *)
TailKept ==
    (pc = "off" \/ shot # {}) =>
        \A u \in Units : relayed[u] < written[u] => tick = GraceTicks

(* A logger that was not killed has relayed every line ever written. *)
EofIsEnd ==
    \A u \in Units :
        logger[u] \in {"zombie", "gone"} /\ u \notin shot => relayed[u] = written[u]

----------------------------------------------------------------------------
(* The parts of the inductive invariant. *)

(* Where PID 1 is, or is about to return to. *)
At == IF pc = "reap" THEN ret ELSE pc

(* What boot has done by the time it is where it is. *)
BootOrder ==
    /\ pc = "logs" => held = 1..made /\ spawner = "none"
    /\ pc = "close" => held = Units
    /\ pc \notin {"logs", "halted"} => made = N
    /\ pc = "pids" => sent >= 1
    /\ pc = "collect" => sent = 2 /\ \A u \in Units : hrec[u]
    /\ \A u \in Units : lheld[u] = {}

(* nw-spawn reports only what it has started. *)
Reported ==
    /\ spawner = "none" => spun = 0
    /\ spawner = "reporting" => spun = N
    /\ sent > 0 => spun = N
    /\ clean => sent = 2 /\ spawner \in {"zombie", "gone"}
    /\ \A u \in Units : sup[u] # "none" <=> u <= spun

(* A logger is on record from its fork to its waitpid. *)
Recorded ==
    /\ \A u \in Units : logger[u] = "none" <=> u > made
    /\ \A u \in Units : lrec[u] <=> logger[u] \in {"up", "zombie"}
    /\ \A u \in Units : hrec[u] => sup[u] \in {"packing", "up", "zombie"}
    /\ pc \in Booting => \A u \in Units : sup[u] # "gone"

(* Nobody is left to write to a log whose logger ended by itself. *)
EndedLogs ==
    \A u \in Units :
        logger[u] \in {"zombie", "gone"} /\ u \notin shot =>
            ~HasWriter(u) /\ relayed[u] = written[u]

(* The order of a shutdown. *)
ShutdownOrder ==
    /\ At \notin {"drain", "drainLook", "drained", "off"} => killed = {}
    /\ At # "off" => shot = {}
    /\ At \in {"grace", "graceLook", "kill"} =>
          \A u \in Units : hrec[u] => u \in termed
    /\ At \in {"graceLook", "drainLook"} => tick < GraceTicks
    /\ pc = "drained" => \A u \in Units : ~lrec[u]
    /\ At = "off" =>
          tick = GraceTicks \/ (shot = {} /\ \A u \in Units : logger[u] = "gone")

IInv ==
    /\ TypeOK /\ BootOrder /\ Reported /\ Recorded
    /\ OpenMeansWhole /\ EndedLogs /\ ShutdownOrder /\ KillAfterTerm
----------------------------------------------------------------------------
(* Liveness, under FairSpec. *)

(* Boot ends: the city opens or the machine halts, wherever nw-spawn died. *)
BootDecides == (pc = "count") ~> (pc \in {"poll", "halted"})

(* A shutdown ends, whatever the houses do. *)
ShutdownEnds == (pc = "term") ~> (pc = "off")

(* However many children die at once, each is collected: a dead house does *)
(* not stay a zombie of an open city (one SIGCHLD, one reap_all).          *)
ZombiesReaped ==
    \A u \in Units :
        (pc = "poll" /\ sup[u] = "zombie") ~> (sup[u] = "gone" \/ pc \notin {"poll", "reap"})

(* Once nobody of a unit is left to write, its logger ends by itself. *)
LoggerSeesEof ==
    \A u \in Units :
        (pc = "poll" /\ sup[u] = "gone" /\ kin[u] # "up")
            ~> (logger[u] = "gone" \/ pc \notin {"poll", "reap"})
=============================================================================
