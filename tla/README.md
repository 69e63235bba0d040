# city: TLA+ models, model checks and proofs

*city* boots a machine as a set of supervised units ("houses") described by one
sealed binary plan. This directory holds TLA+ modules that model the running
system, the TLC configurations that check them on small instances, and the
theorems about them that TLAPS proves for every instance. `PROJECT.json` lists
the components, runs, mutants, the map from every definition to the source lines
it models, the findings, the hazards and the theorems.

Run a check with `tlc -config <cfg> <module>`, a proof with `tlapm <module>Proofs.tla`.

## 1. The system

    dawn --> PID 1 --+--> logger of unit 1..n      (fork, no exec)
                     +--> nw-spawn --+--> nw-sup of unit 1 --> house (clone3, per generation)
                                     +--> nw-sup of unit n --> house

    plan: nw-cc / fold (bakery) --> blob --> nw-check, read again by PID 1 and nw-spawn
    control: client --> /nw/ctl/<name>.sock --> nw-sup          (START, STOP)
    logs: house, nw-sup --> pipe --> logger --> console and <name>.tail
    death: nw-sup --> evidence record --> content-addressed store

`dawn` mounts what PID 1 needs. PID 1 selects and checks the plan, verifies that
the descriptor limit covers the boot, makes a log pipe and a logger per unit and
executes nw-spawn. nw-spawn makes a socket pair per edge of the plan, double-forks
the units so that PID 1 becomes their parent, gives each its kit of descriptors,
reports the pids over a pipe and exits. PID 1 then reaps, and shuts down on a
signal. Each nw-sup keeps its house running against a restart budget, serves a
control socket, and gives every generation a cgroup of its own.

### Inventory

| Component | State | Operations | What is hard | What makes it correct |
|---|---|---|---|---|
| nw-decide (`decide.c`) | none | `nw_decide()` | the budget boundary, order of its tests | shutdown first, STOP never charged, hard total |
| nw-sup (`nwsup.c` main, wait_house, control socket) | `child`, `stopping`, `stop_requested`, `stopped`, `deaths`, `cg_gen`; the mask; the queue of connections | loop top, idle, open generation, clone, wait in three tiers, serve, escalate, reap, sweep, judge | a signal handler between any two instructions; a child that resets its handlers at its own pace; coalesced and discarded SIGCHLD; a timeout racing a death; clients that hang up | budget is a hard total; no stop lost, no stop outliving its house; at most one house; no cgroup reused; stop escalates |
| loop devices (`loop_attach`, `lid_brick`) | kernel's device table, an index in hand | GET_FREE, CONFIGURE, retry, give up | all houses race, an index is stale when returned | every lost attempt is another house's gain, the bound is enough, every attach ends |
| lids (`lids.c`, `nwsup.c` child branch) | namespaces, mounts, Landlock domain, capabilities, limits, filter | one straight line of steps between clone3 and execv | each step takes away something another needs, for some combinations of declarations only | a house that runs has all it declares at once, and no step starves a later one |
| environment validation (`nwspawn.c` export, `nwsup.c` main, first half) | locals | print, parse and range-check each variable | widths, optional fields, a second validator beside nw-check | what nw-check admits is read back unchanged and never refused; nothing else is trusted |
| crash evidence (`write_evidence`, logger ring) | tail ring, tail file, evidence record | read a chunk, flush in three calls, drain, read, store | three processes ordered by nothing but FIONREAD; a logger that is stuck | the record has the last words where it can; nw-sup never waits for ever |
| PID 1 (`pid1.c`) | `houses[]`, `spawner`, counters, signalfd | pre-flight, spawn_logger, report, reap_all, shutdown_city | one SIGCHLD for many deaths, end-of-file only with the last writer, death of nw-spawn anywhere, deadlines | opens a whole city or halts; no stale pid; no zombie; shutdown ends; logs drained |
| slots, rescue (`pid1.c`, `rescue.c`) | `slots/current` | select, read, check | a stop between two writes of the staging tools; the plan read twice | a staged slot boots |
| nw-spawn (`nwspawn.c`) | descriptor table, edges, pids | socket pairs, fork, pack_kit, report | descriptor numbers decide what a dup2 overwrites; limits | a house has exactly its kit |
| plan and nw-check (`blob.h`, `nwcheck.c`) | two duplicate tables | `nw_check()` | 32-bit sizes, order of rules, a table that is full | accepts exactly the plans the rest relies on, reads no byte past them |
| store (`store.c`) | files by hash | stat, compare, temporary file, rename | writers of one content racing, dying, failing | content under a name is that content; acknowledged is stored |
| SHA-256 | none | hash | none | published vectors |
| dawn (`dawn.c`) | mounts | one straight line with two ways to change the root | pivot_root and MS_MOVE leave different things behind | PID 1 finds all it uses |
| bakery (`fold.py`, `nw-cc.py`, `mkbrick.py`) | files | compile plans, build bricks | agreement with nw-check | what it writes, nw-check accepts |
| staging and relaunch tools (`tools/`) | slots, sidecars, layers, running units | stage, swap, relaunch | killed between two renames; sidecars older or newer than the blob | a slot is whole or as it was; no layer changes its brick; the running slot is not written |
| houses, probes, the repository's own CBMC harnesses and static models | | | | test programs and descriptions |

## 2. Modules

| Module | Models | Extends / uses |
|---|---|---|
| `Decide` | `nw_decide()` as an operator | |
| `Lifecycle` | abstract: the life of a unit as its plan promises it | |
| `Supervisor` | nw-sup, its house, clients, signals, cgroups | `Decide` |
| `SupervisorProps` | properties, inductive invariant, refinement to `Lifecycle` | `Supervisor`, `INSTANCE Lifecycle` |
| `SupervisorProofs` | theorems | |
| `Kit` / `KitProps` / `KitProofs` | descriptor tables from PID 1's pre-flight through nw-spawn to `pack_kit()` | |
| `City` / `CityProps` / `CityProofs` | PID 1, nw-spawn, supervisors, houses and loggers as processes | |
| `LoopAttach` / `LoopAttachProofs` | the race of all houses for loop devices | |
| `Check` | `nw_check()` loop by loop, with the duplicate tables and the 32-bit size | |
| `Handoff` / `HandoffProps` / `HandoffProofs` | nw-spawn's export of a unit as text, nw-sup's reading of it; a declarative definition of a valid plan | `Check` |
| `Shelf` | abstract: what `store.h` promises | |
| `Store` | `nw_store_put()` call by call, any number of callers | |
| `Evidence` / `EvidenceProps` / `EvidenceProofs` | house, logger, tail file, `write_evidence()`; refinement of `Store` to `Shelf` | `Store`, `INSTANCE Shelf` |
| `House` / `HouseProps` / `HouseProofs` | cgroup limits, the child branch of `main()`, every lid | |
| `Slots` | the slots on disk, stage-candidate.py and stage-layers.py | |
| `Dawn` | the mount stage | |
| `Boot` / `BootProps` / `BootProofs` | composition: dawn, PID 1's choice and reading of a plan, nw-spawn's second reading, tools, switches, stops | `Slots`, `Dawn` |
| `MC*` | instances for TLC | |

Definitions named `<Action>_<Something>`, placed before the action they vary,
are mutants: plausible wrong versions of that code. They are in no next-state
relation; each shows, put in the action's place, that a property can fail.

### Supervisor

nw-sup is one thread. `pc` names the statement it is at or the call it blocks
in, and the module's head lists the values with their meaning. `Step` is the
disjunction of its own steps; `Term` is a SIGTERM or SIGINT and may happen
between any two of them; `Connect`, `Speak`, `HangUp` are clients; `House` is
the child, which goes from `born` (nw-sup's handlers still installed) through
`reset` to `run`.

- `stopping`, `stop_requested`, `stopped`, `deaths`, `cg_gen` are the C
  variables. `child` is whether the C variable is set: there is only one
  generation at a time it can stand for.
- The gap between testing a flag and entering the call the test decided on has
  its own `pc` values (`idleGap`, `waitGap`), because a handler that runs there
  interrupts nothing.
- The three tiers of `wait_house()` are one control graph with `tier` as a
  parameter. `rdy` is the poll result, looked at after the call returned.
- SIGCHLD is two bits: blocked, pending. Unblocked, it is discarded.
- `dirs`, `kids`, `doomed` are generations: whose cgroup directory exists, who
  left processes in it, whose were sent SIGKILL. `cgroup.kill` does not wait for
  the processes it kills, so `kids` shrinks in a step of its own.
- The grace period is a number of 50 ms cycles. The tiers with a descriptor use
  it as zero or non-zero only: a bounded `ppoll(2)` may end at any time.
- A `write(2)` to a client that has hung up is SIGPIPE with its default action:
  `piped`.
- `BootFails` stands for the whole of the setup. A signal sent to nw-sup before
  its mask is cleared meets the default action, because `on_term()` is installed
  one statement later; the outcome is that of a failed setup.

`Lifecycle` says what the supervisor promises without signals, descriptors or
processes: a unit is resting, due, up or over; deaths are counted, STOP and
shutdown are uncharged. `phaseMap` maps `Supervisor` to it.

### Kit

One descriptor table `fdt` is followed along the chain that ends in the house
`me`: PID 1's pre-flight and pipes, exec of nw-spawn, socket pairs, fork,
`pack_kit()`, exec of nw-sup. Numbers are concrete and the kernel hands out the
lowest free one, since each collision `pack_kit()` guards against depends on
them. `me` is arbitrary, so a property of `me` is one of every unit. `born` is what
PID 1 was started with: stdio, part of it or strays above it.

### City

Every process PID 1 can have for a child is a state machine: nw-spawn, and per
unit its nw-sup (`sup`), what is under it (`kin`) and its logger. `pc` is PID 1;
`reap_all()` is the state `reap` with the place to return to in `ret`, one child
per step. Write ends of a log pipe are derived (`HasWriter`): PID 1 until it
closes them, nw-spawn, every child that has not packed its kit yet, the
supervisor, its house, and a logger that kept an inherited one. SIGCHLD is one
pending bit; the signalfd gives the lowest pending number first. A grace window
is `GraceTicks` passes of its 20 ms loop. The deadline of a lab run (`Hold`) may expire
at any time or never (`Lab`), which also covers a city without one.

### LoopAttach

Each house is at GET_FREE or at CONFIGURE with an index in hand. A house with a
sized layer comes back for a second device. A device is LO_FLAGS_AUTOCLEAR: it is
freed with the mount namespace that holds it. That namespace outlives the house
(`HouseEnds`) if the house has left processes behind, because `cg_kill_sweep()` writes
`cgroup.kill` and does not wait: `old` has the namespaces of dead generations, and
each goes in a step of its own (`NamespaceDies`), before or after nw-sup has forked
the next generation. `rivals` is a history variable: for each house, the devices that
others have configured since it began to attach its image. Other users of loop devices
on the machine are not in the model.

### Check and Handoff

`Check` walks a file the way `nw_check()` does: header, units, binds, edges, each
loop with its index, and returns the code of the first broken rule. A rule list
(`UnitRules` and its like) is the sequence of the code's `if (...) return`, and
`First` is its meaning. Text is an array of character classes with its NUL
padding. The hash of a name is any function into the table's slots, and the probe
wraps. The size is computed modulo `U32`, as the code's `uint32_t` is.

`Handoff` takes each unit of an admitted plan through `Export` (nw-spawn's
`setenv` calls) and `Validate` (`main()` of nw-sup up to its signal mask). A
numeric variable is absent, empty, a number or a number with something after it;
`Atoi`, `U64` and `Grace` are the conversions of the code with the widths of
their types (`IntBits`, `LongBits`). An environment may also come from nobody's
plan (`Forged`). `HandoffProps!Valid` states what a valid plan is without an order
of rules, a table or an index; `AcceptsExactly` compares the two.

### Store, Shelf, Evidence

In `Store` a name stands for its content, and `files` says whether the file of
that name really holds it, other bytes of its length, or another length. Every
call of `nw_store_put()` is a step, may fail, and its caller may be killed after
it. `Shelf` is the promise: a set that only grows and acknowledgements that are
only given for members. `OnTheShelf` is the refinement, with the right files as
the shelf.

In `Evidence` bytes are numbered in the order they enter the pipe, so order, loss
and mixture show. The logger is the loop of `spawn_logger()`'s child: ring, then
the two `pwrite(2)`s and the `ftruncate(2)` of `flush_tail()` as steps of their
own, then the console, which may block for ever. nw-sup is `write_evidence()`:
FIONREAD up to `Spins` times, one `read(2)` of the tail, a put. Processes a house
leaves behind go on writing. What `nw_decide()` answers is reduced to the budget;
`Supervisor` has the rest.

### House

One process is followed through `Order`, the sequence of steps from
`nw_cap_last_cap()` to `execv()`. Each step says what it uses (`Uses`:
capabilities, descriptors, the machine's paths, system calls) and what it changes
in the process `p`, its mounts `m` or its Landlock domain `ll`. A declared step
whose needs are not met ends the child with `end = "lacking"`: that is what a
wrong order looks like. The kernel may refuse any step for its own reasons
(`"refused"`). The seccomp filter is the allow list and the one-byte jump offsets
of `lids.c`. `Restart` clones the next generation from an nw-sup whose
`wait_house()` has blocked SIGCHLD.

### Slots, Dawn, Boot

`Slots` is the disk and the tool: `plan.blob`, `plan.blob.sha256` and
`plan.blob.layers` of each slot, with each sidecar named by the plan it describes,
and each layer's directory, its `upper` and `work` or its image. The tool may be
started at any time in a running city, for any plan and any slot but the one
`slots/current` names. `StageOrder` is the order of `stage()`; `Raise` goes through its `finally`, `KillTool` does not. Two
slot names may be one directory. `Dawn` is `main()` of dawn with the kernel's
rules for pivoting. `Boot` composes them with `slot_from_current()`, PID 1's size
test and reading, and nw-spawn's own, and lets the machine stop at any instant.
The file may be another one at either reading (`Others`). `careful` is a history
variable and guards nothing: it stays true as long as each start of the tool found the
pointer at the slot that runs and a plan other than the one its target holds (`Apt`).

## 3. What the runs check

| Run | Instance | Shows |
|---|---|---|
| `sup_safety` | every lock and kind, budgets 0 and 1, grace 0 and 1, all tiers, two requests, one TERM, leftover processes, every fault but a failed sweep | the budget is a hard total, generations are paid for, a stop reaches its house and never outlives it, signalled deaths are uncharged, what a house leaves behind is under SIGKILL, `Lifecycle` is implemented |
| `sup_liveness` | a house that ignores its stop signal, pidfd and spinning tiers, silent clients, hang-ups and failed sweeps, two requests, two TERMs | STOP escalates; a bounded wait ends; every death is collected unless a silent client holds nw-sup |
| `kit` | three units, every edge table of at most two edges, 17 sets of inherited descriptors, limits around the need | the kit is exact, every edge is wired once, the pre-flight covers PID 1 and nw-spawn |
| `city` | two units, one signal or an expired lab deadline, one line each, two passes per window | no stale pid, open means whole, logs complete; boot decides, no zombie stays, shutdown ends, loggers see end-of-file |
| `loop_generations` | three houses, five images, two attempts, one further generation, leftover processes | a house that is refused lost each attempt to another device; every `loop_attach()` ends |
| `plan_handoff` | plans of at most three units: every collision under every hash, every short text, products of related fields around their limits, every table of two edges or two binds, headers whose counts wrap the size; environments set by hand | nw_check accepts exactly the valid plans and stays inside the file; what it admits arrives in nw-sup field by field and is refused only for a capability the kernel lacks; nw-sup goes on with nothing that breaks its rules |
| `evidence` | a ring of two bytes, chunks of one and two, one spin, two deaths, a second producer, every fault | the ring and the tail file are the end of the log; a calm, drained record has the last words; `Shelf` is implemented; `write_evidence()` returns |
| `house` | 896 units on two kernels, two generations, a refusal possible at every step | all declared lids at once, with binds seen, the control directory read-only, Landlock as documented and clean signals; an order that starves no step; no mount leaks |
| `boot` | two slots under three names, five cities, three boots, two foreign pointers, three foreign files | PID 1 finds its mounts; a staged slot boots and has its layers; the plan is read whole twice; no layer changes its brick as long as the tool is started with care (`careful`) |

Why the bounds are enough to meet the interesting cases:

- Budget 1 has a first death that is covered and a second that is not; budget 0
  has none covered. Two requests are the shortest START/STOP pair that can cross
  a death.
  One TERM suffices for safety because `stopping` never goes down; the liveness
  runs have two, so that one can be held back by `ppoll(2)`.
- Backlog 1 lets a request wait behind the one being served; the code's 4 only
  lengthens the queue.
- `FdMax` 24 is above the largest need of the instances (8+4+6) with its strays;
  the limits are below, at and above the need. The three-unit tables contain two
  edges between the same pair in both directions, a chain and a fan.
- Two units are the least with a logger that could inherit another's write end
  and with two deaths behind one SIGCHLD. One signal or deadline is enough to start a
  shutdown; a second would find PID 1 past its signal loop. Two passes have one in
  the middle of a window.
- Two attempts for five images let a house lose one and win the next, and lose
  both and give up. One further generation can meet the namespace its predecessor
  left, still there or dying under it.
- `plan_handoff` scales the format down: four table slots for three units is the
  code's rule `NW_MAX_UNITS < NW_DUP_SLOTS` at its tightest, a field of five
  characters has room for `/..` and what follows it, `U32` 64 is small enough for
  counts to wrap it, and 8-bit `int` and 10-bit `long` keep the order of the real
  widths with values on both sides of each boundary.
- A ring of two with chunks of up to two has chunks that fill it exactly, wrap it
  and leave it short; one spin has both ends of the drain; budget 1 has a second
  record after a restart line.
- The two kernels differ in the Landlock ABI (with and without TRUNCATE), the last
  capability and the controllers; `nofile` is absent, below the descriptors that are
  open, between and above the limits. The second generation is the first with an inherited mask.
- Three boots are the city before, the one staged, and the one after a stop or a
  switch; five cities are the first, one with another layer, one with the same
  layer over another brick, one nw-check refuses, and one with the same layer in
  the other representation.

Deadlock is not checked where the system may stop: a supervisor has exited, every
house is up, a check has given its verdict, the last boot of the instance has halted.
In `city` it is checked.

### Findings

Three runs are expected to end in a violation: each checks one statement that a
comment or a message of the repository makes, and TLC shows a behaviour of the code that
contradicts it. `PROJECT.json` quotes the statements.

| Run | Statement | What happens |
|---|---|---|
| `grace_race` | a signal makes `wait_house()` re-test and escalate | a TERM between the test and `poll(2)` interrupts nothing; no escalation |
| `sidecar_aba` | where `.sha256` describes the blob, `.layers` does too | a stage interrupted after `.layers`, then a stage of the city the slot still holds interrupted after `.sha256` |
| `stale_current` | the staging tool does not write the running plan | B is staged, `slots/current` is switched to B, and before the reboot A is staged: the tool takes B for the live slot and replaces the plan the machine runs from |

Both runs of the tools are on the instance of `boot`. Without a stage of the plan that
the slot holds already, the statement of `sidecar_aba` is true. After one, a switch and
a reboot, the clash check compares with the wrong list, and after a stage as in
`stale_current` it compares with a city that does not run: in both cases a layer can
change its brick. `BricksKept` is stated for histories without such a start (`careful`),
and fails without that premise.

The models also have these behaviours, which no run singles out:

- `signalfd` tier: a first generation that is dead before SIGCHLD is blocked is
  never noticed, though the fallback is said to catch every termination; with
  `Tiers = {"signalfd"}` `DeathNoticed` fails, and so does `EscalationBounded`: a
  SIGCHLD of an earlier generation, still pending, ends the bounded wait at once,
  no SIGKILL is sent, and `waitpid(2)` blocks on a house that ignores its stop
  signal. `sup_liveness` leaves that tier out for this reason;
- a stop signal between clone3 and the child's handler reset is swallowed by the
  inherited `on_term()`; the child goes on to exec;
- the answer to a client that has hung up is SIGPIPE with its default action: a
  malformed request from a client that has gone ends the supervisor (`piped`);
- a house with more than two wires has a higher peak in `pack_kit()`
  (6 + n + 2e + w descriptors) than `NW_BOOT_NEED` counts: the pre-flight covers
  PID 1 and nw-spawn, not the house;
- a city in which every house has a sized layer uses two loop devices per house,
  while the attempts are bounded by NW_MAX_UNITS: `BoundIsEnough` needs as many
  attempts as images;
- a record made before the logger has opened and truncated `<name>.tail` has the
  tail of an earlier boot, a state the comment at `pid1.c` 382 calls
  unrepresentable (HouseDies, JudgeDeath, Drain, ReadTail with `lpc = "open"`);
- after a restart one image can be behind two loop devices at once, the store of a
  sized layer, which is written to, included: the processes a dead generation left
  keep its namespace until their SIGKILL takes effect, and the next generation does
  not wait for that (`HouseEnds`, `NextGeneration`, `Attached` before
  `NamespaceDies`), though the comment at `nwsup.c` 2442 says that what a generation
  forked "does not survive past this point";
- the idle `poll(2)` has the same gap as `grace_race` (`idleGap`): a TERM there
  leaves an idle supervisor in place until PID 1 kills it;
- `child` names a collected process until the statement after `wait_house()`
  (`reaped`);
- `rmdir(2)` of a cgroup whose killed processes linger fails and is not tried
  again (`RemoveCgroup`), so a directory may be left behind; the counter in its
  name keeps later generations clear of it;
- a house whose supervisor PID 1 has killed keeps the write end of its log, so
  the loggers' window can end by its deadline after every supervisor is reaped.

### Fairness

- `Supervisor!FairSpec`: weak fairness of nw-sup's own steps, since the kernel
  runs a process that is not blocked, and of the end of a house that has been
  killed, or told to stop and does not ignore it. Nothing is assumed of clients:
  one may connect and never speak, which holds `handle_ctl_live()` in `read(2)`.
  `StopEscalates` holds all the same because the accepted STOP takes nw-sup into
  the bounded wait, which does not look at the socket.
- `City!FairSpec`: PID 1, nw-spawn and each logger are scheduled, a forked house
  gets through `pack_kit()`, and a supervisor that was sent SIGKILL ends. Nothing
  is assumed of houses, of supervisors not killed, of who signals PID 1, or of the
  lab's deadline, which may be arbitrarily far away.
- `LoopAttach!FairSpec`: each house is scheduled until it is up.
- `Evidence!FairSpec`: nw-sup is scheduled, and nothing else: the logger may block on
  the console, the house may write for ever, another producer may stop anywhere.

## 4. What is proved

For every value of the constants that satisfies the modules' `ASSUME`s. Those
only say that bounds are naturals, that there is at least one unit, one attempt
and one tier, that no edge joins a unit to itself (nw-check refuses it) and that
limits do not exceed the descriptor table; for the evidence, that a chunk fits into
the ring and that nw-sup is one of the store's callers; for the plan, what `blob.h`
asserts statically (the tables have a slot to spare, the largest plan does not wrap
`uint32_t`), that files consist of fields of their types and that `int` is narrower
than `long`; for a house, that its unit has passed validation and that the limit of
descriptors leaves room for those nw-sup opens; for a boot, that plans and buffer have
the sizes PID 1 admits. `PowerAssumption` states facts of arithmetic about the powers
of two that occur, which the provers do not interpret; TLC evaluates it, like every
other assumption, on the instances.

**SupervisorProofs.** `IInv` in `SupervisorProps` is inductive; each conjunct has
a lemma of its own with one step per action. The invariants alone are not
inductive: `BudgetIsHard` needs the verdict's meaning (`VerdictMeaning`);
`GenerationsPaid` needs `Ledger`, which also counts the requests still queued
and the generation the loop is on its way to open; `StopReachesHouse` needs
`StopSent`, the same from the moment the post-fork check is behind, and
`ChildKnown`, since the handler signals only when `child` is set; `SignalledNeverCounts`
needs `SignalHasReason`. Results: `Typing`, `Budget`, `Paid`, `StopReaches`,
`StopConsumed`, `AtMostOneHouse`, `Fresh`, `Swept`, the action property
`NeverCharged`, and `Implements`: every step of nw-sup is a step of `Lifecycle`
or leaves it unchanged.

**KitProofs.** The argument that `pack_kit()` is right is arithmetic on
descriptor numbers: no number from 3 up to the last duplicate was free when it was
asked for (`LognOpen`, `ScratchOpen`), so each scratch copy lies above the slot of its wire
(`ScratchHigh`), so no placement closes a later scratch. With what the sweep
leaves (`SweptClean`, `Placed`) that gives `KitIsExact`, `NoCollision` and
`AllEdgesWired` for every number of units, edge table, limit and inherited table.
`PreflightIsEnough` needs no count of open descriptors: since the kernel gives the
lowest free number, it is enough to know above which number nothing is open. `Tide`
says it for each point of the boot in the terms of `NW_BOOT_NEED` (4 + n while the
pipes are made, 6 + n + 2e when the sockets are), and while pipes are made that one of
0..3 is free, because every read end is closed again.

**CityProofs.** `BootOrder`, `Reported`, `Recorded`, `EndedLogs` and
`ShutdownOrder` say what has been done by the time PID 1 is where it is.
`NoStalePid`, `WholeCity`, `TermFirst`, `EofIsFinal` and `TailIsKept` follow for any
number of units and any length of the windows.

**LoopAttachProofs.** `NoAttemptWasted` for any number of houses, stores, attempts and
generations, and whatever dead generations still hold. Its invariant `LostToOthers`
charges each lost attempt to a device configured since this `loop_attach()` began, and
the attempt under way as soon as its index is taken: GET_FREE gave an index that was
free, so a new winner has come since. `BoundIsEnough`: if no house starts over and
attempts are at least as many as images, nobody gives up. There a rival is an image
that is `Done`, each counted once (`Counted`, by cardinality of finite sets), and the
house's own image is not among them.

**EvidenceProofs.** `TailEnd`: `LogInv` is inductive. Its part `RingMeaning` says
which byte of the log each place of the ring has, by `cursor`, `wrapped` and `taken`;
`FileMeaning` says which prefix of the tail file is right after each call of
`flush_tail()`, since the file is wrong as a whole while a flush is under way and a
statement about finished flushes alone is not inductive. The theorem needs only that
a chunk is not larger than the ring, which is the comment's own assumption.
`Complete` adds `DrainMeaning` (after a drain that did not give up, everything the
dead house wrote has been read). `ShelfKept`: with `PutMeaning` (a caller renames only
a whole file, and a name once found stays) every step of every caller is a step of
`Shelf` or leaves it alone.

**HandoffProofs.** `CheckInv` says what `nw_check()` has established by the time it is
at index `i` of a table: the header's rules, the rules of every earlier unit, bind and
edge, and of each duplicate table (`TableInv`) that it has exactly the keys entered so
far, each at a place that the probe from its hash reaches without meeting an empty
slot. `AcceptsExactly` alone says nothing before the verdict. A free slot is found by
counting: fewer keys than slots. The first broken rule of a list, and the first empty
or equal slot of a probe, are least elements of sets of naturals, which is the one form
of induction the proofs need. `ReadsInBounds`: the counts are bounded before the size is
computed, so the remainder is the size itself. `HandInv` keeps, from `Spawn` on, that
the environment is the export of an admitted unit; with it `AdmittedUnitArrives` is
proved rule by rule: each of the 18 rules on single values and the 10 on several
(`ValueTable`, `CrossTable`) is answered by a rule of `nw_check()`, each conversion
returns the number that was printed (remainders modulo the two widths), the hexadecimal text of a hash
determines the hash, and the binds of a unit are numbered without a gap.
`TrustsNoVariable` needs only that validation was passed. In `BindsOf` the binds of a
unit are placed by rank (`Before`), which is what the loop's counter is, and not
filtered by a recursive operator.

**HouseProofs.** `HouseInv` gives the process, its mounts and its Landlock domain as
functions of the unit, the kernel and the index of the next step: what has been
declared and lies behind has been done, what lies ahead has not. Every need is then
met because the step that would take it away has a higher index. `OrderIsRight`,
`MountsStayInside` and `LidsInForce` follow for every list of binds, set of
capabilities, ABI and number of generations. The proof found an error in the model: a
declared `nofile` below the number of open descriptors had been counted as a want of
descriptors also for steps that open none (`Has`); the run has such a limit now.

**BootProofs.** `BootInv`: a slot's plan is in place only when its layers are
(`SlotsWhole`), the plan under way has every layer that is off the tool's list
(`StagedWhole`), no layer's leaf is without its directory (`LeavesInside`), a
target is never the slot the pointer named (`TargetClear`), and for each phase of the boot what dawn
and PID 1 have done. `DawnLeavesReady`, `StagedSlotsBoot` and `NoPartialPlan` follow for
any set of slots, names, plans, pointers and foreign files. `LayersKeepBricks` is for
`Orderly`, true in the run `boot`: two slots, and no layers in files that no tool wrote.
`BricksKept` itself has the premise `careful`, which the two findings above show to
be needed; under it `BricksInv` holds: the sidecars can be trusted, and the cities of
any two slots agree. With three slots it is false: the clash check compares with the live slot
only, so two others may hold cities that disagree and be booted one after the other.

Some theorems state facts that no run repeats: `AtMostOneHouse`, `Fresh`,
`NoCollision`, `TermFirst` and the type invariants of `Kit`, `City` and `LoopAttach`
are parts of the inductive invariants and hold for every instance. Every invariant and
every action property that a passing run checks is stated by a theorem.

Only model-checked: the liveness properties `StopEscalates`, `EscalationBounded`,
`DeathNoticed`, `ZombiesReaped`, `BootDecides`, `ShutdownEnds`, `LoggerSeesEof`,
`AttachEnds` and `EvidenceEnds`, which speak of fairness and so of ENABLED, outside
the proof system's reach; and everything below the level of the models.

## 5. What is left out

- Milliseconds: windows are counted in passes; that 400 ms is shorter or longer
  than a unit's grace period shows as `SupEnds` happening or not in the window.
- The `shutdown_city()` branch that kills nw-spawn: PID 1 opens the city only
  after it has collected nw-spawn, so the branch has nobody to kill.
- Loggers killed from outside, and PID 1's own death.
- What a house does inside its lids.
- The autopsy counters. In `Supervisor` `JudgeDeath` stands for the count and the
  decision only; the evidence of a death is `Evidence`.
- `EINTR` from signals other than TERM and INT: none has a handler.
- In `Supervisor` a client speaks or hangs up only while it is being served; one
  that did so while queued is seen the same way by nw-sup.
- `Check`: CRC-32 is right or wrong, the name hash is arbitrary. Reserved fields are
  not there.
- `House`: a declared nice or oom-score-adj is taken to be one that needs its
  capability (a negative one). Binds are flat: a bind of a directory above
  NW_CTL_DIR carries the control directory along writable, and the check in
  `lid_brick()` is of the bind itself. Loop devices are one step; `LoopAttach` has
  their race.
- `Boot`: a stop keeps every call that was completed (no `fsync(2)` in the code
  orders them, and power loss may reorder what a file system had not written). One
  staging tool runs at a time; nothing in the code excludes two. A pointer too long
  for PID 1's buffer is cut there and refused by the tool: `PointerReads`. PID 1's
  other arguments, `run_rescue()` and the parsing of `--hold-ms` are lab paths.

### Not modelled

- SHA-256: a fixed numeric function with published vectors.
- The bakery (`fold.py`, `nw-cc.py`, `mkbrick.py`): a compiler from text to the plan
  format; the useful statement, that what it writes nw-check accepts, needs its
  input language.
- relaunch-house.py and fold-house.py: clients of the control socket and of the
  bakery; `Supervisor` has every order of their requests.
- mkboot.sh, initrd-init.c, probes and information tools: they copy or print.
- Houses are test programs, and the repository's CBMC harnesses and static models
  describe the program.

## 6. Plan

Done, in this order, the most important first: `Supervisor` with `Lifecycle`,
`Kit`, `City`, `LoopAttach`, each with properties, runs and proofs; then `Check`
with `Handoff`, `Store` with `Shelf` and `Evidence`, `House`, and `Slots`, `Dawn` and
`Boot`, each with its properties, run and proofs.

Next:

1. Theorems: the safety half of the bounded waits (at most `Spins` looks at the pipe,
   one SIGKILL per escalation).
2. `Relaunch`: relaunch-house and fold-house against a running nw-sup.
3. `Fold`: the bakery's compilation as pure functions, checked against `Check`.
4. A composition of `City` with one `Supervisor` in detail, so that PID 1's
   window and a unit's grace period meet in one model.
