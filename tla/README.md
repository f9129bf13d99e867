# maestro-model-router: the verification development

TLA+ modules that model the router in `src/`, TLC configurations that check
them on small instances, and proofs, checked by TLAPS, of what holds on all of
them. Source references are to files of the repository; `admit.rs:118` is a
line of the file of that name.

    tlc  -workers 2 -config MCSlots.cfg MCSlots      # check an instance
    tlapm SlotsProofs.tla                            # check the proofs

## The system

The router answers OpenAI-style requests by relaying each to a `llama-server`
child that serves the model it names. Children are started on demand under a
memory budget, evicted to make room, and swept when idle.

| component | state | operations | meets the others through | module |
|---|---|---|---|---|
| admission (`src/admission`) | none | `admit_with_guests`: fits, unload these, blocked, refuse | called by the slot table with a snapshot | `Admission` |
| slot table (`src/proxy/slots`, `loaded.rs`) | a mutexed slot per model, the admission lock with the line of waiting requests, the bell | `child`, `admit`, `room_for`, `look`, `unload`, `start`, `sweep_exited`, `sweep_idle`, `let_go`, `touch`, `resync`, `clear` | shared by every thread | `Slots`; `clear` and the measurement in `Lifetime` |
| shared state (`shared.rs`) | the catalog being served, the stop flag | `catalog`, `child`, `reload` | the slot table, under the admission lock for a reload | `Slots`, `Lifetime`, `Requests` |
| reaper (`reaper.rs`, `idle.rs`) | its next deadline | sweep at each tick | the slot table, without the admission lock | `Slots` (interleaving), `Lifetime` (time) |
| residents (`residents.rs`) | failures | load each once at startup | the path a request takes | `Lifetime` |
| listeners (`listen.rs`, `permits.rs`) | the free permits | accept, hand on, give back | one thread per connection | `Connections`, `Startup` |
| connections (`answer/`, `relay.rs`) | one thread and one lease each | read, route, refuse, load, relay, touch | shared state, the child's socket | `Connections`, `Requests` |
| requests (`head/`, `body.rs`, `endpoint.rs`, `access.rs`, `refusal.rs`, `reply.rs`) | none | parse, route, refuse, reply | called by a connection | `Requests` |
| children (`launch/`) | a process, its port, its last lines | spawn, wait until ready, retry once, kill | started under the admission lock, killed by their last handle | `Launch`, `Invocation` |
| shutdown (`router.rs`, `serving.rs`) | the signals received | stop, a second signal | `clear` and the stop flag | `Lifetime`, `Startup` |
| memory probe, settings (`memory/`, `budget.rs`, `queue.rs`, `root.rs`) | none | device memory, what a child holds, the variables | asked by each decision and each load | `Machine` |
| catalog (`catalog/`) | none | read, settle, report | read at startup and at a reload | `CatalogText` |
| estimates, discovery (`catalog/estimate`, `catalog/discover`, `gguf/`) | none | derive, walk, name | settle a catalog against the models root | `ModelFiles` |
| CLI words, benchmark, stub server | none | print, measure | not part of serving | none |

What is hard about it: a request reads the table one slot at a time, decides,
and acts under other locks than it read under, while relays end, children die,
the reaper sweeps, an operator unloads and the catalog is replaced. Requests
sleep for room and are woken by a bell that carries no subject. A caller may
fall silent or leave at any byte while a thread watches it and another copies
to it. A child may lose its port, die or hang at any moment of its start. And
what is read from files, tools and callers may be wrong in any part.
`PROJECT.json` lists each such hazard at its line, with the properties that
cover it or why none does.

What makes each correct: a decision names a set that really makes room, and its
refusals are final; a model that is being read from stays loaded, and nothing is
started over the budget; whoever waits is served in order, woken when it should
be, and answered in the end; a reload forgets no child; a permit is never lost,
and a reply is whole and ends after its model is free; a start ends and leaves
no process when it fails; what is idle is unloaded in time; a stop ends what it
took; nothing is loaded or unloaded for a request that is then refused for what
it says; every fault of a catalog is said; an estimate errs high; no two models
have one name; and a figure that cannot be read is not guessed.

## Modules

### In time

**`Admission`** is `src/admission` as constant operators: what an entry is
charged (`Charge`, `HeldOf`: the estimate or a larger measurement, the device
side alone for an entry kept off the device), the two questions of room
(`Short`), and `Decide`, which is `admit_with_guests`. The greedy loop over
sorted candidates is `Victims`, given without a loop: a candidate is taken when
those that go before it do not make room. That the two agree is checked, and
proved, against the loop as written (`VictimsAreTheLoops`).

**`MCAdmission`** puts one question in each initial state and answers it in one
step.

**`Slots`** is the slot table with the threads around it. A request's `pc`
follows it through the code:

    idle - Arrive -> asking - Call -> reading                     (loaded: no lock)
                              Call -> admitting - Admit -> rechecking   (lock taken)
    rechecking - FoundRunning -> reading, FileMissing -> idle, BeginLook -> looking
    looking - LookAt, once per model of its catalog; Look ->
        starting (fits), unloading (these have to go), waiting, or idle (refused)
    unloading - Unload -> killing - Killed -> unloading ... -> starting, or waiting
    waiting - Wake (lock taken again) -> rechecking, or idle after a reload
    starting - Start -> reading, StartFails -> idle
    reading - Touch -> touched - Drop -> ringing - Ring -> idle

Every step is what a thread does under one hold of a slot's mutex, or between
two. `admission` is the admission mutex; `inLine` and `ahead` are the tickets of
`Queue`, as who stands before whom; `rung` is the bell's count as each waiter
sees it (the requests for which it rang since they last read it); `late` says
whose deadline is past; `outdated` is the comparison of `reloads` with the count
a wait began under. `look` is the snapshot being read, slot by slot in catalog
order; `plan` is what the decision has yet to unload, in the order the snapshot
gives. `used` is `last_used` as a rank, so that time does not grow: only the
order of uses is ever compared. `dying` holds each child that has left its slot
and whose process is still being killed. A model is busy when a request holds
it, which is the handle count of `loaded.rs:78`.

The reaper's window becomes a rank: a sweep finds stale all that was used no
later than some cutoff, and takes those of them that were not used or read from
since (`Reap` under the slot's mutex, `Gone` when the process is). An operator
unloads (`LetGo`) and reloads in two steps, `Resync` and `Swap`, with the
admission lock held over both.

The load endpoint and a caller that hangs up before its answer starts are
requests that let go without `Touch`.

**`ModelPool`** is what the router promises with nothing said of how: models are
loaded beside what they fit with, read while loaded, and unloaded while nobody
reads. **`SlotsPool`** maps `Slots` onto it: a model is charged while its slot
holds a child, and read from while a request holds its lease.

**`MCSlots`** holds the instances of `Slots` and its liveness properties,
**`SlotsProofs`** the theorems.

**`Connections`** follows a connection from a listener's backlog to its end. An
accept loop takes a permit and then accepts (`loop`, `free`). The thread of a
connection goes through

    backlog -> head -> [body] -> asking -> [proceed] -> sending -> relaying
            -> ending -> touching -> answered -> given -> closed

and to `answered` from wherever it is refused. `lease` is the model it holds,
`up` the connection to the child, `said` and `relayed` the pieces of the answer
the child has written and the relay has passed on. The watch has its own state:
it notices that the caller has gone, or that the relay is over, and only then
looks at `relaying` again and closes the child's side, so every interleaving with
the relay's own end is there. `Send` hands the request to the child and may never be
done: no timeout is set on the child's socket and no watch runs yet. A side that
is shut out is `shut` until its child closes it; `ShutdownWakes` says whether the
relay's read is woken before that, which it is on Linux and macOS and is not on
Windows (`relay.rs:165-169`). `ended` is whether the caller has seen the end of
what it is sent. What is asked of the slot table is a choice: a model or a
refusal.

**`Launch`** is `Server::start` and everything it races: the child's process and
its port, another process that takes the port between `free_port` and the
child's bind, the startup budget, and a thread for each of the child's streams
that drains a bounded pipe and keeps the last lines. **`StartPromise`** is what a
start promises its caller, the single step that `Slots` and `Lifetime` take it
for; `Launch` implements it.

**`Lifetime`** is the router as a process under a clock. Children are numbered in
the order they are started. `place` says who holds each: its load, its slot, the
sweep or the stop that took it out, nobody. The reaper has its deadline, the instant its sweep
began, the list it made and the child it waits for. The device's free memory is
counted in children, so that what a load measures by its fall can be compared
with what it should be. A stop is a thread that empties the slots one at a time,
then drops what it took; the main thread hears signals and the end of the stop
from one queue, in order. What `Slots` models in detail is taken whole here.

### Pure parts

These are constant operators, with no `RECURSIVE`. What may be missing is a set
of at most one element. **`Questions`** is the frame they are checked in: an
initial state is a question, and one step answers it.

**`Requests`** is what a request is answered with: `ReadHead` (bounds and
silence), `Endpoint` (routes), `Access` and `CarriesTheKey`, `Parsed` (framing,
room), and `Answer`, the order in which `connection.rs` decides, with the cause,
the extra headers and, for a relayed request, the head that is sent on. An answer
also says what was asked of the slots and whether a body was waited for.
`MCRequests` states what is claimed of them.

**`CatalogText`** reads a catalog: fields converted by type, defaults inherited,
and every problem kept, as a set: which are said matters, not in what order.
**`ModelFiles`** is what the models root adds: the metadata kept of a GGUF file,
the cache of each layer, the estimate, what the walk reaches (`IsReached`: its
depth and what a model's name may be), identifiers, `TakeFile`, which names the
files one after the other, `Read`, which settles entries, and `Check`. The files
below a root come in any order, of which the walk's sorted one is one.
**`Invocation`** is the command line and the binary of an entry.
`MCCatalog` states what is claimed of the three, against definitions of its own
of what a catalog's faults are and what a child holds.

**`Machine`** is the tools' output, the measurement, the derived budget and every
variable. **`Startup`** is `serve` up to its listening sockets. `MCMachine` states
what is claimed of them, and **`MCInputs`** puts all the questions together.
**`InputsProofs`** holds the theorems.

### Runs

| run | instance | what it shows |
|---|---|---|
| `admission` | three loaded models of cost 1 or 2 and a wanted one, with and without a budget and a device reading | what is admitted fits both questions, the victims are those of the loop, a refusal is one that waiting cannot change |
| `slots_races` | three requests for two models of which one fits, the reaper, an operator, children that die, requests that take free room only | types, the lock, readers and their children, the budget, the line, that sleepers have wakers |
| `slots_partial` | three requests for three models, one as large as the other two, and children measured above their estimate | the table implements `ModelPool` |
| `slots_liveness` | three requests for two models of which one fits, nobody else | every request is answered by its deadline; the line drains by the bell alone |
| `slots_reload` | three requests and two reloads, which drop a model, restore it or change its estimate | readers, no forgotten child, what was decided under an old catalog is not acted on |
| `connections` | two callers, two listeners, two turns, answers of one piece | turns, leases, whole answers; that a leaver frees its model and every connection ends |
| `launch` | one start, two streams whose pipes hold one line, two lines kept of at most three | the start is `StartPromise`'s, the last words, that a start ends and its child is never blocked |
| `lifetime` | a resident and an on-demand model, two children, a window of 2 ticks in 5, two signals | idleness, the measurement of a load, what a stop leaves, that a signal ends the router |
| `inputs` | every request, catalog, root, model file, machine and setup that `MCRequests`, `MCCatalog` and `MCMachine` build of small parts | the seven claims about the pure parts |
| `blocked_never_fits`, `dropped_entry`, `stop_while_loading` | two or three actors each | findings 1, 2 and 3 |

The bounds are those at which the cases meet. Three requests are the least with
one that reads, one that is unloading for itself and one that is behind it in the
line; a budget of one model of two makes every load an eviction; the large model
of `slots_partial` is the least that takes two unloadings, between which a
decision can come apart. Two reloads let an entry leave and come back, or change
under a decision and under the wait that follows it. An accept loop
holds a turn while it waits for a caller, so with two turns and two listeners two
callers at one of them meet the limit. A pipe of one line is one that is full after each
line. Five ticks hold two windows and a half, so a sweep that is late and the one
after it. `MaxReloads`, `MaxEvents`, `MaxLines`, `MaxNow`, `MaxChildren` and
`MaxSignals` only end runs: none is a bound of the code. The constants of `inputs`
are small enough for each bound of the code (a head's bytes and lines, a body, a
depth, a count, an array of layers) to be met, passed by one, and missed by one.
Requests are interchangeable, and taken as such where only safety is checked.
Deadlock is checked in `Slots`, where the router never comes to rest; elsewhere a
question is answered, a start is over, or a bound is reached, and nothing follows.

**Fairness** is stated where liveness is checked, and only of what the router or
the kernel schedules. In `Slots`: a thread that can run does (weak), and one that
wants the admission mutex gets it if it is free again and again (strong: a mutex
starves nobody for ever, though it is not fair). That an answer ends or a
deadline passes is a hypothesis of the property that needs it:
`EveryRequestIsAnswered` holds by the deadline alone, `LineDrains` by the bell
alone, once nobody new asks. In `Connections`: threads, watches and accept loops
run (weak), and a loop that waits for a turn gets one that is free again and
again (strong: `permits.rs:35-38` wakes one waiter, which takes it or waits
again). Nothing is assumed of callers, and of children only as hypotheses of the
properties: that one takes its request and ends its answer (`ChildrenWork`) is
one of `EveryConnectionEnds`, and that one that was shut out closes its side
(`ChildrenLook`, about once a second by `relay.rs:168`) is one of both properties
where a shutdown wakes no read. The run is of a platform where it does;
`MCConnectionsWindows.cfg` is of one where it does not, with one caller of any
kind, and TLC finds both properties to hold there. `LeaverFreesItsModel` needs
nothing else of a child, and does not speak of a caller that leaves while its
request is being written: a child that leaves it unread holds the thread and the
model, and nothing in the code ends that. In `Launch`: the starting thread polls,
each of its probes ends (its reads are bounded one by one, `probe.rs:26-33`), its
budget and its settling time pass, the drains run. Nothing else is assumed of the
child. In `Lifetime`: the main thread hears and the stop runs; that children die
when killed is a hypothesis of `SignalEnds`.

### Proofs

| theorem | property |
|---|---|
| `MCAdmissionProofs!AdmittedModelsFit` | `AdmittedFitsBothQuestions` |
| `MCAdmissionProofs!VictimsAreThoseOfTheLoop` | `VictimsAreTheLoops` |
| `MCAdmissionProofs!RefusalsArePermanent` | `RefusalIsPermanent` |
| `SlotsProofs!TypeCorrect` | `TypeOK` |
| `SlotsProofs!AdmissionsAreSerialised` | `LockIsHeld` |
| `SlotsProofs!ReadersKeepTheirChildren` | `NoReaderLosesItsChild` |
| `SlotsProofs!OutdatedAreSentAway` | `OutdatedDecidesNothing` |
| `SlotsProofs!ChildrenAreNotForgotten` | `NoChildIsForgotten` |
| `SlotsProofs!TheLineIsALine` | `LineIsTheWaiters` |
| `SlotsProofs!FreeRoomRequestsTakeNothing` | `FreeRoomTakesNothing` |
| `SlotsProofs!NobodySleepsUnwoken` | `SleepersHaveWakers` |
| `SlotsPoolProofs!StartsAreWithinBudget` | `StartsWithinBudget` |
| `SlotsPoolProofs!TheTableIsAPool` | `ImplementsModelPool` |
| `ConnectionsProofs!ConnectionsAreTyped` | `TypeOK` |
| `ConnectionsProofs!TurnsAreNeitherLostNorDoubled` | `EveryTurnIsHeldOnce` |
| `ConnectionsProofs!RepliesEndAfterTheModelIsFree` | `ReplyEndsAfterTheModelIsFree` |
| `ConnectionsProofs!AnswersAreWhole` | `AnswerIsWhole` |
| `LaunchProofs!LaunchIsTyped` | `TypeOK` |
| `LaunchProofs!StartIsThePromise` | `ImplementsStart` |
| `LaunchProofs!LastWordsAreQuoted` | `LastWordsAreTheLast` |
| `LifetimeProofs!LifetimeIsTyped` | `TypeOK` |
| `LifetimeProofs!FallsAreTheChilds` | `FallIsTheChilds` |
| `LifetimeProofs!StopsEndWhatTheyTook` | `StopEndsWhatItTook` |
| `LifetimeProofs!SweepsTakeOnlyIdle` | `SweepTakesOnlyIdle` |
| `LifetimeProofs!IdleModelsAreUnloaded` | `IdleIsUnloaded` |
| `InputsProofs!HeadBounds` | `HeadBoundsHold` |
| `InputsProofs!ToldIffRead` | `ToldToSendIsRead` |
| `InputsProofs!OnlyAnswerableAsks` | `OnlyWhatCanBeAnsweredAsks` |
| `InputsProofs!FaultsAreSaid` | `EveryFaultIsSaid` |
| `InputsProofs!FilesAreOneEntryEach` | `EveryFileIsOneEntry` |
| `InputsProofs!NoFigureIsGuessed` | `NothingIsGuessed` |

The assumptions are those the modules make of their constants. For `Slots` and
`Admission`: models are numbered and finitely many, threads are distinct,
catalogs and inputs are well formed, `None` is not a number. For `MCAdmission`:
what may be loaded is finite and numbered by its recency, the wanted model is not
loaded, and costs and readings are natural. For `Connections`: callers and
listeners are finite sets, the bound on connections is any natural. For `Launch`:
streams are finite, a pipe takes a line, a line is kept. For `Lifetime`: residents
are models, the window and the bounds are natural, the least interval between
sweeps is positive. For the pure parts: counts, sizes and depths are natural, the
largest count, a mebibyte and the units of one are positive, the default timeout
and the fallback context are counts, a share is a percentage, and a file may
declare at least two pairs of metadata (`gguf/metadata.rs:16` allows 65536).

**The decision**, for any models, costs, budget and device reading. It is made of
sums over finite sets, and `AdmissionProofs` begins with what those are: that a
sum is what its recursion says, whatever element is taken first, and so that it
splits over a part and the rest. The induction is on a set of sets and not on a
predicate, which no installed prover instantiates; the first that fails would be
minimal under inclusion (`SubsetInduction`), and likewise for numbers. Two facts
carry the rest: more unloaded is more room (`RoomGrows`), and if the victims do
not make room they are all the candidates (`VictimsSuffice`), from which a
refusal is one that no unloading changes. For the loop, a finite set can be
sorted, the sorted list has each candidate once, and a walk along it that stops
when there is enough takes exactly those before which there was not
(`WalkStep`): the first place with enough room is where both end.

**Slots**, for any set of models, requests and catalogs, any budget and any number
of reloads. The argument goes in layers, each an inductive invariant that the
next uses as a fact about both ends of a step.

1. `LockInv`: the types, `LockIsHeld`, and that a look in progress reads only
   models of the catalog it was begun under, without which `LookAt` could not be
   typed.
2. `KeptInv`: nobody is outdated but sleepers with a ring on its way; a request
   between the lock and its child has its slot in the table (`SlotIsKept`);
   readers find their children; and whatever is occupied is in the table. The
   second needs the first: a reload that drops the slot of a waiting request
   outdates it, and an outdated request never gets past the wait. The third needs
   the second for a child just started, and the re-read of the busy signal for
   one already handed out.
3. `LineInv`: the line, and what a free-room request may not do. It needs the
   lock: only its holder joins, and only one that has joined unloads out of turn.
4. The bell. Whoever was refused the room was refused it because of what it saw,
   and what it saw may have changed before it sleeps. `SightIsTrue` says that
   while it looks every model it saw busy is busy still, or a ring has reached it
   or is due from a lease already dropped: the bell is read before the look and
   not after (`room.rs:74-76`), and a lease drops its handle before it rings
   (`lease.rs:69`); and that what it unloads are models that could be unloaded for
   it. `SleepersHaveWakers` follows for who goes to sleep, and is kept because a
   reader that lets go rings.
5. The budget (`SlotsPoolProofs`). While one request holds the admission lock
   nothing is loaded, so slots only empty under it (`VacateOnlyEmpties`); a look
   therefore counts no less than is there (`LookIsComplete`), the wanted model
   stays absent, and with what was named unloaded there is room
   (`RoomIsMade`), by the lemmas about the decision. `StartsWithinBudget` is for
   every catalog and any reloads.

`NoReaderLosesItsChild` is the one the code argues for at greatest length
(`loaded.rs:33-63`, `loaded.rs:171-198`): the handle count is trusted because
handles are made under the slot's mutex and read again there. The refinement of
`ModelPool` is proved where one catalog is served throughout, because a reload
leaves a dropped model running that nobody counts (finding 2): the pool is then
not what the table is.

**Connections**, for any number of callers, listeners and turns. `ConnInv` adds to
the properties that a caller stands in one backlog, once (`QueuedOnce`): without
it, accepting a caller could move one that is already being answered, and the
count would not follow. That free turns are no more than there are is not
inductive; it follows from the count. A reply ends after the model is free
because whoever has seen an end is past the touch (`EndedAreAnswered`) and
whoever holds a model is before it (`HoldersAreAnswering`). An answer is whole
because the watch, for as long as the relay runs and the caller is there, has
noticed nothing and closed nothing (`WatchSparesTheCaller`).

**Launch**, for any streams and sizes. `StartInv` says where a process may not
live: before the first spawn, between two attempts, and once a failure is being
reported. With it each step of the start maps to a step of `StartPromise` or to
none: an overdue child that is killed is one that died, and only then is the
failure reported. For the last words, a line is in one place of one pipe
(`LinesAreApart`), so that the lines drained, the written ones in no pipe, are one
more with each drain; as many are kept as were drained, up to the most that are
(`LastAreKept`); and no stream ends before the child has (`StreamsEndLast`).

**Lifetime**, for any models, window and bounds. One child is loaded at a time, by
one thread (`LoadsAreSingle`), so the fall a load sees in the free memory is its
own child, unless another went meanwhile (`FallIsOne`). `StopHoldsWhatItTook`
follows a stop: what has left its slot for it is held by it or by an answer, and
it is over when it holds nothing. `SweepListsOnDemand` says what may be on the
reaper's list; what was used since the list was made is found when the child's
turn comes, so `SweepTakesOnlyIdle` is then a fact about each step.
`IdleIsUnloaded` relates the last use of each child to the sweeps and these to the
clock (`SweptInTime`): between two sweeps there is an instant `b`, the beginning
of the last, such that all that is idle was used less than a window before `b`,
and the next sweep begins no later than half a window, or a sweep, after `b`;
during one, what was stale as it began is on its list. Like the documented bound
it is for a window of twice the least interval at least, which any configured in
whole seconds is.

**Inputs**, for every request, catalog, root, machine and setup that can be asked
about, and any bounds. A behaviour is a question and its answer, so the invariants
are that the question is one of those asked and the answer is what the operators
make of it (`AnsweredAsAsked`, `ReadAsAsked`, `SettledAsAsked`); the work is about
the operators. Four things make it:

- *Loops.* The provers know nothing of the folds the modules say loops with, nor
  can they do induction over data. The value of a fold is taken out of its
  definition as the last value of a run, a function from how far the loop has come
  (`FoldingExists`); what the loop keeps true is then shown by the least index at
  which it would fail (`IndexInduction`). There is one such lemma for each loop:
  header lines, counted values, lines of a tool's output, arguments, the pairs of a
  model file, the files below a root.
- *Requests.* `Answer` is followed in the order of `connection.rs`. A head's bounds
  are the loop's (`ReadHead`); whether the client was told to send its body is one
  field that every later refusal keeps (`KeepsFair`), and only a child that is lost
  before the body is copied leaves one that was told unread (`relay.rs:51-63`); and whoever is asked for a
  child was routed, framed, keyed and named before (`Passed`).
- *Catalogs.* `Said` forgets the wording of problems and keeps their scope and
  field. It turns each stage of the walk into the set of fields at fault in that
  stage, and these into the definition of the faults of a table, case by case:
  fields that are unknown, present and wrong, or needed and supplied by nothing. A
  text without a fault supplies every estimate, so settling it needs no file
  (`TextAloneIsEnough`).
- *Files.* What is declared is apart, because an identifier has one table and a
  table one draft. What the loop over the files keeps true is `TakenOnce`: the
  names taken are those of the entries so far and those it began with; each entry
  is of a file that was passed, is nobody else's, and has a name and a path of its
  own; and a file that was passed and has none found both its names taken. That a
  found entry's context is at most what its file was made for needs what
  `TakePair` keeps of the file's metadata (`FilesSaySixteen`).

Model-checked only: liveness (`EveryRequestIsAnswered`, `LineDrains`,
`LeaverFreesItsModel`, `EveryConnectionEnds`, `StartEnds`, `ChildIsNeverBlocked`,
`SignalEnds`), which the prover cannot reach; and `EstimateErrsHigh`, which
compares two sums over layers and reads what a child was told out of a list of
arguments built with sequence operators (`SelectSeq`, `SetToSeq`) of which the
provers know no facts.

## Findings

1. **Blocked without hope** (`decision.rs:144`). Blocked, and with it the wait
   and the `Retry-After`, is decided by whether any on-demand model is busy. When
   residents alone leave too little room, it is still Blocked, although the
   comment above and `README.md:631` promise a wait that can change the answer.
2. **A dropped model is not counted** (`view.rs:40`). The snapshot walks the
   catalog now serving; a child whose entry a reload dropped still runs, is
   charged to nobody, and is no candidate.
3. **A stop misses a child that is loading** (`table.rs:92`). A stop empties the
   slots without the admission lock, and a child being loaded is in none. The
   router ends with that process alive, which `README.md:549-571` does not name
   among the ends it cannot cover.

`EstimateErrsHigh` is what holds of the estimate, with three kinds of entry
excepted, all of which are among the inputs: one whose flags give a context of
their own, which is noted below; one that spells the layers on the device in two
ways that differ, of which the estimate reads the first of its own list and a
child the last it is told (`served.rs:61-66`); and one whose file gives a sliding
pattern shorter than the model, where the layers after its end are not counted
(`cache.rs:57`) and what a child makes of the file is not in this code.

Noticed while modelling, and checked by no run of their own. The first three can
be seen on instances of their own, in which TLC finds the property violated
(`MCSlotsHalfway.cfg` with `MCSlots`, `MCLifetimeSlow.cfg` with `MCLifetime`,
`MCInputsEstimate.cfg` with `MCInputs`):

- A request waits although an idle model could make its room (`HeadIsWoken`).
  When a model that a decision named has gained a reader, the unloading stops and
  the request sleeps (`room.rs:158-166`), without asking for another. With two
  models of cost 1 loaded, a budget of 2, and a request that reaches the named one
  first, the wanting request sleeps beside an idle model. `README.md:223` says it
  waits "when the only room a model could take" is held by one being read;
  `README.md:587` notes the stop and not the wait. What is promised of every
  sleeper, and proved, is `SleepersHaveWakers`.
- A model may be held longer than "one and a half windows plus one sweep"
  (`README.md:209`, `reaper.rs:17-20`, stated as `OneAndAHalfWindows`). A sweep
  longer than half a window puts the next one off, so a model that was used just
  after the first began waits for two. What holds, and is proved, has the longer
  of half a window and a sweep in place of the half (`IdleIsUnloaded`).
- A flag `c` or `ctx-size` comes after the `--ctx-size` of the entry's field and is
  what a child goes by (`invocation.rs:52-62`; a test's comment at
  `invocation.rs:146` calls the two legitimate), while the caches are estimated
  for the field (`derived.rs:71,91`). "Every term errs high on purpose" in
  `catalog/estimate/mod.rs:38` is stated as `EveryTermErrsHigh`.
- The catalog is read before the admission lock is taken (`shared.rs:159`), so a
  load may be admitted under a catalog that a reload has replaced; the reload's
  lock does not order the two as the comment at `shared.rs:190-193` says.
- An empty slot is taken for room (`admit.rs:186`) while the sweep that emptied
  it is still killing the process.
- `check` settles a catalog against the models root, and `serve` and a reload
  first parse the text alone (`launching.rs:22`, `shared.rs:188`): a catalog that
  leans on its files can pass the one and be refused by the others.
- A `memory_estimate_mib` of the wrong type with no default is reported twice
  (`read.rs:209-211`, `listing.rs:72-78`).
- `reason` has no words for 401, 403 and 409, whose status lines say "Gateway
  Timeout" (`reply.rs:65-81`).
- The bound of header lines counts the request line too (`head/read.rs`).
- The catalogue's reply reads what is loaded and what it holds in two passes
  (`own.rs:93-95`), so the two may be of different moments.
- An entry estimated from file sizes alone counts nothing for a draft's cache
  (`derived.rs`).

## Not modelled

The mutexes of single slots, of the table and of the bell are steps, not state:
each is held over one step and never over another lock's. Poisoned locks, which
the code treats as held data. Wording, formatting and logging; JSON, TOML and
HTTP as text; the bytes of a GGUF header; percent-encoding and the case of header
names; the search path for a binary. A serving thread that panics
(`serving.rs`), and an accept loop that does because the system gives it no thread
(`listen.rs:171`), which takes its turn along. A tool that leaves its output open
to a child of its own: its reader is joined without a bound (`command.rs:146,153`).
An open port that turns out to be one a later operand names. A
`100 Continue` that cannot be written is in `Connections` and not in `Requests`.
More than one operator at a time. The benchmark, the stub server, the command line's words and the
build script, which are no part of serving.

## Plan

What is left, most wanted first:

1. `EstimateErrsHigh` for every shape of a model: it asks for the flags a child is
   told as a function and not a list, and for a lemma that a sum over layers is no
   less than another that is so layer by layer.
2. `StartPromise` in `Slots` and `Lifetime`: that the single step they take a
   start for is the one `Launch` is proved to implement.
3. `Connections` over `Slots`, as one behaviour, in place of the choice between a
   model and a refusal.
