# Verification of the EtherCAT master and motion controller

TLA+ models of `src/EtherCAT_Master_RTOS`, an EtherCAT master with a numerical
control for electrical discharge machining that runs under RTX64. The models are
checked by TLC on small instances; theorems about them are proved with TLAPS for
every value of the constants.

`PROJECT.json` lists the components, the runs, the mutants, the lines each
definition models, the findings, the hazards and the theorems. To repeat a run:
`tlc -workers 2 -config MCTransports.cfg MCTransports`; a proof:
`tlapm Transports_proofs.tla`.

## 1. The system

### Threads and how they meet

| thread | where | what it does |
|---|---|---|
| main, priority 50, 10 ms | `System_EDM_SINKER_MODE.cpp` | NC manager, HOME, HMI bridge, PLC interface, 1000 ms supervision |
| PDO timer, 250 us, one-shot | `EtherCatMaster_DC_Runtime.cpp` | motion core (`UpdateInterpolation`, `UpdateAllMotion`), servo frame, exchange with the network card |
| PLC timer, 1 ms, periodic | `EtherCatMaster_PLC_Runtime.cpp` | evaluates the ladder program |
| probe timer | `EtherCatMaster_DC_Startup.cpp` | measures the scheduler while the master starts |
| HMI process | not in the repository | reads and writes shared memory |

There is no lock on the motion side. The threads meet in atomic words, in
single-producer single-consumer rings and in sequence-locked banks; everything
is bounded, and whoever cannot proceed gives up, refuses or stops the machine.
That is where this code is hard: each protocol is a handful of loads, stores and
compare-exchanges whose order is its correctness, and tests rarely meet the
orders that matter.

### Components, their state and what makes them correct

| component | state | operations | correct when | status |
|---|---|---|---|---|
| rings (`MotionCommandRing.h`) | slots, two counters | push, pair, batch, peek, pop, discard, size | it is a bounded FIFO; slots are never shared | `SpscRing` |
| motion ownership (`MotionCore.cpp`) | owner word, acknowledged ticket, mailboxes | request, takeover, acquire, release, transfer, apply, acknowledge, send | a safety request that has been made holds motion until it is applied | `MotionOwnership`, partly |
| execution epochs (`MotionCore.cpp`) | publication, claim, epoch acknowledgement | publish, ensure, commit, abort, apply | a takeover leaves nothing of the displaced program behind its epoch | `SafetyEpochHandshake`, partly |
| emergency stop mailbox, controlled stop of RESET (`MotionCore.cpp`, `NCManager.cpp`) | publication word, phase word | post, merge, take, press, poll, consume | no evidence is lost, an overtaken stop is never consumed, every press is answered | `ResetControlledStop`, partly |
| alarms (`AlarmManager.cpp`) | image, intent word, deferred publication | trigger, clear, promote, admit, end, and the operations under an admission | an admission freezes what it saw; no alarm is lost | `AlarmManager` |
| cyclic runtime (`CoreTimer*.h`) | gates, timers, owners | admit, leave, rearm, stop, cancel, drain, delete | nothing is destroyed under a callback, nothing calls afterwards | `CoreTimer` |
| EDM cancellation (`EDMExecutionCancelFence.h`) | phase, session through | request stop, read | no stop is missed, none reaches a newer session | `CancelFence` |
| EDM feedback (`EDMExecutionFeedbackChannel.h`) | two banks, publication | publish, read | it is a register | `FeedbackChannel` |
| EDM shadow channel and handoff (`EDMRTShadowChannel.h`, `NCManager.cpp`) | three fences, ring, feedback | start, submit, neutralize, cancel, read, one pass of the consumer | an old session never acts, what is read is about what was asked last | `EDMRTShadow`, partly |
| axis command mailbox (`MotionCore.cpp`) | two rings, result ledger | submit, check, apply, publish, file, query | a result is for the command asked, and final | `HomeAxis`, partly |
| homing (`HomingManager.cpp`) | the request, its lease, what it waits for | start, search, stop, commit, move, hold, resume, cancel, fail, return | a lease is returned when nothing can act under it, and it is returned | `HomeAxis`, partly |
| home persistence (`HomePersistenceManager.cpp`) | three files, pending records | queue, flush, load | what a flush reports as saved is saved | `HomePersistence` |
| transmit frames (`NicTxFrameLifecycle.h`, `NicDriver.cpp`) | pool of frames, index, trust in answers | send, observe | a frame is not touched while the card has it, nor overtaken | `NicTransmit`, partly |
| servo output frame | proof of the frame, output hold | capture, begin, finalize, end, hold | no frame leaves after its proof was revoked | planned |
| motion command path | replay queue, terminals | dispatch, filter, complete | one terminal for each command | planned |
| NC gates and boundaries | small state machines | hold, resume, block end | a hold stops at a boundary and loses no block | planned |
| shared memory (`SHMManager.cpp`) | sequence-locked structures | publish, request | a reader sees one version | planned |
| interpreter, planner, path shadows, gap servo, compensation | programs and floating point | | values, not orders | not modelled |
| startup, distributed clocks, PDO layout, FMMU, ENI | registers of the slaves | | a sequence of one thread | not modelled |
| PLC program, configuration, tuning, mode programs | tables | | sequential | not modelled |
| tinyxml2, the directory beside the sources | | | third-party, data | not modelled |

"Partly" is explained for each component in `PROJECT.json`, and in section 7.

Calls between them, as far as it matters here: the NC manager pushes commands
into a ring and polls its feedback; it asks for ownership, for epochs and for an
alarm admission when it starts, resumes or resets; the motion thread pops,
applies safety requests, publishes epochs for SAFETY and sends the frame under
an alarm admission and a reservation in the owner word; HOME drives axes through
the axis command mailbox under a lease of the owner word, and saves what it
found; alarms ask for an emergency stop; the main thread stops the timers before
it destroys anything.

## 2. Modules

| module | models | implements |
|---|---|---|
| `BoundedFifo` | abstract: a bounded first-in first-out queue | |
| `SpscRing` | `FixedCapacitySpscRing` | `BoundedFifo` |
| `NicTransmit` | `CNicDriver::SendPacket` and `NicTxFrameLifecycle` | |
| `MotionOwnership` | owner word, tickets, acknowledgement, application, frames | |
| `SafetyTakeover` | abstract: one SAFETY epoch for each takeover | |
| `SafetyEpochHandshake` | `EnsureSafetyMotionOwnerEpoch` against the other publishers | `SafetyTakeover` |
| `ResetControlledStop` | the phase word of RESET and the emergency stop mailbox | |
| `AlarmManager` | `AlarmManager` | |
| `CoreTimer` | gate, shutdown and `StopCyclicRuntime` | |
| `CancelFence` | `EDM52::CancelFence` and its use by queued work | |
| `LatestRegister` | abstract: a register holding the latest publication | |
| `FeedbackChannel` | `EDM53::Channel` | `LatestRegister` |
| `EDMRTShadow` | `EDM48::Channel`, the control beside it and its consumer | |
| `HomePersistence` | `HomePersistenceManager` over a failing file interface | |
| `HomeAxis` | the axis command mailbox and a HOME request on it | |

`AlarmManagerParameters`, `ResetControlledStopParameters`, `HomeAxisParameters`
and `NicTransmitParameters` hold the constants of a module and the assumption on
them, so that a module which instantiates the component, and does not extend it,
still has the assumption evaluated.

`MC<name>` instantiates modules for TLC; a configuration is `MC<name>.cfg`, or
`MC<name><question>.cfg` for a counterexample. `<name>_proofs` holds the theorems
of the modules it extends.

**Side by side.** `MCTransports`, `MCLiveness`, `MCReports`, `MCStops`, `MCHome` and
`MCPolled` hold two or three components. They share no state in these models and
none waits for another, so nothing would be learnt from interleaving them: one
moves, chosen at the start, and the others keep one of their initial states. The
reachable states are those of each component, with the others at rest, and every
property is about one component. The six theorems `...KeepTheirSpecs` and
`...KeepsTheirSpecs` say that the side-by-side specification implies the
specification of each component it holds: what is proved of the component holds of
the run. Where liveness is checked, fairness is asked of the component that moves.

**Granularity.** A step is one access of an atomic that another thread may
change; local computation is part of the step before or after it. Where a
module merges several accesses it says so at its head and why nothing gets lost.
All accesses that matter are acquire, release or stronger, and every channel has
its data stores before the store that publishes them, so interleaved steps are
the executions of the code; the rings copy plain memory between those accesses,
and `SlotsDisjoint` is the proof that this is no race.

**Mutants.** A definition preceded by `Mutant:` is a plausible bug in the
definition that follows. It is used by no action; each property is shown to
break under one of them.

### SpscRing

`storage`, `writeSequence` and `readSequence` are the members of the class. The
producer, the consumer and any number of observers each have a call in progress;
copying into and out of a slot is a step. `published` is history: everything
ever published. The queue of `BoundedFifo` is the part of it between the
counters.

### NicTransmit

`slots` is the pool as the driver records it and `nal` who really has each frame;
`newest` is history: the latest frame the wire has carried. Two threads call
`SendPacket`: claim the producer flag, look for a frame the network layer has
given back, wait for older ones or refuse, fill, submit. `m_idx` is incremented by
both threads with no protection, so it is read in one step and stored in another.
External, and modelled from how the driver uses them: the network layer sends
what it has in any order, may take a frame even when its call reports a failure,
and gives frames back after it has sent them or dropped them; an answer may come
late and carries the low bits of the index only. `Open` and `Close` run once while
nobody sends and are left out.

### MotionOwnership

`word` is `m_motionOwnerState`, unpacked: owner, generation, ticket and the
flags for an open handshake, a pending action and a reserved frame. `acked` is
the acknowledged ticket. Requesters call `RequestEmergencyStopAllAxes` or
`RequestStopGroup`, takers `TakeSafetyMotionOwner`, clients acquire, transfer and
release; `Rt` is one pass of the motion thread after another: poll the
mailboxes, take a ticket if needed, authorize, claim, apply, acknowledge, settle
a controlled stop, and send a frame under a reservation. RESET gives SAFETY back
in `TryReleaseSafetyMotionOwner`: it reserves the word as a frame does, so that no
ticket can be published, reads everything again, and then releases or takes its
reservation back. Left out are the claim of the release's authorization and the
revocation generation it compares, so that the model releases where the code might
still refuse, and the proof after the release, which decides its answer only. Nothing
but HOME transfers ownership, and never from a SAFETY lease; the guard of
`TryTransferMotionOwner` is that of its callers. `granted` is history. The central notion is `Owed(r)`: a request is owed from its ticket until the pass
that applied it is over.

### SafetyEpochHandshake

The handshake of a takeover on the owner word, the epoch publication, the claim
and the acknowledgement: helpers claim an epoch, publish it, acknowledge it and
clear the flag, each able to finish for any other. Ordinary publishers, the
motion thread and committers that reserve the publication compete. `SafetyTakeover`
sees four phases: ordinary, open, fenced (a SAFETY epoch is out) and closed.

### ResetControlledStop

RESET of a running program leaves a press in the phase word; the motion thread
makes it a SAFETY ticket and a deceleration, and the NC polls the phase until it
can consume the result and go on to the ordinary RESET batch. `mailbox` is the
emergency stop publication with its evidence and its reservation. Stoppers request
an emergency stop or a group stop, an alarm or a lost axis mapping may come at any
moment; the latter is contained by the motion thread and leaves its evidence in the
mailbox. `interrupted`, `clean` and `owed` are history. The acknowledgement of
tickets is one step here because `MotionOwnership` takes it apart; bounded
compare-exchange loops are one step too. A press whose deceleration the motion thread
refuses, because the reference axis keeps its recovery for the RESET batch, is retired
(`PressRetire`). A press may also go to the batch from a program that is at rest. The RESET batch, which ends with the next
program started, is one step.

### AlarmManager

`intent` is the intent word: sequence, active calls, reservation. `writer`,
`deferred`, `image`, `hasAlarm` and `updateCount` are the members of the class.
Producers call `Trigger` and some of them `Clear` too, holders take the admission in each of
its modes and act under it; what a holder captured is kept after BUSY and after a
completed admission and dropped after SUPERSEDED, as its callers do. `shown`,
`waiting` and `captured` are history and name the alarms the words stand for.

### CoreTimer

Three timers as `EtherCatMaster` has them, two of which arm themselves again in
their callback. A callback is delivered, admitted or rejected, looks for a stop,
arms its timer, works and leaves. The main thread closes all gates, cancels all
timers, then drains and deletes one after the other. Each call of RTX64 may fail
where the code expects it to.

### CancelFence, FeedbackChannel

Each access of the two words, or of the banks, is a step. In `CancelFence`
workers stand for queued requests: they capture the revision, check it and go on
or are fenced. A closed feedback or a full queue refuses the work; a cleanup request
is queued and applied whatever the fence has cancelled, and a fence that cannot be
read leaves the work where it is. In `FeedbackChannel` a word of a value is the number of the
publication it was stored for, which is all that can tell a mixture from a value.

### EDMRTShadow

The NC withdraws what it sent by three fences: the latest session, the sessions
cancelled, the commands neutralized. The consumer loads them one by one, before
and after each request it pops, and publishes what it applied with the fences it
saw; a store, a load, a push, a pop and a publication are steps. The ring and the
banks are taken as the queue and the register `SpscRing` and `FeedbackChannel`
show them to be. What the facts of a pass fit (lease, epoch, machine state) is a
set of sessions chosen for each pass.

### HomePersistence

One thread, but the file interface may fail at every call and the Core may end
between any two. Files are cut between records; a history line may be left as a
fragment to which the next write is joined. What a write returned is on the disk
when the Core ends: the model says nothing of a power loss that also takes the
cache of the operating system.

### HomeAxis

`commands`, `results` and `ledger` are the mailbox; the ledger has a row for each
residue of the sequence. A scan of the control thread is two steps, filing the
results and `HomingManager::Process`; the motion thread takes a command and checks
its lease, applies it, and publishes its result, each a step. HOME is one axis that
searches its index: it keeps the numbers of moves, controlled stops, the reference
commit and the last disarm of the probe, and forgets those of velocities and of the
stops of a search. Positions, limits, clocks and the arming of the probe are left
out: a search may find its index, and any scan may find an alarm, a limit or a
timeout and fail. A held ingress refuses a submission as a full ring does, and a
release is refused and repeated while the output is reserved. A program HOME took the
motion from gets it back; if it does not adopt the lease, an emergency stop contains it. SAFETY is
taken by the environment and given back when HOME is at rest, because RESET releases
it in scans in which HOME is processed.

## 3. Runs

| run | instance | shows |
|---|---|---|
| `transports` | ring: 3 slots, 2 values, 5 publications; driver: 2 frames, an index of 2 values, 3 submissions, 2 threads | the ring implements the FIFO; no frame is written while the card has it, none that may write outputs is overtaken |
| `motion_ownership` | 1 requester, 1 taker, 1 client, 2 alike ordinary owners, both kinds of request | what an owed request holds and which frames it stops, which tickets fence an owner, what an acknowledgement covers, when SAFETY is released |
| `safety_epoch` | 2 helpers, 1 publisher, 1 committer, the motion thread, 2 tickets | the handshake implements the takeover, and closes |
| `stops` | fence: 2 requesters, 1 worker, 2 sessions, 3 calls; RESET: 1 press, 1 stopper, 1 alarm or lost mapping | no stop is missed; an overtaken stop is not consumed, no evidence is lost, an action is cleared when it was posted |
| `reports` | channel: 1 reader, 2 words, 4 publications; alarms: 2 producers, one of which clears, 1 holder | the channel implements the register; an admission freezes its image, no alarm is lost |
| `home` | files: 2 axes, 3 HOMEs, 3 failures, 2 ends of the Core; axis: rings of 2, a ledger of 4 rows, 2 searches | flush and restart; a lease is returned when nothing can act under it |
| `polled` | shadow: 2 sessions, 2 commands, a ring of 2; RESET: 1 press, 1 stopper | what is read is current, a pass honours its fences; every submission, cancellation and press is answered |
| `liveness` | ownership: 1 requester, 1 client; timers: PDO, PLC, probe; axis: 1 search | every request is applied and every ticket acknowledged, the shutdown is safe and ends, a cancelled HOME ends |
| `alarm_superseded` | 2 producers, 1 holder | finding, below |
| `home_crash` | 2 axes, no failures, 1 end | finding, below |
| `reset_superseded` | no stopper, 2 presses, 1 alarm | finding, below |
| `home_pause` | 1 search, 1 hold | finding, below |

**Why the bounds are enough.** The ring goes round once and two thirds, so that
every length of push straddles the end of the array. In the driver two frames stand
for sixteen and an index of two values for 256: the answer of the first frame can
pass for that of the second while the third is sent, and the index comes round
through rejected calls that use one up. In the ownership and alarm models every
thread makes one call, but the motion thread and the holders repeat theirs, and the
two-thread races of each pair of calls are there, with a third party that may
interfere between any two steps; the second of two alike owners and a third
generation let a transfer happen. One slot in the alarm image and
one in the deferral make both overflow with the second alarm. A maximum phase of 7
is exhausted by the fourth stop. The channel closes after its fourth
publication, when each bank has been used twice; one reader is enough, because a
reader writes nothing that others see. Two attempts instead of four
give retrying and giving up. Two sessions and two commands are a replaced session
and a replaced command. Two crashes are what a damaged restart followed by another
one needs, and the third failure what it takes to restore a copy that was outdated
when it was made. Rings of two and a ledger of four rows stand for 256 and 512: the
ring fills, and a row is reused. `MaxRefused` stays below the difference of the two,
so that the result a HOME waits for is not overwritten by refused commands; in the
code the difference is 256 and a scan polls long before that many. It counts every
refusal that passes, those of a held ingress and of a reserved output too, so
`CancelRetires` assumes that they end. `MaxIncident` counts alarms, lost mappings and
retired presses.

**Fairness.** Liveness is checked under weak fairness of threads the scheduler
runs periodically (the 250 us thread, the callbacks, the main thread) and of
calls in progress, never of a requester's decision to call. Each run states it for
the component that moves:

* `MotionOwnership`: the motion thread and the calls in progress. `SF(RtSettle(TRUE))`:
  the axes of a controlled stop come to rest in the end, which is mechanics and not
  code, and the motion thread looks again and again.
* `CoreTimer`: the callbacks and the main thread. `SF(DeleteTimer)`: the code repeats
  the deletion until it succeeds, so `StopCompletes` says that the shutdown ends if
  callbacks return and the timer can be deleted at all.
* `SafetyEpochHandshake`: weak fairness only; whoever loses a compare-exchange has
  lost it to a step that went forward.
* `EDMRTShadow`: the pass of the consumer, and the NC's open, push, withdraw, read
  and acknowledgement, which it does in every scan until answered; a new submission is
  its own decision.
* `ResetControlledStop`: the motion thread, the polling NC, the alarm scan and the calls
  in progress; a press, an alarm and a request are not fair.
* `HomeAxis`: the scans of the control thread and the motion thread; strong fairness of
  coming to rest, as above; the SAFETY takeover HOME itself asked for happens.

Deadlock is checked where threads go on for ever. It is switched off where a
bound ends the calls, or where a machine with nothing to do is at rest.

## 4. Findings

* `alarm_superseded` (`AlarmManager.cpp:639`): a change of the intent word is said to
  denote a newer publication; the end of a `Trigger` whose alarm was already seen
  changes it too, and a RESET captured in between is refused.
* `home_crash` (`HomePersistenceManager.cpp:1414`): the snapshot is said to be written
  to a temporary file and replaced; it is truncated and rewritten in place, and the
  backup is not read at the start. `home` also shows what was needed to state
  `SequenceIsFresh`: a backup that could not be renewed is still put back after a failed
  write, older than the snapshot it replaces.
* `reset_superseded` (`NCManager.cpp:1474`): the phase of a superseded controlled stop is
  retired only by a press that finds the NC in `RESET_STATE`. After an alarm the press goes
  to the RESET batch with the phase still SUPERSEDED; the next RESET of a running program
  is blocked, without a stop, until it is pressed again.
* `home_pause` (`HomingManager.cpp:490`): a feed hold that finds the axis idle while the
  search velocity is still queued issues no stop and declares the axis paused; then the
  command is applied and the axis moves. The stop of a hold is said (line 504) to fence
  a move queued while the axis still reads idle; for a velocity none is sent.

Two things that are no findings, because the code that calls hides them. Without a
probe a cancelled search does not wait for its last velocity or stop, and
`ReturnedLeaseIsSettled` would not hold; `Cancel` is called by RESET only
(`NCManager.cpp:1719`), whose SAFETY takeover stops the axis and outdates the lease.
And `m_idx` of the driver is incremented by two threads without protection: two
datagrams may get the same index, and `SentInOrder` holds all the same.

## 5. Proofs

Eight modules prove type correctness, every safety invariant and every action
property that a passing run checks, and the three refinements, for every value of the
constants. Hardly any of those properties is inductive; each component has one
invariant (`IInv`, with a prefix where a module holds two components), checked with TLC
on the instances of the runs before it was proved, and one lemma for each action or
group of actions that keeps it.

| module | components | runs it covers |
|---|---|---|
| `Transports_proofs` | `SpscRing`, `NicTransmit` | `transports` |
| `MotionOwnership_proofs` | `MotionOwnership` | `motion_ownership` |
| `SafetyEpochHandshake_proofs` | `SafetyEpochHandshake` | `safety_epoch` |
| `Stops_proofs` | `CancelFence`, `ResetControlledStop` | `stops` |
| `Reports_proofs` | `FeedbackChannel`, `AlarmManager` | `reports` |
| `Home_proofs` | `HomePersistence`, `HomeAxis` | `home` |
| `EDMRTShadow_proofs` | `EDMRTShadow` | `polled`, with `Stops_proofs` |
| `CoreTimer_proofs` | `CoreTimer` | `liveness`, with `MotionOwnership_proofs` and `Home_proofs` |

* **SpscRing** (any capacity, batch limit, value set): `IInv` adds where the
  counters stand (`Window`: never more than a capacity apart, the write counter
  counts what was published, a push in progress fits in the room that is left),
  where the consumer's call stands (`Reading`: its target lies between the
  counters, its copy is the published value), and that values copied by a push in
  progress are in their slots. The arithmetic rests on one lemma: two sequences
  less than a capacity apart have different slots. `RingIsFifo` is the refinement:
  the queue is what lies between the counters, and each store of a counter is the
  step of the FIFO.
* **NicTransmit** (any number of frames, of calls, any span of the index, any behaviour
  of the network layer): one thread at most fills frames (`Exclusive`); what its scan found
  to be the application's stays so until the network layer gets the frame (`Found`); what
  is recorded of a frame is what the network layer has (`Recorded`); a queued frame that
  may write outputs is newer than all that went on the wire and than every other queued
  one (`Ordered`). Why an answer with a reused index does no harm (`Trusted`): as long as
  answers are trusted, one under way is the answer to the only image that awaits one; an
  image that came back unanswered ends the trust for good.
* **MotionOwnership** (any number of requesters, takers and clients, any set of
  ordinary owners): the revocation count is the number of calls between their first
  and their last step (`Counted`), and every ticket anybody knows has been given
  (`TicketsGiven`). An acknowledger that has read the count as zero for the last time
  saw a word older than the ticket of any requester that has yet to post, and after
  the mailboxes older than any that has posted (`CommitPassesNobody`): so the
  acknowledgement passes only what was consumed. A client that means to exchange
  the word holds one whose ticket is acknowledged (`ClientKnows`); one that passed
  the recovery flag, or the controlled stop, before either was set holds a word that
  is already gone (`ReleasesOutdated`), because the motion thread sees to it under
  the flag that a newer ticket than any acknowledged one is out (`LoadedUnderFlag`);
  the flag counts from the ticket on (`Recovering`), which the thread is refused as long
  as a release holds the word. A reserved word has one holder, a frame on its way or one
  release (`ReservedAlone`).
  Hence the lease the pass validated stays valid until it ends (`AuthorityHeld`),
  and SAFETY cannot be released under it.
* **SafetyEpochHandshake** (any number of helpers, publishers, committers, any number
  of generations and epochs): as long as the handshake of a generation is open and not
  fenced, only ordinary epochs follow the one its helpers claimed; who holds the epoch
  published last and may exchange it holds it because the handshake is still like that
  (`Predecessor`), and who acknowledges has seen the fence (`Confirming`). A helper of an
  older generation finds a claim or an acknowledgement of its own and stops there.
  `HandshakeImplementsTakeover` maps each step to a step of `SafetyTakeover` or to none.
* **ResetControlledStop** (any number of threads that request stops, of presses and
  incidents): the publisher count is the number of callers between their begin and their
  end, plus one while the motion thread is between its own (`PublishersAreCounted`).
  While the motion thread works off the mailboxes its recovery keeps SAFETY in place
  (`ApplyIsFenced`), and if the ticket it is about to complete is still the last one,
  nobody has yet to post (`CompletedIsPosted`). A press that was interrupted and is not
  superseded has the request still before it, or an alarm (`InterruptionIsUnderway`); of a
  completed one `PollsKnow` says, for each load of the NC's poll, where the interruption
  can still be after it: at the exchange only a raised alarm is left, and with one the NC
  does not consume. Evidence is in the mailbox, in the motion thread's hands
  or recorded (`MailIsWhole`, `EvidenceKept`), and evidence that is owed is of an epoch
  that was not recorded since (`EpochsAreOrdered`, `OwedIsNew`).
* **CancelFence** (any number of stopping threads and queued works, sessions,
  attempts, any maximum of the phase): the history `log` of effective stops gives
  the words their meaning. The phase is twice its length, plus one while a writer
  is inside (`PhaseCounts`), who is alone (`WriterAlone`); the sessions in it grow
  (`LogGrows`); and what a reader, a writer and a queued work hold in their local
  variables is a prefix of it (`ReadKnows`, `RequesterKnows`, `CallCovers`,
  `WorkerKnows`).
* **AlarmManager** (any set of producers and holders, any size of the image and of the
  deferred count): the writer flag has one owner (`OneWriter`), the active count of the
  intent word is the number of calls declared in it (`ActiveIsCounted`), and the
  reservation is one holder's: while it lasts nobody else gets to the writer flag, and the
  sequence tells whether anybody declared a call (`OneHolderReserves`). What a holder
  captured is what is shown as long as the update count has not moved, or a call is
  still unfinished (`Captured`); and what is deferred, what a call carries and what the
  image shows are the alarms that are waiting, under way and shown (`Carried`).
* **FeedbackChannel** (any number of readers, words, attempts, publications):
  an even sequence means a whole publication (`BanksWhole`), the writer is only
  ever in the bank that does not hold the latest one (`BankInProgress`), and a reader
  whose words differ will find the sequence changed; each attempt that failed has
  seen the writer go one publication further (`ReaderKnows`). `ChannelIsRegister` is
  the refinement: a read takes effect at its last load.
* **EDMRTShadow** (any number of sessions and commands, any capacity, any length of a
  pass, any facts): what the consumer does never leaves it active for a session or a
  command below the fences it has observed (`Coherent`); a command number travels with
  its session, so nothing in the queue or in a feedback of the present session is newer
  than the NC's own record (`Known`); the fences only rise, so those loaded in a pass
  are not below those that stood when it began (`Entered`).
* **HomePersistence** (any number of axes, HOMEs, failing calls, ends of the Core): a
  thread that is writing rows, or has nothing left to write, stands on a whole snapshot
  of what is in memory (`Standing`); as long as no restart met a damaged snapshot, the history has
  nothing above the greatest record of the memory, of a snapshot that is whole and of a
  backup that is fresh (`Fresh`); a HOME of this session
  is a line of the history or waits to be one (`Complete`).
* **HomeAxis** (any capacity of the rings and the ledger, any number of requests):
  commands are under way in the order of their numbers (`InOrder`), so what the ledger
  answers is below all that is under way (`AnsweredIsPast`); the lease of the request is
  that of the owner word, or outdated (`LeaseIsHomes`); the disarm that ends a request is the
  last command under its lease (`DisarmIsLast`), so once it is answered nothing of it is
  left. The
  ledger needs a lemma of its own, that a non-empty finite set of numbers has a greatest
  member. `ReturnsAreSettled` assumes a probe, for the reason given in section 4; the types
  and `AnswersAreFinal` do without.
* **CoreTimer** (any set of timers, one-shot or periodic, any order of closing
  and draining): a gate counts the one callback inside it and a callback about to
  enter has loaded an open gate (`GateCounts`); a timer that is gone is not armed and
  its callback can no longer enter (`MissingIsSilent`); an Owner is given up last
  (`OwnerLast`); and what the main thread has established of the timer it treats
  (`PhaseFacts`) and of those behind it (`Progress`). `OwnerOutlivesCallback` alone
  is not kept by a step: only a gate whose count is exact tells that the count the
  main thread read as zero leaves no callback between its two accesses.

Some theorems state what no run checks, because a property that is proved does not need
one: `QueuedValuesSurvive` and `CapacityProofSound` (ring), `StopsUnderSafety` and
`ReservationsHeldByOne` (ownership),
`ClosedGateAdmitsNobody` (timers), `OnlyTightens` (fence), `OnePublication` (channel),
`SpeedStaysEligible` (shadow), `AnswersAreFinal` (mailbox). The same holds of the types.

Assumptions are those the modules name: positive capacities, limits and attempts,
disjoint sets of threads, finite orders that list the timers they mean. None bounds the
number of threads: where they are counted, that only finitely many are inside is part of
the invariant.

**Model-checked only.** Liveness: `EveryTicketAcknowledged`, `EveryRequestApplied`,
`StopCompletes`, `CancelRetires`, `HandshakeCloses`, `CancelAcknowledged`,
`SubmissionSettled` and `EveryPressAnswered`. Their proofs would reason about fairness, and
so about ENABLED, which the provers cannot. The four counterexamples are found by TLC
and have nothing to prove. Everything else a run checks is a theorem.

## 6. Plan

1. `ServoOutputFrame`: proof captured in the motion thread, its check at the send
   point, the output hold of RESET. The hazard at `MotionCore.cpp:13783` belongs to it.
2. `MotionCommandPath`: `SpscRing` as its transport, replay, epoch filter, one
   terminal for each command. The hazard at `MotionCore.cpp:17983` belongs to it.
3. NC gates and boundaries; shared memory; the file of coordinates, with the failing
   file interface of `HomePersistence`.
4. `HomeAxis` with several axes in a group, switches and backoff.

## 7. Not modelled, and why

Floating-point planning, interpolation, kinematics, compensation and gap control:
their hazards are values. The interpreter and the parsers: sequential. The start
of the slaves, distributed clocks and the register accesses: one thread that stops
at the first failure. These are most of the repository's lines, so the models cover the
protocols between the threads and a small share of the text.

Within the components that are partly modelled: the planner work that an epoch
fences; the authorization of a release of SAFETY; fault resets and the steps of the
RESET transaction after its batch; the refusals of an invalid session or packet in the
EDM shadow, whose callers have made the same check; the local
ledger of the NC in the EDM shadow; manual and handwheel commands, and the exclusions
of the spindle and of collision in the axis mailbox; switches, backoff, groups of axes,
and the values of limits and clocks in HOME; `Open` and `Close` of the driver.

Wrap of generations, tickets and sequences: every counter
is a natural bounded far below its width, except where exhaustion is handled by
the code (`CancelFence`, `FeedbackChannel`) or an index is meant to come round
(`NicTransmit`), which is modelled. The HMI, the PLC program and the slaves are not in the
repository.
