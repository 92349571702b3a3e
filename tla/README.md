# A verification of the LG G2 device tree's native code

This directory holds TLA+ modules, TLC configurations and TLAPS proofs for the code of
`android_device_lge_g2-common`: the GPS hardware abstraction under `gps/`, which is by
far the largest program of the tree, and the smaller programs beside it (`liblight/`,
`camera/`, `recovery/`). Paths below are relative to the repository. Every module names
the files it is translated from; `PROJECT.json` maps every definition to its lines.

To parse, check and prove by hand, in this directory:

    tlasany AgpsNif.tla
    tlc -workers 2 -config AgpsNif.cfg AgpsNif
    tlapm Agps_proofs.tla

## 1. Inventory

Threads of the GPS stack. The *adapter's thread* is the one thread of a `MsgTask`;
nearly all of the engine's state is touched by it alone, so that one message processed
to its end is one step. The *framework's threads* enter through the HAL and queue
messages; a few entry points (`loc_eng_ni_respond`, `loc_eng_set_server_proxy`) touch
state directly. The *modem's library* calls back into `LocApiBase`, which forwards to
the adapters, which queue messages. *NI threads* are made one for each network-initiated
request, *timer threads* one for each timer, and one *daemon thread* serves the data
daemons' pipe.

| Component | Source | State | Operations | Talks to | What is hard | What makes it correct |
|---|---|---|---|---|---|---|
| AGPS connection manager | `gps/libloc_api_50001/loc_eng_agps.{cpp,h}` | state, list of subscribers | subscribe, unsubscribe, GRANTED, RELEASED, DENIED, flush on engine up | framework's connectivity service (callback out, messages in); modem (`requestATL`, `releaseATL`); the SUPL, WIFI and dual-stack users | stale answers crossing new requests, restarts | nobody waiting is forgotten; no release in use; every request gets an answer |
| Emergency SUPL data call | `DSStateMachine` in the same file | the above, `mRetries`, retry timers | the above, retry, fallback to the AGNSS machine | data services client, timer | retries that cross requests, refusals | no call up for nobody; a waiting connection is opened or falls back |
| Message task and queue | `gps/core/MsgTask.cpp`, `gps/utils/msg_q.c`, `linked_list.c` | list, `unblocked`, condition | send, receive, process, unblock, destroy | everybody | lost wake-ups, order | first in first out, each message deleted once, the thread exits when told |
| Positioning session | `loc_eng.cpp`, `LocEngAdapter.{cpp,h}` | fix criteria, `mNavigating`, mute, engine and session status, pending deletions | start, stop, mode, status, satellites, fix, delete aiding data, mute, engine down and up | framework, modem, NMEA | late reports, modem restarts, single fixes | engine, framework and modem agree on the session |
| Network-initiated requests | `loc_eng_ni.{cpp,h}` | two sessions, each with a mutex, a payload, an ID, a response | request, respond, NI thread, timeout, reset | modem, user, adapter's thread | checks outside the lock, timeout against response, restart | a request gets one answer, its own; payloads freed once |
| Location API base and adapters | `gps/core/LocApiBase.{cpp,h}`, `LocAdapterBase.{cpp,h}` | table of adapters, event masks, the modem's handle | add, remove, update mask, engine down and up | modem's library, adapters | masks that wait in a queue while the table changes; stale handles | the events asked of the modem are those the table wants |
| Timer | `gps/utils/loc_timer.{c,h}` | record with mutex, condition and state | start, stop, the thread | `DSStateMachine` | stop against timeout, freeing under a holder | a stopped timer is silent, another one fires |
| Data-connection daemon | `loc_eng_dmn_conn*.{c,cpp,h}` | two flags, condition, pipes | launch, read requests, answer, unblock, join | daemons (pipes), AGPS manager (messages, answers) | readiness, blocking reads, failures of steps | launch means ready; requests are served; an answer goes to who asked; stop ends |
| Lights | `liblight/lights.c` | three stored states, lock, two files | one setter for each light | framework's services | priorities, failing writes | the LED shows the most important lit light, the backlight what was asked for last |
| Recovery updater | `recovery/recovery_updater.cpp` | none beyond a call | `bm_search`, `verify_trustzone` | recovery script | shift tables | the first match is found |
| Engine start-up, settings | `loc_eng.cpp` (`loc_eng_init`, `loc_eng_reinit`, `loc_eng_set_server`, `loc_eng_configuration_update`), `LocEngAdapter` | the global `gps_conf`, `agpsStatus`, a buffered server, the power vote, the ULP proxy | read files, init, cleanup, update, set server, availability, reinit | framework, modem, ULP | globals read by another thread while they change; settings to renew after a restart | modem, ULP and record agree when all is quiet; an update keeps what is not the carrier's |
| HAL glue | `loc.cpp`, `gps.c` | callbacks, registration with the power manager | `get_gps_interface`, `loc_init`, `loc_cleanup`; forwarding | framework | few | as above; partly modelled with it |
| NMEA sentences | `loc_eng_nmea.cpp` | cached satellites and dilution of precision | generate for satellites, for a fix, blank | session, framework | a cache that outlives its fix; satellites of three systems in one list | a sentence shows its own fix, in the mode the modem is in; each satellite in view is told once |
| XTRA | `loc_eng_xtra.cpp` | two callbacks | inject, request | framework, modem | few | not modelled: forwards |
| Contexts | `gps/core/ContextBase.cpp`, `LocDualContext.cpp` | singletons | get | vendor library | few | not modelled: no state after start |
| Configuration, target, logging | `gps/utils/loc_cfg.cpp`, `loc_target.cpp`, `loc_log.cpp` | tables | parse, name | files | parsing in place | what a line does to the table is modelled with the settings, the cutting of text is not |
| Camera wrapper | `camera/CameraWrapper.cpp` | vendor's module, an array of strings that all cameras share | query, open, close, set parameters, forward | camera service, vendor's library | an array replaced under other cameras, failing steps | strings freed once, held devices open, a slow shutter dark |
| Radio shims, hardware hooks | `ril/`, `ril_shim/`, `cmhw/`, `hwaddrs/` | none of their own | override, read and write files | platform | few | not modelled: pure input and output |

The rest of the tree (overlays, init scripts, key layouts, audio and media profiles,
sepolicy, board makefiles) is configuration read by other programs.

How the GPS components interact:

* The modem asks for a data connection: `requestATL` becomes a message; the adapter's
  thread subscribes to `agnss_nif`, `internet_nif` or the dual-stack machine; the
  machine asks the framework, whose answer becomes a message.
* `DSStateMachine` starts a `loc_timer` when the service is busy; its callback queues a
  new request for the machine.
* A restart of the modem reaches `LocApiBase`, which queues the renewal of the handle
  and then tells the adapters; `loc_eng_handle_engine_up` flushes the AGPS machines and
  restarts the session, and `loc_eng_handle_engine_down` resets the NI sessions.
* The NI handler mutes one session in an emergency; the mute ends with a status report
  of that session.
* A daemon's request arrives on a pipe and ends as a subscription of `wifi_nif` or
  `internet_nif`; what the subscriber is told is written to the daemon's own pipe.
* A report of satellites fills the NMEA cache, which the next fix of the session uses.

`PROJECT.json` lists under `hazards` where each of these can go wrong, with the
properties that would notice.

## 2. Modules

| Module | What it is |
|---|---|
| `AgpsStateMachine` | one machine, with an arbitrary environment |
| `AgpsPromise` | what it promises: an interface held or not, and what each subscriber was last told |
| `AgpsNif` | the machine composed with the framework's service and the message queue between them |
| `Agps_proofs` | their theorems |
| `DSStateMachine`, `DSStateMachine_proofs` | the emergency SUPL machine with its data service, timers and queue, and theorems |
| `MsgTask` | the task's thread and its queue, with the condition's wake-ups |
| `Mailbox` | what it promises: messages in order of their tickets |
| `LocEngSession` | the engine's session with framework and modem |
| `LocEngNmea` | the caches and kinds of NMEA sentences, operators of which `LocEngSession` makes its steps |
| `LocEngSession_proofs` | theorems on the session |
| `LocNi`, `LocNi_proofs` | the NI sessions, threads, user and adapter, step by step between locks, and theorems |
| `LocApiBase`, `MCLocApiBase` | the table of adapters and the modem's handle |
| `LocApiBase_proofs` | its theorems |
| `LocTimer` | one timer, its thread and those that stop it |
| `DmnConn` | the daemon thread, its owner, the daemons and the adapter that answers them |
| `Threads_proofs` | theorems about the message task, the timer and the daemon thread |
| `Lights` | the LED and the backlight |
| `LocEngConfig`, `LocEngConfig_proofs` | start and settings: the framework's thread, the adapter's thread, the modem and the ULP; theorems |
| `CameraWrapper` | the camera module between service and vendor |
| `BoyerMoore` | the search of the recovery updater |
| `NmeaGsv` | the satellites in view, cut into sentences |
| `MCDevice` | lights, camera, search and satellites in view, for TLC |
| `Device_proofs` | theorems about its parts |

Correspondence. Variables keep the names of the fields they stand for (`mState`,
`mRetries`, `mNavigating`, `rawRequest`, `respRecvd`, `thread_exit`, `g_lock`, ...). One
operation, handler or message that runs to its end on one thread is one action
(`SubscribeRsrc`, `OnRsrcEvent`, `StartFix`, `EngineUp`). Where several threads share
state, a step is what runs between two points at which another thread can interfere: a
lock and its unlock, a wait, or a read or write without a lock (`RespondChecks` and
`RespondWrites`, `NiTakes` and `NiSends`, `StopChecks` and `StopLocks`, `ReinitReads`
and `ReinitSends`). Comments headed *External* mark the actions of the modem, the
framework, the data service, the daemons and the vendor's library, which are taken from
how the code uses them. Operators whose comment begins with *Mutant* are mistaken
versions of the operator that follows them: with each of them in place of it the named
property fails, which shows that the property depends on that code.

Variables marked *history* serve properties only. They, and variables that are chosen in
`Init` and never change (`mEnforceSingleSubscriber`, `target`, `library`), stand in for
several configurations: `LocNi` has behaviours with restarts and with responses that
cross the end of a wait in one run, and a property that needs their absence says so
(`reset = {}`, `~crossed`).

What is abstracted. In the AGPS modules the list is a function from subscribers to their
listing, as no operation depends on its order; in `DSStateMachine` it is a sequence, as
the first active one is served. What a fix, a mask, a notification or a message carries
is reduced to what the code branches on. Time is left out: a timer may expire once it
runs. Allocation failures are left out, but in `CameraWrapper` and the start of
`LocTimer`, where the code handles them step by step. What `CameraWrapper` does after it
has used a bad pointer is undefined, and the model stops there.

## 3. Runs

| Run | Configuration | Question |
|---|---|---|
| `agps` | `AgpsNif.cfg` | the three machines: `agnss_nif` or `internet_nif` with three subscribers and more, `wifi_nif` with one at a time that waits for its close: is anybody forgotten, is the promise kept, is every request and every close answered, across stale answers, losses and restarts |
| `ds` | `DSStateMachine.cfg` | three connections, every answer of the data service, four retries: is a call ever up for nobody, is a lone connection answered |
| `msg_task` | `MsgTask.cfg` | four messages, deletion at any time: order, one delete each, no lost wake-up |
| `session` | `LocEngSession.cfg` | single and periodic sessions, mutes, deletions, five kinds of fixes, two crashes: do engine, framework, modem and NMEA sentences agree |
| `session_single` | `LocEngSessionSingle.cfg` | what the sentences of the fix that ends a session say of its mode (a violation) |
| `ni` | `LocNi.cfg` | two requests in two sessions, responses, timeouts and restarts in any order |
| `ni_reset` | `LocNiReset.cfg` | the comment on a restart, which the code does not live up to (a violation) |
| `loc_api` | `MCLocApiBase.cfg` | three adapters, a table of two, two crashes, both kinds of library |
| `timer` | `LocTimer.cfg` | two stoppers, wake-ups without a signal, a slow holder |
| `dmn` | `DmnConn.cfg` | launch, three requests of two daemons, their answers, stop, every failure |
| `device` | `MCDevice.cfg` | all calls of all lights with failing writes; two cameras with every failure; the string that is really searched for and all short patterns without a border; reports of up to nine satellites |
| `config` | `LocEngConfig.cfg` | three calls around the start, updates that cross renewals, a restart: do modem, ULP and record agree |

Bounds, and why they are enough.

* `agps`: `MaxOutbox = MaxInFlight = 4` requests and answers in flight. A stale answer
  and a fresh one of each kind fit, and the machine's own next request. Three
  subscribers that are told at once give a holder, one that leaves and one that comes;
  two that wait for their close give a holder and one that is turned away. The
  invariants are proved for all values.
* `ds`: three connections (one that is served, one that falls back, one that comes
  late), three messages and two timers at once; `MaxRetries = 4` is the code's own.
* `msg_task`: four messages; the theorems hold for any set.
* `session`: two crashes, because the second of them finds what the first left behind.
  `MaxInbox = 4` messages less one for each crash wait before everybody falls quiet: a
  start, a stop and another start can wait together, or a start and a stop behind a
  report of the session before.
  The framework deletes aiding data and an emergency mutes only while at most `MaxBefore
  = 1` message waits, which still lets either cross one message of any kind. One mode
  and one kind of aiding data; `LocEngSession_proofs` holds for any number of them and
  any queue. Five kinds of fix, one for each way in which `loc_eng.cpp` treats one.
* `session_single`: no crash and one kind of session are enough for the shortest
  counterexample.
* `ni`: two requests, so that one thread may meet the other's payload in the same
  session or in the other one.
* `loc_api`: three adapters that may be permuted (nothing tells them apart, and
  `Symmetry` is sound for invariants and for `OnlyDeletedLeave`, which mentions no
  adapter by name), two of whom fit in the table; two events that are asked for and one
  that is excluded; two crashes.
* `timer`: two stoppers, of which one may hold the mutex that the other wants; six tries
  are the code's own.
* `dmn`: two daemons, three requests: two that are in flight together and one that comes
  after.
* `device`: a behaviour is one of one of four parts. They share no state, so that
  interleaving them would add nothing that a property could see. Of the lights: a black,
  a colour, and a black whose alpha byte is set; delays zero and not zero; of the
  backlight white, which needs the whole range of the brightness, and blue. Of the
  camera: two cameras, one of which may be opened while the other is in use, and two
  names that are out of bounds. Of the search: all cuts and all single errors of the
  real string; all strings over two letters up to four and seven characters. Of the
  satellites: three sentences of one system, and both ends of every range.
* `config`: the start is one call, which leaves an update and another call to cross it
  and each other; nobody calls while two messages wait, so that every message can still
  meet one more call, one more crash or the renewals of a restart. One mode, as the bits
  of MSA and MSB are treated alike; one server's name, as a name that is lost shows as
  no name.

Fairness. It is stated for threads that the code keeps running and for answers that its
contracts promise, and for nobody who merely may act: subscribers, users, crashes,
failures and spurious wake-ups are never forced.

* `NFairSpec`: the framework answers what it was asked (the HAL's contract on
  `agps_status_cb`), and the adapter's thread processes messages.
* `DSStateMachine!FairSpec`: the adapter's thread, a timer that runs, and the data
  service's report on a call that starts or stops.
* `MsgTask!FairSpec`: `loopMain` runs. `LocNi!FairSpec`: the three kinds of thread run,
  a wait ends at its timeout at the latest.
* `TimerFairSpec` of `LocTimer`: the delay passes, a holder of the mutex lets it go; the
  thread's steps are strongly fair since it competes for a mutex with others.
* `DmnFairSpec` of `DmnConn`: the owner's launch, the server's steps, the second half of
  the owner's stop once it has begun, and its join. Whether the owner ever stops is
  open.

Deadlock is checked in the `agps`, `session`, `session_single` and `loc_api` runs. The
other systems may really stop: a search or a report is done, a task exits, a timer ends,
a server waits for a message for ever, requests and connections run out.

What the properties say that is not obvious:

* `WaitIsAnswered` (`PendingIsAnswered`, `ReleasingIsAnswered`): a machine that waits
  always has on its way an answer that ends the wait, whatever stale answers come first;
  this is why `Answered` holds, of requests and of closes.
* `AcquiredIsLeased`: belief and fact about the interface agree but for news that is
  already queued.
* `KeepsPromise`, `IsMailbox`: refinement of `AgpsPromise` and `Mailbox`.
* `CallMatchesMachine` (`CallIsWanted`, `AcquiredHasCall`): a call that is dialled or up
  has an active connection in the list, and as long as every start has succeeded one
  that the modem can still close; a machine that is Acquired has its call.
* `TaskIsSound` (`MsgTask`): what was sent is queued, in hand or processed, and deleted
  once.
* `FrameworkAgrees` (`NavigatingIsTold`, `EndIsTold`) and `ModemAgrees` (`NoLeakedFix`,
  `SessionRuns`, `SessionHasMode`): the ways in which engine, framework and modem may
  disagree about a session. `EndIsTold` speaks of a modem that has stopped: a fix of an
  earlier session may end a new session for one fix, with which the modem goes on.
* `DeletedWhenOff`: a deletion that waits for the engine to be off is carried out,
  unless a later one took its place or the modem crashed. `MutedForSession`: a mute does
  not outlive its session.
* `NmeaAgrees` (`ShowsOwn`, `LabelsMode`): no sentence shows the satellites or the
  precision of an earlier fix, over rejected fixes, mutes, crashes and new sessions, and
  all sentences of a fix name the mode that the modem is in. The first rests on an
  assumption about the modem, which is external: a fix by satellites comes after the
  report of those that it uses (`loc_eng_nmea.cpp:793` says as much), and each report
  has one fix at most.
* `OneOwner` (`AnswersOwnRequest`, `FreedOnce`), `AwaitsUser`, `SilenceMeansEmergency`,
  `NoLeak`: what becomes of a request and its payload.
* `HandleMatchesTable` (`EventsAreOpen`, `OnlyWantedOpen`, `RenewedBeforeUp`): the modem
  is asked for what the table wants, and for nothing else, and an adapter that is told
  of the modem's return restarts its sessions with the new handle.
* `RecordIsSafe` (with `HolderIsSafe`): the timer's `EBUSY` loop protects a holder of
  the mutex until its last try.
* `LaunchIsSound` (with `LaunchedIsReady`, `AnswersAreOwn`): a launch that succeeds has
  found its pipes if they could be made, and a daemon is told only about what it has
  asked for, although answers carry no name and several daemons share an interface.
* `CameraIsSound` (`HeapIsSound`, `HeldIsOpen`, `SlowIsDark`): over opens, closes,
  failures and settings of all cameras, strings are freed once, a held device is open,
  and the back camera has no flash with a slow shutter.
* `GsvIsPartition`: each satellite in view is in one sentence of its system, and the
  sentences are numbered as their count says.
* `LightsAreRight` (`LedShowsHighest`, `AttentionEnds`, `BacklightIsShown`): the LED
  shows the most important light; between two calls for the backlight the brightness in
  its file is that of the last call, and lies within the channels of what was asked for,
  so that white is 255 and a grey is shown as it is. A file whose last write failed
  (`stale`) is excepted.
* `CameraIsSound` (`HeapIsSound`, `HeldIsOpen`, `SlowIsDark`): strings are freed once
  and none is used after that; a device that is held has its vendor's device and the
  vendor's module, without which a close would count no cameras and free no string; the
  back camera has no flash with a slow shutter. The first leaves out two cameras that
  are open at a time, the second a device that was opened when memory ran out (section
  5): what it says of the rest is about the order of the steps and their failures.
* `ModemIsConfigured`, `UlpAgrees`: every change of a setting, whether it came before
  the start, in an update or during a restart, reaches modem and ULP. `untold` is the
  set of exceptions that the code has: a value that the adapter's thread had read before
  it changed, or while an update had it changed for a moment; data availability without
  an access point's name; server and lock, which a restart does not renew, and a server
  that came before the start. A later message or renewal of the same item ends its
  exception.
* `OwnIsKept`: an update changes for good only what is the carrier's.

## 4. Proofs

All theorems hold for every value of the constants; the assumptions they use are the
`ASSUME`s of the modules (`WaitersAssumption`, `BoundAssumption`, `NifAssumption`,
`DSAssumption`, `NiAssumption`, `LightsAssumption`, `SessionAssumption`,
`ConfigAssumption`, `LocApiAssumption`, `TimerAssumption`, `DmnAssumption`,
`InputsAssumption`, `ReportsAssumption`). But for one they say no more than what the
constants are: that a bound is a number, that a kind is one of those the code knows. The
one is `InputsAssumption`: the search is claimed to be right only for patterns of which
no suffix is a prefix (section 5 has a pattern for which it is wrong). The pattern in
use, `TZ_VER_STR`, is among the inputs of the run, which thereby checks that it is such
a pattern.

* `Agps_proofs`, on `AgpsStateMachine`. `IInv` joins the type, `ReleasedIsEmpty`,
  `ListMatchesState` (an inactive subscriber is listed in Releasing only, and Releasing
  happens to the machine of a single subscriber only, whose list it keeps occupied),
  `OneSubscriber`, `ListedAreClients` (nobody is listed in a machine that is not theirs)
  and the three properties on who is remembered. None is inductive alone: that a GRANTED
  reaches everybody who waits needs to know that nobody listed in Pending is inactive,
  and that a RELEASED forgets nobody needs to know who can be listed in Releasing. One
  lemma for each operation shows that it preserves `IInv`; the theorems follow.
  `NeverReleasedInUse` is an action property drawn from `IInv` and the operation that
  appends a RELEASE. `PromiseKept` maps every operation to a step of `AgpsPromise` or a
  stutter.
* `Agps_proofs`, on `AgpsNif`. `Composition` shows that the composition implements the
  machine's own specification, so that its theorems carry over. `NIInv` adds to
  `PendingIsAnswered` and `AcquiredIsLeased` what backs them: `GrantIsBacked` (a GRANTED
  that is queued speaks of an interface that is up, or a RELEASED comes behind it) and
  `ReleaseIsBacked` (a RELEASE that is on its way will find an interface to close, and
  so is not passed over in silence). Lemmas on queues (`InQueueAppend`, `InQueueTail`)
  carry the argument that taking the head of a queue leaves the answer that is needed.
* `DSStateMachine_proofs`. `CallMatchesMachine` compares the machine with a call that it
  knows by reports only. `CallIsFollowed` says for each state of the call which state
  the machine is in and which reports wait, once each and in their order
  (`ReportsInOrder`). That somebody can still close the call rests on the history of
  each connection: as long as every start succeeds it is asked for once and released
  after that (`AskedOnce`), and whoever is listed is open, wanted or about to be
  released (`SmoothIsOpen`). `FirstActive` finds the connection that is served by the
  well-foundedness of the order on places.
* `Threads_proofs`, on `MsgTask`. `TaskIInv` says that the list holds consecutive
  tickets up to the last one given (`Numbered`), that the message in hand comes before
  them (`InHand`), that tickets are unique (`Tickets`) and that nothing is flushed while
  the thread runs (`DoneFirst`). `Accounted` follows, and so does the refinement
  `TaskIsMailbox`: what has a smaller ticket than the message in hand is neither queued
  nor in hand, hence done.
* `Threads_proofs`, on `LocTimer`. `RecordIsSafe` speaks of who holds the mutex of a
  record that is freed; `HoldersAreRight` has the mutex name its holder until the last
  try to destroy it, which is the one that may fail, and `NotBeforeStart` has nobody at
  the record before its start returns. `EarlyStopIsSilent` speaks of the end only: on
  the way there the result is the thread's own while it waits (`ResultIsLocal`), and a
  stop that came in time is seen before the wait or ends it (`EarlyStopIsSeen`).
* `Threads_proofs`, on `DmnConn`. `LaunchIsBacked` gives for each step of the launch the
  flag or the pipe that backs it. An answer goes to who asked because the request
  carries the right name wherever it is (`NamesAreRight`), and no answer is made up
  because requests are only moved (`NothingMadeUp`): what is in the pipe, in the
  adapter's queue, answered and refused was written, but for the one wake-up of the stop
  (`OneWakeUp`).
* `LocNi_proofs`. A session, its thread and its payload move together while the modem
  does not restart (`SessionIsOwned`): the session is the thread's until it has left
  with the request, and the thread takes nothing else. `SilenceIsJustified` needs no
  such condition: IGNORE is the only word that leaves a request unanswered, and follows
  it from the user's answer to the thread (`IgnoreMeansEmergency`), while a thread that
  is done has answered what it took (`DoneIsAnswered`). `UserIsAwaited` follows a
  response from its unlocked check (`ResponseIsAwaited`) to the record (`FlagIsOwn`) and
  to the thread (`WordIsOwn`).
* `Device_proofs`, on `Lights`. `LightsIInv` says that the LED's file holds the pattern
  of the light that is first now, unless a call is between its store and its write or
  the write failed (`LedIsPrioritized`), that an attention without times was stored
  without its colour (`AttentionStored`), and that the brightness that a call is about
  to write, or has written, is that of what was asked for (`BacklightIsWanted`). That it
  lies between the least and the greatest channel, and so is a byte, follows from the
  weights 77, 150 and 29, which add up to 256 (`BrightnessBetween`).
* `Device_proofs`, on `CameraWrapper`. What keeps the memory sound when cameras are
  opened one at a time is said by `Calm`: an open finds no device, so that nobody uses
  the array it replaces; one device is held at most, and while it is, each pointer of
  the array is NULL or a string. `PassedIsHeld` and `PendingIsDark` follow a set of
  parameters that is on its way to the vendor.
* `Device_proofs`, on `BoyerMoore`. `SearchIInv` says that no match is behind the window
  (`NothingPassed`). That a move keeps this is `SkipIsSafe`: the distance from the
  window to the next match is allowed by both tables (`Delta1Allows`, `Delta2Allows`),
  and the move is the larger of what they give. `Delta2Allows` is where the border of a
  pattern would break the proof. That the window advances is `Delta2Advances`.
* `Device_proofs`, on `NmeaGsv`. `GsvIsPartition` speaks of the end. `Filling` says of a
  system whose sentences are being made that those made hold what was passed, and that
  what is left is what the sentences left can hold, the last of them filled by one at
  least; `FillStep` adds a sentence. The argument counts: a place in the list is not
  left and told at once (`ViewIsFinite`, `RowsHoldAll`).
* `LocEngConfig_proofs`. `KeptIInv` says that an update in progress holds the values to
  put back (`OldIsLoaded`): the record itself is wrong for that while, so that
  `OwnIsKept` alone is not inductive. `ModemIsConfigured` speaks of the moment when
  nothing is on its way; `ItemsAgree` says of every moment that the last message about
  an item, or the modem if there is none, has its last value (`Agrees`), unless the item
  is to be renewed, or was overtaken (`Excused`). `PowerAgrees` says so of the vote for
  power, which is told at once. `UlpFollows` follows the capabilities from the request
  for the proxy to the message that carries it to the engine, and `OneProxy` that there
  is one of them, so that what is sent to the one in use is not lost.
* `LocEngSession_proofs`, first half. `FrameworkAgrees` and `DeletedWhenOff` compare
  what engine and framework believe when nothing is on its way; in between they differ
  by what is queued. `IInv` therefore follows the queue: a fix has the end of its
  session behind it (`FixesEnd`), a session that is over and that the framework believes
  in has its end ahead (`UntoldEnds`), an engine that is on, or is reported so, has its
  going off ahead (`OnEnds`, `EngineEnds`), and aiding data that are to be deleted wait
  in the engine or in the queue (`AidsWait`, `OwedIsKnown`).
* `LocEngSession_proofs`, second half. `SInv` adds `ModemInv` and `FixBacked`. Of the
  first, that a session that is open runs (`Runs`) is excepted while the news of the
  modem's return is still to be handled, of which there is one at most (`OneUp`); that
  it runs in a mode (`HasMode`) rests on what a start finds (`StartsFollow`): a start
  stands right behind its mode in the queue, or the mode has just been processed and no
  restart has come between. `FixBacked` says that the last of the messages before a fix
  that could empty or age the cache is the report of its own satellites, or that the
  cache is `Fresh`, or that neither will be shown. Lemmas on places in a queue
  (`PlaceAppend`, `PlaceTail`) carry both.
* `LocApiBase_proofs`. The properties speak of a queue that is empty; `IInv` says what
  each queued message will do. With a library that adds to its mask, everything wanted
  is open or carried by a message (`OpenIsQueued`), unless a renewal waits. With one
  that replaces it, only the last message that sets the mask counts, and it carries what
  the table wants now (`LastIsWanted`). A stale handle has its renewal in the queue once
  the modem is back (`StaleIsRenewed`). `RemovedTable` shows that the last adapter takes
  the place of the one that goes and nobody is lost, for tables of any size.

What is only model-checked. Liveness and fairness (`Answered`, `Stops`, `NoLeak`,
`ThreadsExit`, `FiresUnlessStopped`, `LaunchReturns`, `StopsAndJoins`,
`RequestsAreServed`), which the prover cannot do. No other property of a run that passes
is without a theorem.

## 5. Where the code and its comments disagree

The runs `ni_reset` and `session_single` show two of these; the others were met while
modelling, and the properties state the conditions that leave them out.

* NI, restart (`loc_eng_ni.cpp:289`). A comment (`:239`) says that the reset makes the
  thread of a dead request "exit without calling sending data". The thread wakes later;
  if a new request is in `rawRequest` by then, it sends that one. Under a restart a
  payload may also be freed twice (`:294` against `:245`).
* NI, response against the end of the wait (`:384`). The session is checked without its
  lock and written under it. A response that loses the race against a timeout, or
  against the IGNORE for a session that gives way to an emergency (`:391`), stays and
  answers the next request; `AwaitsUser` holds when `~crossed`. The second of these came
  up in the proof: without it in `crossed` the invariant is not inductive.
* NI, after the unlock (`:260`). `reqID` and `respTimeLeft` are cleared when they may
  belong to the next request, which can then be answered by nobody.
* NI, emergency (`:391`). IGNORE is a word in `resp` that a later response or timeout
  overwrites, and an answer goes out that a comment (`:387`) says should not.
* AGPS (`loc_eng.cpp:2784`). The flush on engine up leaves the state of a machine: in
  Pending a GRANTED follows, and the interface is kept for nobody until the next
  subscriber has come and gone (`loc_eng_agps.cpp:453`, `:288`).
* Subscribers that leave (`loc_eng_agps.cpp:347`, `:719`). The subscriber that is to be
  told is the one in the list. `notifySubscribers` deletes it and searches on for
  another one: those that are left compare themselves (`forMe`, `:97`) with the deleted
  object. As long as the memory has its old content nobody equals it, since
  `addSubscriber` lets no equal ones in; `Remove` stands for this outcome.
* Emergency SUPL (`loc_eng_agps.cpp:893`). A connection that waits for a retry, or has
  fallen back, is in the list of a Released machine (a comment at `:288`, on a release in
  Released, has the list empty: "nothing to remove"). When it is released there, or by
  the AGNSS machine, it stays in the list; the retry that is still to come, or the next
  connection, brings up a call for it, which no release takes down. `CallIsWanted`
  leaves this out (`smooth`: every start has succeeded). After a close
  (`:563`) the answer of the data service is ignored, and the machine may wait in
  Pending for a call that nobody started (a comment at `:276` has it retry in Released).
* Aiding data (`loc_eng.cpp:1344`, `:2792`). A second deletion replaces a first that
  waits, and after a restart the engine counts as on, so that a deletion waits although
  it is off; the documentation of the function (`:2052`) promises both.
* Position mode (`loc_eng.cpp:2798`). The copy that a restart sends to the modem is
  marked invalid afterwards, and a second restart sends it so; `SessionHasMode` holds
  for one.
* Mode of a single fix (`loc_eng.cpp:815`). The fix that ends its session is processed
  by `setInSession(false)`, which sets the mode to INVALID, before its sentences are
  made: in standalone mode they say `D`, where "A means autonomous"
  (`loc_eng_nmea.cpp:270`). The run `session_single` shows it.
* Fix of an earlier session (`loc_eng.cpp:805`). It carries no session: processed after
  the start of a new session for one fix it ends that one, and the modem goes on.
* NMEA caches. A second mute in a session that is muted sets the mute back to waiting,
  so that it hides nothing until a session begins; when it comes between a report of
  satellites, which was hidden, and its fix, which is not, the fix shows the satellites
  of an earlier one. `ShowsOwn` leaves it out (`"remuted"`). Intermediate fixes get full
  sentences when they are accepted, though a comment (`loc_eng_nmea.cpp:562`) has "blank
  NMEA reports for non-final fixes".
* Timer (`loc_timer.c:83`). One `timedwait` outside a loop: a wake-up without a signal
  counts as a stop, and the callback never comes. `loc_timer_stop` reads and locks a
  record that the thread may have freed (`:194`, against `loc_timer.h:55`); a start that
  fails returns the address of a freed record (`:188`, against `loc_timer.h:48`).
* Daemon (`loc_eng_dmn_conn_thread_helper.c:128`). The wait is under an `if`: a spurious
  wake-up lets the launch succeed before the pipes exist. One read that fails ends the
  server, though the log (`loc_eng_dmn_conn.cpp:138`) says "retry later". Pipes that
  cannot be made are not noticed, and the launch counts as successful.
* Search (`recovery_updater.cpp:76`). The shift table compares `pat + p` where it
  assigns for `p + 1`: for a pattern with a border, such as `aba` in `aaaba`, a match is
  passed. The only pattern in use has none, and is searched for correctly.

* Camera (`CameraWrapper.cpp`). `camera_device_open` replaces the array of strings that
  the other open cameras use, and `camera_device_close` frees the strings of all cameras
  and leaves their pointers: a camera that is open beside another one uses and frees
  strings that are freed. `HeapIsSound` holds while one is open at a time (`~crowded`).
  When there is no memory for `camera_ops` the vendor's device stays open for nobody
  (`HeldIsOpen` excepts it). The check of the camera's number lets the one through that
  is one too large, and the vendor refuses it.
* Servers (`loc_eng.cpp:1660`). `loc_eng_init` clears the record in which
  `loc_eng_set_server_proxy` has buffered a server that came first, though its
  documentation (`:2505`) says that the buffer is for `loc_eng_set_server` "when the
  client is open". `supl_host` is thus always empty when `loc_eng_agps_reinit` looks,
  after a restart too.
* Updates (`loc_eng.cpp:2651`, `:1714`). The record is parsed in place while the
  adapter's thread may read it; what it reads then stays in modem and ULP. An update
  between `requestUlp` and the arrival of the proxy sends its `LocEngSuplMode` to the
  proxy that `setUlpProxy` deletes (`LocEngAdapter.cpp:129`).

* Access point (`loc_eng.cpp:2321`). `loc_eng_agps_open` ignores a NULL access point and
  answers nobody; the service of `AgpsNif` (`Grant`) names one.

## 6. Plan

Done, in the order of their importance: AGPS manager, message task, NI requests,
emergency SUPL, session with its NMEA sentences, API base, timer, daemon with its
requests and answers, settings, camera, lights, search, satellites in view.

Next, components and compositions:

1. Routing of `LocEngReleaseATL` over several machines (`loc_eng.cpp:1193`): a
   composition of `AgpsStateMachine` instances with `DSStateMachine`, and the fallback
   between them.
2. A composition of timer and emergency SUPL, with a timer that may be lost.
3. The registration with the power manager in `loc.cpp`, and the stop in
   `loc_eng_cleanup`.

A composition takes the place of the run of its parts where it asks the same questions,
so that the number of runs stays small.

Next, theorems: those of the compositions above. What is safety in the present modules
is proved; no module declares a RECURSIVE operator.

## 7. Not modelled

Contexts, XTRA, radio shims and hardware hooks have no state of their own after their
start, or only forward. The text of NMEA sentences and logs, with checksums and lengths,
is formatting; of camera parameters only what the wrapper looks at is kept. The framing
of messages in the daemons' pipes is left out of `DmnConn`: a message is read whole or
not at all; so is the code for a test by hand (`DEBUG_DMN_LOC_API`). In `LocEngConfig`
certificates, the sensors' constants and the servers that are not SUPL are left out:
they are sent like those that are there. ZPP requests, the ULP session and the stop in
`loc_eng_cleanup` are left out of `LocEngSession`. The same function has the stop and
the join of the daemons' server under `#if 0` (`loc_eng.cpp:1801`): `DmnConn` models
them as the code that is there, with an owner that nobody is at present. `retryCallback`
reads the list of the emergency machine on the timer's thread without a lock
(`loc_eng_agps.cpp:842`): a race on the nodes of a list, which `DSStateMachine` replaces
by a read between two messages.
