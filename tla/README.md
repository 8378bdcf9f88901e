# sane_in_the_membrane: specification and proofs

sane_in_the_membrane shares the scanners of one machine over the network. A
**server** owns the scanners (through SANE) and offers them over gRPC; a Qt
**client** finds the server with mDNS, lists its scanners, scans pages, lets the
user reorder, turn and delete them, and writes a pdf. This directory models the
program in TLA+, checks the models with TLC on small instances and proves
theorems about them with TLAPS.

File names below are relative to `src/`.

## 1. The system

### 1.1 Parts, their state and their operations

| Part | Code | State | Operations |
|---|---|---|---|
| SANE device wrapper | `sane_wrapper/src/SaneDevice.cpp` | `m_handle`, `m_current_state` | open, start, read, cancel, close |
| mock backend | `sane_wrapper/mock/SaneMock.cpp` | one handle per name: open, started, cancelled, bytes read | `sane_*`, with two assertions |
| Scan RPC | `server/src/Reactors/ScanResponseReactor.cpp` | `m_byte_data`, `m_buffer`, `m_finished`, what gRPC has outstanding | constructor, OnWriteDone, OnCancel, OnDone |
| scanner list of the server | `server/src/Service/ScannerService.cpp`, `sane_wrapper/src/Sane.cpp`, `utils/src/SynchronizedAccess.hpp` | `m_devices`, `m_last_device_fetch`, `CSane::m_devices`, two locks | GetScanners, Scan, RefreshScanners |
| server start and shutdown | `server/src/StartupOrchestrator.cpp` | five threads, `m_grpc_server`, stop flags | start, init_shutdown, wait |
| Avahi registration | `server/src/mDns/AvahiServiceRegistration.hpp` | service name, collision count, restart loop | start, shutdown, client and group callbacks |
| control socket | `server/src/IPC/IPC.cpp`, `serverctl/src/main.cpp` | `m_shutdown`, port | accept, answer, shutdown |
| scan client | `gui-app/src/Readers/ScanResponseReader.cpp`, `Ui/Scan/ScanButton.cpp` | context, `m_in_progress`, file, parameters, button | scan, OnReadDone, OnDone |
| scanned pages | `gui-app/src/Ui/ImageView.cpp` (CImageItem, CImageItemManager, CImageItemContainer) | `m_items`, the layout, each page's number and transform | add, remove, move, turn |
| document, session, quitting | `gui-app/src/Ui/ImageView.cpp` (CImageView), `Service/SessionService.cpp`, `Ui/MainWindow.cpp` | session file, `m_session_saving_disabled`, modified flag | scan done, save pdf, restore, close |
| discovery worker | `gui-app/src/Utils/mDNS/mDnsAutoFind.cpp` | worker thread, condition variable, stop and interrupt flags | discover, interrupt, destructor |
| mDNS queries | `gui-app/src/Utils/mDNS/mDns.cpp` | sockets, partial results | discover_services, query_services |
| channel watcher, change of server, light | `gui-app/src/Service/ChannelStateChangeService.cpp`, `Utils/Globals.hpp`, `Utils/ServiceProxy`, `Ui/SemaphoreWidget.cpp` | watcher thread, failure count, current services, state shown | start, stop, change_channel |
| scanner list of the client | `gui-app/src/Service/{GetScannersService,RefreshScannersService,DeviceList}.cpp`, `Ui/Select` | items shown, button | get, refresh, answers |
| file names | `gui-app/src/Service/{UniqueIdGenerator,FileManger}.cpp`, `Utils/File.cpp` | thread-local sequence | id, temporary files |
| left aside | `mdns.h` (DNS packets), `Pdf.cpp`, OCR process, logging, icons, dialogs, toolbars | | |

### 1.2 How they interact

* The client's reader and the server's reactor are the two ends of one stream:
  parameters first, then packets of about 10 KB, then a status (`ScanStream`).
* gRPC runs the server's handlers and every callback on threads of its own. The
  callbacks of one RPC may overlap: OnWriteDone of a write may start while the
  callback that issued the write has not returned, and OnCancel at any time.
* `find_device` hands a reactor a `shared_ptr` to a `CSaneDevice`. Two RPCs for
  one name get the same object, which has no lock; after a refresh, two RPCs for
  one name get different objects for one physical scanner.
* The list of scanners is guarded by two read-write locks, taken through guard
  objects; `CSane` is guarded only because every caller holds them.
* In the client, gRPC threads emit Qt signals that are queued to the event loop.
  A dialog (`exec`) is an event loop of its own, in which these are still handled.
* The end of a discovery changes the channel: the services of the old one, with the
  reader of a scan and the watcher, are freed whatever calls they have in flight.
  The proxies that the widgets are connected to stay.
* The worker of the discovery is a static object made after the services, and so
  destroyed before them; the watcher's thread refers to it.
* The session file outlives the program, which may be killed at any point.

### 1.3 What makes each part correct

* **Scan RPC**: one outstanding write, exactly one status, no chunk lost,
  repeated or mixed in from elsewhere, OK only for a complete scan, every call
  comes to its end with its scanner freed, cancelled or not.
* **Device wrapper**: SANE is called in its protocol's order and with a live handle.
* **Scanner list**: nobody uses a list, device or raw device that a refresh has
  freed; the list stored is the last one fetched; an answer is made from one
  list; locks are not waited for in a circle.
* **Pages**: each page shown once; its number is its place; the arrow buttons move
  the page they belong to.
* **Document**: the session holds every page, in an order that restores; quitting
  without a question loses nothing; the pdf is what is shown.
* **Shutdown**: every stop is noticed, every thread ends and main() returns,
  whatever scans and connections there are; programs on the control socket are
  not left waiting; the server stays published until then.
* **Scan client**: the page that appears shows the scan that ended, whole; a button
  that was pressed comes back; what is freed is not called.
* **Discovery, change of server**: the client changes to a server that exists;
  the light comes to show the channel; every stop is noticed and the program ends.

The hazards in `PROJECT.json` are the places where each of these can go wrong.

## 2. Modules

| Module | Models | State and actions |
|---|---|---|
| `SaneDevice` | `CSaneDevice` on the mock or on a driver | One operator per access to the shared object: each test, SANE call and assignment of `open`, `start`, `read`, `cancel`, `close`. |
| `ScanReactor` (extends `SaneDevice`) | both reactors under gRPC | A program counter for each thread in a reactor (`pc_ctor`, `pc_write`, `pc_cancel`, `pc_done`); actions named after the callbacks and their steps. |
| `ScanStream` | what the Scan RPC promises its client | Call, announce, deliver a prefix, end; independent of threads and devices. |
| `ScanReactorProps`, `ScanReactorMC` | properties; instances | Which call has which device is what tells the instances apart. |
| `ScanReactor_proofs`, `ScanDevice_proofs`, `ScanStream_proofs` | theorems, each module on the one before | See section 5. |
| `ScannerService` | the three RPCs on the list of scanners | A program counter per RPC; one action per lock, call of SANE and visited element. |
| `ScannerServiceMC` | instance | One RPC that lists, one that scans, two that refresh. |
| `ScannerService_proofs` | theorems | |
| `PageList` | `CImageItem`, `CImageItemManager`, `CImageItemContainer` | `m_items`, `layout`, `page`; operators `add_image`, `remove_image`, `move_image`, `press`. |
| `ImageView` (extends `PageList`) | `CImageView`, session file, quitting | Event handlers as actions, cut at each write to disk and at each dialog. |
| `ImageViewProps`, `ImageViewMC` | properties; instance | |
| `ImageView_proofs` | theorems | |
| `AvahiRegistration` | `CAvahiService`, `CAutoRestartableAvahiService` | The registration's thread (`avahi_pc`), client, entry group and name; the restart loop, `create_service`, the callbacks; `StoreShutdown` and `QuitPoll` for other threads. |
| `ServerShutdown` (extends `AvahiRegistration`) | `CStartupOrchestrator`, `CIPC`, `serverctl` | `at`: where each `init_shutdown` is; `on`: the thread a signal interrupted; a place for each worker. One action per shared access. |
| `ServerShutdownMC` | instance | A `serverctl` and a program that keeps its connection. |
| `ServerShutdown_proofs` | theorems | |
| `Mdns` | `CMDns` | No state: how many sockets are opened, and the loops that make names and addresses of records; `DiscoverResults` and `QueryResults` are what a call may return. |
| `Discovery` (extends `Mdns`) | `CMDnsAutoFinder`, `CChannelStateChangeService`, the change of channel, `CSemaphoreWidget`, the program's end | A place for the worker, for each watcher and for the main thread (`gui`); `events` is the queue of signals. `missed` and `late` record the two orders that `QuitEnds` excepts. |
| `DiscoveryMC` | instance | Two servers; a host with or without usable interfaces. |
| `Discovery_proofs` | theorems | |
| `TempFiles` | `CUniqueIdGenerator`, `CFileManager`, `CFile` | No state: names with their widths, files opened to append. |
| `ScanClient` (extends `TempFiles`) | `CScanResponseReader`, the two buttons, `CDeviceList`, the services and their proxies | One action per handler of the event loop and per callback; `OnDone` in its three steps beside the event loop. |
| `ScanClientMC` | instance | One scanner, a scan of two chunks, names of two bits. |
| `ScanClient_proofs` | theorems | |

`PROJECT.json` maps every definition to the lines it models. The main
abstractions:

* **Data.** A buffer of 2048 bytes is one chunk, `<<handle, n>>`: enough to see
  loss, repetition and mixing. A page is the number of its scan. A transform is a
  mirroring and a number of quarter turns. A session file is absent, shorter than
  its header, or a list of pages. A DNS packet is the sequence of its records. The
  size of an image is how many chunks of a scan are there.
* **Steps.** Where objects are shared without a lock (devices, the reactor's
  members) a step is one access. Where a lock is held, a step is what happens
  under it, cut wherever another thread does not need that lock. The client's
  event loop is one thread, so a handler is one step, cut where a kill leaves
  something on disk and where a dialog lets other events in.
* **Backends.** `Mock = TRUE` is the mock of the tests: one handle per scanner
  name, never busy, two assertions. `Mock = FALSE` is a driver: a handle per
  open, a scanner open once, any call may fail, and using a null or closed
  handle ends the process.
* **Undefined behaviour.** In `ScannerService`, reading a vector or device that
  another thread has freed sets `crashed`; reading a vector that another thread
  is assigning may or may not. In `PageList`, `crashed` is the dereference of the
  null item that `itemAt` returns, or a negative count handed to `views::drop`. In
  `ServerShutdown`, a call through a pointer whose object another thread deletes
  may go through the pointer read before or the one there now; where that is null
  or deleted the model sets `undefined` and stops. In `ScanClient`, deleting the
  context of a call that runs, reading an image beyond the end of its file and a
  callback into a freed service may each end the process (`crashed`) or go on; a
  null scanner that is dereferenced ends it. In `Discovery`, `error()` of an
  expected that has a value ends the process or yields what is there, and a
  notification of a deleted worker ends it.
* **Ends of a stream.** `ScanClient` is not run together with the server. Its `calls`
  follow what `ScanStream` promises and `own_device` checks: the parameters, then
  chunks in order, one status, OK only when all was sent.
* **Discovery.** The channel made at the start has null credentials, which gRPC turns
  into a lame channel: it is in TRANSIENT_FAILURE for ever. A watcher waits 5 s
  before it first looks, which outlasts the statements that make its channel the
  current one and connect the proxies: these are one step (`change_channel`).
  Deleting the old services is another, for it joins a thread. What a replaced
  watcher had already queued is still delivered.
* **Signals.** SIGINT runs its handler inside the thread that the kernel picks: the
  main thread, unless that is in the handler, in which SIGINT is blocked; then
  any other, a thread of gRPC that runs a call included. That thread stands still.
* **Compiler.** `*m_devices.access()` in a range-for keeps the lock to the end of
  the loop only with P2718R0 (C++23). `LockedLoop` chooses. The properties are
  checked for TRUE; with FALSE, `NothingStaleUsed` fails, which is what its
  mutant shows.

## 3. Runs

| Run | Instance | Question |
|---|---|---|
| `own_device` | a call with its own device, one whose device is not found; 3 chunks, packets of 2; 2 callback threads; driver | Does one call keep every promise, under all interleavings of its own threads, its client and its scanner? Includes refinement of `ScanStream` with its liveness, and termination. |
| `refreshed_list` | two calls on one device one after the other, a third on another device of the same scanner; 1 chunk; driver | Do calls disturb one another when the list was refreshed between them? |
| `scanner_list` | 4 RPCs, 2 scanner names, 2 events (time passes, a scanner comes or goes) | Are answers consistent and locks safe while the list is replaced? |
| `document` | 3 items per run, 3 scans, 2 starts, the window shown twice per start, an optional session from before | Do pages, numbers, session and modified flag stay in step, with a pdf that may fail to be written, and what can a kill lose? |
| `server_shutdown` | 2 SIGINTs, the command, a call, 2 inputs of a pipe, 2 programs on the socket, a failure of Avahi, a name taken on the host; 2 of these events (calls apart) together | Does a shutdown end, and what can keep it from ending? Are lines and connections served, and is the server published? |
| `discovery` | 2 servers, 2 channels, 2 tries, 2 sockets, a click on the light or a wakeup without cause | Does the client change to servers that exist, does the light settle, does the program end? |
| `scan_client` | 3 scans of 2 chunks, 2 refreshes, 2 channels, 1 scanner, names of 2 bits | Does a page show its scan, do the buttons come back, and what can end the process? |
| `mock_cancel_read` | as `own_device`, on the mock | Violated: finding 1. |
| `mock_shared_close` | two calls sharing a device, on the mock | Violated: finding 2. |
| `fresh_session` | no session file at first | Violated: finding 3. |
| `pdf_order` | one start | Violated: finding 4. |
| `reorder_delete` | one start | Violated: finding 5. |

### 3.1 Bounds, and why they are enough

* `Chunks = 3`, `PacketChunks = 2`: a full packet, a partial one, and the end of
  the scan in between and after; fewer and more chunks add no new order of
  "packet full / end of data / error". `PacketChunks = 5` is the code's value,
  in the runs on the mock; in `refreshed_list` a scan of 1 chunk is a full packet.
* `WriteThreads` of two: gRPC permits one outstanding write, so at most the thread
  that issued a write and the one that learns of its completion are in the
  reactor. A third could only wait.
* Three calls, two devices, one scanner: sharing an object, and sharing a scanner
  through two objects. `SYMMETRY` permutes the two calls on one device; no
  liveness property is checked in that run.
* Four RPCs: two refreshes are needed to free a list a third party still uses; the
  lister and the scanner are the two kinds of user.
* Three items: the shortest document in which a page has a neighbour on each side,
  and in which a removed page has a page before and after it. Two starts: one
  that leaves a session and one that restores it. Two shows of the window in a
  start: the second asks again, with pages already there.
* `SizeT = 16` stands for 2^64: more than twice every page number of the instance,
  so wrapped numbers and page numbers do not meet.
* Only the image 1 is turned, and only mirrored, in `document`: turns do not
  interact with anything but the session, which must hold the last one.
* `NoSharingSpec` (run `refreshed_list`) lets a call on a device start only when
  the one before it is deleted, which is what a client does: it has one scan at a
  time. What happens otherwise is run `mock_shared_close`.

* `MaxEvents = 2` (run `server_shutdown`): of signals, inputs, connections and
  failures of Avahi any two meet, in any order and at any step, beside a call that
  comes and goes: two shutdowns, a shutdown and a restart of the registration, a
  shutdown and a connection, two lines. Each case that `ShutdownEnds` names is
  needed: without it the property is violated in this instance, but for one that takes
  three events: the command, a SIGINT on the main thread, and a second one on the
  thread of the command. With three events the states pass a million, so that case was
  seen in an instance of its own, which is not kept: without failures and connections
  and with one input.
* Discovery: two channels are the lame one and one that works, or two servers whose
  halves are mixed up; no step relates a channel to any but its predecessor.
  `AUTO_CONNECT_MAX_TRIES = 2` has a first failure and a last one. The host's
  interfaces exceed `MaxSockets = 2`, so the array's limit is met. `MaxEvents = 2`
  is the length of the queue, at which threads wait to signal; a watcher signals at
  most two at once. `MaxWakes = 1`: a spurious wakeup and a click on the light do
  the same to the worker.
* Scan client: two scans overtake each other; the third, with one bit of sequence,
  can get the name of the first. A list that becomes empty after it had a scanner
  takes two refreshes. The clock reads 0 or 2, of which one bit is kept, so the cut
  matters. Two channels: calls of the old one are in flight beside the new one's.
  `SizeChecked = 1` of two chunks: the code compares the file's bytes with the
  number of pixels, so less than an image of colours passes.
* `Terminal = FALSE`: a pipe delivers everything a terminal does, and more at once.

Deadlock is not checked: all RPCs may be done, the program may have ended, and a
crashed process stops.

### 3.2 Fairness

`ScanReactor` assumes weak fairness for each step of a thread that is in a
reactor and for gRPC's delivery of OnWriteDone, OnCancel and OnDone: gRPC's
executor runs every callback that is due. Nothing is assumed of the client (it
may never cancel) or of the scanner (it may jam, or not). `ScannerService`
assumes that the thread of each handler runs on; taking a free lock is such a
step. Weak fairness suffices there because each handler takes each lock a bounded
number of times. `ImageView` has no liveness property and assumes nothing: a user
may walk away. `ServerShutdown` assumes that each thread runs on, that calls end,
that Avahi's daemon answers what it was asked, and that `serverctl` closes a
connection on which it has its answer, as its code does; not that input comes,
that a begun line is finished, or that other programs close.

`Discovery` assumes that threads run on, that the timed wait of a watcher and the
select of a query end, and that a channel asked for with `GetState(true)`, as the
watcher asks, leaves IDLE. Nothing is assumed of the network or the user.

`ScanClient` assumes that the event loop runs and that each call is answered or
fails and each stream ends: `EveryCallEnds` for a live server, and for a connection
that breaks, gRPC's failing of the calls on it. The client sets no deadline and no
keepalive, so a link that goes dead without a sign would leave its buttons disabled
for as long as the operating system does not notice; this is assumed away. Nothing
is assumed of the user.

## 4. Findings

1. `CSaneDevice::cancel()` restores STARTED after `sane_cancel`
   (`SaneDevice.cpp:94`), so the next OnWriteDone reads from a device that is no
   longer started, which the mock backend asserts against.
2. Two calls share a `CSaneDevice` without a lock, and one closes what the other
   started (`SaneDevice.cpp:28`): the mock's assertion that a device is cancelled
   before it is closed fails.
3. Saving of sessions is enabled only by restoring one (`ImageView.cpp:465`,
   `:492`), and only saving creates the file: without a file from an earlier
   build the feature is off, against README.md:34.
4. The pdf has the pages in the order they were scanned (`ImageView.cpp:349`), not
   in the order the user moved them into.
5. Removing a page after a move renumbers the wrong pages (`ImageView.cpp:260`),
   and an arrow pressed afterwards dereferences a null item (`:280`).

Properties that hold with a named exception say so in their comment: for example
`NumberingSpoiledOnly` names the two steps that can spoil the numbers, and
`OnlyCancelMisuses` the one misuse of SANE a single call can commit (cancel after
a failed open). The exceptions are cases that TLC reaches.

Document (run `document`): when the pdf cannot be written, the result is ignored
(`ImageView.cpp:353`): the session is removed and the window counts as saved, so
that quitting asks nothing. `UnaskedQuitIsSaved` and `SessionHoldsDocument` except
this. `KilledRunLosesOnly` says what a kill can cost: the session of before, when it
comes after the file was truncated and before its items are appended
(`SessionService.cpp:12`).

`ShutdownEnds` (run `server_shutdown`) holds with these exceptions, each of which
TLC reaches in the run, but for the last part of the third (see `MaxEvents` in 3.1):

* a shutdown between the restart loop's test of `m_shutdown` and its new object
  quits the old object or none, and nobody quits the new one
  (`AvahiServiceRegistration.hpp:180-197`): `wait()` does not return;
* a connection to the control socket that stays open (`IPC.cpp:66`), or a line of
  standard input begun in a pipe and not finished (`StartupOrchestrator.cpp:97`);
* a second SIGINT on the thread of a call: `Shutdown` waits for the call, which waits
  for the handler; or one on the thread on which the command waits for the calls;
* a pointer used after another thread deleted its object: the registration's, when
  it is being made anew, or the gRPC server's, when two shutdowns meet
  (`MisuseHasCause`).

Discovery (run `discovery`):

* `QuitEnds`: the worker waits without a predicate (`mDnsAutoFind.cpp:40`), so the
  notification of the stop is lost while it discovers, and the program waits for
  ever to join it; a watcher past its wait asks a deleted worker
  (`ChannelStateChangeService.cpp:68`); and when a query fails, the error of the
  discovery, which succeeded, is read (`mDnsAutoFind.cpp:98`).
* `ConnectsToServer`: one partial result goes through all packets, so a packet that
  leaves a half over (a port, and no address of IPv4) has it paired with the half of
  the next server's (`mDns.cpp:351`).
* `LightSettles`: a discovery that found nothing, or the notice that automatic
  discovery ends, turns the light red over a channel that may be ready.

Scan client (run `scan_client`):

* `OnDone` clears `m_in_progress` before it resets the context and signals
  (`ScanResponseReader.cpp:57`). A click in between starts a scan whose context is
  then deleted, and whose unfinished file is handed over with the status of the scan
  before (`FileHoldsScan`, `MisuseHasCause`). The Scan button is enabled at that
  moment when a list of scanners was shown during the scan.
* The button is enabled when a scan ends, also with an empty list; a click then
  dereferences a null scanner (`ScanButton.cpp:21`).
* A change of channel frees services with calls in flight (`Globals.hpp:98`): their
  callbacks use what is freed, or their signals reach nobody and the button they
  would enable stays disabled (`MisuseHasCause`, `ButtonsComeBack`).
* An id keeps 44 bits of nanoseconds, under five hours, and 12 of a sequence
  (`UniqueIdGenerator.cpp:22`): a name can come up again, and the file is opened to
  append (`FileHoldsScan`).

`PublishedAgain` names one more: a second server on one host retries the taken name
without changing it, whatever its log says (`AvahiServiceRegistration.hpp:95-97`),
and gives up.

## 5. Proofs

Every invariant and every action property that a passing run checks is also a
theorem, for all values of the constants; `PROJECT.json` lists them. Where a
theorem assumes more than the named `ASSUME`s of the models, it is said below.
Each inductive invariant was first checked by TLC on the instance of its run. A proof
has one lemma per action, or one that covers the actions that leave the invariant's
parts alone, and a last step that combines them with PTL.

**Scan RPC** (`ScanReactor_proofs`): every set of calls, devices and callback threads,
every length of scan, both backends, whether or not calls share a device.

* `TypeCorrect`. Not inductive alone: a call without a device must be known never to
  reach a step that uses one, which `EmptyReactor` adds.
* `WritesAreExclusive`. The invariant `OneWrite` counts, per call, who has the turn to
  write: the constructor, one thread, or a write that is outstanding, and never two
  of them. A thread whose turn is over may still be inside the callback; that it no
  longer counts is the point.
* `StatusIsUnique`. `m_finished` is true exactly when a status is in the stream, so the
  test in `Finish` admits the first one only.

**Devices and chunks** (`ScanDevice_proofs`, `ScanStream_proofs`): for a driver
(`~Mock`) and `NoSharingSpec`, in which a device is used by one call after the other.
Both are needed: on the mock, and with a shared device, findings 1 and 2 are what
happens. `OwnDevicesAreNotShared` proves that calls with devices of their own satisfy
`NoSharingSpec` without assuming it, so that the theorems speak of `own_device` too.

* `MisuseIsOfCancel`, `HandlesAreClosed`, `OthersHandlesAreLeft`. `Order` says which
  callbacks may still come in which stage of a call; `Owned` what a call at work knows
  of its device: whose handle it holds, and whether that is open and started where the
  code relies on it. `DeviceInv` adds that two calls at work have different devices and
  that an idle device is closed.
* `NoChunkIsLost`. `SentInv`: what was handed to gRPC is an initial piece of the scan, and
  wherever a write is outstanding or a thread has the turn it is exactly the scan up to
  `position`, less the packet under construction. By `OneWrite` the thread with the turn
  is the only one that moves them.
* `OkIsOfWholeScan`. `WholeInv`: while a write may still come beside an end of the
  stream, or OK is on its way, everything was sent.
* `FailuresHaveCauses`. `CauseInv`: each status but OK, sent or about to be, has its
  cause. A scan whose parameters were sent fails only because its own client is gone or
  its own scanner failed. Before that, a call is CANCELLED when its scanner cannot be
  opened or started, and that it is open for a call on another `CSaneDevice` is one
  reason: calls do compete for a scanner until they have it, and not after.
* `ScanImplementsStream`. The refinement of `ScanStream`: initial states map to initial
  states, and each step of a call to a step of its stream or to none, by these invariants.
  The stream's liveness stays with TLC (`PromiseToA`).

**Scanner list of the server** (`ScannerService_proofs`): every set of RPCs and scanners.

* `TypeCorrect`. The number of generations is bounded by how many RPCs have fetched.
* `ListOfLastFetch`, `RawDevicesStayValid`. `LockInv` ties each lock to the places in the
  code at which it is held; `DeviceInv` says that `CSane` owns the devices of the last
  fetch and that all others have forgotten their raw device, and that only a handler
  between its fetch and its assignment sees two lists.
* `AnswersAreOfOneList`. What a handler has visited and has yet to visit is of one fetch.
* `NothingFreedIsUsed` assumes `LockedLoop`, a compiler with P2718R0: what a loop has
  yet to visit is then part of the list as it is. Without it the property is false.

**Document** (`ImageView_proofs`): every number of pages, scans and starts. The invariant
`DocumentInv` has four parts. `TypeInv`: the rows hold the same items once.
`FirstShow`: what there is before sessions are saved. `Stored`: the session file
and the pdf against the document at every place where a handler can be cut. `Asked`:
the modified flag against the last pdf.

* `TypeCorrect`, `PagesAreShownOnce`, `SessionsHoldDocument`, `SessionsRestoreOrder`,
  `UnaskedQuitsAreSaved` follow from it.
* `NumbersArePlaces`, `ArrowsMoveTheirPage`, `KilledRunsLoseOnly` are about steps: what
  removing, moving and adding do to rows without repetition, of any length.

**Server start and shutdown** (`ServerShutdown_proofs`): any number of signals, calls,
failures and connections.

* `TypeCorrect`. As many Avahi objects are made as there are failures, and one more
  (`ObjectsOfFailures`).
* `MisusesHaveCauses`. Without a failure there is one object, which nobody deletes
  (`OneObject`); who has stopped the gRPC server is past its call (`ServerStopped`).

**Scan client** (`ScanClient_proofs`): any scanners, document, widths of the parts of a
name, and bounds.

* `TypeCorrect`.
* `FilesHoldScans`. A file and a call are made together, and an open call writes to its
  own file only (`OfReader`, `OwnFile`); the file of a call with a new name begins with
  what the call has read (`Holds`). Names are new unless the sequence has gone all the
  way round (`DistinctNames`, with the laws of powers of two by counting subsets), for
  the numbers calls are made with only grow (`Made`).
* `MisusesHaveCauses`. A press of Refresh has one call or signal on its way at a time
  (`OneFetch`), so a list emptied after a scan is a second one (`SecondList`).

**Discovery** (`Discovery_proofs`): all servers, networks and packets, any number of channels.

* `TypeCorrect`. Channels made and promised stay within the bound (`CountInv`). A deleted
  channel has a watcher whose thread has ended, and a channel not made yet one that was
  not started (`WatcherInv`), so that a watcher never takes SHUTDOWN for a state to
  show.
* `ConnectsToServers`. The addresses are computed by two loops, over sockets and over the
  records of a packet. An invariant of each says what is left over and that the results
  are servers; a loop keeps its invariant since a set of rounds that break it would have
  a least one (`LeastOf`), which is how a recursive function is proved about without
  the library's induction rules. It uses `PacketsOfServers`: the address and the
  port in one packet are one server's, as whoever answers a query describes one service.

Only model-checked: everything under fairness, which the prover cannot do. These are
`PromiseToA` beyond its safety, `EveryCallEnds`, `EveryHandlerReplies`, `ShutdownEnds`,
`StopObeyed`, `CtlEnds`, `PublishedAgain`, `QuitEnds`, `LightSettles` and
`ButtonsComeBack`, as well as the five violated properties of the findings. That a recursive
definition which no theorem needs, such as the names of advertised services
(`discover_services`), computes what it should is not proved either.

## 6. Plan

Models, all done: `SaneDevice`, `ScanReactor`, `ScanStream`; `ScannerService`; `PageList`,
`ImageView`; `TempFiles`, `ScanClient`; `AvahiRegistration`, `ServerShutdown`; `Mdns`,
`Discovery`.

Theorems, in order of worth:

1. *(done)* the Scan RPC: types, exclusive writes, unique status; then the order of
   chunks, complete scans, devices and the refinement of `ScanStream`.
2. *(done)* `ScannerService`; 3. *(done)* `ImageView`; 4. *(done)* `ScanClient`;
   5. *(done)* `ServerShutdown`; 6. *(done)* `Discovery`.

What is left:

* On the mock, calls that do not share a device: the order of chunks and the refinement are
  not proved there, since `DeviceInv` is about a driver's handles.
* Abstract specifications: a list that is replaced atomically, implemented by
  `ScannerService`; a row of pages with move, remove and append, implemented by
  `PageList` on documents without moves before removals.
* What of the liveness properties is safety: that the exceptions named by `ShutdownEnds` and
  `QuitEnds` are the only places in which a thread can be stuck.

## 7. Not modelled, and why

Parsing and building of DNS packets (the library `mdns.h`), the pdf writer and
the OCR process are input and output without a state machine; their outcomes are
choices. Windows' list of network adapters is left out: the models are of the build
for Unix. Widgets that only display, the progress bar, logging, icons and error
dialogs decide nothing. That the signal handler of the server logs and allocates is left
out too: the models have neither the logger's mutex nor the allocator's, so
`ShutdownEnds` says nothing of a signal that takes a thread while it holds one of them
and then waits for it in the handler. Of the parameters of a scan only how much data they call for
is kept. Closing the window is modelled in `ImageView` for what becomes of the
document and in `Discovery` for the threads, not with a scan in flight. Methods of
`CFileManager` and `CFile` that nothing calls (`write_file`, `delete_file`) have no
action. Option descriptors of SANE are never used by the server. Sizes of images are not in `ImageView`: what a
page shows is in `ScanClient`.
