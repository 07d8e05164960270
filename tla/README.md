# TLA+ verification of the app provisioning demo

The program lets a user define virtual machines ("realms") on a host, each with
applications, and run docker images in them. A host daemon (`vm/`) makes the
disks, starts QEMU and talks over vsock to an `app-manager` inside each realm,
which decrypts and mounts the disks, installs, validates and launches the
applications with the library in `image/handler/`. This directory models the
parts of it that are concurrent, survive crashes, or wait for one another,
checks them with TLC, and proves the results that matter most with TLAPS. All
paths below are relative to the repository's root.

## The system

| Component | State it keeps | Operations | Where it is hard | Correct when |
|---|---|---|---|---|
| main, signals (`vm/src/main.rs`) | two join handles, the cancellation token | select, cancel, await both threads | a thread that fails while main awaits it; nobody tells QEMU to stop | an orderly exit leaves no supervised QEMU behind; shutdown ends |
| unix socket acceptor (`vm/src/daemon.rs:59-105`) | a JoinSet of clients | accept, join, cancel | an error aborts every client | clients are joined before it ends |
| vsock listener (`vm/src/daemon.rs:107-140`) | - | accept, `add_stream`, cancel | any error of the dispatcher ends it, and the daemon | fails only for reasons outside one healthy realm |
| connection dispatcher (`vm/src/vsock.rs`) | `available`, `requests` by cid | `add_stream`, `request_stream`, `resolve` | both orders of arrival, dead tasks, shared cids | streams and tasks of a cid meet at once, each stream one task |
| client handler (`vm/src/interface.rs`) | realms, JoinSet of realm tasks, socket | one command per line, joining | I/O errors abort tasks, requests block it | a client whose command is under way is answered |
| realm and its task (`vm/src/realm.rs`) | two channels of capacity 1, the stream, the QEMU child | launch, `handle_realm`, `send_request` | timeout against connection, exit against request | requests and responses stay paired |
| disks on the host (`vm/src/qdisk.rs`, `vm/src/app.rs`) | `main.raw` and `secure.raw` with a GPT each, `Realm::apps` | `create-application`: two blocking tasks that check or make a file | tasks outlive the call, clients share the files, a crash half way, sizes that wrap | a made disk is never made again; what a realm knows of its disks is in the files |
| disk manager, dm-crypt (`app-manager/src/diskmanager.rs`, `dm.rs`, `dmcrypt.rs`) | partitions by uuid, mapped devices by name | scan, look up, create, load, resume | devices in any order, uuids announced at another time | a realm finds and maps the disks it was told of |
| app-manager (`app-manager/src/main.rs`, `manager.rs`) | stage, applications, stream | five preparation stages, launch, event loop | any error powers the realm off; a command can block all others | no application starts early; an answer means the effect happened |
| launcher (`image/handler/src/docker/launcher.rs`) | channels to the current handler | launch, stop, kill, wait, handler | process exit against request, relaunch, full pipes, order of setuid and setgid | every process supervised, statuses are real, ids are those asked for |
| installer, storage (`installer.rs`, `app-manager/src/app.rs`) | `img`, `rootfs` and the file systems | install, validate, format, mount | interruption between any two steps, later boots | what runs was verified against the root of trust |
| manifests, hasher (`manifests.rs`, `hasher.rs`, `util.rs`) | the hash fed so far | deserialize, search for arm64, measure | what the archive reader leaves unread, read errors nobody is told of; ids of any size | the archive of a layer is measured, and what follows it as far as it can be read |
| framing (`utils.rs` of both) | a codec's buffer per call | `serde_read`, `serde_write` | the buffer is dropped with its contents | frames are read in order, none lost |
| keys, verity, test application, build | none | mock, unused, external | - | - |

Clients reach their handler over a socket, the handler its realm tasks over a
pair of channels, a task its guest over vsock. A stream gets from the listener to
the task through the dispatcher, the one piece of memory all of them share; the
image files are the one piece of storage they share. In the realm the event loop
reaches a process through the launcher's handler task. Each hop waits for the
next one; that chain is what most properties are about.

## Modules

| Module | Models | Extends |
|---|---|---|
| `Rendezvous` | what the dispatcher promises, without maps and channels | - |
| `RemoteCall` | what the daemon promises a client that sends a command to a realm | - |
| `RealmProtocol` | what daemon and app-manager rely on in each other on a stream | - |
| `ConnectionDispatcher` | the dispatcher and the listener feeding it | - |
| `HostDaemon` | main, acceptor, clients, realm tasks, QEMU and its guest as seen from the host | `ConnectionDispatcher` |
| `Launcher` | launcher, handler tasks, processes, signals and pipes of any number of applications | - |
| `AppManager` | stages, event loop and commands over the launchers | `Launcher` |
| `ApplicationDisks` | `create-application` and the two image files, access by access | - |
| `RealmDisks` | the same disks attached, scanned, looked up and mapped by a realm | `ApplicationDisks` |
| `DockerImage` | operators: which configs can be read, what a layer measures, the ids of the process | - |
| `AppStorage` | the file systems of one application, installation and launch over several boots | `DockerImage` |
| `...Proofs` | theorems about the module before the suffix | that module, `TLAPS` |
| `HostWireProofs` | theorems about `HostDaemon` that need what is on the wire | `HostDaemonProofs` |
| `MC...` | constants for TLC | the module after the prefix |

**Composition.** `HostDaemon` conjoins the dispatcher's operators with the steps
that call them: `TaskRequestsStream` conjoins `RequestStream`, every way a task
ends conjoins `DropReceivers`, `GuestConnects` conjoins `Dial`. `AppManager`
does the same with `Launcher` (`SignalApp` conjoins `SendRequest`), and
`RealmDisks` takes every step of `ApplicationDisks` beside those of a realm.
`AppStorage` uses the operators of `DockerImage` in the order of the code. Between
`HostDaemon` and `AppManager` lies the vsock protocol; each side models the other
by what it may do at most (`GuestReplies`, `GuestFails`; `HostSends`, `HostReads`),
and `RealmProtocol` is where the two meet.

**Refinement.** `ConnectionDispatcher` instantiates `Rendezvous` as `Meeting`: a
task waits if its receiver is open and nothing was sent to it, a stream is offered if
it was accepted and given to nobody, and a task was given what its channel
carried. `MeetsAtOnce` is the abstract specification: dead tasks' requests, two
streams of one cid and the listener's errors show in nothing but that
no more streams may be accepted.

`HostDaemon` instantiates `RemoteCall` as `Calls`. A command is `"sent"` while it is in
`reqCh` or among the frames on the stream of its task, `"executed"` while its response is on that
stream, and otherwise gone (`Underway`). `AtMostOnce` then says across five actors and four
queues what a client may conclude: `Ok` is the answer to its own command, which
a guest has executed once; `RealmNotConnected` means that no guest ever will; an error
means nothing, and a command given up may still be executed later.

`RealmProtocol` describes a stream from `Connect` to `End`. `HostDaemon` implements it with guests that do
whatever a guest may do (`HostKeepsProtocol`), `AppManager` with a host that does whatever a
host may do (`ManagerKeepsProtocol`), so each shows what the other assumes: that commands
come one at a time and only to a guest that has connected; that each is answered once or
never, and that nothing follows `Shutdown`. In `AppManager` the realm is the only one, which the
mapping calls `Unknown`, and `Progress` and `Unanswered` are its side of `GuestState` and `CommandTo`.

`HostUsesDispatcher`,
`ManagerUsesLaunchers` and `RealmsKeepDisksSpec` prove that each composition
implements the specification of its part, so the theorems about the parts hold
in the whole.

**State and code.** In `HostDaemon`, `task` is the program counter of
`handle_realm`, `attached` its local `stream`, `reqCh`/`respCh` the two mpsc
channels, `calling` and `client` the program counter of `ClientHandler::run`,
`realms` the map of realms with whether `txrx` is set. `toGuest` and `toHost` are
the frames on the stream a guest opened. In `Launcher`, `handler` is the program
counter of `Launcher::handler`, `current` is `txrx`, `proc` distinguishes a zombie
from a process that was waited for. In `ApplicationDisks`, `task` is the program
counter of `QEMUDisk::new` and then its result, `call` the call a handler awaits,
`entry` the application in `Realm::apps`; `fault` and `raced` are history. In
`RealmDisks`, `info` is `RealmInfo`, `partitions` and `mapped` the disk manager's
map and the device mapper's. In `AppStorage`, `stage` is the step of a boot that comes
next, `mainFs` and `secureFs` say which boot made each file system, `img` and
`rootfs` what is on the main one, `process` the ids of what runs, `written` whether
applications have left files in the secure one, which the overlay shows over `rootfs`;
`finished`, `formatted` and `cut` are history. A step is the code
between two awaits, since tasks run on several threads and interleave only there and
at the dispatcher's mutex; for the blocking tasks on the disks a step is one
access to the file system. Several awaits are merged where nothing else can see the
state between them. Every Variant operator is a plausible mistake in the operator
that follows it; none is part of a specification.

**Abstractions.** In `HostDaemon` a realm's name stands for one launch, which is
exact because `txrx` is never reset. `ApplicationDisks` is about one pair of realm and application ids,
because other files are other files. Log output, paths and exit codes are left out. Of an image are
kept the fields that must be there, architecture, digests, ids and the contents
of layers as a symbol for what is in the archive followed by symbols for what
comes after it; a hash is what was fed to it. Everything the outside may do is
allowed: QEMU and processes exit at any time, I/O fails, signals arrive or do not.

## Runs

| Run | Shows | Bounds |
|---|---|---|
| `Dispatcher` | nothing is left to match, one holder per stream, right cid; `Rendezvous` is implemented; a guest that dialled reaches a task | 3 realms, 2 of them with one cid |
| `HostSafety` | pairing on the channels and on the wire, `RealmInfo` first, what an orderly exit leaves behind, causes of listener failure | 2 clients, 1 realm each, one cid, `KillApp` |
| `HostLiveness` | `RemoteCall` and `RealmProtocol` are implemented; clients are unblocked when QEMU exits; shutdown completes | 1 client, 1 realm, `KillApp` and `Shutdown` |
| `HostRelaunch` | *violated:* "Realm is already running" for one that is not | 1 client, 1 realm |
| `HostTimeout` | *violated:* the timeout is not reported to a waiting client | 1 client, 1 realm |
| `Launcher` | supervision, pairing, real statuses, signals to own processes; kill returns; stop returns for silent obedient processes | 2 applications, 3 processes, pipe of 1 |
| `LauncherStop` | *violated:* terminating a talkative process hangs | 1 application, 3 processes, pipe of 1 |
| `Manager` | stages are barriers, one call at a time, answers follow effects; `RealmProtocol` is implemented; kill-app, and terminate-app of silent obedient processes, are answered or the realm goes down | 2 applications, 3 processes |
| `ManagerTerminate` | *violated:* terminate-app can take the realm down | 2 applications, 1 process each |
| `Disks` | made disks stay, entries match files, half-made files and failures have a cause, realms find the disks they were told of | 2 clients, 2 calls, 2 uuids, sizes 1, 2 and one that wraps to 0 |
| `StorageSafety` | what may be trusted after a provisioning, how far an unverified layer gets, whatever reads fail, which data lies over which image, which ids a process has | 13 images, 4 boots |
| `StorageTrust` | *violated:* an unverified image runs | 13 images, 4 boots |

**Why the bounds are enough.** Two realms are the fewest that can share a cid,
receive each other's stream, or outlive one another; the third in the
dispatcher run has a cid of its own, so that nothing may cross between cids. A
client sends any number of requests, so pairing is exercised over sequences of
them. The host treats all requests alike, and a guest that answers `Shutdown`
does nothing that one answering `KillApp` and then failing does not do, so
`HostSafety` has one request; `HostLiveness` has both. The two refinements of
the host are checked on the one realm of `HostLiveness`; for realms that share a cid the
theorems speak. A second process of an
application shows replacement; the application beside it, that one does not
disturb the other. One unit of pipe with two units of last words is the
smallest pipe that can fill up.

In `Disks`, two calls are the fewest that race for a file, and a call given up
may still be at work when the next begins; calls are used again when their tasks
are done, so any number of calls follow one another. Each file needs one uuid, so two
are enough, and no file is made twice. `MB = 1` and `Word = 4` stand for 2^20 and 2^64: sizes 1
and 2 differ, and 4 wraps to 0. The images have each check fail alone, in the first and in the
last layer, before and behind the one for arm64, a layer with bytes behind its archive whose digest covers
them or does not, and configs with a user, a group, both, and a name; 7 stands
for 2^32 - 1, which the kernel reads as "no id". Four boots allow a complete
provisioning, one cut short, one without provisioning after either, and one more.

Operations only compare cids, realms and clients, so `HostSafety` may use the
symmetry that swaps the two clients with their realms, and `Disks` those of
clients, calls and uuids; no run with a liveness property uses symmetry.
`MaxBoot` is the only counter that is cut off. The proofs below remove the bounds.

`DispatcherTypeOK` and `LauncherTypeOK` are checked as parts of `TypeOK` and `AppManagerTypeOK`, and
`ListenerFailureCause` is what remains of `ListenerFailsForDeadTask` in a dispatcher without a daemon.

Deadlock is not checked: every system here may really stop, a daemon that has
exited, a realm that is off, launches used up, boots used up, uuids used up.

**Fairness.** tokio runs every task that is ready, and `select!` starts at a random
branch, so a branch that stays ready is eventually taken: weak fairness on the
steps of tasks, handlers, the acceptor and main. The one strong fairness is
`cancelled /\ ClientLeaves(c)`: the cancellation branch is ready whenever
the client is back at its `select!`, so it is enabled again and again. Of the listener only
two steps are fair: taking a connection that waits, and its cancellation once
the token is cancelled. `accept()` need not fail, so a daemon may listen forever. Of a
client's user only one thing is assumed, that it takes an answer that is being written or hangs
up; an idle client may stay idle. No fairness is assumed of users otherwise, of signals,
timeouts, I/O errors, guests, or of processes that ignore SIGTERM;
`ShutdownCompletes` states its assumption that QEMU exits in the formula, and
`ProcObeys` says what a kernel guarantees after SIGKILL and an obedient process
does after SIGTERM. `Disks` and `StorageSafety` state safety only.

**Findings.** Each violated run states what a message or a doc promises and shows a
behaviour of the code that breaks it.

- A realm object cannot be launched twice, although its QEMU has exited.
- `VsockTimeout` is never produced, and a client that waits when the 90 s expire waits for
  QEMU's exit.
- `terminate-app` hangs when the process writes more on SIGTERM than its pipe holds,
  since the handler has stopped reading; with it hangs the event loop.
- `terminate-app` that meets the application's own exit powers the whole realm off.
- A boot without provisioning compares nothing with the root of trust, so it accepts an
  image, or the part of one, that an interrupted or refused installation has left, and runs
  what was unpacked of it or what an earlier application has written over it.

**Behaviours the passing properties allow**, each named in the property or in the
model as an exception.

- A request stays in the dispatcher when its task dies: the next realm with that cid is
  refused, or its stream cannot be delivered, which ends the listener and the daemon
  (`ListenerFailsForDeadTask`).
- `start-app` on a running application makes a second process and leaves the first
  without supervision (`Supervision`).
- The realm's `shutdown` answer means the event loop has ended (`AnswerMeansEffect`);
  `RealmExited` is printed before QEMU has exited.
- A daemon that dies while a file is made, an I/O error, and a size of 0 leave a file
  without a partition behind, on which every later call fails (`HalfMadeNeedsFault`).
- Clients with the same ids that call at the same time may see each other's half-made
  file: `AlreadyExists`, another size or no GPT (`FailuresNeedRace`). Where the size
  wraps to 0, a task may even accept a file another task has just created; such
  sizes are excluded from `EntriesMatchFiles`.
- With any `additional_options` in an image's configuration the table is refused
  (`AnnouncedDisksAreFound`): their number is appended to the offset without a space.
- A user or group that is a name the realm's own files do not know, or a number that does not
  fit, is taken for the app-manager's own id; a user other than root with a group other than root's
  cannot be launched, since `setuid` runs before `setgid` (`RunsAsAsked` says an id given
  as a number is never replaced).
- A config without `ArgsEscaped`, or any unreadable config before the one for arm64, ends
  the search for a manifest with an error.
- A layer is unpacked before its hash is known (`OneUnverifiedLayer` bounds it to one).
- A read error behind a layer's archive ends `discard_rest` as the end of the file does
  (`image/handler/src/util.rs:21`): the hash of the bytes before it is accepted, if the digest is that
  hash. The archive, which is what was unpacked, is covered all the same (`Verified`); bytes
  behind it may not be, and only in an installation in which such a read failed (`cut`).
- A realm that dies between the formatting of its two disks mounts the old data over the new
  image (`SecureBelongsToImage` speaks of finished provisionings only).
- An application whose output is not UTF-8 loses its handler, and the next command for it
  powers the realm off (`Supervision` excepts it).

**Hazards without a property.** The timer's branch that stays ready after 90 s
(`vm/src/realm.rs:220`) and the line that is never cleared (`launcher.rs:122`) cost time
and memory, which no state here counts. `read_line` in a `select!`
(`vm/src/interface.rs:207`) may drop half a command; the rest is one more input a client may
send anyway. Four more are what the code does, with no text that promises otherwise: old data
over a new image (`app.rs:119`), unreadable output (`launcher.rs:149`), the early
`RealmExited` (`vm/src/interface.rs:369`) and an unreadable config before the one for arm64
(`installer.rs:71`). The models contain them, and the properties name them as exceptions above.

## Proofs

The theorems hold for every value of the constants that meets the named
assumptions: `RealmAssumption` and `CidAssumption`, `OwnerAssumption`, `RequestAssumption`,
`ProcAssumption`, `AppAssumption` and `CommandAssumption`, `ImageAssumption` and `BootAssumption`,
`DiskNamesAssumption`, `SizeAssumption` and `OptionsAssumption`. Each proof module states
an inductive invariant, shows that `Init` implies it and every action keeps it,
one lemma per action or group of actions, and derives the properties.

- `ConnectionDispatcherProofs`. The properties alone are not inductive: `AddStream` could bring
  a stream that is already in a map. `AvailableWasAccepted`, `InboxWasAccepted` and
  `RequesterHasNothing` tie maps and inboxes to the life of each stream and task.
  Proved: `DispatcherTypeOK`, `NothingLeftToMatch`, `OneHolderPerStream`,
  `StreamFromRequestedCid`, `ListenerFailureCause`, for any number of realms with
  any sharing of cids. For the refinement two more are needed, which say that what the abstract state
  contains is in the maps: `WaitingIsStored` and, while the listener listens, `AcceptedIsStored`. With them every step
  is a step of `Rendezvous` or a stutter (`DispatcherMeets`).
- `HostDaemonProofs`. `HostUsesDispatcher` shows that the daemon's steps are the
  dispatcher's operations, hence `HostMeets`. `RequestsStayInLockstep` proves
  `OneOutstanding`: `CallInOnePlace` is the same without cardinalities, and
  is inductive with `WaitingIsCalling` and `OnlyLiveTasksHaveRequests`, because a task that
  ends empties its channel. `ExitIsClean` proves `DaemonExitClean` along the
  order of joining: `MainJoinsAcceptor`, `AcceptorJoinsClients`, `ClientJoinsTasks`, `QemuHasTask`.
- `HostWireProofs`. `LockstepOnWire` and `InfoComesFirst` speak of frames, and which frames can
  be under way depends on the task at one end, the guest at the other and the
  dispatcher between them. `WireInv` says so: a stream nobody has taken is silent
  (`UnusedIsSilent`), a guest that has not read `RealmInfo` finds nothing before it
  (`GuestReadsInOrder`), and a task that is between two requests has an idle wire
  (`TaskLeavesWireIdle`), which holds because an aborted or failed task never reads or
  writes again and, by `OneHolderPerStream`, nobody else has its stream. With
  `DispatcherInv` and `CallsInv` it is `HostInv`, which is inductive. Proved from it: `LockstepOnWire`,
  `InfoComesFirst`, `TypeOK`, and step by step the two refinements, `AtMostOnce` (`HostCallsAtMostOnce`)
  and `HostKeepsProtocol` (`HostImplementsProtocol`). `ListenerFailsForDeadTask` follows from
  the failing step itself: `add_stream` finds a dropped receiver only of a task that has ended, and an
  ended task stays so (`EndedStays`).
- `LauncherProofs`. `LiveHandlerHasProcess`, `OverHasNoQueue` and
  `CallHasProcess` are the links the properties leave open. Proved: `LauncherTypeOK`, `Supervision`,
  `RequestInOnePlace`, `StatusMeansExited` and, as an action property,
  `SignalsHitOwnProcess`: before every signal the handler is in its loop, hence
  its process has not been reaped, and its request is current, hence so is it.
- `AppManagerProofs`. The event loop's invariant and the launchers' are proved
  together, since the loop only calls a launcher whose call before has returned
  (`ManagerUsesLaunchers`). `StagesInOrder` makes `NoAppBeforeAllPrepared` inductive: whoever is no longer in `todo` has passed
  the stage. `OneOnTheWire` does it for `AnswerMeansEffect`: an answer is alone on the stream, so
  nothing can undo the effect before the host has read it. `ManagerImplementsProtocol` needs no more
  than these: every stage, command and failure is a step of `RealmProtocol` or a stutter.
- `ApplicationDisksProofs`. `MakersAlone`: `create_new` lets one task through, so the
  file it makes is as it left it. `ResultsTrue` and `EntriesTrue`: whoever has seen a partition has seen what will
  stay. Proved: `HalfMadeNeedsFault`, `EntriesMatchFiles`, `MadeDisksStay`.
  `AloneUnlessRaced`: at a disk that was free when the latest call began there is one task
  only; hence it finds at each access what it has seen at the one before
  (`UndisturbedKnow`), which proves `FailuresNeedRace`.
- `RealmDisksProofs`. `UuidsDiffer`, and `ToldTrue`, `FoundTrue` and `MappedTrue` for the uuids in
  `RealmInfo`, the partitions found and the devices mapped: all of them speak of files that have
  a partition, which `MadeDiskStays` keeps as they are. Proved: `RealmDisksTypeOK`,
  `AnnouncedDisksAreFound`.
- `AppStorageProofs`. The invariant records what each stage of an installation
  has established (`InstallSteps`), that `rootfs` is a prefix of the image's layers, and that a
  finished installation stays whole (`Finished`). Proved: `TypeOK`,
  `TrustedOnceProvisioned`, `LayersOnlyOfTrustedImages`, `OneUnverifiedLayer` and `RunsAsAsked`, for images with any
  layers and configs, any number of boots and although mkfs, or a read behind an archive, may
  fail unnoticed in any of them; and `SecureBelongsToImage`, which is conditional on every mkfs of the
  provisioning boot having worked (`formatted`), through `FormattedTogether`.

Every safety property of the passing runs is proved. Only model-checked are the liveness properties
(`DialedGuestReachesTask`, `ClientUnblocked`, `ShutdownCompletes`, `KillReturns`, `StopReturns`,
`KillAppAnswered`, `TerminateAnswered`), since TLAPS does not reason about fairness and
`ENABLED`, and the findings, which are counterexamples. No module declares a recursive operator.

## Not modelled

- Keys (a mock with a constant key) and cipher parameters: no state, no decision depends on them.
- The verity wrapper and device suspension: nothing uses them.
- Serialization of manifests, the fields nothing reads, the environment of a process, paths in a
  container: data without control.
- How bytes become frames and lines: the tokio codecs and `read_line` are external. The one
  thing of theirs that matters, a buffer dropped with a frame in it, is an alternative of `GuestReadsInfo` and `ReadProvisionInfo`.
- QEMU's command line but for the drives, shell splitting and the parsing of commands.
- The test application, the build and the kernel's configuration.

Realms without applications skip the stages of `AppManager`, which assumes at least one.

## Plan

1. An abstract specification of `Launcher`, calls to an application's processes each of which has at most
   one status, and the proof that `Launcher` implements it, from `RequestInOnePlace` and `StatusMeansExited`.
2. The same for `AppStorage`: a boot either runs what the provisioning before it verified or nothing,
   without file systems and stages.
3. Invariants of `RemoteCall` and `RealmProtocol` themselves, which carry over to
   `HostDaemon` and `AppManager` by the refinements.
4. `Framing`: byte arrival and a `FramedRead` per call; an abstract FIFO of frames and the
   condition under which the code implements it.
