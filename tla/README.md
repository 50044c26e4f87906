# VPN4TV Desktop: a TLA+ model of the running application

VPN4TV Desktop is an Electron program around a VPN core (sing-box) that runs in
a privileged daemon of its own. The app owns the profiles, decides which config
the daemon is started with, and watches the daemon over a socket. The
difficult code is where these meet: a start is a chain of awaits, and while it
waits the daemon may die, the user may stop or switch a setting, another user
may take the daemon over, a timer may fire, the app itself may end. Around that
are smaller machines of the same kind (a browser sign-in, the onboarding, the
updates), and one long pure computation: from what a provider serves to the
config a start hands over.

All paths below are relative to the repository; `main/` is `src/main/`.

## Inventory

| Part | Where | State it keeps | What makes it right |
| --- | --- | --- | --- |
| Crash guard | `main/vpn4tv/russiaDirectRuntime.ts` | mark, strikes, checked key and last label in the settings database; the arming and its timer; session flags | a crash counts once and only a crash counts; a bad block costs the VPN at most twice; every arming ends |
| "Russia direct" block | `main/vpn4tv/russiaDirect.ts` | none (config to config) | it goes only into configs of our shape, ahead of the rules it must win against; what should go direct does |
| Service starts | `main/profiles.ts` 403-912 | `serviceStartChain`, `queuedSettingsReload`, `startedThisSession`, `serviceStartRunning`, `firstStartedSeen` | one start at a time; no reload and no repair is lost |
| Daemon connection | `main/state.ts`, `repair.ts` | phase, status, groups, the retry flags of its loop | a daemon that is up is found; a retry is not lost; nothing shown outlives its session |
| Worker | `main/worker.ts` | the child process and who waits for it | one worker; every waiter is answered |
| Stops, settings | `main/bridge.ts`, `core.ts`, `preferences.ts`, `settings.ts` | `stopRequestedAt`, preferences | a stop disarms the guard; a switch reloads |
| Profile store | `main/profiles.ts` rest, `database.ts` | rows, config files, the selected id, a chain per profile, the auto-update timer | rows, files and selection agree; operations on a profile do not overlap; no profile waits past its interval |
| Converter | `main/vpn4tv/parser.ts`, `generator.ts`, `index.ts` | `lastDns` | every server is reached, every reference resolves |
| DNS, IPv6, probes, Outline keys | `main/vpn4tv/dns.ts`, `ipv6.ts`, `russiaDirectProbe.ts`, `outlineDynamic.ts`, `bridgeAuth.ts` | cached answers, credentials | what a start rewrites stays a config the core takes, and asks the resolvers it should |
| OpenConnect browser | `main/openConnectBrowser.ts` | one request, its windows, listeners, cookie candidates | a request ends once, with the right cookie, on the right page; the next is not disturbed |
| Onboarding | `main/vpn4tv/onboardingService.ts`, `onboarding.ts` | the session and its poll loop | a code on screen is polled for; a loop ends |
| Updates | `main/updates.ts` | the offer, the download, the installation; the cache | no broken installer runs; no offer of a track the user left |
| Windows and tray | `main/index.ts`, `tray.ts`, `trayMenu.ts`, `x11Tray.ts`, the windows | which windows and icons there are, `quitting` | the app ends or can be reached; one tray icon, if wanted |
| Renderer, reports, logs, paths, packaging | the rest | presentation, files | not core logic |

How they meet: the profile store, the tray, the settings and the guard all put
operations into `serviceStartChain`; a start takes the profile through the
transforms of `main/vpn4tv`, asks the guard for the config (`prepare`), arms it
(`armForStart`) and calls the daemon, on Windows through the worker; the
daemon's status stream comes back through `state.ts` and drives the guard
(`watchServiceForRussiaDirect`). The store of the guard outlives the app, and so
does the service the daemon runs. Onboarding, imports and the auto-update timer
are callers of the profile store; a repair and a take-over wake the loop of
`state.ts`.

What is hard: interleavings at the awaits; the order in which the end of the
stream, the daemon's return and the user's clicks are seen; answers that are
older than events already heard; crashes of the daemon and restarts of the app
between any two steps; timers of something that has been replaced; flags read
before an await and used after it; and in the converter two lists that are
written apart and must agree. The list with lines is `PROJECT.json`, "hazards".

## Modules

Services and profiles:

- `RussiaDirectRuntime`: the class as operators from the guard before a call to
  the guard after it. A method runs without interruption up to its next await,
  so one operator is one turn of it (`prepare` has two: before and after the
  worker's check). The stored records are fields of the same record:
  `NewProcess` keeps them and resets the rest.
- `CrashGuard`: the object under every order of calls. `call` is the one start
  that may be under way (`runServiceStart` lets in one), in the phase its next
  await ends; the daemon's events may fall between any two phases. `crashes`
  is a history: armed starts lost since one survived.
- `ServiceStart`: `profiles.ts` around the same operators: the chain (`queue`),
  the session flags, the client's view of the daemon (`conn`: phase, last
  status seen, the messages of the stream not delivered yet) and the daemon
  itself. Its start has the same phases; the call to the daemon is split in
  the daemon's answer and the client's continuation, since other events fall
  between them.
- `ProfileStore`: the rows, the config files, the selection and the operations
  on them, with `calls` as the operations under way, each in the phase its next
  await ends. `chain` is `profileOperations`, `starts` the chain of starts as far
  as these operations join it, `service` what the daemon runs. Everything an
  operation does between two awaits is one action.
- `ProfileBook`: what the store promises: profiles that each have a config, one
  of them chosen as long as there is any, every change in one step.
- `AutoUpdate`: the one timer of `reconfigureAutoUpdate` and the runs it starts.

Daemon:

- `DaemonWorker`: the child process of `worker.ts`, its callers, and what the
  program knows of it, which is later than what has happened.
- `DaemonConnection` EXTENDS it: the loop of `state.ts` with the points it awaits
  at, the group loops of this and earlier sessions, and the commands of
  `repair.ts` and the take-over that wake it. On Windows (`relayed`) the loop is
  one of the worker's callers; elsewhere it calls the daemon itself.

Windows and services of their own:

- `OpenConnectBrowser`: requests one after the other in shared storages, each
  with its windows; the jar, its `changed` events on their way, and the
  `cookies.get` calls that answer with a jar of some time ago.
- `AppWindows`: windows, trays, the tray's menu, and a quit as Electron runs it.
- `Updates`: check, offer, download, installation and the cache they leave.
- `Onboarding`: every session's poll loop, also after the session was replaced.

From a subscription to the daemon, as operators that extend each other:

- `SubscriptionParser` (content to servers), `ConfigGenerator` (servers to a
  profile), `RussiaDirectRules` (the block), and `ConfigAtStart`, which has the
  transforms of a start, and the behaviours: refreshes, starts, keys and networks
  that answer or do not. It also says what the core does with the result
  (`RouteOf`, `AnswerTo`: the first rule that matches decides), so that the
  properties can compare it with what the user was promised.

`MC...` are the small instances, `..._proofs` the theorems.

`ServiceStart!IsAGuard` ties two together: under the mapping of
`Guarded == INSTANCE CrashGuard WITH ...`, with no bounds on crashes and armings,
every behaviour of `ServiceStart` is one of `CrashGuard`. So what is proved of
`CrashGuard` for all constants is about the guard as `profiles.ts` uses it. Both
start with whatever mark of an applied block an earlier run has left in the store.

`ProfileStore!IsABook` shows that the store implements the book: the chosen one
is `selected`, the config of a profile is what its file holds. The rows and the
files are two stores written one after the other, so the mapping is a book only
because create writes the file first and remove deletes it last.

### Correspondence, where it is not one to one

Starts and profiles:

- A config is one of three contents: nothing added, the torrent rule alone, the
  block. What the check's key sees of a config besides (the fallback of dns-ru)
  is its shape. A config our code does not recognise, or a legacy one, is a
  base with its own outcome (`ForeignBases`, or unwanted).
- `stopRequestedAt >= startedAt` is `call.stopped`: set by a stop that comes
  after the call went out, and by no earlier one.
- "Settled" in `ServiceStart`: promises that are ready run before any event
  from outside. The chain's next operation and the hand-over of a prepared
  config are such continuations (only `checkFirst` and the worker's check wait
  for another process in between; `oomStartOptions` reads preferences).
- The file read before an operation is queued is merged with the action that
  queues it. `Refresh` waits while a start runs, as `reloadIfSelectedAndRunning`.
- The daemon is external: modelled from how the source uses it and from
  `build/sing-box-daemon.service` (`Restart=always`, `RestartSec=5`, hence
  `DaemonReturns` after the client has seen the stream end). It brings back the
  config it ran. STOPPING is left out; the client does nothing at it.
- What `startServiceNow` does to the profile, and the resolved Outline keys it
  writes back to the file (`profiles.ts:542-549`), is in `ConfigAtStart` and not in
  `ProfileStore`: there a start leaves the file as it is. No property of the store
  depends on it, since a key does not make another config of a version.
- In `ProfileStore` a config is a version that the core lets pass or does not,
  and a subscription may say anything at any time, so URLs are left out; a
  change of the metadata either changes the URL of a remote profile (fetch,
  check, write, store, reload) or nothing that is modelled. Names and the order
  of the list are left out: whichever profile is first takes the place of a
  removed one. An import is a create without a fetch.
- An operation that throws is `Fails` (or `StartEnds` with a failure): it ends,
  and those behind it go on, as the `catch` and `settled` of
  `runProfileOperation` have it. `regenerateRemoteProfiles` catches, and goes on
  with its next profile.
- `serviceStartRunning` is "`starts` is not empty": it is set and reset within
  the promise jobs that follow the chain's own.
- One profile and one build in `ServiceStart`; `CrashGuard` runs two builds, so
  updates are covered there.
- In `AutoUpdate` time is counted in units of the shortest interval, and an age
  stops at the longest: more is as much due as that. A timer that is due fires
  before more time passes (`Tick`).

Daemon and windows:

- Delays have no length: the retry's back-off ends when it ends, so the count of
  attempts that sets its length is left out. Calls that no living process can
  answer are "broken" and fail in the end.
- The loop of groups of a session is told to stop and stops later: `oldLoops` are
  those that have not, streaming or asleep.
- Electron's quit asks all windows at once; one that refuses ends the quit, and
  those that had let it pass go on closing (`closing`).
- In `OpenConnectBrowser` sequence numbers are kept as what they are compared
  for: a get carries the cookies that changed since it was asked for. A page is
  at the final URL or at another; which of several cookies of a name is preferred
  is left out.
- In `Updates` a file is whole or a part, and the program knows its size only if
  the feed said it. Stale files that cannot be removed stay, as the code has it; if
  the update's own file is one of them the installation fails. The installer,
  Squirrel and the daemon are external.
- A daemon of another version may tell of an ownership the client does not know
  (`Told` in `DaemonConnection`); the loop takes it for a failure and probes.
- In `Onboarding` a key holds at most one push nobody has taken.

Configs:

- A content is a record of what its text says: a form, and links as records with
  the fields their URIs have. What is abstracted is the reading of a text into
  fields. Which fields are looked at, their defaults, which links are refused,
  the unwrapping of `vpn4tv://` and Amnezia bundles, and every branch on a
  transport or a scheme is there.
- The config is a record of the parts that the transforms read or write. Lists
  that order matters in (outbounds, rules, servers) are sequences, the endpoints
  of bridges a set, names and addresses kinds of them: under a Russian suffix, in
  the geosite set alone, an exception, and so on.
- A network is the set of resolvers that answer on it; `probeDns` takes the first
  in the order of the code.

## Runs

| Run | Shows | States |
| --- | --- | --- |
| `guard` | the six invariants of the guard, that strikes are forgiven only by survival, that a crash on record becomes a strike, and that every arming ends, over all interleavings of two builds | 715k |
| `service` | the chain keeps its flags and its queue in step, a repair stays queued and happens in the end, the guard is only driven as `CrashGuard` allows, only a daemon that has gone or was taken counts as lost, and strikes go only while the service is seen running | 313k |
| `profiles` | a row has its file at every await and after any restart; operations on a profile do not overlap; none waits for ever, in the chain of its profile, behind a start or in the chain of starts; the store is a `ProfileBook` | 521k |
| `autoupdate` | the timer never comes too late for any profile, and one that is due is updated | 9k |
| `connection` | there is one worker; no retry is lost and none waits out a delay; what is shown is of the session there is; a daemon that stays up is connected | 627k |
| `browser` | no answer that was overtaken completes a request, nothing completes a page that was left, a final page is never forgotten, and what a cancelled request leaves behind is what a turn in the middle of its opening leaves | 437k |
| `windows` | the app lives on only with a window or a tray, except after a refused quit; the tray is the one the setting asks for | 160k |
| `updates` | no installer is run that broke off; the offer is of the user's track | 871k |
| `onboarding` | a code on screen is polled for; each loop ends | 102k |
| `configs` | nineteen subscriptions through parser, generator and start: servers, references, packets and queries | 47k |
| `service_takeover` | (violated) another user's takeover is recorded as a crash | |
| `configs_key` | (violated) a refresh overwrites the key a start has resolved | |

Each violated run checks one sentence of the source against what the code does;
`PROJECT.json` quotes the lines under "findings".

### Bounds

`guard`: two armings per process and two crashes in a row (constants that may be
`None`, for no bound), two strikes, one recheck. Two armings are what a stale timer or an arming over an arming
needs; two crashes reach the second strike; one recheck reaches the give-up
(the code's 12 only repeats it). `MaxRechecks` and `MaxStrikes` are constants of
the proofs.

`service`: budgets say how often each outside event may happen; the three in
`MCBudgets` pair a connect with a stop, a crash and a takeover, and a refresh
with the switch or a failed self-check and a crash. `service_takeover` has a
budget of its own, of one connect and one takeover.

`profiles`: two profiles, two operations at a time and three in all: the chain of
a profile can only be forgotten too early when a third operation comes while
the second waits, and two operations wait for each other in each way there is.
The server says nothing of the routing there (`Said`), and one config passes the
check and one does not.

`autoupdate`: two profiles with intervals of one and three units, two runs at a
time: the shortest interval is then not everybody's, and a run may still be
updating while the next one is due.

`connection`: two processes (one dead and not yet known to be, one new), the loop
and one other caller, one repair or take-over, one failure of the daemon or the
worker. Owners change as often as they like.

`browser`: two requests, the second in the storage of the first, a root window
and a popup, two cookies, of which one is also found for other pages, two gets and
two events under way. The first signs in by cookies, the second by headers or a
callback, which is the order in which the leftovers of the first can matter.

`windows`: two editors, a terminal, two X11 trays that come up at a time, two calls
of the menu; on each of the four platforms the code tells apart. `updates`: four
versions, two of them prereleases, from a stable one; both platforms. `onboarding`:
two sessions, two pushes, two rounds before the deadline; each place a config may
come from that has a ladder of requests of its own.

`configs`: nineteen contents, one for each form and together each kind of link,
transport and bridge, with duplicate and reserved names, invalid links among
valid ones, and profiles of others; sixteen settings; three networks (an
address answers first, a name does, nothing does); every subset of keys that answer and
of names that can be resolved; three variants of the block; 80 packets and 21
queries, one for each combination of the kinds the rules tell apart.

Deadlock is not checked in `service`, `profiles`, `browser`, `onboarding` and the
violated runs: users who have done all they may do in the bounds leave nothing to
do. `configs` is without it because a content no server is found in is never
written to a file, and nothing starts.

### Fairness

`guard`, `service`, `profiles`: a call to the daemon ends (an answer or a broken
socket), timers fire, queued continuations run, the loop of `state.ts` tries for
ever, systemd brings the daemon back. Nothing is assumed of the user, of the
network, or that the worker or the daemon accepts anything. `startService` is
called without a timeout: that the daemon answers is an assumption about it, and
without it a hung daemon would block the chain for the rest of the run.

`connection`: delays and calls of the loop end, an aborted stream ends, the
operating system tells of a process that has ended, and a worker that lives
becomes ready or is given up by the timeout of its start. `autoupdate`: a timer
fires, and a request ends by its timeout. `onboarding`: each step of a loop is a
request with a timeout, a sleep or a transaction. Nothing is assumed of the bot
or of the user.

### What the properties except

Some properties name a case they do not cover, because the code behaves so there:

- `RecordBecomesStrike`: a new arming over the record, which the next section
  describes.
- `LeftoversAreFromOpening`, `HeadersReachTheRequest`: a request that was
  cancelled while its stale cookies were being read or cleared adds its listener
  and its header handler after its cleanup. They stay, and take the place of the
  next request's handler in that storage.
- `ShownIsPolled`: `start` hands out a session whose loop gave up at the deadline.
- `AppIsReachable`: after a quit that an unsaved editor has refused, `quitting`
  stays set, and closing the last window then neither ends the app nor brings it
  to the tray.
- `OfferFollowsTrack`: the check that finds the first stable release may itself
  offer a prerelease; in that version the user has had no track to choose.

`ServersAreReached` leaves out transports that are lost on the way (`Lost`: `quic`
and `websocket`, in an Xray JSON `http`, and `xhttp` of trojan and vmess links,
which sing-box does not have). `ReferencesResolve` leaves out unique tags where a
server is called `auto`, `select` or `direct`. `TrafficGoesAsPromised` says of
the mode for chosen applications only, in a profile without a server that carries
UDP, that the UDP of the others is refused too.

### Seen while modelling, without a run

The following differ from what a comment nearby leads one to expect, are in the
models, and have no run of their own:

- A crash on record is lost under a new mark in two ways, against "the next start
  counts a strike" (`russiaDirectRuntime.ts:13-17`, `:291-293`). `onRestored`
  (`:270`) arms over whatever mark the store holds: the daemon goes down, the app
  ends before the repair, and the next run of the app finds the service the daemon
  has brought back less than 30 s ago. And a start that was admitted before the
  crash arms at its hand-over (`profiles.ts:577`, `584`).
- The repair may bring the block back, against "restarts the service without the
  block" (`russiaDirectRuntime.ts:16`, `:154-156`, `profiles.ts:809-810`). What
  leaves the block out is only the crash record, and a reload that was in its probes
  or its check when the daemon went down takes it first: admitted before, it arms
  over the record; admitted after, it counts the strike itself. The repair that
  follows begins a new session and has, below two strikes, the block.
- A config with the torrent rule alone is guarded as well (`:232`), and its 30 s
  clear the strikes too (`:406`), although "only a block that ran proves the earlier
  strikes were bad luck" (`:404`).
- `startServiceNow` forgets a pending repair when it begins (`profiles.ts:537`);
  if it then fails, the crashed config comes back with the daemon and stays.
- A stop asked for during the probes of a start is older than `startedAt`
  (`profiles.ts:583`) and does not keep the service from coming up.
- A setting switched while the daemon restarts finds no status and reloads
  nothing (`profiles.ts:777`).
- `regenerateRemoteProfiles` writes a config that nobody has checked
  (`profiles.ts:980`).
- What the server said of the routing is kept even if the update fails
  (`profiles.ts:306`), so the next one sees no change.
- A connect that has read the old file is not noticed by a refresh that ends
  before its start is queued (`profiles.ts:905`).

## Proofs

Eight modules, each about one component, for every value of its constants: the
bounds of the runs are constants here, so a theorem covers any number of calls,
processes, sessions, requests or crashes. What a run checks of a property listed here on
a small instance holds for all. Three are proved and in no run (`BlockChecked`,
`StoreTypeCorrect`, `SelectionIsARow`). Each names its assumptions about constants at the
top of its component's module, and nothing else is assumed.

`CrashGuard_proofs` proves, for every set of builds, bases and reasons and all
bounds, from `RuntimeAssumption`, `NoneAssumption` and `BoundsAssumption` only:
`TypeCorrect`, `ArmedMark`, `TimerMatchesArming`, `ArmingHasAnEnd`,
`StrikesAreCrashes`, `BlockAdmitted`, `BlockChecked`, `ForgivenBySurvival`,
`RecordsAreCounted`.
The argument. One lemma per method says what it does to the fields the
invariants mention, so the steps of the system never expand the methods. Types
come first. The three invariants about the arming (own mark, timer, no orphan)
are inductive only together: `OnStopped` and `SurvivalCheck` rely on the timer
belonging to the arming, `StartSucceeds` on the arming being the call's.
`StrikesAreCrashes` rests on `ArmedMark`: a mark of this process that is not
crashed is what a loss turns into a record, so the record and the crash are
counted in the same step. `BlockAdmitted` needs that nothing between `Prepare`
and the hand-over raises the strikes, which is so because `Admit` runs only
there. `ForgivenBySurvival` says that the step is the timer's, that its token is
that of the arming in force and that the service was found STARTED
(`SurvivalTimer(TRUE)`): every other method leaves the strikes alone or adds one, and
so does a timer that finds no service or gives up (`UnseenForgivesNothing`).
`RecordsAreCounted` rests on `ArmedMark` too: where a crash is on record nothing is
armed (`RecordUnarmed`), so no end of an arming and no timer can take it away, and
the start that meets it counts it (`AdmitCounts`).

`ServiceStart_proofs` proves `ServiceIsAGuard`, the refinement of `CrashGuard`, and
from it `ServiceArming`, `ServiceBlock` and half of `ServiceStrikes`: what is
proved of the arming, the block and the number of strikes holds of the guard
among the chain, the daemon and its stream. What a strike stands for there, and when
one is taken back, is proved of `ServiceStart` itself: `ServiceStrikes` also has
`LostIsGoneOrTaken` (a loss is counted only of an armed service whose daemon is down
or another user's; that the second is counted at all is the run `service_takeover`),
and `ServiceForgives` has `ForgivenOnlyWhileRunning`. Then `ReloadsAreOne` and
`RepairIsRemembered`, about the chain. All from the assumptions of `RussiaDirectRuntime` and `ServiceStart`.
The argument. `CrashGuard` lets a start be lost or arm only in certain phases, and
`ServiceStart` has to be shown to call it in no other. Two facts about the client
are needed. `StreamInv`: the end of the status stream is on its way exactly when
the daemon is gone or another user's, so an answer read as a broken connection
stands for a real loss. `AskingInv`: the age of the run is asked for only while no
repair is due, so its answer cannot arm over a crash. These two and the types
(`ServiceInv`) are inductive together; the types of the guard and of the start are
taken from `CrashGuard`'s own lemmas, through the step of it that each step is.
`LostIsGoneOrTaken` follows from `StreamInv` once it is known that a loss is counted in
two places only (`CountedLoss`). For `ForgivenOnlyWhileRunning` each method is shown to
leave the tally alone (`TalliesKept`), all but `Admit`, which may add to it, and the timer.
`StartKeeps` says once what the steps of a start leave alone, so that the daemon's
and the client's facts are not proved again for each of them.
`ReloadsMerge` is inductive with the reason it holds: `reloadQueued` says whether a
reload is in the chain, and `QueueStep` says that nothing else puts one there.
`RepairIsQueued` becomes inductive when it says that the repair is in the chain
whenever it is due, the daemon is up and ours and its last status is a running one
(`RepairInv`): a start takes it out of the chain and out of memory in one step, and
a restored stream tells a running status anew, which queues it.

`ProfileStore_proofs` proves, for every set of ids, configs and slots (any number
of operations at a time), from `StoreAssumption` only: `StoreTypeCorrect`,
`RowsHaveFiles`, `SelectionIsARow`, and `StoreIsABook`, the refinement of
`ProfileBook`.
The argument. `RowHasFile` does not follow from itself: a file could be deleted by
a remove whose row is there again, or a row added whose file is not yet there.
`RowsAndFiles` rules out both: whoever is about to delete a file has deleted its
row, and whoever is about to add a row has its file. A second operation could
break that only by adding the row of the one that deletes, or by deleting the
file of the one that adds. Neither can be, because of `CreateIsAlone`: the id of
a create is new, so nobody else can name it before its row is there. That is
why these three need nothing of the chain of a profile, and hold for select,
connect and the regeneration too, which do not use it. `PreparedIsFirst` (the
start with the daemon is the first of the chain of starts) is there for the type
of `starts`. A lemma per way a call goes on (ends, goes on, goes to the reload,
begins) says what is left of it, and the actions are proved from those. For the
refinement, a step of the book is the row's transaction (add, remove), the
selection (choose) or the write of a row's file (change); every other step
leaves the book, the unlink included, since its row is gone.

`ProfileOperationsTakeTurns` (`OneAtATime`) does need the chain, and the assumption
that `None` is no kind of operation (`NothingAssumption`). `profileOperations` keeps
only the last promise of a profile, and a promise is forgotten when it ends as
the last, so an operation is kept from running by an order nobody stores.
`ChainInv` states it: there is a `rank` of the calls such that among those on one
profile who has its turn is the first, the one `chain` knows is the last, and who
waits does so for the one just before it. Two that run would both be the first. A
call that joins is given a rank above all others; one that ends hands its turn to
the one whose `prev` it was, and only if it is the last is the chain forgotten,
when nobody is left to overtake. Steps that keep every call's place need no new
rank (`PlacesKeepChain`).

The same module has `UpdatesAreScheduled`, about `AutoUpdate`, whose timer runs
beside the store's operations, from `AutoUpdateAssumption` (the names of both modules
are visible there, hence `TimerSpec` and its like): `DueIsScheduled` is
inductive with the types. What it needs is that the timer just armed waits for no
profile longer than that profile asks (`ReconfiguredFacts`), although it measures
all of them by the shortest interval; for any number of profiles that rests on a
set of naturals having a least element (`LeastOfNaturals`, from the library's
`NatLessThanWellFounded`). Then every way to change the list arms the timer anew,
time takes as much from the timer as from the wait of any profile, an update makes
a profile due later, and where no timer runs, a run does that will arm it.

`DaemonConnection_proofs` proves `OnlyOneWorker`, `RetriesArrive` and
`NothingOutlivesItsSession`, from `WorkerAssumption` and `ConnectionAssumption`.
The argument. Of the worker, `CurrentIsUp` (the program knows the one that is
starting or ready, and no other) and `WaitersWait` are inductive together, and
`NextMoves` shows that whatever the app does, the worker sees one of its own
steps or none. Of the connection, a retry is safe because `requested` notes it
and the loop never sleeps while it is noted; that a repair is not slept over
needs more (`RetryInv`): from the moment the repair has seen the socket, the
daemon and the relay's process live, and either a retry is noted, so that the
attempt under way may well fail, or the handshake is next or goes well. To keep
`~Broken` through the relay, every step of the worker but a failure must leave
what serves (`ProcessKeeps`, `ConnectsKeeps`). `ShownIsOfSession` needs that groups are
streamed only in a session, or for the pause after it (`SessionInv`).

`Updates_proofs` proves `TypeCorrect`, `InstallersAreWhole` and
`OffersFollowTheTrack`, from `UpdatesAssumption` (versions are ordered, and a feed
has a newest release) and `NoneAssumption`. A download that broke off is told by the
size the feed gave, before it is renamed: `InstallerIsWhole` is inductive with the same
of the file that is about to be renamed (`WrittenIsWhole`); an installer found in the
cache is taken only if it has that size. `OfferFollowsTrack` is inductive with the types: what
a check offers is the newest that fits (`BestIsOne`, where the assumption is needed), a
check whose track has changed meanwhile offers nothing, a change of the track drops an
offer that does not fit it, and a restart offers only what the cache has for the
version that runs.

`WindowsAndOnboarding_proofs` is about two small components that share nothing.
Of `AppWindows` it proves `AppCanBeReached` and `TrayIsTheSettings`, from
`WindowsAssumption`. `AppIsReachable` becomes inductive with: the tray is the one the
setting asks for, a quit that has begun goes on unless an editor has refused it,
and nothing is left of a process that has ended. For the menu: its window lives
no longer than a tray, and while it is opening there is a call that will show it.
Of `Onboarding` it proves `TypeCorrect` and `ShownCodeIsPolled`, from
`OnboardingAssumption` and `NothingAssumption`. What is on screen is the present
session (`ShownIsSession`), and the present session has a loop that has not ended,
unless it gave up (`SessionIsPolled`). For the second, the loop must not be one
whose uuid has imported, since such a loop ends with its round: it is not, because
an import takes the session away in the same step (`DoneIsOver`).

`OpenConnectBrowser_proofs` proves `BrowserTypes`, `LeftoversOfRequests`,
`HeadersOfRequests`, `CandidatesAreCorrected`, `FinalPagesArePursued` and
`CompletionIsOnFinalPage`, for any number of requests, storages, windows, cookies
that share names and calls of `cookies.get`, from `BrowserAssumption` and
`NothingAssumption` (what is unknown or not installed is told apart from what is).
The argument. A step either ends the running request, opens a window, or keeps the
requests and changes the jar, the events or what is known of them; each kind has
its lemma. `RequestInv` follows a request: which is active, what one that is not
open yet cannot hold, and what one that has ended may still hold, by how far its
opening was at the end. `QuietInv`: with no open window nothing is known of
cookies and no call is under way, so an ending has nothing else to keep.
Of the cookies the difficulty is that an answer tells of a jar of some time ago.
`JarInv` is about the browser alone: the last event of a cookie says what the jar
holds. `KnownInv` says of the three places a value may be known in (the candidates,
the cookies that changed while a call was under way, and what a call has seen of
the others) that it is what the jar holds, or an event of the cookie is still to
come (`Sure`). An answer moves values from the third to the first, and leaves out
those that changed, whose candidates are `Sure` already: that is what the sequence
numbers in the code are for, and without them the step fails.
`FinalInv` ties completions and tokens to windows that show the final page: leaving
it clears the completion, and makes every token of it stale in the same turn. So
what completes a request is on the final page still. `PursuedInv` strengthens
`FinalPageIsPursued` to each cookie of a final page on its own: as long as it is in
the jar and could complete the page, a call with that page's token is under way,
its timer runs, or an event of it is to come. The hard case is an answer that
completes nothing: since what it has seen
is `Sure`, a cookie in the jar that it did not find is one whose event is to come.

`ConfigAtStart_proofs` proves `TrafficIsDecided`, `QueriesAreDecided` and
`BlockDivertsItsOwn`: for subscriptions and files of any length and with any links,
any settings, probes and networks, what the core is handed decides every packet,
connection and query as promised. The assumptions are `ContentsAssumption` (what is
served has the shape of one of the formats the parser tells apart: a link has a
scheme, an Xray outbound has a protocol and no scheme, and so on; nothing is assumed
of the other fields of a link), `AddressesAssumption` (the address of a resolver is
one) and `PacketsAssumption` (a packet has a protocol, a network and a port).
The argument. A rule is hit or not, so a list of rules is a function from what
would be decided otherwise to what is decided, and a list put between two others is
that function put between theirs (`DecidedConcat`, `InsertedDecide`): where a
transform inserts matters, how long the list is does not. The invariant follows
the profile through the stages of a start. `WrittenInv` and `ReadInv` say which
resolvers, DNS rules and route rules `generateConfig` has written (`AsWritten`);
`FoundInv`, `FittedInv` and `ReadyInv` what each of the transforms makes of them, up
to the config that `applyRussiaDirect` returns. Two things make it hold for any
list of links. Whether a profile gets FakeDNS depends on all of its servers, but
what is generated depends on the servers only through that one answer and whether
UDP is carried, and both are the same before and after tags are made unique
(`BridgedAlike`, `CarriedAlike`, `Deduped`). And every server is one the
generator knows what to do with, whichever format it comes from (`EntriesMatched`),
so that no resolver or rule refers to a server's fields (`GeneratedIs`).
`BlockDivertsItsOwn` needs no invariant: among any rules whatever, also those of a
profile somebody else has written, the block changes the fate of a packet only to
"direct", and only of BitTorrent and Russian traffic.
Along the way the operators became easier to reason about, with the same values:
where several branches of a `CASE` could apply and the code takes the first, the
models now say `IF ... ELSE IF`, and fields that are put in are named (`Extended`).

Model-checked only:

- the liveness properties (`ArmingEnds`, `RepairHappens`, `OperationsEnd`,
  `DueIsUpdated`, `DaemonIsFound`, `PollingEnds`), which are out of the prover's
  reach;
- `ReferencesResolve`: that tags are unique rests on how `dedupeTags` goes on
  numbering until it finds a name nobody has, and on the text of that name: induction
  over the list and over the numbers tried, which the provers cannot do;
- `ServersAreReached`: it says of every field of every kind of link that it arrives
  where it is dialled from, which is a comparison of two tables as long as the code,
  and it holds only while there are fewer than a thousand servers of a kind (the
  ports of the bridges begin a thousand apart, `BRIDGE_PORTS`). The run has each
  kind.

## Not modelled

- The reading of texts into fields: URIs, base64, INI and JSON (`parser.ts`), the
  texts of release feeds (`updates.ts`). Their control is in the models, their
  strings are not, and the repository has tests for them.
- `ruleSets.generated.ts` (12 106 lines) and `russiaDirectLists.generated.ts`: data;
  classes of names to the model. The first is 43 % of the lines of the repository's
  implementation.
- Names and order of profiles, formats of exports and imports, the FakeDNS
  self-check (which is the dns-ru one with another probe).
- The renderer and the preload script: they keep no state of their own that the
  main process depends on. Reports, logs and their upload; window positions, login
  item, locale; paths, permissions of the data directory; `servers.ts`, a table.
- The relay of calls and streams to windows (`bridge.ts`) beyond the stop.
- Packaging and installers: build-time scripts.

Reasons per part are in `PROJECT.json`, "components".

## What could follow

An abstract `CrashLedger` (crashes counted, forgiven by survival) implemented by
`CrashGuard`; the promises of the routing for profiles somebody else has written,
whose rules a start rewrites as well; the FakeDNS self-check.
