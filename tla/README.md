# A verification of Bibites Multiverse

Bibites Multiverse joins the private worlds of many players into one map. An
organism that walks off the edge of one world is frozen, carried over the
network, and spawned in a neighbouring world. The promise the project makes
about it is decision **D2**: migration is *at most once*. An organism may be
lost, and then the loss is recorded; it is never duplicated.

This directory holds TLA+ specifications of the parts of the program that keep
that promise and of the services around them, the TLC configurations that
model-check them, and proofs checked by TLAPS. Source paths below are relative
to the repository; Go packages are under `src/go/internal/`.

## 1. The system

Five kinds of process take part: the **mod** inside the game, the **sidecar**
beside it, the **launcher** that starts both, one **relay** for the whole map,
and the **archive** behind it.

| Component | State it keeps | Operations | What makes it correct | Module |
|---|---|---|---|---|
| Custody journal (`journal/journal.go`) | the log file, the states it replays to, the append handle | `Open`, `OpenReadOnly`, `Create`, `Apply`, `PurgeExpired`, `Compact`, `Close` | what a caller was told survives a crash; log and memory agree; compaction changes nothing | `Journal` |
| Sidecar custody (`sidecar/sidecar.go`, `contractb_client.go`) | one journal entry per migration, the no-lane clock, the last PEER_STATUS and SECTOR_GRANT | export, the one-second tick (forward, reroute, bounce, lose, acknowledge), the handlers of acknowledgements, refusals, receipts and arrivals | at most one copy; no unrecorded loss; every export ends | `Custody`, refining `Journeys` |
| Relay routing (`relay/relay.go`) | the forward record of this session, the paced queues, draining | route a payload, refuse it, issue a receipt, sweep, drain, restart | a refusal is only a proof when nothing was handed over | `Custody` |
| Relay map (`relay/grid.go`, `relay.go`, `admin.go`) | the rectangle, its reservations, `ring.json`, the registered connections, the operator's tokens | place, splice, claim, connect, replace, drop, release, hand over, save, restart | one slot per peer and one peer per slot; a grant survives a restart; a retired address is never issued again | `Grid`, `Slots`, `RelayMap` |
| Relay publication (`relay/relay.go`) | the pending mark, the grant and status each peer was sent last | coalesce, publish now, the freshness timer, answer a claim | a peer ends with the newest map | `Publish` |
| Relay evictions (`relay/admin.go`) | who is kept off, and until when | report, confirm, expire, lift | a lift readmits | `Eviction` |
| Axis walk (`mapwalk/mapwalk.go`) and refusal chains | a pure function of PEER_STATUS; the worlds that refused | `Walk`, `WalkAfter`, `WalkAnywhere` | every deliverable world is asked before the chain gives up, whatever holes the map has | `MapWalk`, `Grid` |
| Rates (`sidecar/sendpace.go`, `relay/capacity.go`) | two token buckets and a window meter | refill, spend, defer, observe | a paced sidecar is never closed for capacity, and a large frame is not starved | `SendPace` |
| Writer (`wsutil/conn.go`) | two bounded queues, the stop flags, a schedule shared between connections | send, send paced, write, four kinds of close | accepted frames leave in bounded order, a close ends and loses nothing it promised to keep | `Writer` |
| Contract A link (`sidecar/contracta_server.go`; mod `MigrationExporter`, `MigrationImporter`, `MultiverseClient`) | inert organisms, the spawn ledger, sessions and worlds, the replay schedule | offer, journal, destroy on custody, deliver, spawn, acknowledge, replay, load a world, reassert custody | an organism is destroyed only on durable custody; replays and overlapping handlers make no second copy | `WorldLink` |
| Population admission (`sidecar/admission.go`) | the gate, the learned limit, a state file | heartbeat, sample, admit, acknowledge, restart | deliveries never push a world past its limit | `Admission` |
| Archive ledger and roll-up (`archive/store.go`, `segments.go`, `rollup.go`) | the live file, the closed segments, the saved counters and their cursor | append, rotate, compress, retire, save, replay | a record is counted once whatever dies when | `Ledger` |
| Archive gap queue (`archive/archive.go`, `rollup.go`, `eviction.go`) | the hashes wanted, requests under way, the queue on disk | queue, pump, answer, time out, age out, save, start | no slot leaks, no hash is forgotten, what somebody holds is fetched | `Gaps` |
| Archive genome store (`archive/genomecold.go`, `coldrestore.go`, `coldcopy.go`; `bb8/store.go`, `coldbundle.go`, `evict.go`) | blobs, bundles, receipts, the cold index | bundle, confirm, retire, restore, rebuild | no genome leaves the host without a copy | `GenomeTier` |
| Launcher (`launcher/lock.go`, `run.go`, `stop.go`, `process.go`, `modquit.go`) | the lock file, the pid file, the mod's command file | start, stop, break a lock | a running game is always recorded; a quit reaches the game it was meant for | `Launcher` |
| Archive hop pairing and duplicate set (`archive/hops.go`, `dedup.go`) | the offers pending, the two generations of facts seen, the probed tables | a copy of an offer, an acknowledgement or a refusal; record, sweep, rotate, replay | a hop shown was delivered, and is shown once; a table is a set | `Crossings`, `DedupWindow`, `DedupShard` |
| Archive population history (`archive/metrics.go`, `metricsseg.go`, `metricshist.go`) | the live file, the closed days, the roll-up | sample, rotate, fold, save, compress, retire, read, start | every day is in the record, once | `MetricsHistory` |
| Archive brain history (`archive/brainhist.go`, `brainsave.go`) | what was measured in each bucket, the dirty sets, `brains.jsonl` | measure, save, compact, replay | a measurement saved is not measured again | `BrainHistory` |
| World saves (mod `WorldSaver`, `WorldLoader`, `WorldSeeder`) | the world file, its rotated copies, the lock, the receipt | defer, write, verify, rotate, promote, prune, load, seed | a receipt tells of a file that is there; one game at a time saves, where a held lock can be neither read nor deleted | `WorldSave` |
| Mod transport (mod `WebSocketTransport`, `MultiverseClient`) | the send queue, the pump's tasks, the session | send, dial, pump, stop, start, halt | a connection's first frame is its own | `Transport` |
| Enrolment (`launcher/enroll.go`, `profile.go`, `peercred/peercred.go`, `relay/enrollment.go`) | the pending record, the secret, the profile, the relay's store | ask, retry, mint, save, restart | no identity on the map is out of its owner's reach | `Enrollment` |
| Archive read side and recognition, launcher profiles, updates and GUI, join strings and the mod token, bb8 parsing, Unity rendering, deployment | | | | not modelled (section 9) |

### How they interact

One crossing, when all goes well:

1. The mod freezes the organism (*inert*: neither alive nor gone) and offers it
   in MIGRATE_OUT. `onMigrateOut` creates a journal entry
   `out / open / pending` and only then answers MIGRATE_OUT_ACK; the mod destroys
   its copy. (`WorldLink`, `Journal`)
2. The custody tick chooses a world along the exit axis (`MapWalk`), records the
   entry `sent`, durably, and then enqueues MIGRATION_PAYLOAD within the
   published rate. (`Custody`, `SendPace`)
3. The relay routes it on its destination slot (`Grid`), puts it in the paced
   queue of that connection (`Writer`), remembers that it did, and returns a
   FORWARD_RECEIPT. It copies the crossing to the archive, which records it
   (`Ledger`) and queues the genome it does not hold (`Gaps`, `GenomeTier`).
4. The receiving sidecar asks its population gate (`Admission`), journals
   `in / open`, and delivers MIGRATE_IN.
5. Its mod spawns the organism; the sidecar closes its record and sends
   MIGRATION_ACK; the relay takes it home, and the home record is closed.

Every arrow can fail. The home sidecar may act on its own only when it holds a
**proof** that nobody took the organism: it was never sent; the destination
refused this very attempt; or the relay, in the session the attempt was
committed under, says it did not hand it over. With a proof it may try another
destination or bounce the organism home. Without one it waits, and after
`forwardTimeoutMs` records the organism *lost* and does nothing.

### What is hard

* **Crashes between two steps**, each of which is durable alone: the `sent`
  record and the frame; the rename of a compaction and the sync of its
  directory; the rotation of a ledger and the cursor that points into it; the
  receipt of a bundle and the deletion of its blobs; a process and its pid file.
* **Late answers**: refusals after a reroute, a reconnect or a relay restart;
  genome answers after a timeout gave the slot back.
* **Relay amnesia**: a restarted relay truthfully says of a frame its
  predecessor delivered that it never forwarded it.
* **Locks released in the middle**: between the dedup of an offer and its
  journal entry, between an operator's report and its application, between
  reading the map and numbering it, between three critical sections of one
  genome answer.
* **Clocks that never fire**, because a retry resets them or because something
  with priority cannot leave.
* **World loads**: the game goes back to its last save while the journal does not.
* **Disks that fail half-way**: short writes, failed truncates, failed syncs.

`PROJECT.json` lists each hazard at the line where it bites, with the properties
that would catch it going wrong, or a note where none does.

## 2. The modules

| Module | What it is |
|---|---|
| `Journal`, `JournalProofs` | the journal of one sidecar: log, memory, disk faults, kill and power cut; proved |
| `Journeys` | the abstract promise about organisms: a journey leaves once and ends once |
| `Custody`, `MCCustody` | home sidecar, relay and receiving sidecar; refines `Journeys` |
| `CustodyProofs`, `JourneysProofs` | its invariant and the refinement, proved |
| `Grid` | the map as operators: placement, splice, release, handover, the walk |
| `Slots` | the abstract promise about the map, over failing saves and restarts |
| `RelayMap` | connections, claims and operator acts; refines `Slots` |
| `SlotsProofs` | the map's invariant, and that the registry implements it |
| `MapWalk` | the sidecar's walk and the refusal chain over it, compared with the relay's |
| `Admission`, `Launcher`, `Enrollment` | one component each |
| `SendPace`, `WorldLink`, `Publish`, `Writer`, `WorldSave`, `Transport` | one component each, with their liveness |
| `Ledger`, `Gaps`, `GenomeTier` | the archive's three stores |
| `MetricsHistory`, `BrainHistory` | the archive's histories |
| `DedupWindow`, `Crossings`, `DedupShard` | the duplicate window, abstractly; the feed that refines it; one probed table |
| `Eviction` | one peer kept off the relay, and let back |
| `DedupProofs` | `DedupWindow`, `Crossings` and `BrainHistory`, proved |
| `ArchiveProofs` | `Ledger`, `GenomeTier`, `Gaps` and `MetricsHistory`, proved |
| `LinkProofs` | `SendPace`, `WorldLink`, `Writer`, `WorldSave` and `Transport`, proved |
| `PartsProofs` | `MapWalk`, `Admission`, `Launcher`, `Enrollment` and `DedupShard`, proved |
| `MCFiles` | `Journal`, `MetricsHistory`, `BrainHistory`, `Crossings` and `DedupShard`, run as one |
| `MCParts` | `RelayMap`, `MapWalk`, `Admission`, `Launcher`, `Enrollment`, run as one |
| `MCFair` | `Custody`, `SendPace`, `Publish`, `Writer`, run as one, fairly |
| `MCMod` | `WorldLink`, `WorldSave`, `Transport`, run as one, fairly |
| `MCGaps`, `MCArchive` | `Ledger`, `Gaps`, `GenomeTier`, run as one |

`Custody` treats a journal write as atomic and durable; `Journal` is about what
that takes. It treats an export and a spawn as one step each; `WorldLink` is
about what those take. It lets a destination refuse anything and a walk select
any world that has not refused; `Admission` and `MapWalk` say which and when.

### Journal

`file` is the log as a sequence of lines. A line is a record, or `Torn` (a
partial line without newline), or `Bad` (a complete line that does not parse:
what an append after a torn line produces). `synced` says how much of the file
an fsync covered, and `old` which earlier files a power cut can bring back,
because a rename became durable only with the directory sync. `mem` is
`j.states`; `told` is what callers were last told is durable. It is not part of
the program: it is what the promises are about.

`j.mu` is held through every method, so methods do not interleave with one
another; they interleave with crashes and with another process. An append is
three steps: the bytes reach the file (`BeginAppend`), then the fsync succeeds
(`FinishAppend`) or fails (`SyncFails`); a short write truncates back
(`ShortWrite`). A compaction is `BeginCompact`, `CloseHandle`, `Rename`,
`SyncDir`, each with its failure. `Open` replays, drops a torn tail and
compacts. `Kill` keeps the file; `PowerCut` leaves any image in `CrashImages`.
`ReaderReads` and `ReaderStats` are an `OpenReadOnly` in another process. A
behaviour has one disk, which fails in one set of ways, and each invariant says
which disks it is promised on.

### Custody

`jr[p][m]` is the journal entry of journey `m` at sidecar `p`, with the fields
of `journal.State` that decide anything. `world[m]` is the set of worlds a live
copy is in. `net` is a set of frames: the paths between two processes keep no
order across connections, and a frame leaves the set when it is read, dropped or
lost. `conn`, `view`, `nb` are the links, the last PEER_STATUS and the effective
neighbour of the last grant; `session`, `forwarded`, `draining` are the relay's.

| Action | Code |
|---|---|
| `Export` | `onMigrateOut`, up to the mod destroying its copy; the neighbour it read may be stale |
| `tickOutbound` = `Forward`, `TickReroute`, `WaitOrBounce`, `Lose` | `tickOutbound` with `forwardLocked`, `rerouteLocked`, `bounceLocked`, `loseLocked` |
| `BounceClockPasses`, `RefusalDeadlinePasses` | the deadlines the tick compares with the clock |
| `RelayOffer` | relay `onMigrationPayload`: draining, offline, queue full, or forwarded with a receipt that may be shed |
| `RelayDrops`, `SweepForwardRecord`, `Drain`, `RelayRestart` | the rest of the relay |
| `PeerStatus`, `Grant`, `Connect`, `Disconnect`, `Crash` | links and processes |
| `onMigrationPayload`, `Deliver`, `Spawn`, `onMigrateInAck`, `onMigrateInNack`, `tickInbound`, `Purge` | the receiving sidecar and the mod beside it; `Deliver` to `onMigrateInAck` also run at home after a bounce |
| `onMigrationAck`, `onForwardReceipt`, `onMigrationNack` | the answers, at home |

Time is reduced to which deadline has passed. A timeout may fire at any moment
after it is armed: the code compares wall clocks that the model does not bound,
so this is the weakest assumption.

### Journeys

Each journey has a set of worlds and a stage: `home`, `moving`, `landed`,
`gone`. `Leave` empties the world once; `Land` fills exactly one; `Vanish` ends
any number of moving journeys, since one broken link may lose several frames.
`Custody` maps onto it through `stage`, and `JourneysKept` is the refinement:
what landed stays, what is gone stays gone, however late an answer comes, and
only a moving organism is spawned.

### Grid, Slots, RelayMap

`Grid` is `grid.go` as operators on a record of width, height, reservations and
the counter that numbers them. `Slots` is what the relay promises of that map
with nobody in it: it places, releases and hands over, saves `ring.json` with
failures before and after the rename, and restarts from it. `RelayMap` adds who
is connected: accepting, replacing, claiming and dropping a connection are
steps of their own, because a handler reads a claim and then waits for the
registry's lock; an operator's act is a report, a confirmation and an
application, with the lock released in between.

### The parts

* `MapWalk`: over every rectangle up to the bound and every kind of its
  positions, one migrant is offered along the walk and refused while PEER_STATUS
  changes under it. `OneWalk` compares the sidecar's walk with `Grid`'s.
* `SendPace`: both buckets in quarters of a second, control frames charged to
  the same buckets, a wire that delays and bunches, the relay's one-second
  window wherever it begins.
* `Admission`: the organisms in the game, the deliveries before and after their
  spawn, and a channel of heartbeats and acknowledgements that loses what a
  connection held.
* `WorldLink`: `body`, `offered` and `minted` are the mod's, `jr` the journal's,
  and the wire is two sequences. A handler that passed the dedup and has not made
  its entry is a state of its own, so two sessions overlap there. `drop`, `load`
  and `crash` are the faults.
* `Publish`: a publish reads under `s.mu`, numbers under `p.mu` and sends under
  neither; `about` is what each goroutine has read so far.
* `Writer`: the loop of `conn.go` one lock, select or write at a time, against
  callers that send and close at any of those moments.
* `Launcher`: several launchers and one world's game; each file operation is a
  step and a launcher can be killed before any.
* `WorldSave`: one save is the lock, the write, the verification, the rotation,
  the promotion, the pruning and the receipt, and a game can be killed or a
  rename refused between any two. Several games share the directory. A new world
  grows and is written by a coroutine beside the save timer (`seed`). `host` is
  what is true of the machine: `"shared"`, that a file another game has open can
  be read and deleted, as in the native Linux build (`docs/support-matrix.md:34`),
  where Windows refuses both for `FileShare.None`; `"short"`, that the save
  interval is below the time a new world takes to grow.
* `Transport`: the game thread, the dial task and the pump's send and receive
  loops are processes; a queued frame says whether it was queued since the newest
  socket opened, and a loop whether it belongs to that socket. The flag (`Up`) and
  the generation (`Count`) are two steps, as they are two statements
  (`WebSocketTransport.cs:336`, `:337`), and so are a heartbeat's guard
  (`PumpHeartbeat`) and its send (`SendHeartbeat`), in between which the game
  thread does nothing else but the dial task goes on. A heartbeat is `late` when
  the connection that is newest was counted after its guard.
* `Enrollment`: the creation of a world in the launcher against the relay's
  store: the pending record, the request and its retries, the mint, the secret
  and the profile, with kills, lost answers and failing saves between them.
* `Eviction`: report, confirmation, expiry and the check at the door.

### The archive

* `Ledger`: records are numbered; a position is a file and an offset. Append,
  rotation, compression, retirement and save are split where a kill can fall. The
  read loop appends under the store's lock and folds under the archive's, and the
  tick loop saves and rotates in between: a save between an append and its fold is
  part of every run. `Troubles` names the windows the code itself leaves open, and
  `CountedOnce` is promised when a behaviour has none of them:
  - `between`: a save, or a kill in one, falls after a rotation was made (by an
    append that is not folded yet, or by the maintenance pass) and before the
    roll-up was told of it;
  - `quiet`: an append falls between a rotation of the maintenance pass and its
    being told, or that pass rotates between an append and its fold;
  - `emptyLive`: a start folds what is in segments beside an empty live file, and a
    save falls before that file's first record is folded;
  - `convert`: a start finds a saved position that is about a file rotated since,
    and a segment retired;
  - `splice`: a start finds a spliced roll-up file, and a segment retired;
  - `refused`: an append rotates and then cannot write its record;
  - `sync`: the fsync of an append fails.
* `Gaps`: the fetch of each hash with its ladder over peers, the per-session
  count of requests, answers whose storing happens outside the lock, and the
  `gq` lines of the roll-up file with their floor.
* `GenomeTier`: blobs are fresh or old; a bundle has a file, blobs, a remote copy
  and a receipt. Bundling, confirming, retiring and restoring each move one file
  at a time.
* `MetricsHistory`: a day is live, a closed segment, folded into the roll-up, or
  retired; the nightly pass takes one step at a time, and a pass can be killed or
  meet a failing read.
* `BrainHistory`: per genome and bucket, what memory, the dirty sets and each line
  of the file hold; the disk may tear a line or forget a directory sync.
* `DedupWindow` is two generations and a clock, and promises that a fact is
  recorded once in a span. `Crossings` is the feed: copies of offers,
  acknowledgements and refusals in any order, the offers pending, the sweep that
  ages them, the ledger and the replay of a start. `DedupShard` is one table:
  fingerprints that collide, linear probes, and a doubling at three quarters.

## 3. Properties

| Property | Of | States |
|---|---|---|
| `CrashSafe` | `Journal` | whatever instant the machine dies at, the log replays to what callers were told, or to that plus the record being written |
| `LogMirrorsMemory` | `Journal` | between calls the log replays to the state in memory, and a failed append leaves nothing behind |
| `AtMostOnePlace` | `Custody` | of one journey at most one of these exists: a home journal free to produce it, a frame that carries it or proves it undelivered, a receiving journal that will deliver it, a live copy |
| `NoSilentLoss` | `Custody` | an organism that has no place is one the home journal records as sent or lost |
| `AckMeansDelivered` | `Custody` | a delivery recorded at home is a live copy elsewhere |
| `OnlyTheCurrentAttempt` | `Custody` | while an attempt is unanswered, every frame that could answer it is about that attempt |
| `NoRetryInAChain` | `Custody` | inside a bounded refusal chain no world is tried twice |
| `JourneysKept` | `Custody` | the refinement of `Journeys` |
| `SentResolves`, `EveryExportEnds` | `Custody` | liveness: a forward is answered or recorded lost; on a stable link an export ends |
| `MapSound`, `AddressesRetired` | `Slots` | no two reservations share a number, a position or a peer; a released number is never bound again |
| `MapKept` | `RelayMap` | the refinement of `Slots` |
| `LiveKeepsItsSlot` | `RelayMap` | no step takes the slot from under a peer that stays connected |
| `ExhaustedMeansAll`, `OneWalk` | `MapWalk` | a chain that gives up was refused by every deliverable world; sidecar and relay walk alike |
| `NeverShed`, `LinkDrains` | `SendPace` | a paced peer is never closed for capacity; its backlog drains, the large frame too |
| `GateHolds` | `Admission` | deliveries never push the world past the limit |
| `DestroyedOnCustody` | `WorldLink` | the mod destroys an organism only on durable custody |
| `OneCopyKept`, `OffersResolve` | `WorldLink` | any one fault leaves no second copy (`HealedAfterOneFault`) and a first departure is never lost in one world session (`FirstDepartureKept`); no organism stays inert |
| `LastStateArrives` | `Publish` | every peer comes to have the newest map: coalescing drops no last state, and the timer repairs an older map numbered later |
| `WriterKeepsFaith` | `Writer` | few ordinary frames pass a due paced one (`BurstBounded`); a clean close loses nothing it keeps (`CleanCloseKeeps`) |
| `WriterGetsOn` | `Writer` | every close ends, and a paced frame is not starved |
| `RecordsAreTrue` | `Launcher` | a running game can be found from the files, and no game obeys a quit meant for an earlier one |
| `OneIdentityEach` | `Enrollment` | a world with a profile authenticates (`WorldAuthenticates`), and no identity on the map is out of reach of its root (`NothingStranded`) |
| `SavesAreSound` | `WorldSave` | what a receipt reports is on disk (`ReceiptOnDisk`), unless a save comes due before a new world is written; and one game at a time holds the save lock (`OneHoldsTheLock`), where an open file can be neither read nor deleted |
| `DeferredIsSaved` | `WorldSave` | a save that was put off is made in the end |
| `FirstIsItsOwn` | `Transport` | the first frame of a connection was queued since its socket opened, and is no heartbeat that was decided on since it was counted |
| `ModSettles` | `Transport` | once the faults stop, the mod has a connection again and knows of it |
| `CountedOnce` | `Ledger` | a record its writer has gone past is in the aggregates, once, whatever else the two loops do and wherever a kill falls, outside of the windows of `Troubles` |
| `QueueIsTrue` | `Gaps` | a peer's slots are its requests (`SlotsAccounted`); a kill forgets no hash (`NoGapForgotten`) |
| `GapCloses` | `Gaps` | what a peer holds is fetched or ages out |
| `StoredStays` | `GenomeTier` | a genome is on the host or in a confirmed copy (`NoBytesLost`); what was held reads as held throughout its retirement (`HeldStaysHeld`) |
| `EveryDayOnce` | `MetricsHistory` | no day is missing from the record (`HistoryKept`), and none is in it or in a view of it twice (`FoldedOnce`) |
| `MeasurementsKept` | `BrainHistory` | on a disk whose writes are whole, a measurement that a save has written is in the history after every later start (`KillLosesLittle`), and no more is held of a bucket than was seen (`HeldWithinSeen`) |
| `RecordedOnce` | `DedupWindow` | a fact is recorded once in a window |
| `HopsAreDeliveries` | `Crossings` | a hop in the feed was delivered (`HopsAreTrue`), and is there once |
| `ShardIsSet` | `DedupShard` | a table holds what was added, once each, and finds it, through collisions and doublings |

`AtMostOnePlace` counts frames and journals, not only live copies. A duplicate
is then seen at the step that makes it possible, for instance a bounce while a
payload is under way, and not only when both copies have been spawned.

## 4. The runs

| Run | Instance | Shows |
|---|---|---|
| `files` | `Journal` on five disks, `MetricsHistory`, `BrainHistory`, `Crossings`, `DedupShard` | what a disk keeps, with kills at every step (1.8 million states) |
| `custody` | 3 worlds, 1 journey, 2 reroutes, 1 relay restart | the five safety properties |
| `parts` | `RelayMap` to `Enrollment`, one per behaviour | the map and its refinement of `Slots`, the walk, the gate, the launcher's files, enrolment (1.3 million states) |
| `fair` | `Custody` (2 worlds, 1 journey, 1 reroute, 1 relay restart), `SendPace`, `Publish`, `Writer`, one per behaviour, fairness | `SentResolves`, `EveryExportEnds`, `JourneysKept`; the others' safety and liveness |
| `mod` | `WorldLink`, `WorldSave`, `Transport`, one per behaviour, fairness | their safety and liveness |
| `archive` | three stores, one per behaviour | the properties of `Ledger`, `Gaps`, `GenomeTier` |
| `custody_stall` | 2 worlds, 2 crossing journeys | `SentResolves` is violated (finding) |
| `worldlink_home` | 1 organism, 2 crossings, a sidecar crash | `HomecomersStay` is violated (finding) |
| `relay_lift` | 1 peer | `LiftAdmits` is violated (finding) |
| `ledger_splice` | 3 records, 2 kills, a torn roll-up | `EveryRecordCounted` is violated (finding) |
| `world_saved` | 1 game, one kill | `SavedIsLoaded` is violated (finding) |
| `launcher_lock` | 3 launchers, a lock older than `lockStaleAfter` | `RunningIsRecorded` is violated (finding) |

`parts`, `fair`, `mod`, `archive` and `files` put components beside one another that share
no state. A
variable `part`, chosen at the start and never changed, says which one moves;
the others stay in an initial state. Every behaviour is thus a behaviour of one
component, and the properties are the component's own.

### The bounds, and why they are enough

* *Custody*: three worlds are home, a destination that refuses, and a third to
  walk on to; two suffice for crossing journeys and liveness. With two reroutes a
  chain can leave the first destination, be refused by the second, and would
  return to the first if the walk let it. One relay restart lets an attempt of
  the first session meet the relay of the second; `RelayRestart` also breaks
  every link, so a longer history repeats it. In `custody` it restarts before the
  first reroute, and the journey is followed to that (`RestartsSoon`); without a restart
  both reroutes are. Journeys meet only through
  `hasPendingAck`, which removes behaviour, so one journey is the harder case for
  safety; `custody_stall` has two. The proofs are for any number.
* *Journal*: no append starts at a log longer than `MaxLines`. Five lines hold two
  entries, updates of both, a purge, and the compaction that follows; the worse
  the disk, the shorter the log. A reader in another process has a log of one
  line.
* *RelayMap*: two peers dispute a slot, and each may hold a connection that was
  replaced. Three numbers are one more than the peers need, so one is retired and
  reissued if the code would. The proofs of `Slots` are for any number.
* *MapWalk*: every frame up to 3 by 2 with every combination of hole, offline and
  deliverable, so a walk wraps, skips, and turns into the full map in both
  directions.
* *SendPace*: the ceilings are multiples of eight, as the shares are eighths; the
  large frame is smaller than the deferred share or larger than it; the backlog
  lasts for more than one window of the relay. A large frame of 1 or 3 units and
  one quarter of lateness are what the ceiling of 8 has room for (`WindowFits`,
  section 5): one more quarter, or one more unit, and TLC finds the frame that is
  shed.
* *Admission*: a limit of 3 and hysteresis of 1, learned limits between 1 and 2;
  a full queue, one unseen arrival and a lost acknowledgement meet.
* *WorldLink*: one organism with three crossings can leave, come home and leave
  again; one fault of each kind. Organisms do not interact.
* *Publish*: three changes, the fewest for which an old map can be numbered after
  two newer ones. *Writer*: a queue of two and a burst of two, with two slots
  taken by another connection. *Launcher*: three launchers (the lock's holder, one
  that breaks it, one that comes between), three games and two kills.
* *Ledger*: three records over two days and two kills, so that a start can itself
  be killed. *Gaps*: two hashes compete for one slot of a peer that holds both, or
  one hash is killed and aged. *GenomeTier*: two hashes, two bundles, one kill, and
  one bundle waiting for its receipt.
* *WorldSave*: two games want the lock and one of them has its files followed, with
  one rotated copy kept, one deferral, and one kill or failed rename. It runs on a
  machine that is `shared`, where the receipts are promised, and on one that is
  `short`, where the lock is. One that is neither does less: its save timer runs in
  fewer states than on the second, and as the first may give up a lock it only looked
  at, the files of its games see no order of steps that they do not see there.
* *Transport*: a queue of four for the code's 256, one delivery, two closes and two
  world loads. Two closes are what a heartbeat needs that passes its guard between
  the flag and the generation: one ends the connection it is about, and it is itself
  counted as the other, for the sidecar may refuse it. With a queue of three the game
  thread can fill it between the two halves of `DrainOutbound`, which empties the queue
  and then takes the signal's permits: the permits of the queued frames go, a full
  queue takes no frame that would bring another, and the send loop is parked for good.
  The code needs 256 frames in that moment.
* *Enrollment*: two data roots behind one address, so that the limit per address
  refuses one of them; two identities each, room for two on the relay, three
  mishaps.
* *MetricsHistory*: four days with a window of one, so that a day is folded and
  retired while two newer ones exist; one kill, failing reads. *BrainHistory*: two
  genomes in two buckets, a file of three lines, two kills.
* *Crossings*: two worlds, two offers and one copy that comes twice. `DedupWindow`
  runs alone with two keys, a window of three and a clock that passes it three
  times, so that both generations rotate. Under the copies of `Crossings` the clock
  passes the window with one offer, and with two takes a single tick, to bound the
  states; the proof is for any clock. *DedupShard*: eight
  fingerprints that collide, from four slots up, so that probes wrap and the table
  doubles twice.
* `SYMMETRY` is used over worlds, peers or entries no constant distinguishes, in
  `custody`, `parts` and `files`, which check safety only.

`CHECK_DEADLOCK FALSE` is set where a component really stops: a chain that ended,
a closed connection, launchers that are all done or killed, a bounded number of
records or crossings. `Custody` never stops: `custody` and `custody_stall` check deadlock.

### Fairness

Nothing makes a link come up, a frame arrive or a mod answer, unless it is said
here.

* *Custody*: weak fairness of the tick for each journey (`tick` walks every entry
  each second), of the deadlines (time passes), of the relay's periodic
  PEER_STATUS and grants, and of marking an acknowledgement that can leave.
  `EveryExportEnds` moreover supposes that from some point on no sidecar crashes
  and no link changes: a sidecar that restarts for ever restarts its in-memory
  no-lane clock for ever.
* *SendPace*: time passes, the limits are read, and the client's loop tries each
  kind of deferred frame it may send.
* *WorldLink*: the mod reconnects and applies what it queued, once a frame; the
  read loops handle what arrived. Faults are bounded, never fair.
* *Publish*: each goroutine that has begun goes on, the publisher's coalescing
  delay and the freshness timer end, the peer reads what it was sent.
* *Writer*: the write loop goes on, and the shared schedule's next slot comes.
* *WorldSave*: a running game goes on with the save it has begun, and its timer comes
  round. *Transport*: the dial task, both loops of the pump and the game thread go
  on, which also sends the heartbeat it has decided on; closes are bounded.
* *Gaps*: the pump and the reaper tick, a request's timeout passes, a world that is
  away comes back, and a holder that is asked again and again answers with the
  genome once (strong fairness: an answer may be lost any number of times, not
  always).

In `MCFair`, `MCMod` and `MCArchive` each of these is stated for the behaviours of its
own component, by the guards `InCustody`, `InPace`, `InPublish`, `InWriter`, `InLink`,
`InSaves`, `InTransport` and `InGaps`.

## 5. What is proved

TLAPS proves the following for every value of the constants that the modules
allow: any number of peers, journeys, genomes, games or fingerprints, any bound on
reroutes, restarts, kills or queues. A theorem's own hypothesis is in the last
column; the modules' assumptions (bounds are natural numbers, "nobody" is nobody)
stand where the constants are declared.

| Theorem | In | Statement | Under |
|---|---|---|---|
| `TypeCorrect`, `JourneyInvariant` | `CustodyProofs` | `[]TypeOK`, `[]Inv` | |
| `AtMostOnce` | `CustodyProofs` | `[]AtMostOnePlace` | |
| `Accounted` | `CustodyProofs` | `[]NoSilentLoss` | |
| `AcksTellTheTruth` | `CustodyProofs` | `[]AckMeansDelivered` | |
| `AnswersAreCurrent` | `CustodyProofs` | `[]OnlyTheCurrentAttempt` | |
| `ChainsMoveOn` | `CustodyProofs` | `[]NoRetryInAChain` | |
| `Refinement` | `JourneysProofs` | `Custody` implements `Journeys` | |
| `SlotsTypes`, `MapAlwaysSound` | `SlotsProofs` | `[]SlotsTypeOK`, `[]MapSound` | |
| `AddressesStayRetired` | `SlotsProofs` | `[]AddressesRetired` | |
| `GrantsAreDurable` | `SlotsProofs` | a grant that was answered is in `ring.json` until an operator takes it back | saves fail only before the rename |
| `RegistryKeepsTheMap` | `SlotsProofs` | `RelayMap` implements `Slots` | |
| `ConnectedPeersKeepTheirSlots` | `SlotsProofs` | `LiveKeepsItsSlot` | |
| `JournalTypesHold`, `JournalInvariant` | `JournalProofs` | `[]JournalTypeOK`, `[]JournalInv` | |
| `CrashesAreSafe` | `JournalProofs` | `[]CrashSafe` | |
| `LogMirrors` | `JournalProofs` | `[]LogMirrorsMemory` | |
| `WindowInvariant`, `DuplicatesRefused` | `DedupProofs` | `[]DedupInv`; `RecordedOnce` of the window | |
| `CrossingsUseTheWindow`, `FactsRecordedOnce` | `DedupProofs` | `Crossings` implements `DedupWindow`; so `RecordedOnce` of the feed | |
| `FeedIsTrue` | `DedupProofs` | `[]HopsAreTrue` | |
| `FeedShowsItOnce` | `DedupProofs` | `[]HopsAreDeliveries` | the windows fit into the span |
| `MeasurementsAreKept` | `DedupProofs` | `[]MeasurementsKept` | |
| `TierInvariant`, `GenomesStay` | `ArchiveProofs` | `[]TierInv`; `[]StoredStays` | |
| `GapsInvariant`, `TheQueueIsTrue` | `ArchiveProofs` | `[]GapsInv`; `[]QueueIsTrue` | |
| `EveryDayStaysOnce` | `ArchiveProofs` | `[]EveryDayOnce` | saves of the roll-up succeed |
| `EveryRecordOnce` | `ArchiveProofs` | `[]CountedOnce` | none of the windows of `Troubles` occurs: a kill may fall anywhere, and a save between an append and its fold unless the append rotated; saves are closer together than midnights, and a segment leaves the host after it was saved |
| `PacedIsNeverShed` | `LinkProofs` | `[]NeverShed` | `WindowFits` |
| `CustodyBeforeDestruction` | `LinkProofs` | `DestroyedOnCustody` | finitely many organisms |
| `OneCopyThroughOneFault` | `LinkProofs` | `[]OneCopyKept` | finitely many organisms, at most one fault |
| `WriterKeepsItsFaith` | `LinkProofs` | `[]WriterKeepsFaith` | |
| `SavesStaySound` | `LinkProofs` | `[]SavesAreSound` | the receipt: no save comes due before a new world is written; the lock: an open file can be neither read nor deleted, as on Windows and not in the native Linux build |
| `FirstFrameIsItsOwn` | `LinkProofs` | `[]FirstIsItsOwn` | a heartbeat whose guard passed before the generation was raised is not excluded |
| `ExhaustionIsFull`, `TheWalksAreOne` | `PartsProofs` | `[]ExhaustedMeansAll`, `[]OneWalk` | |
| `GateStaysHeld` | `PartsProofs` | `[]GateHolds` | |
| `RecordsStayTrue` | `PartsProofs` | `[]RecordsAreTrue` | `OneBreaks`: nobody comes between the look at a stale lock and its removal, and a holder is done before its lock is stale; the forced stop of a game that could not be recorded succeeds |
| `OneIdentityStays` | `PartsProofs` | `[]OneIdentityEach` | one creation at a time in a root |
| `ShardStaysASet` | `PartsProofs` | `[]ShardIsSet` | |

The hypotheses of `FeedShowsItOnce`, `EveryDayStaysOnce`, `EveryRecordOnce`,
`PacedIsNeverShed`, `OneCopyThroughOneFault`, `SavesStaySound`, `FirstFrameIsItsOwn`,
`RecordsStayTrue` and `OneIdentityStays` exclude something the program can do. Those of
`CountedOnce`, `SavesAreSound` and `FirstIsItsOwn` are part of the property itself.
Without them TLC finds the property violated, and what they exclude is a finding
or a divergence of section 7.

### Custody

`AtMostOnePlace` is not inductive. Whether a bounce duplicates an organism
depends on what can still be under way when it happens, and that depends on how
the entry came to be `pending` or `refused`. `Inv` says so, one conjunct per
place:

* `HomeAlone`: while home may send or deliver it, there is no frame that carries
  it, no receiver that holds it, and no other world that has it;
* `OneCarrier`, `OneHolder`, `OneWorld`: at most one of each, and a frame
  excludes a holder, which excludes a live copy;
* `HomeEntry`, `AwayEntries`: what each status, direction and handoff implies
  about the worlds. A bounced record that is closed, for instance, means the
  organism is home;
* `FramesTrue`: no frame leads home, and an acknowledgement comes from a world
  that has the organism;
* `Attempt`: what is under way is about the current attempt.

The argument is a handover. Exactly one thing at a time carries the right to
produce the organism: the home entry, then the offer, then the payload, then the
receiving entry, then the world; a refusal frame carries it back. The relay may
shed or duplicate receipts freely, because no conjunct is about them. A lost
frame loses the right with it, and home is left in `sent`, from which nothing
but an answer to this attempt, or the timeout, moves it.

The lemmas follow the groups of `Next`: `MigStepJourney` (the export and the
tick), `FrameStepJourney` (the handlers of frames), `PeerStepJourney`,
`DeliveryStepJourney`, `RelayStepJourney`. Each shows that `Journey(m)` survives
for the journey the step touches; `OtherJourneys` and `Quiet` deal with the rest.

`NoRetryInAChain` is inductive given `TypeOK`: a destination is recorded as
refusing in the write that ends its attempt, and the only way on from there
goes through `Untried`.

The refinement rests on `Inv`. `Export` is a `Leave` and `Spawn` is a `Land`:
`Inv` says that the world was, or still is, empty. Every other step leaves each
journey `Still`: its worlds are unchanged, it is not back at its start, and if
the organism was nowhere it still is. `NowhereShape` is the heart of the last
part: an organism that is nowhere is one home holds as `sent` or `lost` (or has
purged), nobody else ever heard of, and no frame speaks of.

### The map

Memory and `ring.json` differ after a failed save: before the rename the file
has the old map; after it the file has the new one, and memory goes back to the
old. `MapSound` and `AddressesRetired` are therefore stated of both, and the
invariant relates them: the numbers either has issued are at most its own
counter, a retired number is below both counters, and what was told is in both.
Placement inserts a row or a column and moves others; the lemmas on `Grid` say
that a splice maps distinct positions to distinct positions inside the new
rectangle.

The registry implements that map (`RegistryKeepsTheMap`): under `RelayInv` every
claim, hand-over, release and restart of `RelayMap` is a step of `Slots`, and every
other step leaves it alone. `RelayInv` adds to the map's soundness that neither side
of the rectangle is empty alone (`Proper`), and that only a connection that is
somebody's has a claim read (`ReadersKnown`). A claim that fills a hole needs one to be
there when fewer slots are taken than the rectangle has; that is a counting argument over the positions of
the rectangle.

### The journal

What a log replays to is a recursive function of its length. The lemmas about it
(`SamePrefix`, what `Append` adds, what `GoodPrefix` keeps, that a compacted log
replays to what it was written from) are inductions, and each is made by the least
counterexample: of the lengths at which two replays differ, take the smallest,
which exists since `<` is well-founded on the naturals, and look at the line
before it.

`JournalInv` is stated by the kind of disk. `Intact`: where no truncate fails, a
running process has a log of records only. `Mirror`: where no fsync fails, the log
replays to memory, and to memory with the record of an append under way.
`OldGone`: where no directory sync fails, no append runs over a rename that may be
undone. `Recoverable` is the set of states the disk can come back as. On a disk that
is only short of room it is bounded by what was reported and that with the record
being written (`Exact`); where syncs fail, what remains is that every state it can
come back as knows each open entry that was reported (`Kept`).

### The archive

* *Cold tier* (`TierInv`): a receipt implies the remote copy (`ReceiptsTrue`); what a
  pass retires has its receipt and its manifest, and what it has yet to delete is in
  the index already (`Retiring`); a restore works on a bundle with a manifest
  (`Restoring`).
* *Gap queue* (`GapsInv`): the per-session count is the number of fetches of that
  session and of requests whose gap has gone (`Counted`, `StraysOf`); such a request
  is of a hash that is held, so its gap does not come back (`Orphans`); an answer
  being stored names a hash that is held (`Stored`); and the next save, or the
  crossings past the file's floor, name every gap (`Marks`). Hashes are finitely many.
* *Population history* (`MetricsInv`): segments are named by their days and lie
  behind one another and the live file (`SegmentsAreNamed`, `DaysInOrder`), the
  roll-up has exactly the days of the segments it says it folded (`RollupTrue`), and
  a segment that is gone is folded in the roll-up on disk (`GoneIsFolded`). A save
  that fails breaks the last part, and the theorem excludes it (section 7).
* *Ledger* (`LedgerInv`): in a behaviour that has none of `Troubles` there are boundaries: a
  number for each source, which is the last record in it, rising from one source to
  the next (`Laid`), and a number of records that the roll-up on disk stands for
  (`Saved`). The boundaries say what each file holds and at which offset a record
  lies, whatever form the file has (`PositionIs`, `HeldAt`). What is in memory agrees
  with them: the count of records (`Told`), the aggregates (`Tallied`), the length the
  process believes the live file has (`Measured`) and the position it has folded to
  (`Pointed`). A rotation adds a boundary and a record raises the last; a
  retirement takes what lies at or below the saved number, so that no record a replay
  needs is gone; and the next start folds from the saved position exactly what is
  above it (`ToFoldIs`). Between an append and its fold memory, and what a save there
  makes of it, is one record behind the file: `Tallied` and `Pointed` then speak of all
  records but that one. If that append rotated, the cursor still names the file before,
  and what makes `Saved` hold is that no save falls before the roll-up is told (`Untold`). The positions are of a recursive sum, so the step lemmas use
  the two boundaries beside a source and never the sum. In a behaviour with one of
  `Troubles` only the types are kept (`LedgerTypes`).
* *Brain history* (`BrainInv`, of a disk whose writes are whole): the file tells of
  each bucket what was saved (`FileIsSaved`), the lines being written say what memory
  says (`WriteIsTrue`), no line is ahead of memory (`NothingAhead`), and what is
  marked as held was seen (`MarkedIsSeen`).
* *Duplicate window* (`DedupInv`): a fact still inside its span is in one of the two
  generations, and the generation it is in leaves late enough. Each step of the feed
  is a step of the window or leaves it alone, so the window's theorem is the feed's.
* *The feed* (`CrossingsInv`): copies and pending offers are of offers that were made
  (`TrueInv`), and while a hop is shown, or an early acknowledgement waits, the window
  still has the acknowledgement's key (`OutlastsTheFeed`, `OutlastsTheAck`). That
  needs `HopWindow + CorrelationWindow + ScanEvery <= Span`, which the defaults
  satisfy: 24 hours and 2 minutes against 48 hours.
* *One table* (`ShardInv`): every key lies where its own probe ends, and at most
  three quarters are taken, so that a probe finds an empty slot; that the probes
  reach every slot is modular arithmetic. A doubling adds the keys one by one, a
  recursive function again, and again the least slot at which the new table went
  wrong is looked at.

### The links

* *Pace* (`PaceInv`): the frames behind one that is late were paid with what the
  bucket held and gained since, and so was what the relay's window has counted
  (`Paid`); the bucket holds its reserve, less what a large frame has borrowed.
  With a share of an eighth of the ceiling `C`, a lateness of `Delay` quarters and the
  `Owed` part of a large frame beyond the share, no window counts more than `C` if
  `(4 + Delay) * C/8 + Owed + 1 <= C`, for frames and for bytes. This is `WindowFits`.
  It is not slack: at a ceiling of 8 TLC finds the shed frame at the first value
  beyond it, in lateness and in size. Ceilings are multiples of eight in the model,
  so that the shares are whole; the code computes them in fractions.
* *Custody before destruction* (`LinkInv`): every acknowledgement on the way to the
  mod, or about to be sent by either of two overlapping handlers, is of a migration
  the journal has, and no step takes an entry back.
* *One copy* (`OneCopyInv`, over `LinkInv`). The invariant speaks of what is under way
  by migration: acknowledgements, refusals, deliveries, offers and the steps of the two
  handlers. Something stands for an organism that is not in this world (`Token`): an
  open departure in the journal, a delivery the mod has not handled, or its being
  abroad, and never two of them (`OneToken`).
  - `Grounds`, at all times: a number that is mentioned anywhere was given
    (`Bounded`); an inert organism has an offer and only an inert one has
    (`Frozen`); a greeted session is a known one (`Greeted`).
  - `Lone`: until a handler may be left over from a lost connection, an organism's
    one offer is the only thing under way about its departure, in one place, and a
    refusal of it means that the journal has no entry (`Undisturbed`).
  - `InFirstWorld`: an organism that is alive and yet stands elsewhere is resting,
    and an acknowledgement is on its way that destroys it (`LiveAway`). This is the
    state a late handler makes: the old connection's handler refuses or answers
    while the replayed offer is journaled. A refusal that revives such an organism,
    and a second handler past its check, have the acknowledgement behind them as well
    (`NackAway`, `Rechecked`). What left for the first time can be traced
    (`Traced`), so that it is not lost.
  - `AfterLoad`: of a copy that a load brought back, on its first journey, the
    sidecar has yet to greet the world, or the reassertion is on its way.

  One fault is what the code bears. With two TLC finds the second copy in
  fourteen steps: a world is loaded, its greeting is read, and the connection ends
  with the reassertion in it; the session is known by then, and it is not sent again.
* *Writer* (`WriterInv`): no more ordinary frames have passed a due paced one than the
  loop counted, and what it counts stops at the burst (`Counted`); between two slots
  nothing has passed (`ForgottenBetween`); the loop turns to the paced queue only when
  it has something or is dropped (`PacedWaits`); and it ends with nothing of what a
  clean close keeps (`EndsEmpty`). The burst is at least one, as the relay's is.
* *World saves* (`SaveInv`): where an open file is safe from others, the games that have
  the lock file open are at most the one that made it (`LockHeld`). Where the timer waits
  for the seed, a world that is still seeded has nothing reported, and the reported save,
  or a newer one, is the live one, or the youngest rotation while there is no live one
  (`Kept`).
* *Transport* (`TransportInv`): once the queue was drained it has only frames queued
  since the socket opened (`FreshOnceOpen`); the flag is up only between the opening and
  the end (`FlagIsTrue`), and the newest connection is learned of only once its loops
  run (`NewestUnknown`); and while a first frame is awaited no heartbeat is next
  but one that `Count` found queued, or past its guard, and called late
  (`NextIsNoHeartbeat`).

### The parts

* *Walk*: the positions of a rectangle are a torus. A step forward and a step back
  undo one another and the steps along an axis reach every position of it
  (`StepBack`, `StepsReachAll`), from the uniqueness of quotient and remainder; so a
  chain that returns to its start has asked everybody, and the relay's walk over
  reservations comes to the world the sender's walk over positions comes to.
* *Gate* (`AdmissionInv`): acknowledgements under way are of deliveries that were made
  (`AcksAreOwed`), and the population the gate knows, or would know from any
  heartbeat under way, is at least what is alive less what it admitted since
  (`PopulationIsFair`, `BeatsAreFair`). `Hysteresis` and `MinSamples` are at least one,
  as `applyDefaults` makes them. The median is found by rank, so that it is bounded by
  the budgets it is taken of.
* *Launcher* (`LauncherInv`): one process comes at a time, who is inside holds the lock,
  and who breaks it breaks a dead one's (`LockInv`); who is inside knows what the pid
  file says (`InsideKnows`), which names the youngest game (`NamesTheYoungest`).
* *Enrolment* (`EnrollmentInv`): at each step of a creation, what is on its disk
  (`DiskAt`) and what it carries (`CarriedAt`); and every identity that was spoken of, in a
  request, in the relay's memory or in its file, is in the pending record or the
  secret of its own root.

## 6. What is only model-checked

* Liveness, and everything under fairness, which is out of the prover's reach:
  `SentResolves`, `EveryExportEnds`, `LinkDrains`, `OffersResolve`, `LastStateArrives`,
  `WriterGetsOn`, `DeferredIsSaved`, `ModSettles`, `GapCloses`.

Every invariant and every action property that a passing run checks is stated by a
theorem of section 5. An induction over data by the library's induction theorems is
not possible, as no installed prover instantiates their operator parameter; the
least-counterexample argument of `JournalProofs` and `PartsProofs` takes its place
where a recursive function is reasoned about. Modules with a theorem therefore
declare no `RECURSIVE` operator.

## 7. Findings

Each is a disagreement between what a comment, a contract or a report says and
what the code does, shown by a run that ends in a counterexample.

* **An owed acknowledgement suspends every outbound deadline**
  (`sidecar.go:545`, run `custody_stall`). With the relay link down it cannot
  leave, and no entry is ever bounced or recorded lost until the link returns.
* **A reasserted departure destroys an organism that came home**
  (`contracta_server.go:997`, run `worldlink_home`). A restarted sidecar has
  forgotten which sessions it served, takes the one it is serving for a new one,
  and reasserts every departure. `contract-a.md:1747` says that destroys a copy a
  rollback resurrected; an organism that came home under a new migrationId has the
  same entityId.
* **Lifting a timed eviction evicts again** (`admin.go:278`, run `relay_lift`). The
  report of a lift carries the remaining period, and the same field tells an
  eviction from a lift when it is applied.
* **A save spliced onto a torn line is dropped** (`rollup.go:1391`, run
  `ledger_splice`). The next start reads the state before both saves; what a retired
  segment held is counted no more.
* **A save killed between its two renames is not loaded** (`WorldSaver.cs:488`, run
  `world_saved`). The live save has become a rotation and the new one has not taken
  its name; the next start finds no file under the world's name and seeds a new
  world beside the rotated copy.
* **A start can outlive its lock** (`lock.go:59`, run `launcher_lock`). A lock is
  broken by age while its holder waits for the slot or the mod; two starts then run
  two games and record one.

### Divergences without a run of their own

They were met while modelling, and the model or its comments carry them. A
property that is defined and that no run checks states the claim, and TLC
violates it.

* *A failed fsync leaves a phantom record* (`journal.go:982`). Only the two
  write-error paths truncate. The caller is told the append failed, and the next
  `Open` replays the record. `LogMirrorsMemory` is therefore not promised on a disk
  whose syncs fail.
* *A failed directory sync is forgotten* (`journal.go:866`). Compaction reports it,
  but custody goes on being acknowledged out of a file whose name is not durable;
  `CrashSafe` is not promised there.
* *A read-only open may truncate a live journal* (`journal.go:418`): it takes what
  was appended between its last read and its stat for a torn tail
  (`Journal!ReadOnlyChangesNothing`).
* *A receipt can contradict a true refusal* (`contractb_client.go:1085`). A
  peer-refusal chain offers the same destination again under the same reroute
  count; the receipt of the first offer then defeats the relay's exact refusal of
  the second, and the organism is recorded lost although nobody has it.
* *A world load and a reassertion can duplicate, and a bounce can lose, more than
  contract A allows for* (`contracta_server.go:675`, `:997`;
  `contract-a.md:1748`, `:2477`). `HealedAfterOneFault` and `FirstDepartureKept` are
  the parts that hold: a copy the load brought back and that the mod offers again
  before the reassertion reaches it is a new migration, and an organism bounced
  while the mod never heard the acknowledgement is offered to a mod that still
  holds it. A reassertion that is lost with its connection is not sent again, as the
  session is a known one by then.
* *The last grant can be dropped* (`relay.go:1700`: "it MUST NOT drop the last
  one"). A claim's answer and a publish number their grants under one lock and send
  them after it (`Publish!LastGrantIsTruth` fails in the ways `admin` and `claims`).
  Nothing repairs a grant; a status is repaired by the timer.
* *A large frame against small limits* (`sendpace.go:139`). An 8 MiB payload is
  called legal on this wire and a full bucket admits it, but the relay's window is
  one second of the byte ceiling, 4194304 B by default (`contractb/limits.go:39`): a
  payload over 4 MiB closes the connection whenever it is sent, and one over about
  half of that can, behind small frames the wire held for a quarter of a second.
  `NeverShed` is promised under `WindowFits`, which says exactly when.
* *A hash that crossed again ages out by its first crossing* (`eviction.go:191`;
  `Gaps!StillWanted`).
* *A failed save of the population roll-up loses days* (`metricsseg.go`).
  `foldSegment` marks a segment folded in memory; when the save behind it fails, the
  next pass retires the segment because it is folded already, and a kill then leaves
  the days nowhere, against "THE FOLD PRECEDES THE RETIREMENT, always"
  (`MetricsHistory!HistoryKept` with `"save"` among `PassFaults`). Its rename is not
  followed by a directory sync.
* *A duplicate window shorter than 24 hours and 2 minutes* (`-dedup-window`) may show a
  hop twice: a late copy of its acknowledgement is new again while the hop is shown.
  A start also rotates the window from the present and not, as the comment on the
  replay has it, from the records. The key is marked before the ledger has the record,
  so that a fact whose append fails is refused afterwards.
* *A torn line of `brains.jsonl`* is glued to the next save and lost at the replay
  after it, with the line it was glued to (`BrainHistory!KillLosesLittle`, on such a
  disk). `Save` forgets what was dirty before a write that can fail, and a failed
  directory sync of a compaction leaves the handle on a file no name leads to. After
  a restart inside a bucket more can be counted held in it than the process saw;
  `HeldWithinSeen` speaks of buckets begun since the start.
* *A connection's first frame need not be CONFIG_UPDATE* (`contract-a.md:628`): a
  delivery of the connection before, answered when the world goes away and the next
  socket is open already, precedes it (`Transport!FirstIsConfig`), and the sidecar
  closes. *A halt does not hold* at once (`contract-a.md:189`, `:1642`): the game
  thread learns of a fatal close from its queue, and the task may have dialled again
  by then (`Transport!HaltHolds`).
* *Two creations in one data root* (`enroll.go:123`) share its pending record; the
  second overwrites the identity the first has asked the relay to enrol (`Enrollment!OneIdentityEach` with `Together = 2`).
  *A credential whose save fails behind its rename* (`peercred.go:402`, `:423`) is in
  the file and not in memory: the operator is told that it failed, and after a
  restart the relay knows a secret that nobody was shown.
* *A save lock is broken under its holder where an open file can be deleted*
  (`WorldSaver.cs:635`, `:664`). `TryAcquireLock` reads the lock (`:626`), deletes it
  when it is more than 180 s old and makes its own, and `ReleaseLock` deletes the path;
  none of them asks who has the file open. Windows refuses for `FileShare.None`, the
  native Linux build (`docs/support-matrix.md:34`) does not: a game then deletes the lock
  of one whose save takes that long, or the one that another breaker of the same stale
  lock has just made, against "never save two worlds on one machine at the same moment"
  (`:84`). TLC finds two live games that hold it: `WorldSave!OneHoldsTheLock` with
  `Hosts = {{"shared"}}`. `SavesAreSound` promises it elsewhere.
* *A save can come due while its world is still seeded* (`WorldSeeder.cs:189`,
  `WorldSaver.cs:153`), with a `MULTIVERSE_SAVE_MINUTES` below the time a seed takes. The
  save takes the world's name and is reported; the seed is then written straight to that
  name, without a partial file and a rename, against "A half-written save can never
  replace the last good one" (`WorldSaver.cs:79`): `WorldSave!ReceiptOnDisk` is violated
  with `Hosts = {{"short"}}`.
* *A heartbeat can be the first frame of a connection* (`WebSocketTransport.cs:336`,
  `:337`). The flag goes up a statement before the generation, and the heartbeat is
  queued some lines after both were compared (`MultiverseClient.cs:1037`). While the end
  of the old connection is not drained, a check that falls in between, or a send that
  comes a reconnection late, queues it ahead of CONFIG_UPDATE, which is what `:143` says
  the generation prevents (`Transport!FirstIsNoHeartbeat`); the sidecar closes that
  connection and another is dialled.
* *The hot window is not the store's steady state* (`deploy/SIZING.md:95`): a blob
  that was restored and ages again is already in a bundle, and nothing retires it a
  second time (`GenomeTier!HotWindowHolds`).
* *A gap opened and closed between two saves leaves no tombstone*
  (`rollup.go:1265`): if the file had it, the next start opens it again
  (`Gaps!TombstonesWritten`); it is then found held and dropped.
* *A late answer to a timed-out request is accepted* (`archive.go:1768`), where
  `contract-b-m4.md:3490` has it ignored. The bytes are checked against the hash,
  so it only saves a request.
* *The ledger's windows*, by the names of section 2. With any one of them
  `Ledger!EveryRecordCounted` is violated within three records and two kills (`splice` has
  its run); the record is durable, and in no aggregate until these are rebuilt.
  - `between`: the floor line of a save (`rollup.go:1711`) names the offset that the last
    fold left beside the live file's present first record. The tick loop saves
    (`archive.go:1738`) while the read loop is between its append and its fold
    (`archive.go:1442`-`1462`); if that append rotated, the old file's offset stands beside
    the new file's first record, `liveFileMatches` takes it for good, and the next start
    skips the new file's records up to that offset. `rollup.go:1215` says of the append
    path that re-pointing "is what keeps a saved cursor and a saved hour index usable
    across a midnight".
  - `emptyLive`: a position at offset 0 of the live file is taken as it is, since "it can
    only have been written while that file was empty" (`rollup.go:970`). That file is
    written to and rotated afterwards; a kill before the next save then leaves what was
    appended in a segment that the position does not lead to.
  - `convert`: a position that is about a file rotated since is found again by counting
    the records on the host (`rollup.go:980`). With a segment retired the count ends too
    far, and what it passes is not "behind the cursor" (`rollup.go:986`).
  - `quiet`, `refused` and `sync` are the same disagreement by rarer ways: a cursor or an
    offset that the process believes and the file does not have.

### Where the model is coarser than the code

* `Publish` leaves out the pending mark that a release and a hand-over set beside their
  own publication (`relay.go:439`, `:480`). The mark brings one more publication, so the
  model has fewer of them and its liveness is the harder claim.
* `Launcher` has a game that could not be recorded taken down for good. The code ignores
  the error of that last, forced stop (`run.go:338`); a game that survives it runs
  unrecorded.
* `MapWalk` walks a chain to its end. The cut-off by `maxReroutes` is in `Custody`.

## 8. Plan

What would add most, in this order:

1. `WorldLink` composed with two `Custody` ends, so that `Export` and `Spawn` are
   refined rather than abstracted.
2. In `Custody`: the offline release command, and an export whose journal write is
   reported failed but survives, both kept apart from the automatic paths because
   they can duplicate.
3. A reader of the journal in another process, and the age of a gap, as properties:
   both hazards are listed and have none yet.

## 9. Not modelled

* *Archive read side* (`archive/history.go`, `species.go`, `tree.go`, `status.go`,
  `page.go`) *and the drawing of brains*: aggregation, pages and caches over the ledger, computed
  under one lock. A stored genome that arrives while `brainFor` reads a miss can
  leave the miss cached; it shows no brain until the next one is evicted.
* *Delivery pacer* (`sidecar/pacer.go`), *the relay's minute window of claims, its
  connection counts and its churn meter* (`capacity.go`, `churn.go`): sequential
  counters with one caller; `Custody` lets any delivery wait.
* *Launcher profiles, updates and GUI*: plumbing around the operating system. Of a
  start and a stop `Launcher` models the game's half; the sidecar's takes the same
  steps on a pid file of its own.
* *Sidecar diagnosis*: it reads files and probes, and changes nothing but what
  `Journal`'s reader does.
* *bb8 schema and hash*: pure parsing. Custody lets validation refuse anything.
* *Join strings, the secrets of a handover and the mod token*: outside `Enrollment`,
  every model starts behind authentication.
* *Rendering, border geometry and lineage in the mod*: the models see an organism
  offered or spawned.
* *Statistics and edge publication*: they read custody's state and decide nothing
  about it.
* *Deployment, release, cloud and end-to-end scripts*, but for
  `deploy/coldcopy.sh`, which is `GenomeTier`'s `Upload`.
