# NEXUS-CSI-Sensor in TLA+

Models, model-checking configurations and machine-checked proofs for the
firmware in `src/firmware/main` (ESP32, FreeRTOS). File names without a path
are relative to that directory. `PROJECT.json` holds the mapping of every
definition to source lines, the mutants used to show that each property can
fail, and the list of hazards.

    tlc -config MCWifi.cfg MCWifi        # a run
    tlapm ConfigProofs.tla               # proofs: the eight modules named *Proofs

## 1. Inventory of the system

The firmware is one program of about ten tasks sharing C statics. `app_main`
brings the subsystems up in a fixed order and returns. From then on these run:
the Wi-Fi driver's task (CSI callback), the default event loop, `wifi_worker`,
`csi` (traffic generator), `motion`, `display`, `logger`, the HTTP server (one
task, all handlers), the WebSocket push task, and a short-lived `reboot` task.

| Component | State it keeps | Operations | Interacts with | What is hard, what makes it correct |
|---|---|---|---|---|
| Ring buffer (`ringbuffer.c`) | slots, head, count, lifetime counter, mutex | push, push_timeout, pop, clear, snapshot, peek | CSI callback and motion task (samples); every task and the HTTP server (log); motion and HTTP (history) | concurrent use in the middle of a copy, index arithmetic at wrap-around. Correct: it is a queue of the newest elements, every call atomic, the mutex always given back |
| Motion engine (`motion.c`) | baseline, filtered score, level, two debounce counters, published result, history ring | `motion_process` once per window, `motion_calibrate`, getters | sample ring, configuration, event log, push task, display | requests arriving inside a window, debounce over many windows, wrapping time. Correct: a level changes only on enough agreeing windows, presence is never learned as background, a quiet room returns to Idle |
| Wi-Fi (`wifi.c`) | role, retry counter, event bits, reconfiguring flag, command queue | event handlers, worker (retry, fallback), `wifi_start`, `wifi_reconfigure` | driver, event loop, HTTP configuration handler, CSI | three tasks and an asynchronous driver; flag read once and acted on later; dropped commands. Correct: never stranded, connected bit truthful, fallback only when earned and always reached |
| Authentication (`auth.c`) | session table, limiter table | login, validate, peek, logout, rate-limit query | HTTP handlers, WebSocket authorisation | slot reuse, sliding expiry and lockouts on a wrapping counter, two critical sections per login. Correct: fresh tokens only, none revived, lockouts exact and earned |
| Event log (`logger.c`) | ring of numbered entries, sequence, dirty flag, flash blob | log, persist, clear, JSON/CSV walk, restore | all tasks; `logger` and `reboot` tasks persist; HTTP exports and clears | persisters and clear share no lock, a walk over a shifting ring, a crash at any step. Correct: gapless numbering, exports ordered and complete, clean means stored |
| Web server (`webserver.c`) | WebSocket client list, parsed requests | REST handlers, push task, upload, deferred reboot | every other component | client list copied and used after unlock, deferred reboot against a new upload |
| Configuration (`config.c`) | one record under a mutex, CRC-protected blob | get, set, password change, factory reset, validate | motion, wifi, csi, display, auth, web | read-modify-write by handlers, memory and flash diverging on a failed write |
| CSI capture (`csi.c`) | sample ring, packet counters, ping session | receive callback, traffic generator, metrics | driver, wifi, motion, web | drops on a busy ring, a ping session outliving its network, 64-bit counters read in halves |
| OTA (`ota.c`) | update handle, status, partitions | begin, write, end, abort, mark valid | upload handler, reboot task, boot loader | crash between any two steps, a second upload before the restart, rollback. Correct: a working image is always held, what was accepted is started, an image that crashes is left, uploads are never refused for good |
| Boot (`main.c`) | none of its own | bring-up order, confirm image | all | a subsystem failing half-way, when an image counts as healthy |
| Storage (`storage.c`) | NVS namespace | get, set, erase | config, logger | thin wrapper |
| JSON (`json.c`) | text buffer, nesting and comma state | builder, parser over cJSON | web, config, logger | buffer limit in the middle of a structure |
| Display (`display.c`) | frame, page | draw | motion, wifi, csi results | output only |
| Utilities (`utils.c`, `app_config.h`) | none | clock, clamp, hash, strings | all | the clock wraps after 49.7 days |
| Dashboard (`src/web`) | browser state | polling, WebSocket, forms | REST, WebSocket | browser code |
| Host and target tests (`src/tests`, `src/firmware/test`) | | | | read as statements of intent |

How far each component is modelled is under `components` in `PROJECT.json`;
section 8 says what is left out and why.

## 2. Modules

| Module | Models | Notes |
|---|---|---|
| `RecentQueue` | what a ring promises | abstract specification: a sequence of at most `Capacity` elements and a push counter, each operation one step |
| `RingBuffer` | `ringbuffer.c` | slots, indices and mutex; implements `RecentQueue` through the mapping in `Abstract` |
| `RingBufferProofs` | | theorems about `RingBuffer` |
| `Motion` | `motion.c`, with the handlers that calibrate and reconfigure | |
| `MotionProofs` | | theorems about `Motion` and `Csi` |
| `Wifi` | `wifi.c`, with `POST /api/config` and an external driver | |
| `WifiProofs` | | theorems about `Wifi` |
| `Auth` | `auth.c`, with the login, logout and session-checking handlers | |
| `AuthProofs` | | theorems about `Auth` |
| `Config` | `config.c`, with `POST /api/config`, factory reset, `storage.c` and the boot steps that load it | |
| `ConfigProofs` | | theorems about `Config` |
| `LiveFeed` | the WebSocket half of `webserver.c`: handler, client table, push task | HTTP library external; sessions as `Auth` leaves them |
| `LiveFeedProofs` | | theorems about `LiveFeed` |
| `Csi` | `csi.c`: receive callback, housekeeping task, readers of the metrics | |
| `TrafficGenerator` | `csi.c`: the ping session, over a link that changes | the link as `Wifi` makes it, `CONNECTED` and role only |
| `Boot` | `main.c`: bring-up with failing parts, and the tasks started on the way | boot loader as in `Ota` |
| `Logger` | `logger.c`, the CSV export, factory reset's clear and the reboot task's persist | uses `RecentQueue`'s operations for its ring |
| `LoggerProofs` | | theorems about `Logger` |
| `Ota` | `ota.c`, with the upload handler, the reboot task, the end of `app_main` and an external boot loader | |
| `OtaProofs` | | theorems about `Ota` and `Boot` |
| `MCRingBuffer`, `MCMotion`, `MCWifi`, `MCAuth`, `MCLogger`, `MCConfig`, `MCOta` | | small instances for TLC |

`Csi` and `Boot` have their component's name in those of the initial predicate, next-state relation and specification
(`CsiInit`, `BootSpec`), because their proof modules extend two components.

**RingBuffer.** `data`, `head`, `count`, `total` are the fields of
`ringbuffer_t`, `owner` its mutex. A task's `pc` goes idle → wait → body … →
unlock. Critical sections are not atomic: `StoreElement` is the memcpy,
`Advance` moves the indices, `SnapshotCopy` copies one element. `GiveUp` is
the time-out of `ringbuffer_push_timeout`. `before` is a history variable.
`ringbuffer_free` is called by nobody; `ringbuffer_count` and `_total` only read.

**Motion.** `motion_process` in four steps between which handlers may act:
`TakeWindow` (read samples and configuration), `TrackBaseline` (test the
calibration flag, adapt), `Calibrate` (seed and reset), `Decide` (filter,
classify, debounce), `Publish` (result under its mutex, history point). Features
and scores are points of a coarse grid. The two exponential averages answer any
value between their memory and their input, the normalisation any score for an
above-baseline feature: every behaviour of the float code on the grid is among
these. Of the history ring only the time of its newest point is kept (its contents are `RingBuffer`'s). `windows`, `wanted` are history variables. The classification's
quality and activity outputs do not feed back and are left out.

**Wifi.** A step of `setup` (boot, then the HTTP server in `wifi_reconfigure`)
or `worker` is one driver call or one access to shared state; an event handler is
one step of the event loop. The driver is external: mode, link, and a queue of
`STA_START`, `DISCONNECTED`, `GOT_IP`. `own` in a disconnect event is a
history mark that no handler reads. A failing `ESP_ERROR_CHECK` sets `panicked`
and reboots. Soft-AP client events and address strings change no control state.

**Auth.** `sessions` and `limits` are the two tables, slot by slot. `BeginLogin`
is the limiter query, `FinishLogin` everything after the hash: time can pass in
between, other requests cannot (one HTTP task). `now` is `uptime % ClockMod`,
ages are differences modulo `ClockMod`, and the end of a lockout is compared as the
code compares it. Tokens are fresh values; the hash is its outcome.

**Logger.** `Log`/`MarkDirty` are the two halves of `logger_log`; a persister goes
through `Count`, `Copy`, `Write`, `Clean` or `Fail`. Exports peek one position per
step. `ClearRing`, `EraseKey`, `ClearFlag` are the three calls of
`logger_clear`. `Restart` may happen in any state and restores the blob, or nothing
when the read fails. Flash keeps a blob whole or not at all (NVS's contract).

**Config.** `memory` is `s_cfg`, `flash` the blob with the version and the checksum it
was stored with, `request` the locals of `h_api_config_post`. A request is `Post`
(read, apply to a copy), `ConfigSet`, `ConfigSetPassword`, `Answer` (and
`wifi_reconfigure`), each its own step, so that a restart may fall between any two.
`Persist` is `config_persist_locked`: memory has changed already, the write may fail.
`ConfigSetPassword` may also fail to hash: nothing changes, and the password left in the
request says so (`config_defaults` ignores the result of its own hash, which is taken to succeed).
`Restart` may start an image of another version; `StorageInit` may erase and may fail, with the blob
gone or not, and an erasure that itself fails restarts the device (`EraseFails`,
`ESP_ERROR_CHECK`). `Load` and `LoadDefaults` are the two outcomes of `config_init`; a store that
cannot be read may refuse the defaults too. Thresholds are
hundredths, clamped and pushed apart in the order of the code; a checksum is
the identity of what it covers. `stored` and `faults` are history.

**LiveFeed.** `clients` is `s_ws_clients`, `push` the place of `ws_push_task` in the
walk over its copy, `http` the handshake the HTTP task is serving, `sockets` what the
HTTP library has on each descriptor, `closing` the closes queued by
`httpd_sess_trigger_close`. A handshake counts as a WebSocket in the library before
`h_ws` runs, as in ESP-IDF. Each check of the walk is a step of its own: connections
close, descriptors are reused and sessions end between any two. `late` and `taken` are
history. `webserver_stop` is called by nobody.

**Csi.** `total` is `s_packets_total` in two halves, each stored and loaded in a step of its
own and in either order. `rx`, `task` and `reader` are the places of `csi_rx_cb`,
`csi_task` and a caller of `csi_get_metrics`; `lock` is `s_metrics_lock`, which the
callback only tries. The ring is reduced to taking a sample or timing out. `heard`,
`stored` and `rated` are history.

**TrafficGenerator.** The other half of a pass of `csi_task`: every query of
`wifi.c` and of the settings is a step, and both change in between. The link has a role,
a connected bit and a gateway; nobody clears the gateway when the link goes, as in
`wifi.c`. `StartSession` or `SessionFails` ends `restart_traffic_generator`.

**Boot.** `at` counts the parts `app_main` is done with. A part comes up (`Up`), fails
(`Down`), or has its mutex but not its task (`Idle`); a task is the set of mutexes
it takes (`Takes`), and `Take` of one that does not exist restarts the device, as
FreeRTOS's assertion does. An erasure of NVS that fails is fatal, NVS that stays
down is not. `Restart` rolls an unconfirmed image back. `failed` and
`faults` are history.

**Ota.** `flash` is what the slots `ota_0` and `ota_1` hold (`partitions.csv` has
no factory slot), `imgState` and `preferred` the entries of `otadata`, `running` the slot
in use. `http` is the place in `h_api_ota`: `OtaBegin` erases, `OtaWrite` stores one chunk,
`OtaEnd` validates and switches, `Reply` answers and schedules the restart, `UploadFails`
is every way out through `ota_abort`. `stage` is the place in `app_main`:
`StartServer` covers the bring-up, `MarkValid` its last call. The early
refusals of `ota_begin` (an update running, image too large) change nothing and are guards.
`Reset`, by `Reboot`, `Crash` or `PowerLoss`, can interrupt anything and runs the
boot loader. The boot loader and the OTA library are external and follow
ESP-IDF with `CONFIG_BOOTLOADER_APP_ROLLBACK_ENABLE` (`sdkconfig.defaults:32`): a new image
runs on probation, one that is started a second time without having been confirmed is given
up, an invalid one is passed over, and `esp_ota_begin` refuses while the running image is on
probation. An image in `Bad` crashes, or makes `app_main` give up and restart,
before it confirms itself. `accepted` and `erased` are history variables.

## 3. Runs

| Run | Question | Bounds, and why they are enough |
|---|---|---|
| `MCRingBuffer` | is the ring an atomic queue, and is the mutex always returned? | 3 slots, 2 tasks, 2 values, 5 pushes: the array fills, its index wraps and two elements are overwritten; snapshots of 0..4 elements cover fewer, equal, more than held. Two tasks suffice to be inside and outside a critical section |
| `MCMotion` | debounce, hysteresis, frozen baseline, recalibration and time stamps under requests at any point | rise limit 2, fall limit 3 (code: 3 and 8), 2 features, 7 score levels, two configurations between which a user switches, one of them with thresholds a single unit apart; the clock wraps every other tick. `MCMotionDebounce.cfg` checks the debounce and the types with limits 3 and 4 and 3 features |
| `MCWifi` | a device that boots and is left alone, and reconfigurations racing everything | the code's retry limit 8; up to 3 reconfigurations over two networks (one out of range) or none: stale events and commands of two earlier networks can meet a third |
| `MCAuth` | life of a session, and a limiter with more clients than slots | 2 session slots, 3 tokens; 3 clients, one unresolved, 2 limiter slots, lockout after 2 failures; uptime past two TTLs and a full lockout. `Slices` (a CONSTRAINT): either one client uses the device up to uptime 5, or several contend up to uptime 3 with one session issued; the two tables meet in `auth_login` only. `MCAuthSessions.cfg` goes deeper with one client |
| `MCLogger` | numbering across clears, failing writes, two persisters and a restart; exports on a moving ring | 3 slots. `Slices` (a CONSTRAINT): up to 7 entries while an export runs with nothing persisted, so the ring is replaced entirely during one walk, or up to 3 entries with persists, clears and a restart; the two share the ring only. `LoggerExport.cfg` has 4 slots and 8 entries |
| `MCOta` | uploads and restarts | the factory image, one good and one bad update, uploads that fail validation; uploads of 2 chunks, so that one can be half written; 2 reboot tasks at once; no bound on uploads or restarts, so the device is updated, rolled back and updated again |
| `LiveFeed` | who is served, and under which session | 2 slots (code: 4), 2 descriptors, 3 connections, 2 sessions: a descriptor is reused by another connection under another session during one walk |
| `MCConfig` | settings in memory, in flash and in use | bodies that clamp, push apart and undo each other, 2 networks, 2 keys, 2 passwords, 2 versions, one failure at any step |
| `Csi` | are packets, rates and reports right under every interleaving? | 3 packets against one housekeeping task and one reader, a low half of 8, which 3 packets do not overflow (nor do 2^32 in a year at the highest rate); for the overflow see `CsiTorn.cfg` |
| `Boot` | is the order right, and does the device come up in the end? | up to 3 failures of any parts over any number of boots |
| `TrafficGateway` | violated: the ping session after a move | section 4 |
| `BootCsi` | violated: CSI start fails | section 4 |

What they show, property by property:

- *Ring.* `ImplementsRecentQueue`: every step of the array implementation is a step of
  the abstract queue or a stutter. `ResultsAtomic`: what an operation hands back
  is what the queue held when the mutex was taken. `LiveSlotsWritten`: no live slot
  and no delivered element was never written. `LockReleased`: liveness.
- *Motion.* `LevelDebounced`: a level changes only after that many
  consecutive windows, all read since the level was last entered, on the right
  side. It is stated over the readings themselves, not over the counters.
  `PresenceNotLearned`: between two published
  results that both report presence the baseline stands still, even
  when a calibration or a new configuration arrives. `ChangeStampsHonest`: the change
  time moves only with the state. `CalibrationShowsIdle`, `QuietRoomReturnsToIdle`: liveness.
- *Wi-Fi.* `ConnectedBitTruthful`: with no event pending, the connected bit implies a link.
  `CommandsBounded`: the command queue grows by at most one per reconfiguration, so
  a device nobody reconfigures never loses a retry in the ignored result of a
  full queue. `ReachableIfLeftAlone`, `FallbackEarned`, `FallbackReached`: as long
  as nobody reconfigures, the device at rest is reachable or joining, tells its state truly, opens
  its soft-AP only after the first join and eight retries failed in a row, and does
  open it when the network is gone.
- *Auth.* `SessionFresh`, `SessionNotRevived`, `SessionEndsForAReason`: acceptance
  implies recent use, refusal is final, and a session ends by age, by logout, or
  evicted as the least recently used of a full table. `LockoutExact`, `LockoutEarned`: a key is turned away exactly
  while its lockout lasts, and only for failures within one window. The
  passing runs keep uptime below the clock's modulus; what happens beyond is in section 4.
- *Log.* `NumberedWithoutGaps`, `ExportOrdered`, and `ExportsComplete`: a JSON export
  misses none of the entries held throughout, a CSV export at most as many as new ones
  arrived.
- *Live feed.* `RecordedOnce`: no descriptor is recorded twice. `EndedStreamStops`: once a session
  has ended at most one frame goes out under it. `FrameOnWebSocketOnly`: a frame is written
  only to a WebSocket, or to a connection that took the descriptor over after the walk checked
  it. `EndedReaped`, `RecordedIsServed`: liveness of the table and of the walk.
- *Settings.* `SettingsInOrder`: in memory and in flash, whatever a request asks for.
  `RestartBringsBack`: after a successful write a restart of the same image has
  exactly what was in memory. `NetworkInUse`: between requests Wi-Fi uses the network
  of the settings.
- *CSI.* `PacketsAccounted`: every packet is counted once and stored or counted as dropped,
  also when it meets a reader. `RatesAddUp`: published rates add up to the published total.
  `ReportIsLive`: a reader gets a total between what it was when asking and when answered.
- *Boot.* `UsedAfterInit`: a task meets a missing mutex only where a part failed, never
  one still to come. `ServiceRecovers`: once parts stop failing the device serves its dashboard for good.
- *OTA.* `GoodImageHeld`: whatever is uploaded and whenever the power goes, one slot the boot
  loader has not given up holds a whole image that comes up. `UpdateNotStuck`: no way
  out of the handler leaves later uploads refused with 429. `AppliedIsStarted`: an update
  answered with "update applied", its slot left alone since, is what the next restart
  starts, whatever its cause. `CrashLoopEscaped`: an image that crashes is left again.

Deadlock is checked except where the bounds on users, tokens, entries, connections,
packets or failures do let the model come to rest, and in `Boot`, which is done once the device is up.

## 4. Where the code and its documentation disagree

Listed as findings, each with a run that ends in a counterexample:

- `TrafficGateway`. `csi.c:243` has the ping session "(re)configured ... once the station has
  associated"; the condition replaces it only when there is none or the rate changed
  (`csi.c:248`), so that after a move to another network it pings the old gateway for
  good, and a network without traffic of its own gives no CSI.
- `BootCsi`. `ARCHITECTURE.md:239` says "a failure to start CSI, is logged and the rest of
  the system continues". Without memory for its ring `csi_init` leaves
  `s_metrics_lock` NULL (`csi.c:124`), and the display task and the first status request take it:
  the device restarts.

Two passing properties state what the code and its comments say where a document says otherwise:

- `ExportOrdered` has each export strictly in its own order, the JSON one newest first, the CSV one
  oldest first (`webserver.c:623`, `webserver.c:639`). `API.md:252` calls the CSV export "the same events" as the log
  document, which is newest first (`API.md:228`), and its example shows row 128 before 127. Read as
  a promise of that order it is violated: `CsvNewestFirst`, `LoggerCsvOrder.cfg`.
- `SettingsInOrder` has the thresholds in order, for `config_validate` enforces it (`config.c:104`) and the motion
  engine relies on it. `CALIBRATION.md:115` says "the firmware clamps values to valid ranges but
  does not reorder them" and leaves their order to the user. That is violated: `ThresholdsOnlyClamped`,
  `MCConfigOrder.cfg`. A motion threshold of 0.10 beside a presence threshold of 0.12, both in range, is
  stored as 0.17.

Further configurations lie beside the listed runs. Their properties are violated too,
and their traces were read against the code. TLC stops at the first violation: where a
configuration has several properties, keep the line of the one to look at.

| Configuration | Property | What the trace shows |
|---|---|---|
| `MCMotionDeviations.cfg` | `StateSinceIsWhenItBegan` | `motion.h:44` calls `state_since_ms` "uptime the current state began"; a calibration resets the level (`motion.c:213`) before `prev` is sampled (`motion.c:233`), so the Idle it starts keeps the stamp of the state it ended |
| | `EntryQualified` | two windows at Presence and one at High Motion enter High Motion (`ARCHITECTURE.md:178` reads otherwise) |
| `MCMotionLow.cfg` | `QuietRoomReturnsToIdle` | a presence threshold validation accepts (0.01 to 0.05) is not above the hysteresis: a score of 0 still classifies as Presence |
| `MCWifiDeviations.cfg` | `NeverStranded` | a first join that fails while `s_reconfiguring` is still up is taken for the firmware's own disconnect (`wifi.c:137`): no retry and no fallback follows, against `ARCHITECTURE.md:236`. The window is short: `start_station` only logs after `esp_wifi_start`, but nothing orders the two tasks |
| | `OwnDisconnectIgnored` | the firmware's own disconnect handled after the flag is lowered counts a retry |
| | `FallbackGuarded` | a fallback past its check of the flag runs beside a reconfiguration |
| | `ConnectedReportTruthful` | a late address event turns role AP into STA: `wifi_is_connected` says false on a running soft-AP |
| `MCAuthRevived.cfg` | `SessionNotRevived` | an abandoned session looks fresh again after 49.7 days |
| `MCAuthWrap.cfg` | `LockoutExact` | a lockout across the counter's wrap has the wrong length |
| `MCAuthFull.cfg` | `SaturatedRefused` | right credentials log in although the limiter had no slot to give (`auth.c:84`) |
| `LoggerCsv.cfg` | `CsvLosesAtMostOne` | an export may miss two rows (`webserver.c:624` speaks of one) |
| `LoggerCsvOrder.cfg` | `CsvNewestFirst` | two entries, and the older one is emitted first (above) |
| `LoggerDeviations.cfg` | `CleanMeansStored` | an entry logged between a persist's snapshot and its `s_dirty = false` (`logger.c:188`) is in no copy and has its flag wiped, against `logger.c:171` |
| | `ClearedStayGone` | a persist overlapping a clear writes the cleared entries back |
| | `StoredNeverOlder` | of two overlapping persists the older copy may win |
| `MCOtaDeviations.cfg` | `AcceptedIsBooted` | a second upload in the 800 ms before the restart erases the slot just accepted; the device comes back with the old image although the first upload was answered 200 (`API.md:369`) |
| | `RollbackOnlyBad` | a restart asked for over the API while `app_main` still waits for a connection (up to 15 s before `main.c:161`) gives up a healthy new image |
| `LiveFeedOpen.cfg` | `OpenSocketIsServed` | a client beyond the last slot keeps an open socket that no frame ever comes on (`webserver.c:769`), and so does one removed after a failed send (`webserver.c:908`) or with a stale descriptor; the dashboard polls only while its socket is not open (`app.js:246`) |
| `MCConfigDeviations.cfg` | `RequestClamped` | an integer is cut to its field before it is clamped (`config.c:293`, `config.c:299`): a brightness of 300 becomes 44, against `API.md:297` |
| | `AnsweredIsStored` | the results of `config_set`, `config_set_password` and `config_factory_reset` are ignored (`webserver.c:511`): "saved" is answered after a failed write, or with a password that could not be hashed and was not taken, against `USAGE.md:103` |
| `MCConfigOrder.cfg` | `ThresholdsOnlyClamped` | one request with motion below presence, both in range, and no failure (above) |
| `CsiTorn.cfg` | `RatesAddUp` | when the low half of the packet counter overflows, a reading torn between its halves gives one absurd rate |
| `BootWhole.cfg` | `ConfirmedIsWhole` | `main.c:133` says every subsystem has initialised; an image is confirmed with parts missing |

These pass and only supplement a run: `MCMotionDebounce.cfg`, `MCAuthSessions.cfg` and `LoggerExport.cfg` (larger bounds, section 3), `TrafficGenerator.cfg` (`PingFollowsRate`: a session at the rate of the settings
always comes back).

A matter of wording: `ARCHITECTURE.md:236` starts the soft-AP after
`NEXUS_WIFI_CONNECT_RETRY_MAX` attempts. The code makes one join and then that many retries
(`wifi.c:141`), nine attempts in all, and `FallbackEarned` counts them so.

Not modelled but met on the way: `API.md:52` and `API.md:95` give status 403 for a
locked-out login, the handler sends 429.

## 5. Fairness

Fairness is assumed for the liveness properties only; no safety property depends on it. `RingBuffer!FairSpec`: a task inside a critical section
goes on running (FreeRTOS schedules every ready task, the mutex inherits priority, and
no critical section blocks); tasks need not call anything. `Motion!FairSpec`: the motion task's
loop goes on and the sample ring, once filled, stays filled; nobody need
calibrate or reconfigure. `Wifi!FairSpec`: the three tasks are
scheduled, the driver reports the outcome of every join, a panic reboots; links need
not fail, users need not act. `Ota!FairSpec`: `app_main` runs on, and a bad image does crash; nobody
need upload or restart anything. `FairBootSpec`: `app_main` goes on and a panic restarts; parts do not fail for
ever (`MaxFaults`). `LiveFeed!FairSpec`: the HTTP task finishes what it has begun, the push
task walks on; peers need not connect, leave or log in.

Weak fairness suffices except in two places. In `LiveFeed` the push task's snapshot is
strongly fair, for memory for the message may be missing now and then but not for ever; in
`TrafficGenerator` the start of a session is, for the same reason.

## 6. What is proved

Each safety property of a passing run is a theorem, for every value of the constants. Every proof module has the same plan. `IInv` is
an inductive invariant: `Init => IInv` and `IInv /\ [Next]_vars => IInv'`, one lemma or step
per action, give `InductiveInvariant`, that is `Spec => []IInv`; an invariant follows from
`IInv`, an action property from `IInv` and one step. `TypeCorrect` is `TypeOK`. TLC
checked each `IInv` on a run's instance before it was proved (`AuthProofs` has two, `LimitInv` and `SessionInv`; `Csi` and
`Boot` have their own names). None of the properties below is inductive as it stands.

Some theorems, named as such, say what a deviation of section 4 is confined to: with the named premise the
property holds, or it holds of all but the named case, so that the counterexample has no other cause.

The constants are assumed to be what the code makes them: sizes and limits positive, bounds of the
model natural, names that stand for "none" outside the set of values. Where more is assumed it is
said below. No assumption limits a size, a number of tasks or the length of a behaviour.

**`RingBufferProofs`** (any capacity, values, tasks): `OnlyWrittenSlots` (`LiveSlotsWritten`),
`ResultsAlwaysAtomic` (`ResultsAtomic`), `Refinement` (`Spec => ImplementsRecentQueue`).

- `Exclusion`: a task past `Lock` is the owner. Without it two tasks could move the indices at once.
- `CallsTyped`: a waiting or running task has an operation and an argument of its kind.
  Without it a snapshot could copy more slots than are live.
- `HeadStored`: between `StoreElement` and `Advance` the head slot is already written.
- `Atomicity`, a second layer on top of these: the contents at every step of an operation are the contents
  when the mutex was taken (`before`), half-way to, or past the operation's `Outcome`, and a snapshot in progress
  has copied a prefix of what it will return.

Of the refinement each action is one lemma: `Unlock` after a push, pop or clear is the abstract
operation, every other step a stutter of the mapped queue, because the mapping shows
`before` while the mutex is held. Underneath are lemmas on arithmetic modulo the capacity.

**`MotionProofs`** (any features, configurations, debounce limits, hysteresis, clock width; configurations as
`config_validate` leaves them, rise limit at most fall limit as in `app_config.h`): `LevelAlwaysDebounced`,
`PresenceNeverLearned`, `ChangeStampsAlwaysHonest`, and `CountersAlwaysEarned`.

- `CountersEarned`: a pending rise or fall has as many agreeing windows at the end of `windows` as its counter
  says. `LevelDebounced` speaks of the readings, so it needs the counters tied to them through every
  calibration and new configuration.
- `Shown`: what the published result says of level and baseline at each of the five places of `motion_process`; a
  calibration that arrives in the middle of a window cannot leave Idle again in that window.
- Deviations confined: `NextLevelAlwaysQualified`, a rise by one level rests on windows that each qualify for the level
  entered, so that only a rise past a level deviates; `ActivityAlwaysStamped`, every newly reported state but
  Idle bears the time it began.

**`MotionProofs`, on `Csi`** (any radix of the counter's halves): `PacketsAlwaysAccounted` while the packets fit both halves;
`RatesAlwaysAddUp` and `ReportAlwaysLive` while they fit the low one, 2^32 of them. Past that the rates and reports go wrong,
as `CsiTorn.cfg` shows.

- `Accounts`: each place of the callback says how far the total is behind the packets heard, and in the middle of a
  store which half is already the new one. So the total may be torn while it is stored, but is whole when the callback ends.
- `Counting`, `Rating`, `Reporting`: as long as the high half is zero the total never goes back, a task that has read
  the low half has a total between the last published one and the present, and a reader's lies between
  the total when it asked and the present. Each needs the one before; none holds once the halves differ in age.

**`WifiProofs`** (any networks, retry limit, queue length, number of reconfigurations):
`ConnectedBitAlwaysTruthful`, `CommandsAlwaysBounded`, `AlwaysReachableIfLeftAlone`, `FallbackAlwaysEarned`.

- `BitForetold`: what the bit will say once the pending events are handled. Both an event queued behind
  another and a link lost meanwhile are in it; `ConnectedBitTruthful` is the case of an empty queue.
- `AttemptsBounded`: attempts to join are tokens. Each is a station about to start, a link, an event, a command or the
  worker's present business, each step turns one into another, and only a reconfiguration adds one. Hence
  `CommandsBounded`. It needs `Flagged`, `Stopped` and `SoftApMode`: while `wifi_reconfigure` has the radio
  down, nobody else starts it.
- `Phases`: a device nobody has reconfigured is in one of eleven phases (starting, joining, joined, losing, retrying,
  giving up, serving, ...), each fixing events, commands, radio, role and the count of failures. The step lemmas show
  which phase follows which; that all retries failed before the soft-AP is the path to `GivingUp`.

**`AuthProofs`** (any table sizes, clients, tokens and limits; the failure window is shorter than
the lockout, and each is shorter than the clock's range, as in `app_config.h`), with three premises:

- none: `SessionInvariant`, in every behaviour and across every wrap of the millisecond counter;
- `[]SlotsRecent`, no slot in use goes unused for a whole turn of the counter (49.7 days): `SessionAlwaysFresh` and
  `SessionNeverRevived`. `MCAuthRevived.cfg` shows the second false for a slot left for a turn;
- `[]NoWrap`, the counter has not wrapped, nor will before a lockout begun now is over:
  `SessionEndsOnlyForAReason`, `LockoutAlwaysExact`, `LockoutAlwaysEarned`. `MCAuth.cfg` stays within it; beyond it
  ends of lockouts and times of last use are compared by plain order, and `MCAuthWrap.cfg` shows `LockoutExact` false.

`NeverSaturated`: with at least as many limiter slots as keys every outcome of a login finds a slot, so
that the deviation `MCAuthFull.cfg` shows needs more keys than slots.

- `SessionsKnown`: a used slot holds an issued token, no token is in two slots, and its time is the counter's reading
  at that token's last request. `WrappedDistance`, that the difference of two
  readings is the time between them if less than a turn, then turns ages on the counter into ages.
- `LimitsKnown`: no key has two limiter slots; a slot tells the truth about its key's failures and lockout, a key
  without a slot is not locked out, and a slot that has counted the limit serves a lockout that outlasts its window. The
  last is why reusing the slot with the oldest window frees nobody.
- `LoginAllowed`: the client whose password is being hashed is not locked out, although time passes meanwhile.

**`ConfigProofs`** (any requests, networks, keys, passwords, versions, number of failures; what a request contains is of
its key's type, as the getters check): `SettingsAlwaysInOrder`, `RestartAlwaysBringsBack`,
`NetworkAlwaysInUse`, and `ValidateIdempotent` on `config_validate`.

- `WellFormed`, `Saved`: blob, request copy and settings are typed and validated, and after a successful write the blob
  is acceptable and equals memory. That a restart loads what was in memory, although it validates it
  again, is `ValidateIdempotent`.
- `LinkKnown`: at each step of a request, either the network in use is the one in memory or the handler
  has still to call `wifi_reconfigure`.
- Deviations confined: `AnsweredIsStoredUnlessFailed`, as long as nothing has failed, hash or flash, "saved" is the truth (`Unfailing`: NVS
  is up, the last write succeeded and no password is left over); `FittingIntegersClamped`, an integer that fits its field is stored as the
  nearest in range (`CopyApplied`: a request's copy is memory with the body applied).

**`LoggerProofs`** (any capacity, persisters among the two tasks, number of entries and boots): `AlwaysNumberedWithoutGaps`,
`ExportAlwaysOrdered`, `ExportsAlwaysComplete`.

- `Numbered`: the ring holds the numbers up to the next one, and every copy of a persister, fresh or stale, is without
  gaps and below what the present boot may give. A stale copy may be what a restart restores.
- `OlderFirst`, `Descends`, `Ascends`: what an export has still to emit lies ahead of it. For the JSON walk, at or below
  its position and older than what it emitted; for the CSV walk each entry it passed by
  was pushed down by one that is new, so those passed are at most as many as those new (a cardinality argument).
- Deviations confined: `SerialisedCleanIsStored`, `SerialisedClearedStayGone` and `SerialisedStoredNeverOlder`, while logging,
  persisting and clearing do not overlap (`Serialised`); the last also needs that a boot resumed
  the numbers in flash, which one that could not read them has not. `SerialInv` follows entries from
  ring to copy to flash, and the dropped ones nowhere. A lock around each operation would give the premise.

**`LiveFeedProofs`** (any number of slots, descriptors, sessions, connections): `AlwaysRecordedOnce`,
`EndedStreamAlwaysStops`, `FramesOnWebSocketsOnly`.

- `LateFrames`: a frame may go out under an ended session only if none has yet, and only while the push task is past
  the check that found the session live.
- `LookedAt`: a descriptor past the first check is a plain connection only if it changed hands since.

**`OtaProofs`** (any images, upload length, number of reboot tasks; the factory image is a good one): `GoodImageAlwaysHeld`,
`UpdateNeverStuck`, `AppliedUpdateStarts`. The boot loader's contract is part of the model (section 2).

- `RunningSound`: the running slot holds a whole image, confirmed or on probation, and a confirmed
  one comes up. With it an upload, which is refused during probation, cannot replace the last good image.
- `ProbationCovered`: while the running image is on probation the other slot holds
  a good one still eligible. This is what a rollback relies on.
- `PreferredTried`: an entry newer than the running one is new, being tried or given up, never
  confirmed. So whatever a restart starts instead of the running image starts on probation.
- `HandlerKnows`: the place in the upload handler agrees with `in_progress` (hence
  `UpdateNotStuck`), the running image is confirmed during an upload, and between the switch
  and the reply the target is whole and switched to.
- `AnswerStands`: an accepted update whose slot was left alone is whole, switched
  to, and still new. `AppliedIsStarted` follows from it and from what the boot loader does.

`BootOutcome` says once what the boot loader makes of a state in `IInv`;
the three causes of a restart share it through `ResetIInv`.

**`OtaProofs`, on `Boot`** (any number of failures): `UsedAlwaysAfterInit`.

- `PassedKnown`: each part `app_main` has done with is ready or has failed, never neither.
- `TasksInOrder`: a task runs only when `app_main` has done with each part whose mutex it may ever take. A part's creation of
  tasks is the step that could break it, so `CreatedInTime` goes through the parts that create any; a part
  moved behind one that uses it would fail there.
- Deviation confined: `CsiToleratedWithMemory`, a capture part that fails with its mutex created (the driver or
  the task refused) never restarts the device; only the missing mutex does (`CulpritMissing`).

## 7. What is only model-checked

- Liveness, outside the prover's reach as is everything about `ENABLED`: `LockReleased`, `CalibrationShowsIdle`,
  `QuietRoomReturnsToIdle`, `FallbackReached`, `CrashLoopEscaped`, `EndedReaped`, `RecordedIsServed`, `ServiceRecovers`.
- That what the code does falls short of its documentation (section 4) is shown by counterexamples.

No module uses a RECURSIVE operator.

## 8. Not modelled, and plan

Left out, with the reason:

- the JSON builder (`json.c`): sequential text formatting without shared state, whose
  nesting, comma and overflow rules `src/tests/host/test_json.c` tests directly; the getters are in `Config`;
- display drawing, banner, static files, read-only status documents: output only;
- `webserver_stop`, `ringbuffer_free`, the string accessors of `storage.c`: called by nobody;
- browser code; NVS, driver, HTTP and OTA library internals (external);
- hash functions and string helpers: used through their outcome.

All components of the inventory that hold state have a module, and each safety property that a
passing run checks is proved. What is left is in section 7: liveness, and for each deviation of
section 4 without a theorem, the exact condition under which the documentation is right.
