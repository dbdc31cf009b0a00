# A TLA+ development of sws

sws is a music player for a small computer without a screen: it scans a
directory of music, keeps a catalog and playlists in SQLite, plays through
GStreamer, and is driven by a joystick and by websocket clients. This directory
models the part of it that carries its logic, checks the models with TLC on
small instances, and proves theorems about them, for every value of the
constants, with TLAPS.

Paths below are relative to the repository (`src/player.cpp`, `include/db.h`).

## 1. Inventory

| Component | State it keeps | Operations | What makes it correct | Modules |
|---|---|---|---|---|
| `db`, write queue (`db.cpp` 9-72) | `queries`, `m_mutex`, `cv`, `queue_empty`, the file | `push`; the `monitor` thread; the wait in `player.cpp:48` | statements are executed in push order, once each; none is forgotten while the process lives; the wait ends, and means what it says | `WriteBehind`, `Db`, `DbProofs` |
| `db`, statements and queries (`db.cpp` 74-614) | tables `db_catalog`, `_playlist`, one per playlist | builders of SQL, `select_*`, `tables`, `get_playlist_current` | a list comes back without repetition; a position is that of its playlist; all rows of a path say the same | `Library`, `Catalog`, `CatalogList`, `CatalogProofs`, `PlaylistStore`, `PlaylistStoreProofs` |
| `player` (`player.cpp`) | playlists, two cursors (`it`, `it_track`), current playlist and track, pipeline | `next`, `previous`, `play`, `pause`, `stop`, `playlist_up`, `playlist_down`, `set_current_playlist`, `json`, bus messages, scans, start | the cursor stays in its list; clients are told what will happen; a restart resumes; operations that overlap do no lasting harm; operations return | `Player`, `PlayerProofs`, `PlayerThreads`, `PlayerThreadsProofs` |
| `db_queue` (`db_queue.cpp`) | two queues, two mutexes, one `cv`, the flag `monitor` | `push_song`, `push_duration`, two consumer threads | a push returns; what is pushed is served | `DbQueue`, `DbQueueProofs` |
| `playlist` (`playlist.cpp`) | name, source, tracks | read `.m3u`, export, copy, `index_of`, `insert_after` | a save is a whole list, and the last word; an export reads back | `PlaylistStore`, `PlaylistStoreProofs`, parts in `Library`, `Player` |
| `track` (`track.cpp`) | tags of a file | construction (which writes to the database), JSON | whichever row is read, the answer is the same | `Catalog`, `CatalogProofs`, parts in `Player`, `DbQueue` |
| `joystick` (`joystick.cpp`) | device, button map, press times | monitor thread, hot plug thread, `load_config`, `save_config` | a press has one meaning, whatever its timing; the map is that of the device | `Joystick`, `ButtonMap`, `JoystickProofs` |
| `wsocket` (`wsocket.cpp`) | connections, the flag `update` | `listen`, `onOpen`, `onClose`, `onMessage`, one sending thread per connection | a change reaches clients, and none is taken back in time | `Wsocket`, `PlayerThreadsProofs`, commands in `Player` |
| `config` (`config.cpp`) | settings in memory and in a file | `get`, `put` | the file can be read back | `Settings`, `SettingsProofs`, the current playlist in `Player` |
| `main`, `utility` | none | start-up, helpers | | not modelled |
| `bluetooth`, `bt_device`, `network`, `spotify`, `server`, `console`, `db_mysql`, `db_sqlite` | | stubs, or code nothing calls | | not modelled |
| `md5.h`, `include/src/`, `util.c`, `bluez_util.*` | | third-party code | | not modelled |

### How they interact

`main` builds the `player` and enters its GLib main loop, which never returns.
Building it builds `config`, `db` (and its monitor thread) and `db_queue` (and its
two consumers); static initialisation has already started the two threads of
`joystick`. `player` reads SQLite directly and writes through `db::push`.
Constructing a `track` is also a write: it inserts a path the database does not
hold and hands `db_queue` a request for the duration, whose consumer pushes
another statement. `player::m_signal` tells `wsocket` that something changed; a
thread per connection then calls `player::json`, which constructs two tracks.
The joystick thread and the websocket thread call the player's operations, the
main loop calls `next` at the end of a stream, and a file-watcher thread scans
new directories. Only `db::queries` and the two queues of `db_queue` have a mutex.

In `main` as it is now, `player::start` comes before the websocket's `GetInstance`
and, entering the main loop, does not return, so the server is not reached. The
models take the websocket's thread for the one that `main` prepares: a caller of the
player like the joystick's thread.

### What is hard

* Threads: the flag `queue_empty` is written on both sides of a mutex by neither
  holder; two consumers with different mutexes share a condition variable.
* Failure: SQLite may refuse any statement, and the error is only printed; the
  process may end at any moment with statements queued.
* Order: a position goes through the queue, the name of its playlist does not.
* Aliasing: a list cursor survives the assignment of the list it points into, as
  long as the new list has a node for it.
* Objects used after their destructor (`stop`, and the constructor of `player`), pointers
  to dead locals (`push_duration`), a handler that removes itself (`on_bus_message`).
* A lock that is never given back: `populate` clears the flag of `db_queue`, whose
  consumers then spin with their mutex. Whoever constructs a track afterwards, which
  `play`, `json` and with them the joystick's handler and the websocket's threads do, may
  not come back from `push_duration`. A first start scans, so this is its normal state.
* Races without any lock: the cursor between three threads, one `update` flag for all
  connections, a button map that is refilled while it is read, a file that every
  `put` truncates.
* Numbers: the kernel's clock of 32-bit milliseconds, the ends of a list.

`PROJECT.json` lists these as hazards, each at its line, with the properties
that watch it.

## 2. Modules

| Module | Role |
|---|---|
| `WriteBehind` | abstract: a log of statements decided one by one from its front |
| `Db` | the mutex, the condition variable, the monitor and the flag; implements `WriteBehind` |
| `MCDb` | instance of `Db` for TLC |
| `DbProofs` | theorems about `Db` |
| `Library` | statements about playlists and what SQLite makes of them |
| `Player` | class `player` over `Library` and a write-behind queue |
| `MCPlayer` | instance of `Player` |
| `PlayerProofs` | theorems about `Player` |
| `PlayerThreads` | next, previous, play and the bus messages when they overlap, one access a step |
| `DbQueue` | the two queues and consumers of `db_queue` |
| `CatalogList` | abstract: a list of paths that only grows at its end |
| `Catalog` | the rows of `db_catalog`, the constructor of `track`, durations; implements `CatalogList` |
| `PlaylistStore` | one playlist in memory, in its table and in an .m3u file |
| `Settings` | class `config` and its file |
| `ButtonMap` | sections of `joystick.conf` and the map made of one |
| `Joystick` | class `joystick`: monitor, hot plug and configuration threads |
| `Wsocket` | class `wsocket`: connections, the update flag, answers |
| `MC*` | instances of these for TLC |
| `*Proofs` | theorems about `Db`, `Player`, `DbQueue`, `PlayerThreads` (with those about `Wsocket`, whose connections call the player's operations too), `Catalog`, `PlaylistStore`, `Settings`, `Joystick` |

`Db` supports the assumption `Player` makes about its database: `Player` has a
sequence `pending` whose head is executed or refused at any time and which a
restart empties, which is what `WriteBehind` allows and what `DbProofs` proves of
`Db`. The wait of the constructor of player may end at any time in `Player`
(`Scanned`), because the run `db_wait` shows that it can. In the same way
`CatalogList` is what `Library` assumes of the catalog: both `Catalog` and the catalog of
`Player` are proved to implement it.

### Db

One action per access to shared state. `pc` is where a caller is in `push`
(`lock`, `push`, `unlock`, `flag`, `notify` are `db.cpp:28-32`), `mpc` where the
monitor is in its loop; `inflight` is the local copy `q`, `drained` the value
`queries.size() == 0` between its reading (55) and the writing of the flag (56,
58). `Await`/`SeeEmpty` is the spin of `player.cpp:48`. The flag is a plain
`bool` read through an inline function: `HoistedLoad` allows the build that reads
it once (`AwaitHoisted`), as the language does. `Restart` ends the process
anywhere. `MonExec` leaves the choice between success and refusal to SQLite.

### Library and Player

A table is the list of paths `SELECT DISTINCT` returns for it: in the order of
the key for a playlist (SQLite walks the index of `path TEXT PRIMARY KEY`), in
the order of first insertion for the catalog, whose `PRIMARY_KEY` is a type name
and no key. `Sorted` is that collation, a constant with an assumption.

`Player` has one action per operation. `it_track` is an index, with the list's
length for `end()`. `PlayAt` is `player::play`. It ends in `phase = "dead"` where
the code reaches undefined behaviour, and where the build may also get away with it
the action may do either:

* the cursor is at `end()`: `*it_track` reads the list's header as a string;
* the cursor is past the list: its node was freed by the assignment of a shorter
  list, and `distance` never meets it;
* `current_track` was destroyed and is assigned to (`Risks`). `stop` destroys it, and so
  does the constructor (`player.cpp:60`), before `start` plays: every start is such a
  place. `json` reads a destroyed track, a second `stop` destroys it again.

It ends in `phase = "stuck"` where the constructor of `track` calls `push_duration` and
that does not return: for a track the database knows, once `populate` has cleared the flag
of `db_queue` in this process (`scanned`). Which thread is caught depends on whether the
consumer was asleep, which is `DbQueue`'s matter: here it may happen or not. `json` may be
caught as well. A `play` that ends either way has stopped the pipeline before. The pointer
`push_duration` leaves in its queue is followed by another thread at any time later
(`DbQueue`, `ConHandle`); if that ends the process, it is the `Restart` of this model,
which may come at any point.

`Player` follows one operation at a time, so it does not follow a run of the program beyond
either phase: only the write queue goes on while an operation is stuck, and `Restart`
starts the next run. In the program other threads go on, which `PlayerThreads`, `Joystick`
and `Wsocket` follow.

`Restart` is also the constructor: it reads the tables, and either scans the music
directory (phase `scan`, an empty catalog) or resumes. `Populate(f)` is one file of a scan,
in the constructor or in the file watcher, `Rescan` one that finds nothing new.
`Looked(t)` is what constructing a track pushes; it makes even `Json` an operation with
effects. `SetCurrentPlaylist` has no caller today and is modelled as the interface the
class offers: it takes the last playlist of the name among those in memory, one that was
only found in a file included, which may repeat a path, and it does not save the name.
`JoystickPlaylistDown` is the joystick's `playlist_down`, which falls through to `stop`.
Left out of the state: `is_playing`, which is written and never read, and the two _peek_
overloads, `shuffle`, `sort` and others that are declared only; and messages the pipeline
posts once the handler is gone, which nobody reads. `OnError` is an error posted and dispatched
at once: all it does is that the handler is gone. Music files are taken to
stay where they were found.

### DbQueue

Both queues run the same actions with the class's differences between them:
`monitor_update` tests the flag before it waits, `monitor_duration` does not. An
entry of the duration queue is a pointer to a local of the pushing thread, so an
entry is the thread; `ConHandle` may crash the process unless that thread is
still inside `push_duration`. Once the flag is cleared, a consumer that wakes up has its
mutex for good (`Spins`), and a push into its queue waits for ever; one that was never
woken since leaves the mutex free. `Populate` clears `monitor` (`player.cpp:92, 130`) and
nothing sets it again. Nothing calls `push_song` today; it is modelled as the
interface the class offers.

### PlayerThreads

A step is one access to what the threads share: the cursor, `current_track`, the
pipeline's uri and state, the position pushed. `reg` is what a thread holds between
two of them. Tracks are indices; the list is the circle that `std::list` is, with
the header, index `Size`, for `end()`. Whether the compiler reads the cursor once or
twice in `if (++it_track == end())` is left open (`Last`, `StepBack`). Two threads that
assign to `current_track` may crash, or leave part of a string, which is no path
(`Assign`, `Path`). `SetNull` flushes the bus, and a pipeline that is playing does not
look at its uri again (`SetPlaying`): both are GStreamer's. The main loop is the thread
`loop`, which starts `next` in `OnEos` and detaches the handler when it returns.
`overlapped` and `crossed` record what ran at the same time, for the properties only.
`Caught` is the constructor of `track` that does not come back from `push_duration`: no
variable tells whether there was a scan, so it may happen in every call. What the consumer
does with the pointer is left to `DbQueue`.
The playlist stays the same; operations that switch it belong to `Player`.

### Catalog

`rows` are in the order of their insertion, which is the order `SELECT` meets them in
a table without index. `Look` is the constructor of `track` up to the hash of the file,
`FinishNew`, `FinishChanged` and `FinishSame` its three ways on, with other threads in
between. What it does is kept as it is: a path that was not found is inserted twice
(`track.cpp:69`, 75); the row of a changed file is inserted again as it was read, with
the old hash (80), so that the next constructor finds the file changed once more; the
duration a `select_track` returns is never set. `UpdateTrack` is a statement SQLite
always refuses, since `db.cpp:126` assigns its beginning to a temporary; and
`update_duration(song*)` looks for a path that has become a URI (`Uri`). Hashes and tags
are values: "-1", or that of the file.

`CREATE TABLE db_catalog (path TEXT PRIMARY_KEY` (`db.cpp:16`) makes no key, where
`PRIMARY KEY` of the playlists' tables (112) does: this is why rows repeat. Nothing
notices, because every reader asks for `DISTINCT` paths or for any one row, and
`KeepsList` and `AnyRowWillDo` say that both are enough.

### PlaylistStore

`AddToPlaylist`, `Saved` and the statements of a single path are what `db` pushes;
`Changed` is what SQLite makes of them, in the queue's order, each refused or not.
`ExportOpen` to `ExportClose` write a file line by line, with the process ending
anywhere; `Written` models `#EXTM3U` without an end of line, so that the line after it
is part of the comment; a line is a path or `Comment`. `Import` reads what is there, and
`Existing` is the list it keeps. `Rounds` is the loop of `insert_after`, one path a round. `goal`, `asked` and `refused` are
what was asked for, beside the state and without influence on it. `insert_after`,
`export_playlist`, `remove_from_playlist` have no caller today: they are modelled as the
class's interface, called by one thread. That a table may be one another playlist is
inserted into is left out.

### Settings

`put` changes the tree and writes the file: truncate (`Open`), fill the stream's buffer
from the tree (`Dump`), write it out (`Close`). The process may end between any two, and
saves of two threads may overlap; the end of a longer file then stays behind a shorter
one (`Close`). `FirstPut` is one of the puts of a first start, `FirstSave` the one after
them. `Start` fails when the file is no JSON or lacks a key the player asks for. Left
out: the directory, which is taken to exist, the `readlink` that finds it, and the race
of two first calls of `get_instance`. A `put` changes the tree in one step.

### ButtonMap and Joystick

A key is a button's number, plus 100 for a long press, 200 and 300 for an axis.
`Inserted` is `std::map::insert`, which keeps what it finds. The kernel is part of
the model: a queue of events stamped by a clock modulo `Wrap`, lost with the device;
buttons that are down when a device is opened are announced by events `monitor` skips
(`held = "before"`). `age` counts what a press really lasted, up to a whole round;
`here` marks an event of a press made on this device. `Plug`, `StopMonitor`,
`StartMonitor`, `CompareIds` and the load are the udev thread; there are two slots for
monitor threads, the old one and the new. `LoadClear` to `LoadFill` are `load_config`,
which `listen` also runs in the thread of the player; a lookup meanwhile finds anything
or fails (`MonLookup`). The handler runs an operation of the player, which may be caught after
a scan (`MonCaught`): then this monitor thread is over, and `join` waits for it for ever.
`phase = "dead"` is an exception nobody catches, or `strtoul` on
the null pointer of a device without USB parent. `mixed` says that the two loads, or a
load and a plug, overlapped. Assumed: 24 buttons at most, as the arrays have, and ids that
are not 0. A device is named by its ids; what the player does with an event, and
where that ends the process, is in `Player` and `PlayerThreads`. `save_config` has no caller and is left out.

### Wsocket

The state of the player is a `version`; a message is the version `player::json` read.
`Change` begins an operation, which gives one signal or two (`next` and others call
`play`). Each connection's thread is at one of the four places of its loop. It is never
told that its connection was closed, and goes on clearing the flag. `onMessage` runs in
the endpoint's thread, one message at a time, with the answer sent later than it was
built. `HoistedLoad` allows the build that reads the plain flag once (`TestHoisted`).
`raced`, `told`, `seen` are for the properties.

`caught` holds whoever is inside `push_duration` for ever: a connection's thread that builds
a JSON (`BuildCaught`), the endpoint's that answers with one (`OnMessageCaught`), an operation
of the player before it signals, and the endpoint with it if a client asked for the operation
(`PlayerCaught`). `Crash` is the consumer of durations reading a frame that is gone.
`OnMessageDies` is a message that is JSON but no object, `[]` say: `HasMember` asserts an
object, and RapidJSON is an external library used with its assertions, since nothing in the
build defines `NDEBUG`. In the endpoint's thread it ends the process. A process that ended is
not started again here; connections are those of one run.

## 3. Runs

| Run | Question | Instance | Result |
|---|---|---|---|
| `db` | Is the write queue a write-behind log, and does the monitor always wake up? | 2 threads, 2 statements, at most 3 applied, in flight or queued | holds; about 118 000 states |
| `db_wait` | Does the wait mean that the queue is empty? | 1 thread, no hoisting | no: finding |
| `db_wait_ends` | Does the wait end on an empty queue? | 1 thread, no hoisting | no: finding |
| `player` | Are cursor, announcements, settings and saved position right, whatever happens? | 3 tracks, an audio file and a playlist file of the other two, operations start with an empty queue | holds; about 1 300 000 states |
| `db_queue` | Do pushes return and are queues served? | 2 threads, 2 entries in each queue | holds; about 160 000 states |
| `player_threads` | What do operations of the player that overlap do to cursor, track and pipeline? | the main loop and one user's thread, a list of 3 | holds; about 154 000 states |
| `catalog` | What do readers see of rows that repeat? | 2 threads, an audio file and another, 4 rows and statements | holds; about 930 000 states |
| `playlist_store` | Is a save the last word, and does an export read back? | 2 paths of which one exists, lists of 2, 2 statements when a call starts | holds; about 510 000 states |
| `settings` | When can the settings be read again? | 2 threads, 3 playlists | holds; 701 states |
| `joystick` | Does a press mean what it lasts? | 1 button, a clock of 4 ticks, one device, 2 events | holds; about 3 100 000 states |
| `joystick_map` | Is the map that of the device, and is every plug dealt with? | 4 devices that share ids or have no USB parent, 1 axis | holds; about 368 000 states |
| `wsocket` | Who is told of a change, and can a client be shown an older state? | 2 connections, 2 changes, hoisting allowed | holds; about 254 000 states |

Bounds. `MaxLog` bounds the log including what was applied, in the guard of
`CallPush`, so that liveness is not cut by a constraint; three statements suffice
for one applied, one in flight and one queued at once. `MaxPending` only keeps an
operation from starting on a long queue: each still pushes up to five statements,
which then interleave with the following restart, refusal or bus message. Three
tracks distinguish next from previous. Scans interrupted by restarts, and statements that
are lost or refused, give catalogs of none to three tracks and a playlist of two, or of none
in the database, which may be in memory only, so that the playlist switched to is shorter,
as long and longer than the cursor's index. A playlist file that repeats a path is not in
the instance, where it would only add a list the announcements except; the proofs cover it. `MaxQueue` of `DbQueue` allows an
entry being pushed while another waits.

`MaxRows` bounds rows and statements when a constructor starts, which then adds two:
enough for two threads to insert one path at once and for a third row of a changed
file. In `PlaylistStore` two paths make lists with and without repetition, a file and a
path that names none; a save pushes three statements on top of two. A clock of four
ticks tells too short (at most 0 ticks), short (1), long (2) and too long (3) apart on
both sides of the wrap-around; two events in the kernel let a press wait behind a
release. `MaxVersion` allows two changes one after the other and `signals` two signals
of one change. `Size` 3 has a first, a last and a middle track.

Properties.

* `Db`: `NoLostWakeup`, `KeepsLog` (refinement, safety), `DecidesEveryStatement`
  (refinement, liveness), and the two refuted ones, `WaitMeansDrained` and
  `WaitEnds`.
* `Player`: `AnnouncedIsPlayed` and `NeighboursAgree` (what clients are told is
  what the cursor does, at both ends of the list and across duplicates in the
  catalog's rows, in every list the database has: one that is only in memory may repeat a
  path and is excepted), `DiesOnlyOf` (the only ways into undefined behaviour, one
  operation at a time, and the only way not to return), `SettingsNameCurrent` (until
  `set_current_playlist`), `PositionStaysSaved` and `ResumesWhereItStopped` (what survives
  a restart), `PausedIsSilent` (is_paused and the pipeline do not contradict each other;
  that a pause after stop starts a pipeline of no track it allows).
* `DbQueue`: `NoLostWakeup`, `PushReturns`, `QueueServed`. `PushReturns` excepts a push
  into a queue whose consumer spins with the mutex, and no other.
* `PlayerThreads`: `RestsInside` (the cursor rests at `end()` only if `previous`
  overlapped another step: any number of calls of `next` is safe), `RestsPlaying`,
  `LoneCallAgrees` (the next call that is alone repairs every disagreement),
  `DiesOnlyInRaces`, `MusicGoesOn` (liveness, until the handler is gone or an operation is
  caught). An operation that is caught is never at rest, so the others say nothing of it.
* `Catalog`: `KeepsList` (refinement), `AnyRowWillDo`, `ScanAddsOneRow`.
* `PlaylistStore`: `SavesWhatIsAsked` and `WholeListsOnly` (a save replaces the table and
  may lose it, but never keeps a part of it), `ExportReadsBack`, `InsertsTogether`
  (`insert_after` against its result in one expression).
* `Settings`: `FileIsMemory`, `StartsAgain` (only an end in a save or in the first
  start, or saves that overlapped, keep it from starting), `NeverRepaired`.
* `Joystick`: `PressesMeanWhatTheyLast`, `NoPressNoEvent` (a button held while its
  device is plugged in), `HandlerSeesItsEvent`, `MapIsOfDevice` (the map is the section
  of ids that share vendor or product with the device: the code asks for both to differ
  before it loads another), `DiesOnlyOfUnmapped`, `ReplugEnds` (liveness, unless the old
  monitor is caught in the handler).
* `Wsocket`: `UpdateReachesOne` and `LoneClientIsTold` (liveness: what the shared flag
  still guarantees, unless the process died or those who would tell are caught),
  `BackOnlyInRaces`, `ListensInTheEnd`.

Not covered by a property: what the code does wrong and no document promises otherwise. The
models follow it and the properties except it, by name: a consumer that spins and the threads
it catches, pause after stop, lookups in a map that is refilled, the old monitor on the new
device, a device without ids. `PROJECT.json` has a note at each of these hazards.

Deadlock is not checked where the system may stop: in the joystick's runs and in
`player_threads`, after the process has died or every thread was caught.

Fairness. Threads that can run are scheduled, and a thread waiting for a mutex
that is released again and again gets it in the end (strong fairness of the
steps of a push, of the monitor and of the consumers): this is what the Linux
scheduler and futexes give in practice. Nothing makes a thread call `push`, no
condition variable wakes without cause, no restart is forced. `SeeEmpty` is
weakly fair: the spin looks at the flag again. In `PlayerThreads` an operation that
was called goes on, and the main loop dispatches a message that waits (`OnEos`,
`OnError`); streams need not end. An operation that is caught in a constructor takes no
further step: fairness asks for `Deref` or `Caught`, of `Joystick`'s handler for `MonCall` or
`MonCaught`, and in `Wsocket` a thread that is caught leaves `Build` disabled for ever. In `Joystick` the monitor, the loads and the udev
thread go on; nobody needs to touch the device. In `Wsocket` connection threads, signals,
answers and the constructor's next attempt go on; the port need not become free, and
`ListensInTheEnd` asks that it does. `TestHoisted` is never required. `Catalog`,
`PlaylistStore` and `Settings` state safety only and no fairness.

## 4. Proofs

`DbProofs` proves for any number of threads and any statements:

* `TypeCorrect` and `NoWakeupIsLost`. `NoLostWakeup` is not inductive: it needs
  that nobody enqueues between the monitor's test and its sleep (`TestInv`), which
  needs the mutex (`MutexInv`). `InflightInv` says when the local copy is filled.
  `IInv` is their conjunction, kept by each action (`ThreadKeepsIInv`,
  `MonitorKeepsIInv`, `NextKeepsIInv`).
* `WriteBehindLog`: every step of `Db` is a step of `WriteBehind` or leaves its log
  alone (`StepRefines`), by lemmas on the concatenation `disk \o inflight \o queries`
  (`AppendToLast`, `MoveHead`, `DropMiddle`, `PrefixOfConcat`).

`PlayerProofs` proves every property the run `player` checks, for any set of
playlists, tracks and files, any collation, and a queue of any length:

* The inductive invariant `IInv` adds four parts to the types and to `PausedIsSilent`.
  `TablesStay`: a table listed once is a table still, and the settings file names one of
  them; without it `named` could fall back to the first playlist. `Loaded`: each listed
  table is in memory, and a list of that name has no path twice; an .m3u file may repeat a
  path, but such a list is only kept in memory under a name no listed table has.
  `NoTrackTwice`: the same of the catalog, and of the current list if a table of its name
  was listed; `set_current_playlist` may make a list current that none was listed for.
  `ScanClears`: a process that scans has cleared the flag of `db_queue`. `PlayKeeps`,
  `StartKeeps` and `StepKeeps` prove it, one step per operation.
* `SettingsAreCurrent` is an action property and not part of `IInv`, because
  `set_current_playlist` leaves the name unsaved: a switch and a start establish it
  (`SwitchFinds`, `StartKeeps`), and every other operation keeps it.
* `AnnouncementsHold` and `NeighboursHold` follow from `NoTrackTwice`, by
  `IndexOfFinds` (looking up by value finds the cursor) and `StepsInverse` (the
  wrap-around of next undoes that of previous).
* `NothingElseKills` goes through all operations for the ways into undefined behaviour,
  and for those that may not return; for `start` after the first scan it needs `ScanClears`.
  `RestartResumes` follows from `NamedFinds` and `FromDbLoads`.
* `PositionsStaySaved` follows the last statement about the current playlist through
  the queue: `play` pushes it last (`PlaySaves`), `json` pushes nothing about a position
  (`PathsKeepSaved`), and executing the head moves what it says into the database
  (`ExecuteKeepsSaved`).

`DbQueueProofs` proves `NoLostWakeup` for any number of pushing threads and queues of
any length. It needs the mutexes of both queues (`MutexInv`), and that a consumer
about to sleep while the flag is set has still nothing to do (`TestInv`): a push into
the other queue does not disturb it, although both share the condition variable.

`PlayerThreadsProofs` proves the four safety properties for a list of any length and
any number of threads. `LoneInv`: an operation nothing overlapped is the only one.
`CrossInv`, `BackInv` and `EndInv` explain `RestsInside`: as long as `previous` crosses
nothing, whoever moves the cursor to `end()` is about to move it on, or to see it there.
`StartInv` says that somebody is about to start a pipeline that was stopped, `AgreeInv`
what a call that is alone knows at each of its steps.

`CatalogProofs` proves every property of `Catalog`, for any files, threads and bound.

* `DataInv` has the reason for `AnyRowWillDo`: every row that is stored, on its way or
  in a constructor's hands is fresh in all but its duration, because no path of the code
  ever stores a hash or a tag. For `ScanAddsOneRow`, `ScanInv` adds that a path the player
  does not know is nowhere yet.
* `CatalogKeepsList` is the refinement of `CatalogList`, whose list is what `SELECT
  DISTINCT` makes of the rows (`Seen`, a recursive function). `DistinctSelects` shows that
  this function exists and takes one path after the other, `DistinctHas` that it loses
  none, `DistinctAppend` what one more row does to it: nothing, or an addition at the end.
  `NoPathTwice` follows from `CatalogList`.
* `CatalogIsListed` (in `PlayerProofs`) proves the same of the list `Library` keeps
  instead of rows. `Player` therefore assumes nothing of the catalog that its rows do
  not give.

`PlaylistStoreProofs` proves every property of `PlaylistStore`, for any paths, any lists,
and a list and a queue of any length. Its inductive invariant has two parts beside the
types.

* `StoreInv`, for `SavesWhatIsAsked` and `WholeListsOnly`: from the table, the statements
  that wait lead over tables that were asked for, or empty, or none, and end at the one
  asked for last. What holds of the table now is not enough: the part of a list a crash
  could leave behind would come out of the queue later. `Leads` is what the statements of
  one call do from a given table (`AddLeads`, `SaveLeads`); `DrainedConcat` and
  `DrainedWithin` say how the ways through two queues, and through the rest of one, are
  put together. A save leads to its list from any table, which is why it may make good for
  a refused statement; other calls do from the one asked for before.
* `ExportInv`, for `ExportReadsBack`: what the file reads back as while it is written is
  the list up to the current track, with or without its first. The first is lost only when
  no line of tags came before it, so never when the catalog knew it (`known`). `KeptGrows`
  makes an interrupted file the beginning of a finished one.
* `InsertedTogether` is about the loop of `insert_after` for lists of any length
  (`EmplacedBetween`: after n rounds the first n tracks of the reversed list stand at the
  place).

`SettingsProofs` proves all three properties for any threads and playlists. `NewestInv`:
without overlaps one save at most is under way, and the last change is in the file, in
its buffer or still to be saved. `PutsInv` and `CompleteInv`: once the first start is
over, whatever is written has the keys a start asks for. `HurtInv` then leaves only the
ends that hurt.

The last part of `PlayerThreadsProofs` proves `BackOnlyInRaces` of `Wsocket`, for any number
of connections and changes: `RaceInv` says that messages under way to a connection that did
not race are no older than what its client has seen. `Wsocket` is an instance there, and its
assumption is the hypothesis `Bounds` of each theorem.

`JoystickProofs` proves every safety property of `Joystick`, for a clock of any width,
any thresholds below it, any buttons, devices and files, and a kernel queue of any
length.

* `MonInv`: one monitor runs, the other slot is ended; with it `HandlerSeesItsEvent`.
* `PressInv` relates real and measured time. `Since(then, a, now)` says that `a` ticks
  lie between two stamps, across a wrap-around at most. For each button that is down,
  and each release in the queue, the press before it is either still in the queue or in
  the monitor's arrays, with a stamp that many ticks away (`Known`, `LastPress`). Reading
  the head hands a press from the queue to the arrays; a new device empties both sides.
* `BeforeInv`: no press precedes the release of a button that was down when the device
  was opened, in the queue or in the arrays of the monitor started for it.
* `LoadsInv`, `FilledInv` and `IdsInv` follow the two loads: as long as they do not
  overlap the map is empty until it is filled with the section of the ids, and these
  share one with the device; with them `MapIsOfDevice` and `DiesOnlyOfUnmapped`.

Each of these modules proves the type invariant of its component (`TypeCorrect`) with
the rest. TLC checks `TypeOK` in the runs `player` and `playlist_store`.

Induction over numbers. A recursive function is used where the code has a loop: `Kept`,
`Rounds`, `Drained`, `DistinctUpto`. That such a function exists, and what it does at each
argument, is proved and not assumed. The library's induction theorems take an operator,
which the provers here cannot instantiate, so `Induction` states induction as a fact about
sets (a set with 0 that has n whenever it has n - 1 holds all of 0..N), which follows from the
well-foundedness of < on Nat; `Recursion` derives from it that a recursion over 0..N has a
solution. Each lemma about a loop then cites `Induction` with the set of rounds it holds for.

Assumptions, one named `ASSUME` for each module, evaluated by TLC in its runs:
`DbAssumption` (the markers "monitor" and "none" are no threads);
`LibraryAssumption` (the catalog's name is no playlist's, and a set of paths has one
sorted list); `PlayerAssumption` (what a file is, and the marks "empty" and "destroyed"
are no paths); `DbQueueAssumption`; `PlayerThreadsAssumption` (the playlist is not
empty, the main loop is no user); `CatalogAssumption`; `PlaylistStoreAssumption` (`SortedPaths` lists each set
of paths once; no path is the comment sign);
`SettingsAssumption`; `WsocketAssumption`; `JoystickAssumption` (the thresholds are in
order and below the clock's width, 24 buttons at most, ids that are not 0).

Only model-checked: liveness (`DecidesEveryStatement`, `PushReturns`, `QueueServed`,
`MusicGoesOn`, `ReplugEnds`, `ListensInTheEnd`, `UpdateReachesOne`, `LoneClientIsTold`),
since TLAPS does not handle fairness and ENABLED. Every invariant and every action property
a passing run checks is a theorem. The two refuted properties of `Db` are counterexamples
and not theorems. Not proved of each other: that the queue of `Player`, `Catalog` and
`PlaylistStore` is the one of `Db`; they are related by the argument of section 2.

## 5. Not modelled

* `include/src/` is the source of BlueZ, nine tenths of this tree. It is third-party
  code: `Makefile.am` names none of it, and `bluetooth.cpp` includes the system's headers.
  Like `md5.h`, `util.c` and `bluez_util.*` it is left out. Of the lines counted as
  implementation the models can therefore only ever reach a small share.
* `bluetooth`, `bt_device`, `network`, `spotify`, `server`, `console`, `db_mysql` and
  `db_sqlite` are stubs or are called by nothing. `utility` is string helpers;
  `utf8_leng` accepts the byte 128 as one character, which only layout would show.
* Queries nothing calls and that change nothing: `value_of`, `select_where`,
  `select_like`, `influences` (which returns the first column for both of its own),
  `artists`, `get_playlist_source`. `remove_track` deletes catalog rows and has no caller
  either; with it a path could leave the list, and `KeepsList` would not hold.
* `save_config` of the joystick, which nothing calls; it would keep one key of an action
  that has two (`joystick.cpp:287`).
* Text: escaping of SQL, the layout of JSON and of the console.
* The singletons' `get_instance` in two threads at once.
