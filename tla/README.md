# A verification of VitaMaps

VitaMaps is a map viewer for the PS Vita, written in C++. One render thread
draws the map and takes the input; one kernel thread, the tile worker, does all
disk and network work. This directory holds TLA+ modules translated from the
source, TLC configurations that check them on small instances, and theorems
that TLAPS checks for every value of the constants. `PROJECT.json` lists the
components, the runs with their properties, one mutant per property, the source
lines every definition stands for, the hazards, the findings and the theorems.

    tlc -workers 2 -config TilePreemption.cfg MCTileManager
    tlapm TileManagerProofs.tla

## 1. Inventory

Paths are relative to `src/src/`.

| component | state | operations | talks to |
|---|---|---|---|
| tile pipeline, `map/tile_manager.*`, `map/tile.h` | record per tile (state, failures, retry generation), wanted set, active transfer, `cancel_flag_`, upload queue, request and result slots | `submit_requests`, `take_decoded`, `mark_ready`, `mark_evicted`, `request_*`, `take_*_result`, `stop`; `worker_main`, `process_task` | render thread and worker share it under seven spin mutexes (records, uploads, one per request slot); `cancel_flag_` and `stopping_` are read without a lock |
| scheduler, `map/tile_scheduler.*` | sorted queue | `replace`, `try_pop`, `clear`, `shutdown` | filled by `submit_requests`, emptied by the worker |
| map renderer, `render/map_renderer.*` | current raster level | `prepare`, `prepare_cache_only`, `pump_uploads`, `clear_cache` | requests tiles, moves decoded ones into textures |
| texture cache, `render/texture_cache.*` | textures with their last frame, bytes used | `find`, `insert` (with `reserve`), `clear` | reports victims to the renderer, which reports them to the records |
| preferences, `settings/preferences.*` | one word of flags, in memory and on disk | `preferences_init`, setters through `persist` | called by the map screen |
| pin collections, `map/pin_collection.*` | lists of pins, active list, next ids | edits, `load`, `save` | edited by the render thread; the worker imports into a copy |
| GPX, `map/gpx.*` | inbox, history | `refresh_inbox`, `import_file`, `export_list` | run by the worker, results polled |
| memory and disk cache, `cache/memory_cache.*`, `cache/disk_cache.*` | LRU list, map and bytes; files of every style, their times of access, writes since the last scan | `get`, `put`, `trim`; `read`, `write`, `erase`, `reserve`, `enforce_budget`, `clear_all`, atlas scan | the worker only |
| geocode cache, `cache/geocode_cache.*` | files of answers | `read`, `write`, `clear` | the worker only |
| geocoder, Overpass, elevation, `net/*` | time of the last request | one request each, spaced, cancellable | the worker; results by slot |
| map screen, `ui/map_screen.*` | mode, transition, selections, pending flags, confirmation, atlas | `update` (poll results, input), `prepare`, `draw` | everything |
| application, `app/app.*` | the loop | start-up, `run`, `shutdown` | everything |
| session log, `core/log.*` | ring of text, optional snapshot | `log_printf`, `log_save` | both threads |
| camera, projection, geometry, fonts, text input, localization, decoder, providers | numbers, tables | pure or drawing | |

**What is hard.** Two threads interleave at every lock boundary; the worker's
task passes through seven sections in which the viewport may change; the
cancellation flag is shared by tiles, searches, clears and the shutdown and is
reset by the worker; the queue, the record table and the textures are three
structures that no common lock protects; results are polled frames later; files
are replaced by calls that may fail or be cut off; an import replaces what the
user is editing.

**What makes a component correct.**

* *Pipeline:* obsolete transfers are cancelled and no success is booked as a
  failure; no tile is processed twice or abandoned; Ready means there is a
  texture; visible tiles arrive; searches are answered; stopping ends; the atlas
  stays offline.
* *Persistent records:* a save happens as a whole or not at all.
* *Pin collections and GPX:* limits hold on both threads and on the card;
  selections exist; nothing is lost by a result that comes late.
* *Caches:* what is found was stored for this tile; budgets hold also when
  removals fail; one style cannot evict another.
* *Network clients:* the promised distance between two requests; only a clear
  cancels an explicit request.
* *Map screen:* two settings that belong together change together; what the
  screen says about the worker is true; the atlas asks for stored tiles only.

The 40 hazards in `PROJECT.json` say where in the code each of these could go
wrong, and which property watches it; a hazard without a property says why.

## 2. Modules

| module | component | composed with |
|---|---|---|
| `TileManager` | pipeline, scheduler, renderer, texture cache, worker loop | `MCTileManager` |
| `RecordStore`, `AtomicRecord` | register; `persist` of the preferences, which implements it | |
| `PinRepository` | pin collections as operators on a value | used by `PinScreen` |
| `PinScreen` | screens that edit pins, GPX and elevation slots, the worker's part of them | `MCPinScreen` |
| `ForgetfulStore`, `TileCaches` | a store that may forget; memory and disk cache, which implement it | `MCTileCaches` |
| `OfflineAtlas` | snapshot, selection and requests of the atlas as operators | used by `MapServices` |
| `MapServices` | searches, points of interest, cache operations, menu, settings, atlas screen | `MCMapServices` |
| `*Proofs`, `SequenceFacts` | theorems, sections 3 to 7; the lemmas on sequences they share | extend the module they are about |

The components meet in three places, and each is in one module: worker and
render thread over the tiles in `TileManager`, over the pins in `PinScreen`,
over the other requests in `MapServices`. What one module needs of another's
subject it has in the abstract: `PinScreen` and `MapServices` save as
`RecordStore` allows, `MapServices` knows of a tile only that its transfer is
active, `TileManager` has one search slot for all.

Two modules that were considered were not written. *Backoff:* the retry delays
count generations, and `TileManager` lets a failed tile be due at any time, so
what it shows holds for every delay; the promise that breaks is a finding
(section 8). *Log ring:* its state is diagnostic text that nothing reads back.

## 3. The tile pipeline (`TileManager`)

**Correspondence.** Each critical section is one action; code between two
sections touches only the thread's own variables and belongs to the next
action. `mainPc` and `workerPc` are the places between sections.

| model | code |
|---|---|
| `records[k]` | `records_[k].state`; a key without a record is Missing |
| `wanted`, `active`, `cancelFlag`, `stopping`, `network` | `wanted_`, `active_*`, `cancel_flag_`, `stopping_`, `network_available_` |
| `queue`, `uploads` | `TileScheduler::queue_` as a set, `uploads_` as a sequence of keys |
| `search` | the request, in-progress and result flags of one explicit network search (geocode, POI or elevation, which have the same code) |
| `clearing` | the same for a cache clear |
| `textures`, `used`, `evicted` | `TextureCache::entries_`, those with this frame as last use, the local list of victims |
| `task`, `fetched`, `verdict` | `process_task`'s argument, the result of the download, the state about to be set |

A frame is `PollSearch`, `PollClear`, at most one user action (`RequestSearch`
with `PreemptTransfer`; `RequestClear` with `ClearRecords`, `ClearUploads`,
`ClearQueue`), `Submit`, `Replace`, then `DropUpload`, `InsertUpload`,
`RejectUpload` and `MarkEvicted` up to the quota, and `EndFrame`. `Submit`
chooses any set of tiles, any visible part of it, which failed tiles are due and
whether this is the frame in 300 that collects records: this covers every
camera movement, backoff and generation. The worker is `WorkerStart`,
`LoopTest`, `TakeSearch`/`SearchDone`, `TakeClear`/`ClearDone`, `Pop` or `Nap`,
and `process_task` from `BeginTask` to `Retire`.

**Abstractions.** The image, the URL and the caches' contents are dropped: a
lookup may hit or miss, a download may succeed or fail, decoding may fail. The
texture budget counts textures of one size. A search may take any time.
`InsertUpload` merges `take_decoded`, `insert` and `mark_ready`: in between the
record is Decoding, which no step of the worker reads. `WorkerThrows` is the
catch block of `worker_main`. Two assumptions restrict the input:
`CanPrepare` (the atlas is opened from another screen than the map; the screen
shows no more tiles than the budget has textures - about 20 against 48) and
that a clear is asked for in Settings, where the map is not shown.

**Runs.** Two tiles `a`, `b`, and a budget of one texture, so that every upload
of the second tile evicts or is refused; two tiles are enough for one active
and one waiting, one queued and one uploading, one used and one evicted. All
interleavings of the two threads are explored without a bound on the number of
frames.

| run | asks | states |
|---|---|---|
| `preemption` | searches, all screens, faults: `TypeOK`, `ObsoleteTransferCancelled`, `SuccessNeverCharged`, `NoDuplicateWork`, `ReadyHasTexture`, `DocumentedLifecycle` | 0.54 M |
| `clear` | cache clears: `NoAbandonedTile` | 2.1 M |
| `liveness` | `StopTerminates`, `VisibleTileServed` | 0.1 M |
| `search` | one tile, clears compete: `SearchAnswered` | 0.23 M |
| `starved`, `ready_lost`, `atlas` | expected violations, section 8 | |

Symmetry of the two tiles is used in the safety runs only. A worker that throws
keeps its transfer valid for ever, so `NoAbandonedTile` counts such a tile as
carried; that nothing is served any more is the hazard at
`tile_manager.cpp:681`, outside the runs with fairness.

**Fairness.** `WF(Main)` and `WF(Worker)`: the kernel schedules both threads,
each section is short, the spin mutex sleeps, and every transfer ends by its
timeout. `WF(Main)` does not say which input comes. `SF(Pop(k))`: a queued tile
is not overtaken for ever, since the queue is ordered by the viewport, which
stops moving, and a tile that fails stays away for at least 180 frames. It is
used by `VisibleTileServed` only. No other module states fairness; their
properties are about safety.

**Proofs** (`TileManagerProofs`, about any tiles, fallbacks, budget and screens,
faults allowed). `CancelInv` is inductive: types, who owns `active` at each
place of the worker (`Ownership`), the cancellation property itself, and that an
answer that is being given up has its cancellation requested
(`DownloadOutcome`); without the last part a viewport change between the two
reads of the flag could not be excluded. It gives `TypeCorrect`,
`CancellationRequested`, `SuccessNotCharged`. `TextureInv` gives `TexturesKept`
if the user never clears the cache (with clears it is false, run `ready_lost`).
`CarrierInv` says at which places the worker lets a tile go, and that while a
clear is between emptying the records and emptying the uploads no tile depends
on that queue; it gives `NoTileAbandoned`. `WorkInv` says that the state of a
record tells where its tile is: what waits for upload is Decoding, what has a
texture is Ready, the task in hand is neither; it gives `NothingTwice`, for a
user who does not clear the cache (an upload may outlive its record between the
first two sections of a clear, so there the invariant is another one).
`RecordsFollowDiagram` is `DocumentedLifecycle` for the same user: `StageInv`
adds to `WorkInv` in which states the task in hand may be at each place of the
worker, so that every write of a state is an edge of the diagram. The liveness
properties are model-checked only; liveness is out of the prover's reach.

## 4. Persistent records (`AtomicRecord`, `RecordStore`)

`persist` of `preferences.cpp` writes a temporary file, removes the old
rollback copy, renames the current record to the rollback copy, renames the
temporary file, and removes the copy. `AtomicRecord` has one action per call;
`disk` says what each of the three names holds, `pc` the next call, `goal` the
value being saved, `previous` is `had_previous`, `memory` is `g_flags`. A write
may fail at any save. Refused renames and removals and power losses are mishaps,
counted since the last save that succeeded; after a power loss
`preferences_init` loads the record, else the copy, else the default. The file
system is external: calls are atomic and durable in order, a rename onto an
existing name fails. `PinRepository::save` and `log_save` make the same calls.

`RecordStore` is the abstract specification, a register; `RegisterSpec` is the
refinement with `stored <- memory, saving <- goal`. Run `record` (three values,
`MaxMishaps = 1`) checks it with `TypeOK`, `NeverPartial` and `MemoryOnDisk`: a
restart between two saves finds what memory holds, however the last save ended.
Saves repeat without a bound. With a second mishap the refinement fails (run
`record_lost`).

`AtomicRecordProofs` proves, for any set of values: `PartialNeverVisible` and
`RecordTypes` for every `MaxMishaps` (from `WholeInv`: only a record that was
written to its end is renamed), and for `MaxMishaps <= 1` `RestartFindsMemory`
and `RecordIsRegister`. The inductive part is `Placement`: where the old record
is before each call, and that as long as nothing went wrong there is no rollback
copy between saves - so the save that finds one may drop it, because the one
mishap allowed has happened.

## 5. Pins, GPX and elevations (`PinRepository`, `PinScreen`)

**Correspondence.** `PinRepository` has one operator per function of
`pin_collection.cpp`, with a `Can` operator where the code returns false, the
reduction of a track (`bounded_points`), the loop of `import_file`, and what
`decode_payload` refuses and puts right. Names, styles and places are members
of small sets; the elevation of a pin is the place at which it was measured, so
that `ElevationOfPlace` can say that a height belongs to its pin.

| model (`PinScreen`) | code |
|---|---|
| `pins`, `saved`, `unsaved` | `pins_`, the record on the card, the message that the change is only in memory |
| `mode`, `going`, `back` | `mode_`, `pending_mode_`, `pin_lists_return_mode_` |
| `selList`, `selPin`, `selFile` | `selected_list_`, `selected_pin_`, `selected_gpx_` |
| `armed`, `pinning`, `inbox` | `delete_confirm_armed_` with what was asked about, `pinning_`, `gpx_inbox_` |
| `gpx`, `elevation` | request, in-progress flag and result of the two slots; a GPX request carries a copy of the collections |
| `worker`, `listing` | what the worker is busy with, `GpxManager::inbox_` |

A frame is `BeginFrame` (a transition may change the screen, a confirmation may
expire, an answered search may start pin mode), `PollGpx`, `PollElevation` and
`Input`: at most one of 25 inputs, none while a transition runs. The worker
takes one request at a time (`TakeElevation`, `TakeGpx`) and answers
(`FinishElevation`; `Refresh`, `Export`, `Import`). A save is one step that
succeeds or fails, as `RecordStore` allows; `Restart` is possible at any time.
Saves of both threads at the same moment write the same temporary name and are
left out (a hazard). The history of imports is a save that may fail.

**Run `pins`** (5.2 M states). One name, two places, two styles, three lists of
two pins (`ClosingPins = 2`, so that one removal opens a path), two edits or
imports (`MaxEdits`), two files: a route of one point, and a track of three,
which is one more than a list holds. It starts from collections that an earlier
session left: a full closed list, or two lists of which one is hidden. Two
edits are enough for a request, an edit while the worker has it, and its result,
with a restart or a failed save anywhere in between.

**Patience.** `Patient = TRUE` restricts the user: no edit, no request and no
input that would drop a result while a request is pending or a result waits.
This is an assumption the code does not enforce. With `Patient = FALSE` TLC
finds the four findings about pins of section 8 within seconds, so the run would
show nothing else. `RepositoryBounds`, `SavedLoads` and `SelectedListExists`
do not need it, and are proved without it.

**Proofs.** `PinScreenProofs` proves for any names, places, files and limits,
and for any user: `PinTypes`, `LimitsKept`, `ListSelected`, `CardDecodes`. `Good(r)`
(types and limits) is kept by every operator of `PinRepository`, one lemma each;
`SampleFits` bounds the reduction of a track. `PinInv` is inductive:
`CollectionsOK` (memory and card), `ScreenOK` (selections and modes, the
selection of a list after every deletion and import), `RequestsOK` (slots,
worker and the copy an import works on).

`PinPatienceProofs` proves what a patient user gets, each with its own
invariant: `CardFollowsScreen` (`SlotInv`: an import and an elevation request
exclude each other; `DiskInv`: an imported result is the record or is marked as
failed), `PlacedWhereDrawn` (`ShowInv`), `PinSelectedExists` (`SelInv`: no
import is under way on the screen of a list, and every other operation keeps the
count of its pins or clamps the selection).

Where patience would assume away the case that matters the theorem is about any
user, and says how far the damage of a late result goes. `ImportAppends`: the
collections an import puts on the screen begin with the lists that were there
when it was asked for (`asked`, a history variable that copies `pins` at the
request), so that an import can undo edits made since, and nothing else.
`HeightsBelongToPlaces`: of all steps only the poll of a `StaleAnswer`, whose
places are not those of the pins they are given to, can measure a pin wrongly
(`AllMeasured`: every height in memory, on the card and in an import). The
properties of the run, `ImportOnlyAdds` and `ElevationOfPlace`, follow for a
patient user, who gets no such results (`PatientImports`, `PatientHeights`;
the latter supposes that the collections found at the start are measured).

## 6. Tile caches (`TileCaches`, `ForgetfulStore`)

**Correspondence.** `memory` has `lru_`, `entries_` and `used_bytes_`; `disk`
has for every style its files in the order of their times of access; `parts` is
what lies under the temporary names; `refused` is what the card refuses to
remove at present; `pc`, `key`, `data` are the place in `write` and its
arguments; `scans`, `todo`, `size` the locals of the eviction loops; `writes` is
`writes_since_scan_`. Only the worker uses the caches: an action is one call of
the file system or one round of a loop. `FetchFromMemory`, `FetchFromDisk` and
`Download` are the three ways `process_task` comes by an image; `Clean` to
`Rename` is `write`; `Scan` and `Enforce` are `enforce_budget`; `Clear` and
`ClearPath` are the clear; `Wear` changes the card, `PowerLoss` restarts.

Every call may fail; a removal fails as `Refusals` says, for a while, so that a
loop meets the same refusal twice. Left out: a folder that cannot be listed and
is taken for empty (a hazard), and `provider_bytes_`, which nothing reads.

`ForgetfulStore` is what a cache promises: a lookup finds a payload that was
stored for this tile, or nothing. One payload is stored at a time, `data` for
`key`; from `Begin` to `Store` it may join `found[key]`, and no other step adds
anything. `StoreSpec` is the refinement, with `found[k]` as what memory and card
have for `k`, and `key` and `data` the arguments of the write: the bytes of one
tile under the name of another, or a leftover temporary file of an earlier write
under the name that is read, would be no step of it.

**Run `caches`** (1.16 M states). Three tiles of two styles, images of one and
two units and a file that does not decode, budgets of two (memory) and three
(card), a scan after every second write. The card starts empty or with a style
above its budget; it may refuse to remove one tile and one temporary file. This
is the least in which a write has to evict, may have to skip what it replaces,
and may find that it cannot make room. It checks `MemoryAgrees`,
`GrowsWithinBudget`, `OldestFirst`, `StylesIndependent` and `StoreSpec`.

**Proofs** (`TileCachesProofs`, for any tiles, styles, sizes, budgets and
refusals). `CacheInv` is `MemoryOK` (what memory has are images), `DiskOK` (a
file lies in the folder of its style), `WriteOK` (from the end of the write to
the rename the temporary file is the image) and `EvictionOK` (a write makes room
among tiles of its own style). `CachesForget` is the refinement (what is renamed
is what this write wrote), and
`OneStylePerWrite` the independence of styles. `OldestGoFirst` needs `OrderInv`
as well: a folder has one file of a name, and while a loop runs, what it has not
looked at are the last files of the style, and those before it are the file to
be replaced or refused by the card (`Looking`). It assumes that an earlier
session left one file of a name, as any folder does.

`MemoryInOrder` rests on `Listed`: the list and the map name the same tiles,
each once, and the byte count is the sum of their sizes, which every lookup, put
and eviction keeps. `BudgetBoundsGrowth` rests on `SizeInv`: while a loop runs
for a write, what it counts is what is left of the style plus the file to come,
less the file to be replaced, so that the rename leaves no more than the
budget, or less than there was. `CachesTypeCorrect` has the types.

These sums are folds over sequences. What they need of induction is taken from
the library's fact that < is well-founded on the natural numbers: `Induction` in
`SequenceFacts` says that a set of numbers with 0 and every successor has all of
them, and is cited with the set of the lengths, or of the places, for which a
claim holds. From it follow the existence of the partial sums, that the fold is
the last of them, and what a sum becomes when one element leaves or joins.
`SequenceFacts` also has what sections 5 and 7 use: sequences with an element
removed or appended, the least and the greatest of a set of numbers.

## 7. Services, settings and atlas (`MapServices`, `OfflineAtlas`)

**Correspondence.**

| model (`MapServices`) | code |
|---|---|
| `mode`, `row`, `confirm`, `clearing`, `searching`, `shown` | `mode_`, `selected_setting_`, `cache_clear_confirm_`, `cache_clear_pending_`, `search_pending_`, whether `pois_` has points |
| `fresh` | whether `cache_refresh_timer_` was set since the timers last ran: five seconds are more than one frame, whose length `App::run` bounds by 0.05 s |
| `geo`, `poi`, `cache`, `results` | the slots of the worker, `cache_operation_results_` |
| `worker`, `cancel`, `left` | place in `worker_main` and the clients, `cancel_flag_`, rest of the pause |
| `since`, `quiet` | time since `last_request_us_`; time since a request was really sent (kept for `RequestsSpaced` only) |
| `style`, `saved`, `hiking`, `trouble` | style of `provider_`, saved style, saved hiking mode, whether a save of the last change failed |
| `atlas` | the `offline_atlas_*` and `atlas_*` members |

A frame is `Poll`, `Timers` on the settings, `Input`, the sections of the
request it makes (`Preempt`, `CancelForClear`), and `Prepare`, which may raise
the flag against a tile. The worker looks at the slots in the order of
`worker_main`; `Tick` lets time pass. Screens change at once, as with reduced
motion: the transitions are in `PinScreen`. Both clients may fail at every exit
the code has.

`OfflineAtlas` has the scan, the choice of layer and tile, the movements, and
`build_offline_atlas_requests`. Coordinates are integers in which the centre of
every tile down to `Deepest` is exact.

**Run `services`** (2.86 M states). Two styles, of which one goes with hiking
mode; intervals of two ticks (geocoder) and three, so that a pause can be
cancelled, or time go by, in its middle, and different so that one client's may
outlast the other's; zooms up to 2 and three possible scans - nothing, five
tiles on three layers of two styles, two tiles - so that a refresh takes the
selected layer or tile away. `Habits` bounds what a user does in one behaviour:
services with clears, styles, the atlas with "go there", clears with the atlas.
Mixtures of these meet in `mode`, `row` and the place of the worker only, and
the properties are proved for any habits. No bound is put on the results that
wait: each poll takes one and sets the timer, so that the timers ask for no
other status in that frame; that at most three wait follows, and is part of
`TypeOK`. `RequestsSpaced` is about the step that sends: the time since the last
request that was really sent, which the code does not keep, is the interval by
then. Scores of tiles are computed in a `long` of the Vita (`LongMax`).

**Proofs** (`MapServicesProofs`, for any styles, intervals, contents and
habits). `IntervalsKept` (`Spacing`: what is left of a pause covers what is
left of the interval). `RequestsNotPreempted` (`FlagInv`): the flag raised by
a clear reaches an explicit request only with the clear waiting behind it; the
reason, `Ahead`, is that the settings ask for the status when they open, so that
once they may ask for a clear the worker has passed every earlier request.
`SearchAnswerWaits`, `RunningClearShown` (`ClearingInv`: while a clear is
pending no result waits), `ClearIsConfirmed`, `HikingFollowsStyle`.

`AtlasAsksForStored` and `SelectionIsAsked` rest on `AtlasInv`: what waits in a
result is what a scan can make, style and selection of the atlas point into it,
and at the start of a frame the selection is where the view is. Every movement
keeps this because the least of several distances or scores exists, and the
index of a layer does: `OfflineAtlasProofs` proves it for any finite set of
tiles (`Exp2` by induction on its argument, the sorted index by induction on the
number of tiles, the first of the least by induction on the numbers they are
chosen by), and what the window of five
by five tiles and the three layers bound (`WindowOfFive`, `ThreeZooms`).
`ServicesTypeCorrect` adds `FewResults`: the results that wait and the request
that is pending are together at most what the queue of three takes.

Assumed of the constants: the contents of the card are finite sets of tiles
within the columns and rows of their zoom, and camera and pans are integers. The
program writes no other tiles; the scan itself checks the zoom and that
coordinates are not negative.

## 8. What does not hold

With a run that finds it:

* `starved`: the textures drawn as a fallback for a tile count as used, so with
  a full budget they keep the tile itself out; it is decoded and refused again
  and again.
* `ready_lost`: textures are destroyed when the result of a clear is polled;
  what became Ready since the clear stays Ready without a texture.
* `atlas`: a map task between `try_pop` and `process_task` survives the change
  to the atlas and downloads.
* `record_lost`: the save after an interrupted save removes the only copy
  before the new record is in place.

Met while modelling, each with its entry under `findings` in `PROJECT.json`;
the first four are what `Patient = TRUE` keeps out of run `pins`:

* the result of an import replaces the collections, with the edits made since
  the request (`map_screen.cpp:1089`);
* elevations are applied by index to a list that may have been reordered or
  shortened (`map_screen.cpp:1146`);
* after an import polled on the screen of a list the selected pin may lie
  beyond the end of the new list (`map_screen.cpp:1090`);
* a new GPX request drops the result of an import nobody has polled
  (`tile_manager.cpp:353`);
* a request for points of interest that is cancelled in its pause is answered
  as "nothing found" and removes the points shown (`overpass.cpp:204`);
* a request for the atlas drops the result of a clear that waits
  (`tile_manager.cpp:449`);
* style and hiking mode are two saves; after the failure of the second they
  differ (`map_screen.cpp:2150`), which `StyleFollowsHiking` excepts (`trouble`);
* TRIANGLE on the atlas cycles all styles, not those with cached data as
  `CONTROLS.md:57` has it (`map_screen.cpp:1767`);
* the delay after HTTP 429 is forgotten with the record of the tile
  (`tile_manager.cpp:214`).

## 9. What is only model-checked

* Liveness (`StopTerminates`, `VisibleTileServed`, `SearchAnswered`): out of the
  prover's reach.

Every invariant and every safety property of the passing runs is proved;
`ImportOnlyAdds` and `ElevationOfPlace` as lemmas, for the patient user the run
is about, next to the theorems about any user (section 5).

## 10. What is not modelled

* *Geocode cache:* replaced by a removal and a rename without a copy. What a
  power loss can take is one answer, which is asked for again.
* *HTTPS transport:* a wrapper of an external library. The modules take from it
  that a transfer ends with an answer or an error.
* *Session log:* diagnostics that no part of the program reads.
* *Camera, projection, pin geometry, place lookup:* real arithmetic. The
  wrapping of tile columns is in `OfflineAtlas`.
* *Fonts, text input, localization, motion, image decoder, providers, fatal
  screen, place labels:* drawing, dialogs, libraries, tables.
* In the modelled components: the order of the scheduler's queue, generation
  numbers and retry delays; two saves at the same moment; folders that cannot be
  listed; entries of the GPX history; the interface category of the settings,
  whose rows each save one value; touch, messages and layout; the start-up of
  the libraries.
