----------------------------- MODULE TileManager -----------------------------
(***************************************************************************)
(* The tile pipeline: the render thread (MapScreen, MapRenderer and the    *)
(* public half of TileManager) and the one kernel worker (worker_main and  *)
(* process_task), which share the record table, the wanted set, the active *)
(* transfer, the volatile cancellation flag, the scheduler's queue and the *)
(* upload queue.  Every critical section of the code is one step; code     *)
(* between two critical sections touches nothing the other thread sees, so *)
(* it belongs to the step that follows it.                                 *)
(***************************************************************************)
EXTENDS Naturals, Sequences, FiniteSets

CONSTANTS
    Keys,           (* the tiles                                            *)
    Fallback,       (* Fallback[k]: cached parents and children drawn for k *)
    TextureBudget,  (* how many textures the L1 budget holds                *)
    Screens,        (* the kinds of screen the user visits                  *)
    UserActions,    (* what the user does beside moving: "search", "clear"  *)
    Faults,         (* whether an allocation may fail (worker or GPU)       *)
    NoTask          (* no task in hand, no active transfer                  *)

Tasks == [key : Keys, cacheOnly : BOOLEAN]

ASSUME KeysAssumption == IsFiniteSet(Keys)
ASSUME FallbackAssumption == Fallback \in [Keys -> SUBSET Keys]
ASSUME BudgetAssumption == TextureBudget \in Nat \ {0}
ASSUME ScreensAssumption == Screens \subseteq {"map", "atlas", "other"}
ASSUME UserAssumption == UserActions \subseteq {"search", "clear"}
ASSUME FaultsAssumption == Faults \in BOOLEAN
ASSUME NoTaskAssumption == NoTask \notin Tasks

TileStates == {"Missing", "Queued", "DiskLookup", "Downloading",
               "Downloaded", "Decoding", "Ready", "Failed"}

VARIABLES
    records,     \* records_[k].state; a key without a record is Missing
    wanted,      \* wanted_
    active,      \* active_key_ and active_cache_only_, NoTask when not active_valid_
    cancelFlag,  \* cancel_flag_
    queue,       \* the scheduler's queue; its order is left open
    uploads,     \* uploads_, by key
    search,      \* the slot of an explicit network search
    clearing,    \* the slot of a cache clear
    stopping,    \* stopping_
    network      \* network_available_

VARIABLES
    mainPc,      \* where the render thread is in its frame
    mode,        \* the kind of screen last prepared
    visible,     \* keys the last submission marked visible
    pending,     \* submit_requests' local queued_tasks
    quota,       \* uploads pump_uploads may still do in this frame
    textures,    \* keys of TextureCache::entries_
    used,        \* keys whose last_used_frame is this frame
    evicted      \* pump_uploads' local evicted

VARIABLES
    workerPc,    \* where the worker is
    task,        \* process_task's argument
    fetched,     \* what the download of the task returned
    verdict      \* the state process_task is about to set

sharedVars == <<records, wanted, active, cancelFlag, queue, uploads, search,
                clearing, stopping, network>>
mainVars == <<mainPc, mode, visible, pending, quota, textures, used, evicted>>
workerVars == <<workerPc, task, fetched, verdict>>
vars == <<sharedVars, mainVars, workerVars>>

Slot == {"none", "requested", "running", "answered"}
ClearSlot == {"none", "requested", "running", "cleared", "failed"}
Modes == {"map", "atlas", "other"}  \* "other": Navigation, Settings, editors
MainPcs == {"pollSearch", "pollClear", "input", "preempt", "clearRecords",
            "clearUploads", "clearQueue", "prepare", "replace", "pump",
            "markEvicted", "stopCancel", "stopQueue", "join", "done"}
(* The worker outside process_task, and inside it while it owns `active'.  *)
IdlePcs == {"start", "loop", "pollSearch", "pollClear", "pop", "searching",
            "clearing", "begin"}
TaskPcs == {"lookup", "startDownload", "download", "judge", "charge",
            "downloaded", "startDecode", "decode", "publish", "push",
            "settle", "retire"}

Init ==
    /\ records = [k \in Keys |-> "Missing"]
    /\ wanted = {} /\ active = NoTask /\ cancelFlag = FALSE
    /\ queue = {} /\ uploads = <<>>
    /\ search = "none" /\ clearing = "none"
    /\ stopping = FALSE /\ network \in BOOLEAN
    /\ mainPc = "pollSearch" /\ mode = "other" /\ visible = {}
    /\ pending = {} /\ quota = 0 /\ textures = {} /\ used = {} /\ evicted = {}
    /\ workerPc = "start" /\ task = NoTask
    /\ fetched = "none" /\ verdict = "Missing"

-----------------------------------------------------------------------------
(* The render thread.  One frame is App::run's update, prepare, draw: the  *)
(* results are polled, then at most one user action, then one submission.  *)

(* poll_search_result and its siblings for POIs and elevations.            *)
PollSearch ==
    /\ mainPc = "pollSearch"
    /\ search' = IF search = "answered" THEN "none" ELSE search
    /\ mainPc' = "pollClear"
    /\ UNCHANGED <<records, wanted, active, cancelFlag, queue, uploads,
                   clearing, stopping, network, mode, visible, pending, quota,
                   textures, used, evicted, workerVars>>

(* poll_cache_result: only a clear that succeeded destroys the textures,   *)
(* and it tells the record table nothing.                                  *)
PollClear ==
    /\ mainPc = "pollClear"
    /\ clearing' = IF clearing \in {"cleared", "failed"} THEN "none" ELSE clearing
    /\ textures' = IF clearing = "cleared" THEN {} ELSE textures
    /\ mainPc' = "input"
    /\ UNCHANGED <<records, wanted, active, cancelFlag, queue, uploads, search,
                   stopping, network, mode, visible, pending, quota, used,
                   evicted, workerVars>>

(* request_geocode, request_pois or request_elevation, first section: the  *)
(* slot, dropping an answer nobody has read yet.                           *)
RequestSearch ==
    /\ "search" \in UserActions
    /\ mainPc = "input"
    /\ search \notin {"requested", "running"}
    /\ search' = "requested"
    /\ mainPc' = "preempt"
    /\ UNCHANGED <<records, wanted, active, cancelFlag, queue, uploads,
                   clearing, stopping, network, mode, visible, pending, quota,
                   textures, used, evicted, workerVars>>

(* Their second section: an active tile transfer is asked to yield.        *)
PreemptTransfer ==
    /\ mainPc = "preempt"
    /\ cancelFlag' = (cancelFlag \/ active # NoTask)
    /\ mainPc' = "prepare"
    /\ UNCHANGED <<records, wanted, active, queue, uploads, search, clearing,
                   stopping, network, mode, visible, pending, quota, textures,
                   used, evicted, workerVars>>

(* request_cache_clear, offered by the Settings screen, in four sections.  *)
RequestClear ==
    /\ "clear" \in UserActions
    /\ mainPc = "input" /\ mode = "other"
    /\ clearing \notin {"requested", "running"}
    /\ clearing' = "requested"
    /\ mainPc' = "clearRecords"
    /\ UNCHANGED <<records, wanted, active, cancelFlag, queue, uploads, search,
                   stopping, network, mode, visible, pending, quota, textures,
                   used, evicted, workerVars>>

ClearRecords ==
    /\ mainPc = "clearRecords"
    /\ cancelFlag' = TRUE
    /\ wanted' = {}
    /\ records' = [k \in Keys |-> "Missing"]
    /\ mainPc' = "clearUploads"
    /\ UNCHANGED <<active, queue, uploads, search, clearing, stopping, network,
                   mode, visible, pending, quota, textures, used, evicted,
                   workerVars>>

ClearUploads ==
    /\ mainPc = "clearUploads"
    /\ uploads' = <<>>
    /\ mainPc' = "clearQueue"
    /\ UNCHANGED <<records, wanted, active, cancelFlag, queue, search, clearing,
                   stopping, network, mode, visible, pending, quota, textures,
                   used, evicted, workerVars>>

ClearQueue ==
    /\ mainPc = "clearQueue"
    /\ queue' = {}
    /\ mainPc' = "prepare"
    /\ UNCHANGED <<records, wanted, active, cancelFlag, uploads, search,
                   clearing, stopping, network, mode, visible, pending, quota,
                   textures, used, evicted, workerVars>>

(* Mutant: whatever has no texture is queued.                              *)
RequeuedUnlessReady(request, due) ==
    [k \in Keys |->
        IF k \notin request
        THEN IF records[k] = "Queued" THEN "Missing" ELSE records[k]
        ELSE IF records[k] = "Ready" THEN "Ready" ELSE "Queued"]

(* submit_requests, the section under state_mutex_.  Requeued puts back    *)
(* the queued tiles that left the viewport and queues the missing ones and *)
(* those failed ones that are `due': generation numbers and the backoff    *)
(* are abstracted to an arbitrary choice, as is whether this is one of the *)
(* frames (every 300th) that `collect's unwanted records.                  *)
Requeued(request, due) ==
    [k \in Keys |->
        IF k \notin request
        THEN IF records[k] = "Queued" THEN "Missing" ELSE records[k]
        ELSE IF \/ records[k] = "Missing"
                \/ records[k] = "Failed" /\ k \in due
             THEN "Queued" ELSE records[k]]

(* Mutant: leaving the viewport is not a reason to yield.                  *)
MustYieldOnScreen(request, onScreen, cacheOnlyMode, table) ==
    /\ active # NoTask
    /\ \/ cacheOnlyMode /\ ~active.cacheOnly
       \/ /\ active.key \notin onScreen
          /\ \E k \in onScreen \ {active.key} : table[k] = "Queued"

(* The active transfer is obsolete, reaches for the network under the      *)
(* atlas, or is look-ahead work in the way of a tile on the screen.        *)
MustYield(request, onScreen, cacheOnlyMode, table) ==
    /\ active # NoTask
    /\ \/ active.key \notin request
       \/ cacheOnlyMode /\ ~active.cacheOnly
       \/ /\ active.key \notin onScreen
          /\ \E k \in onScreen \ {active.key} : table[k] = "Queued"

(* What a frame may ask for.  The atlas is entered from Navigation, never  *)
(* straight from the map, and the screen shows fewer tiles (some twenty)   *)
(* than the budget has textures (48).                                      *)
CanPrepare(next, request, onScreen) ==
    /\ next = "atlas" => mode # "map"
    /\ next = "other" => request = {}
    /\ Cardinality(onScreen) <= TextureBudget

Submit(next, request, onScreen, due, collect) ==
    /\ mainPc \in {"input", "prepare"}
    /\ CanPrepare(next, request, onScreen)
    /\ LET table == Requeued(request, due)
       IN  /\ records' = [k \in Keys |->
                 IF collect /\ k \notin request /\ table[k] = "Failed"
                 THEN "Missing" ELSE table[k]]
           /\ pending' = {[key |-> k, cacheOnly |-> next = "atlas"] :
                             k \in {r \in request : table[r] = "Queued"}}
           /\ cancelFlag' = (cancelFlag \/
                 MustYield(request, onScreen,
                           request # {} /\ next = "atlas", table))
    /\ wanted' = request
    /\ visible' = onScreen
    /\ mode' = next
    /\ mainPc' = "replace"
    /\ UNCHANGED <<active, queue, uploads, search, clearing, stopping, network,
                   quota, textures, used, evicted, workerVars>>

(* submit_requests' scheduler_.replace, then prepare's textures_.find over *)
(* what this frame draws, which protects it from this frame's evictions.   *)
Drawn ==
    CASE mode = "map"   -> visible \cup UNION {Fallback[k] : k \in visible}
      [] mode = "atlas" -> wanted
      [] OTHER          -> {}

UploadsPerFrame == [map |-> 2, atlas |-> 3, other |-> 0]

Replace ==
    /\ mainPc = "replace"
    /\ queue' = pending
    /\ pending' = {}
    /\ used' = Drawn \cap textures
    /\ quota' = UploadsPerFrame[mode]
    /\ mainPc' = "pump"
    /\ UNCHANGED <<records, wanted, active, cancelFlag, uploads, search,
                   clearing, stopping, network, mode, visible, textures,
                   evicted, workerVars>>

(* take_decoded, on a candidate that left the viewport.                    *)
DropUpload ==
    /\ mainPc = "pump" /\ quota > 0 /\ uploads # <<>>
    /\ Head(uploads) \notin wanted
    /\ uploads' = Tail(uploads)
    /\ records' = [records EXCEPT ![Head(uploads)] = "Missing"]
    /\ UNCHANGED <<wanted, active, cancelFlag, queue, search, clearing,
                   stopping, network, mainVars, workerVars>>

(* take_decoded on a wanted one, TextureCache::insert and mark_ready.      *)
(* `victims' is what reserve evicts: nothing while there is room, else one *)
(* texture this frame has not used.  take_decoded and mark_ready are two   *)
(* sections, merged here: in between the record is Decoding, which the     *)
(* worker neither looks for nor changes, and the pop and Push commute.     *)
Victims(key) ==
    IF key \in textures \/ Cardinality(textures) < TextureBudget
    THEN {{}}
    ELSE {{v} : v \in textures \ used}

InsertUpload ==
    /\ mainPc = "pump" /\ quota > 0 /\ uploads # <<>>
    /\ LET key == Head(uploads)
       IN  /\ key \in wanted
           /\ \E victims \in Victims(key) :
                /\ textures' = (textures \ victims) \cup {key}
                /\ used' = used \cup {key}
                /\ evicted' = victims
           /\ records' = [records EXCEPT ![key] = "Ready"]
    /\ uploads' = Tail(uploads)
    /\ quota' = quota - 1
    /\ mainPc' = "markEvicted"
    /\ UNCHANGED <<wanted, active, cancelFlag, queue, search, clearing,
                   stopping, network, mode, visible, pending, workerVars>>

(* Mutants: mark_evicted looks for one of the two states only.             *)
EvictDecoding(table, key) ==
    [table EXCEPT ![key] = IF @ = "Decoding" THEN "Missing" ELSE @]
EvictReady(table, key) ==
    [table EXCEPT ![key] = IF @ = "Ready" THEN "Missing" ELSE @]

(* mark_evicted: only a Ready or Decoding record goes back to Missing.     *)
Evict(table, key) ==
    [table EXCEPT ![key] = IF @ \in {"Ready", "Decoding"} THEN "Missing" ELSE @]

(* The same when insert fails: every texture is in use by this frame, or   *)
(* the GPU allocation fails after the victim was freed.                    *)
RejectUpload ==
    /\ mainPc = "pump" /\ quota > 0 /\ uploads # <<>>
    /\ LET key == Head(uploads)
       IN  /\ key \in wanted
           /\ key \notin textures
           /\ \/ Victims(key) = {} /\ evicted' = {}
              \/ Faults /\ evicted' \in Victims(key)
           /\ records' = Evict(records, key)
    /\ textures' = textures \ evicted'
    /\ uploads' = Tail(uploads)
    /\ quota' = quota - 1
    /\ mainPc' = "markEvicted"
    /\ UNCHANGED <<wanted, active, cancelFlag, queue, search, clearing,
                   stopping, network, mode, visible, pending, used, workerVars>>

(* pump_uploads' mark_evicted for the victim.                              *)
MarkEvicted ==
    /\ mainPc = "markEvicted"
    /\ records' = [k \in Keys |->
                     IF k \in evicted THEN Evict(records, k)[k] ELSE records[k]]
    /\ evicted' = {}
    /\ mainPc' = "pump"
    /\ UNCHANGED <<wanted, active, cancelFlag, queue, uploads, search, clearing,
                   stopping, network, mode, visible, pending, quota, textures,
                   used, workerVars>>

EndFrame ==
    /\ mainPc = "pump"
    /\ quota = 0 \/ uploads = <<>>
    /\ quota' = 0 /\ used' = {}
    /\ mainPc' = "pollSearch"
    /\ UNCHANGED <<sharedVars, mode, visible, pending, textures, evicted,
                   workerVars>>

(* App::shutdown calls stop between two frames.                            *)
Stop ==
    /\ mainPc = "pollSearch"
    /\ stopping' = TRUE
    /\ mainPc' = "stopCancel"
    /\ UNCHANGED <<records, wanted, active, cancelFlag, queue, uploads, search,
                   clearing, network, mode, visible, pending, quota, textures,
                   used, evicted, workerVars>>

StopCancel ==
    /\ mainPc = "stopCancel"
    /\ cancelFlag' = TRUE
    /\ mainPc' = "stopQueue"
    /\ UNCHANGED <<records, wanted, active, queue, uploads, search, clearing,
                   stopping, network, mode, visible, pending, quota, textures,
                   used, evicted, workerVars>>

StopQueue ==
    /\ mainPc = "stopQueue"
    /\ queue' = {}
    /\ mainPc' = "join"
    /\ UNCHANGED <<records, wanted, active, cancelFlag, uploads, search,
                   clearing, stopping, network, mode, visible, pending, quota,
                   textures, used, evicted, workerVars>>

Join ==
    /\ mainPc = "join" /\ workerPc = "stopped"
    /\ uploads' = <<>> /\ search' = "none" /\ clearing' = "none"
    /\ mainPc' = "done"
    /\ UNCHANGED <<records, wanted, active, cancelFlag, queue, stopping,
                   network, mode, visible, pending, quota, textures, used,
                   evicted, workerVars>>

(* Not a step of the code: the process is gone.                            *)
Exited == mainPc = "done" /\ UNCHANGED vars

Main ==
    \/ PollSearch \/ PollClear \/ RequestSearch \/ PreemptTransfer
    \/ RequestClear \/ ClearRecords \/ ClearUploads \/ ClearQueue
    \/ \E next \in Screens, request, due \in SUBSET Keys, collect \in BOOLEAN :
          \E onScreen \in SUBSET request :
             Submit(next, request, onScreen, due, collect)
    \/ Replace \/ DropUpload \/ InsertUpload \/ RejectUpload \/ MarkEvicted
    \/ EndFrame \/ Stop \/ StopCancel \/ StopQueue \/ Join

-----------------------------------------------------------------------------
(* The worker.                                                             *)

(* worker_main's prologue: the HTTPS client may fail to start.             *)
WorkerStart ==
    /\ workerPc = "start"
    /\ network' \in {network, FALSE}
    /\ workerPc' = "loop"
    /\ UNCHANGED <<records, wanted, active, cancelFlag, queue, uploads, search,
                   clearing, stopping, mainVars, task, fetched, verdict>>

(* Mutant: the loop never ends.                                            *)
LoopForever ==
    /\ workerPc = "loop"
    /\ workerPc' = "pollSearch"
    /\ UNCHANGED <<sharedVars, mainVars, task, fetched, verdict>>

(* while (!stopping_): after this test nothing looks at stopping_ again    *)
(* until the loop comes round, except to withhold a result.                *)
LoopTest ==
    /\ workerPc = "loop"
    /\ workerPc' = IF stopping THEN "stopped" ELSE "pollSearch"
    /\ UNCHANGED <<sharedVars, mainVars, task, fetched, verdict>>

(* take_geocode_request (or POI, or elevation) and cancel_flag_ = 0.       *)
TakeSearch ==
    /\ workerPc = "pollSearch"
    /\ IF search = "requested"
       THEN search' = "running" /\ cancelFlag' = FALSE /\ workerPc' = "searching"
       ELSE workerPc' = "pollClear" /\ UNCHANGED <<search, cancelFlag>>
    /\ UNCHANGED <<records, wanted, active, queue, uploads, clearing, stopping,
                   network, mainVars, task, fetched, verdict>>

(* Mutant: the answer is withheld.                                         *)
SearchDoneQuietly ==
    /\ workerPc = "searching"
    /\ search' = "none"
    /\ workerPc' = "loop"
    /\ UNCHANGED <<records, wanted, active, cancelFlag, queue, uploads,
                   clearing, stopping, network, mainVars, task, fetched,
                   verdict>>

SearchDone ==
    /\ workerPc = "searching"
    /\ search' = IF stopping THEN "none" ELSE "answered"
    /\ workerPc' = "loop"
    /\ UNCHANGED <<records, wanted, active, cancelFlag, queue, uploads,
                   clearing, stopping, network, mainVars, task, fetched,
                   verdict>>

TakeClear ==
    /\ workerPc = "pollClear"
    /\ IF clearing = "requested"
       THEN clearing' = "running" /\ workerPc' = "clearing"
       ELSE workerPc' = "pop" /\ UNCHANGED clearing
    /\ UNCHANGED <<records, wanted, active, cancelFlag, queue, uploads, search,
                   stopping, network, mainVars, task, fetched, verdict>>

ClearDone ==
    /\ workerPc = "clearing"
    /\ clearing' \in IF stopping THEN {"none"} ELSE {"cleared", "failed"}
    /\ workerPc' = "loop"
    /\ UNCHANGED <<records, wanted, active, cancelFlag, queue, uploads, search,
                   stopping, network, mainVars, task, fetched, verdict>>

(* TileScheduler::try_pop; an empty queue means an 8 ms nap.               *)
Pop(key) ==
    /\ workerPc = "pop"
    /\ \E t \in queue : t.key = key /\ task' = t /\ queue' = queue \ {t}
    /\ workerPc' = "begin"
    /\ UNCHANGED <<records, wanted, active, cancelFlag, uploads, search,
                   clearing, stopping, network, mainVars, fetched, verdict>>

Nap ==
    /\ workerPc = "pop" /\ queue = {}
    /\ workerPc' = "loop"
    /\ UNCHANGED <<sharedVars, mainVars, task, fetched, verdict>>

(* Mutant: the record's state is not looked at.                            *)
BeginTaskUnchecked ==
    /\ workerPc = "begin"
    /\ task.key \in wanted
    /\ records' = [records EXCEPT ![task.key] = "DiskLookup"]
    /\ active' = task
    /\ cancelFlag' = FALSE
    /\ workerPc' = "lookup"
    /\ UNCHANGED <<wanted, queue, uploads, search, clearing, stopping, network,
                   mainVars, task, fetched, verdict>>

(* process_task's first section: a stale task is dropped, a live one       *)
(* becomes the active transfer and takes the cancellation flag back.       *)
BeginTask ==
    /\ workerPc = "begin"
    /\ records[task.key] = "Queued" /\ task.key \in wanted
    /\ records' = [records EXCEPT ![task.key] = "DiskLookup"]
    /\ active' = task
    /\ cancelFlag' = FALSE
    /\ workerPc' = "lookup"
    /\ UNCHANGED <<wanted, queue, uploads, search, clearing, stopping, network,
                   mainVars, task, fetched, verdict>>

DropTask ==
    /\ workerPc = "begin"
    /\ ~(records[task.key] = "Queued" /\ task.key \in wanted)
    /\ records' = [records EXCEPT ![task.key] =
                     IF @ = "Queued" THEN "Missing" ELSE @]
    /\ task' = NoTask
    /\ workerPc' = "loop"
    /\ UNCHANGED <<wanted, active, cancelFlag, queue, uploads, search, clearing,
                   stopping, network, mainVars, fetched, verdict>>

(* Mutant: set_state gets what the download returned.                      *)
SettleAsFetched(v) == verdict' = fetched /\ workerPc' = "settle"

(* Leave process_task through set_state(key, v).                           *)
SettleAs(v) == verdict' = v /\ workerPc' = "settle"

(* The RAM and disk lookup, then still_wanted.                             *)
Lookup ==
    /\ workerPc = "lookup"
    /\ IF task.key \notin wanted
       THEN SettleAs("Missing")
       ELSE \/ workerPc' = "startDecode" /\ UNCHANGED verdict
            \/ IF task.cacheOnly \/ ~network
               THEN SettleAs("Failed")
               ELSE workerPc' = "startDownload" /\ UNCHANGED verdict
    /\ UNCHANGED <<sharedVars, mainVars, task, fetched>>

(* set_state(key, s) on the way from one stage to the next.                *)
Mark(pc, s, next) ==
    /\ workerPc = pc
    /\ records' = [records EXCEPT ![task.key] = s]
    /\ workerPc' = next
    /\ UNCHANGED <<wanted, active, cancelFlag, queue, uploads, search, clearing,
                   stopping, network, mainVars, task, fetched, verdict>>

(* MapHttp::download: an answer, an error, a timeout or a cancellation.    *)
DownloadReturns ==
    /\ workerPc = "download"
    /\ fetched' \in {"ok", "error"}
    /\ workerPc' = "judge"
    /\ UNCHANGED <<sharedVars, mainVars, task, verdict>>

(* result < 0 || http_failed || cancel_flag_ || !still_wanted(key)         *)
Judge ==
    /\ workerPc = "judge"
    /\ workerPc' = IF fetched = "error" \/ cancelFlag \/ task.key \notin wanted
                   THEN "charge" ELSE "downloaded"
    /\ UNCHANGED <<sharedVars, mainVars, task, fetched, verdict>>

(* Mutant: every transfer that is given up counts as a failure.            *)
ChargeAlways ==
    /\ workerPc = "charge"
    /\ SettleAs("Failed")
    /\ UNCHANGED <<sharedVars, mainVars, task, fetched>>

(* cancel_flag_ is read again to tell a cancellation from a failure.       *)
Charge ==
    /\ workerPc = "charge"
    /\ SettleAs(IF cancelFlag THEN "Missing" ELSE "Failed")
    /\ UNCHANGED <<sharedVars, mainVars, task, fetched>>

(* decode_png_rgba, then the RAM and disk caches.                          *)
Decode ==
    /\ workerPc = "decode"
    /\ fetched' = "none"
    /\ \/ workerPc' = "publish" /\ UNCHANGED verdict
       \/ SettleAs("Failed")
    /\ UNCHANGED <<sharedVars, mainVars, task>>

(* Mutant: a tile nobody wants any more is dropped without a word.         *)
PublishQuietly ==
    /\ workerPc = "publish"
    /\ workerPc' = IF task.key \in wanted THEN "push" ELSE "retire"
    /\ UNCHANGED <<sharedVars, mainVars, task, fetched, verdict>>

(* still_wanted, then, under the other lock, the push.                     *)
Publish ==
    /\ workerPc = "publish"
    /\ IF task.key \in wanted
       THEN workerPc' = "push" /\ UNCHANGED verdict
       ELSE SettleAs("Missing")
    /\ UNCHANGED <<sharedVars, mainVars, task, fetched>>

Push ==
    /\ workerPc = "push"
    /\ uploads' = Append(uploads, task.key)
    /\ workerPc' = "retire"
    /\ UNCHANGED <<records, wanted, active, cancelFlag, queue, search, clearing,
                   stopping, network, mainVars, task, fetched, verdict>>

Settle ==
    /\ workerPc = "settle"
    /\ records' = [records EXCEPT ![task.key] = verdict]
    /\ verdict' = "Missing"
    /\ workerPc' = "retire"
    /\ UNCHANGED <<wanted, active, cancelFlag, queue, uploads, search, clearing,
                   stopping, network, mainVars, task, fetched>>

(* active_valid_ = false in a section of its own.                          *)
Retire ==
    /\ workerPc = "retire"
    /\ active' = NoTask
    /\ task' = NoTask
    /\ fetched' = "none"
    /\ workerPc' = "loop"
    /\ UNCHANGED <<records, wanted, cancelFlag, queue, uploads, search,
                   clearing, stopping, network, mainVars, verdict>>

(* worker_main's catch: the worker and its locals are gone, what it shares *)
(* stays as it was.                                                        *)
WorkerThrows ==
    /\ Faults
    /\ workerPc \in {"searching", "clearing", "lookup", "download", "decode",
                     "push"}
    /\ workerPc' = "stopped"
    /\ task' = NoTask /\ fetched' = "none"
    /\ UNCHANGED <<sharedVars, mainVars, verdict>>

Worker ==
    \/ WorkerStart \/ LoopTest \/ TakeSearch \/ SearchDone \/ TakeClear
    \/ ClearDone \/ (\E key \in Keys : Pop(key)) \/ Nap \/ BeginTask \/ DropTask
    \/ Lookup
    \/ Mark("startDownload", "Downloading", "download")
    \/ DownloadReturns \/ Judge \/ Charge
    \/ Mark("downloaded", "Downloaded", "startDecode")
    \/ Mark("startDecode", "Decoding", "decode")
    \/ Decode \/ Publish \/ Push \/ Settle \/ Retire

Next == Main \/ Worker \/ WorkerThrows \/ Exited

Spec == Init /\ [][Next]_vars

(* The kernel schedules both threads and every transfer ends, by itself or *)
(* by its timeout.  A queued tile is not overtaken for ever: the order of  *)
(* the queue follows the viewport, and a tile that keeps failing stays     *)
(* away for at least 180 frames each time.                                 *)
FairSpec ==
    /\ Spec
    /\ WF_vars(Main) /\ WF_vars(Worker)
    /\ \A key \in Keys : SF_vars(Pop(key))

-----------------------------------------------------------------------------
(* Every variable keeps its type.                                          *)
TypeOK ==
    /\ records \in [Keys -> TileStates]
    /\ wanted \in SUBSET Keys /\ visible \in SUBSET Keys
    /\ active \in Tasks \cup {NoTask} /\ task \in Tasks \cup {NoTask}
    /\ cancelFlag \in BOOLEAN /\ stopping \in BOOLEAN /\ network \in BOOLEAN
    /\ queue \in SUBSET Tasks /\ pending \in SUBSET Tasks
    /\ uploads \in Seq(Keys)
    /\ search \in Slot /\ clearing \in ClearSlot
    /\ mainPc \in MainPcs /\ mode \in Modes
    /\ quota \in 0..3
    /\ textures \in SUBSET Keys /\ used \in SUBSET Keys
    /\ evicted \in SUBSET Keys
    /\ workerPc \in IdlePcs \cup TaskPcs \cup {"stopped"}
    /\ fetched \in {"none", "ok", "error"}
    /\ verdict \in {"Missing", "Failed"}

(* A transfer whose tile left the viewport has been told to stop.  The     *)
(* worker clears the flag for each task and each search, and only the test *)
(* and the clearing under one lock in process_task keep a request of the   *)
(* render thread from being erased.                                        *)
ObsoleteTransferCancelled ==
    active # NoTask /\ active.key \notin wanted => cancelFlag

(* A download that answered 2xx is never booked as a failure, whatever the *)
(* viewport did during it: process_task reads the flag and the wanted set  *)
(* one after the other, and the flag once more, with no lock held between. *)
SuccessNeverCharged ==
    workerPc = "settle" /\ fetched = "ok" => verdict = "Missing"

(* A record on its way through the pipeline has somebody carrying it: no   *)
(* later submission would queue it again.                                  *)
InFlight == {"DiskLookup", "Downloading", "Downloaded", "Decoding"}
NoAbandonedTile ==
    mainPc # "done" => \A k \in Keys : records[k] \in InFlight =>
        \/ active # NoTask /\ active.key = k
        \/ \E i \in DOMAIN uploads : uploads[i] = k

(* A tile is decoded once: it waits for upload at most once and is not     *)
(* processed again while it waits.  Worker and render thread agree on this *)
(* through the record's state alone.                                       *)
NoDuplicateWork ==
    /\ \A i, j \in DOMAIN uploads : uploads[i] = uploads[j] => i = j
    /\ \A i \in DOMAIN uploads :
          active # NoTask /\ active.key = uploads[i] => workerPc = "retire"

(* A Ready record has its texture, or pump_uploads is about to tell it     *)
(* that the texture was evicted.                                           *)
ReadyHasTexture ==
    \A k \in Keys : records[k] = "Ready" => k \in textures \cup evicted

(* Under the atlas no provider transfer runs that was not told to stop.    *)
AtlasStaysOffline ==
    mode = "atlas" /\ workerPc = "download" => cancelFlag

(* Records only move along the edges the architecture document draws.      *)
LifecycleEdges ==
    {<<"Missing", "Queued">>, <<"Queued", "DiskLookup">>,
     <<"DiskLookup", "Decoding">>, <<"DiskLookup", "Downloading">>,
     <<"Downloading", "Downloaded">>, <<"Downloaded", "Decoding">>,
     <<"Decoding", "Ready">>, <<"Failed", "Queued">>}
        \cup {<<s, "Missing">> : s \in TileStates}
        \cup {<<s, "Failed">> : s \in InFlight}
DocumentedLifecycle ==
    [][\A k \in Keys : records'[k] # records[k] =>
          <<records[k], records'[k]>> \in LifecycleEdges]_records

(* Leaving the program ends: the worker notices, whatever it is doing.     *)
StopTerminates == stopping ~> (mainPc = "done")

(* An explicit search is answered, or the program is leaving.              *)
SearchAnswered == (search = "requested") ~> (search = "answered" \/ stopping)

(* A tile that stays on the screen becomes Ready or Failed again and again *)
(* (Ready may be evicted by another screen's tiles, Failed is retried).    *)
VisibleTileServed ==
    \A k \in Keys :
        <>[](k \in visible /\ search = "none" /\ ~stopping)
            => []<>(records[k] \in {"Ready", "Failed"})
=============================================================================
