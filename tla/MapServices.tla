----------------------------- MODULE MapServices -----------------------------
(***************************************************************************)
(* What the map screen asks of the worker besides tiles, GPX files and     *)
(* elevations: searches (geocoder.cpp), points of interest (overpass.cpp)  *)
(* and operations on the cache, with the menu, the settings and the        *)
(* offline atlas that ask for them (map_screen.cpp).                       *)
(*                                                                         *)
(* A frame is Poll, Timers on the settings, an input with the sections of  *)
(* the request it makes, and Prepare; the worker may step between any two. *)
(* Screens change at once, as with reduced motion (PinScreen has the       *)
(* transitions).  Of a tile only matters that its transfer is active.      *)
(***************************************************************************)
EXTENDS OfflineAtlas

CONSTANTS
    StyleCount,   (* map styles, numbered from 0                           *)
    Topo,         (* the one that goes with hiking mode, 4 in the code     *)
    Gap,          (* the least time between two requests of a client       *)
    Contents,     (* what a scan may find stored: sets of tiles            *)
    Camera,       (* where the map is                                      *)
    Pans,         (* where the stick may move the view of the atlas        *)
    Habits        (* bound: the sets of things a user does in a behaviour  *)

Styles == 0..StyleCount - 1
Clients == {"geocoder", "overpass"}
Uses == {"search", "poi", "clear", "style", "atlas", "target"}

ASSUME StylesAssumption == StyleCount \in Nat \ {0} /\ Topo \in Styles \ {0}
ASSUME GapAssumption == Gap \in [Clients -> Nat \ {0}]
ASSUME ContentsAssumption ==
    Contents # {} /\ \A stored \in Contents :
        /\ IsFiniteSet(stored)
        /\ \A t \in stored : /\ t.style \in Styles /\ t.zoom \in 0..Deepest
                            /\ {t.x, t.y} \subseteq 0..Columns(t.zoom) - 1
ASSUME CameraAssumption ==
    /\ Camera.zoom \in Int /\ Camera.at \in [x : Int, y : Int]
    /\ Pans \subseteq [x : Int, y : Int]
ASSUME HabitsAssumption == Habits # {} /\ Habits \subseteq SUBSET Uses

VARIABLES
    habit,      \* the member of Habits
    step,       \* where the frame is
    mode,       \* mode_
    row,        \* selected_setting_
    confirm,    \* cache_clear_confirm_
    fresh,      \* cache_refresh_timer_ was set since the timers last ran
    clearing,   \* cache_clear_pending_
    searching,  \* search_pending_
    shown,      \* whether pois_ has points
    geo,        \* the slot of a search
    poi,        \* the slot of a request for points of interest
    cache,      \* the slot of cache operations
    results,    \* cache_operation_results_
    worker,     \* where the worker is
    cancel,     \* cancel_flag_
    left,       \* what is left of the pause before a request
    since,      \* for every client the time since its last_request_us_
    quiet,      \* the same since a request was really sent
    style,      \* the style of provider_
    saved,      \* the saved style
    hiking,     \* the saved hiking mode
    trouble,    \* whether a save of the last change failed
    atlas       \* the offline_atlas_* and atlas_* members

ui == <<mode, row, confirm, fresh, clearing, searching, shown>>
slots == <<geo, poi, cache, results>>
work == <<worker, cancel, left, since, quiet>>
prefs == <<style, saved, hiking, trouble>>
vars == <<habit, step, ui, slots, work, prefs, atlas>>

Pending(slot) == slot \in {"requested", "running"}

(* What becomes of a request for points of interest: points, none that can *)
(* be shown, or no answer that can be parsed.                              *)
PoiAnswers == {"points", "nothing", "error"}
Idle == [state |-> "empty", kind |-> "status"]

-----------------------------------------------------------------------------
(* The selection of the atlas.  A zoom of -1 is no selection.              *)
NoAtlas == [valid |-> FALSE, layers |-> {}, style |-> 0, zoom |-> -1,
            tile |-> 1, browse |-> FALSE, anchor |-> Camera.at]

ShownLayers(a) == LayersOf(a.layers, a.style)
HasLayer(a) == a.valid /\ ShownLayers(a) # {}
Layer(a) == NearestLayer(ShownLayers(a), a.zoom)
Focused(a) == Center(Layer(a), a.tile)

(* sync_offline_atlas_selection(true): what is nearest to the camera.      *)
Synced(a) ==
    IF ShownLayers(a) = {} THEN [a EXCEPT !.zoom = -1, !.tile = 1]
    ELSE LET l == NearestLayer(ShownLayers(a), Camera.zoom)
             i == NearestTile(l, Camera.at)
         IN  [a EXCEPT !.zoom = l.zoom, !.tile = i, !.anchor = Center(l, i)]

Centered(a) == IF HasLayer(a) THEN [a EXCEPT !.anchor = Focused(a)] ELSE a

(* build_offline_atlas_requests moves the selection with the view.         *)
Followed(a) ==
    IF HasLayer(a) /\ a.browse
    THEN [a EXCEPT !.tile = NearestTile(Layer(a), a.anchor)] ELSE a

AtlasRequests(a) ==
    IF ~HasLayer(a) THEN {}
    ELSE Requests(ShownLayers(a), Layer(a), Followed(a).tile,
                  IF a.browse THEN a.anchor ELSE Focused(a))

-----------------------------------------------------------------------------
Init ==
    /\ habit \in Habits /\ step = "poll"
    /\ mode = "map" /\ row = "MapStyle" /\ confirm = FALSE /\ fresh = FALSE
    /\ clearing = FALSE /\ searching = FALSE /\ shown = FALSE
    /\ geo = "empty" /\ poi = "empty" /\ cache = Idle /\ results = <<>>
    /\ worker = "geocode" /\ cancel = FALSE /\ left = 0
    /\ since = Gap /\ quiet = Gap
    /\ style = 0 /\ saved = 0 /\ hiking = (Topo = 0) /\ trouble = FALSE
    /\ atlas = NoAtlas

-----------------------------------------------------------------------------
(* The start of a frame.                                                   *)
PollSearch ==
    IF searching /\ geo = "answered"
    THEN searching' = FALSE /\ geo' = "empty"
    ELSE UNCHANGED <<searching, geo>>

PollCache ==
    IF results = <<>> THEN UNCHANGED <<results, clearing, fresh, atlas>>
    ELSE LET r == Head(results)
         IN  /\ results' = Tail(results) /\ clearing' = FALSE /\ fresh' = TRUE
             /\ atlas' = IF r.kind # "atlas" THEN atlas
                         ELSE Synced([atlas EXCEPT !.valid = TRUE,
                                                   !.layers = r.layers])

PollPois ==
    IF poi \notin PoiAnswers THEN UNCHANGED <<poi, shown>>
    ELSE poi' = "empty" /\ shown' = IF poi = "error" THEN shown ELSE poi = "points"

Poll ==
    /\ step = "poll" /\ step' = IF mode = "settings" THEN "timers" ELSE "input"
    /\ PollSearch /\ PollCache /\ PollPois
    /\ UNCHANGED <<habit, mode, row, confirm, cache, work, prefs>>

(* Requests to the one slot of the cache: refused while it is in use.      *)
Free == ~Pending(cache.state)

AskStatus ==
    /\ fresh' = TRUE
    /\ IF Free THEN cache' = [state |-> "requested", kind |-> "status"]
       ELSE UNCHANGED cache

(* Mutant: the timer is never set again.                                   *)
ExpiresAlways == TRUE

(* Five seconds are at least one frame, whose length App::run bounds.      *)
Expires == ~fresh

(* The confirmation expires, the status is asked for again.                *)
Timers ==
    /\ step = "timers" /\ step' = "input"
    /\ confirm' \in {confirm, FALSE}
    /\ \/ fresh' = FALSE /\ UNCHANGED cache
       \/ Expires /\ Free /\ AskStatus
    /\ UNCHANGED <<habit, mode, row, clearing, searching, shown, geo, poi,
                   results, work, prefs, atlas>>

-----------------------------------------------------------------------------
(* The map.                                                                *)
Search ==
    /\ "search" \in habit /\ mode = "map" /\ ~searching /\ ~Pending(geo)
    /\ geo' = "requested" /\ searching' = TRUE /\ step' = "preempt"
    /\ UNCHANGED <<mode, row, confirm, fresh, clearing, shown, poi, cache, results,
                   prefs, atlas>>

AskPois ==
    /\ "poi" \in habit /\ mode = "map" /\ ~Pending(poi)
    /\ poi' = "requested" /\ step' = "preempt"
    /\ UNCHANGED <<ui, geo, cache, results, prefs, atlas>>

GoMap ==
    /\ mode = "menu" /\ mode' = "map" /\ step' = "prepare"
    /\ UNCHANGED <<row, confirm, fresh, clearing, searching, shown, slots, prefs, atlas>>

(* START on the map, CIRCLE on the settings and on the overview.           *)
GoMenu ==
    /\ \/ mode = "map" /\ habit \cap {"clear", "style", "atlas"} # {}
       \/ mode = "settings"
       \/ mode = "atlas" /\ ~atlas.browse
    /\ mode' = "menu" /\ step' = "prepare"
    /\ confirm' = (confirm /\ mode # "settings")
    /\ UNCHANGED <<row, fresh, clearing, searching, shown, slots, prefs, atlas>>

Nothing ==
    /\ step' = "prepare" /\ UNCHANGED <<ui, slots, prefs, atlas>>

-----------------------------------------------------------------------------
(* The settings.  The other rows of a category stand for themselves only.  *)
Rows == <<<<"MapStyle", "Hiking">>, <<"Interface">>, <<"Cache", "DiskLogging">>>>
Category == CHOOSE c \in 1..3 : row \in ToSet(Rows[c])

OpenSettings ==
    /\ mode = "menu" /\ habit \cap {"clear", "style"} # {}
    /\ mode' = "settings" /\ step' = "prepare"
    /\ row' = Rows[Category][1] /\ AskStatus
    /\ UNCHANGED <<confirm, clearing, searching, shown, geo, poi, results,
                   prefs, atlas>>

ChangeCategory ==
    /\ mode = "settings" /\ step' = "prepare"
    /\ \E c \in 1..3 \ {Category} :
           /\ row' = Rows[c][1]
           /\ IF c = 3 THEN AskStatus ELSE UNCHANGED <<cache, fresh>>
    /\ confirm' = FALSE
    /\ UNCHANGED <<mode, clearing, searching, shown, geo, poi, results, prefs, atlas>>

(* Mutant: the confirmation stays.                                         *)
ChangeRowOnly ==
    /\ mode = "settings" /\ step' = "prepare"
    /\ row' \in ToSet(Rows[Category])
    /\ UNCHANGED <<mode, confirm, fresh, clearing, searching, shown, slots, prefs,
                   atlas>>

ChangeRow ==
    /\ mode = "settings" /\ step' = "prepare"
    /\ row' \in ToSet(Rows[Category]) /\ confirm' = FALSE
    /\ UNCHANGED <<mode, fresh, clearing, searching, shown, slots, prefs, atlas>>

(* CROSS on the cache row: ask for a confirmation, then clear.             *)
AskConfirmation ==
    /\ mode = "settings" /\ row = "Cache" /\ step' = "prepare"
    /\ IF Free THEN ~confirm ELSE ~clearing
    /\ confirm' = TRUE
    /\ UNCHANGED <<mode, row, fresh, clearing, searching, shown, slots, prefs, atlas>>

(* Mutant: results that were not polled stay.                              *)
TakeSlotForClear ==
    cache' = [state |-> "requested", kind |-> "clear"] /\ UNCHANGED results

SlotForClear ==
    cache' = [state |-> "requested", kind |-> "clear"] /\ results' = <<>>

RequestClear ==
    /\ "clear" \in habit
    /\ mode = "settings" /\ row = "Cache" /\ confirm /\ Free
    /\ SlotForClear /\ confirm' = FALSE /\ clearing' = TRUE /\ step' = "cancel"
    /\ UNCHANGED <<mode, row, fresh, searching, shown, geo, poi, prefs, atlas>>

(* LEFT and RIGHT on the cache row.                                        *)
RefreshStatus ==
    /\ mode = "settings" /\ row = "Cache" /\ step' = "prepare" /\ AskStatus
    /\ UNCHANGED <<mode, row, confirm, clearing, searching, shown, geo, poi,
                   results, prefs, atlas>>

-----------------------------------------------------------------------------
(* Style and hiking mode are saved one after the other; a setter that      *)
(* fails keeps the old value.                                              *)
ChangeStyle ==
    /\ "style" \in habit /\ mode = "settings" /\ row = "MapStyle"
    /\ step' = "prepare"
    /\ \E next \in {(style + 1) % StyleCount, (style - 1) % StyleCount} :
           \/ /\ style' = next /\ saved' = next
              /\ hiking' = (next = Topo) /\ trouble' = FALSE
           \/ /\ style' = next /\ saved' = next
              /\ trouble' = TRUE /\ UNCHANGED hiking
           \/ trouble' = TRUE /\ UNCHANGED <<style, saved, hiking>>
    /\ UNCHANGED <<ui, slots, atlas>>

ToggleHiking ==
    /\ "style" \in habit /\ mode = "settings" /\ row = "Hiking"
    /\ step' = "prepare"
    /\ LET next == IF ~hiking THEN Topo ELSE IF style = Topo THEN 0 ELSE style
       IN  \/ /\ style' = next /\ saved' = next
              /\ hiking' = ~hiking /\ trouble' = FALSE
           \/ /\ saved' \in {saved, next} /\ trouble' = TRUE
              /\ UNCHANGED <<style, hiking>>
    /\ UNCHANGED <<ui, slots, atlas>>

(* Mutant: hiking mode is left alone.                                      *)
TakeStyleOnly(s) ==
    style' = s /\ saved' = s /\ trouble' = FALSE /\ UNCHANGED hiking

(* The style of the atlas is taken over by the map, or, if a save fails,   *)
(* what was before is saved again, which may fail as well.                 *)
TakeStyle(s) ==
    style' = s /\ saved' = s /\ hiking' = (s = Topo) /\ trouble' = FALSE

OpenTarget ==
    /\ mode = "atlas" /\ HasLayer(atlas) /\ "target" \in habit
    /\ step' = "prepare" /\ atlas' = [atlas EXCEPT !.tile =
                                         Min({@, Len(Layer(atlas).index)})]
    /\ \/ TakeStyle(atlas.style) /\ mode' = "map" /\ shown' = FALSE
       \/ /\ saved' \in {saved, style, atlas.style}
          /\ hiking' \in {hiking, atlas.style = Topo}
          /\ trouble' = TRUE /\ UNCHANGED <<style, mode, shown>>
    /\ UNCHANGED <<row, confirm, fresh, clearing, searching, slots>>

-----------------------------------------------------------------------------
(* The atlas.                                                              *)
AskAtlas ==
    cache' = [state |-> "requested", kind |-> "atlas"] /\ results' = <<>>

(* From the menu: while the slot is in use the atlas shows what it had, if *)
(* it had anything.                                                        *)
OpenAtlas ==
    /\ "atlas" \in habit /\ mode = "menu" /\ step' = "prepare"
    /\ \/ Free /\ AskAtlas
       \/ ~Free /\ atlas.valid /\ UNCHANGED <<cache, results>>
    /\ atlas' = [atlas EXCEPT !.valid = @ /\ ~Free, !.style = style,
                              !.browse = FALSE]
    /\ mode' = "atlas"
    /\ UNCHANGED <<row, confirm, fresh, clearing, searching, shown, geo, poi, prefs>>

RefreshAtlas ==
    /\ mode = "atlas" /\ Free /\ step' = "prepare"
    /\ AskAtlas /\ atlas' = [atlas EXCEPT !.valid = FALSE]
    /\ UNCHANGED <<ui, geo, poi, prefs>>

NextStyle(s) == (s + 1) % StyleCount

MoveLayer(a, down) ==
    IF ~HasLayer(a) THEN Synced(a)
    ELSE LET l == NextLayer(ShownLayers(a), Layer(a), down)
             i == NearestTile(l, Focused(a))
         IN  [a EXCEPT !.zoom = l.zoom, !.tile = i, !.anchor = Center(l, i)]

(* TRIANGLE, UP and DOWN, and SQUARE on the overview.                      *)
Overview ==
    /\ ~atlas.browse
    /\ \/ atlas' = Synced([atlas EXCEPT !.style = NextStyle(@)])
       \/ \E down \in BOOLEAN : atlas' = MoveLayer(atlas, down)
       \/ HasLayer(atlas) /\ atlas' = [Centered(atlas) EXCEPT !.browse = TRUE]

MoveTile(a, dir) ==
    LET i == NextTile(Layer(a), a.tile, dir)
    IN  [a EXCEPT !.tile = i, !.anchor = Center(Layer(a), i)]

Directions == {[x |-> -1, y |-> 0], [x |-> 1, y |-> 0],
               [x |-> 0, y |-> -1], [x |-> 0, y |-> 1]}

(* The cross, the stick, and SQUARE or CIRCLE in a layer.                  *)
Browse ==
    /\ atlas.browse
    /\ \/ HasLayer(atlas) /\ \E dir \in Directions : atlas' = MoveTile(atlas, dir)
       \/ HasLayer(atlas) /\ \E p \in Pans : atlas' = [atlas EXCEPT !.anchor = p]
       \/ atlas' = [Centered(atlas) EXCEPT !.browse = FALSE]

Explore ==
    /\ mode = "atlas" /\ step' = "prepare"
    /\ Overview \/ Browse
    /\ UNCHANGED <<ui, slots, prefs>>

Input ==
    /\ step = "input"
    /\ \/ Nothing \/ Search \/ AskPois \/ GoMap \/ GoMenu
       \/ OpenSettings \/ ChangeCategory \/ ChangeRow
       \/ AskConfirmation \/ RequestClear \/ RefreshStatus
       \/ ChangeStyle \/ ToggleHiking \/ OpenTarget
       \/ OpenAtlas \/ RefreshAtlas \/ Explore
    /\ UNCHANGED <<habit, work>>

-----------------------------------------------------------------------------
(* Mutant: whatever the worker does is cancelled.                          *)
PreemptsAlways == TRUE

Preempts == worker = "tile"

(* The second section of a request to a client: only a tile gives way.     *)
Preempt ==
    /\ step = "preempt" /\ step' = "prepare" /\ cancel' = (cancel \/ Preempts)
    /\ UNCHANGED <<habit, ui, slots, worker, left, since, quiet, prefs, atlas>>

(* The second section of request_cache_clear: anything does.               *)
CancelForClear ==
    /\ step = "cancel" /\ step' = "prepare" /\ cancel' = TRUE
    /\ UNCHANGED <<habit, ui, slots, worker, left, since, quiet, prefs, atlas>>

(* The end of a frame; submit_requests cancels a tile nobody wants.        *)
Prepare ==
    /\ step = "prepare" /\ step' = "poll"
    /\ \/ UNCHANGED cancel
       \/ worker = "tile" /\ cancel' = TRUE
    /\ atlas' = IF mode = "atlas" THEN Followed(atlas) ELSE atlas
    /\ UNCHANGED <<habit, ui, slots, worker, left, since, quiet, prefs>>

-----------------------------------------------------------------------------
(* The worker looks at the slots in turn and starts again after each.      *)
Pause(client) == Gap[client] - since[client]

Send(client) ==
    /\ quiet' = [quiet EXCEPT ![client] = 0]
    /\ since' = [since EXCEPT ![client] = 0]

(* worker_main takes the request and clears the flag.                      *)
TakeGeocode ==
    /\ worker = "geocode"
    /\ IF geo = "requested"
       THEN geo' = "running" /\ cancel' = FALSE /\ worker' = "lookup"
       ELSE worker' = "pois" /\ UNCHANGED <<geo, cancel>>
    /\ UNCHANGED <<poi, cache, results, left, since, quiet>>

(* The answer is on the card, or the pause is computed.                    *)
Lookup ==
    /\ worker = "lookup"
    /\ \/ geo' = "answered" /\ worker' = "geocode" /\ UNCHANGED left
       \/ worker' = "geoPause" /\ left' = Pause("geocoder") /\ UNCHANGED geo
    /\ UNCHANGED <<poi, cache, results, cancel, since, quiet>>

(* Mutant: the answer is given up when the pause is cancelled.             *)
AnswerUnlessCancelled == geo' = IF cancel THEN "empty" ELSE "answered"

Answer == geo' = "answered"

(* Mutant: a pause that is cut short is taken for one that is over.        *)
GeocodeSendAnyway ==
    /\ worker = "geoPause" /\ (left = 0 \/ cancel)
    /\ \/ Answer /\ worker' = "geocode" /\ UNCHANGED <<since, quiet>>
       \/ Send("geocoder") /\ worker' = "geoSent" /\ UNCHANGED geo
    /\ left' = 0 /\ UNCHANGED <<poi, cache, results, cancel>>

(* The pause ends by time or by the flag; then the flag is read.  A query  *)
(* that cannot be escaped is an error as well.                             *)
GeocodeSend ==
    /\ worker = "geoPause" /\ (left = 0 \/ cancel)
    /\ \/ Answer /\ worker' = "geocode" /\ UNCHANGED <<since, quiet>>
       \/ /\ ~cancel /\ Send("geocoder")
          /\ worker' = "geoSent" /\ UNCHANGED geo
    /\ left' = 0 /\ UNCHANGED <<poi, cache, results, cancel>>

(* Found, not found, or an error; a cancelled transfer is an error.        *)
GeocodeReturn ==
    /\ worker = "geoSent" /\ worker' = "geocode" /\ Answer
    /\ UNCHANGED <<poi, cache, results, cancel, left, since, quiet>>

TakePois ==
    /\ worker = "pois"
    /\ IF poi = "requested"
       THEN /\ poi' = "running" /\ cancel' = FALSE /\ worker' = "poiPause"
            /\ left' = Pause("overpass")
       ELSE worker' = "cache" /\ UNCHANGED <<poi, cancel, left>>
    /\ UNCHANGED <<geo, cache, results, since, quiet>>

(* A pause that is cancelled gives no points and no error.                 *)
PoisSend ==
    /\ worker = "poiPause" /\ (left = 0 \/ cancel)
    /\ \/ /\ poi' = (IF cancel THEN "nothing" ELSE "error")
          /\ worker' = "geocode" /\ UNCHANGED <<since, quiet>>
       \/ /\ ~cancel /\ Send("overpass")
          /\ worker' = "poiSent" /\ UNCHANGED poi
    /\ left' = 0 /\ UNCHANGED <<geo, cache, results, cancel>>

PoisReturn ==
    /\ worker = "poiSent" /\ worker' = "geocode"
    /\ poi' \in PoiAnswers
    /\ UNCHANGED <<geo, cache, results, cancel, left, since, quiet>>

TakeCache ==
    /\ worker = "cache"
    /\ IF cache.state = "requested"
       THEN cache' = [cache EXCEPT !.state = "running"] /\ worker' = "scan"
       ELSE worker' = "tiles" /\ UNCHANGED cache
    /\ UNCHANGED <<geo, poi, results, cancel, left, since, quiet>>

CacheDone ==
    /\ worker = "scan" /\ worker' = "geocode" /\ cache' = Idle
    /\ \E stored \in Contents :
           results' = Append(results, [kind |-> cache.kind,
               layers |-> IF cache.kind = "atlas" THEN Snapshot(stored) ELSE {}])
    /\ UNCHANGED <<geo, poi, cancel, left, since, quiet>>

(* process_task clears the flag when it makes the transfer active.         *)
TakeTile ==
    /\ worker = "tiles"
    /\ \/ worker' = "tile" /\ cancel' = FALSE
       \/ worker' = "geocode" /\ UNCHANGED cancel
    /\ UNCHANGED <<slots, left, since, quiet>>

TileDone ==
    /\ worker = "tile" /\ worker' = "geocode"
    /\ UNCHANGED <<slots, cancel, left, since, quiet>>

Work ==
    /\ \/ TakeGeocode \/ Lookup \/ GeocodeSend \/ GeocodeReturn
       \/ TakePois \/ PoisSend \/ PoisReturn \/ TakeCache \/ CacheDone
       \/ TakeTile \/ TileDone
    /\ UNCHANGED <<habit, step, ui, prefs, atlas>>

(* Time passes; a pause is over after it, however the clock is read.       *)
Tick ==
    /\ since' = [c \in Clients |-> Min({since[c] + 1, Gap[c]})]
    /\ quiet' = [c \in Clients |-> Min({quiet[c] + 1, Gap[c]})]
    /\ left' = Max({left - 1, 0})
    /\ since' # since \/ quiet' # quiet \/ left' # left
    /\ UNCHANGED <<habit, step, ui, slots, worker, cancel, prefs, atlas>>

(* The program starts again; App::run puts style and hiking mode in step.  *)
Restart ==
    /\ habit \cap {"style", "target"} # {} /\ step = "input"
    /\ step' = "poll" /\ mode' = "map" /\ row' = "MapStyle"
    /\ confirm' = FALSE /\ fresh' = FALSE
    /\ clearing' = FALSE /\ searching' = FALSE /\ shown' = FALSE /\ geo' = "empty" /\ poi' = "empty" /\ cache' = Idle
    /\ results' = <<>> /\ worker' = "geocode" /\ cancel' = FALSE /\ left' = 0
    /\ since' = Gap /\ quiet' = Gap /\ atlas' = NoAtlas /\ UNCHANGED habit
    /\ IF hiking
       THEN /\ style' = Topo /\ saved' \in {saved, Topo}
            /\ trouble' = (saved' # Topo) /\ UNCHANGED hiking
       ELSE /\ style' = saved /\ hiking' \in {FALSE, saved = Topo}
            /\ trouble' = (hiking' # (saved = Topo)) /\ UNCHANGED saved

Frame == Poll \/ Timers \/ Input \/ Preempt \/ CancelForClear \/ Prepare

Next == Frame \/ Work \/ Tick \/ Restart

Spec == Init /\ [][Next]_vars

-----------------------------------------------------------------------------
Requested == {"empty", "requested", "running"}

TypeOK ==
    /\ habit \in Habits
    /\ step \in {"poll", "timers", "input", "preempt", "cancel", "prepare"}
    /\ mode \in {"map", "menu", "settings", "atlas"}
    /\ row \in UNION {ToSet(Rows[c]) : c \in 1..3}
    /\ {confirm, fresh, clearing, searching, shown, cancel, hiking, trouble}
           \subseteq BOOLEAN
    /\ geo \in Requested \cup {"answered"}
    /\ poi \in Requested \cup PoiAnswers
    /\ cache \in [state : Requested, kind : {"status", "clear", "atlas"}]
    /\ Len(results) <= 3
    /\ \A i \in 1..Len(results) : results[i].kind \in {"status", "clear", "atlas"}
    /\ worker \in {"geocode", "lookup", "geoPause", "geoSent", "pois", "poiPause",
                   "poiSent", "cache", "scan", "tiles", "tile"}
    /\ left \in Nat
    /\ \A c \in Clients : since[c] \in 0..Gap[c] /\ quiet[c] \in 0..Gap[c]
    /\ {style, saved, atlas.style} \subseteq Styles
    /\ atlas.zoom \in -1..Deepest /\ atlas.tile \in Nat \ {0}

Sent(client) == IF client = "geocoder" THEN "geoSent" ELSE "poiSent"
Sends(client) == worker # Sent(client) /\ worker' = Sent(client)

(* However pauses are cut short and transfers fail, a client that sends a  *)
(* request has sent none for its interval (ARCHITECTURE.md:298, "a         *)
(* ten-second minimum interval").                                          *)
RequestsSpaced ==
    [][\A c \in Clients : Sends(c) => quiet[c] = Gap[c]]_vars

(* An explicit request is cancelled by nothing but a clear of the cache:   *)
(* searches and viewports preempt tiles only.                              *)
OnlyClearCancels ==
    cancel /\ worker \in {"lookup", "geoPause", "geoSent", "poiPause", "poiSent"}
        => cache.state = "requested" /\ cache.kind = "clear"

(* While the screen waits for a search there is something to wait for:     *)
(* begin_search refuses every other search meanwhile.                      *)
SearchHasAnswer == searching => geo # "empty"

(* While a clear is under way the screen says so, whatever results of      *)
(* other operations come in between.                                       *)
ClearIsShown == Pending(cache.state) /\ cache.kind = "clear" => clearing

(* The second press clears only where the first one asked (CONTROLS.md:125,*)
(* "X twice on Map cache").                                                *)
ConfirmedOnCacheRow == confirm => mode = "settings" /\ row = "Cache"

(* Hiking mode and style go together and are what a restart finds, unless  *)
(* a save failed (ARCHITECTURE.md:288, "synchronized").                    *)
StyleFollowsHiking == ~trouble => (hiking <=> style = Topo) /\ saved = style

TilesOf(a) == UNION {{[style |-> l.style, zoom |-> l.zoom, x |-> t.x, y |-> t.y] :
                         t \in ToSet(l.index)} : l \in ShownLayers(a)}

(* The atlas asks only for tiles of the shown style that the scan found,   *)
(* on three layers and in the documented windows (FEATURES.md:93, "bounded *)
(* 5x5 neighbourhood").                                                    *)
AtlasRequestsStored ==
    LET asked == AtlasRequests(atlas)
    IN  /\ \A r \in asked : [style |-> r.style, zoom |-> r.zoom,
                              x |-> r.x, y |-> r.y] \in TilesOf(atlas)
        /\ Cardinality({r.zoom : r \in asked}) <= 3
        /\ Cardinality({r \in asked : r.visible}) <= 25

(* The tile the atlas shows as selected in a frame is among those it loads *)
(* for it, whatever refreshes, styles, layers and pans came before.        *)
FocusRequested ==
    step = "poll" /\ mode = "atlas" /\ HasLayer(atlas) =>
        LET t == TileAt(Layer(atlas), atlas.tile)
        IN  [style |-> atlas.style, zoom |-> Layer(atlas).zoom,
             x |-> t.x, y |-> t.y, visible |-> TRUE] \in AtlasRequests(atlas)
=============================================================================
