-------------------------- MODULE MapServicesProofs --------------------------
(***************************************************************************)
(* Theorems about the services of the worker and the screens that ask for  *)
(* them, for any number of styles, any intervals, any contents of the      *)
(* cache and any habits of the user.                                       *)
(***************************************************************************)
EXTENDS OfflineAtlasProofs

(* The worker is busy with a search or a request for points of interest.   *)
Explicit == {"lookup", "geoPause", "geoSent", "poiPause", "poiSent"}

-----------------------------------------------------------------------------
(* The inductive invariant of the intervals: the times that count are      *)
(* those since a request was really sent, and what is left of a pause      *)
(* covers what is missing of the interval.                                 *)
Covered(client) == left + since[client] >= Gap[client]

Spacing ==
    /\ since \in [Clients -> Nat] /\ quiet = since /\ left \in Nat
    /\ \A c \in Clients : since[c] <= Gap[c]
    /\ cancel \in BOOLEAN
    /\ worker = "geoPause" => Covered("geocoder")
    /\ worker = "poiPause" => Covered("overpass")

(* The greater of two numbers, as Tick takes it.                           *)
LEMMA MaxOfTwo ==
    ASSUME NEW a \in Int, NEW b \in Int
    PROVE  Max({a, b}) = IF a >= b THEN a ELSE b
<1>1. \E m \in {a, b} : \A n \in {a, b} : m >= n
  OBVIOUS
<1> QED
  BY <1>1 DEF Max

(* No pause at the start.                                                  *)
LEMMA InitSpacing == Init => Spacing
<1> SUFFICES ASSUME Init PROVE Spacing
  OBVIOUS
<1>1. since = Gap /\ quiet = Gap /\ left = 0 /\ cancel = FALSE /\ worker = "geocode"
  BY DEF Init
<1>2. \A c \in Clients : Gap[c] \in Nat
  BY GapAssumption
<1>3. Gap \in [Clients -> Nat]
  BY GapAssumption
<1>4. \A c \in Clients : since[c] <= Gap[c]
  BY <1>1, <1>2
<1> QED
  BY <1>1, <1>3, <1>4 DEF Spacing

(* A frame does not touch the clocks and leaves the worker where it is.    *)
LEMMA FrameKeepsClocks ==
    ASSUME Frame
    PROVE  UNCHANGED <<worker, left, since, quiet>>
<1>1. CASE Poll
  BY <1>1 DEF Poll, work
<1>2. CASE Timers
  BY <1>2 DEF Timers, work
<1>3. CASE Input
  BY <1>3 DEF Input, work
<1>4. CASE Preempt \/ CancelForClear \/ Prepare
  BY <1>4 DEF Preempt, CancelForClear, Prepare
<1> QED
  BY <1>1, <1>2, <1>3, <1>4 DEF Frame

(* A frame may raise cancel_flag_ or lower it, it does nothing else to it. *)
LEMMA FrameKeepsFlagType ==
    ASSUME cancel \in BOOLEAN, Frame
    PROVE  cancel' \in BOOLEAN
<1>1. CASE Poll \/ Timers \/ Input
  BY <1>1 DEF Poll, Timers, Input, work
<1>2. CASE Preempt \/ CancelForClear \/ Prepare
  BY <1>2 DEF Preempt, CancelForClear, Prepare
<1> QED
  BY <1>1, <1>2 DEF Frame

(* Every step keeps the intervals covered, and a client that sends has     *)
(* been quiet for its interval.                                            *)
LEMMA SpacingStep ==
    ASSUME Spacing, [Next]_vars
    PROVE  /\ Spacing'
           /\ \A c \in Clients : Sends(c) => quiet[c] = Gap[c]
<1> DEFINE Paced == \A c \in Clients : Sends(c) => quiet[c] = Gap[c]
<1>a. /\ Gap["geocoder"] \in Nat /\ Gap["overpass"] \in Nat
      /\ since["geocoder"] \in Nat /\ since["overpass"] \in Nat
  BY GapAssumption DEF Spacing, Clients
<1>b. ASSUME worker' \notin {"geoSent", "poiSent"} \/ worker' = worker PROVE Paced
  BY <1>b DEF Sends, Sent
<1>c. "geoSent" # "poiSent" /\ "geocoder" # "overpass"
  OBVIOUS
<1> USE <1>a DEF Spacing, Covered, Clients
<1>1. CASE Frame
  <2>1. UNCHANGED <<worker, left, since, quiet>>
    BY <1>1, FrameKeepsClocks
  <2>2. cancel' \in BOOLEAN
    BY <1>1, FrameKeepsFlagType
  <2> QED
    BY <2>1, <2>2, <1>b
<1>2. CASE TakeGeocode
  BY <1>2, <1>b DEF TakeGeocode
<1>3. CASE Lookup
  BY <1>3, <1>b DEF Lookup, Pause
<1>4. CASE GeocodeSend
  <2>1. CASE UNCHANGED <<since, quiet>> /\ worker' = "geocode"
    BY <1>4, <2>1, <1>b DEF GeocodeSend
  <2>2. CASE ~cancel /\ Send("geocoder") /\ worker' = "geoSent"
    <3>1. since["geocoder"] = Gap["geocoder"]
      BY <1>4, <2>2 DEF GeocodeSend
    <3>2. /\ since' = [since EXCEPT !["geocoder"] = 0] /\ quiet' = since'
          /\ left' = 0 /\ cancel' = cancel
      BY <1>4, <2>2 DEF GeocodeSend, Send
    <3>3. Paced
      BY <2>2, <3>1 DEF Sends, Sent
    <3> QED
      BY <2>2, <3>1, <3>2, <3>3
  <2> QED
    BY <1>4, <2>1, <2>2 DEF GeocodeSend
<1>5. CASE TakePois
  <2>1. /\ UNCHANGED <<since, quiet>> /\ cancel' \in BOOLEAN
        /\ worker' \in {"cache", "poiPause"}
    BY <1>5 DEF TakePois
  <2>2. left' \in Nat /\ (worker' = "poiPause" => Covered("overpass")')
    BY <1>5, <2>1 DEF TakePois, Pause
  <2>3. worker' # "geoPause"
    BY <1>5 DEF TakePois
  <2> QED
    BY <2>1, <2>2, <2>3, <1>b
<1>6. CASE PoisSend
  <2>1. CASE UNCHANGED <<since, quiet>> /\ worker' = "geocode"
    BY <1>6, <2>1, <1>b DEF PoisSend
  <2>2. CASE ~cancel /\ Send("overpass") /\ worker' = "poiSent"
    <3>1. since["overpass"] = Gap["overpass"]
      BY <1>6, <2>2 DEF PoisSend
    <3>2. /\ since' = [since EXCEPT !["overpass"] = 0] /\ quiet' = since'
          /\ left' = 0 /\ cancel' = cancel
      BY <1>6, <2>2 DEF PoisSend, Send
    <3>3. Paced
      BY <2>2, <3>1 DEF Sends, Sent
    <3> QED
      BY <2>2, <3>1, <3>2, <3>3
  <2> QED
    BY <1>6, <2>1, <2>2 DEF PoisSend
<1>7. CASE GeocodeReturn \/ PoisReturn \/ TakeCache \/ CacheDone
  BY <1>7, <1>b DEF GeocodeReturn, PoisReturn, TakeCache, CacheDone
<1>8. CASE TakeTile \/ TileDone
  BY <1>8, <1>b DEF TakeTile, TileDone
<1>9. CASE Tick
  <2>1. \A c \in Clients : since'[c] = IF since[c] + 1 <= Gap[c]
                                       THEN since[c] + 1 ELSE Gap[c]
    BY <1>9, MinOfTwo DEF Tick
  <2>2. left' = IF left - 1 >= 0 THEN left - 1 ELSE 0
    BY <1>9, MaxOfTwo DEF Tick
  <2>3. since' \in [Clients -> Nat] /\ quiet' = since'
    BY <1>9, <2>1 DEF Tick
  <2> QED
    BY <1>9, <2>1, <2>2, <2>3, <1>b DEF Tick
<1>10. CASE Restart
  <2>1. since' = Gap /\ quiet' = Gap /\ left' = 0 /\ worker' = "geocode"
        /\ cancel' = FALSE
    BY <1>10 DEF Restart
  <2>2. Gap \in [Clients -> Nat]
    BY GapAssumption
  <2>3. \A c \in Clients : Gap[c] <= Gap[c]
    BY <2>2
  <2> QED
    BY <2>1, <2>2, <2>3, <1>b
<1>11. CASE UNCHANGED vars
  BY <1>11, <1>b DEF vars, work
<1> QED
  BY <1>1, <1>2, <1>3, <1>4, <1>5, <1>6, <1>7, <1>8, <1>9, <1>10, <1>11
     DEF Next, Work

(* However pauses are cut short and transfers fail, a client sends only    *)
(* when it has sent nothing for its interval (geocoder.cpp:184-222,        *)
(* overpass.cpp:194-225).                                                  *)
THEOREM IntervalsKept == Spec => RequestsSpaced
<1>1. Spacing /\ [Next]_vars =>
          [\A c \in Clients : Sends(c) => quiet[c] = Gap[c]]_vars
  BY SpacingStep
<1>2. Spacing /\ [Next]_vars => Spacing'
  BY SpacingStep
<1> QED
  BY InitSpacing, <1>1, <1>2, PTL DEF Spec, RequestsSpaced

-----------------------------------------------------------------------------
(* The screen waits only for a search that is asked for, under way or      *)
(* answered: the worker answers whatever happens, and a result is taken    *)
(* only by the poll that ends the waiting (map_screen.cpp:1022-1027).      *)
LEMMA SearchStep ==
    ASSUME SearchHasAnswer, [Next]_vars
    PROVE  SearchHasAnswer'
<1> USE DEF SearchHasAnswer
<1>1. CASE Poll
  <2>1. PollSearch
    BY <1>1 DEF Poll
  <2> QED
    BY <2>1 DEF PollSearch
<1>2. CASE Timers
  BY <1>2 DEF Timers
<1>3. CASE Input
  <2>1. CASE Nothing
    BY <2>1 DEF Nothing, ui, slots
  <2>2. CASE Search
    BY <2>2 DEF Search
  <2>3. CASE AskPois \/ GoMap \/ GoMenu
    BY <2>3 DEF AskPois, GoMap, GoMenu, ui, slots
  <2>4. CASE OpenSettings \/ ChangeCategory \/ ChangeRow
    BY <2>4 DEF OpenSettings, ChangeCategory, ChangeRow, slots
  <2>5. CASE AskConfirmation \/ RequestClear \/ RefreshStatus
    BY <2>5 DEF AskConfirmation, RequestClear, RefreshStatus, ui, slots
  <2>6. CASE ChangeStyle \/ ToggleHiking \/ OpenTarget
    BY <2>6 DEF ChangeStyle, ToggleHiking, OpenTarget, ui, slots
  <2>7. CASE OpenAtlas \/ RefreshAtlas \/ Explore
    BY <2>7 DEF OpenAtlas, RefreshAtlas, Explore, ui, slots
  <2> QED
    BY <1>3, <2>1, <2>2, <2>3, <2>4, <2>5, <2>6, <2>7 DEF Input
<1>4. CASE Preempt \/ CancelForClear \/ Prepare
  BY <1>4 DEF Preempt, CancelForClear, Prepare, ui, slots
<1>5. CASE Work
  <2>1. CASE TakeGeocode \/ Lookup \/ GeocodeSend \/ GeocodeReturn
    BY <1>5, <2>1
       DEF Work, ui, TakeGeocode, Lookup, GeocodeSend, GeocodeReturn, Answer
  <2>2. CASE TakePois \/ PoisSend \/ PoisReturn \/ TakeCache \/ CacheDone
    BY <1>5, <2>2
       DEF Work, ui, TakePois, PoisSend, PoisReturn, TakeCache, CacheDone
  <2>3. CASE TakeTile \/ TileDone
    BY <1>5, <2>3 DEF Work, ui, slots, TakeTile, TileDone
  <2> QED
    BY <1>5, <2>1, <2>2, <2>3 DEF Work
<1>6. CASE Tick
  BY <1>6 DEF Tick, ui, slots
<1>7. CASE Restart
  BY <1>7 DEF Restart
<1>8. CASE UNCHANGED vars
  BY <1>8 DEF vars, ui, slots
<1> QED
  BY <1>1, <1>2, <1>3, <1>4, <1>5, <1>6, <1>7, <1>8 DEF Next, Frame

(* While the screen refuses other searches there is one to wait for, for   *)
(* every user and every order of the two threads.                          *)
THEOREM SearchAnswerWaits == Spec => []SearchHasAnswer
<1>1. Init => SearchHasAnswer
  BY DEF Init, SearchHasAnswer
<1> QED
  BY <1>1, SearchStep, PTL DEF Spec

-----------------------------------------------------------------------------
(* A confirmation ends with its row or its screen, whichever comes first.  *)
LEMMA ConfirmationStep ==
    ASSUME ConfirmedOnCacheRow, [Next]_vars
    PROVE  ConfirmedOnCacheRow'
<1> USE DEF ConfirmedOnCacheRow
<1>1. CASE Poll \/ Timers
  BY <1>1 DEF Poll, Timers
<1>2. CASE Input
  <2>1. CASE Nothing \/ Search \/ AskPois \/ GoMap
    BY <2>1 DEF Nothing, Search, AskPois, GoMap, ui
  <2>2. CASE GoMenu
    BY <2>2 DEF GoMenu
  <2>3. CASE OpenSettings \/ ChangeCategory \/ ChangeRow
    BY <2>3 DEF OpenSettings, ChangeCategory, ChangeRow
  <2>4. CASE AskConfirmation \/ RequestClear \/ RefreshStatus
    BY <2>4 DEF AskConfirmation, RequestClear, RefreshStatus, ui
  <2>5. CASE ChangeStyle \/ ToggleHiking \/ OpenTarget
    BY <2>5 DEF ChangeStyle, ToggleHiking, OpenTarget, ui
  <2>6. CASE OpenAtlas \/ RefreshAtlas \/ Explore
    BY <2>6 DEF OpenAtlas, RefreshAtlas, Explore, ui
  <2> QED
    BY <1>2, <2>1, <2>2, <2>3, <2>4, <2>5, <2>6 DEF Input
<1>3. CASE Preempt \/ CancelForClear \/ Prepare
  BY <1>3 DEF Preempt, CancelForClear, Prepare, ui
<1>4. CASE Work \/ Tick \/ UNCHANGED vars
  BY <1>4 DEF Work, Tick, vars, ui
<1>5. CASE Restart
  BY <1>5 DEF Restart
<1> QED
  BY <1>1, <1>2, <1>3, <1>4, <1>5 DEF Next, Frame

(* The second press on the cache row is always the answer to a first one   *)
(* on the same visit of the row (map_screen.cpp:1342-1362).                *)
THEOREM ClearIsConfirmed == Spec => []ConfirmedOnCacheRow
<1>1. Init => ConfirmedOnCacheRow
  BY DEF Init, ConfirmedOnCacheRow
<1> QED
  BY <1>1, ConfirmationStep, PTL DEF Spec

-----------------------------------------------------------------------------
(* Every way to change the style changes hiking mode with it, or says that *)
(* a save failed.                                                          *)
StyleInv == StyleFollowsHiking /\ hiking \in BOOLEAN /\ trouble \in BOOLEAN

(* One setting changes with the other, or the failed save is remembered.   *)
LEMMA StyleStep ==
    ASSUME StyleInv, [Next]_vars
    PROVE  StyleInv'
<1> USE DEF StyleInv, StyleFollowsHiking
<1>1. CASE Poll \/ Timers
  <2>1. UNCHANGED prefs
    BY <1>1 DEF Poll, Timers
  <2> QED
    BY <2>1 DEF prefs
<1>2. CASE Input
  <2>1. CASE Nothing \/ Search \/ AskPois \/ GoMap \/ GoMenu
    BY <2>1 DEF Nothing, Search, AskPois, GoMap, GoMenu, prefs
  <2>2. CASE OpenSettings \/ ChangeCategory \/ ChangeRow
    BY <2>2 DEF OpenSettings, ChangeCategory, ChangeRow, prefs
  <2>3. CASE AskConfirmation \/ RequestClear \/ RefreshStatus
    BY <2>3 DEF AskConfirmation, RequestClear, RefreshStatus, prefs
  <2>4. CASE ChangeStyle
    BY <2>4 DEF ChangeStyle
  <2>5. CASE ToggleHiking
    BY <2>5, StylesAssumption DEF ToggleHiking
  <2>6. CASE OpenTarget
    BY <2>6 DEF OpenTarget, TakeStyle
  <2>7. CASE OpenAtlas \/ RefreshAtlas \/ Explore
    BY <2>7 DEF OpenAtlas, RefreshAtlas, Explore, prefs
  <2> QED
    BY <1>2, <2>1, <2>2, <2>3, <2>4, <2>5, <2>6, <2>7 DEF Input
<1>3. CASE Preempt \/ CancelForClear \/ Prepare
  BY <1>3 DEF Preempt, CancelForClear, Prepare, prefs
<1>4. CASE Work \/ Tick \/ UNCHANGED vars
  BY <1>4 DEF Work, Tick, vars, prefs
<1>5. CASE Restart
  BY <1>5 DEF Restart
<1> QED
  BY <1>1, <1>2, <1>3, <1>4, <1>5 DEF Next, Frame

(* Hiking mode goes with its style in memory and on the card unless a save *)
(* failed (app.cpp:82-95, map_screen.cpp:2137-2183 and 1693-1738).         *)
THEOREM HikingFollowsStyle == Spec => []StyleFollowsHiking
<1>1. Init => StyleInv
  BY DEF Init, StyleInv, StyleFollowsHiking
<1>2. StyleInv => StyleFollowsHiking
  BY DEF StyleInv
<1> QED
  BY <1>1, <1>2, StyleStep, PTL DEF Spec

-----------------------------------------------------------------------------
CacheSlot == cache \in [state : {"empty", "requested", "running"},
                        kind : {"status", "clear", "atlas"}]

Clearing == Pending(cache.state) /\ cache.kind = "clear"

(* The inductive invariant of the clear: no result waits that could end    *)
(* what the screen says of it.                                             *)
ClearingInv ==
    /\ CacheSlot
    /\ ClearIsShown
    /\ Clearing => results = <<>>

(* The text of a clear ends with the poll that takes its result.           *)
LEMMA ClearingStep ==
    ASSUME ClearingInv, [Next]_vars
    PROVE  ClearingInv'
<1> USE DEF ClearingInv, CacheSlot, ClearIsShown, Clearing, Pending
<1>0. ASSUME UNCHANGED <<cache, results, clearing>> PROVE ClearingInv'
  BY <1>0
<1>1. ASSUME AskStatus, UNCHANGED <<results, clearing>> PROVE ClearingInv'
  BY <1>1 DEF AskStatus, Free
<1>2. CASE Poll
  <2>1. PollCache /\ UNCHANGED cache
    BY <1>2 DEF Poll
  <2>2. CASE results = <<>>
    BY <2>1, <2>2 DEF PollCache
  <2>3. CASE results # <<>>
    BY <2>1, <2>3 DEF PollCache
  <2> QED
    BY <2>2, <2>3
<1>3. CASE Timers
  BY <1>0, <1>1, <1>3 DEF Timers
<1>4. CASE Input
  <2>1. CASE Nothing \/ Search \/ AskPois \/ GoMap \/ GoMenu
    BY <1>0, <2>1 DEF Nothing, Search, AskPois, GoMap, GoMenu, ui, slots
  <2>2. CASE OpenSettings
    BY <1>1, <2>2 DEF OpenSettings
  <2>3. CASE ChangeCategory
    BY <1>0, <1>1, <2>3 DEF ChangeCategory
  <2>4. CASE ChangeRow \/ AskConfirmation
    BY <1>0, <2>4 DEF ChangeRow, AskConfirmation, slots
  <2>5. CASE RequestClear
    BY <2>5 DEF RequestClear, SlotForClear
  <2>6. CASE RefreshStatus
    BY <1>1, <2>6 DEF RefreshStatus, ui
  <2>7. CASE ChangeStyle \/ ToggleHiking \/ OpenTarget
    BY <1>0, <2>7 DEF ChangeStyle, ToggleHiking, OpenTarget, ui, slots
  <2>8. CASE OpenAtlas
    <3>1. clearing' = clearing
      BY <2>8 DEF OpenAtlas
    <3>2. CASE AskAtlas
      BY <3>1, <3>2 DEF AskAtlas
    <3>3. CASE UNCHANGED <<cache, results>>
      BY <1>0, <3>1, <3>3
    <3> QED
      BY <2>8, <3>2, <3>3 DEF OpenAtlas
  <2>9. CASE RefreshAtlas
    BY <2>9 DEF RefreshAtlas, AskAtlas, ui
  <2>10. CASE Explore
    BY <1>0, <2>10 DEF Explore, ui, slots
  <2> QED
    BY <1>4, <2>1, <2>2, <2>3, <2>4, <2>5, <2>6, <2>7, <2>8, <2>9, <2>10
       DEF Input
<1>5. CASE Preempt \/ CancelForClear \/ Prepare
  BY <1>0, <1>5 DEF Preempt, CancelForClear, Prepare, ui, slots
<1>6. CASE Work
  <2>1. clearing' = clearing
    BY <1>6 DEF Work, ui
  <2>2. CASE \/ TakeGeocode \/ Lookup \/ GeocodeSend \/ GeocodeReturn
             \/ TakePois \/ PoisSend \/ PoisReturn \/ TakeTile \/ TileDone
    BY <1>0, <2>1, <2>2
       DEF TakeGeocode, Lookup, GeocodeSend, GeocodeReturn, TakePois, PoisSend,
           PoisReturn, TakeTile, TileDone, slots
  <2>3. CASE TakeCache
    BY <2>1, <2>3 DEF TakeCache
  <2>4. CASE CacheDone
    <3>1. cache' = Idle
      BY <2>4 DEF CacheDone
    <3> QED
      BY <3>1 DEF Idle
  <2> QED
    BY <1>6, <2>2, <2>3, <2>4 DEF Work
<1>7. CASE Tick \/ UNCHANGED vars
  BY <1>0, <1>7 DEF Tick, vars, ui, slots
<1>8. CASE Restart
  <2>1. cache' = Idle
    BY <1>8 DEF Restart
  <2> QED
    BY <2>1 DEF Idle
<1> QED
  BY <1>2, <1>3, <1>4, <1>5, <1>6, <1>7, <1>8 DEF Next, Frame

(* A clear that is asked for or under way is shown as such: every result   *)
(* of an earlier operation was dropped with its request                    *)
(* (tile_manager.cpp:417-427, map_screen.cpp:1053-1081).                   *)
THEOREM RunningClearShown == Spec => []ClearIsShown
<1>1. Init => ClearingInv
  BY DEF Init, Idle, ClearingInv, CacheSlot, ClearIsShown, Clearing, Pending
<1>2. ClearingInv => ClearIsShown
  BY DEF ClearingInv
<1> QED
  BY <1>1, <1>2, ClearingStep, PTL DEF Spec

-----------------------------------------------------------------------------
(* What was asked for before is done before the cache: the worker has yet  *)
(* to come to it on its way to the cache operations.                       *)
Ahead ==
    /\ geo = "requested" => worker = "geocode"
    /\ poi = "requested" =>
          worker \in {"geocode", "lookup", "geoPause", "geoSent", "pois"}

(* The inductive invariant of the cancellation.  The settings ask for the  *)
(* status when they open, so once they may ask for a clear every earlier   *)
(* request is ahead of it; and when the worker has taken the clear before  *)
(* the flag is raised, there is no request left to be hit by the flag.     *)
FlagInv ==
    /\ CacheSlot
    /\ worker = "scan" => cache.state = "running"
    /\ mode = "settings" /\ Free => Ahead
    /\ step = "cancel" =>
          \/ cache.state = "requested" /\ cache.kind = "clear" /\ Ahead
          \/ geo # "requested" /\ poi # "requested" /\ worker \notin Explicit
    /\ OnlyClearCancels

(* Every frame and every section of the worker keeps it.                   *)
LEMMA FlagStep ==
    ASSUME FlagInv, [Next]_vars
    PROVE  FlagInv'
<1> USE DEF FlagInv, CacheSlot, Ahead, Free, Pending, Explicit, OnlyClearCancels
<1>0. ASSUME UNCHANGED <<cache, worker, cancel, geo, poi>>, step' # "cancel",
             mode' = "settings" => mode = "settings"
      PROVE  FlagInv'
  BY <1>0
<1>2. CASE Poll
  <2>1. geo' \in {geo, "empty"}
    BY <1>2 DEF Poll, PollSearch
  <2>2. poi' \in {poi, "empty"}
    BY <1>2 DEF Poll, PollPois
  <2>3. UNCHANGED <<cache, worker, cancel, mode>> /\ step' # "cancel"
    BY <1>2 DEF Poll, work
  <2> QED
    BY <2>1, <2>2, <2>3
<1>3. CASE Timers
  <2>1. UNCHANGED <<worker, cancel, geo, poi, mode>> /\ step' # "cancel"
    BY <1>3 DEF Timers, work
  <2>2. AskStatus \/ UNCHANGED cache
    BY <1>3 DEF Timers
  <2> QED
    BY <2>1, <2>2 DEF AskStatus
<1>4. CASE Input
  <2>0. UNCHANGED <<worker, cancel>>
    BY <1>4 DEF Input, work
  <2>1. CASE Nothing \/ GoMap \/ GoMenu \/ ChangeRow \/ AskConfirmation
    BY <1>0, <2>0, <2>1
       DEF Nothing, GoMap, GoMenu, ChangeRow, AskConfirmation, ui, slots
  <2>2. CASE Search
    BY <2>0, <2>2 DEF Search
  <2>3. CASE AskPois
    BY <2>0, <2>3 DEF AskPois, ui
  <2>4. CASE OpenSettings
    <3>1. AskStatus /\ UNCHANGED <<geo, poi>> /\ step' # "cancel"
      BY <2>4 DEF OpenSettings
    <3>2. ~Free'
      BY <3>1 DEF AskStatus
    <3> QED
      BY <2>0, <3>1, <3>2 DEF AskStatus
  <2>5. CASE ChangeCategory
    <3>1. UNCHANGED <<geo, poi, mode>> /\ step' # "cancel"
      BY <2>5 DEF ChangeCategory
    <3>2. AskStatus \/ UNCHANGED cache
      BY <2>5 DEF ChangeCategory
    <3> QED
      BY <2>0, <3>1, <3>2 DEF AskStatus
  <2>6. CASE RequestClear
    <3>1. /\ Free /\ mode = "settings" /\ UNCHANGED <<geo, poi, mode>>
          /\ cache' = [state |-> "requested", kind |-> "clear"]
      BY <2>6 DEF RequestClear, SlotForClear
    <3> QED
      BY <2>0, <3>1
  <2>7. CASE RefreshStatus
    BY <2>0, <2>7 DEF RefreshStatus, AskStatus, ui
  <2>8. CASE ChangeStyle \/ ToggleHiking \/ OpenTarget \/ Explore
    BY <1>0, <2>0, <2>8
       DEF ChangeStyle, ToggleHiking, OpenTarget, Explore, ui, slots
  <2>9. CASE OpenAtlas
    <3>1. UNCHANGED <<geo, poi>> /\ mode' = "atlas" /\ step' # "cancel"
      BY <2>9 DEF OpenAtlas
    <3>2. (AskAtlas /\ Free) \/ UNCHANGED cache
      BY <2>9 DEF OpenAtlas
    <3> QED
      BY <2>0, <3>1, <3>2 DEF AskAtlas
  <2>10. CASE RefreshAtlas
    BY <2>0, <2>10 DEF RefreshAtlas, AskAtlas, ui
  <2> QED
    BY <1>4, <2>1, <2>2, <2>3, <2>4, <2>5, <2>6, <2>7, <2>8, <2>9, <2>10
       DEF Input
<1>5. CASE Preempt
  BY <1>5 DEF Preempt, Preempts, ui, slots
<1>6. CASE CancelForClear
  BY <1>6 DEF CancelForClear, ui, slots
<1>7. CASE Prepare
  BY <1>7 DEF Prepare, ui, slots
<1>8. CASE Work
  <2>0. UNCHANGED <<mode, step>>
    BY <1>8 DEF Work, ui
  <2>1. CASE TakeGeocode
    BY <2>0, <2>1 DEF TakeGeocode
  <2>2. CASE Lookup
    BY <2>0, <2>2 DEF Lookup
  <2>3. CASE GeocodeSend
    BY <2>0, <2>3 DEF GeocodeSend, Answer
  <2>4. CASE GeocodeReturn
    BY <2>0, <2>4 DEF GeocodeReturn, Answer
  <2>5. CASE TakePois
    BY <2>0, <2>5 DEF TakePois
  <2>6. CASE PoisSend
    BY <2>0, <2>6 DEF PoisSend
  <2>7. CASE PoisReturn
    BY <2>0, <2>7 DEF PoisReturn, PoiAnswers
  <2>8. CASE TakeCache
    BY <2>0, <2>8 DEF TakeCache
  <2>9. CASE CacheDone
    BY <2>0, <2>9 DEF CacheDone, Idle
  <2>10. CASE TakeTile \/ TileDone
    BY <2>0, <2>10 DEF TakeTile, TileDone, slots
  <2> QED
    BY <1>8, <2>1, <2>2, <2>3, <2>4, <2>5, <2>6, <2>7, <2>8, <2>9, <2>10
       DEF Work
<1>9. CASE Tick \/ UNCHANGED vars
  BY <1>9 DEF Tick, vars, ui, slots, work
<1>10. CASE Restart
  BY <1>10 DEF Restart, Idle
<1> QED
  BY <1>2, <1>3, <1>4, <1>5, <1>6, <1>7, <1>8, <1>9, <1>10 DEF Next, Frame

(* Searches and viewports never cancel a search or a request for points of *)
(* interest: the flag that hits one was raised by a clear that waits       *)
(* behind it (tile_manager.cpp:266-269, 417-433 and 570-600).              *)
THEOREM RequestsNotPreempted == Spec => []OnlyClearCancels
<1>1. Init => FlagInv
  BY DEF Init, Idle, FlagInv, CacheSlot, Free, Pending, OnlyClearCancels
<1>2. FlagInv => OnlyClearCancels
  BY DEF FlagInv
<1> QED
  BY <1>1, <1>2, FlagStep, PTL DEF Spec

-----------------------------------------------------------------------------
(* The inductive invariant of the atlas: what waits in a result is what a  *)
(* scan can make, the selection points into it, and at the start of a      *)
(* frame the selection is where the view is.                               *)
Found == [kind : {"status", "clear", "atlas"}, layers : SUBSET Layers]

AtlasInv ==
    /\ style \in Styles /\ saved \in Styles
    /\ results \in Seq(Found)
    /\ atlas \in Atlases
    /\ step = "poll" /\ mode = "atlas" => Followed(atlas) = atlas

(* The styles are those of the program, also the one before the first.     *)
LEMMA StylesFollow ==
    /\ 0 \in Styles /\ Topo \in Styles
    /\ \A s \in Styles : /\ NextStyle(s) \in Styles
                         /\ (s + 1) % StyleCount \in Styles
                         /\ (s - 1) % StyleCount \in Styles
<1>1. StyleCount \in Nat \ {0} /\ Topo \in Styles
  BY StylesAssumption
<1>2. ASSUME NEW n \in Int PROVE n % StyleCount \in Styles
  BY <1>1 DEF Styles
<1>3. \A s \in Styles : s + 1 \in Int /\ s - 1 \in Int
  BY <1>1 DEF Styles
<1>4. 0 \in Styles
  BY <1>1 DEF Styles
<1> QED
  BY <1>1, <1>2, <1>3, <1>4 DEF NextStyle

(* Nothing is selected before the first scan.                              *)
LEMMA NothingSelected == NoAtlas \in Atlases
<1>1. /\ 0 \in Styles /\ -1 \in -1..Deepest /\ 1 \in Nat \ {0}
      /\ Camera.at \in Points
  BY StylesFollow, DeepestAssumption, CameraAssumption DEF Points
<1> QED
  BY <1>1 DEF NoAtlas, Atlases

(* Every move on the overview and in a layer is one of those above.        *)
LEMMA ExploreStep ==
    ASSUME atlas \in Atlases, Explore
    PROVE  atlas' \in Atlases
<1>1. CASE Overview
  <2>1. CASE atlas' = Synced([atlas EXCEPT !.style = NextStyle(@)])
    <3>1. atlas.style \in Styles
      BY DEF Atlases
    <3>2. NextStyle(atlas.style) \in Styles
      BY <3>1, StylesFollow
    <3>3. [atlas EXCEPT !.style = NextStyle(@)] \in Atlases
      BY <3>2 DEF Atlases
    <3> QED
      BY <2>1, <3>3, SyncedFound
  <2>2. CASE \E down \in BOOLEAN : atlas' = MoveLayer(atlas, down)
    BY <2>2, MovesFound
  <2>3. CASE atlas' = [Centered(atlas) EXCEPT !.browse = TRUE]
    <3>1. Centered(atlas) \in Atlases
      BY MovesFound
    <3> QED
      BY <2>3, <3>1 DEF Atlases
  <2> QED
    BY <1>1, <2>1, <2>2, <2>3 DEF Overview
<1>2. CASE Browse
  <2>1. CASE HasLayer(atlas) /\ \E dir \in Directions : atlas' = MoveTile(atlas, dir)
    BY <2>1, MovesFound
  <2>2. CASE \E p \in Pans : atlas' = [atlas EXCEPT !.anchor = p]
    <3>1. Pans \subseteq Points
      BY CameraAssumption DEF Points
    <3> QED
      BY <2>2, <3>1 DEF Atlases
  <2>3. CASE atlas' = [Centered(atlas) EXCEPT !.browse = FALSE]
    <3>1. Centered(atlas) \in Atlases
      BY MovesFound
    <3> QED
      BY <2>3, <3>1 DEF Atlases
  <2> QED
    BY <1>2, <2>1, <2>2, <2>3 DEF Browse
<1> QED
  BY <1>1, <1>2 DEF Explore

(* The worker adds what it found, nothing else.                            *)
LEMMA WorkFinds ==
    ASSUME results \in Seq(Found), CacheSlot, Work
    PROVE  results' \in Seq(Found)
<1>1. CASE \/ TakeGeocode \/ Lookup \/ GeocodeSend \/ GeocodeReturn
           \/ TakePois \/ PoisSend \/ PoisReturn \/ TakeCache
           \/ TakeTile \/ TileDone
  BY <1>1 DEF TakeGeocode, Lookup, GeocodeSend, GeocodeReturn, TakePois, PoisSend,
              PoisReturn, TakeCache, TakeTile, TileDone, slots
<1>2. CASE CacheDone
  <2>1. PICK stored \in Contents :
            results' = Append(results, [kind |-> cache.kind,
                layers |-> IF cache.kind = "atlas" THEN Snapshot(stored) ELSE {}])
    BY <1>2 DEF CacheDone
  <2>2. [kind |-> cache.kind,
         layers |-> IF cache.kind = "atlas" THEN Snapshot(stored) ELSE {}] \in Found
    <3>1. Snapshot(stored) \in SUBSET Layers
      BY SnapshotMakesLayers
    <3>2. cache.kind \in {"status", "clear", "atlas"}
      BY DEF CacheSlot
    <3> QED
      BY <3>1, <3>2 DEF Found
  <2> QED
    BY <2>1, <2>2, AppendProperties
<1> QED
  BY <1>1, <1>2 DEF Work

(* Every step keeps the selection in what was found.                       *)
LEMMA AtlasStep ==
    ASSUME AtlasInv, CacheSlot, [Next]_vars
    PROVE  AtlasInv'
<1> USE DEF AtlasInv
<1>0. ASSUME UNCHANGED <<style, saved, results, atlas>>, step' # "poll"
      PROVE  AtlasInv'
  BY <1>0
<1>1. CASE Poll
  <2>1. step' # "poll" /\ UNCHANGED <<style, saved>> /\ PollCache
    BY <1>1 DEF Poll, prefs
  <2>2. CASE results = <<>>
    BY <1>0, <2>1, <2>2 DEF PollCache
  <2>3. CASE results # <<>>
    <3> DEFINE r == Head(results)
    <3>1. r \in Found /\ Tail(results) \in Seq(Found)
      BY <2>3, HeadTailProperties
    <3>2. r.layers \in SUBSET Layers
      BY <3>1 DEF Found
    <3>3. /\ results' = Tail(results)
          /\ atlas' = IF r.kind # "atlas" THEN atlas
                      ELSE Synced([atlas EXCEPT !.valid = TRUE, !.layers = r.layers])
      BY <2>1, <2>3 DEF PollCache
    <3> HIDE DEF r
    <3>4. [atlas EXCEPT !.valid = TRUE, !.layers = r.layers] \in Atlases
      BY <3>2 DEF Atlases
    <3>5. atlas' \in Atlases
      BY <3>3, <3>4, SyncedFound
    <3> QED
      BY <2>1, <3>1, <3>3, <3>5
  <2> QED
    BY <2>2, <2>3
<1>2. CASE Timers
  BY <1>0, <1>2 DEF Timers, prefs
<1>3. CASE Input
  <2>0. <<>> \in Seq(Found)
    BY EmptySeq
  <2>1. CASE Nothing \/ Search \/ AskPois \/ GoMap \/ GoMenu
    BY <1>0, <2>1 DEF Nothing, Search, AskPois, GoMap, GoMenu, slots, prefs
  <2>2. CASE OpenSettings \/ ChangeCategory \/ ChangeRow
    BY <1>0, <2>2 DEF OpenSettings, ChangeCategory, ChangeRow, slots, prefs
  <2>3. CASE AskConfirmation \/ RefreshStatus
    BY <1>0, <2>3 DEF AskConfirmation, RefreshStatus, slots, prefs
  <2>4. CASE RequestClear
    BY <2>0, <2>4 DEF RequestClear, SlotForClear, prefs
  <2>5. CASE ChangeStyle
    <3>1. (style + 1) % StyleCount \in Styles /\ (style - 1) % StyleCount \in Styles
      BY StylesFollow
    <3>2. UNCHANGED <<results, atlas>> /\ step' # "poll"
      BY <2>5 DEF ChangeStyle, slots
    <3>3. style' \in Styles /\ saved' \in Styles
      BY <2>5, <3>1 DEF ChangeStyle
    <3> QED
      BY <3>2, <3>3
  <2>6. CASE ToggleHiking
    <3>1. UNCHANGED <<results, atlas>> /\ step' # "poll"
      BY <2>6 DEF ToggleHiking, slots
    <3>2. style' \in Styles /\ saved' \in Styles
      BY <2>6, StylesFollow DEF ToggleHiking
    <3> QED
      BY <3>1, <3>2
  <2>7. CASE OpenTarget
    <3>1. UNCHANGED results /\ step' # "poll"
      BY <2>7 DEF OpenTarget, slots
    <3>2. atlas.style \in Styles
      BY DEF Atlases
    <3>3. style' \in Styles /\ saved' \in Styles
      BY <2>7, <3>2 DEF OpenTarget, TakeStyle
    <3>4. atlas' \in Atlases
      <4>1. Layer(atlas) \in Layers /\ atlas.tile \in Nat \ {0}
        BY <2>7, ShownFound DEF OpenTarget, Atlases
      <4>2. Min({atlas.tile, Len(Layer(atlas).index)}) \in 1..Len(Layer(atlas).index)
        BY <4>1, TileOfLayer
      <4>3. [atlas EXCEPT !.tile = Min({atlas.tile, Len(Layer(atlas).index)})] \in Atlases
        BY <4>1, <4>2, SelectionMoves
      <4> QED
        BY <2>7, <4>3 DEF OpenTarget
    <3> QED
      BY <3>1, <3>3, <3>4
  <2>8. CASE OpenAtlas
    <3>1. UNCHANGED <<style, saved>> /\ step' # "poll"
      BY <2>8 DEF OpenAtlas, prefs
    <3>2. results' \in Seq(Found)
      BY <2>0, <2>8 DEF OpenAtlas, AskAtlas
    <3>3. [atlas EXCEPT !.valid = @ /\ ~Free, !.style = style, !.browse = FALSE] \in Atlases
      BY DEF Atlases
    <3> QED
      BY <2>8, <3>1, <3>2, <3>3 DEF OpenAtlas
  <2>9. CASE RefreshAtlas
    <3>1. UNCHANGED <<style, saved>> /\ step' # "poll"
      BY <2>9 DEF RefreshAtlas, prefs
    <3>2. results' \in Seq(Found)
      BY <2>0, <2>9 DEF RefreshAtlas, AskAtlas
    <3>3. [atlas EXCEPT !.valid = FALSE] \in Atlases
      BY DEF Atlases
    <3> QED
      BY <2>9, <3>1, <3>2, <3>3 DEF RefreshAtlas
  <2>10. CASE Explore
    <3>1. UNCHANGED <<style, saved, results>> /\ step' # "poll"
      BY <2>10 DEF Explore, slots, prefs
    <3> QED
      BY <2>10, <3>1, ExploreStep
  <2> QED
    BY <1>3, <2>1, <2>2, <2>3, <2>4, <2>5, <2>6, <2>7, <2>8, <2>9, <2>10 DEF Input
<1>4. CASE Preempt \/ CancelForClear
  BY <1>0, <1>4 DEF Preempt, CancelForClear, slots, prefs
<1>5. CASE Prepare
  <2>1. UNCHANGED <<style, saved, results, mode>>
    BY <1>5 DEF Prepare, ui, slots, prefs
  <2>2. CASE mode = "atlas"
    <3>1. atlas' = Followed(atlas)
      BY <1>5, <2>2 DEF Prepare
    <3>2. atlas' \in Atlases
      BY <3>1, MovesFound
    <3>3. Followed(atlas') = atlas'
      BY <3>1, FollowedTwice
    <3>4. Followed(atlas)' = Followed(atlas')
      BY DEF Followed, HasLayer, Layer, ShownLayers
    <3> QED
      BY <2>1, <3>2, <3>3, <3>4
  <2>3. CASE mode # "atlas"
    BY <1>5, <2>1, <2>3 DEF Prepare
  <2> QED
    BY <2>2, <2>3
<1>6. CASE Work
  <2>1. UNCHANGED <<step, mode, style, saved, atlas>>
    BY <1>6 DEF Work, ui, prefs
  <2>2. results' \in Seq(Found)
    BY <1>6, WorkFinds
  <2>3. Followed(atlas)' = Followed(atlas)
    BY <2>1 DEF Followed, HasLayer, Layer, ShownLayers
  <2> QED
    BY <2>1, <2>2, <2>3
<1>7. CASE Tick \/ UNCHANGED vars
  <2>1. UNCHANGED <<step, mode, style, saved, atlas, results>>
    BY <1>7 DEF Tick, vars, ui, slots, prefs
  <2>2. Followed(atlas)' = Followed(atlas)
    BY <2>1 DEF Followed, HasLayer, Layer, ShownLayers
  <2> QED
    BY <2>1, <2>2
<1>8. CASE Restart
  <2>1. results' = <<>> /\ atlas' = NoAtlas /\ mode' = "map"
    BY <1>8 DEF Restart
  <2>2. style' \in Styles /\ saved' \in Styles
    BY <1>8, StylesFollow DEF Restart
  <2>3. <<>> \in Seq(Found)
    BY EmptySeq
  <2> QED
    BY <2>1, <2>2, <2>3, NothingSelected
<1> QED
  BY <1>1, <1>2, <1>3, <1>4, <1>5, <1>6, <1>7, <1>8 DEF Next, Frame

(* Nothing is found yet.                                                   *)
LEMMA InitAtlas == Init => AtlasInv
<1> SUFFICES ASSUME Init PROVE AtlasInv
  OBVIOUS
<1>1. style = 0 /\ saved = 0 /\ results = <<>> /\ atlas = NoAtlas /\ mode = "map"
  BY DEF Init
<1>2. <<>> \in Seq(Found)
  BY EmptySeq
<1> QED
  BY <1>1, <1>2, StylesFollow, NothingSelected DEF AtlasInv

(* Every request of the atlas is for a tile that the scan found, on the    *)
(* selected layer and the two next to it, and no more than 25 of them are  *)
(* visible (map_screen.cpp:1623-1691).                                     *)
THEOREM AtlasAsksForStored == Spec => []AtlasRequestsStored
<1>1. Init => ClearingInv
  BY DEF Init, Idle, ClearingInv, CacheSlot, ClearIsShown, Clearing, Pending
<1>2. ClearingInv /\ AtlasInv /\ [Next]_vars => AtlasInv'
  BY AtlasStep DEF ClearingInv
<1>3. AtlasInv => AtlasRequestsStored
  <2> SUFFICES ASSUME AtlasInv PROVE AtlasRequestsStored
    OBVIOUS
  <2>1. atlas \in Atlases
    BY DEF AtlasInv
  <2> QED
    BY <2>1, OnlyStored, ThreeZooms, WindowOfFive DEF AtlasRequestsStored
<1> QED
  BY InitAtlas, <1>1, <1>2, <1>3, ClearingStep, PTL DEF Spec

(* At the start of every frame the selected tile is among the requests of  *)
(* the one before (map_screen.cpp:1630-1635).                              *)
THEOREM SelectionIsAsked == Spec => []FocusRequested
<1>1. Init => ClearingInv
  BY DEF Init, Idle, ClearingInv, CacheSlot, ClearIsShown, Clearing, Pending
<1>2. ClearingInv /\ AtlasInv /\ [Next]_vars => AtlasInv'
  BY AtlasStep DEF ClearingInv
<1>3. AtlasInv => FocusRequested
  <2> SUFFICES ASSUME AtlasInv, step = "poll", mode = "atlas", HasLayer(atlas)
               PROVE  LET t == TileAt(Layer(atlas), atlas.tile)
                      IN  [style |-> atlas.style, zoom |-> Layer(atlas).zoom,
                           x |-> t.x, y |-> t.y, visible |-> TRUE]
                              \in AtlasRequests(atlas)
    BY DEF FocusRequested
  <2>1. atlas \in Atlases /\ Followed(atlas) = atlas
    BY DEF AtlasInv
  <2> QED
    BY <2>1, SelectedAsked
<1> QED
  BY InitAtlas, <1>1, <1>2, <1>3, ClearingStep, PTL DEF Spec

-----------------------------------------------------------------------------
(* How many results wait: a poll takes one in every frame, an operation    *)
(* that is asked for or under way will add one.  An input asks for one in  *)
(* a frame; the timer only in a frame whose poll found none.               *)
Waiting == Len(results) + (IF Pending(cache.state) THEN 1 ELSE 0)

FewResults ==
    /\ Waiting <= 3
    /\ step \in {"timers", "input"} => Waiting <= 2
    /\ step = "timers" => fresh \/ Waiting <= 1

(* No step makes more.                                                     *)
LEMMA FewResultsStep ==
    ASSUME FewResults, FlagInv, results \in Seq(Found), [Next]_vars
    PROVE  FewResults'
<1> USE DEF FewResults, Waiting, Pending, FlagInv, CacheSlot
<1>a. /\ Len(results) \in Nat
      /\ Len(<<>>) = 0
      /\ results # <<>> => Len(Tail(results)) = Len(results) - 1 /\ Len(results) # 0
  BY LenProperties, EmptySeq, HeadTailProperties
<1>b. cache.state \in {"empty", "requested", "running"}
  OBVIOUS
<1>0. ASSUME UNCHANGED <<cache, results>>, step' \notin {"timers", "input"}
      PROVE  FewResults'
  BY <1>0
<1>c. ASSUME AskStatus \/ UNCHANGED cache, UNCHANGED results, step = "input",
             step' \notin {"timers", "input"}
      PROVE  FewResults'
  BY <1>a, <1>b, <1>c DEF AskStatus, Free
<1>1. CASE Poll
  <2>1. cache' = cache /\ step = "poll" /\ PollCache
    BY <1>1 DEF Poll
  <2>2. CASE results = <<>>
    <3>1. results' = <<>>
      BY <2>1, <2>2 DEF PollCache
    <3> QED
      BY <1>a, <1>b, <2>1, <3>1
  <2>3. CASE results # <<>>
    <3>1. results' = Tail(results) /\ fresh' = TRUE
      BY <2>1, <2>3 DEF PollCache
    <3>2. Len(results') = Len(results) - 1
      BY <1>a, <2>3, <3>1
    <3>3. Waiting' <= 2 /\ Waiting' <= 3
      BY <1>a, <1>b, <2>1, <3>2
    <3>4. fresh'
      BY <3>1
    <3> QED
      BY <3>3, <3>4 DEF FewResults
  <2> QED
    BY <2>2, <2>3
<1>2. CASE Timers
  <2>1. results' = results /\ step = "timers" /\ step' = "input"
    BY <1>2 DEF Timers
  <2>2. UNCHANGED cache \/ (~fresh /\ AskStatus)
    BY <1>2 DEF Timers, Expires
  <2> QED
    BY <1>a, <1>b, <2>1, <2>2 DEF AskStatus, Free
<1>3. CASE Input
  <2>0. step = "input"
    BY <1>3 DEF Input
  <2>1. CASE Nothing \/ Search \/ AskPois \/ GoMap \/ GoMenu
    BY <1>0, <2>1 DEF Nothing, Search, AskPois, GoMap, GoMenu, slots
  <2>2. CASE OpenSettings
    BY <1>c, <2>0, <2>2 DEF OpenSettings
  <2>3. CASE ChangeCategory
    BY <1>c, <2>0, <2>3 DEF ChangeCategory
  <2>4. CASE ChangeRow \/ AskConfirmation
    BY <1>0, <2>4 DEF ChangeRow, AskConfirmation, slots
  <2>5. CASE RefreshStatus
    BY <1>c, <2>0, <2>5 DEF RefreshStatus
  <2>6. CASE RequestClear
    <3>1. results' = <<>> /\ step' = "cancel"
      BY <2>6 DEF RequestClear, SlotForClear
    <3> QED
      BY <1>a, <3>1
  <2>7. CASE ChangeStyle \/ ToggleHiking \/ OpenTarget
    BY <1>0, <2>7 DEF ChangeStyle, ToggleHiking, OpenTarget, slots
  <2>8. CASE OpenAtlas
    <3>1. step' = "prepare"
      BY <2>8 DEF OpenAtlas
    <3>2. CASE AskAtlas
      BY <1>a, <3>1, <3>2 DEF AskAtlas
    <3>3. CASE UNCHANGED <<cache, results>>
      BY <1>0, <3>1, <3>3
    <3> QED
      BY <2>8, <3>2, <3>3 DEF OpenAtlas
  <2>9. CASE RefreshAtlas
    <3>1. step' = "prepare" /\ results' = <<>>
      BY <2>9 DEF RefreshAtlas, AskAtlas
    <3> QED
      BY <1>a, <3>1
  <2>10. CASE Explore
    BY <1>0, <2>10 DEF Explore, slots
  <2> QED
    BY <1>3, <2>1, <2>2, <2>3, <2>4, <2>5, <2>6, <2>7, <2>8, <2>9, <2>10 DEF Input
<1>4. CASE Preempt \/ CancelForClear \/ Prepare
  BY <1>0, <1>4 DEF Preempt, CancelForClear, Prepare, slots
<1>5. CASE Work
  <2>1. step' = step /\ fresh' = fresh
    BY <1>5 DEF Work, ui
  <2>2. CASE \/ TakeGeocode \/ Lookup \/ GeocodeSend \/ GeocodeReturn
             \/ TakePois \/ PoisSend \/ PoisReturn \/ TakeTile \/ TileDone
    BY <2>1, <2>2
       DEF TakeGeocode, Lookup, GeocodeSend, GeocodeReturn, TakePois, PoisSend,
           PoisReturn, TakeTile, TileDone, slots
  <2>3. CASE TakeCache
    <3>1. results' = results
      BY <2>3 DEF TakeCache
    <3>2. Pending(cache'.state) => Pending(cache.state)
      BY <2>3 DEF TakeCache
    <3> QED
      BY <1>a, <2>1, <3>1, <3>2
  <2>4. CASE CacheDone
    <3>1. cache' = Idle /\ cache.state = "running"
      BY <2>4 DEF CacheDone
    <3>2. Len(results') = Len(results) + 1
      <4>1. PICK r : results' = Append(results, r)
        BY <2>4 DEF CacheDone
      <4>2. Len(Append(results, r)) = Len(results) + 1
        <5> DEFINE S == Found \cup {r}
        <5>1. results \in Seq(S) /\ r \in S
          <6>1. \A i \in 1..Len(results) : results[i] \in S
            BY ElementOfSeq
          <6>2. results \in [1..Len(results) -> S]
            BY <6>1, LenProperties
          <6> QED
            BY <1>a, <6>2, IsASeq
        <5> HIDE DEF S
        <5> QED
          BY <5>1, AppendProperties
      <4> QED
        BY <4>1, <4>2
    <3> QED
      BY <1>a, <2>1, <3>1, <3>2 DEF Idle
  <2> QED
    BY <1>5, <2>2, <2>3, <2>4 DEF Work
<1>6. CASE Tick \/ UNCHANGED vars
  BY <1>6 DEF Tick, vars, slots, ui
<1>7. CASE Restart
  <2>1. results' = <<>> /\ cache' = Idle
    BY <1>7 DEF Restart
  <2> QED
    BY <1>a, <2>1 DEF Idle
<1> QED
  BY <1>1, <1>2, <1>3, <1>4, <1>5, <1>6, <1>7 DEF Next, Frame

-----------------------------------------------------------------------------
(* The types of what the other invariants say nothing of.                  *)
RowNames == {"MapStyle", "Hiking", "Interface", "Cache", "DiskLogging"}

Typed ==
    /\ habit \in Habits
    /\ step \in {"poll", "timers", "input", "preempt", "cancel", "prepare"}
    /\ mode \in {"map", "menu", "settings", "atlas"}
    /\ row \in RowNames
    /\ confirm \in BOOLEAN /\ clearing \in BOOLEAN
    /\ searching \in BOOLEAN /\ shown \in BOOLEAN
    /\ geo \in Requested \cup {"answered"}
    /\ poi \in Requested \cup PoiAnswers
    /\ worker \in {"geocode", "lookup", "geoPause", "geoSent", "pois", "poiPause",
                   "poiSent", "cache", "scan", "tiles", "tile"}

(* The rows of a category are rows.                                        *)
LEMMA RowsNamed ==
    /\ \A c \in 1..3 : ToSet(Rows[c]) \subseteq RowNames /\ Rows[c][1] \in ToSet(Rows[c])
    /\ \A r \in RowNames : \E c \in 1..3 : r \in ToSet(Rows[c])
<1>1. /\ ToSet(Rows[1]) = {"MapStyle", "Hiking"} /\ Rows[1][1] = "MapStyle"
      /\ ToSet(Rows[2]) = {"Interface"} /\ Rows[2][1] = "Interface"
      /\ ToSet(Rows[3]) = {"Cache", "DiskLogging"} /\ Rows[3][1] = "Cache"
  <2>1. DOMAIN Rows[1] = 1..2 /\ DOMAIN Rows[2] = 1..1 /\ DOMAIN Rows[3] = 1..2
    BY DEF Rows
  <2>2. 1..2 = {1, 2} /\ 1..1 = {1}
    OBVIOUS
  <2> QED
    BY <2>1, <2>2 DEF Rows, ToSet
<1>2. 1..3 = {1, 2, 3}
  OBVIOUS
<1> QED
  BY <1>1, <1>2 DEF RowNames

(* A frame keeps the types.                                                *)
LEMMA InputTyped ==
    ASSUME Typed, Input
    PROVE  Typed'
<1> USE DEF Typed
<1>0. UNCHANGED <<habit, worker>>
  BY DEF Input, work
<1>1. CASE Nothing
  BY <1>0, <1>1 DEF Nothing, ui, slots
<1>2. CASE Search
  BY <1>0, <1>2 DEF Search, Requested
<1>3. CASE AskPois
  BY <1>0, <1>3 DEF AskPois, ui, Requested
<1>4. CASE GoMap
  BY <1>0, <1>4 DEF GoMap, slots
<1>5. CASE GoMenu
  <2>1. confirm' \in BOOLEAN
    BY <1>5, Zenon DEF GoMenu
  <2> QED
    BY <1>0, <1>5, <2>1 DEF GoMenu, slots
<1>6. CASE OpenSettings
  <2>1. Category \in 1..3
    BY RowsNamed DEF Category
  <2>2. row' \in RowNames
    BY <1>6, <2>1, RowsNamed DEF OpenSettings
  <2> QED
    BY <1>0, <1>6, <2>2 DEF OpenSettings
<1>7. CASE ChangeCategory
  <2>1. row' \in RowNames
    BY <1>7, RowsNamed DEF ChangeCategory
  <2> QED
    BY <1>0, <1>7, <2>1 DEF ChangeCategory
<1>8. CASE ChangeRow
  <2>1. Category \in 1..3
    BY RowsNamed DEF Category
  <2>2. row' \in RowNames
    BY <1>8, <2>1, RowsNamed DEF ChangeRow
  <2> QED
    BY <1>0, <1>8, <2>2 DEF ChangeRow, slots
<1>9. CASE AskConfirmation
  BY <1>0, <1>9 DEF AskConfirmation, slots
<1>10. CASE RequestClear
  BY <1>0, <1>10 DEF RequestClear
<1>11. CASE RefreshStatus
  BY <1>0, <1>11 DEF RefreshStatus, ui
<1>12. CASE ChangeStyle \/ ToggleHiking
  BY <1>0, <1>12 DEF ChangeStyle, ToggleHiking, ui, slots
<1>13. CASE OpenTarget
  BY <1>0, <1>13 DEF OpenTarget, TakeStyle, slots
<1>14. CASE OpenAtlas \/ RefreshAtlas \/ Explore
  BY <1>0, <1>14 DEF OpenAtlas, RefreshAtlas, Explore, ui, slots
<1> QED
  BY <1>1, <1>2, <1>3, <1>4, <1>5, <1>6, <1>7, <1>8, <1>9, <1>10, <1>11, <1>12,
     <1>13, <1>14 DEF Input

(* So does every other step.                                               *)
LEMMA TypedStep ==
    ASSUME Typed, [Next]_vars
    PROVE  Typed'
<1> USE DEF Typed
<1>1. CASE Poll
  <2>1. UNCHANGED <<habit, mode, row, confirm, worker>>
        /\ step' \in {"timers", "input"}
    BY <1>1 DEF Poll, work
  <2>2. searching' \in BOOLEAN /\ geo' \in Requested \cup {"answered"}
    BY <1>1 DEF Poll, PollSearch, Requested
  <2>3. clearing' \in BOOLEAN
    BY <1>1 DEF Poll, PollCache
  <2>4. poi' \in Requested \cup PoiAnswers
    BY <1>1 DEF Poll, PollPois, Requested
  <2>5. shown' \in BOOLEAN
    <3>1. PollPois
      BY <1>1 DEF Poll
    <3>2. CASE poi \notin PoiAnswers
      BY <3>1, <3>2 DEF PollPois
    <3>3. CASE poi \in PoiAnswers
      <4>1. shown' = IF poi = "error" THEN shown ELSE poi = "points"
        BY <3>1, <3>3, Zenon DEF PollPois
      <4> QED
        BY <4>1
    <3> QED
      BY <3>2, <3>3
  <2> QED
    BY <2>1, <2>2, <2>3, <2>4, <2>5
<1>2. CASE Timers
  <2>1. UNCHANGED <<habit, mode, row, clearing, searching, shown, geo, poi, worker>>
    BY <1>2 DEF Timers, work
  <2>2. step' = "input" /\ confirm' \in BOOLEAN
    BY <1>2 DEF Timers
  <2> QED
    BY <2>1, <2>2
<1>3. CASE Input
  BY <1>3, InputTyped
<1>4. CASE Preempt \/ CancelForClear \/ Prepare
  BY <1>4 DEF Preempt, CancelForClear, Prepare, ui, slots
<1>5. CASE Work
  <2>0. UNCHANGED <<habit, step, mode, row, confirm, clearing, searching, shown>>
    BY <1>5 DEF Work, ui
  <2>1. CASE TakeGeocode \/ Lookup \/ GeocodeSend \/ GeocodeReturn
    BY <2>0, <2>1
       DEF TakeGeocode, Lookup, GeocodeSend, GeocodeReturn, Answer, Requested
  <2>2. CASE TakePois \/ PoisSend \/ PoisReturn
    BY <2>0, <2>2 DEF TakePois, PoisSend, PoisReturn, Requested, PoiAnswers
  <2>3. CASE TakeCache \/ CacheDone
    BY <2>0, <2>3 DEF TakeCache, CacheDone
  <2>4. CASE TakeTile \/ TileDone
    BY <2>0, <2>4 DEF TakeTile, TileDone, slots
  <2> QED
    BY <1>5, <2>1, <2>2, <2>3, <2>4 DEF Work
<1>6. CASE Tick \/ UNCHANGED vars
  BY <1>6 DEF Tick, vars, ui, slots, work
<1>7. CASE Restart
  BY <1>7 DEF Restart, RowNames, Requested
<1> QED
  BY <1>1, <1>2, <1>3, <1>4, <1>5, <1>6, <1>7 DEF Next, Frame

(* The timer of the status is set or not.                                  *)
LEMMA FreshStep ==
    ASSUME fresh \in BOOLEAN, [Next]_vars
    PROVE  fresh' \in BOOLEAN
<1>0. ASSUME fresh' = fresh \/ fresh' = TRUE \/ fresh' = FALSE
      PROVE  fresh' \in BOOLEAN
  BY <1>0
<1>1. CASE Poll
  BY <1>0, <1>1 DEF Poll, PollCache
<1>2. CASE Timers
  BY <1>0, <1>2 DEF Timers, AskStatus
<1>3. CASE Input
  <2>1. CASE OpenSettings \/ ChangeCategory \/ RefreshStatus
    BY <1>0, <2>1 DEF OpenSettings, ChangeCategory, RefreshStatus, AskStatus
  <2>2. CASE \/ Nothing \/ Search \/ AskPois \/ GoMap \/ GoMenu \/ ChangeRow
             \/ AskConfirmation \/ RequestClear
    BY <1>0, <2>2 DEF Nothing, Search, AskPois, GoMap, GoMenu, ChangeRow,
                      AskConfirmation, RequestClear, ui
  <2>3. CASE \/ ChangeStyle \/ ToggleHiking \/ OpenTarget \/ OpenAtlas
             \/ RefreshAtlas \/ Explore
    BY <1>0, <2>3 DEF ChangeStyle, ToggleHiking, OpenTarget, OpenAtlas,
                      RefreshAtlas, Explore, ui
  <2> QED
    BY <1>3, <2>1, <2>2, <2>3 DEF Input
<1>4. CASE Preempt \/ CancelForClear \/ Prepare \/ Work \/ Tick \/ UNCHANGED vars
  BY <1>0, <1>4 DEF Preempt, CancelForClear, Prepare, Work, Tick, vars, ui
<1>5. CASE Restart
  BY <1>0, <1>5 DEF Restart
<1> QED
  BY <1>1, <1>2, <1>3, <1>4, <1>5 DEF Next, Frame

(* The type invariant of the services, with the bound on the results that  *)
(* wait for a poll (map_screen.cpp:1053-1081, tile_manager.cpp:449-464).   *)
THEOREM ServicesTypeCorrect == Spec => []TypeOK
<1> DEFINE All == /\ Typed /\ Spacing /\ ClearingInv /\ FlagInv /\ StyleInv
                  /\ AtlasInv /\ FewResults /\ fresh \in BOOLEAN
<1>1. Init => All
  <2> SUFFICES ASSUME Init PROVE All
    OBVIOUS
  <2>1. Typed
    BY DEF Init, Typed, RowNames, Requested
  <2>2. ClearingInv /\ FlagInv
    BY DEF Init, Idle, ClearingInv, FlagInv, CacheSlot, ClearIsShown, Clearing,
           Pending, Free, OnlyClearCancels
  <2>3. StyleInv
    BY DEF Init, StyleInv, StyleFollowsHiking
  <2>4. FewResults
    <3>1. Len(<<>>) = 0
      BY EmptySeq
    <3> QED
      BY <3>1 DEF Init, Idle, FewResults, Waiting, Pending
  <2>5. fresh \in BOOLEAN
    BY DEF Init
  <2> QED
    BY <2>1, <2>2, <2>3, <2>4, <2>5, InitSpacing, InitAtlas
<1>2. All /\ [Next]_vars => All'
  <2> SUFFICES ASSUME All, [Next]_vars PROVE All'
    OBVIOUS
  <2>1. CacheSlot /\ results \in Seq(Found)
    BY DEF ClearingInv, AtlasInv
  <2>2. Typed'
    BY TypedStep
  <2>3. Spacing'
    BY SpacingStep
  <2>4. ClearingInv' /\ FlagInv' /\ StyleInv'
    BY ClearingStep, FlagStep, StyleStep
  <2>5. AtlasInv' /\ FewResults' /\ fresh' \in BOOLEAN
    BY <2>1, AtlasStep, FewResultsStep, FreshStep
  <2> QED
    BY <2>2, <2>3, <2>4, <2>5
<1>3. All => TypeOK
  <2> SUFFICES ASSUME All PROVE TypeOK
    OBVIOUS
  <2>1. row \in UNION {ToSet(Rows[c]) : c \in 1..3}
    BY RowsNamed DEF Typed
  <2>2. {confirm, fresh, clearing, searching, shown, cancel, hiking, trouble}
             \subseteq BOOLEAN
    BY DEF Typed, Spacing, StyleInv
  <2>3. cache \in [state : Requested, kind : {"status", "clear", "atlas"}]
    BY DEF ClearingInv, CacheSlot, Requested
  <2>4. Len(results) <= 3
    <3>1. Len(results) \in Nat
      BY LenProperties DEF AtlasInv
    <3> QED
      BY <3>1 DEF FewResults, Waiting
  <2>5. \A i \in 1..Len(results) : results[i].kind \in {"status", "clear", "atlas"}
    <3>1. \A i \in 1..Len(results) : results[i] \in Found
      BY ElementOfSeq DEF AtlasInv
    <3> QED
      BY <3>1 DEF Found
  <2>6. left \in Nat
    BY DEF Spacing
  <2>7. \A c \in Clients : since[c] \in 0..Gap[c] /\ quiet[c] \in 0..Gap[c]
    BY GapAssumption DEF Spacing
  <2>8. {style, saved, atlas.style} \subseteq Styles
    BY DEF AtlasInv, Atlases
  <2>9. atlas.zoom \in -1..Deepest /\ atlas.tile \in Nat \ {0}
    BY DEF AtlasInv, Atlases
  <2>10. /\ habit \in Habits
         /\ step \in {"poll", "timers", "input", "preempt", "cancel", "prepare"}
         /\ mode \in {"map", "menu", "settings", "atlas"}
         /\ geo \in Requested \cup {"answered"}
         /\ poi \in Requested \cup PoiAnswers
         /\ worker \in {"geocode", "lookup", "geoPause", "geoSent", "pois",
                        "poiPause", "poiSent", "cache", "scan", "tiles", "tile"}
    BY DEF Typed
  <2> HIDE DEF All
  <2> QED
    BY <2>1, <2>2, <2>3, <2>4, <2>5, <2>6, <2>7, <2>8, <2>9, <2>10, Zenon DEF TypeOK
<1> QED
  BY <1>1, <1>2, <1>3, PTL DEF Spec
=============================================================================
