-------------------------- MODULE TileManagerProofs --------------------------
(***************************************************************************)
(* Theorems about the tile pipeline, for any set of tiles, any texture     *)
(* budget, any screens and with faults allowed.                            *)
(***************************************************************************)
EXTENDS TileManager, TLAPS

(* Who owns the active transfer: nobody while the worker is between tasks, *)
(* the task in hand inside process_task, and for ever the last one once    *)
(* the worker has thrown.                                                  *)
Ownership ==
    /\ workerPc \in IdlePcs => active = NoTask
    /\ workerPc \in TaskPcs => active = task
    /\ workerPc \in TaskPcs \cup {"begin"} => task \in Tasks

(* The outcome of a download lives from its return to the end of the task  *)
(* or to the decoding, whichever comes first, and an answer that is given  *)
(* up has its cancellation requested.                                      *)
DownloadOutcome ==
    /\ fetched # "none" => workerPc \in {"judge", "charge", "downloaded",
                              "startDecode", "decode", "settle", "retire"}
    /\ workerPc = "charge" /\ fetched = "ok" => cancelFlag

(* The inductive invariant of the cancellation protocol.                   *)
CancelInv ==
    /\ TypeOK
    /\ Ownership
    /\ ObsoleteTransferCancelled
    /\ DownloadOutcome
    /\ SuccessNeverCharged

(* While no cache clear can destroy textures behind the record table, the  *)
(* victims pump_uploads has not reported yet are the only exceptions.      *)
TextureInv ==
    /\ clearing = "none" /\ workerPc # "clearing"
    /\ evicted # {} => mainPc = "markEvicted"
    /\ ReadyHasTexture

(* A tile is carried by the worker or waits in the upload queue.           *)
Waiting(k) == \E i \in DOMAIN uploads : uploads[i] = k
Carried(k) == active # NoTask /\ active.key = k

(* The inductive invariant behind NoAbandonedTile: the worker lets go only *)
(* of tiles that are waiting for upload or have left the pipeline, and     *)
(* while a cache clear is about to empty the upload queue no tile depends  *)
(* on that queue, nor is one about to enter it.                            *)
CarrierInv ==
    /\ NoAbandonedTile
    /\ \/ workerPc # "retire" \/ mainPc = "done"
       \/ records[task.key] \in InFlight => Waiting(task.key)
    /\ \A k \in Keys : records[k] \in InFlight \ {"Decoding"} =>
          Carried(k) /\ workerPc \notin {"decode", "publish", "push", "retire"}
    /\ mainPc = "clearUploads" =>
          /\ wanted = {}
          /\ \A k \in Keys : records[k] \in InFlight =>
                Carried(k) /\ workerPc \notin {"push", "retire"}

-----------------------------------------------------------------------------
(* The protocol starts in order: no transfer, nothing downloaded.          *)
LEMMA InitCancelInv == Init => CancelInv
<1> SUFFICES ASSUME Init PROVE CancelInv
  OBVIOUS
<1>1. TypeOK
  <2>1. records \in [Keys -> TileStates]
    BY DEF Init, TileStates
  <2>2. stopping \in BOOLEAN /\ cancelFlag \in BOOLEAN /\ network \in BOOLEAN
    BY DEF Init
  <2>3. uploads \in Seq(Keys)
    BY DEF Init
  <2> QED
    BY <2>1, <2>2, <2>3
       DEF Init, TypeOK, Slot, ClearSlot, MainPcs, Modes, IdlePcs
<1>2. Ownership /\ ObsoleteTransferCancelled
  BY DEF Init, Ownership, ObsoleteTransferCancelled, IdlePcs, TaskPcs
<1>3. DownloadOutcome /\ SuccessNeverCharged
  BY DEF Init, DownloadOutcome, SuccessNeverCharged
<1> QED
  BY <1>1, <1>2, <1>3 DEF CancelInv

(* Every section of the render thread and of the worker, an exception of   *)
(* the worker included, keeps ownership, cancellation and outcome.         *)
LEMMA CancelInvStep == CancelInv /\ [Next]_vars => CancelInv'
<1> SUFFICES ASSUME CancelInv, [Next]_vars PROVE CancelInv'
  OBVIOUS
<1> USE DEF CancelInv, TypeOK, Ownership, ObsoleteTransferCancelled,
            DownloadOutcome, SuccessNeverCharged, TileStates, Slot, ClearSlot,
            MainPcs, Modes, IdlePcs, TaskPcs, mainVars, workerVars, sharedVars
<1>1. CASE PollSearch
  BY <1>1 DEF PollSearch
<1>2. CASE PollClear
  BY <1>2 DEF PollClear
<1>3. CASE RequestSearch
  BY <1>3 DEF RequestSearch
<1>4. CASE PreemptTransfer
  BY <1>4 DEF PreemptTransfer
<1>5. CASE RequestClear
  BY <1>5 DEF RequestClear
<1>6. CASE ClearRecords
  BY <1>6 DEF ClearRecords
<1>7. CASE ClearUploads
  BY <1>7 DEF ClearUploads
<1>8. CASE ClearQueue
  BY <1>8 DEF ClearQueue
<1>9. ASSUME NEW next \in Screens, NEW request \in SUBSET Keys,
               NEW due \in SUBSET Keys, NEW collect \in BOOLEAN,
               NEW onScreen \in SUBSET request,
               Submit(next, request, onScreen, due, collect)
        PROVE  CancelInv'
  <2>1. TypeOK'
    <3>1. records' \in [Keys -> TileStates]
      BY <1>9 DEF Submit, Requeued
    <3>2. pending' \in SUBSET Tasks
      <4>1. pending' = {[key |-> k, cacheOnly |-> next = "atlas"] : k \in
                {q \in request : Requeued(request, due)[q] = "Queued"}}
        BY <1>9, Zenon DEF Submit
      <4> HIDE DEF CancelInv, TypeOK, Ownership, ObsoleteTransferCancelled,
                   DownloadOutcome, SuccessNeverCharged
      <4>2. ASSUME NEW t \in pending' PROVE t \in Tasks
        <5>1. PICK k \in request : t = [key |-> k, cacheOnly |-> next = "atlas"]
          BY <4>1
        <5>2. (next = "atlas") \in BOOLEAN /\ k \in Keys
          OBVIOUS
        <5> QED
          BY <5>1, <5>2 DEF Tasks
      <4> QED
        BY <4>2
    <3>3. cancelFlag' \in BOOLEAN
      BY <1>9 DEF Submit
    <3>4. mode' \in Modes /\ wanted' \in SUBSET Keys /\ visible' \in SUBSET Keys
      BY <1>9, ScreensAssumption DEF Submit
    <3> QED
      BY <1>9, <3>1, <3>2, <3>3, <3>4 DEF Submit
  <2>2. Ownership'
    BY <1>9 DEF Submit, Requeued, MustYield, Tasks
  <2>3. ObsoleteTransferCancelled'
    BY <1>9 DEF Submit, Requeued, MustYield, Tasks
  <2>4. DownloadOutcome'
    BY <1>9 DEF Submit, Requeued, MustYield, Tasks
  <2>5. SuccessNeverCharged'
    BY <1>9 DEF Submit, Requeued, MustYield, Tasks
  <2> QED
    BY <2>1, <2>2, <2>3, <2>4, <2>5
<1>10. CASE Replace
  BY <1>10 DEF Replace, UploadsPerFrame
<1>11. CASE DropUpload
  BY <1>11 DEF DropUpload, mainVars
<1>12. CASE InsertUpload
  BY <1>12 DEF InsertUpload, Victims
<1>13. CASE RejectUpload
  BY <1>13 DEF RejectUpload, Victims, Evict
<1>14. CASE MarkEvicted
  BY <1>14 DEF MarkEvicted, Evict
<1>15. CASE EndFrame
  BY <1>15 DEF EndFrame
<1>16. CASE Stop
  BY <1>16 DEF Stop
<1>17. CASE StopCancel
  BY <1>17 DEF StopCancel
<1>18. CASE StopQueue
  BY <1>18 DEF StopQueue
<1>19. CASE Join
  BY <1>19 DEF Join
<1>20. CASE WorkerStart
  <2>1. TypeOK'
    <3>1. network' \in BOOLEAN
      BY <1>20 DEF WorkerStart
    <3> QED
      BY <1>20, <3>1 DEF WorkerStart
  <2>2. Ownership'
    BY <1>20 DEF WorkerStart
  <2>3. ObsoleteTransferCancelled'
    BY <1>20 DEF WorkerStart
  <2>4. DownloadOutcome'
    BY <1>20 DEF WorkerStart
  <2>5. SuccessNeverCharged'
    BY <1>20 DEF WorkerStart
  <2> QED
    BY <2>1, <2>2, <2>3, <2>4, <2>5
<1>21. CASE LoopTest
  BY <1>21 DEF LoopTest
<1>22. CASE TakeSearch
  <2>1. TypeOK'
    <3>1. CASE search = "requested"
      <4>1. search' = "running" /\ workerPc' = "searching" /\ ~cancelFlag'
        BY <1>22, <3>1 DEF TakeSearch
      <4>2. cancelFlag' \in BOOLEAN
        BY <1>22, <3>1 DEF TakeSearch
      <4> QED
        BY <1>22, <4>1, <4>2 DEF TakeSearch
    <3>2. CASE search # "requested"
      BY <1>22, <3>2 DEF TakeSearch
    <3> QED
      BY <3>1, <3>2
  <2>2. Ownership'
    BY <1>22 DEF TakeSearch
  <2>3. ObsoleteTransferCancelled'
    BY <1>22 DEF TakeSearch
  <2>4. DownloadOutcome'
    BY <1>22 DEF TakeSearch
  <2>5. SuccessNeverCharged'
    BY <1>22 DEF TakeSearch
  <2> QED
    BY <2>1, <2>2, <2>3, <2>4, <2>5
<1>23. CASE SearchDone
  BY <1>23 DEF SearchDone
<1>24. CASE TakeClear
  BY <1>24 DEF TakeClear
<1>25. CASE ClearDone
  BY <1>25 DEF ClearDone
<1>26. ASSUME NEW key \in Keys, Pop(key) PROVE CancelInv'
  BY <1>26 DEF Pop
<1>27. CASE Nap
  BY <1>27 DEF Nap
<1>28. CASE BeginTask
  <2>1. TypeOK'
    <3>1. records' \in [Keys -> TileStates]
      BY <1>28 DEF BeginTask, Tasks
    <3>2. cancelFlag' \in BOOLEAN
      BY <1>28 DEF BeginTask, Tasks
    <3> QED
      BY <1>28, <3>1, <3>2 DEF BeginTask, Tasks
  <2>2. Ownership'
    BY <1>28 DEF BeginTask, Tasks
  <2>3. ObsoleteTransferCancelled'
    BY <1>28 DEF BeginTask, Tasks
  <2>4. DownloadOutcome'
    BY <1>28 DEF BeginTask, Tasks
  <2>5. SuccessNeverCharged'
    BY <1>28 DEF BeginTask, Tasks
  <2> QED
    BY <2>1, <2>2, <2>3, <2>4, <2>5
<1>29. CASE DropTask
  BY <1>29 DEF DropTask, Tasks
<1>30. CASE Lookup
  BY <1>30 DEF Lookup, SettleAs
<1>31. CASE Mark("startDownload", "Downloading", "download")
  BY <1>31 DEF Mark, Tasks
<1>32. CASE DownloadReturns
  BY <1>32 DEF DownloadReturns
<1>33. CASE Judge
  <2>1. TypeOK'
    BY <1>33 DEF Judge
  <2>2. Ownership'
    BY <1>33 DEF Judge
  <2>3. ObsoleteTransferCancelled'
    BY <1>33 DEF Judge
  <2>4. DownloadOutcome'
    <3>1. task.key \notin wanted => cancelFlag
      BY <1>33, NoTaskAssumption DEF Judge
    <3> QED
      BY <1>33, <3>1 DEF Judge
  <2>5. SuccessNeverCharged'
    BY <1>33 DEF Judge
  <2> QED
    BY <2>1, <2>2, <2>3, <2>4, <2>5
<1>34. CASE Charge
  BY <1>34 DEF Charge, SettleAs
<1>35. CASE Mark("downloaded", "Downloaded", "startDecode")
  BY <1>35 DEF Mark, Tasks
<1>36. CASE Mark("startDecode", "Decoding", "decode")
  BY <1>36 DEF Mark, Tasks
<1>37. CASE Decode
  BY <1>37 DEF Decode, SettleAs
<1>38. CASE Publish
  BY <1>38 DEF Publish, SettleAs
<1>39. CASE Push
  BY <1>39 DEF Push, Tasks
<1>40. CASE Settle
  <2>1. TypeOK'
    <3>1. records' \in [Keys -> TileStates]
      BY <1>40 DEF Settle
    <3>2. cancelFlag' \in BOOLEAN
      BY <1>40 DEF Settle
    <3> QED
      BY <1>40, <3>1, <3>2 DEF Settle
  <2>2. Ownership'
    BY <1>40 DEF Settle
  <2>3. ObsoleteTransferCancelled'
    BY <1>40 DEF Settle
  <2>4. DownloadOutcome'
    BY <1>40 DEF Settle
  <2>5. SuccessNeverCharged'
    BY <1>40 DEF Settle
  <2> QED
    BY <2>1, <2>2, <2>3, <2>4, <2>5
<1>41. CASE Retire
  BY <1>41 DEF Retire
<1>42. CASE WorkerThrows
  BY <1>42 DEF WorkerThrows
<1>43. CASE UNCHANGED vars
  BY <1>43 DEF vars
<1> HIDE DEF CancelInv, TypeOK, Ownership, ObsoleteTransferCancelled,
            DownloadOutcome, SuccessNeverCharged
<1> QED
  BY <1>1, <1>2, <1>3, <1>4, <1>5, <1>6, <1>7, <1>8, <1>9, <1>10,
     <1>11, <1>12, <1>13, <1>14, <1>15, <1>16, <1>17, <1>18, <1>19,
     <1>20, <1>21, <1>22, <1>23, <1>24, <1>25, <1>26, <1>27, <1>28,
     <1>29, <1>30, <1>31, <1>32, <1>33, <1>34, <1>35, <1>36, <1>37,
     <1>38, <1>39, <1>40, <1>41, <1>42, <1>43
     DEF Next, Main, Worker, Exited

(* The cancellation protocol between submit_requests, request_cache_clear  *)
(* and process_task: the inductive invariant holds in every run.           *)
THEOREM CancelInvariant == Spec => []CancelInv
<1>1. Init => CancelInv
  BY InitCancelInv
<1>2. CancelInv /\ [Next]_vars => CancelInv'
  BY CancelInvStep
<1> QED
  BY <1>1, <1>2, PTL DEF Spec

(* Every variable keeps its type, for any number of tiles and any budget.  *)
THEOREM TypeCorrect == Spec => []TypeOK
<1>1. CancelInv => TypeOK
  BY DEF CancelInv
<1> QED
  BY <1>1, CancelInvariant, PTL

(* submit_requests, request_cache_clear and process_task keep the promise  *)
(* that a transfer nobody wants has its cancellation requested.            *)
THEOREM CancellationRequested == Spec => []ObsoleteTransferCancelled
<1>1. CancelInv => ObsoleteTransferCancelled
  BY DEF CancelInv
<1> QED
  BY <1>1, CancelInvariant, PTL

(* The two unlocked reads of cancel_flag_ in process_task never charge a   *)
(* download that succeeded to the tile's backoff.                          *)
THEOREM SuccessNotCharged == Spec => []SuccessNeverCharged
<1>1. CancelInv => SuccessNeverCharged
  BY DEF CancelInv
<1> QED
  BY <1>1, CancelInvariant, PTL

-----------------------------------------------------------------------------
(* Uploads, evictions and their reports keep textures and records in step  *)
(* as long as no cache clear is under way.                                 *)
LEMMA TextureInvStep ==
    ASSUME "clear" \notin UserActions, TypeOK, TextureInv, [Next]_vars
    PROVE  TextureInv'
<1> USE DEF TextureInv, ReadyHasTexture, mainVars, workerVars, sharedVars
<1>1. ASSUME NEW next \in Screens, NEW request \in SUBSET Keys,
             NEW due \in SUBSET Keys, NEW collect \in BOOLEAN,
             NEW onScreen \in SUBSET request,
             Submit(next, request, onScreen, due, collect)
      PROVE  TextureInv'
  <2>1. \A k \in Keys : records'[k] = "Ready" => records[k] = "Ready"
    BY <1>1 DEF Submit, Requeued
  <2> QED
    BY <1>1, <2>1 DEF Submit
<1>2. CASE DropUpload
  BY <1>2 DEF DropUpload, TypeOK
<1>3. CASE InsertUpload
  <2>1. PICK victims \in Victims(Head(uploads)) :
          textures' = (textures \ victims) \cup {Head(uploads)} /\ evicted' = victims
    BY <1>3 DEF InsertUpload
  <2>2. evicted = {} /\ mainPc' = "markEvicted" /\ clearing' = clearing
    BY <1>3 DEF InsertUpload
  <2>3. \A k \in Keys \ {Head(uploads)} : records'[k] = records[k]
    BY <1>3 DEF InsertUpload, TypeOK
  <2> QED
    BY <1>3, <2>1, <2>2, <2>3 DEF InsertUpload
<1>4. CASE RejectUpload
  <2>1. evicted = {} /\ mainPc' = "markEvicted" /\ clearing' = clearing
    BY <1>4 DEF RejectUpload
  <2>2. \A k \in Keys : records'[k] = "Ready" => records[k] = "Ready"
    BY <1>4 DEF RejectUpload, Evict, TypeOK
  <2> QED
    BY <1>4, <2>1, <2>2 DEF RejectUpload
<1>5. CASE MarkEvicted
  <2>1. \A k \in Keys : records'[k] = "Ready" =>
          records[k] = "Ready" /\ k \notin evicted
    BY <1>5 DEF MarkEvicted, Evict, TypeOK
  <2> QED
    BY <1>5, <2>1 DEF MarkEvicted
<1>6. CASE PollClear
  BY <1>6 DEF PollClear
<1>7. CASE RequestClear \/ ClearRecords
  BY <1>7 DEF RequestClear, ClearRecords
<1>8. CASE \/ PollSearch \/ RequestSearch \/ PreemptTransfer \/ ClearUploads
           \/ ClearQueue \/ Replace \/ EndFrame \/ Stop \/ StopCancel
           \/ StopQueue \/ Join \/ UNCHANGED vars
  BY <1>8 DEF PollSearch, RequestSearch, PreemptTransfer, ClearUploads,
              ClearQueue, Replace, EndFrame, Stop, StopCancel, StopQueue, Join,
              vars
<1>9. CASE Worker \/ WorkerThrows
  <2>1. UNCHANGED <<textures, evicted, mainPc>>
    BY <1>9 DEF Worker, WorkerThrows, WorkerStart, LoopTest, TakeSearch,
          SearchDone, TakeClear, ClearDone, Pop, Nap, BeginTask, DropTask,
          Lookup, Mark, DownloadReturns, Judge, Charge, Decode, Publish, Push,
          Settle, Retire
  <2>2. clearing' = "none" /\ workerPc' # "clearing"
    BY <1>9 DEF Worker, WorkerThrows, WorkerStart, LoopTest, TakeSearch,
          SearchDone, TakeClear, ClearDone, Pop, Nap, BeginTask, DropTask,
          Lookup, Mark, DownloadReturns, Judge, Charge, Decode, Publish, Push,
          Settle, Retire, SettleAs
  <2>3. \A k \in Keys : records'[k] = "Ready" => records[k] = "Ready"
    BY <1>9 DEF TypeOK, Worker, WorkerThrows, WorkerStart, LoopTest, TakeSearch,
          SearchDone, TakeClear, ClearDone, Pop, Nap, BeginTask, DropTask,
          Lookup, Mark, DownloadReturns, Judge, Charge, Decode, Publish, Push,
          Settle, Retire
  <2> QED
    BY <2>1, <2>2, <2>3
<1> HIDE DEF TextureInv
<1> QED
  BY <1>1, <1>2, <1>3, <1>4, <1>5, <1>6, <1>7, <1>8, <1>9
     DEF Next, Main, Exited

(* Without a cache clear a Ready tile always has its texture: eviction,    *)
(* rejected uploads and mark_evicted never get out of step.  With one this *)
(* is false (run ready_lost).                                              *)
THEOREM TexturesKept ==
    ASSUME "clear" \notin UserActions
    PROVE  Spec => []ReadyHasTexture
<1>1. Init => TextureInv
  BY DEF Init, TextureInv, ReadyHasTexture
<1>2. TypeOK /\ TextureInv /\ [Next]_vars => TextureInv'
  BY TextureInvStep
<1>3. TextureInv => ReadyHasTexture
  BY DEF TextureInv
<1> QED
  BY <1>1, <1>2, <1>3, TypeCorrect, PTL DEF Spec

-----------------------------------------------------------------------------
(* What waits for upload behind the head still waits after a pop.          *)
LEMMA TailKeeps ==
    ASSUME NEW S, NEW q \in Seq(S), q # <<>>,
           NEW i \in DOMAIN q, q[i] # Head(q)
    PROVE  \E j \in DOMAIN Tail(q) : Tail(q)[j] = q[i]
<1>1. i \in 2..Len(q)
  OBVIOUS
<1>2. i - 1 \in DOMAIN Tail(q) /\ Tail(q)[i - 1] = q[i]
  BY <1>1
<1> QED
  BY <1>2

(* Steps that send no tile into the pipeline and lose no waiting one keep  *)
(* every tile carried.                                                     *)
LEMMA CarriersKept ==
    ASSUME Ownership, CarrierInv, UNCHANGED <<active, workerPc, task>>,
           mainPc # "done", mainPc' \notin {"done", "clearUploads"},
           \A k \in Keys : records'[k] \in InFlight =>
               /\ records'[k] = records[k]
               /\ records[k] # "Decoding" \/ (Waiting(k) => Waiting(k)')
    PROVE  CarrierInv'
<1>1. NoAbandonedTile'
  BY DEF CarrierInv, NoAbandonedTile, Waiting, Carried
<1>2. workerPc = "retire" => task.key \in Keys
  BY DEF Ownership, TaskPcs, Tasks
<1>3. workerPc' # "retire" \/ (records'[task.key] \in InFlight => Waiting(task.key)')
  BY <1>2 DEF CarrierInv
<1> QED
  BY <1>1, <1>3 DEF CarrierInv, Carried

(* A section of the worker moves a tile on, hands it to the upload queue   *)
(* or takes it out of the pipeline, never just lets go of it.              *)
LEMMA WorkerKeepsCarriers ==
    ASSUME TypeOK, Ownership, CarrierInv, Worker \/ WorkerThrows
    PROVE  CarrierInv'
<1> USE NoTaskAssumption DEF mainVars, workerVars, sharedVars
<1>1. workerPc \in TaskPcs => active # NoTask /\ active = task /\ task.key \in Keys
  BY DEF Ownership, Tasks
<1>2. CASE \/ WorkerStart \/ LoopTest \/ TakeSearch \/ SearchDone \/ TakeClear
           \/ ClearDone \/ (\E key \in Keys : Pop(key)) \/ Nap \/ Lookup
           \/ DownloadReturns \/ Judge \/ Charge \/ WorkerThrows
  <2>1. /\ UNCHANGED <<records, uploads, active, mainPc, wanted>>
        /\ workerPc' \notin {"decode", "publish", "push", "retire"}
    BY <1>2 DEF WorkerStart, LoopTest, TakeSearch, SearchDone, TakeClear,
          ClearDone, Pop, Nap, Lookup, DownloadReturns, Judge, Charge,
          WorkerThrows, SettleAs
  <2> QED
    BY <2>1 DEF CarrierInv, NoAbandonedTile, Waiting, Carried
<1>3. CASE BeginTask
  <2>1. active = NoTask /\ active' = task /\ task \in Tasks /\ task.key \in Keys
    BY <1>3 DEF BeginTask, Ownership, IdlePcs, Tasks
  <2>2. \A k \in Keys \ {task.key} : records'[k] = records[k]
    BY <1>3 DEF BeginTask, TypeOK
  <2>3. mainPc # "clearUploads"
    BY <1>3 DEF BeginTask, CarrierInv
  <2> QED
    BY <1>3, <2>1, <2>2, <2>3
       DEF BeginTask, CarrierInv, NoAbandonedTile, Waiting, Carried
<1>4. CASE DropTask
  <2>1. \A k \in Keys : records'[k] \in InFlight => records'[k] = records[k]
    BY <1>4 DEF DropTask, TypeOK, InFlight
  <2> QED
    BY <1>4, <2>1 DEF DropTask, CarrierInv, NoAbandonedTile, Waiting, Carried
<1>5. ASSUME NEW pc \in {"startDownload", "downloaded"}, NEW s \in InFlight,
             NEW next \in {"download", "startDecode"}, Mark(pc, s, next)
      PROVE  CarrierInv'
  <2>1. \A k \in Keys \ {task.key} : records'[k] = records[k]
    BY <1>5 DEF Mark, TypeOK
  <2>2. workerPc \in TaskPcs
    BY <1>5 DEF Mark, TaskPcs
  <2> QED
    BY <1>1, <1>5, <2>1, <2>2
       DEF Mark, CarrierInv, NoAbandonedTile, Waiting, Carried
<1>6. CASE Mark("startDecode", "Decoding", "decode")
  <2>1. /\ records' = [records EXCEPT ![task.key] = "Decoding"]
        /\ UNCHANGED <<uploads, active, mainPc, wanted, task>>
        /\ workerPc' = "decode" /\ active # NoTask /\ active = task
        /\ task.key \in Keys
    BY <1>1, <1>6 DEF Mark, TaskPcs
  <2>2. records'[task.key] = "Decoding"
    BY <2>1 DEF TypeOK
  <2>3. \A k \in Keys \ {task.key} : records'[k] = records[k]
    BY <2>1 DEF TypeOK
  <2> QED
    BY <2>1, <2>2, <2>3 DEF CarrierInv, NoAbandonedTile, Waiting, Carried
<1>7. CASE Decode \/ Publish
  <2>1. /\ UNCHANGED <<records, uploads, active, mainPc, wanted>>
        /\ workerPc \in {"decode", "publish"}
        /\ workerPc' \in {"publish", "push", "settle"}
        /\ workerPc' = "push" => wanted # {}
    BY <1>7 DEF Decode, Publish, SettleAs
  <2> QED
    BY <2>1 DEF CarrierInv, NoAbandonedTile, Waiting, Carried
<1>8. CASE Push
  <2>1. task.key \in Keys /\ active = task
    BY <1>1, <1>8 DEF Push, TaskPcs
  <2>2. (\A k \in Keys : Waiting(k) => Waiting(k)') /\ Waiting(task.key)'
    <3>1. uploads' = Append(uploads, task.key) /\ uploads \in Seq(Keys)
      BY <1>8 DEF Push, TypeOK
    <3>2. ASSUME NEW k \in Keys, Waiting(k) PROVE Waiting(k)'
      <4>1. PICK i \in DOMAIN uploads : uploads[i] = k
        BY <3>2 DEF Waiting
      <4>2. i \in DOMAIN uploads' /\ uploads'[i] = k
        BY <2>1, <3>1, <4>1
      <4> QED
        BY <4>2 DEF Waiting
    <3>3. Waiting(task.key)'
      <4>1. /\ Len(uploads) + 1 \in DOMAIN uploads'
            /\ uploads'[Len(uploads) + 1] = task.key
        BY <2>1, <3>1
      <4>2. task' = task
        BY <1>8 DEF Push
      <4> QED
        BY <4>1, <4>2 DEF Waiting
    <3> QED
      BY <3>2, <3>3
  <2> QED
    BY <1>8, <2>1, <2>2 DEF Push, CarrierInv, NoAbandonedTile, Waiting, Carried
<1>9. CASE Settle
  <2>1. task.key \in Keys /\ active = task
    BY <1>1, <1>9 DEF Settle, TaskPcs
  <2>2. \A k \in Keys \ {task.key} : records'[k] = records[k]
    BY <1>9 DEF Settle, TypeOK
  <2>3. records'[task.key] \notin InFlight
    BY <1>9, <2>1 DEF Settle, TypeOK, InFlight
  <2> QED
    BY <1>9, <2>1, <2>2, <2>3
       DEF Settle, CarrierInv, NoAbandonedTile, Waiting, Carried
<1>10. CASE Retire
  <2>1. active = task
    BY <1>1, <1>10 DEF Retire, TaskPcs
  <2> QED
    BY <1>10, <2>1 DEF Retire, CarrierInv, NoAbandonedTile, Waiting, Carried
<1> QED
  BY <1>2, <1>3, <1>4, <1>5, <1>6, <1>7, <1>8, <1>9, <1>10
     DEF Worker, WorkerThrows, InFlight

(* The render thread's sections do not lose a tile either: the cache clear *)
(* empties the record table before the upload queue.                       *)
LEMMA CarrierInvStep ==
    ASSUME TypeOK, Ownership, CarrierInv, [Next]_vars
    PROVE  CarrierInv'
<1> USE DEF mainVars, workerVars, sharedVars
<1>1. CASE \/ PollSearch \/ PollClear \/ RequestSearch \/ PreemptTransfer
           \/ RequestClear \/ ClearQueue \/ Replace \/ EndFrame \/ Stop
           \/ StopCancel \/ StopQueue
  <2>1. UNCHANGED <<records, uploads, active, workerPc, task>>
    BY <1>1 DEF PollSearch, PollClear, RequestSearch, PreemptTransfer,
          RequestClear, ClearQueue, Replace, EndFrame, Stop, StopCancel,
          StopQueue
  <2>2. mainPc # "done" /\ mainPc' \notin {"done", "clearUploads"}
    BY <1>1 DEF PollSearch, PollClear, RequestSearch, PreemptTransfer,
          RequestClear, ClearQueue, Replace, EndFrame, Stop, StopCancel,
          StopQueue
  <2> QED
    BY <2>1, <2>2, CarriersKept DEF Waiting
<1>2. ASSUME NEW next \in Screens, NEW request \in SUBSET Keys,
             NEW due \in SUBSET Keys, NEW collect \in BOOLEAN,
             NEW onScreen \in SUBSET request,
             Submit(next, request, onScreen, due, collect)
      PROVE  CarrierInv'
  <2>1. \A k \in Keys : records'[k] \in InFlight => records'[k] = records[k]
    BY <1>2 DEF Submit, Requeued, InFlight
  <2> QED
    BY <1>2, <2>1, CarriersKept DEF Submit, Waiting
<1>3. CASE ClearRecords
  <2>1. \A k \in Keys : records'[k] \notin InFlight
    BY <1>3 DEF ClearRecords, InFlight
  <2>2. workerPc = "retire" => task.key \in Keys
    BY DEF Ownership, TaskPcs, Tasks
  <2> QED
    BY <1>3, <2>1, <2>2 DEF ClearRecords, CarrierInv, NoAbandonedTile
<1>4. CASE ClearUploads
  <2>1. \A k \in Keys : records[k] \in InFlight => Carried(k) /\ workerPc # "retire"
    BY <1>4 DEF ClearUploads, CarrierInv
  <2>2. workerPc = "retire" => task.key \in Keys
    BY DEF Ownership, TaskPcs, Tasks
  <2> QED
    BY <1>4, <2>1, <2>2
       DEF ClearUploads, CarrierInv, NoAbandonedTile, Carried
<1>5. CASE DropUpload \/ InsertUpload \/ RejectUpload
  <2>1. /\ uploads # <<>> /\ uploads' = Tail(uploads) /\ mainPc = "pump"
        /\ mainPc' \in {"pump", "markEvicted"}
        /\ UNCHANGED <<active, workerPc, task>>
    BY <1>5 DEF DropUpload, InsertUpload, RejectUpload
  <2>2. \A k \in Keys : records'[k] \in InFlight =>
          /\ records'[k] = records[k]
          /\ records[k] # "Decoding" \/ k # Head(uploads)
    <3>1. CASE DropUpload
      BY <3>1 DEF DropUpload, TypeOK, InFlight
    <3>2. CASE InsertUpload
      BY <3>2 DEF InsertUpload, TypeOK, InFlight
    <3>3. CASE RejectUpload
      BY <3>3 DEF RejectUpload, Evict, TypeOK, InFlight
    <3> QED
      BY <1>5, <3>1, <3>2, <3>3
  <2>3. \A k \in Keys \ {Head(uploads)} : Waiting(k) => Waiting(k)'
    BY <2>1, TailKeeps DEF Waiting, TypeOK
  <2> QED
    BY <2>1, <2>2, <2>3, CarriersKept
<1>6. CASE MarkEvicted
  <2>1. \A k \in Keys : records'[k] \in InFlight => records'[k] = records[k]
    BY <1>6 DEF MarkEvicted, Evict, TypeOK, InFlight
  <2> QED
    BY <1>6, <2>1, CarriersKept DEF MarkEvicted, Waiting
<1>7. CASE Join
  BY <1>7 DEF Join, CarrierInv, NoAbandonedTile, Carried
<1>8. CASE Worker \/ WorkerThrows
  BY <1>8, WorkerKeepsCarriers
<1>9. CASE UNCHANGED vars
  BY <1>9 DEF vars, CarrierInv, NoAbandonedTile, Waiting, Carried
<1> QED
  BY <1>1, <1>2, <1>3, <1>4, <1>5, <1>6, <1>7, <1>8, <1>9
     DEF Next, Main, Exited

(* No record is left in the middle of the pipeline with nobody to move it: *)
(* across cancellations, cache clears between any two steps of the worker, *)
(* rejected uploads and an exception of the worker.                        *)
THEOREM NoTileAbandoned == Spec => []NoAbandonedTile
<1>1. Init => CarrierInv
  BY DEF Init, CarrierInv, NoAbandonedTile, InFlight
<1>2. TypeOK /\ Ownership /\ CarrierInv /\ [Next]_vars => CarrierInv'
  BY CarrierInvStep
<1>3. (CancelInv => TypeOK /\ Ownership) /\ (CarrierInv => NoAbandonedTile)
  BY DEF CancelInv, CarrierInv
<1> QED
  BY <1>1, <1>2, <1>3, CancelInvariant, PTL DEF Spec

-----------------------------------------------------------------------------
(* The inductive invariant behind NoDuplicateWork: the state of a record   *)
(* says where its tile is.  What waits for upload is Decoding, what has a  *)
(* texture is Ready, and the task in hand is neither.                      *)
WorkInv ==
    /\ clearing = "none" /\ workerPc # "clearing"
    /\ mainPc \notin {"clearRecords", "clearUploads", "clearQueue"}
    /\ \A k \in textures \cup evicted : records[k] = "Ready"
    /\ textures \cap evicted = {}
    /\ \A i \in DOMAIN uploads : records[uploads[i]] = "Decoding"
    /\ workerPc \in TaskPcs \ {"retire"} => records[task.key] \in InFlight
    /\ workerPc \in {"decode", "publish", "push"} => records[task.key] = "Decoding"
    /\ NoDuplicateWork

(* A step that leaves the uploads alone, and the records of tiles that     *)
(* wait, have a texture or are in the worker's hands.                      *)
LEMMA WorkKept ==
    ASSUME TypeOK, Ownership, WorkInv, UNCHANGED <<uploads, active, workerPc, task>>,
           clearing' = "none",
           mainPc' \notin {"clearRecords", "clearUploads", "clearQueue"},
           \A k \in textures' \cup evicted' : records'[k] = "Ready",
           textures' \cap evicted' = {},
           \A k \in Keys : records[k] \in InFlight => records'[k] = records[k]
    PROVE  WorkInv'
<1>1. \A i \in DOMAIN uploads : uploads[i] \in Keys
  BY DEF TypeOK
<1>2. workerPc \in TaskPcs => task.key \in Keys
  BY DEF Ownership, Tasks
<1>3. \A i \in DOMAIN uploads : records'[uploads[i]] = "Decoding"
  BY <1>1 DEF WorkInv, InFlight
<1>4. workerPc \in TaskPcs \ {"retire"} => records'[task.key] = records[task.key]
  BY <1>2 DEF WorkInv
<1>5. workerPc \in {"decode", "publish", "push"} => workerPc \in TaskPcs \ {"retire"}
  BY DEF TaskPcs
<1>6. NoDuplicateWork'
  BY DEF WorkInv, NoDuplicateWork
<1>7. workerPc' \in TaskPcs \ {"retire"} => records'[task'.key] \in InFlight
  BY <1>4 DEF WorkInv
<1>8. workerPc' \in {"decode", "publish", "push"} => records'[task'.key] = "Decoding"
  BY <1>4, <1>5 DEF WorkInv
<1> QED
  BY <1>3, <1>6, <1>7, <1>8 DEF WorkInv

(* A step of the worker that leaves uploads and transfer alone.            *)
LEMMA WorkerStays ==
    ASSUME TypeOK, Ownership, WorkInv, UNCHANGED <<uploads, active, mainVars, clearing>>,
           workerPc' # "clearing", workerPc' # "retire" => workerPc # "retire",
           \A k \in Keys : Waiting(k) \/ k \in textures \cup evicted =>
               records'[k] = records[k],
           workerPc' \in TaskPcs \ {"retire"} => records'[task'.key] \in InFlight,
           workerPc' \in {"decode", "publish", "push"} =>
               records'[task'.key] = "Decoding",
           workerPc = "retire" => workerPc' = "retire"
    PROVE  WorkInv'
<1>1. \A i \in DOMAIN uploads : uploads[i] \in Keys /\ Waiting(uploads[i])
  BY DEF TypeOK, Waiting
<1>2. \A i \in DOMAIN uploads : records'[uploads[i]] = "Decoding"
  BY <1>1 DEF WorkInv
<1>3. /\ \A k \in textures' \cup evicted' : records'[k] = "Ready"
      /\ textures' \cap evicted' = {}
  BY DEF WorkInv, TypeOK, mainVars
<1>4. NoDuplicateWork'
  BY DEF WorkInv, NoDuplicateWork
<1>5. clearing' = "none" /\ workerPc' # "clearing"
      /\ mainPc' \notin {"clearRecords", "clearUploads", "clearQueue"}
  BY DEF WorkInv, mainVars
<1> QED
  BY <1>2, <1>3, <1>4, <1>5 DEF WorkInv

(* The worker takes up a tile that waits nowhere, and hands it over once.  *)
LEMMA WorkerWorksOnce ==
    ASSUME TypeOK, Ownership, WorkInv, Worker \/ WorkerThrows
    PROVE  WorkInv'
<1> USE NoTaskAssumption DEF mainVars, workerVars, sharedVars
<1>1. workerPc \in TaskPcs => active # NoTask /\ active = task /\ task.key \in Keys
  BY DEF Ownership, Tasks
<1>2. workerPc \in TaskPcs \ {"retire"} =>
          ~Waiting(task.key) /\ task.key \notin textures \cup evicted
  BY <1>1 DEF WorkInv, NoDuplicateWork, Waiting, InFlight
<1>3. CASE \/ WorkerStart \/ LoopTest \/ TakeSearch \/ SearchDone \/ TakeClear
           \/ ClearDone \/ (\E key \in Keys : Pop(key)) \/ Nap \/ WorkerThrows
  <2>1. /\ UNCHANGED <<records, uploads, active, mainVars>> /\ clearing' = "none"
        /\ workerPc # "retire" /\ workerPc' \notin TaskPcs \cup {"clearing"}
    BY <1>3 DEF WorkerStart, LoopTest, TakeSearch, SearchDone, TakeClear,
          ClearDone, Pop, Nap, WorkerThrows, WorkInv, TaskPcs
  <2>2. workerPc' \notin {"decode", "publish", "push", "retire"}
    BY <2>1 DEF TaskPcs
  <2> QED
    BY <2>1, <2>2, WorkerStays DEF WorkInv
<1>4. CASE Lookup \/ DownloadReturns \/ Judge \/ Charge \/ Decode \/ Publish
  <2>1. /\ UNCHANGED <<records, uploads, active, mainVars, task, clearing>>
        /\ workerPc \in TaskPcs \ {"retire"} /\ workerPc' \in TaskPcs \ {"retire"}
        /\ workerPc' \in {"decode", "publish", "push"} =>
               workerPc \in {"decode", "publish", "push"}
    BY <1>4 DEF Lookup, DownloadReturns, Judge, Charge, Decode, Publish, SettleAs,
                TaskPcs
  <2>2. workerPc' # "clearing" /\ workerPc # "retire" /\ workerPc' # "retire"
    BY <2>1 DEF TaskPcs
  <2> QED
    BY <2>1, <2>2, WorkerStays DEF WorkInv
<1>5. CASE BeginTask
  <2>1. active' = task /\ task \in Tasks /\ task.key \in Keys
        /\ records[task.key] = "Queued" /\ workerPc' = "lookup"
        /\ UNCHANGED <<uploads, mainVars, task, clearing>>
    BY <1>5 DEF BeginTask, Ownership, Tasks
  <2>2. records'[task.key] = "DiskLookup"
        /\ \A k \in Keys \ {task.key} : records'[k] = records[k]
    BY <1>5, <2>1 DEF BeginTask, TypeOK
  <2>3. ~Waiting(task.key) /\ task.key \notin textures \cup evicted
    BY <2>1 DEF WorkInv, Waiting
  <2>4. \A i \in DOMAIN uploads : uploads[i] \in Keys /\ uploads[i] # task.key
    BY <2>3 DEF TypeOK, Waiting
  <2>5. \A i \in DOMAIN uploads : records'[uploads[i]] = "Decoding"
    BY <2>2, <2>4 DEF WorkInv
  <2>6. /\ \A k \in textures' \cup evicted' : records'[k] = "Ready"
        /\ textures' \cap evicted' = {}
    BY <2>1, <2>2, <2>3 DEF WorkInv, TypeOK
  <2>7. NoDuplicateWork'
    BY <2>1, <2>4 DEF WorkInv, NoDuplicateWork
  <2> QED
    BY <2>1, <2>2, <2>5, <2>6, <2>7 DEF WorkInv, InFlight
<1>6. CASE DropTask
  <2>1. workerPc = "begin" /\ workerPc' = "loop"
        /\ UNCHANGED <<uploads, active, mainVars, clearing>>
    BY <1>6 DEF DropTask
  <2>2. \A k \in Keys : records[k] # "Queued" => records'[k] = records[k]
    BY <1>6 DEF DropTask, TypeOK
  <2>3. \A k \in Keys : Waiting(k) \/ k \in textures \cup evicted =>
            records[k] # "Queued"
    BY DEF WorkInv, Waiting
  <2>4. workerPc' \notin TaskPcs /\ workerPc' \notin {"decode", "publish", "push"}
    BY <2>1 DEF TaskPcs
  <2> QED
    BY <2>1, <2>2, <2>3, <2>4, WorkerStays
<1>7. ASSUME NEW pc \in {"startDownload", "downloaded", "startDecode"},
             NEW s \in InFlight, NEW next \in {"download", "startDecode", "decode"},
             next = "decode" => s = "Decoding", Mark(pc, s, next)
      PROVE  WorkInv'
  <2>1. workerPc \in TaskPcs \ {"retire"} /\ workerPc' = next
        /\ UNCHANGED <<uploads, active, mainVars, task, clearing>>
    BY <1>7 DEF Mark, TaskPcs
  <2>2. records'[task.key] = s
        /\ \A k \in Keys \ {task.key} : records'[k] = records[k]
    BY <1>1, <1>7, <2>1 DEF Mark, TypeOK
  <2>3. \A k \in Keys : Waiting(k) \/ k \in textures \cup evicted =>
            records'[k] = records[k]
    BY <1>2, <2>1, <2>2
  <2>4. workerPc' # "clearing" /\ workerPc' # "retire" /\ workerPc # "retire"
        /\ workerPc' \notin {"publish", "push"}
    BY <2>1
  <2> QED
    BY <1>7, <2>1, <2>2, <2>3, <2>4, WorkerStays
<1>8. CASE Push
  <2>1. workerPc = "push" /\ workerPc' = "retire" /\ active = task /\ active' = task
        /\ uploads' = Append(uploads, task.key) /\ task.key \in Keys
        /\ UNCHANGED <<records, mainVars, clearing, task>>
    BY <1>1, <1>8 DEF Push, TaskPcs
  <2>2. ~Waiting(task.key) /\ records[task.key] = "Decoding"
    BY <1>2, <2>1 DEF TaskPcs, WorkInv
  <2> DEFINE n == Len(uploads)
  <2>3. n \in Nat /\ DOMAIN uploads = 1..n /\ DOMAIN uploads' = 1..n + 1
        /\ uploads'[n + 1] = task.key
        /\ \A i \in 1..n : uploads'[i] = uploads[i]
    BY <2>1 DEF TypeOK
  <2> HIDE DEF n
  <2>4. \A i \in DOMAIN uploads' : records'[uploads'[i]] = "Decoding"
    BY <2>1, <2>2, <2>3 DEF WorkInv
  <2>5. \A i, j \in DOMAIN uploads' : uploads'[i] = uploads'[j] => i = j
    BY <2>2, <2>3 DEF WorkInv, NoDuplicateWork, Waiting
  <2>6. NoDuplicateWork'
    BY <2>1, <2>5 DEF NoDuplicateWork
  <2> QED
    BY <2>1, <2>4, <2>6 DEF WorkInv
<1>9. CASE Settle
  <2>1. workerPc = "settle" /\ workerPc' = "retire"
        /\ UNCHANGED <<uploads, active, mainVars, task, clearing>>
    BY <1>9 DEF Settle
  <2>2. \A k \in Keys \ {task.key} : records'[k] = records[k]
    BY <1>9 DEF Settle, TypeOK
  <2>3. \A k \in Keys : Waiting(k) \/ k \in textures \cup evicted =>
            records'[k] = records[k]
    BY <1>2, <2>1, <2>2 DEF TaskPcs
  <2> QED
    BY <2>1, <2>3, WorkerStays
<1>10. CASE Retire
  <2>1. active' = NoTask /\ workerPc' = "loop"
        /\ UNCHANGED <<records, uploads, mainVars, clearing>>
    BY <1>10 DEF Retire
  <2> QED
    BY <2>1 DEF WorkInv, NoDuplicateWork, TaskPcs
<1> QED
  BY <1>3, <1>4, <1>5, <1>6, <1>7, <1>8, <1>9, <1>10
     DEF Worker, WorkerThrows, InFlight

(* An upload that is taken from the queue leaves no second one behind.     *)
LEMMA UploadTakenOnce ==
    ASSUME TypeOK, Ownership, WorkInv, DropUpload \/ InsertUpload \/ RejectUpload
    PROVE  WorkInv'
<1> USE DEF mainVars, workerVars, sharedVars
<1> DEFINE head == Head(uploads)
           n == Len(uploads)
<1>1. /\ uploads # <<>> /\ uploads' = Tail(uploads) /\ uploads \in Seq(Keys)
      /\ mainPc' \in {"pump", "markEvicted"}
      /\ UNCHANGED <<active, workerPc, task, clearing>>
  BY DEF DropUpload, InsertUpload, RejectUpload, TypeOK
<1>2. /\ head \in Keys /\ uploads[1] = head /\ n \in Nat \ {0}
      /\ DOMAIN uploads = 1..n /\ DOMAIN uploads' = 1..n - 1
      /\ \A i \in 1..n - 1 : uploads'[i] = uploads[i + 1]
  BY <1>1
<1>3. records[head] = "Decoding" /\ head \notin textures \cup evicted
  BY <1>2 DEF WorkInv
<1>4. /\ \A k \in Keys \ {head} : records'[k] = records[k]
      /\ textures' \subseteq textures \cup {head}
      /\ evicted' \subseteq textures \cup evicted
      /\ head \in textures' => records'[head] = "Ready"
      /\ textures' \cap evicted' = {}
  <2>1. CASE DropUpload
    BY <1>3, <2>1 DEF DropUpload, TypeOK, WorkInv
  <2>2. CASE InsertUpload
    <3>1. PICK victims \in Victims(head) :
              textures' = (textures \ victims) \cup {head} /\ evicted' = victims
      BY <2>2 DEF InsertUpload
    <3>2. victims \subseteq textures
      BY DEF Victims
    <3>3. records'[head] = "Ready" /\ \A k \in Keys \ {head} : records'[k] = records[k]
      BY <1>2, <2>2 DEF InsertUpload, TypeOK
    <3> QED
      BY <1>3, <3>1, <3>2, <3>3
  <2>3. CASE RejectUpload
    <3>1. /\ evicted' \subseteq textures /\ textures' \subseteq textures
          /\ textures' \cap evicted' = {}
      BY <2>3 DEF RejectUpload, Victims
    <3>2. \A k \in Keys \ {head} : records'[k] = records[k]
      BY <2>3 DEF RejectUpload, Evict, TypeOK
    <3> QED
      BY <1>3, <3>1, <3>2
  <2> QED
    BY <2>1, <2>2, <2>3
<1> HIDE DEF head, n
<1>5. textures \cup evicted \subseteq Keys
  BY DEF TypeOK
<1>6. /\ \A k \in textures' \cup evicted' : records'[k] = "Ready"
      /\ textures' \cap evicted' = {}
  BY <1>3, <1>4, <1>5 DEF WorkInv
<1>7. \A i \in 1..n - 1 : i + 1 \in 1..n /\ 1 \in 1..n /\ i + 1 # 1
  BY <1>2
<1>8. \A i \in 1..n - 1 : uploads'[i] \in Keys /\ uploads'[i] # head
                          /\ records[uploads'[i]] = "Decoding"
  <2>1. \A i \in 1..n : uploads[i] \in Keys
    BY <1>1, <1>2
  <2>2. /\ \A i \in 1..n : records[uploads[i]] = "Decoding"
        /\ \A i, j \in 1..n : uploads[i] = uploads[j] => i = j
    BY <1>2 DEF WorkInv, NoDuplicateWork
  <2> QED
    BY <1>2, <1>7, <2>1, <2>2
<1>9. \A i \in DOMAIN uploads' : records'[uploads'[i]] = "Decoding"
  BY <1>2, <1>4, <1>8
<1>10. workerPc \in TaskPcs \ {"retire"} => records'[task.key] = records[task.key]
  <2>1. workerPc \in TaskPcs \ {"retire"} =>
            active # NoTask /\ active.key = task.key /\ task.key \in Keys
    BY NoTaskAssumption DEF Ownership, Tasks
  <2>2. workerPc \in TaskPcs \ {"retire"} => task.key # head
    BY <1>2, <1>7, <2>1 DEF WorkInv, NoDuplicateWork
  <2> QED
    BY <1>4, <2>1, <2>2
<1>11. NoDuplicateWork'
  <2>1. \A i, j \in 1..n - 1 : uploads'[i] = uploads'[j] => i = j
    <3> SUFFICES ASSUME NEW i \in 1..n - 1, NEW j \in 1..n - 1, uploads'[i] = uploads'[j]
                 PROVE  i = j
      OBVIOUS
    <3>1. i + 1 = j + 1
      BY <1>2, <1>7 DEF WorkInv, NoDuplicateWork
    <3> QED
      BY <1>2, <3>1
  <2>2. ASSUME NEW i \in 1..n - 1, active # NoTask, active.key = uploads'[i]
        PROVE  workerPc = "retire"
    BY <1>2, <1>7, <2>2 DEF WorkInv, NoDuplicateWork
  <2> QED
    BY <1>1, <1>2, <2>1, <2>2 DEF NoDuplicateWork
<1>12. workerPc \in {"decode", "publish", "push"} => workerPc \in TaskPcs \ {"retire"}
  BY DEF TaskPcs
<1> QED
  BY <1>1, <1>6, <1>9, <1>10, <1>11, <1>12 DEF WorkInv

(* No step lets a tile into the pipeline that is already in it.            *)
LEMMA WorkInvStep ==
    ASSUME "clear" \notin UserActions, TypeOK, Ownership, WorkInv, [Next]_vars
    PROVE  WorkInv'
<1> USE DEF mainVars, workerVars, sharedVars
<1>1. ASSUME NEW next \in Screens, NEW request \in SUBSET Keys,
             NEW due \in SUBSET Keys, NEW collect \in BOOLEAN,
             NEW onScreen \in SUBSET request,
             Submit(next, request, onScreen, due, collect)
      PROVE  WorkInv'
  <2>1. \A k \in Keys : records[k] \in InFlight \cup {"Ready"} =>
            records'[k] = records[k]
    BY <1>1 DEF Submit, Requeued, InFlight
  <2>2. UNCHANGED <<uploads, active, workerPc, task, textures, evicted, clearing>>
        /\ mainPc' = "replace"
    BY <1>1 DEF Submit
  <2> QED
    BY <2>1, <2>2, WorkKept DEF WorkInv, TypeOK
<1>2. CASE DropUpload \/ InsertUpload \/ RejectUpload
  BY <1>2, UploadTakenOnce
<1>3. CASE MarkEvicted
  <2>1. \A k \in Keys : records[k] \in InFlight => records'[k] = records[k]
    BY <1>3 DEF MarkEvicted, Evict, WorkInv, InFlight
  <2>2. \A k \in textures : records'[k] = "Ready"
    BY <1>3 DEF MarkEvicted, WorkInv, TypeOK
  <2>3. UNCHANGED <<uploads, active, workerPc, task, textures, clearing>>
        /\ mainPc' = "pump" /\ evicted' = {}
    BY <1>3 DEF MarkEvicted
  <2> QED
    BY <2>1, <2>2, <2>3, WorkKept DEF WorkInv
<1>4. CASE \/ PollSearch \/ PollClear \/ RequestSearch \/ RequestClear
           \/ PreemptTransfer \/ ClearRecords \/ ClearUploads \/ ClearQueue
           \/ Replace \/ EndFrame \/ Stop \/ StopCancel \/ StopQueue
  <2>1. /\ UNCHANGED <<records, uploads, active, workerPc, task, textures, evicted>>
        /\ mainPc' \notin {"clearRecords", "clearUploads", "clearQueue"}
        /\ clearing' = "none"
    BY <1>4 DEF PollSearch, PollClear, RequestSearch, RequestClear,
          PreemptTransfer, ClearRecords, ClearUploads, ClearQueue, Replace,
          EndFrame, Stop, StopCancel, StopQueue, WorkInv
  <2> QED
    BY <2>1, WorkKept DEF WorkInv
<1>5. CASE Join
  BY <1>5 DEF Join, WorkInv, NoDuplicateWork
<1>6. CASE Worker \/ WorkerThrows
  BY <1>6, WorkerWorksOnce
<1>7. CASE UNCHANGED vars
  BY <1>7 DEF vars, WorkInv, NoDuplicateWork
<1> QED
  BY <1>1, <1>2, <1>3, <1>4, <1>5, <1>6, <1>7 DEF Next, Main, Exited

(* Worker and render thread agree through the state of the record alone:   *)
(* without cache clears no tile is downloaded, decoded or queued for       *)
(* upload twice, with any number of tiles and an exception of the worker.  *)
THEOREM NothingTwice ==
    ASSUME "clear" \notin UserActions
    PROVE  Spec => []NoDuplicateWork
<1>1. Init => WorkInv
  BY DEF Init, WorkInv, NoDuplicateWork, TaskPcs
<1>2. TypeOK /\ Ownership /\ WorkInv /\ [Next]_vars => WorkInv'
  BY WorkInvStep
<1>3. (CancelInv => TypeOK /\ Ownership) /\ (WorkInv => NoDuplicateWork)
  BY DEF CancelInv, WorkInv
<1> QED
  BY <1>1, <1>2, <1>3, CancelInvariant, PTL DEF Spec

-----------------------------------------------------------------------------
(* Which stage of the pipeline the record of the task in hand is in.       *)
StageInv ==
    /\ workerPc \in {"lookup", "startDownload"} => records[task.key] = "DiskLookup"
    /\ workerPc \in {"download", "judge", "charge", "downloaded"} =>
           records[task.key] = "Downloading"
    /\ workerPc = "startDecode" => records[task.key] \in {"DiskLookup", "Downloaded"}

(* The render thread leaves the record of a tile alone that is in the      *)
(* pipeline and does not wait for upload.                                  *)
LEMMA InFlightStays ==
    ASSUME "clear" \notin UserActions, TypeOK, WorkInv, Main, NEW k \in Keys,
           records[k] \in InFlight, ~Waiting(k)
    PROVE  records'[k] = records[k]
<1>1. ASSUME NEW next \in Screens, NEW request \in SUBSET Keys,
             NEW due \in SUBSET Keys, NEW collect \in BOOLEAN,
             NEW onScreen \in SUBSET request,
             Submit(next, request, onScreen, due, collect)
      PROVE  records'[k] = records[k]
  BY <1>1 DEF Submit, Requeued, InFlight
<1>2. CASE DropUpload \/ InsertUpload \/ RejectUpload
  <2>1. uploads # <<>> /\ uploads \in Seq(Keys)
    BY <1>2 DEF DropUpload, InsertUpload, RejectUpload, TypeOK
  <2>2. 1 \in DOMAIN uploads /\ uploads[1] = Head(uploads)
    BY <2>1
  <2>3. Head(uploads) # k
    BY <2>2 DEF Waiting
  <2> QED
    BY <1>2, <2>3 DEF DropUpload, InsertUpload, RejectUpload, Evict, TypeOK
<1>3. CASE MarkEvicted
  BY <1>3 DEF MarkEvicted, WorkInv, InFlight
<1>4. CASE \/ PollSearch \/ PollClear \/ RequestSearch \/ RequestClear
           \/ PreemptTransfer \/ ClearRecords \/ ClearUploads \/ ClearQueue
           \/ Replace \/ EndFrame \/ Stop \/ StopCancel \/ StopQueue \/ Join
  BY <1>4 DEF PollSearch, PollClear, RequestSearch, RequestClear, PreemptTransfer,
        ClearRecords, ClearUploads, ClearQueue, Replace, EndFrame, Stop,
        StopCancel, StopQueue, Join, WorkInv, sharedVars
<1> QED
  BY <1>1, <1>2, <1>3, <1>4 DEF Main

(* Worker and record agree on the stage after every step.                  *)
LEMMA StageStep ==
    ASSUME "clear" \notin UserActions, TypeOK, Ownership, WorkInv, StageInv,
           [Next]_vars
    PROVE  StageInv'
<1> USE DEF mainVars, workerVars, sharedVars
<1> DEFINE key == task.key
<1>1. workerPc \in TaskPcs => active # NoTask /\ active = task /\ key \in Keys
  BY NoTaskAssumption DEF Ownership, Tasks
<1>2. CASE Main
  <2>1. UNCHANGED <<workerPc, task>>
    BY <1>2 DEF Main, PollSearch, PollClear, RequestSearch, RequestClear,
          PreemptTransfer, ClearRecords, ClearUploads, ClearQueue, Submit, Replace,
          DropUpload, InsertUpload, RejectUpload, MarkEvicted, EndFrame, Stop,
          StopCancel, StopQueue, Join
  <2>2. CASE workerPc \in TaskPcs \ {"retire"}
    <3>1. ~Waiting(key) /\ key \in Keys /\ records[key] \in InFlight
      BY <1>1, <2>2 DEF WorkInv, NoDuplicateWork, Waiting
    <3>2. records'[key] = records[key]
      BY <1>2, <3>1, InFlightStays
    <3> QED
      BY <2>1, <3>2 DEF StageInv
  <2>3. CASE workerPc \notin TaskPcs \ {"retire"}
    BY <2>1, <2>3 DEF StageInv, TaskPcs
  <2> QED
    BY <2>2, <2>3
<1>3. CASE \/ WorkerStart \/ LoopTest \/ TakeSearch \/ SearchDone \/ TakeClear
           \/ ClearDone \/ (\E k \in Keys : Pop(k)) \/ Nap \/ DropTask \/ Decode
           \/ Publish \/ Push \/ Settle \/ Retire \/ Charge \/ WorkerThrows
  BY <1>3 DEF WorkerStart, LoopTest, TakeSearch, SearchDone, TakeClear, ClearDone,
        Pop, Nap, DropTask, Decode, Publish, Push, Settle, Retire, Charge,
        WorkerThrows, SettleAs, StageInv
<1>4. CASE Lookup \/ DownloadReturns \/ Judge
  BY <1>4 DEF Lookup, DownloadReturns, Judge, SettleAs, StageInv
<1>5. CASE BeginTask
  <2>1. key \in Keys /\ workerPc' = "lookup" /\ task' = task
    BY <1>5 DEF BeginTask, Ownership, Tasks
  <2> QED
    BY <1>5, <2>1 DEF BeginTask, TypeOK, StageInv
<1>6. ASSUME NEW pc, NEW s, NEW next,
             \/ pc = "startDownload" /\ s = "Downloading" /\ next = "download"
             \/ pc = "downloaded" /\ s = "Downloaded" /\ next = "startDecode"
             \/ pc = "startDecode" /\ s = "Decoding" /\ next = "decode",
             Mark(pc, s, next)
      PROVE  StageInv'
  <2>1. key \in Keys /\ workerPc = pc /\ workerPc' = next /\ task' = task
    BY <1>1, <1>6 DEF Mark, TaskPcs
  <2>2. records'[key] = s
    BY <1>6, <2>1 DEF Mark, TypeOK
  <2> QED
    BY <1>6, <2>1, <2>2 DEF StageInv
<1>7. CASE UNCHANGED vars
  BY <1>7 DEF vars, StageInv
<1> QED
  BY <1>2, <1>3, <1>4, <1>5, <1>6, <1>7 DEF Next, Worker, Exited

(* Every change of a record follows an edge of the diagram.                *)
LEMMA EdgeTaken ==
    ASSUME TypeOK, Ownership, WorkInv, StageInv, [Next]_vars,
           NEW k \in Keys, records'[k] # records[k]
    PROVE  <<records[k], records'[k]>> \in LifecycleEdges
<1> USE DEF mainVars, workerVars, sharedVars
<1> DEFINE Edge == <<records[k], records'[k]>> \in LifecycleEdges
<1>1. records[k] \in TileStates
  BY DEF TypeOK
<1>2. records'[k] = "Missing" => Edge
  BY <1>1 DEF LifecycleEdges
<1>3. ASSUME NEW next \in Screens, NEW request \in SUBSET Keys,
             NEW due \in SUBSET Keys, NEW collect \in BOOLEAN,
             NEW onScreen \in SUBSET request,
             Submit(next, request, onScreen, due, collect)
      PROVE  Edge
  <2>1. \/ records'[k] = "Missing"
        \/ records[k] \in {"Missing", "Failed"} /\ records'[k] = "Queued"
    BY <1>3 DEF Submit, Requeued
  <2> QED
    BY <1>2, <2>1 DEF LifecycleEdges
<1>4. CASE DropUpload \/ RejectUpload \/ MarkEvicted \/ ClearRecords \/ DropTask
  BY <1>2, <1>4 DEF DropUpload, RejectUpload, MarkEvicted, ClearRecords, DropTask,
                    Evict, TypeOK
<1>5. CASE InsertUpload
  <2>1. uploads # <<>> /\ uploads \in Seq(Keys)
    BY <1>5 DEF InsertUpload, TypeOK
  <2>2. 1 \in DOMAIN uploads /\ uploads[1] = Head(uploads)
    BY <2>1
  <2>3. records[Head(uploads)] = "Decoding"
    BY <2>2 DEF WorkInv
  <2>4. k = Head(uploads) /\ records'[k] = "Ready"
    BY <1>5 DEF InsertUpload, TypeOK
  <2> QED
    BY <2>3, <2>4 DEF LifecycleEdges
<1>6. CASE BeginTask
  BY <1>6 DEF BeginTask, TypeOK, LifecycleEdges
<1>7. ASSUME NEW pc, NEW s, NEW next,
             \/ pc = "startDownload" /\ s = "Downloading"
             \/ pc = "downloaded" /\ s = "Downloaded"
             \/ pc = "startDecode" /\ s = "Decoding",
             Mark(pc, s, next)
      PROVE  Edge
  <2>1. k = task.key /\ records'[k] = s /\ workerPc = pc
    BY <1>7 DEF Mark, TypeOK
  <2> QED
    BY <1>7, <2>1 DEF StageInv, LifecycleEdges
<1>8. CASE Settle
  <2>1. k = task.key /\ records'[k] \in {"Missing", "Failed"} /\ workerPc = "settle"
    BY <1>8 DEF Settle, TypeOK
  <2>2. records[k] \in InFlight
    BY <2>1 DEF WorkInv, TaskPcs
  <2> QED
    BY <1>2, <2>1, <2>2 DEF LifecycleEdges
<1>9. CASE \/ PollSearch \/ PollClear \/ RequestSearch \/ RequestClear
           \/ PreemptTransfer \/ ClearUploads \/ ClearQueue
           \/ Replace \/ EndFrame \/ Stop \/ StopCancel \/ StopQueue \/ Join
  BY <1>9 DEF PollSearch, PollClear, RequestSearch, RequestClear, PreemptTransfer,
        ClearUploads, ClearQueue, Replace, EndFrame, Stop, StopCancel, StopQueue, Join
<1>10. CASE \/ WorkerStart \/ LoopTest \/ TakeSearch \/ SearchDone \/ TakeClear
           \/ ClearDone \/ (\E key \in Keys : Pop(key)) \/ Nap \/ Decode
           \/ Publish \/ Push \/ Retire \/ Charge \/ WorkerThrows
           \/ Lookup \/ DownloadReturns \/ Judge
  BY <1>10 DEF WorkerStart, LoopTest, TakeSearch, SearchDone, TakeClear, ClearDone,
        Pop, Nap, Decode, Publish, Push, Retire, Charge,
        WorkerThrows, Lookup, DownloadReturns, Judge
<1> QED
  BY <1>3, <1>4, <1>5, <1>6, <1>7, <1>8, <1>9, <1>10
     DEF Next, Main, Worker, Exited, vars

(* Without cache clears the records move as the architecture document      *)
(* draws it, whatever searches, screens and exceptions come in between.    *)
THEOREM RecordsFollowDiagram ==
    ASSUME "clear" \notin UserActions
    PROVE  Spec => DocumentedLifecycle
<1>1. Init => WorkInv /\ StageInv
  BY DEF Init, WorkInv, StageInv, NoDuplicateWork, TaskPcs
<1>2. TypeOK /\ Ownership /\ WorkInv /\ StageInv /\ [Next]_vars => WorkInv' /\ StageInv'
  BY WorkInvStep, StageStep
<1>3. CancelInv => TypeOK /\ Ownership
  BY DEF CancelInv
<1>4. TypeOK /\ Ownership /\ WorkInv /\ StageInv /\ [Next]_vars =>
          [\A k \in Keys : records'[k] # records[k] =>
              <<records[k], records'[k]>> \in LifecycleEdges]_records
  BY EdgeTaken
<1> QED
  BY <1>1, <1>2, <1>3, <1>4, CancelInvariant, PTL DEF Spec, DocumentedLifecycle
=============================================================================
