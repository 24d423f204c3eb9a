--------------------------- MODULE TileCachesProofs ---------------------------
(***************************************************************************)
(* Theorems about TileCaches, for any tiles, styles, payloads, budgets and *)
(* refusals of the card.                                                   *)
(***************************************************************************)
EXTENDS TileCaches, SequenceFacts

Saving == {"clean", "open", "fill", "reserve", "evict", "replace", "rename"}
Complete == {"reserve", "evict", "replace", "rename"}

(* The memory cache holds images that decode.                              *)
Decoded(m) ==
    /\ m = [lru |-> m.lru, entries |-> m.entries, used |-> m.used]
    /\ DOMAIN m.entries \subseteq Keys
    /\ \A k \in DOMAIN m.entries : m.entries[k] \in Payloads

MemoryOK == Decoded(memory)

(* Every folder holds whole files of its own style.                        *)
DiskOK ==
    /\ disk \in [Styles -> Seq(Files)]
    /\ \A s \in Styles : \A i \in 1..Len(disk[s]) : Style(disk[s][i].key) = s

(* A write has a tile and an image, and what it renames is this image;     *)
(* between the writes there are none.                                      *)
WriteOK ==
    /\ data # Nothing => key \in Keys /\ data \in Payloads
    /\ data = Nothing => key = Nothing
    /\ pc \in {"idle", "scan", "enforce", "clear"} => data = Nothing
    /\ pc \in Saving => data # Nothing
    /\ parts \in [Keys -> Payloads \cup {Partial, Nothing}]
    /\ pc \in Complete => parts[key] = data

(* A write makes room among the tiles of its own style.                    *)
EvictionOK ==
    /\ todo \in Seq(Keys) /\ scans \subseteq Styles
    /\ pc = "evict" => \A i \in 1..Len(todo) : Style(todo[i]) = Style(key)

CacheInv == MemoryOK /\ DiskOK /\ WriteOK /\ EvictionOK

-----------------------------------------------------------------------------
(* What is left when a file is taken out was there before.                 *)
LEMMA OtherKeysAreThere ==
    ASSUME NEW files \in Seq(Files), NEW k
    PROVE  /\ OtherKeys(files, k) \in Seq(Files)
           /\ \A i \in 1..Len(OtherKeys(files, k)) :
                  \E j \in 1..Len(files) : OtherKeys(files, k)[i] = files[j]
<1>1. CASE ~Has(files, k)
  BY <1>1 DEF OtherKeys
<1>2. CASE Has(files, k)
  <2> DEFINE n == Position(files, k)
  <2>1. n \in 1..Len(files) /\ Len(files) \in Nat
    BY <1>2, LenProperties DEF Has, Position
  <2>2. OtherKeys(files, k) = RemoveAt(files, n)
    BY <1>2 DEF OtherKeys
  <2> HIDE DEF n
  <2>3. /\ RemoveAt(files, n) \in Seq(Files)
        /\ Len(RemoveAt(files, n)) = Len(files) - 1
        /\ \A i \in 1..Len(files) - 1 :
               RemoveAt(files, n)[i] = IF i < n THEN files[i] ELSE files[i + 1]
    BY <2>1, RemovedAt
  <2>4. \A i \in 1..Len(files) - 1 : i \in 1..Len(files) /\ i + 1 \in 1..Len(files)
    BY <2>1
  <2> QED
    BY <2>2, <2>3, <2>4
<1> QED
  BY <1>1, <1>2

(* The file that is found under a key is one of the files.                 *)
LEMMA FileIsThere ==
    ASSUME DiskOK, NEW k \in Keys, Stored(k)
    PROVE  /\ File(k) \in Files
           /\ File(k).key = k
           /\ \E j \in 1..Len(disk[Style(k)]) : File(k) = disk[Style(k)][j]
<1>1. disk[Style(k)] \in Seq(Files)
  BY DEF DiskOK, Styles
<1>2. Position(disk[Style(k)], k) \in 1..Len(disk[Style(k)])
      /\ disk[Style(k)][Position(disk[Style(k)], k)].key = k
  BY DEF Stored, Has, Position
<1> QED
  BY <1>1, <1>2, ElementOfSeq DEF File

-----------------------------------------------------------------------------
(* What a lookup finds in memory and on the card.                          *)
InMemory(m, k, p) == Cached(m, k) /\ m.entries[k] = p
OnCard(d, k, p) ==
    \E i \in 1..Len(d[Style(k)]) : d[Style(k)][i] = [key |-> k, data |-> p]

(* Nothing is found after the step that was not found before it.           *)
Shrinks == \A k \in Keys : \A p :
               InMemory(memory', k, p) \/ OnCard(disk', k, p)
                 => InMemory(memory, k, p) \/ OnCard(disk, k, p)

(* A step that adds nothing to the files keeps them whole and apart.       *)
LEMMA FewerFiles ==
    ASSUME DiskOK, NEW s \in Styles, NEW files \in Seq(Files),
           \A i \in 1..Len(files) : \E j \in 1..Len(disk[s]) : files[i] = disk[s][j],
           disk' = [disk EXCEPT ![s] = files]
    PROVE  /\ DiskOK'
           /\ \A k \in Keys : \A p : OnCard(disk', k, p) => OnCard(disk, k, p)
           /\ \A t \in Styles \ {s} : disk'[t] = disk[t]
<1>1. disk'[s] = files /\ \A t \in Styles \ {s} : disk'[t] = disk[t]
  BY DEF DiskOK
<1>2. disk' \in [Styles -> Seq(Files)]
  BY DEF DiskOK
<1>3. ASSUME NEW t \in Styles, NEW i \in 1..Len(disk'[t])
      PROVE  \E j \in 1..Len(disk[t]) : disk'[t][i] = disk[t][j]
  BY <1>1, <1>3
<1>4. DiskOK'
  BY <1>2, <1>3 DEF DiskOK
<1>5. \A k \in Keys : \A p : OnCard(disk', k, p) => OnCard(disk, k, p)
  BY <1>3 DEF OnCard, Styles
<1> QED
  BY <1>1, <1>4, <1>5

(* Removing a file of the card.                                            *)
LEMMA RemovalKeeps ==
    ASSUME DiskOK, NEW k \in Keys, RemoveFile(k)
    PROVE  /\ DiskOK'
           /\ \A l \in Keys : \A p : OnCard(disk', l, p) => OnCard(disk, l, p)
           /\ \A t \in Styles \ {Style(k)} : disk'[t] = disk[t]
<1>1. Style(k) \in Styles /\ disk[Style(k)] \in Seq(Files)
  BY DEF DiskOK, Styles
<1>2. disk' = [disk EXCEPT ![Style(k)] = OtherKeys(disk[Style(k)], k)]
  BY DEF RemoveFile
<1> QED
  BY <1>1, <1>2, OtherKeysAreThere, FewerFiles

(* Setting the time of access of a file moves it, and adds nothing.        *)
LEMMA AccessKeeps ==
    ASSUME DiskOK, NEW k \in Keys, Stored(k),
           disk' = [disk EXCEPT ![Style(k)] = Append(OtherKeys(@, k), File(k))]
    PROVE  /\ DiskOK'
           /\ \A l \in Keys : \A p : OnCard(disk', l, p) => OnCard(disk, l, p)
<1> DEFINE rest == OtherKeys(disk[Style(k)], k)
           moved == Append(rest, File(k))
<1>1. Style(k) \in Styles /\ disk[Style(k)] \in Seq(Files)
  BY DEF DiskOK, Styles
<1>2. /\ rest \in Seq(Files)
      /\ \A i \in 1..Len(rest) : \E j \in 1..Len(disk[Style(k)]) :
             rest[i] = disk[Style(k)][j]
  BY <1>1, OtherKeysAreThere
<1>3. File(k) \in Files
      /\ \E j \in 1..Len(disk[Style(k)]) : File(k) = disk[Style(k)][j]
  BY FileIsThere
<1>4. disk' = [disk EXCEPT ![Style(k)] = moved]
  OBVIOUS
<1> HIDE DEF rest
<1>5. /\ moved \in Seq(Files) /\ Len(moved) = Len(rest) + 1 /\ Len(rest) \in Nat
      /\ \A i \in 1..Len(rest) : moved[i] = rest[i]
      /\ moved[Len(rest) + 1] = File(k)
  BY <1>2, <1>3, AppendProperties, LenProperties
<1> HIDE DEF moved
<1>6. \A i \in 1..Len(moved) : \E j \in 1..Len(disk[Style(k)]) :
          moved[i] = disk[Style(k)][j]
  <2>1. \A i \in 1..Len(moved) : i \in 1..Len(rest) \/ i = Len(rest) + 1
    BY <1>5
  <2> QED
    BY <1>2, <1>3, <1>5, <2>1
<1> QED
  BY <1>1, <1>4, <1>5, <1>6, FewerFiles

(* Touching a key leaves the entries alone.                                *)
LEMMA TouchKeeps ==
    ASSUME NEW m, Decoded(m), NEW k
    PROVE  Decoded(Touch(m, k)) /\ Touch(m, k).entries = m.entries
<1> DEFINE moved == <<k>> \o RemoveFirst(m.lru, k)
<1>1. Touch(m, k) = [m EXCEPT !.lru = moved]
  BY DEF Touch
<1> HIDE DEF moved
<1> QED
  BY <1>1 DEF Decoded

(* Putting a payload adds at most this payload, and under its key.         *)
LEMMA PutKeeps ==
    ASSUME NEW m, Decoded(m), NEW k \in Keys, NEW p \in Payloads
    PROVE  /\ Decoded(Put(m, k, p))
           /\ \A q : InMemory(Put(m, k, p), k, q) => InMemory(m, k, q) \/ q = p
           /\ \A l \in Keys \ {k} : \A q :
                  InMemory(Put(m, k, p), l, q) <=> InMemory(m, l, q)
<1>1. CASE Size(p) = 0 \/ Size(p) > MemoryBudget
  BY <1>1 DEF Put
<1>2. CASE ~(Size(p) = 0 \/ Size(p) > MemoryBudget)
  <2> DEFINE entries == [other \in DOMAIN m.entries \cup {k} |->
                            IF other = k THEN p ELSE m.entries[other]]
  <2>1. \E l, u : Put(m, k, p) = [lru |-> l, entries |-> entries, used |-> u]
    BY <1>2 DEF Put
  <2> QED
    BY <2>1 DEF Decoded, InMemory, Cached
<1> QED
  BY <1>1, <1>2

(* A round of trim only takes entries away.                                *)
LEMMA DropKeeps ==
    ASSUME NEW m, Decoded(m)
    PROVE  /\ Decoded(DropOldest(m))
           /\ \A k \in Keys : \A q : InMemory(DropOldest(m), k, q) => InMemory(m, k, q)
BY DEF Decoded, DropOldest, InMemory, Cached

(* After a clear or a restart nothing is in memory.                        *)
LEMMA NothingInMemory ==
    Decoded(NoMemory) /\ \A k \in Keys : \A q : ~InMemory(NoMemory, k, q)
BY DEF Decoded, NoMemory, InMemory, Cached

-----------------------------------------------------------------------------
(* One payload more is found than before, and only for its tile.           *)
Adds(k, p) ==
    /\ \A q : InMemory(memory', k, q) \/ OnCard(disk', k, q)
                => InMemory(memory, k, q) \/ OnCard(disk, k, q) \/ q = p
    /\ \A l \in Keys \ {k} : \A q :
           InMemory(memory', l, q) \/ OnCard(disk', l, q)
             <=> InMemory(memory, l, q) \/ OnCard(disk, l, q)

(* What the caches hold after a step that adds nothing.                    *)
Forgetting == MemoryOK' /\ DiskOK' /\ Shrinks

(* A step that removes a file and leaves the memory alone.                 *)
LEMMA RemovalHolds ==
    ASSUME CacheInv, UNCHANGED memory, NEW k \in Keys, RemoveFile(k)
    PROVE  Forgetting
BY RemovalKeeps DEF CacheInv, MemoryOK, Shrinks, Forgetting

(* A step that touches neither.                                            *)
LEMMA RestHolds ==
    ASSUME CacheInv, UNCHANGED <<memory, disk>>
    PROVE  Forgetting
BY DEF CacheInv, MemoryOK, DiskOK, Shrinks, Forgetting

(* A lookup keeps in memory what it found on the card.                     *)
LEMMA FetchHolds ==
    ASSUME CacheInv, NEW k \in Keys, FetchFromMemory(k) \/ FetchFromDisk(k)
    PROVE  Forgetting
<1>1. CASE FetchFromMemory(k)
  <2>1. Decoded(Touch(memory, k)) /\ Touch(memory, k).entries = memory.entries
    BY TouchKeeps DEF CacheInv, MemoryOK
  <2>2. memory.entries[k] \in Payloads /\ InMemory(memory, k, memory.entries[k])
    BY <1>1 DEF FetchFromMemory, CacheInv, MemoryOK, Decoded, Cached, InMemory
  <2>3. \A l \in Keys : \A q : InMemory(Touch(memory, k), l, q) <=> InMemory(memory, l, q)
    BY <2>1 DEF InMemory, Cached
  <2>4. UNCHANGED disk /\ DiskOK'
    BY <1>1 DEF FetchFromMemory, CacheInv, DiskOK
  <2>5. CASE memory' = Touch(memory, k)
    BY <2>1, <2>3, <2>4, <2>5 DEF Forgetting, Shrinks, MemoryOK
  <2>6. CASE memory' = Put(Touch(memory, k), k, memory.entries[k])
    BY <2>1, <2>2, <2>3, <2>4, <2>6, PutKeeps DEF Forgetting, Shrinks, MemoryOK
  <2> QED
    BY <1>1, <2>5, <2>6 DEF FetchFromMemory
<1>2. CASE FetchFromDisk(k)
  <2>1. Stored(k) /\ k \in Keys /\ DiskOK /\ MemoryOK /\ Style(k) \in Styles
    BY <1>2 DEF FetchFromDisk, Readable, CacheInv, Styles
  <2>2. \/ disk' = disk
        \/ disk' = [disk EXCEPT ![Style(k)] = Append(OtherKeys(@, k), File(k))]
        \/ RemoveFile(k)
    BY <1>2 DEF FetchFromDisk
  <2>3. DiskOK' /\ \A l \in Keys : \A q : OnCard(disk', l, q) => OnCard(disk, l, q)
    <3>1. CASE disk' = disk
      BY <2>1, <3>1 DEF DiskOK
    <3>2. CASE disk' = [disk EXCEPT ![Style(k)] = Append(OtherKeys(@, k), File(k))]
      BY <2>1, <3>2, AccessKeeps
    <3>3. CASE RemoveFile(k)
      BY <2>1, <3>3, RemovalKeeps
    <3> QED
      BY <2>2, <3>1, <3>2, <3>3
  <2>4. CASE memory' = memory
    BY <2>1, <2>3, <2>4 DEF MemoryOK, Forgetting, Shrinks
  <2>5. CASE Decodes(File(k).data) /\ memory' = Put(memory, k, File(k).data)
    <3>1. File(k).data \in Payloads /\ OnCard(disk, k, File(k).data)
      <4>1. File(k) = [key |-> k, data |-> File(k).data]
        BY <2>1, FileIsThere DEF Files
      <4> QED
        BY <2>1, <2>5, <4>1, FileIsThere DEF Decodes, OnCard
    <3>2. /\ Decoded(memory')
          /\ \A q : InMemory(memory', k, q) => InMemory(memory, k, q) \/ q = File(k).data
          /\ \A l \in Keys \ {k} : \A q : InMemory(memory', l, q) <=> InMemory(memory, l, q)
      BY <2>1, <2>5, <3>1, PutKeeps DEF MemoryOK
    <3> QED
      BY <2>3, <3>1, <3>2 DEF MemoryOK, Forgetting, Shrinks
  <2> QED
    BY <1>2, <2>4, <2>5 DEF FetchFromDisk
<1> QED
  BY <1>1, <1>2

(* A download adds the image to the memory.                                *)
LEMMA DownloadHolds ==
    ASSUME CacheInv, NEW k \in Keys, NEW p \in Payloads, Download(k, p)
    PROVE  MemoryOK' /\ DiskOK' /\ Adds(k, p)
<1>1. /\ Decoded(memory')
      /\ \A q : InMemory(memory', k, q) => InMemory(memory, k, q) \/ q = p
      /\ \A l \in Keys \ {k} : \A q : InMemory(memory', l, q) <=> InMemory(memory, l, q)
  BY PutKeeps DEF Download, CacheInv, MemoryOK
<1>2. disk' = disk /\ DiskOK'
  BY DEF Download, CacheInv, DiskOK
<1>3. Adds(k, p)
  BY <1>1, <1>2 DEF Adds
<1> QED
  BY <1>1, <1>2, <1>3 DEF MemoryOK

(* A write is over.                                                        *)
Ended == key' = Nothing /\ data' = Nothing

(* A rename adds the image, which was written to its end, to the card.     *)
LEMMA RenameHolds ==
    ASSUME CacheInv, Rename
    PROVE  Forgetting \/ (MemoryOK' /\ DiskOK' /\ Adds(key, data) /\ Ended)
<1>1. CASE UNCHANGED disk
  BY <1>1, RestHolds DEF Rename
<1>2. CASE disk' = [disk EXCEPT ![Style(key)] =
                       Append(disk[Style(key)], [key |-> key, data |-> parts[key]])]
  <2> DEFINE old == disk[Style(key)]
             file == [key |-> key, data |-> data]
             new == Append(old, file)
  <2>1. key \in Keys /\ data \in Payloads /\ parts[key] = data
    BY DEF Rename, CacheInv, WriteOK, Saving, Complete
  <2>2. Style(key) \in Styles /\ old \in Seq(Files) /\ file \in Files
    BY <2>1 DEF CacheInv, DiskOK, Styles, Files
  <2>3. disk' = [disk EXCEPT ![Style(key)] = new]
    BY <1>2, <2>1
  <2>4. /\ new \in Seq(Files) /\ Len(new) = Len(old) + 1 /\ Len(old) \in Nat
        /\ \A i \in 1..Len(old) : new[i] = old[i]
        /\ new[Len(old) + 1] = file
    BY <2>2, AppendProperties, LenProperties
  <2>5. file.key = key /\ file.data = data
    OBVIOUS
  <2> HIDE DEF new, file
  <2>6. \A i \in 1..Len(new) : i \in 1..Len(old) \/ i = Len(old) + 1
    BY <2>4
  <2>7. \A i \in 1..Len(old) : i \in 1..Len(new)
    BY <2>4
  <2>8. disk'[Style(key)] = new /\ \A t \in Styles \ {Style(key)} : disk'[t] = disk[t]
    BY <2>2, <2>3 DEF CacheInv, DiskOK
  <2>9. DiskOK'
    <3>1. disk' \in [Styles -> Seq(Files)]
      BY <2>2, <2>3, <2>4 DEF CacheInv, DiskOK
    <3>2. \A i \in 1..Len(new) : Style(new[i].key) = Style(key)
      BY <2>2, <2>4, <2>5, <2>6 DEF CacheInv, DiskOK
    <3> QED
      BY <2>8, <3>1, <3>2 DEF CacheInv, DiskOK
  <2>10. \A q : OnCard(disk', key, q) => OnCard(disk, key, q) \/ q = data
    <3> SUFFICES ASSUME NEW q, NEW i \in 1..Len(new), new[i] = [key |-> key, data |-> q]
                 PROVE  OnCard(disk, key, q) \/ q = data
      BY <2>8 DEF OnCard
    <3>1. CASE i \in 1..Len(old)
      BY <2>4, <3>1 DEF OnCard
    <3>2. CASE i = Len(old) + 1
      BY <2>4, <2>5, <3>2
    <3> QED
      BY <2>6, <3>1, <3>2
  <2>11. ASSUME NEW l \in Keys \ {key}, NEW q
         PROVE  OnCard(disk', l, q) <=> OnCard(disk, l, q)
    <3>1. CASE Style(l) # Style(key)
      BY <2>8, <3>1 DEF OnCard, Styles
    <3>2. CASE Style(l) = Style(key)
      <4>1. new[Len(old) + 1] # [key |-> l, data |-> q]
        BY <2>4, <2>5
      <4> QED
        BY <2>4, <2>6, <2>7, <2>8, <3>2, <4>1 DEF OnCard
    <3> QED
      BY <3>1, <3>2
  <2>12. UNCHANGED memory /\ MemoryOK'
    BY DEF Rename, CacheInv, MemoryOK
  <2>13. Adds(key, data)
    BY <2>10, <2>11, <2>12 DEF Adds
  <2>14. CASE GiveUp /\ UNCHANGED disk
    BY <2>14, RestHolds DEF Rename
  <2>15. CASE ~(GiveUp /\ UNCHANGED disk)
    BY <2>9, <2>12, <2>13, <2>15 DEF Rename, Ended
  <2> QED
    BY <2>14, <2>15
<1> QED
  BY <1>1, <1>2 DEF Rename

(* Every step keeps the contents whole; only the beginning of a write and  *)
(* its rename add anything, and only the image of the write.               *)
Holding ==
    /\ MemoryOK' /\ DiskOK'
    /\ \/ Shrinks /\ (UNCHANGED write \/ Ended)
       \/ \E k \in Keys, p \in Payloads :
              Adds(k, p) /\ key = Nothing /\ key' = k /\ data' = p
       \/ key \in Keys /\ data \in Payloads /\ Adds(key, data) /\ Ended

LEMMA ContentStep ==
    ASSUME CacheInv, [Next]_vars
    PROVE  Holding
<1>1. CASE Fetch
  <2>1. ASSUME NEW k \in Keys, FetchFromMemory(k) \/ FetchFromDisk(k)
        PROVE  Forgetting /\ UNCHANGED write
    BY <2>1, FetchHolds DEF FetchFromMemory, FetchFromDisk
  <2>2. ASSUME NEW k \in Keys, NEW p \in Payloads, Download(k, p)
        PROVE  Holding
    <3>1. MemoryOK' /\ DiskOK' /\ Adds(k, p)
      BY <2>2, DownloadHolds
    <3>2. key = Nothing /\ key' = k /\ data' = p
      BY <2>2 DEF Download, CacheInv, WriteOK
    <3> QED
      BY <3>1, <3>2 DEF Holding
  <2> QED
    BY <1>1, <2>1, <2>2 DEF Fetch, Forgetting, Holding
<1>2. CASE Trim
  <2>1. memory' = memory \/ memory' = DropOldest(memory)
    BY <1>2 DEF Trim
  <2>2. CASE memory' = memory
    BY <1>2, <2>2, RestHolds DEF Trim, Forgetting, Holding
  <2>3. CASE memory' = DropOldest(memory)
    <3>1. disk' = disk /\ DiskOK'
      BY <1>2 DEF Trim, CacheInv, DiskOK
    <3>2. Decoded(memory')
          /\ \A k \in Keys : \A q : InMemory(memory', k, q) => InMemory(memory, k, q)
      BY <2>3, DropKeeps DEF CacheInv, MemoryOK
    <3> QED
      BY <1>2, <3>1, <3>2 DEF Trim, Holding, Shrinks, MemoryOK
  <2> QED
    BY <2>1, <2>2, <2>3
<1>3. CASE Clean \/ Open \/ Fill \/ Reserve \/ Scan \/ Wear \/ UNCHANGED vars
  <2>1. UNCHANGED <<memory, disk>> /\ (UNCHANGED write \/ Ended)
    BY <1>3 DEF Clean, Open, Fill, Reserve, Scan, Wear, vars, write, GiveUp, Return, Ended
  <2> QED
    BY <2>1, RestHolds DEF Forgetting, Holding
<1>4. ASSUME NEW keep, Evict(keep), UNCHANGED memory PROVE Forgetting
  <2>1. Head(todo) \in Keys
    BY <1>4, HeadTailProperties DEF Evict, CacheInv, EvictionOK
  <2> QED
    BY <1>4, <2>1, RestHolds, RemovalHolds DEF Evict
<1>5. CASE MakeRoom \/ Enforce
  <2>1. Forgetting
    BY <1>4, <1>5, RestHolds DEF MakeRoom, Enforce
  <2>2. UNCHANGED write \/ Ended
    BY <1>5 DEF MakeRoom, Enforce, GiveUp, Return, Ended, write
  <2> QED
    BY <2>1, <2>2 DEF Forgetting, Holding
<1>6. CASE Replace
  <2>1. key \in Keys
    BY <1>6 DEF Replace, CacheInv, WriteOK, Saving
  <2> QED
    BY <1>6, <2>1, RestHolds, RemovalHolds DEF Replace, Forgetting, Holding
<1>7. CASE Rename
  <2>1. key \in Keys /\ data \in Payloads
    BY <1>7 DEF Rename, CacheInv, WriteOK, Saving
  <2>2. UNCHANGED write \/ Ended
    BY <1>7 DEF Rename, GiveUp, Return, Ended
  <2> QED
    BY <1>7, <2>1, <2>2, RenameHolds DEF Forgetting, Holding
<1>8. CASE memory' = NoMemory /\ disk' = disk /\ (UNCHANGED write \/ Ended)
  <2>1. DiskOK'
    BY <1>8 DEF CacheInv, DiskOK
  <2> QED
    BY <1>8, <2>1, NothingInMemory DEF Holding, Shrinks, MemoryOK
<1>9. CASE Clear \/ PowerLoss
  BY <1>8, <1>9 DEF Clear, PowerLoss, Ended
<1>10. CASE ClearPath
  BY <1>10, RestHolds, RemovalHolds DEF ClearPath, Forgetting, Holding
<1> QED
  BY <1>1, <1>2, <1>3, <1>5, <1>6, <1>7, <1>9, <1>10 DEF Next, Write, Budget

(* What an eviction loop goes through are tiles of the style.              *)
LEMMA CandidatesAreKeys ==
    ASSUME DiskOK, NEW s \in Styles
    PROVE  /\ Candidates(s) \in Seq(Keys)
           /\ \A i \in 1..Len(Candidates(s)) : Style(Candidates(s)[i]) = s
<1>1. disk[s] \in Seq(Files) /\ Len(disk[s]) \in Nat
  BY LenProperties DEF DiskOK
<1>2. \A i \in 1..Len(disk[s]) : disk[s][i].key \in Keys /\ Style(disk[s][i].key) = s
  <2>1. \A i \in 1..Len(disk[s]) : disk[s][i] \in Files
    BY <1>1, ElementOfSeq
  <2> QED
    BY <2>1 DEF DiskOK, Files
<1>3. Candidates(s) \in [1..Len(disk[s]) -> Keys]
  BY <1>2 DEF Candidates, KeysOf
<1>4. Candidates(s) \in Seq(Keys)
  BY <1>1, <1>3, SeqDef
<1>5. Len(Candidates(s)) = Len(disk[s])
  BY <1>1, <1>3, <1>4, LenProperties
<1> QED
  BY <1>2, <1>4, <1>5 DEF Candidates, KeysOf

(* The list of an eviction loop only gets shorter.                         *)
LEMMA EvictKeeps ==
    ASSUME EvictionOK, NEW keep, Evict(keep)
    PROVE  /\ todo' \in Seq(Keys) /\ Head(todo) \in Keys
           /\ \A s : (\A i \in 1..Len(todo) : Style(todo[i]) = s)
                       => /\ \A i \in 1..Len(todo') : Style(todo'[i]) = s
                          /\ Style(Head(todo)) = s
<1>1. todo \in Seq(Keys) /\ todo # <<>> /\ todo' = Tail(todo)
  BY DEF EvictionOK, Evict
<1>2. /\ Head(todo) \in Keys /\ todo' \in Seq(Keys)
      /\ Len(todo') = Len(todo) - 1
      /\ \A i \in 1..Len(todo') : todo'[i] = todo[i + 1]
  BY <1>1, HeadTailProperties
<1>3. Len(todo) \in Nat \ {0} /\ Head(todo) = todo[1]
  BY <1>1, EmptySeq
<1>4. \A i \in 1..Len(todo') : i + 1 \in 1..Len(todo)
  BY <1>2, <1>3
<1> QED
  BY <1>2, <1>3, <1>4

(* The steps of a write follow each other.                                 *)
LEMMA ControlStep ==
    ASSUME CacheInv, [Next]_vars
    PROVE  WriteOK' /\ EvictionOK'
<1> USE PayloadsAssumption DEF CacheInv, WriteOK, EvictionOK, Saving, Complete,
                              write, loop
<1>0. <<>> \in Seq(Keys) /\ Len(<<>>) = 0
  BY EmptySeq
<1>1. ASSUME Return, UNCHANGED loop,
             parts' = parts \/ (key \in Keys /\ RemovePart(key))
      PROVE  WriteOK' /\ EvictionOK'
  BY <1>1 DEF Return, RemovePart
<1>2. CASE Fetch
  BY <1>2 DEF Fetch, FetchFromMemory, FetchFromDisk, Download
<1>3. CASE Trim
  BY <1>3 DEF Trim
<1>4. CASE Clean
  BY <1>1, <1>4 DEF Clean, RemovePart
<1>5. CASE Open
  BY <1>1, <1>5 DEF Open
<1>6. CASE Fill
  BY <1>1, <1>6 DEF Fill, GiveUp
<1>7. CASE Reserve
  <2>1. key \in Keys /\ Style(key) \in Styles
    BY <1>7 DEF Reserve, Styles
  <2> QED
    BY <1>7, <2>1, CandidatesAreKeys DEF Reserve
<1>8. CASE MakeRoom
  <2>1. CASE Evict(key) /\ UNCHANGED <<pc, parts, write>>
    <3>1. todo' \in Seq(Keys) /\ \A i \in 1..Len(todo') : Style(todo'[i]) = Style(key)
      BY <1>8, <2>1, EvictKeeps DEF MakeRoom
    <3> QED
      BY <1>8, <2>1, <3>1 DEF MakeRoom
  <2>2. CASE /\ pc' = "replace" /\ UNCHANGED <<parts, write>> /\ todo' = <<>>
    BY <1>0, <1>8, <2>2 DEF MakeRoom
  <2>3. CASE GiveUp /\ todo' = <<>>
    BY <1>0, <1>8, <2>3 DEF MakeRoom, GiveUp, Return, RemovePart
  <2> QED
    BY <1>8, <2>1, <2>2, <2>3 DEF MakeRoom
<1>9. CASE Replace
  BY <1>9 DEF Replace
<1>10. CASE Rename
  <2>1. CASE GiveUp /\ UNCHANGED loop
    BY <1>1, <1>10, <2>1 DEF Rename, GiveUp
  <2>2. CASE ~(GiveUp /\ UNCHANGED loop)
    <3>1. /\ key \in Keys /\ Style(key) \in Styles
          /\ parts' = [parts EXCEPT ![key] = Nothing]
          /\ key' = Nothing /\ data' = Nothing
          /\ todo' = todo /\ pc' \in {"scan", "idle"}
          /\ scans' = {Style(key)} \/ scans' = scans
      BY <1>10, <2>2 DEF Rename, Styles
    <3> QED
      BY <3>1
  <2> QED
    BY <2>1, <2>2
<1>11. CASE Scan
  <2>1. DiskOK
    OBVIOUS
  <2> QED
    BY <1>11, <2>1, CandidatesAreKeys DEF Scan
<1>12. CASE Enforce
  <2>1. todo' \in Seq(Keys)
    BY <1>0, <1>12, EvictKeeps DEF Enforce
  <2> QED
    BY <1>12, <2>1 DEF Enforce
<1>13. CASE Clear \/ Wear \/ UNCHANGED vars
  BY <1>13 DEF Clear, Wear, vars
<1>14. CASE ClearPath
  BY <1>14 DEF ClearPath, RemovePart
<1>15. CASE PowerLoss
  BY <1>0, <1>15 DEF PowerLoss
<1> QED
  BY <1>2, <1>3, <1>4, <1>5, <1>6, <1>7, <1>8, <1>9, <1>10, <1>11, <1>12, <1>13,
     <1>14, <1>15 DEF Next, Write, Budget

(* The invariant holds from the start, and every step keeps it.            *)
LEMMA CacheInvariant == Spec => []CacheInv
<1>1. Init => CacheInv
  <2> SUFFICES ASSUME Init PROVE CacheInv
    OBVIOUS
  <2>1. MemoryOK
    BY NothingInMemory DEF Init, MemoryOK
  <2>2. DiskOK
    BY EarlierAssumption DEF Init, DiskOK
  <2>3. WriteOK /\ EvictionOK
    BY EmptySeq DEF Init, WriteOK, EvictionOK, Saving, Complete
  <2> QED
    BY <2>1, <2>2, <2>3 DEF CacheInv
<1>2. CacheInv /\ [Next]_vars => CacheInv'
  BY ContentStep, ControlStep DEF CacheInv, Holding
<1> QED
  BY <1>1, <1>2, PTL DEF Spec

-----------------------------------------------------------------------------
(* From its reservation to its rename a write leaves the files of every    *)
(* other style alone (disk_cache.cpp:130-214).                             *)
THEOREM OneStylePerWrite == Spec => StylesIndependent
<1>1. ASSUME CacheInv, [Next]_vars, pc \in Complete
      PROVE  \A s \in Styles \ {Style(key)} : disk'[s] = disk[s]
  <2>0. key \in Keys /\ Style(key) \in Styles /\ DiskOK /\ disk \in [Styles -> Seq(Files)]
    BY <1>1 DEF CacheInv, WriteOK, Saving, Complete, Styles, DiskOK
  <2>1. CASE Fetch \/ Trim \/ Clean \/ Open \/ Fill \/ Budget \/ Clear \/ ClearPath \/ Wear
    BY <1>1, <2>1 DEF Complete, Fetch, FetchFromMemory, FetchFromDisk, Download, Trim,
                      Clean, Open, Fill, Budget, Scan, Enforce, Clear, ClearPath, Wear
  <2>2. CASE Reserve \/ PowerLoss \/ UNCHANGED vars
    BY <2>2 DEF Reserve, PowerLoss, vars
  <2>3. CASE MakeRoom
    <3>1. CASE UNCHANGED disk
      BY <3>1
    <3>2. CASE RemoveFile(Head(todo)) /\ Evict(key) /\ pc = "evict"
      <4>1. Head(todo) \in Keys /\ Style(Head(todo)) = Style(key)
        BY <1>1, <3>2, EvictKeeps DEF CacheInv, EvictionOK
      <4> QED
        BY <2>0, <3>2, <4>1, RemovalKeeps
    <3> QED
      BY <2>3, <3>1, <3>2 DEF MakeRoom, Evict
  <2>4. CASE Replace
    BY <2>0, <2>4, RemovalKeeps DEF Replace
  <2>5. CASE Rename
    BY <2>0, <2>5 DEF Rename
  <2> QED
    BY <1>1, <2>1, <2>2, <2>3, <2>4, <2>5 DEF Next, Write
<1>2. CacheInv /\ [Next]_vars =>
          ((pc \in {"reserve", "evict", "replace", "rename"}) =>
               \A s \in Styles \ {Style(key)} : disk'[s] = disk[s])
  BY <1>1 DEF Complete
<1> QED
  BY <1>2, CacheInvariant, PTL DEF Spec, StylesIndependent

(* What can be found are whole payloads.                                   *)
LEMMA FoundIsWhole ==
    ASSUME NEW m, Decoded(m), NEW d \in [Styles -> Seq(Files)], NEW k \in Keys, NEW p,
           InMemory(m, k, p) \/ OnCard(d, k, p)
    PROVE  p \in Payloads \cup Spoiled
<1>1. CASE InMemory(m, k, p)
  BY <1>1 DEF InMemory, Cached, Decoded
<1>2. CASE OnCard(d, k, p)
  <2>1. d[Style(k)] \in Seq(Files)
    BY DEF Styles
  <2>2. [key |-> k, data |-> p] \in Files
    BY <1>2, <2>1, ElementOfSeq DEF OnCard
  <2> QED
    BY <2>2 DEF Files
<1> QED
  BY <1>1, <1>2

(* The caches implement a store that may only forget: whatever calls fail  *)
(* and whenever the power goes, nothing is found for a tile that was not   *)
(* found before, except the payload that is being stored for this tile,    *)
(* from the step that puts it into memory or onto the card                 *)
(* (disk_cache.cpp:107-214).                                               *)
THEOREM CachesForget == Spec => StoreSpec
<1> DEFINE All == Payloads \cup Spoiled \cup {Partial}
<1>1. found = [k \in Keys |-> {p \in All : InMemory(memory, k, p) \/ OnCard(disk, k, p)}]
      /\ found' = [k \in Keys |-> {p \in All : InMemory(memory', k, p) \/ OnCard(disk', k, p)}]
  BY DEF found, InMemory, OnCard
<1>2. Init /\ CacheInv => Store!Init
  BY <1>1, FoundIsWhole DEF Init, Store!Init, CacheInv, MemoryOK, DiskOK
<1>3. ASSUME CacheInv, [Next]_vars
      PROVE  Store!Next
  <2>1. Holding
    BY <1>3, ContentStep
  <2>2. found' \in [Keys -> SUBSET (Payloads \cup Spoiled)]
    BY <1>1, <2>1, FoundIsWhole DEF Holding, MemoryOK, DiskOK
  <2>3. CASE Shrinks /\ (UNCHANGED write \/ Ended)
    <3>1. \A k \in Keys : Store!Keeps(k, {})
      BY <1>1, <2>3 DEF Store!Keeps, Shrinks
    <3> QED
      BY <2>2, <2>3, <3>1 DEF Store!Next, Store!Forget, Store!Ends, Ended, write
  <2>4. ASSUME NEW k \in Keys, NEW p \in Payloads, Adds(k, p)
        PROVE  Store!Keeps(k, {p})
    <3>1. found'[k] \subseteq found[k] \cup {p}
      BY <1>1, <2>4 DEF Adds
    <3>2. \A l \in Keys \ {k} : found'[l] \subseteq found[l]
      BY <1>1, <2>4 DEF Adds
    <3> QED
      BY <3>1, <3>2 DEF Store!Keeps
  <2>5. CASE \E k \in Keys, p \in Payloads :
                 Adds(k, p) /\ key = Nothing /\ key' = k /\ data' = p
    BY <2>2, <2>4, <2>5 DEF Store!Next, Store!Begin
  <2>6. CASE key \in Keys /\ data \in Payloads /\ Adds(key, data) /\ Ended
    <3>1. key # Nothing
      BY <2>6, PayloadsAssumption
    <3> QED
      BY <2>2, <2>4, <2>6, <3>1 DEF Store!Next, Store!Store, Store!Ends, Ended
  <2> QED
    BY <2>1, <2>3, <2>5, <2>6 DEF Holding
<1>4. CacheInv /\ [Next]_vars => [Store!Next]_(Store!vars)
  BY <1>3
<1> QED
  BY <1>2, <1>4, CacheInvariant, PTL DEF Spec, StoreSpec, Store!Spec

-----------------------------------------------------------------------------
(* A folder has one file of a name.                                        *)
Distinct(files) ==
    \A i, j \in 1..Len(files) : files[i].key = files[j].key => i = j

(* What an eviction loop has not looked at are the last files of the       *)
(* style; those before it are to be replaced or cannot be removed.         *)
Passed(s) == Len(disk[s]) - Len(todo)

Looking(s, keep) ==
    /\ Len(todo) <= Len(disk[s])
    /\ \A i \in 1..Len(todo) : todo[i] = disk[s][Passed(s) + i].key
    /\ \A i \in 1..Passed(s) :
           disk[s][i].key = keep \/ Refuses(disk[s][i].key, FALSE)

OrderInv ==
    /\ \A s \in Styles : Distinct(disk[s])
    /\ pc = "evict" => Looking(Style(key), key)
    /\ pc = "enforce" => \E s \in Styles : Looking(s, Nothing)

(* A file that is taken out is the one in its place.                       *)
LEMMA TakenOut ==
    ASSUME NEW files \in Seq(Files), Distinct(files), NEW n \in 1..Len(files)
    PROVE  OtherKeys(files, files[n].key) = RemoveAt(files, n)
<1>1. Has(files, files[n].key)
  BY DEF Has
<1>2. /\ Position(files, files[n].key) \in 1..Len(files)
      /\ files[Position(files, files[n].key)].key = files[n].key
  BY <1>1 DEF Has, Position
<1>3. Position(files, files[n].key) = n
  BY <1>2 DEF Distinct
<1> QED
  BY <1>1, <1>3 DEF OtherKeys

(* Without the file of a tile a folder has no other of it.                 *)
LEMMA OthersDistinct ==
    ASSUME NEW files \in Seq(Files), Distinct(files), NEW k
    PROVE  Distinct(OtherKeys(files, k)) /\ ~Has(OtherKeys(files, k), k)
<1>1. CASE ~Has(files, k)
  BY <1>1 DEF OtherKeys
<1>2. CASE Has(files, k)
  <2>1. PICK n \in 1..Len(files) : files[n].key = k
    BY <1>2 DEF Has
  <2> DEFINE rest == OtherKeys(files, k)
  <2>2. Len(files) \in Nat /\ n \in Nat
    BY LenProperties
  <2>3. /\ Len(rest) = Len(files) - 1
        /\ \A i \in 1..Len(files) - 1 :
               rest[i] = IF i < n THEN files[i] ELSE files[i + 1]
    <3>1. rest = RemoveAt(files, n)
      BY <2>1, TakenOut
    <3> QED
      BY <3>1, RemovedAt
  <2> HIDE DEF rest
  <2>4. ASSUME NEW i \in 1..Len(rest)
        PROVE  \E j \in 1..Len(files) : j # n /\ rest[i] = files[j]
                                        /\ j = IF i < n THEN i ELSE i + 1
    <3>1. CASE i < n
      BY <2>2, <2>3, <3>1
    <3>2. CASE ~(i < n)
      <4>1. i + 1 \in 1..Len(files) /\ i + 1 # n /\ i \in 1..Len(files) - 1
        BY <2>2, <2>3, <3>2
      <4> QED
        BY <2>3, <3>2, <4>1
    <3> QED
      BY <3>1, <3>2
  <2>5. ~Has(rest, k)
    BY <2>1, <2>4 DEF Has, Distinct
  <2>6. ASSUME NEW i \in 1..Len(rest), NEW j \in 1..Len(rest),
               rest[i].key = rest[j].key
        PROVE  i = j
    <3>1. PICK a \in 1..Len(files) : /\ rest[i] = files[a]
                                     /\ a = IF i < n THEN i ELSE i + 1
      BY <2>4
    <3>2. PICK b \in 1..Len(files) : /\ rest[j] = files[b]
                                     /\ b = IF j < n THEN j ELSE j + 1
      BY <2>4
    <3>3. a = b
      BY <2>6, <3>1, <3>2 DEF Distinct
    <3> QED
      BY <2>2, <3>1, <3>2, <3>3
  <2> QED
    BY <2>5, <2>6 DEF Distinct, rest
<1> QED
  BY <1>1, <1>2

(* A file of a new name behind the others.                                 *)
LEMMA AppendDistinct ==
    ASSUME NEW files \in Seq(Files), Distinct(files), NEW f \in Files,
           ~Has(files, f.key)
    PROVE  Distinct(Append(files, f))
<1> DEFINE more == Append(files, f)
<1>1. /\ Len(more) = Len(files) + 1 /\ Len(files) \in Nat
      /\ \A i \in 1..Len(files) : more[i] = files[i]
      /\ more[Len(files) + 1] = f
  BY AppendProperties, LenProperties
<1> HIDE DEF more
<1>2. \A i \in 1..Len(more) : i \in 1..Len(files) \/ i = Len(files) + 1
  BY <1>1
<1> QED
  BY <1>1, <1>2 DEF Distinct, Has, more

(* The four things a step may do to the files.                             *)
Accessed(k) ==
    /\ Stored(k)
    /\ disk' = [disk EXCEPT ![Style(k)] = Append(OtherKeys(@, k), File(k))]

Renamed ==
    /\ pc = "rename" /\ key \in Keys /\ data \in Payloads /\ ~Stored(key)
    /\ disk' = [disk EXCEPT ![Style(key)] =
                   Append(@, [key |-> key, data |-> data])]

LEMMA FilesStep ==
    ASSUME CacheInv, [Next]_vars
    PROVE  \/ UNCHANGED disk
           \/ \E k \in Keys : RemoveFile(k) \/ Accessed(k)
           \/ Renamed
<1>1. CASE Fetch
  BY <1>1 DEF Fetch, FetchFromMemory, FetchFromDisk, Download, Readable, Accessed
<1>2. CASE Trim \/ Clean \/ Open \/ Fill \/ Reserve \/ Scan \/ Clear \/ Wear \/ PowerLoss
           \/ UNCHANGED vars
  BY <1>2 DEF Trim, Clean, Open, Fill, Reserve, Scan, Clear, Wear, PowerLoss, vars
<1>3. CASE MakeRoom \/ Enforce
  <2>1. ASSUME NEW keep, Evict(keep) PROVE Head(todo) \in Keys
    BY <2>1, EvictKeeps DEF CacheInv
  <2> QED
    BY <1>3, <2>1 DEF MakeRoom, Enforce, Evict
<1>4. CASE Replace
  BY <1>4 DEF Replace, CacheInv, WriteOK, Saving
<1>5. CASE Rename
  BY <1>5 DEF Rename, Renamed, CacheInv, WriteOK, Saving, Complete
<1>6. CASE ClearPath
  BY <1>6 DEF ClearPath
<1> QED
  BY <1>1, <1>2, <1>3, <1>4, <1>5, <1>6 DEF Next, Write, Budget

(* However files are moved, removed and added, names stay apart.           *)
LEMMA NamesStayApart ==
    ASSUME CacheInv, OrderInv, [Next]_vars
    PROVE  \A s \in Styles : Distinct(disk'[s])
<1>1. \A s \in Styles : disk[s] \in Seq(Files) /\ Distinct(disk[s])
  BY DEF CacheInv, DiskOK, OrderInv
<1>2. ASSUME NEW k \in Keys, NEW files, Distinct(files),
             disk' = [disk EXCEPT ![Style(k)] = files]
      PROVE  \A s \in Styles : Distinct(disk'[s])
  BY <1>1, <1>2 DEF CacheInv, DiskOK
<1>3. ASSUME NEW k \in Keys
      PROVE  /\ OtherKeys(disk[Style(k)], k) \in Seq(Files)
             /\ Distinct(OtherKeys(disk[Style(k)], k))
             /\ ~Has(OtherKeys(disk[Style(k)], k), k)
  <2>1. Style(k) \in Styles
    BY DEF Styles
  <2> QED
    BY <1>1, <2>1, OthersDistinct, OtherKeysAreThere
<1>4. ASSUME NEW k \in Keys, RemoveFile(k)
      PROVE  \A s \in Styles : Distinct(disk'[s])
  BY <1>2, <1>3, <1>4 DEF RemoveFile
<1>5. ASSUME NEW k \in Keys, Accessed(k)
      PROVE  \A s \in Styles : Distinct(disk'[s])
  <2>1. File(k) \in Files /\ File(k).key = k
    BY <1>5, FileIsThere DEF Accessed, CacheInv
  <2>2. Distinct(Append(OtherKeys(disk[Style(k)], k), File(k)))
    BY <1>3, <2>1, AppendDistinct
  <2> QED
    BY <1>2, <1>5, <2>2 DEF Accessed
<1>6. CASE Renamed
  <2> DEFINE file == [key |-> key, data |-> data]
  <2>1. key \in Keys /\ Style(key) \in Styles /\ file \in Files /\ file.key = key
    BY <1>6 DEF Renamed, Files, Styles
  <2>2. Distinct(Append(disk[Style(key)], file))
    BY <1>1, <1>6, <2>1, AppendDistinct DEF Renamed, Stored
  <2> QED
    BY <1>2, <1>6, <2>1, <2>2 DEF Renamed
<1> QED
  BY <1>1, <1>4, <1>5, <1>6, FilesStep

(* A loop begins with all files of the style ahead.                        *)
LEMMA LoopBegins ==
    ASSUME DiskOK, NEW s \in Styles, NEW keep,
           todo' = Candidates(s), UNCHANGED disk
    PROVE  Looking(s, keep)'
<1>1. disk[s] \in Seq(Files) /\ Len(disk[s]) \in Nat
  BY LenProperties DEF DiskOK
<1>2. Candidates(s) = [i \in 1..Len(disk[s]) |-> disk[s][i].key]
  BY DEF Candidates, KeysOf
<1>3. Candidates(s) \in Seq(Keys)
  BY CandidatesAreKeys
<1>4. Len(Candidates(s)) = Len(disk[s])
  BY <1>1, <1>2, <1>3, LenProperties
<1>5. Passed(s)' = 0
  BY <1>1, <1>4 DEF Passed
<1> QED
  BY <1>1, <1>2, <1>4, <1>5 DEF Looking

(* A round of a loop looks at the first file it has not looked at.         *)
LEMMA RoundLooks ==
    ASSUME CacheInv, NEW s \in Styles, NEW keep, Looking(s, keep), Evict(keep)
    PROVE  /\ Len(disk[s]) \in Nat /\ Len(todo) \in Nat \ {0}
           /\ Passed(s) \in Nat /\ Passed(s) + 1 \in 1..Len(disk[s])
           /\ Head(todo) = disk[s][Passed(s) + 1].key
           /\ Head(todo) \in Keys /\ Style(Head(todo)) = s
           /\ Len(todo') = Len(todo) - 1
           /\ \A i \in 1..Len(todo') : todo'[i] = todo[i + 1]
<1>1. todo \in Seq(Keys) /\ todo # <<>> /\ todo' = Tail(todo)
  BY DEF CacheInv, EvictionOK, Evict
<1>2. Head(todo) \in Keys /\ Len(todo') = Len(todo) - 1
      /\ \A i \in 1..Len(todo') : todo'[i] = todo[i + 1]
  BY <1>1, HeadTailProperties
<1>3. Len(todo) \in Nat \ {0} /\ Head(todo) = todo[1]
  BY <1>1, EmptySeq
<1>4. disk[s] \in Seq(Files) /\ Len(disk[s]) \in Nat
  BY LenProperties DEF CacheInv, DiskOK
<1>5. Passed(s) \in Nat /\ Passed(s) + 1 \in 1..Len(disk[s])
  BY <1>3, <1>4 DEF Passed, Looking
<1>6. Head(todo) = disk[s][Passed(s) + 1].key
  BY <1>3 DEF Looking
<1>7. Style(Head(todo)) = s
  BY <1>5, <1>6 DEF CacheInv, DiskOK
<1> QED
  BY <1>2, <1>3, <1>4, <1>5, <1>6, <1>7

(* Whether the file goes or stays, the loop is where it should be.         *)
LEMMA RoundKeeps ==
    ASSUME CacheInv, OrderInv, NEW s \in Styles, NEW keep, Looking(s, keep),
           Evict(keep), UNCHANGED refused
    PROVE  Looking(s, keep)'
<1> DEFINE n == Passed(s)
           k == Head(todo)
<1>1. /\ Len(disk[s]) \in Nat /\ Len(todo) \in Nat \ {0}
      /\ n \in Nat /\ n + 1 \in 1..Len(disk[s])
      /\ k = disk[s][n + 1].key /\ k \in Keys /\ Style(k) = s
      /\ Len(todo') = Len(todo) - 1
      /\ \A i \in 1..Len(todo') : todo'[i] = todo[i + 1]
  BY RoundLooks
<1>2. /\ n = Len(disk[s]) - Len(todo)
      /\ \A i \in 1..Len(todo) : todo[i] = disk[s][n + i].key
      /\ \A i \in 1..n : disk[s][i].key = keep \/ Refuses(disk[s][i].key, FALSE)
  BY DEF Looking, Passed
<1> HIDE DEF n, k
<1>3. \A l : Refuses(l, FALSE)' <=> Refuses(l, FALSE)
  BY DEF Refuses
<1>4. \A i \in 1..Len(todo') : /\ i + 1 \in 1..Len(todo)
                               /\ todo'[i] = disk[s][n + (i + 1)].key
  <2>1. \A i \in 1..Len(todo') : i + 1 \in 1..Len(todo)
    BY <1>1
  <2> QED
    BY <1>1, <1>2, <2>1
<1>5. CASE (k = keep \/ Refuses(k, FALSE)) /\ UNCHANGED disk
  <2>1. Passed(s)' = n + 1 /\ Len(todo') <= Len(disk'[s])
    BY <1>1, <1>2, <1>5 DEF Passed
  <2>2. \A i \in 1..n + 1 : disk[s][i].key = keep \/ Refuses(disk[s][i].key, FALSE)
    <3>1. \A i \in 1..n + 1 : i \in 1..n \/ i = n + 1
      BY <1>1
    <3> QED
      BY <1>1, <1>2, <1>5, <3>1
  <2>3. \A i \in 1..Len(todo') : todo'[i] = disk'[s][n + 1 + i].key
    <3>1. \A i \in 1..Len(todo') : n + 1 + i = n + (i + 1)
      BY <1>1
    <3> QED
      BY <1>4, <1>5, <3>1
  <2> QED
    BY <1>3, <1>5, <2>1, <2>2, <2>3 DEF Looking
<1>6. CASE RemoveFile(k)
  <2> DEFINE rest == OtherKeys(disk[s], k)
  <2>1. disk'[s] = rest
    BY <1>1, <1>6 DEF RemoveFile, CacheInv, DiskOK
  <2>2. /\ Len(rest) = Len(disk[s]) - 1
        /\ \A i \in 1..Len(disk[s]) - 1 :
               rest[i] = IF i < n + 1 THEN disk[s][i] ELSE disk[s][i + 1]
    <3>1. disk[s] \in Seq(Files) /\ Distinct(disk[s])
      BY DEF CacheInv, DiskOK, OrderInv
    <3>2. rest = RemoveAt(disk[s], n + 1)
      BY <1>1, <3>1, TakenOut
    <3> QED
      <4>1. /\ Len(RemoveAt(disk[s], n + 1)) = Len(disk[s]) - 1
            /\ \A i \in 1..Len(disk[s]) - 1 :
                   RemoveAt(disk[s], n + 1)[i] =
                       IF i < n + 1 THEN disk[s][i] ELSE disk[s][i + 1]
        BY <1>1, <3>1, RemovedAt
      <4> QED
        BY <3>2, <4>1
  <2> HIDE DEF rest
  <2>3. Passed(s)' = n /\ Len(todo') <= Len(disk'[s])
    <3>1. Len(disk'[s]) = Len(disk[s]) - 1
      BY <2>1, <2>2
    <3> QED
      BY <1>1, <1>2, <3>1 DEF Passed
  <2>4. \A i \in 1..n : disk'[s][i] = disk[s][i]
    <3>1. \A i \in 1..n : i \in 1..Len(disk[s]) - 1 /\ i < n + 1
      BY <1>1
    <3> QED
      BY <2>1, <2>2, <3>1
  <2>5. \A i \in 1..Len(todo') : todo'[i] = disk'[s][n + i].key
    <3>1. ASSUME NEW i \in 1..Len(todo')
          PROVE  /\ n + i \in 1..Len(disk[s]) - 1 /\ ~(n + i < n + 1)
                 /\ n + i + 1 = n + (i + 1)
      <4>1. i \in Nat /\ i >= 1 /\ i <= Len(todo) - 1
        BY <1>1
      <4>2. Len(todo) \in Nat /\ Len(disk[s]) \in Nat /\ n \in Nat
        BY <1>1
      <4>3. n = Len(disk[s]) - Len(todo)
        BY <1>2
      <4>4. n + i <= Len(disk[s]) - 1
        BY <4>1, <4>2, <4>3
      <4>5. n + i \in Nat /\ n + i >= n + 1 /\ n + 1 >= 1
        BY <4>1, <4>2
      <4>6. n + i + 1 = n + (i + 1)
        BY <4>1, <4>2
      <4>7. ~(n + i < n + 1)
        BY <4>1, <4>2
      <4> QED
        BY <4>2, <4>4, <4>5, <4>6, <4>7
    <3> QED
      BY <1>4, <2>1, <2>2, <3>1
  <2> QED
    BY <1>2, <1>3, <2>3, <2>4, <2>5 DEF Looking
<1> QED
  BY <1>5, <1>6 DEF Evict, k

(* The loops look at the files in their order.                             *)
LEMMA OrderInvariant == Spec => [](CacheInv /\ OrderInv)
<1>1. Init => OrderInv
  BY EarlierAssumption DEF Init, OrderInv, Distinct
<1>2. ASSUME CacheInv, OrderInv, [Next]_vars
      PROVE  OrderInv'
  <2>1. \A s \in Styles : Distinct(disk'[s])
    BY <1>2, NamesStayApart
  <2>2. CASE pc' \notin {"evict", "enforce"}
    BY <2>1, <2>2 DEF OrderInv
  <2>3. CASE UNCHANGED vars
    BY <1>2, <2>3 DEF OrderInv, Looking, Passed, Refuses, vars, write, loop
  <2>4. CASE Reserve
    <3>1. DiskOK /\ Style(key) \in Styles /\ UNCHANGED <<disk, key>>
      BY <1>2, <2>4 DEF Reserve, write, CacheInv, WriteOK, Saving, Styles
    <3>2. Looking(Style(key), key)'
      BY <2>4, <3>1, LoopBegins DEF Reserve
    <3> QED
      BY <2>1, <2>4, <3>1, <3>2 DEF Reserve, OrderInv
  <2>5. CASE Scan
    <3>1. CASE pc' = "enforce"
      <4>1. PICK s \in scans : todo' = Candidates(s)
        BY <2>5, <3>1 DEF Scan
      <4>2. s \in Styles /\ DiskOK /\ UNCHANGED disk
        BY <1>2, <2>5 DEF Scan, CacheInv, EvictionOK
      <4>3. Looking(s, Nothing)'
        BY <4>1, <4>2, LoopBegins
      <4> QED
        BY <2>1, <3>1, <4>2, <4>3 DEF OrderInv
    <3> QED
      BY <2>2, <2>5, <3>1 DEF Scan
  <2>6. CASE MakeRoom /\ pc' = "evict"
    <3>1. Evict(key) /\ UNCHANGED <<refused, key>> /\ pc = "evict"
      BY <2>6 DEF MakeRoom, GiveUp, Return, write
    <3>2. Style(key) \in Styles /\ Looking(Style(key), key)
      BY <1>2, <3>1 DEF CacheInv, WriteOK, Saving, Styles, OrderInv
    <3>3. Looking(Style(key), key)'
      BY <1>2, <3>1, <3>2, RoundKeeps
    <3> QED
      BY <2>1, <2>6, <3>1, <3>3 DEF OrderInv
  <2>7. CASE Enforce /\ pc' = "enforce"
    <3>1. Evict(Nothing) /\ UNCHANGED refused /\ pc = "enforce"
      BY <2>7 DEF Enforce
    <3>2. PICK s \in Styles : Looking(s, Nothing)
      BY <1>2, <3>1 DEF OrderInv
    <3>3. Looking(s, Nothing)'
      BY <1>2, <3>1, <3>2, RoundKeeps
    <3> QED
      BY <2>1, <2>7, <3>3 DEF OrderInv
  <2>8. CASE Fetch \/ Trim \/ Clean \/ Open \/ Fill \/ Replace \/ Rename
             \/ Clear \/ ClearPath \/ Wear \/ PowerLoss
    <3>1. pc' \notin {"evict", "enforce"}
      BY <2>8 DEF Fetch, FetchFromMemory, FetchFromDisk, Download, Trim, Clean, Open,
                  Fill, GiveUp, Return, Replace, Rename, Clear, ClearPath, Wear, PowerLoss
    <3> QED
      BY <2>2, <3>1
  <2>9. CASE MakeRoom /\ pc' # "evict"
    BY <2>2, <2>9 DEF MakeRoom, GiveUp, Return
  <2>10. CASE Enforce /\ pc' # "enforce"
    BY <2>2, <2>10 DEF Enforce
  <2> QED
    BY <1>2, <2>3, <2>4, <2>5, <2>6, <2>7, <2>8, <2>9, <2>10 DEF Next, Write, Budget
<1> QED
  BY <1>1, <1>2, CacheInvariant, PTL DEF Spec

(* What a round removes is the first file that the loop had not passed.    *)
LEMMA LostIsFirst ==
    ASSUME CacheInv, OrderInv, NEW keep, NEW t \in Styles, Looking(t, keep),
           Evict(keep), NEW s \in Styles, NEW i \in Lost(s), NEW older \in 1..i - 1
    PROVE  disk[s][older].key = keep \/ Refuses(disk[s][older].key, FALSE)
<1>1. i \in 1..Len(disk[s])
      /\ \A j \in 1..Len(disk'[s]) : disk'[s][j].key # disk[s][i].key
  BY DEF Lost
<1>2. RemoveFile(Head(todo))
  BY <1>1 DEF Evict
<1>3. /\ Head(todo) \in Keys /\ Style(Head(todo)) = t
      /\ Passed(t) \in Nat /\ Passed(t) + 1 \in 1..Len(disk[t])
      /\ Head(todo) = disk[t][Passed(t) + 1].key
      /\ Len(disk[t]) \in Nat
  BY RoundLooks
<1>4. s = t
  <2>1. s # t => disk'[s] = disk[s]
    BY <1>2, <1>3 DEF RemoveFile, CacheInv, DiskOK
  <2> QED
    BY <1>1, <2>1
<1>5. i = Passed(t) + 1
  <2> DEFINE n == Passed(t) + 1
             rest == OtherKeys(disk[t], disk[t][n].key)
  <2>1. disk[t] \in Seq(Files) /\ Distinct(disk[t])
    BY DEF CacheInv, DiskOK, OrderInv
  <2>2. disk'[t] = rest
    BY <1>2, <1>3 DEF RemoveFile, CacheInv, DiskOK
  <2>3. n \in 1..Len(disk[t])
    BY <1>3
  <2> HIDE DEF n
  <2>4. /\ Len(rest) = Len(disk[t]) - 1
        /\ \A j \in 1..Len(disk[t]) - 1 :
               rest[j] = IF j < n THEN disk[t][j] ELSE disk[t][j + 1]
    BY <2>1, <2>3, TakenOut, RemovedAt
  <2> HIDE DEF rest
  <2>5. CASE i < n
    <3>1. i \in 1..Len(disk[t]) - 1
      BY <1>1, <1>3, <1>4, <2>3, <2>5
    <3> QED
      BY <1>1, <1>4, <2>2, <2>4, <2>5, <3>1
  <2>6. CASE i > n
    <3>1. i - 1 \in 1..Len(disk[t]) - 1 /\ ~(i - 1 < n) /\ i - 1 + 1 = i
      BY <1>1, <1>3, <1>4, <2>3, <2>6
    <3> QED
      BY <1>1, <1>4, <2>2, <2>4, <3>1
  <2> QED
    BY <1>1, <1>3, <2>3, <2>5, <2>6 DEF n
<1>6. older \in 1..Passed(t)
  BY <1>3, <1>5
<1> QED
  BY <1>4, <1>6 DEF Looking

(* The loops remove the least recently used file that may go and that the  *)
(* card lets go, also when it refuses some (disk_cache.cpp:243-315).       *)
THEOREM OldestGoFirst == Spec => OldestFirst
<1> DEFINE Spared(s, older) ==
               \/ pc = "evict" /\ disk[s][older].key = key
               \/ Refuses(disk[s][older].key, FALSE)
<1>1. ASSUME CacheInv, OrderInv, [Next]_vars, pc \in {"evict", "enforce"},
             NEW s \in Styles, NEW i \in Lost(s), NEW older \in 1..i - 1
      PROVE  Spared(s, older)
  <2>1. i \in 1..Len(disk[s]) /\ disk' # disk
    BY DEF Lost
  <2>2. CASE pc = "evict"
    <3>1. Evict(key)
      BY <1>1, <2>1, <2>2
         DEF Next, Write, Budget, Fetch, FetchFromMemory, FetchFromDisk, Download, Trim,
             Clean, Open, Fill, Reserve, MakeRoom, Replace, Rename, Scan, Enforce,
             Clear, ClearPath, Wear, PowerLoss, vars
    <3>2. Style(key) \in Styles /\ Looking(Style(key), key)
      BY <1>1, <2>2 DEF CacheInv, WriteOK, Saving, Styles, OrderInv
    <3> QED
      BY <1>1, <2>2, <3>1, <3>2, LostIsFirst
  <2>3. CASE pc = "enforce"
    <3>1. Evict(Nothing)
      BY <1>1, <2>1, <2>3
         DEF Next, Write, Budget, Fetch, FetchFromMemory, FetchFromDisk, Download, Trim,
             Clean, Open, Fill, Reserve, MakeRoom, Replace, Rename, Scan, Enforce,
             Clear, ClearPath, Wear, PowerLoss, vars
    <3>2. PICK t \in Styles : Looking(t, Nothing)
      BY <1>1, <2>3 DEF OrderInv
    <3>3. disk[s][older].key = Nothing \/ Refuses(disk[s][older].key, FALSE)
      BY <1>1, <3>1, <3>2, LostIsFirst
    <3>4. disk[s][older].key \in Keys
      <4>1. disk[s] \in Seq(Files) /\ Len(disk[s]) \in Nat
        BY <1>1, LenProperties DEF CacheInv, DiskOK
      <4>2. older \in 1..Len(disk[s])
        BY <1>1, <2>1, <4>1
      <4>3. disk[s][older] \in Files
        BY <4>1, <4>2, ElementOfSeq
      <4> QED
        BY <4>3 DEF Files
    <3> QED
      BY <3>3, <3>4, PayloadsAssumption
  <2> QED
    BY <1>1, <2>2, <2>3
<1>2. CacheInv /\ OrderInv /\ [Next]_vars =>
          ((pc \in {"evict", "enforce"}) =>
               \A s \in Styles : \A i \in Lost(s) : \A older \in 1..i - 1 :
                   Spared(s, older))
  BY <1>1
<1> QED
  BY <1>2, OrderInvariant, PTL DEF Spec, OldestFirst

-----------------------------------------------------------------------------
(* A list that names every tile of a set once, and what the tiles take.    *)
Lists(l, D) ==
    /\ l \in Seq(Keys)
    /\ \A i, j \in 1..Len(l) : l[i] = l[j] => i = j
    /\ \A i \in 1..Len(l) : l[i] \in D
    /\ \A k \in D : \E i \in 1..Len(l) : l[i] = k

Weights(l, e) == [i \in 1..Len(l) |-> Size(e[l[i]])]

Images(e) == \A k \in DOMAIN e : e[k] \in Payloads

Listed(m) ==
    /\ Decoded(m) /\ Lists(m.lru, DOMAIN m.entries)
    /\ m.used = SumOf(Weights(m.lru, m.entries))

(* What the tiles take are numbers.                                        *)
LEMMA WeightsAreNumbers ==
    ASSUME NEW e, NEW l \in Seq(Keys), Images(e),
           \A i \in 1..Len(l) : l[i] \in DOMAIN e
    PROVE  /\ Weights(l, e) \in Seq(Nat) /\ Len(Weights(l, e)) = Len(l)
           /\ Len(l) \in Nat
           /\ \A i \in 1..Len(l) : Weights(l, e)[i] = Size(e[l[i]])
<1>1. Len(l) \in Nat
  BY LenProperties
<1>2. \A i \in 1..Len(l) : Size(e[l[i]]) \in Nat
  BY SizesAssumption DEF Images
<1>3. Weights(l, e) \in [1..Len(l) -> Nat]
  BY <1>2 DEF Weights
<1>4. Weights(l, e) \in Seq(Nat)
  BY <1>1, <1>3, SeqDef
<1>5. Len(Weights(l, e)) = Len(l)
  BY <1>1, <1>3, <1>4, LenProperties
<1> QED
  BY <1>1, <1>4, <1>5 DEF Weights

(* So are what the tiles of a list take whose map has them.                *)
LEMMA ListedWeights ==
    ASSUME NEW e, NEW l, Images(e), Lists(l, DOMAIN e)
    PROVE  /\ Weights(l, e) \in Seq(Nat) /\ Len(Weights(l, e)) = Len(l)
           /\ \A i \in 1..Len(l) : Weights(l, e)[i] = Size(e[l[i]])
<1>1. l \in Seq(Keys) /\ \A i \in 1..Len(l) : l[i] \in DOMAIN e
  BY DEF Lists
<1> QED
  BY <1>1, WeightsAreNumbers

(* They depend on nothing but the payloads of the tiles in the list.       *)
LEMMA WeightsAgree ==
    ASSUME NEW e, NEW f, NEW l, \A i \in 1..Len(l) : e[l[i]] = f[l[i]]
    PROVE  Weights(l, e) = Weights(l, f)
BY DEF Weights

(* What is taken out first is the only one of its name.                    *)
LEMMA FirstTakenOut ==
    ASSUME NEW l \in Seq(Keys), \A i, j \in 1..Len(l) : l[i] = l[j] => i = j, NEW k
    PROVE  /\ \A n \in 1..Len(l) : l[n] = k => RemoveFirst(l, k) = RemoveAt(l, n)
           /\ (\A n \in 1..Len(l) : l[n] # k) => RemoveFirst(l, k) = l
<1>1. ASSUME NEW n \in 1..Len(l), l[n] = k
      PROVE  RemoveFirst(l, k) = RemoveAt(l, n)
  <2>1. {i \in 1..Len(l) : l[i] = k} = {n}
    BY <1>1
  <2>2. Min({n}) = n
    BY DEF Min
  <2>3. SelectInSeq(l, LAMBDA v : v = k) = n
    BY <2>1, <2>2 DEF SelectInSeq
  <2> QED
    BY <1>1, <2>3 DEF RemoveFirst
<1>2. ASSUME \A n \in 1..Len(l) : l[n] # k
      PROVE  RemoveFirst(l, k) = l
  BY <1>2 DEF RemoveFirst
<1> QED
  BY <1>1, <1>2

(* Without a tile the list names the others, which take what the tile took *)
(* less.                                                                   *)
LEMMA ListWithout ==
    ASSUME NEW e, NEW l, Images(e), Lists(l, DOMAIN e), NEW n \in 1..Len(l)
    PROVE  /\ Lists(RemoveAt(l, n), DOMAIN e \ {l[n]})
           /\ SumOf(Weights(RemoveAt(l, n), e)) + Size(e[l[n]]) = SumOf(Weights(l, e))
           /\ SumOf(Weights(RemoveAt(l, n), e)) \in Nat
<1> DEFINE rest == RemoveAt(l, n)
           D == DOMAIN e \ {l[n]}
<1>1. l \in Seq(Keys) /\ Len(l) \in Nat /\ n \in Nat
  BY LenProperties DEF Lists
<1>2. /\ rest \in Seq(Keys) /\ Len(rest) = Len(l) - 1
      /\ \A i \in 1..Len(l) - 1 : rest[i] = IF i < n THEN l[i] ELSE l[i + 1]
  BY <1>1, RemovedAt
<1> HIDE DEF rest
<1>3. ASSUME NEW i \in 1..Len(rest)
      PROVE  \E j \in 1..Len(l) : /\ j # n /\ rest[i] = l[j]
                                  /\ j = IF i < n THEN i ELSE i + 1
  <2>1. CASE i < n
    BY <1>1, <1>2, <2>1
  <2>2. CASE ~(i < n)
    <3>1. i + 1 \in 1..Len(l) /\ i + 1 # n /\ i \in 1..Len(l) - 1
      BY <1>1, <1>2, <2>2
    <3> QED
      BY <1>2, <2>2, <3>1
  <2> QED
    BY <2>1, <2>2
<1>4. ASSUME NEW i \in 1..Len(rest), NEW j \in 1..Len(rest), rest[i] = rest[j]
      PROVE  i = j
  <2>1. PICK a \in 1..Len(l) : rest[i] = l[a] /\ a = IF i < n THEN i ELSE i + 1
    BY <1>3
  <2>2. PICK b \in 1..Len(l) : rest[j] = l[b] /\ b = IF j < n THEN j ELSE j + 1
    BY <1>3
  <2>3. a = b
    BY <1>4, <2>1, <2>2 DEF Lists
  <2> QED
    BY <1>1, <2>1, <2>2, <2>3
<1>5. \A i \in 1..Len(rest) : rest[i] \in D
  BY <1>3 DEF Lists
<1>6. ASSUME NEW k \in D PROVE \E i \in 1..Len(rest) : rest[i] = k
  <2>1. PICK j \in 1..Len(l) : l[j] = k /\ j # n
    BY <1>6 DEF Lists
  <2>2. CASE j < n
    <3>1. j \in 1..Len(l) - 1
      BY <1>1, <2>2
    <3> QED
      BY <1>2, <2>1, <2>2, <3>1
  <2>3. CASE j > n
    <3>1. j - 1 \in 1..Len(l) - 1 /\ ~(j - 1 < n) /\ j - 1 + 1 = j
      BY <1>1, <2>3
    <3> QED
      BY <1>2, <2>1, <3>1
  <2> QED
    BY <1>1, <2>1, <2>2, <2>3
<1>7. Lists(rest, D)
  BY <1>2, <1>4, <1>5, <1>6 DEF Lists
<1>8. /\ Weights(l, e) \in Seq(Nat) /\ Len(Weights(l, e)) = Len(l)
      /\ \A i \in 1..Len(l) : Weights(l, e)[i] = Size(e[l[i]])
  BY ListedWeights
<1>9. /\ Weights(rest, e) \in Seq(Nat) /\ Len(Weights(rest, e)) = Len(rest)
      /\ \A i \in 1..Len(rest) : Weights(rest, e)[i] = Size(e[rest[i]])
  <2>1. \A i \in 1..Len(rest) : rest[i] \in DOMAIN e
    BY <1>5
  <2> QED
    BY <1>2, <2>1, WeightsAreNumbers
<1>10. ASSUME NEW i \in 1..Len(rest)
       PROVE  Weights(rest, e)[i] = IF i < n THEN Weights(l, e)[i]
                                    ELSE Weights(l, e)[i + 1]
  BY <1>3, <1>8, <1>9
<1>11. SumOf(Weights(l, e)) = SumOf(Weights(rest, e)) + Weights(l, e)[n]
  BY <1>2, <1>8, <1>9, <1>10, SumWithout
<1>12. SumOf(Weights(rest, e)) \in Nat
  BY <1>9, SumIsNatural
<1> QED
  BY <1>7, <1>8, <1>11, <1>12 DEF rest

(* A tile that is put at the front.                                        *)
LEMMA ListWith ==
    ASSUME NEW e, NEW l, NEW D, Lists(l, D), Images(e), NEW k \in Keys,
           k \notin D, DOMAIN e = D \cup {k}
    PROVE  /\ Lists(<<k>> \o l, DOMAIN e)
           /\ SumOf(Weights(<<k>> \o l, e)) = SumOf(Weights(l, e)) + Size(e[k])
<1> DEFINE more == <<k>> \o l
<1>1. l \in Seq(Keys) /\ Len(l) \in Nat
  BY LenProperties DEF Lists
<1>2. /\ more \in Seq(Keys) /\ Len(more) = Len(l) + 1 /\ more[1] = k
      /\ \A i \in 1..Len(l) : more[i + 1] = l[i]
  <2>1. <<k>> \in Seq(Keys) /\ Len(<<k>>) = 1 /\ <<k>>[1] = k
    OBVIOUS
  <2>2. /\ more \in Seq(Keys) /\ Len(more) = 1 + Len(l)
        /\ \A i \in 1..1 + Len(l) : more[i] = IF i <= 1 THEN <<k>>[i] ELSE l[i - 1]
    BY <1>1, <2>1, ConcatProperties
  <2> HIDE DEF more
  <2>3. more[1] = k
    BY <1>1, <2>1, <2>2
  <2>4. ASSUME NEW i \in 1..Len(l) PROVE more[i + 1] = l[i]
    <3>1. i + 1 \in 1..1 + Len(l) /\ ~(i + 1 <= 1) /\ i + 1 - 1 = i
      BY <1>1
    <3> QED
      BY <2>2, <3>1
  <2> QED
    BY <1>1, <2>2, <2>3, <2>4
<1> HIDE DEF more
<1>3. ASSUME NEW i \in 1..Len(more)
      PROVE  \/ i = 1 /\ more[i] = k
             \/ i - 1 \in 1..Len(l) /\ more[i] = l[i - 1]
  <2>1. i = 1 \/ (i - 1 \in 1..Len(l) /\ i - 1 + 1 = i)
    BY <1>1, <1>2
  <2> QED
    BY <1>2, <2>1
<1>4. Lists(more, DOMAIN e)
  <2>1. ASSUME NEW i \in 1..Len(more), NEW j \in 1..Len(more), more[i] = more[j]
        PROVE  i = j
    <3>1. i \in Nat /\ j \in Nat
      BY <1>1, <1>2
    <3>2. \A h \in 1..Len(l) : l[h] # k
      BY DEF Lists
    <3>3. CASE i = 1 \/ j = 1
      BY <1>3, <2>1, <3>2, <3>3
    <3>4. CASE ~(i = 1 \/ j = 1)
      <4>1. i - 1 \in 1..Len(l) /\ j - 1 \in 1..Len(l) /\ l[i - 1] = l[j - 1]
        BY <1>3, <2>1, <3>4
      <4>2. i - 1 = j - 1
        BY <4>1 DEF Lists
      <4> QED
        BY <3>1, <4>2
    <3> QED
      BY <3>3, <3>4
  <2>2. \A i \in 1..Len(more) : more[i] \in DOMAIN e
    BY <1>3 DEF Lists
  <2>3. ASSUME NEW j \in DOMAIN e PROVE \E i \in 1..Len(more) : more[i] = j
    <3>1. CASE j = k
      <4>1. 1 \in 1..Len(more)
        BY <1>1, <1>2
      <4> QED
        BY <1>2, <3>1, <4>1
    <3>2. CASE j \in D
      <4>1. PICK i \in 1..Len(l) : l[i] = j
        BY <3>2 DEF Lists
      <4>2. i + 1 \in 1..Len(more)
        BY <1>1, <1>2
      <4> QED
        BY <1>2, <4>1, <4>2
    <3> QED
      BY <3>1, <3>2
  <2> QED
    BY <1>2, <2>1, <2>2, <2>3 DEF Lists
<1>5. /\ Weights(more, e) \in Seq(Nat) /\ Len(Weights(more, e)) = Len(more)
      /\ \A i \in 1..Len(more) : Weights(more, e)[i] = Size(e[more[i]])
  BY <1>4, ListedWeights
<1>6. /\ Weights(l, e) \in Seq(Nat) /\ Len(Weights(l, e)) = Len(l)
      /\ \A i \in 1..Len(l) : Weights(l, e)[i] = Size(e[l[i]])
  <2>1. \A i \in 1..Len(l) : l[i] \in DOMAIN e
    BY DEF Lists
  <2> QED
    BY <1>1, <2>1, WeightsAreNumbers
<1>7. 1 \in 1..Len(more) /\ Len(l) = Len(more) - 1
  BY <1>1, <1>2
<1>8. ASSUME NEW i \in 1..Len(l)
      PROVE  /\ ~(i < 1)
             /\ Weights(l, e)[i] = Weights(more, e)[i + 1]
  <2>1. i + 1 \in 1..Len(more) /\ ~(i < 1)
    BY <1>1, <1>2
  <2> QED
    BY <1>2, <1>5, <1>6, <2>1
<1>9. SumOf(Weights(more, e)) = SumOf(Weights(l, e)) + Weights(more, e)[1]
  <2>1. \A i \in 1..Len(Weights(l, e)) :
            Weights(l, e)[i] = IF i < 1 THEN Weights(more, e)[i]
                               ELSE Weights(more, e)[i + 1]
    BY <1>6, <1>8
  <2> QED
    BY <1>5, <1>6, <1>7, <2>1, SumWithout
<1> QED
  BY <1>2, <1>4, <1>5, <1>7, <1>9 DEF more


(* What touching a tile leaves of the list, and of the bytes in use.       *)
LEMMA Touched ==
    ASSUME NEW m, Listed(m), NEW k \in Keys
    PROVE  /\ Touch(m, k).lru = <<k>> \o RemoveFirst(m.lru, k)
           /\ Touch(m, k).entries = m.entries /\ Touch(m, k).used = m.used
           /\ Lists(RemoveFirst(m.lru, k), DOMAIN m.entries \ {k})
           /\ SumOf(Weights(RemoveFirst(m.lru, k), m.entries)) \in Nat
           /\ m.used = SumOf(Weights(RemoveFirst(m.lru, k), m.entries))
                         + IF Cached(m, k) THEN Size(m.entries[k]) ELSE 0
<1> DEFINE rest == RemoveFirst(m.lru, k)
           sum == SumOf(Weights(rest, m.entries))
<1>1. /\ Lists(m.lru, DOMAIN m.entries) /\ Images(m.entries)
      /\ m.used = SumOf(Weights(m.lru, m.entries))
  BY DEF Listed, Decoded, Images
<1>2. /\ Touch(m, k).lru = <<k>> \o rest
      /\ Touch(m, k).entries = m.entries /\ Touch(m, k).used = m.used
  <2>1. m = [lru |-> m.lru, entries |-> m.entries, used |-> m.used]
    BY DEF Listed, Decoded
  <2> QED
    BY <2>1 DEF Touch
<1>3. CASE Cached(m, k)
  <2>1. PICK n \in 1..Len(m.lru) : m.lru[n] = k
    BY <1>1, <1>3 DEF Lists, Cached
  <2>2. rest = RemoveAt(m.lru, n)
    BY <1>1, <2>1, FirstTakenOut DEF Lists
  <2>3. /\ Lists(rest, DOMAIN m.entries \ {k}) /\ sum \in Nat
        /\ sum + Size(m.entries[k]) = SumOf(Weights(m.lru, m.entries))
    BY <1>1, <2>1, <2>2, ListWithout
  <2> QED
    BY <1>1, <1>2, <1>3, <2>3
<1>4. CASE ~Cached(m, k)
  <2>1. \A n \in 1..Len(m.lru) : m.lru[n] # k
    BY <1>1, <1>4 DEF Lists, Cached
  <2>2. rest = m.lru
    BY <1>1, <2>1, FirstTakenOut DEF Lists
  <2>3. sum \in Nat
    <3>1. Weights(rest, m.entries) \in Seq(Nat)
      BY <1>1, <2>2, ListedWeights
    <3> QED
      BY <3>1, SumIsNatural
  <2>4. Lists(rest, DOMAIN m.entries \ {k})
    BY <1>1, <1>4, <2>2 DEF Lists, Cached
  <2> HIDE DEF rest
  <2>5. m.used = sum + 0
    BY <1>1, <2>2, <2>3
  <2> QED
    BY <1>2, <1>4, <2>3, <2>4, <2>5 DEF rest
<1> QED
  BY <1>3, <1>4

(* A lookup keeps the list and the bytes in use.                           *)
LEMMA TouchLists ==
    ASSUME NEW m, Listed(m), NEW k \in Keys, Cached(m, k)
    PROVE  Listed(Touch(m, k)) /\ Touch(m, k).used = m.used
<1> DEFINE rest == RemoveFirst(m.lru, k)
<1>1. /\ Touch(m, k).lru = <<k>> \o rest
      /\ Touch(m, k).entries = m.entries /\ Touch(m, k).used = m.used
      /\ Lists(rest, DOMAIN m.entries \ {k})
      /\ m.used = SumOf(Weights(rest, m.entries)) + Size(m.entries[k])
  BY Touched
<1> HIDE DEF rest
<1>2. Images(m.entries) /\ DOMAIN m.entries = (DOMAIN m.entries \ {k}) \cup {k}
  BY DEF Listed, Decoded, Images, Cached
<1>3. /\ Lists(<<k>> \o rest, DOMAIN m.entries)
      /\ SumOf(Weights(<<k>> \o rest, m.entries))
           = SumOf(Weights(rest, m.entries)) + Size(m.entries[k])
  BY <1>1, <1>2, ListWith
<1>4. Decoded(Touch(m, k))
  BY TouchKeeps DEF Listed
<1> QED
  BY <1>1, <1>3, <1>4 DEF Listed

(* A payload that is put replaces the one of its tile in the list and in   *)
(* the bytes in use.                                                       *)
LEMMA PutLists ==
    ASSUME NEW m, Listed(m), NEW k \in Keys, NEW p \in Payloads
    PROVE  Listed(Put(m, k, p))
<1>1. CASE Size(p) = 0 \/ Size(p) > MemoryBudget
  BY <1>1 DEF Put
<1>2. CASE ~(Size(p) = 0 \/ Size(p) > MemoryBudget)
  <2> DEFINE rest == RemoveFirst(m.lru, k)
             freed == IF Cached(m, k) THEN Size(m.entries[k]) ELSE 0
             entries == [other \in DOMAIN m.entries \cup {k} |->
                            IF other = k THEN p ELSE m.entries[other]]
             D == DOMAIN m.entries \ {k}
  <2>1. /\ Touch(m, k).lru = <<k>> \o rest /\ Lists(rest, D)
        /\ SumOf(Weights(rest, m.entries)) \in Nat
        /\ m.used = SumOf(Weights(rest, m.entries)) + freed
    BY Touched
  <2>2. Put(m, k, p) = [lru |-> Touch(m, k).lru, entries |-> entries,
                        used |-> m.used - freed + Size(p)]
    BY <1>2 DEF Put
  <2>3. Images(entries) /\ DOMAIN entries = D \cup {k} /\ k \notin D /\ entries[k] = p
    BY DEF Listed, Decoded, Images
  <2>4. Size(p) \in Nat /\ freed \in Nat
    BY SizesAssumption DEF Listed, Decoded, Cached
  <2>5. Weights(rest, entries) = Weights(rest, m.entries)
    <3>1. \A i \in 1..Len(rest) : entries[rest[i]] = m.entries[rest[i]]
      BY <2>1 DEF Lists
    <3> HIDE DEF entries
    <3> QED
      BY <3>1, WeightsAgree
  <2>6. Decoded(Put(m, k, p))
    BY PutKeeps DEF Listed
  <2> HIDE DEF rest, freed, entries, D
  <2>7. /\ Lists(<<k>> \o rest, DOMAIN entries)
        /\ SumOf(Weights(<<k>> \o rest, entries))
             = SumOf(Weights(rest, entries)) + Size(p)
    BY <2>1, <2>3, ListWith
  <2>8. m.used - freed + Size(p) = SumOf(Weights(<<k>> \o rest, entries))
    BY <2>1, <2>4, <2>5, <2>7
  <2> QED
    BY <2>1, <2>2, <2>6, <2>7, <2>8 DEF Listed
<1> QED
  BY <1>1, <1>2

(* A round of trim takes the last tile of the list, and what it takes.     *)
LEMMA DropLists ==
    ASSUME NEW m, Listed(m), m.lru # <<>>
    PROVE  Listed(DropOldest(m))
<1> DEFINE n == Len(m.lru)
           victim == m.lru[n]
           entries == [k \in DOMAIN m.entries \ {victim} |-> m.entries[k]]
<1>1. /\ Lists(m.lru, DOMAIN m.entries) /\ Images(m.entries)
      /\ m.used = SumOf(Weights(m.lru, m.entries)) /\ m.lru \in Seq(Keys)
  BY DEF Listed, Decoded, Images, Lists
<1>2. n \in 1..Len(m.lru) /\ n \in Nat
  BY <1>1, EmptySeq, LenProperties
<1>3. Front(m.lru) = RemoveAt(m.lru, n)
  <2>1. /\ RemoveAt(m.lru, n) \in Seq(Keys) /\ Len(RemoveAt(m.lru, n)) = n - 1
        /\ \A i \in 1..n - 1 : RemoveAt(m.lru, n)[i] = m.lru[i]
    <3>1. /\ RemoveAt(m.lru, n) \in Seq(Keys) /\ Len(RemoveAt(m.lru, n)) = n - 1
          /\ \A i \in 1..n - 1 : RemoveAt(m.lru, n)[i] = IF i < n THEN m.lru[i]
                                                         ELSE m.lru[i + 1]
      BY <1>1, <1>2, RemovedAt
    <3> QED
      BY <1>2, <3>1
  <2>2. /\ Front(m.lru) \in Seq(Keys) /\ Len(Front(m.lru)) = n - 1
        /\ \A i \in 1..n - 1 : Front(m.lru)[i] = m.lru[i]
    <3>1. \A i \in 1..n - 1 : m.lru[i] \in Keys
      BY <1>1, <1>2, ElementOfSeq
    <3>2. /\ SubSeq(m.lru, 1, n - 1) \in Seq(Keys)
          /\ Len(SubSeq(m.lru, 1, n - 1)) = IF 1 <= n - 1 THEN n - 1 - 1 + 1 ELSE 0
          /\ \A i \in 1..n - 1 - 1 + 1 : SubSeq(m.lru, 1, n - 1)[i] = m.lru[1 + i - 1]
      BY <1>2, <3>1, SubSeqProperties
    <3> QED
      BY <1>2, <3>2 DEF Front
  <2> HIDE DEF n
  <2> QED
    BY <2>1, <2>2, SeqEqual
<1>4. /\ Lists(Front(m.lru), DOMAIN m.entries \ {victim})
      /\ SumOf(Weights(Front(m.lru), m.entries)) + Size(m.entries[victim]) = m.used
      /\ SumOf(Weights(Front(m.lru), m.entries)) \in Nat
  BY <1>1, <1>2, <1>3, ListWithout
<1>5. Weights(Front(m.lru), entries) = Weights(Front(m.lru), m.entries)
  <2>1. \A i \in 1..Len(Front(m.lru)) :
            entries[Front(m.lru)[i]] = m.entries[Front(m.lru)[i]]
    BY <1>4 DEF Lists
  <2> HIDE DEF entries
  <2> QED
    BY <2>1, WeightsAgree
<1>6. Size(m.entries[victim]) \in Nat
  <2>1. victim \in DOMAIN m.entries
    BY <1>1, <1>2 DEF Lists
  <2> QED
    BY <1>1, <2>1, SizesAssumption DEF Images
<1>7. DropOldest(m) = [lru |-> Front(m.lru), entries |-> entries,
                       used |-> m.used - Size(m.entries[victim])]
  BY DEF DropOldest, Last
<1>8. Decoded(DropOldest(m))
  BY DropKeeps DEF Listed
<1>9. DOMAIN entries = DOMAIN m.entries \ {victim}
  OBVIOUS
<1> HIDE DEF entries, victim, n
<1>10. m.used - Size(m.entries[victim]) = SumOf(Weights(Front(m.lru), entries))
  BY <1>4, <1>5, <1>6
<1> QED
  BY <1>4, <1>7, <1>8, <1>9, <1>10 DEF Listed

(* Nothing is in the list of an empty cache.                               *)
LEMMA NoMemoryLists == Listed(NoMemory) /\ NoMemory.used = 0
<1> DEFINE e == NoMemory.entries
<1>1. Lists(NoMemory.lru, DOMAIN e) /\ Images(e) /\ Len(NoMemory.lru) = 0
  BY EmptySeq DEF NoMemory, Lists, Images
<1>2. SumOf(Weights(NoMemory.lru, e)) = 0
  <2>1. Weights(NoMemory.lru, e) \in Seq(Nat) /\ Len(Weights(NoMemory.lru, e)) = 0
    BY <1>1, ListedWeights
  <2> QED
    BY <2>1, SumIsNatural
<1> QED
  BY <1>1, <1>2, NothingInMemory DEF NoMemory, Listed


(* used_bytes_ of the model is added up along the list.                    *)
LEMMA UsedIsSum ==
    ASSUME NEW e, NEW l \in Seq(Keys), Images(e),
           \A i \in 1..Len(l) : l[i] \in DOMAIN e
    PROVE  FoldLeft(LAMBDA sum, k : sum + Size(e[k]), 0, l) = SumOf(Weights(l, e))
<1> DEFINE n == Len(l)
           w == Weights(l, e)
           Solves(g) == g = [T \in SUBSET (1..n) |->
                                IF T = {} THEN 0
                                ELSE g[T \ {Max(T)}] + Size(e[l[Max(T)]])]
           h == CHOOSE g : Solves(g)
<1>1. n \in Nat /\ DOMAIN l = 1..n
  BY LenProperties
<1>2. FoldLeft(LAMBDA sum, k : sum + Size(e[k]), 0, l) = h[1..n]
  BY <1>1 DEF FoldLeft, MapThenFoldSet
<1>3. /\ w \in Seq(Nat) /\ Len(w) = n
      /\ \A i \in 1..n : w[i] = Size(e[l[i]])
  BY WeightsAreNumbers
<1> HIDE DEF n, w
<1>4. \A T \in SUBSET (1..n) : T # {} => w[Max(T)] = Size(e[l[Max(T)]])
  BY <1>1, <1>3, MaxIsGreatest
<1>5. ASSUME NEW g PROVE Solves(g) <=> Folds(g, w, n)
  <2>1. [T \in SUBSET (1..n) |->
            IF T = {} THEN 0 ELSE g[T \ {Max(T)}] + Size(e[l[Max(T)]])]
        = [T \in SUBSET (1..n) |->
              IF T = {} THEN 0 ELSE g[T \ {Max(T)}] + w[Max(T)]]
    BY <1>4
  <2> QED
    BY <2>1 DEF Folds
<1>6. \E g : Solves(g)
  BY <1>1, <1>5, FoldExists
<1> HIDE DEF Solves
<1>7. Folds(h, w, n)
  BY <1>5, <1>6
<1> QED
  BY <1>2, <1>3, <1>7, FoldIsSum DEF w

(* An empty list takes nothing.                                            *)
LEMMA UsedIsNatural ==
    ASSUME NEW m, Listed(m)
    PROVE  m.used \in Nat /\ (m.lru = <<>> => m.used = 0)
<1> DEFINE w == Weights(m.lru, m.entries)
<1>1. m.lru \in Seq(Keys) /\ w \in Seq(Nat) /\ Len(w) = Len(m.lru)
  <2>1. Lists(m.lru, DOMAIN m.entries) /\ Images(m.entries)
    BY DEF Listed, Decoded, Images
  <2> QED
    BY <2>1, ListedWeights DEF Lists
<1>2. m.used = SumOf(w)
  BY DEF Listed
<1> HIDE DEF w
<1>3. m.lru = <<>> => Len(w) = 0
  BY <1>1, EmptySeq
<1> QED
  BY <1>1, <1>2, <1>3, SumIsNatural

-----------------------------------------------------------------------------
(* The memory cache is in order, and within its budget outside of trim.    *)
MemInv ==
    /\ Listed(memory)
    /\ pc # "trim" => memory.used <= MemoryBudget

LEMMA MemoryStep ==
    ASSUME CacheInv, MemInv, [Next]_vars
    PROVE  MemInv'
<1>1. CASE UNCHANGED memory /\ (pc' = "trim" \/ pc # "trim")
  BY <1>1 DEF MemInv
<1>2. CASE memory' = NoMemory
  BY <1>2, NoMemoryLists, SizesAssumption DEF MemInv
<1>3. ASSUME NEW k \in Keys, FetchFromMemory(k) PROVE MemInv'
  <2>1. /\ Listed(Touch(memory, k)) /\ Touch(memory, k).used = memory.used
        /\ Touch(memory, k).entries = memory.entries
    BY <1>3, TouchLists, TouchKeeps DEF MemInv, FetchFromMemory, Listed
  <2>2. memory.entries[k] \in Payloads
    BY <1>3 DEF FetchFromMemory, MemInv, Listed, Decoded, Cached
  <2>3. Listed(Put(Touch(memory, k), k, memory.entries[k]))
    BY <2>1, <2>2, PutLists
  <2> QED
    BY <1>3, <2>1, <2>3 DEF FetchFromMemory, MemInv
<1>4. ASSUME NEW k \in Keys, FetchFromDisk(k) PROVE MemInv'
  <2>1. CASE UNCHANGED <<memory, pc>>
    BY <2>1 DEF MemInv
  <2>2. CASE /\ Decodes(File(k).data) /\ pc' = "trim"
             /\ memory' = Put(memory, k, File(k).data)
    BY <2>2, PutLists DEF MemInv, Decodes
  <2> QED
    BY <1>4, <2>1, <2>2 DEF FetchFromDisk
<1>5. ASSUME NEW k \in Keys, NEW p \in Payloads, Download(k, p) PROVE MemInv'
  BY <1>5, PutLists DEF MemInv, Download
<1>6. CASE Trim
  <2>1. CASE memory.used > MemoryBudget /\ memory.lru # <<>>
    BY <1>6, <2>1, DropLists DEF Trim, MemInv
  <2>2. CASE ~(memory.used > MemoryBudget /\ memory.lru # <<>>)
    <3>1. UNCHANGED memory
      BY <1>6, <2>2 DEF Trim
    <3>2. memory.used \in Nat /\ (memory.lru = <<>> => memory.used = 0)
      BY UsedIsNatural DEF MemInv
    <3>3. memory.used <= MemoryBudget
      BY <2>2, <3>2, SizesAssumption
    <3> QED
      BY <3>1, <3>3 DEF MemInv
  <2> QED
    BY <2>1, <2>2
<1>7. CASE Clean \/ Open \/ Fill \/ Reserve \/ MakeRoom \/ Replace \/ Rename \/ Budget
           \/ ClearPath \/ Wear
  BY <1>1, <1>7 DEF Clean, Open, Fill, Reserve, MakeRoom, Replace, Rename, Budget,
                    Scan, Enforce, ClearPath, Wear
<1>8. CASE Clear \/ PowerLoss
  BY <1>2, <1>8 DEF Clear, PowerLoss
<1>9. CASE UNCHANGED vars
  BY <1>9 DEF vars, MemInv
<1> QED
  BY <1>3, <1>4, <1>5, <1>6, <1>7, <1>8, <1>9 DEF Next, Fetch, Write

LEMMA MemoryInvariant == Spec => [](CacheInv /\ MemInv)
<1>1. Init => MemInv
  BY NoMemoryLists, SizesAssumption DEF Init, MemInv
<1>2. CacheInv /\ MemInv /\ [Next]_vars => MemInv'
  BY MemoryStep
<1> QED
  BY <1>1, <1>2, CacheInvariant, PTL DEF Spec

(* The list and the map of the memory cache name the same tiles, each of   *)
(* them once; used_bytes_ is what their payloads take, whatever is put,    *)
(* looked up, trimmed and cleared; and it fits the budget whenever trim is *)
(* through (memory_cache.cpp:10-59).                                       *)
THEOREM MemoryInOrder == Spec => []MemoryAgrees
<1>1. ASSUME MemInv PROVE MemoryAgrees
  <2>1. /\ Lists(memory.lru, DOMAIN memory.entries) /\ Images(memory.entries)
        /\ memory.lru \in Seq(Keys) /\ DOMAIN memory.lru = 1..Len(memory.lru)
        /\ memory.used = SumOf(Weights(memory.lru, memory.entries))
    BY <1>1, LenProperties DEF MemInv, Listed, Decoded, Images, Lists
  <2>2. IsInjective(memory.lru)
    BY <2>1 DEF IsInjective, Lists
  <2>3. ToSet(memory.lru) = DOMAIN memory.entries
    BY <2>1 DEF ToSet, Lists
  <2>4. memory.used = FoldLeft(LAMBDA sum, k : sum + Size(memory.entries[k]),
                               0, memory.lru)
    BY <2>1, UsedIsSum DEF Lists
  <2> QED
    BY <1>1, <2>2, <2>3, <2>4 DEF MemoryAgrees, MemInv
<1> QED
  BY <1>1, MemoryInvariant, PTL


-----------------------------------------------------------------------------
(* What the files of a style take.                                         *)
Sizes(files) == [i \in 1..Len(files) |-> Size(files[i].data)]

LEMMA SizesAreNumbers ==
    ASSUME NEW files \in Seq(Files)
    PROVE  /\ Sizes(files) \in Seq(Nat) /\ Len(Sizes(files)) = Len(files)
           /\ Len(files) \in Nat
           /\ \A i \in 1..Len(files) : Sizes(files)[i] = Size(files[i].data)
<1>1. Len(files) \in Nat
  BY LenProperties
<1>2. \A i \in 1..Len(files) : Size(files[i].data) \in Nat
  <2>1. \A i \in 1..Len(files) : files[i] \in Files
    BY ElementOfSeq
  <2> QED
    BY <2>1, SizesAssumption DEF Files
<1>3. Sizes(files) \in [1..Len(files) -> Nat]
  BY <1>2 DEF Sizes
<1>4. Sizes(files) \in Seq(Nat)
  BY <1>1, <1>3, SeqDef
<1>5. Len(Sizes(files)) = Len(files)
  BY <1>1, <1>3, <1>4, LenProperties
<1> QED
  BY <1>1, <1>4, <1>5 DEF Sizes

(* The total of the model is added up along the files.                     *)
LEMMA TotalIsSum ==
    ASSUME NEW files \in Seq(Files)
    PROVE  Total(files) = SumOf(Sizes(files)) /\ Total(files) \in Nat
<1> DEFINE n == Len(files)
           w == Sizes(files)
           Solves(g) == g = [T \in SUBSET (1..n) |->
                                IF T = {} THEN 0
                                ELSE g[T \ {Max(T)}] + Size(files[Max(T)].data)]
           h == CHOOSE g : Solves(g)
<1>1. n \in Nat /\ DOMAIN files = 1..n
  BY LenProperties
<1>2. Total(files) = h[1..n]
  BY <1>1 DEF Total, FoldLeft, MapThenFoldSet
<1>3. /\ w \in Seq(Nat) /\ Len(w) = n
      /\ \A i \in 1..n : w[i] = Size(files[i].data)
  BY SizesAreNumbers
<1> HIDE DEF n, w
<1>4. \A T \in SUBSET (1..n) : T # {} => w[Max(T)] = Size(files[Max(T)].data)
  BY <1>1, <1>3, MaxIsGreatest
<1>5. ASSUME NEW g PROVE Solves(g) <=> Folds(g, w, n)
  <2>1. [T \in SUBSET (1..n) |->
            IF T = {} THEN 0 ELSE g[T \ {Max(T)}] + Size(files[Max(T)].data)]
        = [T \in SUBSET (1..n) |->
              IF T = {} THEN 0 ELSE g[T \ {Max(T)}] + w[Max(T)]]
    BY <1>4
  <2> QED
    BY <2>1 DEF Folds
<1>6. \E g : Solves(g)
  BY <1>1, <1>5, FoldExists
<1> HIDE DEF Solves
<1>7. Folds(h, w, n)
  BY <1>5, <1>6
<1> QED
  BY <1>2, <1>3, <1>7, FoldIsSum, SumIsNatural DEF w

(* A file behind the others adds its size.                                 *)
LEMMA TotalWith ==
    ASSUME NEW files \in Seq(Files), NEW f \in Files
    PROVE  Total(Append(files, f)) = Total(files) + Size(f.data)
<1> DEFINE more == Append(files, f)
           n == Len(files)
<1>1. /\ more \in Seq(Files) /\ Len(more) = n + 1 /\ n \in Nat
      /\ \A i \in 1..n : more[i] = files[i]
      /\ more[n + 1] = f
  BY AppendProperties, LenProperties
<1> HIDE DEF more
<1>2. /\ Sizes(files) \in Seq(Nat) /\ Len(Sizes(files)) = n
      /\ \A i \in 1..n : Sizes(files)[i] = Size(files[i].data)
  BY SizesAreNumbers
<1>3. /\ Sizes(more) \in Seq(Nat) /\ Len(Sizes(more)) = n + 1
      /\ \A i \in 1..n + 1 : Sizes(more)[i] = Size(more[i].data)
  BY <1>1, SizesAreNumbers
<1> HIDE DEF n
<1>4. ASSUME NEW i \in 1..n
      PROVE  i < n + 1 /\ Sizes(files)[i] = Sizes(more)[i]
  BY <1>1, <1>2, <1>3
<1>5. SumOf(Sizes(more)) = SumOf(Sizes(files)) + Sizes(more)[n + 1]
  <2>1. n + 1 \in 1..Len(Sizes(more)) /\ Len(Sizes(files)) = Len(Sizes(more)) - 1
    BY <1>1, <1>2, <1>3
  <2>2. \A i \in 1..Len(Sizes(files)) :
            Sizes(files)[i] = IF i < n + 1 THEN Sizes(more)[i] ELSE Sizes(more)[i + 1]
    BY <1>2, <1>4
  <2> QED
    BY <1>2, <1>3, <2>1, <2>2, SumWithout
<1>6. Sizes(more)[n + 1] = Size(f.data)
  BY <1>1, <1>3
<1> QED
  BY <1>1, <1>5, <1>6, TotalIsSum DEF more

(* What the file of a tile takes, if there is one.                         *)
SizeOf(files, k) ==
    IF Has(files, k) THEN Size(files[Position(files, k)].data) ELSE 0

LEMMA TotalWithout ==
    ASSUME NEW files \in Seq(Files), NEW k
    PROVE  /\ Total(files) = Total(OtherKeys(files, k)) + SizeOf(files, k)
           /\ Total(OtherKeys(files, k)) \in Nat /\ SizeOf(files, k) \in Nat
           /\ Total(files) \in Nat
<1>0. OtherKeys(files, k) \in Seq(Files)
  BY OtherKeysAreThere
<1>1. Total(OtherKeys(files, k)) \in Nat /\ Total(files) \in Nat
  BY <1>0, TotalIsSum
<1>2. CASE ~Has(files, k)
  BY <1>1, <1>2 DEF OtherKeys, SizeOf
<1>3. CASE Has(files, k)
  <2> DEFINE n == Position(files, k)
             rest == RemoveAt(files, n)
  <2>1. n \in 1..Len(files) /\ files[n] \in Files
    BY <1>3, ElementOfSeq DEF Has, Position
  <2>2. OtherKeys(files, k) = rest /\ SizeOf(files, k) = Size(files[n].data)
    BY <1>3 DEF OtherKeys, SizeOf
  <2>3. Size(files[n].data) \in Nat
    BY <2>1, SizesAssumption DEF Files
  <2> HIDE DEF n
  <2>4. /\ rest \in Seq(Files) /\ Len(rest) = Len(files) - 1
        /\ \A i \in 1..Len(files) - 1 :
               rest[i] = IF i < n THEN files[i] ELSE files[i + 1]
    BY <2>1, RemovedAt
  <2> HIDE DEF rest
  <2>5. /\ Sizes(files) \in Seq(Nat) /\ Len(Sizes(files)) = Len(files)
        /\ Len(files) \in Nat
        /\ \A i \in 1..Len(files) : Sizes(files)[i] = Size(files[i].data)
    BY SizesAreNumbers
  <2>6. /\ Sizes(rest) \in Seq(Nat) /\ Len(Sizes(rest)) = Len(files) - 1
        /\ \A i \in 1..Len(files) - 1 : Sizes(rest)[i] = Size(rest[i].data)
    BY <2>4, SizesAreNumbers
  <2>7. ASSUME NEW i \in 1..Len(files) - 1
        PROVE  Sizes(rest)[i] = IF i < n THEN Sizes(files)[i] ELSE Sizes(files)[i + 1]
    <3>1. i \in 1..Len(files) /\ i + 1 \in 1..Len(files)
      BY <2>5
    <3> QED
      BY <2>4, <2>5, <2>6, <3>1
  <2>8. SumOf(Sizes(files)) = SumOf(Sizes(rest)) + Sizes(files)[n]
    BY <2>1, <2>5, <2>6, <2>7, SumWithout
  <2>9. Total(files) = Total(rest) + Size(files[n].data)
    BY <2>1, <2>4, <2>5, <2>8, TotalIsSum
  <2> QED
    BY <1>1, <2>2, <2>3, <2>9
<1> QED
  BY <1>2, <1>3

(* The file of a tile takes what it took when another one is taken out.    *)
LEMMA OthersSize ==
    ASSUME NEW files \in Seq(Files), Distinct(files), NEW k, NEW l, k # l
    PROVE  SizeOf(OtherKeys(files, k), l) = SizeOf(files, l)
<1>1. CASE ~Has(files, k)
  BY <1>1 DEF OtherKeys
<1>2. CASE Has(files, k)
  <2> DEFINE rest == OtherKeys(files, k)
  <2>1. PICK n \in 1..Len(files) : files[n].key = k
    BY <1>2 DEF Has
  <2>2. Len(files) \in Nat /\ n \in Nat
    BY LenProperties
  <2>3. /\ rest \in Seq(Files) /\ Len(rest) = Len(files) - 1
        /\ \A i \in 1..Len(files) - 1 :
               rest[i] = IF i < n THEN files[i] ELSE files[i + 1]
    <3>1. rest = RemoveAt(files, n)
      BY <2>1, TakenOut
    <3> QED
      BY <3>1, RemovedAt
  <2>4. Distinct(rest)
    BY OthersDistinct
  <2>5. \A i \in 1..Len(rest) : \E j \in 1..Len(files) : rest[i] = files[j]
    BY OtherKeysAreThere
  <2> HIDE DEF rest
  <2>6. ASSUME NEW j \in 1..Len(files), files[j].key = l
        PROVE  \E i \in 1..Len(rest) : rest[i] = files[j]
    <3>1. j # n
      BY <2>1, <2>6
    <3>2. CASE j < n
      <4>1. j \in 1..Len(files) - 1
        BY <2>2, <3>2
      <4> QED
        BY <2>3, <3>2, <4>1
    <3>3. CASE j > n
      <4>1. j - 1 \in 1..Len(files) - 1 /\ ~(j - 1 < n) /\ j - 1 + 1 = j
        BY <2>2, <3>3
      <4> QED
        BY <2>3, <4>1
    <3> QED
      BY <2>2, <3>1, <3>2, <3>3
  <2>7. Has(rest, l) <=> Has(files, l)
    BY <2>5, <2>6 DEF Has
  <2>8. CASE Has(files, l)
    <3>1. /\ Position(files, l) \in 1..Len(files)
          /\ files[Position(files, l)].key = l
      BY <2>8 DEF Has, Position
    <3>2. /\ Position(rest, l) \in 1..Len(rest)
          /\ rest[Position(rest, l)].key = l
      BY <2>7, <2>8 DEF Has, Position
    <3>3. PICK i \in 1..Len(rest) : rest[i] = files[Position(files, l)]
      BY <2>6, <3>1
    <3>4. i = Position(rest, l)
      BY <2>4, <3>1, <3>2, <3>3 DEF Distinct
    <3> QED
      BY <2>7, <2>8, <3>3, <3>4 DEF SizeOf, rest
  <2> QED
    BY <2>7, <2>8 DEF SizeOf, rest
<1> QED
  BY <1>1, <1>2


-----------------------------------------------------------------------------
(* The bytes a loop counts with are those of its style, and a write gets   *)
(* to its rename only when the payload fits in.                            *)
SizeInv ==
    /\ size \in Nat
    /\ pc = "evict" => size = Admitted
    /\ pc \in {"replace", "rename"} => Admitted <= DiskBudget
    /\ pc = "enforce" => \E s \in Styles : /\ size = Total(disk[s])
                                           /\ \A i \in 1..Len(todo) : Style(todo[i]) = s

(* The bytes of a style with the payload that is written.                  *)
LEMMA AdmittedBytes ==
    ASSUME CacheInv, pc \in Complete
    PROVE  /\ Admitted \in Nat /\ Size(data) \in Nat
           /\ key \in Keys /\ data \in Payloads /\ Style(key) \in Styles
           /\ disk[Style(key)] \in Seq(Files)
           /\ Admitted + SizeOf(disk[Style(key)], key)
                = Total(disk[Style(key)]) + Size(data)
<1>1. key \in Keys /\ data \in Payloads /\ Style(key) \in Styles
  BY DEF CacheInv, WriteOK, Saving, Complete, Styles
<1>2. disk[Style(key)] \in Seq(Files) /\ Size(data) \in Nat
  BY <1>1, SizesAssumption DEF CacheInv, DiskOK
<1>3. /\ Total(disk[Style(key)]) = Total(OtherKeys(disk[Style(key)], key))
                                     + SizeOf(disk[Style(key)], key)
      /\ Total(OtherKeys(disk[Style(key)], key)) \in Nat
      /\ SizeOf(disk[Style(key)], key) \in Nat
  BY <1>2, TotalWithout
<1>4. Admitted = Total(OtherKeys(disk[Style(key)], key)) + Size(data)
  BY DEF Admitted
<1> QED
  BY <1>1, <1>2, <1>3, <1>4

(* A file that is removed takes its bytes from its style.                  *)
LEMMA RemovedBytes ==
    ASSUME DiskOK, NEW k \in Keys, RemoveFile(k), Stored(k)
    PROVE  /\ disk[Style(k)] \in Seq(Files) /\ disk'[Style(k)] \in Seq(Files)
           /\ disk'[Style(k)] = OtherKeys(disk[Style(k)], k)
           /\ Total(disk[Style(k)]) = Total(disk'[Style(k)]) + Size(File(k).data)
           /\ SizeOf(disk[Style(k)], k) = Size(File(k).data)
           /\ Size(File(k).data) \in Nat /\ Total(disk'[Style(k)]) \in Nat
<1>1. Style(k) \in Styles /\ disk[Style(k)] \in Seq(Files)
  BY DEF DiskOK, Styles
<1>2. disk'[Style(k)] = OtherKeys(disk[Style(k)], k)
  BY <1>1 DEF RemoveFile, DiskOK
<1>3. SizeOf(disk[Style(k)], k) = Size(File(k).data)
  BY DEF Stored, SizeOf, File
<1>4. OtherKeys(disk[Style(k)], k) \in Seq(Files)
  BY <1>1, OtherKeysAreThere
<1> QED
  BY <1>1, <1>2, <1>3, <1>4, TotalWithout

(* A round of a loop that removes a file finds it where it should be.      *)
LEMMA RoundRemoves ==
    ASSUME CacheInv, NEW s \in Styles, NEW keep, Looking(s, keep), Evict(keep),
           ~UNCHANGED <<disk, size>>
    PROVE  /\ Head(todo) \in Keys /\ Style(Head(todo)) = s /\ Head(todo) # keep
           /\ Stored(Head(todo)) /\ RemoveFile(Head(todo))
           /\ size' = size - Size(File(Head(todo)).data)
<1>1. /\ Head(todo) \in Keys /\ Style(Head(todo)) = s
      /\ Passed(s) + 1 \in 1..Len(disk[s])
      /\ Head(todo) = disk[s][Passed(s) + 1].key
  BY RoundLooks
<1>2. Stored(Head(todo))
  BY <1>1 DEF Stored, Has
<1> QED
  BY <1>1, <1>2 DEF Evict

LEMMA SizeStep ==
    ASSUME CacheInv, OrderInv, SizeInv, [Next]_vars
    PROVE  SizeInv'
<1> USE DEF Complete
<1>1. CASE pc' \notin {"evict", "replace", "rename", "enforce"} /\ (size' = size \/ size' = 0)
  BY <1>1 DEF SizeInv
<1>2. CASE Fetch \/ Trim \/ Clean \/ Open \/ Fill \/ Clear \/ ClearPath \/ Wear \/ PowerLoss
  BY <1>1, <1>2 DEF Fetch, FetchFromMemory, FetchFromDisk, Download, Trim, Clean, Open,
                    Fill, GiveUp, Return, Clear, ClearPath, Wear, PowerLoss, loop
<1>3. CASE Reserve
  <2>1. size' = Admitted /\ pc' = "evict" /\ Admitted' = Admitted /\ pc = "reserve"
    BY <1>3 DEF Reserve, Admitted, write
  <2> QED
    BY <2>1, AdmittedBytes DEF SizeInv
<1>4. CASE MakeRoom
  <2>1. pc = "evict" /\ size = Admitted /\ Admitted \in Nat
    BY <1>4, AdmittedBytes DEF MakeRoom, SizeInv
  <2>2. CASE Evict(key) /\ UNCHANGED <<pc, write>>
    <3>1. CASE UNCHANGED <<disk, size>>
      <4>1. Admitted' = Admitted
        BY <2>2, <3>1 DEF Admitted, write
      <4> QED
        BY <2>1, <2>2, <3>1, <4>1 DEF SizeInv
    <3>2. CASE ~UNCHANGED <<disk, size>>
      <4> DEFINE k == Head(todo)
                 old == disk[Style(key)]
                 new == disk'[Style(key)]
      <4>1. Style(key) \in Styles /\ Looking(Style(key), key) /\ Distinct(old)
        BY <2>1, AdmittedBytes DEF OrderInv
      <4>2. /\ k \in Keys /\ Style(k) = Style(key) /\ k # key
            /\ Stored(k) /\ RemoveFile(k) /\ size' = size - Size(File(k).data)
        BY <2>2, <3>2, <4>1, RoundRemoves
      <4>3. /\ old \in Seq(Files) /\ new \in Seq(Files) /\ new = OtherKeys(old, k)
            /\ Total(old) = Total(new) + Size(File(k).data)
            /\ Size(File(k).data) \in Nat /\ Total(new) \in Nat
        BY <4>2, RemovedBytes DEF CacheInv
      <4>4. SizeOf(new, key) = SizeOf(old, key)
        BY <4>1, <4>2, <4>3, OthersSize
      <4>5. Admitted' = Total(OtherKeys(new, key)) + Size(data)
        BY <2>2 DEF Admitted, write
      <4>6. /\ Total(new) = Total(OtherKeys(new, key)) + SizeOf(new, key)
            /\ Total(OtherKeys(new, key)) \in Nat /\ SizeOf(new, key) \in Nat
        BY <4>3, TotalWithout
      <4>7. Admitted + SizeOf(old, key) = Total(old) + Size(data) /\ Size(data) \in Nat
        BY <2>1, AdmittedBytes
      <4> HIDE DEF k, old, new
      <4>8. size' = Admitted' /\ size' \in Nat
        BY <2>1, <4>2, <4>3, <4>4, <4>5, <4>6, <4>7, SMTT(30)
      <4> QED
        BY <2>1, <2>2, <4>8 DEF SizeInv
    <3> QED
      BY <3>1, <3>2
  <2>3. CASE /\ size' = 0 /\ UNCHANGED disk /\ size <= DiskBudget
             /\ pc' = "replace" /\ UNCHANGED write
    <3>1. Admitted' = Admitted
      BY <2>3 DEF Admitted, write
    <3> QED
      BY <2>1, <2>3, <3>1 DEF SizeInv
  <2>4. CASE size' = 0 /\ GiveUp
    BY <1>1, <2>4 DEF GiveUp, Return
  <2> QED
    BY <1>4, <2>2, <2>3, <2>4 DEF MakeRoom, EnoughRoom
<1>5. CASE Replace
  <2> DEFINE old == disk[Style(key)]
  <2>1. /\ pc = "replace" /\ pc' = "rename" /\ UNCHANGED <<key, data, size>>
        /\ Admitted <= DiskBudget
    BY <1>5 DEF Replace, SizeInv, write, loop
  <2>2. old \in Seq(Files) /\ Distinct(old) /\ Style(key) \in Styles
    BY <2>1, AdmittedBytes DEF OrderInv
  <2>3. OtherKeys(disk'[Style(key)], key) = OtherKeys(old, key)
    <3>1. CASE UNCHANGED disk
      BY <3>1
    <3>2. CASE RemoveFile(key)
      <4>1. disk'[Style(key)] = OtherKeys(old, key)
        BY <2>2, <3>2 DEF RemoveFile, CacheInv, DiskOK
      <4>2. ~Has(OtherKeys(old, key), key)
        BY <2>2, OthersDistinct
      <4> QED
        BY <4>1, <4>2 DEF OtherKeys
    <3> QED
      BY <1>5, <3>1, <3>2 DEF Replace
  <2>4. Admitted' = Admitted
    BY <2>1, <2>3 DEF Admitted
  <2> QED
    BY <2>1, <2>4 DEF SizeInv
<1>6. CASE Rename
  BY <1>1, <1>6 DEF Rename, GiveUp, Return, loop
<1>7. CASE Scan
  <2>1. CASE pc' = "idle" /\ UNCHANGED size
    BY <1>1, <2>1
  <2>2. ASSUME NEW s \in scans, pc' = "enforce",
               todo' = Candidates(s), size' = Total(disk[s])
        PROVE  SizeInv'
    <3>1. s \in Styles /\ disk[s] \in Seq(Files) /\ disk' = disk
      BY <1>7, <2>2 DEF Scan, CacheInv, EvictionOK, DiskOK
    <3>2. \A i \in 1..Len(todo') : Style(todo'[i]) = s
      BY <2>2, <3>1, CandidatesAreKeys DEF CacheInv
    <3> QED
      BY <2>2, <3>1, <3>2, TotalIsSum DEF SizeInv
  <2> QED
    BY <1>7, <2>1, <2>2 DEF Scan
<1>8. CASE Enforce
  <2>1. CASE Evict(Nothing) /\ UNCHANGED pc /\ pc = "enforce"
    <3>1. PICK s \in Styles : /\ size = Total(disk[s])
                              /\ \A i \in 1..Len(todo) : Style(todo[i]) = s
      BY <2>1 DEF SizeInv
    <3>2. /\ \A i \in 1..Len(todo') : Style(todo'[i]) = s
          /\ Style(Head(todo)) = s
      BY <2>1, <3>1, EvictKeeps DEF CacheInv
    <3>3. CASE UNCHANGED <<disk, size>>
      BY <2>1, <3>1, <3>2, <3>3 DEF SizeInv
    <3>4. CASE ~UNCHANGED <<disk, size>>
      <4> DEFINE k == Head(todo)
      <4>1. PICK t \in Styles : Looking(t, Nothing)
        BY <2>1 DEF OrderInv
      <4>2. /\ k \in Keys /\ Stored(k) /\ RemoveFile(k)
            /\ size' = size - Size(File(k).data)
        BY <2>1, <3>4, <4>1, RoundRemoves
      <4>3. /\ Total(disk[s]) = Total(disk'[s]) + Size(File(k).data)
            /\ Size(File(k).data) \in Nat /\ Total(disk'[s]) \in Nat
        BY <3>2, <4>2, RemovedBytes DEF CacheInv
      <4> HIDE DEF k
      <4>4. size' = Total(disk'[s]) /\ size' \in Nat
        BY <3>1, <4>2, <4>3
      <4> QED
        BY <2>1, <3>2, <4>4 DEF SizeInv
    <3> QED
      BY <3>3, <3>4
  <2>2. CASE pc' = "scan" /\ size' = 0
    BY <1>1, <2>2
  <2> QED
    BY <1>8, <2>1, <2>2 DEF Enforce
<1>9. CASE UNCHANGED vars
  <2>1. Admitted' = Admitted
    BY <1>9 DEF Admitted, vars, write
  <2> QED
    BY <1>9, <2>1 DEF SizeInv, vars, write, loop
<1> QED
  BY <1>2, <1>3, <1>4, <1>5, <1>6, <1>7, <1>8, <1>9 DEF Next, Write, Budget

LEMMA SizeInvariant == Spec => [](CacheInv /\ OrderInv /\ SizeInv)
<1>1. Init => SizeInv
  BY DEF Init, SizeInv
<1>2. CacheInv /\ OrderInv /\ SizeInv /\ [Next]_vars => SizeInv'
  BY SizeStep
<1> QED
  BY <1>1, <1>2, OrderInvariant, PTL DEF Spec

(* Whatever the card refuses and whenever the power goes, the files of a   *)
(* style take more bytes after a step only if the style is within its      *)
(* budget then (disk_cache.cpp:130-214, FEATURES.md:122).                  *)
THEOREM BudgetBoundsGrowth == Spec => GrowsWithinBudget
<1>1. ASSUME CacheInv, OrderInv, SizeInv, [Next]_vars, NEW s \in Styles
      PROVE  Total(disk'[s]) <= Total(disk[s]) \/ Total(disk'[s]) <= DiskBudget
  <2>1. disk[s] \in Seq(Files) /\ Total(disk[s]) \in Nat
    BY <1>1, TotalIsSum DEF CacheInv, DiskOK
  <2>2. CASE UNCHANGED disk
    BY <2>1, <2>2
  <2>3. ASSUME NEW k \in Keys, RemoveFile(k) PROVE Total(disk'[s]) <= Total(disk[s])
    <3>1. disk'[s] = disk[s] \/ (s = Style(k) /\ disk'[s] = OtherKeys(disk[s], k))
      BY <1>1, <2>3 DEF RemoveFile, CacheInv, DiskOK
    <3> QED
      BY <2>1, <3>1, TotalWithout
  <2>4. ASSUME NEW k \in Keys, Accessed(k) PROVE Total(disk'[s]) = Total(disk[s])
    <3>1. File(k) \in Files
      BY <1>1, <2>4, FileIsThere DEF Accessed, CacheInv
    <3>2. \/ disk'[s] = disk[s]
          \/ s = Style(k) /\ disk'[s] = Append(OtherKeys(disk[s], k), File(k))
      BY <1>1, <2>4 DEF Accessed, CacheInv, DiskOK
    <3>3. CASE s = Style(k) /\ disk'[s] = Append(OtherKeys(disk[s], k), File(k))
      <4>1. OtherKeys(disk[s], k) \in Seq(Files)
        BY <2>1, OtherKeysAreThere
      <4>2. Total(disk'[s]) = Total(OtherKeys(disk[s], k)) + Size(File(k).data)
        BY <3>1, <3>3, <4>1, TotalWith
      <4>3. SizeOf(disk[s], k) = Size(File(k).data)
        BY <2>4, <3>3 DEF Accessed, Stored, SizeOf, File
      <4> QED
        BY <2>1, <4>2, <4>3, TotalWithout
    <3> QED
      BY <3>2, <3>3
  <2>5. CASE Renamed
    <3>1. pc = "rename" /\ ~Stored(key)
      BY <2>5 DEF Renamed
    <3>2. /\ Admitted <= DiskBudget /\ key \in Keys /\ data \in Payloads
          /\ disk[Style(key)] \in Seq(Files)
      BY <1>1, <3>1, AdmittedBytes DEF SizeInv, Complete
    <3>3. [key |-> key, data |-> data] \in Files
      BY <3>2 DEF Files
    <3>4. Total(Append(disk[Style(key)], [key |-> key, data |-> data])) = Admitted
      BY <3>1, <3>2, <3>3, TotalWith DEF Admitted, Stored, OtherKeys
    <3>5. \/ disk'[s] = disk[s]
          \/ disk'[s] = Append(disk[Style(key)], [key |-> key, data |-> data])
      BY <1>1, <2>5 DEF Renamed, CacheInv, DiskOK
    <3>6. Total(disk'[s]) = Total(disk[s]) \/ Total(disk'[s]) = Admitted
      BY <3>4, <3>5
    <3> QED
      BY <2>1, <3>2, <3>6
  <2> QED
    BY <1>1, <2>1, <2>2, <2>3, <2>4, <2>5, FilesStep
<1>2. CacheInv /\ OrderInv /\ SizeInv /\ [Next]_vars =>
          \A s \in Styles : \/ Total(disk'[s]) <= Total(disk[s])
                            \/ Total(disk'[s]) <= DiskBudget
  BY <1>1
<1> QED
  BY <1>2, SizeInvariant, PTL DEF Spec, GrowsWithinBudget

-----------------------------------------------------------------------------
(* The rest of the types.                                                  *)
TypeInv ==
    /\ refused \in Refusals
    /\ pc \in {"idle", "trim", "clean", "open", "fill", "reserve", "evict",
              "replace", "rename", "scan", "enforce", "clear"}
    /\ key \in Keys \cup {Nothing} /\ data \in Payloads \cup {Nothing}
    /\ writes \in 0..ScanEvery - 1

LEMMA TypeStep ==
    ASSUME CacheInv, TypeInv, [Next]_vars
    PROVE  TypeInv'
<1> USE DEF TypeInv, write, loop
<1>1. CASE Fetch
  BY <1>1 DEF Fetch, FetchFromMemory, FetchFromDisk, Download
<1>2. CASE Trim \/ Clean \/ Open \/ Fill
  BY <1>2 DEF Trim, Clean, Open, Fill, GiveUp, Return
<1>3. CASE Reserve \/ MakeRoom \/ Replace
  BY <1>3 DEF Reserve, MakeRoom, Replace, GiveUp, Return
<1>4. CASE Rename
  <2>1. writes' \in 0..ScanEvery - 1
    BY <1>4, SizesAssumption DEF Rename, GiveUp
  <2> QED
    BY <1>4, <2>1 DEF Rename, GiveUp, Return
<1>5. CASE Scan \/ Enforce
  BY <1>5 DEF Scan, Enforce
<1>6. CASE Clear \/ Wear \/ UNCHANGED vars
  BY <1>6 DEF Clear, Wear, vars
<1>7. CASE ClearPath \/ PowerLoss
  <2>1. 0 \in 0..ScanEvery - 1
    BY SizesAssumption
  <2>2. CASE ClearPath
    BY <2>1, <2>2 DEF ClearPath
  <2>3. CASE PowerLoss
    BY <2>1, <2>3 DEF PowerLoss
  <2> QED
    BY <1>7, <2>2, <2>3
<1> QED
  BY <1>1, <1>2, <1>3, <1>4, <1>5, <1>6, <1>7 DEF Next, Write, Budget

(* Type correctness of the tile caches.                                    *)
THEOREM CachesTypeCorrect == Spec => []TypeOK
<1>1. Init => TypeInv
  BY SizesAssumption DEF Init, TypeInv
<1>2. CacheInv /\ TypeInv /\ [Next]_vars => TypeInv'
  BY TypeStep
<1>3. ASSUME CacheInv, MemInv, SizeInv, TypeInv PROVE TypeOK
  <2>1. memory.lru \in Seq(Keys) /\ memory.used \in Nat
    BY <1>3, UsedIsNatural DEF MemInv, Listed, Lists
  <2> QED
    BY <1>3, <2>1 DEF CacheInv, MemoryOK, Decoded, DiskOK, WriteOK, EvictionOK,
                      SizeInv, TypeInv, TypeOK
<1> QED
  BY <1>1, <1>2, <1>3, CacheInvariant, MemoryInvariant, SizeInvariant, PTL DEF Spec

=============================================================================
