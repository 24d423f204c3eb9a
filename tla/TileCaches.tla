------------------------------ MODULE TileCaches ------------------------------
(***************************************************************************)
(* The tile caches of the worker: the payloads in memory (memory_cache.cpp)*)
(* and on the card (disk_cache.cpp), as process_task and worker_main use   *)
(* them.  Only the worker touches them, so a step is a call of the file    *)
(* system or a round of a loop, and what interferes is the card, which may *)
(* refuse to open, write, remove or rename a file, and the power, which    *)
(* may go between any two calls.  A folder that cannot be listed, which    *)
(* counts as empty, is left out.                                           *)
(*                                                                         *)
(* The files of a style are a sequence, the least recently used first.     *)
(* provider_bytes_ is left out: nothing reads it.                          *)
(***************************************************************************)
EXTENDS Naturals, SequencesExt

CONSTANTS
    Keys,           (* tiles                                               *)
    Style(_),       (* the style (provider) a tile belongs to              *)
    Payloads,       (* images that decode                                  *)
    Spoiled,        (* files that do not                                   *)
    Partial,        (* an incomplete file                                  *)
    Nothing,
    Size(_),        (* of a payload                                        *)
    MaxTile,        (* kMaximumTileBytes                                   *)
    MemoryBudget,   (* of memory_cache_                                    *)
    DiskBudget,     (* of disk_cache_, for every style                     *)
    ScanEvery,      (* 16 in the code                                      *)
    Refusals,       (* the sets of paths the card may refuse to remove     *)
    Earlier         (* the files an earlier session may have left          *)

Styles == {Style(k) : k \in Keys}
Files == [key : Keys, data : Payloads \cup Spoiled]
Paths == [key : Keys, part : BOOLEAN]

ASSUME SizesAssumption ==
    /\ MaxTile \in Nat /\ MemoryBudget \in Nat /\ DiskBudget \in Nat
    /\ ScanEvery \in Nat \ {0}
    /\ \A p \in Payloads \cup Spoiled : Size(p) \in Nat
    /\ \A p \in Payloads : Size(p) \in 1..MaxTile
    /\ MaxTile <= DiskBudget
ASSUME PayloadsAssumption ==
    /\ Payloads \cap Spoiled = {}
    /\ Partial \notin Payloads \cup Spoiled
    /\ Nothing \notin Payloads \cup Spoiled \cup {Partial} \cup Keys
ASSUME EarlierAssumption ==
    /\ Earlier \subseteq [Styles -> Seq(Files)]
    /\ \A d \in Earlier, s \in Styles : \A i \in 1..Len(d[s]) :
           /\ Style(d[s][i].key) = s
           /\ \A j \in 1..Len(d[s]) : d[s][i].key = d[s][j].key => i = j
ASSUME RefusalsAssumption == Refusals # {} /\ Refusals \subseteq SUBSET Paths

VARIABLES
    memory,   \* lru_, entries_ and used_bytes_ of the memory cache
    disk,     \* for every style its files, least recently used first
    parts,    \* for every tile what lies under its temporary name
    refused,  \* the paths the card refuses to remove now
    pc,       \* the step the worker is at
    key,      \* the tile that is to be written, or Nothing
    data,     \* its payload, or Nothing
    scans,    \* the styles whose budget is still to be enforced
    todo,     \* the tiles an eviction loop has not looked at
    size,     \* the bytes it counts with
    writes    \* writes_since_scan_

write == <<key, data>>
loop == <<scans, todo, size, writes>>
vars == <<memory, disk, parts, refused, pc, write, loop>>

-----------------------------------------------------------------------------
(* The memory cache.                                                       *)
NoMemory == [lru |-> <<>>, entries |-> <<>>, used |-> 0]

Cached(m, k) == k \in DOMAIN m.entries

(* Mutant: the old place of a key that is touched is kept.                 *)
TouchTwice(m, k) == [m EXCEPT !.lru = <<k>> \o @]

Touch(m, k) == [m EXCEPT !.lru = <<k>> \o RemoveFirst(@, k)]

(* put without its last line, which is the action Trim.                    *)
Put(m, k, p) ==
    IF Size(p) = 0 \/ Size(p) > MemoryBudget THEN m
    ELSE LET freed == IF Cached(m, k) THEN Size(m.entries[k]) ELSE 0
         IN  [lru |-> Touch(m, k).lru,
              entries |-> [other \in DOMAIN m.entries \cup {k} |->
                              IF other = k THEN p ELSE m.entries[other]],
              used |-> m.used - freed + Size(p)]

DropOldest(m) ==
    LET victim == Last(m.lru)
    IN  [lru |-> Front(m.lru),
         entries |-> [k \in DOMAIN m.entries \ {victim} |-> m.entries[k]],
         used |-> m.used - Size(m.entries[victim])]

-----------------------------------------------------------------------------
(* The files.                                                              *)
Has(files, k) == \E i \in 1..Len(files) : files[i].key = k
Position(files, k) == CHOOSE i \in 1..Len(files) : files[i].key = k
OtherKeys(files, k) ==
    IF Has(files, k) THEN RemoveAt(files, Position(files, k)) ELSE files
Total(files) == FoldLeft(LAMBDA sum, f : sum + Size(f.data), 0, files)
KeysOf(files) == [i \in 1..Len(files) |-> files[i].key]

(* Mutant: the files of all styles make room.                              *)
CandidatesEverywhere(s) == KeysOf(FlattenSeq(SetToSeq({disk[t] : t \in Styles})))

(* Mutant: the order of the sort is turned round.                          *)
CandidatesNewestFirst(s) == Reverse(KeysOf(disk[s]))

(* What an eviction loop goes through: scan_directory, and the sort.       *)
Candidates(s) == KeysOf(disk[s])

Stored(k) == Has(disk[Style(k)], k)
File(k) == disk[Style(k)][Position(disk[Style(k)], k)]

RemoveFile(k) == disk' = [disk EXCEPT ![Style(k)] = OtherKeys(@, k)]

Refuses(k, part) == [key |-> k, part |-> part] \in refused

(* sceIoRemove of the temporary file.                                      *)
RemovePart(k) ==
    parts' = IF Refuses(k, TRUE) THEN parts ELSE [parts EXCEPT ![k] = Nothing]

Init ==
    /\ memory = NoMemory /\ disk \in Earlier
    /\ parts = [k \in Keys |-> Nothing] /\ refused \in Refusals
    /\ pc = "scan" /\ key = Nothing /\ data = Nothing
    /\ scans = Styles /\ todo = <<>> /\ size = 0 /\ writes = 0

-----------------------------------------------------------------------------
(* process_task.  In memory: an image that was decoded before.             *)
FetchFromMemory(k) ==
    /\ pc = "idle" /\ Cached(memory, k)
    /\ \/ memory' = Touch(memory, k) /\ UNCHANGED pc
       \/ memory' = Put(Touch(memory, k), k, memory.entries[k]) /\ pc' = "trim"
    /\ UNCHANGED <<disk, parts, refused, write, loop>>

(* Mutant: kept before it is decoded.                                      *)
DecodesAlways(p) == TRUE

Decodes(p) == p \in Payloads

Readable(k) == Stored(k) /\ Size(File(k).data) \in 1..MaxTile

(* On the card: its time of access is set, if the clock answers.  A file   *)
(* that does not decode is erased; nobody may want the tile any more.      *)
FetchFromDisk(k) ==
    /\ pc = "idle" /\ ~Cached(memory, k) /\ Readable(k)
    /\ \/ /\ disk' = [disk EXCEPT ![Style(k)] = Append(OtherKeys(@, k), File(k))]
          /\ UNCHANGED <<memory, pc>>
       \/ /\ Decodes(File(k).data)
          /\ memory' = Put(memory, k, File(k).data) /\ pc' = "trim"
          /\ disk' \in {disk, [disk EXCEPT
                 ![Style(k)] = Append(OtherKeys(@, k), File(k))]}
       \/ /\ ~Decodes(File(k).data) /\ ~Refuses(k, FALSE)
          /\ RemoveFile(k) /\ UNCHANGED <<memory, pc>>
    /\ UNCHANGED <<parts, refused, write, loop>>

(* In neither, or the file is not read; from the network comes an image.   *)
Download(k, p) ==
    /\ pc = "idle" /\ ~Cached(memory, k)
    /\ memory' = Put(memory, k, p) /\ pc' = "trim"
    /\ key' = k /\ data' = p
    /\ UNCHANGED <<disk, parts, refused, loop>>

(* The end of put: a round of trim, or its end.                            *)
Trim ==
    /\ pc = "trim"
    /\ IF memory.used > MemoryBudget /\ memory.lru # <<>>
       THEN memory' = DropOldest(memory) /\ UNCHANGED pc
       ELSE pc' = (IF data = Nothing THEN "idle" ELSE "clean") /\ UNCHANGED memory
    /\ UNCHANGED <<disk, parts, refused, write, loop>>

-----------------------------------------------------------------------------
(* DiskCache::write, call by call.  Return is both of its results: nothing *)
(* depends on them.                                                        *)
Return == pc' = "idle" /\ key' = Nothing /\ data' = Nothing

GiveUp == RemovePart(key) /\ Return

Clean ==
    /\ pc = "clean"
    /\ \/ Return /\ UNCHANGED parts
       \/ RemovePart(key) /\ pc' = "open" /\ UNCHANGED write
    /\ UNCHANGED <<memory, disk, refused, loop>>

(* Mutant: a whole file that an earlier write left is taken for the        *)
(* payload, as if the download had been resumed.                           *)
OpenResumes ==
    /\ pc = "open"
    /\ IF parts[key] \in Payloads
       THEN pc' = "reserve" /\ UNCHANGED <<parts, write>>
       ELSE parts' = [parts EXCEPT ![key] = Partial] /\ pc' = "fill" /\ UNCHANGED write
    /\ UNCHANGED <<memory, disk, refused, loop>>

Open ==
    /\ pc = "open"
    /\ \/ Return /\ UNCHANGED parts
       \/ parts' = [parts EXCEPT ![key] = Partial] /\ pc' = "fill" /\ UNCHANGED write
    /\ UNCHANGED <<memory, disk, refused, loop>>

Fill ==
    /\ pc = "fill"
    /\ \/ GiveUp
       \/ parts' = [parts EXCEPT ![key] = data] /\ pc' = "reserve" /\ UNCHANGED write
    /\ UNCHANGED <<memory, disk, refused, loop>>

(* What the style will have when the payload replaces the file of its key. *)
Admitted == LET files == disk[Style(key)]
            IN  Total(OtherKeys(files, key)) + Size(data)

(* A tile is never above the budget, so it is not refused outright.        *)
Reserve ==
    /\ pc = "reserve" /\ pc' = "evict"
    /\ todo' = Candidates(Style(key)) /\ size' = Admitted
    /\ UNCHANGED <<memory, disk, parts, refused, write, scans, writes>>

(* A round of an eviction loop: the oldest is removed, unless it is the    *)
(* file that is to be replaced or the card refuses.                        *)
Evict(keep) ==
    LET k == Head(todo) IN
    /\ size > DiskBudget /\ todo # <<>> /\ todo' = Tail(todo)
    /\ IF k = keep \/ Refuses(k, FALSE)
       THEN UNCHANGED <<disk, size>>
       ELSE RemoveFile(k) /\ size' = size - Size(File(k).data)

(* Mutant: room or not, the file is put in its place.                      *)
EnoughRoomAlways == TRUE

EnoughRoom == size <= DiskBudget

MakeRoom ==
    /\ pc = "evict"
    /\ \/ Evict(key) /\ UNCHANGED <<pc, parts, write>>
       \/ /\ size <= DiskBudget \/ todo = <<>>
          /\ todo' = <<>> /\ size' = 0 /\ UNCHANGED disk
          /\ IF EnoughRoom THEN pc' = "replace" /\ UNCHANGED <<parts, write>>
             ELSE GiveUp
    /\ UNCHANGED <<memory, refused, scans, writes>>

Replace ==
    /\ pc = "replace" /\ pc' = "rename"
    /\ IF Refuses(key, FALSE) THEN UNCHANGED disk ELSE RemoveFile(key)
    /\ UNCHANGED <<memory, parts, refused, write, loop>>

(* A name that is taken is not renamed onto.  The periodic scan of the     *)
(* style follows a write in ScanEvery.                                     *)
Rename ==
    /\ pc = "rename"
    /\ \/ GiveUp /\ UNCHANGED <<disk, loop>>
       \/ /\ ~Stored(key)
          /\ disk' = [disk EXCEPT ![Style(key)] =
                         Append(@, [key |-> key, data |-> parts[key]])]
          /\ parts' = [parts EXCEPT ![key] = Nothing]
          /\ IF writes + 1 = ScanEvery
             THEN writes' = 0 /\ scans' = {Style(key)} /\ pc' = "scan"
             ELSE writes' = writes + 1 /\ pc' = "idle" /\ UNCHANGED scans
          /\ key' = Nothing /\ data' = Nothing /\ UNCHANGED <<todo, size>>
    /\ UNCHANGED <<memory, refused>>

-----------------------------------------------------------------------------
(* enforce_budget over the styles, in the order of the directory, and      *)
(* enforce_provider_budget for one.                                        *)
Scan ==
    /\ pc = "scan"
    /\ \/ scans = {} /\ pc' = "idle" /\ UNCHANGED <<scans, todo, size>>
       \/ \E s \in scans :
              /\ scans' = scans \ {s} /\ pc' = "enforce"
              /\ todo' = Candidates(s) /\ size' = Total(disk[s])
    /\ UNCHANGED <<memory, disk, parts, refused, write, writes>>

Enforce ==
    /\ pc = "enforce"
    /\ \/ Evict(Nothing) /\ UNCHANGED pc
       \/ /\ size <= DiskBudget \/ todo = <<>>
          /\ pc' = "scan" /\ todo' = <<>> /\ size' = 0 /\ UNCHANGED disk
    /\ UNCHANGED <<memory, parts, refused, write, scans, writes>>

(* A clear: the memory at once, then path by path what can be removed.     *)
Clear ==
    /\ pc = "idle" /\ pc' = "clear" /\ memory' = NoMemory
    /\ UNCHANGED <<disk, parts, refused, write, loop>>

ClearPath ==
    /\ pc = "clear"
    /\ \/ \E k \in Keys : /\ Stored(k) /\ ~Refuses(k, FALSE)
                          /\ RemoveFile(k) /\ UNCHANGED <<parts, pc, writes>>
       \/ \E k \in Keys : /\ parts[k] # Nothing /\ ~Refuses(k, TRUE)
                          /\ RemovePart(k) /\ UNCHANGED <<disk, pc, writes>>
       \/ /\ \A k \in Keys : /\ Stored(k) => Refuses(k, FALSE)
                             /\ parts[k] # Nothing => Refuses(k, TRUE)
          /\ pc' = "idle" /\ writes' = 0 /\ UNCHANGED <<disk, parts>>
    /\ UNCHANGED <<memory, refused, write, scans, todo, size>>

-----------------------------------------------------------------------------
(* The card changes its mind between two operations of the worker.         *)
Wear ==
    /\ pc = "idle" /\ refused' \in Refusals
    /\ UNCHANGED <<memory, disk, parts, pc, write, loop>>

(* The power goes, or the program ends; it starts again.                   *)
PowerLoss ==
    /\ memory' = NoMemory /\ refused' \in Refusals
    /\ pc' = "scan" /\ key' = Nothing /\ data' = Nothing
    /\ scans' = Styles /\ todo' = <<>> /\ size' = 0 /\ writes' = 0
    /\ UNCHANGED <<disk, parts>>

Fetch == \E k \in Keys : \/ FetchFromMemory(k) \/ FetchFromDisk(k)
                         \/ \E p \in Payloads : Download(k, p)
Write == Trim \/ Clean \/ Open \/ Fill \/ Reserve \/ MakeRoom \/ Replace \/ Rename
Budget == Scan \/ Enforce

Next == Fetch \/ Write \/ Budget \/ Clear \/ ClearPath \/ Wear \/ PowerLoss

Spec == Init /\ [][Next]_vars

-----------------------------------------------------------------------------
TypeOK ==
    /\ memory.lru \in Seq(Keys) /\ DOMAIN memory.entries \subseteq Keys
    /\ \A k \in DOMAIN memory.entries : memory.entries[k] \in Payloads
    /\ memory.used \in Nat
    /\ disk \in [Styles -> Seq(Files)]
    /\ parts \in [Keys -> Payloads \cup {Partial, Nothing}]
    /\ refused \in Refusals
    /\ pc \in {"idle", "trim", "clean", "open", "fill", "reserve", "evict",
              "replace", "rename", "scan", "enforce", "clear"}
    /\ key \in Keys \cup {Nothing} /\ data \in Payloads \cup {Nothing}
    /\ scans \subseteq Styles /\ todo \in Seq(Keys)
    /\ size \in Nat /\ writes \in 0..ScanEvery - 1

(* The list and the map of the memory cache name the same tiles, each      *)
(* once, used_bytes_ is what they take, and it fits the budget whenever    *)
(* trim is through.                                                        *)
MemoryAgrees ==
    /\ IsInjective(memory.lru) /\ ToSet(memory.lru) = DOMAIN memory.entries
    /\ memory.used = FoldLeft(LAMBDA sum, k : sum + Size(memory.entries[k]),
                              0, memory.lru)
    /\ pc # "trim" => memory.used <= MemoryBudget

(* A style only grows within its budget, even if it starts above it, the   *)
(* card refuses removals or the power goes (FEATURES.md:122).              *)
GrowsWithinBudget ==
    [][\A s \in Styles : \/ Total(disk'[s]) <= Total(disk[s])
                         \/ Total(disk'[s]) <= DiskBudget]_vars

Lost(s) == {i \in 1..Len(disk[s]) : \A j \in 1..Len(disk'[s]) :
                                        disk'[s][j].key # disk[s][i].key}

(* What goes for a new tile is the least recently used: all that is older  *)
(* is the tile to be replaced or cannot be removed.                        *)
OldestFirst ==
    [][(pc \in {"evict", "enforce"}) =>
          \A s \in Styles : \A i \in Lost(s) : \A older \in 1..i - 1 :
              \/ pc = "evict" /\ disk[s][older].key = key
              \/ Refuses(disk[s][older].key, FALSE)]_vars

(* A write takes nothing from another style (ARCHITECTURE.md:198: "one     *)
(* style can never evict another").                                        *)
StylesIndependent ==
    [][(pc \in {"reserve", "evict", "replace", "rename"}) =>
          \A s \in Styles \ {Style(key)} : disk'[s] = disk[s]]_vars

(* What the worker may find for a tile.                                    *)
found == [k \in Keys |->
             {p \in Payloads \cup Spoiled \cup {Partial} :
                 \/ Cached(memory, k) /\ memory.entries[k] = p
                 \/ \E i \in 1..Len(disk[Style(k)]) :
                        disk[Style(k)][i] = [key |-> k, data |-> p]}]

(* Whatever fails, a lookup finds only payloads that were stored for the   *)
(* tile itself, or that an earlier session left: never a part of one, the  *)
(* payload of another tile, or a temporary file an interrupted write left  *)
(* (disk_cache.cpp:107-214).                                               *)
Store == INSTANCE ForgetfulStore WITH Payloads <- Payloads \cup Spoiled
StoreSpec == Store!Spec
=============================================================================
