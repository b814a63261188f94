------------------------------ MODULE MPOCache ------------------------------
(***************************************************************************)
(* The two caches in front of NextGen's material purchase orders           *)
(* (nextGenService.ts): the list of all MPO headers, which one scan at a   *)
(* time fills page by page, and the PO data of single MPOs.  Both are kept *)
(* for a TTL and saved to disk.  A scan for all headers is made by the     *)
(* hourly sync and the search by material, which then builds PO data for   *)
(* the orders it was looking for; a lookup of one MPO scans only a window  *)
(* of pages unless the MPO is not there.                                   *)
(*                                                                         *)
(* The amount, vendor, currency and status of PO data come either from     *)
(* GetById, read for the lookup, or from the header in a list; only the    *)
(* lines are always read anew.                                             *)
(*                                                                         *)
(* MPO number n is the n-th order of NextGen and a page holds one header   *)
(* (NextGen ignores sort and lists orders as they were created).  A page   *)
(* request returns its page, returns nothing (an error, a login page) or   *)
(* throws.  The matching tiers of a header are taken as exact.             *)
(***************************************************************************)
EXTENDS Naturals, FiniteSets

CONSTANTS
  Lookups,       \* concurrent fetchPOByMPO calls
  Scanners,      \* callers of fetchAllMPOHeaders() for the whole list
  Wanted,        \* the MPO numbers that invoices name
  Absent,
  TTL,           \* MPO_CACHE_TTL_MS and PO_DATA_CACHE_TTL_MS: one hour each
  WindowBefore,  \* pages before the estimated one that a lookup reads
  WindowAfter,   \* pages after it
  MaxOrders,     \* bound: orders in NextGen
  MaxTime,       \* bound: clock
  MaxRestarts    \* bound: restarts of the API

ASSUME CacheAssumption ==
  /\ TTL \in Nat \ {0} /\ MaxOrders \in Nat \ {0} /\ Wanted \subseteq 1..MaxOrders
  /\ {WindowBefore, WindowAfter, MaxTime, MaxRestarts} \subseteq Nat
  /\ Lookups \cap Scanners = {} /\ Absent \notin Scanners /\ Absent \notin 0..MaxTime

VARIABLES
  orders,    \* orders NextGen holds
  headers,   \* mpoHeaderCache, or Absent
  listed,    \* the orders NextGen held when that list's first page was asked
  stamp,     \* mpoCacheTimestamp
  saved,     \* the list was loaded from MPO_CACHE_FILE at the last restart
  disk,      \* MPO_CACHE_FILE: headers and total, or Absent
  flight,    \* whose scan is mpoCacheFetchPromise, or Absent
  poData,    \* poDataCache: an entry's stamp, when its lines were read, and the
             \* age of the list its header was taken from
  poDisk,    \* PO_DATA_CACHE_FILE
  task, now, restarts

cacheVars == <<orders, headers, listed, stamp, saved, disk, flight, poData, poDisk,
               task, now, restarts>>
list == <<headers, listed, stamp, saved, disk>>
data == <<poData, poDisk>>
clock == <<now, restarts>>

Workers == Lookups \cup Scanners
MPOs == 1..MaxOrders
\* The age of a header's list when the header was chosen: 0 if it was read for
\* the lookup, and Absent if a restart loaded it, since nothing reads the file's age.
Ages == 0..MaxTime \cup {Absent}
Entries == [stamp : 0..MaxTime, read : 0..MaxTime, header : Ages]
IdleWorker == [at |-> "idle", mpo |-> 0, total |-> 0, got |-> {}, header |-> 0]

CacheTypeOK ==
  /\ orders \in MPOs
  /\ headers \in (SUBSET MPOs) \cup {Absent}
  /\ listed \in 0..MaxOrders /\ stamp \in 0..now /\ saved \in BOOLEAN
  /\ disk = Absent \/ disk.headers \in (SUBSET MPOs) \ {{}}
  /\ flight \in Scanners \cup {Absent}
  /\ \A s \in Scanners : task[s].at \in {"first", "pages"} <=> flight = s
  /\ {poData, poDisk} \subseteq [Wanted -> Entries \cup {Absent}]
  /\ task \in [Workers -> [at : {"idle", "resolving", "first", "window", "pages", "building"},
                           mpo : 0..MaxOrders, total : 0..MaxOrders, got : SUBSET MPOs,
                           header : Ages]]
  /\ now \in 0..MaxTime /\ restarts \in 0..MaxRestarts

InitCache ==
  /\ orders \in MPOs
  /\ headers = Absent /\ listed = 0 /\ stamp = 0 /\ saved = FALSE
  /\ disk = Absent /\ flight = Absent
  /\ poData = [m \in Wanted |-> Absent] /\ poDisk = [m \in Wanted |-> Absent]
  /\ task = [w \in Workers |-> IdleWorker]
  /\ now = 0 /\ restarts = 0

-----------------------------------------------------------------------------
(* Scanning the headers *)

Fresh == headers # Absent /\ now - stamp < TTL

\* Faulty variant: a caller does not wait for the scan under way.
MayScanBeside(s) == task[s] = IdleWorker /\ ~Fresh
\* The whole list: a scan under way is waited for (which changes nothing).
MayScan(s) == task[s] = IdleWorker /\ ~Fresh /\ flight = Absent
StartScan(s) ==
  /\ MayScan(s)
  /\ flight' = s
  /\ task' = [task EXCEPT ![s].at = "first"]
  /\ UNCHANGED <<orders, list, data, clock>>

\* What a worker builds PO data for, of a list: the MPO it looks up, or the
\* matches of a search by material (none of them for the sync).
Matches(w, got) ==
  IF w \in Lookups THEN {{task[w].mpo} \cap got} ELSE SUBSET (Wanted \cap got)

\* The worker is done with scanning and goes on with the headers of a list.
Leave(w, got, age) ==
  \E matches \in Matches(w, got) :
    task' = [task EXCEPT ![w] =
      IF matches = {} THEN IdleWorker
      ELSE [IdleWorker EXCEPT !.at = "building", !.got = matches, !.header = age]]

\* Faulty variant: the promise of a scan that fails is kept.
FlightKeptOnError(w, failed) == flight' = IF flight = w /\ ~failed THEN Absent ELSE flight
FlightOver(w, failed) == flight' = IF flight = w THEN Absent ELSE flight

\* The list is complete: it becomes the cache and, unless empty, the file.
Install(w, got, total) ==
  /\ headers' = got /\ listed' = total /\ stamp' = now /\ saved' = FALSE
  /\ disk' = IF got = {} THEN disk ELSE [headers |-> got, listed |-> total]
  /\ FlightOver(w, FALSE) /\ Leave(w, got, 0)

\* The scan throws: nothing is cached and a lookup answers null.
ScanFails(w) == FlightOver(w, TRUE) /\ Leave(w, {}, 0) /\ UNCHANGED list

\* Page 1 gives the total.  When it is lost the total counts as 0: the empty
\* list is complete, and becomes the cache.
FirstPage(w) ==
  /\ task[w].at = "first"
  /\ \/ ScanFails(w)
     \/ Install(w, {}, orders)
     \/ /\ task' = [task EXCEPT ![w].total = orders, ![w].got = {1},
                      ![w].at = IF w \in Scanners \/ orders <= 1 THEN "pages" ELSE "window"]
        /\ UNCHANGED <<list, flight>>
  /\ UNCHANGED <<orders, data, clock>>

\* Pages around the estimated position of the MPO; pages that come back empty
\* are not missed.  Found, the partial list is used and not cached.
Window(l) ==
  /\ task[l].at = "window"
  /\ LET t == task[l]
         smaller == IF t.mpo <= t.total THEN t.mpo ELSE t.total
         start == IF smaller > 1 THEN smaller - 1 ELSE 1
         pages == {p \in 1..t.total : p + WindowBefore >= start /\ p <= start + WindowAfter}
     IN  \/ ScanFails(l)
         \/ \E got \in SUBSET pages :
              /\ 1 \in pages => 1 \in got
              /\ IF t.mpo \in got THEN Leave(l, got, 0)
                 ELSE task' = [task EXCEPT ![l].at = "pages"]
              /\ UNCHANGED <<list, flight>>
  /\ UNCHANGED <<orders, data, clock>>

\* Faulty variant: a page that comes back empty ends the list.
EndsAtEmptyPage(t) == TRUE
ListComplete(t) == Cardinality(t.got) >= t.total

\* Every page from the second, until the total is reached or a page comes back
\* empty; the session is refreshed on the way, which may fail.
NextPage(w) ==
  /\ task[w].at = "pages"
  /\ LET t == task[w]
         more == Cardinality(t.got) < t.total
     IN  \/ /\ more
            /\ task' = [task EXCEPT ![w].got = @ \cup {Cardinality(t.got) + 1}]
            /\ UNCHANGED <<list, flight>>
         \/ ListComplete(t) /\ Install(w, t.got, t.total)
         \/ more /\ ScanFails(w)
  /\ UNCHANGED <<orders, data, clock>>

-----------------------------------------------------------------------------
(* Looking up one MPO *)

Served(m) == poData[m] # Absent /\ now - poData[m].stamp < TTL

\* A cached entry is the answer; an expired one is dropped.
StartLookup(l, m) ==
  /\ task[l] = IdleWorker /\ ~Served(m)
  /\ poData' = [poData EXCEPT ![m] = Absent]
  /\ task' = [task EXCEPT ![l].at = "resolving", ![l].mpo = m]
  /\ UNCHANGED <<orders, list, flight, poDisk, clock>>

CachedAge == IF saved THEN Absent ELSE now - stamp

\* The order id, by the cached headers or a filtered request, and GetById or the
\* filtered header; else the header list, if fresh; else a scan.
Resolve(l) ==
  /\ task[l].at = "resolving"
  /\ \/ task[l].mpo <= orders /\ Leave(l, MPOs, 0)
     \/ Fresh /\ Leave(l, headers, CachedAge)
     \/ ~Fresh /\ task' = [task EXCEPT ![l].at = "first"]
  /\ UNCHANGED <<orders, list, flight, data, clock>>

\* A search by material takes a fresh list as it is.  One that waited for a scan
\* gets that scan's list, which is then the fresh one.
Search(s) ==
  /\ task[s] = IdleWorker /\ Fresh
  /\ Leave(s, headers, CachedAge)
  /\ UNCHANGED <<orders, list, flight, data, clock>>

\* The lines are read, or are unavailable, and the PO is cached as it is: the
\* rest of it comes from the header.
Build(w) ==
  /\ task[w].at = "building"
  /\ \E m \in task[w].got :
       /\ poData' = [poData EXCEPT ![m] =
                       [stamp |-> now, read |-> now, header |-> task[w].header]]
       /\ task' = [task EXCEPT ![w] =
            IF task[w].got = {m} THEN IdleWorker ELSE [task[w] EXCEPT !.got = @ \ {m}]]
  /\ UNCHANGED <<orders, list, flight, poDisk, clock>>

-----------------------------------------------------------------------------
(* Disk, restart, time and NextGen *)

\* The periodic flush writes the cache unless it is empty.
FlushPOData ==
  /\ poData # poDisk /\ \E m \in Wanted : poData[m] # Absent
  /\ poDisk' = poData
  /\ UNCHANGED <<orders, list, flight, poData, task, clock>>

\* Faulty variant: an entry read from disk counts from now, as the headers do.
LoadedAsNew(m) ==
  IF poDisk[m] # Absent /\ now - poDisk[m].stamp < TTL
  THEN [poDisk[m] EXCEPT !.stamp = now] ELSE Absent
Loaded(m) ==
  IF poDisk[m] # Absent /\ now - poDisk[m].stamp < TTL THEN poDisk[m] ELSE Absent

\* The saved headers count as fresh, whatever their age; PO data keeps its own
\* timestamps.
Restart ==
  /\ restarts < MaxRestarts /\ restarts' = restarts + 1
  /\ headers' = IF disk = Absent THEN Absent ELSE disk.headers
  /\ listed' = IF disk = Absent THEN 0 ELSE disk.listed
  /\ stamp' = IF disk = Absent THEN 0 ELSE now
  /\ saved' = (disk # Absent)
  /\ poData' = [m \in Wanted |-> Loaded(m)]
  /\ flight' = Absent /\ task' = [w \in Workers |-> IdleWorker]
  /\ UNCHANGED <<orders, disk, poDisk, now>>

Tick ==
  /\ now < MaxTime /\ now' = now + 1
  /\ UNCHANGED <<orders, list, flight, data, task, restarts>>

NextGenAddsOrder ==
  /\ orders < MaxOrders /\ orders' = orders + 1
  /\ UNCHANGED <<list, flight, data, task, clock>>

ScanStep(w) ==
  \/ FirstPage(w) \/ NextPage(w) \/ Build(w)
  \/ w \in Lookups /\ (Window(w) \/ Resolve(w))

NextCache ==
  \/ \E s \in Scanners : StartScan(s) \/ Search(s)
  \/ \E l \in Lookups, m \in Wanted : StartLookup(l, m)
  \/ \E w \in Workers : ScanStep(w)
  \/ FlushPOData \/ Restart \/ Tick \/ NextGenAddsOrder

\* Every request answers or times out, and the code goes on from there.
CacheSpec == InitCache /\ [][NextCache]_cacheVars /\ \A w \in Workers : WF_cacheVars(ScanStep(w))

-----------------------------------------------------------------------------
(* Properties *)

\* A list in the cache holds every order NextGen had when its first page was
\* asked: a later page that is lost, a session that cannot be refreshed and scans
\* that overlap leave no list with holes.  The exception is a first page that is
\* lost: then the list is empty, replaces the one in the cache for a TTL, and
\* every lookup that relies on the list misses.  The file is never that list, so
\* what a restart loads is whole.
CacheIsWhole ==
  /\ headers \in {Absent, {}, 1..listed}
  /\ disk # Absent => disk.headers = 1..disk.listed
  /\ saved => headers = 1..listed

\* PO data that would be served was stamped when its lines were read, less than a
\* TTL ago, across flushes to disk and restarts; its amount, vendor, currency and
\* status come from a header chosen less than a TTL after its list was cached.
\* The exception is a header out of a list that a restart loaded, which counts as
\* fresh at any age: those fields may then be as old as the file.
PODataAge ==
  \A m \in Wanted : Served(m) =>
    /\ now - poData[m].read < TTL
    /\ poData[m].header # Absent => poData[m].header < TTL

\* The scan that later callers would wait for ends, with or without success,
\* so a failure does not keep the list from being scanned again.
FlightEnds == flight # Absent ~> flight = Absent
=============================================================================
