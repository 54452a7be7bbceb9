------------------------------- MODULE Pager -------------------------------
(***************************************************************************)
(* The Pager between two crashes: the page cache with its clean-only       *)
(* eviction, the in-memory header, the transaction flag and the savepoint  *)
(* stack.  The .db file is the variable disk; a commit reaches it in one   *)
(* step here, and Wal.tla opens that step up into its writes and syncs.    *)
(*                                                                         *)
(* A page's bytes are one value of Vals; page 0 holds the header record.   *)
(* The least-recently-used order is abstracted to a free choice among the  *)
(* clean pages, which contains the page the code evicts.                   *)
(***************************************************************************)
EXTENDS Naturals, Sequences, FiniteSets

CONSTANTS
  MaxPage,     \* bound: page numbers are 0..MaxPage
  Vals,        \* contents of a page other than page 0
  Zero,        \* the contents of a page that was just allocated
  Names,       \* savepoint names
  Capacity,    \* pages the cache holds before it evicts
  MaxDepth,    \* bound: savepoints on the stack
  NotCached    \* marks a page that is not in the cache

PageNo == 0..MaxPage
Headers == [page_count : 1..(MaxPage + 1), root : PageNo]
Datas == Vals \cup Headers
Slots == [data : Datas, dirty : BOOLEAN]
Caches == [PageNo -> Slots \cup {NotCached}]

ASSUME BoundsAssumption ==
  /\ MaxPage \in Nat
  /\ Capacity \in Nat \ {0}
  /\ MaxDepth \in Nat
  /\ Zero \in Vals
  /\ Vals \cap Headers = {}
  /\ NotCached \notin Slots

VARIABLES
  disk,        \* the .db file, page by page
  header,      \* Pager.header
  cache,       \* Pager.cache
  inTx,        \* Pager.in_tx
  savepoints   \* Pager.savepoints, oldest first

vars == <<disk, header, cache, inTx, savepoints>>

EmptyCache == [p \in PageNo |-> NotCached]
Slot(d, b) == [data |-> d, dirty |-> b]
Resident(c) == {p \in PageNo : c[p] # NotCached}
Clean(c) == {p \in Resident(c) : ~c[p].dirty}

\* A fresh database: the header alone, one page long.
Init ==
  /\ header = [page_count |-> 1, root |-> 0]
  /\ disk = [p \in PageNo |-> IF p = 0 THEN header ELSE Zero]
  /\ cache = EmptyCache
  /\ inTx = FALSE
  /\ savepoints = <<>>

-----------------------------------------------------------------------------
(* The page cache.                                                         *)

\* Mutant of Inserted: the victim may be dirty.
InsertedOverDirty(c, p, s) ==
  IF c[p] = NotCached /\ Cardinality(Resident(c)) >= Capacity
  THEN {[c EXCEPT ![v] = NotCached, ![p] = s] : v \in Resident(c)}
  ELSE {[c EXCEPT ![p] = s]}

\* PageCache::insert: a page that is new to a full cache takes the place of
\* a clean one; with nothing clean to give up the cache grows.
Inserted(c, p, s) ==
  LET full == c[p] = NotCached /\ Cardinality(Resident(c)) >= Capacity
  IN  IF full /\ Clean(c) # {}
      THEN {[c EXCEPT ![v] = NotCached, ![p] = s] : v \in Clean(c)}
      ELSE {[c EXCEPT ![p] = s]}

\* ensure_page_loaded: the caches in which p is resident.
Loaded(p) ==
  IF cache[p] # NotCached THEN {cache} ELSE Inserted(cache, p, Slot(disk[p], FALSE))

\* refresh_header_page: page 0 is re-encoded from the new header.
HeaderRefreshed(h) == Inserted(cache, 0, Slot(h, TRUE))

-----------------------------------------------------------------------------
(* The operations.                                                         *)

Begin ==
  /\ ~inTx
  /\ inTx' = TRUE
  /\ UNCHANGED <<disk, header, cache, savepoints>>

\* page_data on a page that is not resident; on a resident page it changes
\* nothing.
PageData(p) ==
  /\ p < header.page_count
  /\ cache[p] = NotCached
  /\ cache' \in Loaded(p)
  /\ UNCHANGED <<disk, header, inTx, savepoints>>

\* write_page(no, data, true), which every caller reaches inside a
\* transaction and never for page 0.
WritePage(p, v) ==
  /\ inTx
  /\ p \in 1..(header.page_count - 1)
  /\ \E c \in Loaded(p) : cache' = [c EXCEPT ![p] = Slot(v, TRUE)]
  /\ UNCHANGED <<disk, header, inTx, savepoints>>

NewPage ==
  LET no == header.page_count
      h  == [header EXCEPT !.page_count = @ + 1]
  IN  /\ inTx
      /\ no <= MaxPage
      /\ header' = h
      /\ \E c \in HeaderRefreshed(h) : cache' \in Inserted(c, no, Slot(Zero, TRUE))
      /\ UNCHANGED <<disk, inTx, savepoints>>

\* set_catalog_root_page, called with a page the transaction allocated.
SetCatalogRootPage(p) ==
  /\ inTx
  /\ p \in 1..(header.page_count - 1)
  /\ header' = [header EXCEPT !.root = p]
  /\ cache' \in HeaderRefreshed(header')
  /\ UNCHANGED <<disk, inTx, savepoints>>

\* The file after commit has applied the dirty snapshot.
Flushed == [p \in PageNo |-> IF cache[p] # NotCached /\ cache[p].dirty
                             THEN cache[p].data ELSE disk[p]]

AllClean(c) == [p \in PageNo |-> IF c[p] = NotCached THEN NotCached
                                 ELSE Slot(c[p].data, FALSE)]

Commit ==
  /\ inTx
  /\ disk' = Flushed
  /\ cache' = AllClean(cache)
  /\ inTx' = FALSE
  /\ savepoints' = <<>>
  /\ UNCHANGED header

\* rollback; close and Drop do the same to an open transaction.
Rollback ==
  /\ inTx
  /\ cache' = EmptyCache
  /\ header' = disk[0]
  /\ inTx' = FALSE
  /\ savepoints' = <<>>
  /\ UNCHANGED disk

\* close and a later open of the same file: a Pager with an empty cache.
Reopen ==
  /\ ~inTx
  /\ cache' = EmptyCache
  /\ header' = disk[0]
  /\ UNCHANGED <<disk, inTx, savepoints>>

\* Mutant of SetSavepoint: the header saved is the committed one.
SetSavepointOldHeader(n) ==
  /\ inTx
  /\ Len(savepoints) < MaxDepth
  /\ savepoints' = Append(savepoints,
                          [name |-> n, header |-> disk[0], snapshot |-> cache])
  /\ UNCHANGED <<disk, header, cache, inTx>>

SetSavepoint(n) ==
  /\ inTx
  /\ Len(savepoints) < MaxDepth
  /\ savepoints' = Append(savepoints,
                          [name |-> n, header |-> header, snapshot |-> cache])
  /\ UNCHANGED <<disk, header, cache, inTx>>

\* Mutant of Youngest: position() instead of rposition().
Oldest(n, i) ==
  /\ i \in 1..Len(savepoints)
  /\ savepoints[i].name = n
  /\ \A j \in 1..(i - 1) : savepoints[j].name # n

\* rposition: i is the youngest savepoint called n.
Youngest(n, i) ==
  /\ i \in 1..Len(savepoints)
  /\ savepoints[i].name = n
  /\ \A j \in (i + 1)..Len(savepoints) : savepoints[j].name # n

RollbackToSavepoint(n) ==
  /\ inTx
  /\ \E i \in 1..Len(savepoints) :
       /\ Youngest(n, i)
       /\ savepoints' = SubSeq(savepoints, 1, i)
       /\ header' = savepoints[i].header
       /\ cache' = savepoints[i].snapshot
  /\ UNCHANGED <<disk, inTx>>

ReleaseSavepoint(n) ==
  /\ inTx
  /\ \E i \in 1..Len(savepoints) :
       /\ Youngest(n, i)
       /\ savepoints' = SubSeq(savepoints, 1, i - 1)
  /\ UNCHANGED <<disk, header, cache, inTx>>

Next ==
  \/ Begin
  \/ \E p \in PageNo : PageData(p)
  \/ \E p \in PageNo, v \in Vals : WritePage(p, v)
  \/ NewPage
  \/ \E p \in PageNo : SetCatalogRootPage(p)
  \/ Commit
  \/ Rollback
  \/ Reopen
  \/ \E n \in Names : SetSavepoint(n)
  \/ \E n \in Names : RollbackToSavepoint(n)
  \/ \E n \in Names : ReleaseSavepoint(n)

Spec == Init /\ [][Next]_vars

-----------------------------------------------------------------------------
(* Properties.                                                             *)

Savepoints == [name : Names, header : Headers, snapshot : Caches]

\* The Pager's fields and the file keep their types.
TypeOK ==
  /\ disk \in [PageNo -> Datas]
  /\ disk[0] \in Headers
  /\ header \in Headers
  /\ cache \in Caches
  /\ inTx \in BOOLEAN
  /\ savepoints \in Seq(Savepoints)

\* What a reader of page p sees.
View(c) == [p \in PageNo |-> IF c[p] = NotCached THEN disk[p] ELSE c[p].data]

\* A cache that eviction can be blind to: its clean pages are the file's,
\* page 0 as read through it is the header h, and every page the transaction
\* has allocated beyond the end of the file is resident and dirty, because
\* the file has nothing to read it back from.
Sound(c, h) ==
  /\ \A p \in PageNo : c[p] # NotCached /\ ~c[p].dirty => c[p].data = disk[p]
  /\ View(c)[0] = h
  /\ \A p \in PageNo : disk[0].page_count <= p /\ p < h.page_count
                         => c[p] # NotCached /\ c[p].dirty

\* The cache in use is sound: no eviction, allocation or partial rollback
\* loses a write, tears the header from page 0, or leaves a page that can
\* only be read past the end of the file.
CacheSound == Sound(cache, header)

\* Every snapshot on the savepoint stack is as sound as the cache, so a
\* ROLLBACK TO after evictions, loads and allocations restores a cache the
\* transaction can go on with.
SnapshotsSound ==
  \A i \in 1..Len(savepoints) : Sound(savepoints[i].snapshot, savepoints[i].header)

\* Outside a transaction there is nothing to lose: no dirty page, no savepoint.
QuietOutsideTx ==
  ~inTx => /\ \A p \in Resident(cache) : ~cache[p].dirty
           /\ savepoints = <<>>

\* The Pager implements the transactional store of TxStore: the committed state is the
\* file, the working state is what the cache shows over it, and a savepoint's
\* state is what its snapshot shows.
StackView ==
  [i \in 1..Len(savepoints) |->
     [name |-> savepoints[i].name, state |-> View(savepoints[i].snapshot)]]
Store == INSTANCE TxStore WITH
  States <- [PageNo -> Datas],
  committed <- disk,
  working <- View(cache),
  stack <- StackView
ImplementsTxStore == Store!Spec
=============================================================================
