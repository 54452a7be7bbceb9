---------------------------- MODULE StorageProofs ----------------------------
(***************************************************************************)
(* Proofs about the layers that keep data: Pager, the B+Tree that is laid  *)
(* out on its pages, and Wal.                                              *)
(*                                                                         *)
(* Pager: for every page range, capacity, set of values and depth of       *)
(* savepoints.  The inductive invariant is the conjunction of the type     *)
(* invariant with the three safety invariants the runs check: the          *)
(* soundness of the cache is preserved because eviction takes clean pages  *)
(* only, and a snapshot stays sound because the file does not change while *)
(* the transaction that took it is open.                                   *)
(*                                                                         *)
(* BPlusTree: for every set of keys and values, capacity of a node and     *)
(* number of pages.  The invariant names the way of each key: there is a   *)
(* routing r of the keys, with r[i][k] the page of level i that a descent  *)
(* for k goes through, and there is the line ls of the leaves.  What the   *)
(* runs check follows from it: reads, the chain of the leaves and the      *)
(* accounting of the pages.                                                *)
(*                                                                         *)
(* Wal: for every set of pages and any number of transactions and crashes, *)
(* when crashes are of one kind (processes are killed, or the power fails, *)
(* but not both), no write or sync of the .db fails, and a log that could  *)
(* not be synced can be removed.  The hypotheses are needed: the README's  *)
(* known limits say what the code does without them.                       *)
(***************************************************************************)
EXTENDS Pager, BPlusTree, Wal, FiniteSetTheorems, WellFoundedInduction, TLAPS

-----------------------------------------------------------------------------
(* Pager.                                                                  *)

IInv == TypeOK /\ CacheSound /\ SnapshotsSound /\ QuietOutsideTx

-----------------------------------------------------------------------------
(* Lemmas about the cache.                                                 *)

\* A record built by Slot has the fields it was built from.
LEMMA SlotFields ==
  ASSUME NEW d \in Datas, NEW b \in BOOLEAN
  PROVE  /\ Slot(d, b) \in Slots
         /\ Slot(d, b) # NotCached
         /\ Slot(d, b).data = d
         /\ Slot(d, b).dirty = b
  BY BoundsAssumption DEF Slot, Slots

\* What an insertion does (storage.rs:371-391): the new page is in its slot,
\* and any other page either keeps its slot or was clean and is gone.
LEMMA InsertedShape ==
  ASSUME NEW c \in Caches, NEW p \in PageNo, NEW s \in Slots,
         NEW d \in Inserted(c, p, s)
  PROVE  /\ d \in Caches
         /\ d[p] = s
         /\ \A q \in PageNo \ {p} :
              \/ d[q] = c[q]
              \/ c[q] # NotCached /\ ~c[q].dirty /\ d[q] = NotCached
<1>1. CASE d = [c EXCEPT ![p] = s]
  BY <1>1 DEF Caches
<1>2. CASE \E v \in Clean(c) : c[p] = NotCached
                               /\ d = [c EXCEPT ![v] = NotCached, ![p] = s]
  BY <1>2 DEF Caches, Clean, Resident
<1> QED
  BY <1>1, <1>2 DEF Inserted

\* An insertion keeps a cache sound for the header h when the page inserted is
\* clean and read from the file, or dirty and, if it is page 0, h itself.
LEMMA InsertedSound ==
  ASSUME TypeOK,
         NEW c \in Caches, NEW g \in Headers, NEW h \in Headers, NEW p \in PageNo,
         NEW s \in Slots, NEW d \in Inserted(c, p, s),
         Sound(c, g),
         ~s.dirty => s.data = disk[p] /\ h = g /\ c[p] = NotCached,
         p # 0 => View(c)[0] = h,
         p = 0 => s.data = h,
         \A q \in PageNo \ {p} : disk[0].page_count <= q /\ q < h.page_count
                                  => c[q] # NotCached /\ c[q].dirty
  PROVE  Sound(d, h)
<1>1. /\ d \in Caches
      /\ d[p] = s
      /\ \A q \in PageNo \ {p} :
           \/ d[q] = c[q]
           \/ c[q] # NotCached /\ ~c[q].dirty /\ d[q] = NotCached
  BY InsertedShape
<1>2. s # NotCached /\ 0 \in PageNo
  BY BoundsAssumption DEF PageNo
<1>3. ASSUME NEW q \in PageNo, d[q] # NotCached, ~d[q].dirty
      PROVE  d[q].data = disk[q]
  BY <1>1, <1>2, <1>3 DEF Sound
<1>4. View(d)[0] = h
  BY <1>1, <1>2 DEF View, Sound
<1>5. ASSUME NEW q \in PageNo, disk[0].page_count <= q, q < h.page_count
      PROVE  d[q] # NotCached /\ d[q].dirty
  <2>1. CASE q # p
    BY <1>1, <1>5, <2>1
  <2>2. CASE q = p
    BY <1>1, <1>2, <1>5, <2>2 DEF Sound, View
  <2> QED BY <2>1, <2>2
<1> QED
  BY <1>3, <1>4, <1>5 DEF Sound

\* Loading a page (storage.rs:926-946) leaves a sound cache in which it is
\* resident.
LEMMA LoadedSound ==
  ASSUME TypeOK, CacheSound, NEW p \in PageNo, p < header.page_count,
         NEW c \in Loaded(p)
  PROVE  c \in Caches /\ Sound(c, header) /\ c[p] # NotCached
<1>1. CASE cache[p] # NotCached
  BY <1>1 DEF Loaded, TypeOK, CacheSound
<1>2. CASE cache[p] = NotCached
  <2> DEFINE s == Slot(disk[p], FALSE)
  <2>1. /\ s \in Slots /\ s # NotCached
        /\ s.data = disk[p] /\ s.dirty = FALSE
    BY SlotFields DEF TypeOK
  <2>2. c \in Inserted(cache, p, s)
    BY <1>2 DEF Loaded
  <2> HIDE DEF s
  <2>3. c \in Caches /\ c[p] = s
    BY <2>1, <2>2, InsertedShape DEF TypeOK
  <2>4. p = 0 => s.data = header
    BY <1>2, <2>1 DEF CacheSound, Sound, View
  <2>5. Sound(c, header)
    BY <1>2, <2>1, <2>2, <2>4, InsertedSound DEF TypeOK, CacheSound, Sound
  <2> QED BY <2>1, <2>3, <2>5
<1> QED BY <1>1, <1>2

\* Writing a page other than the header over a sound cache keeps it sound.
LEMMA WriteSound ==
  ASSUME TypeOK, NEW c \in Caches, Sound(c, header),
         NEW p \in PageNo \ {0}, NEW v \in Vals
  PROVE  /\ [c EXCEPT ![p] = Slot(v, TRUE)] \in Caches
         /\ Sound([c EXCEPT ![p] = Slot(v, TRUE)], header)
<1> DEFINE s == Slot(v, TRUE)
<1>1. s \in Slots /\ s # NotCached /\ s.dirty = TRUE
  BY SlotFields DEF Datas
<1> HIDE DEF s
<1>2. [c EXCEPT ![p] = s] \in Caches
  BY <1>1 DEF Caches
<1>3. Sound([c EXCEPT ![p] = s], header)
  BY <1>1, BoundsAssumption DEF Sound, View, Caches, PageNo
<1> QED BY <1>2, <1>3 DEF s

\* refresh_header_page (storage.rs:904-924) makes the cache sound for the new
\* header, provided it allocates no page.
LEMMA HeaderRefreshedSound ==
  ASSUME TypeOK, CacheSound, NEW h \in Headers,
         NEW c \in HeaderRefreshed(h)
  PROVE  /\ c \in Caches
         /\ View(c)[0] = h /\ c[0] # NotCached
         /\ h.page_count = header.page_count => Sound(c, h)
         /\ \A q \in PageNo : c[q] # NotCached /\ ~c[q].dirty => c[q].data = disk[q]
         /\ \A q \in PageNo : disk[0].page_count <= q /\ q < header.page_count
                              => c[q] # NotCached /\ c[q].dirty
<1> DEFINE s == Slot(h, TRUE)
<1>1. s \in Slots /\ s # NotCached /\ s.dirty = TRUE /\ s.data = h
  BY SlotFields DEF Datas
<1>2a. c \in Inserted(cache, 0, s)
  BY DEF HeaderRefreshed
<1>2b. 0 \in PageNo
  BY BoundsAssumption DEF PageNo
<1>2. c \in Inserted(cache, 0, s) /\ 0 \in PageNo
  BY <1>2a, <1>2b
<1> HIDE DEF s
<1>3. /\ c \in Caches /\ c[0] = s
      /\ \A q \in PageNo \ {0} :
           \/ c[q] = cache[q]
           \/ cache[q] # NotCached /\ ~cache[q].dirty /\ c[q] = NotCached
  BY <1>1, <1>2, InsertedShape DEF TypeOK
<1>4. View(c)[0] = h /\ c[0] # NotCached
  BY <1>1, <1>2, <1>3 DEF View
<1>5. \A q \in PageNo : c[q] # NotCached /\ ~c[q].dirty => c[q].data = disk[q]
  BY <1>1, <1>3 DEF CacheSound, Sound
<1>6. \A q \in PageNo : disk[0].page_count <= q /\ q < header.page_count
                        => c[q] # NotCached /\ c[q].dirty
  BY <1>1, <1>3 DEF CacheSound, Sound
<1> QED BY <1>3, <1>4, <1>5, <1>6 DEF Sound

-----------------------------------------------------------------------------
(* The inductive invariant of the Pager.                                   *)

\* The savepoint stack and the file do not move: the snapshots stay sound.
LEMMA SnapshotsKept ==
  ASSUME SnapshotsSound, UNCHANGED <<disk, savepoints>>
  PROVE  SnapshotsSound'
BY DEF SnapshotsSound, Sound, View

\* An empty stack is a sound stack.
LEMMA EmptyStack ==
  ASSUME savepoints' = <<>>
  PROVE  savepoints' \in Seq(Savepoints) /\ SnapshotsSound'
<1>1. savepoints' \in Seq(Savepoints)
  OBVIOUS
<1>2. ~ \E i \in 1..Len(savepoints') : TRUE
  OBVIOUS
<1> QED BY <1>1, <1>2 DEF SnapshotsSound

LEMMA InitIInv == Init => IInv
<1> SUFFICES ASSUME Init PROVE IInv
  OBVIOUS
<1>1. 0 \in PageNo /\ header \in Headers
  BY BoundsAssumption DEF Init, PageNo, Headers
<1>2. TypeOK
  BY <1>1, BoundsAssumption DEF Init, TypeOK, Datas, EmptyCache, Caches, Savepoints
<1>3. CacheSound
  BY <1>1 DEF Init, CacheSound, Sound, View, EmptyCache, Headers
<1>4. SnapshotsSound /\ QuietOutsideTx
  BY DEF Init, SnapshotsSound, QuietOutsideTx, Resident, EmptyCache
<1> QED BY <1>2, <1>3, <1>4 DEF IInv

LEMMA BeginIInv == IInv /\ Begin => IInv'
<1> SUFFICES ASSUME IInv, Begin PROVE IInv'
  OBVIOUS
<1>1. TypeOK' /\ CacheSound' /\ QuietOutsideTx'
  BY DEF IInv, Begin, TypeOK, CacheSound, Sound, View, QuietOutsideTx
<1>2. SnapshotsSound'
  BY SnapshotsKept DEF IInv, Begin
<1> QED BY <1>1, <1>2 DEF IInv

LEMMA PageDataIInv ==
  ASSUME IInv, NEW p \in PageNo, PageData(p)
  PROVE  IInv'
<1>1. /\ p < header.page_count /\ cache' \in Loaded(p) /\ cache[p] = NotCached
      /\ UNCHANGED <<disk, header, inTx, savepoints>>
  BY DEF PageData
<1>2. cache' \in Caches /\ Sound(cache', header)
  BY <1>1, LoadedSound DEF IInv
<1>3. TypeOK'
  BY <1>1, <1>2 DEF IInv, TypeOK
<1>4. CacheSound'
  BY <1>1, <1>2 DEF CacheSound, Sound, View
<1>5. SnapshotsSound'
  BY <1>1, SnapshotsKept DEF IInv
<1>6. QuietOutsideTx'
  <2> DEFINE s == Slot(disk[p], FALSE)
  <2>1. s \in Slots /\ s.dirty = FALSE
    BY SlotFields DEF IInv, TypeOK
  <2>2. cache' \in Inserted(cache, p, s)
    BY <1>1 DEF Loaded
  <2> HIDE DEF s
  <2>3. /\ cache'[p] = s
        /\ \A q \in PageNo \ {p} : cache'[q] = cache[q] \/ cache'[q] = NotCached
    BY <2>1, <2>2, InsertedShape DEF IInv, TypeOK
  <2> QED BY <1>1, <2>1, <2>3 DEF IInv, QuietOutsideTx, Resident
<1> QED BY <1>3, <1>4, <1>5, <1>6 DEF IInv

LEMMA WritePageIInv ==
  ASSUME IInv, NEW p \in PageNo, NEW v \in Vals, WritePage(p, v)
  PROVE  IInv'
<1>1. PICK c \in Loaded(p) : cache' = [c EXCEPT ![p] = Slot(v, TRUE)]
  BY DEF WritePage
<1>2. /\ inTx /\ p \in PageNo \ {0} /\ p < header.page_count
      /\ UNCHANGED <<disk, header, inTx, savepoints>>
  BY DEF WritePage, IInv, TypeOK, Headers, PageNo
<1>3. c \in Caches /\ Sound(c, header)
  BY <1>2, LoadedSound DEF IInv
<1>4. cache' \in Caches /\ Sound(cache', header)
  BY <1>1, <1>2, <1>3, WriteSound DEF IInv
<1>5. TypeOK' /\ QuietOutsideTx'
  BY <1>2, <1>4 DEF IInv, TypeOK, QuietOutsideTx
<1>6. CacheSound'
  BY <1>2, <1>4 DEF CacheSound, Sound, View
<1>7. SnapshotsSound'
  BY <1>2, SnapshotsKept DEF IInv
<1> QED BY <1>5, <1>6, <1>7 DEF IInv

LEMMA NewPageIInv == IInv /\ NewPage => IInv'
<1> SUFFICES ASSUME IInv, NewPage PROVE IInv'
  OBVIOUS
<1> DEFINE no == header.page_count
           h  == [header EXCEPT !.page_count = no + 1]
           s  == Slot(Zero, TRUE)
<1>1. PICK c \in HeaderRefreshed(h) : cache' \in Inserted(c, no, s)
  BY DEF NewPage
<1>2. /\ inTx /\ no <= MaxPage /\ header' = h
      /\ UNCHANGED <<disk, inTx, savepoints>>
  BY DEF NewPage
<1>3. /\ h \in Headers /\ no \in PageNo \ {0}
      /\ h.page_count = no + 1
  BY <1>2, BoundsAssumption DEF IInv, TypeOK, Headers, PageNo
<1>4. s \in Slots /\ s # NotCached /\ s.dirty = TRUE
  BY SlotFields, BoundsAssumption DEF Datas
<1> HIDE DEF s, h
<1>5. /\ c \in Caches /\ View(c)[0] = h
      /\ \A q \in PageNo : c[q] # NotCached /\ ~c[q].dirty => c[q].data = disk[q]
      /\ \A q \in PageNo : disk[0].page_count <= q /\ q < no
                           => c[q] # NotCached /\ c[q].dirty
  BY <1>1, <1>3, HeaderRefreshedSound DEF IInv
<1>6. /\ cache' \in Caches /\ cache'[no] = s
      /\ \A q \in PageNo \ {no} :
           \/ cache'[q] = c[q]
           \/ c[q] # NotCached /\ ~c[q].dirty /\ cache'[q] = NotCached
  BY <1>1, <1>3, <1>4, <1>5, InsertedShape
<1>7. \A q \in PageNo : cache'[q] # NotCached /\ ~cache'[q].dirty
                        => cache'[q].data = disk[q]
  BY <1>4, <1>5, <1>6
<1>8. View(cache')[0] = h
  <2>1. 0 \in PageNo \ {no}
    BY <1>3, BoundsAssumption DEF PageNo
  <2> QED BY <1>5, <1>6, <2>1 DEF View
<1>9. \A q \in PageNo : disk[0].page_count <= q /\ q < h.page_count
                        => cache'[q] # NotCached /\ cache'[q].dirty
  <2>1. SUFFICES ASSUME NEW q \in PageNo, disk[0].page_count <= q, q < no + 1
                 PROVE  cache'[q] # NotCached /\ cache'[q].dirty
    BY <1>3
  <2>2. q = no \/ q < no
    BY <2>1, <1>3, BoundsAssumption DEF PageNo
  <2> QED BY <2>1, <2>2, <1>4, <1>5, <1>6
<1>10. CacheSound'
  BY <1>2, <1>7, <1>8, <1>9 DEF CacheSound, Sound, View
<1>11. TypeOK' /\ QuietOutsideTx'
  BY <1>2, <1>3, <1>6 DEF IInv, TypeOK, QuietOutsideTx
<1>12. SnapshotsSound'
  BY <1>2, SnapshotsKept DEF IInv
<1> QED BY <1>10, <1>11, <1>12 DEF IInv

LEMMA SetCatalogRootPageIInv ==
  ASSUME IInv, NEW p \in PageNo, SetCatalogRootPage(p)
  PROVE  IInv'
<1>1. /\ inTx /\ header' = [header EXCEPT !.root = p]
      /\ cache' \in HeaderRefreshed(header')
      /\ UNCHANGED <<disk, inTx, savepoints>>
  BY DEF SetCatalogRootPage
<1>2. header' \in Headers /\ header'.page_count = header.page_count
  BY <1>1 DEF IInv, TypeOK, Headers
<1>3. cache' \in Caches /\ Sound(cache', header')
  BY <1>1, <1>2, HeaderRefreshedSound DEF IInv
<1>4. TypeOK' /\ QuietOutsideTx'
  BY <1>1, <1>2, <1>3 DEF IInv, TypeOK, QuietOutsideTx
<1>5. CacheSound'
  BY <1>1, <1>3 DEF CacheSound, Sound, View
<1>6. SnapshotsSound'
  BY <1>1, SnapshotsKept DEF IInv
<1> QED BY <1>4, <1>5, <1>6 DEF IInv

\* A commit writes what the cache shows: the file becomes the view.
LEMMA FlushedIsView == IInv => Flushed = View(cache)
<1> SUFFICES ASSUME IInv PROVE Flushed = View(cache)
  OBVIOUS
<1>1. ASSUME NEW p \in PageNo PROVE Flushed[p] = View(cache)[p]
  BY DEF IInv, CacheSound, Sound, Flushed, View
<1> QED BY <1>1 DEF Flushed, View

LEMMA CommitIInv == IInv /\ Commit => IInv'
<1> SUFFICES ASSUME IInv, Commit PROVE IInv'
  OBVIOUS
<1>1. /\ disk' = View(cache) /\ cache' = AllClean(cache) /\ inTx' = FALSE
      /\ savepoints' = <<>> /\ header' = header
  BY FlushedIsView DEF Commit
<1>2. disk' \in [PageNo -> Datas] /\ disk'[0] = header
  BY <1>1 DEF View, IInv, TypeOK, Caches, Slots, CacheSound, Sound
<1>3. ASSUME NEW p \in PageNo
      PROVE  \/ cache[p] = NotCached /\ cache'[p] = NotCached
             \/ /\ cache[p] # NotCached /\ cache'[p] \in Slots /\ cache'[p] # NotCached
                /\ cache'[p].data = cache[p].data /\ cache'[p].dirty = FALSE
  <2>1. CASE cache[p] = NotCached
    BY <1>1, <2>1 DEF AllClean
  <2>2. CASE cache[p] # NotCached
    <3>1. cache[p].data \in Datas
      BY <2>2 DEF IInv, TypeOK, Caches, Slots
    <3>2. cache'[p] = Slot(cache[p].data, FALSE)
      BY <1>1, <2>2 DEF AllClean
    <3> QED BY <2>2, <3>1, <3>2, SlotFields
  <2> QED BY <2>1, <2>2
<1>4. cache' \in Caches
  BY <1>1, <1>3 DEF AllClean, Caches
<1>5. TypeOK' /\ SnapshotsSound' /\ QuietOutsideTx'
  <2>1. savepoints' \in Seq(Savepoints) /\ SnapshotsSound'
    BY <1>1, EmptyStack
  <2>2. TypeOK'
    BY <1>1, <1>2, <1>4, <2>1 DEF IInv, TypeOK
  <2>3. QuietOutsideTx'
    BY <1>1, <1>3 DEF QuietOutsideTx, Resident
  <2> QED BY <2>1, <2>2, <2>3
<1>6. \A p \in PageNo : cache'[p] # NotCached => cache'[p].data = disk'[p]
  BY <1>1, <1>3 DEF View
<1>7. CacheSound'
  <2>1. 0 \in PageNo
    BY BoundsAssumption DEF PageNo
  <2>2. View(cache)'[0] = header'
    BY <1>1, <1>2, <1>6, <2>1 DEF View
  <2>3. ~ \E p \in PageNo : disk'[0].page_count <= p /\ p < header'.page_count
    BY <1>1, <1>2, BoundsAssumption DEF IInv, TypeOK, Headers, PageNo
  <2> QED BY <1>6, <2>2, <2>3 DEF CacheSound, Sound
<1> QED BY <1>5, <1>7 DEF IInv

\* Rollback and Reopen leave an empty cache and the file's own header.
LEMMA EmptyIInv ==
  ASSUME IInv, cache' = EmptyCache, header' = disk[0], inTx' = FALSE,
         savepoints' = <<>>, UNCHANGED disk
  PROVE  IInv'
<1>1. savepoints' \in Seq(Savepoints) /\ SnapshotsSound'
  BY EmptyStack
<1>2. TypeOK'
  BY <1>1 DEF IInv, TypeOK, EmptyCache, Caches
<1>3. QuietOutsideTx'
  BY DEF QuietOutsideTx, Resident, EmptyCache
<1>4. CacheSound'
  <2>1. 0 \in PageNo
    BY BoundsAssumption DEF PageNo
  <2>2. ~ \E p \in PageNo : disk'[0].page_count <= p /\ p < header'.page_count
    BY BoundsAssumption DEF IInv, TypeOK, Headers, PageNo
  <2> QED BY <2>1, <2>2 DEF CacheSound, Sound, View, EmptyCache
<1> QED BY <1>1, <1>2, <1>3, <1>4 DEF IInv

LEMMA SetSavepointIInv ==
  ASSUME IInv, NEW n \in Names, SetSavepoint(n)
  PROVE  IInv'
<1> DEFINE sp == [name |-> n, header |-> header, snapshot |-> cache]
<1>1. /\ inTx /\ savepoints' = Append(savepoints, sp)
      /\ UNCHANGED <<disk, header, cache, inTx>>
  BY DEF SetSavepoint
<1>2. sp \in Savepoints
  BY DEF IInv, TypeOK, Savepoints
<1>3. /\ savepoints' \in Seq(Savepoints)
      /\ Len(savepoints') = Len(savepoints) + 1
      /\ Len(savepoints) \in Nat
      /\ \A i \in 1..Len(savepoints) : savepoints'[i] = savepoints[i]
      /\ savepoints'[Len(savepoints) + 1] = sp
  BY <1>1, <1>2 DEF IInv, TypeOK
<1>4. TypeOK' /\ CacheSound' /\ QuietOutsideTx'
  BY <1>1, <1>3 DEF IInv, TypeOK, CacheSound, Sound, View, QuietOutsideTx
<1>5. ASSUME NEW i \in 1..Len(savepoints')
      PROVE  Sound(savepoints'[i].snapshot, savepoints'[i].header)
  <2>1. CASE i \in 1..Len(savepoints)
    BY <1>3, <2>1 DEF IInv, SnapshotsSound
  <2>2. CASE i = Len(savepoints) + 1
    BY <1>3, <2>2 DEF IInv, CacheSound
  <2> QED BY <1>3, <2>1, <2>2
<1>6. SnapshotsSound'
  BY <1>1, <1>5 DEF SnapshotsSound, Sound, View
<1> QED BY <1>4, <1>6 DEF IInv

\* Truncating the stack keeps what is left of it.
LEMMA TruncatedStack ==
  ASSUME IInv, UNCHANGED disk, NEW k \in 0..Len(savepoints),
         savepoints' = SubSeq(savepoints, 1, k)
  PROVE  savepoints' \in Seq(Savepoints) /\ SnapshotsSound'
<1>1. /\ savepoints' \in Seq(Savepoints)
      /\ Len(savepoints') = k
      /\ \A i \in 1..k : i \in 1..Len(savepoints) /\ savepoints'[i] = savepoints[i]
  BY DEF IInv, TypeOK
<1>2. \A i \in 1..k : Sound(savepoints'[i].snapshot, savepoints'[i].header)
  BY <1>1 DEF IInv, SnapshotsSound
<1>3. SnapshotsSound'
  BY <1>1, <1>2 DEF SnapshotsSound, Sound, View
<1> QED BY <1>1, <1>3

LEMMA RollbackToSavepointIInv ==
  ASSUME IInv, NEW n \in Names, RollbackToSavepoint(n)
  PROVE  IInv'
<1>1. PICK i \in 1..Len(savepoints) :
         /\ savepoints' = SubSeq(savepoints, 1, i)
         /\ header' = savepoints[i].header
         /\ cache' = savepoints[i].snapshot
  BY DEF RollbackToSavepoint
<1>2. inTx /\ UNCHANGED <<disk, inTx>>
  BY DEF RollbackToSavepoint
<1>3. i \in 0..Len(savepoints) /\ savepoints[i] \in Savepoints
  BY DEF IInv, TypeOK
<1>4. savepoints' \in Seq(Savepoints) /\ SnapshotsSound'
  BY <1>1, <1>2, <1>3, TruncatedStack
<1>5. header' \in Headers /\ cache' \in Caches
  BY <1>1, <1>3 DEF Savepoints
<1>6. TypeOK' /\ QuietOutsideTx'
  BY <1>2, <1>4, <1>5 DEF IInv, TypeOK, QuietOutsideTx
<1>7. CacheSound'
  BY <1>1, <1>2 DEF IInv, SnapshotsSound, CacheSound, Sound, View
<1> QED BY <1>4, <1>6, <1>7 DEF IInv

LEMMA ReleaseSavepointIInv ==
  ASSUME IInv, NEW n \in Names, ReleaseSavepoint(n)
  PROVE  IInv'
<1>1. PICK i \in 1..Len(savepoints) : savepoints' = SubSeq(savepoints, 1, i - 1)
  BY DEF ReleaseSavepoint
<1>2. inTx /\ UNCHANGED <<disk, header, cache, inTx>>
  BY DEF ReleaseSavepoint
<1>3. i - 1 \in 0..Len(savepoints)
  BY DEF IInv, TypeOK
<1>4. savepoints' \in Seq(Savepoints) /\ SnapshotsSound'
  BY <1>1, <1>2, <1>3, TruncatedStack
<1>5. TypeOK' /\ QuietOutsideTx' /\ CacheSound'
  BY <1>2, <1>4 DEF IInv, TypeOK, QuietOutsideTx, CacheSound, Sound, View
<1> QED BY <1>4, <1>5 DEF IInv

LEMMA NextIInv == IInv /\ [Next]_vars => IInv'
<1> SUFFICES ASSUME IInv, [Next]_vars PROVE IInv'
  OBVIOUS
<1>1. CASE Begin
  BY <1>1, BeginIInv
<1>2. ASSUME NEW p \in PageNo, PageData(p) PROVE IInv'
  BY <1>2, PageDataIInv
<1>3. ASSUME NEW p \in PageNo, NEW v \in Vals, WritePage(p, v) PROVE IInv'
  BY <1>3, WritePageIInv
<1>4. CASE NewPage
  BY <1>4, NewPageIInv
<1>5. ASSUME NEW p \in PageNo, SetCatalogRootPage(p) PROVE IInv'
  BY <1>5, SetCatalogRootPageIInv
<1>6. CASE Commit
  BY <1>6, CommitIInv
<1>7. CASE Rollback
  BY <1>7, EmptyIInv DEF Rollback
<1>8. CASE Reopen
  <2>1. savepoints' = <<>> /\ inTx' = FALSE
    BY <1>8 DEF Reopen, IInv, TypeOK, QuietOutsideTx
  <2> QED BY <1>8, <2>1, EmptyIInv DEF Reopen
<1>9. ASSUME NEW n \in Names, SetSavepoint(n) PROVE IInv'
  BY <1>9, SetSavepointIInv
<1>10. ASSUME NEW n \in Names, RollbackToSavepoint(n) PROVE IInv'
  BY <1>10, RollbackToSavepointIInv
<1>11. ASSUME NEW n \in Names, ReleaseSavepoint(n) PROVE IInv'
  BY <1>11, ReleaseSavepointIInv
<1>12. CASE UNCHANGED vars
  BY <1>12 DEF vars, IInv, TypeOK, CacheSound, SnapshotsSound, QuietOutsideTx,
                Sound, View, Resident
<1> QED
  BY <1>1, <1>2, <1>3, <1>4, <1>5, <1>6, <1>7, <1>8, <1>9, <1>10, <1>11, <1>12
     DEF Next

\* The inductive invariant holds in every reachable state.
THEOREM SpecIInv == Spec => []IInv
<1>1. Init => IInv
  BY InitIInv
<1>2. IInv /\ [Next]_vars => IInv'
  BY NextIInv
<1> QED BY <1>1, <1>2, PTL DEF Spec

\* The Pager's fields and the file keep their types.
THEOREM TypeCorrect == Spec => []TypeOK
<1>1. IInv => TypeOK
  BY DEF IInv
<1> QED BY <1>1, SpecIInv, PTL

\* Eviction, allocation and partial rollback never lose a write of the open
\* transaction, separate the header from page 0, or leave a page that could
\* only be read past the end of the file.
THEOREM CacheCorrect == Spec => []CacheSound
<1>1. IInv => CacheSound
  BY DEF IInv
<1> QED BY <1>1, SpecIInv, PTL

\* A savepoint's snapshot can be restored at any later point of the
\* transaction, whatever was evicted, loaded or allocated since.
THEOREM SavepointsCorrect == Spec => []SnapshotsSound
<1>1. IInv => SnapshotsSound
  BY DEF IInv
<1> QED BY <1>1, SpecIInv, PTL

\* Between transactions the Pager holds no dirty page and no savepoint, so a
\* BEGIN inherits nothing of the transaction before it.
THEOREM NothingLeftOpen == Spec => []QuietOutsideTx
<1>1. IInv => QuietOutsideTx
  BY DEF IInv
<1> QED BY <1>1, SpecIInv, PTL

-----------------------------------------------------------------------------
(* The Pager implements TxStore.                                           *)

\* What a sound cache shows is a database state.
LEMMA ViewInStates ==
  ASSUME TypeOK, NEW c \in Caches
  PROVE  View(c) \in [PageNo -> Datas]
BY DEF TypeOK, View, Caches, Slots

\* Loading a page, with the eviction it may cause, changes nothing a reader
\* can see.
LEMMA LoadKeepsView ==
  ASSUME IInv, NEW p \in PageNo, p < header.page_count, NEW c \in Loaded(p)
  PROVE  View(c) = View(cache)
<1>1. CASE cache[p] # NotCached
  BY <1>1 DEF Loaded
<1>2. CASE cache[p] = NotCached
  <2> DEFINE s == Slot(disk[p], FALSE)
  <2>1. s \in Slots /\ s # NotCached /\ s.data = disk[p]
    BY SlotFields DEF IInv, TypeOK
  <2>2. c \in Inserted(cache, p, s)
    BY <1>2 DEF Loaded
  <2> HIDE DEF s
  <2>3. /\ c[p] = s
        /\ \A q \in PageNo \ {p} :
             \/ c[q] = cache[q]
             \/ cache[q] # NotCached /\ ~cache[q].dirty /\ c[q] = NotCached
    BY <2>1, <2>2, InsertedShape DEF IInv, TypeOK
  <2>4. ASSUME NEW q \in PageNo PROVE View(c)[q] = View(cache)[q]
    BY <1>2, <2>1, <2>3 DEF View, IInv, CacheSound, Sound
  <2> QED BY <2>4 DEF View
<1> QED BY <1>1, <1>2

LEMMA InitRefines == Init => Store!Init
<1> SUFFICES ASSUME Init PROVE Store!Init
  OBVIOUS
<1>1. TypeOK
  BY InitIInv DEF IInv
<1>2. View(cache) = disk
  BY <1>1 DEF Init, View, EmptyCache, TypeOK
<1>3. StackView = <<>>
  BY DEF Init, StackView
<1> QED BY <1>1, <1>2, <1>3 DEF Store!Init, Init, TypeOK

\* A transaction's change of pages is one update of the working state.
LEMMA UpdateRefines ==
  ASSUME IInv, IInv', inTx, UNCHANGED <<disk, inTx, savepoints>>
  PROVE  Store!Update
<1>1. View(cache)' \in [PageNo -> Datas]
  BY ViewInStates DEF IInv, TypeOK, View, Caches, Slots
<1>2. UNCHANGED StackView
  BY DEF StackView, View
<1> QED BY <1>1, <1>2 DEF Store!Update

LEMMA SetSavepointRefines ==
  ASSUME IInv, NEW n \in Names, SetSavepoint(n)
  PROVE  Store!SetSavepoint(n)
<1> DEFINE sp == [name |-> n, header |-> header, snapshot |-> cache]
           e  == [name |-> n, state |-> View(cache)]
<1>1. /\ inTx /\ savepoints' = Append(savepoints, sp)
      /\ UNCHANGED <<disk, header, cache, inTx>>
  BY DEF SetSavepoint
<1>2. sp \in Savepoints
  BY DEF IInv, TypeOK, Savepoints
<1>3. /\ Len(savepoints) \in Nat
      /\ Len(savepoints') = Len(savepoints) + 1
      /\ \A i \in 1..Len(savepoints) : savepoints'[i] = savepoints[i]
      /\ savepoints'[Len(savepoints) + 1] = sp
  BY <1>1, <1>2 DEF IInv, TypeOK
<1>4. StackView \in Seq([name : Names, state : [PageNo -> Datas]])
  <2>1. ASSUME NEW i \in 1..Len(savepoints)
        PROVE  StackView[i] \in [name : Names, state : [PageNo -> Datas]]
    <3>1. savepoints[i] \in Savepoints
      BY DEF IInv, TypeOK
    <3>2. savepoints[i].name \in Names /\ savepoints[i].snapshot \in Caches
      BY <3>1 DEF Savepoints
    <3>3. View(savepoints[i].snapshot) \in [PageNo -> Datas]
      BY <3>2, ViewInStates DEF IInv
    <3> QED BY <3>2, <3>3 DEF StackView
  <2> QED BY <1>3, <2>1 DEF StackView
<1>5. Len(StackView) = Len(savepoints)
  BY <1>3, <1>4 DEF StackView
<1>6. e \in [name : Names, state : [PageNo -> Datas]]
  BY ViewInStates DEF IInv, TypeOK
<1>7. /\ Append(StackView, e) \in Seq([name : Names, state : [PageNo -> Datas]])
      /\ Len(Append(StackView, e)) = Len(savepoints) + 1
      /\ \A i \in 1..Len(savepoints) : Append(StackView, e)[i] = StackView[i]
      /\ Append(StackView, e)[Len(savepoints) + 1] = e
  BY <1>3, <1>4, <1>5, <1>6
<1>8. /\ StackView' = [i \in 1..(Len(savepoints) + 1) |-> StackView'[i]]
      /\ \A i \in 1..Len(savepoints) : StackView'[i] = StackView[i]
      /\ StackView'[Len(savepoints) + 1] = e
  <2>1. StackView' = [i \in 1..Len(savepoints') |->
                        [name |-> savepoints'[i].name,
                         state |-> View(savepoints'[i].snapshot)]]
    BY <1>1 DEF StackView, View
  <2>2. ASSUME NEW i \in 1..Len(savepoints) PROVE StackView'[i] = StackView[i]
    BY <1>3, <2>1, <2>2 DEF StackView
  <2>3. StackView'[Len(savepoints) + 1] = e
    BY <1>3, <2>1
  <2>4. StackView' = [i \in 1..(Len(savepoints) + 1) |-> StackView'[i]]
    BY <1>3, <2>1
  <2> QED BY <2>2, <2>3, <2>4
<1>9. StackView' = Append(StackView, e)
  <2> DEFINE app == Append(StackView, e)
  <2>1. app = [i \in 1..(Len(savepoints) + 1) |-> app[i]]
    BY <1>7
  <2>2. \A i \in 1..(Len(savepoints) + 1) : StackView'[i] = app[i]
    BY <1>3, <1>7, <1>8
  <2> HIDE DEF app
  <2>3. StackView' = app
    BY <1>8, <2>1, <2>2
  <2> QED BY <2>3 DEF app
<1> QED BY <1>1, <1>9 DEF Store!SetSavepoint, View

\* Truncating the stack truncates the abstract stack at the same place.
LEMMA TruncationRefines ==
  ASSUME IInv, UNCHANGED disk, NEW k \in 0..Len(savepoints),
         savepoints' = SubSeq(savepoints, 1, k)
  PROVE  StackView' = SubSeq(StackView, 1, k)
<1>1. /\ Len(savepoints) \in Nat
      /\ Len(savepoints') = k
      /\ \A i \in 1..k : i \in 1..Len(savepoints) /\ savepoints'[i] = savepoints[i]
  BY DEF IInv, TypeOK
<1>2. StackView' = [i \in 1..Len(savepoints') |->
                      [name |-> savepoints'[i].name,
                       state |-> View(savepoints'[i].snapshot)]]
  BY DEF StackView, View
<1>3. StackView' = [i \in 1..k |-> StackView'[i]]
  BY <1>1, <1>2
<1>4. ASSUME NEW i \in 1..k PROVE StackView'[i] = StackView[i]
  BY <1>1, <1>2 DEF StackView
<1>5. SubSeq(StackView, 1, k) = [i \in 1..k |-> StackView[i]]
  BY <1>1
<1> QED BY <1>3, <1>4, <1>5

\* The abstract stack has the detailed one's length and names.
LEMMA StackViewShape ==
  ASSUME IInv
  PROVE  /\ Len(StackView) = Len(savepoints)
         /\ \A i \in 1..Len(savepoints) :
              /\ StackView[i].name = savepoints[i].name
              /\ StackView[i].state = View(savepoints[i].snapshot)
<1>1. Len(savepoints) \in Nat
  BY DEF IInv, TypeOK
<1>2. DOMAIN StackView = 1..Len(savepoints)
  BY DEF StackView
<1>3. Len(StackView) = Len(savepoints)
  BY <1>1, <1>2 DEF StackView
<1> QED BY <1>1, <1>3 DEF StackView

LEMMA RollbackToRefines ==
  ASSUME IInv, NEW n \in Names, RollbackToSavepoint(n)
  PROVE  Store!RollbackTo(n)
<1>1. PICK i \in 1..Len(savepoints) :
         /\ Youngest(n, i)
         /\ savepoints' = SubSeq(savepoints, 1, i)
         /\ cache' = savepoints[i].snapshot
  BY DEF RollbackToSavepoint
<1>2. inTx /\ UNCHANGED <<disk, inTx>>
  BY DEF RollbackToSavepoint
<1>3. i \in 0..Len(savepoints) /\ Len(savepoints) \in Nat
  BY DEF IInv, TypeOK
<1>4. StackView' = SubSeq(StackView, 1, i)
  BY <1>1, <1>2, <1>3, TruncationRefines
<1>5. View(cache)' = StackView[i].state
  BY <1>1, <1>2, StackViewShape DEF View
<1>6. i \in 1..Len(StackView) /\ Store!Youngest(n, i)
  BY <1>1, <1>3, StackViewShape DEF Youngest, Store!Youngest
<1> QED BY <1>2, <1>4, <1>5, <1>6 DEF Store!RollbackTo

LEMMA ReleaseRefines ==
  ASSUME IInv, NEW n \in Names, ReleaseSavepoint(n)
  PROVE  Store!Release(n)
<1>1. PICK i \in 1..Len(savepoints) :
         /\ Youngest(n, i)
         /\ savepoints' = SubSeq(savepoints, 1, i - 1)
  BY DEF ReleaseSavepoint
<1>2. inTx /\ UNCHANGED <<disk, header, cache, inTx>>
  BY DEF ReleaseSavepoint
<1>3. i - 1 \in 0..Len(savepoints) /\ Len(savepoints) \in Nat
  BY DEF IInv, TypeOK
<1>4. StackView' = SubSeq(StackView, 1, i - 1)
  BY <1>1, <1>2, <1>3, TruncationRefines
<1>5. i \in 1..Len(StackView) /\ Store!Youngest(n, i)
  <2>1. /\ i \in 1..Len(savepoints) /\ savepoints[i].name = n
        /\ \A j \in i + 1..Len(savepoints) : savepoints[j].name # n
    BY <1>1 DEF Youngest
  <2>2. /\ Len(StackView) = Len(savepoints)
        /\ \A j \in 1..Len(savepoints) : StackView[j].name = savepoints[j].name
    BY StackViewShape
  <2>3. StackView[i].name = n
    BY <2>1, <2>2
  <2>4. \A j \in i + 1..Len(StackView) : StackView[j].name # n
    <3>1. SUFFICES ASSUME NEW j \in i + 1..Len(savepoints)  PROVE StackView[j].name # n
      BY <2>2
    <3>2. j \in 1..Len(savepoints) /\ savepoints[j].name # n
      BY <1>3, <2>1, <3>1
    <3> QED BY <2>2, <3>2
  <2> QED BY <2>1, <2>2, <2>3, <2>4 DEF Store!Youngest
<1> QED BY <1>2, <1>4, <1>5 DEF Store!Release, View

\* A commit publishes exactly what the transaction was shown.
LEMMA CommitRefines == IInv /\ Commit => Store!Commit
<1> SUFFICES ASSUME IInv, Commit PROVE Store!Commit
  OBVIOUS
<1>1. /\ inTx /\ disk' = View(cache) /\ cache' = AllClean(cache) /\ inTx' = FALSE
      /\ savepoints' = <<>>
  BY FlushedIsView DEF Commit
<1>2. StackView' = <<>>
  BY <1>1 DEF StackView
<1>3. ASSUME NEW p \in PageNo PROVE View(cache)'[p] = View(cache)[p]
  BY <1>1 DEF View, AllClean, Slot
<1>4. View(cache)' = View(cache)
  BY <1>3 DEF View
<1> QED BY <1>1, <1>2, <1>4 DEF Store!Commit

LEMMA RollbackRefines == IInv /\ Rollback => Store!Rollback
<1> SUFFICES ASSUME IInv, Rollback PROVE Store!Rollback
  OBVIOUS
<1>1. View(cache)' = disk
  BY DEF Rollback, IInv, TypeOK, View, EmptyCache
<1>2. StackView' = <<>>
  BY DEF Rollback, StackView
<1> QED BY <1>1, <1>2 DEF Rollback, Store!Rollback

\* Outside a transaction the cache shows the file.
LEMMA ReopenRefines == IInv /\ Reopen => UNCHANGED Store!vars
<1> SUFFICES ASSUME IInv, Reopen PROVE UNCHANGED Store!vars
  OBVIOUS
<1>1. View(cache) = disk
  BY DEF Reopen, IInv, TypeOK, QuietOutsideTx, CacheSound, Sound, Resident, View
<1>2. View(cache)' = disk
  BY DEF Reopen, IInv, TypeOK, View, EmptyCache
<1>3. UNCHANGED StackView
  BY DEF Reopen, StackView, View
<1> QED BY <1>1, <1>2, <1>3 DEF Reopen, Store!vars

LEMMA NextRefines == IInv /\ IInv' /\ [Next]_vars => [Store!Next]_(Store!vars)
<1> SUFFICES ASSUME IInv, IInv', [Next]_vars PROVE [Store!Next]_(Store!vars)
  OBVIOUS
<1>1. CASE Begin
  <2>1. UNCHANGED StackView
    BY <1>1 DEF Begin, StackView, View
  <2> QED BY <1>1, <2>1 DEF Begin, Store!Begin, Store!Next, View
<1>2. ASSUME NEW p \in PageNo, PageData(p) PROVE UNCHANGED Store!vars
  <2>1. cache' \in Loaded(p) /\ p < header.page_count
        /\ UNCHANGED <<disk, inTx, savepoints>>
    BY <1>2 DEF PageData
  <2>2. View(cache)' = View(cache)
    BY <2>1, LoadKeepsView DEF View
  <2>3. UNCHANGED StackView
    BY <2>1 DEF StackView, View
  <2> QED BY <2>1, <2>2, <2>3 DEF Store!vars
<1>3. ASSUME NEW p \in PageNo, NEW v \in Vals, WritePage(p, v) PROVE Store!Update
  BY <1>3, UpdateRefines DEF WritePage
<1>4. CASE NewPage
  BY <1>4, UpdateRefines DEF NewPage, Store!Next
<1>5. ASSUME NEW p \in PageNo, SetCatalogRootPage(p) PROVE Store!Update
  BY <1>5, UpdateRefines DEF SetCatalogRootPage
<1>6. CASE Commit
  BY <1>6, CommitRefines DEF Store!Next
<1>7. CASE Rollback
  BY <1>7, RollbackRefines DEF Store!Next
<1>8. CASE Reopen
  BY <1>8, ReopenRefines
<1>9. ASSUME NEW n \in Names, SetSavepoint(n) PROVE Store!SetSavepoint(n)
  BY <1>9, SetSavepointRefines
<1>10. ASSUME NEW n \in Names, RollbackToSavepoint(n) PROVE Store!RollbackTo(n)
  BY <1>10, RollbackToRefines
<1>11. ASSUME NEW n \in Names, ReleaseSavepoint(n) PROVE Store!Release(n)
  BY <1>11, ReleaseRefines
<1>12. CASE UNCHANGED vars
  BY <1>12 DEF vars, Store!vars, StackView, View
<1> QED
  BY <1>1, <1>2, <1>3, <1>4, <1>5, <1>6, <1>7, <1>8, <1>9, <1>10, <1>11, <1>12
     DEF Next, Store!Next

\* The Pager implements the transactional store: a commit publishes exactly
\* the working state, ROLLBACK TO restores exactly the state its savepoint
\* saw, and loads, evictions and reopenings are invisible.
THEOREM Refinement == Spec => ImplementsTxStore
<1>1. Init => Store!Init
  BY InitRefines
<1>2. IInv /\ IInv' /\ [Next]_vars => [Store!Next]_(Store!vars)
  BY NextRefines
<1> QED BY <1>1, <1>2, SpecIInv, PTL DEF Spec, ImplementsTxStore, Store!Spec

-----------------------------------------------------------------------------
(* BPlusTree: sequences of entries and separators.                         *)

\* Every set of natural numbers has a least one.  Induction over a bounded
\* index is by the least counterexample.
LEMMA LeastNat ==
  ASSUME NEW T, T \subseteq Nat, T # {}
  PROVE  \E n \in T : \A m \in T : n <= m
<1>1. PICK n \in T : \A m \in T : ~(<<m, n>> \in OpToRel(<, Nat))
  BY NatLessThanWellFounded, WFMin
<1>2. \A m \in T : n <= m
  <2> TAKE m \in T
  <2>1. m \in Nat /\ n \in Nat  BY <1>1
  <2>2. m < n => <<m, n>> \in OpToRel(<, Nat)  BY <2>1 DEF OpToRel
  <2>3. ~(<<m, n>> \in OpToRel(<, Nat))  BY <1>1
  <2>4. ~(m < n)  BY <2>2, <2>3
  <2> QED  BY <2>1, <2>4
<1> QED  BY <1>1, <1>2

\* An initial segment of 1..n is told by how many numbers it has.
LEMMA Segment ==
  ASSUME NEW n \in Nat, NEW S, S \subseteq 1..n,
         \A i \in S : \A j \in 1..i : j \in S
  PROVE  Cardinality(S) \in 0..n /\ S = 1..Cardinality(S)
<1> DEFINE T == (1..(n + 1)) \ S
<1>1. T \subseteq Nat /\ n + 1 \in T  OBVIOUS
<1>2. PICK m \in T : \A i \in T : m <= i  BY <1>1, LeastNat
<1>3. m \in 1..(n + 1) /\ m \notin S  BY <1>2
<1>4. S = 1..(m - 1)
  <2>1. ASSUME NEW i \in S  PROVE i \in 1..(m - 1)
    <3>1. i \in Nat /\ i >= 1  OBVIOUS
    <3>2. ~(m <= i)
      <4>1. m <= i => m \in 1..i  BY <1>3, <3>1
      <4>2. m \in 1..i => m \in S  BY <2>1
      <4> QED  BY <1>3, <4>1, <4>2
    <3> QED  BY <1>3, <3>1, <3>2
  <2>2. ASSUME NEW i \in 1..(m - 1)  PROVE i \in S
    <3>1. i \in 1..(n + 1) /\ ~(m <= i)  BY <1>3
    <3>2. i \notin T  BY <1>2, <3>1
    <3> QED  BY <3>1, <3>2
  <2> QED  BY <2>1, <2>2
<1>5. Cardinality(1..(m - 1)) = m - 1  BY <1>3, FS_Interval
<1> HIDE DEF T
<1> QED  BY <1>3, <1>4, <1>5

\* Where a key falls among the separators of a node: the last that is not above
\* it has place m.
At(n, k, m) ==
  /\ m \in 0..Len(n.entries)
  /\ \A j \in 1..m : n.entries[j].key <= k
  /\ m < Len(n.entries) => n.entries[m + 1].key > k

\* The children of a node, by place.
Child(n, i) == IF i = 0 THEN n.first ELSE n.entries[i].child

\* Separators, and the internal nodes they make.
Seps == [key : Keys, child : Nat]
SepSeqs == Seq(Seps)
Inners == [type : {"internal"}, first : Nat, entries : SepSeqs]

\* What a sequence over S consists of.
LEMMA SeqElement ==
  ASSUME NEW S, NEW s \in Seq(S)
  PROVE  Len(s) \in Nat /\ \A j \in 1..Len(s) : s[j] \in S
  OBVIOUS

\* A sequence over S is one over more.
LEMMA SeqWiden ==
  ASSUME NEW S, NEW s \in Seq(S), NEW T, S \subseteq T
  PROVE  s \in Seq(T)
  OBVIOUS

\* What a concatenation is, place by place.
LEMMA ConcatIs ==
  ASSUME NEW S, NEW a \in Seq(S), NEW b \in Seq(S)
  PROVE  /\ a \o b \in Seq(S) /\ Len(a \o b) = Len(a) + Len(b)
         /\ \A j \in 1..(Len(a) + Len(b)) : (a \o b)[j] = IF j <= Len(a) THEN a[j] ELSE b[j - Len(a)]
  OBVIOUS

\* What a separator consists of.
LEMMA SepFields ==
  ASSUME NEW e \in Seps
  PROVE  e.key \in Keys /\ e.key \in Int /\ e.child \in Nat /\ e = Sep(e.key, e.child)
  BY TreeAssumption DEF Seps, Sep

\* What the separators of a node are.
LEMMA SepSeq ==
  ASSUME NEW s \in SepSeqs
  PROVE  /\ Len(s) \in Nat
         /\ \A j \in 1..Len(s) : s[j] \in Seps /\ s[j].key \in Keys /\ s[j].key \in Int /\ s[j].child \in Nat
  BY SepFields, SeqElement DEF SepSeqs

\* What an internal node consists of.
LEMMA InnerType ==
  ASSUME NEW n \in Inners
  PROVE  /\ n.type = "internal" /\ n.first \in Nat
         /\ n.entries \in SepSeqs /\ Len(n.entries) \in Nat
         /\ \A j \in 1..Len(n.entries) :
              /\ n.entries[j] \in Seps
              /\ n.entries[j].key \in Keys /\ n.entries[j].key \in Int
              /\ n.entries[j].child \in Nat
<1>1. n.type = "internal" /\ n.first \in Nat /\ n.entries \in SepSeqs  BY DEF Inners
<1> QED  BY <1>1, SepSeq

\* pick_child takes the child at that place.
LEMMA PickedAt ==
  ASSUME NEW n \in Inners, NEW k \in Keys
  PROVE  \E m \in 0..Len(n.entries) : At(n, k, m) /\ PickChild(n, k) = Child(n, m)
<1> DEFINE reached == {i \in 1..Len(n.entries) : \A j \in 1..i : n.entries[j].key <= k}
           m == Cardinality(reached)
<1>1. Len(n.entries) \in Nat  BY DEF Inners
<1>2. reached \subseteq 1..Len(n.entries) /\ \A i \in reached : \A j \in 1..i : j \in reached
  BY <1>1
<1>3. m \in 0..Len(n.entries) /\ reached = 1..m
  <2> HIDE DEF reached
  <2> QED  BY <1>1, <1>2, Segment
<1>4. \A j \in 1..m : n.entries[j].key <= k
  <2> TAKE j \in 1..m
  <2>1. j \in reached  BY <1>3
  <2> QED  BY <2>1
<1>5. m < Len(n.entries) => n.entries[m + 1].key > k
  <2> SUFFICES ASSUME m < Len(n.entries)  PROVE n.entries[m + 1].key > k
    OBVIOUS
  <2> HIDE DEF m
  <2>1. m + 1 \in 1..Len(n.entries) /\ m + 1 \notin reached  BY <1>1, <1>3
  <2>2. PICK j \in 1..(m + 1) : ~(n.entries[j].key <= k)  BY <2>1
  <2>3. j = m + 1  BY <1>3, <1>4, <2>2
  <2>4. n.entries[m + 1].key \in Int /\ k \in Int  BY <2>1, InnerType, TreeAssumption
  <2> QED  BY <2>2, <2>3, <2>4
<1>6. PickChild(n, k) = Child(n, m)
  <2>1. PickChild(n, k) = IF reached = {} THEN n.first ELSE n.entries[m].child  BY DEF PickChild
  <2>2. reached = {} <=> m = 0
    <3> HIDE DEF m, reached
    <3> QED  BY <1>1, <1>3
  <2> QED  BY <2>1, <2>2 DEF Child
<1> HIDE DEF m
<1> QED  BY <1>3, <1>4, <1>5, <1>6 DEF At

\* A key has one place among ascending separators.
LEMMA OnePlace ==
  ASSUME NEW n \in Inners, NEW k \in Keys, NEW m, NEW o, At(n, k, m), At(n, k, o)
  PROVE  m = o
<1>1. m \in Nat /\ o \in Nat /\ Len(n.entries) \in Nat  BY DEF At, Inners
<1>2. \A j \in 1..Len(n.entries) : n.entries[j].key \in Int  BY InnerType
<1>3. k \in Int  BY TreeAssumption
<1>4. ~(m < o)
  <2> SUFFICES ASSUME m < o  PROVE FALSE  OBVIOUS
  <2>1. m + 1 \in 1..o /\ m < Len(n.entries) /\ m + 1 \in 1..Len(n.entries)  BY <1>1 DEF At
  <2> QED  BY <2>1, <1>2, <1>3 DEF At
<1>5. ~(o < m)
  <2> SUFFICES ASSUME o < m  PROVE FALSE  OBVIOUS
  <2>1. o + 1 \in 1..m /\ o < Len(n.entries) /\ o + 1 \in 1..Len(n.entries)  BY <1>1 DEF At
  <2> QED  BY <2>1, <1>2, <1>3 DEF At
<1> QED  BY <1>1, <1>4, <1>5

\* pick_child takes the child at the place of the key.
LEMMA PickIs ==
  ASSUME NEW n \in Inners, NEW k \in Keys, NEW m, At(n, k, m)
  PROVE  PickChild(n, k) = Child(n, m)
  BY PickedAt, OnePlace

\* What is ordered by a key: entries and separators.
Keyed == [key : Keys, val : Values] \cup [key : Keys, child : Nat]

\* binary_search: the keys below k are the first ones, and k is next if it is
\* there at all.
LEMMA BelowAt ==
  ASSUME NEW s \in Seq(Keyed), Ascending(s), NEW k \in Keys
  PROVE  /\ Below(s, k) \in 0..Len(s)
         /\ \A j \in 1..Len(s) : j <= Below(s, k) <=> s[j].key < k
         /\ Has(s, k) => Below(s, k) < Len(s) /\ s[Below(s, k) + 1].key = k
         /\ ~Has(s, k) => \A j \in 1..Len(s) : j > Below(s, k) => s[j].key > k
<1> DEFINE B == {i \in 1..Len(s) : s[i].key < k}
           b == Cardinality(B)
<1>1. Len(s) \in Nat /\ k \in Int  BY TreeAssumption
<1>2. \A j \in 1..Len(s) : s[j].key \in Int
  <2>1. \A e \in Keyed : e.key \in Int  BY TreeAssumption DEF Keyed
  <2> QED  BY <2>1
<1>3. B \subseteq 1..Len(s) /\ \A i \in B : \A j \in 1..i : j \in B
  BY <1>1, <1>2 DEF Ascending
<1>4. b \in 0..Len(s) /\ B = 1..b
  <2> HIDE DEF B
  <2> QED  BY <1>1, <1>3, Segment
<1>5. Below(s, k) = b  BY DEF Below
<1>6. \A j \in 1..Len(s) : j <= b <=> s[j].key < k
  <2> TAKE j \in 1..Len(s)
  <2>1. j \in B <=> s[j].key < k  OBVIOUS
  <2> HIDE DEF b, B
  <2> QED  BY <1>1, <1>4, <2>1
<1> HIDE DEF b
<1>7. ASSUME Has(s, k)  PROVE b < Len(s) /\ s[b + 1].key = k
  <2>1. PICK i \in 1..Len(s) : s[i].key = k  BY <1>7 DEF Has
  <2>2. ~(i <= b)  BY <1>6, <1>1, <2>1
  <2>3. i \in Nat /\ b \in Nat /\ b + 1 <= i  BY <1>4, <1>1, <2>2
  <2>4. b + 1 \in 1..Len(s) /\ ~(b + 1 <= b)  BY <2>3, <1>1
  <2>5. ~(s[b + 1].key < k)  BY <2>4, <1>6
  <2>6. ~(b + 1 < i)
    <3>1. b + 1 < i => s[b + 1].key < s[i].key  BY <2>1, <2>4 DEF Ascending
    <3> QED  BY <3>1, <2>1, <2>5
  <2> QED  BY <2>1, <2>3, <2>4, <2>6
<1>8. ASSUME ~Has(s, k), NEW j \in 1..Len(s), j > b  PROVE s[j].key > k
  <2>1. ~(j <= b)  BY <1>4, <1>8, <1>1
  <2>2. s[j].key # k  BY <1>8 DEF Has
  <2> QED  BY <2>1, <2>2, <1>6, <1>2, <1>1
<1> QED  BY <1>4, <1>5, <1>6, <1>7, <1>8

-----------------------------------------------------------------------------
(* Nodes.                                                                  *)

\* No two children of a node are one page.
Distinct(n) == \A i, j \in 0..Len(n.entries) : Child(n, i) = Child(n, j) => i = j

\* An internal node has the fields it was built from.
LEMMA InternalFields ==
  ASSUME NEW first \in Nat, NEW entries \in SepSeqs
  PROVE  /\ Internal(first, entries) \in Inners
         /\ Internal(first, entries).first = first
         /\ Internal(first, entries).entries = entries
  BY DEF Internal, Inners

\* What an insertion leaves, place by place.
LEMMA InsertAtIs ==
  ASSUME NEW S, NEW s \in Seq(S), NEW i \in 1..(Len(s) + 1), NEW e \in S
  PROVE  /\ InsertAt(s, i, e) \in Seq(S)
         /\ Len(InsertAt(s, i, e)) = Len(s) + 1
         /\ \A j \in 1..(Len(s) + 1) :
              InsertAt(s, i, e)[j] = IF j < i THEN s[j] ELSE IF j = i THEN e ELSE s[j - 1]
<1> DEFINE a == SubSeq(s, 1, i - 1)
           b == SubSeq(s, i, Len(s))
<1>1. /\ a \in Seq(S) /\ Len(a) = i - 1 /\ \A j \in 1..(i - 1) : a[j] = s[j]
      /\ b \in Seq(S) /\ Len(b) = Len(s) - i + 1 /\ \A j \in 1..(Len(s) - i + 1) : b[j] = s[i + j - 1]
  OBVIOUS
<1>2. InsertAt(s, i, e) = a \o <<e>> \o b  BY DEF InsertAt
<1> HIDE DEF a, b
<1>3. /\ a \o <<e>> \in Seq(S) /\ Len(a \o <<e>>) = i
      /\ \A j \in 1..i : (a \o <<e>>)[j] = IF j < i THEN s[j] ELSE e
  BY <1>1
<1> DEFINE c == a \o <<e>>
<1> HIDE DEF c
<1>4. /\ c \o b \in Seq(S) /\ Len(c \o b) = Len(s) + 1
      /\ \A j \in 1..(Len(s) + 1) : (c \o b)[j] = IF j <= i THEN c[j] ELSE b[j - i]
  <2>1. c \in Seq(S) /\ b \in Seq(S) /\ Len(c) = i /\ Len(b) = Len(s) - i + 1  BY <1>1, <1>3 DEF c
  <2>2. i + (Len(s) - i + 1) = Len(s) + 1  OBVIOUS
  <2>3. Len(s) \in Nat /\ i \in Nat  OBVIOUS
  <2>4. Len(c \o b) = Len(c) + Len(b)  BY <2>1, ConcatIs
  <2>5. /\ c \o b \in Seq(S)
        /\ \A j \in 1..(Len(c) + Len(b)) : (c \o b)[j] = IF j <= Len(c) THEN c[j] ELSE b[j - Len(c)]
    BY <2>1, ConcatIs
  <2> QED  BY ONLY <2>1, <2>2, <2>3, <2>4, <2>5
<1> DEFINE d == c \o b
<1> HIDE DEF d
<1>5. \A j \in 1..(Len(s) + 1) : d[j] = IF j < i THEN s[j] ELSE IF j = i THEN e ELSE s[j - 1]
  <2>1. \A j \in 1..(Len(s) + 1) : d[j] = IF j <= i THEN c[j] ELSE b[j - i]  BY <1>4 DEF d
  <2>2. \A j \in 1..i : c[j] = IF j < i THEN s[j] ELSE e  BY <1>3 DEF c
  <2>3. \A j \in 1..(Len(s) + 1) : j > i => b[j - i] = s[j - 1]
    <3> TAKE j \in 1..(Len(s) + 1)
    <3> HAVE j > i
    <3>1. j - i \in 1..(Len(s) - i + 1) /\ i + (j - i) - 1 = j - 1  OBVIOUS
    <3> QED  BY <3>1, <1>1
  <2>4. i \in Nat /\ Len(s) \in Nat  OBVIOUS
  <2> HIDE DEF a, b, c, d
  <2> QED  BY ONLY <2>1, <2>2, <2>3, <2>4
<1> QED  BY <1>2, <1>4, <1>5 DEF c, d

\* Putting a separator in at a place shifts those from that place on.
LEMMA SepInserted ==
  ASSUME NEW s \in Seq(Seps), NEW i \in 1..(Len(s) + 1), NEW e \in Seps
  PROVE  /\ InsertAt(s, i, e) \in Seq(Seps)
         /\ Len(InsertAt(s, i, e)) = Len(s) + 1
         /\ \A j \in 1..(Len(s) + 1) :
              InsertAt(s, i, e)[j] = IF j < i THEN s[j] ELSE IF j = i THEN e ELSE s[j - 1]
<1>1. PICK S : S = Seps  OBVIOUS
<1>2. s \in Seq(S) /\ e \in S  BY <1>1
<1> QED  BY ONLY <1>1, <1>2, InsertAtIs

\* A separator that was promoted goes behind the child it was promoted from:
\* descents turn to the new page from the separator on, and nothing else moves.
LEMMA InsertedNode ==
  ASSUME NEW n \in Inners, Ascending(n.entries), Distinct(n),
         NEW e \in Seps, ~Has(n.entries, e.key),
         \A j \in 0..Len(n.entries) : Child(n, j) # e.child,
         NEW m, m = Internal(n.first, InsertAt(n.entries, Below(n.entries, e.key) + 1, e))
  PROVE  /\ m \in Inners /\ Ascending(m.entries) /\ Distinct(m)
         /\ Len(m.entries) = Len(n.entries) + 1
         /\ \A j \in 1..Len(m.entries) : m.entries[j] = e \/ \E i \in 1..Len(n.entries) : m.entries[j] = n.entries[i]
         /\ \A j \in 0..Len(m.entries) : Child(m, j) = e.child \/ \E i \in 0..Len(n.entries) : Child(m, j) = Child(n, i)
         /\ \A k \in Keys : PickChild(m, k) = IF k >= e.key /\ PickChild(n, k) = PickChild(n, e.key)
                                              THEN e.child ELSE PickChild(n, k)
<1> DEFINE b == Below(n.entries, e.key)
           w == InsertAt(n.entries, b + 1, e)
           len == Len(n.entries)
<1>1. /\ n.first \in Nat /\ n.entries \in SepSeqs /\ len \in Nat
      /\ \A j \in 1..len : n.entries[j] \in Seps
                           /\ n.entries[j].key \in Keys /\ n.entries[j].key \in Int
  BY InnerType
<1>2. e.key \in Keys /\ e.key \in Int /\ e.child \in Nat  BY SepFields
<1>3. /\ b \in 0..len
      /\ \A j \in 1..len : j <= b => n.entries[j].key < e.key
      /\ \A j \in 1..len : j > b => n.entries[j].key > e.key
  <2>1. n.entries \in Seq(Keyed)
    <3>1. Seps \subseteq Keyed  BY DEF Keyed, Seps
    <3> QED  BY <1>1, <3>1, SeqWiden DEF SepSeqs
  <2> HIDE DEF b, len
  <2> QED  BY <2>1, <1>2, BelowAt DEF b, len
<1> HIDE DEF b
<1>4. /\ w \in SepSeqs /\ Len(w) = len + 1
      /\ \A j \in 1..(len + 1) : w[j] = IF j < b + 1 THEN n.entries[j] ELSE IF j = b + 1 THEN e ELSE n.entries[j - 1]
  <2>1. b + 1 \in 1..(Len(n.entries) + 1)  BY <1>1, <1>3
  <2>2. n.entries \in Seq(Seps) /\ e \in Seps  BY <1>1 DEF SepSeqs
  <2>3. /\ w \in Seq(Seps) /\ Len(w) = len + 1
        /\ \A j \in 1..(len + 1) : w[j] = IF j < b + 1 THEN n.entries[j] ELSE IF j = b + 1 THEN e ELSE n.entries[j - 1]
    <3>1. PICK s, at : s = n.entries /\ at = b + 1  OBVIOUS
    <3>2. s \in Seq(Seps) /\ at \in 1..(Len(s) + 1)  BY <2>1, <2>2, <3>1
    <3>3. w = InsertAt(s, at, e) /\ len = Len(s)  BY ONLY <3>1 DEF w, len
    <3>4. /\ InsertAt(s, at, e) \in Seq(Seps) /\ Len(InsertAt(s, at, e)) = Len(s) + 1
          /\ \A j \in 1..(Len(s) + 1) :
               InsertAt(s, at, e)[j] = IF j < at THEN s[j] ELSE IF j = at THEN e ELSE s[j - 1]
      BY ONLY <2>2, <3>2, SepInserted
    <3> HIDE DEF w, len
    <3> QED  BY ONLY <3>1, <3>3, <3>4
  <2> QED  BY <2>3 DEF SepSeqs
<1> HIDE DEF w
<1>5. m \in Inners /\ m.first = n.first /\ m.entries = w
  <2>1. m = Internal(n.first, w)  BY DEF w, b
  <2>2. n.first \in Nat /\ w \in SepSeqs  BY <1>1, <1>4
  <2> QED  BY ONLY <2>1, <2>2, InternalFields
<1> HIDE DEF len
<1>6. \A j \in 1..(len + 1) : /\ j < b + 1 => j \in 1..len
                              /\ j > b + 1 => j - 1 \in 1..len /\ j - 1 > b
  BY <1>1, <1>3
<1>7. Ascending(w)
  <2> SUFFICES ASSUME NEW i \in 1..(len + 1), NEW j \in 1..(len + 1), i < j
               PROVE  w[i].key < w[j].key
    BY <1>4 DEF Ascending
  <2>1. CASE j < b + 1
    <3>1. i < b + 1 /\ i \in 1..len /\ j \in 1..len  BY <2>1, <1>1, <1>3, <1>6
    <3> QED  BY <2>1, <3>1, <1>4 DEF Ascending, len
  <2>2. CASE j = b + 1
    <3>1. i < b + 1 /\ i <= b /\ i \in 1..len  BY <2>2, <1>1, <1>3, <1>6
    <3> QED  BY <2>2, <3>1, <1>3, <1>4
  <2>3. CASE j > b + 1 /\ i = b + 1
    <3>1. w[j] = n.entries[j - 1] /\ w[i] = e /\ j - 1 \in 1..len /\ j - 1 > b  BY <2>3, <1>3, <1>4, <1>6
    <3> QED  BY <3>1, <1>3, <1>1, <1>2
  <2>4. CASE j > b + 1 /\ i < b + 1
    <3>1. w[j] = n.entries[j - 1] /\ w[i] = n.entries[i] /\ j - 1 \in 1..len /\ i \in 1..len /\ j - 1 > b /\ i <= b
      BY <2>4, <1>3, <1>4, <1>6
    <3> QED  BY <3>1, <1>3, <1>1, <1>2
  <2>5. CASE j > b + 1 /\ i > b + 1
    <3>1. w[j] = n.entries[j - 1] /\ w[i] = n.entries[i - 1] /\ j - 1 \in 1..len /\ i - 1 \in 1..len /\ i - 1 < j - 1
      BY <2>5, <1>3, <1>4, <1>6
    <3> QED  BY <3>1 DEF Ascending, len
  <2> QED  BY <2>1, <2>2, <2>3, <2>4, <2>5, <1>3
<1>8. \A j \in 0..(len + 1) : Child(m, j) = IF j < b + 1 THEN Child(n, j)
                                            ELSE IF j = b + 1 THEN e.child ELSE Child(n, j - 1)
  <2> TAKE j \in 0..(len + 1)
  <2>1. CASE j = 0  BY <2>1, <1>3, <1>5 DEF Child
  <2>2. CASE j # 0
    <3>1. j \in 1..(len + 1) /\ Child(m, j) = w[j].child  BY <2>2, <1>1, <1>5 DEF Child
    <3>2. j > b + 1 => j - 1 # 0  BY <3>1, <1>6
    <3> QED  BY <2>2, <3>1, <3>2, <1>3, <1>4 DEF Child
  <2> QED  BY <2>1, <2>2
<1>9. Distinct(m)
  <2> SUFFICES ASSUME NEW i \in 0..(len + 1), NEW j \in 0..(len + 1), Child(m, i) = Child(m, j)
               PROVE  i = j
    BY <1>4, <1>5 DEF Distinct
  <2> DEFINE old(x) == IF x < b + 1 THEN x ELSE x - 1
  <2>1. \A x \in 0..(len + 1) : x # b + 1 => old(x) \in 0..len /\ Child(m, x) = Child(n, old(x))
    BY <1>1, <1>3, <1>8
  <2>2. \A x \in 0..len : Child(n, x) # e.child  BY DEF len
  <2>3. Child(m, b + 1) = e.child  BY <1>1, <1>3, <1>8
  <2>4. CASE i # b + 1 /\ j # b + 1
    <3>1. old(i) = old(j)
      <4>1. old(i) \in 0..len /\ old(j) \in 0..len /\ Child(n, old(i)) = Child(n, old(j))  BY <2>1, <2>4
      <4> HIDE DEF old
      <4> QED  BY <4>1 DEF Distinct, len
    <3> QED  BY <3>1, <2>4, <1>1, <1>3
  <2>5. CASE i = b + 1 /\ j # b + 1
    <3> HIDE DEF old
    <3> QED  BY <2>1, <2>2, <2>3, <2>5
  <2>6. CASE j = b + 1 /\ i # b + 1
    <3> HIDE DEF old
    <3> QED  BY <2>1, <2>2, <2>3, <2>6
  <2> QED  BY <2>4, <2>5, <2>6
<1>10. At(n, e.key, b)
  <2>1. \A j \in 1..b : n.entries[j].key <= e.key
    <3> TAKE j \in 1..b
    <3>1. j \in 1..len /\ j <= b  BY <1>1, <1>3
    <3>2. n.entries[j].key < e.key /\ n.entries[j].key \in Int  BY <3>1, <1>1, <1>3
    <3> QED  BY <3>2, <1>2
  <2>2. b < len => n.entries[b + 1].key > e.key
    <3>1. b < len => b + 1 \in 1..len /\ b + 1 > b  BY <1>1, <1>3
    <3> QED  BY <3>1, <1>3
  <2> QED  BY <2>1, <2>2, <1>3 DEF At, len
<1>11. PickChild(n, e.key) = Child(n, b)  BY <1>2, <1>10, PickIs
<1>12. ASSUME NEW k \in Keys
       PROVE  PickChild(m, k) = IF k >= e.key /\ PickChild(n, k) = PickChild(n, e.key)
                                THEN e.child ELSE PickChild(n, k)
  <2>0. k \in Int  BY TreeAssumption
  <2>1. PICK o \in 0..len : At(n, k, o) /\ PickChild(n, k) = Child(n, o)  BY PickedAt DEF len
  <2>2. /\ \A j \in 1..o : n.entries[j].key <= k
        /\ o < len => n.entries[o + 1].key > k
    BY <2>1 DEF At, len
  <2>3. PickChild(n, k) = PickChild(n, e.key) <=> o = b
    BY <1>11, <1>3, <2>1 DEF Distinct, len
  <2>4. CASE o < b \/ (o = b /\ ~(k >= e.key))
    <3>1. \A j \in 1..o : j \in 1..(len + 1) /\ w[j] = n.entries[j]  BY <2>4, <1>1, <1>3, <1>4
    <3>2. w[o + 1].key > k
      <4>1. CASE o < b
        <5>1. o + 1 \in 1..(len + 1) /\ o + 1 < b + 1 /\ o < len  BY <4>1, <1>1, <1>3
        <5> QED  BY <5>1, <1>4, <2>2
      <4>2. CASE o = b /\ ~(k >= e.key)
        <5>1. o + 1 \in 1..(len + 1) /\ o + 1 = b + 1  BY <4>2, <1>1, <1>3
        <5> QED  BY <5>1, <4>2, <1>4, <2>0, <1>2
      <4> QED  BY <2>4, <4>1, <4>2
    <3>3. At(m, k, o)
      <4>1. o \in 0..(len + 1)  BY <1>1
      <4> QED  BY <4>1, <3>1, <3>2, <2>2, <1>4, <1>5 DEF At
    <3>4. PickChild(m, k) = Child(m, o)  BY <3>3, <1>5, PickIs
    <3>5. o \in 0..(len + 1) /\ o < b + 1  BY <2>4, <1>1, <1>3
    <3>6. Child(m, o) = Child(n, o)  BY <1>8, <3>5
    <3> QED  BY <3>4, <3>6, <2>1, <2>3, <2>4, <1>3
  <2>5. CASE o > b \/ (o = b /\ k >= e.key)
    <3>0. o + 1 \in 0..(len + 1) /\ ~(o + 1 < b + 1)  BY <2>5, <1>1, <1>3
    <3>1. \A j \in 1..(o + 1) : w[j].key <= k
      <4> TAKE j \in 1..(o + 1)
      <4>1. j \in 1..(len + 1)  BY <1>1
      <4>2. CASE j < b + 1
        <5>1. j \in 1..o  BY <4>2, <2>5, <1>3
        <5> QED  BY <5>1, <4>1, <4>2, <1>4, <2>2
      <4>3. CASE j = b + 1
        <5>1. k >= e.key
          <6>1. CASE o > b
            <7>1. b + 1 \in 1..o /\ b + 1 \in 1..len  BY <6>1, <1>1, <1>3
            <7>2. n.entries[b + 1].key <= k /\ n.entries[b + 1].key > e.key  BY <7>1, <2>2, <1>3
            <7> QED  BY <7>1, <7>2, <1>1, <1>2, <2>0
          <6> QED  BY <2>5, <6>1
        <5> QED  BY <5>1, <4>1, <4>3, <1>4, <1>2, <2>0
      <4>4. CASE j > b + 1
        <5>1. j - 1 \in 1..o  BY <4>4, <1>3
        <5> QED  BY <5>1, <4>1, <4>4, <1>3, <1>4, <2>2
      <4> QED  BY <4>2, <4>3, <4>4, <1>3
    <3>2. o + 1 < len + 1 => w[o + 2].key > k
      <4> SUFFICES ASSUME o + 1 < len + 1  PROVE w[o + 2].key > k
        OBVIOUS
      <4>1. o + 2 \in 1..(len + 1) /\ o + 2 > b + 1 /\ (o + 2) - 1 = o + 1 /\ o < len  BY <2>5, <1>1, <1>3
      <4> QED  BY <4>1, <1>3, <1>4, <2>2
    <3>3. At(m, k, o + 1)
      <4>1. (o + 1) + 1 = o + 2  OBVIOUS
      <4> QED  BY <4>1, <3>0, <3>1, <3>2, <1>4, <1>5 DEF At
    <3>4. PickChild(m, k) = Child(m, o + 1)  BY <3>3, <1>5, PickIs
    <3>5. CASE o = b /\ k >= e.key
      <4>1. Child(m, o + 1) = e.child  BY <3>5, <3>0, <1>3, <1>8
      <4> QED  BY <4>1, <3>4, <3>5, <2>3
    <3>6. CASE o > b
      <4>1. (o + 1) - 1 = o /\ o + 1 # b + 1 /\ o # b  BY <3>6, <1>3
      <4>2. Child(m, o + 1) = Child(n, o)  BY <4>1, <3>0, <1>8
      <4> QED  BY <4>1, <4>2, <3>4, <2>1, <2>3
    <3> QED  BY <2>5, <3>5, <3>6
  <2> QED  BY <2>4, <2>5, <1>3
<1>13. \A j \in 1..(len + 1) : w[j] = e \/ \E i \in 1..len : w[j] = n.entries[i]
  <2> TAKE j \in 1..(len + 1)
  <2>1. CASE j = b + 1  BY <2>1, <1>4, <1>3
  <2>2. CASE j < b + 1  BY <2>2, <1>4, <1>6
  <2>3. CASE j > b + 1
    <3>1. w[j] = n.entries[j - 1]  BY <2>3, <1>3, <1>4
    <3> QED  BY <3>1, <2>3, <1>6
  <2> QED  BY <2>1, <2>2, <2>3, <1>3
<1>14. \A j \in 0..(len + 1) : Child(m, j) = e.child \/ \E i \in 0..len : Child(m, j) = Child(n, i)
  <2> TAKE j \in 0..(len + 1)
  <2>1. CASE j < b + 1
    <3>1. j \in 0..len  BY <2>1, <1>1, <1>3
    <3> QED  BY <3>1, <2>1, <1>8
  <2>2. CASE j = b + 1  BY <2>2, <1>8, <1>3
  <2>3. CASE j > b + 1
    <3>1. j - 1 \in 0..len  BY <2>3, <1>1, <1>3
    <3> QED  BY <3>1, <2>3, <1>3, <1>8
  <2> QED  BY <2>1, <2>2, <2>3, <1>3
<1>15. Len(m.entries) = len + 1  BY <1>4, <1>5
<1> QED  BY <1>5, <1>7, <1>9, <1>12, <1>13, <1>14, <1>15 DEF len

\* The halves of s are what precedes a place and what does not.
Halved(S, s, a) ==
  /\ a \in 0..(Len(s) - 1) /\ Len(s) \in Nat /\ (Len(s) >= 2 => a >= 1)
  /\ LeftHalf(s) \in Seq(S) /\ Len(LeftHalf(s)) = a
  /\ \A j \in 1..a : LeftHalf(s)[j] = s[j]
  /\ RightHalf(s) \in Seq(S) /\ Len(RightHalf(s)) = Len(s) - a
  /\ \A j \in 1..(Len(s) - a) : RightHalf(s)[j] = s[a + j]
  /\ Tail(RightHalf(s)) \in Seq(S) /\ Len(Tail(RightHalf(s))) = Len(s) - a - 1
  /\ \A j \in 1..(Len(s) - a - 1) : Tail(RightHalf(s))[j] = s[a + 1 + j]

\* Halving is at the middle (bptree.rs split at len / 2).
LEMMA HalvesAt ==
  ASSUME NEW S, NEW s \in Seq(S), Len(s) >= 1, NEW a, a = Len(s) \div 2
  PROVE  Halved(S, s, a)
<1>1. Len(s) \in Nat /\ a \in 0..(Len(s) - 1) /\ (Len(s) >= 2 => a >= 1)  OBVIOUS
<1>2. LeftHalf(s) = SubSeq(s, 1, a) /\ RightHalf(s) = SubSeq(s, a + 1, Len(s))  BY DEF LeftHalf, RightHalf
<1>3. /\ LeftHalf(s) \in Seq(S) /\ Len(LeftHalf(s)) = a
      /\ \A j \in 1..a : LeftHalf(s)[j] = s[j]
  BY <1>1, <1>2
<1>4. /\ RightHalf(s) \in Seq(S) /\ Len(RightHalf(s)) = Len(s) - a
      /\ \A j \in 1..(Len(s) - a) : RightHalf(s)[j] = s[a + j]
  <2> DEFINE g == SubSeq(s, a + 1, Len(s))
  <2>1. g \in Seq(S) /\ Len(g) = Len(s) - a  BY <1>1
  <2>2. \A j \in 1..(Len(s) - a) : g[j] = s[a + j]
    <3> TAKE j \in 1..(Len(s) - a)
    <3>1. g[j] = s[(a + 1) + j - 1] /\ (a + 1) + j - 1 = a + j  BY <1>1
    <3> QED  BY <3>1
  <2> HIDE DEF g
  <2>3. RightHalf(s) = g  BY <1>2 DEF g
  <2> QED  BY <2>1, <2>2, <2>3
<1>5. /\ Tail(RightHalf(s)) \in Seq(S) /\ Len(Tail(RightHalf(s))) = Len(s) - a - 1
      /\ \A j \in 1..(Len(s) - a - 1) : Tail(RightHalf(s))[j] = s[a + 1 + j]
  <2>1. ASSUME NEW g \in Seq(S), Len(g) = Len(s) - a, \A j \in 1..(Len(s) - a) : g[j] = s[a + j]
        PROVE  /\ Tail(g) \in Seq(S) /\ Len(Tail(g)) = Len(s) - a - 1
               /\ \A j \in 1..(Len(s) - a - 1) : Tail(g)[j] = s[a + 1 + j]
    <3>1. g # <<>>  BY <2>1, <1>1
    <3>2. Tail(g) \in Seq(S) /\ Len(Tail(g)) = Len(s) - a - 1  BY <2>1, <3>1
    <3>3. \A j \in 1..(Len(s) - a - 1) : Tail(g)[j] = g[j + 1]  BY <2>1, <3>1, <1>1
    <3>4. \A j \in 1..(Len(s) - a - 1) : j + 1 \in 1..(Len(s) - a) /\ a + (j + 1) = a + 1 + j  BY <1>1
    <3>5. \A j \in 1..(Len(s) - a - 1) : g[j + 1] = s[a + (j + 1)]  BY <2>1, <3>4
    <3> QED  BY <3>2, <3>3, <3>4, <3>5
  <2> QED  BY <2>1, <1>4
<1> QED  BY ONLY <1>1, <1>3, <1>4, <1>5 DEF Halved

\* There are halves of whatever is not empty.
LEMMA HalvesAre ==
  ASSUME NEW S, NEW s \in Seq(S), Len(s) >= 1
  PROVE  \E a : Halved(S, s, a)
<1>1. PICK a : a = Len(s) \div 2  OBVIOUS
<1>2. Halved(S, s, a)  BY <1>1, HalvesAt
<1> QED  BY <1>2

\* The halves of a node lead where it did.
LEMMA SplitPick ==
  ASSUME NEW n \in Inners, NEW a \in 0..(Len(n.entries) - 1), NEW l \in Inners, NEW g \in Inners,
         Ascending(n.entries), Len(l.entries) = a, Len(g.entries) = Len(n.entries) - a - 1,
         \A j \in 1..a : l.entries[j] = n.entries[j],
         \A j \in 1..(Len(n.entries) - a - 1) : g.entries[j] = n.entries[a + 1 + j],
         \A j \in 0..a : Child(l, j) = Child(n, j),
         \A j \in 0..(Len(n.entries) - a - 1) : Child(g, j) = Child(n, a + 1 + j)
  PROVE  \A k \in Keys : PickChild(n, k) = PickChild(IF k < n.entries[a + 1].key THEN l ELSE g, k)
<1> DEFINE e == n.entries
           le == l.entries
           ge == g.entries
           len == Len(e)
           tk == e[a + 1].key
<1>1. len \in Nat /\ a \in 0..(len - 1) /\ \A j \in 1..len : e[j].key \in Int
  BY InnerType
<1>2. /\ Len(le) = a /\ \A j \in 1..a : le[j] = e[j]
      /\ Len(ge) = len - a - 1 /\ \A j \in 1..(len - a - 1) : ge[j] = e[a + 1 + j]
      /\ \A j \in 0..a : Child(l, j) = Child(n, j)
      /\ \A j \in 0..(len - a - 1) : Child(g, j) = Child(n, a + 1 + j)
  OBVIOUS
<1>3. \A i, j \in 1..len : i < j => e[i].key < e[j].key  BY DEF Ascending
<1>4. a + 1 \in 1..len /\ tk \in Int  BY <1>1
<1>5. \A j \in 1..a : e[j].key < tk
  <2> TAKE j \in 1..a
  <2>1. j \in 1..len /\ j < a + 1  BY <1>1
  <2> QED  BY <2>1, <1>3, <1>4
<1>6. SUFFICES ASSUME NEW k \in Keys  PROVE PickChild(n, k) = PickChild(IF k < tk THEN l ELSE g, k)
  OBVIOUS
<1>7. k \in Int  BY TreeAssumption
<1>8. PICK o : o \in 0..len /\ At(n, k, o) /\ PickChild(n, k) = Child(n, o)  BY PickedAt
<1>9. /\ o \in 0..len /\ \A j \in 1..o : e[j].key <= k
      /\ o < len => e[o + 1].key > k
  BY <1>8 DEF At
<1> HIDE DEF e, le, ge, len, tk
<1>10. CASE k < tk
  <2>1. o <= a
    <3> SUFFICES ASSUME o > a  PROVE FALSE  BY <1>1, <1>9
    <3>1. a + 1 \in 1..o  BY <1>1, <1>9
    <3>2. tk <= k  BY <3>1, <1>9 DEF tk
    <3> QED  BY <3>2, <1>4, <1>7, <1>10
  <2>2. At(l, k, o)
    <3>1. o \in 0..a /\ \A j \in 1..o : j \in 1..a  BY <2>1, <1>1, <1>9
    <3>2. \A j \in 1..o : le[j].key <= k  BY <3>1, <1>2, <1>9
    <3>3. o < a => o + 1 \in 1..a /\ o < len  BY <1>1, <1>9
    <3>4. o < a => le[o + 1].key > k  BY <3>3, <1>2, <1>9
    <3> QED  BY <3>1, <3>2, <3>4, <1>2 DEF At, le
  <2>3. PickChild(l, k) = Child(l, o)  BY <2>2, PickIs
  <2>4. o \in 0..a  BY <2>1, <1>1, <1>9
  <2> QED  BY <2>3, <2>4, <1>2, <1>8, <1>10
<1>11. CASE ~(k < tk)
  <2>1. o >= a + 1
    <3> SUFFICES ASSUME o < a + 1  PROVE FALSE  BY <1>1, <1>9
    <3>1. o < len /\ o <= a /\ o + 1 \in 1..len  BY <1>1, <1>9
    <3>2. e[o + 1].key > k /\ e[o + 1].key \in Int  BY <3>1, <1>1, <1>9
    <3>3. CASE o = a  BY <3>2, <3>3, <1>4, <1>7, <1>11 DEF tk
    <3>4. CASE o < a
      <4>1. o + 1 \in 1..a  BY <3>4, <1>1, <1>9
      <4>2. e[o + 1].key < tk  BY <4>1, <1>5
      <4> QED  BY <3>2, <4>2, <1>4, <1>7, <1>11
    <3> QED  BY <3>1, <3>3, <3>4, <1>1, <1>9
  <2> DEFINE u == o - (a + 1)
  <2>2. u \in 0..(len - a - 1) /\ a + 1 + u = o  BY <2>1, <1>1, <1>9
  <2> HIDE DEF u
  <2>3. \A j \in 1..u : ge[j].key <= k
    <3>1. \A j \in 1..u : j \in 1..(len - a - 1) /\ a + 1 + j \in 1..o  BY ONLY <2>2, <1>1, <1>9
    <3> QED  BY <3>1, <1>2, <1>9
  <2>4. u < len - a - 1 => ge[u + 1].key > k
    <3> SUFFICES ASSUME u < len - a - 1  PROVE ge[u + 1].key > k  OBVIOUS
    <3>0. u \in Nat /\ a \in Nat /\ len \in Nat /\ o \in Nat /\ a + 1 + u = o  BY <2>2, <1>1, <1>9
    <3>1. u + 1 \in 1..(len - a - 1) /\ a + 1 + (u + 1) = o + 1 /\ o < len
      <4>1. u < len - a - 1  OBVIOUS
      <4> QED  BY ONLY <3>0, <4>1
    <3> QED  BY <3>1, <1>2, <1>9
  <2>5. At(g, k, u)  BY <2>2, <2>3, <2>4, <1>2 DEF At, ge
  <2>6. PickChild(g, k) = Child(g, u)  BY <2>5, PickIs
  <2> QED  BY <2>2, <2>6, <1>2, <1>8, <1>11
<1> QED  BY <1>10, <1>11 DEF tk

\* l and g are what the node n leaves when its separator at place a + 1 is
\* promoted.
SplitOf(n, a, l, g) ==
  /\ l \in Inners /\ Ascending(l.entries) /\ Distinct(l)
  /\ g \in Inners /\ Ascending(g.entries) /\ Distinct(g)
  /\ a \in 0..(Len(n.entries) - 1) /\ n.entries[a + 1] \in Seps
  /\ Len(l.entries) = a /\ Len(g.entries) = Len(n.entries) - a - 1
  /\ \A j \in 1..a : l.entries[j] = n.entries[j] /\ n.entries[j].key < n.entries[a + 1].key
  /\ \A j \in 1..(Len(n.entries) - a - 1) :
       g.entries[j] = n.entries[a + 1 + j] /\ n.entries[a + 1 + j].key > n.entries[a + 1].key
  /\ \A j \in 0..a : Child(l, j) = Child(n, j)
  /\ \A j \in 0..(Len(n.entries) - a - 1) : Child(g, j) = Child(n, a + 1 + j)
  /\ \A k \in Keys : PickChild(n, k) = PickChild(IF k < n.entries[a + 1].key THEN l ELSE g, k)

\* Separators cut at a place make two nodes that lead where the one did.
LEMMA SplitNodeAt ==
  ASSUME NEW n \in Inners, Ascending(n.entries), Distinct(n), NEW a \in 0..(Len(n.entries) - 1),
         NEW le \in SepSeqs, Len(le) = a, \A j \in 1..a : le[j] = n.entries[j],
         NEW ge \in SepSeqs, Len(ge) = Len(n.entries) - a - 1,
         \A j \in 1..(Len(n.entries) - a - 1) : ge[j] = n.entries[a + 1 + j],
         NEW l, l = Internal(n.first, le),
         NEW g, g = Internal(n.entries[a + 1].child, ge)
  PROVE  SplitOf(n, a, l, g)
<1> DEFINE e == n.entries
           len == Len(n.entries)
<1>1. n.first \in Nat /\ e \in SepSeqs /\ len \in Nat
      /\ \A j \in 1..len : e[j] \in Seps /\ e[j].key \in Keys /\ e[j].key \in Int /\ e[j].child \in Nat
  BY InnerType
<1>2. /\ a \in 0..(len - 1)
      /\ le \in SepSeqs /\ Len(le) = a /\ \A j \in 1..a : le[j] = e[j]
      /\ ge \in SepSeqs /\ Len(ge) = len - a - 1
      /\ \A j \in 1..(len - a - 1) : ge[j] = e[a + 1 + j]
  OBVIOUS
<1>3. /\ a + 1 \in 1..len
      /\ \A j \in 1..a : j \in 1..len
      /\ \A i \in 1..(len - a - 1) : a + 1 + i \in 1..len
  BY <1>1, <1>2
<1> DEFINE t == e[a + 1]
<1>4. /\ l \in Inners /\ l.first = n.first /\ l.entries = le
      /\ g \in Inners /\ g.first = t.child /\ g.entries = ge
  <2>1. n.first \in Nat /\ le \in SepSeqs /\ l = Internal(n.first, le)  BY <1>1, <1>2
  <2>2. t.child \in Nat /\ ge \in SepSeqs /\ g = Internal(t.child, ge)  BY <1>1, <1>2, <1>3
  <2> HIDE DEF t
  <2> QED  BY <2>1, <2>2, InternalFields
<1>5. /\ Len(le) = a /\ \A j \in 1..a : le[j] = e[j]
      /\ Len(ge) = len - a - 1 /\ \A j \in 1..(len - a - 1) : ge[j] = e[a + 1 + j]
  BY <1>2
<1>6. \A i, j \in 1..len : i < j => e[i].key < e[j].key  BY DEF Ascending
<1>7. \A i, j \in 0..len : Child(n, i) = Child(n, j) => i = j  BY DEF Distinct
<1> DEFINE tk == t.key
<1>8. t \in Seps /\ tk \in Keys /\ tk \in Int /\ t.child \in Nat  BY <1>1, <1>3
<1>9. /\ \A j \in 1..a : e[j].key < tk
      /\ \A j \in 1..(len - a - 1) : e[a + 1 + j].key > tk
  <2>1. \A j \in 1..a : e[j].key < e[a + 1].key
    <3>1. \A j \in 1..a : j < a + 1  BY <1>2
    <3> HIDE DEF e, len
    <3> QED  BY <3>1, <1>3, <1>6
  <2>2. \A j \in 1..(len - a - 1) : e[a + 1].key < e[a + 1 + j].key
    <3>1. \A j \in 1..(len - a - 1) : a + 1 < a + 1 + j  BY <1>2, <1>1
    <3> HIDE DEF e, len
    <3> QED  BY <3>1, <1>3, <1>6
  <2>3. \A j \in 1..(len - a - 1) : e[a + 1 + j].key \in Int  BY <1>1, <1>3
  <2>4. e[a + 1].key \in Int  BY <1>8
  <2> HIDE DEF e, len
  <2> QED  BY <2>1, <2>2, <2>3, <2>4
<1>10. Ascending(le) /\ Ascending(ge)
  <2>1. Ascending(le)
    <3> SUFFICES ASSUME NEW i \in 1..a, NEW j \in 1..a, i < j  PROVE le[i].key < le[j].key
      BY <1>5 DEF Ascending
    <3> QED  BY <1>3, <1>5, <1>6
  <2>2. Ascending(ge)
    <3> SUFFICES ASSUME NEW i \in 1..(len - a - 1), NEW j \in 1..(len - a - 1), i < j  PROVE ge[i].key < ge[j].key
      BY <1>5 DEF Ascending
    <3>1. a + 1 + i < a + 1 + j  BY <1>1, <1>2
    <3>2. e[a + 1 + i].key < e[a + 1 + j].key
      <4> HIDE DEF e, len
      <4> QED  BY <3>1, <1>3, <1>6
    <3> QED  BY <3>2, <1>5
  <2> QED  BY <2>1, <2>2
<1>11. \A j \in 0..a : Child(l, j) = Child(n, j)
  <2> TAKE j \in 0..a
  <2>1. CASE j = 0  BY <2>1, <1>4 DEF Child
  <2>2. CASE j # 0
    <3>1. j \in 1..a  BY <2>2, <1>2
    <3> QED  BY <3>1, <2>2, <1>4, <1>5 DEF Child
  <2> QED  BY <2>1, <2>2
<1>12. \A j \in 0..(len - a - 1) : Child(g, j) = Child(n, a + 1 + j)
  <2> TAKE j \in 0..(len - a - 1)
  <2>0. a + 1 + j # 0  BY <1>2
  <2>1. CASE j = 0
    <3>1. a + 1 + j = a + 1  BY <2>1, <1>2
    <3> QED  BY <3>1, <2>0, <2>1, <1>4 DEF Child
  <2>2. CASE j # 0
    <3>1. j \in 1..(len - a - 1)  BY <2>2, <1>1, <1>2
    <3> QED  BY <3>1, <2>0, <2>2, <1>4, <1>5 DEF Child
  <2> QED  BY <2>1, <2>2
<1>13. Distinct(l)
  <2> SUFFICES ASSUME NEW i \in 0..a, NEW j \in 0..a, Child(l, i) = Child(l, j)  PROVE i = j
    BY <1>4, <1>5 DEF Distinct
  <2>1. i \in 0..len /\ j \in 0..len  BY <1>1, <1>2
  <2> QED  BY <2>1, <1>7, <1>11
<1>14. Distinct(g)
  <2> SUFFICES ASSUME NEW i \in 0..(len - a - 1), NEW j \in 0..(len - a - 1), Child(g, i) = Child(g, j)  PROVE i = j
    BY <1>4, <1>5 DEF Distinct
  <2>1. a + 1 + i \in 0..len /\ a + 1 + j \in 0..len  BY <1>1, <1>2
  <2>2. a + 1 + i = a + 1 + j  BY <2>1, <1>7, <1>12
  <2> QED  BY <2>2, <1>2
<1>15. \A k \in Keys : PickChild(n, k) = PickChild(IF k < tk THEN l ELSE g, k)
  <2>1. \A k \in Keys : PickChild(n, k) = PickChild(IF k < e[a + 1].key THEN l ELSE g, k)
    <3>1. /\ a \in 0..(Len(n.entries) - 1) /\ l \in Inners /\ g \in Inners /\ n \in Inners
          /\ Len(l.entries) = a /\ Len(g.entries) = Len(n.entries) - a - 1
          /\ \A j \in 1..a : l.entries[j] = n.entries[j]
          /\ \A j \in 1..(Len(n.entries) - a - 1) : g.entries[j] = n.entries[a + 1 + j]
          /\ \A j \in 0..a : Child(l, j) = Child(n, j)
          /\ \A j \in 0..(Len(n.entries) - a - 1) : Child(g, j) = Child(n, a + 1 + j)
      BY <1>2, <1>4, <1>5, <1>11, <1>12
    <3>2. Ascending(n.entries)  OBVIOUS
    <3> QED  BY ONLY <3>1, <3>2, SplitPick
  <2> QED  BY <2>1
<1> QED  BY <1>2, <1>4, <1>5, <1>8, <1>9, <1>10, <1>11, <1>12, <1>13, <1>14, <1>15 DEF SplitOf

\* A node splits at a separator: below it the left half leads where the node
\* did, and from it on the right half does.
LEMMA SplitNode ==
  ASSUME NEW n \in Inners, Ascending(n.entries), Distinct(n), Len(n.entries) >= 1,
         NEW right, right = RightHalf(n.entries),
         NEW l, l = Internal(n.first, LeftHalf(n.entries)),
         NEW g, g = Internal(right[1].child, Tail(right))
  PROVE  \E a : /\ SplitOf(n, a, l, g) /\ (Len(n.entries) >= 2 => a >= 1)
                /\ right[1] = n.entries[a + 1]
<1> DEFINE e == n.entries
<1>1. e \in Seq(Seps) /\ Len(e) >= 1  BY InnerType DEF SepSeqs
<1>2. PICK a : Halved(Seps, e, a)
  <2> HIDE DEF e
  <2> QED  BY ONLY <1>1, HalvesAre
<1>3. /\ a \in 0..(Len(e) - 1) /\ Len(e) \in Nat /\ (Len(e) >= 2 => a >= 1)
      /\ LeftHalf(e) \in SepSeqs /\ Len(LeftHalf(e)) = a
      /\ \A j \in 1..a : LeftHalf(e)[j] = e[j]
      /\ \A j \in 1..(Len(e) - a) : RightHalf(e)[j] = e[a + j]
      /\ Tail(RightHalf(e)) \in SepSeqs /\ Len(Tail(RightHalf(e))) = Len(e) - a - 1
      /\ \A j \in 1..(Len(e) - a - 1) : Tail(RightHalf(e))[j] = e[a + 1 + j]
  <2> HIDE DEF e
  <2> QED  BY ONLY <1>2 DEF Halved, SepSeqs
<1>4. right[1] = e[a + 1]
  <2> HIDE DEF e
  <2>1. 1 \in 1..(Len(e) - a)  BY <1>3
  <2>2. RightHalf(e)[1] = e[a + 1]  BY <1>3, <2>1
  <2> QED  BY <2>2 DEF e
<1> DEFINE le == LeftHalf(e)
           ge == Tail(RightHalf(e))
<1>5. l = Internal(n.first, le) /\ g = Internal(n.entries[a + 1].child, ge)  BY <1>4
<1>6. /\ a \in 0..(Len(n.entries) - 1)
      /\ le \in SepSeqs /\ Len(le) = a /\ \A j \in 1..a : le[j] = n.entries[j]
  BY <1>3
<1>7. /\ ge \in SepSeqs /\ Len(ge) = Len(n.entries) - a - 1
      /\ \A j \in 1..(Len(n.entries) - a - 1) : ge[j] = n.entries[a + 1 + j]
  BY <1>3
<1>8. n \in Inners /\ Ascending(n.entries) /\ Distinct(n)  OBVIOUS
<1>9. (Len(n.entries) >= 2 => a >= 1) /\ right[1] = n.entries[a + 1]  BY <1>3, <1>4
<1> HIDE DEF le, ge
<1>10. SplitOf(n, a, l, g)  BY ONLY <1>5, <1>6, <1>7, <1>8, SplitNodeAt
<1> QED  BY <1>9, <1>10

-----------------------------------------------------------------------------
(* Descents.                                                               *)

\* What holds of 0 and passes from each number to the next holds of all.
LEMMA StepsFromZero ==
  ASSUME NEW N \in Nat, NEW S, 0 \in S, \A n \in 0..(N - 1) : n \in S => n + 1 \in S
  PROVE  0..N \subseteq S
<1> SUFFICES ASSUME NEW x \in 0..N, x \notin S  PROVE FALSE
  OBVIOUS
<1> DEFINE T == (0..N) \ S
<1>1. T \subseteq Nat /\ T # {}  OBVIOUS
<1>2. PICK m \in T : \A i \in T : m <= i  BY <1>1, LeastNat
<1>3. m \in 1..N /\ m \notin S  BY <1>2
<1>4. m - 1 \in 0..(N - 1) /\ ~(m <= m - 1)  BY <1>3
<1>5. m - 1 \in S  BY <1>2, <1>4
<1> QED  BY <1>3, <1>4, <1>5

\* The descent for a key, level by level.
LEMMA PathRec ==
  ASSUME NEW k
  PROVE  \E down :
           /\ PathTo(k) = down[MaxPages][Root]
           /\ \A d \in 0..MaxPages : \A p \in Pages :
                down[d][p] = IF d = 0 \/ page[p].type # "internal" THEN <<p>>
                             ELSE <<p>> \o down[d - 1][PickChild(page[p], k)]
<1> DEFINE Row(g, d) == [p \in Pages |-> IF d = 0 \/ page[p].type # "internal" THEN <<p>>
                                         ELSE <<p>> \o g[d - 1][PickChild(page[p], k)]]
           Is(g, n) == \A d \in 0..n : g[d] = Row(g, d)
           S == {n \in 0..MaxPages : \E g : Is(g, n)}
           down[d \in 0..MaxPages] ==
             [p \in Pages |-> IF d = 0 \/ page[p].type # "internal" THEN <<p>>
                              ELSE <<p>> \o down[d - 1][PickChild(page[p], k)]]
<1>0. MaxPages \in Nat  BY TreeAssumption
<1>1. 0 \in S
  <2> DEFINE g == [d \in 0..0 |-> [p \in Pages |-> <<p>>]]
  <2>1. Is(g, 0)  OBVIOUS
  <2> HIDE DEF Is, g
  <2> QED  BY <2>1, <1>0
<1>2. ASSUME NEW n \in 0..(MaxPages - 1), n \in S  PROVE n + 1 \in S
  <2>1. PICK g : Is(g, n)  BY <1>2
  <2> DEFINE h == [d \in 0..(n + 1) |-> IF d <= n THEN g[d] ELSE Row(g, d)]
  <2>2. n \in Nat /\ (\A d \in 0..n : h[d] = g[d]) /\ h[n + 1] = Row(g, n + 1)
    <3> HIDE DEF Row
    <3> QED  BY <1>0
  <2> HIDE DEF h
  <2>3. ASSUME NEW d \in 0..(n + 1)  PROVE Row(h, d) = Row(g, d)
    <3>1. CASE d = 0  BY <3>1
    <3>2. CASE d # 0
      <4>1. d - 1 \in 0..n  BY <3>2, <1>0
      <4>2. h[d - 1] = g[d - 1]  BY <4>1, <2>2
      <4> QED  BY <4>2
    <3> QED  BY <3>1, <3>2
  <2>4. Is(h, n + 1)
    <3> HIDE DEF Row
    <3>1. \A d \in 0..(n + 1) : d \in 0..n \/ d = n + 1  BY <1>0
    <3> QED  BY <3>1, <2>1, <2>2, <2>3
  <2> HIDE DEF Is
  <2> QED  BY <2>4, <1>0
<1>3. MaxPages \in S
  <2> HIDE DEF S
  <2> QED  BY <1>0, <1>1, <1>2, StepsFromZero
<1>4. PICK g : Is(g, MaxPages)
  <2> HIDE DEF Is
  <2> QED  BY <1>3
<1>5. [d \in 0..MaxPages |-> g[d]] = [d \in 0..MaxPages |-> Row([e \in 0..MaxPages |-> g[e]], d)]
  <2>1. ASSUME NEW d \in 0..MaxPages  PROVE g[d] = Row([e \in 0..MaxPages |-> g[e]], d)
    <3>1. CASE d = 0  BY <3>1, <1>4
    <3>2. CASE d # 0
      <4>1. d - 1 \in 0..MaxPages  BY <3>2, <1>0
      <4>2. [e \in 0..MaxPages |-> g[e]][d - 1] = g[d - 1]  BY <4>1
      <4> QED  BY <4>2, <1>4
    <3> QED  BY <3>1, <3>2
  <2> HIDE DEF Row
  <2> QED  BY <2>1
<1>6. down = [d \in 0..MaxPages |-> Row(down, d)]
  <2>1. \E f : f = [d \in 0..MaxPages |-> Row(f, d)]
    <3> HIDE DEF Row
    <3> QED  BY <1>5
  <2> QED  BY <2>1
<1>7. PathTo(k) = down[MaxPages][Root]  BY DEF PathTo
<1> HIDE DEF down
<1>8. \A d \in 0..MaxPages : down[d] = Row(down, d)
  <2> HIDE DEF Row
  <2> QED  BY <1>6
<1>9. \A d \in 0..MaxPages : \A p \in Pages : down[d][p] = Row(down, d)[p]  BY <1>8
<1> QED  BY <1>7, <1>9

-----------------------------------------------------------------------------
(* The inductive invariant of the tree.                                    *)

\* The entries of leaves, and the nodes pages can hold.
KvSeqs == Seq(Entries)
Leafs == [type : {"leaf"}, next : Nat, kvs : KvSeqs]
Nodes == {Zeroed} \cup Leafs \cup Inners

\* A node fits its page and refers to pages that were allocated.
NodeOK(n, c) ==
  /\ n \in Leafs => n.next \in 0..c /\ Payload(n.kvs) <= LeafRoom
  /\ n \in Inners => /\ Len(n.entries) <= MaxEntries
                     /\ \A j \in 0..Len(n.entries) : Child(n, j) \in 1..c

\* Every page holds a node that fits it.
Typed ==
  /\ count \in Pages /\ wasted \subseteq 1..count
  /\ map \in [Keys -> Values \cup {Absent}]
  /\ page \in [Pages -> Nodes]
  /\ \A p \in Pages : NodeOK(page[p], count)

\* A routing of the keys through a tree of height h: r[i][k] is the page on
\* level i, counted from the leaves, that a descent for k goes through.  Levels
\* share no page, what shares a page shares its parent, the keys of a page are
\* next to each other, and every page of the tree has a key.
Apart(h, r) == \A i, j \in 0..h, k, l \in Keys : r[i][k] = r[j][l] => i = j
Coarse(h, r) == \A i \in 0..(h - 1), k, l \in Keys : r[i][k] = r[i][l] => r[i + 1][k] = r[i + 1][l]
Convex(h, r) ==
  \A i \in 0..h, k, l, m \in Keys : r[i][k] = r[i][m] /\ k < l /\ l < m => r[i][l] = r[i][k]
Covered(h, r, live) == \A p \in live : \E i \in 0..h, k \in Keys : r[i][k] = p
Routing(h, r, live) ==
  /\ h \in Nat /\ r \in [0..h -> [Keys -> Nat]]
  /\ \A i \in 0..h, k \in Keys : r[i][k] \in live
  /\ Covered(h, r, live)
  /\ Apart(h, r) /\ Coarse(h, r) /\ Convex(h, r)

\* Where the page above, or the fixed place of the root, leads.
Led(h, r, i, k) == IF i = h THEN Root ELSE PickChild(page[r[i + 1][k]], k)

\* The routing is the one the separators give, except that on level f, where a
\* page was split at the key s, the parent does not know the right half n yet.
LeadsBut(h, r, f, s, n) ==
  \A i \in 0..h, k \in Keys :
    r[i][k] = IF i = f /\ k >= s /\ Led(h, r, i, k) = Led(h, r, i, s) THEN n ELSE Led(h, r, i, k)
Leads(h, r, f) == LeadsBut(h, r, f, carry[1].key, carry[1].child)

\* What is pending while n is to become known: the way up is kept in path, pages
\* are left for it, n is no child yet and the left half has a key.
Pending(h, r, f, s, n) ==
  /\ path \in Seq(Nat) /\ Len(path) = h - f /\ count + Len(path) + 1 <= MaxPages
  /\ \A j \in 1..(h - f) : path[j] = r[h + 1 - j][s]
  /\ Led(h, r, f, s) # n
  /\ \E k \in Keys : /\ r[f][k] = Led(h, r, f, s) /\ k < s
                     /\ f < h => r[f + 1][k] = r[f + 1][s]
  /\ f < h => \A j \in 0..Len(page[r[f + 1][s]].entries) : Child(page[r[f + 1][s]], j) # n

\* The split under way on level f, or none.
Flight(h, r, f) ==
  /\ f \in -1..h
  /\ f = -1 => carry = <<>> /\ path = <<>>
  /\ f # -1 => /\ carry = <<carry[1]>> /\ carry[1] \in Seps /\ carry[1].child \in 1..count
               /\ Pending(h, r, f, carry[1].key, carry[1].child)

\* A leaf holds the entries of the map m for its keys.
LeafOK(n, m, mine) ==
  /\ n \in Leafs /\ Ascending(n.kvs)
  /\ \A j \in 1..Len(n.kvs) : n.kvs[j].key \in mine /\ m[n.kvs[j].key] = n.kvs[j].val
  /\ \A k \in mine : m[k] # Absent => Has(n.kvs, k)
LeavesOK(r) == \A k \in Keys : LeafOK(page[r[0][k]], map, {l \in Keys : r[0][l] = r[0][k]})

\* The separators of an internal node are keys of it, and one of its keys is
\* below them, so that every child has a key.
InnerOK(n, mine) ==
  /\ n \in Inners /\ Ascending(n.entries) /\ Distinct(n)
  /\ \A j \in 1..Len(n.entries) : n.entries[j].key \in mine
  /\ \E k \in mine : \A j \in 1..Len(n.entries) : k < n.entries[j].key
InnersOK(h, r) ==
  \A i \in 1..h, k \in Keys : InnerOK(page[r[i][k]], {l \in Keys : r[i][l] = r[i][k]})

\* The leaves in the order of their keys, each linked to the next.
Sorted(row, ls) ==
  \A a, b \in 1..Len(ls), k, l \in Keys : a < b /\ row[k] = ls[a] /\ row[l] = ls[b] => k < l
InLine(row, ls) ==
  /\ ls \in Seq(Pages)
  /\ \A k \in Keys : \E a \in 1..Len(ls) : ls[a] = row[k]
  /\ \A a \in 1..Len(ls) : \E k \in Keys : ls[a] = row[k]
  /\ Sorted(row, ls)
Linked(pages, ls) ==
  \A a \in 1..Len(ls) : pages[ls[a]].next = IF a = Len(ls) THEN 0 ELSE ls[a + 1]
Chain(r, ls) == Len(ls) <= count /\ InLine(r[0], ls) /\ Linked(page, ls)

\* The tree has height h, the routing r and the leaves ls, and on level f a
\* split is under way.
Good(h, r, f, ls) ==
  /\ Typed /\ h < count
  /\ Routing(h, r, (1..count) \ wasted)
  /\ Leads(h, r, f) /\ Flight(h, r, f)
  /\ LeavesOK(r) /\ InnersOK(h, r) /\ Chain(r, ls)

\* The inductive invariant.
TreeInv == \E h, r, f, ls : Good(h, r, f, ls)

-----------------------------------------------------------------------------
(* What follows of nodes and descents.                                     *)

\* The type of a node tells its kind.
LEMMA NodeKinds ==
  ASSUME NEW n \in Nodes
  PROVE  /\ n.type = "leaf" <=> n \in Leafs
         /\ n.type = "internal" <=> n \in Inners
         /\ ~(n \in Leafs /\ n \in Inners)
         /\ n = Zeroed <=> n \notin Leafs /\ n \notin Inners
<1>1. \A x \in Leafs : x.type = "leaf"  BY DEF Leafs
<1>2. \A x \in Inners : x.type = "internal"  BY DEF Inners
<1>3. Zeroed.type = "zero"  BY DEF Zeroed
<1>4. "leaf" # "internal" /\ "leaf" # "zero" /\ "internal" # "zero"  OBVIOUS
<1> QED  BY <1>1, <1>2, <1>3, <1>4 DEF Nodes

\* A routing goes through pages of the tree.
LEMMA RoutedType ==
  ASSUME NEW h, NEW r, NEW live, live \subseteq Nat, Routing(h, r, live)
  PROVE  /\ h \in Nat
         /\ \A i \in 0..h, k \in Keys : r[i][k] \in live /\ r[i][k] \in Nat
  BY DEF Routing

\* What is on the way of a key.
LEMMA OnTheWay ==
  ASSUME NEW h, NEW r, NEW f, NEW ls, Good(h, r, f, ls), NEW k \in Keys
  PROVE  /\ h \in Nat /\ MaxPages \in Nat /\ count \in Nat /\ count <= MaxPages /\ h < count
         /\ \A i \in 0..h : r[i][k] \in 1..count /\ r[i][k] \in Pages /\ r[i][k] \notin wasted
         /\ \A i \in 1..h : page[r[i][k]] \in Inners
         /\ page[r[0][k]] \in Leafs
<1>1. MaxPages \in Nat  BY TreeAssumption
<1>2. count \in 1..MaxPages  BY DEF Good, Typed, Pages
<1>3. h \in Nat /\ h < count /\ \A i \in 0..h : r[i][k] \in (1..count) \ wasted  BY DEF Good, Routing
<1>4. page[r[0][k]] \in Leafs  BY DEF Good, LeavesOK, LeafOK
<1>5. \A i \in 1..h : page[r[i][k]] \in Inners  BY DEF Good, InnersOK, InnerOK
<1> QED  BY <1>1, <1>2, <1>3, <1>4, <1>5 DEF Pages

\* A descent for a key goes through its pages.
LEMMA PathIs ==
  ASSUME NEW h, NEW r, NEW ls, Good(h, r, -1, ls), NEW k \in Keys
  PROVE  PathTo(k) = [j \in 1..(h + 1) |-> r[h + 1 - j][k]]
<1>0. /\ h \in Nat /\ MaxPages \in Nat /\ h < MaxPages
      /\ \A i \in 0..h : r[i][k] \in Pages
      /\ \A i \in 1..h : page[r[i][k]].type = "internal"
      /\ page[r[0][k]].type # "internal"
  <2>1. \A n \in Inners : n.type = "internal"  BY DEF Inners
  <2>2. \A n \in Leafs : n.type = "leaf"  BY DEF Leafs
  <2>3. "leaf" # "internal"  OBVIOUS
  <2>4. /\ h \in Nat /\ MaxPages \in Nat /\ count \in Nat /\ count <= MaxPages /\ h < count
        /\ \A i \in 0..h : r[i][k] \in Pages
        /\ \A i \in 1..h : page[r[i][k]] \in Inners
        /\ page[r[0][k]] \in Leafs
    BY OnTheWay
  <2> QED  BY ONLY <2>1, <2>2, <2>3, <2>4
<1>1. r[h][k] = Root /\ \A i \in 1..h : r[i - 1][k] = PickChild(page[r[i][k]], k)
  <2>1. \A i \in 0..h : r[i][k] = Led(h, r, i, k)
    <3>1. \A i \in 0..h : i # -1  BY <1>0
    <3> QED  BY <3>1 DEF Good, Leads, LeadsBut
  <2>2. \A i \in 1..h : i - 1 \in 0..h /\ i - 1 # h /\ (i - 1) + 1 = i  BY <1>0
  <2> QED  BY <1>0, <2>1, <2>2 DEF Led
<1>2. PICK down :
        /\ PathTo(k) = down[MaxPages][Root]
        /\ \A d \in 0..MaxPages : \A p \in Pages :
             down[d][p] = IF d = 0 \/ page[p].type # "internal" THEN <<p>>
                          ELSE <<p>> \o down[d - 1][PickChild(page[p], k)]
  BY PathRec
<1> DEFINE Way(i) == [j \in 1..(i + 1) |-> r[i + 1 - j][k]]
           S == {i \in 0..h : \A d \in i..MaxPages : down[d][r[i][k]] = Way(i)}
<1>3. 0 \in S
  <2> SUFFICES ASSUME NEW d \in 0..MaxPages  PROVE down[d][r[0][k]] = Way(0)
    BY <1>0
  <2>0. 0 \in 0..h /\ r[0][k] \in Pages /\ page[r[0][k]].type # "internal"  BY <1>0
  <2>1. down[d][r[0][k]] = <<r[0][k]>>  BY <2>0, <1>2
  <2>2. Way(0) = <<r[0][k]>>  BY <1>0
  <2> QED  BY <2>1, <2>2
<1>4. ASSUME NEW i \in 0..(h - 1), i \in S  PROVE i + 1 \in S
  <2>0. i + 1 \in 1..h /\ i + 1 \in 0..h /\ (i + 1) - 1 = i  BY <1>0
  <2> SUFFICES ASSUME NEW d \in (i + 1)..MaxPages  PROVE down[d][r[i + 1][k]] = Way(i + 1)
    BY <2>0
  <2>1. d \in 0..MaxPages /\ d # 0 /\ d - 1 \in i..MaxPages  BY <1>0
  <2>2. down[d][r[i + 1][k]] = <<r[i + 1][k]>> \o down[d - 1][r[i][k]]
    <3>1. /\ r[i + 1][k] \in Pages /\ page[r[i + 1][k]].type = "internal"
          /\ PickChild(page[r[i + 1][k]], k) = r[i][k]
      BY <2>0, <1>0, <1>1
    <3> QED  BY <3>1, <2>1, <1>2
  <2>3. down[d - 1][r[i][k]] = Way(i)  BY <1>4, <2>1
  <2>4. <<r[i + 1][k]>> \o Way(i) = Way(i + 1)
    <3>1. i \in Nat  BY <1>0
    <3>2. \A u \in 0..h : r[u][k] \in Nat  BY <1>0 DEF Pages
    <3>3. Way(i) \in Seq(Nat) /\ Len(Way(i)) = i + 1 /\ \A j \in 1..(i + 1) : Way(i)[j] = r[i + 1 - j][k]
      <4>1. \A j \in 1..(i + 1) : i + 1 - j \in 0..h  BY <1>0, <3>1
      <4> QED  BY <3>1, <3>2, <4>1
    <3>4. Way(i + 1) \in Seq(Nat) /\ Len(Way(i + 1)) = i + 2 /\ \A j \in 1..(i + 2) : Way(i + 1)[j] = r[i + 2 - j][k]
      <4>1. \A j \in 1..(i + 2) : i + 2 - j \in 0..h  BY <1>0, <3>1
      <4>2. (i + 1) + 1 = i + 2  BY <3>1
      <4> QED  BY <3>1, <3>2, <4>1, <4>2
    <3> DEFINE a == Way(i)
               b == Way(i + 1)
               c == <<r[i + 1][k]>> \o a
    <3>5. c \in Seq(Nat) /\ Len(c) = i + 2 /\ \A j \in 1..(i + 2) : c[j] = IF j = 1 THEN r[i + 1][k] ELSE a[j - 1]
      <4> HIDE DEF Way
      <4>1. r[i + 1][k] \in Nat  BY <2>0, <3>2
      <4> QED  BY <3>1, <3>3, <4>1
    <3> HIDE DEF a, b, c
    <3>6. \A j \in 1..(i + 2) : c[j] = b[j]
      <4> TAKE j \in 1..(i + 2)
      <4>1. CASE j = 1
        <5>1. i + 2 - j = i + 1  BY <4>1, <3>1
        <5> QED  BY <5>1, <4>1, <3>4, <3>5 DEF b
      <4>2. CASE j # 1
        <5>1. j - 1 \in 1..(i + 1) /\ i + 1 - (j - 1) = i + 2 - j  BY <4>2, <3>1
        <5>2. a[j - 1] = r[i + 1 - (j - 1)][k]  BY <5>1, <3>3 DEF a
        <5> QED  BY <5>1, <5>2, <4>2, <3>4, <3>5 DEF b
      <4> QED  BY <4>1, <4>2
    <3>7. b \in Seq(Nat) /\ Len(b) = i + 2  BY <3>4 DEF b
    <3>8. c = b  BY <3>1, <3>5, <3>6, <3>7
    <3> QED  BY <3>8 DEF a, b, c
  <2> QED  BY <2>2, <2>3, <2>4
<1>5. h \in S
  <2>1. 0..h \subseteq S
    <3> HIDE DEF S
    <3> QED  BY <1>0, <1>3, <1>4, StepsFromZero
  <2> QED  BY <1>0, <2>1
<1>6. MaxPages \in h..MaxPages  BY <1>0
<1> QED  BY <1>1, <1>2, <1>5, <1>6

\* So the leaf it ends at is the one of the key, and its parents come before it.
LEMMA FoundLeaf ==
  ASSUME NEW h, NEW r, NEW ls, Good(h, r, -1, ls), NEW k \in Keys
  PROVE  /\ FindLeaf(k) = r[0][k]
         /\ Len(PathTo(k)) = h + 1
         /\ Front(PathTo(k)) \in Seq(Nat) /\ Len(Front(PathTo(k))) = h
         /\ \A j \in 1..h : Front(PathTo(k))[j] = r[h + 1 - j][k]
<1> DEFINE w == [j \in 1..(h + 1) |-> r[h + 1 - j][k]]
<1>1. PathTo(k) = w  BY PathIs
<1>2. h \in Nat /\ \A i \in 0..h : r[i][k] \in Nat  BY OnTheWay
<1>3. w \in Seq(Nat) /\ Len(w) = h + 1 /\ \A j \in 1..(h + 1) : w[j] = r[h + 1 - j][k]
  <2>1. \A j \in 1..(h + 1) : r[h + 1 - j][k] \in Nat
    <3> TAKE j \in 1..(h + 1)
    <3>1. h + 1 - j \in 0..h  BY <1>2
    <3> QED  BY <1>2, <3>1
  <2>2. h + 1 \in Nat  BY <1>2
  <2> QED  BY <2>1, <2>2
<1> HIDE DEF w
<1>4. FindLeaf(k) = r[0][k]
  <2>1. h + 1 \in 1..(h + 1) /\ h + 1 - (h + 1) = 0  BY <1>2
  <2> QED  BY <1>1, <1>3, <2>1 DEF FindLeaf, Last
<1>5. Front(w) \in Seq(Nat) /\ Len(Front(w)) = h /\ \A j \in 1..h : Front(w)[j] = w[j]
  BY <1>2, <1>3 DEF Front
<1>6. \A j \in 1..h : j \in 1..(h + 1)  BY <1>2
<1> QED  BY <1>1, <1>3, <1>4, <1>5, <1>6

-----------------------------------------------------------------------------
(* Leaves.                                                                 *)

\* What an entry consists of.
LEMMA KvFields ==
  ASSUME NEW e \in Entries
  PROVE  e.key \in Keys /\ e.key \in Int /\ e.val \in Values /\ e.val # Absent
  BY TreeAssumption DEF Entries

\* What the entries of a leaf are.
LEMMA KvSeq ==
  ASSUME NEW s \in KvSeqs
  PROVE  /\ Len(s) \in Nat
         /\ \A j \in 1..Len(s) : /\ s[j] \in Entries /\ s[j].key \in Keys /\ s[j].key \in Int
                                 /\ s[j].val \in Values /\ s[j].val # Absent
  BY KvFields, SeqElement DEF KvSeqs

\* binary_search among the entries of a leaf.
LEMMA KvBelow ==
  ASSUME NEW s \in KvSeqs, Ascending(s), NEW k \in Keys
  PROVE  /\ Below(s, k) \in 0..Len(s)
         /\ \A j \in 1..Len(s) : j <= Below(s, k) <=> s[j].key < k
         /\ Has(s, k) => Below(s, k) < Len(s) /\ s[Below(s, k) + 1].key = k
         /\ ~Has(s, k) => \A j \in 1..Len(s) : j > Below(s, k) => s[j].key > k
<1>1. Entries \subseteq Keyed  BY DEF Keyed, Entries
<1>2. s \in Seq(Keyed)  BY <1>1, SeqWiden DEF KvSeqs
<1> QED  BY <1>2, BelowAt

\* A leaf with other entries.
LEMMA LeafWith ==
  ASSUME NEW n \in Leafs, NEW s \in KvSeqs
  PROVE  /\ [n EXCEPT !.kvs = s] \in Leafs
         /\ [n EXCEPT !.kvs = s].kvs = s
         /\ [n EXCEPT !.kvs = s].next = n.next
  BY DEF Leafs

\* A leaf has the fields it was built from.
LEMMA LeafFields ==
  ASSUME NEW x \in Nat, NEW s \in KvSeqs
  PROVE  Leaf(x, s) \in Leafs /\ Leaf(x, s).kvs = s /\ Leaf(x, s).next = x
  BY DEF Leafs, Leaf

\* What a sequence of entries is like after the entry kv has taken the place of
\* the one with its key, if there was one.
Placed(s, w, kv) ==
  /\ w \in KvSeqs /\ Ascending(w) /\ Len(w) >= 1
  /\ Has(w, kv.key) /\ \A k \in Keys : Has(s, k) => Has(w, k)
  /\ \A j \in 1..Len(w) : w[j] = kv \/ \E i \in 1..Len(s) : w[j] = s[i] /\ s[i].key # kv.key

\* put replaces the entry that has the key (bptree.rs, the Ok arm).
LEMMA Replaced ==
  ASSUME NEW s \in KvSeqs, Ascending(s), NEW kv \in Entries, NEW b \in 0..(Len(s) - 1), s[b + 1].key = kv.key
  PROVE  Placed(s, [s EXCEPT ![b + 1] = kv], kv)
<1> DEFINE w == [s EXCEPT ![b + 1] = kv]
<1>1. /\ Len(s) \in Nat
      /\ \A j \in 1..Len(s) : s[j] \in Entries /\ s[j].key \in Int
  BY KvSeq
<1>2. b + 1 \in 1..Len(s)  BY <1>1
<1>3. /\ w \in KvSeqs /\ Len(w) = Len(s)
      /\ \A j \in 1..Len(s) : w[j] = IF j = b + 1 THEN kv ELSE s[j]
  BY <1>2 DEF KvSeqs
<1> HIDE DEF w
<1>4. \A j \in 1..Len(s) : w[j].key = s[j].key  BY <1>3
<1>5. Ascending(w)  BY <1>3, <1>4 DEF Ascending
<1>6. \A k \in Keys : Has(s, k) => Has(w, k)  BY <1>3, <1>4 DEF Has
<1>7. Has(w, kv.key)  BY <1>2, <1>3 DEF Has
<1>8. \A j \in 1..Len(s) : j # b + 1 => s[j].key # kv.key
  <2> TAKE j \in 1..Len(s)
  <2> HAVE j # b + 1
  <2>1. j < b + 1 \/ b + 1 < j  BY <1>2, <1>1
  <2>2. s[j].key < s[b + 1].key \/ s[b + 1].key < s[j].key  BY <2>1, <1>2 DEF Ascending
  <2> QED  BY <2>2, <1>1, <1>2
<1>9. \A j \in 1..Len(w) : w[j] = kv \/ \E i \in 1..Len(s) : w[j] = s[i] /\ s[i].key # kv.key
  BY <1>3, <1>8
<1>10. Placed(s, w, kv)
  <2>1. Len(w) >= 1  BY <1>1, <1>2, <1>3
  <2> QED  BY ONLY <2>1, <1>3, <1>5, <1>6, <1>7, <1>9 DEF Placed
<1> QED  BY <1>10 DEF w

\* put inserts the entry where the key is missing (the Err arm).
LEMMA InsertedEntry ==
  ASSUME NEW s \in KvSeqs, Ascending(s), NEW kv \in Entries, ~Has(s, kv.key)
  PROVE  Placed(s, InsertAt(s, Below(s, kv.key) + 1, kv), kv)
<1> DEFINE b == Below(s, kv.key)
           w == InsertAt(s, b + 1, kv)
           len == Len(s)
<1>1. /\ len \in Nat /\ kv.key \in Keys /\ kv.key \in Int
      /\ \A j \in 1..len : s[j] \in Entries /\ s[j].key \in Int
  BY KvSeq, KvFields
<1>2. /\ b \in 0..len
      /\ \A j \in 1..len : j <= b => s[j].key < kv.key
      /\ \A j \in 1..len : j > b => s[j].key > kv.key
  BY <1>1, KvBelow
<1> HIDE DEF b
<1>3. /\ w \in KvSeqs /\ Len(w) = len + 1
      /\ \A j \in 1..(len + 1) : w[j] = IF j < b + 1 THEN s[j] ELSE IF j = b + 1 THEN kv ELSE s[j - 1]
  <2>1. b + 1 \in 1..(Len(s) + 1) /\ s \in Seq(Entries) /\ kv \in Entries  BY <1>1, <1>2 DEF KvSeqs
  <2> DEFINE p == b + 1
  <2> HIDE DEF p
  <2>3. p \in 1..(Len(s) + 1)  BY <2>1 DEF p
  <2>4. /\ InsertAt(s, p, kv) \in Seq(Entries)
        /\ Len(InsertAt(s, p, kv)) = Len(s) + 1
        /\ \A j \in 1..(Len(s) + 1) :
             InsertAt(s, p, kv)[j] = IF j < p THEN s[j] ELSE IF j = p THEN kv ELSE s[j - 1]
    BY <2>1, <2>3, InsertAtIs
  <2>2. /\ w \in Seq(Entries) /\ Len(w) = Len(s) + 1
        /\ \A j \in 1..(Len(s) + 1) : w[j] = IF j < b + 1 THEN s[j] ELSE IF j = b + 1 THEN kv ELSE s[j - 1]
    BY <2>4 DEF p
  <2> QED  BY ONLY <2>2 DEF KvSeqs
<1> HIDE DEF w, len
<1>4. \A j \in 1..(len + 1) : /\ j < b + 1 => j \in 1..len /\ j <= b
                              /\ j > b + 1 => j - 1 \in 1..len /\ j - 1 > b
  BY <1>1, <1>2
<1>5. Ascending(w)
  <2> SUFFICES ASSUME NEW i \in 1..(len + 1), NEW j \in 1..(len + 1), i < j
               PROVE  w[i].key < w[j].key
    BY <1>3 DEF Ascending
  <2>0. i \in Nat /\ j \in Nat /\ b \in Nat  BY <1>1, <1>2
  <2>1. CASE j < b + 1
    <3>1. i < b + 1 /\ i \in 1..len /\ j \in 1..len  BY <2>0, <2>1, <1>4
    <3> QED  BY <2>1, <3>1, <1>3 DEF Ascending, len
  <2>2. CASE j = b + 1
    <3>1. i < b + 1 /\ i <= b /\ i \in 1..len  BY <2>0, <2>2, <1>4
    <3> QED  BY <2>2, <3>1, <1>2, <1>3
  <2>3. CASE j > b + 1 /\ i = b + 1
    <3>1. w[j] = s[j - 1] /\ w[i] = kv /\ j - 1 \in 1..len /\ j - 1 > b  BY <2>0, <2>3, <1>3, <1>4
    <3> QED  BY <3>1, <1>1, <1>2
  <2>4. CASE j > b + 1 /\ i < b + 1
    <3>1. w[j] = s[j - 1] /\ w[i] = s[i] /\ j - 1 \in 1..len /\ i \in 1..len /\ j - 1 > b /\ i <= b
      BY <2>0, <2>4, <1>3, <1>4
    <3> QED  BY <3>1, <1>1, <1>2
  <2>5. CASE j > b + 1 /\ i > b + 1
    <3>1. w[j] = s[j - 1] /\ w[i] = s[i - 1] /\ j - 1 \in 1..len /\ i - 1 \in 1..len /\ i - 1 < j - 1
      BY <2>0, <2>5, <1>3, <1>4
    <3> QED  BY <3>1 DEF Ascending, len
  <2> QED  BY <2>0, <2>1, <2>2, <2>3, <2>4, <2>5
<1>6. Has(w, kv.key)
  <2>1. b + 1 \in 1..(len + 1) /\ ~(b + 1 < b + 1)  BY <1>1, <1>2
  <2> QED  BY <2>1, <1>3 DEF Has
<1>7. ASSUME NEW k \in Keys, Has(s, k)  PROVE Has(w, k)
  <2>1. PICK i \in 1..len : s[i].key = k  BY <1>7 DEF Has, len
  <2>2. CASE i <= b
    <3>1. i \in 1..(len + 1) /\ i < b + 1  BY <2>2, <1>1, <1>2
    <3> QED  BY <2>1, <3>1, <1>3 DEF Has
  <2>3. CASE i > b
    <3>1. i + 1 \in 1..(len + 1) /\ ~(i + 1 < b + 1) /\ i + 1 # b + 1 /\ (i + 1) - 1 = i  BY <2>3, <1>1, <1>2
    <3>2. w[i + 1] = s[i]  BY <3>1, <1>3
    <3> QED  BY <2>1, <3>1, <3>2, <1>3 DEF Has
  <2> QED  BY <2>2, <2>3, <1>1, <1>2
<1>8. ASSUME NEW j \in 1..(len + 1)
      PROVE  w[j] = kv \/ \E i \in 1..len : w[j] = s[i] /\ s[i].key # kv.key
  <2>0. j \in Nat /\ b \in Nat  BY <1>1, <1>2
  <2>1. CASE j = b + 1  BY <2>0, <2>1, <1>3
  <2>2. CASE j < b + 1
    <3>1. w[j] = s[j] /\ j \in 1..len /\ s[j].key < kv.key  BY <2>2, <1>2, <1>3, <1>4
    <3> QED  BY <3>1, <1>1
  <2>3. CASE j > b + 1
    <3>1. w[j] = s[j - 1] /\ j - 1 \in 1..len /\ s[j - 1].key > kv.key  BY <2>0, <2>3, <1>2, <1>3, <1>4
    <3> QED  BY <3>1, <1>1
  <2> QED  BY <2>0, <2>1, <2>2, <2>3
<1>9. w = InsertAt(s, Below(s, kv.key) + 1, kv)  BY DEF w, b
<1>10. Placed(s, w, kv)  BY ONLY <1>1, <1>3, <1>5, <1>6, <1>7, <1>8 DEF Placed, len
<1> QED  BY <1>9, <1>10

\* Either way, the leaf holds the new entry and the others as they were.
LEMMA EntryPlaced ==
  ASSUME NEW l, page[l] \in Leafs, Ascending(page[l].kvs), NEW c \in Puts
  PROVE  Placed(page[l].kvs, WithEntry(l, c), [key |-> c.key, val |-> c.val])
<1> DEFINE s == page[l].kvs
           kv == [key |-> c.key, val |-> c.val]
<1>1. s \in KvSeqs /\ kv \in Entries /\ kv.key = c.key /\ c.key \in Keys  BY DEF Leafs, Puts, Entries
<1>2. WithEntry(l, c) = IF Has(s, c.key) THEN [s EXCEPT ![Below(s, c.key) + 1] = kv]
                        ELSE InsertAt(s, Below(s, c.key) + 1, kv)
  BY DEF WithEntry
<1>3. Ascending(s)  OBVIOUS
<1> HIDE DEF s, kv
<1>4. CASE Has(s, c.key)
  <2>1. Len(s) \in Nat /\ Below(s, c.key) \in 0..Len(s) /\ Below(s, c.key) < Len(s) /\ s[Below(s, c.key) + 1].key = kv.key
    BY <1>1, <1>3, <1>4, KvBelow, KvSeq
  <2>2. Below(s, c.key) \in 0..(Len(s) - 1)  BY <2>1
  <2>3. Placed(s, [s EXCEPT ![Below(s, c.key) + 1] = kv], kv)  BY <1>1, <1>3, <2>1, <2>2, Replaced
  <2> QED  BY <1>2, <1>4, <2>3 DEF s, kv
<1>5. CASE ~Has(s, c.key)
  <2>1. Placed(s, InsertAt(s, Below(s, c.key) + 1, kv), kv)  BY <1>1, <1>3, <1>5, InsertedEntry
  <2> QED  BY <1>2, <1>5, <2>1 DEF s, kv
<1> QED  BY <1>4, <1>5

\* What the entries take, entry by entry.
LEMMA PayloadRec ==
  ASSUME NEW s \in KvSeqs
  PROVE  \E u : /\ Payload(s) = u[Len(s)] /\ u[0] = 0
                /\ \A i \in 1..Len(s) : u[i] = u[i - 1] + Size[s[i].val]
<1> DEFINE Row(g, i) == IF i = 0 THEN 0 ELSE g[i - 1] + Size[s[i].val]
           Is(g, n) == \A i \in 0..n : g[i] = Row(g, i)
           S == {n \in 0..Len(s) : \E g : Is(g, n)}
           upTo[i \in 0..Len(s)] == IF i = 0 THEN 0 ELSE upTo[i - 1] + Size[s[i].val]
<1>0. Len(s) \in Nat  BY KvSeq
<1>1. 0 \in S
  <2> DEFINE g == [i \in 0..0 |-> 0]
  <2>1. Is(g, 0)  OBVIOUS
  <2> HIDE DEF Is, g
  <2> QED  BY <2>1, <1>0
<1>2. ASSUME NEW n \in 0..(Len(s) - 1), n \in S  PROVE n + 1 \in S
  <2>1. PICK g : Is(g, n)  BY <1>2
  <2> DEFINE h == [i \in 0..(n + 1) |-> IF i <= n THEN g[i] ELSE Row(g, i)]
  <2>2. n \in Nat /\ (\A i \in 0..n : h[i] = g[i]) /\ h[n + 1] = Row(g, n + 1)
    <3> HIDE DEF Row
    <3> QED  BY <1>0
  <2> HIDE DEF h
  <2>3. ASSUME NEW i \in 0..(n + 1)  PROVE Row(h, i) = Row(g, i)
    <3>1. CASE i = 0  BY <3>1
    <3>2. CASE i # 0
      <4>1. i - 1 \in 0..n  BY <3>2, <1>0
      <4>2. h[i - 1] = g[i - 1]  BY <4>1, <2>2
      <4> QED  BY <4>2
    <3> QED  BY <3>1, <3>2
  <2>4. Is(h, n + 1)
    <3> HIDE DEF Row
    <3>1. \A i \in 0..(n + 1) : i \in 0..n \/ i = n + 1  BY <1>0
    <3> QED  BY <3>1, <2>1, <2>2, <2>3
  <2> HIDE DEF Is
  <2> QED  BY <2>4, <1>0
<1>3. Len(s) \in S
  <2> SUFFICES ASSUME NEW N, N = Len(s)  PROVE N \in S
    OBVIOUS
  <2>1. N \in Nat /\ \A n \in 0..(N - 1) : n \in S => n + 1 \in S  BY <1>0, <1>2
  <2>2. 0..N \subseteq S
    <3> HIDE DEF S
    <3> QED  BY ONLY <2>1, <1>1, StepsFromZero
  <2> QED  BY <2>1, <2>2
<1>4. PICK g : Is(g, Len(s))
  <2> HIDE DEF Is
  <2> QED  BY <1>3
<1>5. [i \in 0..Len(s) |-> g[i]] = [i \in 0..Len(s) |-> Row([e \in 0..Len(s) |-> g[e]], i)]
  <2>1. ASSUME NEW i \in 0..Len(s)  PROVE g[i] = Row([e \in 0..Len(s) |-> g[e]], i)
    <3>1. CASE i = 0  BY <3>1, <1>4
    <3>2. CASE i # 0
      <4>1. i - 1 \in 0..Len(s)  BY <3>2, <1>0
      <4>2. [e \in 0..Len(s) |-> g[e]][i - 1] = g[i - 1]  BY <4>1
      <4> QED  BY <4>2, <1>4
    <3> QED  BY <3>1, <3>2
  <2> HIDE DEF Row
  <2> QED  BY <2>1
<1>6. upTo = [i \in 0..Len(s) |-> Row(upTo, i)]
  <2>1. \E f : f = [i \in 0..Len(s) |-> Row(f, i)]
    <3> HIDE DEF Row
    <3> QED  BY <1>5
  <2> QED  BY <2>1
<1>7. Payload(s) = upTo[Len(s)]  BY DEF Payload
<1> HIDE DEF upTo
<1>8. \A i \in 0..Len(s) : upTo[i] = Row(upTo, i)
  <2> HIDE DEF Row
  <2> QED  BY <1>6
<1>9. upTo[0] = 0  BY <1>0, <1>8
<1>10. \A i \in 1..Len(s) : upTo[i] = upTo[i - 1] + Size[s[i].val]  BY <1>0, <1>8
<1> QED  BY <1>7, <1>9, <1>10

\* Entries take no negative room.
LEMMA PayloadNat ==
  ASSUME NEW s \in KvSeqs
  PROVE  Payload(s) \in Nat
<1>1. PICK u : /\ Payload(s) = u[Len(s)] /\ u[0] = 0
               /\ \A i \in 1..Len(s) : u[i] = u[i - 1] + Size[s[i].val]
  BY PayloadRec
<1>2. PICK n : n = Len(s) /\ n \in Nat  BY KvSeq
<1>3. \A i \in 1..n : Size[s[i].val] \in Nat  BY <1>2, KvSeq, TreeAssumption
<1> DEFINE S == {i \in 0..n : u[i] \in Nat}
<1>4. 0 \in S  BY <1>1, <1>2
<1>5. ASSUME NEW i \in 0..(n - 1), i \in S  PROVE i + 1 \in S
  <2>1. i + 1 \in 1..n /\ (i + 1) - 1 = i /\ i + 1 \in 0..n  BY <1>2
  <2>2. u[i + 1] = u[i] + Size[s[i + 1].val] /\ Size[s[i + 1].val] \in Nat  BY <2>1, <1>1, <1>2, <1>3
  <2> QED  BY <2>1, <2>2, <1>5
<1>6. 0..n \subseteq S
  <2> HIDE DEF S
  <2> QED  BY <1>2, <1>4, <1>5, StepsFromZero
<1> QED  BY <1>1, <1>2, <1>6

\* No entries take no room.
LEMMA EmptyPayload == Payload(<<>>) = 0
<1>1. <<>> \in KvSeqs /\ Len(<<>>) = 0  BY DEF KvSeqs
<1> QED  BY <1>1, PayloadRec

\* delete: the entry goes, the others stay as they are.
Cut(s, w, k) ==
  /\ w \in KvSeqs /\ Ascending(w) /\ Payload(w) <= Payload(s) /\ ~Has(w, k)
  /\ \A x \in Keys : x # k /\ Has(s, x) => Has(w, x)
  /\ \A j \in 1..Len(w) : \E i \in 1..Len(s) : w[j] = s[i]

\* What a removal leaves, place by place.
LEMMA RemoveAtIs ==
  ASSUME NEW S, NEW s \in Seq(S), NEW p \in 1..Len(s)
  PROVE  /\ RemoveAt(s, p) \in Seq(S) /\ Len(RemoveAt(s, p)) = Len(s) - 1
         /\ \A j \in 1..(Len(s) - 1) : RemoveAt(s, p)[j] = IF j < p THEN s[j] ELSE s[j + 1]
<1> DEFINE a == SubSeq(s, 1, p - 1)
           b == SubSeq(s, p + 1, Len(s))
<1>1. /\ a \in Seq(S) /\ Len(a) = p - 1 /\ \A j \in 1..(p - 1) : a[j] = s[j]
      /\ b \in Seq(S) /\ Len(b) = Len(s) - p /\ \A j \in 1..(Len(s) - p) : b[j] = s[p + j]
  OBVIOUS
<1>2. RemoveAt(s, p) = a \o b  BY DEF RemoveAt
<1> HIDE DEF a, b
<1>3. /\ a \o b \in Seq(S) /\ Len(a \o b) = Len(a) + Len(b)
      /\ \A j \in 1..(Len(a) + Len(b)) : (a \o b)[j] = IF j <= Len(a) THEN a[j] ELSE b[j - Len(a)]
  <2>1. a \in Seq(S) /\ b \in Seq(S)  BY <1>1
  <2> QED  BY ONLY <2>1, ConcatIs
<1>4. Len(s) \in Nat /\ (p - 1) + (Len(s) - p) = Len(s) - 1  OBVIOUS
<1> DEFINE c == a \o b
<1> HIDE DEF c
<1>5. c \in Seq(S) /\ Len(c) = Len(s) - 1  BY <1>1, <1>3, <1>4 DEF c
<1>6. \A j \in 1..(Len(s) - 1) : c[j] = IF j < p THEN s[j] ELSE s[j + 1]
  <2> TAKE j \in 1..(Len(s) - 1)
  <2>1. c[j] = IF j <= p - 1 THEN a[j] ELSE b[j - (p - 1)]  BY <1>1, <1>3, <1>4 DEF c
  <2>2. CASE j < p
    <3>1. j \in 1..(p - 1) /\ j <= p - 1  BY <2>2
    <3> QED  BY <3>1, <2>1, <2>2, <1>1
  <2>3. CASE ~(j < p)
    <3>1. j - (p - 1) \in 1..(Len(s) - p) /\ p + (j - (p - 1)) = j + 1 /\ ~(j <= p - 1)  BY <2>3
    <3> QED  BY <3>1, <2>1, <2>3, <1>1
  <2> QED  BY <2>2, <2>3
<1> QED  BY <1>2, <1>5, <1>6 DEF c

\* One entry less takes no more room.
LEMMA CutPayload ==
  ASSUME NEW s \in KvSeqs, NEW p \in 1..Len(s), NEW w \in KvSeqs, Len(w) = Len(s) - 1,
         \A j \in 1..(Len(s) - 1) : w[j] = IF j < p THEN s[j] ELSE s[j + 1]
  PROVE  Payload(w) <= Payload(s)
<1>1. PICK u : /\ Payload(s) = u[Len(s)] /\ u[0] = 0
               /\ \A i \in 1..Len(s) : u[i] = u[i - 1] + Size[s[i].val]
  BY PayloadRec
<1>2. PICK v : /\ Payload(w) = v[Len(w)] /\ v[0] = 0
               /\ \A i \in 1..Len(w) : v[i] = v[i - 1] + Size[w[i].val]
  BY PayloadRec
<1> DEFINE n == Len(s) - 1
           z == [i \in 1..Len(s) |-> Size[s[i].val]]
           S == {j \in 0..n : /\ v[j] \in Nat /\ u[j] \in Nat /\ u[j + 1] \in Nat
                              /\ j < p => v[j] = u[j]
                              /\ ~(j < p) => v[j] <= u[j + 1]}
<1>3. n \in Nat /\ Len(s) = n + 1 /\ Len(w) = n /\ p \in 1..(n + 1)  BY KvSeq
<1>4. \A i \in 1..(n + 1) : z[i] \in Nat /\ Size[s[i].val] = z[i]
  <2>1. \A i \in 1..(n + 1) : s[i].val \in Values  BY <1>3, KvSeq
  <2> QED  BY <2>1, <1>3, TreeAssumption
<1>5. \A i \in 1..(n + 1) : u[i] = u[i - 1] + z[i]  BY <1>1, <1>3, <1>4
<1>6. \A i \in 1..n : v[i] = v[i - 1] + z[IF i < p THEN i ELSE i + 1]
  <2> TAKE i \in 1..n
  <2>1. v[i] = v[i - 1] + Size[w[i].val]  BY <1>2, <1>3
  <2>2. w[i] = IF i < p THEN s[i] ELSE s[i + 1]  BY <1>3
  <2>3. i \in 1..(n + 1) /\ i + 1 \in 1..(n + 1)  BY <1>3
  <2> HIDE DEF z, n
  <2> QED  BY <2>1, <2>2, <2>3, <1>4
<1> HIDE DEF z, n
<1>7. 0 \in S
  <2>1. u[1] = u[0] + z[1] /\ z[1] \in Nat
    <3>1. 1 \in 1..(n + 1)  BY <1>3
    <3> QED  BY <3>1, <1>4, <1>5
  <2> QED  BY <2>1, <1>1, <1>2, <1>3
<1>8. ASSUME NEW j \in 0..(n - 1), j \in S  PROVE j + 1 \in S
  <2>1. /\ j \in Nat /\ j + 1 \in 0..n /\ j + 1 \in 1..n /\ j + 2 \in 1..(n + 1) /\ j + 1 \in 1..(n + 1)
        /\ (j + 1) - 1 = j /\ (j + 2) - 1 = j + 1 /\ (j + 1) + 1 = j + 2
    BY <1>3
  <2>2. u[j + 2] = u[j + 1] + z[j + 2] /\ u[j + 1] = u[j] + z[j + 1] /\ z[j + 2] \in Nat /\ z[j + 1] \in Nat
    BY <2>1, <1>4, <1>5
  <2>3. v[j + 1] = v[j] + z[IF j + 1 < p THEN j + 1 ELSE j + 2]  BY <2>1, <1>6
  <2>4. /\ v[j] \in Nat /\ u[j] \in Nat /\ u[j + 1] \in Nat
        /\ j < p => v[j] = u[j]
        /\ ~(j < p) => v[j] <= u[j + 1]
    BY <1>8
  <2>5. /\ v[j + 1] \in Nat /\ u[j + 1] \in Nat /\ u[j + 2] \in Nat
        /\ j + 1 < p => v[j + 1] = u[j + 1]
        /\ ~(j + 1 < p) => v[j + 1] <= u[j + 2]
    <3>1. CASE j + 1 < p  BY <3>1, <2>1, <2>2, <2>3, <2>4, <1>3
    <3>2. CASE ~(j + 1 < p) /\ j < p  BY <3>2, <2>1, <2>2, <2>3, <2>4, <1>3
    <3>3. CASE ~(j < p)  
      <4>1. ~(j + 1 < p)  BY <3>3, <2>1, <1>3
      <4> QED  BY <4>1, <3>3, <2>1, <2>2, <2>3, <2>4
    <3> QED  BY <3>1, <3>2, <3>3
  <2> QED  BY <2>1, <2>5
<1>9. n \in S
  <2> HIDE DEF S
  <2> QED  BY <1>3, <1>7, <1>8, StepsFromZero
<1>10. v[n] <= u[n + 1]
  <2>1. /\ v[n] \in Nat /\ u[n] \in Nat /\ u[n + 1] \in Nat
        /\ n < p => v[n] = u[n]
        /\ ~(n < p) => v[n] <= u[n + 1]
    BY <1>9
  <2>2. n + 1 \in 1..(n + 1) /\ (n + 1) - 1 = n  BY <1>3
  <2>3. u[n + 1] = u[n] + z[n + 1] /\ z[n + 1] \in Nat  BY <2>2, <1>4, <1>5
  <2> QED  BY <2>1, <2>3
<1> QED  BY <1>1, <1>2, <1>3, <1>10

\* delete takes out the entry of the key and no other.
LEMMA EntryCut ==
  ASSUME NEW s \in KvSeqs, Ascending(s), NEW k \in Keys, Has(s, k)
  PROVE  Cut(s, RemoveAt(s, Below(s, k) + 1), k)
<1> DEFINE p == Below(s, k) + 1
           w == RemoveAt(s, p)
           n == Len(s) - 1
<1>1. /\ Len(s) \in Nat /\ k \in Int
      /\ \A j \in 1..Len(s) : s[j].key \in Int
  BY KvSeq, TreeAssumption
<1>2. p \in 1..Len(s) /\ s[p].key = k
  <2>1. Below(s, k) \in 0..Len(s) /\ Below(s, k) < Len(s) /\ s[Below(s, k) + 1].key = k  BY KvBelow
  <2> QED  BY <2>1, <1>1
<1> HIDE DEF p
<1>3. n \in Nat /\ Len(s) = n + 1 /\ p \in Nat /\ p \in 1..(n + 1)  BY <1>1, <1>2
<1>4. /\ w \in KvSeqs /\ Len(w) = n
      /\ \A j \in 1..n : w[j] = IF j < p THEN s[j] ELSE s[j + 1]
  <2>1. s \in Seq(Entries)  BY DEF KvSeqs
  <2>2. /\ w \in Seq(Entries) /\ Len(w) = n
        /\ \A j \in 1..n : w[j] = IF j < p THEN s[j] ELSE s[j + 1]
    BY ONLY <2>1, <1>2, RemoveAtIs DEF w, n
  <2> QED  BY <2>2 DEF KvSeqs
<1>5. Payload(w) <= Payload(s)
  <2> HIDE DEF w
  <2>1. s \in KvSeqs  OBVIOUS
  <2> QED  BY ONLY <2>1, <1>2, <1>4, CutPayload DEF n
<1> HIDE DEF w, n
<1> DEFINE old(j) == IF j < p THEN j ELSE j + 1
<1>6. \A j \in 1..n : old(j) \in 1..(n + 1) /\ old(j) # p /\ w[j] = s[old(j)]  BY <1>3, <1>4
<1>7. \A i, j \in 1..n : i < j => old(i) < old(j)  BY <1>3
<1>8. \A i, j \in 1..(n + 1) : i < j => s[i].key < s[j].key  BY <1>3 DEF Ascending
<1>9. Ascending(w)
  <2> HIDE DEF old
  <2> QED  BY <1>4, <1>6, <1>7, <1>8 DEF Ascending
<1>10. \A j \in 1..(n + 1) : j # p => s[j].key # k
  <2> TAKE j \in 1..(n + 1)
  <2> HAVE j # p
  <2>1. j < p \/ p < j  BY <1>3
  <2>2. s[j].key < s[p].key \/ s[p].key < s[j].key  BY <2>1, <1>3, <1>8
  <2> QED  BY <2>2, <1>1, <1>2, <1>3
<1>11. ~Has(w, k)
  <2> HIDE DEF old
  <2> QED  BY <1>4, <1>6, <1>10 DEF Has
<1>12. ASSUME NEW x \in Keys, x # k, Has(s, x)  PROVE Has(w, x)
  <2>1. PICK i \in 1..(n + 1) : s[i].key = x  BY <1>12, <1>3 DEF Has
  <2>2. i # p  BY <2>1, <1>12, <1>2
  <2>3. PICK j \in 1..n : old(j) = i
    <3>1. CASE i < p
      <4>1. i \in 1..n /\ old(i) = i  BY <3>1, <1>3
      <4> QED  BY <4>1
    <3>2. CASE i > p
      <4>1. i - 1 \in 1..n /\ old(i - 1) = i  BY <3>2, <1>3
      <4> QED  BY <4>1
    <3> QED  BY <3>1, <3>2, <2>2, <1>3
  <2> HIDE DEF old
  <2>4. w[j].key = x  BY <2>1, <2>3, <1>6
  <2> QED  BY <2>4, <1>4 DEF Has
<1>13. \A j \in 1..n : \E i \in 1..(n + 1) : w[j] = s[i]
  <2> HIDE DEF old
  <2> QED  BY <1>6
<1>14. Cut(s, w, k)  BY ONLY <1>3, <1>4, <1>5, <1>9, <1>11, <1>12, <1>13 DEF Cut
<1> QED  BY <1>14 DEF w, p

-----------------------------------------------------------------------------
(* Routings: a page gives keys away, or a level is added.                  *)

\* The routing after a page x on level i has given its keys from s on to n.
Moved(r, i, x, s, n) ==
  [r EXCEPT ![i] = [k \in Keys |-> IF r[i][k] = x /\ k >= s THEN n ELSE r[i][k]]]

\* The same, key by key.
IsMoved(h, r, i, x, s, n, q) ==
  /\ q \in [0..h -> [Keys -> Nat]]
  /\ \A j \in 0..h, k \in Keys : q[j][k] = IF j = i /\ r[i][k] = x /\ k >= s THEN n ELSE r[j][k]

\* Moved is what IsMoved says.
LEMMA MovedIs ==
  ASSUME NEW h \in Nat, NEW r, r \in [0..h -> [Keys -> Nat]], NEW i \in 0..h, NEW x, NEW s, NEW n \in Nat
  PROVE  IsMoved(h, r, i, x, s, n, Moved(r, i, x, s, n))
<1> DEFINE row == [k \in Keys |-> IF r[i][k] = x /\ k >= s THEN n ELSE r[i][k]]
<1>1. row \in [Keys -> Nat] /\ \A k \in Keys : row[k] = IF r[i][k] = x /\ k >= s THEN n ELSE r[i][k]
  OBVIOUS
<1> HIDE DEF row
<1>2. Moved(r, i, x, s, n) = [r EXCEPT ![i] = row]  BY DEF Moved, row
<1> QED  BY <1>1, <1>2 DEF IsMoved

\* Keys that move to a new page of their level leave a routing, when the old
\* page keeps some and no page below is torn apart.
LEMMA MovedRouting ==
  ASSUME NEW h, NEW r, NEW live, live \subseteq Nat, Routing(h, r, live),
         NEW i \in 0..h, NEW s \in Keys, NEW n \in Nat, n \notin live, NEW x, x = r[i][s],
         \E k \in Keys : r[i][k] = x /\ k < s,
         i > 0 => \A k, l \in Keys : r[i][k] = x /\ r[i - 1][k] = r[i - 1][l] /\ k < s => l < s
  PROVE  Routing(h, Moved(r, i, x, s, n), live \cup {n})
<1> DEFINE q == Moved(r, i, x, s, n)
<1>0. Keys \subseteq Int  BY TreeAssumption
<1>1. /\ h \in Nat /\ r \in [0..h -> [Keys -> Nat]]
      /\ \A j \in 0..h, k \in Keys : r[j][k] \in live /\ r[j][k] # n
      /\ Covered(h, r, live) /\ Apart(h, r) /\ Coarse(h, r) /\ Convex(h, r)
  BY DEF Routing
<1>2. /\ q \in [0..h -> [Keys -> Nat]]
      /\ \A j \in 0..h, k \in Keys : q[j][k] = IF j = i /\ r[i][k] = x /\ k >= s THEN n ELSE r[j][k]
  <2>1. h \in Nat /\ r \in [0..h -> [Keys -> Nat]] /\ i \in 0..h /\ n \in Nat  BY <1>1
  <2>2. IsMoved(h, r, i, x, s, n, q)  BY ONLY <2>1, MovedIs DEF q
  <2> QED  BY ONLY <2>2 DEF IsMoved
<1> HIDE DEF q
<1>3. \A j \in 0..h, k \in Keys : q[j][k] \in live \cup {n}  BY <1>1, <1>2
<1>4. \A p \in live \cup {n} : \E j \in 0..h, k \in Keys : q[j][k] = p
  <2>1. q[i][s] = n  BY <1>0, <1>2
  <2>2. ASSUME NEW p \in live  PROVE \E j \in 0..h, k \in Keys : q[j][k] = p
    <3>1. PICK j \in 0..h, k \in Keys : r[j][k] = p  BY <1>1 DEF Covered
    <3>2. CASE j = i /\ r[i][k] = x
      <4>1. PICK l \in Keys : r[i][l] = x /\ l < s  OBVIOUS
      <4>2. q[i][l] = x  BY <4>1, <1>0, <1>2
      <4> QED  BY <3>1, <3>2, <4>2
    <3>3. CASE ~(j = i /\ r[i][k] = x)
      <4>1. q[j][k] = p  BY <3>1, <3>3, <1>2
      <4> QED  BY <4>1
    <3> QED  BY <3>2, <3>3
  <2> QED  BY <2>1, <2>2
<1>5. \A j, m \in 0..h, k, l \in Keys : q[j][k] = q[m][l] => j = m
  <2> SUFFICES ASSUME NEW j \in 0..h, NEW m \in 0..h, NEW k \in Keys, NEW l \in Keys, q[j][k] = q[m][l]
               PROVE  j = m
    OBVIOUS
  <2>1. q[j][k] = n => j = i  BY <1>1, <1>2
  <2>2. q[m][l] = n => m = i  BY <1>1, <1>2
  <2>3. q[j][k] # n => q[j][k] = r[j][k]  BY <1>2
  <2>4. q[m][l] # n => q[m][l] = r[m][l]  BY <1>2
  <2>5. CASE q[j][k] = n  BY <2>1, <2>2, <2>5
  <2>6. CASE q[j][k] # n
    <3>1. r[j][k] = r[m][l]  BY <2>3, <2>4, <2>6
    <3> QED  BY <3>1, <1>1 DEF Apart
  <2> QED  BY <2>5, <2>6
<1>6. \A j \in 0..h, k, l \in Keys : q[j][k] = q[j][l] =>
         r[j][k] = r[j][l] /\ (j = i /\ r[i][k] = x => (k >= s <=> l >= s))
  <2> SUFFICES ASSUME NEW j \in 0..h, NEW k \in Keys, NEW l \in Keys, q[j][k] = q[j][l]
               PROVE  r[j][k] = r[j][l] /\ (j = i /\ r[i][k] = x => (k >= s <=> l >= s))
    OBVIOUS
  <2>1. q[j][k] = n <=> j = i /\ r[i][k] = x /\ k >= s  BY <1>1, <1>2
  <2>2. q[j][l] = n <=> j = i /\ r[i][l] = x /\ l >= s  BY <1>1, <1>2
  <2>3. q[j][k] # n => q[j][k] = r[j][k]  BY <1>2
  <2>4. q[j][l] # n => q[j][l] = r[j][l]  BY <1>2
  <2> QED  BY <2>1, <2>2, <2>3, <2>4
<1>7. \A j \in 0..(h - 1), k, l \in Keys : q[j][k] = q[j][l] => q[j + 1][k] = q[j + 1][l]
  <2> SUFFICES ASSUME NEW j \in 0..(h - 1), NEW k \in Keys, NEW l \in Keys, q[j][k] = q[j][l]
               PROVE  q[j + 1][k] = q[j + 1][l]
    OBVIOUS
  <2>1. j \in 0..h /\ j + 1 \in 0..h /\ (j + 1) - 1 = j  BY <1>1
  <2>2. r[j][k] = r[j][l] /\ r[j + 1][k] = r[j + 1][l]
    <3>1. r[j][k] = r[j][l]  BY ONLY <2>1, <1>6, q[j][k] = q[j][l], k \in Keys, l \in Keys
    <3>2. Coarse(h, r)  BY <1>1
    <3> QED  BY <3>1, <3>2 DEF Coarse
  <2>3. CASE j + 1 = i /\ r[i][k] = x
    <3>1. i > 0 /\ i - 1 = j /\ r[i][l] = x  BY <2>1, <2>2, <2>3
    <3>2. k < s <=> l < s  BY <3>1, <2>2, <2>3
    <3>3. k >= s <=> l >= s  BY <3>2, <1>0
    <3> QED  BY <2>1, <2>2, <2>3, <3>1, <3>3, <1>2
  <2>4. CASE ~(j + 1 = i /\ r[i][k] = x)  BY <2>1, <2>2, <2>4, <1>2
  <2> QED  BY <2>3, <2>4
<1>8. \A j \in 0..h, k, l, m \in Keys : q[j][k] = q[j][m] /\ k < l /\ l < m => q[j][l] = q[j][k]
  <2> SUFFICES ASSUME NEW j \in 0..h, NEW k \in Keys, NEW l \in Keys, NEW m \in Keys,
                      q[j][k] = q[j][m], k < l, l < m
               PROVE  q[j][l] = q[j][k]
    OBVIOUS
  <2>1. r[j][k] = r[j][m] /\ (j = i /\ r[i][k] = x => (k >= s <=> m >= s))  BY <1>6
  <2>2. r[j][l] = r[j][k]  BY <2>1, <1>1 DEF Convex
  <2>3. j = i /\ r[i][k] = x => (l >= s <=> k >= s)
    <3>1. k \in Int /\ l \in Int /\ m \in Int /\ s \in Int /\ k < l /\ l < m  BY <1>0
    <3> QED  BY ONLY <2>1, <3>1
  <2> QED  BY <2>2, <2>3, <1>2
<1>9. Covered(h, q, live \cup {n}) /\ Apart(h, q) /\ Coarse(h, q) /\ Convex(h, q)
  <2>1. Covered(h, q, live \cup {n})  BY <1>4 DEF Covered
  <2>2. Apart(h, q)  BY <1>5 DEF Apart
  <2>3. Coarse(h, q)  BY <1>7 DEF Coarse
  <2>4. Convex(h, q)  BY <1>8 DEF Convex
  <2> QED  BY <2>1, <2>2, <2>3, <2>4
<1> QED  BY <1>1, <1>2, <1>3, <1>9 DEF Routing, q

\* The routing after a page n has come between the root x and what was under it.
Lifted(h, r, x, n) ==
  [i \in 0..(h + 1) |-> [k \in Keys |-> IF i = h + 1 THEN x ELSE IF r[i][k] = x THEN n ELSE r[i][k]]]

\* The same, key by key.
IsLifted(h, r, x, n, q) ==
  /\ \A k \in Keys : q[h + 1][k] = x
  /\ \A j \in 0..h, k \in Keys : q[j][k] = IF r[j][k] = x THEN n ELSE r[j][k]

\* A new level under the root leaves a routing.
LEMMA LiftedRouting ==
  ASSUME NEW h \in Nat, NEW r, NEW live, live \subseteq Nat, Routing(h, r, live),
         NEW n \in Nat, n \notin live, NEW x, NEW i \in 0..h, \E k \in Keys : r[i][k] = x
  PROVE  Routing(h + 1, Lifted(h, r, x, n), live \cup {n}) /\ IsLifted(h, r, x, n, Lifted(h, r, x, n))
<1> DEFINE q == Lifted(h, r, x, n)
<1>0. Keys \subseteq Int /\ x \in Nat /\ n # x  BY TreeAssumption DEF Routing
<1>1. /\ h \in Nat /\ r \in [0..h -> [Keys -> Nat]]
      /\ \A j \in 0..h, k \in Keys : r[j][k] \in live /\ r[j][k] # n
      /\ Covered(h, r, live) /\ Apart(h, r) /\ Coarse(h, r) /\ Convex(h, r)
  BY DEF Routing
<1>2. /\ q \in [0..(h + 1) -> [Keys -> Nat]]
      /\ \A k \in Keys : q[h + 1][k] = x
      /\ \A j \in 0..h, k \in Keys : q[j][k] = IF r[j][k] = x THEN n ELSE r[j][k]
  <2> DEFINE row(j) == [k \in Keys |-> IF j = h + 1 THEN x ELSE IF r[j][k] = x THEN n ELSE r[j][k]]
  <2>1. ASSUME NEW j \in 0..(h + 1)  PROVE row(j) \in [Keys -> Nat]
    <3>1. ASSUME NEW k \in Keys  PROVE (IF j = h + 1 THEN x ELSE IF r[j][k] = x THEN n ELSE r[j][k]) \in Nat
      <4>1. j # h + 1 => j \in 0..h  BY <1>1
      <4> QED  BY <4>1, <1>0, <1>1
    <3> QED  BY <3>1
  <2>2. q = [j \in 0..(h + 1) |-> row(j)]  BY DEF Lifted
  <2>3. q \in [0..(h + 1) -> [Keys -> Nat]]
    <3> HIDE DEF row, q
    <3> QED  BY <2>1, <2>2
  <2>4. h + 1 \in 0..(h + 1) /\ \A j \in 0..h : j \in 0..(h + 1) /\ j # h + 1  BY <1>1
  <2>5. \A k \in Keys : q[h + 1][k] = x
    <3> TAKE k \in Keys
    <3>1. q[h + 1] = row(h + 1)  BY <2>2, <2>4
    <3> QED  BY <3>1
  <2>6. \A j \in 0..h, k \in Keys : q[j][k] = IF r[j][k] = x THEN n ELSE r[j][k]
    <3> TAKE j \in 0..h, k \in Keys
    <3>1. q[j] = row(j)  BY <2>2, <2>4
    <3> QED  BY <3>1, <2>4
  <2> QED  BY <2>3, <2>5, <2>6
<1> HIDE DEF q
<1>3. \A j \in 0..(h + 1) : j = h + 1 \/ j \in 0..h  BY <1>1
<1>4. \A j \in 0..h, k, l \in Keys : q[j][k] = q[j][l] <=> r[j][k] = r[j][l]
  <2> TAKE j \in 0..h, k \in Keys, l \in Keys
  <2>1. q[j][k] = IF r[j][k] = x THEN n ELSE r[j][k]  BY <1>2
  <2>2. q[j][l] = IF r[j][l] = x THEN n ELSE r[j][l]  BY <1>2
  <2>3. r[j][k] # n /\ r[j][l] # n  BY <1>1
  <2> QED  BY <2>1, <2>2, <2>3
<1>5. \A j \in 0..(h + 1), k \in Keys : q[j][k] \in live \cup {n}  BY <1>1, <1>2, <1>3
<1>6. \A p \in live \cup {n} : \E j \in 0..(h + 1), k \in Keys : q[j][k] = p
  <2>1. PICK k \in Keys : r[i][k] = x  OBVIOUS
  <2>2. i \in 0..(h + 1) /\ h + 1 \in 0..(h + 1)  BY <1>1
  <2>3. q[i][k] = n /\ q[h + 1][k] = x  BY <2>1, <2>2, <1>2
  <2>4. ASSUME NEW p \in live, p # x  PROVE \E j \in 0..(h + 1), l \in Keys : q[j][l] = p
    <3>1. PICK j \in 0..h, l \in Keys : r[j][l] = p  BY <1>1 DEF Covered
    <3>2. q[j][l] = p /\ j \in 0..(h + 1)  BY <3>1, <2>4, <1>1, <1>2
    <3> QED  BY <3>2
  <2> QED  BY <2>2, <2>3, <2>4
<1>7. \A j, m \in 0..(h + 1), k, l \in Keys : q[j][k] = q[m][l] => j = m
  <2> SUFFICES ASSUME NEW j \in 0..(h + 1), NEW m \in 0..(h + 1), NEW k \in Keys, NEW l \in Keys, q[j][k] = q[m][l]
               PROVE  j = m
    OBVIOUS
  <2>1. \A u \in 0..h, a \in Keys : q[u][a] # x  BY <1>0, <1>2
  <2>2. CASE j \in 0..h /\ m \in 0..h
    <3>1. q[j][k] = n <=> r[j][k] = x  BY <2>2, <1>1, <1>2
    <3>2. q[m][l] = n <=> r[m][l] = x  BY <2>2, <1>1, <1>2
    <3>3. r[j][k] = r[m][l]  BY <3>1, <3>2, <2>2, <1>2
    <3> QED  BY <3>3, <2>2, <1>1 DEF Apart
  <2> QED  BY <2>1, <2>2, <1>2, <1>3
<1>8. \A j \in 0..((h + 1) - 1), k, l \in Keys : q[j][k] = q[j][l] => q[j + 1][k] = q[j + 1][l]
  <2> SUFFICES ASSUME NEW j \in 0..h, NEW k \in Keys, NEW l \in Keys, q[j][k] = q[j][l]
               PROVE  q[j + 1][k] = q[j + 1][l]
    BY <1>1
  <2>1. CASE j = h  BY <2>1, <1>2
  <2>2. CASE j # h
    <3>1. j \in 0..(h - 1) /\ j + 1 \in 0..h  BY <2>2, <1>1
    <3> QED  BY <3>1, <1>1, <1>4 DEF Coarse
  <2> QED  BY <2>1, <2>2
<1>9. \A j \in 0..(h + 1), k, l, m \in Keys : q[j][k] = q[j][m] /\ k < l /\ l < m => q[j][l] = q[j][k]
  <2> SUFFICES ASSUME NEW j \in 0..(h + 1), NEW k \in Keys, NEW l \in Keys, NEW m \in Keys,
                      q[j][k] = q[j][m], k < l, l < m
               PROVE  q[j][l] = q[j][k]
    OBVIOUS
  <2>1. CASE j = h + 1  BY <2>1, <1>2
  <2>2. CASE j \in 0..h  BY <2>2, <1>1, <1>4 DEF Convex
  <2> QED  BY <2>1, <2>2, <1>3
<1>10. h + 1 \in Nat  BY <1>1
<1>11. Covered(h + 1, q, live \cup {n}) /\ Apart(h + 1, q) /\ Coarse(h + 1, q) /\ Convex(h + 1, q)
  <2>1. Covered(h + 1, q, live \cup {n})  BY <1>6 DEF Covered
  <2>2. Apart(h + 1, q)  BY <1>7 DEF Apart
  <2>3. Coarse(h + 1, q)  BY <1>8 DEF Coarse
  <2>4. Convex(h + 1, q)  BY <1>9 DEF Convex
  <2> QED  BY <2>1, <2>2, <2>3, <2>4
<1>12. IsLifted(h, r, x, n, q)  BY ONLY <1>2 DEF IsLifted
<1> QED  BY <1>2, <1>5, <1>10, <1>11, <1>12 DEF Routing, q

\* What shares a page shares every page above it.
LEMMA CoarseUp ==
  ASSUME NEW h, NEW r, NEW live, Routing(h, r, live), NEW i \in 0..h, NEW j \in i..h,
         NEW k \in Keys, NEW l \in Keys, r[i][k] = r[i][l]
  PROVE  r[j][k] = r[j][l]
<1>1. /\ h \in Nat
      /\ \A a \in 0..(h - 1) : r[a][k] = r[a][l] => r[a + 1][k] = r[a + 1][l]
  BY DEF Routing, Coarse
<1> DEFINE N == h - i
           S == {d \in 0..N : r[i + d][k] = r[i + d][l]}
<1>2. N \in Nat /\ 0 \in S  BY <1>1
<1>3. ASSUME NEW d \in 0..(N - 1), d \in S  PROVE d + 1 \in S
  <2>1. i + d \in 0..(h - 1) /\ (i + d) + 1 = i + (d + 1) /\ d + 1 \in 0..N  BY <1>1
  <2>2. r[i + d][k] = r[i + d][l]  BY <1>3
  <2>3. r[(i + d) + 1][k] = r[(i + d) + 1][l]  BY <2>1, <2>2, <1>1
  <2> QED  BY <2>1, <2>3
<1>4. 0..N \subseteq S
  <2> HIDE DEF S, N
  <2> QED  BY <1>2, <1>3, StepsFromZero
<1>5. j - i \in 0..N /\ i + (j - i) = j  BY <1>1
<1>6. j - i \in S  BY <1>4, <1>5
<1> QED  BY <1>5, <1>6

-----------------------------------------------------------------------------
(* What the invariant says of single keys.                                 *)

\* A sequence whose members are in T is one over T.
LEMMA SeqNarrow ==
  ASSUME NEW S, NEW s \in Seq(S), NEW T, \A j \in 1..Len(s) : s[j] \in T
  PROVE  s \in Seq(T)
  OBVIOUS

\* Between two calls no split is under way.
LEMMA IdleFlight ==
  ASSUME NEW h, NEW r, NEW f, NEW ls, Good(h, r, f, ls)
  PROVE  Idle <=> f = -1
<1>1. f = -1 => carry = <<>>  BY DEF Good, Flight
<1>2. f # -1 => carry = <<carry[1]>>  BY DEF Good, Flight
<1>3. <<carry[1]>> # <<>>  OBVIOUS
<1> QED  BY <1>1, <1>2, <1>3 DEF Idle

\* get finds what the map holds.
LEMMA GoodFinds ==
  ASSUME NEW h, NEW r, NEW f, NEW ls, Good(h, r, f, ls)
  PROVE  GetFinds
<1> SUFFICES ASSUME Idle, NEW k \in Keys  PROVE Get(k) = map[k]
  BY DEF GetFinds
<1>1. f = -1  BY IdleFlight
<1>2. FindLeaf(k) = r[0][k]  BY <1>1, FoundLeaf
<1> DEFINE s == page[r[0][k]].kvs
<1>3. LeafOK(page[r[0][k]], map, {l \in Keys : r[0][l] = r[0][k]})  BY DEF Good, LeavesOK
<1>4. /\ s \in KvSeqs /\ Ascending(s)
      /\ \A j \in 1..Len(s) : map[s[j].key] = s[j].val
      /\ map[k] # Absent => Has(s, k)
  BY <1>3 DEF LeafOK, Leafs
<1>5. Get(k) = IF Has(s, k) THEN s[Below(s, k) + 1].val ELSE Absent  BY <1>2 DEF Get
<1> HIDE DEF s
<1>6. CASE Has(s, k)
  <2>1. Below(s, k) \in 0..Len(s) /\ Below(s, k) < Len(s) /\ s[Below(s, k) + 1].key = k  BY <1>4, <1>6, KvBelow
  <2>2. Len(s) \in Nat  BY <1>4, KvSeq
  <2>3. Below(s, k) + 1 \in 1..Len(s)  BY <2>1, <2>2
  <2>4. map[s[Below(s, k) + 1].key] = s[Below(s, k) + 1].val  BY <2>3, <1>4
  <2> QED  BY <2>1, <2>4, <1>5, <1>6
<1>7. CASE ~Has(s, k)  BY <1>4, <1>5, <1>7
<1> QED  BY <1>6, <1>7

\* The invariant implies the type invariant.
LEMMA GoodTyped ==
  ASSUME NEW h, NEW r, NEW f, NEW ls, Good(h, r, f, ls)
  PROVE  TreeTypeOK
<1> DEFINE Ptrs == [key : Keys, child : 1..count]
<1>1. /\ count \in Pages /\ wasted \subseteq 1..count /\ count \in Nat
      /\ page \in [Pages -> Nodes] /\ \A p \in Pages : NodeOK(page[p], count)
  BY TreeAssumption DEF Good, Typed, Pages
<1>2. ASSUME NEW p \in Pages, page[p] \in Leafs
      PROVE  /\ page[p].type = "leaf" /\ page[p].next \in 0..count
             /\ page[p].kvs \in Seq(Entries) /\ Payload(page[p].kvs) <= LeafRoom
  BY <1>1, <1>2 DEF NodeOK, Leafs, KvSeqs
<1>3. ASSUME NEW e, e \in Seps, e.child \in 1..count  PROVE e \in Ptrs
  <2>1. e \in [key : Keys, child : Nat]  BY <1>3 DEF Seps
  <2> QED  BY <2>1, <1>3
<1>4. ASSUME NEW p \in Pages, page[p] \in Inners
      PROVE  /\ page[p].type = "internal" /\ page[p].first \in 1..count
             /\ page[p].entries \in Seq(Ptrs) /\ Len(page[p].entries) <= MaxEntries
  <2> DEFINE n == page[p]
  <2>1. /\ n.type = "internal" /\ n.entries \in Seq(Seps) /\ Len(n.entries) \in Nat
        /\ \A j \in 1..Len(n.entries) : n.entries[j] \in Seps
    BY <1>4, InnerType DEF SepSeqs
  <2>2. /\ Len(n.entries) <= MaxEntries
        /\ \A j \in 0..Len(n.entries) : Child(n, j) \in 1..count
    BY <1>1, <1>4 DEF NodeOK
  <2> HIDE DEF n
  <2>3. n.first \in 1..count
    <3>1. 0 \in 0..Len(n.entries)  BY <2>1
    <3> QED  BY <3>1, <2>2 DEF Child
  <2>4. \A j \in 1..Len(n.entries) : n.entries[j].child \in 1..count
    <3> TAKE j \in 1..Len(n.entries)
    <3>1. j \in 0..Len(n.entries) /\ j # 0  BY <2>1
    <3> QED  BY <3>1, <2>2 DEF Child
  <2>5. \A j \in 1..Len(n.entries) : n.entries[j] \in Ptrs
    <3> HIDE DEF Ptrs
    <3> QED  BY <2>1, <2>4, <1>3
  <2>6. n.entries \in Seq(Ptrs)
    <3> HIDE DEF Ptrs
    <3> QED  BY <2>1, <2>5, SeqNarrow
  <2> QED  BY <2>1, <2>2, <2>3, <2>6 DEF n
<1>5. \A p \in Pages : page[p] = Zeroed \/ page[p] \in Leafs \/ page[p] \in Inners  BY <1>1 DEF Nodes
<1>6. path \in Seq(1..count) /\ carry \in Seq(Ptrs) /\ Len(carry) <= 1
  <2>1. CASE f = -1
    <3>1. path = <<>> /\ carry = <<>>  BY <2>1 DEF Good, Flight
    <3> HIDE DEF Ptrs
    <3> QED  BY <3>1
  <2>2. CASE f # -1
    <3>1. /\ carry = <<carry[1]>> /\ carry[1] \in Seps /\ carry[1].child \in 1..count
          /\ path \in Seq(Nat) /\ Len(path) = h - f /\ f \in -1..h
          /\ \A j \in 1..(h - f) : path[j] = r[h + 1 - j][carry[1].key]
      BY <2>2 DEF Good, Flight, Pending
    <3>2. h \in Nat /\ \A i \in 0..h, k \in Keys : r[i][k] \in 1..count
      BY DEF Good, Routing
    <3>3. carry[1].key \in Keys  BY <3>1, SepFields
    <3>4. \A j \in 1..Len(path) : path[j] \in 1..count
      <4> TAKE j \in 1..Len(path)
      <4>1. h + 1 - j \in 0..h /\ j \in 1..(h - f)  BY <3>1, <3>2, <2>2
      <4> QED  BY <4>1, <3>1, <3>2, <3>3
    <3>5. path \in Seq(1..count)  BY <3>1, <3>4, SeqNarrow
    <3>6. carry[1] \in Ptrs  BY <3>1, <1>3
    <3>7. carry \in Seq(Ptrs) /\ Len(carry) <= 1
      <4>1. PICK e : e \in Ptrs /\ carry = <<e>>  BY <3>1, <3>6
      <4> HIDE DEF Ptrs
      <4> QED  BY ONLY <4>1
    <3> QED  BY <3>5, <3>7
  <2> QED  BY <2>1, <2>2
<1> QED  BY <1>1, <1>2, <1>4, <1>5, <1>6 DEF TreeTypeOK

\* A descent stays the same down to the level where the pages change.
LEMMA LedSame ==
  ASSUME NEW h, NEW r, NEW q, h \in Nat,
         \A i \in 1..h, k \in Keys : q[i][k] = r[i][k] /\ page'[r[i][k]] = page[r[i][k]]
  PROVE  \A i \in 0..h, k \in Keys : Led(h, q, i, k)' = Led(h, r, i, k)
<1> TAKE i \in 0..h, k \in Keys
<1>1. CASE i = h  BY <1>1 DEF Led
<1>2. CASE i # h
  <2>1. i + 1 \in 1..h  BY <1>2
  <2>2. q[i + 1][k] = r[i + 1][k] /\ page'[r[i + 1][k]] = page[r[i + 1][k]]  BY <2>1
  <2> QED  BY <1>2, <2>2 DEF Led
<1> QED  BY <1>1, <1>2

-----------------------------------------------------------------------------
(* Steps on a leaf.                                                        *)

\* The entries w are the entries s with the value v for the key k.
Edited(s, w, k, v) ==
  /\ w \in KvSeqs /\ Ascending(w)
  /\ \A j \in 1..Len(w) : \/ w[j].key = k /\ w[j].val = v
                          \/ \E i \in 1..Len(s) : w[j] = s[i] /\ s[i].key # k
  /\ v # Absent => Has(w, k)
  /\ \A x \in Keys : x # k /\ Has(s, x) => Has(w, x)

\* A put edits the entries.
LEMMA PutEdits ==
  ASSUME NEW s, NEW w, NEW kv, Placed(s, w, kv)
  PROVE  Edited(s, w, kv.key, kv.val)
<1>1. \A j \in 1..Len(w) : w[j] = kv \/ \E i \in 1..Len(s) : w[j] = s[i] /\ s[i].key # kv.key
  BY DEF Placed
<1>2. w \in KvSeqs /\ Ascending(w) /\ Has(w, kv.key) /\ \A x \in Keys : Has(s, x) => Has(w, x)
  BY DEF Placed
<1> QED  BY <1>1, <1>2 DEF Edited

\* A delete edits the entries.
LEMMA CutEdits ==
  ASSUME NEW s, NEW w, NEW k, Cut(s, w, k)
  PROVE  Edited(s, w, k, Absent)
<1>1. w \in KvSeqs /\ Ascending(w) /\ ~Has(w, k) /\ \A x \in Keys : x # k /\ Has(s, x) => Has(w, x)
  BY DEF Cut
<1>2. ASSUME NEW j \in 1..Len(w)  PROVE \E i \in 1..Len(s) : w[j] = s[i] /\ s[i].key # k
  <2>1. w[j].key # k  BY <1>1 DEF Has
  <2>2. \E i \in 1..Len(s) : w[j] = s[i]  BY DEF Cut
  <2> QED  BY <2>1, <2>2
<1> QED  BY <1>1, <1>2 DEF Edited

\* A leaf whose entries were edited holds the edited map.
LEMMA EditedLeaf ==
  ASSUME NEW n, NEW m, NEW mine, LeafOK(n, m, mine), mine \subseteq Keys, m \in [Keys -> Values \cup {Absent}],
         NEW k \in mine, NEW v, NEW w, Edited(n.kvs, w, k, v), NEW g \in Leafs, g.kvs = w
  PROVE  LeafOK(g, [m EXCEPT ![k] = v], mine)
<1> DEFINE m2 == [m EXCEPT ![k] = v]
           s == n.kvs
<1>1. \A x \in Keys : m2[x] = IF x = k THEN v ELSE m[x]  OBVIOUS
<1> HIDE DEF m2
<1>2. /\ \A j \in 1..Len(s) : s[j].key \in mine /\ m[s[j].key] = s[j].val
      /\ \A x \in mine : m[x] # Absent => Has(s, x)
  BY DEF LeafOK
<1>3. /\ w \in KvSeqs /\ Ascending(w)
      /\ \A j \in 1..Len(w) : \/ w[j].key = k /\ w[j].val = v
                              \/ \E i \in 1..Len(s) : w[j] = s[i] /\ s[i].key # k
      /\ v # Absent => Has(w, k)
      /\ \A x \in Keys : x # k /\ Has(s, x) => Has(w, x)
  BY DEF Edited
<1> HIDE DEF s
<1>4. \A j \in 1..Len(w) : w[j].key \in mine /\ m2[w[j].key] = w[j].val
  <2> TAKE j \in 1..Len(w)
  <2>1. CASE w[j].key = k /\ w[j].val = v  BY <2>1, <1>1
  <2>2. CASE \E i \in 1..Len(s) : w[j] = s[i] /\ s[i].key # k
    <3>1. PICK i \in 1..Len(s) : w[j] = s[i] /\ s[i].key # k  BY <2>2
    <3>2. s[i].key \in mine /\ s[i].key \in Keys /\ m[s[i].key] = s[i].val  BY <1>2
    <3> QED  BY <3>1, <3>2, <1>1
  <2> QED  BY <2>1, <2>2, <1>3
<1>5. \A x \in mine : m2[x] # Absent => Has(w, x)
  <2> TAKE x \in mine
  <2>1. CASE x = k  BY <2>1, <1>1, <1>3
  <2>2. CASE x # k
    <3>1. m2[x] = m[x] /\ x \in Keys  BY <2>2, <1>1
    <3> QED  BY <3>1, <2>2, <1>2, <1>3
  <2> QED  BY <2>1, <2>2
<1> QED  BY <1>3, <1>4, <1>5 DEF LeafOK, m2

\* Each half of a leaf holds the entries of its side.
LEMMA HalvedLeaf ==
  ASSUME NEW w \in KvSeqs, Ascending(w), NEW m, NEW mine, mine \subseteq Keys,
         \A j \in 1..Len(w) : w[j].key \in mine /\ m[w[j].key] = w[j].val,
         \A k \in mine : m[k] # Absent => Has(w, k),
         NEW a, Halved(Entries, w, a),
         NEW l \in Leafs, l.kvs = LeftHalf(w), NEW g \in Leafs, g.kvs = RightHalf(w)
  PROVE  /\ LeafOK(l, m, {k \in mine : k < w[a + 1].key})
         /\ LeafOK(g, m, {k \in mine : k >= w[a + 1].key})
<1> DEFINE lo == LeftHalf(w)
           hi == RightHalf(w)
           s == w[a + 1].key
           n == Len(w)
<1>1. /\ a \in 0..(n - 1) /\ n \in Nat
      /\ lo \in Seq(Entries) /\ Len(lo) = a /\ \A j \in 1..a : lo[j] = w[j]
      /\ hi \in Seq(Entries) /\ Len(hi) = n - a /\ \A j \in 1..(n - a) : hi[j] = w[a + j]
  BY DEF Halved
<1>2. \A j \in 1..n : w[j].key \in Int /\ w[j].key \in mine /\ m[w[j].key] = w[j].val  BY KvSeq
<1>3. \A i, j \in 1..n : i < j => w[i].key < w[j].key  BY DEF Ascending
<1>4. a + 1 \in 1..n /\ s \in Int  BY <1>1, <1>2
<1>5. Keys \subseteq Int  BY TreeAssumption
<1>6. \A k \in mine : m[k] # Absent => \E j \in 1..n : w[j].key = k  BY DEF Has
<1> HIDE DEF lo, hi, n, s
<1>7. ASSUME NEW j \in 1..a
      PROVE  j \in 1..n /\ lo[j] = w[j] /\ w[j].key < s
  <2>1. j \in 1..n /\ j < a + 1  BY <1>1
  <2>2. w[j].key < w[a + 1].key  BY <2>1, <1>3, <1>4
  <2> QED  BY <2>1, <2>2, <1>1 DEF s
<1>8. ASSUME NEW j \in 1..(n - a)
      PROVE  a + j \in 1..n /\ hi[j] = w[a + j] /\ w[a + j].key >= s
  <2>1. a + j \in 1..n  BY <1>1
  <2>2. CASE j = 1  BY <2>1, <2>2, <1>1, <1>4 DEF s
  <2>3. CASE j # 1
    <3>1. a + 1 < a + j  BY <2>3, <1>1
    <3>2. w[a + 1].key < w[a + j].key  BY <2>1, <3>1, <1>3, <1>4
    <3> QED  BY <2>1, <3>2, <1>1, <1>2, <1>4 DEF s
  <2> QED  BY <2>2, <2>3
<1>9. LeafOK(l, m, {k \in mine : k < s})
  <2>1. Ascending(lo)
    <3> SUFFICES ASSUME NEW i \in 1..a, NEW j \in 1..a, i < j  PROVE lo[i].key < lo[j].key
      BY <1>1 DEF Ascending
    <3> QED  BY <1>3, <1>7
  <2>2. \A j \in 1..a : lo[j].key \in {k \in mine : k < s} /\ m[lo[j].key] = lo[j].val  BY <1>2, <1>7
  <2>3. ASSUME NEW k \in mine, k < s, m[k] # Absent  PROVE Has(lo, k)
    <3>1. PICK j \in 1..n : w[j].key = k  BY <2>3, <1>6
    <3>2. ~(j >= a + 1)
      <4> SUFFICES ASSUME j >= a + 1  PROVE FALSE  OBVIOUS
      <4>1. j - a \in 1..(n - a) /\ a + (j - a) = j  BY <1>1
      <4>2. w[j].key >= s  BY <4>1, <1>8
      <4> QED  BY <4>2, <3>1, <2>3, <1>4, <1>5
    <3>3. j \in 1..a  BY <3>2, <1>1
    <3> QED  BY <3>1, <3>3, <1>1, <1>7 DEF Has
  <2> QED  BY <2>1, <2>2, <2>3, <1>1 DEF LeafOK, lo
<1>10. LeafOK(g, m, {k \in mine : k >= s})
  <2>1. Ascending(hi)
    <3> SUFFICES ASSUME NEW i \in 1..(n - a), NEW j \in 1..(n - a), i < j  PROVE hi[i].key < hi[j].key
      BY <1>1 DEF Ascending
    <3>1. a + i < a + j  BY <1>1
    <3> QED  BY <3>1, <1>3, <1>8
  <2>2. \A j \in 1..(n - a) : hi[j].key \in {k \in mine : k >= s} /\ m[hi[j].key] = hi[j].val  BY <1>2, <1>8
  <2>3. ASSUME NEW k \in mine, k >= s, m[k] # Absent  PROVE Has(hi, k)
    <3>1. PICK j \in 1..n : w[j].key = k  BY <2>3, <1>6
    <3>2. ~(j <= a)
      <4> SUFFICES ASSUME j <= a  PROVE FALSE  OBVIOUS
      <4>1. j \in 1..a  BY <1>1
      <4>2. w[j].key < s  BY <4>1, <1>7
      <4> QED  BY <4>2, <3>1, <2>3, <1>4, <1>5
    <3>3. j - a \in 1..(n - a) /\ a + (j - a) = j  BY <3>2, <1>1
    <3>4. hi[j - a].key = k  BY <3>1, <3>3, <1>8
    <3> QED  BY <3>3, <3>4, <1>1 DEF Has
  <2> QED  BY <2>1, <2>2, <2>3, <1>1 DEF LeafOK, hi
<1> QED  BY <1>9, <1>10 DEF s

\* Nothing happens.
LEMMA GoodStays ==
  ASSUME NEW h, NEW r, NEW f, NEW ls, Good(h, r, f, ls), UNCHANGED treeVars
  PROVE  Good(h, r, f, ls)'
<1>1. page' = page /\ count' = count /\ path' = path /\ carry' = carry /\ map' = map /\ wasted' = wasted
  BY DEF treeVars
<1>2. Typed'  BY <1>1 DEF Good, Typed
<1>3. \A i, k : Led(h, r, i, k)' = Led(h, r, i, k)  BY <1>1 DEF Led
<1>4. Leads(h, r, f)'
  <2>1. Leads(h, r, f)  BY DEF Good
  <2> QED  BY <2>1, <1>1, <1>3 DEF Leads, LeadsBut
<1>5. Flight(h, r, f)'
  <2>1. Flight(h, r, f)  BY DEF Good
  <2> QED  BY <2>1, <1>1, <1>3 DEF Flight, Pending
<1>6. LeavesOK(r)' /\ InnersOK(h, r)' /\ Chain(r, ls)'  BY <1>1 DEF Good, LeavesOK, InnersOK, Chain
<1> QED  BY <1>1, <1>2, <1>4, <1>5, <1>6 DEF Good

\* What a step on the leaves needs to know of the pages.
LEMMA LeafApart ==
  ASSUME NEW h, NEW r, NEW f, NEW ls, Good(h, r, f, ls), NEW k \in Keys
  PROVE  /\ \A i \in 1..h, x \in Keys : r[i][x] # r[0][k]
         /\ \A i \in 0..h, x \in Keys : r[i][x] \in Pages /\ r[i][x] # count + 1
<1>1. h \in Nat /\ Apart(h, r) /\ count \in 1..MaxPages /\ MaxPages \in Nat /\ \A i \in 0..h, x \in Keys : r[i][x] \in 1..count
  BY TreeAssumption DEF Good, Routing, Typed, Pages
<1>2. \A i \in 1..h : i \in 0..h /\ 0 \in 0..h /\ i # 0  BY <1>1
<1>3. \A i \in 1..h, x \in Keys : r[i][x] # r[0][k]  BY <1>1, <1>2 DEF Apart
<1> QED  BY <1>1, <1>3 DEF Pages

\* A leaf is rewritten in its place, and it fits.
LEMMA LeafChanged ==
  ASSUME NEW h, NEW r, NEW ls, Good(h, r, -1, ls),
         NEW k \in Keys, NEW v \in Values \cup {Absent}, NEW w,
         Edited(page[r[0][k]].kvs, w, k, v), Payload(w) <= LeafRoom,
         page' = [page EXCEPT ![r[0][k]].kvs = w], map' = [map EXCEPT ![k] = v],
         UNCHANGED <<count, path, carry, wasted>>
  PROVE  Good(h, r, -1, ls)'
<1> DEFINE l == r[0][k]
           g == [page[l] EXCEPT !.kvs = w]
<1>1. /\ count \in Pages /\ wasted \subseteq 1..count
      /\ map \in [Keys -> Values \cup {Absent}]
      /\ page \in [Pages -> Nodes] /\ \A p \in Pages : NodeOK(page[p], count)
  BY DEF Good, Typed
<1>2. l \in Pages /\ page[l] \in Leafs  BY OnTheWay DEF Pages
<1>3. w \in KvSeqs  BY DEF Edited
<1>4. g \in Leafs /\ g.kvs = w /\ g.next = page[l].next  BY <1>2, <1>3, LeafWith
<1>5. page' = [page EXCEPT ![l] = g]  OBVIOUS
<1> HIDE DEF g
<1>6. \A p \in Pages : page'[p] = IF p = l THEN g ELSE page[p]  BY <1>1, <1>5
<1>7. /\ \A i \in 1..h, x \in Keys : r[i][x] # l /\ r[i][x] \in Pages
      /\ \A x \in Keys : r[0][x] \in Pages
      /\ h \in Nat
  <2>1. h \in Nat  BY DEF Good, Routing
  <2>2. \A i \in 1..h : i \in 0..h  BY <2>1
  <2> QED  BY <2>1, <2>2, LeafApart
<1>8. Typed'
  <2>1. g \in Nodes  BY <1>4 DEF Nodes
  <2>2. page' \in [Pages -> Nodes]  BY <1>1, <1>5, <2>1
  <2>3. map' \in [Keys -> Values \cup {Absent}]  BY <1>1
  <2>4. NodeOK(g, count)
    <3>1. g \notin Inners  BY <1>4, <2>1, NodeKinds
    <3>2. page[l].next \in 0..count  BY <1>1, <1>2 DEF NodeOK
    <3> QED  BY <1>4, <3>1, <3>2 DEF NodeOK
  <2>5. \A p \in Pages : NodeOK(page'[p], count)  BY <1>1, <1>6, <2>4
  <2> QED  BY <1>1, <2>2, <2>3, <2>5 DEF Typed
<1>9. Leads(h, r, -1)'
  <2>1. \A i \in 1..h, x \in Keys : r[i][x] = r[i][x] /\ page'[r[i][x]] = page[r[i][x]]  BY <1>6, <1>7
  <2>2. \A i \in 0..h, x \in Keys : Led(h, r, i, x)' = Led(h, r, i, x)
    <3>1. h \in Nat  BY <1>7
    <3> QED  BY ONLY <2>1, <3>1, LedSame
  <2>3. \A i \in 0..h, x \in Keys : r[i][x] = Led(h, r, i, x)
    <3>1. \A i \in 0..h : i # -1  BY <1>7
    <3> QED  BY <3>1 DEF Good, Leads, LeadsBut
  <2>4. \A i \in 0..h, x \in Keys : i # -1 /\ r[i][x] = Led(h, r, i, x)'
    <3>1. \A i \in 0..h : i # -1  BY <1>7
    <3> QED  BY <2>2, <2>3, <3>1
  <2> QED  BY <2>4 DEF Leads, LeadsBut
<1>10. Flight(h, r, -1)'
  <2>1. carry = <<>> /\ path = <<>>  BY DEF Good, Flight
  <2>2. -1 \in -1..h  BY <1>7
  <2> QED  BY <2>1, <2>2 DEF Flight
<1>11. LeavesOK(r)'
  <2> DEFINE Mine(x) == {y \in Keys : r[0][y] = r[0][x]}
  <2>1. \A x \in Keys : LeafOK(page[r[0][x]], map, Mine(x))  BY DEF Good, LeavesOK
  <2>2. ASSUME NEW x \in Keys, r[0][x] = l  PROVE LeafOK(g, map', Mine(x))
    <3>1. LeafOK(page[l], map, Mine(x))  BY <2>1, <2>2
    <3>2. k \in Mine(x) /\ Mine(x) \subseteq Keys  BY <2>2
    <3>3. map \in [Keys -> Values \cup {Absent}] /\ g \in Leafs /\ g.kvs = w  BY <1>1, <1>4
    <3>4. Edited(page[l].kvs, w, k, v)  OBVIOUS
    <3> HIDE DEF Mine
    <3>5. LeafOK(g, [map EXCEPT ![k] = v], Mine(x))  BY ONLY <3>1, <3>2, <3>3, <3>4, EditedLeaf
    <3> QED  BY <3>5
  <2>3. ASSUME NEW x \in Keys, r[0][x] # l  PROVE LeafOK(page[r[0][x]], map', Mine(x))
    <3>1. LeafOK(page[r[0][x]], map, Mine(x))  BY <2>1
    <3>2. \A y \in Mine(x) : y \in Keys /\ y # k  BY <2>3
    <3>3. \A y \in Mine(x) : map'[y] = map[y]  BY <3>2, <1>1
    <3> HIDE DEF Mine
    <3> QED  BY ONLY <3>1, <3>3 DEF LeafOK
  <2>4. \A x \in Keys : LeafOK(page'[r[0][x]], map', Mine(x))
    <3> HIDE DEF Mine
    <3> QED  BY <2>2, <2>3, <1>6, <1>7
  <2> QED  BY <2>4 DEF LeavesOK
<1>12. InnersOK(h, r)'
  <2>1. \A i \in 1..h, x \in Keys : page'[r[i][x]] = page[r[i][x]]  BY <1>6, <1>7
  <2>2. InnersOK(h, r)  BY DEF Good
  <2> QED  BY <2>1, <2>2 DEF InnersOK
<1>13. Chain(r, ls)'
  <2>1. Chain(r, ls)  BY DEF Good
  <2>2. \A a \in 1..Len(ls) : page'[ls[a]].next = page[ls[a]].next
    <3> TAKE a \in 1..Len(ls)
    <3>1. PICK x \in Keys : ls[a] = r[0][x]  BY <2>1 DEF Chain, InLine
    <3>2. ls[a] \in Pages  BY <3>1, <1>7
    <3> QED  BY <3>2, <1>4, <1>6
  <2> QED  BY <2>1, <2>2 DEF Chain, Linked
<1>14. (h < count)' /\ Routing(h, r, (1..count) \ wasted)'
  <2>1. h < count /\ Routing(h, r, (1..count) \ wasted)  BY DEF Good
  <2> QED  BY <2>1
<1> QED  BY <1>8, <1>9, <1>10, <1>11, <1>12, <1>13, <1>14 DEF Good

\* put writes the entry to the leaf of its key.
LEMMA LeafWritten ==
  ASSUME NEW h, NEW r, NEW ls, Good(h, r, -1, ls), NEW c \in Puts, LeafWrite(FindLeaf(c.key), c)
  PROVE  Good(h, r, -1, ls)'
<1>1. c.key \in Keys /\ c.val \in Values  BY DEF Puts
<1> DEFINE l == r[0][c.key]
           w == WithEntry(l, c)
           kv == [key |-> c.key, val |-> c.val]
<1>2. FindLeaf(c.key) = l  BY <1>1, FoundLeaf
<1>3. page[l] \in Leafs /\ Ascending(page[l].kvs)
  <2>1. LeafOK(page[l], map, {y \in Keys : r[0][y] = l})  BY <1>1 DEF Good, LeavesOK
  <2> QED  BY <2>1 DEF LeafOK
<1>4. Placed(page[l].kvs, w, kv)  BY <1>3, EntryPlaced
<1>5. kv.key = c.key /\ kv.val = c.val  OBVIOUS
<1>6. Edited(page[l].kvs, w, c.key, c.val)
  <2> HIDE DEF kv, w, l
  <2>1. Edited(page[l].kvs, w, kv.key, kv.val)  BY <1>4, PutEdits
  <2> QED  BY <2>1, <1>5
<1>7. /\ Payload(w) <= LeafRoom
      /\ page' = [page EXCEPT ![l].kvs = w]
      /\ map' = [map EXCEPT ![c.key] = c.val]
      /\ UNCHANGED <<count, path, carry, wasted>>
  BY <1>2 DEF LeafWrite, LeafFits, DonePut
<1> HIDE DEF w
<1>8. Good(h, r, -1, ls)  OBVIOUS
<1>9. c.key \in Keys /\ c.val \in Values \cup {Absent}  BY <1>1
<1> QED  BY ONLY <1>6, <1>7, <1>8, <1>9, LeafChanged

\* delete takes it out again.
LEMMA LeafDeleted ==
  ASSUME NEW h, NEW r, NEW ls, Good(h, r, -1, ls), NEW c \in Deletes, LeafDelete(FindLeaf(c.key), c)
  PROVE  Good(h, r, -1, ls)'
<1>1. c.key \in Keys  BY DEF Deletes
<1> DEFINE l == r[0][c.key]
           s == page[l].kvs
           w == RemoveAt(s, Below(s, c.key) + 1)
<1>2. FindLeaf(c.key) = l  BY <1>1, FoundLeaf
<1>3. l \in Pages /\ page[l] \in Leafs /\ s \in KvSeqs /\ Ascending(s)
  <2>1. LeafOK(page[l], map, {y \in Keys : r[0][y] = l})  BY <1>1 DEF Good, LeavesOK
  <2>2. l \in Pages  BY <1>1, OnTheWay DEF Pages
  <2> QED  BY <2>1, <2>2 DEF LeafOK, Leafs
<1>4. CASE Has(s, c.key)
  <2>1. Cut(s, w, c.key)  BY <1>1, <1>3, <1>4, EntryCut
  <2>2. Payload(w) <= LeafRoom
    <3>1. w \in KvSeqs /\ Payload(w) <= Payload(s)  BY <2>1 DEF Cut
    <3>2. Payload(s) <= LeafRoom  BY <1>3 DEF Good, Typed, NodeOK
    <3>3. Payload(w) \in Nat /\ Payload(s) \in Nat /\ LeafRoom \in Nat  BY <1>3, <3>1, PayloadNat, TreeAssumption
    <3> QED  BY ONLY <3>1, <3>2, <3>3
  <2>3. Edited(s, w, c.key, Absent)
    <3> HIDE DEF s, w
    <3> QED  BY <2>1, CutEdits
  <2>4. /\ page' = [page EXCEPT ![l].kvs = w]
        /\ map' = [map EXCEPT ![c.key] = Absent]
        /\ UNCHANGED <<count, path, carry, wasted>>
    BY <1>2, <1>4 DEF LeafDelete
  <2>5. Good(h, r, -1, ls) /\ Absent \in Values \cup {Absent}  OBVIOUS
  <2> HIDE DEF w
  <2>6. Edited(page[r[0][c.key]].kvs, w, c.key, Absent) /\ page' = [page EXCEPT ![r[0][c.key]].kvs = w]  BY <2>3, <2>4
  <2> QED  BY ONLY <1>1, <2>2, <2>4, <2>5, <2>6, LeafChanged
<1>5. CASE ~Has(s, c.key)
  <2>1. UNCHANGED treeVars  BY <1>2, <1>5 DEF LeafDelete, treeVars
  <2> QED  BY <2>1, GoodStays
<1> QED  BY <1>4, <1>5

-----------------------------------------------------------------------------
(* The line of leaves when one splits.                                     *)

\* A leaf has one place in the line.
LEMMA LineDistinct ==
  ASSUME NEW row, NEW ls, InLine(row, ls), NEW a \in 1..Len(ls), NEW b \in 1..Len(ls), ls[a] = ls[b]
  PROVE  a = b
<1>1. PICK k \in Keys : ls[a] = row[k]  BY DEF InLine
<1>2. k \in Int  BY TreeAssumption
<1>3. ~(a < b) /\ ~(b < a)
  <2>1. a < b => k < k  BY <1>1 DEF InLine, Sorted
  <2>2. b < a => k < k  BY <1>1 DEF InLine, Sorted
  <2> QED  BY <2>1, <2>2, <1>2
<1> QED  BY <1>3

\* What ls is with n behind its place b.
Behind(ls, b, n, ms) ==
  /\ ms \in Seq(Pages) /\ Len(ms) = Len(ls) + 1
  /\ \A j \in 1..(Len(ls) + 1) : ms[j] = IF j < b + 1 THEN ls[j] ELSE IF j = b + 1 THEN n ELSE ls[j - 1]

\* An insertion puts the page behind its place.
LEMMA BehindIs ==
  ASSUME NEW ls \in Seq(Pages), NEW b \in 1..Len(ls), NEW n \in Pages
  PROVE  Behind(ls, b, n, InsertAt(ls, b + 1, n))
<1> DEFINE p == b + 1
<1>1. p \in 1..(Len(ls) + 1)  OBVIOUS
<1> HIDE DEF p
<1>2. /\ InsertAt(ls, p, n) \in Seq(Pages) /\ Len(InsertAt(ls, p, n)) = Len(ls) + 1
      /\ \A j \in 1..(Len(ls) + 1) :
           InsertAt(ls, p, n)[j] = IF j < p THEN ls[j] ELSE IF j = p THEN n ELSE ls[j - 1]
  BY <1>1, InsertAtIs
<1> QED  BY <1>2 DEF p, Behind

\* A new page comes behind the one it was split from.
LEMMA LineSplit ==
  ASSUME NEW row, NEW ls, InLine(row, ls), NEW b \in 1..Len(ls), NEW n \in Pages, \A k \in Keys : row[k] # n,
         NEW s \in Keys, row[s] = ls[b], \E k \in Keys : row[k] = ls[b] /\ k < s,
         NEW new, \A k \in Keys : new[k] = IF row[k] = ls[b] /\ k >= s THEN n ELSE row[k]
  PROVE  InLine(new, InsertAt(ls, b + 1, n))
<1> DEFINE ms == InsertAt(ls, b + 1, n)
           u == Len(ls)
           old(j) == IF j < b + 1 THEN j ELSE j - 1
<1>0. Keys \subseteq Int  BY TreeAssumption
<1>1. /\ ls \in Seq(Pages) /\ u \in Nat /\ b \in 1..u
      /\ \A k \in Keys : \E a \in 1..u : ls[a] = row[k]
      /\ \A a \in 1..u : \E k \in Keys : ls[a] = row[k]
      /\ Sorted(row, ls)
  <2>1. InLine(row, ls) /\ b \in 1..Len(ls)  OBVIOUS
  <2> QED  BY ONLY <2>1 DEF InLine
<1>2. /\ ms \in Seq(Pages) /\ Len(ms) = u + 1
      /\ \A j \in 1..(u + 1) : ms[j] = IF j < b + 1 THEN ls[j] ELSE IF j = b + 1 THEN n ELSE ls[j - 1]
  <2>1. ls \in Seq(Pages) /\ b \in 1..Len(ls) /\ n \in Pages  BY <1>1
  <2>2. Behind(ls, b, n, ms)  BY ONLY <2>1, BehindIs DEF ms
  <2> QED  BY ONLY <2>2 DEF Behind, u
<1> HIDE DEF ms, u
<1>3. /\ \A j \in 1..(u + 1) : j # b + 1 => old(j) \in 1..u /\ ms[j] = ls[old(j)]
      /\ ms[b + 1] = n /\ b + 1 \in 1..(u + 1)
  <2>1. b + 1 \in 1..(u + 1) /\ ~(b + 1 < b + 1)  BY <1>1
  <2>2. \A j \in 1..(u + 1) : j # b + 1 => old(j) \in 1..u  BY <1>1
  <2>3. \A j \in 1..(u + 1) : j # b + 1 => ms[j] = ls[old(j)]  BY <1>2
  <2> QED  BY <2>1, <2>2, <2>3, <1>2
<1>4. \A i, j \in 1..(u + 1) : i < j /\ i # b + 1 /\ j # b + 1 => old(i) < old(j)  BY <1>1
<1>5. \A j \in 1..(u + 1) : /\ j < b + 1 => old(j) = j /\ old(j) <= b
                            /\ j > b + 1 => old(j) > b
  BY <1>1
<1>6. \A i \in 1..u : \E j \in 1..(u + 1) : j # b + 1 /\ old(j) = i
  <2> TAKE i \in 1..u
  <2>1. CASE i < b + 1
    <3>1. i \in 1..(u + 1) /\ i # b + 1 /\ old(i) = i  BY <2>1, <1>1
    <3> QED  BY <3>1
  <2>2. CASE ~(i < b + 1)
    <3>1. i + 1 \in 1..(u + 1) /\ i + 1 # b + 1 /\ old(i + 1) = i  BY <2>2, <1>1
    <3> QED  BY <3>1
  <2> QED  BY <2>1, <2>2
<1> HIDE DEF old
<1>7. ASSUME NEW k \in Keys  PROVE \E a \in 1..(u + 1) : ms[a] = new[k]
  <2>1. CASE row[k] = ls[b] /\ k >= s  BY <2>1, <1>3
  <2>2. CASE ~(row[k] = ls[b] /\ k >= s)
    <3>1. PICK i \in 1..u : ls[i] = row[k]  BY <1>1
    <3>2. PICK j \in 1..(u + 1) : j # b + 1 /\ old(j) = i  BY <1>6
    <3> QED  BY <3>1, <3>2, <2>2, <1>3
  <2> QED  BY <2>1, <2>2
<1>8. ASSUME NEW a \in 1..(u + 1)  PROVE \E k \in Keys : ms[a] = new[k]
  <2>1. CASE a = b + 1
    <3>1. s >= s  BY <1>0
    <3> QED  BY <2>1, <3>1, <1>3
  <2>2. CASE a # b + 1
    <3>1. old(a) \in 1..u /\ ms[a] = ls[old(a)]  BY <2>2, <1>3
    <3>2. CASE ls[old(a)] = ls[b]
      <4>1. PICK k \in Keys : row[k] = ls[b] /\ k < s  OBVIOUS
      <4>2. new[k] = ls[b]  BY <4>1, <1>0
      <4> QED  BY <3>1, <3>2, <4>2
    <3>3. CASE ls[old(a)] # ls[b]
      <4>1. PICK k \in Keys : ls[old(a)] = row[k]  BY <3>1, <1>1
      <4>2. new[k] = row[k]  BY <4>1, <3>3
      <4> QED  BY <3>1, <4>1, <4>2
    <3> QED  BY <3>2, <3>3
  <2> QED  BY <2>1, <2>2
<1>9. ASSUME NEW i \in 1..(u + 1), NEW j \in 1..(u + 1), NEW k \in Keys, NEW l \in Keys,
             i < j, new[k] = ms[i], new[l] = ms[j]
      PROVE  k < l
  <2>0. \A x \in 1..u, y \in Keys : row[y] # n /\ (ls[x] = row[y] => ls[x] # n)  OBVIOUS
  <2>00. \A x \in 1..u : ls[x] # n  BY <1>1
  <2>1. CASE i = b + 1
    <3>1. j > b + 1 /\ j # b + 1 /\ old(j) \in 1..u /\ ms[j] = ls[old(j)] /\ old(j) > b
      BY <2>1, <1>9, <1>1, <1>3, <1>5
    <3>2. row[k] = ls[b] /\ k >= s  BY <2>1, <1>3, <1>9
    <3>3. row[l] = ls[old(j)]
      <4>1. new[l] # n  BY <3>1, <2>00, <1>9
      <4> QED  BY <4>1, <3>1, <1>9
    <3>4. b < old(j)  BY <3>1, <1>1
    <3> QED  BY <3>1, <3>2, <3>3, <3>4, <1>1 DEF Sorted, u
  <2>2. CASE j = b + 1
    <3>1. i < b + 1 /\ i # b + 1 /\ old(i) \in 1..u /\ ms[i] = ls[old(i)] /\ old(i) <= b
      BY <2>2, <1>9, <1>1, <1>3, <1>5
    <3>2. row[l] = ls[b] /\ l >= s  BY <2>2, <1>3, <1>9
    <3>3. new[k] # n  BY <3>1, <2>00, <1>9
    <3>4. row[k] = ls[old(i)] /\ ~(row[k] = ls[b] /\ k >= s)  BY <3>1, <3>3, <1>9
    <3>5. CASE old(i) = b
      <4>1. ~(k >= s)  BY <3>4, <3>5
      <4>2. k \in Int /\ l \in Int /\ s \in Int /\ l >= s  BY <3>2, <1>0
      <4> QED  BY ONLY <4>1, <4>2
    <3>6. CASE old(i) # b
      <4>1. old(i) < b  BY <3>1, <3>6, <1>1
      <4> QED  BY <4>1, <3>1, <3>2, <3>4, <1>1 DEF Sorted, u
    <3> QED  BY <3>5, <3>6
  <2>3. CASE i # b + 1 /\ j # b + 1
    <3>1. old(i) \in 1..u /\ ms[i] = ls[old(i)] /\ old(j) \in 1..u /\ ms[j] = ls[old(j)] /\ old(i) < old(j)
      BY <2>3, <1>9, <1>3, <1>4
    <3>2. new[k] # n /\ new[l] # n  BY <3>1, <2>00, <1>9
    <3>3. row[k] = ls[old(i)] /\ row[l] = ls[old(j)]  BY <3>1, <3>2, <1>9
    <3> QED  BY <3>1, <3>3, <1>1 DEF Sorted, u
  <2> QED  BY <2>1, <2>2, <2>3, <1>1
<1>10. Sorted(new, ms)  BY <1>2, <1>9 DEF Sorted
<1>11. ms \in Seq(Pages) /\ Len(ms) = u + 1  BY <1>2
<1>12. InLine(new, ms)  BY ONLY <1>7, <1>8, <1>10, <1>11 DEF InLine
<1> QED  BY <1>12 DEF ms

\* The new leaf takes over the link of the old one, which links to it.
LEMMA LinkSplit ==
  ASSUME NEW row, NEW ls, InLine(row, ls), NEW b \in 1..Len(ls), NEW n \in Pages, \A k \in Keys : row[k] # n,
         NEW pages, Linked(pages, ls), NEW new,
         new[ls[b]].next = n, new[n].next = pages[ls[b]].next,
         \A k \in Keys : row[k] # ls[b] => new[row[k]] = pages[row[k]]
  PROVE  Linked(new, InsertAt(ls, b + 1, n))
<1> DEFINE ms == InsertAt(ls, b + 1, n)
           u == Len(ls)
<1>1. /\ ls \in Seq(Pages) /\ u \in Nat /\ b \in 1..u
      /\ \A a \in 1..u : \E k \in Keys : ls[a] = row[k]
  <2>1. InLine(row, ls) /\ b \in 1..Len(ls)  OBVIOUS
  <2> QED  BY ONLY <2>1 DEF InLine
<1>2. /\ Len(ms) = u + 1
      /\ \A j \in 1..(u + 1) : ms[j] = IF j < b + 1 THEN ls[j] ELSE IF j = b + 1 THEN n ELSE ls[j - 1]
  <2>1. ls \in Seq(Pages) /\ b \in 1..Len(ls) /\ n \in Pages  BY <1>1
  <2>2. Behind(ls, b, n, ms)  BY ONLY <2>1, BehindIs DEF ms
  <2> QED  BY ONLY <2>2 DEF Behind, u
<1>3. \A a \in 1..u : a # b => ls[a] # ls[b]  BY LineDistinct
<1>4. \A a \in 1..u : a # b => new[ls[a]] = pages[ls[a]]
  <2> TAKE a \in 1..u
  <2> HAVE a # b
  <2>1. PICK k \in Keys : ls[a] = row[k]  BY <1>1
  <2> QED  BY <2>1, <1>3
<1>5. \A a \in 1..u : pages[ls[a]].next = IF a = u THEN 0 ELSE ls[a + 1]  BY DEF Linked
<1> HIDE DEF ms, u
<1>6. ASSUME NEW j \in 1..(u + 1)  PROVE new[ms[j]].next = IF j = u + 1 THEN 0 ELSE ms[j + 1]
  <2>1. CASE j < b
    <3>1. j \in 1..u /\ j # b /\ j < b + 1 /\ j + 1 < b + 1 /\ j # u /\ j # u + 1 /\ j + 1 \in 1..(u + 1)  BY <2>1, <1>1
    <3>2. ms[j] = ls[j] /\ ms[j + 1] = ls[j + 1]  BY <3>1, <1>2
    <3> QED  BY <3>1, <3>2, <1>4, <1>5
  <2>2. CASE j = b
    <3>1. j < b + 1 /\ j # u + 1 /\ j + 1 = b + 1 /\ j + 1 \in 1..(u + 1) /\ ~(j + 1 < b + 1)  BY <2>2, <1>1
    <3>2. ms[j] = ls[b] /\ ms[j + 1] = n  BY <2>2, <3>1, <1>2
    <3> QED  BY <3>1, <3>2
  <2>3. CASE j = b + 1
    <3>1. ~(j < b + 1) /\ (j = u + 1 <=> b = u)  BY <2>3, <1>1
    <3>2. ms[j] = n  BY <2>3, <3>1, <1>2
    <3>3. new[ms[j]].next = IF b = u THEN 0 ELSE ls[b + 1]  BY <3>2, <1>1, <1>5
    <3>4. b # u => ms[j + 1] = ls[b + 1]
      <4>1. b # u => j + 1 \in 1..(u + 1) /\ ~(j + 1 < b + 1) /\ j + 1 # b + 1 /\ (j + 1) - 1 = b + 1  BY <2>3, <1>1
      <4> QED  BY <4>1, <1>2
    <3> QED  BY <3>1, <3>3, <3>4
  <2>4. CASE j > b + 1
    <3>1. ~(j < b + 1) /\ j # b + 1 /\ j - 1 \in 1..u /\ j - 1 # b /\ (j = u + 1 <=> j - 1 = u) /\ (j - 1) + 1 = j
      BY <2>4, <1>1
    <3>2. ms[j] = ls[j - 1]  BY <3>1, <1>2
    <3>3. new[ms[j]].next = IF j - 1 = u THEN 0 ELSE ls[j]  BY <3>1, <3>2, <1>4, <1>5
    <3>4. j # u + 1 => ms[j + 1] = ls[j]
      <4>1. j # u + 1 => j + 1 \in 1..(u + 1) /\ ~(j + 1 < b + 1) /\ j + 1 # b + 1 /\ (j + 1) - 1 = j
        <5>1. u \in Nat /\ b \in Nat /\ j \in 1..(u + 1) /\ j > b + 1  BY <2>4, <1>1
        <5> QED  BY ONLY <5>1
      <4> QED  BY <4>1, <1>2
    <3> QED  BY <3>1, <3>3, <3>4
  <2> QED  BY <2>1, <2>2, <2>3, <2>4, <1>1
<1> QED  BY <1>2, <1>6 DEF Linked, ms

-----------------------------------------------------------------------------
(* The first leaf, and a leaf that splits.                                 *)

\* A new tree is one empty leaf.
LEMMA InitGood ==
  ASSUME TreeInit
  PROVE  TreeInv
<1> DEFINE row == [k \in Keys |-> Root]
           r == [i \in 0..0 |-> row]
           ls == <<Root>>
<1>0. Root = 1 /\ MaxPages \in Nat \ {0} /\ LeafRoom \in Nat /\ Pages = 1..MaxPages  BY TreeAssumption DEF Root, Pages
<1>1. /\ page = [p \in Pages |-> IF p = Root THEN Leaf(0, <<>>) ELSE Zeroed]
      /\ count = 1 /\ path = <<>> /\ carry = <<>> /\ wasted = {}
      /\ map = [k \in Keys |-> Absent]
  BY DEF TreeInit
<1>2. Root \in Pages /\ 1 \in Pages  BY <1>0
<1> DEFINE g == Leaf(0, <<>>)
<1>3. g \in Leafs /\ g.kvs = <<>> /\ g.next = 0 /\ Payload(g.kvs) = 0
  <2>1. <<>> \in KvSeqs  BY DEF KvSeqs
  <2>2. g \in Leafs /\ g.kvs = <<>> /\ g.next = 0  BY <2>1, LeafFields
  <2> HIDE DEF g
  <2> QED  BY <2>2, EmptyPayload
<1> HIDE DEF g
<1>4. \A p \in Pages : page[p] = IF p = Root THEN g ELSE Zeroed  BY <1>1 DEF g
<1>5. Typed
  <2>1. g \in Nodes /\ Zeroed \in Nodes /\ g \notin Inners /\ Zeroed \notin Inners /\ Zeroed \notin Leafs
    <3>1. g \in Nodes /\ Zeroed \in Nodes  BY <1>3 DEF Nodes
    <3> QED  BY <3>1, <1>3, NodeKinds
  <2>2. page \in [Pages -> Nodes]  BY <1>1, <2>1 DEF g
  <2>3. \A p \in Pages : NodeOK(page[p], 1)  BY <1>0, <1>3, <1>4, <2>1 DEF NodeOK
  <2> QED  BY <1>1, <1>2, <2>2, <2>3 DEF Typed
<1>6. /\ r \in [0..0 -> [Keys -> Nat]] /\ \A i \in 0..0, k \in Keys : i = 0 /\ r[i][k] = Root
      /\ r[0] = row /\ \A k \in Keys : row[k] = Root
  <2>1. row \in [Keys -> Nat] /\ \A k \in Keys : row[k] = Root  BY <1>0
  <2> HIDE DEF row
  <2> QED  BY <2>1
<1> HIDE DEF row, r
<1>7. Routing(0, r, (1..count) \ wasted)
  <2>1. (1..count) \ wasted = {Root}  BY <1>0, <1>1
  <2>2. \A i \in 0..0, k \in Keys : r[i][k] \in {Root}  BY <1>6
  <2>3. Covered(0, r, {Root})
    <3>1. PICK k : k \in Keys  BY TreeAssumption
    <3>2. 0 \in 0..0 /\ r[0][k] = Root  BY <3>1, <1>6
    <3> QED  BY <3>1, <3>2 DEF Covered
  <2>4. Apart(0, r)  BY <1>6 DEF Apart
  <2>5. Coarse(0, r)  BY DEF Coarse
  <2>6. Convex(0, r)  BY <1>6 DEF Convex
  <2> QED  BY <1>6, <2>1, <2>2, <2>3, <2>4, <2>5, <2>6 DEF Routing
<1>8. Leads(0, r, -1)
  <2>1. \A i \in 0..0, k \in Keys : i # -1 /\ Led(0, r, i, k) = Root  BY DEF Led
  <2> QED  BY <1>6, <2>1 DEF Leads, LeadsBut
<1>9. Flight(0, r, -1)  BY <1>1 DEF Flight
<1>10. LeavesOK(r)
  <2>1. Len(g.kvs) = 0  BY <1>3
  <2>2. \A k \in Keys : page[r[0][k]] = g /\ map[k] = Absent  BY <1>1, <1>2, <1>4, <1>6
  <2>3. Ascending(g.kvs)  BY <2>1 DEF Ascending
  <2>4. \A mine : mine \subseteq Keys => LeafOK(g, map, mine)  BY <1>3, <2>1, <2>2, <2>3 DEF LeafOK
  <2> QED  BY <2>2, <2>4 DEF LeavesOK
<1>11. InnersOK(0, r)  BY DEF InnersOK
<1>12. Chain(r, ls)
  <2>1. ls \in Seq(Pages) /\ Len(ls) = 1 /\ ls[1] = Root  BY <1>2
  <2> HIDE DEF ls
  <2>2. Sorted(row, ls)  BY <2>1 DEF Sorted
  <2>3. InLine(row, ls)
    <3>1. \E k : k \in Keys  BY TreeAssumption
    <3> QED  BY <2>1, <2>2, <3>1, <1>6 DEF InLine
  <2>4. Linked(page, ls)  BY <2>1, <1>2, <1>3, <1>4 DEF Linked
  <2> QED  BY <1>1, <1>6, <2>1, <2>3, <2>4 DEF Chain
<1>13. 0 < count  BY <1>1
<1> QED  BY <1>5, <1>7, <1>8, <1>9, <1>10, <1>11, <1>12, <1>13 DEF Good, TreeInv

\* A node that fits goes on to fit when a page is allocated.
LEMMA NodeLater ==
  ASSUME NEW n, NEW c \in Nat, NodeOK(n, c)
  PROVE  NodeOK(n, c + 1)
<1>1. /\ n \in Leafs => n.next \in 0..(c + 1) /\ Payload(n.kvs) <= LeafRoom
      /\ n \in Inners => Len(n.entries) <= MaxEntries
  BY DEF NodeOK
<1>2. ASSUME n \in Inners, NEW j \in 0..Len(n.entries)  PROVE Child(n, j) \in 1..(c + 1)
  <2>1. Child(n, j) \in 1..c  BY <1>2 DEF NodeOK
  <2> QED  BY <2>1
<1> QED  BY <1>1, <1>2 DEF NodeOK

\* What a put is about to write to the leaf of its key.
Before(r, c, l, w) ==
  /\ c.key \in Keys /\ c.val \in Values /\ FindLeaf(c.key) = l
  /\ l \in Pages /\ l \in 1..count /\ page[l] \in Leafs /\ page[l].next \in 0..count
  /\ w \in KvSeqs /\ Ascending(w) /\ Len(w) >= 1
  /\ Edited(page[l].kvs, w, c.key, c.val)
  /\ LeafOK([page[l] EXCEPT !.kvs = w], [map EXCEPT ![c.key] = c.val], {y \in Keys : r[0][y] = l})

\* A put finds the leaf of its key, and the entries it is about to write.
LEMMA LeafBefore ==
  ASSUME NEW h, NEW r, NEW ls, Good(h, r, -1, ls), NEW c \in Puts,
         NEW l, l = r[0][c.key], NEW w, w = WithEntry(l, c)
  PROVE  Before(r, c, l, w)
<1>1. c.key \in Keys /\ c.val \in Values  BY DEF Puts
<1> DEFINE kv == [key |-> c.key, val |-> c.val]
           Mine == {y \in Keys : r[0][y] = l}
<1>2. FindLeaf(c.key) = l  BY <1>1, FoundLeaf
<1>3. LeafOK(page[l], map, Mine)  BY <1>1 DEF Good, LeavesOK
<1>4. page[l] \in Leafs /\ Ascending(page[l].kvs)  BY <1>3 DEF LeafOK
<1>5. Placed(page[l].kvs, w, kv)  BY <1>4, EntryPlaced
<1>6. kv.key = c.key /\ kv.val = c.val  OBVIOUS
<1>7. Edited(page[l].kvs, w, c.key, c.val)
  <2> HIDE DEF kv
  <2>1. Edited(page[l].kvs, w, kv.key, kv.val)  BY <1>5, PutEdits
  <2> QED  BY <2>1, <1>6
<1>8. w \in KvSeqs /\ Ascending(w) /\ Len(w) >= 1  BY <1>5 DEF Placed
<1> DEFINE g == [page[l] EXCEPT !.kvs = w]
<1>9. g \in Leafs /\ g.kvs = w  BY <1>4, <1>8, LeafWith
<1>10. LeafOK(g, [map EXCEPT ![c.key] = c.val], Mine)
  <2>1. c.key \in Mine /\ Mine \subseteq Keys  BY <1>1
  <2>2. map \in [Keys -> Values \cup {Absent}]  BY DEF Good, Typed
  <2> HIDE DEF g, Mine
  <2> QED  BY ONLY <1>3, <1>7, <1>9, <2>1, <2>2, EditedLeaf
<1>11. l \in Pages /\ l \in 1..count  
  <2>1. h \in Nat /\ \A i \in 0..h : r[i][c.key] \in 1..count /\ r[i][c.key] \in Pages  BY <1>1, OnTheWay
  <2> QED  BY <2>1
<1>12. page[l].next \in 0..count  BY <1>4, <1>11 DEF Good, Typed, NodeOK
<1> QED  BY <1>1, <1>2, <1>4, <1>7, <1>8, <1>10, <1>11, <1>12 DEF Before

\* There is a page for the right half.
LEMMA Room ==
  ASSUME NEW h, NEW r, NEW ls, Good(h, r, -1, ls), NEW c \in Puts, NEW l, MustSplit(l, c)
  PROVE  count + 1 \in Pages /\ count \in Nat /\ count + 1 + h + 1 <= MaxPages /\ h \in Nat
<1>1. c.key \in Keys  BY DEF Puts
<1>2. Len(PathTo(c.key)) = h + 1  BY <1>1, FoundLeaf
<1>3. h \in Nat /\ count \in Nat /\ MaxPages \in Nat  BY <1>1, OnTheWay
<1>4. count + Len(PathTo(c.key)) + 1 <= MaxPages  BY DEF MustSplit
<1> QED  BY <1>2, <1>3, <1>4 DEF Pages

\* A put whose half does not fit its page leaves a page behind and the tree
\* as it was.
LEMMA LeafSplitFailed ==
  ASSUME NEW h, NEW r, NEW ls, Good(h, r, -1, ls), NEW c \in Puts, LeafSplitFails(FindLeaf(c.key), c)
  PROVE  Good(h, r, -1, ls)'
<1> DEFINE l == r[0][c.key]
           w == WithEntry(l, c)
           n == count + 1
           g == Leaf(page[l].next, RightHalf(w))
<1>1. /\ c.key \in Keys /\ FindLeaf(c.key) = l
      /\ l \in Pages /\ page[l] \in Leafs /\ page[l].next \in 0..count
      /\ w \in KvSeqs /\ Len(w) >= 1
  <2>1. Before(r, c, l, w)  BY LeafBefore
  <2> HIDE DEF l, w
  <2> QED  BY <2>1 DEF Before
<1> HIDE DEF w
<1>2. /\ MustSplit(l, c)
      /\ count' = n /\ wasted' = wasted \cup {n} /\ UNCHANGED <<path, carry, map>>
      /\ page' = IF LeafFits(RightHalf(w)) THEN [page EXCEPT ![n] = g] ELSE page
  BY <1>1 DEF LeafSplitFails, w
<1>3. n \in Pages /\ count \in Nat /\ h \in Nat  BY <1>2, Room
<1>4. /\ count \in Pages /\ wasted \subseteq 1..count
      /\ map \in [Keys -> Values \cup {Absent}]
      /\ page \in [Pages -> Nodes] /\ \A p \in Pages : NodeOK(page[p], count)
  BY DEF Good, Typed
<1>5. g \in Leafs /\ g.kvs = RightHalf(w) /\ g.next = page[l].next
  <2>1. \E a : Halved(Entries, w, a)
    <3>1. w \in Seq(Entries) /\ Len(w) >= 1  BY <1>1 DEF KvSeqs
    <3> QED  BY ONLY <3>1, HalvesAre
  <2>2. RightHalf(w) \in KvSeqs  BY <2>1 DEF Halved, KvSeqs
  <2>3. page[l].next \in Nat  BY <1>1, <1>3
  <2> QED  BY <2>2, <2>3, LeafFields
<1> HIDE DEF g
<1>6. \A p \in Pages : page'[p] = page[p] \/ (p = n /\ page'[p] = g /\ LeafFits(RightHalf(w)))
  BY <1>2, <1>4
<1>7. \A i \in 0..h, x \in Keys : r[i][x] \in Pages /\ r[i][x] # n /\ page'[r[i][x]] = page[r[i][x]]
  <2>1. \A i \in 0..h, x \in Keys : r[i][x] \in Pages /\ r[i][x] # n  BY LeafApart
  <2> QED  BY <2>1, <1>6
<1>8. Typed'
  <2>1. g \in Nodes /\ g \notin Inners
    <3>1. g \in Nodes  BY <1>5 DEF Nodes
    <3> QED  BY <3>1, <1>5, NodeKinds
  <2>2. page' \in [Pages -> Nodes]  BY <1>2, <1>4, <2>1
  <2>3. LeafFits(RightHalf(w)) => NodeOK(g, n)
    <3>1. page[l].next \in 0..n  BY <1>1, <1>3
    <3> QED  BY <1>5, <2>1, <3>1 DEF NodeOK, LeafFits
  <2>4. \A p \in Pages : NodeOK(page[p], n)  BY <1>3, <1>4, NodeLater
  <2>5. \A p \in Pages : NodeOK(page'[p], n)  BY <1>6, <2>3, <2>4
  <2>6. wasted' \subseteq 1..n  BY <1>2, <1>3, <1>4
  <2> QED  BY <1>2, <1>3, <1>4, <2>2, <2>5, <2>6 DEF Typed
<1>9. Leads(h, r, -1)'
  <2>1. \A i \in 1..h, x \in Keys : r[i][x] = r[i][x] /\ page'[r[i][x]] = page[r[i][x]]
    <3>1. \A i \in 1..h : i \in 0..h  BY <1>3
    <3> QED  BY <3>1, <1>7
  <2>2. \A i \in 0..h, x \in Keys : Led(h, r, i, x)' = Led(h, r, i, x)  BY ONLY <2>1, <1>3, LedSame
  <2>3. \A i \in 0..h : i # -1  BY <1>3
  <2>4. \A i \in 0..h, x \in Keys : r[i][x] = Led(h, r, i, x)  BY <2>3 DEF Good, Leads, LeadsBut
  <2> QED  BY <2>2, <2>3, <2>4 DEF Leads, LeadsBut
<1>10. Flight(h, r, -1)'
  <2>1. carry' = <<>> /\ path' = <<>>  BY <1>2 DEF Good, Flight
  <2>2. -1 \in -1..h  BY <1>3
  <2> QED  BY <2>1, <2>2 DEF Flight
<1>11. LeavesOK(r)'
  <2>1. \A x \in Keys : page'[r[0][x]] = page[r[0][x]]  BY <1>3, <1>7
  <2>2. LeavesOK(r)  BY DEF Good
  <2> QED  BY <2>1, <2>2, <1>2 DEF LeavesOK
<1>12. InnersOK(h, r)'
  <2>1. \A i \in 1..h, x \in Keys : page'[r[i][x]] = page[r[i][x]]
    <3>1. \A i \in 1..h : i \in 0..h  BY <1>3
    <3> QED  BY <3>1, <1>7
  <2>2. InnersOK(h, r)  BY DEF Good
  <2> QED  BY <2>1, <2>2 DEF InnersOK
<1>13. Chain(r, ls)'
  <2>1. InLine(r[0], ls) /\ Linked(page, ls) /\ Len(ls) <= count  BY DEF Good, Chain
  <2>2. Linked(page', ls)
    <3>1. \A a \in 1..Len(ls) : page'[ls[a]] = page[ls[a]]
      <4> TAKE a \in 1..Len(ls)
      <4>1. PICK x \in Keys : ls[a] = r[0][x]  BY <2>1 DEF InLine
      <4>2. 0 \in 0..h  BY <1>3
      <4> QED  BY <4>1, <4>2, <1>7
    <3> QED  BY <2>1, <3>1 DEF Linked
  <2>3. Len(ls) \in Nat  BY <2>1 DEF InLine
  <2>4. Len(ls) <= count'  BY <2>1, <2>3, <1>2, <1>3
  <2> QED  BY <2>1, <2>2, <2>4 DEF Chain
<1>14. (h < count)' /\ Routing(h, r, (1..count) \ wasted)'
  <2>1. h < count /\ Routing(h, r, (1..count) \ wasted)  BY DEF Good
  <2>2. (1..count') \ wasted' = (1..count) \ wasted  BY <1>2, <1>3, <1>4
  <2> QED  BY <2>1, <2>2, <1>2, <1>3
<1> QED  BY <1>8, <1>9, <1>10, <1>11, <1>12, <1>13, <1>14 DEF Good

\* A leaf splits: its upper keys go to the new page, which the parent is to
\* hear of.
LEMMA LeafSplitDone ==
  ASSUME NEW h, NEW r, NEW ls, Good(h, r, -1, ls), NEW c \in Puts, LeafSplit(FindLeaf(c.key), c)
  PROVE  \E q, ms : Good(h, q, 0, ms)'
<1>a. PICK l : l = r[0][c.key]  OBVIOUS
<1>b. PICK n : n = count + 1  OBVIOUS
<1>c. PICK w : w = WithEntry(l, c)  OBVIOUS
<1>d. PICK m : m = [map EXCEPT ![c.key] = c.val]  OBVIOUS
<1> DEFINE Mine == {y \in Keys : r[0][y] = l}
<1>1. /\ c.key \in Keys /\ c.val \in Values /\ FindLeaf(c.key) = l
      /\ l \in Pages /\ l \in 1..count /\ page[l] \in Leafs /\ page[l].next \in 0..count
      /\ w \in KvSeqs /\ Ascending(w) /\ Len(w) >= 1
      /\ LeafOK([page[l] EXCEPT !.kvs = w], m, Mine)
  <2>1. Before(r, c, l, w)  BY <1>a, <1>c, LeafBefore
  <2> QED  BY <2>1, <1>d DEF Before, Mine
<1>2. /\ MustSplit(l, c) /\ HalvesFit(w) /\ Len(w) > 1
      /\ count' = n /\ wasted' = wasted
      /\ page' = [page EXCEPT ![n] = Leaf(page[l].next, RightHalf(w)), ![l] = Leaf(n, LeftHalf(w))]
      /\ carry' = <<Sep(RightHalf(w)[1].key, n)>>
      /\ path' = Front(PathTo(c.key))
      /\ map' = m
  BY <1>1, <1>b, <1>c, <1>d DEF LeafSplit, MustSplit, DonePut
<1>x. PICK lo : lo = Leaf(n, LeftHalf(w))  OBVIOUS
<1>y. PICK hi : hi = Leaf(page[l].next, RightHalf(w))  OBVIOUS
<1>3. /\ n \in Pages /\ count \in Nat /\ h \in Nat /\ count + 1 + h + 1 <= MaxPages /\ n # l
      /\ n = count + 1 /\ n \in Nat
  BY <1>b, <1>1, <1>2, Room
<1>4. /\ count \in Pages /\ wasted \subseteq 1..count
      /\ map \in [Keys -> Values \cup {Absent}]
      /\ page \in [Pages -> Nodes] /\ \A p \in Pages : NodeOK(page[p], count)
  BY DEF Good, Typed
<1>5. PICK a : Halved(Entries, w, a)
  <2>1. w \in Seq(Entries) /\ Len(w) >= 1  BY <1>1 DEF KvSeqs
  <2> QED  BY ONLY <2>1, HalvesAre
<1>e. PICK s : s = w[a + 1].key  OBVIOUS
<1>6. /\ a \in 0..(Len(w) - 1) /\ Len(w) \in Nat /\ (Len(w) >= 2 => a >= 1)
      /\ LeftHalf(w) \in KvSeqs /\ RightHalf(w) \in KvSeqs /\ RightHalf(w)[1] = w[a + 1]
  <2>1. /\ a \in 0..(Len(w) - 1) /\ Len(w) \in Nat /\ (Len(w) >= 2 => a >= 1)
        /\ LeftHalf(w) \in KvSeqs /\ RightHalf(w) \in KvSeqs
        /\ \A j \in 1..(Len(w) - a) : RightHalf(w)[j] = w[a + j]
    BY ONLY <1>5 DEF Halved, KvSeqs
  <2>2. 1 \in 1..(Len(w) - a)  BY <2>1
  <2> QED  BY <2>1, <2>2
<1>7. /\ \A j \in 1..Len(w) : w[j].key \in Mine /\ m[w[j].key] = w[j].val
      /\ \A k \in Mine : m[k] # Absent => Has(w, k)
  <2> DEFINE g == [page[l] EXCEPT !.kvs = w]
  <2>1. g.kvs = w  BY <1>1, LeafWith
  <2>2. LeafOK(g, m, Mine)  BY <1>1
  <2> HIDE DEF g, Mine
  <2> QED  BY <2>1, <2>2 DEF LeafOK
<1>8. s \in Keys /\ s \in Int /\ r[0][s] = l /\ \E k \in Keys : r[0][k] = l /\ k < s
  <2>1. a + 1 \in 1..Len(w) /\ 1 \in 1..Len(w) /\ 1 < a + 1  BY <1>2, <1>6
  <2>2. w[1].key \in Mine /\ w[a + 1].key \in Mine /\ w[1].key < w[a + 1].key  BY <2>1, <1>1, <1>7 DEF Ascending
  <2> QED  BY <2>2, <1>e, TreeAssumption
<1>9. /\ lo \in Leafs /\ lo.kvs = LeftHalf(w) /\ lo.next = n
      /\ hi \in Leafs /\ hi.kvs = RightHalf(w) /\ hi.next = page[l].next
  <2>1. n \in Nat /\ page[l].next \in Nat  BY <1>1, <1>3
  <2> QED  BY <2>1, <1>x, <1>y, <1>6, LeafFields
<1>10. page' \in [Pages -> Nodes] /\ \A p \in Pages : page'[p] = IF p = l THEN lo ELSE IF p = n THEN hi ELSE page[p]
  <2>1. lo \in Nodes /\ hi \in Nodes  BY <1>9 DEF Nodes
  <2> QED  BY <2>1, <1>x, <1>y, <1>1, <1>2, <1>3, <1>4
<1>11. LeafOK(lo, m, {k \in Mine : k < s}) /\ LeafOK(hi, m, {k \in Mine : k >= s})
  <2>1. Mine \subseteq Keys  OBVIOUS
  <2> HIDE DEF Mine
  <2>2. /\ LeafOK(lo, m, {k \in Mine : k < w[a + 1].key})
        /\ LeafOK(hi, m, {k \in Mine : k >= w[a + 1].key})
    BY ONLY <2>1, <1>1, <1>5, <1>7, <1>9, HalvedLeaf
  <2> QED  BY <2>2, <1>e
<1>12. carry'[1].key = s /\ carry'[1].child = n /\ carry' = <<carry'[1]>> /\ carry'[1] \in Seps
  <2>1. carry' = <<Sep(s, n)>>  BY <1>2, <1>6, <1>e
  <2>2. n \in Nat  BY <1>3
  <2>3. carry'[1] = Sep(s, n)  BY <2>1
  <2>4. Sep(s, n).key = s /\ Sep(s, n).child = n /\ Sep(s, n) \in Seps  BY <1>8, <2>2 DEF Sep, Seps
  <2> QED  BY <2>1, <2>3, <2>4
<1>f. PICK q : q = Moved(r, 0, l, s, n)  OBVIOUS
<1>13. Routing(h, r, (1..count) \ wasted)  BY DEF Good
<1>14. /\ q \in [0..h -> [Keys -> Nat]]
       /\ \A j \in 0..h, k \in Keys : q[j][k] = IF j = 0 /\ r[0][k] = l /\ k >= s THEN n ELSE r[j][k]
  <2>1. h \in Nat /\ r \in [0..h -> [Keys -> Nat]] /\ 0 \in 0..h /\ n \in Nat  BY <1>3, <1>13 DEF Routing
  <2>2. IsMoved(h, r, 0, l, s, n, q)  BY ONLY <2>1, <1>f, MovedIs
  <2> QED  BY ONLY <2>2 DEF IsMoved
<1>15. Routing(h, q, ((1..count) \ wasted) \cup {n})
  <2> DEFINE live == (1..count) \ wasted
  <2>1. /\ live \subseteq Nat /\ Routing(h, r, live) /\ 0 \in 0..h /\ s \in Keys /\ n \in Nat /\ n \notin live
        /\ l = r[0][s] /\ \E k \in Keys : r[0][k] = l /\ k < s
    BY <1>3, <1>4, <1>8, <1>13
  <2>2. ~(0 > 0)  OBVIOUS
  <2> SUFFICES Routing(h, q, live \cup {n})  OBVIOUS
  <2> HIDE DEF live
  <2> QED  BY ONLY <2>1, <2>2, <1>f, MovedRouting
<1>16. \A i \in 1..h, x \in Keys : q[i][x] = r[i][x] /\ page'[r[i][x]] = page[r[i][x]]
  <2>1. \A i \in 1..h, x \in Keys : r[i][x] # l  BY <1>1, <1>a, <1>3, LeafApart
  <2>2. \A i \in 0..h, x \in Keys : r[i][x] \in Pages /\ r[i][x] # n  BY <1>1, <1>a, <1>3, LeafApart
  <2>3. \A i \in 1..h : i \in 0..h /\ i # 0  BY <1>3
  <2> QED  BY <2>1, <2>2, <2>3, <1>10, <1>14
<1>17. \A i \in 0..h, x \in Keys : Led(h, q, i, x)' = r[i][x]
  <2>1. \A i \in 0..h, x \in Keys : Led(h, q, i, x)' = Led(h, r, i, x)  BY ONLY <1>16, <1>3, LedSame
  <2>2. \A i \in 0..h : i # -1  BY <1>3
  <2>3. \A i \in 0..h, x \in Keys : r[i][x] = Led(h, r, i, x)  BY <2>2 DEF Good, Leads, LeadsBut
  <2> QED  BY <2>1, <2>3
<1>18. Typed'
  <2>1. lo \notin Inners /\ hi \notin Inners
    <3>1. lo \in Nodes /\ hi \in Nodes  BY <1>9 DEF Nodes
    <3> QED  BY <3>1, <1>9, NodeKinds
  <2>2. Payload(lo.kvs) <= LeafRoom /\ Payload(hi.kvs) <= LeafRoom  BY <1>2, <1>9 DEF HalvesFit, LeafFits
  <2>3. lo.next \in 0..n /\ hi.next \in 0..n  BY <1>1, <1>3, <1>9
  <2>4. NodeOK(lo, n) /\ NodeOK(hi, n)  BY <2>1, <2>2, <2>3 DEF NodeOK
  <2>5. \A p \in Pages : NodeOK(page[p], n)  BY <1>3, <1>4, NodeLater
  <2>6. \A p \in Pages : NodeOK(page'[p], n)  BY <2>4, <2>5, <1>10
  <2>7. wasted' \subseteq 1..n  BY <1>2, <1>3, <1>4
  <2>8. map' \in [Keys -> Values \cup {Absent}]  BY <1>1, <1>2, <1>4, <1>d
  <2> QED  BY <1>2, <1>3, <1>10, <2>6, <2>7, <2>8 DEF Typed
<1>19. Leads(h, q, 0)'
  <2>1. \A i \in 0..h, k \in Keys :
          q[i][k] = IF i = 0 /\ k >= s /\ r[i][k] = r[i][s] THEN n ELSE r[i][k]
    BY <1>8, <1>14
  <2>2. LeadsBut(h, q, 0, s, n)'
    <3> SUFFICES ASSUME NEW i \in 0..h, NEW k \in Keys
                 PROVE  q[i][k] = IF i = 0 /\ k >= s /\ Led(h, q, i, k)' = Led(h, q, i, s)' THEN n ELSE Led(h, q, i, k)'
      BY DEF LeadsBut
    <3>1. Led(h, q, i, k)' = r[i][k] /\ Led(h, q, i, s)' = r[i][s]  BY <1>8, <1>17
    <3>2. q[i][k] = IF i = 0 /\ k >= s /\ r[i][k] = r[i][s] THEN n ELSE r[i][k]  BY <2>1
    <3> QED  BY ONLY <3>1, <3>2
  <2> QED  BY ONLY <2>2, <1>12 DEF Leads
<1>20. Flight(h, q, 0)'
  <2>1. /\ path' \in Seq(Nat) /\ Len(path') = h
        /\ \A j \in 1..h : path'[j] = r[h + 1 - j][c.key]
    BY <1>1, <1>2, FoundLeaf
  <2>2. \A j \in 1..h : path'[j] = q[h + 1 - j][s]
    <3> TAKE j \in 1..h
    <3> DEFINE i == h + 1 - j
    <3>1. i \in 1..h /\ i \in 0..h /\ 0 \in 0..h  BY <1>3
    <3> HIDE DEF i
    <3>2. r[0][c.key] = r[0][s]  BY <1>8, <1>a
    <3>3. r[i][c.key] = r[i][s]  BY <1>1, <1>8, <1>13, <3>1, <3>2, CoarseUp
    <3>4. q[i][s] = r[i][s]  BY <3>1, <1>8, <1>16
    <3> QED  BY <3>3, <3>4, <2>1 DEF i
  <2>3. Led(h, q, 0, s)' = l /\ l # n
    <3>1. 0 \in 0..h  BY <1>3
    <3> QED  BY <3>1, <1>3, <1>8, <1>17
  <2>4. \E k \in Keys : q[0][k] = l /\ k < s /\ (0 < h => q[1][k] = q[1][s])
    <3>1. PICK k \in Keys : r[0][k] = l /\ k < s  BY <1>8
    <3>2. ~(k >= s) /\ 0 \in 0..h  BY <3>1, <1>3, <1>8, TreeAssumption
    <3>3. q[0][k] = l  BY <3>1, <3>2, <1>14
    <3>4. 0 < h => q[1][k] = q[1][s]
      <4> SUFFICES ASSUME 0 < h  PROVE q[1][k] = q[1][s]  OBVIOUS
      <4>1. 0 \in 0..(h - 1) /\ 0 + 1 = 1 /\ 1 \in 1..h  BY <1>3
      <4>2. r[0][k] = r[0][s]  BY <3>1, <1>8
      <4>3. r[1][k] = r[1][s]  BY <4>1, <4>2, <1>8, <1>13 DEF Routing, Coarse
      <4> QED  BY <4>1, <4>3, <1>8, <1>16
    <3> QED  BY <3>1, <3>3, <3>4
  <2>5. 0 < h => \A j \in 0..Len(page'[q[0 + 1][s]].entries) : Child(page'[q[0 + 1][s]], j) # n
    <3> SUFFICES ASSUME 0 < h  PROVE \A j \in 0..Len(page'[q[0 + 1][s]].entries) : Child(page'[q[0 + 1][s]], j) # n
      OBVIOUS
    <3>1. 1 \in 1..h /\ 1 \in 0..h /\ 0 + 1 = 1  BY <1>3
    <3>2. q[1][s] = r[1][s] /\ page'[q[1][s]] = page[r[1][s]]  BY <3>1, <1>8, <1>16
    <3>3. page[r[1][s]] \in Inners /\ r[1][s] \in Pages  BY <3>1, <1>8, OnTheWay
    <3>4. \A j \in 0..Len(page[r[1][s]].entries) : Child(page[r[1][s]], j) \in 1..count  BY <3>3, <1>4 DEF NodeOK
    <3>5. n \notin 1..count  BY <1>3
    <3> QED  BY <3>1, <3>2, <3>4, <3>5
  <2>6. count' + Len(path') + 1 <= MaxPages /\ n \in 1..count' /\ 0 \in -1..h /\ Len(path') = h - 0
    BY <2>1, <1>2, <1>3
  <2>7. 0 # -1 /\ h - 0 = h /\ 0 + 1 = 1  BY <1>3
  <2>8. Pending(h, q, 0, s, n)'
    BY ONLY <2>1, <2>2, <2>3, <2>4, <2>5, <2>6, <2>7 DEF Pending
  <2>9. carry' = <<carry'[1]>> /\ carry'[1] \in Seps /\ carry'[1].child \in 1..count'
    BY <2>6, <1>12
  <2> QED  BY ONLY <2>6, <2>7, <2>8, <2>9, <1>12 DEF Flight
<1>21. LeavesOK(q)'
  <2> DEFINE New(x) == {y \in Keys : q[0][y] = q[0][x]}
  <2>0. 0 \in 0..h /\ \A k \in Keys : q[0][k] = IF r[0][k] = l /\ k >= s THEN n ELSE r[0][k]
    <3>1. 0 \in 0..h  BY <1>3
    <3> QED  BY <3>1, <1>14
  <2>1. \A x \in Keys : r[0][x] # n /\ r[0][x] \in Pages  BY <1>1, <1>3, <2>0, LeafApart
  <2>2. Keys \subseteq Int  BY TreeAssumption
  <2>3. ASSUME NEW x \in Keys, q[0][x] = n  PROVE LeafOK(page'[q[0][x]], m, New(x))
    <3>1. \A y \in Keys : q[0][y] = n <=> r[0][y] = l /\ y >= s  BY <2>0, <2>1
    <3>2. New(x) = {k \in Mine : k >= s}  BY <3>1, <2>3
    <3>3. page'[n] = hi  BY <1>3, <1>10
    <3> HIDE DEF New, Mine
    <3> QED  BY <2>3, <3>2, <3>3, <1>11
  <2>4. ASSUME NEW x \in Keys, q[0][x] = l  PROVE LeafOK(page'[q[0][x]], m, New(x))
    <3>1. \A y \in Keys : q[0][y] = l <=> r[0][y] = l /\ ~(y >= s)  BY <2>0, <1>3
    <3>2. \A y \in Keys : y < s <=> ~(y >= s)  BY <2>2, <1>8
    <3>3. New(x) = {k \in Mine : k < s}  BY <3>1, <3>2, <2>4
    <3>4. page'[l] = lo  BY <1>1, <1>10
    <3> HIDE DEF New, Mine
    <3> QED  BY <2>4, <3>3, <3>4, <1>11
  <2>5. ASSUME NEW x \in Keys, q[0][x] # n, q[0][x] # l  PROVE LeafOK(page'[q[0][x]], m, New(x))
    <3>1. q[0][x] = r[0][x] /\ r[0][x] # l  BY <2>0, <2>5
    <3>2. \A y \in Keys : q[0][y] = r[0][x] <=> r[0][y] = r[0][x]
      <4> QED  BY <2>0, <2>1, <3>1
    <3>3. New(x) = {y \in Keys : r[0][y] = r[0][x]}  BY <3>1, <3>2
    <3>4. page'[r[0][x]] = page[r[0][x]]  BY <2>1, <3>1, <1>10
    <3>5. LeafOK(page[r[0][x]], map, {y \in Keys : r[0][y] = r[0][x]})  BY DEF Good, LeavesOK
    <3>6. c.key \notin New(x)  BY <3>1, <3>3, <1>a
    <3>7. \A y \in New(x) : m[y] = map[y]  BY <3>6, <1>4, <1>d
    <3>8. LeafOK(page[r[0][x]], map, New(x))  BY <3>3, <3>5
    <3> HIDE DEF New
    <3>9. LeafOK(page[r[0][x]], m, New(x))  BY ONLY <3>7, <3>8 DEF LeafOK
    <3> QED  BY <3>1, <3>4, <3>9
  <2> HIDE DEF New
  <2>6. \A x \in Keys : LeafOK(page'[q[0][x]], map', New(x))  BY <2>3, <2>4, <2>5, <1>2
  <2> QED  BY <2>6 DEF LeavesOK, New
<1>22. InnersOK(h, q)'
  <2>1. \A i \in 1..h, x \in Keys :
          InnerOK(page[r[i][x]], {y \in Keys : r[i][y] = r[i][x]})
    BY DEF Good, InnersOK
  <2>2. \A i \in 1..h, x \in Keys : page'[q[i][x]] = page[r[i][x]] /\ {y \in Keys : q[i][y] = q[i][x]} = {y \in Keys : r[i][y] = r[i][x]}
    BY <1>16
  <2>3. \A i \in 1..h, x \in Keys :
          InnerOK(page'[q[i][x]], {y \in Keys : q[i][y] = q[i][x]})
    BY <2>1, <2>2
  <2> QED  BY <2>3 DEF InnersOK
<1>23. \E ms : Chain(q, ms)'
  <2>1. InLine(r[0], ls) /\ Linked(page, ls) /\ Len(ls) <= count /\ Len(ls) \in Nat  BY DEF Good, Chain, InLine
  <2>2. PICK b \in 1..Len(ls) : ls[b] = l  BY <2>1, <1>1, <1>a DEF InLine
  <2>3. \A k \in Keys : r[0][k] # n /\ r[0][k] \in Pages
    <3>1. 0 \in 0..h  BY <1>3
    <3> QED  BY <3>1, <1>1, <1>3, LeafApart
  <2>4. \A k \in Keys : q[0][k] = IF r[0][k] = ls[b] /\ k >= s THEN n ELSE r[0][k]
    <3>1. 0 \in 0..h  BY <1>3
    <3> QED  BY <3>1, <2>2, <1>14
  <2>5. r[0][s] = ls[b] /\ s \in Keys /\ n \in Pages /\ \E k \in Keys : r[0][k] = ls[b] /\ k < s  BY <2>2, <1>3, <1>8
  <2>6. page'[ls[b]].next = n /\ page'[n].next = page[ls[b]].next
    <3>1. page'[l] = lo /\ page'[n] = hi  BY <1>1, <1>3, <1>10
    <3> QED  BY <3>1, <2>2, <1>9
  <2>7. \A k \in Keys : r[0][k] # ls[b] => page'[r[0][k]] = page[r[0][k]]  BY <2>2, <2>3, <1>10
  <2>c. PICK ms : ms = InsertAt(ls, b + 1, n)  OBVIOUS
  <2> DEFINE row == r[0]
             new == q[0]
             pages == page'
  <2> HIDE DEF row, new, pages
  <2>8. InLine(new, ms)
    <3>1. InLine(row, ls) /\ (\A k \in Keys : row[k] # n) /\ row[s] = ls[b] /\ (\E k \in Keys : row[k] = ls[b] /\ k < s)
      BY <2>1, <2>3, <2>5 DEF row
    <3>2. \A k \in Keys : new[k] = IF row[k] = ls[b] /\ k >= s THEN n ELSE row[k]  BY <2>4 DEF row, new
    <3>3. b \in 1..Len(ls) /\ n \in Pages /\ s \in Keys  BY <2>5
    <3> QED  BY ONLY <3>1, <3>2, <3>3, <2>c, LineSplit
  <2>9. Linked(pages, ms)
    <3>1. InLine(row, ls) /\ (\A k \in Keys : row[k] # n) /\ Linked(page, ls)  BY <2>1, <2>3 DEF row
    <3>2. pages[ls[b]].next = n /\ pages[n].next = page[ls[b]].next  BY <2>6 DEF pages
    <3>3. \A k \in Keys : row[k] # ls[b] => pages[row[k]] = page[row[k]]  BY <2>7 DEF row, pages
    <3>4. b \in 1..Len(ls) /\ n \in Pages  BY <2>5
    <3> QED  BY ONLY <3>1, <3>2, <3>3, <3>4, <2>c, LinkSplit
  <2>10. Len(ms) <= count'
    <3>1. Behind(ls, b, n, ms)  BY <2>1, <2>5, <2>c, BehindIs DEF InLine
    <3>2. Len(ms) = Len(ls) + 1  BY <3>1 DEF Behind
    <3>3. count' = count + 1 /\ count \in Nat  BY <1>2, <1>3
    <3> QED  BY ONLY <3>2, <3>3, <2>1
  <2>11. Chain(q, ms)'  BY ONLY <2>8, <2>9, <2>10 DEF Chain, new, pages
  <2> QED  BY <2>11
<1>24. (h < count)' /\ Routing(h, q, (1..count) \ wasted)'
  <2>1. h < count  BY DEF Good
  <2>2. (1..count') \ wasted' = ((1..count) \ wasted) \cup {n}  BY <1>2, <1>3, <1>4
  <2>3. h < count'  BY <2>1, <1>2, <1>3
  <2> QED  BY <2>2, <2>3, <1>15
<1> QED  BY <1>18, <1>19, <1>20, <1>21, <1>22, <1>23, <1>24 DEF Good

-----------------------------------------------------------------------------
(* Climbing: the parent takes a separator, splits, or is the root.         *)

\* A step above the leaves leaves them alone.
LEMMA LeavesKept ==
  ASSUME NEW h, NEW r, NEW f, NEW ls, Good(h, r, f, ls), NEW q,
         \A k \in Keys : q[0][k] = r[0][k] /\ page'[r[0][k]] = page[r[0][k]],
         map' = map, count' >= count, count' \in Nat
  PROVE  LeavesOK(q)' /\ Chain(q, ls)'
<1>1. LeavesOK(r) /\ Chain(r, ls) /\ count \in Nat
  <2>1. LeavesOK(r) /\ Chain(r, ls) /\ count \in Pages  BY DEF Good, Typed
  <2> QED  BY <2>1, TreeAssumption DEF Pages
<1>2. LeavesOK(q)'
  <2>1. \A k \in Keys : {l \in Keys : q[0][l] = q[0][k]} = {l \in Keys : r[0][l] = r[0][k]}  OBVIOUS
  <2>2. \A k \in Keys : LeafOK(page[r[0][k]], map, {l \in Keys : r[0][l] = r[0][k]})  BY <1>1 DEF LeavesOK
  <2>3. \A k \in Keys : LeafOK(page'[q[0][k]], map', {l \in Keys : q[0][l] = q[0][k]})  BY <2>1, <2>2
  <2> QED  BY <2>3 DEF LeavesOK
<1>3. InLine(r[0], ls) /\ Linked(page, ls) /\ Len(ls) <= count  BY <1>1 DEF Chain
<1>4. Len(ls) \in Nat /\ ls \in Seq(Pages)  BY <1>3 DEF InLine
<1>5. InLine(q[0], ls)
  <2> DEFINE row == r[0]
             new == q[0]
  <2>1. \A k \in Keys : new[k] = row[k]  OBVIOUS
  <2>2. InLine(row, ls)  BY <1>3
  <2> HIDE DEF row, new
  <2>3. InLine(new, ls)  BY ONLY <2>1, <2>2 DEF InLine, Sorted
  <2> QED  BY <2>3 DEF new
<1>6. Linked(page', ls)
  <2>1. \A a \in 1..Len(ls) : page'[ls[a]] = page[ls[a]]  BY <1>3 DEF InLine
  <2> QED  BY <2>1, <1>3 DEF Linked
<1>7. Len(ls) <= count'  BY <1>1, <1>3, <1>4
<1> QED  BY <1>2, <1>5, <1>6, <1>7 DEF Chain

\* The node m that a parent x on level f + 1 becomes with the promoted separator
\* leads to every page below it, the new one included.
Joined(h, r, f, x, m) ==
  /\ h \in Nat /\ f \in 0..h /\ f + 1 \in 1..h
  /\ x = Last(path) /\ x \in 1..count /\ page[x] \in Inners
  /\ \E k \in Keys : x = r[f + 1][k]
  /\ m = [page[x] EXCEPT !.entries = WithSep] /\ m.entries = WithSep /\ m.first = page[x].first
  /\ InnerOK(m, {y \in Keys : r[f + 1][y] = x})
  /\ Len(m.entries) \in 1..(MaxEntries + 1)
  /\ \A j \in 0..Len(m.entries) : Child(m, j) \in 1..count
  /\ \A i \in 0..h, k \in Keys :
       r[i][k] = IF i = f /\ r[f + 1][k] = x THEN PickChild(m, k) ELSE Led(h, r, i, k)

\* An internal node with other separators.
LEMMA InnerWith ==
  ASSUME NEW n \in Inners, NEW s \in SepSeqs
  PROVE  [n EXCEPT !.entries = s] = Internal(n.first, s)
  BY DEF Inners, Internal

\* What the frame of put_recursive for a parent has.
LEMMA OnTop ==
  ASSUME NEW h, NEW r, NEW f, NEW ls, Good(h, r, f, ls), Promoting
  PROVE  /\ h \in Nat /\ f \in 0..h /\ f + 1 \in 1..h /\ f # -1 /\ f < h
         /\ Last(path) = r[f + 1][carry[1].key]
         /\ path \in Seq(Nat) /\ Len(path) = h - f /\ Len(path) >= 1
<1>1. h \in Nat /\ f \in -1..h  BY DEF Good, Routing, Flight
<1>2. f # -1  BY DEF Good, Flight, Promoting
<1>3. /\ path \in Seq(Nat) /\ Len(path) = h - f
      /\ \A j \in 1..(h - f) : path[j] = r[h + 1 - j][carry[1].key]
  BY <1>2 DEF Good, Flight, Pending
<1>4. path # <<>>  BY DEF Promoting
<1>5. Len(path) >= 1 /\ Len(path) \in Nat  BY <1>3, <1>4
<1>6. Len(path) \in 1..(h - f) /\ h + 1 - Len(path) = f + 1  BY <1>1, <1>3, <1>5
<1>7. Last(path) = path[Len(path)]  BY DEF Last
<1>8. Last(path) = r[f + 1][carry[1].key]  BY <1>3, <1>6, <1>7
<1>9. f \in 0..h /\ f + 1 \in 1..h /\ f < h  BY <1>1, <1>2, <1>3, <1>5
<1> QED  BY <1>1, <1>2, <1>3, <1>5, <1>8, <1>9

\* The parent of a page that was split takes the separator.
LEMMA ParentJoins ==
  ASSUME NEW h, NEW r, NEW f, NEW ls, Good(h, r, f, ls), Promoting, ~Has(Parent.entries, carry[1].key),
         NEW x, x = Last(path), NEW m, m = [page[x] EXCEPT !.entries = WithSep]
  PROVE  Joined(h, r, f, x, m)
<1>a. PICK e : e = carry[1]  OBVIOUS
<1>b. PICK s : s = e.key  OBVIOUS
<1>c. PICK n : n = e.child  OBVIOUS
<1>d. PICK o : o = page[x]  OBVIOUS
<1>1. /\ h \in Nat /\ f \in 0..h /\ f + 1 \in 1..h /\ f # -1 /\ f < h
      /\ x = r[f + 1][s]
  BY <1>a, <1>b, OnTop
<1>2. e \in Seps /\ s \in Keys /\ s \in Int /\ n \in 1..count /\ Pending(h, r, f, s, n)
  <2>1. carry[1] \in Seps /\ carry[1].child \in 1..count /\ Pending(h, r, f, carry[1].key, carry[1].child)
    BY <1>1 DEF Good, Flight
  <2> QED  BY <2>1, <1>a, <1>b, <1>c, SepFields
<1> DEFINE Mine == {y \in Keys : r[f + 1][y] = x}
<1>3. o \in Inners /\ Ascending(o.entries) /\ Distinct(o) /\ InnerOK(o, Mine)
  <2>1. InnersOK(h, r)  BY DEF Good
  <2>2. InnerOK(o, Mine)  BY <2>1, <1>1, <1>2, <1>d DEF InnersOK
  <2> HIDE DEF Mine
  <2> QED  BY <2>2 DEF InnerOK
<1>4. x \in 1..count /\ x \in Pages  BY <1>1, <1>2, OnTheWay
<1>5. NodeOK(o, count)  BY <1>4, <1>d DEF Good, Typed
<1>6. /\ Len(o.entries) <= MaxEntries /\ Len(o.entries) \in Nat
      /\ \A j \in 0..Len(o.entries) : Child(o, j) \in 1..count
  BY <1>3, <1>5, InnerType DEF NodeOK
<1>7. Parent = o /\ WithSep = InsertAt(o.entries, Below(o.entries, e.key) + 1, e) /\ ~Has(o.entries, e.key)
  BY <1>a, <1>d DEF Parent, WithSep
<1>8. \A j \in 0..Len(o.entries) : Child(o, j) # e.child
  BY <1>1, <1>2, <1>c, <1>d DEF Pending
<1>9. WithSep \in SepSeqs
  <2>1. o.entries \in Seq(Seps) /\ Len(o.entries) \in Nat  BY <1>3, InnerType DEF SepSeqs
  <2>2. Below(o.entries, e.key) \in 0..Len(o.entries)
    <3>1. Seps \subseteq Keyed  BY DEF Keyed, Seps
    <3>2. o.entries \in Seq(Keyed)  BY <2>1, <3>1, SeqWiden
    <3> QED  BY <3>2, <1>2, <1>3, <1>b, BelowAt
  <2>3. Below(o.entries, e.key) + 1 \in 1..(Len(o.entries) + 1)  BY <2>1, <2>2
  <2> QED  BY <2>1, <2>3, <1>2, <1>7, InsertAtIs DEF SepSeqs
<1>10. m = Internal(o.first, WithSep)  BY <1>3, <1>9, <1>d, InnerWith
<1>11. /\ m \in Inners /\ Ascending(m.entries) /\ Distinct(m)
       /\ Len(m.entries) = Len(o.entries) + 1
       /\ \A j \in 1..Len(m.entries) : m.entries[j] = e \/ \E i \in 1..Len(o.entries) : m.entries[j] = o.entries[i]
       /\ \A j \in 0..Len(m.entries) : Child(m, j) = e.child \/ \E i \in 0..Len(o.entries) : Child(m, j) = Child(o, i)
       /\ \A k \in Keys : PickChild(m, k) = IF k >= e.key /\ PickChild(o, k) = PickChild(o, e.key)
                                            THEN e.child ELSE PickChild(o, k)
  <2>1. m = Internal(o.first, InsertAt(o.entries, Below(o.entries, e.key) + 1, e))  BY <1>7, <1>10
  <2> QED  BY ONLY <2>1, <1>2, <1>3, <1>7, <1>8, InsertedNode
<1>12. m.entries = WithSep /\ m.first = o.first  BY <1>10 DEF Internal
<1>13. InnerOK(m, Mine)
  <2>1. s \in Mine  BY <1>1, <1>2
  <2>2. \A i \in 1..Len(o.entries) : o.entries[i].key \in Mine  BY <1>3 DEF InnerOK
  <2>3. \A j \in 1..Len(m.entries) : m.entries[j].key \in Mine  BY <2>1, <2>2, <1>11, <1>b
  <2>4. PICK k0 \in Mine : \A j \in 1..Len(o.entries) : k0 < o.entries[j].key  BY <1>3 DEF InnerOK
  <2>5. PICK k1 \in Keys : k1 < s /\ r[f + 1][k1] = r[f + 1][s]  BY <1>1, <1>2 DEF Pending
  <2>6. k1 \in Mine  BY <2>5, <1>1
  <2>7. \A i \in 1..Len(o.entries) : o.entries[i].key \in Int  BY <1>3, InnerType
  <2>8. k0 \in Int /\ k1 \in Int /\ s \in Int  BY <2>6, <1>2, TreeAssumption
  <2> HIDE DEF Mine
  <2>9. \E k \in Mine : k < s /\ \A i \in 1..Len(o.entries) : k < o.entries[i].key
    <3>1. CASE k0 < s  BY <3>1, <2>4
    <3>2. CASE ~(k0 < s)
      <4>1. k1 < k0  BY <3>2, <2>5, <2>8
      <4>2. \A i \in 1..Len(o.entries) : k1 < o.entries[i].key  BY <4>1, <2>4, <2>7, <2>8
      <4> QED  BY <4>2, <2>5, <2>6
    <3> QED  BY <3>1, <3>2
  <2>10. \E k \in Mine : \A j \in 1..Len(m.entries) : k < m.entries[j].key  BY <2>9, <1>11, <1>b
  <2> QED  BY <2>3, <2>10, <1>11 DEF InnerOK
<1>14. \A j \in 0..Len(m.entries) : Child(m, j) \in 1..count  BY <1>2, <1>6, <1>11, <1>c
<1>15. Len(m.entries) \in 1..(MaxEntries + 1)  BY <1>6, <1>11, TreeAssumption
<1>16. ASSUME NEW i \in 0..h, NEW k \in Keys
       PROVE  r[i][k] = IF i = f /\ r[f + 1][k] = x THEN PickChild(m, k) ELSE Led(h, r, i, k)
  <2>1. \A l \in Keys :
          r[i][l] = IF i = f /\ l >= s /\ Led(h, r, i, l) = Led(h, r, i, s) THEN n ELSE Led(h, r, i, l)
    <3>1. LeadsBut(h, r, f, s, n)  BY <1>a, <1>b, <1>c DEF Good, Leads
    <3> QED  BY <3>1 DEF LeadsBut
  <2>2. CASE i # f  BY <2>1, <2>2
  <2>3. CASE i = f /\ r[f + 1][k] = x
    <3>1. Led(h, r, f, k) = PickChild(o, k) /\ Led(h, r, f, s) = PickChild(o, s)
      BY <1>1, <1>d, <2>3 DEF Led
    <3>2. r[f][k] = IF k >= s /\ PickChild(o, k) = PickChild(o, s) THEN n ELSE PickChild(o, k)  BY <2>1, <2>3, <3>1
    <3>3. r[f][k] = PickChild(m, k)  BY <3>2, <1>11, <1>b, <1>c
    <3> QED  BY <3>3, <2>3
  <2>4. CASE i = f /\ r[f + 1][k] # x
    <3>1. s >= s  BY <1>2
    <3>2. r[f][s] = n  BY <2>1, <2>4, <3>1, <1>2
    <3>3. r[f][k] = r[f][s] => r[f + 1][k] = r[f + 1][s]
      <4>1. f \in 0..(h - 1)  BY <1>1
      <4> QED  BY <4>1, <1>2 DEF Good, Routing, Coarse
    <3>4. r[f][k] # n  BY <3>2, <3>3, <2>4, <1>1
    <3>5. r[f][k] = Led(h, r, f, k)  BY <2>1, <2>4, <3>4
    <3> QED  BY <3>5, <2>4
  <2> QED  BY <2>2, <2>3, <2>4
<1>17. \E k \in Keys : x = r[f + 1][k]  BY <1>1, <1>2
<1> QED  BY <1>1, <1>3, <1>4, <1>12, <1>13, <1>14, <1>15, <1>16, <1>17, <1>d DEF Joined

\* What a step that changes a page above the leaves has to know of it.
LEMMA LevelApart ==
  ASSUME NEW h, NEW r, NEW f, NEW ls, Good(h, r, f, ls), NEW g \in 0..h, NEW x, \E k \in Keys : x = r[g][k]
  PROVE  /\ \A i \in 0..h, k \in Keys : i # g => r[i][k] # x
         /\ \A i \in 0..h, k \in Keys : r[i][k] \in 1..count /\ r[i][k] \in Pages /\ r[i][k] # count + 1
         /\ count \in Pages /\ count \in Nat
<1>1. Apart(h, r) /\ count \in Pages /\ \A i \in 0..h, k \in Keys : r[i][k] \in 1..count
  BY DEF Good, Routing, Typed
<1>2. count \in Nat /\ \A p \in 1..count : p \in Pages /\ p # count + 1  BY <1>1, TreeAssumption DEF Pages
<1>3. \A i \in 0..h, k \in Keys : i # g => r[i][k] # x  BY <1>1 DEF Apart
<1> QED  BY <1>1, <1>2, <1>3

\* The parent has room for the separator, and the put is done.
LEMMA InternalWritten ==
  ASSUME NEW h, NEW r, NEW f, NEW ls, Good(h, r, f, ls), InternalWrite
  PROVE  Good(h, r, -1, ls)'
<1>a. PICK x : x = Last(path)  OBVIOUS
<1>b. PICK m : m = [page[x] EXCEPT !.entries = WithSep]  OBVIOUS
<1>1. Joined(h, r, f, x, m)  BY <1>a, <1>b, ParentJoins DEF InternalWrite
<1> DEFINE Mine == {y \in Keys : r[f + 1][y] = x}
<1>2. /\ h \in Nat /\ f \in 0..h /\ f + 1 \in 1..h /\ x \in 1..count
      /\ \E k \in Keys : x = r[f + 1][k]
      /\ m.entries = WithSep /\ InnerOK(m, Mine)
      /\ \A j \in 0..Len(m.entries) : Child(m, j) \in 1..count
      /\ \A i \in 0..h, k \in Keys :
           r[i][k] = IF i = f /\ r[f + 1][k] = x THEN PickChild(m, k) ELSE Led(h, r, i, k)
  BY <1>1 DEF Joined
<1>3. /\ page' = [page EXCEPT ![x] = m] /\ count' = count /\ map' = map /\ wasted' = wasted
      /\ path' = <<>> /\ carry' = <<>> /\ Len(WithSep) <= MaxEntries
  BY <1>a, <1>b DEF InternalWrite
<1>4. /\ page \in [Pages -> Nodes] /\ (\A p \in Pages : NodeOK(page[p], count)) /\ wasted \subseteq 1..count
      /\ map \in [Keys -> Values \cup {Absent}]
  BY DEF Good, Typed
<1>5. /\ \A i \in 0..h, k \in Keys : i # f + 1 => r[i][k] # x
      /\ \A i \in 0..h, k \in Keys : r[i][k] \in 1..count /\ r[i][k] \in Pages /\ r[i][k] # count + 1
      /\ count \in Pages /\ count \in Nat /\ f + 1 \in 0..h
  <2>1. f + 1 \in 0..h  BY <1>2
  <2>2. Good(h, r, f, ls) /\ \E k \in Keys : x = r[f + 1][k]  BY <1>2
  <2> QED  BY ONLY <2>1, <2>2, LevelApart
<1>6. m \in Inners  BY <1>2 DEF InnerOK
<1>7. /\ page' \in [Pages -> Nodes]
      /\ \A p \in Pages : page'[p] = IF p = x THEN m ELSE page[p]
  <2>1. m \in Nodes  BY <1>6 DEF Nodes
  <2> QED  BY <2>1, <1>3, <1>4
<1>8. Typed'
  <2>1. m \notin Leafs
    <3>1. m \in Nodes  BY <1>6 DEF Nodes
    <3> QED  BY <3>1, <1>6, NodeKinds
  <2>2. NodeOK(m, count)  BY <2>1, <1>2, <1>3 DEF NodeOK
  <2>3. \A p \in Pages : NodeOK(page'[p], count)  BY <2>2, <1>4, <1>7
  <2> QED  BY <2>3, <1>3, <1>4, <1>5, <1>7 DEF Typed
<1>9. ASSUME NEW i \in 0..h, NEW k \in Keys
      PROVE  r[i][k] = Led(h, r, i, k)'
  <2>1. CASE i = h
    <3>1. i # f  BY <2>1, <1>2
    <3> QED  BY <2>1, <3>1, <1>2 DEF Led
  <2>2. CASE i # h
    <3>1. i + 1 \in 0..h  BY <2>2, <1>2
    <3>2. Led(h, r, i, k) = PickChild(page[r[i + 1][k]], k) /\ Led(h, r, i, k)' = PickChild(page'[r[i + 1][k]], k)
      BY <2>2 DEF Led, PickChild
    <3>3. page'[r[i + 1][k]] = IF r[i + 1][k] = x THEN m ELSE page[r[i + 1][k]]  BY <3>1, <1>5, <1>7
    <3>4. i # f => r[i + 1][k] # x
      <4>1. i # f => i + 1 # f + 1  BY <1>2
      <4> QED  BY <4>1, <3>1, <1>5
    <3>5. r[i][k] = IF i = f /\ r[i + 1][k] = x THEN PickChild(m, k) ELSE Led(h, r, i, k)  BY <1>2
    <3> QED  BY ONLY <3>2, <3>3, <3>4, <3>5
  <2> QED  BY <2>1, <2>2
<1>10. Leads(h, r, -1)'
  <2>1. \A i \in 0..h : i # -1  BY <1>2
  <2> QED  BY <2>1, <1>9 DEF Leads, LeadsBut
<1>11. Flight(h, r, -1)'
  <2>1. -1 \in -1..h  BY <1>2
  <2> QED  BY <2>1, <1>3 DEF Flight
<1>12. LeavesOK(r)' /\ Chain(r, ls)'
  <2>1. \A k \in Keys : r[0][k] = r[0][k] /\ page'[r[0][k]] = page[r[0][k]]
    <3>1. 0 \in 0..h /\ 0 # f + 1  BY <1>2
    <3> QED  BY <3>1, <1>5, <1>7
  <2>2. map' = map /\ count' >= count /\ count' \in Nat  BY <1>3, <1>5
  <2> QED  BY <2>1, <2>2, LeavesKept
<1>13. InnersOK(h, r)'
  <2> SUFFICES ASSUME NEW i \in 1..h, NEW k \in Keys
               PROVE  InnerOK(page'[r[i][k]], {l \in Keys : r[i][l] = r[i][k]})
    BY DEF InnersOK
  <2>1. i \in 0..h  BY <1>2
  <2>2. InnerOK(page[r[i][k]], {l \in Keys : r[i][l] = r[i][k]})  BY DEF Good, InnersOK
  <2>3. CASE r[i][k] = x
    <3>1. i = f + 1  BY <2>1, <2>3, <1>5
    <3>2. page'[r[i][k]] = m  BY <2>1, <2>3, <1>5, <1>7
    <3>3. {l \in Keys : r[i][l] = r[i][k]} = Mine  BY <2>3, <3>1
    <3> QED  BY <3>2, <3>3, <1>2
  <2>4. CASE r[i][k] # x
    <3>1. page'[r[i][k]] = page[r[i][k]]  BY <2>1, <2>4, <1>5, <1>7
    <3> QED  BY <3>1, <2>2
  <2> QED  BY <2>3, <2>4
<1>14. (h < count)' /\ Routing(h, r, (1..count) \ wasted)'
  <2>1. h < count /\ Routing(h, r, (1..count) \ wasted)  BY DEF Good
  <2> QED  BY <2>1, <1>3
<1> QED  BY <1>8, <1>10, <1>11, <1>12, <1>13, <1>14 DEF Good

\* Keys on two sides of the split have different children.
LEMMA SplitApart ==
  ASSUME NEW n \in Inners, Distinct(n), NEW a, NEW l, NEW g, SplitOf(n, a, l, g),
         NEW s, s = n.entries[a + 1].key, NEW k \in Keys, k < s, NEW y \in Keys, ~(y < s)
  PROVE  PickChild(n, k) # PickChild(n, y)
<1>1. l \in Inners /\ g \in Inners /\ a \in Nat /\ Len(n.entries) \in Nat /\ a < Len(n.entries)
      /\ Len(l.entries) = a /\ Len(g.entries) = Len(n.entries) - a - 1
  BY InnerType DEF SplitOf
<1>2. PickChild(n, k) = PickChild(l, k) /\ PickChild(n, y) = PickChild(g, y)  BY DEF SplitOf
<1>3. PICK i \in 0..a : PickChild(l, k) = Child(l, i)  BY <1>1, PickedAt
<1>4. PICK j \in 0..(Len(n.entries) - a - 1) : PickChild(g, y) = Child(g, j)  BY <1>1, PickedAt
<1>5. PickChild(n, k) = Child(n, i)  BY <1>2, <1>3 DEF SplitOf
<1>6. PickChild(n, y) = Child(n, a + 1 + j)  BY <1>2, <1>4 DEF SplitOf
<1>7. i \in 0..Len(n.entries) /\ a + 1 + j \in 0..Len(n.entries) /\ i # a + 1 + j  BY <1>1
<1> DEFINE b == a + 1 + j
<1>8. Child(n, b) # Child(n, i)
  <2>1. b \in 0..Len(n.entries) /\ i # b  BY <1>7
  <2> HIDE DEF b
  <2> QED  BY <1>7, <2>1 DEF Distinct
<1> QED  BY <1>5, <1>6, <1>8

\* Each half of an internal node has separators among its own keys.
LEMMA SplitInner ==
  ASSUME NEW n, NEW mine, mine \subseteq Keys, InnerOK(n, mine), NEW a, NEW l, NEW g, SplitOf(n, a, l, g),
         NEW s, s = n.entries[a + 1].key
  PROVE  /\ s \in mine /\ \E k \in mine : k < s
         /\ InnerOK(l, {k \in mine : k < s}) /\ InnerOK(g, {k \in mine : k >= s})
<1>1. /\ l \in Inners /\ Ascending(l.entries) /\ Distinct(l)
      /\ g \in Inners /\ Ascending(g.entries) /\ Distinct(g)
      /\ a \in 0..(Len(n.entries) - 1)
      /\ Len(l.entries) = a /\ Len(g.entries) = Len(n.entries) - a - 1
      /\ \A j \in 1..a : l.entries[j] = n.entries[j] /\ n.entries[j].key < s
      /\ \A j \in 1..(Len(n.entries) - a - 1) : g.entries[j] = n.entries[a + 1 + j] /\ n.entries[a + 1 + j].key > s
  BY DEF SplitOf
<1>2. /\ n \in Inners /\ Len(n.entries) \in Nat
      /\ \A j \in 1..Len(n.entries) : n.entries[j].key \in mine /\ n.entries[j].key \in Int
  BY InnerType DEF InnerOK
<1>3. PICK k0 \in mine : \A j \in 1..Len(n.entries) : k0 < n.entries[j].key  BY DEF InnerOK
<1>4. a + 1 \in 1..Len(n.entries)  BY <1>1, <1>2
<1>5. s \in mine /\ s \in Int /\ k0 < s  BY <1>2, <1>3, <1>4
<1>6. \A j \in 1..a : j \in 1..Len(n.entries)  BY <1>1, <1>2
<1>7. \A j \in 1..(Len(n.entries) - a - 1) : a + 1 + j \in 1..Len(n.entries)  BY <1>1, <1>2
<1>8. InnerOK(l, {k \in mine : k < s})
  <2>1. \A j \in 1..a : l.entries[j].key \in mine /\ l.entries[j].key < s /\ k0 < l.entries[j].key
    BY <1>1, <1>2, <1>3, <1>6
  <2> QED  BY <1>1, <1>5, <2>1 DEF InnerOK
<1>9. InnerOK(g, {k \in mine : k >= s})
  <2>1. ASSUME NEW j \in 1..(Len(n.entries) - a - 1)
        PROVE  g.entries[j].key \in mine /\ g.entries[j].key >= s /\ s < g.entries[j].key
    <3>1. g.entries[j].key = n.entries[a + 1 + j].key /\ n.entries[a + 1 + j].key > s  BY <1>1
    <3>2. n.entries[a + 1 + j].key \in mine /\ n.entries[a + 1 + j].key \in Int  BY <1>2, <1>7
    <3> QED  BY ONLY <3>1, <3>2, <1>5
  <2>2. s \in {k \in mine : k >= s}  BY <1>5
  <2> QED  BY <1>1, <2>1, <2>2 DEF InnerOK
<1> QED  BY <1>3, <1>5, <1>8, <1>9

\* The parent splits in its turn: its upper separators go to the new page, but
\* for the first of them, which its own parent is to hear of.
LEMMA InternalSplitDone ==
  ASSUME NEW h, NEW r, NEW f, NEW ls, Good(h, r, f, ls), InternalSplit
  PROVE  \E q : Good(h, q, f + 1, ls)'
<1>a. PICK x : x = Last(path)  OBVIOUS
<1>b. PICK m : m = [page[x] EXCEPT !.entries = WithSep]  OBVIOUS
<1>c. PICK right : right = RightHalf(WithSep)  OBVIOUS
<1>d. PICK n : n = count + 1  OBVIOUS
<1>e. PICK lo : lo = [page[x] EXCEPT !.entries = LeftHalf(WithSep)]  OBVIOUS
<1>f. PICK hi : hi = Internal(right[1].child, Tail(right))  OBVIOUS
<1>g. PICK s : s = right[1].key  OBVIOUS
<1>1. Promoting /\ ~Has(Parent.entries, carry[1].key)  BY DEF InternalSplit
<1>2. Joined(h, r, f, x, m)  BY <1>1, <1>a, <1>b, ParentJoins
<1> DEFINE Mine == {y \in Keys : r[f + 1][y] = x}
<1>3. /\ h \in Nat /\ f \in 0..h /\ f + 1 \in 1..h /\ x \in 1..count /\ page[x] \in Inners
      /\ \E k \in Keys : x = r[f + 1][k]
      /\ m.entries = WithSep /\ m.first = page[x].first /\ InnerOK(m, Mine)
      /\ Len(m.entries) \in 1..(MaxEntries + 1)
      /\ \A j \in 0..Len(m.entries) : Child(m, j) \in 1..count
      /\ \A i \in 0..h, k \in Keys :
           r[i][k] = IF i = f /\ r[f + 1][k] = x THEN PickChild(m, k) ELSE Led(h, r, i, k)
  BY <1>2 DEF Joined
<1>5. /\ page \in [Pages -> Nodes] /\ (\A p \in Pages : NodeOK(page[p], count)) /\ wasted \subseteq 1..count
      /\ map \in [Keys -> Values \cup {Absent}]
  BY DEF Good, Typed
<1>6. /\ \A i \in 0..h, k \in Keys : i # f + 1 => r[i][k] # x
      /\ \A i \in 0..h, k \in Keys : r[i][k] \in 1..count /\ r[i][k] \in Pages /\ r[i][k] # n
      /\ count \in Pages /\ count \in Nat /\ f + 1 \in 0..h
  <2>1. f + 1 \in 0..h  BY <1>3
  <2>2. Good(h, r, f, ls) /\ \E k \in Keys : x = r[f + 1][k]  BY <1>3
  <2> QED  BY ONLY <2>1, <2>2, <1>d, LevelApart
<1>7. m \in Inners /\ Ascending(m.entries) /\ Distinct(m) /\ Len(m.entries) >= 1  BY <1>3 DEF InnerOK
<1>8. PICK a : SplitOf(m, a, lo, hi) /\ right[1] = m.entries[a + 1]
  <2>1. LeftHalf(m.entries) \in SepSeqs
    <3>1. m.entries \in Seq(Seps)  BY <1>7, InnerType DEF SepSeqs
    <3>2. PICK b : Halved(Seps, m.entries, b)  BY <1>7, <3>1, HalvesAre
    <3> QED  BY <3>2 DEF Halved, SepSeqs
  <2>2. lo = Internal(m.first, LeftHalf(m.entries))  BY <1>3, <1>e, <2>1, InnerWith
  <2>3. right = RightHalf(m.entries)  BY <1>3, <1>c
  <2> QED  BY ONLY <1>7, <2>2, <2>3, <1>f, SplitNode
<1>9. /\ s \in Mine /\ \E k \in Mine : k < s
      /\ InnerOK(lo, {k \in Mine : k < s}) /\ InnerOK(hi, {k \in Mine : k >= s})
  <2>1. Mine \subseteq Keys  OBVIOUS
  <2>2. s = m.entries[a + 1].key  BY <1>8, <1>g
  <2>3. InnerOK(m, Mine)  BY <1>3
  <2>4. SplitOf(m, a, lo, hi)  BY <1>8
  <2> HIDE DEF Mine
  <2>5. PICK mine : mine = Mine  OBVIOUS
  <2>6. mine \subseteq Keys /\ InnerOK(m, mine)  BY <2>1, <2>3, <2>5
  <2>7. /\ s \in mine /\ \E k \in mine : k < s
        /\ InnerOK(lo, {k \in mine : k < s}) /\ InnerOK(hi, {k \in mine : k >= s})
    BY ONLY <2>2, <2>4, <2>6, SplitInner
  <2> QED  BY ONLY <2>5, <2>7
<1>10. s \in Keys /\ s \in Int /\ r[f + 1][s] = x /\ \E k \in Keys : r[f + 1][k] = x /\ k < s
  BY <1>9, TreeAssumption
<1>11. lo \in Inners /\ hi \in Inners  BY <1>8 DEF SplitOf
<1>12. /\ path \in Seq(Nat) /\ Len(path) = h - f /\ Len(path) >= 1 /\ f # -1 /\ f < h
       /\ \E e \in Keys : r[f + 1][e] = x /\ \A j \in 1..(h - f) : path[j] = r[h + 1 - j][e]
       /\ count + Len(path) + 1 <= MaxPages
  <2>1. /\ path \in Seq(Nat) /\ Len(path) = h - f /\ Len(path) >= 1 /\ f # -1 /\ f < h
        /\ x = r[f + 1][carry[1].key]
    BY <1>1, <1>a, OnTop
  <2>2. carry[1].key \in Keys /\ Pending(h, r, f, carry[1].key, carry[1].child)
    BY <2>1, SepFields DEF Good, Flight
  <2> QED  BY <2>1, <2>2 DEF Pending
<1>13. n \in Pages /\ n \in Nat /\ n = count + 1 /\ n # x /\ x \in Pages
  <2>1. count \in Nat /\ MaxPages \in Nat /\ count + 1 + 1 <= MaxPages  BY <1>12, <1>6, TreeAssumption
  <2> QED  BY <2>1, <1>3, <1>6, <1>d DEF Pages
<1>4. /\ page' = [page EXCEPT ![n] = hi, ![x] = lo] /\ count' = n
      /\ map' = map /\ wasted' = wasted
      /\ path' = Front(path) /\ carry' = <<Sep(s, n)>>
  <2>1. /\ page' = [page EXCEPT ![n] = hi, ![x].entries = LeftHalf(WithSep)] /\ count' = n
        /\ map' = map /\ wasted' = wasted
        /\ path' = Front(path) /\ carry' = <<Sep(s, n)>>
    BY <1>a, <1>c, <1>d, <1>f, <1>g DEF InternalSplit
  <2>2. [page EXCEPT ![n] = hi][x] = page[x]  BY <1>13, <1>5
  <2>3. page' = [page EXCEPT ![n] = hi, ![x] = lo]  BY ONLY <2>1, <2>2, <1>e
  <2> QED  BY <2>1, <2>3
<1>14. /\ page' \in [Pages -> Nodes]
       /\ \A p \in Pages : page'[p] = IF p = x THEN lo ELSE IF p = n THEN hi ELSE page[p]
  <2>1. lo \in Nodes /\ hi \in Nodes  BY <1>11 DEF Nodes
  <2> QED  BY <2>1, <1>4, <1>5, <1>13
<1>15. Typed'
  <2>1. lo \notin Leafs /\ hi \notin Leafs
    <3>1. lo \in Nodes /\ hi \in Nodes  BY <1>11 DEF Nodes
    <3> QED  BY <3>1, <1>11, NodeKinds
  <2>2. /\ a \in 0..(Len(m.entries) - 1) /\ Len(m.entries) \in Nat /\ Len(m.entries) <= MaxEntries + 1
        /\ Len(lo.entries) = a /\ Len(hi.entries) = Len(m.entries) - a - 1 /\ MaxEntries \in Nat
    BY <1>3, <1>8, TreeAssumption DEF SplitOf
  <2>3. Len(lo.entries) <= MaxEntries /\ Len(hi.entries) <= MaxEntries  BY <2>2
  <2>4. \A j \in 0..Len(lo.entries) : Child(lo, j) \in 1..n
    <3> TAKE j \in 0..Len(lo.entries)
    <3>1. j \in 0..a /\ j \in 0..Len(m.entries)  BY <2>2
    <3>2. Child(lo, j) = Child(m, j)  BY <1>8, <3>1 DEF SplitOf
    <3> QED  BY <3>1, <3>2, <1>3, <1>13, <1>6
  <2>5. \A j \in 0..Len(hi.entries) : Child(hi, j) \in 1..n
    <3> TAKE j \in 0..Len(hi.entries)
    <3>1. j \in 0..(Len(m.entries) - a - 1) /\ a + 1 + j \in 0..Len(m.entries)  BY <2>2
    <3>2. Child(hi, j) = Child(m, a + 1 + j)  BY <1>8, <3>1 DEF SplitOf
    <3> QED  BY <3>1, <3>2, <1>3, <1>13, <1>6
  <2>6. NodeOK(lo, n) /\ NodeOK(hi, n)  BY <2>1, <2>3, <2>4, <2>5 DEF NodeOK
  <2>7. \A p \in Pages : NodeOK(page[p], n)  BY <1>5, <1>6, <1>13, NodeLater
  <2>8. \A p \in Pages : NodeOK(page'[p], n)  BY <2>6, <2>7, <1>14
  <2>9. wasted' \subseteq 1..n  BY <1>4, <1>5, <1>13, <1>6
  <2> QED  BY <2>8, <2>9, <1>4, <1>5, <1>13, <1>14 DEF Typed
<1>h. PICK q : q = Moved(r, f + 1, x, s, n)  OBVIOUS
<1>16. Routing(h, r, (1..count) \ wasted)  BY DEF Good
<1>17. /\ q \in [0..h -> [Keys -> Nat]]
       /\ \A j \in 0..h, k \in Keys : q[j][k] = IF j = f + 1 /\ r[f + 1][k] = x /\ k >= s THEN n ELSE r[j][k]
  <2> DEFINE g == f + 1
  <2>1. h \in Nat /\ r \in [0..h -> [Keys -> Nat]] /\ g \in 0..h /\ n \in Nat  BY <1>3, <1>6, <1>13, <1>16 DEF Routing
  <2>2. q = Moved(r, g, x, s, n)  BY <1>h
  <2> HIDE DEF g
  <2>3. IsMoved(h, r, g, x, s, n, q)  BY ONLY <2>1, <2>2, MovedIs
  <2>4. /\ q \in [0..h -> [Keys -> Nat]]
        /\ \A j \in 0..h, k \in Keys : q[j][k] = IF j = g /\ r[g][k] = x /\ k >= s THEN n ELSE r[j][k]
    BY ONLY <2>3 DEF IsMoved
  <2> QED  BY <2>4 DEF g
<1>18. \A k, y \in Keys : r[f + 1][k] = x /\ r[f][k] = r[f][y] /\ k < s => y < s
  <2> SUFFICES ASSUME NEW k \in Keys, NEW y \in Keys, r[f + 1][k] = x, r[f][k] = r[f][y], k < s, ~(y < s)
               PROVE  FALSE
    OBVIOUS
  <2>1. r[f + 1][y] = x
    <3>1. f \in 0..(h - 1)  BY <1>3
    <3> QED  BY <3>1, <1>16 DEF Routing, Coarse
  <2>2. r[f][k] = PickChild(m, k) /\ r[f][y] = PickChild(m, y)  BY <2>1, <1>3
  <2>3. s = m.entries[a + 1].key  BY <1>8, <1>g
  <2>4. PickChild(m, k) # PickChild(m, y)  BY <1>7, <1>8, <2>3, SplitApart
  <2> QED  BY <2>2, <2>4
<1>19. Routing(h, q, ((1..count) \ wasted) \cup {n})
  <2> DEFINE live == (1..count) \ wasted
             g == f + 1
  <2>1. /\ live \subseteq Nat /\ Routing(h, r, live) /\ g \in 0..h /\ s \in Keys /\ n \in Nat /\ n \notin live
        /\ x = r[g][s] /\ \E k \in Keys : r[g][k] = x /\ k < s
    <3>1. live \subseteq Nat /\ n \notin live /\ n \in Nat  BY <1>6, <1>13
    <3>2. Routing(h, r, live)  BY <1>16
    <3> HIDE DEF live
    <3>3. g \in 0..h /\ s \in Keys /\ x = r[g][s] /\ \E k \in Keys : r[g][k] = x /\ k < s  BY <1>6, <1>10
    <3> QED  BY ONLY <3>1, <3>2, <3>3
  <2>2. g - 1 = f  BY <1>3
  <2>3. g > 0 => \A k, l \in Keys : r[g][k] = x /\ r[g - 1][k] = r[g - 1][l] /\ k < s => l < s
    BY <1>18, <2>2
  <2>4. q = Moved(r, g, x, s, n)  BY <1>h
  <2> SUFFICES Routing(h, q, live \cup {n})  OBVIOUS
  <2> HIDE DEF live, g
  <2> QED  BY ONLY <2>1, <2>3, <2>4, MovedRouting
<1>20. ASSUME NEW i \in 0..h, NEW k \in Keys
       PROVE  Led(h, q, i, k)' = r[i][k]
  <2>1. CASE i = h
    <3>1. i # f  BY <2>1, <1>3
    <3>2. r[i][k] = Led(h, r, i, k)  BY <3>1, <1>3
    <3> QED  BY <3>2, <2>1 DEF Led
  <2>2. CASE i # h
    <3>1. i + 1 \in 0..h  BY <2>2, <1>3
    <3>2. Led(h, r, i, k) = PickChild(page[r[i + 1][k]], k) /\ Led(h, q, i, k)' = PickChild(page'[q[i + 1][k]], k)
      BY <2>2 DEF Led, PickChild
    <3>3. r[i][k] = IF i = f /\ r[f + 1][k] = x THEN PickChild(m, k) ELSE Led(h, r, i, k)  BY <1>3
    <3>4. CASE i = f /\ r[f + 1][k] = x
      <4>1. q[i + 1][k] = IF k >= s THEN n ELSE x  BY <3>1, <3>4, <1>17
      <4>2. page'[x] = lo /\ page'[n] = hi  BY <1>13, <1>14
      <4>3. PickChild(m, k) = PickChild(IF k < s THEN lo ELSE hi, k)
        <5>1. s = m.entries[a + 1].key  BY <1>8, <1>g
        <5> QED  BY <5>1, <1>8 DEF SplitOf
      <4>4. k >= s <=> ~(k < s)  BY <1>10, TreeAssumption
      <4> QED  BY ONLY <3>2, <3>3, <3>4, <4>1, <4>2, <4>3, <4>4
    <3>5. CASE ~(i = f /\ r[f + 1][k] = x)
      <4>1. r[i + 1][k] # x
        <5>1. CASE i = f  BY <5>1, <3>5
        <5>2. CASE i # f
          <6>1. i + 1 # f + 1  BY <5>2, <1>3
          <6> QED  BY <6>1, <3>1, <1>6
        <5> QED  BY <5>1, <5>2
      <4>2. q[i + 1][k] = r[i + 1][k]
        <5>1. i + 1 = f + 1 => r[i + 1][k] = r[f + 1][k]  OBVIOUS
        <5> QED  BY <4>1, <5>1, <3>1, <1>17
      <4>3. page'[r[i + 1][k]] = page[r[i + 1][k]]  BY <4>1, <3>1, <1>6, <1>14
      <4> QED  BY ONLY <3>2, <3>3, <3>5, <4>2, <4>3
    <3> QED  BY <3>4, <3>5
  <2> QED  BY <2>1, <2>2
<1>21. carry'[1].key = s /\ carry'[1].child = n /\ carry' = <<carry'[1]>> /\ carry'[1] \in Seps
  <2>1. carry'[1] = Sep(s, n)  BY <1>4
  <2>2. Sep(s, n).key = s /\ Sep(s, n).child = n /\ Sep(s, n) \in Seps  BY <1>10, <1>13 DEF Sep, Seps
  <2> QED  BY <2>1, <2>2, <1>4
<1>22. Leads(h, q, f + 1)'
  <2>2. LeadsBut(h, q, f + 1, s, n)'
    <3> SUFFICES ASSUME NEW i \in 0..h, NEW k \in Keys
                 PROVE  q[i][k] = IF i = f + 1 /\ k >= s /\ Led(h, q, i, k)' = Led(h, q, i, s)' THEN n ELSE Led(h, q, i, k)'
      BY DEF LeadsBut
    <3>1. Led(h, q, i, k)' = r[i][k] /\ Led(h, q, i, s)' = r[i][s]  BY <1>10, <1>20
    <3>2. q[i][k] = IF i = f + 1 /\ r[f + 1][k] = r[f + 1][s] /\ k >= s THEN n ELSE r[i][k]  BY <1>10, <1>17
    <3>3. i = f + 1 => r[i] = r[f + 1]  OBVIOUS
    <3> QED  BY ONLY <3>1, <3>2, <3>3
  <2> QED  BY ONLY <2>2, <1>21 DEF Leads
<1>23. Flight(h, q, f + 1)'
  <2> DEFINE g == f + 1
  <2>1. /\ path' \in Seq(Nat) /\ Len(path') = h - g
        /\ \A j \in 1..(h - g) : path'[j] = path[j]
    <3>1. path' = SubSeq(path, 1, Len(path) - 1)  BY <1>4 DEF Front
    <3>2. Len(path) - 1 = h - g /\ Len(path) \in Nat  BY <1>3, <1>12
    <3> QED  BY <3>1, <3>2, <1>12
  <2>2. g \in 0..h /\ g \in 1..h /\ f \in Nat /\ h \in Nat /\ g = f + 1  BY <1>3
  <2>3. \A j \in 1..(h - g) : path'[j] = q[h + 1 - j][s]
    <3> TAKE j \in 1..(h - g)
    <3> DEFINE i == h + 1 - j
    <3>1. i \in g..h /\ i \in 0..h /\ i # f + 1 /\ j \in 1..(h - f)  BY <2>2
    <3>2. PICK e \in Keys : r[f + 1][e] = x /\ path[j] = r[h + 1 - j][e]  BY <1>12, <3>1
    <3> HIDE DEF i
    <3>3. r[g][e] = r[g][s]  BY <3>2, <1>10
    <3> HIDE DEF g
    <3>4. r[i][e] = r[i][s]  BY <2>2, <3>1, <3>2, <3>3, <1>10, <1>16, CoarseUp
    <3>5. q[i][s] = r[i][s]  BY <3>1, <1>10, <1>17
    <3> QED  BY <3>2, <3>4, <3>5, <2>1 DEF i
  <2>4. Led(h, q, g, s)' = x /\ x # n  BY <2>2, <1>10, <1>13, <1>20
  <2>5. \E k \in Keys : q[g][k] = x /\ k < s /\ (g < h => q[g + 1][k] = q[g + 1][s])
    <3>1. PICK k \in Keys : r[f + 1][k] = x /\ k < s  BY <1>10
    <3>2. ~(k >= s)  BY <3>1, <1>10, TreeAssumption
    <3>3. q[g][k] = x  BY <3>1, <3>2, <2>2, <1>17
    <3>4. g < h => q[g + 1][k] = q[g + 1][s]
      <4> SUFFICES ASSUME g < h  PROVE q[g + 1][k] = q[g + 1][s]  OBVIOUS
      <4>1. g \in 0..(h - 1) /\ g + 1 \in 0..h /\ g + 1 # f + 1  BY <2>2
      <4>2. r[g][k] = r[g][s]  BY <3>1, <1>10
      <4> HIDE DEF g
      <4>3. r[g + 1][k] = r[g + 1][s]  BY <4>1, <4>2, <1>10, <1>16 DEF Routing, Coarse
      <4> QED  BY <4>1, <4>3, <1>10, <1>17
    <3> QED  BY <3>1, <3>3, <3>4
  <2>6. g < h => \A j \in 0..Len(page'[q[g + 1][s]].entries) : Child(page'[q[g + 1][s]], j) # n
    <3> SUFFICES ASSUME g < h  PROVE \A j \in 0..Len(page'[q[g + 1][s]].entries) : Child(page'[q[g + 1][s]], j) # n
      OBVIOUS
    <3>1. g + 1 \in 1..h /\ g + 1 \in 0..h /\ g + 1 # f + 1  BY <2>2
    <3> HIDE DEF g
    <3>2. q[g + 1][s] = r[g + 1][s] /\ page'[q[g + 1][s]] = page[r[g + 1][s]]  BY <3>1, <1>6, <1>10, <1>14, <1>17
    <3>3. page[r[g + 1][s]] \in Inners /\ r[g + 1][s] \in Pages  BY <3>1, <1>10, OnTheWay
    <3>4. \A j \in 0..Len(page[r[g + 1][s]].entries) : Child(page[r[g + 1][s]], j) \in 1..count  BY <3>3, <1>5 DEF NodeOK
    <3>5. n \notin 1..count  BY <1>6, <1>13
    <3> QED  BY <3>2, <3>4, <3>5
  <2>7. count' + Len(path') + 1 <= MaxPages /\ n \in 1..count' /\ g \in -1..h /\ g # -1
    <3>1. MaxPages \in Nat  BY TreeAssumption
    <3> QED  BY <3>1, <2>1, <2>2, <1>4, <1>6, <1>12, <1>13
  <2> SUFFICES Flight(h, q, g)'  OBVIOUS
  <2> HIDE DEF g
  <2>8. Pending(h, q, g, s, n)'  BY ONLY <2>1, <2>3, <2>4, <2>5, <2>6, <2>7 DEF Pending
  <2> QED  BY ONLY <2>7, <2>8, <1>21 DEF Flight
<1>24. LeavesOK(q)' /\ Chain(q, ls)'
  <2>1. \A k \in Keys : q[0][k] = r[0][k] /\ page'[r[0][k]] = page[r[0][k]]
    <3>1. 0 \in 0..h /\ 0 # f + 1  BY <1>3
    <3> QED  BY <3>1, <1>6, <1>14, <1>17
  <2>2. map' = map /\ count' >= count /\ count' \in Nat  BY <1>4, <1>6, <1>13
  <2> QED  BY <2>1, <2>2, LeavesKept
<1>25. InnersOK(h, q)'
  <2> SUFFICES ASSUME NEW i \in 1..h, NEW k \in Keys
               PROVE  InnerOK(page'[q[i][k]], {l \in Keys : q[i][l] = q[i][k]})
    BY DEF InnersOK
  <2> DEFINE New == {l \in Keys : q[i][l] = q[i][k]}
  <2>1. i \in 0..h  BY <1>3
  <2>2. \A l \in Keys : q[i][l] = IF i = f + 1 /\ r[f + 1][l] = x /\ l >= s THEN n ELSE r[i][l]  BY <2>1, <1>17
  <2>3. \A l \in Keys : r[i][l] # n /\ r[i][l] \in Pages  BY <2>1, <1>6
  <2>4. InnerOK(page[r[i][k]], {l \in Keys : r[i][l] = r[i][k]})  BY DEF Good, InnersOK
  <2>5. CASE i = f + 1 /\ r[f + 1][k] = x /\ k >= s
    <3>1. q[i][k] = n  BY <2>2, <2>5
    <3>2. \A l \in Keys : q[i][l] = n <=> r[f + 1][l] = x /\ l >= s  BY <2>2, <2>3, <2>5
    <3>3. New = {l \in Mine : l >= s}  BY <3>1, <3>2
    <3>4. page'[n] = hi  BY <1>13, <1>14
    <3> HIDE DEF New, Mine
    <3>5. InnerOK(page'[q[i][k]], New)  BY <3>1, <3>3, <3>4, <1>9
    <3> QED  BY <3>5 DEF New
  <2>6. CASE i = f + 1 /\ r[f + 1][k] = x /\ ~(k >= s)
    <3>1. q[i][k] = x  BY <2>2, <2>6
    <3>2. \A l \in Keys : q[i][l] = x <=> r[f + 1][l] = x /\ ~(l >= s)  BY <2>2, <2>6, <1>13
    <3>3. \A l \in Keys : l < s <=> ~(l >= s)  BY <1>10, TreeAssumption
    <3>4. New = {l \in Mine : l < s}  BY <3>1, <3>2, <3>3
    <3>5. page'[x] = lo  BY <1>13, <1>14
    <3> HIDE DEF New, Mine
    <3>6. InnerOK(page'[q[i][k]], New)  BY <3>1, <3>4, <3>5, <1>9
    <3> QED  BY <3>6 DEF New
  <2>7. CASE ~(i = f + 1 /\ r[f + 1][k] = x)
    <3>1. q[i][k] = r[i][k]  BY <2>2, <2>7
    <3>2. r[i][k] # x
      <4>1. CASE i = f + 1  BY <4>1, <2>7
      <4>2. CASE i # f + 1  BY <4>2, <2>1, <1>6
      <4> QED  BY <4>1, <4>2
    <3>3. \A l \in Keys : q[i][l] = r[i][k] <=> r[i][l] = r[i][k]
      <4> TAKE l \in Keys
      <4>1. CASE i = f + 1 /\ r[f + 1][l] = x /\ l >= s
        <5>1. q[i][l] = n /\ r[i][l] = x  BY <4>1, <2>2
        <5> QED  BY <5>1, <3>2, <2>3
      <4>2. CASE ~(i = f + 1 /\ r[f + 1][l] = x /\ l >= s)  BY <4>2, <2>2
      <4> QED  BY <4>1, <4>2
    <3>4. New = {l \in Keys : r[i][l] = r[i][k]}  BY <3>1, <3>3
    <3>5. page'[r[i][k]] = page[r[i][k]]  BY <3>2, <2>3, <1>14
    <3> HIDE DEF New
    <3>6. InnerOK(page'[q[i][k]], New)  BY <3>1, <3>4, <3>5, <2>4
    <3> QED  BY <3>6 DEF New
  <2> QED  BY <2>5, <2>6, <2>7
<1>26. (h < count)' /\ Routing(h, q, (1..count) \ wasted)'
  <2>1. h < count  BY DEF Good
  <2>2. (1..count') \ wasted' = ((1..count) \ wasted) \cup {n}  BY <1>4, <1>5, <1>6, <1>13
  <2>3. h < count'  BY <2>1, <1>3, <1>4, <1>6, <1>13
  <2> QED  BY <2>2, <2>3, <1>19
<1> QED  BY <1>15, <1>22, <1>23, <1>24, <1>25, <1>26 DEF Good

\* The line of leaves when the page x has moved to n.
Renamed(ls, x, n) == [a \in 1..Len(ls) |-> IF ls[a] = x THEN n ELSE ls[a]]

\* What is renamed, place by place.
LEMMA RenamedIs ==
  ASSUME NEW ls \in Seq(Pages), NEW x, NEW n \in Pages
  PROVE  /\ Renamed(ls, x, n) \in Seq(Pages) /\ Len(Renamed(ls, x, n)) = Len(ls)
         /\ \A a \in 1..Len(ls) : Renamed(ls, x, n)[a] = IF ls[a] = x THEN n ELSE ls[a]
<1>1. Len(ls) \in Nat /\ \A a \in 1..Len(ls) : ls[a] \in Pages  OBVIOUS
<1> DEFINE len == Len(ls)
           ms == Renamed(ls, x, n)
<1>2. ms = [a \in 1..len |-> IF ls[a] = x THEN n ELSE ls[a]]  BY DEF Renamed
<1> HIDE DEF ms
<1>3. ms \in [1..len -> Pages]  BY <1>1, <1>2
<1>4. ms \in Seq(Pages) /\ Len(ms) = len  BY <1>1, <1>3
<1> QED  BY <1>2, <1>4 DEF ms

\* The line stays a line when its first leaf moves to a new page.
LEMMA LineRenamed ==
  ASSUME NEW row, NEW ls, InLine(row, ls), NEW x, NEW n \in Pages, \A k \in Keys : row[k] # n,
         NEW new, \A k \in Keys : new[k] = IF row[k] = x THEN n ELSE row[k],
         NEW ms, ms = Renamed(ls, x, n),
         NEW pages, NEW next, Linked(pages, ls), \A k \in Keys : next[new[k]] = pages[row[k]],
         \A a \in 2..Len(ls) : ls[a] # x
  PROVE  InLine(new, ms) /\ Linked(next, ms) /\ Len(ms) = Len(ls)
<1>1. /\ ls \in Seq(Pages) /\ Len(ls) \in Nat
      /\ \A k \in Keys : \E a \in 1..Len(ls) : ls[a] = row[k]
      /\ \A a \in 1..Len(ls) : \E k \in Keys : ls[a] = row[k]
  BY DEF InLine
<1>2. /\ ms \in Seq(Pages) /\ Len(ms) = Len(ls)
      /\ \A a \in 1..Len(ls) : ms[a] = IF ls[a] = x THEN n ELSE ls[a]
  BY <1>1, RenamedIs
<1>3. \A a \in 1..Len(ls), k \in Keys : ms[a] = new[k] <=> ls[a] = row[k]
  <2> TAKE a \in 1..Len(ls), k \in Keys
  <2>1. ls[a] # n  BY <1>1
  <2>2. row[k] # n  OBVIOUS
  <2>3. ms[a] = IF ls[a] = x THEN n ELSE ls[a]  BY <1>2
  <2>4. new[k] = IF row[k] = x THEN n ELSE row[k]  OBVIOUS
  <2> QED  BY ONLY <2>1, <2>2, <2>3, <2>4
<1>4. InLine(new, ms)
  <2>1. \A k \in Keys : \E a \in 1..Len(ms) : ms[a] = new[k]  BY <1>1, <1>2, <1>3
  <2>2. \A a \in 1..Len(ms) : \E k \in Keys : ms[a] = new[k]  BY <1>1, <1>2, <1>3
  <2>3. Sorted(new, ms)
    <3>1. Sorted(row, ls)  BY DEF InLine
    <3>2. \A a \in 1..Len(ls), k \in Keys : new[k] = ms[a] => row[k] = ls[a]  BY <1>3
    <3>3. Len(ms) = Len(ls)  BY <1>2
    <3> QED  BY ONLY <3>1, <3>2, <3>3 DEF Sorted
  <2> QED  BY <1>2, <2>1, <2>2, <2>3 DEF InLine
<1>5. Linked(next, ms)
  <2> SUFFICES ASSUME NEW a \in 1..Len(ls)
               PROVE  next[ms[a]].next = IF a = Len(ls) THEN 0 ELSE ms[a + 1]
    BY <1>2 DEF Linked
  <2>1. PICK k \in Keys : ls[a] = row[k]  BY <1>1
  <2>2. ms[a] = new[k]  BY <2>1, <1>3
  <2>3. next[ms[a]] = pages[ls[a]]  BY <2>1, <2>2
  <2>4. pages[ls[a]].next = IF a = Len(ls) THEN 0 ELSE ls[a + 1]  BY DEF Linked
  <2>5. CASE a = Len(ls)  BY <2>3, <2>4, <2>5
  <2>6. CASE a # Len(ls)
    <3>1. a + 1 \in 1..Len(ls) /\ a + 1 \in 2..Len(ls)  BY <2>6, <1>1
    <3>2. ls[a + 1] # x  BY <3>1
    <3>3. ms[a + 1] = ls[a + 1]  BY <3>1, <3>2, <1>2
    <3> QED  BY <2>3, <2>4, <2>6, <3>3
  <2> QED  BY <2>5, <2>6
<1> QED  BY <1>2, <1>4, <1>5

\* The root splits: its page keeps its place above what it held, which moves to
\* a new page.
LEMMA RootSplitDone ==
  ASSUME NEW h, NEW r, NEW f, NEW ls, Good(h, r, f, ls), SplitRoot
  PROVE  \E q, ms : Good(h + 1, q, -1, ms)'
<1>a. PICK e : e = carry[1]  OBVIOUS
<1>b. PICK s : s = e.key  OBVIOUS
<1>c. PICK u : u = e.child  OBVIOUS
<1>d. PICK n : n = count + 1  OBVIOUS
<1>e. PICK o : o = page[Root]  OBVIOUS
<1>f. PICK top : top = Internal(n, carry)  OBVIOUS
<1>1. /\ page' = [page EXCEPT ![n] = o, ![Root] = top] /\ count' = n
      /\ map' = map /\ wasted' = wasted /\ path' = <<>> /\ carry' = <<>>
      /\ carry # <<>> /\ path = <<>>
  BY <1>d, <1>e, <1>f DEF SplitRoot
<1>2. /\ h \in Nat /\ f = h
      /\ e \in Seps /\ s \in Keys /\ s \in Int /\ u \in 1..count /\ carry = <<e>>
      /\ LeadsBut(h, r, f, s, u) /\ Pending(h, r, f, s, u)
  <2>1. h \in Nat /\ f \in -1..h  BY DEF Good, Routing, Flight
  <2>2. f # -1  BY <1>1 DEF Good, Flight
  <2>3. /\ carry = <<carry[1]>> /\ carry[1] \in Seps /\ carry[1].child \in 1..count
        /\ Pending(h, r, f, carry[1].key, carry[1].child) /\ LeadsBut(h, r, f, carry[1].key, carry[1].child)
    BY <2>2 DEF Good, Flight, Leads
  <2>4. Len(path) = h - f  BY <2>3 DEF Pending
  <2>5. f = h  BY <2>1, <2>4, <1>1
  <2>6. s \in Keys /\ s \in Int  BY <2>3, <1>a, <1>b, SepFields
  <2>7. carry = <<e>>  BY ONLY <2>3, <1>a
  <2> QED  BY <2>1, <2>3, <2>5, <2>6, <2>7, <1>a, <1>b, <1>c
<1>3. /\ page \in [Pages -> Nodes] /\ (\A p \in Pages : NodeOK(page[p], count)) /\ wasted \subseteq 1..count
      /\ map \in [Keys -> Values \cup {Absent}]
      /\ Routing(h, r, (1..count) \ wasted)
  BY DEF Good, Typed
<1>4. \A k \in Keys : r[h][k] = IF k >= s THEN u ELSE Root
  <2>1. h \in 0..h  BY <1>2
  <2> QED  BY <2>1, <1>2 DEF LeadsBut, Led
<1>5. u # Root /\ \E k \in Keys : r[h][k] = Root /\ k < s
  BY <1>2 DEF Pending, Led
<1>6. /\ \A i \in 0..h, k \in Keys : i # h => r[i][k] # Root
      /\ \A i \in 0..h, k \in Keys : r[i][k] \in 1..count /\ r[i][k] \in Pages /\ r[i][k] # n
      /\ count \in Pages /\ count \in Nat
  <2>1. h \in 0..h  BY <1>2
  <2>2. Good(h, r, f, ls) /\ \E k \in Keys : Root = r[h][k]  BY <1>5
  <2> QED  BY ONLY <2>1, <2>2, <1>d, LevelApart
<1>7. n \in Pages /\ n \in Nat /\ n = count + 1 /\ n # Root /\ Root \in Pages /\ u # n /\ h + 1 < n
  <2>1. MaxPages \in Nat /\ count \in Nat /\ count >= 1 /\ Root = 1  BY <1>6, TreeAssumption DEF Pages, Root
  <2>2. count + 0 + 1 <= MaxPages  BY <1>1, <1>2 DEF Pending
  <2>3. n \in Pages /\ n # Root /\ Root \in Pages  BY <2>1, <2>2, <1>d DEF Pages
  <2>4. h < count  BY DEF Good
  <2>5. u # n /\ h + 1 < n  BY <2>1, <2>4, <1>d, <1>2
  <2> QED  BY <2>1, <2>3, <2>5, <1>d
<1>8. top \in Inners /\ top.first = n /\ top.entries = <<e>>
  <2>1. <<e>> \in SepSeqs  BY <1>2 DEF SepSeqs
  <2> QED  BY <2>1, <1>2, <1>7, <1>f, InternalFields
<1>9. /\ page' \in [Pages -> Nodes]
      /\ \A p \in Pages : page'[p] = IF p = Root THEN top ELSE IF p = n THEN o ELSE page[p]
  <2>1. top \in Nodes /\ o \in Nodes  BY <1>3, <1>7, <1>8, <1>e DEF Nodes
  <2> QED  BY <2>1, <1>1, <1>3, <1>7
<1>10. Typed'
  <2>1. top \notin Leafs
    <3>1. top \in Nodes  BY <1>8 DEF Nodes
    <3> QED  BY <3>1, <1>8, NodeKinds
  <2>2. Len(top.entries) = 1 /\ top.entries[1] = e  BY <1>8
  <2>3. \A j \in 0..1 : Child(top, j) \in 1..n
    <3>1. Child(top, 0) = n  BY <1>8 DEF Child
    <3>2. Child(top, 1) = u  BY <2>2, <1>c DEF Child
    <3>3. n \in 1..n /\ u \in 1..n  BY <1>2, <1>6, <1>7
    <3> QED  BY <3>1, <3>2, <3>3
  <2>4. NodeOK(top, n)  BY <2>1, <2>2, <2>3, TreeAssumption DEF NodeOK
  <2>5. \A p \in Pages : NodeOK(page[p], n)  BY <1>3, <1>6, <1>7, NodeLater
  <2>6. NodeOK(o, n)  BY <2>5, <1>7, <1>e
  <2>7. \A p \in Pages : NodeOK(page'[p], n)  BY <2>4, <2>5, <2>6, <1>9
  <2>8. wasted' \subseteq 1..n  BY <1>1, <1>3, <1>6, <1>7
  <2> QED  BY <2>7, <2>8, <1>1, <1>3, <1>7, <1>9 DEF Typed
<1>g. PICK q : q = Lifted(h, r, Root, n)  OBVIOUS
<1>11. /\ Routing(h + 1, q, ((1..count) \ wasted) \cup {n})
       /\ \A k \in Keys : q[h + 1][k] = Root
       /\ \A i \in 0..h, k \in Keys : q[i][k] = IF r[i][k] = Root THEN n ELSE r[i][k]
  <2> DEFINE live == (1..count) \ wasted
  <2>1. live \subseteq Nat /\ n \notin live /\ n \in Nat /\ h \in Nat /\ h \in 0..h  BY <1>2, <1>6, <1>7
  <2>2. Routing(h, r, live)  BY <1>3
  <2>3. \E k \in Keys : r[h][k] = Root  BY <1>5
  <2> SUFFICES /\ Routing(h + 1, q, live \cup {n})
               /\ \A k \in Keys : q[h + 1][k] = Root
               /\ \A i \in 0..h, k \in Keys : q[i][k] = IF r[i][k] = Root THEN n ELSE r[i][k]
    OBVIOUS
  <2> HIDE DEF live
  <2>4. PICK p : p = Root  OBVIOUS
  <2>5. PICK i \in 0..h : \E k \in Keys : r[i][k] = p  BY <2>1, <2>3, <2>4
  <2>6. Routing(h + 1, q, live \cup {n}) /\ IsLifted(h, r, p, n, q)
    <3>1. Routing(h + 1, Lifted(h, r, p, n), live \cup {n}) /\ IsLifted(h, r, p, n, Lifted(h, r, p, n))
      BY ONLY <2>1, <2>2, <2>5, LiftedRouting
    <3> QED  BY ONLY <3>1, <2>4, <1>g
  <2>7. /\ \A k \in Keys : q[h + 1][k] = p
        /\ \A j \in 0..h, k \in Keys : q[j][k] = IF r[j][k] = p THEN n ELSE r[j][k]
    BY ONLY <2>6 DEF IsLifted
  <2> QED  BY ONLY <2>4, <2>6, <2>7
<1>12. \A i \in 0..h, k \in Keys : page'[q[i][k]] = page[r[i][k]]
  BY <1>6, <1>7, <1>9, <1>11, <1>e
<1>13. \A i \in 0..h, k \in Keys :
         {l \in Keys : q[i][l] = q[i][k]} = {l \in Keys : r[i][l] = r[i][k]}
  <2> TAKE i \in 0..h, k \in Keys
  <2>1. \A l \in Keys : q[i][l] = q[i][k] <=> r[i][l] = r[i][k]  BY <1>6, <1>11
  <2> QED  BY <2>1
<1>14. ASSUME NEW i \in 0..(h + 1), NEW k \in Keys
       PROVE  q[i][k] = Led(h + 1, q, i, k)'
  <2>1. CASE i = h + 1  BY <2>1, <1>11 DEF Led
  <2>2. CASE i = h
    <3>1. Led(h + 1, q, i, k)' = PickChild(page'[Root], k)
      <4>1. i # h + 1  BY <2>2, <1>2
      <4> QED  BY <4>1, <2>2, <1>11 DEF Led, PickChild
    <3>2. page'[Root] = top  BY <1>7, <1>9
    <3>3. Len(top.entries) = 1 /\ top.entries[1] = e  BY <1>8
    <3>4. PickChild(top, k) = IF k >= s THEN u ELSE n
      <4>1. s \in Int /\ k \in Int  BY <1>2, TreeAssumption
      <4>2. CASE k >= s
        <5>1. At(top, k, 1)  BY <4>1, <4>2, <3>3, <1>b DEF At
        <5>2. PickChild(top, k) = Child(top, 1)  BY <5>1, <1>8, PickIs
        <5> QED  BY <5>2, <4>2, <3>3, <1>c DEF Child
      <4>3. CASE ~(k >= s)
        <5>1. At(top, k, 0)  BY <4>1, <4>3, <3>3, <1>b DEF At
        <5>2. PickChild(top, k) = Child(top, 0)  BY <5>1, <1>8, PickIs
        <5> QED  BY <5>2, <4>3, <1>8 DEF Child
      <4> QED  BY <4>2, <4>3
    <3>5. q[i][k] = IF r[h][k] = Root THEN n ELSE r[h][k]
      <4>1. h \in 0..h  BY <1>2
      <4> QED  BY <4>1, <2>2, <1>11
    <3> QED  BY <3>1, <3>2, <3>4, <3>5, <1>4, <1>5
  <2>3. CASE i # h + 1 /\ i # h
    <3>1. i \in 0..h /\ i + 1 \in 0..h  BY <2>3, <1>2
    <3>2. Led(h + 1, q, i, k)' = PickChild(page'[q[i + 1][k]], k) /\ Led(h, r, i, k) = PickChild(page[r[i + 1][k]], k)
      BY <2>3 DEF Led, PickChild
    <3>3. r[i][k] = Led(h, r, i, k)  BY <2>3, <3>1, <1>2 DEF LeadsBut
    <3>4. q[i][k] = r[i][k]  BY <2>3, <3>1, <1>6, <1>11
    <3>5. page'[q[i + 1][k]] = page[r[i + 1][k]]  BY <3>1, <1>12
    <3> QED  BY <3>2, <3>3, <3>4, <3>5
  <2> QED  BY <2>1, <2>2, <2>3
<1>15. Leads(h + 1, q, -1)'
  <2> DEFINE g == h + 1
  <2>1. \A i \in 0..g : i # -1  BY <1>2
  <2>2. \A i \in 0..g, k \in Keys : q[i][k] = Led(g, q, i, k)'  BY <1>14
  <2> SUFFICES Leads(g, q, -1)'  OBVIOUS
  <2> HIDE DEF g
  <2> QED  BY ONLY <2>1, <2>2 DEF Leads, LeadsBut
<1>16. Flight(h + 1, q, -1)'
  <2>1. -1 \in -1..(h + 1)  BY <1>2
  <2> QED  BY <2>1, <1>1 DEF Flight
<1>17. LeavesOK(q)'
  <2>1. \A k \in Keys : LeafOK(page[r[0][k]], map, {l \in Keys : r[0][l] = r[0][k]})  BY DEF Good, LeavesOK
  <2>2. 0 \in 0..h  BY <1>2
  <2>3. \A k \in Keys : LeafOK(page'[q[0][k]], map', {l \in Keys : q[0][l] = q[0][k]})  BY <2>1, <2>2, <1>1, <1>12, <1>13
  <2> QED  BY <2>3 DEF LeavesOK
<1>18. InnersOK(h + 1, q)'
  <2>1. \A i \in 1..h, k \in Keys : InnerOK(page[r[i][k]], {l \in Keys : r[i][l] = r[i][k]})  BY DEF Good, InnersOK
  <2>2. \A i \in 1..h, k \in Keys : InnerOK(page'[q[i][k]], {l \in Keys : q[i][l] = q[i][k]})
    <3>1. \A i \in 1..h : i \in 0..h  BY <1>2
    <3> QED  BY <2>1, <3>1, <1>12, <1>13
  <2>3. InnerOK(top, Keys)
    <3>1. Len(top.entries) = 1 /\ top.entries[1] = e /\ e.key = s  BY <1>8, <1>b
    <3>2. Ascending(top.entries)  BY <3>1 DEF Ascending
    <3>3. Child(top, 0) = n /\ Child(top, 1) = u  BY <3>1, <1>8, <1>c DEF Child
    <3>4. Distinct(top)
      <4>1. \A j \in 0..1 : j = 0 \/ j = 1  OBVIOUS
      <4> QED  BY <4>1, <3>1, <3>3, <1>7 DEF Distinct
    <3>5. \A j \in 1..Len(top.entries) : top.entries[j].key = s  BY <3>1
    <3>6. \E k \in Keys : k < s  BY <1>5
    <3> QED  BY <3>2, <3>4, <3>5, <3>6, <1>2, <1>8 DEF InnerOK
  <2>4. \A k \in Keys : InnerOK(page'[q[h + 1][k]], {l \in Keys : q[h + 1][l] = q[h + 1][k]})
    <3> TAKE k \in Keys
    <3>1. {l \in Keys : q[h + 1][l] = q[h + 1][k]} = Keys  BY <1>11
    <3>2. page'[q[h + 1][k]] = top  BY <1>7, <1>9, <1>11
    <3> QED  BY <3>1, <3>2, <2>3
  <2>5. \A i \in 1..(h + 1) : i \in 1..h \/ i = h + 1  BY <1>2
  <2>6. \A i \in 1..(h + 1), k \in Keys : InnerOK(page'[q[i][k]], {l \in Keys : q[i][l] = q[i][k]})
    BY <2>2, <2>4, <2>5
  <2> QED  BY <2>6 DEF InnersOK
<1>19. \E ms : Chain(q, ms)'
  <2>a. PICK ms : ms = Renamed(ls, Root, n)  OBVIOUS
  <2> DEFINE row == r[0]
             new == q[0]
             next == page'
  <2>1. InLine(row, ls) /\ Linked(page, ls) /\ Len(ls) <= count /\ Len(ls) \in Nat  BY DEF Good, Chain, InLine
  <2>2. 0 \in 0..h  BY <1>2
  <2>3. \A k \in Keys : row[k] # n /\ new[k] = (IF row[k] = Root THEN n ELSE row[k]) /\ next[new[k]] = page[row[k]]
    BY <2>2, <1>6, <1>11, <1>12
  <2>4. ASSUME NEW a \in 2..Len(ls), ls[a] = Root  PROVE FALSE
    <3>1. a \in 1..Len(ls) /\ 1 \in 1..Len(ls) /\ 1 < a  BY <2>1
    <3>2. PICK k \in Keys : ls[a] = row[k]  BY <3>1, <2>1 DEF InLine
    <3>3. PICK l \in Keys : ls[1] = row[l]  BY <3>1, <2>1 DEF InLine
    <3>4. l < k
      <4>1. Sorted(row, ls)  BY <2>1 DEF InLine
      <4> HIDE DEF row
      <4> QED  BY <4>1, <3>1, <3>2, <3>3 DEF Sorted
    <3>5. h = 0  BY <3>2, <2>2, <2>4, <1>6
    <3>6. k < s
      <4>1. ~(k >= s)  BY <3>2, <3>5, <2>4, <1>4, <1>5
      <4> QED  BY <4>1, <1>2, TreeAssumption
    <3>7. l < s /\ ~(l >= s)  BY <3>4, <3>6, <1>2, TreeAssumption
    <3>8. ls[1] = ls[a]  BY <3>3, <3>5, <3>7, <2>4, <1>4
    <3>9. 1 = a  BY <3>1, <3>8, <2>1, LineDistinct
    <3> QED  BY <3>1, <3>9
  <2> HIDE DEF row, new, next
  <2>5. InLine(new, ms) /\ Linked(next, ms) /\ Len(ms) = Len(ls)
    <3>1. InLine(row, ls) /\ Linked(page, ls)  BY <2>1
    <3>2. n \in Pages /\ \A k \in Keys : row[k] # n  BY <2>3, <1>7
    <3>3. \A k \in Keys : new[k] = IF row[k] = Root THEN n ELSE row[k]  BY <2>3
    <3>4. \A k \in Keys : next[new[k]] = page[row[k]]  BY <2>3
    <3>5. \A a \in 2..Len(ls) : ls[a] # Root  BY <2>4
    <3> QED  BY ONLY <3>1, <3>2, <3>3, <3>4, <3>5, <2>a, LineRenamed
  <2>6. Len(ms) <= count'  BY <2>1, <2>5, <1>1, <1>6, <1>7
  <2>7. Chain(q, ms)'  BY ONLY <2>5, <2>6 DEF Chain, new, next
  <2> QED  BY <2>7
<1>20. (h + 1 < count)' /\ Routing(h + 1, q, (1..count) \ wasted)'
  <2>1. (1..count') \ wasted' = ((1..count) \ wasted) \cup {n}  BY <1>1, <1>3, <1>6, <1>7
  <2> QED  BY <2>1, <1>1, <1>7, <1>11
<1> QED  BY <1>10, <1>15, <1>16, <1>17, <1>18, <1>19, <1>20 DEF Good

-----------------------------------------------------------------------------
(* The invariant holds.                                                    *)

\* A put keeps the invariant: it is over, or a split is under way.
LEMMA PutKeeps ==
  ASSUME NEW h, NEW r, NEW f, NEW ls, Good(h, r, f, ls), NEW c \in Puts, Put(c)
  PROVE  TreeInv'
<1>1. Good(h, r, -1, ls)
  <2>1. f = -1  BY IdleFlight DEF Put
  <2> QED  BY <2>1
<1>2. CASE LeafDuplicate(FindLeaf(c.key), c)
  <2>1. Good(h, r, -1, ls)'  BY <1>1, <1>2, GoodStays DEF LeafDuplicate
  <2> QED  BY <2>1 DEF TreeInv
<1>3. CASE LeafWrite(FindLeaf(c.key), c)
  <2>1. Good(h, r, -1, ls)'  BY <1>1, <1>3, LeafWritten
  <2> QED  BY <2>1 DEF TreeInv
<1>4. CASE LeafTooSmall(FindLeaf(c.key), c)
  <2>1. Good(h, r, -1, ls)'  BY <1>1, <1>4, GoodStays DEF LeafTooSmall
  <2> QED  BY <2>1 DEF TreeInv
<1>5. CASE LeafSplit(FindLeaf(c.key), c)
  <2>1. \E q, ms : Good(h, q, 0, ms)'  BY <1>1, <1>5, LeafSplitDone
  <2> QED  BY <2>1 DEF TreeInv
<1>6. CASE LeafSplitFails(FindLeaf(c.key), c)
  <2>1. Good(h, r, -1, ls)'  BY <1>1, <1>6, LeafSplitFailed
  <2> QED  BY <2>1 DEF TreeInv
<1> QED  BY <1>2, <1>3, <1>4, <1>5, <1>6 DEF Put, LeafPut

\* A split on its way up keeps the invariant, level by level.
LEMMA ClimbKeeps ==
  ASSUME NEW h, NEW r, NEW f, NEW ls, Good(h, r, f, ls), Climb
  PROVE  TreeInv'
<1>1. CASE InternalWrite
  <2>1. Good(h, r, -1, ls)'  BY <1>1, InternalWritten
  <2> QED  BY <2>1 DEF TreeInv
<1>2. CASE InternalSplit
  <2>1. \E q : Good(h, q, f + 1, ls)'  BY <1>2, InternalSplitDone
  <2> QED  BY <2>1 DEF TreeInv
<1>3. CASE SplitRoot
  <2>1. \E q, ms : Good(h + 1, q, -1, ms)'  BY <1>3, RootSplitDone
  <2> QED  BY <2>1 DEF TreeInv
<1> QED  BY <1>1, <1>2, <1>3 DEF Climb

\* The invariant holds in every state of every tree.
LEMMA TreeInvHolds == TreeSpec => []TreeInv
<1>1. TreeInit => TreeInv  BY InitGood
<1>2. TreeInv /\ [TreeNext]_treeVars => TreeInv'
  <2> SUFFICES ASSUME TreeInv, [TreeNext]_treeVars  PROVE TreeInv'
    OBVIOUS
  <2>1. PICK h, r, f, ls : Good(h, r, f, ls)  BY DEF TreeInv
  <2>2. CASE UNCHANGED treeVars
    <3>1. Good(h, r, f, ls)'  BY <2>1, <2>2, GoodStays
    <3> QED  BY <3>1 DEF TreeInv
  <2>3. ASSUME NEW c \in Puts, Put(c)  PROVE TreeInv'
    BY <2>1, <2>3, PutKeeps
  <2>4. ASSUME NEW c \in Deletes, Delete(c)  PROVE TreeInv'
    <3>1. f = -1  BY <2>1, <2>4, IdleFlight DEF Delete
    <3>2. Good(h, r, -1, ls)  BY <2>1, <3>1
    <3>3. Good(h, r, -1, ls)'  BY <2>4, <3>2, LeafDeleted DEF Delete
    <3> QED  BY <3>3 DEF TreeInv
  <2>5. CASE Climb  BY <2>1, <2>5, ClimbKeeps
  <2> QED  BY <2>2, <2>3, <2>4, <2>5 DEF TreeNext
<1> QED  BY <1>1, <1>2, PTL DEF TreeSpec

\* Descending by the separators finds every key with its value, after any puts,
\* deletes and splits and at every size of tree.
THEOREM TreeFinds == TreeSpec => []GetFinds
<1>1. TreeInv => GetFinds  BY GoodFinds DEF TreeInv
<1> QED  BY <1>1, TreeInvHolds, PTL

\* Every page holds a node of one of the three kinds that fits it.
THEOREM TreeTyped == TreeSpec => []TreeTypeOK
<1>1. TreeInv => TreeTypeOK  BY GoodTyped DEF TreeInv
<1> QED  BY <1>1, TreeInvHolds, PTL

-----------------------------------------------------------------------------
(* Reads.                                                                  *)

\* The entries are those of the map m for the keys A, in order.
Holds(s, m, A) ==
  /\ s \in KvSeqs /\ Ascending(s)
  /\ \A j \in 1..Len(s) : s[j].key \in A /\ m[s[j].key] = s[j].val
  /\ \A k \in A : m[k] # Absent => Has(s, k)

\* What the entries hold is what Lists says of them.
LEMMA HoldsLists ==
  ASSUME NEW s, NEW A, A \subseteq Keys, Holds(s, map, A)
  PROVE  Lists(s, A)
<1>1. s \in KvSeqs /\ Ascending(s)  BY DEF Holds
<1>2. \A j \in 1..Len(s) : s[j] \in Entries /\ s[j].val # Absent  BY <1>1, KvSeq
<1>3. \A e \in Entries : e = [key |-> e.key, val |-> e.val]  BY DEF Entries
<1> DEFINE All == {s[i] : i \in 1..Len(s)}
           Want == {[key |-> k, val |-> map[k]] : k \in {x \in A : map[x] # Absent}}
<1>4. ASSUME NEW j \in 1..Len(s)  PROVE s[j] \in Want
  <2>1. s[j] = [key |-> s[j].key, val |-> s[j].val]  BY <1>2, <1>3
  <2>2. s[j].key \in A /\ map[s[j].key] = s[j].val /\ s[j].val # Absent  BY <1>2 DEF Holds
  <2>3. s[j] = [key |-> s[j].key, val |-> map[s[j].key]]  BY ONLY <2>1, <2>2
  <2> QED  BY <2>2, <2>3
<1>5. ASSUME NEW k \in A, map[k] # Absent  PROVE [key |-> k, val |-> map[k]] \in All
  <2>1. PICK j \in 1..Len(s) : s[j].key = k  BY <1>5 DEF Holds, Has
  <2>2. s[j] = [key |-> s[j].key, val |-> s[j].val] /\ map[k] = s[j].val  BY <2>1, <1>2, <1>3 DEF Holds
  <2>3. s[j] = [key |-> k, val |-> map[k]]  BY ONLY <2>1, <2>2
  <2> QED  BY <2>3
<1>6. All = Want  BY <1>4, <1>5
<1> QED  BY <1>1, <1>6 DEF Lists

\* The entries of a leaf.
LEMMA LeafHolds ==
  ASSUME NEW n, NEW m, NEW A, LeafOK(n, m, A)
  PROVE  Holds(n.kvs, m, A)
<1>1. n \in Leafs  BY DEF LeafOK
<1>2. n.kvs \in KvSeqs  BY <1>1 DEF Leafs
<1> QED  BY <1>2 DEF LeafOK, Holds

\* No entries hold the map for no keys.
LEMMA EmptyHolds ==
  ASSUME NEW m
  PROVE  Holds(<<>>, m, {})
<1>1. <<>> \in KvSeqs /\ Len(<<>>) = 0  BY DEF KvSeqs
<1> QED  BY <1>1 DEF Holds, Ascending

\* One after the other.
LEMMA ConcatHolds ==
  ASSUME NEW m, NEW s, NEW A, Holds(s, m, A), NEW t, NEW B, Holds(t, m, B),
         A \subseteq Int, B \subseteq Int, \A k \in A, l \in B : k < l
  PROVE  Holds(s \o t, m, A \cup B)
<1>1. s \in KvSeqs /\ t \in KvSeqs /\ Len(s) \in Nat /\ Len(t) \in Nat  BY KvSeq DEF Holds
<1> DEFINE a == Len(s)
           b == Len(t)
           u == s \o t
<1>2. /\ u \in KvSeqs /\ Len(u) = a + b
      /\ \A j \in 1..(a + b) : u[j] = IF j <= a THEN s[j] ELSE t[j - a]
  <2>1. s \in Seq(Entries) /\ t \in Seq(Entries)  BY <1>1 DEF KvSeqs
  <2> QED  BY <2>1, ConcatIs DEF KvSeqs
<1>3. /\ \A j \in 1..a : s[j].key \in A /\ m[s[j].key] = s[j].val
      /\ \A j \in 1..b : t[j].key \in B /\ m[t[j].key] = t[j].val
  BY DEF Holds
<1> HIDE DEF u
<1>4. \A j \in 1..(a + b) : j > a => j - a \in 1..b  BY <1>1
<1>5. Ascending(u)
  <2> SUFFICES ASSUME NEW i \in 1..(a + b), NEW j \in 1..(a + b), i < j
               PROVE  u[i].key < u[j].key
    BY <1>2 DEF Ascending
  <2>1. CASE j <= a
    <3>1. i \in 1..a /\ j \in 1..a  BY <2>1, <1>1
    <3>2. u[i] = s[i] /\ u[j] = s[j]  BY <3>1, <2>1, <1>2
    <3> QED  BY <3>1, <3>2 DEF Holds, Ascending
  <2>2. CASE i <= a /\ j > a
    <3>1. i \in 1..a /\ j - a \in 1..b  BY <2>2, <1>1, <1>4
    <3>2. u[i] = s[i] /\ u[j] = t[j - a]  BY <3>1, <2>2, <1>2
    <3> QED  BY <3>1, <3>2, <1>3
  <2>3. CASE i > a
    <3>1. i - a \in 1..b /\ j - a \in 1..b /\ i - a < j - a /\ j > a  BY <2>3, <1>1, <1>4
    <3>2. u[i] = t[i - a] /\ u[j] = t[j - a]  BY <3>1, <2>3, <1>2
    <3> DEFINE p == i - a
               q == j - a
    <3>3. p \in 1..b /\ q \in 1..b /\ p < q /\ u[i] = t[p] /\ u[j] = t[q]  BY <3>1, <3>2
    <3> HIDE DEF p, q
    <3> QED  BY <3>3 DEF Holds, Ascending
  <2> QED  BY <2>1, <2>2, <2>3, <1>1
<1>6. \A j \in 1..Len(u) : u[j].key \in A \cup B /\ m[u[j].key] = u[j].val
  <2> TAKE j \in 1..Len(u)
  <2>1. CASE j <= a
    <3>1. j \in 1..a /\ u[j] = s[j]  BY <2>1, <1>1, <1>2
    <3> QED  BY <3>1, <1>3
  <2>2. CASE j > a
    <3>1. j - a \in 1..b /\ u[j] = t[j - a]  BY <2>2, <1>1, <1>2, <1>4
    <3> QED  BY <3>1, <1>3
  <2> QED  BY <2>1, <2>2, <1>1, <1>2
<1>7. \A k \in A \cup B : m[k] # Absent => Has(u, k)
  <2> TAKE k \in A \cup B
  <2> HAVE m[k] # Absent
  <2>1. CASE k \in A
    <3>1. PICK j \in 1..a : s[j].key = k  BY <2>1 DEF Holds, Has
    <3>2. j \in 1..Len(u) /\ u[j] = s[j]  BY <1>1, <1>2
    <3> QED  BY <3>1, <3>2 DEF Has
  <2>2. CASE k \in B
    <3>1. PICK j \in 1..b : t[j].key = k  BY <2>2 DEF Holds, Has
    <3> DEFINE i == a + j
    <3>2. i \in 1..Len(u) /\ i \in 1..(a + b) /\ ~(i <= a) /\ i - a = j  BY <1>1, <1>2
    <3> HIDE DEF i
    <3>3. u[i] = t[j]  BY <3>2, <1>2
    <3> QED  BY <3>1, <3>2, <3>3 DEF Has
  <2> QED  BY <2>1, <2>2
<1> QED  BY <1>2, <1>5, <1>6, <1>7 DEF Holds, u

\* The entries in a part of the sequence that is the entries of these keys.
LEMMA PartHolds ==
  ASSUME NEW m, NEW s, NEW A, Holds(s, m, A), NEW B, B \subseteq A, NEW a \in Nat, NEW b \in 0..Len(s), a <= b,
         \A j \in 1..Len(s) : s[j].key \in B <=> a < j /\ j <= b,
         NEW t, t = SubSeq(s, a + 1, b)
  PROVE  Holds(t, m, B)
<1>1. s \in KvSeqs /\ s \in Seq(Entries) /\ Len(s) \in Nat  BY KvSeq DEF Holds, KvSeqs
<1>2. /\ t \in Seq(Entries) /\ Len(t) = b - a
      /\ \A j \in 1..(b - a) : t[j] = s[a + j]
  <2> DEFINE c == a + 1
  <2>1. c \in Nat /\ c >= 1 /\ b + 1 - c = b - a /\ b - a \in Nat /\ t = SubSeq(s, c, b)  BY <1>1
  <2>2. t \in Seq(Entries) /\ Len(t) = b + 1 - c /\ \A j \in 1..(b + 1 - c) : t[j] = s[c + j - 1]
    <3> HIDE DEF c
    <3> QED  BY <1>1, <2>1
  <2>3. \A j \in 1..(b - a) : c + j - 1 = a + j  BY <1>1
  <2> QED  BY <2>1, <2>2, <2>3
<1>3. \A j \in 1..(b - a) : a + j \in 1..Len(s) /\ a < a + j /\ a + j <= b  BY <1>1
<1>4. Ascending(t)
  <2> SUFFICES ASSUME NEW i \in 1..(b - a), NEW j \in 1..(b - a), i < j
               PROVE  t[i].key < t[j].key
    BY <1>2 DEF Ascending
  <2> DEFINE p == a + i
             q == a + j
  <2>1. p \in 1..Len(s) /\ q \in 1..Len(s) /\ p < q /\ t[i] = s[p] /\ t[j] = s[q]  BY <1>1, <1>2, <1>3
  <2> HIDE DEF p, q
  <2> QED  BY <2>1 DEF Holds, Ascending
<1>5. \A j \in 1..Len(t) : t[j].key \in B /\ m[t[j].key] = t[j].val
  <2> TAKE j \in 1..Len(t)
  <2> DEFINE p == a + j
  <2>1. p \in 1..Len(s) /\ a < p /\ p <= b /\ t[j] = s[p]  BY <1>2, <1>3
  <2> HIDE DEF p
  <2> QED  BY <2>1 DEF Holds
<1>6. \A k \in B : m[k] # Absent => Has(t, k)
  <2> TAKE k \in B
  <2> HAVE m[k] # Absent
  <2>1. PICK j \in 1..Len(s) : s[j].key = k  BY DEF Holds, Has
  <2>2. a < j /\ j <= b  BY <2>1
  <2> DEFINE p == j - a
  <2>3. p \in 1..(b - a) /\ a + p = j /\ p \in 1..Len(t)  BY <2>2, <1>1, <1>2
  <2> HIDE DEF p
  <2>4. t[p] = s[j]  BY <2>3, <1>2
  <2> QED  BY <2>1, <2>3, <2>4 DEF Has
<1> QED  BY <1>2, <1>4, <1>5, <1>6 DEF Holds, KvSeqs

\* How the entries not below a key are gathered, one by one.
LEMMA NotBelowRec ==
  ASSUME NEW s \in KvSeqs, NEW from
  PROVE  \E u : /\ NotBelow(s, from) = u[Len(s)] /\ u[0] = <<>>
                /\ \A i \in 1..Len(s) : u[i] = IF s[i].key < from THEN u[i - 1] ELSE Append(u[i - 1], s[i])
<1> DEFINE Row(g, i) == IF i = 0 THEN <<>> ELSE IF s[i].key < from THEN g[i - 1] ELSE Append(g[i - 1], s[i])
           Is(g, n) == \A i \in 0..n : g[i] = Row(g, i)
           S == {n \in 0..Len(s) : \E g : Is(g, n)}
           taken[i \in 0..Len(s)] == IF i = 0 THEN <<>> ELSE IF s[i].key < from THEN taken[i - 1] ELSE Append(taken[i - 1], s[i])
<1>0. Len(s) \in Nat  BY KvSeq
<1>1. 0 \in S
  <2> DEFINE g == [i \in 0..0 |-> <<>>]
  <2>1. Is(g, 0)  OBVIOUS
  <2> HIDE DEF Is, g
  <2> QED  BY <2>1, <1>0
<1>2. ASSUME NEW n \in 0..(Len(s) - 1), n \in S  PROVE n + 1 \in S
  <2>1. PICK g : Is(g, n)
    <3> HIDE DEF Is
    <3> QED  BY <1>2
  <2> DEFINE h == [i \in 0..(n + 1) |-> IF i <= n THEN g[i] ELSE Row(g, i)]
  <2>2. n \in Nat /\ (\A i \in 0..n : h[i] = g[i]) /\ h[n + 1] = Row(g, n + 1)
    <3> HIDE DEF Row
    <3> QED  BY <1>0
  <2> HIDE DEF h
  <2>3. ASSUME NEW i \in 0..(n + 1)  PROVE Row(h, i) = Row(g, i)
    <3>1. CASE i = 0  BY <3>1
    <3>2. CASE i # 0
      <4>1. i - 1 \in 0..n  BY <3>2, <1>0
      <4>2. h[i - 1] = g[i - 1]  BY <4>1, <2>2
      <4> QED  BY <4>2
    <3> QED  BY <3>1, <3>2
  <2>4. Is(h, n + 1)
    <3> HIDE DEF Row
    <3>1. \A i \in 0..(n + 1) : i \in 0..n \/ i = n + 1  BY <1>0
    <3> QED  BY <3>1, <2>1, <2>2, <2>3
  <2> HIDE DEF Is
  <2> QED  BY <2>4, <1>0
<1>3. Len(s) \in S
  <2> SUFFICES ASSUME NEW N, N = Len(s)  PROVE N \in S
    OBVIOUS
  <2>1. N \in Nat /\ \A n \in 0..(N - 1) : n \in S => n + 1 \in S  BY <1>0, <1>2
  <2>2. 0..N \subseteq S
    <3> HIDE DEF S
    <3> QED  BY ONLY <2>1, <1>1, StepsFromZero
  <2>3. N \in 0..N  BY <2>1
  <2> HIDE DEF S
  <2> QED  BY ONLY <2>2, <2>3
<1>4. PICK g : Is(g, Len(s))
  <2> HIDE DEF Is
  <2> QED  BY <1>3
<1>5. [i \in 0..Len(s) |-> g[i]] = [i \in 0..Len(s) |-> Row([e \in 0..Len(s) |-> g[e]], i)]
  <2>1. ASSUME NEW i \in 0..Len(s)  PROVE g[i] = Row([e \in 0..Len(s) |-> g[e]], i)
    <3>1. CASE i = 0  BY <3>1, <1>4
    <3>2. CASE i # 0
      <4>1. i - 1 \in 0..Len(s)  BY <3>2, <1>0
      <4>2. [e \in 0..Len(s) |-> g[e]][i - 1] = g[i - 1]  BY <4>1
      <4> QED  BY <4>2, <1>4
    <3> QED  BY <3>1, <3>2
  <2> HIDE DEF Row
  <2> QED  BY <2>1
<1>6. taken = [i \in 0..Len(s) |-> Row(taken, i)]
  <2>1. \E f : f = [i \in 0..Len(s) |-> Row(f, i)]
    <3> HIDE DEF Row
    <3> QED  BY <1>5
  <2> QED  BY <2>1
<1>7. NotBelow(s, from) = taken[Len(s)]  BY DEF NotBelow
<1> HIDE DEF taken
<1>8. \A i \in 0..Len(s) : taken[i] = Row(taken, i)
  <2> HIDE DEF Row
  <2> QED  BY <1>6
<1>9. taken[0] = <<>>  BY <1>0, <1>8
<1>10. \A i \in 1..Len(s) : taken[i] = IF s[i].key < from THEN taken[i - 1] ELSE Append(taken[i - 1], s[i])
  BY <1>0, <1>8
<1> QED  BY <1>7, <1>9, <1>10

\* The concatenation of the members of a sequence, one by one.
LEMMA FlattenRec ==
  ASSUME NEW ss, Len(ss) \in Nat, Len(ss) >= 1
  PROVE  \E u : /\ FlattenSeq(ss) = u[Len(ss)] /\ u[1] = ss[1]
                /\ \A i \in 2..Len(ss) : u[i] = u[i - 1] \o ss[i]
<1> DEFINE Row(g, i) == IF i = 1 THEN ss[i] ELSE g[i - 1] \o ss[i]
           Is(g, n) == \A i \in 1..n : g[i] = Row(g, i)
           S == {n \in 0..Len(ss) : \E g : Is(g, n)}
           flatten[i \in 1..Len(ss)] == IF i = 1 THEN ss[i] ELSE flatten[i - 1] \o ss[i]
<1>0. Len(ss) \in Nat  BY KvSeq
<1>1. 0 \in S
  <2> DEFINE g == <<>>
  <2>1. Is(g, 0)
    <3>1. \A i \in 1..0 : FALSE  OBVIOUS
    <3> HIDE DEF Row, g
    <3> QED  BY <3>1
  <2> HIDE DEF Is, g
  <2> QED  BY <2>1, <1>0
<1>2. ASSUME NEW n \in 0..(Len(ss) - 1), n \in S  PROVE n + 1 \in S
  <2>1. PICK g : Is(g, n)
    <3> HIDE DEF Is
    <3> QED  BY <1>2
  <2> DEFINE h == [i \in 1..(n + 1) |-> IF i <= n THEN g[i] ELSE Row(g, i)]
  <2>2. n \in Nat /\ (\A i \in 1..n : h[i] = g[i]) /\ h[n + 1] = Row(g, n + 1)
    <3> HIDE DEF Row
    <3> QED  BY <1>0
  <2> HIDE DEF h
  <2>3. ASSUME NEW i \in 1..(n + 1)  PROVE Row(h, i) = Row(g, i)
    <3>1. CASE i = 1  BY <3>1
    <3>2. CASE i # 1
      <4>1. i - 1 \in 1..n  BY <3>2, <1>0
      <4>2. h[i - 1] = g[i - 1]  BY <4>1, <2>2
      <4> QED  BY <4>2
    <3> QED  BY <3>1, <3>2
  <2>4. Is(h, n + 1)
    <3> HIDE DEF Row
    <3>1. \A i \in 1..(n + 1) : i \in 1..n \/ i = n + 1  BY <1>0
    <3> QED  BY <3>1, <2>1, <2>2, <2>3
  <2> HIDE DEF Is
  <2> QED  BY <2>4, <1>0
<1>3. Len(ss) \in S
  <2> SUFFICES ASSUME NEW N, N = Len(ss)  PROVE N \in S
    OBVIOUS
  <2>1. N \in Nat /\ \A n \in 0..(N - 1) : n \in S => n + 1 \in S  BY <1>0, <1>2
  <2>2. 0..N \subseteq S
    <3> HIDE DEF S
    <3> QED  BY ONLY <2>1, <1>1, StepsFromZero
  <2>3. N \in 0..N  BY <2>1
  <2> HIDE DEF S
  <2> QED  BY ONLY <2>2, <2>3
<1>4. PICK g : Is(g, Len(ss))
  <2> HIDE DEF Is
  <2> QED  BY <1>3
<1>5. [i \in 1..Len(ss) |-> g[i]] = [i \in 1..Len(ss) |-> Row([e \in 1..Len(ss) |-> g[e]], i)]
  <2>1. ASSUME NEW i \in 1..Len(ss)  PROVE g[i] = Row([e \in 1..Len(ss) |-> g[e]], i)
    <3>1. CASE i = 1  BY <3>1, <1>4
    <3>2. CASE i # 1
      <4>1. i - 1 \in 1..Len(ss)  BY <3>2, <1>0
      <4>2. [e \in 1..Len(ss) |-> g[e]][i - 1] = g[i - 1]  BY <4>1
      <4> QED  BY <4>2, <1>4
    <3> QED  BY <3>1, <3>2
  <2> HIDE DEF Row
  <2> QED  BY <2>1
<1>6. flatten = [i \in 1..Len(ss) |-> Row(flatten, i)]
  <2>1. \E f : f = [i \in 1..Len(ss) |-> Row(f, i)]
    <3> HIDE DEF Row
    <3> QED  BY <1>5
  <2> QED  BY <2>1
<1>7. FlattenSeq(ss) = flatten[Len(ss)]  BY DEF FlattenSeq
<1> HIDE DEF flatten
<1>8. \A i \in 1..Len(ss) : flatten[i] = Row(flatten, i)
  <2> HIDE DEF Row
  <2> QED  BY <1>6
<1>9. flatten[1] = ss[1]
  <2>1. 1 \in 1..Len(ss)  BY <1>0
  <2> QED  BY <2>1, <1>8
<1>10. \A i \in 2..Len(ss) : flatten[i] = flatten[i - 1] \o ss[i]
  <2> TAKE i \in 2..Len(ss)
  <2>1. i \in 1..Len(ss) /\ i # 1  BY <1>0
  <2> QED  BY <2>1, <1>8
<1> QED  BY <1>7, <1>9, <1>10

\* The pages along the chain.
LEMMA WalkRec ==
  \E walk : /\ \A p : ChainFrom(p) = walk[MaxPages][p]
                   /\ \A d \in 0..MaxPages : \A q \in 0..MaxPages :
                        walk[d][q] = IF d = 0 \/ q = 0 THEN <<>> ELSE <<q>> \o walk[d - 1][page[q].next]
<1> DEFINE Row(g, d) == [q \in 0..MaxPages |-> IF d = 0 \/ q = 0 THEN <<>> ELSE <<q>> \o g[d - 1][page[q].next]]
           Is(g, n) == \A d \in 0..n : g[d] = Row(g, d)
           S == {n \in 0..MaxPages : \E g : Is(g, n)}
           walk[d \in 0..MaxPages] == [q \in 0..MaxPages |-> IF d = 0 \/ q = 0 THEN <<>> ELSE <<q>> \o walk[d - 1][page[q].next]]
<1>0. MaxPages \in Nat  BY TreeAssumption
<1>1. 0 \in S
  <2> DEFINE g == [d \in 0..0 |-> [q \in 0..MaxPages |-> <<>>]]
  <2>1. Is(g, 0)  OBVIOUS
  <2> HIDE DEF Is, g
  <2> QED  BY <2>1, <1>0
<1>2. ASSUME NEW n \in 0..(MaxPages - 1), n \in S  PROVE n + 1 \in S
  <2>1. PICK g : Is(g, n)
    <3> HIDE DEF Is
    <3> QED  BY <1>2
  <2> DEFINE h == [d \in 0..(n + 1) |-> IF d <= n THEN g[d] ELSE Row(g, d)]
  <2>2. n \in Nat /\ (\A d \in 0..n : h[d] = g[d]) /\ h[n + 1] = Row(g, n + 1)
    <3> HIDE DEF Row
    <3> QED  BY <1>0
  <2> HIDE DEF h
  <2>3. ASSUME NEW d \in 0..(n + 1)  PROVE Row(h, d) = Row(g, d)
    <3>1. CASE d = 0  BY <3>1
    <3>2. CASE d # 0
      <4>1. d - 1 \in 0..n  BY <3>2, <1>0
      <4>2. h[d - 1] = g[d - 1]  BY <4>1, <2>2
      <4> QED  BY <4>2
    <3> QED  BY <3>1, <3>2
  <2>4. Is(h, n + 1)
    <3> HIDE DEF Row
    <3>1. \A d \in 0..(n + 1) : d \in 0..n \/ d = n + 1  BY <1>0
    <3> QED  BY <3>1, <2>1, <2>2, <2>3
  <2> HIDE DEF Is
  <2> QED  BY <2>4, <1>0
<1>3. MaxPages \in S
  <2> SUFFICES ASSUME NEW N, N = MaxPages  PROVE N \in S
    OBVIOUS
  <2>1. N \in Nat /\ \A n \in 0..(N - 1) : n \in S => n + 1 \in S  BY <1>0, <1>2
  <2>2. 0..N \subseteq S
    <3> HIDE DEF S
    <3> QED  BY ONLY <2>1, <1>1, StepsFromZero
  <2>3. N \in 0..N  BY <2>1
  <2> HIDE DEF S
  <2> QED  BY ONLY <2>2, <2>3
<1>4. PICK g : Is(g, MaxPages)
  <2> HIDE DEF Is
  <2> QED  BY <1>3
<1>5. [d \in 0..MaxPages |-> g[d]] = [d \in 0..MaxPages |-> Row([e \in 0..MaxPages |-> g[e]], d)]
  <2>1. ASSUME NEW d \in 0..MaxPages  PROVE g[d] = Row([e \in 0..MaxPages |-> g[e]], d)
    <3>1. CASE d = 0  BY <3>1, <1>4
    <3>2. CASE d # 0
      <4>1. d - 1 \in 0..MaxPages  BY <3>2, <1>0
      <4>2. [e \in 0..MaxPages |-> g[e]][d - 1] = g[d - 1]  BY <4>1
      <4> QED  BY <4>2, <1>4
    <3> QED  BY <3>1, <3>2
  <2> HIDE DEF Row
  <2> QED  BY <2>1
<1>6. walk = [d \in 0..MaxPages |-> Row(walk, d)]
  <2>1. \E f : f = [d \in 0..MaxPages |-> Row(f, d)]
    <3> HIDE DEF Row
    <3> QED  BY <1>5
  <2> QED  BY <2>1
<1>7. \A p : ChainFrom(p) = walk[MaxPages][p]  BY DEF ChainFrom
<1> HIDE DEF walk
<1>8. \A d \in 0..MaxPages : walk[d] = Row(walk, d)
  <2> HIDE DEF Row
  <2> QED  BY <1>6
<1>9. \A d \in 0..MaxPages : \A q \in 0..MaxPages : walk[d][q] = Row(walk, d)[q]  BY <1>8
<1> QED  BY <1>7, <1>9

\* The descent to the leftmost leaf.
LEMMA LeftmostRec ==
  \E down : /\ LeftmostLeaf = down[MaxPages][Root]
                   /\ \A d \in 0..MaxPages : \A p \in Pages :
                        down[d][p] = IF d = 0 \/ page[p].type # "internal" THEN p ELSE down[d - 1][page[p].first]
<1> DEFINE Row(g, d) == [p \in Pages |-> IF d = 0 \/ page[p].type # "internal" THEN p ELSE g[d - 1][page[p].first]]
           Is(g, n) == \A d \in 0..n : g[d] = Row(g, d)
           S == {n \in 0..MaxPages : \E g : Is(g, n)}
           down[d \in 0..MaxPages] == [p \in Pages |-> IF d = 0 \/ page[p].type # "internal" THEN p ELSE down[d - 1][page[p].first]]
<1>0. MaxPages \in Nat  BY TreeAssumption
<1>1. 0 \in S
  <2> DEFINE g == [d \in 0..0 |-> [p \in Pages |-> p]]
  <2>1. Is(g, 0)  OBVIOUS
  <2> HIDE DEF Is, g
  <2> QED  BY <2>1, <1>0
<1>2. ASSUME NEW n \in 0..(MaxPages - 1), n \in S  PROVE n + 1 \in S
  <2>1. PICK g : Is(g, n)
    <3> HIDE DEF Is
    <3> QED  BY <1>2
  <2> DEFINE h == [d \in 0..(n + 1) |-> IF d <= n THEN g[d] ELSE Row(g, d)]
  <2>2. n \in Nat /\ (\A d \in 0..n : h[d] = g[d]) /\ h[n + 1] = Row(g, n + 1)
    <3> HIDE DEF Row
    <3> QED  BY <1>0
  <2> HIDE DEF h
  <2>3. ASSUME NEW d \in 0..(n + 1)  PROVE Row(h, d) = Row(g, d)
    <3>1. CASE d = 0  BY <3>1
    <3>2. CASE d # 0
      <4>1. d - 1 \in 0..n  BY <3>2, <1>0
      <4>2. h[d - 1] = g[d - 1]  BY <4>1, <2>2
      <4> QED  BY <4>2
    <3> QED  BY <3>1, <3>2
  <2>4. Is(h, n + 1)
    <3> HIDE DEF Row
    <3>1. \A d \in 0..(n + 1) : d \in 0..n \/ d = n + 1  BY <1>0
    <3> QED  BY <3>1, <2>1, <2>2, <2>3
  <2> HIDE DEF Is
  <2> QED  BY <2>4, <1>0
<1>3. MaxPages \in S
  <2> SUFFICES ASSUME NEW N, N = MaxPages  PROVE N \in S
    OBVIOUS
  <2>1. N \in Nat /\ \A n \in 0..(N - 1) : n \in S => n + 1 \in S  BY <1>0, <1>2
  <2>2. 0..N \subseteq S
    <3> HIDE DEF S
    <3> QED  BY ONLY <2>1, <1>1, StepsFromZero
  <2>3. N \in 0..N  BY <2>1
  <2> HIDE DEF S
  <2> QED  BY ONLY <2>2, <2>3
<1>4. PICK g : Is(g, MaxPages)
  <2> HIDE DEF Is
  <2> QED  BY <1>3
<1>5. [d \in 0..MaxPages |-> g[d]] = [d \in 0..MaxPages |-> Row([e \in 0..MaxPages |-> g[e]], d)]
  <2>1. ASSUME NEW d \in 0..MaxPages  PROVE g[d] = Row([e \in 0..MaxPages |-> g[e]], d)
    <3>1. CASE d = 0  BY <3>1, <1>4
    <3>2. CASE d # 0
      <4>1. d - 1 \in 0..MaxPages  BY <3>2, <1>0
      <4>2. [e \in 0..MaxPages |-> g[e]][d - 1] = g[d - 1]  BY <4>1
      <4> QED  BY <4>2, <1>4
    <3> QED  BY <3>1, <3>2
  <2> HIDE DEF Row
  <2> QED  BY <2>1
<1>6. down = [d \in 0..MaxPages |-> Row(down, d)]
  <2>1. \E f : f = [d \in 0..MaxPages |-> Row(f, d)]
    <3> HIDE DEF Row
    <3> QED  BY <1>5
  <2> QED  BY <2>1
<1>7. LeftmostLeaf = down[MaxPages][Root]  BY DEF LeftmostLeaf
<1> HIDE DEF down
<1>8. \A d \in 0..MaxPages : down[d] = Row(down, d)
  <2> HIDE DEF Row
  <2> QED  BY <1>6
<1>9. \A d \in 0..MaxPages : \A p \in Pages : down[d][p] = Row(down, d)[p]  BY <1>8
<1> QED  BY <1>7, <1>9

\* The entries up to a key, and those from a key on.
LEMMA UpToHolds ==
  ASSUME NEW m, NEW s, NEW A, Holds(s, m, A), NEW k \in Int, NEW B, B = {x \in A : x <= k}
  PROVE  Holds(UpTo(s, k), m, B)
<1> DEFINE R == {i \in 1..Len(s) : \A j \in 1..i : s[j].key <= k}
           b == Cardinality(R)
<1>1. s \in KvSeqs /\ Ascending(s) /\ Len(s) \in Nat /\ \A j \in 1..Len(s) : s[j].key \in Int /\ s[j].key \in A
  BY KvSeq DEF Holds
<1>2. R \subseteq 1..Len(s) /\ \A i \in R : \A j \in 1..i : j \in R
  BY <1>1
<1>3. b \in 0..Len(s) /\ R = 1..b
  <2> HIDE DEF R
  <2> QED  BY <1>1, <1>2, Segment
<1>4. \A j \in 1..Len(s) : j \in R <=> s[j].key <= k
  <2> TAKE j \in 1..Len(s)
  <2>1. ASSUME s[j].key <= k, NEW i \in 1..j  PROVE s[i].key <= k
    <3>1. i \in 1..Len(s)  BY <1>1
    <3>2. i = j \/ s[i].key < s[j].key  BY <3>1, <1>1 DEF Ascending
    <3> QED  BY <3>1, <3>2, <2>1, <1>1
  <2> QED  BY <1>1, <2>1
<1>5. UpTo(s, k) = SubSeq(s, 0 + 1, b)  BY DEF UpTo
<1> HIDE DEF b
<1>6. \A j \in 1..Len(s) : s[j].key \in B <=> 0 < j /\ j <= b
  <2> TAKE j \in 1..Len(s)
  <2>1. j \in R <=> 0 < j /\ j <= b
    <3> HIDE DEF R
    <3> QED  BY <1>1, <1>3
  <2> HIDE DEF R
  <2> QED  BY <2>1, <1>1, <1>4
<1>7. 0 <= b /\ 0 \in Nat  BY <1>1, <1>3
<1> HIDE DEF R
<1> QED  BY <1>3, <1>5, <1>6, <1>7, PartHolds

\* The entries from a key on.
LEMMA SkipHolds ==
  ASSUME NEW m, NEW s, NEW A, Holds(s, m, A), NEW k \in Keys, NEW B, B = {x \in A : x >= k}
  PROVE  Holds(SubSeq(s, Below(s, k) + 1, Len(s)), m, B)
<1>1. s \in KvSeqs /\ Ascending(s) /\ Len(s) \in Nat /\ \A j \in 1..Len(s) : s[j].key \in Int /\ s[j].key \in A
  BY KvSeq DEF Holds
<1>2. Below(s, k) \in 0..Len(s) /\ \A j \in 1..Len(s) : j <= Below(s, k) <=> s[j].key < k
  BY <1>1, KvBelow
<1>3. PICK b : b = Below(s, k)  OBVIOUS
<1>4. PICK c : c = Len(s)  OBVIOUS
<1>5. k \in Int  BY TreeAssumption
<1>6. \A j \in 1..Len(s) : s[j].key \in B <=> b < j /\ j <= c
  <2> TAKE j \in 1..Len(s)
  <2>1. j <= b <=> s[j].key < k  BY <1>2, <1>3
  <2>2. s[j].key \in B <=> s[j].key >= k  BY <1>1
  <2>3. s[j].key \in Int /\ b \in Int /\ j \in Int /\ j <= c  BY <1>1, <1>2, <1>3, <1>4
  <2> QED  BY ONLY <2>1, <2>2, <2>3, <1>5
<1>7. b \in Nat /\ c \in 0..Len(s) /\ b <= c  BY <1>1, <1>2, <1>3, <1>4
<1>8. Holds(SubSeq(s, b + 1, c), m, B)
  BY <1>6, <1>7, PartHolds
<1> QED  BY <1>3, <1>4, <1>8

\* range skips the entries below its lower bound one by one.
LEMMA NotBelowIs ==
  ASSUME NEW s \in KvSeqs, Ascending(s), NEW k \in Keys
  PROVE  NotBelow(s, k) = SubSeq(s, Below(s, k) + 1, Len(s))
<1>1. Len(s) \in Nat /\ s \in Seq(Entries)  BY KvSeq DEF KvSeqs
<1>2. Below(s, k) \in 0..Len(s) /\ \A j \in 1..Len(s) : j <= Below(s, k) <=> s[j].key < k
  BY KvBelow
<1>3. PICK b : b = Below(s, k)  OBVIOUS
<1>4. PICK u : /\ NotBelow(s, k) = u[Len(s)] /\ u[0] = <<>>
               /\ \A i \in 1..Len(s) : u[i] = IF s[i].key < k THEN u[i - 1] ELSE Append(u[i - 1], s[i])
  BY NotBelowRec
<1> DEFINE S == {n \in 0..Len(s) : u[n] = SubSeq(s, b + 1, n)}
<1>5. 0 \in S
  <2>1. SubSeq(s, b + 1, 0) = <<>>  BY <1>1, <1>2, <1>3
  <2>2. 0 \in 0..Len(s)  BY <1>1
  <2>3. u[0] = SubSeq(s, b + 1, 0)  BY <2>1, <1>4
  <2> QED  BY ONLY <2>2, <2>3
<1>6. ASSUME NEW n \in 0..(Len(s) - 1), n \in S  PROVE n + 1 \in S
  <2>1. PICK i : i = n + 1  OBVIOUS
  <2>2. i \in 1..Len(s) /\ i - 1 = n /\ i \in 0..Len(s) /\ n \in Nat /\ b \in Nat  BY <2>1, <1>1, <1>2, <1>3
  <2>3. u[i] = IF i <= b THEN u[n] ELSE Append(u[n], s[i])  BY <2>2, <1>2, <1>3, <1>4
  <2>4. u[n] = SubSeq(s, b + 1, n)  BY <1>6
  <2>5. CASE i <= b
    <3>1. SubSeq(s, b + 1, n) = <<>> /\ SubSeq(s, b + 1, i) = <<>>  BY <2>2, <2>5, <1>1
    <3> QED  BY <3>1, <2>1, <2>2, <2>3, <2>4, <2>5
  <2>6. CASE ~(i <= b)
    <3>1. Append(SubSeq(s, b + 1, n), s[i]) = SubSeq(s, b + 1, i)
      BY ONLY <2>1, <2>2, <2>6, <1>1
    <3> QED  BY <3>1, <2>1, <2>2, <2>3, <2>4, <2>6
  <2> QED  BY <2>5, <2>6
<1>7. Len(s) \in S
  <2> SUFFICES ASSUME NEW N, N = Len(s)  PROVE N \in S
    OBVIOUS
  <2>1. N \in Nat /\ \A n \in 0..(N - 1) : n \in S => n + 1 \in S  BY <1>1, <1>6
  <2> HIDE DEF S
  <2>2. 0..N \subseteq S  BY ONLY <2>1, <1>5, StepsFromZero
  <2>3. N \in 0..N  BY <2>1
  <2> QED  BY ONLY <2>2, <2>3
<1> QED  BY <1>3, <1>4, <1>7

\* So what range skips are the entries below the bound.
LEMMA NotBelowHolds ==
  ASSUME NEW m, NEW s, NEW A, Holds(s, m, A), NEW k \in Keys, NEW B, B = {x \in A : x >= k}
  PROVE  Holds(NotBelow(s, k), m, B)
<1>1. s \in KvSeqs /\ Ascending(s)  BY DEF Holds
<1>2. NotBelow(s, k) = SubSeq(s, Below(s, k) + 1, Len(s))  BY <1>1, NotBelowIs
<1> QED  BY <1>2, SkipHolds

\* The place b of the line of leaves, and 0 behind its end.
Stop(ls, b) == IF b = Len(ls) + 1 THEN 0 ELSE ls[b]

\* The line of leaves is finite and linked.
LEMMA LineFacts ==
  ASSUME NEW h, NEW r, NEW f, NEW ls, Good(h, r, f, ls)
  PROVE  /\ ls \in Seq(Pages) /\ Len(ls) \in Nat /\ Len(ls) <= MaxPages /\ MaxPages \in Nat
         /\ \A a \in 1..Len(ls) : ls[a] \in Pages /\ ls[a] \in 0..MaxPages /\ ls[a] # 0
         /\ \A a \in 1..Len(ls) : page[ls[a]].next = Stop(ls, a + 1)
<1>1. ls \in Seq(Pages) /\ Len(ls) <= count /\ count \in Pages /\ Linked(page, ls)
  BY DEF Good, Chain, InLine, Typed
<1>2. Len(ls) \in Nat /\ \A a \in 1..Len(ls) : ls[a] \in Pages  BY <1>1
<1>3. MaxPages \in Nat /\ Pages = 1..MaxPages  BY TreeAssumption DEF Pages
<1>4. \A p \in Pages : p \in 0..MaxPages /\ p # 0  BY <1>3
<1>5. count \in 1..MaxPages  BY <1>1, <1>3
<1>6. ASSUME NEW a \in 1..Len(ls)  PROVE page[ls[a]].next = Stop(ls, a + 1)
  <2>1. page[ls[a]].next = IF a = Len(ls) THEN 0 ELSE ls[a + 1]  BY <1>1 DEF Linked
  <2>2. a = Len(ls) <=> a + 1 = Len(ls) + 1  BY <1>2
  <2> QED  BY <2>1, <2>2 DEF Stop
<1> QED  BY <1>1, <1>2, <1>3, <1>4, <1>5, <1>6

\* The chain from a place of the line is the rest of the line.
LEMMA ChainIs ==
  ASSUME NEW h, NEW r, NEW f, NEW ls, Good(h, r, f, ls), NEW b \in 1..(Len(ls) + 1)
  PROVE  ChainFrom(Stop(ls, b)) = SubSeq(ls, b, Len(ls))
<1> DEFINE len == Len(ls)
<1>1. /\ ls \in Seq(Pages) /\ len \in Nat /\ len <= MaxPages /\ MaxPages \in Nat
      /\ \A a \in 1..len : ls[a] \in Pages /\ ls[a] \in 0..MaxPages /\ ls[a] # 0
      /\ \A a \in 1..len : page[ls[a]].next = Stop(ls, a + 1)
  BY LineFacts
<1>2. PICK walk : /\ \A p : ChainFrom(p) = walk[MaxPages][p]
                  /\ \A d \in 0..MaxPages : \A q \in 0..MaxPages :
                       walk[d][q] = IF d = 0 \/ q = 0 THEN <<>> ELSE <<q>> \o walk[d - 1][page[q].next]
  BY WalkRec
<1> DEFINE Right(e) == \A d \in e..MaxPages : walk[d][Stop(ls, len + 1 - e)] = SubSeq(ls, len + 1 - e, len)
           S == {e \in 0..len : Right(e)}
<1>3. 0 \in S
  <2>1. Stop(ls, len + 1) = 0  BY DEF Stop
  <2>2. SubSeq(ls, len + 1, len) = <<>>  BY <1>1
  <2>3. \A d \in 0..MaxPages : walk[d][0] = <<>>
    <3>1. 0 \in 0..MaxPages  BY <1>1
    <3> QED  BY <3>1, <1>2
  <2>4. len + 1 - 0 = len + 1 /\ 0 \in 0..len  BY <1>1
  <2> HIDE DEF len
  <2> QED  BY <2>1, <2>2, <2>3, <2>4
<1>4. ASSUME NEW e \in 0..(len - 1), e \in S  PROVE e + 1 \in S
  <2>1. PICK c : c = len - e  OBVIOUS
  <2>2. /\ c \in 1..len /\ len + 1 - (e + 1) = c /\ len + 1 - e = c + 1 /\ e + 1 \in 0..len /\ e \in Nat
        /\ c # len + 1
    BY <2>1, <1>1
  <2>3. Stop(ls, c) = ls[c]  BY <2>2 DEF Stop
  <2>4. ASSUME NEW d \in (e + 1)..MaxPages  PROVE walk[d][ls[c]] = SubSeq(ls, c, len)
    <3>1. d \in 0..MaxPages /\ d # 0 /\ d - 1 \in e..MaxPages  BY <2>2, <1>1
    <3>2. walk[d][ls[c]] = <<ls[c]>> \o walk[d - 1][page[ls[c]].next]  BY <3>1, <2>2, <1>1, <1>2
    <3>3. walk[d - 1][Stop(ls, c + 1)] = SubSeq(ls, c + 1, len)  BY <3>1, <1>4, <2>2
    <3>4. page[ls[c]].next = Stop(ls, c + 1)  BY <2>2, <1>1
    <3>5. <<ls[c]>> \o SubSeq(ls, c + 1, len) = SubSeq(ls, c, len)
      <4>1. ls \in Seq(Pages) /\ len = Len(ls) /\ c \in 1..Len(ls)  BY <1>1, <2>2
      <4> HIDE DEF len
      <4> QED  BY ONLY <4>1
    <3> QED  BY <3>2, <3>3, <3>4, <3>5
  <2>5. Right(e + 1)  BY <2>2, <2>3, <2>4
  <2> HIDE DEF Right
  <2> QED  BY <2>2, <2>5
<1>5. 0..len \subseteq S
  <2> HIDE DEF S, len
  <2> QED  BY <1>1, <1>3, <1>4, StepsFromZero
<1>6. PICK e : e = len + 1 - b  OBVIOUS
<1>7. e \in 0..len /\ len + 1 - e = b /\ MaxPages \in e..MaxPages  BY <1>1, <1>6
<1>8. Right(e)
  <2> HIDE DEF Right
  <2> QED  BY <1>5, <1>7
<1>9. walk[MaxPages][Stop(ls, b)] = SubSeq(ls, b, len)  BY <1>7, <1>8
<1> QED  BY <1>2, <1>9

\* The keys of the leaves from place b to place c of the line.
KeysOf(r, ls, b, c) == {k \in Keys : \E a \in b..c : r[0][k] = ls[a]}

\* A leaf of the line holds the map for its keys.
LEMMA LeafAt ==
  ASSUME NEW h, NEW r, NEW f, NEW ls, Good(h, r, f, ls), NEW a \in 1..Len(ls)
  PROVE  Holds(page[ls[a]].kvs, map, KeysOf(r, ls, a, a))
<1>1. PICK k \in Keys : ls[a] = r[0][k]  BY DEF Good, Chain, InLine
<1>2. LeafOK(page[r[0][k]], map, {l \in Keys : r[0][l] = r[0][k]})  BY DEF Good, LeavesOK
<1>3. Holds(page[ls[a]].kvs, map, {l \in Keys : r[0][l] = ls[a]})  BY <1>1, <1>2, LeafHolds
<1>4. {l \in Keys : r[0][l] = ls[a]} = KeysOf(r, ls, a, a)
  <2>1. a \in Int  BY LineFacts
  <2>2. \A c \in a..a : c = a  BY <2>1
  <2>3. a \in a..a  BY <2>1
  <2> QED  BY <2>2, <2>3 DEF KeysOf
<1> QED  BY <1>3, <1>4

\* No leaves have no entries.
LEMMA NoEntries ==
  ASSUME NEW s, s = <<>>
  PROVE  EntriesOf(s) = <<>>
<1>1. Len(s) = 0  OBVIOUS
<1>2. [i \in 1..Len(s) |-> page[s[i]].kvs] = <<>>
  <2>1. \A i \in 1..Len(s) : FALSE  BY <1>1
  <2> QED  BY <1>1, <2>1
<1>3. EntriesOf(s) = FlattenSeq(<<>>)  BY <1>2 DEF EntriesOf
<1> QED  BY <1>3 DEF FlattenSeq

\* Leaf by leaf.
LEMMA EntriesRec ==
  ASSUME NEW s, Len(s) \in Nat, Len(s) >= 1
  PROVE  \E u : /\ EntriesOf(s) = u[Len(s)] /\ u[1] = page[s[1]].kvs
                /\ \A i \in 2..Len(s) : u[i] = u[i - 1] \o page[s[i]].kvs
<1> DEFINE ss == [i \in 1..Len(s) |-> page[s[i]].kvs]
<1>1. Len(ss) = Len(s) /\ \A i \in 1..Len(s) : ss[i] = page[s[i]].kvs  OBVIOUS
<1>2. EntriesOf(s) = FlattenSeq(ss)  BY DEF EntriesOf
<1> HIDE DEF ss
<1>3. PICK u : /\ FlattenSeq(ss) = u[Len(ss)] /\ u[1] = ss[1]
               /\ \A i \in 2..Len(ss) : u[i] = u[i - 1] \o ss[i]
  BY <1>1, FlattenRec
<1>4. 1 \in 1..Len(s) /\ \A i \in 2..Len(s) : i \in 1..Len(s)  OBVIOUS
<1>5. EntriesOf(s) = u[Len(s)] /\ u[1] = page[s[1]].kvs  BY <1>1, <1>2, <1>3, <1>4
<1>6. \A i \in 2..Len(s) : u[i] = u[i - 1] \o page[s[i]].kvs  BY <1>1, <1>3, <1>4
<1> QED  BY <1>5, <1>6

\* The leaves from a place on hold the map for their keys.
LEMMA EntriesFrom ==
  ASSUME NEW h, NEW r, NEW f, NEW ls, Good(h, r, f, ls), NEW b \in 1..(Len(ls) + 1)
  PROVE  Holds(EntriesOf(SubSeq(ls, b, Len(ls))), map, KeysOf(r, ls, b, Len(ls)))
<1>0. PICK len : len = Len(ls)  OBVIOUS
<1>1. ls \in Seq(Pages) /\ len \in Nat /\ \A a \in 1..len : ls[a] \in Pages
  BY <1>0, LineFacts
<1>2. CASE b = len + 1
  <2>1. SubSeq(ls, b, len) = <<>>  BY <1>0, <1>1, <1>2
  <2>2. KeysOf(r, ls, b, len) = {}
    <3>1. b..len = {}  BY <1>1, <1>2
    <3> QED  BY <3>1 DEF KeysOf
  <2> QED  BY <2>1, <2>2, <1>0, NoEntries, EmptyHolds
<1>3. CASE b # len + 1
  <2>1. PICK s : s = SubSeq(ls, b, len)  OBVIOUS
  <2>2. PICK n : n = len + 1 - b  OBVIOUS
  <2>3. b \in 1..len /\ n \in Nat /\ n >= 1 /\ b + n - 1 = len /\ b \in Nat  BY <1>0, <1>1, <1>3, <2>2
  <2>4. Len(s) = n /\ \A i \in 1..n : s[i] = ls[b + i - 1]
    BY ONLY <1>1, <1>0, <2>1, <2>2, <2>3
  <2>5. PICK u : /\ EntriesOf(s) = u[Len(s)] /\ u[1] = page[s[1]].kvs
                 /\ \A i \in 2..Len(s) : u[i] = u[i - 1] \o page[s[i]].kvs
    BY <2>3, <2>4, EntriesRec
  <2>6. ASSUME NEW a \in b..len  PROVE Holds(page[ls[a]].kvs, map, KeysOf(r, ls, a, a))
    <3>1. a \in 1..Len(ls)  BY <2>3, <1>0
    <3> QED  BY <3>1, LeafAt
  <2> DEFINE Right(i) == Holds(u[i], map, KeysOf(r, ls, b, b + i - 1))
             S == {j \in 0..(n - 1) : Right(j + 1)}
  <2>7. 0 \in S
    <3>1. 1 \in 1..n /\ b + 1 - 1 = b /\ b \in b..len /\ 0 \in 0..(n - 1) /\ 0 + 1 = 1  BY <2>3
    <3>2. s[1] = ls[b]  BY <3>1, <2>4
    <3>3. Right(1)  BY <3>1, <3>2, <2>5, <2>6
    <3> HIDE DEF Right
    <3> QED  BY <3>1, <3>3
  <2>8. ASSUME NEW j \in 0..((n - 1) - 1), j \in S  PROVE j + 1 \in S
    <3>1. PICK i : i = j + 2  OBVIOUS
    <3>2. PICK a : a = b + i - 1  OBVIOUS
    <3>3. /\ i \in 2..n /\ i \in 1..n /\ a \in b..len /\ a \in 1..len /\ i - 1 = j + 1 /\ b + (i - 1) - 1 = a - 1
          /\ j + 1 \in 0..(n - 1) /\ (j + 1) + 1 = i
      BY <3>1, <3>2, <2>3
    <3>4. u[i] = u[i - 1] \o page[ls[a]].kvs  BY <3>2, <3>3, <2>4, <2>5
    <3>5. Holds(u[i - 1], map, KeysOf(r, ls, b, a - 1))
      <4>1. Right(j + 1)
        <5> HIDE DEF Right
        <5> QED  BY <2>8
      <4>2. Holds(u[j + 1], map, KeysOf(r, ls, b, b + (j + 1) - 1))  BY <4>1
      <4>3. b + (j + 1) - 1 = a - 1  BY <3>3
      <4> QED  BY ONLY <4>2, <4>3, <3>3
    <3>6. Holds(page[ls[a]].kvs, map, KeysOf(r, ls, a, a))  BY <3>3, <2>6
    <3>7. \A k \in KeysOf(r, ls, b, a - 1), l \in KeysOf(r, ls, a, a) : k < l
      <4> TAKE k \in KeysOf(r, ls, b, a - 1), l \in KeysOf(r, ls, a, a)
      <4>1. k \in Keys /\ l \in Keys  BY DEF KeysOf
      <4>2. PICK c \in b..(a - 1) : r[0][k] = ls[c]  BY DEF KeysOf
      <4>3. PICK e \in a..a : r[0][l] = ls[e]  BY DEF KeysOf
      <4>4. c \in 1..Len(ls) /\ a \in 1..Len(ls) /\ c < a /\ e = a  BY <3>3, <2>3, <1>0
      <4>5. Sorted(r[0], ls)  BY DEF Good, Chain, InLine
      <4> QED  BY <4>1, <4>2, <4>3, <4>4, <4>5 DEF Sorted
    <3>8. KeysOf(r, ls, b, a - 1) \cup KeysOf(r, ls, a, a) = KeysOf(r, ls, b, a)
      <4>1. \A c : c \in b..a <=> c \in b..(a - 1) \/ c \in a..a  BY <3>3, <2>3
      <4> QED  BY <4>1 DEF KeysOf
    <3>9. KeysOf(r, ls, b, a - 1) \subseteq Int /\ KeysOf(r, ls, a, a) \subseteq Int
      BY TreeAssumption DEF KeysOf
    <3>10. Holds(u[i], map, KeysOf(r, ls, b, a))
      <4>1. Holds(u[i - 1] \o page[ls[a]].kvs, map, KeysOf(r, ls, b, a - 1) \cup KeysOf(r, ls, a, a))
        BY <3>5, <3>6, <3>7, <3>9, ConcatHolds
      <4> QED  BY <4>1, <3>4, <3>8
    <3>11. Right(i)  BY <3>2, <3>10
    <3> HIDE DEF Right
    <3> QED  BY <3>3, <3>11
  <2>9. 0..(n - 1) \subseteq S
    <3>1. PICK N : N = n - 1  OBVIOUS
    <3>2. N \in Nat /\ \A j \in 0..(N - 1) : j \in S => j + 1 \in S  BY <3>1, <2>3, <2>8
    <3> HIDE DEF S
    <3>3. 0..N \subseteq S  BY <3>2, <2>7, StepsFromZero
    <3> QED  BY <3>1, <3>3
  <2>10. Right(n)
    <3>1. n - 1 \in 0..(n - 1) /\ (n - 1) + 1 = n  BY <2>3
    <3> HIDE DEF Right
    <3>2. n - 1 \in S  BY <3>1, <2>9
    <3> QED  BY <3>1, <3>2
  <2> QED  BY <2>1, <2>3, <2>4, <2>5, <2>10, <1>0
<1> QED  BY <1>2, <1>3

\* The leaves of later places hold the greater keys.
LEMMA PlacesApart ==
  ASSUME NEW h, NEW r, NEW f, NEW ls, Good(h, r, f, ls),
         NEW a \in 1..Len(ls), NEW b \in 1..Len(ls), a < b,
         NEW k \in KeysOf(r, ls, a, a), NEW l \in KeysOf(r, ls, b, Len(ls))
  PROVE  k < l
<1>1. k \in Keys /\ l \in Keys /\ Len(ls) \in Nat  BY LineFacts DEF KeysOf
<1>2. PICK c \in a..a : r[0][k] = ls[c]  BY DEF KeysOf
<1>3. PICK d \in b..Len(ls) : r[0][l] = ls[d]  BY DEF KeysOf
<1>4. c = a /\ d \in 1..Len(ls) /\ a < d  BY <1>1
<1>5. Sorted(r[0], ls)  BY DEF Good, Chain, InLine
<1> QED  BY <1>1, <1>2, <1>3, <1>4, <1>5 DEF Sorted

\* From the leaf of a key on, the leaves hold every key that is not below it.
LEMMA KeysFrom ==
  ASSUME NEW h, NEW r, NEW f, NEW ls, Good(h, r, f, ls), NEW from \in Keys,
         NEW b \in 1..Len(ls), ls[b] = r[0][from], NEW x \in Keys, x >= from
  PROVE  x \in KeysOf(r, ls, b, Len(ls))
<1>1. Len(ls) \in Nat /\ x \in Int /\ from \in Int  BY LineFacts, TreeAssumption
<1>2. PICK a \in 1..Len(ls) : ls[a] = r[0][x]  BY DEF Good, Chain, InLine
<1>3. ~(a < b)
  <2>1. Sorted(r[0], ls)  BY DEF Good, Chain, InLine
  <2>2. a < b => x < from  BY <1>2, <2>1 DEF Sorted
  <2> QED  BY <2>2, <1>1
<1>4. a \in b..Len(ls)  BY <1>1, <1>3
<1> QED  BY <1>2, <1>4 DEF KeysOf

\* The leaf a lookup finds has a place in the line.
LEMMA FoundPlace ==
  ASSUME NEW h, NEW r, NEW ls, Good(h, r, -1, ls), NEW from \in Keys
  PROVE  \E b \in 1..Len(ls) : /\ FindLeaf(from) = ls[b] /\ ls[b] = r[0][from]
                               /\ FindLeaf(from) = Stop(ls, b) /\ page[FindLeaf(from)].next = Stop(ls, b + 1)
                               /\ b \in 1..(Len(ls) + 1) /\ b + 1 \in 1..(Len(ls) + 1)
<1>1. FindLeaf(from) = r[0][from]  BY FoundLeaf
<1>2. PICK b \in 1..Len(ls) : ls[b] = r[0][from]  BY DEF Good, Chain, InLine
<1>3. Len(ls) \in Nat /\ page[ls[b]].next = Stop(ls, b + 1)  BY LineFacts
<1>4. b # Len(ls) + 1 /\ b \in 1..(Len(ls) + 1) /\ b + 1 \in 1..(Len(ls) + 1)  BY <1>3
<1>5. Stop(ls, b) = ls[b]  BY <1>4 DEF Stop
<1> QED  BY <1>1, <1>2, <1>3, <1>4, <1>5

\* range.
LEMMA RangeHolds ==
  ASSUME NEW h, NEW r, NEW ls, Good(h, r, -1, ls), NEW from \in Keys, NEW to \in Keys
  PROVE  Holds(UpTo(NotBelow(EntriesOf(ChainFrom(FindLeaf(from))), from), to), map,
               {x \in Keys : from <= x /\ x <= to})
<1>1. PICK b \in 1..Len(ls) : /\ ls[b] = r[0][from] /\ FindLeaf(from) = Stop(ls, b)
                              /\ b \in 1..(Len(ls) + 1)
  BY FoundPlace
<1>2. ChainFrom(FindLeaf(from)) = SubSeq(ls, b, Len(ls))  BY <1>1, ChainIs
<1>3. PICK s : s = EntriesOf(ChainFrom(FindLeaf(from)))  OBVIOUS
<1>4. Holds(s, map, KeysOf(r, ls, b, Len(ls)))  BY <1>1, <1>2, <1>3, EntriesFrom
<1>5. Holds(NotBelow(s, from), map, {x \in KeysOf(r, ls, b, Len(ls)) : x >= from})  BY <1>4, NotBelowHolds
<1>6. {x \in KeysOf(r, ls, b, Len(ls)) : x >= from} = {x \in Keys : x >= from}
  <2>1. \A x \in Keys : x >= from => x \in KeysOf(r, ls, b, Len(ls))  BY <1>1, KeysFrom
  <2>2. \A x \in KeysOf(r, ls, b, Len(ls)) : x \in Keys  BY DEF KeysOf
  <2> QED  BY <2>1, <2>2
<1>7. to \in Int  BY TreeAssumption
<1>8. Holds(UpTo(NotBelow(s, from), to), map, {x \in {y \in Keys : y >= from} : x <= to})
  BY <1>5, <1>6, <1>7, UpToHolds
<1>9. {x \in {y \in Keys : y >= from} : x <= to} = {x \in Keys : from <= x /\ x <= to}
  <2>1. \A x \in Keys : x >= from <=> from <= x  BY TreeAssumption
  <2> QED  BY <2>1
<1> QED  BY <1>3, <1>8, <1>9

\* cursor_range.
LEMMA CursorHolds ==
  ASSUME NEW h, NEW r, NEW ls, Good(h, r, -1, ls), NEW from \in Keys, NEW to \in Keys,
         NEW first, first = FindLeaf(from), NEW kvs, kvs = page[first].kvs
  PROVE  Holds(UpTo(SubSeq(kvs, Below(kvs, from) + 1, Len(kvs)) \o EntriesOf(ChainFrom(page[first].next)), to), map,
               {x \in Keys : from <= x /\ x <= to})
<1>1. PICK b \in 1..Len(ls) : /\ ls[b] = r[0][from] /\ FindLeaf(from) = ls[b]
                              /\ page[FindLeaf(from)].next = Stop(ls, b + 1)
                              /\ b + 1 \in 1..(Len(ls) + 1)
  BY FoundPlace
<1>a. PICK c : c = b + 1  OBVIOUS
<1>b. Len(ls) \in Nat  BY LineFacts
<1>2. ChainFrom(page[first].next) = SubSeq(ls, c, Len(ls))
  <2>1. c \in 1..(Len(ls) + 1) /\ page[first].next = Stop(ls, c)  BY <1>1, <1>a
  <2> QED  BY <2>1, ChainIs
<1>3. PICK t : t = EntriesOf(ChainFrom(page[first].next))  OBVIOUS
<1>4. Holds(t, map, KeysOf(r, ls, c, Len(ls)))
  <2>1. c \in 1..(Len(ls) + 1)  BY <1>1, <1>a
  <2> QED  BY <2>1, <1>2, <1>3, EntriesFrom
<1>5. Holds(kvs, map, KeysOf(r, ls, b, b))  BY <1>1, LeafAt
<1>6. PICK s : s = SubSeq(kvs, Below(kvs, from) + 1, Len(kvs))  OBVIOUS
<1>7. PICK A : A = {x \in KeysOf(r, ls, b, b) : x >= from}  OBVIOUS
<1>8. PICK B : B = KeysOf(r, ls, c, Len(ls))  OBVIOUS
<1>9. Holds(s, map, A)  BY <1>5, <1>6, <1>7, SkipHolds
<1>10. A \subseteq Keys /\ B \subseteq Keys /\ A \subseteq Int /\ B \subseteq Int
  BY <1>7, <1>8, TreeAssumption DEF KeysOf
<1>11. \A k \in A, l \in B : k < l
  <2> TAKE k \in A, l \in B
  <2>1. k \in KeysOf(r, ls, b, b) /\ l \in KeysOf(r, ls, c, Len(ls))  BY <1>7, <1>8
  <2>2. c \in 1..Len(ls)
    <3>1. PICK d \in c..Len(ls) : TRUE  BY <2>1 DEF KeysOf
    <3> QED  BY <3>1, <1>a, <1>b
  <2>3. b < c  BY <1>a, <1>b
  <2> QED  BY <2>1, <2>2, <2>3, PlacesApart
<1>12. Holds(s \o t, map, A \cup B)  BY <1>4, <1>8, <1>9, <1>10, <1>11, ConcatHolds
<1>13. A \cup B = {x \in Keys : x >= from}
  <2>1. \A x \in Keys : x >= from => x \in KeysOf(r, ls, b, Len(ls))  BY <1>1, KeysFrom
  <2>2. \A x \in KeysOf(r, ls, b, Len(ls)) : x \in KeysOf(r, ls, b, b) \/ x \in B
    <3>1. \A d \in b..Len(ls) : d \in b..b \/ d \in c..Len(ls)  BY <1>a, <1>b
    <3> QED  BY <3>1, <1>8 DEF KeysOf
  <2>3. \A x \in B : x >= from
    <3> TAKE x \in B
    <3>1. from \in KeysOf(r, ls, b, b)
      <4>1. b \in b..b  BY <1>b
      <4> QED  BY <4>1, <1>1 DEF KeysOf
    <3>2. from \in Int /\ x \in Int  BY <1>10, TreeAssumption
    <3>3. from >= from  BY <3>2
    <3>4. from \in A  BY <3>1, <3>3, <1>7
    <3>5. from < x  BY <3>4, <1>11
    <3> QED  BY <3>2, <3>5
  <2> QED  BY <2>1, <2>2, <2>3, <1>7, <1>10
<1>14. to \in Int  BY TreeAssumption
<1>15. Holds(UpTo(s \o t, to), map, {x \in {y \in Keys : y >= from} : x <= to})
  BY <1>12, <1>13, <1>14, UpToHolds
<1>16. {x \in {y \in Keys : y >= from} : x <= to} = {x \in Keys : from <= x /\ x <= to}
  <2>1. \A x \in Keys : x >= from <=> from <= x  BY TreeAssumption
  <2> QED  BY <2>1
<1> QED  BY <1>3, <1>6, <1>15, <1>16

\* Both ways to read a range are exact.
LEMMA GoodRanges ==
  ASSUME NEW h, NEW r, NEW f, NEW ls, Good(h, r, f, ls)
  PROVE  RangesAreExact
<1> SUFFICES ASSUME Idle, NEW a \in Keys, NEW b \in Keys,
                    NEW within, within = {k \in Keys : Lower(a, b) <= k /\ k <= Upper(a, b)}
             PROVE  Lists(RangeOf(a, b), within) /\ Lists(CursorRange(a, b), within)
  BY DEF RangesAreExact
<1>1. Good(h, r, -1, ls)
  <2>1. f = -1  BY IdleFlight
  <2> QED  BY <2>1
<1>2. PICK from : from = Lower(a, b)  OBVIOUS
<1>3. PICK to : to = Upper(a, b)  OBVIOUS
<1>4. from \in Keys /\ to \in Keys /\ within \subseteq Keys  BY <1>2, <1>3 DEF Lower, Upper
<1>5. Holds(RangeOf(a, b), map, within)
  BY <1>1, <1>2, <1>3, <1>4, RangeHolds DEF RangeOf
<1>6. Holds(CursorRange(a, b), map, within)
  <2>1. PICK first : first = FindLeaf(from)  OBVIOUS
  <2>2. PICK kvs : kvs = page[first].kvs  OBVIOUS
  <2>3. CursorRange(a, b) = UpTo(SubSeq(kvs, Below(kvs, from) + 1, Len(kvs)) \o EntriesOf(ChainFrom(page[first].next)), to)
    BY <2>1, <2>2, <1>2, <1>3 DEF CursorRange
  <2>4. within = {x \in Keys : from <= x /\ x <= to}  BY <1>2, <1>3
  <2> QED  BY <2>1, <2>2, <2>3, <2>4, <1>1, <1>4, CursorHolds
<1> QED  BY <1>4, <1>5, <1>6, HoldsLists

\* However the tree came to be, a descent finds every key with its value, and
\* range and the cursor give what the map holds between the bounds, in order.
THEOREM TreeReads == TreeSpec => []ReadsAreExact
<1>1. TreeInv => ReadsAreExact  BY GoodFinds, GoodRanges DEF TreeInv, ReadsAreExact
<1> QED  BY <1>1, TreeInvHolds, PTL

-----------------------------------------------------------------------------
(* The chain of the leaves.                                                *)

\* The page p of level i is on the way of the smallest keys.
IsLeftmost(r, i, p) == \E k \in Keys : r[i][k] = p /\ \A l \in Keys : l < k => r[i][l] = p

\* The root is on the way of every key.
LEMMA RootIsLeftmost ==
  ASSUME NEW h, NEW r, NEW f, NEW ls, Good(h, r, f, ls)
  PROVE  IsLeftmost(r, h, Root)
<1>1. h \in Nat /\ h \in 0..h  BY DEF Good, Routing
<1>2. \A k \in Keys : Led(h, r, h, k) = Root  BY DEF Led
<1>3. \A k \in Keys : r[h][k] = IF h = f /\ k >= carry[1].key /\ Led(h, r, h, k) = Led(h, r, h, carry[1].key)
                                THEN carry[1].child ELSE Led(h, r, h, k)
  BY <1>1 DEF Good, Leads, LeadsBut
<1>4. CASE f # h
  <2>1. PICK k \in Keys : TRUE  BY TreeAssumption
  <2>2. \A l \in Keys : r[h][l] = Root  BY <1>2, <1>3, <1>4
  <2> QED  BY <2>1, <2>2 DEF IsLeftmost
<1>5. CASE f = h
  <2>1. f # -1  BY <1>1, <1>5
  <2>2. carry[1] \in Seps /\ Pending(h, r, f, carry[1].key, carry[1].child)  BY <2>1 DEF Good, Flight
  <2>3. carry[1].key \in Int  BY <2>2, SepFields
  <2>4. PICK k \in Keys : k < carry[1].key /\ r[h][k] = Led(h, r, f, carry[1].key)
    BY <2>2, <1>5 DEF Pending
  <2>5. r[h][k] = Root  BY <2>4, <1>5 DEF Led
  <2>6. \A l \in Keys : l < k => r[h][l] = Root
    <3> TAKE l \in Keys
    <3> HAVE l < k
    <3>1. ~(l >= carry[1].key)  BY <2>3, <2>4, TreeAssumption
    <3> QED  BY <3>1, <1>2, <1>3
  <2> QED  BY <2>4, <2>5, <2>6 DEF IsLeftmost
<1> QED  BY <1>4, <1>5

\* The first child of a page on that way is on it too.
LEMMA FirstIsLeftmost ==
  ASSUME NEW h, NEW r, NEW f, NEW ls, Good(h, r, f, ls), NEW i \in 1..h, NEW p, IsLeftmost(r, i, p)
  PROVE  IsLeftmost(r, i - 1, page[p].first)
<1>1. PICK k \in Keys : r[i][k] = p /\ \A l \in Keys : l < k => r[i][l] = p  BY DEF IsLeftmost
<1>2. PICK n : n = page[p]  OBVIOUS
<1>3. InnerOK(n, {l \in Keys : r[i][l] = p})  BY <1>1, <1>2 DEF Good, InnersOK
<1>4. PICK k0 \in Keys : r[i][k0] = p /\ \A j \in 1..Len(n.entries) : k0 < n.entries[j].key
  BY <1>3 DEF InnerOK
<1>5. n \in Inners /\ Len(n.entries) \in Nat /\ \A j \in 1..Len(n.entries) : n.entries[j].key \in Int
  BY <1>3, InnerType DEF InnerOK
<1>6. PICK m \in Keys : m <= k /\ m <= k0 /\ (m = k \/ m = k0)
  <2>1. k \in Int /\ k0 \in Int  BY TreeAssumption
  <2>2. k <= k /\ k0 <= k0 /\ (k <= k0 \/ k0 <= k)  BY <2>1
  <2> QED  BY <2>2
<1>7. ASSUME NEW l \in Keys, l <= m  PROVE Led(h, r, i - 1, l) = n.first
  <2>1. l \in Int /\ m \in Int /\ k \in Int /\ k0 \in Int  BY TreeAssumption
  <2>2. r[i][l] = p
    <3>1. CASE l < k  BY <3>1, <1>1
    <3>2. CASE l = k  BY <3>2, <1>1
    <3> QED  BY <3>1, <3>2, <2>1, <1>6, <1>7
  <2>3. At(n, l, 0)
    <3>1. 0 < Len(n.entries) => n.entries[0 + 1].key > l
      <4> SUFFICES ASSUME 0 < Len(n.entries)  PROVE n.entries[1].key > l
        OBVIOUS
      <4>1. 1 \in 1..Len(n.entries)  BY <1>5
      <4>2. k0 < n.entries[1].key /\ n.entries[1].key \in Int  BY <4>1, <1>4, <1>5
      <4> QED  BY <4>2, <2>1, <1>6, <1>7
    <3>2. 0 \in 0..Len(n.entries) /\ \A j \in 1..0 : FALSE  BY <1>5
    <3> QED  BY <3>1, <3>2 DEF At
  <2>4. PickChild(n, l) = n.first
    <3>1. PickChild(n, l) = Child(n, 0)  BY <2>3, <1>5, PickIs
    <3> QED  BY <3>1 DEF Child
  <2>5. i - 1 # h /\ (i - 1) + 1 = i
    <3>1. h \in Nat  BY DEF Good, Routing
    <3> QED  BY <3>1
  <2> QED  BY <2>2, <2>4, <2>5, <1>2 DEF Led
<1>8. PICK g : g = i - 1  OBVIOUS
<1>9. g \in 0..h
  <2>1. h \in Nat  BY DEF Good, Routing
  <2> QED  BY <2>1, <1>8
<1>10. PICK s : s = carry[1].key  OBVIOUS
<1>11. \A l \in Keys : r[g][l] = IF g = f /\ l >= s /\ Led(h, r, g, l) = Led(h, r, g, s)
                                 THEN carry[1].child ELSE Led(h, r, g, l)
  BY <1>9, <1>10 DEF Good, Leads, LeadsBut
<1>12. CASE g # f \/ (g = f /\ s \in Int /\ m < s)
  <2>1. \A l \in Keys : l <= m => r[g][l] = n.first
    <3> TAKE l \in Keys
    <3> HAVE l <= m
    <3>1. Led(h, r, g, l) = n.first  BY <1>7, <1>8
    <3>2. g # f \/ ~(l >= s)
      <4>1. l \in Int /\ m \in Int  BY TreeAssumption
      <4> QED  BY <4>1, <1>12
    <3> QED  BY <3>1, <3>2, <1>11
  <2>2. \A l \in Keys : l < m => l <= m  BY TreeAssumption
  <2>3. m <= m  BY TreeAssumption
  <2> QED  BY <2>1, <2>2, <2>3, <1>2, <1>8 DEF IsLeftmost
<1>13. CASE g = f /\ ~(s \in Int /\ m < s)
  <2>1. f # -1  BY <1>9, <1>13
  <2>2. carry[1] \in Seps /\ Pending(h, r, f, s, carry[1].child)  BY <2>1, <1>10 DEF Good, Flight
  <2>3. s \in Int /\ s \in Keys  BY <2>2, <1>10, SepFields
  <2>4. s <= m
    <3>1. m \in Int  BY TreeAssumption
    <3> QED  BY <3>1, <2>3, <1>13
  <2>5. Led(h, r, g, s) = n.first  BY <2>3, <2>4, <1>7, <1>8
  <2>6. PICK x \in Keys : x < s /\ r[f][x] = Led(h, r, f, s)  BY <2>2 DEF Pending
  <2>7. \A l \in Keys : l < x => r[g][l] = n.first
    <3> TAKE l \in Keys
    <3> HAVE l < x
    <3>1. l <= m /\ ~(l >= s)  BY <2>3, <2>4, <2>6, TreeAssumption
    <3>2. Led(h, r, g, l) = n.first  BY <3>1, <1>7, <1>8
    <3> QED  BY <3>1, <3>2, <1>11
  <2>8. r[g][x] = n.first  BY <2>5, <2>6, <1>13
  <2> QED  BY <2>7, <2>8, <1>2, <1>8 DEF IsLeftmost
<1> QED  BY <1>12, <1>13

\* The descent to the left ends where the chain begins, while a split is on its
\* way up too.
LEMMA LeftmostIs ==
  ASSUME NEW h, NEW r, NEW f, NEW ls, Good(h, r, f, ls)
  PROVE  Len(ls) >= 1 /\ LeftmostLeaf = ls[1] /\ LeftmostLeaf = Stop(ls, 1)
<1>1. PICK down : /\ LeftmostLeaf = down[MaxPages][Root]
                  /\ \A d \in 0..MaxPages : \A p \in Pages :
                       down[d][p] = IF d = 0 \/ page[p].type # "internal" THEN p ELSE down[d - 1][page[p].first]
  BY LeftmostRec
<1>2. h \in Nat /\ MaxPages \in Nat /\ h < MaxPages
  <2>1. PICK k \in Keys : TRUE  BY TreeAssumption
  <2> QED  BY OnTheWay
<1> DEFINE S == {e \in 0..h : \E p : IsLeftmost(r, h - e, p) /\ LeftmostLeaf = down[MaxPages - e][p]}
<1>3. 0 \in S
  <2>1. h - 0 = h /\ MaxPages - 0 = MaxPages /\ 0 \in 0..h  BY <1>2
  <2> QED  BY <2>1, <1>1, RootIsLeftmost
<1>4. ASSUME NEW e \in 0..(h - 1), e \in S  PROVE e + 1 \in S
  <2>1. PICK p : IsLeftmost(r, h - e, p) /\ LeftmostLeaf = down[MaxPages - e][p]  BY <1>4
  <2>2. PICK i : i = h - e  OBVIOUS
  <2>3. PICK d : d = MaxPages - e  OBVIOUS
  <2>4. /\ i \in 1..h /\ d \in 0..MaxPages /\ d # 0 /\ i - 1 = h - (e + 1) /\ d - 1 = MaxPages - (e + 1)
        /\ e + 1 \in 0..h
    BY <1>2, <2>2, <2>3
  <2>5. IsLeftmost(r, i - 1, page[p].first)  BY <2>1, <2>2, <2>4, FirstIsLeftmost
  <2>6. PICK k \in Keys : r[i][k] = p  BY <2>1, <2>2 DEF IsLeftmost
  <2>7. p \in Pages /\ page[p] \in Inners
    <3>1. i \in 0..h  BY <2>4
    <3> QED  BY <3>1, <2>4, <2>6, OnTheWay
  <2>8. page[p].type = "internal"  BY <2>7, InnerType
  <2>9. LeftmostLeaf = down[d - 1][page[p].first]  BY <2>1, <2>3, <2>4, <2>7, <2>8, <1>1
  <2> QED  BY <2>4, <2>5, <2>9
<1>5. h \in S
  <2> HIDE DEF S
  <2>1. 0..h \subseteq S  BY <1>2, <1>3, <1>4, StepsFromZero
  <2>2. h \in 0..h  BY <1>2
  <2> QED  BY <2>1, <2>2
<1>6. PICK p : IsLeftmost(r, h - h, p) /\ LeftmostLeaf = down[MaxPages - h][p]  BY <1>5
<1>7. IsLeftmost(r, 0, p)
  <2>1. h - h = 0  BY <1>2
  <2> QED  BY <2>1, <1>6
<1>8. PICK k \in Keys : r[0][k] = p /\ \A l \in Keys : l < k => r[0][l] = p  BY <1>7 DEF IsLeftmost
<1>9. p \in Pages /\ page[p] \in Leafs
  <2>1. 0 \in 0..h  BY <1>2
  <2> QED  BY <2>1, <1>8, OnTheWay
<1>10. LeftmostLeaf = p
  <2>1. page[p].type = "leaf"  BY <1>9 DEF Leafs
  <2>2. MaxPages - h \in 0..MaxPages  BY <1>2
  <2> QED  BY <2>1, <2>2, <1>1, <1>6, <1>9
<1>11. InLine(r[0], ls) /\ Sorted(r[0], ls) /\ Len(ls) \in Nat  BY LineFacts DEF Good, Chain, InLine
<1>12. PICK a \in 1..Len(ls) : ls[a] = r[0][k]  BY <1>11 DEF InLine
<1>13. 1 \in 1..Len(ls)  BY <1>11, <1>12
<1>14. PICK l \in Keys : ls[1] = r[0][l]  BY <1>11, <1>13 DEF InLine
<1>15. ls[1] = p
  <2>1. CASE a = 1  BY <2>1, <1>8, <1>12
  <2>2. CASE a # 1
    <3>1. 1 < a  BY <2>2, <1>11, <1>12
    <3>2. l < k  BY <3>1, <1>11, <1>12, <1>13, <1>14 DEF Sorted
    <3> QED  BY <3>2, <1>8, <1>14
  <2> QED  BY <2>1, <2>2
<1>16. Len(ls) >= 1 /\ 1 # Len(ls) + 1  BY <1>11, <1>13
<1> QED  BY <1>10, <1>15, <1>16 DEF Stop

\* A scan along the chain lists what the map holds.
LEMMA GoodScan ==
  ASSUME NEW h, NEW r, NEW f, NEW ls, Good(h, r, f, ls)
  PROVE  ChainHoldsMap
<1>1. LeftmostLeaf = Stop(ls, 1) /\ 1 \in 1..(Len(ls) + 1)
  <2>1. Len(ls) \in Nat  BY LineFacts
  <2> QED  BY <2>1, LeftmostIs
<1>2. ChainFrom(LeftmostLeaf) = SubSeq(ls, 1, Len(ls))  BY <1>1, ChainIs
<1>3. Holds(Scan, map, KeysOf(r, ls, 1, Len(ls)))  BY <1>1, <1>2, EntriesFrom DEF Scan
<1>4. KeysOf(r, ls, 1, Len(ls)) = Keys
  <2>1. \A k \in Keys : \E a \in 1..Len(ls) : r[0][k] = ls[a]  BY DEF Good, Chain, InLine
  <2> QED  BY <2>1 DEF KeysOf
<1> QED  BY <1>3, <1>4, HoldsLists DEF ChainHoldsMap

-----------------------------------------------------------------------------
(* The tree and the chain are one.                                         *)

\* The leaves under a page, level by level.
LEMMA UnderRec ==
  \E under : /\ InOrder = under[MaxPages][Root]
             /\ \A d \in 0..MaxPages : \A p \in Pages :
                  under[d][p] =
                    IF d = 0 \/ page[p].type # "internal" THEN << <<p, d>> >>
                    ELSE under[d - 1][page[p].first]
                         \o FlattenSeq([i \in 1..Len(page[p].entries) |-> under[d - 1][page[p].entries[i].child]])
<1> DEFINE Row(g, d) == [p \in Pages |->
             IF d = 0 \/ page[p].type # "internal" THEN << <<p, d>> >>
             ELSE g[d - 1][page[p].first]
                  \o FlattenSeq([i \in 1..Len(page[p].entries) |-> g[d - 1][page[p].entries[i].child]])]
           Is(g, n) == \A d \in 0..n : g[d] = Row(g, d)
           S == {n \in 0..MaxPages : \E g : Is(g, n)}
           under[d \in 0..MaxPages] == [p \in Pages |->
             IF d = 0 \/ page[p].type # "internal" THEN << <<p, d>> >>
             ELSE under[d - 1][page[p].first]
                  \o FlattenSeq([i \in 1..Len(page[p].entries) |-> under[d - 1][page[p].entries[i].child]])]
<1>0. MaxPages \in Nat  BY TreeAssumption
<1>1. 0 \in S
  <2> DEFINE g == [d \in 0..0 |-> [p \in Pages |-> << <<p, 0>> >>]]
  <2>1. Is(g, 0)  OBVIOUS
  <2> HIDE DEF Is, g
  <2> QED  BY <2>1, <1>0
<1>2. ASSUME NEW n \in 0..(MaxPages - 1), n \in S  PROVE n + 1 \in S
  <2>1. PICK g : Is(g, n)
    <3> HIDE DEF Is
    <3> QED  BY <1>2
  <2> DEFINE h == [d \in 0..(n + 1) |-> IF d <= n THEN g[d] ELSE Row(g, d)]
  <2>2. n \in Nat /\ (\A d \in 0..n : h[d] = g[d]) /\ h[n + 1] = Row(g, n + 1)
    <3> HIDE DEF Row
    <3> QED  BY <1>0
  <2> HIDE DEF h
  <2>3. ASSUME NEW d \in 0..(n + 1)  PROVE Row(h, d) = Row(g, d)
    <3>1. CASE d = 0  BY <3>1
    <3>2. CASE d # 0
      <4>1. d - 1 \in 0..n  BY <3>2, <1>0
      <4>2. h[d - 1] = g[d - 1]  BY <4>1, <2>2
      <4> QED  BY <4>2
    <3> QED  BY <3>1, <3>2
  <2>4. Is(h, n + 1)
    <3> HIDE DEF Row
    <3>1. \A d \in 0..(n + 1) : d \in 0..n \/ d = n + 1  BY <1>0
    <3> QED  BY <3>1, <2>1, <2>2, <2>3
  <2> HIDE DEF Is
  <2> QED  BY <2>4, <1>0
<1>3. MaxPages \in S
  <2> SUFFICES ASSUME NEW N, N = MaxPages  PROVE N \in S
    OBVIOUS
  <2>1. N \in Nat /\ \A n \in 0..(N - 1) : n \in S => n + 1 \in S  BY <1>0, <1>2
  <2>2. 0..N \subseteq S
    <3> HIDE DEF S
    <3> QED  BY ONLY <2>1, <1>1, StepsFromZero
  <2>3. N \in 0..N  BY <2>1
  <2> HIDE DEF S
  <2> QED  BY ONLY <2>2, <2>3
<1>4. PICK g : Is(g, MaxPages)
  <2> HIDE DEF Is
  <2> QED  BY <1>3
<1>5. [d \in 0..MaxPages |-> g[d]] = [d \in 0..MaxPages |-> Row([e \in 0..MaxPages |-> g[e]], d)]
  <2>1. ASSUME NEW d \in 0..MaxPages  PROVE g[d] = Row([e \in 0..MaxPages |-> g[e]], d)
    <3>1. CASE d = 0  BY <3>1, <1>4
    <3>2. CASE d # 0
      <4>1. d - 1 \in 0..MaxPages  BY <3>2, <1>0
      <4>2. [e \in 0..MaxPages |-> g[e]][d - 1] = g[d - 1]  BY <4>1
      <4> QED  BY <4>2, <1>4
    <3> QED  BY <3>1, <3>2
  <2> HIDE DEF Row
  <2> QED  BY <2>1
<1>6. under = [d \in 0..MaxPages |-> Row(under, d)]
  <2>1. \E f : f = [d \in 0..MaxPages |-> Row(f, d)]
    <3> HIDE DEF Row
    <3> QED  BY <1>5
  <2> QED  BY <2>1
<1>7. InOrder = under[MaxPages][Root]  BY DEF InOrder
<1> HIDE DEF under
<1>8. \A d \in 0..MaxPages : under[d] = Row(under, d)
  <2> HIDE DEF Row
  <2> QED  BY <1>6
<1>9. \A d \in 0..MaxPages : \A p \in Pages : under[d][p] = Row(under, d)[p]  BY <1>8
<1> QED  BY <1>7, <1>9

\* The places from a to b of the line, each with the level c.
Tagged(ls, a, b, c) == [j \in 1..(b + 1 - a) |-> <<ls[a + j - 1], c>>]

\* What the tagged places are.
LEMMA TaggedIs ==
  ASSUME NEW ls \in Seq(Pages), NEW a \in 1..Len(ls), NEW b \in a..Len(ls), NEW c \in Nat
  PROVE  /\ Tagged(ls, a, b, c) \in Seq(Pages \X Nat) /\ Len(Tagged(ls, a, b, c)) = b + 1 - a
         /\ \A j \in 1..(b + 1 - a) : Tagged(ls, a, b, c)[j] = <<ls[a + j - 1], c>>
<1>1. Len(ls) \in Nat /\ \A x \in 1..Len(ls) : ls[x] \in Pages  OBVIOUS
<1>2. PICK n : n = b + 1 - a  OBVIOUS
<1>3. n \in Nat /\ \A j \in 1..n : a + j - 1 \in 1..Len(ls)  BY <1>1, <1>2
<1>4. Tagged(ls, a, b, c) = [j \in 1..n |-> <<ls[a + j - 1], c>>]  BY <1>2 DEF Tagged
<1>5. Tagged(ls, a, b, c) \in [1..n -> Pages \X Nat]
  <2>1. \A j \in 1..n : ls[a + j - 1] \in Pages  BY <1>1, <1>3
  <2>2. \A j \in 1..n : <<ls[a + j - 1], c>> \in Pages \X Nat  BY <2>1
  <2> QED  BY <1>4, <2>2
<1>6. Tagged(ls, a, b, c) \in Seq(Pages \X Nat) /\ Len(Tagged(ls, a, b, c)) = n  BY <1>3, <1>5
<1> QED  BY <1>2, <1>4, <1>6

\* Two parts of the line next to each other are one part.
LEMMA TaggedJoin ==
  ASSUME NEW ls \in Seq(Pages), NEW a \in 1..Len(ls), NEW b \in a..Len(ls), NEW e \in (b + 1)..Len(ls), NEW c \in Nat
  PROVE  Tagged(ls, a, b, c) \o Tagged(ls, b + 1, e, c) = Tagged(ls, a, e, c)
<1>1. PICK b1 : b1 = b + 1  OBVIOUS
<1>2. Len(ls) \in Nat /\ b1 \in 1..Len(ls) /\ e \in b1..Len(ls) /\ e \in a..Len(ls)  BY <1>1
<1>3. PICK T : T = Pages \X Nat  OBVIOUS
<1>4. PICK s : s = Tagged(ls, a, b, c)  OBVIOUS
<1>5. PICK t : t = Tagged(ls, b1, e, c)  OBVIOUS
<1>6. PICK u : u = Tagged(ls, a, e, c)  OBVIOUS
<1>7. PICK n : n = b1 - a  OBVIOUS
<1>8. PICK m : m = e + 1 - b1  OBVIOUS
<1>9. n \in Nat /\ m \in Nat /\ b + 1 - a = n /\ e + 1 - a = n + m  BY <1>1, <1>2, <1>7, <1>8
<1>10. s \in Seq(T) /\ Len(s) = n /\ \A j \in 1..n : s[j] = <<ls[a + j - 1], c>>
  BY <1>3, <1>4, <1>9, TaggedIs
<1>11. t \in Seq(T) /\ Len(t) = m /\ \A j \in 1..m : t[j] = <<ls[b1 + j - 1], c>>
  BY <1>2, <1>3, <1>5, <1>8, TaggedIs
<1>12. u \in Seq(T) /\ Len(u) = n + m /\ \A j \in 1..(n + m) : u[j] = <<ls[a + j - 1], c>>
  <2>1. u \in Seq(T) /\ Len(u) = e + 1 - a /\ \A j \in 1..(e + 1 - a) : u[j] = <<ls[a + j - 1], c>>
    BY <1>2, <1>3, <1>6, TaggedIs
  <2> QED  BY <2>1, <1>9
<1>13. /\ s \o t \in Seq(T) /\ Len(s \o t) = n + m
       /\ \A j \in 1..(n + m) : (s \o t)[j] = IF j <= n THEN s[j] ELSE t[j - n]
  BY <1>10, <1>11, ConcatIs
<1>14. PICK v : v = s \o t  OBVIOUS
<1>15. \A j \in 1..(n + m) : v[j] = u[j]
  <2> TAKE j \in 1..(n + m)
  <2>1. CASE j <= n
    <3>1. j \in 1..n  BY <2>1, <1>9
    <3> QED  BY <3>1, <2>1, <1>10, <1>12, <1>13, <1>14
  <2>2. CASE ~(j <= n)
    <3>1. j - n \in 1..m /\ b1 + (j - n) - 1 = a + j - 1  BY <2>2, <1>2, <1>7, <1>9
    <3>2. t[j - n] = <<ls[a + j - 1], c>>  BY <3>1, <1>11
    <3> QED  BY <3>2, <2>2, <1>12, <1>13, <1>14
  <2> QED  BY <2>1, <2>2
<1>16. v = u
  <2>1. v \in Seq(T) /\ u \in Seq(T) /\ Len(v) = n + m /\ Len(u) = n + m  BY <1>12, <1>13, <1>14
  <2> QED  BY ONLY <2>1, <1>15, <1>9
<1> QED  BY <1>1, <1>4, <1>5, <1>6, <1>14, <1>16

\* The leaves w, all of level c, are those of the keys A.
Covers(r, ls, c, w, A) ==
  \E a \in 1..Len(ls) : \E b \in a..Len(ls) : w = Tagged(ls, a, b, c) /\ KeysOf(r, ls, a, b) = A

\* No key is between those of A and those of B.
Adjacent(A, B) ==
  /\ \A k \in A, l \in B : k < l
  /\ \A x \in Keys, k \in A, l \in B : k < x /\ x < l => x \in A \/ x \in B

\* The leaves of keys next to each other, one after the other.
LEMMA CoverJoin ==
  ASSUME NEW r, NEW ls, InLine(r[0], ls), NEW c \in Nat, NEW w, NEW A, Covers(r, ls, c, w, A),
         NEW v, NEW B, Covers(r, ls, c, v, B), Adjacent(A, B)
  PROVE  Covers(r, ls, c, w \o v, A \cup B)
<1>1. PICK a \in 1..Len(ls) : \E b \in a..Len(ls) : w = Tagged(ls, a, b, c) /\ KeysOf(r, ls, a, b) = A
  BY DEF Covers
<1>2. PICK b \in a..Len(ls) : w = Tagged(ls, a, b, c) /\ KeysOf(r, ls, a, b) = A  BY <1>1
<1>3. PICK d \in 1..Len(ls) : \E e \in d..Len(ls) : v = Tagged(ls, d, e, c) /\ KeysOf(r, ls, d, e) = B
  BY DEF Covers
<1>4. PICK e \in d..Len(ls) : v = Tagged(ls, d, e, c) /\ KeysOf(r, ls, d, e) = B  BY <1>3
<1>5. ls \in Seq(Pages) /\ Len(ls) \in Nat /\ Sorted(r[0], ls)  BY DEF InLine
<1>6. \A x \in 1..Len(ls) : \E k \in Keys : ls[x] = r[0][k]  BY DEF InLine
<1>7. b \in 1..Len(ls) /\ d \in 1..Len(ls)  BY <1>5
<1>8. PICK k \in Keys : ls[b] = r[0][k]  BY <1>6, <1>7
<1>9. PICK l \in Keys : ls[d] = r[0][l]  BY <1>6, <1>7
<1>10. k \in A
  <2>1. b \in a..b  BY <1>5
  <2> QED  BY <2>1, <1>2, <1>8 DEF KeysOf
<1>11. l \in B
  <2>1. d \in d..e  BY <1>5
  <2> QED  BY <2>1, <1>4, <1>9 DEF KeysOf
<1>12. k < l  BY <1>10, <1>11 DEF Adjacent
<1>13. b < d
  <2>1. b # d
    <3> SUFFICES ASSUME b = d  PROVE FALSE  OBVIOUS
    <3>1. b \in d..e  BY <1>5
    <3>2. k \in B  BY <3>1, <1>4, <1>8 DEF KeysOf
    <3>3. k < k  BY <3>2, <1>10 DEF Adjacent
    <3> QED  BY <3>3, TreeAssumption
  <2>2. ~(d < b)
    <3>1. d < b => l < k  BY <1>5, <1>7, <1>8, <1>9 DEF Sorted
    <3> QED  BY <3>1, <1>12, TreeAssumption
  <2> QED  BY <2>1, <2>2, <1>5, <1>7
<1>14. d = b + 1
  <2> SUFFICES ASSUME d # b + 1  PROVE FALSE  OBVIOUS
  <2>1. PICK m : m = b + 1  OBVIOUS
  <2>2. m \in 1..Len(ls) /\ b < m /\ m < d  BY <2>1, <1>5, <1>7, <1>13
  <2>3. PICK x \in Keys : ls[m] = r[0][x]  BY <2>2, <1>6
  <2>4. k < x  BY <2>2, <2>3, <1>5, <1>7, <1>8 DEF Sorted
  <2>5. x < l  BY <2>2, <2>3, <1>5, <1>7, <1>9 DEF Sorted
  <2>6. x \in A \/ x \in B  BY <2>4, <2>5, <1>10, <1>11 DEF Adjacent
  <2>7. CASE x \in A
    <3>1. PICK y \in a..b : r[0][x] = ls[y]  BY <2>7, <1>2 DEF KeysOf
    <3>2. y \in 1..Len(ls)  BY <1>5
    <3>3. y = m  BY <2>2, <2>3, <3>1, <3>2, LineDistinct
    <3> QED  BY <2>2, <3>3, <1>5
  <2>8. CASE x \in B
    <3>1. PICK y \in d..e : r[0][x] = ls[y]  BY <2>8, <1>4 DEF KeysOf
    <3>2. y \in 1..Len(ls)  BY <1>5
    <3>3. y = m  BY <2>2, <2>3, <3>1, <3>2, LineDistinct
    <3> QED  BY <2>2, <3>3, <1>5
  <2> QED  BY <2>6, <2>7, <2>8
<1>15. e \in a..Len(ls) /\ e \in (b + 1)..Len(ls)  BY <1>5, <1>7, <1>13, <1>14
<1>16. w \o v = Tagged(ls, a, e, c)  BY <1>2, <1>4, <1>5, <1>14, <1>15, TaggedJoin
<1>17. KeysOf(r, ls, a, e) = A \cup B
  <2>1. \A y : y \in a..e <=> y \in a..b \/ y \in d..e  BY <1>5, <1>7, <1>14, <1>15
  <2> QED  BY <2>1, <1>2, <1>4 DEF KeysOf
<1> QED  BY <1>15, <1>16, <1>17 DEF Covers

\* Places are in the order of the keys.
LEMMA AtOrder ==
  ASSUME NEW n \in Inners, NEW k \in Keys, NEW l \in Keys, NEW m, NEW o, At(n, k, m), At(n, l, o)
  PROVE  (k <= l => m <= o) /\ (m < o => k < l)
<1>1. m \in Nat /\ o \in Nat /\ Len(n.entries) \in Nat /\ m <= Len(n.entries) /\ o <= Len(n.entries)
  BY InnerType DEF At
<1>2. \A j \in 1..Len(n.entries) : n.entries[j].key \in Int  BY InnerType
<1>3. k \in Int /\ l \in Int  BY TreeAssumption
<1>4. ASSUME k <= l, o < m  PROVE FALSE
  <2>1. o + 1 \in 1..m /\ o < Len(n.entries) /\ o + 1 \in 1..Len(n.entries)  BY <1>1, <1>4
  <2>2. n.entries[o + 1].key <= k /\ n.entries[o + 1].key > l  BY <2>1 DEF At
  <2> QED  BY <2>1, <2>2, <1>2, <1>3, <1>4
<1>5. ASSUME m < o  PROVE k < l
  <2>1. m + 1 \in 1..o /\ m < Len(n.entries) /\ m + 1 \in 1..Len(n.entries)  BY <1>1, <1>5
  <2>2. n.entries[m + 1].key <= l /\ n.entries[m + 1].key > k  BY <2>1 DEF At
  <2> QED  BY <2>1, <2>2, <1>2, <1>3
<1> QED  BY <1>1, <1>4, <1>5

\* The keys of mine that fall to the children from a to b of the node.
Between(n, mine, a, b) == {l \in mine : \E m \in a..b : At(n, l, m)}

\* The keys A are next to each other.
Gapless(A) == \A k \in A, l \in A, x \in Keys : k < x /\ x < l => x \in A

\* The keys of the children from a to b and from c to d.
Adjoin(n, mine, a, b, c, d) ==
  /\ Adjacent(Between(n, mine, a, b), Between(n, mine, c, d))
  /\ Between(n, mine, a, b) \cup Between(n, mine, c, d) = Between(n, mine, a, d)

\* Children next to each other have keys next to each other.
LEMMA BetweenNext ==
  ASSUME NEW n \in Inners, NEW mine, mine \subseteq Keys,
         Gapless(mine),
         NEW a \in Nat, NEW b \in Nat, NEW c, c = b + 1, NEW d \in Nat, a <= b, c <= d
  PROVE  Adjoin(n, mine, a, b, c, d)
<1>1. ASSUME NEW k \in Between(n, mine, a, b), NEW l \in Between(n, mine, c, d)
      PROVE  k < l /\ \A x \in Keys : k < x /\ x < l => x \in Between(n, mine, a, b) \/ x \in Between(n, mine, c, d)
  <2>1. PICK m \in a..b : At(n, k, m)  BY DEF Between
  <2>2. PICK o \in c..d : At(n, l, o)  BY DEF Between
  <2>3. k \in mine /\ l \in mine /\ k \in Keys /\ l \in Keys  BY DEF Between
  <2>4. k < l
    <3>1. m < o  OBVIOUS
    <3> QED  BY <2>1, <2>2, <2>3, <3>1, AtOrder
  <2>5. ASSUME NEW x \in Keys, k < x, x < l
        PROVE  x \in Between(n, mine, a, b) \/ x \in Between(n, mine, c, d)
    <3>1. x \in mine  BY <2>3, <2>5 DEF Gapless
    <3>2. PICK y \in 0..Len(n.entries) : At(n, x, y)  BY PickedAt
    <3>3. k <= x /\ x <= l
      <4>1. k \in Int /\ l \in Int /\ x \in Int  BY <2>3, TreeAssumption
      <4> QED  BY ONLY <4>1, <2>5
    <3>4. m <= y /\ y <= o  BY <2>1, <2>2, <2>3, <3>2, <3>3, AtOrder
    <3>5. y \in Int  BY <3>2, InnerType
    <3>6. y \in a..b \/ y \in c..d  BY <3>4, <3>5
    <3> QED  BY <3>1, <3>2, <3>6 DEF Between
  <2> QED  BY <2>4, <2>5
<1>2. \A m : m \in a..d <=> m \in a..b \/ m \in c..d  OBVIOUS
<1>3. Between(n, mine, a, b) \cup Between(n, mine, c, d) = Between(n, mine, a, d)  BY <1>2 DEF Between
<1> QED  BY <1>1, <1>3 DEF Adjacent, Adjoin

\* The leaves of some keys are a sequence.
LEMMA CoversSeq ==
  ASSUME NEW r, NEW ls \in Seq(Pages), NEW c \in Nat, NEW w, NEW A, Covers(r, ls, c, w, A)
  PROVE  w \in Seq(Pages \X Nat) /\ w \o <<>> = w
<1>1. PICK a \in 1..Len(ls) : \E b \in a..Len(ls) : w = Tagged(ls, a, b, c)  BY DEF Covers
<1>2. PICK b \in a..Len(ls) : w = Tagged(ls, a, b, c)  BY <1>1
<1>3. w \in Seq(Pages \X Nat)  BY <1>2, TaggedIs
<1>4. PICK T : T = Pages \X Nat  OBVIOUS
<1>5. w \in Seq(T)  BY <1>3, <1>4
<1>6. w \o <<>> = w  BY ONLY <1>5
<1> QED  BY <1>3, <1>6

\* The leaves under the children of a node, one child after the other, are the
\* leaves of its keys.
LEMMA FlatCovers ==
  ASSUME NEW r, NEW ls, InLine(r[0], ls), NEW c \in Nat, NEW n \in Inners, NEW mine, mine \subseteq Keys,
         Gapless(mine),
         NEW w, Covers(r, ls, c, w, Between(n, mine, 0, 0)),
         NEW ss, Len(ss) = Len(n.entries),
         Len(ss) = 0 => ss = <<>>,
         \A j \in 1..Len(ss) : Covers(r, ls, c, ss[j], Between(n, mine, j, j))
  PROVE  Covers(r, ls, c, w \o FlattenSeq(ss), mine)
<1>1. PICK L : L = Len(ss)  OBVIOUS
<1>2. L \in Nat /\ L = Len(n.entries)  BY <1>1, InnerType
<1>3. mine = Between(n, mine, 0, L)
  <2>1. \A l \in mine : \E m \in 0..L : At(n, l, m)  BY <1>2, PickedAt
  <2> QED  BY <2>1 DEF Between
<1>4. ls \in Seq(Pages)  BY DEF InLine
<1>5. CASE L = 0
  <2>1. FlattenSeq(ss) = <<>>  BY <1>1, <1>5 DEF FlattenSeq
  <2>2. w \o <<>> = w  BY <1>4, CoversSeq
  <2> QED  BY <2>1, <2>2, <1>3, <1>5
<1>6. CASE L # 0
  <2>1. Len(ss) \in Nat /\ Len(ss) >= 1  BY <1>1, <1>2, <1>6
  <2>2. PICK u : /\ FlattenSeq(ss) = u[Len(ss)] /\ u[1] = ss[1]
                 /\ \A i \in 2..Len(ss) : u[i] = u[i - 1] \o ss[i]
    BY <2>1, FlattenRec
  <2> DEFINE Right(j) == Covers(r, ls, c, u[j], Between(n, mine, 1, j))
             S == {j \in 0..(L - 1) : Right(j + 1)}
  <2>3. 0 \in S
    <3>1. 1 \in 1..Len(ss) /\ 0 \in 0..(L - 1) /\ 0 + 1 = 1  BY <2>1, <1>1
    <3>2. Right(1)  BY <3>1, <2>2
    <3> HIDE DEF Right
    <3> QED  BY <3>1, <3>2
  <2>4. ASSUME NEW j \in 0..((L - 1) - 1), j \in S  PROVE j + 1 \in S
    <3>1. PICK b : b = j + 1  OBVIOUS
    <3>2. PICK d : d = b + 1  OBVIOUS
    <3>3. /\ b \in Nat /\ d \in Nat /\ 1 <= b /\ d <= d /\ d \in 2..Len(ss) /\ d \in 1..Len(ss) /\ d - 1 = b
          /\ j + 1 \in 0..(L - 1)
      BY <3>1, <3>2, <1>1, <1>2
    <3>4. Covers(r, ls, c, u[b], Between(n, mine, 1, b))
      <4>1. Right(j + 1)
        <5> HIDE DEF Right
        <5> QED  BY <2>4
      <4> QED  BY <4>1, <3>1
    <3>5. Covers(r, ls, c, ss[d], Between(n, mine, d, d))  BY <3>3
    <3>6. /\ Adjacent(Between(n, mine, 1, b), Between(n, mine, d, d))
          /\ Between(n, mine, 1, b) \cup Between(n, mine, d, d) = Between(n, mine, 1, d)
      <4>1. 1 \in Nat  OBVIOUS
      <4>2. Adjoin(n, mine, 1, b, d, d)  BY <4>1, <3>2, <3>3, BetweenNext
      <4> QED  BY <4>2 DEF Adjoin
    <3>7. Covers(r, ls, c, u[b] \o ss[d], Between(n, mine, 1, d))
      <4>1. Covers(r, ls, c, u[b] \o ss[d], Between(n, mine, 1, b) \cup Between(n, mine, d, d))
        BY <3>4, <3>5, <3>6, CoverJoin
      <4> QED  BY <4>1, <3>6
    <3>8. u[d] = u[b] \o ss[d]  BY <3>3, <2>2
    <3>9. Right(d)  BY <3>7, <3>8
    <3> HIDE DEF Right
    <3> QED  BY <3>1, <3>2, <3>3, <3>9
  <2>5. 0..(L - 1) \subseteq S
    <3>1. PICK N : N = L - 1  OBVIOUS
    <3>2. N \in Nat /\ \A j \in 0..(N - 1) : j \in S => j + 1 \in S  BY <3>1, <1>2, <1>6, <2>4
    <3> HIDE DEF S
    <3>3. 0..N \subseteq S  BY <3>2, <2>3, StepsFromZero
    <3> QED  BY <3>1, <3>3
  <2>6. Covers(r, ls, c, u[L], Between(n, mine, 1, L))
    <3>1. L - 1 \in 0..(L - 1) /\ (L - 1) + 1 = L  BY <1>2, <1>6
    <3>2. Right(L)
      <4> HIDE DEF Right
      <4> QED  BY <3>1, <2>5
    <3> QED  BY <3>2
  <2>7. /\ Adjacent(Between(n, mine, 0, 0), Between(n, mine, 1, L))
        /\ Between(n, mine, 0, 0) \cup Between(n, mine, 1, L) = Between(n, mine, 0, L)
    <3>1. 0 \in Nat /\ 1 = 0 + 1 /\ 0 <= 0 /\ 1 <= L  BY <1>2, <1>6
    <3>2. Adjoin(n, mine, 0, 0, 1, L)  BY <3>1, <1>2, BetweenNext
    <3> QED  BY <3>2 DEF Adjoin
  <2>8. Covers(r, ls, c, w \o u[L], Between(n, mine, 0, L))
    <3>1. Covers(r, ls, c, w \o u[L], Between(n, mine, 0, 0) \cup Between(n, mine, 1, L))
      BY <2>6, <2>7, CoverJoin
    <3> QED  BY <3>1, <2>7
  <2> QED  BY <2>2, <2>8, <1>1, <1>3
<1> QED  BY <1>5, <1>6

\* The keys of a child are those that fall to its place, and there are some.
FallTo(r, i, n, mine, j) ==
  /\ {l \in Keys : r[i - 1][l] = Child(n, j)} = Between(n, mine, j, j)
  /\ \E l \in mine : At(n, l, j) /\ r[i - 1][l] = Child(n, j)

\* A key of a page falls to the child that is its page one level down.
LEMMA ChildKeys ==
  ASSUME NEW h, NEW r, NEW ls, Good(h, r, -1, ls), NEW i \in 1..h, NEW k \in Keys,
         NEW n, n = page[r[i][k]], NEW mine, mine = {l \in Keys : r[i][l] = r[i][k]},
         NEW j \in 0..Len(n.entries)
  PROVE  FallTo(r, i, n, mine, j)
<1>1. InnerOK(n, mine)  BY DEF Good, InnersOK
<1>2. n \in Inners /\ Distinct(n) /\ Ascending(n.entries)  BY <1>1 DEF InnerOK
<1>3. Len(n.entries) \in Nat /\ \A a \in 1..Len(n.entries) : n.entries[a].key \in Int  BY <1>2, InnerType
<1>4. PICK g : g = i - 1  OBVIOUS
<1>5. h \in Nat /\ g \in 0..h /\ g # h /\ g + 1 = i /\ g \in 0..(h - 1) /\ g # -1
  <2>1. h \in Nat  BY DEF Good, Routing
  <2> QED  BY <2>1, <1>4
<1>6. \A l \in mine : r[g][l] = PickChild(n, l)
  <2> TAKE l \in mine
  <2>1. r[g][l] = Led(h, r, g, l)  BY <1>5 DEF Good, Leads, LeadsBut
  <2>2. Led(h, r, g, l) = PickChild(page[r[i][l]], l)  BY <1>5 DEF Led
  <2>3. r[i][l] = r[i][k]  OBVIOUS
  <2> QED  BY <2>1, <2>2, <2>3
<1>7. \E l \in mine : At(n, l, j)
  <2>1. CASE j = 0
    <3>1. PICK l \in mine : \A a \in 1..Len(n.entries) : l < n.entries[a].key  BY <1>1 DEF InnerOK
    <3>2. l \in Int  BY TreeAssumption
    <3>3. 0 < Len(n.entries) => n.entries[0 + 1].key > l
      <4> SUFFICES ASSUME 0 < Len(n.entries)  PROVE n.entries[1].key > l
        OBVIOUS
      <4>1. 1 \in 1..Len(n.entries)  BY <1>3
      <4> QED  BY <4>1, <3>1, <3>2, <1>3
    <3>4. 0 \in 0..Len(n.entries) /\ \A a \in 1..0 : FALSE  BY <1>3
    <3>5. At(n, l, 0)  BY <3>3, <3>4 DEF At
    <3> QED  BY <3>5, <2>1
  <2>2. CASE j # 0
    <3>1. j \in 1..Len(n.entries)  BY <2>2, <1>3
    <3>2. PICK l : l = n.entries[j].key  OBVIOUS
    <3>3. l \in mine /\ l \in Int  BY <3>1, <3>2, <1>1, <1>3 DEF InnerOK
    <3>4. \A a \in 1..j : n.entries[a].key <= l
      <4> TAKE a \in 1..j
      <4>1. a \in 1..Len(n.entries) /\ (a = j \/ a < j)  BY <3>1, <1>3
      <4>2. a = j \/ n.entries[a].key < l  BY <4>1, <3>1, <3>2, <1>2 DEF Ascending
      <4>3. n.entries[a].key \in Int /\ (n.entries[a].key = l \/ n.entries[a].key < l)  BY <4>1, <4>2, <3>2, <1>3
      <4> QED  BY ONLY <4>3, <3>3
    <3>5. j < Len(n.entries) => n.entries[j + 1].key > l
      <4> SUFFICES ASSUME j < Len(n.entries)  PROVE n.entries[j + 1].key > l
        OBVIOUS
      <4>1. PICK b : b = j + 1  OBVIOUS
      <4>2. b \in 1..Len(n.entries) /\ j < b  BY <4>1, <3>1, <1>3
      <4>3. l < n.entries[b].key /\ n.entries[b].key \in Int  BY <4>2, <3>1, <3>2, <1>2, <1>3 DEF Ascending
      <4> QED  BY <4>1, <4>3, <3>3
    <3>6. At(n, l, j)  BY <3>4, <3>5 DEF At
    <3> QED  BY <3>3, <3>6
  <2> QED  BY <2>1, <2>2
<1>8. \A l \in mine : At(n, l, j) => r[g][l] = Child(n, j)
  <2> TAKE l \in mine
  <2> HAVE At(n, l, j)
  <2>1. PickChild(n, l) = Child(n, j)  BY <1>2, PickIs
  <2> QED  BY <2>1, <1>6
<1>9. PICK x \in mine : At(n, x, j)  BY <1>7
<1>10. ASSUME NEW l \in Keys, r[g][l] = Child(n, j)  PROVE l \in mine /\ At(n, l, j)
  <2>1. r[g][l] = r[g][x]  BY <1>8, <1>9, <1>10
  <2>2. Coarse(h, r)  BY DEF Good, Routing
  <2>3. r[g + 1][l] = r[g + 1][x]  BY <2>1, <2>2, <1>5 DEF Coarse
  <2>4. l \in mine  BY <2>3, <1>5
  <2>5. PICK m \in 0..Len(n.entries) : At(n, l, m) /\ PickChild(n, l) = Child(n, m)  BY <1>2, PickedAt
  <2>6. Child(n, m) = Child(n, j)  BY <2>4, <2>5, <1>6, <1>10
  <2>7. m = j  BY <2>6, <1>2 DEF Distinct
  <2> QED  BY <2>4, <2>5, <2>7
<1>11. \A m : m \in j..j <=> m = j  BY <1>3
<1>12. {l \in Keys : r[g][l] = Child(n, j)} = Between(n, mine, j, j)  BY <1>8, <1>10, <1>11 DEF Between
<1> QED  BY <1>4, <1>7, <1>8, <1>12 DEF FallTo

\* The keys of one leaf of the line.
LEMMA KeysAt ==
  ASSUME NEW r, NEW ls, NEW a \in Int
  PROVE  KeysOf(r, ls, a, a) = {l \in Keys : r[0][l] = ls[a]}
<1>1. (\A c \in a..a : c = a) /\ a \in a..a  OBVIOUS
<1> QED  BY <1>1 DEF KeysOf

\* The leaves under every page are the part of the line that holds its keys.
LEMMA InOrderIs ==
  ASSUME NEW h, NEW r, NEW ls, Good(h, r, -1, ls)
  PROVE  Covers(r, ls, MaxPages - h, InOrder, Keys)
<1>1. PICK under : /\ InOrder = under[MaxPages][Root]
                   /\ \A d \in 0..MaxPages : \A p \in Pages :
                        under[d][p] =
                          IF d = 0 \/ page[p].type # "internal" THEN << <<p, d>> >>
                          ELSE under[d - 1][page[p].first]
                               \o FlattenSeq([i \in 1..Len(page[p].entries) |-> under[d - 1][page[p].entries[i].child]])
  BY UnderRec
<1>2. h \in Nat /\ MaxPages \in Nat /\ h < MaxPages
  <2>1. PICK k \in Keys : TRUE  BY TreeAssumption
  <2> QED  BY OnTheWay
<1>3. PICK c : c = MaxPages - h  OBVIOUS
<1>4. c \in Nat /\ c + h = MaxPages  BY <1>2, <1>3
<1>5. InLine(r[0], ls) /\ ls \in Seq(Pages) /\ Len(ls) \in Nat  BY LineFacts DEF Good, Chain
<1> DEFINE Right(i) == \A k \in Keys : Covers(r, ls, c, under[c + i][r[i][k]], {l \in Keys : r[i][l] = r[i][k]})
           S == {i \in 0..h : Right(i)}
<1>6. 0 \in S
  <2>1. ASSUME NEW k \in Keys  PROVE Covers(r, ls, c, under[c + 0][r[0][k]], {l \in Keys : r[0][l] = r[0][k]})
    <3>1. PICK a \in 1..Len(ls) : ls[a] = r[0][k]  BY <1>5 DEF InLine
    <3>2. r[0][k] \in Pages /\ page[r[0][k]] \in Leafs
      <4>1. 0 \in 0..h  BY <1>2
      <4> QED  BY <4>1, OnTheWay
    <3>3. page[r[0][k]].type = "leaf"  BY <3>2 DEF Leafs
    <3>4. c + 0 = c /\ c \in 0..MaxPages  BY <1>2, <1>4
    <3>5. under[c][r[0][k]] = << <<r[0][k], c>> >>  BY <3>2, <3>3, <3>4, <1>1
    <3>6. Tagged(ls, a, a, c) = << <<ls[a], c>> >>
      <4>1. a + 1 - a = 1 /\ a + 1 - 1 = a  OBVIOUS
      <4>2. \A j \in 1..1 : a + j - 1 = a  OBVIOUS
      <4>3. Tagged(ls, a, a, c) = [j \in 1..1 |-> <<ls[a], c>>]  BY <4>1, <4>2 DEF Tagged
      <4> QED  BY <4>3
    <3>7. a \in a..Len(ls) /\ a \in Int  BY <1>5
    <3>8. KeysOf(r, ls, a, a) = {l \in Keys : r[0][l] = r[0][k]}  BY <3>1, <3>7, KeysAt
    <3>9. under[c][r[0][k]] = Tagged(ls, a, a, c)  BY <3>1, <3>5, <3>6
    <3> QED  BY <3>4, <3>7, <3>8, <3>9 DEF Covers
  <2>2. Right(0)  BY <2>1
  <2> HIDE DEF Right
  <2> QED  BY <2>2, <1>2
<1>7. ASSUME NEW g \in 0..(h - 1), g \in S  PROVE g + 1 \in S
  <2>1. PICK i : i = g + 1  OBVIOUS
  <2>2. i \in 1..h /\ i \in 0..h /\ i - 1 = g /\ g \in 0..h  BY <2>1, <1>2
  <2>3. PICK d : d = c + i  OBVIOUS
  <2>4. d \in 0..MaxPages /\ d # 0 /\ d - 1 = c + g  BY <2>1, <2>2, <2>3, <1>2, <1>4
  <2>5. Right(g)
    <3> HIDE DEF Right
    <3> QED  BY <1>7
  <2>6. ASSUME NEW k \in Keys  PROVE Covers(r, ls, c, under[d][r[i][k]], {l \in Keys : r[i][l] = r[i][k]})
    <3>1. PICK p : p = r[i][k]  OBVIOUS
    <3>2. PICK n : n = page[p]  OBVIOUS
    <3>3. PICK mine : mine = {l \in Keys : r[i][l] = p}  OBVIOUS
    <3>4. p \in Pages /\ n \in Inners  BY <2>2, <3>1, <3>2, OnTheWay
    <3>5. n.type = "internal" /\ Len(n.entries) \in Nat  BY <3>4, InnerType
    <3>6. PICK w : w = under[d - 1][n.first]  OBVIOUS
    <3>7. PICK ss : ss = [j \in 1..Len(n.entries) |-> under[d - 1][n.entries[j].child]]  OBVIOUS
    <3>8. under[d][p] = w \o FlattenSeq(ss)  BY <2>4, <3>2, <3>4, <3>5, <3>6, <3>7, <1>1
    <3>9. ASSUME NEW j \in 0..Len(n.entries)
          PROVE  Covers(r, ls, c, under[d - 1][Child(n, j)], Between(n, mine, j, j))
      <4>1. /\ {l \in Keys : r[i - 1][l] = Child(n, j)} = Between(n, mine, j, j)
            /\ \E l \in mine : At(n, l, j) /\ r[i - 1][l] = Child(n, j)
        <5>1. n = page[r[i][k]] /\ mine = {l \in Keys : r[i][l] = r[i][k]}  BY <3>1, <3>2, <3>3
        <5>2. FallTo(r, i, n, mine, j)  BY <5>1, <2>2, ChildKeys
        <5> QED  BY <5>2 DEF FallTo
      <4>2. PICK l \in Keys : r[g][l] = Child(n, j)  BY <4>1, <2>2, <3>3
      <4>3. Covers(r, ls, c, under[c + g][r[g][l]], {x \in Keys : r[g][x] = r[g][l]})  BY <2>5
      <4> QED  BY <4>1, <4>2, <4>3, <2>2, <2>4
    <3>10. Len(ss) = Len(n.entries) /\ \A j \in 1..Len(ss) : ss[j] = under[d - 1][n.entries[j].child]
      BY <3>5, <3>7
    <3>11. Len(ss) = 0 => ss = <<>>
      <4>1. Len(n.entries) = 0 => ss = [j \in 1..0 |-> under[d - 1][n.entries[j].child]]  BY <3>7
      <4>2. [j \in 1..0 |-> under[d - 1][n.entries[j].child]] = <<>>  OBVIOUS
      <4> QED  BY <4>1, <4>2, <3>10
    <3>12. \A j \in 1..Len(ss) : Covers(r, ls, c, ss[j], Between(n, mine, j, j))
      <4> TAKE j \in 1..Len(ss)
      <4>1. j \in 0..Len(n.entries) /\ j # 0  BY <3>5, <3>10
      <4>2. ss[j] = under[d - 1][Child(n, j)]  BY <4>1, <3>10 DEF Child
      <4> QED  BY <4>1, <4>2, <3>9
    <3>13. Covers(r, ls, c, w, Between(n, mine, 0, 0))
      <4>1. 0 \in 0..Len(n.entries)  BY <3>5
      <4>2. Child(n, 0) = n.first  BY DEF Child
      <4> QED  BY <4>1, <4>2, <3>6, <3>9
    <3>14. Gapless(mine) /\ mine \subseteq Keys
      <4>1. Convex(h, r)  BY DEF Good, Routing
      <4> QED  BY <4>1, <2>2, <3>3 DEF Convex, Gapless
    <3>15. Covers(r, ls, c, w \o FlattenSeq(ss), mine)
      BY <1>4, <1>5, <3>4, <3>10, <3>11, <3>12, <3>13, <3>14, FlatCovers
    <3> QED  BY <3>1, <3>3, <3>8, <3>15
  <2>7. Right(i)  BY <2>3, <2>6
  <2> HIDE DEF Right
  <2> QED  BY <2>1, <2>2, <2>7
<1>8. Right(h)
  <2> HIDE DEF Right
  <2>1. 0..h \subseteq S  BY <1>2, <1>6, <1>7, StepsFromZero
  <2>2. h \in 0..h  BY <1>2
  <2> QED  BY <2>1, <2>2
<1>9. \A k \in Keys : r[h][k] = Root
  <2>1. h \in 0..h /\ h # -1  BY <1>2
  <2> QED  BY <2>1 DEF Good, Leads, LeadsBut, Led
<1>10. PICK k \in Keys : TRUE  BY TreeAssumption
<1>11. {l \in Keys : r[h][l] = r[h][k]} = Keys  BY <1>9
<1>12. Covers(r, ls, c, under[c + h][r[h][k]], {l \in Keys : r[h][l] = r[h][k]})  BY <1>8
<1> QED  BY <1>1, <1>3, <1>4, <1>9, <1>11, <1>12

\* The tree and the chain agree.
LEMMA GoodChain ==
  ASSUME NEW h, NEW r, NEW f, NEW ls, Good(h, r, f, ls)
  PROVE  ChainIsTree
<1> SUFFICES ASSUME Idle
             PROVE  /\ \A i \in 1..Len(InOrder) : page[InOrder[i][1]].type = "leaf" /\ InOrder[i][2] = InOrder[1][2]
                    /\ ChainFrom(LeftmostLeaf) = [i \in 1..Len(InOrder) |-> InOrder[i][1]]
  BY DEF ChainIsTree
<1>1. Good(h, r, -1, ls)
  <2>1. f = -1  BY IdleFlight
  <2> QED  BY <2>1
<1>2. PICK c : c = MaxPages - h  OBVIOUS
<1>3. h \in Nat /\ MaxPages \in Nat /\ h < MaxPages /\ c \in Nat
  <2>1. PICK k \in Keys : TRUE  BY TreeAssumption
  <2>2. h \in Nat /\ MaxPages \in Nat /\ h < MaxPages  BY <2>1, OnTheWay
  <2> QED  BY <2>2, <1>2
<1>4. Covers(r, ls, c, InOrder, Keys)  BY <1>1, <1>2, InOrderIs
<1>5. PICK a \in 1..Len(ls) : \E b \in a..Len(ls) : InOrder = Tagged(ls, a, b, c) /\ KeysOf(r, ls, a, b) = Keys
  BY <1>4 DEF Covers
<1>6. PICK b \in a..Len(ls) : InOrder = Tagged(ls, a, b, c) /\ KeysOf(r, ls, a, b) = Keys  BY <1>5
<1>7. InLine(r[0], ls) /\ ls \in Seq(Pages) /\ Len(ls) \in Nat  BY LineFacts DEF Good, Chain
<1>8. ASSUME NEW x \in 1..Len(ls)  PROVE x \in a..b
  <2>1. PICK k \in Keys : ls[x] = r[0][k]  BY <1>7 DEF InLine
  <2>2. k \in KeysOf(r, ls, a, b)  BY <1>6
  <2>3. PICK y \in a..b : r[0][k] = ls[y]  BY <2>2 DEF KeysOf
  <2>4. y \in 1..Len(ls)  BY <1>7
  <2>5. x = y  BY <2>1, <2>3, <2>4, <1>7, LineDistinct
  <2> QED  BY <2>5
<1>9. a = 1 /\ b = Len(ls)
  <2>1. 1 \in 1..Len(ls) /\ Len(ls) \in 1..Len(ls)  BY <1>7
  <2>2. 1 \in a..b /\ Len(ls) \in a..b  BY <2>1, <1>8
  <2> QED  BY <2>2, <1>7
<1>10. PICK n : n = Len(ls)  OBVIOUS
<1>11. Len(InOrder) = n /\ \A j \in 1..n : InOrder[j] = <<ls[j], c>>
  <2>1. /\ Len(InOrder) = b + 1 - a
        /\ \A j \in 1..(b + 1 - a) : InOrder[j] = <<ls[a + j - 1], c>>
    BY <1>3, <1>6, <1>7, TaggedIs
  <2>2. b + 1 - a = n /\ \A j \in 1..n : a + j - 1 = j  BY <1>7, <1>9, <1>10
  <2> QED  BY <2>1, <2>2
<1>12. ASSUME NEW j \in 1..n  PROVE page[ls[j]].type = "leaf"
  <2>1. PICK k \in Keys : ls[j] = r[0][k]  BY <1>7, <1>10 DEF InLine
  <2>2. 0 \in 0..h  BY <1>3
  <2>3. page[r[0][k]] \in Leafs  BY <1>1, OnTheWay
  <2> QED  BY <2>1, <2>3 DEF Leafs
<1>13. n >= 1 /\ n \in Nat  BY <1>7, <1>9, <1>10
<1>14. \A i \in 1..Len(InOrder) : page[InOrder[i][1]].type = "leaf" /\ InOrder[i][2] = InOrder[1][2]
  <2> TAKE i \in 1..Len(InOrder)
  <2>1. i \in 1..n /\ 1 \in 1..n  BY <1>11, <1>13
  <2>2. InOrder[i] = <<ls[i], c>> /\ InOrder[1] = <<ls[1], c>>  BY <2>1, <1>11
  <2>3. InOrder[i][1] = ls[i] /\ InOrder[i][2] = c /\ InOrder[1][2] = c  BY <2>2
  <2> QED  BY <2>1, <2>3, <1>12
<1>15. ChainFrom(LeftmostLeaf) = ls
  <2>1. LeftmostLeaf = Stop(ls, 1) /\ 1 \in 1..(Len(ls) + 1)  BY <1>7, LeftmostIs
  <2>2. ChainFrom(LeftmostLeaf) = SubSeq(ls, 1, Len(ls))  BY <2>1, ChainIs
  <2> QED  BY ONLY <2>2, <1>7
<1>16. [i \in 1..Len(InOrder) |-> InOrder[i][1]] = ls
  <2>1. \A i \in 1..n : InOrder[i][1] = ls[i]  BY <1>11
  <2>2. [i \in 1..Len(InOrder) |-> InOrder[i][1]] = [i \in 1..n |-> ls[i]]  BY <2>1, <1>11
  <2>3. ls = [i \in 1..n |-> ls[i]]  BY <1>7, <1>10
  <2> QED  BY <2>2, <2>3
<1> QED  BY <1>14, <1>15, <1>16

-----------------------------------------------------------------------------
(* Pages.                                                                  *)

\* The pages of the tree, and the internal ones.
Live == (1..count) \ wasted
InnerPages == {p \in Live : page[p].type = "internal"}

\* Every page of the tree has a level, and is internal above the leaves.
LEMMA LivePages ==
  ASSUME NEW h, NEW r, NEW ls, Good(h, r, -1, ls), NEW p \in Live
  PROVE  /\ p \in Pages /\ p \in Nat
         /\ \E i \in 0..h, k \in Keys : p = r[i][k]
         /\ p \in InnerPages <=> \E i \in 1..h, k \in Keys : p = r[i][k]
<1>1. Covered(h, r, Live) /\ h \in Nat  BY DEF Good, Routing, Live
<1>2. PICK i \in 0..h, k \in Keys : r[i][k] = p  BY <1>1 DEF Covered
<1>3. p \in Pages /\ p \in Nat
  <2>1. p \in Pages  BY <1>2, OnTheWay
  <2> QED  BY <2>1 DEF Pages
<1>4. \A j \in 1..h, l \in Keys : page[r[j][l]].type = "internal"
  BY OnTheWay, InnerType
<1>5. \A l \in Keys : page[r[0][l]].type # "internal"
  <2> TAKE l \in Keys
  <2>1. page[r[0][l]] \in Leafs  BY OnTheWay
  <2>2. page[r[0][l]].type = "leaf"  BY <2>1 DEF Leafs
  <2> QED  BY <2>2
<1>6. (\E j \in 1..h, l \in Keys : p = r[j][l]) => p \in InnerPages  BY <1>4 DEF InnerPages
<1>7. p \in InnerPages => \E j \in 1..h, l \in Keys : p = r[j][l]
  <2> SUFFICES ASSUME page[p].type = "internal"  PROVE i \in 1..h
    BY <1>2 DEF InnerPages
  <2>1. i # 0  BY <1>2, <1>5
  <2> QED  BY <2>1, <1>1
<1> QED  BY <1>2, <1>3, <1>6, <1>7

\* A child of an internal page is one level down, on the way of its keys.
ChildAt(h, r, p, j, i, k) ==
  /\ i \in 1..h /\ k \in Keys /\ r[i][k] = p /\ r[i - 1][k] = Child(page[p], j)

\* Every child of an internal page is on a level of the tree.
LEMMA ChildPlace ==
  ASSUME NEW h, NEW r, NEW ls, Good(h, r, -1, ls), NEW p \in InnerPages, NEW j \in 0..Len(page[p].entries)
  PROVE  \E i, k : ChildAt(h, r, p, j, i, k)
<1>1. p \in Live  BY DEF InnerPages
<1>2. PICK i \in 1..h, k \in Keys : p = r[i][k]  BY <1>1, LivePages
<1>3. PICK n : n = page[r[i][k]]  OBVIOUS
<1>4. PICK mine : mine = {l \in Keys : r[i][l] = r[i][k]}  OBVIOUS
<1>5. j \in 0..Len(n.entries)  BY <1>2, <1>3
<1>6. FallTo(r, i, n, mine, j)  BY <1>3, <1>4, <1>5, ChildKeys
<1>7. PICK l \in mine : r[i - 1][l] = Child(n, j)  BY <1>6 DEF FallTo
<1>8. ChildAt(h, r, p, j, i, l)  BY <1>2, <1>3, <1>4, <1>7 DEF ChildAt
<1> QED  BY <1>8

\* What an internal page of the tree holds.
LEMMA ChildNodes ==
  ASSUME NEW h, NEW r, NEW ls, Good(h, r, -1, ls), NEW p \in InnerPages
  PROVE  /\ page[p] \in Inners /\ Distinct(page[p]) /\ Len(page[p].entries) \in Nat
         /\ Len(page[p].entries) <= MaxEntries
<1>1. p \in Live  BY DEF InnerPages
<1>2. PICK i \in 1..h, k \in Keys : p = r[i][k]  BY <1>1, LivePages
<1>3. InnerOK(page[p], {l \in Keys : r[i][l] = r[i][k]})  BY <1>2 DEF Good, InnersOK
<1>4. page[p] \in Inners /\ Distinct(page[p])  BY <1>3 DEF InnerOK
<1>5. p \in Pages  BY <1>1, LivePages
<1>6. NodeOK(page[p], count)  BY <1>5 DEF Good, Typed
<1> QED  BY <1>4, <1>6, InnerType DEF NodeOK

\* Children that are one page are one child of one page.
LEMMA OneParent ==
  ASSUME NEW h, NEW r, NEW ls, Good(h, r, -1, ls),
         NEW p \in InnerPages, NEW j \in 0..Len(page[p].entries),
         NEW q \in InnerPages, NEW m \in 0..Len(page[q].entries),
         Child(page[p], j) = Child(page[q], m)
  PROVE  p = q /\ j = m
<1>1. PICK i, k : ChildAt(h, r, p, j, i, k)  BY ChildPlace
<1>2. PICK g, l : ChildAt(h, r, q, m, g, l)  BY ChildPlace
<1>3. i \in 1..h /\ g \in 1..h /\ k \in Keys /\ l \in Keys /\ h \in Nat  BY <1>1, <1>2 DEF ChildAt, Good, Routing
<1>4. r[i - 1][k] = r[g - 1][l]  BY <1>1, <1>2 DEF ChildAt
<1>5. Apart(h, r) /\ Coarse(h, r)  BY DEF Good, Routing
<1>6. PICK x : x = i - 1  OBVIOUS
<1>7. PICK y : y = g - 1  OBVIOUS
<1>8. x \in 0..(h - 1) /\ x \in 0..h /\ y \in 0..h /\ x + 1 = i /\ y + 1 = g  BY <1>3, <1>6, <1>7
<1>9. x = y  BY <1>3, <1>4, <1>5, <1>6, <1>7, <1>8 DEF Apart
<1>10. r[x + 1][k] = r[x + 1][l]  BY <1>3, <1>4, <1>5, <1>6, <1>7, <1>8, <1>9 DEF Coarse
<1>11. p = q  BY <1>1, <1>2, <1>8, <1>9, <1>10 DEF ChildAt
<1>12. j = m  BY <1>11, ChildNodes DEF Distinct
<1> QED  BY <1>11, <1>12

\* The children of a node.
ChildrenOf(n) == {n.first} \cup {n.entries[i].child : i \in 1..Len(n.entries)}

\* The children of a node have the places from 0 on.
LEMMA ChildrenAre ==
  ASSUME NEW n \in Inners
  PROVE  ChildrenOf(n) = {Child(n, j) : j \in 0..Len(n.entries)}
<1>1. Len(n.entries) \in Nat  BY InnerType
<1>2. Child(n, 0) = n.first /\ \A j \in 1..Len(n.entries) : Child(n, j) = n.entries[j].child  BY DEF Child
<1>3. \A j : j \in 0..Len(n.entries) <=> j = 0 \/ j \in 1..Len(n.entries)  BY <1>1
<1> QED  BY <1>2, <1>3 DEF ChildrenOf

\* Every page but the root is some child.
LEMMA LiveChildren ==
  ASSUME NEW h, NEW r, NEW ls, Good(h, r, -1, ls)
  PROVE  UNION {ChildrenOf(page[p]) : p \in InnerPages} = (2..count) \ wasted
<1> DEFINE all == UNION {ChildrenOf(page[p]) : p \in InnerPages}
<1>1. h \in Nat /\ count \in Nat /\ Root = 1 /\ \A k \in Keys : r[h][k] = Root
  <2>1. h \in Nat /\ count \in Pages  BY DEF Good, Routing, Typed
  <2>2. h \in 0..h /\ h # -1  BY <2>1
  <2>3. \A k \in Keys : r[h][k] = Root  BY <2>2 DEF Good, Leads, LeadsBut, Led
  <2> QED  BY <2>1, <2>3 DEF Pages, Root
<1>2. \A i \in 0..h, k \in Keys : r[i][k] \in Live  BY DEF Good, Routing, Live
<1>3. Apart(h, r)  BY DEF Good, Routing
<1>4. ASSUME NEW x \in all  PROVE x \in (2..count) \ wasted
  <2>1. PICK p \in InnerPages : x \in ChildrenOf(page[p])  OBVIOUS
  <2>2. PICK j \in 0..Len(page[p].entries) : x = Child(page[p], j)  BY <2>1, ChildNodes, ChildrenAre
  <2>3. PICK i, k : ChildAt(h, r, p, j, i, k)  BY ChildPlace
  <2>4. i \in 1..h /\ k \in Keys /\ x = r[i - 1][k]  BY <2>2, <2>3 DEF ChildAt
  <2>5. PICK g : g = i - 1  OBVIOUS
  <2>6. g \in 0..h /\ h \in 0..h /\ g # h  BY <2>4, <2>5, <1>1
  <2>7. x \in Live  BY <2>4, <2>5, <2>6, <1>2
  <2>8. x # Root
    <3>1. r[h][k] = Root  BY <2>4, <1>1
    <3> QED  BY <3>1, <2>4, <2>5, <2>6, <1>3 DEF Apart
  <2> QED  BY <2>7, <2>8, <1>1 DEF Live
<1>5. ASSUME NEW x \in (2..count) \ wasted  PROVE x \in all
  <2>1. x \in Live /\ x # Root  BY <1>1 DEF Live
  <2>2. PICK i \in 0..h, k \in Keys : x = r[i][k]  BY <2>1, LivePages
  <2>3. i # h /\ i # -1  BY <2>1, <2>2, <1>1
  <2>4. PICK g : g = i + 1  OBVIOUS
  <2>5. g \in 1..h /\ g \in 0..h  BY <2>3, <2>4, <1>1
  <2>6. PICK p : p = r[g][k]  OBVIOUS
  <2>7. p \in Live  BY <2>5, <2>6, <1>2
  <2>8. p \in InnerPages  BY <2>5, <2>6, <2>7, LivePages
  <2>9. x = PickChild(page[p], k)
    <3>1. r[i][k] = Led(h, r, i, k)  BY <2>3 DEF Good, Leads, LeadsBut
    <3> QED  BY <3>1, <2>2, <2>3, <2>4, <2>6 DEF Led
  <2>10. page[p] \in Inners  BY <2>8, ChildNodes
  <2>11. PICK j \in 0..Len(page[p].entries) : PickChild(page[p], k) = Child(page[p], j)  BY <2>10, PickedAt
  <2>12. x \in ChildrenOf(page[p])  BY <2>9, <2>10, <2>11, ChildrenAre
  <2> QED  BY <2>8, <2>12
<1> QED  BY <1>4, <1>5

\* No page is lost or has two parents.
LEMMA GoodPages ==
  ASSUME NEW h, NEW r, NEW f, NEW ls, Good(h, r, f, ls)
  PROVE  NoPageLost
<1> SUFFICES ASSUME Idle  PROVE NoPageLost
  BY DEF NoPageLost
<1>1. Good(h, r, -1, ls)
  <2>1. f = -1  BY IdleFlight
  <2> QED  BY <2>1
<1>2. PICK children : children = UNION {ChildrenOf(page[p]) : p \in InnerPages}  OBVIOUS
<1>3. PICK E : E = {e \in InnerPages \X (0..MaxEntries) : e[2] <= Len(page[e[1]].entries)}  OBVIOUS
<1>4. children = (2..count) \ wasted  BY <1>1, <1>2, LiveChildren
<1>5. IsFiniteSet(children)
  <2>1. count \in Int  BY DEF Good, Typed, Pages
  <2>2. IsFiniteSet(2..count)  BY <2>1, FS_Interval
  <2>3. children \in SUBSET (2..count)  BY <1>4
  <2> QED  BY <2>2, <2>3, FS_Subset
<1>6. \A e \in E : e[1] \in InnerPages /\ e[2] \in 0..Len(page[e[1]].entries) /\ e = <<e[1], e[2]>>
  <2> TAKE e \in E
  <2>1. e[1] \in InnerPages /\ e[2] \in 0..MaxEntries /\ e = <<e[1], e[2]>> /\ e[2] <= Len(page[e[1]].entries)
    BY <1>3
  <2>2. Len(page[e[1]].entries) \in Nat /\ MaxEntries \in Nat  BY <2>1, <1>1, ChildNodes, TreeAssumption
  <2> QED  BY <2>1, <2>2
<1>7. \A p \in InnerPages : page[p] \in Inners  BY <1>1, ChildNodes
<1>8. PICK F : F = [e \in E |-> Child(page[e[1]], e[2])]  OBVIOUS
<1>9. F \in [E -> children]
  <2>1. ASSUME NEW e \in E  PROVE Child(page[e[1]], e[2]) \in children
    <3>1. page[e[1]] \in Inners /\ e[1] \in InnerPages /\ e[2] \in 0..Len(page[e[1]].entries)  BY <1>6, <1>7
    <3>2. Child(page[e[1]], e[2]) \in ChildrenOf(page[e[1]])  BY <3>1, ChildrenAre
    <3> QED  BY <3>1, <3>2, <1>2
  <2> QED  BY <2>1, <1>8
<1>10. \A a, b \in E : F[a] = F[b] => a = b
  <2> TAKE a, b \in E
  <2> HAVE F[a] = F[b]
  <2>1. Child(page[a[1]], a[2]) = Child(page[b[1]], b[2])  BY <1>8
  <2>2. a[1] = b[1] /\ a[2] = b[2]  BY <2>1, <1>1, <1>6, OneParent
  <2>3. a = <<a[1], a[2]>> /\ b = <<b[1], b[2]>>  BY <1>6
  <2> QED  BY <2>2, <2>3
<1>11. \A x \in children : \E e \in E : F[e] = x
  <2> TAKE x \in children
  <2>1. PICK p \in InnerPages : x \in ChildrenOf(page[p])  BY <1>2
  <2>2. PICK j \in 0..Len(page[p].entries) : x = Child(page[p], j)  BY <2>1, <1>7, ChildrenAre
  <2>3. Len(page[p].entries) \in Nat /\ Len(page[p].entries) <= MaxEntries /\ MaxEntries \in Nat
    BY <1>1, ChildNodes, TreeAssumption
  <2>4. j \in 0..MaxEntries /\ j <= Len(page[p].entries)  BY <2>3
  <2>5. PICK e : e = <<p, j>>  OBVIOUS
  <2>6. e[1] = p /\ e[2] = j /\ e \in InnerPages \X (0..MaxEntries)  BY <2>4, <2>5
  <2>7. e \in E  BY <2>4, <2>6, <1>3
  <2> QED  BY <2>2, <2>6, <2>7, <1>8
<1>12. F \in Injection(E, children)  BY <1>9, <1>10 DEF Injection, IsInjective
<1>13. F \in Surjection(E, children)  BY <1>9, <1>11 DEF Surjection
<1>14. Cardinality(children) = Cardinality(E)  BY <1>5, <1>12, <1>13, FS_Injection
<1> QED  BY <1>2, <1>3, <1>4, <1>14 DEF NoPageLost, InnerPages, Live, ChildrenOf

\* A key below the separator that a split promotes shares the old child with it,
\* so it is no separator of the parent yet.
LEMMA GoodSplits ==
  ASSUME NEW h, NEW r, NEW f, NEW ls, Good(h, r, f, ls)
  PROVE  SplitsGoIn
<1> SUFFICES ASSUME Promoting, Has(Parent.entries, carry[1].key)  PROVE FALSE
  BY DEF SplitsGoIn
<1>a. PICK e : e = carry[1]  OBVIOUS
<1>b. PICK s : s = e.key  OBVIOUS
<1>c. PICK n : n = e.child  OBVIOUS
<1>d. PICK x : x = Last(path)  OBVIOUS
<1>e. PICK o : o = page[x]  OBVIOUS
<1>1. h \in Nat /\ f \in 0..h /\ f + 1 \in 1..h /\ f # -1 /\ f < h /\ x = r[f + 1][s]
  BY <1>a, <1>b, <1>d, OnTop
<1>2. e \in Seps /\ s \in Keys /\ s \in Int /\ Pending(h, r, f, s, n)
  <2>1. carry[1] \in Seps /\ Pending(h, r, f, carry[1].key, carry[1].child)
    BY <1>1 DEF Good, Flight
  <2> QED  BY <2>1, <1>a, <1>b, <1>c, SepFields
<1>3. o \in Inners /\ Ascending(o.entries) /\ Distinct(o)
  <2>1. InnersOK(h, r)  BY DEF Good
  <2>2. InnerOK(o, {y \in Keys : r[f + 1][y] = x})  BY <2>1, <1>1, <1>2, <1>e DEF InnersOK
  <2> QED  BY <2>2 DEF InnerOK
<1>4. PICK j \in 1..Len(o.entries) : o.entries[j].key = s
  BY <1>a, <1>b, <1>d, <1>e DEF Has, Parent
<1>5. PICK k \in Keys : r[f][k] = Led(h, r, f, s) /\ k < s /\ r[f + 1][k] = x
  BY <1>1, <1>2 DEF Pending
<1>6. PickChild(o, k) = PickChild(o, s)
  <2>1. LeadsBut(h, r, f, s, n)  BY <1>a, <1>b, <1>c DEF Good, Leads
  <2>2. k \in Int  BY TreeAssumption
  <2>3. r[f][k] = Led(h, r, f, k)  BY <2>1, <2>2, <1>1, <1>2, <1>5 DEF LeadsBut
  <2>4. f # h  BY <1>1
  <2>5. Led(h, r, f, k) = PickChild(o, k) /\ Led(h, r, f, s) = PickChild(o, s)
    BY <2>4, <1>1, <1>5, <1>e DEF Led
  <2> QED  BY <2>3, <2>5, <1>5
<1>7. PICK a \in 0..Len(o.entries) : At(o, k, a) /\ PickChild(o, k) = Child(o, a)
  BY <1>3, PickedAt
<1>8. PICK b \in 0..Len(o.entries) : At(o, s, b) /\ PickChild(o, s) = Child(o, b)
  BY <1>2, <1>3, PickedAt
<1>9. a = b  BY <1>3, <1>6, <1>7, <1>8 DEF Distinct
<1>10. Len(o.entries) \in Nat /\ k \in Int /\ \A i \in 1..Len(o.entries) : o.entries[i].key \in Int
  BY <1>3, TreeAssumption, InnerType
<1>11. ~(j <= a)
  <2>1. j <= a => j \in 1..a  BY <1>7, <1>10
  <2>2. j \in 1..a => o.entries[j].key <= k  BY <1>7 DEF At
  <2>3. ~(s <= k)  BY <1>2, <1>5, <1>10
  <2> QED  BY <2>1, <2>2, <2>3, <1>4
<1>12. ~(b < j)
  <2> SUFFICES ASSUME b < j  PROVE FALSE  OBVIOUS
  <2>1. b < Len(o.entries) /\ b + 1 \in 1..Len(o.entries)  BY <1>10
  <2>2. o.entries[b + 1].key > s  BY <2>1, <1>8 DEF At
  <2>3. CASE b + 1 = j  BY <2>2, <2>3, <1>2, <1>4
  <2>4. CASE b + 1 # j
    <3>1. b + 1 < j  BY <2>4, <1>10
    <3>2. o.entries[b + 1].key < s  BY <3>1, <2>1, <1>3, <1>4 DEF Ascending
    <3> QED  BY <3>2, <2>1, <2>2, <1>2, <1>10
  <2> QED  BY <2>3, <2>4
<1> QED  BY <1>9, <1>10, <1>11, <1>12

\* The pages are one tree, its leaves are chained in the order of the tree, no
\* page is lost, the chain holds what the callers were told, whatever splits are
\* under way, and every split finds its place in the parent.
THEOREM TreeKeepsForm == TreeSpec => []WellFormed
<1>1. TreeInv => WellFormed  BY GoodTyped, GoodChain, GoodPages, GoodSplits, GoodScan DEF TreeInv, WellFormed
<1> QED  BY <1>1, TreeInvHolds, PTL

-----------------------------------------------------------------------------
(* Wal.                                                                    *)

\* In no environment are there crashes of both kinds; only the log may fail, and
\* its sync only where a rollback can remove the WAL.
OneFault ==
  \A e \in Environments : /\ ~(e.kill /\ e.power)
                          /\ e.errors \subseteq {"log", "logsync"}
                          /\ "logsync" \in e.errors => ~e.unlink

\* The .db d after the WAL w has been replayed over it.
Overlay(d, w) == [p \in DbPages |-> IF p \in w.pages THEN w.tx ELSE d[p]]

\* What a restart makes of d and w, if it gets to serve the database at all,
\* is a state the client can explain.
Recoverable(d, w) ==
  IF Committed(w) THEN w.bad = {} => Overlay(d, w) \in {acked, doubt} \ {None}
  ELSE d \in {acked, doubt} \ {None}

\* The WAL w, if it would be replayed, changes nothing of d.
Harmless(w, d) == Committed(w) => \A p \in w.pages : d[p] = w.tx

\* The state the commit in progress is about to produce.
NewState == [p \in DbPages |-> IF p \in dirty THEN tx ELSE acked[p]]

\* The open transaction's WAL is complete in w.
Complete(w) ==
  /\ Committed(w) /\ w.tx = tx /\ w.pages = dirty
  /\ w.bad = {} /\ w.tail = "whole"

\* What stable storage holds while the .db is not being written.  Killed
\* processes do not need it: they leave stable storage unread.
Durable ==
  env.power => dbDisk = acked /\ Harmless(walDisk, acked)

\* The invariant at each program point.
AtRest == pc \in {"idle", "tx"} =>
  /\ db = acked /\ doubt = None
  /\ Durable
  /\ Harmless(wal, acked)
  /\ pc = "tx" => wal = FreshWal(tx)

Logging == pc \in {"log", "logsync"} =>
  /\ db = acked /\ doubt = NewState
  /\ Durable
  /\ wal # NoFile /\ wal.tx = tx /\ wal.tail = "whole" /\ wal.bad = {}
  /\ todo \subseteq dirty /\ wal.pages = dirty \ todo
  /\ pc = "log" => ~wal.commit
  /\ pc = "logsync" => wal.commit /\ todo = {}

Failing == pc = "failed" =>
  /\ db = acked /\ doubt = NewState
  /\ Durable
  /\ wal # NoFile /\ wal.bad = {}
  /\ Committed(wal) => wal.tx = tx /\ wal.pages = dirty /\ ~env.unlink

Applying == pc = "apply" =>
  /\ doubt = NewState
  /\ env.power => dbDisk = acked
  /\ Complete(wal) /\ walDisk = wal
  /\ todo \subseteq dirty
  /\ \A p \in DbPages : db[p] = IF p \in dirty \ todo THEN tx ELSE acked[p]

Removing == pc = "remove" =>
  /\ doubt = NewState /\ db = doubt /\ dbDisk = doubt
  /\ Complete(wal) /\ walDisk = wal

Down == pc \in {"down", "refused", "replay"} =>
  /\ Recoverable(db, wal)
  /\ env.power => /\ walDisk = wal
                  /\ \A p \in DbPages : db[p] # dbDisk[p] => Committed(wal) /\ p \in wal.pages
  /\ pc = "replay" => /\ Committed(wal) /\ todo \subseteq wal.pages /\ wal.bad \subseteq todo
                      /\ \A p \in wal.pages \ todo : db[p] = wal.tx

Discarding == pc = "discard" =>
  /\ db \in {acked, doubt} \ {None}
  /\ Harmless(wal, db)
  /\ env.power => dbDisk = db /\ walDisk = wal

\* Only pages that were recorded can be recorded badly.
BadRecorded ==
  /\ wal # NoFile => wal.bad \subseteq wal.pages
  /\ walDisk # NoFile => walDisk.bad \subseteq walDisk.pages

\* A WAL is there while a commit is logged or a replay runs, and the state in
\* doubt is known while a commit runs.
WalThere ==
  /\ pc \in {"tx", "log", "logsync", "replay"} => wal # NoFile
  /\ pc \in {"log", "logsync", "failed", "apply", "remove"} => doubt # None

PInv == AtRest /\ Logging /\ Failing /\ Applying /\ Removing /\ Down /\ Discarding
WInv == WalTypeOK /\ WalThere /\ BadRecorded /\ PInv

-----------------------------------------------------------------------------
(* Type correctness.                                                       *)

\* The files a failed removal and a power loss can leave are WAL files.
LEMMA RemovedType ==
  ASSUME WalTypeOK
  PROVE  Removed \subseteq WalFiles \cup {NoFile}
  BY DEF WalTypeOK, Removed

LEMMA SurvivorsType ==
  ASSUME WalTypeOK
  PROVE  WalSurvivors \subseteq WalFiles \cup {NoFile}
<1> SUFFICES ASSUME NEW w \in WalSurvivors PROVE w \in WalFiles \cup {NoFile}
  OBVIOUS
<1>1. CASE w \in {walDisk, wal}
  BY <1>1 DEF WalTypeOK
<1>2. CASE w \notin {walDisk, wal}
  <2>1. /\ wal # NoFile
        /\ w \in [tx : {wal.tx}, pages : SUBSET wal.pages, bad : SUBSET Tearable,
                  commit : {wal.commit, FALSE}, tail : {"whole"} \cup Tails]
    BY <1>2 DEF WalSurvivors
  <2>2. wal \in WalFiles
    BY <2>1 DEF WalTypeOK
  <2>3. /\ wal.tx \in Nat /\ wal.pages \subseteq DbPages /\ wal.commit \in BOOLEAN
    BY <2>2 DEF WalFiles
  <2> QED
    BY <2>1, <2>3, WalAssumption DEF WalFiles
<1> QED
  BY <1>1, <1>2

LEMMA FreshWalType ==
  ASSUME NEW n \in Nat
  PROVE  FreshWal(n) \in WalFiles
  BY DEF FreshWal, WalFiles

LEMMA InitType == WalInit => WalTypeOK /\ WalThere
  BY SentinelAssumption DEF WalInit, WalTypeOK, Points, States, WalThere

LEMMA StepType == WalTypeOK /\ WalThere /\ [WalNext]_walVars => WalTypeOK' /\ WalThere'
<1> SUFFICES ASSUME WalTypeOK, WalThere, [WalNext]_walVars PROVE WalTypeOK' /\ WalThere'
  OBVIOUS
<1> USE DEF Points, WalThere
<1>1. CASE BeginTx
  <2>1. FreshWal(tx + 1) \in WalFiles
    BY FreshWalType DEF WalTypeOK
  <2> QED
    BY <1>1, <2>1, SentinelAssumption DEF BeginTx, WalTypeOK
<1>2. ASSUME NEW D \in SUBSET DbPages, StartCommit(D) PROVE WalTypeOK' /\ WalThere'
  <2>1. doubt' \in States
    BY <1>2 DEF StartCommit, WalTypeOK, States
  <2> QED
    BY <1>2, <2>1, SentinelAssumption DEF StartCommit, WalTypeOK, files
<1>3. ASSUME NEW p \in DbPages, LogPage(p) PROVE WalTypeOK' /\ WalThere'
  <2>1. wal \in WalFiles
    BY <1>3 DEF LogPage, WalTypeOK
  <2>2. wal' \in WalFiles
    BY <1>3, <2>1 DEF LogPage, WalFiles
  <2> QED
    BY <1>3, <2>2, SentinelAssumption DEF LogPage, WalTypeOK
<1>4. CASE LogCommit
  <2>1. wal \in WalFiles
    BY <1>4 DEF LogCommit, WalTypeOK
  <2>2. wal' \in WalFiles
    BY <1>4, <2>1 DEF LogCommit, WalFiles
  <2> QED
    BY <1>4, <2>2, SentinelAssumption DEF LogCommit, WalTypeOK
<1>5. CASE SyncLog
  BY <1>5 DEF SyncLog, WalTypeOK
<1>6. ASSUME NEW p \in DbPages, ApplyPage(p) PROVE WalTypeOK' /\ WalThere'
  BY <1>6 DEF ApplyPage, WalTypeOK
<1>7. CASE SyncDb
  BY <1>7 DEF SyncDb, WalTypeOK
<1>8. CASE FinishCommit
  <2>1. doubt \in States
    BY <1>8 DEF FinishCommit, WalTypeOK
  <2> QED
    BY <1>8, <2>1, RemovedType DEF FinishCommit, WalTypeOK
<1>9. ASSUME NEW s \in Steps, IoError(s) PROVE WalTypeOK' /\ WalThere'
  <2>1. wal' \in WalFiles \cup {NoFile}
    <3>1. CASE wal' = wal
      BY <3>1 DEF WalTypeOK
    <3>2. CASE pc = "log" /\ \E t \in {"whole"} \cup Tails : wal' = [wal EXCEPT !.tail = t]
      BY <3>2, WalAssumption DEF WalTypeOK, WalFiles
    <3> QED
      BY <1>9, <3>1, <3>2 DEF IoError
  <2> QED
    BY <1>9, <2>1 DEF IoError, WalTypeOK
<1>10. CASE RollbackTx
  BY <1>10, RemovedType DEF RollbackTx, WalTypeOK
<1>11. CASE Killed
  <2>1. wal' \in WalFiles \cup {NoFile}
    <3>1. CASE wal' = wal
      BY <3>1 DEF WalTypeOK
    <3>2. CASE pc = "log" /\ \E t \in Tails : wal' = [wal EXCEPT !.tail = t]
      BY <3>2, WalAssumption DEF WalTypeOK, WalFiles
    <3> QED
      BY <1>11, <3>1, <3>2 DEF Killed
  <2> QED
    BY <1>11, <2>1 DEF Killed, WalTypeOK
<1>12. CASE PowerLost
  <2>1. db' \in [DbPages -> Nat \cup {Torn}]
    BY <1>12 DEF PowerLost, WalTypeOK
  <2> QED
    BY <1>12, <2>1, SurvivorsType DEF PowerLost, WalTypeOK
<1>13. CASE Recovery
  <2>1. CASE OpenRefused
    BY <2>1 DEF OpenRefused, WalTypeOK, files
  <2>2. CASE OpenClean
    BY <2>2 DEF OpenClean, Serve, WalTypeOK, files
  <2>3. CASE OpenWithWal
    BY <2>3 DEF OpenWithWal, WalTypeOK, files, WalFiles
  <2>4. ASSUME NEW p \in DbPages, ReplayPage(p) PROVE WalTypeOK' /\ WalThere'
    <3>1. wal.tx \in Nat
      BY <2>4 DEF ReplayPage, WalTypeOK, WalFiles
    <3> QED
      BY <2>4, <3>1 DEF ReplayPage, WalTypeOK
  <2>5. ASSUME NEW p \in DbPages, ReplayRefused(p) PROVE WalTypeOK' /\ WalThere'
    BY <2>5 DEF ReplayRefused, WalTypeOK, files
  <2>6. CASE SyncReplay
    BY <2>6 DEF SyncReplay, WalTypeOK
  <2>7. CASE DiscardWal
    BY <2>7, RemovedType DEF DiscardWal, Serve, WalTypeOK
  <2> QED
    BY <1>13, <2>1, <2>2, <2>3, <2>4, <2>5, <2>6, <2>7 DEF Recovery
<1>14. CASE Retry
  BY <1>14 DEF Retry, WalTypeOK, files
<1>15. CASE UNCHANGED walVars
  BY <1>15 DEF walVars, WalTypeOK
<1> QED
  BY <1>1, <1>2, <1>3, <1>4, <1>5, <1>6, <1>7, <1>8, <1>9, <1>10, <1>11, <1>12,
     <1>13, <1>14, <1>15 DEF WalNext

\* The files, the program point and the history keep their types, whatever
\* crashes and I/O errors happen (storage.rs, Pager::begin to Wal::replay_to).
THEOREM WalTypeCorrect == WalSpec => []WalTypeOK
<1>1. WalInit => WalTypeOK /\ WalThere
  BY InitType
<1>2. WalTypeOK /\ WalThere /\ [WalNext]_walVars => WalTypeOK' /\ WalThere'
  BY StepType
<1> QED
  BY <1>1, <1>2, PTL DEF WalSpec

-----------------------------------------------------------------------------
(* The invariant.                                                          *)

\* Replaying a WAL whose pages the .db already holds gives the .db back.
LEMMA HarmlessOverlay ==
  ASSUME NEW d \in [DbPages -> Nat \cup {Torn}], NEW w, Harmless(w, d),
         d \in {acked, doubt} \ {None}
  PROVE  Recoverable(d, w)
<1>1. CASE ~Committed(w)
  BY <1>1 DEF Recoverable
<1>2. CASE Committed(w)
  <2>1. \A p \in DbPages : (IF p \in w.pages THEN w.tx ELSE d[p]) = d[p]
    BY <1>2 DEF Harmless
  <2>2. Overlay(d, w) = [p \in DbPages |-> d[p]]
    BY <2>1 DEF Overlay
  <2>3. Overlay(d, w) = d
    BY <2>2
  <2> QED
    BY <2>3 DEF Recoverable
<1> QED
  BY <1>1, <1>2

\* Replaying a complete WAL gives the new state, however much of it a crash
\* kept from reaching the .db.
LEMMA CompleteOverlay ==
  ASSUME NEW d, NEW w, Committed(w), w.tx = tx, w.pages = dirty,
         doubt = NewState, doubt # None,
         \A p \in DbPages : d[p] = acked[p] \/ p \in dirty
  PROVE  Recoverable(d, w)
<1>1. \A p \in DbPages : (IF p \in w.pages THEN w.tx ELSE d[p])
                       = (IF p \in dirty THEN tx ELSE acked[p])
  OBVIOUS
<1>2. Overlay(d, w) = NewState
  BY <1>1 DEF Overlay, NewState
<1> QED
  BY <1>2 DEF Recoverable

LEMMA InitInv == WalInit => WInv
<1> SUFFICES ASSUME WalInit PROVE BadRecorded /\ PInv
  BY InitType DEF WInv
<1> QED
  BY DEF WalInit, BadRecorded, PInv, AtRest, Logging, Failing, Applying, Removing, Down, Discarding,
         Durable, Harmless, Committed

\* An error while the log is written: the .db has not been touched.
LEMMA ErrorStep ==
  ASSUME OneFault, WInv, WalTypeOK', WalThere', NEW s \in Steps, IoError(s)
  PROVE  BadRecorded' /\ PInv'
<1> USE DEF WInv, PInv, BadRecorded, AtRest, Logging, Failing, Applying, Removing, Down, Discarding
<1>1. /\ pc' = "failed"
      /\ UNCHANGED <<tx, dirty, todo, walDisk, db, dbDisk, acked, doubt, env>>
  BY DEF IoError
<1>2. /\ env \in Environments /\ s \in env.errors
      /\ wal \in WalFiles \cup {NoFile}
  BY DEF IoError, WalTypeOK
<1>3. s \in {"log", "logsync"} /\ (s = "logsync" => ~env.unlink)
  BY <1>2 DEF OneFault
<1>4. pc \in {"log", "logsync"} /\ wal \in WalFiles /\ NewState' = NewState
  BY <1>1, <1>2, <1>3 DEF IoError, NewState
<1>5. /\ wal'.pages = wal.pages /\ wal'.bad = wal.bad /\ wal'.tx = wal.tx
      /\ wal'.commit = wal.commit
  BY <1>4 DEF IoError, WalFiles
<1>6. wal' # NoFile
  <2>1. wal' \in WalFiles
    BY <1>4, WalAssumption DEF IoError, WalFiles
  <2> QED
    BY <2>1, SentinelAssumption
<1>7. wal.commit => s = "logsync" /\ wal.pages = dirty
  BY <1>3, <1>4 DEF IoError
<1> QED
  BY <1>1, <1>3, <1>4, <1>5, <1>6, <1>7 DEF Durable, Harmless, Committed

\* begin to the last write of a commit: no crash, no error.
LEMMA CommitStep ==
  ASSUME WInv, WalTypeOK', WalThere',
         \/ BeginTx
         \/ \E D \in SUBSET DbPages : StartCommit(D)
         \/ \E p \in DbPages : LogPage(p)
         \/ LogCommit
         \/ SyncLog
         \/ \E p \in DbPages : ApplyPage(p)
         \/ SyncDb
         \/ FinishCommit
         \/ RollbackTx
  PROVE  BadRecorded' /\ PInv'
<1> USE DEF WInv, PInv, BadRecorded, AtRest, Logging, Failing, Applying, Removing, Down, Discarding,
            WalThere
<1>1. CASE BeginTx
  BY <1>1 DEF BeginTx, FreshWal, Durable, Harmless, Committed
<1>2. ASSUME NEW D \in SUBSET DbPages, StartCommit(D) PROVE BadRecorded' /\ PInv'
  <2>1. doubt' = NewState'
    BY <1>2 DEF StartCommit, NewState
  <2> QED
    BY <1>2, <2>1 DEF StartCommit, files, FreshWal, Durable, Harmless, Committed
<1>3. ASSUME NEW p \in DbPages, LogPage(p) PROVE BadRecorded' /\ PInv'
  <2>1. wal \in WalFiles
    BY <1>3 DEF LogPage, WalTypeOK
  <2>2. /\ wal'.pages = wal.pages \cup {p} /\ wal'.bad = wal.bad /\ wal'.tx = wal.tx
        /\ wal'.commit = wal.commit /\ wal'.tail = wal.tail
    BY <1>3, <2>1 DEF LogPage, WalFiles
  <2>3. wal'.pages = dirty \ todo'
    BY <1>3, <2>2 DEF LogPage
  <2>4. NewState' = NewState
    BY <1>3 DEF LogPage, NewState
  <2> QED
    BY <1>3, <2>2, <2>3, <2>4 DEF LogPage, Durable, Harmless, Committed
<1>4. CASE LogCommit
  <2>1. wal \in WalFiles
    BY <1>4 DEF LogCommit, WalTypeOK
  <2>2. /\ wal'.pages = wal.pages /\ wal'.bad = wal.bad /\ wal'.tx = wal.tx
        /\ wal'.commit = TRUE /\ wal'.tail = wal.tail
    BY <1>4, <2>1 DEF LogCommit, WalFiles
  <2>3. NewState' = NewState
    BY <1>4 DEF LogCommit, NewState
  <2> QED
    BY <1>4, <2>2, <2>3 DEF LogCommit, Durable, Harmless, Committed
<1>5. CASE SyncLog
  <2>1. NewState' = NewState
    BY <1>5 DEF SyncLog, NewState
  <2>2. Complete(wal)'
    BY <1>5 DEF SyncLog, Complete, Committed
  <2> QED
    BY <1>5, <2>1, <2>2 DEF SyncLog, Durable, Harmless, Committed
<1>6. ASSUME NEW p \in DbPages, ApplyPage(p) PROVE BadRecorded' /\ PInv'
  <2>1. NewState' = NewState
    BY <1>6 DEF ApplyPage, NewState
  <2>2. Complete(wal)'
    BY <1>6 DEF ApplyPage, Complete, Committed
  <2>3. \A q \in DbPages : db'[q] = IF q \in dirty \ todo' THEN tx ELSE acked[q]
    BY <1>6 DEF ApplyPage, WalTypeOK
  <2> QED
    BY <1>6, <2>1, <2>2, <2>3 DEF ApplyPage
<1>7. CASE SyncDb
  <2>1. NewState' = NewState
    BY <1>7 DEF SyncDb, NewState
  <2>2. Complete(wal)'
    BY <1>7 DEF SyncDb, Complete, Committed
  <2>3. db = [p \in DbPages |-> IF p \in dirty THEN tx ELSE acked[p]]
    BY <1>7 DEF SyncDb, WalTypeOK
  <2>4. db = doubt
    BY <1>7, <2>3 DEF SyncDb, NewState
  <2> QED
    BY <1>7, <2>1, <2>2, <2>4 DEF SyncDb
<1>8. CASE FinishCommit
  <2>1. Harmless(wal, doubt)
    <3>1. /\ doubt = [p \in DbPages |-> IF p \in dirty THEN tx ELSE acked[p]]
          /\ wal.pages = dirty /\ wal.tx = tx /\ dirty \subseteq DbPages
      BY <1>8 DEF FinishCommit, Complete, NewState, WalTypeOK
    <3>2. \A p \in dirty : doubt[p] = tx
      BY <3>1
    <3> QED
      BY <3>1, <3>2 DEF Harmless
  <2>2. wal' = NoFile \/ wal' = wal
    BY <1>8 DEF FinishCommit, Removed
  <2>4. Harmless(wal', acked')
    BY <1>8, <2>1, <2>2 DEF FinishCommit, Harmless, Committed
  <2>5. Harmless(walDisk', acked')
    BY <1>8, <2>1 DEF FinishCommit, Harmless, Committed
  <2> QED
    BY <1>8, <2>2, <2>4, <2>5 DEF FinishCommit, Durable
<1>9. CASE RollbackTx
  <2>1. wal' = NoFile \/ (wal' = wal /\ env.unlink)
    BY <1>9 DEF RollbackTx, Removed
  <2>2. pc = "tx" => ~Committed(wal)
    BY DEF FreshWal, Committed
  <2>3. Harmless(wal', acked)
    BY <1>9, <2>1, <2>2 DEF RollbackTx, Harmless, Committed
  <2>4. wal' # NoFile => wal'.bad \subseteq wal'.pages
    BY <2>1
  <2>5. /\ pc' = "idle" /\ db = acked /\ Durable
        /\ UNCHANGED <<walDisk, db, dbDisk, acked, env>> /\ doubt' = None
    BY <1>9 DEF RollbackTx
  <2> QED
    BY <2>3, <2>4, <2>5 DEF Durable, Harmless, Committed
<1> QED
  BY <1>1, <1>2, <1>3, <1>4, <1>5, <1>6, <1>7, <1>8, <1>9

\* kill -9 (only when power does not fail as well).
LEMMA KilledStep ==
  ASSUME OneFault, WInv, WalTypeOK', WalThere', Killed
  PROVE  BadRecorded' /\ PInv'
<1> USE DEF WInv, PInv, BadRecorded, AtRest, Logging, Failing, Applying, Removing, Down, Discarding
<1>1. /\ ~env.power /\ env' = env /\ pc' = "down" /\ db' = db /\ walDisk' = walDisk
      /\ acked' = acked /\ doubt' = doubt
  BY DEF Killed, OneFault, WalTypeOK
<1>2. /\ db \in [DbPages -> Nat \cup {Torn}] /\ acked # None
      /\ wal \in WalFiles \cup {NoFile}
  BY SentinelAssumption DEF WalTypeOK
<1>3. wal' = wal \/ (pc = "log" /\ \E t \in Tails : wal' = [wal EXCEPT !.tail = t])
  BY DEF Killed
<1>4. ASSUME pc = "log"
      PROVE  wal' # NoFile /\ ~Committed(wal') /\ wal'.bad \subseteq wal'.pages
  <2>1. wal \in WalFiles /\ ~wal.commit /\ wal.bad = {}
    BY <1>2, <1>4
  <2>2. wal'.commit = wal.commit /\ wal'.bad = wal.bad
    BY <1>3, <2>1 DEF WalFiles
  <2>3. wal' \in WalFiles
    BY <1>3, <2>1, WalAssumption DEF WalFiles
  <2>4. wal' # NoFile
    BY <2>3, SentinelAssumption
  <2> QED
    BY <2>1, <2>2, <2>4 DEF Committed
<1>5. BadRecorded'
  BY <1>1, <1>3, <1>4
<1>6. Recoverable(db, wal')
  <2>1. CASE pc \in {"idle", "tx"}
    BY <1>2, <1>3, <2>1, HarmlessOverlay
  <2>2. CASE pc = "log" \/ (pc = "failed" /\ ~Committed(wal))
    BY <1>2, <1>3, <1>4, <2>2 DEF Recoverable
  <2>3. CASE pc \in {"logsync", "apply", "remove"} \/ (pc = "failed" /\ Committed(wal))
    <3>1. Committed(wal) /\ wal.tx = tx /\ wal.pages = dirty
      BY <2>3 DEF Committed, Complete
    <3>2. doubt = NewState /\ doubt # None
      BY <2>3 DEF WalThere
    <3>3. \A p \in DbPages : db[p] = acked[p] \/ p \in dirty
      BY <2>3 DEF NewState
    <3> QED
      BY <1>3, <2>3, <3>1, <3>2, <3>3, CompleteOverlay
  <2>4. CASE pc \in {"refused", "down", "replay"}
    BY <1>3, <2>4
  <2>5. CASE pc = "discard"
    BY <1>2, <1>3, <2>5, HarmlessOverlay
  <2> QED
    BY <1>3, <2>1, <2>2, <2>3, <2>4, <2>5 DEF WalTypeOK, Points
<1>7. Recoverable(db, wal)'
  BY <1>1, <1>6 DEF Recoverable, Overlay, Committed
<1> QED
  BY <1>1, <1>5, <1>7

\* What a power loss leaves of the WAL: one of its two views, or a part of the
\* newer one that has the COMMIT marker only if it has every record.
LEMMA SurvivorShape ==
  ASSUME WalTypeOK, BadRecorded, NEW w \in WalSurvivors
  PROVE  /\ w # NoFile => w.bad \subseteq w.pages
         /\ \/ w = walDisk
            \/ w = wal
            \/ /\ wal # NoFile /\ wal # walDisk
               /\ Committed(w) => Committed(wal) /\ w.tx = wal.tx /\ w.pages = wal.pages
<1>1. CASE w \in {walDisk, wal}
  BY <1>1 DEF BadRecorded
<1>2. CASE w \notin {walDisk, wal}
  <2>1. /\ wal # NoFile /\ wal # walDisk
        /\ w \in [tx : {wal.tx}, pages : SUBSET wal.pages, bad : SUBSET Tearable,
                  commit : {wal.commit, FALSE}, tail : {"whole"} \cup Tails]
        /\ w.bad \subseteq w.pages
        /\ w.commit => w.pages = wal.pages
    BY <1>2 DEF WalSurvivors
  <2>2. w.tx = wal.tx /\ w.commit \in {wal.commit, FALSE}
    BY <2>1
  <2> QED
    BY <2>1, <2>2 DEF Committed
<1> QED
  BY <1>1, <1>2

\* A power loss (only when processes are not killed as well).
LEMMA PowerLostStep ==
  ASSUME WInv, WalTypeOK', WalThere', PowerLost
  PROVE  BadRecorded' /\ PInv'
<1> USE DEF WInv, PInv, BadRecorded, AtRest, Logging, Failing, Applying, Removing, Down, Discarding
<1>1. /\ env.power /\ env' = env /\ pc' = "down" /\ dbDisk' = db' /\ walDisk' = wal'
      /\ wal' \in WalSurvivors /\ acked' = acked /\ doubt' = doubt
  BY DEF PowerLost
<1>2. /\ db \in [DbPages -> Nat \cup {Torn}] /\ dbDisk \in [DbPages -> Nat \cup {Torn}]
      /\ db' \in [DbPages -> Nat \cup {Torn}]
      /\ acked # None
  BY SentinelAssumption DEF WalTypeOK
<1>3. \A p \in DbPages : db[p] = dbDisk[p] => db'[p] = db[p]
  BY DEF PowerLost, PageSurvivors
<1>4. db = dbDisk => db' = db
  <2> SUFFICES ASSUME db = dbDisk PROVE db' = db
    OBVIOUS
  <2> DEFINE e == db'
  <2>1. \A p \in DbPages : e[p] = db[p]
    BY <1>3
  <2>2. e \in [DbPages -> Nat \cup {Torn}]
    BY <1>2
  <2> HIDE DEF e
  <2>3. e = db
    BY <1>2, <2>1, <2>2
  <2> QED
    BY <2>3 DEF e
<1>5. wal = walDisk => wal' = wal
  BY <1>1 DEF WalSurvivors
<1>6. BadRecorded'
  BY <1>1, SurvivorShape
<1>7. Recoverable(db', wal')
  <2>1. CASE pc \in {"idle", "tx"}
    <3>1. db' = acked
      BY <1>1, <1>4, <2>1 DEF Durable
    <3>2. Harmless(wal', acked)
      BY <1>1, <2>1, SurvivorShape DEF Durable, Harmless
    <3> QED
      BY <1>2, <3>1, <3>2, HarmlessOverlay
  <2>2. CASE pc \in {"log", "logsync", "failed"}
    <3>1. db' = acked
      BY <1>1, <1>4, <2>2 DEF Durable
    <3>2. CASE wal' = walDisk
      <4>1. Harmless(wal', acked)
        BY <1>1, <2>2, <3>2 DEF Durable
      <4> QED
        BY <1>2, <3>1, <4>1, HarmlessOverlay
    <3>3. CASE ~Committed(wal')
      BY <1>2, <3>1, <3>3 DEF Recoverable
    <3>4. CASE wal' # walDisk /\ Committed(wal')
      <4>1. Committed(wal) /\ wal'.tx = wal.tx /\ wal'.pages = wal.pages
        BY <1>1, <3>4, SurvivorShape
      <4>2. wal'.tx = tx /\ wal'.pages = dirty
        BY <2>2, <4>1 DEF Committed
      <4>3. doubt = NewState /\ doubt # None
        BY <2>2 DEF WalThere
      <4> QED
        BY <3>1, <3>4, <4>2, <4>3, CompleteOverlay
    <3> QED
      BY <3>2, <3>3, <3>4
  <2>3. CASE pc \in {"apply", "remove"}
    <3>1. Committed(wal) /\ wal.tx = tx /\ wal.pages = dirty /\ wal' = wal
      BY <1>5, <2>3 DEF Committed, Complete
    <3>2. doubt = NewState /\ doubt # None
      BY <2>3 DEF WalThere
    <3>3. \A p \in DbPages : p \notin dirty => db[p] = acked[p] /\ dbDisk[p] = acked[p]
      BY <1>1, <2>3, <3>2 DEF NewState
    <3>4. \A p \in DbPages : db'[p] = acked[p] \/ p \in dirty
      BY <1>3, <3>3
    <3> QED
      BY <3>1, <3>2, <3>4, CompleteOverlay
  <2>4. CASE pc \in {"refused", "down", "replay"}
    <3>1. wal' = wal
      BY <1>1, <1>5, <2>4
    <3>2. CASE ~Committed(wal)
      <4>1. \A p \in DbPages : db[p] = dbDisk[p]
        BY <1>1, <2>4, <3>2
      <4>2. db = dbDisk
        BY <1>2, <4>1
      <4> QED
        BY <1>4, <2>4, <3>1, <3>2, <4>2 DEF Recoverable
    <3>3. CASE Committed(wal)
      <4>1. \A p \in DbPages : p \notin wal.pages => db'[p] = db[p]
        BY <1>1, <1>3, <2>4
      <4>2. Overlay(db', wal) = Overlay(db, wal)
        BY <4>1 DEF Overlay
      <4> QED
        BY <2>4, <3>1, <3>3, <4>2 DEF Recoverable
    <3> QED
      BY <3>2, <3>3
  <2>5. CASE pc = "discard"
    <3>1. db' = db /\ wal' = wal
      BY <1>1, <1>4, <1>5, <2>5
    <3> QED
      BY <1>2, <2>5, <3>1, HarmlessOverlay
  <2> QED
    BY <2>1, <2>2, <2>3, <2>4, <2>5 DEF WalTypeOK, Points
<1>8. Recoverable(db, wal)'
  BY <1>1, <1>7 DEF Recoverable, Overlay, Committed
<1> QED
  BY <1>1, <1>6, <1>8

\* A restart serves the state it finds, which is the acknowledged one or the
\* one in doubt; from then on it is the acknowledged state.
LEMMA ServeAcks ==
  ASSUME WalTypeOK, Serve, db \in {acked, doubt} \ {None}
  PROVE  pc' = "idle" /\ acked' = db /\ doubt' = None
  BY DEF Serve

\* Pager::open, and the retry of an open that was refused.
LEMMA RecoveryStep ==
  ASSUME WInv, WalTypeOK', WalThere', Recovery \/ Retry
  PROVE  BadRecorded' /\ PInv'
<1> USE DEF WInv, PInv, BadRecorded, AtRest, Logging, Failing, Applying, Removing, Down, Discarding
<1>1. /\ db \in [DbPages -> Nat \cup {Torn}] /\ dbDisk \in [DbPages -> Nat \cup {Torn}]
      /\ wal \in WalFiles \cup {NoFile}
  BY DEF WalTypeOK
<1>2. ASSUME UNCHANGED <<files, acked, doubt>>
      PROVE  (Recoverable(db, wal) => Recoverable(db, wal)') /\ Committed(wal)' = Committed(wal)
  BY <1>2 DEF files, Recoverable, Overlay, Committed
<1>3. CASE OpenRefused
  BY <1>2, <1>3 DEF OpenRefused, files
<1>4. CASE OpenClean
  <2>1. db \in {acked, doubt} \ {None}
    BY <1>4 DEF OpenClean, Recoverable, Committed
  <2>2. pc' = "idle" /\ acked' = db /\ doubt' = None
    BY <1>4, <2>1, ServeAcks DEF OpenClean
  <2>3. env.power => dbDisk = db /\ walDisk = NoFile
    <3> SUFFICES ASSUME env.power PROVE dbDisk = db /\ walDisk = NoFile
      OBVIOUS
    <3>1. walDisk = NoFile /\ \A p \in DbPages : db[p] = dbDisk[p]
      BY <1>4 DEF OpenClean, Committed
    <3> QED
      BY <1>1, <3>1
  <2> QED
    BY <1>4, <2>2, <2>3 DEF OpenClean, files, Durable, Harmless, Committed
<1>5. CASE OpenWithWal
  <2>1. CASE wal.commit
    BY <1>2, <1>5, <2>1 DEF OpenWithWal, files, Committed
  <2>2. CASE ~wal.commit
    <3>1. ~Committed(wal)
      BY <2>2 DEF Committed
    <3>2. db \in {acked, doubt} \ {None}
      BY <1>5, <3>1 DEF OpenWithWal, Recoverable
    <3>3. env.power => dbDisk = db /\ walDisk = wal
      <4> SUFFICES ASSUME env.power PROVE dbDisk = db /\ walDisk = wal
        OBVIOUS
      <4>1. walDisk = wal /\ \A p \in DbPages : db[p] = dbDisk[p]
        BY <1>5, <3>1 DEF OpenWithWal
      <4> QED
        BY <1>1, <4>1
    <3> QED
      BY <1>5, <2>2, <3>1, <3>2, <3>3 DEF OpenWithWal, files, Harmless, Committed
  <2> QED
    BY <2>1, <2>2
<1>6. ASSUME NEW p \in DbPages, ReplayPage(p) PROVE BadRecorded' /\ PInv'
  <2>1. /\ p \in todo /\ todo' = todo \ {p} /\ Committed(wal) /\ todo \subseteq wal.pages
        /\ UNCHANGED <<pc, wal, walDisk, dbDisk, acked, doubt, env>> /\ pc = "replay"
        /\ wal.bad \subseteq todo'
    BY <1>6 DEF ReplayPage
  <2>2. \A q \in DbPages : db'[q] = IF q = p THEN wal.tx ELSE db[q]
    BY <1>1, <1>6 DEF ReplayPage
  <2>3. Overlay(db', wal) = Overlay(db, wal)
    BY <2>1, <2>2 DEF Overlay
  <2>4. Recoverable(db', wal)
    BY <2>1, <2>3 DEF Recoverable
  <2>5. Recoverable(db, wal)' /\ Committed(wal)'
    BY <2>1, <2>4 DEF Recoverable, Overlay, Committed
  <2>6. wal.pages \subseteq DbPages
    BY <1>1, <2>1 DEF WalFiles, Committed
  <2>7. \A q \in wal.pages \ todo' : db'[q] = wal.tx
    BY <2>1, <2>2, <2>6
  <2>8. env.power => \A q \in DbPages : db'[q] # dbDisk[q] => q \in wal.pages
    BY <2>1, <2>2
  <2> QED
    BY <2>1, <2>5, <2>7, <2>8
<1>7. ASSUME NEW p \in DbPages, ReplayRefused(p) PROVE BadRecorded' /\ PInv'
  BY <1>2, <1>7 DEF ReplayRefused, files
<1>8. CASE SyncReplay
  <2>1. /\ todo = {} /\ wal.bad = {} /\ Committed(wal)
        /\ \A p \in wal.pages : db[p] = wal.tx
    BY <1>8 DEF SyncReplay
  <2>2. \A p \in DbPages : (IF p \in wal.pages THEN wal.tx ELSE db[p]) = db[p]
    BY <2>1
  <2>3. Overlay(db, wal) = [p \in DbPages |-> db[p]]
    BY <2>2 DEF Overlay
  <2>4. Overlay(db, wal) = db
    BY <1>1, <2>3
  <2>5. db \in {acked, doubt} \ {None}
    BY <1>8, <2>1, <2>4 DEF SyncReplay, Recoverable
  <2> QED
    BY <1>8, <2>1, <2>5 DEF SyncReplay, Harmless, Committed
<1>9. CASE DiscardWal
  <2>1. pc' = "idle" /\ acked' = db /\ doubt' = None
    BY <1>9, ServeAcks DEF DiscardWal
  <2>2. wal' = NoFile \/ wal' = wal
    BY <1>9 DEF DiscardWal, Removed
  <2>3. Harmless(wal', db)
    BY <1>9, <2>2 DEF DiscardWal, Harmless, Committed
  <2> QED
    BY <1>9, <2>1, <2>2, <2>3 DEF DiscardWal, Durable, Harmless, Committed
<1>10. CASE Retry
  BY <1>2, <1>10 DEF Retry, files
<1> QED
  BY <1>3, <1>4, <1>5, <1>6, <1>7, <1>8, <1>9, <1>10 DEF Recovery

LEMMA StutterStep ==
  ASSUME WInv, UNCHANGED walVars
  PROVE  BadRecorded' /\ PInv'
  BY DEF WInv, walVars, PInv, BadRecorded, AtRest, Logging, Failing, Applying, Removing, Down, Discarding,
         Durable, Harmless, NewState, Complete, FreshWal, Recoverable, Overlay, Committed

LEMMA StepInv == ASSUME OneFault PROVE WInv /\ [WalNext]_walVars => WInv'
<1> SUFFICES ASSUME WInv, [WalNext]_walVars PROVE WInv'
  OBVIOUS
<1>1. WalTypeOK' /\ WalThere'
  BY StepType DEF WInv
<1>2. ASSUME NEW s \in Steps, IoError(s) PROVE BadRecorded' /\ PInv'
  BY <1>1, <1>2, ErrorStep
<1>3. BadRecorded' /\ PInv'
  BY <1>1, <1>2, CommitStep, KilledStep, PowerLostStep, RecoveryStep, StutterStep DEF WalNext
<1> QED
  BY <1>1, <1>3 DEF WInv

LEMMA Inductive == ASSUME OneFault PROVE WalSpec => []WInv
<1>1. WalInit => WInv
  BY InitInv
<1>2. WInv /\ [WalNext]_walVars => WInv'
  BY StepInv
<1> QED
  BY <1>1, <1>2, PTL DEF WalSpec

-----------------------------------------------------------------------------
(* What follows from the invariant.                                        *)

\* Atomicity and durability of a commit (storage.rs, commit, open and
\* replay_to): whatever crashes of one kind interrupt it, and however often,
\* the database that is served again holds what was acknowledged.
THEOREM AckedIsServed == ASSUME OneFault PROVE WalSpec => []ServesAcked
<1>1. WInv => ServesAcked
  BY DEF WInv, PInv, AtRest, ServesAcked
<1> QED
  BY <1>1, Inductive, PTL

\* Under power loss alone, an acknowledged commit is on stable storage before
\* the answer is given and stays there while the next one is logged.
THEOREM AckedIsDurable == ASSUME OneFault PROVE WalSpec => []AckIsDurable
<1>1. WInv => AckIsDurable
  BY DEF WInv, PInv, AtRest, Logging, Durable, AckIsDurable
<1> QED
  BY <1>1, Inductive, PTL

\* Write-ahead: the .db is overwritten only when stable storage has a WAL that
\* can redo the whole transaction.
THEOREM WriteAhead == ASSUME OneFault PROVE WalSpec => []RedoReady
<1>1. WInv => RedoReady
  BY DEF WInv, PInv, Applying, Complete, RedoReady
<1> QED
  BY <1>1, Inductive, PTL

\* The code drops the error of remove_file; a WAL that survives its removal
\* repeats, when it is replayed, what the .db already holds.
THEOREM LeftoverWalHarmless == ASSUME OneFault PROVE WalSpec => []StaleWalHarmless
<1>1. WInv => StaleWalHarmless
  <2> SUFFICES ASSUME WInv PROVE StaleWalHarmless
    OBVIOUS
  <2>1. env.power /\ pc \in {"idle", "tx", "log", "logsync"} => Harmless(walDisk, dbDisk)
    BY DEF WInv, PInv, AtRest, Logging, Durable
  <2>2. pc = "idle" => Harmless(wal, db)
    BY DEF WInv, PInv, AtRest
  <2> QED
    BY <2>1, <2>2 DEF StaleWalHarmless, Harmless
<1> QED
  BY <1>1, Inductive, PTL
=============================================================================
