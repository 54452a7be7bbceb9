------------------------------ MODULE BPlusTree ------------------------------
(***************************************************************************)
(* One B+Tree in the pages of a Pager.  A put descends from the root to a  *)
(* leaf, changes it, and when nodes split comes back up the same path: the *)
(* descent and the leaf are one action, each parent on the way up another, *)
(* and path holds the frames of put_recursive that wait.  The pages are    *)
(* read and written through one exclusive borrow of the Pager, so calls do *)
(* not overlap.                                                            *)
(*                                                                         *)
(* A page's contents are its decoded node.  Sizes are in units of which a  *)
(* leaf holds LeafRoom; an entry's size is that of its key, its length and *)
(* its value.  An entry of an internal node has a fixed size, so what      *)
(* counts is how many of them fit.                                         *)
(***************************************************************************)
EXTENDS Integers, Sequences, FiniteSets, SequencesExt

CONSTANTS
  Keys,         \* i64 keys
  Values,       \* encoded rows or buckets
  Size,         \* what an entry with each value takes of a leaf
  LeafRoom,     \* what a leaf holds
  MaxEntries,   \* entries an internal node holds
  MaxPages,     \* bound: pages allocated
  MaxWasted,    \* bound: pages that puts which failed had allocated
  Absent        \* the value of a key that is not there

Root == 1
Pages == 1..MaxPages
Entries == [key : Keys, val : Values]
Zeroed == [type |-> "zero"]

ASSUME TreeAssumption ==
  /\ Keys \subseteq Int /\ Keys # {}
  /\ Size \in [Values -> Nat]
  /\ LeafRoom \in Nat /\ MaxEntries \in Nat \ {0} /\ MaxPages \in Nat \ {0}
  /\ MaxWasted \in Nat
  /\ Absent \notin Values

Puts == [kind : {"insert", "upsert"}, key : Keys, val : Values]
Deletes == [kind : {"delete"}, key : Keys]

VARIABLES
  page,     \* the node in each page
  count,    \* pages allocated so far
  path,     \* the parents of the node just split, from the root down
  carry,    \* the separator to give to the last of them, if there is one
  map,      \* history: the map as the answers so far tell it
  wasted    \* history: the pages that puts which failed had allocated

treeVars == <<page, count, path, carry, map, wasted>>

Leaf(next, kvs) == [type |-> "leaf", next |-> next, kvs |-> kvs]
Internal(first, entries) == [type |-> "internal", first |-> first, entries |-> entries]
Sep(key, child) == [key |-> key, child |-> child]

\* CREATE TABLE or CREATE INDEX has initialised the root as an empty leaf.
TreeInit ==
  /\ page = [p \in Pages |-> IF p = Root THEN Leaf(0, <<>>) ELSE Zeroed]
  /\ count = 1
  /\ path = <<>> /\ carry = <<>>
  /\ map = [k \in Keys |-> Absent]
  /\ wasted = {}

-----------------------------------------------------------------------------
(* Nodes.                                                                  *)

\* What the entries take of their leaf.
Payload(kvs) ==
  LET upTo[i \in 0..Len(kvs)] == IF i = 0 THEN 0 ELSE upTo[i - 1] + Size[kvs[i].val]
  IN  upTo[Len(kvs)]

\* Mutant of LeafFits: the payload is compared with the whole page.
LeafFitsLoose(kvs) == Payload(kvs) <= LeafRoom + 1

LeafFits(kvs) == Payload(kvs) <= LeafRoom

\* binary_search: how many of the keys are smaller, and whether the next is k.
Below(s, k) == Cardinality({i \in 1..Len(s) : s[i].key < k})
Has(s, k) == \E i \in 1..Len(s) : s[i].key = k

\* Mutant of PickChild: a key equal to a separator goes to the left of it.
PickChildLeft(n, k) ==
  LET reached == {i \in 1..Len(n.entries) : \A j \in 1..i : n.entries[j].key < k}
  IN  IF reached = {} THEN n.first ELSE n.entries[Cardinality(reached)].child

\* pick_child: the child behind the last separator that is not above k.
PickChild(n, k) ==
  LET reached == {i \in 1..Len(n.entries) : \A j \in 1..i : n.entries[j].key <= k}
  IN  IF reached = {} THEN n.first ELSE n.entries[Cardinality(reached)].child

\* The pages from the root to the leaf for k, by put_recursive or find_leaf; d
\* bounds the descent.
PathTo(k) ==
  LET down[d \in 0..MaxPages] ==
        [p \in Pages |-> IF d = 0 \/ page[p].type # "internal" THEN <<p>>
                         ELSE <<p>> \o down[d - 1][PickChild(page[p], k)]]
  IN  down[MaxPages][Root]
FindLeaf(k) == Last(PathTo(k))

LeftmostLeaf ==
  LET down[d \in 0..MaxPages] ==
        [p \in Pages |-> IF d = 0 \/ page[p].type # "internal" THEN p
                         ELSE down[d - 1][page[p].first]]
  IN  down[MaxPages][Root]

\* The leaves from p on, by their next pointers.
ChainFrom(p) ==
  LET walk[d \in 0..MaxPages] ==
        [q \in 0..MaxPages |-> IF d = 0 \/ q = 0 THEN <<>>
                               ELSE <<q>> \o walk[d - 1][page[q].next]]
  IN  walk[MaxPages][p]

-----------------------------------------------------------------------------
(* A call, down to its leaf.                                               *)

Idle == carry = <<>>

\* The put is done, and its caller told so.
DonePut(c) == map' = [map EXCEPT ![c.key] = c.val]

\* The entries of the leaf l with that of the put c in its place.
WithEntry(l, c) ==
  LET i == Below(page[l].kvs, c.key)
      kv == [key |-> c.key, val |-> c.val]
  IN  IF Has(page[l].kvs, c.key) THEN [page[l].kvs EXCEPT ![i + 1] = kv]
      ELSE InsertAt(page[l].kvs, i + 1, kv)

Rejected(l, c) == c.kind = "insert" /\ Has(page[l].kvs, c.key)

LeafDuplicate(l, c) ==
  /\ Rejected(l, c)
  /\ UNCHANGED treeVars

LeafWrite(l, c) ==
  /\ ~Rejected(l, c)
  /\ LeafFits(WithEntry(l, c))
  /\ page' = [page EXCEPT ![l].kvs = WithEntry(l, c)]
  /\ DonePut(c)
  /\ UNCHANGED <<count, path, carry, wasted>>

LeafTooSmall(l, c) ==
  /\ ~Rejected(l, c)
  /\ ~LeafFits(WithEntry(l, c)) /\ Len(WithEntry(l, c)) = 1
  /\ UNCHANGED treeVars

\* The halves of a node, by the number of its entries.
LeftHalf(s) == SubSeq(s, 1, Len(s) \div 2)
RightHalf(s) == SubSeq(s, Len(s) \div 2 + 1, Len(s))

\* The bound: pages are left for a split of every node on the path.
MustSplit(l, c) ==
  /\ ~Rejected(l, c) /\ ~LeafFits(WithEntry(l, c)) /\ Len(WithEntry(l, c)) > 1
  /\ count + Len(PathTo(c.key)) + 1 <= MaxPages
HalvesFit(s) == LeafFits(LeftHalf(s)) /\ LeafFits(RightHalf(s))

\* Mutant of LeafSplit: the right half is left out of the chain.
LeafSplitUnlinked(l, c) ==
  LET kvs == WithEntry(l, c) IN
  /\ MustSplit(l, c) /\ HalvesFit(kvs)
  /\ count' = count + 1
  /\ page' = [page EXCEPT ![count + 1] = Leaf(page[l].next, RightHalf(kvs)),
                          ![l] = Leaf(page[l].next, LeftHalf(kvs))]
  /\ carry' = <<Sep(RightHalf(kvs)[1].key, count + 1)>>
  /\ path' = Front(PathTo(c.key))
  /\ DonePut(c)
  /\ UNCHANGED wasted

\* The right half goes to a new page, which comes next in the chain.
LeafSplit(l, c) ==
  LET kvs == WithEntry(l, c) IN
  /\ MustSplit(l, c) /\ HalvesFit(kvs)
  /\ count' = count + 1
  /\ page' = [page EXCEPT ![count + 1] = Leaf(page[l].next, RightHalf(kvs)),
                          ![l] = Leaf(count + 1, LeftHalf(kvs))]
  /\ carry' = <<Sep(RightHalf(kvs)[1].key, count + 1)>>
  /\ path' = Front(PathTo(c.key))
  /\ DonePut(c)
  /\ UNCHANGED wasted

\* Mutant of LeafSplitFails: the left half is written before the right one.
LeafSplitFailsLate(l, c) ==
  LET kvs == WithEntry(l, c) IN
  /\ MustSplit(l, c) /\ ~HalvesFit(kvs)
  /\ Cardinality(wasted) < MaxWasted
  /\ count' = count + 1
  /\ page' = IF LeafFits(LeftHalf(kvs))
             THEN [page EXCEPT ![l] = Leaf(page[l].next, LeftHalf(kvs))]
             ELSE page
  /\ wasted' = wasted \cup {count + 1}
  /\ UNCHANGED <<path, carry, map>>

\* encode_leaf refuses one of the halves: a page has been allocated, and the
\* right half perhaps written to it, but nothing refers to that page yet.
LeafSplitFails(l, c) ==
  LET kvs == WithEntry(l, c) IN
  /\ MustSplit(l, c) /\ ~HalvesFit(kvs)
  /\ Cardinality(wasted) < MaxWasted
  /\ count' = count + 1
  /\ page' = IF LeafFits(RightHalf(kvs))
             THEN [page EXCEPT ![count + 1] = Leaf(page[l].next, RightHalf(kvs))]
             ELSE page
  /\ wasted' = wasted \cup {count + 1}
  /\ UNCHANGED <<path, carry, map>>

\* delete: the entry goes and nothing else changes, even if the leaf is empty.
LeafDelete(l, c) ==
  /\ IF Has(page[l].kvs, c.key)
     THEN /\ page' = [page EXCEPT ![l].kvs = RemoveAt(@, Below(@, c.key) + 1)]
          /\ map' = [map EXCEPT ![c.key] = Absent]
     ELSE UNCHANGED <<page, map>>
  /\ UNCHANGED <<count, path, carry, wasted>>

\* The leaf's branch of put_recursive.
LeafPut(l, c) ==
  \/ LeafDuplicate(l, c) \/ LeafWrite(l, c) \/ LeafTooSmall(l, c)
  \/ LeafSplit(l, c) \/ LeafSplitFails(l, c)

-----------------------------------------------------------------------------
(* The way back up, after a split.                                         *)

Promoting == carry # <<>> /\ path # <<>>
Parent == page[Last(path)]

\* The parent's entries with the promoted separator in its place.  It is an
\* error, for which there is no action, if the separator is there already.
WithSep == InsertAt(Parent.entries, Below(Parent.entries, carry[1].key) + 1, carry[1])

InternalWrite ==
  /\ Promoting /\ ~Has(Parent.entries, carry[1].key)
  /\ Len(WithSep) <= MaxEntries
  /\ page' = [page EXCEPT ![Last(path)].entries = WithSep]
  /\ path' = <<>> /\ carry' = <<>>
  /\ UNCHANGED <<count, map, wasted>>

\* Mutant of InternalSplit: the child of the promoted separator is lost.
InternalSplitLosesChild ==
  LET right == RightHalf(WithSep) IN
  /\ Promoting /\ ~Has(Parent.entries, carry[1].key)
  /\ Len(WithSep) > MaxEntries
  /\ count' = count + 1
  /\ page' = [page EXCEPT ![count + 1] = Internal(right[2].child, Tail(right)),
                          ![Last(path)].entries = LeftHalf(WithSep)]
  /\ carry' = <<Sep(right[1].key, count + 1)>>
  /\ path' = Front(path)
  /\ UNCHANGED <<map, wasted>>

\* The first separator of the right half moves up, and its child becomes the
\* first child of the new page.
InternalSplit ==
  LET right == RightHalf(WithSep) IN
  /\ Promoting /\ ~Has(Parent.entries, carry[1].key)
  /\ Len(WithSep) > MaxEntries
  /\ count' = count + 1
  /\ page' = [page EXCEPT ![count + 1] = Internal(right[1].child, Tail(right)),
                          ![Last(path)].entries = LeftHalf(WithSep)]
  /\ carry' = <<Sep(right[1].key, count + 1)>>
  /\ path' = Front(path)
  /\ UNCHANGED <<map, wasted>>

\* The root keeps its page: what it held is copied to a new one.
SplitRoot ==
  /\ carry # <<>> /\ path = <<>>
  /\ count' = count + 1
  /\ page' = [page EXCEPT ![count + 1] = page[Root],
                          ![Root] = Internal(count + 1, carry)]
  /\ carry' = <<>>
  /\ UNCHANGED <<path, map, wasted>>

Put(c) == Idle /\ LeafPut(FindLeaf(c.key), c)
Delete(c) == Idle /\ LeafDelete(FindLeaf(c.key), c)
Climb == InternalWrite \/ InternalSplit \/ SplitRoot

TreeNext == (\E c \in Puts : Put(c)) \/ (\E c \in Deletes : Delete(c)) \/ Climb

TreeSpec == TreeInit /\ [][TreeNext]_treeVars

-----------------------------------------------------------------------------
(* Reads.                                                                  *)

Get(k) ==
  LET kvs == page[FindLeaf(k)].kvs IN
  IF Has(kvs, k) THEN kvs[Below(kvs, k) + 1].val ELSE Absent

EntriesOf(leaves) == FlattenSeq([i \in 1..Len(leaves) |-> page[leaves[i]].kvs])
UpTo(s, k) == SubSeq(s, 1, Cardinality({i \in 1..Len(s) : \A j \in 1..i : s[j].key <= k}))

\* scan without a window.
Scan == EntriesOf(ChainFrom(LeftmostLeaf))

\* The entries from the key from on.
NotBelow(s, from) ==
  LET taken[i \in 0..Len(s)] == IF i = 0 THEN <<>>
                                ELSE IF s[i].key < from THEN taken[i - 1]
                                ELSE Append(taken[i - 1], s[i])
  IN  taken[Len(s)]

\* Bounds that are not in order are swapped.
Lower(a, b) == IF a > b THEN b ELSE a
Upper(a, b) == IF a > b THEN a ELSE b

\* range: entries below the lower bound are skipped in every leaf.
RangeOf(a, b) ==
  LET from == Lower(a, b)
  IN  UpTo(NotBelow(EntriesOf(ChainFrom(FindLeaf(from))), from), Upper(a, b))

\* Mutant of CursorRange: the first leaf is read from its beginning.
CursorRangeUnskipped(a, b) ==
  UpTo(EntriesOf(ChainFrom(FindLeaf(Lower(a, b)))), Upper(a, b))

\* cursor_range: entries below the lower bound are skipped in the first leaf only.
CursorRange(a, b) ==
  LET from == Lower(a, b)
      first == FindLeaf(from)
      kvs == page[first].kvs
  IN  UpTo(SubSeq(kvs, Below(kvs, from) + 1, Len(kvs))
             \o EntriesOf(ChainFrom(page[first].next)), Upper(a, b))

-----------------------------------------------------------------------------
(* Properties.                                                             *)

\* Nodes are of one of the three kinds, and every node fits its page.
TreeTypeOK ==
  /\ count \in Pages
  /\ \A p \in Pages :
       \/ page[p] = Zeroed
       \/ /\ page[p].type = "leaf"
          /\ page[p].next \in 0..count
          /\ page[p].kvs \in Seq(Entries) /\ Payload(page[p].kvs) <= LeafRoom
       \/ /\ page[p].type = "internal"
          /\ page[p].first \in 1..count
          /\ page[p].entries \in Seq([key : Keys, child : 1..count])
          /\ Len(page[p].entries) <= MaxEntries
  /\ path \in Seq(1..count)
  /\ carry \in Seq([key : Keys, child : 1..count]) /\ Len(carry) <= 1
  /\ wasted \subseteq 1..count

\* The leaves under the root, in the order of their separators, each with how
\* far above the bound of the descent it lies.
InOrder ==
  LET under[d \in 0..MaxPages] ==
        [p \in Pages |->
          IF d = 0 \/ page[p].type # "internal" THEN << <<p, d>> >>
          ELSE under[d - 1][page[p].first]
               \o FlattenSeq([i \in 1..Len(page[p].entries) |->
                                under[d - 1][page[p].entries[i].child]])]
  IN  under[MaxPages][Root]

\* Two structures must agree whenever a call has returned, over splits at every
\* level, deletes that empty leaves and puts that fail: the tree under the root
\* and the chain of leaves.  All leaves are at one depth, and the chain visits
\* exactly them in order.
ChainIsTree ==
  Idle =>
    LET leaves == InOrder
    IN  /\ \A i \in 1..Len(leaves) : /\ page[leaves[i][1]].type = "leaf"
                                     /\ leaves[i][2] = leaves[1][2]
        /\ ChainFrom(LeftmostLeaf) = [i \in 1..Len(leaves) |-> leaves[i][1]]

Ascending(s) == \A i, j \in 1..Len(s) : i < j => s[i].key < s[j].key

\* The entries are those of the map for these keys, each once and in order.
Lists(s, keys) ==
  /\ Ascending(s)
  /\ {s[i] : i \in 1..Len(s)} = {[key |-> k, val |-> map[k]] : k \in {x \in keys : map[x] # Absent}}

\* The chain of leaves holds just what the callers were told, in the order of the
\* keys, from the moment a leaf is written, whatever is left to do on the way
\* back up.
ChainHoldsMap == Lists(Scan, Keys)

\* Descending by the separators finds every key there is, with its value, and no
\* other.
GetFinds == Idle => \A k \in Keys : Get(k) = map[k]

\* range and the lazy cursor return what the map holds between the bounds, in
\* order, wherever the bounds fall among separators, gaps and empty leaves.
RangesAreExact ==
  Idle => \A a, b \in Keys :
            LET within == {k \in Keys : Lower(a, b) <= k /\ k <= Upper(a, b)}
            IN  Lists(RangeOf(a, b), within) /\ Lists(CursorRange(a, b), within)

\* Every page allocated is in the tree, at one place, or was wasted by a put
\* that failed: no split drops a subtree or gives it two parents.
NoPageLost ==
  Idle => LET inner == {p \in 1..count \ wasted : page[p].type = "internal"}
              children == UNION {{page[p].first} \cup
                                 {page[p].entries[i].child : i \in 1..Len(page[p].entries)} :
                                 p \in inner}
          IN  /\ children = 2..count \ wasted
              /\ Cardinality(children) = Cardinality({e \in inner \X (0..MaxEntries) :
                                                       e[2] <= Len(page[e[1]].entries)})

\* A parent does not have the separator that a split below it promotes, however
\* often its child has been emptied and split: no put ends in the error of
\* bptree.rs:289, with its leaf split and the right half out of reach.
SplitsGoIn == Promoting => ~Has(Parent.entries, carry[1].key)

\* The pages are one tree that fits its pages, and its leaves are the map: views
\* of one structure that every split has to keep together.
WellFormed == TreeTypeOK /\ ChainIsTree /\ NoPageLost /\ ChainHoldsMap /\ SplitsGoIn

\* Every way of reading gives what the map holds: by key, by range and by cursor.
ReadsAreExact == GetFinds /\ RangesAreExact
=============================================================================
