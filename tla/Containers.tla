----------------------------- MODULE Containers -----------------------------
(***************************************************************************)
(* The containers everything else is built on: the radix trees and the     *)
(* lists of c7 and c8 (stm/list.c, stm/list.h), and the "global to local"  *)
(* dictionaries, the pointer lists and the read-barrier cache of c4        *)
(* (lists.c, lists.h).  A behaviour is the life of one container; `kind'   *)
(* says which, `box' is its memory and `spec' what its users believe is in *)
(* it.                                                                     *)
(*                                                                         *)
(* A tree is a radix tree over the digits of the key, that grows downwards *)
(* only where two keys collide.  An inner node or an item is named by the  *)
(* path of digits that leads to it: `inner' is the set of paths of nodes   *)
(* and `at' maps the paths of items to them.  An item whose addr is 0 has  *)
(* been deleted.  Nodes and items are cut from one block of memory, and    *)
(* when it is used up all live items move to a larger one.                 *)
(***************************************************************************)
EXTENDS Integers, Sequences, FiniteSets, SequencesExt, Bitwise

CONSTANTS
    Kinds,        \* the containers to look at
    Addrs,        \* the keys of trees, the objects in caches
    Items,        \* what is put into lists, and values in trees
    TREE_BITS,    \* bits of a key that one level of a tree looks at
    TREE_DEPTH_MAX, \* levels that tell all keys apart
    MAX_ALLOC,    \* bound of the model: no operation on a larger tree
    LIST_INITIAL, \* items in a new list of c7 (32 in the code)
    LIST_EXTRA,   \* items added at each growth (33 in c7, 64 in c4)
    MAX_ITEMS,    \* bound of the model: no longer lists
    FX_ENTRIES    \* entries a read barrier can reach

VARIABLES kind, box, spec
vars == <<kind, box, spec>>

Trees == {"c4 g2l", "c7 tree", "c8 tree"}

-----------------------------------------------------------------------------
(* Trees.                                                                  *)

TREE_ARITY == 2 ^ TREE_BITS
NodeSize == 8 * TREE_ARITY
ItemSize == 16

\* c4 uses addresses as they are, c7 and c8 mix them a bit.
TREE_HASH(addr) == (addr ^^ (addr * TREE_ARITY)) % TREE_ARITY ^ TREE_DEPTH_MAX
Key(addr) == IF kind = "c4 g2l" THEN addr ELSE TREE_HASH(addr)

\* The digits of a key, in the order in which the levels look at them.
Path(addr) ==
    [i \in 1..TREE_DEPTH_MAX |-> (Key(addr) \div TREE_ARITY ^ (i - 1)) % TREE_ARITY]

tree_create == [inner |-> {<<>>}, at |-> <<>>, current |-> 0, end |-> 0, count |-> 0]

tree_clear(tree) ==
    IF tree.current = 0 THEN tree ELSE [tree_create EXCEPT !.end = tree.end]

\* Where the walk down from the top level with this key ends: the first slot
\* that does not lead to a further level.
Slot(tree, addr) ==
    LET path == Path(addr)
        n    == CHOOSE n \in 1..TREE_DEPTH_MAX :
                    /\ SubSeq(path, 1, n) \notin tree.inner
                    /\ SubSeq(path, 1, n - 1) \in tree.inner
    IN SubSeq(path, 1, n)

tree_contains(tree, addr) ==
    LET slot == Slot(tree, addr)
    IN slot \in DOMAIN tree.at /\ tree.at[slot].addr = addr

tree_find(tree, addr) == tree.at[Slot(tree, addr)]

\* The live items under a path, in the order of the loops over a tree.
RECURSIVE Visit(_, _)
Visit(tree, path) ==
    IF path \in tree.inner
    THEN FlattenSeq([d \in 1..TREE_ARITY |-> Visit(tree, Append(path, d - 1))])
    ELSE IF path \in DOMAIN tree.at /\ tree.at[path].addr # 0
         THEN <<tree.at[path]>> ELSE <<>>

TREE_LOOP_FORWARD(tree) == Visit(tree, <<>>)

tree_item(tree, index) == TREE_LOOP_FORWARD(tree)[index + 1]

HasRoom(tree, size) == tree.current + size <= tree.end

Placed(tree, path, item) ==
    [p \in DOMAIN tree.at \cup {path} |-> IF p = path THEN item ELSE tree.at[p]]

\* A faulty Collision: the new level starts without what was in the slot.
LevelEmpty(tree, slot) ==
    [tree EXCEPT !.inner = @ \cup {slot}, !.current = @ + NodeSize,
                 !.at = [p \in DOMAIN @ \ {slot} |-> @[p]]]

\* Two keys meet in a slot: what is there goes one level down.
Collision(tree, slot) ==
    LET digit == Path(tree.at[slot].addr)[Len(slot) + 1]
        below == Append(slot, digit)
    IN [tree EXCEPT !.inner = @ \cup {slot}, !.current = @ + NodeSize,
            !.at = [p \in (DOMAIN @ \ {slot}) \cup {below} |->
                        IF p = below THEN @[slot] ELSE @[p]]]

RECURSIVE tree_insert(_, _, _), tree_grow(_, _)
tree_insert(tree, addr, val) ==
    LET slot == Slot(tree, addr)
        item == [addr |-> addr, val |-> val]
    IN IF slot \notin DOMAIN tree.at
       THEN IF HasRoom(tree, ItemSize)
            THEN [tree EXCEPT !.at = Placed(tree, slot, item),
                              !.current = @ + ItemSize, !.count = @ + 1]
            ELSE tree_insert(tree_grow(tree, ItemSize), addr, val)
       ELSE IF tree.at[slot].addr = 0
            THEN [tree EXCEPT !.at[slot] = item, !.count = @ + 1]
            ELSE IF HasRoom(tree, NodeSize)
                 THEN tree_insert(Collision(tree, slot), addr, val)
                 ELSE tree_insert(tree_grow(tree, NodeSize), addr, val)

tree_grow(tree, extra) ==
    LET alloc    == tree.end
        newalloc == ((alloc + extra + alloc \div 4 + 31) \div 16) * 16
    IN FoldLeft(LAMBDA new, item : tree_insert(new, item.addr, item.val),
                [tree_create EXCEPT !.end = newalloc], TREE_LOOP_FORWARD(tree))

tree_compress(tree) ==
    FoldLeft(LAMBDA new, item : tree_insert(new, item.addr, item.val),
             tree_create, TREE_LOOP_FORWARD(tree))

tree_delete_item(tree, addr) ==
    IF tree_contains(tree, addr)
    THEN [tree EXCEPT !.at[Slot(tree, addr)].addr = 0, !.count = @ - 1]
    ELSE tree

\* A loop over the tree that deletes some of its items on the way
\* (TREE_LOOP_DELETE) and ends with TREE_LOOP_END_AND_COMPRESS.
DeletedItems(tree) == {p \in DOMAIN tree.at : tree.at[p].addr = 0}
LoopDeleting(tree, deletes) ==
    LET visited == {item.addr : item \in ToSet(TREE_LOOP_FORWARD(tree))}
        after   == [tree EXCEPT
                        !.at = [p \in DOMAIN @ |->
                            IF @[p].addr \in deletes THEN [@[p] EXCEPT !.addr = 0] ELSE @[p]],
                        !.count = @ - Cardinality(deletes \cap visited)]
        factor  == 3 * Cardinality(DeletedItems(tree)) - 4 * Cardinality(visited)
                       + 6 * Cardinality(deletes \cap visited)
    IN IF factor > 9 THEN tree_compress(after) ELSE after

-----------------------------------------------------------------------------
(* The lists of c7 and c8: `items' is the memory, so that an index outside *)
(* of it is somebody else's.                                               *)

NewList(alloc) == [count |-> 0, alloc |-> alloc, items |-> [i \in 0..(alloc - 1) |-> 0]]
list_create == NewList(LIST_INITIAL)

\* realloc() and the copy in _gcptrlist_grow() keep what was there.
Realloc(list, alloc) ==
    [list EXCEPT !.alloc = alloc,
        !.items = [i \in 0..(alloc - 1) |-> IF i \in DOMAIN @ THEN @[i] ELSE 0]]

Stored(list, index, items) ==
    [list EXCEPT !.items = [i \in DOMAIN @ |->
        IF i \in index..(index + Len(items) - 1) THEN items[i - index + 1] ELSE @[i]]]

\* last_allocated of the code is alloc - 1.
LIST_OVERCNT(n) == LIST_EXTRA + 3 * (n \div 2) + (1 - ((3 * (n \div 2)) % 2))
list_grow(list, nalloc) == Realloc(list, LIST_OVERCNT(nalloc))

list_append(list, item) ==
    LET index == list.count
        grown == IF index > list.alloc - 1 THEN list_grow(list, index) ELSE list
    IN [Stored(grown, index, <<item>>) EXCEPT !.count = index + 1]

list_append2(list, item0, item1) ==
    LET index == list.count
        grown == IF index >= list.alloc - 1 THEN list_grow(list, index + 1) ELSE list
    IN [Stored(grown, index, <<item0, item1>>) EXCEPT !.count = index + 2]

Contents(list) == [i \in 1..list.count |->
                       IF i - 1 \in DOMAIN list.items THEN list.items[i - 1] ELSE 0]

list_extend(list, list2, slicestart) ==
    IF list2.count <= slicestart THEN list ELSE
    LET slice == SubSeq(Contents(list2), slicestart + 1, list2.count)
        last  == list.count + Len(slice) - 1
        grown == IF last > list.alloc - 1 THEN list_grow(list, last) ELSE list
    IN [Stored(grown, list.count, slice) EXCEPT !.count = last + 1]

list_pop_item(list) == [list EXCEPT !.count = @ - 1]

-----------------------------------------------------------------------------
(* The pointer lists of c4.                                                *)

gcptrlist_grow(list) == Realloc(list, list.alloc + list.alloc \div 2 + LIST_EXTRA)

RECURSIVE GrownFor(_, _)
GrownFor(list, n) ==
    IF list.alloc - list.count < n THEN GrownFor(gcptrlist_grow(list), n) ELSE list

\* gcptrlist_insert(), _insert2() and _insert3() grow once, which is enough.
gcptrlist_insert(list, items) ==
    LET grown == IF list.alloc - list.count < Len(items) THEN gcptrlist_grow(list) ELSE list
    IN [Stored(grown, list.count, items) EXCEPT !.count = @ + Len(items)]

gcptrlist_insert_at_index(list, index, item) ==
    LET longer == gcptrlist_insert(list, <<0>>)
    IN [longer EXCEPT !.items[list.count] = longer.items[index], !.items[index] = item]

gcptrlist_merge(list, source) ==
    IF source.count = 0 THEN list
    ELSE [Stored(GrownFor(list, source.count), list.count, Contents(source))
              EXCEPT !.count = @ + source.count]

gcptrlist_compress(list) ==
    IF list.alloc <= list.count + LIST_EXTRA THEN list ELSE Realloc(list, list.count)

-----------------------------------------------------------------------------
(* The read-barrier cache of c4.  Only FX_ENTRIES of its entries are in    *)
(* use, from `shift' on: adding one to shift empties the cache, because    *)
(* every entry is in the wrong place afterwards.                           *)

FX_TOTAL == (FX_ENTRIES * 4) \div 3
Place(cache, obj) == cache.shift + (obj % FX_ENTRIES)
FXCACHE_AT(cache, obj) == cache.cache[Place(cache, obj)]
fxcache_reset == [shift |-> 0, cache |-> [i \in 0..(FX_TOTAL - 1) |-> 0]]

fxcache_clear(cache) ==
    IF cache.shift + 1 > FX_TOTAL - FX_ENTRIES
    THEN fxcache_reset ELSE [cache EXCEPT !.shift = @ + 1]

fxcache_add(cache, obj) == [cache EXCEPT !.cache[Place(cache, obj)] = obj]
fxcache_remove(cache, obj) == [cache EXCEPT !.cache[Place(cache, obj)] = 0]

-----------------------------------------------------------------------------
Init ==
    /\ kind \in Kinds
    /\ box = IF kind \in Trees THEN tree_create
             ELSE IF kind = "list" THEN <<list_create, list_create>>
             ELSE IF kind = "gcptrlist" THEN <<NewList(0), NewList(0)>>
             ELSE fxcache_reset
    /\ spec = IF kind \in {"list", "gcptrlist"} THEN <<<<>>, <<>>>>
              ELSE IF kind = "fxcache" THEN {} ELSE <<>>

(* Trees: spec is the dictionary. *)
Without(f, S) == [x \in DOMAIN f \ S |-> f[x]]

Insert(addr, val) ==
    /\ kind \in Trees /\ box.end <= MAX_ALLOC
    /\ ~tree_contains(box, addr)        \* asserted by the code
    /\ box' = tree_insert(box, addr, val)
    /\ spec' = [a \in DOMAIN spec \cup {addr} |-> IF a = addr THEN val ELSE spec[a]]
    /\ UNCHANGED kind

DeleteItem(addr) ==
    /\ kind \in Trees
    /\ box' = tree_delete_item(box, addr)
    /\ spec' = Without(spec, {addr})
    /\ UNCHANGED kind

LoopAndDelete(deletes) ==
    /\ kind \in Trees
    /\ box' = LoopDeleting(box, deletes)
    /\ spec' = Without(spec, deletes)
    /\ UNCHANGED kind

Clear ==
    /\ kind \in Trees
    /\ box' = tree_clear(box)
    /\ spec' = <<>>
    /\ UNCHANGED kind

(* Lists: spec is the two sequences. *)
Change(l, list, items) ==
    /\ Len(items) <= MAX_ITEMS
    /\ box' = [box EXCEPT ![l] = list]
    /\ spec' = [spec EXCEPT ![l] = items]
    /\ UNCHANGED kind

ListOp(l) ==
    /\ kind = "list"
    /\ \/ \E i \in Items : Change(l, list_append(box[l], i), Append(spec[l], i))
       \/ \E i, j \in Items :
              Change(l, list_append2(box[l], i, j), spec[l] \o <<i, j>>)
       \/ \E start \in 0..box[3 - l].count :
              Change(l, list_extend(box[l], box[3 - l], start),
                        spec[l] \o SubSeq(spec[3 - l], start + 1, Len(spec[3 - l])))
       \/ spec[l] # <<>> /\ Change(l, list_pop_item(box[l]), Front(spec[l]))

GcPtrListOp(l) ==
    /\ kind = "gcptrlist"
    /\ \/ \E n \in 1..3, i \in Items :
              Change(l, gcptrlist_insert(box[l], [j \in 1..n |-> i]),
                        spec[l] \o [j \in 1..n |-> i])
       \/ \E index \in 0..(Len(spec[l]) - 1), i \in Items :
              Change(l, gcptrlist_insert_at_index(box[l], index, i),
                        [Append(spec[l], spec[l][index + 1]) EXCEPT ![index + 1] = i])
       \/ Change(l, gcptrlist_compress(box[l]), spec[l])
       \/ spec[l] # <<>> /\ Change(l, list_pop_item(box[l]), Front(spec[l]))

\* gcptrlist_move(): the source is empty afterwards.
Move(l) ==
    /\ kind = "gcptrlist"
    /\ Len(spec[1] \o spec[2]) <= MAX_ITEMS
    /\ box' = [box EXCEPT ![l] = gcptrlist_merge(box[l], box[3 - l]), ![3 - l].count = 0]
    /\ spec' = [spec EXCEPT ![l] = @ \o spec[3 - l], ![3 - l] = <<>>]
    /\ UNCHANGED kind

(* The cache: spec is the set of the objects that may be in it. *)
CacheOp ==
    /\ kind = "fxcache"
    /\ \/ \E obj \in Addrs : box' = fxcache_add(box, obj) /\ spec' = spec \cup {obj}
       \/ \E obj \in Addrs : box' = fxcache_remove(box, obj) /\ spec' = spec \ {obj}
       \/ box' = fxcache_clear(box) /\ spec' = {}
    /\ UNCHANGED kind

Next ==
    \/ \E addr \in Addrs, val \in Items : Insert(addr, val)
    \/ \E addr \in Addrs : DeleteItem(addr)
    \/ \E deletes \in SUBSET Addrs : LoopAndDelete(deletes)
    \/ Clear
    \/ \E l \in {1, 2} : ListOp(l) \/ GcPtrListOp(l) \/ Move(l)
    \/ CacheOp

Spec == Init /\ [][Next]_vars

-----------------------------------------------------------------------------
\* A tree is a dictionary: lookups find what was inserted and not deleted
\* since and nothing else, loops meet every entry once, and c8's count is the
\* number of entries, through collisions, reuse of deleted items, growth in
\* the middle of an insertion, and compression at the end of a loop.
TreesAreMaps ==
    kind \in Trees =>
        /\ \A a \in Addrs : tree_contains(box, a) <=> a \in DOMAIN spec
        /\ \A a \in DOMAIN spec : tree_find(box, a).val = spec[a]
        /\ LET loop == TREE_LOOP_FORWARD(box)
           IN /\ Len(loop) = Cardinality(DOMAIN spec)
              /\ {item.addr : item \in ToSet(loop)} = DOMAIN spec
              /\ \A i \in 1..Len(loop) : tree_item(box, i - 1) = loop[i]
        /\ kind = "c8 tree" => box.count = Cardinality(DOMAIN spec)

\* Nothing that was put into a list is lost or written outside of its memory,
\* whatever is appended, popped, moved and compressed, and the read barrier's
\* cache never says that it has seen an object since it was last cleared when
\* it has not.
ListsAndCaches ==
    /\ kind \in {"list", "gcptrlist"} =>
           \A l \in {1, 2} : box[l].count <= box[l].alloc /\ Contents(box[l]) = spec[l]
    /\ kind = "fxcache" =>
           \A obj \in Addrs : FXCACHE_AT(box, obj) = obj => obj \in spec
=============================================================================
