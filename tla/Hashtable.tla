----------------------------- MODULE Hashtable -----------------------------
(***************************************************************************)
(* The hash tables of c7 (c7/stm/hashtable.c).  Segments look entries up   *)
(* without a lock and share the table; what they find in an entry is       *)
(* transactional.  The counter of a table says how much room it has, is    *)
(* its lock, and in the end leads to the bigger table.  A major collection *)
(* shrinks the table and drops entries that nobody needs.                  *)
(*                                                                         *)
(* A thread keeps its segment, is always in a transaction, and goes through *)
(* a program of calls, which an abort does not take back.  What            *)
(* happens to an entry that nobody else can see yet is part of the step    *)
(* that shows it.  Definitions marked "faulty" are used nowhere: each is   *)
(* the one below it with a plausible bug.                                  *)
(***************************************************************************)
EXTENDS Naturals, Sequences, FiniteSets, SequencesExt

CONSTANTS
  Segs, NULL,
  Programs,                 \* what the segments may do: sequences of calls
  INITIAL_HASHTABLE_SIZE,
  NB_ENTRIES, NB_TABLES,    \* bounds: entries and tables at a time
  ALLOCATION_COLLECTS       \* TRUE: the nursery may be full at an allocation

VARIABLES
  tables,     \* the chain of tables: those not freed, the initial one is 1
  table,      \* hashtable->table
  entries,    \* per entry: its index, its committed object, where it is
  additions,  \* what the next compaction goes by: a count and a segment
  hobj,       \* the hash table object: where it is, whose transaction made it
  code,       \* per segment: what it has not called yet
  op,         \* per segment: the call under way
  marks,      \* per segment: entries with a current read marker
  mods        \* per segment: entries written, and with what

hvars == <<tables, table, entries, additions, hobj, code, op, marks, mods>>

\* A counter is a number, the lock (0), or leads to the next table.
Number(n) == <<"number", n>>
RESIZING_LOCK == Number(0)
To(id) == <<"table", id>>
IS_EVEN(rc) == rc[1] = "table" \/ rc[2] % 2 = 0

init_table(itemcount) ==
  [mask |-> itemcount - 1, resize_counter |-> Number(itemcount * 4 + 1),
   items |-> [i \in 0..(itemcount - 1) |-> NULL]]

Nothing == [x \in {} |-> NULL]
Idle == [pc |-> "idle", goal |-> <<"none">>, table |-> 1, probe |-> 0,
         rc |-> RESIZING_LOCK, entry |-> NULL]

\* stm_hashtable_create(), by a transaction, or long ago.
Created(owner) ==
  /\ tables = [id \in {1} |-> init_table(INITIAL_HASHTABLE_SIZE)]
  /\ table = 1
  /\ entries = Nothing
  /\ additions = [count |-> 0, segment |-> 0]
  /\ hobj = IF owner = NULL THEN [in |-> "old", owner |-> NULL]
                            ELSE [in |-> "nursery", owner |-> owner]

Init ==
  /\ \E owner \in Segs \cup {NULL} : Created(owner)
  /\ code \in Programs
  /\ op = [s \in Segs |-> Idle]
  /\ marks = [s \in Segs |-> {}]
  /\ mods = [s \in Segs |-> Nothing]

At(s, pc) == op[s].pc = pc
Goto(s, pc) == op' = [op EXCEPT ![s].pc = pc]
Index(s) == op[s].goal[2]
Counter(id, rc) == tables' = [tables EXCEPT ![id].resize_counter = rc]

-----------------------------------------------------------------------------
(* Lookup, without the lock.                                               *)

\* The places to look at for an index, one after the other.  The code keeps
\* "perturb", which is the index without PERTURB_SHIFT bits for each step.
PERTURB_SHIFT == 5
Probes(index, mask) ==
  LET i[n \in 0..(2 * mask + 2)] ==
        IF n = 0 THEN index % (mask + 1)
        ELSE (5 * i[n-1] + (index \div 2^(PERTURB_SHIFT * (n-1))) + 1) % (mask + 1)
  IN i

\* Where probing for an index ends: at its entry, or at a free place.
Place(tab, index) ==
  LET i == Probes(index, tab.mask)
      ends(n) == \/ tab.items[i[n]] = NULL
                 \/ entries[tab.items[i[n]]].index = index
  IN i[CHOOSE n \in DOMAIN i : ends(n) /\ \A m \in 0..(n-1) : ~ends(m)]
_insert_clean(tab, e) ==
  [tab EXCEPT !.items[Place(tab, entries[e].index)] = e]

\* stm_hashtable_read() or stm_hashtable_write() is called.
Calls(s, names) == At(s, "idle") /\ code[s] # <<>> /\ code[s][1][1] \in names
Called(s) == code' = [code EXCEPT ![s] = Tail(@)]
Call(s) ==
  /\ Calls(s, {"read", "write"}) /\ hobj.owner \in {NULL, s}
  /\ Called(s)
  /\ op' = [op EXCEPT ![s] = [Idle EXCEPT !.pc = "restart", !.goal = code[s][1]]]
  /\ UNCHANGED <<tables, table, entries, additions, hobj, marks, mods>>

Restart(s) ==
  /\ At(s, "restart")
  /\ op' = [op EXCEPT ![s].pc = "probe", ![s].table = table, ![s].probe = 0]
  /\ UNCHANGED <<code, tables, table, entries, additions, hobj, marks, mods>>

ProbedPlace(s) == Probes(Index(s), tables[op[s].table].mask)[op[s].probe]
Item(s) == tables[op[s].table].items[ProbedPlace(s)]
Probe(s) ==
  /\ At(s, "probe")
  /\ op' = [op EXCEPT ![s] =
       IF Item(s) = NULL THEN [@ EXCEPT !.pc = "counter"]
       ELSE IF entries[Item(s)].index = Index(s)
       THEN [@ EXCEPT !.pc = "found", !.entry = Item(s)]
       ELSE [@ EXCEPT !.probe = @ + 1]]
  /\ UNCHANGED <<code, tables, table, entries, additions, hobj, marks, mods>>

ReadCounter(s) ==
  LET rc == tables[op[s].table].resize_counter IN
  /\ At(s, "counter")
  /\ op' = [op EXCEPT ![s].pc = IF IS_EVEN(rc) THEN "restart" ELSE "cas",
                      ![s].rc = rc]
  /\ UNCHANGED <<code, tables, table, entries, additions, hobj, marks, mods>>

CompareAndSwap(s) ==
  /\ At(s, "cas")
  /\ IF tables[op[s].table].resize_counter = op[s].rc
     THEN Counter(op[s].table, RESIZING_LOCK) /\ Goto(s, "locked")
     ELSE Goto(s, "restart") /\ UNCHANGED tables
  /\ UNCHANGED <<code, table, entries, additions, hobj, marks, mods>>

-----------------------------------------------------------------------------
(* With the lock.                                                          *)

\* Faulty: the place is taken for free as it was before the lock.
StillFreeAsBefore(s) == TRUE
StillFree(s) == Item(s) = NULL

Populated(s) ==
  /\ At(s, "locked") /\ ~StillFree(s)
  /\ Counter(op[s].table, op[s].rc)
  /\ Goto(s, "restart")
  /\ UNCHANGED <<code, table, entries, additions, hobj, marks, mods>>

FreeIds(used, n) == (1..n) \ used
\* The new entry, into the table at the place found.
NewEntry(s, in) ==
  \E e \in {Min(FreeIds(DOMAIN entries, NB_ENTRIES))} :
    /\ entries' = [x \in DOMAIN entries \cup {e} |->
                     IF x = e THEN [index |-> Index(s), object |-> NULL, in |-> in]
                              ELSE entries[x]]
    /\ tables' = [tables EXCEPT ![op[s].table].items[ProbedPlace(s)] = e]
    /\ op' = [op EXCEPT ![s].pc = "unlock", ![s].entry = e]

HasRoom(s) == op[s].rc[2] > 6
\* The table object is old: so is the entry, with NULL in all segments.
InsertOld(s) ==
  /\ At(s, "locked") /\ StillFree(s) /\ HasRoom(s) /\ hobj.in # "nursery"
  /\ FreeIds(DOMAIN entries, NB_ENTRIES) # {}
  /\ NewEntry(s, "old")
  /\ additions' = [additions EXCEPT !.count = @ + 1]
  /\ UNCHANGED <<code, table, hobj, marks, mods>>

\* stm_allocate() ...
Allocate(s) ==
  /\ At(s, "locked") /\ StillFree(s) /\ HasRoom(s) /\ hobj.in = "nursery"
  /\ Goto(s, "allocate")
  /\ UNCHANGED <<code, tables, table, entries, additions, hobj, marks, mods>>
\* ... gives a young one.
InsertYoung(s) ==
  /\ At(s, "allocate")
  /\ FreeIds(DOMAIN entries, NB_ENTRIES) # {}
  /\ NewEntry(s, "nursery")
  /\ additions' = [count |-> 0, segment |-> s]
  /\ UNCHANGED <<code, table, hobj, marks, mods>>

Unlock(s) ==
  /\ At(s, "unlock")
  /\ Counter(op[s].table, Number(op[s].rc[2] - 6))
  /\ Goto(s, "found")
  /\ UNCHANGED <<code, table, entries, additions, hobj, marks, mods>>

\* A bigger table is needed: the counter leads to it at once ...
Grow(s) ==
  LET size == tables[op[s].table].mask + 1 IN
  /\ At(s, "locked") /\ StillFree(s) /\ ~HasRoom(s)
  /\ FreeIds(DOMAIN tables, NB_TABLES) # {}
  /\ \E id \in {Min(FreeIds(DOMAIN tables, NB_TABLES))} :
       /\ tables' = [x \in DOMAIN tables \cup {id} |->
            IF x = id THEN init_table(IF size < 50000 THEN size * 4 ELSE size * 2)
            ELSE IF x = op[s].table THEN [tables[x] EXCEPT !.resize_counter = To(id)]
            ELSE tables[x]]
       /\ op' = [op EXCEPT ![s].pc = "rehash"]
  /\ UNCHANGED <<code, table, entries, additions, hobj, marks, mods>>

\* _stm_rehash_hashtable(): the entries in S go from one table to another.
Rehashed(from, to, S) ==
  LET places == SelectSeq([n \in 1..(from.mask + 1) |-> n - 1],
                          LAMBDA j : from.items[j] \in S)
      full == FoldLeft(LAMBDA tab, j : _insert_clean(tab, from.items[j]),
                       to, places)
  IN [full EXCEPT !.resize_counter = Number(@[2] - 6 * Len(places))]

InTable(tab) == {tab.items[i] : i \in 0..tab.mask} \ {NULL}

\* ... and when it is complete it becomes the table.
Rehash(s) ==
  LET old == tables[op[s].table]
      id == old.resize_counter[2]
  IN /\ At(s, "rehash")
     /\ tables' = [tables EXCEPT ![id] = Rehashed(old, @, InTable(old))]
     /\ table' = id
     /\ Goto(s, "restart")
     /\ UNCHANGED <<code, entries, additions, hobj, marks, mods>>

-----------------------------------------------------------------------------
(* Transactions on the entry.                                              *)

Read(s) ==
  /\ At(s, "found") /\ op[s].goal[1] = "read"
  /\ marks' = [marks EXCEPT ![s] = @ \cup {op[s].entry}]
  /\ op' = [op EXCEPT ![s] = Idle]
  /\ UNCHANGED <<code, tables, table, entries, additions, hobj, mods>>

\* _stm_write_slowpath() marks an old entry as read, and then may have to
\* wait at a safe point for the write lock.
Write(s) ==
  /\ At(s, "found") /\ op[s].goal[1] = "write"
  /\ marks' = [marks EXCEPT ![s] = IF entries[op[s].entry].in = "old"
                                   THEN @ \cup {op[s].entry} ELSE @]
  /\ Goto(s, "write")
  /\ UNCHANGED <<code, tables, table, entries, additions, hobj, mods>>
Modify(s) ==
  /\ At(s, "write")
  /\ \A u \in Segs \ {s} : op[s].entry \notin DOMAIN mods[u]
  /\ mods' = [mods EXCEPT ![s] =
                [x \in DOMAIN @ \cup {op[s].entry} |->
                   IF x = op[s].entry THEN op[s].goal[3] ELSE @[x]]]
  /\ op' = [op EXCEPT ![s] = Idle]
  /\ UNCHANGED <<code, tables, table, entries, additions, hobj, marks>>

SafePoint(s) == \/ op[s].pc \in {"idle", "write"}
                \/ At(s, "allocate") /\ ALLOCATION_COLLECTS
OthersAtSafePoint(s) == \A u \in Segs \ {s} : SafePoint(u)

\* The entries after a minor collection of s: those in a young table object
\* move out with it; young ones of an old object are not found, and lost.
Aged(s) ==
  IF hobj.owner # s THEN entries
  ELSE [e \in DOMAIN entries |->
          IF entries[e].in # "nursery" THEN entries[e]
          ELSE [entries[e] EXCEPT !.in =
                  IF hobj.in = "nursery" /\ e \in InTable(tables[table])
                  THEN "overflow" ELSE "lost"]]
HobjAged(s) == IF hobj = [in |-> "nursery", owner |-> s]
               THEN [hobj EXCEPT !.in = "overflow"] ELSE hobj

minor_collection(s) ==
  /\ \/ Calls(s, {"minor"}) /\ Called(s)
     \/ At(s, "allocate") /\ SafePoint(s) /\ UNCHANGED code
  /\ entries' = Aged(s)
  /\ hobj' = HobjAged(s)
  /\ UNCHANGED <<tables, table, additions, op, marks, mods>>

\* A transaction that has read what another one commits aborts.
Conflicts(s) ==
  {u \in Segs \ {s} : \E e \in DOMAIN mods[s] \cap marks[u] :
                        entries[e].in = "old"}
Ended(S) == /\ marks' = [u \in Segs |-> IF u \in S THEN {} ELSE marks[u]]
            /\ mods' = [u \in Segs |-> IF u \in S THEN Nothing ELSE mods[u]]
            /\ op' = [u \in Segs |-> IF u \in S THEN Idle ELSE op[u]]

Commit(s) ==
  /\ Calls(s, {"commit"}) /\ OthersAtSafePoint(s)
  /\ Called(s)
  /\ LET aged == Aged(s) IN
     entries' = [e \in DOMAIN entries |->
                   [aged[e] EXCEPT
                      !.object = IF e \in DOMAIN mods[s] THEN mods[s][e] ELSE @,
                      !.in = IF hobj.owner = s /\ @ = "overflow" THEN "old" ELSE @]]
  /\ hobj' = IF hobj.owner = s THEN [in |-> "old", owner |-> NULL] ELSE hobj
  /\ Ended({s} \cup Conflicts(s))
  /\ UNCHANGED <<tables, table, additions>>

\* The owner of the table object makes a new one when it tries again.
Abort(s) ==
  /\ \/ Calls(s, {"abort"}) /\ Called(s)
     \/ SafePoint(s) /\ ~At(s, "idle") /\ UNCHANGED code
  /\ Ended({s})
  /\ IF hobj.owner = s
     THEN /\ tables' = [id \in {1} |-> init_table(INITIAL_HASHTABLE_SIZE)]
          /\ table' = 1
          /\ entries' = Nothing
          /\ additions' = [count |-> 0, segment |-> 0]
          /\ hobj' = [in |-> "nursery", owner |-> s]
     ELSE UNCHANGED <<tables, table, entries, additions, hobj>>

-----------------------------------------------------------------------------
(* Major collections.                                                      *)

_stm_was_read_by_anybody(e) == \E u \in Segs : e \in marks[u]

\* The object in the copy of segment s.
ObjectIn(s, e) == IF e \in DOMAIN mods[s] THEN mods[s][e] ELSE entries[e].object
Dead(s, e) == ObjectIn(s, e) = NULL /\ ~_stm_was_read_by_anybody(e)

CompactedSize(n) ==
  LET fits(count) == count * 4 >= n
      sizes == {INITIAL_HASHTABLE_SIZE * 2^i : i \in 0..8}
  IN Min({count \in sizes : fits(count)})

\* _stm_compact_hashtable(), after which only the new table is left, and the
\* initial one, which leads to it.
_stm_compact_hashtable(seg, aged) ==
  LET tab == tables[table]
      n == (tab.mask + 1) * 4 + 1 - tab.resize_counter[2]
      alive == {e \in InTable(tab) : ~Dead(seg, e)}
      compact == additions.count * 4 > tab.mask
      id == IF compact THEN Min(FreeIds(DOMAIN tables, NB_TABLES)) ELSE table
      new == IF compact THEN Rehashed(tab, init_table(CompactedSize(n)), alive)
                        ELSE tab
  IN /\ compact => FreeIds(DOMAIN tables, NB_TABLES) # {}
     /\ table' = id
     /\ tables' = [x \in {1, id} |->
                     IF x = id THEN new
                     ELSE [tables[1] EXCEPT !.resize_counter = To(id)]]
     /\ additions' = IF compact THEN [count |-> 0, segment |-> seg] ELSE additions
     /\ entries' = [e \in InTable(new) |-> aged[e]]

\* Everybody is at a safe point, and the nurseries are emptied first.  A table
\* that is locked fails the assertion of _stm_compact_hashtable().
major_collection(s) ==
  /\ \/ Calls(s, {"major"}) /\ Called(s)
     \/ At(s, "allocate") /\ SafePoint(s) /\ UNCHANGED code
  /\ OthersAtSafePoint(s)
  /\ ~IS_EVEN(tables[table].resize_counter)
  /\ _stm_compact_hashtable(
       IF additions.segment = 0 THEN Min(Segs) ELSE additions.segment,
       IF hobj.owner = NULL THEN entries ELSE Aged(hobj.owner))
  /\ hobj' = IF hobj.owner = NULL THEN hobj ELSE HobjAged(hobj.owner)
  /\ UNCHANGED <<op, marks, mods>>

-----------------------------------------------------------------------------

Lookup(s) ==
  \/ Restart(s) \/ Probe(s) \/ ReadCounter(s) \/ CompareAndSwap(s)
  \/ Populated(s) \/ InsertOld(s) \/ Allocate(s) \/ InsertYoung(s) \/ Unlock(s)
  \/ Grow(s) \/ Rehash(s)
\* The bound of the model: the programs have come to their ends.
Finished == /\ \A s \in Segs : At(s, "idle") /\ code[s] = <<>>
            /\ UNCHANGED hvars
Next == Finished \/ \E s \in Segs :
  \/ Call(s) \/ Lookup(s) \/ Read(s) \/ Write(s) \/ Modify(s)
  \/ minor_collection(s) \/ Commit(s) \/ Abort(s) \/ major_collection(s)

\* A thread in a lookup is scheduled.
Spec == Init /\ [][Next]_hvars /\ \A s \in Segs : WF_hvars(Lookup(s))

-----------------------------------------------------------------------------
(* Properties.                                                             *)

\* An entry that a transaction has got hold of or written, or that has an
\* object, or is in the table at all, is the one that a lookup of its index
\* finds: entries are neither doubled, nor overwritten, nor lost in a bigger
\* or compacted table, nor left behind in a nursery.
EntriesStay ==
  \A e \in InTable(tables[table])
           \cup UNION {DOMAIN mods[s] : s \in Segs}
           \cup {op[s].entry : s \in {u \in Segs : op[u].pc \in {"found", "write"}}}
           \cup {x \in DOMAIN entries : entries[x].object # NULL} :
    /\ e \in DOMAIN entries /\ entries[e].in # "lost"
    /\ LET tab == tables[table] IN tab.items[Place(tab, entries[e].index)] = e

\* A lookup finds its entry in the end, although it spins while others hold
\* the lock, and starts over when they were faster.
LookingUp(s) == op[s].pc \notin {"found", "write", "idle"}
LookupsEnd == \A s \in Segs : LookingUp(s) ~> ~LookingUp(s)
=============================================================================
