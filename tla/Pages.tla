-------------------------------- MODULE Pages --------------------------------
(***************************************************************************)
(* The pages behind the objects of c7 (c7/stm/pages.c, with the parts of   *)
(* core.c, nursery.c and gcpage.c that read or write them).                *)
(*                                                                         *)
(* Every page of old objects has a shared copy, seen by all segments, and  *)
(* a private copy in each segment that wrote to an object of that page.    *)
(* The module follows the write barrier as it privatizes pages, the cards  *)
(* of large arrays, the synchronization of objects that a transaction      *)
(* commits, the undoing of an abort, the re-sharing of pages by a major    *)
(* collection (which borrows write_locks[] for its marks), the growth of   *)
(* the range of initialized pages, and the copy that fork() makes.         *)
(*                                                                         *)
(* An object is a sequence of cells, one per card; Layout says in which    *)
(* page each cell lies.  The contents of a cell is a bit, and a write      *)
(* flips it, so that a stale copy always shows.  Which transactions may    *)
(* commit is the business of StmCore; here every one may.                  *)
(***************************************************************************)
EXTENDS Integers, Sequences, FiniteSets, FiniteSetsExt, SequencesExt

CONSTANTS
  NB_SEGMENTS,        \* segments 1..NB_SEGMENTS; 0 holds the shared copies
  NULL,               \* a list that does not exist
  Layout,             \* object -> the page of each of its cells
  UsesCards,          \* the objects for which obj_should_use_cards()
  Prebuilt,           \* the objects that exist at the start
  NB_PAGES,           \* pages 1..NB_PAGES, after the nursery
  GCPAGE_NUM_PAGES,   \* pages initialized beyond the one needed
  PAGE_SIZE,          \* what a private page adds to total_allocated
  GC_MIN,             \* the least bound on total_allocated
  MAX_OPS,            \* bound: operations that threads may begin
  MIXED_BARRIERS      \* may a transaction use both barriers on an array?

VARIABLES
  sys,                       \* pages, locks, cards and the segments' lists
  privatization_lock,        \* segment -> its holder, or 0
  uninitialized_page_start,  \* the first page that was never mapped
  mapped,                    \* pages that segments see through segment 0
  lock_growth_large,         \* the holder of the lock, or 0
  total_allocated_bound,
  major_collection_requested,
  highest_overflow_number,
  pc,                        \* segment -> what its thread is doing
  public,                    \* committed objects that are reachable
  committed,                 \* object -> cells of its last committed version
  own,                       \* segment -> object -> cells as it wrote them
  ops                        \* operations begun so far

vars == <<sys, privatization_lock, uninitialized_page_start, mapped,
          lock_growth_large, total_allocated_bound, major_collection_requested,
          highest_overflow_number, pc, public, committed, own, ops>>

Segs == 1..NB_SEGMENTS
Objs == DOMAIN Layout
Cells(o) == DOMAIN Layout[o]
WL_VISITED == 255
CARD_CLEAR == 0
CARD_MARKED == 100
CARD_MARKED_OLD == 101

\* An object lies in consecutive pages; the program starts with some objects;
\* 82% above what is allocated, or GC_MIN, is above what is allocated; a list
\* that does not exist is not a list of objects.
ASSUME PagesAssumption ==
  /\ NB_SEGMENTS \in Nat /\ NB_PAGES \in Nat /\ GCPAGE_NUM_PAGES \in Nat
  /\ \A o \in Objs: /\ Layout[o] \in Seq(1..NB_PAGES) /\ Layout[o] # <<>>
                    /\ \A c, d \in Cells(o): c <= d => Layout[o][c] <= Layout[o][d]
  /\ UsesCards \subseteq Objs /\ Prebuilt \subseteq Objs /\ Prebuilt # {}
  /\ IsFiniteSet(Prebuilt) /\ PAGE_SIZE \in Nat /\ GC_MIN \in Nat /\ GC_MIN > 1
  /\ \A list \in SUBSET Objs: list # NULL

Zeroes(o) == [c \in Cells(o) |-> 0]
AllCards(o, value) == [c \in Cells(o) |-> value]
CellsOf(objects) == UNION {{o} \X Cells(o): o \in objects}
SizeOf(objects) == Cardinality(CellsOf(objects))
LastPage(o) == Layout[o][Len(Layout[o])]
Idle == [k |-> "idle"]

-----------------------------------------------------------------------------
(* Addresses: a segment sees its private copy of a page or the shared one. *)

is_private_page(x, s, p) == s \in x.by_segment[p]

Home(x, s, p) ==
  IF s = 0 \/ p \notin mapped \/ is_private_page(x, s, p) THEN s ELSE 0

View(x, s, o) == [c \in Cells(o) |-> x.mem[Home(x, s, Layout[o][c])][o][c]]

\* The contents of one object, written at the addresses of segment s.
Store(x, s, o, value) ==
  [x EXCEPT !.mem = [t \in 0..NB_SEGMENTS |-> [p \in Objs |-> [c \in Cells(p) |->
     IF p = o /\ Home(x, s, Layout[o][c]) = t THEN value[c] ELSE x.mem[t][p][c]]]]]

\* Fragments of objects: first to the shared page, if the own one is
\* private, and from there to the private pages of the other segments.
_page_wise_synchronize_object_now(x, s, fragments) ==
  LET Reaches(t, o, c) ==
        /\ o \in DOMAIN fragments /\ c \in fragments[o]
        /\ t = 0 \/ (t # s /\ is_private_page(x, t, Layout[o][c]))
  IN  [x EXCEPT !.mem = [t \in 0..NB_SEGMENTS |-> [o \in Objs |-> [c \in Cells(o) |->
         IF Reaches(t, o, c) THEN View(x, s, o)[c] ELSE x.mem[t][o][c]]]]]

IS_OVERFLOW_OBJ(x, s, o) == x.number[o] = x.seg[s].overflow_number

-----------------------------------------------------------------------------
(* Cards. *)

\* Of each segment some objects.
_reset_object_cards(x, of, value, all) ==
  LET objects == UNION {of[s]: s \in DOMAIN of}
  IN  [x EXCEPT
         !.cards = [o \in Objs |-> [c \in Cells(o) |->
            IF o \in objects /\ (all \/ x.cards[o][c] # CARD_CLEAR)
            THEN value ELSE x.cards[o][c]]],
         !.seg = [s \in Segs |-> [x.seg[s] EXCEPT
            !.cards_set = IF s \in DOMAIN of THEN @ \ of[s] ELSE @]]]

\* Only the marked cards, unless three of them suggest that all are marked
\* or none is: then the array was written with the ordinary barrier.
_card_wise_synchronize_object_now(x, o) ==
  LET last   == Len(Layout[o])
      marked == {c \in Cells(o): x.cards[o][c] = CARD_MARKED_OLD}
      whole  == {1, last, (last \div 2) + 1} \subseteq marked \/ marked = {}
  IN  IF whole THEN Cells(o) ELSE marked

synchronize_object_now(x, s, objects, ignore_cards) ==
  LET arrays == IF ignore_cards THEN {} ELSE objects \intersect UsesCards
  IN  [_page_wise_synchronize_object_now(x, s, [o \in objects |->
          IF o \in arrays THEN _card_wise_synchronize_object_now(x, o) ELSE Cells(o)])
        EXCEPT !.cards = [o \in Objs |->
          IF o \in arrays THEN AllCards(o, CARD_CLEAR) ELSE @[o]]]

-----------------------------------------------------------------------------
(* Minor collections.  Young objects are the ones outside the nursery.     *)

\* The marked cards are traced and become old; those of overflow objects
\* are cleared.
collect_cardrefs_to_nursery(x, S) ==
  LET traced(s)  == x.seg[s].with_cards \intersect x.seg[s].cards_set
      old(s, o)  == IF IS_OVERFLOW_OBJ(x, s, o) THEN CARD_CLEAR ELSE CARD_MARKED_OLD
      Tracing(o) == {s \in S: o \in traced(s)}
  IN  [x EXCEPT
         !.cards = [o \in Objs |-> [c \in Cells(o) |->
            IF Tracing(o) # {} /\ x.cards[o][c] = CARD_MARKED
            THEN old(CHOOSE s \in S: o \in traced(s), o) ELSE x.cards[o][c]]],
         !.seg = [s \in Segs |-> IF s \notin S THEN x.seg[s] ELSE
            [x.seg[s] EXCEPT !.with_cards = {}, !.cards_set = @ \ traced(s)]]]

\* What is still young is unreachable.
throw_away_nursery(x, S) ==
  LET dead == UNION {x.seg[s].young: s \in S}
  IN  [x EXCEPT !.used = @ \ dead,
                !.total_allocated = @ - SizeOf(dead),
                !.seg = [s \in Segs |-> [x.seg[s] EXCEPT
                           !.young = IF s \in S THEN {} ELSE @]]]

\* A collection that does not commit makes the survivors overflow objects.
_do_minor_collection(x, S, commit) ==
  LET alive(g) == g.young \intersect g.mine
      After(g) == [g EXCEPT
        !.open     = @ \ (IF g.pointing = NULL THEN g.modified ELSE g.pointing),
        !.pointing = {},
        !.young    = @ \ alive(g),
        !.number_used = @ \/ ~commit,
        !.overflow = IF commit THEN @
                     ELSE alive(g) \union (IF @ = NULL THEN {} ELSE @)]
      y == collect_cardrefs_to_nursery(x, S)
      Survives(o) == {s \in S: o \in alive(x.seg[s])}
      z == [y EXCEPT
              !.number = [o \in Objs |-> IF commit \/ Survives(o) = {} THEN @[o]
                            ELSE x.seg[CHOOSE s \in Survives(o): TRUE].overflow_number],
              !.seg = [s \in Segs |-> IF s \in S THEN After(y.seg[s]) ELSE y.seg[s]]]
  IN  throw_away_nursery(z, S)

MINOR_NOTHING_TO_DO(x, s) == x.seg[s].young = {}

-----------------------------------------------------------------------------
(* The end of a transaction. *)

\* The lists that are empty between transactions.
Finished(x, S) ==
  [x EXCEPT !.seg = [s \in Segs |-> IF s \notin S THEN x.seg[s] ELSE
     [x.seg[s] EXCEPT !.modified = {}, !.pointing = NULL, !.with_cards = {},
                      !.overflow = NULL, !.open = {}, !.mine = {}, !.plain = {}]]]

\* Undo: the version of segment 0 comes back, then the locks are released.
reset_modified_from_other_segments(x, S) ==
  LET Undone(o) == {s \in S: o \in x.seg[s].modified}
  IN  [x EXCEPT
         !.mem = [t \in 0..NB_SEGMENTS |-> [o \in Objs |-> [c \in Cells(o) |->
            IF \E s \in Undone(o): Home(x, s, Layout[o][c]) = t
            THEN x.mem[0][o][c] ELSE x.mem[t][o][c]]]],
         !.write_locks = [o \in Objs |-> IF Undone(o) # {} THEN 0 ELSE @[o]]]

\* Arrays that were modified, and overflow objects with cards.
abort_data_structures_from_segment_num(x, S) ==
  LET marked(g) == IF g.overflow = NULL THEN {}
                   ELSE g.overflow \intersect g.cards_set
      arrays == [s \in S |-> marked(x.seg[s])
                               \union (x.seg[s].modified \intersect UsesCards)]
  IN  Finished(
        reset_modified_from_other_segments(
          _reset_object_cards(throw_away_nursery(x, S), arrays, CARD_CLEAR, FALSE),
          S),
        S)

push_modified_to_other_segments(x, s) ==
  [synchronize_object_now(x, s, x.seg[s].modified, FALSE) EXCEPT
     !.write_locks = [o \in Objs |-> IF o \in x.seg[s].modified THEN 0 ELSE @[o]]]

-----------------------------------------------------------------------------
(* The major collection. *)

\* Pages with modified objects stay private to the segments that modified
\* them: their bits are hidden while the others are re-shared.
ModifiedPages(x, s) == UNION {Range(Layout[o]): o \in x.seg[s].modified}

major_hide_private_bits_for_modified_objects(x) ==
  [x EXCEPT !.by_segment = [p \in 1..NB_PAGES |->
     {s \in x.by_segment[p]: p \notin ModifiedPages(x, s)}]]

major_restore_private_bits_for_modified_objects(x) ==
  [x EXCEPT !.by_segment = [p \in 1..NB_PAGES |->
     x.by_segment[p] \union {s \in Segs: p \in ModifiedPages(x, s)}]]

\* Overflow objects that exist only in private pages that lose their copy.
copy_object_to_shared(x) ==
  LET overflow(s) == IF x.seg[s].overflow = NULL THEN {} ELSE x.seg[s].overflow
      Only(o, c)  == {s \in Segs: o \in overflow(s)
                                    /\ is_private_page(x, s, Layout[o][c])}
  IN  [x EXCEPT !.mem[0] = [o \in Objs |-> [c \in Cells(o) |->
         IF Only(o, c) = {} THEN x.mem[0][o][c]
         ELSE x.mem[CHOOSE s \in Only(o, c): TRUE][o][c]]]]

\* Drops the private copies of a page.
PrivateCopies(x) ==
  Cardinality({r \in (1..NB_PAGES) \X Segs: is_private_page(x, r[2], r[1])})
Dropped(x) ==
  [x EXCEPT !.by_segment = [p \in 1..NB_PAGES |-> {}],
            !.mem = [t \in 0..NB_SEGMENTS |-> [o \in Objs |-> [c \in Cells(o) |->
               IF t \in x.by_segment[Layout[o][c]] THEN 0 ELSE x.mem[t][o][c]]]]]

ResharedForFree(x) == Dropped(x)                   \* faulty
page_reshare(x) ==
  [Dropped(x) EXCEPT !.total_allocated = @ - PAGE_SIZE * PrivateCopies(x)]

major_reshare_pages(x) ==
  major_restore_private_bits_for_modified_objects(page_reshare(
    copy_object_to_shared(major_hide_private_bits_for_modified_objects(x))))

\* Marks go to write_locks[], over the locks of the running transactions.
MarkVisited(x, reachable) ==
  [x EXCEPT !.write_locks = [o \in Objs |->
     IF o \in reachable THEN WL_VISITED ELSE @[o]]]

clean_up_segment_lists(x) ==
  LET old == [s \in Segs |->
                {o \in x.seg[s].with_cards: ~IS_OVERFLOW_OBJ(x, s, o)}]
      overflow == [s \in Segs |-> x.seg[s].with_cards \ old[s]]
      y == _reset_object_cards(_reset_object_cards(x, old, CARD_MARKED_OLD, FALSE),
                               overflow, CARD_CLEAR, FALSE)
      Clean(g) == [g EXCEPT
        !.open       = @ \ (IF g.pointing = NULL THEN {} ELSE g.pointing),
        !.pointing   = IF @ = NULL THEN NULL ELSE {},
        !.with_cards = {},
        !.overflow   = IF @ = NULL THEN NULL
                       ELSE {o \in @: x.write_locks[o] = WL_VISITED}]
  IN  [y EXCEPT !.seg = [s \in Segs |-> Clean(@[s])]]

\* Frees what is not marked and clears the marks.
sweep_large_objects(x) ==
  LET kept == {o \in x.used: x.write_locks[o] = WL_VISITED}
  IN  [x EXCEPT !.used = kept,
                !.total_allocated = @ - SizeOf(x.used \ kept),
                !.write_locks = [o \in Objs |->
                   IF o \in kept THEN 0 ELSE @[o]]]

LocksForgotten(x) == x                             \* faulty

major_restore_write_locks(x) ==
  LET Modified(o) == {s \in Segs: o \in x.seg[s].modified}
  IN  [x EXCEPT !.write_locks = [o \in Objs |->
         IF Modified(o) = {} THEN @[o] ELSE CHOOSE s \in Modified(o): TRUE]]

major_do_minor_collections(x) ==
  _do_minor_collection(x, {s \in Segs: ~MINOR_NOTHING_TO_DO(x, s)}, FALSE)

major_collection_now_at_safe_point(x) ==
  LET y == major_reshare_pages(major_do_minor_collections(x))
      reachable == public \union UNION {y.seg[s].mine \union y.seg[s].modified:
                                          s \in Segs}
  IN  major_restore_write_locks(sweep_large_objects(
        clean_up_segment_lists(MarkVisited(y, reachable))))

\* 1.82 times what is in use, at least GC_MIN.
NextBound(total) == LET bound == (total * 182) \div 100
                    IN  IF bound < GC_MIN THEN GC_MIN ELSE bound

-----------------------------------------------------------------------------
Init ==
  /\ sys = [mem |-> [t \in 0..NB_SEGMENTS |-> [o \in Objs |-> Zeroes(o)]],
            by_segment |-> [p \in 1..NB_PAGES |-> {}],
            write_locks |-> [o \in Objs |-> 0],
            cards |-> [o \in Objs |-> AllCards(o, CARD_CLEAR)],
            used |-> Prebuilt,
            number |-> [o \in Objs |-> 0],
            total_allocated |-> SizeOf(Prebuilt),
            seg |-> [s \in Segs |->
              [modified |-> {}, pointing |-> NULL, with_cards |-> {},
               overflow |-> NULL, young |-> {}, open |-> {},
               cards_set |-> {}, mine |-> {}, plain |-> {},
               overflow_number |-> s, number_used |-> FALSE]]]
  /\ privatization_lock = [s \in Segs |-> 0]
  /\ uninitialized_page_start = Max({LastPage(o): o \in Prebuilt}) + 1
  /\ mapped = 1..(uninitialized_page_start - 1)
  /\ lock_growth_large = 0
  /\ total_allocated_bound = NextBound(SizeOf(Prebuilt))
  /\ major_collection_requested = FALSE
  /\ highest_overflow_number = NB_SEGMENTS
  /\ pc = [s \in Segs |-> Idle]
  /\ public = Prebuilt
  /\ committed = [o \in Objs |-> Zeroes(o)]
  /\ own = [s \in Segs |-> [o \in Objs |-> Zeroes(o)]]
  /\ ops = 0

Running(s) == pc[s].k = "idle"
Begin == ops < MAX_OPS /\ ops' = ops + 1
Goto(s, step) == pc' = [pc EXCEPT ![s] = step]

\* Threads waiting for the mutex stop at a safe point once they have it.
OthersAtSafePoints(s) ==
  \A t \in Segs \ {s}: pc[t].k \in {"idle", "commit", "major"}

heap == <<sys, public, committed, own>>
locks == <<privatization_lock, lock_growth_large>>
growth == <<uninitialized_page_start, mapped>>
request == <<total_allocated_bound, major_collection_requested>>
numbers == <<highest_overflow_number>>

\* The second half of increment_total_allocated(): the compare.
Compared(total) ==
  /\ major_collection_requested' = (major_collection_requested
                                     \/ total >= total_allocated_bound)
  /\ UNCHANGED total_allocated_bound

\* What the program does after a barrier: it changes one cell.
ProgramWrites(x, s, o, c) ==
  LET base  == IF o \in x.seg[s].mine \/ o \in sys.seg[s].modified
               THEN own[s][o] ELSE committed[o]
      value == [base EXCEPT ![c] = 1 - @]
  IN  /\ sys' = Store(x, s, o, [View(x, s, o) EXCEPT ![c] = 1 - @])
      /\ own' = [own EXCEPT ![s][o] = value]

-----------------------------------------------------------------------------
(* Writing. *)

\* No slow path: the object is young, or its flag is already cleared.
stm_write(s, o, c) ==
  /\ Begin
  /\ Running(s)
  /\ o \in sys.seg[s].young \union sys.seg[s].open
  /\ o \in public \union sys.seg[s].mine
  /\ ProgramWrites(sys, s, o, c)
  /\ UNCHANGED <<locks, growth, request, numbers, pc, public, committed>>

MarkCard(x, o, c) == [x EXCEPT !.cards[o][c] = CARD_MARKED]

\* The end of the barrier on an old object and all of it on an overflow
\* one: the object enters a list for the next minor collection.
Barrier(x, s, o, c, mark_card) ==
  LET g == x.seg[s]
      overflow == IS_OVERFLOW_OBJ(x, s, o)
      own_card == [t \in {s} |-> {o}]
      y == IF o \notin g.cards_set THEN x
           ELSE IF overflow
                THEN _reset_object_cards(x, own_card, CARD_CLEAR, FALSE)
                ELSE _reset_object_cards(x, own_card, CARD_MARKED_OLD, TRUE)
  IN  IF mark_card
      THEN MarkCard([x EXCEPT !.seg[s].cards_set  = @ \union {o},
                              !.seg[s].with_cards = @ \union {o}], o, c)
      ELSE [y EXCEPT !.seg[s].open     = @ \union {o},
                     !.seg[s].pointing = IF @ = NULL THEN NULL ELSE @ \union {o},
                     !.seg[s].plain    = IF overflow THEN @ ELSE @ \union {o}]

\* An array that a transaction changed through one barrier is not changed
\* through the other one after a minor collection.
SameBarrier(s, o, mark_card) ==
  LET g == sys.seg[s]
  IN  \/ MIXED_BARRIERS
      \/ o \notin g.modified
      \/ IF mark_card THEN o \notin g.plain
                      ELSE o \in g.plain \union g.cards_set

NeedsBarrier(s, o) ==
  /\ Running(s)
  /\ o \in public \union sys.seg[s].mine
  /\ o \notin sys.seg[s].young \union sys.seg[s].open

write_slowpath_overflow_obj(s, o, c, mark_card) ==
  /\ Begin
  /\ NeedsBarrier(s, o)
  /\ IS_OVERFLOW_OBJ(sys, s, o) \/ (mark_card /\ o \in sys.seg[s].cards_set)
  /\ mark_card => o \in UsesCards
  /\ SameBarrier(s, o, mark_card) \/ IS_OVERFLOW_OBJ(sys, s, o)
  /\ ProgramWrites(Barrier(sys, s, o, c, mark_card), s, o, c)
  /\ UNCHANGED <<locks, growth, request, numbers, pc, public, committed>>

\* Takes the write lock of an old object; its pages come next.
write_slowpath_common(s, o, c, mark_card) ==
  /\ Begin
  /\ NeedsBarrier(s, o)
  /\ ~IS_OVERFLOW_OBJ(sys, s, o)
  /\ mark_card => o \in UsesCards \ sys.seg[s].cards_set
  /\ SameBarrier(s, o, mark_card)
  /\ sys.write_locks[o] \in {0, s}
  /\ sys' = [sys EXCEPT !.write_locks[o] = s,
                        !.seg[s].modified = @ \union {o}]
  /\ own' = IF sys.write_locks[o] = s THEN own
            ELSE [own EXCEPT ![s][o] = committed[o]]
  /\ Goto(s, [k |-> "page", o |-> o, c |-> c, card |-> mark_card,
               total |-> 0, page |-> NULL,
               todo |-> IF sys.write_locks[o] = s THEN <<>>
                        ELSE [i \in 1..(LastPage(o) - Layout[o][1] + 1) |->
                                Layout[o][1] + i - 1]])
  /\ UNCHANGED <<locks, growth, request, numbers, public, committed>>

\* All pages are private: the barrier ends and the program writes.
BarrierDone(s) ==
  /\ pc[s].k = "page" /\ pc[s].todo = <<>>
  /\ ProgramWrites(Barrier(sys, s, pc[s].o, pc[s].c, pc[s].card),
                   s, pc[s].o, pc[s].c)
  /\ Goto(s, Idle)
  /\ UNCHANGED <<ops, locks, growth, request, numbers, public, committed>>

\* page_privatize(): nothing to do for a page that is already private.
page_privatize(s) ==
  /\ pc[s].k = "page" /\ pc[s].todo # <<>>
  /\ Goto(s, IF is_private_page(sys, s, Head(pc[s].todo))
              THEN [pc[s] EXCEPT !.todo = Tail(@)]
              ELSE [pc[s] EXCEPT !.k = "lock"])
  /\ UNCHANGED <<ops, heap, locks, growth, request, numbers>>

OwnLockOnly(s) == <<s>>                            \* faulty
OwnLockFirst(s) ==                                 \* faulty
  [i \in Segs |-> IF i = 1 THEN s ELSE IF i <= s THEN i - 1 ELSE i]

\* The locks of all segments, always in the same order.
LockOrder(s) == [i \in Segs |-> i]

LocksHeld(s) == Cardinality({i \in Segs: privatization_lock[i] = s})

AcquirePrivatizationLock(s) ==
  LET i == LockOrder(s)[LocksHeld(s) + 1]
  IN  /\ pc[s].k = "lock"
      /\ privatization_lock[i] = 0
      /\ privatization_lock' = [privatization_lock EXCEPT ![i] = s]
      /\ Goto(s, IF LocksHeld(s) + 1 = Len(LockOrder(s))
                 THEN [pc[s] EXCEPT !.k = "bit"] ELSE pc[s])
      /\ UNCHANGED <<ops, heap, lock_growth_large, growth, request, numbers>>

\* The page is remapped: from here on the segment sees its own copy.
SetPrivateBit(s) ==
  /\ pc[s].k = "bit"
  /\ sys' = [sys EXCEPT !.by_segment[Head(pc[s].todo)] = @ \union {s},
                        !.total_allocated = @ + PAGE_SIZE]
  /\ Goto(s, [pc[s] EXCEPT !.k = "read", !.total = sys'.total_allocated])
  /\ UNCHANGED <<ops, locks, growth, request, numbers, public, committed, own>>

\* pagecopy() is not atomic: what was read is written by another step.
ReadSharedPage(s) ==
  /\ pc[s].k = "read"
  /\ Compared(pc[s].total)
  /\ Goto(s, [pc[s] EXCEPT !.k = "copy", !.page = sys.mem[0]])
  /\ UNCHANGED <<ops, heap, locks, growth, numbers>>

WritePrivatePage(s) ==
  /\ pc[s].k = "copy"
  /\ sys' = [sys EXCEPT !.mem[s] = [o \in Objs |-> [c \in Cells(o) |->
                IF Layout[o][c] = Head(pc[s].todo) THEN pc[s].page[o][c]
                ELSE @[o][c]]]]
  /\ Goto(s, [pc[s] EXCEPT !.k = "unlock", !.total = 0, !.page = NULL])
  /\ UNCHANGED <<ops, locks, growth, request, numbers, public, committed, own>>

ReleasePrivatizationLock(s) ==
  LET i == LockOrder(s)[LocksHeld(s)]
  IN  /\ pc[s].k = "unlock"
      /\ privatization_lock' = [privatization_lock EXCEPT ![i] = 0]
      /\ Goto(s, IF LocksHeld(s) = 1
                 THEN [pc[s] EXCEPT !.k = "page", !.todo = Tail(@)]
                 ELSE pc[s])
      /\ UNCHANGED <<ops, heap, lock_growth_large, growth, request, numbers>>

-----------------------------------------------------------------------------
(* Allocating: _stm_allocate_external().                                   *)

\* largemalloc.c finds a free address and counts the memory.
allocate_outside_nursery_large(s, o) ==
  /\ Begin
  /\ Running(s)
  /\ o \notin sys.used
  /\ sys' = [sys EXCEPT !.used = @ \union {o}, !.number[o] = 0,
                        !.total_allocated = @ + SizeOf({o})]
  /\ Goto(s, [k |-> "new", o |-> o, total |-> sys'.total_allocated])
  /\ UNCHANGED <<locks, growth, request, numbers, public, committed, own>>

\* The memory of the new object is cleared and it enters the young ones.
NewObject(s, o) ==
  /\ sys' = Store([sys EXCEPT !.seg[s].young = @ \union {o},
                              !.seg[s].mine  = @ \union {o}], s, o, Zeroes(o))
  /\ own' = [own EXCEPT ![s][o] = Zeroes(o)]
  /\ Goto(s, Idle)

\* Common case: the object ends before the first page not yet mapped.
PagesExist(s) ==
  /\ pc[s].k = "new"
  /\ LastPage(pc[s].o) < uninitialized_page_start
  /\ Compared(pc[s].total)
  /\ NewObject(s, pc[s].o)
  /\ UNCHANGED <<ops, locks, growth, numbers, public, committed>>

MorePagesNeeded(s) ==
  /\ pc[s].k = "new"
  /\ LastPage(pc[s].o) >= uninitialized_page_start
  /\ Compared(pc[s].total)
  /\ Goto(s, [pc[s] EXCEPT !.k = "wait"])
  /\ UNCHANGED <<ops, heap, locks, growth, numbers>>

AcquireGrowthLock(s) ==
  /\ pc[s].k = "wait"
  /\ lock_growth_large = 0
  /\ lock_growth_large' = s
  /\ Goto(s, [pc[s] EXCEPT !.k = "grow"])
  /\ UNCHANGED <<ops, heap, privatization_lock, growth, request, numbers>>

\* With the lock: another thread may have mapped the pages meanwhile.
Extent(s) == LastPage(pc[s].o) - uninitialized_page_start + 1 + GCPAGE_NUM_PAGES

setup_N_pages(s) ==
  /\ pc[s].k = "grow"
  /\ IF LastPage(pc[s].o) >= uninitialized_page_start
     THEN /\ uninitialized_page_start + Extent(s) <= NB_PAGES + 1
          /\ mapped' = mapped \union
                uninitialized_page_start..(uninitialized_page_start + Extent(s) - 1)
          /\ Goto(s, [pc[s] EXCEPT !.k = "mapped"])
          /\ UNCHANGED <<heap, lock_growth_large>>
     ELSE /\ lock_growth_large' = 0
          /\ NewObject(s, pc[s].o)
          /\ UNCHANGED <<mapped, public, committed>>
  /\ UNCHANGED <<ops, privatization_lock, uninitialized_page_start, request, numbers>>

\* Only now do others take the short path.
PagesMapped(s) ==
  /\ pc[s].k = "mapped"
  /\ uninitialized_page_start' = uninitialized_page_start + Extent(s)
  /\ lock_growth_large' = 0
  /\ NewObject(s, pc[s].o)
  /\ UNCHANGED <<ops, privatization_lock, mapped, request, numbers, public, committed>>

\* The program forgets one of its own objects.
PopRoot(s, o) ==
  /\ Begin
  /\ Running(s)
  /\ o \in sys.seg[s].mine
  /\ sys' = [sys EXCEPT !.seg[s].mine = @ \ {o}]
  /\ UNCHANGED <<locks, growth, request, numbers, pc, public, committed, own>>

\* A committed object becomes unreachable.
Unlink(o) ==
  /\ Begin
  /\ o \in public
  /\ \A s \in Segs: o \notin sys.seg[s].modified /\ Running(s)
  /\ public' = public \ {o}
  /\ UNCHANGED <<sys, locks, growth, request, numbers, pc, committed, own>>

-----------------------------------------------------------------------------
(* The end of a transaction. *)

\* stm_commit_transaction(): the minor collection.  Its survivors and the
\* overflow objects go to the other segments, without the mutex.
MinorAtCommit(s) ==
  LET g == sys.seg[s]
  IN  /\ Begin
      /\ Running(s)
      /\ sys' = _do_minor_collection(sys, {s}, TRUE)
      /\ Goto(s, [k |-> "push",
                  todo |-> (g.young \intersect g.mine) \union
                           (IF g.overflow = NULL THEN {} ELSE g.overflow)])
      /\ UNCHANGED <<locks, growth, request, numbers, public, committed, own>>

acquire_privatization_lock(s) ==
  /\ pc[s].k = "push" /\ pc[s].todo # {}
  /\ privatization_lock[s] = 0
  /\ privatization_lock' = [privatization_lock EXCEPT ![s] = s]
  /\ Goto(s, [pc[s] EXCEPT !.k = "pushing"])
  /\ UNCHANGED <<ops, heap, lock_growth_large, growth, request, numbers>>

push_overflow_objects_from_privatized_pages(s) ==
  /\ pc[s].k = "pushing"
  /\ \E o \in pc[s].todo:
       /\ sys' = synchronize_object_now(sys, s, {o}, TRUE)
       /\ Goto(s, [pc[s] EXCEPT !.todo = @ \ {o}])
  /\ UNCHANGED <<ops, locks, growth, request, numbers, public, committed, own>>

release_privatization_lock(s) ==
  /\ pc[s].k \in {"push", "pushing"} /\ pc[s].todo = {}
  /\ privatization_lock' = [privatization_lock EXCEPT
       ![s] = IF pc[s].k = "pushing" THEN 0 ELSE @]
  /\ Goto(s, [k |-> "commit"])
  /\ UNCHANGED <<ops, heap, lock_growth_large, growth, request, numbers>>

\* The numbers of overflow objects are not used again.
OverflowNumber(x, s) ==
  IF x.seg[s].number_used
  THEN [x EXCEPT !.seg[s].overflow_number = highest_overflow_number + 1,
                 !.seg[s].number_used = FALSE]
  ELSE x

\* The rest of the commit, with the mutex and all other threads paused.
stm_commit_transaction(s) ==
  LET collect == major_collection_requested
      x == IF collect THEN major_collection_now_at_safe_point(sys) ELSE sys
      written == sys.seg[s].modified \union sys.seg[s].mine
  IN  /\ pc[s].k = "commit"
      /\ OthersAtSafePoints(s)
      /\ sys' = Finished(OverflowNumber(push_modified_to_other_segments(x, s), s), {s})
      /\ highest_overflow_number' =
           highest_overflow_number + (IF sys.seg[s].number_used THEN 1 ELSE 0)
      /\ total_allocated_bound' = IF collect THEN NextBound(x.total_allocated)
                                  ELSE total_allocated_bound
      /\ major_collection_requested' = FALSE
      /\ public' = public \union sys.seg[s].mine
      /\ committed' = [o \in Objs |-> IF o \in written THEN own[s][o]
                                      ELSE committed[o]]
      /\ own' = [own EXCEPT ![s] = [o \in Objs |-> Zeroes(o)]]
      /\ Goto(s, Idle)
      /\ UNCHANGED <<ops, locks, growth>>

Forget(s) == own' = [own EXCEPT ![s] = [o \in Objs |-> Zeroes(o)]]

\* By the thread itself, or by another one while it is at a safe point.
abort_with_mutex(s) ==
  /\ Begin
  /\ pc[s].k \in {"idle", "commit", "major"}
  /\ sys' = abort_data_structures_from_segment_num(sys, {s})
  /\ Forget(s)
  /\ Goto(s, Idle)
  /\ UNCHANGED <<locks, growth, request, numbers, public, committed>>

-----------------------------------------------------------------------------
(* Collecting. *)

\* stm_collect(level): a minor collection, then a major one if requested.
stm_collect(s, level) ==
  /\ Begin
  /\ Running(s)
  /\ sys' = _do_minor_collection(sys, {s}, FALSE)
  /\ major_collection_requested' = (major_collection_requested \/ level > 0)
  /\ Goto(s, IF major_collection_requested' THEN [k |-> "major"] ELSE Idle)
  /\ UNCHANGED <<locks, growth, total_allocated_bound, numbers,
                 public, committed, own>>

\* Another thread may have collected while this one waited for the mutex.
major_collection_if_requested(s) ==
  /\ pc[s].k = "major"
  /\ OthersAtSafePoints(s)
  /\ IF major_collection_requested
     THEN /\ sys' = major_collection_now_at_safe_point(sys)
          /\ total_allocated_bound' = NextBound(sys'.total_allocated)
          /\ major_collection_requested' = FALSE
     ELSE UNCHANGED <<sys, request>>
  /\ Goto(s, Idle)
  /\ UNCHANGED <<ops, locks, growth, numbers, public, committed, own>>

-----------------------------------------------------------------------------
(* fork(): the child has a copy of the pages and only the forking thread.  *)

\* forksupport_prepare(): the shared page, and the private copies of the
\* segments that have one.
BigCopy(x) ==
  [x EXCEPT !.mem = [t \in 0..NB_SEGMENTS |-> [o \in Objs |-> [c \in Cells(o) |->
     IF t = 0 \/ is_private_page(x, t, Layout[o][c]) THEN @[t][o][c] ELSE 0]]]]

\* forksupport_child(): the copy takes the place of the pages; the
\* transactions of the threads that are gone are undone.
forksupport_child(s) ==
  /\ Begin
  /\ Running(s)
  /\ \A t \in Segs \ {s}: Running(t)
  /\ sys' = abort_data_structures_from_segment_num(BigCopy(sys), Segs \ {s})
  /\ own' = [t \in Segs |-> IF t = s THEN own[t] ELSE [o \in Objs |-> Zeroes(o)]]
  /\ UNCHANGED <<locks, growth, request, numbers, pc, public, committed>>

-----------------------------------------------------------------------------
Next ==
  \/ \E s \in Segs, o \in Objs: \E c \in Cells(o): stm_write(s, o, c)
  \/ \E s \in Segs, o \in Objs, card \in BOOLEAN: \E c \in Cells(o):
       write_slowpath_overflow_obj(s, o, c, card)
  \/ \E s \in Segs, o \in Objs, card \in BOOLEAN: \E c \in Cells(o):
       write_slowpath_common(s, o, c, card)
  \/ \E s \in Segs: BarrierDone(s)
  \/ \E s \in Segs: page_privatize(s)
  \/ \E s \in Segs: AcquirePrivatizationLock(s)
  \/ \E s \in Segs: SetPrivateBit(s)
  \/ \E s \in Segs: ReadSharedPage(s)
  \/ \E s \in Segs: WritePrivatePage(s)
  \/ \E s \in Segs: ReleasePrivatizationLock(s)
  \/ \E s \in Segs, o \in Objs: allocate_outside_nursery_large(s, o)
  \/ \E s \in Segs: PagesExist(s)
  \/ \E s \in Segs: MorePagesNeeded(s)
  \/ \E s \in Segs: AcquireGrowthLock(s)
  \/ \E s \in Segs: setup_N_pages(s)
  \/ \E s \in Segs: PagesMapped(s)
  \/ \E s \in Segs, o \in Objs: PopRoot(s, o)
  \/ \E o \in Objs: Unlink(o)
  \/ \E s \in Segs: MinorAtCommit(s)
  \/ \E s \in Segs: acquire_privatization_lock(s)
  \/ \E s \in Segs: push_overflow_objects_from_privatized_pages(s)
  \/ \E s \in Segs: release_privatization_lock(s)
  \/ \E s \in Segs: stm_commit_transaction(s)
  \/ \E s \in Segs: abort_with_mutex(s)
  \/ \E s \in Segs, level \in 0..1: stm_collect(s, level)
  \/ \E s \in Segs: major_collection_if_requested(s)
  \/ \E s \in Segs: forksupport_child(s)

Spec == Init /\ [][Next]_vars

-----------------------------------------------------------------------------
(* Properties. *)

\* Between the remapping of a page and its copy the segment's own view of
\* the page is not defined.
Copying(s, o) == /\ pc[s].k \in {"read", "copy"}
                 /\ Head(pc[s].todo) \in Range(Layout[o])

\* Every segment sees what its transaction wrote and, for all other
\* objects, the last committed version, through whatever mixture of shared
\* and private pages: after privatization concurrent with the pushing of
\* objects, card-wise copies, aborts, re-sharing and fork().
SegmentsAgree ==
  \A s \in Segs:
    /\ \A o \in sys.seg[s].modified \union sys.seg[s].mine:
         Copying(s, o) \/ View(sys, s, o) = own[s][o]
    /\ \A o \in public \ sys.seg[s].modified:
         Copying(s, o) \/ View(sys, s, o) = committed[o]

\* write_locks[] says who modified which object, also after a major
\* collection wrote its marks there: in particular nothing stays marked.
LocksMatchLists ==
  \A o \in Objs: sys.write_locks[o] =
    IF \E s \in Segs: o \in sys.seg[s].modified
    THEN CHOOSE s \in Segs: o \in sys.seg[s].modified ELSE 0

\* total_allocated counts the objects and the private pages, and when it
\* reaches its bound a major collection is requested (by now, or by the
\* thread that is about to compare the two).
MemoryIsAccounted ==
  /\ sys.total_allocated = SizeOf(sys.used) + PAGE_SIZE * PrivateCopies(sys)
  /\ \/ sys.total_allocated < total_allocated_bound
     \/ major_collection_requested
     \/ \E s \in Segs: pc[s].k \in {"new", "read"}

\* A thread that privatizes a page takes the privatization locks of all
\* segments, one that pushes its objects takes its own: no two of them ever
\* wait for each other.
NoCircularWait ==
  LET Waits(s) == pc[s].k = "lock" \/ (pc[s].k = "push" /\ pc[s].todo # {})
      Wanted(s) == IF pc[s].k = "push" THEN s ELSE LockOrder(s)[LocksHeld(s) + 1]
  IN  \A S \in (SUBSET Segs) \ {{}}: ~ \A s \in S:
        Waits(s) /\ privatization_lock[Wanted(s)] \in S
=============================================================================
