---------------------------- MODULE PagesMemory ----------------------------
(* The memory that Pages counts, for any number of segments, objects and   *)
(* pages: total_allocated is the cells of the objects in use and a page    *)
(* for each private copy, whatever is allocated, freed or shared again.    *)
EXTENDS PagesAgree

-----------------------------------------------------------------------------
(* Counting cells.                                                         *)

\* A number of objects has a number of cells.
LEMMA CellsFinite ==
  ASSUME NEW S \in SUBSET Objs, IsFiniteSet(S)
  PROVE  IsFiniteSet(CellsOf(S)) /\ SizeOf(S) \in Nat
  <1> DEFINE cells(o) == {o} \X Cells(o)
             T == {cells(o): o \in S}
             f == [o \in S |-> cells(o)]
  <1>1. ASSUME NEW o \in S
        PROVE  IsFiniteSet(cells(o))
    <2>1. Layout[o] \in Seq(1..NB_PAGES)
      BY PagesAssumption
    <2>2. Len(Layout[o]) \in Nat /\ Cells(o) = 1..Len(Layout[o])
      BY <2>1, LenProperties DEF Cells
    <2>3. IsFiniteSet(Cells(o))
      BY <2>2, FS_Interval
    <2> QED BY <2>3, FS_Product, FS_Singleton
  <1> HIDE DEF cells
  <1>2. f \in Surjection(S, T)
    BY DEF Surjection
  <1> HIDE DEF f
  <1>3. IsFiniteSet(T)
    BY <1>2, FS_Surjection
  <1>4. \A t \in T: IsFiniteSet(t)
    BY <1>1
  <1>5. IsFiniteSet(UNION T)
    BY <1>3, <1>4, FS_UNION
  <1>6. CellsOf(S) = UNION T
    BY DEF CellsOf, cells
  <1> QED BY <1>5, <1>6, FS_CardinalityType DEF SizeOf

\* Objects that are freed take their cells with them.
LEMMA FewerCells ==
  ASSUME NEW S \in SUBSET Objs, IsFiniteSet(S), NEW T \in SUBSET S
  PROVE  /\ IsFiniteSet(S \ T)
         /\ SizeOf(S \ T) = SizeOf(S) - SizeOf(T)
  <1>1. IsFiniteSet(CellsOf(S)) /\ IsFiniteSet(S \ T)
    BY CellsFinite, FS_Difference
  <1>2. CellsOf(S \ T) = CellsOf(S) \ CellsOf(T)
    BY DEF CellsOf
  <1>3. CellsOf(S) \intersect CellsOf(T) = CellsOf(T)
    BY DEF CellsOf
  <1>4. Cardinality(CellsOf(S) \ CellsOf(T)) = Cardinality(CellsOf(S)) - Cardinality(CellsOf(T))
    BY <1>1, <1>3, FS_Difference
  <1> QED BY <1>1, <1>2, <1>4 DEF SizeOf

\* A new object brings its own.
LEMMA MoreCells ==
  ASSUME NEW S \in SUBSET Objs, IsFiniteSet(S), NEW o \in Objs, o \notin S
  PROVE  /\ IsFiniteSet(S \union {o})
         /\ SizeOf(S \union {o}) = SizeOf(S) + SizeOf({o})
  <1> DEFINE T == S \union {o}
  <1>1. IsFiniteSet(T) /\ T \in SUBSET Objs /\ {o} \in SUBSET T /\ {o} \in SUBSET Objs
        /\ IsFiniteSet({o})
    BY FS_AddElement, FS_Singleton
  <1>2. T \ {o} = S
    OBVIOUS
  <1> HIDE DEF T
  <1>3. SizeOf(T \ {o}) = SizeOf(T) - SizeOf({o})
    BY <1>1, FewerCells
  <1>4. SizeOf(T) \in Nat /\ SizeOf({o}) \in Nat /\ SizeOf(S) \in Nat
    BY <1>1, CellsFinite
  <1>5. SizeOf(T \ {o}) = SizeOf(S)
    BY Zenon, <1>2
  <1>6. IsFiniteSet(T) /\ SizeOf(T) = SizeOf(S) + SizeOf({o})
    BY <1>1, <1>3, <1>4, <1>5
  <1> QED BY <1>6 DEF T

-----------------------------------------------------------------------------
(* Counting private copies.                                                *)

Copies(x) == {r \in (1..NB_PAGES) \X Segs: is_private_page(x, r[2], r[1])}

\* There is a number of them, and so much memory is counted for them.
LEMMA CopiesFinite ==
  ASSUME NEW x
  PROVE  /\ IsFiniteSet(Copies(x)) /\ PrivateCopies(x) = Cardinality(Copies(x))
         /\ PrivateCopies(x) \in Nat /\ PAGE_SIZE * PrivateCopies(x) \in Nat
  <1>1. IsFiniteSet(1..NB_PAGES) /\ IsFiniteSet(Segs)
    BY PagesAssumption, FS_Interval DEF Segs
  <1>2. IsFiniteSet((1..NB_PAGES) \X Segs)
    BY <1>1, FS_Product
  <1>3. IsFiniteSet(Copies(x))
    BY <1>2, FS_Subset DEF Copies
  <1>4. PrivateCopies(x) = Cardinality(Copies(x)) /\ PrivateCopies(x) \in Nat
    BY <1>3, FS_CardinalityType DEF PrivateCopies, Copies
  <1>5. PAGE_SIZE \in Nat
    BY PagesAssumption
  <1>6. \A m, n \in Nat: m * n \in Nat
    OBVIOUS
  <1> QED BY <1>3, <1>4, <1>5, <1>6

\* The page size counts for each of them.
LEMMA PagesOfSum ==
  ASSUME NEW m \in Nat, NEW n \in Nat
  PROVE  /\ PAGE_SIZE * (m + n) = PAGE_SIZE * m + PAGE_SIZE * n
         /\ PAGE_SIZE * 1 = PAGE_SIZE
  <1>1. PAGE_SIZE \in Nat
    BY PagesAssumption
  <1>2. \A k \in Nat: k * (m + n) = k * m + k * n /\ k * 1 = k
    OBVIOUS
  <1> QED BY <1>1, <1>2

\* A page that becomes private to one more segment.
LEMMA OneMoreCopy ==
  ASSUME NEW x, NEW y, NEW p \in 1..NB_PAGES, NEW s \in Segs, s \notin x.by_segment[p],
         \A q \in 1..NB_PAGES: y.by_segment[q] =
           IF q = p THEN x.by_segment[q] \union {s} ELSE x.by_segment[q]
  PROVE  PAGE_SIZE * PrivateCopies(y) = PAGE_SIZE * PrivateCopies(x) + PAGE_SIZE
  <1>1. \A r \in (1..NB_PAGES) \X Segs: r \in Copies(y) <=> r \in Copies(x) \/ r = <<p, s>>
    <2> SUFFICES ASSUME NEW q \in 1..NB_PAGES, NEW t \in Segs
                 PROVE  <<q, t>> \in Copies(y) <=> <<q, t>> \in Copies(x) \/ <<q, t>> = <<p, s>>
      OBVIOUS
    <2> QED BY DEF Copies, is_private_page
  <1>2. Copies(y) = Copies(x) \union {<<p, s>>} /\ <<p, s>> \notin Copies(x)
    <2>1. Copies(y) \subseteq (1..NB_PAGES) \X Segs /\ Copies(x) \subseteq (1..NB_PAGES) \X Segs
      BY DEF Copies
    <2>2. <<p, s>> \notin Copies(x)
      BY DEF Copies, is_private_page
    <2> QED BY <1>1, <2>1, <2>2
  <1>3. Cardinality(Copies(y)) = Cardinality(Copies(x)) + 1
    BY <1>2, CopiesFinite, FS_AddElement
  <1>4. PrivateCopies(y) = PrivateCopies(x) + 1 /\ PrivateCopies(x) \in Nat
    BY <1>3, CopiesFinite
  <1> QED BY <1>4, PagesOfSum

\* Private copies of which some are dropped and the others kept.
LEMMA CopiesSplit ==
  ASSUME NEW x, NEW y, NEW z,
         \A p \in 1..NB_PAGES: \A s \in Segs:
           /\ s \in x.by_segment[p] <=> s \in y.by_segment[p] \/ s \in z.by_segment[p]
           /\ s \notin y.by_segment[p] \/ s \notin z.by_segment[p]
  PROVE  PAGE_SIZE * PrivateCopies(x) =
           PAGE_SIZE * PrivateCopies(y) + PAGE_SIZE * PrivateCopies(z)
  <1>1. \A r \in (1..NB_PAGES) \X Segs:
          /\ r \in Copies(x) <=> r \in Copies(y) \/ r \in Copies(z)
          /\ r \notin Copies(y) \/ r \notin Copies(z)
    <2> SUFFICES ASSUME NEW q \in 1..NB_PAGES, NEW t \in Segs
                 PROVE  /\ <<q, t>> \in Copies(x) <=> <<q, t>> \in Copies(y) \/ <<q, t>> \in Copies(z)
                        /\ <<q, t>> \notin Copies(y) \/ <<q, t>> \notin Copies(z)
      OBVIOUS
    <2> QED BY DEF Copies, is_private_page
  <1>2. Copies(x) = Copies(y) \union Copies(z) /\ Copies(y) \intersect Copies(z) = {}
    <2>1. \A w: Copies(w) \subseteq (1..NB_PAGES) \X Segs
      BY DEF Copies
    <2> QED BY <1>1, <2>1
  <1>3. /\ IsFiniteSet(Copies(y)) /\ IsFiniteSet(Copies(z))
        /\ \A w \in {x, y, z}: PrivateCopies(w) = Cardinality(Copies(w)) /\ PrivateCopies(w) \in Nat
    BY CopiesFinite
  <1>4. Cardinality(Copies(x)) = Cardinality(Copies(y)) + Cardinality(Copies(z)) - 0
    <2>1. Cardinality(Copies(y) \union Copies(z)) =
            Cardinality(Copies(y)) + Cardinality(Copies(z)) - Cardinality({})
      BY <1>2, <1>3, FS_Union
    <2> QED BY <1>2, <2>1, FS_EmptySet
  <1>5. PrivateCopies(x) = PrivateCopies(y) + PrivateCopies(z)
    BY <1>3, <1>4
  <1> QED BY <1>3, <1>5, PagesOfSum

-----------------------------------------------------------------------------
(* What the operations do to the accounts.                                 *)

\* The first half of MemoryIsAccounted, of objects that can be counted.
Accounted(x) ==
  /\ x.used \in SUBSET Objs /\ IsFiniteSet(x.used)
  /\ x.total_allocated = SizeOf(x.used) + PAGE_SIZE * PrivateCopies(x)

\* What neither allocates nor privatizes.
LEMMA SameAccounts ==
  ASSUME NEW x, NEW y, Accounted(x), y.used = x.used, y.by_segment = x.by_segment,
         y.total_allocated = x.total_allocated
  PROVE  Accounted(y)
  <1>1. PrivateCopies(y) = PrivateCopies(x)
    BY DEF PrivateCopies, is_private_page
  <1> QED BY <1>1 DEF Accounted

\* The total is a number.
LEMMA TotalIsNumber ==
  ASSUME NEW x, Accounted(x)
  PROVE  x.total_allocated \in Nat
  <1>1. SizeOf(x.used) \in Nat
    BY CellsFinite DEF Accounted
  <1>2. PAGE_SIZE * PrivateCopies(x) \in Nat
    BY CopiesFinite
  <1> HIDE DEF PrivateCopies
  <1> QED BY <1>1, <1>2 DEF Accounted

\* Objects that are freed, and nothing else.
LEMMA FreedAccounts ==
  ASSUME NEW x, NEW y, Accounted(x), NEW dead \in SUBSET x.used, y.used = x.used \ dead,
         y.by_segment = x.by_segment, y.total_allocated = x.total_allocated - SizeOf(dead)
  PROVE  Accounted(y) /\ y.total_allocated <= x.total_allocated
  <1>1. PrivateCopies(y) = PrivateCopies(x)
    BY DEF PrivateCopies, is_private_page
  <1>2. x.used \in SUBSET Objs /\ IsFiniteSet(x.used)
    BY DEF Accounted
  <1>3. /\ IsFiniteSet(x.used \ dead)
        /\ SizeOf(x.used \ dead) = SizeOf(x.used) - SizeOf(dead)
    BY <1>2, FewerCells
  <1>4. SizeOf(x.used) \in Nat /\ SizeOf(dead) \in Nat
    BY <1>2, CellsFinite, FS_Subset
  <1>5. PAGE_SIZE * PrivateCopies(x) \in Nat
    BY CopiesFinite
  <1>6. x.total_allocated = SizeOf(x.used) + PAGE_SIZE * PrivateCopies(x)
    BY DEF Accounted
  <1>7. y.total_allocated = SizeOf(y.used) + PAGE_SIZE * PrivateCopies(y)
    <2> DEFINE m == SizeOf(x.used)
               n == SizeOf(dead)
               k == PAGE_SIZE * PrivateCopies(x)
    <2>1. m \in Nat /\ n \in Nat /\ k \in Nat
      BY <1>4, <1>5
    <2>2. x.total_allocated = m + k /\ SizeOf(y.used) = m - n
          /\ PAGE_SIZE * PrivateCopies(y) = k /\ y.total_allocated = x.total_allocated - n
      BY <1>1, <1>3, <1>6
    <2> HIDE DEF m, n, k
    <2> QED BY <2>1, <2>2
  <1>8. y.total_allocated <= x.total_allocated
    BY <1>4, TotalIsNumber
  <1> QED BY <1>2, <1>3, <1>7, <1>8 DEF Accounted

\* throw_away_nursery().
LEMMA ThrownAccounts ==
  ASSUME NEW x, Shape(x), Accounted(x), NEW S, \A s \in S: x.seg[s].young \subseteq x.used
  PROVE  LET y == throw_away_nursery(x, S)
         IN  Accounted(y) /\ y.total_allocated <= x.total_allocated
  <1> DEFINE y == throw_away_nursery(x, S)
             dead == UNION {x.seg[s].young: s \in S}
  <1>1. /\ y.used = x.used \ dead /\ y.by_segment = x.by_segment
        /\ y.total_allocated = x.total_allocated - SizeOf(dead)
    BY DEF throw_away_nursery, Shape, IsHeap, Fields
  <1>2. dead \in SUBSET x.used
    OBVIOUS
  <1> HIDE DEF y, dead
  <1>3. Accounted(y) /\ y.total_allocated <= x.total_allocated
    BY <1>1, <1>2, FreedAccounts
  <1> QED BY <1>3 DEF y

Thrown(x, S, commit, z) ==
  /\ _do_minor_collection(x, S, commit) = throw_away_nursery(z, S)
  /\ DOMAIN z = DOMAIN x /\ z.used = x.used /\ z.by_segment = x.by_segment
  /\ z.total_allocated = x.total_allocated
  /\ \A s \in S: z.seg[s].young \subseteq x.seg[s].young

\* _do_minor_collection() throws away the nursery of a heap like the given
\* one.
LEMMA MinorThrows ==
  ASSUME NEW x, Shape(x), NEW S \in SUBSET Segs, NEW commit \in BOOLEAN
  PROVE  \E z: Thrown(x, S, commit, z)
  <1> DEFINE alive(g) == g.young \intersect g.mine
             After(g) == [g EXCEPT
               !.open     = @ \ (IF g.pointing = NULL THEN g.modified ELSE g.pointing),
               !.pointing = {},
               !.young    = @ \ alive(g),
               !.number_used = @ \/ ~commit,
               !.overflow = IF commit THEN @
                            ELSE alive(g) \union (IF @ = NULL THEN {} ELSE @)]
             c == collect_cardrefs_to_nursery(x, S)
             Survives(o) == {s \in S: o \in alive(x.seg[s])}
             number == [o \in Objs |-> IF commit \/ Survives(o) = {} THEN x.number[o]
                              ELSE x.seg[CHOOSE s \in Survives(o): TRUE].overflow_number]
             seg == [s \in Segs |-> IF s \in S THEN After(c.seg[s]) ELSE c.seg[s]]
             z == [c EXCEPT !.number = number, !.seg = seg]
  <1>1. /\ Shape(c) /\ SameBut(x, c, {"cards", "seg"})
        /\ \A s \in Segs: SameListsBut(x, c, s, {"with_cards", "cards_set"})
    BY TracedEffect
  <1>2. _do_minor_collection(x, S, commit) = throw_away_nursery(z, S)
    <2>1. c.number = x.number
      BY <1>1 DEF SameBut, Fields
    <2> QED BY <2>1 DEF _do_minor_collection
  <1> HIDE DEF c
  <1>3. SameBut(c, z, {"number", "seg"}) /\ z.seg = seg
    <2> HIDE DEF number, seg
    <2> QED BY <1>1 DEF Shape, IsHeap, SameBut, Fields
  <1>4. ASSUME NEW s \in S
        PROVE  z.seg[s].young \subseteq x.seg[s].young
    <2>1. z.seg[s] = After(c.seg[s])
      BY <1>3
    <2>2. "young" \in DOMAIN c.seg[s] /\ c.seg[s].young = x.seg[s].young
      BY <1>1 DEF Shape, IsHeap, SameListsBut, ListFields
    <2> DEFINE g == c.seg[s]
    <2> HIDE DEF g, z
    <2>3. "young" \in DOMAIN g => After(g).young = g.young \ alive(g)
      OBVIOUS
    <2> QED BY <2>1, <2>2, <2>3 DEF g
  <1> HIDE DEF z
  <1>5. /\ DOMAIN z = DOMAIN x /\ z.used = x.used /\ z.by_segment = x.by_segment
        /\ z.total_allocated = x.total_allocated
    BY <1>1, <1>3 DEF SameBut, Fields
  <1>6. Thrown(x, S, commit, z)
    BY <1>2, <1>4, <1>5 DEF Thrown
  <1> QED BY <1>6

\* So it keeps the accounts.
LEMMA MinorAccounts ==
  ASSUME NEW x, Shape(x), Accounted(x), NEW S \in SUBSET Segs, NEW commit \in BOOLEAN,
         \A s \in S: x.seg[s].young \subseteq x.used
  PROVE  LET y == _do_minor_collection(x, S, commit)
         IN  Accounted(y) /\ y.total_allocated <= x.total_allocated
  <1>0. PICK z: Thrown(x, S, commit, z)
    BY MinorThrows
  <1>1. /\ _do_minor_collection(x, S, commit) = throw_away_nursery(z, S)
        /\ DOMAIN z = DOMAIN x /\ z.used = x.used /\ z.by_segment = x.by_segment
        /\ z.total_allocated = x.total_allocated
        /\ \A s \in S: z.seg[s].young \subseteq x.seg[s].young
    BY <1>0 DEF Thrown
  <1> DEFINE y == throw_away_nursery(z, S)
             dead == UNION {z.seg[s].young: s \in S}
  <1>2. {"used", "total_allocated", "seg", "by_segment"} \subseteq DOMAIN z
    BY <1>1 DEF Shape, IsHeap, Fields
  <1>3. /\ y.used = z.used \ dead /\ y.by_segment = z.by_segment
        /\ y.total_allocated = z.total_allocated - SizeOf(dead)
    BY <1>2 DEF throw_away_nursery
  <1>4. dead \in SUBSET z.used
    BY <1>1
  <1>5. Accounted(z)
    BY <1>1, SameAccounts
  <1> HIDE DEF y, dead
  <1>6. Accounted(y) /\ y.total_allocated <= z.total_allocated
    BY <1>3, <1>4, <1>5, FreedAccounts
  <1> QED BY <1>1, <1>6 DEF y

\* abort_data_structures_from_segment_num().
LEMMA AbortAccounts ==
  ASSUME NEW x, Shape(x), Accounted(x), NEW S \in SUBSET Segs,
         \A s \in S: x.seg[s].young \subseteq x.used
  PROVE  LET y == abort_data_structures_from_segment_num(x, S)
         IN  Accounted(y) /\ y.total_allocated <= x.total_allocated
  <1> DEFINE marked(g) == IF g.overflow = NULL THEN {}
                          ELSE g.overflow \intersect g.cards_set
             arrays == [s \in S |-> marked(x.seg[s])
                                      \union (x.seg[s].modified \intersect UsesCards)]
             a == throw_away_nursery(x, S)
             b == _reset_object_cards(a, arrays, CARD_CLEAR, FALSE)
             c == reset_modified_from_other_segments(b, S)
             y == Finished(c, S)
  <1>1. Accounted(a) /\ a.total_allocated <= x.total_allocated
    BY ThrownAccounts
  <1>2. Shape(a)
    BY ThrownEffect
  <1>3. y = abort_data_structures_from_segment_num(x, S)
    BY DEF abort_data_structures_from_segment_num
  <1> HIDE DEF a, arrays
  <1>4. Shape(b) /\ b.used = a.used /\ b.by_segment = a.by_segment
        /\ b.total_allocated = a.total_allocated
    <2>1. CardsReset(a, arrays, CARD_CLEAR, FALSE, b)
      BY <1>2, ResetEffect
    <2> HIDE DEF b
    <2> QED BY <2>1 DEF CardsReset, SameBut, Fields
  <1> HIDE DEF b
  <1>5. Shape(c) /\ c.used = b.used /\ c.by_segment = b.by_segment
        /\ c.total_allocated = b.total_allocated
    BY <1>4, UndoneEffect DEF SameBut, Fields
  <1> HIDE DEF c
  <1>6. y.used = c.used /\ y.by_segment = c.by_segment /\ y.total_allocated = c.total_allocated
    BY <1>5, FinishedEffect DEF SameBut, Fields
  <1> HIDE DEF y
  <1>7. Accounted(y) /\ y.total_allocated <= x.total_allocated
    BY <1>1, <1>4, <1>5, <1>6, SameAccounts
  <1> QED BY <1>3, <1>7

\* major_reshare_pages(): the copies that are dropped are not counted any
\* more, the ones whose bits were hidden are.
LEMMA ReshareAccounts ==
  ASSUME NEW x, Shape(x), Accounted(x),
         \A s \in Segs: \A p \in 1..NB_PAGES: p \in ModifiedPages(x, s) => s \in x.by_segment[p]
  PROVE  Accounted(major_reshare_pages(x))
  <1> DEFINE a == major_hide_private_bits_for_modified_objects(x)
             b == copy_object_to_shared(a)
             c == page_reshare(b)
             y == major_restore_private_bits_for_modified_objects(c)
  <1>0. y = major_reshare_pages(x)
    BY DEF major_reshare_pages
  <1>1. /\ Shape(a) /\ SameBut(x, a, {"by_segment"})
        /\ \A p \in 1..NB_PAGES: a.by_segment[p] =
             {s \in x.by_segment[p]: p \notin ModifiedPages(x, s)}
    BY HideEffect
  <1> HIDE DEF a
  <1>2. Shape(b) /\ SameBut(a, b, {"mem"})
    BY <1>1, SharedEffect
  <1> HIDE DEF b
  <1>3. /\ Shape(c) /\ SameBut(b, c, {"by_segment", "mem", "total_allocated"})
        /\ \A p \in 1..NB_PAGES: c.by_segment[p] = {}
    BY <1>2, DropEffect
  <1>4. c.total_allocated = b.total_allocated - PAGE_SIZE * PrivateCopies(b)
    <2>1. "total_allocated" \in DOMAIN b
      BY <1>2 DEF Shape, IsHeap, Fields
    <2> QED BY <2>1 DEF page_reshare, Dropped
  <1> HIDE DEF c
  <1>5. /\ SameBut(c, y, {"by_segment"})
        /\ \A p \in 1..NB_PAGES: y.by_segment[p] =
             c.by_segment[p] \union {s \in Segs: p \in ModifiedPages(c, s)}
    BY <1>3, RestoreEffect
  <1> HIDE DEF y
  <1>6. c.seg = x.seg /\ y.used = x.used /\ b.by_segment = a.by_segment
        /\ y.total_allocated = x.total_allocated - PAGE_SIZE * PrivateCopies(b)
    BY <1>1, <1>2, <1>3, <1>4, <1>5 DEF SameBut, Fields
  <1>7. \A p \in 1..NB_PAGES: \A s \in Segs:
          /\ s \in x.by_segment[p] <=> s \in b.by_segment[p] \/ s \in y.by_segment[p]
          /\ s \notin b.by_segment[p] \/ s \notin y.by_segment[p]
    <2> SUFFICES ASSUME NEW p \in 1..NB_PAGES, NEW s \in Segs
                 PROVE  /\ s \in x.by_segment[p] <=> s \in b.by_segment[p] \/ s \in y.by_segment[p]
                        /\ s \notin b.by_segment[p] \/ s \notin y.by_segment[p]
      OBVIOUS
    <2>1. s \in b.by_segment[p] <=> s \in x.by_segment[p] /\ p \notin ModifiedPages(x, s)
      BY <1>1, <1>6
    <2>2. s \in y.by_segment[p] <=> p \in ModifiedPages(x, s)
      <3>1. ModifiedPages(c, s) = ModifiedPages(x, s)
        BY <1>6 DEF ModifiedPages
      <3>2. s \in y.by_segment[p] <=> p \in ModifiedPages(c, s)
        BY <1>3, <1>5
      <3> QED BY <3>1, <3>2
    <2> QED BY <2>1, <2>2
  <1>8. PAGE_SIZE * PrivateCopies(x) =
          PAGE_SIZE * PrivateCopies(b) + PAGE_SIZE * PrivateCopies(y)
    BY <1>7, CopiesSplit
  <1>9. y.total_allocated = SizeOf(x.used) + PAGE_SIZE * PrivateCopies(y)
    <2> DEFINE m == SizeOf(x.used)
               dropped == PAGE_SIZE * PrivateCopies(b)
               kept == PAGE_SIZE * PrivateCopies(y)
    <2>1. m \in Nat /\ dropped \in Nat /\ kept \in Nat
      BY CellsFinite, CopiesFinite DEF Accounted
    <2>2. y.total_allocated = x.total_allocated - dropped
          /\ x.total_allocated = m + PAGE_SIZE * PrivateCopies(x)
          /\ PAGE_SIZE * PrivateCopies(x) = dropped + kept
      BY <1>6, <1>8 DEF Accounted
    <2> HIDE DEF m, dropped, kept
    <2>3. y.total_allocated = m + kept
      BY <2>1, <2>2
    <2> QED BY <2>3 DEF m, kept
  <1>10. Accounted(y)
    BY <1>6, <1>9 DEF Accounted
  <1> QED BY <1>0, <1>10

\* Marking and sweeping: what is not marked is freed.
LEMMA SweepAccounts ==
  ASSUME NEW x, Shape(x), Accounted(x), NEW reachable,
         \A o \in Objs: x.write_locks[o] = WL_VISITED => o \in reachable,
         \A s \in Segs: x.seg[s].overflow # NULL => x.seg[s].overflow \subseteq Objs
  PROVE  Accounted(major_restore_write_locks(sweep_large_objects(
           clean_up_segment_lists(MarkVisited(x, reachable)))))
  <1> DEFINE a == MarkVisited(x, reachable)
             b == clean_up_segment_lists(a)
             kept == {o \in b.used: b.write_locks[o] = WL_VISITED}
             c == sweep_large_objects(b)
             y == major_restore_write_locks(c)
  <1>1. /\ SameBut(x, a, {"write_locks"})
        /\ a.write_locks = [o \in Objs |-> IF o \in reachable THEN WL_VISITED
                                           ELSE x.write_locks[o]]
    BY DEF MarkVisited, Shape, IsHeap, SameBut, Fields
  <1> HIDE DEF a
  <1>2. Shape(a)
    BY <1>1 DEF Shape, IsHeap, SameBut, Fields
  <1>3. Shape(b) /\ SameBut(a, b, {"cards", "seg"})
    <2>1. a.seg = x.seg
      BY <1>1 DEF SameBut, Fields
    <2>2. \A s \in Segs: a.seg[s].overflow # NULL => a.seg[s].overflow \subseteq Objs
      BY <2>1
    <2>3. \A o \in Objs: a.write_locks[o] = WL_VISITED <=> o \in reachable
      BY <1>1
    <2> QED BY <1>2, <2>2, <2>3, CleanUpEffect
  <1> HIDE DEF b
  <1>4. /\ SameBut(b, c, {"used", "total_allocated", "write_locks"}) /\ c.used = kept
        /\ c.total_allocated = b.total_allocated - SizeOf(b.used \ kept)
    BY <1>3 DEF sweep_large_objects, Shape, IsHeap, SameBut, Fields
  <1>5. SameBut(c, y, {"write_locks"})
    <2>1. IsHeap(c)
      <3>1. DOMAIN c.write_locks = Objs
        BY <1>3 DEF sweep_large_objects, Shape, IsHeap, Fields
      <3> HIDE DEF c
      <3> QED BY <1>3, <1>4, <3>1 DEF Shape, IsHeap, SameBut, Fields
    <2> HIDE DEF c
    <2> QED BY <2>1 DEF major_restore_write_locks, IsHeap, SameBut, Fields
  <1> HIDE DEF c, y
  <1>6. Accounted(b)
    <2>1. b.used = x.used /\ b.by_segment = x.by_segment /\ b.total_allocated = x.total_allocated
      BY <1>1, <1>3 DEF SameBut, Fields
    <2> QED BY <2>1, SameAccounts
  <1>7. Accounted(c)
    <2> DEFINE dead == b.used \ kept
    <2>1. dead \in SUBSET b.used /\ c.used = b.used \ dead
      BY <1>4
    <2>2. c.by_segment = b.by_segment /\ c.total_allocated = b.total_allocated - SizeOf(dead)
      BY <1>4 DEF SameBut, Fields
    <2> HIDE DEF dead, kept
    <2> QED BY <1>6, <2>1, <2>2, FreedAccounts
  <1>8. y.used = c.used /\ y.by_segment = c.by_segment /\ y.total_allocated = c.total_allocated
    BY <1>5 DEF SameBut, Fields
  <1>9. Accounted(y)
    BY <1>7, <1>8, SameAccounts
  <1> QED BY <1>9 DEF y, c, b, a

\* What is young is in use.
LEMMA YoungInUse ==
  ASSUME BaseInv, NEW s \in Segs
  PROVE  sys.seg[s].young \subseteq sys.used
  <1>1. sys.seg[s].young \subseteq Objs
    BY DEF BaseInv, OwnedInv, Owned, OpenInv
  <1>2. \A o \in Objs: o \in sys.seg[s].young => o \in sys.used
    BY DEF BaseInv, PagesInv, ListInv, ObjectInv, Lists
  <1> QED BY <1>1, <1>2

\* A whole major collection, which runs while nobody privatizes pages.
LEMMA MajorAccounts ==
  ASSUME BaseInv, PrivateInv, Accounted(sys), \A s \in Segs: pc[s].k \in Simple
  PROVE  Accounted(Major)
  <1> DEFINE high == highest_overflow_number
             S == {s \in Segs: sys.seg[s].young # {}}
             a == _do_minor_collection(sys, S, FALSE)
             b == major_reshare_pages(a)
             reachable == Reachable(b, public)
  <1>0. S \in SUBSET Segs /\ FALSE \in BOOLEAN
    OBVIOUS
  <1>1. Major = major_restore_write_locks(sweep_large_objects(
                  clean_up_segment_lists(MarkVisited(b, reachable))))
    BY DEF Major, major_collection_now_at_safe_point, major_do_minor_collections,
           MINOR_NOTHING_TO_DO, Reachable
  <1>2. Owned(sys, public, high) /\ ListInv(sys, public) /\ Shape(sys)
    BY DEF BaseInv, OwnedInv, PagesInv, Owned
  <1> HIDE DEF S
  <1>3. Accounted(a)
    BY <1>0, <1>2, YoungInUse, MinorAccounts
  <1>4. MinorLists(sys, S, FALSE, a) /\ ListInv(a, public)
    BY <1>0, <1>2, MinorListsEffect, MinorKeeps
  <1> HIDE DEF a
  <1>5. Owned(a, public, high) /\ Shape(a) /\ a.by_segment = sys.by_segment
    BY <1>0, <1>2, <1>4, MinorOwned DEF MinorLists, SameBut, Fields
  <1>6. \A s \in Segs: a.seg[s].modified = sys.seg[s].modified
    <2>1. MinorOwners(sys, S, FALSE, a)
      BY <1>0, <1>2, <1>4, MinorOwnersEffect
    <2> QED BY <2>1 DEF MinorOwners
  <1>7. ASSUME NEW s \in Segs, NEW p \in 1..NB_PAGES, p \in ModifiedPages(a, s)
        PROVE  s \in a.by_segment[p]
    <2>1. PICK o \in sys.seg[s].modified: p \in Range(Layout[o])
      BY <1>6, <1>7 DEF ModifiedPages
    <2>2. PICK c \in Cells(o): p = Layout[o][c]
      BY <2>1 DEF Range, Cells
    <2>3. pc[s].k \notin Privatizing
      BY DEF Simple, Privatizing
    <2>4. Private(sys, s, o, c)
      BY <2>3, AllPrivate
    <2> QED BY <1>5, <2>2, <2>4 DEF Private
  <1>8. Accounted(b)
    BY <1>3, <1>5, <1>7, ReshareAccounts
  <1>9. ReshareEffect(a, b)
    BY <1>5, Reshared
  <1> HIDE DEF b
  <1>10. Shape(b) /\ b.seg = a.seg /\ b.write_locks = a.write_locks
    BY <1>9 DEF ReshareEffect, SameBut, Fields
  <1>11. ASSUME NEW o \in Objs, b.write_locks[o] = WL_VISITED
         PROVE  o \in reachable
    <2>1. a.write_locks[o] \in Segs \union {0}
          /\ \A s \in Segs: o \in a.seg[s].modified <=> a.write_locks[o] = s
      BY <1>4 DEF ListInv, ObjectInv
    <2>2. PICK s \in Segs: o \in b.seg[s].modified
      BY <1>10, <1>11, <2>1 DEF WL_VISITED
    <2> QED BY <2>2 DEF Reachable
  <1>12. \A s \in Segs: b.seg[s].overflow # NULL => b.seg[s].overflow \subseteq Objs
    BY <1>5, <1>10 DEF Owned, OpenInv, Ovf
  <1> HIDE DEF reachable
  <1> QED BY <1>1, <1>8, <1>10, <1>11, <1>12, SweepAccounts

-----------------------------------------------------------------------------
(* The bound.                                                              *)

\* A thread that will compare at least as much with the bound.
Asking(s) ==
  /\ pc[s].k \in {"new", "read"}
  /\ pc[s].total \in Nat /\ pc[s].total >= sys.total_allocated

\* The accounts, the bound, and who sees to it that it is respected.
MemoryInv ==
  /\ Accounted(sys)
  /\ total_allocated_bound \in Nat
  /\ \/ sys.total_allocated < total_allocated_bound
     \/ major_collection_requested
     \/ \E s \in Segs: Asking(s)

\* After a major collection there is room to allocate.
LEMMA RoomAfterCollection ==
  ASSUME NEW n \in Nat
  PROVE  NextBound(n) \in Nat /\ n < NextBound(n)
  <1>1. GC_MIN \in Nat /\ GC_MIN > 1
    BY PagesAssumption
  <1> DEFINE bound == (n * 182) \div 100
  <1>2. bound \in Nat /\ (n < 2 \/ n < bound) /\ (n >= 2 \/ bound <= n)
    OBVIOUS
  <1>3. NextBound(n) = IF bound < GC_MIN THEN GC_MIN ELSE bound
    BY DEF NextBound
  <1> HIDE DEF bound
  <1> QED BY <1>1, <1>2, <1>3

\* A step that allocates nothing leaves the request to whoever had it.
LEMMA RequestStays ==
  ASSUME MemoryInv, Accounted(sys)', sys'.total_allocated <= sys.total_allocated,
         UNCHANGED total_allocated_bound,
         major_collection_requested => major_collection_requested',
         \A t \in Segs: pc[t].k \in {"new", "read"} => pc'[t] = pc[t]
  PROVE  MemoryInv'
  <1>1. sys.total_allocated \in Nat /\ sys'.total_allocated \in Nat
    BY TotalIsNumber DEF MemoryInv
  <1>2. \A t \in Segs: Asking(t) => Asking(t)'
    BY <1>1 DEF Asking
  <1> QED BY <1>1, <1>2 DEF MemoryInv

\* A thread compares what it has counted with the bound.
LEMMA RequestMade ==
  ASSUME MemoryInv, Accounted(sys)', sys'.total_allocated = sys.total_allocated,
         NEW s \in Segs, Compared(pc[s].total), \A t \in Segs \ {s}: pc'[t] = pc[t]
  PROVE  MemoryInv'
  <1>1. sys.total_allocated \in Nat /\ total_allocated_bound \in Nat
    BY TotalIsNumber DEF MemoryInv
  <1>2. \A t \in Segs \ {s}: Asking(t) => Asking(t)'
    BY DEF Asking
  <1>3. /\ total_allocated_bound' = total_allocated_bound
        /\ major_collection_requested' = (major_collection_requested
                                           \/ pc[s].total >= total_allocated_bound)
    BY DEF Compared
  <1>4. CASE sys.total_allocated < total_allocated_bound
    BY <1>1, <1>3, <1>4 DEF MemoryInv
  <1>5. CASE major_collection_requested
    BY <1>1, <1>3, <1>5 DEF MemoryInv
  <1>6. CASE Asking(s) /\ ~(sys.total_allocated < total_allocated_bound)
    <2>1. pc[s].total >= total_allocated_bound
      BY <1>1, <1>6 DEF Asking
    <2>2. major_collection_requested'
      BY <1>3, <2>1
    <2> QED BY <1>1, <1>3, <2>2 DEF MemoryInv
  <1>7. CASE \E t \in Segs \ {s}: Asking(t)
    BY <1>1, <1>2, <1>3, <1>7 DEF MemoryInv
  <1> QED BY <1>4, <1>5, <1>6, <1>7 DEF MemoryInv

\* A thread counts more memory, and has yet to compare.
LEMMA RequestToCome ==
  ASSUME MemoryInv, Accounted(sys)', UNCHANGED total_allocated_bound, NEW s \in Segs,
         pc'[s].k \in {"new", "read"}, pc'[s].total = sys'.total_allocated
  PROVE  MemoryInv'
  <1>1. sys'.total_allocated \in Nat
    BY TotalIsNumber
  <1>2. Asking(s)'
    BY <1>1 DEF Asking
  <1> QED BY <1>2 DEF MemoryInv

-----------------------------------------------------------------------------
(* What the steps do to the accounts.                                      *)

\* Nothing is allocated, freed, or made private between x and y.
SameBooks(x, y) ==
  /\ y.used = x.used /\ y.by_segment = x.by_segment
  /\ y.total_allocated = x.total_allocated

\* A step that leaves the books alone, of a thread that has nothing to
\* compare.
LEMMA BooksLeft ==
  ASSUME MemoryInv, SameBooks(sys, sys'), UNCHANGED request,
         \A t \in Segs: pc[t].k \in {"new", "read"} => pc'[t] = pc[t]
  PROVE  MemoryInv'
  <1>1. Accounted(sys')
    BY SameAccounts DEF MemoryInv, SameBooks
  <1>2. sys'.total_allocated \in Nat
    BY <1>1, TotalIsNumber
  <1>3. sys'.total_allocated <= sys.total_allocated
    BY <1>2 DEF SameBooks
  <1> QED BY <1>1, <1>3, RequestStays DEF request

\* Writes to memory.
LEMMA ProgramWritesBooks ==
  ASSUME NEW x, Shape(x), NEW s, NEW o, NEW c, ProgramWrites(x, s, o, c)
  PROVE  SameBooks(x, sys')
  BY StoreEffect DEF ProgramWrites, SameBut, SameBooks, Fields

\* The end of the barrier.
LEMMA BarrierBooks ==
  ASSUME Shape(sys), NEW s \in Segs, NEW o \in Objs, NEW c \in Cells(o), NEW card \in BOOLEAN,
         ProgramWrites(Barrier(sys, s, o, c, card), s, o, c)
  PROVE  SameBooks(sys, sys')
  <1> DEFINE x == Barrier(sys, s, o, c, card)
  <1>1. BarrierLists(sys, s, o, c, card, x)
    BY BarrierEffect
  <1>2. ProgramWrites(x, s, o, c)
    OBVIOUS
  <1> HIDE DEF x
  <1>3. SameBooks(x, sys')
    BY <1>1, <1>2, ProgramWritesBooks DEF BarrierLists
  <1> QED BY <1>1, <1>3 DEF BarrierLists, SameBut, SameBooks, Fields

\* Writing, up to the pages that the barrier makes private.
LEMMA WritingMemory ==
  ASSUME BaseInv, MemoryInv, NEW s \in Segs,
         \/ \E o \in Objs: \E c \in Cells(o): stm_write(s, o, c)
         \/ \E o \in Objs, card \in BOOLEAN: \E c \in Cells(o):
              write_slowpath_overflow_obj(s, o, c, card)
         \/ \E o \in Objs, card \in BOOLEAN: \E c \in Cells(o):
              write_slowpath_common(s, o, c, card)
         \/ BarrierDone(s)
  PROVE  MemoryInv'
  <1>1. Shape(sys) /\ DOMAIN pc = Segs
    BY DEF BaseInv, OwnedInv, Owned, PlaceInv
  <1>2. ASSUME NEW o \in Objs, NEW c \in Cells(o), stm_write(s, o, c)
        PROVE  MemoryInv'
    <2>1. SameBooks(sys, sys') /\ UNCHANGED request /\ UNCHANGED pc
      BY <1>1, <1>2, ProgramWritesBooks DEF stm_write
    <2> QED BY <2>1, BooksLeft
  <1>3. ASSUME NEW o \in Objs, NEW card \in BOOLEAN, NEW c \in Cells(o),
               write_slowpath_overflow_obj(s, o, c, card)
        PROVE  MemoryInv'
    <2>1. SameBooks(sys, sys') /\ UNCHANGED request /\ UNCHANGED pc
      BY <1>1, <1>3, BarrierBooks DEF write_slowpath_overflow_obj
    <2> QED BY <2>1, BooksLeft
  <1>4. ASSUME NEW o \in Objs, NEW card \in BOOLEAN, NEW c \in Cells(o),
               write_slowpath_common(s, o, c, card)
        PROVE  MemoryInv'
    <2>1. sys' = [sys EXCEPT !.write_locks[o] = s,
                             !.seg[s].modified = @ \union {o}]
          /\ UNCHANGED request /\ Running(s)
      BY <1>4 DEF write_slowpath_common, NeedsBarrier
    <2>2. SameBooks(sys, sys')
      BY <1>1, <2>1 DEF SameBooks, Shape, IsHeap, Fields
    <2>3. \A t \in Segs \ {s}: pc'[t] = pc[t]
      <3>1. \E p: Goto(s, p)
        BY <1>4 DEF write_slowpath_common
      <3> QED BY <3>1 DEF Goto
    <2> QED BY <2>1, <2>2, <2>3, BooksLeft DEF Running
  <1>5. CASE BarrierDone(s)
    <2>1. /\ pc[s].k = "page" /\ UNCHANGED request
          /\ ProgramWrites(Barrier(sys, s, pc[s].o, pc[s].c, pc[s].card),
                           s, pc[s].o, pc[s].c)
          /\ \A t \in Segs \ {s}: pc'[t] = pc[t]
      BY <1>5 DEF BarrierDone, Goto
    <2>2. pc[s].o \in Objs /\ pc[s].c \in Cells(pc[s].o) /\ pc[s].card \in BOOLEAN
      BY <2>1 DEF BaseInv, PlacedInv, Placed, Privatizing
    <2>3. SameBooks(sys, sys')
      BY <1>1, <2>1, <2>2, BarrierBooks
    <2> QED BY <2>1, <2>3, BooksLeft
  <1> QED BY <1>2, <1>3, <1>4, <1>5

\* Making pages private: the page is counted when its bit is set, and the
\* total compared with the bound in the next step.
LEMMA PrivatizingMemory ==
  ASSUME BaseInv, PrivateInv, MemoryInv, NEW s \in Segs,
         \/ page_privatize(s) \/ AcquirePrivatizationLock(s) \/ SetPrivateBit(s)
         \/ ReadSharedPage(s) \/ WritePrivatePage(s) \/ ReleasePrivatizationLock(s)
  PROVE  MemoryInv'
  <1>1. Shape(sys) /\ DOMAIN pc = Segs
    BY DEF BaseInv, OwnedInv, Owned, PlaceInv
  <1>2. \A t \in Segs \ {s}: pc'[t] = pc[t]
    <2>1. \E p: Goto(s, p)
      BY DEF page_privatize, AcquirePrivatizationLock, SetPrivateBit, ReadSharedPage,
             WritePrivatePage, ReleasePrivatizationLock
    <2> QED BY <2>1 DEF Goto
  <1>3. CASE page_privatize(s) \/ AcquirePrivatizationLock(s) \/ ReleasePrivatizationLock(s)
    <2>1. sys' = sys /\ UNCHANGED request /\ pc[s].k \in {"page", "lock", "unlock"}
      BY <1>3 DEF page_privatize, AcquirePrivatizationLock, ReleasePrivatizationLock, heap
    <2>2. SameBooks(sys, sys')
      BY <2>1 DEF SameBooks
    <2> QED BY <1>2, <2>1, <2>2, BooksLeft
  <1>4. CASE WritePrivatePage(s)
    <2>1. UNCHANGED request /\ pc[s].k = "copy" /\ SameBooks(sys, sys')
      BY <1>1, <1>4 DEF WritePrivatePage, SameBooks, Shape, IsHeap, Fields
    <2> QED BY <1>2, <2>1, BooksLeft
  <1>5. CASE ReadSharedPage(s)
    <2>1. Compared(pc[s].total) /\ sys' = sys
      BY <1>5 DEF ReadSharedPage, heap
    <2>2. Accounted(sys)'
      BY <2>1 DEF MemoryInv
    <2> QED BY <1>2, <2>1, <2>2, RequestMade
  <1>6. CASE SetPrivateBit(s)
    <2> DEFINE p == Head(pc[s].todo)
    <2>1. /\ pc[s].k = "bit" /\ UNCHANGED request
          /\ sys' = [sys EXCEPT !.by_segment[p] = @ \union {s},
                                !.total_allocated = @ + PAGE_SIZE]
          /\ Goto(s, [pc[s] EXCEPT !.k = "read", !.total = sys'.total_allocated])
      BY <1>6 DEF SetPrivateBit
    <2>2. /\ pc[s].todo \in Seq(1..NB_PAGES) /\ pc[s].todo # <<>>
          /\ {"total", "k"} \subseteq DOMAIN pc[s]
      BY <2>1 DEF BaseInv, PlacedInv, Placed, Privatizing, PlaceInv
    <2>3. p \in 1..NB_PAGES
      BY <2>2, HeadAndTail
    <2>4. s \notin sys.by_segment[p]
      BY <2>1 DEF PrivateInv, PrivateAt
    <2> HIDE DEF p
    <2>5. /\ sys'.used = sys.used
          /\ sys'.total_allocated = sys.total_allocated + PAGE_SIZE
          /\ sys'.by_segment = [sys.by_segment EXCEPT ![p] = @ \union {s}]
      BY <1>1, <2>1 DEF Shape, IsHeap, Fields
    <2>6. \A q \in 1..NB_PAGES: sys'.by_segment[q] =
            IF q = p THEN sys.by_segment[q] \union {s} ELSE sys.by_segment[q]
      BY <1>1, <2>3, <2>5 DEF Shape
    <2>7. PAGE_SIZE * PrivateCopies(sys') = PAGE_SIZE * PrivateCopies(sys) + PAGE_SIZE
      BY <2>3, <2>4, <2>6, OneMoreCopy
    <2>8. sys'.total_allocated = SizeOf(sys'.used) + PAGE_SIZE * PrivateCopies(sys')
      <3> DEFINE m == SizeOf(sys.used)
                 n == PAGE_SIZE * PrivateCopies(sys)
      <3>1. m \in Nat /\ n \in Nat /\ PAGE_SIZE \in Nat
        BY PagesAssumption, CellsFinite, CopiesFinite DEF MemoryInv, Accounted
      <3>2. SizeOf(sys'.used) = m /\ PAGE_SIZE * PrivateCopies(sys') = n + PAGE_SIZE
            /\ sys.total_allocated = m + n
        BY <2>5, <2>7 DEF MemoryInv, Accounted
      <3> HIDE DEF m, n
      <3> QED BY <2>5, <3>1, <3>2
    <2>9. Accounted(sys)'
      BY <2>5, <2>8 DEF MemoryInv, Accounted
    <2>10. pc'[s].k = "read" /\ pc'[s].total = sys'.total_allocated
      BY <1>1, <2>1, <2>2 DEF Goto
    <2> QED BY <2>1, <2>9, <2>10, RequestToCome DEF request
  <1> QED BY <1>3, <1>4, <1>5, <1>6

\* A new object in the lists changes no books.
LEMMA NewObjectBooks ==
  ASSUME Shape(sys), NEW s \in Segs, NEW o, NewObject(s, o)
  PROVE  SameBooks(sys, sys') /\ \A t \in Segs \ {s}: pc'[t] = pc[t]
  <1> DEFINE g == [sys.seg[s] EXCEPT !.young = @ \union {o}, !.mine = @ \union {o}]
             x == [sys EXCEPT !.seg[s].young = @ \union {o}, !.seg[s].mine = @ \union {o}]
  <1>1. sys' = Store(x, s, o, Zeroes(o)) /\ Goto(s, Idle)
    BY DEF NewObject
  <1>2. SameBooks(sys, x) /\ {"mem"} \subseteq DOMAIN x
    BY DEF SameBooks, Shape, IsHeap, Fields
  <1> HIDE DEF x
  <1>3. SameBooks(x, sys')
    BY <1>1 DEF Store, SameBooks
  <1>4. \A t \in Segs \ {s}: pc'[t] = pc[t]
    BY <1>1 DEF Goto
  <1> QED BY <1>2, <1>3, <1>4 DEF SameBooks

\* Allocating: the object is counted when its address is found, and the
\* total compared with the bound later.
LEMMA AllocatingMemory ==
  ASSUME BaseInv, MemoryInv, NEW s \in Segs,
         \/ \E o \in Objs: allocate_outside_nursery_large(s, o)
         \/ PagesExist(s) \/ MorePagesNeeded(s) \/ AcquireGrowthLock(s)
         \/ setup_N_pages(s) \/ PagesMapped(s)
  PROVE  MemoryInv'
  <1>1. Shape(sys) /\ DOMAIN pc = Segs
    BY DEF BaseInv, OwnedInv, Owned, PlaceInv
  <1>2. ASSUME NEW o \in Objs, allocate_outside_nursery_large(s, o)
        PROVE  MemoryInv'
    <2>1. /\ o \notin sys.used /\ UNCHANGED request
          /\ sys' = [sys EXCEPT !.used = @ \union {o}, !.number[o] = 0,
                                !.total_allocated = @ + SizeOf({o})]
          /\ Goto(s, [k |-> "new", o |-> o, total |-> sys'.total_allocated])
      BY <1>2 DEF allocate_outside_nursery_large
    <2>2. /\ sys'.used = sys.used \union {o} /\ sys'.by_segment = sys.by_segment
          /\ sys'.total_allocated = sys.total_allocated + SizeOf({o})
      BY <1>1, <2>1 DEF Shape, IsHeap, Fields
    <2>3. sys.used \in SUBSET Objs /\ IsFiniteSet(sys.used)
      BY DEF MemoryInv, Accounted
    <2>4. /\ IsFiniteSet(sys.used \union {o})
          /\ SizeOf(sys.used \union {o}) = SizeOf(sys.used) + SizeOf({o})
      BY <2>1, <2>3, MoreCells
    <2>5. PrivateCopies(sys') = PrivateCopies(sys)
      BY <2>2 DEF PrivateCopies, is_private_page
    <2>6. sys'.total_allocated = SizeOf(sys'.used) + PAGE_SIZE * PrivateCopies(sys')
      <3> DEFINE m == SizeOf(sys.used)
                 n == PAGE_SIZE * PrivateCopies(sys)
                 k == SizeOf({o})
      <3>1. {o} \in SUBSET Objs /\ IsFiniteSet({o})
        BY FS_Singleton
      <3>2. m \in Nat /\ n \in Nat /\ k \in Nat
        BY <2>3, <3>1, CellsFinite, CopiesFinite
      <3>3. SizeOf(sys'.used) = m + k /\ PAGE_SIZE * PrivateCopies(sys') = n
            /\ sys.total_allocated = m + n /\ sys'.total_allocated = sys.total_allocated + k
        BY <2>2, <2>4, <2>5 DEF MemoryInv, Accounted
      <3> HIDE DEF m, n, k
      <3> QED BY <3>2, <3>3
    <2>7. Accounted(sys)'
      BY <2>2, <2>3, <2>4, <2>6 DEF Accounted
    <2>8. pc'[s].k = "new" /\ pc'[s].total = sys'.total_allocated
      BY <1>1, <2>1 DEF Goto
    <2> QED BY <2>1, <2>7, <2>8, RequestToCome DEF request
  <1>3. CASE PagesExist(s)
    <2>1. Compared(pc[s].total) /\ NewObject(s, pc[s].o)
      BY <1>3 DEF PagesExist
    <2>2. SameBooks(sys, sys') /\ \A t \in Segs \ {s}: pc'[t] = pc[t]
      BY <1>1, <2>1, NewObjectBooks
    <2>3. Accounted(sys)' /\ sys'.total_allocated = sys.total_allocated
      BY <2>2, SameAccounts DEF MemoryInv, SameBooks
    <2> QED BY <2>1, <2>2, <2>3, RequestMade
  <1>4. CASE MorePagesNeeded(s)
    <2>1. Compared(pc[s].total) /\ sys' = sys /\ \A t \in Segs \ {s}: pc'[t] = pc[t]
      BY <1>4 DEF MorePagesNeeded, heap, Goto
    <2>2. Accounted(sys)'
      BY <2>1 DEF MemoryInv
    <2> QED BY <2>1, <2>2, RequestMade
  <1>5. CASE AcquireGrowthLock(s)
    <2>1. sys' = sys /\ UNCHANGED request /\ pc[s].k = "wait"
          /\ \A t \in Segs \ {s}: pc'[t] = pc[t]
      BY <1>5 DEF AcquireGrowthLock, heap, Goto
    <2>2. SameBooks(sys, sys')
      BY <2>1 DEF SameBooks
    <2> QED BY <2>1, <2>2, BooksLeft
  <1>6. CASE setup_N_pages(s)
    <2>1. /\ UNCHANGED request /\ pc[s].k = "grow"
          /\ \/ sys' = sys /\ \E p: Goto(s, p)
             \/ NewObject(s, pc[s].o)
      BY <1>6 DEF setup_N_pages, heap
    <2>2. SameBooks(sys, sys') /\ \A t \in Segs \ {s}: pc'[t] = pc[t]
      BY <1>1, <2>1, NewObjectBooks DEF SameBooks, Goto
    <2> QED BY <2>1, <2>2, BooksLeft
  <1>7. CASE PagesMapped(s)
    <2>1. UNCHANGED request /\ pc[s].k = "mapped" /\ NewObject(s, pc[s].o)
      BY <1>7 DEF PagesMapped
    <2>2. SameBooks(sys, sys') /\ \A t \in Segs \ {s}: pc'[t] = pc[t]
      BY <1>1, <2>1, NewObjectBooks
    <2> QED BY <2>1, <2>2, BooksLeft
  <1> QED BY <1>2, <1>3, <1>4, <1>5, <1>6, <1>7

\* Minor collections only free memory.
LEMMA MinorMemory ==
  ASSUME BaseInv, MemoryInv, NEW s \in Segs,
         MinorAtCommit(s) \/ \E level \in 0..1: stm_collect(s, level)
  PROVE  MemoryInv'
  <1>1. Shape(sys) /\ Accounted(sys) /\ {s} \in SUBSET Segs
    BY DEF BaseInv, OwnedInv, Owned, MemoryInv
  <1>2. PICK commit \in BOOLEAN: sys' = _do_minor_collection(sys, {s}, commit)
    BY DEF MinorAtCommit, stm_collect
  <1>3. /\ Running(s) /\ UNCHANGED total_allocated_bound
        /\ major_collection_requested => major_collection_requested'
        /\ \E p: Goto(s, p)
    <2>1. CASE MinorAtCommit(s)
      BY <2>1 DEF MinorAtCommit, request
    <2>2. ASSUME NEW level \in 0..1, stm_collect(s, level)
          PROVE  <1>3
      <3>1. Running(s) /\ UNCHANGED total_allocated_bound /\ \E p: Goto(s, p)
        BY <2>2 DEF stm_collect
      <3>2. major_collection_requested' = (major_collection_requested \/ level > 0)
        BY <2>2 DEF stm_collect
      <3> QED BY <3>1, <3>2
    <2> QED BY <2>1, <2>2
  <1>4. \A t \in {s}: sys.seg[t].young \subseteq sys.used
    BY YoungInUse
  <1>5. Accounted(sys') /\ sys'.total_allocated <= sys.total_allocated
    BY <1>1, <1>2, <1>4, MinorAccounts
  <1>6. \A t \in Segs \ {s}: pc'[t] = pc[t]
    BY <1>3 DEF Goto
  <1> QED BY <1>3, <1>5, <1>6, RequestStays DEF Running

\* Pushing objects, and forgetting them.
LEMMA PushingMemory ==
  ASSUME BaseInv, MemoryInv, NEW s \in Segs,
         \/ acquire_privatization_lock(s) \/ release_privatization_lock(s)
         \/ push_overflow_objects_from_privatized_pages(s)
         \/ \E o \in Objs: PopRoot(s, o)
         \/ \E o \in Objs: Unlink(o)
  PROVE  MemoryInv'
  <1>1. Shape(sys)
    BY DEF BaseInv, OwnedInv, Owned
  <1>2. CASE acquire_privatization_lock(s) \/ release_privatization_lock(s)
    <2>1. /\ sys' = sys /\ UNCHANGED request /\ pc[s].k \in {"push", "pushing"}
          /\ \E p: Goto(s, p)
      BY <1>2 DEF acquire_privatization_lock, release_privatization_lock, heap
    <2>2. SameBooks(sys, sys') /\ \A t \in Segs \ {s}: pc'[t] = pc[t]
      BY <2>1 DEF SameBooks, Goto
    <2> QED BY <2>1, <2>2, BooksLeft
  <1>3. CASE push_overflow_objects_from_privatized_pages(s)
    <2>1. PICK o \in pc[s].todo: /\ sys' = synchronize_object_now(sys, s, {o}, TRUE)
                                 /\ \E p: Goto(s, p)
      BY <1>3 DEF push_overflow_objects_from_privatized_pages
    <2>2. UNCHANGED request /\ pc[s].k = "pushing"
      BY <1>3 DEF push_overflow_objects_from_privatized_pages
    <2>3. {o} \in SUBSET Objs /\ TRUE \in BOOLEAN
      BY <2>2 DEF BaseInv, PlacedInv, Placed, OwnedInv, Owned, OpenInv, Pushing
    <2>4. SameBut(sys, sys', {"mem", "cards"})
      BY <1>1, <2>1, <2>3, SynchronizeEffect
    <2>5. SameBooks(sys, sys')
      BY <2>4 DEF SameBooks, SameBut, Fields
    <2>6. \A t \in Segs \ {s}: pc'[t] = pc[t]
      BY <2>1 DEF Goto
    <2> QED BY <2>2, <2>5, <2>6, BooksLeft
  <1>4. ASSUME NEW o \in Objs, PopRoot(s, o)
        PROVE  MemoryInv'
    <2>1. SameBooks(sys, sys') /\ UNCHANGED request /\ UNCHANGED pc
      BY <1>1, <1>4 DEF PopRoot, SameBooks, Shape, IsHeap, Fields
    <2> QED BY <2>1, BooksLeft
  <1>5. ASSUME NEW o \in Objs, Unlink(o)
        PROVE  MemoryInv'
    <2>1. SameBooks(sys, sys') /\ UNCHANGED request /\ UNCHANGED pc
      BY <1>5 DEF Unlink, SameBooks
    <2> QED BY <2>1, BooksLeft
  <1> QED BY <1>2, <1>3, <1>4, <1>5

\* Commits and major collections: after a collection the bound is above
\* what is in use, and at a safe point nobody is about to compare.
LEMMA AloneMemory ==
  ASSUME BaseInv, PrivateInv, MemoryInv, NEW s \in Segs,
         stm_commit_transaction(s) \/ major_collection_if_requested(s)
  PROVE  MemoryInv'
  <1>1. \A t \in Segs: pc[t].k \in Simple
    BY DEF stm_commit_transaction, major_collection_if_requested, OthersAtSafePoints, Simple
  <1>2. \A t \in Segs: ~Asking(t)
    BY <1>1 DEF Asking, Simple
  <1>3. Accounted(Major)
    BY <1>1, MajorAccounts DEF MemoryInv
  <1>4. Major.total_allocated \in Nat /\ sys.total_allocated \in Nat
    BY <1>3, TotalIsNumber DEF MemoryInv
  <1>5. CASE stm_commit_transaction(s)
    <2> DEFINE x == IF major_collection_requested THEN Major ELSE sys
    <2>1. /\ sys' = Finished(OverflowNumber(push_modified_to_other_segments(x, s), s), {s})
          /\ total_allocated_bound' = IF major_collection_requested
                                      THEN NextBound(x.total_allocated)
                                      ELSE total_allocated_bound
      BY <1>5 DEF stm_commit_transaction, Major
    <2>2. Accounted(x) /\ (x = sys \/ x = Major)
      BY <1>3 DEF MemoryInv
    <2>3. x.total_allocated < total_allocated_bound' /\ total_allocated_bound' \in Nat
      BY <1>2, <1>4, <2>1, RoomAfterCollection DEF MemoryInv
    <2> HIDE DEF x
    <2>4. Owned(x, public, highest_overflow_number)
      BY <2>2, MajorOwned DEF BaseInv, OwnedInv, PagesInv
    <2>5. CommitLists(x, s, sys')
      BY <2>1, <2>4, CommitEffect DEF Owned, OpenInv
    <2>6. SameBooks(x, sys')
      BY <2>5 DEF CommitLists, SameBut, SameBooks, Fields
    <2>7. Accounted(sys')
      BY <2>2, <2>6, SameAccounts DEF SameBooks
    <2> QED BY <2>3, <2>6, <2>7 DEF MemoryInv, SameBooks
  <1>6. CASE major_collection_if_requested(s)
    <2>1. CASE major_collection_requested
      <3>1. sys' = Major /\ total_allocated_bound' = NextBound(Major.total_allocated)
        BY <1>6, <2>1 DEF major_collection_if_requested, Major
      <3>2. Major.total_allocated < total_allocated_bound' /\ total_allocated_bound' \in Nat
        BY <1>4, <3>1, RoomAfterCollection
      <3> QED BY <1>3, <3>1, <3>2 DEF MemoryInv
    <2>2. CASE ~major_collection_requested
      <3>1. sys' = sys /\ UNCHANGED request
        BY <1>6, <2>2 DEF major_collection_if_requested
      <3> QED BY <1>2, <3>1 DEF MemoryInv, request
    <2> QED BY <2>1, <2>2
  <1> QED BY <1>5, <1>6

\* Aborts, also of the threads that a child of fork() does not have.
LEMMA AbortMemoryCount ==
  ASSUME BaseInv, MemoryInv, NEW s \in Segs, abort_with_mutex(s) \/ forksupport_child(s)
  PROVE  MemoryInv'
  <1>1. Shape(sys) /\ Accounted(sys)
    BY DEF BaseInv, OwnedInv, Owned, MemoryInv
  <1>2. CASE abort_with_mutex(s)
    <2>1. /\ sys' = abort_data_structures_from_segment_num(sys, {s}) /\ UNCHANGED request
          /\ pc[s].k \in Simple /\ \A t \in Segs \ {s}: pc'[t] = pc[t]
      BY <1>2 DEF abort_with_mutex, Goto, Simple
    <2>2. {s} \in SUBSET Segs /\ \A t \in {s}: sys.seg[t].young \subseteq sys.used
      BY YoungInUse
    <2>3. Accounted(sys') /\ sys'.total_allocated <= sys.total_allocated
      BY <1>1, <2>1, <2>2, AbortAccounts
    <2> QED BY <2>1, <2>3, RequestStays DEF request, Simple
  <1>3. CASE forksupport_child(s)
    <2> DEFINE x == BigCopy(sys)
               S == Segs \ {s}
    <2>1. /\ sys' = abort_data_structures_from_segment_num(x, S) /\ UNCHANGED request
          /\ UNCHANGED pc
      BY <1>3 DEF forksupport_child
    <2>2. Shape(x) /\ SameBut(sys, x, {"mem"}) /\ S \in SUBSET Segs
      BY <1>1, BigCopyEffect
    <2> HIDE DEF x, S
    <2>3. SameBooks(sys, x) /\ x.seg = sys.seg
      BY <2>2 DEF SameBut, SameBooks, Fields
    <2>4. Accounted(x) /\ \A t \in S: x.seg[t].young \subseteq x.used
      BY <1>1, <2>2, <2>3, YoungInUse, SameAccounts DEF SameBooks
    <2>5. Accounted(sys') /\ sys'.total_allocated <= x.total_allocated
      BY <2>1, <2>2, <2>4, AbortAccounts
    <2>6. sys'.total_allocated <= sys.total_allocated
      BY <2>3, <2>5 DEF SameBooks
    <2> QED BY <2>1, <2>5, <2>6, RequestStays DEF request
  <1> QED BY <1>2, <1>3

\* Every step.
LEMMA MemoryCounted ==
  ASSUME BaseInv, PrivateInv, MemoryInv, [Next]_vars
  PROVE  MemoryInv'
  <1>1. CASE UNCHANGED vars
    <2>1. SameBooks(sys, sys') /\ UNCHANGED request /\ UNCHANGED pc
      BY <1>1 DEF vars, SameBooks, request
    <2> QED BY <2>1, BooksLeft
  <1>2. CASE Next
    <2>1. CASE \E o \in Objs: Unlink(o)
      <3>1. SameBooks(sys, sys') /\ UNCHANGED request /\ UNCHANGED pc
        BY <2>1 DEF Unlink, SameBooks
      <3> QED BY <3>1, BooksLeft
    <2> QED BY <1>2, <2>1, WritingMemory, PrivatizingMemory, AllocatingMemory, MinorMemory,
               PushingMemory, AloneMemory, AbortMemoryCount DEF Next
  <1> QED BY <1>1, <1>2

\* At the start the bound is above the memory of the prebuilt objects.
LEMMA MemoryCountInit ==
  ASSUME Init
  PROVE  MemoryInv
  <1>1. /\ sys.used = Prebuilt /\ sys.total_allocated = SizeOf(Prebuilt)
        /\ sys.by_segment = [p \in 1..NB_PAGES |-> {}]
        /\ total_allocated_bound = NextBound(SizeOf(Prebuilt))
    BY DEF Init
  <1>2. Prebuilt \in SUBSET Objs /\ IsFiniteSet(Prebuilt) /\ PAGE_SIZE \in Nat
    BY PagesAssumption
  <1>3. SizeOf(Prebuilt) \in Nat
    BY <1>2, CellsFinite
  <1>4. Copies(sys) = {}
    BY <1>1 DEF Copies, is_private_page
  <1>5. PrivateCopies(sys) = 0
    BY <1>4, CopiesFinite, FS_EmptySet
  <1>6. PAGE_SIZE * PrivateCopies(sys) = 0
    BY <1>2, <1>5
  <1>7. Accounted(sys)
    BY <1>1, <1>2, <1>3, <1>6 DEF Accounted
  <1>8. total_allocated_bound \in Nat /\ sys.total_allocated < total_allocated_bound
    BY <1>1, <1>3, RoomAfterCollection
  <1> QED BY <1>7, <1>8 DEF MemoryInv

\* For every value of the constants total_allocated is the size of the
\* objects in use and of the private pages: neither the nurseries that are
\* thrown away, nor the pages that a major collection shares again, nor
\* what it sweeps or an abort frees is counted twice or forgotten; and
\* whenever the total is at its bound a major collection is requested, or a
\* thread has counted and is about to compare.
THEOREM MemoryAccounted == Spec => []MemoryIsAccounted
  <1>1. ASSUME MemoryInv
        PROVE  MemoryIsAccounted
    BY <1>1 DEF MemoryInv, Accounted, MemoryIsAccounted, Asking
  <1>2. ASSUME BaseInv /\ PrivateInv /\ GrowthInv, MemoryInv, [Next]_vars
        PROVE  MemoryInv'
    BY <1>2, MemoryCounted
  <1> QED BY <1>1, <1>2, MemoryCountInit, PagesAssumption, PagesInvariant, PTL DEF Spec

=============================================================================
