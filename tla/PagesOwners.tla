---------------------------- MODULE PagesOwners ----------------------------
(* Who owns which object of Pages, and what every step does: the parts of  *)
(* the proof that segments agree which do not look at what memory holds.   *)
EXTENDS PagesProofs, SequenceTheorems

-----------------------------------------------------------------------------
(* What the operations on the pages, cards and lists do.                   *)

Shape(x) ==
  /\ IsHeap(x)
  /\ DOMAIN x.mem = 0..NB_SEGMENTS
  /\ \A t \in 0..NB_SEGMENTS: DOMAIN x.mem[t] = Objs
  /\ DOMAIN x.by_segment = 1..NB_PAGES
  /\ \A p \in 1..NB_PAGES: x.by_segment[p] \subseteq Segs
  /\ DOMAIN x.cards = Objs
  /\ \A o \in Objs: DOMAIN x.cards[o] = Cells(o)
  /\ DOMAIN x.number = Objs
  /\ \A s \in Segs: x.seg[s].number_used \in BOOLEAN

SameBut(x, y, changed) ==
  DOMAIN y = DOMAIN x /\ \A f \in Fields \ changed: y[f] = x[f]

SameListsBut(x, y, s, changed) ==
  /\ DOMAIN y.seg[s] = DOMAIN x.seg[s]
  /\ \A f \in ListFields \ changed: y.seg[s][f] = x.seg[s][f]

\* A cell is in a page.
LEMMA CellPages ==
  ASSUME NEW o \in Objs, NEW c \in Cells(o)
  PROVE  Layout[o][c] \in 1..NB_PAGES /\ c \in 1..Len(Layout[o])
  BY PagesAssumption DEF Cells

\* One change after another.
LEMMA TwiceBut ==
  ASSUME NEW x, NEW y, NEW z, NEW S, NEW T, SameBut(x, y, S), SameBut(y, z, T)
  PROVE  SameBut(x, z, S \union T)
  BY DEF SameBut

\* A write reaches the memory behind the addresses of the segment.
LEMMA StoreEffect ==
  ASSUME NEW x, Shape(x), NEW s, NEW o, NEW value
  PROVE  LET y == Store(x, s, o, value)
         IN  /\ Shape(y) /\ SameBut(x, y, {"mem"})
             /\ \A t \in 0..NB_SEGMENTS: \A p \in Objs: \A c \in Cells(p):
                  y.mem[t][p][c] = IF p = o /\ Home(x, s, Layout[o][c]) = t
                                   THEN value[c] ELSE x.mem[t][p][c]
  <1> DEFINE y == Store(x, s, o, value)
             mem == [t \in 0..NB_SEGMENTS |-> [p \in Objs |-> [c \in Cells(p) |->
                       IF p = o /\ Home(x, s, Layout[o][c]) = t
                       THEN value[c] ELSE x.mem[t][p][c]]]]
  <1>1. SameBut(x, y, {"mem"}) /\ y.mem = mem
    BY DEF Store, Shape, IsHeap, SameBut, Fields
  <1> HIDE DEF y
  <1>2. Shape(y)
    BY <1>1 DEF Shape, IsHeap, SameBut, Fields
  <1>3. \A t \in 0..NB_SEGMENTS: \A p \in Objs: \A c \in Cells(p):
          y.mem[t][p][c] = IF p = o /\ Home(x, s, Layout[o][c]) = t
                           THEN value[c] ELSE x.mem[t][p][c]
    BY <1>1
  <1> QED BY <1>1, <1>2, <1>3 DEF y

CardsReset(x, of, value, all, y) ==
  /\ Shape(y) /\ SameBut(x, y, {"cards", "seg"})
  /\ \A o \in Objs: \A c \in Cells(o): y.cards[o][c] =
       IF (\E s \in DOMAIN of: o \in of[s]) /\ (all \/ x.cards[o][c] # CARD_CLEAR)
       THEN value ELSE x.cards[o][c]
  /\ \A s \in Segs: /\ SameListsBut(x, y, s, {"cards_set"})
                    /\ y.seg[s].cards_set = IF s \in DOMAIN of
                         THEN x.seg[s].cards_set \ of[s] ELSE x.seg[s].cards_set

\* _reset_object_cards().
LEMMA ResetEffect ==
  ASSUME NEW x, Shape(x), NEW of, NEW value, NEW all
  PROVE  CardsReset(x, of, value, all, _reset_object_cards(x, of, value, all))
  <1> DEFINE y == _reset_object_cards(x, of, value, all)
             objects == UNION {of[s]: s \in DOMAIN of}
  <1>1. /\ SameBut(x, y, {"cards", "seg"})
        /\ y.cards = [o \in Objs |-> [c \in Cells(o) |->
             IF o \in objects /\ (all \/ x.cards[o][c] # CARD_CLEAR)
             THEN value ELSE x.cards[o][c]]]
        /\ y.seg = [s \in Segs |-> [x.seg[s] EXCEPT
                      !.cards_set = IF s \in DOMAIN of THEN @ \ of[s] ELSE @]]
    BY DEF _reset_object_cards, Shape, IsHeap, SameBut, Fields
  <1> HIDE DEF y
  <1>2. ASSUME NEW s \in Segs
        PROVE  /\ SameListsBut(x, y, s, {"cards_set"})
               /\ y.seg[s].cards_set = IF s \in DOMAIN of
                    THEN x.seg[s].cards_set \ of[s] ELSE x.seg[s].cards_set
    <2>1. ListFields \subseteq DOMAIN x.seg[s]
      BY DEF Shape, IsHeap
    <2>2. y.seg[s] = [x.seg[s] EXCEPT
                      !.cards_set = IF s \in DOMAIN of THEN @ \ of[s] ELSE @]
      BY <1>1
    <2> QED BY <2>1, <2>2 DEF SameListsBut, ListFields
  <1>3. \A s \in Segs: DOMAIN y.seg[s] = DOMAIN x.seg[s]
                       /\ y.seg[s].number_used = x.seg[s].number_used
    BY <1>2 DEF SameListsBut, ListFields
  <1>4. Shape(y)
    BY <1>1, <1>3 DEF Shape, IsHeap, SameBut, Fields
  <1>5. \A o \in Objs: \A c \in Cells(o): y.cards[o][c] =
          IF (\E s \in DOMAIN of: o \in of[s]) /\ (all \/ x.cards[o][c] # CARD_CLEAR)
          THEN value ELSE x.cards[o][c]
    <2>1. \A o: o \in objects <=> \E s \in DOMAIN of: o \in of[s]
      OBVIOUS
    <2> HIDE DEF objects
    <2> QED BY <1>1, <2>1
  <1> HIDE DEF objects
  <1>6. CardsReset(x, of, value, all, y)
    BY <1>1, <1>2, <1>4, <1>5 DEF CardsReset
  <1> QED BY <1>6 DEF y

\* The cells of an object that synchronize_object_now() copies.
Copied(x, arrays, o) ==
  IF o \in arrays THEN _card_wise_synchronize_object_now(x, o) ELSE Cells(o)

CellsCopied(x, s, objects, arrays, y) ==
  \A o \in Objs: \A c \in Cells(o):
    /\ y.cards[o][c] = IF o \in arrays THEN CARD_CLEAR ELSE x.cards[o][c]
    /\ \A t \in 0..NB_SEGMENTS: y.mem[t][o][c] =
         IF /\ o \in objects /\ c \in Copied(x, arrays, o)
            /\ t = 0 \/ (t # s /\ t \in x.by_segment[Layout[o][c]])
         THEN x.mem[Home(x, s, Layout[o][c])][o][c] ELSE x.mem[t][o][c]

\* synchronize_object_now().
LEMMA SynchronizeEffect ==
  ASSUME NEW x, Shape(x), NEW s, NEW objects \in SUBSET Objs, NEW ignore_cards \in BOOLEAN
  PROVE  LET y == synchronize_object_now(x, s, objects, ignore_cards)
             arrays == IF ignore_cards THEN {} ELSE objects \intersect UsesCards
         IN  /\ Shape(y) /\ SameBut(x, y, {"mem", "cards"})
             /\ CellsCopied(x, s, objects, arrays, y)
  <1> DEFINE y == synchronize_object_now(x, s, objects, ignore_cards)
             arrays == IF ignore_cards THEN {} ELSE objects \intersect UsesCards
             fragments == [o \in objects |-> Copied(x, arrays, o)]
             a == _page_wise_synchronize_object_now(x, s, fragments)
             Reaches(t, o, c) ==
               /\ o \in DOMAIN fragments /\ c \in fragments[o]
               /\ t = 0 \/ (t # s /\ is_private_page(x, t, Layout[o][c]))
  <1>1. /\ SameBut(x, a, {"mem"})
        /\ a.mem = [t \in 0..NB_SEGMENTS |-> [o \in Objs |-> [c \in Cells(o) |->
             IF Reaches(t, o, c) THEN View(x, s, o)[c] ELSE x.mem[t][o][c]]]]
    BY DEF _page_wise_synchronize_object_now, Shape, IsHeap, SameBut, Fields
  <1>2. y = [a EXCEPT !.cards = [o \in Objs |->
               IF o \in arrays THEN AllCards(o, CARD_CLEAR) ELSE @[o]]]
    BY DEF synchronize_object_now, Copied
  <1> HIDE DEF a, y
  <1>3. /\ SameBut(x, y, {"mem", "cards"}) /\ y.mem = a.mem
        /\ y.cards = [o \in Objs |->
             IF o \in arrays THEN AllCards(o, CARD_CLEAR) ELSE x.cards[o]]
    <2>1. a.cards = x.cards /\ Fields \subseteq DOMAIN a
      BY <1>1 DEF SameBut, Fields, Shape, IsHeap
    <2> DEFINE cards == [o \in Objs |-> IF o \in arrays THEN AllCards(o, CARD_CLEAR)
                                         ELSE x.cards[o]]
    <2>2. y = [a EXCEPT !.cards = cards] /\ SameBut(x, a, {"mem"})
      BY <1>1, <1>2, <2>1
    <2> HIDE DEF cards
    <2>3. SameBut(x, y, {"mem", "cards"}) /\ y.mem = a.mem /\ y.cards = cards
      BY ONLY <2>1, <2>2 DEF SameBut, Fields
    <2> QED BY <2>3 DEF cards
  <1>4. ASSUME NEW o \in Objs, NEW c \in Cells(o)
        PROVE  y.cards[o][c] = IF o \in arrays THEN CARD_CLEAR ELSE x.cards[o][c]
    BY <1>3 DEF AllCards
  <1>5. ASSUME NEW o \in Objs, NEW c \in Cells(o), NEW t \in 0..NB_SEGMENTS
        PROVE  y.mem[t][o][c] =
                 IF /\ o \in objects /\ c \in Copied(x, arrays, o)
                    /\ t = 0 \/ (t # s /\ t \in x.by_segment[Layout[o][c]])
                 THEN x.mem[Home(x, s, Layout[o][c])][o][c] ELSE x.mem[t][o][c]
    <2>1. View(x, s, o)[c] = x.mem[Home(x, s, Layout[o][c])][o][c]
      BY DEF View
    <2>2. y.mem[t][o][c] = IF Reaches(t, o, c) THEN View(x, s, o)[c] ELSE x.mem[t][o][c]
      BY <1>1, <1>3
    <2>3. Reaches(t, o, c) <=>
            /\ o \in objects /\ c \in Copied(x, arrays, o)
            /\ t = 0 \/ (t # s /\ t \in x.by_segment[Layout[o][c]])
      BY DEF is_private_page
    <2> QED BY <2>1, <2>2, <2>3
  <1>6. Shape(y)
    <2>1. \A o \in Objs: DOMAIN y.cards[o] = Cells(o)
      BY <1>3 DEF AllCards, Shape
    <2>2. DOMAIN y.cards = Objs /\ DOMAIN y.mem = 0..NB_SEGMENTS
          /\ \A t \in 0..NB_SEGMENTS: DOMAIN y.mem[t] = Objs
      BY <1>1, <1>3
    <2> QED BY <1>3, <2>1, <2>2 DEF Shape, IsHeap, SameBut, Fields
  <1>7. CellsCopied(x, s, objects, arrays, y)
    BY <1>4, <1>5 DEF CellsCopied
  <1> QED BY <1>3, <1>6, <1>7 DEF y

-----------------------------------------------------------------------------
(* Minor collections.                                                      *)

Alive(x, s) == x.seg[s].young \intersect x.seg[s].mine
Traced(x, s) == x.seg[s].with_cards \intersect x.seg[s].cards_set

CardsTraced(x, S, y) ==
  \A o \in Objs: \A c \in Cells(o):
    IF (\E s \in S: o \in Traced(x, s)) /\ x.cards[o][c] = CARD_MARKED
    THEN \E s \in S: /\ o \in Traced(x, s)
                     /\ y.cards[o][c] = IF IS_OVERFLOW_OBJ(x, s, o)
                                        THEN CARD_CLEAR ELSE CARD_MARKED_OLD
    ELSE y.cards[o][c] = x.cards[o][c]

TracedCard(x, S, o, c) ==
  IF {s \in S: o \in Traced(x, s)} # {} /\ x.cards[o][c] = CARD_MARKED
  THEN IF IS_OVERFLOW_OBJ(x, CHOOSE s \in S: o \in Traced(x, s), o)
       THEN CARD_CLEAR ELSE CARD_MARKED_OLD
  ELSE x.cards[o][c]

\* collect_cardrefs_to_nursery().
LEMMA TracedEffect ==
  ASSUME NEW x, Shape(x), NEW S \in SUBSET Segs
  PROVE  LET y == collect_cardrefs_to_nursery(x, S)
         IN  /\ Shape(y) /\ SameBut(x, y, {"cards", "seg"}) /\ CardsTraced(x, S, y)
             /\ \A s \in Segs:
                  /\ SameListsBut(x, y, s, {"with_cards", "cards_set"})
                  /\ y.seg[s].with_cards = IF s \in S THEN {} ELSE x.seg[s].with_cards
                  /\ y.seg[s].cards_set = IF s \in S THEN x.seg[s].cards_set \ Traced(x, s)
                                          ELSE x.seg[s].cards_set
  <1> DEFINE y == collect_cardrefs_to_nursery(x, S)
  <1>0. y.cards = [o \in Objs |-> [c \in Cells(o) |-> TracedCard(x, S, o, c)]]
    BY DEF collect_cardrefs_to_nursery, Traced, TracedCard, Shape, IsHeap, SameBut, Fields
  <1>1. /\ SameBut(x, y, {"cards", "seg"})
        /\ y.seg = [s \in Segs |-> IF s \notin S THEN x.seg[s] ELSE
             [x.seg[s] EXCEPT !.with_cards = {}, !.cards_set = @ \ Traced(x, s)]]
    BY DEF collect_cardrefs_to_nursery, Traced, TracedCard, Shape, IsHeap, SameBut, Fields
  <1> HIDE DEF y
  <1>2. ASSUME NEW s \in Segs
        PROVE  /\ SameListsBut(x, y, s, {"with_cards", "cards_set"})
               /\ y.seg[s].with_cards = IF s \in S THEN {} ELSE x.seg[s].with_cards
               /\ y.seg[s].cards_set = IF s \in S THEN x.seg[s].cards_set \ Traced(x, s)
                                       ELSE x.seg[s].cards_set
    <2>1. ListFields \subseteq DOMAIN x.seg[s]
      BY DEF Shape, IsHeap
    <2>2. CASE s \in S
      <3>1. y.seg[s] = [x.seg[s] EXCEPT !.with_cards = {}, !.cards_set = @ \ Traced(x, s)]
        BY <1>1, <2>2
      <3> QED BY <2>1, <2>2, <3>1 DEF SameListsBut, ListFields
    <2>3. CASE s \notin S
      <3>1. y.seg[s] = x.seg[s]
        BY <1>1, <2>3
      <3> QED BY <2>3, <3>1 DEF SameListsBut
    <2> QED BY <2>2, <2>3
  <1>3. \A s \in Segs: DOMAIN y.seg[s] = DOMAIN x.seg[s]
                       /\ y.seg[s].number_used = x.seg[s].number_used
    BY <1>2 DEF SameListsBut, ListFields
  <1>4. Shape(y)
    <2>1. DOMAIN y.cards = Objs /\ \A o \in Objs: DOMAIN y.cards[o] = Cells(o)
      BY ONLY <1>0, Zenon
    <2>2. DOMAIN y.seg = Segs /\ SameBut(x, y, {"cards", "seg"})
      BY <1>1
    <2>3. Shape(x)
      OBVIOUS
    <2> QED BY ONLY <1>3, <2>1, <2>2, <2>3 DEF Shape, IsHeap, SameBut, Fields
  <1>5. ASSUME NEW o \in Objs, NEW c \in Cells(o)
        PROVE  IF (\E s \in S: o \in Traced(x, s)) /\ x.cards[o][c] = CARD_MARKED
               THEN \E s \in S: /\ o \in Traced(x, s)
                                /\ y.cards[o][c] = IF IS_OVERFLOW_OBJ(x, s, o)
                                                   THEN CARD_CLEAR ELSE CARD_MARKED_OLD
               ELSE y.cards[o][c] = x.cards[o][c]
    <2>0. y.cards[o] = [d \in Cells(o) |-> TracedCard(x, S, o, d)]
      BY ONLY <1>0, Zenon
    <2>1. y.cards[o][c] = TracedCard(x, S, o, c)
      BY ONLY <2>0
    <2>2. CASE (\E s \in S: o \in Traced(x, s)) /\ x.cards[o][c] = CARD_MARKED
      <3> DEFINE t == CHOOSE s \in S: o \in Traced(x, s)
      <3>1. t \in S /\ o \in Traced(x, t)
        BY <2>2
      <3>2. y.cards[o][c] = IF IS_OVERFLOW_OBJ(x, t, o) THEN CARD_CLEAR ELSE CARD_MARKED_OLD
        BY <2>1, <2>2 DEF TracedCard
      <3> HIDE DEF t
      <3> QED BY <2>2, <3>1, <3>2
    <2>3. CASE ~((\E s \in S: o \in Traced(x, s)) /\ x.cards[o][c] = CARD_MARKED)
      BY <2>1, <2>3 DEF TracedCard
    <2> QED BY <2>2, <2>3
  <1>6. CardsTraced(x, S, y)
    BY <1>5 DEF CardsTraced
  <1> QED BY <1>1, <1>2, <1>4, <1>6 DEF y

\* throw_away_nursery().
LEMMA ThrownEffect ==
  ASSUME NEW x, Shape(x), NEW S
  PROVE  LET y == throw_away_nursery(x, S)
         IN  /\ Shape(y) /\ SameBut(x, y, {"used", "total_allocated", "seg"})
             /\ y.used = x.used \ UNION {x.seg[s].young : s \in S}
             /\ \A s \in Segs: /\ SameListsBut(x, y, s, {"young"})
                               /\ y.seg[s].young = IF s \in S THEN {} ELSE x.seg[s].young
  <1> DEFINE y == throw_away_nursery(x, S)
  <1>1. /\ SameBut(x, y, {"used", "total_allocated", "seg"})
        /\ y.used = x.used \ UNION {x.seg[s].young : s \in S}
        /\ y.seg = [s \in Segs |-> [x.seg[s] EXCEPT !.young = IF s \in S THEN {} ELSE @]]
    BY DEF throw_away_nursery, Shape, IsHeap, SameBut, Fields
  <1> HIDE DEF y
  <1>2. ASSUME NEW s \in Segs
        PROVE  /\ SameListsBut(x, y, s, {"young"})
               /\ y.seg[s].young = IF s \in S THEN {} ELSE x.seg[s].young
    <2>1. ListFields \subseteq DOMAIN x.seg[s]
      BY DEF Shape, IsHeap
    <2>2. y.seg[s] = [x.seg[s] EXCEPT !.young = IF s \in S THEN {} ELSE @]
      BY <1>1
    <2> QED BY <2>1, <2>2 DEF SameListsBut, ListFields
  <1>3. \A s \in Segs: DOMAIN y.seg[s] = DOMAIN x.seg[s]
                       /\ y.seg[s].number_used = x.seg[s].number_used
    BY <1>2 DEF SameListsBut, ListFields
  <1>4. Shape(y)
    BY <1>1, <1>3 DEF Shape, IsHeap, SameBut, Fields
  <1> QED BY <1>1, <1>2, <1>4 DEF y

NumbersGiven(x, S, commit, y) ==
  \A o \in Objs:
    IF ~commit /\ \E s \in S: o \in Alive(x, s)
    THEN \E s \in S: o \in Alive(x, s) /\ y.number[o] = x.seg[s].overflow_number
    ELSE y.number[o] = x.number[o]

ListsCollected(x, s, commit, y) ==
  LET g == x.seg[s]
  IN  /\ SameListsBut(x, y, s, {"with_cards", "cards_set", "open", "pointing", "young",
                                "number_used", "overflow"})
      /\ y.seg[s].with_cards = {}
      /\ y.seg[s].cards_set = g.cards_set \ Traced(x, s)
      /\ y.seg[s].open = g.open \ (IF g.pointing = NULL THEN g.modified ELSE g.pointing)
      /\ y.seg[s].pointing = {}
      /\ y.seg[s].young = {}
      /\ y.seg[s].number_used = (g.number_used \/ ~commit)
      /\ y.seg[s].overflow = IF commit THEN g.overflow
                             ELSE Alive(x, s) \union (IF g.overflow = NULL THEN {}
                                                      ELSE g.overflow)

MinorLists(x, S, commit, y) ==
  /\ Shape(y)
  /\ SameBut(x, y, {"cards", "used", "number", "total_allocated", "seg"})
  /\ y.used = x.used \ UNION {x.seg[u].young \ x.seg[u].mine : u \in S}
  /\ CardsTraced(x, S, y)
  /\ NumbersGiven(x, S, commit, y)
  /\ \A s \in Segs: IF s \in S THEN ListsCollected(x, s, commit, y)
                    ELSE SameListsBut(x, y, s, {})

\* _do_minor_collection().
LEMMA MinorListsEffect ==
  ASSUME NEW x, Shape(x), NEW S \in SUBSET Segs, NEW commit \in BOOLEAN
  PROVE  MinorLists(x, S, commit, _do_minor_collection(x, S, commit))
  <1> DEFINE alive(g) == g.young \intersect g.mine
             After(g) == [g EXCEPT
               !.open     = @ \ (IF g.pointing = NULL THEN g.modified ELSE g.pointing),
               !.pointing = {},
               !.young    = @ \ alive(g),
               !.number_used = @ \/ ~commit,
               !.overflow = IF commit THEN @
                            ELSE alive(g) \union (IF @ = NULL THEN {} ELSE @)]
             c == collect_cardrefs_to_nursery(x, S)
             Survives(o) == {s \in S: o \in alive(x.seg[s])}
             number == [o \in Objs |-> IF commit \/ Survives(o) = {} THEN x.number[o]
                              ELSE x.seg[CHOOSE s \in Survives(o): TRUE].overflow_number]
             seg == [s \in Segs |-> IF s \in S THEN After(c.seg[s]) ELSE c.seg[s]]
             z == [c EXCEPT !.number = number, !.seg = seg]
             y == throw_away_nursery(z, S)
  <1>1. /\ Shape(c) /\ SameBut(x, c, {"cards", "seg"}) /\ CardsTraced(x, S, c)
        /\ \A s \in Segs:
             /\ SameListsBut(x, c, s, {"with_cards", "cards_set"})
             /\ c.seg[s].with_cards = IF s \in S THEN {} ELSE x.seg[s].with_cards
             /\ c.seg[s].cards_set = IF s \in S THEN x.seg[s].cards_set \ Traced(x, s)
                                     ELSE x.seg[s].cards_set
    BY TracedEffect
  <1>2. _do_minor_collection(x, S, commit) = y
    <2>1. c.number = x.number
      BY <1>1 DEF SameBut, Fields
    <2> QED BY <2>1 DEF _do_minor_collection
  <1> HIDE DEF c
  <1>3. SameBut(c, z, {"number", "seg"}) /\ z.number = number /\ z.seg = seg
    <2> HIDE DEF number, seg
    <2> QED BY <1>1 DEF Shape, IsHeap, SameBut, Fields
  <1> HIDE DEF z
  <1>4. ASSUME NEW s \in S
        PROVE  /\ DOMAIN z.seg[s] = DOMAIN x.seg[s] /\ z.seg[s].number_used \in BOOLEAN
               /\ \A f \in {"modified", "mine", "plain", "overflow_number"}:
                    z.seg[s][f] = x.seg[s][f]
               /\ z.seg[s].with_cards = {}
               /\ z.seg[s].cards_set = x.seg[s].cards_set \ Traced(x, s)
               /\ z.seg[s].open = x.seg[s].open \ (IF x.seg[s].pointing = NULL
                                    THEN x.seg[s].modified ELSE x.seg[s].pointing)
               /\ z.seg[s].pointing = {}
               /\ z.seg[s].young = x.seg[s].young \ x.seg[s].mine
               /\ z.seg[s].number_used = (x.seg[s].number_used \/ ~commit)
               /\ z.seg[s].overflow = IF commit THEN x.seg[s].overflow
                    ELSE Alive(x, s) \union (IF x.seg[s].overflow = NULL THEN {}
                                             ELSE x.seg[s].overflow)
    <2>1. z.seg[s] = After(c.seg[s])
      BY <1>3
    <2>2. ListFields \subseteq DOMAIN c.seg[s] /\ DOMAIN c.seg[s] = DOMAIN x.seg[s]
          /\ x.seg[s].number_used \in BOOLEAN
      BY <1>1 DEF Shape, IsHeap, SameListsBut
    <2>3. \A f \in ListFields \ {"with_cards", "cards_set"}: c.seg[s][f] = x.seg[s][f]
      BY <1>1 DEF SameListsBut
    <2>4. /\ c.seg[s].with_cards = {}
          /\ c.seg[s].cards_set = x.seg[s].cards_set \ Traced(x, s)
      BY <1>1
    <2> DEFINE g == c.seg[s]
               h == x.seg[s]
    <2>5. /\ g.modified = h.modified /\ g.mine = h.mine /\ g.plain = h.plain
          /\ g.overflow_number = h.overflow_number /\ g.open = h.open
          /\ g.pointing = h.pointing /\ g.young = h.young /\ g.overflow = h.overflow
          /\ g.number_used = h.number_used
      BY <2>3 DEF ListFields
    <2> HIDE DEF g
    <2>6. /\ DOMAIN After(g) = DOMAIN g
          /\ \A f \in {"modified", "mine", "plain", "overflow_number", "with_cards",
                       "cards_set"}: After(g)[f] = g[f]
          /\ After(g).pointing = {} /\ After(g).young = g.young \ g.mine
          /\ After(g).number_used = (g.number_used \/ ~commit)
          /\ After(g).open = g.open \ (IF g.pointing = NULL THEN g.modified ELSE g.pointing)
          /\ After(g).overflow = IF commit THEN g.overflow
                ELSE alive(g) \union (IF g.overflow = NULL THEN {} ELSE g.overflow)
      <3>1. ListFields \subseteq DOMAIN g
        BY <2>2 DEF g
      <3> QED BY <3>1 DEF ListFields
    <2>7. z.seg[s] = After(g)
      BY <2>1 DEF g
    <2>8. /\ g.with_cards = {} /\ g.cards_set = h.cards_set \ Traced(x, s)
          /\ DOMAIN g = DOMAIN h /\ h.number_used \in BOOLEAN
      BY <2>2, <2>4 DEF g
    <2> HIDE DEF After
    <2> QED BY <2>5, <2>6, <2>7, <2>8 DEF Alive
  <1>5. ASSUME NEW s \in Segs, s \notin S
        PROVE  z.seg[s] = c.seg[s] /\ SameListsBut(x, c, s, {})
    <2>1. z.seg[s] = c.seg[s]
      BY <1>3, <1>5
    <2>2. /\ SameListsBut(x, c, s, {"with_cards", "cards_set"})
          /\ c.seg[s].with_cards = x.seg[s].with_cards
          /\ c.seg[s].cards_set = x.seg[s].cards_set
      BY <1>1, <1>5
    <2> QED BY <2>1, <2>2 DEF SameListsBut, ListFields
  <1>6. Shape(z)
    <2>1. \A s \in Segs: DOMAIN z.seg[s] = DOMAIN x.seg[s] /\ z.seg[s].number_used \in BOOLEAN
      BY <1>1, <1>4, <1>5 DEF SameListsBut, Shape
    <2>2. DOMAIN z.seg = Segs /\ DOMAIN z.number = Objs
      BY <1>3
    <2>3. Shape(c) /\ SameBut(c, z, {"number", "seg"})
      BY <1>1, <1>3
    <2>4. \A s \in Segs: DOMAIN c.seg[s] = DOMAIN x.seg[s]
      BY <1>1 DEF SameListsBut
    <2> QED BY ONLY <2>1, <2>2, <2>3, <2>4 DEF Shape, IsHeap, SameBut, Fields
  <1>7. /\ Shape(y) /\ SameBut(z, y, {"used", "total_allocated", "seg"})
        /\ y.used = z.used \ UNION {z.seg[s].young : s \in S}
        /\ \A s \in Segs: /\ SameListsBut(z, y, s, {"young"})
                          /\ y.seg[s].young = IF s \in S THEN {} ELSE z.seg[s].young
    BY <1>6, ThrownEffect
  <1> HIDE DEF y
  <1>8. SameBut(x, y, {"cards", "used", "number", "total_allocated", "seg"})
    BY <1>1, <1>3, <1>7 DEF SameBut
  <1>9. y.used = x.used \ UNION {x.seg[u].young \ x.seg[u].mine : u \in S}
    <2>1. z.used = x.used
      BY <1>1, <1>3 DEF SameBut, Fields
    <2>2. \A s \in S: z.seg[s].young = x.seg[s].young \ x.seg[s].mine
      BY <1>4
    <2>3. UNION {z.seg[s].young : s \in S} = UNION {x.seg[u].young \ x.seg[u].mine : u \in S}
      BY ONLY <2>2
    <2> QED BY <1>7, <2>1, <2>3
  <1>10. CardsTraced(x, S, y)
    <2>1. y.cards = c.cards
      BY <1>3, <1>7 DEF SameBut, Fields
    <2> QED BY <1>1, <2>1 DEF CardsTraced
  <1>11. NumbersGiven(x, S, commit, y)
    <2>1. y.number = number
      BY <1>3, <1>7 DEF SameBut, Fields
    <2>2. ASSUME NEW o \in Objs
          PROVE  IF ~commit /\ \E s \in S: o \in Alive(x, s)
                 THEN \E s \in S: o \in Alive(x, s) /\ y.number[o] = x.seg[s].overflow_number
                 ELSE y.number[o] = x.number[o]
      <3>1. Survives(o) = {s \in S: o \in Alive(x, s)}
        BY DEF Alive
      <3>2. y.number[o] = IF commit \/ Survives(o) = {} THEN x.number[o]
                              ELSE x.seg[CHOOSE s \in Survives(o): TRUE].overflow_number
        BY <2>1
      <3> HIDE DEF Survives
      <3> DEFINE t == CHOOSE s \in Survives(o): TRUE
      <3>3. Survives(o) # {} => t \in Survives(o)
        OBVIOUS
      <3> HIDE DEF t
      <3> QED BY <3>1, <3>2, <3>3 DEF t
    <2> QED BY <2>2 DEF NumbersGiven
  <1>12. ASSUME NEW s \in Segs
         PROVE  IF s \in S THEN ListsCollected(x, s, commit, y)
                ELSE SameListsBut(x, y, s, {})
    <2>1. SameListsBut(z, y, s, {"young"})
          /\ y.seg[s].young = IF s \in S THEN {} ELSE z.seg[s].young
      BY <1>7
    <2>2. CASE s \in S
      <3>1. y.seg[s].young = {}
        BY <2>1, <2>2
      <3>2. DOMAIN y.seg[s] = DOMAIN x.seg[s]
            /\ \A f \in {"modified", "mine", "plain", "overflow_number"}:
                 y.seg[s][f] = x.seg[s][f]
        BY ZenonT(60), <1>4, <2>1, <2>2 DEF SameListsBut, ListFields
      <3>3. SameListsBut(x, y, s, {"with_cards", "cards_set", "open", "pointing", "young",
                                   "number_used", "overflow"})
        BY <3>2 DEF SameListsBut, ListFields
      <3>4. /\ y.seg[s].with_cards = z.seg[s].with_cards
            /\ y.seg[s].cards_set = z.seg[s].cards_set
            /\ y.seg[s].open = z.seg[s].open
            /\ y.seg[s].pointing = z.seg[s].pointing
            /\ y.seg[s].number_used = z.seg[s].number_used
            /\ y.seg[s].overflow = z.seg[s].overflow
        BY <2>1 DEF SameListsBut, ListFields
      <3> QED BY <1>4, <2>2, <3>1, <3>3, <3>4 DEF ListsCollected
    <2>3. CASE s \notin S
      BY <1>5, <2>1, <2>3 DEF SameListsBut, ListFields
    <2> QED BY <2>2, <2>3
  <1>13. MinorLists(x, S, commit, y)
    BY <1>7, <1>8, <1>9, <1>10, <1>11, <1>12 DEF MinorLists
  <1> QED BY <1>2, <1>13

-----------------------------------------------------------------------------
(* Commits, aborts and fork().                                             *)

ListsForgotten(x, s, y) ==
  /\ SameListsBut(x, y, s, {"modified", "pointing", "with_cards", "overflow", "open",
                            "mine", "plain", "young", "cards_set"})
  /\ y.seg[s].modified = {} /\ y.seg[s].pointing = NULL /\ y.seg[s].with_cards = {}
  /\ y.seg[s].overflow = NULL /\ y.seg[s].open = {} /\ y.seg[s].mine = {}
  /\ y.seg[s].plain = {}

\* The lists that are empty between transactions.
LEMMA FinishedEffect ==
  ASSUME NEW x, Shape(x), NEW S
  PROVE  LET y == Finished(x, S)
         IN  /\ Shape(y) /\ SameBut(x, y, {"seg"})
             /\ \A s \in Segs: IF s \in S
                  THEN /\ ListsForgotten(x, s, y)
                       /\ y.seg[s].young = x.seg[s].young
                       /\ y.seg[s].cards_set = x.seg[s].cards_set
                  ELSE SameListsBut(x, y, s, {})
  <1> DEFINE y == Finished(x, S)
  <1>1. /\ SameBut(x, y, {"seg"})
        /\ y.seg = [s \in Segs |-> IF s \notin S THEN x.seg[s] ELSE
             [x.seg[s] EXCEPT !.modified = {}, !.pointing = NULL, !.with_cards = {},
                      !.overflow = NULL, !.open = {}, !.mine = {}, !.plain = {}]]
    BY DEF Finished, Shape, IsHeap, SameBut, Fields
  <1> HIDE DEF y
  <1>2. ASSUME NEW s \in Segs
        PROVE  IF s \in S
               THEN /\ ListsForgotten(x, s, y)
                    /\ y.seg[s].young = x.seg[s].young
                    /\ y.seg[s].cards_set = x.seg[s].cards_set
               ELSE SameListsBut(x, y, s, {})
    <2>1. ListFields \subseteq DOMAIN x.seg[s]
      BY DEF Shape, IsHeap
    <2>2. CASE s \in S
      <3>1. y.seg[s] = [x.seg[s] EXCEPT !.modified = {}, !.pointing = NULL,
                          !.with_cards = {}, !.overflow = NULL, !.open = {}, !.mine = {},
                          !.plain = {}]
        BY <1>1, <2>2
      <3> QED BY <2>1, <2>2, <3>1 DEF ListsForgotten, SameListsBut, ListFields
    <2>3. CASE s \notin S
      <3>1. y.seg[s] = x.seg[s]
        BY <1>1, <2>3
      <3> QED BY <2>3, <3>1 DEF SameListsBut
    <2> QED BY <2>2, <2>3
  <1>3. \A s \in Segs: DOMAIN y.seg[s] = DOMAIN x.seg[s]
                       /\ y.seg[s].number_used = x.seg[s].number_used
    BY <1>2 DEF ListsForgotten, SameListsBut, ListFields
  <1>4. Shape(y)
    <2>1. DOMAIN y.seg = Segs
      BY <1>1
    <2>2. SameBut(x, y, {"seg"}) /\ Shape(x)
      BY <1>1
    <2> QED BY ONLY <1>3, <2>1, <2>2 DEF Shape, IsHeap, SameBut, Fields
  <1> QED BY <1>1, <1>2, <1>4 DEF y

\* The objects whose cards an abort clears.
Marked(x, s) ==
  (IF x.seg[s].overflow = NULL THEN {} ELSE x.seg[s].overflow \intersect x.seg[s].cards_set)
    \union (x.seg[s].modified \intersect UsesCards)

AbortLists(x, S, y) ==
  /\ Shape(y)
  /\ SameBut(x, y, {"mem", "write_locks", "cards", "used", "total_allocated", "seg"})
  /\ y.used = x.used \ UNION {x.seg[s].young : s \in S}
  /\ \A o \in Objs: \A c \in Cells(o):
       /\ y.cards[o][c] = IF \E s \in S: o \in Marked(x, s) THEN CARD_CLEAR
                          ELSE x.cards[o][c]
       /\ \A t \in 0..NB_SEGMENTS: y.mem[t][o][c] =
            IF \E s \in S: o \in x.seg[s].modified /\ Home(x, s, Layout[o][c]) = t
            THEN x.mem[0][o][c] ELSE x.mem[t][o][c]
  /\ \A s \in Segs: IF s \in S
       THEN /\ ListsForgotten(x, s, y) /\ y.seg[s].young = {}
            /\ y.seg[s].cards_set = x.seg[s].cards_set \ Marked(x, s)
       ELSE SameListsBut(x, y, s, {})

\* reset_modified_from_other_segments().
LEMMA UndoneEffect ==
  ASSUME NEW x, Shape(x), NEW S
  PROVE  LET y == reset_modified_from_other_segments(x, S)
         IN  /\ Shape(y) /\ SameBut(x, y, {"mem", "write_locks"})
             /\ \A o \in Objs: \A c \in Cells(o): \A t \in 0..NB_SEGMENTS: y.mem[t][o][c] =
                  IF \E s \in S: o \in x.seg[s].modified /\ Home(x, s, Layout[o][c]) = t
                  THEN x.mem[0][o][c] ELSE x.mem[t][o][c]
  <1> DEFINE y == reset_modified_from_other_segments(x, S)
             mem == [t \in 0..NB_SEGMENTS |-> [o \in Objs |-> [c \in Cells(o) |->
                       IF \E s \in {u \in S: o \in x.seg[u].modified}:
                            Home(x, s, Layout[o][c]) = t
                       THEN x.mem[0][o][c] ELSE x.mem[t][o][c]]]]
  <1>1. /\ SameBut(x, y, {"mem", "write_locks"}) /\ y.mem = mem
        /\ DOMAIN y.write_locks = Objs
    BY DEF reset_modified_from_other_segments, Shape, IsHeap, SameBut, Fields
  <1> HIDE DEF y
  <1>2. DOMAIN y.mem = 0..NB_SEGMENTS /\ \A t \in 0..NB_SEGMENTS: DOMAIN y.mem[t] = Objs
    BY <1>1
  <1>3. \A o \in Objs: \A c \in Cells(o): \A t \in 0..NB_SEGMENTS: y.mem[t][o][c] =
          IF \E s \in S: o \in x.seg[s].modified /\ Home(x, s, Layout[o][c]) = t
          THEN x.mem[0][o][c] ELSE x.mem[t][o][c]
    BY <1>1
  <1> HIDE DEF mem
  <1>4. Shape(y)
    BY <1>1, <1>2 DEF Shape, IsHeap, SameBut, Fields
  <1> QED BY <1>1, <1>3, <1>4 DEF y

\* abort_data_structures_from_segment_num().
LEMMA AbortEffect ==
  ASSUME NEW x, Shape(x), NEW S \in SUBSET Segs
  PROVE  AbortLists(x, S, abort_data_structures_from_segment_num(x, S))
  <1> DEFINE marked(g) == IF g.overflow = NULL THEN {}
                          ELSE g.overflow \intersect g.cards_set
             arrays == [s \in S |-> marked(x.seg[s])
                               \union (x.seg[s].modified \intersect UsesCards)]
             a == throw_away_nursery(x, S)
             b == _reset_object_cards(a, arrays, CARD_CLEAR, FALSE)
             c == reset_modified_from_other_segments(b, S)
             y == Finished(c, S)
  <1>1. abort_data_structures_from_segment_num(x, S) = y
    BY DEF abort_data_structures_from_segment_num
  <1>2. /\ Shape(a) /\ SameBut(x, a, {"used", "total_allocated", "seg"})
        /\ a.used = x.used \ UNION {x.seg[s].young : s \in S}
        /\ \A s \in Segs: /\ SameListsBut(x, a, s, {"young"})
                          /\ a.seg[s].young = IF s \in S THEN {} ELSE x.seg[s].young
    BY ThrownEffect
  <1>3. DOMAIN arrays = S /\ \A s \in S: arrays[s] = Marked(x, s)
    BY DEF Marked
  <1> HIDE DEF a, arrays
  <1>4. CardsReset(a, arrays, CARD_CLEAR, FALSE, b)
    BY <1>2, ResetEffect
  <1> HIDE DEF b
  <1>5. /\ Shape(c) /\ SameBut(b, c, {"mem", "write_locks"})
        /\ \A o \in Objs: \A d \in Cells(o): \A t \in 0..NB_SEGMENTS: c.mem[t][o][d] =
             IF \E s \in S: o \in b.seg[s].modified /\ Home(b, s, Layout[o][d]) = t
             THEN b.mem[0][o][d] ELSE b.mem[t][o][d]
    BY <1>4, UndoneEffect DEF CardsReset
  <1> HIDE DEF c
  <1>6. /\ Shape(y) /\ SameBut(c, y, {"seg"})
        /\ \A s \in Segs: IF s \in S
             THEN /\ ListsForgotten(c, s, y)
                  /\ y.seg[s].young = c.seg[s].young
                  /\ y.seg[s].cards_set = c.seg[s].cards_set
             ELSE SameListsBut(c, y, s, {})
    BY <1>5, FinishedEffect
  <1> HIDE DEF y
  <1>7. SameBut(x, y, {"mem", "write_locks", "cards", "used", "total_allocated", "seg"})
    BY <1>2, <1>4, <1>5, <1>6 DEF SameBut, CardsReset
  <1>8. /\ y.used = a.used /\ y.cards = b.cards /\ y.mem = c.mem /\ c.seg = b.seg
        /\ b.mem = x.mem /\ b.by_segment = x.by_segment /\ a.cards = x.cards
    BY <1>2, <1>4, <1>5, <1>6 DEF SameBut, CardsReset, Fields
  <1>9. ASSUME NEW s \in Segs
        PROVE  /\ SameListsBut(x, c, s, {"young", "cards_set"})
               /\ c.seg[s].young = IF s \in S THEN {} ELSE x.seg[s].young
               /\ c.seg[s].cards_set = IF s \in S THEN x.seg[s].cards_set \ Marked(x, s)
                                       ELSE x.seg[s].cards_set
    <2>1. /\ SameListsBut(a, b, s, {"cards_set"})
          /\ b.seg[s].cards_set = IF s \in S THEN a.seg[s].cards_set \ Marked(x, s)
                                  ELSE a.seg[s].cards_set
      BY <1>3, <1>4 DEF CardsReset
    <2>2. /\ SameListsBut(x, a, s, {"young"})
          /\ a.seg[s].young = IF s \in S THEN {} ELSE x.seg[s].young
      BY <1>2
    <2> QED BY <1>8, <2>1, <2>2 DEF SameListsBut, ListFields
  <1>10. ASSUME NEW o \in Objs, NEW d \in Cells(o)
         PROVE  /\ y.cards[o][d] = IF \E s \in S: o \in Marked(x, s) THEN CARD_CLEAR
                                   ELSE x.cards[o][d]
                /\ \A t \in 0..NB_SEGMENTS: y.mem[t][o][d] =
                     IF \E s \in S: o \in x.seg[s].modified /\ Home(x, s, Layout[o][d]) = t
                     THEN x.mem[0][o][d] ELSE x.mem[t][o][d]
    <2>1. y.cards[o][d] = IF (\E s \in S: o \in Marked(x, s)) /\ x.cards[o][d] # CARD_CLEAR
                          THEN CARD_CLEAR ELSE x.cards[o][d]
      BY <1>3, <1>4, <1>8 DEF CardsReset
    <2>2. \A s \in S: b.seg[s].modified = x.seg[s].modified
      BY <1>8, <1>9 DEF SameListsBut, ListFields
    <2>3. \A s: Home(b, s, Layout[o][d]) = Home(x, s, Layout[o][d])
      BY <1>8 DEF Home, is_private_page
    <2> QED BY <1>5, <1>8, <2>1, <2>2, <2>3
  <1>11. ASSUME NEW s \in Segs
         PROVE  IF s \in S
                THEN /\ ListsForgotten(x, s, y) /\ y.seg[s].young = {}
                     /\ y.seg[s].cards_set = x.seg[s].cards_set \ Marked(x, s)
                ELSE SameListsBut(x, y, s, {})
    <2>1. CASE s \in S
      <3>1. ListsForgotten(c, s, y) /\ y.seg[s].young = c.seg[s].young
            /\ y.seg[s].cards_set = c.seg[s].cards_set
        BY <1>6, <2>1
      <3> QED BY <1>9, <2>1, <3>1 DEF ListsForgotten, SameListsBut, ListFields
    <2>2. CASE s \notin S
      <3>1. SameListsBut(c, y, s, {})
        BY <1>6, <2>2
      <3>2. /\ SameListsBut(x, c, s, {"young", "cards_set"})
            /\ c.seg[s].young = x.seg[s].young /\ c.seg[s].cards_set = x.seg[s].cards_set
        BY <1>9, <2>2
      <3>3. SameListsBut(x, y, s, {})
        BY ONLY <3>1, <3>2 DEF SameListsBut, ListFields
      <3> QED BY <2>2, <3>3
    <2> QED BY <2>1, <2>2
  <1>12. AbortLists(x, S, y)
    BY <1>2, <1>6, <1>7, <1>8, <1>10, <1>11 DEF AbortLists
  <1> QED BY <1>1, <1>12

CommitLists(x, s, y) ==
  LET g == x.seg[s]
  IN  /\ Shape(y) /\ SameBut(x, y, {"mem", "write_locks", "cards", "seg"})
      /\ CellsCopied(x, s, g.modified, g.modified \intersect UsesCards, y)
      /\ \A t \in Segs \ {s}: SameListsBut(x, y, t, {})
      /\ SameListsBut(x, y, s, {"modified", "pointing", "with_cards", "overflow", "open",
                                "mine", "plain", "overflow_number", "number_used"})
      /\ y.seg[s].modified = {} /\ y.seg[s].pointing = NULL /\ y.seg[s].with_cards = {}
      /\ y.seg[s].overflow = NULL /\ y.seg[s].open = {} /\ y.seg[s].mine = {}
      /\ y.seg[s].plain = {}
      /\ y.seg[s].overflow_number = IF g.number_used THEN highest_overflow_number + 1
                                    ELSE g.overflow_number
      /\ y.seg[s].number_used = FALSE

\* A new overflow number, if the old one was used.
LEMMA NumberEffect ==
  ASSUME NEW x, Shape(x), NEW s \in Segs
  PROVE  LET y == OverflowNumber(x, s)
         IN  /\ Shape(y) /\ SameBut(x, y, {"seg"})
             /\ \A t \in Segs \ {s}: SameListsBut(x, y, t, {})
             /\ SameListsBut(x, y, s, {"overflow_number", "number_used"})
             /\ y.seg[s].overflow_number = IF x.seg[s].number_used
                  THEN highest_overflow_number + 1 ELSE x.seg[s].overflow_number
             /\ y.seg[s].number_used = FALSE
  <1> DEFINE y == OverflowNumber(x, s)
  <1>1. CASE x.seg[s].number_used
    <2> DEFINE g == [x.seg[s] EXCEPT !.overflow_number = highest_overflow_number + 1,
                                     !.number_used = FALSE]
    <2>1. y = [x EXCEPT !.seg[s].overflow_number = highest_overflow_number + 1,
                        !.seg[s].number_used = FALSE]
      BY <1>1 DEF OverflowNumber
    <2> HIDE DEF y
    <2>2. DOMAIN x.seg = Segs /\ Fields \subseteq DOMAIN x
          /\ \A t \in Segs: ListFields \subseteq DOMAIN x.seg[t]
      BY DEF Shape, IsHeap
    <2>3. SameBut(x, y, {"seg"}) /\ y.seg = [x.seg EXCEPT ![s] = g]
      BY <2>1, <2>2 DEF SameBut, Fields
    <2>4. /\ DOMAIN g = DOMAIN x.seg[s] /\ g.number_used = FALSE
          /\ g.overflow_number = highest_overflow_number + 1
          /\ \A f \in ListFields \ {"overflow_number", "number_used"}: g[f] = x.seg[s][f]
      BY <2>2 DEF ListFields
    <2> HIDE DEF g
    <2>5. DOMAIN y.seg = Segs /\ y.seg[s] = g /\ \A t \in Segs \ {s}: y.seg[t] = x.seg[t]
      BY <2>2, <2>3
    <2>6. Shape(y)
      <3>1. \A t \in Segs: DOMAIN y.seg[t] = DOMAIN x.seg[t] /\ y.seg[t].number_used \in BOOLEAN
        BY <2>4, <2>5 DEF Shape
      <3>2. DOMAIN y.seg = Segs /\ SameBut(x, y, {"seg"}) /\ Shape(x)
        BY <2>3, <2>5
      <3> QED BY ONLY <3>1, <3>2 DEF Shape, IsHeap, SameBut, Fields
    <2>7. SameListsBut(x, y, s, {"overflow_number", "number_used"})
          /\ \A t \in Segs \ {s}: SameListsBut(x, y, t, {})
      BY <2>4, <2>5 DEF SameListsBut
    <2> QED BY <1>1, <2>3, <2>4, <2>5, <2>6, <2>7 DEF y
  <1>2. CASE ~x.seg[s].number_used
    <2>1. x.seg[s].number_used = FALSE
      BY <1>2 DEF Shape
    <2>2. y = x
      BY <1>2 DEF OverflowNumber
    <2> QED BY <1>2, <2>1, <2>2 DEF SameBut, SameListsBut
  <1> QED BY <1>1, <1>2

\* The part of a commit that has the mutex.
LEMMA CommitEffect ==
  ASSUME NEW x, Shape(x), NEW s \in Segs, x.seg[s].modified \subseteq Objs
  PROVE  CommitLists(x, s,
           Finished(OverflowNumber(push_modified_to_other_segments(x, s), s), {s}))
  <1> DEFINE modified == x.seg[s].modified
             a == synchronize_object_now(x, s, modified, FALSE)
             b == push_modified_to_other_segments(x, s)
             c == OverflowNumber(b, s)
             y == Finished(c, {s})
             unlocked == [o \in Objs |-> IF o \in modified THEN 0 ELSE a.write_locks[o]]
  <1>1. /\ Shape(a) /\ SameBut(x, a, {"mem", "cards"})
        /\ CellsCopied(x, s, modified, modified \intersect UsesCards, a)
    <2>1. modified \in SUBSET Objs /\ FALSE \in BOOLEAN
      OBVIOUS
    <2> HIDE DEF modified
    <2> QED BY <2>1, SynchronizeEffect
  <1>2. b = [a EXCEPT !.write_locks = unlocked]
    BY DEF push_modified_to_other_segments
  <1>3. DOMAIN unlocked = Objs
    OBVIOUS
  <1> HIDE DEF a, b, unlocked
  <1>4. SameBut(a, b, {"write_locks"}) /\ b.write_locks = unlocked
    BY <1>1, <1>2 DEF SameBut, Shape, IsHeap, Fields
  <1>5. Shape(b)
    BY <1>1, <1>3, <1>4 DEF SameBut, Shape, IsHeap, Fields
  <1>6. b.seg = x.seg
    BY <1>1, <1>4 DEF SameBut, Fields
  <1>7. /\ Shape(c) /\ SameBut(b, c, {"seg"})
        /\ \A t \in Segs \ {s}: SameListsBut(b, c, t, {})
        /\ SameListsBut(b, c, s, {"overflow_number", "number_used"})
        /\ c.seg[s].overflow_number = IF b.seg[s].number_used
             THEN highest_overflow_number + 1 ELSE b.seg[s].overflow_number
        /\ c.seg[s].number_used = FALSE
    BY <1>5, NumberEffect
  <1> HIDE DEF c
  <1>8. /\ Shape(y) /\ SameBut(c, y, {"seg"})
        /\ \A t \in Segs: IF t \in {s}
             THEN /\ ListsForgotten(c, t, y)
                  /\ y.seg[t].young = c.seg[t].young
                  /\ y.seg[t].cards_set = c.seg[t].cards_set
             ELSE SameListsBut(c, y, t, {})
    BY <1>7, FinishedEffect
  <1> HIDE DEF y
  <1>9. SameBut(x, y, {"mem", "write_locks", "cards", "seg"})
    BY <1>1, <1>4, <1>7, <1>8 DEF SameBut
  <1>10. CellsCopied(x, s, modified, modified \intersect UsesCards, y)
    <2>1. y.mem = a.mem /\ y.cards = a.cards
      BY <1>4, <1>7, <1>8 DEF SameBut, Fields
    <2> HIDE DEF modified
    <2>2. CellsCopied(x, s, modified, modified \intersect UsesCards, a)
      BY <1>1
    <2> DEFINE arrays == modified \intersect UsesCards
    <2> SUFFICES ASSUME NEW o \in Objs, NEW d \in Cells(o)
                 PROVE  /\ y.cards[o][d] = IF o \in arrays THEN CARD_CLEAR ELSE x.cards[o][d]
                        /\ \A t \in 0..NB_SEGMENTS: y.mem[t][o][d] =
                             IF /\ o \in modified /\ d \in Copied(x, arrays, o)
                                /\ t = 0 \/ (t # s /\ t \in x.by_segment[Layout[o][d]])
                             THEN x.mem[Home(x, s, Layout[o][d])][o][d] ELSE x.mem[t][o][d]
      BY DEF CellsCopied
    <2> HIDE DEF arrays
    <2>3. /\ a.cards[o][d] = IF o \in arrays THEN CARD_CLEAR ELSE x.cards[o][d]
          /\ \A t \in 0..NB_SEGMENTS: a.mem[t][o][d] =
               IF /\ o \in modified /\ d \in Copied(x, arrays, o)
                  /\ t = 0 \/ (t # s /\ t \in x.by_segment[Layout[o][d]])
               THEN x.mem[Home(x, s, Layout[o][d])][o][d] ELSE x.mem[t][o][d]
      BY <2>2 DEF CellsCopied, arrays
    <2> QED BY <2>1, <2>3
  <1>11. \A t \in Segs \ {s}: SameListsBut(x, y, t, {})
    <2> SUFFICES ASSUME NEW t \in Segs \ {s}
                 PROVE  SameListsBut(x, y, t, {})
      OBVIOUS
    <2>1. SameListsBut(b, c, t, {}) /\ SameListsBut(c, y, t, {})
      BY <1>7, <1>8
    <2> QED BY <1>6, <2>1 DEF SameListsBut
  <1>12. ListsForgotten(c, s, y) /\ y.seg[s].young = c.seg[s].young
         /\ y.seg[s].cards_set = c.seg[s].cards_set
    BY <1>8
  <1>13. /\ SameListsBut(x, y, s, {"modified", "pointing", "with_cards", "overflow", "open",
                                   "mine", "plain", "overflow_number", "number_used"})
         /\ y.seg[s].overflow_number = c.seg[s].overflow_number
         /\ y.seg[s].number_used = c.seg[s].number_used
    BY <1>6, <1>7, <1>12 DEF SameListsBut, ListsForgotten, ListFields
  <1>14. CommitLists(x, s, y)
    BY <1>6, <1>7, <1>8, <1>9, <1>10, <1>11, <1>12, <1>13 DEF CommitLists, ListsForgotten
  <1> QED BY <1>14 DEF y, c, b

\* What the child of fork() has.
LEMMA BigCopyEffect ==
  ASSUME NEW x, Shape(x)
  PROVE  LET y == BigCopy(x)
         IN  /\ Shape(y) /\ SameBut(x, y, {"mem"})
             /\ \A o \in Objs: \A c \in Cells(o): \A t \in 0..NB_SEGMENTS:
                  t = 0 \/ t \in x.by_segment[Layout[o][c]]
                    => y.mem[t][o][c] = x.mem[t][o][c]
  <1> DEFINE y == BigCopy(x)
             mem == [t \in 0..NB_SEGMENTS |-> [o \in Objs |-> [c \in Cells(o) |->
                       IF t = 0 \/ is_private_page(x, t, Layout[o][c])
                       THEN x.mem[t][o][c] ELSE 0]]]
  <1>1. SameBut(x, y, {"mem"}) /\ y.mem = mem
    BY DEF BigCopy, Shape, IsHeap, SameBut, Fields
  <1> HIDE DEF y
  <1>2. DOMAIN y.mem = 0..NB_SEGMENTS /\ \A t \in 0..NB_SEGMENTS: DOMAIN y.mem[t] = Objs
    BY <1>1
  <1>3. \A o \in Objs: \A c \in Cells(o): \A t \in 0..NB_SEGMENTS:
          t = 0 \/ t \in x.by_segment[Layout[o][c]] => y.mem[t][o][c] = x.mem[t][o][c]
    BY <1>1 DEF is_private_page
  <1> HIDE DEF mem
  <1>4. Shape(y)
    BY <1>1, <1>2 DEF Shape, IsHeap, SameBut, Fields
  <1> QED BY <1>1, <1>3, <1>4 DEF y

-----------------------------------------------------------------------------
(* The end of the write barrier.                                           *)

MarkedCard(x, s, o, c, y) ==
  /\ \A p \in Objs: \A d \in Cells(p):
       y.cards[p][d] = IF p = o /\ d = c THEN CARD_MARKED ELSE x.cards[p][d]
  /\ SameListsBut(x, y, s, {"cards_set", "with_cards"})
  /\ y.seg[s].cards_set = x.seg[s].cards_set \union {o}
  /\ y.seg[s].with_cards = x.seg[s].with_cards \union {o}

OpenedObject(x, s, o, y) ==
  /\ \A p \in Objs: \A d \in Cells(p): y.cards[p][d] =
       IF p = o /\ o \in x.seg[s].cards_set
       THEN IF IS_OVERFLOW_OBJ(x, s, o) THEN CARD_CLEAR ELSE CARD_MARKED_OLD
       ELSE x.cards[p][d]
  /\ SameListsBut(x, y, s, {"cards_set", "open", "pointing", "plain"})
  /\ y.seg[s].cards_set = x.seg[s].cards_set \ {o}
  /\ y.seg[s].open = x.seg[s].open \union {o}
  /\ y.seg[s].pointing = IF x.seg[s].pointing = NULL THEN NULL
                         ELSE x.seg[s].pointing \union {o}
  /\ y.seg[s].plain = IF IS_OVERFLOW_OBJ(x, s, o) THEN x.seg[s].plain
                      ELSE x.seg[s].plain \union {o}

BarrierLists(x, s, o, c, card, y) ==
  /\ Shape(y) /\ SameBut(x, y, {"cards", "seg"})
  /\ \A t \in Segs \ {s}: SameListsBut(x, y, t, {})
  /\ IF card THEN MarkedCard(x, s, o, c, y) ELSE OpenedObject(x, s, o, y)

\* A heap in which the lists of one segment changed.
LEMMA OneSegment ==
  ASSUME NEW x, Shape(x), NEW s \in Segs, NEW g, DOMAIN g = DOMAIN x.seg[s],
         g.number_used \in BOOLEAN, NEW y, SameBut(x, y, {"seg"}),
         y.seg = [x.seg EXCEPT ![s] = g]
  PROVE  /\ Shape(y) /\ y.seg[s] = g
         /\ \A t \in Segs \ {s}: SameListsBut(x, y, t, {})
  <1>1. DOMAIN y.seg = Segs /\ y.seg[s] = g /\ \A t \in Segs \ {s}: y.seg[t] = x.seg[t]
    BY DEF Shape, IsHeap
  <1>2. \A t \in Segs: DOMAIN y.seg[t] = DOMAIN x.seg[t] /\ y.seg[t].number_used \in BOOLEAN
    BY <1>1 DEF Shape
  <1>3. Shape(y)
    BY <1>1, <1>2 DEF Shape, IsHeap, SameBut, Fields
  <1>4. \A t \in Segs \ {s}: SameListsBut(x, y, t, {})
    BY <1>1 DEF SameListsBut
  <1> QED BY <1>1, <1>3, <1>4

\* Barrier().
LEMMA BarrierEffect ==
  ASSUME NEW x, Shape(x), NEW s \in Segs, NEW o \in Objs, NEW c \in Cells(o),
         NEW card \in BOOLEAN
  PROVE  BarrierLists(x, s, o, c, card, Barrier(x, s, o, c, card))
  <1>0. DOMAIN x.seg = Segs /\ Fields \subseteq DOMAIN x
        /\ \A t \in Segs: ListFields \subseteq DOMAIN x.seg[t]
        /\ x.seg[s].number_used \in BOOLEAN
    BY DEF Shape, IsHeap
  <1>1. CASE card
    <2> DEFINE g == [x.seg[s] EXCEPT !.cards_set  = @ \union {o}, !.with_cards = @ \union {o}]
               y == [x EXCEPT !.seg[s].cards_set  = @ \union {o},
                              !.seg[s].with_cards = @ \union {o}]
               z == MarkCard(y, o, c)
    <2>1. Barrier(x, s, o, c, card) = z
      BY <1>1 DEF Barrier
    <2>2. SameBut(x, y, {"seg"}) /\ y.seg = [x.seg EXCEPT ![s] = g]
      BY <1>0 DEF SameBut, Fields
    <2> HIDE DEF y
    <2>3. /\ DOMAIN g = DOMAIN x.seg[s] /\ g.number_used = x.seg[s].number_used
          /\ g.cards_set = x.seg[s].cards_set \union {o}
          /\ g.with_cards = x.seg[s].with_cards \union {o}
          /\ \A f \in ListFields \ {"cards_set", "with_cards"}: g[f] = x.seg[s][f]
      BY <1>0 DEF ListFields
    <2> HIDE DEF g
    <2>4. /\ Shape(y) /\ y.seg[s] = g
          /\ \A t \in Segs \ {s}: SameListsBut(x, y, t, {})
      BY <1>0, <2>2, <2>3, OneSegment
    <2>5. /\ SameBut(y, z, {"cards"}) /\ z.cards = [y.cards EXCEPT ![o][c] = CARD_MARKED]
      BY <2>4 DEF MarkCard, SameBut, Fields, Shape, IsHeap
    <2> HIDE DEF z
    <2>6. /\ DOMAIN z.cards = Objs /\ \A p \in Objs: DOMAIN z.cards[p] = Cells(p)
          /\ \A p \in Objs: \A d \in Cells(p):
               z.cards[p][d] = IF p = o /\ d = c THEN CARD_MARKED ELSE y.cards[p][d]
      BY <2>4, <2>5 DEF Shape
    <2>7. Shape(z) /\ z.seg = y.seg /\ y.cards = x.cards /\ SameBut(x, z, {"cards", "seg"})
      BY <2>2, <2>4, <2>5, <2>6 DEF Shape, IsHeap, SameBut, Fields
    <2>8. \A t \in Segs \ {s}: SameListsBut(x, z, t, {})
      BY <2>4, <2>7 DEF SameListsBut
    <2>9. MarkedCard(x, s, o, c, z)
      BY <2>3, <2>4, <2>6, <2>7 DEF MarkedCard, SameListsBut
    <2> QED BY <1>1, <2>1, <2>7, <2>8, <2>9 DEF BarrierLists
  <1>2. CASE ~card
    <2> DEFINE overflow == IS_OVERFLOW_OBJ(x, s, o)
               own_card == [t \in {s} |-> {o}]
               y == IF o \notin x.seg[s].cards_set THEN x
                    ELSE IF overflow
                         THEN _reset_object_cards(x, own_card, CARD_CLEAR, FALSE)
                         ELSE _reset_object_cards(x, own_card, CARD_MARKED_OLD, TRUE)
               g == [y.seg[s] EXCEPT !.open = @ \union {o},
                       !.pointing = IF @ = NULL THEN NULL ELSE @ \union {o},
                       !.plain    = IF overflow THEN @ ELSE @ \union {o}]
               z == [y EXCEPT !.seg[s].open = @ \union {o},
                     !.seg[s].pointing = IF @ = NULL THEN NULL ELSE @ \union {o},
                     !.seg[s].plain    = IF overflow THEN @ ELSE @ \union {o}]
    <2>1. Barrier(x, s, o, c, card) = z
      BY <1>2 DEF Barrier
    <2>2. DOMAIN own_card = {s} /\ own_card[s] = {o}
      OBVIOUS
    <2> HIDE DEF own_card
    <2>3. /\ Shape(y) /\ SameBut(x, y, {"cards", "seg"})
          /\ \A p \in Objs: \A d \in Cells(p): y.cards[p][d] =
               IF p = o /\ o \in x.seg[s].cards_set
               THEN IF overflow THEN CARD_CLEAR ELSE CARD_MARKED_OLD ELSE x.cards[p][d]
          /\ y.seg[s].cards_set = x.seg[s].cards_set \ {o}
          /\ SameListsBut(x, y, s, {"cards_set"})
          /\ \A t \in Segs \ {s}: SameListsBut(x, y, t, {})
      <3> HIDE DEF overflow
      <3>1. CASE o \notin x.seg[s].cards_set
        <4>1. y = x /\ x.seg[s].cards_set = x.seg[s].cards_set \ {o}
          BY <3>1
        <4> QED BY <3>1, <4>1 DEF SameBut, SameListsBut
      <3>2. CASE o \in x.seg[s].cards_set
        <4> DEFINE value == IF overflow THEN CARD_CLEAR ELSE CARD_MARKED_OLD
                   all == ~overflow
        <4>1. CardsReset(x, own_card, value, all, y)
          BY <3>2, ResetEffect
        <4> HIDE DEF y
        <4>2. \A p \in Objs: \A d \in Cells(p): y.cards[p][d] =
                IF p = o /\ o \in x.seg[s].cards_set THEN value ELSE x.cards[p][d]
          BY <2>2, <3>2, <4>1 DEF CardsReset
        <4>3. \A t \in Segs: /\ SameListsBut(x, y, t, {"cards_set"})
                             /\ y.seg[t].cards_set = IF t = s THEN x.seg[s].cards_set \ {o}
                                                     ELSE x.seg[t].cards_set
          BY <2>2, <4>1 DEF CardsReset
        <4>4. \A t \in Segs \ {s}: SameListsBut(x, y, t, {})
          BY <4>3 DEF SameListsBut
        <4> QED BY <4>1, <4>2, <4>3, <4>4 DEF CardsReset
      <3> QED BY <3>1, <3>2
    <2> HIDE DEF y, overflow
    <2>4. DOMAIN y.seg = Segs /\ Fields \subseteq DOMAIN y /\ y.seg[s].number_used \in BOOLEAN
          /\ \A t \in Segs: ListFields \subseteq DOMAIN y.seg[t]
      BY <2>3 DEF Shape, IsHeap
    <2>5. SameBut(y, z, {"seg"}) /\ z.seg = [y.seg EXCEPT ![s] = g]
      BY <2>4 DEF SameBut, Fields
    <2> HIDE DEF z
    <2>6. /\ DOMAIN g = DOMAIN y.seg[s] /\ g.number_used = y.seg[s].number_used
          /\ g.open = y.seg[s].open \union {o}
          /\ g.pointing = IF y.seg[s].pointing = NULL THEN NULL
                          ELSE y.seg[s].pointing \union {o}
          /\ g.plain = IF overflow THEN y.seg[s].plain ELSE y.seg[s].plain \union {o}
          /\ \A f \in ListFields \ {"open", "pointing", "plain"}: g[f] = y.seg[s][f]
      BY <2>4 DEF ListFields
    <2> HIDE DEF g
    <2>7. /\ Shape(z) /\ z.seg[s] = g
          /\ \A t \in Segs \ {s}: SameListsBut(y, z, t, {})
      BY <2>3, <2>4, <2>5, <2>6, OneSegment
    <2>8. \A t \in Segs \ {s}: SameListsBut(x, z, t, {})
      BY <2>3, <2>7 DEF SameListsBut
    <2>9. SameBut(x, z, {"cards", "seg"}) /\ z.cards = y.cards
      BY <2>3, <2>5 DEF SameBut, Fields
    <2>10. /\ SameListsBut(x, z, s, {"cards_set", "open", "pointing", "plain"})
           /\ z.seg[s].cards_set = x.seg[s].cards_set \ {o}
           /\ z.seg[s].open = x.seg[s].open \union {o}
           /\ z.seg[s].pointing = IF x.seg[s].pointing = NULL THEN NULL
                                  ELSE x.seg[s].pointing \union {o}
           /\ z.seg[s].plain = IF overflow THEN x.seg[s].plain
                               ELSE x.seg[s].plain \union {o}
      BY <2>3, <2>6, <2>7 DEF SameListsBut, ListFields
    <2>11. OpenedObject(x, s, o, z)
      BY <2>3, <2>9, <2>10 DEF OpenedObject, overflow
    <2> QED BY <1>2, <2>1, <2>7, <2>8, <2>9, <2>11 DEF BarrierLists
  <1> QED BY <1>1, <1>2

-----------------------------------------------------------------------------
(* Major collections.                                                      *)

Ovf(x, s) == IF x.seg[s].overflow = NULL THEN {} ELSE x.seg[s].overflow

\* The segments whose private copy of an overflow object is the only one and
\* goes away.
OnlyIn(x, o, c) ==
  {s \in Segs: /\ o \in Ovf(x, s) /\ s \in x.by_segment[Layout[o][c]]
               /\ Layout[o][c] \notin ModifiedPages(x, s)}

PagesReshared(x, y) ==
  \A o \in Objs: \A c \in Cells(o):
    /\ IF OnlyIn(x, o, c) = {} THEN y.mem[0][o][c] = x.mem[0][o][c]
       ELSE \E s \in OnlyIn(x, o, c): y.mem[0][o][c] = x.mem[s][o][c]
    /\ \A t \in Segs:
         ~(t \in x.by_segment[Layout[o][c]] /\ Layout[o][c] \notin ModifiedPages(x, t))
           => y.mem[t][o][c] = x.mem[t][o][c]

ReshareEffect(x, y) ==
  /\ Shape(y) /\ SameBut(x, y, {"by_segment", "mem", "total_allocated"})
  /\ \A p \in 1..NB_PAGES: y.by_segment[p] = {s \in Segs: p \in ModifiedPages(x, s)}
  /\ PagesReshared(x, y)

\* major_hide_private_bits_for_modified_objects().
LEMMA HideEffect ==
  ASSUME NEW x, Shape(x)
  PROVE  LET y == major_hide_private_bits_for_modified_objects(x)
         IN  /\ Shape(y) /\ SameBut(x, y, {"by_segment"})
             /\ \A p \in 1..NB_PAGES: y.by_segment[p] =
                  {s \in x.by_segment[p]: p \notin ModifiedPages(x, s)}
  <1> DEFINE y == major_hide_private_bits_for_modified_objects(x)
             bits == [p \in 1..NB_PAGES |->
                        {s \in x.by_segment[p]: p \notin ModifiedPages(x, s)}]
  <1>1. SameBut(x, y, {"by_segment"}) /\ y.by_segment = bits
    BY DEF major_hide_private_bits_for_modified_objects, Shape, IsHeap, SameBut, Fields
  <1> HIDE DEF y
  <1>2. /\ DOMAIN y.by_segment = 1..NB_PAGES
        /\ \A p \in 1..NB_PAGES: y.by_segment[p] =
             {s \in x.by_segment[p]: p \notin ModifiedPages(x, s)}
    BY <1>1
  <1> HIDE DEF bits
  <1>3. Shape(y)
    BY <1>1, <1>2 DEF Shape, IsHeap, SameBut, Fields
  <1> QED BY <1>1, <1>2, <1>3 DEF y

\* copy_object_to_shared().
LEMMA SharedEffect ==
  ASSUME NEW x, Shape(x)
  PROVE  LET y == copy_object_to_shared(x)
             Only(o, c) == {s \in Segs: o \in Ovf(x, s) /\ s \in x.by_segment[Layout[o][c]]}
         IN  /\ Shape(y) /\ SameBut(x, y, {"mem"})
             /\ \A t \in Segs: y.mem[t] = x.mem[t]
             /\ \A o \in Objs: \A c \in Cells(o):
                  IF Only(o, c) = {} THEN y.mem[0][o][c] = x.mem[0][o][c]
                  ELSE \E s \in Only(o, c): y.mem[0][o][c] = x.mem[s][o][c]
  <1> DEFINE y == copy_object_to_shared(x)
             Only(o, c) == {s \in Segs: o \in Ovf(x, s) /\ s \in x.by_segment[Layout[o][c]]}
             shared == [o \in Objs |-> [c \in Cells(o) |->
                IF Only(o, c) = {} THEN x.mem[0][o][c]
                ELSE x.mem[CHOOSE s \in Only(o, c): TRUE][o][c]]]
  <1>1. y = [x EXCEPT !.mem[0] = shared]
    BY DEF copy_object_to_shared, Ovf, is_private_page
  <1>2. ASSUME NEW o \in Objs, NEW c \in Cells(o)
        PROVE  IF Only(o, c) = {} THEN shared[o][c] = x.mem[0][o][c]
               ELSE \E s \in Only(o, c): shared[o][c] = x.mem[s][o][c]
    OBVIOUS
  <1>3. DOMAIN shared = Objs
    OBVIOUS
  <1> HIDE DEF shared, y
  <1>4. /\ SameBut(x, y, {"mem"}) /\ y.mem = [x.mem EXCEPT ![0] = shared]
    BY <1>1 DEF Shape, IsHeap, SameBut, Fields
  <1>5. DOMAIN x.mem = 0..NB_SEGMENTS /\ 0 \in 0..NB_SEGMENTS
        /\ \A t \in Segs: t \in 0..NB_SEGMENTS /\ t # 0
    BY PagesAssumption DEF Shape, Segs
  <1>6. /\ DOMAIN y.mem = 0..NB_SEGMENTS /\ y.mem[0] = shared
        /\ \A t \in Segs: y.mem[t] = x.mem[t]
        /\ \A t \in 0..NB_SEGMENTS: DOMAIN y.mem[t] = Objs
    BY <1>3, <1>4, <1>5 DEF Shape
  <1>7. Shape(y)
    BY <1>4, <1>6 DEF Shape, IsHeap, SameBut, Fields
  <1> QED BY <1>2, <1>4, <1>6, <1>7 DEF y

\* page_reshare() drops the private copies.
LEMMA DropEffect ==
  ASSUME NEW x, Shape(x)
  PROVE  LET y == page_reshare(x)
         IN  /\ Shape(y) /\ SameBut(x, y, {"by_segment", "mem", "total_allocated"})
             /\ \A p \in 1..NB_PAGES: y.by_segment[p] = {}
             /\ \A o \in Objs: \A c \in Cells(o): \A t \in 0..NB_SEGMENTS:
                  t \notin x.by_segment[Layout[o][c]] => y.mem[t][o][c] = x.mem[t][o][c]
  <1> DEFINE y == page_reshare(x)
             bits == [p \in 1..NB_PAGES |-> {}]
             mem == [t \in 0..NB_SEGMENTS |-> [o \in Objs |-> [c \in Cells(o) |->
                       IF t \in x.by_segment[Layout[o][c]] THEN 0 ELSE x.mem[t][o][c]]]]
  <1>1. /\ SameBut(x, y, {"by_segment", "mem", "total_allocated"})
        /\ y.by_segment = bits /\ y.mem = mem
    BY DEF page_reshare, Dropped, Shape, IsHeap, SameBut, Fields
  <1> HIDE DEF y
  <1>2. /\ DOMAIN y.mem = 0..NB_SEGMENTS /\ \A t \in 0..NB_SEGMENTS: DOMAIN y.mem[t] = Objs
        /\ \A o \in Objs: \A c \in Cells(o): \A t \in 0..NB_SEGMENTS:
             t \notin x.by_segment[Layout[o][c]] => y.mem[t][o][c] = x.mem[t][o][c]
    BY <1>1
  <1>3. DOMAIN y.by_segment = 1..NB_PAGES /\ \A p \in 1..NB_PAGES: y.by_segment[p] = {}
    BY <1>1
  <1> HIDE DEF mem, bits
  <1>4. Shape(y)
    BY <1>1, <1>2, <1>3 DEF Shape, IsHeap, SameBut, Fields
  <1> QED BY <1>1, <1>2, <1>3, <1>4 DEF y

\* major_restore_private_bits_for_modified_objects().
LEMMA RestoreEffect ==
  ASSUME NEW x, Shape(x)
  PROVE  LET y == major_restore_private_bits_for_modified_objects(x)
         IN  /\ Shape(y) /\ SameBut(x, y, {"by_segment"})
             /\ \A p \in 1..NB_PAGES: y.by_segment[p] =
                  x.by_segment[p] \union {s \in Segs: p \in ModifiedPages(x, s)}
  <1> DEFINE y == major_restore_private_bits_for_modified_objects(x)
             bits == [p \in 1..NB_PAGES |->
                        x.by_segment[p] \union {s \in Segs: p \in ModifiedPages(x, s)}]
  <1>1. SameBut(x, y, {"by_segment"}) /\ y.by_segment = bits
    BY DEF major_restore_private_bits_for_modified_objects, Shape, IsHeap, SameBut, Fields
  <1> HIDE DEF y
  <1>2. /\ DOMAIN y.by_segment = 1..NB_PAGES
        /\ \A p \in 1..NB_PAGES: y.by_segment[p] =
             x.by_segment[p] \union {s \in Segs: p \in ModifiedPages(x, s)}
    BY <1>1
  <1> HIDE DEF bits
  <1>3. Shape(y)
    BY <1>1, <1>2 DEF Shape, IsHeap, SameBut, Fields
  <1> QED BY <1>1, <1>2, <1>3 DEF y

\* The four together.
LEMMA Reshared ==
  ASSUME NEW x, Shape(x)
  PROVE  ReshareEffect(x, major_reshare_pages(x))
  <1> DEFINE a == major_hide_private_bits_for_modified_objects(x)
             b == copy_object_to_shared(a)
             c == page_reshare(b)
             y == major_restore_private_bits_for_modified_objects(c)
             Only(o, d) == {s \in Segs: o \in Ovf(a, s) /\ s \in a.by_segment[Layout[o][d]]}
  <1>1. /\ Shape(a) /\ SameBut(x, a, {"by_segment"})
        /\ \A p \in 1..NB_PAGES: a.by_segment[p] =
             {s \in x.by_segment[p]: p \notin ModifiedPages(x, s)}
    BY HideEffect
  <1> HIDE DEF a
  <1>2. /\ Shape(b) /\ SameBut(a, b, {"mem"})
        /\ \A t \in Segs: b.mem[t] = a.mem[t]
        /\ \A o \in Objs: \A d \in Cells(o):
             IF Only(o, d) = {} THEN b.mem[0][o][d] = a.mem[0][o][d]
             ELSE \E s \in Only(o, d): b.mem[0][o][d] = a.mem[s][o][d]
    BY <1>1, SharedEffect
  <1> HIDE DEF b
  <1>3. /\ Shape(c) /\ SameBut(b, c, {"by_segment", "mem", "total_allocated"})
        /\ \A p \in 1..NB_PAGES: c.by_segment[p] = {}
        /\ \A o \in Objs: \A d \in Cells(o): \A t \in 0..NB_SEGMENTS:
             t \notin b.by_segment[Layout[o][d]] => c.mem[t][o][d] = b.mem[t][o][d]
    BY <1>2, DropEffect
  <1> HIDE DEF c
  <1>4. /\ Shape(y) /\ SameBut(c, y, {"by_segment"})
        /\ \A p \in 1..NB_PAGES: y.by_segment[p] =
             c.by_segment[p] \union {s \in Segs: p \in ModifiedPages(c, s)}
    BY <1>3, RestoreEffect
  <1> HIDE DEF y
  <1>5. /\ c.seg = x.seg /\ a.seg = x.seg /\ a.mem = x.mem /\ y.mem = c.mem
        /\ b.by_segment = a.by_segment
    BY <1>1, <1>2, <1>3, <1>4 DEF SameBut, Fields
  <1>6. \A p \in 1..NB_PAGES: y.by_segment[p] = {s \in Segs: p \in ModifiedPages(x, s)}
    BY <1>3, <1>4, <1>5 DEF ModifiedPages
  <1>7. ASSUME NEW o \in Objs, NEW d \in Cells(o)
        PROVE  /\ IF OnlyIn(x, o, d) = {} THEN y.mem[0][o][d] = x.mem[0][o][d]
                  ELSE \E s \in OnlyIn(x, o, d): y.mem[0][o][d] = x.mem[s][o][d]
               /\ \A t \in Segs:
                    ~(t \in x.by_segment[Layout[o][d]] /\ Layout[o][d] \notin ModifiedPages(x, t))
                      => y.mem[t][o][d] = x.mem[t][o][d]
    <2>1. Layout[o][d] \in 1..NB_PAGES
      BY CellPages
    <2>2. Only(o, d) = OnlyIn(x, o, d)
      BY <1>1, <1>5, <2>1 DEF OnlyIn, Ovf
    <2>3. 0 \in 0..NB_SEGMENTS /\ 0 \notin Segs /\ \A t \in Segs: t \in 0..NB_SEGMENTS
      BY PagesAssumption DEF Segs
    <2>4. 0 \notin a.by_segment[Layout[o][d]]
      BY <1>1, <2>1, <2>3 DEF Shape
    <2>5. y.mem[0][o][d] = b.mem[0][o][d]
      BY <1>3, <1>5, <2>3, <2>4
    <2>6. IF OnlyIn(x, o, d) = {} THEN b.mem[0][o][d] = x.mem[0][o][d]
          ELSE \E s \in OnlyIn(x, o, d): b.mem[0][o][d] = x.mem[s][o][d]
      BY <1>2, <1>5, <2>2
    <2>7. ASSUME NEW t \in Segs,
                 ~(t \in x.by_segment[Layout[o][d]] /\ Layout[o][d] \notin ModifiedPages(x, t))
          PROVE  y.mem[t][o][d] = x.mem[t][o][d]
      <3>1. t \notin a.by_segment[Layout[o][d]]
        BY <1>1, <2>1, <2>7
      <3>2. c.mem[t][o][d] = b.mem[t][o][d] /\ b.mem[t] = a.mem[t]
        BY <1>2, <1>3, <1>5, <2>3, <3>1
      <3> QED BY <1>5, <3>2
    <2> QED BY <2>5, <2>6, <2>7
  <1>8. SameBut(x, y, {"by_segment", "mem", "total_allocated"})
    BY <1>1, <1>2, <1>3, <1>4 DEF SameBut
  <1>9. ReshareEffect(x, y)
    BY <1>4, <1>6, <1>7, <1>8 DEF ReshareEffect, PagesReshared
  <1> QED BY <1>9 DEF y, c, b, a, major_reshare_pages

CardsSwept(x, y) ==
  \A o \in Objs: \A c \in Cells(o): y.cards[o][c] =
    IF \/ x.cards[o][c] = CARD_CLEAR
       \/ \E s \in Segs: o \in x.seg[s].with_cards /\ IS_OVERFLOW_OBJ(x, s, o)
    THEN CARD_CLEAR
    ELSE IF \E s \in Segs: o \in x.seg[s].with_cards THEN CARD_MARKED_OLD
         ELSE x.cards[o][c]

ListsSwept(x, s, reachable, y) ==
  LET g == x.seg[s]
  IN  /\ SameListsBut(x, y, s, {"with_cards", "cards_set", "open", "pointing", "overflow"})
      /\ y.seg[s].with_cards = {}
      /\ y.seg[s].cards_set = g.cards_set \ g.with_cards
      /\ y.seg[s].open = g.open \ (IF g.pointing = NULL THEN {} ELSE g.pointing)
      /\ y.seg[s].pointing = IF g.pointing = NULL THEN NULL ELSE {}
      /\ y.seg[s].overflow = IF g.overflow = NULL THEN NULL
                             ELSE {o \in g.overflow: o \in reachable}

SweepEffect(x, reachable, y) ==
  /\ Shape(y)
  /\ SameBut(x, y, {"write_locks", "cards", "used", "total_allocated", "seg"})
  /\ \A o \in Objs: o \in y.used <=> o \in x.used /\ o \in reachable
  /\ CardsSwept(x, y)
  /\ \A s \in Segs: ListsSwept(x, s, reachable, y)

\* clean_up_segment_lists().
LEMMA CleanUpEffect ==
  ASSUME NEW x, Shape(x), \A s \in Segs: x.seg[s].overflow # NULL => x.seg[s].overflow \subseteq Objs,
         NEW reachable, \A o \in Objs: x.write_locks[o] = WL_VISITED <=> o \in reachable
  PROVE  LET y == clean_up_segment_lists(x)
         IN  /\ Shape(y) /\ SameBut(x, y, {"cards", "seg"}) /\ CardsSwept(x, y)
             /\ \A s \in Segs: ListsSwept(x, s, reachable, y)
  <1> DEFINE old == [s \in Segs |->
                {o \in x.seg[s].with_cards: ~IS_OVERFLOW_OBJ(x, s, o)}]
             overflow == [s \in Segs |-> x.seg[s].with_cards \ old[s]]
             w == _reset_object_cards(x, old, CARD_MARKED_OLD, FALSE)
             y == _reset_object_cards(w, overflow, CARD_CLEAR, FALSE)
             Clean(g) == [g EXCEPT
               !.open       = @ \ (IF g.pointing = NULL THEN {} ELSE g.pointing),
               !.pointing   = IF @ = NULL THEN NULL ELSE {},
               !.with_cards = {},
               !.overflow   = IF @ = NULL THEN NULL
                              ELSE {o \in @: x.write_locks[o] = WL_VISITED}]
             seg == [s \in Segs |-> Clean(y.seg[s])]
             z == [y EXCEPT !.seg = seg]
  <1>1. clean_up_segment_lists(x) = z
    BY DEF clean_up_segment_lists
  <1>2. /\ DOMAIN old = Segs /\ DOMAIN overflow = Segs
        /\ \A s \in Segs: \A o: /\ o \in old[s] <=> /\ o \in x.seg[s].with_cards
                                                    /\ ~IS_OVERFLOW_OBJ(x, s, o)
                                /\ o \in overflow[s] <=> /\ o \in x.seg[s].with_cards
                                                         /\ IS_OVERFLOW_OBJ(x, s, o)
    OBVIOUS
  <1> HIDE DEF old, overflow
  <1>3. CardsReset(x, old, CARD_MARKED_OLD, FALSE, w)
    BY ResetEffect
  <1> HIDE DEF w
  <1>4. CardsReset(w, overflow, CARD_CLEAR, FALSE, y)
    <2>1. Shape(w)
      BY <1>3 DEF CardsReset
    <2> QED BY <2>1, ResetEffect
  <1> HIDE DEF y
  <1>5. ASSUME NEW s \in Segs
        PROVE  /\ SameListsBut(x, y, s, {"cards_set"})
               /\ y.seg[s].cards_set = x.seg[s].cards_set \ x.seg[s].with_cards
               /\ ListFields \subseteq DOMAIN y.seg[s]
    <2>1. SameListsBut(x, w, s, {"cards_set"})
          /\ w.seg[s].cards_set = x.seg[s].cards_set \ old[s]
      BY <1>2, <1>3 DEF CardsReset
    <2>2. SameListsBut(w, y, s, {"cards_set"})
          /\ y.seg[s].cards_set = w.seg[s].cards_set \ overflow[s]
          /\ ListFields \subseteq DOMAIN y.seg[s]
      BY <1>2, <1>4 DEF CardsReset, Shape, IsHeap
    <2>3. y.seg[s].cards_set = x.seg[s].cards_set \ x.seg[s].with_cards
      BY <1>2, <2>1, <2>2
    <2> QED BY <2>1, <2>2, <2>3 DEF SameListsBut
  <1>6. ASSUME NEW o \in Objs, NEW c \in Cells(o)
        PROVE  y.cards[o][c] =
          IF \/ x.cards[o][c] = CARD_CLEAR
             \/ \E s \in Segs: o \in x.seg[s].with_cards /\ IS_OVERFLOW_OBJ(x, s, o)
          THEN CARD_CLEAR
          ELSE IF \E s \in Segs: o \in x.seg[s].with_cards THEN CARD_MARKED_OLD
               ELSE x.cards[o][c]
    <2>1. w.cards[o][c] = IF (\E s \in Segs: o \in old[s]) /\ x.cards[o][c] # CARD_CLEAR
                          THEN CARD_MARKED_OLD ELSE x.cards[o][c]
      BY <1>2, <1>3 DEF CardsReset
    <2>2. y.cards[o][c] = IF (\E s \in Segs: o \in overflow[s]) /\ w.cards[o][c] # CARD_CLEAR
                          THEN CARD_CLEAR ELSE w.cards[o][c]
      BY <1>2, <1>4 DEF CardsReset
    <2> QED BY <1>2, <2>1, <2>2 DEF CARD_CLEAR, CARD_MARKED_OLD
  <1>7. SameBut(y, z, {"seg"}) /\ z.seg = seg
    <2> HIDE DEF seg
    <2> QED BY <1>4 DEF CardsReset, Shape, IsHeap, SameBut, Fields
  <1> HIDE DEF z
  <1>8. ASSUME NEW s \in Segs
        PROVE  ListsSwept(x, s, reachable, z)
    <2> DEFINE g == y.seg[s]
               h == x.seg[s]
    <2>1. z.seg[s] = Clean(g)
      BY <1>7
    <2>2. ListFields \subseteq DOMAIN g /\ DOMAIN g = DOMAIN h
          /\ g.cards_set = h.cards_set \ h.with_cards
      BY <1>5 DEF SameListsBut
    <2>3. /\ g.modified = h.modified /\ g.mine = h.mine /\ g.plain = h.plain
          /\ g.overflow_number = h.overflow_number /\ g.open = h.open
          /\ g.pointing = h.pointing /\ g.young = h.young /\ g.overflow = h.overflow
          /\ g.number_used = h.number_used
      BY <1>5 DEF SameListsBut, ListFields
    <2>4. h.overflow # NULL =>
            {o \in h.overflow: x.write_locks[o] = WL_VISITED} =
              {o \in h.overflow: o \in reachable}
      OBVIOUS
    <2> HIDE DEF g
    <2>5. /\ DOMAIN Clean(g) = DOMAIN g
          /\ Clean(g).with_cards = {}
          /\ Clean(g).pointing = IF g.pointing = NULL THEN NULL ELSE {}
          /\ Clean(g).open = g.open \ (IF g.pointing = NULL THEN {} ELSE g.pointing)
          /\ Clean(g).overflow = IF g.overflow = NULL THEN NULL
                ELSE {o \in g.overflow: x.write_locks[o] = WL_VISITED}
          /\ \A f \in ListFields \ {"with_cards", "open", "pointing", "overflow"}:
               Clean(g)[f] = g[f]
      BY <2>2 DEF ListFields
    <2> DEFINE n == Clean(g)
    <2>6. /\ n.modified = g.modified /\ n.mine = g.mine /\ n.plain = g.plain
          /\ n.overflow_number = g.overflow_number /\ n.young = g.young
          /\ n.number_used = g.number_used /\ n.cards_set = g.cards_set
      BY <2>5 DEF ListFields
    <2> HIDE DEF n
    <2>7. /\ DOMAIN n = DOMAIN h
          /\ n.with_cards = {} /\ n.cards_set = h.cards_set \ h.with_cards
          /\ n.open = h.open \ (IF h.pointing = NULL THEN {} ELSE h.pointing)
          /\ n.pointing = IF h.pointing = NULL THEN NULL ELSE {}
          /\ n.overflow = IF h.overflow = NULL THEN NULL
                          ELSE {o \in h.overflow: o \in reachable}
      BY <2>2, <2>3, <2>4, <2>5, <2>6 DEF n
    <2>8. \A f \in ListFields \ {"with_cards", "cards_set", "open", "pointing", "overflow"}:
            n[f] = h[f]
      BY <2>3, <2>6 DEF ListFields
    <2>9. z.seg[s] = n
      BY <2>1 DEF n
    <2> QED BY <2>7, <2>8, <2>9 DEF ListsSwept, SameListsBut
  <1>9. Shape(z)
    <2>1. DOMAIN z.seg = Segs
      BY <1>7
    <2>2. \A s \in Segs: DOMAIN z.seg[s] = DOMAIN x.seg[s]
                         /\ z.seg[s].number_used = x.seg[s].number_used
      BY ZenonT(60), <1>8 DEF ListsSwept, SameListsBut, ListFields
    <2>3. SameBut(y, z, {"seg"}) /\ Shape(y)
      BY <1>4, <1>7 DEF CardsReset
    <2>4. \A s \in Segs: DOMAIN x.seg[s] = DOMAIN y.seg[s] /\ x.seg[s].number_used \in BOOLEAN
      BY <1>5 DEF SameListsBut, Shape
    <2> QED BY ONLY <2>1, <2>2, <2>3, <2>4 DEF Shape, IsHeap, SameBut, Fields
  <1>10. CardsSwept(x, z)
    <2>1. z.cards = y.cards
      BY <1>7 DEF SameBut, Fields
    <2> QED BY <1>6, <2>1 DEF CardsSwept
  <1>11. SameBut(x, z, {"cards", "seg"})
    BY <1>3, <1>4, <1>7 DEF SameBut, CardsReset
  <1> QED BY <1>1, <1>8, <1>9, <1>10, <1>11

\* Mark, clean up, sweep, and restore the locks.
LEMMA SweepEffects ==
  ASSUME NEW x, Shape(x), NEW reachable,
         \A o \in Objs: x.write_locks[o] = WL_VISITED => o \in reachable,
         \A s \in Segs: x.seg[s].overflow # NULL => x.seg[s].overflow \subseteq Objs
  PROVE  SweepEffect(x, reachable, major_restore_write_locks(sweep_large_objects(
           clean_up_segment_lists(MarkVisited(x, reachable)))))
  <1> DEFINE a == MarkVisited(x, reachable)
             b == clean_up_segment_lists(a)
             kept == {o \in b.used: b.write_locks[o] = WL_VISITED}
             c == sweep_large_objects(b)
             y == major_restore_write_locks(c)
  <1>1. /\ SameBut(x, a, {"write_locks"})
        /\ a.write_locks = [o \in Objs |-> IF o \in reachable THEN WL_VISITED
                                           ELSE x.write_locks[o]]
    BY DEF MarkVisited, Shape, IsHeap, SameBut, Fields
  <1> HIDE DEF a
  <1>2. Shape(a)
    BY <1>1 DEF Shape, IsHeap, SameBut, Fields
  <1>3. a.seg = x.seg /\ a.cards = x.cards /\ a.number = x.number
    BY <1>1 DEF SameBut, Fields
  <1>4. /\ Shape(b) /\ SameBut(a, b, {"cards", "seg"}) /\ CardsSwept(a, b)
        /\ \A s \in Segs: ListsSwept(a, s, reachable, b)
    <2>1. \A s \in Segs: a.seg[s].overflow # NULL => a.seg[s].overflow \subseteq Objs
      BY <1>3
    <2>2. \A o \in Objs: a.write_locks[o] = WL_VISITED <=> o \in reachable
      BY <1>1
    <2> QED BY <1>2, <2>1, <2>2, CleanUpEffect
  <1> HIDE DEF b
  <1>5. /\ SameBut(b, c, {"used", "total_allocated", "write_locks"}) /\ c.used = kept
        /\ DOMAIN c.write_locks = Objs
    BY <1>4 DEF sweep_large_objects, Shape, IsHeap, SameBut, Fields
  <1> HIDE DEF c
  <1>6. SameBut(c, y, {"write_locks"}) /\ DOMAIN y.write_locks = Objs
    <2>1. IsHeap(c)
      BY <1>4, <1>5 DEF Shape, IsHeap, SameBut, Fields
    <2> QED BY <2>1 DEF major_restore_write_locks, IsHeap, SameBut, Fields
  <1> HIDE DEF y
  <1>7. Shape(y)
    BY <1>4, <1>5, <1>6 DEF Shape, IsHeap, SameBut, Fields
  <1>8. SameBut(x, y, {"write_locks", "cards", "used", "total_allocated", "seg"})
    BY <1>1, <1>4, <1>5, <1>6 DEF SameBut
  <1>9. y.used = kept /\ b.used = x.used /\ b.write_locks = a.write_locks
        /\ y.cards = b.cards /\ y.seg = b.seg
    BY <1>1, <1>4, <1>5, <1>6 DEF SameBut, Fields
  <1>10. \A o \in Objs: o \in y.used <=> o \in x.used /\ o \in reachable
    BY <1>1, <1>9
  <1>11. CardsSwept(x, y)
    BY <1>3, <1>4, <1>9 DEF CardsSwept, IS_OVERFLOW_OBJ
  <1>12. \A s \in Segs: ListsSwept(x, s, reachable, y)
    <2> SUFFICES ASSUME NEW s \in Segs
                 PROVE  ListsSwept(x, s, reachable, y)
      OBVIOUS
    <2>1. ListsSwept(a, s, reachable, b)
      BY <1>4
    <2> QED BY <1>3, <1>9, <2>1 DEF ListsSwept, SameListsBut
  <1>13. SweepEffect(x, reachable, y)
    BY <1>7, <1>8, <1>10, <1>11, <1>12 DEF SweepEffect
  <1> QED BY <1>13 DEF y, c, b, a

-----------------------------------------------------------------------------
(* Who owns which object.                                                  *)

Num(x, s) == x.seg[s].overflow_number

\* The numbers of overflow objects: each segment has one of its own, and
\* remembers whether some object has it.
NumbersInv(x, high) ==
  /\ high \in Nat
  /\ \A s \in Segs: /\ Num(x, s) \in 1..high
                    /\ \A t \in Segs: Num(x, s) = Num(x, t) => s = t
  /\ \A o \in Objs: /\ x.number[o] \in 0..high
                    /\ \A s \in Segs: x.number[o] = Num(x, s) => x.seg[s].number_used

\* A committed object is nobody's and not an overflow one; an object of a
\* transaction belongs to no other; what is modified is committed.
OwnerInv(x, objects, o) ==
  /\ o \in objects => \A s \in Segs: /\ x.number[o] # Num(x, s)
                                     /\ o \notin x.seg[s].mine \union Ovf(x, s)
  /\ \A s \in Segs:
       /\ o \in Ovf(x, s) => o \in x.used /\ x.number[o] = Num(x, s)
       /\ o \in x.seg[s].young => x.number[o] = 0
       /\ o \in x.seg[s].mine => x.number[o] \in {0, Num(x, s)}
       /\ o \in x.seg[s].modified => o \in objects
       /\ \A t \in Segs: o \in x.seg[s].mine /\ o \in x.seg[t].mine \union Ovf(x, t) => s = t

\* What the lists of the barriers hold.
OpenInv(x, s) ==
  LET g == x.seg[s]
  IN  /\ g.modified \union g.mine \union g.young \union Ovf(x, s) \subseteq Objs
      /\ g.with_cards \subseteq g.modified \union Ovf(x, s)
      /\ g.cards_set \subseteq g.with_cards \intersect UsesCards
      /\ g.open \subseteq g.modified \union Ovf(x, s)
      /\ g.plain \subseteq g.modified /\ g.open \intersect g.modified \subseteq g.plain
      /\ IF g.pointing = NULL THEN Ovf(x, s) = {} /\ g.open \subseteq g.modified
         ELSE g.open \subseteq g.pointing /\ g.pointing \subseteq Objs

Owned(x, objects, high) ==
  /\ Shape(x)
  /\ NumbersInv(x, high)
  /\ \A o \in Objs: OwnerInv(x, objects, o)
  /\ \A s \in Segs: OpenInv(x, s)

SameOwners(x, y) ==
  /\ y.used = x.used /\ y.number = x.number
  /\ \A s \in Segs: \A f \in ListFields: y.seg[s][f] = x.seg[s][f]

\* The invariant is about these fields only.
LEMMA SameOwned ==
  ASSUME NEW x, NEW y, NEW objects, NEW high, Owned(x, objects, high), Shape(y),
         SameOwners(x, y)
  PROVE  Owned(y, objects, high)
  <1>1. ASSUME NEW s \in Segs
        PROVE  /\ Num(y, s) = Num(x, s) /\ Ovf(y, s) = Ovf(x, s)
               /\ y.seg[s].number_used = x.seg[s].number_used
               /\ y.seg[s].modified = x.seg[s].modified /\ y.seg[s].mine = x.seg[s].mine
               /\ y.seg[s].young = x.seg[s].young /\ y.seg[s].plain = x.seg[s].plain
               /\ y.seg[s].open = x.seg[s].open /\ y.seg[s].pointing = x.seg[s].pointing
               /\ y.seg[s].with_cards = x.seg[s].with_cards
               /\ y.seg[s].cards_set = x.seg[s].cards_set
    BY DEF SameOwners, ListFields, Num, Ovf
  <1>2. y.used = x.used /\ y.number = x.number
    BY DEF SameOwners
  <1>3. NumbersInv(y, high)
    BY <1>1, <1>2 DEF Owned, NumbersInv
  <1>4. ASSUME NEW o \in Objs
        PROVE  OwnerInv(y, objects, o)
    <2>1. OwnerInv(x, objects, o)
      BY DEF Owned
    <2> QED BY <1>1, <1>2, <2>1 DEF OwnerInv
  <1>5. ASSUME NEW s \in Segs
        PROVE  OpenInv(y, s)
    <2>1. OpenInv(x, s)
      BY DEF Owned
    <2> QED BY <1>1, <2>1 DEF OpenInv
  <1> QED BY <1>3, <1>4, <1>5 DEF Owned

\* What changes pages, memory, cards or locks keeps the lists.
LEMMA SameListsOwned ==
  ASSUME NEW x, NEW y, NEW objects, NEW high, Owned(x, objects, high), Shape(y),
         SameBut(x, y, {"mem", "by_segment", "write_locks", "cards", "total_allocated"})
  PROVE  SameOwners(x, y) /\ Owned(y, objects, high)
  <1>1. SameOwners(x, y)
    BY DEF SameOwners, SameBut, Fields
  <1> QED BY <1>1, SameOwned

\* The end of the write barrier.
LEMMA BarrierOwned ==
  ASSUME NEW x, NEW objects, NEW high, Owned(x, objects, high), NEW s \in Segs,
         NEW o \in Objs, NEW c, NEW card \in BOOLEAN, NEW y,
         BarrierLists(x, s, o, c, card, y),
         card => o \in UsesCards, o \in x.seg[s].modified \union Ovf(x, s)
  PROVE  Owned(y, objects, high)
  <1> DEFINE g == x.seg[s]
             h == y.seg[s]
  <1>1. /\ h.modified = g.modified /\ h.mine = g.mine /\ h.young = g.young
        /\ h.overflow = g.overflow /\ h.overflow_number = g.overflow_number
        /\ h.number_used = g.number_used
    BY DEF BarrierLists, MarkedCard, OpenedObject, SameListsBut, ListFields
  <1>2. ASSUME NEW t \in Segs
        PROVE  /\ Num(y, t) = Num(x, t) /\ Ovf(y, t) = Ovf(x, t)
               /\ y.seg[t].number_used = x.seg[t].number_used
               /\ y.seg[t].modified = x.seg[t].modified /\ y.seg[t].mine = x.seg[t].mine
               /\ y.seg[t].young = x.seg[t].young
    <2>1. CASE t = s
      BY <1>1, <2>1 DEF Num, Ovf
    <2>2. CASE t # s
      <3>1. SameListsBut(x, y, t, {})
        BY <2>2 DEF BarrierLists
      <3> QED BY <3>1 DEF Num, Ovf, SameListsBut, ListFields
    <2> QED BY <2>1, <2>2
  <1>3. y.used = x.used /\ y.number = x.number /\ Shape(y)
    BY DEF BarrierLists, SameBut, Fields
  <1>4. NumbersInv(y, high)
    BY <1>2, <1>3 DEF Owned, NumbersInv
  <1>5. ASSUME NEW p \in Objs
        PROVE  OwnerInv(y, objects, p)
    <2>1. OwnerInv(x, objects, p)
      BY DEF Owned
    <2> QED BY <1>2, <1>3, <2>1 DEF OwnerInv
  <1>6. ASSUME NEW t \in Segs \ {s}
        PROVE  OpenInv(y, t)
    <2>1. SameListsBut(x, y, t, {}) /\ OpenInv(x, t)
      BY DEF BarrierLists, Owned
    <2> QED BY <2>1 DEF OpenInv, Ovf, SameListsBut, ListFields
  <1>7. OpenInv(y, s)
    <2>1. OpenInv(x, s) /\ OwnerInv(x, objects, o)
      BY DEF Owned
    <2>2. Ovf(y, s) = Ovf(x, s)
      BY <1>2
    <2>3. CASE card
      <3>1. /\ h.cards_set = g.cards_set \union {o} /\ h.with_cards = g.with_cards \union {o}
            /\ h.open = g.open /\ h.plain = g.plain /\ h.pointing = g.pointing
        BY <2>3 DEF BarrierLists, MarkedCard, SameListsBut, ListFields
      <3> QED BY <1>1, <2>1, <2>2, <2>3, <3>1 DEF OpenInv
    <2>4. CASE ~card
      <3>1. /\ h.cards_set = g.cards_set \ {o} /\ h.with_cards = g.with_cards
            /\ h.open = g.open \union {o}
            /\ h.pointing = IF g.pointing = NULL THEN NULL ELSE g.pointing \union {o}
            /\ h.plain = IF IS_OVERFLOW_OBJ(x, s, o) THEN g.plain ELSE g.plain \union {o}
        BY <2>4 DEF BarrierLists, OpenedObject, SameListsBut, ListFields
      <3>2. o \in g.modified <=> ~IS_OVERFLOW_OBJ(x, s, o)
        BY <2>1 DEF OwnerInv, IS_OVERFLOW_OBJ, Num
      <3>3. g.pointing # NULL => h.pointing \subseteq Objs /\ h.pointing # NULL
        BY <2>1, <3>1, PagesAssumption DEF OpenInv
      <3>4. g.pointing = NULL => Ovf(x, s) = {} /\ g.open \subseteq g.modified
        BY <2>1 DEF OpenInv
      <3>5. g.pointing # NULL => g.open \subseteq g.pointing
        BY <2>1 DEF OpenInv
      <3>6. h.plain \subseteq h.modified /\ h.open \intersect h.modified \subseteq h.plain
        BY <1>1, <2>1, <3>1, <3>2 DEF OpenInv
      <3>7. IF h.pointing = NULL THEN Ovf(y, s) = {} /\ h.open \subseteq h.modified
            ELSE h.open \subseteq h.pointing /\ h.pointing \subseteq Objs
        BY <1>1, <2>2, <3>1, <3>3, <3>4, <3>5
      <3> HIDE DEF g, h
      <3>8. /\ h.modified \union h.mine \union h.young \union Ovf(y, s) \subseteq Objs
            /\ h.with_cards \subseteq h.modified \union Ovf(y, s)
            /\ h.cards_set \subseteq h.with_cards \intersect UsesCards
            /\ h.open \subseteq h.modified \union Ovf(y, s)
        BY <1>1, <2>1, <2>2, <3>1 DEF OpenInv, g
      <3> QED BY <3>6, <3>7, <3>8 DEF OpenInv, h
    <2> QED BY <2>3, <2>4
  <1> QED BY <1>3, <1>4, <1>5, <1>6, <1>7 DEF Owned

-----------------------------------------------------------------------------
\* What a minor collection makes of the lists.
MinorOwners(x, S, commit, y) ==
  \A s \in Segs:
    /\ Num(y, s) = Num(x, s)
    /\ y.seg[s].modified = x.seg[s].modified /\ y.seg[s].mine = x.seg[s].mine
    /\ y.seg[s].plain = x.seg[s].plain
    /\ y.seg[s].young = IF s \in S THEN {} ELSE x.seg[s].young
    /\ Ovf(y, s) = IF s \in S /\ ~commit THEN Alive(x, s) \union Ovf(x, s) ELSE Ovf(x, s)
    /\ y.seg[s].number_used = (x.seg[s].number_used \/ (s \in S /\ ~commit))

\* They follow from its effect.
LEMMA MinorOwnersEffect ==
  ASSUME NEW x, NEW objects, NEW high, Owned(x, objects, high), NEW S \in SUBSET Segs,
         NEW commit \in BOOLEAN, NEW y, MinorLists(x, S, commit, y)
  PROVE  MinorOwners(x, S, commit, y)
  <1> SUFFICES ASSUME NEW s \in Segs
               PROVE  /\ Num(y, s) = Num(x, s)
                      /\ y.seg[s].modified = x.seg[s].modified
                      /\ y.seg[s].mine = x.seg[s].mine
                      /\ y.seg[s].plain = x.seg[s].plain
                      /\ y.seg[s].young = IF s \in S THEN {} ELSE x.seg[s].young
                      /\ Ovf(y, s) = IF s \in S /\ ~commit THEN Alive(x, s) \union Ovf(x, s)
                                     ELSE Ovf(x, s)
                      /\ y.seg[s].number_used = (x.seg[s].number_used \/ (s \in S /\ ~commit))
    BY DEF MinorOwners
  <1>1. x.seg[s].number_used \in BOOLEAN
    BY DEF Owned, Shape
  <1>2. CASE s \notin S
    <2>1. SameListsBut(x, y, s, {})
      BY <1>2 DEF MinorLists
    <2> QED BY <1>1, <1>2, <2>1 DEF SameListsBut, ListFields, Num, Ovf
  <1>3. CASE s \in S
    <2>1. ListsCollected(x, s, commit, y)
      BY <1>3 DEF MinorLists
    <2>2. /\ Num(y, s) = Num(x, s) /\ y.seg[s].modified = x.seg[s].modified
          /\ y.seg[s].mine = x.seg[s].mine /\ y.seg[s].plain = x.seg[s].plain
      BY <2>1 DEF ListsCollected, SameListsBut, ListFields, Num
    <2>3. y.seg[s].young = {} /\ y.seg[s].number_used = (x.seg[s].number_used \/ ~commit)
      BY <2>1 DEF ListsCollected
    <2>4. y.seg[s].overflow = IF commit THEN x.seg[s].overflow
                              ELSE Alive(x, s) \union Ovf(x, s)
      BY <2>1 DEF ListsCollected, Ovf
    <2>5. Alive(x, s) \union Ovf(x, s) \in SUBSET Objs
      BY DEF Owned, OpenInv, Alive
    <2>6. Alive(x, s) \union Ovf(x, s) # NULL
      BY <2>5, PagesAssumption
    <2>7. Ovf(y, s) = IF ~commit THEN Alive(x, s) \union Ovf(x, s) ELSE Ovf(x, s)
      BY <2>4, <2>6 DEF Ovf
    <2> QED BY <1>1, <1>3, <2>2, <2>3, <2>7
  <1> QED BY <1>2, <1>3

\* A minor collection keeps the owners.
LEMMA MinorOwned ==
  ASSUME NEW x, NEW objects, NEW high, Owned(x, objects, high), ListInv(x, objects),
         NEW S \in SUBSET Segs, NEW commit \in BOOLEAN, NEW y, MinorLists(x, S, commit, y)
  PROVE  Owned(y, objects, high) /\ \A s \in S: y.seg[s].with_cards = {}
  <1>1. MinorOwners(x, S, commit, y)
    BY MinorOwnersEffect
  <1>2. ASSUME NEW o \in Objs
        PROVE  IF ~commit /\ \E s \in S: o \in Alive(x, s)
               THEN \E s \in S: o \in Alive(x, s) /\ y.number[o] = Num(x, s)
               ELSE y.number[o] = x.number[o]
    BY DEF MinorLists, NumbersGiven, Num
  <1>3. NumbersInv(y, high)
    <2>1. NumbersInv(x, high)
      BY DEF Owned
    <2>2. ASSUME NEW o \in Objs
          PROVE  /\ y.number[o] \in 0..high
                 /\ \A s \in Segs: y.number[o] = Num(y, s) => y.seg[s].number_used
      <3>1. CASE y.number[o] = x.number[o]
        <4>1. y.number[o] \in 0..high
          BY <2>1, <3>1 DEF NumbersInv
        <4>2. ASSUME NEW s \in Segs, y.number[o] = Num(y, s)
              PROVE  y.seg[s].number_used
          <5>1. Num(y, s) = Num(x, s)
                /\ y.seg[s].number_used = (x.seg[s].number_used \/ (s \in S /\ ~commit))
            BY <1>1 DEF MinorOwners
          <5>2. x.number[o] = Num(x, s)
            BY <3>1, <4>2, <5>1
          <5>3. x.seg[s].number_used
            BY <2>1, <5>2 DEF NumbersInv
          <5> QED BY <5>1, <5>3
        <4> QED BY <4>1, <4>2
      <3>2. CASE y.number[o] # x.number[o]
        <4>1. ~commit
          BY <1>2, <3>2
        <4>2. PICK s \in S: o \in Alive(x, s) /\ y.number[o] = Num(x, s)
          BY <1>2, <3>2
        <4>3. s \in Segs
          OBVIOUS
        <4>4. y.number[o] \in 0..high
          BY <2>1, <4>2, <4>3 DEF NumbersInv
        <4>5. ASSUME NEW t \in Segs, y.number[o] = Num(y, t)
              PROVE  y.seg[t].number_used
          <5>1. Num(y, t) = Num(x, t)
                /\ y.seg[t].number_used = (x.seg[t].number_used \/ (t \in S /\ ~commit))
            BY <1>1 DEF MinorOwners
          <5>2. Num(x, s) = Num(x, t)
            BY <4>2, <4>5, <5>1
          <5>3. t = s
            BY <2>1, <4>3, <5>2 DEF NumbersInv
          <5> QED BY <4>1, <5>1, <5>3
        <4> QED BY <4>4, <4>5
      <3> QED BY <3>1, <3>2
    <2> QED BY <1>1, <2>1, <2>2 DEF NumbersInv, MinorOwners
  <1>4. ASSUME NEW o \in Objs
        PROVE  OwnerInv(y, objects, o)
    <2>1. OwnerInv(x, objects, o) /\ ObjectInv(x, objects, o) /\ NumbersInv(x, high)
      BY DEF Owned, ListInv
    <2>2. \A s \in Segs: Num(x, s) # 0
      BY <2>1 DEF NumbersInv
    <2>3. \A s \in Segs: o \in Alive(x, s) =>
            /\ o \notin objects
            /\ \A t \in Segs: o \in Lists(x, t) => t = s
      BY <2>1 DEF Alive, ObjectInv
    <2>4. \A s \in Segs: o \in Alive(x, s) => o \in Lists(x, s)
      BY DEF Alive, Lists
    <2>5. \A s \in Segs: s \in S /\ ~commit /\ o \in Alive(x, s) => y.number[o] = Num(x, s)
      BY <1>2, <2>3, <2>4
    <2>6. (\A s \in Segs: ~(s \in S /\ ~commit /\ o \in Alive(x, s)))
            => y.number[o] = x.number[o]
      BY <1>2
    <2>7. ASSUME o \in objects
          PROVE  \A s \in Segs: /\ y.number[o] # Num(y, s)
                                /\ o \notin y.seg[s].mine \union Ovf(y, s)
      <3>1. \A s \in Segs: o \notin Alive(x, s)
        BY <2>3, <2>7
      <3>2. y.number[o] = x.number[o]
        BY <2>6, <3>1
      <3> QED BY <1>1, <2>1, <2>7, <3>1, <3>2 DEF OwnerInv, MinorOwners
    <2>8. ASSUME NEW s \in Segs, o \in Ovf(y, s)
          PROVE  o \in y.used /\ y.number[o] = Num(y, s)
      <3>1. y.used = x.used \ UNION {x.seg[u].young \ x.seg[u].mine : u \in S}
        BY DEF MinorLists
      <3>2. CASE o \in Ovf(x, s)
        <4>1. \A t \in Segs: o \notin x.seg[t].young
          BY <2>1, <2>2, <3>2 DEF OwnerInv
        <4>2. \A t \in Segs: o \notin Alive(x, t)
          BY <4>1 DEF Alive
        <4>3. o \in x.used /\ x.number[o] = Num(x, s)
          BY <2>1, <3>2 DEF OwnerInv
        <4> QED BY <1>1, <2>6, <3>1, <4>1, <4>2, <4>3 DEF MinorOwners
      <3>3. CASE o \notin Ovf(x, s)
        <4>1. s \in S /\ ~commit /\ o \in Alive(x, s)
          BY <1>1, <2>8, <3>3 DEF MinorOwners
        <4>2. o \in x.used
          BY <2>1, <2>4, <4>1 DEF ObjectInv
        <4>3. ASSUME NEW u \in S, o \in x.seg[u].young \ x.seg[u].mine
              PROVE  FALSE
          <5>1. u \in Segs /\ o \in Lists(x, u)
            BY <4>3 DEF Lists
          <5>2. u = s
            BY <2>3, <4>1, <5>1
          <5> QED BY <4>1, <4>3, <5>2 DEF Alive
        <4>4. o \in y.used
          BY <3>1, <4>2, <4>3
        <4> QED BY <1>1, <2>5, <4>1, <4>4 DEF MinorOwners
      <3> QED BY <3>2, <3>3
    <2>9. ASSUME NEW s \in Segs, o \in y.seg[s].young
          PROVE  y.number[o] = 0
      <3>1. s \notin S /\ o \in x.seg[s].young /\ o \in Lists(x, s)
        BY <1>1, <2>9 DEF MinorOwners, Lists
      <3>2. \A t \in Segs: t \in S => o \notin Alive(x, t)
        BY <2>3, <3>1
      <3> QED BY <2>1, <2>6, <3>1, <3>2 DEF OwnerInv
    <2>10. ASSUME NEW s \in Segs, o \in y.seg[s].mine
           PROVE  y.number[o] \in {0, Num(y, s)}
      <3>1. o \in x.seg[s].mine /\ Num(y, s) = Num(x, s) /\ o \in Lists(x, s)
        BY <1>1, <2>10 DEF MinorOwners, Lists
      <3>2. \A t \in Segs: o \in Alive(x, t) => t = s
        BY <2>3, <3>1
      <3>3. x.number[o] \in {0, Num(x, s)}
        BY <2>1, <3>1 DEF OwnerInv
      <3> QED BY <2>5, <2>6, <3>1, <3>2, <3>3
    <2>11. ASSUME NEW s \in Segs, NEW t \in Segs, o \in y.seg[s].mine,
                  o \in y.seg[t].mine \union Ovf(y, t)
           PROVE  s = t
      <3>1. o \in x.seg[s].mine
        BY <1>1, <2>11 DEF MinorOwners
      <3>2. o \in x.seg[t].mine \union Ovf(x, t)
        BY <1>1, <2>11 DEF MinorOwners, Alive
      <3> QED BY <2>1, <3>1, <3>2 DEF OwnerInv
    <2>12. \A s \in Segs: o \in y.seg[s].modified => o \in objects
      BY <1>1, <2>1 DEF OwnerInv, MinorOwners
    <2> QED BY <2>7, <2>8, <2>9, <2>10, <2>11, <2>12 DEF OwnerInv
  <1>5. ASSUME NEW s \in S
        PROVE  OpenInv(y, s) /\ y.seg[s].with_cards = {}
    <2>1. ListsCollected(x, s, commit, y) /\ OpenInv(x, s)
      BY DEF MinorLists, Owned
    <2> DEFINE g == x.seg[s]
               h == y.seg[s]
    <2>2. /\ h.with_cards = {} /\ h.cards_set = g.cards_set \ Traced(x, s)
          /\ h.open = g.open \ (IF g.pointing = NULL THEN g.modified ELSE g.pointing)
          /\ h.pointing = {} /\ h.young = {}
      BY <2>1 DEF ListsCollected
    <2>3. h.cards_set = {}
      BY <2>1, <2>2 DEF OpenInv, Traced
    <2>4. h.open = {}
      BY <2>1, <2>2 DEF OpenInv
    <2>5. h.pointing # NULL
      BY <2>2, PagesAssumption
    <2>6. /\ h.modified = g.modified /\ h.mine = g.mine /\ h.plain = g.plain
          /\ Ovf(y, s) \subseteq g.mine \union Ovf(x, s)
      BY <1>1 DEF MinorOwners, Alive
    <2>7. /\ g.modified \union g.mine \union Ovf(x, s) \subseteq Objs
          /\ g.plain \subseteq g.modified
      BY <2>1 DEF OpenInv
    <2> HIDE DEF g, h
    <2>8. h.modified \union h.mine \union h.young \union Ovf(y, s) \subseteq Objs
      BY <2>2, <2>6, <2>7
    <2> QED BY <2>2, <2>3, <2>4, <2>5, <2>6, <2>7, <2>8 DEF OpenInv, h
  <1>6. ASSUME NEW s \in Segs, s \notin S
        PROVE  OpenInv(y, s)
    <2>1. SameListsBut(x, y, s, {}) /\ OpenInv(x, s)
      BY <1>6 DEF MinorLists, Owned
    <2> QED BY <2>1 DEF OpenInv, Ovf, SameListsBut, ListFields
  <1>7. \A s \in Segs: OpenInv(y, s)
    BY <1>5, <1>6
  <1> QED BY <1>3, <1>4, <1>5, <1>7 DEF Owned, MinorLists

\* What is swept is nobody's: nothing that a list names.
LEMMA SweepOwned ==
  ASSUME NEW x, NEW objects, NEW high, Owned(x, objects, high), NEW reachable,
         NEW y, SweepEffect(x, reachable, y)
  PROVE  Owned(y, objects, high) /\ \A s \in Segs: y.seg[s].with_cards = {}
  <1>1. ASSUME NEW s \in Segs
        PROVE  /\ Num(y, s) = Num(x, s) /\ y.seg[s].number_used = x.seg[s].number_used
               /\ y.seg[s].modified = x.seg[s].modified /\ y.seg[s].mine = x.seg[s].mine
               /\ y.seg[s].young = x.seg[s].young /\ y.seg[s].plain = x.seg[s].plain
               /\ Ovf(y, s) = Ovf(x, s) \intersect reachable
               /\ y.seg[s].with_cards = {}
               /\ y.seg[s].cards_set = x.seg[s].cards_set \ x.seg[s].with_cards
               /\ y.seg[s].open = x.seg[s].open \ (IF x.seg[s].pointing = NULL THEN {}
                                                   ELSE x.seg[s].pointing)
               /\ y.seg[s].pointing = IF x.seg[s].pointing = NULL THEN NULL ELSE {}
    <2>1. ListsSwept(x, s, reachable, y)
      BY DEF SweepEffect
    <2>2. Ovf(x, s) \subseteq Objs
      BY DEF Owned, OpenInv
    <2>3. Ovf(x, s) \intersect reachable \in SUBSET Objs
      BY <2>2
    <2>4. Ovf(x, s) \intersect reachable # NULL
      BY <2>3, PagesAssumption
    <2>5. y.seg[s].overflow = IF x.seg[s].overflow = NULL THEN NULL
                              ELSE Ovf(x, s) \intersect reachable
      BY <2>1 DEF ListsSwept, Ovf
    <2>6. Ovf(y, s) = Ovf(x, s) \intersect reachable
      BY <2>4, <2>5 DEF Ovf
    <2> QED BY <2>1, <2>6 DEF ListsSwept, SameListsBut, ListFields, Num
  <1>2. Shape(y) /\ y.number = x.number
        /\ \A o \in Objs: o \in y.used <=> o \in x.used /\ o \in reachable
    BY DEF SweepEffect, SameBut, Fields
  <1>3. NumbersInv(y, high)
    BY <1>1, <1>2 DEF Owned, NumbersInv
  <1>4. ASSUME NEW o \in Objs
        PROVE  OwnerInv(y, objects, o)
    <2>1. OwnerInv(x, objects, o)
      BY DEF Owned
    <2> QED BY <1>1, <1>2, <2>1 DEF OwnerInv
  <1>5. ASSUME NEW s \in Segs
        PROVE  OpenInv(y, s)
    <2>1. OpenInv(x, s)
      BY DEF Owned
    <2> DEFINE g == x.seg[s]
               h == y.seg[s]
    <2>2. h.cards_set = {}
      <3>1. g.cards_set \subseteq g.with_cards
        BY <2>1 DEF OpenInv
      <3>2. h.cards_set = g.cards_set \ g.with_cards
        BY <1>1
      <3> QED BY ONLY <3>1, <3>2
    <2>3. h.open = IF g.pointing = NULL THEN g.open ELSE {}
      <3>1. g.pointing # NULL => g.open \subseteq g.pointing
        BY <2>1 DEF OpenInv
      <3>2. h.open = g.open \ (IF g.pointing = NULL THEN {} ELSE g.pointing)
        BY <1>1
      <3> QED BY ONLY <3>1, <3>2
    <2>4. {} # NULL
      BY PagesAssumption
    <2>5. h.modified = g.modified /\ h.mine = g.mine /\ h.young = g.young /\ h.plain = g.plain
          /\ Ovf(y, s) \subseteq Ovf(x, s) /\ h.with_cards = {}
          /\ h.pointing = IF g.pointing = NULL THEN NULL ELSE {}
      BY <1>1
    <2>6. h.open \subseteq h.modified \union Ovf(y, s)
      BY <2>1, <2>3, <2>5 DEF OpenInv
    <2>7. IF h.pointing = NULL THEN Ovf(y, s) = {} /\ h.open \subseteq h.modified
          ELSE h.open \subseteq h.pointing /\ h.pointing \subseteq Objs
      BY <2>1, <2>3, <2>4, <2>5 DEF OpenInv
    <2> HIDE DEF g, h
    <2>8. /\ h.modified \union h.mine \union h.young \union Ovf(y, s) \subseteq Objs
          /\ h.plain \subseteq h.modified /\ h.open \intersect h.modified \subseteq h.plain
      BY <2>1, <2>3, <2>5 DEF OpenInv, g
    <2> QED BY <2>2, <2>5, <2>6, <2>7, <2>8 DEF OpenInv, h
  <1> QED BY <1>1, <1>2, <1>3, <1>4, <1>5 DEF Owned

\* What a major collection traces.
Reachable(x, objects) ==
  objects \union UNION {x.seg[s].mine \union x.seg[s].modified: s \in Segs}

Major == major_collection_now_at_safe_point(sys)

\* The three parts of a major collection.
MajorSteps(a, b, objects, high) ==
  LET S == {s \in Segs: sys.seg[s].young # {}}
  IN  /\ S \in SUBSET Segs /\ MinorLists(sys, S, FALSE, a)
      /\ Owned(a, objects, high) /\ ListInv(a, objects)
      /\ ReshareEffect(a, b) /\ Owned(b, objects, high)
      /\ SweepEffect(b, Reachable(b, objects), Major)

\* A major collection consists of them.
LEMMA MajorParts ==
  ASSUME Owned(sys, public, highest_overflow_number), ListInv(sys, public)
  PROVE  \E a, b: MajorSteps(a, b, public, highest_overflow_number)
  <1> DEFINE high == highest_overflow_number
             S == {s \in Segs: sys.seg[s].young # {}}
             a == _do_minor_collection(sys, S, FALSE)
             b == major_reshare_pages(a)
             reachable == Reachable(b, public)
  <1>0. S \in SUBSET Segs /\ FALSE \in BOOLEAN
    OBVIOUS
  <1>1. Major = major_restore_write_locks(sweep_large_objects(
                  clean_up_segment_lists(MarkVisited(b, reachable))))
    BY DEF Major, major_collection_now_at_safe_point, major_do_minor_collections,
           MINOR_NOTHING_TO_DO, Reachable
  <1> HIDE DEF S
  <1>2. MinorLists(sys, S, FALSE, a)
    BY <1>0, MinorListsEffect DEF Owned
  <1>3. ListInv(a, public)
    BY <1>0, MinorKeeps
  <1> HIDE DEF a
  <1>4. Owned(a, public, high)
    BY <1>0, <1>2, MinorOwned
  <1>5. ReshareEffect(a, b)
    BY <1>4, Reshared DEF Owned
  <1> HIDE DEF b
  <1>6. Owned(b, public, high)
    <2>1. SameBut(a, b, {"mem", "by_segment", "write_locks", "cards", "total_allocated"})
      BY <1>5 DEF ReshareEffect, SameBut
    <2>2. Shape(b)
      BY <1>5 DEF ReshareEffect
    <2> QED BY <1>4, <2>1, <2>2, SameListsOwned
  <1>7. ASSUME NEW o \in Objs, b.write_locks[o] = WL_VISITED
        PROVE  o \in reachable
    <2>1. b.write_locks = a.write_locks
          /\ \A s \in Segs: b.seg[s].modified = a.seg[s].modified
      BY <1>5 DEF ReshareEffect, SameBut, Fields
    <2>2. a.write_locks[o] \in Segs \union {0}
          /\ \A s \in Segs: o \in a.seg[s].modified <=> a.write_locks[o] = s
      BY <1>3 DEF ListInv, ObjectInv
    <2>3. PICK s \in Segs: o \in b.seg[s].modified
      BY <1>7, <2>1, <2>2 DEF WL_VISITED
    <2> QED BY <2>3 DEF Reachable
  <1>8. \A s \in Segs: b.seg[s].overflow # NULL => b.seg[s].overflow \subseteq Objs
    BY <1>6 DEF Owned, OpenInv, Ovf
  <1>9. SweepEffect(b, reachable, Major)
    <2>1. Shape(b)
      BY <1>5 DEF ReshareEffect
    <2> HIDE DEF reachable
    <2> QED BY <1>1, <1>7, <1>8, <2>1, SweepEffects
  <1>10. MajorSteps(a, b, public, high)
    BY <1>0, <1>2, <1>3, <1>4, <1>5, <1>6, <1>9 DEF MajorSteps, S
  <1> QED BY <1>10

\* What a major collection makes of the lists.
MajorOwners(y) ==
  /\ \A o \in Objs: o \in y.used =>
       o \in sys.used /\ o \in Reachable(sys, public)
  /\ \A s \in Segs:
       /\ y.seg[s].modified = sys.seg[s].modified /\ y.seg[s].mine = sys.seg[s].mine
       /\ y.seg[s].plain = sys.seg[s].plain
       /\ y.seg[s].young = {} /\ y.seg[s].with_cards = {}
       /\ Num(y, s) = Num(sys, s)
       /\ Ovf(y, s) \subseteq sys.seg[s].mine
       /\ sys.seg[s].mine \intersect (sys.seg[s].young \union Ovf(sys, s)) \subseteq Ovf(y, s)
       /\ y.seg[s].number_used = (sys.seg[s].number_used \/ sys.seg[s].young # {})

\* A major collection keeps the owners.
LEMMA MajorOwned ==
  ASSUME Owned(sys, public, highest_overflow_number), ListInv(sys, public)
  PROVE  Owned(Major, public, highest_overflow_number) /\ MajorOwners(Major)
  <1> DEFINE high == highest_overflow_number
             S == {s \in Segs: sys.seg[s].young # {}}
  <1>1. PICK a, b: MajorSteps(a, b, public, high)
    BY MajorParts
  <1>2. /\ S \in SUBSET Segs /\ MinorLists(sys, S, FALSE, a) /\ ReshareEffect(a, b)
        /\ Owned(a, public, high) /\ Owned(b, public, high)
        /\ SweepEffect(b, Reachable(b, public), Major)
    BY <1>1 DEF MajorSteps
  <1>3. MinorOwners(sys, S, FALSE, a)
    BY <1>2, MinorOwnersEffect
  <1>4. \A o \in Objs: o \in a.used => o \in sys.used
    BY <1>2 DEF MinorLists
  <1>5. b.used = a.used /\ b.seg = a.seg
    BY <1>2 DEF ReshareEffect, SameBut, Fields
  <1>6. Owned(Major, public, high) /\ \A s \in Segs: Major.seg[s].with_cards = {}
    BY <1>2, SweepOwned
  <1>7. Reachable(b, public) = Reachable(sys, public)
    <2>1. \A s \in Segs: b.seg[s].mine = sys.seg[s].mine
                         /\ b.seg[s].modified = sys.seg[s].modified
      BY <1>3, <1>5 DEF MinorOwners
    <2> QED BY <2>1 DEF Reachable
  <1>8. \A o \in Objs: o \in Major.used => o \in sys.used /\ o \in Reachable(sys, public)
    BY <1>2, <1>4, <1>5, <1>7 DEF SweepEffect
  <1>9. ASSUME NEW s \in Segs
        PROVE  /\ Major.seg[s].modified = sys.seg[s].modified
               /\ Major.seg[s].mine = sys.seg[s].mine
               /\ Major.seg[s].plain = sys.seg[s].plain
               /\ Major.seg[s].young = {} /\ Num(Major, s) = Num(sys, s)
               /\ Ovf(Major, s) \subseteq sys.seg[s].mine
               /\ sys.seg[s].mine \intersect (sys.seg[s].young \union Ovf(sys, s))
                    \subseteq Ovf(Major, s)
               /\ Major.seg[s].number_used = (sys.seg[s].number_used \/ sys.seg[s].young # {})
    <2>1. ListsSwept(b, s, Reachable(sys, public), Major)
      BY <1>2, <1>7 DEF SweepEffect
    <2>2. /\ Major.seg[s].modified = a.seg[s].modified /\ Major.seg[s].mine = a.seg[s].mine
          /\ Major.seg[s].plain = a.seg[s].plain /\ Major.seg[s].young = a.seg[s].young
          /\ Num(Major, s) = Num(a, s) /\ Major.seg[s].number_used = a.seg[s].number_used
      BY <1>5, <2>1 DEF ListsSwept, SameListsBut, ListFields, Num
    <2>3. /\ a.seg[s].modified = sys.seg[s].modified /\ a.seg[s].mine = sys.seg[s].mine
          /\ a.seg[s].plain = sys.seg[s].plain /\ Num(a, s) = Num(sys, s)
      BY <1>3 DEF MinorOwners
    <2>4. a.seg[s].young = {}
      BY <1>3 DEF MinorOwners
    <2>5. a.seg[s].number_used = (sys.seg[s].number_used \/ sys.seg[s].young # {})
      BY <1>3 DEF MinorOwners
    <2>6. Ovf(Major, s) \subseteq sys.seg[s].mine
      <3> SUFFICES ASSUME NEW o \in Ovf(Major, s)
                   PROVE  o \in sys.seg[s].mine
        OBVIOUS
      <3>1. o \in Objs
        BY <1>6 DEF Owned, OpenInv
      <3>2. o \in Major.used /\ Major.number[o] = Num(Major, s)
        BY <1>6, <3>1 DEF Owned, OwnerInv
      <3>3. OwnerInv(Major, public, o)
        BY <1>6, <3>1 DEF Owned
      <3>4. o \notin public
        BY <3>2, <3>3 DEF OwnerInv
      <3>5. PICK t \in Segs: o \in Major.seg[t].mine \union Major.seg[t].modified
        <4>1. \A t \in Segs: Major.seg[t].mine = sys.seg[t].mine
                             /\ Major.seg[t].modified = sys.seg[t].modified
          <5> SUFFICES ASSUME NEW t \in Segs
                       PROVE  Major.seg[t].mine = sys.seg[t].mine
                              /\ Major.seg[t].modified = sys.seg[t].modified
            OBVIOUS
          <5>1. ListsSwept(b, t, Reachable(sys, public), Major)
            BY <1>2, <1>7 DEF SweepEffect
          <5>2. Major.seg[t].modified = a.seg[t].modified /\ Major.seg[t].mine = a.seg[t].mine
            BY <1>5, <5>1 DEF ListsSwept, SameListsBut, ListFields
          <5> QED BY <1>3, <5>2 DEF MinorOwners
        <4>2. o \in Reachable(sys, public)
          BY <1>8, <3>1, <3>2
        <4> QED BY <3>4, <4>1, <4>2 DEF Reachable
      <3>6. o \in Major.seg[t].mine
        BY <3>3, <3>4, <3>5 DEF OwnerInv
      <3>7. t = s
        BY <3>3, <3>6 DEF OwnerInv
      <3> QED BY <2>2, <2>3, <3>6, <3>7
    <2>7. sys.seg[s].mine \intersect (sys.seg[s].young \union Ovf(sys, s))
            \subseteq Ovf(Major, s)
      <3> SUFFICES ASSUME NEW o \in sys.seg[s].mine, o \in sys.seg[s].young \union Ovf(sys, s)
                   PROVE  o \in Ovf(Major, s)
        OBVIOUS
      <3>1. Ovf(a, s) = IF s \in S THEN Alive(sys, s) \union Ovf(sys, s) ELSE Ovf(sys, s)
        BY <1>3 DEF MinorOwners
      <3>2. o \in Ovf(a, s)
        BY <3>1 DEF Alive
      <3>3. Ovf(b, s) = Ovf(a, s) /\ Ovf(b, s) \subseteq Objs
        BY <1>2, <1>5 DEF Owned, OpenInv, Ovf
      <3>4. Ovf(b, s) \intersect Reachable(sys, public) \in SUBSET Objs
        BY <3>3
      <3>5. Ovf(b, s) \intersect Reachable(sys, public) # NULL
        BY <3>4, PagesAssumption
      <3>6. o \in Reachable(sys, public)
        BY DEF Reachable
      <3>7. b.seg[s].overflow # NULL
        BY <3>2, <3>3 DEF Ovf
      <3>8. Major.seg[s].overflow = Ovf(b, s) \intersect Reachable(sys, public)
        BY <2>1, <3>7 DEF ListsSwept, Ovf
      <3> QED BY <3>2, <3>3, <3>5, <3>6, <3>8 DEF Ovf
    <2> QED BY <2>2, <2>3, <2>4, <2>5, <2>6, <2>7
  <1> QED BY <1>6, <1>8, <1>9 DEF MajorOwners

\* A commit, after its minor collection, gives its objects away and takes a
\* number that no object has.
LEMMA CommitOwned ==
  ASSUME NEW x, NEW objects, Owned(x, objects, highest_overflow_number), NEW s \in Segs,
         x.seg[s].young = {}, x.seg[s].with_cards = {}, NEW y, CommitLists(x, s, y)
  PROVE  Owned(y, objects \union x.seg[s].mine,
               highest_overflow_number + (IF x.seg[s].number_used THEN 1 ELSE 0))
  <1> DEFINE high == highest_overflow_number
             new == high + (IF x.seg[s].number_used THEN 1 ELSE 0)
             all == objects \union x.seg[s].mine
  <1>1. ASSUME NEW t \in Segs, t # s
        PROVE  SameListsBut(x, y, t, {}) /\ Num(y, t) = Num(x, t) /\ Ovf(y, t) = Ovf(x, t)
               /\ y.seg[t].number_used = x.seg[t].number_used
               /\ y.seg[t].modified = x.seg[t].modified /\ y.seg[t].mine = x.seg[t].mine
               /\ y.seg[t].young = x.seg[t].young
    <2>1. SameListsBut(x, y, t, {})
      BY <1>1 DEF CommitLists
    <2> QED BY <2>1 DEF SameListsBut, ListFields, Num, Ovf
  <1>2. /\ y.seg[s].modified = {} /\ y.seg[s].pointing = NULL /\ y.seg[s].with_cards = {}
        /\ y.seg[s].open = {} /\ y.seg[s].mine = {} /\ y.seg[s].plain = {}
        /\ Ovf(y, s) = {}
        /\ y.seg[s].young = {} /\ y.seg[s].cards_set = x.seg[s].cards_set
        /\ Num(y, s) = IF x.seg[s].number_used THEN high + 1 ELSE Num(x, s)
    BY DEF CommitLists, SameListsBut, ListFields, Num, Ovf
  <1>3. y.number = x.number /\ y.used = x.used /\ Shape(y)
    BY DEF CommitLists, SameBut, Fields
  <1>4. NumbersInv(x, high) /\ high \in Nat /\ OpenInv(x, s)
        /\ x.seg[s].number_used \in BOOLEAN
    BY DEF Owned, NumbersInv, Shape
  <1>5. new \in Nat /\ high <= new /\ Num(y, s) \in 1..new
    <2>1. Num(x, s) \in 1..high
      BY <1>4 DEF NumbersInv
    <2>2. CASE x.seg[s].number_used
      BY <1>2, <1>4, <2>1, <2>2
    <2>3. CASE ~x.seg[s].number_used
      BY <1>2, <1>4, <2>1, <2>3
    <2> QED BY <2>2, <2>3
  <1>6. ASSUME NEW o \in Objs
        PROVE  x.number[o] \in 0..new /\ x.number[o] # Num(y, s)
    <2>1. x.number[o] \in 0..high /\ (x.number[o] = Num(x, s) => x.seg[s].number_used)
      BY <1>4 DEF NumbersInv
    <2>2. x.number[o] # Num(y, s)
      <3>1. CASE x.seg[s].number_used
        <4>1. Num(y, s) = high + 1
          BY <1>2, <3>1
        <4> QED BY <1>4, <2>1, <4>1
      <3>2. CASE ~x.seg[s].number_used
        BY <1>2, <2>1, <3>2
      <3> QED BY <3>1, <3>2
    <2> HIDE DEF new
    <2> QED BY <1>4, <1>5, <2>1, <2>2
  <1>7. ASSUME NEW t \in Segs, t # s
        PROVE  Num(y, t) \in 1..new /\ Num(y, t) # Num(y, s)
    <2>1. Num(x, t) \in 1..high /\ Num(x, t) # Num(x, s)
      BY <1>4, <1>7 DEF NumbersInv
    <2>2. Num(y, t) # Num(y, s)
      <3>1. CASE x.seg[s].number_used
        <4>1. Num(y, s) = high + 1
          BY <1>2, <3>1
        <4> QED BY <1>1, <1>4, <1>7, <2>1, <4>1
      <3>2. CASE ~x.seg[s].number_used
        BY <1>1, <1>2, <1>7, <2>1, <3>2
      <3> QED BY <3>1, <3>2
    <2> HIDE DEF new
    <2> QED BY <1>1, <1>4, <1>5, <1>7, <2>1, <2>2
  <1> HIDE DEF new
  <1>8. NumbersInv(y, new)
    <2>1. ASSUME NEW t \in Segs, NEW u \in Segs, Num(y, t) = Num(y, u)
          PROVE  t = u
      <3>1. CASE t = s \/ u = s
        BY <1>7, <2>1, <3>1
      <3>2. CASE t # s /\ u # s
        <4>1. Num(x, t) = Num(x, u)
          BY <1>1, <2>1, <3>2
        <4> QED BY <1>4, <4>1 DEF NumbersInv
      <3> QED BY <3>1, <3>2
    <2>2. ASSUME NEW o \in Objs, NEW t \in Segs, y.number[o] = Num(y, t)
          PROVE  y.seg[t].number_used
      <3>1. t # s
        BY <1>3, <1>6, <2>2
      <3>2. x.number[o] = Num(x, t)
        BY <1>1, <1>3, <2>2, <3>1
      <3>3. x.seg[t].number_used
        BY <1>4, <3>2 DEF NumbersInv
      <3> QED BY <1>1, <3>1, <3>3
    <2>3. \A t \in Segs: Num(y, t) \in 1..new
      BY <1>5, <1>7
    <2>4. \A o \in Objs: y.number[o] \in 0..new
      BY <1>3, <1>6
    <2> QED BY <1>5, <2>1, <2>2, <2>3, <2>4 DEF NumbersInv
  <1>9. ASSUME NEW o \in Objs
        PROVE  OwnerInv(y, all, o)
    <2>1. OwnerInv(x, objects, o)
      BY DEF Owned
    <2>2. ASSUME NEW t \in Segs, o \in all
          PROVE  y.number[o] # Num(y, t) /\ o \notin y.seg[t].mine \union Ovf(y, t)
      <3>1. CASE t = s
        BY <1>2, <1>3, <1>6, <3>1
      <3>2. CASE t # s
        <4>1. x.number[o] # Num(x, t)
          <5>1. CASE o \in objects
            BY <2>1, <5>1 DEF OwnerInv
          <5>2. CASE o \in x.seg[s].mine
            <6>1. x.number[o] \in {0, Num(x, s)}
              BY <2>1, <5>2 DEF OwnerInv
            <6>2. Num(x, t) # 0 /\ Num(x, t) # Num(x, s)
              BY <1>4, <3>2 DEF NumbersInv
            <6> QED BY <6>1, <6>2
          <5> QED BY <2>2, <5>1, <5>2
        <4>2. o \notin x.seg[t].mine \union Ovf(x, t)
          <5>1. CASE o \in objects
            BY <2>1, <5>1 DEF OwnerInv
          <5>2. CASE o \in x.seg[s].mine
            BY <2>1, <3>2, <5>2 DEF OwnerInv
          <5> QED BY <2>2, <5>1, <5>2
        <4> QED BY <1>1, <1>3, <3>2, <4>1, <4>2
      <3> QED BY <3>1, <3>2
    <2>3. ASSUME NEW t \in Segs
          PROVE  /\ o \in Ovf(y, t) => o \in y.used /\ y.number[o] = Num(y, t)
                 /\ o \in y.seg[t].young => y.number[o] = 0
                 /\ o \in y.seg[t].mine => y.number[o] \in {0, Num(y, t)}
                 /\ o \in y.seg[t].modified => o \in all
                 /\ \A u \in Segs: o \in y.seg[t].mine
                                   /\ o \in y.seg[u].mine \union Ovf(y, u) => t = u
      <3>1. CASE t = s
        BY <1>2, <3>1
      <3>2. CASE t # s
        <4>1. \A u \in Segs: o \in x.seg[t].mine
                             /\ o \in x.seg[u].mine \union Ovf(x, u) => t = u
          BY <2>1 DEF OwnerInv
        <4>2. \A u \in Segs: y.seg[u].mine \union Ovf(y, u)
                               \subseteq x.seg[u].mine \union Ovf(x, u)
          BY <1>1, <1>2
        <4> QED BY <1>1, <1>3, <2>1, <3>2, <4>1, <4>2 DEF OwnerInv
      <3> QED BY <3>1, <3>2
    <2> HIDE DEF all
    <2> QED BY <2>2, <2>3 DEF OwnerInv
  <1>10. ASSUME NEW t \in Segs
         PROVE  OpenInv(y, t)
    <2>1. CASE t = s
      <3>1. x.seg[s].cards_set = {}
        BY <1>4 DEF OpenInv
      <3> QED BY <1>2, <2>1, <3>1 DEF OpenInv
    <2>2. CASE t # s
      <3>1. SameListsBut(x, y, t, {}) /\ OpenInv(x, t)
        BY <1>1, <2>2 DEF Owned
      <3> QED BY <3>1 DEF OpenInv, Ovf, SameListsBut, ListFields
    <2> QED BY <2>1, <2>2
  <1>11. Owned(y, all, new)
    BY <1>3, <1>8, <1>9, <1>10 DEF Owned
  <1> QED BY <1>11 DEF new

\* An abort gives up all it had.
LEMMA AbortOwned ==
  ASSUME NEW x, NEW objects, NEW high, Owned(x, objects, high), NEW S \in SUBSET Segs,
         NEW y, AbortLists(x, S, y)
  PROVE  Owned(y, objects, high)
  <1>1. ASSUME NEW t \in Segs
        PROVE  /\ Num(y, t) = Num(x, t) /\ y.seg[t].number_used = x.seg[t].number_used
               /\ Ovf(y, t) = IF t \in S THEN {} ELSE Ovf(x, t)
               /\ y.seg[t].modified = IF t \in S THEN {} ELSE x.seg[t].modified
               /\ y.seg[t].mine = IF t \in S THEN {} ELSE x.seg[t].mine
               /\ y.seg[t].young = IF t \in S THEN {} ELSE x.seg[t].young
    <2>1. CASE t \in S
      <3>1. ListsForgotten(x, t, y) /\ y.seg[t].young = {}
        BY <2>1 DEF AbortLists
      <3> QED BY <2>1, <3>1 DEF ListsForgotten, SameListsBut, ListFields, Num, Ovf
    <2>2. CASE t \notin S
      <3>1. SameListsBut(x, y, t, {})
        BY <2>2 DEF AbortLists
      <3> QED BY <2>2, <3>1 DEF SameListsBut, ListFields, Num, Ovf
    <2> QED BY <2>1, <2>2
  <1>2. Shape(y) /\ y.number = x.number
        /\ y.used = x.used \ UNION {x.seg[s].young : s \in S}
    BY DEF AbortLists, SameBut, Fields
  <1>3. NumbersInv(x, high)
    BY DEF Owned
  <1>4. NumbersInv(y, high)
    BY <1>1, <1>2, <1>3 DEF NumbersInv
  <1>5. ASSUME NEW o \in Objs
        PROVE  OwnerInv(y, objects, o)
    <2>1. OwnerInv(x, objects, o)
      BY DEF Owned
    <2>2. ASSUME NEW t \in Segs, o \in Ovf(y, t)
          PROVE  o \in y.used /\ y.number[o] = Num(y, t)
      <3>1. t \notin S /\ o \in Ovf(x, t)
        BY <1>1, <2>2
      <3>2. o \in x.used /\ x.number[o] = Num(x, t) /\ Num(x, t) # 0
        BY <1>3, <2>1, <3>1 DEF OwnerInv, NumbersInv
      <3>3. \A u \in Segs: o \notin x.seg[u].young
        BY <2>1, <3>2 DEF OwnerInv
      <3> QED BY <1>1, <1>2, <3>2, <3>3
    <2>3. ASSUME NEW t \in Segs
          PROVE  /\ o \in y.seg[t].young => y.number[o] = 0
                 /\ o \in y.seg[t].mine => y.number[o] \in {0, Num(y, t)}
                 /\ o \in y.seg[t].modified => o \in objects
                 /\ o \in objects => /\ y.number[o] # Num(y, t)
                                     /\ o \notin y.seg[t].mine \union Ovf(y, t)
      BY <1>1, <1>2, <2>1 DEF OwnerInv
    <2>4. ASSUME NEW t \in Segs, NEW u \in Segs, o \in y.seg[t].mine,
                 o \in y.seg[u].mine \union Ovf(y, u)
          PROVE  t = u
      BY <1>1, <2>1, <2>4 DEF OwnerInv
    <2> QED BY <2>2, <2>3, <2>4 DEF OwnerInv
  <1>6. ASSUME NEW t \in Segs
        PROVE  OpenInv(y, t)
    <2>1. OpenInv(x, t)
      BY DEF Owned
    <2>2. CASE t \in S
      <3>1. ListsForgotten(x, t, y) /\ y.seg[t].young = {}
            /\ y.seg[t].cards_set = x.seg[t].cards_set \ Marked(x, t)
        BY <2>2 DEF AbortLists
      <3>2. x.seg[t].cards_set \subseteq Marked(x, t)
        <4>1. x.seg[t].cards_set \subseteq (x.seg[t].modified \union Ovf(x, t))
                                             \intersect UsesCards
          BY <2>1 DEF OpenInv
        <4> QED BY <4>1 DEF Marked, Ovf
      <3>3. Ovf(y, t) = {} /\ y.seg[t].cards_set = {}
        BY <3>1, <3>2 DEF ListsForgotten, Ovf
      <3> QED BY <3>1, <3>3 DEF OpenInv, ListsForgotten
    <2>3. CASE t \notin S
      <3>1. SameListsBut(x, y, t, {})
        BY <2>3 DEF AbortLists
      <3> QED BY <2>1, <3>1 DEF OpenInv, Ovf, SameListsBut, ListFields
    <2> QED BY <2>2, <2>3
  <1> QED BY <1>2, <1>4, <1>5, <1>6 DEF Owned

-----------------------------------------------------------------------------
(* Where the threads are.                                                  *)

Committing(s) == pc[s].k \in Pushing \union {"commit"}

\* A transaction that does not commit has all its objects in its lists; the
\* minor collection of a commit left no marked card; an object that is being
\* allocated is no overflow object.
OwnPlaces(s) ==
  /\ ~Committing(s) => sys.seg[s].mine \subseteq sys.seg[s].young \union Ovf(sys, s)
  /\ Committing(s) => sys.seg[s].with_cards = {}
  /\ pc[s].k \in Allocating => pc[s].o \in Objs /\ sys.number[pc[s].o] = 0

\* Each object has one owner or is committed, and the owners are where their
\* objects allow.
OwnedInv ==
  /\ Owned(sys, public, highest_overflow_number)
  /\ \A s \in Segs: OwnPlaces(s)

\* A thread that privatizes pages does so for an object that it has modified;
\* one that pushes objects has only its own ones to push.
Placed(s) ==
  /\ pc[s].k \in Privatizing =>
       /\ {"o", "c", "card", "todo", "total", "page"} \subseteq DOMAIN pc[s]
       /\ pc[s].o \in Objs /\ pc[s].o \in sys.seg[s].modified
       /\ pc[s].c \in Cells(pc[s].o)
       /\ pc[s].card \in BOOLEAN /\ (pc[s].card => pc[s].o \in UsesCards)
       /\ pc[s].todo \in Seq(1..NB_PAGES)
       /\ pc[s].k # "page" => pc[s].todo # <<>>
  /\ pc[s].k \in Pushing =>
       "todo" \in DOMAIN pc[s] /\ pc[s].todo \subseteq sys.seg[s].mine \union Ovf(sys, s)

\* The arguments of all threads.
PlacedInv == \A s \in Segs: Placed(s)

\* A content for each cell of each object.
IsContents(f) == DOMAIN f = Objs /\ \A o \in Objs: DOMAIN f[o] = Cells(o)

\* The history has objects and their cells.
ContentsInv ==
  /\ public \subseteq Objs
  /\ IsContents(committed)
  /\ DOMAIN own = Segs /\ \A s \in Segs: IsContents(own[s])

\* What does not depend on the contents of memory.
BaseInv ==
  /\ PlaceInv /\ LockInv /\ PagesInv /\ OwnedInv /\ PlacedInv /\ ContentsInv
  /\ uninitialized_page_start \in Nat

-----------------------------------------------------------------------------
(* What every step does, as far as the contents of objects is concerned.   *)

Others(s) == \A t \in Segs \ {s}: pc'[t] = pc[t]
SameHeap == UNCHANGED <<sys, public, committed, own>>
SameGrowth == UNCHANGED <<uninitialized_page_start, mapped>>
OneList(s, changed) ==
  /\ SameListsBut(sys, sys', s, changed)
  /\ \A t \in Segs \ {s}: SameListsBut(sys, sys', t, {})

\* One cell of an object of the transaction, through any barrier.
WriteStep(s, o, c, x) ==
  /\ o \in Objs /\ c \in Cells(o) /\ o \in sys.seg[s].modified \union sys.seg[s].mine
  /\ Shape(sys') /\ SameBut(x, sys', {"mem"})
  /\ \A t \in 0..NB_SEGMENTS: \A p \in Objs: \A d \in Cells(p): sys'.mem[t][p][d] =
       IF p = o /\ d = c /\ Home(x, s, Layout[o][c]) = t
       THEN 1 - x.mem[t][o][c] ELSE x.mem[t][p][d]
  /\ \A t \in Segs: \A p \in Objs: \A d \in Cells(p): own'[t][p][d] =
       IF t = s /\ p = o /\ d = c THEN 1 - own[s][o][c] ELSE own[t][p][d]
  /\ SameGrowth /\ UNCHANGED <<public, committed, highest_overflow_number>>

DirectWrite(s, o, c) ==
  /\ WriteStep(s, o, c, sys) /\ UNCHANGED pc /\ Running(s)
  /\ o \in sys.seg[s].young \union sys.seg[s].open

BarrierWrite(s, o, c, card, x) ==
  /\ WriteStep(s, o, c, x) /\ BarrierLists(sys, s, o, c, card, x)
  /\ card \in BOOLEAN /\ (card => o \in UsesCards)
  /\ o \in sys.seg[s].modified \union Ovf(sys, s)
  /\ \/ /\ UNCHANGED pc /\ Running(s)
        /\ o \in Ovf(sys, s) \/ (card /\ o \in sys.seg[s].cards_set
                                      /\ SameBarrier(s, o, card))
     \/ /\ pc[s].k = "page" /\ pc[s].todo = <<>>
        /\ pc[s].o = o /\ pc[s].c = c /\ pc[s].card = card
        /\ o \in sys.seg[s].modified
        /\ pc'[s] = Idle /\ Others(s)

LockTakenStep(s, o, c, card) ==
  /\ Running(s) /\ o \in public /\ o \notin sys.seg[s].open
  /\ SameBarrier(s, o, card)
  /\ card \in BOOLEAN /\ (card => o \in UsesCards \ sys.seg[s].cards_set)
  /\ \A t \in Segs \ {s}: o \notin sys.seg[t].modified
  /\ Shape(sys') /\ SameBut(sys, sys', {"write_locks", "seg"}) /\ OneList(s, {"modified"})
  /\ sys'.seg[s].modified = sys.seg[s].modified \union {o}
  /\ {"o", "c", "card", "todo", "total", "page"} \subseteq DOMAIN pc'[s]
  /\ pc'[s].k = "page" /\ pc'[s].o = o /\ pc'[s].c = c /\ pc'[s].card = card
  /\ pc'[s].todo \in Seq(1..NB_PAGES)
  /\ IF o \in sys.seg[s].modified THEN pc'[s].todo = <<>>
     ELSE \A d \in Cells(o): Layout[o][d] \in Range(pc'[s].todo)
  /\ Others(s)
  /\ \A t \in Segs: \A p \in Objs: \A d \in Cells(p): own'[t][p][d] =
       IF t = s /\ p = o /\ o \notin sys.seg[s].modified THEN committed[o][d]
       ELSE own[t][p][d]
  /\ SameGrowth /\ UNCHANGED <<public, committed, highest_overflow_number>>

\* A thread goes on with the same object.
Moved(s, k, todo) ==
  /\ DOMAIN pc'[s] = DOMAIN pc[s] /\ Others(s)
  /\ pc'[s].k = k /\ pc'[s].todo = todo
  /\ pc'[s].o = pc[s].o /\ pc'[s].c = pc[s].c /\ pc'[s].card = pc[s].card

QuietPrivatizing(s) ==
  /\ sys' = sys
  /\ \/ /\ pc[s].k = "page" /\ pc[s].todo # <<>>
        /\ IF s \in sys.by_segment[Head(pc[s].todo)]
           THEN Moved(s, "page", Tail(pc[s].todo)) ELSE Moved(s, "lock", pc[s].todo)
     \/ pc[s].k = "lock" /\ \E k \in {"lock", "bit"}: Moved(s, k, pc[s].todo)
     \/ pc[s].k = "unlock" /\ \/ Moved(s, "unlock", pc[s].todo)
                              \/ Moved(s, "page", Tail(pc[s].todo))

BitSet(s) ==
  /\ pc[s].k = "bit" /\ Moved(s, "read", pc[s].todo)
  /\ Shape(sys') /\ SameBut(sys, sys', {"by_segment", "total_allocated"})
  /\ \A p \in 1..NB_PAGES: sys'.by_segment[p] =
       IF p = Head(pc[s].todo) THEN sys.by_segment[p] \union {s} ELSE sys.by_segment[p]

PageRead(s) ==
  /\ pc[s].k = "read" /\ Moved(s, "copy", pc[s].todo)
  /\ pc'[s].page = sys.mem[0] /\ sys' = sys

PageWritten(s) ==
  /\ pc[s].k = "copy" /\ Moved(s, "unlock", pc[s].todo)
  /\ Shape(sys') /\ SameBut(sys, sys', {"mem"})
  /\ \A t \in 0..NB_SEGMENTS: \A o \in Objs: \A c \in Cells(o): sys'.mem[t][o][c] =
       IF t = s /\ Layout[o][c] = Head(pc[s].todo)
       THEN pc[s].page[o][c] ELSE sys.mem[t][o][c]

PrivatizingStep(s) ==
  /\ QuietPrivatizing(s) \/ BitSet(s) \/ PageRead(s) \/ PageWritten(s)
  /\ SameGrowth /\ UNCHANGED <<public, committed, own, highest_overflow_number>>

AllocateStep(s, o) ==
  /\ Running(s) /\ o \in Objs /\ o \notin sys.used
  /\ Shape(sys') /\ SameBut(sys, sys', {"used", "number", "total_allocated"})
  /\ sys'.used = sys.used \union {o}
  /\ \A p \in Objs: sys'.number[p] = IF p = o THEN 0 ELSE sys.number[p]
  /\ pc'[s].k = "new" /\ pc'[s].o = o /\ Others(s)
  /\ SameGrowth /\ UNCHANGED <<public, committed, own, highest_overflow_number>>

OnTheWay(s) ==
  /\ pc[s].k \in Allocating /\ pc'[s].k \in Allocating /\ pc'[s].o = pc[s].o /\ Others(s)
  /\ mapped \subseteq mapped'
  /\ (pc[s].k = "grow" /\ pc'[s].k = "mapped") \/ (pc'[s].k # "mapped" /\ mapped' = mapped)
  /\ pc'[s].k = "mapped" =>
       uninitialized_page_start..(LastPage(pc[s].o) + GCPAGE_NUM_PAGES) \subseteq mapped'
  /\ SameHeap /\ UNCHANGED <<uninitialized_page_start, highest_overflow_number>>

Made(s) ==
  LET o == pc[s].o
  IN  /\ pc[s].k \in Allocating /\ pc'[s] = Idle /\ Others(s)
      /\ Shape(sys') /\ SameBut(sys, sys', {"mem", "seg"}) /\ OneList(s, {"young", "mine"})
      /\ sys'.seg[s].young = sys.seg[s].young \union {o}
      /\ sys'.seg[s].mine = sys.seg[s].mine \union {o}
      /\ \A t \in 0..NB_SEGMENTS: \A p \in Objs: \A d \in Cells(p): sys'.mem[t][p][d] =
           IF p = o /\ Home(sys, s, Layout[o][d]) = t THEN 0 ELSE sys.mem[t][p][d]
      /\ \A t \in Segs: \A p \in Objs: \A d \in Cells(p): own'[t][p][d] =
           IF t = s /\ p = o THEN 0 ELSE own[t][p][d]
      /\ mapped' = mapped
      /\ \/ /\ LastPage(o) < uninitialized_page_start
            /\ uninitialized_page_start' = uninitialized_page_start
         \/ /\ pc[s].k = "mapped"
            /\ uninitialized_page_start' = LastPage(o) + 1 + GCPAGE_NUM_PAGES
      /\ UNCHANGED <<public, committed, highest_overflow_number>>

PopRootStep(s, o) ==
  /\ Running(s) /\ o \in sys.seg[s].mine /\ UNCHANGED pc
  /\ Shape(sys') /\ SameBut(sys, sys', {"seg"}) /\ OneList(s, {"mine"})
  /\ sys'.seg[s].mine = sys.seg[s].mine \ {o}
  /\ SameGrowth /\ UNCHANGED <<public, committed, own, highest_overflow_number>>

UnlinkStep(o) ==
  /\ \A s \in Segs: o \notin sys.seg[s].modified /\ Running(s)
  /\ public' = public \ {o}
  /\ SameGrowth /\ UNCHANGED <<sys, pc, committed, own, highest_overflow_number>>

MinorStepOf(s, commit) ==
  /\ Running(s) /\ commit \in BOOLEAN /\ MinorLists(sys, {s}, commit, sys') /\ Others(s)
  /\ IF commit
     THEN /\ pc'[s].k = "push" /\ "todo" \in DOMAIN pc'[s]
          /\ pc'[s].todo = Alive(sys, s) \union Ovf(sys, s)
     ELSE pc'[s].k \in {"idle", "major"}
  /\ SameGrowth /\ UNCHANGED <<public, committed, own, highest_overflow_number>>

PushWaits(s) ==
  /\ pc[s].k \in Pushing /\ Others(s) /\ SameHeap
  /\ \/ /\ pc'[s].k = "pushing" /\ "todo" \in DOMAIN pc'[s] /\ pc'[s].todo = pc[s].todo
     \/ pc'[s].k = "commit" /\ pc[s].todo = {}
  /\ SameGrowth /\ UNCHANGED highest_overflow_number

ObjectPushed(s, o) ==
  /\ pc[s].k = "pushing" /\ o \in Objs /\ o \in pc[s].todo /\ Others(s)
  /\ pc'[s].k = "pushing" /\ "todo" \in DOMAIN pc'[s] /\ pc'[s].todo = pc[s].todo \ {o}
  /\ Shape(sys') /\ SameBut(sys, sys', {"mem", "cards"})
  /\ CellsCopied(sys, s, {o}, {}, sys')
  /\ SameGrowth /\ UNCHANGED <<public, committed, own, highest_overflow_number>>

CommitStep(s, x) ==
  /\ pc[s].k = "commit" /\ (\A t \in Segs: pc[t].k \in Simple)
  /\ x = sys \/ x = Major
  /\ CommitLists(x, s, sys')
  /\ highest_overflow_number' =
       highest_overflow_number + (IF sys.seg[s].number_used THEN 1 ELSE 0)
  /\ pc'[s] = Idle /\ Others(s)
  /\ public' = public \union sys.seg[s].mine
  /\ \A o \in Objs: \A c \in Cells(o): committed'[o][c] =
       IF o \in sys.seg[s].modified \union sys.seg[s].mine
       THEN own[s][o][c] ELSE committed[o][c]
  /\ \A t \in Segs \ {s}: own'[t] = own[t]
  /\ SameGrowth

MajorStepOf(s) ==
  /\ pc[s].k = "major" /\ (\A t \in Segs: pc[t].k \in Simple)
  /\ sys' = sys \/ sys' = Major
  /\ pc'[s] = Idle /\ Others(s)
  /\ SameGrowth /\ UNCHANGED <<public, committed, own, highest_overflow_number>>

CopyOf(x, y) ==
  /\ Shape(y) /\ SameBut(x, y, {"mem"})
  /\ \A o \in Objs: \A c \in Cells(o): \A t \in 0..NB_SEGMENTS:
       t = 0 \/ t \in x.by_segment[Layout[o][c]] => y.mem[t][o][c] = x.mem[t][o][c]

AbortStepOf(S, x) ==
  /\ S \in SUBSET Segs /\ (\A s \in S: pc[s].k \in Simple /\ pc'[s].k = "idle")
  /\ CopyOf(sys, x) /\ AbortLists(x, S, sys')
  /\ x = sys \/ \A s \in Segs: Running(s)
  /\ \A t \in Segs \ S: pc'[t] = pc[t] /\ own'[t] = own[t]
  /\ SameGrowth /\ UNCHANGED <<public, committed, highest_overflow_number>>

Step ==
  \/ SameHeap /\ SameGrowth /\ UNCHANGED <<pc, highest_overflow_number>>
  \/ \E s \in Segs: \E o: \E c: DirectWrite(s, o, c)
  \/ \E s \in Segs: \E o: \E c: \E card: \E x: BarrierWrite(s, o, c, card, x)
  \/ \E s \in Segs: \E o \in Objs: \E c \in Cells(o): \E card: LockTakenStep(s, o, c, card)
  \/ \E s \in Segs: PrivatizingStep(s)
  \/ \E s \in Segs: \E o: AllocateStep(s, o)
  \/ \E s \in Segs: OnTheWay(s)
  \/ \E s \in Segs: Made(s)
  \/ \E s \in Segs: \E o: PopRootStep(s, o)
  \/ \E o: UnlinkStep(o)
  \/ \E s \in Segs: \E commit: MinorStepOf(s, commit)
  \/ \E s \in Segs: PushWaits(s)
  \/ \E s \in Segs: \E o: ObjectPushed(s, o)
  \/ \E s \in Segs: \E x: CommitStep(s, x)
  \/ \E s \in Segs: MajorStepOf(s)
  \/ \E S: \E x: AbortStepOf(S, x)

\* The program flips a cell.
LEMMA WriteEffect ==
  ASSUME ContentsInv, NEW x, Shape(x), NEW s \in Segs, NEW o \in Objs, NEW c \in Cells(o),
         ProgramWrites(x, s, o, c), o \in sys.seg[s].modified \union sys.seg[s].mine,
         x.seg[s].mine = sys.seg[s].mine, SameGrowth,
         UNCHANGED <<public, committed, highest_overflow_number>>
  PROVE  WriteStep(s, o, c, x) /\ ContentsInv'
  <1> DEFINE seen == [View(x, s, o) EXCEPT ![c] = 1 - @]
             value == [own[s][o] EXCEPT ![c] = 1 - @]
  <1>1. sys' = Store(x, s, o, seen) /\ own' = [own EXCEPT ![s][o] = value]
    BY DEF ProgramWrites
  <1>2. \A d \in Cells(o): seen[d] =
          IF d = c THEN 1 - x.mem[Home(x, s, Layout[o][c])][o][c]
          ELSE x.mem[Home(x, s, Layout[o][d])][o][d]
    BY DEF View
  <1>3. DOMAIN value = Cells(o) /\ value[c] = 1 - own[s][o][c]
        /\ \A d \in Cells(o): d # c => value[d] = own[s][o][d]
    BY DEF ContentsInv, IsContents
  <1> HIDE DEF seen, value
  <1>4. /\ Shape(sys') /\ SameBut(x, sys', {"mem"})
        /\ \A t \in 0..NB_SEGMENTS: \A p \in Objs: \A d \in Cells(p):
             sys'.mem[t][p][d] = IF p = o /\ Home(x, s, Layout[o][d]) = t
                                 THEN seen[d] ELSE x.mem[t][p][d]
    BY <1>1, StoreEffect
  <1>5. \A t \in 0..NB_SEGMENTS: \A p \in Objs: \A d \in Cells(p): sys'.mem[t][p][d] =
          IF p = o /\ d = c /\ Home(x, s, Layout[o][c]) = t
          THEN 1 - x.mem[t][o][c] ELSE x.mem[t][p][d]
    BY <1>2, <1>4
  <1>6. ContentsInv'
    BY <1>1, <1>3 DEF ContentsInv, IsContents
  <1>7. \A t \in Segs: \A p \in Objs: \A d \in Cells(p): own'[t][p][d] =
          IF t = s /\ p = o /\ d = c THEN 1 - own[s][o][c] ELSE own[t][p][d]
    BY <1>1, <1>3 DEF ContentsInv, IsContents
  <1> QED BY <1>4, <1>5, <1>6, <1>7 DEF WriteStep

\* Writing without a slow path.
LEMMA DirectWrites ==
  ASSUME BaseInv, NEW s \in Segs, NEW o \in Objs, NEW c \in Cells(o), stm_write(s, o, c)
  PROVE  Step /\ ContentsInv'
  <1>1. /\ Running(s) /\ o \in sys.seg[s].young \union sys.seg[s].open
        /\ o \in public \union sys.seg[s].mine /\ ProgramWrites(sys, s, o, c)
        /\ SameGrowth /\ UNCHANGED <<pc, public, committed, highest_overflow_number>>
    BY DEF stm_write, growth, numbers, SameGrowth
  <1>2. Shape(sys) /\ OwnerInv(sys, public, o) /\ OpenInv(sys, s) /\ ObjectInv(sys, public, o)
    BY DEF BaseInv, OwnedInv, Owned, PagesInv, ListInv
  <1>3. o \in sys.seg[s].modified \union sys.seg[s].mine
    <2>1. CASE o \in sys.seg[s].young
      BY <1>1, <1>2, <2>1 DEF ObjectInv
    <2>2. CASE o \in sys.seg[s].open
      BY <1>1, <1>2, <2>2 DEF OpenInv, OwnerInv
    <2> QED BY <1>1, <2>1, <2>2
  <1>4. WriteStep(s, o, c, sys) /\ ContentsInv'
    BY <1>1, <1>2, <1>3, WriteEffect DEF BaseInv
  <1>5. DirectWrite(s, o, c)
    BY <1>1, <1>4 DEF DirectWrite
  <1> QED BY <1>4, <1>5 DEF Step

\* Barriers on overflow objects and on arrays that have cards.
LEMMA OverflowWrites ==
  ASSUME BaseInv, NEW s \in Segs, NEW o \in Objs, NEW c \in Cells(o), NEW card \in BOOLEAN,
         write_slowpath_overflow_obj(s, o, c, card)
  PROVE  Step /\ ContentsInv'
  <1> DEFINE x == Barrier(sys, s, o, c, card)
  <1>1. /\ Running(s) /\ o \in public \union sys.seg[s].mine /\ ProgramWrites(x, s, o, c)
        /\ IS_OVERFLOW_OBJ(sys, s, o) \/ (card /\ o \in sys.seg[s].cards_set)
        /\ SameBarrier(s, o, card) \/ IS_OVERFLOW_OBJ(sys, s, o)
        /\ card => o \in UsesCards
        /\ SameGrowth /\ UNCHANGED <<pc, public, committed, highest_overflow_number>>
    BY DEF write_slowpath_overflow_obj, growth, numbers, SameGrowth, NeedsBarrier
  <1>2. Shape(sys) /\ OwnerInv(sys, public, o) /\ OpenInv(sys, s)
        /\ sys.seg[s].mine \subseteq sys.seg[s].young \union Ovf(sys, s)
        /\ NumbersInv(sys, highest_overflow_number)
    <2>1. ~Committing(s)
      BY <1>1 DEF Running, Committing, Pushing
    <2> QED BY <2>1 DEF BaseInv, OwnedInv, Owned, OwnPlaces
  <1>4. o \in Ovf(sys, s) \/ (card /\ o \in sys.seg[s].cards_set /\ SameBarrier(s, o, card))
    <2>1. CASE IS_OVERFLOW_OBJ(sys, s, o)
      <3>1. o \notin public
        BY <1>2, <2>1 DEF OwnerInv, IS_OVERFLOW_OBJ, Num
      <3>2. o \notin sys.seg[s].young
        BY <1>2, <2>1 DEF OwnerInv, IS_OVERFLOW_OBJ, Num, NumbersInv
      <3> QED BY <1>1, <1>2, <3>1, <3>2
    <2>2. CASE ~IS_OVERFLOW_OBJ(sys, s, o)
      BY <1>1, <2>2
    <2> QED BY <2>1, <2>2
  <1>5. o \in sys.seg[s].modified \union Ovf(sys, s)
    BY <1>2, <1>4 DEF OpenInv
  <1>6. o \in sys.seg[s].modified \union sys.seg[s].mine
    BY <1>1, <1>2, <1>5 DEF OwnerInv
  <1>7. BarrierLists(sys, s, o, c, card, x)
    BY <1>1, <1>2, BarrierEffect
  <1> HIDE DEF x
  <1>8. Shape(x) /\ x.seg[s].mine = sys.seg[s].mine
    BY <1>7 DEF BarrierLists, MarkedCard, OpenedObject, SameListsBut, ListFields
  <1>9. WriteStep(s, o, c, x) /\ ContentsInv'
    BY <1>1, <1>6, <1>8, WriteEffect DEF BaseInv
  <1>10. BarrierWrite(s, o, c, card, x)
    BY <1>1, <1>4, <1>5, <1>7, <1>9 DEF BarrierWrite
  <1> QED BY <1>9, <1>10 DEF Step

\* The end of the barrier on an old object.
LEMMA BarrierEnds ==
  ASSUME BaseInv, NEW s \in Segs, BarrierDone(s)
  PROVE  Step /\ ContentsInv'
  <1> DEFINE o == pc[s].o
             c == pc[s].c
             card == pc[s].card
             x == Barrier(sys, s, o, c, card)
  <1>1. /\ pc[s].k = "page" /\ pc[s].todo = <<>> /\ ProgramWrites(x, s, o, c)
        /\ Goto(s, Idle)
        /\ SameGrowth /\ UNCHANGED <<public, committed, highest_overflow_number>>
    BY DEF BarrierDone, growth, numbers, SameGrowth
  <1>2. /\ o \in Objs /\ o \in sys.seg[s].modified /\ c \in Cells(o)
        /\ card \in BOOLEAN /\ (card => o \in UsesCards)
    BY <1>1 DEF BaseInv, PlacedInv, Placed, Privatizing
  <1>3. pc'[s] = Idle /\ Others(s)
    BY <1>1 DEF Goto, BaseInv, PlaceInv, Others
  <1> HIDE DEF o, c, card
  <1>4. Shape(sys)
    BY DEF BaseInv, OwnedInv, Owned
  <1>5. BarrierLists(sys, s, o, c, card, x)
    BY <1>2, <1>4, BarrierEffect
  <1> HIDE DEF x
  <1>6. Shape(x) /\ x.seg[s].mine = sys.seg[s].mine
    BY <1>5 DEF BarrierLists, MarkedCard, OpenedObject, SameListsBut, ListFields
  <1>7. WriteStep(s, o, c, x) /\ ContentsInv'
    BY <1>1, <1>2, <1>6, WriteEffect DEF BaseInv
  <1>8. BarrierWrite(s, o, c, card, x)
    <2>1. pc[s].k = "page" /\ pc[s].todo = <<>> /\ pc[s].o = o /\ pc[s].c = c
          /\ pc[s].card = card
      BY <1>1 DEF o, c, card
    <2> QED BY <1>2, <1>3, <1>5, <1>7, <2>1 DEF BarrierWrite
  <1> QED BY <1>7, <1>8 DEF Step

\* Numbers in a row are a sequence.
LEMMA ASequence ==
  ASSUME NEW n \in Nat, NEW S, NEW f, DOMAIN f = 1..n, \A i \in 1..n: f[i] \in S,
         f = [i \in 1..n |-> f[i]]
  PROVE  f \in Seq(S)
  <1>1. f \in [1..n -> S]
    OBVIOUS
  <1> QED BY <1>1, SeqDef

\* The pages of an object, first to last.
LEMMA AllPages ==
  ASSUME NEW o \in Objs
  PROVE  LET pages == [i \in 1..(LastPage(o) - Layout[o][1] + 1) |-> Layout[o][1] + i - 1]
         IN  /\ pages \in Seq(1..NB_PAGES)
             /\ \A d \in Cells(o): Layout[o][d] \in Range(pages)
  <1> DEFINE first == Layout[o][1]
             last == LastPage(o)
             pages == [i \in 1..(last - first + 1) |-> first + i - 1]
  <1>1. Layout[o] \in Seq(1..NB_PAGES) /\ Layout[o] # <<>> /\ NB_PAGES \in Nat
        /\ \A c, d \in Cells(o): c <= d => Layout[o][c] <= Layout[o][d]
    BY PagesAssumption
  <1>2. Cells(o) = 1..Len(Layout[o]) /\ Len(Layout[o]) \in Nat \ {0}
    BY <1>1, EmptySeq, LenProperties DEF Cells
  <1>3. 1 \in Cells(o) /\ Len(Layout[o]) \in Cells(o)
    BY <1>2
  <1>4. first \in 1..NB_PAGES /\ last \in 1..NB_PAGES /\ first <= last
    BY <1>1, <1>2, <1>3, CellPages DEF LastPage
  <1> HIDE DEF first, last
  <1>5. \A i \in 1..(last - first + 1): pages[i] \in 1..NB_PAGES
    BY <1>1, <1>4
  <1>6. last - first + 1 \in Nat
    BY <1>1, <1>4
  <1>7. pages \in Seq(1..NB_PAGES)
    <2>1. DOMAIN pages = 1..(last - first + 1)
          /\ pages = [i \in 1..(last - first + 1) |-> pages[i]]
      OBVIOUS
    <2> HIDE DEF pages
    <2> QED BY <1>5, <1>6, <2>1, ASequence
  <1>8. ASSUME NEW d \in Cells(o)
        PROVE  Layout[o][d] \in Range(pages)
    <2>1. Layout[o][d] \in 1..NB_PAGES /\ first <= Layout[o][d] /\ Layout[o][d] <= last
      BY <1>1, <1>2, <1>3, CellPages DEF first, last, LastPage
    <2> DEFINE i == Layout[o][d] - first + 1
    <2>2. i \in 1..(last - first + 1) /\ first + i - 1 = Layout[o][d]
      BY SMTT(30), <1>1, <1>4, <2>1
    <2> HIDE DEF i
    <2>3. i \in DOMAIN pages /\ pages[i] = Layout[o][d]
      BY <2>2
    <2> HIDE DEF pages
    <2> QED BY <2>3 DEF Range
  <1> QED BY <1>7, <1>8 DEF first, last

\* The write lock of an old object.
LEMMA LockTakes ==
  ASSUME BaseInv, NEW s \in Segs, NEW o \in Objs, NEW c \in Cells(o), NEW card \in BOOLEAN,
         write_slowpath_common(s, o, c, card)
  PROVE  Step /\ ContentsInv'
  <1> DEFINE pages == [i \in 1..(LastPage(o) - Layout[o][1] + 1) |-> Layout[o][1] + i - 1]
             todo == IF sys.write_locks[o] = s THEN <<>> ELSE pages
             p == [k |-> "page", o |-> o, c |-> c, card |-> card, total |-> 0,
                   page |-> NULL, todo |-> todo]
             g == [sys.seg[s] EXCEPT !.modified = @ \union {o}]
  <1>1. /\ Running(s) /\ o \in public \union sys.seg[s].mine
        /\ o \notin sys.seg[s].young \union sys.seg[s].open
        /\ ~IS_OVERFLOW_OBJ(sys, s, o)
        /\ card => o \in UsesCards \ sys.seg[s].cards_set
        /\ SameBarrier(s, o, card)
        /\ sys.write_locks[o] \in {0, s}
        /\ Goto(s, p)
        /\ SameGrowth /\ UNCHANGED <<public, committed, highest_overflow_number>>
    BY DEF write_slowpath_common, NeedsBarrier, growth, numbers, SameGrowth
  <1>2. /\ sys' = [sys EXCEPT !.write_locks[o] = s, !.seg[s].modified = @ \union {o}]
        /\ own' = IF sys.write_locks[o] = s THEN own
                  ELSE [own EXCEPT ![s][o] = committed[o]]
    BY DEF write_slowpath_common
  <1>3. Shape(sys) /\ OwnerInv(sys, public, o) /\ ObjectInv(sys, public, o)
        /\ sys.seg[s].mine \subseteq sys.seg[s].young \union Ovf(sys, s)
    <2>1. ~Committing(s)
      BY <1>1 DEF Running, Committing, Pushing
    <2> QED BY <2>1 DEF BaseInv, OwnedInv, Owned, OwnPlaces, PagesInv, ListInv
  <1>4. o \in public
    BY <1>1, <1>3 DEF OwnerInv, IS_OVERFLOW_OBJ, Num
  <1>5. /\ sys.write_locks[o] = s <=> o \in sys.seg[s].modified
        /\ \A t \in Segs \ {s}: o \notin sys.seg[t].modified
    BY <1>1, <1>3 DEF ObjectInv, Segs
  <1>6. p.k = "page" /\ p.o = o /\ p.c = c /\ p.card = card /\ p.todo = todo
        /\ "k" \in DOMAIN p /\ {"o", "c", "card", "todo", "total", "page"} \subseteq DOMAIN p
    OBVIOUS
  <1> HIDE DEF p
  <1>7. pc'[s] = p /\ Others(s)
    <2>1. p.k \in Simple \union Privatizing \union Allocating \union Pushing
          /\ p.k \notin Allocating
      BY <1>6 DEF Privatizing, Allocating
    <2> QED BY <1>1, <1>6, <2>1, Gone DEF BaseInv, Others
  <1>8. pages \in Seq(1..NB_PAGES) /\ \A d \in Cells(o): Layout[o][d] \in Range(pages)
    BY AllPages
  <1> HIDE DEF pages
  <1>9. todo \in Seq(1..NB_PAGES)
        /\ IF o \in sys.seg[s].modified THEN todo = <<>>
           ELSE \A d \in Cells(o): Layout[o][d] \in Range(todo)
    BY <1>5, <1>8, EmptySeq
  <1> HIDE DEF todo
  <1>10. g.modified = sys.seg[s].modified \union {o} /\ DOMAIN g = DOMAIN sys.seg[s]
         /\ \A f \in ListFields \ {"modified"}: g[f] = sys.seg[s][f]
    <2>1. ListFields \subseteq DOMAIN sys.seg[s]
      BY <1>3 DEF Shape, IsHeap
    <2> QED BY <2>1 DEF ListFields
  <1>11. SameBut(sys, sys', {"write_locks", "seg"}) /\ DOMAIN sys'.write_locks = Objs
         /\ sys'.seg = [sys.seg EXCEPT ![s] = g]
    BY <1>2, <1>3 DEF Shape, IsHeap, SameBut, Fields
  <1> HIDE DEF g
  <1>12. sys'.seg[s] = g /\ DOMAIN sys'.seg = Segs /\ \A t \in Segs \ {s}: sys'.seg[t] = sys.seg[t]
    BY <1>3, <1>11 DEF Shape, IsHeap
  <1>13. OneList(s, {"modified"}) /\ sys'.seg[s].modified = sys.seg[s].modified \union {o}
    BY <1>10, <1>12 DEF OneList, SameListsBut
  <1>14. Shape(sys')
    <2>1. \A t \in Segs: sys'.seg[t].number_used \in BOOLEAN
                         /\ ListFields \subseteq DOMAIN sys'.seg[t]
      BY <1>3, <1>10, <1>12 DEF Shape, IsHeap, ListFields
    <2> QED BY <1>3, <1>11, <1>12, <2>1 DEF Shape, IsHeap, SameBut, Fields
  <1>15. ContentsInv'
    BY <1>1, <1>2 DEF BaseInv, ContentsInv, IsContents
  <1>16. \A t \in Segs: \A q \in Objs: \A d \in Cells(q): own'[t][q][d] =
           IF t = s /\ q = o /\ o \notin sys.seg[s].modified THEN committed[o][d]
           ELSE own[t][q][d]
    BY <1>2, <1>5 DEF BaseInv, ContentsInv, IsContents
  <1>17. LockTakenStep(s, o, c, card)
    BY <1>1, <1>4, <1>5, <1>6, <1>7, <1>9, <1>11, <1>13, <1>14, <1>16 DEF LockTakenStep
  <1> QED BY <1>15, <1>17 DEF Step

-----------------------------------------------------------------------------
\* Privatizing: without a change of the pages.
LEMMA PrivatizingQuietly ==
  ASSUME BaseInv, NEW s \in Segs,
         page_privatize(s) \/ AcquirePrivatizationLock(s) \/ ReleasePrivatizationLock(s)
  PROVE  Step /\ ContentsInv'
  <1>1. DOMAIN pc = Segs
    BY DEF BaseInv, PlaceInv
  <1>2. ASSUME pc[s].k \in Privatizing
        PROVE  {"k", "o", "c", "card", "todo"} \subseteq DOMAIN pc[s]
    BY <1>2 DEF BaseInv, PlaceInv, PlacedInv, Placed
  <1>3. QuietPrivatizing(s) /\ SameGrowth
        /\ UNCHANGED <<public, committed, own, highest_overflow_number>>
    <2>1. CASE page_privatize(s)
      <3>1. pc[s].k = "page" /\ pc[s].todo # <<>> /\ pc[s].k \in Privatizing
        BY <2>1 DEF page_privatize, Privatizing
      <3>2. sys' = sys /\ SameGrowth /\ UNCHANGED <<public, committed, own, highest_overflow_number>>
        BY <2>1 DEF page_privatize, heap, growth, numbers, SameGrowth
      <3>3. CASE s \in sys.by_segment[Head(pc[s].todo)]
        <4>1. pc' = [pc EXCEPT ![s] = [pc[s] EXCEPT !.todo = Tail(@)]]
          BY <2>1, <3>3 DEF page_privatize, is_private_page, Goto
        <4>2. Moved(s, "page", Tail(pc[s].todo))
          BY <1>1, <1>2, <3>1, <4>1 DEF Moved, Others
        <4> QED BY <3>1, <3>2, <3>3, <4>2 DEF QuietPrivatizing
      <3>4. CASE s \notin sys.by_segment[Head(pc[s].todo)]
        <4>1. pc' = [pc EXCEPT ![s] = [pc[s] EXCEPT !.k = "lock"]]
          BY <2>1, <3>4 DEF page_privatize, is_private_page, Goto
        <4>2. Moved(s, "lock", pc[s].todo)
          BY <1>1, <1>2, <3>1, <4>1 DEF Moved, Others
        <4> QED BY <3>1, <3>2, <3>4, <4>2 DEF QuietPrivatizing
      <3> QED BY <3>3, <3>4
    <2>2. CASE AcquirePrivatizationLock(s)
      <3>1. pc[s].k = "lock" /\ pc[s].k \in Privatizing
        BY <2>2 DEF AcquirePrivatizationLock, Privatizing
      <3>2. sys' = sys /\ SameGrowth /\ UNCHANGED <<public, committed, own, highest_overflow_number>>
        BY <2>2 DEF AcquirePrivatizationLock, heap, growth, numbers, SameGrowth
      <3>3. \/ pc' = [pc EXCEPT ![s] = [pc[s] EXCEPT !.k = "bit"]]
            \/ pc' = [pc EXCEPT ![s] = pc[s]]
        BY <2>2 DEF AcquirePrivatizationLock, Goto
      <3>4. Moved(s, "bit", pc[s].todo) \/ Moved(s, "lock", pc[s].todo)
        BY <1>1, <1>2, <3>1, <3>3 DEF Moved, Others
      <3> QED BY <3>1, <3>2, <3>4 DEF QuietPrivatizing
    <2>3. CASE ReleasePrivatizationLock(s)
      <3>1. pc[s].k = "unlock" /\ pc[s].k \in Privatizing
        BY <2>3 DEF ReleasePrivatizationLock, Privatizing
      <3>2. sys' = sys /\ SameGrowth /\ UNCHANGED <<public, committed, own, highest_overflow_number>>
        BY <2>3 DEF ReleasePrivatizationLock, heap, growth, numbers, SameGrowth
      <3>3. \/ pc' = [pc EXCEPT ![s] = [pc[s] EXCEPT !.k = "page", !.todo = Tail(@)]]
            \/ pc' = [pc EXCEPT ![s] = pc[s]]
        BY <2>3 DEF ReleasePrivatizationLock, Goto
      <3>4. Moved(s, "page", Tail(pc[s].todo)) \/ Moved(s, "unlock", pc[s].todo)
        BY <1>1, <1>2, <3>1, <3>3 DEF Moved, Others
      <3> QED BY <3>1, <3>2, <3>4 DEF QuietPrivatizing
    <2> QED BY <2>1, <2>2, <2>3
  <1>4. PrivatizingStep(s)
    BY <1>3 DEF PrivatizingStep
  <1>5. ContentsInv'
    BY <1>3 DEF BaseInv, ContentsInv, IsContents
  <1> QED BY <1>4, <1>5 DEF Step

\* Privatizing: the page gets its private copy.
LEMMA PrivatizingPages ==
  ASSUME BaseInv, NEW s \in Segs,
         SetPrivateBit(s) \/ ReadSharedPage(s) \/ WritePrivatePage(s)
  PROVE  Step /\ ContentsInv'
  <1>1. DOMAIN pc = Segs /\ Shape(sys)
    BY DEF BaseInv, PlaceInv, OwnedInv, Owned
  <1>2. ASSUME pc[s].k \in Privatizing
        PROVE  {"k", "o", "c", "card", "todo", "total", "page"} \subseteq DOMAIN pc[s]
    BY <1>2 DEF BaseInv, PlaceInv, PlacedInv, Placed
  <1>3. /\ BitSet(s) \/ PageRead(s) \/ PageWritten(s)
        /\ SameGrowth /\ UNCHANGED <<public, committed, own, highest_overflow_number>>
    <2>1. CASE SetPrivateBit(s)
      <3>1. pc[s].k = "bit" /\ pc[s].k \in Privatizing
        BY <2>1 DEF SetPrivateBit, Privatizing
      <3>2. SameGrowth /\ UNCHANGED <<public, committed, own, highest_overflow_number>>
        BY <2>1 DEF SetPrivateBit, growth, numbers, SameGrowth
      <3>3. pc' = [pc EXCEPT ![s] = [pc[s] EXCEPT !.k = "read", !.total = sys'.total_allocated]]
        BY <2>1 DEF SetPrivateBit, Goto
      <3>4. Moved(s, "read", pc[s].todo)
        BY <1>1, <1>2, <3>1, <3>3 DEF Moved, Others
      <3>5. sys' = [sys EXCEPT !.by_segment[Head(pc[s].todo)] = @ \union {s},
                               !.total_allocated = @ + PAGE_SIZE]
        BY <2>1 DEF SetPrivateBit
      <3>6. /\ SameBut(sys, sys', {"by_segment", "total_allocated"})
            /\ sys'.by_segment = [sys.by_segment EXCEPT ![Head(pc[s].todo)] = @ \union {s}]
        BY <1>1, <3>5 DEF Shape, IsHeap, SameBut, Fields
      <3>7. /\ DOMAIN sys'.by_segment = 1..NB_PAGES
            /\ \A p \in 1..NB_PAGES: sys'.by_segment[p] =
                 IF p = Head(pc[s].todo) THEN sys.by_segment[p] \union {s}
                 ELSE sys.by_segment[p]
        BY <1>1, <3>6 DEF Shape
      <3>8. Shape(sys')
        BY <1>1, <3>6, <3>7 DEF Shape, IsHeap, SameBut, Fields
      <3> QED BY <3>1, <3>2, <3>4, <3>6, <3>7, <3>8 DEF BitSet
    <2>2. CASE ReadSharedPage(s)
      <3>1. pc[s].k = "read" /\ pc[s].k \in Privatizing
        BY <2>2 DEF ReadSharedPage, Privatizing
      <3>2. sys' = sys /\ SameGrowth /\ UNCHANGED <<public, committed, own, highest_overflow_number>>
        BY <2>2 DEF ReadSharedPage, heap, growth, numbers, SameGrowth
      <3>3. pc' = [pc EXCEPT ![s] = [pc[s] EXCEPT !.k = "copy", !.page = sys.mem[0]]]
        BY <2>2 DEF ReadSharedPage, Goto
      <3>4. Moved(s, "copy", pc[s].todo) /\ pc'[s].page = sys.mem[0]
        BY <1>1, <1>2, <3>1, <3>3 DEF Moved, Others
      <3> QED BY <3>1, <3>2, <3>4 DEF PageRead
    <2>3. CASE WritePrivatePage(s)
      <3>1. pc[s].k = "copy" /\ pc[s].k \in Privatizing
        BY <2>3 DEF WritePrivatePage, Privatizing
      <3>2. SameGrowth /\ UNCHANGED <<public, committed, own, highest_overflow_number>>
        BY <2>3 DEF WritePrivatePage, growth, numbers, SameGrowth
      <3>3. pc' = [pc EXCEPT ![s] = [pc[s] EXCEPT !.k = "unlock", !.total = 0, !.page = NULL]]
        BY <2>3 DEF WritePrivatePage, Goto
      <3>4. Moved(s, "unlock", pc[s].todo)
        BY <1>1, <1>2, <3>1, <3>3 DEF Moved, Others
      <3> DEFINE copy == [o \in Objs |-> [c \in Cells(o) |->
                            IF Layout[o][c] = Head(pc[s].todo) THEN pc[s].page[o][c]
                            ELSE sys.mem[s][o][c]]]
      <3>5. s \in 0..NB_SEGMENTS
        BY PagesAssumption DEF Segs
      <3>6. sys' = [sys EXCEPT !.mem[s] = copy]
        BY <2>3 DEF WritePrivatePage
      <3>7. DOMAIN copy = Objs /\ \A o \in Objs: \A c \in Cells(o): copy[o][c] =
              IF Layout[o][c] = Head(pc[s].todo) THEN pc[s].page[o][c] ELSE sys.mem[s][o][c]
        OBVIOUS
      <3> HIDE DEF copy
      <3>8. SameBut(sys, sys', {"mem"}) /\ sys'.mem = [sys.mem EXCEPT ![s] = copy]
        BY <1>1, <3>6 DEF Shape, IsHeap, SameBut, Fields
      <3>9. DOMAIN sys'.mem = 0..NB_SEGMENTS
            /\ \A t \in 0..NB_SEGMENTS: sys'.mem[t] = IF t = s THEN copy ELSE sys.mem[t]
        BY <1>1, <3>8 DEF Shape
      <3>10. Shape(sys')
        BY <1>1, <3>7, <3>8, <3>9 DEF Shape, IsHeap, SameBut, Fields
      <3>11. \A t \in 0..NB_SEGMENTS: \A o \in Objs: \A c \in Cells(o): sys'.mem[t][o][c] =
               IF t = s /\ Layout[o][c] = Head(pc[s].todo)
               THEN pc[s].page[o][c] ELSE sys.mem[t][o][c]
        BY <3>7, <3>9
      <3> QED BY <3>1, <3>2, <3>4, <3>8, <3>10, <3>11 DEF PageWritten
    <2> QED BY <2>1, <2>2, <2>3
  <1>4. PrivatizingStep(s)
    BY <1>3 DEF PrivatizingStep
  <1>5. ContentsInv'
    BY <1>3 DEF BaseInv, ContentsInv, IsContents
  <1> QED BY <1>4, <1>5 DEF Step

-----------------------------------------------------------------------------
\* An address and memory for a new object.
LEMMA Allocates ==
  ASSUME BaseInv, NEW s \in Segs, NEW o \in Objs, allocate_outside_nursery_large(s, o)
  PROVE  Step /\ ContentsInv'
  <1> DEFINE p == [k |-> "new", o |-> o, total |-> sys'.total_allocated]
  <1>1. /\ Running(s) /\ o \notin sys.used /\ Goto(s, p)
        /\ SameGrowth /\ UNCHANGED <<public, committed, own, highest_overflow_number>>
    BY DEF allocate_outside_nursery_large, growth, numbers, SameGrowth
  <1>2. sys' = [sys EXCEPT !.used = @ \union {o}, !.number[o] = 0,
                           !.total_allocated = @ + SizeOf({o})]
    BY DEF allocate_outside_nursery_large
  <1>3. Shape(sys)
    BY DEF BaseInv, OwnedInv, Owned
  <1>4. /\ SameBut(sys, sys', {"used", "number", "total_allocated"})
        /\ sys'.used = sys.used \union {o} /\ sys'.number = [sys.number EXCEPT ![o] = 0]
    BY <1>2, <1>3 DEF Shape, IsHeap, SameBut, Fields
  <1>5. DOMAIN sys'.number = Objs
        /\ \A q \in Objs: sys'.number[q] = IF q = o THEN 0 ELSE sys.number[q]
    BY <1>3, <1>4 DEF Shape
  <1>6. Shape(sys')
    BY <1>3, <1>4, <1>5 DEF Shape, IsHeap, SameBut, Fields
  <1>7. p.k = "new" /\ p.o = o /\ "k" \in DOMAIN p /\ "o" \in DOMAIN p
    OBVIOUS
  <1> HIDE DEF p
  <1>8. pc'[s] = p /\ Others(s)
    BY <1>1, <1>7, Gone DEF BaseInv, Others, Allocating
  <1>9. AllocateStep(s, o)
    BY <1>1, <1>4, <1>5, <1>6, <1>7, <1>8 DEF AllocateStep
  <1>10. ContentsInv'
    BY <1>1 DEF BaseInv, ContentsInv, IsContents
  <1> QED BY <1>9, <1>10 DEF Step

\* Clearing a new object.
LEMMA NewObjectMade ==
  ASSUME BaseInv, NEW s \in Segs, pc[s].k \in Allocating, NewObject(s, pc[s].o),
         mapped' = mapped,
         \/ /\ LastPage(pc[s].o) < uninitialized_page_start
            /\ uninitialized_page_start' = uninitialized_page_start
         \/ /\ pc[s].k = "mapped"
            /\ uninitialized_page_start' = LastPage(pc[s].o) + 1 + GCPAGE_NUM_PAGES,
         UNCHANGED <<public, committed, highest_overflow_number>>
  PROVE  Step /\ ContentsInv'
  <1> DEFINE o == pc[s].o
             y == [sys EXCEPT !.seg[s].young = @ \union {o}, !.seg[s].mine  = @ \union {o}]
             g == [sys.seg[s] EXCEPT !.young = @ \union {o}, !.mine = @ \union {o}]
  <1>1. o \in Objs /\ Shape(sys)
    BY DEF BaseInv, OwnedInv, Owned, OwnPlaces
  <1>2. /\ sys' = Store(y, s, o, Zeroes(o)) /\ own' = [own EXCEPT ![s][o] = Zeroes(o)]
        /\ Goto(s, Idle)
    BY DEF NewObject
  <1>3. /\ g.young = sys.seg[s].young \union {o} /\ g.mine = sys.seg[s].mine \union {o}
        /\ DOMAIN g = DOMAIN sys.seg[s]
        /\ \A f \in ListFields \ {"young", "mine"}: g[f] = sys.seg[s][f]
    <2>1. ListFields \subseteq DOMAIN sys.seg[s]
      BY <1>1 DEF Shape, IsHeap
    <2> QED BY <2>1 DEF ListFields
  <1>4. SameBut(sys, y, {"seg"}) /\ y.seg = [sys.seg EXCEPT ![s] = g]
    BY <1>1 DEF Shape, IsHeap, SameBut, Fields
  <1>5. g.number_used \in BOOLEAN
    BY <1>1, <1>3 DEF Shape, ListFields
  <1> HIDE DEF g, y
  <1>6. Shape(y) /\ y.seg[s] = g /\ \A t \in Segs \ {s}: SameListsBut(sys, y, t, {})
    BY <1>1, <1>3, <1>4, <1>5, OneSegment
  <1>7. /\ Shape(sys') /\ SameBut(y, sys', {"mem"})
        /\ \A t \in 0..NB_SEGMENTS: \A p \in Objs: \A d \in Cells(p): sys'.mem[t][p][d] =
             IF p = o /\ Home(y, s, Layout[o][d]) = t THEN Zeroes(o)[d] ELSE y.mem[t][p][d]
    BY <1>2, <1>6, StoreEffect
  <1>8. y.mem = sys.mem /\ y.by_segment = sys.by_segment /\ sys'.seg = y.seg
    BY <1>4, <1>7 DEF SameBut, Fields
  <1>9. \A t \in 0..NB_SEGMENTS: \A p \in Objs: \A d \in Cells(p): sys'.mem[t][p][d] =
          IF p = o /\ Home(sys, s, Layout[o][d]) = t THEN 0 ELSE sys.mem[t][p][d]
    BY <1>7, <1>8 DEF Zeroes, Home, is_private_page
  <1>10. SameBut(sys, sys', {"mem", "seg"})
    BY <1>4, <1>7 DEF SameBut
  <1>11. OneList(s, {"young", "mine"})
    BY <1>3, <1>6, <1>8 DEF OneList, SameListsBut
  <1>12. pc'[s] = Idle /\ Others(s)
    BY <1>2 DEF Goto, BaseInv, PlaceInv, Others
  <1>13. ContentsInv'
    BY <1>1, <1>2 DEF BaseInv, ContentsInv, IsContents, Zeroes
  <1>14. \A t \in Segs: \A p \in Objs: \A d \in Cells(p): own'[t][p][d] =
           IF t = s /\ p = o THEN 0 ELSE own[t][p][d]
    BY <1>1, <1>2 DEF BaseInv, ContentsInv, IsContents, Zeroes
  <1>15. sys'.seg[s].young = sys.seg[s].young \union {o}
         /\ sys'.seg[s].mine = sys.seg[s].mine \union {o}
    BY <1>3, <1>6, <1>8
  <1>16. Made(s)
    BY <1>7, <1>9, <1>10, <1>11, <1>12, <1>14, <1>15 DEF Made
  <1> QED BY <1>13, <1>16 DEF Step

\* The ways to a new object.
LEMMA AllocatingSteps ==
  ASSUME BaseInv, NEW s \in Segs,
         PagesExist(s) \/ MorePagesNeeded(s) \/ AcquireGrowthLock(s)
           \/ setup_N_pages(s) \/ PagesMapped(s)
  PROVE  Step /\ ContentsInv'
  <1>1. DOMAIN pc = Segs /\ uninitialized_page_start \in Nat
    BY DEF BaseInv, PlaceInv
  <1>2. ASSUME pc[s].k \in Allocating
        PROVE  {"k", "o"} \subseteq DOMAIN pc[s] /\ pc[s].o \in Objs
               /\ LastPage(pc[s].o) \in Nat /\ GCPAGE_NUM_PAGES \in Nat
    <2>1. {"k", "o"} \subseteq DOMAIN pc[s] /\ pc[s].o \in Objs
      BY <1>2 DEF BaseInv, PlaceInv, OwnedInv, OwnPlaces
    <2>2. Len(Layout[pc[s].o]) \in Cells(pc[s].o)
      <3>1. Layout[pc[s].o] \in Seq(1..NB_PAGES) /\ Layout[pc[s].o] # <<>>
        BY <2>1, PagesAssumption
      <3> QED BY <3>1, EmptySeq, LenProperties DEF Cells
    <2> QED BY <2>1, <2>2, CellPages, PagesAssumption DEF LastPage
  <1>3. ASSUME NEW k \in {"wait", "grow", "mapped"}, pc[s].k \in Allocating,
               Goto(s, [pc[s] EXCEPT !.k = k])
        PROVE  pc'[s].k = k /\ pc'[s].o = pc[s].o /\ Others(s)
    BY <1>1, <1>2, <1>3 DEF Goto, Others
  <1>4. ASSUME SameHeap
        PROVE  ContentsInv'
    BY <1>4 DEF BaseInv, ContentsInv, IsContents, SameHeap
  <1>5. CASE PagesExist(s)
    BY <1>5, NewObjectMade DEF PagesExist, growth, numbers, Allocating
  <1>6. CASE MorePagesNeeded(s)
    <2>1. pc[s].k = "new" /\ pc[s].k \in Allocating /\ SameHeap /\ SameGrowth
          /\ UNCHANGED highest_overflow_number /\ Goto(s, [pc[s] EXCEPT !.k = "wait"])
      BY <1>6 DEF MorePagesNeeded, Allocating, heap, growth, numbers, SameHeap, SameGrowth
    <2>2. OnTheWay(s)
      BY <1>3, <2>1 DEF OnTheWay, Allocating, SameGrowth
    <2> QED BY <1>4, <2>1, <2>2 DEF Step
  <1>7. CASE AcquireGrowthLock(s)
    <2>1. pc[s].k = "wait" /\ pc[s].k \in Allocating /\ SameHeap /\ SameGrowth
          /\ UNCHANGED highest_overflow_number /\ Goto(s, [pc[s] EXCEPT !.k = "grow"])
      BY <1>7 DEF AcquireGrowthLock, Allocating, heap, growth, numbers, SameHeap, SameGrowth
    <2>2. OnTheWay(s)
      BY <1>3, <2>1 DEF OnTheWay, Allocating, SameGrowth
    <2> QED BY <1>4, <2>1, <2>2 DEF Step
  <1>8. CASE setup_N_pages(s)
    <2>1. pc[s].k = "grow" /\ pc[s].k \in Allocating
          /\ UNCHANGED <<uninitialized_page_start, highest_overflow_number>>
      BY <1>8 DEF setup_N_pages, Allocating, numbers
    <2>2. CASE LastPage(pc[s].o) >= uninitialized_page_start
      <3>1. /\ mapped' = mapped \union
                 uninitialized_page_start..(uninitialized_page_start + Extent(s) - 1)
            /\ SameHeap /\ Goto(s, [pc[s] EXCEPT !.k = "mapped"])
        BY <1>8, <2>2 DEF setup_N_pages, heap, SameHeap
      <3>2. uninitialized_page_start + Extent(s) - 1 = LastPage(pc[s].o) + GCPAGE_NUM_PAGES
        BY <1>1, <1>2, <2>1 DEF Extent
      <3>3. OnTheWay(s)
        BY <1>3, <2>1, <3>1, <3>2 DEF OnTheWay, Allocating
      <3> QED BY <1>4, <3>1, <3>3 DEF Step
    <2>3. CASE ~(LastPage(pc[s].o) >= uninitialized_page_start)
      <3>1. NewObject(s, pc[s].o) /\ mapped' = mapped /\ UNCHANGED <<public, committed>>
        BY <1>8, <2>3 DEF setup_N_pages
      <3>2. LastPage(pc[s].o) < uninitialized_page_start
        BY <1>1, <1>2, <2>1, <2>3
      <3> QED BY <2>1, <3>1, <3>2, NewObjectMade
    <2> QED BY <2>2, <2>3
  <1>9. CASE PagesMapped(s)
    <2>1. /\ pc[s].k = "mapped" /\ pc[s].k \in Allocating /\ NewObject(s, pc[s].o)
          /\ mapped' = mapped /\ UNCHANGED <<public, committed, highest_overflow_number>>
          /\ uninitialized_page_start' = uninitialized_page_start + Extent(s)
      BY <1>9 DEF PagesMapped, Allocating, numbers
    <2>2. uninitialized_page_start + Extent(s) = LastPage(pc[s].o) + 1 + GCPAGE_NUM_PAGES
      BY <1>1, <1>2, <2>1 DEF Extent
    <2> QED BY <2>1, <2>2, NewObjectMade
  <1> QED BY <1>5, <1>6, <1>7, <1>8, <1>9

-----------------------------------------------------------------------------
\* The program forgets an object.
LEMMA ObjectsForgotten ==
  ASSUME BaseInv, NEW o \in Objs, Unlink(o) \/ \E s \in Segs: PopRoot(s, o)
  PROVE  Step /\ ContentsInv'
  <1>1. CASE Unlink(o)
    <2>1. UnlinkStep(o)
      BY <1>1 DEF Unlink, UnlinkStep, growth, numbers, SameGrowth
    <2>2. ContentsInv'
      BY <2>1 DEF BaseInv, ContentsInv, IsContents, UnlinkStep
    <2> QED BY <2>1, <2>2 DEF Step
  <1>2. ASSUME NEW s \in Segs, PopRoot(s, o)
        PROVE  Step /\ ContentsInv'
    <2> DEFINE g == [sys.seg[s] EXCEPT !.mine = @ \ {o}]
    <2>1. /\ Running(s) /\ o \in sys.seg[s].mine /\ UNCHANGED pc
          /\ SameGrowth /\ UNCHANGED <<public, committed, own, highest_overflow_number>>
      BY <1>2 DEF PopRoot, growth, numbers, SameGrowth
    <2>2. Shape(sys) /\ sys' = [sys EXCEPT !.seg[s].mine = @ \ {o}]
      BY <1>2 DEF PopRoot, BaseInv, OwnedInv, Owned
    <2>3. g.mine = sys.seg[s].mine \ {o} /\ DOMAIN g = DOMAIN sys.seg[s]
          /\ \A f \in ListFields \ {"mine"}: g[f] = sys.seg[s][f]
      <3>1. ListFields \subseteq DOMAIN sys.seg[s]
        BY <2>2 DEF Shape, IsHeap
      <3> QED BY <3>1 DEF ListFields
    <2>4. SameBut(sys, sys', {"seg"}) /\ sys'.seg = [sys.seg EXCEPT ![s] = g]
      BY <2>2 DEF Shape, IsHeap, SameBut, Fields
    <2>5. g.number_used \in BOOLEAN
      BY <2>2, <2>3 DEF Shape, ListFields
    <2> HIDE DEF g
    <2>6. Shape(sys)
      BY <2>2
    <2>7. Shape(sys') /\ sys'.seg[s] = g
          /\ \A t \in Segs \ {s}: SameListsBut(sys, sys', t, {})
      BY <2>3, <2>4, <2>5, <2>6, OneSegment
    <2>8. PopRootStep(s, o)
      BY <2>1, <2>3, <2>4, <2>7 DEF PopRootStep, OneList, SameListsBut
    <2>9. ContentsInv'
      BY <2>1 DEF BaseInv, ContentsInv, IsContents
    <2> QED BY <2>8, <2>9 DEF Step
  <1> QED BY <1>1, <1>2

\* Minor collections, of a commit and others.
LEMMA MinorSteps ==
  ASSUME BaseInv, NEW s \in Segs, MinorAtCommit(s) \/ \E level \in 0..1: stm_collect(s, level)
  PROVE  Step /\ ContentsInv'
  <1>1. Shape(sys) /\ {s} \in SUBSET Segs /\ TRUE \in BOOLEAN /\ FALSE \in BOOLEAN
    BY DEF BaseInv, OwnedInv, Owned
  <1>2. CASE MinorAtCommit(s)
    <2> DEFINE todo == (sys.seg[s].young \intersect sys.seg[s].mine) \union
                       (IF sys.seg[s].overflow = NULL THEN {} ELSE sys.seg[s].overflow)
               p == [k |-> "push", todo |-> todo]
    <2>1. /\ Running(s) /\ Goto(s, p) /\ sys' = _do_minor_collection(sys, {s}, TRUE)
          /\ SameGrowth /\ UNCHANGED <<public, committed, own, highest_overflow_number>>
      BY <1>2 DEF MinorAtCommit, growth, numbers, SameGrowth
    <2>2. p.k = "push" /\ p.todo = Alive(sys, s) \union Ovf(sys, s) /\ {"k", "todo"} = DOMAIN p
      BY DEF Alive, Ovf
    <2> HIDE DEF p
    <2>3. pc'[s] = p /\ Others(s)
      BY <2>1, <2>2, Gone DEF BaseInv, Others, Pushing, Allocating
    <2>4. MinorLists(sys, {s}, TRUE, sys')
      BY <1>1, <2>1, MinorListsEffect
    <2>5. MinorStepOf(s, TRUE)
      BY <1>1, <2>1, <2>2, <2>3, <2>4 DEF MinorStepOf
    <2>6. ContentsInv'
      BY <2>1 DEF BaseInv, ContentsInv, IsContents
    <2> QED BY <2>5, <2>6 DEF Step
  <1>3. ASSUME NEW level \in 0..1, stm_collect(s, level)
        PROVE  Step /\ ContentsInv'
    <2>1. /\ Running(s) /\ sys' = _do_minor_collection(sys, {s}, FALSE)
          /\ Goto(s, [k |-> "major"]) \/ Goto(s, Idle)
          /\ SameGrowth /\ UNCHANGED <<public, committed, own, highest_overflow_number>>
      BY <1>3 DEF stm_collect, growth, numbers, SameGrowth
    <2>2. pc'[s].k \in {"idle", "major"} /\ Others(s)
      BY <2>1 DEF Goto, BaseInv, PlaceInv, Others, Idle
    <2>3. MinorLists(sys, {s}, FALSE, sys')
      BY <1>1, <2>1, MinorListsEffect
    <2>4. MinorStepOf(s, FALSE)
      BY <1>1, <2>1, <2>2, <2>3 DEF MinorStepOf
    <2>5. ContentsInv'
      BY <2>1 DEF BaseInv, ContentsInv, IsContents
    <2> QED BY <2>4, <2>5 DEF Step
  <1> QED BY <1>2, <1>3

\* Pushing the survivors to the other segments.
LEMMA PushingSteps ==
  ASSUME BaseInv, NEW s \in Segs,
         acquire_privatization_lock(s) \/ push_overflow_objects_from_privatized_pages(s)
           \/ release_privatization_lock(s)
  PROVE  Step /\ ContentsInv'
  <1>1. DOMAIN pc = Segs /\ Shape(sys)
    BY DEF BaseInv, PlaceInv, OwnedInv, Owned
  <1>2. ASSUME pc[s].k \in Pushing
        PROVE  {"k", "todo"} \subseteq DOMAIN pc[s] /\ pc[s].todo \subseteq Objs
    <2>1. Placed(s) /\ OpenInv(sys, s)
      BY DEF BaseInv, PlacedInv, OwnedInv, Owned
    <2> QED BY <1>2, <2>1 DEF Placed, OpenInv, BaseInv, PlaceInv
  <1>3. CASE acquire_privatization_lock(s)
    <2>1. pc[s].k \in Pushing /\ Goto(s, [pc[s] EXCEPT !.k = "pushing"])
          /\ SameHeap /\ SameGrowth /\ UNCHANGED highest_overflow_number
      BY <1>3 DEF acquire_privatization_lock, Pushing, heap, growth, numbers, SameHeap,
                  SameGrowth
    <2>2. PushWaits(s)
      BY <1>1, <1>2, <2>1 DEF PushWaits, Goto, Others
    <2>3. ContentsInv'
      BY <2>1 DEF BaseInv, ContentsInv, IsContents, SameHeap
    <2> QED BY <2>2, <2>3 DEF Step
  <1>4. CASE release_privatization_lock(s)
    <2>1. pc[s].k \in Pushing /\ pc[s].todo = {} /\ Goto(s, [k |-> "commit"])
          /\ SameHeap /\ SameGrowth /\ UNCHANGED highest_overflow_number
      BY <1>4 DEF release_privatization_lock, Pushing, heap, growth, numbers, SameHeap,
                  SameGrowth
    <2>2. PushWaits(s)
      BY <1>1, <1>2, <2>1 DEF PushWaits, Goto, Others
    <2>3. ContentsInv'
      BY <2>1 DEF BaseInv, ContentsInv, IsContents, SameHeap
    <2> QED BY <2>2, <2>3 DEF Step
  <1>5. CASE push_overflow_objects_from_privatized_pages(s)
    <2>1. PICK o \in pc[s].todo: /\ sys' = synchronize_object_now(sys, s, {o}, TRUE)
                                 /\ Goto(s, [pc[s] EXCEPT !.todo = @ \ {o}])
      BY <1>5 DEF push_overflow_objects_from_privatized_pages
    <2>2. pc[s].k = "pushing" /\ pc[s].k \in Pushing
          /\ SameGrowth /\ UNCHANGED <<public, committed, own, highest_overflow_number>>
      BY <1>5 DEF push_overflow_objects_from_privatized_pages, Pushing, growth, numbers,
                  SameGrowth
    <2>3. o \in Objs /\ {o} \in SUBSET Objs /\ TRUE \in BOOLEAN
      BY <1>2, <2>1, <2>2
    <2>4. /\ Shape(sys') /\ SameBut(sys, sys', {"mem", "cards"})
          /\ CellsCopied(sys, s, {o}, {}, sys')
      BY <1>1, <2>1, <2>3, SynchronizeEffect
    <2>5. pc'[s] = [pc[s] EXCEPT !.todo = @ \ {o}] /\ Others(s)
      BY <1>1, <2>1 DEF Goto, Others
    <2>6. pc'[s].k = "pushing" /\ "todo" \in DOMAIN pc'[s] /\ pc'[s].todo = pc[s].todo \ {o}
      BY <1>2, <2>2, <2>5
    <2>7. ObjectPushed(s, o)
      BY <2>1, <2>2, <2>3, <2>4, <2>5, <2>6 DEF ObjectPushed
    <2>8. ContentsInv'
      BY <2>2 DEF BaseInv, ContentsInv, IsContents
    <2> QED BY <2>7, <2>8 DEF Step
  <1> QED BY <1>3, <1>4, <1>5

\* The part of a commit with the mutex.
LEMMA CommitSteps ==
  ASSUME BaseInv, NEW s \in Segs, stm_commit_transaction(s)
  PROVE  Step /\ ContentsInv'
  <1> DEFINE x == IF major_collection_requested THEN Major ELSE sys
             written == sys.seg[s].modified \union sys.seg[s].mine
  <1>1. /\ pc[s].k = "commit" /\ OthersAtSafePoints(s) /\ Goto(s, Idle)
        /\ sys' = Finished(OverflowNumber(push_modified_to_other_segments(x, s), s), {s})
        /\ highest_overflow_number' =
             highest_overflow_number + (IF sys.seg[s].number_used THEN 1 ELSE 0)
        /\ public' = public \union sys.seg[s].mine
        /\ committed' = [o \in Objs |-> IF o \in written THEN own[s][o] ELSE committed[o]]
        /\ own' = [own EXCEPT ![s] = [o \in Objs |-> Zeroes(o)]]
        /\ SameGrowth
    BY DEF stm_commit_transaction, growth, SameGrowth, Major
  <1>2. Owned(sys, public, highest_overflow_number) /\ ListInv(sys, public)
    BY DEF BaseInv, OwnedInv, PagesInv
  <1>3. x = sys \/ x = Major
    OBVIOUS
  <1> HIDE DEF x
  <1>4. Owned(x, public, highest_overflow_number)
    BY <1>2, <1>3, MajorOwned
  <1>5. Shape(x) /\ x.seg[s].modified \subseteq Objs
    BY <1>4 DEF Owned, OpenInv
  <1>6. CommitLists(x, s, sys')
    BY <1>1, <1>5, CommitEffect
  <1>7. pc'[s] = Idle /\ Others(s) /\ \A t \in Segs: pc[t].k \in Simple
    BY <1>1 DEF Goto, BaseInv, PlaceInv, Others, OthersAtSafePoints, Simple
  <1>8. /\ \A o \in Objs: \A c \in Cells(o): committed'[o][c] =
             IF o \in sys.seg[s].modified \union sys.seg[s].mine
             THEN own[s][o][c] ELSE committed[o][c]
        /\ \A t \in Segs \ {s}: own'[t] = own[t]
    BY <1>1 DEF BaseInv, ContentsInv
  <1>9. CommitStep(s, x)
    BY <1>1, <1>3, <1>6, <1>7, <1>8 DEF CommitStep
  <1>10. ContentsInv'
    <2>1. sys.seg[s].mine \subseteq Objs
      BY <1>2 DEF Owned, OpenInv
    <2> HIDE DEF written
    <2> QED BY <1>1, <2>1 DEF BaseInv, ContentsInv, IsContents, Zeroes
  <1> QED BY <1>9, <1>10 DEF Step

\* Major collections.
LEMMA MajorStepsOf ==
  ASSUME BaseInv, NEW s \in Segs, major_collection_if_requested(s)
  PROVE  Step /\ ContentsInv'
  <1>1. /\ pc[s].k = "major" /\ OthersAtSafePoints(s) /\ Goto(s, Idle)
        /\ sys' = sys \/ sys' = Major
        /\ SameGrowth /\ UNCHANGED <<public, committed, own, highest_overflow_number>>
    BY DEF major_collection_if_requested, growth, numbers, SameGrowth, Major
  <1>2. pc'[s] = Idle /\ Others(s) /\ \A t \in Segs: pc[t].k \in Simple
    BY <1>1 DEF Goto, BaseInv, PlaceInv, Others, OthersAtSafePoints, Simple
  <1>3. MajorStepOf(s)
    BY <1>1, <1>2 DEF MajorStepOf
  <1>4. ContentsInv'
    BY <1>1 DEF BaseInv, ContentsInv, IsContents
  <1> QED BY <1>3, <1>4 DEF Step

\* Aborts, and the ones of the threads that a child of fork() does not have.
LEMMA AbortSteps ==
  ASSUME BaseInv, NEW s \in Segs, abort_with_mutex(s) \/ forksupport_child(s)
  PROVE  Step /\ ContentsInv'
  <1>1. Shape(sys) /\ DOMAIN pc = Segs /\ DOMAIN own = Segs
    BY DEF BaseInv, OwnedInv, Owned, PlaceInv, ContentsInv
  <1>2. CASE abort_with_mutex(s)
    <2> DEFINE S == {s}
    <2>1. /\ pc[s].k \in Simple /\ Goto(s, Idle)
          /\ sys' = abort_data_structures_from_segment_num(sys, S)
          /\ own' = [own EXCEPT ![s] = [o \in Objs |-> Zeroes(o)]]
          /\ SameGrowth /\ UNCHANGED <<public, committed, highest_overflow_number>>
      BY <1>2 DEF abort_with_mutex, growth, numbers, SameGrowth, Simple, Forget
    <2>2. S \in SUBSET Segs /\ \A t: t \in S <=> t = s
      OBVIOUS
    <2> HIDE DEF S
    <2>3. AbortLists(sys, S, sys')
      BY <1>1, <2>1, <2>2, AbortEffect
    <2>4. CopyOf(sys, sys)
      BY <1>1 DEF CopyOf, SameBut
    <2>5. pc'[s].k = "idle" /\ \A t \in Segs \ S: pc'[t] = pc[t] /\ own'[t] = own[t]
      BY <1>1, <2>1, <2>2 DEF Goto, Idle
    <2>6. AbortStepOf(S, sys)
      BY <2>1, <2>2, <2>3, <2>4, <2>5 DEF AbortStepOf
    <2>7. ContentsInv'
      BY <2>1 DEF BaseInv, ContentsInv, IsContents, Zeroes
    <2> QED BY <2>6, <2>7 DEF Step
  <1>3. CASE forksupport_child(s)
    <2> DEFINE S == Segs \ {s}
               x == BigCopy(sys)
    <2>1. /\ \A t \in Segs: Running(t)
          /\ sys' = abort_data_structures_from_segment_num(x, S)
          /\ own' = [t \in Segs |-> IF t = s THEN own[t] ELSE [o \in Objs |-> Zeroes(o)]]
          /\ SameGrowth /\ UNCHANGED <<pc, public, committed, highest_overflow_number>>
      BY <1>3 DEF forksupport_child, growth, numbers, SameGrowth
    <2>2. S \in SUBSET Segs /\ \A t \in Segs: t \in S <=> t # s
      OBVIOUS
    <2> HIDE DEF S, x
    <2>3. CopyOf(sys, x)
      BY <1>1, BigCopyEffect DEF CopyOf, x
    <2>4. AbortLists(x, S, sys')
      BY <2>1, <2>2, <2>3, AbortEffect DEF CopyOf
    <2>5. /\ \A t \in S: pc[t].k \in Simple /\ pc'[t].k = "idle"
          /\ \A t \in Segs \ S: pc'[t] = pc[t] /\ own'[t] = own[t]
      BY <1>1, <2>1, <2>2 DEF Running, Simple
    <2>6. AbortStepOf(S, x)
      BY <2>1, <2>2, <2>3, <2>4, <2>5 DEF AbortStepOf
    <2>7. ContentsInv'
      BY <2>1 DEF BaseInv, ContentsInv, IsContents, Zeroes
    <2> QED BY <2>6, <2>7 DEF Step
  <1> QED BY <1>2, <1>3

\* Every step is one of them.
LEMMA StepsTaken ==
  ASSUME BaseInv, [Next]_vars
  PROVE  Step /\ ContentsInv'
  <1>1. CASE UNCHANGED vars
    <2>1. SameHeap /\ SameGrowth /\ UNCHANGED <<pc, highest_overflow_number>>
      BY <1>1 DEF vars, SameHeap, SameGrowth
    <2>2. ContentsInv'
      BY <2>1 DEF BaseInv, ContentsInv, IsContents, SameHeap
    <2> QED BY <2>1, <2>2 DEF Step
  <1>2. CASE Next
    BY <1>2, DirectWrites, OverflowWrites, LockTakes, BarrierEnds, PrivatizingQuietly,
       PrivatizingPages, Allocates, AllocatingSteps, ObjectsForgotten, MinorSteps,
       PushingSteps, CommitSteps, MajorStepsOf, AbortSteps DEF Next
  <1> QED BY <1>1, <1>2

-----------------------------------------------------------------------------
(* Every step keeps the owners.                                            *)

\* A thread that stays in the same part of the program.
KeepsPlace(t) ==
  /\ Committing(t)' <=> Committing(t)
  /\ pc'[t].k \in Allocating => pc[t].k \in Allocating /\ pc'[t].o = pc[t].o

\* Its lists do not get shorter, but for the objects it forgets.
LEMMA OwnPlaceStays ==
  ASSUME NEW t \in Segs, OwnPlaces(t), KeepsPlace(t),
         sys'.seg[t].mine \subseteq sys.seg[t].mine,
         sys.seg[t].young \subseteq sys'.seg[t].young, Ovf(sys, t) \subseteq Ovf(sys', t),
         Committing(t) => sys'.seg[t].with_cards = sys.seg[t].with_cards,
         pc[t].k \in Allocating => sys'.number[pc[t].o] = sys.number[pc[t].o]
  PROVE  OwnPlaces(t)'
  <1>1. Ovf(sys, t)' = Ovf(sys', t)
    BY DEF Ovf
  <1> QED BY <1>1 DEF OwnPlaces, KeepsPlace

\* One that does not move keeps its place.
LEMMA StandsStill ==
  ASSUME NEW t \in Segs, pc'[t] = pc[t]
  PROVE  KeepsPlace(t)
  BY DEF KeepsPlace, Committing

\* A step that changes no list and moves no thread to another part.
LEMMA OwnedStays ==
  ASSUME BaseInv, Owned(sys', public, highest_overflow_number), SameOwners(sys, sys'),
         \A t \in Segs: KeepsPlace(t), UNCHANGED <<public, highest_overflow_number>>
  PROVE  OwnedInv'
  <1>1. ASSUME NEW t \in Segs
        PROVE  OwnPlaces(t)'
    <2>1. OwnPlaces(t) /\ KeepsPlace(t)
      BY DEF BaseInv, OwnedInv
    <2>2. /\ sys'.seg[t].mine = sys.seg[t].mine /\ sys'.seg[t].young = sys.seg[t].young
          /\ sys'.seg[t].with_cards = sys.seg[t].with_cards
          /\ Ovf(sys', t) = Ovf(sys, t) /\ sys'.number = sys.number
      BY DEF SameOwners, ListFields, Ovf
    <2> QED BY <2>1, <2>2, OwnPlaceStays
  <1> QED BY <1>1 DEF OwnedInv

\* A step that touches at most pages, memory, cards and locks.
LEMMA PagesOwned ==
  ASSUME BaseInv, Shape(sys'),
         SameBut(sys, sys', {"mem", "by_segment", "write_locks", "cards", "total_allocated"}),
         \A t \in Segs: KeepsPlace(t), UNCHANGED <<public, highest_overflow_number>>
  PROVE  OwnedInv'
  <1>1. Owned(sys, public, highest_overflow_number)
    BY DEF BaseInv, OwnedInv
  <1>2. SameOwners(sys, sys') /\ Owned(sys', public, highest_overflow_number)
    BY <1>1, SameListsOwned
  <1> QED BY <1>2, OwnedStays

\* A step that does not touch the heap.
LEMMA QuietOwned ==
  ASSUME BaseInv, sys' = sys, \A t \in Segs: KeepsPlace(t),
         UNCHANGED <<public, highest_overflow_number>>
  PROVE  OwnedInv'
  <1>1. Shape(sys') /\ SameBut(sys, sys', {"mem", "by_segment", "write_locks", "cards",
                                           "total_allocated"})
    BY DEF BaseInv, OwnedInv, Owned, SameBut
  <1> QED BY <1>1, PagesOwned

\* Writes.
LEMMA WritesOwned ==
  ASSUME BaseInv, NEW s \in Segs, NEW o, NEW c, NEW card, NEW x,
         DirectWrite(s, o, c) \/ BarrierWrite(s, o, c, card, x)
  PROVE  OwnedInv'
  <1>1. Owned(sys, public, highest_overflow_number)
    BY DEF BaseInv, OwnedInv
  <1>2. CASE DirectWrite(s, o, c)
    <2>1. Shape(sys') /\ UNCHANGED <<pc, public, highest_overflow_number>>
      BY <1>2 DEF DirectWrite, WriteStep
    <2>2. SameBut(sys, sys', {"mem", "by_segment", "write_locks", "cards", "total_allocated"})
      BY <1>2 DEF DirectWrite, WriteStep, SameBut
    <2>3. \A t \in Segs: KeepsPlace(t)
      BY <2>1, StandsStill
    <2> QED BY <2>1, <2>2, <2>3, PagesOwned
  <1>3. CASE BarrierWrite(s, o, c, card, x)
    <2>1. /\ o \in Objs /\ Shape(sys') /\ SameBut(x, sys', {"mem"})
          /\ UNCHANGED <<public, highest_overflow_number>>
          /\ BarrierLists(sys, s, o, c, card, x) /\ card \in BOOLEAN
          /\ card => o \in UsesCards
          /\ o \in sys.seg[s].modified \union Ovf(sys, s)
      BY <1>3 DEF BarrierWrite, WriteStep
    <2>2. Owned(x, public, highest_overflow_number)
      BY <1>1, <2>1, BarrierOwned
    <2>3. SameBut(x, sys', {"mem", "by_segment", "write_locks", "cards", "total_allocated"})
      BY <2>1 DEF SameBut
    <2>4. SameOwners(x, sys') /\ Owned(sys', public, highest_overflow_number)
      BY <2>1, <2>2, <2>3, SameListsOwned
    <2>5. ASSUME NEW t \in Segs
          PROVE  OwnPlaces(t)'
      <3>1. OwnPlaces(t)
        BY DEF BaseInv, OwnedInv
      <3>2. KeepsPlace(t) /\ (t = s => ~Committing(t))
        <4>1. CASE pc'[t] = pc[t] /\ t # s
          BY <4>1, StandsStill
        <4>2. CASE t = s
          BY <1>3, <4>2 DEF BarrierWrite, KeepsPlace, Committing, Pushing, Allocating,
                            Running, Idle
        <4> QED BY <1>3, <4>1, <4>2 DEF BarrierWrite, Others
      <3>3. /\ x.seg[t].mine = sys.seg[t].mine /\ x.seg[t].young = sys.seg[t].young
            /\ Ovf(x, t) = Ovf(sys, t)
            /\ t # s => x.seg[t].with_cards = sys.seg[t].with_cards
        <4>1. CASE t = s
          BY <2>1, <4>1 DEF BarrierLists, MarkedCard, OpenedObject, SameListsBut, ListFields,
                            Ovf
        <4>2. CASE t # s
          <5>1. SameListsBut(sys, x, t, {})
            BY <2>1, <4>2 DEF BarrierLists
          <5> QED BY <5>1, <4>2 DEF SameListsBut, ListFields, Ovf
        <4> QED BY <4>1, <4>2
      <3>4. /\ sys'.seg[t].mine = sys.seg[t].mine /\ sys'.seg[t].young = sys.seg[t].young
            /\ Ovf(sys', t) = Ovf(sys, t)
            /\ t # s => sys'.seg[t].with_cards = sys.seg[t].with_cards
        BY <2>4, <3>3 DEF SameOwners, ListFields, Ovf
      <3>5. sys'.number = sys.number
        BY <2>1 DEF BarrierLists, SameBut, Fields
      <3> QED BY <3>1, <3>2, <3>4, <3>5, OwnPlaceStays
    <2> QED BY <2>1, <2>4, <2>5 DEF OwnedInv
  <1> QED BY <1>2, <1>3

\* Taking a write lock.
LEMMA LockTakenOwned ==
  ASSUME BaseInv, NEW s \in Segs, NEW o \in Objs, NEW c \in Cells(o), NEW card,
         LockTakenStep(s, o, c, card)
  PROVE  OwnedInv'
  <1>1. Owned(sys, public, highest_overflow_number)
    BY DEF BaseInv, OwnedInv
  <1>2. /\ o \in public /\ o \notin sys.seg[s].open /\ Shape(sys')
        /\ SameBut(sys, sys', {"write_locks", "seg"}) /\ OneList(s, {"modified"})
        /\ sys'.seg[s].modified = sys.seg[s].modified \union {o}
        /\ UNCHANGED <<public, highest_overflow_number>>
    BY DEF LockTakenStep
  <1>3. ASSUME NEW t \in Segs
        PROVE  /\ Num(sys', t) = Num(sys, t) /\ Ovf(sys', t) = Ovf(sys, t)
               /\ \A f \in ListFields \ {"modified"}: sys'.seg[t][f] = sys.seg[t][f]
               /\ sys'.seg[t].modified = IF t = s THEN sys.seg[t].modified \union {o}
                                         ELSE sys.seg[t].modified
    <2>1. CASE t = s
      BY <1>2, <2>1 DEF OneList, SameListsBut, ListFields, Num, Ovf
    <2>2. CASE t # s
      <3>1. SameListsBut(sys, sys', t, {})
        BY <1>2, <2>2 DEF OneList
      <3> QED BY <2>2, <3>1 DEF SameListsBut, ListFields, Num, Ovf
    <2> QED BY <2>1, <2>2
  <1>4. ASSUME NEW t \in Segs
        PROVE  /\ Num(sys', t) = Num(sys, t) /\ Ovf(sys', t) = Ovf(sys, t)
               /\ sys'.seg[t].number_used = sys.seg[t].number_used
               /\ sys'.seg[t].mine = sys.seg[t].mine /\ sys'.seg[t].young = sys.seg[t].young
               /\ sys'.seg[t].plain = sys.seg[t].plain /\ sys'.seg[t].open = sys.seg[t].open
               /\ sys'.seg[t].pointing = sys.seg[t].pointing
               /\ sys'.seg[t].with_cards = sys.seg[t].with_cards
               /\ sys'.seg[t].cards_set = sys.seg[t].cards_set
    BY <1>3 DEF ListFields
  <1>5. sys'.number = sys.number /\ sys'.used = sys.used
    BY <1>2 DEF SameBut, Fields
  <1>6. NumbersInv(sys', highest_overflow_number)
    <2>1. NumbersInv(sys, highest_overflow_number)
      BY <1>1 DEF Owned
    <2>2. \A t \in Segs: Num(sys', t) = Num(sys, t)
                         /\ sys'.seg[t].number_used = sys.seg[t].number_used
      BY <1>4
    <2> QED BY ONLY <1>5, <2>1, <2>2 DEF NumbersInv
  <1>7. ASSUME NEW q \in Objs
        PROVE  OwnerInv(sys', public, q)
    <2>1. OwnerInv(sys, public, q)
      BY <1>1 DEF Owned
    <2>2. \A t \in Segs: q \in sys'.seg[t].modified => q \in sys.seg[t].modified \/ q = o
      BY <1>3
    <2>3. \A t \in Segs: /\ Num(sys', t) = Num(sys, t) /\ Ovf(sys', t) = Ovf(sys, t)
                         /\ sys'.seg[t].mine = sys.seg[t].mine
                         /\ sys'.seg[t].young = sys.seg[t].young
      BY <1>4
    <2>4. o \in public
      BY <1>2
    <2> QED BY ONLY <1>5, <2>1, <2>2, <2>3, <2>4 DEF OwnerInv
  <1>8. ASSUME NEW t \in Segs
        PROVE  OpenInv(sys', t)
    <2>1. OpenInv(sys, t)
      BY <1>1 DEF Owned
    <2> DEFINE g == sys.seg[t]
               h == sys'.seg[t]
    <2>2. h.modified \subseteq Objs /\ g.modified \subseteq h.modified
          /\ h.modified \subseteq g.modified \union {o} /\ (t # s => h.modified = g.modified)
      <3>1. g.modified \subseteq Objs
        BY <2>1 DEF OpenInv
      <3>2. h.modified = IF t = s THEN g.modified \union {o} ELSE g.modified
        BY <1>3
      <3> HIDE DEF g, h
      <3> QED BY <3>1, <3>2
    <2>3. t = s => o \notin h.open
      BY <1>2, <1>4
    <2>4. /\ h.mine = g.mine /\ h.young = g.young /\ h.plain = g.plain /\ h.open = g.open
          /\ h.pointing = g.pointing /\ h.with_cards = g.with_cards
          /\ h.cards_set = g.cards_set /\ Ovf(sys', t) = Ovf(sys, t)
      BY <1>4
    <2> HIDE DEF g, h
    <2> QED BY <2>1, <2>2, <2>3, <2>4 DEF OpenInv, g, h
  <1>9. Owned(sys', public, highest_overflow_number)
    BY <1>2, <1>6, <1>7, <1>8 DEF Owned
  <1>10. ASSUME NEW t \in Segs
         PROVE  OwnPlaces(t)'
    <2>1. OwnPlaces(t)
      BY DEF BaseInv, OwnedInv
    <2>2. KeepsPlace(t)
      <3>1. CASE t = s
        BY <3>1 DEF LockTakenStep, Running, KeepsPlace, Committing, Pushing, Allocating
      <3>2. CASE t # s
        BY <3>2, StandsStill DEF LockTakenStep, Others
      <3> QED BY <3>1, <3>2
    <2> QED BY <1>4, <1>5, <2>1, <2>2, OwnPlaceStays
  <1> QED BY <1>2, <1>9, <1>10 DEF OwnedInv

\* The lists that one thread does not change.
LEMMA OneListFields ==
  ASSUME NEW s \in Segs, NEW changed, OneList(s, changed)
  PROVE  \A t \in Segs:
           /\ \A f \in ListFields \ changed: sys'.seg[t][f] = sys.seg[t][f]
           /\ t # s => \A f \in ListFields: sys'.seg[t][f] = sys.seg[t][f]
  BY DEF OneList, SameListsBut

\* Privatizing pages.
LEMMA PrivatizingOwned ==
  ASSUME BaseInv, NEW s \in Segs, PrivatizingStep(s)
  PROVE  OwnedInv'
  <1>1. ASSUME NEW t \in Segs
        PROVE  KeepsPlace(t)
    <2>1. CASE t # s
      BY <2>1, StandsStill DEF PrivatizingStep, QuietPrivatizing, BitSet, PageRead, PageWritten,
                               Moved, Others
    <2>2. CASE t = s
      BY <2>2 DEF PrivatizingStep, QuietPrivatizing, BitSet, PageRead, PageWritten, Moved,
                  KeepsPlace, Committing, Pushing, Allocating
    <2> QED BY <2>1, <2>2
  <1>2. /\ Shape(sys')
        /\ SameBut(sys, sys', {"mem", "by_segment", "write_locks", "cards", "total_allocated"})
    <2>1. Shape(sys)
      BY DEF BaseInv, OwnedInv, Owned
    <2> QED BY <2>1 DEF PrivatizingStep, QuietPrivatizing, BitSet, PageRead, PageWritten, SameBut
  <1> QED BY <1>1, <1>2, PagesOwned DEF PrivatizingStep

\* A new address.
LEMMA AllocateOwned ==
  ASSUME BaseInv, NEW s \in Segs, NEW o, AllocateStep(s, o)
  PROVE  OwnedInv'
  <1>1. Owned(sys, public, highest_overflow_number) /\ ListInv(sys, public)
    BY DEF BaseInv, OwnedInv, PagesInv
  <1>2. /\ o \in Objs /\ o \notin sys.used /\ Shape(sys')
        /\ sys'.used = sys.used \union {o}
        /\ \A p \in Objs: sys'.number[p] = IF p = o THEN 0 ELSE sys.number[p]
        /\ UNCHANGED <<public, highest_overflow_number>>
    BY DEF AllocateStep
  <1>3. sys'.seg = sys.seg
    BY DEF AllocateStep, SameBut, Fields
  <1>4. \A t \in Segs: Num(sys', t) = Num(sys, t) /\ Ovf(sys', t) = Ovf(sys, t)
    BY <1>3 DEF Num, Ovf
  <1>5. NumbersInv(sys', highest_overflow_number)
    <2>1. NumbersInv(sys, highest_overflow_number)
      BY <1>1 DEF Owned
    <2>2. \A p \in Objs: sys'.number[p] = sys.number[p] \/ sys'.number[p] = 0
      BY <1>2
    <2>3. \A t \in Segs: Num(sys, t) # 0
      BY <2>1 DEF NumbersInv
    <2>4. 0 \in 0..highest_overflow_number
      BY <2>1 DEF NumbersInv
    <2> QED BY ONLY <1>3, <1>4, <2>1, <2>2, <2>3, <2>4 DEF NumbersInv
  <1>6. ASSUME NEW q \in Objs
        PROVE  OwnerInv(sys', public, q)
    <2>1. OwnerInv(sys, public, q) /\ ObjectInv(sys, public, q)
      BY <1>1 DEF Owned, ListInv
    <2>2. CASE q # o
      <3>1. sys'.number[q] = sys.number[q] /\ (q \in sys.used => q \in sys'.used)
        BY <1>2, <2>2
      <3> QED BY ONLY <1>3, <1>4, <2>1, <3>1 DEF OwnerInv
    <2>3. CASE q = o
      <3>1. q \notin public /\ \A t \in Segs: q \notin Lists(sys, t) /\ q \notin Ovf(sys, t)
        BY <1>2, <2>1, <2>3 DEF ObjectInv, OwnerInv
      <3> QED BY <1>3, <1>4, <3>1 DEF OwnerInv, Lists
    <2> QED BY <2>2, <2>3
  <1>7. \A t \in Segs: OpenInv(sys', t)
    BY <1>1, <1>3, <1>4 DEF Owned, OpenInv
  <1>8. ASSUME NEW t \in Segs
        PROVE  OwnPlaces(t)'
    <2>1. OwnPlaces(t)
      BY DEF BaseInv, OwnedInv
    <2>2. CASE t # s
      <3>1. KeepsPlace(t)
        BY <2>2, StandsStill DEF AllocateStep, Others
      <3>2. pc[t].k \in Allocating => sys'.number[pc[t].o] = sys.number[pc[t].o]
        BY <1>2, <2>1 DEF OwnPlaces
      <3> QED BY <1>3, <1>4, <2>1, <3>1, <3>2, OwnPlaceStays
    <2>3. CASE t = s
      <3>1. pc[t].k = "idle" /\ pc'[t].k = "new" /\ pc'[t].o = o
        BY <2>3 DEF AllocateStep, Running
      <3>2. ~Committing(t)' /\ ~Committing(t)
        BY <3>1 DEF Committing, Pushing
      <3>3. sys'.seg[t].mine \subseteq sys'.seg[t].young \union Ovf(sys', t)
        BY <1>3, <1>4, <2>1, <3>2 DEF OwnPlaces
      <3>4. sys'.number[o] = 0 /\ Ovf(sys, t)' = Ovf(sys', t)
        BY <1>2 DEF Ovf
      <3> QED BY <1>2, <3>1, <3>2, <3>3, <3>4 DEF OwnPlaces
    <2> QED BY <2>2, <2>3
  <1> QED BY <1>2, <1>5, <1>6, <1>7, <1>8 DEF Owned, OwnedInv

\* A new object belongs to the transaction that made it.
LEMMA MadeOwned ==
  ASSUME BaseInv, NEW s \in Segs, Made(s)
  PROVE  OwnedInv'
  <1> DEFINE o == pc[s].o
  <1>1. Owned(sys, public, highest_overflow_number) /\ ListInv(sys, public)
        /\ OwnPlaces(s) /\ FreshInv
    BY DEF BaseInv, OwnedInv, PagesInv
  <1>2. pc[s].k \in Allocating /\ pc'[s] = Idle /\ Others(s)
    BY DEF Made
  <1>3. /\ o \in Objs /\ sys.number[o] = 0 /\ o \notin public /\ o \in sys.used
        /\ \A t \in Segs: o \notin Lists(sys, t)
    BY <1>1, <1>2 DEF OwnPlaces, FreshInv
  <1>4. /\ Shape(sys') /\ SameBut(sys, sys', {"mem", "seg"}) /\ OneList(s, {"young", "mine"})
        /\ sys'.seg[s].young = sys.seg[s].young \union {o}
        /\ sys'.seg[s].mine = sys.seg[s].mine \union {o}
        /\ UNCHANGED <<public, highest_overflow_number>>
    BY DEF Made
  <1> HIDE DEF o
  <1>5. sys'.number = sys.number /\ sys'.used = sys.used
    BY <1>4 DEF SameBut, Fields
  <1>6. ASSUME NEW t \in Segs
        PROVE  /\ Num(sys', t) = Num(sys, t) /\ Ovf(sys', t) = Ovf(sys, t)
               /\ sys'.seg[t].number_used = sys.seg[t].number_used
               /\ sys'.seg[t].modified = sys.seg[t].modified
               /\ sys'.seg[t].plain = sys.seg[t].plain /\ sys'.seg[t].open = sys.seg[t].open
               /\ sys'.seg[t].pointing = sys.seg[t].pointing
               /\ sys'.seg[t].with_cards = sys.seg[t].with_cards
               /\ sys'.seg[t].cards_set = sys.seg[t].cards_set
               /\ t # s => /\ sys'.seg[t].mine = sys.seg[t].mine
                           /\ sys'.seg[t].young = sys.seg[t].young
    BY <1>4, OneListFields DEF ListFields, Num, Ovf
  <1>7. NumbersInv(sys, highest_overflow_number)
    BY <1>1 DEF Owned
  <1>8. NumbersInv(sys', highest_overflow_number)
    <2>1. \A t \in Segs: Num(sys', t) = Num(sys, t)
                         /\ sys'.seg[t].number_used = sys.seg[t].number_used
      BY <1>6
    <2> QED BY ONLY <1>5, <1>7, <2>1 DEF NumbersInv
  <1>9. ASSUME NEW q \in Objs
        PROVE  OwnerInv(sys', public, q)
    <2>1. OwnerInv(sys, public, q)
      BY <1>1 DEF Owned
    <2>2. CASE q # o
      <3>1. \A t \in Segs: /\ Num(sys', t) = Num(sys, t) /\ Ovf(sys', t) = Ovf(sys, t)
                           /\ sys'.seg[t].modified = sys.seg[t].modified
                           /\ q \in sys'.seg[t].mine <=> q \in sys.seg[t].mine
                           /\ q \in sys'.seg[t].young <=> q \in sys.seg[t].young
        BY <1>4, <1>6, <2>2
      <3> QED BY ONLY <1>5, <2>1, <3>1 DEF OwnerInv
    <2>3. CASE q = o
      <3>1. \A t \in Segs: Num(sys, t) # 0
        BY <1>7 DEF NumbersInv
      <3>2. \A t \in Segs: q \notin Ovf(sys, t)
        BY <1>3, <2>1, <2>3, <3>1 DEF OwnerInv
      <3>3. \A t \in Segs: /\ q \notin Ovf(sys', t) /\ q \notin sys'.seg[t].modified
                           /\ q \in sys'.seg[t].mine => t = s
        BY <1>3, <1>6, <2>3, <3>2 DEF Lists
      <3>4. sys'.number[q] = 0 /\ q \notin public
        BY <1>3, <1>5, <2>3
      <3> QED BY ONLY <3>3, <3>4 DEF OwnerInv
    <2> QED BY <2>2, <2>3
  <1>10. ASSUME NEW t \in Segs
         PROVE  OpenInv(sys', t)
    <2>1. OpenInv(sys, t)
      BY <1>1 DEF Owned
    <2> DEFINE g == sys.seg[t]
               h == sys'.seg[t]
    <2>2. h.mine \subseteq Objs /\ h.young \subseteq Objs
      <3>1. g.mine \subseteq Objs /\ g.young \subseteq Objs
        BY <2>1 DEF OpenInv
      <3>2. CASE t = s
        BY <1>3, <1>4, <3>1, <3>2
      <3>3. CASE t # s
        BY <1>6, <3>1, <3>3
      <3> QED BY <3>2, <3>3
    <2>3. /\ h.modified = g.modified /\ h.plain = g.plain /\ h.open = g.open
          /\ h.pointing = g.pointing /\ h.with_cards = g.with_cards
          /\ h.cards_set = g.cards_set /\ Ovf(sys', t) = Ovf(sys, t)
      BY <1>6
    <2> HIDE DEF g, h
    <2> QED BY <2>1, <2>2, <2>3 DEF OpenInv, g, h
  <1>11. ASSUME NEW t \in Segs
         PROVE  OwnPlaces(t)'
    <2>1. OwnPlaces(t)
      BY DEF BaseInv, OwnedInv
    <2>2. CASE t # s
      <3>1. KeepsPlace(t)
        BY <1>2, <2>2, StandsStill DEF Others
      <3> QED BY <1>5, <1>6, <2>1, <2>2, <3>1, OwnPlaceStays
    <2>3. CASE t = s
      <3>1. ~Committing(t)' /\ ~Committing(t) /\ pc'[t].k \notin Allocating
        BY <1>2, <2>3 DEF Committing, Pushing, Allocating, Idle
      <3>2. sys.seg[t].mine \subseteq sys.seg[t].young \union Ovf(sys, t)
        BY <2>1, <3>1 DEF OwnPlaces
      <3>3. Ovf(sys, t)' = Ovf(sys, t)
        BY <1>6 DEF Ovf
      <3>4. sys'.seg[t].mine \subseteq sys'.seg[t].young \union Ovf(sys, t)'
        BY <1>4, <2>3, <3>2, <3>3
      <3> QED BY <3>1, <3>4 DEF OwnPlaces
    <2> QED BY <2>2, <2>3
  <1> QED BY <1>4, <1>8, <1>9, <1>10, <1>11 DEF Owned, OwnedInv

\* What the program forgets is no longer its own.
LEMMA PopRootOwned ==
  ASSUME BaseInv, NEW s \in Segs, NEW o, PopRootStep(s, o)
  PROVE  OwnedInv'
  <1>1. Owned(sys, public, highest_overflow_number)
    BY DEF BaseInv, OwnedInv
  <1>2. /\ Shape(sys') /\ SameBut(sys, sys', {"seg"}) /\ OneList(s, {"mine"})
        /\ sys'.seg[s].mine = sys.seg[s].mine \ {o}
        /\ UNCHANGED <<pc, public, highest_overflow_number>>
    BY DEF PopRootStep
  <1>3. sys'.number = sys.number /\ sys'.used = sys.used
    BY <1>2 DEF SameBut, Fields
  <1>4. ASSUME NEW t \in Segs
        PROVE  /\ Num(sys', t) = Num(sys, t) /\ Ovf(sys', t) = Ovf(sys, t)
               /\ sys'.seg[t].number_used = sys.seg[t].number_used
               /\ sys'.seg[t].modified = sys.seg[t].modified
               /\ sys'.seg[t].young = sys.seg[t].young
               /\ sys'.seg[t].plain = sys.seg[t].plain /\ sys'.seg[t].open = sys.seg[t].open
               /\ sys'.seg[t].pointing = sys.seg[t].pointing
               /\ sys'.seg[t].with_cards = sys.seg[t].with_cards
               /\ sys'.seg[t].cards_set = sys.seg[t].cards_set
    BY <1>2, OneListFields DEF ListFields, Num, Ovf
  <1>5. \A t \in Segs: sys'.seg[t].mine \subseteq sys.seg[t].mine
    <2>1. \A t \in Segs: t # s => sys'.seg[t].mine = sys.seg[t].mine
      BY <1>2, OneListFields DEF ListFields
    <2> QED BY <1>2, <2>1
  <1>6. NumbersInv(sys', highest_overflow_number)
    <2>1. NumbersInv(sys, highest_overflow_number)
      BY <1>1 DEF Owned
    <2>2. \A t \in Segs: Num(sys', t) = Num(sys, t)
                         /\ sys'.seg[t].number_used = sys.seg[t].number_used
      BY <1>4
    <2> QED BY ONLY <1>3, <2>1, <2>2 DEF NumbersInv
  <1>7. ASSUME NEW q \in Objs
        PROVE  OwnerInv(sys', public, q)
    <2>1. OwnerInv(sys, public, q)
      BY <1>1 DEF Owned
    <2>2. \A t \in Segs: /\ Num(sys', t) = Num(sys, t) /\ Ovf(sys', t) = Ovf(sys, t)
                         /\ sys'.seg[t].modified = sys.seg[t].modified
                         /\ q \in sys'.seg[t].mine => q \in sys.seg[t].mine
                         /\ sys'.seg[t].young = sys.seg[t].young
      BY <1>4, <1>5
    <2> QED BY ONLY <1>3, <2>1, <2>2 DEF OwnerInv
  <1>8. ASSUME NEW t \in Segs
        PROVE  OpenInv(sys', t)
    <2>1. OpenInv(sys, t) /\ sys'.seg[t].mine \subseteq sys.seg[t].mine
      BY <1>1, <1>5 DEF Owned
    <2> QED BY <1>4, <2>1 DEF OpenInv
  <1>9. ASSUME NEW t \in Segs
        PROVE  OwnPlaces(t)'
    <2>1. OwnPlaces(t) /\ KeepsPlace(t)
      BY <1>2, StandsStill DEF BaseInv, OwnedInv
    <2> QED BY <1>3, <1>4, <1>5, <2>1, OwnPlaceStays
  <1> QED BY <1>2, <1>6, <1>7, <1>8, <1>9 DEF Owned, OwnedInv

\* What is unlinked was not modified.
LEMMA UnlinkOwned ==
  ASSUME BaseInv, NEW o, UnlinkStep(o)
  PROVE  OwnedInv'
  <1>1. Owned(sys, public, highest_overflow_number)
    BY DEF BaseInv, OwnedInv
  <1>2. /\ \A s \in Segs: o \notin sys.seg[s].modified
        /\ public' = public \ {o} /\ UNCHANGED <<sys, pc, highest_overflow_number>>
    BY DEF UnlinkStep
  <1>3. ASSUME NEW q \in Objs
        PROVE  OwnerInv(sys, public', q)
    <2>1. OwnerInv(sys, public, q)
      BY <1>1 DEF Owned
    <2>2. (q \in public' => q \in public) /\ (q \in public => q \in public' \/ q = o)
      BY <1>2
    <2> QED BY <1>2, <2>1, <2>2 DEF OwnerInv
  <1>4. Owned(sys, public', highest_overflow_number)
    BY <1>1, <1>3 DEF Owned
  <1>5. \A t \in Segs: OwnPlaces(t)'
    BY <1>2, StandsStill, OwnPlaceStays DEF BaseInv, OwnedInv
  <1> QED BY <1>2, <1>4, <1>5 DEF OwnedInv

\* A minor collection.
LEMMA MinorStepOwned ==
  ASSUME BaseInv, NEW s \in Segs, NEW commit, MinorStepOf(s, commit)
  PROVE  OwnedInv'
  <1> DEFINE S == {s}
  <1>0. S \in SUBSET Segs /\ \A t: t \in S <=> t = s
    OBVIOUS
  <1>1. Owned(sys, public, highest_overflow_number) /\ ListInv(sys, public)
    BY DEF BaseInv, OwnedInv, PagesInv
  <1>2. /\ Running(s) /\ commit \in BOOLEAN /\ MinorLists(sys, S, commit, sys') /\ Others(s)
        /\ IF commit THEN pc'[s].k = "push" ELSE pc'[s].k \in {"idle", "major"}
        /\ UNCHANGED <<public, highest_overflow_number>>
    BY DEF MinorStepOf
  <1> HIDE DEF S
  <1>3. Owned(sys', public, highest_overflow_number)
        /\ \A t \in S: sys'.seg[t].with_cards = {}
    BY <1>0, <1>1, <1>2, MinorOwned
  <1>4. MinorOwners(sys, S, commit, sys')
    BY <1>0, <1>1, <1>2, MinorOwnersEffect
  <1>5. ASSUME NEW t \in Segs
        PROVE  OwnPlaces(t)'
    <2>1. OwnPlaces(t)
      BY DEF BaseInv, OwnedInv
    <2>2. /\ sys'.seg[t].mine = sys.seg[t].mine
          /\ Ovf(sys', t) = IF t = s /\ ~commit THEN Alive(sys, t) \union Ovf(sys, t)
                            ELSE Ovf(sys, t)
      BY <1>0, <1>4 DEF MinorOwners
    <2>3. CASE t # s
      <3>1. KeepsPlace(t)
        BY <1>2, <2>3, StandsStill DEF Others
      <3>2. SameListsBut(sys, sys', t, {})
        BY <1>0, <1>2, <2>3 DEF MinorLists
      <3>3. sys'.seg[t].young = sys.seg[t].young /\ sys'.seg[t].with_cards = sys.seg[t].with_cards
        BY <3>2 DEF SameListsBut, ListFields
      <3>4. ASSUME pc[t].k \in Allocating
            PROVE  sys'.number[pc[t].o] = sys.number[pc[t].o]
        <4>1. pc[t].o \in Objs /\ \A u \in Segs: pc[t].o \notin Lists(sys, u)
          BY <2>1, <3>4 DEF OwnPlaces, BaseInv, PagesInv, FreshInv
        <4>2. \A u \in S: pc[t].o \notin Alive(sys, u)
          BY <1>0, <4>1 DEF Lists, Alive
        <4> QED BY <1>2, <4>1, <4>2 DEF MinorLists, NumbersGiven
      <3> QED BY <2>1, <2>2, <2>3, <3>1, <3>3, <3>4, OwnPlaceStays
    <2>4. CASE t = s
      <3>1. ~Committing(t) /\ pc'[t].k \notin Allocating /\ (Committing(t)' => commit)
        BY <1>2, <2>4 DEF Running, Committing, Pushing, Allocating
      <3>2. sys.seg[t].mine \subseteq sys.seg[t].young \union Ovf(sys, t)
        BY <2>1, <3>1 DEF OwnPlaces
      <3>3. sys'.seg[t].with_cards = {}
        BY <1>0, <1>3, <2>4
      <3>4. Ovf(sys, t)' = Ovf(sys', t)
        BY DEF Ovf
      <3>5. ~commit => sys'.seg[t].mine \subseteq Ovf(sys', t)
        BY <2>2, <2>4, <3>2 DEF Alive
      <3>6. ~commit <=> ~Committing(t)'
        BY <1>2, <2>4 DEF Committing, Pushing
      <3> QED BY <3>1, <3>3, <3>4, <3>5, <3>6 DEF OwnPlaces
    <2> QED BY <2>3, <2>4
  <1> QED BY <1>2, <1>3, <1>5 DEF OwnedInv

\* Pushing objects.
LEMMA PushingOwned ==
  ASSUME BaseInv, NEW s \in Segs, NEW o, PushWaits(s) \/ ObjectPushed(s, o)
  PROVE  OwnedInv'
  <1>1. ASSUME NEW t \in Segs
        PROVE  KeepsPlace(t)
    <2>1. CASE t # s
      BY <2>1, StandsStill DEF PushWaits, ObjectPushed, Others
    <2>2. CASE t = s
      BY <2>2 DEF PushWaits, ObjectPushed, KeepsPlace, Committing, Pushing, Allocating
    <2> QED BY <2>1, <2>2
  <1>2. CASE PushWaits(s)
    BY <1>1, <1>2, QuietOwned DEF PushWaits, SameHeap
  <1>3. CASE ObjectPushed(s, o)
    <2>1. Shape(sys') /\ UNCHANGED <<public, highest_overflow_number>>
      BY <1>3 DEF ObjectPushed
    <2>2. SameBut(sys, sys', {"mem", "by_segment", "write_locks", "cards", "total_allocated"})
      BY <1>3 DEF ObjectPushed, SameBut
    <2> QED BY <1>1, <2>1, <2>2, PagesOwned
  <1> QED BY <1>2, <1>3

\* The heap as a commit finds it, with or without a major collection before.
LEMMA AtSafePoint ==
  ASSUME BaseInv, NEW x, x = sys \/ x = Major
  PROVE  /\ Owned(x, public, highest_overflow_number)
         /\ \A t \in Segs:
              /\ x.seg[t].mine = sys.seg[t].mine /\ x.seg[t].modified = sys.seg[t].modified
              /\ x.seg[t].plain = sys.seg[t].plain
              /\ ~Committing(t) => x.seg[t].mine \subseteq x.seg[t].young \union Ovf(x, t)
              /\ Committing(t) => /\ x.seg[t].with_cards = {} /\ x.seg[t].young = {}
                                  /\ x.seg[t].number_used = sys.seg[t].number_used
  <1>1. Owned(sys, public, highest_overflow_number) /\ ListInv(sys, public)
    BY DEF BaseInv, OwnedInv, PagesInv
  <1>2. ASSUME NEW t \in Segs
        PROVE  /\ ~Committing(t) => sys.seg[t].mine \subseteq sys.seg[t].young \union Ovf(sys, t)
               /\ Committing(t) => sys.seg[t].with_cards = {} /\ sys.seg[t].young = {}
    BY DEF BaseInv, OwnedInv, OwnPlaces, PagesInv, CommitInv, Committing
  <1>3. CASE x = sys
    BY <1>1, <1>2, <1>3
  <1>4. CASE x = Major
    <2>1. Owned(x, public, highest_overflow_number) /\ MajorOwners(x)
      BY <1>1, <1>4, MajorOwned
    <2>2. ASSUME NEW t \in Segs
          PROVE  /\ x.seg[t].mine = sys.seg[t].mine /\ x.seg[t].modified = sys.seg[t].modified
                 /\ x.seg[t].plain = sys.seg[t].plain
                 /\ x.seg[t].young = {} /\ x.seg[t].with_cards = {}
      BY <2>1 DEF MajorOwners
    <2>3. ASSUME NEW t \in Segs, ~Committing(t)
          PROVE  x.seg[t].mine \subseteq x.seg[t].young \union Ovf(x, t)
      <3>1. sys.seg[t].mine \intersect (sys.seg[t].young \union Ovf(sys, t)) \subseteq Ovf(x, t)
        BY <2>1 DEF MajorOwners
      <3> QED BY <1>2, <2>2, <2>3, <3>1
    <2>4. ASSUME NEW t \in Segs, Committing(t)
          PROVE  x.seg[t].number_used = sys.seg[t].number_used
      <3>1. sys.seg[t].young = {}
        BY <1>2, <2>4
      <3>2. x.seg[t].number_used = (sys.seg[t].number_used \/ sys.seg[t].young # {})
        BY <2>1 DEF MajorOwners
      <3>3. sys.seg[t].number_used \in BOOLEAN
        BY <1>1 DEF Owned, Shape
      <3> QED BY <3>1, <3>2, <3>3
    <2> QED BY <2>1, <2>2, <2>3, <2>4
  <1> QED BY <1>3, <1>4

\* The end of a commit.
LEMMA CommitStepOwned ==
  ASSUME BaseInv, NEW s \in Segs, NEW x, CommitStep(s, x)
  PROVE  OwnedInv'
  <1>1. /\ pc[s].k = "commit" /\ CommitLists(x, s, sys') /\ (x = sys \/ x = Major)
        /\ public' = public \union sys.seg[s].mine /\ pc'[s] = Idle /\ Others(s)
        /\ \A t \in Segs: pc[t].k \in Simple
    BY DEF CommitStep
  <1>2. highest_overflow_number' =
          highest_overflow_number + (IF sys.seg[s].number_used THEN 1 ELSE 0)
    BY DEF CommitStep
  <1>3. Owned(x, public, highest_overflow_number)
    BY <1>1, AtSafePoint
  <1>4. /\ x.seg[s].mine = sys.seg[s].mine /\ x.seg[s].young = {} /\ x.seg[s].with_cards = {}
        /\ x.seg[s].number_used = sys.seg[s].number_used
    BY <1>1, AtSafePoint DEF Committing
  <1>5. Owned(sys', public \union x.seg[s].mine,
              highest_overflow_number + (IF x.seg[s].number_used THEN 1 ELSE 0))
    BY <1>1, <1>3, <1>4, CommitOwned
  <1>6. Owned(sys', public', highest_overflow_number')
    BY <1>1, <1>2, <1>4, <1>5
  <1>7. ASSUME NEW t \in Segs
        PROVE  OwnPlaces(t)'
    <2>1. CASE t = s
      <3>1. sys'.seg[t].mine = {}
        BY <1>1, <2>1 DEF CommitLists
      <3> QED BY <1>1, <2>1, <3>1 DEF OwnPlaces, Committing, Idle, Pushing, Allocating
    <2>2. CASE t # s
      <3>1. SameListsBut(x, sys', t, {})
        BY <1>1, <2>2 DEF CommitLists
      <3>2. /\ sys'.seg[t].mine = x.seg[t].mine /\ sys'.seg[t].young = x.seg[t].young
            /\ sys'.seg[t].with_cards = x.seg[t].with_cards /\ Ovf(sys, t)' = Ovf(x, t)
        BY <3>1 DEF SameListsBut, ListFields, Ovf
      <3>3. pc'[t] = pc[t] /\ pc'[t].k \in Simple
        BY <1>1, <2>2 DEF Others
      <3>4. /\ ~Committing(t) => x.seg[t].mine \subseteq x.seg[t].young \union Ovf(x, t)
            /\ Committing(t) => x.seg[t].with_cards = {}
        BY <1>1, AtSafePoint
      <3> QED BY <3>2, <3>3, <3>4 DEF OwnPlaces, Committing, Simple, Allocating
    <2> QED BY <2>1, <2>2
  <1> QED BY <1>6, <1>7 DEF OwnedInv

\* A major collection.
LEMMA MajorStepOwned ==
  ASSUME BaseInv, NEW s \in Segs, MajorStepOf(s)
  PROVE  OwnedInv'
  <1>1. /\ sys' = sys \/ sys' = Major
        /\ UNCHANGED <<public, highest_overflow_number>> /\ pc'[s] = Idle /\ Others(s)
        /\ pc[s].k = "major" /\ \A t \in Segs: pc[t].k \in Simple
    BY DEF MajorStepOf
  <1>2. Owned(sys', public', highest_overflow_number')
    BY <1>1, AtSafePoint
  <1>3. ASSUME NEW t \in Segs
        PROVE  OwnPlaces(t)'
    <2>1. /\ ~Committing(t) => sys'.seg[t].mine \subseteq sys'.seg[t].young \union Ovf(sys', t)
          /\ Committing(t) => sys'.seg[t].with_cards = {}
      BY <1>1, AtSafePoint
    <2>2. pc'[t].k \in Simple /\ (Committing(t)' <=> Committing(t))
      <3>1. CASE t = s
        BY <1>1, <3>1 DEF Committing, Idle, Simple, Pushing
      <3>2. CASE t # s
        BY <1>1, <3>2 DEF Committing, Others
      <3> QED BY <3>1, <3>2
    <2>3. Ovf(sys, t)' = Ovf(sys', t)
      BY DEF Ovf
    <2> QED BY <2>1, <2>2, <2>3 DEF OwnPlaces, Simple, Allocating
  <1> QED BY <1>2, <1>3 DEF OwnedInv

\* Aborts.
LEMMA AbortStepOwned ==
  ASSUME BaseInv, NEW S, NEW x, AbortStepOf(S, x)
  PROVE  OwnedInv'
  <1>1. /\ S \in SUBSET Segs /\ (\A s \in S: pc[s].k \in Simple /\ pc'[s].k = "idle")
        /\ CopyOf(sys, x) /\ AbortLists(x, S, sys') /\ \A t \in Segs \ S: pc'[t] = pc[t]
        /\ UNCHANGED <<public, highest_overflow_number>>
    BY DEF AbortStepOf
  <1>2. Owned(sys, public, highest_overflow_number)
    BY DEF BaseInv, OwnedInv
  <1>3. Shape(x) /\ SameBut(sys, x, {"mem", "by_segment", "write_locks", "cards",
                                     "total_allocated"})
    BY <1>1 DEF CopyOf, SameBut
  <1>4. SameOwners(sys, x) /\ Owned(x, public, highest_overflow_number)
    BY <1>2, <1>3, SameListsOwned
  <1>5. Owned(sys', public, highest_overflow_number)
    BY <1>1, <1>4, AbortOwned
  <1>6. ASSUME NEW t \in Segs
        PROVE  OwnPlaces(t)'
    <2>1. CASE t \in S
      <3>1. sys'.seg[t].mine = {}
        BY <1>1, <2>1 DEF AbortLists, ListsForgotten
      <3> QED BY <1>1, <2>1, <3>1 DEF OwnPlaces, Committing, Pushing, Allocating
    <2>2. CASE t \notin S
      <3>1. SameListsBut(x, sys', t, {})
        BY <1>1, <2>2 DEF AbortLists
      <3>2. \A f \in ListFields: sys'.seg[t][f] = sys.seg[t][f]
        BY <1>4, <3>1 DEF SameListsBut, SameOwners
      <3>3. /\ sys'.seg[t].mine = sys.seg[t].mine /\ sys'.seg[t].young = sys.seg[t].young
            /\ sys'.seg[t].with_cards = sys.seg[t].with_cards /\ Ovf(sys', t) = Ovf(sys, t)
        BY <3>2 DEF ListFields, Ovf
      <3>4. sys'.number = sys.number
        BY <1>1, <1>4 DEF AbortLists, SameBut, SameOwners, Fields
      <3>5. OwnPlaces(t) /\ KeepsPlace(t)
        BY <1>1, <2>2, StandsStill DEF BaseInv, OwnedInv
      <3> QED BY <3>3, <3>4, <3>5, OwnPlaceStays
    <2> QED BY <2>1, <2>2
  <1> QED BY <1>1, <1>5, <1>6 DEF OwnedInv

\* Every step.
LEMMA OwnersKept ==
  ASSUME BaseInv, Step
  PROVE  OwnedInv'
  <1>1. CASE SameHeap /\ SameGrowth /\ UNCHANGED <<pc, highest_overflow_number>>
    BY <1>1, StandsStill, QuietOwned DEF SameHeap
  <1>2. CASE \E s \in Segs: OnTheWay(s)
    <2>1. PICK s \in Segs: OnTheWay(s)
      BY <1>2
    <2>2. ASSUME NEW t \in Segs
          PROVE  KeepsPlace(t)
      <3>1. CASE t # s
        BY <2>1, <3>1, StandsStill DEF OnTheWay, Others
      <3>2. CASE t = s
        BY <2>1, <3>2 DEF OnTheWay, KeepsPlace, Committing, Allocating, Pushing
      <3> QED BY <3>1, <3>2
    <2> QED BY <2>1, <2>2, QuietOwned DEF OnTheWay, SameHeap
  <1> QED BY <1>1, <1>2, WritesOwned, LockTakenOwned, PrivatizingOwned, AllocateOwned,
             MadeOwned, PopRootOwned, UnlinkOwned, MinorStepOwned, PushingOwned,
             CommitStepOwned, MajorStepOwned, AbortStepOwned DEF Step

-----------------------------------------------------------------------------
(* Every step keeps the records of pc in order.                            *)

\* A thread that does not move while its lists get no shorter.
LEMMA PlacedStays ==
  ASSUME NEW t \in Segs, Placed(t), pc'[t] = pc[t],
         sys.seg[t].modified \subseteq sys'.seg[t].modified,
         sys.seg[t].mine \subseteq sys'.seg[t].mine, Ovf(sys, t) \subseteq Ovf(sys', t)
  PROVE  Placed(t)'
  <1>1. Ovf(sys, t)' = Ovf(sys', t)
    BY DEF Ovf
  <1> QED BY <1>1 DEF Placed

\* A thread that does not move and whose lists do not change.
LEMMA PlacedSame ==
  ASSUME NEW t \in Segs, Placed(t), pc'[t] = pc[t],
         \A f \in ListFields: sys'.seg[t][f] = sys.seg[t][f]
  PROVE  Placed(t)'
  BY PlacedStays DEF ListFields, Ovf

\* A thread that neither privatizes pages nor pushes objects.
LEMMA PlacedElsewhere ==
  ASSUME NEW t \in Segs, pc'[t].k \in Simple \union Allocating
  PROVE  Placed(t)'
  BY DEF Placed, Simple, Allocating, Privatizing, Pushing

\* A step of one thread, which ends up elsewhere.
LEMMA OneMoves ==
  ASSUME PlacedInv, NEW s \in Segs, \A t \in Segs \ {s}: pc'[t] = pc[t], Placed(s)',
         \A t \in Segs \ {s}: \A f \in ListFields: sys'.seg[t][f] = sys.seg[t][f]
  PROVE  PlacedInv'
  <1>1. ASSUME NEW t \in Segs
        PROVE  Placed(t)'
    <2>1. Placed(t)
      BY DEF PlacedInv
    <2>2. CASE t # s
      <3>1. pc'[t] = pc[t] /\ \A f \in ListFields: sys'.seg[t][f] = sys.seg[t][f]
        BY <2>2
      <3> QED BY <2>1, <3>1, PlacedSame
    <2> QED BY <2>2
  <1> QED BY <1>1 DEF PlacedInv

\* Writing.
LEMMA WritesPlaced ==
  ASSUME PlacedInv, NEW s \in Segs, NEW o, NEW c, NEW card, NEW x,
         DirectWrite(s, o, c) \/ BarrierWrite(s, o, c, card, x)
  PROVE  PlacedInv'
  <1>1. \A t \in Segs \ {s}: pc'[t] = pc[t]
    BY DEF DirectWrite, BarrierWrite, Others
  <1>2. Placed(s)'
    <2>1. pc'[s].k = "idle"
      BY DEF DirectWrite, BarrierWrite, Running, Idle
    <2> QED BY <2>1, PlacedElsewhere DEF Simple
  <1>3. ASSUME NEW t \in Segs \ {s}
        PROVE  \A f \in ListFields: sys'.seg[t][f] = sys.seg[t][f]
    <2>1. CASE DirectWrite(s, o, c)
      BY <2>1 DEF DirectWrite, WriteStep, SameBut, Fields
    <2>2. CASE BarrierWrite(s, o, c, card, x)
      <3>1. sys'.seg = x.seg
        BY <2>2 DEF BarrierWrite, WriteStep, SameBut, Fields
      <3>2. SameListsBut(sys, x, t, {})
        BY <2>2 DEF BarrierWrite, BarrierLists
      <3> QED BY <3>1, <3>2 DEF SameListsBut
    <2> QED BY <2>1, <2>2
  <1> QED BY <1>1, <1>2, <1>3, OneMoves

\* Taking a write lock.
LEMMA LockTakenPlaced ==
  ASSUME PlacedInv, NEW s \in Segs, NEW o \in Objs, NEW c \in Cells(o), NEW card,
         LockTakenStep(s, o, c, card)
  PROVE  PlacedInv'
  <1>1. \A t \in Segs \ {s}: pc'[t] = pc[t]
    BY DEF LockTakenStep, Others
  <1>2. \A t \in Segs \ {s}: \A f \in ListFields: sys'.seg[t][f] = sys.seg[t][f]
    BY DEF LockTakenStep, OneList, SameListsBut
  <1>3. Placed(s)'
    <2>1. /\ {"o", "c", "card", "todo", "total", "page"} \subseteq DOMAIN pc'[s]
          /\ pc'[s].k = "page" /\ pc'[s].o = o /\ pc'[s].c = c /\ pc'[s].card = card
          /\ pc'[s].todo \in Seq(1..NB_PAGES)
          /\ o \in sys'.seg[s].modified /\ card \in BOOLEAN /\ (card => o \in UsesCards)
      BY DEF LockTakenStep
    <2> QED BY <2>1 DEF Placed, Privatizing, Pushing
  <1> QED BY <1>1, <1>2, <1>3, OneMoves

\* Privatizing pages.
LEMMA PrivatizingPlaced ==
  ASSUME PlacedInv, NEW s \in Segs, PrivatizingStep(s)
  PROVE  PlacedInv'
  <1>1. \A t \in Segs \ {s}: pc'[t] = pc[t]
    BY DEF PrivatizingStep, QuietPrivatizing, BitSet, PageRead, PageWritten, Moved, Others
  <1>2. sys'.seg = sys.seg
    BY DEF PrivatizingStep, QuietPrivatizing, BitSet, PageRead, PageWritten, SameBut, Fields
  <1>3. pc[s].k \in Privatizing /\ Placed(s)
    BY DEF PlacedInv, PrivatizingStep, QuietPrivatizing, BitSet, PageRead, PageWritten,
           Privatizing
  <1>4. PICK k \in Privatizing, todo \in {pc[s].todo, Tail(pc[s].todo)}:
          Moved(s, k, todo) /\ (todo = pc[s].todo \/ k = "page")
                            /\ (k # "page" => pc[s].todo # <<>>)
    BY <1>3 DEF PrivatizingStep, QuietPrivatizing, BitSet, PageRead, PageWritten, Privatizing,
                Placed
  <1>5. Placed(s)'
    <2>1. pc[s].todo \in Seq(1..NB_PAGES) /\ (todo # pc[s].todo => pc[s].todo # <<>>)
      <3>1. pc[s].todo = <<>> => PageRead(s) \/ PageWritten(s) \/ BitSet(s) \/ pc[s].k # "page"
        BY DEF PrivatizingStep, QuietPrivatizing
      <3> QED BY <1>3, <3>1 DEF Placed, PageRead, PageWritten, BitSet
    <2>2. todo \in Seq(1..NB_PAGES)
      <3>1. CASE pc[s].todo # <<>>
        BY <1>4, <2>1, <3>1, HeadTailProperties
      <3> QED BY <1>4, <2>1, <3>1
    <2>3. /\ DOMAIN pc'[s] = DOMAIN pc[s] /\ pc'[s].k = k /\ pc'[s].todo = todo
          /\ pc'[s].o = pc[s].o /\ pc'[s].c = pc[s].c /\ pc'[s].card = pc[s].card
      BY <1>4 DEF Moved
    <2>4. k \notin Pushing
      BY <1>4 DEF Privatizing, Pushing
    <2> QED BY <1>2, <1>3, <1>4, <2>2, <2>3, <2>4 DEF Placed
  <1> QED BY <1>1, <1>2, <1>5, OneMoves

\* Allocating and forgetting.
LEMMA ObjectsPlaced ==
  ASSUME PlaceInv, PlacedInv, NEW s \in Segs, NEW o,
         AllocateStep(s, o) \/ OnTheWay(s) \/ Made(s) \/ PopRootStep(s, o)
  PROVE  PlacedInv'
  <1>1. \A t \in Segs \ {s}: pc'[t] = pc[t]
    BY DEF AllocateStep, OnTheWay, Made, PopRootStep, Others
  <1>2. Placed(s)'
    <2>1. pc'[s].k \in Simple \union Allocating
      BY DEF AllocateStep, OnTheWay, Made, PopRootStep, Idle, Running, Simple, Allocating
    <2> QED BY <2>1, PlacedElsewhere
  <1>3. \A t \in Segs \ {s}: \A f \in ListFields: sys'.seg[t][f] = sys.seg[t][f]
    <2>1. CASE AllocateStep(s, o) \/ OnTheWay(s)
      <3>1. sys'.seg = sys.seg
        BY <2>1 DEF AllocateStep, OnTheWay, SameHeap, SameBut, Fields
      <3> QED BY <3>1
    <2>2. CASE Made(s) \/ PopRootStep(s, o)
      BY <2>2 DEF Made, PopRootStep, OneList, SameListsBut
    <2> QED BY <2>1, <2>2
  <1> QED BY <1>1, <1>2, <1>3, OneMoves

\* Minor collections, and pushing objects.
LEMMA EndingPlaced ==
  ASSUME PlacedInv, NEW s \in Segs, NEW o, NEW commit, Owned(sys, public, highest_overflow_number),
         MinorStepOf(s, commit) \/ PushWaits(s) \/ ObjectPushed(s, o)
  PROVE  PlacedInv'
  <1>1. \A t \in Segs \ {s}: pc'[t] = pc[t]
    BY DEF MinorStepOf, PushWaits, ObjectPushed, Others
  <1>2. CASE PushWaits(s) \/ ObjectPushed(s, o)
    <2>1. sys'.seg = sys.seg
      BY <1>2 DEF PushWaits, ObjectPushed, SameHeap, SameBut, Fields
    <2>2. Placed(s) /\ pc[s].k \in Pushing
      BY <1>2 DEF PlacedInv, PushWaits, ObjectPushed, Pushing
    <2>3. \/ pc'[s].k = "commit"
          \/ /\ pc'[s].k = "pushing" /\ "todo" \in DOMAIN pc'[s]
             /\ pc'[s].todo \subseteq pc[s].todo
      BY <1>2 DEF PushWaits, ObjectPushed
    <2>4. Placed(s)'
      <3>1. CASE pc'[s].k = "commit"
        BY <3>1, PlacedElsewhere DEF Simple
      <3>2. CASE pc'[s].k # "commit"
        <4>1. pc'[s].k = "pushing" /\ "todo" \in DOMAIN pc'[s] /\ pc'[s].todo \subseteq pc[s].todo
          BY <2>3, <3>2
        <4>2. pc[s].todo \subseteq sys.seg[s].mine \union Ovf(sys, s)
          BY <2>2 DEF Placed
        <4>3. sys'.seg[s].mine = sys.seg[s].mine /\ Ovf(sys, s)' = Ovf(sys, s)
          BY <2>1 DEF Ovf
        <4>4. pc'[s].k \notin Privatizing
          BY <4>1 DEF Privatizing
        <4> QED BY <4>1, <4>2, <4>3, <4>4 DEF Placed
      <3> QED BY <3>1, <3>2
    <2> QED BY <1>1, <2>1, <2>4, OneMoves
  <1>3. CASE MinorStepOf(s, commit)
    <2>1. MinorLists(sys, {s}, commit, sys') /\ commit \in BOOLEAN
      BY <1>3 DEF MinorStepOf
    <2>2. \A t \in Segs \ {s}: \A f \in ListFields: sys'.seg[t][f] = sys.seg[t][f]
      <3>1. ASSUME NEW t \in Segs \ {s}
            PROVE  SameListsBut(sys, sys', t, {})
        BY <2>1 DEF MinorLists
      <3> QED BY <3>1 DEF SameListsBut
    <2>3. CASE commit
      <3>1. MinorOwners(sys, {s}, commit, sys')
        BY <2>1, MinorOwnersEffect
      <3>2. sys'.seg[s].mine = sys.seg[s].mine /\ Ovf(sys', s) = Ovf(sys, s)
        BY <2>3, <3>1 DEF MinorOwners
      <3>3. /\ pc'[s].k = "push" /\ "todo" \in DOMAIN pc'[s]
            /\ pc'[s].todo = Alive(sys, s) \union Ovf(sys, s)
        BY <1>3, <2>3 DEF MinorStepOf
      <3>4. Ovf(sys, s)' = Ovf(sys', s)
        BY DEF Ovf
      <3>5. Placed(s)'
        BY <3>2, <3>3, <3>4 DEF Placed, Alive, Privatizing
      <3> QED BY <1>1, <2>2, <3>5, OneMoves
    <2>4. CASE ~commit
      <3>1. Placed(s)'
        BY <1>3, <2>4, PlacedElsewhere DEF MinorStepOf, Simple
      <3> QED BY <1>1, <2>2, <3>1, OneMoves
    <2> QED BY <2>1, <2>3, <2>4
  <1> QED BY <1>2, <1>3

\* Commits, major collections and aborts.
LEMMA AlonePlaced ==
  ASSUME PlacedInv, NEW s \in Segs, NEW S, NEW x,
         CommitStep(s, x) \/ MajorStepOf(s) \/ AbortStepOf(S, x)
  PROVE  PlacedInv'
  <1>1. CASE CommitStep(s, x) \/ MajorStepOf(s)
    <2>1. ASSUME NEW t \in Segs
          PROVE  pc'[t].k \in Simple
      BY <1>1 DEF CommitStep, MajorStepOf, Idle, Simple, Others
    <2> QED BY <2>1, PlacedElsewhere DEF PlacedInv
  <1>2. CASE AbortStepOf(S, x)
    <2>1. ASSUME NEW t \in Segs
          PROVE  Placed(t)'
      <3>1. CASE t \in S
        BY <1>2, <3>1, PlacedElsewhere DEF AbortStepOf, Simple
      <3>2. CASE t \notin S
        <4>1. pc'[t] = pc[t] /\ SameListsBut(x, sys', t, {}) /\ x.seg = sys.seg
          BY <1>2, <3>2 DEF AbortStepOf, AbortLists, CopyOf, SameBut, Fields
        <4> QED BY <4>1, PlacedSame DEF PlacedInv, SameListsBut
      <3> QED BY <3>1, <3>2
    <2> QED BY <2>1 DEF PlacedInv
  <1> QED BY <1>1, <1>2

\* Every step.
LEMMA PlacedKept ==
  ASSUME BaseInv, Step
  PROVE  PlacedInv'
  <1>1. PlaceInv /\ PlacedInv /\ Owned(sys, public, highest_overflow_number)
    BY DEF BaseInv, OwnedInv
  <1>2. CASE SameHeap /\ SameGrowth /\ UNCHANGED <<pc, highest_overflow_number>>
    BY <1>1, <1>2 DEF SameHeap, PlacedInv, Placed, Ovf
  <1>3. CASE \E o: UnlinkStep(o)
    BY <1>1, <1>3 DEF UnlinkStep, PlacedInv, Placed, Ovf
  <1>4. CASE \E s \in Segs: \E o: \E c: DirectWrite(s, o, c)
    BY <1>1, <1>4, WritesPlaced
  <1>5. CASE \E s \in Segs: \E o: \E c: \E card: \E x: BarrierWrite(s, o, c, card, x)
    BY <1>1, <1>5, WritesPlaced
  <1>6. CASE \/ \E s \in Segs: \E o: AllocateStep(s, o)
             \/ \E s \in Segs: OnTheWay(s)
             \/ \E s \in Segs: Made(s)
             \/ \E s \in Segs: \E o: PopRootStep(s, o)
    BY <1>1, <1>6, ObjectsPlaced
  <1>7. CASE \/ \E s \in Segs: \E commit: MinorStepOf(s, commit)
             \/ \E s \in Segs: PushWaits(s)
             \/ \E s \in Segs: \E o: ObjectPushed(s, o)
    BY <1>1, <1>7, EndingPlaced
  <1>8. CASE \E s \in Segs: \E x: CommitStep(s, x)
    BY <1>1, <1>8, AlonePlaced
  <1>9. CASE \E s \in Segs: MajorStepOf(s)
    BY <1>1, <1>9, AlonePlaced
  <1>10. CASE \E S: \E x: AbortStepOf(S, x)
    <2>1. CASE Segs = {}
      BY <2>1 DEF PlacedInv
    <2>2. CASE Segs # {}
      <3>1. PICK s \in Segs: TRUE
        BY <2>2
      <3> QED BY <1>1, <1>10, <3>1, AlonePlaced
    <2> QED BY <2>1, <2>2
  <1>11. CASE \E s \in Segs: PrivatizingStep(s)
    BY <1>1, <1>11, PrivatizingPlaced
  <1>12. CASE \E s \in Segs: \E o \in Objs: \E c \in Cells(o): \E card: LockTakenStep(s, o, c, card)
    BY <1>1, <1>12, LockTakenPlaced
  <1> QED BY <1>1, <1>2, <1>3, <1>4, <1>5, <1>6, <1>7, <1>8, <1>9, <1>10, <1>11, <1>12 DEF Step

\* Only the making of an object changes the range of pages in use.
LEMMA GrowthSteps ==
  ASSUME Step
  PROVE  \/ SameGrowth
         \/ \E s \in Segs: OnTheWay(s)
                            /\ uninitialized_page_start' = uninitialized_page_start
         \/ \E s \in Segs: Made(s)
  <1>1. CASE \/ \E s \in Segs: \E o: \E c: DirectWrite(s, o, c)
             \/ \E s \in Segs: \E o: \E c: \E card: \E x: BarrierWrite(s, o, c, card, x)
    BY <1>1 DEF DirectWrite, BarrierWrite, WriteStep
  <1>2. CASE \E s \in Segs: \E o \in Objs: \E c \in Cells(o): \E card: LockTakenStep(s, o, c, card)
    BY <1>2 DEF LockTakenStep
  <1>3. CASE \/ \E s \in Segs: PrivatizingStep(s)
             \/ \E s \in Segs: \E o: AllocateStep(s, o)
    BY <1>3 DEF PrivatizingStep, AllocateStep
  <1>4. CASE \E s \in Segs: OnTheWay(s)
    BY <1>4 DEF OnTheWay
  <1>5. CASE \/ \E s \in Segs: \E o: PopRootStep(s, o)
             \/ \E o: UnlinkStep(o)
             \/ \E s \in Segs: \E commit: MinorStepOf(s, commit)
    BY <1>5 DEF PopRootStep, UnlinkStep, MinorStepOf
  <1>6. CASE \/ \E s \in Segs: PushWaits(s)
             \/ \E s \in Segs: \E o: ObjectPushed(s, o)
    BY <1>6 DEF PushWaits, ObjectPushed
  <1>7. CASE \/ \E s \in Segs: \E x: CommitStep(s, x)
             \/ \E s \in Segs: MajorStepOf(s)
             \/ \E S: \E x: AbortStepOf(S, x)
    BY <1>7 DEF CommitStep, MajorStepOf, AbortStepOf
  <1> QED BY <1>1, <1>2, <1>3, <1>4, <1>5, <1>6, <1>7 DEF Step

\* And the pages that are mapped are counted.
LEMMA BaseKept ==
  ASSUME PagesAssumption, BaseInv, [Next]_vars, (PlaceInv /\ LockInv /\ PagesInv)'
  PROVE  BaseInv' /\ Step
  <1>1. Step /\ ContentsInv'
    BY StepsTaken
  <1>2. OwnedInv' /\ PlacedInv'
    BY <1>1, OwnersKept, PlacedKept
  <1>3. uninitialized_page_start' \in Nat
    <2>1. uninitialized_page_start \in Nat /\ GCPAGE_NUM_PAGES \in Nat
      BY DEF BaseInv, PagesAssumption
    <2>3. CASE \E s \in Segs: Made(s)
      <3>1. PICK s \in Segs: Made(s)
        BY <2>3
      <3>2. pc[s].o \in Objs
        BY <3>1 DEF Made, BaseInv, OwnedInv, OwnPlaces
      <3>3. LastPage(pc[s].o) \in 1..NB_PAGES
        <4>1. Len(Layout[pc[s].o]) \in Cells(pc[s].o)
          <5>1. Layout[pc[s].o] \in Seq(1..NB_PAGES) /\ Layout[pc[s].o] # <<>>
            BY <3>2 DEF PagesAssumption
          <5> QED BY <5>1, LenProperties DEF Cells
        <4> QED BY <3>2, <4>1, CellPages DEF LastPage
      <3>4. uninitialized_page_start' \in
              {uninitialized_page_start, LastPage(pc[s].o) + 1 + GCPAGE_NUM_PAGES}
        BY <3>1 DEF Made
      <3> QED BY <2>1, <3>3, <3>4
    <2>4. CASE ~ \E s \in Segs: Made(s)
      <3>1. uninitialized_page_start' = uninitialized_page_start
        BY <1>1, <2>4, GrowthSteps DEF SameGrowth
      <3> QED BY <2>1, <3>1
    <2> QED BY <2>3, <2>4
  <1> QED BY <1>1, <1>2, <1>3 DEF BaseInv

\* At the start.
LEMMA BaseInit ==
  ASSUME PagesAssumption, Init, PlaceInv, LockInv, PagesInv
  PROVE  BaseInv
  <1> DEFINE g(s) == [modified |-> {}, pointing |-> NULL, with_cards |-> {},
                      overflow |-> NULL, young |-> {}, open |-> {},
                      cards_set |-> {}, mine |-> {}, plain |-> {},
                      overflow_number |-> s, number_used |-> FALSE]
  <1>1. /\ DOMAIN sys.mem = 0..NB_SEGMENTS
        /\ \A t \in 0..NB_SEGMENTS: DOMAIN sys.mem[t] = Objs
        /\ DOMAIN sys.by_segment = 1..NB_PAGES
        /\ \A p \in 1..NB_PAGES: sys.by_segment[p] = {}
        /\ DOMAIN sys.cards = Objs
        /\ \A o \in Objs: DOMAIN sys.cards[o] = Cells(o)
        /\ DOMAIN sys.number = Objs
    BY DEF Init, AllCards
  <1>2. /\ \A o \in Objs: sys.number[o] = 0
        /\ \A s \in Segs: sys.seg[s] = g(s)
    <2>1. \A o \in Objs: sys.number[o] = 0
      BY DEF Init
    <2>2. \A s \in Segs: sys.seg[s] = g(s)
      BY DEF Init
    <2> QED BY <2>1, <2>2
  <1>3. ASSUME NEW s \in Segs
        PROVE  /\ sys.seg[s].modified = {} /\ sys.seg[s].pointing = NULL
               /\ sys.seg[s].with_cards = {} /\ sys.seg[s].overflow = NULL
               /\ sys.seg[s].young = {} /\ sys.seg[s].open = {} /\ sys.seg[s].cards_set = {}
               /\ sys.seg[s].mine = {} /\ sys.seg[s].plain = {}
               /\ sys.seg[s].overflow_number = s /\ sys.seg[s].number_used = FALSE
    <2>1. sys.seg[s] = g(s)
      BY <1>2
    <2> QED BY ONLY <2>1
  <1> HIDE DEF g
  <1>4. Shape(sys)
    <2>1. IsHeap(sys)
      BY DEF PagesInv, ListInv
    <2> QED BY <1>1, <1>3, <2>1 DEF Shape
  <1>5. /\ highest_overflow_number = NB_SEGMENTS /\ public = Prebuilt
        /\ pc = [s \in Segs |-> Idle]
        /\ committed = [o \in Objs |-> Zeroes(o)]
        /\ own = [s \in Segs |-> [o \in Objs |-> Zeroes(o)]]
    BY DEF Init
  <1>6. \A s \in Segs: Num(sys, s) = s /\ Ovf(sys, s) = {}
    BY <1>3 DEF Num, Ovf
  <1>7. NumbersInv(sys, highest_overflow_number)
    <2>1. NB_SEGMENTS \in Nat
      BY DEF PagesAssumption
    <2> QED BY ONLY <1>2, <1>3, <1>5, <1>6, <2>1 DEF NumbersInv, Segs
  <1>8. \A o \in Objs: OwnerInv(sys, public, o)
    <2>1. \A s \in Segs: s # 0
      BY DEF Segs
    <2> QED BY ONLY <1>2, <1>3, <1>6, <2>1 DEF OwnerInv
  <1>9. \A s \in Segs: OpenInv(sys, s)
    BY <1>3, <1>6 DEF OpenInv
  <1>10. \A s \in Segs: pc[s].k = "idle"
    BY <1>5 DEF Idle
  <1>11. OwnedInv /\ PlacedInv
    BY <1>3, <1>4, <1>7, <1>8, <1>9, <1>10 DEF OwnedInv, Owned, OwnPlaces, PlacedInv, Placed,
       Committing, Pushing, Allocating, Privatizing
  <1>12. ContentsInv
    BY <1>5 DEF ContentsInv, IsContents, Zeroes, PagesAssumption
  <1>13. uninitialized_page_start \in Nat
    <2> DEFINE T == {LastPage(o): o \in Prebuilt}
    <2>1. T \in SUBSET (0..NB_PAGES) /\ T # {} /\ NB_PAGES \in Nat
      <3>1. ASSUME NEW o \in Prebuilt
            PROVE  LastPage(o) \in 0..NB_PAGES
        <4>1. o \in Objs /\ Layout[o] \in Seq(1..NB_PAGES) /\ Layout[o] # <<>>
          BY DEF PagesAssumption
        <4>2. Len(Layout[o]) \in Cells(o)
          BY <4>1, LenProperties DEF Cells
        <4> QED BY <4>1, <4>2, CellPages DEF LastPage
      <3> QED BY <3>1 DEF PagesAssumption
    <2> HIDE DEF T
    <2>2. \E x \in T: \A y \in T: y <= x
      BY <2>1, Greatest
    <2>3. \E x \in T: \A y \in T: x >= y
      BY <2>1, <2>2
    <2>4. Max(T) \in T
      BY ONLY <2>3 DEF Max
    <2>5. uninitialized_page_start = Max(T) + 1
      BY DEF Init, T
    <2>6. Max(T) \in Nat
      <3>1. \A x \in T: x \in Nat
        BY ONLY <2>1
      <3> QED BY ONLY <2>4, <3>1, Zenon
    <2> QED BY ONLY <2>5, <2>6
  <1> QED BY <1>11, <1>12, <1>13 DEF BaseInv

\* All of this holds throughout.
LEMMA BaseInvariant ==
  ASSUME PagesAssumption
  PROVE  Spec => []BaseInv
  <1>1. NB_SEGMENTS \in Nat
    BY DEF PagesAssumption
  <1>2. ASSUME Init, PlaceInv, LockInv, PagesInv
        PROVE  BaseInv
    BY <1>2, BaseInit
  <1>3. ASSUME BaseInv, [Next]_vars, PlaceInv', LockInv', PagesInv'
        PROVE  BaseInv'
    BY <1>3, BaseKept
  <1>4. Spec => [](PlaceInv /\ LockInv)
    BY <1>1, LockInvariant
  <1>5. Spec => []PagesInv
    BY <1>1, ListInvariant
  <1> QED BY <1>2, <1>3, <1>4, <1>5, PTL DEF Spec

=============================================================================
