----------------------------- MODULE PagesAgree -----------------------------
(* What every segment of Pages sees, for any number of segments, objects   *)
(* and pages: its own changes, and of all other objects the last committed *)
(* version.  Three invariants lead there: which pages are private, what    *)
(* the cards say about changed cells, and where each version is in memory. *)
EXTENDS PagesOwners

-----------------------------------------------------------------------------
(* Private pages.                                                          *)

Private(x, s, o, c) == s \in x.by_segment[Layout[o][c]]

\* The thread will still come to the page of a cell.
Awaited(s, o, c) ==
  pc[s].k \in Privatizing /\ pc[s].o = o /\ Layout[o][c] \in Range(pc[s].todo)

\* An object that a transaction has modified is all in private pages, but for
\* the pages that the thread is privatizing.
PrivateAt(s) ==
  /\ pc[s].k \in {"lock", "bit"} => s \notin sys.by_segment[Head(pc[s].todo)]
  /\ pc[s].k \in {"read", "copy", "unlock"} => s \in sys.by_segment[Head(pc[s].todo)]
  /\ \A o \in sys.seg[s].modified: \A c \in Cells(o):
       Private(sys, s, o, c) \/ Awaited(s, o, c)

\* What is private, in every segment.
PrivateInv == \A s \in Segs: PrivateAt(s)

\* The first of a sequence and the others.
LEMMA HeadAndTail ==
  ASSUME NEW S, NEW list \in Seq(S), list # <<>>
  PROVE  /\ Head(list) \in S /\ Head(list) \in Range(list) /\ Tail(list) \in Seq(S)
         /\ \A p \in Range(list): p = Head(list) \/ p \in Range(Tail(list))
  <1>1. Head(list) = list[1] /\ Len(list) \in Nat \ {0} /\ DOMAIN list = 1..Len(list)
    BY HeadTailProperties, LenProperties, EmptySeq
  <1>2. /\ Tail(list) \in Seq(S) /\ Len(Tail(list)) = Len(list) - 1
        /\ \A i \in 1..Len(Tail(list)): Tail(list)[i] = list[i + 1]
    BY HeadTailProperties
  <1>3. DOMAIN Tail(list) = 1..(Len(list) - 1)
    BY <1>2, LenProperties
  <1>4. ASSUME NEW p \in Range(list), p # Head(list)
        PROVE  p \in Range(Tail(list))
    <2>1. PICK i \in 1..Len(list): p = list[i]
      BY <1>1 DEF Range
    <2>2. i # 1 /\ i - 1 \in 1..(Len(list) - 1) /\ (i - 1) + 1 = i
      BY <1>1, <1>4, <2>1
    <2>3. Tail(list)[i - 1] = p
      BY <1>2, <2>1, <2>2
    <2> QED BY <1>3, <2>2, <2>3 DEF Range
  <1>5. Head(list) \in S /\ Head(list) \in Range(list)
    BY <1>1 DEF Range
  <1> QED BY <1>2, <1>4, <1>5

\* A thread that does not move and loses no private page.
LEMMA PrivateKeeps ==
  ASSUME NEW t \in Segs, PrivateAt(t), pc'[t] = pc[t],
         sys'.seg[t].modified = sys.seg[t].modified,
         \A p: t \in sys'.by_segment[p] <=> t \in sys.by_segment[p]
  PROVE  PrivateAt(t)'
  BY DEF PrivateAt, Private, Awaited

\* Privatizing pages.
LEMMA PrivatizingPrivate ==
  ASSUME BaseInv, PrivateInv, NEW s \in Segs, PrivatizingStep(s)
  PROVE  PrivateInv'
  <1>1. \A t \in Segs \ {s}: pc'[t] = pc[t]
    BY DEF PrivatizingStep, QuietPrivatizing, BitSet, PageRead, PageWritten, Moved, Others
  <1>2. sys'.seg = sys.seg
    BY DEF PrivatizingStep, QuietPrivatizing, BitSet, PageRead, PageWritten, SameBut, Fields
  <1>3. pc[s].k \in Privatizing /\ Placed(s) /\ PrivateAt(s)
    BY DEF BaseInv, PlacedInv, PrivateInv, PrivatizingStep, QuietPrivatizing, BitSet, PageRead,
           PageWritten, Privatizing
  <1>4. pc[s].todo \in Seq(1..NB_PAGES) /\ pc[s].todo # <<>>
    BY <1>3 DEF Placed, PrivatizingStep, QuietPrivatizing, BitSet, PageRead, PageWritten
  <1> DEFINE first == Head(pc[s].todo)
             rest == Tail(pc[s].todo)
  <1>5. /\ first \in 1..NB_PAGES
        /\ \A p \in Range(pc[s].todo): p = first \/ p \in Range(rest)
    BY <1>4, HeadAndTail
  <1>6. sys'.by_segment = sys.by_segment \/ BitSet(s)
    BY DEF PrivatizingStep, QuietPrivatizing, PageRead, PageWritten, SameBut, Fields
  <1>7. DOMAIN sys.by_segment = 1..NB_PAGES
    BY DEF BaseInv, OwnedInv, Owned, Shape
  <1>8. \A p \in 1..NB_PAGES: /\ sys.by_segment[p] \subseteq sys'.by_segment[p]
                              /\ \A t \in Segs \ {s}: t \in sys'.by_segment[p]
                                                        <=> t \in sys.by_segment[p]
    BY <1>6 DEF BitSet
  <1>9. \A o \in Objs: \A c \in Cells(o): Layout[o][c] \in 1..NB_PAGES
    BY CellPages
  <1>10. ASSUME NEW t \in Segs
         PROVE  PrivateAt(t)'
    <2>1. CASE t # s
      <3>1. PrivateAt(t) /\ Placed(t) /\ pc'[t] = pc[t] /\ sys.seg[t].modified \subseteq Objs
        BY <1>1, <2>1 DEF PrivateInv, BaseInv, OwnedInv, Owned, OpenInv, PlacedInv
      <3>2. pc[t].k \in {"lock", "bit", "read", "copy", "unlock"} =>
              Head(pc[t].todo) \in 1..NB_PAGES
        <4>1. pc[t].k \in {"lock", "bit", "read", "copy", "unlock"} =>
                pc[t].todo \in Seq(1..NB_PAGES) /\ pc[t].todo # <<>>
          BY <3>1 DEF Placed, Privatizing
        <4> QED BY <4>1, HeadAndTail
      <3> QED BY <1>2, <1>8, <1>9, <2>1, <3>1, <3>2 DEF PrivateAt, Private, Awaited
    <2>2. CASE t = s
      <3>1. \A o \in sys.seg[s].modified: \A c \in Cells(o):
              Private(sys, s, o, c) \/ (pc[s].o = o /\ Layout[o][c] \in Range(pc[s].todo))
        BY <1>3 DEF PrivateAt, Awaited
      <3>2. sys.seg[s].modified \subseteq Objs
        BY DEF BaseInv, OwnedInv, Owned, OpenInv
      <3>3. \A o \in sys.seg[s].modified: \A c \in Cells(o):
              Private(sys, s, o, c) => Private(sys', s, o, c)
        BY <1>8, <1>9, <3>2 DEF Private
      <3>4. CASE BitSet(s)
        <4>1. s \in sys'.by_segment[first] /\ Moved(s, "read", pc[s].todo)
          BY <1>5, <3>4 DEF BitSet
        <4> QED BY <1>2, <2>2, <3>1, <3>3, <4>1 DEF PrivateAt, Private, Awaited, Moved, Privatizing
      <3>5. CASE sys'.by_segment = sys.by_segment /\ ~BitSet(s)
        <4>1. CASE \E k \in Privatizing: Moved(s, k, pc[s].todo)
                     /\ (k \in {"lock", "bit"} => pc[s].k \in {"lock", "bit"}
                                                  \/ s \notin sys.by_segment[first])
                     /\ (k \in {"read", "copy", "unlock"} =>
                           pc[s].k \in {"read", "copy", "unlock"})
          <5>1. PICK k \in Privatizing: /\ Moved(s, k, pc[s].todo)
                     /\ (k \in {"lock", "bit"} => pc[s].k \in {"lock", "bit"}
                                                  \/ s \notin sys.by_segment[first])
                     /\ (k \in {"read", "copy", "unlock"} =>
                           pc[s].k \in {"read", "copy", "unlock"})
            BY <4>1
          <5>2. pc'[s].k = k /\ pc'[s].todo = pc[s].todo /\ pc'[s].o = pc[s].o
            BY <5>1 DEF Moved
          <5>3. /\ k \in {"lock", "bit"} => s \notin sys.by_segment[first]
                /\ k \in {"read", "copy", "unlock"} => s \in sys.by_segment[first]
            BY <1>3, <5>1 DEF PrivateAt
          <5> QED BY <1>2, <2>2, <3>1, <3>5, <5>2, <5>3 DEF PrivateAt, Private, Awaited
        <4>2. CASE Moved(s, "page", rest) /\ s \in sys.by_segment[first]
          <5>1. pc'[s].k = "page" /\ pc'[s].todo = rest /\ pc'[s].o = pc[s].o
            BY <4>2 DEF Moved
          <5>2. \A o \in sys.seg[s].modified: \A c \in Cells(o):
                  Private(sys, s, o, c) \/ (pc[s].o = o /\ Layout[o][c] \in Range(rest))
            BY <1>5, <3>1, <4>2 DEF Private
          <5> QED BY <1>2, <2>2, <3>5, <5>1, <5>2 DEF PrivateAt, Private, Awaited, Privatizing
        <4>4. CASE QuietPrivatizing(s)
          <5>1. pc[s].k = "unlock" => s \in sys.by_segment[first]
            BY <1>3 DEF PrivateAt
          <5> QED BY <4>1, <4>2, <4>4, <5>1 DEF QuietPrivatizing, Privatizing
        <4>5. CASE PageRead(s) \/ PageWritten(s)
          BY <4>1, <4>5 DEF PageRead, PageWritten, Privatizing
        <4> QED BY <3>5, <4>4, <4>5 DEF PrivatizingStep
      <3> QED BY <1>6, <3>4, <3>5
    <2> QED BY <2>1, <2>2
  <1> QED BY <1>10 DEF PrivateInv

\* The overflow objects, old and new, whose cell is in a page that a major
\* collection shares again.
Moving(o, c) ==
  {s \in Segs: /\ o \in Ovf(sys, s) \union Alive(sys, s) /\ Private(sys, s, o, c)
               /\ Layout[o][c] \notin ModifiedPages(sys, s)}

\* Pages stay private where they hold a modified object.
MajorPages(y) ==
  \A o \in Objs: \A c \in Cells(o):
    /\ \A t \in Segs:
         /\ Private(y, t, o, c) <=> Layout[o][c] \in ModifiedPages(sys, t)
         /\ Private(y, t, o, c) => y.mem[t][o][c] = sys.mem[t][o][c]
    /\ IF Moving(o, c) = {} THEN y.mem[0][o][c] = sys.mem[0][o][c]
       ELSE \E s \in Moving(o, c): y.mem[0][o][c] = sys.mem[s][o][c]

\* The pages after a major collection.
LEMMA MajorMemory ==
  ASSUME BaseInv
  PROVE  MajorPages(Major)
  <1>1. Owned(sys, public, highest_overflow_number) /\ ListInv(sys, public)
    BY DEF BaseInv, OwnedInv, PagesInv
  <1>2. PICK a, b: MajorSteps(a, b, public, highest_overflow_number)
    BY <1>1, MajorParts
  <1> DEFINE S == {s \in Segs: sys.seg[s].young # {}}
             y == Major
  <1>3. S \in SUBSET Segs /\ MinorLists(sys, S, FALSE, a)
    BY <1>2 DEF MajorSteps
  <1>4. ReshareEffect(a, b) /\ SweepEffect(b, Reachable(b, public), y)
    BY <1>2 DEF MajorSteps
  <1>5. \A s \in Segs: s \notin S => sys.seg[s].young = {}
    OBVIOUS
  <1> HIDE DEF S, y
  <1>6. MinorOwners(sys, S, FALSE, a)
    BY <1>1, <1>3, MinorOwnersEffect
  <1>7. a.mem = sys.mem /\ a.by_segment = sys.by_segment
    BY <1>3 DEF MinorLists, SameBut, Fields
  <1>8. ASSUME NEW s \in Segs
        PROVE  /\ Ovf(a, s) = Ovf(sys, s) \union Alive(sys, s)
               /\ ModifiedPages(a, s) = ModifiedPages(sys, s)
    <2>1. a.seg[s].modified = sys.seg[s].modified
      BY <1>6 DEF MinorOwners
    <2>2. Ovf(a, s) = IF s \in S THEN Alive(sys, s) \union Ovf(sys, s) ELSE Ovf(sys, s)
      BY <1>6 DEF MinorOwners
    <2>3. s \notin S => Alive(sys, s) = {}
      BY <1>5 DEF Alive
    <2> QED BY <2>1, <2>2, <2>3 DEF ModifiedPages
  <1>9. y.mem = b.mem /\ y.by_segment = b.by_segment
    BY <1>4 DEF SweepEffect, SameBut, Fields
  <1>10. ASSUME NEW o \in Objs, NEW c \in Cells(o), NEW t \in Segs
         PROVE  Private(y, t, o, c) <=> Layout[o][c] \in ModifiedPages(sys, t)
    <2>1. Layout[o][c] \in 1..NB_PAGES
      BY CellPages
    <2>2. b.by_segment[Layout[o][c]] = {s \in Segs: Layout[o][c] \in ModifiedPages(a, s)}
      BY <1>4, <2>1 DEF ReshareEffect
    <2> QED BY <1>8, <1>9, <2>2 DEF Private
  <1>11. PagesReshared(a, b)
    BY <1>4 DEF ReshareEffect
  <1>12. ASSUME NEW o \in Objs, NEW c \in Cells(o)
         PROVE  /\ \A t \in Segs: Private(y, t, o, c) => y.mem[t][o][c] = sys.mem[t][o][c]
                /\ IF Moving(o, c) = {} THEN y.mem[0][o][c] = sys.mem[0][o][c]
                   ELSE \E s \in Moving(o, c): y.mem[0][o][c] = sys.mem[s][o][c]
    <2>1. OnlyIn(a, o, c) = Moving(o, c)
      BY <1>7, <1>8 DEF OnlyIn, Moving, Private
    <2>2. /\ IF OnlyIn(a, o, c) = {} THEN b.mem[0][o][c] = a.mem[0][o][c]
             ELSE \E s \in OnlyIn(a, o, c): b.mem[0][o][c] = a.mem[s][o][c]
          /\ \A t \in Segs:
               ~(t \in a.by_segment[Layout[o][c]] /\ Layout[o][c] \notin ModifiedPages(a, t))
                 => b.mem[t][o][c] = a.mem[t][o][c]
      BY <1>11 DEF PagesReshared
    <2>3. \A t \in Segs: Private(y, t, o, c) => Layout[o][c] \in ModifiedPages(a, t)
      BY <1>8, <1>10
    <2> QED BY <1>7, <1>9, <2>1, <2>2, <2>3
  <1> QED BY <1>10, <1>12 DEF MajorPages, y

\* A page with a modified object is one of its pages.
LEMMA ModifiedCells ==
  ASSUME NEW x, NEW s \in Segs, NEW o \in Objs, NEW c \in Cells(o)
  PROVE  Layout[o][c] \in ModifiedPages(x, s) <=>
           \E p \in x.seg[s].modified: Layout[o][c] \in Range(Layout[p])
  BY DEF ModifiedPages

\* When no thread privatizes pages, all that is modified is in private ones.
LEMMA AllPrivate ==
  ASSUME BaseInv, PrivateInv, NEW s \in Segs, pc[s].k \notin Privatizing,
         NEW o \in sys.seg[s].modified, NEW c \in Cells(o)
  PROVE  Private(sys, s, o, c)
  BY DEF PrivateInv, PrivateAt, Awaited

\* Also after a major collection.
LEMMA MajorPrivate ==
  ASSUME BaseInv, NEW s \in Segs, NEW o \in sys.seg[s].modified, NEW c \in Cells(o)
  PROVE  Private(Major, s, o, c)
  <1>1. MajorPages(Major) /\ o \in Objs
    BY MajorMemory DEF BaseInv, OwnedInv, Owned, OpenInv
  <1>2. Layout[o][c] \in Range(Layout[o])
    BY DEF Range, Cells
  <1>3. Layout[o][c] \in ModifiedPages(sys, s)
    BY <1>1, <1>2, ModifiedCells
  <1> QED BY <1>1, <1>3 DEF MajorPages

\* A step of one thread that ends up elsewhere, or stays.
LEMMA OnePrivate ==
  ASSUME BaseInv, PrivateInv, NEW s \in Segs, \A t \in Segs \ {s}: pc'[t] = pc[t],
         sys'.by_segment = sys.by_segment,
         \A t \in Segs \ {s}: sys'.seg[t].modified = sys.seg[t].modified,
         PrivateAt(s)'
  PROVE  PrivateInv'
  <1>1. ASSUME NEW t \in Segs
        PROVE  PrivateAt(t)'
    <2>1. CASE t # s
      <3>1. PrivateAt(t) /\ pc'[t] = pc[t] /\ sys'.seg[t].modified = sys.seg[t].modified
        BY <2>1 DEF PrivateInv
      <3> QED BY <3>1, PrivateKeeps
    <2> QED BY <2>1
  <1> QED BY <1>1 DEF PrivateInv

\* Where nothing is privatized.
LEMMA PrivateElsewhere ==
  ASSUME BaseInv, PrivateInv, NEW s \in Segs, pc[s].k \notin Privatizing \/ pc[s].todo = <<>>,
         pc'[s].k \notin Privatizing, sys'.by_segment = sys.by_segment,
         sys'.seg[s].modified \subseteq sys.seg[s].modified
  PROVE  PrivateAt(s)'
  <1>1. \A p: p \notin Range(<<>>)
    BY DEF Range
  <1>2. \A o \in sys.seg[s].modified: \A c \in Cells(o): Private(sys, s, o, c)
    BY <1>1 DEF PrivateInv, PrivateAt, Awaited
  <1> QED BY <1>2 DEF PrivateAt, Private, Privatizing

\* Writing, allocating, collecting and pushing.
LEMMA QuietPrivate ==
  ASSUME BaseInv, PrivateInv, NEW s \in Segs, NEW o, NEW c, NEW card, NEW x, NEW commit,
         \/ DirectWrite(s, o, c) \/ BarrierWrite(s, o, c, card, x)
         \/ AllocateStep(s, o) \/ OnTheWay(s) \/ Made(s) \/ PopRootStep(s, o)
         \/ MinorStepOf(s, commit) \/ PushWaits(s) \/ ObjectPushed(s, o)
  PROVE  PrivateInv'
  <1>1. CASE DirectWrite(s, o, c) \/ BarrierWrite(s, o, c, card, x)
    <2>1. \A t \in Segs \ {s}: pc'[t] = pc[t]
      BY <1>1 DEF DirectWrite, BarrierWrite, Others
    <2>2. (pc[s].k \notin Privatizing \/ pc[s].todo = <<>>) /\ pc'[s].k \notin Privatizing
      BY <1>1 DEF DirectWrite, BarrierWrite, Running, Idle, Privatizing
    <2>3. CASE DirectWrite(s, o, c)
      <3>1. sys'.by_segment = sys.by_segment /\ sys'.seg = sys.seg
        BY <2>3 DEF DirectWrite, WriteStep, SameBut, Fields
      <3>2. PrivateAt(s)'
        BY <2>2, <3>1, PrivateElsewhere
      <3> QED BY <2>1, <3>1, <3>2, OnePrivate
    <2>4. CASE BarrierWrite(s, o, c, card, x)
      <3>1. sys'.by_segment = sys.by_segment /\ sys'.seg = x.seg
        BY <2>4 DEF BarrierWrite, BarrierLists, WriteStep, SameBut, Fields
      <3>2. ASSUME NEW t \in Segs
            PROVE  x.seg[t].modified = sys.seg[t].modified
        <4>1. CASE t = s
          BY <2>4, <4>1 DEF BarrierWrite, BarrierLists, MarkedCard, OpenedObject, SameListsBut,
                            ListFields
        <4>2. CASE t # s
          <5>1. SameListsBut(sys, x, t, {})
            BY <2>4, <4>2 DEF BarrierWrite, BarrierLists
          <5> QED BY <5>1 DEF SameListsBut, ListFields
        <4> QED BY <4>1, <4>2
      <3>3. PrivateAt(s)'
        BY <2>2, <3>1, <3>2, PrivateElsewhere
      <3> QED BY <2>1, <3>1, <3>2, <3>3, OnePrivate
    <2> QED BY <1>1, <2>3, <2>4
  <1>2. CASE AllocateStep(s, o) \/ OnTheWay(s) \/ Made(s) \/ PopRootStep(s, o)
    <2>1. \A t \in Segs \ {s}: pc'[t] = pc[t]
      BY <1>2 DEF AllocateStep, OnTheWay, Made, PopRootStep, Others
    <2>2. pc[s].k \notin Privatizing /\ pc'[s].k \notin Privatizing
      BY SMTT(30), <1>2 DEF AllocateStep, OnTheWay, Made, PopRootStep, Idle, Running, Privatizing, Allocating
    <2>3. sys'.by_segment = sys.by_segment
      BY <1>2 DEF AllocateStep, OnTheWay, Made, PopRootStep, SameHeap, SameBut, Fields
    <2>4. \A t \in Segs: sys'.seg[t].modified = sys.seg[t].modified
      <3>1. CASE AllocateStep(s, o) \/ OnTheWay(s)
        <4>1. sys'.seg = sys.seg
          BY <3>1 DEF AllocateStep, OnTheWay, SameHeap, SameBut, Fields
        <4> QED BY <4>1
      <3>2. CASE Made(s) \/ PopRootStep(s, o)
        BY SMTT(30), <3>2, OneListFields DEF Made, PopRootStep, ListFields
      <3> QED BY <1>2, <3>1, <3>2
    <2>5. PrivateAt(s)'
      BY <2>2, <2>3, <2>4, PrivateElsewhere
    <2> QED BY <2>1, <2>3, <2>4, <2>5, OnePrivate
  <1>3. CASE MinorStepOf(s, commit) \/ PushWaits(s) \/ ObjectPushed(s, o)
    <2>1. \A t \in Segs \ {s}: pc'[t] = pc[t]
      BY <1>3 DEF MinorStepOf, PushWaits, ObjectPushed, Others
    <2>2. pc[s].k \notin Privatizing /\ pc'[s].k \notin Privatizing
      BY <1>3 DEF MinorStepOf, PushWaits, ObjectPushed, Running, Privatizing, Pushing
    <2>3. sys'.by_segment = sys.by_segment
      BY <1>3 DEF MinorStepOf, MinorLists, PushWaits, ObjectPushed, SameHeap, SameBut, Fields
    <2>4. \A t \in Segs: sys'.seg[t].modified = sys.seg[t].modified
      <3>1. CASE PushWaits(s) \/ ObjectPushed(s, o)
        <4>1. sys'.seg = sys.seg
          BY <3>1 DEF PushWaits, ObjectPushed, SameHeap, SameBut, Fields
        <4> QED BY <4>1
      <3>2. CASE MinorStepOf(s, commit)
        <4>1. MinorLists(sys, {s}, commit, sys') /\ commit \in BOOLEAN
          BY <3>2 DEF MinorStepOf
        <4>2. MinorOwners(sys, {s}, commit, sys')
          BY <4>1, MinorOwnersEffect DEF BaseInv, OwnedInv
        <4> QED BY <4>2 DEF MinorOwners
      <3> QED BY <1>3, <3>1, <3>2
    <2>5. PrivateAt(s)'
      BY <2>2, <2>3, <2>4, PrivateElsewhere
    <2> QED BY <2>1, <2>3, <2>4, <2>5, OnePrivate
  <1> QED BY <1>1, <1>2, <1>3

\* Taking a write lock: all pages of the object are still to come.
LEMMA LockTakenPrivate ==
  ASSUME BaseInv, PrivateInv, NEW s \in Segs, NEW o \in Objs, NEW c \in Cells(o), NEW card,
         LockTakenStep(s, o, c, card)
  PROVE  PrivateInv'
  <1>1. /\ \A t \in Segs \ {s}: pc'[t] = pc[t]
        /\ sys'.by_segment = sys.by_segment
        /\ \A t \in Segs \ {s}: sys'.seg[t].modified = sys.seg[t].modified
    BY OneListFields DEF LockTakenStep, Others, SameBut, Fields, ListFields
  <1>2. \A p \in sys.seg[s].modified: \A d \in Cells(p): Private(sys, s, p, d)
    BY AllPrivate DEF LockTakenStep, Running, Privatizing
  <1>3. /\ sys'.seg[s].modified = sys.seg[s].modified \union {o}
        /\ pc'[s].k = "page" /\ pc'[s].o = o
        /\ o \notin sys.seg[s].modified => \A d \in Cells(o): Layout[o][d] \in Range(pc'[s].todo)
    BY DEF LockTakenStep
  <1>4. PrivateAt(s)'
    BY <1>1, <1>2, <1>3 DEF PrivateAt, Private, Awaited, Privatizing
  <1> QED BY <1>1, <1>4, OnePrivate

\* Commits, major collections and aborts.
LEMMA AlonePrivate ==
  ASSUME BaseInv, PrivateInv, NEW s \in Segs, NEW S, NEW x,
         CommitStep(s, x) \/ MajorStepOf(s) \/ AbortStepOf(S, x)
  PROVE  PrivateInv'
  <1>1. CASE CommitStep(s, x) \/ MajorStepOf(s)
    <2> DEFINE y == IF CommitStep(s, x) THEN x ELSE sys'
    <2>1. y = sys \/ y = Major
      BY <1>1 DEF CommitStep, MajorStepOf
    <2>2. sys'.by_segment = y.by_segment
      BY DEF CommitStep, CommitLists, SameBut, Fields
    <2>3. ASSUME NEW t \in Segs
          PROVE  sys'.seg[t].modified \subseteq sys.seg[t].modified
      <3>1. y.seg[t].modified = sys.seg[t].modified
        BY <2>1, AtSafePoint
      <3>2. CASE CommitStep(s, x) /\ t # s
        <4>1. SameListsBut(x, sys', t, {})
          BY <3>2 DEF CommitStep, CommitLists
        <4> QED BY <3>1, <3>2, <4>1 DEF SameListsBut, ListFields
      <3>3. CASE CommitStep(s, x) /\ t = s
        BY <3>3 DEF CommitStep, CommitLists
      <3> QED BY <3>1, <3>2, <3>3
    <2> HIDE DEF y
    <2>4. ASSUME NEW t \in Segs
          PROVE  PrivateAt(t)'
      <3>1. pc[t].k \in Simple /\ pc'[t].k \in Simple
        BY <1>1 DEF CommitStep, MajorStepOf, Idle, Simple, Others
      <3>2. \A o \in sys.seg[t].modified: \A c \in Cells(o): Private(y, t, o, c)
        <4>1. pc[t].k \notin Privatizing
          BY <3>1 DEF Simple, Privatizing
        <4> QED BY <2>1, <4>1, AllPrivate, MajorPrivate
      <3> QED BY <2>2, <2>3, <3>1, <3>2 DEF PrivateAt, Private, Simple
    <2> QED BY <2>4 DEF PrivateInv
  <1>2. CASE AbortStepOf(S, x)
    <2>1. /\ S \in SUBSET Segs /\ AbortLists(x, S, sys') /\ CopyOf(sys, x)
          /\ \A t \in S: pc'[t].k = "idle"
          /\ \A t \in Segs \ S: pc'[t] = pc[t]
      BY <1>2 DEF AbortStepOf
    <2>2. sys'.by_segment = sys.by_segment
      BY <2>1 DEF AbortLists, CopyOf, SameBut, Fields
    <2>3. x.seg = sys.seg
      BY <2>1 DEF CopyOf, SameBut, Fields
    <2>4. ASSUME NEW t \in Segs
          PROVE  PrivateAt(t)'
      <3>1. CASE t \in S
        <4>1. sys'.seg[t].modified = {} /\ pc'[t].k = "idle"
          BY <2>1, <3>1 DEF AbortLists, ListsForgotten
        <4> QED BY <4>1 DEF PrivateAt
      <3>2. CASE t \notin S
        <4>1. SameListsBut(x, sys', t, {})
          BY <2>1, <3>2 DEF AbortLists
        <4>2. sys'.seg[t].modified = sys.seg[t].modified /\ pc'[t] = pc[t] /\ PrivateAt(t)
          BY <2>1, <2>3, <3>2, <4>1 DEF SameListsBut, ListFields, PrivateInv
        <4> QED BY <2>2, <4>2, PrivateKeeps
      <3> QED BY <3>1, <3>2
    <2> QED BY <2>4 DEF PrivateInv
  <1> QED BY <1>1, <1>2

\* Every step.
LEMMA PrivateKept ==
  ASSUME BaseInv, PrivateInv, Step
  PROVE  PrivateInv'
  <1>1. CASE SameHeap /\ SameGrowth /\ UNCHANGED <<pc, highest_overflow_number>>
    BY <1>1 DEF SameHeap, PrivateInv, PrivateAt, Private, Awaited
  <1>2. CASE \E o: UnlinkStep(o)
    BY <1>2 DEF UnlinkStep, PrivateInv, PrivateAt, Private, Awaited
  <1>3. CASE \E s \in Segs: \E o: \E c: DirectWrite(s, o, c)
    BY <1>3, QuietPrivate
  <1>4. CASE \E s \in Segs: \E o: \E c: \E card: \E x: BarrierWrite(s, o, c, card, x)
    BY <1>4, QuietPrivate
  <1>5. CASE \/ \E s \in Segs: \E o: AllocateStep(s, o)
             \/ \E s \in Segs: OnTheWay(s)
             \/ \E s \in Segs: Made(s)
             \/ \E s \in Segs: \E o: PopRootStep(s, o)
    BY <1>5, QuietPrivate
  <1>6. CASE \/ \E s \in Segs: \E commit: MinorStepOf(s, commit)
             \/ \E s \in Segs: PushWaits(s)
             \/ \E s \in Segs: \E o: ObjectPushed(s, o)
    BY <1>6, QuietPrivate
  <1>7. CASE \E s \in Segs: \E o \in Objs: \E c \in Cells(o): \E card: LockTakenStep(s, o, c, card)
    BY <1>7, LockTakenPrivate
  <1>8. CASE \E s \in Segs: PrivatizingStep(s)
    BY <1>8, PrivatizingPrivate
  <1>9. CASE (\E s \in Segs: \E x: CommitStep(s, x)) \/ (\E s \in Segs: MajorStepOf(s))
    BY <1>9, AlonePrivate
  <1>10. CASE \E S: \E x: AbortStepOf(S, x)
    <2>1. CASE Segs = {}
      BY <2>1 DEF PrivateInv
    <2>2. CASE Segs # {}
      <3>1. PICK s \in Segs: TRUE
        BY <2>2
      <3> QED BY <1>10, <3>1, AlonePrivate
    <2> QED BY <2>1, <2>2
  <1> QED BY <1>1, <1>2, <1>3, <1>4, <1>5, <1>6, <1>7, <1>8, <1>9, <1>10 DEF Step

-----------------------------------------------------------------------------
(* The range of pages in use.                                              *)

InUse(o) == o \in public \/ \E s \in Segs: o \in sys.seg[s].mine

\* A page below the first one that was never mapped is mapped, and so are the
\* pages of every object: the thread that maps pages does so before others
\* learn of it.
GrowthInv ==
  /\ 1..(uninitialized_page_start - 1) \subseteq mapped
  /\ \A s \in Segs: pc[s].k = "mapped" =>
       1..(LastPage(pc[s].o) + GCPAGE_NUM_PAGES) \subseteq mapped
  /\ \A o \in Objs: InUse(o) => \A c \in Cells(o): Layout[o][c] \in mapped

\* The cells of an object lie before the end of its last page.
LEMMA UpToLast ==
  ASSUME PagesAssumption, NEW o \in Objs
  PROVE  /\ LastPage(o) \in 1..NB_PAGES
         /\ \A c \in Cells(o): Layout[o][c] \in 1..LastPage(o)
  <1>1. Layout[o] \in Seq(1..NB_PAGES) /\ Layout[o] # <<>>
        /\ \A c, d \in Cells(o): c <= d => Layout[o][c] <= Layout[o][d]
    BY DEF PagesAssumption
  <1>2. Len(Layout[o]) \in Cells(o) /\ \A c \in Cells(o): c <= Len(Layout[o])
    BY <1>1, LenProperties DEF Cells
  <1>3. LastPage(o) \in 1..NB_PAGES
    BY <1>2, CellPages DEF LastPage
  <1>4. ASSUME NEW c \in Cells(o)
        PROVE  Layout[o][c] \in 1..LastPage(o)
    <2>1. Layout[o][c] <= LastPage(o)
      BY <1>1, <1>2 DEF LastPage
    <2> QED BY <1>3, <2>1, CellPages
  <1> QED BY <1>3, <1>4

\* Only the making of an object brings one into use.
LEMMA UsesKept ==
  ASSUME BaseInv, Step, NEW o \in Objs, InUse(o)'
  PROVE  InUse(o) \/ \E s \in Segs: Made(s) /\ o = pc[s].o
  <1>1. CASE SameHeap \/ (\E s \in Segs: OnTheWay(s) \/ PushWaits(s))
    BY <1>1 DEF SameHeap, OnTheWay, PushWaits, InUse
  <1>2. CASE \E p: UnlinkStep(p)
    BY <1>2 DEF UnlinkStep, InUse
  <1>3. CASE \/ \E s \in Segs: \E p: \E c: DirectWrite(s, p, c)
             \/ \E s \in Segs: PrivatizingStep(s)
             \/ \E s \in Segs: \E p: AllocateStep(s, p) \/ ObjectPushed(s, p)
    <2>1. sys'.seg = sys.seg /\ public' = public
      BY <1>3 DEF DirectWrite, WriteStep, PrivatizingStep, QuietPrivatizing, BitSet, PageRead,
                  PageWritten, AllocateStep, ObjectPushed, SameBut, Fields
    <2> QED BY <2>1 DEF InUse
  <1>4. CASE \E s \in Segs: \E p: \E c: \E card: \E x: BarrierWrite(s, p, c, card, x)
    <2>1. PICK s, p, c, card, x: s \in Segs /\ BarrierWrite(s, p, c, card, x)
      BY <1>4
    <2>2. sys'.seg = x.seg /\ public' = public
      BY <2>1 DEF BarrierWrite, WriteStep, SameBut, Fields
    <2>3. ASSUME NEW t \in Segs
          PROVE  x.seg[t].mine = sys.seg[t].mine
      <3>1. CASE t = s
        BY <2>1, <3>1 DEF BarrierWrite, BarrierLists, MarkedCard, OpenedObject, SameListsBut,
                          ListFields
      <3>2. CASE t # s
        <4>1. SameListsBut(sys, x, t, {})
          BY <2>1, <3>2 DEF BarrierWrite, BarrierLists
        <4> QED BY <4>1 DEF SameListsBut, ListFields
      <3> QED BY <3>1, <3>2
    <2> QED BY <2>2, <2>3 DEF InUse
  <1>5. CASE \E s \in Segs: \E p \in Objs: \E c \in Cells(p): \E card: LockTakenStep(s, p, c, card)
    <2>1. PICK s \in Segs: \E p \in Objs: \E c \in Cells(p): \E card: LockTakenStep(s, p, c, card)
      BY <1>5
    <2>2. OneList(s, {"modified"}) /\ public' = public
      BY <2>1 DEF LockTakenStep
    <2>3. \A t \in Segs: sys'.seg[t].mine = sys.seg[t].mine
      BY <2>2, OneListFields DEF ListFields
    <2> QED BY <2>2, <2>3 DEF InUse
  <1>6. CASE \E s \in Segs: Made(s) \/ \E p: PopRootStep(s, p)
    <2>1. PICK s \in Segs: Made(s) \/ \E p: PopRootStep(s, p)
      BY <1>6
    <2>2. \A t \in Segs \ {s}: sys'.seg[t].mine = sys.seg[t].mine
      BY <2>1, OneListFields DEF Made, PopRootStep, ListFields
    <2>3. public' = public /\ \/ Made(s) /\ sys'.seg[s].mine = sys.seg[s].mine \union {pc[s].o}
                              \/ sys'.seg[s].mine \subseteq sys.seg[s].mine
      BY <2>1 DEF Made, PopRootStep
    <2> QED BY <2>2, <2>3 DEF InUse
  <1>7. CASE \E s \in Segs: \E commit: MinorStepOf(s, commit)
    <2>1. PICK s \in Segs, commit \in BOOLEAN: MinorLists(sys, {s}, commit, sys')
      BY <1>7 DEF MinorStepOf
    <2>2. MinorOwners(sys, {s}, commit, sys')
      BY <2>1, MinorOwnersEffect DEF BaseInv, OwnedInv
    <2>3. \A t \in Segs: sys'.seg[t].mine = sys.seg[t].mine
      BY <2>2 DEF MinorOwners
    <2> QED BY <1>7, <2>3 DEF InUse, MinorStepOf
  <1>8. CASE \E s \in Segs: \E x: CommitStep(s, x)
    <2>1. PICK s, x: s \in Segs /\ CommitStep(s, x)
      BY <1>8
    <2>2. CommitLists(x, s, sys') /\ (x = sys \/ x = Major)
          /\ public' = public \union sys.seg[s].mine
      BY <2>1 DEF CommitStep
    <2>3. ASSUME NEW t \in Segs
          PROVE  sys'.seg[t].mine \subseteq sys.seg[t].mine
      <3>1. x.seg[t].mine = sys.seg[t].mine
        BY <2>2, AtSafePoint
      <3>2. CASE t # s
        <4>1. SameListsBut(x, sys', t, {})
          BY <2>2, <3>2 DEF CommitLists
        <4> QED BY <3>1, <4>1 DEF SameListsBut, ListFields
      <3>3. CASE t = s
        BY <2>2, <3>3 DEF CommitLists
      <3> QED BY <3>2, <3>3
    <2> QED BY <2>1, <2>2, <2>3 DEF InUse
  <1>9. CASE \E s \in Segs: MajorStepOf(s)
    <2>1. public' = public /\ (sys' = sys \/ sys' = Major)
      BY <1>9 DEF MajorStepOf
    <2>2. \A t \in Segs: sys'.seg[t].mine = sys.seg[t].mine
      BY <2>1, AtSafePoint
    <2> QED BY <2>1, <2>2 DEF InUse
  <1>10. CASE \E S: \E x: AbortStepOf(S, x)
    <2>1. PICK S, x: AbortStepOf(S, x)
      BY <1>10
    <2>2. AbortLists(x, S, sys') /\ CopyOf(sys, x) /\ public' = public
      BY <2>1 DEF AbortStepOf
    <2>3. ASSUME NEW t \in Segs
          PROVE  sys'.seg[t].mine \subseteq sys.seg[t].mine
      <3>1. x.seg = sys.seg
        BY <2>2 DEF CopyOf, SameBut, Fields
      <3>2. CASE t \notin S
        <4>1. SameListsBut(x, sys', t, {})
          BY <2>2, <3>2 DEF AbortLists
        <4> QED BY <3>1, <4>1 DEF SameListsBut, ListFields
      <3>3. CASE t \in S
        BY <2>2, <3>3 DEF AbortLists, ListsForgotten
      <3> QED BY <3>2, <3>3
    <2> QED BY <2>2, <2>3 DEF InUse
  <1> QED BY <1>1, <1>2, <1>3, <1>4, <1>5, <1>6, <1>7, <1>8, <1>9, <1>10 DEF Step

\* A thread comes to have mapped pages only by mapping them.
LEMMA MappedThreads ==
  ASSUME Step, NEW t \in Segs, pc'[t].k = "mapped"
  PROVE  pc'[t] = pc[t] \/ OnTheWay(t)
  <1>1. CASE UNCHANGED pc
    BY <1>1
  <1>2. CASE \/ \E s \in Segs: \E o: \E c: DirectWrite(s, o, c)
             \/ \E o: UnlinkStep(o)
             \/ \E s \in Segs: \E o: PopRootStep(s, o)
    BY <1>2 DEF DirectWrite, UnlinkStep, PopRootStep
  <1>3. CASE \E s \in Segs: \E o: \E c: \E card: \E x: BarrierWrite(s, o, c, card, x)
    BY <1>3 DEF BarrierWrite, Others, Idle
  <1>4. CASE \E s \in Segs: \E o \in Objs: \E c \in Cells(o): \E card: LockTakenStep(s, o, c, card)
    BY <1>4 DEF LockTakenStep, Others
  <1>5. CASE \E s \in Segs: PrivatizingStep(s)
    BY <1>5 DEF PrivatizingStep, QuietPrivatizing, BitSet, PageRead, PageWritten, Moved, Others
  <1>6. CASE \E s \in Segs: (\E o: AllocateStep(s, o)) \/ Made(s) \/ MajorStepOf(s)
    BY <1>6 DEF AllocateStep, Made, MajorStepOf, Others, Idle
  <1>7. CASE \E s \in Segs: OnTheWay(s)
    BY <1>7 DEF OnTheWay, Others
  <1>8. CASE \E s \in Segs: (\E commit: MinorStepOf(s, commit)) \/ PushWaits(s)
    BY <1>8 DEF MinorStepOf, PushWaits, Others
  <1>9. CASE \E s \in Segs: (\E o: ObjectPushed(s, o)) \/ (\E x: CommitStep(s, x))
    <2>1. PICK s \in Segs: (\E o: ObjectPushed(s, o)) \/ (\E x: CommitStep(s, x))
      BY <1>9
    <2>2. Others(s) /\ pc'[s].k # "mapped"
      <3>1. CASE \E o: ObjectPushed(s, o)
        BY <3>1 DEF ObjectPushed
      <3>2. CASE \E x: CommitStep(s, x)
        <4>1. pc'[s] = Idle /\ Others(s)
          BY <3>2 DEF CommitStep
        <4> QED BY <4>1 DEF Idle
      <3> QED BY <2>1, <3>1, <3>2
    <2> QED BY <2>2 DEF Others
  <1>10. CASE \E S: \E x: AbortStepOf(S, x)
    BY <1>10 DEF AbortStepOf
  <1> QED BY <1>1, <1>2, <1>3, <1>4, <1>5, <1>6, <1>7, <1>8, <1>9, <1>10 DEF Step

\* Every step.
LEMMA GrowthKept ==
  ASSUME PagesAssumption, BaseInv, GrowthInv, Step
  PROVE  GrowthInv' /\ mapped \subseteq mapped'
  <1>1. mapped \subseteq mapped'
    BY GrowthSteps DEF SameGrowth, OnTheWay, Made
  <1>2. uninitialized_page_start \in Nat /\ GCPAGE_NUM_PAGES \in Nat
    BY DEF BaseInv, PagesAssumption
  <1>3. ASSUME NEW s \in Segs, pc[s].k \in Allocating
        PROVE  pc[s].o \in Objs
    BY <1>3 DEF BaseInv, OwnedInv, OwnPlaces
  <1>4. 1..(uninitialized_page_start' - 1) \subseteq mapped'
    <2>1. CASE uninitialized_page_start' = uninitialized_page_start
      BY <1>1, <2>1 DEF GrowthInv
    <2>2. CASE uninitialized_page_start' # uninitialized_page_start
      <3>1. PICK s \in Segs: Made(s)
        BY <2>2, GrowthSteps DEF SameGrowth
      <3>2. /\ pc[s].k = "mapped"
            /\ uninitialized_page_start' = LastPage(pc[s].o) + 1 + GCPAGE_NUM_PAGES
        BY <2>2, <3>1 DEF Made
      <3>3. LastPage(pc[s].o) \in Nat
        BY <1>3, <3>2, UpToLast DEF Allocating
      <3>4. uninitialized_page_start' - 1 = LastPage(pc[s].o) + GCPAGE_NUM_PAGES
        BY <1>2, <3>2, <3>3
      <3>5. 1..(LastPage(pc[s].o) + GCPAGE_NUM_PAGES) \subseteq mapped
        BY <3>2 DEF GrowthInv
      <3> QED BY <1>1, <3>4, <3>5
    <2> QED BY <2>1, <2>2
  <1>5. ASSUME NEW t \in Segs, pc'[t].k = "mapped"
        PROVE  1..(LastPage(pc'[t].o) + GCPAGE_NUM_PAGES) \subseteq mapped'
    <2>1. CASE pc'[t] = pc[t]
      BY <1>1, <1>5, <2>1 DEF GrowthInv
    <2>2. CASE OnTheWay(t)
      <3>1. /\ pc'[t].o = pc[t].o /\ pc[t].o \in Objs
            /\ uninitialized_page_start..(LastPage(pc[t].o) + GCPAGE_NUM_PAGES) \subseteq mapped'
        BY <1>3, <1>5, <2>2 DEF OnTheWay
      <3>2. LastPage(pc[t].o) \in Nat
        BY <3>1, UpToLast
      <3>3. ASSUME NEW p \in 1..(LastPage(pc[t].o) + GCPAGE_NUM_PAGES)
            PROVE  p \in mapped'
        <4>1. \/ p \in 1..(uninitialized_page_start - 1)
              \/ p \in uninitialized_page_start..(LastPage(pc[t].o) + GCPAGE_NUM_PAGES)
          BY <1>2, <3>2
        <4> QED BY <1>1, <3>1, <4>1 DEF GrowthInv
      <3> QED BY <3>1, <3>3
    <2> QED BY <1>5, <2>1, <2>2, MappedThreads
  <1>6. ASSUME NEW o \in Objs, InUse(o)', NEW c \in Cells(o)
        PROVE  Layout[o][c] \in mapped'
    <2>1. CASE InUse(o)
      BY <1>1, <2>1 DEF GrowthInv
    <2>2. CASE \E s \in Segs: Made(s) /\ o = pc[s].o
      <3>1. PICK s \in Segs: Made(s) /\ o = pc[s].o
        BY <2>2
      <3>2. Layout[o][c] \in 1..LastPage(o) /\ LastPage(o) \in Nat
        BY UpToLast
      <3>3. LastPage(o) < uninitialized_page_start \/ pc[s].k = "mapped"
        BY <3>1 DEF Made
      <3>4. \/ Layout[o][c] \in 1..(uninitialized_page_start - 1)
            \/ pc[s].k = "mapped" /\ Layout[o][c] \in 1..(LastPage(o) + GCPAGE_NUM_PAGES)
        BY <1>2, <3>2, <3>3
      <3>5. Layout[o][c] \in mapped
        BY <3>1, <3>4 DEF GrowthInv
      <3> QED BY <1>1, <3>5
    <2> QED BY <1>6, <2>1, <2>2, UsesKept
  <1>7. GrowthInv'
    BY <1>4, <1>5, <1>6 DEF GrowthInv
  <1> QED BY <1>1, <1>7

\* At the start.
LEMMA PagesInit ==
  ASSUME PagesAssumption, Init
  PROVE  PrivateInv /\ GrowthInv
  <1>1. /\ \A s \in Segs: pc[s].k = "idle" /\ sys.seg[s].modified = {} /\ sys.seg[s].mine = {}
        /\ public = Prebuilt
    BY DEF Init, Idle
  <1>2. PrivateInv
    BY <1>1 DEF PrivateInv, PrivateAt
  <1> DEFINE T == {LastPage(o): o \in Prebuilt}
  <1>3. T \in SUBSET (0..NB_PAGES) /\ T # {} /\ NB_PAGES \in Nat /\ Prebuilt \subseteq Objs
    BY UpToLast DEF PagesAssumption
  <1> HIDE DEF T
  <1>4. \E x \in T: \A y \in T: x >= y
    <2>1. \E x \in T: \A y \in T: y <= x
      BY <1>3, Greatest
    <2> QED BY <1>3, <2>1
  <1>5. Max(T) \in T /\ \A y \in T: Max(T) >= y
    BY ONLY <1>4 DEF Max
  <1> DEFINE m == Max(T)
  <1>6. uninitialized_page_start = m + 1 /\ mapped = 1..(uninitialized_page_start - 1)
    BY DEF Init, T
  <1>7. m \in T /\ \A y \in T: m >= y
    BY <1>5
  <1> HIDE DEF m
  <1>8. m \in Nat /\ mapped = 1..m
    BY <1>3, <1>6, <1>7
  <1>9. ASSUME NEW o \in Prebuilt, NEW c \in Cells(o)
        PROVE  Layout[o][c] \in mapped
    <2>1. LastPage(o) \in T /\ o \in Objs
      BY <1>3 DEF T
    <2>2. LastPage(o) <= m /\ LastPage(o) \in Nat
      BY <1>7, <2>1, UpToLast
    <2>3. Layout[o][c] \in 1..LastPage(o)
      BY <2>1, UpToLast
    <2> QED BY <1>8, <2>2, <2>3
  <1>10. GrowthInv
    BY <1>1, <1>6, <1>9 DEF GrowthInv, InUse
  <1> QED BY <1>2, <1>10

\* All of this holds throughout.
LEMMA PagesInvariant ==
  ASSUME PagesAssumption
  PROVE  Spec => [](BaseInv /\ PrivateInv /\ GrowthInv)
  <1>1. ASSUME BaseInv, PrivateInv, GrowthInv, [Next]_vars
        PROVE  PrivateInv' /\ GrowthInv'
    BY <1>1, StepsTaken, PrivateKept, GrowthKept
  <1> QED BY <1>1, PagesInit, BaseInvariant, PTL DEF Spec

-----------------------------------------------------------------------------
(* The cards.                                                              *)

\* No card of the object is marked.
Clear(x, o) == \A c \in Cells(o): x.cards[o][c] = CARD_CLEAR

\* A transaction has changed a cell.
Changed(s, o, c) == own[s][o][c] # committed[o][c]

\* A marked card belongs to an array that is modified, or to an overflow
\* object whose cards are known to be marked.
CardKind(x, o) ==
  \A c \in Cells(o):
    /\ x.cards[o][c] \in {CARD_CLEAR, CARD_MARKED, CARD_MARKED_OLD}
    /\ x.cards[o][c] # CARD_CLEAR =>
         /\ o \in UsesCards
         /\ \E s \in Segs: o \in x.seg[s].modified
                           \/ (o \in Ovf(x, s) /\ o \in x.seg[s].cards_set)

\* The cards of a modified array mark what was changed through the barrier
\* for cards; the other barrier marks all of the cards or none.
CardsOf(x, s, o) ==
  /\ o \in Ovf(x, s) => \A c \in Cells(o): x.cards[o][c] # CARD_MARKED_OLD
  /\ o \in x.seg[s].modified =>
       /\ o \notin x.seg[s].cards_set => \A c \in Cells(o): x.cards[o][c] # CARD_MARKED
       /\ IF o \in x.seg[s].plain
          THEN \E v \in {CARD_CLEAR, CARD_MARKED_OLD}: \A c \in Cells(o): x.cards[o][c] = v
          ELSE o \in UsesCards =>
                 \A c \in Cells(o): Changed(s, o, c) => x.cards[o][c] # CARD_CLEAR

\* What the cards of one object say.
CardInv(x, o) == CardKind(x, o) /\ \A s \in Segs: CardsOf(x, s, o)

\* A thread in the write barrier: the barrier goes with what the transaction
\* did to the array before.
BarrierAt(s) ==
  pc[s].k \in Privatizing =>
    IF pc[s].card THEN pc[s].o \notin sys.seg[s].plain
    ELSE \/ pc[s].o \in sys.seg[s].plain \union sys.seg[s].cards_set
         \/ Clear(sys, pc[s].o) /\ \A c \in Cells(pc[s].o): ~Changed(s, pc[s].o, c)

\* What was changed, as the cards and the barriers have it.
WrittenInv == (\A o \in Objs: CardInv(sys, o)) /\ \A s \in Segs: BarrierAt(s)

\* The lists that say something about the cards.
SameCards(x, y, o) ==
  /\ \A c \in Cells(o): y.cards[o][c] = x.cards[o][c]
  /\ \A s \in Segs:
       /\ o \in y.seg[s].modified <=> o \in x.seg[s].modified
       /\ o \in y.seg[s].plain <=> o \in x.seg[s].plain
       /\ o \in y.seg[s].cards_set <=> o \in x.seg[s].cards_set
       /\ o \in Ovf(y, s) <=> o \in Ovf(x, s)

\* Nothing is different for an object whose cards and lists stay.
LEMMA CardsStay ==
  ASSUME NEW x, NEW y, NEW o, CardInv(x, o), SameCards(x, y, o)
  PROVE  CardInv(y, o)
  BY DEF CardInv, CardKind, CardsOf, SameCards

\* No more cells are changed, but for objects with all cards or none marked.
LEMMA CardsPrimed ==
  ASSUME NEW o, CardInv(sys', o),
         \A t \in Segs: o \in sys'.seg[t].modified /\ o \notin sys'.seg[t].plain =>
           \A c \in Cells(o): Changed(t, o, c)' => Changed(t, o, c)
  PROVE  CardInv(sys, o)'
  <1>1. \A t \in Segs: Ovf(sys, t)' = Ovf(sys', t)
    BY DEF Ovf
  <1>2. CardKind(sys, o)'
    BY <1>1 DEF CardInv, CardKind
  <1>3. ASSUME NEW t \in Segs
        PROVE  CardsOf(sys, t, o)'
    <2>1. CardsOf(sys', t, o)
      BY DEF CardInv
    <2> QED BY <1>1, <2>1 DEF CardsOf
  <1> QED BY <1>2, <1>3 DEF CardInv

\* A minor collection.
LEMMA MinorCards ==
  ASSUME NEW x, NEW objects, NEW high, Owned(x, objects, high), NEW S \in SUBSET Segs,
         NEW commit \in BOOLEAN, NEW y, MinorLists(x, S, commit, y), NEW o \in Objs,
         CardInv(x, o)
  PROVE  CardInv(y, o)
  <1>1. MinorOwners(x, S, commit, y)
    BY MinorOwnersEffect
  <1>2. OwnerInv(x, objects, o) /\ NumbersInv(x, high) /\ \A s \in Segs: OpenInv(x, s)
    BY DEF Owned
  <1>3. ASSUME NEW s \in Segs
        PROVE  /\ Traced(x, s) = x.seg[s].cards_set
               /\ IF s \in S THEN y.seg[s].cards_set = {}
                  ELSE y.seg[s].cards_set = x.seg[s].cards_set
               /\ o \in x.seg[s].cards_set => o \in x.seg[s].modified \union Ovf(x, s)
    <2>1. x.seg[s].cards_set \subseteq x.seg[s].with_cards
          /\ x.seg[s].with_cards \subseteq x.seg[s].modified \union Ovf(x, s)
      BY <1>2 DEF OpenInv
    <2>2. Traced(x, s) = x.seg[s].cards_set
      BY <2>1 DEF Traced
    <2>3. CASE s \in S
      <3>1. y.seg[s].cards_set = x.seg[s].cards_set \ Traced(x, s)
        BY <2>3 DEF MinorLists, ListsCollected
      <3>2. y.seg[s].cards_set = {}
        BY ONLY <2>2, <3>1
      <3> QED BY <2>1, <2>2, <2>3, <3>2
    <2>4. CASE s \notin S
      <3>1. SameListsBut(x, y, s, {})
        BY <2>4 DEF MinorLists
      <3> QED BY <2>1, <2>2, <2>4, <3>1 DEF SameListsBut, ListFields
    <2> QED BY <2>3, <2>4
  <1>4. ASSUME NEW s \in Segs
        PROVE  /\ y.seg[s].modified = x.seg[s].modified /\ y.seg[s].plain = x.seg[s].plain
               /\ Ovf(x, s) \subseteq Ovf(y, s)
               /\ o \in Ovf(y, s) => o \in Ovf(x, s) \/ o \in Alive(x, s)
    BY <1>1 DEF MinorOwners
  \* What the tracing does to the cards of the object.
  <1>5. ASSUME NEW c \in Cells(o)
        PROVE  \/ /\ y.cards[o][c] = x.cards[o][c]
                  /\ x.cards[o][c] = CARD_MARKED => \A s \in S: o \notin x.seg[s].cards_set
               \/ /\ x.cards[o][c] = CARD_MARKED
                  /\ \E s \in S: /\ o \in x.seg[s].cards_set
                                 /\ y.cards[o][c] = IF IS_OVERFLOW_OBJ(x, s, o)
                                                    THEN CARD_CLEAR ELSE CARD_MARKED_OLD
    <2>1. CardsTraced(x, S, y)
      BY DEF MinorLists
    <2> QED BY <1>3, <2>1 DEF CardsTraced
  <1>6. ASSUME NEW s \in Segs, o \in x.seg[s].modified
        PROVE  \A t \in Segs: ~IS_OVERFLOW_OBJ(x, t, o) /\ o \notin Ovf(x, t)
    BY <1>2, <1>6 DEF OwnerInv, IS_OVERFLOW_OBJ, Num
  <1>7. ASSUME NEW s \in Segs, o \in Ovf(x, s)
        PROVE  \A t \in Segs: /\ o \in x.seg[t].cards_set => IS_OVERFLOW_OBJ(x, t, o)
                              /\ o \in Ovf(x, t) => t = s
    BY <1>2, <1>3, <1>6, <1>7 DEF OwnerInv, NumbersInv, IS_OVERFLOW_OBJ, Num
  <1>8. ASSUME NEW s \in Segs, o \in Alive(x, s)
        PROVE  \A t \in Segs: o \notin x.seg[t].modified \union Ovf(x, t)
    <2>1. x.number[o] = 0 /\ o \in x.seg[s].mine
      BY <1>2, <1>8 DEF OwnerInv, Alive
    <2> QED BY <1>2, <2>1 DEF OwnerInv, NumbersInv
  <1>9. CardKind(x, o) /\ \A s \in Segs: CardsOf(x, s, o)
    BY DEF CardInv
  <1>10. CardKind(y, o)
    <2> SUFFICES ASSUME NEW c \in Cells(o)
                 PROVE  /\ y.cards[o][c] \in {CARD_CLEAR, CARD_MARKED, CARD_MARKED_OLD}
                        /\ y.cards[o][c] # CARD_CLEAR =>
                             /\ o \in UsesCards
                             /\ \E s \in Segs: o \in y.seg[s].modified
                                  \/ (o \in Ovf(y, s) /\ o \in y.seg[s].cards_set)
      BY DEF CardKind
    <2>1. /\ x.cards[o][c] \in {CARD_CLEAR, CARD_MARKED, CARD_MARKED_OLD}
          /\ x.cards[o][c] # CARD_CLEAR =>
               /\ o \in UsesCards
               /\ \E s \in Segs: o \in x.seg[s].modified
                    \/ (o \in Ovf(x, s) /\ o \in x.seg[s].cards_set)
      BY <1>9 DEF CardKind
    <2>2. y.cards[o][c] # CARD_CLEAR => x.cards[o][c] # CARD_CLEAR
      BY <1>5 DEF CARD_MARKED, CARD_CLEAR
    <2>3. ASSUME NEW s \in Segs, o \in Ovf(x, s), o \in x.seg[s].cards_set,
                 y.cards[o][c] # CARD_CLEAR
          PROVE  s \notin S
      <3>1. x.cards[o][c] # CARD_MARKED_OLD
        BY <1>9, <2>3 DEF CardsOf
      <3>2. x.cards[o][c] = CARD_MARKED
        BY <2>1, <2>2, <2>3, <3>1
      <3> QED BY <1>5, <1>7, <2>3, <3>2
    <2> QED BY <1>3, <1>4, <1>5, <2>1, <2>2, <2>3
  <1>11. ASSUME NEW s \in Segs
         PROVE  CardsOf(y, s, o)
    <2>1. CardsOf(x, s, o)
      BY <1>9
    <2>2. ASSUME o \in Ovf(y, s), NEW c \in Cells(o)
          PROVE  y.cards[o][c] # CARD_MARKED_OLD
      <3>1. CASE o \in Ovf(x, s)
        <4>1. x.cards[o][c] # CARD_MARKED_OLD
          BY <2>1, <3>1 DEF CardsOf
        <4> QED BY <1>5, <1>7, <3>1, <4>1 DEF CARD_CLEAR, CARD_MARKED_OLD
      <3>2. CASE o \in Alive(x, s)
        <4>1. x.cards[o][c] = CARD_CLEAR
          BY <1>8, <1>9, <3>2 DEF CardKind
        <4> QED BY <1>5, <4>1 DEF CARD_CLEAR, CARD_MARKED_OLD, CARD_MARKED
      <3> QED BY <1>4, <2>2, <3>1, <3>2
    <2>3. ASSUME o \in y.seg[s].modified
          PROVE  /\ o \notin y.seg[s].cards_set =>
                      \A c \in Cells(o): y.cards[o][c] # CARD_MARKED
                 /\ \A c \in Cells(o): /\ x.cards[o][c] # CARD_MARKED =>
                                            y.cards[o][c] = x.cards[o][c]
                                       /\ x.cards[o][c] # CARD_CLEAR =>
                                            y.cards[o][c] # CARD_CLEAR
      <3>1. o \in x.seg[s].modified /\ \A t \in Segs: ~IS_OVERFLOW_OBJ(x, t, o)
        BY <1>4, <1>6, <2>3
      <3>2. ASSUME NEW c \in Cells(o)
            PROVE  \/ /\ y.cards[o][c] = x.cards[o][c]
                      /\ x.cards[o][c] = CARD_MARKED => \A t \in S: o \notin x.seg[t].cards_set
                   \/ x.cards[o][c] = CARD_MARKED /\ y.cards[o][c] = CARD_MARKED_OLD
        BY <1>5, <3>1
      <3>3. ASSUME o \notin y.seg[s].cards_set, NEW c \in Cells(o)
            PROVE  y.cards[o][c] # CARD_MARKED
        <4>1. x.cards[o][c] = CARD_MARKED => o \in x.seg[s].cards_set
          BY <2>1, <3>1 DEF CardsOf
        <4> QED BY <1>3, <3>2, <3>3, <4>1 DEF CARD_MARKED, CARD_MARKED_OLD
      <3> QED BY <3>2, <3>3 DEF CARD_MARKED, CARD_MARKED_OLD, CARD_CLEAR
    <2>4. y.seg[s].modified = x.seg[s].modified /\ y.seg[s].plain = x.seg[s].plain
      BY <1>4
    <2> QED BY <2>1, <2>2, <2>3, <2>4 DEF CardsOf, CARD_MARKED, CARD_MARKED_OLD, CARD_CLEAR
  <1> QED BY <1>10, <1>11 DEF CardInv

\* The sweep of a major collection.
LEMMA SweepCards ==
  ASSUME NEW x, NEW objects, NEW high, Owned(x, objects, high), NEW reachable, NEW y,
         SweepEffect(x, reachable, y), NEW o \in Objs, CardInv(x, o)
  PROVE  CardInv(y, o)
  <1>1. OwnerInv(x, objects, o) /\ \A s \in Segs: OpenInv(x, s)
    BY DEF Owned
  <1>2. CardsSwept(x, y) /\ \A s \in Segs: ListsSwept(x, s, reachable, y)
    BY DEF SweepEffect
  <1>3. ASSUME NEW s \in Segs
        PROVE  /\ y.seg[s].modified = x.seg[s].modified /\ y.seg[s].plain = x.seg[s].plain
               /\ Ovf(y, s) \subseteq Ovf(x, s) /\ y.seg[s].cards_set = {}
               /\ x.seg[s].cards_set \subseteq x.seg[s].with_cards
    <2>1. ListsSwept(x, s, reachable, y)
      BY <1>2
    <2>2. y.seg[s].modified = x.seg[s].modified /\ y.seg[s].plain = x.seg[s].plain
      BY <2>1 DEF ListsSwept, SameListsBut, ListFields
    <2>3. x.seg[s].cards_set \subseteq x.seg[s].with_cards
      BY <1>1 DEF OpenInv
    <2>4. y.seg[s].cards_set = x.seg[s].cards_set \ x.seg[s].with_cards
      BY <2>1 DEF ListsSwept
    <2>5. Ovf(y, s) \subseteq Ovf(x, s)
      BY <2>1 DEF ListsSwept, Ovf
    <2>6. y.seg[s].cards_set = {}
      BY ONLY <2>3, <2>4
    <2> QED BY <2>2, <2>3, <2>5, <2>6
  <1>4. ASSUME NEW c \in Cells(o)
        PROVE  y.cards[o][c] =
                 IF \/ x.cards[o][c] = CARD_CLEAR
                    \/ \E s \in Segs: o \in x.seg[s].with_cards /\ IS_OVERFLOW_OBJ(x, s, o)
                 THEN CARD_CLEAR
                 ELSE IF \E s \in Segs: o \in x.seg[s].with_cards THEN CARD_MARKED_OLD
                      ELSE x.cards[o][c]
    BY <1>2 DEF CardsSwept
  <1>5. ASSUME NEW s \in Segs, o \in x.seg[s].modified
        PROVE  \A t \in Segs: ~IS_OVERFLOW_OBJ(x, t, o)
    BY <1>1, <1>5 DEF OwnerInv, IS_OVERFLOW_OBJ, Num
  <1>6. ASSUME NEW s \in Segs, o \in Ovf(x, s)
        PROVE  IS_OVERFLOW_OBJ(x, s, o) /\ \A t \in Segs: o \notin x.seg[t].modified
    BY <1>1, <1>6 DEF OwnerInv, IS_OVERFLOW_OBJ, Num
  <1>7. CardKind(x, o) /\ \A s \in Segs: CardsOf(x, s, o)
    BY DEF CardInv
  \* An overflow object loses its marks.
  <1>8. ASSUME NEW s \in Segs, o \in Ovf(x, s), NEW c \in Cells(o)
        PROVE  y.cards[o][c] = CARD_CLEAR
    <2>1. x.cards[o][c] # CARD_CLEAR => \E t \in Segs: o \in Ovf(x, t)
                                                        /\ o \in x.seg[t].cards_set
      BY <1>6, <1>7, <1>8 DEF CardKind
    <2> QED BY <1>3, <1>4, <1>6, <2>1
  <1>9. CardKind(y, o)
    <2> SUFFICES ASSUME NEW c \in Cells(o)
                 PROVE  /\ y.cards[o][c] \in {CARD_CLEAR, CARD_MARKED, CARD_MARKED_OLD}
                        /\ y.cards[o][c] # CARD_CLEAR =>
                             /\ o \in UsesCards
                             /\ \E s \in Segs: o \in y.seg[s].modified
                                  \/ (o \in Ovf(y, s) /\ o \in y.seg[s].cards_set)
      BY DEF CardKind
    <2>1. /\ x.cards[o][c] \in {CARD_CLEAR, CARD_MARKED, CARD_MARKED_OLD}
          /\ x.cards[o][c] # CARD_CLEAR =>
               /\ o \in UsesCards
               /\ \E s \in Segs: o \in x.seg[s].modified
                    \/ (o \in Ovf(x, s) /\ o \in x.seg[s].cards_set)
      BY <1>7 DEF CardKind
    <2>2. y.cards[o][c] # CARD_CLEAR => x.cards[o][c] # CARD_CLEAR
      BY <1>4
    <2>3. y.cards[o][c] \in {CARD_CLEAR, CARD_MARKED, CARD_MARKED_OLD}
      BY <1>4, <2>1
    <2> QED BY <1>3, <1>8, <2>1, <2>2, <2>3
  <1>10. ASSUME NEW s \in Segs
         PROVE  CardsOf(y, s, o)
    <2>1. CardsOf(x, s, o)
      BY <1>7
    <2>2. ASSUME o \in Ovf(y, s), NEW c \in Cells(o)
          PROVE  y.cards[o][c] # CARD_MARKED_OLD
      BY <1>3, <1>8, <2>2 DEF CARD_CLEAR, CARD_MARKED_OLD
    <2>3. ASSUME o \in y.seg[s].modified, NEW c \in Cells(o)
          PROVE  /\ y.cards[o][c] # CARD_MARKED
                 /\ x.cards[o][c] = CARD_MARKED_OLD => y.cards[o][c] = CARD_MARKED_OLD
                 /\ x.cards[o][c] = CARD_CLEAR <=> y.cards[o][c] = CARD_CLEAR
      <3>1. o \in x.seg[s].modified /\ \A t \in Segs: ~IS_OVERFLOW_OBJ(x, t, o)
        BY <1>3, <1>5, <2>3
      <3>2. x.cards[o][c] = CARD_MARKED => o \in x.seg[s].with_cards
        BY <1>3, <2>1, <3>1 DEF CardsOf
      <3> QED BY <1>4, <3>1, <3>2 DEF CARD_MARKED, CARD_MARKED_OLD, CARD_CLEAR
    <2>4. y.seg[s].modified = x.seg[s].modified /\ y.seg[s].plain = x.seg[s].plain
      BY <1>3
    <2> QED BY <2>1, <2>2, <2>3, <2>4 DEF CardsOf, CARD_MARKED, CARD_MARKED_OLD, CARD_CLEAR
  <1> QED BY <1>9, <1>10 DEF CardInv

\* A major collection.
LEMMA MajorCards ==
  ASSUME BaseInv, NEW o \in Objs, CardInv(sys, o)
  PROVE  CardInv(Major, o)
  <1>1. Owned(sys, public, highest_overflow_number) /\ ListInv(sys, public)
    BY DEF BaseInv, OwnedInv, PagesInv
  <1>2. PICK a, b: MajorSteps(a, b, public, highest_overflow_number)
    BY <1>1, MajorParts
  <1> DEFINE S == {s \in Segs: sys.seg[s].young # {}}
  <1>3. S \in SUBSET Segs /\ MinorLists(sys, S, FALSE, a)
    BY <1>2 DEF MajorSteps
  <1>4. ReshareEffect(a, b) /\ Owned(b, public, highest_overflow_number)
        /\ SweepEffect(b, Reachable(b, public), Major)
    BY <1>2 DEF MajorSteps
  <1> HIDE DEF S
  <1>5. CardInv(a, o)
    BY <1>1, <1>3, MinorCards
  <1>6. b.cards = a.cards /\ b.seg = a.seg
    BY <1>4 DEF ReshareEffect, SameBut, Fields
  <1>7. CardInv(b, o)
    <2>1. SameCards(a, b, o)
      BY <1>6 DEF SameCards, Ovf
    <2> QED BY <1>5, <2>1, CardsStay
  <1> QED BY <1>4, <1>7, SweepCards

\* A modified object is committed, and nobody else's.
LEMMA OneModifier ==
  ASSUME BaseInv, NEW s \in Segs, NEW o \in sys.seg[s].modified
  PROVE  /\ o \in Objs /\ o \in public
         /\ \A t \in Segs: /\ o \in sys.seg[t].modified => t = s
                           /\ o \notin sys.seg[t].mine \union sys.seg[t].young
                           /\ o \notin Ovf(sys, t) /\ sys.number[o] # Num(sys, t)
  <1>1. o \in Objs
    BY DEF BaseInv, OwnedInv, Owned, OpenInv
  <1>2. OwnerInv(sys, public, o) /\ ObjectInv(sys, public, o)
    BY <1>1 DEF BaseInv, OwnedInv, Owned, PagesInv, ListInv
  <1>3. o \in public
    BY <1>2 DEF OwnerInv
  <1>4. ASSUME NEW t \in Segs
        PROVE  /\ o \in sys.seg[t].modified => t = s
               /\ o \notin sys.seg[t].mine \union sys.seg[t].young
               /\ o \notin Ovf(sys, t) /\ sys.number[o] # Num(sys, t)
    BY <1>2, <1>3 DEF OwnerInv, ObjectInv, Segs
  <1> QED BY <1>1, <1>3, <1>4

\* The end of a commit.
LEMMA CommitCards ==
  ASSUME BaseInv, NEW s \in Segs, NEW x, CommitStep(s, x), NEW o \in Objs, CardInv(sys, o)
  PROVE  CardInv(sys, o)'
  <1>1. /\ x = sys \/ x = Major
        /\ CommitLists(x, s, sys') /\ pc[s].k = "commit"
    BY DEF CommitStep
  <1>2. CardInv(x, o)
    BY <1>1, MajorCards
  <1>3. /\ Owned(x, public, highest_overflow_number) /\ x.seg[s].with_cards = {}
        /\ \A t \in Segs: x.seg[t].modified = sys.seg[t].modified
    BY <1>1, AtSafePoint DEF Committing
  <1>4. x.seg[s].cards_set = {}
    <2>1. x.seg[s].cards_set \subseteq x.seg[s].with_cards
      BY <1>3 DEF Owned, OpenInv
    <2> QED BY <1>3, <2>1
  <1>5. \A c \in Cells(o): sys'.cards[o][c] =
          IF o \in sys.seg[s].modified /\ o \in UsesCards THEN CARD_CLEAR ELSE x.cards[o][c]
    <2>1. CellsCopied(x, s, x.seg[s].modified, x.seg[s].modified \intersect UsesCards, sys')
      BY <1>1 DEF CommitLists
    <2> QED BY <1>3, <2>1 DEF CellsCopied
  <1>6. sys'.seg[s].modified = {} /\ Ovf(sys', s) = {}
    BY <1>1 DEF CommitLists, Ovf
  <1>7. ASSUME NEW t \in Segs, t # s
        PROVE  /\ sys'.seg[t].modified = x.seg[t].modified /\ sys'.seg[t].plain = x.seg[t].plain
               /\ sys'.seg[t].cards_set = x.seg[t].cards_set /\ Ovf(sys', t) = Ovf(x, t)
    <2>1. SameListsBut(x, sys', t, {})
      BY <1>1, <1>7 DEF CommitLists
    <2> QED BY <2>1 DEF SameListsBut, ListFields, Ovf
  <1>8. CardKind(x, o) /\ \A t \in Segs: CardsOf(x, t, o)
    BY <1>2 DEF CardInv
  <1>9. CardKind(sys', o)
    BY <1>3, <1>4, <1>5, <1>7, <1>8 DEF CardKind
  <1>10. ASSUME NEW t \in Segs
         PROVE  CardsOf(sys', t, o)
    <2>1. CASE t = s
      BY <1>6, <2>1 DEF CardsOf
    <2>2. CASE t # s
      <3>1. CardsOf(x, t, o)
        BY <1>8
      <3>2. o \in x.seg[t].modified => \A c \in Cells(o): sys'.cards[o][c] = x.cards[o][c]
        BY <1>3, <1>5, <2>2, OneModifier
      <3>3. \A c \in Cells(o): sys'.cards[o][c] \in {CARD_CLEAR, x.cards[o][c]}
        BY <1>5
      <3> QED BY <1>7, <2>2, <3>1, <3>2, <3>3 DEF CardsOf, CARD_CLEAR, CARD_MARKED_OLD
    <2> QED BY <2>1, <2>2
  <1>11. CardInv(sys', o)
    BY <1>9, <1>10 DEF CardInv
  <1>12. ASSUME NEW t \in Segs, o \in sys'.seg[t].modified, NEW c \in Cells(o)
         PROVE  Changed(t, o, c)' => Changed(t, o, c)
    <2>1. t # s /\ o \in sys.seg[t].modified
      BY <1>3, <1>6, <1>7, <1>12
    <2>2. o \notin sys.seg[s].modified \union sys.seg[s].mine
      BY <2>1, OneModifier
    <2>3. own'[t] = own[t] /\ committed'[o][c] = committed[o][c]
      BY <2>1, <2>2 DEF CommitStep
    <2> QED BY <2>3 DEF Changed
  <1> QED BY <1>11, <1>12, CardsPrimed

\* Aborts.
LEMMA AbortCards ==
  ASSUME BaseInv, NEW S, NEW x, AbortStepOf(S, x), NEW o \in Objs, CardInv(sys, o)
  PROVE  CardInv(sys, o)'
  <1>1. S \in SUBSET Segs /\ AbortLists(x, S, sys') /\ CopyOf(sys, x) /\ UNCHANGED committed
    BY DEF AbortStepOf
  <1>2. x.seg = sys.seg /\ x.cards = sys.cards
    BY <1>1 DEF CopyOf, SameBut, Fields
  <1>3. \A c \in Cells(o): sys'.cards[o][c] =
          IF \E s \in S: o \in Marked(sys, s) THEN CARD_CLEAR ELSE sys.cards[o][c]
    <2>1. \A c \in Cells(o): sys'.cards[o][c] =
            IF \E s \in S: o \in Marked(x, s) THEN CARD_CLEAR ELSE x.cards[o][c]
      BY <1>1 DEF AbortLists
    <2>2. \A s: Marked(x, s) = Marked(sys, s)
      BY <1>2 DEF Marked
    <2> QED BY <1>2, <2>1, <2>2
  <1>4. ASSUME NEW s \in Segs
        PROVE  o \in Marked(sys, s) <=>
                 \/ o \in Ovf(sys, s) /\ o \in sys.seg[s].cards_set
                 \/ o \in sys.seg[s].modified /\ o \in UsesCards
    BY DEF Marked, Ovf
  <1>5. ASSUME NEW s \in S
        PROVE  sys'.seg[s].modified = {} /\ Ovf(sys', s) = {}
    BY <1>1 DEF AbortLists, ListsForgotten, Ovf
  <1>6. ASSUME NEW t \in Segs, t \notin S
        PROVE  /\ sys'.seg[t].modified = sys.seg[t].modified
               /\ sys'.seg[t].plain = sys.seg[t].plain
               /\ sys'.seg[t].cards_set = sys.seg[t].cards_set /\ Ovf(sys', t) = Ovf(sys, t)
    <2>1. SameListsBut(x, sys', t, {})
      BY <1>1, <1>6 DEF AbortLists
    <2> QED BY <1>2, <2>1 DEF SameListsBut, ListFields, Ovf
  <1>7. CardKind(sys, o) /\ \A t \in Segs: CardsOf(sys, t, o)
    BY DEF CardInv
  <1>8. CardKind(sys', o)
    <2> SUFFICES ASSUME NEW c \in Cells(o)
                 PROVE  /\ sys'.cards[o][c] \in {CARD_CLEAR, CARD_MARKED, CARD_MARKED_OLD}
                        /\ sys'.cards[o][c] # CARD_CLEAR =>
                             /\ o \in UsesCards
                             /\ \E s \in Segs: o \in sys'.seg[s].modified
                                  \/ (o \in Ovf(sys', s) /\ o \in sys'.seg[s].cards_set)
      BY DEF CardKind
    <2>1. /\ sys.cards[o][c] \in {CARD_CLEAR, CARD_MARKED, CARD_MARKED_OLD}
          /\ sys.cards[o][c] # CARD_CLEAR =>
               /\ o \in UsesCards
               /\ \E s \in Segs: o \in sys.seg[s].modified
                    \/ (o \in Ovf(sys, s) /\ o \in sys.seg[s].cards_set)
      BY <1>7 DEF CardKind
    <2>2. sys'.cards[o][c] # CARD_CLEAR => sys'.cards[o][c] = sys.cards[o][c]
                                           /\ \A s \in S: o \notin Marked(sys, s)
      BY <1>3
    <2>3. sys'.cards[o][c] \in {CARD_CLEAR, CARD_MARKED, CARD_MARKED_OLD}
      BY <1>3, <2>1
    <2> QED BY <1>1, <1>4, <1>6, <2>1, <2>2, <2>3
  <1>9. ASSUME NEW t \in Segs
        PROVE  CardsOf(sys', t, o)
    <2>1. CASE t \in S
      BY <1>5, <2>1 DEF CardsOf
    <2>2. CASE t \notin S
      <3>1. CardsOf(sys, t, o)
        BY <1>7
      <3>2. o \in sys.seg[t].modified => \A c \in Cells(o): sys'.cards[o][c] = sys.cards[o][c]
        <4>1. ASSUME o \in sys.seg[t].modified
              PROVE  \A s \in S: o \notin Marked(sys, s)
          BY <1>1, <1>4, <2>2, <4>1, OneModifier
        <4> QED BY <1>3, <4>1
      <3>3. \A c \in Cells(o): sys'.cards[o][c] \in {CARD_CLEAR, sys.cards[o][c]}
        BY <1>3
      <3> QED BY <1>6, <2>2, <3>1, <3>2, <3>3 DEF CardsOf, CARD_CLEAR, CARD_MARKED_OLD
    <2> QED BY <2>1, <2>2
  <1>10. CardInv(sys', o)
    BY <1>8, <1>9 DEF CardInv
  <1>11. ASSUME NEW t \in Segs, o \in sys'.seg[t].modified, NEW c \in Cells(o)
         PROVE  Changed(t, o, c)' => Changed(t, o, c)
    <2>1. t \notin S
      BY <1>5, <1>11
    <2>2. own'[t] = own[t]
      BY <2>1 DEF AbortStepOf
    <2> QED BY <1>1, <2>2 DEF Changed
  <1> QED BY <1>10, <1>11, CardsPrimed

\* The barriers, at the first write to an object after a minor collection.
LEMMA BarrierCards ==
  ASSUME ~MIXED_BARRIERS, BaseInv, WrittenInv, NEW s \in Segs, NEW q, NEW e, NEW card, NEW x,
         BarrierWrite(s, q, e, card, x), NEW o \in Objs
  PROVE  CardInv(sys, o)'
  <1>1. /\ q \in Objs /\ e \in Cells(q) /\ BarrierLists(sys, s, q, e, card, x)
        /\ SameBut(x, sys', {"mem"}) /\ committed' = committed
        /\ card \in BOOLEAN /\ (card => q \in UsesCards)
        /\ q \in sys.seg[s].modified \union Ovf(sys, s)
    BY DEF BarrierWrite, WriteStep
  <1>2. sys'.cards = x.cards /\ sys'.seg = x.seg
    BY <1>1 DEF SameBut, Fields
  <1>3. \A t \in Segs: \A p \in Objs: \A d \in Cells(p): own'[t][p][d] =
          IF t = s /\ p = q /\ d = e THEN 1 - own[s][q][e] ELSE own[t][p][d]
    BY DEF BarrierWrite, WriteStep
  <1>4. CardKind(sys, o) /\ \A t \in Segs: CardsOf(sys, t, o)
    BY DEF WrittenInv, CardInv
  <1>5. ASSUME NEW t \in Segs
        PROVE  /\ x.seg[t].modified = sys.seg[t].modified /\ Ovf(x, t) = Ovf(sys, t)
               /\ t # s \/ card => x.seg[t].plain = sys.seg[t].plain
               /\ t # s => x.seg[t].cards_set = sys.seg[t].cards_set
    <2>1. CASE t = s
      BY <1>1, <2>1 DEF BarrierLists, MarkedCard, OpenedObject, SameListsBut, ListFields, Ovf
    <2>2. CASE t # s
      <3>1. SameListsBut(sys, x, t, {})
        BY <1>1, <2>2 DEF BarrierLists
      <3> QED BY <2>2, <3>1 DEF SameListsBut, ListFields, Ovf
    <2> QED BY <2>1, <2>2
  <1>6. CASE o # q
    <2>1. SameCards(sys, x, o)
      <3>1. \A c \in Cells(o): x.cards[o][c] = sys.cards[o][c]
        BY <1>1, <1>6 DEF BarrierLists, MarkedCard, OpenedObject
      <3>2. /\ o \in x.seg[s].cards_set <=> o \in sys.seg[s].cards_set
            /\ o \in x.seg[s].plain <=> o \in sys.seg[s].plain
        <4>1. CASE card
          BY <1>1, <1>5, <1>6, <4>1 DEF BarrierLists, MarkedCard
        <4>2. CASE ~card
          BY <1>1, <1>6, <4>2 DEF BarrierLists, OpenedObject
        <4> QED BY <4>1, <4>2
      <3>3. ASSUME NEW t \in Segs
            PROVE  /\ o \in x.seg[t].modified <=> o \in sys.seg[t].modified
                   /\ o \in x.seg[t].plain <=> o \in sys.seg[t].plain
                   /\ o \in x.seg[t].cards_set <=> o \in sys.seg[t].cards_set
                   /\ o \in Ovf(x, t) <=> o \in Ovf(sys, t)
        BY <1>5, <3>2
      <3> QED BY <3>1, <3>3 DEF SameCards
    <2>2. CardInv(x, o)
      BY <1>4, <2>1, CardsStay DEF CardInv
    <2>3. CardInv(sys', o)
      <3>1. SameCards(x, sys', o)
        BY <1>2 DEF SameCards, Ovf
      <3> QED BY <2>2, <3>1, CardsStay
    <2>4. \A t \in Segs: \A c \in Cells(o): Changed(t, o, c)' => Changed(t, o, c)
      BY <1>1, <1>3, <1>6 DEF Changed
    <2> QED BY <2>3, <2>4, CardsPrimed
  <1>7. CASE o = q
    <2>1. /\ \A t \in Segs: sys'.seg[t].modified = sys.seg[t].modified
          /\ \A t \in Segs: Ovf(sys', t) = Ovf(sys, t)
          /\ \A t \in Segs: Ovf(sys, t)' = Ovf(sys', t)
      BY <1>2, <1>5 DEF Ovf
    <2>2. OwnerInv(sys, public, o) /\ NumbersInv(sys, highest_overflow_number)
          /\ OpenInv(sys, s)
      BY DEF BaseInv, OwnedInv, Owned
    <2>3. ASSUME o \in sys.seg[s].modified
          PROVE  /\ o \notin Ovf(sys, s) /\ ~IS_OVERFLOW_OBJ(sys, s, o)
                 /\ \A t \in Segs \ {s}: o \notin sys.seg[t].modified \union Ovf(sys, t)
      BY <2>3, OneModifier DEF IS_OVERFLOW_OBJ, Num
    <2>4. ASSUME o \in Ovf(sys, s)
          PROVE  /\ o \notin sys.seg[s].modified /\ IS_OVERFLOW_OBJ(sys, s, o)
                 /\ \A t \in Segs \ {s}: o \notin sys.seg[t].modified \union Ovf(sys, t)
      <3>1. sys.number[o] = Num(sys, s) /\ o \notin public
        BY <2>2, <2>4 DEF OwnerInv
      <3>2. \A t \in Segs: o \notin sys.seg[t].modified
        BY <2>2, <3>1 DEF OwnerInv
      <3>3. \A t \in Segs \ {s}: o \notin Ovf(sys, t)
        BY <2>2, <3>1 DEF OwnerInv, NumbersInv
      <3> QED BY <3>1, <3>2, <3>3 DEF IS_OVERFLOW_OBJ, Num
    <2>5. \A t \in Segs \ {s}: o \notin sys.seg[t].modified \union Ovf(sys, t)
      BY <1>1, <1>7, <2>3, <2>4
    <2>6. o \in sys.seg[s].modified =>
            \/ card /\ o \notin sys.seg[s].plain
            \/ ~card /\ \/ o \in sys.seg[s].plain \union sys.seg[s].cards_set
                        \/ Clear(sys, o)
      <3>1. ASSUME o \in sys.seg[s].modified
            PROVE  \/ card /\ o \in sys.seg[s].cards_set /\ SameBarrier(s, o, card)
                   \/ /\ pc[s].k = "page" /\ pc[s].o = o /\ pc[s].card = card
        BY <1>7, <2>3, <3>1 DEF BarrierWrite
      <3>2. CASE card /\ SameBarrier(s, o, card)
        BY <3>2 DEF SameBarrier
      <3>3. CASE pc[s].k = "page" /\ pc[s].o = o /\ pc[s].card = card
        <4>1. BarrierAt(s)
          BY DEF WrittenInv
        <4> QED BY <1>1, <3>3, <4>1 DEF BarrierAt, Privatizing
      <3> QED BY <3>1, <3>2, <3>3
    <2>7. CASE card
      <3>1. /\ \A d \in Cells(o): sys'.cards[o][d] = IF d = e THEN CARD_MARKED ELSE sys.cards[o][d]
            /\ o \in sys'.seg[s].cards_set /\ sys'.seg[s].plain = sys.seg[s].plain
        BY <1>1, <1>2, <1>5, <1>7, <2>7 DEF BarrierLists, MarkedCard
      <3>2. CardKind(sys, o)'
        <4>1. o \in UsesCards
          BY <1>1, <1>7, <2>7
        <4>2. o \in sys'.seg[s].modified \/ (o \in Ovf(sys, s)' /\ o \in sys'.seg[s].cards_set)
          BY <1>1, <1>7, <2>1, <3>1
        <4>3. \A d \in Cells(o): sys'.cards[o][d] \in {CARD_CLEAR, CARD_MARKED, CARD_MARKED_OLD}
          BY <1>4, <3>1 DEF CardKind
        <4> QED BY <4>1, <4>2, <4>3 DEF CardKind
      <3>3. ASSUME NEW t \in Segs
            PROVE  CardsOf(sys, t, o)'
        <4>1. CASE t # s
          BY <2>1, <2>5, <4>1 DEF CardsOf
        <4>2. CASE t = s
          <5>1. CardsOf(sys, s, o)
            BY <1>4
          <5>2. ASSUME o \in Ovf(sys, s)', NEW d \in Cells(o)
                PROVE  sys'.cards[o][d] # CARD_MARKED_OLD
            BY <2>1, <3>1, <5>1, <5>2 DEF CardsOf, CARD_MARKED, CARD_MARKED_OLD
          <5>3. ASSUME o \in sys'.seg[s].modified, NEW d \in Cells(o), Changed(s, o, d)',
                       o \in UsesCards
                PROVE  sys'.cards[o][d] # CARD_CLEAR
            <6>1. o \in sys.seg[s].modified /\ o \notin sys.seg[s].plain
              BY <2>1, <2>6, <2>7, <5>3
            <6>2. d # e => Changed(s, o, d)
              BY <1>1, <1>3, <1>7, <5>3 DEF Changed
            <6> QED BY <3>1, <5>1, <5>3, <6>1, <6>2 DEF CardsOf, CARD_MARKED, CARD_CLEAR
          <5>4. o \in sys'.seg[s].modified => o \notin sys'.seg[s].plain
            BY <2>1, <2>6, <2>7, <3>1
          <5> QED BY <3>1, <4>2, <5>2, <5>3, <5>4 DEF CardsOf
        <4> QED BY <4>1, <4>2
      <3> QED BY <3>2, <3>3 DEF CardInv
    <2>8. CASE ~card
      <3>1. /\ \A d \in Cells(o): sys'.cards[o][d] =
                 IF o \in sys.seg[s].cards_set
                 THEN IF IS_OVERFLOW_OBJ(sys, s, o) THEN CARD_CLEAR ELSE CARD_MARKED_OLD
                 ELSE sys.cards[o][d]
            /\ ~IS_OVERFLOW_OBJ(sys, s, o) => o \in sys'.seg[s].plain
        BY <1>1, <1>2, <1>7, <2>8 DEF BarrierLists, OpenedObject
      <3>2. CASE o \in Ovf(sys, s)
        <4>1. o \notin sys.seg[s].cards_set => Clear(sys, o)
          BY <1>4, <2>4, <2>5, <3>2 DEF CardKind, Clear
        <4>2. \A d \in Cells(o): sys'.cards[o][d] = CARD_CLEAR
          BY <2>4, <3>1, <3>2, <4>1 DEF Clear
        <4>3. \A t \in Segs: o \notin sys'.seg[t].modified
          BY <2>1, <2>4, <2>5, <3>2
        <4> QED BY <4>2, <4>3 DEF CardInv, CardKind, CardsOf, CARD_CLEAR, CARD_MARKED_OLD
      <3>3. CASE o \in sys.seg[s].modified
        <4>1. \A t \in Segs: o \notin Ovf(sys, t)' /\ (o \in sys'.seg[t].modified <=> t = s)
          BY <2>1, <2>3, <2>5, <3>3
        <4>2. o \in sys'.seg[s].plain
          BY <2>3, <3>1, <3>3
        <4>3. ASSUME o \in sys.seg[s].cards_set
              PROVE  /\ \A d \in Cells(o): sys'.cards[o][d] = CARD_MARKED_OLD
                     /\ o \in UsesCards
          BY <2>2, <2>3, <3>1, <3>3, <4>3 DEF OpenInv
        <4>4. ASSUME o \notin sys.seg[s].cards_set
              PROVE  /\ \A d \in Cells(o): sys'.cards[o][d] = sys.cards[o][d]
                     /\ \E v \in {CARD_CLEAR, CARD_MARKED_OLD}:
                          \A d \in Cells(o): sys.cards[o][d] = v
          <5>1. o \in sys.seg[s].plain \/ Clear(sys, o)
            BY <2>6, <2>8, <3>3, <4>4
          <5>2. CASE Clear(sys, o)
            BY <3>1, <4>4, <5>2 DEF Clear
          <5>3. CASE o \in sys.seg[s].plain
            BY <1>4, <3>1, <3>3, <4>4, <5>3 DEF CardsOf
          <5> QED BY <5>1, <5>2, <5>3
        <4>5. PICK v \in {CARD_CLEAR, CARD_MARKED_OLD}: \A d \in Cells(o): sys'.cards[o][d] = v
          BY <4>3, <4>4
        <4>6. \A d \in Cells(o): sys'.cards[o][d] # CARD_CLEAR => o \in UsesCards
          BY <1>4, <4>3, <4>4 DEF CardKind
        <4>7. CardKind(sys, o)'
          BY <4>1, <4>5, <4>6 DEF CardKind
        <4>8. \A t \in Segs: CardsOf(sys, t, o)'
          BY <4>1, <4>2, <4>5 DEF CardsOf, CARD_CLEAR, CARD_MARKED, CARD_MARKED_OLD
        <4> QED BY <4>7, <4>8 DEF CardInv
      <3> QED BY <1>1, <1>7, <3>2, <3>3
    <2> QED BY <1>1, <2>7, <2>8
  <1> QED BY <1>6, <1>7

\* A thread in the barrier that does not move, while its lists and the cards of
\* what it has modified stay as they are.
LEMMA BarrierStays ==
  ASSUME BaseInv, NEW t \in Segs, BarrierAt(t), pc'[t] = pc[t],
         sys'.seg[t].plain = sys.seg[t].plain, sys'.seg[t].cards_set = sys.seg[t].cards_set,
         \A o \in sys.seg[t].modified: \A c \in Cells(o):
           /\ sys'.cards[o][c] = sys.cards[o][c]
           /\ Changed(t, o, c)' => Changed(t, o, c)
  PROVE  BarrierAt(t)'
  <1>1. pc[t].k \in Privatizing => pc[t].o \in sys.seg[t].modified
    BY DEF BaseInv, PlacedInv, Placed
  <1> QED BY <1>1 DEF BarrierAt, Clear

\* Steps that leave the cards and the lists of the barriers alone.
LEMMA QuietCards ==
  ASSUME BaseInv, WrittenInv, NEW s \in Segs, sys'.cards = sys.cards,
         \A t \in Segs: /\ sys'.seg[t].modified = sys.seg[t].modified
                        /\ sys'.seg[t].plain = sys.seg[t].plain
                        /\ sys'.seg[t].cards_set = sys.seg[t].cards_set
                        /\ sys'.seg[t].overflow = sys.seg[t].overflow,
         \A t \in Segs \ {s}: pc'[t] = pc[t],
         \A t \in Segs: \A o \in sys.seg[t].modified:
           o \notin sys.seg[t].plain \/ t # s =>
             \A c \in Cells(o): Changed(t, o, c)' => Changed(t, o, c),
         BarrierAt(s)'
  PROVE  WrittenInv'
  <1>1. ASSUME NEW o \in Objs
        PROVE  CardInv(sys, o)'
    <2>1. SameCards(sys, sys', o)
      BY DEF SameCards, Ovf
    <2>2. CardInv(sys', o)
      BY <2>1, CardsStay DEF WrittenInv
    <2>3. ASSUME NEW t \in Segs, o \in sys'.seg[t].modified, o \notin sys'.seg[t].plain,
                 NEW c \in Cells(o)
          PROVE  Changed(t, o, c)' => Changed(t, o, c)
      BY <2>3
    <2> QED BY <2>2, <2>3, CardsPrimed
  <1>2. ASSUME NEW t \in Segs
        PROVE  BarrierAt(t)'
    <2>1. CASE t # s
      <3>1. BarrierAt(t)
        BY DEF WrittenInv
      <3>2. \A o \in sys.seg[t].modified: \A c \in Cells(o):
              /\ sys'.cards[o][c] = sys.cards[o][c]
              /\ Changed(t, o, c)' => Changed(t, o, c)
        BY <2>1
      <3> QED BY <2>1, <3>1, <3>2, BarrierStays
    <2> QED BY <2>1
  <1> QED BY <1>1, <1>2 DEF WrittenInv

\* A thread outside of the barrier.
LEMMA NoBarrier ==
  ASSUME NEW s \in Segs, pc'[s].k \notin Privatizing
  PROVE  BarrierAt(s)'
  BY DEF BarrierAt

\* Privatizing, allocating and pushing.
LEMMA QuietStepCards ==
  ASSUME BaseInv, WrittenInv, NEW s \in Segs, NEW o,
         \/ PrivatizingStep(s) \/ AllocateStep(s, o) \/ OnTheWay(s)
         \/ PopRootStep(s, o) \/ PushWaits(s) \/ ObjectPushed(s, o)
  PROVE  WrittenInv'
  <1>1. \A t \in Segs \ {s}: pc'[t] = pc[t]
    BY DEF PrivatizingStep, QuietPrivatizing, BitSet, PageRead, PageWritten, Moved, Others,
           AllocateStep, OnTheWay, PopRootStep, PushWaits, ObjectPushed
  <1>2. UNCHANGED <<own, committed>>
    BY DEF PrivatizingStep, AllocateStep, OnTheWay, PopRootStep, PushWaits, ObjectPushed, SameHeap
  <1>3. \A t \in Segs: \A p: \A c: Changed(t, p, c)' <=> Changed(t, p, c)
    BY <1>2 DEF Changed
  <1>4. CASE PrivatizingStep(s)
    <2>1. sys'.seg = sys.seg /\ sys'.cards = sys.cards
      BY <1>4 DEF PrivatizingStep, QuietPrivatizing, BitSet, PageRead, PageWritten, SameBut, Fields
    <2>2. pc[s].k \in Privatizing /\ pc'[s].o = pc[s].o /\ pc'[s].card = pc[s].card
      BY <1>4 DEF PrivatizingStep, QuietPrivatizing, BitSet, PageRead, PageWritten, Moved,
                  Privatizing
    <2>3. BarrierAt(s)'
      <3>1. BarrierAt(s)
        BY DEF WrittenInv
      <3> QED BY <1>2, <2>1, <2>2, <3>1 DEF BarrierAt, Clear, Changed
    <2> QED BY <1>1, <1>3, <2>1, <2>3, QuietCards
  <1>5. CASE AllocateStep(s, o) \/ OnTheWay(s) \/ PushWaits(s)
    <2>1. sys'.seg = sys.seg /\ sys'.cards = sys.cards
      BY <1>5 DEF AllocateStep, OnTheWay, PushWaits, SameHeap, SameBut, Fields
    <2>2. BarrierAt(s)'
      BY <1>5, NoBarrier DEF AllocateStep, OnTheWay, PushWaits, Allocating, Privatizing
    <2> QED BY <1>1, <1>3, <2>1, <2>2, QuietCards
  <1>6. CASE PopRootStep(s, o)
    <2>1. sys'.cards = sys.cards
      BY <1>6 DEF PopRootStep, SameBut, Fields
    <2>2. BarrierAt(s)'
      BY <1>6, NoBarrier DEF PopRootStep, Running, Privatizing
    <2>3. \A t \in Segs: \A f \in ListFields \ {"mine"}: sys'.seg[t][f] = sys.seg[t][f]
      BY <1>6, OneListFields DEF PopRootStep
    <2>4. \A t \in Segs: /\ sys'.seg[t].modified = sys.seg[t].modified
                         /\ sys'.seg[t].plain = sys.seg[t].plain
                         /\ sys'.seg[t].cards_set = sys.seg[t].cards_set
                         /\ sys'.seg[t].overflow = sys.seg[t].overflow
      BY <2>3 DEF ListFields
    <2> QED BY <1>1, <1>3, <2>1, <2>2, <2>4, QuietCards
  <1>7. CASE ObjectPushed(s, o)
    <2>1. sys'.seg = sys.seg
      BY <1>7 DEF ObjectPushed, SameBut, Fields
    <2>2. BarrierAt(s)'
      BY <1>7, NoBarrier DEF ObjectPushed, Privatizing
    <2>3. \A p \in Objs: \A c \in Cells(p): sys'.cards[p][c] = sys.cards[p][c]
      BY <1>7 DEF ObjectPushed, CellsCopied
    <2>4. ASSUME NEW p \in Objs
          PROVE  CardInv(sys, p)'
      <3>1. SameCards(sys, sys', p)
        BY <2>1, <2>3 DEF SameCards, Ovf
      <3>2. CardInv(sys', p)
        BY <3>1, CardsStay DEF WrittenInv
      <3> QED BY <1>3, <3>2, CardsPrimed
    <2>5. ASSUME NEW t \in Segs
          PROVE  BarrierAt(t)'
      <3>1. CASE t # s
        <4>1. sys.seg[t].modified \subseteq Objs /\ BarrierAt(t)
          BY DEF BaseInv, OwnedInv, Owned, OpenInv, WrittenInv
        <4> QED BY <1>1, <1>3, <2>1, <2>3, <3>1, <4>1, BarrierStays
      <3> QED BY <2>2, <3>1
    <2> QED BY <2>4, <2>5 DEF WrittenInv
  <1> QED BY <1>4, <1>5, <1>6, <1>7

\* A write without the slow path: an old object that is open is written as
\* a whole.
LEMMA DirectWriteCards ==
  ASSUME BaseInv, WrittenInv, NEW s \in Segs, NEW q, NEW e, DirectWrite(s, q, e)
  PROVE  WrittenInv'
  <1>1. /\ WriteStep(s, q, e, sys) /\ pc' = pc /\ pc[s].k = "idle"
        /\ q \in sys.seg[s].young \union sys.seg[s].open
    BY DEF DirectWrite, Running
  <1>2. sys'.cards = sys.cards /\ sys'.seg = sys.seg
    BY <1>1 DEF WriteStep, SameBut, Fields
  <1>3. q \in sys.seg[s].modified => q \in sys.seg[s].plain
    <2>1. ASSUME q \in sys.seg[s].modified
          PROVE  q \notin sys.seg[s].young
      BY <2>1, OneModifier
    <2>2. sys.seg[s].open \intersect sys.seg[s].modified \subseteq sys.seg[s].plain
      BY DEF BaseInv, OwnedInv, Owned, OpenInv
    <2> QED BY <1>1, <2>1, <2>2
  <1>4. ASSUME NEW t \in Segs, NEW o \in sys.seg[t].modified,
               o \notin sys.seg[t].plain \/ t # s, NEW c \in Cells(o)
        PROVE  Changed(t, o, c)' => Changed(t, o, c)
    <2>1. o \in Objs
      BY OneModifier
    <2>2. ~(t = s /\ o = q)
      BY <1>3, <1>4
    <2>3. own'[t][o][c] = own[t][o][c] /\ committed' = committed
      BY <1>1, <2>1, <2>2 DEF WriteStep
    <2> QED BY <2>3 DEF Changed
  <1>5. BarrierAt(s)'
    BY <1>1, NoBarrier DEF Privatizing
  <1> QED BY <1>1, <1>2, <1>4, <1>5, QuietCards

\* A new object is in no list of modified ones.
LEMMA MadeCards ==
  ASSUME BaseInv, WrittenInv, NEW s \in Segs, Made(s)
  PROVE  WrittenInv'
  <1> DEFINE q == pc[s].o
  <1>1. /\ pc[s].k \in Allocating /\ pc'[s] = Idle /\ Others(s)
        /\ SameBut(sys, sys', {"mem", "seg"}) /\ OneList(s, {"young", "mine"})
        /\ committed' = committed
    BY DEF Made
  <1>2. \A t \in Segs: \A p \in Objs: \A d \in Cells(p): own'[t][p][d] =
          IF t = s /\ p = q THEN 0 ELSE own[t][p][d]
    BY DEF Made
  <1>3. sys'.cards = sys.cards
    BY <1>1 DEF SameBut, Fields
  <1>4. \A t \in Segs: \A f \in ListFields \ {"young", "mine"}:
          sys'.seg[t][f] = sys.seg[t][f]
    BY <1>1, OneListFields
  <1>5. \A t \in Segs: /\ sys'.seg[t].modified = sys.seg[t].modified
                       /\ sys'.seg[t].plain = sys.seg[t].plain
                       /\ sys'.seg[t].cards_set = sys.seg[t].cards_set
                       /\ sys'.seg[t].overflow = sys.seg[t].overflow
    BY <1>4 DEF ListFields
  <1>6. \A t \in Segs: q \notin sys.seg[t].modified
    <2>1. q \notin public
      BY <1>1 DEF BaseInv, PagesInv, FreshInv
    <2> QED BY <2>1, OneModifier
  <1>7. ASSUME NEW t \in Segs, NEW o \in sys.seg[t].modified, NEW c \in Cells(o)
        PROVE  Changed(t, o, c)' => Changed(t, o, c)
    <2>1. o \in Objs /\ o # q
      BY <1>6, OneModifier
    <2>2. own'[t][o][c] = own[t][o][c]
      BY <1>2, <2>1
    <2> QED BY <1>1, <2>2 DEF Changed
  <1>8. BarrierAt(s)'
    BY <1>1, NoBarrier DEF Idle, Privatizing
  <1> QED BY <1>1, <1>3, <1>5, <1>7, <1>8, QuietCards DEF Others

\* The end of a barrier.
LEMMA BarrierWriteCards ==
  ASSUME ~MIXED_BARRIERS, BaseInv, WrittenInv, NEW s \in Segs, NEW q, NEW e, NEW card, NEW x,
         BarrierWrite(s, q, e, card, x)
  PROVE  WrittenInv'
  <1>1. /\ WriteStep(s, q, e, x) /\ BarrierLists(sys, s, q, e, card, x)
        /\ q \in sys.seg[s].modified \union Ovf(sys, s)
        /\ \A t \in Segs \ {s}: pc'[t] = pc[t]
        /\ pc'[s].k = "idle"
    BY DEF BarrierWrite, Running, Idle, Others
  <1>2. sys'.cards = x.cards /\ sys'.seg = x.seg /\ committed' = committed
    BY <1>1 DEF WriteStep, SameBut, Fields
  <1>3. \A o \in Objs: CardInv(sys, o)'
    BY BarrierCards
  <1>4. ASSUME NEW t \in Segs
        PROVE  BarrierAt(t)'
    <2>1. CASE t = s
      BY <1>1, <2>1, NoBarrier DEF Privatizing
    <2>2. CASE t # s
      <3>1. SameListsBut(sys, x, t, {})
        BY <1>1, <2>2 DEF BarrierLists
      <3>2. sys'.seg[t].plain = sys.seg[t].plain /\ sys'.seg[t].cards_set = sys.seg[t].cards_set
        BY <1>2, <3>1 DEF SameListsBut, ListFields
      <3>3. ASSUME NEW o \in sys.seg[t].modified, NEW c \in Cells(o)
            PROVE  /\ sys'.cards[o][c] = sys.cards[o][c]
                   /\ Changed(t, o, c)' => Changed(t, o, c)
        <4>1. o \in Objs /\ o # q
          BY <1>1, <2>2, OneModifier
        <4>2. x.cards[o][c] = sys.cards[o][c]
          BY <1>1, <4>1 DEF BarrierLists, MarkedCard, OpenedObject
        <4>3. own'[t][o][c] = own[t][o][c]
          BY <1>1, <4>1 DEF WriteStep
        <4> QED BY <1>2, <4>2, <4>3 DEF Changed
      <3>4. BarrierAt(t)
        BY DEF WrittenInv
      <3> QED BY <1>1, <2>2, <3>2, <3>3, <3>4, BarrierStays
    <2> QED BY <2>1, <2>2
  <1> QED BY <1>3, <1>4 DEF WrittenInv

\* The beginning of a barrier: nobody else modified the object, which has
\* no marked cards when this transaction did not modify it either.
LEMMA LockTakenCards ==
  ASSUME ~MIXED_BARRIERS, BaseInv, WrittenInv, NEW s \in Segs, NEW q \in Objs,
         NEW e \in Cells(q), NEW card, LockTakenStep(s, q, e, card)
  PROVE  WrittenInv'
  <1>1. /\ q \in public /\ SameBarrier(s, q, card) /\ card \in BOOLEAN
        /\ \A t \in Segs \ {s}: q \notin sys.seg[t].modified
        /\ SameBut(sys, sys', {"write_locks", "seg"}) /\ OneList(s, {"modified"})
        /\ sys'.seg[s].modified = sys.seg[s].modified \union {q}
        /\ pc'[s].k = "page" /\ pc'[s].o = q /\ pc'[s].card = card
        /\ \A t \in Segs \ {s}: pc'[t] = pc[t]
        /\ committed' = committed
    BY DEF LockTakenStep, Others
  <1>2. \A t \in Segs: \A p \in Objs: \A d \in Cells(p): own'[t][p][d] =
          IF t = s /\ p = q /\ q \notin sys.seg[s].modified THEN committed[q][d]
          ELSE own[t][p][d]
    BY DEF LockTakenStep
  <1>3. sys'.cards = sys.cards
    BY <1>1 DEF SameBut, Fields
  <1>4. \A t \in Segs: /\ sys'.seg[t].plain = sys.seg[t].plain
                       /\ sys'.seg[t].cards_set = sys.seg[t].cards_set
                       /\ sys'.seg[t].overflow = sys.seg[t].overflow
                       /\ t # s => sys'.seg[t].modified = sys.seg[t].modified
    BY <1>1, OneListFields DEF ListFields
  <1>5. \A t \in Segs: q \notin Ovf(sys, t)
    BY <1>1 DEF BaseInv, OwnedInv, Owned, OwnerInv
  <1>6. ASSUME q \notin sys.seg[s].modified
        PROVE  /\ Clear(sys, q) /\ q \notin sys.seg[s].plain
               /\ \A d \in Cells(q): ~Changed(s, q, d)'
    <2>1. \A t \in Segs: q \notin sys.seg[t].modified
      BY <1>1, <1>6
    <2>2. Clear(sys, q)
      BY <1>5, <2>1 DEF WrittenInv, CardInv, CardKind, Clear
    <2>3. q \notin sys.seg[s].plain
      BY <1>6 DEF BaseInv, OwnedInv, Owned, OpenInv
    <2>4. \A d \in Cells(q): ~Changed(s, q, d)'
      BY <1>1, <1>2, <1>6 DEF Changed
    <2> QED BY <2>2, <2>3, <2>4
  <1>7. \A t \in Segs: \A p \in Objs: \A d \in Cells(p): Changed(t, p, d)' => Changed(t, p, d)
    BY <1>1, <1>2 DEF Changed
  <1>8. ASSUME NEW o \in Objs
        PROVE  CardInv(sys, o)'
    <2>1. CASE o # q
      <3>1. \A t \in Segs: o \in sys'.seg[t].modified <=> o \in sys.seg[t].modified
        BY <1>1, <1>4, <2>1
      <3>2. SameCards(sys, sys', o)
        BY <1>3, <1>4, <3>1 DEF SameCards, Ovf
      <3>3. CardInv(sys', o)
        BY <3>2, CardsStay DEF WrittenInv
      <3> QED BY <1>7, <3>3, CardsPrimed
    <2>2. CASE o = q /\ q \in sys.seg[s].modified
      <3>1. \A t \in Segs: o \in sys'.seg[t].modified <=> o \in sys.seg[t].modified
        BY <1>1, <1>4, <2>2
      <3>2. SameCards(sys, sys', o)
        BY <1>3, <1>4, <3>1 DEF SameCards, Ovf
      <3>3. CardInv(sys', o)
        BY <3>2, CardsStay DEF WrittenInv
      <3> QED BY <1>7, <3>3, CardsPrimed
    <2>3. CASE o = q /\ q \notin sys.seg[s].modified
      <3>1. CardKind(sys, o)'
        BY <1>3, <1>6, <2>3 DEF CardKind, Clear
      <3>2. ASSUME NEW t \in Segs
            PROVE  CardsOf(sys, t, o)'
        <4>1. Ovf(sys, t)' = Ovf(sys, t)
          BY <1>4 DEF Ovf
        <4>2. CASE t = s
          BY <1>3, <1>4, <1>5, <1>6, <2>3, <4>1, <4>2
             DEF CardsOf, Clear, CARD_CLEAR, CARD_MARKED, CARD_MARKED_OLD
        <4>3. CASE t # s
          BY <1>1, <1>4, <1>5, <2>3, <4>1, <4>3 DEF CardsOf
        <4> QED BY <4>2, <4>3
      <3> QED BY <3>1, <3>2 DEF CardInv
    <2> QED BY <2>1, <2>2, <2>3
  <1>9. ASSUME NEW t \in Segs
        PROVE  BarrierAt(t)'
    <2>1. CASE t # s
      <3>1. BarrierAt(t)
        BY DEF WrittenInv
      <3>2. \A o \in sys.seg[t].modified: o \in Objs
        BY OneModifier
      <3> QED BY <1>1, <1>3, <1>4, <1>7, <2>1, <3>1, <3>2, BarrierStays
    <2>2. CASE t = s
      <3>1. CASE q \notin sys.seg[s].modified
        BY <1>1, <1>3, <1>4, <1>6, <2>2, <3>1 DEF BarrierAt, Clear
      <3>2. CASE q \in sys.seg[s].modified
        <4>1. IF card THEN q \notin sys.seg[s].plain
              ELSE q \in sys.seg[s].plain \union sys.seg[s].cards_set
          BY <1>1, <3>2 DEF SameBarrier
        <4> QED BY <1>1, <1>4, <2>2, <4>1 DEF BarrierAt
      <3> QED BY <3>1, <3>2
    <2> QED BY <2>1, <2>2
  <1> QED BY <1>8, <1>9 DEF WrittenInv

\* A minor collection traces the cards of its own objects.
LEMMA MinorStepCards ==
  ASSUME BaseInv, WrittenInv, NEW s \in Segs, NEW commit, MinorStepOf(s, commit)
  PROVE  WrittenInv'
  <1>1. /\ commit \in BOOLEAN /\ MinorLists(sys, {s}, commit, sys')
        /\ (\A t \in Segs \ {s}: pc'[t] = pc[t])
        /\ pc'[s].k \notin Privatizing
        /\ own' = own /\ committed' = committed
    BY DEF MinorStepOf, Others, Privatizing
  <1>2. Owned(sys, public, highest_overflow_number)
    BY DEF BaseInv, OwnedInv
  <1>3. ASSUME NEW o \in Objs
        PROVE  CardInv(sys, o)'
    <2>1. CardInv(sys', o)
      BY <1>1, <1>2, MinorCards DEF WrittenInv
    <2> QED BY <1>1, <2>1, CardsPrimed DEF Changed
  <1>4. ASSUME NEW t \in Segs
        PROVE  BarrierAt(t)'
    <2>1. CASE t = s
      BY <1>1, <2>1, NoBarrier
    <2>2. CASE t # s
      <3>1. SameListsBut(sys, sys', t, {})
        BY <1>1, <2>2 DEF MinorLists
      <3>2. sys'.seg[t].plain = sys.seg[t].plain /\ sys'.seg[t].cards_set = sys.seg[t].cards_set
        BY <3>1 DEF SameListsBut, ListFields
      <3>3. ASSUME NEW o \in sys.seg[t].modified, NEW c \in Cells(o)
            PROVE  sys'.cards[o][c] = sys.cards[o][c]
        <4>1. /\ o \in Objs /\ o \notin sys.seg[s].modified /\ o \notin Ovf(sys, s)
          BY <2>2, OneModifier
        <4>2. o \notin Traced(sys, s)
          BY <1>2, <4>1 DEF Owned, OpenInv, Traced
        <4> QED BY <1>1, <4>1, <4>2 DEF MinorLists, CardsTraced
      <3>4. BarrierAt(t)
        BY DEF WrittenInv
      <3> QED BY <1>1, <2>2, <3>2, <3>3, <3>4, BarrierStays DEF Changed
    <2> QED BY <2>1, <2>2
  <1> QED BY <1>3, <1>4 DEF WrittenInv

\* Commits and major collections: all threads are at safe points.
LEMMA AloneCards ==
  ASSUME BaseInv, WrittenInv, NEW s \in Segs, NEW x, CommitStep(s, x) \/ MajorStepOf(s)
  PROVE  WrittenInv'
  <1>1. \A t \in Segs: pc'[t].k \notin Privatizing
    <2>1. (\A t \in Segs: pc[t].k \in Simple) /\ pc'[s] = Idle /\ Others(s)
      BY DEF CommitStep, MajorStepOf
    <2> QED BY <2>1 DEF Others, Idle, Simple, Privatizing
  <1>2. \A t \in Segs: BarrierAt(t)'
    BY <1>1, NoBarrier
  <1>3. ASSUME NEW o \in Objs
        PROVE  CardInv(sys, o)'
    <2>1. CardInv(sys, o)
      BY DEF WrittenInv
    <2>2. CASE CommitStep(s, x)
      BY <2>1, <2>2, CommitCards
    <2>3. CASE MajorStepOf(s)
      <3>1. (sys' = sys \/ sys' = Major) /\ own' = own /\ committed' = committed
        BY <2>3 DEF MajorStepOf
      <3>2. CardInv(sys', o)
        BY <2>1, <3>1, MajorCards
      <3>3. \A t \in Segs: sys'.seg[t].modified = sys.seg[t].modified
        BY <3>1, AtSafePoint
      <3> QED BY <3>1, <3>2, <3>3, CardsPrimed DEF Changed
    <2> QED BY <2>2, <2>3
  <1> QED BY <1>2, <1>3 DEF WrittenInv

\* The cards that an abort clears are those of the aborted transactions.
LEMMA AbortStepCards ==
  ASSUME BaseInv, WrittenInv, NEW S, NEW x, AbortStepOf(S, x)
  PROVE  WrittenInv'
  <1>1. /\ S \in SUBSET Segs /\ AbortLists(x, S, sys') /\ CopyOf(sys, x)
        /\ committed' = committed
        /\ (\A t \in S: pc'[t].k = "idle")
        /\ (\A t \in Segs \ S: pc'[t] = pc[t] /\ own'[t] = own[t])
    BY DEF AbortStepOf
  <1>2. x.seg = sys.seg /\ x.cards = sys.cards
    BY <1>1 DEF CopyOf, SameBut, Fields
  <1>3. \A o \in Objs: CardInv(sys, o)'
    BY AbortCards DEF WrittenInv
  <1>4. ASSUME NEW t \in Segs
        PROVE  BarrierAt(t)'
    <2>1. CASE t \in S
      BY <1>1, <2>1, NoBarrier DEF Privatizing
    <2>2. CASE t \notin S
      <3>1. SameListsBut(x, sys', t, {})
        BY <1>1, <2>2 DEF AbortLists
      <3>2. sys'.seg[t].plain = sys.seg[t].plain /\ sys'.seg[t].cards_set = sys.seg[t].cards_set
        BY <1>2, <3>1 DEF SameListsBut, ListFields
      <3>3. ASSUME NEW o \in sys.seg[t].modified, NEW c \in Cells(o)
            PROVE  sys'.cards[o][c] = sys.cards[o][c]
        <4>1. \A u \in S: o \notin Marked(x, u)
          <5> SUFFICES ASSUME NEW u \in S, o \in Marked(x, u)
                       PROVE  FALSE
            OBVIOUS
          <5>1. u \in Segs /\ u # t
            BY <1>1, <2>2
          <5>2. o \notin sys.seg[u].modified /\ o \notin Ovf(sys, u)
            BY <5>1, OneModifier
          <5> QED BY <1>2, <5>2 DEF Marked, Ovf
        <4>2. o \in Objs
          BY OneModifier
        <4>3. sys'.cards[o][c] = x.cards[o][c]
          BY <1>1, <4>1, <4>2 DEF AbortLists
        <4> QED BY <1>2, <4>3
      <3>4. BarrierAt(t)
        BY DEF WrittenInv
      <3>5. \A o \in sys.seg[t].modified: \A c \in Cells(o):
              /\ sys'.cards[o][c] = sys.cards[o][c]
              /\ Changed(t, o, c)' => Changed(t, o, c)
        BY <1>1, <2>2, <3>3 DEF Changed
      <3> QED BY <1>1, <2>2, <3>2, <3>4, <3>5, BarrierStays
    <2> QED BY <2>1, <2>2
  <1> QED BY <1>3, <1>4 DEF WrittenInv

\* Every step keeps the cards right, if no transaction uses both barriers
\* on one array.
LEMMA WrittenKept ==
  ASSUME ~MIXED_BARRIERS, BaseInv, WrittenInv, Step
  PROVE  WrittenInv'
  <1>1. CASE SameHeap /\ SameGrowth /\ UNCHANGED <<pc, highest_overflow_number>>
    BY <1>1 DEF SameHeap, WrittenInv, CardInv, CardKind, CardsOf, BarrierAt, Clear, Changed, Ovf
  <1>2. CASE \E s \in Segs: \E o: \E c: DirectWrite(s, o, c)
    BY <1>2, DirectWriteCards
  <1>3. CASE \E s \in Segs: \E o: \E c: \E card: \E x: BarrierWrite(s, o, c, card, x)
    BY <1>3, BarrierWriteCards
  <1>4. CASE \E s \in Segs: \E o \in Objs: \E c \in Cells(o): \E card: LockTakenStep(s, o, c, card)
    BY <1>4, LockTakenCards
  <1>5. CASE \E s \in Segs: PrivatizingStep(s)
    BY <1>5, QuietStepCards
  <1>6. CASE \E s \in Segs: \E o: AllocateStep(s, o)
    BY <1>6, QuietStepCards
  <1>7. CASE \E s \in Segs: OnTheWay(s)
    BY <1>7, QuietStepCards
  <1>8. CASE \E s \in Segs: Made(s)
    BY <1>8, MadeCards
  <1>9. CASE \E s \in Segs: \E o: PopRootStep(s, o)
    BY <1>9, QuietStepCards
  <1>10. CASE \E o: UnlinkStep(o)
    <2>1. UNCHANGED <<sys, pc, committed, own>>
      BY <1>10 DEF UnlinkStep
    <2> QED BY <2>1 DEF WrittenInv, CardInv, CardKind, CardsOf, BarrierAt, Clear, Changed, Ovf
  <1>11. CASE \E s \in Segs: \E commit: MinorStepOf(s, commit)
    BY <1>11, MinorStepCards
  <1>12. CASE \E s \in Segs: PushWaits(s)
    BY <1>12, QuietStepCards
  <1>13. CASE \E s \in Segs: \E o: ObjectPushed(s, o)
    BY <1>13, QuietStepCards
  <1>14. CASE \E s \in Segs: \E x: CommitStep(s, x)
    BY <1>14, AloneCards
  <1>15. CASE \E s \in Segs: MajorStepOf(s)
    BY <1>15, AloneCards
  <1>16. CASE \E S: \E x: AbortStepOf(S, x)
    BY <1>16, AbortStepCards
  <1> QED BY <1>1, <1>2, <1>3, <1>4, <1>5, <1>6, <1>7, <1>8, <1>9, <1>10, <1>11, <1>12,
             <1>13, <1>14, <1>15, <1>16 DEF Step

\* At the start no card is set.
LEMMA WrittenInit ==
  ASSUME PagesAssumption, Init
  PROVE  WrittenInv
  <1>1. /\ sys.cards = [o \in Objs |-> AllCards(o, CARD_CLEAR)]
        /\ pc = [s \in Segs |-> Idle]
    BY DEF Init
  <1>2. \A s \in Segs: sys.seg[s].modified = {} /\ sys.seg[s].overflow = NULL
    BY DEF Init
  <1>3. ASSUME NEW o \in Objs
        PROVE  CardInv(sys, o)
    <2>1. \A c \in Cells(o): sys.cards[o][c] = CARD_CLEAR
      BY <1>1 DEF AllCards
    <2> QED BY <1>2, <2>1 DEF CardInv, CardKind, CardsOf, Ovf
  <1>4. ASSUME NEW s \in Segs
        PROVE  BarrierAt(s)
    BY <1>1 DEF BarrierAt, Idle, Privatizing
  <1> QED BY <1>3, <1>4 DEF WrittenInv

-----------------------------------------------------------------------------
(* What the segments see.                                                  *)

\* The page is private already, and its contents are still to come.
AtCopy(s) == pc[s].k \in {"read", "copy"}

\* The segment sees its own copy of the page, which is not written yet.
CopyingCell(s, o, c) == AtCopy(s) /\ Layout[o][c] = Head(pc[s].todo)

\* What a segment sees, or will see once the page is copied.
Has(x, s, o, c, value) ==
  IF CopyingCell(s, o, c)
  THEN x.mem[0][o][c] = value /\ (pc[s].k = "copy" => pc[s].page[o][c] = value)
  ELSE x.mem[IF Private(x, s, o, c) THEN s ELSE 0][o][c] = value

\* A committing transaction has sent the object to all segments.
Pushed(x, s, o) ==
  o \in x.seg[s].mine /\ Committing(s) /\ (pc[s].k \in Pushing => o \notin pc[s].todo)

\* What segment s sees of a cell, and what the others see of its objects.
CellOf(x, s, o, c) ==
  /\ o \in public /\ o \notin x.seg[s].modified => Has(x, s, o, c, committed[o][c])
  /\ o \in x.seg[s].modified \union x.seg[s].mine => Has(x, s, o, c, own[s][o][c])
  /\ Pushed(x, s, o) => /\ x.mem[0][o][c] = own[s][o][c]
                        /\ \A t \in Segs: Has(x, t, o, c, own[s][o][c])

\* The shared copy is always the committed version.
CellInv(x, o, c) ==
  /\ o \in public => x.mem[0][o][c] = committed[o][c]
  /\ \A s \in Segs: CellOf(x, s, o, c)

\* Where each version is, for all cells.
MemInv == \A o \in Objs: \A c \in Cells(o): CellInv(sys, o, c)

\* A segment for which nothing changes.
LEMMA HasStays ==
  ASSUME NEW t \in Segs, NEW o, NEW c, NEW value, Has(sys, t, o, c, value),
         sys'.mem[0][o][c] = sys.mem[0][o][c],
         Private(sys, t, o, c) => sys'.mem[t][o][c] = sys.mem[t][o][c],
         Private(sys', t, o, c) <=> Private(sys, t, o, c),
         pc'[t] = pc[t] \/ (~AtCopy(t) /\ ~AtCopy(t)')
  PROVE  Has(sys, t, o, c, value)'
  <1>1. Private(sys, t, o, c)' <=> Private(sys, t, o, c)
    BY DEF Private
  <1>2. CopyingCell(t, o, c)' <=> CopyingCell(t, o, c)
    BY DEF CopyingCell, AtCopy
  <1>3. CASE CopyingCell(t, o, c)
    <2>1. pc'[t] = pc[t]
      BY <1>3 DEF CopyingCell
    <2> QED BY <1>2, <1>3, <2>1 DEF Has
  <1>4. CASE ~CopyingCell(t, o, c)
    BY <1>1, <1>2, <1>4 DEF Has
  <1> QED BY <1>3, <1>4

\* A cell that keeps its copies and its owners.
LEMMA CellStays ==
  ASSUME NEW o, NEW c, CellInv(sys, o, c),
         \A t \in 0..NB_SEGMENTS: sys'.mem[t][o][c] = sys.mem[t][o][c],
         \A t \in Segs: /\ Private(sys', t, o, c) <=> Private(sys, t, o, c)
                        /\ pc'[t] = pc[t] \/ (~AtCopy(t) /\ ~AtCopy(t)'),
         o \in public' => o \in public, committed'[o][c] = committed[o][c],
         \A t \in Segs:
           /\ o \in sys'.seg[t].modified <=> o \in sys.seg[t].modified
           /\ o \in sys'.seg[t].mine => o \in sys.seg[t].mine
           /\ o \in sys.seg[t].modified \union sys.seg[t].mine => own'[t][o][c] = own[t][o][c]
           /\ Pushed(sys, t, o)' => Pushed(sys, t, o),
         NB_SEGMENTS \in Nat
  PROVE  CellInv(sys, o, c)'
  <1>1. ASSUME NEW t \in Segs, NEW value, Has(sys, t, o, c, value)
        PROVE  Has(sys, t, o, c, value)'
    BY <1>1, HasStays DEF Segs
  <1>2. ASSUME NEW s \in Segs
        PROVE  CellOf(sys, s, o, c)'
    <2>1. CellOf(sys, s, o, c)
      BY DEF CellInv
    <2>2. ASSUME (o \in public /\ o \notin sys.seg[s].modified)'
          PROVE  Has(sys, s, o, c, committed[o][c])'
      BY <1>1, <2>1, <2>2 DEF CellOf
    <2>3. ASSUME (o \in sys.seg[s].modified \union sys.seg[s].mine)'
          PROVE  Has(sys, s, o, c, own[s][o][c])'
      BY <1>1, <2>1, <2>3 DEF CellOf
    <2>4. ASSUME Pushed(sys, s, o)'
          PROVE  (/\ sys.mem[0][o][c] = own[s][o][c]
                  /\ \A t \in Segs: Has(sys, t, o, c, own[s][o][c]))'
      <3>1. Pushed(sys, s, o) /\ own'[s][o][c] = own[s][o][c]
        BY <2>4 DEF Pushed
      <3>2. sys'.mem[0][o][c] = sys.mem[0][o][c]
        OBVIOUS
      <3> QED BY <1>1, <2>1, <3>1, <3>2 DEF CellOf
    <2> QED BY <2>2, <2>3, <2>4 DEF CellOf
  <1>3. (o \in public => sys.mem[0][o][c] = committed[o][c])'
    BY DEF CellInv
  <1> QED BY <1>2, <1>3 DEF CellInv

\* Steps that touch neither the pages nor what the program wrote.
LEMMA QuietMemory ==
  ASSUME PagesAssumption, MemInv, sys'.mem = sys.mem, sys'.by_segment = sys.by_segment,
         NEW s \in Segs, \A t \in Segs \ {s}: pc'[t] = pc[t],
         pc'[s] = pc[s] \/ (~AtCopy(s) /\ ~AtCopy(s)'),
         public' \subseteq public, committed' = committed, own' = own,
         \A t \in Segs: /\ sys'.seg[t].modified = sys.seg[t].modified
                        /\ sys'.seg[t].mine \subseteq sys.seg[t].mine,
         \A o \in Objs: Pushed(sys, s, o)' => Pushed(sys, s, o)
  PROVE  MemInv'
  <1> SUFFICES ASSUME NEW o \in Objs, NEW c \in Cells(o)
               PROVE  CellInv(sys, o, c)'
    BY DEF MemInv
  <1>1. CellInv(sys, o, c)
    BY DEF MemInv
  <1>2. ASSUME NEW t \in Segs, Pushed(sys, t, o)'
        PROVE  Pushed(sys, t, o)
    <2>1. CASE t = s
      BY <1>2, <2>1
    <2>2. CASE t # s
      BY <1>2, <2>2 DEF Pushed, Committing
    <2> QED BY <2>1, <2>2
  <1>3. \A t \in Segs: /\ Private(sys', t, o, c) <=> Private(sys, t, o, c)
                       /\ pc'[t] = pc[t] \/ (~AtCopy(t) /\ ~AtCopy(t)')
    BY DEF Private
  <1>4. NB_SEGMENTS \in Nat
    BY DEF PagesAssumption
  <1> QED BY <1>1, <1>2, <1>3, <1>4, CellStays

\* In particular most of the privatization, allocating, forgetting objects,
\* and the waiting and collecting of a commit.
LEMMA QuietSteps ==
  ASSUME PagesAssumption, BaseInv, MemInv, NEW s \in Segs, NEW o, NEW commit,
         \/ PrivatizingStep(s) /\ QuietPrivatizing(s)
         \/ AllocateStep(s, o) \/ OnTheWay(s) \/ PopRootStep(s, o) \/ PushWaits(s)
         \/ MinorStepOf(s, commit)
  PROVE  MemInv'
  <1>1. CASE PrivatizingStep(s) /\ QuietPrivatizing(s)
    <2>1. /\ sys' = sys /\ public' = public /\ own' = own /\ committed' = committed
          /\ \A t \in Segs \ {s}: pc'[t] = pc[t]
      BY <1>1 DEF PrivatizingStep, QuietPrivatizing, Moved, Others
    <2>2. pc[s].k \in {"page", "lock", "unlock"} /\ pc'[s].k \in {"page", "lock", "bit", "unlock"}
      BY <1>1 DEF QuietPrivatizing, Moved
    <2>3. ~AtCopy(s) /\ ~AtCopy(s)' /\ \A p: ~Pushed(sys, s, p)'
      BY <2>2 DEF AtCopy, Pushed, Committing, Pushing
    <2> QED BY <2>1, <2>3, QuietMemory
  <1>2. CASE AllocateStep(s, o)
    <2>1. /\ SameBut(sys, sys', {"used", "number", "total_allocated"})
          /\ public' = public /\ own' = own /\ committed' = committed
          /\ pc[s].k = "idle" /\ pc'[s].k = "new"
          /\ \A t \in Segs \ {s}: pc'[t] = pc[t]
      BY <1>2 DEF AllocateStep, Running, Others
    <2>2. sys'.mem = sys.mem /\ sys'.by_segment = sys.by_segment /\ sys'.seg = sys.seg
      BY <2>1 DEF SameBut, Fields
    <2>3. ~AtCopy(s) /\ ~AtCopy(s)' /\ \A p: ~Pushed(sys, s, p)'
      BY <2>1 DEF AtCopy, Pushed, Committing, Pushing
    <2> QED BY <2>1, <2>2, <2>3, QuietMemory
  <1>3. CASE OnTheWay(s)
    <2>1. /\ sys' = sys /\ public' = public /\ own' = own /\ committed' = committed
          /\ pc[s].k \in Allocating /\ pc'[s].k \in Allocating
          /\ \A t \in Segs \ {s}: pc'[t] = pc[t]
      BY <1>3 DEF OnTheWay, SameHeap, Others
    <2>2. ~AtCopy(s) /\ ~AtCopy(s)' /\ \A p: ~Pushed(sys, s, p)'
      BY <2>1 DEF AtCopy, Pushed, Committing, Pushing, Allocating
    <2> QED BY <2>1, <2>2, QuietMemory
  <1>4. CASE PopRootStep(s, o)
    <2>1. /\ SameBut(sys, sys', {"seg"}) /\ OneList(s, {"mine"})
          /\ sys'.seg[s].mine = sys.seg[s].mine \ {o}
          /\ public' = public /\ own' = own /\ committed' = committed
          /\ pc' = pc /\ pc[s].k = "idle"
      BY <1>4 DEF PopRootStep, Running
    <2>2. sys'.mem = sys.mem /\ sys'.by_segment = sys.by_segment
      BY <2>1 DEF SameBut, Fields
    <2>3. \A t \in Segs: /\ sys'.seg[t].modified = sys.seg[t].modified
                         /\ t # s => sys'.seg[t].mine = sys.seg[t].mine
      BY <2>1, OneListFields DEF ListFields
    <2>4. \A t \in Segs: sys'.seg[t].mine \subseteq sys.seg[t].mine
      BY <2>1, <2>3
    <2>5. \A p: ~Pushed(sys, s, p)'
      BY <2>1 DEF Pushed, Committing, Pushing
    <2> QED BY <2>1, <2>2, <2>3, <2>4, <2>5, QuietMemory
  <1>5. CASE PushWaits(s)
    <2>1. /\ sys' = sys /\ public' = public /\ own' = own /\ committed' = committed
          /\ pc[s].k \in Pushing
          /\ \A t \in Segs \ {s}: pc'[t] = pc[t]
          /\ \/ pc'[s].k = "pushing" /\ pc'[s].todo = pc[s].todo
             \/ pc'[s].k = "commit" /\ pc[s].todo = {}
      BY <1>5 DEF PushWaits, SameHeap, Others
    <2>2. ~AtCopy(s) /\ ~AtCopy(s)'
      BY <2>1 DEF AtCopy, Pushing
    <2>3. \A p: Pushed(sys, s, p)' => Pushed(sys, s, p)
      BY <2>1 DEF Pushed, Committing, Pushing
    <2> QED BY <2>1, <2>2, <2>3, QuietMemory
  <1>6. CASE MinorStepOf(s, commit)
    <2>1. /\ commit \in BOOLEAN /\ MinorLists(sys, {s}, commit, sys')
          /\ pc[s].k = "idle"
          /\ public' = public /\ own' = own /\ committed' = committed
          /\ \A t \in Segs \ {s}: pc'[t] = pc[t]
          /\ IF commit THEN pc'[s].k = "push" /\ pc'[s].todo = Alive(sys, s) \union Ovf(sys, s)
             ELSE pc'[s].k \in {"idle", "major"}
      BY <1>6 DEF MinorStepOf, Running, Others
    <2>2. sys'.mem = sys.mem /\ sys'.by_segment = sys.by_segment
      BY <2>1 DEF MinorLists, SameBut, Fields
    <2>3. Owned(sys, public, highest_overflow_number) /\ OwnPlaces(s)
      BY DEF BaseInv, OwnedInv
    <2>4. MinorOwners(sys, {s}, commit, sys')
      BY <2>1, <2>3, MinorOwnersEffect
    <2>5. \A t \in Segs: /\ sys'.seg[t].modified = sys.seg[t].modified
                         /\ sys'.seg[t].mine = sys.seg[t].mine
      BY <2>4 DEF MinorOwners
    <2>6. ~AtCopy(s) /\ ~AtCopy(s)'
      BY <2>1 DEF AtCopy
    <2>7. ASSUME NEW p, Pushed(sys, s, p)'
          PROVE  FALSE
      <3>1. commit /\ p \in sys.seg[s].mine /\ p \notin pc'[s].todo
        BY <2>1, <2>5, <2>7 DEF Pushed, Committing, Pushing
      <3>2. sys.seg[s].mine \subseteq sys.seg[s].young \union Ovf(sys, s)
        BY <2>1, <2>3 DEF OwnPlaces, Committing, Pushing
      <3> QED BY <2>1, <3>1, <3>2 DEF Alive
    <2> QED BY <2>1, <2>2, <2>5, <2>6, <2>7, QuietMemory
  <1> QED BY <1>1, <1>2, <1>3, <1>4, <1>5, <1>6

-----------------------------------------------------------------------------
(* Writing.                                                                *)

\* The page of an object in use is mapped: the address leads to the private
\* copy or to the shared one.
LEMMA HomeMapped ==
  ASSUME GrowthInv, NEW o \in Objs, InUse(o), NEW c \in Cells(o), NEW x, NEW s \in Segs
  PROVE  Home(x, s, Layout[o][c]) = IF Private(x, s, o, c) THEN s ELSE 0
  <1>1. Layout[o][c] \in mapped /\ s # 0
    BY DEF GrowthInv, Segs
  <1> QED BY <1>1 DEF Home, Private, is_private_page

\* What the writes have in common: one cell of an object of the transaction.
CellWritten(s, q, e) ==
  /\ q \in Objs /\ e \in Cells(q) /\ q \in sys.seg[s].modified \union sys.seg[s].mine
  /\ q \in sys.seg[s].modified => Private(sys, s, q, e)
  /\ \A t \in 0..NB_SEGMENTS: \A p \in Objs: \A d \in Cells(p): sys'.mem[t][p][d] =
       IF p = q /\ d = e /\ t = (IF Private(sys, s, q, e) THEN s ELSE 0)
       THEN 1 - sys.mem[t][q][e] ELSE sys.mem[t][p][d]
  /\ \A t \in Segs: \A p \in Objs: \A d \in Cells(p): own'[t][p][d] =
       IF t = s /\ p = q /\ d = e THEN 1 - own[s][q][e] ELSE own[t][p][d]
  /\ sys'.by_segment = sys.by_segment /\ public' = public /\ committed' = committed
  /\ \A t \in Segs: /\ sys'.seg[t].modified = sys.seg[t].modified
                    /\ sys'.seg[t].mine = sys.seg[t].mine
  /\ \A t \in Segs \ {s}: pc'[t] = pc[t]
  /\ pc[s].k \in {"idle", "page"} /\ pc'[s].k = "idle"

\* A store, with or without the barrier, changes one cell of an object that
\* the transaction may write to, and nothing that others look at.
LEMMA WritesCells ==
  ASSUME BaseInv, PrivateInv, GrowthInv, NEW s \in Segs, NEW q, NEW e, NEW card, NEW x,
         DirectWrite(s, q, e) \/ BarrierWrite(s, q, e, card, x)
  PROVE  CellWritten(s, q, e)
  <1>1. /\ q \in Objs /\ e \in Cells(q) /\ q \in sys.seg[s].modified \union sys.seg[s].mine
        /\ public' = public /\ committed' = committed
        /\ \A t \in Segs: \A p \in Objs: \A d \in Cells(p): own'[t][p][d] =
             IF t = s /\ p = q /\ d = e THEN 1 - own[s][q][e] ELSE own[t][p][d]
    BY DEF DirectWrite, BarrierWrite, WriteStep
  <1>2. /\ \A t \in Segs \ {s}: pc'[t] = pc[t]
        /\ pc'[s].k = "idle"
        /\ pc[s].k = "idle" \/ (pc[s].k = "page" /\ pc[s].todo = <<>>)
    BY DEF DirectWrite, BarrierWrite, Running, Idle, Others
  <1>3. q \in sys.seg[s].modified => Private(sys, s, q, e)
    <2>1. Range(<<>>) = {}
      BY DEF Range
    <2> QED BY <1>1, <1>2, <2>1 DEF PrivateInv, PrivateAt, Awaited, Privatizing
  <1>4. InUse(q)
    BY <1>1, OneModifier DEF InUse
  <1>5. /\ \A t \in 0..NB_SEGMENTS: \A p \in Objs: \A d \in Cells(p): sys'.mem[t][p][d] =
             IF p = q /\ d = e /\ t = (IF Private(sys, s, q, e) THEN s ELSE 0)
             THEN 1 - sys.mem[t][q][e] ELSE sys.mem[t][p][d]
        /\ sys'.by_segment = sys.by_segment
    <2>1. ASSUME NEW y, WriteStep(s, q, e, y), y.mem = sys.mem, y.by_segment = sys.by_segment
          PROVE  /\ \A t \in 0..NB_SEGMENTS: \A p \in Objs: \A d \in Cells(p):
                      sys'.mem[t][p][d] =
                        IF p = q /\ d = e /\ t = (IF Private(sys, s, q, e) THEN s ELSE 0)
                        THEN 1 - sys.mem[t][q][e] ELSE sys.mem[t][p][d]
                 /\ sys'.by_segment = sys.by_segment
      <3>1. Home(y, s, Layout[q][e]) = IF Private(sys, s, q, e) THEN s ELSE 0
        <4>1. Private(y, s, q, e) <=> Private(sys, s, q, e)
          BY <2>1 DEF Private
        <4> QED BY <1>1, <1>4, <4>1, HomeMapped
      <3>2. sys'.by_segment = sys.by_segment
        BY <2>1 DEF WriteStep, SameBut, Fields
      <3>3. \A t \in 0..NB_SEGMENTS: \A p \in Objs: \A d \in Cells(p): sys'.mem[t][p][d] =
              IF p = q /\ d = e /\ Home(y, s, Layout[q][e]) = t
              THEN 1 - sys.mem[t][q][e] ELSE sys.mem[t][p][d]
        BY <2>1 DEF WriteStep
      <3> QED BY ONLY <3>1, <3>2, <3>3
    <2>2. CASE DirectWrite(s, q, e)
      BY <2>1, <2>2 DEF DirectWrite
    <2>3. CASE BarrierWrite(s, q, e, card, x)
      <3>1. WriteStep(s, q, e, x) /\ SameBut(sys, x, {"cards", "seg"})
        BY <2>3 DEF BarrierWrite, BarrierLists
      <3>2. x.mem = sys.mem /\ x.by_segment = sys.by_segment
        BY <3>1 DEF SameBut, Fields
      <3> QED BY <2>1, <3>1, <3>2
    <2> QED BY <2>2, <2>3
  <1>6. \A t \in Segs: /\ sys'.seg[t].modified = sys.seg[t].modified
                       /\ sys'.seg[t].mine = sys.seg[t].mine
    <2>1. CASE DirectWrite(s, q, e)
      BY <2>1 DEF DirectWrite, WriteStep, SameBut, Fields
    <2>2. CASE BarrierWrite(s, q, e, card, x)
      <3>1. SameBut(x, sys', {"mem"}) /\ BarrierLists(sys, s, q, e, card, x)
        BY <2>2 DEF BarrierWrite, WriteStep
      <3>2. sys'.seg = x.seg
        BY <3>1 DEF SameBut, Fields
      <3>3. \A t \in Segs: SameListsBut(sys, x, t, {"cards_set", "with_cards"})
                           \/ SameListsBut(sys, x, t, {"cards_set", "open", "pointing", "plain"})
                           \/ SameListsBut(sys, x, t, {})
        BY <3>1 DEF BarrierLists, MarkedCard, OpenedObject
      <3> QED BY <3>2, <3>3 DEF SameListsBut, ListFields
    <2> QED BY <2>1, <2>2
  <1>7. pc[s].k \in {"idle", "page"}
    BY <1>2
  <1> QED BY ONLY <1>1, <1>2, <1>3, <1>5, <1>6, <1>7 DEF CellWritten

\* The transaction sees its write, the others do not.
LEMMA WrittenMemory ==
  ASSUME PagesAssumption, BaseInv, MemInv, NEW s \in Segs, NEW q, NEW e, CellWritten(s, q, e)
  PROVE  MemInv'
  <1> SUFFICES ASSUME NEW o \in Objs, NEW c \in Cells(o)
               PROVE  CellInv(sys, o, c)'
    BY DEF MemInv
  <1>1. CellInv(sys, o, c) /\ NB_SEGMENTS \in Nat
    BY DEF MemInv, PagesAssumption
  <1>2. /\ sys'.by_segment = sys.by_segment /\ public' = public /\ committed' = committed
        /\ \A t \in Segs: /\ sys'.seg[t].modified = sys.seg[t].modified
                          /\ sys'.seg[t].mine = sys.seg[t].mine
    BY DEF CellWritten
  <1>3. /\ \A t \in Segs: pc'[t] = pc[t] \/ (~AtCopy(t) /\ ~AtCopy(t)')
        /\ ~AtCopy(s)' /\ ~AtCopy(s)
    BY DEF CellWritten, AtCopy
  <1>4. \A t \in Segs: Private(sys', t, o, c) <=> Private(sys, t, o, c)
    BY <1>2 DEF Private
  <1>5. ASSUME NEW t \in Segs, Pushed(sys, t, o)'
        PROVE  t # s /\ Pushed(sys, t, o)
    <2>1. t # s
      BY <1>5 DEF CellWritten, Pushed, Committing, Pushing
    <2>2. pc'[t] = pc[t]
      BY <2>1 DEF CellWritten
    <2> QED BY <1>2, <1>5, <2>1, <2>2 DEF Pushed, Committing
  <1>6. /\ \A t \in 0..NB_SEGMENTS: sys'.mem[t][o][c] =
             IF o = q /\ c = e /\ t = (IF Private(sys, s, q, e) THEN s ELSE 0)
             THEN 1 - sys.mem[t][q][e] ELSE sys.mem[t][o][c]
        /\ \A t \in Segs: own'[t][o][c] =
             IF t = s /\ o = q /\ c = e THEN 1 - own[s][q][e] ELSE own[t][o][c]
        /\ q \in sys.seg[s].modified \union sys.seg[s].mine
        /\ q \in sys.seg[s].modified => Private(sys, s, q, e)
    BY DEF CellWritten
  <1>7. CASE ~(o = q /\ c = e)
    <2>1. \A t \in 0..NB_SEGMENTS: sys'.mem[t][o][c] = sys.mem[t][o][c]
      BY <1>6, <1>7
    <2>2. \A t \in Segs: own'[t][o][c] = own[t][o][c]
      BY <1>6, <1>7
    <2> QED BY <1>1, <1>2, <1>3, <1>4, <1>5, <2>1, <2>2, CellStays
  <1>8. CASE o = q /\ c = e
    <2>1. s \in 0..NB_SEGMENTS /\ 0 \in 0..NB_SEGMENTS /\ s # 0 /\ Segs \subseteq 0..NB_SEGMENTS
      BY <1>1 DEF Segs
    <2>2. Has(sys, s, o, c, own[s][o][c])'
      <3>1. Has(sys, s, o, c, own[s][o][c])
        BY <1>1, <1>6, <1>8 DEF CellInv, CellOf
      <3>2. ~CopyingCell(s, o, c) /\ ~CopyingCell(s, o, c)'
        BY <1>3 DEF CopyingCell
      <3>3. own'[s][o][c] = 1 - own[s][o][c]
        BY <1>6, <1>8
      <3>4. CASE Private(sys, s, o, c)
        <4>1. sys.mem[s][o][c] = own[s][o][c]
          BY <3>1, <3>2, <3>4 DEF Has
        <4>2. sys'.mem[s][o][c] = 1 - sys.mem[s][o][c]
          BY <1>6, <1>8, <2>1, <3>4
        <4>3. Private(sys, s, o, c)'
          BY <1>2, <3>4 DEF Private
        <4> QED BY <3>2, <3>3, <4>1, <4>2, <4>3 DEF Has
      <3>5. CASE ~Private(sys, s, o, c)
        <4>1. sys.mem[0][o][c] = own[s][o][c]
          BY <3>1, <3>2, <3>5 DEF Has
        <4>2. sys'.mem[0][o][c] = 1 - sys.mem[0][o][c]
          BY <1>6, <1>8, <2>1, <3>5
        <4>3. ~Private(sys, s, o, c)'
          BY <1>2, <3>5 DEF Private
        <4> QED BY <3>2, <3>3, <4>1, <4>2, <4>3 DEF Has
      <3> QED BY <3>4, <3>5
    <2>3. CASE o \in sys.seg[s].modified
      <3>1. \A t \in 0..NB_SEGMENTS: t # s => sys'.mem[t][o][c] = sys.mem[t][o][c]
        BY <1>6, <1>8, <2>3
      <3>2. (o \in public => sys.mem[0][o][c] = committed[o][c])'
        BY <1>1, <1>2, <2>1, <3>1 DEF CellInv
      <3>3. ASSUME NEW t \in Segs
            PROVE  CellOf(sys, t, o, c)'
        <4>1. CASE t = s
          <5>1. ~Pushed(sys, t, o)' /\ o \in sys'.seg[t].modified
            BY <1>2, <1>5, <2>3, <4>1
          <5> QED BY <2>2, <4>1, <5>1 DEF CellOf
        <4>2. CASE t # s
          <5>1. o \notin sys'.seg[t].modified \union sys'.seg[t].mine
            BY <1>2, <2>3, <4>2, OneModifier
          <5>2. ~Pushed(sys, t, o)'
            BY <5>1 DEF Pushed
          <5>3. o \in public => Has(sys, t, o, c, committed[o][c])
            BY <1>1, <1>2, <5>1 DEF CellInv, CellOf
          <5>4. o \in public => Has(sys, t, o, c, committed[o][c])'
            BY <1>2, <1>3, <1>4, <2>1, <3>1, <4>2, <5>3, HasStays
          <5> QED BY <1>2, <5>1, <5>2, <5>4 DEF CellOf
        <4> QED BY <4>1, <4>2
      <3> QED BY <3>2, <3>3 DEF CellInv
    <2>4. CASE o \notin sys.seg[s].modified
      <3>1. o \in sys.seg[s].mine /\ OwnerInv(sys, public, o)
        BY <1>6, <1>8, <2>4 DEF BaseInv, OwnedInv, Owned
      <3>2. o \notin public /\ \A t \in Segs: o \notin sys.seg[t].modified
        BY <3>1 DEF OwnerInv
      <3>3. \A t \in Segs: o \in sys.seg[t].mine => t = s
        BY <3>1 DEF OwnerInv
      <3>4. ASSUME NEW t \in Segs
            PROVE  CellOf(sys, t, o, c)'
        <4>1. ~Pushed(sys, t, o)'
          BY <1>5, <3>3 DEF Pushed
        <4> QED BY <1>2, <2>2, <3>2, <3>3, <4>1 DEF CellOf
      <3> QED BY <1>2, <3>2, <3>4 DEF CellInv
    <2> QED BY <2>3, <2>4
  <1> QED BY <1>7, <1>8

-----------------------------------------------------------------------------
(* Copying pages.                                                          *)

\* The same for a step that may change how a segment sees a cell.
LEMMA CellCarried ==
  ASSUME NEW o, NEW c, CellInv(sys, o, c), sys'.mem[0][o][c] = sys.mem[0][o][c],
         \A t \in Segs: \A value: Has(sys, t, o, c, value) => Has(sys, t, o, c, value)',
         public' = public, committed' = committed, own' = own, sys'.seg = sys.seg,
         \A t \in Segs: Pushed(sys, t, o)' => Pushed(sys, t, o)
  PROVE  CellInv(sys, o, c)'
  <1>1. ASSUME NEW s \in Segs
        PROVE  CellOf(sys, s, o, c)'
    <2>1. CellOf(sys, s, o, c)
      BY DEF CellInv
    <2>2. ASSUME Pushed(sys, s, o)'
          PROVE  (/\ sys.mem[0][o][c] = own[s][o][c]
                  /\ \A t \in Segs: Has(sys, t, o, c, own[s][o][c]))'
      BY <2>1, <2>2 DEF CellOf
    <2> QED BY <2>1, <2>2 DEF CellOf
  <1> QED BY <1>1 DEF CellInv

\* The page is remapped, read from the shared copy, and written.
LEMMA PageCopied ==
  ASSUME PagesAssumption, BaseInv, PrivateInv, MemInv, NEW s \in Segs, PrivatizingStep(s),
         BitSet(s) \/ PageRead(s) \/ PageWritten(s)
  PROVE  MemInv'
  <1> SUFFICES ASSUME NEW o \in Objs, NEW c \in Cells(o)
               PROVE  CellInv(sys, o, c)'
    BY DEF MemInv
  <1> DEFINE h == Head(pc[s].todo)
  <1>1. /\ CellInv(sys, o, c) /\ NB_SEGMENTS \in Nat /\ PrivateAt(s)
        /\ Layout[o][c] \in 1..NB_PAGES
    BY CellPages DEF MemInv, PagesAssumption, PrivateInv
  <1>2. /\ public' = public /\ committed' = committed /\ own' = own
        /\ \A t \in Segs \ {s}: pc'[t] = pc[t]
        /\ pc'[s].todo = pc[s].todo
    BY DEF PrivatizingStep, BitSet, PageRead, PageWritten, Moved, Others
  <1>3. sys'.seg = sys.seg
    BY DEF BitSet, PageRead, PageWritten, SameBut, Fields
  <1>4. ASSUME NEW t \in Segs, Pushed(sys, t, o)'
        PROVE  Pushed(sys, t, o)
    <2>1. pc'[s].k \in {"read", "copy", "unlock"}
      BY DEF BitSet, PageRead, PageWritten, Moved
    <2>2. t # s
      BY <1>4, <2>1 DEF Pushed, Committing, Pushing
    <2> QED BY <1>2, <1>3, <1>4, <2>2 DEF Pushed, Committing
  <1>5. s # 0 /\ s \in 0..NB_SEGMENTS /\ 0 \in 0..NB_SEGMENTS /\ Segs \subseteq 0..NB_SEGMENTS
    BY <1>1 DEF Segs
  <1>6. CASE BitSet(s)
    <2>1. /\ pc[s].k = "bit" /\ pc'[s].k = "read"
          /\ SameBut(sys, sys', {"by_segment", "total_allocated"})
          /\ \A p \in 1..NB_PAGES: sys'.by_segment[p] =
               IF p = h THEN sys.by_segment[p] \union {s} ELSE sys.by_segment[p]
      BY <1>6 DEF BitSet, Moved
    <2>2. sys'.mem = sys.mem
      BY <2>1 DEF SameBut, Fields
    <2>3. ASSUME NEW t \in Segs
          PROVE  Private(sys, t, o, c)' <=> Private(sys, t, o, c) \/ (t = s /\ Layout[o][c] = h)
      <3>1. sys'.by_segment[Layout[o][c]] =
              IF Layout[o][c] = h THEN sys.by_segment[Layout[o][c]] \union {s}
              ELSE sys.by_segment[Layout[o][c]]
        BY ONLY <1>1, <2>1
      <3>2. t \in sys'.by_segment[Layout[o][c]] <=>
              t \in sys.by_segment[Layout[o][c]] \/ (t = s /\ Layout[o][c] = h)
        <4> HIDE DEF h
        <4> QED BY ONLY <3>1
      <3> QED BY <3>2 DEF Private
    <2>4. ASSUME NEW t \in Segs, NEW value, Has(sys, t, o, c, value)
          PROVE  Has(sys, t, o, c, value)'
      <3>1. CASE t # s
        BY <1>2, <2>2, <2>3, <2>4, <3>1, HasStays DEF Private
      <3>2. CASE t = s
        <4>1. ~CopyingCell(s, o, c) /\ (CopyingCell(s, o, c)' <=> Layout[o][c] = h)
          BY <1>2, <2>1 DEF CopyingCell, AtCopy
        <4>2. CASE Layout[o][c] = h
          <5>1. ~Private(sys, s, o, c)
            BY <1>1, <2>1, <4>2 DEF PrivateAt, Private
          <5>2. sys.mem[0][o][c] = value
            BY <2>4, <3>2, <4>1, <5>1 DEF Has
          <5> QED BY <2>1, <2>2, <3>2, <4>1, <4>2, <5>2 DEF Has
        <4>3. CASE Layout[o][c] # h
          BY <2>2, <2>3, <2>4, <3>2, <4>1, <4>3 DEF Has
        <4> QED BY <4>2, <4>3
      <3> QED BY <3>1, <3>2
    <2> QED BY <1>1, <1>2, <1>3, <1>4, <2>2, <2>4, CellCarried
  <1>7. CASE PageRead(s)
    <2>1. /\ pc[s].k = "read" /\ pc'[s].k = "copy" /\ pc'[s].page = sys.mem[0] /\ sys' = sys
      BY <1>7 DEF PageRead, Moved
    <2>2. ASSUME NEW t \in Segs, NEW value, Has(sys, t, o, c, value)
          PROVE  Has(sys, t, o, c, value)'
      <3>1. Private(sys, t, o, c)' <=> Private(sys, t, o, c)
        BY <2>1 DEF Private
      <3>2. CASE t # s
        BY <1>2, <2>1, <2>2, <3>1, <3>2, HasStays
      <3>3. CASE t = s
        <4>1. CopyingCell(s, o, c)' <=> CopyingCell(s, o, c)
          BY <1>2, <2>1 DEF CopyingCell, AtCopy
        <4> QED BY <2>1, <2>2, <3>1, <3>3, <4>1 DEF Has
      <3> QED BY <3>2, <3>3
    <2> QED BY <1>1, <1>2, <1>3, <1>4, <2>1, <2>2, CellCarried
  <1>8. CASE PageWritten(s)
    <2>1. /\ pc[s].k = "copy" /\ pc'[s].k = "unlock" /\ SameBut(sys, sys', {"mem"})
          /\ \A t \in 0..NB_SEGMENTS: sys'.mem[t][o][c] =
               IF t = s /\ Layout[o][c] = h THEN pc[s].page[o][c] ELSE sys.mem[t][o][c]
      BY <1>8 DEF PageWritten, Moved
    <2>2. sys'.by_segment = sys.by_segment
      BY <2>1 DEF SameBut, Fields
    <2>3. sys'.mem[0][o][c] = sys.mem[0][o][c]
      BY <1>5, <2>1
    <2>4. ASSUME NEW t \in Segs, NEW value, Has(sys, t, o, c, value)
          PROVE  Has(sys, t, o, c, value)'
      <3>1. Private(sys, t, o, c)' <=> Private(sys, t, o, c)
        BY <2>2 DEF Private
      <3>2. CASE t # s
        <4>1. sys'.mem[t][o][c] = sys.mem[t][o][c]
          BY <1>5, <2>1, <3>2
        <4> QED BY <1>2, <2>2, <2>3, <2>4, <3>2, <4>1, HasStays DEF Private
      <3>3. CASE t = s
        <4>1. ~CopyingCell(s, o, c)' /\ (CopyingCell(s, o, c) <=> Layout[o][c] = h)
          BY <1>2, <2>1 DEF CopyingCell, AtCopy
        <4>2. CASE Layout[o][c] = h
          <5>1. Private(sys, s, o, c)
            BY <1>1, <2>1, <4>2 DEF PrivateAt, Private
          <5>2. pc[s].page[o][c] = value
            BY <2>1, <2>4, <3>3, <4>1, <4>2 DEF Has
          <5>3. sys'.mem[s][o][c] = value
            BY <1>5, <2>1, <4>2, <5>2
          <5> QED BY <3>1, <3>3, <4>1, <5>1, <5>3 DEF Has
        <4>3. CASE Layout[o][c] # h
          <5>1. sys'.mem[s][o][c] = sys.mem[s][o][c]
            BY <1>5, <2>1, <4>3
          <5> QED BY <2>3, <2>4, <3>1, <3>3, <4>1, <4>3, <5>1 DEF Has
        <4> QED BY <4>2, <4>3
      <3> QED BY <3>2, <3>3
    <2> QED BY <1>1, <1>2, <1>3, <1>4, <2>3, <2>4, CellCarried
  <1> QED BY <1>6, <1>7, <1>8

\* The lock is taken: the transaction's version starts as the committed one.
LEMMA LockTakenMemory ==
  ASSUME PagesAssumption, BaseInv, MemInv, NEW s \in Segs, NEW q \in Objs,
         NEW e \in Cells(q), NEW card, LockTakenStep(s, q, e, card)
  PROVE  MemInv'
  <1> SUFFICES ASSUME NEW o \in Objs, NEW c \in Cells(o)
               PROVE  CellInv(sys, o, c)'
    BY DEF MemInv
  <1>1. CellInv(sys, o, c) /\ NB_SEGMENTS \in Nat
    BY DEF MemInv, PagesAssumption
  <1>2. /\ q \in public /\ public' = public /\ committed' = committed
        /\ SameBut(sys, sys', {"write_locks", "seg"}) /\ OneList(s, {"modified"})
        /\ sys'.seg[s].modified = sys.seg[s].modified \union {q}
        /\ pc[s].k = "idle" /\ pc'[s].k = "page"
        /\ \A t \in Segs \ {s}: pc'[t] = pc[t]
    BY DEF LockTakenStep, Running, Others
  <1>3. \A t \in Segs: own'[t][o][c] =
          IF t = s /\ o = q /\ q \notin sys.seg[s].modified THEN committed[o][c] ELSE own[t][o][c]
    BY DEF LockTakenStep
  <1>4. sys'.mem = sys.mem /\ sys'.by_segment = sys.by_segment
    BY <1>2 DEF SameBut, Fields
  <1>5. \A t \in Segs: /\ sys'.seg[t].mine = sys.seg[t].mine
                       /\ t # s => sys'.seg[t].modified = sys.seg[t].modified
    BY <1>2, OneListFields DEF ListFields
  <1>6. ~AtCopy(s) /\ ~AtCopy(s)' /\ ~Pushed(sys, s, o)'
    BY <1>2 DEF AtCopy, Pushed, Committing, Pushing
  <1>7. ASSUME NEW t \in Segs, Pushed(sys, t, o)'
        PROVE  Pushed(sys, t, o)
    <2>1. t # s
      BY <1>6, <1>7
    <2> QED BY <1>2, <1>5, <1>7, <2>1 DEF Pushed, Committing
  <1>8. \A t \in Segs: Private(sys', t, o, c) <=> Private(sys, t, o, c)
    BY <1>4 DEF Private
  <1>9. CASE ~(o = q /\ q \notin sys.seg[s].modified)
    <2>1. \A t \in Segs: o \in sys'.seg[t].modified <=> o \in sys.seg[t].modified
      BY <1>2, <1>5, <1>9
    <2>2. \A t \in Segs: own'[t][o][c] = own[t][o][c]
      BY <1>3, <1>9
    <2> QED BY <1>1, <1>2, <1>4, <1>5, <1>6, <1>7, <1>8, <2>1, <2>2, CellStays
  <1>10. CASE o = q /\ q \notin sys.seg[s].modified
    <2>1. \A t \in Segs: o \notin sys.seg[t].mine
      BY <1>2, <1>10 DEF BaseInv, OwnedInv, Owned, OwnerInv
    <2>2. ASSUME NEW t \in Segs, Has(sys, t, o, c, committed[o][c])
          PROVE  Has(sys, t, o, c, committed[o][c])'
      <3>1. Has(sys, t, o, c, committed'[o][c])
        BY <1>2, <2>2
      <3> QED BY <1>2, <1>4, <1>6, <1>8, <2>2, <3>1, HasStays
    <2>3. ASSUME NEW t \in Segs
          PROVE  CellOf(sys, t, o, c)'
      <3>1. ~Pushed(sys, t, o)'
        BY <1>5, <2>1 DEF Pushed
      <3>2. CellOf(sys, t, o, c)
        BY <1>1 DEF CellInv
      <3>3. CASE t = s
        <4>1. Has(sys, s, o, c, committed[o][c])
          BY <1>2, <1>10, <3>2, <3>3 DEF CellOf
        <4>2. own'[s][o][c] = committed'[o][c]
          BY <1>2, <1>3, <1>10
        <4> QED BY <1>2, <1>10, <2>2, <3>1, <3>3, <4>1, <4>2 DEF CellOf
      <3>4. CASE t # s
        <4>1. o \notin sys.seg[t].modified
          BY <1>10, <3>4 DEF LockTakenStep
        <4>2. Has(sys, t, o, c, committed[o][c])
          BY <1>2, <1>10, <3>2, <4>1 DEF CellOf
        <4> QED BY <1>5, <2>1, <2>2, <3>1, <3>4, <4>1, <4>2 DEF CellOf
      <3> QED BY <3>3, <3>4
    <2>4. (o \in public => sys.mem[0][o][c] = committed[o][c])'
      BY <1>1, <1>2, <1>4 DEF CellInv
    <2> QED BY <2>3, <2>4 DEF CellInv
  <1> QED BY <1>9, <1>10

-----------------------------------------------------------------------------
(* New objects and pushed ones.                                            *)

\* The memory of a new object is cleared where its segment sees it.
LEMMA MadeMemory ==
  ASSUME PagesAssumption, BaseInv, MemInv, GrowthInv', NEW s \in Segs, Made(s)
  PROVE  MemInv'
  <1> SUFFICES ASSUME NEW o \in Objs, NEW c \in Cells(o)
               PROVE  CellInv(sys, o, c)'
    BY DEF MemInv
  <1> DEFINE q == pc[s].o
  <1>1. CellInv(sys, o, c) /\ NB_SEGMENTS \in Nat
    BY DEF MemInv, PagesAssumption
  <1>2. /\ pc[s].k \in Allocating /\ pc'[s].k = "idle"
        /\ \A t \in Segs \ {s}: pc'[t] = pc[t]
        /\ SameBut(sys, sys', {"mem", "seg"}) /\ OneList(s, {"young", "mine"})
        /\ sys'.seg[s].mine = sys.seg[s].mine \union {q}
        /\ mapped' = mapped /\ public' = public /\ committed' = committed
    BY DEF Made, Others, Idle
  <1>3. /\ \A t \in 0..NB_SEGMENTS: sys'.mem[t][o][c] =
             IF o = q /\ Home(sys, s, Layout[o][c]) = t THEN 0 ELSE sys.mem[t][o][c]
        /\ \A t \in Segs: own'[t][o][c] = IF t = s /\ o = q THEN 0 ELSE own[t][o][c]
    BY SMTT(30) DEF Made
  <1>4. sys'.by_segment = sys.by_segment
    BY <1>2 DEF SameBut, Fields
  <1>5. \A t \in Segs: /\ sys'.seg[t].modified = sys.seg[t].modified
                       /\ t # s => sys'.seg[t].mine = sys.seg[t].mine
    BY <1>2, OneListFields DEF ListFields
  <1>6. ~AtCopy(s) /\ ~AtCopy(s)' /\ ~Pushed(sys, s, o)'
    BY <1>2 DEF AtCopy, Pushed, Committing, Pushing, Allocating
  <1>7. \A t \in Segs: Private(sys', t, o, c) <=> Private(sys, t, o, c)
    BY <1>4 DEF Private
  <1>8. ASSUME NEW t \in Segs, Pushed(sys, t, o)'
        PROVE  Pushed(sys, t, o)
    <2>1. t # s
      BY <1>6, <1>8
    <2> QED BY <1>2, <1>5, <1>8, <2>1 DEF Pushed, Committing
  <1>9. CASE o # q
    <2>1. \A t \in 0..NB_SEGMENTS: sys'.mem[t][o][c] = sys.mem[t][o][c]
      BY <1>3, <1>9
    <2>2. \A t \in Segs: own'[t][o][c] = own[t][o][c]
      BY <1>3, <1>9
    <2>3. \A t \in Segs: o \in sys'.seg[t].mine => o \in sys.seg[t].mine
      BY <1>2, <1>5, <1>9
    <2> QED BY <1>1, <1>2, <1>5, <1>6, <1>7, <1>8, <2>1, <2>2, <2>3, CellStays
  <1>10. CASE o = q
    <2>1. o \notin public /\ \A t \in Segs: o \notin Lists(sys, t)
      BY <1>2, <1>10 DEF BaseInv, PagesInv, FreshInv
    <2>2. \A t \in Segs: o \notin sys'.seg[t].modified
      BY <1>5, <2>1, OneModifier
    <2>3. \A t \in Segs: o \in sys'.seg[t].mine => t = s
      BY <1>5, <2>1 DEF Lists
    <2>4. Home(sys, s, Layout[o][c]) = IF Private(sys, s, o, c) THEN s ELSE 0
      <3>1. InUse(o)'
        BY <1>2, <1>10 DEF InUse
      <3>2. Layout[o][c] \in mapped
        BY <1>2, <3>1 DEF GrowthInv
      <3>3. s # 0
        BY DEF Segs
      <3> QED BY <3>2, <3>3 DEF Home, Private, is_private_page
    <2>5. Has(sys, s, o, c, own[s][o][c])'
      <3>1. ~CopyingCell(s, o, c)'
        BY <1>6 DEF CopyingCell
      <3>2. own'[s][o][c] = 0
        BY <1>3, <1>10
      <3>3. s \in 0..NB_SEGMENTS /\ 0 \in 0..NB_SEGMENTS
        BY <1>1 DEF Segs
      <3>4. sys'.mem[IF Private(sys, s, o, c) THEN s ELSE 0][o][c] = 0
        BY <1>3, <1>10, <2>4, <3>3
      <3> QED BY <1>7, <3>1, <3>2, <3>4 DEF Has, Private
    <2>6. ASSUME NEW t \in Segs
          PROVE  CellOf(sys, t, o, c)'
      <3>1. ~Pushed(sys, t, o)'
        BY <1>6, <2>3 DEF Pushed
      <3> QED BY <1>2, <2>1, <2>2, <2>3, <2>5, <3>1 DEF CellOf
    <2> QED BY <1>2, <2>1, <2>6 DEF CellInv
  <1> QED BY <1>9, <1>10

\* With the locks of all segments one of them copies a page: then no
\* segment pushes.
LEMMA NobodyCopies ==
  ASSUME BaseInv, NEW s \in Segs, pc[s].k = "pushing", NEW t \in Segs
  PROVE  ~AtCopy(t)
  <1> SUFFICES ASSUME AtCopy(t)
               PROVE  FALSE
    OBVIOUS
  <1>1. LocksOf(s) /\ LocksOf(t)
    BY DEF BaseInv, LockInv
  <1>2. Held(t) = Segs
    BY <1>1 DEF LocksOf, AtCopy
  <1>3. Held(s) = {s}
    BY <1>1 DEF LocksOf
  <1>4. privatization_lock[s] = t /\ privatization_lock[s] = s
    BY <1>2, <1>3 DEF Held
  <1> QED BY <1>4 DEF AtCopy

\* The object goes to the shared copy and to all private ones.
LEMMA PushedMemory ==
  ASSUME PagesAssumption, BaseInv, GrowthInv, MemInv, NEW s \in Segs, NEW q, ObjectPushed(s, q)
  PROVE  MemInv'
  <1> SUFFICES ASSUME NEW o \in Objs, NEW c \in Cells(o)
               PROVE  CellInv(sys, o, c)'
    BY DEF MemInv
  <1>1. CellInv(sys, o, c) /\ NB_SEGMENTS \in Nat
    BY DEF MemInv, PagesAssumption
  <1>2. /\ pc[s].k = "pushing" /\ pc'[s].k = "pushing" /\ q \in pc[s].todo
        /\ pc'[s].todo = pc[s].todo \ {q}
        /\ \A t \in Segs \ {s}: pc'[t] = pc[t]
        /\ SameBut(sys, sys', {"mem", "cards"}) /\ CellsCopied(sys, s, {q}, {}, sys')
        /\ public' = public /\ committed' = committed /\ own' = own
    BY DEF ObjectPushed, Others
  <1>3. sys'.by_segment = sys.by_segment /\ sys'.seg = sys.seg
    BY <1>2 DEF SameBut, Fields
  <1>4. \A t \in 0..NB_SEGMENTS: sys'.mem[t][o][c] =
          IF o = q /\ (t = 0 \/ (t # s /\ Private(sys, t, o, c)))
          THEN sys.mem[Home(sys, s, Layout[o][c])][o][c] ELSE sys.mem[t][o][c]
    BY <1>2 DEF CellsCopied, Copied, Private
  <1>5. \A t \in Segs: ~AtCopy(t) /\ ~AtCopy(t)'
    <2>1. \A t \in Segs: ~AtCopy(t)
      BY <1>2, NobodyCopies
    <2> QED BY <1>2, <2>1 DEF AtCopy
  <1>6. \A t \in Segs: Private(sys', t, o, c) <=> Private(sys, t, o, c)
    BY <1>3 DEF Private
  <1>7. ASSUME NEW t \in Segs, o # q \/ t # s, Pushed(sys, t, o)'
        PROVE  Pushed(sys, t, o)
    <2>1. CASE t # s
      BY <1>2, <1>3, <1>7, <2>1 DEF Pushed, Committing
    <2>2. CASE t = s
      BY <1>2, <1>3, <1>7, <2>2 DEF Pushed, Committing
    <2> QED BY <2>1, <2>2
  <1>8. CASE o # q
    <2>1. \A t \in 0..NB_SEGMENTS: sys'.mem[t][o][c] = sys.mem[t][o][c]
      BY <1>4, <1>8
    <2> QED BY <1>1, <1>2, <1>3, <1>5, <1>6, <1>7, <1>8, <2>1, CellStays
  <1>9. CASE o = q
    <2>1. o \in sys.seg[s].mine \union Ovf(sys, s) /\ OwnerInv(sys, public, o)
      BY <1>2, <1>9 DEF BaseInv, PlacedInv, Placed, Pushing, OwnedInv, Owned
    <2>2. o \notin public /\ \A t \in Segs: o \notin sys.seg[t].modified
      BY <2>1 DEF OwnerInv
    <2>3. \A t \in Segs: o \in sys.seg[t].mine => t = s
      BY <2>1 DEF OwnerInv
    <2>4. ASSUME o \in sys.seg[s].mine
          PROVE  /\ sys'.mem[0][o][c] = own[s][o][c]
                 /\ \A t \in Segs: Has(sys, t, o, c, own[s][o][c])'
      <3>1. \A t \in Segs: ~CopyingCell(t, o, c) /\ ~CopyingCell(t, o, c)'
        BY <1>5 DEF CopyingCell
      <3>2. Has(sys, s, o, c, own[s][o][c])
        BY <1>1, <2>4 DEF CellInv, CellOf
      <3>3. Home(sys, s, Layout[o][c]) = IF Private(sys, s, o, c) THEN s ELSE 0
        BY <2>4, HomeMapped DEF InUse
      <3>4. sys.mem[Home(sys, s, Layout[o][c])][o][c] = own[s][o][c]
        BY <3>1, <3>2, <3>3 DEF Has
      <3>5. 0 \in 0..NB_SEGMENTS /\ Segs \subseteq 0..NB_SEGMENTS
        BY <1>1 DEF Segs
      <3>6. sys'.mem[0][o][c] = own[s][o][c]
        BY <1>4, <1>9, <3>4, <3>5
      <3>7. ASSUME NEW t \in Segs
            PROVE  Has(sys, t, o, c, own[s][o][c])'
        <4>1. CASE ~Private(sys, t, o, c)
          BY <1>2, <1>6, <3>1, <3>6, <4>1 DEF Has, Private
        <4>2. CASE Private(sys, t, o, c)
          <5>1. sys'.mem[t][o][c] = own[s][o][c]
            <6>1. CASE t = s
              <7>1. Home(sys, s, Layout[o][c]) = t
                BY <3>3, <4>2, <6>1
              <7>2. t # 0
                BY DEF Segs
              <7> QED BY <1>4, <3>4, <3>5, <6>1, <7>1, <7>2
            <6>2. CASE t # s
              BY <1>4, <1>9, <3>4, <3>5, <4>2, <6>2
            <6> QED BY <6>1, <6>2
          <5> QED BY <1>2, <1>6, <3>1, <4>2, <5>1 DEF Has, Private
        <4> QED BY <4>1, <4>2
      <3> QED BY <3>6, <3>7
    <2>5. ASSUME NEW t \in Segs
          PROVE  CellOf(sys, t, o, c)'
      <3>1. o \notin public' /\ o \notin sys'.seg[t].modified
        BY <1>2, <1>3, <2>2
      <3>2. CASE o \notin sys.seg[t].mine
        <4>1. o \notin sys'.seg[t].mine
          BY <1>3, <3>2
        <4>2. ~Pushed(sys, t, o)'
          BY <4>1 DEF Pushed
        <4> QED BY <3>1, <4>1, <4>2 DEF CellOf
      <3>3. CASE o \in sys.seg[t].mine
        <4>1. t = s
          BY <2>3, <3>3
        <4> QED BY <1>2, <2>4, <3>1, <3>3, <4>1 DEF CellOf
      <3> QED BY <3>2, <3>3
    <2> QED BY <1>2, <2>2, <2>5 DEF CellInv
  <1> QED BY <1>8, <1>9

\* Steps that only make committed objects unreachable, or nothing at all.
LEMMA StillMemory ==
  ASSUME PagesAssumption, MemInv, sys' = sys, pc' = pc, own' = own, committed' = committed,
         public' \subseteq public
  PROVE  MemInv'
  <1> SUFFICES ASSUME NEW o \in Objs, NEW c \in Cells(o)
               PROVE  CellInv(sys, o, c)'
    BY DEF MemInv
  <1>1. CellInv(sys, o, c) /\ NB_SEGMENTS \in Nat
    BY DEF MemInv, PagesAssumption
  <1>2. \A t \in Segs: Pushed(sys, t, o)' => Pushed(sys, t, o)
    BY DEF Pushed, Committing
  <1> QED BY <1>1, <1>2, CellStays

-----------------------------------------------------------------------------
(* Major collections and commits: nobody copies a page.                    *)

\* What is in the page that a segment looks at.
Seen(x, t, o, c) == x.mem[IF Private(x, t, o, c) THEN t ELSE 0][o][c]

\* A segment that is not copying has what it sees.
LEMMA HasSeen ==
  ASSUME NEW t \in Segs, ~AtCopy(t), NEW x, NEW o, NEW c, NEW value
  PROVE  Has(x, t, o, c, value) <=> Seen(x, t, o, c) = value
  BY DEF Has, Seen, CopyingCell

\* The same after the step.
LEMMA HasSeenNext ==
  ASSUME NEW t \in Segs, ~AtCopy(t)', NEW o, NEW c, NEW value
  PROVE  Has(sys, t, o, c, value)' <=> Seen(sys', t, o, c) = value'
  <1>1. Private(sys, t, o, c)' <=> Private(sys', t, o, c)
    BY DEF Private
  <1> QED BY <1>1 DEF Has, Seen, CopyingCell

\* Re-sharing keeps what everybody sees of all objects in use.
LEMMA MajorCell ==
  ASSUME BaseInv, PrivateInv, \A t \in Segs: pc[t].k \in Simple,
         NEW o \in Objs, NEW c \in Cells(o), CellInv(sys, o, c)
  PROVE  CellInv(Major, o, c)
  <1> DEFINE y == Major
  <1>1. /\ \A t \in Segs:
             /\ Private(y, t, o, c) <=> Layout[o][c] \in ModifiedPages(sys, t)
             /\ Private(y, t, o, c) => y.mem[t][o][c] = sys.mem[t][o][c]
        /\ IF Moving(o, c) = {} THEN y.mem[0][o][c] = sys.mem[0][o][c]
           ELSE \E s \in Moving(o, c): y.mem[0][o][c] = sys.mem[s][o][c]
    BY MajorMemory DEF MajorPages
  <1>2. \A t \in Segs: y.seg[t].mine = sys.seg[t].mine /\ y.seg[t].modified = sys.seg[t].modified
    BY AtSafePoint
  <1> HIDE DEF y
  <1>3. \A t \in Segs: ~AtCopy(t)
    BY DEF Simple, AtCopy
  <1>4. ASSUME NEW t \in Segs, Private(y, t, o, c)
        PROVE  Private(sys, t, o, c)
    <2>1. PICK p \in sys.seg[t].modified: Layout[o][c] \in Range(Layout[p])
      BY <1>1, <1>4, ModifiedCells
    <2>2. PICK d \in Cells(p): Layout[o][c] = Layout[p][d]
      BY <2>1 DEF Range, Cells
    <2>3. Private(sys, t, p, d)
      BY <2>1, AllPrivate DEF Simple, Privatizing
    <2> QED BY <2>2, <2>3 DEF Private
  <1>5. ASSUME NEW t \in Segs, NEW value, Has(sys, t, o, c, value), y.mem[0][o][c] = value
        PROVE  Has(y, t, o, c, value)
    <2>1. Seen(sys, t, o, c) = value
      BY <1>3, <1>5, HasSeen
    <2>2. Seen(y, t, o, c) = value
      BY <1>1, <1>4, <1>5, <2>1 DEF Seen
    <2> QED BY <1>3, <2>2, HasSeen
  <1>6. OwnerInv(sys, public, o)
    BY DEF BaseInv, OwnedInv, Owned
  <1>7. \A t \in Moving(o, c): t \in Segs /\ o \notin public
                               /\ \A s \in Segs: o \in sys.seg[s].mine => t = s
    BY <1>6 DEF Moving, Alive, OwnerInv
  <1>8. CASE o \in public
    <2>1. Moving(o, c) = {}
      BY <1>7, <1>8
    <2>2. y.mem[0][o][c] = committed[o][c]
      BY <1>1, <1>8, <2>1 DEF CellInv
    <2>3. ASSUME NEW t \in Segs
          PROVE  CellOf(y, t, o, c)
      <3>1. o \notin y.seg[t].mine /\ ~Pushed(y, t, o)
        BY <1>2, <1>6, <1>8 DEF OwnerInv, Pushed
      <3>2. CellOf(sys, t, o, c)
        BY DEF CellInv
      <3>3. CASE o \in sys.seg[t].modified
        <4>1. Private(y, t, o, c) /\ Private(sys, t, o, c)
          BY <1>4, <3>3, MajorPrivate DEF y
        <4>2. Has(sys, t, o, c, own[t][o][c])
          BY <3>2, <3>3 DEF CellOf
        <4>3. Seen(sys, t, o, c) = own[t][o][c]
          BY <1>3, <4>2, HasSeen
        <4>4. Seen(y, t, o, c) = own[t][o][c]
          BY <1>1, <4>1, <4>3 DEF Seen
        <4>5. Has(y, t, o, c, own[t][o][c])
          BY <1>3, <4>4, HasSeen
        <4> QED BY <1>2, <3>1, <3>3, <4>5 DEF CellOf
      <3>4. CASE o \notin sys.seg[t].modified
        <4>1. Has(y, t, o, c, committed[o][c])
          BY <1>5, <1>8, <2>2, <3>2, <3>4 DEF CellOf
        <4> QED BY <1>2, <3>1, <3>4, <4>1 DEF CellOf
      <3> QED BY <3>3, <3>4
    <2> QED BY <2>2, <2>3 DEF CellInv, y
  <1>9. CASE o \notin public
    <2>1. \A t \in Segs: o \notin y.seg[t].modified
      BY <1>2, <1>9, OneModifier
    <2>2. ASSUME NEW s \in Segs, o \in sys.seg[s].mine
          PROVE  CellOf(y, s, o, c)
      <3>1. Seen(sys, s, o, c) = own[s][o][c]
        <4>1. Has(sys, s, o, c, own[s][o][c])
          BY <2>2 DEF CellInv, CellOf
        <4> QED BY <1>3, <4>1, HasSeen
      <3>2. Moving(o, c) \subseteq {s}
        BY <1>7, <2>2
      <3>3. s \in Moving(o, c) => y.mem[0][o][c] = own[s][o][c]
        <4>1. ASSUME s \in Moving(o, c)
              PROVE  y.mem[0][o][c] = own[s][o][c]
          <5>1. Private(sys, s, o, c)
            BY <4>1 DEF Moving
          <5>2. y.mem[0][o][c] = sys.mem[s][o][c]
            BY <1>1, <3>2, <4>1
          <5> QED BY <3>1, <5>1, <5>2 DEF Seen
        <4> QED BY <4>1
      <3>4. s \notin Moving(o, c) => y.mem[0][o][c] = sys.mem[0][o][c]
        BY <1>1, <3>2
      <3>5. CASE Committing(s)
        <4>1. Pushed(sys, s, o)
          BY <2>2, <3>5 DEF Pushed, Simple, Pushing
        <4>2. /\ sys.mem[0][o][c] = own[s][o][c]
              /\ \A t \in Segs: Has(sys, t, o, c, own[s][o][c])
          BY <4>1 DEF CellInv, CellOf
        <4>3. y.mem[0][o][c] = own[s][o][c]
          BY <3>3, <3>4, <4>2
        <4>4. \A t \in Segs: Has(y, t, o, c, own[s][o][c])
          BY <1>5, <4>2, <4>3
        <4> QED BY <1>9, <4>3, <4>4 DEF CellOf
      <3>6. CASE ~Committing(s)
        <4>1. ~Pushed(y, s, o)
          BY <3>6 DEF Pushed
        <4>2. o \in Ovf(sys, s) \union Alive(sys, s)
          BY <2>2, <3>6 DEF BaseInv, OwnedInv, OwnPlaces, Alive
        <4>3. Seen(y, s, o, c) = own[s][o][c]
          <5>1. CASE Private(y, s, o, c)
            BY <1>1, <1>4, <3>1, <5>1 DEF Seen
          <5>2. CASE ~Private(y, s, o, c) /\ Private(sys, s, o, c)
            <6>1. s \in Moving(o, c)
              BY <1>1, <4>2, <5>2 DEF Moving
            <6> QED BY <3>3, <5>2, <6>1 DEF Seen
          <5>3. CASE ~Private(y, s, o, c) /\ ~Private(sys, s, o, c)
            <6>1. s \notin Moving(o, c)
              BY <5>3 DEF Moving
            <6> QED BY <3>1, <3>4, <5>3, <6>1 DEF Seen
          <5> QED BY <5>1, <5>2, <5>3
        <4>4. Has(y, s, o, c, own[s][o][c])
          BY <1>3, <4>3, HasSeen
        <4> QED BY <1>9, <4>1, <4>4 DEF CellOf
      <3> QED BY <3>5, <3>6
    <2>3. ASSUME NEW s \in Segs, o \notin sys.seg[s].mine
          PROVE  CellOf(y, s, o, c)
      BY <1>2, <1>9, <2>1, <2>3 DEF CellOf, Pushed
    <2> QED BY <1>9, <2>2, <2>3 DEF CellInv, y
  <1> QED BY <1>8, <1>9

\* A collection that is not part of a commit.
LEMMA MajorStepMemory ==
  ASSUME PagesAssumption, BaseInv, PrivateInv, MemInv, NEW s \in Segs, MajorStepOf(s)
  PROVE  MemInv'
  <1> SUFFICES ASSUME NEW o \in Objs, NEW c \in Cells(o)
               PROVE  CellInv(sys, o, c)'
    BY DEF MemInv
  <1>1. /\ pc[s].k = "major" /\ (\A t \in Segs: pc[t].k \in Simple)
        /\ (sys' = sys \/ sys' = Major) /\ pc'[s].k = "idle"
        /\ (\A t \in Segs \ {s}: pc'[t] = pc[t])
        /\ public' = public /\ committed' = committed /\ own' = own
    BY DEF MajorStepOf, Others, Idle
  <1>2. \A t \in Segs: ~AtCopy(t) /\ ~AtCopy(t)'
    BY <1>1 DEF AtCopy, Simple
  <1>3. CellInv(sys', o, c)
    <2>1. CellInv(sys, o, c)
      BY DEF MemInv
    <2>2. CASE sys' = sys
      BY <2>1, <2>2
    <2>3. CASE sys' = Major
      BY <1>1, <2>1, <2>3, MajorCell
    <2> QED BY <1>1, <2>2, <2>3
  <1>5. ASSUME NEW t \in Segs
        PROVE  /\ Has(sys', t, o, c, committed[o][c]) <=> Has(sys, t, o, c, committed[o][c])'
               /\ \A u \in Segs: Has(sys', t, o, c, own[u][o][c])
                                   <=> Has(sys, t, o, c, own[u][o][c])'
    BY <1>1, <1>2, HasSeen, HasSeenNext
  <1>6. ASSUME NEW t \in Segs, Pushed(sys, t, o)'
        PROVE  Pushed(sys', t, o)
    <2>1. t # s
      BY <1>1, <1>6 DEF Pushed, Committing, Pushing
    <2> QED BY <1>1, <1>6, <2>1 DEF Pushed, Committing
  <1>7. ASSUME NEW t \in Segs
        PROVE  CellOf(sys, t, o, c)'
    <2>1. CellOf(sys', t, o, c)
      BY <1>3 DEF CellInv
    <2> QED BY <1>1, <1>5, <1>6, <2>1 DEF CellOf
  <1>8. (o \in public => sys.mem[0][o][c] = committed[o][c])'
    BY <1>1, <1>3 DEF CellInv
  <1> QED BY <1>7, <1>8 DEF CellInv

\* The cells of an array that a commit does not copy were not changed.
LEMMA NotCopied ==
  ASSUME PagesAssumption, BaseInv, WrittenInv, NEW s \in Segs, NEW x, CommitStep(s, x),
         NEW o \in sys.seg[s].modified, NEW c \in Cells(o),
         c \notin Copied(x, x.seg[s].modified \intersect UsesCards, o)
  PROVE  own[s][o][c] = committed[o][c]
  <1>1. /\ x = sys \/ x = Major
        /\ CommitLists(x, s, sys') /\ pc[s].k = "commit"
    BY DEF CommitStep
  <1>2. o \in Objs /\ CardInv(sys, o)
    BY OneModifier DEF WrittenInv
  <1>3. CardInv(x, o)
    BY <1>1, <1>2, MajorCards
  <1>4. /\ Owned(x, public, highest_overflow_number) /\ x.seg[s].with_cards = {}
        /\ x.seg[s].modified = sys.seg[s].modified
    BY <1>1, AtSafePoint DEF Committing
  <1>5. o \notin x.seg[s].cards_set
    <2>1. x.seg[s].cards_set \subseteq x.seg[s].with_cards
      BY <1>4 DEF Owned, OpenInv
    <2> QED BY <1>4, <2>1
  <1> DEFINE marked == {d \in Cells(o): x.cards[o][d] = CARD_MARKED_OLD}
             last == Len(Layout[o])
             whole == {1, last, (last \div 2) + 1} \subseteq marked \/ marked = {}
  <1>6. o \in UsesCards /\ ~whole /\ c \notin marked
    BY DEF Copied, _card_wise_synchronize_object_now
  <1>7. CardsOf(x, s, o) /\ CardKind(x, o)
    BY <1>3 DEF CardInv
  <1>8. \A d \in Cells(o): x.cards[o][d] \in {CARD_CLEAR, CARD_MARKED_OLD}
    BY <1>4, <1>5, <1>7 DEF CardsOf, CardKind
  <1>9. o \notin x.seg[s].plain
    <2> SUFFICES ASSUME o \in x.seg[s].plain
                 PROVE  FALSE
      OBVIOUS
    <2>1. PICK v \in {CARD_CLEAR, CARD_MARKED_OLD}: \A d \in Cells(o): x.cards[o][d] = v
      BY <1>4, <1>7 DEF CardsOf
    <2>2. CASE v = CARD_CLEAR
      BY <1>6, <2>1, <2>2 DEF CARD_CLEAR, CARD_MARKED_OLD
    <2>3. CASE v = CARD_MARKED_OLD
      <3>1. marked = Cells(o)
        BY <2>1, <2>3
      <3>2. last \in Nat /\ last > 0 /\ Cells(o) = 1..last
        <4>1. Layout[o] \in Seq(1..NB_PAGES) /\ Layout[o] # <<>>
          BY <1>2 DEF PagesAssumption
        <4> QED BY <4>1, LenProperties, EmptySeq DEF Cells
      <3>3. {1, last, (last \div 2) + 1} \subseteq 1..last
        <4> HIDE DEF last
        <4> QED BY ONLY <3>2
      <3> QED BY <1>6, <3>1, <3>2, <3>3
    <2> QED BY <2>1, <2>2, <2>3
  <1>10. x.cards[o][c] = CARD_CLEAR
    BY <1>6, <1>8
  <1>11. ~Changed(s, o, c)
    BY <1>4, <1>6, <1>7, <1>9, <1>10 DEF CardsOf
  <1> QED BY <1>11 DEF Changed

\* A commit copies what it wrote to the shared copy and to all private ones.
LEMMA CommitMemory ==
  ASSUME PagesAssumption, BaseInv, PrivateInv, WrittenInv, GrowthInv, MemInv,
         NEW s \in Segs, NEW x, CommitStep(s, x)
  PROVE  MemInv'
  <1> SUFFICES ASSUME NEW o \in Objs, NEW c \in Cells(o)
               PROVE  CellInv(sys, o, c)'
    BY DEF MemInv
  <1> DEFINE arrays == x.seg[s].modified \intersect UsesCards
  <1>1. /\ pc[s].k = "commit" /\ (\A t \in Segs: pc[t].k \in Simple)
        /\ (x = sys \/ x = Major) /\ CommitLists(x, s, sys') /\ pc'[s].k = "idle"
        /\ (\A t \in Segs \ {s}: pc'[t] = pc[t] /\ own'[t] = own[t])
        /\ public' = public \union sys.seg[s].mine
        /\ committed'[o][c] = IF o \in sys.seg[s].modified \union sys.seg[s].mine
                              THEN own[s][o][c] ELSE committed[o][c]
    BY DEF CommitStep, Others, Idle
  <1>2. \A t \in Segs: ~AtCopy(t) /\ ~AtCopy(t)'
    BY <1>1 DEF AtCopy, Simple
  <1>3. CellInv(x, o, c)
    <2>1. CellInv(sys, o, c)
      BY DEF MemInv
    <2>2. CASE x = Major
      BY <1>1, <2>1, <2>2, MajorCell
    <2> QED BY <1>1, <2>1, <2>2
  <1>4. \A t \in Segs: x.seg[t].mine = sys.seg[t].mine /\ x.seg[t].modified = sys.seg[t].modified
    BY <1>1, AtSafePoint
  <1>5. sys'.by_segment = x.by_segment
    BY <1>1 DEF CommitLists, SameBut, Fields
  <1>6. /\ sys'.seg[s].modified = {} /\ sys'.seg[s].mine = {}
        /\ \A t \in Segs \ {s}: /\ sys'.seg[t].modified = sys.seg[t].modified
                                /\ sys'.seg[t].mine = sys.seg[t].mine
    <2>1. sys'.seg[s].modified = {} /\ sys'.seg[s].mine = {}
      BY <1>1 DEF CommitLists
    <2>2. \A t \in Segs \ {s}: SameListsBut(x, sys', t, {})
      BY <1>1 DEF CommitLists
    <2>3. \A t \in Segs \ {s}: /\ sys'.seg[t].modified = x.seg[t].modified
                               /\ sys'.seg[t].mine = x.seg[t].mine
      BY <2>2 DEF SameListsBut, ListFields
    <2> QED BY <1>4, <2>1, <2>3
  <1>7. \A t \in 0..NB_SEGMENTS: sys'.mem[t][o][c] =
          IF /\ o \in sys.seg[s].modified /\ c \in Copied(x, arrays, o)
             /\ t = 0 \/ (t # s /\ Private(x, t, o, c))
          THEN x.mem[Home(x, s, Layout[o][c])][o][c] ELSE x.mem[t][o][c]
    <2>1. CellsCopied(x, s, x.seg[s].modified, arrays, sys')
      BY <1>1 DEF CommitLists
    <2> QED BY ZenonT(60), <1>4, <2>1 DEF CellsCopied, Private
  <1> HIDE DEF arrays
  <1>8. s # 0 /\ 0 \in 0..NB_SEGMENTS /\ Segs \subseteq 0..NB_SEGMENTS
    BY DEF PagesAssumption, Segs
  <1>9. \A t \in Segs: \A value: Has(x, t, o, c, value) <=> Seen(x, t, o, c) = value
    BY <1>2, HasSeen
  <1>10. \A t \in Segs: Private(sys', t, o, c) <=> Private(x, t, o, c)
    BY <1>5 DEF Private
  <1>11. ASSUME NEW t \in Segs, Pushed(sys, t, o)'
         PROVE  t # s /\ Pushed(x, t, o)
    <2>1. t # s
      BY <1>6, <1>11 DEF Pushed
    <2> QED BY <1>1, <1>4, <1>6, <1>11, <2>1 DEF Pushed, Committing
  <1>12. OwnerInv(sys, public, o)
    BY DEF BaseInv, OwnedInv, Owned
  <1>13. ASSUME NEW t \in Segs
         PROVE  /\ Has(sys, t, o, c, committed[o][c])' <=> Seen(sys', t, o, c) = committed'[o][c]
                /\ \A u \in Segs: Has(sys, t, o, c, own[u][o][c])'
                                    <=> Seen(sys', t, o, c) = own'[u][o][c]
    BY <1>2, HasSeenNext
  <1>14. CASE o \in sys.seg[s].modified
    <2>1. /\ o \in public /\ committed'[o][c] = own[s][o][c]
          /\ \A t \in Segs: o \notin sys.seg[t].mine /\ (o \in sys.seg[t].modified => t = s)
      BY <1>1, <1>14, OneModifier
    <2>2. Private(x, s, o, c)
      <3>1. Private(sys, s, o, c)
        BY <1>1, <1>14, AllPrivate DEF Simple, Privatizing
      <3>2. Private(Major, s, o, c)
        BY <1>14, MajorPrivate
      <3> QED BY <1>1, <3>1, <3>2
    <2>3. x.mem[s][o][c] = own[s][o][c]
      <3>1. Seen(x, s, o, c) = own[s][o][c]
        BY <1>3, <1>4, <1>9, <1>14 DEF CellInv, CellOf
      <3> QED BY <2>2, <3>1 DEF Seen
    <2>4. Home(x, s, Layout[o][c]) = s
      BY <2>2 DEF Home, Private, is_private_page
    <2>5. c \notin Copied(x, arrays, o) => own[s][o][c] = committed[o][c]
      BY <1>14, NotCopied DEF arrays
    <2>6. x.mem[0][o][c] = committed[o][c]
      BY <1>3, <2>1 DEF CellInv
    <2>7. sys'.mem[0][o][c] = own[s][o][c]
      BY <1>7, <1>8, <1>14, <2>3, <2>4, <2>5, <2>6
    <2>8. ASSUME NEW t \in Segs
          PROVE  Seen(sys', t, o, c) = own[s][o][c]
      <3>1. CASE ~Private(x, t, o, c)
        BY <1>10, <2>7, <3>1 DEF Seen
      <3>2. CASE t = s
        <4>1. sys'.mem[s][o][c] = x.mem[s][o][c]
          BY <1>7, <1>8
        <4> QED BY <1>10, <2>2, <2>3, <3>2, <4>1 DEF Seen
      <3>3. CASE Private(x, t, o, c) /\ t # s
        <4>1. x.mem[t][o][c] = committed[o][c]
          <5>1. Seen(x, t, o, c) = committed[o][c]
            BY <1>3, <1>4, <1>9, <2>1, <3>3 DEF CellInv, CellOf
          <5> QED BY <3>3, <5>1 DEF Seen
        <4>2. sys'.mem[t][o][c] = own[s][o][c]
          BY <1>7, <1>8, <1>14, <2>3, <2>4, <2>5, <3>3, <4>1
        <4> QED BY <1>10, <3>3, <4>2 DEF Seen
      <3> QED BY <3>1, <3>2, <3>3
    <2>9. ASSUME NEW t \in Segs
          PROVE  CellOf(sys, t, o, c)'
      <3>1. o \notin sys'.seg[t].modified \union sys'.seg[t].mine
        BY <1>6, <2>1
      <3>2. ~Pushed(sys, t, o)'
        BY <3>1 DEF Pushed
      <3>3. Has(sys, t, o, c, committed[o][c])'
        BY <1>13, <2>1, <2>8
      <3> QED BY <3>1, <3>2, <3>3 DEF CellOf
    <2> QED BY <2>1, <2>7, <2>9 DEF CellInv
  <1>15. CASE o \notin sys.seg[s].modified
    <2>1. \A t \in 0..NB_SEGMENTS: sys'.mem[t][o][c] = x.mem[t][o][c]
      BY <1>7, <1>15
    <2>2. \A t \in Segs: Seen(sys', t, o, c) = Seen(x, t, o, c)
      BY <1>8, <1>10, <2>1 DEF Seen
    <2>3. CASE o \in sys.seg[s].mine
      <3>1. /\ o \notin public
            /\ \A t \in Segs: /\ o \notin sys.seg[t].modified
                              /\ o \in sys.seg[t].mine => t = s
        BY <1>12, <2>3 DEF OwnerInv
      <3>2. Pushed(x, s, o)
        BY <1>1, <1>4, <2>3 DEF Pushed, Committing, Pushing
      <3>3. /\ x.mem[0][o][c] = own[s][o][c]
            /\ \A t \in Segs: Seen(x, t, o, c) = own[s][o][c]
        BY <1>3, <1>9, <3>2 DEF CellInv, CellOf
      <3>4. committed'[o][c] = own[s][o][c]
        BY <1>1, <2>3
      <3>5. ASSUME NEW t \in Segs
            PROVE  CellOf(sys, t, o, c)'
        <4>1. o \notin sys'.seg[t].modified \union sys'.seg[t].mine
          BY <1>6, <3>1
        <4>2. ~Pushed(sys, t, o)'
          BY <4>1 DEF Pushed
        <4>3. Has(sys, t, o, c, committed[o][c])'
          BY <1>13, <2>2, <3>3, <3>4
        <4> QED BY <4>1, <4>2, <4>3 DEF CellOf
      <3> QED BY <1>8, <2>1, <3>3, <3>4, <3>5 DEF CellInv
    <2>4. CASE o \notin sys.seg[s].mine
      <3>1. committed'[o][c] = committed[o][c] /\ (o \in public' <=> o \in public)
        BY <1>1, <1>15, <2>4
      <3>2. ASSUME NEW t \in Segs
            PROVE  CellOf(sys, t, o, c)'
        <4>1. CellOf(x, t, o, c)
          BY <1>3 DEF CellInv
        <4>2. ASSUME o \in public', o \notin sys'.seg[t].modified
              PROVE  Has(sys, t, o, c, committed[o][c])'
          <5>1. o \notin x.seg[t].modified
            BY <1>4, <1>6, <1>15, <4>2
          <5>2. Seen(x, t, o, c) = committed[o][c]
            BY <1>9, <3>1, <4>1, <4>2, <5>1 DEF CellOf
          <5> QED BY <1>13, <2>2, <3>1, <5>2
        <4>3. ASSUME o \in sys'.seg[t].modified \union sys'.seg[t].mine
              PROVE  Has(sys, t, o, c, own[t][o][c])'
          <5>1. t # s /\ o \in x.seg[t].modified \union x.seg[t].mine
            BY <1>4, <1>6, <4>3
          <5>2. Seen(x, t, o, c) = own[t][o][c] /\ own'[t] = own[t]
            BY <1>1, <1>9, <4>1, <5>1 DEF CellOf
          <5> QED BY <1>13, <2>2, <5>2
        <4>4. ASSUME Pushed(sys, t, o)'
              PROVE  (/\ sys.mem[0][o][c] = own[t][o][c]
                      /\ \A u \in Segs: Has(sys, u, o, c, own[t][o][c]))'
          <5>1. t # s /\ Pushed(x, t, o) /\ own'[t] = own[t]
            BY <1>1, <1>11, <4>4
          <5>2. /\ x.mem[0][o][c] = own[t][o][c]
                /\ \A u \in Segs: Seen(x, u, o, c) = own[t][o][c]
            BY <1>9, <4>1, <5>1 DEF CellOf
          <5>3. sys'.mem[0][o][c] = own'[t][o][c]
            BY <1>8, <2>1, <5>1, <5>2
          <5>4. \A u \in Segs: Has(sys, u, o, c, own[t][o][c])'
            BY <1>13, <2>2, <5>1, <5>2
          <5> QED BY <5>3, <5>4
        <4> QED BY <4>2, <4>3, <4>4 DEF CellOf
      <3>3. (o \in public => sys.mem[0][o][c] = committed[o][c])'
        BY <1>3, <1>8, <2>1, <3>1 DEF CellInv
      <3> QED BY <3>2, <3>3 DEF CellInv
    <2> QED BY <2>3, <2>4
  <1> QED BY <1>14, <1>15

\* An abort brings the committed version back where the aborted transaction
\* had its own.
LEMMA AbortMemory ==
  ASSUME PagesAssumption, BaseInv, PrivateInv, MemInv, NEW S, NEW x, AbortStepOf(S, x)
  PROVE  MemInv'
  <1> SUFFICES ASSUME NEW o \in Objs, NEW c \in Cells(o)
               PROVE  CellInv(sys, o, c)'
    BY DEF MemInv
  <1>1. /\ S \in SUBSET Segs /\ (\A t \in S: pc[t].k \in Simple /\ pc'[t].k = "idle")
        /\ CopyOf(sys, x) /\ AbortLists(x, S, sys')
        /\ (\A t \in Segs \ S: pc'[t] = pc[t] /\ own'[t] = own[t])
        /\ public' = public /\ committed' = committed
    BY DEF AbortStepOf
  <1>2. CellInv(sys, o, c)
    BY DEF MemInv
  <1>3. 0 \in 0..NB_SEGMENTS /\ Segs \subseteq 0..NB_SEGMENTS /\ 0 \notin Segs
    BY DEF PagesAssumption, Segs
  <1>4. x.seg = sys.seg /\ x.by_segment = sys.by_segment
    BY <1>1 DEF CopyOf, SameBut, Fields
  <1>5. /\ x.mem[0][o][c] = sys.mem[0][o][c]
        /\ \A t \in Segs: Private(sys, t, o, c) => x.mem[t][o][c] = sys.mem[t][o][c]
    BY <1>1, <1>3 DEF CopyOf, Private
  <1>6. \A t \in Segs: Private(sys', t, o, c) <=> Private(sys, t, o, c)
    <2>1. sys'.by_segment = x.by_segment
      BY <1>1 DEF AbortLists, SameBut, Fields
    <2> QED BY <1>4, <2>1 DEF Private
  <1>7. ASSUME NEW t \in S, o \in sys.seg[t].modified
        PROVE  Private(sys, t, o, c) /\ Home(x, t, Layout[o][c]) = t
    <2>1. Private(sys, t, o, c)
      BY <1>1, <1>7, AllPrivate DEF Simple, Privatizing
    <2> QED BY <1>4, <2>1 DEF Home, Private, is_private_page
  <1>8. \A t \in 0..NB_SEGMENTS: sys'.mem[t][o][c] =
          IF t \in S /\ o \in sys.seg[t].modified THEN x.mem[0][o][c] ELSE x.mem[t][o][c]
    <2>1. \A t \in 0..NB_SEGMENTS: sys'.mem[t][o][c] =
            IF \E s \in S: o \in x.seg[s].modified /\ Home(x, s, Layout[o][c]) = t
            THEN x.mem[0][o][c] ELSE x.mem[t][o][c]
      BY <1>1 DEF AbortLists
    <2> QED BY <1>4, <1>7, <2>1
  <1>9. /\ \A t \in S: sys'.seg[t].modified = {} /\ sys'.seg[t].mine = {}
        /\ \A t \in Segs \ S: /\ sys'.seg[t].modified = sys.seg[t].modified
                              /\ sys'.seg[t].mine = sys.seg[t].mine
    <2>1. \A t \in S: ListsForgotten(x, t, sys')
      BY <1>1 DEF AbortLists
    <2>2. \A t \in Segs \ S: SameListsBut(x, sys', t, {})
      BY <1>1 DEF AbortLists
    <2>3. \A t \in Segs \ S: /\ sys'.seg[t].modified = x.seg[t].modified
                             /\ sys'.seg[t].mine = x.seg[t].mine
      BY <2>2 DEF SameListsBut, ListFields
    <2> QED BY <1>4, <2>1, <2>3 DEF ListsForgotten
  <1>10. \A t \in Segs: pc'[t] = pc[t] \/ (~AtCopy(t) /\ ~AtCopy(t)')
    BY <1>1 DEF Simple, AtCopy
  <1>11. sys'.mem[0][o][c] = sys.mem[0][o][c]
    BY <1>1, <1>3, <1>5, <1>8
  <1>12. ASSUME NEW t \in Segs, ~(t \in S /\ o \in sys.seg[t].modified),
                NEW value, Has(sys, t, o, c, value)
         PROVE  Has(sys, t, o, c, value)'
    <2>1. Private(sys, t, o, c) => sys'.mem[t][o][c] = sys.mem[t][o][c]
      BY <1>3, <1>5, <1>8, <1>12
    <2> QED BY <1>6, <1>10, <1>11, <1>12, <2>1, HasStays
  <1>13. ASSUME NEW t \in S
         PROVE  CellOf(sys, t, o, c)'
    <2>1. t \in Segs /\ o \notin sys'.seg[t].modified \union sys'.seg[t].mine
      BY <1>1, <1>9
    <2>2. ~Pushed(sys, t, o)'
      BY <2>1 DEF Pushed
    <2>3. ASSUME o \in public
          PROVE  Has(sys, t, o, c, committed[o][c])'
      <3>1. CASE o \in sys.seg[t].modified
        <4>1. Private(sys', t, o, c) /\ ~AtCopy(t)'
          BY <1>1, <1>6, <1>7, <2>1, <3>1 DEF AtCopy
        <4>2. sys'.mem[t][o][c] = committed[o][c]
          BY <1>2, <1>3, <1>5, <1>8, <2>1, <2>3, <3>1 DEF CellInv
        <4>3. Seen(sys', t, o, c) = committed'[o][c]
          BY <1>1, <4>1, <4>2 DEF Seen
        <4> QED BY <2>1, <4>1, <4>3, HasSeenNext
      <3>2. CASE o \notin sys.seg[t].modified
        <4>1. Has(sys, t, o, c, committed[o][c])
          BY <1>2, <2>1, <2>3, <3>2 DEF CellInv, CellOf
        <4>2. Has(sys, t, o, c, committed'[o][c])
          BY <1>1, <4>1
        <4> QED BY <1>12, <2>1, <3>2, <4>2
      <3> QED BY <3>1, <3>2
    <2> QED BY <1>1, <2>1, <2>2, <2>3 DEF CellOf
  <1>14. ASSUME NEW t \in Segs \ S
         PROVE  CellOf(sys, t, o, c)'
    <2>1. /\ CellOf(sys, t, o, c) /\ own'[t][o][c] = own[t][o][c]
          /\ committed'[o][c] = committed[o][c]
      BY <1>1, <1>2 DEF CellInv
    <2>2. ASSUME o \in public', o \notin sys'.seg[t].modified
          PROVE  Has(sys, t, o, c, committed[o][c])'
      BY <1>1, <1>9, <1>12, <2>1, <2>2 DEF CellOf
    <2>3. ASSUME o \in sys'.seg[t].modified \union sys'.seg[t].mine
          PROVE  Has(sys, t, o, c, own[t][o][c])'
      BY <1>9, <1>12, <2>1, <2>3 DEF CellOf
    <2>4. ASSUME Pushed(sys, t, o)'
          PROVE  (/\ sys.mem[0][o][c] = own[t][o][c]
                  /\ \A u \in Segs: Has(sys, u, o, c, own[t][o][c]))'
      <3>1. Pushed(sys, t, o)
        BY <1>1, <1>9, <2>4 DEF Pushed, Committing
      <3>2. \A u \in Segs: o \notin sys.seg[u].modified
        BY <3>1, OneModifier DEF Pushed
      <3>3. /\ sys.mem[0][o][c] = own[t][o][c]
            /\ \A u \in Segs: Has(sys, u, o, c, own[t][o][c])
        BY <2>1, <3>1 DEF CellOf
      <3>4. \A u \in Segs: Has(sys, u, o, c, own[t][o][c])'
        BY <1>12, <2>1, <3>2, <3>3
      <3> QED BY <1>11, <2>1, <3>3, <3>4
    <2> QED BY <2>2, <2>3, <2>4 DEF CellOf
  <1>15. (o \in public => sys.mem[0][o][c] = committed[o][c])'
    BY <1>1, <1>2, <1>11 DEF CellInv
  <1> QED BY <1>13, <1>14, <1>15 DEF CellInv

\* Every step keeps what the segments see.
LEMMA MemoryKept ==
  ASSUME PagesAssumption, BaseInv, PrivateInv, WrittenInv, GrowthInv, GrowthInv', MemInv, Step
  PROVE  MemInv'
  <1>1. CASE SameHeap /\ SameGrowth /\ UNCHANGED <<pc, highest_overflow_number>>
    BY <1>1, StillMemory DEF SameHeap
  <1>2. CASE \E s \in Segs: \E o: \E c: DirectWrite(s, o, c)
    BY <1>2, WritesCells, WrittenMemory
  <1>3. CASE \E s \in Segs: \E o: \E c: \E card: \E x: BarrierWrite(s, o, c, card, x)
    BY <1>3, WritesCells, WrittenMemory
  <1>4. CASE \E s \in Segs: \E o \in Objs: \E c \in Cells(o): \E card: LockTakenStep(s, o, c, card)
    BY <1>4, LockTakenMemory
  <1>5. CASE \E s \in Segs: PrivatizingStep(s)
    <2>1. PICK s \in Segs: PrivatizingStep(s)
      BY <1>5
    <2>2. CASE QuietPrivatizing(s)
      BY <2>1, <2>2, QuietSteps
    <2>3. CASE BitSet(s) \/ PageRead(s) \/ PageWritten(s)
      BY <2>1, <2>3, PageCopied
    <2> QED BY <2>1, <2>2, <2>3 DEF PrivatizingStep
  <1>6. CASE \E s \in Segs: \E o: AllocateStep(s, o)
    BY <1>6, QuietSteps
  <1>7. CASE \E s \in Segs: OnTheWay(s)
    BY <1>7, QuietSteps
  <1>8. CASE \E s \in Segs: Made(s)
    BY <1>8, MadeMemory
  <1>9. CASE \E s \in Segs: \E o: PopRootStep(s, o)
    BY <1>9, QuietSteps
  <1>10. CASE \E o: UnlinkStep(o)
    <2>1. UNCHANGED <<sys, pc, committed, own>> /\ public' \subseteq public
      BY <1>10 DEF UnlinkStep
    <2> QED BY <2>1, StillMemory
  <1>11. CASE \E s \in Segs: \E commit: MinorStepOf(s, commit)
    BY <1>11, QuietSteps
  <1>12. CASE \E s \in Segs: PushWaits(s)
    BY <1>12, QuietSteps
  <1>13. CASE \E s \in Segs: \E o: ObjectPushed(s, o)
    BY <1>13, PushedMemory
  <1>14. CASE \E s \in Segs: \E x: CommitStep(s, x)
    BY <1>14, CommitMemory
  <1>15. CASE \E s \in Segs: MajorStepOf(s)
    BY <1>15, MajorStepMemory
  <1>16. CASE \E S: \E x: AbortStepOf(S, x)
    BY <1>16, AbortMemory
  <1> QED BY <1>1, <1>2, <1>3, <1>4, <1>5, <1>6, <1>7, <1>8, <1>9, <1>10, <1>11, <1>12,
             <1>13, <1>14, <1>15, <1>16 DEF Step

\* At the start all is zero.
LEMMA MemoryInit ==
  ASSUME PagesAssumption, Init
  PROVE  MemInv
  <1> SUFFICES ASSUME NEW o \in Objs, NEW c \in Cells(o)
               PROVE  CellInv(sys, o, c)
    BY DEF MemInv
  <1>1. /\ sys.mem = [t \in 0..NB_SEGMENTS |-> [p \in Objs |-> Zeroes(p)]]
        /\ committed = [p \in Objs |-> Zeroes(p)] /\ pc = [s \in Segs |-> Idle]
        /\ sys.by_segment = [p \in 1..NB_PAGES |-> {}]
    BY DEF Init
  <1>2. \A s \in Segs: sys.seg[s].modified = {} /\ sys.seg[s].mine = {}
    BY DEF Init
  <1>3. sys.mem[0][o][c] = 0 /\ committed[o][c] = 0
    <2>1. 0 \in 0..NB_SEGMENTS
      BY DEF PagesAssumption
    <2> QED BY <1>1, <2>1 DEF Zeroes
  <1>4. ASSUME NEW s \in Segs
        PROVE  CellOf(sys, s, o, c)
    <2>1. ~AtCopy(s)
      BY <1>1 DEF AtCopy, Idle
    <2>2. ~Private(sys, s, o, c)
      BY <1>1, CellPages DEF Private
    <2>3. Seen(sys, s, o, c) = committed[o][c]
      BY <1>3, <2>2 DEF Seen
    <2>4. Has(sys, s, o, c, committed[o][c])
      BY <2>1, <2>3, HasSeen
    <2> QED BY <1>2, <2>4 DEF CellOf, Pushed
  <1> QED BY <1>3, <1>4 DEF CellInv

-----------------------------------------------------------------------------
(* The versions of the objects.                                            *)

\* A version has a bit for each cell.
IsValue(f, o) == f = [c \in Cells(o) |-> f[c]]

\* All that is written or committed is a version.
ValuesInv ==
  \A o \in Objs: IsValue(committed[o], o) /\ \A s \in Segs: IsValue(own[s][o], o)

\* One cell of a version changes.
LEMMA CellChanged ==
  ASSUME NEW o, NEW f, IsValue(f, o), NEW c, NEW value
  PROVE  IsValue([f EXCEPT ![c] = value], o)
  BY DEF IsValue

\* The contents of a new object.
LEMMA ZeroValue ==
  ASSUME NEW o
  PROVE  IsValue(Zeroes(o), o)
  BY DEF IsValue, Zeroes

\* The version of one object in one segment changes.
LEMMA OneValue ==
  ASSUME ContentsInv, ValuesInv, NEW s \in Segs, NEW q, NEW value, IsValue(value, q),
         own' = [own EXCEPT ![s][q] = value], committed' = committed
  PROVE  ValuesInv'
  BY DEF ValuesInv, ContentsInv, IsContents

\* What the program writes is a version of the object.
LEMMA ProgramValues ==
  ASSUME ContentsInv, ValuesInv, NEW s \in Segs, NEW o \in Objs, NEW c, NEW x,
         ProgramWrites(x, s, o, c), committed' = committed
  PROVE  ValuesInv'
  <1> DEFINE base == IF o \in x.seg[s].mine \/ o \in sys.seg[s].modified
                     THEN own[s][o] ELSE committed[o]
             value == [base EXCEPT ![c] = 1 - @]
  <1>1. IsValue(base, o)
    BY DEF ValuesInv
  <1>2. own' = [own EXCEPT ![s][o] = value]
    BY DEF ProgramWrites
  <1> HIDE DEF base
  <1>3. IsValue(value, o)
    BY <1>1, CellChanged
  <1> HIDE DEF value
  <1> QED BY <1>2, <1>3, OneValue

\* A new object is zero.
LEMMA NewValue ==
  ASSUME ContentsInv, ValuesInv, NEW s \in Segs, NEW o, NewObject(s, o), committed' = committed
  PROVE  ValuesInv'
  <1>1. own' = [own EXCEPT ![s][o] = Zeroes(o)]
    BY DEF NewObject
  <1> QED BY <1>1, ZeroValue, OneValue

\* The versions of a segment are forgotten.
LEMMA NoValues ==
  ASSUME ContentsInv, ValuesInv, NEW S,
         \A t \in Segs: own'[t] = IF t \in S THEN [o \in Objs |-> Zeroes(o)] ELSE own[t],
         \A o \in Objs: \/ committed'[o] = committed[o]
                        \/ \E t \in Segs: committed'[o] = own[t][o]
  PROVE  ValuesInv'
  <1>1. ASSUME NEW o \in Objs
        PROVE  IsValue(committed'[o], o)
    BY DEF ValuesInv
  <1>2. ASSUME NEW o \in Objs, NEW t \in Segs
        PROVE  IsValue(own'[t][o], o)
    <2>1. own'[t][o] = Zeroes(o) \/ own'[t][o] = own[t][o]
      OBVIOUS
    <2> QED BY <2>1, ZeroValue DEF ValuesInv
  <1> QED BY <1>1, <1>2 DEF ValuesInv, IsValue

\* Every step keeps them versions.
LEMMA ValuesKept ==
  ASSUME BaseInv, ValuesInv, [Next]_vars
  PROVE  ValuesInv'
  <1>1. ContentsInv /\ DOMAIN own = Segs
    BY DEF BaseInv, ContentsInv
  <1>2. ASSUME own' = own, committed' = committed
        PROVE  ValuesInv'
    BY <1>2 DEF ValuesInv
  <1>3. CASE UNCHANGED vars
    BY <1>2, <1>3 DEF vars
  <1>4. ASSUME NEW s \in Segs,
               \/ page_privatize(s) \/ AcquirePrivatizationLock(s) \/ SetPrivateBit(s)
               \/ ReadSharedPage(s) \/ WritePrivatePage(s) \/ ReleasePrivatizationLock(s)
               \/ MorePagesNeeded(s) \/ AcquireGrowthLock(s)
        PROVE  ValuesInv'
    BY <1>2, <1>4 DEF page_privatize, AcquirePrivatizationLock, SetPrivateBit, ReadSharedPage,
         WritePrivatePage, ReleasePrivatizationLock, MorePagesNeeded, AcquireGrowthLock, heap
  <1>5. ASSUME NEW s \in Segs,
               \/ MinorAtCommit(s) \/ acquire_privatization_lock(s)
               \/ push_overflow_objects_from_privatized_pages(s)
               \/ release_privatization_lock(s) \/ major_collection_if_requested(s)
               \/ \E level \in 0..1: stm_collect(s, level)
        PROVE  ValuesInv'
    BY <1>2, <1>5 DEF MinorAtCommit, acquire_privatization_lock,
         push_overflow_objects_from_privatized_pages, release_privatization_lock,
         stm_collect, major_collection_if_requested, heap
  <1>6. ASSUME NEW s \in Segs, NEW o \in Objs, NEW c \in Cells(o), stm_write(s, o, c)
        PROVE  ValuesInv'
    BY <1>1, <1>6, ProgramValues DEF stm_write
  <1>7. ASSUME NEW s \in Segs, NEW o \in Objs, NEW c \in Cells(o), NEW card,
               write_slowpath_overflow_obj(s, o, c, card)
        PROVE  ValuesInv'
    BY <1>1, <1>7, ProgramValues DEF write_slowpath_overflow_obj
  <1>8. ASSUME NEW s \in Segs, NEW o \in Objs, NEW c \in Cells(o), NEW card,
               write_slowpath_common(s, o, c, card)
        PROVE  ValuesInv'
    <2>1. own' = own \/ own' = [own EXCEPT ![s][o] = committed[o]]
      BY <1>8 DEF write_slowpath_common
    <2>2. committed' = committed
      BY <1>8 DEF write_slowpath_common
    <2>3. IsValue(committed[o], o)
      BY DEF ValuesInv
    <2> QED BY <1>1, <1>2, <2>1, <2>2, <2>3, OneValue
  <1>9. ASSUME NEW s \in Segs, BarrierDone(s)
        PROVE  ValuesInv'
    <2>1. pc[s].o \in Objs
      BY <1>9 DEF BarrierDone, BaseInv, PlacedInv, Placed, Privatizing
    <2> QED BY <1>1, <1>9, <2>1, ProgramValues DEF BarrierDone
  <1>10. ASSUME NEW s \in Segs, PagesExist(s) \/ setup_N_pages(s) \/ PagesMapped(s)
         PROVE  ValuesInv'
    <2>1. CASE NewObject(s, pc[s].o) /\ committed' = committed
      BY <1>1, <2>1, NewValue
    <2>2. CASE own' = own /\ committed' = committed
      BY <1>2, <2>2
    <2> QED BY <1>10, <2>1, <2>2 DEF PagesExist, setup_N_pages, PagesMapped, heap
  <1>11. ASSUME NEW s \in Segs, stm_commit_transaction(s)
         PROVE  ValuesInv'
    <2>1. /\ own' = [own EXCEPT ![s] = [o \in Objs |-> Zeroes(o)]]
          /\ committed' = [o \in Objs |->
               IF o \in sys.seg[s].modified \union sys.seg[s].mine THEN own[s][o]
               ELSE committed[o]]
      BY <1>11 DEF stm_commit_transaction
    <2> HIDE <1>11
    <2>2. \A t \in Segs: own'[t] = IF t \in {s} THEN [o \in Objs |-> Zeroes(o)] ELSE own[t]
      BY <1>1, <2>1
    <2>3. \A o \in Objs: committed'[o] = committed[o]
                         \/ \E t \in Segs: committed'[o] = own[t][o]
      BY <2>1
    <2> QED BY <1>1, <2>2, <2>3, NoValues
  <1>12. ASSUME NEW s \in Segs, abort_with_mutex(s)
         PROVE  ValuesInv'
    <2>1. own' = [own EXCEPT ![s] = [o \in Objs |-> Zeroes(o)]] /\ committed' = committed
      BY <1>12 DEF abort_with_mutex, Forget
    <2>2. \A t \in Segs: own'[t] = IF t \in {s} THEN [o \in Objs |-> Zeroes(o)] ELSE own[t]
      BY <1>1, <2>1
    <2> QED BY <1>1, <2>1, <2>2, NoValues
  <1>13. ASSUME NEW s \in Segs, forksupport_child(s)
         PROVE  ValuesInv'
    <2>1. /\ own' = [t \in Segs |-> IF t = s THEN own[t] ELSE [o \in Objs |-> Zeroes(o)]]
          /\ committed' = committed
      BY <1>13 DEF forksupport_child
    <2>2. \A t \in Segs: own'[t] = IF t \in Segs \ {s} THEN [o \in Objs |-> Zeroes(o)]
                                   ELSE own[t]
      BY <2>1
    <2> QED BY <1>1, <2>1, <2>2, NoValues
  <1>14. ASSUME NEW o \in Objs,
                Unlink(o) \/ \E s \in Segs: allocate_outside_nursery_large(s, o) \/ PopRoot(s, o)
         PROVE  ValuesInv'
    BY <1>2, <1>14 DEF allocate_outside_nursery_large, PopRoot, Unlink
  <1>15. CASE Next
    BY <1>4, <1>5, <1>6, <1>7, <1>8, <1>9, <1>10, <1>11, <1>12, <1>13, <1>14, <1>15 DEF Next
  <1> QED BY <1>3, <1>15

\* At the start all versions are zero.
LEMMA ValuesInit ==
  ASSUME Init
  PROVE  ValuesInv
  BY ZeroValue DEF Init, ValuesInv

-----------------------------------------------------------------------------
(* The theorem.                                                            *)

\* The inductive invariant.
AgreeInv ==
  BaseInv /\ PrivateInv /\ GrowthInv /\ WrittenInv /\ MemInv /\ ValuesInv

\* What holds throughout: who owns which object, which pages are private,
\* which are mapped, which cells of arrays changed, and what each segment
\* sees of every cell.
LEMMA AgreeInvariant ==
  ASSUME PagesAssumption, ~MIXED_BARRIERS
  PROVE  Spec => []AgreeInv
  <1>1. ASSUME Init
        PROVE  WrittenInv /\ MemInv /\ ValuesInv
    BY <1>1, WrittenInit, MemoryInit, ValuesInit
  <1>2. ASSUME BaseInv /\ PrivateInv /\ GrowthInv, WrittenInv /\ MemInv /\ ValuesInv,
               [Next]_vars, (BaseInv /\ PrivateInv /\ GrowthInv)'
        PROVE  (WrittenInv /\ MemInv /\ ValuesInv)'
    <2>1. Step
      BY <1>2, StepsTaken
    <2> QED BY <1>2, <2>1, WrittenKept, MemoryKept, ValuesKept
  <1>3. BaseInv /\ PrivateInv /\ GrowthInv /\ WrittenInv /\ MemInv /\ ValuesInv => AgreeInv
    BY DEF AgreeInv
  <1> QED BY <1>1, <1>2, <1>3, PagesInvariant, PTL DEF Spec

\* A segment that is not copying a page of the object sees all its cells.
LEMMA WholeView ==
  ASSUME GrowthInv, NEW s \in Segs, NEW o \in Objs, InUse(o), ~Copying(s, o),
         NEW f, IsValue(f, o), \A c \in Cells(o): Has(sys, s, o, c, f[c])
  PROVE  View(sys, s, o) = f
  <1>1. ASSUME NEW c \in Cells(o)
        PROVE  sys.mem[Home(sys, s, Layout[o][c])][o][c] = f[c]
    <2>1. ~CopyingCell(s, o, c)
      <3>1. Layout[o][c] \in Range(Layout[o])
        BY DEF Range, Cells
      <3> QED BY <3>1 DEF Copying, CopyingCell, AtCopy
    <2>2. Home(sys, s, Layout[o][c]) = IF Private(sys, s, o, c) THEN s ELSE 0
      BY HomeMapped
    <2> QED BY <2>1, <2>2 DEF Has
  <1>2. View(sys, s, o) = [c \in Cells(o) |-> f[c]]
    BY <1>1 DEF View
  <1> QED BY <1>2 DEF IsValue

\* Every segment sees, for every value of the constants, what its
\* transaction wrote and otherwise the last committed version: the write
\* barrier and the privatization of pages, the pushing of the objects of a
\* commit, the card-wise copies, aborts, re-sharing and fork() never leave
\* a stale copy where a segment looks, provided that no transaction changes
\* one array through both barriers (which does leave one: see
\* pages_mixed_barriers.cfg).
THEOREM SegmentsSeeTheirVersions ==
  ASSUME ~MIXED_BARRIERS
  PROVE  Spec => []SegmentsAgree
  <1>1. ASSUME AgreeInv
        PROVE  SegmentsAgree
    <2> SUFFICES ASSUME NEW s \in Segs
                 PROVE  /\ \A o \in sys.seg[s].modified \union sys.seg[s].mine:
                             Copying(s, o) \/ View(sys, s, o) = own[s][o]
                        /\ \A o \in public \ sys.seg[s].modified:
                             Copying(s, o) \/ View(sys, s, o) = committed[o]
      BY DEF SegmentsAgree
    <2>1. BaseInv /\ GrowthInv /\ MemInv /\ ValuesInv
      BY <1>1 DEF AgreeInv
    <2>2. ASSUME NEW o \in sys.seg[s].modified \union sys.seg[s].mine, ~Copying(s, o)
          PROVE  View(sys, s, o) = own[s][o]
      <3>1. o \in Objs
        BY <2>1 DEF BaseInv, OwnedInv, Owned, OpenInv
      <3>2. InUse(o)
        BY <2>1, OneModifier DEF InUse
      <3>3. \A c \in Cells(o): Has(sys, s, o, c, own[s][o][c])
        BY <2>1, <3>1 DEF MemInv, CellInv, CellOf
      <3>4. IsValue(own[s][o], o)
        BY <2>1, <3>1 DEF ValuesInv
      <3> QED BY <2>1, <2>2, <3>1, <3>2, <3>3, <3>4, WholeView
    <2>3. ASSUME NEW o \in public \ sys.seg[s].modified, ~Copying(s, o)
          PROVE  View(sys, s, o) = committed[o]
      <3>1. o \in Objs /\ InUse(o)
        BY <2>1 DEF BaseInv, ContentsInv, InUse
      <3>2. \A c \in Cells(o): Has(sys, s, o, c, committed[o][c])
        BY <2>1, <3>1 DEF MemInv, CellInv, CellOf
      <3>3. IsValue(committed[o], o)
        BY <2>1, <3>1 DEF ValuesInv
      <3> QED BY <2>1, <2>3, <3>1, <3>2, <3>3, WholeView
    <2> QED BY <2>2, <2>3
  <1> QED BY <1>1, PagesAssumption, AgreeInvariant, PTL

=============================================================================
