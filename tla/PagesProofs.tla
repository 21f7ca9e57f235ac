---------------------------- MODULE PagesProofs ----------------------------
(* The locks of Pages, for any number of segments, objects and pages: no   *)
(* two threads wait for each other's privatization locks, and write_locks  *)
(* tells who modified what, whatever collections write there in between.   *)
EXTENDS Pages, FiniteSetTheorems, WellFoundedInduction, TLAPS

Simple == {"idle", "commit", "major"}
Privatizing == {"page", "lock", "bit", "read", "copy", "unlock"}
Allocating == {"new", "wait", "grow", "mapped"}
Pushing == {"push", "pushing"}

\* What is needed of the records in pc.
PlaceInv ==
  /\ DOMAIN pc = Segs
  /\ \A s \in Segs: "k" \in DOMAIN pc[s]
                    /\ pc[s].k \in Simple \union Privatizing \union Allocating \union Pushing
                    /\ (pc[s].k \in Allocating => "o" \in DOMAIN pc[s])

-----------------------------------------------------------------------------
(* The privatization locks.                                                *)

Held(s) == {i \in Segs: privatization_lock[i] = s}

\* A thread that privatizes a page has taken the locks of the first n
\* segments; one that pushes its overflow objects has its own.
LocksOf(s) ==
  CASE pc[s].k = "lock" -> \E n \in 0..(NB_SEGMENTS - 1): Held(s) = 1..n
    [] pc[s].k \in {"bit", "read", "copy"} -> Held(s) = Segs
    [] pc[s].k = "unlock" -> \E n \in 1..NB_SEGMENTS: Held(s) = 1..n
    [] pc[s].k = "pushing" -> Held(s) = {s}
    [] OTHER -> Held(s) = {}

LockInv ==
  /\ privatization_lock \in [Segs -> 0..NB_SEGMENTS]
  /\ \A s \in Segs: LocksOf(s)

\* Counting the locks says which ones they are.
LEMMA Counted ==
  ASSUME NEW s \in Segs, NEW n \in Nat, Held(s) = 1..n
  PROVE  LocksHeld(s) = n
  <1>1. Cardinality(1..n) = IF 1 > n THEN 0 ELSE n - 1 + 1
    BY FS_Interval
  <1>2. Cardinality(1..n) = n
    BY <1>1
  <1> QED BY <1>2 DEF Held, LocksHeld

\* A set of numbers up to n has a greatest one.
LEMMA Greatest ==
  ASSUME NEW n \in Nat, NEW T \in SUBSET (0..n), T # {}
  PROVE  \E x \in T : \A y \in T : y <= x
  <1> DEFINE U == {n - x : x \in T}
             R == OpToRel(<, Nat)
  <1>1. U \subseteq Nat /\ U # {}
    <2>1. \A x \in T : n - x \in Nat
      OBVIOUS
    <2>2. PICK x \in T : TRUE
      OBVIOUS
    <2>3. n - x \in U
      OBVIOUS
    <2> QED BY <2>1, <2>3
  <1>2. IsWellFoundedOn(R, Nat)
    BY NatLessThanWellFounded
  <1> HIDE DEF R
  <1>3. \E u \in U : \A w \in U : ~ (<<w, u>> \in R)
    BY <1>1, <1>2, WFMin
  <1>4. PICK u \in U : \A w \in U : ~ (<<w, u>> \in R)
    BY <1>3
  <1>5. \A w \in U : ~ (w < u)
    BY <1>1, <1>4 DEF R, OpToRel
  <1>6. PICK x \in T : u = n - x
    BY <1>4
  <1>7. \A y \in T : ~ (n - y < n - x)
    BY <1>5, <1>6
  <1>8. \A y \in T : y <= x
    BY <1>7
  <1> QED BY <1>8

-----------------------------------------------------------------------------
\* In any set of waiting threads take the one that wants the greatest lock.
LEMMA NoWait ==
  ASSUME NB_SEGMENTS \in Nat, LockInv
  PROVE  NoCircularWait
  <1> DEFINE Waits(s) == pc[s].k = "lock" \/ (pc[s].k = "push" /\ pc[s].todo # {})
             Wanted(s) == IF pc[s].k = "push" THEN s ELSE LockOrder(s)[LocksHeld(s) + 1]
  <1> SUFFICES ASSUME NEW S \in (SUBSET Segs) \ {{}},
                      \A s \in S : Waits(s) /\ privatization_lock[Wanted(s)] \in S
               PROVE  FALSE
    BY DEF NoCircularWait
  <1>1. ASSUME NEW s \in S, pc[s].k = "lock"
        PROVE  \E n \in 0..(NB_SEGMENTS - 1) : Held(s) = 1..n /\ Wanted(s) = n + 1
    <2>1. PICK n \in 0..(NB_SEGMENTS - 1) : Held(s) = 1..n
      BY <1>1 DEF LockInv, LocksOf
    <2>2. LocksHeld(s) = n
      BY <2>1, Counted
    <2> QED BY <2>1, <2>2, <1>1 DEF LockOrder, Segs
  <1>2. \A s \in S : Wanted(s) \in Segs
    BY <1>1 DEF Segs
  <1>3. \A s \in S : pc[s].k # "lock" => Held(s) = {}
    BY DEF LockInv, LocksOf
  <1>4. ASSUME NEW s \in S
        PROVE  \E t \in S : Wanted(s) < Wanted(t)
    <2> DEFINE t == privatization_lock[Wanted(s)]
    <2>1. t \in S /\ Wanted(s) \in Held(t)
      BY <1>2 DEF Held
    <2>2. pc[t].k = "lock"
      BY <2>1, <1>3
    <2>3. PICK n \in 0..(NB_SEGMENTS - 1) : Held(t) = 1..n /\ Wanted(t) = n + 1
      BY <2>1, <2>2, <1>1
    <2>4. Wanted(s) \in 1..n
      BY <2>1, <2>3
    <2> HIDE DEF t, Wanted
    <2>5. Wanted(s) < Wanted(t)
      BY <2>3, <2>4
    <2> QED BY <2>1, <2>5
  <1> DEFINE T == {Wanted(s) : s \in S}
  <1>5. T \in SUBSET (0..NB_SEGMENTS) /\ T # {}
    <2> HIDE DEF Wanted
    <2>1. PICK s \in S : TRUE
      OBVIOUS
    <2>2. Wanted(s) \in T
      BY <2>1
    <2> QED BY <1>2, <2>2 DEF Segs
  <1>6. \E x \in T : \A y \in T : y <= x
    <2> HIDE DEF T
    <2> QED BY <1>5, Greatest
  <1>7. PICK s \in S : \A t \in S : Wanted(t) <= Wanted(s)
    <2> HIDE DEF Wanted
    <2> QED BY <1>6
  <1>8. PICK t \in S : Wanted(s) < Wanted(t)
    BY <1>4
  <1>9. Wanted(s) \in Int /\ Wanted(t) \in Int
    <2> HIDE DEF Wanted
    <2> QED BY <1>2 DEF Segs
  <1> HIDE DEF Wanted
  <1> QED BY <1>7, <1>8, <1>9

-----------------------------------------------------------------------------
(* Steps and the places they lead to.                                      *)

\* The places of a thread that has no privatization lock, and of one that
\* has all of them.
WithNone == Simple \union {"page", "push"} \union Allocating
WithAll == {"bit", "read", "copy"}

\* Steps that leave the privatization locks alone.
Calm ==
  /\ privatization_lock' = privatization_lock
  /\ \A t \in Segs: \/ pc'[t].k = pc[t].k
                    \/ pc[t].k \in WithNone /\ pc'[t].k \in WithNone
                    \/ pc[t].k \in WithAll /\ pc'[t].k \in WithAll

\* They keep the invariant of the locks.
LEMMA CalmLocks ==
  ASSUME LockInv, Calm
  PROVE  LockInv'
  <1>1. ASSUME NEW t \in Segs
        PROVE  LocksOf(t)'
    <2>1. Held(t)' = Held(t)
      BY DEF Held, Calm
    <2>2. LocksOf(t)
      BY DEF LockInv
    <2> QED BY <2>1, <2>2 DEF LocksOf, Calm, WithNone, WithAll, Simple, Allocating
  <1> QED BY <1>1 DEF LockInv, Calm

\* A thread that goes on to another place.
LEMMA Gone ==
  ASSUME PlaceInv, NEW s \in Segs, NEW p, Goto(s, p), "k" \in DOMAIN p,
         p.k \in Simple \union Privatizing \union Allocating \union Pushing,
         p.k \in Allocating => "o" \in DOMAIN p
  PROVE  /\ PlaceInv'
         /\ pc'[s] = p
         /\ \A t \in Segs \ {s}: pc'[t] = pc[t]
  BY DEF PlaceInv, Goto

\* A step of s that takes no lock and gives none back.
LEMMA GoneCalmly ==
  ASSUME PlaceInv, LockInv, NEW s \in Segs, NEW p, Goto(s, p), "k" \in DOMAIN p,
         p.k \in Allocating => "o" \in DOMAIN p,
         \/ pc[s].k \in WithNone /\ p.k \in WithNone
         \/ pc[s].k \in WithAll /\ p.k \in WithAll
         \/ p.k = pc[s].k,
         UNCHANGED privatization_lock
  PROVE  PlaceInv' /\ LockInv'
  <1>1. p.k \in Simple \union Privatizing \union Allocating \union Pushing
    BY DEF PlaceInv, WithNone, WithAll, Simple, Privatizing, Allocating, Pushing
  <1>2. /\ PlaceInv'
        /\ pc'[s] = p
        /\ \A t \in Segs \ {s}: pc'[t] = pc[t]
    BY <1>1, Gone
  <1>3. Calm
    BY <1>2 DEF Calm
  <1> QED BY <1>2, <1>3, CalmLocks

\* No thread goes anywhere.
LEMMA Stays ==
  ASSUME PlaceInv, LockInv, UNCHANGED <<pc, privatization_lock>>
  PROVE  PlaceInv' /\ LockInv'
  BY CalmLocks DEF PlaceInv, Calm

-----------------------------------------------------------------------------
(* The steps that take and give back privatization locks.                  *)

\* The locks of the threads that a step is not about.
LEMMA OthersKeep ==
  ASSUME LockInv, NEW s \in Segs,
         \A t \in Segs \ {s}: pc'[t] = pc[t],
         \A t \in Segs \ {s}: Held(t)' = Held(t)
  PROVE  \A t \in Segs \ {s}: LocksOf(t)'
  BY DEF LockInv, LocksOf

\* A thread begins to take the locks with none.
LEMMA PrivatizeLocks ==
  ASSUME PlaceInv, LockInv, NEW s \in Segs, page_privatize(s), NB_SEGMENTS \in Nat
  PROVE  PlaceInv' /\ LockInv'
  <1> DEFINE private == is_private_page(sys, s, Head(pc[s].todo))
  <1>1. UNCHANGED privatization_lock
    BY DEF page_privatize, locks
  <1>2. CASE private
    BY <1>1, <1>2, GoneCalmly DEF page_privatize, PlaceInv, WithNone, Allocating
  <1>3. CASE ~private
    <2>1. Goto(s, [pc[s] EXCEPT !.k = "lock"]) /\ pc[s].k = "page"
      BY <1>3 DEF page_privatize
    <2>2. /\ PlaceInv' /\ pc'[s].k = "lock"
          /\ \A t \in Segs \ {s}: pc'[t] = pc[t]
      BY <2>1, Gone DEF PlaceInv, Privatizing, Allocating
    <2>3. \A t \in Segs: Held(t)' = Held(t)
      BY <1>1 DEF Held
    <2>4. Held(s) = 1..0
      BY <2>1 DEF LockInv, LocksOf
    <2>5. 0 \in 0..(NB_SEGMENTS - 1)
      BY DEF Segs
    <2>6. LocksOf(s)'
      BY <2>2, <2>3, <2>4, <2>5 DEF LocksOf
    <2> QED BY <1>1, <2>2, <2>3, <2>6, OthersKeep DEF LockInv
  <1> QED BY <1>2, <1>3

\* It takes the next lock.
LEMMA AcquireLocks ==
  ASSUME PlaceInv, LockInv, NEW s \in Segs, AcquirePrivatizationLock(s), NB_SEGMENTS \in Nat
  PROVE  PlaceInv' /\ LockInv'
  <1>1. PICK n \in 0..(NB_SEGMENTS - 1) : Held(s) = 1..n
    BY DEF AcquirePrivatizationLock, LockInv, LocksOf
  <1>2. LocksHeld(s) = n
    BY <1>1, Counted
  <1>3. /\ n + 1 \in Segs /\ LockOrder(s)[n + 1] = n + 1 /\ Len(LockOrder(s)) = NB_SEGMENTS
        /\ s \in 0..NB_SEGMENTS /\ s # 0
    BY DEF Segs, LockOrder
  <1>4. /\ privatization_lock[n + 1] = 0
        /\ privatization_lock' = [privatization_lock EXCEPT ![n + 1] = s]
        /\ pc[s].k = "lock"
    BY <1>2, <1>3 DEF AcquirePrivatizationLock
  <1>5. Goto(s, IF n + 1 = NB_SEGMENTS THEN [pc[s] EXCEPT !.k = "bit"] ELSE pc[s])
    BY <1>2, <1>3 DEF AcquirePrivatizationLock
  <1>6. /\ PlaceInv' /\ \A t \in Segs \ {s}: pc'[t] = pc[t]
        /\ pc'[s].k = IF n + 1 = NB_SEGMENTS THEN "bit" ELSE "lock"
    <2> DEFINE p == IF n + 1 = NB_SEGMENTS THEN [pc[s] EXCEPT !.k = "bit"] ELSE pc[s]
    <2>1. "k" \in DOMAIN p /\ p.k = IF n + 1 = NB_SEGMENTS THEN "bit" ELSE "lock"
      BY <1>4 DEF PlaceInv
    <2>2. p.k \in Privatizing /\ p.k \notin Allocating
      BY <2>1 DEF Privatizing, Allocating
    <2> HIDE DEF p
    <2> QED BY <1>5, <2>1, <2>2, Gone DEF p
  <1>7. \A t \in Segs \ {s}: Held(t)' = Held(t)
    BY <1>3, <1>4 DEF Held, LockInv, Segs
  <1>8. Held(s)' = 1..(n + 1)
    <2>1. \A i \in Segs: i \in Held(s)' <=> i \in Held(s) \/ i = n + 1
      BY <1>3, <1>4 DEF Held, LockInv
    <2>2. Held(s)' \subseteq Segs
      BY DEF Held
    <2>3. 1..(n + 1) \subseteq Segs
      BY <1>3 DEF Segs
    <2>4. \A i \in Segs: i \in 1..(n + 1) <=> i \in 1..n \/ i = n + 1
      BY DEF Segs
    <2> QED BY <1>1, <2>1, <2>2, <2>3, <2>4
  <1>9. LocksOf(s)'
    BY <1>3, <1>6, <1>8 DEF LocksOf, Segs
  <1> QED BY <1>3, <1>4, <1>6, <1>7, <1>9, OthersKeep DEF LockInv

\* It begins to give them back with all of them.
LEMMA WriteLocks ==
  ASSUME PlaceInv, LockInv, NEW s \in Segs, WritePrivatePage(s), NB_SEGMENTS \in Nat
  PROVE  PlaceInv' /\ LockInv'
  <1>1. UNCHANGED privatization_lock /\ pc[s].k = "copy"
    BY DEF WritePrivatePage, locks
  <1>2. /\ PlaceInv' /\ pc'[s].k = "unlock"
        /\ \A t \in Segs \ {s}: pc'[t] = pc[t]
    <2> DEFINE p == [pc[s] EXCEPT !.k = "unlock", !.total = 0, !.page = NULL]
    <2>1. "k" \in DOMAIN p /\ p.k = "unlock"
      BY DEF PlaceInv
    <2>2. Goto(s, p)
      BY DEF WritePrivatePage
    <2>3. p.k \in Privatizing /\ p.k \notin Allocating
      BY <2>1 DEF Privatizing, Allocating
    <2> HIDE DEF p
    <2> QED BY <2>1, <2>2, <2>3, Gone
  <1>3. \A t \in Segs: Held(t)' = Held(t)
    BY <1>1 DEF Held
  <1>4. Held(s) = 1..NB_SEGMENTS /\ NB_SEGMENTS \in 1..NB_SEGMENTS
    BY <1>1 DEF LockInv, LocksOf, Segs
  <1>5. LocksOf(s)'
    BY <1>2, <1>3, <1>4 DEF LocksOf
  <1> QED BY <1>1, <1>2, <1>3, <1>5, OthersKeep DEF LockInv

\* It gives the last one back.
LEMMA ReleaseLocks ==
  ASSUME PlaceInv, LockInv, NEW s \in Segs, ReleasePrivatizationLock(s), NB_SEGMENTS \in Nat
  PROVE  PlaceInv' /\ LockInv'
  <1>1. PICK n \in 1..NB_SEGMENTS : Held(s) = 1..n
    BY DEF ReleasePrivatizationLock, LockInv, LocksOf
  <1>2. LocksHeld(s) = n
    BY <1>1, Counted
  <1>3. n \in Segs /\ LockOrder(s)[n] = n
    BY DEF Segs, LockOrder
  <1>4. /\ privatization_lock' = [privatization_lock EXCEPT ![n] = 0]
        /\ pc[s].k = "unlock"
    BY <1>2, <1>3 DEF ReleasePrivatizationLock
  <1>5. /\ PlaceInv' /\ \A t \in Segs \ {s}: pc'[t] = pc[t]
        /\ pc'[s].k = IF n = 1 THEN "page" ELSE "unlock"
    <2> DEFINE p == IF n = 1 THEN [pc[s] EXCEPT !.k = "page", !.todo = Tail(@)] ELSE pc[s]
    <2>1. "k" \in DOMAIN p /\ p.k = IF n = 1 THEN "page" ELSE "unlock"
      BY <1>4 DEF PlaceInv
    <2>2. Goto(s, p)
      BY <1>2 DEF ReleasePrivatizationLock
    <2>3. p.k \in Privatizing /\ p.k \notin Allocating
      BY <2>1 DEF Privatizing, Allocating
    <2> HIDE DEF p
    <2> QED BY <2>1, <2>2, <2>3, Gone
  <1>6. privatization_lock[n] = s /\ s # 0
    BY <1>1, <1>3 DEF Held, Segs
  <1>7. \A t \in Segs \ {s}: Held(t)' = Held(t)
    BY <1>3, <1>4, <1>6 DEF Held, LockInv, Segs
  <1>8. Held(s)' = 1..(n - 1)
    <2>1. \A i \in Segs: i \in Held(s)' <=> i \in Held(s) /\ i # n
      BY <1>3, <1>4, <1>6 DEF Held, LockInv
    <2>2. Held(s)' \subseteq Segs
      BY DEF Held
    <2>3. 1..(n - 1) \subseteq Segs
      BY <1>3 DEF Segs
    <2>4. \A i \in Segs: i \in 1..(n - 1) <=> i \in 1..n /\ i # n
      BY DEF Segs
    <2> QED BY <1>1, <2>1, <2>2, <2>3, <2>4
  <1>9. LocksOf(s)'
    <2>1. CASE n = 1
      BY <2>1, <1>5, <1>8 DEF LocksOf
    <2>2. CASE n # 1
      BY <2>2, <1>5, <1>8 DEF LocksOf
    <2> QED BY <2>1, <2>2
  <1>10. privatization_lock' \in [Segs -> 0..NB_SEGMENTS]
    <2>1. 0 \in 0..NB_SEGMENTS
      OBVIOUS
    <2> QED BY <1>4, <2>1 DEF LockInv
  <1> QED BY <1>5, <1>7, <1>9, <1>10, OthersKeep DEF LockInv

\* acquire_privatization_lock().
LEMMA OwnLockTaken ==
  ASSUME PlaceInv, LockInv, NEW s \in Segs, acquire_privatization_lock(s)
  PROVE  PlaceInv' /\ LockInv'
  <1>1. /\ pc[s].k = "push" /\ privatization_lock[s] = 0 /\ s \in 0..NB_SEGMENTS /\ s # 0
        /\ privatization_lock' = [privatization_lock EXCEPT ![s] = s]
    BY DEF acquire_privatization_lock, Segs
  <1>2. /\ PlaceInv' /\ pc'[s].k = "pushing"
        /\ \A t \in Segs \ {s}: pc'[t] = pc[t]
    BY Gone DEF acquire_privatization_lock, PlaceInv, Pushing, Allocating
  <1>3. \A t \in Segs \ {s}: Held(t)' = Held(t)
    BY <1>1 DEF Held, LockInv, Segs
  <1>4. Held(s) = {}
    BY <1>1 DEF LockInv, LocksOf
  <1>5. Held(s)' = {s}
    <2>1. \A i \in Segs: i \in Held(s)' <=> i \in Held(s) \/ i = s
      BY <1>1 DEF Held, LockInv
    <2> QED BY <1>4, <2>1 DEF Held
  <1> QED BY <1>1, <1>2, <1>3, <1>5, OthersKeep DEF LockInv, LocksOf

\* release_privatization_lock().
LEMMA OwnLockGiven ==
  ASSUME PlaceInv, LockInv, NEW s \in Segs, release_privatization_lock(s), NB_SEGMENTS \in Nat
  PROVE  PlaceInv' /\ LockInv'
  <1>1. /\ pc[s].k \in Pushing
        /\ privatization_lock' = [privatization_lock EXCEPT
             ![s] = IF pc[s].k = "pushing" THEN 0 ELSE @]
    BY DEF release_privatization_lock, Pushing
  <1>2. /\ PlaceInv' /\ pc'[s].k = "commit"
        /\ \A t \in Segs \ {s}: pc'[t] = pc[t]
    BY Gone DEF release_privatization_lock, Simple, Allocating
  <1>3. Held(s) = IF pc[s].k = "pushing" THEN {s} ELSE {}
    BY <1>1 DEF LockInv, LocksOf, Pushing
  <1>4. \A t \in Segs \ {s}: Held(t)' = Held(t)
    BY <1>1, <1>3 DEF Held, LockInv, Segs
  <1>5. Held(s)' = {}
    <2>1. \A i \in Segs: i \in Held(s)' => i \in Held(s) /\ i # s
      BY <1>1, <1>3 DEF Held, LockInv, Segs
    <2> QED BY <1>3, <2>1 DEF Held
  <1>6. privatization_lock' \in [Segs -> 0..NB_SEGMENTS]
    <2>1. 0 \in 0..NB_SEGMENTS
      BY DEF Segs
    <2> QED BY <1>1, <2>1 DEF LockInv
  <1> QED BY <1>2, <1>4, <1>5, <1>6, OthersKeep DEF LockInv, LocksOf

-----------------------------------------------------------------------------
(* No two threads wait for each other.                                     *)

\* All other steps leave the privatization locks alone.
LEMMA WritingKeepsLocks ==
  ASSUME PlaceInv, LockInv, NEW s \in Segs, NEW o, NEW c, NEW card,
         \/ stm_write(s, o, c)
         \/ write_slowpath_overflow_obj(s, o, c, card)
         \/ write_slowpath_common(s, o, c, card)
         \/ BarrierDone(s)
         \/ SetPrivateBit(s)
         \/ ReadSharedPage(s)
  PROVE  PlaceInv' /\ LockInv'
  <1> USE DEF locks
  <1>1. CASE stm_write(s, o, c) \/ write_slowpath_overflow_obj(s, o, c, card)
    BY <1>1, Stays DEF stm_write, write_slowpath_overflow_obj
  <1>2. CASE write_slowpath_common(s, o, c, card)
    BY <1>2, GoneCalmly DEF write_slowpath_common, NeedsBarrier, Running, WithNone, Simple,
      Allocating
  <1>3. CASE BarrierDone(s)
    BY <1>3, GoneCalmly DEF BarrierDone, Idle, WithNone, Simple, Allocating
  <1>4. CASE SetPrivateBit(s)
    BY <1>4, GoneCalmly DEF SetPrivateBit, PlaceInv, WithAll, Allocating
  <1>5. CASE ReadSharedPage(s)
    BY <1>5, GoneCalmly DEF ReadSharedPage, PlaceInv, WithAll, Allocating
  <1> QED BY <1>1, <1>2, <1>3, <1>4, <1>5

\* Allocation, and roots that are popped.
LEMMA AllocatingKeepsLocks ==
  ASSUME PlaceInv, LockInv, NEW s \in Segs, NEW o,
         \/ allocate_outside_nursery_large(s, o)
         \/ PagesExist(s)
         \/ MorePagesNeeded(s)
         \/ AcquireGrowthLock(s)
         \/ setup_N_pages(s)
         \/ PagesMapped(s)
         \/ PopRoot(s, o)
  PROVE  PlaceInv' /\ LockInv'
  <1> USE DEF locks, heap
  <1>1. CASE allocate_outside_nursery_large(s, o)
    BY <1>1, GoneCalmly DEF allocate_outside_nursery_large, Running, WithNone, Simple, Allocating
  <1>2. CASE PagesExist(s) \/ PagesMapped(s)
    BY <1>2, GoneCalmly DEF PagesExist, PagesMapped, NewObject, Idle, WithNone, Simple, Allocating
  <1>3. CASE MorePagesNeeded(s) \/ AcquireGrowthLock(s)
    <2>1. pc[s].k \in {"new", "wait"} /\ "k" \in DOMAIN pc[s] /\ "o" \in DOMAIN pc[s]
      BY <1>3 DEF MorePagesNeeded, AcquireGrowthLock, PlaceInv, Allocating
    <2>2. Goto(s, [pc[s] EXCEPT !.k = "wait"]) \/ Goto(s, [pc[s] EXCEPT !.k = "grow"])
      BY <1>3 DEF MorePagesNeeded, AcquireGrowthLock
    <2>3. UNCHANGED privatization_lock
      BY <1>3 DEF MorePagesNeeded, AcquireGrowthLock
    <2> QED BY <2>1, <2>2, <2>3, GoneCalmly DEF WithNone, Allocating
  <1>4. CASE setup_N_pages(s)
    <2>1. pc[s].k = "grow" /\ "k" \in DOMAIN pc[s] /\ "o" \in DOMAIN pc[s]
      BY <1>4 DEF setup_N_pages, PlaceInv, Allocating
    <2>2. Goto(s, [pc[s] EXCEPT !.k = "mapped"]) \/ Goto(s, Idle)
      BY <1>4 DEF setup_N_pages, NewObject
    <2>3. UNCHANGED privatization_lock
      BY <1>4 DEF setup_N_pages
    <2> QED BY <2>1, <2>2, <2>3, GoneCalmly DEF WithNone, Allocating, Idle, Simple
  <1>5. CASE PopRoot(s, o)
    BY <1>5, Stays DEF PopRoot
  <1> QED BY <1>1, <1>2, <1>3, <1>4, <1>5

\* Collections, commits and aborts.
LEMMA EndingKeepsLocks ==
  ASSUME PlaceInv, LockInv, NEW s \in Segs, NEW level,
         \/ MinorAtCommit(s)
         \/ push_overflow_objects_from_privatized_pages(s)
         \/ stm_commit_transaction(s)
         \/ abort_with_mutex(s)
         \/ stm_collect(s, level)
         \/ major_collection_if_requested(s)
         \/ forksupport_child(s)
  PROVE  PlaceInv' /\ LockInv'
  <1> USE DEF locks
  <1>1. CASE MinorAtCommit(s)
    BY <1>1, GoneCalmly DEF MinorAtCommit, Running, WithNone, Simple, Allocating
  <1>2. CASE push_overflow_objects_from_privatized_pages(s)
    <2>1. PICK o \in pc[s].todo : Goto(s, [pc[s] EXCEPT !.todo = @ \ {o}])
      BY <1>2 DEF push_overflow_objects_from_privatized_pages
    <2>2. pc[s].k = "pushing" /\ UNCHANGED privatization_lock
      BY <1>2 DEF push_overflow_objects_from_privatized_pages
    <2> QED BY <2>1, <2>2, GoneCalmly DEF PlaceInv, Allocating
  <1>3. CASE stm_commit_transaction(s)
    BY <1>3, GoneCalmly DEF stm_commit_transaction, Idle, WithNone, Simple, Allocating
  <1>4. CASE abort_with_mutex(s)
    BY <1>4, GoneCalmly DEF abort_with_mutex, Idle, WithNone, Simple, Allocating
  <1>5. CASE stm_collect(s, level)
    <2>1. pc[s].k = "idle" /\ UNCHANGED privatization_lock
      BY <1>5 DEF stm_collect, Running
    <2>2. Goto(s, [k |-> "major"]) \/ Goto(s, Idle)
      BY <1>5 DEF stm_collect
    <2> QED BY <2>1, <2>2, GoneCalmly DEF Idle, WithNone, Simple, Allocating
  <1>6. CASE major_collection_if_requested(s)
    BY <1>6, GoneCalmly DEF major_collection_if_requested, Idle, WithNone, Simple, Allocating
  <1>7. CASE forksupport_child(s)
    BY <1>7, Stays DEF forksupport_child
  <1> QED BY <1>1, <1>2, <1>3, <1>4, <1>5, <1>6, <1>7

\* The locks are held in the order of the segments.
LEMMA LockInvariant ==
  ASSUME NB_SEGMENTS \in Nat
  PROVE  Spec => [](PlaceInv /\ LockInv)
  <1>1. ASSUME Init
        PROVE  PlaceInv /\ LockInv
    <2>1. \A s \in Segs: pc[s].k = "idle" /\ "k" \in DOMAIN pc[s]
      BY <1>1 DEF Init, Idle
    <2>2. PlaceInv
      BY <1>1, <2>1 DEF Init, PlaceInv, Simple, Allocating
    <2>3. \A s \in Segs: Held(s) = {}
      BY <1>1 DEF Init, Held, Segs
    <2>4. privatization_lock \in [Segs -> 0..NB_SEGMENTS]
      BY <1>1 DEF Init
    <2> QED BY <2>1, <2>2, <2>3, <2>4 DEF LockInv, LocksOf
  <1>2. ASSUME PlaceInv, LockInv, [Next]_vars
        PROVE  PlaceInv' /\ LockInv'
    <2>1. CASE UNCHANGED vars
      BY <1>2, <2>1, Stays DEF vars
    <2>2. ASSUME NEW s \in Segs,
                 \/ page_privatize(s)
                 \/ AcquirePrivatizationLock(s)
                 \/ WritePrivatePage(s)
                 \/ ReleasePrivatizationLock(s)
                 \/ acquire_privatization_lock(s)
                 \/ release_privatization_lock(s)
          PROVE  PlaceInv' /\ LockInv'
      BY <1>2, <2>2, PrivatizeLocks, AcquireLocks, WriteLocks, ReleaseLocks, OwnLockTaken,
        OwnLockGiven
    <2>3. ASSUME NEW s \in Segs, NEW o, NEW c, NEW card,
                 \/ stm_write(s, o, c)
                 \/ write_slowpath_overflow_obj(s, o, c, card)
                 \/ write_slowpath_common(s, o, c, card)
                 \/ BarrierDone(s)
                 \/ SetPrivateBit(s)
                 \/ ReadSharedPage(s)
          PROVE  PlaceInv' /\ LockInv'
      BY <1>2, <2>3, WritingKeepsLocks
    <2>4. ASSUME NEW s \in Segs, NEW o,
                 \/ allocate_outside_nursery_large(s, o)
                 \/ PagesExist(s)
                 \/ MorePagesNeeded(s)
                 \/ AcquireGrowthLock(s)
                 \/ setup_N_pages(s)
                 \/ PagesMapped(s)
                 \/ PopRoot(s, o)
          PROVE  PlaceInv' /\ LockInv'
      BY <1>2, <2>4, AllocatingKeepsLocks
    <2>5. ASSUME NEW s \in Segs, NEW level,
                 \/ MinorAtCommit(s)
                 \/ push_overflow_objects_from_privatized_pages(s)
                 \/ stm_commit_transaction(s)
                 \/ abort_with_mutex(s)
                 \/ stm_collect(s, level)
                 \/ major_collection_if_requested(s)
                 \/ forksupport_child(s)
          PROVE  PlaceInv' /\ LockInv'
      BY <1>2, <2>5, EndingKeepsLocks
    <2>6. ASSUME NEW o, Unlink(o)
          PROVE  PlaceInv' /\ LockInv'
      BY <1>2, <2>6, Stays DEF Unlink, locks
    <2> QED BY <1>2, <2>1, <2>2, <2>3, <2>4, <2>5, <2>6 DEF Next
  <1> QED BY <1>1, <1>2, PTL DEF Spec

\* page_privatize() takes the locks of all segments in the order of their
\* numbers, acquire_privatization_lock() one of them: whoever waits, the
\* locks are not held in a circle (c7/stm/pages.c:127-131, core.h:308-313),
\* for any number of segments.
THEOREM LocksInOrder ==
  ASSUME NB_SEGMENTS \in Nat
  PROVE  Spec => []NoCircularWait
  <1>1. LockInv => NoCircularWait
    BY NoWait
  <1> QED BY <1>1, LockInvariant, PTL

-----------------------------------------------------------------------------
(* Operations that leave the lists, the locks and the memory in use alone. *)

Fields == {"mem", "by_segment", "write_locks", "cards", "used", "number",
           "total_allocated", "seg"}
ListFields == {"modified", "pointing", "with_cards", "overflow", "young", "open",
               "cards_set", "mine", "plain", "overflow_number", "number_used"}

IsHeap(x) ==
  /\ Fields \subseteq DOMAIN x
  /\ DOMAIN x.write_locks = Objs
  /\ DOMAIN x.seg = Segs
  /\ \A s \in Segs: ListFields \subseteq DOMAIN x.seg[s]

SameLists(x, y) ==
  /\ y.used = x.used
  /\ y.write_locks = x.write_locks
  /\ \A s \in Segs: /\ y.seg[s].modified = x.seg[s].modified
                    /\ y.seg[s].mine = x.seg[s].mine
                    /\ y.seg[s].young = x.seg[s].young

\* One after the other.
LEMMA SameTwice ==
  ASSUME NEW x, NEW y, NEW z, SameLists(x, y), SameLists(y, z)
  PROVE  SameLists(x, z)
  BY DEF SameLists

\* What changes at most these fields.
LEMMA OtherFields ==
  ASSUME NEW x, IsHeap(x), NEW y, DOMAIN y = DOMAIN x, y.used = x.used,
         y.write_locks = x.write_locks, y.seg = x.seg
  PROVE  IsHeap(y) /\ SameLists(x, y)
  BY DEF IsHeap, SameLists

\* Writing to an object.
LEMMA StoreKeeps ==
  ASSUME NEW x, IsHeap(x), NEW s, NEW o, NEW value
  PROVE  IsHeap(Store(x, s, o, value)) /\ SameLists(x, Store(x, s, o, value))
  BY OtherFields DEF Store, IsHeap, Fields

\* Resetting cards.
LEMMA CardsKeep ==
  ASSUME NEW x, IsHeap(x), NEW of, NEW value, NEW all
  PROVE  IsHeap(_reset_object_cards(x, of, value, all))
         /\ SameLists(x, _reset_object_cards(x, of, value, all))
  <1> DEFINE y == _reset_object_cards(x, of, value, all)
  <1>1. DOMAIN y = DOMAIN x /\ y.used = x.used /\ y.write_locks = x.write_locks
    BY DEF _reset_object_cards, IsHeap, Fields
  <1>2. y.seg = [s \in Segs |-> [x.seg[s] EXCEPT
                   !.cards_set = IF s \in DOMAIN of THEN @ \ of[s] ELSE @]]
    BY DEF _reset_object_cards, IsHeap, Fields
  <1> HIDE DEF y
  <1>3. IsHeap(y) /\ SameLists(x, y)
    BY <1>1, <1>2 DEF IsHeap, SameLists, ListFields
  <1> QED BY <1>3 DEF y

\* Copying objects to the other segments.
LEMMA SynchronizeKeeps ==
  ASSUME NEW x, IsHeap(x), NEW s, NEW objects, NEW ignore_cards
  PROVE  IsHeap(synchronize_object_now(x, s, objects, ignore_cards))
         /\ SameLists(x, synchronize_object_now(x, s, objects, ignore_cards))
  BY OtherFields DEF synchronize_object_now, _page_wise_synchronize_object_now, IsHeap, Fields

\* Tracing the marked cards.
LEMMA TracedCardsKeep ==
  ASSUME NEW x, IsHeap(x), NEW S
  PROVE  IsHeap(collect_cardrefs_to_nursery(x, S))
         /\ SameLists(x, collect_cardrefs_to_nursery(x, S))
  <1> DEFINE y == collect_cardrefs_to_nursery(x, S)
             traced(s) == x.seg[s].with_cards \intersect x.seg[s].cards_set
  <1>1. DOMAIN y = DOMAIN x /\ y.used = x.used /\ y.write_locks = x.write_locks
    BY DEF collect_cardrefs_to_nursery, IsHeap, Fields
  <1>2. y.seg = [s \in Segs |-> IF s \notin S THEN x.seg[s] ELSE
            [x.seg[s] EXCEPT !.with_cards = {}, !.cards_set = @ \ traced(s)]]
    BY DEF collect_cardrefs_to_nursery, IsHeap, Fields
  <1> HIDE DEF y, traced
  <1>3. IsHeap(y) /\ SameLists(x, y)
    <2>1. DOMAIN y.seg = Segs
      BY <1>2
    <2>2. ASSUME NEW s \in Segs
          PROVE  /\ DOMAIN y.seg[s] = DOMAIN x.seg[s]
                 /\ y.seg[s].modified = x.seg[s].modified
                 /\ y.seg[s].mine = x.seg[s].mine
                 /\ y.seg[s].young = x.seg[s].young
      <3>1. CASE s \in S
        <4>1. y.seg[s] = [x.seg[s] EXCEPT !.with_cards = {}, !.cards_set = @ \ traced(s)]
          BY <1>2, <3>1
        <4>2. ListFields \subseteq DOMAIN x.seg[s]
          BY DEF IsHeap
        <4> QED BY <4>1, <4>2 DEF ListFields
      <3>2. CASE s \notin S
        BY <1>2, <3>2
      <3> QED BY <3>1, <3>2
    <2> QED BY <1>1, <2>1, <2>2 DEF IsHeap, SameLists
  <1> QED BY <1>3 DEF y

\* The end of the write barrier.
LEMMA BarrierKeeps ==
  ASSUME NEW x, IsHeap(x), NEW s \in Segs, NEW o, NEW c, NEW card
  PROVE  IsHeap(Barrier(x, s, o, c, card)) /\ SameLists(x, Barrier(x, s, o, c, card))
  <1>1. CASE card
    <2> DEFINE y == [x EXCEPT !.seg[s].cards_set  = @ \union {o},
                              !.seg[s].with_cards = @ \union {o}]
    <2>1. IsHeap(y) /\ SameLists(x, y)
      BY DEF IsHeap, SameLists, Fields, ListFields
    <2>2. Barrier(x, s, o, c, card) = MarkCard(y, o, c)
      BY <1>1 DEF Barrier
    <2> HIDE DEF y
    <2>3. IsHeap(MarkCard(y, o, c)) /\ SameLists(y, MarkCard(y, o, c))
      BY <2>1, OtherFields DEF MarkCard, IsHeap, Fields
    <2> QED BY <2>1, <2>2, <2>3, SameTwice
  <1>2. CASE ~card
    <2> DEFINE overflow == IS_OVERFLOW_OBJ(x, s, o)
               own_card == [t \in {s} |-> {o}]
               y == IF o \notin x.seg[s].cards_set THEN x
                    ELSE IF overflow
                         THEN _reset_object_cards(x, own_card, CARD_CLEAR, FALSE)
                         ELSE _reset_object_cards(x, own_card, CARD_MARKED_OLD, TRUE)
               z == [y EXCEPT !.seg[s].open = @ \union {o},
                     !.seg[s].pointing = IF @ = NULL THEN NULL ELSE @ \union {o},
                     !.seg[s].plain    = IF overflow THEN @ ELSE @ \union {o}]
    <2>1. IsHeap(y) /\ SameLists(x, y)
      <3>1. SameLists(x, x)
        BY DEF SameLists
      <3> HIDE DEF overflow, own_card
      <3> QED BY <3>1, CardsKeep
    <2>2. Barrier(x, s, o, c, card) = z
      BY <1>2 DEF Barrier
    <2> HIDE DEF y, overflow
    <2>3. IsHeap(z) /\ SameLists(y, z)
      BY <2>1 DEF IsHeap, SameLists, Fields, ListFields
    <2> HIDE DEF z
    <2> QED BY <2>1, <2>2, <2>3, SameTwice
  <1> QED BY <1>1, <1>2

\* What the program writes.
LEMMA WritesKeep ==
  ASSUME NEW x, IsHeap(x), NEW s, NEW o, NEW c, ProgramWrites(x, s, o, c)
  PROVE  IsHeap(sys') /\ SameLists(x, sys')
  BY StoreKeeps DEF ProgramWrites

\* Re-sharing the pages.
LEMMA PagesKeep ==
  ASSUME NEW x, IsHeap(x)
  PROVE  IsHeap(major_reshare_pages(x)) /\ SameLists(x, major_reshare_pages(x))
  <1>1. \A h : IsHeap(h) =>
          LET y == major_hide_private_bits_for_modified_objects(h)
          IN  IsHeap(y) /\ SameLists(h, y)
    BY OtherFields DEF major_hide_private_bits_for_modified_objects, IsHeap, Fields
  <1>2. \A h : IsHeap(h) =>
          LET y == major_restore_private_bits_for_modified_objects(h)
          IN  IsHeap(y) /\ SameLists(h, y)
    BY OtherFields DEF major_restore_private_bits_for_modified_objects, IsHeap, Fields
  <1>3. \A h : IsHeap(h) =>
          IsHeap(copy_object_to_shared(h)) /\ SameLists(h, copy_object_to_shared(h))
    BY OtherFields DEF copy_object_to_shared, IsHeap, Fields
  <1>4. \A h : IsHeap(h) => IsHeap(page_reshare(h)) /\ SameLists(h, page_reshare(h))
    BY OtherFields DEF page_reshare, Dropped, IsHeap, Fields
  <1> QED BY <1>1, <1>2, <1>3, <1>4, SameTwice DEF major_reshare_pages

\* clean_up_segment_lists() resets cards and lists of another kind.
LEMMA CleanUpKeeps ==
  ASSUME NEW x, IsHeap(x)
  PROVE  IsHeap(clean_up_segment_lists(x)) /\ SameLists(x, clean_up_segment_lists(x))
  <1> DEFINE old == [s \in Segs |->
                {o \in x.seg[s].with_cards: ~IS_OVERFLOW_OBJ(x, s, o)}]
             overflow == [s \in Segs |-> x.seg[s].with_cards \ old[s]]
             w == _reset_object_cards(x, old, CARD_MARKED_OLD, FALSE)
             y == _reset_object_cards(w, overflow, CARD_CLEAR, FALSE)
             Clean(g) == [g EXCEPT
               !.open       = @ \ (IF g.pointing = NULL THEN {} ELSE g.pointing),
               !.pointing   = IF @ = NULL THEN NULL ELSE {},
               !.with_cards = {},
               !.overflow   = IF @ = NULL THEN NULL
                              ELSE {o \in @: x.write_locks[o] = WL_VISITED}]
             z == [y EXCEPT !.seg = [s \in Segs |-> Clean(@[s])]]
  <1>1. clean_up_segment_lists(x) = z
    BY DEF clean_up_segment_lists
  <1>2. IsHeap(w) /\ SameLists(x, w)
    <2> HIDE DEF old
    <2> QED BY CardsKeep
  <1> HIDE DEF w, overflow
  <1>3. IsHeap(y) /\ SameLists(w, y)
    BY <1>2, CardsKeep
  <1> HIDE DEF y
  <1>4. IsHeap(z) /\ SameLists(y, z)
    BY <1>3 DEF IsHeap, SameLists, Fields, ListFields
  <1> HIDE DEF z
  <1> QED BY <1>1, <1>2, <1>3, <1>4, SameTwice

\* A new overflow number.
LEMMA NumberKeeps ==
  ASSUME NEW x, IsHeap(x), NEW s \in Segs
  PROVE  IsHeap(OverflowNumber(x, s)) /\ SameLists(x, OverflowNumber(x, s))
  BY DEF OverflowNumber, IsHeap, SameLists, Fields, ListFields

\* The copy that fork() makes.
LEMMA BigCopyKeeps ==
  ASSUME NEW x, IsHeap(x)
  PROVE  IsHeap(BigCopy(x)) /\ SameLists(x, BigCopy(x))
  BY OtherFields DEF BigCopy, IsHeap, Fields

-----------------------------------------------------------------------------
(* The lists, the locks and the memory in use.                             *)

Lists(x, s) == x.seg[s].modified \union x.seg[s].mine \union x.seg[s].young

\* The lock of an object names the segment that has it in its list; what is
\* in a list is in use; and a young object is in the lists of no other
\* segment, is not committed and needs no lock.
ObjectInv(x, objects, o) ==
  /\ x.write_locks[o] \in Segs \union {0}
  /\ \A s \in Segs: o \in x.seg[s].modified <=> x.write_locks[o] = s
  /\ o \in objects \/ (\E s \in Segs: o \in Lists(x, s)) => o \in x.used
  /\ \A s \in Segs: o \in x.seg[s].young =>
       /\ o \notin objects
       /\ \A t \in Segs: /\ o \notin x.seg[t].modified
                         /\ o \in Lists(x, t) => t = s

ListInv(x, objects) == IsHeap(x) /\ \A o \in Objs: ObjectInv(x, objects, o)

\* An object that is being allocated is in use and in no list.
FreshInv ==
  \A s \in Segs: pc[s].k \in Allocating =>
    /\ pc[s].o \in sys.used \ public
    /\ \A t \in Segs: pc[s].o \notin Lists(sys, t)
    /\ \A t \in Segs \ {s}: pc[t].k \in Allocating => pc[t].o # pc[s].o

\* A committing segment has done its minor collection.
CommitInv ==
  \A s \in Segs: pc[s].k \in Pushing \union {"commit"} => sys.seg[s].young = {}

PagesInv == ListInv(sys, public) /\ FreshInv /\ CommitInv

\* The invariant is about these fields only.
LEMMA SameListInv ==
  ASSUME NEW x, NEW y, NEW objects, ListInv(x, objects), IsHeap(y), SameLists(x, y)
  PROVE  ListInv(y, objects)
  BY DEF ListInv, ObjectInv, SameLists, Lists

-----------------------------------------------------------------------------
(* What collections, commits and aborts do to them.                        *)

\* The memory of the young objects of S is free again.
LEMMA NurseryThrown ==
  ASSUME NEW x, IsHeap(x), NEW S
  PROVE  LET y == throw_away_nursery(x, S)
         IN  /\ IsHeap(y)
             /\ y.used = x.used \ UNION {x.seg[s].young : s \in S}
             /\ y.write_locks = x.write_locks
             /\ \A s \in Segs: /\ y.seg[s].modified = x.seg[s].modified
                               /\ y.seg[s].mine = x.seg[s].mine
                               /\ y.seg[s].young = IF s \in S THEN {} ELSE x.seg[s].young
  <1> DEFINE y == throw_away_nursery(x, S)
  <1>1. /\ DOMAIN y = DOMAIN x
        /\ y.used = x.used \ UNION {x.seg[s].young : s \in S}
        /\ y.write_locks = x.write_locks
    BY DEF throw_away_nursery, IsHeap, Fields
  <1>2. y.seg = [s \in Segs |-> [x.seg[s] EXCEPT !.young = IF s \in S THEN {} ELSE @]]
    BY DEF throw_away_nursery, IsHeap, Fields
  <1> HIDE DEF y
  <1>3. IsHeap(y)
    BY <1>1, <1>2 DEF IsHeap, ListFields
  <1>4. \A s \in Segs: /\ y.seg[s].modified = x.seg[s].modified
                       /\ y.seg[s].mine = x.seg[s].mine
                       /\ y.seg[s].young = IF s \in S THEN {} ELSE x.seg[s].young
    BY ZenonT(60), <1>2 DEF IsHeap, ListFields
  <1> QED BY <1>1, <1>3, <1>4 DEF y

MinorEffect(x, S, y) ==
  /\ IsHeap(y)
  /\ y.used = x.used \ UNION {x.seg[u].young \ x.seg[u].mine : u \in S}
  /\ y.write_locks = x.write_locks
  /\ \A s \in Segs: /\ y.seg[s].modified = x.seg[s].modified
                    /\ y.seg[s].mine = x.seg[s].mine
                    /\ y.seg[s].young = IF s \in S THEN {} ELSE x.seg[s].young

\* A minor collection frees the young objects that are unreachable.
LEMMA MinorCollected ==
  ASSUME NEW x, IsHeap(x), NEW S \in SUBSET Segs, NEW commit \in BOOLEAN
  PROVE  MinorEffect(x, S, _do_minor_collection(x, S, commit))
  <1> DEFINE alive(g) == g.young \intersect g.mine
             After(g) == [g EXCEPT
               !.open     = @ \ (IF g.pointing = NULL THEN g.modified ELSE g.pointing),
               !.pointing = {},
               !.young    = @ \ alive(g),
               !.number_used = @ \/ ~commit,
               !.overflow = IF commit THEN @
                            ELSE alive(g) \union (IF @ = NULL THEN {} ELSE @)]
             c == collect_cardrefs_to_nursery(x, S)
             Survives(o) == {s \in S: o \in alive(x.seg[s])}
             z == [c EXCEPT
               !.number = [o \in Objs |-> IF commit \/ Survives(o) = {} THEN @[o]
                              ELSE x.seg[CHOOSE s \in Survives(o): TRUE].overflow_number],
               !.seg = [s \in Segs |-> IF s \in S THEN After(c.seg[s]) ELSE c.seg[s]]]
             y == throw_away_nursery(z, S)
  <1>1. _do_minor_collection(x, S, commit) = y
    BY DEF _do_minor_collection
  <1>2. IsHeap(c) /\ SameLists(x, c)
    BY TracedCardsKeep
  <1> HIDE DEF c
  <1>3. /\ DOMAIN z = DOMAIN c /\ z.used = c.used /\ z.write_locks = c.write_locks
        /\ z.seg = [s \in Segs |-> IF s \in S THEN After(c.seg[s]) ELSE c.seg[s]]
    BY <1>2 DEF IsHeap, Fields
  <1> HIDE DEF z
  <1>4. ASSUME NEW s \in Segs
        PROVE  /\ DOMAIN z.seg[s] = DOMAIN c.seg[s]
               /\ z.seg[s].modified = c.seg[s].modified
               /\ z.seg[s].mine = c.seg[s].mine
               /\ s \in S => z.seg[s].young = c.seg[s].young \ c.seg[s].mine
               /\ s \notin S => z.seg[s].young = c.seg[s].young
    <2>1. CASE s \in S
      <3>1. z.seg[s] = After(c.seg[s])
        BY <1>3, <2>1
      <3>2. ListFields \subseteq DOMAIN c.seg[s]
        BY <1>2 DEF IsHeap
      <3> QED BY <2>1, <3>1, <3>2 DEF ListFields
    <2>2. CASE s \notin S
      BY <1>3, <2>2
    <2> QED BY <2>1, <2>2
  <1>5. IsHeap(z)
    BY <1>2, <1>3, <1>4 DEF IsHeap
  <1>6. UNION {z.seg[s].young : s \in S} = UNION {x.seg[u].young \ x.seg[u].mine : u \in S}
    BY <1>2, <1>4 DEF SameLists
  <1>7. /\ IsHeap(y)
        /\ y.used = z.used \ UNION {z.seg[s].young : s \in S}
        /\ y.write_locks = z.write_locks
        /\ \A s \in Segs: /\ y.seg[s].modified = z.seg[s].modified
                          /\ y.seg[s].mine = z.seg[s].mine
                          /\ y.seg[s].young = IF s \in S THEN {} ELSE z.seg[s].young
    BY <1>5, NurseryThrown
  <1> HIDE DEF y
  <1>8. MinorEffect(x, S, y)
    BY ZenonT(60), <1>2, <1>3, <1>4, <1>6, <1>7 DEF SameLists, MinorEffect
  <1> QED BY <1>1, <1>8

\* The lists of a segment without transaction.
LEMMA ListsEmptied ==
  ASSUME NEW x, IsHeap(x), NEW S
  PROVE  LET y == Finished(x, S)
         IN  /\ IsHeap(y)
             /\ y.used = x.used /\ y.write_locks = x.write_locks
             /\ \A s \in Segs:
                  /\ y.seg[s].modified = IF s \in S THEN {} ELSE x.seg[s].modified
                  /\ y.seg[s].mine = IF s \in S THEN {} ELSE x.seg[s].mine
                  /\ y.seg[s].young = x.seg[s].young
  <1> DEFINE y == Finished(x, S)
  <1>1. /\ DOMAIN y = DOMAIN x /\ y.used = x.used /\ y.write_locks = x.write_locks
        /\ y.seg = [s \in Segs |-> IF s \notin S THEN x.seg[s] ELSE
             [x.seg[s] EXCEPT !.modified = {}, !.pointing = NULL, !.with_cards = {},
                      !.overflow = NULL, !.open = {}, !.mine = {}, !.plain = {}]]
    BY DEF Finished, IsHeap, Fields
  <1> HIDE DEF y
  <1>2. ASSUME NEW s \in Segs
        PROVE  /\ DOMAIN y.seg[s] = DOMAIN x.seg[s]
               /\ y.seg[s].modified = IF s \in S THEN {} ELSE x.seg[s].modified
               /\ y.seg[s].mine = IF s \in S THEN {} ELSE x.seg[s].mine
               /\ y.seg[s].young = x.seg[s].young
    <2>1. CASE s \in S
      <3>1. y.seg[s] = [x.seg[s] EXCEPT
              !.modified = {}, !.pointing = NULL, !.with_cards = {},
              !.overflow = NULL, !.open = {}, !.mine = {}, !.plain = {}]
        BY <1>1, <2>1
      <3>2. ListFields \subseteq DOMAIN x.seg[s]
        BY DEF IsHeap
      <3> QED BY <2>1, <3>1, <3>2 DEF ListFields
    <2>2. CASE s \notin S
      BY <1>1, <2>2
    <2> QED BY <2>1, <2>2
  <1>3. IsHeap(y)
    BY <1>1, <1>2 DEF IsHeap
  <1> QED BY <1>1, <1>2, <1>3 DEF y

\* An abort gives back the locks and the memory of the young objects.
LEMMA Aborted ==
  ASSUME NEW x, IsHeap(x), NEW S \in SUBSET Segs
  PROVE  LET y == abort_data_structures_from_segment_num(x, S)
         IN  /\ IsHeap(y)
             /\ y.used = x.used \ UNION {x.seg[s].young : s \in S}
             /\ \A o \in Objs: y.write_locks[o] =
                  IF \E s \in S: o \in x.seg[s].modified THEN 0 ELSE x.write_locks[o]
             /\ \A s \in Segs: IF s \in S THEN Lists(y, s) = {}
                  ELSE /\ y.seg[s].modified = x.seg[s].modified
                       /\ y.seg[s].mine = x.seg[s].mine
                       /\ y.seg[s].young = x.seg[s].young
  <1> DEFINE marked(g) == IF g.overflow = NULL THEN {}
                          ELSE g.overflow \intersect g.cards_set
             arrays == [s \in S |-> marked(x.seg[s])
                               \union (x.seg[s].modified \intersect UsesCards)]
             a == throw_away_nursery(x, S)
             b == _reset_object_cards(a, arrays, CARD_CLEAR, FALSE)
             c == reset_modified_from_other_segments(b, S)
             y == Finished(c, S)
  <1>1. abort_data_structures_from_segment_num(x, S) = y
    BY DEF abort_data_structures_from_segment_num
  <1>2. /\ IsHeap(a)
        /\ a.used = x.used \ UNION {x.seg[s].young : s \in S}
        /\ a.write_locks = x.write_locks
        /\ \A s \in Segs: /\ a.seg[s].modified = x.seg[s].modified
                          /\ a.seg[s].mine = x.seg[s].mine
                          /\ a.seg[s].young = IF s \in S THEN {} ELSE x.seg[s].young
    BY NurseryThrown
  <1> HIDE DEF a, arrays
  <1>3. IsHeap(b) /\ SameLists(a, b)
    BY <1>2, CardsKeep
  <1> HIDE DEF b
  <1>4. /\ DOMAIN c = DOMAIN b /\ c.used = b.used /\ c.seg = b.seg
        /\ c.write_locks = [o \in Objs |-> IF {s \in S: o \in b.seg[s].modified} # {}
                                           THEN 0 ELSE b.write_locks[o]]
    BY <1>3 DEF reset_modified_from_other_segments, IsHeap, Fields
  <1> HIDE DEF c
  <1>5. IsHeap(c)
    BY <1>3, <1>4 DEF IsHeap
  <1>6. /\ IsHeap(y)
        /\ y.used = c.used /\ y.write_locks = c.write_locks
        /\ \A s \in Segs:
             /\ y.seg[s].modified = IF s \in S THEN {} ELSE c.seg[s].modified
             /\ y.seg[s].mine = IF s \in S THEN {} ELSE c.seg[s].mine
             /\ y.seg[s].young = c.seg[s].young
    BY <1>5, ListsEmptied
  <1> HIDE DEF y
  <1>7. \A s \in Segs: s \in S => Lists(y, s) = {}
    BY <1>2, <1>3, <1>4, <1>6 DEF Lists, SameLists
  <1>8. \A s \in Segs: s \notin S => /\ y.seg[s].modified = x.seg[s].modified
                                     /\ y.seg[s].mine = x.seg[s].mine
                                     /\ y.seg[s].young = x.seg[s].young
    BY <1>2, <1>3, <1>4, <1>6 DEF SameLists
  <1>9. \A o \in Objs: y.write_locks[o] =
          IF \E s \in S: o \in x.seg[s].modified THEN 0 ELSE x.write_locks[o]
    BY <1>2, <1>3, <1>4, <1>6 DEF SameLists
  <1>10. y.used = x.used \ UNION {x.seg[s].young : s \in S}
    BY <1>2, <1>3, <1>4, <1>6 DEF SameLists
  <1> QED BY <1>1, <1>6, <1>7, <1>8, <1>9, <1>10

-----------------------------------------------------------------------------
(* They keep the invariant of the lists.                                   *)

\* A minor collection.
LEMMA MinorKeeps ==
  ASSUME NEW x, NEW objects, ListInv(x, objects), NEW S \in SUBSET Segs, NEW commit \in BOOLEAN
  PROVE  ListInv(_do_minor_collection(x, S, commit), objects)
  <1> DEFINE y == _do_minor_collection(x, S, commit)
  <1>1. MinorEffect(x, S, y)
    <2>1. IsHeap(x)
      BY DEF ListInv
    <2> QED BY <2>1, MinorCollected
  <1> HIDE DEF y
  <1>2. ASSUME NEW o \in Objs
        PROVE  ObjectInv(y, objects, o)
    <2>1. ObjectInv(x, objects, o)
      BY DEF ListInv
    <2>2. ASSUME o \in objects \/ \E s \in Segs: o \in Lists(y, s)
          PROVE  o \in y.used
      <3>1. o \in x.used
        BY <1>1, <2>1, <2>2 DEF ObjectInv, Lists, MinorEffect
      <3>2. ASSUME NEW s \in S, o \in x.seg[s].young \ x.seg[s].mine
            PROVE  FALSE
        BY <1>1, <2>1, <2>2, <3>2 DEF ObjectInv, Lists, MinorEffect
      <3> QED BY <1>1, <3>1, <3>2 DEF MinorEffect
    <2>3. ASSUME NEW s \in Segs, o \in y.seg[s].young
          PROVE  /\ o \notin objects
                 /\ \A t \in Segs: /\ o \notin y.seg[t].modified
                                   /\ o \in Lists(y, t) => t = s
      BY <1>1, <2>1, <2>3 DEF ObjectInv, Lists, MinorEffect
    <2>4. /\ y.write_locks[o] \in Segs \union {0}
          /\ \A s \in Segs: o \in y.seg[s].modified <=> y.write_locks[o] = s
      BY <1>1, <2>1 DEF ObjectInv, MinorEffect
    <2> QED BY <2>2, <2>3, <2>4 DEF ObjectInv
  <1> QED BY <1>1, <1>2 DEF ListInv, MinorEffect, y

\* An abort of the transactions of S.
LEMMA AbortKeeps ==
  ASSUME NEW x, NEW objects, ListInv(x, objects), NEW S \in SUBSET Segs
  PROVE  ListInv(abort_data_structures_from_segment_num(x, S), objects)
  <1> DEFINE y == abort_data_structures_from_segment_num(x, S)
  <1>1. /\ IsHeap(y)
        /\ y.used = x.used \ UNION {x.seg[s].young : s \in S}
        /\ \A o \in Objs: y.write_locks[o] =
             IF \E s \in S: o \in x.seg[s].modified THEN 0 ELSE x.write_locks[o]
        /\ \A s \in Segs: IF s \in S THEN Lists(y, s) = {}
             ELSE /\ y.seg[s].modified = x.seg[s].modified
                  /\ y.seg[s].mine = x.seg[s].mine
                  /\ y.seg[s].young = x.seg[s].young
    BY Aborted DEF ListInv
  <1> HIDE DEF y
  <1>2. ASSUME NEW o \in Objs
        PROVE  ObjectInv(y, objects, o)
    <2>1. ObjectInv(x, objects, o)
      BY DEF ListInv
    <2>2. ASSUME o \in objects \/ \E s \in Segs: o \in Lists(y, s)
          PROVE  o \in y.used
      <3>1. o \in objects \/ \E s \in Segs \ S: o \in Lists(x, s)
        BY <1>1, <2>2 DEF Lists
      <3>2. o \in x.used
        BY <2>1, <3>1 DEF ObjectInv
      <3>3. ASSUME NEW s \in S, o \in x.seg[s].young
            PROVE  FALSE
        BY <2>1, <3>1, <3>3 DEF ObjectInv
      <3> QED BY <1>1, <3>2, <3>3
    <2>3. ASSUME NEW s \in Segs, o \in y.seg[s].young
          PROVE  /\ o \notin objects
                 /\ \A t \in Segs: /\ o \notin y.seg[t].modified
                                   /\ o \in Lists(y, t) => t = s
      <3>1. s \notin S /\ o \in x.seg[s].young
        BY <1>1, <2>3 DEF Lists
      <3>2. \A t \in Segs: o \in Lists(y, t) => o \in Lists(x, t)
        BY <1>1 DEF Lists
      <3>3. \A t \in Segs: o \in y.seg[t].modified => o \in x.seg[t].modified
        BY <1>1 DEF Lists
      <3> QED BY <2>1, <3>1, <3>2, <3>3 DEF ObjectInv
    <2>4. /\ y.write_locks[o] \in Segs \union {0}
          /\ \A s \in Segs: o \in y.seg[s].modified <=> y.write_locks[o] = s
      <3>1. CASE \E s \in S: o \in x.seg[s].modified
        <4>1. y.write_locks[o] = 0 /\ 0 \notin Segs
          BY <1>1, <3>1 DEF Segs
        <4>2. ASSUME NEW s \in Segs
              PROVE  o \notin y.seg[s].modified
          BY <1>1, <2>1, <3>1 DEF ObjectInv, Lists
        <4> QED BY <4>1, <4>2
      <3>2. CASE ~ \E s \in S: o \in x.seg[s].modified
        <4>1. y.write_locks[o] = x.write_locks[o]
          BY <1>1, <3>2
        <4>2. ASSUME NEW s \in Segs
              PROVE  o \in y.seg[s].modified <=> o \in x.seg[s].modified
          BY <1>1, <3>2 DEF Lists
        <4> QED BY <2>1, <4>1, <4>2 DEF ObjectInv
      <3> QED BY <3>1, <3>2
    <2> QED BY <2>2, <2>3, <2>4 DEF ObjectInv
  <1> QED BY <1>1, <1>2 DEF ListInv, y

\* The marks of a major collection overwrite the locks, and only an object
\* that no segment has modified ends up without one.
LEMMA MarkingKeeps ==
  ASSUME NEW x, NEW objects, ListInv(x, objects), NEW reachable,
         \A o \in Objs: o \in reachable <=>
           o \in objects \/ \E s \in Segs: o \in x.seg[s].mine \union x.seg[s].modified,
         \A s \in Segs: x.seg[s].young = {}
  PROVE  LET y == major_restore_write_locks(sweep_large_objects(
                    clean_up_segment_lists(MarkVisited(x, reachable))))
         IN  /\ ListInv(y, objects)
             /\ \A s \in Segs: /\ y.seg[s].modified = x.seg[s].modified
                               /\ y.seg[s].mine = x.seg[s].mine
                               /\ y.seg[s].young = {}
  <1> DEFINE a == MarkVisited(x, reachable)
             b == clean_up_segment_lists(a)
             kept == {o \in b.used: b.write_locks[o] = WL_VISITED}
             c == sweep_large_objects(b)
             y == major_restore_write_locks(c)
  <1>1. /\ DOMAIN a = DOMAIN x /\ a.used = x.used /\ a.seg = x.seg
        /\ a.write_locks = [o \in Objs |-> IF o \in reachable THEN WL_VISITED
                                           ELSE x.write_locks[o]]
    BY DEF MarkVisited, ListInv, IsHeap, Fields
  <1> HIDE DEF a
  <1>2. IsHeap(a)
    BY <1>1 DEF ListInv, IsHeap
  <1>3. IsHeap(b) /\ SameLists(a, b)
    BY <1>2, CleanUpKeeps
  <1> HIDE DEF b
  <1>4. /\ DOMAIN c = DOMAIN b /\ c.used = kept /\ c.seg = b.seg
        /\ c.write_locks = [o \in Objs |-> IF o \in kept THEN 0 ELSE b.write_locks[o]]
    BY <1>3 DEF sweep_large_objects, IsHeap, Fields
  <1> HIDE DEF c
  <1>5. IsHeap(c)
    BY <1>3, <1>4 DEF IsHeap
  <1>6. /\ DOMAIN y = DOMAIN c /\ y.used = c.used /\ y.seg = c.seg
        /\ y.write_locks = [o \in Objs |->
             IF {s \in Segs: o \in c.seg[s].modified} = {} THEN c.write_locks[o]
             ELSE CHOOSE s \in {s \in Segs: o \in c.seg[s].modified}: TRUE]
    BY <1>5 DEF major_restore_write_locks, IsHeap, Fields
  <1> HIDE DEF y
  <1>7. IsHeap(y)
    BY <1>5, <1>6 DEF IsHeap
  <1>8. \A s \in Segs: /\ y.seg[s].modified = x.seg[s].modified
                       /\ y.seg[s].mine = x.seg[s].mine
                       /\ y.seg[s].young = {}
    BY <1>1, <1>3, <1>4, <1>6 DEF SameLists
  <1>9. ASSUME NEW o \in Objs
        PROVE  ObjectInv(y, objects, o)
    <2>1. ObjectInv(x, objects, o)
      BY DEF ListInv
    <2>2. b.write_locks[o] = IF o \in reachable THEN WL_VISITED ELSE x.write_locks[o]
      BY <1>1, <1>3 DEF SameLists
    <2>3. o \in reachable => o \in kept
      <3>1. o \in reachable => o \in x.used
        BY <2>1 DEF ObjectInv, Lists
      <3>2. b.used = x.used
        BY <1>1, <1>3 DEF SameLists
      <3> QED BY <2>2, <3>1, <3>2
    <2>4. c.write_locks[o] = IF o \in kept THEN 0 ELSE b.write_locks[o]
      BY <1>4
    <2> HIDE DEF kept
    <2>5. \A s \in Segs: c.seg[s].modified = x.seg[s].modified
      BY <1>1, <1>3, <1>4 DEF SameLists
    <2>6. CASE \E s \in Segs: o \in x.seg[s].modified
      <3>1. PICK s \in Segs: o \in x.seg[s].modified
        BY <2>6
      <3>2. {t \in Segs: o \in c.seg[t].modified} = {s}
        BY <2>1, <2>5, <3>1 DEF ObjectInv
      <3>3. y.write_locks[o] = CHOOSE t \in {s}: TRUE
        BY <1>6, <3>2
      <3>4. y.write_locks[o] = s
        BY <3>3
      <3>5. \A t \in Segs: o \in y.seg[t].modified <=> y.write_locks[o] = t
        BY <1>8, <2>1, <3>1, <3>4 DEF ObjectInv
      <3>6. o \in y.used
        BY <1>4, <1>6, <2>3, <3>1
      <3> QED BY <1>8, <3>4, <3>5, <3>6 DEF ObjectInv
    <2>7. CASE ~ \E s \in Segs: o \in x.seg[s].modified
      <3>1. x.write_locks[o] = 0 /\ 0 \notin Segs
        BY <2>1, <2>7 DEF ObjectInv, Segs
      <3>2. c.write_locks[o] = 0
        BY <2>2, <2>3, <2>4, <3>1
      <3>3. {t \in Segs: o \in c.seg[t].modified} = {}
        BY <2>5, <2>7
      <3>4. y.write_locks[o] = 0
        BY <1>6, <3>2, <3>3
      <3>5. o \in objects \/ (\E s \in Segs: o \in Lists(y, s)) => o \in y.used
        BY <1>4, <1>6, <1>8, <2>3 DEF Lists
      <3> QED BY <1>8, <2>7, <3>1, <3>4, <3>5 DEF ObjectInv
    <2> QED BY <2>6, <2>7
  <1> QED BY <1>7, <1>8, <1>9 DEF ListInv, y, c, b, a

\* A major collection: minor ones, the pages, then mark and sweep.
LEMMA MajorKeeps ==
  ASSUME ListInv(sys, public)
  PROVE  LET y == major_collection_now_at_safe_point(sys)
         IN  /\ ListInv(y, public)
             /\ \A s \in Segs: /\ y.seg[s].modified = sys.seg[s].modified
                               /\ y.seg[s].mine = sys.seg[s].mine
                               /\ y.seg[s].young = {}
  <1> DEFINE S == {s \in Segs: ~MINOR_NOTHING_TO_DO(sys, s)}
             a == _do_minor_collection(sys, S, FALSE)
             b == major_reshare_pages(a)
             reachable == public \union UNION {b.seg[s].mine \union b.seg[s].modified:
                                                 s \in Segs}
  <1>1. ListInv(a, public)
    BY MinorKeeps
  <1>2. \A s \in Segs: /\ a.seg[s].modified = sys.seg[s].modified
                       /\ a.seg[s].mine = sys.seg[s].mine
                       /\ a.seg[s].young = IF s \in S THEN {} ELSE sys.seg[s].young
    <2>1. S \in SUBSET Segs /\ IsHeap(sys)
      BY DEF ListInv
    <2> HIDE DEF S
    <2>2. MinorEffect(sys, S, a)
      <3>1. FALSE \in BOOLEAN
        OBVIOUS
      <3> QED BY <2>1, <3>1, MinorCollected
    <2> QED BY <2>2 DEF MinorEffect
  <1>3. \A s \in Segs: a.seg[s].young = {}
    BY <1>2 DEF MINOR_NOTHING_TO_DO
  <1> HIDE DEF a
  <1>4. ListInv(b, public) /\ SameLists(a, b)
    BY <1>1, PagesKeep, SameListInv DEF ListInv
  <1>5. major_collection_now_at_safe_point(sys) =
          major_restore_write_locks(sweep_large_objects(
            clean_up_segment_lists(MarkVisited(b, reachable))))
    BY DEF major_collection_now_at_safe_point, major_do_minor_collections, a
  <1>6. \A s \in Segs: b.seg[s].young = {}
    BY <1>3, <1>4 DEF SameLists
  <1> HIDE DEF b
  <1>7. \A o \in Objs: o \in reachable <=>
           o \in public \/ \E s \in Segs: o \in b.seg[s].mine \union b.seg[s].modified
    OBVIOUS
  <1> HIDE DEF reachable
  <1> QED BY <1>2, <1>4, <1>5, <1>6, <1>7, MarkingKeeps DEF SameLists

\* The objects of the committing segment become committed ones.
LEMMA CommitKeeps ==
  ASSUME NEW x, ListInv(x, public), NEW s \in Segs, x.seg[s].young = {}
  PROVE  LET y == Finished(OverflowNumber(push_modified_to_other_segments(x, s), s), {s})
         IN  /\ ListInv(y, public \union x.seg[s].mine)
             /\ y.used = x.used
             /\ Lists(y, s) = {}
             /\ \A t \in Segs \ {s}: /\ y.seg[t].modified = x.seg[t].modified
                                     /\ y.seg[t].mine = x.seg[t].mine
                                     /\ y.seg[t].young = x.seg[t].young
  <1> DEFINE a == synchronize_object_now(x, s, x.seg[s].modified, FALSE)
             b == push_modified_to_other_segments(x, s)
             c == OverflowNumber(b, s)
             y == Finished(c, {s})
             objects == public \union x.seg[s].mine
  <1>1. IsHeap(a) /\ SameLists(x, a)
    BY SynchronizeKeeps DEF ListInv
  <1>2. /\ DOMAIN b = DOMAIN a /\ b.used = a.used /\ b.seg = a.seg
        /\ b.write_locks = [o \in Objs |-> IF o \in x.seg[s].modified THEN 0
                                           ELSE a.write_locks[o]]
    <2>1. b = [a EXCEPT !.write_locks = [o \in Objs |-> IF o \in x.seg[s].modified
                                                       THEN 0 ELSE @[o]]]
      BY DEF push_modified_to_other_segments
    <2> HIDE DEF a, b
    <2> QED BY <1>1, <2>1 DEF IsHeap, Fields
  <1> HIDE DEF a, b
  <1>3. IsHeap(b)
    BY <1>1, <1>2 DEF IsHeap
  <1>4. IsHeap(c) /\ SameLists(b, c)
    BY <1>3, NumberKeeps
  <1> HIDE DEF c
  <1>5. /\ IsHeap(y)
        /\ y.used = c.used /\ y.write_locks = c.write_locks
        /\ \A t \in Segs:
             /\ y.seg[t].modified = IF t \in {s} THEN {} ELSE c.seg[t].modified
             /\ y.seg[t].mine = IF t \in {s} THEN {} ELSE c.seg[t].mine
             /\ y.seg[t].young = c.seg[t].young
    BY <1>4, ListsEmptied
  <1> HIDE DEF y
  <1>6. \A t \in Segs \ {s}: /\ y.seg[t].modified = x.seg[t].modified
                             /\ y.seg[t].mine = x.seg[t].mine
                             /\ y.seg[t].young = x.seg[t].young
    BY <1>1, <1>2, <1>4, <1>5 DEF SameLists
  <1>7. Lists(y, s) = {}
    BY <1>1, <1>2, <1>4, <1>5 DEF SameLists, Lists
  <1>8. y.used = x.used
    BY <1>1, <1>2, <1>4, <1>5 DEF SameLists
  <1>9. ASSUME NEW o \in Objs
        PROVE  ObjectInv(y, objects, o)
    <2>1. ObjectInv(x, public, o)
      BY DEF ListInv
    <2>2. y.write_locks[o] = IF o \in x.seg[s].modified THEN 0 ELSE x.write_locks[o]
      BY <1>1, <1>2, <1>4, <1>5 DEF SameLists
    <2>3. \A t \in Segs: o \in y.seg[t].modified <=> o \in x.seg[t].modified /\ t # s
      BY <1>6, <1>7 DEF Lists
    <2>4. /\ y.write_locks[o] \in Segs \union {0}
          /\ \A t \in Segs: o \in y.seg[t].modified <=> y.write_locks[o] = t
      <3>1. 0 \notin Segs
        BY DEF Segs
      <3> QED BY <2>1, <2>2, <2>3, <3>1 DEF ObjectInv
    <2>5. \A t \in Segs: o \in Lists(y, t) => t # s /\ o \in Lists(x, t)
      BY <1>6, <1>7 DEF Lists
    <2>6. o \in objects \/ (\E t \in Segs: o \in Lists(y, t)) => o \in y.used
      <3>1. o \in objects => o \in public \/ o \in Lists(x, s)
        BY DEF Lists
      <3> QED BY <1>8, <2>1, <2>5, <3>1 DEF ObjectInv
    <2>7. ASSUME NEW t \in Segs, o \in y.seg[t].young
          PROVE  /\ o \notin objects
                 /\ \A u \in Segs: /\ o \notin y.seg[u].modified
                                   /\ o \in Lists(y, u) => u = t
      <3>1. t # s /\ o \in x.seg[t].young
        BY <1>6, <1>7, <2>7 DEF Lists
      <3>2. o \notin Lists(x, s) /\ o \notin public
        BY <2>1, <3>1 DEF ObjectInv
      <3> QED BY <2>1, <2>3, <2>5, <3>1, <3>2 DEF ObjectInv, Lists
    <2> HIDE DEF objects
    <2> QED BY <2>4, <2>6, <2>7 DEF ObjectInv
  <1>10. ListInv(y, objects)
    BY <1>5, <1>9 DEF ListInv
  <1> QED BY <1>6, <1>7, <1>8, <1>10 DEF y, c, b

-----------------------------------------------------------------------------
(* Every step keeps them.                                                  *)

\* No thread of those that allocate or commit was doing something else.
NoneBegins ==
  \A t \in Segs:
    /\ pc'[t].k \in Allocating => pc[t].k \in Allocating /\ pc'[t].o = pc[t].o
    /\ pc'[t].k \in Pushing \union {"commit"} => pc[t].k \in Pushing \union {"commit"}

\* Lists that get shorter and objects that stay in use.
LEMMA FreshKeeps ==
  ASSUME FreshInv, NoneBegins,
         \A t \in Segs: Lists(sys, t)' \subseteq Lists(sys, t),
         public' \subseteq public \union UNION {Lists(sys, t) : t \in Segs},
         \A o \in sys.used : o \in sys'.used \/ \E t \in Segs: o \in sys.seg[t].young
  PROVE  FreshInv'
  <1> SUFFICES ASSUME NEW s \in Segs, pc'[s].k \in Allocating
               PROVE  /\ pc'[s].o \in sys'.used \ public'
                      /\ \A t \in Segs: pc'[s].o \notin Lists(sys', t)
                      /\ \A t \in Segs \ {s}: pc'[t].k \in Allocating => pc'[t].o # pc'[s].o
    BY DEF FreshInv
  <1> DEFINE o == pc[s].o
  <1>1. /\ pc[s].k \in Allocating /\ pc'[s].o = o
        /\ o \in sys.used \ public
        /\ \A t \in Segs: o \notin Lists(sys, t)
        /\ \A t \in Segs \ {s}: pc[t].k \in Allocating => pc[t].o # o
    BY DEF FreshInv, NoneBegins
  <1>2. \A t \in Segs: o \notin Lists(sys', t)
    BY <1>1 DEF Lists
  <1>3. o \in sys'.used \ public'
    BY <1>1 DEF Lists
  <1>4. \A t \in Segs \ {s}: pc'[t].k \in Allocating => pc'[t].o # o
    BY <1>1 DEF NoneBegins
  <1> QED BY <1>1, <1>2, <1>3, <1>4

\* A step that changes none of the fields.
LEMMA QuietStep ==
  ASSUME PagesInv, NoneBegins, IsHeap(sys'), SameLists(sys, sys'), public' = public
  PROVE  PagesInv'
  <1>1. ListInv(sys', public')
    BY SameListInv DEF PagesInv
  <1>2. FreshInv'
    <2>1. \A t \in Segs: Lists(sys, t)' \subseteq Lists(sys, t)
      BY DEF SameLists, Lists
    <2> QED BY <2>1, FreshKeeps DEF PagesInv, SameLists
  <1>3. CommitInv'
    BY DEF PagesInv, CommitInv, NoneBegins, SameLists
  <1> QED BY <1>1, <1>2, <1>3 DEF PagesInv

\* A step that does not touch the heap.
LEMMA NothingChanges ==
  ASSUME PagesInv, NoneBegins, UNCHANGED <<sys, public>>
  PROVE  PagesInv'
  <1>1. IsHeap(sys') /\ SameLists(sys, sys')
    BY DEF PagesInv, ListInv, SameLists
  <1> QED BY <1>1, QuietStep

\* One thread goes on within an allocation or a commit, or ends it.
LEMMA Going ==
  ASSUME PlaceInv, NEW s \in Segs, NEW p, Goto(s, p),
         p.k \in Allocating => pc[s].k \in Allocating /\ p.o = pc[s].o,
         p.k \in Pushing \union {"commit"} => pc[s].k \in Pushing \union {"commit"}
  PROVE  NoneBegins
  BY DEF PlaceInv, Goto, NoneBegins

\* No thread goes on.
LEMMA Staying ==
  ASSUME UNCHANGED pc
  PROVE  NoneBegins
  BY DEF NoneBegins

-----------------------------------------------------------------------------
\* The write barrier.
LEMMA WritesKeepLists ==
  ASSUME PlaceInv, PagesInv, NEW s \in Segs, NEW o, NEW c, NEW card,
         stm_write(s, o, c) \/ write_slowpath_overflow_obj(s, o, c, card)
  PROVE  PagesInv'
  <1>1. IsHeap(sys)
    BY DEF PagesInv, ListInv
  <1>2. NoneBegins /\ UNCHANGED public
    BY Staying DEF stm_write, write_slowpath_overflow_obj
  <1>3. CASE stm_write(s, o, c)
    <2>1. ProgramWrites(sys, s, o, c)
      BY <1>3 DEF stm_write
    <2> QED BY <1>1, <1>2, <2>1, WritesKeep, QuietStep
  <1>4. CASE write_slowpath_overflow_obj(s, o, c, card)
    <2> DEFINE b == Barrier(sys, s, o, c, card)
    <2>1. ProgramWrites(b, s, o, c)
      BY <1>4 DEF write_slowpath_overflow_obj
    <2>2. IsHeap(b) /\ SameLists(sys, b)
      BY <1>1, BarrierKeeps
    <2> HIDE DEF b
    <2>3. IsHeap(sys') /\ SameLists(b, sys')
      BY <2>1, <2>2, WritesKeep
    <2> QED BY <1>2, <2>2, <2>3, SameTwice, QuietStep
  <1> QED BY <1>3, <1>4

\* The write after the lock was taken and the pages are private.
LEMMA BarrierDoneKeepsLists ==
  ASSUME PlaceInv, PagesInv, NEW s \in Segs, BarrierDone(s)
  PROVE  PagesInv'
  <1> DEFINE b == Barrier(sys, s, pc[s].o, pc[s].c, pc[s].card)
  <1>1. /\ ProgramWrites(b, s, pc[s].o, pc[s].c)
        /\ Goto(s, Idle)
        /\ UNCHANGED public
    BY DEF BarrierDone
  <1>2. NoneBegins
    BY <1>1, Going DEF Idle, Allocating, Pushing
  <1>3. IsHeap(b) /\ SameLists(sys, b)
    BY BarrierKeeps DEF PagesInv, ListInv
  <1> HIDE DEF b
  <1>4. IsHeap(sys') /\ SameLists(b, sys')
    BY <1>1, <1>3, WritesKeep
  <1> QED BY <1>1, <1>2, <1>3, <1>4, SameTwice, QuietStep

\* The barrier takes the lock: of an object that is not young anywhere.
LEMMA LockTakenKeepsLists ==
  ASSUME PlaceInv, PagesInv, NEW s \in Segs, NEW o \in Objs, NEW c, NEW card,
         write_slowpath_common(s, o, c, card)
  PROVE  PagesInv'
  <1>1. /\ o \in public \union sys.seg[s].mine
        /\ o \notin sys.seg[s].young
        /\ sys.write_locks[o] \in {0, s}
        /\ sys' = [sys EXCEPT !.write_locks[o] = s, !.seg[s].modified = @ \union {o}]
        /\ UNCHANGED public
    BY DEF write_slowpath_common, NeedsBarrier
  <1>2. IsHeap(sys) /\ ObjectInv(sys, public, o)
    BY DEF PagesInv, ListInv
  <1>3. /\ IsHeap(sys')
        /\ sys'.used = sys.used
        /\ \A p \in Objs: sys'.write_locks[p] = IF p = o THEN s ELSE sys.write_locks[p]
        /\ \A t \in Segs: /\ sys'.seg[t].modified = IF t = s
                               THEN sys.seg[s].modified \union {o} ELSE sys.seg[t].modified
                          /\ sys'.seg[t].mine = sys.seg[t].mine
                          /\ sys'.seg[t].young = sys.seg[t].young
    BY <1>1, <1>2 DEF IsHeap, Fields, ListFields
  <1>4. /\ o \in sys.used
        /\ \A t \in Segs: o \notin sys.seg[t].young
    BY <1>1, <1>2 DEF ObjectInv, Lists
  <1>5. ASSUME NEW p \in Objs
        PROVE  ObjectInv(sys', public, p)
    <2>1. ObjectInv(sys, public, p)
      BY DEF PagesInv, ListInv
    <2>2. CASE p # o
      BY <1>3, <2>1, <2>2 DEF ObjectInv, Lists
    <2>3. CASE p = o
      <3>1. sys'.write_locks[o] = s
        BY <1>3
      <3>2. \A t \in Segs: o \in sys'.seg[t].modified <=> t = s
        BY <1>1, <1>2, <1>3 DEF ObjectInv, Segs
      <3>3. o \in sys'.used /\ \A t \in Segs: o \notin sys'.seg[t].young
        BY <1>3, <1>4
      <3> QED BY <2>3, <3>1, <3>2, <3>3 DEF ObjectInv
    <2> QED BY <2>2, <2>3
  <1>6. ListInv(sys', public')
    BY <1>1, <1>3, <1>5 DEF ListInv
  <1>7. PICK p : Goto(s, p) /\ p.k = "page"
    BY DEF write_slowpath_common
  <1>8. NoneBegins
    BY <1>7, Going DEF Allocating, Pushing
  <1>9. FreshInv'
    <2> SUFFICES ASSUME NEW t \in Segs, pc'[t].k \in Allocating
                 PROVE  /\ pc'[t].o \in sys'.used \ public'
                        /\ \A u \in Segs: pc'[t].o \notin Lists(sys', u)
                        /\ \A u \in Segs \ {t}: pc'[u].k \in Allocating => pc'[u].o # pc'[t].o
      BY DEF FreshInv
    <2>1. pc[t].k \in Allocating /\ pc'[t].o = pc[t].o
      BY <1>8 DEF NoneBegins
    <2>2. /\ pc[t].o \in sys.used \ public
          /\ \A u \in Segs: pc[t].o \notin Lists(sys, u)
          /\ \A u \in Segs \ {t}: pc[u].k \in Allocating => pc[u].o # pc[t].o
      BY <2>1 DEF PagesInv, FreshInv
    <2>3. pc[t].o # o
      BY <1>1, <2>2 DEF Lists
    <2>4. \A u \in Segs: pc[t].o \notin Lists(sys', u)
      BY <1>3, <2>2, <2>3 DEF Lists
    <2>5. \A u \in Segs \ {t}: pc'[u].k \in Allocating => pc'[u].o # pc[t].o
      BY <1>8, <2>2 DEF NoneBegins
    <2> QED BY <1>1, <1>3, <2>1, <2>2, <2>4, <2>5
  <1>10. CommitInv'
    BY <1>3, <1>8 DEF PagesInv, CommitInv, NoneBegins
  <1> QED BY <1>6, <1>9, <1>10 DEF PagesInv

\* page_privatize(), which changes pages only.
LEMMA PrivatizingKeepsLists ==
  ASSUME PlaceInv, PagesInv, NEW s \in Segs,
         \/ page_privatize(s)
         \/ AcquirePrivatizationLock(s)
         \/ SetPrivateBit(s)
         \/ ReadSharedPage(s)
         \/ WritePrivatePage(s)
         \/ ReleasePrivatizationLock(s)
  PROVE  PagesInv'
  <1>1. IsHeap(sys)
    BY DEF PagesInv, ListInv
  <1>2. UNCHANGED public
    BY DEF page_privatize, AcquirePrivatizationLock, SetPrivateBit, ReadSharedPage,
      WritePrivatePage, ReleasePrivatizationLock, heap
  <1>3. IsHeap(sys') /\ SameLists(sys, sys')
    <2>1. CASE SetPrivateBit(s)
      BY <1>1, <2>1, OtherFields DEF SetPrivateBit, IsHeap, Fields
    <2>2. CASE WritePrivatePage(s)
      BY <1>1, <2>2, OtherFields DEF WritePrivatePage, IsHeap, Fields
    <2>3. CASE ~SetPrivateBit(s) /\ ~WritePrivatePage(s)
      <3>1. sys' = sys
        BY <2>3 DEF page_privatize, AcquirePrivatizationLock, ReadSharedPage,
          ReleasePrivatizationLock, heap
      <3> QED BY <1>1, <3>1 DEF SameLists
    <2> QED BY <2>1, <2>2, <2>3
  <1>4. \E p : Goto(s, p) /\ p.k \in Privatizing
    <2>1. "k" \in DOMAIN pc[s]
      BY DEF PlaceInv
    <2>2. CASE page_privatize(s)
      <3>1. Goto(s, [pc[s] EXCEPT !.todo = Tail(@)]) \/ Goto(s, [pc[s] EXCEPT !.k = "lock"])
        BY <2>2 DEF page_privatize
      <3>2. pc[s].k = "page"
        BY <2>2 DEF page_privatize
      <3> QED BY <2>1, <3>1, <3>2 DEF Privatizing
    <2>3. CASE AcquirePrivatizationLock(s)
      <3>1. Goto(s, [pc[s] EXCEPT !.k = "bit"]) \/ Goto(s, pc[s])
        BY <2>3 DEF AcquirePrivatizationLock
      <3>2. pc[s].k = "lock"
        BY <2>3 DEF AcquirePrivatizationLock
      <3> QED BY <2>1, <3>1, <3>2 DEF Privatizing
    <2>4. CASE SetPrivateBit(s)
      <3> DEFINE p == [pc[s] EXCEPT !.k = "read", !.total = sys'.total_allocated]
      <3>1. Goto(s, p)
        BY <2>4 DEF SetPrivateBit
      <3>2. p.k = "read"
        BY <2>1
      <3> HIDE DEF p
      <3> QED BY <3>1, <3>2 DEF Privatizing
    <2>5. CASE ReadSharedPage(s)
      <3> DEFINE p == [pc[s] EXCEPT !.k = "copy", !.page = sys.mem[0]]
      <3>1. Goto(s, p)
        BY <2>5 DEF ReadSharedPage
      <3>2. p.k = "copy"
        BY <2>1
      <3> HIDE DEF p
      <3> QED BY <3>1, <3>2 DEF Privatizing
    <2>6. CASE WritePrivatePage(s)
      <3> DEFINE p == [pc[s] EXCEPT !.k = "unlock", !.total = 0, !.page = NULL]
      <3>1. Goto(s, p)
        BY <2>6 DEF WritePrivatePage
      <3>2. p.k = "unlock"
        BY <2>1
      <3> HIDE DEF p
      <3> QED BY <3>1, <3>2 DEF Privatizing
    <2>7. CASE ReleasePrivatizationLock(s)
      <3>1. Goto(s, [pc[s] EXCEPT !.k = "page", !.todo = Tail(@)]) \/ Goto(s, pc[s])
        BY <2>7 DEF ReleasePrivatizationLock
      <3>2. pc[s].k = "unlock"
        BY <2>7 DEF ReleasePrivatizationLock
      <3> QED BY ZenonT(60), <2>1, <3>1, <3>2 DEF Privatizing
    <2> QED BY <2>2, <2>3, <2>4, <2>5, <2>6, <2>7
  <1>5. NoneBegins
    BY <1>4, Going DEF Privatizing, Allocating, Pushing
  <1> QED BY <1>2, <1>3, <1>5, QuietStep

-----------------------------------------------------------------------------
\* Allocating.
LEMMA BeginsAllocating ==
  ASSUME PlaceInv, PagesInv, NEW s \in Segs, NEW o \in Objs,
         allocate_outside_nursery_large(s, o)
  PROVE  PagesInv'
  <1>1. IsHeap(sys) /\ o \notin sys.used /\ UNCHANGED public /\ pc[s].k = "idle"
    BY DEF PagesInv, ListInv, allocate_outside_nursery_large, Running
  <1>2. /\ IsHeap(sys')
        /\ sys'.used = sys.used \union {o} /\ sys'.write_locks = sys.write_locks
        /\ \A t \in Segs: /\ sys'.seg[t].modified = sys.seg[t].modified
                          /\ sys'.seg[t].mine = sys.seg[t].mine
                          /\ sys'.seg[t].young = sys.seg[t].young
    BY <1>1 DEF allocate_outside_nursery_large, IsHeap, Fields
  <1>3. PICK p : Goto(s, p) /\ p.k = "new" /\ p.o = o
    BY DEF allocate_outside_nursery_large
  <1>4. pc'[s] = p /\ \A t \in Segs \ {s}: pc'[t] = pc[t]
    BY <1>3 DEF Goto, PlaceInv
  <1>5. ListInv(sys', public')
    BY <1>1, <1>2 DEF PagesInv, ListInv, ObjectInv, Lists
  <1>6. FreshInv'
    <2>1. \A t \in Segs: Lists(sys', t) = Lists(sys, t)
      BY <1>2 DEF Lists
    <2>2. ASSUME NEW t \in Segs \ {s}, pc'[t].k \in Allocating
          PROVE  /\ pc'[t].o \in sys'.used \ public'
                 /\ \A u \in Segs: pc'[t].o \notin Lists(sys', u)
                 /\ \A u \in Segs \ {t}: pc'[u].k \in Allocating => pc'[u].o # pc'[t].o
      <3>1. pc[t].o \in sys.used
        BY <1>4, <2>2 DEF PagesInv, FreshInv
      <3> QED BY <1>1, <1>2, <1>3, <1>4, <2>1, <2>2, <3>1 DEF PagesInv, FreshInv
    <2>3. o \notin public /\ \A u \in Segs: o \notin Lists(sys, u)
      BY <1>1 DEF allocate_outside_nursery_large, PagesInv, ListInv, ObjectInv
    <2>4. \A u \in Segs \ {s}: pc[u].k \in Allocating => pc[u].o # o
      BY <1>1 DEF PagesInv, FreshInv
    <2>5. /\ pc'[s].o \in sys'.used \ public'
          /\ \A u \in Segs: pc'[s].o \notin Lists(sys', u)
          /\ \A u \in Segs \ {s}: pc'[u].k \in Allocating => pc'[u].o # pc'[s].o
      BY <1>1, <1>2, <1>3, <1>4, <2>1, <2>3, <2>4
    <2> QED BY <2>2, <2>5 DEF FreshInv
  <1>7. CommitInv'
    BY <1>2, <1>3, <1>4 DEF PagesInv, CommitInv, Pushing
  <1> QED BY <1>5, <1>6, <1>7 DEF PagesInv

\* The object that was being allocated is young.
LEMMA NewObjectKeepsLists ==
  ASSUME PlaceInv, PagesInv, NEW s \in Segs, pc[s].k \in Allocating,
         NewObject(s, pc[s].o), UNCHANGED public
  PROVE  PagesInv'
  <1> DEFINE o == pc[s].o
             x == [sys EXCEPT !.seg[s].young = @ \union {o}, !.seg[s].mine = @ \union {o}]
  <1>1. /\ o \in sys.used \ public
        /\ \A t \in Segs: o \notin Lists(sys, t)
        /\ \A t \in Segs \ {s}: pc[t].k \in Allocating => pc[t].o # o
    BY DEF PagesInv, FreshInv
  <1>2. /\ IsHeap(x)
        /\ x.used = sys.used /\ x.write_locks = sys.write_locks
        /\ \A t \in Segs:
             /\ x.seg[t].modified = sys.seg[t].modified
             /\ x.seg[t].mine = IF t = s THEN sys.seg[s].mine \union {o} ELSE sys.seg[t].mine
             /\ x.seg[t].young = IF t = s THEN sys.seg[s].young \union {o}
                                 ELSE sys.seg[t].young
    BY DEF PagesInv, ListInv, IsHeap, Fields, ListFields
  <1>3. sys' = Store(x, s, o, Zeroes(o)) /\ Goto(s, Idle)
    BY DEF NewObject
  <1> HIDE DEF x
  <1>4. IsHeap(sys') /\ SameLists(x, sys')
    BY <1>2, <1>3, StoreKeeps
  <1>5. /\ sys'.used = sys.used /\ sys'.write_locks = sys.write_locks
        /\ \A t \in Segs:
             /\ sys'.seg[t].modified = sys.seg[t].modified
             /\ sys'.seg[t].mine = IF t = s THEN sys.seg[s].mine \union {o} ELSE sys.seg[t].mine
             /\ sys'.seg[t].young = IF t = s THEN sys.seg[s].young \union {o}
                                    ELSE sys.seg[t].young
    BY <1>2, <1>4 DEF SameLists
  <1>6. pc'[s] = Idle /\ \A t \in Segs \ {s}: pc'[t] = pc[t]
    BY <1>3 DEF Goto, PlaceInv
  <1> HIDE DEF o
  <1>7. ASSUME NEW p \in Objs
        PROVE  ObjectInv(sys', public, p)
    <2>1. ObjectInv(sys, public, p)
      BY DEF PagesInv, ListInv
    <2>2. CASE p # o
      <3>1. \A t \in Segs: /\ p \in sys'.seg[t].modified <=> p \in sys.seg[t].modified
                           /\ p \in sys'.seg[t].mine <=> p \in sys.seg[t].mine
                           /\ p \in sys'.seg[t].young <=> p \in sys.seg[t].young
        BY <1>5, <2>2
      <3> QED BY <1>5, <2>1, <3>1 DEF ObjectInv, Lists
    <2>3. CASE p = o
      <3>1. \A t \in Segs: /\ o \notin sys'.seg[t].modified
                           /\ o \in Lists(sys', t) => t = s
        BY <1>1, <1>5 DEF Lists
      <3>2. \A t \in Segs: o \notin sys.seg[t].modified
        BY <1>1 DEF Lists
      <3>3. \A t \in Segs: o \in sys'.seg[t].young => o \in Lists(sys', t)
        BY DEF Lists
      <3> QED BY <1>1, <1>5, <2>1, <2>3, <3>1, <3>2, <3>3 DEF ObjectInv
    <2> QED BY <2>2, <2>3
  <1>8. ListInv(sys', public')
    BY <1>4, <1>7 DEF ListInv
  <1>9. FreshInv'
    <2>1. ASSUME NEW t \in Segs, pc'[t].k \in Allocating
          PROVE  /\ pc'[t].o \in sys'.used \ public'
                 /\ \A u \in Segs: pc'[t].o \notin Lists(sys', u)
                 /\ \A u \in Segs \ {t}: pc'[u].k \in Allocating => pc'[u].o # pc'[t].o
      <3>1. t # s /\ pc'[t] = pc[t]
        BY <1>6, <2>1 DEF Idle, Allocating
      <3>2. pc[t].o # o
        BY <1>1, <2>1, <3>1
      <3>3. /\ pc[t].o \in sys.used \ public
            /\ \A u \in Segs: pc[t].o \notin Lists(sys, u)
            /\ \A u \in Segs \ {t}: pc[u].k \in Allocating => pc[u].o # pc[t].o
        BY <2>1, <3>1 DEF PagesInv, FreshInv
      <3>4. \A u \in Segs: pc[t].o \notin Lists(sys', u)
        BY <1>5, <3>2, <3>3 DEF Lists
      <3>5. \A u \in Segs: pc'[u].k \in Allocating => pc'[u] = pc[u]
        BY <1>6 DEF Idle, Allocating
      <3>6. \A u \in Segs \ {t}: pc'[u].k \in Allocating => pc'[u].o # pc'[t].o
        BY <3>1, <3>3, <3>5
      <3> QED BY <1>5, <3>1, <3>3, <3>4, <3>6
    <2> QED BY <2>1 DEF FreshInv
  <1>10. CommitInv'
    BY <1>5, <1>6 DEF PagesInv, CommitInv, Idle, Pushing
  <1> QED BY <1>8, <1>9, <1>10 DEF PagesInv

\* The steps of an allocation.
LEMMA AllocatingKeepsLists ==
  ASSUME PlaceInv, PagesInv, NEW s \in Segs,
         \/ PagesExist(s)
         \/ MorePagesNeeded(s)
         \/ AcquireGrowthLock(s)
         \/ setup_N_pages(s)
         \/ PagesMapped(s)
  PROVE  PagesInv'
  <1>1. CASE PagesExist(s) \/ PagesMapped(s)
    <2>1. pc[s].k \in Allocating /\ NewObject(s, pc[s].o) /\ UNCHANGED public
      BY <1>1 DEF PagesExist, PagesMapped, Allocating
    <2> QED BY <2>1, NewObjectKeepsLists
  <1>2. CASE MorePagesNeeded(s) \/ AcquireGrowthLock(s)
    <2>1. /\ pc[s].k \in Allocating /\ "k" \in DOMAIN pc[s] /\ "o" \in DOMAIN pc[s]
          /\ UNCHANGED <<sys, public>>
      BY <1>2 DEF MorePagesNeeded, AcquireGrowthLock, PlaceInv, Allocating, heap
    <2>2. Goto(s, [pc[s] EXCEPT !.k = "wait"]) \/ Goto(s, [pc[s] EXCEPT !.k = "grow"])
      BY <1>2 DEF MorePagesNeeded, AcquireGrowthLock
    <2>3. NoneBegins
      BY <2>1, <2>2, Going DEF Allocating, Pushing
    <2> QED BY <2>1, <2>3, NothingChanges
  <1>3. CASE setup_N_pages(s)
    <2>1. pc[s].k = "grow" /\ "k" \in DOMAIN pc[s] /\ "o" \in DOMAIN pc[s]
      BY <1>3 DEF setup_N_pages, PlaceInv, Allocating
    <2>2. CASE Goto(s, [pc[s] EXCEPT !.k = "mapped"]) /\ UNCHANGED <<sys, public>>
      <3>1. NoneBegins
        BY <2>1, <2>2, Going DEF Allocating, Pushing
      <3> QED BY <2>2, <3>1, NothingChanges
    <2>3. CASE NewObject(s, pc[s].o) /\ UNCHANGED public
      BY <2>1, <2>3, NewObjectKeepsLists DEF Allocating
    <2> QED BY <1>3, <2>2, <2>3 DEF setup_N_pages, heap
  <1> QED BY <1>1, <1>2, <1>3

\* The program forgets an object.
LEMMA PopRootKeepsLists ==
  ASSUME PlaceInv, PagesInv, NEW s \in Segs, NEW o, PopRoot(s, o)
  PROVE  PagesInv'
  <1>1. NoneBegins /\ UNCHANGED public
    BY Staying DEF PopRoot
  <1>2. /\ IsHeap(sys')
        /\ sys'.used = sys.used /\ sys'.write_locks = sys.write_locks
        /\ \A t \in Segs: /\ sys'.seg[t].modified = sys.seg[t].modified
                          /\ sys'.seg[t].mine \subseteq sys.seg[t].mine
                          /\ sys'.seg[t].young = sys.seg[t].young
    BY DEF PopRoot, PagesInv, ListInv, IsHeap, Fields, ListFields
  <1>3. \A t \in Segs: Lists(sys', t) \subseteq Lists(sys, t)
    BY <1>2 DEF Lists
  <1>4. ListInv(sys', public')
    BY <1>1, <1>2, <1>3 DEF PagesInv, ListInv, ObjectInv
  <1>5. FreshInv'
    BY <1>1, <1>2, <1>3, FreshKeeps DEF PagesInv
  <1>6. CommitInv'
    BY <1>1, <1>2 DEF PagesInv, CommitInv, NoneBegins
  <1> QED BY <1>4, <1>5, <1>6 DEF PagesInv

\* A committed object becomes unreachable.
LEMMA UnlinkKeepsLists ==
  ASSUME PagesInv, NEW o, Unlink(o)
  PROVE  PagesInv'
  <1>1. NoneBegins /\ sys' = sys /\ public' = public \ {o}
    BY Staying DEF Unlink
  <1>2. ListInv(sys', public')
    BY <1>1 DEF PagesInv, ListInv, ObjectInv
  <1>3. FreshInv'
    BY <1>1, FreshKeeps DEF PagesInv
  <1>4. CommitInv'
    BY <1>1 DEF PagesInv, CommitInv, NoneBegins
  <1> QED BY <1>2, <1>3, <1>4 DEF PagesInv

-----------------------------------------------------------------------------
\* Collecting, committing and aborting.
LEMMA MinorStep ==
  ASSUME PlaceInv, PagesInv, NEW s \in Segs, NEW commit \in BOOLEAN,
         sys' = _do_minor_collection(sys, {s}, commit), UNCHANGED public,
         NEW p, Goto(s, p), p.k \notin Allocating
  PROVE  PagesInv'
  <1> DEFINE S == {s}
  <1>0. ListInv(sys, public) /\ IsHeap(sys) /\ S \in SUBSET Segs
    BY DEF PagesInv, ListInv
  <1>1. MinorEffect(sys, S, sys')
    <2>1. MinorEffect(sys, S, _do_minor_collection(sys, S, commit))
      BY <1>0, MinorCollected
    <2> QED BY <2>1
  <1>2. ListInv(sys', public')
    <2>1. ListInv(_do_minor_collection(sys, S, commit), public)
      BY <1>0, MinorKeeps
    <2> QED BY <2>1
  <1>3. pc'[s] = p /\ \A t \in Segs \ {s}: pc'[t] = pc[t]
    BY DEF Goto, PlaceInv
  <1>4. FreshInv'
    <2> SUFFICES ASSUME NEW t \in Segs, pc'[t].k \in Allocating
                 PROVE  /\ pc'[t].o \in sys'.used \ public'
                        /\ \A u \in Segs: pc'[t].o \notin Lists(sys', u)
                        /\ \A u \in Segs \ {t}: pc'[u].k \in Allocating => pc'[u].o # pc'[t].o
      BY DEF FreshInv
    <2>1. t # s /\ pc'[t] = pc[t]
      BY <1>3
    <2>2. /\ pc[t].o \in sys.used \ public
          /\ \A u \in Segs: pc[t].o \notin Lists(sys, u)
          /\ \A u \in Segs \ {t}: pc[u].k \in Allocating => pc[u].o # pc[t].o
      BY <2>1 DEF PagesInv, FreshInv
    <2>3. pc[t].o \in sys'.used
      <3>1. pc[t].o \notin sys.seg[s].young
        BY <2>2 DEF Lists
      <3>2. ~ \E u \in S: pc[t].o \in sys.seg[u].young \ sys.seg[u].mine
        BY <3>1
      <3> DEFINE o == pc[t].o
      <3>3. o \in sys.used /\ ~ \E u \in S: o \in sys.seg[u].young \ sys.seg[u].mine
        BY <2>2, <3>2
      <3> HIDE DEF S, o
      <3>4. sys'.used = sys.used \ UNION {sys.seg[u].young \ sys.seg[u].mine : u \in S}
        BY <1>1 DEF MinorEffect
      <3>5. o \in sys'.used
        BY ONLY <3>3, <3>4
      <3> QED BY <3>5 DEF o
    <2>4. \A u \in Segs: pc[t].o \notin Lists(sys', u)
      BY <1>1, <2>2 DEF Lists, MinorEffect
    <2>5. \A u \in Segs \ {t}: pc'[u].k \in Allocating => pc'[u].o # pc[t].o
      BY <1>3, <2>2
    <2> QED BY <2>1, <2>2, <2>3, <2>4, <2>5
  <1>5. CommitInv'
    BY <1>1, <1>3 DEF PagesInv, CommitInv, MinorEffect
  <1> QED BY <1>2, <1>4, <1>5 DEF PagesInv

\* The step of a thread that does everything else alone: all others are at
\* safe points.
LEMMA AloneStep ==
  ASSUME PlaceInv, PagesInv, NEW s \in Segs, OthersAtSafePoints(s),
         Goto(s, Idle), ListInv(sys', public'),
         \A t \in Segs \ {s}: sys.seg[t].young = {} => sys'.seg[t].young = {}
  PROVE  PagesInv'
  <1>1. pc'[s] = Idle /\ \A t \in Segs \ {s}: pc'[t] = pc[t]
    BY DEF Goto, PlaceInv
  <1>2. \A t \in Segs: pc'[t].k \notin Allocating
    BY <1>1 DEF OthersAtSafePoints, Idle, Allocating
  <1>3. FreshInv'
    BY <1>2 DEF FreshInv
  <1>4. CommitInv'
    BY <1>1 DEF PagesInv, CommitInv, Idle, Pushing
  <1> QED BY <1>3, <1>4 DEF PagesInv

\* The overflow objects go to the other segments.
LEMMA PushingKeepsLists ==
  ASSUME PlaceInv, PagesInv, NEW s \in Segs,
         \/ acquire_privatization_lock(s)
         \/ push_overflow_objects_from_privatized_pages(s)
         \/ release_privatization_lock(s)
  PROVE  PagesInv'
  <1>1. pc[s].k \in Pushing /\ "k" \in DOMAIN pc[s]
    BY DEF acquire_privatization_lock, push_overflow_objects_from_privatized_pages,
      release_privatization_lock, Pushing, PlaceInv
  <1>2. CASE acquire_privatization_lock(s)
    <2>1. Goto(s, [pc[s] EXCEPT !.k = "pushing"]) /\ UNCHANGED <<sys, public>>
      BY <1>2 DEF acquire_privatization_lock, heap
    <2>2. NoneBegins
      BY <1>1, <2>1, Going DEF Allocating, Pushing
    <2> QED BY <2>1, <2>2, NothingChanges
  <1>3. CASE push_overflow_objects_from_privatized_pages(s)
    <2>1. PICK o \in pc[s].todo :
            /\ sys' = synchronize_object_now(sys, s, {o}, TRUE)
            /\ Goto(s, [pc[s] EXCEPT !.todo = @ \ {o}])
      BY <1>3 DEF push_overflow_objects_from_privatized_pages
    <2>2. UNCHANGED public
      BY <1>3 DEF push_overflow_objects_from_privatized_pages
    <2>3. NoneBegins
      BY <1>1, <2>1, Going DEF Allocating, Pushing
    <2>4. IsHeap(sys') /\ SameLists(sys, sys')
      <3>1. IsHeap(sys)
        BY DEF PagesInv, ListInv
      <3> QED BY <2>1, <3>1, SynchronizeKeeps
    <2> QED BY <2>2, <2>3, <2>4, QuietStep
  <1>4. CASE release_privatization_lock(s)
    <2>1. Goto(s, [k |-> "commit"]) /\ UNCHANGED <<sys, public>>
      BY <1>4 DEF release_privatization_lock, heap
    <2>2. NoneBegins
      BY <1>1, <2>1, Going DEF Allocating, Pushing
    <2> QED BY <2>1, <2>2, NothingChanges
  <1> QED BY <1>2, <1>3, <1>4

\* The commit, with a major collection if one is requested.
LEMMA CommitKeepsLists ==
  ASSUME PlaceInv, PagesInv, NEW s \in Segs, stm_commit_transaction(s)
  PROVE  PagesInv'
  <1> DEFINE x == IF major_collection_requested
                  THEN major_collection_now_at_safe_point(sys) ELSE sys
  <1>1. /\ pc[s].k = "commit" /\ OthersAtSafePoints(s) /\ Goto(s, Idle)
        /\ sys' = Finished(OverflowNumber(push_modified_to_other_segments(x, s), s), {s})
        /\ public' = public \union sys.seg[s].mine
    BY DEF stm_commit_transaction
  <1>2. /\ ListInv(x, public)
        /\ x.seg[s].mine = sys.seg[s].mine
        /\ x.seg[s].young = {}
        /\ \A t \in Segs: sys.seg[t].young = {} => x.seg[t].young = {}
    <2>1. ListInv(sys, public) /\ sys.seg[s].young = {}
      BY <1>1 DEF PagesInv, CommitInv
    <2>2. CASE major_collection_requested
      BY <2>1, <2>2, MajorKeeps
    <2>3. CASE ~major_collection_requested
      BY <2>1, <2>3
    <2> QED BY <2>2, <2>3
  <1> HIDE DEF x
  <1>3. /\ ListInv(sys', public \union x.seg[s].mine)
        /\ \A t \in Segs \ {s}: sys'.seg[t].young = x.seg[t].young
    BY ZenonT(60), <1>1, <1>2, CommitKeeps
  <1>4. ListInv(sys', public')
    BY <1>1, <1>2, <1>3
  <1> QED BY <1>1, <1>2, <1>3, <1>4, AloneStep

\* Aborts, of one segment or in the child of fork().
LEMMA AbortKeepsLists ==
  ASSUME PlaceInv, PagesInv, NEW x, ListInv(x, public), SameLists(sys, x),
         NEW S \in SUBSET Segs, sys' = abort_data_structures_from_segment_num(x, S),
         UNCHANGED public, NoneBegins
  PROVE  PagesInv'
  <1>1. /\ IsHeap(sys')
        /\ sys'.used = x.used \ UNION {x.seg[s].young : s \in S}
        /\ \A s \in Segs: IF s \in S THEN Lists(sys', s) = {}
             ELSE /\ sys'.seg[s].modified = x.seg[s].modified
                  /\ sys'.seg[s].mine = x.seg[s].mine
                  /\ sys'.seg[s].young = x.seg[s].young
    BY Aborted DEF ListInv
  <1>2. ListInv(sys', public')
    BY AbortKeeps
  <1>3. \A t \in Segs: Lists(sys', t) \subseteq Lists(sys, t)
    BY <1>1 DEF Lists, SameLists
  <1>4. \A o \in sys.used : o \in sys'.used \/ \E t \in Segs: o \in sys.seg[t].young
    BY <1>1 DEF SameLists
  <1>5. FreshInv'
    BY <1>3, <1>4, FreshKeeps DEF PagesInv
  <1>6. CommitInv'
    BY <1>1 DEF PagesInv, CommitInv, NoneBegins, Lists, SameLists
  <1> QED BY <1>2, <1>5, <1>6 DEF PagesInv

\* Collections, the first step of a commit, aborts and fork().
LEMMA EndingKeepsLists ==
  ASSUME PlaceInv, PagesInv, NEW s \in Segs, NEW level,
         \/ MinorAtCommit(s)
         \/ abort_with_mutex(s)
         \/ stm_collect(s, level)
         \/ major_collection_if_requested(s)
         \/ forksupport_child(s)
  PROVE  PagesInv'
  <1>1. CASE MinorAtCommit(s)
    <2>1. sys' = _do_minor_collection(sys, {s}, TRUE) /\ UNCHANGED public
      BY <1>1 DEF MinorAtCommit
    <2>2. PICK p : Goto(s, p) /\ p.k = "push"
      BY <1>1 DEF MinorAtCommit
    <2>3. p.k \notin Allocating /\ TRUE \in BOOLEAN
      BY <2>2 DEF Allocating
    <2> QED BY <2>1, <2>2, <2>3, MinorStep
  <1>2. CASE abort_with_mutex(s)
    <2>1. /\ sys' = abort_data_structures_from_segment_num(sys, {s})
          /\ Goto(s, Idle) /\ UNCHANGED public
      BY <1>2 DEF abort_with_mutex
    <2>2. NoneBegins
      BY <2>1, Going DEF Idle, Allocating, Pushing
    <2>3. SameLists(sys, sys) /\ {s} \in SUBSET Segs /\ ListInv(sys, public)
      BY DEF SameLists, PagesInv
    <2> QED BY <2>1, <2>2, <2>3, AbortKeepsLists
  <1>3. CASE stm_collect(s, level)
    <2>1. sys' = _do_minor_collection(sys, {s}, FALSE) /\ UNCHANGED public
      BY <1>3 DEF stm_collect
    <2>2. PICK p : Goto(s, p) /\ p.k \in {"major", "idle"}
      BY <1>3 DEF stm_collect, Idle
    <2>3. p.k \notin Allocating /\ FALSE \in BOOLEAN
      BY <2>2 DEF Allocating
    <2> QED BY <2>1, <2>2, <2>3, MinorStep
  <1>4. CASE major_collection_if_requested(s)
    <2>1. OthersAtSafePoints(s) /\ Goto(s, Idle) /\ UNCHANGED public
      BY <1>4 DEF major_collection_if_requested
    <2>2. ListInv(sys, public)
      BY DEF PagesInv
    <2>3. /\ ListInv(sys', public')
          /\ \A t \in Segs: sys.seg[t].young = {} => sys'.seg[t].young = {}
      <3>1. CASE major_collection_requested
        <4>1. sys' = major_collection_now_at_safe_point(sys)
          BY <1>4, <3>1 DEF major_collection_if_requested
        <4> QED BY <2>1, <2>2, <4>1, MajorKeeps
      <3>2. CASE ~major_collection_requested
        <4>1. sys' = sys
          BY <1>4, <3>2 DEF major_collection_if_requested
        <4> QED BY <2>1, <2>2, <4>1
      <3> QED BY <3>1, <3>2
    <2> QED BY <2>1, <2>3, AloneStep
  <1>5. CASE forksupport_child(s)
    <2>1. /\ sys' = abort_data_structures_from_segment_num(BigCopy(sys), Segs \ {s})
          /\ UNCHANGED <<pc, public>>
      BY <1>5 DEF forksupport_child
    <2>2. NoneBegins
      BY <2>1, Staying
    <2>3. IsHeap(BigCopy(sys)) /\ SameLists(sys, BigCopy(sys))
      BY BigCopyKeeps DEF PagesInv, ListInv
    <2>4. ListInv(BigCopy(sys), public)
      BY <2>3, SameListInv DEF PagesInv
    <2>5. Segs \ {s} \in SUBSET Segs
      OBVIOUS
    <2> QED BY <2>1, <2>2, <2>3, <2>4, <2>5, AbortKeepsLists
  <1> QED BY <1>1, <1>2, <1>3, <1>4, <1>5

-----------------------------------------------------------------------------
\* The invariant of the lists.
LEMMA ListInvariant ==
  ASSUME NB_SEGMENTS \in Nat
  PROVE  Spec => []PagesInv
  <1>1. ASSUME Init
        PROVE  PagesInv
    <2>1. IsHeap(sys)
      BY <1>1 DEF Init, IsHeap, Fields, ListFields
    <2>2. /\ \A o \in Objs: sys.write_locks[o] = 0
          /\ sys.used = Prebuilt /\ public = Prebuilt
          /\ \A s \in Segs: /\ sys.seg[s].modified = {} /\ sys.seg[s].mine = {}
                            /\ sys.seg[s].young = {}
                            /\ pc[s].k = "idle"
      BY <1>1 DEF Init, Idle
    <2>3. \A o \in Objs: ObjectInv(sys, public, o)
      BY <2>2 DEF ObjectInv, Lists, Segs
    <2>4. FreshInv /\ CommitInv
      BY <2>2 DEF FreshInv, CommitInv, Allocating, Pushing
    <2> QED BY <2>1, <2>3, <2>4 DEF PagesInv, ListInv
  <1>2. ASSUME PlaceInv, PagesInv, [Next]_vars
        PROVE  PagesInv'
    <2>1. CASE UNCHANGED vars
      <3>1. UNCHANGED <<sys, public, pc>>
        BY <2>1 DEF vars
      <3> QED BY <1>2, <3>1, Staying, NothingChanges
    <2>2. ASSUME NEW s \in Segs, NEW o, NEW c, NEW card,
                 stm_write(s, o, c) \/ write_slowpath_overflow_obj(s, o, c, card)
          PROVE  PagesInv'
      BY <1>2, <2>2, WritesKeepLists
    <2>3. ASSUME NEW s \in Segs, NEW o \in Objs, NEW c, NEW card,
                 write_slowpath_common(s, o, c, card)
          PROVE  PagesInv'
      BY <1>2, <2>3, LockTakenKeepsLists
    <2>4. ASSUME NEW s \in Segs,
                 \/ page_privatize(s)
                 \/ AcquirePrivatizationLock(s)
                 \/ SetPrivateBit(s)
                 \/ ReadSharedPage(s)
                 \/ WritePrivatePage(s)
                 \/ ReleasePrivatizationLock(s)
          PROVE  PagesInv'
      BY <1>2, <2>4, PrivatizingKeepsLists
    <2>5. ASSUME NEW s \in Segs, BarrierDone(s)
          PROVE  PagesInv'
      BY <1>2, <2>5, BarrierDoneKeepsLists
    <2>6. ASSUME NEW s \in Segs, NEW o \in Objs, allocate_outside_nursery_large(s, o)
          PROVE  PagesInv'
      BY <1>2, <2>6, BeginsAllocating
    <2>7. ASSUME NEW s \in Segs,
                 \/ PagesExist(s)
                 \/ MorePagesNeeded(s)
                 \/ AcquireGrowthLock(s)
                 \/ setup_N_pages(s)
                 \/ PagesMapped(s)
          PROVE  PagesInv'
      BY <1>2, <2>7, AllocatingKeepsLists
    <2>8. ASSUME NEW s \in Segs, NEW o, PopRoot(s, o) \/ Unlink(o)
          PROVE  PagesInv'
      BY <1>2, <2>8, PopRootKeepsLists, UnlinkKeepsLists
    <2>9. ASSUME NEW o, Unlink(o)
          PROVE  PagesInv'
      BY <1>2, <2>9, UnlinkKeepsLists
    <2>10. ASSUME NEW s \in Segs,
                  \/ acquire_privatization_lock(s)
                  \/ push_overflow_objects_from_privatized_pages(s)
                  \/ release_privatization_lock(s)
           PROVE  PagesInv'
      BY <1>2, <2>10, PushingKeepsLists
    <2>11. ASSUME NEW s \in Segs, stm_commit_transaction(s)
           PROVE  PagesInv'
      BY <1>2, <2>11, CommitKeepsLists
    <2>12. ASSUME NEW s \in Segs, NEW level,
                  \/ MinorAtCommit(s)
                  \/ abort_with_mutex(s)
                  \/ stm_collect(s, level)
                  \/ major_collection_if_requested(s)
                  \/ forksupport_child(s)
           PROVE  PagesInv'
      BY <1>2, <2>12, EndingKeepsLists
    <2> QED BY <1>2, <2>1, <2>2, <2>3, <2>4, <2>5, <2>6, <2>7, <2>8, <2>9, <2>10, <2>11,
              <2>12 DEF Next
  <1> QED BY <1>1, <1>2, LockInvariant, PTL DEF Spec

\* The lock byte of an object names the segment whose list of modified
\* objects has it, and nobody's if none has, although a major collection
\* keeps its marks there while transactions are running
\* (c7/stm/gcpage.c:544-611), for any objects, pages and segments.
THEOREM LocksRestored ==
  ASSUME NB_SEGMENTS \in Nat
  PROVE  Spec => []LocksMatchLists
  <1>1. ASSUME PagesInv
        PROVE  LocksMatchLists
    <2> SUFFICES ASSUME NEW o \in Objs
                 PROVE  sys.write_locks[o] =
                          IF \E s \in Segs: o \in sys.seg[s].modified
                          THEN CHOOSE s \in Segs: o \in sys.seg[s].modified ELSE 0
      BY DEF LocksMatchLists
    <2>1. /\ sys.write_locks[o] \in Segs \union {0}
          /\ \A s \in Segs: o \in sys.seg[s].modified <=> sys.write_locks[o] = s
      BY <1>1 DEF PagesInv, ListInv, ObjectInv
    <2>2. CASE \E s \in Segs: o \in sys.seg[s].modified
      <3>1. PICK s \in Segs: o \in sys.seg[s].modified
        BY <2>2
      <3> DEFINE t == CHOOSE u \in Segs: o \in sys.seg[u].modified
      <3>2. t \in Segs /\ o \in sys.seg[t].modified
        BY <2>2
      <3> QED BY <2>1, <2>2, <3>2
    <2>3. CASE ~ \E s \in Segs: o \in sys.seg[s].modified
      BY <2>1, <2>3
    <2> QED BY <2>2, <2>3
  <1> QED BY <1>1, ListInvariant, PTL

=============================================================================
