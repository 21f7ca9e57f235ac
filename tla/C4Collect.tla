----------------------------- MODULE C4Collect -----------------------------
(***************************************************************************)
(* The major collections of c4 (c4/gcpage.c), on top of C4Stm.  A thread   *)
(* stops the others, empties all nurseries, and marks what the stacks and  *)
(* the prebuilt objects lead to.  A chain of public copies becomes one     *)
(* copy again: the contents of the newest go back to the original, whose   *)
(* address never changes.  Transactions that have read what is outdated    *)
(* will abort; the others must not notice.                                 *)
(***************************************************************************)
EXTENDS C4Stm

\* What marking knows: the heap so far, who is marked and who is visited,
\* what is still to be traced (with the thread it belongs to), and where the
\* last visit has led.
Marking(h) == [heap |-> h, marked |-> {}, visited |-> {}, todo |-> {},
               found |-> NULL]
Mark(s, S) == [s EXCEPT !.marked = @ \cup (S \ {NULL})]

\* A protected or private copy: itself, and its original as an address.
visit_nonpublic(s, c, gcp) ==
  IF c \in s.visited THEN [s EXCEPT !.found = c]
  ELSE [Mark(s, {c, s.heap[c].original}) EXCEPT
          !.visited = @ \cup {c}, !.todo = @ \cup {<<c, gcp>>}, !.found = c]

Original(h, c) ==
  IF h[c].original = NULL \/ c \in DOMAIN Prebuilt THEN c ELSE h[c].original
IsPublic(h, c) == c # NULL /\ Is(h, c, "PUBLIC")

\* Where a public chain leads: to its head, a copy or a stub.
ChainHead(h, c) ==
  LET from[e \in Cells] ==
        LET L == h[e].rev[2]
        IN CASE h[e].rev[1] = "pointer" -> from[L]
             [] h[e].rev[1] = "stub" /\ Is(h, L, "PUBLIC") -> from[L]
             [] h[e].rev[1] = "stub" /\ Is(h, L, "PRIVATE_FROM_PROTECTED")
                /\ Is(h, h[L].rev[2], "PUBLIC") -> from[h[L].rev[2]]
             [] OTHER -> e
  IN from[c]

copy_over_original(h, head, original) ==
  [h EXCEPT ![head].tid = @ \cup {"MOVED"},
            ![original] = [h[head] EXCEPT
               !.original = h[original].original,
               !.own = IF Is(h, head, "STUB") THEN @ ELSE h[original].own,
               !.tid = (h[original].tid \ {"STUB"})
                       \cup (h[head].tid \cap {"STUB"})]]

\* The rest of visit_public(), once the head is known.
KeepOriginal(s, head, original) ==
  IF original \in s.visited THEN [s EXCEPT !.found = original]
  ELSE [Mark(s, {original}) EXCEPT
          !.heap = IF head = original THEN @
                   ELSE copy_over_original(@, head, original),
          !.visited = @ \cup {original},
          !.todo = IF Is(s.heap, head, "STUB") THEN @
                   ELSE @ \cup {<<original, NULL>>},
          !.found = original]

\* The head is a stub of a copy that its owner protects: keep that too, and
\* let the owner, gcp, have it directly.
AtStubHead(s, head, original, gcp) ==
  LET L == s.heap[head].rev[2]
      kept == IF Is(s.heap, L, "PRIVATE_FROM_PROTECTED") THEN s
              ELSE visit_nonpublic(s, L, s.heap[head].own)
  IN IF s.heap[head].own = gcp THEN [kept EXCEPT !.found = L]
     ELSE KeepOriginal(kept, head, original)

visit_public(s, c, gcp) ==
  LET o == Original(s.heap, c)
      usable == IsPublic(s.heap, o)
      head == ChainHead(s.heap, c)
      original == IF usable THEN o ELSE head
      t == IF usable THEN s ELSE Mark(s, {o})
  IN IF usable /\ o \in s.visited THEN [s EXCEPT !.found = o]
     ELSE IF s.heap[head].rev[1] = "stub"
     THEN AtStubHead(t, head, original, gcp)
     ELSE KeepOriginal(t, head, original)

visit_take_protected(s, c, gcp) ==
  IF Is(s.heap, c, "PUBLIC") THEN visit_public(s, c, gcp)
  ELSE visit_nonpublic(s, c, gcp)

\* visit_all_objects()
TraceOne(s) ==
  LET item == CHOOSE i \in s.todo : TRUE
      c == item[1]
      rest == [s EXCEPT !.todo = @ \ {item}]
  IN IF s.heap[c].ref = NULL THEN rest
     ELSE LET t == visit_take_protected(rest, s.heap[c].ref, item[2])
          IN [t EXCEPT !.heap[c].ref = t.found]
visit_all_objects(s) ==
  FoldLeft(LAMBDA t, n : IF t.todo = {} THEN t ELSE TraceOne(t), s, heap)

\* mark_roots(): all of S, and what each element has become.
VisitEach(s, S, gcp) ==
  FoldLeft(LAMBDA x, c :
             LET s2 == visit_take_protected(x.s, c, gcp)
             IN [s |-> s2, to |-> [e \in DOMAIN x.to \cup {c} |->
                                     IF e = c THEN s2.found ELSE x.to[e]]],
           [s |-> s, to |-> None], SetToSeq(S))

\* A private copy of a protected object, and its backup, stolen or not.
VisitPair(s, P) ==
  LET B == s.heap[P].rev[2]
      one == visit_nonpublic(s, P, s.heap[P].own)
      two == IF Is(s.heap, B, "PUBLIC") THEN visit_public(one, B, NULL)
             ELSE visit_nonpublic(one, B, s.heap[P].own)
  IN [two EXCEPT !.heap[P].rev = To(two.found)]

\* mark_all_stack_roots(), one thread: the stack, public_to_private with its
\* keys, private_from_protected.
ThreadMarked(m, t) ==
  LET d == m.tx[t]
      stack == VisitEach(m.s, d.roots \cup d.saved, t)
      keys == VisitEach(stack.s, DOMAIN d.public_to_private, NULL)
      copies == FoldLeft(LAMBDA x, R :
                           visit_nonpublic(x, d.public_to_private[R], t),
                         keys.s,
                         SetToSeq({R \in DOMAIN d.public_to_private :
                                     d.public_to_private[R] # 0}))
  IN [s |-> FoldLeft(VisitPair, copies, SetToSeq(d.private_from_protected)),
      tx |-> [m.tx EXCEPT
        ![t].roots = {stack.to[c] : c \in @},
        ![t].saved = {stack.to[c] : c \in @},
        ![t].public_to_private =
           [R \in {keys.to[K] : K \in DOMAIN @} |->
              @[CHOOSE K \in DOMAIN @ : keys.to[K] = R]]]]

\* cleanup_for_thread(): what was read and is outdated now makes the
\* transaction abort.
NowAt(h, R) == IF Is(h, R, "MOVED") THEN h[R].original ELSE R
ReadCopy(h, R) == IF Is(h, R, "PRIVATE_FROM_PROTECTED") THEN h[R].rev[2] ELSE R
HasBeenRead(h, R) ==
  LET c == ReadCopy(h, R) IN ~Is(h, c, "STUB") /\ ~IsPointer(h[c].rev)

ReadsCleanedUp(d, h, visited) ==
  LET read == {NowAt(h, c) : c \in d.list_of_read_objects}
  IN IF d.active # 1 THEN [d EXCEPT !.list_of_read_objects = {}]
     ELSE IF \A R \in read : HasBeenRead(h, R)
     THEN [d EXCEPT !.list_of_read_objects =
             {R \in read : ReadCopy(h, R) \in visited}]
     ELSE [d EXCEPT !.list_of_read_objects = {}, !.active = -1]

\* Pages are swept; public objects with a private copy are flagged again.
Swept(h, marked, keys) ==
  [c \in Cells |->
     IF c \notin marked \cup DOMAIN Prebuilt THEN Free
     ELSE IF c \in keys THEN [h[c] EXCEPT !.tid = @ \cup {"PUBLIC_TO_PRIVATE"}]
     ELSE h[c]]

Present == {t \in Threads : ~At(t, "none")}

\* force_minor_collections(): in every thread, without aborting it.
MinorOf(m, t) ==
  LET d == stm_normalize_stolen_objects(m.tx[t], pd[t].stolen_objects, m.heap)
      young == Young(m.heap, t)
      alive == Survivors(d, t, m.heap)
  IN [heap |-> Emptied(d, t, m.heap, young, alive),
      tx |-> [m.tx EXCEPT ![t] = MinorCollected(d, m.heap, young, alive)]]
force_minor_collections ==
  FoldLeft(MinorOf, [heap |-> heap, tx |-> tx], SetToSeq(Present))

Marked(m) ==
  LET prebuilt == FoldLeft(LAMBDA s, c : visit_public(s, c, NULL),
                           Marking(m.heap), SetToSeq(DOMAIN Prebuilt))
      stacks == FoldLeft(ThreadMarked, [s |-> prebuilt, tx |-> m.tx],
                         SetToSeq(Present))
  IN [stacks EXCEPT !.s = visit_all_objects(@)]

\* ... and t goes on, alone still if it was before.
CollectedAll(m, t) ==
  LET h == m.s.heap
      done == [u \in Threads |-> IF u \notin Present THEN m.tx[u]
                 ELSE ReadsCleanedUp(m.tx[u], h, m.s.visited)]
      flagged == UNION {DOMAIN done[u].public_to_private :
                          u \in {v \in Present : done[v].active >= 0}}
  IN /\ heap' = Swept(h, m.s.marked, flagged)
     /\ IF tx[t].goal = "collect"
        THEN /\ tx' = [done EXCEPT ![t].pc = "safe_point"]
             /\ in_single_thread' = NULL
             /\ rwlock' = [rwlock EXCEPT !.exclusive = NULL]
        ELSE /\ tx' = [done EXCEPT ![t] = AbortNowIfDelayed(@, "run")]
             /\ UNCHANGED <<in_single_thread, rwlock>>

major_collect(t) ==
  /\ At(t, "collect")
  /\ \E m \in {force_minor_collections} : \E n \in {Marked(m)} :
       CollectedAll(n, t)
  /\ pd' = [u \in Threads |-> IF u \notin Present THEN pd[u] ELSE
              [pd[u] EXCEPT !.stolen_objects = {}, !.stolen_young_stubs = {}]]
  /\ UNCHANGED <<global_cur_time, mutex_inevitable, sync_required, history>>

-----------------------------------------------------------------------------
\* stm_major_collect(): a minor collection first; a thread that is alone does
\* not stop the others again.
stm_major_collect(t) ==
  /\ Calls(t, "collect")
  /\ \/ /\ in_single_thread = t
        /\ minor_collect(t, [Called(Normalized(t)) EXCEPT !.goal = "collect_alone"],
                         "collect")
        /\ UNCHANGED <<rwlock, sync_required>>
     \/ /\ in_single_thread # t
        /\ minor_collect(t, [Called(Normalized(t)) EXCEPT !.goal = "collect"],
                         "stop_others")
        /\ UNCHANGED <<rwlock, sync_required>>
  /\ UNCHANGED <<global_cur_time, mutex_inevitable, in_single_thread, history>>

\* stm_start_single_thread()
StopOthers(t) ==
  /\ At(t, "stop_others")
  /\ sync_required' = TRUE
  /\ rwlock' = [rwlock EXCEPT !.shared = @ \ {t}, !.waiting = @ \cup {t}]
  /\ Goto(t, "exclusive_gc")
  /\ UNCHANGED <<heap, pd, global_cur_time, mutex_inevitable, in_single_thread,
                 history>>

\* ... with the exclusive lock: another one collected and made us abort, or
\* all others wait.
OthersStopped(t) ==
  /\ At(t, "exclusive_gc")
  /\ rwlock.shared = {} /\ rwlock.exclusive = NULL
  /\ \/ /\ tx[t].active < 0
        /\ Goto(t, "safe_point")
        /\ rwlock' = [rwlock EXCEPT !.waiting = @ \ {t}]
        /\ UNCHANGED <<sync_required, in_single_thread>>
     \/ /\ tx[t].active > 0
        /\ Goto(t, "collect")
        /\ rwlock' = [rwlock EXCEPT !.exclusive = t, !.waiting = @ \ {t}]
        /\ sync_required' = FALSE
        /\ in_single_thread' = t
  /\ UNCHANGED <<heap, pd, global_cur_time, mutex_inevitable, history>>

MajorCollection(t) ==
  stm_major_collect(t) \/ StopOthers(t) \/ OthersStopped(t) \/ major_collect(t)

NextCollect == Next \/ \E t \in Threads : MajorCollection(t)
SpecCollect == Init /\ [][NextCollect]_vars
=============================================================================
