------------------------------- MODULE C4Stm -------------------------------
(***************************************************************************)
(* The transactions of c4 (c4/et.c, steal.c, nursery.c, stmsync.c).  A     *)
(* transaction runs at a time stamp and never sees anything newer.  An     *)
(* object is a chain of copies: a public copy that was overwritten points  *)
(* to the newer one, or to a stub that names the thread whose protected    *)
(* object it is now; another thread that wants it steals it, that is,      *)
(* makes it public behind the owner's back but under the owner's lock.     *)
(*                                                                         *)
(* A cell is a copy or a stub.  Its flags and its revision are those of    *)
(* the header; a revision is a time, "private" (the number of the          *)
(* transaction of the owner), a lock, a pointer, or a pointer marked as    *)
(* that of a stub.  Stretches under a collection_lock in which no other    *)
(* thread takes part are one action.  A disabled action is a spin loop or  *)
(* a wait.  Definitions marked "faulty" are used nowhere: each is the one  *)
(* below it with a plausible bug.                                          *)
(***************************************************************************)
EXTENDS Integers, Sequences, FiniteSets, SequencesExt

CONSTANTS
  Threads, Objects, Values, NULL,
  Prebuilt,     \* the objects that exist from the start, in this order
  NB_CELLS,     \* bound: copies and stubs
  Programs,     \* what the threads may run: transactions, each of them
                \* a sequence of calls
  STACK,        \* bound: copies a program keeps on its stack
  NURSERY       \* size of the nursery of a thread, in copies

Cells == 1..NB_CELLS

ASSUME C4Assumption ==
  /\ Prebuilt \in Seq(Objects) /\ Len(Prebuilt) <= NB_CELLS
  /\ \A i, j \in DOMAIN Prebuilt : Prebuilt[i] = Prebuilt[j] => i = j
  /\ NB_CELLS \in Nat
  /\ STACK \in Nat /\ NURSERY \in Nat
  /\ \A p \in Programs : p \in [Threads -> Seq(Seq(
       ({"read"} \X Objects) \cup ({"write", "allocate"} \X Objects \X Values)
       \cup ({"store"} \X Objects \X Objects)
       \cup {<<c>> : c \in {"abort", "begin_inevitable", "inevitable",
                            "single_thread", "leave", "collect"}}))]
  /\ NULL \notin Objects \cup Values \cup Threads \cup Cells

VARIABLES
  heap,             \* the cells
  tx,               \* tx_descriptor: what only its thread touches
  pd,               \* tx_public_descriptor: what needs its collection_lock
  global_cur_time,
  mutex_inevitable, \* its owner
  rwlock,           \* rwlock_shared: who has it, how, and who wants it
  sync_required,
  in_single_thread,
  history           \* history: committed contents of each object, with times

syncVars == <<mutex_inevitable, rwlock, sync_required, in_single_thread>>
vars == <<heap, tx, pd, global_cur_time, syncVars, history>>

Time(n)   == <<"time", n>>
Private   == <<"private", 0>>
Lock(t)   == <<"lock", t>>
To(c)     == <<"pointer", c>>
StubTo(c) == <<"stub", c>>
Dead      == <<"dead", 0>>       \* an address of a nursery that was reset

Free == [obj |-> NULL, tid |-> {}, rev |-> Dead, val |-> NULL, ref |-> NULL,
         own |-> NULL, original |-> NULL]
Rev(h, c)       == h[c].rev
IsPointer(v)    == v[1] \in {"pointer", "stub"}
Is(h, c, flag)  == flag \in h[c].tid
\* The lowest free cells.
Fresh(h) == CHOOSE c \in Cells : /\ h[c] = Free
                                 /\ \A e \in 1..(c-1) : h[e] # Free
HasRoom(h, n) == Cardinality({c \in Cells : h[c] = Free}) >= n

\* What a program finds in a copy: data, and the object it refers to.
Contents(h, c) ==
  <<h[c].val, IF h[c].ref = NULL THEN NULL ELSE h[h[c].ref].obj>>
Unread == [o \in Objects |-> NULL]
None == [x \in {} |-> NULL]

Idle == [pc |-> "idle", goal |-> NULL, stores |-> NULL, ptr |-> NULL, todo |-> {},
         active |-> 0, start_time |-> 0, cur_time |-> 0,
         list_of_read_objects |-> {}, recent_reads_cache |-> {},
         public_to_private |-> None, private_from_protected |-> {},
         public_with_young_copy |-> {}, old_objects_to_trace |-> {},
         roots |-> {}, saved |-> {}, seen |-> Unread,
         code |-> <<>>, again |-> <<>>]

Init ==
  /\ heap = [c \in Cells |->
                IF c \notin DOMAIN Prebuilt THEN Free
                ELSE [obj |-> Prebuilt[c], tid |-> {"OLD", "PUBLIC"},
                      rev |-> Time(1), val |-> NULL, ref |-> NULL,
                      own |-> NULL, original |-> NULL]]
  /\ history = [o \in Objects |->
                   {[time |-> 1, is |-> <<NULL, NULL>>] :
                      c \in {e \in DOMAIN Prebuilt : Prebuilt[e] = o}}]
  /\ \E p \in Programs :
       tx = [t \in Threads |-> [Idle EXCEPT !.code = p[t]]]
  /\ pd = [t \in Threads |-> [collection_lock |-> FALSE, stolen_objects |-> {},
                              stolen_young_stubs |-> {}]]
  /\ global_cur_time = 2
  /\ mutex_inevitable = NULL
  /\ rwlock = [shared |-> {}, exclusive |-> NULL, waiting |-> {}]
  /\ sync_required = FALSE
  /\ in_single_thread = NULL

\* The copies in the nursery of a thread.
Young(h, t) == {c \in Cells : /\ h[c].own = t /\ h[c].obj # NULL
                              /\ h[c].tid \cap {"OLD", "STUB"} = {}}
IsFull(h, t) == Cardinality(Young(h, t)) >= NURSERY

At(t, p) == tx[t].pc = p
\* The thread of a transaction that has the floor, and is in no call.
Running(t) == At(t, "run") /\ in_single_thread \in {NULL, t}
Goto(t, p) == tx' = [tx EXCEPT ![t].pc = p]
\* The program: what t calls next, and that it has.
Call(t) == IF tx[t].code[1] = <<>> THEN <<"commit">> ELSE Head(tx[t].code[1])
Calls(t, name) == Running(t) /\ Call(t)[1] = name
Called(d) == [d EXCEPT !.code[1] = Tail(@)]
HasNext(t) == tx[t].code # <<>>
Writing == {"write", "store"}

is_private(h, t, c) == \/ h[c].rev = Private /\ h[c].own = t
                       \/ Is(h, c, "PRIVATE_FROM_PROTECTED")

-----------------------------------------------------------------------------
(* Stealing: a public copy is made of what another thread protects.        *)

StolenBackups(stolen) == {s \in stolen : s[2] # NULL}
\* What the owner still has to be told of: public copies with their private
\* one, and young objects that are public now.
stm_normalize_stolen_objects(d, stolen, h) ==
  LET backups == StolenBackups(stolen)
      inserted == {s[1] : s \in backups}
  IN [d EXCEPT
        !.recent_reads_cache = @ \ {s[1] : s \in stolen},
        !.public_to_private = [c \in DOMAIN @ \cup inserted |->
             IF c \in inserted THEN (CHOOSE s \in backups : s[1] = c)[2]
                               ELSE @[c]],
        !.list_of_read_objects = @ \cup inserted,
        !.public_with_young_copy =
             @ \cup {s[1] : s \in {r \in backups : ~Is(h, r[2], "OLD")}}]
Normalized(t) ==
  stm_normalize_stolen_objects(tx[t], pd[t].stolen_objects, heap)

\* A stolen copy may only refer to objects that everybody may see.
NeedsStub(h, c) == c # NULL /\ ~({"PUBLIC", "OLD"} \subseteq h[c].tid)
StubOf(h, c, t) ==
  [obj |-> h[c].obj, tid |-> {"OLD", "PUBLIC", "STUB"}, rev |-> StubTo(c),
   val |-> NULL, ref |-> NULL, own |-> t,
   original |-> IF h[c].original = NULL /\ Is(h, c, "OLD") THEN c
                ELSE h[c].original]
\* A young copy without an original gets the stub for one.
WithOriginal(h, c, stub) ==
  IF h[c].original # NULL \/ Is(h, c, "OLD") THEN h
  ELSE [e \in Cells |->
          IF e = c \/ (Is(h, c, "PRIVATE_FROM_PROTECTED") /\ h[c].rev = To(e))
          THEN [h[e] EXCEPT !.original = stub] ELSE h[e]]

\* The owner must move the stub with the young object.
MustList(h, target) == NeedsStub(h, target) /\ ~Is(h, target, "OLD")

\* The copy that becomes public, P -> L, with the heap before it does.
\* pair: what goes to stolen_objects.
MakePublic(P, L, t, h, pair) ==
  LET target == h[L].ref
      stub == Fresh(h)
      public == [h EXCEPT ![L].tid = @ \cup {"PUBLIC"}]
  IN /\ NeedsStub(h, target) => HasRoom(h, 1)
     /\ heap' = IF NeedsStub(h, target)
                THEN [WithOriginal(public, target, stub) EXCEPT
                        ![stub] = StubOf(h, target, t),
                        ![L].ref = stub, ![P].rev = To(L)]
                ELSE [public EXCEPT ![P].rev = To(L)]
     /\ pd' = [pd EXCEPT
                 ![t].stolen_objects = @ \cup pair,
                 ![t].stolen_young_stubs =
                    IF MustList(h, target)
                    THEN @ \cup {stub} ELSE @]

\* stm_steal_stub(P), under the collection_lock of the owner of the stub.
stm_steal_stub(P) ==
  LET t == heap[P].own
      L == heap[P].rev[2]
      B == heap[L].rev[2]
  IN /\ ~pd[t].collection_lock
     /\ \/ \* un-stubbed while waiting for the lock
           /\ heap[P].rev[1] # "stub"
           /\ UNCHANGED <<heap, pd>>
        \/ /\ heap[P].rev[1] = "stub"
           /\ Is(heap, L, "PRIVATE_FROM_PROTECTED")
           /\ IF Is(heap, B, "PUBLIC_TO_PRIVATE")
              THEN /\ heap' = [heap EXCEPT ![P].rev = To(B)]
                   /\ UNCHANGED pd
              ELSE MakePublic(P, B, t,
                     [heap EXCEPT ![B].tid = (@ \ {"BACKUP_COPY"})
                                             \cup {"PUBLIC_TO_PRIVATE"},
                                  ![B].original = IF heap[L].original = NULL
                                                     /\ Is(heap, L, "OLD")
                                                  THEN L ELSE @],
                     {<<B, L>>})
        \/ \* already stolen
           /\ heap[P].rev[1] = "stub"
           /\ ~Is(heap, L, "PRIVATE_FROM_PROTECTED")
           /\ Is(heap, L, "PUBLIC")
           /\ heap' = [heap EXCEPT ![P].rev = IF Is(heap, L, "MOVED")
                                              THEN heap[L].rev ELSE To(L)]
           /\ UNCHANGED pd
        \/ /\ heap[P].rev[1] = "stub"
           /\ heap[L].tid \cap {"PRIVATE_FROM_PROTECTED", "PUBLIC"} = {}
           /\ IF Is(heap, L, "OLD") THEN MakePublic(P, L, t, heap, {})
              ELSE \* out of the nursery of its owner
                   /\ HasRoom(heap, 1)
                   /\ \E old \in {Fresh(heap)} :
                        MakePublic(P, old, t,
                          [heap EXCEPT
                             ![old] = [heap[L] EXCEPT !.tid = @ \cup {"OLD"}],
                             ![L].rev = To(old),
                             ![L].original = IF @ = NULL THEN old ELSE @,
                             ![L].tid = @ \cup {"PUBLIC", "MOVED"}],
                          {<<L, NULL>>})

-----------------------------------------------------------------------------
(* The read barrier.                                                       *)

\* The copies that revisions lead to, one after the other, up to a stub or
\* the newest.
Chain(h, c) ==
  LET from[e \in Cells] == IF h[e].rev[1] = "pointer"
                           THEN <<e>> \o from[h[e].rev[2]] ELSE <<e>>
  IN from[c]

\* P_prev->P->v  =>  P_prev->v
Shortened(h, chain) ==
  LET skips == {i \in 1..(Len(chain) - 2) : i % 2 = 1}
  IN [c \in Cells |->
        IF \E i \in skips : chain[i] = c
        THEN [h[c] EXCEPT !.rev =
                To(chain[(CHOOSE i \in skips : chain[i] = c) + 2])]
        ELSE h[c]]

\* What a thread can lay its hands on: prebuilt objects, and its stack.
Handles(t) == DOMAIN Prebuilt \cup tx[t].roots
HandlesOf(t, o) == {c \in Handles(t) : heap[c].obj = o}

\* The stack afterwards, if the program may keep the copies in S.
Kept(d, S) ==
  LET all == (d.roots \cup S) \ {NULL}
  IN IF Cardinality(all) <= STACK THEN {all} ELSE kSubset(STACK, all)

\* The barrier returns P; a program that reads loads the reference as well.
Obtained(d, t, P, roots) ==
  LET o == heap[P].obj IN
  [d EXCEPT !.pc = IF d.goal \in Writing THEN "localize" ELSE "run",
            !.ptr = IF d.goal \in Writing THEN P ELSE NULL,
            !.roots = roots,
            !.seen[o] = IF @ = NULL /\ ~is_private(heap, t, P)
                        THEN Contents(heap, P) ELSE @]
Return(t, d, P) ==
  \E roots \in Kept(d, {P, heap[P].ref}) :
    tx' = [tx EXCEPT ![t] = Obtained(d, t, P, roots)]

\* The write barrier on a private object does without the read barrier.
InPlace(d, G) == /\ d.pc = "run" /\ d.goal \in Writing
                 /\ Is(heap, G, "PRIVATE_FROM_PROTECTED")

\* stm_DirectReadBarrier(G), up to the answer or to a stub.
FromPrivate(t, d, G) ==
  /\ \/ heap[G].rev = Private /\ heap[G].own = t
     \/ G \in d.recent_reads_cache
     \/ InPlace(d, G)
  /\ Return(t, d, G)
  /\ UNCHANGED <<heap, pd>>

FromBackup(t, d, G) ==
  /\ Is(heap, G, "PRIVATE_FROM_PROTECTED") /\ ~InPlace(d, G)
  /\ IF IsPointer(heap[heap[G].rev[2]].rev)
     THEN Goto(t, "abort")     \* stolen, and modified since
     ELSE Return(t, [d EXCEPT !.recent_reads_cache = @ \cup {G}], G)
  /\ UNCHANGED <<heap, pd>>

Took(d, P) == [d EXCEPT !.list_of_read_objects = @ \cup {P},
                        !.recent_reads_cache = @ \cup {P}]
FromProtected(t, d, G) ==
  /\ heap[G].tid \cap {"PUBLIC", "PRIVATE_FROM_PROTECTED"} = {}
  /\ ~is_private(heap, t, G)
  /\ Return(t, Took(d, G), G)
  /\ UNCHANGED <<heap, pd>>

\* Faulty: a copy that is too recent is taken.
TooRecentTaken(v, start_time) == FALSE
TooRecent(v, start_time) == v[1] = "time" /\ v[2] > start_time

\* The end P of the chain is no stub.
AtHead(t, d, G, P) ==
  LET key == Is(heap, P, "PUBLIC_TO_PRIVATE")
      mine == key /\ P \in DOMAIN d.public_to_private
      untold == key /\ ~mine /\ pd[t].stolen_objects # {}
      hit == P # G /\ P \in d.recent_reads_cache
  IN \/ /\ mine \/ hit
        /\ Return(t, d, IF hit THEN P ELSE d.public_to_private[P])
        /\ UNCHANGED pd
     \/ /\ ~hit /\ untold
        /\ tx' = [tx EXCEPT ![t] =
             [stm_normalize_stolen_objects(d, pd[t].stolen_objects, heap)
                EXCEPT !.pc = "barrier", !.ptr = P]]
        /\ pd' = [pd EXCEPT ![t].stolen_objects = {}]
     \/ /\ ~mine /\ ~untold
        /\ heap[P].rev[1] # "lock"
        /\ IF TooRecent(heap[P].rev, d.start_time)
           THEN \* ValidateNow()
                /\ tx' = [tx EXCEPT ![t] =
                     LET n == stm_normalize_stolen_objects(d,
                                pd[t].stolen_objects, heap) IN
                     [n EXCEPT !.pc = "validate", !.ptr = P,
                               !.start_time = 2 * (global_cur_time \div 2),
                               !.todo = n.list_of_read_objects]]
                /\ pd' = [pd EXCEPT ![t].stolen_objects = {}]
           ELSE Return(t, Took(d, P), P) /\ UNCHANGED pd

AtStub(t, d, P) ==
  LET L == heap[P].rev[2] IN
  /\ tx' = [tx EXCEPT ![t] =
       IF heap[P].own # t THEN [d EXCEPT !.pc = "steal", !.ptr = P]
       ELSE [d EXCEPT !.pc = "barrier", !.ptr = L]]
  /\ UNCHANGED pd

FromPublic(t, d, G) ==
  /\ Is(heap, G, "PUBLIC")
  /\ \E chain \in {Chain(heap, G)} :
       /\ heap' = Shortened(heap, chain)
       /\ IF heap[Last(chain)].rev[1] = "stub" THEN AtStub(t, d, Last(chain))
                                               ELSE AtHead(t, d, G, Last(chain))

ReadBarrier(t, d, G) ==
  FromPrivate(t, d, G) \/ FromBackup(t, d, G) \/ FromProtected(t, d, G)
  \/ FromPublic(t, d, G)

\* A value, or a reference.
ToStore(t) == CASE Call(t)[1] = "read" -> {NULL}
                [] Call(t)[1] = "write" -> {Call(t)[3]}
                [] Call(t)[1] = "store" -> HandlesOf(t, Call(t)[3])
stm_read_barrier(t) ==
  /\ Running(t) /\ Call(t)[1] \in {"read"} \cup Writing
  /\ \E G \in HandlesOf(t, Call(t)[2]), stores \in ToStore(t) :
       ReadBarrier(t, [Called(tx[t]) EXCEPT !.goal = Call(t)[1],
                                            !.stores = stores], G)
  /\ UNCHANGED <<global_cur_time, syncVars, history>>
\* The program has lost sight of the object.
NoHandle(t) ==
  /\ Running(t) /\ Call(t)[1] \in {"read"} \cup Writing
  /\ \/ HandlesOf(t, Call(t)[2]) = {}
     \/ ToStore(t) = {}
  /\ tx' = [tx EXCEPT ![t] = Called(@)]
  /\ UNCHANGED <<heap, pd, global_cur_time, syncVars, history>>
Restart(t) ==
  /\ At(t, "barrier")
  /\ ReadBarrier(t, tx[t], tx[t].ptr)
  /\ UNCHANGED <<global_cur_time, syncVars, history>>
Steal(t) ==
  /\ At(t, "steal")
  /\ stm_steal_stub(tx[t].ptr)
  /\ Goto(t, "barrier")
  /\ UNCHANGED <<global_cur_time, syncVars, history>>

-----------------------------------------------------------------------------
(* The write barrier, and the store that follows.                          *)

\* Old objects that may refer to young ones are listed.
record_write_barrier(d, h, P) ==
  IF Is(h, P, "WRITE_BARRIER")
  THEN [d EXCEPT !.old_objects_to_trace = @ \cup {P}] ELSE d
Listed(h, P) == [h EXCEPT ![P].tid = @ \ {"WRITE_BARRIER"}]

\* The program stores data or a reference that it holds.
Stored(h, P, d) == IF d.goal = "write" THEN [h EXCEPT ![P].val = d.stores]
                                     ELSE [h EXCEPT ![P].ref = d.stores]
Write(t, d, h, P) ==
  /\ \E roots \in Kept(d, {P}) :
       tx' = [tx EXCEPT ![t] = [record_write_barrier(d, h, P) EXCEPT
                                 !.pc = "run", !.ptr = NULL, !.roots = roots]]
  /\ heap' = Stored(Listed(h, P), P, d)

WritePrivate(t) ==
  /\ At(t, "localize")
  /\ is_private(heap, t, tx[t].ptr)
  /\ Write(t, tx[t], heap, tx[t].ptr)
  /\ UNCHANGED <<pd, global_cur_time, syncVars, history>>

\* A backup of a protected object, which becomes private in place.
LocalizeProtected(t) ==
  LET P == tx[t].ptr
      B == Fresh(heap) IN
  /\ At(t, "localize")
  /\ ~is_private(heap, t, P) /\ ~Is(heap, P, "PUBLIC")
  /\ HasRoom(heap, 1)
  /\ Write(t, [Normalized(t) EXCEPT !.private_from_protected = @ \cup {P}],
       [heap EXCEPT ![B] = [heap[P] EXCEPT
                              !.tid = @ \cup {"OLD", "BACKUP_COPY"},
                              !.original = IF @ = NULL /\ Is(heap, P, "OLD")
                                           THEN P ELSE @],
                    ![P].tid = @ \cup {"PRIVATE_FROM_PROTECTED"},
                    ![P].rev = To(B)], P)
  /\ pd' = [pd EXCEPT ![t].stolen_objects = {}]
  /\ UNCHANGED <<global_cur_time, syncVars, history>>

\* A private copy of a public object, old if the nursery is full.  R may
\* have become public since the read barrier.
LocalizePublic(t) ==
  LET G == tx[t].ptr
      R == IF Is(heap, G, "MOVED") THEN heap[G].rev[2] ELSE G
      L == Fresh(heap)
      d == Normalized(t) IN
  /\ At(t, "localize")
  /\ Is(heap, G, "PUBLIC")
  /\ HasRoom(heap, 1)
  /\ \E old \in {IF IsFull(heap, t) THEN {"OLD"} ELSE {}} :
       Write(t,
         [d EXCEPT
            !.public_to_private = [c \in DOMAIN @ \cup {R} |->
                                     IF c = R THEN L ELSE @[c]],
            !.recent_reads_cache = @ \ {R},
            !.public_with_young_copy = IF old = {} THEN @ \cup {R} ELSE @,
            !.old_objects_to_trace = IF old = {} THEN @ ELSE @ \cup {L}],
         [heap EXCEPT ![R].tid = @ \cup {"PUBLIC_TO_PRIVATE"},
                      ![L] = [heap[R] EXCEPT
                                !.tid = old, !.rev = Private, !.own = t,
                                !.original = IF @ = NULL THEN R ELSE @]], L)
  /\ pd' = [pd EXCEPT ![t].stolen_objects = {}]
  /\ UNCHANGED <<global_cur_time, syncVars, history>>

stm_WriteBarrier(t) ==
  WritePrivate(t) \/ LocalizeProtected(t) \/ LocalizePublic(t)

\* A new object.
stm_allocate(t) ==
  /\ Calls(t, "allocate")
  /\ HasRoom(heap, 1) /\ ~IsFull(heap, t)
  /\ \E P \in {Fresh(heap)}, o \in {Call(t)[2]}, v \in {Call(t)[3]} :
       /\ heap' = [heap EXCEPT ![P] =
            [obj |-> o, tid |-> {}, rev |-> Private, val |-> v, ref |-> NULL,
             own |-> t, original |-> NULL]]
       /\ \E roots \in Kept(tx[t], {P}) :
            tx' = [tx EXCEPT ![t] = [Called(@) EXCEPT !.roots = roots]]
  /\ UNCHANGED <<pd, global_cur_time, syncVars, history>>

-----------------------------------------------------------------------------
(* Validation: have the objects read been overwritten?                     *)

\* A backup that was stolen, a young copy that was: look at the public one.
PublicCopy(h, R) ==
  LET next == h[R].rev[2] IN
  IF h[R].rev[1] = "pointer"
     /\ \/ Is(h, R, "PRIVATE_FROM_PROTECTED") /\ Is(h, next, "PUBLIC")
        \/ {"PUBLIC", "MOVED"} \subseteq h[R].tid
  THEN next ELSE R
Outdated(h, R) == /\ IsPointer(h[PublicCopy(h, R)].rev)
                  /\ ~Is(h, PublicCopy(h, R), "PRIVATE_FROM_PROTECTED")

\* ValidateDuringTransaction(), one object.
Validate(t) ==
  \E R \in tx[t].todo : LET v == heap[PublicCopy(heap, R)].rev IN
    /\ At(t, "validate")
    /\ v[1] = "lock" => tx[t].goal = "commit"
    /\ IF Outdated(heap, R) \/ (v[1] = "lock" /\ v # Lock(t))
       THEN /\ Goto(t, "abort")
            /\ IF tx[t].goal = "inevitable"
               THEN /\ global_cur_time' = global_cur_time - 1
                    /\ mutex_inevitable' = NULL
               ELSE UNCHANGED <<global_cur_time, mutex_inevitable>>
       ELSE /\ tx' = [tx EXCEPT ![t].todo = @ \ {R}]
            /\ UNCHANGED <<global_cur_time, mutex_inevitable>>
    /\ UNCHANGED <<heap, pd, rwlock, sync_required, in_single_thread, history>>

Validated(t) ==
  /\ At(t, "validate") /\ tx[t].todo = {}
  /\ tx' = [tx EXCEPT ![t] =
       CASE tx[t].goal \in {"read"} \cup Writing -> [@ EXCEPT !.pc = "barrier"]
         [] tx[t].goal = "inevitable" -> [@ EXCEPT !.pc = "run", !.active = 2]
         [] OTHER -> [@ EXCEPT !.pc = "commit"]]
  /\ UNCHANGED <<heap, pd, global_cur_time, syncVars, history>>

-----------------------------------------------------------------------------
(* Begin and end.                                                          *)

CanShare == rwlock.exclusive = NULL /\ rwlock.waiting = {}
Shares(t) == rwlock' = [rwlock EXCEPT !.shared = @ \cup {t}]
Unshares(t) == rwlock' = [rwlock EXCEPT !.shared = @ \ {t}]

Begun(t, active) ==
  [tx[t] EXCEPT !.again = tx[t].code,
                !.code[1] = SelectSeq(@, LAMBDA c : c[1] # "begin_inevitable"),
                !.pc = "run", !.active = active, !.goal = NULL,
                !.start_time = 2 * (global_cur_time \div 2),
                !.recent_reads_cache = {}, !.seen = Unread,
                !.saved = tx[t].roots]

stm_begin_transaction(t) ==
  /\ At(t, "idle") /\ HasNext(t) /\ Call(t)[1] # "begin_inevitable"
  /\ CanShare /\ Shares(t)
  /\ tx' = [tx EXCEPT ![t] = Begun(t, 1)]
  /\ UNCHANGED <<heap, pd, global_cur_time, mutex_inevitable, sync_required,
                 in_single_thread, history>>

\* Without collection_lock: what is private becomes what it was.
CancelLocks(t) ==
  [c \in Cells |->
     LET keys == DOMAIN tx[t].public_to_private
         owner == {R \in keys : tx[t].public_to_private[R] = c}
     IN IF c \in keys /\ heap[c].rev = Lock(t)
        THEN [heap[c] EXCEPT !.rev = heap[tx[t].public_to_private[c]].rev]
        ELSE IF \E R \in owner : heap[R].rev = Lock(t)
        THEN [heap[c] EXCEPT !.rev =
                IF Is(heap, c, "PRIVATE_FROM_PROTECTED")
                THEN To(CHOOSE R \in owner : TRUE) ELSE Private]
        ELSE heap[c]]

\* Faulty: what the transaction wrote stays.
ContentsKept(h, P) ==
  IF Is(h, h[P].rev[2], "PUBLIC")
  THEN [h[P] EXCEPT !.tid = (@ \ {"PRIVATE_FROM_PROTECTED"}) \cup {"PUBLIC"}
             \cup IF Is(h, P, "OLD") THEN {} ELSE {"MOVED"}]
  ELSE [h[P] EXCEPT !.tid = @ \ {"PRIVATE_FROM_PROTECTED"},
                    !.rev = h[h[P].rev[2]].rev]
\* A backup that was stolen is the object now.
Restored(h, P) ==
  IF Is(h, h[P].rev[2], "PUBLIC")
  THEN [h[P] EXCEPT !.tid = (@ \ {"PRIVATE_FROM_PROTECTED"}) \cup {"PUBLIC"}
             \cup IF Is(h, P, "OLD") THEN {} ELSE {"MOVED"}]
  ELSE [h[h[P].rev[2]] EXCEPT !.tid = h[P].tid \ {"PRIVATE_FROM_PROTECTED"},
                              !.original = h[P].original]
AbortPrivateFromProtected(d, t, h) ==
  [c \in Cells |->
     IF c \in d.private_from_protected THEN Restored(h, c)
     ELSE IF \/ \E P \in d.private_from_protected :
                  h[P].rev = To(c) /\ ~Is(h, c, "PUBLIC")
             \/ h[c].rev = Private /\ h[c].own = t     \* unreachable now
     THEN Free ELSE h[c]]

AbortTransaction(t) ==
  /\ At(t, "abort")
  /\ LET d == IF pd[t].collection_lock THEN tx[t] ELSE Normalized(t)
         h == IF pd[t].collection_lock THEN CancelLocks(t) ELSE heap
     IN /\ heap' = AbortPrivateFromProtected(d, t, h)
        /\ tx' = [tx EXCEPT ![t] =
             [Idle EXCEPT !.roots = d.saved, !.code = d.again,
                !.public_with_young_copy = d.public_with_young_copy,
                !.old_objects_to_trace =
                   {c \in d.old_objects_to_trace : h[c].rev # Private}]]
  /\ pd' = [pd EXCEPT ![t].stolen_objects = {}, ![t].collection_lock = FALSE]
  /\ Unshares(t)
  /\ UNCHANGED <<global_cur_time, mutex_inevitable, sync_required,
                 in_single_thread, history>>

\* stm_abort_and_retry()
stm_abort_and_retry(t) ==
  /\ Calls(t, "abort") /\ tx[t].active = 1
  /\ \/ Goto(t, "abort")
     \/ tx' = [tx EXCEPT ![t] = Called(@)]     \* or the program does not
  /\ UNCHANGED <<heap, pd, global_cur_time, syncVars, history>>

StartCommit(t, d, goal) ==
  /\ tx' = [tx EXCEPT ![t] = [d EXCEPT
               !.pc = "acquire", !.goal = goal, !.ptr = NULL,
               !.todo = DOMAIN d.public_to_private]]
  /\ pd' = [pd EXCEPT ![t].stolen_objects = {}, ![t].collection_lock = TRUE]

CommitTransaction(t) ==
  /\ Calls(t, "commit") /\ in_single_thread # t
  /\ StartCommit(t, Normalized(t), "commit")
  /\ UNCHANGED <<heap, global_cur_time, syncVars, history>>

Lowest(S) == CHOOSE c \in S : \A e \in S : c <= e

\* AcquireLocks(), one object; in the order of the addresses.
AcquireLocks(t) ==
  LET R == Lowest(tx[t].todo)
      L == tx[t].public_to_private[R] IN
  /\ At(t, "acquire") /\ tx[t].todo # {}
  /\ \/ /\ IsPointer(heap[R].rev)
        /\ Goto(t, "abort") /\ UNCHANGED heap
     \/ /\ heap[R].rev[1] = "time"
        /\ heap' = [heap EXCEPT ![R].rev = Lock(t), ![L].rev = heap[R].rev]
        /\ tx' = [tx EXCEPT ![t].todo = @ \ {R}]
  /\ UNCHANGED <<pd, global_cur_time, syncVars, history>>

\* Faulty: what was read is not validated if the time could be taken.
SkipValidation(cur_time, start_time) == TRUE
Unchanged(cur_time, start_time) == cur_time = start_time

\* Faulty: the commit does not wait for an inevitable transaction.
NeverOdd(time) == FALSE
OtherInevitable(time) == time % 2 = 1

AdvanceTime(t) ==
  /\ At(t, "acquire") /\ tx[t].todo = {}
  /\ \/ /\ tx[t].active = 2
        /\ global_cur_time' = global_cur_time + 1
        /\ tx' = [tx EXCEPT ![t].cur_time = tx[t].start_time, ![t].pc = "commit"]
        /\ mutex_inevitable' = IF tx[t].goal = "partial" THEN t ELSE NULL
        /\ UNCHANGED <<heap, pd, rwlock>>
     \/ /\ tx[t].active = 1 /\ ~OtherInevitable(global_cur_time)
        /\ global_cur_time' = global_cur_time + 2
        /\ tx' = [tx EXCEPT ![t] =
             IF Unchanged(global_cur_time, tx[t].start_time)
             THEN [@ EXCEPT !.cur_time = global_cur_time, !.pc = "commit"]
             ELSE [@ EXCEPT !.cur_time = global_cur_time, !.pc = "validate",
                            !.todo = tx[t].list_of_read_objects]]
        /\ UNCHANGED <<heap, pd, mutex_inevitable, rwlock>>
     \/ \* another transaction is inevitable: inev_mutex_acquire()
        /\ tx[t].active = 1 /\ OtherInevitable(global_cur_time)
        /\ heap' = CancelLocks(t)
        /\ pd' = [pd EXCEPT ![t].collection_lock = FALSE]
        /\ Goto(t, "inev_mutex") /\ Unshares(t)
        /\ UNCHANGED <<global_cur_time, mutex_inevitable>>
  /\ UNCHANGED <<sync_required, in_single_thread, history>>

\* The copies that are new with this commit.
NewCopies(t) ==
  {tx[t].public_to_private[R] : R \in DOMAIN tx[t].public_to_private}
  \cup tx[t].private_from_protected
  \cup {c \in Cells : heap[c].rev = Private /\ heap[c].own = t}

\* Backups of private_from_protected objects that were not stolen.
Backups(t) == {heap[P].rev[2] : P \in
  {c \in tx[t].private_from_protected : heap[c].rev[1] = "pointer"}}

\* CommitPrivateFromProtected(), the new private_rev_num, and the first half
\* of UpdateChainHeads(), all of it unseen: a stub for each public object.
Commit(t) ==
  LET keys == DOMAIN tx[t].public_to_private
      copies == NewCopies(t)
      now == tx[t].cur_time + 1
      fresh == {c \in Cells : heap[c].rev = Private /\ heap[c].own = t}
      \* the stub for each key, in the order of free cells
      stub == [R \in keys |-> CHOOSE c \in Cells :
                 /\ heap[c] = Free
                 /\ Cardinality({e \in 1..(c-1) : heap[e] = Free})
                    = Cardinality({e \in keys : e < R})]
  IN /\ At(t, "commit")
     /\ HasRoom(heap, Cardinality(keys))
     /\ heap' = [c \in Cells |->
          IF \E R \in keys : stub[R] = c
          THEN StubOf(heap,
                 tx[t].public_to_private[CHOOSE R \in keys : stub[R] = c], t)
          ELSE IF c \in Backups(t) THEN Free
          ELSE IF c \in fresh THEN [heap[c] EXCEPT !.rev = Time(0)]
          ELSE IF c \in copies
          THEN [heap[c] EXCEPT !.rev = Time(now),
                               !.tid = @ \ {"PRIVATE_FROM_PROTECTED"}]
          ELSE heap[c]]
     /\ tx' = [tx EXCEPT ![t].pc = "publish", ![t].todo = keys,
                         ![t].public_to_private = stub,
                         ![t].private_from_protected = {},
                         ![t].list_of_read_objects = {}]
     /\ history' = [o \in Objects |-> history[o] \cup
             {[time |-> now, is |-> Contents(heap, c)] :
                c \in {e \in copies : heap[e].obj = o}}]
     /\ UNCHANGED <<pd, global_cur_time, syncVars>>

\* ... and the second half, which also unlocks.
UpdateChainHeads(t) ==
  LET R == Lowest(tx[t].todo) IN
  /\ At(t, "publish") /\ tx[t].todo # {}
  /\ heap' = [heap EXCEPT ![R].rev = To(tx[t].public_to_private[R])]
  /\ tx' = [tx EXCEPT ![t].todo = @ \ {R}]
  /\ UNCHANGED <<pd, global_cur_time, syncVars, history>>

\* The program keeps its stack, or has popped all of it.
CommitDone(t) ==
  /\ At(t, "publish") /\ tx[t].todo = {}
  /\ \E roots \in {{}, tx[t].roots} :
       tx' = [tx EXCEPT ![t] =
         [Idle EXCEPT !.code = Tail(tx[t].code),
            !.pc = CASE tx[t].goal = "partial" -> "resume"
                     [] tx[t].goal = "leave" -> "leave" [] OTHER -> "idle",
            !.public_with_young_copy = tx[t].public_with_young_copy,
            !.old_objects_to_trace = tx[t].old_objects_to_trace,
            !.roots = IF tx[t].goal = "leave" THEN {} ELSE roots]]
  /\ pd' = [pd EXCEPT ![t].collection_lock = FALSE]
  /\ IF tx[t].goal = "partial" THEN UNCHANGED rwlock ELSE Unshares(t)
  /\ UNCHANGED <<heap, global_cur_time, mutex_inevitable, sync_required,
                 in_single_thread, history>>

-----------------------------------------------------------------------------
(* Inevitable transactions.                                                *)

\* inev_mutex_acquire(): the shared lock is given up for the wait.
BecomeInevitable(t) ==
  /\ Calls(t, "inevitable") /\ tx[t].active = 1
  /\ tx' = [tx EXCEPT ![t] = [Called(@) EXCEPT !.pc = "inev_mutex",
                                              !.goal = "inevitable"]]
  /\ Unshares(t)
  /\ UNCHANGED <<heap, pd, global_cur_time, mutex_inevitable, sync_required,
                 in_single_thread, history>>

stm_begin_inevitable_transaction(t) ==
  /\ At(t, "idle") /\ HasNext(t) /\ Call(t)[1] = "begin_inevitable"
  /\ CanShare
  /\ tx' = [tx EXCEPT ![t].pc = "inev_mutex", ![t].goal = "begin"]
  /\ UNCHANGED <<heap, pd, global_cur_time, syncVars, history>>

inev_mutex_acquire(t) ==
  /\ At(t, "inev_mutex") /\ mutex_inevitable = NULL
  /\ mutex_inevitable' = t
  /\ Goto(t, "inev_share")
  /\ UNCHANGED <<heap, pd, global_cur_time, rwlock, sync_required,
                 in_single_thread, history>>

\* With the mutex and the shared lock again: aborted meanwhile, the wait of
\* CommitTransaction() is over, or acquire_inev_mutex_and_mark_global_cur_time().
MarkGlobalCurTime(t) ==
  /\ At(t, "inev_share") /\ CanShare /\ Shares(t)
  /\ \/ /\ tx[t].active < 0
        /\ mutex_inevitable' = NULL
        /\ tx' = [tx EXCEPT ![t].pc = "abort", ![t].active = 1]
        /\ UNCHANGED <<pd, global_cur_time>>
     \/ /\ tx[t].active >= 0 /\ tx[t].goal = "commit"
        /\ mutex_inevitable' = NULL
        /\ StartCommit(t, Normalized(t), "commit")
        /\ UNCHANGED global_cur_time
     \/ /\ tx[t].active >= 0 /\ tx[t].goal # "commit"
        /\ global_cur_time' = global_cur_time + 1
        /\ tx' = [tx EXCEPT ![t] =
             IF tx[t].goal = "begin" THEN Begun(t, 2)
             ELSE IF tx[t].start_time = global_cur_time
             THEN [@ EXCEPT !.pc = "run", !.active = 2]
             ELSE [@ EXCEPT !.pc = "validate", !.start_time = global_cur_time,
                            !.todo = tx[t].list_of_read_objects]]
        /\ UNCHANGED <<pd, mutex_inevitable>>
  /\ UNCHANGED <<heap, sync_required, in_single_thread, history>>

-----------------------------------------------------------------------------
(* Stopping the other threads.                                             *)

AbortNowIfDelayed(d, pc) ==
  IF d.active < 0 THEN [d EXCEPT !.pc = "abort", !.active = 1]
                  ELSE [d EXCEPT !.pc = pc]

\* AbortTransactionAfterCollect(): those that wait for the shared lock in a
\* regular transaction will abort when they have it.
Killed(regular) == [u \in Threads |-> IF tx[u].active = 1 /\ u \in regular
                                      THEN [tx[u] EXCEPT !.active = -1]
                                      ELSE tx[u]]

stm_start_single_thread(t) ==
  /\ Calls(t, "single_thread")
  /\ in_single_thread # t /\ tx[t].active = 2
  /\ sync_required' = TRUE
  /\ rwlock' = [rwlock EXCEPT !.shared = @ \ {t}, !.waiting = @ \cup {t}]
  /\ tx' = [tx EXCEPT ![t] = [Called(@) EXCEPT !.pc = "exclusive"]]
  /\ UNCHANGED <<heap, pd, global_cur_time, mutex_inevitable, in_single_thread,
                 history>>

\* stm_stop_all_other_threads(), once the exclusive lock is there.
StopAllOtherThreads(t) ==
  /\ At(t, "exclusive")
  /\ rwlock.shared = {} /\ rwlock.exclusive = NULL
  /\ rwlock' = [rwlock EXCEPT !.exclusive = t, !.waiting = @ \ {t}]
  /\ sync_required' = FALSE
  /\ in_single_thread' = t
  /\ tx' = [Killed(Threads) EXCEPT ![t].pc = "run"]
  /\ UNCHANGED <<heap, pd, global_cur_time, mutex_inevitable, history>>

\* stm_partial_commit_and_resume_other_threads(): CommitTransaction(1), ...
PartialCommit(t) ==
  /\ Calls(t, "commit") /\ in_single_thread = t /\ Len(tx[t].code) > 1
  /\ StartCommit(t, Normalized(t), "partial")
  /\ UNCHANGED <<heap, global_cur_time, syncVars, history>>

\* ... BeginInevitableTransaction(1), stm_stop_single_thread().
Resume(t) ==
  /\ At(t, "resume")
  /\ global_cur_time' = global_cur_time + 1
  /\ tx' = [tx EXCEPT ![t] = [Begun(t, 2) EXCEPT !.pc = "safe_point"]]
  /\ in_single_thread' = NULL
  /\ rwlock' = [rwlock EXCEPT !.exclusive = NULL]
  /\ UNCHANGED <<heap, pd, mutex_inevitable, sync_required, history>>

stm_possible_safe_point(t) ==
  /\ Running(t) /\ sync_required /\ in_single_thread # t
  /\ Goto(t, "safe_point") /\ Unshares(t)
  /\ UNCHANGED <<heap, pd, global_cur_time, mutex_inevitable, sync_required,
                 in_single_thread, history>>

\* The shared lock is back: AbortNowIfDelayed().
SafePointDone(t) ==
  /\ At(t, "safe_point") /\ CanShare /\ Shares(t)
  /\ tx' = [tx EXCEPT ![t] = AbortNowIfDelayed(@, "run")]
  /\ UNCHANGED <<heap, pd, global_cur_time, mutex_inevitable, sync_required,
                 in_single_thread, history>>

-----------------------------------------------------------------------------
(* Minor collections: the nursery of a thread is emptied.  What the        *)
(* collector visits keeps its cell; a pointer that it does not visit to    *)
(* what was young is dead afterwards.                                      *)

\* visit_if_young(): a young public object has moved already.
Moved(h, c) == IF Is(h, c, "MOVED") THEN h[c].rev[2] ELSE c

RefsOf(h, S) == {h[c].ref : c \in S} \ {NULL}

\* The closure of what is visited, among the young ones.
Visited(h, young, from) ==
  LET visit(roots) == {Moved(h, c) : c \in roots} \cap young
  IN FoldLeft(LAMBDA S, c : S \cup visit(RefsOf(h, S)), visit(from),
              SetToSeq(young))

\* What outdated public copies lead to.
Behind(d, h) ==
  {h[P].rev[2] : P \in
     {R \in d.public_with_young_copy \ DOMAIN d.public_to_private :
        h[R].rev[1] = "pointer"}}
\* Faulty: stubs made by thieves are not traced.
StubsForgotten(d, t, h) ==
  {S \in Behind(d, h) : h[S].rev[1] = "stub" /\ h[S].own = t}
\* trace_stub(): the stubs of this thread among those listed.
StubsTraced(d, t, h) ==
  {S \in pd[t].stolen_young_stubs \cup Behind(d, h) :
     h[S].rev[1] = "stub" /\ h[S].own = t}

\* mark_public_to_young(): public copies that are outdated already.
CannotCommit(d, h) ==
  {P \in d.public_with_young_copy \cap DOMAIN d.public_to_private :
     IsPointer(h[P].rev)}

\* What the collector goes through: cells whose reference is followed.
Traced(d, h) ==
  d.old_objects_to_trace \cup {h[P].rev[2] : P \in d.private_from_protected}

Survivors(d, t, h) ==
  Visited(h, Young(heap, t),
    d.roots \cup d.saved \cup d.private_from_protected
    \cup {d.public_to_private[R] :
            R \in (d.public_with_young_copy \cap DOMAIN d.public_to_private)
                  \ CannotCommit(d, h)}
    \cup {h[S].rev[2] : S \in StubsTraced(d, t, h)}
    \cup RefsOf(h, Traced(d, h)))

Emptied(d, t, h, young, alive) ==
  [c \in Cells |->
     LET x == h[c]
         followed == c \in alive \cup Traced(d, h)
         ref == IF x.ref \notin young THEN x.ref
                ELSE IF followed THEN Moved(h, x.ref) ELSE 0
         rev == IF ~IsPointer(x.rev) \/ x.rev[2] \notin young THEN x.rev
                ELSE IF c \in StubsTraced(d, t, h)
                THEN StubTo(Moved(h, x.rev[2])) ELSE Dead
     IN IF c \in young \ alive THEN Free
        ELSE [x EXCEPT !.ref = ref, !.rev = rev,
                !.original =
                   IF @ = NULL /\ \E P \in d.private_from_protected \cap alive :
                                  h[P].rev = To(c) /\ h[P].original = NULL
                   THEN CHOOSE P \in d.private_from_protected : h[P].rev = To(c)
                   ELSE @,
                !.tid = IF c \in alive THEN @ \cup {"OLD", "WRITE_BARRIER"}
                        ELSE IF c \in d.old_objects_to_trace
                                /\ ~Is(h, c, "PUBLIC")
                        THEN @ \cup {"WRITE_BARRIER"} ELSE @]]

MinorCollected(d, h, young, alive) ==
  [d EXCEPT
     !.roots = {Moved(h, c) : c \in @},
     !.saved = {Moved(h, c) : c \in @},
     !.list_of_read_objects =
        IF d.active = 2 THEN {}
        ELSE {Moved(h, c) : c \in {e \in @ : e \in young =>
                                    e \in alive \/ Is(h, e, "MOVED")}},
     !.recent_reads_cache = {},
     !.public_to_private = [R \in DOMAIN @ |->
        IF \/ @[R] \in young /\ R \notin d.public_with_young_copy
           \/ R \in CannotCommit(d, h)
        THEN 0 ELSE @[R]],
     !.public_with_young_copy = {}, !.old_objects_to_trace = {},
     !.active = IF CannotCommit(d, h) = {} THEN @ ELSE -1]

\* ... and what t goes on with.
minor_collect(t, d, pc) ==
  /\ \A P \in d.public_with_young_copy \ DOMAIN d.public_to_private :
       heap[P].rev[1] # "lock"                        \* spin
  /\ \E young \in {Young(heap, t)}, alive \in {Survivors(d, t, heap)} :
       /\ heap' = Emptied(d, t, heap, young, alive)
       /\ tx' = [tx EXCEPT ![t] =
            AbortNowIfDelayed(MinorCollected(d, heap, young, alive), pc)]
  /\ pd' = [pd EXCEPT ![t].stolen_objects = {}, ![t].stolen_young_stubs = {}]

stmgc_minor_collect(t) ==
  /\ Calls(t, "allocate") /\ IsFull(heap, t)
  /\ minor_collect(t, Normalized(t), "run")
  /\ UNCHANGED <<global_cur_time, syncVars, history>>

-----------------------------------------------------------------------------
(* Threads come and go; a new one takes over the public descriptor.        *)

stm_enter_callback_call(t) ==
  /\ At(t, "none") /\ HasNext(t)
  /\ rwlock.shared = {} /\ rwlock.exclusive = NULL
  /\ tx' = [tx EXCEPT ![t] = [@ EXCEPT !.pc = "inev_mutex", !.goal = "begin"]]
  /\ UNCHANGED <<heap, pd, global_cur_time, syncVars, history>>

\* A minor collection, ...
stm_leave_callback_call(t) ==
  /\ Calls(t, "leave")
  /\ tx[t].active = 2 /\ in_single_thread # t
  /\ minor_collect(t, Normalized(t), "leave_commit")
  /\ UNCHANGED <<global_cur_time, syncVars, history>>
\* ... and CommitTransaction(0).
CommitAndLeave(t) ==
  /\ At(t, "leave_commit")
  /\ StartCommit(t, Normalized(t), "leave")
  /\ UNCHANGED <<heap, global_cur_time, syncVars, history>>

DescriptorDone(t) ==
  /\ At(t, "leave")
  /\ rwlock.shared = {} /\ rwlock.exclusive = NULL
  /\ Goto(t, "none")
  /\ UNCHANGED <<heap, pd, global_cur_time, syncVars, history>>

-----------------------------------------------------------------------------

Transaction(t) ==
  \/ stm_begin_transaction(t) \/ stm_read_barrier(t) \/ NoHandle(t)
  \/ Restart(t) \/ Steal(t)
  \/ stm_WriteBarrier(t) \/ stm_allocate(t) \/ Validate(t) \/ Validated(t)
  \/ AbortTransaction(t) \/ stm_abort_and_retry(t)
  \/ CommitTransaction(t) \/ AcquireLocks(t) \/ AdvanceTime(t) \/ Commit(t)
  \/ UpdateChainHeads(t) \/ CommitDone(t) \/ stmgc_minor_collect(t)

Coordination(t) ==
  \/ BecomeInevitable(t) \/ stm_begin_inevitable_transaction(t)
  \/ inev_mutex_acquire(t) \/ MarkGlobalCurTime(t)
  \/ stm_start_single_thread(t) \/ StopAllOtherThreads(t) \/ PartialCommit(t)
  \/ Resume(t) \/ stm_possible_safe_point(t) \/ SafePointDone(t)
  \/ stm_enter_callback_call(t) \/ stm_leave_callback_call(t)
  \/ CommitAndLeave(t) \/ DescriptorDone(t)

\* The bound of the model: no more transactions start.
Finished ==
  /\ \A t \in Threads : tx[t].pc \in {"idle", "none"} /\ ~HasNext(t)
  /\ UNCHANGED vars

Next == (\E t \in Threads : Transaction(t) \/ Coordination(t)) \/ Finished
Spec == Init /\ [][Next]_vars

-----------------------------------------------------------------------------
(* Properties.                                                             *)

AsOf(o, time) ==
  LET old == {v \in history[o] : v.time <= time}
  IN IF old = {} THEN NULL
     ELSE (CHOOSE v \in old : \A w \in old : w.time <= v.time).is

\* A transaction sees the store as it was at its start_time, although it
\* moves on, and objects are overwritten, stolen and moved meanwhile.
Opacity ==
  \A t \in Threads :
    (tx[t].active # 0 /\ tx[t].pc # "abort"
     /\ (tx[t].pc = "validate" => tx[t].goal = "commit"))
    => \A o \in Objects : tx[t].seen[o] # NULL =>
         tx[t].seen[o] = AsOf(o, tx[t].start_time)

\* A commit takes place at its time stamp: nothing it has read has changed
\* before that, nor will by a commit with a lower one that is under way.
Serializable ==
  \A t \in Threads : At(t, "commit") => \A o \in Objects :
    tx[t].seen[o] # NULL =>
      /\ tx[t].seen[o] = AsOf(o, tx[t].cur_time)
      /\ \A u \in Threads \ {t} :
           tx[u].pc \in {"validate", "commit"} /\ pd[u].collection_lock
           /\ tx[u].cur_time < tx[t].cur_time
           => \A R \in DOMAIN tx[u].public_to_private : heap[R].obj # o

\* The end of all revisions.
Newest(c) ==
  LET from[e \in Cells] == IF IsPointer(heap[e].rev) THEN from[heap[e].rev[2]]
                                                     ELSE e
  IN from[c]

\* While nobody commits, whatever copy of an object one starts from, one
\* comes to what was committed last, or to one's own new object.
CurrentVersion ==
  (\A t \in Threads : ~pd[t].collection_lock) =>
    \A t \in Threads : \A c \in Handles(t) : LET e == Newest(c) IN
      heap[e].rev # Private =>
        /\ heap[e].rev[1] = "time" /\ heap[e].obj = heap[c].obj
        /\ Contents(heap, e) = AsOf(heap[c].obj, global_cur_time + 1)

\* An inevitable transaction does not abort, no other commits meanwhile, and
\* the fatal errors of CommitTransaction() and BeginInevitableTransaction()
\* do not occur.
InevitableIsSafe ==
  \A t \in Threads :
    /\ tx[t].active = 2 =>
         /\ tx[t].pc # "abort"
         /\ tx[t].pc \notin {"commit", "publish"} =>
              /\ mutex_inevitable = t
              /\ global_cur_time = tx[t].start_time + 1
    /\ At(t, "resume") => global_cur_time % 2 = 0 /\ mutex_inevitable = t
    /\ mutex_inevitable = t => \A u \in Threads \ {t} :
         tx[u].active = 2 => tx[u].pc \in {"commit", "publish"}

\* The last step of a commit finds no backup stolen: those that were are in
\* public_to_private (so AbortTransaction() at et.c:1387 is not reached).
NoLateAbort ==
  \A t \in Threads : At(t, "commit") =>
    \A B \in Backups(t) : ~Is(heap, B, "PUBLIC")

\* What everybody can reach does not lead into anybody's own objects.
PublicIsShared ==
  \A c \in Cells :
    (Is(heap, c, "PUBLIC") /\ ~Is(heap, c, "STUB") /\ heap[c].ref # NULL
     /\ heap[c].rev[1] \in {"time", "lock"})
    => heap[c].ref # 0 /\ {"PUBLIC", "OLD"} \subseteq heap[heap[c].ref].tid

\* Minor collections lose nothing: from the stacks and the prebuilt objects
\* one only comes to objects, and neither to free memory nor into a nursery
\* that was reset.
Leads(c) == (IF IsPointer(heap[c].rev) THEN {heap[c].rev[2]} ELSE {})
            \cup (IF heap[c].ref # NULL
                     /\ (heap[c].rev[1] \in {"time", "lock", "private"}
                         \/ Is(heap, c, "PRIVATE_FROM_PROTECTED"))
                  THEN {heap[c].ref} ELSE {})
Reached ==
  FoldLeft(LAMBDA S, n : S \cup UNION {Leads(c) : c \in S \ {0}},
    DOMAIN Prebuilt \cup UNION {tx[t].roots \cup tx[t].saved \cup tx[t].list_of_read_objects :
                                t \in {u \in Threads : tx[u].pc # "abort"}},
    heap)
NothingLost ==
  \A c \in Reached : c # 0 /\ heap[c].obj # NULL /\ heap[c].rev # Dead

\* A thread that ends leaves nothing behind that only it could clean up.
NothingLeft ==
  \A t \in Threads : tx[t].pc \in {"leave", "none"} =>
    /\ pd[t].stolen_objects = {} /\ pd[t].stolen_young_stubs = {}
    /\ tx[t].public_with_young_copy = {} /\ tx[t].old_objects_to_trace = {}
    /\ Young(heap, t) = {}
\* What cannot be taken back goes through: no abort where et.c could only stop
\* the program or leave half a commit behind (et.c:1045, 1387, 1476, 1617).
PointOfNoReturn == InevitableIsSafe /\ NoLateAbort

\* Collections, stealing and the end of threads leave a heap in which all
\* that can be reached is there, and is public where others reach it.
HeapIsSound == PublicIsShared /\ NothingLost /\ NothingLeft
=============================================================================
