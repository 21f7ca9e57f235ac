------------------------ MODULE C8CommitLogProofs --------------------------
(* The commit log of c8, for any number of segments, objects, values and   *)
(* entries: an inevitable transaction keeps the log for itself, what is    *)
(* written is private and, unless a thread is overtaken between the append *)
(* of its entry and the removal of its backup copies, every segment has    *)
(* the contents of one snapshot.                                           *)
EXTENDS C8CommitLog, WellFoundedInduction, TLAPS

\* Running code, code inside the library, and the rest of a transaction.
Pcs == {"none", "run", "write", "privatize", "barrier", "validate", "update",
        "check", "append", "turn", "clear", "abort"}
InWrite(s) == pc[s] \in {"write", "privatize", "barrier"}
Entries == [segment_num : Segs, written : SUBSET Objects]

TypeOK ==
  /\ pc \in [Segs -> Pcs]
  /\ goal \in [Segs -> {"run", "append", "turn"}]
  /\ transaction_state \in [Segs -> {"NONE", "REGULAR", "INEVITABLE"}]
  /\ last \in [Segs -> Nat]
  /\ todo \in [Segs -> SUBSET Objects]
  /\ needs_abort \in [Segs -> BOOLEAN]
  /\ read \in [Segs -> SUBSET Objects]
  /\ obj \in [Segs -> Objects \cup {NULL}]
  /\ bk_obj \in [Segs -> Values \cup {NULL}]
  /\ modified \in [Segs -> SUBSET Objects]
  /\ backup \in [Segs -> [Objects -> Values \cup {NULL}]]
  /\ pages \in [Segs -> [Objects -> Values]]
  /\ pages_privatized \in [Objects -> SUBSET Segs]
  /\ privatizer \in Segs \cup {NULL}
  /\ log \in Seq(Entries)
  /\ inevitable \in Segs \cup {NULL}
  /\ snapshots \in Seq([Objects -> Values])
  /\ seen \in [Segs -> [Objects -> Values \cup {NULL}]]

\* What a type does not say: positions lie in the log, and who is past a
\* step of the write barrier has the object and the copy it needs there.
LogOK ==
  /\ Len(snapshots) = Len(log) + 1
  /\ \A s \in Segs : /\ last[s] <= Len(log)
                     /\ pc[s] \in {"update", "check"} =>
                          /\ last[s] < Len(log)
                          /\ todo[s] \subseteq log[last[s] + 1].written
DataOK == \A s \in Segs :
  /\ \A o \in modified[s] : backup[s][o] \in Values
  /\ InWrite(s) => obj[s] \in Objects /\ bk_obj[s] \in Values
  /\ pc[s] = "check" => obj[s] \in todo[s]
TypeInv == TypeOK /\ LogOK /\ DataOK

\* An inevitable transaction runs or commits; nobody else appends.
StateInv == \A s \in Segs :
  /\ pc[s] = "none" <=> transaction_state[s] = "NONE"
  /\ transaction_state[s] = "INEVITABLE" => InWrite(s) \/ pc[s] \in {"run", "append", "clear"}
  /\ inevitable = s <=> transaction_state[s] = "INEVITABLE" /\ pc[s] # "clear"
  /\ inevitable = s => last[s] = Len(log)
  /\ needs_abort[s] => pc[s] \in {"validate", "update", "check", "abort"}

\* A page is private to all segments or to none, but for the one object whose
\* page somebody makes private right now.
LockInv ==
  /\ \A s \in Segs : pc[s] = "privatize" <=> privatizer = s
  /\ \A o \in Objects : \/ pages_privatized[o] \in {{}, Segs}
                        \/ privatizer # NULL /\ obj[privatizer] = o
  /\ \A o \in Objects : 0 \in pages_privatized[o] => pages_privatized[o] = Segs
  /\ \A s \in Segs : pc[s] = "barrier" => pages_privatized[obj[s]] # {}

\* What is written, by whomever and however long ago, is private.
PrivateInv ==
  /\ \A s \in Segs : \A o \in modified[s] \cup todo[s] : pages_privatized[o] = Segs
  /\ \A i \in 1..Len(log) : \A o \in log[i].written : pages_privatized[o] = Segs

\* What is not private was never written.
SharedInv == \A s \in Segs, o \in Objects :
  pages_privatized[o] # Segs => View(s, o) = Last(snapshots)[o]

PageInv == LockInv /\ PrivateInv /\ SharedInv

-----------------------------------------------------------------------------
\* o is in the next entry of s, in a later one, in one after position k.
Coming(s, o) == last[s] < Len(log) /\ o \in log[last[s] + 1].written
Later(s, o) == \E i \in (last[s] + 2)..Len(log) : o \in log[i].written
WrittenSince(k, o) == \E i \in k..Len(log) : o \in log[i].written
\* The next entry is the segment's own.
Own(s) == last[s] < Len(log) /\ Author(s) = s

\* What s has of o may differ from what the last entry left.
Pending(s, o) ==
  \/ Later(s, o)
  \/ /\ Coming(s, o)
     /\ pc[s] = "clear" \/ Author(s) # s
     /\ pc[s] \in {"update", "check"} => o \in todo[s]

\* Snapshots differ in what the entries between them have written, and a
\* segment has at most one entry ahead of it: the next one.
LogInv ==
  /\ \A i \in 1..Len(snapshots), o \in Objects :
       ~WrittenSince(i, o) => snapshots[i][o] = Last(snapshots)[o]
  /\ \A i \in 1..Len(log) : i <= last[log[i].segment_num] + 1

\* A segment meets its own entry before any other work.
OwnOf(s) ==
  /\ pc[s] = "none" \/ (Own(s) /\ pc[s] # "clear") =>
       modified[s] = {} /\ seen[s] = Nothing
  /\ Own(s) => pc[s] \in {"none", "clear", "validate", "update", "check"}
  /\ pc[s] = "clear" =>
       /\ Own(s) /\ modified[s] = log[last[s] + 1].written
       /\ \A o \in modified[s] : View(s, o) = snapshots[last[s] + 2][o]

\* The backup copy of the write barrier is up to date; what is modified or
\* was read is marked.
BarrierOf(s) ==
  /\ InWrite(s) => /\ obj[s] \notin modified[s] /\ obj[s] \in read[s]
                   /\ bk_obj[s] = View(s, obj[s])
  /\ modified[s] \subseteq read[s]
  /\ \A o \in Objects : seen[s][o] # NULL => o \in read[s]

\* Unless there is more to come, s has the last committed contents of o, and
\* has read no others.
CopyOf(s, o) ==
  /\ ~Pending(s, o) => Committed(s, o) = Last(snapshots)[o]
  /\ pc[s] = "check" /\ obj[s] = o /\ ~Later(s, o) =>
       View(s, o) = Last(snapshots)[o]
ReadOf(s, o) ==
  pc[s] \notin {"none", "clear"} /\ ~needs_abort[s] /\ ~Pending(s, o) =>
    seen[s][o] \in {NULL, Last(snapshots)[o]}

\* Between validations s stays at its snapshot.
SnapshotOf(s, o) ==
  Valid(s) => /\ Committed(s, o) = Snapshot(s)[o]
              /\ seen[s][o] \in {NULL, Snapshot(s)[o]}

WorkOf(s) == /\ OwnOf(s) /\ BarrierOf(s)
             /\ \A o \in Objects : CopyOf(s, o) /\ ReadOf(s, o) /\ SnapshotOf(s, o)
WorkInv == LogInv /\ \A s \in Segs : WorkOf(s)

-----------------------------------------------------------------------------
Step(s) == Library(s) \/ User(s)

\* Segments are numbered from 0, and none of them is NULL.
LEMMA SegsFacts == 0 \in Segs /\ Segs \subseteq Nat /\ NULL \notin Segs
  BY C8Assumption DEF Segs

\* A set of natural numbers has a smallest element.
LEMMA Smallest ==
  ASSUME NEW T, T \subseteq Nat, T # {}
  PROVE  \E x \in T : \A y \in T : x <= y
  <1> DEFINE R == OpToRel(<, Nat)
  <1>1. IsWellFoundedOn(R, Nat)
    BY NatLessThanWellFounded
  <1>2. \A x, y \in Nat : x < y => <<x, y>> \in R
    BY DEF OpToRel
  <1> HIDE DEF R
  <1>3. PICK x \in T : \A y \in T : ~ (<<y, x>> \in R)
    BY <1>1, WFMin
  <1>4. ASSUME NEW y \in T PROVE x <= y
    <2>1. x \in Nat /\ y \in Nat /\ ~(y < x)
      BY <1>2, <1>3
    <2> QED BY <2>1
  <1> QED BY <1>4

\* Leaving out the first n elements of a sequence.
LEMMA Rest ==
  ASSUME NEW S, NEW q \in Seq(S), NEW n \in Nat, n <= Len(q)
  PROVE  LET r == SubSeq(q, n + 1, Len(q)) IN
         /\ r \in Seq(S) /\ Len(r) = Len(q) - n
         /\ \A i \in 1..Len(r) : r[i] = q[i + n]
  OBVIOUS

\* Entries that everybody has seen are left out: positions move.
LEMMA ShortenedBy ==
  ASSUME TypeOK, LogOK, NEW p \in [Segs -> Nat],
         \A s \in Segs : p[s] <= Len(log), Shortened(p)
  PROVE  \E n \in Nat :
           /\ n <= Len(log) /\ \A s \in Segs : n <= p[s]
           /\ last' = [s \in Segs |-> p[s] - n]
           /\ log' \in Seq(Entries) /\ Len(log') = Len(log) - n
           /\ \A i \in 1..Len(log') : log'[i] = log[i + n]
           /\ snapshots' \in Seq([Objects -> Values])
           /\ Len(snapshots') = Len(snapshots) - n
           /\ \A i \in 1..Len(snapshots') : snapshots'[i] = snapshots[i + n]
           /\ Last(snapshots') = Last(snapshots)
  <1> DEFINE P == {p[s] : s \in Segs}
             n == CHOOSE n \in P : \A s \in Segs : n <= p[s]
  <1>1. \E m \in P : \A s \in Segs : m <= p[s]
    <2>1. P \subseteq Nat /\ P # {}
      BY SegsFacts
    <2>2. PICK m \in P : \A y \in P : m <= y
      BY <2>1, Smallest
    <2> QED BY <2>2
  <1>2. n \in P /\ \A s \in Segs : n <= p[s]
    BY <1>1
  <1>3. /\ last' = [s \in Segs |-> p[s] - n]
        /\ log' = SubSeq(log, n + 1, Len(log))
        /\ snapshots' = SubSeq(snapshots, n + 1, Len(snapshots))
    BY DEF Shortened
  <1> HIDE DEF n
  <1>4. n \in Nat /\ n <= Len(log) /\ n <= Len(snapshots)
    BY <1>2, SegsFacts DEF LogOK, TypeOK
  <1>5. /\ log' \in Seq(Entries) /\ Len(log') = Len(log) - n
        /\ \A i \in 1..Len(log') : log'[i] = log[i + n]
    BY <1>3, <1>4, Rest DEF TypeOK
  <1>6. /\ snapshots' \in Seq([Objects -> Values])
        /\ Len(snapshots') = Len(snapshots) - n
        /\ \A i \in 1..Len(snapshots') : snapshots'[i] = snapshots[i + n]
    BY <1>3, <1>4, Rest DEF TypeOK
  <1>7. Last(snapshots') = Last(snapshots)
    <2> DEFINE m == Len(snapshots)
    <2>1. m \in Nat /\ Len(snapshots') = m - n /\ m - n \in 1..(m - n)
      BY <1>4, <1>6 DEF LogOK, TypeOK
    <2>2. snapshots'[m - n] = snapshots[(m - n) + n]
      BY <1>6, <2>1
    <2>3. (m - n) + n = m
      BY <1>4, <2>1
    <2> QED BY <2>1, <2>2, <2>3 DEF Last
  <1> QED BY <1>2, <1>3, <1>4, <1>5, <1>6, <1>7


\* What a segment finds in its pages are contents.
LEMMA Contents ==
  ASSUME TypeInv, NEW s \in Segs, NEW o \in Objects
  PROVE  /\ Page(s, o) \in Segs /\ View(s, o) \in Values
         /\ Committed(s, o) \in Values
  BY SegsFacts DEF TypeInv, TypeOK, DataOK, Page, View, Committed

\* The last snapshot has contents for every object.
LEMMA LastSnapshot ==
  ASSUME TypeInv
  PROVE  Last(snapshots) \in [Objects -> Values]
  <1>1. Len(snapshots) \in 1..Len(snapshots)
    BY DEF TypeInv, TypeOK, LogOK
  <1> QED BY <1>1 DEF Last, TypeInv, TypeOK

\* Who follows an entry finds it in the log, and its author is a segment.
LEMMA AuthorOfNext ==
  ASSUME TypeInv, NEW s \in Segs, pc[s] \in {"update", "check"}
  PROVE  /\ last[s] + 1 \in 1..Len(log)
         /\ log[last[s] + 1] \in Entries
         /\ Author(s) \in Segs
  <1>1. last[s] \in Nat /\ last[s] < Len(log) /\ Len(log) \in Nat
    BY DEF TypeInv, TypeOK, LogOK
  <1>2. last[s] + 1 \in 1..Len(log)
    BY <1>1
  <1>3. log[last[s] + 1] \in Entries
    BY <1>2 DEF TypeInv, TypeOK
  <1> QED BY <1>2, <1>3 DEF Entries, Author

\* Reading remembers contents.
LEMMA MarkReadTyped ==
  ASSUME TypeInv, NEW s \in Segs, NEW o \in Objects, MarkRead(s, o)
  PROVE  /\ read' \in [Segs -> SUBSET Objects]
         /\ seen' \in [Segs -> [Objects -> Values \cup {NULL}]]
  BY Contents DEF MarkRead, TypeInv, TypeOK

\* The types hold initially.
LEMMA InitTypeInv == Init => TypeInv
  <1> SUFFICES ASSUME Init PROVE TypeInv
    OBVIOUS
  <1>0. 0 \in Segs /\ NULL \notin Segs
    BY SegsFacts
  <1>1. PICK f \in [Objects -> Values] : pages = [s \in Segs |-> f] /\ snapshots = <<f>>
    BY DEF Init
  <1>2. TypeOK
    BY <1>0, <1>1 DEF Init, TypeOK, Pcs, Nothing
  <1>3. LogOK /\ DataOK
    BY <1>1, C8Assumption DEF Init, LogOK, DataOK, InWrite
  <1> QED BY <1>2, <1>3 DEF TypeInv

\* Each step touches the work of one segment only.
LEMMA Frame ==
  ASSUME TypeInv, NEW s \in Segs, Step(s), NEW r \in Segs \ {s}
  PROVE  /\ pc'[r] = pc[r] /\ goal'[r] = goal[r]
         /\ transaction_state'[r] = transaction_state[r]
         /\ todo'[r] = todo[r] /\ needs_abort'[r] = needs_abort[r]
         /\ read'[r] = read[r] /\ seen'[r] = seen[r]
         /\ obj'[r] = obj[r] /\ bk_obj'[r] = bk_obj[r]
         /\ modified'[r] = modified[r] /\ backup'[r] = backup[r]
  <1>0. TypeOK
    BY DEF TypeInv
  <1> USE <1>0 DEF TypeOK, txVars, valVars, writeVars, heapVars, Goto, Finish
  <1>1. CASE LookAtPage(s) \/ RemapPage(s) \/ PagePrivatized(s) \/ RegisterBackup(s)
    BY <1>1 DEF LookAtPage, RemapPage, PagePrivatized, RegisterBackup
  <1>2. CASE NextEntry(s) \/ Spin(s) \/ (\E o \in Objects : _update_obj_from(s, o))
             \/ CheckRead(s) \/ EntryValidated(s) \/ Validated(s)
    BY <1>2 DEF NextEntry, Spin, vars, _update_obj_from, CheckRead, ForgetBackup,
                EntryValidated, Validated
  <1>3. CASE AppendEntry(s) \/ AppendFailed(s) \/ ClearBackups(s) \/ Abort(s)
             \/ TurnInevitable(s)
    BY <1>3 DEF AppendEntry, AppendFailed, ClearBackups, Abort, TurnInevitable
  <1>4. CASE User(s)
    BY <1>4 DEF User, stm_start_transaction, stm_read, stm_write, MarkRead, Store,
                StartCommit, StartAbort, BecomeInevitable
  <1> QED BY <1>1, <1>2, <1>3, <1>4 DEF Step, Library


-----------------------------------------------------------------------------
(* Type correctness.                                                       *)

\* A step changes the work of its own segment in the ways its type allows.
LEMMA WriteTypeOK ==
  ASSUME TypeInv, NEW s \in Segs,
         LookAtPage(s) \/ RemapPage(s) \/ PagePrivatized(s) \/ RegisterBackup(s)
  PROVE  TypeInv'
  <1>0. TypeOK /\ LogOK /\ DataOK
    BY DEF TypeInv
  <1> USE <1>0 DEF TypeOK, Pcs, Goto, txVars, valVars, writeVars, heapVars,
                   pageVars, logVars
  <1>1. CASE LookAtPage(s)
    <2>1. TypeOK'
      BY <1>1 DEF LookAtPage
    <2>2. LogOK'
      BY <1>1 DEF LookAtPage, LogOK
    <2>3. DataOK'
      BY <1>1 DEF LookAtPage, DataOK, InWrite
    <2> QED BY <2>1, <2>2, <2>3 DEF TypeInv
  <1>2. CASE RemapPage(s)
    <2>0. obj[s] \in Objects /\ 0 \in Segs
      BY <1>2, SegsFacts DEF RemapPage, DataOK, InWrite
    <2>1. TypeOK'
      BY <1>2, <2>0 DEF RemapPage
    <2>2. LogOK'
      BY <1>2 DEF RemapPage, LogOK
    <2>3. DataOK'
      BY <1>2 DEF RemapPage, DataOK, InWrite
    <2> QED BY <2>1, <2>2, <2>3 DEF TypeInv
  <1>3. CASE PagePrivatized(s)
    <2>1. TypeOK'
      BY <1>3 DEF PagePrivatized
    <2>2. LogOK'
      BY <1>3 DEF PagePrivatized, LogOK
    <2>3. DataOK'
      BY <1>3 DEF PagePrivatized, DataOK, InWrite
    <2> QED BY <2>1, <2>2, <2>3 DEF TypeInv
  <1>4. CASE RegisterBackup(s)
    <2>0. obj[s] \in Objects /\ bk_obj[s] \in Values
      BY <1>4 DEF RegisterBackup, DataOK, InWrite
    <2>1. TypeOK'
      BY <1>4, <2>0 DEF RegisterBackup
    <2>2. LogOK'
      BY <1>4 DEF RegisterBackup, LogOK
    <2>3. DataOK'
      BY <1>4, <2>0 DEF RegisterBackup, DataOK, InWrite
    <2> QED BY <2>1, <2>2, <2>3 DEF TypeInv
  <1> QED BY <1>1, <1>2, <1>3, <1>4

\* ... in the steps of stm_validate,
LEMMA ValidateTypeOK ==
  ASSUME TypeInv, NEW s \in Segs,
         \/ NextEntry(s) \/ Spin(s) \/ (\E o \in Objects : _update_obj_from(s, o))
         \/ CheckRead(s) \/ EntryValidated(s) \/ Validated(s)
  PROVE  TypeInv'
  <1>0. TypeOK /\ LogOK /\ DataOK
    BY DEF TypeInv
  <1> USE <1>0 DEF TypeOK, Pcs, Goto, txVars, valVars, writeVars, heapVars,
                   pageVars, logVars
  <1>1. CASE NextEntry(s)
    <2>0. log[last[s] + 1] \in Entries
      <3>1. last[s] + 1 \in 1..Len(log)
        BY <1>1 DEF NextEntry
      <3> QED BY <3>1
    <2>1. TypeOK'
      BY <1>1, <2>0 DEF NextEntry, Entries
    <2>2. LogOK'
      BY <1>1 DEF NextEntry, LogOK
    <2>3. DataOK'
      BY <1>1 DEF NextEntry, DataOK, InWrite
    <2> QED BY <2>1, <2>2, <2>3 DEF TypeInv
  <1>2. CASE Spin(s)
    BY <1>2 DEF Spin, vars, TypeInv, LogOK, DataOK, InWrite
  <1>3. ASSUME NEW o \in Objects, _update_obj_from(s, o) PROVE TypeInv'
    <2>0. Page(s, o) \in Segs /\ Committed(Author(s), o) \in Values
      BY <1>3, Contents, AuthorOfNext DEF _update_obj_from
    <2>1. TypeOK'
      BY <1>3, <2>0 DEF _update_obj_from
    <2>2. LogOK'
      BY <1>3 DEF _update_obj_from, LogOK
    <2>3. DataOK'
      BY <1>3 DEF _update_obj_from, DataOK, InWrite
    <2> QED BY <2>1, <2>2, <2>3 DEF TypeInv
  <1>4. CASE CheckRead(s)
    <2>0. obj[s] \in Objects
      BY <1>4 DEF CheckRead, DataOK
    <2>1. TypeOK'
      <3>1. CASE Conflict(s, obj[s])
        <4>1. /\ needs_abort' = [needs_abort EXCEPT ![s] = TRUE]
              /\ modified' = [modified EXCEPT ![s] = @ \ {obj[s]}]
              /\ backup' = [backup EXCEPT ![s][obj[s]] = NULL]
          BY <1>4, <3>1 DEF CheckRead, ForgetBackup
        <4>2. /\ needs_abort' \in [Segs -> BOOLEAN]
              /\ modified' \in [Segs -> SUBSET Objects]
              /\ backup' \in [Segs -> [Objects -> Values \cup {NULL}]]
          BY <2>0, <4>1
        <4> QED BY <1>4, <2>0, <4>2 DEF CheckRead
      <3>2. CASE ~Conflict(s, obj[s])
        BY <1>4, <2>0, <3>2 DEF CheckRead
      <3> QED BY <3>1, <3>2
    <2>2. LogOK'
      BY <1>4 DEF CheckRead, LogOK
    <2>3. DataOK'
      <3>1. \A o \in modified'[s] : o \in modified[s] /\ backup'[s][o] = backup[s][o]
        BY <1>4, <2>0 DEF CheckRead, ForgetBackup
      <3>2. pc'[s] = "update"
        BY <1>4 DEF CheckRead
      <3>3. \A r \in Segs \ {s} : /\ pc'[r] = pc[r] /\ todo'[r] = todo[r]
              /\ obj'[r] = obj[r] /\ bk_obj'[r] = bk_obj[r]
              /\ modified'[r] = modified[r] /\ backup'[r] = backup[r]
        BY <1>4, Frame DEF Step, Library
      <3> QED BY <3>1, <3>2, <3>3 DEF DataOK, InWrite
    <2> QED BY <2>1, <2>2, <2>3 DEF TypeInv
  <1>5. CASE EntryValidated(s)
    <2> DEFINE p == [last EXCEPT ![s] = @ + 1]
    <2>0. p \in [Segs -> Nat] /\ \A r \in Segs : p[r] <= Len(log)
      BY <1>5 DEF EntryValidated, LogOK
    <2>1. PICK n \in Nat :
           /\ n <= Len(log) /\ \A r \in Segs : n <= p[r]
           /\ last' = [r \in Segs |-> p[r] - n]
           /\ log' \in Seq(Entries) /\ Len(log') = Len(log) - n
           /\ \A i \in 1..Len(log') : log'[i] = log[i + n]
           /\ snapshots' \in Seq([Objects -> Values])
           /\ Len(snapshots') = Len(snapshots) - n
      BY <1>5, <2>0, ShortenedBy DEF EntryValidated
    <2> HIDE DEF p
    <2>2. last' \in [Segs -> Nat] /\ \A r \in Segs : last'[r] <= Len(log')
      <3>1. ASSUME NEW r \in Segs
            PROVE  p[r] - n \in Nat /\ p[r] - n <= Len(log')
        <4>1. p[r] \in Nat /\ n <= p[r] /\ p[r] <= Len(log) /\ Len(log) \in Nat
          BY <2>0, <2>1
        <4> QED BY <2>1, <4>1
      <3> QED BY <2>1, <3>1
    <2>3. TypeOK'
      BY <1>5, <2>1, <2>2 DEF EntryValidated
    <2>4. ASSUME NEW r \in Segs, pc'[r] \in {"update", "check"}
          PROVE  last'[r] < Len(log') /\ todo'[r] \subseteq log'[last'[r] + 1].written
      <3>1. r # s /\ pc[r] \in {"update", "check"} /\ todo'[r] = todo[r]
        BY <1>5, <2>4 DEF EntryValidated
      <3>2. p[r] = last[r] /\ p[r] < Len(log) /\ todo[r] \subseteq log[p[r] + 1].written
        BY <3>1 DEF LogOK, p
      <3>3. last'[r] = p[r] - n /\ Len(log') = Len(log) - n
        BY <2>1
      <3>4. last'[r] < Len(log') /\ last'[r] + 1 \in 1..Len(log')
        <4>1. p[r] \in Nat /\ n <= p[r] /\ p[r] < Len(log) /\ Len(log) \in Nat
          BY <2>0, <2>1, <3>2
        <4> QED BY <3>3, <4>1
      <3>5. log'[last'[r] + 1] = log[p[r] + 1]
        <4>1. (last'[r] + 1) + n = p[r] + 1
          BY <2>0, <2>1, <3>3
        <4> QED BY <2>1, <3>4, <4>1
      <3> QED BY <3>1, <3>2, <3>4, <3>5
    <2>5. LogOK'
      BY <2>1, <2>2, <2>4 DEF LogOK
    <2>6. DataOK'
      BY <1>5 DEF EntryValidated, DataOK, InWrite
    <2> QED BY <2>3, <2>5, <2>6 DEF TypeInv
  <1>6. CASE Validated(s)
    <2>1. TypeOK'
      BY <1>6 DEF Validated
    <2>2. LogOK'
      BY <1>6 DEF Validated, LogOK
    <2>3. DataOK'
      BY <1>6 DEF Validated, DataOK, InWrite
    <2> QED BY <2>1, <2>2, <2>3 DEF TypeInv
  <1> QED BY <1>1, <1>2, <1>3, <1>4, <1>5, <1>6


\* ... in those that end a transaction,
LEMMA EndTypeOK ==
  ASSUME TypeInv, NEW s \in Segs,
         \/ AppendEntry(s) \/ AppendFailed(s) \/ ClearBackups(s) \/ Abort(s)
         \/ TurnInevitable(s)
  PROVE  TypeInv'
  <1>0. TypeOK /\ LogOK /\ DataOK
    BY DEF TypeInv
  <1> USE <1>0 DEF TypeOK, Pcs, Goto, txVars, valVars, writeVars, heapVars,
                   pageVars, logVars
  <1>1. CASE AppendEntry(s)
    <2> DEFINE entry == [segment_num |-> s, written |-> modified[s]]
               new == [o \in Objects |->
                         IF o \in modified[s] THEN View(s, o) ELSE Last(snapshots)[o]]
    <2>1. entry \in Entries /\ new \in [Objects -> Values]
      BY Contents, LastSnapshot DEF Entries
    <2>2. log' = Append(log, entry) /\ snapshots' = Append(snapshots, new)
      BY <1>1 DEF AppendEntry
    <2> HIDE DEF entry, new
    <2>3. /\ log' \in Seq(Entries) /\ Len(log') = Len(log) + 1
          /\ \A i \in 1..Len(log) : log'[i] = log[i]
      BY <2>1, <2>2
    <2>4. snapshots' \in Seq([Objects -> Values]) /\ Len(snapshots') = Len(snapshots) + 1
      BY <2>1, <2>2
    <2>5. TypeOK'
      BY <1>1, <2>3, <2>4 DEF AppendEntry, LogOpen
    <2>6. LogOK'
      <3>1. ASSUME NEW r \in Segs
            PROVE  /\ last'[r] <= Len(log')
                   /\ pc'[r] \in {"update", "check"} =>
                        /\ last'[r] < Len(log')
                        /\ todo'[r] \subseteq log'[last'[r] + 1].written
        <4>1. last'[r] = last[r] /\ todo'[r] = todo[r] /\ last[r] \in Nat
              /\ last[r] <= Len(log) /\ Len(log) \in Nat
          BY <1>1 DEF AppendEntry, LogOK
        <4>2. pc'[r] \in {"update", "check"} => pc[r] \in {"update", "check"}
          BY <1>1 DEF AppendEntry
        <4>3. pc[r] \in {"update", "check"} =>
                /\ last[r] + 1 \in 1..Len(log)
                /\ todo[r] \subseteq log[last[r] + 1].written
          BY AuthorOfNext DEF LogOK
        <4>4. pc[r] \in {"update", "check"} =>
                /\ last[r] < Len(log)
                /\ todo[r] \subseteq log'[last[r] + 1].written
          <5> SUFFICES ASSUME pc[r] \in {"update", "check"}
                       PROVE  /\ last[r] < Len(log)
                              /\ todo[r] \subseteq log'[last[r] + 1].written
            OBVIOUS
          <5>1. log'[last[r] + 1] = log[last[r] + 1]
            BY <2>3, <4>3
          <5> QED BY <4>3, <5>1 DEF LogOK
        <4> QED BY <2>3, <4>1, <4>2, <4>4
      <3> QED BY <2>3, <2>4, <3>1 DEF LogOK
    <2>7. DataOK'
      BY <1>1 DEF AppendEntry, DataOK, InWrite
    <2> QED BY <2>5, <2>6, <2>7 DEF TypeInv
  <1>2. CASE AppendFailed(s)
    <2>1. TypeOK'
      BY <1>2 DEF AppendFailed
    <2>2. LogOK'
      BY <1>2 DEF AppendFailed, LogOK
    <2>3. DataOK'
      BY <1>2 DEF AppendFailed, DataOK, InWrite
    <2> QED BY <2>1, <2>2, <2>3 DEF TypeInv
  <1>3. CASE ClearBackups(s)
    <2>1. TypeOK'
      BY <1>3 DEF ClearBackups, Finish, Nothing
    <2>2. LogOK'
      BY <1>3 DEF ClearBackups, Finish, LogOK
    <2>3. DataOK'
      BY <1>3 DEF ClearBackups, Finish, DataOK, InWrite
    <2> QED BY <2>1, <2>2, <2>3 DEF TypeInv
  <1>4. CASE Abort(s)
    <2>0. \A o \in modified[s] : backup[s][o] \in Values
      BY DEF DataOK
    <2>1. pages' \in [Segs -> [Objects -> Values]]
      BY <1>4, <2>0 DEF Abort
    <2>2. TypeOK'
      BY <1>4, <2>1 DEF Abort, Finish, Nothing
    <2>3. LogOK'
      BY <1>4 DEF Abort, Finish, LogOK
    <2>4. DataOK'
      BY <1>4 DEF Abort, Finish, DataOK, InWrite
    <2> QED BY <2>2, <2>3, <2>4 DEF TypeInv
  <1>5. CASE TurnInevitable(s)
    <2>1. TypeOK'
      BY <1>5 DEF TurnInevitable
    <2>2. LogOK'
      BY <1>5 DEF TurnInevitable, LogOK
    <2>3. DataOK'
      BY <1>5 DEF TurnInevitable, DataOK, InWrite
    <2> QED BY <2>1, <2>2, <2>3 DEF TypeInv
  <1> QED BY <1>1, <1>2, <1>3, <1>4, <1>5

\* ... and in those that the program asks for.
LEMMA UserTypeOK ==
  ASSUME TypeInv, NEW s \in Segs, User(s)
  PROVE  TypeInv'
  <1>0. TypeOK /\ LogOK /\ DataOK
    BY DEF TypeInv
  <1> USE <1>0 DEF TypeOK, Pcs, Goto, txVars, valVars, writeVars, heapVars,
                   pageVars, logVars
  <1>1. CASE stm_start_transaction(s)
    <2>1. TypeOK'
      BY <1>1 DEF stm_start_transaction
    <2>2. LogOK'
      BY <1>1 DEF stm_start_transaction, LogOK
    <2>3. DataOK'
      BY <1>1 DEF stm_start_transaction, DataOK, InWrite
    <2> QED BY <2>1, <2>2, <2>3 DEF TypeInv
  <1>2. ASSUME NEW o \in Objects, stm_read(s, o) PROVE TypeInv'
    <2>1. TypeOK'
      BY <1>2, MarkReadTyped DEF stm_read
    <2>2. LogOK' /\ DataOK'
      BY <1>2 DEF stm_read, MarkRead, LogOK, DataOK, InWrite
    <2> QED BY <2>1, <2>2 DEF TypeInv
  <1>3. ASSUME NEW o \in Objects, stm_write(s, o) PROVE TypeInv'
    <2>0. View(s, o) \in Values
      BY Contents
    <2>1. TypeOK'
      BY <1>3, <2>0, MarkReadTyped DEF stm_write
    <2>2. LogOK' /\ DataOK'
      BY <1>3, <2>0 DEF stm_write, MarkRead, LogOK, DataOK, InWrite
    <2> QED BY <2>1, <2>2 DEF TypeInv
  <1>4. ASSUME NEW o \in Objects, NEW v \in Values, Store(s, o, v) PROVE TypeInv'
    <2>0. Page(s, o) \in Segs
      BY Contents
    <2>1. TypeOK'
      BY <1>4, <2>0 DEF Store
    <2>2. LogOK' /\ DataOK'
      BY <1>4 DEF Store, LogOK, DataOK, InWrite
    <2> QED BY <2>1, <2>2 DEF TypeInv
  <1>5. CASE StartCommit(s)
    <2>1. TypeOK'
      BY <1>5 DEF StartCommit
    <2>2. pc'[s] \in {"append", "validate"} /\ \A r \in Segs \ {s} : pc'[r] = pc[r]
      BY <1>5 DEF StartCommit
    <2>3. UNCHANGED <<last, todo, obj, bk_obj, modified, backup, log, snapshots>>
      BY <1>5 DEF StartCommit
    <2>4. LogOK'
      BY <2>2, <2>3 DEF LogOK
    <2>5. DataOK'
      BY <2>2, <2>3 DEF DataOK, InWrite
    <2> QED BY <2>1, <2>4, <2>5 DEF TypeInv
  <1>6. CASE StartAbort(s) \/ BecomeInevitable(s)
    <2>1. TypeOK'
      <3>1. CASE StartAbort(s)
        BY <3>1 DEF StartAbort
      <3>2. CASE BecomeInevitable(s)
        BY <3>2 DEF BecomeInevitable
      <3> QED BY <1>6, <3>1, <3>2
    <2>2. LogOK' /\ DataOK'
      BY <1>6 DEF StartAbort, BecomeInevitable, LogOK, DataOK, InWrite
    <2> QED BY <2>1, <2>2 DEF TypeInv
  <1> QED BY <1>1, <1>2, <1>3, <1>4, <1>5, <1>6 DEF User

\* TypeInv is inductive.
LEMMA NextTypeInv == TypeInv /\ [Next]_vars => TypeInv'
  <1> SUFFICES ASSUME TypeInv, [Next]_vars PROVE TypeInv'
    OBVIOUS
  <1>1. CASE UNCHANGED vars
    BY <1>1 DEF vars, txVars, valVars, writeVars, heapVars, pageVars, logVars,
                TypeInv, TypeOK, LogOK, DataOK, InWrite
  <1>2. ASSUME NEW s \in Segs, Step(s) PROVE TypeInv'
    BY <1>2, WriteTypeOK, ValidateTypeOK, EndTypeOK, UserTypeOK DEF Step, Library
  <1> QED BY <1>1, <1>2 DEF Next, Step


-----------------------------------------------------------------------------
(* The inevitable transaction has the log for itself.                      *)

\* The steps that change the log, or who may append to it.
LEMMA LogFrame ==
  ASSUME NEW s \in Segs, Step(s)
  PROVE  /\ \/ EntryValidated(s) \/ AppendEntry(s)
            \/ UNCHANGED <<last, log, snapshots>>
         /\ AppendEntry(s) \/ TurnInevitable(s) \/ inevitable' = inevitable
  <1>1. CASE User(s)
    BY <1>1 DEF User, stm_start_transaction, stm_read, stm_write, Store,
      StartCommit, StartAbort, BecomeInevitable, logVars, valVars
  <1>2. CASE Library(s)
    BY <1>2 DEF Library, LookAtPage, RemapPage, PagePrivatized, RegisterBackup,
      NextEntry, Spin, _update_obj_from, CheckRead, EntryValidated, Validated,
      AppendFailed, ClearBackups, Abort, TurnInevitable, vars, logVars, valVars
  <1> QED BY <1>1, <1>2 DEF Step

\* What StateInv says of one segment.
StateOf(s) ==
  /\ pc[s] = "none" <=> transaction_state[s] = "NONE"
  /\ transaction_state[s] = "INEVITABLE" =>
       InWrite(s) \/ pc[s] \in {"run", "append", "clear"}
  /\ needs_abort[s] => pc[s] \in {"validate", "update", "check", "abort"}

\* ... which the segment's own steps keep up.
LEMMA NextStateOf ==
  ASSUME TypeInv, StateInv, NEW s \in Segs, Step(s)
  PROVE  StateOf(s)'
  <1>0. TypeOK /\ StateOf(s)
    BY DEF TypeInv, StateInv, StateOf
  <1> USE <1>0 DEF StateOf, StateInv, TypeOK, InWrite, Goto, txVars, valVars
  <1>1. CASE LookAtPage(s) \/ RemapPage(s) \/ PagePrivatized(s) \/ RegisterBackup(s)
    BY <1>1 DEF LookAtPage, RemapPage, PagePrivatized, RegisterBackup
  <1>2. CASE NextEntry(s) \/ Spin(s) \/ (\E o \in Objects : _update_obj_from(s, o))
             \/ EntryValidated(s) \/ Validated(s)
    BY ZenonT(60), <1>2 DEF NextEntry, Spin, vars, _update_obj_from, EntryValidated, Validated
  <1>3. CASE CheckRead(s)
    BY <1>3 DEF CheckRead
  <1>4. CASE AppendEntry(s) \/ ClearBackups(s) \/ Abort(s)
             \/ TurnInevitable(s)
    BY <1>4 DEF AppendEntry, ClearBackups, Abort, TurnInevitable, Finish
  <1>5. CASE AppendFailed(s)
    BY <1>5 DEF AppendFailed, MayAppend
  <1>6. CASE User(s)
    BY <1>6 DEF User, stm_start_transaction, stm_read, stm_write, Store,
                StartCommit, StartAbort, BecomeInevitable
  <1> QED BY <1>1, <1>2, <1>3, <1>4, <1>5, <1>6 DEF Step, Library

\* An inevitable transaction is one whose entry ends the log.
LEMMA NextInevitable ==
  ASSUME TypeInv, StateInv, NEW s \in Segs, Step(s), NEW r \in Segs
  PROVE  (inevitable = r <=> transaction_state[r] = "INEVITABLE" /\ pc[r] # "clear")'
  <1>0. TypeOK /\ StateInv /\ (inevitable = r <=> transaction_state[r] = "INEVITABLE" /\ pc[r] # "clear")
    BY DEF TypeInv, StateInv
  <1>1. CASE r # s
    <2>1. pc'[r] = pc[r] /\ transaction_state'[r] = transaction_state[r]
      BY <1>1, Frame
    <2>2. CASE AppendEntry(s)
      BY <1>0, <1>1, <2>1, <2>2, SegsFacts
      DEF AppendEntry, MayAppend, FreeEnd, AtEnd, LogOpen
    <2>3. CASE TurnInevitable(s)
      <3>1. inevitable = NULL \/ inevitable = s
        BY <2>3 DEF TurnInevitable, MayAppend, FreeEnd, AtEnd
      <3> QED BY <1>0, <1>1, <2>1, <2>3, <3>1, SegsFacts DEF TurnInevitable
    <2> QED BY <1>0, <2>1, <2>2, <2>3, LogFrame
  <1>2. CASE r = s
    <2> USE <1>0, <1>2 DEF StateInv, TypeOK, InWrite, Goto, txVars, logVars
    <2>1. CASE LookAtPage(s) \/ RemapPage(s) \/ PagePrivatized(s) \/ RegisterBackup(s)
      BY <2>1 DEF LookAtPage, RemapPage, PagePrivatized, RegisterBackup
    <2>2. CASE NextEntry(s) \/ Spin(s) \/ (\E o \in Objects : _update_obj_from(s, o))
               \/ CheckRead(s) \/ EntryValidated(s) \/ Validated(s)
      BY <2>2 DEF NextEntry, Spin, vars, _update_obj_from, CheckRead,
                  EntryValidated, Validated
    <2>3. CASE AppendEntry(s) \/ TurnInevitable(s)
      BY <2>3, SegsFacts DEF AppendEntry, LogOpen, TurnInevitable
    <2>4. CASE ClearBackups(s) \/ Abort(s) \/ AppendFailed(s)
      BY <2>4 DEF ClearBackups, Abort, AppendFailed, MayAppend, Finish
    <2>5. CASE User(s)
      BY <2>5 DEF User, stm_start_transaction, stm_read, stm_write, Store,
                  StartCommit, StartAbort, BecomeInevitable
    <2> QED BY <2>1, <2>2, <2>3, <2>4, <2>5 DEF Step, Library
  <1> QED BY <1>1, <1>2

\* Its segment is at the end of the log.
LEMMA NextAtEnd ==
  ASSUME TypeInv, StateInv, NEW s \in Segs, Step(s), NEW r \in Segs, inevitable' = r
  PROVE  last'[r] = Len(log')
  <1>0. TypeOK /\ LogOK /\ r # NULL /\ NULL # inevitable'
    BY SegsFacts DEF TypeInv
  <1>1. CASE EntryValidated(s)
    <2> DEFINE p == [last EXCEPT ![s] = @ + 1]
    <2>1. inevitable = r /\ last[r] = Len(log) /\ r # s
      BY <1>1 DEF EntryValidated, StateInv, InWrite
    <2>2. p \in [Segs -> Nat] /\ \A q \in Segs : p[q] <= Len(log)
      BY <1>0, <1>1 DEF EntryValidated, LogOK, TypeOK
    <2>3. p[r] = last[r]
      BY <1>0, <2>1 DEF TypeOK
    <2>4. PICK n \in Nat : /\ last' = [q \in Segs |-> p[q] - n]
                           /\ Len(log') = Len(log) - n
      BY <1>0, <1>1, <2>2, ShortenedBy DEF EntryValidated
    <2> HIDE DEF p
    <2> QED BY <2>1, <2>3, <2>4
  <1>2. CASE AppendEntry(s)
    BY <1>0, <1>2 DEF AppendEntry, LogOpen
  <1>3. CASE TurnInevitable(s)
    <2>1. r = s /\ last' = last /\ log' = log
      BY <1>3 DEF TurnInevitable
    <2> QED BY <1>3, <2>1 DEF TurnInevitable, MayAppend, FreeEnd, AtEnd, StateInv
  <1>4. CASE ~EntryValidated(s) /\ ~AppendEntry(s) /\ ~TurnInevitable(s)
    BY <1>4, LogFrame DEF StateInv
  <1> QED BY <1>1, <1>2, <1>3, <1>4

\* StateInv is inductive.
LEMMA NextStateInv ==
  ASSUME TypeInv, StateInv, NEW s \in Segs, Step(s)
  PROVE  StateInv'
  <1>1. ASSUME NEW r \in Segs PROVE StateOf(r)'
    <2>1. CASE r # s
      <3>1. StateOf(r)
        BY DEF StateInv, StateOf
      <3> QED BY <2>1, <3>1, Frame DEF StateOf, InWrite
    <2> QED BY <2>1, NextStateOf
  <1>2. \A r \in Segs : (inevitable = r => last[r] = Len(log))'
    BY NextAtEnd
  <1> QED BY <1>1, <1>2, NextInevitable DEF StateInv, StateOf


-----------------------------------------------------------------------------
(* Shared pages.                                                           *)

\* The steps that touch the pages' flags and the privatization lock, and the
\* thread that has it.
LEMMA PageFrame ==
  ASSUME TypeInv, NEW s \in Segs, Step(s),
         ~LookAtPage(s), ~RemapPage(s), ~PagePrivatized(s)
  PROVE  /\ UNCHANGED pageVars
         /\ pc[s] # "privatize" /\ pc'[s] # "privatize" /\ pc'[s] # "barrier"
  <1>0. TypeOK
    BY DEF TypeInv
  <1> USE <1>0 DEF TypeOK, Goto, pageVars
  <1>1. CASE RegisterBackup(s)
    BY <1>1 DEF RegisterBackup
  <1>2. CASE NextEntry(s) \/ Spin(s) \/ (\E o \in Objects : _update_obj_from(s, o))
             \/ CheckRead(s) \/ EntryValidated(s) \/ Validated(s)
    BY <1>2 DEF NextEntry, Spin, vars, _update_obj_from, CheckRead, EntryValidated,
                Validated
  <1>3. CASE AppendEntry(s) \/ AppendFailed(s) \/ ClearBackups(s) \/ Abort(s)
             \/ TurnInevitable(s)
    BY <1>3 DEF AppendEntry, AppendFailed, ClearBackups, Abort, TurnInevitable, Finish
  <1>4. CASE User(s)
    BY <1>4 DEF User, stm_start_transaction, stm_read, stm_write, Store,
                StartCommit, StartAbort, BecomeInevitable
  <1> QED BY <1>1, <1>2, <1>3, <1>4 DEF Step, Library

\* Who holds the privatization locks is the only one to make pages private.
LEMMA NextLockInv ==
  ASSUME TypeInv, LockInv, NEW s \in Segs, Step(s)
  PROVE  LockInv'
  <1>0. TypeOK /\ NULL \notin Segs /\ 0 \in Segs /\ TypeOK'
    BY SegsFacts, NextTypeInv DEF TypeInv, Next, Step
  <1>a. \A r \in Segs \ {s} : pc'[r] = pc[r] /\ obj'[r] = obj[r]
    BY Frame
  <1>1. CASE LookAtPage(s)
    <2>1. CASE is_shared_log_page(obj[s])
      <3>1. /\ privatizer = NULL /\ privatizer' = s
            /\ pc' = [pc EXCEPT ![s] = "privatize"] /\ pc[s] = "write"
            /\ UNCHANGED <<obj, pages_privatized>>
        BY <1>1, <2>1 DEF LookAtPage, Goto, writeVars
      <3> QED BY ZenonT(60), <1>0, <3>1 DEF LockInv, TypeOK
    <2>2. CASE ~is_shared_log_page(obj[s])
      <3>1. /\ privatizer' = privatizer
            /\ pc' = [pc EXCEPT ![s] = "barrier"] /\ pc[s] = "write"
            /\ UNCHANGED <<obj, pages_privatized>>
            /\ pages_privatized[obj[s]] # {}
        BY <1>1, <2>2 DEF LookAtPage, Goto, writeVars, is_shared_log_page
      <3> QED BY <1>0, <3>1 DEF LockInv, TypeOK
    <2> QED BY <2>1, <2>2
  <1>2. CASE RemapPage(s)
    <2> DEFINE o == obj[s]
               left == Segs \ pages_privatized[o]
    <2>1. o \in Objects /\ privatizer = s
      BY <1>2 DEF RemapPage, TypeInv, DataOK, InWrite, LockInv
    <2>2. PICK i \in left :
            /\ i = 0 => left = {0}
            /\ pages_privatized' = [pages_privatized EXCEPT ![o] = @ \cup {i}]
      BY <1>2 DEF RemapPage
    <2>3. UNCHANGED <<pc, obj, privatizer>>
      BY <1>2 DEF RemapPage, writeVars
    <2>4. /\ pages_privatized'[o] = pages_privatized[o] \cup {i}
          /\ \A p \in Objects \ {o} : pages_privatized'[p] = pages_privatized[p]
      BY <1>0, <2>1, <2>2 DEF TypeOK
    <2>5. 0 \in pages_privatized'[o] => pages_privatized'[o] = Segs
      BY <1>0, <2>1, <2>2, <2>4 DEF LockInv, TypeOK
    <2>6. ASSUME NEW r \in Segs, pc'[r] = "barrier" PROVE pages_privatized'[obj'[r]] # {}
      <3>1. obj[r] \in Objects /\ pages_privatized[obj[r]] # {}
        BY <2>3, <2>6 DEF LockInv, TypeInv, DataOK, InWrite
      <3> QED BY <2>3, <2>4, <3>1
    <2>7. \A r \in Segs : pc'[r] = "privatize" <=> privatizer' = r
      BY <2>3 DEF LockInv
    <2>8. ASSUME NEW p \in Objects
          PROVE  \/ pages_privatized'[p] \in {{}, Segs}
                 \/ privatizer' # NULL /\ obj'[privatizer'] = p
      <3>1. CASE p = o
        BY <1>0, <2>1, <2>3, <3>1
      <3>2. CASE p # o
        BY <2>3, <2>4, <3>2 DEF LockInv
      <3> QED BY <3>1, <3>2
    <2>9. \A p \in Objects : 0 \in pages_privatized'[p] => pages_privatized'[p] = Segs
      BY <2>4, <2>5 DEF LockInv
    <2> QED BY <2>6, <2>7, <2>8, <2>9 DEF LockInv
  <1>3. CASE PagePrivatized(s)
    <2>1. /\ pages_privatized[obj[s]] = Segs /\ privatizer' = NULL
          /\ pc' = [pc EXCEPT ![s] = "barrier"] /\ pc[s] = "privatize"
          /\ UNCHANGED <<obj, pages_privatized>>
      BY <1>3 DEF PagePrivatized, Goto, writeVars
    <2>2. privatizer = s
      BY <2>1 DEF LockInv
    <2>3. ASSUME NEW r \in Segs
          PROVE  /\ pc'[r] = "privatize" <=> privatizer' = r
                 /\ pc'[r] = "barrier" => pages_privatized'[obj'[r]] # {}
      <3>1. CASE r = s
        BY <1>0, <2>1, <3>1 DEF TypeOK
      <3>2. CASE r # s
        BY ZenonT(60), <1>0, <2>1, <2>2, <3>2 DEF TypeOK, LockInv
      <3> QED BY <3>1, <3>2
    <2>4. ASSUME NEW p \in Objects
          PROVE  pages_privatized[p] \in {{}, Segs}
      BY <2>1, <2>2 DEF LockInv
    <2>5. \A p \in Objects : 0 \in pages_privatized[p] => pages_privatized[p] = Segs
      BY DEF LockInv
    <2> QED BY <2>1, <2>3, <2>4, <2>5 DEF LockInv
  <1>4. CASE ~LookAtPage(s) /\ ~RemapPage(s) /\ ~PagePrivatized(s)
    <2>1. /\ UNCHANGED <<pages_privatized, privatizer>>
          /\ pc[s] # "privatize" /\ pc'[s] # "privatize" /\ pc'[s] # "barrier"
      BY <1>4, PageFrame DEF pageVars
    <2>2. privatizer # s /\ (privatizer # NULL => obj'[privatizer] = obj[privatizer])
      BY <1>0, <1>a, <2>1 DEF LockInv, TypeOK
    <2> QED BY <1>a, <2>1, <2>2 DEF LockInv
  <1> QED BY <1>1, <1>2, <1>3, <1>4

\* A private page stays private.
LEMMA PrivateKept ==
  ASSUME TypeInv, LockInv, NEW s \in Segs, Step(s), NEW o \in Objects
  PROVE  /\ pages_privatized[o] \subseteq pages_privatized'[o]
         /\ pages_privatized[o] = Segs => pages_privatized'[o] = Segs
  <1>0. TypeOK /\ TypeOK'
    BY NextTypeInv DEF TypeInv, Next, Step
  <1>1. CASE RemapPage(s)
    BY <1>0, <1>1 DEF RemapPage, TypeOK
  <1>2. CASE LookAtPage(s) \/ PagePrivatized(s)
    BY <1>2 DEF LookAtPage, PagePrivatized
  <1> QED BY <1>0, <1>1, <1>2, PageFrame DEF pageVars, TypeOK

\* The steps that add to the objects a segment writes or copies.
LEMMA WorkFrame ==
  ASSUME TypeInv, NEW s \in Segs, Step(s)
  PROVE  /\ RegisterBackup(s) \/ modified'[s] \subseteq modified[s]
         /\ NextEntry(s) \/ todo'[s] \subseteq todo[s]
  <1>0. TypeOK
    BY DEF TypeInv
  <1> USE <1>0 DEF TypeOK, valVars, heapVars
  <1>1. CASE LookAtPage(s) \/ RemapPage(s) \/ PagePrivatized(s) \/ RegisterBackup(s)
    BY <1>1 DEF LookAtPage, RemapPage, PagePrivatized, RegisterBackup
  <1>2. CASE NextEntry(s) \/ Spin(s) \/ (\E o \in Objects : _update_obj_from(s, o))
             \/ CheckRead(s) \/ EntryValidated(s) \/ Validated(s)
    BY <1>2 DEF NextEntry, Spin, vars, _update_obj_from, CheckRead, ForgetBackup,
                EntryValidated, Validated
  <1>3. CASE AppendEntry(s) \/ AppendFailed(s) \/ ClearBackups(s) \/ Abort(s)
             \/ TurnInevitable(s)
    BY <1>3 DEF AppendEntry, AppendFailed, ClearBackups, Abort, TurnInevitable, Finish
  <1>4. CASE User(s)
    BY <1>4 DEF User, stm_start_transaction, stm_read, stm_write, Store,
                StartCommit, StartAbort, BecomeInevitable
  <1> QED BY <1>1, <1>2, <1>3, <1>4 DEF Step, Library


\* What is written, in the log or to be copied is private.
LEMMA NextPrivateInv ==
  ASSUME TypeInv, LockInv, PrivateInv, NEW s \in Segs, Step(s)
  PROVE  PrivateInv'
  <1>0. TypeOK /\ TypeOK' /\ LogOK
    BY NextTypeInv DEF TypeInv, Next, Step
  <1>1. ASSUME NEW r \in Segs, NEW o \in modified'[r] PROVE pages_privatized'[o] = Segs
    <2>0. o \in Objects
      BY <1>0 DEF TypeOK
    <2>1. CASE o \in modified[r]
      BY <2>0, <2>1, PrivateKept DEF PrivateInv
    <2>2. CASE o \notin modified[r]
      <3>1. r = s /\ RegisterBackup(s)
        BY <2>2, Frame, WorkFrame
      <3>2. o = obj[s] /\ pc[s] = "barrier" /\ privatizer = NULL
        BY <1>0, <2>2, <3>1 DEF RegisterBackup, OwnPrivatizationLock, TypeOK
      <3>3. pages_privatized[o] = Segs
        BY <2>0, <3>2 DEF LockInv
      <3> QED BY <2>0, <3>3, PrivateKept
    <2> QED BY <2>1, <2>2
  <1>2. ASSUME NEW r \in Segs, NEW o \in todo'[r] PROVE pages_privatized'[o] = Segs
    <2>0. o \in Objects
      BY <1>0 DEF TypeOK
    <2>1. CASE o \in todo[r]
      BY <2>0, <2>1, PrivateKept DEF PrivateInv
    <2>2. CASE o \notin todo[r]
      <3>1. r = s /\ NextEntry(s)
        BY <2>2, Frame, WorkFrame
      <3>2. o \in log[last[s] + 1].written /\ last[s] + 1 \in 1..Len(log)
        BY <1>0, <3>1 DEF NextEntry, TypeOK
      <3>3. pages_privatized[o] = Segs
        BY <3>2 DEF PrivateInv
      <3> QED BY <2>0, <3>3, PrivateKept
    <2> QED BY <2>1, <2>2
  <1>3. ASSUME NEW i \in 1..Len(log'), NEW o \in log'[i].written
        PROVE  pages_privatized'[o] = Segs
    <2>0. o \in Objects
      <3>1. log'[i] \in Entries
        BY <1>0 DEF TypeOK
      <3> QED BY <3>1 DEF Entries
    <2>1. CASE EntryValidated(s)
      <3> DEFINE p == [last EXCEPT ![s] = @ + 1]
      <3>1. p \in [Segs -> Nat] /\ \A q \in Segs : p[q] <= Len(log)
        BY SMTT(30), <1>0, <2>1 DEF EntryValidated, LogOK, TypeOK
      <3>2. Shortened(p)
        BY <2>1 DEF EntryValidated
      <3> HIDE DEF p
      <3>3. PICK n \in Nat : /\ n <= Len(log) /\ Len(log') = Len(log) - n
                             /\ \A j \in 1..Len(log') : log'[j] = log[j + n]
        BY <1>0, <3>1, <3>2, ShortenedBy
      <3>4. i + n \in 1..Len(log)
        BY <1>0, <3>3 DEF TypeOK
      <3>5. o \in log[i + n].written
        BY <3>3
      <3> QED BY <2>0, <3>4, <3>5, PrivateKept DEF PrivateInv
    <2>2. CASE AppendEntry(s)
      <3>1. log' = Append(log, [segment_num |-> s, written |-> modified[s]])
        BY <2>2 DEF AppendEntry
      <3>2. CASE i \in 1..Len(log)
        <4>1. log'[i] = log[i]
          BY <1>0, <3>1, <3>2 DEF TypeOK
        <4> QED BY <2>0, <3>2, <4>1, PrivateKept DEF PrivateInv
      <3>3. CASE i = Len(log) + 1
        <4>1. log'[i].written = modified[s]
          BY <1>0, <3>1, <3>3 DEF TypeOK
        <4> QED BY <2>0, <4>1, PrivateKept DEF PrivateInv
      <3>4. i \in 1..Len(log) \/ i = Len(log) + 1
        BY SMTT(30), <1>0, <3>1 DEF TypeOK
      <3> QED BY <3>2, <3>3, <3>4
    <2>3. CASE ~EntryValidated(s) /\ ~AppendEntry(s)
      BY <2>0, <2>3, LogFrame, PrivateKept DEF PrivateInv
    <2> QED BY <2>1, <2>2, <2>3
  <1> QED BY <1>1, <1>2, <1>3 DEF PrivateInv

\* The steps that write to the pages.
LEMMA StoreFrame ==
  ASSUME NEW s \in Segs, Step(s)
  PROVE  \/ RemapPage(s) \/ Abort(s)
         \/ \E o \in Objects : \/ _update_obj_from(s, o)
                               \/ \E v \in Values : Store(s, o, v)
         \/ pages' = pages
  <1>1. CASE User(s)
    BY <1>1 DEF User, stm_start_transaction, stm_read, stm_write,
      StartCommit, StartAbort, BecomeInevitable, heapVars
  <1>2. CASE Library(s)
    BY <1>2 DEF Library, LookAtPage, PagePrivatized, RegisterBackup,
      NextEntry, Spin, CheckRead, EntryValidated, Validated, AppendEntry,
      AppendFailed, ClearBackups, TurnInevitable, vars, heapVars
  <1> QED BY <1>1, <1>2 DEF Step

\* Making a page private changes nothing for anybody.
LEMMA RemapKeeps ==
  ASSUME TypeInv, LockInv, NEW s \in Segs, RemapPage(s),
         NEW r \in Segs, NEW o \in Objects
  PROVE  View(r, o)' = View(r, o)
  <1>0. TypeOK /\ 0 \in Segs /\ Page(r, o) \in Segs
    BY Contents, SegsFacts DEF TypeInv
  <1>1. obj[s] \in Objects
    BY DEF RemapPage, TypeInv, DataOK, InWrite
  <1> DEFINE left == Segs \ pages_privatized[obj[s]]
  <1>2. PICK i \in left :
          /\ pages_privatized' = [pages_privatized EXCEPT ![obj[s]] = @ \cup {i}]
          /\ pages' = [pages EXCEPT ![i][obj[s]] = pages[0][obj[s]]]
    BY DEF RemapPage
  <1>3. CASE o = obj[s]
    <2>1. pages_privatized'[o] = pages_privatized[o] \cup {i}
      BY <1>0, <1>2, <1>3 DEF TypeOK
    <2>2. CASE r = i
      <3>1. Page(r, o)' = i /\ Page(r, o) = 0
        BY <1>2, <1>3, <2>1, <2>2 DEF Page
      <3>2. pages'[i][o] = pages[0][o]
        BY <1>0, <1>2, <1>3 DEF TypeOK
      <3> QED BY <3>1, <3>2 DEF View
    <2>3. CASE r # i
      <3>1. Page(r, o)' = Page(r, o)
        BY <2>1, <2>3 DEF Page
      <3>2. Page(r, o) = i => i = 0
        BY <1>2, <1>3, <2>3 DEF Page
      <3>3. \A j \in Segs : j # i => pages'[j][o] = pages[j][o]
        BY <1>0, <1>2 DEF TypeOK
      <3>4. pages'[i][o] = pages[0][o]
        BY <1>0, <1>2, <1>3 DEF TypeOK
      <3> QED BY <1>0, <3>1, <3>2, <3>3, <3>4 DEF View
    <2> QED BY <2>2, <2>3
  <1>4. CASE o # obj[s]
    <2>1. pages_privatized'[o] = pages_privatized[o]
      BY <1>0, <1>2, <1>4 DEF TypeOK
    <2>2. \A j \in Segs : pages'[j][o] = pages[j][o]
      BY <1>0, <1>2, <1>4 DEF TypeOK
    <2> QED BY <1>0, <2>1, <2>2 DEF View, Page
  <1> QED BY <1>3, <1>4

\* Nobody sees the contents of an object change that he neither writes nor
\* copies.
LEMMA OtherViews ==
  ASSUME TypeInv, LockInv, PrivateInv, NEW s \in Segs, Step(s),
         NEW r \in Segs, NEW o \in Objects,
         r # s \/ o \notin modified[s] \cup todo[s]
  PROVE  View(r, o)' = View(r, o)
  <1>0. TypeOK /\ Page(r, o) \in Segs
    BY Contents DEF TypeInv
  <1>1. CASE RemapPage(s)
    BY <1>1, RemapKeeps
  <1>2. CASE ~RemapPage(s) /\ pages'[Page(r, o)][o] = pages[Page(r, o)][o]
    <2>1. pages_privatized'[o] = pages_privatized[o]
      BY <1>2, PageFrame DEF LookAtPage, PagePrivatized, pageVars
    <2> QED BY <1>2, <2>1 DEF View, Page
  <1>3. ASSUME NEW p \in Objects, pages_privatized[p] = Segs, p = o => r # s
        PROVE  Page(s, p) = s /\ (p = o => Page(r, o) # s)
    BY <1>3 DEF Page
  <1>4. ASSUME NEW p \in Objects, _update_obj_from(s, p) \/ \E v \in Values : Store(s, p, v)
        PROVE  pages'[Page(r, o)][o] = pages[Page(r, o)][o]
    <2>1. p \in modified[s] \cup todo[s]
      BY <1>4 DEF _update_obj_from, Store
    <2>2. pages_privatized[p] = Segs
      BY <2>1 DEF PrivateInv
    <2>3. Page(s, p) = s /\ (p = o => Page(r, o) # s)
      BY <1>3, <2>1, <2>2
    <2>4. \E v : pages' = [pages EXCEPT ![s][p] = v]
      BY <1>4, <2>3 DEF _update_obj_from, Store
    <2> QED BY <1>0, <2>3, <2>4 DEF TypeOK
  <1>5. CASE Abort(s)
    <2>1. o \in modified[s] => pages_privatized[o] = Segs
      BY DEF PrivateInv
    <2>2. o \in modified[s] => Page(s, o) = s /\ Page(r, o) # s
      BY <1>3, <2>1
    <2>3. pages' = [i \in Segs |-> [q \in Objects |->
                 IF q \in modified[s] /\ i = Page(s, q) THEN backup[s][q]
                                                       ELSE pages[i][q]]]
      BY <1>5 DEF Abort
    <2>4. pages'[Page(r, o)][o] = pages[Page(r, o)][o]
      BY <1>0, <2>2, <2>3
    <2> QED BY <1>2, <2>4, <1>1
  <1> QED BY <1>1, <1>2, <1>4, <1>5, StoreFrame

\* SharedInv is inductive.
LEMMA NextSharedInv ==
  ASSUME TypeInv, LockInv, PrivateInv, SharedInv, NEW s \in Segs, Step(s)
  PROVE  SharedInv'
  <1> SUFFICES ASSUME NEW r \in Segs, NEW o \in Objects, pages_privatized'[o] # Segs
               PROVE  View(r, o)' = Last(snapshots')[o]
    BY DEF SharedInv
  <1>1. pages_privatized[o] # Segs /\ o \notin modified[s] \cup todo[s]
    BY PrivateKept DEF PrivateInv
  <1>2. View(r, o)' = View(r, o) /\ View(r, o) = Last(snapshots)[o]
    BY <1>1, OtherViews DEF SharedInv
  <1>3. Last(snapshots')[o] = Last(snapshots)[o]
    <2>0. TypeOK /\ LogOK
      BY DEF TypeInv
    <2>1. CASE EntryValidated(s)
      <3> DEFINE p == [last EXCEPT ![s] = @ + 1]
      <3>1. p \in [Segs -> Nat] /\ \A q \in Segs : p[q] <= Len(log)
        BY <2>0, <2>1 DEF EntryValidated, LogOK, TypeOK
      <3>2. Shortened(p)
        BY <2>1 DEF EntryValidated
      <3> HIDE DEF p
      <3> QED BY <2>0, <3>1, <3>2, ShortenedBy
    <2>2. CASE AppendEntry(s)
      <3>1. snapshots' = Append(snapshots, [q \in Objects |->
              IF q \in modified[s] THEN View(s, q) ELSE Last(snapshots)[q]])
        BY <2>2 DEF AppendEntry
      <3>2. Last(snapshots') = [q \in Objects |->
              IF q \in modified[s] THEN View(s, q) ELSE Last(snapshots)[q]]
        BY <2>0, <3>1 DEF TypeOK, Last
      <3> QED BY <1>1, <3>2
    <2>3. CASE ~EntryValidated(s) /\ ~AppendEntry(s)
      BY <2>3, LogFrame
    <2> QED BY <2>1, <2>2, <2>3
  <1> QED BY <1>2, <1>3

\* PageInv is inductive.
LEMMA NextPageInv ==
  ASSUME TypeInv, PageInv, NEW s \in Segs, Step(s)
  PROVE  PageInv'
  BY NextLockInv, NextPrivateInv, NextSharedInv DEF PageInv

\* StateInv and PageInv hold initially.
LEMMA InitStateAndPages == Init => StateInv /\ PageInv
  <1> SUFFICES ASSUME Init PROVE StateInv /\ PageInv
    OBVIOUS
  <1>1. StateInv /\ LockInv /\ PrivateInv
    BY SegsFacts DEF Init, StateInv, LockInv, PrivateInv, InWrite
  <1>2. SharedInv
    BY SegsFacts DEF Init, SharedInv, View, Page, Last
  <1> QED BY <1>1, <1>2 DEF PageInv


-----------------------------------------------------------------------------
(* What holds however slow a thread is.                                    *)

BaseInv == TypeInv /\ StateInv /\ PageInv

\* The parts that do not depend on OVERTAKING are inductive.
LEMMA BaseInvariant == Spec => []BaseInv
  <1>1. Init => BaseInv
    BY InitTypeInv, InitStateAndPages DEF BaseInv
  <1>2. BaseInv /\ [Next]_vars => BaseInv'
    <2> SUFFICES ASSUME BaseInv, [Next]_vars PROVE BaseInv'
      OBVIOUS
    <2>1. CASE Next
      BY <2>1, NextTypeInv, NextStateInv, NextPageInv DEF BaseInv, Next, Step
    <2>2. CASE UNCHANGED vars
      BY <2>2 DEF BaseInv, TypeInv, TypeOK, LogOK, DataOK, InWrite, StateInv, PageInv,
        LockInv, PrivateInv, SharedInv, View, Page, vars, txVars, valVars, writeVars,
        heapVars, pageVars, logVars
    <2> QED BY <2>1, <2>2
  <1> QED BY <1>1, <1>2, PTL DEF Spec

\* Between the entry of an inevitable transaction and its commit nobody
\* appends to the log (c8/stm/core.c: _validate_and_attach,
\* _validate_and_turn_inevitable).
THEOREM Inevitables == Spec => []InevitableHoldsTheLog
  <1>1. BaseInv => InevitableHoldsTheLog
    BY SegsFacts DEF BaseInv, StateInv, InevitableHoldsTheLog, InWrite
  <1> QED BY <1>1, BaseInvariant, PTL

\* Nobody writes to a page that somebody else sees, and all see the committed
\* contents of a shared one (c8/stm/core.c: _stm_write_slowpath,
\* _update_obj_from).
THEOREM PrivatePages == Spec => []PrivateWhenWritten
  <1>1. BaseInv => PrivateWhenWritten
    BY DEF BaseInv, TypeInv, DataOK, PageInv, PrivateInv, SharedInv, PrivateWhenWritten
  <1> QED BY <1>1, BaseInvariant, PTL


-----------------------------------------------------------------------------
(* Contents.  From here on, nobody is overtaken between the append of his  *)
(* entry and the removal of his backup copies.                             *)

\* The log as seen from one segment.
LEMMA SameLog ==
  ASSUME UNCHANGED <<last, log, snapshots>>, NEW r \in Segs
  PROVE  /\ Own(r)' <=> Own(r)
         /\ Author(r)' = Author(r)
         /\ Snapshot(r)' = Snapshot(r)
         /\ Last(snapshots') = Last(snapshots)
         /\ \A o \in Objects : /\ Coming(r, o)' <=> Coming(r, o)
                               /\ Later(r, o)' <=> Later(r, o)
  BY DEF Own, Author, Snapshot, Coming, Later

\* LogInv is about the log alone.
LEMMA SameLogInv ==
  ASSUME LogInv, UNCHANGED <<last, log, snapshots>>
  PROVE  LogInv'
  BY DEF LogInv, WrittenSince

\* What the segments see of the pages if nobody writes to them.
LEMMA SameViews ==
  ASSUME TypeInv, LockInv, NEW s \in Segs, Step(s),
         pages' = pages \/ RemapPage(s), NEW r \in Segs, NEW o \in Objects
  PROVE  View(r, o)' = View(r, o)
  <1>1. CASE RemapPage(s)
    BY <1>1, RemapKeeps
  <1>2. CASE ~RemapPage(s)
    BY <1>2, PageFrame DEF LookAtPage, PagePrivatized, View, Page, pageVars
  <1> QED BY <1>1, <1>2

\* What a segment does to the contents of one object.
LEMMA OneObject ==
  ASSUME TypeInv, PageInv, NEW s \in Segs, NEW p \in Objects, NEW v \in Values,
         p \in modified[s] \cup todo[s],
         pages' = [pages EXCEPT ![Page(s, p)][p] = v],
         UNCHANGED pages_privatized
  PROVE  /\ View(s, p)' = v
         /\ \A o \in Objects \ {p} : View(s, o)' = View(s, o)
  <1>1. Page(s, p) = s
    BY DEF PageInv, PrivateInv, Page
  <1>2. TypeOK /\ \A o \in Objects : Page(s, o) \in Segs /\ Page(s, o)' = Page(s, o)
    BY Contents DEF TypeInv, Page
  <1>3. pages'[s][p] = v /\ \A o \in Objects \ {p}, i \in Segs : pages'[i][o] = pages[i][o]
    BY <1>1, <1>2 DEF TypeOK
  <1> QED BY <1>1, <1>2, <1>3 DEF View

\* Others do not disturb what holds of a segment, unless they change the log.
LEMMA OthersKept ==
  ASSUME BaseInv, WorkInv, NEW s \in Segs, Step(s), NEW r \in Segs \ {s},
         UNCHANGED <<last, log, snapshots>>
  PROVE  WorkOf(r)'
  <1>1. \A o \in Objects : View(r, o)' = View(r, o)
    BY OtherViews DEF BaseInv, PageInv
  <1>2. /\ pc'[r] = pc[r] /\ todo'[r] = todo[r] /\ needs_abort'[r] = needs_abort[r]
        /\ read'[r] = read[r] /\ seen'[r] = seen[r]
        /\ obj'[r] = obj[r] /\ bk_obj'[r] = bk_obj[r]
        /\ modified'[r] = modified[r] /\ backup'[r] = backup[r]
    BY Frame DEF BaseInv
  <1>3. /\ WorkOf(r) /\ (Own(r)' <=> Own(r))
        /\ Author(r)' = Author(r) /\ Snapshot(r)' = Snapshot(r)
        /\ \A o \in Objects : /\ Coming(r, o)' <=> Coming(r, o)
                              /\ Later(r, o)' <=> Later(r, o)
    BY SameLog DEF WorkInv
  <1>4. OwnOf(r)'
    <2>1. modified[r] \subseteq Objects
      BY DEF BaseInv, TypeInv, TypeOK
    <2> QED BY <1>1, <1>2, <1>3, <2>1 DEF WorkOf, OwnOf, Nothing
  <1>5. BarrierOf(r)'
    <2>1. InWrite(r) => obj[r] \in Objects
      BY DEF BaseInv, TypeInv, DataOK
    <2> QED BY <1>1, <1>2, <1>3, <2>1 DEF WorkOf, BarrierOf, InWrite
  <1>6. ASSUME NEW o \in Objects PROVE (CopyOf(r, o) /\ ReadOf(r, o) /\ SnapshotOf(r, o))'
    <2>1. Committed(r, o)' = Committed(r, o) /\ (Pending(r, o)' <=> Pending(r, o))
      BY <1>1, <1>2, <1>3 DEF Committed, Pending
    <2> QED BY <1>1, <1>2, <1>3, <2>1 DEF WorkOf, CopyOf, ReadOf, SnapshotOf, Valid
  <1> QED BY <1>4, <1>5, <1>6 DEF WorkOf


\* Privatizing a page disturbs nothing.
LEMMA PrivatizeKeeps ==
  ASSUME BaseInv, WorkInv, NEW s \in Segs,
         LookAtPage(s) \/ RemapPage(s) \/ PagePrivatized(s)
  PROVE  WorkOf(s)'
  <1>1. /\ InWrite(s) /\ InWrite(s)' /\ UNCHANGED <<last, log, snapshots>>
        /\ UNCHANGED <<todo, needs_abort, read, seen, obj, bk_obj, modified, backup>>
        /\ pages' = pages \/ RemapPage(s)
    BY DEF LookAtPage, RemapPage, PagePrivatized, Goto, InWrite, txVars, valVars,
      writeVars, heapVars, logVars, BaseInv, TypeInv, TypeOK
  <1>2. \A o \in Objects : View(s, o)' = View(s, o)
    BY <1>1, SameViews DEF BaseInv, PageInv, Step, Library
  <1>3. /\ WorkOf(s) /\ (Own(s)' <=> Own(s)) /\ ~Own(s)
        /\ Author(s)' = Author(s) /\ Snapshot(s)' = Snapshot(s)
        /\ \A o \in Objects : /\ Coming(s, o)' <=> Coming(s, o)
                              /\ Later(s, o)' <=> Later(s, o)
    BY <1>1, SameLog DEF WorkInv, WorkOf, OwnOf, InWrite
  <1>4. OwnOf(s)' /\ BarrierOf(s)'
    BY <1>1, <1>2, <1>3 DEF WorkOf, OwnOf, BarrierOf, InWrite, BaseInv, TypeInv, DataOK
  <1>5. ASSUME NEW o \in Objects PROVE (CopyOf(s, o) /\ ReadOf(s, o) /\ SnapshotOf(s, o))'
    <2>1. Committed(s, o)' = Committed(s, o) /\ (Pending(s, o)' <=> Pending(s, o))
      BY <1>1, <1>2, <1>3 DEF Committed, Pending, InWrite
    <2> QED BY <1>1, <1>2, <1>3, <2>1
            DEF WorkOf, CopyOf, ReadOf, SnapshotOf, Valid, InWrite
  <1> QED BY <1>4, <1>5 DEF WorkOf

\* The backup copy is the last committed contents.
LEMMA RegisterKeeps ==
  ASSUME BaseInv, WorkInv, NEW s \in Segs, RegisterBackup(s)
  PROVE  WorkOf(s)'
  <1> DEFINE p == obj[s]
  <1>0. TypeOK
    BY DEF BaseInv, TypeInv
  <1>1. /\ pc[s] = "barrier" /\ pc'[s] = "run" /\ UNCHANGED <<last, log, snapshots>>
        /\ UNCHANGED <<todo, needs_abort, read, seen, pages, pages_privatized>>
        /\ modified'[s] = modified[s] \cup {p}
        /\ backup'[s] = [backup[s] EXCEPT ![p] = bk_obj[s]]
    BY <1>0 DEF RegisterBackup, Goto, txVars, valVars, pageVars, logVars, TypeOK
  <1>2. \A o \in Objects : View(s, o)' = View(s, o)
    BY <1>1 DEF View, Page
  <1>3. /\ WorkOf(s) /\ (Own(s)' <=> Own(s)) /\ ~Own(s)
        /\ Author(s)' = Author(s) /\ Snapshot(s)' = Snapshot(s)
        /\ \A o \in Objects : /\ Coming(s, o)' <=> Coming(s, o)
                              /\ Later(s, o)' <=> Later(s, o)
    BY <1>1, SameLog DEF WorkInv, WorkOf, OwnOf
  <1>4. p \in Objects /\ p \notin modified[s] /\ p \in read[s] /\ bk_obj[s] = View(s, p)
    BY <1>1, <1>3 DEF WorkOf, BarrierOf, InWrite, BaseInv, TypeInv, DataOK
  <1>5. OwnOf(s)' /\ BarrierOf(s)'
    BY <1>1, <1>3, <1>4 DEF WorkOf, OwnOf, BarrierOf, InWrite
  <1>6. ASSUME NEW o \in Objects PROVE (CopyOf(s, o) /\ ReadOf(s, o) /\ SnapshotOf(s, o))'
    <2>1. Committed(s, o)' = Committed(s, o)
      <3>1. CASE o = p
        <4>1. backup'[s][o] = bk_obj[s]
          BY <1>0, <1>1, <3>1 DEF TypeOK
        <4> QED BY <1>1, <1>4, <3>1, <4>1 DEF Committed
      <3>2. CASE o # p
        <4>1. backup'[s][o] = backup[s][o]
          BY <1>0, <1>1, <3>2 DEF TypeOK
        <4> QED BY <1>1, <1>2, <3>2, <4>1 DEF Committed
      <3> QED BY <3>1, <3>2
    <2>2. Pending(s, o)' <=> Pending(s, o)
      BY <1>1, <1>3 DEF Pending
    <2> QED BY <1>1, <1>3, <2>1, <2>2 DEF WorkOf, CopyOf, ReadOf, SnapshotOf, Valid
  <1> QED BY <1>5, <1>6 DEF WorkOf

\* A first read returns the contents of the snapshot, and the backup copy has
\* them too.
LEMMA ReadKeeps ==
  ASSUME BaseInv, WorkInv, NEW s \in Segs, NEW p \in Objects,
         stm_read(s, p) \/ stm_write(s, p)
  PROVE  WorkOf(s)'
  <1>0. TypeOK /\ NULL \notin Values
    BY C8Assumption DEF BaseInv, TypeInv
  <1>1. /\ pc[s] = "run" /\ UNCHANGED <<last, log, snapshots>>
        /\ UNCHANGED <<todo, needs_abort, modified, backup, pages, pages_privatized>>
        /\ MarkRead(s, p)
        /\ \/ pc'[s] = "run"
           \/ /\ pc'[s] = "write" /\ p \notin modified[s]
              /\ obj'[s] = p /\ bk_obj'[s] = View(s, p)
    BY <1>0 DEF stm_read, stm_write, Goto, valVars, pageVars, heapVars, logVars, TypeOK
  <1>2. \A o \in Objects : View(s, o)' = View(s, o)
    BY <1>1 DEF View, Page
  <1>3. /\ WorkOf(s) /\ (Own(s)' <=> Own(s)) /\ ~Own(s)
        /\ Author(s)' = Author(s) /\ Snapshot(s)' = Snapshot(s)
        /\ \A o \in Objects : /\ Coming(s, o)' <=> Coming(s, o)
                              /\ Later(s, o)' <=> Later(s, o)
    BY <1>1, SameLog DEF WorkInv, WorkOf, OwnOf
  <1>4. /\ read'[s] = read[s] \cup {p}
        /\ \A o \in Objects : \/ seen'[s][o] = seen[s][o]
                              \/ /\ o = p /\ p \notin modified[s]
                                 /\ seen'[s][o] = View(s, p)
    BY <1>0, <1>1 DEF MarkRead, TypeOK
  <1>5. OwnOf(s)'
    BY <1>1, <1>3 DEF WorkOf, OwnOf
  <1>6. BarrierOf(s)'
    BY <1>1, <1>2, <1>3, <1>4 DEF WorkOf, BarrierOf, InWrite
  <1>7. ASSUME NEW o \in Objects PROVE (CopyOf(s, o) /\ ReadOf(s, o) /\ SnapshotOf(s, o))'
    <2>1. Committed(s, o)' = Committed(s, o) /\ (Pending(s, o)' <=> Pending(s, o))
      BY <1>1, <1>2, <1>3 DEF Committed, Pending
    <2>2. seen'[s][o] \in {seen[s][o], Committed(s, o)}
      BY <1>4 DEF Committed
    <2> QED BY <1>1, <1>3, <2>1, <2>2 DEF WorkOf, CopyOf, ReadOf, SnapshotOf, Valid
  <1> QED BY <1>5, <1>6, <1>7 DEF WorkOf

\* A store changes nothing that is committed.
LEMMA StoreKeeps ==
  ASSUME BaseInv, WorkInv, NEW s \in Segs, NEW p \in Objects, NEW v \in Values,
         Store(s, p, v)
  PROVE  WorkOf(s)'
  <1>1. /\ pc[s] = "run" /\ pc' = pc /\ UNCHANGED <<last, log, snapshots>>
        /\ UNCHANGED <<todo, needs_abort, read, seen, obj, bk_obj, modified, backup>>
        /\ UNCHANGED pages_privatized
        /\ p \in modified[s] /\ pages' = [pages EXCEPT ![Page(s, p)][p] = v]
    BY DEF Store, txVars, valVars, writeVars, pageVars, logVars
  <1>2. \A o \in Objects \ {p} : View(s, o)' = View(s, o)
    BY <1>1, OneObject DEF BaseInv
  <1>3. /\ WorkOf(s) /\ (Own(s)' <=> Own(s)) /\ ~Own(s)
        /\ Author(s)' = Author(s) /\ Snapshot(s)' = Snapshot(s)
        /\ \A o \in Objects : /\ Coming(s, o)' <=> Coming(s, o)
                              /\ Later(s, o)' <=> Later(s, o)
    BY <1>1, SameLog DEF WorkInv, WorkOf, OwnOf
  <1>4. OwnOf(s)' /\ BarrierOf(s)'
    BY <1>1, <1>3 DEF WorkOf, OwnOf, BarrierOf, InWrite
  <1>5. ASSUME NEW o \in Objects PROVE (CopyOf(s, o) /\ ReadOf(s, o) /\ SnapshotOf(s, o))'
    <2>1. Committed(s, o)' = Committed(s, o) /\ (Pending(s, o)' <=> Pending(s, o))
      BY <1>1, <1>2, <1>3 DEF Committed, Pending
    <2> QED BY <1>1, <1>3, <2>1 DEF WorkOf, CopyOf, ReadOf, SnapshotOf, Valid
  <1> QED BY <1>4, <1>5 DEF WorkOf


\* Starting to follow an entry.
LEMMA NextEntryKeeps ==
  ASSUME BaseInv, WorkInv, NEW s \in Segs, NextEntry(s)
  PROVE  WorkOf(s)'
  <1>1. /\ pc[s] = "validate" /\ pc'[s] = "update" /\ last[s] < Len(log)
        /\ UNCHANGED <<last, log, snapshots>>
        /\ UNCHANGED <<needs_abort, read, seen, modified, backup, pages, pages_privatized>>
        /\ todo'[s] = log[last[s] + 1].written
    BY DEF NextEntry, Goto, txVars, heapVars, pageVars, logVars, BaseInv, TypeInv, TypeOK
  <1>2. \A o \in Objects : View(s, o)' = View(s, o)
    BY <1>1 DEF View, Page
  <1>3. /\ WorkOf(s) /\ (Own(s)' <=> Own(s))
        /\ Author(s)' = Author(s)
        /\ \A o \in Objects : /\ Coming(s, o)' <=> Coming(s, o)
                              /\ Later(s, o)' <=> Later(s, o)
    BY <1>1, SameLog DEF WorkInv
  <1>4. OwnOf(s)' /\ BarrierOf(s)'
    BY <1>1, <1>3 DEF WorkOf, OwnOf, BarrierOf, InWrite, Nothing
  <1>5. ASSUME NEW o \in Objects PROVE (CopyOf(s, o) /\ ReadOf(s, o) /\ SnapshotOf(s, o))'
    <2>1. Committed(s, o)' = Committed(s, o) /\ (Pending(s, o)' <=> Pending(s, o))
      BY <1>1, <1>2, <1>3 DEF Committed, Pending, Coming
    <2> QED BY <1>1, <1>3, <2>1 DEF WorkOf, CopyOf, ReadOf, SnapshotOf, Valid
  <1> QED BY <1>4, <1>5 DEF WorkOf

\* What the author of an entry has of its objects is what the last entry left
\* of them, unless they are in a later entry.
LEMMA AuthorsCopy ==
  ASSUME BaseInv, WorkInv, NEW s \in Segs, NEW o \in Objects, pc[s] = "update",
         o \in todo[s], pc[Author(s)] # "clear", ~Later(s, o)
  PROVE  Committed(Author(s), o) = Last(snapshots)[o]
  <1> DEFINE a == Author(s)
  <1>1. a \in Segs /\ last[s] + 1 \in 1..Len(log) /\ last[s] \in Nat /\ Len(log) \in Nat
    BY AuthorOfNext DEF BaseInv, TypeInv, TypeOK
  <1>2. last[s] <= last[a] /\ last[a] \in Nat
    <2>1. last[s] + 1 <= last[log[last[s] + 1].segment_num] + 1
      BY <1>1 DEF WorkInv, LogInv
    <2>2. last[a] \in Nat
      BY <1>1 DEF BaseInv, TypeInv, TypeOK
    <2> QED BY <1>1, <2>1, <2>2 DEF Author
  <1>3. \A i \in (last[s] + 2)..Len(log) : o \notin log[i].written
    BY DEF Later
  <1>4. ~Later(a, o)
    BY <1>1, <1>2, <1>3 DEF Later
  <1>5. CASE last[a] = last[s]
    <2>1. Author(a) = a
      BY <1>5 DEF Author
    <2> QED BY <1>1, <1>4, <2>1 DEF Pending, WorkInv, WorkOf, CopyOf
  <1>6. CASE last[a] # last[s]
    <2>1. ~Coming(a, o)
      BY <1>1, <1>2, <1>3, <1>6 DEF Coming
    <2> QED BY <1>1, <1>4, <2>1 DEF Pending, WorkInv, WorkOf, CopyOf
  <1> QED BY <1>5, <1>6

\* Copying one object of an entry.
LEMMA UpdateKeeps ==
  ASSUME BaseInv, WorkInv, OVERTAKING = FALSE, NEW s \in Segs, NEW p \in Objects,
         _update_obj_from(s, p)
  PROVE  WorkOf(s)'
  <1> DEFINE v == Committed(Author(s), p)
  <1>0. TypeInv /\ TypeOK /\ Author(s) \in Segs
    BY AuthorOfNext DEF BaseInv, TypeInv, _update_obj_from
  <1>1. /\ pc[s] = "update" /\ pc'[s] = "check" /\ p \in todo[s] /\ obj'[s] = p
        /\ pc[Author(s)] # "clear"
        /\ UNCHANGED <<last, log, snapshots>>
        /\ UNCHANGED <<todo, needs_abort, read, seen, modified, backup, pages_privatized>>
        /\ pages' = [pages EXCEPT ![Page(s, p)][p] = v]
    BY <1>0 DEF _update_obj_from, Goto, txVars, valVars, pageVars, logVars, TypeOK
  <1>2. View(s, p)' = v /\ \A o \in Objects \ {p} : View(s, o)' = View(s, o)
    BY <1>0, <1>1, OneObject, Contents DEF BaseInv
  <1>3. /\ WorkOf(s) /\ (Own(s)' <=> Own(s))
        /\ Author(s)' = Author(s) /\ Last(snapshots') = Last(snapshots)
        /\ \A o \in Objects : /\ Coming(s, o)' <=> Coming(s, o)
                              /\ Later(s, o)' <=> Later(s, o)
    BY <1>1, SameLog DEF WorkInv
  <1>4. OwnOf(s)' /\ BarrierOf(s)'
    BY <1>1, <1>3 DEF WorkOf, OwnOf, BarrierOf, InWrite, Nothing
  <1>5. ~Later(s, p) => View(s, p)' = Last(snapshots')[p]
    BY <1>1, <1>2, <1>3, AuthorsCopy
  <1>6. Coming(s, p)
    BY <1>0, <1>1 DEF Coming, TypeInv, LogOK
  <1>7. ASSUME NEW o \in Objects PROVE Pending(s, o)' <=> Pending(s, o)
    BY <1>1, <1>3 DEF Pending
  <1>8. ASSUME NEW o \in Objects PROVE CopyOf(s, o)'
    <2>1. CASE o = p
      <3>1. CASE Author(s) = s
        <4>1. modified[s] = {}
          BY <1>1, <1>3, <3>1, <1>6 DEF WorkOf, OwnOf, Own, Coming
        <4>2. Committed(s, o)' = View(s, o)'
          BY <1>1, <4>1 DEF Committed
        <4>3. ~Pending(s, o) => ~Later(s, o)
          BY DEF Pending
        <4> QED BY <1>1, <1>3, <1>5, <1>7, <2>1, <4>2, <4>3 DEF CopyOf
      <3>2. CASE Author(s) # s
        <4>1. Pending(s, o)
          BY <1>1, <1>6, <2>1, <3>2 DEF Pending
        <4> QED BY <1>1, <1>3, <1>5, <1>7, <2>1, <4>1 DEF CopyOf
      <3> QED BY <3>1, <3>2
    <2>2. CASE o # p
      <3>1. Committed(s, o)' = Committed(s, o)
        BY <1>1, <1>2, <2>2 DEF Committed
      <3> QED BY <1>1, <1>3, <1>7, <2>2, <3>1 DEF WorkOf, CopyOf
    <2> QED BY <2>1, <2>2
  <1>9. ASSUME NEW o \in Objects PROVE (ReadOf(s, o) /\ SnapshotOf(s, o))'
    BY <1>1, <1>3, <1>7 DEF WorkOf, ReadOf, SnapshotOf, Valid
  <1> QED BY <1>4, <1>8, <1>9 DEF WorkOf

\* Looking whether the copied object was read.
LEMMA CheckKeeps ==
  ASSUME BaseInv, WorkInv, NEW s \in Segs, CheckRead(s)
  PROVE  WorkOf(s)'
  <1> DEFINE p == obj[s]
  <1>0. TypeInv /\ TypeOK /\ p \in Objects
    BY DEF BaseInv, TypeInv, DataOK, TypeOK, CheckRead
  <1>1. /\ pc[s] = "check" /\ pc'[s] = "update"
        /\ UNCHANGED <<last, log, snapshots>>
        /\ UNCHANGED <<read, seen, pages, pages_privatized>>
        /\ todo'[s] = todo[s] \ {p}
        /\ \/ /\ p \in read[s] /\ needs_abort'[s] = TRUE
              /\ modified'[s] = modified[s] \ {p}
              /\ backup'[s] = [backup[s] EXCEPT ![p] = NULL]
           \/ p \notin read[s] /\ UNCHANGED <<needs_abort, modified, backup>>
    BY <1>0 DEF CheckRead, Conflict, ForgetBackup, Goto, txVars, pageVars, logVars, TypeOK
  <1>2. \A o \in Objects : View(s, o)' = View(s, o)
    BY <1>1 DEF View, Page
  <1>3. /\ WorkOf(s) /\ (Own(s)' <=> Own(s))
        /\ Author(s)' = Author(s) /\ Last(snapshots') = Last(snapshots)
        /\ \A o \in Objects : /\ Coming(s, o)' <=> Coming(s, o)
                              /\ Later(s, o)' <=> Later(s, o)
    BY <1>1, SameLog DEF WorkInv
  <1>4. OwnOf(s)' /\ BarrierOf(s)'
    BY <1>1, <1>3 DEF WorkOf, OwnOf, BarrierOf, InWrite, Nothing
  <1>5. \A o \in Objects \ {p} : /\ o \in todo'[s] <=> o \in todo[s]
                                 /\ o \in modified'[s] <=> o \in modified[s]
                                 /\ backup'[s][o] = backup[s][o]
    BY <1>0, <1>1 DEF TypeOK
  <1>6. ASSUME NEW o \in Objects PROVE (CopyOf(s, o) /\ ReadOf(s, o) /\ SnapshotOf(s, o))'
    <2>1. CASE o = p
      <3>1. p \notin modified'[s]
        BY <1>1, <1>3 DEF WorkOf, BarrierOf
      <3>2. Committed(s, o)' = View(s, o)
        BY <1>2, <2>1, <3>1 DEF Committed
      <3>3. ~Pending(s, o)' => ~Later(s, o)
        BY <1>3 DEF Pending
      <3>4. needs_abort'[s] \/ seen[s][o] = NULL
        BY <1>1, <1>3, <2>1 DEF WorkOf, BarrierOf
      <3> QED BY <1>1, <1>3, <2>1, <3>2, <3>3, <3>4
              DEF WorkOf, CopyOf, ReadOf, SnapshotOf, Valid
    <2>2. CASE o # p
      <3>1. Committed(s, o)' = Committed(s, o) /\ (Pending(s, o)' <=> Pending(s, o))
        BY <1>1, <1>2, <1>3, <1>5, <2>2 DEF Committed, Pending
      <3> QED BY <1>1, <1>3, <3>1 DEF WorkOf, CopyOf, ReadOf, SnapshotOf, Valid
    <2> QED BY <2>1, <2>2
  <1> QED BY <1>4, <1>6 DEF WorkOf

\* At the end of the log the snapshot is the last one.
LEMMA ValidatedKeeps ==
  ASSUME BaseInv, WorkInv, NEW s \in Segs, Validated(s)
  PROVE  WorkOf(s)'
  <1>0. TypeInv /\ TypeOK
    BY DEF BaseInv, TypeInv
  <1>1. /\ pc[s] = "validate" /\ last[s] = Len(log)
        /\ pc'[s] \in {"abort", "run", "append", "turn"}
        /\ needs_abort[s] => pc'[s] = "abort"
        /\ UNCHANGED <<last, log, snapshots>>
        /\ UNCHANGED <<todo, needs_abort, read, seen, modified, backup, pages, pages_privatized>>
    BY <1>0 DEF Validated, AtEnd, Goto, txVars, valVars, heapVars, pageVars, logVars, TypeOK
  <1>2. \A o \in Objects : View(s, o)' = View(s, o)
    BY <1>1 DEF View, Page
  <1>3. /\ WorkOf(s) /\ ~Own(s)' /\ Snapshot(s)' = Last(snapshots)
        /\ Last(snapshots') = Last(snapshots)
        /\ \A o \in Objects : /\ ~Coming(s, o) /\ ~Coming(s, o)'
                              /\ ~Later(s, o) /\ ~Later(s, o)'
    <2>1. last[s] \in Nat /\ Len(log) \in Nat
      BY <1>0 DEF TypeOK
    <2>2. Snapshot(s)' = Last(snapshots)
      BY <1>0, <1>1, <2>1 DEF Snapshot, Last, TypeInv, LogOK
    <2> QED BY <1>1, <2>1, <2>2 DEF WorkInv, Own, Coming, Later
  <1>4. OwnOf(s)' /\ BarrierOf(s)'
    BY <1>1, <1>3 DEF WorkOf, OwnOf, BarrierOf, InWrite
  <1>5. ASSUME NEW o \in Objects PROVE (CopyOf(s, o) /\ ReadOf(s, o) /\ SnapshotOf(s, o))'
    <2>1. Committed(s, o)' = Committed(s, o) /\ ~Pending(s, o)' /\ ~Pending(s, o)
      BY <1>1, <1>2, <1>3 DEF Committed, Pending
    <2> QED BY <1>1, <1>3, <2>1 DEF WorkOf, CopyOf, ReadOf, SnapshotOf, Valid
  <1> QED BY <1>4, <1>5 DEF WorkOf


\* The steps between running and validating.
LEMMA TurnsKeep ==
  ASSUME BaseInv, WorkInv, NEW s \in Segs,
         \/ StartCommit(s) \/ StartAbort(s) \/ BecomeInevitable(s)
         \/ TurnInevitable(s) \/ AppendFailed(s)
  PROVE  WorkOf(s)'
  <1>1. /\ pc[s] \in {"run", "append", "turn"}
        /\ pc'[s] \in {"run", "append", "validate", "abort"}
        /\ UNCHANGED <<last, log, snapshots>>
        /\ UNCHANGED <<todo, needs_abort, read, seen, modified, backup, pages, pages_privatized>>
    BY DEF StartCommit, StartAbort, BecomeInevitable, TurnInevitable, AppendFailed,
      Goto, txVars, valVars, heapVars, pageVars, logVars, BaseInv, TypeInv, TypeOK
  <1>2. (pc'[s] \in {"run", "append"} => pc[s] \in {"run", "append", "turn"})
    BY <1>1
  <1>3. \A o \in Objects : View(s, o)' = View(s, o)
    BY <1>1 DEF View, Page
  <1>4. /\ WorkOf(s) /\ (Own(s)' <=> Own(s)) /\ ~Own(s)
        /\ Author(s)' = Author(s) /\ Snapshot(s)' = Snapshot(s)
        /\ \A o \in Objects : /\ Coming(s, o)' <=> Coming(s, o)
                              /\ Later(s, o)' <=> Later(s, o)
    BY <1>1, SameLog DEF WorkInv, WorkOf, OwnOf
  <1>5. OwnOf(s)' /\ BarrierOf(s)'
    BY <1>1, <1>4 DEF WorkOf, OwnOf, BarrierOf, InWrite
  <1>6. ASSUME NEW o \in Objects PROVE (CopyOf(s, o) /\ ReadOf(s, o) /\ SnapshotOf(s, o))'
    <2>1. Committed(s, o)' = Committed(s, o) /\ (Pending(s, o)' <=> Pending(s, o))
      BY <1>1, <1>3, <1>4 DEF Committed, Pending
    <2> QED BY <1>1, <1>4, <2>1 DEF WorkOf, CopyOf, ReadOf, SnapshotOf, Valid
  <1> QED BY <1>5, <1>6 DEF WorkOf

\* A transaction starts with nothing read or written.
LEMMA StartKeeps ==
  ASSUME BaseInv, WorkInv, NEW s \in Segs, stm_start_transaction(s)
  PROVE  WorkOf(s)'
  <1>1. /\ pc[s] = "none" /\ pc'[s] = "validate"
        /\ UNCHANGED <<last, log, snapshots>>
        /\ UNCHANGED <<todo, needs_abort, seen, modified, backup, pages, pages_privatized>>
    BY DEF stm_start_transaction, Goto, heapVars, pageVars, logVars,
      BaseInv, TypeInv, TypeOK
  <1>2. \A o \in Objects : View(s, o)' = View(s, o)
    BY <1>1 DEF View, Page
  <1>3. /\ WorkOf(s) /\ (Own(s)' <=> Own(s))
        /\ Author(s)' = Author(s)
        /\ \A o \in Objects : /\ Coming(s, o)' <=> Coming(s, o)
                              /\ Later(s, o)' <=> Later(s, o)
    BY <1>1, SameLog DEF WorkInv
  <1>4. modified[s] = {} /\ \A o \in Objects : seen[s][o] = NULL
    BY <1>1, <1>3 DEF WorkOf, OwnOf, Nothing
  <1>5. OwnOf(s)' /\ BarrierOf(s)'
    BY <1>1, <1>3, <1>4 DEF WorkOf, OwnOf, BarrierOf, InWrite, Nothing
  <1>6. ASSUME NEW o \in Objects PROVE (CopyOf(s, o) /\ ReadOf(s, o) /\ SnapshotOf(s, o))'
    <2>1. Committed(s, o)' = Committed(s, o) /\ (Pending(s, o)' <=> Pending(s, o))
      BY <1>1, <1>2, <1>3 DEF Committed, Pending
    <2> QED BY <1>1, <1>3, <1>4, <2>1 DEF WorkOf, CopyOf, ReadOf, SnapshotOf, Valid
  <1> QED BY <1>5, <1>6 DEF WorkOf

\* Once the backup copies are gone, what was written is committed.
LEMMA ClearKeeps ==
  ASSUME BaseInv, WorkInv, NEW s \in Segs, ClearBackups(s)
  PROVE  WorkOf(s)'
  <1>0. TypeInv /\ TypeOK /\ last[s] \in Nat /\ Len(log) \in Nat
    BY DEF BaseInv, TypeInv, TypeOK
  <1>1. /\ pc[s] = "clear" /\ pc'[s] = "none"
        /\ UNCHANGED <<last, log, snapshots, todo, pages, pages_privatized>>
        /\ modified'[s] = {} /\ seen'[s] = Nothing
    BY <1>0 DEF ClearBackups, Finish, Goto, valVars, pageVars, logVars, TypeOK
  <1>2. \A o \in Objects : View(s, o)' = View(s, o)
    BY <1>1 DEF View, Page
  <1>3. /\ WorkOf(s) /\ Own(s) /\ Own(s)'
        /\ Author(s)' = Author(s) /\ Last(snapshots') = Last(snapshots)
        /\ modified[s] = log[last[s] + 1].written
        /\ \A o \in Objects : Later(s, o)' <=> Later(s, o)
    BY <1>1, SameLog DEF WorkInv, WorkOf, OwnOf
  <1>4. OwnOf(s)' /\ BarrierOf(s)'
    BY <1>1, <1>3 DEF OwnOf, BarrierOf, InWrite, Nothing
  <1>5. ASSUME NEW o \in Objects PROVE (CopyOf(s, o) /\ ReadOf(s, o) /\ SnapshotOf(s, o))'
    <2>1. Committed(s, o)' = View(s, o)
      BY <1>1, <1>2 DEF Committed
    <2>2. ASSUME ~Later(s, o) PROVE View(s, o) = Last(snapshots)[o]
      <3>1. CASE o \in modified[s]
        <4>1. View(s, o) = snapshots[last[s] + 2][o]
          BY <1>1, <1>3, <3>1 DEF WorkOf, OwnOf
        <4>2. last[s] + 2 \in 1..Len(snapshots)
          BY <1>0, <1>3 DEF Own, TypeInv, LogOK
        <4>3. ~WrittenSince(last[s] + 2, o)
          BY <2>2 DEF Later, WrittenSince
        <4> QED BY <4>1, <4>2, <4>3 DEF WorkInv, LogInv
      <3>2. CASE o \notin modified[s]
        <4>1. ~Pending(s, o)
          BY <1>3, <2>2, <3>2 DEF Pending, Coming
        <4> QED BY <1>3, <3>2, <4>1 DEF WorkOf, CopyOf, Committed
      <3> QED BY <3>1, <3>2
    <2>3. ~Pending(s, o)' => ~Later(s, o)
      BY <1>3 DEF Pending
    <2> QED BY <1>1, <1>3, <2>1, <2>2, <2>3 DEF CopyOf, ReadOf, SnapshotOf, Valid
  <1> QED BY <1>4, <1>5 DEF WorkOf

\* An abort brings back what was committed.
LEMMA AbortKeeps ==
  ASSUME BaseInv, WorkInv, NEW s \in Segs, Abort(s)
  PROVE  WorkOf(s)'
  <1>0. TypeInv /\ TypeOK
    BY DEF BaseInv, TypeInv
  <1>1. /\ pc[s] = "abort" /\ pc'[s] = "none"
        /\ UNCHANGED <<last, log, snapshots, todo, pages_privatized>>
        /\ modified'[s] = {} /\ seen'[s] = Nothing
    BY <1>0 DEF Abort, Finish, Goto, pageVars, logVars, TypeOK
  <1>2. \A o \in Objects : View(s, o)' = Committed(s, o)
    <2> SUFFICES ASSUME NEW o \in Objects PROVE View(s, o)' = Committed(s, o)
      OBVIOUS
    <2>1. Page(s, o)' = Page(s, o) /\ Page(s, o) \in Segs
      BY <1>0, <1>1, Contents DEF Page
    <2>2. pages'[Page(s, o)][o] =
            IF o \in modified[s] THEN backup[s][o] ELSE pages[Page(s, o)][o]
      BY <2>1 DEF Abort
    <2> QED BY <2>1, <2>2 DEF View, Committed
  <1>3. /\ WorkOf(s) /\ ~Own(s) /\ ~Own(s)'
        /\ Author(s)' = Author(s) /\ Last(snapshots') = Last(snapshots)
        /\ \A o \in Objects : /\ Coming(s, o)' <=> Coming(s, o)
                              /\ Later(s, o)' <=> Later(s, o)
    BY <1>1, SameLog DEF WorkInv, WorkOf, OwnOf
  <1>4. OwnOf(s)' /\ BarrierOf(s)'
    BY <1>1, <1>3 DEF OwnOf, BarrierOf, InWrite, Nothing
  <1>5. ASSUME NEW o \in Objects PROVE (CopyOf(s, o) /\ ReadOf(s, o) /\ SnapshotOf(s, o))'
    <2>1. Committed(s, o)' = Committed(s, o) /\ (Pending(s, o)' <=> Pending(s, o))
      BY <1>1, <1>2, <1>3 DEF Committed, Pending
    <2> QED BY <1>1, <1>3, <2>1 DEF WorkOf, CopyOf, ReadOf, SnapshotOf, Valid
  <1> QED BY <1>4, <1>5 DEF WorkOf

\* Leaving out the entries that everybody has seen.
LEMMA EntryKeeps ==
  ASSUME BaseInv, WorkInv, NEW s \in Segs, EntryValidated(s)
  PROVE  WorkInv'
  <1> DEFINE p == [last EXCEPT ![s] = @ + 1]
  <1>0. TypeInv /\ TypeOK /\ LogOK /\ TypeInv'
    BY NextTypeInv DEF BaseInv, TypeInv, Next, Library
  <1>1. /\ pc[s] = "update" /\ todo[s] = {} /\ pc' = [pc EXCEPT ![s] = "validate"]
        /\ UNCHANGED <<todo, needs_abort, read, seen, obj, bk_obj, modified, backup>>
        /\ UNCHANGED <<pages, pages_privatized>>
    BY DEF EntryValidated, Goto, txVars, writeVars, heapVars, pageVars
  <1>2. p \in [Segs -> Nat] /\ p[s] = last[s] + 1 /\ last[s] < Len(log)
        /\ \A q \in Segs : last[q] \in Nat /\ p[q] <= Len(log) /\ (q # s => p[q] = last[q])
    BY <1>0, <1>1 DEF LogOK, TypeOK
  <1>3. Shortened(p)
    BY DEF EntryValidated
  <1> HIDE DEF p
  <1>4. PICK n \in Nat :
           /\ n <= Len(log) /\ \A r \in Segs : n <= p[r]
           /\ last' = [r \in Segs |-> p[r] - n]
           /\ log' \in Seq(Entries) /\ Len(log') = Len(log) - n
           /\ \A i \in 1..Len(log') : log'[i] = log[i + n]
           /\ snapshots' \in Seq([Objects -> Values])
           /\ Len(snapshots') = Len(snapshots) - n
           /\ \A i \in 1..Len(snapshots') : snapshots'[i] = snapshots[i + n]
           /\ Last(snapshots') = Last(snapshots)
    BY <1>0, <1>2, <1>3, ShortenedBy
  <1>5. Len(log) \in Nat /\ Len(snapshots) = Len(log) + 1
    BY <1>0 DEF LogOK, TypeOK
  <1>6. LogInv'
    <2>1. ASSUME NEW i \in 1..Len(snapshots'), NEW o \in Objects, ~WrittenSince(i, o)'
          PROVE  snapshots'[i][o] = Last(snapshots')[o]
      <3>1. i + n \in 1..Len(snapshots)
        BY <1>4, <1>5
      <3>2. ~WrittenSince(i + n, o)
        <4> SUFFICES ASSUME NEW j \in (i + n)..Len(log), o \in log[j].written PROVE FALSE
          BY DEF WrittenSince
        <4>1. j - n \in i..Len(log') /\ j - n \in 1..Len(log') /\ (j - n) + n = j
          BY <1>4, <1>5, <3>1
        <4>2. log'[j - n] = log[j]
          BY <1>4, <4>1
        <4> QED BY <2>1, <4>1, <4>2 DEF WrittenSince
      <3> QED BY <1>4, <3>1, <3>2 DEF WorkInv, LogInv
    <2>2. ASSUME NEW i \in 1..Len(log') PROVE i <= last'[log'[i].segment_num] + 1
      <3> DEFINE a == log[i + n].segment_num
      <3>1. i + n \in 1..Len(log) /\ i \in Nat
        BY <1>4, <1>5
      <3>2. log[i + n] \in Entries
        BY <1>0, <3>1 DEF TypeOK
      <3>3. a \in Segs
        BY <3>2 DEF Entries
      <3>4. i + n <= last[a] + 1 /\ last[a] <= p[a] /\ p[a] \in Nat /\ last[a] \in Nat
        BY <1>2, <3>1, <3>3 DEF WorkInv, LogInv
      <3>5. last'[a] = p[a] - n
        BY <1>4, <3>3
      <3>6. i <= last'[a] + 1
        <4> HIDE DEF a
        <4> QED BY <1>4, <3>1, <3>4, <3>5
      <3> QED BY <1>4, <3>6
    <2> QED BY <2>1, <2>2 DEF LogInv
  <1>7. \A o \in Objects, r \in Segs : View(r, o)' = View(r, o)
    BY <1>1 DEF View, Page
  <1>8. ASSUME NEW r \in Segs, NEW k \in Nat \ {0}, p[r] + k <= Len(log)
        PROVE  log'[last'[r] + k] = log[p[r] + k]
    <2>1. last'[r] = p[r] - n /\ p[r] \in Nat /\ n <= p[r]
      BY <1>2, <1>4
    <2>2. last'[r] + k \in 1..Len(log') /\ (last'[r] + k) + n = p[r] + k
      BY <1>4, <1>5, <1>8, <2>1
    <2> QED BY <1>4, <2>2
  <1>9. ASSUME NEW r \in Segs, NEW k \in Nat \ {0}, p[r] + k <= Len(snapshots)
        PROVE  snapshots'[last'[r] + k] = snapshots[p[r] + k]
    <2>1. last'[r] = p[r] - n /\ p[r] \in Nat /\ n <= p[r]
      BY <1>2, <1>4
    <2>2. last'[r] + k \in 1..Len(snapshots') /\ (last'[r] + k) + n = p[r] + k
      BY <1>4, <1>5, <1>9, <2>1
    <2> QED BY <1>4, <2>2
  <1>10. ASSUME NEW r \in Segs, NEW o \in Objects
         PROVE  Later(r, o)' <=> \E i \in (p[r] + 2)..Len(log) : o \in log[i].written
    <2>1. last'[r] = p[r] - n /\ p[r] \in Nat /\ n <= p[r]
      BY <1>2, <1>4
    <2>2. ASSUME NEW i \in (p[r] + 2)..Len(log)
          PROVE  /\ i - n \in (last'[r] + 2)..Len(log') /\ log'[i - n] = log[i]
      <3>1. i - n \in (last'[r] + 2)..Len(log') /\ i - n \in 1..Len(log') /\ (i - n) + n = i
        BY <1>4, <1>5, <2>1
      <3> QED BY <1>4, <3>1
    <2>3. ASSUME NEW i \in (last'[r] + 2)..Len(log')
          PROVE  i + n \in (p[r] + 2)..Len(log) /\ log'[i] = log[i + n]
      <3>1. i + n \in (p[r] + 2)..Len(log) /\ i \in 1..Len(log')
        BY <1>4, <1>5, <2>1
      <3> QED BY <1>4, <3>1
    <2> QED BY <2>2, <2>3 DEF Later
  <1>11. ASSUME NEW r \in Segs
         PROVE  last'[r] < Len(log') <=> p[r] < Len(log)
    BY <1>2, <1>4, <1>5
  <1>12. ASSUME NEW r \in Segs \ {s} PROVE WorkOf(r)'
    <2>1. /\ pc'[r] = pc[r] /\ p[r] = last[r] /\ last[r] \in Nat /\ WorkOf(r)
      BY <1>0, <1>1, <1>2 DEF TypeOK, WorkInv
    <2>2. (last'[r] < Len(log') <=> last[r] < Len(log)) /\
          (last[r] < Len(log) => log'[last'[r] + 1] = log[last[r] + 1])
      BY <1>5, <1>8, <1>11, <2>1
    <2>3. Snapshot(r)' = Snapshot(r)
      BY <1>0, <1>5, <1>9, <2>1 DEF Snapshot, LogOK
    <2>4. Own(r)' <=> Own(r)
      BY <2>2 DEF Own, Author
    <2>5. Own(r) => snapshots'[last'[r] + 2] = snapshots[last[r] + 2]
      BY SMTT(30), <1>5, <1>9, <2>1 DEF Own
    <2>6. OwnOf(r)'
      <3>1. modified[r] \subseteq Objects
        BY <1>0 DEF TypeOK
      <3> QED BY <1>1, <1>7, <2>1, <2>2, <2>4, <2>5, <3>1
              DEF WorkOf, OwnOf, Nothing, Own
    <2>7. BarrierOf(r)'
      <3>1. InWrite(r) => obj[r] \in Objects
        BY <1>0 DEF TypeInv, DataOK
      <3> QED BY <1>1, <1>7, <2>1, <3>1 DEF WorkOf, BarrierOf, InWrite
    <2>8. ASSUME NEW o \in Objects
          PROVE  (CopyOf(r, o) /\ ReadOf(r, o) /\ SnapshotOf(r, o))'
      <3>1. (Later(r, o)' <=> Later(r, o)) /\ (Coming(r, o)' <=> Coming(r, o))
        BY <1>10, <2>1, <2>2 DEF Later, Coming
      <3>2. Coming(r, o) => Author(r)' = Author(r)
        BY <2>2 DEF Coming, Author
      <3>3. Committed(r, o)' = Committed(r, o) /\ (Pending(r, o)' <=> Pending(r, o))
        BY <1>1, <1>7, <2>1, <3>1, <3>2 DEF Committed, Pending
      <3> QED BY <1>1, <1>4, <1>7, <2>1, <2>3, <3>1, <3>3
              DEF WorkOf, CopyOf, ReadOf, SnapshotOf, Valid
    <2> QED BY <2>6, <2>7, <2>8 DEF WorkOf
  <1>13. WorkOf(s)'
    <2>1. pc'[s] = "validate" /\ WorkOf(s) /\ last[s] \in Nat
      BY <1>0, <1>1, <1>2 DEF TypeOK, WorkInv
    <2>2. ASSUME last'[s] < Len(log') PROVE Author(s)' # s
      <3>1. last[s] + 2 \in 1..Len(log)
        BY <1>2, <1>5, <1>11, <2>1, <2>2
      <3>2. log'[last'[s] + 1] = log[last[s] + 2]
        BY <1>2, <1>8, <2>1, <3>1
      <3>3. log[last[s] + 2].segment_num # s
        BY <2>1, <3>1 DEF WorkInv, LogInv
      <3> QED BY <3>2, <3>3 DEF Author
    <2>3. ~Own(s)'
      BY <2>2 DEF Own
    <2>4. OwnOf(s)' /\ BarrierOf(s)'
      BY <1>1, <2>1, <2>3 DEF WorkOf, OwnOf, BarrierOf, InWrite
    <2>5. ASSUME NEW o \in Objects
          PROVE  (CopyOf(s, o) /\ ReadOf(s, o) /\ SnapshotOf(s, o))'
      <3>1. Later(s, o) => Pending(s, o)'
        <4>1. ASSUME NEW i \in (last[s] + 2)..Len(log), o \in log[i].written
              PROVE  Pending(s, o)'
          <5>1. CASE i = last[s] + 2
            <6>1. last'[s] < Len(log') /\ log'[last'[s] + 1] = log[i]
              <7>1. p[s] + 1 = i /\ p[s] + 1 <= Len(log) /\ p[s] < Len(log)
                BY <1>2, <1>5, <2>1, <5>1
              <7>2. log'[last'[s] + 1] = log[p[s] + 1]
                BY <1>8, <7>1
              <7> QED BY <1>11, <7>1, <7>2
            <6> QED BY <2>1, <2>2, <4>1, <6>1 DEF Pending, Coming
          <5>2. CASE i # last[s] + 2
            <6>1. i \in (p[s] + 2)..Len(log)
              BY <1>2, <1>5, <2>1, <5>2
            <6> QED BY <1>10, <4>1, <6>1 DEF Pending
          <5> QED BY <5>1, <5>2
        <4> QED BY <4>1 DEF Later
      <3>2. Pending(s, o) => Later(s, o)
        BY <1>1 DEF Pending
      <3>3. Committed(s, o)' = Committed(s, o)
        BY <1>1, <1>7 DEF Committed
      <3> QED BY <1>1, <1>4, <2>1, <3>1, <3>2, <3>3
              DEF WorkOf, CopyOf, ReadOf, SnapshotOf, Valid
    <2> QED BY <2>4, <2>5 DEF WorkOf
  <1> QED BY <1>6, <1>12, <1>13 DEF WorkInv

\* A commit appends its entry and the contents that go with it.
LEMMA AppendKeeps ==
  ASSUME BaseInv, WorkInv, NEW s \in Segs, AppendEntry(s)
  PROVE  WorkInv'
  <1> DEFINE N == Len(log)
             e == [segment_num |-> s, written |-> modified[s]]
             f == [o \in Objects |->
                     IF o \in modified[s] THEN View(s, o) ELSE Last(snapshots)[o]]
  <1>0. TypeInv /\ TypeOK /\ LogOK /\ N \in Nat
    BY DEF BaseInv, TypeInv, TypeOK
  <1>1. /\ pc[s] = "append" /\ pc' = [pc EXCEPT ![s] = "clear"]
        /\ log' = Append(log, e) /\ snapshots' = Append(snapshots, f)
        /\ UNCHANGED <<last, todo, needs_abort, read, seen, obj, bk_obj, modified, backup>>
        /\ UNCHANGED <<pages, pages_privatized>>
    BY DEF AppendEntry, Goto, txVars, writeVars, heapVars, pageVars
  <1>2. last[s] = N
    BY DEF AppendEntry, MayAppend, FreeEnd, AtEnd, BaseInv, StateInv
  <1>3. /\ Len(log') = N + 1 /\ log'[N + 1] = e
        /\ \A i \in 1..N : log'[i] = log[i]
    BY <1>0, <1>1 DEF TypeOK
  <1>4. /\ Len(snapshots) = N + 1 /\ Len(snapshots') = N + 2 /\ Last(snapshots') = f
        /\ \A i \in 1..(N + 1) : snapshots'[i] = snapshots[i]
    BY <1>0, <1>1 DEF TypeOK, LogOK, Last
  <1> HIDE DEF N, e
  <1>5. e.segment_num = s /\ e.written = modified[s]
    BY DEF e
  <1>6. LogInv'
    <2>1. ASSUME NEW i \in 1..Len(snapshots'), NEW o \in Objects, ~WrittenSince(i, o)'
          PROVE  snapshots'[i][o] = Last(snapshots')[o]
      <3>1. CASE i = N + 2
        BY <1>4, <3>1 DEF Last
      <3>2. CASE i # N + 2
        <4>1. i \in 1..(N + 1) /\ N + 1 \in i..Len(log')
          BY <1>0, <1>3, <1>4, <3>2
        <4>2. o \notin modified[s]
          BY <1>3, <1>5, <2>1, <4>1 DEF WrittenSince
        <4>3. ~WrittenSince(i, o)
          <5> SUFFICES ASSUME NEW j \in i..Len(log), o \in log[j].written PROVE FALSE
            BY DEF WrittenSince
          <5>1. j \in 1..N /\ j \in i..Len(log')
            BY <1>0, <1>3, <4>1 DEF N
          <5> QED BY <1>3, <2>1, <5>1 DEF WrittenSince
        <4>4. snapshots[i][o] = Last(snapshots)[o]
          BY <1>4, <4>1, <4>3 DEF WorkInv, LogInv
        <4> QED BY <1>4, <4>1, <4>2, <4>4
      <3> QED BY <3>1, <3>2
    <2>2. ASSUME NEW i \in 1..Len(log') PROVE i <= last'[log'[i].segment_num] + 1
      <3>1. CASE i = N + 1
        BY <1>0, <1>1, <1>2, <1>3, <1>5, <3>1
      <3>2. CASE i # N + 1
        <4>1. i \in 1..N
          BY <1>0, <1>3, <3>2
        <4> QED BY <1>1, <1>3, <4>1 DEF WorkInv, LogInv, N
      <3> QED BY <3>1, <3>2
    <2> QED BY <2>1, <2>2 DEF LogInv
  <1>7. \A o \in Objects, r \in Segs : View(r, o)' = View(r, o)
    BY <1>1 DEF View, Page
  <1>8. ASSUME NEW r \in Segs \ {s} PROVE WorkOf(r)'
    <2>1. pc'[r] = pc[r] /\ last[r] \in Nat /\ last[r] <= N /\ WorkOf(r)
      BY <1>0, <1>1 DEF TypeOK, WorkInv, LogOK, N
    <2>2. last[r] < N => log'[last[r] + 1] = log[last[r] + 1]
      BY <1>0, <1>3, <2>1
    <2>3. Snapshot(r)' = Snapshot(r)
      BY <1>0, <1>1, <1>4, <2>1 DEF Snapshot
    <2>4. Own(r)' <=> Own(r)
      <3>1. CASE last[r] < N
        BY <1>0, <1>1, <1>3, <2>1, <2>2, <3>1 DEF Own, Author, N
      <3>2. CASE last[r] = N
        <4>1. Author(r)' = s
          BY <1>1, <1>3, <1>5, <3>2 DEF Author
        <4> QED BY <1>0, <3>2, <4>1 DEF Own, N
      <3> QED BY <1>0, <2>1, <3>1, <3>2
    <2>5. Own(r) => snapshots'[last[r] + 2] = snapshots[last[r] + 2]
      BY <1>0, <1>4, <2>1 DEF Own, N
    <2>6. OwnOf(r)'
      <3>1. modified[r] \subseteq Objects
        BY <1>0 DEF TypeOK
      <3> QED BY <1>1, <1>7, <2>1, <2>2, <2>4, <2>5, <3>1
              DEF WorkOf, OwnOf, Nothing, Own, N
    <2>7. BarrierOf(r)'
      <3>1. InWrite(r) => obj[r] \in Objects
        BY <1>0 DEF TypeInv, DataOK
      <3> QED BY <1>1, <1>7, <2>1, <3>1 DEF WorkOf, BarrierOf, InWrite
    <2>8. ASSUME NEW o \in Objects
          PROVE  (CopyOf(r, o) /\ ReadOf(r, o) /\ SnapshotOf(r, o))'
      <3>1. Later(r, o) => Later(r, o)'
        <4>1. ASSUME NEW i \in (last[r] + 2)..N, o \in log[i].written
              PROVE  i \in (last[r] + 2)..Len(log') /\ log'[i] = log[i]
          BY <1>0, <1>3, <2>1
        <4> QED BY <1>1, <4>1 DEF Later, N
      <3>2. Coming(r, o) => Coming(r, o)' /\ Author(r)' = Author(r)
        BY <1>0, <1>1, <1>3, <2>1, <2>2 DEF Coming, Author, N
      <3>3. Pending(r, o) => Pending(r, o)'
        BY <1>1, <2>1, <3>1, <3>2 DEF Pending
      <3>4. o \in modified[s] /\ last[r] < N => Later(r, o)'
        <4>1. last[r] < N => N + 1 \in (last[r] + 2)..Len(log')
          BY <1>0, <1>3, <2>1
        <4> QED BY <1>1, <1>3, <1>5, <4>1 DEF Later
      <3>5. o \in modified[s] => Pending(r, o)'
        <4>1. CASE last[r] = N
          <5>1. Coming(r, o)' <=> o \in modified[s]
            BY <1>0, <1>1, <1>3, <1>5, <4>1 DEF Coming
          <5>2. Author(r)' = s
            BY <1>1, <1>3, <1>5, <4>1 DEF Author
          <5>3. pc[r] \notin {"update", "check"}
            BY <1>0, <4>1 DEF LogOK, N
          <5> QED BY <2>1, <5>1, <5>2, <5>3 DEF Pending
        <4>2. CASE last[r] # N
          BY <1>0, <2>1, <3>4, <4>2 DEF Pending
        <4> QED BY <4>1, <4>2
      <3>6. Committed(r, o)' = Committed(r, o)
        BY <1>1, <1>7 DEF Committed
      <3>7. o \notin modified[s] => Last(snapshots')[o] = Last(snapshots)[o]
        BY <1>4
      <3>8. CopyOf(r, o)'
        <4>1. pc[r] = "check" => last[r] < N
          BY <1>0 DEF LogOK, N
        <4> QED BY <1>1, <1>7, <2>1, <3>1, <3>3, <3>4, <3>5, <3>6, <3>7, <4>1
                DEF WorkOf, CopyOf
      <3>9. ReadOf(r, o)' /\ SnapshotOf(r, o)'
        BY <1>1, <2>1, <2>3, <3>3, <3>5, <3>6, <3>7
        DEF WorkOf, ReadOf, SnapshotOf, Valid
      <3> QED BY <3>8, <3>9
    <2> QED BY <2>6, <2>7, <2>8 DEF WorkOf
  <1>9. WorkOf(s)'
    <2>1. pc'[s] = "clear" /\ WorkOf(s)
      BY <1>0, <1>1 DEF TypeOK, WorkInv
    <2>2. Own(s)' /\ log'[last'[s] + 1].written = modified'[s]
      BY <1>0, <1>1, <1>2, <1>3, <1>5 DEF Own, Author
    <2>3. \A o \in modified[s] : o \in Objects /\ View(s, o)' = snapshots'[last'[s] + 2][o]
      <3>1. snapshots'[N + 2] = f
        BY <1>4 DEF Last
      <3>2. modified[s] \subseteq Objects
        BY <1>0 DEF TypeOK
      <3> QED BY <1>1, <1>2, <1>7, <3>1, <3>2
    <2>4. OwnOf(s)' /\ BarrierOf(s)'
      BY <1>1, <2>1, <2>2, <2>3 DEF WorkOf, OwnOf, BarrierOf, InWrite
    <2>5. ASSUME NEW o \in Objects
          PROVE  (CopyOf(s, o) /\ ReadOf(s, o) /\ SnapshotOf(s, o))'
      <3>1. ~Pending(s, o)' => o \notin modified[s]
        BY <1>1, <2>1, <2>2 DEF Pending, Coming, Own
      <3>2. ~Pending(s, o)
        BY <1>0, <1>2 DEF Pending, Coming, Later, N
      <3>3. Committed(s, o)' = Committed(s, o)
        BY <1>1, <1>7 DEF Committed
      <3> QED BY <1>4, <2>1, <3>1, <3>2, <3>3
              DEF WorkOf, CopyOf, ReadOf, SnapshotOf, Valid
    <2> QED BY <2>4, <2>5 DEF WorkOf
  <1> QED BY <1>6, <1>8, <1>9 DEF WorkInv

\* WorkInv is inductive.
LEMMA NextWorkInv ==
  ASSUME BaseInv, WorkInv, OVERTAKING = FALSE, NEW s \in Segs, Step(s)
  PROVE  WorkInv'
  <1>1. CASE EntryValidated(s) \/ AppendEntry(s)
    BY <1>1, EntryKeeps, AppendKeeps
  <1>2. CASE ~EntryValidated(s) /\ ~AppendEntry(s)
    <2>1. UNCHANGED <<last, log, snapshots>>
      BY <1>2, LogFrame
    <2>2. LogInv'
      BY <2>1, SameLogInv DEF WorkInv
    <2>3. WorkOf(s)'
      <3>1. CASE Spin(s)
        BY <3>1 DEF Spin, WorkInv, WorkOf, OwnOf, BarrierOf, CopyOf, ReadOf, SnapshotOf,
          Own, Author, Coming, Later, Pending, Committed, View, Page, Snapshot, Valid,
          InWrite, vars, txVars, valVars, writeVars, heapVars, pageVars, logVars
      <3>2. CASE User(s)
        BY <3>2, ReadKeeps, StoreKeeps, TurnsKeep, StartKeeps DEF User
      <3>3. CASE Library(s) /\ ~Spin(s)
        BY <1>2, <3>3, PrivatizeKeeps, RegisterKeeps, NextEntryKeeps, UpdateKeeps,
           CheckKeeps, ValidatedKeeps, TurnsKeep, ClearKeeps, AbortKeeps DEF Library
      <3> QED BY <3>1, <3>2, <3>3 DEF Step
    <2>4. \A r \in Segs \ {s} : WorkOf(r)'
      BY <2>1, OthersKept
    <2> QED BY <2>2, <2>3, <2>4 DEF WorkInv
  <1> QED BY <1>1, <1>2

\* WorkInv holds initially.
LEMMA InitWorkInv == Init => WorkInv
  <1> SUFFICES ASSUME Init PROVE WorkInv
    OBVIOUS
  <1>1. PICK f : pages = [s \in Segs |-> f] /\ snapshots = <<f>>
    BY DEF Init
  <1>2. Len(log) = 0 /\ Len(snapshots) = 1 /\ Last(snapshots) = f
    BY <1>1 DEF Init, Last
  <1>3. LogInv
    BY <1>1, <1>2 DEF LogInv
  <1>4. ASSUME NEW s \in Segs PROVE WorkOf(s)
    <2>1. OwnOf(s) /\ BarrierOf(s)
      BY <1>2 DEF Init, OwnOf, BarrierOf, InWrite, Own, Nothing
    <2>2. ASSUME NEW o \in Objects PROVE CopyOf(s, o) /\ ReadOf(s, o) /\ SnapshotOf(s, o)
      <3>1. View(s, o) = f[o] /\ Committed(s, o) = f[o]
        BY <1>1, SegsFacts DEF Init, View, Page, Committed
      <3> QED BY <1>2, <3>1 DEF Init, CopyOf, ReadOf, SnapshotOf, Valid
    <2> QED BY <2>1, <2>2 DEF WorkOf
  <1> QED BY <1>3, <1>4 DEF WorkInv

\* All invariants, together.
LEMMA WorkInvariant ==
  ASSUME OVERTAKING = FALSE
  PROVE  Spec => [](BaseInv /\ WorkInv)
  <1>1. Init => BaseInv /\ WorkInv
    BY InitTypeInv, InitStateAndPages, InitWorkInv DEF BaseInv
  <1>2. BaseInv /\ WorkInv /\ [Next]_vars => WorkInv'
    <2> SUFFICES ASSUME BaseInv, WorkInv, [Next]_vars PROVE WorkInv'
      OBVIOUS
    <2>1. CASE Next
      BY <2>1, NextWorkInv DEF Next, Step
    <2>2. CASE UNCHANGED vars
      BY <2>2 DEF WorkInv, WorkOf, LogInv, WrittenSince, OwnOf, BarrierOf, CopyOf, ReadOf,
          SnapshotOf, Own, Author, Coming, Later, Pending, Committed, View, Page, Snapshot,
          Valid, InWrite, vars, txVars, valVars, writeVars, heapVars, pageVars, logVars
    <2> QED BY <2>1, <2>2
  <1> QED BY <1>1, <1>2, BaseInvariant, PTL DEF Spec

\* "applies all changes done by other transactions" (c8/stm/core.c:73-75),
\* for any number of segments, objects and entries.
THEOREM Applied ==
  ASSUME OVERTAKING = FALSE
  PROVE  Spec => []AllChangesApplied
  <1>1. WorkInv => AllChangesApplied
    BY DEF WorkInv, WorkOf, SnapshotOf, AllChangesApplied
  <1> QED BY <1>1, WorkInvariant, PTL

\* A running transaction has read from one snapshot (c8/stm/core.c:
\* stm_validate, stm_read), for any number of segments, objects and entries.
THEOREM Opaque ==
  ASSUME OVERTAKING = FALSE
  PROVE  Spec => []Opacity
  <1>1. WorkInv => Opacity
    BY DEF WorkInv, WorkOf, SnapshotOf, Opacity
  <1> QED BY <1>1, WorkInvariant, PTL

-----------------------------------------------------------------------------
(* The commit log implements AtomicStm: every step is a step of the        *)
(* abstract transactions or leaves them alone.                             *)

\* What was read is remembered, and an object that turned out to be read
\* makes its transaction abort.
CheckedInv == \A s \in Segs, o \in Objects : o \in read[s] =>
  /\ pc[s] # "none" => seen[s][o] # NULL
  /\ pc[s] \in {"update", "check"} /\ Coming(s, o) /\ o \notin todo[s] => needs_abort[s]

\* What is yet to be looked at, in terms of positions.
LEMMA UnseenFrom ==
  ASSUME NEW s \in Segs, NEW o
  PROVE  /\ o \in Unseen(s) <=> \E i \in (last[s] + 1)..Len(log) : o \in log[i].written
         /\ (o \in Unseen(s) <=> \E i \in (last[s] + 1)..Len(log) : o \in log[i].written)'
  BY DEF Unseen

\* It consists of the next entry and the later ones.
LEMMA UnseenParts ==
  ASSUME TypeInv, NEW s \in Segs, NEW o \in Objects
  PROVE  o \in Unseen(s) <=> Coming(s, o) \/ Later(s, o)
  <1>1. last[s] \in Nat /\ Len(log) \in Nat
    BY DEF TypeInv, TypeOK
  <1>2. ASSUME Coming(s, o) PROVE o \in Unseen(s)
    <2>1. last[s] + 1 \in (last[s] + 1)..Len(log)
      BY <1>1, <1>2 DEF Coming
    <2> QED BY <1>2, <2>1, UnseenFrom DEF Coming
  <1>3. ASSUME Later(s, o) PROVE o \in Unseen(s)
    <2>1. \A i \in (last[s] + 2)..Len(log) : i \in (last[s] + 1)..Len(log)
      BY <1>1
    <2> QED BY <1>3, <2>1, UnseenFrom DEF Later
  <1>4. ASSUME NEW i \in (last[s] + 1)..Len(log), o \in log[i].written, ~Later(s, o)
        PROVE  Coming(s, o)
    <2>1. i = last[s] + 1 /\ last[s] < Len(log)
      BY <1>1, <1>4 DEF Later
    <2> QED BY <1>4, <2>1 DEF Coming
  <1> QED BY <1>2, <1>3, <1>4, UnseenFrom

\* Leaving entries out takes nothing but the validated entry away.
LEMMA EntryUnseen ==
  ASSUME TypeInv, NEW s \in Segs, EntryValidated(s), NEW r \in Segs
  PROVE  /\ Last(snapshots') = Last(snapshots)
         /\ r # s => /\ Unseen(r)' = Unseen(r)
                     /\ \A o \in Objects : Coming(r, o)' <=> Coming(r, o)
         /\ r = s => \A o \in Objects :
              o \in Unseen(s) <=> Coming(s, o) \/ o \in Unseen(s)'
  <1> DEFINE p == [last EXCEPT ![s] = @ + 1]
  <1>0. TypeOK /\ LogOK /\ last[s] < Len(log)
    BY DEF TypeInv, LogOK, EntryValidated
  <1>1. p \in [Segs -> Nat] /\ \A q \in Segs : p[q] <= Len(log)
    BY <1>0 DEF LogOK, TypeOK
  <1>2. p[r] = (IF r = s THEN last[s] + 1 ELSE last[r]) /\ last[r] \in Nat
    BY <1>0 DEF TypeOK
  <1>3. Shortened(p)
    BY DEF EntryValidated
  <1> HIDE DEF p
  <1>4. PICK n \in Nat :
           /\ n <= Len(log) /\ \A q \in Segs : n <= p[q]
           /\ last' = [q \in Segs |-> p[q] - n]
           /\ Len(log') = Len(log) - n
           /\ \A i \in 1..Len(log') : log'[i] = log[i + n]
           /\ Last(snapshots') = Last(snapshots)
    BY <1>0, <1>1, <1>3, ShortenedBy
  <1>5. Len(log) \in Nat /\ p[r] \in Nat /\ n <= p[r] /\ last'[r] = p[r] - n
    BY <1>0, <1>1, <1>4 DEF TypeOK
  <1>6. ASSUME NEW i \in (p[r] + 1)..Len(log)
        PROVE  /\ i - n \in (last'[r] + 1)..Len(log') /\ log'[i - n] = log[i]
    <2>1. i - n \in (last'[r] + 1)..Len(log') /\ i - n \in 1..Len(log') /\ (i - n) + n = i
      BY <1>4, <1>5
    <2> QED BY <1>4, <2>1
  <1>7. ASSUME NEW i \in (last'[r] + 1)..Len(log')
        PROVE  i + n \in (p[r] + 1)..Len(log) /\ log'[i] = log[i + n]
    <2>1. i + n \in (p[r] + 1)..Len(log) /\ i \in 1..Len(log')
      BY <1>4, <1>5
    <2> QED BY <1>4, <2>1
  <1>8. ASSUME NEW o
        PROVE  o \in Unseen(r)' <=> \E i \in (p[r] + 1)..Len(log) : o \in log[i].written
    BY <1>6, <1>7, UnseenFrom
  <1>9. ASSUME r # s
        PROVE  /\ Unseen(r)' = Unseen(r)
               /\ \A o \in Objects : Coming(r, o)' <=> Coming(r, o)
    <2>1. Unseen(r)' = Unseen(r)
      BY <1>2, <1>8, <1>9, UnseenFrom
    <2>2. last'[r] < Len(log') <=> last[r] < Len(log)
      BY <1>2, <1>4, <1>5, <1>9
    <2>3. last[r] < Len(log) => log'[last'[r] + 1] = log[last[r] + 1]
      <3>1. last[r] < Len(log) =>
              /\ last'[r] + 1 \in (last'[r] + 1)..Len(log')
              /\ (last'[r] + 1) + n = last[r] + 1
        BY <1>2, <1>4, <1>5, <1>9
      <3> QED BY <1>7, <3>1
    <2> QED BY <2>1, <2>2, <2>3 DEF Coming
  <1>10. ASSUME r = s, NEW o \in Objects
         PROVE  o \in Unseen(s) <=> Coming(s, o) \/ o \in Unseen(s)'
    <2>1. o \in Unseen(s)' <=> \E i \in (last[s] + 2)..Len(log) : o \in log[i].written
      BY <1>2, <1>8, <1>10
    <2> QED BY <2>1, UnseenParts DEF Later
  <1> QED BY <1>4, <1>9, <1>10

\* An appended entry is new to all but its author.
LEMMA AppendUnseen ==
  ASSUME TypeInv, StateInv, NEW s \in Segs, AppendEntry(s)
  PROVE  /\ Unseen(s) = {}
         /\ Last(snapshots') = [o \in Objects |->
                    IF o \in modified[s] THEN View(s, o) ELSE Last(snapshots)[o]]
         /\ \A r \in Segs : /\ Unseen(r)' = Unseen(r) \cup modified[s]
                            /\ last[r] < Len(log) =>
                                 \A o \in Objects : Coming(r, o)' <=> Coming(r, o)
  <1> DEFINE N == Len(log)
             e == [segment_num |-> s, written |-> modified[s]]
  <1>0. TypeOK /\ LogOK /\ N \in Nat
    BY DEF TypeInv, TypeOK
  <1>1. /\ last[s] = N /\ last' = last /\ log' = Append(log, e)
        /\ snapshots' = Append(snapshots, [o \in Objects |->
                    IF o \in modified[s] THEN View(s, o) ELSE Last(snapshots)[o]])
    BY DEF AppendEntry, MayAppend, FreeEnd, AtEnd, StateInv
  <1>2. /\ Len(log') = N + 1 /\ log'[N + 1].written = modified[s]
        /\ \A i \in 1..N : log'[i] = log[i]
    BY <1>0, <1>1 DEF TypeOK
  <1>3. Last(snapshots') = [o \in Objects |->
                    IF o \in modified[s] THEN View(s, o) ELSE Last(snapshots)[o]]
    BY <1>0, <1>1 DEF TypeOK, Last
  <1>4. Unseen(s) = {}
    BY <1>0, <1>1, UnseenFrom DEF N
  <1> HIDE DEF N
  <1>5. ASSUME NEW r \in Segs
        PROVE  /\ Unseen(r)' = Unseen(r) \cup modified[s]
               /\ last[r] < N => \A o \in Objects : Coming(r, o)' <=> Coming(r, o)
    <2>1. last[r] \in Nat /\ last[r] <= N /\ last'[r] = last[r]
      BY <1>0, <1>1 DEF TypeOK, LogOK, N
    <2>2. N + 1 \in (last[r] + 1)..(N + 1)
      BY <1>0, <2>1
    <2>3. ASSUME NEW i \in (last[r] + 1)..(N + 1)
          PROVE  i = N + 1 \/ (i \in 1..N /\ i \in (last[r] + 1)..N)
      BY <1>0, <2>1
    <2>4. ASSUME NEW i \in (last[r] + 1)..N
          PROVE  i \in (last[r] + 1)..(N + 1) /\ i \in 1..N
      BY <1>0, <2>1
    <2>5. \A o : o \in Unseen(r)' <=> o \in Unseen(r) \/ o \in modified[s]
      BY <1>2, <2>1, <2>2, <2>3, <2>4, UnseenFrom DEF N
    <2>6. last[r] < N => \A o \in Objects : Coming(r, o)' <=> Coming(r, o)
      <3>1. last[r] < N => last[r] + 1 \in 1..N /\ last[r] < N + 1
        BY <1>0, <2>1
      <3> QED BY <1>2, <2>1, <3>1 DEF Coming, N
    <2> QED BY <2>5, <2>6
  <1> QED BY <1>3, <1>4, <1>5 DEF N

\* Nobody but s, or who appends, changes what s has yet to look at.
LEMMA UnseenKept ==
  ASSUME TypeInv, StateInv, NEW s \in Segs, Step(s), NEW r \in Segs
  PROVE  /\ AppendEntry(s) \/ (r = s /\ EntryValidated(s)) \/ Unseen(r)' = Unseen(r)
         /\ pc[r] \in {"update", "check"} /\ (r # s \/ ~EntryValidated(s)) =>
              \A o \in Objects : Coming(r, o)' <=> Coming(r, o)
         /\ AppendEntry(s) \/ Last(snapshots') = Last(snapshots)
  <1>1. CASE EntryValidated(s)
    BY <1>1, EntryUnseen
  <1>2. CASE AppendEntry(s)
    <2>1. pc[r] \in {"update", "check"} => last[r] < Len(log)
      BY DEF TypeInv, LogOK
    <2> QED BY <1>2, <2>1, AppendUnseen
  <1>3. CASE ~EntryValidated(s) /\ ~AppendEntry(s)
    <2>1. UNCHANGED <<last, log, snapshots>>
      BY <1>3, LogFrame
    <2> QED BY <2>1 DEF Unseen, Coming
  <1> QED BY <1>1, <1>2, <1>3

\* The steps that read, and those that start or end a transaction.
LEMMA ReadFrame ==
  ASSUME NEW s \in Segs, Step(s)
  PROVE  /\ \/ UNCHANGED <<read, seen>>
            \/ stm_start_transaction(s) \/ ClearBackups(s) \/ Abort(s)
            \/ \E o \in Objects : stm_read(s, o) \/ stm_write(s, o)
         /\ pc[s] = "none" => stm_start_transaction(s)
  <1>1. CASE User(s)
    BY <1>1 DEF User, stm_start_transaction, stm_read, stm_write, Store,
      StartCommit, StartAbort, BecomeInevitable, txVars
  <1>2. CASE Library(s)
    BY <1>2 DEF Library, LookAtPage, RemapPage, PagePrivatized, RegisterBackup,
      NextEntry, Spin, _update_obj_from, CheckRead, EntryValidated, Validated,
      AppendEntry, AppendFailed, ClearBackups, Abort, TurnInevitable, vars, txVars
  <1> QED BY <1>1, <1>2 DEF Step

\* The steps within stm_validate.
LEMMA ValidateFrame ==
  ASSUME TypeInv, NEW s \in Segs, Step(s), pc'[s] \in {"update", "check"}
  PROVE  NextEntry(s) \/ CheckRead(s) \/ \E o \in Objects : _update_obj_from(s, o)
  <1>0. TypeOK
    BY DEF TypeInv
  <1> USE <1>0 DEF TypeOK, Goto
  <1>1. CASE User(s)
    BY <1>1 DEF User, stm_start_transaction, stm_read, stm_write, Store,
      StartCommit, StartAbort, BecomeInevitable
  <1>2. CASE LookAtPage(s) \/ RemapPage(s) \/ PagePrivatized(s) \/ RegisterBackup(s)
    BY <1>2 DEF LookAtPage, RemapPage, PagePrivatized, RegisterBackup
  <1>3. CASE Spin(s) \/ EntryValidated(s) \/ Validated(s)
    BY <1>3 DEF Spin, EntryValidated, Validated, vars
  <1>4. CASE AppendEntry(s) \/ AppendFailed(s) \/ ClearBackups(s) \/ Abort(s)
             \/ TurnInevitable(s)
    BY <1>4 DEF AppendEntry, AppendFailed, ClearBackups, Abort, TurnInevitable, Finish
  <1> QED BY <1>1, <1>2, <1>3, <1>4 DEF Step, Library

\* Reading and remembering go together.
LEMMA MarkReadFacts ==
  ASSUME TypeInv, NEW s \in Segs, NEW p \in Objects, MarkRead(s, p)
  PROVE  /\ read'[s] = read[s] \cup {p}
         /\ seen'[s] = IF seen[s][p] = NULL /\ p \notin modified[s]
                       THEN [seen[s] EXCEPT ![p] = View(s, p)] ELSE seen[s]
         /\ seen[s] \in [Objects -> Values \cup {NULL}]
  BY DEF MarkRead, TypeInv, TypeOK

\* CheckedInv is inductive.
LEMMA NextCheckedInv ==
  ASSUME BaseInv, WorkInv, CheckedInv, NEW s \in Segs, Step(s)
  PROVE  CheckedInv'
  <1>0. TypeInv /\ TypeOK /\ LogOK /\ StateInv /\ NULL \notin Values
    BY C8Assumption DEF BaseInv, TypeInv
  <1>1. ASSUME NEW r \in Segs, NEW o \in Objects, pc'[r] # "none", o \in read'[r]
        PROVE  seen'[r][o] # NULL
    <2>1. CASE r # s
      BY <1>1, <2>1, <1>0, Frame DEF CheckedInv
    <2>2. CASE r = s /\ \E p \in Objects : stm_read(s, p) \/ stm_write(s, p)
      <3>1. PICK p \in Objects : pc[s] = "run" /\ MarkRead(s, p)
        BY <2>2 DEF stm_read, stm_write
      <3>2. View(s, p) # NULL
        BY <1>0, Contents
      <3>3. modified[s] \subseteq read[s]
        BY DEF WorkInv, WorkOf, BarrierOf
      <3>4. /\ read'[s] = read[s] \cup {p}
            /\ seen'[s] = IF seen[s][p] = NULL /\ p \notin modified[s]
                          THEN [seen[s] EXCEPT ![p] = View(s, p)] ELSE seen[s]
            /\ seen[s] \in [Objects -> Values \cup {NULL}]
        BY <1>0, <3>1, MarkReadFacts
      <3>5. o \in read[s] => seen[s][o] # NULL
        BY <3>1 DEF CheckedInv
      <3>6. p \in modified[s] => seen[s][p] # NULL
        BY <3>1, <3>3 DEF CheckedInv
      <3> QED BY <1>1, <2>2, <3>2, <3>4, <3>5, <3>6
    <2>3. CASE r = s /\ stm_start_transaction(s)
      BY <1>0, <1>1, <2>3 DEF stm_start_transaction, TypeOK
    <2>4. CASE r = s /\ (ClearBackups(s) \/ Abort(s))
      BY <1>0, <1>1, <2>4 DEF ClearBackups, Abort, Finish, Goto, TypeOK
    <2>5. CASE r = s /\ UNCHANGED <<read, seen>> /\ pc[s] # "none"
      BY <1>1, <2>5 DEF CheckedInv
    <2> QED BY <2>1, <2>2, <2>3, <2>4, <2>5, ReadFrame
  <1>2. ASSUME NEW r \in Segs, NEW o \in Objects, pc'[r] \in {"update", "check"},
               Coming(r, o)', o \notin todo'[r], o \in read'[r]
        PROVE  needs_abort'[r]
    <2>1. CASE r # s
      BY <1>0, <1>2, <2>1, Frame, UnseenKept DEF CheckedInv
    <2>2. CASE r = s
      <3>1. CASE NextEntry(s)
        BY <1>0, <1>2, <2>2, <3>1 DEF NextEntry, Coming, logVars, TypeOK
      <3>2. CASE CheckRead(s)
        <4>1. /\ pc[s] = "check" /\ read' = read /\ UNCHANGED <<last, log>>
              /\ todo'[s] = todo[s] \ {obj[s]}
              /\ \/ obj[s] \in read[s] /\ needs_abort'[s] = TRUE
                 \/ obj[s] \notin read[s] /\ needs_abort' = needs_abort
          BY <1>0, <3>2 DEF CheckRead, Conflict, txVars, logVars, TypeOK
        <4>2. Coming(s, o)
          BY <1>2, <2>2, <4>1 DEF Coming
        <4> QED BY <1>2, <2>2, <4>1, <4>2 DEF CheckedInv
      <3>3. CASE \E p \in Objects : _update_obj_from(s, p)
        <4>1. pc[s] = "update" /\ UNCHANGED <<read, last, log, todo, needs_abort>>
          BY <3>3 DEF _update_obj_from, txVars, valVars, logVars
        <4>2. Coming(s, o)
          BY <1>2, <2>2, <4>1 DEF Coming
        <4> QED BY <1>2, <2>2, <4>1, <4>2 DEF CheckedInv
      <3> QED BY <1>0, <1>2, <2>2, <3>1, <3>2, <3>3, ValidateFrame
    <2> QED BY <2>1, <2>2
  <1> QED BY <1>1, <1>2 DEF CheckedInv

\* What the abstract transactions show of one segment does not change.
Same(s) == /\ AbstractStatus(s)' = AbstractStatus(s)
           /\ AbstractReads(s)' = AbstractReads(s)
           /\ AbstractWrites(s)' = AbstractWrites(s)
\* ... or of the transaction only that it is doomed.
Dooms(s) == /\ AbstractStatus(s) = "active" /\ AbstractStatus(s)' = "doomed"
            /\ AbstractReads(s)' = Atomic!Nothing
            /\ AbstractWrites(s)' = Atomic!Nothing

\* Nothing the abstract transactions can see has changed: a stutter.
LEMMA IsStutter ==
  ASSUME \A s \in Segs : Same(s), Last(snapshots') = Last(snapshots)
  PROVE  UNCHANGED Atomic!vars
  BY DEF Atomic!vars, Same

\* A segment without a transaction starts one.
LEMMA IsBegin ==
  ASSUME NEW s \in Segs, AbstractStatus(s) = "idle", AbstractStatus(s)' = "active",
         AbstractReads(s)' = AbstractReads(s), AbstractWrites(s)' = AbstractWrites(s),
         \A r \in Segs \ {s} : Same(r), Last(snapshots') = Last(snapshots)
  PROVE  Atomic!Begin(s)
  BY DEF Atomic!Begin, Same

\* A transaction finds out that it has to abort, or asks for it.
LEMMA IsDoom ==
  ASSUME NEW s \in Segs, Dooms(s),
         \A r \in Segs \ {s} : Same(r), Last(snapshots') = Last(snapshots)
  PROVE  Atomic!Doom(s)
  BY DEF Atomic!Doom, Atomic!Forget, Same, Dooms

\* It aborts.
LEMMA IsAbort ==
  ASSUME NEW s \in Segs, AbstractStatus(s) \in {"active", "doomed"},
         AbstractStatus(s)' = "idle",
         AbstractReads(s)' = Atomic!Nothing, AbstractWrites(s)' = Atomic!Nothing,
         \A r \in Segs \ {s} : Same(r), Last(snapshots') = Last(snapshots)
  PROVE  Atomic!Abort(s)
  BY DEF Atomic!Abort, Atomic!Forget, Same

\* A transaction gets its entry -1 into the log.
LEMMA IsBecomeInevitable ==
  ASSUME NEW s \in Segs, AbstractStatus(s) = "active",
         AbstractStatus(s)' = "inevitable",
         \A r \in Segs : AbstractStatus(r) # "inevitable",
         AbstractReads(s)' = AbstractReads(s), AbstractWrites(s)' = AbstractWrites(s),
         \A r \in Segs \ {s} : Same(r), Last(snapshots') = Last(snapshots)
  PROVE  Atomic!BecomeInevitable(s)
  BY DEF Atomic!BecomeInevitable, Same

\* A read of an object not written yet returns the committed contents.
LEMMA IsRead ==
  ASSUME NEW s \in Segs, NEW o \in Objects, Runs(s),
         AbstractStatus(s)' = AbstractStatus(s),
         AbstractWrites(s)[o] = NULL, AbstractWrites(s)' = AbstractWrites(s),
         AbstractReads(s)' = [AbstractReads(s) EXCEPT ![o] = Last(snapshots)[o]],
         \A r \in Segs \ {s} : Same(r), Last(snapshots') = Last(snapshots)
  PROVE  Atomic!Read(s, o)
  BY DEF Atomic!Read, Atomic!Live, Same, Runs

\* A write changes what its own transaction sees and nothing else.
LEMMA IsWrite ==
  ASSUME NEW s \in Segs, NEW o \in Objects, NEW v \in Values, Runs(s),
         AbstractStatus(s)' = AbstractStatus(s),
         AbstractReads(s)[o] # NULL, AbstractReads(s)' = AbstractReads(s),
         AbstractWrites(s)' = [AbstractWrites(s) EXCEPT ![o] = v],
         \A r \in Segs \ {s} : Same(r), Last(snapshots') = Last(snapshots)
  PROVE  Atomic!Write(s, o, v)
  BY DEF Atomic!Write, Atomic!Live, Same, Runs

\* A commit dooms whoever has read what it changes, and nobody else.
LEMMA IsCommit ==
  ASSUME NEW s \in Segs, Runs(s), AbstractStatus(s)' = "idle",
         AbstractReads(s)' = Atomic!Nothing, AbstractWrites(s)' = Atomic!Nothing,
         \A r \in Segs \ {s} :
           IF Runs(r) /\ \E o \in Objects : /\ AbstractWrites(s)[o] # NULL
                                            /\ AbstractReads(r)[o] # NULL
           THEN Dooms(r) ELSE Same(r),
         Last(snapshots') = [o \in Objects |-> IF AbstractWrites(s)[o] # NULL
                               THEN AbstractWrites(s)[o] ELSE Last(snapshots)[o]]
  PROVE  Atomic!Commit(s)
  <1> DEFINE out == {r \in Segs \ {s} :
                       Runs(r) /\ \E o \in Objects : /\ AbstractWrites(s)[o] # NULL
                                                     /\ AbstractReads(r)[o] # NULL}
  <1>1. Atomic!Outdated(s) = out
    BY DEF Atomic!Outdated, Atomic!Live, Runs
  <1>2. Atomic!Live(s)
    BY DEF Atomic!Live, Runs
  <1>3. \A r \in Segs \ {s} : IF r \in out THEN Dooms(r) ELSE Same(r)
    OBVIOUS
  <1> HIDE DEF out
  <1>4. s \notin out /\ out \subseteq Segs
    BY DEF out
  <1> QED BY <1>1, <1>2, <1>3, <1>4 DEF Atomic!Commit, Same, Dooms

-----------------------------------------------------------------------------
(* What a step changes of the abstract transactions.                       *)

\* A doomed transaction has nothing to show, and neither has an idle one.
LEMMA NothingShown ==
  ASSUME NEW s \in Segs
  PROVE  /\ ~Runs(s) => /\ AbstractReads(s) = Atomic!Nothing
                        /\ AbstractWrites(s) = Atomic!Nothing
         /\ ~Runs(s)' => /\ AbstractReads(s)' = Atomic!Nothing
                         /\ AbstractWrites(s)' = Atomic!Nothing
  BY DEF AbstractReads, AbstractWrites, Atomic!Nothing

\* The status is the only thing that changes if a transaction is doomed.
LEMMA DoomedOrSame ==
  ASSUME NEW s \in Segs, AbstractStatus(s) \in {"active", "doomed"},
         AbstractStatus(s)' = "doomed"
  PROVE  Dooms(s) \/ Same(s)
  <1>1. ~Runs(s)'
    BY DEF Runs
  <1>2. AbstractStatus(s) = "doomed" => ~Runs(s)
    BY DEF Runs
  <1> QED BY <1>1, <1>2, NothingShown DEF Dooms, Same

\* A transaction with the same status, reads and contents looks the same.
LEMMA SameShown ==
  ASSUME NEW s \in Segs, AbstractStatus(s)' = AbstractStatus(s),
         Runs(s) => /\ seen'[s] = seen[s] /\ modified'[s] = modified[s]
                    /\ \A o \in modified[s] \cap Objects : View(s, o)' = View(s, o)
  PROVE  Same(s)
  BY DEF Same, Runs, AbstractReads, AbstractWrites

\* An inevitable transaction has nothing to look at, and no other is.
LEMMA InevitableStatus ==
  ASSUME BaseInv, NEW s \in Segs, transaction_state[s] = "INEVITABLE", pc[s] # "clear"
  PROVE  inevitable = s /\ Unseen(s) = {}
  <1>1. inevitable = s /\ last[s] = Len(log) /\ Len(log) \in Nat
    BY DEF BaseInv, StateInv, TypeInv, TypeOK
  <1> QED BY <1>1, UnseenFrom

\* Who takes no step looks the same, unless somebody commits.
LEMMA OthersSame ==
  ASSUME BaseInv, WorkInv, NEW s \in Segs, Step(s), ~AppendEntry(s), NEW r \in Segs \ {s}
  PROVE  Same(r)
  <1>1. Unseen(r)' = Unseen(r)
    BY UnseenKept DEF BaseInv
  <1>2. /\ pc'[r] = pc[r] /\ transaction_state'[r] = transaction_state[r]
        /\ needs_abort'[r] = needs_abort[r] /\ read'[r] = read[r]
        /\ seen'[r] = seen[r] /\ modified'[r] = modified[r]
    BY Frame DEF BaseInv
  <1>3. AbstractStatus(r)' = AbstractStatus(r)
    BY <1>1, <1>2 DEF AbstractStatus
  <1>4. \A o \in Objects : View(r, o)' = View(r, o)
    BY OtherViews DEF BaseInv, PageInv
  <1> QED BY <1>2, <1>3, <1>4, SameShown

\* A commit is seen by the others as one step.
LEMMA CommitStep ==
  ASSUME BaseInv, WorkInv, CheckedInv, NEW s \in Segs, AppendEntry(s)
  PROVE  Atomic!Commit(s)
  <1>0. /\ TypeInv /\ TypeOK /\ StateInv /\ Step(s) /\ NULL \notin Values
        /\ modified[s] \subseteq Objects /\ NULL \notin Segs
    BY SegsFacts, C8Assumption DEF BaseInv, TypeInv, TypeOK, Step, Library
  <1>1. pc[s] = "append" /\ pc'[s] = "clear" /\ ~needs_abort[s] /\ Unseen(s) = {}
    BY <1>0, AppendUnseen DEF AppendEntry, Goto, StateInv, TypeOK
  <1>2. Runs(s)
    BY <1>1 DEF Runs, AbstractStatus
  <1>3. AbstractStatus(s)' = "idle" /\ ~Runs(s)'
    BY <1>1 DEF Runs, AbstractStatus
  <1>4. \A o \in Objects : AbstractWrites(s)[o] =
          IF o \in modified[s] THEN View(s, o) ELSE NULL
    BY <1>2 DEF AbstractWrites
  <1>5. \A o \in Objects : View(s, o) # NULL
    BY <1>0, Contents
  <1>6. Last(snapshots') = [o \in Objects |-> IF AbstractWrites(s)[o] # NULL
                               THEN AbstractWrites(s)[o] ELSE Last(snapshots)[o]]
    BY <1>0, <1>4, <1>5, AppendUnseen
  <1>7. ASSUME NEW r \in Segs \ {s}
        PROVE  IF Runs(r) /\ \E o \in Objects : /\ AbstractWrites(s)[o] # NULL
                                                /\ AbstractReads(r)[o] # NULL
               THEN Dooms(r) ELSE Same(r)
    <2>1. /\ pc'[r] = pc[r] /\ transaction_state'[r] = transaction_state[r]
          /\ needs_abort'[r] = needs_abort[r] /\ read'[r] = read[r]
          /\ seen'[r] = seen[r] /\ modified'[r] = modified[r]
      BY <1>0, Frame
    <2>2. Unseen(r)' = Unseen(r) \cup modified[s]
      BY <1>0, AppendUnseen
    <2>3. \A o \in Objects : View(r, o)' = View(r, o)
      BY <1>0, OtherViews DEF BaseInv, PageInv
    <2>4. AbstractStatus(r) # "inevitable"
      <3>1. inevitable # r
        BY <1>0 DEF AppendEntry, MayAppend, FreeEnd, AtEnd
      <3> QED BY <3>1, InevitableStatus DEF AbstractStatus
    <2>5. ASSUME AbstractStatus(r) = "active"
          PROVE  (\E o \in Objects : /\ AbstractWrites(s)[o] # NULL
                                     /\ AbstractReads(r)[o] # NULL)
                   <=> modified[s] \cap read[r] # {}
      <3>1. pc[r] # "none" /\ Runs(r)
        BY <2>5 DEF AbstractStatus, Runs
      <3>2. \A o \in Objects : AbstractReads(r)[o] = seen[r][o]
        BY <3>1 DEF AbstractReads
      <3>3. \A o \in Objects : seen[r][o] # NULL <=> o \in read[r]
        BY <3>1 DEF CheckedInv, WorkInv, WorkOf, BarrierOf
      <3>4. \A o \in Objects : AbstractWrites(s)[o] # NULL <=> o \in modified[s]
        BY <1>4, <1>5
      <3> QED BY <1>0, <3>2, <3>3, <3>4
    <2>6. CASE AbstractStatus(r) = "active" /\ modified[s] \cap read[r] # {}
      <3>1. AbstractStatus(r)' = "doomed"
        BY <2>1, <2>2, <2>6 DEF AbstractStatus
      <3>2. ~Runs(r)' /\ Runs(r)
        BY <2>6, <3>1 DEF Runs
      <3> QED BY <2>5, <2>6, <3>1, <3>2, NothingShown DEF Dooms
    <2>7. CASE ~(AbstractStatus(r) = "active" /\ modified[s] \cap read[r] # {})
      <3>1. AbstractStatus(r)' = AbstractStatus(r)
        BY <2>1, <2>2, <2>4, <2>7 DEF AbstractStatus
      <3>2. Same(r)
        BY <2>1, <2>3, <3>1, SameShown
      <3>3. Runs(r) => AbstractStatus(r) = "active"
        BY <2>4 DEF Runs
      <3> QED BY <2>5, <2>7, <3>2, <3>3
    <2> QED BY <2>6, <2>7
  <1>8. AbstractReads(s)' = Atomic!Nothing /\ AbstractWrites(s)' = Atomic!Nothing
    BY <1>3, NothingShown
  <1> QED BY <1>2, <1>3, <1>6, <1>7, <1>8, IsCommit

\* A transaction starts with nothing to look at that it has read.
LEMMA BeginStep ==
  ASSUME BaseInv, WorkInv, NEW s \in Segs, stm_start_transaction(s),
         \A r \in Segs \ {s} : Same(r)
  PROVE  Atomic!Begin(s)
  <1>1. /\ pc[s] = "none" /\ pc'[s] = "validate" /\ transaction_state'[s] = "REGULAR"
        /\ needs_abort' = needs_abort /\ ~needs_abort[s] /\ read'[s] = {}
        /\ seen' = seen /\ modified' = modified /\ snapshots' = snapshots
    BY DEF stm_start_transaction, Goto, heapVars, logVars, BaseInv, TypeInv, TypeOK, StateInv
  <1>2. seen[s] = Nothing /\ modified[s] = {}
    BY <1>1 DEF WorkInv, WorkOf, OwnOf
  <1>3. AbstractStatus(s) = "idle" /\ AbstractStatus(s)' = "active"
    BY <1>1 DEF AbstractStatus
  <1>4. /\ AbstractReads(s) = Nothing /\ AbstractReads(s)' = Nothing
        /\ AbstractWrites(s) = Nothing /\ AbstractWrites(s)' = Nothing
    BY <1>1, <1>2 DEF AbstractReads, AbstractWrites, Nothing
  <1> QED BY <1>1, <1>3, <1>4, IsBegin

\* An abort.
LEMMA AbortStep ==
  ASSUME BaseInv, NEW s \in Segs, Abort(s), \A r \in Segs \ {s} : Same(r)
  PROVE  Atomic!Abort(s)
  <1>1. pc[s] = "abort" /\ pc'[s] = "none" /\ snapshots' = snapshots
    BY DEF Abort, Finish, Goto, logVars, BaseInv, TypeInv, TypeOK
  <1>2. transaction_state[s] # "INEVITABLE"
    BY <1>1 DEF BaseInv, StateInv, InWrite
  <1>3. AbstractStatus(s) = "doomed" /\ AbstractStatus(s)' = "idle" /\ ~Runs(s)'
    BY <1>1, <1>2 DEF AbstractStatus, Runs
  <1> QED BY <1>1, <1>3, NothingShown, IsAbort

\* The entry -1.
LEMMA TurnStep ==
  ASSUME BaseInv, WorkInv, NEW s \in Segs, TurnInevitable(s),
         \A r \in Segs \ {s} : Same(r)
  PROVE  Atomic!BecomeInevitable(s)
  <1>0. TypeInv /\ TypeOK /\ StateInv /\ NULL \notin Segs /\ Len(log) \in Nat
    <2>1. TypeInv /\ TypeOK /\ StateInv /\ NULL \notin Segs
      BY SegsFacts DEF BaseInv, TypeInv
    <2> QED BY <2>1 DEF TypeOK
  <1>1. /\ pc[s] = "turn" /\ pc'[s] = "run" /\ transaction_state'[s] = "INEVITABLE"
        /\ UNCHANGED <<needs_abort, read, seen, modified, pages, pages_privatized,
                       last, log, snapshots>>
    BY <1>0 DEF TurnInevitable, Goto, heapVars, pageVars, TypeOK
  <1>2. transaction_state[s] # "INEVITABLE" /\ ~needs_abort[s]
    BY <1>0, <1>1 DEF StateInv, InWrite
  <1>3. inevitable = NULL /\ last[s] = Len(log)
    BY <1>0, <1>1, <1>2 DEF TurnInevitable, MayAppend, FreeEnd, AtEnd, StateInv
  <1>4. Unseen(s) = {}
    BY <1>0, <1>3, UnseenFrom
  <1>5. AbstractStatus(s) = "active" /\ AbstractStatus(s)' = "inevitable"
    BY <1>1, <1>2, <1>4 DEF AbstractStatus
  <1>6. \A r \in Segs : AbstractStatus(r) # "inevitable"
    BY <1>0, <1>3, InevitableStatus DEF AbstractStatus
  <1>7. Runs(s) /\ Runs(s)'
    BY <1>5 DEF Runs
  <1>8. \A o \in Objects : View(s, o)' = View(s, o)
    BY <1>1 DEF View, Page
  <1>9. AbstractReads(s)' = AbstractReads(s) /\ AbstractWrites(s)' = AbstractWrites(s)
    BY <1>1, <1>7, <1>8 DEF AbstractReads, AbstractWrites
  <1> QED BY <1>1, <1>5, <1>6, <1>9, IsBecomeInevitable

\* A first read, by itself or in the write barrier: of the committed contents,
\* or else the transaction turns out to be doomed.
LEMMA ReadStep ==
  ASSUME BaseInv, WorkInv, CheckedInv, NEW s \in Segs, NEW p \in Objects,
         stm_read(s, p) \/ stm_write(s, p), \A r \in Segs \ {s} : Same(r)
  PROVE  Atomic!Next \/ UNCHANGED Atomic!vars
  <1>0. TypeInv /\ TypeOK /\ NULL \notin Values
    BY C8Assumption DEF BaseInv, TypeInv
  <1>1. /\ pc[s] = "run" /\ pc'[s] \in {"run", "write"} /\ MarkRead(s, p)
        /\ UNCHANGED <<transaction_state, needs_abort, modified, pages,
                       pages_privatized, last, log, snapshots>>
    BY <1>0 DEF stm_read, stm_write, Goto, valVars, heapVars, pageVars, logVars, TypeOK
  <1>2. /\ read'[s] = read[s] \cup {p}
        /\ seen'[s] = IF seen[s][p] = NULL /\ p \notin modified[s]
                      THEN [seen[s] EXCEPT ![p] = View(s, p)] ELSE seen[s]
        /\ seen[s] \in [Objects -> Values \cup {NULL}]
    BY <1>0, <1>1, MarkReadFacts
  <1>3. Unseen(s)' = Unseen(s) /\ \A o \in Objects : View(s, o)' = View(s, o)
    BY <1>1 DEF Unseen, View, Page
  <1>4. Last(snapshots') = Last(snapshots)
    BY <1>1
  <1>5. transaction_state[s] = "INEVITABLE" => Unseen(s) = {}
    BY <1>1, InevitableStatus
  <1>6. CASE AbstractStatus(s)' # AbstractStatus(s)
    <2>1. AbstractStatus(s) \in {"active", "doomed"} /\ AbstractStatus(s)' = "doomed"
      BY <1>1, <1>2, <1>3, <1>6 DEF AbstractStatus
    <2>2. Dooms(s) \/ Same(s)
      BY <2>1, DoomedOrSame
    <2>3. Dooms(s)
      BY <1>6, <2>2 DEF Same
    <2> QED BY <1>4, <2>3, IsDoom DEF Atomic!Next
  <1>7. CASE AbstractStatus(s)' = AbstractStatus(s) /\ Runs(s) /\ seen'[s] # seen[s]
    <2>1. Unseen(s) \cap (read[s] \cup {p}) = {}
      BY <1>1, <1>2, <1>3, <1>5, <1>7 DEF AbstractStatus, Runs
    <2>2. seen[s][p] = NULL /\ p \notin modified[s]
          /\ seen'[s] = [seen[s] EXCEPT ![p] = View(s, p)]
      BY <1>2, <1>7
    <2>3. ~Pending(s, p)
      BY <1>0, <2>1, UnseenParts DEF Pending
    <2>4. View(s, p) = Last(snapshots)[p]
      BY <2>2, <2>3 DEF WorkInv, WorkOf, CopyOf, Committed
    <2>5. Runs(s)'
      BY <1>7 DEF Runs
    <2>6. AbstractReads(s)' = [AbstractReads(s) EXCEPT ![p] = Last(snapshots)[p]]
      BY <1>2, <1>7, <2>2, <2>4, <2>5 DEF AbstractReads
    <2>7. AbstractWrites(s)[p] = NULL /\ AbstractWrites(s)' = AbstractWrites(s)
      BY <1>1, <1>3, <1>7, <2>2, <2>5 DEF AbstractWrites
    <2>8. Atomic!Read(s, p)
      BY <1>4, <1>7, <2>6, <2>7, IsRead
    <2> QED BY <2>8 DEF Atomic!Next
  <1>8. CASE AbstractStatus(s)' = AbstractStatus(s) /\ (~Runs(s) \/ seen'[s] = seen[s])
    <2>1. Same(s)
      BY <1>1, <1>3, <1>8, SameShown
    <2> QED BY <1>4, <2>1, IsStutter
  <1> QED BY <1>6, <1>7, <1>8

\* The backup copy is registered: the transaction writes, for now, what it has
\* read.  A store writes something else.
LEMMA WriteStep ==
  ASSUME BaseInv, WorkInv, CheckedInv, NEW s \in Segs, NEW p \in Objects,
         NEW v \in Values,
         \/ RegisterBackup(s) /\ p = obj[s] /\ v = View(s, p)
         \/ Store(s, p, v),
         \A r \in Segs \ {s} : Same(r)
  PROVE  Atomic!Next \/ UNCHANGED Atomic!vars
  <1>0. TypeInv /\ TypeOK
    BY DEF BaseInv, TypeInv
  <1>1. /\ pc[s] \in {"run", "barrier"} /\ pc'[s] = "run"
        /\ UNCHANGED <<transaction_state, needs_abort, read, seen, last, log, snapshots>>
        /\ modified'[s] = modified[s] \cup {p}
    BY <1>0 DEF RegisterBackup, Store, Goto, txVars, valVars, logVars, TypeOK
  <1>2. View(s, p)' = v /\ \A o \in Objects \ {p} : View(s, o)' = View(s, o)
    <2>1. CASE RegisterBackup(s) /\ p = obj[s] /\ v = View(s, p)
      BY <2>1 DEF RegisterBackup, pageVars, View, Page
    <2>2. CASE Store(s, p, v)
      BY <2>2, OneObject DEF Store, pageVars, BaseInv
    <2> QED BY <2>1, <2>2
  <1>3. p \in read[s]
    BY <1>1 DEF WorkInv, WorkOf, BarrierOf, InWrite, RegisterBackup, Store
  <1>4. seen[s][p] # NULL
    BY <1>1, <1>3 DEF CheckedInv
  <1>5. Unseen(s)' = Unseen(s) /\ Last(snapshots') = Last(snapshots)
    BY <1>1 DEF Unseen
  <1>6. AbstractStatus(s)' = AbstractStatus(s)
    BY <1>1, <1>5 DEF AbstractStatus
  <1>7. CASE ~Runs(s)
    <2>1. Same(s)
      BY <1>6, <1>7, SameShown
    <2> QED BY <1>5, <2>1, IsStutter
  <1>8. CASE Runs(s)
    <2>1. Runs(s)'
      BY <1>6, <1>8 DEF Runs
    <2>2. AbstractReads(s)[p] # NULL /\ AbstractReads(s)' = AbstractReads(s)
      BY <1>1, <1>4, <1>8, <2>1 DEF AbstractReads
    <2>3. AbstractWrites(s)' = [AbstractWrites(s) EXCEPT ![p] = v]
      BY <1>1, <1>2, <1>8, <2>1 DEF AbstractWrites
    <2>4. Atomic!Write(s, p, v)
      BY <1>5, <1>6, <1>8, <2>2, <2>3, IsWrite
    <2> QED BY <2>4 DEF Atomic!Next
  <1> QED BY <1>7, <1>8

\* Copying an object of an entry changes nothing that a transaction shows: one
\* that wrote to it has read it, and is doomed.
LEMMA CopyStep ==
  ASSUME BaseInv, WorkInv, NEW s \in Segs, NEW p \in Objects, _update_obj_from(s, p)
  PROVE  Same(s)
  <1>0. TypeInv /\ TypeOK /\ LogOK /\ StateInv /\ Author(s) \in Segs
    BY AuthorOfNext DEF BaseInv, TypeInv, _update_obj_from
  <1>1. /\ pc[s] = "update" /\ pc'[s] = "check" /\ p \in todo[s]
        /\ UNCHANGED <<transaction_state, needs_abort, read, seen, modified,
                       pages_privatized, last, log>>
        /\ pages' = [pages EXCEPT ![Page(s, p)][p] = Committed(Author(s), p)]
    BY <1>0 DEF _update_obj_from, Goto, txVars, valVars, pageVars, logVars, TypeOK
  <1>2. \A o \in Objects \ {p} : View(s, o)' = View(s, o)
    BY <1>0, <1>1, OneObject, Contents DEF BaseInv
  <1>3. AbstractStatus(s)' = AbstractStatus(s)
    BY <1>1 DEF AbstractStatus, Unseen
  <1>4. p \in Unseen(s)
    BY <1>0, <1>1, UnseenParts DEF LogOK, Coming
  <1>5. transaction_state[s] # "INEVITABLE"
    BY <1>0, <1>1 DEF StateInv, InWrite
  <1>6. Runs(s) => p \notin read[s]
    BY <1>1, <1>4, <1>5 DEF Runs, AbstractStatus
  <1>7. Runs(s) => p \notin modified[s]
    BY <1>6 DEF WorkInv, WorkOf, BarrierOf
  <1> QED BY <1>1, <1>2, <1>3, <1>7, SameShown

\* Finding out that an object was read dooms a transaction that was doomed
\* when the entry was appended.
LEMMA CheckStep ==
  ASSUME BaseInv, NEW s \in Segs, CheckRead(s)
  PROVE  Same(s)
  <1>0. TypeInv /\ TypeOK /\ LogOK /\ StateInv /\ obj[s] \in todo[s] /\ obj[s] \in Objects
    BY DEF BaseInv, TypeInv, DataOK, TypeOK, CheckRead
  <1>1. /\ pc[s] = "check" /\ pc'[s] = "update"
        /\ UNCHANGED <<transaction_state, read, seen, pages, pages_privatized, last, log>>
        /\ \/ obj[s] \in read[s] /\ needs_abort'[s] = TRUE
           \/ UNCHANGED <<needs_abort, modified>>
    BY <1>0 DEF CheckRead, Conflict, Goto, txVars, pageVars, logVars, TypeOK
  <1>2. obj[s] \in Unseen(s)
    BY <1>0, <1>1, UnseenParts DEF LogOK, Coming
  <1>3. transaction_state[s] # "INEVITABLE"
    BY <1>0, <1>1 DEF StateInv, InWrite
  <1>4. AbstractStatus(s)' = AbstractStatus(s)
    BY <1>1, <1>2 DEF AbstractStatus, Unseen
  <1>5. obj[s] \in read[s] => ~Runs(s)
    BY <1>1, <1>2, <1>3 DEF Runs, AbstractStatus
  <1>6. \A o \in Objects : View(s, o)' = View(s, o)
    BY <1>1 DEF View, Page
  <1> QED BY <1>1, <1>4, <1>5, <1>6, SameShown

\* Past an entry, a transaction that has read something in it aborts.
LEMMA EntryStep ==
  ASSUME BaseInv, CheckedInv, NEW s \in Segs, EntryValidated(s)
  PROVE  Same(s)
  <1>0. TypeInv /\ TypeOK
    BY DEF BaseInv, TypeInv
  <1>1. /\ pc[s] = "update" /\ pc'[s] = "validate" /\ todo[s] = {}
        /\ UNCHANGED <<transaction_state, needs_abort, read, seen, modified, pages,
                       pages_privatized>>
    BY <1>0 DEF EntryValidated, Goto, txVars, heapVars, pageVars, TypeOK
  <1>2. \A o \in Objects : o \in Unseen(s) <=> Coming(s, o) \/ o \in Unseen(s)'
    BY <1>0, EntryUnseen
  <1>3. \A o \in Objects : Coming(s, o) /\ o \in read[s] => needs_abort[s]
    BY <1>1 DEF CheckedInv
  <1>4. read[s] \subseteq Objects
    BY <1>0 DEF TypeOK
  <1>5. needs_abort[s] \/ (Unseen(s) \cap read[s] = {} <=> Unseen(s)' \cap read[s] = {})
    BY <1>2, <1>3, <1>4
  <1>6. AbstractStatus(s)' = AbstractStatus(s)
    BY <1>1, <1>5 DEF AbstractStatus
  <1>7. \A o \in Objects : View(s, o)' = View(s, o)
    BY <1>1 DEF View, Page
  <1> QED BY <1>1, <1>6, <1>7, SameShown

\* The rest of the library is not visible at all.
LEMMA QuietStep ==
  ASSUME BaseInv, WorkInv, NEW s \in Segs,
         \/ LookAtPage(s) \/ RemapPage(s) \/ PagePrivatized(s) \/ NextEntry(s)
         \/ Validated(s) \/ StartCommit(s) \/ BecomeInevitable(s) \/ AppendFailed(s)
         \/ ClearBackups(s)
  PROVE  Same(s)
  <1>0. TypeInv /\ TypeOK /\ StateInv
    BY DEF BaseInv, TypeInv
  <1>1. CASE ClearBackups(s)
    <2>1. pc[s] = "clear" /\ pc'[s] = "none"
      BY <1>0, <1>1 DEF ClearBackups, Finish, Goto, TypeOK
    <2>2. AbstractStatus(s) = "idle" /\ AbstractStatus(s)' = "idle"
      BY <2>1 DEF AbstractStatus
    <2> QED BY <2>2, SameShown DEF Runs
  <1>2. CASE ~ClearBackups(s)
    <2>1. /\ pc[s] \notin {"none", "clear", "abort"} /\ pc'[s] \notin {"none", "clear"}
          /\ pc'[s] = "abort" => needs_abort[s]
          /\ UNCHANGED <<transaction_state, needs_abort, read, seen, modified, last, log>>
          /\ pages' = pages \/ RemapPage(s)
      <3>1. CASE LookAtPage(s) \/ RemapPage(s) \/ PagePrivatized(s)
        BY <1>0, <3>1 DEF LookAtPage, RemapPage, PagePrivatized, Goto, txVars, valVars,
          heapVars, logVars, TypeOK
      <3>2. CASE NextEntry(s) \/ Validated(s)
        BY <1>0, <3>2 DEF NextEntry, Validated, Goto, txVars, valVars, heapVars, logVars,
          TypeOK
      <3>3. CASE StartCommit(s) \/ BecomeInevitable(s) \/ AppendFailed(s)
        BY <1>0, <3>3 DEF StartCommit, BecomeInevitable, AppendFailed, Goto, txVars,
          valVars, heapVars, logVars, TypeOK
      <3> QED BY <1>2, <3>1, <3>2, <3>3
    <2>2. transaction_state[s] = "INEVITABLE" => ~needs_abort[s]
      BY <1>0 DEF StateInv, InWrite
    <2>3. AbstractStatus(s)' = AbstractStatus(s)
      BY <2>1, <2>2 DEF AbstractStatus, Unseen
    <2>4. \A o \in Objects : View(s, o)' = View(s, o)
      BY <1>0, <1>2, <2>1, SameViews DEF BaseInv, PageInv, Step, Library, User
    <2> QED BY <2>1, <2>3, <2>4, SameShown
  <1> QED BY <1>1, <1>2

\* Every step is a step of the abstract transactions, or none.
LEMMA StepImplements ==
  ASSUME BaseInv, WorkInv, CheckedInv, NEW s \in Segs, Step(s)
  PROVE  Atomic!Next \/ UNCHANGED Atomic!vars
  <1>0. TypeInv /\ TypeOK /\ StateInv
    BY DEF BaseInv, TypeInv
  <1>1. CASE AppendEntry(s)
    BY <1>1, CommitStep DEF Atomic!Next
  <1>2. CASE ~AppendEntry(s)
    <2>1. \A r \in Segs \ {s} : Same(r)
      BY <1>2, OthersSame
    <2>2. Last(snapshots') = Last(snapshots)
      BY <1>0, <1>2, UnseenKept
    <2>3. CASE stm_start_transaction(s) \/ Abort(s) \/ TurnInevitable(s)
      BY <2>1, <2>3, BeginStep, AbortStep, TurnStep DEF Atomic!Next
    <2>4. CASE \E o \in Objects : stm_read(s, o) \/ stm_write(s, o)
      BY <2>1, <2>4, ReadStep
    <2>5. CASE RegisterBackup(s)
      <3>1. obj[s] \in Objects
        BY <1>0, <2>5 DEF RegisterBackup, TypeInv, DataOK, InWrite
      <3>2. View(s, obj[s]) \in Values
        BY <1>0, <3>1, Contents
      <3> QED BY <2>1, <2>5, <3>1, <3>2, WriteStep
    <2>6. CASE \E o \in Objects, v \in Values : Store(s, o, v)
      BY <2>1, <2>6, WriteStep
    <2>7. CASE StartAbort(s)
      <3>1. /\ pc[s] = "run" /\ pc'[s] = "abort" /\ transaction_state[s] = "REGULAR"
            /\ transaction_state' = transaction_state
        BY <1>0, <2>7 DEF StartAbort, Goto, txVars, TypeOK
      <3>2. AbstractStatus(s) \in {"active", "doomed"} /\ AbstractStatus(s)' = "doomed"
        BY <3>1 DEF AbstractStatus
      <3>3. Dooms(s) \/ Same(s)
        BY <3>2, DoomedOrSame
      <3>4. CASE Dooms(s)
        BY <2>1, <2>2, <3>4, IsDoom DEF Atomic!Next
      <3>5. CASE Same(s)
        BY <2>1, <2>2, <3>5, IsStutter
      <3> QED BY <3>3, <3>4, <3>5
    <2>8. CASE Spin(s)
      <3>1. \A r \in Segs : Same(r)
        BY <2>8 DEF Spin, Same, AbstractStatus, AbstractReads, AbstractWrites, Runs, Unseen,
          View, Page, vars, txVars, valVars, heapVars, pageVars, logVars
      <3> QED BY <2>2, <3>1, IsStutter
    <2>9. CASE \/ LookAtPage(s) \/ RemapPage(s) \/ PagePrivatized(s) \/ NextEntry(s)
               \/ Validated(s) \/ StartCommit(s) \/ BecomeInevitable(s) \/ AppendFailed(s)
               \/ ClearBackups(s) \/ CheckRead(s) \/ EntryValidated(s)
               \/ \E o \in Objects : _update_obj_from(s, o)
      <3>1. Same(s)
        BY <2>9, QuietStep, CheckStep, EntryStep, CopyStep
      <3> QED BY <2>1, <2>2, <3>1, IsStutter
    <2> QED BY <1>2, <2>3, <2>4, <2>5, <2>6, <2>7, <2>8, <2>9 DEF Step, Library, User
  <1> QED BY <1>1, <1>2

\* At the start no transaction runs.
LEMMA InitImplements == Init => Atomic!Init
  <1> SUFFICES ASSUME Init PROVE Atomic!Init
    OBVIOUS
  <1>1. Last(snapshots) \in [Objects -> Values]
    BY InitTypeInv, LastSnapshot
  <1>2. \A s \in Segs : AbstractStatus(s) = "idle" /\ ~Runs(s)
    BY DEF Init, AbstractStatus, Runs
  <1> QED BY <1>1, <1>2, NothingShown DEF Atomic!Init

\* The commit log implements atomic transactions: appending one entry is the
\* whole commit (c8/stm/core.c:183-188), although the contents follow later.
THEOREM Implements ==
  ASSUME OVERTAKING = FALSE
  PROVE  Spec => ImplementsAtomicStm
  <1>1. Init => Atomic!Init /\ CheckedInv
    BY InitImplements DEF Init, CheckedInv
  <1>2. BaseInv /\ WorkInv /\ CheckedInv /\ [Next]_vars =>
          CheckedInv' /\ [Atomic!Next]_(Atomic!vars)
    <2> SUFFICES ASSUME BaseInv, WorkInv, CheckedInv, [Next]_vars
                 PROVE  CheckedInv' /\ (Atomic!Next \/ UNCHANGED Atomic!vars)
      OBVIOUS
    <2>1. CASE UNCHANGED vars
      <3>1. \A r \in Segs : Same(r)
        BY <2>1 DEF Same, AbstractStatus, AbstractReads, AbstractWrites, Runs, Unseen,
          View, Page, vars, txVars, valVars, heapVars, pageVars, logVars
      <3>2. CheckedInv' /\ Last(snapshots') = Last(snapshots)
        BY <2>1 DEF CheckedInv, Coming, vars, txVars, valVars, logVars
      <3> QED BY <3>1, <3>2, IsStutter
    <2>2. CASE Next
      BY <2>2, StepImplements, NextCheckedInv DEF Next, Step
    <2> QED BY <2>1, <2>2
  <1> QED BY <1>1, <1>2, WorkInvariant, PTL DEF Spec, Atomic!Spec, ImplementsAtomicStm

=============================================================================
