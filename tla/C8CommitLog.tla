---------------------------- MODULE C8CommitLog ----------------------------
(***************************************************************************)
(* The transactions of c8: no object is ever locked.  A commit appends an  *)
(* entry, the list of the objects it has written, to a linked list that    *)
(* all segments follow at their own pace; following it, a segment copies   *)
(* these objects from the segment that wrote them, and finds out whether   *)
(* it has read something that changed (c8/stm/core.c).  An inevitable      *)
(* transaction keeps the others from appending by an entry of its own.     *)
(*                                                                         *)
(* An action is a stretch of code that other threads cannot see into:      *)
(* what is done under modified_objs_lock is one action.  One transaction   *)
(* runs in a segment at a time; the threads behind them do not matter      *)
(* here.  The definitions marked "faulty" are used nowhere: each is the    *)
(* one below it with a plausible bug.                                      *)
(***************************************************************************)
EXTENDS Naturals, Sequences, FiniteSets, SequencesExt

CONSTANTS
  NB_SEGMENTS,
  Objects, Values,
  NULL,
  MAX_LOG,      \* bound: entries that not everybody has seen
  OVERTAKING    \* FALSE: no thread is as slow as to be overtaken between the
                \* append of its entry and the removal of its backup copies

Segs == 0..(NB_SEGMENTS - 1)

ASSUME C8Assumption == /\ NB_SEGMENTS \in Nat \ {0}
                       /\ MAX_LOG \in Nat \ {0}
                       /\ OVERTAKING \in BOOLEAN
                       /\ NULL \notin Objects /\ NULL \notin Values
                       /\ NULL \notin Segs

VARIABLES
  pc,                 \* per segment: where its transaction is
  goal,               \* ... and where it goes on after validation
  transaction_state,
  last,               \* last_commit_log_entry, as a position in log
  todo, needs_abort,  \* the rest of the entry being validated, the outcome
  read,               \* objects with a current read marker
  obj, bk_obj,        \* object and backup copy of the write barrier
  modified, backup,   \* modified_old_objects: its keys and its copies
  pages,              \* the file pages: contents of the objects, per segment
  pages_privatized,   \* per object: segments with a page of their own
  privatizer,         \* who has all privatization locks
  log,                \* the entries that not everybody has seen
  inevitable,         \* the segment whose entry, -1, ends the log
  snapshots,          \* history: committed contents before and after entries
  seen                \* history: what the first read of an object returned

txVars   == <<transaction_state, read, seen>>
valVars  == <<goal, last, todo, needs_abort>>
writeVars == <<obj, bk_obj>>
heapVars == <<modified, backup, pages>>
pageVars == <<pages_privatized, privatizer>>
logVars  == <<log, inevitable, snapshots>>
vars == <<pc, txVars, valVars, writeVars, heapVars, pageVars, logVars>>

Nothing == [o \in Objects |-> NULL]

Init ==
  /\ pc = [s \in Segs |-> "none"]
  /\ goal = [s \in Segs |-> "run"]
  /\ transaction_state = [s \in Segs |-> "NONE"]
  /\ last = [s \in Segs |-> 0]
  /\ todo = [s \in Segs |-> {}]
  /\ needs_abort = [s \in Segs |-> FALSE]
  /\ read = [s \in Segs |-> {}]
  /\ obj = [s \in Segs |-> NULL]
  /\ bk_obj = [s \in Segs |-> NULL]
  /\ modified = [s \in Segs |-> {}]
  /\ backup = [s \in Segs |-> Nothing]
  /\ pages_privatized = [o \in Objects |-> {}]
  /\ privatizer = NULL
  /\ log = <<>>
  /\ inevitable = NULL
  /\ \E f \in [Objects -> Values] :
       /\ pages = [s \in Segs |-> f]
       /\ snapshots = <<f>>
  /\ seen = [s \in Segs |-> Nothing]

Goto(s, p) == pc' = [pc EXCEPT ![s] = p]

\* The page behind an object: shared pages are those of segment 0.
Page(s, o) == IF s \in pages_privatized[o] THEN s ELSE 0
View(s, o) == pages[Page(s, o)][o]
is_shared_log_page(o) == pages_privatized[o] = {}

-----------------------------------------------------------------------------
(* Start, reads and stores.                                                *)

\* _stm_start_transaction(): a new read version, then stm_validate().
stm_start_transaction(s) ==
  /\ pc[s] = "none"
  /\ Goto(s, "validate")
  /\ goal' = [goal EXCEPT ![s] = "run"]
  /\ transaction_state' = [transaction_state EXCEPT ![s] = "REGULAR"]
  /\ read' = [read EXCEPT ![s] = {}]
  /\ UNCHANGED <<seen, last, todo, needs_abort, writeVars, heapVars,
                 pageVars, logVars>>

MarkRead(s, o) ==
  /\ read' = [read EXCEPT ![s] = @ \cup {o}]
  /\ seen' = IF seen[s][o] = NULL /\ o \notin modified[s]
             THEN [seen EXCEPT ![s][o] = View(s, o)] ELSE seen

stm_read(s, o) ==
  /\ pc[s] = "run"
  /\ MarkRead(s, o)
  /\ UNCHANGED <<pc, transaction_state, valVars, writeVars, heapVars,
                 pageVars, logVars>>

\* A store behind the write barrier.
Store(s, o, v) ==
  /\ pc[s] = "run" /\ o \in modified[s]
  /\ pages' = [pages EXCEPT ![Page(s, o)][o] = v]
  /\ UNCHANGED <<pc, txVars, valVars, writeVars, modified, backup, pageVars,
                 logVars>>

-----------------------------------------------------------------------------
(* _stm_write_slowpath()                                                   *)

\* Mark the object as read and make the backup copy.
stm_write(s, o) ==
  /\ pc[s] = "run"
  /\ o \notin modified[s]
  /\ MarkRead(s, o)
  /\ obj' = [obj EXCEPT ![s] = o]
  /\ bk_obj' = [bk_obj EXCEPT ![s] = View(s, o)]
  /\ Goto(s, "write")
  /\ UNCHANGED <<transaction_state, valVars, heapVars, pageVars, logVars>>

\* A look at the flags without any lock; if the page is shared, all locks.
LookAtPage(s) ==
  /\ pc[s] = "write"
  /\ IF is_shared_log_page(obj[s])
     THEN /\ privatizer = NULL /\ privatizer' = s
          /\ Goto(s, "privatize")
     ELSE Goto(s, "barrier") /\ UNCHANGED privatizer
  /\ UNCHANGED <<txVars, valVars, writeVars, heapVars, pages_privatized,
                 logVars>>

\* _privatize_shared_page(): one segment after the other, segment 0 last.
RemapPage(s) ==
  LET o == obj[s]
      left == Segs \ pages_privatized[o]
  IN /\ pc[s] = "privatize" /\ left # {}
     /\ \E i \in left :
          /\ i = 0 => left = {0}
          /\ pages_privatized' = [pages_privatized EXCEPT ![o] = @ \cup {i}]
          /\ pages' = [pages EXCEPT ![i][o] = pages[0][o]]
     /\ UNCHANGED <<pc, txVars, valVars, writeVars, modified, backup,
                    privatizer, logVars>>

PagePrivatized(s) ==
  /\ pc[s] = "privatize" /\ pages_privatized[obj[s]] = Segs
  /\ privatizer' = NULL
  /\ Goto(s, "barrier")
  /\ UNCHANGED <<txVars, valVars, writeVars, heapVars, pages_privatized,
                 logVars>>

NoWait(s) == TRUE                             \* faulty: no privatization lock
OwnPrivatizationLock(s) == privatizer = NULL

\* The write barrier is off and the backup copy is registered.
RegisterBackup(s) ==
  LET o == obj[s] IN
  /\ pc[s] = "barrier" /\ OwnPrivatizationLock(s)
  /\ modified' = [modified EXCEPT ![s] = @ \cup {o}]
  /\ backup' = [backup EXCEPT ![s][o] = bk_obj[s]]
  /\ obj' = [obj EXCEPT ![s] = NULL]
  /\ bk_obj' = [bk_obj EXCEPT ![s] = NULL]
  /\ Goto(s, "run")
  /\ UNCHANGED <<txVars, valVars, pages, pageVars, logVars>>

-----------------------------------------------------------------------------
(* stm_validate()                                                          *)

\* The next entry of the log.
NextEntry(s) ==
  /\ pc[s] = "validate"
  /\ last[s] < Len(log)
  /\ todo' = [todo EXCEPT ![s] = log[last[s] + 1].written]
  /\ Goto(s, "update")
  /\ UNCHANGED <<txVars, goal, last, needs_abort, writeVars, heapVars,
                 pageVars, logVars>>

\* At the entry of an inevitable transaction the loop just goes round, through
\* safe points, until something else is there.
Spin(s) ==
  /\ pc[s] = "validate" /\ last[s] = Len(log) /\ inevitable # NULL
  /\ UNCHANGED vars

Author(s) == log[last[s] + 1].segment_num

\* The contents as of the last commit of segment i.
PageOnly(i, o) == View(i, o)                  \* faulty: current contents
Committed(i, o) == IF o \in modified[i] THEN backup[i][o] ELSE View(i, o)

_update_obj_from(s, o) ==
  /\ pc[s] = "update" /\ o \in todo[s]
  /\ OVERTAKING \/ pc[Author(s)] # "clear"
  /\ pages' = [pages EXCEPT ![Page(s, o)][o] = Committed(Author(s), o)]
  /\ obj' = [obj EXCEPT ![s] = o]
  /\ Goto(s, "check")
  /\ UNCHANGED <<txVars, valVars, bk_obj, modified, backup, pageVars, logVars>>

ReadOnlyConflict(s, o) == o \in read[s] \ modified[s]   \* faulty: not if written
Conflict(s, o) == o \in read[s]

BackupKept(s, o) == UNCHANGED <<modified, backup>>      \* faulty: stays in tree
ForgetBackup(s, o) == /\ modified' = [modified EXCEPT ![s] = @ \ {o}]
                      /\ backup' = [backup EXCEPT ![s][o] = NULL]

\* If the object was read: abort later on, and not over the new contents.
CheckRead(s) ==
  LET o == obj[s] IN
  /\ pc[s] = "check"
  /\ IF Conflict(s, o)
     THEN /\ needs_abort' = [needs_abort EXCEPT ![s] = TRUE]
          /\ ForgetBackup(s, o)
     ELSE UNCHANGED <<needs_abort, modified, backup>>
  /\ todo' = [todo EXCEPT ![s] = @ \ {o}]
  /\ obj' = [obj EXCEPT ![s] = NULL]
  /\ Goto(s, "update")
  /\ UNCHANGED <<txVars, goal, last, bk_obj, pages, pageVars, logVars>>

\* Entries that everybody has seen are not looked at again, and left out.
Shortened(positions) ==
  LET n == CHOOSE n \in {positions[s] : s \in Segs} :
             \A s \in Segs : n <= positions[s]
  IN /\ last' = [s \in Segs |-> positions[s] - n]
     /\ log' = SubSeq(log, n + 1, Len(log))
     /\ snapshots' = SubSeq(snapshots, n + 1, Len(snapshots))

EntryValidated(s) ==
  /\ pc[s] = "update" /\ todo[s] = {}
  /\ Shortened([last EXCEPT ![s] = @ + 1])
  /\ Goto(s, "validate")
  /\ UNCHANGED <<txVars, goal, todo, needs_abort, writeVars, heapVars,
                 pageVars, inevitable>>

AtEnd(s) == last[s] = Len(log) /\ inevitable = NULL

Validated(s) ==
  /\ pc[s] = "validate" /\ AtEnd(s)
  /\ Goto(s, IF needs_abort[s] THEN "abort" ELSE goal[s])
  /\ UNCHANGED <<txVars, valVars, writeVars, heapVars, pageVars, logVars>>

-----------------------------------------------------------------------------
(* The end of a transaction.                                               *)

\* An inevitable transaction needs no validation.
StartCommit(s) ==
  /\ pc[s] = "run"
  /\ IF transaction_state[s] = "INEVITABLE"
     THEN Goto(s, "append") /\ UNCHANGED goal
     ELSE Goto(s, "validate") /\ goal' = [goal EXCEPT ![s] = "append"]
  /\ UNCHANGED <<txVars, last, todo, needs_abort, writeVars, heapVars,
                 pageVars, logVars>>

AnyEnd(s) == last[s] = Len(log)               \* faulty: over the entry -1
FreeEnd(s) == AtEnd(s)
\* What the compare-and-swap on last_commit_log_entry->next finds there.
MayAppend(s) == FreeEnd(s) \/ inevitable = s

LogOpen == inevitable' = NULL
\* After the compare-and-swap, before the backup copies are gone.
AppendEntry(s) ==
  /\ pc[s] = "append" /\ MayAppend(s) /\ Len(log) < MAX_LOG
  /\ log' = Append(log, [segment_num |-> s, written |-> modified[s]])
  /\ LogOpen
  /\ snapshots' = Append(snapshots, [o \in Objects |->
                    IF o \in modified[s] THEN View(s, o) ELSE Last(snapshots)[o]])
  /\ goal' = [goal EXCEPT ![s] = "run"]
  /\ Goto(s, "clear")
  /\ UNCHANGED <<txVars, last, todo, needs_abort, writeVars, heapVars, pageVars>>

\* Somebody else was faster: validate again.
AppendFailed(s) ==
  /\ pc[s] \in {"append", "turn"} /\ ~MayAppend(s)
  /\ Goto(s, "validate")
  /\ UNCHANGED <<txVars, valVars, writeVars, heapVars, pageVars, logVars>>

\* _finish_transaction()
Finish(s) ==
  /\ modified' = [modified EXCEPT ![s] = {}]
  /\ backup' = [backup EXCEPT ![s] = Nothing]
  /\ transaction_state' = [transaction_state EXCEPT ![s] = "NONE"]
  /\ seen' = [seen EXCEPT ![s] = Nothing]
  /\ Goto(s, "none")

ClearBackups(s) ==
  /\ pc[s] = "clear"
  /\ Finish(s)
  /\ UNCHANGED <<read, valVars, writeVars, pages, pageVars, logVars>>

\* stm_abort_transaction(), on request.
StartAbort(s) ==
  /\ pc[s] = "run" /\ transaction_state[s] = "REGULAR"
  /\ Goto(s, "abort")
  /\ UNCHANGED <<txVars, valVars, writeVars, heapVars, pageVars, logVars>>

\* reset_modified_from_backup_copies()
Abort(s) ==
  /\ pc[s] = "abort"
  /\ pages' = [i \in Segs |-> [o \in Objects |->
                 IF o \in modified[s] /\ i = Page(s, o) THEN backup[s][o]
                                                       ELSE pages[i][o]]]
  /\ Finish(s)
  /\ needs_abort' = [needs_abort EXCEPT ![s] = FALSE]
  /\ goal' = [goal EXCEPT ![s] = "run"]
  /\ UNCHANGED <<read, last, todo, writeVars, pageVars, logVars>>

-----------------------------------------------------------------------------
(* _stm_become_inevitable()                                                *)

BecomeInevitable(s) ==
  /\ pc[s] = "run" /\ transaction_state[s] = "REGULAR"
  /\ Goto(s, "validate")
  /\ goal' = [goal EXCEPT ![s] = "turn"]
  /\ UNCHANGED <<txVars, last, todo, needs_abort, writeVars, heapVars,
                 pageVars, logVars>>

TurnInevitable(s) ==
  /\ pc[s] = "turn" /\ MayAppend(s)
  /\ inevitable' = s
  /\ transaction_state' = [transaction_state EXCEPT ![s] = "INEVITABLE"]
  /\ goal' = [goal EXCEPT ![s] = "run"]
  /\ Goto(s, "run")
  /\ UNCHANGED <<read, seen, last, todo, needs_abort, writeVars, heapVars,
                 pageVars, log, snapshots>>

-----------------------------------------------------------------------------
Library(s) ==
  \/ LookAtPage(s) \/ RemapPage(s) \/ PagePrivatized(s) \/ RegisterBackup(s)
  \/ NextEntry(s) \/ Spin(s) \/ (\E o \in Objects : _update_obj_from(s, o)) \/ CheckRead(s)
  \/ EntryValidated(s) \/ Validated(s)
  \/ AppendEntry(s) \/ AppendFailed(s) \/ ClearBackups(s) \/ Abort(s)
  \/ TurnInevitable(s)

User(s) ==
  \/ stm_start_transaction(s)
  \/ \E o \in Objects : stm_read(s, o) \/ stm_write(s, o)
                        \/ \E v \in Values : Store(s, o, v)
  \/ StartCommit(s) \/ StartAbort(s) \/ BecomeInevitable(s)

Next == \E s \in Segs : Library(s) \/ User(s)
Spec == Init /\ [][Next]_vars

\* Every thread runs, and transactions end.
Fairness == \A s \in Segs : WF_vars(Library(s)) /\ SF_vars(StartCommit(s))
FairSpec == Spec /\ Fairness

-----------------------------------------------------------------------------
\* The transactions that run, or have just been found valid.
Valid(s) == pc[s] \in {"run", "write", "privatize", "barrier", "append", "turn"}
Snapshot(s) == snapshots[last[s] + 1]

\* stm_validate() "goes from last known entry in commit log to the most
\* current one and applies all changes done by other transactions"
\* (c8/stm/core.c:73-75): what a segment has, its own changes apart, is what
\* was committed up to its last_commit_log_entry.
AllChangesApplied ==
  \A s \in Segs, o \in Objects : Valid(s) => Committed(s, o) = Snapshot(s)[o]

\* Opacity: all that a transaction has read belongs to the one snapshot its
\* segment is at (c8/stm/core.c: stm_validate, stm_read).
Opacity ==
  \A s \in Segs, o \in Objects : Valid(s) => seen[s][o] \in {NULL, Snapshot(s)[o]}

\* Nothing gets into the log between the entry of an inevitable transaction
\* and its commit, and it is valid until then (the assertions at
\* c8/stm/core.c:78, 174, 178; "abort: transaction_state == TS_INEVITABLE").
InevitableHoldsTheLog ==
  \A s \in Segs :
    /\ inevitable = s <=> transaction_state[s] = "INEVITABLE" /\ pc[s] # "clear"
    /\ inevitable = s => /\ last[s] = Len(log) /\ ~needs_abort[s]
                         /\ pc[s] \notin {"abort", "validate", "update"}

\* A segment that writes to an object has its own page for it, and a page
\* that is shared has the same contents for all (c8/stm/core.c:42-44,
\* 221, 231; c8/stm/pages.h:14: "only one can modify it").
PrivateWhenWritten ==
  \A s \in Segs, o \in Objects :
    /\ o \in modified[s] => pages_privatized[o] = Segs
    /\ pc[s] = "check" /\ o = obj[s] => pages_privatized[o] = Segs
    /\ pages_privatized[o] # Segs => View(s, o) = Last(snapshots)[o]

\* Objects that somebody else has committed and s has not looked at yet.
Unseen(s) == UNION {log[i].written : i \in (last[s] + 1)..Len(log)}
AbstractStatus(s) ==
  IF pc[s] \in {"none", "clear"} THEN "idle"
  ELSE IF transaction_state[s] = "INEVITABLE" THEN "inevitable"
  ELSE IF pc[s] = "abort" \/ needs_abort[s] \/ Unseen(s) \cap read[s] # {}
       THEN "doomed" ELSE "active"
Runs(s) == AbstractStatus(s) \in {"active", "inevitable"}
AbstractReads(s) == [o \in Objects |-> IF Runs(s) THEN seen[s][o] ELSE NULL]
AbstractWrites(s) ==
  [o \in Objects |-> IF Runs(s) /\ o \in modified[s] THEN View(s, o) ELSE NULL]
Atomic == INSTANCE AtomicStm WITH
  Slots  <- Segs,
  None   <- NULL,
  store  <- Last(snapshots),
  status <- [s \in Segs |-> AbstractStatus(s)],
  reads  <- [s \in Segs |-> AbstractReads(s)],
  writes <- [s \in Segs |-> AbstractWrites(s)]

\* Appending one entry is the whole commit, although the changes reach the
\* other segments later, one object at a time (c8/stm/core.c:183-188).
ImplementsAtomicStm == Atomic!Spec

\* Whoever waits behind an inevitable transaction gets past its entry
\* (c8/stm/core.c:89-98).
Validating(s) == pc[s] = "validate"
ValidationEnds == \A s \in Segs : Validating(s) ~> ~Validating(s)
=============================================================================
