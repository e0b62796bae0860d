-------------------------------- MODULE Store --------------------------------
(***************************************************************************)
(* internal/store and internal/store/firestore: the delay queue, the named *)
(* log and the franchise position, as operators on their contents.  Each   *)
(* is one atomic document operation in Firestore and one critical section  *)
(* in the in-memory store.  One athlete is served, so a key is an activity.*)
(*                                                                         *)
(* Instants are kept as the time left until them, so that nothing grows as *)
(* the clock advances: dueIn is ProcessAfter - now, recheck what is left   *)
(* of EnqueuedAt + ProvisionalSkipWindow.                                  *)
(***************************************************************************)
EXTENDS Integers

CONSTANT Horizon   \* bound: how long overdue an entry is still told apart

ASSUME HorizonAssumption == Horizon \in Nat

-----------------------------------------------------------------------------
(* The queue: a set of pending entries, at most one per activity.          *)

Pending(ids, delay, window) ==
  [id : ids, dueIn : (-Horizon)..delay, recheck : 0..window]

Queued(queue, id) == \E p \in queue : p.id = id

\* Mutant: the entry replaces the one that is there.
EnqueueOver(queue, entry) == {p \in queue : p.id # entry.id} \cup {entry}

\* Create, not Set: an entry that is there already stays as it is.
Enqueue(queue, entry) ==
  IF Queued(queue, entry.id) THEN queue ELSE queue \cup {entry}

Due(queue) == {p \in queue : p.dueIn <= 0}

\* Whatever entry the activity has is deleted.
Remove(queue, id) == {p \in queue : p.id # id}

\* byDeadline: oldest deadline first, ties by activity ID.
ByDeadline(p, q) ==
  \/ p.dueIn < q.dueIn
  \/ p.dueIn = q.dueIn /\ p.id < q.id

IsFirst(p, due) == \A q \in due \ {p} : ByDeadline(p, q)

\* One unit of time later.
Aged(p) ==
  [p EXCEPT !.dueIn = IF @ > -Horizon THEN @ - 1 ELSE @,
            !.recheck = IF @ > 0 THEN @ - 1 ELSE @]

-----------------------------------------------------------------------------
(* The named log: one row per activity, replaced whole.                    *)

Sources == {"service", "template", "imported", "human"}

NoRow == [title |-> "", source |-> "none"]

MarkNamed(log, id, title, source) ==
  [log EXCEPT ![id] = [title |-> title, source |-> source]]

\* Mutant: only what the service named counts.
NamedByService(log, id) == log[id].source \notin {"none", "human"}

Named(log, id) == log[id] # NoRow

-----------------------------------------------------------------------------
(* The franchise position only ever moves forward.                         *)

AdvanceFranchisePast(position, index) ==
  IF index + 1 > position THEN index + 1 ELSE position
=============================================================================
