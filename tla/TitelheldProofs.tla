--------------------------- MODULE TitelheldProofs ---------------------------
(***************************************************************************)
(* Theorems about Titelheld for every value of its constants: IInv is      *)
(* inductive, and what follows from it.  TitelheldLemmas has the types,    *)
(* the queue and the order of the writes; here are what was read, what a   *)
(* row says and what is still owed.                                        *)
(***************************************************************************)
EXTENDS TitelheldLemmas

USE DEF store, sweep, world, history, Hand

-----------------------------------------------------------------------------
(* What the sweep read.                                                    *)

\* The steps the sweep has no part in, and that leave the process running.
Outside ==
  \/ UNCHANGED vars
  \/ Tick
  \/ Webhook
  \/ \E a \in Activity :
       Upload(a) \/ Retitle(a) \/ TagCommute(a) \/ Annotate(a) \/ Delete(a)

\* A step is one from outside, a restart, or one of the sweep's.
LEMMA StepsAre ==
  ASSUME [Next]_vars
  PROVE  Outside \/ Restart \/ Sweep
BY DEF Next, Environment, Outside

\* What the sweep holds stays as it is, except that the entry in hand ages.
LEMMA SweepHolds ==
  ASSUME IInv, Outside
  PROVE  /\ UNCHANGED <<log, writes, pc, copy, row, draft, tries, sent, settler>>
         /\ cur'.id = cur.id
         /\ cur'.recheck > 0 => cur.recheck > 0
<1>1. ASSUME NEW p \in Pendings PROVE Aged(p).recheck > 0 => p.recheck > 0
  BY <1>1, TitelheldAssumption DEF Pendings, Pending, Aged
<1>2. CASE Tick
  BY <1>1, <1>2, AgedTyped DEF Tick, IInv, TypeOK
<1>3. CASE Webhook
  BY <1>3 DEF Webhook, Deliver, Redeliver, CheckNamed, EnqueueEvent, DropEvent
<1>4. ASSUME NEW a \in Activity,
             Upload(a) \/ Retitle(a) \/ TagCommute(a) \/ Annotate(a) \/ Delete(a)
      PROVE  UNCHANGED <<log, writes, pc, cur, copy, row, draft, tries, sent, settler>>
  BY <1>4 DEF Upload, Retitle, TagCommute, Annotate, Delete
<1>5. QED
  BY <1>2, <1>3, <1>4 DEF Outside, vars

\* Only a process that started with writes on comes to write.
LEMMA WritesStep == IInv /\ [Next]_vars => WritesAreOn'
<1> SUFFICES ASSUME IInv, [Next]_vars PROVE WritesAreOn'
  OBVIOUS
<1>0. WritesAreOn
  BY DEF IInv
<1>1. CASE Outside
  BY <1>0, <1>1, SweepHolds DEF WritesAreOn
<1>2. CASE Restart
  BY <1>2 DEF Restart, WritesAreOn
<1>3. CASE Fire \/ Take \/ EndSweep \/ CancelSweep \/ Dequeue \/ CallFails
            \/ Lookup \/ Fetch \/ RecordHumanTitle
  BY <1>3 DEF WritesAreOn, Fire, Take, EndSweep, CancelSweep, Dequeue, CallFails, LetGo,
     Lookup, Fetch, Gone, RecordHumanTitle
<1>4. CASE MakeTitle
  BY <1>4 DEF WritesAreOn, MakeTitle, LetGo
<1>5. CASE Writing
  BY <1>0, <1>5 DEF WritesAreOn, Writing, Reread, RecordTitle, RecordFranchise, PutTitle,
     PutTitleUnanswered, PutTitleRefused, KeepStoredTitle, RetryOrFail, LetGo
<1>6. CASE Reconciling
  BY <1>0, <1>6 DEF WritesAreOn, Reconciling, Reconcile, Gone, RecordRename, Unattribute,
     PutDescription, PutDescriptionUnanswered, PutDescriptionRefused, RetryOrFail, LetGo
<1>7. QED
  BY <1>1, <1>2, <1>3, <1>4, <1>5, <1>6, StepsAre DEF Sweep

\* What skip and the gate say of a title: one that is replaced is renamable,
\* one that is the athlete's is not.
LEMMA GateDecides ==
  ASSUME NEW a, NEW activity
  PROVE  /\ Decision(a, activity).action # "skip" => Renamable(activity.name)
         /\ Decision(a, activity).humanTitled => ~Renamable(activity.name)
BY DEF Decision, ToClassifierActivity, Classify, Skipped

\* Every step keeps what the sweep relies on of the activity as it was read.
LEMMA CopyStep == IInv /\ [Next]_vars => CopyIsWhatWasRead'
<1> SUFFICES ASSUME IInv, [Next]_vars PROVE CopyIsWhatWasRead'
  OBVIOUS
<1>0. CopyIsWhatWasRead /\ TypeOK /\ InHand /\ SweepKnowsTheRow
  BY DEF IInv
<1>1. CASE Outside
  BY <1>0, <1>1, SweepHolds DEF CopyIsWhatWasRead, OwedNothing, Decision, Named, IsRename
<1>2. CASE Restart
  BY <1>2 DEF Restart, CopyIsWhatWasRead
<1>3. ASSUME pc' = "next", copy' = Unborn PROVE CopyIsWhatWasRead'
  BY <1>3 DEF CopyIsWhatWasRead
<1>4. CASE Dequeue \/ CallFails
  BY <1>3, <1>4 DEF Dequeue, CallFails, LetGo
<1>5. CASE Fire \/ Take \/ EndSweep \/ CancelSweep \/ Lookup
  BY <1>0, <1>5 DEF CopyIsWhatWasRead, Fire, Take, EndSweep, CancelSweep, Lookup
<1>6. CASE Fetch
  <2> DEFINE activity == strava[cur.id]
             decision == Decision(cur.id, activity)
  <2>1. CASE activity.status # "live" /\ Gone
    BY <1>0, <1>6, <2>1 DEF CopyIsWhatWasRead, Fetch, Gone, Unborn
  <2>2. CASE /\ activity.status = "live"
             /\ RecordsHumanTitle(decision, activity.name)
             /\ pc' = "record" /\ copy' = activity /\ cur' = cur
    BY <2>2 DEF CopyIsWhatWasRead
  <2>3. CASE LetGo
    BY <1>3, <2>3 DEF LetGo
  <2>4. CASE /\ decision.action = "skip" /\ ~StaysQueued(decision)
             /\ pc' = "remove" /\ copy' = activity /\ cur' = cur
    BY <2>4 DEF CopyIsWhatWasRead, OwedNothing, StaysQueued
  <2>5. CASE /\ decision.action # "skip"
             /\ pc' = "title" /\ copy' = activity
    BY <2>5, GateDecides DEF CopyIsWhatWasRead
  <2>6. QED
    BY <1>6, <2>1, <2>2, <2>3, <2>4, <2>5 DEF Fetch
<1>7. CASE RecordHumanTitle
  <2>1. Named(log', cur.id)
    BY <1>0, <1>7, EntryInHand, MarkNamedNames DEF RecordHumanTitle, TypeOK, Sources
  <2>2. QED
    BY <1>7, <2>1 DEF RecordHumanTitle, CopyIsWhatWasRead, Named
<1>8. CASE MakeTitle
  BY <1>0, <1>3, <1>8 DEF MakeTitle, LetGo, CopyIsWhatWasRead
<1>9. CASE Reread \/ RecordTitle \/ RecordFranchise
  BY <1>0, <1>9 DEF Reread, RecordTitle, RecordFranchise, CopyIsWhatWasRead
<1>10. CASE PutTitle
  BY <1>0, <1>10 DEF PutTitle, CopyIsWhatWasRead, SweepKnowsTheRow, Named
<1>11. CASE PutTitleUnanswered \/ PutTitleRefused
  BY <1>0, <1>3, <1>11 DEF PutTitleUnanswered, PutTitleRefused, RetryOrFail, LetGo,
     CopyIsWhatWasRead
<1>12. CASE KeepStoredTitle
  <2>1. Named(log', cur.id)
    BY <1>0, <1>12, EntryInHand, MarkNamedNames
       DEF KeepStoredTitle, SweepKnowsTheRow, TypeOK, Sources, Draft
  <2>2. QED
    BY <1>12, <2>1 DEF KeepStoredTitle, CopyIsWhatWasRead, Named
<1>13. CASE Reconcile
  <2>1. Named(log, cur.id) /\ log' = log
    BY <1>0, <1>13 DEF Reconcile, SweepKnowsTheRow
  <2>2. QED
    BY <1>0, <1>3, <1>13, <2>1 DEF Reconcile, Gone, Unattribute, LetGo, CopyIsWhatWasRead,
       Named, IsRename
<1>14. CASE RecordRename
  <2>1. Named(log', cur.id)
    BY <1>0, <1>14, EntryInHand, MarkNamedNames
       DEF RecordRename, RenamedSource, TypeOK, Sources
  <2>2. QED
    BY <1>3, <1>14, <2>1 DEF RecordRename, Unattribute, LetGo, CopyIsWhatWasRead, Named
<1>15. CASE PutDescription \/ PutDescriptionUnanswered \/ PutDescriptionRefused
  BY <1>0, <1>3, <1>15 DEF PutDescription, PutDescriptionUnanswered, PutDescriptionRefused,
     RetryOrFail, LetGo, CopyIsWhatWasRead, Named
<1>16. QED
  BY <1>1, <1>2, <1>4, <1>5, <1>6, <1>7, <1>8, <1>9, <1>10, <1>11, <1>12, <1>13, <1>14,
     <1>15, StepsAre DEF Sweep, Writing, Reconciling

\* Nothing but the sweep writes the row it has in hand.
LEMMA RowStep == IInv /\ [Next]_vars => RowIsCurrent'
<1> SUFFICES ASSUME IInv, [Next]_vars PROVE RowIsCurrent'
  OBVIOUS
<1>0. RowIsCurrent /\ TypeOK /\ InHand
  BY DEF IInv
<1>1. CASE Outside
  BY <1>0, <1>1, SweepHolds DEF RowIsCurrent
<1>2. CASE Restart
  BY <1>2 DEF Restart, RowIsCurrent
<1>3. CASE Fire \/ Take \/ EndSweep \/ CancelSweep \/ Dequeue \/ CallFails
            \/ Lookup \/ Fetch \/ RecordHumanTitle \/ MakeTitle
  BY <1>0, <1>3 DEF RowIsCurrent, Fire, Take, EndSweep, CancelSweep, Dequeue, CallFails,
     LetGo, Lookup, Fetch, Gone, RecordHumanTitle, MakeTitle
<1>4. CASE RecordTitle
  <2>1. cur.id \in Activity /\ log \in [Activity -> Row]
    BY <1>0, <1>4, EntryInHand DEF RecordTitle, TypeOK
  <2>2. log'[cur.id] = [title |-> draft.title, source |-> draft.source]
    BY <1>4, <2>1 DEF RecordTitle, MarkNamed
  <2>3. QED
    BY <1>4, <2>2 DEF RecordTitle, RowIsCurrent
<1>5. CASE Reread \/ RecordFranchise \/ PutTitle \/ PutTitleUnanswered \/ PutTitleRefused
            \/ KeepStoredTitle
  BY <1>0, <1>5 DEF RowIsCurrent, Reread, RecordFranchise, PutTitle, PutTitleUnanswered,
     PutTitleRefused, KeepStoredTitle, RetryOrFail, LetGo
<1>6. CASE Reconciling
  BY <1>0, <1>6 DEF RowIsCurrent, Reconciling, Reconcile, Gone, RecordRename, Unattribute,
     PutDescription, PutDescriptionUnanswered, PutDescriptionRefused, RetryOrFail, LetGo
<1>7. QED
  BY <1>1, <1>2, <1>3, <1>4, <1>5, <1>6, StepsAre DEF Sweep, Writing

-----------------------------------------------------------------------------
(* Where a title comes from.                                               *)

\* What may happen to an activity while the service does nothing to it: a
\* title that changes comes from outside, and a line only goes away.
MovesOutside(b) ==
  /\ strava'[b].status = "unborn" => strava[b].status = "unborn"
  /\ strava'[b].status = "live" /\ strava[b].status # "live" =>
       /\ strava[b].status = "unborn"
       /\ strava'[b].name \in OutsideTitles
       /\ ~strava'[b].line
  /\ strava'[b].status = "live" /\ strava[b].status = "live" =>
       strava'[b].name = strava[b].name \/ strava'[b].name \in OutsideTitles
  /\ strava'[b].line => strava[b].line

\* The world and a restart move activities from outside.
LEMMA WorldMoves ==
  ASSUME IInv, Outside \/ Restart, NEW b \in Activity
  PROVE  MovesOutside(b)
<1>0. strava \in [Activity -> StravaActivity] /\ strava[b] \in StravaActivity
  BY DEF IInv, TypeOK
<1>1. CASE strava' = strava
  BY <1>1 DEF MovesOutside
<1>2. ASSUME NEW a \in Activity, Upload(a) PROVE MovesOutside(b)
  <2>1. PICK title \in OutsideTitles :
          strava' = [strava EXCEPT ![a] = [Unborn EXCEPT !.status = "live", !.name = title]]
    BY <1>2 DEF Upload, OutsideTitles
  <2>2. QED
    BY <1>0, <1>2, <2>1 DEF MovesOutside, Upload, Unborn
<1>3. ASSUME NEW a \in Activity, Retitle(a) PROVE MovesOutside(b)
  <2>1. PICK title \in OutsideTitles : strava' = [strava EXCEPT ![a].name = title]
    BY <1>3 DEF Retitle, OutsideTitles
  <2>2. QED
    BY <1>0, <2>1 DEF MovesOutside, StravaActivity
<1>4. ASSUME NEW a \in Activity, TagCommute(a) \/ Annotate(a) PROVE MovesOutside(b)
  BY <1>0, <1>4 DEF MovesOutside, TagCommute, Annotate, StravaActivity
<1>5. ASSUME NEW a \in Activity, Delete(a) PROVE MovesOutside(b)
  BY <1>0, <1>5 DEF MovesOutside, Delete, Live, Unborn
<1>6. CASE Tick \/ Webhook \/ Restart \/ UNCHANGED vars
  BY <1>1, <1>6 DEF Tick, Webhook, Deliver, Redeliver, CheckNamed, EnqueueEvent, DropEvent,
     Restart, vars
<1>7. QED
  BY <1>2, <1>3, <1>4, <1>5, <1>6 DEF Outside

\* The sweep's steps that send Strava nothing.
LEMMA SweepReads ==
  ASSUME Sweep, ~(PutTitle \/ PutTitleUnanswered \/ PutDescription \/ PutDescriptionUnanswered)
  PROVE  UNCHANGED <<strava, events, sent>>
BY DEF Sweep, Fire, Take, EndSweep, CancelSweep, Dequeue, CallFails, Lookup, Fetch,
   RecordHumanTitle, MakeTitle, Writing, Reread, RecordTitle, RecordFranchise,
   PutTitleRefused, KeepStoredTitle, Reconciling, Reconcile, RecordRename,
   PutDescriptionRefused

\* The sweep changes the activity in hand alone, a live one, and leaves it live.
\* A new title is the draft's, a line goes or comes with the draft's PUT.
LEMMA SweepMoves ==
  ASSUME IInv, Sweep, NEW b \in Activity
  PROVE  /\ strava'[b].status = strava[b].status
         /\ \/ strava'[b] = strava[b] /\ sent'[b] = sent[b]
            \/ /\ b = cur.id /\ strava[b].status = "live" /\ pc = "put"
               /\ strava'[b].name = Stored(draft.title)
               /\ sent'[b] = {[title |-> draft.title, entry |-> draft.entry]}
            \/ /\ b = cur.id /\ strava[b].status = "live" /\ pc = "unline"
               /\ strava'[b].name = strava[b].name
               /\ ~strava'[b].line /\ sent'[b] = sent[b]
<1>0. /\ strava \in [Activity -> StravaActivity] /\ strava[b] \in StravaActivity
      /\ sent \in [Activity -> SUBSET Sent]
      /\ TypeOK /\ InHand
  BY DEF IInv, TypeOK
<1>1. CASE UNCHANGED <<strava, events, sent>>
  BY <1>1
<1>2. CASE PutTitle \/ PutTitleUnanswered
  <2>1. /\ pc = "put" /\ cur.id \in Activity /\ strava[cur.id].status = "live"
        /\ ApplyTitle(cur.id) /\ log' = log /\ settler' = settler
    BY <1>0, <1>2, EntryInHand DEF PutTitle, PutTitleUnanswered, Live
  <2>2. sent'[cur.id] = {[title |-> draft.title, entry |-> draft.entry]}
    BY <2>1, BooksSent
  <2>3. strava' = [strava EXCEPT ![cur.id] = Titled(strava[cur.id])]
    BY <2>1 DEF ApplyTitle
  <2>4. ASSUME b = cur.id
        PROVE  strava'[b].status = strava[b].status /\ strava'[b].name = Stored(draft.title)
    BY <1>0, <2>3, <2>4 DEF Titled, StravaActivity
  <2>5. ASSUME b # cur.id PROVE strava'[b] = strava[b] /\ sent'[b] = sent[b]
    BY <1>0, <2>1, <2>3, <2>5 DEF ApplyTitle
  <2>6. QED
    BY <2>1, <2>2, <2>4, <2>5
<1>3. CASE PutDescription \/ PutDescriptionUnanswered
  <2>1. /\ pc = "unline" /\ cur.id \in Activity /\ strava[cur.id].status = "live"
        /\ ApplyDescription(cur.id) /\ sent' = sent
    BY <1>0, <1>3, EntryInHand DEF PutDescription, PutDescriptionUnanswered, Live
  <2>2. QED
    BY <1>0, <2>1 DEF ApplyDescription, StravaActivity
<1>4. QED
  BY <1>1, <1>2, <1>3, SweepReads

\* A handler that looked the activity up is the same handler or is done, and
\* one of an update is never done before it is enqueued.
LEMMA HandlerChecks ==
  ASSUME TypeOK, NEW handler \in intake, CheckNamed(handler)
  PROVE  \E checked :
           /\ checked.aspect = handler.aspect /\ checked.id = handler.id
           /\ intake' \subseteq intake \cup {checked}
           /\ intake \ {handler} \subseteq intake'
           /\ handler.aspect = "update" => checked \in intake'
<1> DEFINE checked == [handler EXCEPT !.read = TRUE, !.named = Named(log, handler.id)]
<1>1. checked.aspect = handler.aspect /\ checked.id = handler.id
  BY DEF TypeOK, Handlers
<1>2. \/ intake' = (intake \ {handler}) \cup {checked}
      \/ handler.aspect # "update" /\ intake' = intake \ {handler}
  BY DEF CheckNamed
<1> HIDE DEF checked
<1>3. QED
  BY <1>1, <1>2

\* Nothing is known of an activity before its upload: every event, entry and
\* row is of one that was uploaded.
LEMMA UnbornStep == IInv /\ [Next]_vars => UnbornIsUnknown'
<1> SUFFICES ASSUME IInv, [Next]_vars, NEW a \in Activity, strava'[a].status = "unborn"
             PROVE  AtRest(a)' /\ ~Named(log, a)'
  BY DEF UnbornIsUnknown
<1>0. /\ TypeOK /\ InHand /\ EntryStaysUntilFinished
      /\ strava[a].status = "unborn"
      /\ AtRest(a) /\ ~Named(log, a)
      /\ pc \notin {"idle", "next"} => cur.id \in Activity /\ cur.id # a
  <2>1. strava[a].status = "unborn"
    BY WorldMoves, SweepMoves, StepsAre DEF MovesOutside
  <2>2. AtRest(a) /\ ~Named(log, a)
    BY <2>1 DEF IInv, UnbornIsUnknown
  <2>3. pc \notin {"idle", "next"} => cur.id \in Activity /\ cur \in queue
    BY EntryInHand DEF IInv, InHand, EntryStaysUntilFinished
  <2>4. QED
    BY <2>1, <2>2, <2>3 DEF IInv, AtRest, Queued
<1>1. ASSUME log'[a] = log[a],
             \A e \in events' : e.id # a, \A h \in intake' : h.id # a,
             \A p \in queue' : p.id # a
      PROVE  AtRest(a)' /\ ~Named(log, a)'
  BY <1>0, <1>1 DEF AtRest, Queued, Named
<1>2. /\ \A e \in events : e.id # a
      /\ \A h \in intake : h.id # a
      /\ \A p \in queue : p.id # a
  BY <1>0 DEF AtRest, Queued
<1>3. ASSUME NEW b \in Activity,
             Upload(b) \/ Retitle(b) \/ TagCommute(b) \/ Annotate(b) \/ Delete(b)
      PROVE  AtRest(a)' /\ ~Named(log, a)'
  <2>1. strava \in [Activity -> StravaActivity]
    BY <1>0 DEF TypeOK
  <2>2. Upload(b) \/ Retitle(b) \/ Delete(b) => b # a
    <3>1. CASE Upload(b)
      BY <2>1, <3>1 DEF Upload, Unborn
    <3>2. CASE Retitle(b) \/ Delete(b)
      BY <1>0, <3>2 DEF Retitle, Delete, Live
    <3>3. QED
      BY <3>1, <3>2
  <2>3. \A e \in events' : e.id # a
    <3>1. \/ events' = events
          \/ b # a /\ \E aspect \in {"create", "update", "delete"} :
                        events' = events \cup {Event(aspect, b)}
      <4>1. CASE TagCommute(b) \/ Annotate(b)
        BY <4>1 DEF TagCommute, Annotate
      <4>2. CASE Upload(b) \/ Retitle(b) \/ Delete(b)
        BY <2>2, <4>2 DEF Upload, Retitle, Delete
      <4>3. QED
        BY <1>3, <4>1, <4>2
    <3>2. QED
      BY <1>2, <3>1 DEF Event
  <2>4. UNCHANGED <<log, intake, queue>>
    BY <1>3 DEF Upload, Retitle, TagCommute, Annotate, Delete
  <2>5. QED
    BY <1>1, <1>2, <2>3, <2>4
<1>4. CASE Restart \/ UNCHANGED vars
  BY <1>1, <1>2, <1>4 DEF Restart, vars
<1>5. CASE Tick
  <2>1. /\ \A e \in events : Older(e).id = e.id
        /\ \A h \in intake : Older(h).id = h.id
        /\ \A p \in queue : Aged(p).id = p.id
    BY <1>0, AgedTyped DEF TypeOK, Older, Events, Handlers
  <2>2. QED
    BY <1>1, <1>2, <1>5, <2>1 DEF Tick
<1>6. CASE Webhook
  <2>1. ASSUME NEW event \in events, Deliver(event) \/ Redeliver(event)
        PROVE  AtRest(a)' /\ ~Named(log, a)'
    BY <1>1, <1>2, <2>1 DEF Deliver, Redeliver, Acknowledge, Handler
  <2>2. ASSUME NEW handler \in intake, CheckNamed(handler) \/ DropEvent(handler)
        PROVE  AtRest(a)' /\ ~Named(log, a)'
    <3>1. \A h \in intake' : h.id # a
      BY <1>0, <1>2, <2>2, HandlerChecks DEF DropEvent
    <3>2. UNCHANGED <<log, events, queue>>
      BY <2>2 DEF CheckNamed, DropEvent
    <3>3. QED
      BY <1>1, <1>2, <3>1, <3>2
  <2>3. ASSUME NEW handler \in intake, EnqueueEvent(handler)
        PROVE  AtRest(a)' /\ ~Named(log, a)'
    <3>1. NewEntry(handler).id = handler.id
      BY <1>0, NewEntryTyped DEF TypeOK, Handlers
    <3>2. QED
      BY <1>1, <1>2, <2>3, <3>1 DEF EnqueueEvent, Enqueue
  <2>4. QED
    BY <1>6, <2>1, <2>2, <2>3 DEF Webhook
<1>7. CASE Sweep
  <2>1. log'[a] = log[a]
    BY <1>0, <1>7 DEF TypeOK, Sweep, Fire, Take, EndSweep, CancelSweep, Dequeue, CallFails,
       Lookup, Fetch, RecordHumanTitle, MakeTitle, Writing, Reread, RecordTitle,
       RecordFranchise, PutTitle, PutTitleUnanswered, PutTitleRefused, KeepStoredTitle,
       Reconciling, Reconcile, RecordRename, PutDescription, PutDescriptionUnanswered,
       PutDescriptionRefused, MarkNamed
  <2>2. queue' \subseteq queue /\ intake' = intake
    BY <1>7 DEF Sweep, Fire, Take, EndSweep, CancelSweep, Dequeue, Remove, CallFails,
       Lookup, Fetch, RecordHumanTitle, MakeTitle, Writing, Reread, RecordTitle,
       RecordFranchise, PutTitle, PutTitleUnanswered, PutTitleRefused, KeepStoredTitle,
       Reconciling, Reconcile, RecordRename, PutDescription, PutDescriptionUnanswered,
       PutDescriptionRefused
  <2>3. \A e \in events' : e.id # a
    <3>1. CASE events' = events
      BY <1>2, <3>1
    <3>2. CASE PutTitle \/ PutTitleUnanswered
      BY <1>0, <1>2, <3>2 DEF PutTitle, PutTitleUnanswered, ApplyTitle, Event
    <3>3. CASE PutDescription \/ PutDescriptionUnanswered
      BY <1>2, <3>3 DEF PutDescription, PutDescriptionUnanswered
    <3>4. QED
      BY <1>7, <3>1, <3>2, <3>3, SweepReads
  <2>4. QED
    BY <1>1, <1>2, <2>1, <2>2, <2>3
<1>8. QED
  BY <1>3, <1>4, <1>5, <1>6, <1>7, StepsAre DEF Outside

\* What a step of the sweep writes into the named log: one row, that of the
\* activity in hand, and nothing else changes but the sweep's own state.
Records(title, source) ==
  /\ cur.id \in Activity
  /\ log'[cur.id] = [title |-> title, source |-> source]
  /\ \A b \in Activity \ {cur.id} : log'[b] = log[b]
  /\ UNCHANGED <<strava, events, intake, queue, sent, missed>>

\* The sweep writes the log in four places.
LEMMA LogMoves ==
  ASSUME IInv, Sweep
  PROVE  \/ log' = log
         \/ pc = "record" /\ sent[cur.id] = {} /\ Records(copy.name, "human")
         \/ pc = "mark" /\ sent[cur.id] = {} /\ Records(draft.title, draft.source)
         \/ pc = "keep" /\ Records(Stored(draft.title), draft.source)
         \/ pc = "rename" /\ Records(copy.name, RenamedSource(row.source))
<1>0. /\ log \in [Activity -> Row]
      /\ pc \notin {"idle", "next"} => cur.id \in Activity
  BY EntryInHand DEF IInv, TypeOK
<1>1. ASSUME NEW title, NEW source, cur.id \in Activity,
             log' = MarkNamed(log, cur.id, title, source),
             UNCHANGED <<strava, events, intake, queue, sent, missed>>
      PROVE  Records(title, source)
  BY <1>0, <1>1 DEF Records, MarkNamed
<1>2. pc \in {"record", "mark"} => sent[cur.id] = {}
  BY <1>0 DEF IInv, SweepKnowsTheRow, RecordedBeforeSent
<1>3. CASE RecordHumanTitle
  BY <1>0, <1>1, <1>2, <1>3 DEF RecordHumanTitle
<1>4. CASE RecordTitle
  BY <1>0, <1>1, <1>2, <1>4 DEF RecordTitle
<1>5. CASE KeepStoredTitle
  BY <1>0, <1>1, <1>5 DEF KeepStoredTitle
<1>6. CASE RecordRename
  BY <1>0, <1>1, <1>6 DEF RecordRename
<1>7. CASE ~(RecordHumanTitle \/ RecordTitle \/ KeepStoredTitle \/ RecordRename)
  BY <1>7 DEF Sweep, Fire, Take, EndSweep, CancelSweep, Dequeue, CallFails, Lookup, Fetch,
     MakeTitle, Writing, Reread, RecordFranchise, PutTitle, PutTitleUnanswered,
     PutTitleRefused, Reconciling, Reconcile, PutDescription, PutDescriptionUnanswered,
     PutDescriptionRefused
<1>8. QED
  BY <1>3, <1>4, <1>5, <1>6, <1>7

\* A title to be recorded as the athlete's is the one Strava holds, or held
\* when it was read.
LEMMA ComesToRecord ==
  ASSUME IInv, Sweep, pc' \in {"record", "rename"}
  PROVE  /\ UNCHANGED <<strava, sent, log>> /\ cur' = cur /\ cur.id \in Activity
         /\ strava[cur.id].status = "live" /\ copy' = strava[cur.id]
<1>0. pc \notin {"idle", "next"} => cur.id \in Activity
  BY EntryInHand DEF IInv
<1>1. Fetch \/ Reconcile
  BY DEF Sweep, Fire, Take, EndSweep, CancelSweep, Dequeue, CallFails, Lookup, LetGo,
     RecordHumanTitle, MakeTitle, Writing, Reread, RecordTitle, RecordFranchise, PutTitle,
     PutTitleUnanswered, PutTitleRefused, KeepStoredTitle, RetryOrFail, Reconciling,
     RecordRename, Unattribute, PutDescription, PutDescriptionUnanswered,
     PutDescriptionRefused
<1>2. QED
  BY <1>0, <1>1 DEF Fetch, Reconcile, Gone, LetGo, Unattribute

\* KnownName, of a name, what was sent, a row's title and whether reconcileTitle
\* may still be owed to it.
Accounted(name, given, title, loose) ==
  \/ name \in OutsideTitles
  \/ \E s \in given :
       name = Stored(s.title) /\ (title = name \/ (title = s.title /\ loose))

\* A row that may still hold what was sent is corrected by PutTitle's answer
\* and reconcileTitle only, and by those it is corrected.
LEMMA StaysUncorrected ==
  ASSUME IInv, [Next]_vars, NEW a \in Activity, IsUncorrected(a)
  PROVE  \/ IsUncorrected(a)'
         \/ a = cur.id /\ pc \in {"put", "keep"} /\ log'[a].title = Stored(draft.title)
<1>0. /\ log \in [Activity -> Row]
      /\ RowIsCurrent
      /\ pc \notin {"idle", "next"} => cur.id \in Activity
  BY EntryInHand DEF IInv, TypeOK
<1>1. CASE Outside
  <2>1. uncorrected' = uncorrected
    BY <1>1 DEF Outside, vars, Tick, Webhook, Deliver, Redeliver, CheckNamed, EnqueueEvent,
       DropEvent, Upload, Retitle, TagCommute, Annotate, Delete
  <2>2. QED
    BY <1>1, <2>1, SweepHolds DEF IsUncorrected
<1>2. CASE Restart
  BY <1>2 DEF Restart, IsUncorrected
<1>3. CASE PutTitle
  <2>1. CASE Rewrites(draft.title)
    BY <1>3, <2>1 DEF PutTitle, IsUncorrected
  <2>2. CASE ~Rewrites(draft.title)
    BY <1>0, <1>3, <2>2 DEF PutTitle, IsUncorrected, Rewrites, RowIsCurrent
  <2>3. QED
    BY <2>1, <2>2
<1>4. CASE PutTitleUnanswered
  BY <1>4 DEF PutTitleUnanswered, IsUncorrected
<1>5. CASE KeepStoredTitle
  BY <1>0, <1>5 DEF KeepStoredTitle, IsUncorrected, MarkNamed
<1>6. CASE Sweep /\ ~PutTitle /\ ~PutTitleUnanswered /\ ~KeepStoredTitle
  <2>1. pc # "keep" /\ uncorrected' = uncorrected
    BY <1>6 DEF Sweep, Fire, Take, EndSweep, CancelSweep, Dequeue, CallFails, Lookup, Fetch,
       RecordHumanTitle, MakeTitle, Writing, Reread, RecordTitle, RecordFranchise,
       PutTitleRefused, Reconciling, Reconcile, RecordRename, PutDescription,
       PutDescriptionUnanswered, PutDescriptionRefused
  <2>2. QED
    BY <2>1 DEF IsUncorrected
<1>7. QED
  BY <1>1, <1>2, <1>3, <1>4, <1>5, <1>6, StepsAre

\* Every title on Strava is still accounted for after a step.
LEMMA NamesStep == IInv /\ [Next]_vars => NamesAreKnown'
<1> SUFFICES ASSUME IInv, [Next]_vars PROVE NamesAreKnown'
  OBVIOUS
<1>0. /\ NamesAreKnown /\ RowIsCurrent /\ SweepKnowsTheRow /\ TypeOK
      /\ pc \notin {"idle", "next"} => cur.id \in Activity
  BY EntryInHand DEF IInv
<1>00. ASSUME pc \in {"advance", "put", "keep"}, NEW s \in sent[cur.id]
       PROVE  s.title = draft.title
  BY <1>0, <1>00 DEF SweepKnowsTheRow
<1>1. ASSUME NEW a \in Activity, strava'[a].status = "live"
      PROVE  Accounted(strava'[a].name, sent'[a], log'[a].title, IsUncorrected(a)')
  <2>1. strava[a].status = "live" =>
          Accounted(strava[a].name, sent[a], log[a].title, IsUncorrected(a))
    BY <1>0 DEF NamesAreKnown, Live, KnownName, Accounted
  <2>2. CASE Outside \/ Restart
    <3>1. log' = log /\ sent' = sent
      BY <2>2, SweepHolds DEF Restart
    <3>2. IsUncorrected(a) => IsUncorrected(a)'
      <4>1. CASE Outside
        <5>1. uncorrected' = uncorrected
          BY <4>1 DEF Outside, vars, Tick, Webhook, Deliver, Redeliver, CheckNamed,
             EnqueueEvent, DropEvent, Upload, Retitle, TagCommute, Annotate, Delete
        <5>2. QED
          BY <4>1, <5>1, SweepHolds DEF IsUncorrected
      <4>2. CASE Restart
        BY <4>2 DEF Restart, IsUncorrected
      <4>3. QED
        BY <2>2, <4>1, <4>2
    <3>3. \/ strava'[a].name \in OutsideTitles
          \/ strava[a].status = "live" /\ strava'[a].name = strava[a].name
      <4>1. MovesOutside(a)
        BY <2>2, WorldMoves
      <4>2. QED
        BY <1>1, <4>1 DEF MovesOutside
    <3>4. QED
      BY <2>1, <3>1, <3>2, <3>3 DEF Accounted
  <2>3. CASE /\ Sweep /\ strava[a].status = "live"
             /\ strava'[a].name = strava[a].name /\ sent'[a] = sent[a]
             /\ log'[a] = log[a]
    <3>1. CASE IsUncorrected(a) => IsUncorrected(a)'
      BY <2>1, <2>3, <3>1 DEF Accounted
    <3>2. CASE a = cur.id /\ pc \in {"put", "keep"} /\ log'[a].title = Stored(draft.title)
      BY <1>00, <2>1, <2>3, <3>2 DEF Accounted
    <3>3. QED
      BY <3>1, <3>2, StaysUncorrected
  <2>4. CASE (PutTitle \/ PutTitleUnanswered) /\ a = cur.id
    <3>1. /\ pc = "put" /\ log'[a].title = draft.title
          /\ strava'[a].name = Stored(draft.title)
          /\ [title |-> draft.title, entry |-> draft.entry] \in sent'[a]
      <4>1. pc = "put" /\ ApplyTitle(a) /\ log' = log
        BY <2>4 DEF PutTitle, PutTitleUnanswered
      <4>2. strava' = [strava EXCEPT ![a] = Titled(strava[a])]
        BY <4>1 DEF ApplyTitle
      <4>3. strava'[a].name = Stored(draft.title)
        BY <1>0, <4>2 DEF TypeOK, Titled, StravaActivity
      <4>4. [title |-> draft.title, entry |-> draft.entry] \in sent'[a]
        BY <1>0, <4>1 DEF TypeOK, ApplyTitle
      <4>5. QED
        BY <1>0, <2>4, <4>1, <4>3, <4>4 DEF RowIsCurrent
    <3>2. Rewrites(draft.title) => IsUncorrected(a)'
      BY <2>4 DEF PutTitle, PutTitleUnanswered, IsUncorrected
    <3>3. QED
      BY <3>1, <3>2 DEF Accounted, Rewrites
  <2>5. CASE Sweep /\ a # cur.id
    <3>1. /\ strava[a].status = "live" /\ strava'[a].name = strava[a].name
          /\ sent'[a] = sent[a]
      BY <1>1, <2>5, SweepMoves
    <3>2. log'[a] = log[a]
      BY <2>5, LogMoves DEF Records
    <3>3. QED
      BY <2>3, <2>5, <3>1, <3>2
  <2>6. CASE Sweep /\ a = cur.id /\ ~PutTitle /\ ~PutTitleUnanswered
    <3>1. /\ strava[a].status = "live" /\ strava'[a].name = strava[a].name
          /\ sent'[a] = sent[a]
      <4>1. CASE UNCHANGED <<strava, events, sent>>
        BY <1>1, <4>1
      <4>2. CASE PutDescription \/ PutDescriptionUnanswered
        <5>1. strava' = [strava EXCEPT ![a] =
                [strava[a] EXCEPT !.line = FALSE, !.notes = copy.notes]] /\ sent' = sent
          BY <2>6, <4>2 DEF PutDescription, PutDescriptionUnanswered, ApplyDescription
        <5>2. QED
          BY <1>0, <1>1, <5>1 DEF TypeOK, StravaActivity
      <4>3. QED
        BY <2>6, <4>1, <4>2, SweepReads
    <3>2. CASE log' = log
      BY <2>3, <2>6, <3>1, <3>2
    <3>3. CASE sent[cur.id] = {} /\ \E title, source : Records(title, source)
      BY <2>1, <2>6, <3>1, <3>3 DEF Accounted
    <3>4. CASE pc = "keep" /\ Records(Stored(draft.title), draft.source)
      BY <1>00, <2>1, <2>6, <3>1, <3>4 DEF Accounted, Records
    <3>5. CASE pc = "rename" /\ Records(copy.name, RenamedSource(row.source))
      <4>1. /\ strava[a].name \in OutsideTitles \cup {copy.name}
            /\ Accounted(copy.name, sent[a], log[a].title, IsUncorrected(a))
        BY <1>0, <2>6, <3>1, <3>5 DEF NamesAreKnown, Live, KnownName, Accounted
      <4>2. log'[a].title = copy.name
        BY <2>6, <3>5 DEF Records
      <4>3. QED
        BY <3>1, <4>1, <4>2 DEF Accounted
    <3>6. QED
      BY <2>6, <3>2, <3>3, <3>4, <3>5, LogMoves
  <2>7. QED
    BY <2>2, <2>4, <2>5, <2>6, StepsAre
<1>2. /\ pc' \in {"record", "rename"} => KnownName(cur.id, copy.name)'
      /\ pc' = "rename" /\ strava'[cur'.id].status = "live" =>
           strava'[cur'.id].name \in OutsideTitles \cup {copy'.name}
  <2>1. CASE Outside
    <3>1. UNCHANGED <<log, pc, copy, sent, uncorrected>> /\ cur'.id = cur.id
      <4>1. uncorrected' = uncorrected
        BY <2>1 DEF Outside, vars, Tick, Webhook, Deliver, Redeliver, CheckNamed,
           EnqueueEvent, DropEvent, Upload, Retitle, TagCommute, Annotate, Delete
      <4>2. QED
        BY <2>1, <4>1, SweepHolds
    <3>2. pc = "rename" => MovesOutside(cur.id)
      BY <1>0, <2>1, WorldMoves
    <3>3. QED
      BY <1>0, <3>1, <3>2 DEF NamesAreKnown, MovesOutside, Live, KnownName, IsUncorrected
  <2>2. CASE Restart
    BY <2>2 DEF Restart
  <2>3. CASE Sweep
    <3> SUFFICES ASSUME pc' \in {"record", "rename"}
                 PROVE  /\ KnownName(cur.id, copy.name)'
                        /\ strava'[cur'.id].name = copy'.name
      BY <2>3
    <3>1. /\ UNCHANGED <<strava, sent, log>> /\ cur' = cur /\ cur.id \in Activity
          /\ strava[cur.id].status = "live" /\ copy' = strava[cur.id]
      BY <2>3, ComesToRecord
    <3>2. PICK a \in Activity : a = cur.id
      BY <3>1
    <3>3. Accounted(copy'.name, sent'[a], log'[a].title, IsUncorrected(a)')
      BY <1>1, <3>1, <3>2
    <3>4. QED
      BY <3>1, <3>2, <3>3 DEF Accounted, KnownName, IsUncorrected
  <2>4. QED
    BY <2>1, <2>2, <2>3, StepsAre
<1>3. ASSUME NEW a \in Activity, Live(a)' PROVE KnownName(a, strava[a].name)'
  BY <1>1, <1>3 DEF Live, KnownName, Accounted
<1>4. QED
  BY <1>2, <1>3 DEF NamesAreKnown, Live

\* Whatever the sweep records under source human, a person typed or Strava
\* made of what it was sent, in a row that was never corrected to it.
LEMMA HumanStep == IInv /\ [Next]_vars => HumanRowsAreTyped'
<1> SUFFICES ASSUME IInv, [Next]_vars, NEW a \in Activity, log'[a].source = "human"
             PROVE  \/ log'[a].title \in PersonTitles
                    \/ /\ a \in uncorrected'
                       /\ \E s \in sent'[a] :
                            Rewrites(s.title) /\ log'[a].title = Stored(s.title)
  BY DEF HumanRowsAreTyped
<1>0. /\ HumanRowsAreTyped /\ NamesAreKnown /\ RowIsCurrent /\ CopyIsWhatWasRead
      /\ SweepKnowsTheRow /\ TypeOK
  BY DEF IInv
<1>1. sent[a] \subseteq sent'[a]
  <2>1. CASE Outside \/ Restart
    BY <2>1, SweepHolds DEF Restart
  <2>2. CASE Sweep
    BY <1>0, <2>2, SweepMoves DEF SweepKnowsTheRow
  <2>3. QED
    BY <2>1, <2>2, StepsAre
<1>2. draft.source # "human"
  BY <1>0 DEF TypeOK, Draft
<1>3. a \in uncorrected /\ pc \notin {"put", "keep"} => a \in uncorrected'
  <2>1. CASE Outside
    BY <2>1 DEF Outside, vars, Tick, Webhook, Deliver, Redeliver, CheckNamed, EnqueueEvent,
       DropEvent, Upload, Retitle, TagCommute, Annotate, Delete
  <2>2. CASE Restart
    BY <2>2 DEF Restart
  <2>3. CASE Sweep
    BY <2>3 DEF Sweep, Fire, Take, EndSweep, CancelSweep, Dequeue, CallFails, Lookup, Fetch,
       RecordHumanTitle, MakeTitle, Writing, Reread, RecordTitle, RecordFranchise, PutTitle,
       PutTitleUnanswered, PutTitleRefused, KeepStoredTitle, Reconciling, Reconcile,
       RecordRename, PutDescription, PutDescriptionUnanswered, PutDescriptionRefused
  <2>4. QED
    BY <2>1, <2>2, <2>3, StepsAre
<1>4. CASE log'[a] = log[a]
  <2>1. CASE pc \in {"put", "keep"} /\ cur.id = a
    BY <1>0, <1>2, <1>4, <2>1 DEF RowIsCurrent
  <2>2. CASE ~(pc \in {"put", "keep"} /\ cur.id = a)
    <3>1. a \in uncorrected => a \in uncorrected'
      <4>1. CASE pc \notin {"put", "keep"}
        BY <1>3, <4>1
      <4>2. CASE pc \in {"put", "keep"} /\ cur.id # a
        <5>1. CASE Outside
          BY <5>1 DEF Outside, vars, Tick, Webhook, Deliver, Redeliver, CheckNamed,
             EnqueueEvent, DropEvent, Upload, Retitle, TagCommute, Annotate, Delete
        <5>2. CASE Restart
          BY <5>2 DEF Restart
        <5>3. CASE Sweep
          BY <4>2, <5>3 DEF Sweep, Fire, Take, EndSweep, CancelSweep, Dequeue, CallFails,
             Lookup, Fetch, RecordHumanTitle, MakeTitle, Writing, Reread, RecordTitle,
             RecordFranchise, PutTitle, PutTitleUnanswered, PutTitleRefused,
             KeepStoredTitle, Reconciling, Reconcile, RecordRename, PutDescription,
             PutDescriptionUnanswered, PutDescriptionRefused
        <5>4. QED
          BY <5>1, <5>2, <5>3, StepsAre
      <4>3. QED
        BY <2>2, <4>1, <4>2
    <3>2. QED
      BY <1>0, <1>1, <1>4, <3>1 DEF HumanRowsAreTyped
  <2>3. QED
    BY <2>1, <2>2
<1>5. CASE log'[a] # log[a]
  <2>1. Sweep /\ log' # log
    BY <1>5, StepsAre, SweepHolds DEF Restart
  <2>2. ASSUME NEW title, NEW source, Records(title, source)
        PROVE  a = cur.id /\ log'[a].title = title /\ log'[a].source = source /\ sent' = sent
    BY <1>5, <2>2 DEF Records
  <2>3. CASE pc = "record" /\ sent[cur.id] = {} /\ Records(copy.name, "human")
    <3>1. copy.name \in OutsideTitles
      BY <1>0, <2>3 DEF NamesAreKnown, KnownName
    <3>2. ~Renamable(copy.name) /\ ~NotAPersonsTitle(copy.name)
      BY <1>0, <2>3, GateDecides DEF CopyIsWhatWasRead, RecordsHumanTitle
    <3>3. QED
      BY <2>2, <2>3, <3>1, <3>2
         DEF OutsideTitles, Renamable, IsDefaultTitle, NotAPersonsTitle, IsToolTitle
  <2>4. CASE pc = "rename" /\ Records(copy.name, RenamedSource(row.source))
    <3>1. /\ KnownName(a, copy.name)
          /\ copy.name # log[a].title
          /\ ~NotTheAthletesTitle(copy.name)
      BY <1>0, <2>2, <2>4 DEF NamesAreKnown, CopyIsWhatWasRead, RowIsCurrent, IsRename
    <3>2. CASE copy.name \in OutsideTitles
      BY <2>2, <2>4, <3>1, <3>2 DEF OutsideTitles, NotTheAthletesTitle, Renamable,
         IsDefaultTitle, NotAPersonsTitle, IsToolTitle
    <3>3. CASE \E s \in sent[a] :
                 copy.name = Stored(s.title) /\ log[a].title = s.title /\ IsUncorrected(a)
      <4>1. a \in uncorrected'
        BY <1>3, <2>4, <3>3 DEF IsUncorrected
      <4>2. QED
        BY <2>2, <2>4, <3>1, <3>3, <4>1 DEF Rewrites
    <3>4. QED
      BY <3>1, <3>2, <3>3 DEF KnownName
  <2>5. QED
    BY <1>2, <2>1, <2>2, <2>3, <2>4, LogMoves
<1>6. QED
  BY <1>4, <1>5

-----------------------------------------------------------------------------
(* What is still owed.                                                     *)

\* Only Dequeue takes an entry out of the queue, and only the one in hand.
LEMMA StaysQueuedUntilRemoved ==
  ASSUME IInv, [Next]_vars, NEW a \in Activity, Queued(queue, a),
         ~(Dequeue /\ cur.id = a)
  PROVE  Queued(queue, a)'
<1>1. CASE queue' = queue
  BY <1>1 DEF Queued
<1>2. CASE Tick
  BY <1>2, AgedTyped DEF Tick, Queued, IInv, TypeOK
<1>3. ASSUME NEW handler \in intake, EnqueueEvent(handler) PROVE Queued(queue, a)'
  BY <1>3 DEF EnqueueEvent, Enqueue, Queued
<1>4. CASE Dequeue
  BY <1>4 DEF Dequeue, Remove, Queued
<1>5. CASE \/ Restart
           \/ Outside /\ ~Tick /\ ~(\E handler \in intake : EnqueueEvent(handler))
  BY <1>1, <1>5 DEF Restart, Outside, vars, Webhook, Deliver, Redeliver, CheckNamed,
     DropEvent, Upload, Retitle, TagCommute, Annotate, Delete
<1>6. CASE Sweep /\ ~Dequeue
  BY <1>1, <1>6 DEF Sweep, Fire, Take, EndSweep, CancelSweep, CallFails, Lookup, Fetch,
     RecordHumanTitle, MakeTitle, Writing, Reread, RecordTitle, RecordFranchise, PutTitle,
     PutTitleUnanswered, PutTitleRefused, KeepStoredTitle, Reconciling, Reconcile,
     RecordRename, PutDescription, PutDescriptionUnanswered, PutDescriptionRefused
<1>7. QED
  BY <1>2, <1>3, <1>4, <1>5, <1>6, StepsAre

\* The entry in hand is queued, under an activity of its own.
LEMMA HandIsQueued ==
  ASSUME IInv, NEW a \in Activity, cur.id = a
  PROVE  Queued(queue, a) /\ pc \notin {"idle", "next"}
BY TitelheldAssumption
   DEF IInv, InHand, EntryStaysUntilFinished, Queued, NoPending

\* Nothing the sweep finishes with leaves a line on a row that is the athlete's.
LEMMA FinishesClean ==
  ASSUME IInv, Sweep, NEW a \in Activity, cur'.id = a, pc' = "remove",
         strava'[a].status = "live", strava'[a].line
  PROVE  log'[a].source # "human"
<1>0. /\ TypeOK /\ InHand /\ LineIsOwed /\ RowIsCurrent /\ CopyIsWhatWasRead
      /\ SweepKnowsTheRow /\ RecordedBeforeSent
      /\ draft.source # "human"
  BY DEF IInv, TypeOK, Draft
<1>1. CASE Fetch
  <2>1. pc = "fetch" /\ log' = log /\ cur' = cur
    BY <1>1 DEF Fetch, Gone, LetGo
  <2>2. log[a] = NoRow
    BY <1>0, <2>1 DEF SweepKnowsTheRow, Named
  <2>3. NoRow.source # "human"
    BY DEF NoRow
  <2>4. QED
    BY <2>1, <2>2, <2>3
<1>2. CASE RecordHumanTitle
  <2>1. a = cur.id /\ pc = "record" /\ strava' = strava
    BY <1>2 DEF RecordHumanTitle
  <2>2. sent[a] = {}
    BY <1>0, <2>1 DEF SweepKnowsTheRow, RecordedBeforeSent
  <2>3. QED
    BY <1>0, <2>1, <2>2 DEF LineIsOwed
<1>3. CASE PutTitle
  BY <1>0, <1>3 DEF PutTitle, RowIsCurrent
<1>4. CASE KeepStoredTitle
  <2>1. a = cur.id /\ log[a].source = draft.source
    BY <1>0, <1>4 DEF KeepStoredTitle, RowIsCurrent
  <2>2. QED
    BY <1>0, <1>4, <2>1 DEF KeepStoredTitle, MarkNamed, TypeOK
<1>5. CASE Reconcile
  <2>1. a = cur.id /\ pc = "reconcile" /\ UNCHANGED <<log, strava>> /\ row = log[a]
    BY <1>0, <1>5 DEF Reconcile, Gone, LetGo, Unattribute, RowIsCurrent
  <2>2. QED
    BY <1>5, <2>1 DEF Reconcile, Gone, LetGo, Unattribute
<1>6. CASE RecordRename
  <2>1. a = cur.id /\ pc = "rename" /\ strava' = strava /\ copy.line
    BY <1>0, <1>6 DEF RecordRename, LetGo, Unattribute, LineIsOwed, Live
  <2>2. RenamedSource(row.source) # "human"
    BY <1>6, <2>1 DEF RecordRename, LetGo, Unattribute
  <2>3. QED
    BY <1>0, <1>6, <2>1, <2>2 DEF RecordRename, MarkNamed, TypeOK
<1>7. CASE PutDescription
  <2>1. a = cur.id /\ strava'[a].line = FALSE
    BY <1>0, <1>7 DEF PutDescription, ApplyDescription, TypeOK, StravaActivity
  <2>2. QED
    BY <2>1
<1>8. QED
  BY <1>1, <1>2, <1>3, <1>4, <1>5, <1>6, <1>7 DEF Sweep, Fire, Take, EndSweep, CancelSweep,
     Dequeue, CallFails, Lookup, LetGo, MakeTitle, Writing, Reread, RecordTitle,
     RecordFranchise, PutTitleUnanswered, PutTitleRefused, RetryOrFail, Reconciling,
     PutDescriptionUnanswered, PutDescriptionRefused

\* A line on a row that is the athlete's keeps its entry until it is removed.
LEMMA LineStep == IInv /\ [Next]_vars => LineIsOwed'
<1> SUFFICES ASSUME IInv, [Next]_vars PROVE LineIsOwed'
  OBVIOUS
<1>0. /\ LineIsOwed /\ RowIsCurrent /\ SweepKnowsTheRow /\ TypeOK
      /\ pc \notin {"idle", "next"} => cur.id \in Activity
  BY EntryInHand DEF IInv
<1>1. ASSUME NEW a \in Activity, strava'[a].line PROVE sent'[a] # {}
  <2>1. CASE Outside \/ Restart
    <3>1. sent' = sent
      BY <2>1, SweepHolds DEF Restart
    <3>2. QED
      BY <1>0, <1>1, <2>1, <3>1, WorldMoves DEF LineIsOwed, MovesOutside
  <2>2. CASE Sweep
    BY <1>0, <1>1, <2>2, SweepMoves DEF LineIsOwed
  <2>3. QED
    BY <2>1, <2>2, StepsAre
<1>2. ASSUME NEW a \in Activity, strava'[a].status = "live", strava'[a].line,
             log'[a].source = "human"
      PROVE  Queued(queue, a)' /\ ~(cur'.id = a /\ pc' = "remove")
  <2>1. ASSUME strava[a].status = "live", strava[a].line, log[a].source = "human"
        PROVE  Queued(queue, a)' /\ ~(cur.id = a /\ pc = "remove")
    <3>1. Queued(queue, a) /\ ~(cur.id = a /\ pc = "remove")
      BY <1>0, <2>1 DEF LineIsOwed, Live
    <3>2. QED
      BY <3>1, StaysQueuedUntilRemoved DEF Dequeue
  <2>2. CASE Outside \/ Restart
    <3>1. strava[a].status = "live" /\ strava[a].line
      BY <1>2, <2>2, WorldMoves DEF MovesOutside
    <3>2. CASE Outside
      BY <1>2, <2>1, <3>1, <3>2, SweepHolds
    <3>3. CASE Restart
      BY <1>2, <2>1, <3>1, <3>3 DEF Restart
    <3>4. QED
      BY <2>2, <3>2, <3>3
  <2>3. CASE Sweep
    <3>1. ~(cur'.id = a /\ pc' = "remove")
      BY <1>2, <2>3, FinishesClean
    <3>2. Queued(queue, a)'
      <4>1. CASE log'[a] = log[a] /\ strava[a].line
        BY <1>2, <2>1, <2>3, <4>1, SweepMoves
      <4>2. CASE log'[a] = log[a] /\ ~strava[a].line
        <5>1. a = cur.id /\ pc = "put"
          BY <1>2, <2>3, <4>2, SweepMoves
        <5>2. log[a].source = draft.source
          BY <1>0, <5>1 DEF RowIsCurrent
        <5>3. QED
          BY <1>0, <1>2, <4>2, <5>2 DEF TypeOK, Draft
      <4>3. CASE log'[a] # log[a]
        <5>1. a = cur.id /\ queue' = queue
          BY <2>3, <4>3, LogMoves DEF Records
        <5>2. QED
          BY <5>1, HandIsQueued DEF Queued
      <4>4. QED
        BY <4>1, <4>2, <4>3
    <3>3. QED
      BY <3>1, <3>2
  <2>4. QED
    BY <2>2, <2>3, StepsAre
<1>3. ASSUME pc' = "rename", strava'[cur'.id].status = "live", strava'[cur'.id].line
      PROVE  copy'.line
  <2>1. CASE Outside
    <3>1. UNCHANGED <<pc, copy>> /\ cur'.id = cur.id
      BY <2>1, SweepHolds
    <3>2. MovesOutside(cur.id)
      BY <1>0, <1>3, <2>1, <3>1, WorldMoves
    <3>3. strava[cur.id].status = "live" /\ strava[cur.id].line
      BY <1>3, <3>1, <3>2 DEF MovesOutside
    <3>4. QED
      BY <1>0, <1>3, <3>1, <3>3 DEF LineIsOwed, Live
  <2>2. CASE Restart
    BY <1>3, <2>2 DEF Restart
  <2>3. CASE Sweep
    BY <1>3, <2>3, ComesToRecord
  <2>4. QED
    BY <2>1, <2>2, <2>3, StepsAre
<1>4. QED
  BY <1>1, <1>2, <1>3 DEF LineIsOwed, Live

\* A title that changes on Strava sends an update.
LEMMA RetitlesAreSent ==
  ASSUME IInv, [Next]_vars, NEW a \in Activity,
         strava[a].status = "live", strava'[a].status = "live",
         strava'[a].name # strava[a].name
  PROVE  Unread(a)'
<1>0. strava \in [Activity -> StravaActivity] /\ strava[a] \in StravaActivity
  BY DEF IInv, TypeOK
<1>1. ASSUME NEW b \in Activity, b = a \/ strava'[a] = strava[a],
             strava'[a] # strava[a] => events' = events \cup {Event("update", b)}
      PROVE  Unread(a)'
  <2>1. b = a /\ Event("update", a) \in events'
    BY <1>1
  <2>2. Event("update", a).aspect = "update" /\ Event("update", a).id = a
    BY DEF Event
  <2>3. QED
    BY <2>1, <2>2 DEF Unread
<1>2. ASSUME NEW b \in Activity, Upload(b) \/ TagCommute(b) \/ Annotate(b) \/ Delete(b)
      PROVE  FALSE
  <2>1. b = a
    BY <1>0, <1>2 DEF Upload, TagCommute, Annotate, Delete
  <2>2. CASE Upload(b)
    BY <2>1, <2>2 DEF Upload
  <2>3. CASE TagCommute(b)
    BY <1>0, <2>1, <2>3 DEF TagCommute, StravaActivity
  <2>4. CASE Annotate(b)
    BY <1>0, <2>1, <2>4 DEF Annotate, StravaActivity
  <2>5. CASE Delete(b)
    BY <1>0, <2>1, <2>5 DEF Delete, Unborn
  <2>6. QED
    BY <1>2, <2>2, <2>3, <2>4, <2>5
<1>3. ASSUME NEW b \in Activity, Retitle(b) PROVE Unread(a)'
  BY <1>0, <1>1, <1>3 DEF Retitle
<1>4. CASE Restart \/ Tick \/ Webhook \/ UNCHANGED vars
  BY <1>4 DEF Restart, Tick, Webhook, Deliver, Redeliver, CheckNamed, EnqueueEvent,
     DropEvent, vars
<1>5. CASE Sweep
  <2>1. a = cur.id /\ pc = "put" /\ strava'[a].name = Stored(draft.title)
    BY <1>5, SweepMoves
  <2>2. PutTitle \/ PutTitleUnanswered
    BY <1>5, <2>1, SweepReads DEF PutDescription, PutDescriptionUnanswered
  <2>3. QED
    BY <1>1, <2>1, <2>2 DEF PutTitle, PutTitleUnanswered, ApplyTitle
<1>6. QED
  BY <1>2, <1>3, <1>4, <1>5, StepsAre DEF Outside

\* An unread update is read in the end: its entry comes after the read that is
\* under way, or the activity is counted as missed.
LEMMA UnreadStays ==
  ASSUME IInv, [Next]_vars, NEW a \in Activity, Unread(a)
  PROVE  \/ Unread(a)'
         \/ a \in missed'
         \/ Outside /\ Queued(queue, a)' /\ ~AlreadyRead(a)
<1>0. TypeOK
  BY DEF IInv
<1>1. ASSUME events \subseteq events', intake \subseteq intake' PROVE Unread(a)'
  BY <1>1 DEF Unread
<1>2. CASE Restart
  BY <1>2 DEF Restart, Unread
<1>3. CASE Tick
  <2>1. /\ \A e \in events : Older(e).id = e.id /\ Older(e).aspect = e.aspect
        /\ \A h \in intake : Older(h).id = h.id /\ Older(h).aspect = h.aspect
    BY <1>0 DEF TypeOK, Older, Events, Handlers
  <2>2. QED
    BY <1>3, <2>1 DEF Tick, Unread
<1>4. ASSUME NEW event \in events, Deliver(event) \/ Redeliver(event) PROVE Unread(a)'
  <2>1. /\ Handler(event).id = event.id /\ Handler(event).aspect = event.aspect
        /\ events \ {event} \subseteq events' /\ intake \subseteq intake'
        /\ event.aspect = "update" => Handler(event) \in intake'
    BY <1>4 DEF Deliver, Redeliver, Acknowledge, Handler
  <2>2. QED
    BY <2>1 DEF Unread
<1>5. ASSUME NEW handler \in intake, CheckNamed(handler) PROVE Unread(a)'
  <2>1. events' = events
    BY <1>5 DEF CheckNamed
  <2>2. QED
    BY <1>0, <1>5, <2>1, HandlerChecks DEF Unread
<1>6. ASSUME NEW handler \in intake, EnqueueEvent(handler) \/ DropEvent(handler)
      PROVE  \/ Unread(a)'
             \/ a \in missed'
             \/ Outside /\ Queued(queue, a)' /\ ~AlreadyRead(a)
  <2>1. events' = events /\ intake' = intake \ {handler}
    BY <1>6 DEF EnqueueEvent, DropEvent
  <2>2. CASE handler.id # a
    BY <2>1, <2>2 DEF Unread
  <2>3. CASE handler.id = a /\ DropEvent(handler)
    BY <2>3 DEF DropEvent
  <2>4. CASE handler.id = a /\ EnqueueEvent(handler)
    <3>1. NewEntry(handler).id = a
      BY <1>0, <2>4, NewEntryTyped DEF TypeOK, Handlers
    <3>2. Queued(queue, a)'
      BY <2>4, <3>1 DEF EnqueueEvent, Enqueue, Queued
    <3>3. AlreadyRead(a) => Queued(queue, a)
      BY HandIsQueued DEF AlreadyRead
    <3>4. a \in missed' \/ ~AlreadyRead(a)
      BY <2>4, <3>3 DEF EnqueueEvent
    <3>5. QED
      BY <2>4, <3>2, <3>4 DEF Outside, Webhook
  <2>5. QED
    BY <1>6, <2>2, <2>3, <2>4
<1>7. ASSUME NEW b \in Activity,
             Upload(b) \/ Retitle(b) \/ TagCommute(b) \/ Annotate(b) \/ Delete(b)
      PROVE  Unread(a)'
  <2>1. intake' = intake
    BY <1>7 DEF Upload, Retitle, TagCommute, Annotate, Delete
  <2>2. CASE TagCommute(b) \/ Annotate(b)
    BY <1>1, <2>1, <2>2 DEF TagCommute, Annotate
  <2>3. CASE Upload(b) \/ Retitle(b) \/ Delete(b)
    <3>1. events \subseteq events'
      BY <2>3 DEF Upload, Retitle, Delete
    <3>2. QED
      BY <1>1, <2>1, <3>1
  <2>4. QED
    BY <1>7, <2>2, <2>3
<1>8. CASE Sweep \/ UNCHANGED vars
  <2>1. intake' = intake
    BY <1>8 DEF vars, Sweep, Fire, Take, EndSweep, CancelSweep, Dequeue, CallFails, Lookup,
       Fetch, RecordHumanTitle, MakeTitle, Writing, Reread, RecordTitle, RecordFranchise,
       PutTitle, PutTitleUnanswered, PutTitleRefused, KeepStoredTitle, Reconciling,
       Reconcile, RecordRename, PutDescription, PutDescriptionUnanswered,
       PutDescriptionRefused
  <2>2. events \subseteq events'
    <3>1. CASE PutTitle \/ PutTitleUnanswered
      BY <3>1 DEF PutTitle, PutTitleUnanswered, ApplyTitle
    <3>2. CASE PutDescription \/ PutDescriptionUnanswered \/ UNCHANGED vars
      BY <3>2 DEF PutDescription, PutDescriptionUnanswered, vars
    <3>3. QED
      BY <1>8, <3>1, <3>2, SweepReads
  <2>3. QED
    BY <1>1, <2>1, <2>2
<1>9. QED
  BY <1>2, <1>3, <1>4, <1>5, <1>6, <1>7, <1>8, StepsAre DEF Outside, Webhook

\* What is owed of a rename, at one activity.
OwesRename(a) ==
  strava[a].status = "live" /\ strava[a].name \in PersonTitles =>
    /\ Named(log, a) /\ log[a].title # strava[a].name =>
         \/ Unread(a)
         \/ Queued(queue, a) /\ ~AlreadyRead(a)
         \/ AlreadyRead(a) /\ pc = "rename" /\ copy.name = strava[a].name
    /\ AlreadyRead(a) /\ copy.name # strava[a].name => Unread(a)

\* The world, the webhook and a restart leave a rename owed until it is read.
LEMMA OwedOutside ==
  ASSUME IInv, Outside \/ Restart, [Next]_vars, NEW a \in Activity, a \notin missed'
  PROVE  OwesRename(a)'
<1>0. /\ log' = log /\ InHand
      /\ Outside => UNCHANGED <<pc, copy>> /\ cur'.id = cur.id
      /\ Outside => AlreadyRead(a)' = AlreadyRead(a)
      /\ Restart => ~AlreadyRead(a)'
  <2>1. log' = log /\ InHand /\ (Outside => UNCHANGED <<pc, copy>> /\ cur'.id = cur.id)
    BY SweepHolds DEF Restart, IInv
  <2>2. Outside => AlreadyRead(a)' = AlreadyRead(a)
    BY <2>1 DEF AlreadyRead
  <2>3. Restart => ~AlreadyRead(a)'
    BY TitelheldAssumption DEF AlreadyRead, Restart, NoPending
  <2>4. QED
    BY <2>1, <2>2, <2>3
<1>1. a \notin missed
  BY DEF Outside, Restart, vars, Tick, Webhook, Deliver, Redeliver, CheckNamed, EnqueueEvent,
     DropEvent, Upload, Retitle, TagCommute, Annotate, Delete
<1>2. SUFFICES ASSUME strava'[a].status = "live", strava'[a].name \in PersonTitles, ~Unread(a)'
               PROVE  /\ Named(log, a) /\ log[a].title # strava'[a].name =>
                           \/ Queued(queue, a)' /\ ~AlreadyRead(a)'
                           \/ AlreadyRead(a)' /\ pc' = "rename" /\ copy'.name = strava'[a].name
                      /\ ~(AlreadyRead(a)' /\ copy'.name # strava'[a].name)
  BY <1>0 DEF OwesRename, Named
<1>3. CASE strava[a].status # "live"
  <2>1. strava[a].status = "unborn"
    BY <1>2, <1>3, WorldMoves DEF MovesOutside
  <2>2. ~Named(log, a) /\ ~Queued(queue, a)
    BY <2>1 DEF IInv, UnbornIsUnknown, AtRest
  <2>3. ~AlreadyRead(a)
    BY <2>2, HandIsQueued DEF AlreadyRead
  <2>4. QED
    BY <1>0, <2>2, <2>3
<1>4. CASE strava[a].status = "live"
  <2>1. strava'[a].name = strava[a].name
    BY <1>2, <1>4, RetitlesAreSent
  <2>2. Unread(a) => Outside /\ Queued(queue, a)' /\ ~AlreadyRead(a)
    BY <1>2, UnreadStays
  <2>3. Queued(queue, a) => Queued(queue, a)'
    BY <1>0, StaysQueuedUntilRemoved DEF Restart, Dequeue, LetGo
  <2>4. AlreadyRead(a) => Queued(queue, a)
    BY HandIsQueued DEF AlreadyRead
  <2>5. OwesRename(a)
    BY <1>1 DEF IInv, RenameIsOwed, OwesRename, Live
  <2>6. Unread(a) => Queued(queue, a)' /\ ~AlreadyRead(a)'
    BY <1>0, <2>2
  <2>7. QED
    BY <1>0, <1>2, <1>4, <2>1, <2>3, <2>4, <2>5, <2>6 DEF OwesRename
<1>5. QED
  BY <1>3, <1>4

\* Only the sweep takes a line away from an activity that stays.
LEMMA LinesStay ==
  ASSUME IInv, Outside \/ Restart, NEW a \in Activity, strava[a].line
  PROVE  strava'[a].line \/ strava'[a].status = "gone"
<1>0. strava \in [Activity -> StravaActivity] /\ strava[a] \in StravaActivity
  BY DEF IInv, TypeOK
<1>1. sent[a] # {}
  BY DEF IInv, LineIsOwed
<1>2. strava[a].status # "unborn"
  BY <1>1 DEF IInv, UnbornIsUnknown, RecordedBeforeSent
<1>3. ASSUME NEW b \in Activity,
             Upload(b) \/ Retitle(b) \/ TagCommute(b) \/ Annotate(b) \/ Delete(b)
      PROVE  strava'[a].line \/ strava'[a].status = "gone"
  <2>1. CASE b # a
    BY <1>0, <1>3, <2>1 DEF Upload, Retitle, TagCommute, Annotate, Delete
  <2>2. CASE b = a /\ Upload(b)
    BY <1>2, <2>2 DEF Upload
  <2>3. CASE b = a /\ Retitle(b)
    BY <1>0, <2>3 DEF Retitle, StravaActivity
  <2>4. CASE b = a /\ TagCommute(b)
    BY <1>0, <2>4 DEF TagCommute, StravaActivity
  <2>5. CASE b = a /\ Annotate(b)
    BY <1>0, <2>5 DEF Annotate, StravaActivity
  <2>6. CASE b = a /\ Delete(b)
    BY <1>0, <2>6 DEF Delete, Unborn
  <2>7. QED
    BY <1>3, <2>1, <2>2, <2>3, <2>4, <2>5, <2>6
<1>4. CASE Restart \/ Tick \/ Webhook \/ UNCHANGED vars
  BY <1>4 DEF Restart, Tick, Webhook, Deliver, Redeliver, CheckNamed, EnqueueEvent,
     DropEvent, vars
<1>5. QED
  BY <1>3, <1>4 DEF Outside

\* One sweep's read at a time: an activity the sweep does not have in hand is
\* owed what it was owed.
LEMMA OwedElsewhere ==
  ASSUME IInv, Sweep, NEW a \in Activity, a # cur.id, OwesRename(a), Unread(a) => Unread(a)',
         Queued(queue, a) => Queued(queue, a)'
  PROVE  OwesRename(a)'
<1>1. strava'[a] = strava[a] /\ log'[a] = log[a]
  <2>1. strava'[a] = strava[a]
    BY SweepMoves
  <2>2. log'[a] = log[a]
    BY LogMoves DEF Records
  <2>3. QED
    BY <2>1, <2>2
<1>2. ~AlreadyRead(a) /\ ~AlreadyRead(a)'
  <2>1. cur'.id = a => pc' = "lookup"
    <3>1. CASE Take
      BY <3>1 DEF Take
    <3>2. CASE ~Take
      <4>1. cur' = cur \/ cur' = NoPending
        BY <3>2 DEF Sweep, Fire, EndSweep, CancelSweep, Dequeue, CallFails, LetGo, Lookup,
           Fetch, Gone, RecordHumanTitle, MakeTitle, Writing, Reread, RecordTitle,
           RecordFranchise, PutTitle, PutTitleUnanswered, PutTitleRefused, RetryOrFail,
           KeepStoredTitle, Reconciling, Reconcile, RecordRename, Unattribute,
           PutDescription, PutDescriptionUnanswered, PutDescriptionRefused
      <4>2. QED
        BY <4>1, TitelheldAssumption DEF NoPending
    <3>3. QED
      BY <3>1, <3>2
  <2>2. QED
    BY <2>1 DEF AlreadyRead
<1>3. QED
  BY <1>1, <1>2 DEF OwesRename, Named

\* An entry the sweep lets go of is queued and will be read again.
LEMMA OwedOnceLetGo ==
  ASSUME NEW a \in Activity, LetGo, Queued(queue, a)'
  PROVE  OwesRename(a)'
<1>1. ~AlreadyRead(a)'
  BY TitelheldAssumption DEF AlreadyRead, LetGo, NoPending
<1>2. QED
  BY <1>1 DEF OwesRename

\* A title the service would replace is none a person typed.
LEMMA RenamableIsNotTyped ==
  ASSUME NEW title, Renamable(title) PROVE title \notin PersonTitles
BY PersonTitlesAssumption DEF Renamable, IsDefaultTitle

\* A title a person typed is a rename wherever it is not the recorded one.
LEMMA TypedIsRename ==
  ASSUME NEW activity, NEW recorded, activity.name \in PersonTitles,
         activity.name # recorded.title
  PROVE  IsRename(activity, recorded)
BY TitelheldAssumption, PersonTitlesAssumption
   DEF IsRename, NotTheAthletesTitle, NotAPersonsTitle, Renamable, IsDefaultTitle, IsToolTitle

\* Of the activity in hand, the sweep finishes only with what is not owed or
\* has an update on its way.
LEMMA OwedInHand ==
  ASSUME IInv, Sweep, NEW a \in Activity, a = cur.id, a \notin missed', Unread(a) => Unread(a)',
         [Next]_vars
  PROVE  OwesRename(a)'
<1> SUFFICES ASSUME strava'[a].status = "live", strava'[a].name \in PersonTitles
             PROVE  OwesRename(a)'
  BY DEF OwesRename
<1>0. /\ TypeOK /\ InHand /\ RowIsCurrent /\ CopyIsWhatWasRead /\ SweepKnowsTheRow
      /\ cur.id \in Activity /\ Queued(queue, a) /\ pc \notin {"idle", "next"}
      /\ strava[a].status = "live"
  BY HandIsQueued, SweepMoves DEF IInv
<1>1. ASSUME Unread(a)' PROVE OwesRename(a)'
  BY <1>1 DEF OwesRename
<1>2. CASE strava'[a].name # strava[a].name
  BY <1>0, <1>1, <1>2, RetitlesAreSent
<1>3. ASSUME LetGo, queue' = queue PROVE OwesRename(a)'
  BY <1>0, <1>3, OwedOnceLetGo DEF Queued
<1>4. ASSUME a \notin missed, strava'[a].name = strava[a].name PROVE OwesRename(a)
  BY <1>0, <1>4 DEF IInv, RenameIsOwed, OwesRename, Live
<1> USE DEF OwesRename
<1>5. ASSUME copy.name \notin PersonTitles, AlreadyRead(a), missed' = missed PROVE OwesRename(a)'
  BY <1>0, <1>1, <1>2, <1>4, <1>5
<1>6. pc \notin {"lookup", "fetch", "reconcile"} => AlreadyRead(a)
  BY DEF AlreadyRead
<1>7. CASE Fire \/ Take \/ EndSweep \/ CancelSweep
  BY <1>0, <1>7 DEF Fire, Take, EndSweep, CancelSweep
<1>8. CASE Dequeue
  <2>1. OwesRename(a) /\ pc = "remove" /\ UNCHANGED <<strava, log>> /\ cur' = NoPending
    BY <1>4, <1>8 DEF Dequeue, LetGo
  <2>2. ~AlreadyRead(a)'
    BY <2>1, TitelheldAssumption DEF AlreadyRead, NoPending
  <2>3. QED
    BY <1>0, <1>1, <1>6, <2>1, <2>2 DEF Named
<1>9. CASE CallFails
  BY <1>3, <1>9 DEF CallFails
<1>10. CASE Lookup
  <2>1. ~AlreadyRead(a)' /\ queue' = queue
    BY <1>10 DEF Lookup, AlreadyRead
  <2>2. QED
    BY <1>0, <2>1 DEF Queued
<1>11. CASE Fetch
  <2>1. pc = "fetch" /\ UNCHANGED <<strava, log, queue>>
    BY <1>11 DEF Fetch
  <2>2. ~Named(log, a)'
    BY <1>0, <2>1 DEF SweepKnowsTheRow, Named
  <2>3. LetGo \/ copy' = strava[a]
    BY <1>0, <1>11 DEF Fetch
  <2>4. CASE copy' = strava[a]
    BY <2>1, <2>2, <2>4
  <2>5. QED
    BY <1>3, <2>1, <2>3, <2>4
<1>12. CASE RecordHumanTitle \/ RecordRename
  <2>1. /\ pc \in {"record", "rename"} /\ UNCHANGED <<strava, queue, missed>>
        /\ LetGo \/ (copy' = copy /\ pc' # "rename")
    BY <1>12 DEF RecordHumanTitle, RecordRename, Unattribute
  <2>2. log'[a].title = copy.name
    BY <1>0, <1>12 DEF RecordHumanTitle, RecordRename, MarkNamed, TypeOK
  <2>3. CASE copy.name # strava[a].name
    BY <1>1, <1>4, <1>6, <2>1, <2>3
  <2>4. CASE copy.name = strava[a].name /\ copy' = copy
    BY <2>1, <2>2, <2>4
  <2>5. QED
    BY <1>3, <2>1, <2>3, <2>4
<1>13. CASE MakeTitle \/ Writing
  <2>1. pc \in {"title", "reread", "mark", "advance", "put", "keep"} /\ missed' = missed
    BY <1>13 DEF MakeTitle, Writing, Reread, RecordTitle, RecordFranchise, PutTitle,
       PutTitleUnanswered, PutTitleRefused, KeepStoredTitle
  <2>2. copy.name \notin PersonTitles
    BY <1>0, <2>1, RenamableIsNotTyped DEF CopyIsWhatWasRead
  <2>3. QED
    BY <1>5, <1>6, <2>1, <2>2
<1>14. CASE Reconcile
  <2>1. pc = "reconcile" /\ UNCHANGED <<strava, log, queue>> /\ row = log[a]
    BY <1>0, <1>14 DEF Reconcile, RowIsCurrent
  <2>2. CASE IsRename(strava[a], row)
    <3>1. pc' = "rename" /\ copy' = strava[a] /\ cur' = cur
      BY <1>0, <1>14, <2>2 DEF Reconcile
    <3>2. QED
      BY <2>1, <3>1 DEF AlreadyRead
  <2>3. CASE ~IsRename(strava[a], row)
    <3>1. LetGo \/ copy' = strava[a]
      BY <1>0, <1>14, <2>3 DEF Reconcile, Unattribute
    <3>2. log'[a].title = strava'[a].name
      BY <2>1, <2>3, TypedIsRename
    <3>3. CASE copy' = strava[a]
      BY <2>1, <3>2, <3>3
    <3>4. QED
      BY <1>3, <2>1, <3>1, <3>3
  <2>4. QED
    BY <2>2, <2>3
<1>15. CASE PutDescription \/ PutDescriptionUnanswered \/ PutDescriptionRefused
  <2>1. /\ pc = "unline" /\ UNCHANGED <<log, queue, missed>>
        /\ LetGo \/ (copy' = copy /\ pc' \in {"unline", "remove"})
    BY <1>15 DEF PutDescription, PutDescriptionUnanswered, PutDescriptionRefused, RetryOrFail
  <2>2. CASE strava'[a].name = strava[a].name /\ copy' = copy
    BY <1>0, <1>1, <1>4, <1>6, <2>1, <2>2 DEF Named
  <2>3. QED
    BY <1>2, <1>3, <2>1, <2>2
<1>16. QED
  BY <1>7, <1>8, <1>9, <1>10, <1>11, <1>12, <1>13, <1>14, <1>15
     DEF Sweep, Reconciling

\* A rename is owed until the log holds it.
LEMMA RenameStep == IInv /\ [Next]_vars => RenameIsOwed'
<1> SUFFICES ASSUME IInv, [Next]_vars, NEW a \in Activity, a \notin missed'
             PROVE  OwesRename(a)'
  BY DEF RenameIsOwed, OwesRename, Live
<1>1. CASE Outside \/ Restart
  BY <1>1, OwedOutside
<1>2. CASE Sweep /\ ~(Outside \/ Restart)
  <2>1. Unread(a) => Unread(a)'
    BY <1>2, UnreadStays
  <2>2. CASE a = cur.id
    BY <1>2, <2>1, <2>2, OwedInHand
  <2>3. CASE a # cur.id
    <3>1. a \notin missed
      BY <1>2, <2>3 DEF Sweep, Fire, Take, EndSweep, CancelSweep, Dequeue, CallFails,
         Lookup, Fetch, RecordHumanTitle, MakeTitle, Writing, Reread, RecordTitle,
         RecordFranchise, PutTitle, PutTitleUnanswered, PutTitleRefused, KeepStoredTitle,
         Reconciling, Reconcile, RecordRename, PutDescription, PutDescriptionUnanswered,
         PutDescriptionRefused
    <3>2. OwesRename(a)
      BY <3>1 DEF IInv, RenameIsOwed, OwesRename, Live
    <3>3. Queued(queue, a) => Queued(queue, a)'
      BY <2>3, StaysQueuedUntilRemoved
    <3>4. QED
      BY <1>2, <2>1, <2>3, <3>2, <3>3, OwedElsewhere
  <2>4. QED
    BY <2>2, <2>3
<1>3. QED
  BY <1>1, <1>2, StepsAre

-----------------------------------------------------------------------------
(* The theorems.                                                           *)

\* The inductive invariant holds when the process starts.
LEMMA InvInit == Init => IInv
<1> SUFFICES ASSUME Init PROVE IInv
  OBVIOUS
<1>1. InHand /\ EntryStaysUntilFinished
  BY DEF Init, InHand, EntryStaysUntilFinished
<1>2. SweepKnowsTheRow /\ RecordedBeforeSent /\ NamedOnce
  BY DEF Init, SweepKnowsTheRow, RecordedBeforeSent, NamedOnce
<1>3. SettledWhenNamed /\ UnbornIsUnknown
  BY DEF Init, SettledWhenNamed, UnbornIsUnknown, AtRest, Queued, Named
<1>4. WritesAreOn /\ CopyIsWhatWasRead /\ RowIsCurrent
  BY DEF Init, WritesAreOn, CopyIsWhatWasRead, RowIsCurrent
<1>5. NamesAreKnown /\ HumanRowsAreTyped /\ LineIsOwed /\ RenameIsOwed
  BY DEF Init, NamesAreKnown, HumanRowsAreTyped, LineIsOwed, RenameIsOwed, Live, Unborn, NoRow
<1>6. QED
  BY <1>1, <1>2, <1>3, <1>4, <1>5, TypeInit DEF IInv

\* The inductive invariant is inductive.
LEMMA InvStep == IInv /\ [Next]_vars => IInv'
BY TypeStep, QueueStep, BooksStep, WritesStep, CopyStep, RowStep, UnbornStep, NamesStep,
   HumanStep, LineStep, RenameStep
   DEF IInv, Bookkeeping

\* The inductive invariant: types, the sweep's hold on the queue, the order of
\* the named log, the franchise position and the PUT in processor.write, where
\* titles come from, and what is still owed of a rename or a line.
THEOREM Invariant == Spec => []IInv
BY InvInit, InvStep, PTL DEF Spec

\* Type correctness, for every number of activities, titles, retries and faults.
THEOREM TypeCorrect == Spec => []TypeOK
BY Invariant, PTL DEF IInv

\* "Named at most once, ever": however often a sweep fails, a PUT is retried or
\* the process restarts, the service never sends an activity a second title.
THEOREM NamesOnce == Spec => []NamedOnce
BY Invariant, PTL DEF IInv

\* write's order: a title is sent only to an activity the named log already
\* holds a row of this service's for.
THEOREM RecordsFirst == Spec => []RecordedBeforeSent
BY Invariant, PTL DEF IInv

\* The queue keeps one entry per activity and keeps the one the sweep works on
\* until Dequeue, whatever the webhook enqueues meanwhile.
THEOREM KeepsTheEntry == Spec => []EntryStaysUntilFinished
BY Invariant, PTL DEF IInv

\* removeAttribution converges: at rest, no row that is the athlete's stands
\* beside a line that claims the title is this service's.
THEOREM LineFollowsRow == Spec => []LineMatchesRow
<1>1. IInv => LineMatchesRow
  BY DEF IInv, LineIsOwed, LineMatchesRow, AtRest
<1>2. QED
  BY <1>1, Invariant, PTL

\* reconcileOne follows the athlete: at rest a named activity's row is the
\* title they gave it, unless its update was lost or collapsed into an entry
\* already read.
THEOREM RecordFollows == Spec => []RecordFollowsRename
<1>1. IInv => RecordFollowsRename
  BY DEF IInv, RenameIsOwed, RecordFollowsRename, AtRest, Unread, AlreadyRead, TypeOK, Queued,
     InHand, EntryStaysUntilFinished
<1>2. QED
  BY <1>1, Invariant, PTL

\* recordHumanTitle and reconcileOne put nothing under source human but what a
\* person typed, or, where reconcileTitle did not get through, what Strava made
\* of the very title it was sent.
THEOREM HumanIsTyped == Spec => []HumanRowsAreTyped
BY Invariant, PTL DEF IInv

\* The write mode is what it was at the start of the process, so no call a dry
\* run makes reaches a PUT.
THEOREM DryRunIsNoOp == Spec => DryRunWritesNothing
<1> DEFINE Quiet ==
      ~writes => /\ sent' = sent
                 /\ \A a \in Activity : Live(a) /\ strava[a].line =>
                      strava'[a].line \/ strava'[a].status = "gone"
<1>1. IInv /\ [Next]_vars => [Quiet]_vars
  <2> SUFFICES ASSUME IInv, [Next]_vars, ~writes PROVE Quiet
    OBVIOUS
  <2>1. ~(pc \in {"put", "unline"})
    BY DEF IInv, WritesAreOn
  <2>2. CASE Sweep
    <3>1. UNCHANGED <<strava, sent>>
      BY <2>1, <2>2, SweepReads
         DEF PutTitle, PutTitleUnanswered, PutDescription, PutDescriptionUnanswered
    <3>2. QED
      BY <3>1
  <2>3. CASE Outside \/ Restart
    <3>1. sent' = sent
      BY <2>3, SweepHolds DEF Restart
    <3>2. ASSUME NEW a \in Activity, strava[a].line
          PROVE  strava'[a].line \/ strava'[a].status = "gone"
      BY <2>3, <3>2, LinesStay
    <3>3. QED
      BY <3>1, <3>2
  <2>4. QED
    BY <2>2, <2>3, StepsAre
<1>2. QED
  BY <1>1, Invariant, PTL DEF Spec, DryRunWritesNothing

\* The gate of Classify stands between the read and the PUT: a title that is
\* replaced was read as one of Strava's or of a machine's.
THEOREM KeepsTitles == Spec => KeepsTitlesItRead
<1> DEFINE Kept ==
      \A a \in Activity :
        (sent'[a] # sent[a] /\ strava[a].name \in PersonTitles) => copy.name # strava[a].name
<1>1. IInv /\ [Next]_vars => [Kept]_vars
  <2> SUFFICES ASSUME IInv, [Next]_vars, NEW a \in Activity,
                      sent'[a] # sent[a], strava[a].name \in PersonTitles
               PROVE  copy.name # strava[a].name
    OBVIOUS
  <2>1. Sweep
    BY StepsAre, SweepHolds DEF Restart
  <2>2. pc = "put"
    BY <2>1, SweepMoves
  <2>3. copy.name \notin PersonTitles
    BY <2>2, RenamableIsNotTyped DEF IInv, CopyIsWhatWasRead
  <2>4. QED
    BY <2>3
<1>2. QED
  BY <1>1, Invariant, PTL DEF Spec, KeepsTitlesItRead

\* Dequeue follows what the sweep read: an entry goes when its activity is
\* recorded, or is declined for good by what was read of it.
THEOREM DequeuesWhenDone == Spec => DequeuedWhenDone
<1> DEFINE Done ==
      \A p \in queue :
        ~Queued(queue', p.id) /\ copy.status = "live" =>
          Named(log, p.id) \/ OwedNothing(p.id, copy, p.recheck)
<1>1. IInv /\ [Next]_vars => [Done]_vars
  <2> SUFFICES ASSUME IInv, [Next]_vars, NEW p \in queue,
                      ~Queued(queue', p.id), copy.status = "live"
               PROVE  Named(log, p.id) \/ OwedNothing(p.id, copy, p.recheck)
    OBVIOUS
  <2>1. p.id \in Activity /\ Queued(queue, p.id)
    BY DEF IInv, TypeOK, Pendings, Pending, Queued
  <2>2. Dequeue /\ cur.id = p.id
    BY <2>1, StaysQueuedUntilRemoved DEF Queued
  <2>3. cur = p
    BY <2>2 DEF IInv, EntryStaysUntilFinished, InHand, Dequeue
  <2>4. QED
    BY <2>2, <2>3 DEF IInv, CopyIsWhatWasRead, Dequeue
<1>2. QED
  BY <1>1, Invariant, PTL DEF Spec, DequeuedWhenDone

-----------------------------------------------------------------------------
(* The pipeline implements LastWriter.                                     *)

\* At the start nothing is settled and nothing is given.
LEMMA PromiseInit == Init => Promise!LastWriterInit
<1> SUFFICES ASSUME Init PROVE Promise!LastWriterInit
  OBVIOUS
<1>1. \A a \in Activity : TitlesGiven(a) = {}
  BY DEF Init, TitlesGiven
<1>2. QED
  BY <1>1 DEF Init, Promise!LastWriterInit

\* A step that neither records a first row nor sends a title is a stutter of LastWriter.
LEMMA PromiseStutter ==
  ASSUME settler' = settler, sent' = sent
  PROVE  [Promise!LastWriterNext]_(Promise!lastWriterVars)
BY DEF Promise!lastWriterVars, TitlesGiven

\* Recording the first row of an activity is SettleFor.
LEMMA PromiseSettles ==
  ASSUME IInv, cur.id \in Activity, NEW who \in {"service", "athlete"},
         Settle(cur.id, who), sent' = sent
  PROVE  [Promise!LastWriterNext]_(Promise!lastWriterVars)
<1>1. CASE settler[cur.id] = "nobody"
  <2>1. Promise!SettleFor(cur.id, who)
    BY <1>1 DEF Settle, Promise!SettleFor, TitlesGiven
  <2>2. QED
    BY <2>1 DEF Promise!LastWriterNext
<1>2. CASE settler[cur.id] # "nobody"
  BY <1>2, PromiseStutter DEF Settle
<1>3. QED
  BY <1>1, <1>2

\* A PUT that takes effect is Give, or a stutter when it repeats itself.
LEMMA PromiseGives ==
  ASSUME IInv, pc = "put", cur.id \in Activity, ApplyTitle(cur.id), settler' = settler
  PROVE  [Promise!LastWriterNext]_(Promise!lastWriterVars)
<1> DEFINE given == [title |-> draft.title, entry |-> draft.entry]
<1>1. /\ settler[cur.id] = "service"
      /\ sent[cur.id] \subseteq {given}
      /\ draft.title \in OwnTitles
      /\ sent \in [Activity -> SUBSET Sent]
  BY DEF IInv, SweepKnowsTheRow, TypeOK
<1>2. sent' = [sent EXCEPT ![cur.id] = {given}]
  BY <1>1 DEF ApplyTitle
<1>3. TitlesGiven(cur.id) \subseteq {draft.title}
  BY <1>1 DEF TitlesGiven
<1>4. \A a \in Activity :
        TitlesGiven(a)' = IF a = cur.id THEN {draft.title} ELSE TitlesGiven(a)
  <2>1. ASSUME NEW a \in Activity, a = cur.id
        PROVE  TitlesGiven(a)' = {draft.title}
    <3>1. sent'[a] = {given} /\ given.title = draft.title
      BY <1>1, <1>2, <2>1
    <3> HIDE DEF given
    <3>2. QED
      BY <3>1 DEF TitlesGiven
  <2>2. ASSUME NEW a \in Activity, a # cur.id
        PROVE  TitlesGiven(a)' = TitlesGiven(a)
    <3>1. sent'[a] = sent[a]
      BY <1>1, <1>2, <2>2
    <3>2. QED
      BY <3>1 DEF TitlesGiven
  <2>3. QED
    BY <2>1, <2>2
<1>5. [a \in Activity |-> TitlesGiven(a)']
        = [[a \in Activity |-> TitlesGiven(a)] EXCEPT ![cur.id] = {draft.title}]
  BY <1>4
<1>6. Promise!Give(cur.id, draft.title)
  BY <1>1, <1>3, <1>5 DEF Promise!Give
<1>7. Promise!LastWriterNext
  BY <1>1, <1>6 DEF Promise!LastWriterNext
<1>8. QED
  BY <1>7

\* Every step of the pipeline is a step of LastWriter or a stutter.
LEMMA PromiseStep ==
  IInv /\ [Next]_vars => [Promise!LastWriterNext]_(Promise!lastWriterVars)
<1> SUFFICES ASSUME IInv, [Next]_vars
             PROVE  [Promise!LastWriterNext]_(Promise!lastWriterVars)
  OBVIOUS
<1>0. pc \notin {"idle", "next"} => cur.id \in Activity
  BY EntryInHand DEF IInv
<1>1. CASE UNCHANGED vars
  BY <1>1, PromiseStutter DEF vars
<1>2. CASE Environment \/ Tick \/ Webhook
  BY <1>2, PromiseStutter DEF Environment, Upload, Retitle, TagCommute, Annotate, Delete,
     Restart, Tick, Webhook, Deliver, Redeliver, CheckNamed, EnqueueEvent, DropEvent
<1>3. CASE RecordHumanTitle
  BY <1>0, <1>3, PromiseSettles DEF RecordHumanTitle
<1>4. CASE RecordTitle
  BY <1>0, <1>4, PromiseSettles DEF RecordTitle
<1>5. CASE PutTitle \/ PutTitleUnanswered
  BY <1>0, <1>5, PromiseGives DEF PutTitle, PutTitleUnanswered
<1>6. CASE Fire \/ Take \/ EndSweep \/ CancelSweep \/ Dequeue \/ CallFails
            \/ Lookup \/ Fetch \/ MakeTitle \/ Reread \/ RecordFranchise
  BY <1>6, PromiseStutter DEF Fire, Take, EndSweep, CancelSweep, Dequeue, CallFails,
     Lookup, Fetch, MakeTitle, Reread, RecordFranchise
<1>7. CASE PutTitleRefused \/ KeepStoredTitle \/ Reconciling
  BY <1>7, PromiseStutter DEF PutTitleRefused, KeepStoredTitle, Reconciling, Reconcile,
     RecordRename, PutDescription, PutDescriptionUnanswered, PutDescriptionRefused
<1>8. QED
  BY <1>1, <1>2, <1>3, <1>4, <1>5, <1>6, <1>7 DEF Next, Sweep, Writing

\* The pipeline implements LastWriter: an activity is settled once, for the
\* athlete or for the service, and given at most one title, only after that.
THEOREM Implements == Spec => ImplementsLastWriter
<1>1. Init => Promise!LastWriterInit
  BY PromiseInit
<1>2. IInv /\ [Next]_vars => [Promise!LastWriterNext]_(Promise!lastWriterVars)
  BY PromiseStep
<1>3. QED
  BY <1>1, <1>2, Invariant, PTL DEF Spec, ImplementsLastWriter, Promise!LastWriterSpec
=============================================================================
