--------------------------- MODULE TitelheldLemmas ---------------------------
(***************************************************************************)
(* What the steps of Titelheld keep of its types, of the queue and of what *)
(* is recorded and sent: the lemmas TitelheldProofs puts together.         *)
(*                                                                         *)
(* The types are proved first (the sweep's steps also need InHand), so     *)
(* that the other lemmas may take them for granted.                        *)
(***************************************************************************)
EXTENDS Titelheld, TLAPS

-----------------------------------------------------------------------------
(* What the operators return.                                              *)

\* ErrandTitle indexes inside the pool for every activity ID.
LEMMA ErrandTitleInPool ==
  ASSUME NEW a \in Activity
  PROVE  ErrandTitle(a) \in TemplateTitles
<1>1. a \in Nat /\ ErrandPool \in Seq(STRING) /\ ErrandPool # << >>
  BY ClassifierAssumption, TitelheldAssumption
<1>2. Len(ErrandPool) \in Nat /\ Len(ErrandPool) > 0
  BY <1>1
<1>3. (a % Len(ErrandPool)) + 1 \in 1..Len(ErrandPool)
  BY <1>1, <1>2
<1>4. QED
  BY <1>3 DEF ErrandTitle, TemplateTitles

\* Whatever title makes is one of this service's titles and says how it was
\* made, whichever action asked for it.
LEMMA DraftsTyped ==
  ASSUME NEW a \in Activity, NEW decision, NEW pos \in 0..SeriesLength,
         NEW made \in Drafts(a, decision, pos)
  PROVE  /\ made \in Draft
         /\ made.title \in OwnTitles
         /\ made.source # "none"
<1>1. CommuteTitle(decision.direction) \in OwnTitles
  BY DEF CommuteTitle, OwnTitles, TemplateTitles
<1>2. ErrandTitle(a) \in OwnTitles
  BY ErrandTitleInPool DEF OwnTitles
<1>3. Offered(pos) \cup {NoEntry} \subseteq Entries
  BY TitelheldAssumption DEF Offered, Entries
<1>4. NoEntry \in Entries
  BY DEF Entries
<1>5. ASSUME NEW t \in OwnTitles
      PROVE  /\ TemplateDraft(t) \in Draft
             /\ TemplateDraft(t).title \in OwnTitles
             /\ TemplateDraft(t).source # "none"
  BY <1>4 DEF TemplateDraft, Draft, NoDraft
<1>6. ASSUME NEW t \in ModelTitles, NEW e \in Entries
      PROVE  /\ ModelDraft(t, e) \in Draft
             /\ ModelDraft(t, e).title \in OwnTitles
             /\ ModelDraft(t, e).source # "none"
  BY DEF ModelDraft, Draft, NoDraft, OwnTitles
<1>7. QED
  BY <1>1, <1>2, <1>3, <1>5, <1>6 DEF Drafts

\* A moment later an entry is the same entry, and still a well-formed one.
LEMMA AgedTyped ==
  ASSUME NEW p \in Pendings
  PROVE  Aged(p) \in Pendings /\ Aged(p).id = p.id
<1>1. p \in [id : Activity, dueIn : (-Horizon)..Delay, recheck : 0..Window]
  BY DEF Pendings, Pending
<1>2. /\ Horizon \in Nat /\ Delay \in Nat /\ Window \in Nat
      /\ p.dueIn \in (-Horizon)..Delay /\ p.recheck \in 0..Window
  BY <1>1, HorizonAssumption, TitelheldAssumption
<1>3. (IF p.dueIn > -Horizon THEN p.dueIn - 1 ELSE p.dueIn) \in (-Horizon)..Delay
  BY <1>2
<1>4. (IF p.recheck > 0 THEN p.recheck - 1 ELSE p.recheck) \in 0..Window
  BY <1>2
<1>5. QED
  BY <1>1, <1>3, <1>4 DEF Aged, Pendings, Pending

\* The entry a webhook event makes is one of the queue's, whatever its age.
LEMMA NewEntryTyped ==
  ASSUME NEW h \in [aspect : {"create", "update"}, id : Activity,
                    age : 0..(MaxEventAge + 1), read : BOOLEAN, named : BOOLEAN]
  PROVE  NewEntry(h) \in Pendings /\ NewEntry(h).id = h.id
BY HorizonAssumption, TitelheldAssumption
   DEF Pendings, Pending, NewEntry, ProcessAfter

\* The title Strava keeps is one of the titles.
LEMMA StoredTyped ==
  ASSUME NEW t \in OwnTitles
  PROVE  Stored(t) \in Titles /\ t \in Titles
BY DEF Stored, OwnTitles, Titles

\* A row that says how its title was made is a row.
LEMMA MarkNamedNames ==
  ASSUME NEW l \in [Activity -> Row], NEW a \in Activity,
         NEW t, NEW source \in Sources
  PROVE  /\ Named(MarkNamed(l, a, t, source), a)
         /\ \A b \in Activity \ {a} : MarkNamed(l, a, t, source)[b] = l[b]
BY DEF Named, MarkNamed, NoRow, Sources
-----------------------------------------------------------------------------
(* Types: one lemma per process, one step per action.                      *)

USE DEF store, sweep, world, history, Hand

\* The record that stands for no activity is an activity record.
LEMMA UnbornTyped ==
  /\ Unborn \in StravaActivity
  /\ NoDraft \in Draft
  /\ NoRow \in Row
<1>1. Unborn \in StravaActivity
  BY DEF Unborn, StravaActivity
<1>2. NoDraft \in Draft
  BY DEF NoDraft, Draft, Entries
<1>3. NoRow \in Row
  BY DEF NoRow, Row, NoTitle
<1>4. QED
  BY <1>1, <1>2, <1>3

\* The updates the actions make to an activity leave it an activity.
LEMMA ActivityTyped ==
  ASSUME NEW x \in StravaActivity, NEW title \in Titles,
         NEW status \in {"live", "gone"}, NEW line \in BOOLEAN, NEW notes \in Nat
  PROVE  /\ [x EXCEPT !.status = status, !.name = title] \in StravaActivity
         /\ [x EXCEPT !.name = title] \in StravaActivity
         /\ [x EXCEPT !.name = title, !.line = line, !.notes = notes] \in StravaActivity
BY DEF StravaActivity

\* Setting a title, a flag or the description of an activity keeps its record typed.
LEMMA FlagsTyped ==
  ASSUME NEW x \in StravaActivity, NEW line \in BOOLEAN, NEW notes \in Nat
  PROVE  /\ [x EXCEPT !.status = "gone"] \in StravaActivity
         /\ [x EXCEPT !.commute = TRUE] \in StravaActivity
         /\ [x EXCEPT !.notes = notes] \in StravaActivity
         /\ [x EXCEPT !.line = line, !.notes = notes] \in StravaActivity
BY DEF StravaActivity

\* A fresh event is well formed.
LEMMA EventTyped ==
  ASSUME NEW aspect \in {"create", "update", "delete"}, NEW a \in Activity
  PROVE  Event(aspect, a) \in Events
BY TitelheldAssumption DEF Event, Events

\* Spending from a bound keeps the bounds in their ranges.
LEMMA SpendTyped ==
  ASSUME budget \in Budget, NEW kind \in {"edits", "notes", "faults", "crashes"},
         Spend(kind)
  PROVE  budget' \in Budget
<1>1. budget[kind] > 0 /\ budget' = [budget EXCEPT ![kind] = budget[kind] - 1]
  BY DEF Spend
<1>2. CASE kind = "edits"
  BY <1>1, <1>2, TitelheldAssumption DEF Budget
<1>3. CASE kind = "notes"
  BY <1>1, <1>3, TitelheldAssumption DEF Budget
<1>4. CASE kind = "faults"
  BY <1>1, <1>4, TitelheldAssumption DEF Budget
<1>5. CASE kind = "crashes"
  BY <1>1, <1>5, TitelheldAssumption DEF Budget
<1>6. QED
  BY <1>2, <1>3, <1>4, <1>5

\* A process starts in a well-typed state.
LEMMA TypeInit == Init => TypeOK
BY UnbornTyped, TitelheldAssumption DEF Init, TypeOK, Budget, PCs

\* Strava, the athlete, the other tools and a restart keep the types.
LEMMA EnvironmentTyped == TypeOK /\ InHand /\ Environment => TypeOK'
<1>1. ASSUME TypeOK, NEW a \in Activity, Upload(a) PROVE TypeOK'
  <2>1. PICK title \in Titles :
          strava' = [strava EXCEPT ![a] = [Unborn EXCEPT !.status = "live", !.name = title]]
    BY <1>1 DEF Upload, Titles
  <2>2. [Unborn EXCEPT !.status = "live", !.name = title] \in StravaActivity
    BY UnbornTyped, ActivityTyped
  <2>3. QED
    BY <1>1, <2>1, <2>2, EventTyped DEF TypeOK, Upload
<1>2. ASSUME TypeOK, NEW a \in Activity, Retitle(a) PROVE TypeOK'
  <2>1. PICK title \in Titles : strava' = [strava EXCEPT ![a].name = title]
    BY <1>2 DEF Retitle, Titles
  <2>2. strava' \in [Activity -> StravaActivity]
    BY <1>2, <2>1, ActivityTyped DEF TypeOK
  <2>3. QED
    BY <1>2, <2>2, EventTyped, SpendTyped DEF TypeOK, Retitle
<1>3. ASSUME TypeOK, NEW a \in Activity, TagCommute(a) PROVE TypeOK'
  <2>1. strava' \in [Activity -> StravaActivity]
    BY <1>3, FlagsTyped DEF TypeOK, TagCommute
  <2>2. QED
    BY <1>3, <2>1 DEF TypeOK, TagCommute
<1>4. ASSUME TypeOK, NEW a \in Activity, Annotate(a) PROVE TypeOK'
  <2>1. strava[a] \in StravaActivity /\ strava[a].notes + 1 \in Nat
    BY <1>4 DEF TypeOK, StravaActivity
  <2>2. [strava[a] EXCEPT !.notes = strava[a].notes + 1] \in StravaActivity
    BY <2>1 DEF StravaActivity
  <2>3. strava' \in [Activity -> StravaActivity]
    BY <1>4, <2>2 DEF TypeOK, Annotate
  <2>4. QED
    BY <1>4, <2>3, SpendTyped DEF TypeOK, Annotate
<1>5. ASSUME TypeOK, NEW a \in Activity, Delete(a) PROVE TypeOK'
  BY <1>5, UnbornTyped, FlagsTyped, EventTyped, SpendTyped DEF TypeOK, Delete
<1>6. ASSUME TypeOK, InHand, Restart PROVE TypeOK'
  <2>1. writes' \in BOOLEAN
    BY <1>6, TitelheldAssumption DEF Restart
  <2>2. \A h \in intake : h.id \in Activity
    BY <1>6 DEF TypeOK, Handlers
  <2>3. missed' \subseteq Activity
    BY <1>6, <2>2 DEF TypeOK, Restart
  <2>4. pc = "keep" => cur.id \in Activity
    BY <1>6 DEF TypeOK, InHand, Pendings, Pending
  <2>5. uncorrected' \subseteq Activity
    BY <1>6, <2>4 DEF TypeOK, Restart
  <2>6. QED
    BY <1>6, <2>1, <2>3, <2>5, UnbornTyped, SpendTyped, TitelheldAssumption DEF TypeOK, Restart, PCs
<1>7. QED
  BY <1>1, <1>2, <1>3, <1>4, <1>5, <1>6 DEF Environment

\* The clock keeps the types: no age and no time left leaves its range.
LEMMA TickTyped == TypeOK /\ Tick => TypeOK'
<1> SUFFICES ASSUME TypeOK, Tick PROVE TypeOK'
  OBVIOUS
<1>1. ASSUME NEW e \in Events PROVE Older(e) \in Events
  BY TitelheldAssumption DEF Older, Events
<1>2. ASSUME NEW h \in Handlers PROVE Older(h) \in Handlers
  BY TitelheldAssumption DEF Older, Handlers
<1>3. /\ events' \subseteq Events
      /\ intake' \subseteq Handlers
  BY <1>1, <1>2 DEF Tick, TypeOK
<1>4. /\ queue' \subseteq Pendings
      /\ batch' \subseteq Pendings
      /\ cur' \in Pendings \cup {NoPending}
  BY AgedTyped DEF Tick, TypeOK
<1>5. QED
  BY <1>3, <1>4 DEF Tick, TypeOK

\* The webhook handler keeps the types.
LEMMA WebhookTyped == TypeOK /\ Webhook => TypeOK'
<1>1. ASSUME TypeOK, NEW event \in events, Acknowledge(event) PROVE intake' \subseteq Handlers
  <2>1. event \in Events
    BY <1>1 DEF TypeOK
  <2>2. CASE event.aspect \in {"create", "update"}
    <3>1. Handler(event) \in Handlers
      BY <2>1, <2>2 DEF Handler, Events, Handlers
    <3>2. QED
      BY <1>1, <2>2, <3>1 DEF TypeOK, Acknowledge
  <2>3. CASE event.aspect \notin {"create", "update"}
    BY <1>1, <2>3 DEF TypeOK, Acknowledge
  <2>4. QED
    BY <2>2, <2>3
<1>2. ASSUME TypeOK, NEW event \in events, Deliver(event) PROVE TypeOK'
  BY <1>1, <1>2 DEF TypeOK, Deliver
<1>3. ASSUME TypeOK, NEW event \in events, Redeliver(event) PROVE TypeOK'
  BY <1>1, <1>3, SpendTyped DEF TypeOK, Redeliver
<1>4. ASSUME TypeOK, NEW handler \in intake, CheckNamed(handler) PROVE TypeOK'
  <2>1. [handler EXCEPT !.read = TRUE, !.named = Named(log, handler.id)] \in Handlers
    BY <1>4 DEF TypeOK, Handlers, Named
  <2>2. QED
    BY <1>4, <2>1 DEF TypeOK, CheckNamed
<1>5. ASSUME TypeOK, NEW handler \in intake, EnqueueEvent(handler) PROVE TypeOK'
  <2>1. handler \in Handlers /\ handler.id \in Activity
    BY <1>5 DEF TypeOK, Handlers
  <2>2. NewEntry(handler) \in Pendings
    BY <2>1, NewEntryTyped DEF Handlers
  <2>3. QED
    BY <1>5, <2>1, <2>2 DEF TypeOK, EnqueueEvent, Enqueue
<1>6. ASSUME TypeOK, NEW handler \in intake, DropEvent(handler) PROVE TypeOK'
  <2>1. handler.id \in Activity
    BY <1>6 DEF TypeOK, Handlers
  <2>2. QED
    BY <1>6, <2>1, SpendTyped DEF TypeOK, DropEvent
<1>7. QED
  BY <1>2, <1>3, <1>4, <1>5, <1>6 DEF Webhook

\* Between two calls the sweep has an entry of a known activity in hand.
LEMMA EntryInHand ==
  ASSUME TypeOK, InHand, pc \notin {"idle", "next"}
  PROVE  /\ cur \in Pendings
         /\ cur.id \in Activity
         /\ strava[cur.id] \in StravaActivity
<1>1. cur \in Pendings
  BY DEF TypeOK, InHand
<1>2. cur.id \in Activity
  BY <1>1 DEF Pendings, Pending
<1>3. QED
  BY <1>1, <1>2 DEF TypeOK

\* A sweep that is done with an entry holds well-typed nothing.
LEMMA LetGoTyped ==
  ASSUME LetGo
  PROVE  /\ pc' \in PCs
         /\ cur' \in Pendings \cup {NoPending}
         /\ copy' \in StravaActivity
         /\ row' \in Row
         /\ draft' \in Draft
         /\ tries' \in 0..MaxRetries
BY UnbornTyped, TitelheldAssumption DEF LetGo, PCs

\* Client.do never makes more than MaxRetries retries.
LEMMA RetryTyped ==
  ASSUME TypeOK, RetryOrFail
  PROVE  /\ pc' \in PCs
         /\ cur' \in Pendings \cup {NoPending}
         /\ copy' \in StravaActivity
         /\ row' \in Row
         /\ draft' \in Draft
         /\ tries' \in 0..MaxRetries
BY LetGoTyped, TitelheldAssumption DEF RetryOrFail, TypeOK

\* Recording a title keeps the named log typed.
LEMMA MarkNamedTyped ==
  ASSUME TypeOK, NEW t \in Titles \cup {NoTitle}, NEW source \in Sources \cup {"none"},
         NEW a \in Activity
  PROVE  MarkNamed(log, a, t, source) \in [Activity -> Row]
BY DEF TypeOK, MarkNamed, Row

\* What processor.title makes is a draft, and names a title and a source.
LEMMA DraftIsTyped ==
  ASSUME TypeOK
  PROVE  /\ draft.title \in Titles \cup {NoTitle}
         /\ draft.source \in Sources \cup {"none"}
         /\ draft.entry \in Entries
         /\ draft.attribute \in BOOLEAN
         /\ draft.notes \in Nat
BY DEF TypeOK, Draft, OwnTitles, Titles, Sources

\* A PUT of a title leaves Strava, the events and the history typed.
LEMMA ApplyTitleTyped ==
  ASSUME TypeOK, NEW a \in Activity, draft.title \in OwnTitles, ApplyTitle(a)
  PROVE  /\ strava' \in [Activity -> StravaActivity]
         /\ events' \subseteq Events
         /\ sent' \in [Activity -> SUBSET Sent]
<1>1. strava[a] \in StravaActivity /\ Stored(draft.title) \in Titles
  BY StoredTyped DEF TypeOK
<1>2. Titled(strava[a]) \in StravaActivity
  BY <1>1, DraftIsTyped DEF Titled, StravaActivity
<1>3. strava' \in [Activity -> StravaActivity]
  BY <1>2 DEF TypeOK, ApplyTitle
<1>4. events' \subseteq Events
  BY EventTyped DEF TypeOK, ApplyTitle
<1>5. [title |-> draft.title, entry |-> draft.entry] \in Sent
  BY DraftIsTyped DEF Sent
<1>6. sent' \in [Activity -> SUBSET Sent]
  BY <1>5 DEF TypeOK, ApplyTitle
<1>7. QED
  BY <1>3, <1>4, <1>6

\* removeAttribution leaves the sweep typed, whichever way it goes.
LEMMA UnattributeTyped ==
  ASSUME TypeOK, NEW source, NEW activity \in StravaActivity, Unattribute(source, activity)
  PROVE  /\ pc' \in PCs
         /\ cur' \in Pendings \cup {NoPending}
         /\ copy' \in StravaActivity
         /\ row' \in Row
         /\ draft' \in Draft
         /\ tries' \in 0..MaxRetries
BY LetGoTyped DEF Unattribute, TypeOK, PCs

\* Every step of the sweep keeps the types.
LEMMA SweepTyped ==
  TypeOK /\ InHand /\ SweepKnowsTheRow /\ Sweep => TypeOK'
<1> SUFFICES ASSUME TypeOK, InHand, SweepKnowsTheRow, Sweep PROVE TypeOK'
  OBVIOUS
<1>1. CASE Fire
  BY <1>1 DEF Fire, TypeOK, Due, PCs
<1>2. CASE Take
  BY <1>2 DEF Take, TypeOK, PCs
<1>3. CASE EndSweep
  BY <1>3 DEF EndSweep, TypeOK, PCs
<1>4. CASE CancelSweep
  BY <1>4, SpendTyped DEF CancelSweep, TypeOK, PCs
<1>5. CASE Dequeue
  <2>1. queue' \subseteq Pendings /\ budget' \in Budget
    BY <1>5, SpendTyped DEF Dequeue, TypeOK, Remove
  <2>2. QED
    BY <1>5, <2>1, LetGoTyped DEF Dequeue, TypeOK
<1>6. CASE CallFails
  BY <1>6, LetGoTyped, SpendTyped DEF CallFails, TypeOK
<1>7. CASE Lookup
  BY <1>7, EntryInHand DEF Lookup, TypeOK, PCs
<1>8. CASE Fetch
  <2>1. strava[cur.id] \in StravaActivity /\ missed' \subseteq Activity
    BY <1>8, EntryInHand DEF Fetch, TypeOK
  <2>2. /\ pc' \in PCs
        /\ cur' \in Pendings \cup {NoPending}
        /\ copy' \in StravaActivity
        /\ row' \in Row
        /\ draft' \in Draft
        /\ tries' \in 0..MaxRetries
    BY <1>8, <2>1, LetGoTyped DEF Fetch, Gone, TypeOK, PCs
  <2>3. QED
    BY <1>8, <2>1, <2>2 DEF Fetch, TypeOK
<1>9. CASE RecordHumanTitle
  <2>1. log' \in [Activity -> Row]
    BY <1>9, EntryInHand, MarkNamedTyped DEF RecordHumanTitle, TypeOK, StravaActivity, Sources
  <2>2. settler' \in [Activity -> {"nobody", "service", "athlete"}]
    BY <1>9, EntryInHand DEF RecordHumanTitle, TypeOK, Settle
  <2>3. QED
    BY <1>9, <2>1, <2>2 DEF RecordHumanTitle, TypeOK, PCs
<1>10. CASE MakeTitle
  <2>1. \A made \in Drafts(cur.id, Decision(cur.id, copy), position) : made \in Draft
    BY <1>10, EntryInHand, DraftsTyped DEF MakeTitle, TypeOK
  <2>2. /\ pc' \in PCs
        /\ cur' \in Pendings \cup {NoPending}
        /\ copy' \in StravaActivity
        /\ row' \in Row
        /\ draft' \in Draft
        /\ tries' \in 0..MaxRetries
    BY <1>10, <2>1, LetGoTyped DEF MakeTitle, TypeOK, PCs
  <2>3. QED
    BY <1>10, <2>2 DEF MakeTitle, TypeOK
<1>11. CASE Reread
  <2>1. strava[cur.id].notes \in Nat
    BY <1>11, EntryInHand DEF Reread, StravaActivity
  <2>2. draft' \in Draft
    <3>1. [draft EXCEPT !.attribute = TRUE, !.notes = strava[cur.id].notes] \in Draft
      BY <2>1 DEF TypeOK, Draft
    <3>2. QED
      BY <1>11, <3>1 DEF Reread, TypeOK
  <2>3. budget' \in Budget
    BY <1>11, SpendTyped DEF Reread, TypeOK
  <2>4. QED
    BY <1>11, <2>2, <2>3 DEF Reread, TypeOK, PCs
<1>12. CASE RecordTitle
  <2>1. log' \in [Activity -> Row]
    BY <1>12, EntryInHand, MarkNamedTyped, DraftIsTyped DEF RecordTitle
  <2>2. settler' \in [Activity -> {"nobody", "service", "athlete"}]
    BY <1>12, EntryInHand DEF RecordTitle, TypeOK, Settle
  <2>3. QED
    BY <1>12, <2>1, <2>2 DEF RecordTitle, TypeOK, PCs
<1>13. CASE RecordFranchise
  <2>1. position' \in 0..SeriesLength
    BY <1>13, DraftIsTyped, TitelheldAssumption
       DEF RecordFranchise, TypeOK, AdvanceFranchisePast, Entries, NoEntry
  <2>2. budget' \in Budget
    BY <1>13, SpendTyped DEF RecordFranchise, TypeOK
  <2>3. QED
    BY <1>13, <2>1, <2>2 DEF RecordFranchise, TypeOK, PCs
<1>14. CASE PutTitle
  BY <1>14, EntryInHand, ApplyTitleTyped DEF PutTitle, TypeOK, SweepKnowsTheRow, PCs
<1>15. CASE PutTitleUnanswered
  BY <1>15, EntryInHand, ApplyTitleTyped, RetryTyped, SpendTyped
     DEF PutTitleUnanswered, TypeOK, SweepKnowsTheRow
<1>16. CASE PutTitleRefused
  BY <1>16, RetryTyped, LetGoTyped, SpendTyped DEF PutTitleRefused, TypeOK
<1>17. CASE KeepStoredTitle
  <2>1. log' \in [Activity -> Row]
    BY <1>17, EntryInHand, MarkNamedTyped, DraftIsTyped, StoredTyped
       DEF KeepStoredTitle, SweepKnowsTheRow, TypeOK
  <2>2. budget' \in Budget
    BY <1>17, SpendTyped DEF KeepStoredTitle, TypeOK
  <2>3. uncorrected' \subseteq Activity
    BY <1>17, EntryInHand DEF KeepStoredTitle, TypeOK
  <2>4. QED
    BY <1>17, <2>1, <2>2, <2>3 DEF KeepStoredTitle, TypeOK, PCs
<1>18. CASE Reconcile
  <2>1. strava[cur.id] \in StravaActivity /\ missed' \subseteq Activity
    BY <1>18, EntryInHand DEF Reconcile, TypeOK
  <2>2. /\ pc' \in PCs
        /\ cur' \in Pendings \cup {NoPending}
        /\ copy' \in StravaActivity
        /\ row' \in Row
        /\ draft' \in Draft
        /\ tries' \in 0..MaxRetries
    BY <1>18, <2>1, UnattributeTyped DEF Reconcile, Gone, TypeOK, PCs
  <2>3. QED
    BY <1>18, <2>1, <2>2 DEF Reconcile, TypeOK
<1>19. CASE RecordRename
  <2>1. copy.name \in Titles \cup {NoTitle} /\ copy \in StravaActivity
    BY DEF TypeOK, StravaActivity
  <2>2. log' \in [Activity -> Row]
    BY <1>19, <2>1, EntryInHand, MarkNamedTyped DEF RecordRename, RenamedSource, Sources
  <2>3. QED
    BY <1>19, <2>1, <2>2, UnattributeTyped DEF RecordRename, TypeOK
<1>20. ASSUME pc = "unline", ApplyDescription(cur.id) PROVE strava' \in [Activity -> StravaActivity]
  BY <1>20, EntryInHand, FlagsTyped DEF ApplyDescription, TypeOK, StravaActivity
<1>21. CASE PutDescription
  BY <1>20, <1>21 DEF PutDescription, TypeOK, PCs
<1>22. CASE PutDescriptionUnanswered
  BY <1>20, <1>22, RetryTyped, SpendTyped DEF PutDescriptionUnanswered, TypeOK
<1>23. CASE PutDescriptionRefused
  BY <1>23, RetryTyped, LetGoTyped, SpendTyped DEF PutDescriptionRefused, TypeOK
<1>24. QED
  BY <1>1, <1>2, <1>3, <1>4, <1>5, <1>6, <1>7, <1>8, <1>9, <1>10, <1>11, <1>12,
     <1>13, <1>14, <1>15, <1>16, <1>17, <1>18, <1>19, <1>21, <1>22, <1>23
     DEF Sweep, Writing, Reconciling

\* Every step keeps the types.
LEMMA TypeStep == IInv /\ [Next]_vars => TypeOK'
<1>1. ASSUME TypeOK, UNCHANGED vars PROVE TypeOK'
  BY <1>1 DEF vars, TypeOK
<1>2. QED
  BY <1>1, EnvironmentTyped, TickTyped, WebhookTyped, SweepTyped DEF IInv, Next

-----------------------------------------------------------------------------
(* The queue and the entry in hand.                                        *)

\* Most steps leave the queue and the batch alone, and keep the entry in hand
\* or let it go.
LEMMA QueueUntouched ==
  ASSUME IInv, queue' = queue, batch' = batch,
         \/ cur' = cur /\ (pc' \in {"idle", "next"} <=> pc \in {"idle", "next"})
         \/ cur' = NoPending /\ pc' \in {"idle", "next"}
  PROVE  InHand' /\ EntryStaysUntilFinished'
<1>1. NoPending \notin batch
  BY TitelheldAssumption DEF IInv, TypeOK, Pendings, Pending, NoPending
<1>2. QED
  BY <1>1 DEF IInv, InHand, EntryStaysUntilFinished

\* Ageing keeps the queue one entry per activity.
LEMMA QueueTick ==
  IInv /\ Tick => InHand' /\ EntryStaysUntilFinished'
<1> SUFFICES ASSUME IInv, Tick PROVE InHand' /\ EntryStaysUntilFinished'
  OBVIOUS
<1>1. \A p \in queue : Aged(p).id = p.id /\ Aged(p) \in Pendings
  BY AgedTyped DEF IInv, TypeOK
<1>2. NoPending \notin Pendings
  BY TitelheldAssumption DEF Pendings, Pending, NoPending
<1>3. /\ queue' = {Aged(p) : p \in queue}
      /\ batch' = {Aged(p) : p \in batch}
      /\ cur' = IF cur = NoPending THEN cur ELSE Aged(cur)
      /\ pc' = pc
  BY DEF Tick
<1>4. /\ \A p, q \in queue : p.id = q.id => p = q
      /\ cur # NoPending => cur \in queue
      /\ batch \subseteq queue
      /\ cur \notin batch
      /\ pc \in {"idle", "next"} <=> cur = NoPending
  BY DEF IInv, InHand, EntryStaysUntilFinished
<1>5. \A p, q \in queue' : p.id = q.id => p = q
  BY <1>1, <1>3, <1>4
<1>6. batch' \subseteq queue' /\ (cur' # NoPending => cur' \in queue')
  BY <1>3, <1>4
<1>7. cur' \notin batch'
  BY <1>1, <1>2, <1>3, <1>4
<1>8. pc' \in {"idle", "next"} <=> cur' = NoPending
  BY <1>1, <1>2, <1>3, <1>4
<1>9. QED
  BY <1>5, <1>6, <1>7, <1>8 DEF InHand, EntryStaysUntilFinished

\* The sweep only ever removes the entry it has in hand.
LEMMA QueueSweep ==
  IInv /\ Sweep => InHand' /\ EntryStaysUntilFinished'
<1> SUFFICES ASSUME IInv, Sweep PROVE InHand' /\ EntryStaysUntilFinished'
  OBVIOUS
<1> USE DEF InHand, EntryStaysUntilFinished
<1>1. NoPending \notin queue
  BY TitelheldAssumption DEF IInv, TypeOK, Pendings, Pending, NoPending
<1>2. CASE Fire
  BY <1>1, <1>2 DEF Fire, Due, IInv
<1>3. CASE Take
  BY <1>1, <1>3 DEF Take, IInv
<1>4. CASE EndSweep
  BY <1>4, QueueUntouched DEF EndSweep
<1>5. CASE CancelSweep
  BY <1>5 DEF CancelSweep, IInv
<1>6. CASE Dequeue
  BY <1>1, <1>6 DEF Dequeue, LetGo, Remove, IInv
<1>7. CASE CallFails \/ Lookup \/ RecordHumanTitle \/ MakeTitle \/ Reread
  BY <1>7, QueueUntouched
     DEF CallFails, LetGo, Lookup, RecordHumanTitle, MakeTitle, Reread
<1>8. CASE Fetch \/ Reconcile \/ RecordRename
  BY <1>8, QueueUntouched
     DEF Fetch, Gone, LetGo, Reconcile, RecordRename, Unattribute
<1>9. CASE RecordTitle \/ RecordFranchise \/ KeepStoredTitle \/ PutTitle \/ PutDescription
  BY <1>9, QueueUntouched
     DEF RecordTitle, RecordFranchise, KeepStoredTitle, PutTitle, PutDescription
<1>10. CASE PutTitleUnanswered \/ PutTitleRefused
            \/ PutDescriptionUnanswered \/ PutDescriptionRefused
  BY <1>10, QueueUntouched
     DEF PutTitleUnanswered, PutTitleRefused, PutDescriptionUnanswered,
         PutDescriptionRefused, RetryOrFail, LetGo
<1>11. QED
  BY <1>2, <1>3, <1>4, <1>5, <1>6, <1>7, <1>8, <1>9, <1>10 DEF Sweep, Writing, Reconciling

\* Every step leaves one entry per activity and the entry in hand queued.
LEMMA QueueStep ==
  IInv /\ [Next]_vars => InHand' /\ EntryStaysUntilFinished'
<1> SUFFICES ASSUME IInv, [Next]_vars PROVE InHand' /\ EntryStaysUntilFinished'
  OBVIOUS
<1>1. CASE UNCHANGED vars
  BY <1>1, QueueUntouched DEF vars
<1>2. ASSUME NEW a \in Activity,
             Upload(a) \/ Retitle(a) \/ TagCommute(a) \/ Annotate(a) \/ Delete(a)
      PROVE  InHand' /\ EntryStaysUntilFinished'
  BY <1>2, QueueUntouched DEF Upload, Retitle, TagCommute, Annotate, Delete
<1>3. CASE Restart
  BY <1>3 DEF Restart, IInv, InHand, EntryStaysUntilFinished
<1>4. ASSUME NEW event \in events, Deliver(event) \/ Redeliver(event)
      PROVE  InHand' /\ EntryStaysUntilFinished'
  BY <1>4, QueueUntouched DEF Deliver, Redeliver
<1>5. ASSUME NEW handler \in intake, CheckNamed(handler) \/ DropEvent(handler)
      PROVE  InHand' /\ EntryStaysUntilFinished'
  BY <1>5, QueueUntouched DEF CheckNamed, DropEvent
<1>6. ASSUME NEW handler \in intake, EnqueueEvent(handler)
      PROVE  InHand' /\ EntryStaysUntilFinished'
  BY <1>6 DEF EnqueueEvent, Enqueue, Queued, IInv, InHand, EntryStaysUntilFinished
<1>7. QED
  BY <1>1, <1>2, <1>3, <1>4, <1>5, <1>6, QueueTick, QueueSweep
     DEF Next, Environment, Webhook

-----------------------------------------------------------------------------
(* The row, who it is for, and what has been sent.                         *)

Bookkeeping == SweepKnowsTheRow /\ SettledWhenNamed /\ RecordedBeforeSent /\ NamedOnce

\* A step that leaves the books alone and ends where nothing is assumed of them.
LEMMA BooksClosed ==
  ASSUME IInv, log' = log, sent' = sent, settler' = settler,
         pc' \in {"idle", "next", "lookup", "remove", "unline"}
  PROVE  Bookkeeping'
BY DEF IInv, Bookkeeping, SweepKnowsTheRow, SettledWhenNamed, RecordedBeforeSent,
       NamedOnce, Named

\* A step that leaves the books and the sweep's place in them alone.
LEMMA BooksUntouched ==
  ASSUME IInv, log' = log, sent' = sent, settler' = settler,
         pc' = pc, cur'.id = cur.id, draft' = draft
  PROVE  Bookkeeping'
BY DEF IInv, Bookkeeping, SweepKnowsTheRow, SettledWhenNamed, RecordedBeforeSent,
       NamedOnce, Named

\* Recording a row for an activity that is settled, or settling it by the way.
LEMMA BooksRecorded ==
  ASSUME IInv, NEW t, NEW source \in Sources, NEW who \in {"service", "athlete"},
         cur.id \in Activity,
         log' = MarkNamed(log, cur.id, t, source), sent' = sent,
         Settle(cur.id, who),
         ~Named(log, cur.id) \/ settler[cur.id] # "nobody"
  PROVE  /\ SettledWhenNamed' /\ RecordedBeforeSent' /\ NamedOnce'
         /\ Named(log', cur.id)
         /\ ~Named(log, cur.id) => settler'[cur.id] = who /\ sent'[cur.id] = {}
<1>1. /\ log \in [Activity -> Row]
      /\ settler \in [Activity -> {"nobody", "service", "athlete"}]
      /\ \A a \in Activity : Named(log, a) <=> settler[a] # "nobody"
      /\ \A a \in Activity : sent[a] # {} => Named(log, a) /\ settler[a] = "service"
  BY DEF IInv, TypeOK, SettledWhenNamed, RecordedBeforeSent
<1>2. /\ Named(log', cur.id)
      /\ \A b \in Activity \ {cur.id} : log'[b] = log[b]
  BY <1>1, MarkNamedNames
<1>3. /\ ~Named(log, cur.id) => settler'[cur.id] = who
      /\ settler[cur.id] # "nobody" => settler'[cur.id] = settler[cur.id]
      /\ \A b \in Activity \ {cur.id} : settler'[b] = settler[b]
  BY <1>1 DEF Settle
<1>4. SettledWhenNamed'
  BY <1>1, <1>2, <1>3 DEF SettledWhenNamed, Named
<1>5. RecordedBeforeSent'
  BY <1>1, <1>2, <1>3 DEF RecordedBeforeSent, Named
<1>6. NamedOnce'
  BY DEF IInv, NamedOnce
<1>7. QED
  BY <1>1, <1>2, <1>3, <1>4, <1>5, <1>6

\* Sending the title on its way.
LEMMA BooksSent ==
  ASSUME IInv, pc = "put", cur.id \in Activity, ApplyTitle(cur.id),
         log' = log, settler' = settler
  PROVE  /\ SettledWhenNamed' /\ RecordedBeforeSent' /\ NamedOnce'
         /\ sent'[cur.id] = {[title |-> draft.title, entry |-> draft.entry]}
<1> DEFINE given == [title |-> draft.title, entry |-> draft.entry]
<1>1. /\ Named(log, cur.id) /\ settler[cur.id] = "service"
      /\ sent[cur.id] \subseteq {given}
  BY DEF IInv, SweepKnowsTheRow
<1>2. /\ sent'[cur.id] = {given}
      /\ \A b \in Activity \ {cur.id} : sent'[b] = sent[b]
  BY <1>1 DEF ApplyTitle, IInv, TypeOK
<1> HIDE DEF given
<1>3. SettledWhenNamed'
  BY DEF IInv, SettledWhenNamed, Named
<1>4. RecordedBeforeSent'
  BY <1>1, <1>2 DEF IInv, RecordedBeforeSent, Named
<1>5. NamedOnce'
  BY <1>2 DEF IInv, NamedOnce
<1>6. QED
  BY <1>2, <1>3, <1>4, <1>5 DEF given

\* Every step of the sweep keeps what is recorded and what was sent in step.
LEMMA BooksSweep == IInv /\ Sweep => Bookkeeping'
<1> SUFFICES ASSUME IInv, Sweep PROVE Bookkeeping'
  OBVIOUS
<1>0. /\ TypeOK /\ InHand
      /\ SweepKnowsTheRow /\ SettledWhenNamed /\ RecordedBeforeSent /\ NamedOnce
  BY DEF IInv
<1>1. pc \notin {"idle", "next"} => cur.id \in Activity
  BY <1>0, EntryInHand
<1>2. CASE Fire \/ Take \/ EndSweep \/ CancelSweep \/ Dequeue \/ CallFails
  BY <1>2, BooksClosed
     DEF Fire, Take, EndSweep, CancelSweep, Dequeue, CallFails, LetGo
<1>3. CASE Lookup
  BY <1>0, <1>3 DEF Lookup, Bookkeeping, SweepKnowsTheRow, SettledWhenNamed,
     RecordedBeforeSent, NamedOnce, Named
<1>4. CASE Fetch
  BY <1>0, <1>4 DEF Fetch, Gone, LetGo, Bookkeeping, SweepKnowsTheRow,
     SettledWhenNamed, RecordedBeforeSent, NamedOnce, Named
<1>5. CASE RecordHumanTitle
  <2>1. ~Named(log, cur.id) /\ cur.id \in Activity /\ "human" \in Sources
    BY <1>0, <1>1, <1>5 DEF RecordHumanTitle, SweepKnowsTheRow, Sources
  <2>2. SettledWhenNamed' /\ RecordedBeforeSent' /\ NamedOnce'
    BY <1>5, <2>1, BooksRecorded DEF RecordHumanTitle
  <2>3. QED
    BY <1>5, <2>2 DEF RecordHumanTitle, Bookkeeping, SweepKnowsTheRow
<1>6. CASE MakeTitle
  <2>1. CASE writes
    <3>1. PICK made \in Drafts(cur.id, Decision(cur.id, copy), position) :
            draft' = made /\ pc' \in {"reread", "mark"} /\ cur' = cur
      BY <1>6, <2>1 DEF MakeTitle
    <3>2. draft'.title \in OwnTitles /\ draft'.source # "none"
      BY <1>0, <1>1, <1>6, <3>1, DraftsTyped DEF MakeTitle, TypeOK
    <3>3. QED
      BY <1>0, <1>6, <3>1, <3>2 DEF MakeTitle, Bookkeeping, SweepKnowsTheRow,
         SettledWhenNamed, RecordedBeforeSent, NamedOnce, Named
  <2>2. CASE ~writes
    BY <1>6, <2>2, BooksClosed DEF MakeTitle, LetGo
  <2>3. QED
    BY <2>1, <2>2
<1>7. CASE Reread
  <2>1. draft'.title = draft.title /\ draft'.source = draft.source
    BY <1>0, <1>7 DEF Reread, TypeOK, Draft
  <2>2. QED
    BY <1>0, <1>7, <2>1 DEF Reread, Bookkeeping, SweepKnowsTheRow, SettledWhenNamed,
       RecordedBeforeSent, NamedOnce, Named
<1>8. CASE RecordTitle
  <2>1. /\ ~Named(log, cur.id) /\ cur.id \in Activity
        /\ draft.title \in OwnTitles /\ draft.source \in Sources
    BY <1>0, <1>1, <1>8 DEF RecordTitle, SweepKnowsTheRow, TypeOK, Draft, Sources
  <2>2. /\ SettledWhenNamed' /\ RecordedBeforeSent' /\ NamedOnce'
        /\ Named(log', cur.id) /\ settler'[cur.id] = "service" /\ sent'[cur.id] = {}
    BY <1>8, <2>1, BooksRecorded DEF RecordTitle
  <2>3. QED
    BY <1>0, <1>8, <2>1, <2>2 DEF RecordTitle, Bookkeeping, SweepKnowsTheRow
<1>9. CASE RecordFranchise
  BY <1>0, <1>9 DEF RecordFranchise, Bookkeeping, SweepKnowsTheRow, SettledWhenNamed,
     RecordedBeforeSent, NamedOnce, Named
<1>10. CASE PutTitle
  <2>1. /\ SettledWhenNamed' /\ RecordedBeforeSent' /\ NamedOnce'
        /\ sent'[cur.id] = {[title |-> draft.title, entry |-> draft.entry]}
    BY <1>1, <1>10, BooksSent DEF PutTitle
  <2>2. QED
    BY <1>0, <1>10, <2>1 DEF PutTitle, Bookkeeping, SweepKnowsTheRow
<1>11. CASE PutTitleUnanswered
  <2>1. /\ SettledWhenNamed' /\ RecordedBeforeSent' /\ NamedOnce'
        /\ sent'[cur.id] = {[title |-> draft.title, entry |-> draft.entry]}
    BY <1>1, <1>11, BooksSent DEF PutTitleUnanswered
  <2>2. CASE UNCHANGED <<pc, cur, draft>>
    BY <1>0, <1>11, <2>1, <2>2 DEF PutTitleUnanswered, Bookkeeping, SweepKnowsTheRow
  <2>3. CASE pc' = "next"
    BY <2>1, <2>3 DEF Bookkeeping, SweepKnowsTheRow
  <2>4. QED
    BY <1>11, <2>2, <2>3 DEF PutTitleUnanswered, RetryOrFail, LetGo
<1>12. CASE PutTitleRefused \/ PutDescriptionUnanswered \/ PutDescriptionRefused
  BY <1>12, BooksClosed, BooksUntouched
     DEF PutTitleRefused, PutDescriptionUnanswered, PutDescriptionRefused, RetryOrFail, LetGo
<1>13. CASE KeepStoredTitle
  <2>1. CASE UNCHANGED log
    BY <1>13, <2>1, BooksClosed DEF KeepStoredTitle
  <2>2. CASE log' = MarkNamed(log, cur.id, Stored(draft.title), draft.source)
    <3>1. /\ Named(log, cur.id) /\ settler[cur.id] = "service" /\ cur.id \in Activity
          /\ draft.source \in Sources
      BY <1>0, <1>1, <1>13 DEF KeepStoredTitle, SweepKnowsTheRow, TypeOK, Draft, Sources
    <3>2. Settle(cur.id, "service")
      BY <1>13, <3>1 DEF KeepStoredTitle, Settle
    <3>3. SettledWhenNamed' /\ RecordedBeforeSent' /\ NamedOnce'
      BY <1>13, <2>2, <3>1, <3>2, BooksRecorded DEF KeepStoredTitle
    <3>4. QED
      BY <1>13, <3>3 DEF KeepStoredTitle, Bookkeeping, SweepKnowsTheRow
  <2>3. QED
    BY <1>13, <2>1, <2>2 DEF KeepStoredTitle
<1>14. CASE Reconcile
  BY <1>0, <1>14 DEF Reconcile, Gone, Unattribute, LetGo, Bookkeeping, SweepKnowsTheRow,
     SettledWhenNamed, RecordedBeforeSent, NamedOnce, Named
<1>15. CASE RecordRename
  <2>1. Named(log, cur.id) /\ cur.id \in Activity /\ RenamedSource(row.source) \in Sources
    BY <1>0, <1>1, <1>15 DEF RecordRename, SweepKnowsTheRow, RenamedSource, Sources
  <2>2. settler[cur.id] # "nobody"
    BY <1>0, <2>1 DEF SettledWhenNamed
  <2>3. Settle(cur.id, "athlete")
    BY <1>15, <2>2 DEF RecordRename, Settle
  <2>4. SettledWhenNamed' /\ RecordedBeforeSent' /\ NamedOnce'
    BY <1>15, <2>1, <2>2, <2>3, BooksRecorded DEF RecordRename
  <2>5. pc' \in {"next", "remove", "unline"}
    BY <1>15 DEF RecordRename, Unattribute, LetGo
  <2>6. QED
    BY <2>4, <2>5 DEF Bookkeeping, SweepKnowsTheRow
<1>16. CASE PutDescription
  BY <1>16, BooksClosed DEF PutDescription
<1>17. QED
  BY <1>2, <1>3, <1>4, <1>5, <1>6, <1>7, <1>8, <1>9, <1>10, <1>11, <1>12, <1>13,
     <1>14, <1>15, <1>16 DEF Sweep, Writing, Reconciling

\* Every step keeps what is recorded and what was sent in step.
LEMMA BooksStep == IInv /\ [Next]_vars => Bookkeeping'
<1> SUFFICES ASSUME IInv, [Next]_vars PROVE Bookkeeping'
  OBVIOUS
<1>1. CASE UNCHANGED vars
  BY <1>1, BooksUntouched DEF vars
<1>2. ASSUME NEW a \in Activity,
             Upload(a) \/ Retitle(a) \/ TagCommute(a) \/ Annotate(a) \/ Delete(a)
      PROVE  Bookkeeping'
  BY <1>2, BooksUntouched DEF Upload, Retitle, TagCommute, Annotate, Delete
<1>3. CASE Restart
  BY <1>3, BooksClosed DEF Restart
<1>4. CASE Tick
  <2>1. cur'.id = cur.id
    BY <1>4, AgedTyped DEF Tick, IInv, TypeOK
  <2>2. QED
    BY <1>4, <2>1, BooksUntouched DEF Tick
<1>5. CASE Webhook
  BY <1>5, BooksUntouched DEF Webhook, Deliver, Redeliver, CheckNamed, EnqueueEvent, DropEvent
<1>6. QED
  BY <1>1, <1>2, <1>3, <1>4, <1>5, BooksSweep DEF Next, Environment
=============================================================================
