------------------------------ MODULE Titelheld ------------------------------
(***************************************************************************)
(* The naming pipeline from the webhook to Strava: internal/webhook,       *)
(* internal/sweep and internal/processor, over the persistent store, with  *)
(* Strava, the athlete, the other automations and the clock around them.   *)
(*                                                                         *)
(* One athlete, one instance.  Every call that leaves the process is a     *)
(* step of its own, so webhook deliveries, the athlete, other tools, the   *)
(* clock and a crash interleave with a sweep between any two of its calls. *)
(***************************************************************************)
EXTENDS Classifier, Store, FiniteSets

CONSTANTS
  Activity,        \* activity IDs
  Facts,           \* Facts[a]: what about a never changes (sport type, size, ...)
  PersonTitles,    \* titles only the athlete types
  ModelTitles,     \* titles the model produces
  LinkTitles,      \* the ModelTitles Strava reads a link in and rewrites
  StrippedTitle,   \* what Strava keeps of one of them
  SeriesLength,    \* entries of the ride's franchise; 0 is no franchise
  Reserved,        \* indices the rotation never offers
  Attribution,     \* BOOLEAN: not DisableAttribution
  Delay,           \* webhook.Config.Delay
  MaxEventAge,     \* older event times are not believed
  Window,          \* ProvisionalSkipWindow
  MaxRetries,      \* strava.ClientConfig.MaxRetries
  WriteModes,      \* the write modes a deployment may start with
  Budgets          \* bounds: how many title edits by the athlete and the tools,
                   \* notes in the description, failing calls and restarts;
                   \* a behaviour has one of them

ASSUME TitelheldAssumption ==
  /\ Activity \subseteq Nat
  /\ LinkTitles \subseteq ModelTitles
  /\ NoTitle \notin ModelTitles \cup PersonTitles
  /\ SeriesLength \in Nat
  /\ Attribution \in BOOLEAN
  /\ Delay \in Nat /\ MaxEventAge \in Nat /\ Window \in Nat
  /\ MaxRetries \in Nat
  /\ WriteModes \subseteq BOOLEAN
  /\ Budgets \subseteq [edits : Nat, notes : Nat, faults : Nat, crashes : Nat]

\* What only the athlete types is told apart from what any list of the service
\* recognizes: a title on one of those lists is no member of PersonTitles.
ASSUME PersonTitlesAssumption ==
  PersonTitles \cap (DefaultTitles \cup MachineTitles \cup ToolTitles \cup TemplateTitles) = {}

Titles ==
  DefaultTitles \cup MachineTitles \cup ToolTitles \cup TemplateTitles
    \cup PersonTitles \cup ModelTitles \cup {StrippedTitle}

VARIABLES
  strava,      \* what Strava holds for each activity
  events,      \* webhook events Strava has not seen acknowledged
  intake,      \* acknowledged events a handler is still working on
  queue,       \* store: pending entries
  log,         \* store: the named log
  position,    \* store: the franchise position
  writes,      \* the write mode of the running process
  pc,          \* where the sweep is
  batch,       \* the due entries the sweep has not come to yet
  cur,         \* the entry in hand
  copy,        \* the activity as last read for it
  row,         \* its row as read from the named log
  draft,       \* the title being written, with its description
  tries,       \* attempts the current Strava write has made
  sent,        \* history: what the service has sent each activity
  settler,     \* history: who the first row of each activity was for
  missed,      \* history: activities an update event was lost for
  uncorrected, \* history: activities whose row could not be corrected to what
               \* Strava kept: no answer, a failing write, or a crash before it
  budget       \* what is left of the bounds

vars == <<strava, events, intake, queue, log, position, writes, pc, batch, cur,
          copy, row, draft, tries, sent, settler, missed, uncorrected, budget>>

store == <<queue, log, position>>
sweep == <<pc, batch, cur, copy, row, draft, tries>>
world == <<strava, events>>
history == <<sent, settler, missed, uncorrected>>
-----------------------------------------------------------------------------
NoEntry == -1     \* no franchise entry used
NoPending == [id |-> -1, dueIn |-> 0, recheck |-> 0]
NoDraft == [title |-> NoTitle, source |-> "none", entry |-> NoEntry,
            attribute |-> FALSE, notes |-> 0]
Unborn == [status |-> "unborn", name |-> NoTitle, commute |-> FALSE,
           line |-> FALSE, notes |-> 0]

\* The classifier's view of what Strava returned.
ToClassifierActivity(a, activity) ==
  [name |-> activity.name, commute |-> activity.commute,
   sportType |-> Facts[a].sportType, trainer |-> Facts[a].trainer,
   strain |-> Facts[a].strain, distance |-> Facts[a].distance,
   movingTime |-> Facts[a].movingTime,
   start |-> Facts[a].start, end |-> Facts[a].end]

Decision(a, activity) == Classify(ToClassifierActivity(a, activity))

\* notAPersonsTitle: why a title the gate does not recognize is still not the
\* athlete's.
NotAPersonsTitle(title) == IsToolTitle(title) \/ title \in TemplateTitles

\* notTheAthletesTitle: the same for a title the gate never saw.
NotTheAthletesTitle(title) ==
  \/ title = NoTitle
  \/ Renamable(title)
  \/ NotAPersonsTitle(title)

RenamedSource(source) == IF source = "imported" THEN "imported" ELSE "human"

\* recordHumanTitle: a skipped sport ride the athlete titled.
RecordsHumanTitle(decision, title) ==
  /\ decision.humanTitled
  /\ decision.tier = "sport_ride"
  /\ ~NotAPersonsTitle(title)

\* Mutant: only the first rename of an activity is recorded.
IsFirstRename(activity, recorded) ==
  /\ activity.name # recorded.title
  /\ recorded.source # "human"
  /\ ~NotTheAthletesTitle(activity.name)

\* reconcileOne: the title on Strava is a rename the athlete made.
IsRename(activity, recorded) ==
  /\ activity.name # recorded.title
  /\ ~NotTheAthletesTitle(activity.name)

\* Franchise.Next: the next entry the rotation may offer, if there is one.
Offered(pos) ==
  {i \in pos..(SeriesLength - 1) :
     i \notin Reserved /\ \A j \in pos..(i - 1) : j \in Reserved}

TemplateDraft(title) == [NoDraft EXCEPT !.title = title, !.source = "template"]

ModelDraft(title, entry) ==
  [NoDraft EXCEPT !.title = title, !.source = "service", !.entry = entry]

\* title: what the decision's action may produce.  A template says which title
\* it is; the model may or may not use the entry it is offered.
Drafts(a, decision, pos) ==
  IF decision.action = "commute_template"
  THEN {TemplateDraft(CommuteTitle(decision.direction))}
  ELSE IF decision.action = "errand_template"
  THEN {TemplateDraft(ErrandTitle(a))}
  ELSE IF decision.action \in {"llm", "llm_indoor"}
  THEN {ModelDraft(t, e) : t \in ModelTitles, e \in Offered(pos) \cup {NoEntry}}
  ELSE {}
-----------------------------------------------------------------------------
Event(aspect, a) == [aspect |-> aspect, id |-> a, age |-> 0]

\* A handler working on an acknowledged event; read and named say whether it
\* has looked the activity up in the named log, and what it found.
Handler(event) ==
  [aspect |-> event.aspect, id |-> event.id, age |-> event.age,
   read |-> FALSE, named |-> FALSE]

\* processAfter, as the time left: the event time anchors the delay when it is
\* recent, otherwise the arrival does.
ProcessAfter(age) == IF age <= MaxEventAge THEN Delay - age ELSE Delay

NewEntry(handler) ==
  LET due == ProcessAfter(handler.age)
  IN  [id |-> handler.id,
       dueIn |-> IF due < -Horizon THEN -Horizon ELSE due,
       recheck |-> Window]

Spend(kind) ==
  /\ budget[kind] > 0
  /\ budget' = [budget EXCEPT ![kind] = @ - 1]

Live(a) == strava[a].status = "live"

\* An activity whose update has gone unread: the sweep has read it already and
\* removes its entry without reading it again.
AlreadyRead(a) ==
  cur.id = a /\ pc \notin {"lookup", "fetch", "reconcile"}

Init ==
  /\ strava = [a \in Activity |-> Unborn]
  /\ events = {}
  /\ intake = {}
  /\ queue = {}
  /\ log = [a \in Activity |-> NoRow]
  /\ position = 0
  /\ writes \in WriteModes
  /\ pc = "idle"
  /\ batch = {}
  /\ cur = NoPending
  /\ copy = Unborn
  /\ row = NoRow
  /\ draft = NoDraft
  /\ tries = 0
  /\ sent = [a \in Activity |-> {}]
  /\ settler = [a \in Activity |-> "nobody"]
  /\ missed = {}
  /\ uncorrected = {}
  /\ budget \in Budgets
-----------------------------------------------------------------------------
(* The world: Strava, the athlete, the other automations, the clock.       *)

\* An activity is uploaded under a title of Strava's, a tool's or a person's.
Upload(a) ==
  /\ strava[a].status = "unborn"
  /\ \E title \in DefaultTitles \cup MachineTitles \cup ToolTitles \cup PersonTitles :
       strava' = [strava EXCEPT ![a] =
                    [Unborn EXCEPT !.status = "live", !.name = title]]
  /\ events' = events \cup {Event("create", a)}
  /\ UNCHANGED <<intake, store, writes, sweep, history, budget>>

\* The athlete or another tool replaces the title; Strava sends an update.
Retitle(a) ==
  /\ Live(a)
  /\ Spend("edits")
  /\ \E title \in DefaultTitles \cup MachineTitles \cup ToolTitles
                   \cup TemplateTitles \cup PersonTitles :
       /\ title # strava[a].name
       /\ strava' = [strava EXCEPT ![a].name = title]
  /\ events' = events \cup {Event("update", a)}
  /\ UNCHANGED <<intake, store, writes, sweep, history>>

\* ActivityFix sets the commute flag, and Strava sends no event for it.
TagCommute(a) ==
  /\ Live(a)
  /\ ~strava[a].commute
  /\ strava' = [strava EXCEPT ![a].commute = TRUE]
  /\ UNCHANGED <<events, intake, store, writes, sweep, history, budget>>

\* Another tool writes into the description.  No event.
Annotate(a) ==
  /\ Live(a)
  /\ Spend("notes")
  /\ strava' = [strava EXCEPT ![a].notes = @ + 1]
  /\ UNCHANGED <<events, intake, store, writes, sweep, history>>

Delete(a) ==
  /\ Live(a)
  /\ Spend("edits")
  /\ strava' = [strava EXCEPT ![a] = [Unborn EXCEPT !.status = "gone"]]
  /\ events' = events \cup {Event("delete", a)}
  /\ UNCHANGED <<intake, store, writes, sweep, history>>

Older(event) ==
  [event EXCEPT !.age = IF @ <= MaxEventAge THEN @ + 1 ELSE @]

Tick ==
  /\ events' = {Older(e) : e \in events}
  /\ intake' = {Older(h) : h \in intake}
  /\ queue' = {Aged(p) : p \in queue}
  /\ batch' = {Aged(p) : p \in batch}
  /\ cur' = IF cur = NoPending THEN cur ELSE Aged(cur)
  /\ <<events, intake, queue, batch, cur>>' # <<events, intake, queue, batch, cur>>
  /\ UNCHANGED <<strava, log, position, writes, pc, copy, row, draft, tries,
                 history, budget>>

\* The process dies or is redeployed: what was in memory is gone, the store
\* and the unacknowledged events are not.  A deployment may change the mode.
Restart ==
  /\ Spend("crashes")
  /\ writes' \in WriteModes
  /\ intake' = {}
  /\ missed' = missed \cup {h.id : h \in intake}
  /\ uncorrected' = IF pc = "keep" THEN uncorrected \cup {cur.id} ELSE uncorrected
  /\ pc' = "idle" /\ batch' = {} /\ cur' = NoPending
  /\ copy' = Unborn /\ row' = NoRow /\ draft' = NoDraft /\ tries' = 0
  /\ UNCHANGED <<world, store, sent, settler>>
-----------------------------------------------------------------------------
(* internal/webhook.  The 200 goes out first; what follows runs detached.  *)

\* intake: acknowledge the event, then process it if it may concern a title.
Acknowledge(event) ==
  intake' = IF event.aspect \in {"create", "update"}
            THEN intake \cup {Handler(event)} ELSE intake

Deliver(event) ==
  /\ events' = events \ {event}
  /\ Acknowledge(event)
  /\ UNCHANGED <<strava, store, writes, sweep, history, budget>>

\* The acknowledgement is lost, so Strava will deliver the event again.
Redeliver(event) ==
  /\ Spend("faults")
  /\ Acknowledge(event)
  /\ UNCHANGED <<world, store, writes, sweep, history>>

\* process reads the named log: a create on a named activity says nothing new.
CheckNamed(handler) ==
  /\ ~handler.read
  /\ LET named == Named(log, handler.id)
         rest == intake \ {handler}
     IN  intake' = IF named /\ handler.aspect # "update"
                   THEN rest
                   ELSE rest \cup {[handler EXCEPT !.read = TRUE, !.named = named]}
  /\ UNCHANGED <<world, store, writes, sweep, history, budget>>

\* The entry is added, or the event collapses into the one already there.
EnqueueEvent(handler) ==
  /\ handler.read
  /\ queue' = Enqueue(queue, NewEntry(handler))
  /\ missed' = IF Queued(queue, handler.id) /\ AlreadyRead(handler.id)
               THEN missed \cup {handler.id} ELSE missed
  /\ intake' = intake \ {handler}
  /\ UNCHANGED <<world, log, position, writes, sweep, sent, settler, uncorrected,
                 budget>>

\* Either call to the store fails: logged, and the event is gone.
DropEvent(handler) ==
  /\ Spend("faults")
  /\ intake' = intake \ {handler}
  /\ missed' = missed \cup {handler.id}
  /\ UNCHANGED <<world, store, writes, sweep, sent, settler, uncorrected>>
-----------------------------------------------------------------------------
(* internal/sweep and Processor.Sweep.  The handler's TryLock admits one    *)
(* sweep: a fire that finds one running is answered and changes nothing.   *)

Hand == <<cur, copy, row, draft, tries>>

\* The sweep is done with the entry in hand and goes on to the next one.
LetGo ==
  /\ pc' = "next"
  /\ cur' = NoPending
  /\ copy' = Unborn
  /\ row' = NoRow
  /\ draft' = NoDraft
  /\ tries' = 0

Fire ==
  /\ pc = "idle"
  /\ Due(queue) # {}
  /\ batch' = Due(queue)
  /\ pc' = "next"
  /\ UNCHANGED <<world, intake, store, writes, Hand, history, budget>>

Take ==
  /\ pc = "next"
  /\ \E pending \in batch :
       /\ IsFirst(pending, batch)
       /\ cur' = pending
       /\ batch' = batch \ {pending}
  /\ pc' = "lookup"
  /\ UNCHANGED <<world, intake, store, writes, copy, row, draft, tries,
                 history, budget>>

EndSweep ==
  /\ pc = "next"
  /\ batch = {}
  /\ pc' = "idle"
  /\ UNCHANGED <<world, intake, store, writes, batch, Hand, history, budget>>

\* The sweep's context is done: it stops at an activity boundary.
CancelSweep ==
  /\ pc = "next"
  /\ batch # {}
  /\ Spend("faults")
  /\ pc' = "idle"
  /\ batch' = {}
  /\ UNCHANGED <<world, intake, store, writes, Hand, history>>

\* The entry is finished with.  A failing Remove leaves it queued.
Dequeue ==
  /\ pc = "remove"
  /\ \/ queue' = Remove(queue, cur.id) /\ UNCHANGED budget
     \/ queue' = queue /\ Spend("faults")
  /\ LetGo
  /\ UNCHANGED <<world, intake, log, position, writes, batch, history>>

\* A call of processOne returns an error: the activity stays queued.
CallFails ==
  /\ pc \in {"lookup", "fetch", "record", "title", "mark", "reconcile", "rename"}
  /\ Spend("faults")
  /\ LetGo
  /\ UNCHANGED <<world, intake, store, writes, batch, history>>
-----------------------------------------------------------------------------
(* Processor.processOne.                                                   *)

\* Mutant: the named log is not consulted before naming.
LookupForgotten ==
  /\ pc = "lookup"
  /\ row' = log[cur.id]
  /\ pc' = IF row'.source = "human" THEN "reconcile" ELSE "fetch"
  /\ UNCHANGED <<world, intake, store, writes, batch, cur, copy, draft, tries,
                 history, budget>>

\* The named log decides between naming and reconciling.
Lookup ==
  /\ pc = "lookup"
  /\ row' = log[cur.id]
  /\ pc' = IF Named(log, cur.id) THEN "reconcile" ELSE "fetch"
  /\ UNCHANGED <<world, intake, store, writes, batch, cur, copy, draft, tries,
                 history, budget>>

\* Mutant: a 404 is retried like any other failure.
RetryGone == LetGo

\* gone: Strava has no such activity, and the entry is finished with.
Gone ==
  /\ pc' = "remove"
  /\ UNCHANGED <<cur, copy, row, draft, tries>>

\* Mutant: the window closes a step early.
StaysQueuedShort(decision) == decision.provisional /\ cur.recheck > 1

\* skip: the decline is final unless it is provisional and its window is open.
StaysQueued(decision) == decision.provisional /\ cur.recheck > 0

\* Where the activity just read goes: it is recorded as the athlete's, left
\* queued, finished with, or named.
Fetch ==
  /\ pc = "fetch"
  /\ missed' = missed \ {cur.id}
  /\ LET activity == strava[cur.id]
         decision == Decision(cur.id, activity)
     IN  \/ activity.status # "live" /\ Gone
         \/ /\ activity.status = "live"
            /\ decision.action = "skip"
            /\ RecordsHumanTitle(decision, activity.name)
            /\ pc' = "record"
            /\ copy' = activity
            /\ UNCHANGED <<cur, row, draft, tries>>
         \/ /\ activity.status = "live"
            /\ decision.action = "skip"
            /\ ~RecordsHumanTitle(decision, activity.name)
            /\ StaysQueued(decision)
            /\ LetGo
         \/ /\ activity.status = "live"
            /\ decision.action = "skip"
            /\ ~RecordsHumanTitle(decision, activity.name)
            /\ ~StaysQueued(decision)
            /\ pc' = "remove"
            /\ copy' = activity
            /\ UNCHANGED <<cur, row, draft, tries>>
         \/ /\ activity.status = "live"
            /\ decision.action # "skip"
            /\ pc' = "title"
            /\ copy' = activity
            /\ UNCHANGED <<cur, row, draft, tries>>
  /\ UNCHANGED <<world, intake, store, writes, batch, sent, settler, uncorrected,
                 budget>>

Settle(a, who) ==
  settler' = IF settler[a] = "nobody" THEN [settler EXCEPT ![a] = who] ELSE settler

\* recordHumanTitle; the skip that follows it is final.
RecordHumanTitle ==
  /\ pc = "record"
  /\ log' = MarkNamed(log, cur.id, copy.name, "human")
  /\ Settle(cur.id, "athlete")
  /\ pc' = "remove"
  /\ UNCHANGED <<world, intake, queue, position, writes, batch, Hand,
                 sent, missed, uncorrected, budget>>

\* Mutant: a dry-run naming is finished with.
MakeTitleAndForget ==
  /\ pc = "title"
  /\ \E made \in Drafts(cur.id, Decision(cur.id, copy), position) :
       IF writes
       THEN /\ draft' = made
            /\ pc' = IF Attribution THEN "reread" ELSE "mark"
            /\ UNCHANGED <<cur, copy, row, tries>>
       ELSE pc' = "remove" /\ UNCHANGED Hand
  /\ UNCHANGED <<world, intake, store, writes, batch, history, budget>>

\* title, then the write-mode test of write: in dry run the title is logged
\* and the entry stays queued.
MakeTitle ==
  /\ pc = "title"
  /\ \E made \in Drafts(cur.id, Decision(cur.id, copy), position) :
       IF writes
       THEN /\ draft' = made
            /\ pc' = IF Attribution THEN "reread" ELSE "mark"
            /\ UNCHANGED <<cur, copy, row, tries>>
       ELSE LetGo
  /\ UNCHANGED <<world, intake, store, writes, batch, history, budget>>
-----------------------------------------------------------------------------
(* Processor.write.                                                        *)

\* description: re-read for the merge; a failed read goes without the line.
Reread ==
  /\ pc = "reread"
  /\ LET fresh == strava[cur.id]
     IN  \/ /\ fresh.status = "live"
            /\ draft' = IF fresh.line THEN draft
                        ELSE [draft EXCEPT !.attribute = TRUE, !.notes = fresh.notes]
            /\ UNCHANGED budget
         \/ /\ fresh.status = "live" => Spend("faults")
            /\ fresh.status # "live" => UNCHANGED budget
            /\ UNCHANGED draft
  /\ pc' = "mark"
  /\ UNCHANGED <<world, intake, store, writes, batch, cur, copy, row, tries, history>>

\* Mutant: a title that cannot be recorded is sent all the same.
RecordTitleIfPossible ==
  /\ pc = "mark"
  /\ \/ log' = MarkNamed(log, cur.id, draft.title, draft.source)
     \/ UNCHANGED log
  /\ Settle(cur.id, "service")
  /\ pc' = IF draft.entry = NoEntry THEN "put" ELSE "advance"
  /\ UNCHANGED <<world, intake, queue, position, writes, batch, Hand,
                 sent, missed, uncorrected, budget>>

\* The named log first.
RecordTitle ==
  /\ pc = "mark"
  /\ log' = MarkNamed(log, cur.id, draft.title, draft.source)
  /\ Settle(cur.id, "service")
  /\ pc' = IF draft.entry = NoEntry THEN "put" ELSE "advance"
  /\ UNCHANGED <<world, intake, queue, position, writes, batch, Hand,
                 sent, missed, uncorrected, budget>>

\* recordFranchise: never fatal.
RecordFranchise ==
  /\ pc = "advance"
  /\ \/ /\ position' = AdvanceFranchisePast(position, draft.entry)
        /\ UNCHANGED budget
     \/ /\ Spend("faults")
        /\ UNCHANGED position
  /\ pc' = "put"
  /\ UNCHANGED <<world, intake, queue, log, writes, batch, Hand, history>>

\* Strava removes what it reads as a link from a title.
Stored(title) == IF title \in LinkTitles THEN StrippedTitle ELSE title

Rewrites(title) == Stored(title) # title

\* The PUT takes effect: the title, and the description when it carries one.
Titled(activity) ==
  [activity EXCEPT !.name = Stored(draft.title),
                   !.line = @ \/ draft.attribute,
                   !.notes = IF draft.attribute THEN draft.notes ELSE @]

ApplyTitle(a) ==
  /\ strava' = [strava EXCEPT ![a] = Titled(@)]
  /\ events' = IF strava[a].name = Stored(draft.title) THEN events
               ELSE events \cup {Event("update", a)}
  /\ sent' = [sent EXCEPT ![a] = @ \cup {[title |-> draft.title, entry |-> draft.entry]}]

\* Mutant: one retry more than allowed.
RetryOnceMore ==
  \/ /\ tries <= MaxRetries
     /\ tries' = tries + 1
     /\ UNCHANGED <<pc, cur, copy, row, draft>>
  \/ LetGo

\* Client.do after an attempt that may be retried: back off and try again, or
\* return the error and leave the activity queued.
RetryOrFail ==
  \/ /\ tries < MaxRetries
     /\ tries' = tries + 1
     /\ UNCHANGED <<pc, cur, copy, row, draft>>
  \/ LetGo

\* Mutant: nobody looks at the name in the answer.
PutTitleUnread ==
  /\ pc = "put"
  /\ Live(cur.id)
  /\ ApplyTitle(cur.id)
  /\ uncorrected' = uncorrected \ {cur.id}
  /\ pc' = "remove"
  /\ UNCHANGED <<intake, store, writes, batch, Hand, settler, missed, budget>>

\* The PUT is answered.  A different name in the answer is recorded next.
PutTitle ==
  /\ pc = "put"
  /\ Live(cur.id)
  /\ ApplyTitle(cur.id)
  /\ uncorrected' = uncorrected \ {cur.id}
  /\ pc' = IF Rewrites(draft.title) THEN "keep" ELSE "remove"
  /\ UNCHANGED <<intake, store, writes, batch, Hand, settler, missed, budget>>

\* The PUT takes effect and its answer is lost or cannot be decoded.
PutTitleUnanswered ==
  /\ pc = "put"
  /\ Live(cur.id)
  /\ Spend("faults")
  /\ ApplyTitle(cur.id)
  /\ uncorrected' = IF Rewrites(draft.title) THEN uncorrected \cup {cur.id}
                    ELSE uncorrected
  /\ RetryOrFail
  /\ UNCHANGED <<intake, store, writes, batch, settler, missed>>

\* The PUT does not take effect: an error on the way, or nothing to update.
PutTitleRefused ==
  /\ pc = "put"
  /\ \/ Live(cur.id) /\ Spend("faults") /\ RetryOrFail
     \/ ~Live(cur.id) /\ UNCHANGED budget /\ LetGo
  /\ UNCHANGED <<world, intake, store, writes, batch, history>>

\* reconcileTitle: what Strava kept replaces what was sent.  Never fatal.
KeepStoredTitle ==
  /\ pc = "keep"
  /\ \/ /\ log' = MarkNamed(log, cur.id, Stored(draft.title), draft.source)
        /\ UNCHANGED <<uncorrected, budget>>
     \/ /\ Spend("faults")
        /\ uncorrected' = uncorrected \cup {cur.id}
        /\ UNCHANGED log
  /\ pc' = "remove"
  /\ UNCHANGED <<world, intake, queue, position, writes, batch, Hand,
                 sent, settler, missed>>
-----------------------------------------------------------------------------
(* Processor.reconcileOne.                                                 *)

\* Mutants: the row as it was before the rename decides; dry run writes.
UnattributeOldRow(source, activity) ==
  IF row.source # "human" \/ ~activity.line
  THEN pc' = "remove" /\ copy' = activity /\ UNCHANGED <<cur, row, draft, tries>>
  ELSE IF ~writes
  THEN LetGo
  ELSE pc' = "unline" /\ copy' = activity /\ UNCHANGED <<cur, row, draft, tries>>

UnattributeAlways(source, activity) ==
  IF source # "human" \/ ~activity.line
  THEN pc' = "remove" /\ copy' = activity /\ UNCHANGED <<cur, row, draft, tries>>
  ELSE pc' = "unline" /\ copy' = activity /\ UNCHANGED <<cur, row, draft, tries>>

\* removeAttribution: only from a row that is the athlete's, and in dry run
\* the work stays owed.
Unattribute(source, activity) ==
  IF source # "human" \/ ~activity.line
  THEN pc' = "remove" /\ copy' = activity /\ UNCHANGED <<cur, row, draft, tries>>
  ELSE IF ~writes
  THEN LetGo
  ELSE pc' = "unline" /\ copy' = activity /\ UNCHANGED <<cur, row, draft, tries>>

Reconcile ==
  /\ pc = "reconcile"
  /\ missed' = missed \ {cur.id}
  /\ LET activity == strava[cur.id]
     IN  \/ activity.status # "live" /\ Gone
         \/ /\ activity.status = "live"
            /\ IsRename(activity, row)
            /\ pc' = "rename"
            /\ copy' = activity
            /\ UNCHANGED <<cur, row, draft, tries>>
         \/ /\ activity.status = "live"
            /\ ~IsRename(activity, row)
            /\ Unattribute(row.source, activity)
  /\ UNCHANGED <<world, intake, store, writes, batch, sent, settler, uncorrected,
                 budget>>

RecordRename ==
  /\ pc = "rename"
  /\ log' = MarkNamed(log, cur.id, copy.name, RenamedSource(row.source))
  /\ Unattribute(RenamedSource(row.source), copy)
  /\ UNCHANGED <<world, intake, queue, position, writes, batch, history, budget>>

\* The description goes back as it was read, without the line.
ApplyDescription(a) ==
  strava' = [strava EXCEPT ![a] = [@ EXCEPT !.line = FALSE, !.notes = copy.notes]]

PutDescription ==
  /\ pc = "unline"
  /\ Live(cur.id)
  /\ ApplyDescription(cur.id)
  /\ pc' = "remove"
  /\ UNCHANGED <<events, intake, store, writes, batch, Hand, history, budget>>

PutDescriptionUnanswered ==
  /\ pc = "unline"
  /\ Live(cur.id)
  /\ Spend("faults")
  /\ ApplyDescription(cur.id)
  /\ RetryOrFail
  /\ UNCHANGED <<events, intake, store, writes, batch, history>>

PutDescriptionRefused ==
  /\ pc = "unline"
  /\ \/ Live(cur.id) /\ Spend("faults") /\ RetryOrFail
     \/ ~Live(cur.id) /\ UNCHANGED budget /\ LetGo
  /\ UNCHANGED <<world, intake, store, writes, batch, history>>
-----------------------------------------------------------------------------
Environment ==
  \/ \E a \in Activity :
       Upload(a) \/ Retitle(a) \/ TagCommute(a) \/ Annotate(a) \/ Delete(a)
  \/ Restart

Webhook ==
  \/ \E event \in events : Deliver(event) \/ Redeliver(event)
  \/ \E handler \in intake :
       CheckNamed(handler) \/ EnqueueEvent(handler) \/ DropEvent(handler)

Writing ==
  \/ Reread \/ RecordTitle \/ RecordFranchise
  \/ PutTitle \/ PutTitleUnanswered \/ PutTitleRefused \/ KeepStoredTitle

Reconciling ==
  \/ Reconcile \/ RecordRename
  \/ PutDescription \/ PutDescriptionUnanswered \/ PutDescriptionRefused

Sweep ==
  \/ Fire \/ Take \/ EndSweep \/ CancelSweep \/ Dequeue \/ CallFails
  \/ Lookup \/ Fetch \/ RecordHumanTitle \/ MakeTitle
  \/ Writing \/ Reconciling

Next == Environment \/ Tick \/ Webhook \/ Sweep

Spec == Init /\ [][Next]_vars

\* Time passes, Strava delivers what is not acknowledged, a handler runs to
\* its end, and the scheduler keeps firing while a sweep keeps going.
Fairness ==
  /\ WF_vars(Tick)
  /\ WF_vars(\E event \in events : Deliver(event))
  /\ WF_vars(\E handler \in intake : CheckNamed(handler) \/ EnqueueEvent(handler))
  /\ WF_vars(Sweep)

FairSpec == Spec /\ Fairness
-----------------------------------------------------------------------------
(* Properties.                                                             *)

Row == [title : Titles \cup {NoTitle}, source : Sources \cup {"none"}]

StravaActivity ==
  [status : {"unborn", "live", "gone"}, name : Titles \cup {NoTitle},
   commute : BOOLEAN, line : BOOLEAN, notes : Nat]

Entries == (0..(SeriesLength - 1)) \cup {NoEntry}

OwnTitles == ModelTitles \cup TemplateTitles

Events == [aspect : {"create", "update", "delete"}, id : Activity, age : 0..(MaxEventAge + 1)]

Handlers ==
  [aspect : {"create", "update"}, id : Activity, age : 0..(MaxEventAge + 1),
   read : BOOLEAN, named : BOOLEAN]

Pendings == Pending(Activity, Delay, Window)

Draft ==
  [title : OwnTitles \cup {NoTitle}, source : {"service", "template", "none"},
   entry : Entries, attribute : BOOLEAN, notes : Nat]

Sent == [title : OwnTitles, entry : Entries]

Budget == [edits : Nat, notes : Nat, faults : Nat, crashes : Nat]

PCs ==
  {"idle", "next", "lookup", "fetch", "record", "title", "reread", "mark",
   "advance", "put", "keep", "reconcile", "rename", "unline", "remove"}

\* Every variable has its type: the position stays within the series, a queued
\* entry within its delay, and Client.do within its retries.
TypeOK ==
  /\ strava \in [Activity -> StravaActivity]
  /\ events \subseteq Events
  /\ intake \subseteq Handlers
  /\ queue \subseteq Pendings
  /\ log \in [Activity -> Row]
  /\ position \in 0..SeriesLength
  /\ writes \in BOOLEAN
  /\ pc \in PCs
  /\ batch \subseteq Pendings
  /\ cur \in Pendings \cup {NoPending}
  /\ copy \in StravaActivity
  /\ row \in Row
  /\ draft \in Draft
  /\ tries \in 0..MaxRetries
  /\ sent \in [Activity -> SUBSET Sent]
  /\ settler \in [Activity -> {"nobody", "service", "athlete"}]
  /\ missed \subseteq Activity /\ uncorrected \subseteq Activity
  /\ budget \in Budget

\* "An activity is named at most once, ever": across retries, redeliveries and
\* restarts the service sends an activity one title and never a second one.
NamedOnce == \A a \in Activity : \A s, t \in sent[a] : s = t

\* The named log is written before the title is sent: whatever the service has
\* sent is recorded, so no crash leaves a rename with nothing recorded.
RecordedBeforeSent ==
  \A a \in Activity : sent[a] # {} => Named(log, a) /\ settler[a] = "service"

\* The queue holds one entry per activity, and the entry the sweep works on is
\* still there: a redelivered event collapses and a crash loses no activity.
EntryStaysUntilFinished ==
  /\ \A p, q \in queue : p.id = q.id => p = q
  /\ cur # NoPending => cur \in queue
  /\ batch \subseteq queue

\* The entry in hand has left the batch: a crash-free sweep comes to it once.
InHand ==
  /\ pc \in {"idle", "next"} <=> cur = NoPending
  /\ cur \notin batch

\* What the steps between two calls rely on.  The sweep is the only writer of
\* the log: an activity it found unnamed stays unnamed until it records it, one
\* it found named stays named, and while a title is on its way nothing but
\* that title has been sent.
SweepKnowsTheRow ==
  /\ pc \in {"fetch", "record", "title", "reread", "mark"} => ~Named(log, cur.id)
  /\ pc \in {"reconcile", "rename"} => Named(log, cur.id)
  /\ pc \in {"reread", "mark", "advance", "put", "keep"} =>
       draft.title \in OwnTitles /\ draft.source # "none"
  /\ pc \in {"advance", "put", "keep"} =>
       /\ Named(log, cur.id)
       /\ settler[cur.id] = "service"
       /\ sent[cur.id] \subseteq {[title |-> draft.title, entry |-> draft.entry]}

\* A row is for somebody, and there is no row until it is settled for whom.
SettledWhenNamed == \A a \in Activity : Named(log, a) <=> settler[a] # "nobody"

AtRest(a) ==
  /\ \A e \in events : e.id # a
  /\ \A h \in intake : h.id # a
  /\ ~Queued(queue, a)

\* removeAttribution converges: once the work on an activity has come to rest,
\* a row that is the athlete's never leaves the line claiming the title is
\* this service's.
LineMatchesRow ==
  \A a \in Activity :
    AtRest(a) /\ Live(a) /\ log[a].source = "human" => ~strava[a].line

\* "The record follows them": at rest the row is the athlete's title, unless
\* its update event was lost or collapsed into an entry already read.
RecordFollowsRename ==
  \A a \in Activity \ missed :
    AtRest(a) /\ Live(a) /\ Named(log, a) /\ strava[a].name \in PersonTitles
      => log[a].title = strava[a].name

\* A row under source human holds a title a person typed: it is what the
\* few-shot examples are drawn from.  Strava's rewrite of a title of the service's
\* passes for the athlete's only if the correction of the row (reconcileTitle)
\* failed, or never came because the answer was lost or the process died.
HumanRowsAreTyped ==
  \A a \in Activity :
    log[a].source = "human" =>
      \/ log[a].title \in PersonTitles
      \/ /\ a \in uncorrected
         /\ \E s \in sent[a] : Rewrites(s.title) /\ log[a].title = Stored(s.title)

\* What only a process with writes on comes to do.
WritesAreOn ==
  pc \in {"reread", "mark", "advance", "put", "keep", "unline"} => writes

\* The entry is finished with only when the activity as read is owed nothing.
OwedNothing(a, activity, recheck) ==
  LET decision == Decision(a, activity)
  IN  decision.action = "skip" /\ ~(decision.provisional /\ recheck > 0)

\* What the steps after the read rely on, of the activity as it was read: a
\* title is made only where the gate let it by, and recorded as the athlete's
\* only where it did not.
CopyIsWhatWasRead ==
  /\ pc \in {"idle", "next", "lookup", "fetch", "reconcile"} => copy = Unborn
  /\ pc \in {"title", "reread", "mark", "advance", "put", "keep"} => Renamable(copy.name)
  /\ pc = "record" =>
       copy.status = "live" /\ RecordsHumanTitle(Decision(cur.id, copy), copy.name)
  /\ pc = "rename" => copy.status = "live" /\ IsRename(copy, row)
  /\ pc = "unline" => Named(log, cur.id)
  /\ pc = "remove" /\ copy.status = "live" =>
       Named(log, cur.id) \/ OwedNothing(cur.id, copy, cur.recheck)

\* The row in hand is the one in the store, and so is the draft once recorded.
RowIsCurrent ==
  /\ pc \in {"reconcile", "rename"} => row = log[cur.id]
  /\ pc \in {"advance", "put", "keep"} =>
       log[cur.id] = [title |-> draft.title, source |-> draft.source]

\* Titles that reach Strava from elsewhere than this service's PUT.
OutsideTitles ==
  DefaultTitles \cup MachineTitles \cup ToolTitles \cup TemplateTitles \cup PersonTitles

\* The row may still hold what was sent instead of what Strava kept.
IsUncorrected(a) == a \in uncorrected \/ (pc = "keep" /\ cur.id = a)

\* Where the title of an activity comes from: from outside, or from what it
\* was sent, and then its row says what Strava kept, or could not be corrected.
KnownName(a, name) ==
  \/ name \in OutsideTitles
  \/ \E s \in sent[a] :
       /\ name = Stored(s.title)
       /\ log[a].title = name \/ (log[a].title = s.title /\ IsUncorrected(a))

NamesAreKnown ==
  /\ \A a \in Activity : Live(a) => KnownName(a, strava[a].name)
  /\ pc \in {"record", "rename"} => KnownName(cur.id, copy.name)
  /\ pc = "rename" /\ Live(cur.id) =>
       strava[cur.id].name \in OutsideTitles \cup {copy.name}

\* An update of the activity that no sweep has read: on its way, or with a
\* handler.  A create may be dropped, an update never is.
Unread(a) ==
  \/ \E e \in events : e.aspect = "update" /\ e.id = a
  \/ \E h \in intake : h.aspect = "update" /\ h.id = a

\* A rename the log does not hold yet is on its way to it, and one made since
\* the sweep read the activity has an update that is not read yet.
RenameIsOwed ==
  \A a \in Activity \ missed :
    Live(a) /\ strava[a].name \in PersonTitles =>
      /\ Named(log, a) /\ log[a].title # strava[a].name =>
           \/ Unread(a)
           \/ Queued(queue, a) /\ ~AlreadyRead(a)
           \/ AlreadyRead(a) /\ pc = "rename" /\ copy.name = strava[a].name
      /\ AlreadyRead(a) /\ copy.name # strava[a].name => Unread(a)

\* A line that claims too much is owed its removal: the entry is queued, and
\* the sweep is not about to finish with it.
LineIsOwed ==
  /\ \A a \in Activity : strava[a].line => sent[a] # {}
  /\ \A a \in Activity :
       Live(a) /\ strava[a].line /\ log[a].source = "human" =>
         Queued(queue, a) /\ ~(cur.id = a /\ pc = "remove")
  /\ pc = "rename" /\ Live(cur.id) /\ strava[cur.id].line => copy.line

\* Nothing is known of an activity before its upload.
UnbornIsUnknown ==
  \A a \in Activity : strava[a].status = "unborn" => AtRest(a) /\ ~Named(log, a)

\* The inductive invariant: what the code between two calls relies on, of the
\* sweep, the queue, the named log, the titles and what has been sent, at once.
IInv ==
  /\ TypeOK
  /\ InHand
  /\ SweepKnowsTheRow
  /\ SettledWhenNamed
  /\ RecordedBeforeSent
  /\ NamedOnce
  /\ EntryStaysUntilFinished
  /\ WritesAreOn
  /\ CopyIsWhatWasRead
  /\ RowIsCurrent
  /\ UnbornIsUnknown
  /\ NamesAreKnown
  /\ HumanRowsAreTyped
  /\ LineIsOwed
  /\ RenameIsOwed

\* "A human's title is never overwritten", as far as one read can tell: a
\* title the service replaces is not one a person typed before it was read.
KeepsTitlesItRead ==
  [][\A a \in Activity :
       (sent'[a] # sent[a] /\ strava[a].name \in PersonTitles)
         => copy.name # strava[a].name]_vars

\* An entry leaves the queue only when nothing is owed any more: not, in dry
\* run or after a failure, while its activity as read may still be named, nor
\* while a small untagged ride waits for its commute flag inside the window.
DequeuedWhenDone ==
  [][\A p \in queue :
       ~Queued(queue', p.id) /\ copy.status = "live" =>
         Named(log, p.id) \/ OwedNothing(p.id, copy, p.recheck)]_vars

\* Dry run is a no-op on Strava: a process that started without writes sends
\* no title and takes no attribution line out.
DryRunWritesNothing ==
  [][~writes => /\ sent' = sent
                /\ \A a \in Activity : Live(a) /\ strava[a].line =>
                     strava'[a].line \/ strava'[a].status = "gone"]_vars

\* "One activity must never stall the sweep": with writes on for good, every
\* entry is finished with in the end.
QueueDrains ==
  (<>[]writes) => \A a \in Activity : Queued(queue, a) ~> ~Queued(queue, a)

Nameable(a) == Live(a) /\ Decision(a, strava[a]).action # "skip"

\* A queued ride the classifier clears is recorded in the end, also when dry
\* run held it back until a deployment with writes, and also when the commute
\* flag that clears it arrives, without an event, while its window is open.
\* An update event that a crash or a sweep already past its read swallowed
\* (missed) may leave it unnamed.
OwedTitlesAreRecorded ==
  (<>[]writes) =>
    \A a \in Activity :
      (\E p \in queue : p.id = a /\ p.recheck > 0) /\ Nameable(a)
        ~> Named(log, a) \/ ~Nameable(a) \/ a \in missed
-----------------------------------------------------------------------------
(* What the documents say without qualification.                           *)

\* README, "When the athlete renames": "a later rename produces a later event"
\* and "a second rename is recorded like the first".
EveryRenameIsRecorded ==
  \A a \in Activity :
    AtRest(a) /\ Live(a) /\ Named(log, a) /\ strava[a].name \in PersonTitles
      => log[a].title = strava[a].name
-----------------------------------------------------------------------------
(* The pipeline implements the promise.                                    *)

TitlesGiven(a) == {s.title : s \in sent[a]}

Promise == INSTANCE LastWriter WITH
  Titles <- OwnTitles,
  settledFor <- settler,
  given <- [a \in Activity |-> TitlesGiven(a)]

\* Every behaviour of the pipeline is one of LastWriter: each activity is
\* settled once and given at most one title, and only after it was recorded.
ImplementsLastWriter == Promise!LastWriterSpec
=============================================================================
