------------------------------- MODULE Naming -------------------------------
(***************************************************************************)
(* How a title is chosen: the prompt context gathered from the named log,  *)
(* the gear and the configuration document (internal/processor/context.go, *)
(* title.go), the attempts the model gets, and the rules its titles are    *)
(* held to (internal/naming).  The writer (write.go) is here for what it   *)
(* does to the log and to the franchise position.                          *)
(*                                                                         *)
(* A title is the sequence of its folded words.  Rides are numbered in the *)
(* order they were ridden.  Geography, facts and wording are left out: all *)
(* the rules know of them is which figures a ride states.                  *)
(***************************************************************************)
EXTENDS Integers, SequencesExt, FiniteSets

CONSTANTS
  Ride,             \* the rides
  Template,         \* the rides a template names
  GearOf,           \* GearOf[r]: the name of the gear, <<>> without one
  Efforts,          \* Efforts[r]: the names in the ACHIEVEMENTS block
  Stated,           \* Stated[r]: the figures of the RIDE and NOTES lines
  Figure,           \* words that are figures
  Banned,           \* words no title may contain, and disallowed characters
  ModelTitles,      \* what the model may answer
  HumanTitles,      \* what the athlete may type
  Rewritten,        \* Rewritten[t]: what Strava keeps of a title it reads a link in
  TemplateTitle,    \* a commute or errand title
  SyntheticTitles,  \* the titles of SyntheticExamples
  DefaultProfile,   \* the franchises the code ships
  Documents,        \* the configuration documents the athlete may write
  Reservations,     \* the entries a seeding may be asked to reserve
  MaxTitle,         \* MaxTitleRunes, in words
  MaxField,         \* MaxPromptFieldRunes, in words
  RecentLimit,      \* RecentTitleLimit
  ExampleCount,     \* exampleCount
  ExampleFailures,  \* maxExampleFailures
  MaxRestarts,      \* bound: restarts
  NoDocument,       \* there is no configuration document
  NotRead           \* the process has not read it

NoTitle == <<>>

ASSUME NamingAssumption ==
  /\ Ride \subseteq Nat \ {0} /\ IsFiniteSet(Ride)
  /\ MaxTitle \in Nat /\ MaxField \in Nat
  /\ RecentLimit \in Nat /\ ExampleCount \in Nat /\ ExampleFailures \in Nat
  /\ MaxRestarts \in Nat
  /\ DOMAIN Rewritten \subseteq ModelTitles
  /\ NoTitle \notin ModelTitles \cup HumanTitles \cup Range(Rewritten) \cup {TemplateTitle}

Lists == Documents \cup {DefaultProfile}

\* A list holds series (store.Franchise), and an entry is words.
ASSUME SeriesAssumption ==
  \A list \in Lists : \A i \in DOMAIN list :
    /\ DOMAIN list[i] = {"name", "gear", "titles", "reserved"}
    /\ list[i].titles \in Seq(Range(list[i].titles))
    /\ \A e \in Range(list[i].titles) : e \in Seq(Range(e))

VARIABLES
  doc,        \* store: the configuration document
  log,        \* store: the named log
  position,   \* store: the franchise positions
  profile,    \* process: franchiseCache
  gear,       \* process: the gear names it has read
  examples,   \* process: the title of each example it has built
  pc, ride,   \* where the naming is, and of which ride
  context,    \* gathered: what the prompt is built from
  title,      \* the title in hand
  call,       \* which of the attempts is next
  used,       \* the title in hand used the offered entry
  sent,       \* history: the title Strava was sent for each ride
  shown,      \* history: the series the sent title was guarded by
  lapsed,     \* history: entries whose advance failed
  carried,    \* history: entries the recorded titles of the service used
  withheld,   \* history: entries reserved when the position moved
  uncorrected,\* history: rides whose row was not corrected to what Strava kept
  restarts    \* bound: restarts left

vars == <<doc, log, position, profile, gear, examples, pc, ride, context,
          title, call, used, sent, shown, lapsed, carried, withheld, uncorrected,
          restarts>>

store == <<doc, log, position>>
memory == <<profile, gear, examples>>
naming == <<pc, ride, context, title, call, used>>
history == <<sent, shown, lapsed, carried, withheld, uncorrected>>
-----------------------------------------------------------------------------
(* Franchises: internal/naming/franchise.go.                               *)

Article == {"the", "a", "an"}

\* entryCore: an entry without its article, when a word follows.
EntryCore(entry) ==
  IF Len(entry) > 1 /\ Head(entry) \in Article THEN Tail(entry) ELSE entry

\* UsesEntry: the title contains the core of the entry, on whole words.
UsesEntry(t, entry) ==
  LET core == EntryCore(entry)
  IN  /\ core # <<>>
      /\ \E i \in 1..(Len(t) - Len(core) + 1) :
           SubSeq(t, i, i + Len(core) - 1) = core

NoSeries == [name |-> "", gear |-> <<>>, titles |-> <<>>, reserved |-> {}]
Entries(series) == Range(series.titles)
IsReserved(series, entry) == entry \in series.reserved

\* isMotif: the entry says nothing more than the bike's name.
IsMotif(series, entry) ==
  LET core == EntryCore(entry) IN core # <<>> /\ core = EntryCore(series.gear)

\* claims: a motif entry is claimed by equality only.
Claims(series, t, entry) ==
  IF IsMotif(series, entry) THEN t # <<>> /\ t \in {entry, EntryCore(entry)}
  ELSE UsesEntry(t, entry)

\* Mutant: every entry is guarded but the one on offer.
GuardAllButOffer(series, offer) == Entries(series) \ {offer}

\* Guard: the entries a title may not claim are all but those the offer
\* itself would claim.
Guard(series, offer) ==
  {e \in Entries(series) : offer = NoTitle \/ ~Claims(series, offer, e)}

\* Next: the indices the rotation may offer from a position on, and the first.
NextIndex(series, from) ==
  {i \in from..(Len(series.titles) - 1) :
     /\ ~IsReserved(series, series.titles[i + 1])
     /\ \A j \in from..(i - 1) : IsReserved(series, series.titles[j + 1])}

\* Offerable: the entry fits a title, and a title can be seen to use it.
Offerable(entry) == EntryCore(entry) # <<>> /\ Len(entry) <= MaxTitle

Applies(series, gearName) == series.gear \in {<<>>, gearName}

\* FranchiseFor: the first of the list that applies.  A series without a name
\* is dropped as the document is read (FranchisesFromStored).
FranchiseFor(franchises, gearName) ==
  LET at == {i \in DOMAIN franchises :
               franchises[i].name # "" /\ Applies(franchises[i], gearName)}
      first == {i \in at : \A j \in at : i <= j}
  IN  IF first = {} THEN NoSeries ELSE franchises[CHOOSE i \in first : TRUE]

SeriesNames == UNION {{list[i].name : i \in DOMAIN list} : list \in Lists}
-----------------------------------------------------------------------------
(* What a title is held to: internal/naming.                               *)

\* Validate, as far as words go.
Usable(t) == t # NoTitle /\ Len(t) <= MaxTitle /\ Range(t) \cap Banned = {}

\* CopiesAchievement: a segment's name taken whole, or without its article.
CopiesAchievement(t, names) == \E n \in names : t \in {n, EntryCore(n)}

\* OneLine: what the prompt shows of a title.
OneLine(t) == SubSeq(t, 1, IF Len(t) < MaxField THEN Len(t) ELSE MaxField)

\* Mutant: only the stored titles are not to be repeated.
StoredTitles(recent, taught) == recent \cup taught

\* ForbiddenTitles: the titles of RECENT and EXAMPLES, as stored and as shown.
ForbiddenTitles(recent, taught) ==
  LET titles == recent \cup taught
  IN  titles \cup {OneLine(t) : t \in titles}

\* UnstatedFigure: a figure neither the ride nor the offered entry states, or
\* a clock time, which nothing does.
UnstatedFigure(r, t, offer) ==
  \/ \E w \in Range(t) \cap Figure : w \notin Stated[r] \cup Range(offer)
  \/ \E i \in 1..(Len(t) - 1) : t[i] = "halb" /\ t[i + 1] \in Figure

\* ask: what the model may answer for a ride and be heard.
Accepted(r, offer, guard, forbidden) ==
  {t \in ModelTitles :
     /\ Usable(t)
     /\ \A e \in guard : ~Claims(context.series, t, e)
     /\ ~CopiesAchievement(t, Efforts[r])
     /\ t \notin forbidden
     /\ ~UnstatedFigure(r, t, offer)}
-----------------------------------------------------------------------------
(* The named log: RecentTitles, and what the context takes from it.        *)

NoRow == [title |-> NoTitle, source |-> "none", at |-> 0]
Row(t, source, at) == [title |-> t, source |-> source, at |-> at]
Recorded == {r \in Ride : log[r] # NoRow}

\* A row of the service is dated by its clock, later than every ride and every
\* row before it but the one it replaces.
Now == 1 + Max(Ride \cup {log[r].at : r \in Ride \ {ride}})

Newer(r) == {s \in Recorded : log[s].at > log[r].at}

\* RecentTitles: the newest rows, of every source.
RecentTitles == {r \in Recorded : Cardinality(Newer(r)) < RecentLimit}

WorthNotRepeating(rows) == {r \in rows : log[r].source # "template"}

\* Mutant: what an import recorded teaches as well.
AlsoTheImported(rows) == {r \in rows : log[r].source \in {"human", "imported"}}

TeachesStyle(rows) == {r \in rows : log[r].source = "human"}

\* examplesFrom: newest first, until there are enough or too many reads have
\* failed.  unread: the rides Strava does not answer for.
ExamplesFrom(rows, unread) ==
  LET failed(r) == r \in unread /\ examples[r] = NoTitle
      newer(r) == rows \cap Newer(r)
  IN  {r \in rows :
         /\ ~failed(r)
         /\ Cardinality({s \in newer(r) : ~failed(s)}) < ExampleCount
         /\ Cardinality({s \in newer(r) : failed(s)}) < ExampleFailures}

\* example: built once for an activity, then kept.
ExampleTitle(r) == IF examples[r] = NoTitle THEN log[r].title ELSE examples[r]
-----------------------------------------------------------------------------
NoContext == [gear |-> <<>>, recent |-> {}, taught |-> {}, series |-> NoSeries,
              offer |-> NoTitle, index |-> 0]

Init ==
  /\ doc = NoDocument
  /\ log = [r \in Ride |-> NoRow]
  /\ position = [n \in SeriesNames |-> 0]
  /\ profile = NotRead /\ gear = {}
  /\ examples = [r \in Ride |-> NoTitle]
  /\ pc = "idle" /\ ride = 0 /\ context = NoContext
  /\ title = NoTitle /\ call = 0 /\ used = FALSE
  /\ sent = [r \in Ride |-> NoTitle]
  /\ shown = [r \in Ride |-> NoSeries]
  /\ lapsed = {} /\ carried = {} /\ withheld = {} /\ uncorrected = {}
  /\ restarts = MaxRestarts

Idle ==
  /\ pc' = "idle" /\ ride' = 0 /\ context' = NoContext
  /\ title' = NoTitle /\ call' = 0 /\ used' = FALSE

\* gearName: a name that cannot be read is no gear at all, for this ride.
GearNames(r) ==
  IF GearOf[r] \in gear \cup {<<>>} THEN {GearOf[r]} ELSE {GearOf[r], <<>>}

\* promptContext, but for the entry on offer.
PromptContext(name, taught) ==
  [NoContext EXCEPT
     !.gear = name,
     !.recent = {log[r].title : r \in WorthNotRepeating(RecentTitles)},
     !.taught = IF taught = {} THEN SyntheticTitles ELSE {ExampleTitle(r) : r \in taught}]

\* llmTitle up to promptContext.  A log that cannot be read fails the ride.
Gather(r) ==
  /\ pc = "idle" /\ log[r] = NoRow /\ r \notin Template
  /\ \E name \in GearNames(r), unread \in SUBSET TeachesStyle(RecentTitles) :
       LET taught == ExamplesFrom(TeachesStyle(RecentTitles), unread)
       IN  /\ gear' = gear \cup ({name} \ {<<>>})
           /\ examples' = [s \in Ride |->
                IF s \in taught THEN ExampleTitle(s) ELSE examples[s]]
           /\ context' = PromptContext(name, taught)
  /\ pc' = "offer" /\ ride' = r
  /\ UNCHANGED <<store, profile, title, call, used, history, restarts>>

\* The document's, or the shipped profile when there is none.
Franchises(document) ==
  IF document = NoDocument THEN DefaultProfile ELSE document

\* Mutant: a document that could not be read is remembered as none.
RememberDefault == {<<DefaultProfile, DefaultProfile>>}

\* The document cannot be read: the shipped profile, for this ride.
Degraded == {<<DefaultProfile, NotRead>>}

\* franchises: what this ride is named from, and what the process remembers.
Profiles ==
  IF profile # NotRead THEN {<<profile, profile>>}
  ELSE {<<Franchises(doc), Franchises(doc)>>} \cup Degraded

\* franchiseNext: the entry on offer.  The series is kept for its guard when
\* its position cannot be read, it is exhausted, or the entry is no title.
Offer ==
  /\ pc = "offer"
  /\ \E p \in Profiles :
       LET series == FranchiseFor(p[1], context.gear)
           next == {i \in NextIndex(series, position[series.name]) :
                      Offerable(series.titles[i + 1])}
       IN  /\ profile' = p[2]
           /\ \/ context' = [context EXCEPT !.series = series]
              \/ /\ series # NoSeries
                 /\ \E i \in next :
                      context' = [context EXCEPT !.series = series, !.index = i,
                                                 !.offer = series.titles[i + 1]]
  /\ pc' = "ask" /\ call' = 1
  /\ UNCHANGED <<store, gear, examples, ride, title, used, history, restarts>>
-----------------------------------------------------------------------------
(* complete: the offer, the offer once more, and a call without it.        *)

Forbidden == ForbiddenTitles(context.recent, context.taught)

\* Mutant: the last call is guarded as the offer was.
GuardOfTheOffer(n) == Guard(context.series, context.offer)

\* The third call offers nothing, so the entry joins the guard.
GuardOf(n) ==
  Guard(context.series, IF n = 3 THEN NoTitle ELSE context.offer)

Answers(n) ==
  Accepted(ride, IF n = 3 THEN NoTitle ELSE context.offer, GuardOf(n), Forbidden)

Take(t, byEntry) ==
  /\ title' = t /\ used' = byEntry /\ pc' = "record"
  /\ UNCHANGED call

TryAgain(t) ==
  /\ title' = t /\ call' = call + 1
  /\ UNCHANGED <<pc, used>>

\* Mutant: an entry is spent by being offered.
OfferIsUse(t) == context.offer # NoTitle

\* The title demonstrably uses the entry on offer.
UsesOffer(t) == context.offer # NoTitle /\ UsesEntry(t, context.offer)

Answered ==
  /\ pc = "ask"
  /\ \E t \in Answers(call) :
       IF call = 3 \/ context.offer = NoTitle THEN Take(t, FALSE)
       ELSE IF UsesOffer(t) THEN Take(t, TRUE)
       ELSE TryAgain(t)
  /\ UNCHANGED <<store, memory, ride, context, history, restarts>>

\* A call that fails, or answers what is refused: the first fails the ride,
\* which stays queued; a later one never costs the title in hand.
Unanswered ==
  /\ pc = "ask"
  /\ IF call = 1 THEN Idle
     ELSE Take(title, FALSE) /\ UNCHANGED <<ride, context>>
  /\ UNCHANGED <<store, memory, history, restarts>>
-----------------------------------------------------------------------------
(* write: the row, the franchise position, then Strava.                    *)

MarkNamed(t) ==
  /\ log' = [log EXCEPT ![ride] = Row(t, "service", Now)]
  /\ carried' = carried \cup {e \in Entries(context.series) : UsesEntry(t, e)}

Record ==
  /\ pc = "record"
  /\ MarkNamed(title)
  /\ pc' = IF used THEN "advance" ELSE "put"
  /\ UNCHANGED <<doc, position, memory, ride, context, title, call, used,
                 sent, shown, lapsed, withheld, uncorrected, restarts>>

\* The row may have been written although the call failed.
RecordFails ==
  /\ pc = "record"
  /\ MarkNamed(title) \/ UNCHANGED <<log, carried>>
  /\ Idle
  /\ UNCHANGED <<doc, position, memory, sent, shown, lapsed, withheld, uncorrected,
                 restarts>>

\* AdvanceFranchisePast: never backwards.
AdvanceFranchisePast(name, index) ==
  [position EXCEPT ![name] = IF index + 1 > @ THEN index + 1 ELSE @]

RecordFranchise ==
  /\ pc = "advance"
  /\ position' = AdvanceFranchisePast(context.series.name, context.index)
  /\ withheld' = withheld \cup context.series.reserved
  /\ pc' = "put"
  /\ UNCHANGED <<doc, log, memory, ride, context, title, call, used, sent, shown,
                 lapsed, carried, uncorrected, restarts>>

\* Never fatal: the next ride may be offered the entry again.
RecordFranchiseFails ==
  /\ pc = "advance"
  /\ lapsed' = lapsed \cup {context.offer}
  /\ pc' = "put"
  /\ UNCHANGED <<store, memory, ride, context, title, call, used, sent, shown,
                 carried, withheld, uncorrected, restarts>>

\* Strava keeps another title where it reads a link in the one it is sent.
Stored(t) == IF t \in DOMAIN Rewritten THEN Rewritten[t] ELSE t
Rewrites(t) == Stored(t) # t

SendTitle ==
  /\ sent' = [sent EXCEPT ![ride] = title]
  /\ shown' = [shown EXCEPT ![ride] = context.series]

\* The PUT is answered with the title Strava kept.
Put ==
  /\ pc = "put"
  /\ SendTitle
  /\ IF Rewrites(title)
     THEN pc' = "keep" /\ UNCHANGED <<ride, context, title, call, used>>
     ELSE Idle
  /\ UNCHANGED <<store, memory, lapsed, carried, withheld, uncorrected, restarts>>

\* Its answer is lost: the ride stays queued, and is only reconciled.
PutUnanswered ==
  /\ pc = "put"
  /\ SendTitle
  /\ uncorrected' = IF Rewrites(title) THEN uncorrected \cup {ride} ELSE uncorrected
  /\ Idle
  /\ UNCHANGED <<store, memory, lapsed, carried, withheld, restarts>>

\* reconcileTitle: the row follows what Strava kept, whatever RECENT says of it.
KeepStoredTitle ==
  /\ pc = "keep"
  /\ log' = [log EXCEPT ![ride] = Row(Stored(title), "service", Now)]
  /\ Idle
  /\ UNCHANGED <<doc, position, memory, history, restarts>>

\* Never fatal: the row keeps what was sent.
KeepStoredTitleFails ==
  /\ pc = "keep"
  /\ uncorrected' = uncorrected \cup {ride}
  /\ Idle
  /\ UNCHANGED <<store, memory, sent, shown, lapsed, carried, withheld, restarts>>

PutFails ==
  /\ pc = "put"
  /\ Idle
  /\ UNCHANGED <<store, memory, history, restarts>>
-----------------------------------------------------------------------------
(* Other rows, the document, and the process.                              *)

\* A commute or an errand: the same title again, without a model.
NameFromTemplate(r) ==
  /\ pc = "idle" /\ log[r] = NoRow /\ r \in Template
  /\ log' = [log EXCEPT ![r] = Row(TemplateTitle, "template", Now)]
  /\ UNCHANGED <<doc, position, memory, naming, history, restarts>>

\* What Strava may hold in place of what the row says: a title the athlete typed,
\* or what it kept of the title it was sent, until the row is anything else.
OtherTitles(r) ==
  (HumanTitles \cup (IF log[r].source = "service" /\ sent[r] # NoTitle
                     THEN {Stored(sent[r])} ELSE {}))
    \ {log[r].title}

\* recordHumanTitle: the athlete was first.  recordRename: the title on Strava is
\* not the row's, so the athlete renamed it.  Both rows are dated by the ride.
RecordHumanTitle(r) ==
  /\ pc = "idle"
  /\ \E t \in OtherTitles(r) :
       log' = [log EXCEPT ![r] =
                 Row(t, IF @.source = "imported" THEN "imported" ELSE "human", r)]
  /\ UNCHANGED <<doc, position, memory, naming, history, restarts>>

\* importOne: a title the ride already carries, before the service saw it.  An
\* import is run while nothing else is naming; the module Importer has the rest.
Import(r) ==
  /\ pc = "idle" /\ log[r] = NoRow
  /\ \E t \in HumanTitles : log' = [log EXCEPT ![r] = Row(t, "imported", r)]
  /\ UNCHANGED <<doc, position, memory, naming, history, restarts>>

WriteDocument(document) ==
  /\ doc' = document
  /\ UNCHANGED <<log, position, memory, naming, history, restarts>>

\* reserveEntries: an entry of exactly one series.
Reserve(list, entry) ==
  [i \in DOMAIN list |->
     IF entry \in Entries(list[i])
     THEN [list[i] EXCEPT !.reserved = @ \cup {entry}] ELSE list[i]]

Reservable(list, entry) ==
  Cardinality({i \in DOMAIN list : entry \in Entries(list[i])}) = 1

\* SeedConfig: the shipped profile becomes the first document.
SeedConfig ==
  /\ doc = NoDocument
  /\ \E entry \in Reservations :
       /\ Reservable(DefaultProfile, entry)
       /\ WriteDocument(Reserve(DefaultProfile, entry))

\* From then on the athlete edits it in place.
EditConfig ==
  /\ doc # NoDocument
  /\ \E document \in Documents \ {doc} : WriteDocument(document)

Restart ==
  /\ restarts > 0 /\ restarts' = restarts - 1
  /\ profile' = NotRead /\ gear' = {}
  /\ examples' = [r \in Ride |-> NoTitle]
  /\ uncorrected' = IF pc = "keep" THEN uncorrected \cup {ride} ELSE uncorrected
  /\ Idle
  /\ UNCHANGED <<store, sent, shown, lapsed, carried, withheld>>

Next ==
  \/ \E r \in Ride : Gather(r) \/ NameFromTemplate(r) \/ RecordHumanTitle(r) \/ Import(r)
  \/ Offer \/ Answered \/ Unanswered
  \/ Record \/ RecordFails \/ RecordFranchise \/ RecordFranchiseFails
  \/ Put \/ PutUnanswered \/ PutFails \/ KeepStoredTitle \/ KeepStoredTitleFails
  \/ SeedConfig \/ EditConfig \/ Restart

Spec == Init /\ [][Next]_vars
-----------------------------------------------------------------------------
(* Properties.                                                             *)

Titles ==
  ModelTitles \cup HumanTitles \cup Range(Rewritten) \cup {TemplateTitle, NoTitle}

AllSeries == UNION {Range(list) : list \in (Lists \cup {doc}) \ {NoDocument}}

\* Types; a title said to have used the entry on offer does use it.
TypeOK ==
  /\ DOMAIN log = Ride
  /\ \A r \in Ride :
       /\ log[r].title \in Titles
       /\ log[r].source \in {"none", "service", "template", "human", "imported"}
  /\ position \in [SeriesNames -> Nat]
  /\ pc \in {"idle", "offer", "ask", "record", "advance", "put", "keep"}
  /\ ride \in Ride \cup {0} /\ (pc # "idle" => ride \in Ride)
  /\ pc = "idle" => ride = 0
  /\ DOMAIN context = DOMAIN NoContext
  /\ context.series.name \in SeriesNames => context.index \in Nat
  /\ pc = "offer" => context.index = 0
  /\ title \in Titles /\ call \in 0..3 /\ used \in BOOLEAN
  /\ pc = "ask" => call > 0
  /\ pc \in {"idle", "offer", "ask"} => ~used
  /\ used => UsesEntry(title, context.offer)
  /\ sent \in [Ride -> Titles] /\ examples \in [Ride -> Titles]
  /\ uncorrected \subseteq Ride
  /\ restarts \in 0..MaxRestarts

\* Entries that cannot be told apart: a title carrying the one is a title
\* carrying the other.
Nested(series, e) ==
  \E f \in Entries(series) \ {e} : Claims(series, f, e)

\* An entry is spent on one ride (Guard, complete, AdvanceFranchisePast): of
\* the titles the service sent under the guard of a series at most one claims
\* an entry of it, offered or not, unless the advance failed.
EntrySentOnce ==
  \A r, s \in Ride :
    r < s => \A e \in Entries(shown[r]) \cap Entries(shown[s]) :
      Claims(shown[r], sent[r], e) /\ Claims(shown[s], sent[s], e)
        => Nested(shown[r], e) \/ Nested(shown[s], e) \/ e \in lapsed

\* The position moves on evidence only: whatever it has passed was reserved in
\* the series it was passed in, or is used by a title the log was given
\* (recordFranchise, franchiseNext).
NothingSkipped ==
  \A s \in AllSeries : \A i \in 1..position[s.name] :
    i <= Len(s.titles) => s.titles[i] \in carried \cup withheld

\* An entry on offer can be used: the rules taken together leave the model a
\* title that carries it.  Were there none, the prompt would ask for what is
\* refused, and the ride would fail on every sweep (Guard's comment).
OfferCanBeUsed ==
  pc = "ask" /\ context.offer # NoTitle =>
    \E t \in Answers(1) : UsesEntry(t, context.offer)

\* What an offer asks of the model: for each entry the rotation may come to, and
\* whatever few titles are recent and taught, a title that carries the entry, is
\* not one of them, breaks no rule that reads the title alone, and claims no entry
\* of the series but those that the entry itself would claim.
Few(titles, n) == IsFiniteSet(titles) /\ Cardinality(titles) <= n

TeachableTitles == HumanTitles \cup Range(Rewritten)

Taught(titles) ==
  titles = SyntheticTitles \/ (titles \subseteq TeachableTitles /\ Few(titles, ExampleCount))

CanCarry(r, series, entry, forbidden) ==
  \E t \in ModelTitles \ forbidden :
    /\ UsesEntry(t, entry) /\ Usable(t)
    /\ ~CopiesAchievement(t, Efforts[r]) /\ ~UnstatedFigure(r, t, entry)
    /\ \A e \in Entries(series) : Claims(series, t, e) => Claims(series, entry, e)

ModelAdapts ==
  \A list \in Lists : \A i \in DOMAIN list :
    \A entry \in Entries(list[i]) \ list[i].reserved : Offerable(entry) =>
      \A recent \in {titles \in SUBSET Titles : Few(titles, RecentLimit)},
         taught \in {titles \in (SUBSET TeachableTitles) \cup {SyntheticTitles} : Taught(titles)},
         r \in Ride \ Template :
           CanCarry(r, list[i], entry, ForbiddenTitles(recent, taught))

\* RECENT binds: no title the service gives a ride repeats, as stored or as the
\* prompt showed it, one of the newest rows that is worth not repeating, among them
\* what Strava kept of earlier titles.  What Strava makes of this one is held to
\* nothing: the row only follows it (reconcileTitle).
NeverRepeats ==
  [][\A r \in Ride :
       log[r] = NoRow /\ log'[r].source = "service" =>
         \A s \in WorthNotRepeating(RecentTitles) :
           log'[r].title \notin {log[s].title, OneLine(log[s].title)}]_vars

\* A title of the ride's that passes for the athlete's: one they typed, or what
\* Strava kept of the service's where the row was never corrected to it.
IsTheAthletes(r, t) ==
  \/ t \in HumanTitles
  \/ r \in uncorrected /\ Rewrites(sent[r]) /\ t = Stored(sent[r])

\* The style loop stays open (teachesStyle): whatever was taught as an example is
\* the athlete's title of a ride whose row is still theirs: no title of the
\* service's, no template and nothing imported, whatever Strava made of them, but
\* for a rewrite whose correction failed or was never made.  README.md:264 and the
\* comment at store.go:283 would have the service's own titles teach as well; the
\* code does not.
ExamplesAreTheAthletes ==
  \A r \in Ride :
    examples[r] # NoTitle => IsTheAthletes(r, examples[r]) /\ log[r].source = "human"

\* A row of the athlete's holds what the athlete typed, with the same exception.
RowsSayWho ==
  \A r \in Ride :
    /\ log[r].source = "human" => IsTheAthletes(r, log[r].title)
    /\ log[r].source = "imported" => log[r].title \in HumanTitles

\* What was sent was recorded first, and the row of a title Strava rewrote says so,
\* unless it could not be corrected or is about to be.
RowsFollowStrava ==
  /\ \A r \in Ride : sent[r] # NoTitle => log[r] # NoRow
  /\ pc \in {"advance", "put", "keep"} =>
       log[ride].source = "service" /\ log[ride].title = title
  /\ pc = "keep" => sent[ride] = title /\ Rewrites(title)
  /\ \A r \in Ride : log[r].source = "service" /\ sent[r] # NoTitle =>
       \/ log[r].title = Stored(sent[r])
       \/ log[r].title = sent[r] /\ (r \in uncorrected \/ (pc = "keep" /\ ride = r))

\* Nothing is recorded between the reading of RECENT and the answer.
RecentIsCurrent ==
  pc \in {"offer", "ask", "record"} =>
    /\ log[ride] = NoRow
    /\ context.recent = {log[r].title : r \in WorthNotRepeating(RecentTitles)}

\* Each of the attempts refuses a repeat, and so does what is kept of one.
TitleIsNoRepeat ==
  pc = "record" \/ (pc = "ask" /\ call > 1) => title \in ModelTitles \ Forbidden

\* What README.md:641 says leaves a position what it is: entries are appended.
\* An index names one entry in every list, and an entry has one place.
EntriesKeepTheirPlace ==
  \A l, m \in Lists : \A i \in DOMAIN l, j \in DOMAIN m :
    \A n \in DOMAIN l[i].titles, k \in DOMAIN m[j].titles :
      l[i].titles[n] = m[j].titles[k] <=> l[i].name = m[j].name /\ n = k

\* A series of one of the lists, of which more may be reserved by now.
Listed(s) ==
  \E list \in Lists : \E i \in DOMAIN list :
    /\ s.name = list[i].name /\ s.gear = list[i].gear /\ s.titles = list[i].titles
    /\ list[i].reserved \subseteq s.reserved

SeriesAreListed ==
  /\ doc # NoDocument => \A i \in DOMAIN doc : Listed(doc[i])
  /\ profile # NotRead => \A i \in DOMAIN profile : Listed(profile[i])
  /\ context.series = NoSeries \/ Listed(context.series)
  /\ DOMAIN shown = Ride /\ \A r \in Ride : shown[r] = NoSeries \/ Listed(shown[r])

\* The entry on offer is the next but for reserved ones, until it is recorded.
OfferIsNext ==
  /\ pc = "offer" => context.offer = NoTitle
  /\ context.offer # NoTitle =>
       /\ context.series # NoSeries
       /\ context.index + 1 \in DOMAIN context.series.titles
       /\ context.offer = context.series.titles[context.index + 1]
       /\ pc \notin {"put", "keep"} => position[context.series.name] <= context.index
       /\ \A i \in (position[context.series.name] + 1)..context.index :
            IsReserved(context.series, context.series.titles[i])

\* What the guard leaves for a title to claim.
TitleClaimsTheOffer ==
  pc \in {"record", "advance", "put"} \/ (pc = "ask" /\ call > 1) =>
    \A e \in Entries(context.series) :
      Claims(context.series, title, e) =>
        Nested(context.series, e) \/ (used /\ e = context.offer)

\* An entry a ride was sent with is one the position has passed.
Spent(s, e) ==
  e \in lapsed \/ \E i \in DOMAIN s.titles : s.titles[i] = e /\ i <= position[s.name]

SentIsSpent ==
  \A r \in Ride : \A e \in Entries(shown[r]) :
    Claims(shown[r], sent[r], e) => Nested(shown[r], e) \/ Spent(shown[r], e)

\* A title that uses the entry on offer is recorded before the position moves,
\* and sent after; no other was sent with it.
UseIsRecorded ==
  /\ used => context.offer # NoTitle
  /\ pc = "advance" => used /\ context.offer \in carried
  /\ pc = "put" /\ used =>
       /\ Spent(context.series, context.offer)
       /\ \A r \in Ride :
            context.offer \in Entries(shown[r])
              /\ Claims(shown[r], sent[r], context.offer)
            => Nested(shown[r], context.offer) \/ context.offer \in lapsed

\* Rows are told apart by their dates: a ride's own, or the service's clock, which
\* is later than any of them.
DatesDiffer ==
  \A r \in Recorded :
    /\ log[r].at \in Nat
    /\ log[r].at \in Ride => log[r].at = r
    /\ \A s \in Recorded : log[s].at = log[r].at => s = r

\* A ride that is asked about is none for a template, is shown few examples, and is
\* offered an entry of its series that is a title and is not reserved.
OfferIsFit ==
  /\ pc \in {"offer", "ask"} => ride \notin Template /\ Taught(context.taught)
  /\ pc \in {"offer", "ask"} /\ context.offer # NoTitle =>
       /\ pc = "ask" /\ context.series # NoSeries /\ Offerable(context.offer)
       /\ context.offer \in Entries(context.series) \ context.series.reserved

EntriesAreSpent ==
  /\ SeriesAreListed
  /\ OfferIsNext
  /\ TitleClaimsTheOffer
  /\ UseIsRecorded
  /\ SentIsSpent

\* What the titles in hand have to do with the log of the moment.
LogInv ==
  /\ TypeOK
  /\ RecentIsCurrent
  /\ TitleIsNoRepeat

\* Whose the titles are that the log and the examples hold.
TitlesAreOwned ==
  /\ RowsSayWho
  /\ RowsFollowStrava
  /\ ExamplesAreTheAthletes

\* The inductive invariant (promptContext, complete, example, franchiseNext): that
\* and, if the documents only ever grow, what the position says of the entries
\* sent.
IInv ==
  /\ LogInv
  /\ TitlesAreOwned
  /\ SeriesAreListed /\ DatesDiffer /\ OfferIsFit
  /\ EntriesKeepTheirPlace => EntriesAreSpent

\* A document that could not be read is read again for the next ride, and one
\* that could be read is not, however it is edited, until the process restarts
\* (franchises): the profile never changes to what the document does not say.
ProfileWasRead ==
  [][profile' # profile =>
       profile' = IF profile = NotRead THEN Franchises(doc) ELSE NotRead]_vars

\* What README.md:241 says of RECENT (history, worthNotRepeating): it is the
\* newest rows worth not repeating, and templates do not crowd them out.
NewestWorthNotRepeating ==
  LET worth == WorthNotRepeating(Recorded)
  IN  {r \in worth : Cardinality(worth \cap Newer(r)) < RecentLimit}

RecentIsNotCrowded ==
  [][pc = "idle" /\ pc' = "offer" =>
       context'.recent = {log[s].title : s \in NewestWorthNotRepeating}]_vars
=============================================================================
