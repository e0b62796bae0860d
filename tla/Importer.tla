------------------------------ MODULE Importer ------------------------------
(***************************************************************************)
(* The history import, internal/importer and internal/app/import.go: a     *)
(* run lists the athlete's activities page by page, newest first, and      *)
(* gives the rides titled by the athlete a row under source imported.      *)
(* Beside it the athlete goes on editing, and the service may sweep,       *)
(* although the import asks that nothing else be naming meanwhile.         *)
(*                                                                         *)
(* Activities are numbered in the order they were started.                 *)
(***************************************************************************)
EXTENDS Integers, SequencesExt, FiniteSets

CONSTANTS
  Activity,        \* the activities
  Old,             \* those on Strava from the start
  RideActivity,    \* those of a sport type worth importing
  DefaultTitles,   \* Strava's defaults and machine titles, which get replaced
  TemplateTitles,  \* the service's commute and errand titles
  ModelTitles,     \* what the service names a ride
  PersonTitles,    \* what the athlete types
  PerPage,         \* Deps.PerPage
  MaxRuns,         \* bound: imports started
  MaxEdits,        \* bound: uploads, renames and deletions
  MaxFaults        \* bound: calls that fail

NoTitle == ""    \* not uploaded yet
Deleted == "404"

ASSUME ImporterAssumption ==
  /\ Activity \subseteq Nat \ {0} /\ IsFiniteSet(Activity)
  /\ Old \subseteq Activity /\ RideActivity \subseteq Activity
  /\ {NoTitle, Deleted} \cap
       (DefaultTitles \cup TemplateTitles \cup ModelTitles \cup PersonTitles) = {}
  /\ PerPage \in Nat \ {0}
  /\ MaxRuns \in Nat /\ MaxEdits \in Nat /\ MaxFaults \in Nat

VARIABLES
  strava,   \* the title of each activity, NoTitle or Deleted
  log,      \* store: the named log
  pc,       \* where the import is
  page,     \* the page it has come to
  items,    \* what is left of it
  short,    \* the page was a short one
  sweep,    \* what a sweep of the service is about to record and send
  due,      \* history: rides the run in progress has to bring into the log
  overtaken,\* history: rides the service named between the run's lookup and its row
  budget    \* bounds left

vars == <<strava, log, pc, page, items, short, sweep, due, overtaken, budget>>

walk == <<page, items, short>>

NoRow == [title |-> NoTitle, source |-> "none", at |-> 0]
NoSweep == [pc |-> "idle", id |-> 0, title |-> NoTitle, source |-> "none"]

Spend(kind) ==
  /\ budget[kind] > 0
  /\ budget' = [budget EXCEPT ![kind] = @ - 1]

Init ==
  /\ strava \in [Activity -> DefaultTitles \cup TemplateTitles \cup PersonTitles \cup {NoTitle}]
  /\ \A a \in Activity :
       /\ strava[a] # NoTitle <=> a \in Old
       /\ a \in Old \ RideActivity => strava[a] \in PersonTitles
  /\ log = [a \in Activity |-> NoRow]
  /\ pc = "idle" /\ page = 0 /\ items = <<>> /\ short = FALSE
  /\ sweep = NoSweep
  /\ due = {} /\ overtaken = {}
  /\ budget = [runs |-> MaxRuns, edits |-> MaxEdits, faults |-> MaxFaults]

OnStrava == {a \in Activity : strava[a] \notin {NoTitle, Deleted}}
-----------------------------------------------------------------------------
(* importer.Run.                                                           *)

\* notTheAthletesStyle: titles the service would not have learned from.
NotTheAthletesStyle(title) == title \in DefaultTitles \cup TemplateTitles

Worthwhile(item) == item.id \in RideActivity /\ ~NotTheAthletesStyle(item.title)

\* ListActivities: one page of what Strava holds at this moment, newest first.
Newer(a) == Cardinality({b \in OnStrava : b > a})
OnPage(n) == {a \in OnStrava : Newer(a) \in (n - 1) * PerPage .. n * PerPage - 1}

Listing(ids) == [i \in DOMAIN ids |-> [id |-> ids[i], title |-> strava[ids[i]]]]

Page(n) ==
  {Listing(ids) : ids \in {f \in [1..Cardinality(OnPage(n)) -> OnPage(n)] :
                             \A i, j \in DOMAIN f : i < j => f[i] > f[j]}}

\* A run remembers nothing of the one before it.
Start ==
  /\ pc \in {"idle", "done", "failed"} /\ Spend("runs")
  /\ pc' = "list" /\ page' = 1 /\ items' = <<>> /\ short' = FALSE
  /\ due' = {a \in OnStrava : Worthwhile([id |-> a, title |-> strava[a]])}
  /\ UNCHANGED <<strava, log, sweep, overtaken>>

\* Mutant: a full page counts as the last.
ShortOrFull(activities) == Len(activities) <= PerPage

IsShort(activities) == Len(activities) < PerPage

ListPage ==
  /\ pc = "list"
  /\ items' \in Page(page)
  /\ short' = IsShort(items')
  /\ pc' = IF items' = <<>> THEN "done" ELSE "walk"
  /\ UNCHANGED <<strava, log, page, sweep, due, overtaken, budget>>

\* Mutant: the same page again.
SamePage == page

NextPage == page + 1

EndPage ==
  /\ pc = "walk" /\ items = <<>>
  /\ IF short THEN pc' = "done" /\ UNCHANGED page
     ELSE pc' = "list" /\ page' = NextPage
  /\ UNCHANGED <<strava, log, items, short, sweep, due, overtaken, budget>>

\* importOne, when the sport type or the title decides.
SkipOne ==
  /\ pc = "walk" /\ items # <<>> /\ ~Worthwhile(Head(items))
  /\ items' = Tail(items)
  /\ UNCHANGED <<strava, log, pc, page, short, sweep, due, overtaken, budget>>

Known(id) == log[id] # NoRow

\* importOne up to what the log says of the activity.
LookUp ==
  /\ pc = "walk" /\ items # <<>> /\ Worthwhile(Head(items))
  /\ IF Known(Head(items).id) THEN items' = Tail(items) /\ UNCHANGED pc
     ELSE pc' = "mark" /\ UNCHANGED items
  /\ UNCHANGED <<strava, log, page, short, sweep, due, overtaken, budget>>

Today == 1 + Max(Activity)

\* Mutant: dated by the import.
DatedToday(item) == [title |-> item.title, source |-> "imported", at |-> Today]

\* Dated by the ride; the title is the one listed, however old by now.
ImportedRow(item) == [title |-> item.title, source |-> "imported", at |-> item.id]

MarkNamed == log' = [log EXCEPT ![Head(items).id] = ImportedRow(Head(items))]

MarkOne ==
  /\ pc = "mark"
  /\ MarkNamed
  /\ items' = Tail(items) /\ pc' = "walk"
  /\ UNCHANGED <<strava, page, short, sweep, due, overtaken, budget>>

\* Any error ends the run, as the operator may; a write may have got through.
Fail ==
  /\ pc \in {"list", "walk", "mark"} /\ Spend("faults")
  /\ UNCHANGED log \/ (pc = "mark" /\ MarkNamed)
  /\ pc' = "failed" /\ items' = <<>>
  /\ UNCHANGED <<strava, page, short, sweep, due, overtaken>>
-----------------------------------------------------------------------------
(* The service, as far as rows and titles go: processOne, write.           *)

\* A ride without a row: a default is replaced, a title the athlete typed is
\* recorded, the service's own are left.
NameOne(a) ==
  /\ log[a] = NoRow
  /\ \/ /\ strava[a] \in DefaultTitles
        /\ \E t \in ModelTitles :
             sweep' = [pc |-> "record", id |-> a, title |-> t, source |-> "service"]
     \/ /\ strava[a] \in PersonTitles
        /\ sweep' = [pc |-> "record", id |-> a, title |-> strava[a], source |-> "human"]

\* reconcileOne, of a ride with one: a title that differs from the row's and is none
\* of those that get replaced is a rename, and an imported row stays imported.
ReconcileOne(a) ==
  /\ log[a] # NoRow
  /\ strava[a] # log[a].title /\ ~NotTheAthletesStyle(strava[a])
  /\ sweep' = [pc |-> "record", id |-> a, title |-> strava[a],
                source |-> IF log[a].source = "imported" THEN "imported" ELSE "human"]

SweepReads(a) ==
  /\ sweep = NoSweep /\ a \in OnStrava \cap RideActivity
  /\ NameOne(a) \/ ReconcileOne(a)
  /\ UNCHANGED <<strava, log, pc, walk, due, overtaken, budget>>

\* The run has found no row, and is about to write one over the service's.
Overtakes ==
  IF sweep.source = "service" /\ pc = "mark" /\ Head(items).id = sweep.id
  THEN overtaken \cup {sweep.id} ELSE overtaken

\* A rename is dated by the ride, like any title of the athlete's.
SweptRow ==
  [title |-> sweep.title, source |-> sweep.source,
   at |-> IF sweep.source = "service" THEN Today ELSE sweep.id]

\* Mutant: the row is written after the title is sent.
RecordAfterPut ==
  /\ sweep.pc = "record"
  /\ IF sweep.source = "service" /\ strava[sweep.id] # sweep.title
     THEN /\ strava' = [strava EXCEPT ![sweep.id] = sweep.title]
          /\ UNCHANGED <<log, sweep, overtaken>>
     ELSE /\ log' = [log EXCEPT ![sweep.id] = SweptRow]
          /\ sweep' = NoSweep
          /\ overtaken' = Overtakes
          /\ UNCHANGED strava
  /\ UNCHANGED <<pc, walk, due, budget>>

SweepRecords ==
  /\ sweep.pc = "record"
  /\ log' = [log EXCEPT ![sweep.id] = SweptRow]
  /\ sweep' = IF sweep.source = "service" THEN [sweep EXCEPT !.pc = "put"] ELSE NoSweep
  /\ overtaken' = Overtakes
  /\ UNCHANGED <<strava, pc, walk, due, budget>>

\* The title arrives, or does not.
SweepPuts ==
  /\ sweep.pc = "put"
  /\ sweep' = NoSweep
  /\ \/ /\ sweep.id \in OnStrava
        /\ strava' = [strava EXCEPT ![sweep.id] = sweep.title]
     \/ UNCHANGED strava
  /\ UNCHANGED <<log, pc, walk, due, overtaken, budget>>
-----------------------------------------------------------------------------
(* The athlete.                                                            *)

\* The run has yet to come to it on the page it has read.
IsListed(a) == \E i \in DOMAIN items : items[i].id = a /\ Worthwhile(items[i])

Upload(a) ==
  /\ strava[a] = NoTitle /\ Spend("edits")
  /\ \E t \in DefaultTitles \cup PersonTitles : strava' = [strava EXCEPT ![a] = t]
  /\ UNCHANGED <<log, pc, walk, sweep, due, overtaken>>

\* A ride that is no longer the athlete's to title is no longer due.
Rename(a) ==
  /\ a \in OnStrava /\ Spend("edits")
  /\ \E t \in (DefaultTitles \cup PersonTitles) \ {strava[a]} :
       /\ strava' = [strava EXCEPT ![a] = t]
       /\ due' = IF NotTheAthletesStyle(t) THEN due \ {a} ELSE due
  /\ UNCHANGED <<log, pc, walk, sweep, overtaken>>

\* A deletion moves every older activity up, possibly to a page the run has
\* read: what it has not come to is due in the next run.
Delete(a) ==
  /\ a \in OnStrava /\ Spend("edits")
  /\ strava' = [strava EXCEPT ![a] = Deleted]
  /\ due' = {b \in due : Known(b) \/ IsListed(b)}
  /\ UNCHANGED <<log, pc, walk, sweep, overtaken>>
-----------------------------------------------------------------------------
Run == ListPage \/ EndPage \/ SkipOne \/ LookUp \/ MarkOne
Service == (\E a \in Activity : SweepReads(a)) \/ SweepRecords \/ SweepPuts
Athlete == \E a \in Activity : Upload(a) \/ Rename(a) \/ Delete(a)

Next == Start \/ Run \/ Fail \/ Service \/ Athlete

Spec == Init /\ [][Next]_vars

\* Requests are answered or time out.
FairSpec == Spec /\ WF_vars(Run)
-----------------------------------------------------------------------------
(* Properties.                                                             *)

Title == DefaultTitles \cup TemplateTitles \cup ModelTitles \cup PersonTitles
Source == {"none", "service", "human", "imported"}
Item == [id : Activity, title : Title]
Row == [title : Title \cup {NoTitle}, source : Source, at : Activity \cup {0, Today}]
Sweep == [pc : {"idle", "record", "put"}, id : Activity \cup {0},
          title : Title \cup {NoTitle}, source : Source]

\* Types; and what is not the service's naming is dated by the ride, so that
\* a run of the import does not reorder the recent titles (importOne).
TypeOK ==
  /\ strava \in [Activity -> Title \cup {NoTitle, Deleted}]
  /\ log \in [Activity -> Row]
  /\ \A a \in Activity : log[a].source \in {"human", "imported"} => log[a].at = a
  /\ pc \in {"idle", "list", "walk", "mark", "done", "failed"}
  /\ page \in Nat /\ short \in BOOLEAN
  /\ items \in Seq(Item) /\ Len(items) <= PerPage
  /\ pc \in {"list", "walk", "mark"} => page > 0
  /\ pc = "list" => items = <<>> /\ ~short
  /\ pc = "mark" => items # <<>>
  /\ sweep \in Sweep
  /\ due \subseteq Activity /\ overtaken \subseteq Activity
  /\ budget \in [{"runs", "edits", "faults"} -> Nat]

\* "A title this service wrote must not be relabelled as imported" (importOne):
\* however sweeps, renames, failed runs and reruns interleave, what a row says
\* was imported is a title the athlete typed, and for a ride, unless the service
\* named the ride between the run's lookup and its row, which is why an import is
\* run "only while nothing else is naming" (app/import.go:23): then the stale title
\* is marked, and reconciling it keeps the source and takes the service's title.
ImportedTitlesAreTheAthletes ==
  \A a \in Activity :
    log[a].source = "imported" =>
      a \in RideActivity /\ (log[a].title \in PersonTitles \/ a \in overtaken)

\* A run that says it is complete is: every ride that carried a title of the
\* athlete's from its start on has a row, although pages move under it while
\* rides are uploaded and deleted, and whatever a run before it left undone
\* (Run, "idempotent and resumable with no state of its own").
ImportIsComplete == pc = "done" => \A a \in due : Known(a)

\* A title of the service's stands on Strava, and in a listing, only after the
\* row it belongs to.
OthersTitles == DefaultTitles \cup TemplateTitles \cup PersonTitles

NamedBeforeSent ==
  /\ \A a \in OnStrava : strava[a] \in OthersTitles \/ Known(a)
  /\ \A i \in DOMAIN items : items[i].title \in OthersTitles \/ Known(items[i].id)

SweepKnowsItsRow ==
  /\ sweep.pc # "idle" => /\ sweep.id \in RideActivity
                          /\ sweep.source \in {"service", "human", "imported"}
  /\ sweep.pc # "idle" /\ sweep.source = "service" => sweep.title \in ModelTitles
  /\ sweep.pc = "put" => sweep.source = "service" /\ Known(sweep.id)

\* A rename of an imported row finds it imported, and carries a title of the
\* athlete's.
RenameIsTheAthletes ==
  sweep.pc = "record" /\ sweep.source = "imported" =>
    /\ log[sweep.id].source = "imported"
    /\ sweep.title \in PersonTitles \/ sweep.id \in overtaken

\* What is imported, or about to be, carries no title of the service's on Strava, and
\* none is on its way.
IsImported(a) == log[a].source = "imported" \/ (pc = "mark" /\ Head(items).id = a)

ImportedIsNotNamed ==
  \A a \in Activity \ overtaken : IsImported(a) =>
    /\ a \in OnStrava => strava[a] \in OthersTitles
    /\ ~(sweep.pc = "put" /\ sweep.id = a)

MarkedIsTheAthletes ==
  pc = "mark" => Worthwhile(Head(items)) /\ Head(items).title \in PersonTitles

\* On a page the run has not read.
Ahead(a) ==
  /\ a \in OnStrava /\ Worthwhile([id |-> a, title |-> strava[a]])
  /\ ~short /\ Newer(a) >= (IF pc = "list" THEN page - 1 ELSE page) * PerPage

DueIsToCome ==
  pc \in {"list", "walk", "mark"} => \A a \in due : Known(a) \/ IsListed(a) \/ Ahead(a)

\* Where a ride still without a row is to be met, and what the walk is about to write.
WalkInv ==
  /\ TypeOK
  /\ NamedBeforeSent
  /\ SweepKnowsItsRow
  /\ MarkedIsTheAthletes
  /\ DueIsToCome
  /\ ImportIsComplete

\* Whose the titles of imported rows are, now and after the next rename.
TitlesAreOwned ==
  /\ ImportedIsNotNamed
  /\ RenameIsTheAthletes
  /\ ImportedTitlesAreTheAthletes

\* The inductive invariant (importOne, Run, reconcileOne).
IInv == WalkInv /\ TitlesAreOwned

\* A run ends (Run): it comes to a page that is short or empty, or fails.
RunEnds == pc = "list" ~> pc \in {"done", "failed"}
=============================================================================
