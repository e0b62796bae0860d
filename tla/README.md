# titelheld in TLA+

titelheld renames Strava activities. A webhook tells it that something happened
to an activity, the activity waits in a queue, a scheduled sweep classifies it,
makes a title from a template or with a language model, records the title and
sends it. From then on it watches for the athlete's own renames. This directory
models that pipeline, how a title is chosen, the geography it may speak of, the
import of older titles, and the tokens all of it depends on; checks them with TLC
on small instances; and proves the safety results, and some of the liveness ones under
stated conditions, with TLAPS for every value of the constants.

Paths below are relative to `src/internal/` unless they start with `src/`.

## 1. The system

| Part | State it keeps | Operations | Talks to |
| --- | --- | --- | --- |
| webhook intake (`webhook/`) | none; detached goroutines | acknowledge an event, look the activity up in the named log, enqueue it | store, called by Strava |
| sweep handler (`sweep/`) | a mutex | authenticate, start one sweep, answer | processor, called by the scheduler |
| processor (`processor/`) | caches for examples and franchises | take due entries, name or reconcile each, dequeue | store, Strava client, classifier, naming, geo |
| classifier (`classifier/`) | none | tier, title gate, provisional skip, commute direction | processor |
| store (`store/`, `store/firestore/`) | queue, named log, franchise position, places, tokens, athlete configuration | one atomic document operation each | everyone |
| Strava client (`strava/`) | rate limit as last seen | GET and PUT with retries | Strava |
| Strava tokens (`strava/tokensource.go`, `oauth.go`) | token cache under a mutex | refresh, rotate, save | store, Strava |
| OAuth binding (`server/`, `app/tokens.go`) | pending OAuth states | start, callback, bind the one athlete | store, Strava |
| importer (`importer/`, `app/import.go`) | none | record old titles in the named log | store, Strava |
| configuration and seeding (`config/`, `app/`) | none | validate, wire, reserve franchise entries in use | store |
| naming (`naming/`) | none | prompt, ask, validate, repeats, franchise guard, attribution | processor, providers |
| model providers (`naming/anthropic*.go`, `openrouter.go`, `vertex.go`) | a cached access token under a mutex (the keyless provider) | exchange an identity for a token, one request each | the model's API, the metadata server |
| geocoding (`geo/`) | a rate limiter | describe a route, cached | Nominatim, store |
| log sanitizing (`logsafe/`), commands (`src/cmd/`), infrastructure (`src/infra/`) | none | | |

One athlete is served, and the documentation asks for one instance. Inside that
instance the webhook's goroutines run beside the sweep, and both share the
store. Outside it, the athlete, ActivityFix and other tools change the same
activities at any time, and some of what they do (the commute flag, the
description) raises no event.

What is hard about it:

- every decision is taken on a copy of the activity that may be minutes old,
  and Strava's API has no conditional write;
- a PUT may take effect and lose its answer, so a retry must not name twice;
- a crash may come between any two calls, the store survives, memory does not;
- the 200 to the webhook goes out before anything is stored;
- an event may find the entry of its activity still queued, and collapses into
  it, at a moment when the sweep is about to remove it;
- dry run keeps work queued that a later deployment must still do;
- a title is the outcome of up to three model calls that offer and guard
  different things, and four rules about it (franchise guard, motif, repeats,
  figures) may leave the model nothing to answer;
- what feeds a prompt is cached at three levels with three lifetimes, and the log
  below it is rewritten by sweeps, the athlete and an import;
- a limiter and a token cache hold a lock across a sleep or a network call, whose
  holder may be cancelled;
- the import walks a listing that moves under it, beside everything else;
- the queue must drain although some entries are left in it on purpose.

What makes each part correct:

- *intake*: redelivered and reordered events lead to the same state; one entry
  per activity; a lost event is the only way to miss a rename;
- *processor*: an activity is named at most once; the log is written before
  Strava; no title the service read as a person's is replaced; an entry goes
  only when nothing is owed; every entry goes in the end;
- *reconciling*: the row follows the athlete, the attribution line follows the
  row, nothing but a person's title becomes a `human` row;
- *classifier*: a title given is final; a provisional skip is exactly the wait
  for a commute flag;
- *store*: create-if-absent, removal by key, a position that only advances;
- *tokens and binding*: a token in use is a token stored; the first athlete
  bound stays bound;
- *naming*: an entry of a series goes to one ride and is passed over only on
  evidence; RECENT binds; only the athlete's titles teach; an offer can be used;
- *geocoding*: what is asked about lies on the ride and away from its ends, the
  summary is what the current query shape answers, requests are an interval
  apart, every call returns;
- *keyless provider*: a rejected token is forgotten by all, a good one kept, the
  cache never outlives the token, the lock is always released;
- *importer*: a title the service wrote is not relabelled as imported, and a run
  that says it is complete is.

## 2. The modules

| Module | Stands for | Notes |
| --- | --- | --- |
| `Classifier` | `classifier/`, `errandTitle` | Pure operators. A title is a member of the vocabularies that recognize it |
| `Store` | `store/memory.go`, `store/firestore/firestore.go` | The atomic operations as operators on the queue, the log and the position |
| `Titelheld` | `webhook/`, `sweep/`, `processor/`, the retry of `strava/client.go` | The pipeline and its environment, composed with the two modules above |
| `LastWriter` | what the service promises about titles | Abstract; `Titelheld` implements it |
| `FirstBound` | what the service promises about whom it serves | Abstract; `Tokens` implements it |
| `Tokens` | `strava/tokensource.go`, `strava/oauth.go`, the flow in `server/`, `app/tokens.go`, the start of `app/import.go` | One document, and the service, its callbacks and an import around it |
| `Naming` | `processor/title.go`, `processor/context.go`, the rules in `naming/`, `app/seed.go` | The attempts, their guards, the log and caches they draw on |
| `Polyline` | `geo/polyline.go` | Pure operators |
| `Geo` | `geo/geo.go`, `geo/nominatim.go` | Sampling as operators; the cache, the limiter and its callers as a state machine over `Polyline` |
| `Wif` | `naming/anthropic_wif.go`, `app/identity.go` | The cached access token and the completions that share it |
| `Importer` | `importer/`, the listing in `strava/activities.go`, `app/import.go` | The walk, beside a sweep and the athlete |
| `MCTitelheld`, `MCClassifier`, `MCNaming`, `MCGeo` | | Small instances |
| `TitelheldProofs`, `TokensProofs`, `NamingProofs`, `GeoProofs`, `WifProofs`, `ImporterProofs`, `ClassifierProofs` | | Theorems |
| `TitelheldLemmas` | | What each step of `Titelheld` changes and keeps; `TitelheldProofs` builds on it |

The modules meet where the code's parts do, and each has the others as what it
can tell of them. `Titelheld` takes any title of the model's, with or without the
entry on offer; `Naming` is what chooses it, and has the log as rows with a title,
a source and a date. `Titelheld` sees a token only as a call that succeeds or
fails (`CallFails`, `PutTitleFails`); so does `Naming` a completion (`Unanswered`).
`Importer` has the sweep as the three steps that read, record and send, and the
token it uses is `StartImport` of `Tokens`.

### State and actions of `Titelheld`

`strava` is what Strava holds for each activity: whether it exists, its title,
its commute flag, whether its description has the attribution line, and how
many notes other tools wrote into it. `events` are webhook events not yet
acknowledged, `intake` those a detached goroutine is working on. `queue`, `log`
and `position` are the store. `pc`, `batch`, `cur`, `copy`, `row`, `draft` and
`tries` are the local variables of the one running sweep: the due entries not
come to yet, the entry in hand, the activity and the row as read for it, the
title on its way, and the retries of `Client.do`. `writes` is the write mode the
process started with. `sent`, `settler`, `missed` and `uncorrected` are history variables
that no guard of the code's actions reads; the last has the activities whose row could not
be corrected to what Strava made of the title last sent.

| Action | Code |
| --- | --- |
| `Deliver`, `Redeliver` | `ServeHTTP`, `intake` in `webhook/webhook.go`; the second is a lost 200 |
| `CheckNamed`, `EnqueueEvent`, `DropEvent` | `process` in `webhook/webhook.go`, between and after its two store calls |
| `Fire`, `Take`, `EndSweep`, `CancelSweep`, `Dequeue` | `ServeHTTP` in `sweep/sweep.go`, `Sweep` in `processor/processor.go` |
| `Lookup`, `Fetch`, `RecordHumanTitle` | `processOne`, `skip`, `gone`, `recordHumanTitle` |
| `MakeTitle` | `title` in `processor/title.go`, up to the write-mode test in `write` |
| `Reread`, `RecordTitle`, `RecordFranchise`, `PutTitle*`, `KeepStoredTitle` | `write` and what it calls, in order |
| `Reconcile`, `RecordRename`, `PutDescription*` | `reconcileOne`, `recordRename`, `removeAttribution` |
| `CallFails` | the error return of any other call; the entry stays queued |
| `Upload`, `Retitle`, `TagCommute`, `Annotate`, `Delete`, `Tick`, `Restart` | the world |

A step ends at a call that leaves the process, so everything else interleaves
between any two calls. What the code computes without such a call belongs to the
step before it: `Fetch`, for one, reads the activity, classifies it and goes
where `skip` would.

Time is kept as time left. An entry's `dueIn` is its `ProcessAfter` minus now,
its `recheck` what is left of the provisional window counted from its enqueue
time, an event's `age` the time since it was raised, up to the age the webhook
no longer believes. So the state space does not grow with the clock, and the
liveness runs need no bound on time. `Horizon` is how long overdue an entry may
be and still be told from another.

### State and actions of `Tokens`

A token pair is an athlete and a number; Strava issues the numbers (`issued`) and
accepts the newest pair of each athlete (`live`), `stored` is the pair in the
`tokens` collection, and `expired` the pairs whose access token is at or near its
end. `source` has the `StoredTokenSource` of the service and that of the import,
with what each call of `Token` has come to; the mutex is the fact that a source
has one program counter. `states` is `Server.states`, as ages, and `calls` the
callbacks in flight. `lost`, `blind`, `grants` and `uses` are history variables.
`FirstBound` is the promise behind it, about two variables only: who is `bound`, which
`Tokens` has as the athletes with a stored pair (`Bound`), and whether every callback
could read that (`certain`, which is `~blind`). An athlete is `Eligible` who is the
configured one, if there is one.

| Action | Code |
| --- | --- |
| `Token`, `Load`, `Refresh`, `Save` | `Token` and `refreshLocked` in `strava/tokensource.go` over `LoadFor` (`boundTokens.Load`, `app/tokens.go`) |
| `LoadFails`, `RefreshRefused`, `RefreshUnanswered`, `SaveFails` | their error returns; the last two may come after the call took effect |
| `AuthStart`, `AuthCallback` | `authStart`, `newState`, `consumeState`, `authCallback` in `server/server.go` |
| `Exchange`, `ExchangeUnusable`, `ExchangeFails`, `CheckAthlete`, `CheckAthleteBlind`, `SaveToken`, `SaveTokenFails` | the rest of `authCallback`, `checkAthlete`, and `Bound` in `app/app.go` |
| `StartImport`, `EndImport` | `Import` and `openBoundStore` in `app/import.go` |
| `Expire`, `Tick`, `Restart` | the world |

### State and actions of `Naming`

`doc`, `log` and `position` are the store; `profile`, `gear` and `examples` the
caches of the process (`franchiseCache`, the gear names, the examples). `pc`,
`ride`, `context`, `title`, `call` and `used` are the locals of the ride being
named. A title is the sequence of its folded words, so that containing an entry on
word borders, cutting a title to a line and repeating it are the operations they
are. `sent`, `shown`, `lapsed`, `carried`, `withheld` and `uncorrected` are history. Strava
keeps `Rewritten[t]` in place of a title `t` in whose words it reads a link; the row is
corrected to that, unless the correction fails or the answer is lost, and then the next
reconciliation finds a title that is not the row's.

| Action | Code |
| --- | --- |
| `Gather` | `llmTitle` up to `promptContext`: gear, RECENT and EXAMPLES, and the reads that may fail (`processor/context.go`) |
| `Offer` | `franchises`, `franchiseNext`: the document or its cache, the series of the gear, the entry its position points at |
| `Answered`, `Unanswered` | `complete` and `ask` in `processor/title.go`: the offer, the offer once more, the call without it |
| `Record`, `RecordFails`, `RecordFranchise*`, `Put*` | what `write` does to the log and the position |
| `KeepStoredTitle`, `KeepStoredTitleFails` | `reconcileTitle` |
| `NameFromTemplate`, `RecordHumanTitle`, `Import` | the other writers of rows; the second is `recordHumanTitle` and `recordRename` |
| `SeedConfig`, `EditConfig`, `Restart` | `app/seed.go`, the athlete, the process |

### State and actions of `Geo`

`cache` is the store's places by cache key, `since` the limiter's time since the
last grant, `call` the locals of each `Describe`. `deploys` bounds redeployments,
which change the configuration, forget the limiter and keep the cache. The
sampling is a function of the polyline: `Polyline` decodes it, `SamplePoints`
takes the points at equal arc length and the farthest and drops the endpoints'
cells. A place is named by the first address key there is, and its kind is that key's
(`KindOf`: `city_district` is a district), or after a natural feature whose category and
type are both listed (`NaturalFeature`).

`Reverse` asks at the sampled point (`geo/nominatim.go:517-518`) and the answer is cached
for the cell of that point. `Report` answers for the cell, so in the model two points of a
cell are answered alike; in the code the point of the cell that was asked first answers for
the rest. What a cell is told is thus a name of the cell, and not of every point in it.

| Action | Code |
| --- | --- |
| `Describe`, `ReadCache`, `Save`, `Finish`, `Return` | `Describe`, `resolve` in `geo/geo.go` |
| `Acquire`, `Wake` | `limiter.wait` in `geo/nominatim.go`, granted at once or asleep with the lock, or cancelled |
| `Ask` | `Reverse`, `placeFrom`, `AllowedOnly` |
| `Tick`, `Deploy` | the world |

The metric goes along the axes instead of the great circle, and tracks run along
them, which keeps positions whole. What is checked against it, `SamplesFollowTheWay`,
is stated without the code's operators: it walks the ride point by point on a
circle of longitudes and counts.

### State and actions of `Wif`

`minted` and `accepted` are the server's, `token` and `expiry` the cache,
`holder` the mutex across an exchange, `call` the locals of each `Complete`.

| Action | Code |
| --- | --- |
| `Complete`, `AccessToken` | `Complete`, `accessToken`: the cached token, or an exchange under the lock |
| `IdentityToken`, `Mint`, `Exchanged`, `ExchangeFails` | `exchange` and `app/identity.go`; the server mints before the answer arrives, or is lost |
| `Answered`, `Rejected`, `Invalidate` | the request, a 401, `invalidate` and the one retry of a cached token |
| `Revoke`, `Tick` | the world |

### State and actions of `Importer`

`strava` and `log` are titles and rows; `pc`, `page`, `items` and `short` the walk
of `importer.Run`; `sweep` a title between being read and being recorded, and sent if it
is the service's. `due` and `overtaken` are history: the rides that carried a title of the
athlete's when the run began and still do, and that no deletion has moved past the run;
and the rides the service named between a run's lookup and its row.

| Action | Code |
| --- | --- |
| `Start`, `ListPage`, `EndPage` | `Run`: pages from the first, until one is short or empty |
| `SkipOne`, `LookUp`, `MarkOne` | `importOne`: sport type and title, the log, the row |
| `Fail` | any error ends the run; the row may have been written |
| `SweepReads` (`NameOne`, `ReconcileOne`), `SweepRecords`, `SweepPuts` | `processOne` of a ride without a row and of one with, `write`, `recordRename` |
| `Upload`, `Rename`, `Delete` | the athlete |

### Abstractions

- In `Titelheld` and `Importer` a title is a model string in one of the
  vocabularies: Strava's defaults, the machine titles, the titles `IsToolTitle`
  knows, the templates, a person's, the model's. The patterns themselves are not
  modelled, only which of them match.
- A distance and a moving time are numbers on either side of the thresholds, a
  position is the set of geofences it lies in.
- The model is any answer of `ModelTitles`. What a title is held to is modelled
  where two rules meet; the characters of a title are the `Banned` words.
- `Strava` raises an update event for every change of a title, the service's own
  included, and removes a link from a title it stores (`LinkTitles`, in `Naming`
  `Rewritten`).
- In `Naming` an import runs while no ride is being named (`Import` needs `pc = "idle"`), as
  `app/import.go:23` asks; the one beside a sweep is in `Importer`. A template or a rename of
  another ride is a matter of the one sweep too, and comes between two rides. So RECENT is
  the same when a title is recorded as when it was gathered.
- Events by which a sweep comes to reconcile are not in `Naming` and `Importer`: it may at
  any time.
- Backoff has no duration: a retry is another attempt, or the call returns.
- The webhook's checks of sender and athlete, and the sweep's authentication,
  keep no state and admit what they admit; an event that is not about a create
  or an update of an activity is acknowledged and forgotten.
- Strava accepts one pair of an athlete, the newest. That a refresh ends the pair
  before it is `strava/tokensource.go:91`; that an authorization does so too is
  an assumption about Strava, and the cautious one: it makes more pairs worthless.
- A token of Strava's expires when it likes. A write that fails may have taken
  effect.
- With `Alone` the import of `Tokens` runs as `app/import.go:23` asks, while no
  sweep does; without it, at any time. In `Importer` it always runs beside one.
- A row of the service is dated by its clock, which runs later than every ride
  that is on Strava.

## 3. The runs

| Run | Question | Properties |
| --- | --- | --- |
| `safety` | Does an activity get one title, recorded before it is sent, does the attribution line follow the row and the row the athlete, does a restart lose nothing, does dry run keep off Strava, is `LastWriter` implemented? | `NamedOnce`, `LineMatchesRow`, `IInv`, `RecordedBeforeSent`, `EntryStaysUntilFinished`, `RecordFollowsRename`, `HumanRowsAreTyped`, `KeepsTitlesItRead`, `DryRunWritesNothing`, `ImplementsLastWriter` |
| `alive` | Is an entry dropped only when nothing is owed, does the queue drain, is a ride that should be named named, after dry run and after a flag without event too? | `DequeuedWhenDone`, `QueueDrains`, `OwedTitlesAreRecorded` |
| `tiers` | Does the classifier ever reopen a title it gave, and is a provisional skip the wait for the flag? | `NamedForGood`, `ProvisionalAwaitsTheFlag` |
| `bind` | Does the first athlete to authorize stay the only one (is `FirstBound` implemented), is a state good once, does somebody hold the pair Strava accepts, is a pair that could not be written written later? | `IInv`, `LivePairIsHeld`, `StateAuthorizesOnce`, `ImplementsFirstBound`, `UnsavedPairIsSaved` |
| `naming` | Is an entry given to one ride and passed only on evidence, can an offer be used, do titles repeat, what teaches, which document is the profile? | `IInv`, `EntrySentOnce`, `NothingSkipped`, `OfferCanBeUsed`, `ExamplesAreTheAthletes`, `NeverRepeats`, `ProfileWasRead` |
| `geocode` | Is what is asked about on the ride and off its ends, does the summary fit the ride, are requests spaced, does every call return? | `IInv`, `SamplesFollowTheWay`, `SummaryFitsTheRide`, `GrantsAreSpaced`, `DescribeReturns` |
| `identity` | Is a rejected token forgotten, a good one kept, the expiry never late, the lock released? | `IInv`, `RejectedIsForgotten`, `TokenIsKept`, `CompletionsEnd` |
| `imports` | Is every row of the import the athlete's title, is a complete run complete, does every run end? | `IInv`, `ImportedTitlesAreTheAthletes`, `ImportIsComplete`, `RunEnds` |
| `unrecorded` | violated | `EveryRenameIsRecorded` |
| `rebound` | violated | `BindsOnlyTheFirst` |
| `imported` | violated | `RefusedOnlyIfStoreIsDead` |
| `crowded` | violated | `RecentIsNotCrowded` |

Types are checked where they say more than a type; each `IInv` has its module's
`TypeOK` among its conjuncts. That decoding and sampling come to the cells of the ride
(`SamplingIsRight`) is a question about each track, asked with `SamplesFollowTheWay` when
a call begins: what it has to ask about then is all of what the ride calls for. `MCNaming`
and `MCClassifier` assume, and so have TLC evaluate, the conditions theorems are
stated under, that the lists only grow (`EntriesKeepTheirPlace`) and that the model can carry
an entry in several ways (`ModelAdapts`), and the one `NamedForGood` rests on, that no
pattern recognizes the service's own titles (`OwnTitlesAreKept`).

### Bounds

- `safety`, `alive`, `unrecorded`: one ride, because activities share only the
  queue's order and the franchise position, which `Naming` has three rides for.
  `Delay`, `MaxEventAge` and `Window` are of zero to two units: the code only asks
  whether an instant has passed, and two let the window outlast the delay. One
  retry tells the first attempt, a later one and the exhausted client apart. What
  the world may do is one of the bounds in `Budgets`, chosen at the start: in
  `safety` an edit beside two failures (so that a call and its repetition fail), or
  an edit beside two restarts (one of which may change the write mode back), or two
  edits and a note (a second rename, a reversion); in `alive` an edit beside a
  failure or a restart.
- `tiers`: every activity over two sizes, two thresholds, all sport types and
  geofences; there is no other state.
- `bind`, `rebound`, `imported`: two athletes, because binding is about a second
  one; two callbacks, because the lock is about a second one, and a state for each;
  a `StateTTL` of one unit, so that a state can be fresh, on its limit and too old;
  two expiries, so that the service and the import can both refresh, or one of them
  twice; two failures, so that a write can fail and its retry too.
- `naming`, `crowded`: three rides, one of them a commute, so that two are named
  after one another and a template stands between them; a series whose first
  entry is the bike's name and whose next two nest, an edit that reserves one and
  appends a series; two model titles for each entry, which are outside the other
  series, one that equals what the prompt shows of a longer title of the athlete's, one with a
  figure nothing states; one title that Strava keeps a shorter form of; a `RecentLimit` of
  one, so that a title drops out of RECENT, and one example; a restart. One reading of the document, any reading of an example, each write and
  each call may fail.
- `geocode`: two callers, because the limiter and the cache are shared; a globe with
  a quarter turn of eight units and cells of four; a loop and a ride there and back
  across the antimeridian, one that stands still, one without a polyline and one with
  a broken one; two samples, an interval of two ticks, so that a wait can be cancelled
  half way; one redeployment under another field order, and a cache entry an earlier
  release left.
- `identity`: two completions, lifetimes on either side of the margin, two tokens, so
  that one replaces the other, and three units of time.
- `imports`: four activities and pages of two, so that a full page is followed by a
  full, a short or an empty one and an upload moves an activity across the border; two
  runs, the first of which may fail; two edits. Two of the activities are rides, on two
  pages until an upload brings them onto one; the others only move the pages.

Deadlock is not an error in `safety`, `alive`, `naming`, `identity` and `imports`:
with the bounds spent the system has nothing to do until the next ride. `Tokens` and
`Geo` always have something to do, and their runs check for deadlock.

Every passing property comes with a mutation of the code's model that breaks it
(`mutants` in `PROJECT.json`); the mutated definitions stand in the modules
before the definitions they mutate, with a comment that names the bug.

### What the violated runs show

- `unrecorded`. `src/README.md:215-218` argues that a later rename produces a
  later event and is recorded like the first. The event may arrive after the
  sweep has read the activity and before it removes the entry; it then collapses
  into that entry (`webhook/webhook.go:314-327`) and goes with it
  (`processor/processor.go:267`). `RecordFollowsRename` is the property with these
  events, and those lost to a crash or a failing store, set aside.
- `rebound`. `src/README.md:355-356` says that the service refuses a second
  athlete once one is bound. `Deps.Bound` turns every error of the store into
  "nothing is bound" (`app/app.go:79`), so a callback that cannot read the store
  may bind whoever authorized, beside the athlete bound before. With that failure
  set aside (`blind`), `OneAthleteBound` and `FirstBound` hold and are proved.
- `imported`. `config/config.go:415-417` says that an import run while the service
  is idle touches none of the state that one process must have to itself. It
  refreshes the token; the idle service keeps the pair it has in memory
  (`strava/tokensource.go:62`), is refused at its next refresh although a good pair is
  stored, and stays so until a restart.
- `crowded`. `src/README.md:241` says that RECENT is the last 25 titles worth not
  repeating, and `src/README.md:253-255` that listing templates would crowd the real
  titles out. `history` asks the store for the newest 25 rows of every source and drops
  the templates from what comes back (`processor/context.go:94`, `:72`), so each commute
  among them takes a title's place. `NeverRepeats` is checked about the rows that are
  asked for.

Some more disagreements between the code and what is said of it have no run:

- `src/README.md:144` says that a human's title is never overwritten. The title is
  decided on the activity read at `processor/processor.go:370` and sent at
  `processor/write.go:84`, after a model call; a title typed in the meantime is
  replaced. What holds is `KeepsTitlesItRead`: a title that was the athlete's when it
  was read stays.
- A PUT that fails for good leaves a row of a title that is never sent, because the
  retry finds the activity named and only reconciles (`sweep/sweep.go:141-142` says
  that it is retried); this is the price of `RecordedBeforeSent`.
- If Strava stores another title than it was sent and the row cannot be corrected, the
  next update event records Strava's rewrite as the athlete's, against
  `store/store.go:301`. `HumanRowsAreTyped` admits that title and no other, and only where
  the correction failed, or never came because the answer was lost or the process died;
  `ExamplesAreTheAthletes` has the same exception.
- `importer/importer.go:232` says that a title the service wrote must not be relabelled as
  imported. When a sweep records its title between a run's lookup and its row, the run marks
  the title it listed over the service's row; the update event of the PUT then reconciles the
  row to the service's title, and an imported row stays imported
  (`processor/reconcile.go:106-108`). `app/import.go:23` asks that nothing else be naming;
  `ImportedTitlesAreTheAthletes` admits the rides this happened to (`overtaken`).
- `reconcileTitle` records what Strava kept without asking whether RECENT holds it, so a
  rewrite may repeat a recent title. `NeverRepeats` is about the title a ride is given; the
  rewrites of other rides are among the titles it must not repeat.
- An authorization completed between a refresh and its write is overwritten by that
  write (`strava/tokensource.go:122`, `server/server.go:226`), because the two are under
  different locks; `LivePairIsHeld` is about an athlete's first authorization.
- `src/README.md:256-268` ("from titles this service wrote and titles the athlete has
  written since", "Two sources qualify — `service`, and `human`") and the comment at
  `store/store.go:281-284` let the service's own titles teach style. `teachesStyle`
  (`processor/context.go:427-464`) takes rows of source `human` only, and says why: an
  example of the service's closes the style loop on itself. `ExamplesAreTheAthletes` follows
  the code; under the documented rule it is false as soon as a service title is read back.
- `src/README.md:621` says that a title is never made of an entry not on offer. When
  two entries nest, a title of the longer claims the shorter too, and `Guard` exempts
  what the offer itself claims; `EntrySentOnce` leaves nested entries out.
- `naming/anthropic_wif.go:257-259` has the second attempt's token exchanged after the
  first one's rejection. Another completion may have replaced the token while the first
  request was under way; `invalidate` then leaves the newer one, and it is presented
  although it is older than the rejection. What the retry rests on, and what is proved, is
  `ForgetsRejected`: it is not the token that was rejected.

### Fairness

`FairSpec` of `Titelheld` assumes that time passes; that Strava delivers an event it
has no acknowledgement for; that a handler's goroutine runs to its end; and that the
sweep runs, which stands for the scheduler's periodic fire (`src/infra/scheduler.tf`)
and for a sweep going on to its next call. Nothing is assumed of the athlete, of
the other tools, of failures or of restarts; those are bounded. Both liveness
properties also assume that writes are on from some point (`<>[]writes`), because
dry run keeps its entries queued by design.

`FairSpec` of `Tokens` assumes that the service keeps asking for a token, which the
periodic sweeps do, that each such call returns, and that an import ends, which
walks a list. It assumes nothing of the callbacks or of Strava's answers.

`FairSpec` of `Geo` and `Wif` assumes that a call goes on (each request has a timeout,
so it is answered or fails) and that time passes. Taking a mutex is assumed strongly
fair: another caller may take it again and again, and Go's `sync.Mutex` hands it to a
waiter that has been starved for a millisecond. `FairSpec` of `Importer` assumes that a
run goes on; it assumes neither that its calls succeed nor that the listing holds still.

## 4. What is proved

The safety invariants, action properties and refinements that a passing run checks are
theorems, but for `SamplesFollowTheWay` and `NamedForGood`; three of the liveness properties are, under conditions that are
stated below. The first two theorems of a module are as a rule its inductive invariant and
what follows from it at once.

`TitelheldProofs` proves, for any set of activities, any vocabularies, delays,
windows, retries and budgets that satisfy the modules' named assumptions:

| Theorem | Statement |
| --- | --- |
| `Invariant` | `Spec => []IInv` |
| `TypeCorrect` | `Spec => []TypeOK` |
| `NamesOnce` | `Spec => []NamedOnce` |
| `RecordsFirst` | `Spec => []RecordedBeforeSent` |
| `KeepsTheEntry` | `Spec => []EntryStaysUntilFinished` |
| `LineFollowsRow` | `Spec => []LineMatchesRow` |
| `RecordFollows` | `Spec => []RecordFollowsRename` |
| `HumanIsTyped` | `Spec => []HumanRowsAreTyped` |
| `DryRunIsNoOp` | `Spec => DryRunWritesNothing` |
| `KeepsTitles` | `Spec => KeepsTitlesItRead` |
| `DequeuesWhenDone` | `Spec => DequeuedWhenDone` |
| `Implements` | `Spec => ImplementsLastWriter` |

`NamedOnce` alone is not inductive: a state with a sweep about to PUT a title for
an activity that has been sent another satisfies it, and its successor does not.
What excludes that state is spread over the code: the sweep asks the log first
(`processor/processor.go:353`), nobody but the sweep writes the log, and the row is written before the
PUT. `IInv` says so:

- `SweepKnowsTheRow`: an activity the sweep found unnamed is unnamed until
  the sweep records it; one it found named stays so; and while a title is
  recorded, sent or corrected, the activity is settled for the service and
  nothing but that very draft has been sent;
- `SettledWhenNamed`: a row exists exactly when it is settled for whom;
- `InHand`: the entry in hand has left the batch, so an entry is not worked on
  twice in one sweep;
- the properties themselves and `TypeOK`.

The three properties about the end of a piece of work (`LineMatchesRow`,
`RecordFollowsRename`, `HumanRowsAreTyped`) speak of states the sweep and the handlers
have left alone, and are inductive only with what must still happen before:

- `LineIsOwed`: an attribution line that claims a title the log gives to the athlete has
  its entry in the queue, and the sweep is not about to remove that entry. It needs that a
  line is written only with a title (`sent` is not empty) and that the sweep which
  records a rename has read the line it will have to take out;
- `RenameIsOwed`: a title of the athlete's that the log does not hold yet is on its way,
  in an event or a handler (`Unread`), in the queue under an entry that no sweep has read,
  or in the hands of a sweep that has read it. Events that were lost, or collapsed into an
  entry already read, are in `missed`, and the finding `unrecorded` is the reason;
- `NamesAreKnown`: a title on Strava that is not from outside is what Strava made of a
  title it was sent, and the row of the activity says so too, or it could not be corrected
  (`IsUncorrected`). So but for those a title that is neither the row's nor a tool's was
  typed, which is how `IsRename` tells.

They rest on what the sweep knows of its copies: `CopyIsWhatWasRead` (the decision taken
is the one its copy of the activity asks for), `RowIsCurrent` (the row it compares with is
the stored one, because nobody else writes the log) and `WritesAreOn`.
`PersonTitlesAssumption` says what the model means by a person's title: one that no list of
the service recognizes. A person who types a template's title is taken for the template,
in the code as well.

Types are shown first, one lemma per group of actions (`EnvironmentTyped`,
`TickTyped`, `WebhookTyped`, `SweepTyped`), then what the queue says (`QueueStep`), then
what the log and the history say (`BooksStep`), all in `TitelheldLemmas`; then one lemma
for each of the parts above (`CopyStep`, `RowStep`, `NamesStep`, `HumanStep`,
`LineStep`, `RenameStep`); `InvStep` puts them together.
`Implements` maps `settledFor` to `settler` and `given` to the titles in `sent`:
`RecordHumanTitle` and `RecordTitle` are `SettleFor`, a PUT that takes effect is
`Give`, all else stutters.

`TokensProofs` proves, for any athletes, any number of flows, callbacks, failures,
restarts and imports, and whether or not the import runs alone, but for `PairIsHeld`:

| Theorem | Statement |
| --- | --- |
| `TokensInvariant` | `Spec => []IInv` (that of `Tokens`) |
| `TokensTypeCorrect` | `Spec => []TypeOK` |
| `StaysBound` | `Spec => []OneAthleteBound` |
| `AuthorizesOnce` | `Spec => []StateAuthorizesOnce` |
| `Implements` | `Spec => ImplementsFirstBound` |
| `PairIsHeld` | `Alone => (Spec => []LivePairIsHeld)` |
| `UnsavedIsSaved` | `FairSpec /\ []CanGoOn /\ <>[][UNCHANGED budget]_vars => UnsavedPairIsSaved` |

`OneAthleteBound` is not inductive either: a callback for one athlete between its
check and its write, with another athlete bound, satisfies it. Its strengthening
has a part for each writer of the document. `CheckStillHolds` is the lock
`Server.bind`: one callback at a time is past its check, and nobody but its athlete
is bound. It needs that no source binds anybody meanwhile, which is
`SourcesAreBound`: a source holds a pair only of an athlete that is bound, so a
refresh rewrites a document and never adds one. `CallsAreNamed` says that a
callback past the exchange knows its athlete and has a pair, and
`ConfiguredIsBound` covers a configured athlete, whom the check compares without
reading the store. The proof has a lemma per writer (`SourceKeepsBinding`,
`CallbackKeepsBinding`) and one for the rest (`EnvironmentKeepsBinding`), after the
three that show types. From the same invariant `Implements` has every step of the flow as
one of `FirstBound`: a callback's write is `Bind` of an eligible athlete, nobody else
being bound; a check that could not read the store is `Doubt`; the writes of the
sources, restarts and imports stutter, so nobody is forgotten either, which
`OneAthleteBound` does not say.

`StateAuthorizesOnce` follows from `UsedStatesAreRetired`: the server forgets a state
before the callback that brought it goes on. `LivePairIsHeld` is about three holders who
overwrite one another, and is false when an import runs beside a sweep, each with a copy of
the pair; `Alone` is what `app/import.go:23` asks for. The danger is a holder that writes
an old pair over a new one. `CopiesAreCurrent` excludes it: a copy that is not the newest is
expired, so its holder asks Strava before it would write, and a source that is about to
write has the newest. Until the callback that brought an athlete's first pair has stored
it, nobody else has any. The proof summarizes what a step of a source and of a callback
may do (`SourceStep`, `CallbackStep`), shows that whoever is not concerned is undisturbed
(`Undisturbed`), and takes one athlete at a time (`CopiesByAthlete`).

`UnsavedIsSaved` follows an unsaved pair through a call of the source (`CallSaves`): from
waiting to a refresh or a write, from a refresh, which Strava accepts as long as the pair
is worth anything, to a write, from a write to the store. Nobody else moves the service's
source (`QuietStep`), and an import that holds its calls back ends and does not return.
That is so once no more failures, restarts and imports come, which is the last condition:
`budget` only ever goes down.

`NamingProofs` proves, for any rides, titles, series, documents and limits:

| Theorem | Statement |
| --- | --- |
| `NamingInvariant` | `Spec => []IInv` (that of `Naming`) |
| `TeachesTheAthletesOnly` | `Spec => []ExamplesAreTheAthletes` |
| `RepeatsNothing` | `Spec => NeverRepeats` |
| `ReadsTheDocument` | `Spec => ProfileWasRead` |
| `SpentOnOneRide` | `EntriesKeepTheirPlace => (Spec => []EntrySentOnce)` |
| `SkipsNothing` | `EntriesKeepTheirPlace => (Spec => []NothingSkipped)` |
| `OffersCanBeUsed` | `ModelAdapts => (Spec => []OfferCanBeUsed)` |

The first two results are about what was read some calls ago and used now.
`RecentIsCurrent` has the titles gathered those of the log of the moment until the answer is recorded, because one sweep
names one ride at a time; `TitleIsNoRepeat` has every title in hand held to them, whichever
of the attempts it came from, since the first attempt's title is kept when a later one
fails. An example outlives the ride it was read for: it stays true because a row under
source `human` keeps that source (`OwnedRows`), and because the rows the service and
the import write are of rides that had none (`RowWritten`, `OwnedRecord`), from which
nothing was taught.

Whose a title is depends on what Strava made of it. `TitlesAreOwned` follows it:
`RowsFollowStrava` has the row of a ride that was sent a title hold what Strava kept, or
what was sent where the correction failed, was lost or is about to be made (`OwnedPut`,
`OwnedKeep`). So what a reconciliation finds beside the row is a title the athlete typed, or
Strava's rewrite of a ride that could not be corrected (`OtherIsTheAthletes`), which is all
that `ExamplesAreTheAthletes` admits. `NeverRepeats` is about the first row of a ride: the
correction comes after it and is of a row that is there.

The two after them are about the position, which is an index into a list the athlete edits.
`src/README.md:639-645` says which edits leave it what it is: entries are appended.
`EntriesKeepTheirPlace` is that table's first row, over every list the document may ever
be: an index names the same entry in each, and an entry has one place. Under any other
edit both properties are false, which is what the rest of the table says. Given it,
`EntriesAreSpent` is inductive:

- `SeriesAreListed`: a series in the document, in the cache, in hand or in the history is
  one of a list's, but for what is reserved of it;
- `OfferIsNext`: until it is recorded, the entry on offer is at or past the position, with
  nothing but reserved entries between;
- `TitleClaimsTheOffer`: what the title in hand claims is the entry on offer, and then it
  was found to use it, or an entry that cannot be told from another. This is where the guard
  and the evidence meet: `Guard` exempts what the offer itself would claim, `claims` is
  stricter than `usesEntry` (`ClaimIsUse`), and the third call is guarded by all;
- `UseIsRecorded`: a title that uses its entry is recorded, then the position is moved or
  the entry lapses, and only then is the title sent, with no ride before it;
- `SentIsSpent`: what a ride was sent with is behind the position, or has lapsed. A
  position never goes back (`SpentStays`, `PositionMoves`), so an entry on offer was sent
  with nobody (`NotSentYet`).

`EntrySentOnce` then has one step that matters, the PUT (`SentOnceStep`), and
`NothingSkipped` one, the advance (`PassedByOne`). Both are kept out of `IInv`, which TLC
checks beside them. An appended entry may nest with one sent long ago, so
`EntrySentOnce` sets an entry aside if it nests in the series of either ride; and an
entry that was reserved when the position passed it may be released by a later edit,
so `NothingSkipped` counts what was reserved then (`withheld`).
`SeriesAssumption` says that a list holds series of word sequences.

`OffersCanBeUsed` is about the rules meeting: an offer is refused on every sweep if no title
that carries it passes the franchise guard, the repeats, the motifs, the figures and the
claims together. What can be said of the model alone is `ModelAdapts`: for every entry that
may be on offer, and whatever *few* titles are recent and taught, it has a title that
carries the entry, is none of those, and breaks no rule that looks at a title by itself.
What remains is the code's part, that what it forbids is few. RECENT is cut to a limit, and
the cut is by date, so it rests on `DatesDiffer`: rows are told apart by their dates, a ride's
own or the clock's, which is later than any (`NowIsLatest`). The examples are cut to
`ExampleCount`, or are the synthetic ones. And the offer is one to which the condition
applies (`OfferIsFit`): an entry of the ride's series that is a title and not reserved, for
a ride that no template names. TLC evaluates `ModelAdapts` for the vocabularies of `naming`.

`GeoProofs` proves, for any callers, rides, configurations, reports, earlier caches and
deployments:

| Theorem | Statement |
| --- | --- |
| `SpacesGrants` | `Spec => GrantsAreSpaced` |
| `GeoInvariant` | `Spec => []IInv` (that of `Geo`) |
| `NeverAsksAtTheEnds` | `Spec => []EndsAreNeverAsked` |
| `SummaryFits` | `SamplingIsRight => (Spec => []SummaryFitsTheRide)` |
| `EveryCallReturns` | `FairSpec /\ NothingBlocks => DescribeReturns` |

The spacing rests on `SleepsTheRest`: the caller asleep holds the lock, alone, for exactly
what is missing of the interval, so one that gives up half way has granted nothing.
The summary is about what was asked of somebody else under another configuration.
`CacheTells` says what an entry means: an earlier release's is filtered as it is read
(`AllowedOnly`), any other is what every configuration that computes its key would be
answered, because the scope in the key tells apart what the configurations ask
(`OneScopeOneAnswer`). `ListedSoFar` follows a call along its cells.

`EndsAreNeverAsked`, the part that keeps an address out of a title, needs nothing of the
track: however long it is, wherever its points lie and whatever the samples are, what
`withoutEndpoints` leaves is outside the cells of the two ends, and what is asked about is
some of what it leaves. That the samples are the right ones is arithmetic on one track,
before any request is made: `SamplingIsRight`, that `DecodePolyline` and `SamplePoints`
come to the cells a count along the ride comes to. It has no variables, and `SummaryFits`,
which is about the cache and the answers, is stated under it. It is not true of every track: `farthestFrom` looks at the
points of the track only, and the farthest place of a ride may lie between two of them; the
tracks of the instance go along the axes. `EarlierAssumption` says that the cache an
earlier release left holds places, `KindAssumption` that every address key has a kind.

`EveryCallReturns` counts: a call that gets on (`WorkGetsOn`, `LetIn`) comes to a later
step of the cell it is at or to the next cell, nobody takes it back (`NeverBack`), and there
are at most `MaxSampleCount + 1` cells (`CallEnds`), seven, so no induction is needed.

`ClassifierProofs` proves, for any vocabularies, thresholds and errand pool:

| Theorem | Statement |
| --- | --- |
| `AwaitsTheFlag` | `~LeaveErrandsUnnamed => (MCSpec => ProvisionalAwaitsTheFlag)` |

Under `LeaveErrandsUnnamed` a flagged ride is left unnamed, and nothing is awaited.
`NamedForGood` is checked for vocabularies in which no pattern recognizes the service's own
titles (`OwnTitlesAreKept`), from which it nearly follows; the run shows that the tiers, the
flag and the geofences do not undo it. The condition is on whoever configures the patterns:
`classifier/machine.go` leaves the commute titles out of the shipped list on purpose, and
nothing refuses a `MACHINE_TITLE_PATTERNS` that matches them. What stops a second title then
is the named log alone, which is what `NamesOnce` is proved from.

`WifProofs` proves, for any completions, lifetimes, margin, number of tokens and time:

| Theorem | Statement |
| --- | --- |
| `WifInvariant` | `Spec => []IInv` (that of `Wif`) |
| `ForgetsRejected` | `Spec => RejectedIsForgotten` |
| `KeepsToken` | `Spec => TokenIsKept` |
| `EveryCompletionEnds` | `FairSpec /\ NothingBlocks => CompletionsEnd` |

The second and the third are action properties. That a call does not present a dropped token rests on the
cache not holding one, and the cache is filled from an answer that another call may have
been slow to take. So `IInv` follows the answer: `TypeOK` has the lock, one caller at a
time between `identity` and `answer`; `AnswerIsFresh` has the token of that caller
minted, unseen by every other call and cached no longer than it lives; and
`ExchangeIsNeeded` has the cache without a usable token as long as the lock is held, so
what an exchange replaces was not worth keeping. `EveryCompletionEnds` goes through the
steps of an attempt (`EachAttemptEnds`), of which there are two (`CompletionEnds`).

The three liveness theorems have conditions in common. The provers at hand know nothing of
`ENABLED`, so the theorems are stated for behaviours in which the steps fairness speaks of
can be taken (`[]CanGoOn`); what `CanGoOn` says is read off the guards, where a failure is
always among the alternatives. `NothingBlocks` adds that the lock of the limiter, or of the
token cache, is free again and again. That its holder gives it back is proved for each one
(`SleepEnds` of `GeoProofs`, `LockIsFreed` of `WifProofs`); to conclude it of whoever holds
it, a quantifier has to change places with `[]`, which the provers cannot do. The runs
check the same properties under `FairSpec` alone, so on the instances the conditions are
no restriction. What the theorems add, for any number of callers, is that nothing a call
may come to, and nothing the others do, leads it round in a circle.

`ImporterProofs` proves, for any set of activities, vocabularies, page size and number of
runs, edits and failures:

| Theorem | Statement |
| --- | --- |
| `ImporterInvariant` | `Spec => []IInv` (that of `Importer`) |
| `ImportsOnlyTheAthletes` | `Spec => []ImportedTitlesAreTheAthletes` |
| `ImportCompletes` | `Spec => []ImportIsComplete` |

The first of the two needs the log to be ahead of Strava: the import takes a title for
the athlete's when it is neither a default nor a template and the activity has no row.
`NamedBeforeSent` says that any other title, on Strava or on a page read long ago, has
its row by then, because a sweep records before it sends, and rows stay.
`MarkedIsTheAthletes` carries that from the lookup to the write. A row that is imported is
then reconciled and stays imported, so what has to be kept away from it is a title of the
service's: `ImportedIsNotNamed` says that none is on Strava or on its way there while the
ride is imported or about to be, and `RenameIsTheAthletes` that a rename in hand carries a
title of the athlete's. Both fail for a ride the service records between a run's lookup
and its row, and for no other: `overtaken` are those rides, and with nothing else naming
there are none. The second result needs to know
where a ride without a row is: `DueIsToCome` says that it is on what is left of the page
(`IsListed`) or `Ahead`, at a position beyond the pages read, which also means that the
page read was not a short one. Positions are counted (`Newer`), so the first part of the
module is about cardinalities: every activity has a position of its own
(`PositionsDiffer`), the positions have no gap (`PositionsHaveNoGap`), a page is full when
anything lies beyond it (`PageSize`), and a listing has all of its page
(`ListingHasPage`). An upload moves positions up (`UploadStep`), a new title leaves them
(`Retitled`), and a deletion moves them down, which is why `due` gives up what a
deletion moves past the run.

Only model-checked:

- the liveness properties `QueueDrains`, `OwedTitlesAreRecorded` and `RunEnds`, whose steps
  to the end are counted by a constant (retries, the window, the pages of a listing), which
  takes an induction; and the other three without the conditions of their theorems;
- `SamplesFollowTheWay`, and with it `SamplingIsRight` of `Geo` and the decoding of
  `Polyline`, recursive functions over the points of a track: what they compute for every
  track is an induction the provers at hand cannot do, and without it nothing is left to
  prove;
- `NamedForGood`, which is a finite question once `OwnTitlesAreKept` is granted.

## 5. Not modelled

- Wording: prompts, languages, the facts of a ride, figures beyond which of them are
  stated, the parsing of an answer, log sanitizing. None of it keeps state.
- The choice of an errand's title beyond its pool, and which sport types a series
  takes: a second filter of the form of the gear's.
- The other model providers, which send one request with a fixed key.
- The environment's parsing and validation, which happens once at start, reports all
  errors together and keeps nothing; of the configuration, seeding and the geocoder's
  order and zoom are modelled.
- The commands, and infrastructure as code.
- In `Client`: backoff times and the rate limit headers. A retry is an attempt.
- More than one activity in the liveness run: that an entry which always fails does not hold
  up the ones behind it is in the order of `Take` and not in a property.
- Which deadline an entry gets: `ProcessAfter` is in the model, and a wrong one would only
  name a ride sooner or later.
- What the properties leave out of a hazard is named with it in `PROJECT.json`: events lost
  for good, an athlete's second authorization, entries that nest or whose advance failed.
- Two instances at once, which the documentation rules out except for the moment of a
  deployment.
- What a restart forgets of the limiter: the spacing is that of one process.
- Rides that a deletion during an import moves to a page already read: that run ends
  without them, and the next brings them in.

## 6. Plan

Done:

1. `Classifier`, `Store`, `Titelheld`, `LastWriter`: the pipeline, its runs, its
   inductive invariant, every safety and action property, and the refinement.
2. `Tokens`, `FirstBound`: the token pair, the binding and the import's source, the
   invariants of the binding, the states and the pair, the refinement, and that an unsaved
   pair is saved.
3. `Naming`: the attempts, the rules, the caches, the series and its document, with its
   invariant and the results on examples, repeats, the profile, the series and the offer
   proved.
4. `Polyline`, `Geo`: what is asked about a ride, the cache and the limiter, with the
   ends, the spacing, the cache and the summary proved, and that every call returns.
5. `Wif`: the cached access token, with its invariant and both action properties proved,
   and that every completion ends.
6. `Importer`: the walk beside sweeps and edits, with its invariant and both results
   proved.

To do, in order:

7. `QueueDrains` and `RunEnds`, as far as their safety parts go: that each step brings an
   entry, or a run, nearer to its end by a measure that is stated.
8. `LeaveErrandsUnnamed` and a pattern that recognizes the service's own titles as
   instances of their own.
9. `Client`: `Client.do` with backoff, rate limit and token errors in detail,
   shown to implement the one-step retry of `Titelheld`.
10. Two instances of the sweep over one store, as during a deployment.
