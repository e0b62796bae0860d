----------------------------- MODULE GeoProofs -----------------------------
(***************************************************************************)
(* Proofs about Geo, for every number of callers, rides, configurations,   *)
(* reports, caches and deployments.  In this order: what an answer and an  *)
(* entry of the cache say; what a step does to a call; the limiter; the    *)
(* summary; the inductive invariant; the theorems; that every call         *)
(* returns.                                                                *)
(*                                                                         *)
(* Which cells a ride is sampled in is computed from the ride alone before *)
(* the first request.  That they are few, and none that the track starts   *)
(* or ends in, is proved here of every polyline.  That they are the cells  *)
(* at equal distances along the way is what SamplingIsRight says: TLC      *)
(* evaluates it, and the theorem on the summary assumes it.                *)
(***************************************************************************)
EXTENDS Geo, FunctionTheorems, FiniteSetTheorems, SequenceTheorems, TLAPS
-----------------------------------------------------------------------------
(* The geocoder.                                                           *)

\* A first field is one of the fields (placeFrom).
LEMMA FirstPresentIsField ==
  ASSUME NEW fields, NEW address
  PROVE  FirstPresent(fields, address) \subseteq Range(fields)
BY DEF FirstPresent, Range

\* What placeFrom names is on the allow-list, so that the filter of Describe
\* takes nothing off it.
LEMMA ReportedIsAllowed ==
  ASSUME NEW c, Valid(c), NEW report
  PROVE  AllowedOnly(PlaceFrom(c, report)) = PlaceFrom(c, report)
<1> DEFINE named == PlaceField(c, report.address)
           key == CHOOSE f \in named : TRUE
           listed == report.name # "" /\ report.feature \in DOMAIN NaturalFeature
           region == FirstPresent(RegionField, report.address)
           known == [NoPlace EXCEPT
                       !.country = report.country,
                       !.region = IF region = {} THEN ""
                                  ELSE report.address[CHOOSE f \in region : TRUE]]
<1>1. PlaceFrom(c, report)
        = IF named # {}
          THEN [known EXCEPT !.name = report.address[key], !.kind = KindOf[key]]
          ELSE IF listed
          THEN [known EXCEPT !.name = report.name,
                             !.kind = NaturalFeature[report.feature]]
          ELSE known
  BY DEF PlaceFrom
<1>2. known.name = "" /\ DOMAIN known = {"name", "kind", "region", "country"}
  BY DEF NoPlace
<1> HIDE DEF known
<1>3. CASE named # {}
  <2>1. key \in named
    BY <1>3
  <2>2. named \subseteq Range(AddressField)
    BY FirstPresentIsField DEF PlaceField, Valid
  <2>3. IsAllowedKind(KindOf[key])
    BY <2>1, <2>2 DEF IsAllowedKind
  <2>4. PlaceFrom(c, report).kind = KindOf[key]
    BY <1>1, <1>2, <1>3
  <2>5. QED
    BY <2>3, <2>4 DEF AllowedOnly
<1>4. CASE named = {} /\ listed
  <2>1. PlaceFrom(c, report).kind = NaturalFeature[report.feature]
    BY <1>1, <1>2, <1>4
  <2>2. NaturalFeature[report.feature] \in Range(NaturalFeature)
    BY <1>4 DEF Range
  <2>3. QED
    BY <2>1, <2>2 DEF AllowedOnly, IsAllowedKind
<1>5. CASE named = {} /\ ~listed
  <2>1. PlaceFrom(c, report).name = ""
    BY <1>1, <1>2, <1>5
  <2>2. QED
    BY <2>1 DEF AllowedOnly
<1>6. QED
  BY <1>3, <1>4, <1>5

\* Filtering what was filtered changes nothing (resolve filters what it stores
\* and what it reads back).
LEMMA FilteredIsAllowed ==
  ASSUME NEW place, "name" \in DOMAIN place
  PROVE  AllowedOnly(AllowedOnly(place)) = AllowedOnly(place)
<1>1. CASE place.name = "" \/ IsAllowedKind(place.kind)
  BY <1>1 DEF AllowedOnly
<1>2. CASE ~(place.name = "" \/ IsAllowedKind(place.kind))
  <2>1. AllowedOnly(place).name = ""
    BY <1>2 DEF AllowedOnly
  <2>2. QED
    BY <2>1 DEF AllowedOnly
<1>3. QED
  BY <1>1, <1>2

\* The answer to a question is a place.
LEMMA AnswerIsPlace ==
  ASSUME NEW c, NEW cell
  PROVE  /\ DOMAIN ReverseAt(c, cell) = DOMAIN NoPlace
         /\ DOMAIN AllowedOnly(ReverseAt(c, cell)) = DOMAIN NoPlace
         /\ "name" \in DOMAIN NoPlace
<1>1. ASSUME NEW report PROVE DOMAIN PlaceFrom(c, report) = DOMAIN NoPlace
  BY DEF PlaceFrom, NoPlace
<1>2. DOMAIN ReverseAt(c, cell) = DOMAIN NoPlace
  BY <1>1 DEF ReverseAt
<1>3. ASSUME NEW place, DOMAIN place = DOMAIN NoPlace
      PROVE  DOMAIN AllowedOnly(place) = DOMAIN NoPlace
  BY <1>3 DEF AllowedOnly
<1>4. QED
  BY <1>2, <1>3 DEF NoPlace

\* Configurations of one scope are answered alike (cacheScope: the zoom, the
\* order and the server are all an answer depends on).
LEMMA OneScopeOneAnswer ==
  ASSUME NEW c, NEW d, Scope(c) = Scope(d), NEW cell
  PROVE  ReverseAt(c, cell) = ReverseAt(d, cell)
<1>1. Zoom(c) = Zoom(d) /\ Order(c) = Order(d)
  BY DEF Scope
<1>2. ASSUME NEW report PROVE PlaceFrom(c, report) = PlaceFrom(d, report)
  BY <1>1 DEF PlaceFrom, PlaceField
<1>3. QED
  BY <1>1, <1>2 DEF ReverseAt

\* The answer of the server names the cell as it is to be named.
LEMMA AnswerTells ==
  ASSUME Valid(config), NEW cell, CacheKey(config, cell) \notin DOMAIN Earlier
  PROVE  AllowedOnly(ReverseAt(config, cell)).name = Told(config, cell)
<1>1. AllowedOnly(NoPlace) = NoPlace /\ NoPlace.name = ""
  BY DEF AllowedOnly, NoPlace
<1>2. CASE Report(Zoom(config), cell).error
  BY <1>1, <1>2 DEF ReverseAt, Told, CacheKey
<1>3. CASE ~Report(Zoom(config), cell).error
  BY <1>3, ReportedIsAllowed DEF ReverseAt, Told, CacheKey
<1>4. QED
  BY <1>2, <1>3

\* So does an entry of the cache, whoever stored it and when.
LEMMA EntryTells ==
  ASSUME config \in Config, Valid(config), CacheTells, NEW cell,
         CacheKey(config, cell) \in DOMAIN cache
  PROVE  AllowedOnly(cache[CacheKey(config, cell)]).name = Told(config, cell)
<1> DEFINE k == CacheKey(config, cell)
<1>1. k[1] = Scope(config) /\ k[2] = cell
  BY DEF CacheKey
<1>2. CASE k \in DOMAIN Earlier
  BY <1>2 DEF CacheTells, Told, CacheKey
<1>3. CASE k \notin DOMAIN Earlier
  <2>1. cache[k] = AllowedOnly(ReverseAt(config, cell))
    BY <1>1, <1>3 DEF CacheTells
  <2>2. AllowedOnly(cache[k]) = AllowedOnly(ReverseAt(config, cell))
    BY <2>1, AnswerIsPlace, FilteredIsAllowed
  <2>3. QED
    BY <1>3, <2>2, AnswerTells
<1>4. QED
  BY <1>2, <1>3
-----------------------------------------------------------------------------
(* Steps.                                                                  *)

\* The types the limiter needs; the others rest on the sampling.
Shape ==
  /\ since \in 0..Interval
  /\ DOMAIN call = Caller
  /\ \A c \in Caller :
       /\ DOMAIN call[c] = DOMAIN Idle
       /\ call[c].pc \in {"idle", "next", "wait", "sleep", "ask", "save", "done"}
       /\ call[c].left \in 0..Interval
       /\ call[c].left > 0 => At(c, "sleep")

\* A step of one caller leaves the others alone.
LEMMA OneCall ==
  ASSUME DOMAIN call = Caller, NEW c \in Caller, NEW x, call' = [call EXCEPT ![c] = x]
  PROVE  /\ DOMAIN call' = Caller /\ call'[c] = x
         /\ \A d \in Caller \ {c} : call'[d] = call[d]
OBVIOUS

\* A caller that goes on to another step keeps what it has.
MovesOn(c, pc) ==
  /\ call'[c].pc = pc
  /\ call'[c].ride = call[c].ride /\ call'[c].todo = call[c].todo
  /\ call'[c].along = call[c].along
  /\ DOMAIN call'[c] = DOMAIN call[c]

\* Setting the program counter, and perhaps the time to sleep or the answer,
\* does so.
LEMMA StepMovesOn ==
  ASSUME Shape, NEW c \in Caller, NEW pc,
         \/ call' = [call EXCEPT ![c].pc = pc]
         \/ \E left \in Nat : call' = [call EXCEPT ![c].pc = pc, ![c].left = left]
         \/ \E found : call' = [call EXCEPT ![c].pc = pc, ![c].found = found]
  PROVE  MovesOn(c, pc)
<1>1. /\ DOMAIN call = Caller
      /\ DOMAIN call[c] = {"pc", "ride", "todo", "found", "left", "along", "region", "country"}
  BY DEF Shape, Idle
<1>2. CASE call' = [call EXCEPT ![c].pc = pc]
  BY <1>1, <1>2 DEF MovesOn
<1>3. ASSUME NEW left \in Nat, call' = [call EXCEPT ![c].pc = pc, ![c].left = left]
      PROVE  MovesOn(c, pc)
  BY <1>1, <1>3 DEF MovesOn
<1>4. ASSUME NEW found, call' = [call EXCEPT ![c].pc = pc, ![c].found = found]
      PROVE  MovesOn(c, pc)
  BY <1>1, <1>4 DEF MovesOn
<1>5. QED
  BY <1>2, <1>3, <1>4

\* What becomes of a caller that has a cell's place.
LEMMA AddMoves ==
  ASSUME Shape, NEW c \in Caller, NEW place, Add(c, place)
  PROVE  /\ DOMAIN call' = Caller
         /\ \A d \in Caller \ {c} : call'[d] = call[d]
         /\ DOMAIN call'[c] = DOMAIN Idle
         /\ call'[c].pc = "next" /\ call'[c].ride = call[c].ride
         /\ call'[c].todo = Tail(call[c].todo) /\ call'[c].left = call[c].left
         /\ call'[c].along =
              IF Normal(place.name) # "" /\ IsNew(c, place)
              THEN Append(call[c].along, Normal(place.name)) ELSE call[c].along
<1>1. /\ DOMAIN call = Caller
      /\ DOMAIN call[c] = {"pc", "ride", "todo", "found", "left", "along", "region", "country"}
  BY DEF Shape, Idle
<1> DEFINE x == [call[c] EXCEPT
             !.pc = "next", !.todo = Tail(@), !.found = NoPlace,
             !.region = FirstKnown(@, place.region),
             !.country = FirstKnown(@, place.country),
             !.along = IF Normal(place.name) # "" /\ IsNew(c, place)
                       THEN Append(@, Normal(place.name)) ELSE @]
<1>2. call' = [call EXCEPT ![c] = x]
  BY <1>1 DEF Add
<1>3. /\ DOMAIN x = DOMAIN Idle
      /\ x.pc = "next" /\ x.ride = call[c].ride
      /\ x.todo = Tail(call[c].todo) /\ x.left = call[c].left
      /\ x.along = IF Normal(place.name) # "" /\ IsNew(c, place)
                   THEN Append(call[c].along, Normal(place.name)) ELSE call[c].along
  BY <1>1 DEF Idle
<1>4. call'[c] = x /\ DOMAIN call' = Caller /\ \A d \in Caller \ {c} : call'[d] = call[d]
  <2> HIDE DEF x
  <2> QED
    BY <1>1, <1>2, OneCall
<1> HIDE DEF x
<1>5. QED
  BY <1>3, <1>4

\* What becomes of one that is told what to describe.
LEMMA DescribeStarts ==
  ASSUME Shape, NEW c \in Caller, NEW r \in Ride, Describe(c, r)
  PROVE  /\ DOMAIN call' = Caller
         /\ \A d \in Caller \ {c} : call'[d] = call[d]
         /\ DOMAIN call'[c] = DOMAIN Idle
         /\ call'[c].pc = "next" /\ call'[c].ride = r /\ call'[c].todo = Samples[r]
         /\ call'[c].left = 0 /\ call'[c].along = <<>>
<1> DEFINE x == [Idle EXCEPT !.pc = "next", !.ride = r, !.todo = Samples[r]]
<1>1. /\ DOMAIN x = DOMAIN Idle
      /\ x.pc = "next" /\ x.ride = r /\ x.todo = Samples[r] /\ x.left = 0 /\ x.along = <<>>
  BY DEF Idle
<1>2. call' = [call EXCEPT ![c] = x] /\ DOMAIN call = Caller
  BY DEF Describe, Shape
<1> HIDE DEF x
<1>3. call'[c] = x /\ DOMAIN call' = Caller /\ \A d \in Caller \ {c} : call'[d] = call[d]
  BY <1>2, OneCall
<1>4. QED
  BY <1>1, <1>3

\* A tick of the clock, for the callers.
LEMMA TickPasses ==
  ASSUME Shape, Tick, NEW c \in Caller
  PROVE  /\ DOMAIN call' = Caller
         /\ MovesOn(c, call[c].pc) /\ call'[c].found = call[c].found
         /\ call'[c].left = IF call[c].left > 0 THEN call[c].left - 1 ELSE 0
         /\ DOMAIN call'[c] = DOMAIN Idle
<1>1. DOMAIN call[c] = {"pc", "ride", "todo", "found", "left", "along", "region", "country"}
  BY DEF Shape, Idle
<1>2. /\ DOMAIN call' = Caller
      /\ call'[c] = [call[c] EXCEPT !.left = IF @ > 0 THEN @ - 1 ELSE 0]
  BY DEF Tick
<1>3. QED
  BY <1>1, <1>2 DEF MovesOn, Idle

\* A caller at rest.
LEMMA IdleIsEmpty ==
  /\ Idle.pc = "idle" /\ Idle.todo = <<>> /\ Idle.left = 0 /\ Idle.along = <<>>
BY DEF Idle
-----------------------------------------------------------------------------
(* The limiter.                                                            *)

Limiter == Shape /\ SleepsTheRest

\* A caller that goes on without sleeping leaves the sleeper asleep.
LEMMA SleeperSleepsOn ==
  ASSUME Limiter, NEW c \in Caller,
         DOMAIN call' = Caller, \A d \in Caller \ {c} : call'[d] = call[d],
         DOMAIN call'[c] = DOMAIN Idle,
         call'[c].pc \in {"idle", "next", "wait", "ask", "save", "done"}, call'[c].left = 0,
         \/ UNCHANGED since
         \/ since' = 0 /\ \A d \in Caller \ {c} : ~At(d, "sleep")
  PROVE  Limiter'
<1>1. Interval \in Nat /\ since \in 0..Interval /\ since' \in 0..Interval
  BY GeoAssumption DEF Limiter, Shape
<1>2. Shape'
  BY <1>1 DEF Limiter, Shape, At
<1>3. SleepsTheRest'
  BY <1>1 DEF Limiter, SleepsTheRest, At
<1>4. QED
  BY <1>2, <1>3 DEF Limiter

\* What a caller's own steps do to it and to the limiter.
LEMMA WorkMoves ==
  ASSUME Shape, NEW c \in Caller, Work(c) \/ \E r \in Ride : Describe(c, r)
  PROVE  /\ DOMAIN call' = Caller
         /\ \A d \in Caller \ {c} : call'[d] = call[d]
         /\ DOMAIN call'[c] = DOMAIN Idle
         /\ call'[c].pc \in {"idle", "next", "wait", "ask", "save", "done"}
         /\ call'[c].left = 0
         /\ \/ UNCHANGED since /\ (call'[c].pc = "ask" => At(c, "ask"))
            \/ At(c, "sleep") /\ since' = 0 /\ call[c].left = 0
<1>1. DOMAIN call = Caller /\ DOMAIN call[c] = DOMAIN Idle
  BY DEF Shape
<1>2. ~At(c, "sleep") => call[c].left = 0
  BY GeoAssumption DEF Shape, At
<1>3. ASSUME call' = [call EXCEPT ![c] = Idle]
      PROVE  /\ DOMAIN call' = Caller
             /\ \A d \in Caller \ {c} : call'[d] = call[d]
             /\ call'[c] = Idle
  BY <1>1, <1>3
<1>4. ASSUME NEW pc, call' = [call EXCEPT ![c].pc = pc]
      PROVE  /\ DOMAIN call' = Caller
             /\ \A d \in Caller \ {c} : call'[d] = call[d]
             /\ DOMAIN call'[c] = DOMAIN Idle
             /\ call'[c].pc = pc /\ call'[c].left = call[c].left
  BY <1>1, <1>4 DEF Idle
<1>5. ASSUME NEW r \in Ride, Describe(c, r)
      PROVE  /\ DOMAIN call' = Caller
             /\ \A d \in Caller \ {c} : call'[d] = call[d]
             /\ DOMAIN call'[c] = DOMAIN Idle
             /\ call'[c].pc = "next" /\ call'[c].left = 0
             /\ UNCHANGED since
  BY <1>5, DescribeStarts DEF Describe
<1>6. CASE ReadCache(c)
  <2>1. At(c, "next") /\ UNCHANGED since /\ call[c].left = 0
    BY <1>2, <1>6 DEF ReadCache, At
  <2>2. CASE FromCache(c)
    BY <2>1, <2>2, AddMoves DEF FromCache
  <2>3. CASE call' = [call EXCEPT ![c].pc = "wait"]
    BY <1>4, <2>1, <2>3
  <2>4. CASE Fail(c)
    BY <1>3, <2>1, <2>4, IdleIsEmpty DEF Fail
  <2>5. QED
    BY <1>6, <2>2, <2>3, <2>4 DEF ReadCache
<1>7. CASE Wake(c)
  <2>1. CASE call[c].left = 0 /\ call' = [call EXCEPT ![c].pc = "ask"] /\ since' = 0
    BY <1>4, <1>7, <2>1 DEF Wake
  <2>2. CASE Fail(c) /\ UNCHANGED since
    BY <1>3, <2>2, IdleIsEmpty DEF Fail
  <2>3. QED
    BY <1>7, <2>1, <2>2 DEF Wake
<1>8. CASE Ask(c)
  <2>1. At(c, "ask") /\ UNCHANGED since /\ call[c].left = 0
    BY <1>2, <1>8 DEF Ask, At
  <2>2. CASE Fail(c)
    BY <1>3, <2>1, <2>2, IdleIsEmpty DEF Fail
  <2>3. CASE ~Fail(c)
    <3>1. call' = [call EXCEPT ![c].pc = "save",
                               ![c].found = AllowedOnly(ReverseAt(config, Asked(c)))]
      BY <1>8, <2>3 DEF Ask
    <3>2. /\ DOMAIN call' = Caller
          /\ \A d \in Caller \ {c} : call'[d] = call[d]
          /\ DOMAIN call'[c] = DOMAIN Idle
          /\ call'[c].pc = "save" /\ call'[c].left = call[c].left
      BY <1>1, <3>1 DEF Idle
    <3>3. QED
      BY <2>1, <3>2
  <2>4. QED
    BY <2>2, <2>3
<1>9. CASE Save(c)
  <2>1. At(c, "save") /\ UNCHANGED since /\ call[c].left = 0
    BY <1>2, <1>9 DEF Save, At
  <2>2. CASE Add(c, call[c].found)
    BY <2>1, <2>2, AddMoves
  <2>3. CASE Fail(c)
    BY <1>3, <2>1, <2>3, IdleIsEmpty DEF Fail
  <2>4. QED
    BY <1>9, <2>2, <2>3 DEF Save
<1>10. CASE Finish(c)
  BY <1>2, <1>4, <1>10 DEF Finish, At
<1>11. CASE Return(c)
  BY <1>3, <1>11, IdleIsEmpty DEF Return
<1>12. QED
  BY <1>5, <1>6, <1>7, <1>8, <1>9, <1>10, <1>11 DEF Work

\* How the limiter lets a caller in: at once, or to sleep out the interval.
LEMMA AcquireMoves ==
  ASSUME Shape, NEW c \in Caller, Acquire(c)
  PROVE  /\ DOMAIN call' = Caller
         /\ \A d \in Caller \ {c} : call'[d] = call[d] /\ ~At(d, "sleep")
         /\ DOMAIN call'[c] = DOMAIN Idle
         /\ At(c, "wait") /\ call[c].left = 0
         /\ \/ /\ since = Interval /\ since' = 0
               /\ MovesOn(c, "ask") /\ call'[c].left = 0
            \/ /\ since < Interval /\ UNCHANGED since
               /\ MovesOn(c, "sleep") /\ call'[c].left = Interval - since
<1>1. /\ DOMAIN call = Caller /\ since \in 0..Interval /\ Interval \in Nat
      /\ DOMAIN call[c] = {"pc", "ride", "todo", "found", "left", "along", "region", "country"}
  BY GeoAssumption DEF Shape, Idle
<1>2. At(c, "wait") /\ call[c].left = 0 /\ \A d \in Caller : ~At(d, "sleep")
  BY GeoAssumption DEF Acquire, LimiterIsFree, Shape, At
<1>3. CASE since = Interval /\ call' = [call EXCEPT ![c].pc = "ask"] /\ since' = 0
  <2>1. MovesOn(c, "ask")
    BY <1>3, StepMovesOn
  <2>2. /\ DOMAIN call' = Caller /\ \A d \in Caller \ {c} : call'[d] = call[d]
        /\ DOMAIN call'[c] = DOMAIN Idle /\ call'[c].left = call[c].left
    BY <1>1, <1>3 DEF Idle
  <2>3. QED
    BY <1>2, <1>3, <2>1, <2>2
<1>4. CASE /\ since < Interval /\ UNCHANGED since
           /\ call' = [call EXCEPT ![c].pc = "sleep", ![c].left = Interval - since]
  <2>1. Interval - since \in Nat
    BY <1>1
  <2>2. MovesOn(c, "sleep")
    BY <1>4, <2>1, StepMovesOn
  <2>3. /\ DOMAIN call' = Caller /\ \A d \in Caller \ {c} : call'[d] = call[d]
        /\ DOMAIN call'[c] = DOMAIN Idle /\ call'[c].left = Interval - since
    BY <1>1, <1>4 DEF Idle
  <2>4. QED
    BY <1>2, <1>4, <2>2, <2>3
<1>5. QED
  BY <1>3, <1>4 DEF Acquire

\* No step lets a second caller sleep, or the sleeper oversleep.
LEMMA StepKeepsLimiter ==
  ASSUME Limiter, [Next]_vars
  PROVE  Limiter'
<1>1. Interval \in Nat /\ since \in 0..Interval /\ Shape
  BY GeoAssumption DEF Limiter, Shape
<1>2. ASSUME NEW c \in Caller, Work(c) \/ \E r \in Ride : Describe(c, r)
      PROVE  Limiter'
  <2>1. /\ DOMAIN call' = Caller
        /\ \A d \in Caller \ {c} : call'[d] = call[d]
        /\ DOMAIN call'[c] = DOMAIN Idle
        /\ call'[c].pc \in {"idle", "next", "wait", "ask", "save", "done"}
        /\ call'[c].left = 0
        /\ UNCHANGED since \/ (At(c, "sleep") /\ since' = 0)
    BY <1>1, <1>2, WorkMoves
  <2>2. At(c, "sleep") => \A d \in Caller \ {c} : ~At(d, "sleep")
    BY DEF Limiter, SleepsTheRest
  <2>3. QED
    BY <2>1, <2>2, SleeperSleepsOn
<1>3. ASSUME NEW c \in Caller, Acquire(c)
      PROVE  Limiter'
  <2>1. /\ DOMAIN call' = Caller
        /\ \A d \in Caller \ {c} : call'[d] = call[d] /\ ~At(d, "sleep")
        /\ DOMAIN call'[c] = DOMAIN Idle
        /\ \/ since' = 0 /\ call'[c].pc = "ask" /\ call'[c].left = 0
           \/ /\ since < Interval /\ UNCHANGED since
              /\ call'[c].pc = "sleep" /\ call'[c].left = Interval - since
    BY <1>1, <1>3, AcquireMoves DEF MovesOn
  <2>2. CASE since' = 0 /\ call'[c].pc = "ask" /\ call'[c].left = 0
    BY <2>1, <2>2, SleeperSleepsOn
  <2>3. CASE /\ since < Interval /\ UNCHANGED since
             /\ call'[c].pc = "sleep" /\ call'[c].left = Interval - since
    <3>1. Interval - since \in 0..Interval /\ (Interval - since) + since = Interval
      BY <1>1
    <3>2. Shape'
      BY <1>1, <2>1, <2>3, <3>1 DEF Shape, At
    <3>3. SleepsTheRest'
      BY <2>1, <2>3, <3>1 DEF SleepsTheRest, At
    <3>4. QED
      BY <3>2, <3>3 DEF Limiter
  <2>4. QED
    BY <2>1, <2>2, <2>3
<1>4. CASE Tick
  <2>1. /\ DOMAIN call' = Caller
        /\ \A c \in Caller :
             /\ DOMAIN call'[c] = DOMAIN Idle /\ call'[c].pc = call[c].pc
             /\ call'[c].left = IF call[c].left > 0 THEN call[c].left - 1 ELSE 0
    <3>1. ASSUME NEW c \in Caller
          PROVE  /\ DOMAIN call'[c] = DOMAIN Idle /\ call'[c].pc = call[c].pc
                 /\ call'[c].left = IF call[c].left > 0 THEN call[c].left - 1 ELSE 0
      BY <1>1, <1>4, TickPasses DEF MovesOn
    <3>2. DOMAIN call' = Caller
      BY <1>4 DEF Tick
    <3>3. QED
      BY <3>1, <3>2
  <2>2. since' \in 0..Interval /\ since' = IF since < Interval THEN since + 1 ELSE since
    BY <1>1, <1>4 DEF Tick
  <2>3. Shape'
    BY <1>1, <2>1, <2>2 DEF Shape, At
  <2>4. ASSUME NEW c \in Caller, call'[c].pc = "sleep"
        PROVE  /\ call'[c].left + since' = Interval
               /\ \A d \in Caller : call'[d].pc = "sleep" => d = c
    <3>1. /\ call[c].left + since = Interval /\ call[c].left \in 0..Interval
          /\ \A d \in Caller : call[d].pc = "sleep" => d = c
      BY <1>1, <2>1, <2>4 DEF Limiter, Shape, SleepsTheRest, At
    <3>2. call'[c].left + since' = Interval
      BY <1>1, <2>1, <2>2, <3>1
    <3>3. QED
      BY <2>1, <3>1, <3>2
  <2>5. SleepsTheRest'
    BY <2>4 DEF SleepsTheRest, At
  <2>6. QED
    BY <2>3, <2>5 DEF Limiter
<1>5. CASE Deploy
  <2>1. /\ since' = Interval /\ DOMAIN call' = Caller
        /\ \A c \in Caller : call'[c] = Idle
    BY <1>5 DEF Deploy
  <2>2. Shape' /\ SleepsTheRest'
    BY <1>1, <2>1, IdleIsEmpty DEF Shape, SleepsTheRest, At
  <2>3. QED
    BY <2>2 DEF Limiter
<1>6. CASE UNCHANGED vars
  BY <1>6 DEF vars, Limiter, Shape, SleepsTheRest, At
<1>7. QED
  BY <1>2, <1>3, <1>4, <1>5, <1>6 DEF Next

\* In the beginning nobody sleeps.
LEMMA LimiterStarts == Init => Limiter
<1> SUFFICES ASSUME Init PROVE Limiter
  OBVIOUS
<1>1. /\ since = Interval /\ DOMAIN call = Caller /\ Interval \in Nat
      /\ \A c \in Caller : call[c] = Idle
  BY GeoAssumption DEF Init
<1>2. QED
  BY <1>1, IdleIsEmpty DEF Limiter, Shape, SleepsTheRest, At

\* The limiter (wait) grants the requests of one process an interval apart,
\* however many callers wait for it and whichever of them give up.
THEOREM SpacesGrants == Spec => GrantsAreSpaced
<1> DEFINE Grant == \A c \in Caller : ~At(c, "ask") /\ At(c, "ask")' => since = Interval
<1>1. ASSUME Limiter, [Next]_vars PROVE Grant \/ UNCHANGED vars
  <2>1. Interval \in Nat /\ since \in 0..Interval /\ Shape
    BY <1>1, GeoAssumption DEF Limiter, Shape
  <2>2. ASSUME NEW c \in Caller, Work(c) \/ \E r \in Ride : Describe(c, r)
        PROVE  Grant
    <3>1. /\ \A d \in Caller \ {c} : call'[d] = call[d]
          /\ \/ call'[c].pc = "ask" => At(c, "ask")
             \/ At(c, "sleep") /\ call[c].left = 0
      BY <2>1, <2>2, WorkMoves
    <3>2. At(c, "sleep") /\ call[c].left = 0 => since = Interval
      BY <1>1, <2>1 DEF Limiter, SleepsTheRest
    <3>3. QED
      BY <3>1, <3>2 DEF At
  <2>3. ASSUME NEW c \in Caller, Acquire(c)
        PROVE  Grant
    <3>1. /\ \A d \in Caller \ {c} : call'[d] = call[d]
          /\ since = Interval \/ call'[c].pc = "sleep"
      BY <2>1, <2>3, AcquireMoves DEF MovesOn
    <3>2. QED
      BY <3>1 DEF At
  <2>4. CASE Tick
    <3>1. \A c \in Caller : call'[c].pc = call[c].pc
      BY <2>1, <2>4, TickPasses DEF MovesOn
    <3>2. QED
      BY <3>1 DEF At
  <2>5. CASE Deploy
    <3>1. \A c \in Caller : call'[c].pc = "idle"
      BY <2>5, IdleIsEmpty DEF Deploy
    <3>2. QED
      BY <3>1 DEF At
  <2>6. QED
    BY <1>1, <2>2, <2>3, <2>4, <2>5 DEF Next
<1>2. Limiter /\ [Next]_vars => [Grant]_vars
  BY <1>1
<1>3. Limiter /\ [Next]_vars => Limiter'
  BY StepKeepsLimiter
<1>4. QED
  BY <1>2, <1>3, LimiterStarts, PTL DEF Spec, GrantsAreSpaced
-----------------------------------------------------------------------------
(* The samples of a ride.                                                  *)

\* Of some places, each number below how many they are is how many come before one
\* of them.
LEMMA PlacesAreCounted ==
  ASSUME NEW m \in Nat, NEW kept \in SUBSET (1..m)
  PROVE  /\ IsFiniteSet(kept) /\ Cardinality(kept) \in 0..m
         /\ \A i \in kept : Cardinality({j \in kept : j < i}) \in 0..(Cardinality(kept) - 1)
         /\ \A i, k \in kept :
              Cardinality({j \in kept : j < i}) = Cardinality({j \in kept : j < k}) => i = k
         /\ \A n \in 1..Cardinality(kept) :
              \E i \in kept : Cardinality({j \in kept : j < i}) = n - 1
<1> DEFINE below(i) == {j \in kept : j < i}
           count == Cardinality(kept)
           T == 0..(count - 1)
           f == [i \in kept |-> Cardinality(below(i))]
<1>1. IsFiniteSet(kept) /\ count \in 0..m /\ count \in Nat
  <2>1. IsFiniteSet(1..m) /\ Cardinality(1..m) = m
    <3>1. IsFiniteSet(1..m) /\ Cardinality(1..m) = IF 1 > m THEN 0 ELSE m - 1 + 1
      BY FS_Interval
    <3>2. QED
      BY <3>1
  <2>2. IsFiniteSet(kept) /\ count <= Cardinality(1..m)
    BY <2>1, FS_Subset
  <2>3. QED
    BY <2>1, <2>2, FS_CardinalityType
<1>2. ASSUME NEW i \in kept
      PROVE  IsFiniteSet(below(i)) /\ Cardinality(below(i)) \in 0..(count - 1)
  <2>1. below(i) \in SUBSET kept /\ i \in kept /\ i \notin below(i)
    OBVIOUS
  <2> HIDE DEF below
  <2>2. IsFiniteSet(below(i)) /\ Cardinality(below(i)) <= count /\ Cardinality(below(i)) # count
    BY <1>1, <2>1, FS_Subset
  <2>3. Cardinality(below(i)) \in Nat
    BY <2>2, FS_CardinalityType
  <2>4. QED
    BY <1>1, <2>2, <2>3
<1>3. ASSUME NEW i \in kept, NEW k \in kept, i < k
      PROVE  Cardinality(below(i)) # Cardinality(below(k))
  <2>1. below(i) \in SUBSET below(k)
    <3>1. \A j \in kept : j \in Nat
      OBVIOUS
    <3>2. \A j \in kept : j < i => j < k
      BY <1>3, <3>1
    <3>3. QED
      BY <3>2
  <2>2. i \in below(k) /\ i \notin below(i)
    BY <1>3
  <2> HIDE DEF below
  <2>3. QED
    BY <1>2, <2>1, <2>2, FS_Subset
<1>4. ASSUME NEW i \in kept, NEW k \in kept, Cardinality(below(i)) = Cardinality(below(k))
      PROVE  i = k
  <2>1. ~(i < k) /\ ~(k < i)
    BY <1>3, <1>4
  <2>2. QED
    BY <2>1
<1>5. f \in Injection(kept, T)
  <2>1. f \in [kept -> T]
    <3> HIDE DEF below, T
    <3>1. QED
      BY <1>2 DEF T
  <2>2. \A i, k \in kept : f[i] = f[k] => i = k
    BY <1>4
  <2> HIDE DEF f, T
  <2>3. QED
    BY <2>1, <2>2, Fun_IsInj
<1>6. IsFiniteSet(T) /\ Cardinality(T) = count
  <2> HIDE DEF count
  <2>1. 0 \in Int /\ count - 1 \in Int
    BY <1>1
  <2>2. IsFiniteSet(T) /\ Cardinality(T) = IF 0 > count - 1 THEN 0 ELSE count - 1 - 0 + 1
    BY <2>1, FS_Interval
  <2>3. QED
    BY <1>1, <2>2
<1>7. ASSUME NEW n \in 1..count
      PROVE  \E i \in kept : Cardinality(below(i)) = n - 1
  <2>1. f \in Surjection(kept, T)
    <3> HIDE DEF f, T
    <3>1. QED
      BY <1>5, <1>6, FS_Injection
  <2>2. n - 1 \in T
    BY <1>1
  <2>3. PICK i \in kept : f[i] = n - 1
    <3> HIDE DEF f, T
    <3>1. \A t \in T : \E i \in kept : f[i] = t
      BY <2>1, Fun_SurjectionProperties
    <3>2. QED
      BY <2>2, <3>1
  <2>4. QED
    BY <2>3
<1>8. QED
  BY <1>1, <1>2, <1>4, <1>7

\* What is picked is what the places hold, all of it and nothing else.
LEMMA PickedIsKept ==
  ASSUME NEW points, NEW m \in Nat, NEW kept \in SUBSET (1..m)
  PROVE  /\ Picked(points, kept) \in Seq({points[i] : i \in kept})
         /\ Len(Picked(points, kept)) = Cardinality(kept) /\ Cardinality(kept) \in 0..m
         /\ Range(Picked(points, kept)) = {points[i] : i \in kept}
<1> DEFINE count == Cardinality(kept)
           before(i) == Cardinality({j \in kept : j < i})
           at(n) == CHOOSE i \in kept : before(i) = n - 1
           S == {points[i] : i \in kept}
           p == Picked(points, kept)
<1>1. /\ count \in 0..m /\ count \in Nat
      /\ \A i \in kept : before(i) \in 0..(count - 1)
      /\ \A i, k \in kept : before(i) = before(k) => i = k
      /\ \A n \in 1..count : \E i \in kept : before(i) = n - 1
  <2>1. /\ count \in 0..m
        /\ \A i \in kept : before(i) \in 0..(count - 1)
        /\ \A i, k \in kept : before(i) = before(k) => i = k
        /\ \A n \in 1..count : \E i \in kept : before(i) = n - 1
    BY PlacesAreCounted, Zenon
  <2> HIDE DEF count, before
  <2>2. QED
    BY <2>1
<1> HIDE DEF count, before
<1>2. \A n \in 1..count : at(n) \in kept /\ before(at(n)) = n - 1
  BY <1>1
<1>3. p = [n \in 1..count |-> points[at(n)]]
  BY DEF Picked, count, before
<1> HIDE DEF at, p
<1>4. p \in [1..count -> S]
  BY <1>2, <1>3
<1>5. p \in Seq(S) /\ Len(p) = count /\ DOMAIN p = 1..count
  <2> HIDE DEF S
  <2>1. QED
    BY <1>1, <1>4
<1>6. ASSUME NEW i \in kept PROVE points[i] \in Range(p)
  <2>1. before(i) + 1 \in 1..count
    BY <1>1
  <2>2. at(before(i) + 1) \in kept /\ before(at(before(i) + 1)) = before(i)
    BY <1>1, <1>2, <2>1
  <2>3. at(before(i) + 1) = i
    BY <1>1, <2>2
  <2>4. QED
    BY <1>3, <1>5, <2>1, <2>3 DEF Range
<1>7. Range(p) \subseteq S
  BY <1>4, <1>5 DEF Range
<1>8. QED
  BY <1>1, <1>5, <1>6, <1>7 DEF p, count

\* withoutEndpoints leaves no point in the cell of an end.
LEMMA EndsAreLeftOut ==
  ASSUME NEW track, NEW S, NEW samples \in Seq(S)
  PROVE  /\ WithoutEndpoints(track, samples) \in Seq(Range(WithoutEndpoints(track, samples)))
         /\ Len(WithoutEndpoints(track, samples)) \in 0..Len(samples)
         /\ \A p \in Range(WithoutEndpoints(track, samples)) : CellOf(p) \notin Ends(track)
<1> DEFINE kept == {i \in DOMAIN samples : CellOf(samples[i]) \notin Ends(track)}
           T == {samples[i] : i \in kept}
<1>1. Len(samples) \in Nat /\ DOMAIN samples = 1..Len(samples)
  OBVIOUS
<1>2. kept \in SUBSET (1..Len(samples))
  BY <1>1
<1>3. \A p \in T : CellOf(p) \notin Ends(track)
  OBVIOUS
<1>4. WithoutEndpoints(track, samples) = Picked(samples, kept)
  BY DEF WithoutEndpoints
<1> HIDE DEF kept
<1>5. /\ Picked(samples, kept) \in Seq(T)
      /\ Len(Picked(samples, kept)) = Cardinality(kept) /\ Cardinality(kept) \in 0..Len(samples)
      /\ Range(Picked(samples, kept)) = T
  BY <1>1, <1>2, PickedIsKept
<1>6. QED
  BY <1>3, <1>4, <1>5

\* Each cell once is a cell of a point, and no more of them than points.
LEMMA DistinctAreCells ==
  ASSUME NEW S, NEW points \in Seq(S)
  PROVE  /\ Distinct(points) \in Seq(Range(Distinct(points)))
         /\ Len(Distinct(points)) \in 0..Len(points)
         /\ Range(Distinct(points)) \subseteq {CellOf(p) : p \in Range(points)}
<1> DEFINE first == {i \in DOMAIN points :
                       \A j \in 1..(i - 1) : CellOf(points[j]) # CellOf(points[i])}
           once == Picked(points, first)
           T == {points[i] : i \in first}
           cells == [n \in DOMAIN once |-> CellOf(once[n])]
<1>1. Len(points) \in Nat /\ DOMAIN points = 1..Len(points)
  OBVIOUS
<1>2. first \in SUBSET (1..Len(points)) /\ T \subseteq Range(points)
  BY <1>1 DEF Range
<1>3. Distinct(points) = cells
  BY DEF Distinct
<1> HIDE DEF first
<1>4. /\ once \in Seq(T) /\ Len(once) = Cardinality(first)
      /\ Cardinality(first) \in 0..Len(points) /\ Range(once) = T
  BY <1>1, <1>2, PickedIsKept
<1> HIDE DEF once, T
<1>5. DOMAIN once = 1..Len(once) /\ Len(once) \in Nat
  BY <1>4
<1>6. cells \in [1..Len(once) -> Range(cells)]
  BY <1>5 DEF Range
<1>7. cells \in Seq(Range(cells)) /\ Len(cells) = Len(once)
  <2> HIDE DEF cells
  <2>1. QED
    BY <1>5, <1>6
<1>8. Range(cells) \subseteq {CellOf(p) : p \in Range(once)}
  BY <1>5 DEF Range
<1>9. QED
  BY <1>2, <1>3, <1>4, <1>7, <1>8

\* SamplePoints and Describe: a ride is asked about in at most one cell more than
\* it has samples, and in no cell the track starts or ends in.
LEMMA SamplesAreFew ==
  ASSUME NEW r \in Ride
  PROVE  /\ Samples[r] \in Seq(Range(Samples[r])) /\ Len(Samples[r]) <= MaxSampleCount + 1
         /\ Len(Samples[r]) \in Nat /\ DOMAIN Samples[r] = 1..Len(Samples[r])
         /\ Track[r] # <<>> => Range(Samples[r]) \cap Ends(Track[r]) = {}
<1> DEFINE track == Track[r]
           total == ArcLengths(track)[Len(track)]
           interior == IF total = 0 THEN <<>>
                       ELSE [k \in 1..Count |-> PointAtArc(track, k * (total \div (Count + 1)))]
           far == FarthestFrom(track[1], track)
           all == Append(interior, far)
           off == WithoutEndpoints(track, all)
<1>1. Count \in Nat /\ Count <= MaxSampleCount /\ MaxSampleCount = 6
  BY GeoAssumption DEF MaxSampleCount
<1>2. Samples[r] = IF track = <<>> THEN <<>> ELSE Distinct(off)
  BY DEF Samples, SamplePoints
<1>3. interior \in Seq(Range(interior)) /\ Len(interior) \in 0..Count
  <2>1. CASE total = 0
    BY <1>1, <2>1 DEF Range
  <2>2. CASE total # 0
    <3>1. interior \in [1..Count -> Range(interior)]
      BY <2>2 DEF Range
    <3> HIDE DEF interior
    <3>2. QED
      BY <1>1, <3>1
  <2>3. QED
    BY <2>1, <2>2
<1> HIDE DEF interior, far, track
<1>4. all \in Seq(Range(interior) \cup {far}) /\ Len(all) \in 0..(Count + 1)
  <2>1. interior \in Seq(Range(interior) \cup {far}) /\ far \in Range(interior) \cup {far}
    BY <1>3
  <2>2. all \in Seq(Range(interior) \cup {far}) /\ Len(all) = Len(interior) + 1
    BY <2>1, AppendProperties
  <2>3. QED
    BY <1>1, <1>3, <2>2
<1> HIDE DEF all
<1>5. /\ off \in Seq(Range(off)) /\ Len(off) \in 0..Len(all)
      /\ \A p \in Range(off) : CellOf(p) \notin Ends(track)
  BY <1>4, EndsAreLeftOut
<1> HIDE DEF off
<1>6. /\ Distinct(off) \in Seq(Range(Distinct(off))) /\ Len(Distinct(off)) \in 0..Len(off)
      /\ Range(Distinct(off)) \subseteq {CellOf(p) : p \in Range(off)}
  BY <1>5, DistinctAreCells
<1>7. CASE track = <<>>
  <2>1. Samples[r] = <<>> /\ <<>> \in Seq(Range(<<>>)) /\ Len(<<>>) = 0 /\ DOMAIN <<>> = 1..0
    BY <1>2, <1>7 DEF Range
  <2>2. QED
    BY <1>1, <1>7, <2>1 DEF track
<1>8. CASE track # <<>>
  <2>1. Samples[r] = Distinct(off) /\ Len(Samples[r]) \in 0..(Count + 1)
    BY <1>1, <1>2, <1>4, <1>5, <1>6, <1>8
  <2>2. Range(Samples[r]) \cap Ends(track) = {}
    BY <1>5, <1>6, <2>1
  <2> HIDE DEF Range
  <2>3. Len(Samples[r]) \in Nat /\ Len(Samples[r]) <= MaxSampleCount + 1
    BY <1>1, <2>1
  <2>4. Samples[r] \in Seq(Range(Samples[r]))
    BY <1>6, <2>1
  <2>5. DOMAIN Samples[r] = 1..Len(Samples[r])
    BY <2>4
  <2>6. QED
    BY <2>2, <2>3, <2>4, <2>5 DEF track
<1>9. QED
  BY <1>7, <1>8
-----------------------------------------------------------------------------
(* The summary.                                                            *)

\* What append does to what a sequence lists.
LEMMA AppendLists ==
  ASSUME NEW s, s \in Seq(Range(s)), NEW e
  PROVE  /\ Append(s, e) \in Seq(Range(Append(s, e)))
         /\ Range(Append(s, e)) = Range(s) \cup {e}
         /\ DOMAIN s = 1..Len(s) /\ Len(s) \in Nat
         /\ DOMAIN Append(s, e) = 1..(Len(s) + 1)
         /\ \A i \in 1..Len(s) : Append(s, e)[i] = s[i]
         /\ Append(s, e)[Len(s) + 1] = e
<1> DEFINE S == Range(s) \cup {e}
<1>1. s \in Seq(S) /\ e \in S /\ DOMAIN s = 1..Len(s) /\ Len(s) \in Nat
  OBVIOUS
<1>2. /\ Append(s, e) \in Seq(S) /\ Len(Append(s, e)) = Len(s) + 1
      /\ \A i \in 1..Len(s) : Append(s, e)[i] = s[i]
      /\ Append(s, e)[Len(s) + 1] = e
  BY <1>1, AppendProperties
<1>3. DOMAIN Append(s, e) = 1..(Len(s) + 1)
  BY <1>2
<1>4. Range(Append(s, e)) = Range(s) \cup {e}
  <2>1. ASSUME NEW x \in Range(Append(s, e)) PROVE x \in Range(s) \cup {e}
    BY <1>2, <1>3 DEF Range
  <2>2. ASSUME NEW x \in Range(s) PROVE x \in Range(Append(s, e))
    <3>1. PICK i \in 1..Len(s) : x = s[i]
      BY <1>1 DEF Range
    <3>2. i \in 1..(Len(s) + 1) /\ Append(s, e)[i] = x
      BY <1>1, <1>2, <3>1
    <3>3. QED
      BY <1>3, <3>2 DEF Range
  <2>3. e \in Range(Append(s, e))
    <3>1. Len(s) + 1 \in 1..(Len(s) + 1)
      BY <1>1
    <3>2. QED
      BY <1>2, <1>3, <3>1 DEF Range
  <2>4. QED
    BY <2>1, <2>2, <2>3
<1>5. QED
  BY <1>1, <1>2, <1>3, <1>4

\* A call on its way through the samples of its ride.
OnItsWay(conf, x) ==
  /\ x.ride \in Ride
  /\ x.along \in Seq(Range(x.along))
  /\ ListsSoFar(conf, x)

\* It is never further from its end than the ride has samples.
LEMMA WayIsShort ==
  ASSUME NEW conf, NEW x, OnItsWay(conf, x)
  PROVE  Len(x.todo) <= MaxSampleCount + 1
<1> DEFINE cells == Samples[x.ride]
<1>1. /\ cells \in Seq(Range(cells)) /\ Len(cells) <= MaxSampleCount + 1
      /\ Len(cells) \in Nat /\ DOMAIN cells = 1..Len(cells)
  BY SamplesAreFew DEF OnItsWay
<1>2. PICK k \in 0..Len(cells) : x.todo = SubSeq(cells, k + 1, Len(cells))
  BY DEF OnItsWay, ListsSoFar
<1>3. \A i \in (k + 1)..Len(cells) : cells[i] \in Range(cells)
  BY <1>1 DEF Range
<1>4. Len(x.todo) = IF k + 1 <= Len(cells) THEN Len(cells) - (k + 1) + 1 ELSE 0
  BY <1>1, <1>2, <1>3, SubSeqProperties
<1>5. QED
  BY <1>1, <1>2, <1>4 DEF MaxSampleCount

\* A call that has just been told its ride is at the first of its samples.
LEMMA WayStarts ==
  ASSUME NEW conf, NEW x, x.ride \in Ride, x.todo = Samples[x.ride],
         x.along = <<>>
  PROVE  OnItsWay(conf, x)
<1> DEFINE cells == Samples[x.ride]
<1>1. cells \in Seq(Range(cells)) /\ Len(cells) \in Nat
  BY SamplesAreFew
<1>2. SubSeq(cells, 0 + 1, Len(cells)) = x.todo /\ 0 \in 0..Len(cells)
  BY <1>1, SubSeqFull
<1>3. Range(x.along) = {} /\ DOMAIN x.along = {} /\ x.along \in Seq(Range(x.along))
  BY DEF Range
<1>4. NamesOf(conf, cells, 0) = {}
  BY DEF NamesOf
<1>5. \E k \in 0..Len(cells) :
        /\ x.todo = SubSeq(cells, k + 1, Len(cells))
        /\ Range(x.along) = NamesOf(conf, cells, k)
  BY <1>2, <1>3, <1>4
<1>6. QED
  BY <1>3, <1>5 DEF OnItsWay, ListsSoFar

\* What Add makes of the names listed.
Extended(along, name) ==
  IF name # "" /\ \A i \in DOMAIN along : along[i] # name THEN Append(along, name) ELSE along

\* The name of the next cell keeps the list what it is: it is appended unless
\* there is none or it is listed already (Describe).
LEMMA WayGoesOn ==
  ASSUME NEW conf, NEW x, NEW y, OnItsWay(conf, x), x.todo # <<>>,
         NEW name, name = Normal(Told(conf, Head(x.todo))),
         y.ride = x.ride, y.todo = Tail(x.todo),
         y.along = Extended(x.along, name)
  PROVE  OnItsWay(conf, y)
<1> DEFINE cells == Samples[x.ride]
<1>1. cells \in Seq(Range(cells)) /\ Len(cells) \in Nat /\ x.along \in Seq(Range(x.along))
  BY SamplesAreFew DEF OnItsWay
<1>2. PICK k \in 0..Len(cells) :
        x.todo = SubSeq(cells, k + 1, Len(cells)) /\ Range(x.along) = NamesOf(conf, cells, k)
  BY DEF OnItsWay, ListsSoFar
<1> HIDE DEF cells
<1>3. k \in Nat /\ k + 1 \in 1..Len(cells) /\ Len(cells) \in (k + 1)..Len(cells)
  <2>1. x.todo = SubSeq(cells, k + 1, Len(cells))
    BY <1>2
  <2>2. Len(cells) < k + 1 => SubSeq(cells, k + 1, Len(cells)) = <<>>
    BY <1>1, SubSeqEmpty
  <2>3. ~(Len(cells) < k + 1)
    BY <2>1, <2>2
  <2>4. QED
    BY <1>1, <2>3
<1>4. /\ Head(x.todo) = cells[k + 1]
      /\ y.todo = SubSeq(cells, (k + 1) + 1, Len(cells))
  <2>1. /\ Head(SubSeq(cells, k + 1, Len(cells))) = cells[k + 1]
        /\ Tail(SubSeq(cells, k + 1, Len(cells))) = SubSeq(cells, (k + 1) + 1, Len(cells))
    BY <1>1, <1>3, HeadTailOfSubSeq
  <2>2. QED
    BY <1>2, <2>1
<1>5. NamesOf(conf, cells, k + 1) = NamesOf(conf, cells, k) \cup ({name} \ {""})
  <2>1. 1..(k + 1) = (1..k) \cup {k + 1}
    BY <1>3
  <2>2. QED
    BY <1>4, <2>1 DEF NamesOf
<1>6. ASSUME Range(y.along) = NamesOf(conf, cells, k + 1), y.along \in Seq(Range(y.along)),
             \A i, j \in DOMAIN y.along : y.along[i] = y.along[j] => i = j
      PROVE  OnItsWay(conf, y)
  <2>1. k + 1 \in 0..Len(cells) /\ Samples[y.ride] = cells
    BY <1>1, <1>3 DEF cells
  <2>2. \E n \in 0..Len(cells) :
          /\ y.todo = SubSeq(cells, n + 1, Len(cells))
          /\ Range(y.along) = NamesOf(conf, cells, n)
    BY <1>4, <1>6, <2>1
  <2>3. y.ride \in Ride
    BY DEF OnItsWay
  <2>4. QED
    BY <1>6, <2>1, <2>2, <2>3 DEF OnItsWay, ListsSoFar
<1>7. CASE name # "" /\ \A i \in DOMAIN x.along : x.along[i] # name
  <2>1. y.along = Append(x.along, name)
    BY <1>7 DEF Extended
  <2>2. /\ y.along \in Seq(Range(y.along)) /\ Range(y.along) = Range(x.along) \cup {name}
        /\ DOMAIN x.along = 1..Len(x.along) /\ Len(x.along) \in Nat
        /\ DOMAIN y.along = 1..(Len(x.along) + 1)
        /\ \A i \in 1..Len(x.along) : y.along[i] = x.along[i]
        /\ y.along[Len(x.along) + 1] = name
    <3> DEFINE s == x.along
               longer == Append(s, name)
    <3>1. s \in Seq(Range(s))
      BY <1>1
    <3> HIDE DEF s
    <3>2. /\ longer \in Seq(Range(longer)) /\ Range(longer) = Range(s) \cup {name}
          /\ DOMAIN s = 1..Len(s) /\ Len(s) \in Nat
          /\ DOMAIN longer = 1..(Len(s) + 1)
          /\ \A i \in 1..Len(s) : longer[i] = s[i]
          /\ longer[Len(s) + 1] = name
      BY <3>1, AppendLists
    <3>3. y.along = longer
      BY <2>1 DEF s
    <3> HIDE DEF longer
    <3>4. QED
      BY <3>2, <3>3 DEF s
  <2>3. Range(y.along) = NamesOf(conf, cells, k + 1)
    BY <1>2, <1>5, <1>7, <2>2
  <2>4. \A i, j \in DOMAIN x.along : x.along[i] = x.along[j] => i = j
    BY DEF OnItsWay, ListsSoFar
  <2>5. ASSUME NEW i \in DOMAIN y.along, NEW j \in DOMAIN y.along, y.along[i] = y.along[j]
        PROVE  i = j
    <3>1. /\ i \in DOMAIN x.along \/ i = Len(x.along) + 1
          /\ j \in DOMAIN x.along \/ j = Len(x.along) + 1
      BY <2>2
    <3>2. QED
      BY <1>7, <2>2, <2>4, <2>5, <3>1
  <2>6. QED
    BY <1>6, <2>2, <2>3, <2>5
<1>8. CASE ~(name # "" /\ \A i \in DOMAIN x.along : x.along[i] # name)
  <2>1. y.along = x.along
    BY <1>8 DEF Extended
  <2>2. name = "" \/ name \in Range(x.along)
    BY <1>8 DEF Range
  <2>3. Range(y.along) = NamesOf(conf, cells, k + 1)
    BY <1>2, <1>5, <2>1, <2>2
  <2>4. QED
    BY <1>1, <1>6, <2>1, <2>3 DEF OnItsWay, ListsSoFar
<1>9. QED
  BY <1>7, <1>8
\* What is left to ask about are samples of the ride.
LEMMA TodoIsSampled ==
  ASSUME NEW conf, NEW x, x.ride \in Ride, ListsSoFar(conf, x)
  PROVE  Range(x.todo) \subseteq Range(Samples[x.ride])
<1> DEFINE cells == Samples[x.ride]
<1>1. cells \in Seq(Range(cells)) /\ Len(cells) \in Nat /\ DOMAIN cells = 1..Len(cells)
  BY SamplesAreFew
<1>2. PICK k \in 0..Len(cells) : x.todo = SubSeq(cells, k + 1, Len(cells))
  BY DEF ListsSoFar
<1> HIDE DEF cells
<1>3. \A i \in (k + 1)..Len(cells) : cells[i] \in Range(cells)
  BY <1>1 DEF Range
<1>4. SubSeq(cells, k + 1, Len(cells)) \in Seq(Range(cells))
  <2>1. k + 1 \in Int /\ Len(cells) \in Int
    BY <1>1, <1>2
  <2> HIDE DEF Range
  <2>2. QED
    BY <1>3, <2>1, SubSeqProperties
<1>5. x.todo \in Seq(Range(cells))
  BY <1>2, <1>4
<1>6. ASSUME NEW cell \in Range(x.todo) PROVE cell \in Range(cells)
  <2>1. PICK i \in DOMAIN x.todo : cell = x.todo[i]
    BY DEF Range
  <2> HIDE DEF Range
  <2>2. x.todo[i] \in Range(cells)
    BY <1>5, <2>1, ElementOfSeq
  <2>3. QED
    BY <2>1, <2>2
<1>7. QED
  BY <1>6 DEF cells

-----------------------------------------------------------------------------
(* The invariant.                                                          *)

\* A call that asks only what is missing, keeps the answer to what it asked,
\* and lists the names of its ride.
Sound(conf, x) ==
  /\ x.pc \in {"idle", "done"} => x.todo = <<>>
  /\ x.pc \in {"wait", "sleep", "ask", "save"} =>
       x.todo # <<>> /\ CacheKey(conf, Head(x.todo)) \notin DOMAIN Earlier
  /\ x.pc = "save" => x.found = AllowedOnly(ReverseAt(conf, Head(x.todo)))
  /\ x.along \in Seq(Range(x.along))
  /\ x.pc # "idle" => OnItsWay(conf, x)

\* What is deployed, and that the cache holds places.
Deployed ==
  /\ config \in Config /\ Valid(config)
  /\ deploys \in 0..MaxDeploys
  /\ \A k \in DOMAIN cache : DOMAIN cache[k] = DOMAIN NoPlace

Parts ==
  /\ Limiter
  /\ Deployed
  /\ CacheTells
  /\ \A c \in Caller : Sound(config, call[c])

\* The parts are all of the invariant that TLC checks: that a call has no more
\* cells left than its ride has samples follows from where it is.
LEMMA PartsAreIInv ==
  ASSUME Parts
  PROVE  IInv
<1>1. ASSUME NEW c \in Caller PROVE Len(call[c].todo) <= MaxSampleCount + 1
  <2>1. CASE call[c].pc = "idle"
    BY <2>1 DEF Parts, Sound, MaxSampleCount
  <2>2. CASE call[c].pc # "idle"
    BY <2>2, WayIsShort DEF Parts, Sound
  <2>3. QED
    BY <2>1, <2>2
<1>2. TypeOK
  BY <1>1 DEF Parts, Limiter, Shape, Deployed, TypeOK, Sound, OnItsWay, At
<1>3. AsksWhatIsMissing
  BY DEF Parts, Sound, AsksWhatIsMissing, At, Asked
<1>4. ListedSoFar
  BY DEF Parts, Sound, OnItsWay, ListedSoFar, At
<1>5. ASSUME NEW c \in Caller, ~At(c, "idle"), Track[call[c].ride] # <<>>
      PROVE  Range(call[c].todo) \cap Ends(Track[call[c].ride]) = {}
  <2>1. call[c].ride \in Ride /\ ListsSoFar(config, call[c])
    BY <1>5 DEF Parts, Sound, OnItsWay, At
  <2>2. QED
    BY <1>5, <2>1, TodoIsSampled, SamplesAreFew
<1>6. QED
  BY <1>2, <1>3, <1>4, <1>5 DEF IInv, Parts, Limiter, EndsAreNeverAsked

\* A call at rest is sound.
LEMMA IdleIsSound == ASSUME NEW conf PROVE Sound(conf, Idle)
<1>1. /\ Idle.pc = "idle" /\ Idle.todo = <<>> /\ Idle.along = <<>>
      /\ <<>> \in Seq(Range(<<>>))
  BY IdleIsEmpty
<1>2. QED
  BY <1>1 DEF Sound

\* A call that goes on with what it has is still on its way.
LEMMA WayStays ==
  ASSUME NEW conf, NEW c \in Caller, NEW pc, MovesOn(c, pc), OnItsWay(conf, call[c])
  PROVE  OnItsWay(conf, call'[c]) /\ call'[c].along \in Seq(Range(call'[c].along))
BY DEF MovesOn, OnItsWay, ListsSoFar

\* A call that is told the name of its cell goes on to the next.
LEMMA AddIsSound ==
  ASSUME Shape, NEW c \in Caller, OnItsWay(config, call[c]),
         call[c].todo # <<>>,
         NEW place, place.name = Told(config, Asked(c)), Add(c, place)
  PROVE  Sound(config, call'[c]) /\ \A d \in Caller \ {c} : call'[d] = call[d]
<1>1. /\ \A d \in Caller \ {c} : call'[d] = call[d]
      /\ call'[c].pc = "next" /\ call'[c].ride = call[c].ride
      /\ call'[c].todo = Tail(call[c].todo)
      /\ call'[c].along =
           IF Normal(place.name) # "" /\ IsNew(c, place)
           THEN Append(call[c].along, Normal(place.name)) ELSE call[c].along
  BY AddMoves
<1>2. call'[c].along = Extended(call[c].along, Normal(place.name))
  BY <1>1 DEF Extended, IsNew
<1>3. Normal(place.name) = Normal(Told(config, Head(call[c].todo)))
  BY DEF Asked
<1>4. OnItsWay(config, call'[c])
  BY <1>1, <1>2, <1>3, WayGoesOn
<1>5. QED
  BY <1>1, <1>4 DEF Sound, OnItsWay

\* Storing the answer to the question asked leaves a cache that tells what is.
LEMMA SaveTells ==
  ASSUME Parts, NEW c \in Caller, At(c, "save"), SavePlace(c)
  PROVE  CacheTells' /\ \A k \in DOMAIN cache' : DOMAIN cache'[k] = DOMAIN NoPlace
<1> DEFINE key == CacheKey(config, Asked(c))
           answer == AllowedOnly(ReverseAt(config, Asked(c)))
<1>1. key \notin DOMAIN Earlier /\ call[c].found = answer
  BY DEF Parts, Sound, At, Asked
<1>2. /\ DOMAIN cache' = {key} \cup DOMAIN cache
      /\ cache'[key] = answer
      /\ \A k \in DOMAIN cache \ {key} : cache'[k] = cache[k]
  BY <1>1 DEF SavePlace
<1>3. key[1] = Scope(config) /\ key[2] = Asked(c)
  BY DEF CacheKey
<1>4. ASSUME NEW conf \in Config, Valid(conf), key[1] = Scope(conf)
      PROVE  cache'[key] = AllowedOnly(ReverseAt(conf, key[2]))
  <2>1. Scope(config) = Scope(conf)
    BY <1>3, <1>4
  <2>2. ReverseAt(config, Asked(c)) = ReverseAt(conf, Asked(c))
    BY <2>1, OneScopeOneAnswer
  <2>3. answer = AllowedOnly(ReverseAt(conf, Asked(c)))
    BY <2>2
  <2> HIDE DEF key, answer
  <2>4. QED
    BY <1>2, <1>3, <2>3
<1>5. DOMAIN answer = DOMAIN NoPlace
  BY AnswerIsPlace
<1> HIDE DEF key, answer
<1>6. CacheTells'
  BY <1>1, <1>2, <1>4 DEF CacheTells, Parts
<1>7. QED
  BY <1>2, <1>5, <1>6 DEF Parts, Deployed

\* A step of one caller, seen from the others: what is deployed stays, and its
\* own soundness is all there is to show.
LEMMA StoringStepIsSound ==
  ASSUME Parts, Limiter', NEW c \in Caller,
         \A d \in Caller \ {c} : call'[d] = call[d],
         Sound(config, call'[c]),
         UNCHANGED <<config, deploys>>,
         CacheTells', \A k \in DOMAIN cache' : DOMAIN cache'[k] = DOMAIN NoPlace
  PROVE  Parts'
<1>1. \A d \in Caller : Sound(config', call'[d])
  BY DEF Parts
<1>2. Deployed'
  BY DEF Parts, Deployed
<1>3. QED
  BY <1>1, <1>2 DEF Parts

\* So it is if the step stores nothing.
LEMMA OneStepIsSound ==
  ASSUME Parts, Limiter', NEW c \in Caller,
         \A d \in Caller \ {c} : call'[d] = call[d],
         Sound(config, call'[c]),
         UNCHANGED <<config, cache, deploys>>
  PROVE  Parts'
<1>1. CacheTells' /\ \A k \in DOMAIN cache' : DOMAIN cache'[k] = DOMAIN NoPlace
  BY DEF Parts, CacheTells, Deployed
<1>2. QED
  BY <1>1, StoringStepIsSound

\* A caller's own steps keep the parts.
LEMMA WorkKeepsParts ==
  ASSUME Parts, Limiter', NEW c \in Caller,
         Work(c) \/ Acquire(c) \/ \E r \in Ride : Describe(c, r)
  PROVE  Parts'
<1>1. /\ Shape /\ DOMAIN call = Caller /\ config \in Config /\ Valid(config) /\ CacheTells
      /\ Sound(config, call[c])
  BY DEF Parts, Limiter, Shape, Deployed
<1>2. ASSUME Fail(c)
      PROVE  Sound(config, call'[c]) /\ \A d \in Caller \ {c} : call'[d] = call[d]
  BY <1>1, <1>2, IdleIsSound DEF Fail
<1>3. ASSUME NEW r \in Ride, Describe(c, r)
      PROVE  Parts'
  <2>1. /\ \A d \in Caller \ {c} : call'[d] = call[d]
        /\ call'[c].pc = "next" /\ call'[c].ride = r /\ call'[c].todo = Samples[r]
        /\ call'[c].along = <<>>
    BY <1>1, <1>3, DescribeStarts
  <2>2. OnItsWay(config, call'[c])
    BY <2>1, WayStarts
  <2>3. Sound(config, call'[c])
    BY <2>1, <2>2 DEF Sound, OnItsWay
  <2>4. UNCHANGED <<config, cache, deploys>>
    BY <1>3 DEF Describe
  <2>5. QED
    BY <2>1, <2>3, <2>4, OneStepIsSound
<1>4. CASE ReadCache(c)
  <2>1. /\ call[c].pc = "next" /\ call[c].todo # <<>> /\ UNCHANGED <<config, cache, deploys>>
        /\ OnItsWay(config, call[c])
    BY <1>1, <1>4 DEF ReadCache, At, Sound
  <2>2. CASE CacheKey(config, Asked(c)) \in DOMAIN cache /\ FromCache(c)
    <3> DEFINE place == AllowedOnly(cache[CacheKey(config, Asked(c))])
    <3>1. place.name = Told(config, Asked(c))
      BY <1>1, <2>2, EntryTells
    <3>2. Add(c, place)
      BY <2>2 DEF FromCache
    <3> HIDE DEF place
    <3>3. Sound(config, call'[c]) /\ \A d \in Caller \ {c} : call'[d] = call[d]
      BY <1>1, <2>1, <3>1, <3>2, AddIsSound
    <3>4. QED
      BY <2>1, <3>3, OneStepIsSound
  <2>3. CASE /\ CacheKey(config, Asked(c)) \notin DOMAIN cache
             /\ call' = [call EXCEPT ![c].pc = "wait"]
    <3>1. MovesOn(c, "wait") /\ \A d \in Caller \ {c} : call'[d] = call[d]
      BY <1>1, <2>3, StepMovesOn
    <3>2. CacheKey(config, Head(call[c].todo)) \notin DOMAIN Earlier
      BY <1>1, <2>3 DEF CacheTells, Asked
    <3>3. OnItsWay(config, call'[c]) /\ call'[c].along \in Seq(Range(call'[c].along))
      BY <2>1, <3>1, WayStays
    <3>4. Sound(config, call'[c])
      BY <2>1, <3>1, <3>2, <3>3 DEF Sound, MovesOn
    <3>5. QED
      BY <2>1, <3>1, <3>4, OneStepIsSound
  <2>4. CASE Fail(c)
    BY <1>2, <2>1, <2>4, OneStepIsSound
  <2>5. QED
    BY <1>4, <2>2, <2>3, <2>4 DEF ReadCache
\* The wait for the limiter, and the sleep.
<1>5. ASSUME NEW pc \in {"sleep", "ask"}, MovesOn(c, pc), call[c].pc \in {"wait", "sleep"},
             \A d \in Caller \ {c} : call'[d] = call[d],
             UNCHANGED <<config, cache, deploys>>
      PROVE  Parts'
  <2>1. /\ call[c].todo # <<>> /\ CacheKey(config, Head(call[c].todo)) \notin DOMAIN Earlier
        /\ OnItsWay(config, call[c])
    BY <1>1, <1>5 DEF Sound
  <2>2. OnItsWay(config, call'[c]) /\ call'[c].along \in Seq(Range(call'[c].along))
    BY <1>5, <2>1, WayStays
  <2>3. Sound(config, call'[c])
    BY <1>5, <2>1, <2>2 DEF Sound, MovesOn
  <2>4. QED
    BY <1>5, <2>3, OneStepIsSound
<1>6. CASE Acquire(c)
  <2>1. /\ At(c, "wait") /\ \A d \in Caller \ {c} : call'[d] = call[d]
        /\ MovesOn(c, "ask") \/ MovesOn(c, "sleep")
    BY <1>1, <1>6, AcquireMoves
  <2>2. UNCHANGED <<config, cache, deploys>>
    BY <1>6 DEF Acquire
  <2>3. QED
    BY <1>5, <2>1, <2>2 DEF At
<1>7. CASE Wake(c)
  <2>1. At(c, "sleep") /\ UNCHANGED <<config, cache, deploys>>
    BY <1>7 DEF Wake
  <2>2. CASE Fail(c)
    BY <1>2, <2>1, <2>2, OneStepIsSound
  <2>3. CASE call' = [call EXCEPT ![c].pc = "ask"]
    <3>1. MovesOn(c, "ask") /\ \A d \in Caller \ {c} : call'[d] = call[d]
      BY <1>1, <2>3, StepMovesOn
    <3>2. QED
      BY <1>5, <2>1, <3>1 DEF At
  <2>4. QED
    BY <1>7, <2>2, <2>3 DEF Wake
<1>8. CASE Ask(c)
  <2>1. call[c].pc = "ask" /\ UNCHANGED <<config, cache, deploys>>
    BY <1>8 DEF Ask, At
  <2>2. CASE Fail(c)
    BY <1>2, <2>1, <2>2, OneStepIsSound
  <2>3. CASE ~Fail(c)
    <3> DEFINE answer == AllowedOnly(ReverseAt(config, Head(call[c].todo)))
    <3>1. call' = [call EXCEPT ![c].pc = "save", ![c].found = answer]
      BY <1>8, <2>3 DEF Ask, Asked
    <3>2. /\ DOMAIN call[c] =
               {"pc", "ride", "todo", "found", "left", "along", "region", "country"}
      BY <1>1 DEF Shape, Idle
    <3> HIDE DEF answer
    <3>3. /\ MovesOn(c, "save") /\ call'[c].found = answer
          /\ \A d \in Caller \ {c} : call'[d] = call[d]
      BY <1>1, <3>1, <3>2 DEF MovesOn
    <3>4. /\ call[c].todo # <<>> /\ CacheKey(config, Head(call[c].todo)) \notin DOMAIN Earlier
          /\ OnItsWay(config, call[c])
      BY <1>1, <2>1 DEF Sound
    <3>5. OnItsWay(config, call'[c]) /\ call'[c].along \in Seq(Range(call'[c].along))
      BY <3>3, <3>4, WayStays
    <3>6. call'[c].found = AllowedOnly(ReverseAt(config, Head(call'[c].todo)))
      BY <3>3 DEF answer, MovesOn
    <3>7. Sound(config, call'[c])
      BY <3>3, <3>4, <3>5, <3>6 DEF Sound, MovesOn
    <3>8. QED
      BY <2>1, <3>3, <3>7, OneStepIsSound
  <2>4. QED
    BY <2>2, <2>3
<1>9. CASE Save(c)
  <2>1. At(c, "save") /\ UNCHANGED <<config, deploys>>
    BY <1>9 DEF Save
  <2>2. ASSUME SavePlace(c)
        PROVE  CacheTells' /\ \A k \in DOMAIN cache' : DOMAIN cache'[k] = DOMAIN NoPlace
    BY <2>1, <2>2, SaveTells
  <2>3. CASE SavePlace(c) /\ Add(c, call[c].found)
    <3>1. /\ call[c].todo # <<>> /\ CacheKey(config, Asked(c)) \notin DOMAIN Earlier
          /\ call[c].found = AllowedOnly(ReverseAt(config, Asked(c)))
          /\ OnItsWay(config, call[c])
      BY <1>1, <2>1 DEF Sound, At, Asked
    <3>2. call[c].found.name = Told(config, Asked(c))
      BY <1>1, <3>1, AnswerTells
    <3>3. Sound(config, call'[c]) /\ \A d \in Caller \ {c} : call'[d] = call[d]
      BY <1>1, <2>3, <3>1, <3>2, AddIsSound
    <3>4. QED
      BY <2>1, <2>2, <2>3, <3>3, StoringStepIsSound
  <2>4. CASE (SavePlace(c) \/ UNCHANGED cache) /\ Fail(c)
    <3>1. CASE SavePlace(c)
      BY <1>2, <2>1, <2>2, <2>4, <3>1, StoringStepIsSound
    <3>2. CASE UNCHANGED cache
      BY <1>2, <2>1, <2>4, <3>2, OneStepIsSound
    <3>3. QED
      BY <2>4, <3>1, <3>2
  <2>5. QED
    BY <1>9, <2>3, <2>4 DEF Save
<1>10. CASE Finish(c)
  <2>1. /\ call[c].pc = "next" /\ call[c].todo = <<>> /\ UNCHANGED <<config, cache, deploys>>
        /\ call' = [call EXCEPT ![c].pc = "done"]
    BY <1>10 DEF Finish, At
  <2>2. MovesOn(c, "done") /\ \A d \in Caller \ {c} : call'[d] = call[d]
    BY <1>1, <2>1, StepMovesOn
  <2>3. OnItsWay(config, call[c])
    BY <1>1, <2>1 DEF Sound
  <2>4. OnItsWay(config, call'[c]) /\ call'[c].along \in Seq(Range(call'[c].along))
    BY <2>2, <2>3, WayStays
  <2>5. Sound(config, call'[c])
    BY <2>1, <2>2, <2>4 DEF Sound, MovesOn
  <2>6. QED
    BY <2>1, <2>2, <2>5, OneStepIsSound
<1>11. CASE Return(c)
  <2>1. Fail(c) /\ UNCHANGED <<config, cache, deploys>>
    BY <1>11 DEF Return, Fail
  <2>2. QED
    BY <1>2, <2>1, OneStepIsSound
<1>12. QED
  BY <1>3, <1>4, <1>6, <1>7, <1>8, <1>9, <1>10, <1>11 DEF Work

\* So does every step.
LEMMA StepKeepsParts ==
  ASSUME Parts, [Next]_vars
  PROVE  Parts'
<1>1. Limiter'
  BY StepKeepsLimiter DEF Parts
<1>2. Shape
  BY DEF Parts, Limiter
<1>3. ASSUME NEW c \in Caller, Acquire(c) \/ Work(c) \/ \E r \in Ride : Describe(c, r)
      PROVE  Parts'
  BY <1>1, <1>3, WorkKeepsParts
<1>4. CASE Tick
  <2>1. UNCHANGED <<config, cache, deploys>>
    BY <1>4 DEF Tick
  <2>2. ASSUME NEW c \in Caller PROVE Sound(config, call'[c])
    <3>1. MovesOn(c, call[c].pc) /\ call'[c].found = call[c].found
      BY <1>2, <1>4, TickPasses
    <3>2. Sound(config, call[c])
      BY DEF Parts
    <3>3. call[c].pc # "idle" => OnItsWay(config, call'[c])
      BY <3>1, <3>2, WayStays DEF Sound
    <3>4. QED
      BY <3>1, <3>2, <3>3 DEF Sound, MovesOn
  <2>3. \A c \in Caller : Sound(config', call'[c])
    BY <2>1, <2>2
  <2>4. CacheTells' /\ Deployed'
    BY <2>1 DEF Parts, CacheTells, Deployed
  <2>5. QED
    BY <1>1, <2>3, <2>4 DEF Parts
<1>5. CASE Deploy
  <2>1. /\ config' \in Config /\ Valid(config') /\ deploys > 0 /\ deploys' = deploys - 1
        /\ UNCHANGED cache
        /\ \A c \in Caller : call'[c] = Idle
    BY <1>5 DEF Deploy
  <2>2. \A c \in Caller : Sound(config', call'[c])
    BY <2>1, IdleIsSound
  <2>3. deploys' \in 0..MaxDeploys
    BY <2>1, GeoAssumption DEF Parts, Deployed
  <2>4. CacheTells' /\ Deployed'
    BY <2>1, <2>3 DEF Parts, CacheTells, Deployed
  <2>5. QED
    BY <1>1, <2>2, <2>4 DEF Parts
<1>6. CASE UNCHANGED vars
  BY <1>1, <1>6 DEF vars, Parts, CacheTells, Deployed
<1>7. QED
  BY <1>3, <1>4, <1>5, <1>6 DEF Next

\* In the beginning nobody describes anything, and the cache is an earlier
\* release's.
LEMMA PartsStart == Init => Parts
<1> SUFFICES ASSUME Init PROVE Parts
  OBVIOUS
<1>1. /\ config \in Config /\ Valid(config) /\ cache = Earlier /\ deploys = MaxDeploys
      /\ \A c \in Caller : call[c] = Idle
  BY DEF Init
<1>2. Deployed
  BY <1>1, GeoAssumption, EarlierAssumption DEF Deployed, NoPlace
<1>3. CacheTells
  BY <1>1 DEF CacheTells
<1>4. QED
  BY <1>1, <1>2, <1>3, LimiterStarts, IdleIsSound DEF Parts
-----------------------------------------------------------------------------
(* What is proved of the summary.                                          *)

\* The states a process can be in: what the filters, the cache and a call hold,
\* and that a ride asks about no more cells than its samples and the farthest point.
THEOREM GeoInvariant == Spec => []IInv
<1>1. Parts /\ [Next]_vars => Parts'
  BY StepKeepsParts
<1>2. Parts => IInv
  BY PartsAreIInv
<1>3. QED
  BY <1>1, <1>2, PartsStart, PTL DEF Spec

\* No cell in which a track starts or ends is asked about (Summary, SamplePoints),
\* whatever the polyline: nothing is assumed of how the track is sampled.
THEOREM NeverAsksAtTheEnds == Spec => []EndsAreNeverAsked
BY GeoInvariant, PTL DEF IInv

\* A sequence that repeats nothing is as long as the set of what it lists.
LEMMA ListedOnce ==
  ASSUME NEW s, s \in Seq(Range(s)), \A i, j \in DOMAIN s : s[i] = s[j] => i = j
  PROVE  Cardinality(Range(s)) = Len(s)
<1>1. Len(s) \in Nat /\ DOMAIN s = 1..Len(s)
  OBVIOUS
<1>2. s \in Bijection(1..Len(s), Range(s))
  BY <1>1 DEF Bijection, Injection, Surjection, IsInjective, Range
<1>3. QED
  BY <1>1, <1>2, FS_CountingElements DEF ExistsBijection

\* The summary of a ride whose cells are all named.
LEMMA AllNamesAreListed ==
  ASSUME SamplingIsRight, NEW conf, NEW x, x.ride \in Ride, ListsSoFar(conf, x), x.todo = <<>>
  PROVE  Range(x.along) =
           {Normal(Told(conf, cell)) : cell \in Sampled[x.ride]} \ {""}
<1> DEFINE cells == Samples[x.ride]
<1>1. /\ cells \in Seq(Range(cells)) /\ Len(cells) \in Nat /\ DOMAIN cells = 1..Len(cells)
      /\ Range(cells) = Sampled[x.ride]
  BY SamplesAreFew DEF SamplingIsRight
<1>2. PICK k \in 0..Len(cells) :
        x.todo = SubSeq(cells, k + 1, Len(cells)) /\ Range(x.along) = NamesOf(conf, cells, k)
  BY DEF ListsSoFar
<1>3. k \in Int /\ k + 1 \in Int /\ Len(cells) \in Int /\ k \in 0..Len(cells)
  BY <1>1, <1>2
<1> HIDE DEF cells
<1>4. k = Len(cells)
  <2>1. \A i \in (k + 1)..Len(cells) : cells[i] \in Range(cells)
    BY <1>1, <1>3 DEF Range
  <2>2. Len(SubSeq(cells, k + 1, Len(cells)))
          = IF k + 1 <= Len(cells) THEN Len(cells) - (k + 1) + 1 ELSE 0
    BY <1>3, <2>1, SubSeqProperties
  <2>3. Len(SubSeq(cells, k + 1, Len(cells))) = 0
    BY <1>2
  <2>4. QED
    BY <1>3, <2>2, <2>3
<1>5. {Normal(Told(conf, cells[i])) : i \in 1..Len(cells)}
        = {Normal(Told(conf, cell)) : cell \in Range(cells)}
  BY <1>1 DEF Range
<1>6. QED
  BY <1>1, <1>2, <1>4, <1>5 DEF NamesOf

\* resolve and Describe: the summary a call returns lists exactly the names that
\* the cells of its ride answer to under the query shape deployed, each once,
\* whatever other callers, shapes and releases have left in the cache.
THEOREM SummaryFits == SamplingIsRight => (Spec => []SummaryFitsTheRide)
<1> SUFFICES ASSUME SamplingIsRight PROVE Spec => []SummaryFitsTheRide
  OBVIOUS
<1>1. IInv => SummaryFitsTheRide
  <2> SUFFICES ASSUME IInv, NEW c \in Caller, At(c, "done")
               PROVE  /\ Range(call[c].along) =
                           {Normal(Told(config, cell)) : cell \in Sampled[call[c].ride]}
                             \ {""}
                      /\ Cardinality(Range(call[c].along)) = Len(call[c].along)
    BY DEF SummaryFitsTheRide
  <2>1. /\ call[c].ride \in Ride /\ ListsSoFar(config, call[c]) /\ call[c].todo = <<>>
        /\ call[c].along \in Seq(Range(call[c].along))
    BY DEF IInv, TypeOK, ListedSoFar, AsksWhatIsMissing, At
  <2>2. \A i, j \in DOMAIN call[c].along : call[c].along[i] = call[c].along[j] => i = j
    BY <2>1 DEF ListsSoFar
  <2>3. QED
    BY <2>1, <2>2, AllNamesAreListed, ListedOnce
<1>2. QED
  BY <1>1, GeoInvariant, PTL
-----------------------------------------------------------------------------
(* Every call returns.                                                     *)

\* What is left to ask about is a sequence of the samples.
LEMMA TodoIsSequence ==
  ASSUME NEW x, x.ride \in Ride, ListsSoFar(config, x)
  PROVE  x.todo \in Seq(Range(Samples[x.ride]))
<1> DEFINE cells == Samples[x.ride]
<1>1. cells \in Seq(Range(cells)) /\ Len(cells) \in Nat
  BY SamplesAreFew
<1>2. PICK k \in 0..Len(cells) : x.todo = SubSeq(cells, k + 1, Len(cells))
  BY DEF ListsSoFar
<1> HIDE DEF cells
<1>3. \A i \in (k + 1)..Len(cells) : cells[i] \in Range(cells)
  BY <1>1 DEF Range
<1>4. x.todo \in Seq(Range(cells))
  BY <1>1, <1>2, <1>3, SubSeqProperties
<1>5. QED
  BY <1>4 DEF cells

\* It is one place shorter without its head.
LEMMA TodoIsCounted ==
  ASSUME IInv, NEW c \in Caller
  PROVE  /\ Len(call[c].todo) \in 0..(MaxSampleCount + 1)
         /\ call[c].todo # <<>> =>
              Len(call[c].todo) # 0 /\ Len(Tail(call[c].todo)) = Len(call[c].todo) - 1
<1> DEFINE todo == call[c].todo
<1>0. \A n \in Nat : n <= MaxSampleCount + 1 => n \in 0..(MaxSampleCount + 1)
  BY DEF MaxSampleCount
<1>1. Len(todo) <= MaxSampleCount + 1
  BY DEF IInv, TypeOK
<1>2. CASE At(c, "idle")
  <2>1. todo = <<>> /\ Len(todo) = 0
    BY <1>2 DEF IInv, AsksWhatIsMissing, At
  <2>2. QED
    BY <2>1 DEF MaxSampleCount
<1>3. CASE ~At(c, "idle")
  <2> DEFINE all == Range(Samples[call[c].ride])
  <2>1. call[c].ride \in Ride /\ ListsSoFar(config, call[c])
    BY <1>3 DEF IInv, TypeOK, ListedSoFar
  <2>2. todo \in Seq(all)
    BY <2>1, TodoIsSequence
  <2> HIDE DEF todo, all
  <2>3. Len(todo) \in Nat
    BY <2>2, LenProperties
  <2>4. todo # <<>> => Len(todo) # 0
    BY <2>2, EmptySeq
  <2>5. todo # <<>> => Len(Tail(todo)) = Len(todo) - 1
    BY <2>2, HeadTailProperties
  <2>6. QED
    BY <1>0, <1>1, <2>3, <2>4, <2>5 DEF todo
<1>4. QED
  BY <1>2, <1>3

\* A call gets on: it ends, comes to a later step of the cell it is at, or to the
\* next cell.
GetsOn(c) ==
  \/ call'[c].pc = "idle"
  \/ /\ call'[c].todo = call[c].todo
     /\ \/ At(c, "next") /\ call'[c].pc \in {"wait", "done"}
        \/ At(c, "sleep") /\ call'[c].pc = "ask"
        \/ At(c, "ask") /\ call'[c].pc = "save"
  \/ /\ At(c, "next") \/ At(c, "save")
     /\ call[c].todo # <<>> /\ call'[c].todo = Tail(call[c].todo)
     /\ call'[c].pc = "next"

\* Whatever a call does at a step, it gets on.
LEMMA WorkGetsOn ==
  ASSUME IInv, NEW c \in Caller, Work(c)
  PROVE  GetsOn(c)
<1>1. Shape
  BY DEF IInv, TypeOK, Shape
<1>2. ASSUME Fail(c) PROVE GetsOn(c)
  BY <1>1, <1>2, IdleIsEmpty DEF Fail, GetsOn, Shape
<1>3. ASSUME NEW place, Add(c, place), At(c, "next") \/ At(c, "save"), call[c].todo # <<>>
      PROVE  GetsOn(c)
  BY <1>1, <1>3, AddMoves DEF GetsOn
<1>4. CASE ReadCache(c)
  <2>1. At(c, "next") /\ call[c].todo # <<>>
    BY <1>4 DEF ReadCache
  <2>2. CASE FromCache(c)
    BY <1>3, <2>1, <2>2 DEF FromCache
  <2>3. CASE call' = [call EXCEPT ![c].pc = "wait"]
    <3>1. MovesOn(c, "wait")
      BY <1>1, <2>3, StepMovesOn
    <3>2. QED
      BY <2>1, <3>1 DEF MovesOn, GetsOn
  <2>4. QED
    BY <1>2, <1>4, <2>2, <2>3 DEF ReadCache
<1>5. CASE Wake(c)
  <2>1. CASE call' = [call EXCEPT ![c].pc = "ask"]
    <3>1. MovesOn(c, "ask")
      BY <1>1, <2>1, StepMovesOn
    <3>2. QED
      BY <1>5, <3>1 DEF Wake, MovesOn, GetsOn
  <2>2. QED
    BY <1>2, <1>5, <2>1 DEF Wake
<1>6. CASE Ask(c)
  <2>1. CASE call' = [call EXCEPT ![c].pc = "save",
                                  ![c].found = AllowedOnly(ReverseAt(config, Asked(c)))]
    <3>1. MovesOn(c, "save")
      BY <1>1, <2>1, StepMovesOn
    <3>2. QED
      BY <1>6, <3>1 DEF Ask, MovesOn, GetsOn
  <2>2. QED
    BY <1>2, <1>6, <2>1 DEF Ask
<1>7. CASE Save(c)
  <2>1. At(c, "save") /\ call[c].todo # <<>>
    BY <1>7 DEF Save, IInv, AsksWhatIsMissing, At
  <2>2. QED
    BY <1>2, <1>3, <1>7, <2>1 DEF Save
<1>8. CASE Finish(c)
  <2>1. MovesOn(c, "done")
    BY <1>1, <1>8, StepMovesOn DEF Finish
  <2>2. QED
    BY <1>8, <2>1 DEF Finish, MovesOn, GetsOn
<1>9. CASE Return(c)
  BY <1>2, <1>9 DEF Return, Fail
<1>10. QED
  BY <1>4, <1>5, <1>6, <1>7, <1>8, <1>9 DEF Work

\* What else happens leaves a call where it is, or is the end of the process.
LEMMA OthersLetItBe ==
  ASSUME IInv, [Next]_vars, NEW c \in Caller, ~At(c, "idle"), ~Work(c), ~Acquire(c)
  PROVE  \/ call'[c].pc = "idle"
         \/ call'[c].pc = call[c].pc /\ call'[c].todo = call[c].todo
<1>1. Shape
  BY DEF IInv, TypeOK, Shape
<1>2. ASSUME NEW d \in Caller, Acquire(d) \/ Work(d) \/ \E r \in Ride : Describe(d, r)
      PROVE  call'[c] = call[c]
  <2>1. d # c
    BY <1>2 DEF Describe
  <2>2. QED
    BY <1>1, <1>2, <2>1, AcquireMoves, WorkMoves
<1>3. CASE Tick
  BY <1>1, <1>3, TickPasses DEF MovesOn
<1>4. CASE Deploy
  BY <1>4, IdleIsEmpty DEF Deploy
<1>5. CASE UNCHANGED vars
  BY <1>5 DEF vars
<1>6. QED
  BY <1>2, <1>3, <1>4, <1>5 DEF Next

\* A call at a step, with so many cells left.
Here(c, pc, n) == At(c, pc) /\ Len(call[c].todo) = n

\* A call that has fewer left.
Below(c, n) == ~At(c, "idle") /\ Len(call[c].todo) < n
\* What a call may come to from a step, before it gets to its next cell.
Follows ==
  [next |-> {"wait", "done"}, wait |-> {"sleep", "ask"}, sleep |-> {"ask"},
   ask |-> {"save"}, save |-> {}, done |-> {}]

After(c, pc, n) ==
  At(c, "idle") \/ Below(c, n) \/ \E q \in Follows[pc] : Here(c, q, n)

\* A call that gets on is past the step it was at.
LEMMA GettingOn ==
  ASSUME IInv, NEW c \in Caller, GetsOn(c), NEW pc \in DOMAIN Follows, pc # "wait",
         NEW n \in 0..(MaxSampleCount + 1), Here(c, pc, n)
  PROVE  After(c, pc, n)'
<1>1. call[c].pc = pc /\ Len(call[c].todo) = n
  BY DEF Here, At
<1>2. CASE call'[c].pc = "idle"
  BY <1>2 DEF After, At
<1>3. CASE /\ call'[c].todo = call[c].todo
           /\ \/ At(c, "next") /\ call'[c].pc \in {"wait", "done"}
              \/ At(c, "sleep") /\ call'[c].pc = "ask"
              \/ At(c, "ask") /\ call'[c].pc = "save"
  <2>1. PICK q \in Follows[pc] : call'[c].pc = q
    BY <1>1, <1>3 DEF At, Follows
  <2>2. Here(c, q, n)'
    BY <1>1, <1>3, <2>1 DEF Here, At
  <2>3. QED
    BY <2>2 DEF After
<1>4. CASE /\ call[c].todo # <<>> /\ call'[c].todo = Tail(call[c].todo)
           /\ call'[c].pc = "next"
  <2>1. Len(call'[c].todo) = n - 1 /\ n - 1 < n
    BY <1>1, <1>4, TodoIsCounted
  <2>2. Below(c, n)'
    BY <1>4, <2>1 DEF Below, At
  <2>3. QED
    BY <2>2 DEF After
<1>5. QED
  BY <1>2, <1>3, <1>4 DEF GetsOn

\* A call that is let in by the limiter is past its wait.
LEMMA LetIn ==
  ASSUME IInv, NEW c \in Caller, Acquire(c), NEW n, Here(c, "wait", n)
  PROVE  After(c, "wait", n)'
<1>1. Shape
  BY DEF IInv, TypeOK, Shape
<1>2. MovesOn(c, "ask") \/ MovesOn(c, "sleep")
  BY <1>1, AcquireMoves
<1>3. Here(c, "ask", n)' \/ Here(c, "sleep", n)'
  BY <1>2 DEF MovesOn, Here, At
<1>4. QED
  BY <1>3 DEF After, Follows

\* No step of anybody takes a call back.
LEMMA NeverBack ==
  ASSUME IInv, [Next]_vars, NEW c \in Caller, NEW pc \in DOMAIN Follows,
         NEW n \in 0..(MaxSampleCount + 1), Here(c, pc, n)
  PROVE  Here(c, pc, n)' \/ After(c, pc, n)'
<1>1. call[c].pc = pc /\ ~At(c, "idle")
  BY DEF Here, At, Follows
<1>2. CASE Work(c)
  <2>1. pc # "wait"
    BY <1>1, <1>2 DEF Work, ReadCache, Wake, Ask, Save, Finish, Return, At
  <2>2. QED
    BY <1>2, <2>1, WorkGetsOn, GettingOn
<1>3. CASE Acquire(c)
  <2>1. pc = "wait"
    BY <1>1, <1>3 DEF Acquire, At
  <2>2. QED
    BY <1>3, <2>1, LetIn
<1>4. CASE ~Work(c) /\ ~Acquire(c)
  <2>1. \/ call'[c].pc = "idle"
        \/ call'[c].pc = call[c].pc /\ call'[c].todo = call[c].todo
    BY <1>1, <1>4, OthersLetItBe
  <2>2. QED
    BY <2>1 DEF Here, After, At
<1>5. QED
  BY <1>2, <1>3, <1>4

\* Only the one that sleeps has the limiter, and it gives it back when it goes on.
LEMMA SleeperGivesBack ==
  ASSUME IInv, [Next]_vars, NEW c \in Caller, At(c, "sleep")
  PROVE  /\ Work(c) => LimiterIsFree'
         /\ At(c, "sleep")' \/ LimiterIsFree'
<1>1. Shape
  BY DEF IInv, TypeOK, Shape
<1>2. \A d \in Caller : d # c => ~At(d, "sleep")
  BY DEF IInv, SleepsTheRest
<1>3. ASSUME Work(c) PROVE LimiterIsFree'
  <2>1. ~At(c, "sleep")'
    BY <1>3, WorkGetsOn DEF GetsOn, At
  <2>2. \A d \in Caller : d # c => ~At(d, "sleep")'
    BY <1>1, <1>2, <1>3, WorkMoves DEF At
  <2>3. QED
    BY <2>1, <2>2 DEF LimiterIsFree
<1>4. ASSUME NEW d \in Caller, d # c, Work(d) \/ \E r \in Ride : Describe(d, r)
      PROVE  At(c, "sleep")'
  <2>1. call'[c] = call[c]
    BY <1>1, <1>4, WorkMoves
  <2>2. QED
    BY <2>1 DEF At
<1>5. ~(\E d \in Caller : Acquire(d)) /\ ~(\E r \in Ride : Describe(c, r))
  BY DEF Acquire, Describe, LimiterIsFree, At
<1>6. CASE Tick
  BY <1>1, <1>3, <1>6, TickPasses DEF MovesOn, At
<1>7. CASE Deploy
  BY <1>3, <1>7, IdleIsEmpty DEF Deploy, LimiterIsFree, At
<1>8. CASE UNCHANGED vars
  BY <1>3, <1>8 DEF vars, At
<1>9. QED
  BY <1>3, <1>4, <1>5, <1>6, <1>7, <1>8 DEF Next

\* A sleep in the limiter ends (wait): its time is over, or it is cancelled, and
\* then nobody is asleep.
LEMMA SleepEnds ==
  ASSUME NEW c \in Caller
  PROVE  Spec /\ GoesOn(c) /\ []CanGoOn => (At(c, "sleep") ~> LimiterIsFree)
<1>1. /\ IInv /\ At(c, "sleep") /\ [Next]_vars => At(c, "sleep")' \/ LimiterIsFree'
      /\ IInv /\ At(c, "sleep") /\ [Next]_vars /\ <<Work(c)>>_vars => LimiterIsFree'
  BY SleeperGivesBack
<1>2. CanGoOn /\ At(c, "sleep") => ENABLED <<Work(c)>>_vars
  BY DEF CanGoOn, At
<1>3. QED
  BY <1>1, <1>2, GeoInvariant, PTL DEF Spec, GoesOn

\* Nothing keeps a call from its next step: it always can take it, and nobody sleeps
\* in the limiter for ever.
NothingBlocks == []CanGoOn /\ []<>LimiterIsFree

\* The scheduling of a call.
Scheduled(c) == Spec /\ GoesOn(c) /\ NothingBlocks

StepIsPassed(c, pc, n) == Here(c, pc, n) ~> After(c, pc, n)

\* A step of a call ends: under its fairness it gets on, or the limiter lets it in.
LEMMA StepEnds ==
  ASSUME NEW c \in Caller, NEW pc \in DOMAIN Follows, NEW n \in 0..(MaxSampleCount + 1)
  PROVE  Scheduled(c) => StepIsPassed(c, pc, n)
<1>1. IInv /\ Here(c, pc, n) /\ [Next]_vars => Here(c, pc, n)' \/ After(c, pc, n)'
  BY NeverBack
<1>2. CASE pc # "wait"
  <2>1. IInv /\ Here(c, pc, n) /\ <<Work(c)>>_vars => After(c, pc, n)'
    BY <1>2, WorkGetsOn, GettingOn
  <2>2. CanGoOn /\ Here(c, pc, n) => ENABLED <<Work(c)>>_vars
    BY <1>2 DEF CanGoOn, Here, At, Follows
  <2>3. QED
    BY <1>1, <2>1, <2>2, GeoInvariant, PTL DEF Spec, GoesOn, NothingBlocks, Scheduled, StepIsPassed
<1>3. CASE pc = "wait"
  <2>1. IInv /\ Here(c, pc, n) /\ <<Acquire(c)>>_vars => After(c, pc, n)'
    BY <1>3, LetIn
  <2>2. CanGoOn /\ Here(c, pc, n) /\ LimiterIsFree => ENABLED <<Acquire(c)>>_vars
    BY <1>3 DEF CanGoOn, Here
  <2>3. QED
    BY <1>1, <2>1, <2>2, GeoInvariant, PTL DEF Spec, GoesOn, NothingBlocks, Scheduled, StepIsPassed
<1>4. QED
  BY <1>2, <1>3

CellIsPassed(c, n) == Below(c, n + 1) ~> At(c, "idle") \/ Below(c, n)

\* A cell is got past.
LEMMA CellEnds ==
  ASSUME NEW c \in Caller, NEW n \in 0..(MaxSampleCount + 1)
  PROVE  Scheduled(c) => CellIsPassed(c, n)
<1>1. IInv /\ Below(c, n + 1) =>
        \/ Below(c, n)
        \/ Here(c, "next", n) \/ Here(c, "wait", n) \/ Here(c, "sleep", n)
        \/ Here(c, "ask", n) \/ Here(c, "save", n) \/ Here(c, "done", n)
  <2> SUFFICES ASSUME IInv, Below(c, n + 1), ~Below(c, n)
               PROVE  \E pc \in {"next", "wait", "sleep", "ask", "save", "done"} : Here(c, pc, n)
    OBVIOUS
  <2>1. Len(call[c].todo) \in 0..(MaxSampleCount + 1)
    BY TodoIsCounted
  <2>2. Len(call[c].todo) = n
    BY <2>1 DEF Below, MaxSampleCount
  <2>3. call[c].pc \in {"next", "wait", "sleep", "ask", "save", "done"}
    BY DEF IInv, TypeOK, Below, At
  <2>4. QED
    BY <2>2, <2>3 DEF Here, At
<1>2. /\ After(c, "next", n) =>
           At(c, "idle") \/ Below(c, n) \/ Here(c, "wait", n) \/ Here(c, "done", n)
      /\ After(c, "wait", n) =>
           At(c, "idle") \/ Below(c, n) \/ Here(c, "sleep", n) \/ Here(c, "ask", n)
      /\ After(c, "sleep", n) => At(c, "idle") \/ Below(c, n) \/ Here(c, "ask", n)
      /\ After(c, "ask", n) => At(c, "idle") \/ Below(c, n) \/ Here(c, "save", n)
      /\ After(c, "save", n) => At(c, "idle") \/ Below(c, n)
      /\ After(c, "done", n) => At(c, "idle") \/ Below(c, n)
  BY DEF After, Follows
<1>3. Scheduled(c) =>
        /\ StepIsPassed(c, "next", n) /\ StepIsPassed(c, "wait", n)
        /\ StepIsPassed(c, "sleep", n) /\ StepIsPassed(c, "ask", n)
        /\ StepIsPassed(c, "save", n) /\ StepIsPassed(c, "done", n)
  BY StepEnds DEF Follows
<1>4. QED
  BY <1>1, <1>2, <1>3, GeoInvariant, PTL DEF Scheduled, StepIsPassed, CellIsPassed

Returns(c) == ~At(c, "idle") ~> At(c, "idle")

\* A call has at most seven cells to get past.
LEMMA CallEnds ==
  ASSUME NEW c \in Caller
  PROVE  Scheduled(c) => Returns(c)
<1>1. \A n \in 0..(MaxSampleCount + 1) : n < 7 + 1 /\ ~(n < 0)
  BY DEF MaxSampleCount
<1>2. IInv => ~Below(c, 0) /\ (~At(c, "idle") => Below(c, 7 + 1))
  BY <1>1, TodoIsCounted DEF Below
<1>3. /\ Below(c, 0 + 1) <=> Below(c, 1)
      /\ Below(c, 1 + 1) <=> Below(c, 2)
      /\ Below(c, 2 + 1) <=> Below(c, 3)
      /\ Below(c, 3 + 1) <=> Below(c, 4)
      /\ Below(c, 4 + 1) <=> Below(c, 5)
      /\ Below(c, 5 + 1) <=> Below(c, 6)
      /\ Below(c, 6 + 1) <=> Below(c, 7)
  OBVIOUS
<1>4. Scheduled(c) =>
        /\ CellIsPassed(c, 0) /\ CellIsPassed(c, 1) /\ CellIsPassed(c, 2)
        /\ CellIsPassed(c, 3) /\ CellIsPassed(c, 4) /\ CellIsPassed(c, 5)
        /\ CellIsPassed(c, 6) /\ CellIsPassed(c, 7)
  BY CellEnds DEF MaxSampleCount
<1>5. QED
  BY <1>2, <1>3, <1>4, GeoInvariant, PTL DEF Scheduled, CellIsPassed, Returns

\* Every call returns (Describe), whatever the answers, the failures and the other
\* callers, if its steps stay possible and nobody sleeps in the limiter for ever.
THEOREM EveryCallReturns ==
  FairSpec /\ NothingBlocks => DescribeReturns
<1>1. FairSpec => Spec /\ \A c \in Caller : GoesOn(c)
  BY PTL DEF FairSpec
<1>2. ASSUME NEW c \in Caller
      PROVE  Spec /\ GoesOn(c) /\ NothingBlocks => Returns(c)
  <2>1. Spec /\ GoesOn(c) /\ NothingBlocks => Scheduled(c)
    BY PTL DEF Scheduled
  <2>2. QED
    BY <2>1, CallEnds
<1>3. (\A c \in Caller : Returns(c)) => DescribeReturns
  BY DEF Returns, DescribeReturns
<1>4. QED
  BY <1>1, <1>2, <1>3
=============================================================================
