-------------------------------- MODULE Geo --------------------------------
(***************************************************************************)
(* The verified geography of a ride: internal/geo/geo.go and nominatim.go. *)
(* Callers describe rides at once; they share the geocode cache, and the   *)
(* limiter that spaces the requests of one process.                        *)
(*                                                                         *)
(* Positions are whole numbers on a globe whose metric goes along the axes;*)
(* a track runs along them, so that interpolation is exact.  They are held *)
(* in units of 1/(Count+1), in which the points at equal arc length are    *)
(* whole.  Of a place, the wording of its name is left out but for Normal. *)
(* Nominatim is asked at a sampled point and its answer kept for the cell  *)
(* of that point; here it answers for the cell, so that two points of one  *)
(* cell are answered alike.                                                *)
(***************************************************************************)
EXTENDS Polyline, SequencesExt

CONSTANTS
  Caller,        \* what may describe a ride at the same time
  Ride,          \* the rides
  Encoded,       \* Encoded[r]: the summary polyline of a ride
  Ridden,        \* Ridden[r]: the track it stands for
  Count,         \* sampleCount
  Cell,          \* cachePrecision: the size of a cell
  AddressField,  \* addressFields: the keys, in order
  KindOf,        \* KindOf[f]: the kind a name under the key f has
  DefaultOrder,  \* defaultPlaceFields
  RegionField,   \* regionFields
  NaturalFeature,  \* naturalFeatures: a kind for each pair of category and type
  Config,        \* the configurations that may be deployed
  Report(_, _),  \* what Nominatim reports at a zoom for a cell
  Normal(_),     \* NormalizePlaceName
  Earlier,       \* the geocode cache an earlier release left
  Interval,      \* the limiter's interval, in ticks
  MaxDeploys     \* bound: deployments

MaxSampleCount == 6

ASSUME GeoAssumption ==
  /\ Count \in 1..MaxSampleCount
  /\ Cell \in Nat \ {0} /\ Cell % 2 = 0 /\ (2 * QuarterTurn) % Cell = 0
  /\ Interval \in Nat \ {0} /\ MaxDeploys \in Nat

ASSUME KindAssumption == Range(AddressField) \subseteq DOMAIN KindOf

\* The entries of the cache are places (store.Place).
ASSUME EarlierAssumption ==
  \A k \in DOMAIN Earlier :
    DOMAIN Earlier[k] = {"name", "kind", "region", "country"}

VARIABLES
  config,   \* the configuration deployed
  cache,    \* store: the geocode cache, key by key
  since,    \* limiter: the time since the last grant, up to Interval
  call,     \* per caller: where Describe is
  deploys   \* bound: deployments left

vars == <<config, cache, since, call, deploys>>
-----------------------------------------------------------------------------
(* Positions.                                                              *)

HalfTurn == 2 * QuarterTurn * (Count + 1)

Scaled(p) == [lat |-> p.lat * (Count + 1), lon |-> p.lon * (Count + 1)]

\* Mutant: the way across every other meridian.
RawDelta(from, to) == to - from

\* shortestLonDelta: the shorter way around the globe.
ShortestLonDelta(from, to) ==
  LET delta == to - from
  IN  IF delta > HalfTurn THEN delta - 2 * HalfTurn
      ELSE IF delta < -HalfTurn THEN delta + 2 * HalfTurn ELSE delta

WrapLongitude(lon) ==
  IF lon > HalfTurn THEN lon - 2 * HalfTurn
  ELSE IF lon < -HalfTurn THEN lon + 2 * HalfTurn ELSE lon

Abs(x) == IF x < 0 THEN -x ELSE x

Distance(p, q) == Abs(p.lat - q.lat) + Abs(ShortestLonDelta(p.lon, q.lon))

\* round: half away from zero; one meridian is one cell.
Round(x) ==
  LET size == Cell * (Count + 1)
      n == (Abs(x) + size \div 2) \div size
  IN  IF x >= 0 \/ n * size = HalfTurn THEN n ELSE -n

CellOf(p) == [lat |-> Round(p.lat), lon |-> Round(p.lon)]

\* arcLengths: the distance to each point of the track.
ArcLengths(track) ==
  LET to[i \in DOMAIN track] ==
        IF i = 1 THEN 0 ELSE to[i - 1] + Distance(track[i - 1], track[i])
  IN  to

\* pointAtArc: in the first segment that reaches the target.
PointAtArc(track, target) ==
  LET arc == ArcLengths(track)
      i == Min({j \in 2..Len(track) : arc[j] >= target /\ arc[j] > arc[j - 1]})
      p == track[i - 1]
      along(delta) == (delta * (target - arc[i - 1])) \div (arc[i] - arc[i - 1])
  IN  [lat |-> p.lat + along(track[i].lat - p.lat),
       lon |-> WrapLongitude(p.lon + along(ShortestLonDelta(p.lon, track[i].lon)))]

\* farthestFrom: the first of the farthest.
FarthestFrom(start, track) ==
  track[CHOOSE i \in DOMAIN track :
          \A j \in DOMAIN track :
            /\ Distance(start, track[j]) <= Distance(start, track[i])
            /\ j < i => Distance(start, track[j]) < Distance(start, track[i])]

\* What a sequence holds at some of its places, in their order.
Picked(points, kept) ==
  [n \in 1..Cardinality(kept) |->
     points[CHOOSE i \in kept : Cardinality({j \in kept : j < i}) = n - 1]]

\* The cells a track starts and ends in.
Ends(track) == {CellOf(track[1]), CellOf(track[Len(track)])}

\* Mutant: only the start is left out.
WithoutStart(track, samples) ==
  Picked(samples, {i \in DOMAIN samples : CellOf(samples[i]) # CellOf(track[1])})

\* withoutEndpoints: nothing in the cell of an endpoint.
WithoutEndpoints(track, samples) ==
  Picked(samples, {i \in DOMAIN samples : CellOf(samples[i]) \notin Ends(track)})

\* SamplePoints: the points at equal arc length, if the track moves at all, and
\* the farthest.
SamplePoints(track) ==
  LET total == ArcLengths(track)[Len(track)]
      step == total \div (Count + 1)
      interior == IF total = 0 THEN <<>>
                  ELSE [k \in 1..Count |-> PointAtArc(track, k * step)]
  IN  WithoutEndpoints(track, Append(interior, FarthestFrom(track[1], track)))

\* The cells in which a point is asked about, in order and each once:
\* dedupePoints, and what Describe has seen.
Distinct(points) ==
  LET first == {i \in DOMAIN points :
                  \A j \in 1..(i - 1) : CellOf(points[j]) # CellOf(points[i])}
      once == Picked(points, first)
  IN  [n \in DOMAIN once |-> CellOf(once[n])]

\* The decoded points of each ride, and the cells asked about.
Track ==
  [r \in Ride |->
     LET points == DecodePolyline(Encoded[r])
     IN  [i \in DOMAIN points |-> Scaled(points[i])]]

Samples ==
  [r \in Ride |-> IF Track[r] = <<>> THEN <<>> ELSE Distinct(SamplePoints(Track[r]))]
-----------------------------------------------------------------------------
(* The geocoder: nominatim.go.                                             *)

Zoom(c) == IF c.zoom = 0 THEN 16 ELSE c.zoom
Order(c) == IF c.order = <<>> THEN DefaultOrder ELSE c.order

\* ValidatePlaceFields, and the zoom: NewNominatim refuses the rest.
Valid(c) ==
  /\ Range(Order(c)) \subseteq Range(AddressField)
  /\ Cardinality(Range(Order(c))) = Len(Order(c))
  /\ c.zoom \in {0} \cup 3..18

\* The first of the fields that an address has, if it has any.
FirstPresent(fields, address) ==
  {fields[i] : i \in {i \in DOMAIN fields :
     /\ fields[i] \in DOMAIN address
     /\ \A j \in 1..(i - 1) : fields[j] \notin DOMAIN address}}

\* orderFields: the configured keys, then the rest of the allow-list.
PlaceField(c, address) ==
  LET configured == FirstPresent(Order(c), address)
  IN  IF configured # {} THEN configured ELSE FirstPresent(AddressField, address)

\* Mutant: the order is no part of the scope.
ScopeByZoom(c) == <<Zoom(c), c.base>>

\* cacheScope: the zoom, the order and the server answers come from.
Scope(c) == <<Zoom(c), Order(c), c.base>>

CacheKey(c, cell) == <<Scope(c), cell>>

NoPlace == [name |-> "", kind |-> "", region |-> "", country |-> ""]

\* placeFrom: the name under the first key there is, or of a natural feature
\* whose category and type are both listed.
PlaceFrom(c, report) ==
  LET named == PlaceField(c, report.address)
      key == CHOOSE f \in named : TRUE
      region == FirstPresent(RegionField, report.address)
      known == [NoPlace EXCEPT
                  !.country = report.country,
                  !.region = IF region = {} THEN ""
                             ELSE report.address[CHOOSE f \in region : TRUE]]
  IN  IF named # {}
      THEN [known EXCEPT !.name = report.address[key], !.kind = KindOf[key]]
      ELSE IF report.name # "" /\ report.feature \in DOMAIN NaturalFeature
      THEN [known EXCEPT !.name = report.name, !.kind = NaturalFeature[report.feature]]
      ELSE known

\* Reverse: a reported error is an empty place.  It is asked at the point that
\* stands for the cell.
ReverseAt(c, cell) ==
  IF Report(Zoom(c), cell).error THEN NoPlace
  ELSE PlaceFrom(c, Report(Zoom(c), cell))
-----------------------------------------------------------------------------
(* Describe: geo.go.                                                       *)

\* allowedKinds: every kind placeFrom can set.
IsAllowedKind(kind) ==
  \/ \E f \in Range(AddressField) : kind = KindOf[f]
  \/ kind \in Range(NaturalFeature)

\* allowedOnly: a name goes unless its kind is on the allow-list.
AllowedOnly(place) ==
  IF place.name = "" \/ IsAllowedKind(place.kind) THEN place
  ELSE [place EXCEPT !.name = "", !.kind = ""]

Idle == [pc |-> "idle", ride |-> 0, todo |-> <<>>, found |-> NoPlace, left |-> 0,
         along |-> <<>>, region |-> "", country |-> ""]

Init ==
  /\ config \in {c \in Config : Valid(c)}
  /\ cache = Earlier
  /\ since = Interval
  /\ call = [c \in Caller |-> Idle]
  /\ deploys = MaxDeploys

At(c, pc) == call[c].pc = pc
Asked(c) == Head(call[c].todo)

\* A polyline that cannot be decoded fails the ride; without one the summary is
\* empty.
Describe(c, r) ==
  /\ At(c, "idle")
  /\ Encoded[r] # <<>> => Track[r] # Malformed
  /\ call' = [call EXCEPT ![c] =
                [Idle EXCEPT !.pc = "next", !.ride = r, !.todo = Samples[r]]]
  /\ UNCHANGED <<config, cache, since, deploys>>

\* Mutant: the sample that failed is tried again.
TryAgain(c) == call' = [call EXCEPT ![c].pc = "next"]

\* Any failure fails the ride, which stays queued.
Fail(c) == call' = [call EXCEPT ![c] = Idle]

\* Deduplicated by the name as a title can carry it.
IsNew(c, place) ==
  \A i \in DOMAIN call[c].along : call[c].along[i] # Normal(place.name)

FirstKnown(known, name) == IF known = "" THEN Normal(name) ELSE known

\* The place joins the summary, and the next sample is up.
Add(c, place) ==
  call' = [call EXCEPT ![c] = [call[c] EXCEPT
    !.pc = "next", !.todo = Tail(@), !.found = NoPlace,
    !.region = FirstKnown(@, place.region),
    !.country = FirstKnown(@, place.country),
    !.along = IF Normal(place.name) # "" /\ IsNew(c, place)
              THEN Append(@, Normal(place.name)) ELSE @]]

\* A cached entry was filtered by the rules of its day.
FromCache(c) == Add(c, AllowedOnly(cache[CacheKey(config, Asked(c))]))

ReadCache(c) ==
  /\ At(c, "next") /\ call[c].todo # <<>>
  /\ \/ /\ CacheKey(config, Asked(c)) \in DOMAIN cache
        /\ FromCache(c)
     \/ /\ CacheKey(config, Asked(c)) \notin DOMAIN cache
        /\ call' = [call EXCEPT ![c].pc = "wait"]
     \/ Fail(c)
  /\ UNCHANGED <<config, cache, since, deploys>>

\* Mutant: no lock around the wait.
Unlocked == TRUE

\* limiter.mu is held for as long as its holder sleeps.
LimiterIsFree == \A d \in Caller : ~At(d, "sleep")

\* wait: granted at once, or the lock is kept for the rest of the interval.
Acquire(c) ==
  /\ At(c, "wait") /\ LimiterIsFree
  /\ \/ /\ since = Interval
        /\ call' = [call EXCEPT ![c].pc = "ask"]
        /\ since' = 0
     \/ /\ since < Interval
        /\ call' = [call EXCEPT ![c].pc = "sleep", ![c].left = Interval - since]
        /\ UNCHANGED since
  /\ UNCHANGED <<config, cache, deploys>>

\* The sleep ends, or is cancelled and leaves the last grant as it was.
Wake(c) ==
  /\ At(c, "sleep")
  /\ \/ /\ call[c].left = 0
        /\ call' = [call EXCEPT ![c].pc = "ask"]
        /\ since' = 0
     \/ /\ Fail(c)
        /\ UNCHANGED since
  /\ UNCHANGED <<config, cache, deploys>>

\* Reverse: throttled, blocked, another status, an answer that is none, or a
\* place, which is filtered before it is stored.
Ask(c) ==
  /\ At(c, "ask")
  /\ \/ Fail(c)
     \/ call' = [call EXCEPT ![c].pc = "save",
                             ![c].found = AllowedOnly(ReverseAt(config, Asked(c)))]
  /\ UNCHANGED <<config, cache, since, deploys>>

SavePlace(c) ==
  LET key == CacheKey(config, Asked(c))
  IN  cache' = [k \in {key} \cup DOMAIN cache |->
                  IF k = key THEN call[c].found ELSE cache[k]]

\* The entry may be stored although the call failed.
Save(c) ==
  /\ At(c, "save")
  /\ \/ SavePlace(c) /\ Add(c, call[c].found)
     \/ (SavePlace(c) \/ UNCHANGED cache) /\ Fail(c)
  /\ UNCHANGED <<config, since, deploys>>

Finish(c) ==
  /\ At(c, "next") /\ call[c].todo = <<>>
  /\ call' = [call EXCEPT ![c].pc = "done"]
  /\ UNCHANGED <<config, cache, since, deploys>>

Return(c) ==
  /\ At(c, "done")
  /\ call' = [call EXCEPT ![c] = Idle]
  /\ UNCHANGED <<config, cache, since, deploys>>

Tick ==
  /\ since < Interval \/ \E c \in Caller : call[c].left > 0
  /\ since' = IF since < Interval THEN since + 1 ELSE since
  /\ call' = [c \in Caller |->
                [call[c] EXCEPT !.left = IF @ > 0 THEN @ - 1 ELSE 0]]
  /\ UNCHANGED <<config, cache, deploys>>

\* A new process: its limiter knows of no request, the cache is as it was.
Deploy ==
  /\ deploys > 0 /\ deploys' = deploys - 1
  /\ \E c \in Config : Valid(c) /\ config' = c
  /\ since' = Interval
  /\ call' = [c \in Caller |-> Idle]
  /\ UNCHANGED cache

Work(c) == ReadCache(c) \/ Wake(c) \/ Ask(c) \/ Save(c) \/ Finish(c) \/ Return(c)

Next ==
  \/ \E c \in Caller : Acquire(c) \/ Work(c) \/ \E r \in Ride : Describe(c, r)
  \/ Tick \/ Deploy

Spec == Init /\ [][Next]_vars

\* A call goes on, and a mutex is not denied to a waiter forever.
GoesOn(c) == WF_vars(Work(c)) /\ SF_vars(Acquire(c))

\* Time passes.
FairSpec == Spec /\ WF_vars(Tick) /\ \A c \in Caller : GoesOn(c)
-----------------------------------------------------------------------------
(* Properties.                                                             *)

\* Types; a caller waits no longer than an interval, and a ride asks about no
\* more cells than its samples and the farthest point (SamplePoints).
TypeOK ==
  /\ config \in Config /\ Valid(config) /\ since \in 0..Interval
  /\ \A k \in DOMAIN cache : DOMAIN cache[k] = DOMAIN NoPlace
  /\ DOMAIN call = Caller
  /\ \A c \in Caller :
       /\ DOMAIN call[c] = DOMAIN Idle
       /\ call[c].pc \in {"idle", "next", "wait", "sleep", "ask", "save", "done"}
       /\ ~At(c, "idle") => call[c].ride \in Ride
       /\ call[c].left \in 0..Interval
       /\ call[c].left > 0 => At(c, "sleep")
       /\ Len(call[c].todo) <= MaxSampleCount + 1
       /\ call[c].along \in Seq(Range(call[c].along))
  /\ deploys \in 0..MaxDeploys

\* The track a ride was ridden on, point by point of its way.
Along(x, by, n) == ((x + by * n + HalfTurn) % (2 * HalfTurn)) - HalfTurn
Eastward(p, q) == (q.lon - p.lon) % (2 * HalfTurn) <= HalfTurn
Apart(p, q) ==
  Abs(p.lat - q.lat)
    + Min({(q.lon - p.lon) % (2 * HalfTurn), (p.lon - q.lon) % (2 * HalfTurn)})
Leg(p, q) ==
  [n \in 1..Apart(p, q) |->
     IF p.lon = q.lon
     THEN [p EXCEPT !.lat = IF q.lat > @ THEN @ + n ELSE @ - n]
     ELSE [p EXCEPT !.lon = Along(@, IF Eastward(p, q) THEN 1 ELSE -1, n)]]
Way(r) ==
  LET track == [i \in DOMAIN Ridden[r] |-> Scaled(Ridden[r][i])]
  IN  FlattenSeq([i \in 1..(Len(track) - 1) |-> Leg(track[i], track[i + 1])])

\* The cells a title may come from: those of the points at equal distances
\* along the way and of a farthest point, without the two the ride started and
\* ended in.
Sampled ==
  [r \in Ride |->
     LET way == Way(r)
         start == Scaled(Ridden[r][1])
         farthest == Max({Apart(start, p) : p \in Range(way)})
         far == CHOOSE p \in Range(way) : Apart(start, p) = farthest
         ends == {CellOf(start), CellOf(Scaled(Ridden[r][Len(Ridden[r])]))}
         even == [k \in 1..Count |-> CellOf(way[k * (Len(way) \div (Count + 1))])]
     IN  IF Ridden[r] = <<>> \/ way = <<>> THEN {}
         ELSE (Range(even) \cup {CellOf(far)}) \ ends]

\* What is asked about lies on the way the ride took, spread by the distance
\* ridden, and outside the cells in which it starts and ends, for a title is
\* public (DecodePolyline, pointAtArc, withoutEndpoints): the polyline decodes to
\* the track, and a segment takes the shorter way around the globe.  A call that
\* still has all of it to ask about leaves nothing of it out.
SamplesFollowTheWay ==
  \A c \in Caller :
    LET cells == IF At(c, "idle") THEN {} ELSE Sampled[call[c].ride]
    IN  /\ Range(call[c].todo) \subseteq cells
        /\ ~At(c, "idle") /\ call[c].todo = Samples[call[c].ride]
             => Range(call[c].todo) = cells

\* Whatever the track: a name resolved in the cell it starts or ends in would be an
\* address, so neither is asked about (Summary, SamplePoints).
EndsAreNeverAsked ==
  \A c \in Caller : ~At(c, "idle") /\ Track[call[c].ride] # <<>> =>
    Range(call[c].todo) \cap Ends(Track[call[c].ride]) = {}

\* Nominatim's policy (limiter.wait): the requests of a process are granted an
\* interval apart, however many wait and whoever gives up.
GrantsAreSpaced ==
  [][\A c \in Caller : ~At(c, "ask") /\ At(c, "ask")' => since = Interval]_vars

\* The name that answers for a cell under a configuration; an entry of an earlier
\* release counts only if its kind is allowed.
Told(c, cell) ==
  IF CacheKey(c, cell) \in DOMAIN Earlier
  THEN AllowedOnly(Earlier[CacheKey(c, cell)]).name
  ELSE LET report == Report(Zoom(c), cell)
       IN  IF report.error THEN "" ELSE PlaceFrom(c, report).name

\* A summary that is returned lists exactly the names the sampled cells answer
\* to under the current query shape, each once, although answers of other
\* shapes and releases share the cache and other callers fill it (resolve).
SummaryFitsTheRide ==
  \A c \in Caller : At(c, "done") =>
    /\ Range(call[c].along) =
         {Normal(Told(config, cell)) : cell \in Sampled[call[c].ride]} \ {""}
    /\ Cardinality(Range(call[c].along)) = Len(call[c].along)

\* The cells that DecodePolyline and SamplePoints, which are functions of the
\* ride alone, come to are the ones a title may come from.
SamplingIsRight == \A r \in Ride : Range(Samples[r]) = Sampled[r]

\* What makes it inductive.  One caller sleeps at a time, and it sleeps for the
\* rest of the interval.
SleepsTheRest ==
  \A c \in Caller : At(c, "sleep") =>
    /\ call[c].left + since = Interval
    /\ \A d \in Caller : At(d, "sleep") => d = c

\* An entry of the cache is an earlier release's, or what every configuration
\* that reads it would be answered.
CacheTells ==
  /\ DOMAIN Earlier \subseteq DOMAIN cache
  /\ \A k \in DOMAIN cache :
       IF k \in DOMAIN Earlier THEN cache[k] = Earlier[k]
       ELSE \A conf \in Config :
              Valid(conf) /\ k[1] = Scope(conf)
                => cache[k] = AllowedOnly(ReverseAt(conf, k[2]))

\* A caller that asks is at a cell no earlier release knew, and saves the answer
\* to the question it asked.
AsksWhatIsMissing ==
  \A c \in Caller :
    /\ call[c].pc \in {"idle", "done"} => call[c].todo = <<>>
    /\ call[c].pc \in {"wait", "sleep", "ask", "save"} =>
         /\ call[c].todo # <<>>
         /\ CacheKey(config, Asked(c)) \notin DOMAIN Earlier
    /\ At(c, "save") => call[c].found = AllowedOnly(ReverseAt(config, Asked(c)))

\* The names of the first of a ride's cells.
NamesOf(conf, cells, k) == {Normal(Told(conf, cells[i])) : i \in 1..k} \ {""}

\* The names a call lists are those of the cells asked about so far, each once.
ListsSoFar(conf, x) ==
  /\ LET cells == Samples[x.ride]
     IN  \E k \in 0..Len(cells) :
           /\ x.todo = SubSeq(cells, k + 1, Len(cells))
           /\ Range(x.along) = NamesOf(conf, cells, k)
  /\ \A i, j \in DOMAIN x.along : x.along[i] = x.along[j] => i = j

ListedSoFar == \A c \in Caller : ~At(c, "idle") => ListsSoFar(config, call[c])

\* The inductive invariant.
IInv ==
  /\ TypeOK
  /\ SleepsTheRest
  /\ CacheTells
  /\ AsksWhatIsMissing
  /\ ListedSoFar
  /\ EndsAreNeverAsked

\* Every call returns (Describe): there is no answer, failure or wait that it
\* does not get past.
DescribeReturns == \A c \in Caller : ~At(c, "idle") ~> At(c, "idle")

\* A call can always take its next step: a failure, if nothing else, or, if it waits
\* for the limiter, the lock once nobody holds it.
CanGoOn ==
  \A c \in Caller :
    /\ ~At(c, "idle") /\ ~At(c, "wait") => ENABLED <<Work(c)>>_vars
    /\ At(c, "wait") /\ LimiterIsFree => ENABLED <<Acquire(c)>>_vars
=============================================================================
