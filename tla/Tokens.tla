------------------------------- MODULE Tokens -------------------------------
(***************************************************************************)
(* The Strava token pair: the authorization flow that binds an athlete     *)
(* (internal/server, internal/app/tokens.go), the source that hands out    *)
(* and rotates the pair (internal/strava/tokensource.go), and the import,  *)
(* a second process with a source of its own (internal/app/import.go).     *)
(*                                                                         *)
(* A pair is an athlete and a number; Strava accepts only the newest one   *)
(* of an athlete.  Every call to Strava or to the store is a step.         *)
(***************************************************************************)
EXTENDS Integers

CONSTANTS
  Athlete,       \* athlete IDs
  NoAthlete,     \* the zero ID
  Configured,    \* STRAVA_ATHLETE_ID, or NoAthlete
  State,         \* OAuth states; bound: one flow is started for each
  Request,       \* bound: callbacks that may be in flight at once
  StateTTL,      \* stateTTL
  MaxExpiries,   \* bound: pairs that expire
  MaxFaults,     \* bound: calls that fail
  MaxRestarts,   \* bound: restarts of the service
  MaxImports,    \* bound: runs of the import
  Alone          \* BOOLEAN: the import runs only while no sweep does

ASSUME TokensAssumption ==
  /\ NoAthlete \notin Athlete
  /\ Configured \in Athlete \cup {NoAthlete}
  /\ StateTTL \in Nat
  /\ MaxExpiries \in Nat /\ MaxFaults \in Nat
  /\ MaxRestarts \in Nat /\ MaxImports \in Nat
  /\ Alone \in BOOLEAN

Process == {"service", "import"}

VARIABLES
  issued,    \* Strava: pairs issued so far
  live,      \* Strava: the pair of each athlete it accepts, 0 if none
  expired,   \* pairs at or near their expiry
  stored,    \* store: the pair in the tokens collection, 0 if none
  source,    \* the StoredTokenSource of each process
  states,    \* Server.states: the age of each state
  calls,     \* the callbacks in flight
  lost,      \* history: athletes whose pair was lost to a failure
  blind,     \* history: a callback could not read who is bound
  grants,    \* history: how often each athlete was issued a pair by a flow
  uses,      \* history: how often each state was accepted
  budget     \* what is left of the bounds

vars == <<issued, live, expired, stored, source, states, calls,
          lost, blind, grants, uses, budget>>

strava == <<issued, live>>
server == <<states, calls>>
history == <<lost, blind, grants, uses>>
-----------------------------------------------------------------------------
NoPair == [athlete |-> NoAthlete, n |-> 0]
Unissued == -1    \* a state not drawn yet
Retired == -2     \* consumed, evicted, or forgotten by a restart

\* NewStoredTokenSource, for the athlete it is built with.
NewSource(athlete) ==
  [pc |-> "idle", athlete |-> athlete, loaded |-> FALSE, cached |-> NoPair,
   persisted |-> FALSE]

NotRunning == [NewSource(NoAthlete) EXCEPT !.pc = "off"]
NoCall == [pc |-> "idle", pair |-> NoPair]

Init ==
  /\ issued = 0
  /\ live = [a \in Athlete |-> 0]
  /\ expired = {}
  /\ stored = [a \in Athlete |-> 0]
  /\ source = [p \in Process |->
                 IF p = "service" THEN NewSource(Configured) ELSE NotRunning]
  /\ states = [s \in State |-> Unissued]
  /\ calls = [c \in Request |-> NoCall]
  /\ lost = {} /\ blind = FALSE
  /\ grants = [a \in Athlete |-> 0]
  /\ uses = [s \in State |-> 0]
  /\ budget = [expiries |-> MaxExpiries, faults |-> MaxFaults,
               restarts |-> MaxRestarts, imports |-> MaxImports]

Spend(what) ==
  /\ budget[what] > 0
  /\ budget' = [budget EXCEPT ![what] = @ - 1]

\* Strava issues a pair, and the one before it stops working.
Issue(a) ==
  /\ issued' = issued + 1
  /\ live' = [live EXCEPT ![a] = issued + 1]

Bound == {a \in Athlete : stored[a] # 0}

\* AnyToken: the single stored athlete, if there is exactly one.
AnyToken == {a \in Bound : Bound = {a}}

StoredPair(a) == [athlete |-> a, n |-> stored[a]]

\* A pair is held by the store, a source or a callback.
HeldBy(a, src, cs) ==
  \/ stored[a] = live[a]
  \/ \E p \in Process : src[p].cached = [athlete |-> a, n |-> live[a]]
  \/ \E c \in Request : cs[c].pair = [athlete |-> a, n |-> live[a]]

\* What the end of a process loses.
LoseMemory(src, cs) == lost' = lost \cup {a \in Athlete : ~HeldBy(a, src, cs)}
-----------------------------------------------------------------------------
(* StoredTokenSource.Token.  Its mutex is held from the first step to the  *)
(* return, so one call at a time is under way in each process.             *)

Set(p, src) == source' = [source EXCEPT ![p] = src]

\* Mutant: the pair in hand works, so nothing is owed.
ContinueUnsaved(src) ==
  IF src.cached.n \in expired THEN "refresh" ELSE "idle"

\* What a call does once the pair is loaded.
Continue(src) ==
  IF src.cached.n \in expired THEN "refresh"
  ELSE IF src.persisted THEN "idle" ELSE "save"

\* boundTokens.Load: whose pair the source reads.
LoadFor(p) ==
  IF source[p].athlete = NoAthlete THEN AnyToken
  ELSE Bound \cap {source[p].athlete}

\* app.Import asks for nothing else to be naming while it runs.
MaySweep == Alone => source["import"].pc = "off"

Token(p) ==
  /\ source[p].pc = "idle"
  /\ p = "service" => MaySweep
  /\ Set(p, [source[p] EXCEPT !.pc = IF source[p].loaded THEN Continue(source[p]) ELSE "load"])
  /\ UNCHANGED <<strava, expired, stored, server, history, budget>>

Load(p) ==
  /\ source[p].pc = "load"
  /\ \E a \in LoadFor(p) :
       LET src == [source[p] EXCEPT !.loaded = TRUE, !.persisted = TRUE,
                                    !.cached = [athlete |-> a, n |-> stored[a]]]
       IN  Set(p, [src EXCEPT !.pc = Continue(src)])
  /\ UNCHANGED <<strava, expired, stored, server, history, budget>>

LoadFails(p) ==
  /\ source[p].pc = "load"
  /\ \/ LoadFor(p) = {} /\ UNCHANGED budget
     \/ Spend("faults")
  /\ Set(p, [source[p] EXCEPT !.pc = "idle"])
  /\ UNCHANGED <<strava, expired, stored, server, history>>

\* Mutant: the pair is adopted as Strava answers it, without an athlete.
AdoptAsAnswered(src, n) ==
  [src EXCEPT !.cached = [athlete |-> NoAthlete, n |-> n],
              !.persisted = FALSE, !.pc = "save"]

\* The new pair is adopted before the store is touched, with the athlete the
\* answer does not carry.
Adopt(src, n) ==
  [src EXCEPT !.cached = [@ EXCEPT !.n = n], !.persisted = FALSE, !.pc = "save"]

AcceptedPair(pair) == live[pair.athlete] = pair.n

Refresh(p) ==
  /\ source[p].pc = "refresh"
  /\ AcceptedPair(source[p].cached)
  /\ Issue(source[p].cached.athlete)
  /\ Set(p, Adopt(source[p], issued + 1))
  /\ UNCHANGED <<expired, stored, server, history, budget>>

\* The answer is lost, or is not a usable pair.
RefreshUnanswered(p) ==
  /\ source[p].pc = "refresh"
  /\ AcceptedPair(source[p].cached)
  /\ Spend("faults")
  /\ Issue(source[p].cached.athlete)
  /\ lost' = lost \cup {source[p].cached.athlete}
  /\ Set(p, [source[p] EXCEPT !.pc = "idle"])
  /\ UNCHANGED <<expired, stored, server, blind, grants, uses>>

RefreshRefused(p) ==
  /\ source[p].pc = "refresh"
  /\ \/ ~AcceptedPair(source[p].cached) /\ UNCHANGED budget
     \/ Spend("faults")
  /\ Set(p, [source[p] EXCEPT !.pc = "idle"])
  /\ UNCHANGED <<strava, expired, stored, server, history>>

StorePair(pair) == stored' = [stored EXCEPT ![pair.athlete] = pair.n]

\* The write of a refreshed pair, and the retry of one that failed.
Save(p) ==
  /\ source[p].pc = "save"
  /\ StorePair(source[p].cached)
  /\ Set(p, [source[p] EXCEPT !.persisted = TRUE, !.pc = "idle"])
  /\ UNCHANGED <<strava, expired, server, history, budget>>

\* Mutant: a failed write drops the cache, to be loaded again.
Unload(src) ==
  [src EXCEPT !.pc = "idle", !.loaded = FALSE, !.cached = NoPair]

\* The pair in hand stays, and stays unsaved.
KeepUnsaved(src) == [src EXCEPT !.pc = "idle"]

\* An error says nothing about whether the write took effect.
SaveFails(p) ==
  /\ source[p].pc = "save"
  /\ Spend("faults")
  /\ StorePair(source[p].cached) \/ UNCHANGED stored
  /\ Set(p, KeepUnsaved(source[p]))
  /\ UNCHANGED <<strava, expired, server, history>>

Source(p) ==
  \/ Token(p) \/ Load(p) \/ LoadFails(p)
  \/ Refresh(p) \/ RefreshUnanswered(p) \/ RefreshRefused(p)
  \/ Save(p) \/ SaveFails(p)
-----------------------------------------------------------------------------
(* The authorization flow.  Callbacks run side by side.                    *)

\* authStart and newState: states past their TTL are dropped on the way.
AuthStart(s) ==
  /\ states[s] = Unissued
  /\ states' = [t \in State |->
                  IF t = s THEN 0
                  ELSE IF states[t] > StateTTL THEN Retired ELSE states[t]]
  /\ UNCHANGED <<strava, expired, stored, source, calls, history, budget>>

\* Mutant: the state stays for the next callback.
KeepState(s) == states

\* consumeState: found or not in time, the state is gone.
ConsumeState(s) == [states EXCEPT ![s] = Retired]

\* authCallback up to the exchange, for a state the server knows.  The state
\* is spent although it came too late or without a code or a scope.
AuthCallback(c, s) ==
  /\ calls[c].pc = "idle"
  /\ states[s] >= 0
  /\ states' = ConsumeState(s)
  /\ \/ UNCHANGED <<calls, uses>>
     \/ /\ states[s] <= StateTTL
        /\ \E a \in Athlete :
             calls' = [calls EXCEPT ![c] = [pc |-> "exchange",
                                            pair |-> [athlete |-> a, n |-> 0]]]
        /\ uses' = [uses EXCEPT ![s] = @ + 1]
  /\ UNCHANGED <<strava, expired, stored, source, lost, blind, grants, budget>>

Authorized(c) == calls[c].pair.athlete

Answer(c) == calls' = [calls EXCEPT ![c] = NoCall]

\* The pair of a callback that ends without storing it is gone.
Abandon(c) ==
  /\ Answer(c)
  /\ lost' = lost \cup {Authorized(c)}

Exchange(c) ==
  /\ calls[c].pc = "exchange"
  /\ Issue(Authorized(c))
  /\ grants' = [grants EXCEPT ![Authorized(c)] = @ + 1]
  /\ calls' = [calls EXCEPT ![c] = [pc |-> "check",
                 pair |-> [athlete |-> Authorized(c), n |-> issued + 1]]]
  /\ UNCHANGED <<expired, stored, source, states, lost, blind, uses, budget>>

\* A pair is issued, but its answer is lost or it lacks a scope.
ExchangeUnusable(c) ==
  /\ calls[c].pc = "exchange"
  /\ Spend("faults")
  /\ Issue(Authorized(c))
  /\ grants' = [grants EXCEPT ![Authorized(c)] = @ + 1]
  /\ Abandon(c)
  /\ UNCHANGED <<expired, stored, source, states, blind, uses>>

ExchangeFails(c) ==
  /\ calls[c].pc = "exchange"
  /\ Spend("faults")
  /\ Answer(c)
  /\ UNCHANGED <<strava, expired, stored, source, states, history>>

\* Mutant: the check and the write are not one step.
Unlocked(c) == TRUE

\* Server.bind is held from the check to the answer.
BindIsFree(c) == \A other \in Request : calls[other].pc # "save"

\* checkAthlete: whether the athlete that authorized is the one to serve.
Permitted(a) ==
  IF Configured # NoAthlete THEN a = Configured ELSE AnyToken \subseteq {a}

\* To the write: the lock stays taken.
Permit(c) == calls' = [calls EXCEPT ![c] = [@ EXCEPT !.pc = "save"]]

CheckAthlete(c) ==
  /\ calls[c].pc = "check"
  /\ BindIsFree(c)
  /\ \/ Permitted(Authorized(c)) /\ Permit(c) /\ UNCHANGED lost
     \/ ~Permitted(Authorized(c)) /\ Abandon(c)
  /\ UNCHANGED <<strava, expired, stored, source, states, blind, grants, uses, budget>>

\* Deps.Bound turns an error of AnyToken into "nothing is bound".
CheckAthleteBlind(c) ==
  /\ calls[c].pc = "check"
  /\ BindIsFree(c)
  /\ Configured = NoAthlete
  /\ Spend("faults")
  /\ blind' = TRUE
  /\ Permit(c)
  /\ UNCHANGED <<strava, expired, stored, source, states, lost, grants, uses>>

SaveToken(c) ==
  /\ calls[c].pc = "save"
  /\ StorePair(calls[c].pair)
  /\ Answer(c)
  /\ UNCHANGED <<strava, expired, source, states, history, budget>>

SaveTokenFails(c) ==
  /\ calls[c].pc = "save"
  /\ Spend("faults")
  /\ \/ StorePair(calls[c].pair) /\ Answer(c) /\ UNCHANGED lost
     \/ UNCHANGED stored /\ Abandon(c)
  /\ UNCHANGED <<strava, expired, source, states, blind, grants, uses>>

Callback(c) ==
  \/ \E s \in State : AuthCallback(c, s)
  \/ Exchange(c) \/ ExchangeUnusable(c) \/ ExchangeFails(c)
  \/ CheckAthlete(c) \/ CheckAthleteBlind(c)
  \/ SaveToken(c) \/ SaveTokenFails(c)
-----------------------------------------------------------------------------
(* Time, the end of a process, and the import.                             *)

Expire ==
  /\ \E n \in (1..issued) \ expired : expired' = expired \cup {n}
  /\ Spend("expiries")
  /\ UNCHANGED <<strava, stored, source, server, history>>

\* One unit of time, for the states the server knows.
Tick ==
  /\ states' = [s \in State |->
                  IF states[s] \in 0..StateTTL THEN states[s] + 1 ELSE states[s]]
  /\ UNCHANGED <<strava, expired, stored, source, calls, history, budget>>

\* The service goes away, for a deployment or for want of requests, and comes
\* back with the store alone.
Restart ==
  /\ Spend("restarts")
  /\ Set("service", NewSource(Configured))
  /\ states' = [s \in State |-> IF states[s] >= 0 THEN Retired ELSE states[s]]
  /\ calls' = [c \in Request |-> NoCall]
  /\ LoseMemory(source', calls')
  /\ UNCHANGED <<strava, expired, stored, blind, grants, uses>>

\* openBoundStore: the athlete is the single stored token's.
StartImport ==
  /\ source["import"].pc = "off"
  /\ Alone => source["service"].pc = "idle"
  /\ Spend("imports")
  /\ \E a \in AnyToken : Set("import", NewSource(a))
  /\ UNCHANGED <<strava, expired, stored, server, history>>

EndImport ==
  /\ source["import"].pc # "off"
  /\ Set("import", NotRunning)
  /\ LoseMemory(source', calls)
  /\ UNCHANGED <<strava, expired, stored, server, blind, grants, uses, budget>>

Next ==
  \/ \E p \in Process : Source(p)
  \/ \E s \in State : AuthStart(s)
  \/ \E c \in Request : Callback(c)
  \/ Expire \/ Tick \/ Restart
  \/ StartImport \/ EndImport

Spec == Init /\ [][Next]_vars

\* Sweeps keep asking for a token, and an import comes to its end.
FairSpec == Spec /\ WF_vars(Source("service")) /\ WF_vars(EndImport)
-----------------------------------------------------------------------------
(* Properties.                                                             *)

Pair == [athlete : Athlete, n : 0..issued] \cup {NoPair}

SourceType ==
  [pc : {"off", "idle", "load", "refresh", "save"},
   athlete : Athlete \cup {NoAthlete}, loaded : BOOLEAN, cached : Pair,
   persisted : BOOLEAN]

\* Types; a loaded pair is always some athlete's, although Strava's answer to
\* a refresh names none.
TypeOK ==
  /\ issued \in Nat
  /\ live \in [Athlete -> 0..issued]
  /\ expired \subseteq 1..issued
  /\ stored \in [Athlete -> 0..issued]
  /\ source \in [Process -> SourceType]
  /\ \A p \in Process :
       source[p].loaded <=> source[p].cached.athlete \in Athlete
  /\ states \in [State -> -2..(StateTTL + 1)]
  /\ calls \in [Request -> [pc : {"idle", "exchange", "check", "save"}, pair : Pair]]
  /\ lost \subseteq Athlete
  /\ blind \in BOOLEAN
  /\ grants \in [Athlete -> Nat]
  /\ uses \in [State -> Nat]
  /\ budget \in [{"expiries", "faults", "restarts", "imports"} -> Nat]

\* The service binds to whoever authorizes first (Server.checkAthlete and
\* Server.bind): however callbacks interleave, and wherever saves fail or the
\* process dies, the store names at most one athlete, as long as every
\* callback could read who is bound.
OneAthleteBound == ~blind => \A a, b \in Bound : a = b

\* What makes it inductive.  A source only ever holds the pair of an athlete
\* the store names, so its writes bind nobody.
SourcesAreBound ==
  \A p \in Process :
    LET src == source[p]
    IN  /\ src.pc \in {"refresh", "save"} => src.loaded
        /\ src.loaded => src.cached.n # 0 /\ src.cached.athlete \in Bound

\* A callback past the state knows who authorized, past the exchange their pair.
CallsAreNamed ==
  \A c \in Request :
    /\ calls[c].pc # "idle" => calls[c].pair.athlete \in Athlete
    /\ calls[c].pc \in {"check", "save"} => calls[c].pair.n # 0

\* One callback at a time is between its check and its answer, and what the
\* check found still holds: nobody else is bound.
CheckStillHolds ==
  \A c \in Request :
    calls[c].pc = "save" =>
      /\ \A other \in Request : calls[other].pc = "save" => other = c
      /\ ~blind => Bound \subseteq {calls[c].pair.athlete}
      /\ Configured # NoAthlete => calls[c].pair.athlete = Configured

ConfiguredIsBound == Configured # NoAthlete => Bound \subseteq {Configured}

\* The pair Strava accepts is the one thing that cannot be replaced without a
\* person (token.go:33).  As long as an athlete authorized once, it is in the
\* store, in a source or in a callback, unless an answer of Strava was lost, a
\* callback failed, or a process ended holding the only copy.
LivePairIsHeld ==
  \A a \in Athlete :
    live[a] # 0 /\ grants[a] <= 1 /\ a \notin lost => HeldBy(a, source, calls)

\* A state is good for one authorization (consumeState), through restarts,
\* replays and callbacks side by side.
StateAuthorizesOnce == \A s \in State : uses[s] <= 1

\* A state that was accepted once is known to the server no longer.
UsedStatesAreRetired == \A s \in State : uses[s] # 0 => states[s] = Retired

\* The import runs only while the service asks for no token.
OneAtATime == Alone => source["service"].pc = "idle" \/ source["import"].pc = "off"

\* What a step of a source or a callback relies on of its own state.
StepsAreKnown ==
  /\ \A p \in Process :
       /\ source[p].pc \in {"off", "load"} => ~source[p].loaded
       /\ source[p].pc = "refresh" => source[p].cached.n \in expired
  /\ \A c \in Request :
       /\ calls[c].pc = "idle" => calls[c] = NoCall
       /\ calls[c].pc = "exchange" => calls[c].pair.n = 0

\* The athletes whose pair the service alone has had to keep.
Kept(a) == grants[a] <= 1 /\ a \notin lost

\* What keeps the newest pair of an athlete from being overwritten: a copy that
\* is not the newest is expired, so its holder asks for another before it would
\* write it, and before the callback that brought the first pair has stored it
\* nobody else has any.
CopiesAreCurrent ==
  \A a \in Athlete :
    Kept(a) =>
      /\ grants[a] = 0 => live[a] = 0 /\ stored[a] = 0
      /\ stored[a] # 0 => stored[a] = live[a] \/ stored[a] \in expired
      /\ \A p \in Process :
           source[p].cached.athlete = a =>
             /\ source[p].cached.n = live[a] \/ source[p].cached.n \in expired
             /\ source[p].pc = "save" => source[p].cached.n = live[a]
      /\ \A c \in Request :
           calls[c].pc \in {"check", "save"} /\ calls[c].pair.athlete = a =>
             /\ grants[a] # 0
             /\ calls[c].pair.n = live[a]
             /\ stored[a] = 0
             /\ \A d \in Request \ {c} :
                  calls[d].pc \in {"check", "save"} => calls[d].pair.athlete # a

IInv ==
  /\ TypeOK
  /\ SourcesAreBound
  /\ CallsAreNamed
  /\ CheckStillHolds
  /\ ConfiguredIsBound
  /\ OneAthleteBound
  /\ UsedStatesAreRetired
  /\ StateAuthorizesOnce
  /\ OneAtATime
  /\ StepsAreKnown
  /\ Alone => CopiesAreCurrent /\ LivePairIsHeld

\* README.md:355 and server.go:244 say it without that condition: the service
\* refuses anyone else once an athlete is bound.
BindsOnlyTheFirst == \A a, b \in Bound : a = b

\* The pair in hand is the one Strava accepts and was not written.
Unsaved ==
  LET src == source["service"]
  IN  src.loaded /\ ~src.persisted /\ AcceptedPair(src.cached)

\* A pair that could not be written is written by a later call (Token), unless
\* the process ends or Strava stops accepting it: as long as it is worth
\* anything it does not stay in memory alone.
UnsavedPairIsSaved == Unsaved ~> ~Unsaved

\* A source that may be asked has a step to take while its pair is unsaved, and an
\* import that runs can end.
CanGoOn ==
  /\ Unsaved /\ (source["service"].pc = "idle" => MaySweep)
       => ENABLED <<Source("service")>>_vars
  /\ source["import"].pc # "off" => ENABLED <<EndImport>>_vars

\* Strava does not accept the pair the source has just tried to refresh.
Refused(p) ==
  /\ source[p].pc = "refresh" /\ ~AcceptedPair(source[p].cached)
  /\ source'[p] = [source[p] EXCEPT !.pc = "idle"]

\* config.go:416 says that an import run while the service is idle touches
\* none of the state that is correct only for one process, the token refresh
\* among it: after one the service is refused only when the store is out of
\* date too.
RefusedOnlyIfStoreIsDead ==
  [][Refused("service") /\ source["import"].pc = "off"
       => ~AcceptedPair(StoredPair(source["service"].cached.athlete))]_vars
-----------------------------------------------------------------------------
(* The flow implements the promise.                                        *)

Promise == INSTANCE FirstBound WITH
  Eligible <- {a \in Athlete : Configured # NoAthlete => a = Configured},
  bound <- Bound,
  certain <- ~blind

\* Every behaviour of the flow is one of FirstBound (Server.checkAthlete and
\* Server.bind): whoever authorizes first is bound, if the configuration lets
\* them, and stays the only one through refreshes, failing writes and restarts.
ImplementsFirstBound == Promise!FirstBoundSpec
=============================================================================
