---------------------------- MODULE TokensProofs ----------------------------
(***************************************************************************)
(* Theorems about Tokens for every value of its constants: the types, that *)
(* the service stays with the first athlete it was bound to, that a state  *)
(* authorizes once, that the newest pair of an athlete is held until       *)
(* something loses it, and that an unsaved one is saved.                   *)
(***************************************************************************)
EXTENDS Tokens, TLAPS

USE DEF strava, server, history

-----------------------------------------------------------------------------
(* Types.                                                                  *)

Budget == [{"expiries", "faults", "restarts", "imports"} -> Nat]

\* Taking from a bound keeps the bounds in their ranges.
LEMMA SpendTyped ==
  ASSUME budget \in Budget, NEW what \in {"expiries", "faults", "restarts", "imports"},
         Spend(what)
  PROVE  budget' \in Budget
BY DEF Spend, Budget

\* A pair just issued to an athlete is a pair, and the older ones still are.
LEMMA IssueTyped ==
  ASSUME TypeOK, NEW a \in Athlete, Issue(a)
  PROVE  /\ issued' \in Nat
         /\ issued' = issued + 1
         /\ live' \in [Athlete -> 0..issued']
         /\ expired \subseteq 1..issued'
         /\ stored \in [Athlete -> 0..issued']
         /\ Pair \subseteq Pair'
         /\ SourceType \subseteq SourceType'
         /\ [athlete |-> a, n |-> issued'] \in Pair'
<1>1. issued \in Nat /\ issued' = issued + 1 /\ live \in [Athlete -> 0..issued]
  BY DEF TypeOK, Issue
<1>2. 0..issued \subseteq 0..issued' /\ 1..issued \subseteq 1..issued' /\ issued' \in 0..issued'
  BY <1>1
<1>3. live' \in [Athlete -> 0..issued']
  BY <1>1, <1>2 DEF Issue
<1>4. expired \subseteq 1..issued' /\ stored \in [Athlete -> 0..issued']
  BY <1>2 DEF TypeOK
<1>5. Pair \subseteq Pair'
  BY <1>2 DEF Pair
<1>6. SourceType \subseteq SourceType'
  BY <1>5 DEF SourceType
<1>7. [athlete |-> a, n |-> issued'] \in Pair'
  BY <1>2 DEF Pair
<1>8. QED
  BY <1>1, <1>3, <1>4, <1>5, <1>6, <1>7

\* A source that moved on without its pair changing is still a source, and
\* loaded exactly if it holds one.
LEMMA SourceTyped ==
  ASSUME TypeOK, NEW p \in Process, NEW pc \in {"off", "idle", "load", "refresh", "save"}
  PROVE  /\ source[p] \in SourceType
         /\ [source[p] EXCEPT !.pc = pc] \in SourceType
         /\ [source[p] EXCEPT !.pc = pc].loaded = source[p].loaded
         /\ [source[p] EXCEPT !.pc = pc].cached = source[p].cached
         /\ source[p].loaded <=> source[p].cached.athlete \in Athlete
BY DEF TypeOK, SourceType

\* Replacing the source of one process by another source keeps them all typed.
LEMMA SetTyped ==
  ASSUME TypeOK, NEW p \in Process, NEW src \in SourceType', Set(p, src),
         src.loaded <=> src.cached.athlete \in Athlete,
         SourceType \subseteq SourceType'
  PROVE  /\ source' \in [Process -> SourceType']
         /\ \A q \in Process :
              source'[q].loaded <=> source'[q].cached.athlete \in Athlete
<1>1. source \in [Process -> SourceType]
  BY DEF TypeOK
<1>2. source' = [source EXCEPT ![p] = src]
  BY DEF Set
<1>3. source' \in [Process -> SourceType']
  BY <1>1, <1>2
<1>4. ASSUME NEW q \in Process
      PROVE  source'[q].loaded <=> source'[q].cached.athlete \in Athlete
  <2>1. CASE q = p
    BY <1>1, <1>2, <2>1
  <2>2. CASE q # p
    BY <1>1, <1>2, <2>2 DEF TypeOK
  <2>3. QED
    BY <2>1, <2>2
<1>5. QED
  BY <1>3, <1>4

\* A source that has just started holds nothing.
LEMMA NewSourceTyped ==
  ASSUME NEW a \in Athlete \cup {NoAthlete}
  PROVE  /\ NewSource(a) \in SourceType /\ NewSource(a).cached = NoPair
         /\ ~NewSource(a).loaded
         /\ NotRunning \in SourceType /\ NotRunning.cached = NoPair
         /\ ~NotRunning.loaded
         /\ NoPair.athlete \notin Athlete
         /\ NoPair \in Pair
BY TokensAssumption DEF NewSource, NotRunning, NoPair, SourceType, Pair

\* A source's call keeps the types, whatever Strava and the store answer.
LEMMA SourceKeepsTypes ==
  ASSUME TypeOK, SourcesAreBound, NEW p \in Process, Source(p)
  PROVE  TypeOK'
<1>1. source[p] \in SourceType
  BY SourceTyped
<1>2. ASSUME UNCHANGED issued, NEW pc \in {"off", "idle", "load", "refresh", "save"},
             Set(p, [source[p] EXCEPT !.pc = pc])
      PROVE  /\ Pair' = Pair
             /\ source' \in [Process -> SourceType']
             /\ \A q \in Process :
                  source'[q].loaded <=> source'[q].cached.athlete \in Athlete
  <2> DEFINE src == [source[p] EXCEPT !.pc = pc]
  <2>1. Pair' = Pair /\ SourceType' = SourceType
    BY <1>2 DEF Pair, SourceType
  <2>2. src \in SourceType' /\ (src.loaded <=> src.cached.athlete \in Athlete)
    BY <1>2, <2>1, SourceTyped
  <2>3. Set(p, src)
    BY <1>2
  <2>4. /\ source' \in [Process -> SourceType']
        /\ \A q \in Process :
             source'[q].loaded <=> source'[q].cached.athlete \in Athlete
    <3> HIDE DEF src
    <3> QED
      BY <2>1, <2>2, <2>3, SetTyped
  <2>5. QED
    BY <2>1, <2>4
<1>3. CASE Token(p)
  <2>1. (IF source[p].loaded THEN Continue(source[p]) ELSE "load")
          \in {"off", "idle", "load", "refresh", "save"}
    BY DEF Continue
  <2>2. /\ Pair' = Pair
        /\ source' \in [Process -> SourceType']
        /\ \A q \in Process :
             source'[q].loaded <=> source'[q].cached.athlete \in Athlete
    BY <1>2, <1>3, <2>1 DEF Token
  <2>3. QED
    BY <1>3, <2>2 DEF Token, TypeOK
<1>4. CASE Load(p)
  <2>1. PICK a \in LoadFor(p) :
          LET src == [source[p] EXCEPT !.loaded = TRUE, !.persisted = TRUE,
                                       !.cached = [athlete |-> a, n |-> stored[a]]]
          IN  Set(p, [src EXCEPT !.pc = Continue(src)])
    BY <1>4 DEF Load
  <2>2. a \in Athlete
    BY DEF LoadFor, AnyToken, Bound
  <2>3. [athlete |-> a, n |-> stored[a]] \in Pair
    BY <2>2 DEF Pair, TypeOK
  <2> DEFINE src == [source[p] EXCEPT !.loaded = TRUE, !.persisted = TRUE,
                                      !.cached = [athlete |-> a, n |-> stored[a]]]
             next == [src EXCEPT !.pc = Continue(src)]
  <2>4. src \in SourceType /\ src.loaded /\ src.cached.athlete = a
    BY <1>1, <2>3 DEF SourceType
  <2>5. Continue(src) \in {"off", "idle", "load", "refresh", "save"}
    BY DEF Continue
  <2>6. next \in SourceType /\ next.loaded /\ next.cached.athlete = a
    <3> HIDE DEF src
    <3> QED
      BY <2>4, <2>5 DEF SourceType
  <2>7. Pair' = Pair /\ SourceType' = SourceType
    BY <1>4 DEF Load, Pair, SourceType
  <2>8. Set(p, next)
    BY <2>1
  <2>9. /\ source' \in [Process -> SourceType']
        /\ \A q \in Process :
             source'[q].loaded <=> source'[q].cached.athlete \in Athlete
    <3> HIDE DEF next
    <3> QED
      BY <2>2, <2>6, <2>7, <2>8, SetTyped
  <2>10. QED
    BY <1>4, <2>7, <2>9 DEF Load, TypeOK
<1>5. CASE LoadFails(p)
  <2>1. budget' \in Budget
    BY <1>5, SpendTyped DEF LoadFails, TypeOK, Budget
  <2>2. /\ Pair' = Pair
        /\ source' \in [Process -> SourceType']
        /\ \A q \in Process :
             source'[q].loaded <=> source'[q].cached.athlete \in Athlete
    BY <1>2, <1>5 DEF LoadFails
  <2>3. QED
    BY <1>5, <2>1, <2>2 DEF LoadFails, TypeOK, Budget
<1>6. CASE Refresh(p) \/ RefreshUnanswered(p)
  <2>1. source[p].loaded /\ source[p].cached.athlete \in Athlete
    BY <1>6, SourceTyped DEF SourcesAreBound, Refresh, RefreshUnanswered
  <2> DEFINE a == source[p].cached.athlete
             pair == [source[p].cached EXCEPT !.n = issued']
  <2>2. Issue(a)
    BY <1>6 DEF Refresh, RefreshUnanswered
  <2>3. /\ issued' \in Nat /\ live' \in [Athlete -> 0..issued']
        /\ issued' = issued + 1
        /\ expired \subseteq 1..issued' /\ stored \in [Athlete -> 0..issued']
        /\ SourceType \subseteq SourceType' /\ Pair \subseteq Pair'
        /\ [athlete |-> a, n |-> issued'] \in Pair'
    BY <2>1, <2>2, IssueTyped
  <2>4. source[p].cached \in Pair
    BY <1>1 DEF SourceType
  <2>5. pair = [athlete |-> a, n |-> issued']
    BY <2>4 DEF Pair, NoPair
  <2>6. calls \in [Request -> [pc : {"idle", "exchange", "check", "save"}, pair : Pair']]
    BY <2>3 DEF TypeOK
  <2>7. CASE Refresh(p)
    <3> DEFINE src == Adopt(source[p], issued')
    <3>1. source[p] \in SourceType' /\ pair \in Pair' /\ pair.athlete \in Athlete
      BY <1>1, <2>1, <2>3, <2>5
    <3>2. src \in SourceType' /\ src.loaded /\ src.cached.athlete \in Athlete
      BY <2>1, <3>1 DEF Adopt, SourceType
    <3>3. Set(p, src)
      BY <2>3, <2>7 DEF Refresh
    <3>4. /\ source' \in [Process -> SourceType']
          /\ \A q \in Process :
               source'[q].loaded <=> source'[q].cached.athlete \in Athlete
      <4> HIDE DEF src
      <4> QED
        BY <2>3, <3>2, <3>3, SetTyped
    <3>5. QED
      BY <2>3, <2>6, <2>7, <3>4 DEF Refresh, TypeOK
  <2>8. CASE RefreshUnanswered(p)
    <3> DEFINE src == [source[p] EXCEPT !.pc = "idle"]
    <3>1. src \in SourceType' /\ (src.loaded <=> src.cached.athlete \in Athlete)
      BY <2>3, SourceTyped
    <3>2. Set(p, src)
      BY <2>8 DEF RefreshUnanswered
    <3>3. /\ source' \in [Process -> SourceType']
          /\ \A q \in Process :
               source'[q].loaded <=> source'[q].cached.athlete \in Athlete
      <4> HIDE DEF src
      <4> QED
        BY <2>3, <3>1, <3>2, SetTyped
    <3>4. budget' \in Budget
      BY <2>8, SpendTyped DEF RefreshUnanswered, TypeOK, Budget
    <3>5. QED
      BY <2>1, <2>3, <2>6, <2>8, <3>3, <3>4 DEF RefreshUnanswered, TypeOK, Budget
  <2>9. QED
    BY <1>6, <2>7, <2>8
<1>7. CASE RefreshRefused(p)
  <2>1. budget' \in Budget
    BY <1>7, SpendTyped DEF RefreshRefused, TypeOK, Budget
  <2>2. /\ Pair' = Pair
        /\ source' \in [Process -> SourceType']
        /\ \A q \in Process :
             source'[q].loaded <=> source'[q].cached.athlete \in Athlete
    BY <1>2, <1>7 DEF RefreshRefused
  <2>3. QED
    BY <1>7, <2>1, <2>2 DEF RefreshRefused, TypeOK, Budget
<1>8. ASSUME source[p].pc = "save", StorePair(source[p].cached) \/ UNCHANGED stored
      PROVE  stored' \in [Athlete -> 0..issued]
  <2>1. source[p].cached.athlete \in Athlete
    BY <1>8, SourceTyped DEF SourcesAreBound
  <2>2. source[p].cached \in Pair
    BY <1>1 DEF SourceType
  <2>3. source[p].cached.n \in 0..issued
    BY <2>2 DEF Pair, NoPair, TypeOK
  <2>4. QED
    BY <1>8, <2>1, <2>3 DEF StorePair, TypeOK
<1>9. CASE Save(p)
  <2> DEFINE src == [source[p] EXCEPT !.persisted = TRUE, !.pc = "idle"]
  <2>1. Pair' = Pair /\ SourceType' = SourceType
    BY <1>9 DEF Save, Pair, SourceType
  <2>2. src \in SourceType' /\ (src.loaded <=> src.cached.athlete \in Athlete)
    BY <1>1, <2>1, SourceTyped DEF SourceType
  <2>3. Set(p, src)
    BY <1>9 DEF Save
  <2>4. /\ source' \in [Process -> SourceType']
        /\ \A q \in Process :
             source'[q].loaded <=> source'[q].cached.athlete \in Athlete
    <3> HIDE DEF src
    <3> QED
      BY <2>1, <2>2, <2>3, SetTyped
  <2>5. stored' \in [Athlete -> 0..issued]
    BY <1>8, <1>9 DEF Save
  <2>6. QED
    BY <1>9, <2>1, <2>4, <2>5 DEF Save, TypeOK
<1>10. CASE SaveFails(p)
  <2>1. budget' \in Budget
    BY <1>10, SpendTyped DEF SaveFails, TypeOK, Budget
  <2>2. stored' \in [Athlete -> 0..issued]
    BY <1>8, <1>10 DEF SaveFails
  <2>3. /\ Pair' = Pair
        /\ source' \in [Process -> SourceType']
        /\ \A q \in Process :
             source'[q].loaded <=> source'[q].cached.athlete \in Athlete
    BY <1>2, <1>10 DEF SaveFails, KeepUnsaved
  <2>4. QED
    BY <1>10, <2>1, <2>2, <2>3 DEF SaveFails, TypeOK, Budget
<1>11. QED
  BY <1>3, <1>4, <1>5, <1>6, <1>7, <1>9, <1>10 DEF Source

Calls == [Request -> [pc : {"idle", "exchange", "check", "save"}, pair : Pair]]

\* While Strava issues nothing the types mean what they meant.
LEMMA SameTypes ==
  ASSUME UNCHANGED issued
  PROVE  Pair' = Pair /\ SourceType' = SourceType /\ Calls' = Calls
<1>1. Pair' = Pair
  BY DEF Pair
<1>2. QED
  BY <1>1 DEF SourceType, Calls

\* Changing one callback for a callback leaves callbacks.
LEMMA CallTyped ==
  ASSUME TypeOK, NEW c \in Request, Pair \subseteq Pair',
         NEW pc \in {"idle", "exchange", "check", "save"}, NEW pair \in Pair',
         calls' = [calls EXCEPT ![c] = [pc |-> pc, pair |-> pair]]
  PROVE  calls' \in Calls'
<1>1. calls \in Calls'
  BY DEF TypeOK, Calls
<1>2. QED
  BY <1>1 DEF Calls

\* A callback keeps the types, whatever Strava and the store answer.
LEMMA CallbackKeepsTypes ==
  ASSUME TypeOK, CallsAreNamed, NEW c \in Request, Callback(c)
  PROVE  TypeOK'
<1> DEFINE a == calls[c].pair.athlete
<1>1. calls \in Calls /\ calls[c].pair \in Pair
  BY DEF TypeOK, Calls
<1>2. calls[c].pc # "idle" => a \in Athlete
  BY DEF CallsAreNamed
<1>3. ASSUME Answer(c), Pair \subseteq Pair'
      PROVE  calls' \in Calls'
  <2>1. NoPair \in Pair'
    BY <1>3 DEF Pair
  <2>2. calls' = [calls EXCEPT ![c] = [pc |-> "idle", pair |-> NoPair]]
    BY <1>3 DEF Answer, NoCall
  <2>3. QED
    BY <1>3, <2>1, <2>2, CallTyped
<1>4. ASSUME Permit(c), UNCHANGED issued
      PROVE  calls' \in Calls'
  BY <1>1, <1>4, SameTypes DEF Permit, Calls
<1>5. ASSUME NEW s \in State, AuthCallback(c, s)
      PROVE  TypeOK'
  <2>1. UNCHANGED issued
    BY <1>5 DEF AuthCallback
  <2>2. calls' \in Calls' /\ uses' \in [State -> Nat]
    <3>1. CASE UNCHANGED <<calls, uses>>
      BY <1>1, <2>1, <3>1, SameTypes DEF TypeOK
    <3>2. CASE ~UNCHANGED <<calls, uses>>
      <4>1. PICK b \in Athlete :
              calls' = [calls EXCEPT ![c] = [pc |-> "exchange",
                                             pair |-> [athlete |-> b, n |-> 0]]]
        BY <1>5, <3>2 DEF AuthCallback
      <4>2. [athlete |-> b, n |-> 0] \in Pair'
        BY <2>1 DEF Pair, TypeOK
      <4>3. uses' \in [State -> Nat]
        BY <1>5, <3>2 DEF AuthCallback, TypeOK
      <4>4. QED
        BY <2>1, <4>1, <4>2, <4>3, CallTyped, SameTypes
    <3>3. QED
      BY <3>1, <3>2
  <2>3. states' \in [State -> -2..(StateTTL + 1)]
    BY <1>5, TokensAssumption DEF AuthCallback, ConsumeState, Retired, TypeOK
  <2>4. QED
    BY <1>5, <2>1, <2>2, <2>3, SameTypes DEF AuthCallback, TypeOK, Calls
<1>6. CASE Exchange(c) \/ ExchangeUnusable(c)
  <2>1. a \in Athlete /\ Issue(a)
    BY <1>2, <1>6 DEF Exchange, ExchangeUnusable, Authorized
  <2>2. /\ issued' \in Nat /\ issued' = issued + 1
        /\ live' \in [Athlete -> 0..issued']
        /\ expired \subseteq 1..issued' /\ stored \in [Athlete -> 0..issued']
        /\ SourceType \subseteq SourceType' /\ Pair \subseteq Pair'
        /\ [athlete |-> a, n |-> issued'] \in Pair'
    BY <2>1, IssueTyped
  <2>3. source \in [Process -> SourceType']
    BY <2>2 DEF TypeOK
  <2>4. grants' \in [Athlete -> Nat]
    BY <1>6 DEF Exchange, ExchangeUnusable, TypeOK
  <2>5. calls' \in Calls'
    <3>1. CASE Exchange(c)
      <4>1. calls' = [calls EXCEPT ![c] = [pc |-> "check",
                        pair |-> [athlete |-> a, n |-> issued']]]
        BY <2>2, <3>1 DEF Exchange, Authorized
      <4>2. QED
        BY <2>2, <4>1, CallTyped
    <3>2. CASE ExchangeUnusable(c)
      BY <1>3, <2>2, <3>2 DEF ExchangeUnusable, Abandon
    <3>3. QED
      BY <1>6, <3>1, <3>2
  <2>6. CASE Exchange(c)
    BY <2>2, <2>3, <2>4, <2>5, <2>6 DEF Exchange, TypeOK, Calls
  <2>7. CASE ExchangeUnusable(c)
    <3>1. budget' \in Budget
      BY <2>7, SpendTyped DEF ExchangeUnusable, TypeOK, Budget
    <3>2. lost' \subseteq Athlete
      BY <2>1, <2>7 DEF ExchangeUnusable, Abandon, Authorized, TypeOK
    <3>3. QED
      BY <2>2, <2>3, <2>4, <2>5, <2>7, <3>1, <3>2
      DEF ExchangeUnusable, TypeOK, Calls, Budget
  <2>8. QED
    BY <1>6, <2>6, <2>7
<1>7. CASE ExchangeFails(c)
  <2>1. budget' \in Budget
    BY <1>7, SpendTyped DEF ExchangeFails, TypeOK, Budget
  <2>2. calls' \in Calls'
    BY <1>3, <1>7, SameTypes DEF ExchangeFails
  <2>3. QED
    BY <1>7, <2>1, <2>2, SameTypes DEF ExchangeFails, TypeOK, Calls, Budget
<1>8. CASE CheckAthlete(c)
  <2>1. calls' \in Calls'
    BY <1>3, <1>4, <1>8, SameTypes DEF CheckAthlete, Abandon
  <2>2. lost' \subseteq Athlete
    BY <1>2, <1>8 DEF CheckAthlete, Abandon, Authorized, TypeOK
  <2>3. QED
    BY <1>8, <2>1, <2>2, SameTypes DEF CheckAthlete, TypeOK, Calls
<1>9. CASE CheckAthleteBlind(c)
  <2>1. budget' \in Budget
    BY <1>9, SpendTyped DEF CheckAthleteBlind, TypeOK, Budget
  <2>2. calls' \in Calls'
    BY <1>4, <1>9 DEF CheckAthleteBlind
  <2>3. QED
    BY <1>9, <2>1, <2>2, SameTypes DEF CheckAthleteBlind, TypeOK, Calls, Budget
<1>10. ASSUME calls[c].pc = "save", StorePair(calls[c].pair)
       PROVE  stored' \in [Athlete -> 0..issued]
  <2>1. a \in Athlete /\ calls[c].pair.n \in 0..issued
    BY <1>1, <1>2, <1>10 DEF Pair, NoPair, TypeOK
  <2>2. QED
    BY <1>10, <2>1 DEF StorePair, TypeOK
<1>11. CASE SaveToken(c)
  <2>1. stored' \in [Athlete -> 0..issued]
    BY <1>10, <1>11 DEF SaveToken
  <2>2. calls' \in Calls'
    BY <1>3, <1>11, SameTypes DEF SaveToken
  <2>3. QED
    BY <1>11, <2>1, <2>2, SameTypes DEF SaveToken, TypeOK, Calls
<1>12. CASE SaveTokenFails(c)
  <2>1. stored' \in [Athlete -> 0..issued]
    BY <1>10, <1>12 DEF SaveTokenFails, TypeOK
  <2>2. calls' \in Calls'
    BY <1>3, <1>12, SameTypes DEF SaveTokenFails, Abandon
  <2>3. lost' \subseteq Athlete
    BY <1>2, <1>12 DEF SaveTokenFails, Abandon, Authorized, TypeOK
  <2>4. budget' \in Budget
    BY <1>12, SpendTyped DEF SaveTokenFails, TypeOK, Budget
  <2>5. QED
    BY <1>12, <2>1, <2>2, <2>3, <2>4, SameTypes DEF SaveTokenFails, TypeOK, Calls, Budget
<1>13. QED
  BY <1>5, <1>6, <1>7, <1>8, <1>9, <1>11, <1>12 DEF Callback

\* What starting or stopping a process does to the sources.
LEMMA StopTyped ==
  ASSUME TypeOK, UNCHANGED issued, NEW p \in Process,
         NEW a \in Athlete \cup {NoAthlete},
         Set(p, NewSource(a)) \/ Set(p, NotRunning)
  PROVE  /\ source' \in [Process -> SourceType']
         /\ \A q \in Process :
              source'[q].loaded <=> source'[q].cached.athlete \in Athlete
<1>1. SourceType' = SourceType
  BY SameTypes
<1>2. /\ NewSource(a) \in SourceType' /\ NotRunning \in SourceType'
      /\ NewSource(a).loaded <=> NewSource(a).cached.athlete \in Athlete
      /\ NotRunning.loaded <=> NotRunning.cached.athlete \in Athlete
  BY <1>1, NewSourceTyped
<1>3. CASE Set(p, NewSource(a))
  BY <1>1, <1>2, <1>3, SetTyped
<1>4. CASE Set(p, NotRunning)
  BY <1>1, <1>2, <1>4, SetTyped
<1>5. QED
  BY <1>3, <1>4

\* Time, the authorization start, the end of a process and the import keep
\* the types.
LEMMA EnvironmentKeepsTypes ==
  ASSUME TypeOK,
         \/ \E s \in State : AuthStart(s)
         \/ Expire \/ Tick \/ Restart \/ StartImport \/ EndImport
  PROVE  TypeOK'
<1>1. ASSUME NEW s \in State, AuthStart(s)
      PROVE  TypeOK'
  <2>1. states' \in [State -> -2..(StateTTL + 1)]
    BY <1>1, TokensAssumption DEF AuthStart, Retired, TypeOK
  <2>2. QED
    BY <1>1, <2>1, SameTypes DEF AuthStart, TypeOK, Calls
<1>2. CASE Expire
  <2>1. expired' \subseteq 1..issued
    BY <1>2 DEF Expire, TypeOK
  <2>2. budget' \in Budget
    BY <1>2, SpendTyped DEF Expire, TypeOK, Budget
  <2>3. QED
    BY <1>2, <2>1, <2>2, SameTypes DEF Expire, TypeOK, Calls, Budget
<1>3. CASE Tick
  <2>1. states' \in [State -> -2..(StateTTL + 1)]
    BY <1>3, TokensAssumption DEF Tick, TypeOK
  <2>2. QED
    BY <1>3, <2>1, SameTypes DEF Tick, TypeOK, Calls
<1>4. CASE Restart
  <2>1. /\ source' \in [Process -> SourceType']
        /\ \A q \in Process :
             source'[q].loaded <=> source'[q].cached.athlete \in Athlete
    BY <1>4, StopTyped, TokensAssumption DEF Restart, Process
  <2>2. states' \in [State -> -2..(StateTTL + 1)]
    BY <1>4, TokensAssumption DEF Restart, Retired, TypeOK
  <2>3. NoCall \in [pc : {"idle", "exchange", "check", "save"}, pair : Pair]
    BY DEF NoCall, Pair
  <2>4. calls' \in Calls'
    BY <1>4, <2>3, SameTypes DEF Restart, Calls
  <2>5. lost' \subseteq Athlete
    BY <1>4 DEF Restart, LoseMemory, TypeOK
  <2>6. budget' \in Budget
    BY <1>4, SpendTyped DEF Restart, TypeOK, Budget
  <2>7. QED
    BY <1>4, <2>1, <2>2, <2>4, <2>5, <2>6, SameTypes
    DEF Restart, TypeOK, Calls, Budget
<1>5. CASE StartImport
  <2>1. PICK a \in AnyToken : Set("import", NewSource(a))
    BY <1>5 DEF StartImport
  <2>2. a \in Athlete
    BY DEF AnyToken, Bound
  <2>3. /\ source' \in [Process -> SourceType']
        /\ \A q \in Process :
             source'[q].loaded <=> source'[q].cached.athlete \in Athlete
    BY <1>5, <2>1, <2>2, StopTyped DEF StartImport, Process
  <2>4. budget' \in Budget
    BY <1>5, SpendTyped DEF StartImport, TypeOK, Budget
  <2>5. QED
    BY <1>5, <2>3, <2>4, SameTypes DEF StartImport, TypeOK, Calls, Budget
<1>6. CASE EndImport
  <2>1. /\ source' \in [Process -> SourceType']
        /\ \A q \in Process :
             source'[q].loaded <=> source'[q].cached.athlete \in Athlete
    BY <1>6, StopTyped DEF EndImport, Process
  <2>2. lost' \subseteq Athlete
    BY <1>6 DEF EndImport, LoseMemory, TypeOK
  <2>3. QED
    BY <1>6, <2>1, <2>2, SameTypes DEF EndImport, TypeOK, Calls
<1>7. QED
  BY <1>1, <1>2, <1>3, <1>4, <1>5, <1>6
-----------------------------------------------------------------------------
(* Binding.                                                                *)

Binding ==
  SourcesAreBound /\ CallsAreNamed /\ CheckStillHolds /\ ConfiguredIsBound /\ OneAthleteBound

\* Nothing that leaves the store, the calls and the flag alone, and only
\* empties or moves a source on, changes who is bound.
LEMMA UnboundStep ==
  ASSUME Binding, UNCHANGED <<stored, calls, blind>>
  PROVE  CallsAreNamed' /\ CheckStillHolds' /\ ConfiguredIsBound' /\ OneAthleteBound'
<1>1. Bound' = Bound
  BY DEF Bound
<1>2. QED
  BY <1>1 DEF Binding, CallsAreNamed, CheckStillHolds, ConfiguredIsBound, OneAthleteBound

\* The write of a pair whose athlete is stored already binds nobody.
LEMMA RebindsNobody ==
  ASSUME TypeOK, NEW pair, pair.athlete \in Bound, pair.n # 0,
         StorePair(pair) \/ UNCHANGED stored
  PROVE  Bound' = Bound
BY DEF Bound, StorePair, TypeOK

\* The other source is untouched by a source's step.
LEMMA OtherSourcesStay ==
  ASSUME TypeOK, SourcesAreBound, NEW p \in Process, NEW src, Set(p, src),
         Bound \subseteq Bound',
         src.pc \in {"refresh", "save"} => src.loaded,
         src.loaded => src.cached.n # 0 /\ src.cached.athlete \in Bound'
  PROVE  SourcesAreBound'
<1>1. source' = [source EXCEPT ![p] = src] /\ source \in [Process -> SourceType]
  BY DEF Set, TypeOK
<1>2. SUFFICES ASSUME NEW q \in Process
               PROVE  /\ source'[q].pc \in {"refresh", "save"} => source'[q].loaded
                      /\ source'[q].loaded => /\ source'[q].cached.n # 0
                                              /\ source'[q].cached.athlete \in Bound'
  BY DEF SourcesAreBound
<1>3. CASE q = p
  BY <1>1, <1>3
<1>4. CASE q # p
  BY <1>1, <1>4 DEF SourcesAreBound
<1>5. QED
  BY <1>3, <1>4

\* A source's call binds nobody: what it reads is bound, and what it writes
\* is the pair of the athlete it read.
LEMMA SourceKeepsBinding ==
  ASSUME TypeOK, Binding, NEW p \in Process, Source(p)
  PROVE  Binding'
<1>1. source[p] \in SourceType /\ issued \in Nat
  BY DEF TypeOK
<1>2. /\ source[p].pc \in {"refresh", "save"} => source[p].loaded
      /\ source[p].loaded => source[p].cached.n # 0 /\ source[p].cached.athlete \in Bound
  BY DEF Binding, SourcesAreBound
<1>3. /\ UNCHANGED <<calls, blind>>
      /\ \/ StorePair(source[p].cached) /\ source[p].pc = "save"
         \/ UNCHANGED stored
  BY DEF Source, Token, Load, LoadFails, Refresh, RefreshUnanswered, RefreshRefused,
         Save, SaveFails
<1>4. Bound' = Bound
  <2>1. CASE UNCHANGED stored
    BY <2>1 DEF Bound
  <2>2. CASE StorePair(source[p].cached) /\ source[p].pc = "save"
    BY <1>2, <2>2, RebindsNobody
  <2>3. QED
    BY <1>3, <2>1, <2>2
<1>5. ASSUME NEW src, Set(p, src),
             src.pc \in {"refresh", "save"} => src.loaded,
             src.loaded => src.cached.n # 0 /\ src.cached.athlete \in Bound
      PROVE  SourcesAreBound'
  BY <1>4, <1>5, OtherSourcesStay DEF Binding
<1>6. ASSUME NEW pc \in {"idle", "load", "refresh", "save"},
             pc \in {"refresh", "save"} => source[p].loaded,
             Set(p, [source[p] EXCEPT !.pc = pc])
      PROVE  SourcesAreBound'
  <2> DEFINE src == [source[p] EXCEPT !.pc = pc]
  <2>1. src.pc = pc /\ src.loaded = source[p].loaded /\ src.cached = source[p].cached
    BY <1>1 DEF SourceType
  <2>2. Set(p, src)
    BY <1>6
  <2>3. QED
    <3> HIDE DEF src
    <3> QED
      BY <1>2, <1>5, <1>6, <2>1, <2>2
<1>7. SourcesAreBound'
  <2>1. CASE Token(p)
    <3> DEFINE pc == IF source[p].loaded THEN Continue(source[p]) ELSE "load"
    <3>1. /\ pc \in {"idle", "load", "refresh", "save"}
          /\ pc \in {"refresh", "save"} => source[p].loaded
      BY DEF Continue
    <3>2. Set(p, [source[p] EXCEPT !.pc = pc])
      BY <2>1 DEF Token
    <3>3. QED
      <4> HIDE DEF pc
      <4> QED
        BY <1>6, <3>1, <3>2
  <2>2. CASE Load(p)
    <3>1. PICK a \in LoadFor(p) :
            LET src == [source[p] EXCEPT !.loaded = TRUE, !.persisted = TRUE,
                                         !.cached = [athlete |-> a, n |-> stored[a]]]
            IN  Set(p, [src EXCEPT !.pc = Continue(src)])
      BY <2>2 DEF Load
    <3>2. a \in Bound /\ stored[a] # 0
      BY DEF LoadFor, AnyToken, Bound
    <3> DEFINE src == [source[p] EXCEPT !.loaded = TRUE, !.persisted = TRUE,
                                        !.cached = [athlete |-> a, n |-> stored[a]]]
               next == [src EXCEPT !.pc = Continue(src)]
    <3>3. next.loaded /\ next.cached = [athlete |-> a, n |-> stored[a]]
      BY <1>1 DEF SourceType
    <3>4. Set(p, next)
      BY <3>1
    <3>5. QED
      <4> HIDE DEF next
      <4> QED
        BY <1>5, <3>2, <3>3, <3>4
  <2>3. CASE Refresh(p)
    <3> DEFINE src == Adopt(source[p], issued + 1)
    <3>1. source[p].loaded /\ source[p].cached.athlete \in Bound
      BY <1>2, <2>3 DEF Refresh
    <3>2. /\ src.loaded = source[p].loaded
          /\ src.cached.n = issued + 1
          /\ src.cached.athlete = source[p].cached.athlete
      <4>1. source[p].cached \in Pair
        BY <1>1 DEF SourceType
      <4>2. source[p].cached = [athlete |-> source[p].cached.athlete, n |-> source[p].cached.n]
        BY <4>1 DEF Pair, NoPair
      <4>3. QED
        BY <1>1, <4>2 DEF Adopt, SourceType
    <3>3. Set(p, src)
      BY <2>3 DEF Refresh
    <3>4. issued + 1 # 0
      BY <1>1
    <3>5. QED
      <4> HIDE DEF src
      <4> QED
        BY <1>5, <3>1, <3>2, <3>3, <3>4
  <2>4. CASE Save(p)
    <3> DEFINE src == [source[p] EXCEPT !.persisted = TRUE, !.pc = "idle"]
    <3>1. src.loaded = source[p].loaded /\ src.cached = source[p].cached /\ src.pc = "idle"
      BY <1>1 DEF SourceType
    <3>2. Set(p, src)
      BY <2>4 DEF Save
    <3>3. QED
      <4> HIDE DEF src
      <4> QED
        BY <1>2, <1>5, <3>1, <3>2
  <2>5. CASE LoadFails(p) \/ RefreshUnanswered(p) \/ RefreshRefused(p) \/ SaveFails(p)
    BY <1>6, <2>5 DEF LoadFails, RefreshUnanswered, RefreshRefused, SaveFails, KeepUnsaved
  <2>6. QED
    BY <2>1, <2>2, <2>3, <2>4, <2>5 DEF Source
<1>8. CallsAreNamed' /\ CheckStillHolds' /\ ConfiguredIsBound' /\ OneAthleteBound'
  BY <1>3, <1>4 DEF Binding, CallsAreNamed, CheckStillHolds, ConfiguredIsBound, OneAthleteBound
<1>9. QED
  BY <1>7, <1>8 DEF Binding

\* A callback binds the athlete it was checked for, and what the check found
\* still holds then, because the lock is held from the one to the other.
LEMMA CallbackKeepsBinding ==
  ASSUME TypeOK, Binding, NEW c \in Request, Callback(c)
  PROVE  Binding'
<1> DEFINE a == calls[c].pair.athlete
<1>1. /\ calls \in Calls /\ issued \in Nat
      /\ calls[c].pc # "idle" => a \in Athlete
      /\ calls[c].pc \in {"check", "save"} => calls[c].pair.n # 0
  BY DEF TypeOK, Calls, Binding, CallsAreNamed
<1>2. UNCHANGED source
  BY DEF Callback, AuthCallback, Exchange, ExchangeUnusable, ExchangeFails, CheckAthlete,
         CheckAthleteBlind, SaveToken, SaveTokenFails
<1>3. ASSUME UNCHANGED <<stored, blind>>,
             NEW new, calls' = [calls EXCEPT ![c] = new],
             new.pc # "save",
             new.pc # "idle" => new.pair.athlete \in Athlete,
             new.pc = "check" => new.pair.n # 0
      PROVE  Binding'
  <2>1. Bound' = Bound
    BY <1>3 DEF Bound
  <2>2. SourcesAreBound'
    BY <1>2, <2>1 DEF Binding, SourcesAreBound
  <2>3. calls'[c] = new /\ \A other \in Request \ {c} : calls'[other] = calls[other]
    BY <1>1, <1>3 DEF Calls
  <2>4. CallsAreNamed'
    BY <1>3, <2>3 DEF Binding, CallsAreNamed
  <2>5. CheckStillHolds'
    BY <1>3, <2>1, <2>3 DEF Binding, CheckStillHolds
  <2>6. ConfiguredIsBound' /\ OneAthleteBound'
    BY <1>3, <2>1 DEF Binding, ConfiguredIsBound, OneAthleteBound
  <2>7. QED
    BY <2>2, <2>4, <2>5, <2>6 DEF Binding
<1>4. NoCall.pc = "idle"
  BY DEF NoCall
<1>5. ASSUME NEW s \in State, AuthCallback(c, s)
      PROVE  Binding'
  <2>1. CASE UNCHANGED calls
    <3>1. Bound' = Bound /\ UNCHANGED <<stored, calls, blind>>
      BY <1>5, <2>1 DEF AuthCallback, Bound
    <3>2. SourcesAreBound'
      BY <1>2, <3>1 DEF Binding, SourcesAreBound
    <3>3. CallsAreNamed' /\ CheckStillHolds' /\ ConfiguredIsBound' /\ OneAthleteBound'
      BY <3>1, UnboundStep
    <3>4. QED
      BY <3>2, <3>3 DEF Binding
  <2>2. CASE ~UNCHANGED calls
    <3>1. PICK b \in Athlete :
            calls' = [calls EXCEPT ![c] = [pc |-> "exchange",
                                           pair |-> [athlete |-> b, n |-> 0]]]
      BY <1>5, <2>2 DEF AuthCallback
    <3>2. UNCHANGED <<stored, blind>>
      BY <1>5 DEF AuthCallback
    <3> DEFINE new == [pc |-> "exchange", pair |-> [athlete |-> b, n |-> 0]]
    <3>3. new.pc = "exchange" /\ new.pair.athlete = b
      OBVIOUS
    <3>4. calls' = [calls EXCEPT ![c] = new]
      BY <3>1
    <3>5. QED
      <4> HIDE DEF new
      <4> QED
        BY <1>3, <3>2, <3>3, <3>4
  <2>3. QED
    BY <2>1, <2>2
<1>6. CASE Exchange(c)
  <2>1. calls' = [calls EXCEPT ![c] = [pc |-> "check",
                    pair |-> [athlete |-> a, n |-> issued + 1]]]
    BY <1>6 DEF Exchange, Authorized
  <2>2. UNCHANGED <<stored, blind>> /\ a \in Athlete /\ issued + 1 # 0
    BY <1>1, <1>6 DEF Exchange
  <2> DEFINE new == [pc |-> "check", pair |-> [athlete |-> a, n |-> issued + 1]]
  <2>3. new.pc = "check" /\ new.pair.athlete = a /\ new.pair.n = issued + 1
    OBVIOUS
  <2>4. calls' = [calls EXCEPT ![c] = new]
    BY <2>1
  <2>5. QED
    <3> HIDE DEF new
    <3> QED
      BY <1>3, <2>2, <2>3, <2>4
<1>7. CASE ExchangeUnusable(c) \/ ExchangeFails(c)
  BY <1>3, <1>4, <1>7 DEF ExchangeUnusable, ExchangeFails, Abandon, Answer
<1>8. ASSUME Permit(c), calls[c].pc = "check", BindIsFree(c), UNCHANGED stored,
             ~blind' => ~blind /\ Bound \subseteq {a},
             Configured # NoAthlete => a = Configured
      PROVE  Binding'
  <2>1. Bound' = Bound
    BY <1>8 DEF Bound
  <2>2. SourcesAreBound'
    BY <1>2, <2>1 DEF Binding, SourcesAreBound
  <2>3. /\ calls'[c].pc = "save" /\ calls'[c].pair = calls[c].pair
        /\ \A other \in Request \ {c} : calls'[other] = calls[other]
    BY <1>1, <1>8 DEF Permit, Calls
  <2>4. CallsAreNamed'
    BY <1>1, <1>8, <2>3 DEF Binding, CallsAreNamed
  <2>5. CheckStillHolds'
    BY <1>8, <2>1, <2>3 DEF CheckStillHolds, BindIsFree
  <2>6. ConfiguredIsBound' /\ OneAthleteBound'
    BY <1>8, <2>1 DEF Binding, ConfiguredIsBound, OneAthleteBound
  <2>7. QED
    BY <2>2, <2>4, <2>5, <2>6 DEF Binding
<1>9. CASE CheckAthlete(c)
  <2>0. calls[c].pc = "check" /\ BindIsFree(c) /\ UNCHANGED <<stored, blind>>
    BY <1>9 DEF CheckAthlete
  <2>1. CASE Permit(c) /\ Permitted(a)
    <3>1. CASE Configured # NoAthlete
      <4>1. a = Configured /\ Bound \subseteq {a}
        BY <2>1, <3>1 DEF Permitted, Binding, ConfiguredIsBound
      <4>2. QED
        BY <1>8, <2>0, <2>1, <4>1
    <3>2. CASE Configured = NoAthlete
      <4>1. ~blind => Bound \subseteq AnyToken
        BY DEF Binding, OneAthleteBound, AnyToken
      <4>2. AnyToken \subseteq {a}
        BY <2>1, <3>2 DEF Permitted
      <4>3. QED
        BY <1>8, <2>0, <2>1, <3>2, <4>1, <4>2
    <3>3. QED
      BY <3>1, <3>2
  <2>2. CASE Abandon(c)
    BY <1>3, <1>4, <1>9, <2>2 DEF CheckAthlete, Abandon, Answer
  <2>3. (Permitted(a) /\ Permit(c)) \/ Abandon(c)
    BY <1>9 DEF CheckAthlete, Authorized
  <2>4. QED
    BY <2>1, <2>2, <2>3
<1>10. CASE CheckAthleteBlind(c)
  BY <1>8, <1>10 DEF CheckAthleteBlind
<1>11. ASSUME calls[c].pc = "save", StorePair(calls[c].pair), Answer(c), UNCHANGED blind
       PROVE  Binding'
  <2>1. Bound' = Bound \cup {a}
    BY <1>1, <1>11 DEF Bound, StorePair, TypeOK
  <2>2. SourcesAreBound'
    BY <1>2, <2>1 DEF Binding, SourcesAreBound
  <2>3. calls'[c].pc = "idle" /\ \A other \in Request \ {c} : calls'[other] = calls[other]
    BY <1>1, <1>4, <1>11 DEF Answer, Calls
  <2>4. CallsAreNamed'
    BY <2>3 DEF Binding, CallsAreNamed
  <2>5. \A other \in Request : calls'[other].pc # "save"
    BY <1>11, <2>3 DEF Binding, CheckStillHolds
  <2>6. CheckStillHolds'
    BY <2>5 DEF CheckStillHolds
  <2>7. (~blind => Bound \subseteq {a}) /\ (Configured # NoAthlete => a = Configured)
    BY <1>11 DEF Binding, CheckStillHolds
  <2>8. ConfiguredIsBound' /\ OneAthleteBound'
    BY <1>11, <2>1, <2>7 DEF Binding, ConfiguredIsBound, OneAthleteBound
  <2>9. QED
    BY <2>2, <2>4, <2>6, <2>8 DEF Binding
<1>12. CASE SaveToken(c)
  BY <1>11, <1>12 DEF SaveToken
<1>13. CASE SaveTokenFails(c)
  <2>1. CASE UNCHANGED stored /\ Abandon(c)
    BY <1>3, <1>4, <1>13, <2>1 DEF SaveTokenFails, Abandon, Answer
  <2>2. CASE StorePair(calls[c].pair) /\ Answer(c)
    BY <1>11, <1>13, <2>2 DEF SaveTokenFails
  <2>3. QED
    BY <1>13, <2>1, <2>2 DEF SaveTokenFails
<1>14. QED
  BY <1>5, <1>6, <1>7, <1>9, <1>10, <1>12, <1>13 DEF Callback

\* Time, the authorization start, the end of a process and the import bind
\* nobody: a source that starts holds nothing.
LEMMA EnvironmentKeepsBinding ==
  ASSUME TypeOK, Binding,
         \/ \E s \in State : AuthStart(s)
         \/ Expire \/ Tick \/ Restart \/ StartImport \/ EndImport
  PROVE  Binding'
<1>1. UNCHANGED <<stored, blind>>
  BY DEF AuthStart, Expire, Tick, Restart, StartImport, EndImport
<1>2. Bound' = Bound
  BY <1>1 DEF Bound
<1>3. ASSUME NEW p \in Process, NEW a \in Athlete \cup {NoAthlete},
             Set(p, NewSource(a)) \/ Set(p, NotRunning)
      PROVE  SourcesAreBound'
  <2>1. /\ ~NewSource(a).loaded /\ NewSource(a).pc = "idle"
        /\ ~NotRunning.loaded /\ NotRunning.pc = "off"
    BY DEF NewSource, NotRunning
  <2>2. QED
    BY <1>2, <1>3, <2>1, OtherSourcesStay DEF Binding
<1>4. SourcesAreBound'
  <2>1. CASE UNCHANGED source
    BY <1>2, <2>1 DEF Binding, SourcesAreBound
  <2>2. CASE Restart
    BY <1>3, <2>2, TokensAssumption DEF Restart, Process
  <2>3. CASE StartImport
    <3>1. PICK a \in AnyToken : Set("import", NewSource(a))
      BY <2>3 DEF StartImport
    <3>2. a \in Athlete
      BY DEF AnyToken, Bound
    <3>3. QED
      BY <1>3, <3>1, <3>2 DEF Process
  <2>4. CASE EndImport
    BY <1>3, <2>4 DEF EndImport, Process
  <2>5. QED
    BY <2>1, <2>2, <2>3, <2>4 DEF AuthStart, Expire, Tick
<1>5. CASE UNCHANGED calls
  <2>1. CallsAreNamed' /\ CheckStillHolds' /\ ConfiguredIsBound' /\ OneAthleteBound'
    BY <1>1, <1>5, UnboundStep
  <2>2. QED
    BY <1>4, <2>1 DEF Binding
<1>6. CASE calls' = [c \in Request |-> NoCall]
  <2>1. \A c \in Request : calls'[c].pc = "idle"
    BY <1>6 DEF NoCall
  <2>2. CallsAreNamed' /\ CheckStillHolds'
    BY <2>1 DEF CallsAreNamed, CheckStillHolds
  <2>3. ConfiguredIsBound' /\ OneAthleteBound'
    BY <1>1, <1>2 DEF Binding, ConfiguredIsBound, OneAthleteBound
  <2>4. QED
    BY <1>4, <2>2, <2>3 DEF Binding
<1>7. QED
  BY <1>5, <1>6 DEF AuthStart, Expire, Tick, Restart, StartImport, EndImport
-----------------------------------------------------------------------------
(* States.                                                                 *)

OneUse == UsedStatesAreRetired /\ StateAuthorizesOnce

\* Only authCallback accepts a state, one the server knows, and retires it.
LEMMA StatesAreUsedOnce ==
  ASSUME TypeOK, OneUse, Next
  PROVE  OneUse'
<1>1. /\ states \in [State -> -2..(StateTTL + 1)] /\ uses \in [State -> Nat]
      /\ StateTTL \in Nat
      /\ \A s \in State : (uses[s] # 0 => states[s] = Retired) /\ uses[s] <= 1
  BY TokensAssumption DEF TypeOK, OneUse, UsedStatesAreRetired, StateAuthorizesOnce
<1>2. Retired = -2 /\ Unissued = -1
  BY DEF Retired, Unissued
<1>3. ASSUME UNCHANGED uses, \A s \in State : states[s] = Retired => states'[s] = Retired
      PROVE  OneUse'
  BY <1>1, <1>3 DEF OneUse, UsedStatesAreRetired, StateAuthorizesOnce
<1>4. ASSUME NEW p \in Process, Source(p)
      PROVE  OneUse'
  <2>1. UNCHANGED <<states, uses>>
    BY <1>4 DEF Source, Token, Load, LoadFails, Refresh, RefreshUnanswered, RefreshRefused,
                Save, SaveFails
  <2>2. QED
    BY <1>3, <2>1
<1>5. ASSUME NEW s \in State, AuthStart(s)
      PROVE  OneUse'
  <2>1. UNCHANGED uses /\ states[s] = Unissued
    BY <1>5 DEF AuthStart
  <2>2. \A t \in State : states[t] = Retired => states'[t] = Retired
    BY <1>1, <1>2, <1>5, <2>1 DEF AuthStart
  <2>3. QED
    BY <1>3, <2>1, <2>2
<1>6. ASSUME NEW c \in Request, NEW s \in State, AuthCallback(c, s)
      PROVE  OneUse'
  <2>1. uses[s] = 0 /\ states' = [states EXCEPT ![s] = Retired]
    BY <1>1, <1>2, <1>6 DEF AuthCallback, ConsumeState
  <2>2. uses' = uses \/ uses' = [uses EXCEPT ![s] = @ + 1]
    BY <1>6 DEF AuthCallback
  <2>3. uses'[s] \in {0, 1} /\ \A t \in State \ {s} : uses'[t] = uses[t]
    BY <1>1, <2>1, <2>2
  <2>4. states'[s] = Retired /\ \A t \in State \ {s} : states'[t] = states[t]
    BY <1>1, <2>1
  <2>5. UsedStatesAreRetired'
    BY <1>1, <2>3, <2>4 DEF UsedStatesAreRetired
  <2>6. \A t \in State : uses'[t] <= 1
    BY <1>1, <2>3
  <2>7. QED
    BY <2>5, <2>6 DEF OneUse, StateAuthorizesOnce
<1>7. ASSUME NEW c \in Request, Callback(c)
      PROVE  OneUse'
  <2>1. (\E s \in State : AuthCallback(c, s)) \/ UNCHANGED <<states, uses>>
    BY <1>7 DEF Callback, Exchange, ExchangeUnusable, ExchangeFails, CheckAthlete,
                CheckAthleteBlind, SaveToken, SaveTokenFails
  <2>2. QED
    BY <1>3, <1>6, <2>1
<1>8. CASE Expire \/ Tick \/ Restart \/ StartImport \/ EndImport
  <2>1. UNCHANGED uses
    BY <1>8 DEF Expire, Tick, Restart, StartImport, EndImport
  <2>2. \A s \in State : states[s] = Retired => states'[s] = Retired
    BY <1>1, <1>2, <1>8 DEF Expire, Tick, Restart, StartImport, EndImport
  <2>3. QED
    BY <1>3, <2>1, <2>2
<1>9. QED
  BY <1>4, <1>5, <1>7, <1>8 DEF Next
-----------------------------------------------------------------------------
(* Steps.  What each step of a source and of a callback is, as far as the  *)
(* pairs they hold go.                                                     *)

\* A step that leaves the pair in hand and the store alone: asking for it,
\* and every failure of which nothing stays behind.
TurnsTo(p) ==
  /\ UNCHANGED <<live, stored, lost>>
  /\ source'[p].cached = source[p].cached
  /\ source'[p].loaded = source[p].loaded
  /\ source'[p].pc \in {"idle", "load", "refresh", "save"}
  /\ source'[p].pc = "load" => ~source[p].loaded
  /\ source'[p].pc = "refresh" => source[p].cached.n \in expired
  /\ source'[p].pc = "save" => source[p].cached.n \notin expired

\* A source that held nothing reads the stored pair of an athlete.
Reads(p) ==
  /\ source[p].pc = "load"
  /\ UNCHANGED <<live, stored, lost>>
  /\ source'[p].loaded
  /\ \E a \in Bound : source'[p].cached = StoredPair(a)
  /\ source'[p].pc \in {"idle", "refresh"}
  /\ source'[p].pc = "refresh" => source'[p].cached.n \in expired

\* A source has its pair refreshed.
Renews(p) ==
  /\ source[p].pc = "refresh"
  /\ AcceptedPair(source[p].cached)
  /\ Issue(source[p].cached.athlete)
  /\ UNCHANGED <<stored, lost>>
  /\ source'[p].loaded
  /\ source'[p].cached = [athlete |-> source[p].cached.athlete, n |-> issued + 1]
  /\ source'[p].pc = "save"

\* The refreshed pair got lost on the way.
Misses(p) ==
  /\ source[p].pc = "refresh"
  /\ Issue(source[p].cached.athlete)
  /\ UNCHANGED stored
  /\ lost' = lost \cup {source[p].cached.athlete}
  /\ source'[p].loaded = source[p].loaded
  /\ source'[p].cached = source[p].cached
  /\ source'[p].pc = "idle"

\* A source writes its pair.
Writes(p) ==
  /\ source[p].pc = "save"
  /\ UNCHANGED <<live, lost>>
  /\ StorePair(source[p].cached)
  /\ source'[p].loaded = source[p].loaded
  /\ source'[p].cached = source[p].cached
  /\ source'[p].pc = "idle"

\* What a call of a source may do, and that it does it to its own source.
LEMMA SourceStep ==
  ASSUME TypeOK, SourcesAreBound, NEW p \in Process, Source(p)
  PROVE  /\ UNCHANGED <<calls, expired, grants>>
         /\ source[p].pc # "off"
         /\ source[p].pc = "idle" /\ p = "service" => MaySweep
         /\ \A q \in Process \ {p} : source'[q] = source[q]
         /\ TurnsTo(p) \/ Reads(p) \/ Renews(p) \/ Misses(p) \/ Writes(p)
<1>1. source \in [Process -> SourceType] /\ source[p] \in SourceType
  BY DEF TypeOK
<1>2. /\ UNCHANGED <<calls, expired, grants>>
      /\ source[p].pc # "off"
      /\ source[p].pc = "idle" /\ p = "service" => MaySweep
  BY DEF Source, Token, Load, LoadFails, Refresh, RefreshUnanswered, RefreshRefused,
         Save, SaveFails
<1>3. ASSUME NEW src, Set(p, src)
      PROVE  source'[p] = src /\ \A q \in Process \ {p} : source'[q] = source[q]
  BY <1>1, <1>3 DEF Set
<1>4. ASSUME NEW pc \in {"idle", "load", "refresh", "save"},
             Set(p, [source[p] EXCEPT !.pc = pc])
      PROVE  /\ \A q \in Process \ {p} : source'[q] = source[q]
             /\ source'[p].cached = source[p].cached
             /\ source'[p].loaded = source[p].loaded
             /\ source'[p].pc = pc
  BY <1>1, <1>3, <1>4 DEF SourceType
<1>5. CASE Token(p)
  <2> DEFINE pc == IF source[p].loaded THEN Continue(source[p]) ELSE "load"
  <2>1. /\ pc \in {"idle", "load", "refresh", "save"}
        /\ pc = "load" => ~source[p].loaded
        /\ pc = "refresh" => source[p].cached.n \in expired
        /\ pc = "save" => source[p].cached.n \notin expired
    BY DEF Continue
  <2>2. Set(p, [source[p] EXCEPT !.pc = pc]) /\ UNCHANGED <<live, stored, lost>>
    BY <1>5 DEF Token
  <2>3. TurnsTo(p) /\ \A q \in Process \ {p} : source'[q] = source[q]
    <3> HIDE DEF pc
    <3> QED
      BY <1>4, <2>1, <2>2 DEF TurnsTo
  <2>4. QED
    BY <1>2, <2>3
<1>6. CASE Load(p)
  <2>1. PICK a \in LoadFor(p) :
          LET src == [source[p] EXCEPT !.loaded = TRUE, !.persisted = TRUE,
                                       !.cached = [athlete |-> a, n |-> stored[a]]]
          IN  Set(p, [src EXCEPT !.pc = Continue(src)])
    BY <1>6 DEF Load
  <2>2. a \in Bound
    BY DEF LoadFor, AnyToken
  <2> DEFINE src == [source[p] EXCEPT !.loaded = TRUE, !.persisted = TRUE,
                                      !.cached = [athlete |-> a, n |-> stored[a]]]
             next == [src EXCEPT !.pc = Continue(src)]
  <2>3. src.persisted /\ src.cached = StoredPair(a) /\ src.loaded
    BY <1>1 DEF SourceType, StoredPair
  <2>4. /\ Continue(src) \in {"idle", "refresh"}
        /\ Continue(src) = "refresh" => src.cached.n \in expired
    BY <2>3 DEF Continue
  <2>5. next.loaded /\ next.cached = src.cached /\ next.pc = Continue(src)
    BY <1>1 DEF SourceType
  <2>6. Set(p, next)
    BY <2>1
  <2>7. source'[p] = next /\ \A q \in Process \ {p} : source'[q] = source[q]
    <3> HIDE DEF next
    <3> QED
      BY <1>3, <2>6
  <2>8. source[p].pc = "load" /\ UNCHANGED <<live, stored, lost>>
    BY <1>6 DEF Load
  <2>9. Reads(p)
    <3> HIDE DEF src, next
    <3> QED
      BY <2>2, <2>3, <2>4, <2>5, <2>7, <2>8 DEF Reads
  <2>10. QED
    BY <1>2, <2>7, <2>9
<1>7. CASE LoadFails(p) \/ RefreshRefused(p) \/ (SaveFails(p) /\ UNCHANGED stored)
  <2>1. Set(p, [source[p] EXCEPT !.pc = "idle"]) /\ UNCHANGED <<live, stored, lost>>
    BY <1>7 DEF LoadFails, RefreshRefused, SaveFails, KeepUnsaved
  <2>2. TurnsTo(p) /\ \A q \in Process \ {p} : source'[q] = source[q]
    BY <1>4, <2>1 DEF TurnsTo
  <2>3. QED
    BY <1>2, <2>2
<1>8. CASE Refresh(p)
  <2> DEFINE src == Adopt(source[p], issued + 1)
  <2>1. source[p].cached \in Pair /\ source[p].loaded
    BY <1>1, <1>8 DEF SourceType, SourcesAreBound, Refresh
  <2>2. source[p].cached = [athlete |-> source[p].cached.athlete, n |-> source[p].cached.n]
    BY <2>1 DEF Pair, NoPair
  <2>3. /\ src.loaded /\ src.pc = "save"
        /\ src.cached = [athlete |-> source[p].cached.athlete, n |-> issued + 1]
    BY <1>1, <2>1, <2>2 DEF Adopt, SourceType
  <2>4. Set(p, src)
    BY <1>8 DEF Refresh
  <2>5. source'[p] = src /\ \A q \in Process \ {p} : source'[q] = source[q]
    <3> HIDE DEF src
    <3> QED
      BY <1>3, <2>4
  <2>6. Renews(p)
    <3> HIDE DEF src
    <3> QED
      BY <1>8, <2>3, <2>5 DEF Renews, Refresh
  <2>7. QED
    BY <1>2, <2>5, <2>6
<1>9. CASE RefreshUnanswered(p)
  <2>1. Set(p, [source[p] EXCEPT !.pc = "idle"])
    BY <1>9 DEF RefreshUnanswered
  <2>2. Misses(p) /\ \A q \in Process \ {p} : source'[q] = source[q]
    BY <1>4, <1>9, <2>1 DEF Misses, RefreshUnanswered
  <2>3. QED
    BY <1>2, <2>2
<1>10. CASE Save(p) \/ (SaveFails(p) /\ StorePair(source[p].cached))
  <2>1. /\ source'[p].loaded = source[p].loaded /\ source'[p].cached = source[p].cached
        /\ source'[p].pc = "idle" /\ \A q \in Process \ {p} : source'[q] = source[q]
    <3>1. CASE Save(p)
      <4> DEFINE src == [source[p] EXCEPT !.persisted = TRUE, !.pc = "idle"]
      <4>1. src.loaded = source[p].loaded /\ src.cached = source[p].cached /\ src.pc = "idle"
        BY <1>1 DEF SourceType
      <4>2. Set(p, src)
        BY <3>1 DEF Save
      <4>3. QED
        <5> HIDE DEF src
        <5> QED
          BY <1>3, <4>1, <4>2
    <3>2. CASE SaveFails(p)
      BY <1>4, <3>2 DEF SaveFails, KeepUnsaved
    <3>3. QED
      BY <1>10, <3>1, <3>2
  <2>2. Writes(p)
    BY <1>10, <2>1 DEF Writes, Save, SaveFails
  <2>3. QED
    BY <1>2, <2>1, <2>2
<1>11. SaveFails(p) => StorePair(source[p].cached) \/ UNCHANGED stored
  BY DEF SaveFails
<1>12. QED
  BY <1>5, <1>6, <1>7, <1>8, <1>9, <1>10, <1>11 DEF Source
\* A callback is accepted with a state, or turned away.
Enters(c) ==
  /\ UNCHANGED <<live, stored, grants, lost>>
  /\ \/ calls'[c] = calls[c]
     \/ /\ calls[c].pc = "idle"
        /\ \E a \in Athlete : calls'[c] = [pc |-> "exchange", pair |-> [athlete |-> a, n |-> 0]]

\* A callback is issued a pair.
Obtains(c) ==
  /\ calls[c].pc = "exchange"
  /\ Issue(Authorized(c))
  /\ UNCHANGED <<stored, lost>>
  /\ grants' = [grants EXCEPT ![Authorized(c)] = @ + 1]
  /\ calls'[c] = [pc |-> "check", pair |-> [athlete |-> Authorized(c), n |-> issued + 1]]

\* A callback ends without a pair: none was issued, or it is lost.
GivesUp(c) ==
  /\ calls[c].pc # "idle"
  /\ calls'[c] = NoCall
  /\ UNCHANGED stored
  /\ \/ calls[c].pc = "exchange" /\ UNCHANGED <<live, grants, lost>>
     \/ /\ \/ UNCHANGED <<live, grants>>
           \/ /\ Issue(Authorized(c))
              /\ grants' = [grants EXCEPT ![Authorized(c)] = @ + 1]
        /\ lost' = lost \cup {Authorized(c)}

\* A callback is past its check.
Passes(c) ==
  /\ calls[c].pc = "check"
  /\ calls'[c].pc = "save" /\ calls'[c].pair = calls[c].pair
  /\ UNCHANGED <<live, stored, grants, lost>>

\* A callback stores its pair.
Stores(c) ==
  /\ calls[c].pc = "save"
  /\ calls'[c] = NoCall
  /\ StorePair(calls[c].pair)
  /\ UNCHANGED <<live, grants, lost>>

\* What a step of a callback may do, and that it does it to its own call.
LEMMA CallbackStep ==
  ASSUME TypeOK, NEW c \in Request, Callback(c)
  PROVE  /\ UNCHANGED <<source, expired>>
         /\ \A d \in Request \ {c} : calls'[d] = calls[d]
         /\ Enters(c) \/ Obtains(c) \/ GivesUp(c) \/ Passes(c) \/ Stores(c)
<1>1. UNCHANGED <<source, expired>>
  BY DEF Callback, AuthCallback, Exchange, ExchangeUnusable, ExchangeFails, CheckAthlete,
         CheckAthleteBlind, SaveToken, SaveTokenFails
<1>2. calls \in Calls
  BY DEF TypeOK, Calls
<1>3. ASSUME NEW new, calls' = [calls EXCEPT ![c] = new]
      PROVE  calls'[c] = new /\ \A d \in Request \ {c} : calls'[d] = calls[d]
  BY <1>2, <1>3 DEF Calls
<1>4. ASSUME NEW s \in State, AuthCallback(c, s)
      PROVE  Enters(c) /\ \A d \in Request \ {c} : calls'[d] = calls[d]
  <2>1. CASE UNCHANGED calls
    BY <1>4, <2>1 DEF AuthCallback, Enters
  <2>2. CASE ~UNCHANGED calls
    <3>1. PICK a \in Athlete :
            calls' = [calls EXCEPT ![c] = [pc |-> "exchange",
                                           pair |-> [athlete |-> a, n |-> 0]]]
      BY <1>4, <2>2 DEF AuthCallback
    <3>2. /\ calls'[c] = [pc |-> "exchange", pair |-> [athlete |-> a, n |-> 0]]
          /\ \A d \in Request \ {c} : calls'[d] = calls[d]
      BY <1>3, <3>1
    <3>3. QED
      BY <1>4, <3>2 DEF AuthCallback, Enters
  <2>3. QED
    BY <2>1, <2>2
<1>5. CASE Exchange(c)
  <2>1. /\ calls'[c] = [pc |-> "check", pair |-> [athlete |-> Authorized(c), n |-> issued + 1]]
        /\ \A d \in Request \ {c} : calls'[d] = calls[d]
    BY <1>3, <1>5 DEF Exchange
  <2>2. QED
    BY <1>1, <1>5, <2>1 DEF Exchange, Obtains
<1>6. ASSUME Answer(c)
      PROVE  calls'[c] = NoCall /\ \A d \in Request \ {c} : calls'[d] = calls[d]
  BY <1>3, <1>6 DEF Answer
<1>7. CASE ExchangeUnusable(c) \/ ExchangeFails(c)
  <2>1. calls'[c] = NoCall /\ \A d \in Request \ {c} : calls'[d] = calls[d]
    BY <1>6, <1>7 DEF ExchangeUnusable, ExchangeFails, Abandon
  <2>2. QED
    BY <1>1, <1>7, <2>1 DEF ExchangeUnusable, ExchangeFails, Abandon, GivesUp
<1>8. ASSUME Permit(c)
      PROVE  /\ calls'[c].pc = "save" /\ calls'[c].pair = calls[c].pair
             /\ \A d \in Request \ {c} : calls'[d] = calls[d]
  BY <1>2, <1>8 DEF Permit, Calls
<1>9. CASE CheckAthlete(c)
  <2>1. CASE Permit(c) /\ UNCHANGED lost
    BY <1>1, <1>8, <1>9, <2>1 DEF CheckAthlete, Passes
  <2>2. CASE Abandon(c)
    BY <1>1, <1>6, <1>9, <2>2 DEF CheckAthlete, Abandon, GivesUp
  <2>3. QED
    BY <1>9, <2>1, <2>2 DEF CheckAthlete
<1>10. CASE CheckAthleteBlind(c)
  BY <1>1, <1>8, <1>10 DEF CheckAthleteBlind, Passes
<1>11. CASE SaveToken(c)
  BY <1>1, <1>6, <1>11 DEF SaveToken, Stores
<1>12. CASE SaveTokenFails(c)
  <2>1. CASE StorePair(calls[c].pair) /\ Answer(c) /\ UNCHANGED lost
    BY <1>1, <1>6, <1>12, <2>1 DEF SaveTokenFails, Stores
  <2>2. CASE UNCHANGED stored /\ Abandon(c)
    BY <1>1, <1>6, <1>12, <2>2 DEF SaveTokenFails, Abandon, GivesUp
  <2>3. QED
    BY <1>12, <2>1, <2>2 DEF SaveTokenFails
<1>13. QED
  BY <1>1, <1>4, <1>5, <1>7, <1>9, <1>10, <1>11, <1>12 DEF Callback

Moments == OneAtATime /\ StepsAreKnown

\* A source's call keeps what its next step relies on, and does not begin in
\* the service while the import runs alone.
LEMMA SourceKeepsMoments ==
  ASSUME TypeOK, SourcesAreBound, Moments, NEW p \in Process, Source(p)
  PROVE  Moments'
<1>1. /\ UNCHANGED <<calls, expired>>
      /\ source[p].pc # "off"
      /\ source[p].pc = "idle" /\ p = "service" => MaySweep
      /\ \A q \in Process \ {p} : source'[q] = source[q]
      /\ TurnsTo(p) \/ Reads(p) \/ Renews(p) \/ Misses(p) \/ Writes(p)
  BY SourceStep
<1>2. OneAtATime'
  BY <1>1 DEF Moments, OneAtATime, MaySweep, Process
<1>3. /\ source'[p].pc \in {"off", "load"} => ~source'[p].loaded
      /\ source'[p].pc = "refresh" => source'[p].cached.n \in expired
  BY <1>1 DEF TurnsTo, Reads, Renews, Misses, Writes
<1>4. StepsAreKnown'
  BY <1>1, <1>3 DEF Moments, StepsAreKnown
<1>5. QED
  BY <1>2, <1>4 DEF Moments

\* A callback keeps what its next step relies on.
LEMMA CallbackKeepsMoments ==
  ASSUME TypeOK, Moments, NEW c \in Request, Callback(c)
  PROVE  Moments'
<1>1. /\ UNCHANGED <<source, expired>>
      /\ \A d \in Request \ {c} : calls'[d] = calls[d]
      /\ Enters(c) \/ Obtains(c) \/ GivesUp(c) \/ Passes(c) \/ Stores(c)
  BY CallbackStep
<1>2. /\ calls'[c].pc = "idle" => calls'[c] = NoCall
      /\ calls'[c].pc = "exchange" => calls'[c].pair.n = 0
  <2>1. CASE calls'[c] = calls[c] \/ calls'[c] = NoCall
    BY <2>1 DEF NoCall, Moments, StepsAreKnown
  <2>2. CASE ~(calls'[c] = calls[c] \/ calls'[c] = NoCall)
    <3>1. CASE Enters(c)
      <4>1. PICK a \in Athlete :
              calls'[c] = [pc |-> "exchange", pair |-> [athlete |-> a, n |-> 0]]
        BY <2>2, <3>1 DEF Enters
      <4>2. QED
        BY <4>1
    <3>2. CASE Obtains(c)
      BY <3>2 DEF Obtains
    <3>3. CASE Passes(c)
      BY <3>3 DEF Passes
    <3>4. QED
      BY <1>1, <2>2, <3>1, <3>2, <3>3 DEF GivesUp, Stores
  <2>3. QED
    BY <2>1, <2>2
<1>3. StepsAreKnown'
  BY <1>1, <1>2 DEF Moments, StepsAreKnown
<1>4. OneAtATime'
  BY <1>1 DEF Moments, OneAtATime
<1>5. QED
  BY <1>3, <1>4 DEF Moments

\* What a process that starts or stops begins with.
LEMMA SetSource ==
  ASSUME TypeOK, NEW p \in Process, NEW src, Set(p, src)
  PROVE  source'[p] = src /\ \A q \in Process \ {p} : source'[q] = source[q]
BY DEF TypeOK, Set

\* A source that starts is idle, one that stops is off; neither holds a pair.
LEMMA FreshSource ==
  ASSUME NEW a
  PROVE  /\ NewSource(a).pc = "idle" /\ ~NewSource(a).loaded
         /\ NotRunning.pc = "off" /\ ~NotRunning.loaded
         /\ NewSource(a).cached.athlete \notin Athlete
         /\ NotRunning.cached.athlete \notin Athlete
         /\ NewSource(a).cached = NoPair /\ NotRunning.cached = NoPair
         /\ NoCall.pair.athlete \notin Athlete /\ NoCall.pc = "idle"
BY TokensAssumption DEF NewSource, NotRunning, NoPair, NoCall

\* Time, the authorization start, the end of a process and the import keep it
\* too: the import begins only while the service asks for nothing.
LEMMA EnvironmentKeepsMoments ==
  ASSUME TypeOK, Moments,
         \/ \E s \in State : AuthStart(s)
         \/ Expire \/ Tick \/ Restart \/ StartImport \/ EndImport
  PROVE  Moments'
<1>1. CASE (\E s \in State : AuthStart(s)) \/ Expire \/ Tick
  <2>1. UNCHANGED <<source, calls>> /\ expired \subseteq expired'
    BY <1>1 DEF AuthStart, Expire, Tick
  <2>2. QED
    BY <2>1 DEF Moments, OneAtATime, StepsAreKnown
<1>2. ASSUME UNCHANGED expired, NEW p \in Process, NEW a,
             Set(p, NewSource(a)) \/ Set(p, NotRunning),
             UNCHANGED calls \/ calls' = [c \in Request |-> NoCall]
      PROVE  StepsAreKnown'
  <2>1. /\ source'[p].pc \in {"off", "idle"} /\ ~source'[p].loaded
        /\ \A q \in Process \ {p} : source'[q] = source[q]
    BY <1>2, SetSource, FreshSource
  <2>2. \A c \in Request : calls'[c] = NoCall \/ calls'[c] = calls[c]
    BY <1>2
  <2>3. QED
    BY <1>2, <2>1, <2>2, FreshSource DEF Moments, StepsAreKnown
<1>3. CASE Restart
  <2>1. Set("service", NewSource(Configured)) /\ UNCHANGED expired
        /\ calls' = [c \in Request |-> NoCall]
    BY <1>3 DEF Restart
  <2>2. StepsAreKnown'
    BY <1>2, <2>1 DEF Process
  <2>3. source'["service"].pc = "idle"
    BY <2>1, SetSource, FreshSource DEF Process
  <2>4. QED
    BY <2>2, <2>3 DEF Moments, OneAtATime
<1>4. CASE StartImport
  <2>1. PICK a \in AnyToken : Set("import", NewSource(a))
    BY <1>4 DEF StartImport
  <2>2. UNCHANGED <<expired, calls>> /\ (Alone => source["service"].pc = "idle")
    BY <1>4 DEF StartImport
  <2>3. StepsAreKnown'
    BY <1>2, <2>1, <2>2 DEF Process
  <2>4. source'["service"] = source["service"]
    BY <2>1, SetSource DEF Process
  <2>5. QED
    BY <2>2, <2>3, <2>4 DEF Moments, OneAtATime
<1>5. CASE EndImport
  <2>1. Set("import", NotRunning) /\ UNCHANGED <<expired, calls>>
    BY <1>5 DEF EndImport
  <2>2. StepsAreKnown'
    BY <1>2, <2>1 DEF Process
  <2>3. source'["import"].pc = "off"
    BY <2>1, SetSource, FreshSource DEF Process
  <2>4. QED
    BY <2>2, <2>3 DEF Moments, OneAtATime
<1>6. QED
  BY <1>1, <1>3, <1>4, <1>5
-----------------------------------------------------------------------------
(* Copies.  Where the newest pair of an athlete is, and how old any other  *)
(* copy of it may be.                                                      *)

\* A source's copy of the pair of a is the newest, or one it will not write.
Copy(a, src, newest, dead) ==
  src.cached.athlete = a =>
    /\ src.cached.n = newest \/ src.cached.n \in dead
    /\ src.pc = "save" => src.cached.n = newest

InFlight(call, a) == call.pc \in {"check", "save"} /\ call.pair.athlete = a

\* Athlete by athlete, and with where the newest pair is held.
CopiesOf(a) ==
  Kept(a) =>
    /\ grants[a] = 0 => live[a] = 0 /\ stored[a] = 0
    /\ stored[a] # 0 => stored[a] = live[a] \/ stored[a] \in expired
    /\ \A p \in Process : Copy(a, source[p], live[a], expired)
    /\ \A c \in Request :
         InFlight(calls[c], a) =>
           /\ grants[a] # 0
           /\ calls[c].pair.n = live[a]
           /\ stored[a] = 0
           /\ \A d \in Request \ {c} : ~InFlight(calls[d], a)
    /\ live[a] # 0 => HeldBy(a, source, calls)

\* Who may hold a pair is a matter of each athlete alone.
LEMMA CopiesByAthlete ==
  CopiesAreCurrent /\ LivePairIsHeld <=> \A a \in Athlete : CopiesOf(a)
<1>1. ASSUME CopiesAreCurrent, LivePairIsHeld, NEW a \in Athlete PROVE CopiesOf(a)
  BY <1>1 DEF CopiesAreCurrent, LivePairIsHeld, CopiesOf, Kept, Copy, InFlight
<1>2. ASSUME \A a \in Athlete : CopiesOf(a) PROVE CopiesAreCurrent
  BY <1>2 DEF CopiesAreCurrent, CopiesOf, Copy, InFlight
<1>3. ASSUME \A a \in Athlete : CopiesOf(a) PROVE LivePairIsHeld
  BY <1>3 DEF LivePairIsHeld, CopiesOf, Kept
<1>4. QED
  BY <1>1, <1>2, <1>3

\* A step that leaves an athlete's pairs with Strava and in the store alone,
\* lets no copy go, and puts no other one in flight.
LEMMA Undisturbed ==
  ASSUME NEW a \in Athlete, CopiesOf(a),
         live'[a] = live[a], stored'[a] = stored[a], grants'[a] = grants[a],
         expired \subseteq expired', lost \subseteq lost',
         Kept(a) => \A p \in Process : Copy(a, source'[p], live[a], expired'),
         \A p \in Process :
           source[p].cached.athlete = a => source'[p].cached = source[p].cached,
         \A c \in Request :
           InFlight(calls'[c], a) => InFlight(calls[c], a) /\ calls'[c].pair = calls[c].pair,
         \A c \in Request :
           calls[c].pair.athlete = a /\ calls[c].pair.n # 0 => calls'[c].pair = calls[c].pair
  PROVE  CopiesOf(a)'
<1>1. Kept(a)' => Kept(a)
  BY DEF Kept
<1>2. HeldBy(a, source, calls) /\ live[a] # 0 => HeldBy(a, source, calls)'
  <2>1. CASE stored[a] = live[a]
    BY <2>1 DEF HeldBy
  <2>2. ASSUME NEW p \in Process, source[p].cached = [athlete |-> a, n |-> live[a]]
        PROVE  HeldBy(a, source, calls)'
    <3>1. source'[p].cached = [athlete |-> a, n |-> live'[a]]
      BY <2>2
    <3>2. QED
      BY <3>1 DEF HeldBy
  <2>3. ASSUME NEW c \in Request, calls[c].pair = [athlete |-> a, n |-> live[a]], live[a] # 0
        PROVE  HeldBy(a, source, calls)'
    <3>1. calls'[c].pair = [athlete |-> a, n |-> live'[a]]
      BY <2>3
    <3>2. QED
      BY <3>1 DEF HeldBy
  <2>4. QED
    BY <2>1, <2>2, <2>3 DEF HeldBy
<1>3. SUFFICES ASSUME Kept(a)'
               PROVE  /\ grants'[a] = 0 => live'[a] = 0 /\ stored'[a] = 0
                      /\ stored'[a] # 0 => stored'[a] = live'[a] \/ stored'[a] \in expired'
                      /\ \A p \in Process : Copy(a, source'[p], live'[a], expired')
                      /\ \A c \in Request :
                           InFlight(calls'[c], a) =>
                             /\ grants'[a] # 0
                             /\ calls'[c].pair.n = live'[a]
                             /\ stored'[a] = 0
                             /\ \A d \in Request \ {c} : ~InFlight(calls'[d], a)
                      /\ live'[a] # 0 => HeldBy(a, source, calls)'
  BY DEF CopiesOf
<1>4. Kept(a)
  BY <1>1, <1>3
<1>5. QED
  BY <1>2, <1>4 DEF CopiesOf

\* A source's call leaves the newest pair of every athlete somewhere, and no
\* older one where it could be written over it.
LEMMA SourceKeepsCopies ==
  ASSUME TypeOK, SourcesAreBound, CallsAreNamed, Moments, Alone,
         NEW a \in Athlete, CopiesOf(a), NEW p \in Process, Source(p)
  PROVE  CopiesOf(a)'
<1> DEFINE b == source[p].cached.athlete
<1>1. /\ UNCHANGED <<calls, expired, grants>>
      /\ \A q \in Process \ {p} : source'[q] = source[q]
      /\ TurnsTo(p) \/ Reads(p) \/ Renews(p) \/ Misses(p) \/ Writes(p)
  BY SourceStep
<1>2. lost \subseteq lost'
  BY <1>1 DEF TurnsTo, Reads, Renews, Misses, Writes
<1>3. /\ live \in [Athlete -> 0..issued] /\ stored \in [Athlete -> 0..issued]
      /\ issued \in Nat /\ grants \in [Athlete -> Nat]
      /\ source[p].loaded <=> b \in Athlete
      /\ expired \subseteq 1..issued
  BY DEF TypeOK
<1>4. \A q \in Process :
        source[q].cached.athlete \in Athlete => stored[source[q].cached.athlete] # 0
  BY DEF TypeOK, SourcesAreBound, Bound
<1>5. ASSUME live'[a] = live[a], stored'[a] = stored[a],
             Kept(a) => Copy(a, source'[p], live[a], expired),
             b = a => source'[p].cached = source[p].cached
      PROVE  CopiesOf(a)'
  <2>1. Kept(a) => \A q \in Process : Copy(a, source'[q], live[a], expired')
    BY <1>1, <1>5 DEF CopiesOf
  <2>2. \A q \in Process :
          source[q].cached.athlete = a => source'[q].cached = source[q].cached
    BY <1>1, <1>5
  <2>3. QED
    BY <1>1, <1>2, <1>5, <2>1, <2>2, Undisturbed
<1>6. CASE TurnsTo(p)
  <2>1. Kept(a) => Copy(a, source'[p], live[a], expired)
    BY <1>6 DEF TurnsTo, Copy, CopiesOf
  <2>2. QED
    BY <1>5, <1>6, <2>1 DEF TurnsTo
<1>7. CASE Reads(p)
  <2>1. b # a
    BY <1>3, <1>7 DEF Reads, Moments, StepsAreKnown
  <2>2. Kept(a) => Copy(a, source'[p], live[a], expired)
    <3>1. PICK d \in Bound : source'[p].cached = StoredPair(d)
      BY <1>7 DEF Reads
    <3>2. stored[d] # 0 /\ source'[p].cached.athlete = d /\ source'[p].cached.n = stored[d]
      BY <3>1 DEF Bound, StoredPair
    <3>3. QED
      BY <1>7, <3>2 DEF Reads, Copy, CopiesOf
  <2>3. QED
    BY <1>5, <1>7, <2>1, <2>2 DEF Reads
<1>8. CASE Misses(p)
  <2>1. CASE b = a
    <3>1. ~Kept(a)'
      BY <1>8, <2>1 DEF Misses, Kept
    <3>2. QED
      BY <3>1 DEF CopiesOf
  <2>2. CASE b # a
    <3>1. live'[a] = live[a] /\ stored'[a] = stored[a]
      BY <1>3, <1>8, <2>2 DEF Misses, Issue
    <3>2. Kept(a) => Copy(a, source'[p], live[a], expired)
      BY <1>8, <2>2 DEF Misses, Copy
    <3>3. QED
      BY <1>5, <2>2, <3>1, <3>2
  <2>3. QED
    BY <2>1, <2>2
<1>9. CASE Writes(p)
  <2>1. CASE b # a
    <3>1. live'[a] = live[a] /\ stored'[a] = stored[a]
      BY <1>3, <1>9, <2>1 DEF Writes, StorePair
    <3>2. Kept(a) => Copy(a, source'[p], live[a], expired)
      BY <1>9, <2>1 DEF Writes, Copy
    <3>3. QED
      BY <1>5, <2>1, <3>1, <3>2
  <2>2. CASE b = a
    <3>1. SUFFICES ASSUME Kept(a)' PROVE CopiesOf(a)'
      BY DEF CopiesOf
    <3>2. Kept(a)
      BY <1>1, <1>2, <3>1 DEF Kept
    <3>3. source[p].cached.n = live[a]
      BY <1>9, <2>2, <3>2 DEF Writes, CopiesOf, Copy
    <3>4. stored'[a] = live[a] /\ live'[a] = live[a]
      BY <1>3, <1>9, <2>2, <3>3 DEF Writes, StorePair
    <3>5. stored[a] # 0
      BY <1>4, <2>2
    <3>6. grants[a] # 0 /\ \A c \in Request : ~InFlight(calls[c], a)
      BY <3>2, <3>5 DEF CopiesOf
    <3>7. \A q \in Process : Copy(a, source'[q], live[a], expired)
      BY <1>1, <1>9, <3>2, <3>3 DEF CopiesOf, Copy, Writes
    <3>8. HeldBy(a, source, calls)'
      BY <3>4 DEF HeldBy
    <3>9. QED
      BY <1>1, <3>4, <3>6, <3>7, <3>8 DEF CopiesOf
  <2>3. QED
    BY <2>1, <2>2
<1>10. CASE Renews(p)
  <2>1. CASE b # a
    <3>1. live'[a] = live[a] /\ stored'[a] = stored[a]
      BY <1>3, <1>10, <2>1 DEF Renews, Issue
    <3>2. Kept(a) => Copy(a, source'[p], live[a], expired)
      BY <1>10, <2>1 DEF Renews, Copy
    <3>3. QED
      BY <1>5, <2>1, <3>1, <3>2
  <2>2. CASE b = a
    <3>1. SUFFICES ASSUME Kept(a)' PROVE CopiesOf(a)'
      BY DEF CopiesOf
    <3>2. Kept(a)
      BY <1>1, <1>2, <3>1 DEF Kept
    <3>3. live[a] \in expired
      BY <1>10, <2>2 DEF Renews, AcceptedPair, Moments, StepsAreKnown
    <3>4. live'[a] = issued + 1 /\ stored'[a] = stored[a]
      BY <1>3, <1>10, <2>2 DEF Renews, Issue
    <3>5. stored[a] # 0
      BY <1>4, <2>2
    <3>6. grants[a] # 0 /\ \A c \in Request : ~InFlight(calls[c], a)
      BY <3>2, <3>5 DEF CopiesOf
    <3>7. stored'[a] \in expired
      BY <3>2, <3>3, <3>4, <3>5 DEF CopiesOf
    <3>8. source'[p].cached = [athlete |-> a, n |-> live'[a]]
      BY <1>10, <2>2, <3>4 DEF Renews
    <3>9. \A q \in Process \ {p} : source[q].pc # "save"
      BY <1>10 DEF Renews, Moments, OneAtATime, Process
    <3>10. \A q \in Process : Copy(a, source'[q], live'[a], expired)
      <4>1. Copy(a, source'[p], live'[a], expired)
        BY <3>8 DEF Copy
      <4>2. ASSUME NEW q \in Process \ {p} PROVE Copy(a, source'[q], live'[a], expired)
        BY <1>1, <3>2, <3>3, <3>9 DEF CopiesOf, Copy
      <4>3. QED
        BY <4>1, <4>2
    <3>11. HeldBy(a, source, calls)'
      BY <3>8 DEF HeldBy
    <3>12. QED
      BY <1>1, <3>6, <3>7, <3>10, <3>11 DEF CopiesOf
  <2>3. QED
    BY <2>1, <2>2
<1>11. QED
  BY <1>1, <1>6, <1>7, <1>8, <1>9, <1>10

\* Neither does a callback: the pair of an athlete's first flow meets no older
\* one, and it is stored or lost.
LEMMA CallbackKeepsCopies ==
  ASSUME TypeOK, SourcesAreBound, CallsAreNamed, StepsAreKnown,
         NEW a \in Athlete, CopiesOf(a), NEW c \in Request, Callback(c)
  PROVE  CopiesOf(a)'
<1> DEFINE b == calls[c].pair.athlete
<1>1. /\ UNCHANGED <<source, expired>>
      /\ \A d \in Request \ {c} : calls'[d] = calls[d]
      /\ Enters(c) \/ Obtains(c) \/ GivesUp(c) \/ Passes(c) \/ Stores(c)
  BY CallbackStep
<1>2. /\ live \in [Athlete -> 0..issued] /\ stored \in [Athlete -> 0..issued]
      /\ issued \in Nat /\ grants \in [Athlete -> Nat]
      /\ b \in Athlete \/ calls[c].pc = "idle"
  BY DEF TypeOK, CallsAreNamed
<1>3. /\ calls[c].pc = "idle" => b \notin Athlete
      /\ calls[c].pc = "exchange" => calls[c].pair.n = 0
  BY FreshSource DEF StepsAreKnown
<1>4. \A p \in Process :
        source[p].cached.athlete \in Athlete => stored[source[p].cached.athlete] # 0
  BY DEF TypeOK, SourcesAreBound, Bound
<1>5. lost \subseteq lost' /\ (Kept(a)' => Kept(a))
  <2>1. lost \subseteq lost' /\ (grants' = grants \/ grants' = [grants EXCEPT ![b] = @ + 1])
    BY <1>1 DEF Enters, Obtains, GivesUp, Passes, Stores, Authorized
  <2>2. grants[a] \in Nat /\ grants'[a] \in Nat /\ grants[a] <= grants'[a]
    BY <1>2, <2>1
  <2>3. QED
    BY <2>1, <2>2 DEF Kept
<1>6. ASSUME live'[a] = live[a], stored'[a] = stored[a], grants'[a] = grants[a],
             InFlight(calls'[c], a) =>
               InFlight(calls[c], a) /\ calls'[c].pair = calls[c].pair,
             b = a /\ calls[c].pair.n # 0 => calls'[c].pair = calls[c].pair
      PROVE  CopiesOf(a)'
  <2>1. Kept(a) => \A p \in Process : Copy(a, source'[p], live[a], expired')
    BY <1>1 DEF CopiesOf
  <2>2. \A p \in Process :
          source[p].cached.athlete = a => source'[p].cached = source[p].cached
    BY <1>1
  <2>3. \A d \in Request :
          InFlight(calls'[d], a) => InFlight(calls[d], a) /\ calls'[d].pair = calls[d].pair
    BY <1>1, <1>6
  <2>4. \A d \in Request :
          calls[d].pair.athlete = a /\ calls[d].pair.n # 0 => calls'[d].pair = calls[d].pair
    BY <1>1, <1>6
  <2>5. QED
    BY <1>1, <1>5, <1>6, <2>1, <2>2, <2>3, <2>4, Undisturbed
<1>7. NoCall.pc = "idle" /\ NoCall.pair.athlete \notin Athlete
  BY FreshSource
<1>8. CASE Enters(c)
  <2>1. CASE calls'[c] = calls[c]
    BY <1>6, <1>8, <2>1 DEF Enters
  <2>2. CASE calls'[c] # calls[c]
    <3>1. /\ calls[c].pc = "idle"
          /\ \E d \in Athlete :
               calls'[c] = [pc |-> "exchange", pair |-> [athlete |-> d, n |-> 0]]
      BY <1>8, <2>2 DEF Enters
    <3>2. calls'[c].pc = "exchange" /\ b # a
      BY <1>3, <3>1
    <3>3. QED
      BY <1>6, <1>8, <3>2 DEF Enters, InFlight
  <2>3. QED
    BY <2>1, <2>2
<1>9. CASE Obtains(c)
  <2>1. calls'[c].pc = "check" /\ calls'[c].pair = [athlete |-> b, n |-> issued + 1]
    BY <1>9 DEF Obtains, Authorized
  <2>2. CASE b # a
    <3>1. live'[a] = live[a] /\ stored'[a] = stored[a] /\ grants'[a] = grants[a]
      BY <1>2, <1>9, <2>2 DEF Obtains, Issue, Authorized
    <3>2. QED
      BY <1>6, <2>1, <2>2, <3>1 DEF InFlight
  <2>3. CASE b = a
    <3>1. SUFFICES ASSUME Kept(a)' PROVE CopiesOf(a)'
      BY DEF CopiesOf
    <3>2. grants'[a] = grants[a] + 1 /\ grants[a] \in Nat
      BY <1>2, <1>9, <2>3 DEF Obtains, Authorized
    <3>3. grants[a] = 0 /\ Kept(a) /\ grants'[a] # 0
      BY <1>5, <3>1, <3>2 DEF Kept
    <3>4. stored[a] = 0 /\ \A d \in Request : ~InFlight(calls[d], a)
      BY <3>3 DEF CopiesOf
    <3>5. live'[a] = issued + 1 /\ stored'[a] = 0
      BY <1>2, <1>9, <2>3, <3>4 DEF Obtains, Issue, Authorized
    <3>6. \A p \in Process : source'[p].cached.athlete # a
      BY <1>1, <1>4, <3>4
    <3>7. \A d \in Request \ {c} : ~InFlight(calls'[d], a)
      BY <1>1, <3>4
    <3>8. calls'[c].pair = [athlete |-> a, n |-> live'[a]]
      BY <2>1, <2>3, <3>5
    <3>9. HeldBy(a, source, calls)'
      BY <3>8 DEF HeldBy
    <3>10. QED
      BY <3>3, <3>5, <3>6, <3>7, <3>8, <3>9 DEF CopiesOf, Copy
  <2>4. QED
    BY <2>2, <2>3
<1>10. CASE GivesUp(c)
  <2>1. stored'[a] = stored[a] /\ ~InFlight(calls'[c], a)
    BY <1>7, <1>10 DEF GivesUp, InFlight
  <2>2. CASE calls[c].pc = "exchange" /\ UNCHANGED <<live, grants, lost>>
    BY <1>3, <1>6, <2>1, <2>2
  <2>3. CASE ~(calls[c].pc = "exchange" /\ UNCHANGED <<live, grants, lost>>)
    <3>1. /\ \/ UNCHANGED <<live, grants>>
             \/ /\ Issue(b)
                /\ grants' = [grants EXCEPT ![b] = @ + 1]
          /\ lost' = lost \cup {b}
      BY <1>10, <2>3 DEF GivesUp, Authorized
    <3>2. CASE b = a
      <4>1. ~Kept(a)'
        BY <3>1, <3>2 DEF Kept
      <4>2. QED
        BY <4>1 DEF CopiesOf
    <3>3. CASE b # a
      <4>1. live'[a] = live[a] /\ grants'[a] = grants[a]
        BY <1>2, <3>1, <3>3 DEF Issue
      <4>2. QED
        BY <1>6, <2>1, <3>3, <4>1
    <3>4. QED
      BY <3>2, <3>3
  <2>4. QED
    BY <2>2, <2>3
<1>11. CASE Passes(c)
  BY <1>6, <1>11 DEF Passes, InFlight
<1>12. CASE Stores(c)
  <2>1. ~InFlight(calls'[c], a)
    BY <1>7, <1>12 DEF Stores, InFlight
  <2>2. CASE b # a
    <3>1. stored'[a] = stored[a]
      BY <1>2, <1>12, <2>2 DEF Stores, StorePair
    <3>2. QED
      BY <1>6, <1>12, <2>1, <2>2, <3>1 DEF Stores
  <2>3. CASE b = a
    <3>1. SUFFICES ASSUME Kept(a)' PROVE CopiesOf(a)'
      BY DEF CopiesOf
    <3>2. Kept(a)
      BY <1>5, <3>1
    <3>3. InFlight(calls[c], a)
      BY <1>12, <2>3 DEF Stores, InFlight
    <3>4. /\ grants[a] # 0 /\ calls[c].pair.n = live[a]
          /\ \A d \in Request \ {c} : ~InFlight(calls[d], a)
      BY <3>2, <3>3 DEF CopiesOf
    <3>5. stored'[a] = live[a] /\ live'[a] = live[a] /\ grants'[a] # 0
      BY <1>2, <1>12, <2>3, <3>4 DEF Stores, StorePair
    <3>6. \A d \in Request : ~InFlight(calls'[d], a)
      BY <1>1, <2>1, <3>4
    <3>7. \A p \in Process : Copy(a, source'[p], live'[a], expired')
      BY <1>1, <3>2, <3>5 DEF CopiesOf
    <3>8. HeldBy(a, source, calls)'
      BY <3>5 DEF HeldBy
    <3>9. QED
      BY <3>5, <3>6, <3>7, <3>8 DEF CopiesOf
  <2>4. QED
    BY <2>2, <2>3
<1>13. QED
  BY <1>1, <1>8, <1>9, <1>10, <1>11, <1>12

\* Nor do time and the ends of processes: whose only copy a process took with
\* it is lost, and nobody else's.
LEMMA EnvironmentKeepsCopies ==
  ASSUME TypeOK, Moments, NEW a \in Athlete, CopiesOf(a),
         \/ \E s \in State : AuthStart(s)
         \/ Expire \/ Tick \/ Restart \/ StartImport \/ EndImport
  PROVE  CopiesOf(a)'
<1>1. /\ UNCHANGED <<live, stored, grants>> /\ expired \subseteq expired'
      /\ lost \subseteq lost'
  BY DEF AuthStart, Expire, Tick, Restart, StartImport, EndImport, LoseMemory
<1>2. CASE UNCHANGED <<source, calls>>
  <2>1. Kept(a) => \A p \in Process : Copy(a, source'[p], live[a], expired')
    BY <1>1, <1>2 DEF CopiesOf, Copy
  <2>2. QED
    BY <1>1, <1>2, <2>1, Undisturbed
<1>3. ASSUME NEW p \in Process, NEW d, Set(p, NewSource(d)) \/ Set(p, NotRunning)
      PROVE  /\ source'[p].cached = NoPair /\ NoPair.athlete \notin Athlete
             /\ \A q \in Process \ {p} : source'[q] = source[q]
  BY <1>3, SetSource, FreshSource
<1>4. CASE StartImport
  <2>1. PICK d \in AnyToken : Set("import", NewSource(d))
    BY <1>4 DEF StartImport
  <2>2. /\ source'["import"].cached = NoPair /\ NoPair.athlete \notin Athlete
        /\ source'["service"] = source["service"]
    BY <1>3, <2>1 DEF Process
  <2>3. source["import"].cached.athlete \notin Athlete
    BY <1>4 DEF StartImport, Moments, StepsAreKnown, TypeOK, Process
  <2>4. UNCHANGED <<calls, expired>>
    BY <1>4 DEF StartImport
  <2>5. Kept(a) => \A p \in Process : Copy(a, source'[p], live[a], expired')
    BY <2>2, <2>4 DEF CopiesOf, Copy, Process
  <2>6. \A p \in Process :
          source[p].cached.athlete = a => source'[p].cached = source[p].cached
    BY <2>2, <2>3 DEF Process
  <2>7. QED
    BY <1>1, <2>4, <2>5, <2>6, Undisturbed
<1>5. CASE Restart \/ EndImport
  <2>1. SUFFICES ASSUME Kept(a)' PROVE CopiesOf(a)'
    BY DEF CopiesOf
  <2>2. Kept(a)
    BY <1>1, <2>1 DEF Kept
  <2>3. HeldBy(a, source, calls)'
    <3>1. LoseMemory(source', calls') /\ UNCHANGED <<live, stored>>
      BY <1>1, <1>5 DEF Restart, EndImport
    <3>2. HeldBy(a, source', calls')
      BY <2>1, <3>1 DEF LoseMemory, Kept
    <3>3. QED
      BY <3>1, <3>2 DEF HeldBy
  <2>4. \A p \in Process : source'[p] = source[p] \/ source'[p].cached.athlete \notin Athlete
    BY <1>3, <1>5 DEF Restart, EndImport, Process
  <2>5. \A p \in Process : Copy(a, source'[p], live'[a], expired')
    BY <1>1, <2>2, <2>4 DEF CopiesOf, Copy
  <2>6. \A c \in Request : calls'[c] = calls[c] \/ ~InFlight(calls'[c], a)
    BY <1>5, FreshSource DEF Restart, EndImport, InFlight
  <2>7. \A c \in Request :
          InFlight(calls'[c], a) =>
            /\ grants[a] # 0 /\ calls'[c].pair.n = live[a] /\ stored[a] = 0
            /\ \A d \in Request \ {c} : ~InFlight(calls'[d], a)
    BY <2>2, <2>6 DEF CopiesOf
  <2>8. /\ grants[a] = 0 => live[a] = 0 /\ stored[a] = 0
        /\ stored[a] # 0 => stored[a] = live[a] \/ stored[a] \in expired'
    BY <1>1, <2>2 DEF CopiesOf
  <2>9. QED
    BY <1>1, <2>3, <2>5, <2>7, <2>8 DEF CopiesOf
<1>6. QED
  BY <1>2, <1>4, <1>5 DEF AuthStart, Expire, Tick
-----------------------------------------------------------------------------
(* The invariant.                                                          *)

\* Initially nothing is issued, stored or in flight.
LEMMA StartsUnbound == Init => IInv
<1> SUFFICES ASSUME Init PROVE IInv
  OBVIOUS
<1>1. /\ NewSource(Configured) \in SourceType /\ NewSource(Configured).cached = NoPair
      /\ ~NewSource(Configured).loaded
      /\ NotRunning \in SourceType /\ NotRunning.cached = NoPair /\ ~NotRunning.loaded
      /\ NoPair.athlete \notin Athlete /\ NoPair \in Pair
  BY TokensAssumption, NewSourceTyped
<1>2. \A p \in Process : source[p] = NewSource(Configured) \/ source[p] = NotRunning
  BY DEF Init
<1>3. source \in [Process -> SourceType]
  BY <1>1 DEF Init
<1>4. \A p \in Process : ~source[p].loaded /\ source[p].cached.athlete \notin Athlete
  BY <1>1, <1>2
<1>5. calls \in Calls
  BY <1>1 DEF Init, NoCall, Calls
<1>6. budget \in Budget
  BY TokensAssumption DEF Init, Budget
<1>7. TypeOK
  <2>1. /\ issued \in Nat /\ expired \subseteq 1..issued /\ lost \subseteq Athlete
        /\ blind \in BOOLEAN
    BY DEF Init
  <2>2. live \in [Athlete -> 0..issued] /\ stored \in [Athlete -> 0..issued]
    BY DEF Init
  <2>3. grants \in [Athlete -> Nat] /\ uses \in [State -> Nat]
    BY DEF Init
  <2>4. states \in [State -> -2..(StateTTL + 1)]
    BY TokensAssumption DEF Init, Unissued
  <2>5. QED
    BY <1>3, <1>4, <1>5, <1>6, <2>1, <2>2, <2>3, <2>4 DEF TypeOK, Calls, Budget
<1>8. Bound = {}
  BY DEF Init, Bound
<1>9. \A p \in Process : source[p].pc \notin {"refresh", "save"}
  BY <1>2 DEF NewSource, NotRunning
<1>10. SourcesAreBound
  BY <1>4, <1>9 DEF SourcesAreBound
<1>11. \A c \in Request : calls[c].pc = "idle"
  BY DEF Init, NoCall
<1>12. CallsAreNamed /\ CheckStillHolds
  BY <1>11 DEF CallsAreNamed, CheckStillHolds
<1>13. ConfiguredIsBound /\ OneAthleteBound
  BY <1>8 DEF ConfiguredIsBound, OneAthleteBound
<1>14. OneUse
  BY DEF Init, OneUse, UsedStatesAreRetired, StateAuthorizesOnce
<1>15. source["import"].pc = "off" /\ (\A p \in Process : ~source[p].loaded)
  <2>1. source["import"] = NotRunning
    BY DEF Init, Process
  <2>2. QED
    BY <1>4, <2>1, FreshSource
<1>16. \A c \in Request : calls[c] = NoCall
  BY DEF Init
<1>17. Moments
  BY <1>9, <1>11, <1>15, <1>16 DEF Moments, OneAtATime, StepsAreKnown, NoCall
<1>18. \A a \in Athlete : CopiesOf(a)
  <2>1. \A a \in Athlete : live[a] = 0 /\ stored[a] = 0
    BY DEF Init
  <2>2. QED
    BY <1>4, <1>11, <2>1 DEF CopiesOf, Copy, InFlight
<1>19. QED
  BY <1>7, <1>10, <1>12, <1>13, <1>14, <1>17, <1>18, CopiesByAthlete
  DEF IInv, OneUse, Moments

\* No step of any process breaks the invariant.
LEMMA StepKeepsInvariant == IInv /\ [Next]_vars => IInv'
<1> SUFFICES ASSUME IInv, [Next]_vars PROVE IInv'
  OBVIOUS
<1>1. TypeOK /\ Binding /\ SourcesAreBound /\ CallsAreNamed
  BY DEF IInv, Binding
<1>2. ASSUME NEW p \in Process, Source(p) PROVE TypeOK' /\ Binding'
  BY <1>1, <1>2, SourceKeepsTypes, SourceKeepsBinding
<1>3. ASSUME NEW c \in Request, Callback(c) PROVE TypeOK' /\ Binding'
  BY <1>1, <1>3, CallbackKeepsTypes, CallbackKeepsBinding
<1>4. ASSUME \/ \E s \in State : AuthStart(s)
             \/ Expire \/ Tick \/ Restart \/ StartImport \/ EndImport
      PROVE  TypeOK' /\ Binding'
  BY <1>1, <1>4, EnvironmentKeepsTypes, EnvironmentKeepsBinding
<1>5. ASSUME UNCHANGED vars PROVE TypeOK' /\ Binding'
  <2>1. UNCHANGED <<issued, live, expired, stored, source, states, calls,
                    lost, blind, grants, uses, budget>>
    BY <1>5 DEF vars
  <2>2. TypeOK'
    BY <1>1, <2>1, SameTypes DEF TypeOK, Calls
  <2>3. Bound' = Bound
    BY <2>1 DEF Bound
  <2>4. Binding'
    BY <1>1, <2>1, <2>3
    DEF Binding, SourcesAreBound, CallsAreNamed, CheckStillHolds, ConfiguredIsBound,
        OneAthleteBound
  <2>5. QED
    BY <2>2, <2>4
<1>6. TypeOK' /\ Binding'
  BY <1>2, <1>3, <1>4, <1>5 DEF Next
<1>7. OneUse'
  <2>1. OneUse
    BY DEF IInv, OneUse
  <2>2. CASE Next
    BY <1>1, <2>1, <2>2, StatesAreUsedOnce
  <2>3. CASE UNCHANGED vars
    BY <2>1, <2>3 DEF vars, OneUse, UsedStatesAreRetired, StateAuthorizesOnce
  <2>4. QED
    BY <2>2, <2>3
<1>8. Moments /\ Moments'
  <2>1. Moments
    BY DEF IInv, Moments
  <2>2. ASSUME NEW p \in Process, Source(p) PROVE Moments'
    BY <1>1, <2>1, <2>2, SourceKeepsMoments
  <2>3. ASSUME NEW c \in Request, Callback(c) PROVE Moments'
    BY <1>1, <2>1, <2>3, CallbackKeepsMoments
  <2>4. ASSUME \/ \E s \in State : AuthStart(s)
               \/ Expire \/ Tick \/ Restart \/ StartImport \/ EndImport
        PROVE  Moments'
    BY <1>1, <2>1, <2>4, EnvironmentKeepsMoments
  <2>5. CASE UNCHANGED vars
    BY <2>1, <2>5 DEF vars, Moments, OneAtATime, StepsAreKnown
  <2>6. QED
    BY <2>1, <2>2, <2>3, <2>4, <2>5 DEF Next
<1>9. ASSUME Alone, NEW a \in Athlete PROVE CopiesOf(a)'
  <2>1. CopiesOf(a)
    BY <1>9, CopiesByAthlete DEF IInv
  <2>2. ASSUME NEW p \in Process, Source(p) PROVE CopiesOf(a)'
    BY <1>1, <1>8, <1>9, <2>1, <2>2, SourceKeepsCopies
  <2>3. ASSUME NEW c \in Request, Callback(c) PROVE CopiesOf(a)'
    BY <1>1, <1>8, <2>1, <2>3, CallbackKeepsCopies DEF Moments
  <2>4. ASSUME \/ \E s \in State : AuthStart(s)
               \/ Expire \/ Tick \/ Restart \/ StartImport \/ EndImport
        PROVE  CopiesOf(a)'
    BY <1>1, <1>8, <2>1, <2>4, EnvironmentKeepsCopies
  <2>5. CASE UNCHANGED vars
    BY <2>1, <2>5 DEF vars, CopiesOf, Kept, HeldBy
  <2>6. QED
    BY <2>2, <2>3, <2>4, <2>5 DEF Next
<1>10. ASSUME Alone PROVE CopiesAreCurrent' /\ LivePairIsHeld'
  <2>1. CopiesAreCurrent'
    BY <1>9, <1>10 DEF CopiesAreCurrent, CopiesOf, Kept, Copy, InFlight
  <2>2. LivePairIsHeld'
    BY <1>9, <1>10 DEF LivePairIsHeld, CopiesOf, Kept
  <2>3. QED
    BY <2>1, <2>2
<1>11. QED
  BY <1>6, <1>7, <1>8, <1>10 DEF IInv, Binding, OneUse, Moments

\* The invariant of the token flow, whatever athletes authorize, however many
\* callbacks run side by side, and whatever fails or restarts.
THEOREM TokensInvariant == Spec => []IInv
<1>1. Init => IInv
  BY StartsUnbound
<1>2. IInv /\ [Next]_vars => IInv'
  BY StepKeepsInvariant
<1>3. QED
  BY <1>1, <1>2, PTL DEF Spec

\* A source's pair is always some athlete's, and no pair is newer than Strava's.
THEOREM TokensTypeCorrect == Spec => []TypeOK
<1>1. IInv => TypeOK
  BY DEF IInv
<1>2. QED
  BY <1>1, TokensInvariant, PTL

\* The service stays with the first athlete it was bound to (checkAthlete under
\* Server.bind), unless a callback could not read who that is.
THEOREM StaysBound == Spec => []OneAthleteBound
<1>1. IInv => OneAthleteBound
  BY DEF IInv
<1>2. QED
  BY <1>1, TokensInvariant, PTL

\* A state authorizes one callback (consumeState), however replays and
\* restarts interleave with the callbacks in flight.
THEOREM AuthorizesOnce == Spec => []StateAuthorizesOnce
<1>1. IInv => StateAuthorizesOnce
  BY DEF IInv
<1>2. QED
  BY <1>1, TokensInvariant, PTL

\* As long as imports run alone (app.Import), the pair Strava accepts of an
\* athlete who authorized once is in the store, a source or a callback, unless
\* an answer, a callback or a process took it away (Token, SaveToken).
THEOREM PairIsHeld == Alone => (Spec => []LivePairIsHeld)
<1> SUFFICES ASSUME Alone PROVE Spec => []LivePairIsHeld
  OBVIOUS
<1>1. IInv => LivePairIsHeld
  BY DEF IInv
<1>2. QED
  BY <1>1, TokensInvariant, PTL
-----------------------------------------------------------------------------
(* The flow implements FirstBound.                                         *)

\* Nobody is bound in an empty store.
LEMMA PromiseInit == Init => Promise!FirstBoundInit
BY DEF Init, Bound, Promise!FirstBoundInit

\* A source's write is of a pair whose athlete is bound already.
LEMMA SourceBindsNobody ==
  ASSUME IInv, NEW p \in Process, Source(p)
  PROVE  Bound' = Bound /\ UNCHANGED blind
<1>1. /\ UNCHANGED blind
      /\ \/ StorePair(source[p].cached) /\ source[p].pc = "save"
         \/ UNCHANGED stored
  BY DEF Source, Token, Load, LoadFails, Refresh, RefreshUnanswered, RefreshRefused,
         Save, SaveFails
<1>2. CASE UNCHANGED stored
  BY <1>1, <1>2 DEF Bound
<1>3. CASE StorePair(source[p].cached) /\ source[p].pc = "save"
  <2>1. source[p].cached.athlete \in Bound /\ source[p].cached.n # 0
    BY <1>3 DEF IInv, SourcesAreBound
  <2>2. QED
    BY <1>1, <1>3, <2>1, RebindsNobody DEF IInv
<1>4. QED
  BY <1>1, <1>2, <1>3

\* The write of a callback binds the athlete its check let past, the one the
\* configuration names, and the only one unless a check could not read.
LEMMA SaveBinds ==
  ASSUME IInv, NEW c \in Request, calls[c].pc = "save", StorePair(calls[c].pair),
         UNCHANGED blind
  PROVE  Promise!FirstBoundNext
<1> DEFINE a == calls[c].pair.athlete
<1>1. a \in Athlete /\ calls[c].pair.n # 0
  BY DEF IInv, CallsAreNamed
<1>2. Bound' = Bound \cup {a}
  BY <1>1 DEF Bound, StorePair, IInv, TypeOK
<1>3. (~blind => Bound \subseteq {a}) /\ (Configured # NoAthlete => a = Configured)
  BY DEF IInv, CheckStillHolds
<1>4. Promise!Bind(a)
  BY <1>2, <1>3 DEF Promise!Bind
<1>5. QED
  BY <1>1, <1>3, <1>4 DEF Promise!FirstBoundNext

\* A callback binds, doubts, or leaves who is bound alone.
LEMMA CallbackPromises ==
  ASSUME IInv, NEW c \in Request, Callback(c)
  PROVE  [Promise!FirstBoundNext]_(Promise!firstBoundVars)
<1>1. ASSUME UNCHANGED <<stored, blind>>
      PROVE  UNCHANGED Promise!firstBoundVars
  BY <1>1 DEF Promise!firstBoundVars, Bound
<1>2. CASE CheckAthleteBlind(c)
  <2>1. Bound' = Bound /\ blind' = TRUE
    BY <1>2 DEF CheckAthleteBlind, Bound
  <2>2. Promise!Doubt
    BY <2>1 DEF Promise!Doubt
  <2>3. QED
    BY <2>2 DEF Promise!FirstBoundNext
<1>3. CASE SaveToken(c)
  BY <1>3, SaveBinds DEF SaveToken
<1>4. CASE SaveTokenFails(c)
  BY <1>1, <1>4, SaveBinds DEF SaveTokenFails
<1>5. CASE \/ \E s \in State : AuthCallback(c, s)
           \/ Exchange(c) \/ ExchangeUnusable(c) \/ ExchangeFails(c) \/ CheckAthlete(c)
  BY <1>1, <1>5 DEF AuthCallback, Exchange, ExchangeUnusable, ExchangeFails, CheckAthlete
<1>6. QED
  BY <1>2, <1>3, <1>4, <1>5 DEF Callback

\* A step of the flow is a step of the promise or leaves it as it is.
LEMMA PromiseStep ==
  IInv /\ [Next]_vars => [Promise!FirstBoundNext]_(Promise!firstBoundVars)
<1> SUFFICES ASSUME IInv, [Next]_vars
             PROVE  [Promise!FirstBoundNext]_(Promise!firstBoundVars)
  OBVIOUS
<1>1. ASSUME NEW p \in Process, Source(p)
      PROVE  UNCHANGED Promise!firstBoundVars
  BY <1>1, SourceBindsNobody DEF Promise!firstBoundVars
<1>2. CASE \E c \in Request : Callback(c)
  BY <1>2, CallbackPromises
<1>3. CASE \/ \E s \in State : AuthStart(s)
           \/ Expire \/ Tick \/ Restart \/ StartImport \/ EndImport
  <2>1. UNCHANGED <<stored, blind>>
    BY <1>3 DEF AuthStart, Expire, Tick, Restart, StartImport, EndImport
  <2>2. QED
    BY <2>1 DEF Promise!firstBoundVars, Bound
<1>4. CASE UNCHANGED vars
  BY <1>4 DEF vars, Promise!firstBoundVars, Bound
<1>5. QED
  BY <1>1, <1>2, <1>3, <1>4 DEF Next

\* The token flow implements FirstBound: the first athlete to authorize is
\* bound (checkAthlete under Server.bind), nobody after, and nobody is
\* forgotten, whatever refreshes, imports, failures and restarts come between.
THEOREM Implements == Spec => ImplementsFirstBound
<1>1. Init => Promise!FirstBoundInit
  BY PromiseInit
<1>2. IInv /\ [Next]_vars => [Promise!FirstBoundNext]_(Promise!firstBoundVars)
  BY PromiseStep
<1>3. QED
  BY <1>1, <1>2, TokensInvariant, PTL DEF Spec, ImplementsFirstBound, Promise!FirstBoundSpec
-----------------------------------------------------------------------------
(* An unsaved pair is saved.                                               *)

\* The pair is unsaved, and the source is at a step.
Pending(pc) == Unsaved /\ source["service"].pc = pc

\* While nothing is spent no fault, restart or import is on the way.
LEMMA NothingIsSpent ==
  ASSUME TypeOK, UNCHANGED budget,
         NEW what \in {"expiries", "faults", "restarts", "imports"}
  PROVE  ~Spend(what)
BY DEF TypeOK, Spend

\* A loaded pair is waiting, about to be refreshed or about to be written.
LEMMA PendingSomewhere ==
  ASSUME IInv, Unsaved
  PROVE  Pending("idle") \/ Pending("refresh") \/ Pending("save")
<1>1. source["service"] \in SourceType
  BY DEF IInv, TypeOK, Process
<1>2. source["service"].pc \notin {"off", "load"}
  BY DEF IInv, StepsAreKnown, Unsaved, Process
<1>3. QED
  BY <1>1, <1>2 DEF SourceType, Pending

\* Only a call of its own moves the service's source, and what held an import back
\* from it does not return.
LEMMA QuietStep ==
  ASSUME IInv, Next, UNCHANGED budget
  PROVE  /\ Source("service") \/ source'["service"] = source["service"]
         /\ MaySweep => MaySweep'
<1>1. TypeOK /\ SourcesAreBound
  BY DEF IInv
<1>2. CASE Source("import")
  <2>1. source["import"].pc # "off" /\ source'["service"] = source["service"]
    BY <1>1, <1>2, SourceStep DEF Process
  <2>2. QED
    BY <2>1 DEF MaySweep
<1>3. CASE Source("service")
  <2>1. source'["import"] = source["import"]
    BY <1>1, <1>3, SourceStep DEF Process
  <2>2. QED
    BY <1>3, <2>1 DEF MaySweep
<1>4. CASE EndImport
  <2>1. /\ source'["service"] = source["service"]
        /\ source'["import"] = NotRunning
    BY <1>1, <1>4, SetSource DEF EndImport, Process
  <2>2. QED
    BY <2>1, FreshSource DEF MaySweep
<1>5. CASE UNCHANGED source
  BY <1>5 DEF MaySweep
<1>6. ~Restart /\ ~StartImport
  BY <1>1, NothingIsSpent DEF Restart, StartImport
<1>7. QED
  BY <1>1, <1>2, <1>3, <1>4, <1>5, <1>6, CallbackStep
  DEF Next, Process, AuthStart, Expire, Tick

\* A call of the source brings an unsaved pair nearer to the store.
LEMMA CallSaves ==
  ASSUME IInv, Source("service"), UNCHANGED budget, Unsaved
  PROVE  /\ Pending("idle") => Pending("refresh")' \/ Pending("save")' \/ ~Unsaved'
         /\ Pending("refresh") => Pending("save")' \/ ~Unsaved'
         /\ Pending("save") => ~Unsaved'
<1> DEFINE src == source["service"]
<1>1. /\ TypeOK /\ source \in [Process -> SourceType]
      /\ src \in SourceType /\ "service" \in Process
  BY DEF IInv, TypeOK, Process
<1>2. ASSUME NEW new, Set("service", new) PROVE source'["service"] = new
  BY <1>1, <1>2 DEF Set
<1>3. ~Spend("faults")
  BY <1>1, NothingIsSpent
<1>4. CASE Token("service")
  <2>1. src.pc = "idle" /\ src.loaded /\ ~src.persisted
    BY <1>4 DEF Token, Unsaved
  <2>2. Continue(src) \in {"refresh", "save"}
    BY <2>1 DEF Continue
  <2>3. Set("service", [src EXCEPT !.pc = Continue(src)])
    BY <1>4, <2>1 DEF Token
  <2>4. source'["service"] = [src EXCEPT !.pc = Continue(src)]
    BY <1>2, <2>3
  <2>5. source'["service"].pc \in {"refresh", "save"}
    BY <1>1, <2>2, <2>4 DEF SourceType
  <2>6. QED
    BY <2>1, <2>5 DEF Pending
<1>5. CASE Load("service") \/ LoadFails("service")
  BY <1>5 DEF Load, LoadFails, IInv, StepsAreKnown, Unsaved, Process
<1>6. CASE Refresh("service")
  <2>1. src.pc = "refresh" /\ source'["service"] = Adopt(src, issued + 1)
    BY <1>2, <1>6 DEF Refresh
  <2>2. source'["service"].pc = "save"
    BY <1>1, <2>1 DEF Adopt, SourceType
  <2>3. QED
    BY <2>1, <2>2 DEF Pending
<1>7. CASE RefreshUnanswered("service") \/ RefreshRefused("service")
  BY <1>3, <1>7 DEF RefreshUnanswered, RefreshRefused, Unsaved
<1>8. CASE Save("service")
  <2>1. src.pc = "save" /\ source'["service"] = [src EXCEPT !.persisted = TRUE, !.pc = "idle"]
    BY <1>2, <1>8 DEF Save
  <2>2. source'["service"].persisted
    BY <1>1, <2>1 DEF SourceType
  <2>3. ~Unsaved'
    BY <2>2 DEF Unsaved
  <2>4. QED
    BY <2>1, <2>3 DEF Pending
<1>9. CASE SaveFails("service")
  BY <1>3, <1>9 DEF SaveFails
<1>10. QED
  BY <1>4, <1>5, <1>6, <1>7, <1>8, <1>9 DEF Source

\* The end of an import lets the service call.
LEMMA ImportLeaves ==
  ASSUME IInv, EndImport
  PROVE  MaySweep'
<1>1. source'["import"] = NotRunning
  BY SetSource DEF IInv, EndImport, Process
<1>2. QED
  BY <1>1, FreshSource DEF MaySweep

\* A refreshed pair that could not be written is written by a later call (Token),
\* unless it is worth nothing by then, whatever callbacks and imports do in between,
\* if calls stay possible and there comes an end to what goes wrong.
THEOREM UnsavedIsSaved ==
  FairSpec /\ []CanGoOn /\ <>[][UNCHANGED budget]_vars => UnsavedPairIsSaved
<1>1. IInv /\ Unsaved => Pending("idle") \/ Pending("refresh") \/ Pending("save")
  BY PendingSomewhere
<1>2. ASSUME IInv, [Next]_vars, [UNCHANGED budget]_vars
      PROVE  /\ MaySweep => MaySweep'
             /\ Pending("idle") => Pending("idle")' \/ Pending("refresh")' \/ Pending("save")' \/ ~Unsaved'
             /\ Pending("refresh") => Pending("refresh")' \/ Pending("save")' \/ ~Unsaved'
             /\ Pending("save") => Pending("save")' \/ ~Unsaved'
             /\ <<Source("service")>>_vars /\ Pending("idle")
                  => Pending("refresh")' \/ Pending("save")' \/ ~Unsaved'
             /\ <<Source("service")>>_vars /\ Pending("refresh") => Pending("save")' \/ ~Unsaved'
             /\ <<Source("service")>>_vars /\ Pending("save") => ~Unsaved'
             /\ <<EndImport>>_vars => MaySweep'
  <2>1. CASE UNCHANGED vars
    BY <2>1 DEF vars, Pending, Unsaved, MaySweep, AcceptedPair
  <2>2. CASE Next /\ UNCHANGED budget
    <3>1. /\ Source("service") \/ source'["service"] = source["service"]
          /\ MaySweep => MaySweep'
      BY <1>2, <2>2, QuietStep
    <3>2. CASE Source("service")
      BY <1>2, <2>2, <3>1, <3>2, CallSaves, ImportLeaves DEF Pending
    <3>3. CASE ~Source("service")
      BY <1>2, <3>1, <3>3, ImportLeaves DEF Pending
    <3>4. QED
      BY <3>2, <3>3
  <2>3. QED
    BY <1>2, <2>1, <2>2
<1>3. /\ CanGoOn /\ Pending("idle") /\ MaySweep => ENABLED <<Source("service")>>_vars
      /\ CanGoOn /\ Pending("refresh") => ENABLED <<Source("service")>>_vars
      /\ CanGoOn /\ Pending("save") => ENABLED <<Source("service")>>_vars
      /\ CanGoOn /\ ~MaySweep => ENABLED <<EndImport>>_vars
  BY DEF CanGoOn, Pending, MaySweep
<1>4. Pending("idle") \/ Pending("refresh") \/ Pending("save") => Unsaved
  BY DEF Pending
<1>5. QED
  BY <1>1, <1>2, <1>3, <1>4, TokensInvariant, PTL DEF FairSpec, Spec, UnsavedPairIsSaved
=============================================================================
