---------------------------- MODULE NamingProofs ----------------------------
(***************************************************************************)
(* Theorems about Naming for every value of its constants: what teaches,   *)
(* and what is not repeated, is what the log says at that moment, although *)
(* both are gathered before the model is asked and cached between rides;   *)
(* and, if the documents only grow, an entry of a series is spent on one   *)
(* ride and none is skipped, although the position is written between the  *)
(* row and Strava, and may not be written at all.                          *)
(***************************************************************************)
EXTENDS Naming, SequenceTheorems, FiniteSetTheorems, FunctionTheorems,
        WellFoundedInduction, TLAPS

USE DEF store, memory, naming, history, Idle

-----------------------------------------------------------------------------
\* The first process, over an empty log.
LEMMA InitInvariant == Init => LogInv
<1> SUFFICES ASSUME Init PROVE LogInv
  OBVIOUS
<1>1. NoRow.title = NoTitle /\ NoRow.source = "none"
  BY DEF NoRow
<1>2. TypeOK
  <2>1. NoTitle \in Titles /\ MaxRestarts \in 0..MaxRestarts
    BY NamingAssumption DEF Titles
  <2>2. context.index = 0
    BY DEF Init, NoContext
  <2>3. DOMAIN log = Ride /\ \A r \in Ride : log[r] = NoRow
    BY DEF Init
  <2>4. /\ position \in [SeriesNames -> Nat]
        /\ sent \in [Ride -> Titles] /\ examples \in [Ride -> Titles]
    BY <2>1 DEF Init
  <2>5. /\ pc = "idle" /\ ride = 0 /\ context = NoContext /\ title = NoTitle /\ call = 0
        /\ used = FALSE /\ restarts = MaxRestarts
    BY DEF Init
  <2>6. \A r \in Ride :
          /\ log[r].title \in Titles
          /\ log[r].source \in {"none", "service", "template", "human", "imported"}
    BY <1>1, <2>1, <2>3
  <2>7. title \in Titles /\ call \in 0..3 /\ restarts \in 0..MaxRestarts
    BY <2>1, <2>5
  <2>8. used \in BOOLEAN /\ ~used /\ (used => UsesEntry(title, context.offer))
    BY <2>5
  <2>9. ride \in Ride \cup {0} /\ pc = "idle" /\ DOMAIN context = DOMAIN NoContext
    BY <2>5
  <2>10. QED
    BY <2>2, <2>3, <2>4, <2>6, <2>7, <2>8, <2>9 DEF TypeOK, Init
<1>3. QED
  BY <1>1, <1>2
  DEF Init, LogInv, RecentIsCurrent, TitleIsNoRepeat

\* The rows read for a prompt are what they were while the log is.
LEMMA SameRows ==
  ASSUME log' = log
  PROVE  /\ RecentTitles' = RecentTitles
         /\ WorthNotRepeating(RecentTitles)' = WorthNotRepeating(RecentTitles)
BY DEF RecentTitles, Recorded, Newer, WorthNotRepeating

\* A row written while no title is in hand.
LEMMA RowWritten ==
  ASSUME LogInv, pc = "idle", NEW r \in Ride, NEW row,
         log' = [log EXCEPT ![r] = row],
         row.title \in Titles,
         row.source \in {"service", "template", "human", "imported"},
         UNCHANGED <<position, memory, naming, sent, uncorrected, restarts>>
  PROVE  LogInv'
<1>1. /\ TypeOK /\ DOMAIN log' = Ride
      /\ \A s \in Ride : log'[s] = IF s = r THEN row ELSE log[s]
  BY DEF LogInv, TypeOK
<1>2. TypeOK'
  BY <1>1 DEF TypeOK
<1>3. QED
  BY <1>2 DEF LogInv, RecentIsCurrent, TitleIsNoRepeat

\* The ride is done with, or given up.
LEMMA IdleAgain ==
  ASSUME LogInv, Idle, log' = log, position' \in [SeriesNames -> Nat],
         sent' \in [Ride -> Titles], restarts' \in 0..MaxRestarts,
         examples' \in {examples, [r \in Ride |-> NoTitle]}, uncorrected' \subseteq Ride
  PROVE  LogInv'
<1>1. NoTitle \in Titles
  BY DEF Titles
<1>2. examples' \in [Ride -> Titles]
  BY <1>1 DEF LogInv, TypeOK
<1>3. NoContext.index = 0
  BY DEF NoContext
<1>4. TypeOK'
  <2>1. /\ DOMAIN context' = DOMAIN NoContext /\ context'.index = 0
        /\ ride' = 0 /\ pc' = "idle" /\ title' \in Titles /\ call' = 0
    BY <1>1, <1>3 DEF NoContext
  <2>2. used' \in BOOLEAN /\ ~used' /\ (used' => UsesEntry(title, context.offer)')
    OBVIOUS
  <2>3. DOMAIN NoContext = (DOMAIN NoContext)'
    BY DEF NoContext, NoSeries
  <2>4. QED
    BY <1>2, <2>1, <2>2, <2>3 DEF LogInv, TypeOK
<1>5. RecentIsCurrent' /\ TitleIsNoRepeat'
  BY DEF LogInv, RecentIsCurrent, TitleIsNoRepeat
<1>6. QED
  BY <1>4, <1>5 DEF LogInv

\* What is gathered is the log of the moment.
LEMMA GatherStep == LogInv /\ (\E r \in Ride : Gather(r)) => LogInv'
<1> SUFFICES ASSUME LogInv, NEW r \in Ride, Gather(r) PROVE LogInv'
  OBVIOUS
<1>1. PICK name \in GearNames(r), unread \in SUBSET TeachesStyle(RecentTitles) :
        LET taught == ExamplesFrom(TeachesStyle(RecentTitles), unread)
        IN  /\ examples' = [s \in Ride |->
                 IF s \in taught THEN ExampleTitle(s) ELSE examples[s]]
            /\ context' = PromptContext(name, taught)
  BY DEF Gather
<1>2. TypeOK /\ log' = log /\ pc = "idle" /\ pc' = "offer" /\ ride' = r /\ log[r] = NoRow
      /\ UNCHANGED <<position, title, call, used, sent, uncorrected, restarts>>
  BY DEF Gather, LogInv
<1>3. examples' \in [Ride -> Titles]
  <2>1. ASSUME NEW s \in Ride PROVE examples[s] \in Titles /\ ExampleTitle(s) \in Titles
    BY <1>2 DEF TypeOK, ExampleTitle
  <2>2. QED
    BY <1>1, <2>1
<1>4. /\ DOMAIN context' = DOMAIN NoContext /\ context'.index = 0
      /\ context'.recent = {log[s].title : s \in WorthNotRepeating(RecentTitles)}
  BY <1>1 DEF PromptContext, NoContext
<1>5. TypeOK'
  <2>1. used' \in BOOLEAN /\ ~used' /\ (used' => UsesEntry(title, context.offer)')
    BY <1>2 DEF TypeOK
  <2>2. QED
    BY <1>2, <1>3, <1>4, <2>1 DEF TypeOK
<1>6. RecentIsCurrent'
  BY <1>2, <1>4, SameRows DEF RecentIsCurrent
<1>7. QED
  BY <1>2, <1>5, <1>6 DEF LogInv, TitleIsNoRepeat

\* The offer joins what was gathered.
LEMMA OfferStep == LogInv /\ Offer => LogInv'
<1> SUFFICES ASSUME LogInv, Offer PROVE LogInv'
  OBVIOUS
<1>1. /\ TypeOK /\ log' = log /\ pc = "offer" /\ pc' = "ask" /\ call' = 1
      /\ UNCHANGED <<position, examples, ride, title, used, sent, uncorrected, restarts>>
  BY DEF Offer, LogInv
<1>2. DOMAIN context = DOMAIN NoContext /\ context.index = 0
  BY <1>1 DEF TypeOK
<1>3. /\ DOMAIN context' = DOMAIN NoContext /\ context'.recent = context.recent
      /\ context'.series.name \in SeriesNames => context'.index \in Nat
  <2>1. PICK p \in Profiles :
          LET series == FranchiseFor(p[1], context.gear)
              next == {i \in NextIndex(series, position[series.name]) :
                         Offerable(series.titles[i + 1])}
          IN  \/ context' = [context EXCEPT !.series = series]
              \/ \E i \in next :
                   context' = [context EXCEPT !.series = series, !.index = i,
                                              !.offer = series.titles[i + 1]]
    BY DEF Offer
  <2> DEFINE series == FranchiseFor(p[1], context.gear)
             next == {i \in NextIndex(series, position[series.name]) :
                        Offerable(series.titles[i + 1])}
  <2>2. \A k \in {"recent", "series", "index"} : k \in DOMAIN context
    BY <1>2 DEF NoContext
  <2>3. CASE context' = [context EXCEPT !.series = series]
    BY <1>2, <2>2, <2>3
  <2>4. CASE \E i \in next :
               context' = [context EXCEPT !.series = series, !.index = i,
                                          !.offer = series.titles[i + 1]]
    <3>1. PICK i \in next :
            context' = [context EXCEPT !.series = series, !.index = i,
                                       !.offer = series.titles[i + 1]]
      BY <2>4
    <3>2. /\ context'.series = series /\ context'.index = i
          /\ context'.recent = context.recent /\ DOMAIN context' = DOMAIN context
      BY <2>2, <3>1
    <3>3. series.name \in SeriesNames => i \in Nat
      BY <1>1 DEF NextIndex, TypeOK
    <3>4. QED
      BY <1>2, <3>2, <3>3
  <2>5. QED
    BY <2>1, <2>3, <2>4
<1>4. TypeOK'
  <2>1. used' \in BOOLEAN /\ ~used' /\ (used' => UsesEntry(title, context.offer)')
    BY <1>1 DEF TypeOK
  <2>2. ride' \in Ride
    BY <1>1 DEF TypeOK
  <2>3. QED
    BY <1>1, <1>3, <2>1, <2>2 DEF TypeOK
<1>5. RecentIsCurrent'
  BY <1>1, <1>3, SameRows DEF LogInv, RecentIsCurrent
<1>6. QED
  BY <1>1, <1>4, <1>5 DEF LogInv, TitleIsNoRepeat

\* What is accepted is no repeat, whichever attempt it answers.
LEMMA AcceptedIsNoRepeat ==
  ASSUME NEW n, NEW t \in Answers(n)
  PROVE  t \in ModelTitles \ Forbidden /\ t \in Titles
BY DEF Answers, Accepted, Titles

\* A title taken, or kept for the next attempt.
LEMMA TitleInHand ==
  ASSUME LogInv, pc = "ask", pc' \in {"ask", "record"}, call' \in 1..3,
         title' \in ModelTitles \ Forbidden, used' \in BOOLEAN,
         used' => UsesOffer(title'), pc' = "ask" => ~used',
         UNCHANGED <<log, position, examples, ride, context, sent, uncorrected, restarts>>
  PROVE  LogInv'
<1>1. TypeOK /\ title' \in Titles
  BY DEF LogInv, Titles
<1>2. TypeOK'
  <2>1. used' => UsesEntry(title, context.offer)'
    BY DEF UsesOffer, UsesEntry
  <2>2. ride' \in Ride
    BY <1>1 DEF TypeOK
  <2>3. call' \in 0..3 /\ call' > 0
    OBVIOUS
  <2>4. QED
    BY <1>1, <2>1, <2>2, <2>3 DEF TypeOK
<1>3. RecentIsCurrent'
  BY SameRows DEF LogInv, RecentIsCurrent
<1>4. TitleIsNoRepeat'
  BY DEF TitleIsNoRepeat, Forbidden
<1>5. QED
  BY <1>2, <1>3, <1>4 DEF LogInv

\* An answer is heard.
LEMMA AnsweredStep == LogInv /\ Answered => LogInv'
<1> SUFFICES ASSUME LogInv, Answered PROVE LogInv'
  OBVIOUS
<1>1. /\ TypeOK /\ pc = "ask" /\ call \in 1..3
      /\ UNCHANGED <<log, position, examples, ride, context, sent, uncorrected, restarts>>
  BY DEF Answered, LogInv, TypeOK
<1>2. PICK t \in Answers(call) :
        IF call = 3 \/ context.offer = NoTitle THEN Take(t, FALSE)
        ELSE IF UsesOffer(t) THEN Take(t, TRUE)
        ELSE TryAgain(t)
  BY DEF Answered
<1>3. t \in ModelTitles \ Forbidden
  BY AcceptedIsNoRepeat
<1>4. CASE Take(t, FALSE)
  BY <1>1, <1>3, <1>4, TitleInHand DEF Take
<1>5. CASE UsesOffer(t) /\ Take(t, TRUE)
  BY <1>1, <1>3, <1>5, TitleInHand DEF Take
<1>6. CASE call # 3 /\ TryAgain(t) /\ ~UsesOffer(t)
  <2>1. call' \in 1..3 /\ pc' = "ask" /\ title' = t
    BY <1>1, <1>6 DEF TryAgain
  <2>2. used' \in BOOLEAN /\ ~used' /\ (used' => UsesOffer(title'))
    BY <1>1, <1>6 DEF TryAgain, TypeOK
  <2>3. QED
    BY <1>1, <1>3, <2>1, <2>2, TitleInHand
<1>7. QED
  BY <1>2, <1>4, <1>5, <1>6

\* A call fails, and what is in hand is kept.
LEMMA UnansweredStep == LogInv /\ Unanswered => LogInv'
<1> SUFFICES ASSUME LogInv, Unanswered PROVE LogInv'
  OBVIOUS
<1>1. /\ TypeOK /\ pc = "ask" /\ call \in 1..3
      /\ UNCHANGED <<log, position, examples, sent, uncorrected, restarts>>
  BY DEF Unanswered, LogInv, TypeOK
<1>2. CASE call = 1
  <2>1. Idle
    BY <1>2 DEF Unanswered
  <2>2. /\ position' \in [SeriesNames -> Nat] /\ sent' \in [Ride -> Titles]
        /\ restarts' \in 0..MaxRestarts /\ uncorrected' \subseteq Ride
    BY <1>1 DEF TypeOK
  <2>3. QED
    BY <1>1, <2>1, <2>2, IdleAgain
<1>3. CASE call # 1
  <2>1. Take(title, FALSE) /\ UNCHANGED <<ride, context>>
    BY <1>3 DEF Unanswered
  <2>2. title \in ModelTitles \ Forbidden
    BY <1>1, <1>3 DEF LogInv, TitleIsNoRepeat
  <2>3. QED
    BY <1>1, <2>1, <2>2, TitleInHand DEF Take
<1>4. QED
  BY <1>2, <1>3

\* The row of the title in hand, which had none.
LEMMA TitleRecorded ==
  ASSUME LogInv, pc = "record", MarkNamed(title)
  PROVE  /\ DOMAIN log' = Ride /\ ride \in Ride
         /\ \A r \in Ride : r # ride => log'[r] = log[r]
         /\ log'[ride].title = title /\ log'[ride].source = "service"
         /\ title \in Titles
<1>1. TypeOK /\ ride \in Ride /\ log[ride] = NoRow
  BY DEF LogInv, TypeOK, RecentIsCurrent
<1>2. log' = [log EXCEPT ![ride] = Row(title, "service", Now)]
  BY DEF MarkNamed
<1>3. Row(title, "service", Now).title = title /\ Row(title, "service", Now).source = "service"
  BY DEF Row
<1>4. QED
  BY <1>1, <1>2, <1>3 DEF TypeOK

\* The title is recorded.
LEMMA RecordStep == LogInv /\ Record => LogInv'
<1> SUFFICES ASSUME LogInv, Record PROVE LogInv'
  OBVIOUS
<1>1. /\ pc = "record" /\ MarkNamed(title) /\ pc' \in {"advance", "put"} /\ TypeOK
      /\ UNCHANGED <<position, memory, ride, context, title, call, used, sent, uncorrected, restarts>>
  BY DEF Record, LogInv
<1>2. /\ DOMAIN log' = Ride /\ ride \in Ride
      /\ \A r \in Ride : r # ride => log'[r] = log[r]
      /\ log'[ride].title = title /\ log'[ride].source = "service"
      /\ title \in Titles
  BY <1>1, TitleRecorded
<1>3. TypeOK'
  BY <1>1, <1>2 DEF TypeOK
<1>4. QED
  BY <1>1, <1>3 DEF LogInv, RecentIsCurrent, TitleIsNoRepeat

\* The row may be there although the call failed.
LEMMA RecordFailsStep == LogInv /\ RecordFails => LogInv'
<1> SUFFICES ASSUME LogInv, RecordFails PROVE LogInv'
  OBVIOUS
<1>1. /\ pc = "record" /\ Idle /\ TypeOK
      /\ UNCHANGED <<position, memory, sent, uncorrected, restarts>>
  BY DEF RecordFails, LogInv
<1>2. CASE log' = log
  BY <1>1, <1>2, IdleAgain DEF TypeOK
<1>3. CASE MarkNamed(title)
  <2>1. /\ DOMAIN log' = Ride /\ ride \in Ride
        /\ \A r \in Ride : r # ride => log'[r] = log[r]
        /\ log'[ride].title = title /\ log'[ride].source = "service"
        /\ title \in Titles
    BY <1>1, <1>3, TitleRecorded
  <2>2. /\ DOMAIN context' = DOMAIN NoContext /\ context'.index = 0
        /\ DOMAIN NoContext = (DOMAIN NoContext)'
    BY <1>1 DEF NoContext, NoSeries
  <2>3. NoTitle \in Titles
    BY DEF Titles
  <2>4. used' \in BOOLEAN /\ ~used' /\ (used' => UsesEntry(title, context.offer)')
    BY <1>1
  <2>5. \A r \in Ride :
          /\ log'[r].title \in Titles
          /\ log'[r].source \in {"none", "service", "template", "human", "imported"}
    BY <1>1, <2>1 DEF TypeOK
  <2>6. TypeOK'
    BY <1>1, <2>1, <2>2, <2>3, <2>4, <2>5 DEF TypeOK
  <2>7. QED
    BY <1>1, <2>6 DEF LogInv, RecentIsCurrent, TitleIsNoRepeat
<1>4. QED
  BY <1>2, <1>3 DEF RecordFails

\* The position moves, or does not.
LEMMA AdvanceStep == LogInv /\ (RecordFranchise \/ RecordFranchiseFails) => LogInv'
<1> SUFFICES ASSUME LogInv, RecordFranchise \/ RecordFranchiseFails PROVE LogInv'
  OBVIOUS
<1>1. /\ TypeOK /\ pc = "advance" /\ pc' = "put"
      /\ UNCHANGED <<log, memory, ride, context, title, call, used, sent, uncorrected, restarts>>
  BY DEF RecordFranchise, RecordFranchiseFails, LogInv
<1>2. position' \in [SeriesNames -> Nat]
  <2>1. CASE RecordFranchise
    <3> DEFINE n == context.series.name
               i == context.index
    <3>1. position \in [SeriesNames -> Nat] /\ (n \in SeriesNames => i \in Nat)
      BY <1>1 DEF TypeOK
    <3>2. position' = [position EXCEPT ![n] = IF i + 1 > @ THEN i + 1 ELSE @]
      BY <2>1 DEF RecordFranchise, AdvanceFranchisePast
    <3> HIDE DEF n, i
    <3>3. n \in SeriesNames => (IF i + 1 > position[n] THEN i + 1 ELSE position[n]) \in Nat
      BY <3>1
    <3>4. QED
      BY <3>1, <3>2, <3>3
  <2>2. CASE RecordFranchiseFails
    BY <1>1, <2>2 DEF RecordFranchiseFails, TypeOK
  <2>3. QED
    BY <2>1, <2>2
<1>3. TypeOK'
  BY <1>1, <1>2 DEF TypeOK
<1>4. QED
  BY <1>1, <1>3 DEF LogInv, RecentIsCurrent, TitleIsNoRepeat

\* The title Strava keeps is one of the titles.
LEMMA StoredIsTitle ==
  ASSUME NEW t \in Titles
  PROVE  Stored(t) \in Titles
BY DEF Stored, Titles, Range

\* The title is sent, answered or not, or the call fails.
LEMMA PutStep == LogInv /\ (Put \/ PutUnanswered \/ PutFails) => LogInv'
<1> SUFFICES ASSUME LogInv, Put \/ PutUnanswered \/ PutFails PROVE LogInv'
  OBVIOUS
<1>1. /\ TypeOK /\ pc = "put" /\ ride \in Ride
      /\ UNCHANGED <<store, memory, restarts>>
  BY DEF Put, PutUnanswered, PutFails, LogInv, TypeOK
<1>2. sent' \in [Ride -> Titles] /\ uncorrected' \subseteq Ride
  BY <1>1 DEF Put, PutUnanswered, PutFails, SendTitle, TypeOK
<1>3. CASE Idle
  BY <1>1, <1>2, <1>3, IdleAgain DEF TypeOK
<1>4. CASE pc' = "keep" /\ UNCHANGED <<ride, context, title, call, used>>
  <2>1. TypeOK'
    BY <1>1, <1>2, <1>4 DEF TypeOK
  <2>2. QED
    BY <1>4, <2>1 DEF LogInv, RecentIsCurrent, TitleIsNoRepeat
<1>5. QED
  BY <1>3, <1>4 DEF Put, PutUnanswered, PutFails

\* The row follows Strava, or does not.
LEMMA KeepStep == LogInv /\ (KeepStoredTitle \/ KeepStoredTitleFails) => LogInv'
<1> SUFFICES ASSUME LogInv, KeepStoredTitle \/ KeepStoredTitleFails PROVE LogInv'
  OBVIOUS
<1>1. /\ TypeOK /\ pc = "keep" /\ ride \in Ride /\ Idle
      /\ UNCHANGED <<position, memory, sent, restarts>>
  BY DEF KeepStoredTitle, KeepStoredTitleFails, LogInv, TypeOK
<1>2. CASE KeepStoredTitleFails
  BY <1>1, <1>2, IdleAgain DEF KeepStoredTitleFails, TypeOK
<1>3. CASE KeepStoredTitle
  <2> DEFINE row == Row(Stored(title), "service", Now)
  <2>1. row.title \in Titles /\ row.source = "service"
    BY <1>1, StoredIsTitle DEF Row, TypeOK
  <2>2. log' = [log EXCEPT ![ride] = row] /\ uncorrected' = uncorrected
    BY <1>3 DEF KeepStoredTitle
  <2> HIDE DEF row
  <2>3. /\ DOMAIN log' = Ride
        /\ \A r \in Ride :
             /\ log'[r].title \in Titles
             /\ log'[r].source \in {"none", "service", "template", "human", "imported"}
    BY <1>1, <2>1, <2>2 DEF TypeOK
  <2>4. /\ DOMAIN context' = DOMAIN NoContext /\ context'.index = 0
        /\ DOMAIN NoContext = (DOMAIN NoContext)'
    BY <1>1 DEF NoContext, NoSeries
  <2>5. NoTitle \in Titles
    BY DEF Titles
  <2>6. used' \in BOOLEAN /\ ~used' /\ (used' => UsesEntry(title, context.offer)')
    BY <1>1
  <2>7. TypeOK'
    BY <1>1, <2>2, <2>3, <2>4, <2>5, <2>6 DEF TypeOK
  <2>8. QED
    BY <1>1, <2>7 DEF LogInv, RecentIsCurrent, TitleIsNoRepeat
<1>4. QED
  BY <1>2, <1>3

\* A row of a template.
LEMMA TemplateStep == LogInv /\ (\E r \in Ride : NameFromTemplate(r)) => LogInv'
<1> SUFFICES ASSUME LogInv, NEW r \in Ride, NameFromTemplate(r) PROVE LogInv'
  OBVIOUS
<1> DEFINE row == Row(TemplateTitle, "template", Now)
<1>1. row.title = TemplateTitle /\ row.source = "template" /\ TemplateTitle \in Titles
  BY DEF Row, Titles
<1>2. /\ pc = "idle" /\ log' = [log EXCEPT ![r] = row]
      /\ UNCHANGED <<position, memory, naming, sent, uncorrected, restarts>>
  BY DEF NameFromTemplate
<1> HIDE DEF row
<1>3. QED
  BY <1>1, <1>2, RowWritten

\* A row of the athlete's, which a rename leaves under its source.
LEMMA HumanTitleStep == LogInv /\ (\E r \in Ride : RecordHumanTitle(r)) => LogInv'
<1> SUFFICES ASSUME LogInv, NEW r \in Ride, RecordHumanTitle(r) PROVE LogInv'
  OBVIOUS
<1>1. PICK t \in OtherTitles(r) :
        log' = [log EXCEPT ![r] =
                  Row(t, IF @.source = "imported" THEN "imported" ELSE "human", r)]
  BY DEF RecordHumanTitle
<1> DEFINE row == Row(t, IF log[r].source = "imported" THEN "imported" ELSE "human", r)
<1>2. t \in Titles
  <2>1. sent[r] \in Titles
    BY DEF LogInv, TypeOK
  <2>2. QED
    BY <2>1, StoredIsTitle DEF OtherTitles, Titles
<1>3. row.title = t /\ row.source \in {"human", "imported"}
  BY DEF Row
<1>4. /\ pc = "idle" /\ log' = [log EXCEPT ![r] = row]
      /\ UNCHANGED <<position, memory, naming, sent, uncorrected, restarts>>
  BY <1>1 DEF RecordHumanTitle
<1> HIDE DEF row
<1>5. QED
  BY <1>2, <1>3, <1>4, RowWritten

\* A row of the import, where there was none.
LEMMA ImportStep == LogInv /\ (\E r \in Ride : Import(r)) => LogInv'
<1> SUFFICES ASSUME LogInv, NEW r \in Ride, Import(r) PROVE LogInv'
  OBVIOUS
<1>1. PICK t \in HumanTitles : log' = [log EXCEPT ![r] = Row(t, "imported", r)]
  BY DEF Import
<1> DEFINE row == Row(t, "imported", r)
<1>2. row.title = t /\ t \in Titles /\ row.source = "imported"
  BY DEF Row, Titles
<1>3. /\ pc = "idle" /\ log' = [log EXCEPT ![r] = row]
      /\ UNCHANGED <<position, memory, naming, sent, uncorrected, restarts>>
  BY <1>1 DEF Import
<1> HIDE DEF row
<1>4. QED
  BY <1>2, <1>3, RowWritten

\* The athlete writes the configuration document.
LEMMA DocumentStep ==
  ASSUME LogInv, UNCHANGED <<log, position, memory, naming, sent, uncorrected, restarts>>
  PROVE  LogInv'
<1>1. TypeOK'
  BY DEF LogInv, TypeOK
<1>2. RecentIsCurrent'
  BY SameRows DEF LogInv, RecentIsCurrent
<1>3. TitleIsNoRepeat'
  BY DEF LogInv, TitleIsNoRepeat, Forbidden
<1>4. QED
  BY <1>1, <1>2, <1>3 DEF LogInv

\* The process restarts and forgets its caches.
LEMMA RestartStep == LogInv /\ Restart => LogInv'
<1> SUFFICES ASSUME LogInv, Restart PROVE LogInv'
  OBVIOUS
<1>1. restarts' \in 0..MaxRestarts
  BY NamingAssumption DEF Restart, LogInv, TypeOK
<1>2. uncorrected' \subseteq Ride
  BY DEF Restart, LogInv, TypeOK
<1>3. QED
  BY <1>1, <1>2, IdleAgain DEF Restart, LogInv, TypeOK
-----------------------------------------------------------------------------
(* Every step.                                                             *)

\* Every step keeps the invariant.
LEMMA InvariantStep == LogInv /\ [Next]_vars => LogInv'
<1> SUFFICES ASSUME LogInv, [Next]_vars PROVE LogInv'
  OBVIOUS
<1>1. CASE \E r \in Ride :
             Gather(r) \/ NameFromTemplate(r) \/ RecordHumanTitle(r) \/ Import(r)
  BY <1>1, GatherStep, TemplateStep, HumanTitleStep, ImportStep
<1>2. CASE Offer \/ Answered \/ Unanswered
  BY <1>2, OfferStep, AnsweredStep, UnansweredStep
<1>3. CASE \/ Record \/ RecordFails \/ RecordFranchise \/ RecordFranchiseFails
           \/ Put \/ PutUnanswered \/ PutFails \/ KeepStoredTitle \/ KeepStoredTitleFails
  BY <1>3, RecordStep, RecordFailsStep, AdvanceStep, PutStep, KeepStep
<1>4. CASE SeedConfig \/ EditConfig
  BY <1>4, DocumentStep DEF SeedConfig, EditConfig, WriteDocument
<1>5. CASE Restart
  BY <1>5, RestartStep
<1>6. CASE UNCHANGED vars
  BY <1>6, DocumentStep DEF vars
<1>7. QED
  BY <1>1, <1>2, <1>3, <1>4, <1>5, <1>6 DEF Next
-----------------------------------------------------------------------------
(* Whose titles the log and the examples hold.                             *)

\* The first process, over an empty log.
LEMMA InitOwned == Init => TitlesAreOwned
BY DEF Init, TitlesAreOwned, RowsSayWho, RowsFollowStrava, ExamplesAreTheAthletes, NoRow

\* A step that writes no row, keeps no example and sends nothing.
LEMMA OwnedSame ==
  ASSUME TitlesAreOwned, UNCHANGED <<log, sent, examples, uncorrected>>,
         \/ pc \notin {"advance", "put", "keep"} /\ pc' \in {"idle", "offer", "ask", "record"}
         \/ UNCHANGED <<pc, ride, title>>
         \/ pc = "put" /\ pc' = "idle"
         \/ pc = "advance" /\ pc' = "put" /\ UNCHANGED <<ride, title>>
  PROVE  TitlesAreOwned'
BY DEF TitlesAreOwned, RowsSayWho, RowsFollowStrava, ExamplesAreTheAthletes, IsTheAthletes

\* Only rows of the athlete's are taught.
LEMMA OwnedGather ==
  ASSUME TitlesAreOwned, NEW r \in Ride, Gather(r)
  PROVE  TitlesAreOwned'
<1>1. PICK unread \in SUBSET TeachesStyle(RecentTitles) :
        examples' = [s \in Ride |->
          IF s \in ExamplesFrom(TeachesStyle(RecentTitles), unread)
          THEN ExampleTitle(s) ELSE examples[s]]
  BY DEF Gather
<1> DEFINE taught == ExamplesFrom(TeachesStyle(RecentTitles), unread)
<1>2. UNCHANGED <<log, sent, uncorrected>> /\ pc = "idle" /\ pc' = "offer"
  BY DEF Gather
<1>3. \A s \in taught : s \in Ride /\ log[s].source = "human" /\ IsTheAthletes(s, log[s].title)
  BY DEF ExamplesFrom, TeachesStyle, RecentTitles, Recorded, TitlesAreOwned, RowsSayWho
<1>4. ASSUME NEW s \in Ride, examples'[s] # NoTitle
      PROVE  IsTheAthletes(s, examples'[s]) /\ log[s].source = "human"
  <2>1. examples[s] # NoTitle => IsTheAthletes(s, examples[s]) /\ log[s].source = "human"
    BY DEF TitlesAreOwned, ExamplesAreTheAthletes
  <2>2. examples'[s] = IF s \in taught THEN ExampleTitle(s) ELSE examples[s]
    BY <1>1
  <2>3. s \in taught => IsTheAthletes(s, ExampleTitle(s))
    BY <1>3, <2>1 DEF ExampleTitle
  <2>4. QED
    BY <1>3, <1>4, <2>1, <2>2, <2>3
<1>5. ExamplesAreTheAthletes'
  BY <1>2, <1>4 DEF ExamplesAreTheAthletes, IsTheAthletes
<1>6. QED
  BY <1>2, <1>5 DEF TitlesAreOwned, RowsSayWho, RowsFollowStrava, IsTheAthletes

\* A row written while no title is in hand, which is the athlete's if it says so,
\* and stays the athlete's.
LEMMA OwnedRow ==
  ASSUME TypeOK, TitlesAreOwned, pc = "idle", NEW r \in Ride, NEW row,
         log' = [log EXCEPT ![r] = row],
         row.source \in {"template", "human", "imported"},
         row.source = "human" => IsTheAthletes(r, row.title),
         row.source = "imported" => row.title \in HumanTitles,
         log[r].source = "human" => row.source = "human",
         UNCHANGED <<examples, naming, sent, uncorrected>>
  PROVE  TitlesAreOwned'
<1>1. \A s \in Ride : log'[s] = IF s = r THEN row ELSE log[s]
  BY DEF TypeOK
<1>2. row # NoRow
  BY DEF NoRow
<1>3. RowsSayWho'
  BY <1>1 DEF TitlesAreOwned, RowsSayWho, IsTheAthletes
<1>4. RowsFollowStrava'
  BY <1>1, <1>2 DEF TitlesAreOwned, RowsFollowStrava
<1>5. ExamplesAreTheAthletes'
  BY <1>1 DEF TitlesAreOwned, ExamplesAreTheAthletes, IsTheAthletes
<1>6. QED
  BY <1>3, <1>4, <1>5 DEF TitlesAreOwned

\* What Strava shows in place of the title a row of the service's says was typed,
\* or the row was never corrected.
LEMMA OtherIsTheAthletes ==
  ASSUME TitlesAreOwned, pc = "idle", NEW r \in Ride, NEW t \in OtherTitles(r)
  PROVE  IsTheAthletes(r, t)
<1>1. CASE t \in HumanTitles
  BY <1>1 DEF IsTheAthletes
<1>2. CASE t \notin HumanTitles
  <2>1. log[r].source = "service" /\ sent[r] # NoTitle /\ t = Stored(sent[r])
        /\ t # log[r].title
    BY <1>2 DEF OtherTitles
  <2>2. r \in uncorrected /\ log[r].title = sent[r]
    BY <2>1 DEF TitlesAreOwned, RowsFollowStrava
  <2>3. QED
    BY <2>1, <2>2 DEF IsTheAthletes, Rewrites
<1>3. QED
  BY <1>1, <1>2

\* The athlete's rows, a template's, and the import's.
LEMMA OwnedRows ==
  ASSUME LogInv, TitlesAreOwned, NEW r \in Ride,
         NameFromTemplate(r) \/ RecordHumanTitle(r) \/ Import(r)
  PROVE  TitlesAreOwned'
<1>0. TypeOK /\ pc = "idle" /\ UNCHANGED <<examples, naming, sent, uncorrected>>
  BY DEF LogInv, NameFromTemplate, RecordHumanTitle, Import
<1>1. CASE NameFromTemplate(r)
  <2> DEFINE row == Row(TemplateTitle, "template", Now)
  <2>1. row.source = "template" /\ log[r].source = "none" /\ log' = [log EXCEPT ![r] = row]
    BY <1>1 DEF NameFromTemplate, Row, NoRow
  <2> HIDE DEF row
  <2>2. QED
    BY <1>0, <2>1, OwnedRow
<1>2. CASE RecordHumanTitle(r)
  <2>1. PICK t \in OtherTitles(r) :
          log' = [log EXCEPT ![r] =
                    Row(t, IF @.source = "imported" THEN "imported" ELSE "human", r)]
    BY <1>2 DEF RecordHumanTitle
  <2> DEFINE row == Row(t, IF log[r].source = "imported" THEN "imported" ELSE "human", r)
  <2>2. /\ row.title = t /\ row.source \in {"human", "imported"}
        /\ row.source = "imported" <=> log[r].source = "imported"
    BY DEF Row
  <2>3. IsTheAthletes(r, t) /\ (row.source = "imported" => t \in HumanTitles)
    BY <1>0, <2>2, OtherIsTheAthletes DEF OtherTitles
  <2>4. log' = [log EXCEPT ![r] = row]
    BY <2>1
  <2> HIDE DEF row
  <2>5. QED
    BY <1>0, <2>2, <2>3, <2>4, OwnedRow
<1>3. CASE Import(r)
  <2>1. PICK t \in HumanTitles : log' = [log EXCEPT ![r] = Row(t, "imported", r)]
    BY <1>3 DEF Import
  <2> DEFINE row == Row(t, "imported", r)
  <2>2. row.title = t /\ row.source = "imported" /\ log[r].source = "none"
    BY <1>3 DEF Row, Import, NoRow
  <2>3. log' = [log EXCEPT ![r] = row]
    BY <2>1
  <2> HIDE DEF row
  <2>4. QED
    BY <1>0, <2>2, <2>3, OwnedRow
<1>4. QED
  BY <1>1, <1>2, <1>3

\* The title in hand is recorded of a ride that had no row and was sent nothing.
LEMMA OwnedRecord ==
  ASSUME LogInv, TitlesAreOwned, pc = "record", MarkNamed(title),
         UNCHANGED <<examples, sent, uncorrected>>,
         pc' = "idle" \/ (pc' \in {"advance", "put"} /\ UNCHANGED <<ride, title>>)
  PROVE  TitlesAreOwned'
<1>1. /\ ride \in Ride
      /\ \A r \in Ride : r # ride => log'[r] = log[r]
      /\ log'[ride].title = title /\ log'[ride].source = "service"
  BY TitleRecorded
<1>2. log[ride] = NoRow /\ log[ride].source = "none" /\ log'[ride] # NoRow
  BY <1>1 DEF LogInv, RecentIsCurrent, NoRow
<1>3. sent[ride] = NoTitle /\ examples[ride] = NoTitle
  BY <1>1, <1>2 DEF TitlesAreOwned, RowsFollowStrava, ExamplesAreTheAthletes
<1>4. RowsSayWho'
  BY <1>1 DEF TitlesAreOwned, RowsSayWho, IsTheAthletes
<1>5. RowsFollowStrava'
  BY <1>1, <1>2, <1>3 DEF TitlesAreOwned, RowsFollowStrava
<1>6. ExamplesAreTheAthletes'
  BY <1>1, <1>3 DEF TitlesAreOwned, ExamplesAreTheAthletes, IsTheAthletes
<1>7. QED
  BY <1>4, <1>5, <1>6 DEF TitlesAreOwned

\* The PUT takes effect: the row said what was sent, and Strava may keep another.
LEMMA OwnedPut ==
  ASSUME LogInv, TitlesAreOwned, Put \/ PutUnanswered
  PROVE  TitlesAreOwned'
<1>1. /\ ride \in Ride /\ sent \in [Ride -> Titles]
      /\ log[ride].source = "service" /\ log[ride].title = title
      /\ UNCHANGED <<log, examples>> /\ SendTitle /\ pc = "put"
  BY DEF LogInv, TypeOK, TitlesAreOwned, RowsFollowStrava, Put, PutUnanswered
<1>2. /\ sent'[ride] = title /\ \A r \in Ride : r # ride => sent'[r] = sent[r]
      /\ log[ride] # NoRow /\ examples[ride] = NoTitle
  BY <1>1 DEF SendTitle, NoRow, TitlesAreOwned, ExamplesAreTheAthletes
<1>3. /\ uncorrected \subseteq uncorrected'
      /\ \/ pc' = "idle" /\ (Rewrites(title) => ride \in uncorrected')
         \/ pc' = "keep" /\ Rewrites(title) /\ UNCHANGED <<ride, title>>
  BY DEF Put, PutUnanswered
<1>4. RowsSayWho' /\ ExamplesAreTheAthletes'
  BY <1>1, <1>2, <1>3
     DEF TitlesAreOwned, RowsSayWho, ExamplesAreTheAthletes, IsTheAthletes
<1>5. RowsFollowStrava'
  BY <1>1, <1>2, <1>3 DEF TitlesAreOwned, RowsFollowStrava, Rewrites
<1>6. QED
  BY <1>4, <1>5 DEF TitlesAreOwned

\* reconcileTitle writes the row, or the row is one that was not corrected; and so
\* it is if the process dies first.
LEMMA OwnedKeep ==
  ASSUME LogInv, TitlesAreOwned,
         KeepStoredTitle \/ KeepStoredTitleFails \/ (Restart /\ pc = "keep")
  PROVE  TitlesAreOwned'
<1>1. /\ TypeOK /\ ride \in Ride /\ pc = "keep" /\ pc' = "idle" /\ sent' = sent
      /\ log[ride].source = "service" /\ log[ride].title = title
      /\ sent[ride] = title /\ Rewrites(title)
  BY DEF LogInv, TypeOK, TitlesAreOwned, RowsFollowStrava, KeepStoredTitle,
     KeepStoredTitleFails, Restart
<1>2. CASE KeepStoredTitle
  <2>1. log' = [log EXCEPT ![ride] = Row(Stored(title), "service", Now)]
        /\ UNCHANGED <<examples, uncorrected>>
    BY <1>2 DEF KeepStoredTitle
  <2>2. /\ \A r \in Ride : r # ride => log'[r] = log[r]
        /\ log'[ride].title = Stored(title) /\ log'[ride].source = "service"
    BY <1>1, <2>1 DEF TypeOK, Row
  <2>3. log'[ride] # NoRow /\ examples[ride] = NoTitle
    BY <1>1, <2>2 DEF NoRow, TitlesAreOwned, ExamplesAreTheAthletes
  <2>4. RowsSayWho' /\ ExamplesAreTheAthletes'
    BY <1>1, <2>1, <2>2, <2>3
       DEF TitlesAreOwned, RowsSayWho, ExamplesAreTheAthletes, IsTheAthletes
  <2>5. RowsFollowStrava'
    BY <1>1, <2>1, <2>2, <2>3 DEF TitlesAreOwned, RowsFollowStrava
  <2>6. QED
    BY <2>4, <2>5 DEF TitlesAreOwned
<1>3. CASE KeepStoredTitleFails \/ Restart
  <2>1. /\ log' = log /\ uncorrected' = uncorrected \cup {ride}
        /\ \A r \in Ride : examples'[r] \in {examples[r], NoTitle}
    BY <1>1, <1>3 DEF KeepStoredTitleFails, Restart
  <2>2. RowsSayWho' /\ ExamplesAreTheAthletes'
    BY <1>1, <2>1 DEF TitlesAreOwned, RowsSayWho, ExamplesAreTheAthletes, IsTheAthletes
  <2>3. RowsFollowStrava'
    BY <1>1, <2>1 DEF TitlesAreOwned, RowsFollowStrava
  <2>4. QED
    BY <2>2, <2>3 DEF TitlesAreOwned
<1>4. QED
  BY <1>2, <1>3

\* The process restarts elsewhere, and forgets its examples.
LEMMA OwnedRestart ==
  ASSUME TitlesAreOwned, Restart, pc # "keep"
  PROVE  TitlesAreOwned'
<1>1. /\ UNCHANGED <<log, sent, uncorrected>> /\ pc' = "idle"
      /\ examples' = [r \in Ride |-> NoTitle]
  BY DEF Restart
<1>2. QED
  BY <1>1 DEF TitlesAreOwned, RowsSayWho, RowsFollowStrava, ExamplesAreTheAthletes,
     IsTheAthletes

\* Every step leaves the athlete's rows and examples the athlete's.
LEMMA OwnedStep == LogInv /\ TitlesAreOwned /\ [Next]_vars => TitlesAreOwned'
<1> SUFFICES ASSUME LogInv, TitlesAreOwned, [Next]_vars PROVE TitlesAreOwned'
  OBVIOUS
<1>1. CASE \E r \in Ride : Gather(r)
  BY <1>1, OwnedGather
<1>2. CASE \E r \in Ride : NameFromTemplate(r) \/ RecordHumanTitle(r) \/ Import(r)
  BY <1>2, OwnedRows
<1>3. CASE Offer
  BY <1>3, OwnedSame DEF Offer
<1>4. CASE Answered
  <2>1. UNCHANGED <<log, sent, examples, uncorrected>> /\ pc = "ask" /\ pc' \in {"ask", "record"}
    BY <1>4 DEF Answered, Take, TryAgain
  <2>2. QED
    BY <2>1, OwnedSame
<1>5. CASE Unanswered
  <2>1. UNCHANGED <<log, sent, examples, uncorrected>> /\ pc = "ask" /\ pc' \in {"idle", "record"}
    BY <1>5 DEF Unanswered, Take
  <2>2. QED
    BY <2>1, OwnedSame
<1>6. CASE Record
  BY <1>6, OwnedRecord DEF Record
<1>7. CASE RecordFails
  <2>1. CASE MarkNamed(title)
    BY <1>7, <2>1, OwnedRecord DEF RecordFails
  <2>2. CASE log' = log
    BY <1>7, <2>2, OwnedSame DEF RecordFails
  <2>3. QED
    BY <1>7, <2>1, <2>2 DEF RecordFails
<1>8. CASE RecordFranchise \/ RecordFranchiseFails
  BY <1>8, OwnedSame DEF RecordFranchise, RecordFranchiseFails
<1>9. CASE Put \/ PutUnanswered
  BY <1>9, OwnedPut
<1>10. CASE PutFails
  BY <1>10, OwnedSame DEF PutFails
<1>11. CASE KeepStoredTitle \/ KeepStoredTitleFails \/ (Restart /\ pc = "keep")
  BY <1>11, OwnedKeep
<1>12. CASE Restart /\ pc # "keep"
  BY <1>12, OwnedRestart
<1>13. CASE SeedConfig \/ EditConfig
  BY <1>13, OwnedSame DEF SeedConfig, EditConfig, WriteDocument
<1>14. CASE UNCHANGED vars
  BY <1>14, OwnedSame DEF vars
<1>15. QED
  BY <1>1, <1>2, <1>3, <1>4, <1>5, <1>6, <1>7, <1>8, <1>9, <1>10, <1>11, <1>12, <1>13,
     <1>14 DEF Next
-----------------------------------------------------------------------------
(* Series.                                                                 *)

\* A series of a list is what SeriesAssumption says, whatever is reserved of it.
LEMMA ListedIsSeries ==
  ASSUME NEW s, Listed(s)
  PROVE  /\ s.name \in SeriesNames
         /\ s.titles \in Seq(Range(s.titles))
         /\ Len(s.titles) \in Nat /\ DOMAIN s.titles = 1..Len(s.titles)
         /\ \A e \in Range(s.titles) : e \in Seq(Range(e))
<1>1. PICK list \in Lists : \E i \in DOMAIN list :
        s.name = list[i].name /\ s.gear = list[i].gear /\ s.titles = list[i].titles
  BY DEF Listed
<1>2. PICK i \in DOMAIN list : s.name = list[i].name /\ s.titles = list[i].titles
  BY <1>1
<1>3. s.name \in SeriesNames
  BY <1>2 DEF SeriesNames
<1>4. /\ s.titles \in Seq(Range(s.titles))
      /\ \A e \in Range(s.titles) : e \in Seq(Range(e))
  BY <1>2, SeriesAssumption
<1>5. QED
  BY <1>3, <1>4

\* If the lists only grow, an entry has one place in the series of a name.
LEMMA OnePlace ==
  ASSUME EntriesKeepTheirPlace, NEW s, Listed(s), NEW t, Listed(t),
         NEW n \in DOMAIN s.titles, NEW k \in DOMAIN t.titles
  PROVE  s.titles[n] = t.titles[k] <=> s.name = t.name /\ n = k
<1>1. PICK l \in Lists : \E i \in DOMAIN l : s.name = l[i].name /\ s.titles = l[i].titles
  BY DEF Listed
<1>2. PICK i \in DOMAIN l : s.name = l[i].name /\ s.titles = l[i].titles
  BY <1>1
<1>3. PICK m \in Lists : \E j \in DOMAIN m : t.name = m[j].name /\ t.titles = m[j].titles
  BY DEF Listed
<1>4. PICK j \in DOMAIN m : t.name = m[j].name /\ t.titles = m[j].titles
  BY <1>3
<1>5. QED
  BY <1>2, <1>4 DEF EntriesKeepTheirPlace

\* Without a series there is no entry.
LEMMA NoEntries ==
  /\ Entries(NoSeries) = {}
  /\ NoContext.series = NoSeries /\ NoContext.offer = NoTitle
BY DEF Entries, NoSeries, NoContext, Range

\* A series shares nothing with the one that is none.
LEMMA EntryIsListed ==
  ASSUME NEW s, s = NoSeries \/ Listed(s), NEW e \in Entries(s)
  PROVE  Listed(s) /\ \E i \in DOMAIN s.titles : s.titles[i] = e
BY NoEntries DEF Entries, Range

\* FranchiseFor: the series that a ride belongs to is one of the list.
LEMMA FoundIsListed ==
  ASSUME NEW list, \A i \in DOMAIN list : Listed(list[i]), NEW gearName
  PROVE  FranchiseFor(list, gearName) = NoSeries \/ Listed(FranchiseFor(list, gearName))
<1> DEFINE at == {i \in DOMAIN list : list[i].name # "" /\ Applies(list[i], gearName)}
           first == {i \in at : \A j \in at : i <= j}
<1>1. FranchiseFor(list, gearName)
        = IF first = {} THEN NoSeries ELSE list[CHOOSE i \in first : TRUE]
  BY DEF FranchiseFor
<1>2. first # {} => (CHOOSE i \in first : TRUE) \in DOMAIN list
  OBVIOUS
<1> HIDE DEF first
<1>3. QED
  BY <1>1, <1>2

\* SeedConfig: reserving an entry leaves a list what it is otherwise.
LEMMA ReserveKeepsSeries ==
  ASSUME NEW list \in Lists, NEW entry, NEW i \in DOMAIN Reserve(list, entry)
  PROVE  Listed(Reserve(list, entry)[i])
<1>1. i \in DOMAIN list /\ DOMAIN list[i] = {"name", "gear", "titles", "reserved"}
  BY SeriesAssumption DEF Reserve
<1>2. Reserve(list, entry)[i] =
        IF entry \in Entries(list[i])
        THEN [list[i] EXCEPT !.reserved = @ \cup {entry}] ELSE list[i]
  BY <1>1 DEF Reserve
<1>3. /\ Reserve(list, entry)[i].name = list[i].name
      /\ Reserve(list, entry)[i].gear = list[i].gear
      /\ Reserve(list, entry)[i].titles = list[i].titles
      /\ list[i].reserved \subseteq Reserve(list, entry)[i].reserved
  BY <1>1, <1>2
<1>4. QED
  BY <1>1, <1>3 DEF Listed

\* A list's own series are listed.
LEMMA ListsAreListed ==
  ASSUME NEW list \in Lists, NEW i \in DOMAIN list
  PROVE  Listed(list[i])
BY DEF Listed

\* A title that claims an entry uses it (claims): a motif entry, which only the
\* entry itself or its core claims, is no exception.
LEMMA ClaimIsUse ==
  ASSUME NEW s, NEW e, e \in Seq(Range(e)), NEW t, Claims(s, t, e)
  PROVE  UsesEntry(t, e)
<1>1. CASE ~IsMotif(s, e)
  BY <1>1 DEF Claims
<1>2. CASE IsMotif(s, e)
  <2> DEFINE c == EntryCore(e)
  <2>1. c # <<>> /\ t # <<>> /\ (t = e \/ t = c)
    BY <1>2 DEF Claims, IsMotif
  <2>2. e # <<>>
    BY <2>1 DEF EntryCore
  <2>3. /\ Tail(e) = SubSeq(e, 2, Len(e)) /\ Tail(e) \in Seq(Range(e))
        /\ SubSeq(e, 1, Len(e)) = e
    BY <2>2, TailIsSubSeq, HeadTailProperties, SubSeqFull
  <2>4. c \in Seq(Range(e)) /\ (c = e \/ (c = Tail(e) /\ Len(e) > 1))
    BY <2>3 DEF EntryCore
  <2>5. Len(e) \in Nat /\ Len(c) \in Nat
    BY <2>4
  <2>6. CASE t = c
    <3>1. SubSeq(c, 1, 1 + Len(c) - 1) = c
      BY <2>4, <2>5, SubSeqFull
    <3>2. 1 \in 1..(Len(c) - Len(c) + 1)
      BY <2>5
    <3> HIDE DEF c
    <3>3. \E i \in 1..(Len(c) - Len(c) + 1) : SubSeq(c, i, i + Len(c) - 1) = c
      BY <3>1, <3>2
    <3>4. QED
      BY <2>1, <2>6, <3>3 DEF UsesEntry, c
  <2>7. CASE t = e /\ c = Tail(e) /\ Len(e) > 1
    <3>1. Len(c) = Len(e) - 1
      BY <2>2, <2>4, <2>7
    <3>2. SubSeq(e, 2, 2 + Len(c) - 1) = c /\ 2 \in 1..(Len(e) - Len(c) + 1)
      BY <2>3, <2>5, <2>7, <3>1
    <3> HIDE DEF c
    <3>3. \E i \in 1..(Len(e) - Len(c) + 1) : SubSeq(e, i, i + Len(c) - 1) = c
      BY <3>2
    <3>4. QED
      BY <2>1, <2>7, <3>3 DEF UsesEntry, c
  <2>8. QED
    BY <2>1, <2>4, <2>6, <2>7
<1>3. QED
  BY <1>1, <1>2

\* What is heard of the model claims no entry but the one on offer and those that
\* entry itself would claim (Guard), and the last call claims none.
LEMMA AnswerClaims ==
  ASSUME NEW n, NEW t \in Answers(n), NEW e \in Entries(context.series),
         Claims(context.series, t, e)
  PROVE  n # 3 /\ context.offer # NoTitle /\ Claims(context.series, context.offer, e)
<1>1. e \notin GuardOf(n)
  BY DEF Answers, Accepted
<1>2. QED
  BY <1>1 DEF GuardOf, Guard
-----------------------------------------------------------------------------
(* The entries that are spent.                                             *)

\* franchises: what a ride is named from, and what the process remembers of the
\* document, are lists of series.
LEMMA ProfilesAreListed ==
  ASSUME SeriesAreListed, NEW p \in Profiles
  PROVE  /\ \A i \in DOMAIN p[1] : Listed(p[1][i])
         /\ p[2] # NotRead => \A i \in DOMAIN p[2] : Listed(p[2][i])
<1>1. \A i \in DOMAIN DefaultProfile : Listed(DefaultProfile[i])
  BY ListsAreListed DEF Lists
<1>2. \A i \in DOMAIN Franchises(doc) : Listed(Franchises(doc)[i])
  BY <1>1 DEF Franchises, SeriesAreListed
<1>3. profile # NotRead => \A i \in DOMAIN profile : Listed(profile[i])
  BY DEF SeriesAreListed
<1>4. \/ profile # NotRead /\ p = <<profile, profile>>
      \/ p = <<Franchises(doc), Franchises(doc)>>
      \/ p = <<DefaultProfile, NotRead>>
  BY DEF Profiles, Degraded
<1>5. QED
  BY <1>1, <1>2, <1>3, <1>4

\* No step makes a list of anything but series.
LEMMA SeriesStep ==
  ASSUME LogInv, SeriesAreListed, [Next]_vars
  PROVE  SeriesAreListed'
<1>1. doc' # NoDocument => \A i \in DOMAIN doc' : Listed(doc'[i])
  <2>1. CASE doc' = doc
    BY <2>1 DEF SeriesAreListed
  <2>2. CASE doc' \in Documents
    BY <2>2, ListsAreListed DEF Lists
  <2>3. CASE \E entry \in Reservations : doc' = Reserve(DefaultProfile, entry)
    BY <2>3, ReserveKeepsSeries DEF Lists
  <2>4. doc' = doc \/ doc' \in Documents
          \/ \E entry \in Reservations : doc' = Reserve(DefaultProfile, entry)
    BY DEF Next, vars, Gather, NameFromTemplate, RecordHumanTitle, Import, Offer, Answered,
           Unanswered, Record, RecordFails, RecordFranchise, RecordFranchiseFails, Put,
           PutUnanswered, PutFails, KeepStoredTitle, KeepStoredTitleFails, SendTitle,
           SeedConfig, EditConfig, WriteDocument, Restart
  <2>5. QED
    BY <2>1, <2>2, <2>3, <2>4
<1>2. profile' # NotRead => \A i \in DOMAIN profile' : Listed(profile'[i])
  <2>1. CASE Offer
    <3>1. PICK p \in Profiles : profile' = p[2]
      BY <2>1 DEF Offer
    <3>2. QED
      BY <3>1, ProfilesAreListed
  <2>2. CASE ~Offer
    <3>1. profile' \in {profile, NotRead}
      BY <2>2
      DEF Next, vars, Gather, NameFromTemplate, RecordHumanTitle, Import, Answered,
          Unanswered, Record, RecordFails, RecordFranchise, RecordFranchiseFails, Put,
          PutUnanswered, PutFails, KeepStoredTitle, KeepStoredTitleFails, SendTitle,
          SeedConfig, EditConfig, WriteDocument, Restart
    <3>2. QED
      BY <3>1 DEF SeriesAreListed
  <2>3. QED
    BY <2>1, <2>2
<1>3. context'.series = NoSeries \/ Listed(context'.series)
  <2>1. CASE Offer
    <3>1. PICK p \in Profiles :
            \/ context' = [context EXCEPT !.series = FranchiseFor(p[1], context.gear)]
            \/ \E i, t : context' = [context EXCEPT
                 !.series = FranchiseFor(p[1], context.gear), !.index = i, !.offer = t]
      BY <2>1 DEF Offer
    <3> DEFINE found == FranchiseFor(p[1], context.gear)
    <3>2. found = NoSeries \/ Listed(found)
      BY ProfilesAreListed, FoundIsListed
    <3>3. "series" \in DOMAIN context
      BY DEF LogInv, TypeOK, NoContext
    <3> HIDE DEF found
    <3>4. context'.series = found
      BY <3>1, <3>3 DEF found
    <3>5. QED
      BY <3>2, <3>4
  <2>2. CASE \E r \in Ride : Gather(r)
    <3>1. PICK name, taught : context' = PromptContext(name, taught)
      BY <2>2 DEF Gather
    <3>2. context'.series = NoSeries
      BY <3>1 DEF PromptContext, NoContext
    <3>3. QED
      BY <3>2
  <2>3. CASE ~Offer /\ ~(\E r \in Ride : Gather(r))
    <3>1. context' = context \/ context' = NoContext
      BY <2>3
      DEF Next, vars, NameFromTemplate, RecordHumanTitle, Import, Answered, Take, TryAgain,
          Unanswered, Record, RecordFails, RecordFranchise, RecordFranchiseFails, Put,
          PutUnanswered, PutFails, KeepStoredTitle, KeepStoredTitleFails, SendTitle,
          SeedConfig, EditConfig, WriteDocument, Restart
    <3>2. QED
      BY <3>1, NoEntries DEF SeriesAreListed
  <2>4. QED
    BY <2>1, <2>2, <2>3
<1>4. ASSUME NEW r \in Ride
      PROVE  shown'[r] = NoSeries \/ Listed(shown'[r])
  <2>1. shown[r] = NoSeries \/ Listed(shown[r])
    BY DEF SeriesAreListed
  <2>2. shown' = shown \/ shown' = [shown EXCEPT ![ride] = context.series]
    BY DEF Next, vars, Gather, NameFromTemplate, RecordHumanTitle, Import, Offer, Answered,
           Unanswered, Record, RecordFails, RecordFranchise, RecordFranchiseFails, Put,
           PutUnanswered, PutFails, KeepStoredTitle, KeepStoredTitleFails, SendTitle,
           SeedConfig, EditConfig, WriteDocument, Restart
  <2>3. shown'[r] = shown[r] \/ shown'[r] = context.series
    BY <2>2 DEF SeriesAreListed
  <2>4. QED
    BY <2>1, <2>3 DEF SeriesAreListed
<1>5. DOMAIN shown' = Ride
  BY DEF SeriesAreListed, Next, vars, Gather, NameFromTemplate, RecordHumanTitle, Import, Offer,
         Answered, Unanswered, Record, RecordFails, RecordFranchise, RecordFranchiseFails,
         Put, PutUnanswered, PutFails, KeepStoredTitle, KeepStoredTitleFails, SendTitle,
         SeedConfig, EditConfig, WriteDocument, Restart
<1>6. QED
  BY <1>1, <1>2, <1>3, <1>4, <1>5 DEF SeriesAreListed

\* What is known of the ride in hand.
InHand == OfferIsNext /\ TitleClaimsTheOffer /\ UseIsRecorded

\* An entry spent stays spent, for no position goes back.
LEMMA SpentStays ==
  ASSUME LogInv, NEW s, Listed(s), NEW e, Spent(s, e),
         lapsed \subseteq lapsed',
         position' \in [SeriesNames -> Nat],
         \A n \in SeriesNames : position[n] <= position'[n]
  PROVE  Spent(s, e)'
<1>1. s.name \in SeriesNames /\ DOMAIN s.titles = 1..Len(s.titles) /\ Len(s.titles) \in Nat
  BY ListedIsSeries
<1>2. position[s.name] \in Nat /\ position'[s.name] \in Nat
      /\ position[s.name] <= position'[s.name]
  BY <1>1 DEF LogInv, TypeOK
<1>3. CASE e \in lapsed
  BY <1>3 DEF Spent
<1>4. CASE e \notin lapsed
  <2>1. PICK i \in DOMAIN s.titles : s.titles[i] = e /\ i <= position[s.name]
    BY <1>4 DEF Spent
  <2>2. i <= position'[s.name]
    BY <1>1, <1>2, <2>1
  <2>3. QED
    BY <2>1, <2>2 DEF Spent
<1>5. QED
  BY <1>3, <1>4

\* So do the entries of the rides sent.
LEMMA SentStays ==
  ASSUME LogInv, SeriesAreListed, SentIsSpent, UNCHANGED <<sent, shown>>,
         lapsed \subseteq lapsed',
         position' \in [SeriesNames -> Nat],
         \A n \in SeriesNames : position[n] <= position'[n]
  PROVE  SentIsSpent'
<1> SUFFICES ASSUME NEW r \in Ride, NEW e \in Entries(shown[r]),
                    Claims(shown[r], sent[r], e), ~Nested(shown[r], e)
             PROVE  Spent(shown[r], e)'
  BY DEF SentIsSpent, Spent
<1>1. Spent(shown[r], e)
  BY DEF SentIsSpent
<1>2. PICK s : s = shown[r]
  OBVIOUS
<1>3. Listed(s) /\ Spent(s, e)
  BY <1>1, <1>2, EntryIsListed DEF SeriesAreListed
<1>4. Spent(s, e)'
  BY <1>3, SpentStays
<1>5. QED
  BY <1>2, <1>4 DEF Spent

\* A ride that is done with, or given up, leaves nothing in hand.
LEMMA NothingInHand ==
  ASSUME Idle
  PROVE  InHand'
<1>1. /\ pc' = "idle" /\ ~used' /\ context'.offer = NoTitle
  BY NoEntries
<1>2. OfferIsNext'
  BY <1>1 DEF OfferIsNext
<1>3. TitleClaimsTheOffer' /\ UseIsRecorded'
  BY <1>1 DEF TitleClaimsTheOffer, UseIsRecorded
<1>4. QED
  BY <1>2, <1>3 DEF InHand

\* Rows, documents and caches are nothing to it.
LEMMA HandIsHeld ==
  ASSUME InHand, UNCHANGED <<position, naming, sent, shown, lapsed, carried>>
  PROVE  InHand'
<1>1. OfferIsNext'
  BY DEF InHand, OfferIsNext
<1>2. TitleClaimsTheOffer'
  BY DEF InHand, TitleClaimsTheOffer
<1>3. UseIsRecorded'
  BY DEF InHand, UseIsRecorded, Spent
<1>4. QED
  BY <1>1, <1>2, <1>3 DEF InHand

\* What is gathered offers nothing yet.
LEMMA GatherInHand ==
  ASSUME LogInv, NEW r \in Ride, Gather(r)
  PROVE  InHand'
<1>1. PICK name, taught : context' = PromptContext(name, taught)
  BY DEF Gather
<1>2. context'.offer = NoTitle
  BY <1>1 DEF PromptContext, NoContext
<1>3. pc' = "offer" /\ ~used'
  BY DEF Gather, LogInv, TypeOK
<1>4. QED
  BY <1>2, <1>3 DEF InHand, OfferIsNext, TitleClaimsTheOffer, UseIsRecorded

\* franchiseNext: what is offered is the next entry but for reserved ones.
LEMMA OfferInHand ==
  ASSUME LogInv, SeriesAreListed, InHand, Offer
  PROVE  InHand'
<1>1. /\ pc = "offer" /\ pc' = "ask" /\ call' = 1 /\ ~used' /\ UNCHANGED position
      /\ context.offer = NoTitle /\ DOMAIN context = DOMAIN NoContext
      /\ position \in [SeriesNames -> Nat]
  BY DEF Offer, LogInv, TypeOK, InHand, OfferIsNext
<1>2. PICK p \in Profiles :
        LET series == FranchiseFor(p[1], context.gear)
            next == {i \in NextIndex(series, position[series.name]) :
                       Offerable(series.titles[i + 1])}
        IN  \/ context' = [context EXCEPT !.series = series]
            \/ /\ series # NoSeries
               /\ \E i \in next :
                    context' = [context EXCEPT !.series = series, !.index = i,
                                               !.offer = series.titles[i + 1]]
  BY DEF Offer
<1> DEFINE series == FranchiseFor(p[1], context.gear)
           next == {i \in NextIndex(series, position[series.name]) :
                      Offerable(series.titles[i + 1])}
<1>3. series = NoSeries \/ Listed(series)
  BY ProfilesAreListed, FoundIsListed
<1>4. {"series", "index", "offer"} \subseteq DOMAIN context
  BY <1>1 DEF NoContext
<1>5. CASE context' = [context EXCEPT !.series = series]
  <2>1. context'.offer = NoTitle
    BY <1>1, <1>4, <1>5
  <2>2. QED
    BY <1>1, <2>1 DEF InHand, OfferIsNext, TitleClaimsTheOffer, UseIsRecorded
<1>6. CASE /\ series # NoSeries
           /\ \E i \in next :
                context' = [context EXCEPT !.series = series, !.index = i,
                                           !.offer = series.titles[i + 1]]
  <2>1. PICK i \in next :
          context' = [context EXCEPT !.series = series, !.index = i,
                                     !.offer = series.titles[i + 1]]
    BY <1>6
  <2>2. i \in NextIndex(series, position[series.name])
    OBVIOUS
  <2>3. PICK s : s = series
    OBVIOUS
  <2> HIDE DEF series, next
  <2>4. /\ context'.series = s /\ context'.index = i /\ context'.offer = s.titles[i + 1]
    BY <1>4, <2>1, <2>3
  <2>5. /\ Listed(s) /\ s # NoSeries /\ s.name \in SeriesNames
        /\ Len(s.titles) \in Nat /\ DOMAIN s.titles = 1..Len(s.titles)
    BY <1>3, <1>6, <2>3, ListedIsSeries
  <2>6. position[s.name] \in Nat
    BY <1>1, <2>5
  <2>7. /\ i \in position[s.name]..(Len(s.titles) - 1)
        /\ \A j \in position[s.name]..(i - 1) : IsReserved(s, s.titles[j + 1])
    BY <2>2, <2>3 DEF NextIndex
  <2>8. i + 1 \in DOMAIN s.titles /\ position[s.name] <= i
    BY <2>5, <2>6, <2>7
  <2>9. ASSUME NEW j \in (position[s.name] + 1)..i PROVE IsReserved(s, s.titles[j])
    <3>1. j - 1 \in position[s.name]..(i - 1) /\ (j - 1) + 1 = j
      BY <2>6, <2>7
    <3>2. QED
      BY <2>7, <3>1
  <2>10. OfferIsNext'
    BY <1>1, <2>4, <2>5, <2>8, <2>9 DEF OfferIsNext
  <2>11. TitleClaimsTheOffer' /\ UseIsRecorded'
    BY <1>1 DEF TitleClaimsTheOffer, UseIsRecorded
  <2>12. QED
    BY <2>10, <2>11 DEF InHand
<1>7. QED
  BY <1>2, <1>5, <1>6

\* A title taken, or kept for the next attempt, claims what it may.
LEMMA TakenInHand ==
  ASSUME InHand, pc = "ask", pc' \in {"ask", "record"},
         UNCHANGED <<position, context, sent, shown, lapsed, carried>>,
         used' => context.offer # NoTitle,
         \A e \in Entries(context.series) :
           Claims(context.series, title', e) =>
             Nested(context.series, e) \/ (used' /\ e = context.offer)
  PROVE  InHand'
<1>1. OfferIsNext'
  BY DEF InHand, OfferIsNext
<1>2. TitleClaimsTheOffer'
  BY DEF TitleClaimsTheOffer
<1>3. UseIsRecorded'
  BY DEF UseIsRecorded
<1>4. QED
  BY <1>1, <1>2, <1>3 DEF InHand

\* complete: the evidence that a title uses the entry on offer is at least what
\* the guard takes for a claim.
LEMMA AnsweredInHand ==
  ASSUME SeriesAreListed, InHand, Answered
  PROVE  InHand'
<1>1. PICK t \in Answers(call) :
        IF call = 3 \/ context.offer = NoTitle THEN Take(t, FALSE)
        ELSE IF UsesOffer(t) THEN Take(t, TRUE)
        ELSE TryAgain(t)
  BY DEF Answered
<1>2. /\ pc = "ask" /\ pc' \in {"ask", "record"} /\ title' = t
      /\ UNCHANGED <<position, context, sent, shown, lapsed, carried>>
  BY <1>1 DEF Answered, Take, TryAgain
<1>3. \/ Take(t, FALSE) /\ (call = 3 \/ context.offer = NoTitle)
      \/ Take(t, TRUE) /\ context.offer # NoTitle
      \/ TryAgain(t) /\ ~UsesOffer(t) /\ context.offer # NoTitle
  BY <1>1
<1>4. ASSUME NEW e \in Entries(context.series), Claims(context.series, t, e)
      PROVE  /\ call # 3 /\ context.offer # NoTitle
             /\ e # context.offer => Nested(context.series, e)
             /\ e = context.offer => UsesOffer(t)
  <2>1. call # 3 /\ context.offer # NoTitle /\ Claims(context.series, context.offer, e)
    BY <1>4, AnswerClaims
  <2>2. context.offer \in Entries(context.series)
    BY <2>1 DEF InHand, OfferIsNext, Entries, Range
  <2>3. e # context.offer => Nested(context.series, e)
    BY <2>1, <2>2 DEF Nested
  <2>4. e \in Seq(Range(e))
    <3>1. Listed(context.series)
      BY EntryIsListed DEF SeriesAreListed
    <3>2. QED
      BY <3>1, ListedIsSeries DEF Entries
  <2>5. UsesEntry(t, e)
    BY <1>4, <2>4, ClaimIsUse
  <2>6. QED
    BY <2>1, <2>3, <2>5 DEF UsesOffer
<1>5. CASE Take(t, FALSE) /\ (call = 3 \/ context.offer = NoTitle)
  BY <1>2, <1>4, <1>5, TakenInHand DEF Take
<1>6. CASE Take(t, TRUE) /\ context.offer # NoTitle
  BY <1>2, <1>4, <1>6, TakenInHand DEF Take
<1>7. CASE TryAgain(t) /\ ~UsesOffer(t) /\ context.offer # NoTitle
  BY <1>2, <1>4, <1>7, TakenInHand DEF TryAgain
<1>8. QED
  BY <1>3, <1>5, <1>6, <1>7

\* A later call that fails keeps the title in hand, which was not taken for a use
\* of the entry.
LEMMA UnansweredInHand ==
  ASSUME LogInv, InHand, Unanswered
  PROVE  InHand'
<1>1. CASE call = 1
  BY <1>1, NothingInHand DEF Unanswered
<1>2. CASE call # 1
  <2>1. /\ pc = "ask" /\ call > 1 /\ ~used
    BY <1>2 DEF Unanswered, LogInv, TypeOK
  <2>2. /\ pc' = "record" /\ title' = title /\ ~used'
        /\ UNCHANGED <<position, context, sent, shown, lapsed, carried>>
    BY <1>2 DEF Unanswered, Take
  <2>3. \A e \in Entries(context.series) :
          Claims(context.series, title, e) => Nested(context.series, e)
    BY <2>1 DEF InHand, TitleClaimsTheOffer
  <2>4. QED
    BY <2>1, <2>2, <2>3, TakenInHand
<1>3. QED
  BY <1>1, <1>2

\* The row of a title that uses the entry is evidence of the use.
LEMMA RecordInHand ==
  ASSUME LogInv, InHand, Record
  PROVE  InHand'
<1>1. /\ pc = "record" /\ pc' = (IF used THEN "advance" ELSE "put")
      /\ carried' = carried \cup {e \in Entries(context.series) : UsesEntry(title, e)}
      /\ UNCHANGED <<position, context, title, used, call, sent, shown, lapsed>>
      /\ used \in BOOLEAN
  BY DEF Record, MarkNamed, LogInv, TypeOK
<1>2. OfferIsNext'
  BY <1>1 DEF InHand, OfferIsNext
<1>3. TitleClaimsTheOffer'
  BY <1>1 DEF InHand, TitleClaimsTheOffer
<1>4. used => UsesEntry(title, context.offer) /\ context.offer # NoTitle
  BY DEF LogInv, TypeOK, InHand, UseIsRecorded
<1>5. used => context.offer \in Entries(context.series)
  BY <1>4 DEF InHand, OfferIsNext, Entries, Range
<1>6. used => context.offer \in carried'
  BY <1>1, <1>4, <1>5
<1>7. UseIsRecorded'
  BY <1>1, <1>4, <1>6 DEF UseIsRecorded
<1>8. QED
  BY <1>2, <1>3, <1>7 DEF InHand

\* What is in hand as the position moves past the entry used.
LEMMA AdvanceFacts ==
  ASSUME LogInv, SeriesAreListed, InHand, pc = "advance"
  PROVE  /\ used /\ context.offer # NoTitle /\ context.offer \in carried
         /\ Listed(context.series) /\ context.series.name \in SeriesNames
         /\ context.index \in Nat /\ position[context.series.name] \in Nat
         /\ context.index + 1 \in DOMAIN context.series.titles
         /\ context.offer = context.series.titles[context.index + 1]
         /\ position[context.series.name] <= context.index
         /\ \A i \in (position[context.series.name] + 1)..context.index :
              IsReserved(context.series, context.series.titles[i])
<1>1. used /\ context.offer # NoTitle /\ context.offer \in carried
  BY DEF InHand, UseIsRecorded
<1>2. Listed(context.series)
  BY <1>1 DEF InHand, OfferIsNext, SeriesAreListed
<1>3. context.series.name \in SeriesNames
  BY <1>2, ListedIsSeries
<1>4. context.index \in Nat /\ position[context.series.name] \in Nat
  BY <1>3 DEF LogInv, TypeOK
<1>5. QED
  BY <1>1, <1>2, <1>3, <1>4 DEF InHand, OfferIsNext

\* AdvanceFranchisePast: the position is past the entry, and every other where it
\* was.
LEMMA PositionMoves ==
  ASSUME LogInv, SeriesAreListed, InHand, RecordFranchise
  PROVE  /\ position' \in [SeriesNames -> Nat]
         /\ position'[context.series.name] = context.index + 1
         /\ \A n \in SeriesNames :
              n # context.series.name => position'[n] = position[n]
         /\ \A n \in SeriesNames : position[n] <= position'[n]
<1> DEFINE name == context.series.name
           i == context.index
<1>1. /\ name \in SeriesNames /\ i \in Nat /\ position[name] \in Nat /\ position[name] <= i
  BY AdvanceFacts DEF RecordFranchise
<1>2. position \in [SeriesNames -> Nat]
  BY DEF LogInv, TypeOK
<1>3. position' = [position EXCEPT ![name] = IF i + 1 > @ THEN i + 1 ELSE @]
  BY DEF RecordFranchise, AdvanceFranchisePast
<1> HIDE DEF name, i
<1>4. i + 1 > position[name] /\ i + 1 \in Nat
  BY <1>1
<1>5. position' = [position EXCEPT ![name] = i + 1]
  BY <1>3, <1>4
<1>6. /\ position' \in [SeriesNames -> Nat] /\ position'[name] = i + 1
      /\ \A n \in SeriesNames : n # name => position'[n] = position[n]
  BY <1>1, <1>2, <1>4, <1>5
<1>7. \A n \in SeriesNames : position[n] <= position'[n]
  BY <1>1, <1>2, <1>4, <1>6
<1>8. QED
  BY <1>6, <1>7 DEF name, i

\* An entry that is about to be spent was sent with no ride yet: it has one place,
\* which the position has not passed.
LEMMA NotSentYet ==
  ASSUME EntriesKeepTheirPlace, LogInv, SeriesAreListed, InHand, SentIsSpent,
         pc = "advance", NEW r \in Ride, context.offer \in Entries(shown[r]),
         Claims(shown[r], sent[r], context.offer)
  PROVE  Nested(shown[r], context.offer) \/ context.offer \in lapsed
<1> SUFFICES ASSUME ~Nested(shown[r], context.offer), context.offer \notin lapsed
             PROVE  FALSE
  OBVIOUS
<1>1. PICK i \in DOMAIN shown[r].titles :
        shown[r].titles[i] = context.offer /\ i <= position[shown[r].name]
  BY DEF SentIsSpent, Spent
<1>2. Listed(shown[r])
  BY EntryIsListed DEF SeriesAreListed
<1>3. /\ Listed(context.series) /\ context.index + 1 \in DOMAIN context.series.titles
      /\ context.offer = context.series.titles[context.index + 1]
      /\ position[context.series.name] <= context.index
      /\ context.index \in Nat /\ position[context.series.name] \in Nat
  BY AdvanceFacts
<1>4. shown[r].name = context.series.name /\ i = context.index + 1
  BY <1>1, <1>2, <1>3, OnePlace
<1>5. QED
  BY <1>1, <1>3, <1>4

\* The position moves past the entry, or the store fails and the entry lapses.
LEMMA AdvanceInHand ==
  ASSUME EntriesKeepTheirPlace, LogInv, SeriesAreListed, InHand, SentIsSpent,
         RecordFranchise \/ RecordFranchiseFails
  PROVE  InHand'
<1>1. /\ pc = "advance" /\ pc' = "put" /\ UNCHANGED <<context, title, used, sent, shown>>
      /\ lapsed \subseteq lapsed'
  BY DEF RecordFranchise, RecordFranchiseFails
<1>2. /\ used /\ context.offer # NoTitle /\ Listed(context.series)
      /\ context.index \in Nat
      /\ context.index + 1 \in DOMAIN context.series.titles
      /\ context.offer = context.series.titles[context.index + 1]
  BY <1>1, AdvanceFacts
<1>3. TitleClaimsTheOffer'
  BY <1>1 DEF InHand, TitleClaimsTheOffer
<1>4. ASSUME NEW r \in Ride, context.offer \in Entries(shown[r]),
             Claims(shown[r], sent[r], context.offer)
      PROVE  Nested(shown[r], context.offer) \/ context.offer \in lapsed'
  BY <1>1, <1>4, NotSentYet
<1>5. CASE RecordFranchise
  <2>1. position'[context.series.name] = context.index + 1
    BY <1>5, PositionMoves
  <2>2. Spent(context.series, context.offer)'
    <3>1. context.index + 1 <= position'[context.series.name]
      BY <1>2, <2>1
    <3>2. QED
      BY <1>1, <1>2, <3>1 DEF Spent
  <2>3. OfferIsNext'
    <3>1. ~\E i \in (position'[context.series.name] + 1)..context.index : TRUE
      BY <1>2, <2>1
    <3>2. QED
      BY <1>1, <1>2, <3>1 DEF InHand, OfferIsNext
  <2>4. UseIsRecorded'
    BY <1>1, <1>2, <1>4, <2>2 DEF UseIsRecorded
  <2>5. QED
    BY <1>3, <2>3, <2>4 DEF InHand
<1>6. CASE RecordFranchiseFails
  <2>1. UNCHANGED position /\ context.offer \in lapsed'
    BY <1>6 DEF RecordFranchiseFails
  <2>2. OfferIsNext'
    BY <1>1, <2>1 DEF InHand, OfferIsNext
  <2>3. UseIsRecorded'
    BY <1>1, <1>2, <1>4, <2>1 DEF UseIsRecorded, Spent
  <2>4. QED
    BY <1>3, <2>2, <2>3 DEF InHand
<1>7. QED
  BY <1>5, <1>6

\* What a title that is sent claims is spent, and was sent with no other ride.
LEMMA SentClaims ==
  ASSUME InHand, pc = "put", NEW e \in Entries(context.series),
         Claims(context.series, title, e), ~Nested(context.series, e)
  PROVE  /\ Spent(context.series, e)
         /\ \A r \in Ride :
              e \in Entries(shown[r]) /\ Claims(shown[r], sent[r], e)
                => Nested(shown[r], e) \/ e \in lapsed
<1>1. used /\ e = context.offer
  BY DEF InHand, TitleClaimsTheOffer
<1>2. QED
  BY <1>1 DEF InHand, UseIsRecorded

\* What a ride is sent with, whether the answer comes or not.
LEMMA PutSends ==
  ASSUME LogInv, SeriesAreListed, Put \/ PutUnanswered
  PROVE  /\ pc = "put" /\ ride \in Ride
         /\ Idle \/ (pc' = "keep" /\ UNCHANGED <<ride, context, title, call, used>>)
         /\ UNCHANGED <<position, lapsed, carried, withheld>>
         /\ sent'[ride] = title /\ shown'[ride] = context.series
         /\ \A r \in Ride \ {ride} : sent'[r] = sent[r] /\ shown'[r] = shown[r]
<1>1. pc = "put" /\ ride \in Ride /\ DOMAIN sent = Ride /\ DOMAIN shown = Ride
  BY DEF Put, PutUnanswered, LogInv, TypeOK, SeriesAreListed
<1>2. /\ sent' = [sent EXCEPT ![ride] = title]
      /\ shown' = [shown EXCEPT ![ride] = context.series]
      /\ UNCHANGED <<position, lapsed, carried, withheld>>
  BY DEF Put, PutUnanswered, SendTitle
<1>3. Idle \/ (pc' = "keep" /\ UNCHANGED <<ride, context, title, call, used>>)
  BY DEF Put, PutUnanswered
<1>4. QED
  BY <1>1, <1>2, <1>3

\* Once it is sent, a title that waits for the row to follow Strava promises nothing.
LEMMA SentInHand ==
  ASSUME InHand, pc = "put", pc' = "keep",
         UNCHANGED <<position, lapsed, carried, ride, context, title, call, used>>
  PROVE  InHand'
<1>1. OfferIsNext'
  BY DEF InHand, OfferIsNext
<1>2. TitleClaimsTheOffer' /\ UseIsRecorded'
  BY DEF InHand, TitleClaimsTheOffer, UseIsRecorded
<1>3. QED
  BY <1>1, <1>2 DEF InHand

\* Every step leaves what is in hand, and what was sent, as it is described.
LEMMA HandStep ==
  ASSUME EntriesKeepTheirPlace, LogInv, LogInv', EntriesAreSpent, [Next]_vars
  PROVE  EntriesAreSpent'
<1>1. SeriesAreListed /\ InHand /\ SentIsSpent
  BY DEF EntriesAreSpent, InHand
<1>2. SeriesAreListed'
  BY <1>1, SeriesStep
<1>3. position \in [SeriesNames -> Nat] /\ position' \in [SeriesNames -> Nat]
  <2>1. SeriesNames' = SeriesNames
    BY DEF SeriesNames, Lists
  <2>2. QED
    BY <2>1 DEF LogInv, TypeOK
<1>4. ASSUME UNCHANGED <<position, sent, shown, lapsed>>
      PROVE  SentIsSpent'
  BY <1>1, <1>3, <1>4, SentStays
<1>5. ASSUME InHand', SentIsSpent' PROVE EntriesAreSpent'
  BY <1>2, <1>5 DEF EntriesAreSpent, InHand
<1>6. CASE \E r \in Ride : Gather(r)
  <2>1. InHand'
    BY <1>6, GatherInHand
  <2>2. UNCHANGED <<position, sent, shown, lapsed>>
    BY <1>6 DEF Gather
  <2>3. QED
    BY <1>4, <1>5, <2>1, <2>2
<1>7. CASE Offer
  BY <1>1, <1>4, <1>5, <1>7, OfferInHand DEF Offer
<1>8. CASE Answered
  BY <1>1, <1>4, <1>5, <1>8, AnsweredInHand DEF Answered
<1>9. CASE Unanswered
  BY <1>1, <1>4, <1>5, <1>9, UnansweredInHand DEF Unanswered
<1>10. CASE Record
  BY <1>1, <1>4, <1>5, <1>10, RecordInHand DEF Record
<1>11. CASE RecordFails \/ PutFails \/ KeepStoredTitle \/ KeepStoredTitleFails \/ Restart
  <2>1. Idle /\ UNCHANGED <<position, sent, shown, lapsed>>
    BY <1>11
    DEF RecordFails, PutFails, KeepStoredTitle, KeepStoredTitleFails, Restart, history
  <2>2. InHand'
    BY <2>1, NothingInHand
  <2>3. QED
    BY <1>4, <1>5, <2>1, <2>2
<1>12. CASE RecordFranchise
  <2>1. InHand'
    BY <1>1, <1>12, AdvanceInHand
  <2>2. SentIsSpent'
    BY <1>1, <1>3, <1>12, PositionMoves, SentStays DEF RecordFranchise
  <2>3. QED
    BY <1>5, <2>1, <2>2
<1>13. CASE RecordFranchiseFails
  <2>1. InHand'
    BY <1>1, <1>13, AdvanceInHand
  <2>2. \A n \in SeriesNames : position[n] <= position'[n]
    BY <1>3, <1>13 DEF RecordFranchiseFails
  <2>3. SentIsSpent'
    BY <1>1, <1>3, <1>13, <2>2, SentStays DEF RecordFranchiseFails
  <2>4. QED
    BY <1>5, <2>1, <2>3
<1>14. CASE Put \/ PutUnanswered
  <2>1. /\ pc = "put" /\ ride \in Ride /\ UNCHANGED <<position, lapsed>>
        /\ sent'[ride] = title /\ shown'[ride] = context.series
        /\ \A r \in Ride \ {ride} : sent'[r] = sent[r] /\ shown'[r] = shown[r]
    BY <1>1, <1>14, PutSends
  <2>2. InHand'
    BY <1>1, <1>14, PutSends, NothingInHand, SentInHand
  <2>3. ASSUME NEW r \in Ride, NEW e \in Entries(shown'[r]),
               Claims(shown'[r], sent'[r], e), ~Nested(shown'[r], e)
        PROVE  e \in lapsed' \/ \E i \in DOMAIN shown'[r].titles :
                 shown'[r].titles[i] = e /\ i <= position'[shown'[r].name]
    <3>1. CASE r = ride
      BY <1>1, <2>1, <2>3, <3>1, SentClaims DEF Spent
    <3>2. CASE r # ride
      BY <1>1, <2>1, <2>3, <3>2 DEF SentIsSpent, Spent
    <3>3. QED
      BY <3>1, <3>2
  <2>4. SentIsSpent'
    BY <2>3 DEF SentIsSpent, Spent
  <2>5. QED
    BY <1>5, <2>2, <2>4
<1>15. CASE \/ \E r \in Ride : NameFromTemplate(r) \/ RecordHumanTitle(r) \/ Import(r)
            \/ SeedConfig \/ EditConfig \/ UNCHANGED vars
  <2>1. UNCHANGED <<position, naming, sent, shown, lapsed, carried>>
    BY <1>15 DEF NameFromTemplate, RecordHumanTitle, Import, SeedConfig, EditConfig,
                 WriteDocument, vars
  <2>2. InHand'
    BY <1>1, <2>1, HandIsHeld
  <2>3. QED
    BY <1>4, <1>5, <2>1, <2>2
<1>16. QED
  BY <1>6, <1>7, <1>8, <1>9, <1>10, <1>11, <1>12, <1>13, <1>14, <1>15 DEF Next
-----------------------------------------------------------------------------
(* What the entries are spent on.                                          *)

\* The first process has sent nothing, and has nothing in hand.
LEMMA InitSpent == Init => EntriesAreSpent
<1> SUFFICES ASSUME Init PROVE EntriesAreSpent
  OBVIOUS
<1>1. /\ doc = NoDocument /\ profile = NotRead /\ pc = "idle" /\ ~used
      /\ context.series = NoSeries /\ context.offer = NoTitle
      /\ DOMAIN shown = Ride /\ \A r \in Ride : shown[r] = NoSeries
  BY NoEntries DEF Init
<1>2. SeriesAreListed
  BY <1>1 DEF SeriesAreListed
<1>3. OfferIsNext /\ TitleClaimsTheOffer /\ UseIsRecorded
  BY <1>1 DEF OfferIsNext, TitleClaimsTheOffer, UseIsRecorded
<1>4. SentIsSpent
  BY <1>1, NoEntries DEF SentIsSpent
<1>5. QED
  BY <1>2, <1>3, <1>4 DEF EntriesAreSpent

\* Two rides that were sent with one entry: the second was sent by this step, and
\* what it claims was sent with no other (complete, Guard, recordFranchise).
LEMMA SentOnceStep ==
  ASSUME LogInv, EntriesAreSpent, EntrySentOnce, [Next]_vars
  PROVE  EntrySentOnce'
<1>1. SeriesAreListed /\ InHand
  BY DEF EntriesAreSpent, InHand
<1>2. CASE Put \/ PutUnanswered
  <2>1. /\ pc = "put" /\ ride \in Ride /\ lapsed' = lapsed
        /\ sent'[ride] = title /\ shown'[ride] = context.series
        /\ \A r \in Ride \ {ride} : sent'[r] = sent[r] /\ shown'[r] = shown[r]
    BY <1>1, <1>2, PutSends
  <2>2. ASSUME NEW s \in Ride \ {ride}, NEW e \in Entries(context.series) \cap Entries(shown[s]),
               Claims(context.series, title, e), Claims(shown[s], sent[s], e)
        PROVE  Nested(context.series, e) \/ Nested(shown[s], e) \/ e \in lapsed
    BY <1>1, <2>1, <2>2, SentClaims
  <2>3. ASSUME NEW r \in Ride, NEW s \in Ride, r < s,
               NEW e \in Entries(shown'[r]) \cap Entries(shown'[s]),
               Claims(shown'[r], sent'[r], e), Claims(shown'[s], sent'[s], e)
        PROVE  Nested(shown'[r], e) \/ Nested(shown'[s], e) \/ e \in lapsed'
    <3> r # s
      BY <2>3, NamingAssumption
    <3>1. CASE r = ride
      BY <2>1, <2>2, <2>3, <3>1
    <3>2. CASE s = ride
      BY <2>1, <2>2, <2>3, <3>2
    <3>3. CASE r # ride /\ s # ride
      BY <2>1, <2>3, <3>3 DEF EntrySentOnce
    <3>4. QED
      BY <3>1, <3>2, <3>3
  <2>4. QED
    BY <2>3 DEF EntrySentOnce
<1>3. CASE ~Put /\ ~PutUnanswered
  <2>1. UNCHANGED <<sent, shown>> /\ lapsed \subseteq lapsed'
    BY <1>3
    DEF Next, vars, Gather, NameFromTemplate, RecordHumanTitle, Import, Offer, Answered,
        Unanswered, Record, RecordFails, RecordFranchise, RecordFranchiseFails,
        PutFails, KeepStoredTitle, KeepStoredTitleFails, 
        SeedConfig, EditConfig, WriteDocument, Restart
  <2>2. QED
    BY <2>1 DEF EntrySentOnce
<1>4. QED
  BY <1>2, <1>3

\* What the positions have passed, in every list a series may come from.
PassedOnSpent ==
  \A list \in Lists : \A k \in DOMAIN list : \A i \in 1..position[list[k].name] :
    i <= Len(list[k].titles) => list[k].titles[i] \in carried \cup withheld

\* recordFranchise: between the old position and the new one are reserved entries
\* and, last, the one the title of the row uses.
LEMMA PassedByOne ==
  ASSUME EntriesKeepTheirPlace, LogInv, SeriesAreListed, InHand, PassedOnSpent,
         RecordFranchise, NEW list \in Lists, NEW k \in DOMAIN list,
         NEW i \in 1..position'[list[k].name], i <= Len(list[k].titles)
  PROVE  list[k].titles[i] \in carried' \cup withheld'
<1> DEFINE s == list[k]
           own == context.series
<1>1. /\ carried' = carried /\ withheld' = withheld \cup own.reserved /\ pc = "advance"
  BY DEF RecordFranchise
<1>2. /\ context.offer \in carried /\ Listed(own) /\ own.name \in SeriesNames
      /\ context.index \in Nat /\ position[own.name] \in Nat
      /\ context.index + 1 \in DOMAIN own.titles
      /\ context.offer = own.titles[context.index + 1]
      /\ \A j \in (position[own.name] + 1)..context.index : IsReserved(own, own.titles[j])
  BY <1>1, AdvanceFacts
<1>3. /\ Listed(s) /\ s.name \in SeriesNames
      /\ Len(s.titles) \in Nat /\ DOMAIN s.titles = 1..Len(s.titles)
      /\ Len(own.titles) \in Nat /\ DOMAIN own.titles = 1..Len(own.titles)
  BY <1>2, ListsAreListed, ListedIsSeries
<1>4. /\ position'[own.name] = context.index + 1
      /\ s.name # own.name => position'[s.name] = position[s.name]
      /\ position[s.name] \in Nat /\ position'[s.name] \in Nat
  BY <1>3, PositionMoves DEF LogInv, TypeOK
<1>5. CASE i \in 1..position[s.name]
  BY <1>1, <1>5 DEF PassedOnSpent
<1>6. CASE i \notin 1..position[s.name]
  <2>1. s.name = own.name /\ i \in (position[own.name] + 1)..(context.index + 1)
    BY <1>2, <1>4, <1>6
  <2>2. i \in DOMAIN s.titles /\ i \in DOMAIN own.titles
    BY <1>2, <1>3, <2>1
  <2>3. s.titles[i] = own.titles[i]
    BY <1>2, <1>3, <2>1, <2>2, OnePlace
  <2>4. CASE i = context.index + 1
    BY <1>1, <1>2, <2>3, <2>4
  <2>5. CASE i # context.index + 1
    <3>1. i \in (position[own.name] + 1)..context.index
      BY <1>2, <2>1, <2>5
    <3>2. own.titles[i] \in own.reserved
      BY <1>2, <3>1 DEF IsReserved
    <3>3. QED
      BY <1>1, <2>3, <3>2
  <2>6. QED
    BY <2>4, <2>5
<1>7. QED
  BY <1>5, <1>6

\* Every step passes what is spent, or passes nothing.
LEMMA PassedStep ==
  ASSUME EntriesKeepTheirPlace, LogInv, EntriesAreSpent, PassedOnSpent, [Next]_vars
  PROVE  PassedOnSpent'
<1>1. SeriesAreListed /\ InHand
  BY DEF EntriesAreSpent, InHand
<1>2. CASE RecordFranchise
  BY <1>1, <1>2, PassedByOne DEF PassedOnSpent, Lists
<1>3. CASE ~RecordFranchise
  <2>1. UNCHANGED <<position, withheld>> /\ carried \subseteq carried'
    BY <1>3
    DEF Next, vars, Gather, NameFromTemplate, RecordHumanTitle, Import, Offer, Answered,
        Unanswered, Record, RecordFails, MarkNamed, RecordFranchiseFails, Put,
        PutUnanswered, PutFails, KeepStoredTitle, KeepStoredTitleFails, SendTitle,
        SeedConfig, EditConfig, WriteDocument, Restart
  <2>2. QED
    BY <2>1 DEF PassedOnSpent, Lists
<1>4. QED
  BY <1>2, <1>3

\* The document in force holds series of the lists, so nothing of it was skipped.
LEMMA PassedIsSkipped == SeriesAreListed /\ PassedOnSpent => NothingSkipped
<1> SUFFICES ASSUME SeriesAreListed, PassedOnSpent, NEW s \in AllSeries,
                    NEW i \in 1..position[s.name], i <= Len(s.titles)
             PROVE  s.titles[i] \in carried \cup withheld
  BY DEF NothingSkipped
<1>1. Listed(s)
  BY ListsAreListed DEF AllSeries, SeriesAreListed, Range
<1>2. PICK list \in Lists : \E k \in DOMAIN list :
        s.name = list[k].name /\ s.titles = list[k].titles
  BY <1>1 DEF Listed
<1>3. QED
  BY <1>2 DEF PassedOnSpent

\* No position has passed anything yet.
LEMMA InitPassed == Init => PassedOnSpent
<1> SUFFICES ASSUME Init, NEW list \in Lists, NEW k \in DOMAIN list
             PROVE  position[list[k].name] = 0
  BY DEF PassedOnSpent
<1>1. list[k].name \in SeriesNames
  BY DEF SeriesNames
<1>2. QED
  BY <1>1 DEF Init
-----------------------------------------------------------------------------
(* Rows by their dates.                                                    *)

\* A finite set of naturals has a greatest element: drop elements of a smallest
\* set that has none.
LEMMA FiniteHasMax ==
  ASSUME NEW S \in SUBSET Nat, IsFiniteSet(S), S # {}
  PROVE  Max(S) \in S /\ \A x \in S : Max(S) >= x
<1> DEFINE Bounded(T) == \E n \in Nat : \A x \in T : x <= n
           Bad == {T \in SUBSET S : ~Bounded(T)}
           R == StrictSubsetOrdering(S)
<1>1. Bounded(S)
  <2>1. SUFFICES ASSUME ~Bounded(S) PROVE FALSE
    OBVIOUS
  <2>2. IsWellFoundedOn(R, SUBSET S)
    BY FS_StrictSubsetOrderingWellFounded, FS_FiniteSubsetsOfFinite
  <2>3. Bad \subseteq SUBSET S /\ Bad # {}
    BY <2>1
  <2>4. PICK T \in Bad : \A U \in Bad : ~(<<U, T>> \in R)
    <3> HIDE DEF Bad, R
    <3>1. QED
      BY <2>2, <2>3, WFMin
  <2>5. T # {}
    <3>1. T = {} => Bounded(T)
      BY 0 \in Nat
    <3>2. QED
      BY <3>1
  <2>6. PICK x \in T : TRUE
    BY <2>5
  <2>7. T \ {x} \in SUBSET S /\ <<T \ {x}, T>> \in R
    BY <2>6 DEF StrictSubsetOrdering
  <2>8. Bounded(T \ {x})
    BY <2>4, <2>7
  <2>9. PICK n \in Nat : \A y \in T \ {x} : y <= n
    BY <2>8
  <2>10. x \in Nat /\ \A y \in T : y \in Nat
    BY <2>4, <2>6
  <2>11. PICK m \in Nat : n <= m /\ x <= m
    BY <2>10
  <2>12. \A y \in T : y <= m
    BY <2>9, <2>10, <2>11
  <2>13. QED
    BY <2>4, <2>12
<1>2. PICK n \in Nat : \A x \in S : x <= n
  BY <1>1
<1>3. \E m \in S : \A x \in S : m >= x
  <2> DEFINE Bounds == {k \in Nat : \A x \in S : x <= k}
  <2>1. Bounds \subseteq Nat /\ Bounds # {}
    BY <1>2
  <2>2. PICK k \in Bounds : \A l \in Bounds : ~(<<l, k>> \in OpToRel(<, Nat))
    <3> HIDE DEF Bounds
    <3>1. QED
      BY <2>1, NatLessThanWellFounded, WFMin
  <2>3. k \in S
    <3>1. SUFFICES ASSUME k \notin S PROVE FALSE
      OBVIOUS
    <3>2. PICK y \in S : TRUE
      OBVIOUS
    <3>3. k \in Nat /\ \A x \in S : x \in Nat /\ x <= k
      OBVIOUS
    <3>4. \A x \in S : x <= k - 1
      BY <3>1, <3>3
    <3>5. k - 1 \in Nat
      BY <3>2, <3>3, <3>4
    <3>6. k - 1 \in Bounds /\ <<k - 1, k>> \in OpToRel(<, Nat)
      BY <3>3, <3>4, <3>5 DEF OpToRel
    <3>7. QED
      BY <2>2, <3>6
  <2>4. \A x \in S : k >= x
    BY <2>2
  <2>5. QED
    BY <2>3, <2>4
<1>4. QED
  BY <1>3 DEF Max

\* Of finitely many things told apart by a number, few have few above them.
LEMMA NewestAreFew ==
  ASSUME NEW R, IsFiniteSet(R), NEW at, NEW n \in Nat,
         \A r \in R : at[r] \in Nat,
         \A r \in R, s \in R : at[r] = at[s] => r = s
  PROVE  Few({r \in R : Cardinality({s \in R : at[s] > at[r]}) < n}, n)
<1> DEFINE above(r) == {s \in R : at[s] > at[r]}
           K == {r \in R : Cardinality(above(r)) < n}
           T == 0..(n - 1)
           f == [r \in K |-> Cardinality(above(r))]
<1>1. IsFiniteSet(T) /\ Cardinality(T) = n
  <2>1. IsFiniteSet(T) /\ Cardinality(T) = IF 0 > n - 1 THEN 0 ELSE n - 1 - 0 + 1
    BY FS_Interval
  <2>2. QED
    BY <2>1
<1>2. ASSUME NEW r \in R
      PROVE  IsFiniteSet(above(r)) /\ Cardinality(above(r)) \in Nat
  <2>1. above(r) \in SUBSET R
    OBVIOUS
  <2>2. QED
    BY <2>1, FS_Subset, FS_CardinalityType
<1>3. ASSUME NEW r \in R, NEW s \in R, at[r] < at[s]
      PROVE  Cardinality(above(r)) # Cardinality(above(s))
  <2>1. above(s) \in SUBSET above(r)
    BY <1>3
  <2>2. s \in above(r) /\ s \notin above(s)
    BY <1>3
  <2> HIDE DEF above
  <2>3. QED
    BY <1>2, <2>1, <2>2, FS_Subset
<1>4. f \in Injection(K, T)
  <2>1. f \in [K -> T]
    <3>1. ASSUME NEW r \in K PROVE Cardinality(above(r)) \in T
      <4>1. Cardinality(above(r)) \in Nat /\ Cardinality(above(r)) < n
        BY <1>2
      <4> HIDE DEF above
      <4>2. QED
        BY <4>1
    <3> HIDE DEF T, above
    <3>2. QED
      BY <3>1
  <2>2. ASSUME NEW r \in K, NEW s \in K, f[r] = f[s] PROVE r = s
    <3>1. r \in R /\ s \in R /\ Cardinality(above(r)) = Cardinality(above(s))
      BY <2>2
    <3>2. ~(at[r] < at[s]) /\ ~(at[s] < at[r])
      BY <1>3, <3>1
    <3>3. at[r] = at[s]
      BY <3>1, <3>2
    <3>4. QED
      BY <3>1, <3>3
  <2> HIDE DEF K, T, f
  <2>3. QED
    BY <2>1, <2>2, Fun_IsInj
<1>5. QED
  <2> HIDE DEF K, T, f
  <2>1. IsFiniteSet(K) /\ Cardinality(K) <= n
    BY <1>1, <1>4, FS_Injection
  <2>2. QED
    BY <2>1 DEF Few, K

\* The titles of few rides are few.
LEMMA TitlesAreFew ==
  ASSUME NEW R, NEW n \in Nat, Few(R, n), NEW f, NEW K \in SUBSET R
  PROVE  Few({f[r] : r \in K}, n)
<1> DEFINE T == {f[r] : r \in K}
           g == [r \in K |-> f[r]]
<1>1. IsFiniteSet(K) /\ Cardinality(K) <= Cardinality(R)
  BY FS_Subset DEF Few
<1>2. g \in Surjection(K, T)
  <2>1. g \in [K -> T] /\ \A t \in T : \E r \in K : g[r] = t
    OBVIOUS
  <2> HIDE DEF g, T
  <2>2. QED
    BY <2>1, Fun_IsSurj
<1>3. IsFiniteSet(T) /\ Cardinality(T) <= Cardinality(K)
  <2> HIDE DEF g, T
  <2>1. QED
    BY <1>1, <1>2, FS_Surjection
<1>4. Cardinality(T) \in Nat /\ Cardinality(K) \in Nat /\ Cardinality(R) \in Nat
  BY <1>1, <1>3, FS_CardinalityType DEF Few
<1>5. QED
  BY <1>1, <1>3, <1>4 DEF Few

\* The clock is later than every ride and every row but the one of the ride in
\* hand (named_at).
LEMMA NowIsLatest ==
  ASSUME LogInv, DatesDiffer, Ride # {}
  PROVE  /\ Now \in Nat /\ Now \notin Ride
         /\ \A r \in Ride \ {ride} : log[r].at \in Nat /\ log[r].at < Now
<1> DEFINE at == [r \in Ride |-> log[r].at]
           others == Ride \ {ride}
           dates == {at[r] : r \in others}
           S == Ride \cup dates
<1>1. \A r \in Ride : log[r].at \in Nat
  BY DEF DatesDiffer, Recorded, NoRow
<1>2. IsFiniteSet(Ride) /\ Ride \subseteq Nat
  BY NamingAssumption
<1>3. IsFiniteSet(dates)
  <2>1. Few(Ride, Cardinality(Ride)) /\ Cardinality(Ride) \in Nat
    BY <1>2, FS_CardinalityType DEF Few
  <2>2. others \in SUBSET Ride
    OBVIOUS
  <2> HIDE DEF at, others
  <2>3. QED
    BY <2>1, <2>2, TitlesAreFew DEF Few
<1>4. IsFiniteSet(S)
  <2> HIDE DEF dates
  <2>1. QED
    BY <1>2, <1>3, FS_Union
<1>5. S \in SUBSET Nat /\ S # {}
  BY <1>1, <1>2
<1>6. S = Ride \cup {log[r].at : r \in Ride \ {ride}}
  OBVIOUS
<1>7. Max(S) \in S /\ \A x \in S : Max(S) >= x
  <2> HIDE DEF S
  <2>1. QED
    BY <1>4, <1>5, FiniteHasMax
<1>8. /\ \A r \in Ride : r \in S
      /\ \A r \in Ride \ {ride} : log[r].at \in S
  BY <1>6
<1>9. Now = 1 + Max(S)
  BY <1>6 DEF Now
<1> HIDE DEF S
<1>10. Max(S) \in Nat /\ \A x \in S : x \in Nat /\ x <= Max(S)
  BY <1>5, <1>7
<1>11. Now \in Nat /\ \A x \in S : x < Now
  BY <1>9, <1>10
<1>12. QED
  BY <1>1, <1>8, <1>11, <1>10

\* A row is dated by its ride, or by the clock, which no row but the one in hand has
\* reached.
LEMMA RowIsDated ==
  ASSUME LogInv, DatesDiffer, NEW r \in Ride, NEW t, NEW source,
         NEW at, at = r \/ (at = Now /\ ride \in {r, 0}),
         log' = [log EXCEPT ![r] = Row(t, source, at)]
  PROVE  DatesDiffer'
<1>1. /\ DOMAIN log = Ride /\ Row(t, source, at).at = at
      /\ \A s \in Ride : log'[s] = IF s = r THEN Row(t, source, at) ELSE log[s]
  BY DEF LogInv, TypeOK, Row
<1>2. \A s \in Recorded' : s \in Ride /\ (s # r => s \in Recorded)
  BY <1>1 DEF Recorded
<1>3. at \in Nat /\ (at \in Ride => at = r)
  BY NowIsLatest, NamingAssumption
<1>4. \A s \in Recorded : s # r => log[s].at # at
  <2>1. CASE at = r
    BY <1>1, <2>1 DEF DatesDiffer, Recorded
  <2>2. CASE at = Now /\ ride \in {r, 0}
    <3>1. \A s \in Ride : s # r => s \in Ride \ {ride}
      BY <2>2, NamingAssumption
    <3>2. \A s \in Ride \ {ride} : log[s].at \in Nat /\ log[s].at < at
      BY <2>2, NowIsLatest
    <3>3. QED
      BY <1>3, <3>1, <3>2 DEF Recorded
  <2>3. QED
    BY <2>1, <2>2
<1>5. \A s \in Recorded' : log'[s].at = IF s = r THEN at ELSE log[s].at
  BY <1>1, <1>2
<1>6. QED
  BY <1>2, <1>3, <1>4, <1>5 DEF DatesDiffer

\* No two rows are of one date.
LEMMA DatesStep ==
  ASSUME LogInv, DatesDiffer, [Next]_vars
  PROVE  DatesDiffer'
<1>1. CASE log' = log
  BY <1>1 DEF DatesDiffer, Recorded
<1>2. CASE \E r \in Ride : NameFromTemplate(r)
  <2>1. PICK r \in Ride : log' = [log EXCEPT ![r] = Row(TemplateTitle, "template", Now)]
    BY <1>2 DEF NameFromTemplate
  <2>2. ride = 0
    BY <1>2 DEF NameFromTemplate, LogInv, TypeOK
  <2>3. QED
    BY <2>1, <2>2, RowIsDated
<1>3. CASE \E r \in Ride : RecordHumanTitle(r)
  <2>1. PICK r \in Ride : \E t \in OtherTitles(r) :
          log' = [log EXCEPT ![r] =
                    Row(t, IF log[r].source = "imported" THEN "imported" ELSE "human", r)]
    BY <1>3 DEF RecordHumanTitle
  <2>2. QED
    BY <2>1, RowIsDated
<1>4. CASE \E r \in Ride : Import(r)
  <2>1. PICK r \in Ride, t \in HumanTitles : log' = [log EXCEPT ![r] = Row(t, "imported", r)]
    BY <1>4 DEF Import
  <2>2. QED
    BY <2>1, RowIsDated
<1>5. CASE (Record \/ RecordFails) /\ log' # log
  <2>1. pc = "record" /\ log' = [log EXCEPT ![ride] = Row(title, "service", Now)]
    BY <1>5 DEF Record, RecordFails, MarkNamed
  <2>2. ride \in Ride
    BY <2>1 DEF LogInv, TypeOK
  <2>3. QED
    BY <2>1, <2>2, RowIsDated
<1>6. CASE KeepStoredTitle
  <2>1. log' = [log EXCEPT ![ride] = Row(Stored(title), "service", Now)] /\ ride \in Ride
    BY <1>6 DEF KeepStoredTitle, LogInv, TypeOK
  <2>2. QED
    BY <2>1, RowIsDated
<1>7. QED
  BY <1>1, <1>2, <1>3, <1>4, <1>5, <1>6
  DEF Next, vars, Gather, Offer, Answered, Unanswered, RecordFranchise,
      RecordFranchiseFails, Put, PutUnanswered, PutFails, KeepStoredTitleFails, SendTitle, SeedConfig, EditConfig, WriteDocument, Restart

\* RecentTitles returns no more rows than it is asked for.
LEMMA RecentAreFew ==
  ASSUME LogInv, DatesDiffer
  PROVE  Few(RecentTitles, RecentLimit) /\ RecentTitles \subseteq Recorded
<1> DEFINE at == [r \in Ride |-> log[r].at]
<1>1. IsFiniteSet(Recorded) /\ RecentLimit \in Nat
  <2>1. Recorded \in SUBSET Ride
    BY DEF Recorded
  <2>2. QED
    BY <2>1, NamingAssumption, FS_Subset
<1>2. \A r \in Recorded : at[r] = log[r].at /\ at[r] \in Nat
  BY DEF DatesDiffer, Recorded
<1>3. \A r \in Recorded, s \in Recorded : at[r] = at[s] => r = s
  BY <1>2 DEF DatesDiffer
<1>4. RecentTitles
        = {r \in Recorded : Cardinality({s \in Recorded : at[s] > at[r]}) < RecentLimit}
  <2>1. \A r \in Recorded : Newer(r) = {s \in Recorded : at[s] > at[r]}
    BY <1>2 DEF Newer
  <2> HIDE DEF at
  <2>2. QED
    BY <2>1 DEF RecentTitles
<1> HIDE DEF at
<1>5. QED
  BY <1>1, <1>2, <1>3, <1>4, NewestAreFew

\* examplesFrom builds no more examples than a prompt shows.
LEMMA ExamplesAreFew ==
  ASSUME LogInv, DatesDiffer, NEW rows \in SUBSET Recorded, NEW unread
  PROVE  Few(ExamplesFrom(rows, unread), ExampleCount)
<1> DEFINE at == [r \in Ride |-> log[r].at]
           failed(r) == r \in unread /\ examples[r] = NoTitle
           R == {r \in rows : ~failed(r)}
           K == {r \in R : Cardinality({s \in R : at[s] > at[r]}) < ExampleCount}
<1>1. IsFiniteSet(R) /\ ExampleCount \in Nat /\ R \subseteq Recorded
  <2>1. R \in SUBSET Ride
    BY DEF Recorded
  <2>2. QED
    BY <2>1, NamingAssumption, FS_Subset
<1>2. \A r \in R : at[r] = log[r].at /\ at[r] \in Nat
  BY <1>1 DEF DatesDiffer, Recorded
<1>3. \A r \in R, s \in R : at[r] = at[s] => r = s
  BY <1>1, <1>2 DEF DatesDiffer
<1>4. Few(K, ExampleCount)
  <2> HIDE DEF at, R
  <2>1. QED
    BY <1>1, <1>2, <1>3, NewestAreFew
<1>5. ExamplesFrom(rows, unread) \subseteq K
  <2> SUFFICES ASSUME NEW r \in ExamplesFrom(rows, unread) PROVE r \in K
    OBVIOUS
  <2>1. /\ r \in R
        /\ Cardinality({s \in rows \cap Newer(r) : ~failed(s)}) < ExampleCount
    BY DEF ExamplesFrom
  <2>2. {s \in rows \cap Newer(r) : ~failed(s)} = {s \in R : at[s] > at[r]}
    <3>1. \A s \in R : s \in Newer(r) <=> at[s] > at[r]
      BY <1>1, <1>2, <2>1 DEF Newer
    <3> HIDE DEF at
    <3>2. QED
      BY <3>1
  <2>3. QED
    BY <2>1, <2>2
<1>6. ExamplesFrom(rows, unread) \in SUBSET K /\ IsFiniteSet(K)
  BY <1>4, <1>5 DEF Few
<1> HIDE DEF K
<1>7. /\ IsFiniteSet(ExamplesFrom(rows, unread))
      /\ Cardinality(ExamplesFrom(rows, unread)) <= Cardinality(K)
  BY <1>6, FS_Subset
<1>8. Cardinality(K) \in Nat /\ Cardinality(ExamplesFrom(rows, unread)) \in Nat
  BY <1>6, <1>7, FS_CardinalityType
<1>9. QED
  BY <1>1, <1>4, <1>7, <1>8 DEF Few

\* examples, promptContext: what teaches is few titles of the athlete's, or the
\* synthetic ones.
LEMMA TaughtIsFew ==
  ASSUME LogInv, TitlesAreOwned, DatesDiffer, NEW unread,
         NEW taught, taught = ExamplesFrom(TeachesStyle(RecentTitles), unread)
  PROVE  Taught(IF taught = {} THEN SyntheticTitles ELSE {ExampleTitle(r) : r \in taught})
<1> DEFINE f == [r \in taught |-> ExampleTitle(r)]
           shownOf == {f[r] : r \in taught}
<1>1. TeachesStyle(RecentTitles) \in SUBSET Recorded
  BY RecentAreFew DEF TeachesStyle
<1>2. Few(taught, ExampleCount) /\ taught \subseteq TeachesStyle(RecentTitles)
  BY <1>1, ExamplesAreFew DEF ExamplesFrom
<1>3. \A r \in taught : r \in Ride /\ log[r].source = "human"
  BY <1>1, <1>2 DEF TeachesStyle, Recorded
<1>4. ASSUME NEW r \in taught
      PROVE  ExampleTitle(r) \in TeachableTitles
  <2>1. IsTheAthletes(r, ExampleTitle(r))
    BY <1>3, <1>4
    DEF ExampleTitle, TitlesAreOwned, RowsSayWho, ExamplesAreTheAthletes
  <2>2. Rewrites(sent[r]) => Stored(sent[r]) \in Range(Rewritten)
    BY DEF Rewrites, Stored, Range
  <2>3. QED
    BY <2>1, <2>2 DEF IsTheAthletes, TeachableTitles
<1>5. shownOf = {ExampleTitle(r) : r \in taught} /\ shownOf \subseteq TeachableTitles
  BY <1>4
<1>6. Few(shownOf, ExampleCount)
  <2> HIDE DEF f
  <2>1. QED
    BY <1>2, NamingAssumption, TitlesAreFew
<1> HIDE DEF f
<1>7. QED
  BY <1>5, <1>6 DEF Taught

\* franchiseNext: what the rotation comes to is an entry that is not reserved.
LEMMA NextIsEntry ==
  ASSUME NEW s, Listed(s), NEW from \in Nat, NEW i \in NextIndex(s, from)
  PROVE  s.titles[i + 1] \in Entries(s) \ s.reserved
<1>1. Len(s.titles) \in Nat /\ DOMAIN s.titles = 1..Len(s.titles)
  BY ListedIsSeries
<1>2. i \in from..(Len(s.titles) - 1) /\ ~IsReserved(s, s.titles[i + 1])
  BY DEF NextIndex
<1>3. i + 1 \in DOMAIN s.titles
  BY <1>1, <1>2
<1>4. QED
  BY <1>2, <1>3 DEF Entries, Range, IsReserved

\* franchiseNext: what is offered is a title, of the series that guards the ride.
LEMMA OfferFits ==
  ASSUME LogInv, SeriesAreListed, OfferIsFit, Offer
  PROVE  OfferIsFit'
<1>1. /\ pc = "offer" /\ pc' = "ask" /\ UNCHANGED <<ride, position>>
      /\ DOMAIN context = DOMAIN NoContext /\ context.offer = NoTitle
      /\ ride \notin Template /\ Taught(context.taught)
      /\ position \in [SeriesNames -> Nat]
  BY DEF Offer, LogInv, TypeOK, OfferIsFit
<1>2. PICK p \in Profiles :
        LET series == FranchiseFor(p[1], context.gear)
            next == {i \in NextIndex(series, position[series.name]) :
                       Offerable(series.titles[i + 1])}
        IN  \/ context' = [context EXCEPT !.series = series]
            \/ /\ series # NoSeries
               /\ \E i \in next :
                    context' = [context EXCEPT !.series = series, !.index = i,
                                               !.offer = series.titles[i + 1]]
  BY DEF Offer
<1> DEFINE s == FranchiseFor(p[1], context.gear)
<1>3. s = NoSeries \/ Listed(s)
  BY ProfilesAreListed, FoundIsListed
<1>4. \A k \in {"taught", "series", "index", "offer"} : k \in DOMAIN context
  BY <1>1 DEF NoContext
<1>5. CASE context' = [context EXCEPT !.series = s]
  <2>1. context'.taught = context.taught /\ context'.offer = NoTitle
    BY <1>1, <1>4, <1>5
  <2>2. QED
    BY <1>1, <2>1 DEF OfferIsFit
<1>6. ASSUME s # NoSeries, NEW i \in NextIndex(s, position[s.name]),
             Offerable(s.titles[i + 1]),
             context' = [context EXCEPT !.series = s, !.index = i,
                                        !.offer = s.titles[i + 1]]
      PROVE  OfferIsFit'
  <2>1. Listed(s) /\ position[s.name] \in Nat
    BY <1>1, <1>3, <1>6, ListedIsSeries
  <2>2. s.titles[i + 1] \in Entries(s) \ s.reserved
    BY <1>6, <2>1, NextIsEntry
  <2> HIDE DEF s
  <2>3. /\ context'.taught = context.taught /\ context'.offer = s.titles[i + 1]
        /\ context'.series = s
    BY <1>4, <1>6
  <2>4. QED
    BY <1>1, <1>6, <2>2, <2>3 DEF OfferIsFit
<1>7. QED
  BY <1>2, <1>5, <1>6

\* What a ride is asked with stays fit until it is answered.
LEMMA FitStep ==
  ASSUME LogInv, TitlesAreOwned, SeriesAreListed, DatesDiffer, OfferIsFit, [Next]_vars
  PROVE  OfferIsFit'
<1>1. CASE Offer
  BY <1>1, OfferFits
<1>2. CASE \E r \in Ride : Gather(r)
  <2>1. PICK r \in Ride : Gather(r)
    BY <1>2
  <2>2. PICK name, unread :
          context' = PromptContext(name, ExamplesFrom(TeachesStyle(RecentTitles), unread))
    BY <2>1 DEF Gather
  <2> DEFINE taught == ExamplesFrom(TeachesStyle(RecentTitles), unread)
             teaching == IF taught = {} THEN SyntheticTitles ELSE {ExampleTitle(s) : s \in taught}
  <2>3. context'.taught = teaching /\ context'.offer = NoTitle
    BY <2>2 DEF PromptContext, NoContext
  <2>4. Taught(teaching)
    BY TaughtIsFew
  <2> HIDE DEF teaching
  <2>5. pc' = "offer" /\ ride' = r /\ r \notin Template
    BY <2>1 DEF Gather
  <2>6. QED
    BY <2>3, <2>4, <2>5 DEF OfferIsFit
<1>3. CASE ~Offer /\ ~(\E r \in Ride : Gather(r))
  <2>1. pc' \notin {"offer", "ask"} \/ UNCHANGED <<pc, ride, context>>
    BY <1>3
    DEF Next, vars, NameFromTemplate, RecordHumanTitle, Import, Answered, Take, TryAgain,
        Unanswered, Record, RecordFails, RecordFranchise, RecordFranchiseFails, Put,
        PutUnanswered, PutFails, KeepStoredTitle, KeepStoredTitleFails, SendTitle,
        SeedConfig, EditConfig, WriteDocument, Restart
  <2>2. QED
    BY <2>1 DEF OfferIsFit
<1>4. QED
  BY <1>1, <1>2, <1>3

\* Nothing is recorded, remembered or asked yet.
LEMMA InitFits == Init => SeriesAreListed /\ DatesDiffer /\ OfferIsFit
<1> SUFFICES ASSUME Init PROVE SeriesAreListed /\ DatesDiffer /\ OfferIsFit
  OBVIOUS
<1>1. SeriesAreListed
  BY NoEntries DEF Init, SeriesAreListed
<1>2. DatesDiffer /\ OfferIsFit
  BY DEF Init, DatesDiffer, Recorded, OfferIsFit
<1>3. QED
  BY <1>1, <1>2

\* What the adaptations of the model are to a series of a list, they are to the
\* series in force, of which more may be reserved.
LEMMA ListedCanCarry ==
  ASSUME ModelAdapts, NEW s, Listed(s), NEW entry \in Entries(s) \ s.reserved,
         Offerable(entry), NEW recent \in SUBSET Titles, Few(recent, RecentLimit),
         NEW taught, Taught(taught), NEW r \in Ride \ Template
  PROVE  CanCarry(r, s, entry, ForbiddenTitles(recent, taught))
<1>1. PICK list \in Lists : \E i \in DOMAIN list :
        /\ s.name = list[i].name /\ s.gear = list[i].gear /\ s.titles = list[i].titles
        /\ list[i].reserved \subseteq s.reserved
  BY DEF Listed
<1>2. PICK i \in DOMAIN list :
        /\ s.gear = list[i].gear /\ s.titles = list[i].titles
        /\ list[i].reserved \subseteq s.reserved
  BY <1>1
<1>3. Entries(s) = Entries(list[i]) /\ entry \in Entries(list[i]) \ list[i].reserved
  BY <1>2 DEF Entries
<1>4. taught \in (SUBSET TeachableTitles) \cup {SyntheticTitles}
  BY DEF Taught
<1>5. CanCarry(r, list[i], entry, ForbiddenTitles(recent, taught))
  BY <1>3, <1>4 DEF ModelAdapts
<1>6. \A t, e : Claims(s, t, e) <=> Claims(list[i], t, e)
  BY <1>2 DEF Claims, IsMotif
<1>7. QED
  BY <1>3, <1>5, <1>6 DEF CanCarry

\* A title that carries the entry on offer, and no more of the series than the
\* entry does, is heard at the first attempt (Guard, complete).
LEMMA CarriedIsHeard ==
  ASSUME ModelAdapts, LogInv, SeriesAreListed, DatesDiffer, OfferIsFit
  PROVE  OfferCanBeUsed
<1> SUFFICES ASSUME pc = "ask", context.offer # NoTitle
             PROVE  \E t \in Answers(1) : UsesEntry(t, context.offer)
  BY DEF OfferCanBeUsed
<1>1. /\ ride \notin Template /\ Taught(context.taught) /\ Listed(context.series)
      /\ Offerable(context.offer)
      /\ context.offer \in Entries(context.series) \ context.series.reserved
  BY DEF OfferIsFit, SeriesAreListed
<1>2. ride \in Ride
  BY DEF LogInv, TypeOK
<1>3. context.recent \in SUBSET Titles /\ Few(context.recent, RecentLimit)
  <2> DEFINE f == [r \in Ride |-> log[r].title]
             K == WorthNotRepeating(RecentTitles)
             shownOf == {f[r] : r \in K}
  <2>1. K \in SUBSET RecentTitles /\ K \subseteq Ride
    BY RecentAreFew DEF WorthNotRepeating, Recorded
  <2>2. context.recent = {log[r].title : r \in K}
    BY DEF LogInv, RecentIsCurrent
  <2>3. \A r \in K : f[r] = log[r].title /\ log[r].title \in Titles
    BY <2>1 DEF LogInv, TypeOK
  <2> HIDE DEF f, K
  <2>4. context.recent = shownOf /\ context.recent \in SUBSET Titles
    BY <2>2, <2>3
  <2>5. Few(shownOf, RecentLimit)
    <3>1. Few(RecentTitles, RecentLimit) /\ RecentLimit \in Nat
      BY RecentAreFew, NamingAssumption
    <3>2. QED
      BY <2>1, <3>1, TitlesAreFew
  <2>6. QED
    BY <2>4, <2>5
<1>4. CanCarry(ride, context.series, context.offer, Forbidden)
  BY <1>1, <1>2, <1>3, ListedCanCarry DEF Forbidden
<1>5. PICK t \in ModelTitles \ Forbidden :
        /\ UsesEntry(t, context.offer) /\ Usable(t)
        /\ ~CopiesAchievement(t, Efforts[ride]) /\ ~UnstatedFigure(ride, t, context.offer)
        /\ \A e \in Entries(context.series) :
             Claims(context.series, t, e) => Claims(context.series, context.offer, e)
  BY <1>4 DEF CanCarry
<1>6. \A e \in GuardOf(1) : ~Claims(context.series, t, e)
  BY <1>5 DEF GuardOf, Guard
<1>7. t \in Answers(1)
  BY <1>5, <1>6 DEF Answers, Accepted
<1>8. QED
  BY <1>5, <1>7
-----------------------------------------------------------------------------
(* The theorems.                                                           *)

\* What a naming holds is what the log of the moment says.
LEMMA LogInvariant == Spec => []LogInv
BY InitInvariant, InvariantStep, PTL DEF Spec

\* The athlete's rows and examples stay the athlete's.
LEMMA OwnedInvariant == Spec => []TitlesAreOwned
BY InitOwned, OwnedStep, LogInvariant, PTL DEF Spec

\* What is asked is fit to be used.
LEMMA FitInvariant == Spec => [](SeriesAreListed /\ DatesDiffer /\ OfferIsFit)
<1>1. LogInv /\ TitlesAreOwned /\ (SeriesAreListed /\ DatesDiffer /\ OfferIsFit) /\ [Next]_vars
        => (SeriesAreListed /\ DatesDiffer /\ OfferIsFit)'
  BY SeriesStep, DatesStep, FitStep
<1>2. QED
  BY <1>1, InitFits, LogInvariant, OwnedInvariant, PTL DEF Spec

\* If the documents only grow, what the positions say of the entries sent.
LEMMA SpentInvariant == EntriesKeepTheirPlace => (Spec => []EntriesAreSpent)
<1> SUFFICES ASSUME EntriesKeepTheirPlace PROVE Spec => []EntriesAreSpent
  OBVIOUS
<1>1. LogInv /\ LogInv' /\ EntriesAreSpent /\ [Next]_vars => EntriesAreSpent'
  BY HandStep
<1>2. QED
  BY <1>1, InitSpent, LogInvariant, PTL DEF Spec

\* The inductive invariant (promptContext, complete, example, franchiseNext): what
\* a naming holds is what the log of the moment says, an entry on offer is fit to be
\* used and, if the documents only grow, a position says which entries were sent.
THEOREM NamingInvariant == Spec => []IInv
<1>1. CASE EntriesKeepTheirPlace
  <2>1. LogInv /\ TitlesAreOwned /\ (SeriesAreListed /\ DatesDiffer /\ OfferIsFit)
          /\ EntriesAreSpent => IInv
    BY DEF IInv
  <2>2. Spec => []EntriesAreSpent
    BY <1>1, SpentInvariant
  <2>3. QED
    BY <2>1, <2>2, LogInvariant, OwnedInvariant, FitInvariant, PTL
<1>2. CASE ~EntriesKeepTheirPlace
  <2>1. LogInv /\ TitlesAreOwned /\ (SeriesAreListed /\ DatesDiffer /\ OfferIsFit) => IInv
    BY <1>2 DEF IInv
  <2>2. QED
    BY <2>1, LogInvariant, OwnedInvariant, FitInvariant, PTL
<1>3. QED
  BY <1>1, <1>2

\* An entry on offer can be used (Guard's comment, franchiseNext): if the model has
\* an adaptation of each entry that is none of the few titles shown to it, the rules
\* taken together refuse neither, whatever the athlete reserves, edits or renames.
THEOREM OffersCanBeUsed == ModelAdapts => (Spec => []OfferCanBeUsed)
<1> SUFFICES ASSUME ModelAdapts PROVE Spec => []OfferCanBeUsed
  OBVIOUS
<1>1. LogInv /\ (SeriesAreListed /\ DatesDiffer /\ OfferIsFit) => OfferCanBeUsed
  BY CarriedIsHeard
<1>2. QED
  BY <1>1, LogInvariant, FitInvariant, PTL

\* An entry is spent on one ride (Guard, complete, AdvanceFranchisePast): of the
\* titles sent under the guard of a series at most one claims an entry of it, but
\* for entries that cannot be told apart and for an advance that failed.
THEOREM SpentOnOneRide == EntriesKeepTheirPlace => (Spec => []EntrySentOnce)
<1> SUFFICES ASSUME EntriesKeepTheirPlace PROVE Spec => []EntrySentOnce
  OBVIOUS
<1>1. Init => EntrySentOnce
  <2>1. Init => \A r \in Ride : shown[r] = NoSeries
    BY DEF Init
  <2>2. QED
    BY <2>1, NoEntries DEF EntrySentOnce
<1>2. LogInv /\ EntriesAreSpent /\ EntrySentOnce /\ [Next]_vars => EntrySentOnce'
  BY SentOnceStep
<1>3. Spec => []EntriesAreSpent
  BY SpentInvariant
<1>4. QED
  BY <1>1, <1>2, <1>3, LogInvariant, PTL DEF Spec

\* The position moves on evidence only (recordFranchise, franchiseNext): what it
\* has passed was reserved as it was passed, or a title the log was given uses it.
THEOREM SkipsNothing == EntriesKeepTheirPlace => (Spec => []NothingSkipped)
<1> SUFFICES ASSUME EntriesKeepTheirPlace PROVE Spec => []NothingSkipped
  OBVIOUS
<1>1. LogInv /\ EntriesAreSpent /\ PassedOnSpent /\ [Next]_vars => PassedOnSpent'
  BY PassedStep
<1>2. EntriesAreSpent /\ PassedOnSpent => NothingSkipped
  BY PassedIsSkipped DEF EntriesAreSpent
<1>3. Spec => []EntriesAreSpent
  BY SpentInvariant
<1>4. QED
  BY <1>1, <1>2, <1>3, InitPassed, LogInvariant, PTL DEF Spec

\* A document that could not be read is never remembered, and one that was is
\* kept until the process restarts (franchises).
THEOREM ReadsTheDocument == Spec => ProfileWasRead
<1>1. [Next]_vars =>
        [profile' # profile =>
           profile' = IF profile = NotRead THEN Franchises(doc) ELSE NotRead]_vars
  <2> SUFFICES ASSUME [Next]_vars, profile' # profile
               PROVE  profile' = IF profile = NotRead THEN Franchises(doc) ELSE NotRead
    OBVIOUS
  <2>1. CASE Offer
    <3>1. PICK p \in Profiles : profile' = p[2]
      BY <2>1 DEF Offer
    <3>2. profile = NotRead
      BY <3>1 DEF Profiles
    <3>3. p \in {<<Franchises(doc), Franchises(doc)>>} \cup {<<DefaultProfile, NotRead>>}
      BY <3>2 DEF Profiles, Degraded
    <3>4. p[2] \in {Franchises(doc), NotRead}
      BY <3>3
    <3>5. QED
      BY <3>1, <3>2, <3>4
  <2>2. CASE ~Offer
    <3>1. profile' \in {profile, NotRead}
      BY <2>2
      DEF Next, vars, Gather, NameFromTemplate, RecordHumanTitle, Import, Answered,
          Unanswered, Record, RecordFails, RecordFranchise, RecordFranchiseFails, Put,
          PutUnanswered, PutFails, KeepStoredTitle, KeepStoredTitleFails, SendTitle,
          SeedConfig, EditConfig, WriteDocument, Restart
    <3>2. QED
      BY <3>1
  <2>3. QED
    BY <2>1, <2>2
<1>2. QED
  BY <1>1, PTL DEF Spec, ProfileWasRead

\* Whatever was taught as an example is a title the athlete typed, for a ride
\* whose row is still theirs (teachesStyle, example): none of the service's, also
\* where Strava rewrote it, unless its row could not be corrected (reconcileTitle).
THEOREM TeachesTheAthletesOnly == Spec => []ExamplesAreTheAthletes
BY OwnedInvariant, PTL DEF TitlesAreOwned

\* Only a title in hand is recorded for the service, of a ride that had no row.
LEMMA OnlyTitlesInHand ==
  ASSUME LogInv, TitlesAreOwned, [Next]_vars, NEW r \in Ride,
         log[r] = NoRow, log'[r].source = "service"
  PROVE  pc = "record" /\ r = ride /\ log'[r].title = title
<1>1. DOMAIN log = Ride /\ log[r].source # "service"
  BY DEF LogInv, TypeOK, NoRow
<1>2. ASSUME NEW s \in Ride, NEW row, log' = [log EXCEPT ![s] = row], row.source # "service"
      PROVE  FALSE
  <2>1. log'[r] = IF r = s THEN row ELSE log[r]
    BY <1>1, <1>2
  <2>2. QED
    BY <1>1, <1>2, <2>1
<1>3. CASE \E s \in Ride : NameFromTemplate(s)
  <2>1. PICK s \in Ride : NameFromTemplate(s)
    BY <1>3
  <2>2. Row(TemplateTitle, "template", Now).source # "service"
    BY DEF Row
  <2>3. QED
    BY <1>2, <2>1, <2>2 DEF NameFromTemplate
<1>4. CASE \E s \in Ride : RecordHumanTitle(s)
  <2>1. PICK s \in Ride : \E t \in OtherTitles(s) :
          log' = [log EXCEPT ![s] =
                    Row(t, IF log[s].source = "imported" THEN "imported" ELSE "human", s)]
    BY <1>4 DEF RecordHumanTitle
  <2>2. \A t : Row(t, IF log[s].source = "imported" THEN "imported" ELSE "human", s).source
                # "service"
    BY DEF Row
  <2>3. PICK t : log' = [log EXCEPT ![s] =
                   Row(t, IF log[s].source = "imported" THEN "imported" ELSE "human", s)]
    BY <2>1
  <2>4. QED
    BY <1>2, <2>2, <2>3
<1>5. CASE \E s \in Ride : Import(s)
  <2>1. PICK s \in Ride, t \in HumanTitles : log' = [log EXCEPT ![s] = Row(t, "imported", s)]
    BY <1>5 DEF Import
  <2>2. Row(t, "imported", s).source # "service"
    BY DEF Row
  <2>3. QED
    BY <1>2, <2>1, <2>2
<1>6. CASE Record \/ RecordFails
  <2>1. pc = "record" /\ MarkNamed(title)
    BY <1>1, <1>6 DEF Record, RecordFails
  <2>2. r = ride /\ log'[ride].title = title
    BY <1>1, <2>1, TitleRecorded
  <2>3. QED
    BY <2>1, <2>2
<1>7. CASE log' = log
  BY <1>1, <1>7
<1>8. CASE KeepStoredTitle
  <2>1. ride \in Ride /\ ride # r
    BY <1>1, <1>8 DEF KeepStoredTitle, LogInv, TypeOK, TitlesAreOwned, RowsFollowStrava
  <2>2. log'[r] = log[r]
    BY <1>1, <1>8, <2>1 DEF KeepStoredTitle
  <2>3. QED
    BY <1>1, <2>2
<1>9. QED
  BY <1>3, <1>4, <1>5, <1>6, <1>7, <1>8
  DEF Next, vars, Gather, Offer, Answered, Unanswered, RecordFranchise,
      RecordFranchiseFails, Put, PutUnanswered, PutFails, KeepStoredTitleFails, SendTitle, SeedConfig, EditConfig, WriteDocument, Restart

\* No title the service gives a ride repeats one of the newest rows worth not
\* repeating, as stored or as the prompt showed it (complete, repeats).  What Strava
\* makes of it is not asked (reconcileTitle).
THEOREM RepeatsNothing == Spec => NeverRepeats
<1>1. ASSUME LogInv, TitlesAreOwned, [Next]_vars
      PROVE  [\A r \in Ride :
                log[r] = NoRow /\ log'[r].source = "service" =>
                  \A s \in WorthNotRepeating(RecentTitles) :
                    log'[r].title \notin {log[s].title, OneLine(log[s].title)}]_vars
  <2>1. ASSUME NEW r \in Ride, log[r] = NoRow, log'[r].source = "service",
               NEW s \in WorthNotRepeating(RecentTitles)
        PROVE  log'[r].title \notin {log[s].title, OneLine(log[s].title)}
    <3>1. pc = "record" /\ log'[r].title = title
      BY <1>1, <2>1, OnlyTitlesInHand
    <3>2. title \notin Forbidden /\ log[s].title \in context.recent
      BY <1>1, <3>1 DEF LogInv, TitleIsNoRepeat, RecentIsCurrent
    <3>3. log[s].title \in Forbidden /\ OneLine(log[s].title) \in Forbidden
      BY <3>2 DEF Forbidden, ForbiddenTitles
    <3>4. QED
      BY <3>1, <3>2, <3>3
  <2>2. QED
    BY <2>1
<1>2. QED
  BY <1>1, LogInvariant, OwnedInvariant, PTL DEF Spec, NeverRepeats
=============================================================================
