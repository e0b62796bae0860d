-------------------------- MODULE ClassifierProofs --------------------------
(***************************************************************************)
(* What the classifier decides over the life of an activity, for any       *)
(* vocabularies, thresholds and errand pool: the skip that waits.          *)
(***************************************************************************)
EXTENDS MCClassifier, TLAPS

Fields == {"name", "commute", "sportType", "trainer", "strain", "distance", "movingTime",
           "start", "end"}

\* An activity keeps its fields.
HasItsFields == DOMAIN activity = Fields

\* Commuting, titles of other tools and the service's own change a field of the
\* activity and add none (UpdateActivityName sends the name alone).
LEMMA FieldsStay ==
  ASSUME HasItsFields, [Next]_variables
  PROVE  HasItsFields'
<1>1. CASE TagCommute
  BY <1>1 DEF TagCommute, HasItsFields
<1>2. CASE Retitle
  BY <1>2 DEF Retitle, HasItsFields
<1>3. CASE Name
  BY <1>3 DEF Name, HasItsFields
<1>4. CASE UNCHANGED variables
  BY <1>4 DEF variables, HasItsFields
<1>5. QED
  BY <1>1, <1>2, <1>3, <1>4 DEF Next

\* A provisional skip is the wait for the commute flag and nothing else
\* (provisional, classifyTier): it is of a ride whose default title, sport type,
\* distance and geofences would have an errand named, were it flagged.
THEOREM AwaitsTheFlag == ~LeaveErrandsUnnamed => (MCSpec => ProvisionalAwaitsTheFlag)
<1> SUFFICES ASSUME ~LeaveErrandsUnnamed PROVE MCSpec => ProvisionalAwaitsTheFlag
  OBVIOUS
<1>1. ASSUME HasItsFields, Classify(activity).provisional,
             activity' = [activity EXCEPT !.commute = TRUE]
      PROVE  Classify(activity').action \in {"errand_template", "commute_template"}
  <2>1. /\ activity.sportType \notin NeverNamedSportTypes /\ ~activity.strain
        /\ Renamable(activity.name)
        /\ Provisional(activity, Tier(activity))
    BY <1>1 DEF Classify, Skipped
  <2>2. Tier(activity) = "none" /\ activity.sportType \in RideSportTypes
    BY <2>1 DEF Provisional
  <2>3. ~activity.trainer /\ CommuteDirection(activity) = "none"
    BY <2>2 DEF Tier, RideSportTypes
  <2>4. /\ activity'.commute
        /\ \A f \in Fields \ {"commute"} : activity'[f] = activity[f]
    BY <1>1 DEF HasItsFields, Fields
  <2>5. /\ activity'.name = activity.name /\ activity'.sportType = activity.sportType
        /\ activity'.trainer = activity.trainer /\ activity'.strain = activity.strain
        /\ activity'.distance = activity.distance
        /\ activity'.movingTime = activity.movingTime
        /\ activity'.start = activity.start /\ activity'.end = activity.end
    BY <2>4 DEF Fields
  <2>6. CommuteDirection(activity') = "none"
    BY <2>3, <2>5 DEF CommuteDirection, MeetsSportThresholds
  <2>7. Tier(activity') = "errand"
    BY <2>2, <2>3, <2>4, <2>5, <2>6 DEF Tier, RideSportTypes
  <2>8. TierAction("errand") = "errand_template"
    BY DEF TierAction
  <2>9. QED
    BY <2>1, <2>5, <2>7, <2>8 DEF Classify
<1>2. Init => HasItsFields
  BY DEF Init, HasItsFields, Fields
<1>3. HasItsFields /\ [Next]_variables => HasItsFields'
  BY FieldsStay
<1>4. HasItsFields /\ [Next]_variables =>
        [(Classify(activity).provisional /\ activity' = [activity EXCEPT !.commute = TRUE])
           => Classify(activity').action \in {"errand_template", "commute_template"}]_variables
  BY <1>1
<1>5. QED
  BY <1>2, <1>3, <1>4, PTL DEF MCSpec, ProvisionalAwaitsTheFlag
=============================================================================
