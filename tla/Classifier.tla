----------------------------- MODULE Classifier -----------------------------
(***************************************************************************)
(* internal/classifier: which naming tier an activity belongs to, and what *)
(* this service may do with it.  Pure operators; nothing here does I/O.    *)
(*                                                                         *)
(* Titles are members of the constant vocabularies below: what the code    *)
(* decides about a title is only which vocabulary recognizes it.           *)
(***************************************************************************)
EXTENDS Naturals, Sequences

CONSTANTS
  DefaultTitles,        \* the titles Strava generates ("Morning Ride")
  MachineTitles,        \* the titles the configured machine patterns match
  ToolTitles,           \* the titles IsToolTitle recognizes
  ToWorkTitle,          \* configured commute titles; NoTitle switches off
  ToHomeTitle,          \*   the match, not the title given
  ErrandPool,           \* the errand titles, in the order the pool is indexed
  ZwiftMode,            \* "keep" or "llm_indoor"
  LeaveErrandsUnnamed,  \* BOOLEAN
  SportMinDistance,     \* tier-5 thresholds; 0 means the shipped default
  SportMinMovingTime

NoTitle == ""

DefaultToWorkTitle == "Zur Arbeit"
DefaultToHomeTitle == "Nach Hause"
DefaultSportMinDistance == 15      \* kilometres
DefaultSportMinMovingTime == 45    \* minutes

ASSUME ClassifierAssumption ==
  /\ ErrandPool \in Seq(STRING) /\ ErrandPool # << >>
  /\ ZwiftMode \in {"keep", "llm_indoor"}
  /\ LeaveErrandsUnnamed \in BOOLEAN
  /\ SportMinDistance \in Nat
  /\ SportMinMovingTime \in Nat

-----------------------------------------------------------------------------
(* What the vocabularies say about a title.                                *)

IsDefaultTitle(title) == title \in DefaultTitles

\* Mutant: every title but the empty one is up for renaming.
RenamableIfAny(title) == title # NoTitle

Renamable(title) == IsDefaultTitle(title) \/ title \in MachineTitles

IsToolTitle(title) == title \in ToolTitles

CommuteTitle(direction) ==
  IF direction = "to_home"
  THEN IF ToHomeTitle = NoTitle THEN DefaultToHomeTitle ELSE ToHomeTitle
  ELSE IF ToWorkTitle = NoTitle THEN DefaultToWorkTitle ELSE ToWorkTitle

ErrandTitle(id) == ErrandPool[(id % Len(ErrandPool)) + 1]

TemplateTitles ==
  {CommuteTitle("to_work"), CommuteTitle("to_home")}
    \cup {ErrandPool[i] : i \in 1..Len(ErrandPool)}

-----------------------------------------------------------------------------
(* An activity as the tier rules see it: its title, its sport type, the    *)
(* trainer and commute flags, whether the description mentions Whoop's     *)
(* "Strain", its distance and moving time, and the geofences its start and *)
(* its end lie in ({} where Strava gave no position or it is in neither).  *)

NeverNamedSportTypes == {"WeightTraining", "Workout", "Walk", "Hike"}
RideSportTypes == {"Ride", "GravelRide"}
SportTypes == NeverNamedSportTypes \cup RideSportTypes \cup {"VirtualRide", "Run"}
Fences == {"Home", "Work"}

\* withDefaults: an unset threshold is the shipped one.
MinDistance ==
  IF SportMinDistance = 0 THEN DefaultSportMinDistance ELSE SportMinDistance
MinMovingTime ==
  IF SportMinMovingTime = 0 THEN DefaultSportMinMovingTime ELSE SportMinMovingTime

MeetsSportThresholds(activity) ==
  \/ activity.distance >= MinDistance
  \/ activity.movingTime >= MinMovingTime

\* The direction of a work commute, "none" when the ride is not one.  A title
\* is taken at face value; the geofences only for a ride below the thresholds.
CommuteDirection(activity) ==
  IF ToWorkTitle # NoTitle /\ activity.name = ToWorkTitle THEN "to_work"
  ELSE IF ToHomeTitle # NoTitle /\ activity.name = ToHomeTitle THEN "to_home"
  ELSE IF MeetsSportThresholds(activity) THEN "none"
  ELSE IF "Work" \in activity.end THEN "to_work"
  ELSE IF "Work" \in activity.start /\ "Home" \in activity.end THEN "to_home"
  ELSE "none"

\* classifyTier: tiers 2 to 5, first match wins.
Tier(activity) ==
  IF activity.sportType = "VirtualRide" THEN "virtual"
  ELSE IF activity.sportType \notin RideSportTypes THEN "none"
  ELSE IF activity.trainer THEN "virtual"
  ELSE IF CommuteDirection(activity) # "none" THEN "commute"
  ELSE IF activity.commute THEN "errand"
  ELSE IF MeetsSportThresholds(activity) THEN "sport_ride"
  ELSE "none"

\* The action each tier asks for, once the title gate has let the activity by.
TierAction(tier) ==
  CASE tier = "virtual" /\ ZwiftMode = "llm_indoor" -> "llm_indoor"
    [] tier = "commute" -> "commute_template"
    [] tier = "errand" /\ ~LeaveErrandsUnnamed -> "errand_template"
    [] tier = "sport_ride" -> "llm"
    [] OTHER -> "skip"

Skipped(tier, humanTitled, provisional, direction) ==
  [tier |-> tier, action |-> "skip", direction |-> direction,
   humanTitled |-> humanTitled, provisional |-> provisional]

\* Mutant: the title alone decides, without what the tier already implies.
ProvisionalAnyTier(activity, tier) ==
  activity.sportType \in RideSportTypes /\ IsDefaultTitle(activity.name)

\* provisional, reached by rides no tier claims: the commute flag may yet come.
Provisional(activity, tier) ==
  /\ tier = "none"
  /\ activity.sportType \in RideSportTypes
  /\ IsDefaultTitle(activity.name)

\* Classify: tier 1 is unconditional, then the tier is assigned, then the gate
\* declines every title it does not recognize.
Classify(activity) ==
  LET tier == Tier(activity)
      direction == IF tier = "commute" THEN CommuteDirection(activity) ELSE "none"
  IN  IF activity.sportType \in NeverNamedSportTypes \/ activity.strain
      THEN Skipped("skip", FALSE, FALSE, "none")
      ELSE IF ~Renamable(activity.name)
      THEN Skipped(tier, TRUE, FALSE, direction)
      ELSE [tier |-> tier,
            action |-> TierAction(tier),
            direction |-> direction,
            humanTitled |-> FALSE,
            provisional |-> Provisional(activity, tier)]
=============================================================================
