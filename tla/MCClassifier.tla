---------------------------- MODULE MCClassifier -----------------------------
(***************************************************************************)
(* The classifier's decisions over the life of one activity: every way it  *)
(* may be uploaded, then the commute flag, titles other tools and the      *)
(* athlete give it, and the title the decision itself asks for.            *)
(***************************************************************************)
EXTENDS Classifier

VARIABLES
  activity,   \* the activity as Strava returns it
  named       \* the service has given it a title

variables == <<activity, named>>

MCPool == <<"Besorgungen", "In die Stadt", "Stadtrunde">>
OtherTitles == {"Mit Anna", "Xert - MTB"}
ModelTitle == "Gegenwind"

\* What this service titles a ride with is no title it may replace: machine.go
\* leaves the commute titles out of the shipped patterns on purpose, and a
\* pattern that is configured has to do the same.
OwnTitles == TemplateTitles \cup {ModelTitle}
OwnTitlesAreKept == OwnTitles \cap (DefaultTitles \cup MachineTitles) = {}
ASSUME MCKept == OwnTitlesAreKept

Init ==
  /\ activity \in [name : DefaultTitles \cup MachineTitles \cup OtherTitles,
                   commute : BOOLEAN, sportType : SportTypes, trainer : BOOLEAN,
                   strain : BOOLEAN, distance : {5, 15}, movingTime : {20, 45},
                   start : SUBSET Fences, end : SUBSET Fences]
  /\ named = FALSE

TagCommute ==
  /\ ~activity.commute
  /\ activity' = [activity EXCEPT !.commute = TRUE]
  /\ UNCHANGED named

\* ActivityFix titles a commute with the configured pair.
Retitle ==
  /\ ~named
  /\ \E title \in {ToWorkTitle, ToHomeTitle} \cup MachineTitles :
       activity' = [activity EXCEPT !.name = title]
  /\ UNCHANGED named

TitleFor(decision) ==
  CASE decision.action = "commute_template" -> {CommuteTitle(decision.direction)}
    [] decision.action = "errand_template" -> {ErrandTitle(id) : id \in 0..2}
    [] OTHER -> {ModelTitle}

Name ==
  /\ Classify(activity).action # "skip"
  /\ \E title \in TitleFor(Classify(activity)) :
       activity' = [activity EXCEPT !.name = title]
  /\ named' = TRUE

Next == TagCommute \/ Retitle \/ Name

MCSpec == Init /\ [][Next]_variables

\* A provisional skip waits for the commute flag and for nothing else: as soon
\* as it is set, and whatever the geofences say, the ride is named.
ProvisionalAwaitsTheFlag ==
  [][(Classify(activity).provisional /\ activity' = [activity EXCEPT !.commute = TRUE])
       => Classify(activity').action \in {"errand_template", "commute_template"}]_variables

\* A title this service gave is final: no tier, flag or geofence makes the
\* classifier offer the activity for naming again, now or provisionally.
NamedForGood ==
  named => LET decision == Classify(activity)
           IN  decision.action = "skip" /\ ~decision.provisional
=============================================================================
