------------------------------ MODULE MCNaming ------------------------------
(* Small instances of the naming of a few rides for TLC.                   *)
EXTENDS Naming

Bike == <<"pink", "panther">>
TheBike == [r \in Ride |-> Bike]

\* Three films: one that is the bike's name, and two that nest.
Panther == <<"the", "pink", "panther">>
Hard == <<"die", "hard">>
Harder == <<"die", "hard", "2">>
Films(reserved) ==
  [name |-> "films", gear |-> Bike, titles |-> <<Panther, Hard, Harder>>,
   reserved |-> reserved]

MCProfile == <<Films({Panther})>>

\* The athlete appends a series, and reserves the film that comes next.
MCEdited ==
  <<Films({Panther, Harder}),
    [name |-> "days", gear |-> <<>>, titles |-> <<<<"regen">>>>, reserved |-> {}]>>
MCDocuments == {MCEdited}
MCReservations == {Hard}

\* The model: each entry and an adaptation of it, which is nothing of the other
\* series, and a title as the prompt shows it, with a figure nothing states.
Adapted(entry) == {entry, entry \o <<"wind">>}
MCModelTitles ==
  Adapted(Hard) \cup Adapted(Harder) \cup Adapted(<<"regen">>)
    \cup {<<"wind", "am", "see", "2">>}
MCHumanTitles == {<<"wind", "am", "see", "2", "bft">>}
\* Strava takes a word out of one title.
MCRewritten == (Harder \o <<"wind">>) :> <<"wind">>
MCSynthetic == {<<"gegenwind">>}
MCEfforts == [r \in Ride |-> {<<"the", "col">>}]
MCNothing == [r \in Ride |-> {}]
MCTemplate == <<"zur", "arbeit">>
MCFigures == {"2"}

\* The athlete appends.
ASSUME MCAppended == EntriesKeepTheirPlace

\* The model has another adaptation when one is forbidden.
ASSUME MCAdapts == ModelAdapts
=============================================================================
