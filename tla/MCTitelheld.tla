----------------------------- MODULE MCTitelheld -----------------------------
(* Small instances of the pipeline for TLC.                                *)
EXTENDS Titelheld

Fact(distance, movingTime, end) ==
  [sportType |-> "GravelRide", trainer |-> FALSE, strain |-> FALSE,
   distance |-> distance, movingTime |-> movingTime, start |-> {}, end |-> end]

LongRide == Fact(40, 20, {})
ShortRide == Fact(5, 20, {})

\* A ride the model names, and one the classifier waits for.
MCFactsLong == [a \in Activity |-> LongRide]
MCFactsShort == [a \in Activity |-> ShortRide]

MCShortPool == <<"Besorgungen">>

Bounds(edits, notes, faults, crashes) ==
  [edits |-> edits, notes |-> notes, faults |-> faults, crashes |-> crashes]

\* Two calls fail, the process restarts twice, or the athlete and the tools edit.
MCBudgetsSafety == {Bounds(1, 0, 2, 0), Bounds(1, 0, 0, 2), Bounds(2, 1, 0, 0)}

\* An edit beside a failure or a restart; the counterexample needs the edit.
MCBudgetsAlive == {Bounds(1, 0, 1, 0), Bounds(1, 0, 0, 1)}
MCBudgetsOneEdit == {Bounds(1, 0, 0, 0)}
=============================================================================
