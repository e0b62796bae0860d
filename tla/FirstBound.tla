----------------------------- MODULE FirstBound ------------------------------
(***************************************************************************)
(* What the service promises about whom it serves: whoever authorizes      *)
(* first, if the configuration lets them, and nobody after; and it forgets *)
(* nobody.  The promise is off once a callback could not read who is       *)
(* bound.                                                                  *)
(***************************************************************************)
CONSTANT Eligible   \* the athletes the configuration lets the service serve

VARIABLES
  bound,     \* the athletes whose pair is stored
  certain    \* every callback so far could read who is bound

firstBoundVars == <<bound, certain>>

FirstBoundInit == bound = {} /\ certain = TRUE

Bind(a) ==
  /\ certain => bound \subseteq {a}
  /\ bound' = bound \cup {a}
  /\ UNCHANGED certain

Doubt == certain' = FALSE /\ UNCHANGED bound

FirstBoundNext == (\E a \in Eligible : Bind(a)) \/ Doubt

FirstBoundSpec == FirstBoundInit /\ [][FirstBoundNext]_firstBoundVars
=============================================================================
