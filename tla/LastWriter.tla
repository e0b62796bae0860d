----------------------------- MODULE LastWriter ------------------------------
(***************************************************************************)
(* What the service promises about titles, whatever fails and in whatever  *)
(* order: each activity is settled once, for the athlete or for the        *)
(* service, before anything is sent to it; one settled for the service is  *)
(* given at most one title, which may be sent again but never changed; one *)
(* settled for the athlete is given none.                                  *)
(***************************************************************************)
CONSTANTS Activity, Titles

VARIABLES
  settledFor,   \* who an activity's first row was recorded for
  given         \* the titles the service has sent to an activity

lastWriterVars == <<settledFor, given>>

LastWriterInit ==
  /\ settledFor = [a \in Activity |-> "nobody"]
  /\ given = [a \in Activity |-> {}]

SettleFor(a, who) ==
  /\ settledFor[a] = "nobody"
  /\ settledFor' = [settledFor EXCEPT ![a] = who]
  /\ UNCHANGED given

Give(a, title) ==
  /\ settledFor[a] = "service"
  /\ given[a] \subseteq {title}
  /\ given' = [given EXCEPT ![a] = {title}]
  /\ UNCHANGED settledFor

LastWriterNext ==
  \E a \in Activity :
    \/ \E who \in {"service", "athlete"} : SettleFor(a, who)
    \/ \E title \in Titles : Give(a, title)

LastWriterSpec == LastWriterInit /\ [][LastWriterNext]_lastWriterVars
=============================================================================
