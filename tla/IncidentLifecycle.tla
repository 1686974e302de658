-------------------------- MODULE IncidentLifecycle --------------------------
(***************************************************************************)
(* What the watchdog promises of the incidents it handles: one at a time,  *)
(* each is opened, then acted on once, then the result is recorded, then   *)
(* it is closed.  An incident can be lost at any stage and is then never   *)
(* acted on nor closed; no lost one comes back.                            *)
(***************************************************************************)
EXTENDS Integers

VARIABLE incidents  \* the stage of each incident, by the number of its row

Done == {"closed", "lost"}
Stages == {"open", "attempted", "recorded"} \cup Done

InProgress == {i \in DOMAIN incidents : incidents[i] \notin Done}

Init == DOMAIN incidents = {}

Open ==
  /\ InProgress = {}
  /\ \E id \in DOMAIN incidents' \ DOMAIN incidents :
       incidents' = [i \in DOMAIN incidents \cup {id} |->
                       IF i = id THEN "open" ELSE incidents[i]]

Move(from, to) ==
  \E i \in DOMAIN incidents :
    incidents[i] = from /\ incidents' = [incidents EXCEPT ![i] = to]

Next ==
  \/ Open
  \/ Move("open", "attempted")
  \/ Move("attempted", "recorded")
  \/ Move("recorded", "closed")
  \/ \E s \in Stages \ Done : Move(s, "lost")

Spec == Init /\ [][Next]_incidents
=============================================================================
