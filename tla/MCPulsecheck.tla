---------------------------- MODULE MCPulsecheck ----------------------------
(***************************************************************************)
(* Pulsecheck with one symbol, for TLC.                                    *)
(***************************************************************************)
EXTENDS Pulsecheck

MCSymbols == <<"AAPL">>

\* "With the stack up and both host tools running" (README.md:149): the state
\* after an undisturbed startup and a first round of the generator.
MCStackUp ==
  /\ pc = "wait" /\ attempt = 0 /\ current = 1 /\ price = 0
  /\ pg_conn = "live" /\ redis_conn = TRUE /\ pg_up = TRUE /\ redis_up = TRUE /\ lost = 0
  /\ ticks = Symbols \X {0} /\ counted = ticks /\ stored = ticks
  /\ newest = [s \in Symbols |-> 0] /\ latest = newest /\ unsettled = {}
  /\ Dog!Init /\ outages = 0 /\ kills = 0

MCStackUpSpec == MCStackUp /\ [][SystemNext]_systemVars /\ WF_systemVars(FeedRuns) /\ WF_systemVars(DogRuns)
=============================================================================
