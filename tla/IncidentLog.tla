----------------------------- MODULE IncidentLog -----------------------------
(***************************************************************************)
(* The incident table of incidents.py, shared by the log-watcher and the   *)
(* watchdog.  Every function commits one statement, so each is one step.   *)
(*                                                                         *)
(* A row's id is its position (AUTOINCREMENT, and no row is ever deleted). *)
(* Both writers use the component 'feed-service', so the column is left    *)
(* out, and with it the free text and the timestamps: resolved_at keeps    *)
(* only whether it is NULL.                                                *)
(***************************************************************************)
EXTENDS Integers, Sequences, FiniteSetsExt

VARIABLE rows

Sources == {"health", "container", "log-watcher"}
Actions == {"NULL", "restarted", "restart FAILED"}

Row == [detected_via : Sources, action_taken : Actions, resolved : BOOLEAN]

LogTypeOK == rows \in Seq(Row)

Ids == DOMAIN rows

\* Mutant: an UPDATE that forgets its WHERE clause.
SetAction_AllRows(id, action) ==
  rows' = [i \in Ids |-> [rows[i] EXCEPT !.action_taken = action]]

OpenIncident(via, action) ==
  rows' = Append(rows, [detected_via |-> via, action_taken |-> action, resolved |-> FALSE])

SetAction(id, action) == rows' = [rows EXCEPT ![id].action_taken = action]

\* Only a row that is still open is touched; on a closed one this is a no-op.
ResolveIncident(id) == rows' = [rows EXCEPT ![id].resolved = TRUE]

OpenRows == {i \in Ids : ~rows[i].resolved}

\* Mutant: the query without its DESC.
NewestOpen_Ascending == Min(OpenRows)

\* SELECT id ... WHERE resolved_at IS NULL ORDER BY id DESC LIMIT 1.
NewestOpen == Max(OpenRows)
=============================================================================
