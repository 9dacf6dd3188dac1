----------------------------- MODULE QueryCache -----------------------------
(***************************************************************************)
(* React Query as providers.tsx configures it, over the fetchers of        *)
(* lib/api.ts: one entry per query key, shared by the components that      *)
(* observe the key; at most one request per key in flight; data kept when  *)
(* a later request fails.  A request fails when its retry has failed too.  *)
(*                                                                         *)
(* This module is the entry of one key and what happens to it; the module  *)
(* of the pages keeps the entries and says which keys are observed.        *)
(***************************************************************************)

CONSTANT NoData   \* no data for a key

Entry(data) == [data |-> data, failed |-> FALSE, fetching |-> FALSE]
NoQuery == Entry(NoData)
QueryEntries(Data) == [data: Data \cup {NoData}, failed: BOOLEAN, fetching: BOOLEAN]

\* MUTANT: a query without data is taken for one that loads.
IsPending(q) == q.data = NoData

\* Fetching with no data to show, and neither of the two outcomes yet.
IsLoading(q) == q.data = NoData /\ q.fetching
IsError(q) == q.failed

\* A request starts, or joins the one in flight.  The error of a query that has
\* data stays until the answer.
Fetching(q) == [q EXCEPT !.fetching = TRUE, !.failed = @ /\ q.data # NoData]

Answered(q, data) == Entry(data)
Refused(q) == [q EXCEPT !.fetching = FALSE, !.failed = TRUE]
=============================================================================
