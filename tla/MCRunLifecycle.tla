--------------------------- MODULE MCRunLifecycle ---------------------------
(* Values for model checking RunLifecycle. *)
EXTENDS RunLifecycle

\* A metrics-only upload, a trace-only upload and a full submission: with and
\* without the document, with and without the other artifacts.
MCPartsSets == {{"metrics"}, {"trace"}, Names}

MCScores == {0, 1}
=============================================================================
