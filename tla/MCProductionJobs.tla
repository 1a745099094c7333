-------------------------- MODULE MCProductionJobs --------------------------
(* Small instances of ProductionJobs. *)
EXTENDS ProductionJobs

CONSTANTS q1, q2

\* One requestId for jobs of three kinds and another for two; the trace that a
\* performance run starts for itself has none.
Mixed ==
  {<<"process", q1, "plain">>, <<"trace", q1, "analyze">>, <<"performance", q1, "capture">>,
   <<"performance", q2, "plain">>, <<"ddc", q2, "plain">>}

\* Two traces.
Traces == {<<"trace", q1, "analyze">>, <<"trace", q2, "analyze">>}
=============================================================================
