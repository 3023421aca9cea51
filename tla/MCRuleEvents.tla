----------------------------- MODULE MCRuleEvents -----------------------------
(* A waiting area with two tracks, the intervals of one of them followed.  *)
EXTENDS RuleEvents

CONSTANTS a, b

\* One configuration in order, and one whose values are of no use.
MCConfigurations ==
    {[dwell_threshold_seconds |-> 1, waiting_qualification_seconds |-> 1,
      queue_area_ids |-> {Zone}, queue_max_length |-> 3,
      service_gap_grace_seconds |-> 1, service_area_ids |-> {Zone},
      turnover_delay_seconds |-> 1, service_window_seconds |-> 0,
      known_spatial_contexts |-> {Zone}],
     [dwell_threshold_seconds |-> 0, waiting_qualification_seconds |-> 1,
      queue_area_ids |-> {"elsewhere"}, queue_max_length |-> Bad,
      service_gap_grace_seconds |-> Bad, service_area_ids |-> {},
      turnover_delay_seconds |-> 1, service_window_seconds |-> Bad,
      known_spatial_contexts |-> {Zone}]}
=============================================================================
