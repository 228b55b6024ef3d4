------------------------------ MODULE MCCohort ------------------------------
EXTENDS Cohort

\* Cases as in the catalog: one without a schedule, so that its zombies meet the next
\* one; a schedule that ends in a 200 (env-02); one that exhausts the retries with
\* equal errors (env-06) and one with different errors (env-10).
MCCase == <<"normal", "env-02", "env-06", "env-10">>
MCSchedule == [c \in {MCCase[i] : i \in 1..Len(MCCase)} |->
    CASE c = "env-02" -> <<"timeout", "timeout", "200">>
      [] c = "env-06" -> <<"429", "429", "429", "429">>
      [] c = "env-10" -> <<"timeout", "503", "429", "timeout">>
      [] OTHER -> <<>>]
NoUpstreamFaults == {}
=============================================================================
