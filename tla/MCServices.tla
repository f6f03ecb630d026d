------------------------------ MODULE MCServices ------------------------------
(***************************************************************************)
(* Services, with the constants that are no numbers or names.              *)
(***************************************************************************)
EXTENDS Services, Integers

(* One incident rule without a threshold, and two that count to two, the   *)
(* second over more than the buffer holds.                                 *)
MCCategories == {"auth.failure", "auth.failure.admin"}
MCOrigins == {<<"u1", "s1">>, <<"u2", "s1">>}
MCCategoryOf == [c \in MCCategories |-> "authentication_attack"]
MCRules ==
  << [severity |-> "critical", applies |-> {"auth.failure.admin"},
      counts |-> {"auth.failure.admin"}, threshold |-> 0, timeframe |-> 0, groupBy |-> {}],
     [severity |-> "high", applies |-> MCCategories, counts |-> MCCategories,
      threshold |-> 2, timeframe |-> 1, groupBy |-> {"source"}],
     [severity |-> "medium", applies |-> {"auth.failure"}, counts |-> MCCategories,
      threshold |-> 2, timeframe |-> 3, groupBy |-> {"user"}] >>

MCOffsets == {-1, 0, 1}

(* What two scanners detect, and how much is watched.                      *)
MCDetects == <<{"v1", "v2"}, {"v1"}>>
MCWatchedEvents == [metric |-> 12, user |-> 7]
===============================================================================
