---------------------------- MODULE RecordBuffer ----------------------------
(***************************************************************************)
(* What a buffer between the protocol callbacks and the batch processors   *)
(* promises, however it stores its records: a record that arrives is held, *)
(* then either handed to one consumer, once, or given up for good.         *)
(***************************************************************************)
CONSTANT Record

VARIABLE fate \* "new", "held", "taken" or "given_up", per record

Fates == {"new", "held", "taken", "given_up"}

TypeOK == fate \in [Record -> Fates]

Init == fate = [r \in Record |-> "new"]

Arrive(r) ==
  /\ fate[r] = "new"
  /\ fate' = [fate EXCEPT ![r] = "held"]

Take(r) ==
  /\ fate[r] = "held"
  /\ fate' = [fate EXCEPT ![r] = "taken"]

(* One record or, when the process dies, many at once. *)
GiveUp(S) ==
  /\ \A r \in S : fate[r] = "held"
  /\ fate' = [r \in Record |-> IF r \in S THEN "given_up" ELSE fate[r]]

Next ==
  \/ \E r \in Record : Arrive(r) \/ Take(r)
  \/ \E S \in SUBSET Record : GiveUp(S)

Spec == Init /\ [][Next]_fate
=============================================================================
