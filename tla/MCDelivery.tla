----------------------------- MODULE MCDelivery -----------------------------
(***************************************************************************)
(* Delivery, with the constants that are no numbers.                       *)
(***************************************************************************)
EXTENDS Delivery, TLC

CONSTANTS c1, good, bad, r1, r2, r3, t1, t2

(* The policies considered: each mode, SDT with and without its intervals. *)
Plain == [mode |-> "none", change_only |-> FALSE, deadband |-> 0,
          deviation |-> 0, max_interval |-> 0, min_interval |-> 0]
Sdt == [Plain EXCEPT !.mode = "sdt", !.deviation = 1]

MCPolicies ==
  { Plain,
    [Plain EXCEPT !.change_only = TRUE],
    [Plain EXCEPT !.mode = "change_only"],
    [Plain EXCEPT !.mode = "deadband", !.deadband = 2],
    Sdt,
    [Sdt EXCEPT !.max_interval = 3],
    [Sdt EXCEPT !.max_interval = 3, !.min_interval = 2] }

MCCallers   == {c1}
MCSent      == {good, bad}
MCMalformed == {bad}

(* Three records of two sources; the files of two years, the second of     *)
(* which has none.                                                         *)
MCRecords  == {r1, r2, r3}
MCTargets  == {t1, t2}
MCTargetOf == (r1 :> t1) @@ (r2 :> t2) @@ (r3 :> t1)
MCFiles    == <<<<2, 0, 1>>, << >>>>

(* _stride_pick filters the list by index and cuts it; Key counts.         *)
Picked(idx, n, stride, cap) ==
  LET mine == {i \in 0 .. n - 1 : i % stride = idx % stride} IN
    {i \in mine : Cardinality({j \in mine : j < i}) < cap}

ASSUME \A n \in 0 .. 6, stride \in 1 .. 4, cap \in 0 .. 3 : \A idx \in 0 .. 5 :
         Picked(idx, n, stride, cap) =
           {i \in 0 .. n - 1 : \E k \in 0 .. cap - 1 : i = (idx % stride) + k * stride}
=============================================================================
