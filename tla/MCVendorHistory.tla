-------------------------- MODULE MCVendorHistory --------------------------
(***************************************************************************)
(* Four payments to two vendors for TLC, one of them written in two ways   *)
(* and paid a negative amount once, and a loader with two awards of that   *)
(* vendor.                                                                 *)
(***************************************************************************)
EXTENDS VendorHistory

MCPayments == {"p1", "p2", "p3", "p4"}

MCSpellings == {"Acme", "ACME", "Bolt"}

MCNormal == [n \in MCSpellings |-> IF n = "Bolt" THEN "bolt" ELSE "acme"]

MCNameOf == [p \in MCPayments |->
    CASE p = "p1" -> "Acme" [] p = "p2" -> "ACME" [] p = "p3" -> "Acme" [] p = "p4" -> "Bolt"]

MCAmountOf == [p \in MCPayments |->
    CASE p = "p1" -> 1 [] p = "p2" -> 2 [] p = "p3" -> -4 [] p = "p4" -> 8]

MCAwards == <<[id |-> "a1", name |-> "ACME", amount |-> 16],
             [id |-> "a2", name |-> "ACME", amount |-> 32]>>
=============================================================================
