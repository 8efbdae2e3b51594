------------------------------ MODULE MCDelivery ------------------------------
(***************************************************************************)
(* The first candidate set has a defect that only delivery validation      *)
(* sees.  Either every kind of request comes alone, or a repair overlaps   *)
(* any other kind.                                                         *)
(***************************************************************************)
EXTENDS Delivery

Alone == [r \in Requests |-> Kinds]
Overlap == [r \in Requests |-> IF r = "repairer" THEN {"repair"} ELSE Kinds \ {"repair"}]
=============================================================================
