------------------------------ MODULE MCSession ------------------------------
(* Instances of ControlSession: service 1 may be deleted and added again,  *)
(* which gives it the id 3; service 2 keeps the id 2.                      *)
EXTENDS ControlSession

MCNameOf == [id \in {1, 2, 3} |-> IF id = 2 THEN 2 ELSE 1]
MCOne == [id \in {1, 2} |-> 1]
=============================================================================
