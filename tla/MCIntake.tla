------------------------------ MODULE MCIntake ------------------------------
(* Instances of Intake: one file that every channel delivers, and a mail to   *)
(* the controller that has a second one.                                     *)
EXTENDS Intake

CONSTANTS i1, i2, m1, m2, f1, f2

MCFileOf == [i \in Intakes |-> f1]
MCParts == [m \in Inbox \cup Mails |-> IF m \in Mails THEN <<f1, f2>> ELSE <<f1>>]
=============================================================================
