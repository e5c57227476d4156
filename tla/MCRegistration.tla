---------------------------- MODULE MCRegistration ----------------------------
(* A small instance of Registration: the builders are of one build option, *)
(* and o2 is an option that none of them has.                              *)
EXTENDS Registration

CONSTANTS b1, b2, o1, o2

MCOneOpt == [b \in Builders |-> o1]
=============================================================================
