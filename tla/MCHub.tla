------------------------------- MODULE MCHub -------------------------------
(* One client listens to the instance, the other to the general events; one  *)
(* of them may see the instance's events.                                    *)
EXTENDS Hub, TLC

CONSTANTS c1, c2, i1

MCListensTo == [c \in Client |-> IF c = c1 THEN i1 ELSE NoInstance]
MCSees      == [c \in Client |-> IF c = c1 THEN {i1} ELSE {}]
=============================================================================
