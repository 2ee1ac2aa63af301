--------------------------- MODULE MCOutboxEnqueue ---------------------------
(* Three requests of one client, of two, one and one messages, and one of two *)
(* messages of another client: a day has room for only some of them.         *)
EXTENDS OutboxEnqueue, TLC

CONSTANTS c1, c2, r1, r2, r3, r4

MCClientOf == r1 :> c1 @@ r2 :> c1 @@ r3 :> c1 @@ r4 :> c2
MCSize     == r1 :> 2 @@ r2 :> 1 @@ r3 :> 1 @@ r4 :> 2
=============================================================================
