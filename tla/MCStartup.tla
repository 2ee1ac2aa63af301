------------------------------- MODULE MCStartup -------------------------------
EXTENDS Startup
CONSTANTS s1, s2, w, i, m, ra, rb
MCServer == {s1, s2}
\* local is a number of either region, plus one of TR with its country code, and
\* hk, a number of neither written out in full, is valid in ID as well.
MCNumber == {"local", "plus", "lid", "tr", "id", "hk"}
MCParse ==
  [r \in {"TR", "ID", None} |-> [n \in MCNumber |->
     CASE n = "plus" -> "tr"
       [] r = "TR" /\ n \in {"local", "tr"} -> "tr"
       [] r = "ID" /\ n \in {"local", "id", "hk"} -> "id"
       [] OTHER -> NoNumber]]
MCAbroad == [n \in MCNumber |-> IF n \in {"tr", "id", "hk"} THEN n ELSE NoNumber]
MCRow == {i, ra, rb, m}
MCTableOf == [row \in MCRow |-> IF row = i THEN "instances" ELSE IF row = m THEN "outbox" ELSE "warming_rooms"]
MCOldNumber == [row \in MCRow |-> CASE row = i -> {"hk"} [] row = m -> {"plus"} [] row = ra -> {"local"} [] OTHER -> {"local", "tr"}]
MCOldLive == {{ra, rb, m}, {ra, m}}
MCOld == Complete \ {"users.region", "api_keys"}
MCEnv == [p \in {s1, s2, w} |-> IF p = s1 THEN "TR" ELSE "??"]
================================================================================
