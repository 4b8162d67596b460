---- MODULE MCSteam ----
EXTENDS SteamLibrary
CONSTANTS t1, t2
MCSystemOf == [t \in Titles |-> IF t = t1 THEN "s1" ELSE "s2"]
====
