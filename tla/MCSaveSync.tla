----------------------------- MODULE MCSaveSync ------------------------------
(***************************************************************************)
(* Instances of SaveSync for TLC.                                          *)
(***************************************************************************)
EXTENDS SaveSync, TLC

CONSTANTS c1, c2, p1, p2

OneEach == p1 :> c1 @@ p2 :> c2  \* no two processes on one client
Bidirectional == [c \in Clients |-> "bidirectional"]
Manual == [c \in Clients |-> "manual"]
ManualAndLocal == c1 :> "manual" @@ c2 :> "prefer_local"
=============================================================================
