--------------------------- MODULE MCPcmCheckpoint ---------------------------
(* Constants for checking PcmCheckpoint with TLC: a recording of three       *)
(* windows, units 1-3, 3-5 and 5-7, nothing being said in the first one.     *)
EXTENDS PcmCheckpoint

Disturbed(death, evict, fail, stops, retry) ==
    [k \in Disturbances |->
        CASE k = "death" -> death [] k = "evict" -> evict [] k = "fail" -> fail
          [] k = "stop" -> stops [] k = "retry" -> retry]

SilentWindow == {[from |-> 0, to |-> 3]}

LegacyLengths == {1, 2, 4, 5, 7}

NoLegacy == {}

Twice == Disturbed(2, 1, 1, 1, 1)

EvictedOnce == Disturbed(0, 1, 0, 0, 0)
=============================================================================
