----------------------------- MODULE MCDurable -----------------------------
(* Instances of Durable.  Two sessions: sa sends two requests, sb one.     *)
(* a1 and the conditional b1 write the same key; a2 writes another band.   *)
EXTENDS Durable

CONSTANTS sa, sb, t1, t2, k1, k2

a1 == [session |-> sa, seq |-> 1]
a2 == [session |-> sa, seq |-> 2]
b1 == [session |-> sb, seq |-> 1]

TwoSessions == {sa, sb}
ThreeRequests == {a1, a2, b1}
TwoKeys == {k1, k2}
OneTablet == {t1}
TwoTablets == {t1, t2}

KeyOfThree == [r \in ThreeRequests |-> IF r = a2 THEN k2 ELSE k1]
SameTablet == [k \in TwoKeys |-> t1]
OwnTablet == [k \in TwoKeys |-> IF k = k1 THEN t1 ELSE t2]
Creates == {b1}

(* How often a1, a2 and b1 are sent. *)
Sends(x, y, z) == [r \in ThreeRequests |-> IF r = a1 THEN x ELSE IF r = a2 THEN y ELSE z]

(* Small segments without checkpoints; checkpoints, with segments that do  *)
(* not overflow, in the first life of the process; and in the second only. *)
SoundConfigs ==
  {[target |-> 2, lives |-> {}, faults |-> {"io", "tear", "rotate"}, sends |-> Sends(2, 1, 1)],
   [target |-> 9, lives |-> {1}, faults |-> {"io", "damage"}, sends |-> Sends(2, 1, 0)],
   [target |-> 9, lives |-> {2}, faults |-> {}, sends |-> Sends(1, 1, 0)]}

(* Checkpoints before and after a restart. *)
RestartConfigs ==
  {[target |-> 9, lives |-> {1, 2}, faults |-> {}, sends |-> Sends(1, 1, 0)]}
============================================================================
