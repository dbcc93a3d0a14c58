---------------------------- MODULE MCPasswords ----------------------------
(* Instances of the owners' steps of Room and, side by side, of RateLimiter. *)
EXTENDS MCRoom, RateLimiter
CONSTANT k2

MCLimit == [k \in Keys |-> IF k = k1 THEN 2 ELSE 1]
MCWindow == [k \in Keys |-> IF k = k1 THEN 2 ELSE 1]
MCGaps == {0, 1, 4}

(* Room reads nothing of the limiter and the limiter nothing of Room, so   *)
(* that it is enough to run each of them with the other one at rest.       *)
MCInit == RoomInit /\ LimiterInit
MCNext ==
    \/ calls = <<>> /\ RoomNext /\ UNCHANGED limiterVars
    \/ RoomInit /\ LimiterNext /\ UNCHANGED roomVars
MCSpec == MCInit /\ [][MCNext]_<<roomVars, limiterVars>>
=============================================================================
