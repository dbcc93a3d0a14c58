------------------------------- MODULE MCHost -------------------------------
(* Instances of HostProcess for TLC. *)
EXTENDS HostProcess, TLC
CONSTANTS p1, p2, p3, r1, r2

Symmetry == Permutations(Processes) \cup Permutations(Threads)

MCConfig ==
    [show |-> 2, sure |-> 3, threshold |-> 75, leakage |-> 2, fan |-> 3, fanFactor |-> 0,
     cooling |-> 25, weather |-> 2, reference |-> 25, outdoor |-> 35, base |-> 3000,
     clockRatio |-> 90]

Job(source, mode, energy) ==
    [node |-> source,
     job |-> [ok |-> TRUE, source |-> source, mode |-> mode, energy |-> energy, tokens |-> 2,
              estimated |-> FALSE, dt |-> 1, hours |-> 1, hot |-> 8, cool |-> 5,
              clock |-> 2000, util |-> 80, ms |-> energy, peak |-> 60 + energy]]

MCRequests ==
    {<<<<"threshold", 100>>, <<"weights", <<5, 6, -2, 1>>>>>>,
     <<<<"weights", <<2, 3, 1, 4>>>>, <<"allow", FALSE>>>>,
     <<<<"threshold", 75>>, <<"allow", TRUE>>>>,
     <<<<"bootstrap", 100>>>>,
     <<<<"job", Job("sensor", "round_robin", 8)>>>>,
     <<<<"job", Job("sensor", "thermal_aware", 6)>>>>,
     <<<<"job", Job("model", "thermal_aware", 5)>>>>,
     <<<<"job", Job("none", "thermal_aware", 4)>>>>}
=============================================================================
