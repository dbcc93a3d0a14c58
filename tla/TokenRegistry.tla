--------------------------- MODULE TokenRegistry ---------------------------
(***************************************************************************)
(* What a room promises about its tokens, without passwords, generations,  *)
(* crashes or storage: a token is handed out once and may end once; a node *)
(* name has at most one token that opens the room, and the workers' tokens *)
(* that do never number more than the room's capacity.                     *)
(***************************************************************************)
EXTENDS Naturals, FiniteSets

CONSTANTS
    Tokens,     \* every token the room may ever hand out
    Names,      \* names of worker nodes
    NoName,     \* the name of a token that is not a worker's
    Capacity    \* workers the room takes

VARIABLES
    life,       \* token -> "unissued", "alive" or "ended"
    holder      \* token -> the node it was issued to

registryVars == <<life, holder>>

RegistryInit ==
    /\ life = [t \in Tokens |-> "unissued"]
    /\ holder = [t \in Tokens |-> NoName]

AliveOf(n) == {t \in Tokens : life[t] = "alive" /\ holder[t] = n}
AliveWorkers == {t \in Tokens : life[t] = "alive" /\ holder[t] \in Names}

(* A worker's new token ends the one its name had and must find room. *)
IssueToWorker(t, n) ==
    /\ life[t] = "unissued"
    /\ Cardinality(AliveWorkers \ AliveOf(n)) < Capacity
    /\ life' = [[x \in Tokens |-> IF x \in AliveOf(n) THEN "ended" ELSE life[x]]
                  EXCEPT ![t] = "alive"]
    /\ holder' = [holder EXCEPT ![t] = n]

IssueToAdmin(t) ==
    /\ life[t] = "unissued"
    /\ life' = [life EXCEPT ![t] = "alive"]
    /\ UNCHANGED holder

End(D) ==
    /\ D # {}
    /\ \A t \in D : life[t] = "alive"
    /\ life' = [t \in Tokens |-> IF t \in D THEN "ended" ELSE life[t]]
    /\ UNCHANGED holder

RegistryNext ==
    \/ \E t \in Tokens : IssueToAdmin(t) \/ \E n \in Names : IssueToWorker(t, n)
    \/ \E D \in SUBSET Tokens : End(D)

RegistrySpec == RegistryInit /\ [][RegistryNext]_registryVars
=============================================================================
