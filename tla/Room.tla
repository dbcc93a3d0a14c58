-------------------------------- MODULE Room --------------------------------
(***************************************************************************)
(* The room: class Room of src/server/room.py with the handlers that       *)
(* create it, rotate its passwords, close it and let machines in and out,  *)
(* and the row of SQLite its password hashes are kept in.                  *)
(*                                                                         *)
(* One lock guards the room's fields; a step is one region under it.       *)
(* Bootstraps exclude each other (_bootstrap_lock), closings exclude only  *)
(* the requests in a mutation section, and neither excludes another's save *)
(* of the room, which reads the fields without the lock and writes them    *)
(* later.  The host may crash between any two steps; tokens live in memory *)
(* only.                                                                   *)
(*                                                                         *)
(* Times are kept as far as they are compared: a token is fresh, silent    *)
(* (NODE_RECLAIM_AFTER_S) or expired.  The clock is read and the lock      *)
(* taken in one step.  A password stands for its hash.                     *)
(***************************************************************************)
EXTENDS Naturals, FiniteSets

CONSTANTS
    Tokens,      \* every token the room may ever hand out
    Names,       \* names of worker nodes
    NoName,      \* the name of an admin's token
    NoToken,     \* no entry in _nodes
    Capacity,    \* Room.capacity
    Passwords,   \* passwords (their hashes)
    NoPassword,  \* a password hash that is None
    Owners,      \* threads that bootstrap and close the room
    RateKeys,    \* the keys failed joins are counted under: ip|role
    JoinFailLimit,         \* JOIN_FAIL_LIMIT_PER_MIN: 5
    JoinFailBackoffAfter,  \* JOIN_FAIL_BACKOFF_AFTER: 3, no more than that
    MaxGeneration          \* bound on closings and rotations

ASSUME RoomAssumption ==
    /\ NoName \notin Names
    /\ NoToken \notin Tokens
    /\ NoPassword \notin Passwords
    /\ {Capacity, JoinFailLimit, JoinFailBackoffAfter, MaxGeneration} \subseteq Nat
    /\ JoinFailBackoffAfter <= JoinFailLimit

VARIABLES
    tokens,      \* _tokens, and what became of every token handed out
    nodes,       \* _nodes: name -> token
    generation,  \* generation
    worker_pw,   \* worker_password_hash
    admin_pw,    \* admin_password_hash
    fails,       \* rate key -> what is remembered of its failed joins
    leaving,     \* tokens whose request to leave is inside the gate
    owner,       \* thread -> where it is, with its locals
    disk,        \* the row of room_auth
    stale,       \* history: the row was left behind or written over
    ends,        \* history: thread -> passwords its request has ended
    ended,       \* history: passwords whose end has been confirmed
    guesses      \* history: rate key -> failed joins at the passwords in
                 \* force since the last one that succeeded

memory == <<tokens, nodes, generation, worker_pw, admin_pw, fails, leaving>>
history == <<stale, ends, ended>>
roomVars == <<memory, owner, disk, history, guesses>>

Hashes == Passwords \cup {NoPassword}

NoFailures == [recent |-> 0, streak |-> 0, blocked |-> FALSE]
Unissued == [st |-> "unissued", name |-> NoName, gen |-> 0, age |-> "fresh"]
(* A record that is revoked or lost is read no further. *)
Over(t, st) == [Unissued EXCEPT !.st = st, !.name = tokens[t].name]
IdleOwner == [at |-> "idle", boot |-> FALSE, wp |-> NoPassword, ap |-> NoPassword,
              overtaken |-> FALSE]

RoomInit ==
    /\ tokens = [t \in Tokens |-> Unissued]
    /\ nodes = [n \in Names |-> NoToken]
    /\ generation = 0
    /\ worker_pw = NoPassword
    /\ admin_pw = NoPassword
    /\ fails = [k \in RateKeys |-> NoFailures]
    /\ leaving = {}
    /\ owner = [o \in Owners |-> IdleOwner]
    /\ disk = [wp |-> NoPassword, ap |-> NoPassword]
    /\ stale = FALSE
    /\ ends = [o \in Owners |-> {}]
    /\ ended = {}
    /\ guesses = [k \in RateKeys |-> 0]

has_password == worker_pw # NoPassword /\ admin_pw # NoPassword

(* What token_alive and resolve agree on. *)
token_alive(t) ==
    tokens[t].st = "held" /\ tokens[t].gen = generation /\ tokens[t].age # "expired"

Live == {t \in Tokens : token_alive(t) /\ tokens[t].name \in Names}
Taken(n) == {t \in Live : tokens[t].name = n}

-----------------------------------------------------------------------------
(* Joining, and the failures that slow down who guesses.                   *)

_check_join_rate(k) == ~fails[k].blocked /\ fails[k].recent < JoinFailLimit

Capped(i, cap) == IF i < cap THEN i + 1 ELSE cap

_record_fail(f) ==
    LET streak == Capped(f.streak, JoinFailBackoffAfter)
    IN [recent |-> Capped(f.recent, JoinFailLimit), streak |-> streak,
        blocked |-> streak >= JoinFailBackoffAfter]

join_fails(k) ==
    /\ _check_join_rate(k)
    /\ fails' = [fails EXCEPT ![k] = _record_fail(@)]
    /\ guesses' = [guesses EXCEPT ![k] = Capped(@, JoinFailLimit)]
    /\ UNCHANGED <<tokens, nodes, generation, worker_pw, admin_pw, leaving, owner, disk, history>>

(* Faulty: take a silent name over without ending its old token. *)
join_unreclaimed(k, n, t) ==
    /\ _check_join_rate(k)
    /\ worker_pw # NoPassword
    /\ tokens[t].st = "unissued"
    /\ \A x \in Taken(n) : tokens[x].age = "silent"
    /\ Cardinality(Live \ Taken(n)) < Capacity
    /\ tokens' = [tokens EXCEPT
          ![t] = [st |-> "held", name |-> n, gen |-> generation, age |-> "fresh"]]
    /\ nodes' = [nodes EXCEPT ![n] = t]
    /\ fails' = [fails EXCEPT ![k] = NoFailures]
    /\ guesses' = [guesses EXCEPT ![k] = 0]
    /\ UNCHANGED <<generation, worker_pw, admin_pw, leaving, owner, disk, history>>

(* A name is free, or its token has been silent for long enough. *)
join_worker(k, n, t) ==
    /\ _check_join_rate(k)
    /\ worker_pw # NoPassword
    /\ tokens[t].st = "unissued"
    /\ \A x \in Taken(n) : tokens[x].age = "silent"
    /\ Cardinality(Live \ Taken(n)) < Capacity
    /\ tokens' = [x \in Tokens |->
          CASE x = t -> [st |-> "held", name |-> n, gen |-> generation, age |-> "fresh"]
            [] x \in Taken(n) -> Over(x, "revoked")
            [] OTHER -> tokens[x]]
    /\ nodes' = [nodes EXCEPT ![n] = t]
    /\ fails' = [fails EXCEPT ![k] = NoFailures]
    /\ guesses' = [guesses EXCEPT ![k] = 0]
    /\ UNCHANGED <<generation, worker_pw, admin_pw, leaving, owner, disk, history>>

join_admin(k, t) ==
    /\ _check_join_rate(k)
    /\ admin_pw # NoPassword
    /\ tokens[t].st = "unissued"
    /\ tokens' = [tokens EXCEPT
          ![t] = [st |-> "held", name |-> NoName, gen |-> generation, age |-> "fresh"]]
    /\ fails' = [fails EXCEPT ![k] = NoFailures]
    /\ guesses' = [guesses EXCEPT ![k] = 0]
    /\ UNCHANGED <<nodes, generation, worker_pw, admin_pw, leaving, owner, disk, history>>

(* Time: a backoff or the minute of the counted failures is over. *)
_prune_fails(k) ==
    /\ \/ /\ fails[k].blocked
          /\ fails' = [fails EXCEPT ![k].blocked = FALSE]
       \/ /\ fails[k].recent > 0
          /\ fails' = [fails EXCEPT ![k].recent = 0]
    /\ UNCHANGED <<tokens, nodes, generation, worker_pw, admin_pw, leaving, owner, disk, history, guesses>>

-----------------------------------------------------------------------------
(* A token in use, silence, and the ways a token ends.                     *)

SetTokens(f) ==
    /\ tokens' = f
    /\ UNCHANGED <<nodes, generation, worker_pw, admin_pw, fails, leaving, owner, disk, history, guesses>>

resolve(t) ==
    /\ token_alive(t)
    /\ tokens[t].age # "fresh"
    /\ SetTokens([tokens EXCEPT ![t].age = "fresh"])

falls_silent(t) ==
    /\ tokens[t].st = "held"
    /\ tokens[t].age # "expired"
    /\ SetTokens([tokens EXCEPT ![t].age = IF @ = "fresh" THEN "silent" ELSE "expired"])

leave_begin(t) ==
    /\ token_alive(t)
    /\ leaving' = leaving \cup {t}
    /\ UNCHANGED <<tokens, nodes, generation, worker_pw, admin_pw, fails, owner, disk, history, guesses>>

(* Faulty: free the name of a leaving worker whoever has it by now. *)
leave_by_name(t) ==
    /\ t \in leaving
    /\ leaving' = leaving \ {t}
    /\ tokens' = [tokens EXCEPT ![t] = Over(t, "revoked")]
    /\ nodes' = [n \in Names |-> IF tokens[t].name = n THEN NoToken ELSE nodes[n]]
    /\ UNCHANGED <<generation, worker_pw, admin_pw, fails, owner, disk, history, guesses>>

(* Meanwhile the token may have been kicked and its name taken again. *)
leave(t) ==
    /\ t \in leaving
    /\ leaving' = leaving \ {t}
    /\ tokens' = [tokens EXCEPT ![t] = Over(t, "revoked")]
    /\ nodes' = [n \in Names |-> IF nodes[n] = t THEN NoToken ELSE nodes[n]]
    /\ UNCHANGED <<generation, worker_pw, admin_pw, fails, owner, disk, history, guesses>>

kick(n) ==
    /\ nodes[n] # NoToken
    /\ tokens' = [tokens EXCEPT ![nodes[n]] = Over(nodes[n], "revoked")]
    /\ nodes' = [nodes EXCEPT ![n] = NoToken]
    /\ UNCHANGED <<generation, worker_pw, admin_pw, fails, leaving, owner, disk, history, guesses>>

-----------------------------------------------------------------------------
(* The owner's threads.  A lifecycle step enters the gate, so that nobody  *)
(* is leaving then.                                                        *)

BootstrapRuns == \E o \in Owners : owner[o].boot

_revoke_all ==
    /\ leaving = {}
    /\ generation < MaxGeneration
    /\ generation' = generation + 1
    /\ tokens' = [t \in Tokens |-> IF tokens[t].st = "held"
                                     THEN Over(t, "revoked") ELSE tokens[t]]
    /\ nodes' = [n \in Names |-> NoToken]

_clear_join_failures == fails' = [k \in RateKeys |-> NoFailures]

(* History: a guess was at the passwords then in force, and tells nothing  *)
(* of others.                                                              *)
GuessesInForce ==
    guesses' = [k \in RateKeys |->
        IF worker_pw' = worker_pw /\ admin_pw' = admin_pw THEN guesses[k] ELSE 0]

InForce == {worker_pw, admin_pw} \ {NoPassword}

(* History: passwords end by the request of o; W are set.               *)
Ending(o) == ends' = [ends EXCEPT ![o] = InForce] /\ UNCHANGED ended
Replacing(o, old, W) ==
    /\ ends' = [x \in Owners |-> (ends[x] \cup IF x = o THEN old \ {NoPassword} ELSE {}) \ W]
    /\ ended' = ended \ W

(* Faulty: close the room and keep what is remembered of failed joins. *)
close_keeping_failures(o) ==
    /\ owner[o] = IdleOwner
    /\ _revoke_all
    /\ worker_pw' = NoPassword
    /\ admin_pw' = NoPassword
    /\ owner' = [owner EXCEPT ![o] = [IdleOwner EXCEPT !.at = "collect"]]
    /\ Ending(o)
    /\ GuessesInForce
    /\ UNCHANGED <<fails, leaving, disk, stale>>

(* Faulty: close the room in memory only. *)
close_unsaved(o) ==
    /\ owner[o] = IdleOwner
    /\ _revoke_all
    /\ worker_pw' = NoPassword
    /\ admin_pw' = NoPassword
    /\ _clear_join_failures
    /\ ended' = ended \cup InForce
    /\ GuessesInForce
    /\ UNCHANGED <<leaving, owner, disk, stale, ends>>

(* room_close and room_reopen_bootstrap, up to the end of lifecycle_close. *)
lifecycle_close(o) ==
    /\ owner[o] = IdleOwner
    /\ _revoke_all
    /\ worker_pw' = NoPassword
    /\ admin_pw' = NoPassword
    /\ _clear_join_failures
    /\ owner' = [owner EXCEPT ![o] = [IdleOwner EXCEPT !.at = "collect"]]
    /\ Ending(o)
    /\ GuessesInForce
    /\ UNCHANGED <<leaving, disk, stale>>

(* room_bootstrap: two different passwords, and no other bootstrap runs. *)
_apply_room_bootstrap(o, wp, ap) ==
    /\ owner[o] = IdleOwner
    /\ ~BootstrapRuns
    /\ wp # ap
    /\ owner' = [owner EXCEPT ![o] =
          [IdleOwner EXCEPT !.at = IF has_password THEN "rotate" ELSE "set_worker",
                            !.boot = TRUE, !.wp = wp, !.ap = ap]]
    /\ UNCHANGED <<memory, disk, history, guesses>>

(* Faulty: set the admin password before both are compared. *)
rotate_admin_first(o) ==
    /\ owner[o].at = "rotate"
    /\ _revoke_all
    /\ admin_pw' = owner[o].ap
    /\ IF owner[o].wp = admin_pw
         THEN /\ owner' = [owner EXCEPT ![o] = IdleOwner]
              /\ UNCHANGED <<worker_pw, fails, ends, ended>>
         ELSE /\ worker_pw' = owner[o].wp
              /\ _clear_join_failures
              /\ Replacing(o, InForce, {owner[o].wp, owner[o].ap})
              /\ owner' = [owner EXCEPT ![o] = [IdleOwner EXCEPT !.at = "collect", !.boot = TRUE]]
    /\ GuessesInForce
    /\ UNCHANGED <<leaving, disk, stale>>

(* Tokens go first; the new worker password must then differ from the      *)
(* admin password still in force, or the request fails here.               *)
lifecycle_rotate_passwords(o) ==
    /\ owner[o].at = "rotate"
    /\ _revoke_all
    /\ IF owner[o].wp = admin_pw
         THEN /\ owner' = [owner EXCEPT ![o] = IdleOwner]
              /\ UNCHANGED <<worker_pw, admin_pw, fails, ends, ended>>
         ELSE /\ worker_pw' = owner[o].wp
              /\ admin_pw' = owner[o].ap
              /\ _clear_join_failures
              /\ Replacing(o, InForce, {owner[o].wp, owner[o].ap})
              /\ owner' = [owner EXCEPT ![o] = [IdleOwner EXCEPT !.at = "collect", !.boot = TRUE]]
    /\ GuessesInForce
    /\ UNCHANGED <<leaving, disk, stale>>

(* The first passwords of a room are set one after the other. *)
set_worker_password(o) ==
    /\ owner[o].at = "set_worker"
    /\ IF owner[o].wp = admin_pw
         THEN /\ owner' = [owner EXCEPT ![o] = IdleOwner]
              /\ UNCHANGED <<worker_pw, fails, ends, ended>>
         ELSE /\ worker_pw' = owner[o].wp
              /\ _clear_join_failures
              /\ Replacing(o, {worker_pw}, {owner[o].wp})
              /\ owner' = [owner EXCEPT ![o].at = "set_admin"]
    /\ UNCHANGED <<tokens, nodes, generation, admin_pw, leaving, disk, stale>>
    /\ GuessesInForce

set_admin_password(o) ==
    /\ owner[o].at = "set_admin"
    /\ admin_pw' = owner[o].ap
    /\ _clear_join_failures
    /\ Replacing(o, {admin_pw}, {owner[o].ap})
    /\ owner' = [owner EXCEPT ![o] = [IdleOwner EXCEPT !.at = "collect", !.boot = TRUE]]
    /\ UNCHANGED <<tokens, nodes, generation, worker_pw, leaving, disk, stale>>
    /\ GuessesInForce

(* A request ends; saves that began reading before are overtaken by it. *)
Ends(o) ==
    owner' = [x \in Owners |->
        IF x = o THEN IdleOwner
        ELSE [owner[x] EXCEPT !.overtaken = @ \/ owner[x].at \in {"collect_admin", "write"}]]

(* A threshold or a site the settings refuse fails the request here: the   *)
(* room has its new passwords and its row the old ones.                    *)
bootstrap_refused(o) ==
    /\ owner[o].at = "collect"
    /\ owner[o].boot
    /\ Ends(o)
    /\ stale' = TRUE
    /\ ends' = [ends EXCEPT ![o] = {}]
    /\ UNCHANGED <<memory, disk, ended, guesses>>

(* save_room_auth reads the fields one after the other, without the lock. *)
save_room_auth(o) ==
    /\ \/ /\ owner[o].at = "collect"
          /\ owner' = [owner EXCEPT ![o].at = "collect_admin", ![o].wp = worker_pw]
       \/ /\ owner[o].at = "collect_admin"
          /\ owner' = [owner EXCEPT ![o].at = "write", ![o].ap = admin_pw]
    /\ UNCHANGED <<memory, disk, history, guesses>>

(* The row is replaced and committed under the store's lock; the request   *)
(* is answered.                                                            *)
save_room_auth_write(o) ==
    /\ owner[o].at = "write"
    /\ disk' = [wp |-> owner[o].wp, ap |-> owner[o].ap]
    /\ stale' = owner[o].overtaken
    /\ ended' = ended \cup ends[o]
    /\ ends' = [ends EXCEPT ![o] = {}]
    /\ Ends(o)
    /\ UNCHANGED <<memory, guesses>>

(* The host stops and starts again: make_state with load_room_auth.  No    *)
(* token is left to compare with the generation that comes back: count     *)
(* from 0 again.                                                           *)
restart ==
    /\ tokens' = [t \in Tokens |-> IF tokens[t].st = "unissued" THEN tokens[t]
                                   ELSE Over(t, "lost")]
    /\ nodes' = [n \in Names |-> NoToken]
    /\ generation' = 0
    /\ worker_pw' = disk.wp
    /\ admin_pw' = disk.ap
    /\ _clear_join_failures
    /\ leaving' = {}
    /\ owner' = [o \in Owners |-> IdleOwner]
    /\ ends' = [o \in Owners |-> {}]
    /\ GuessesInForce
    /\ UNCHANGED <<disk, stale, ended>>

-----------------------------------------------------------------------------
RoomNext ==
    \/ \E k \in RateKeys :
         \/ join_fails(k) \/ _prune_fails(k)
         \/ \E t \in Tokens : join_admin(k, t) \/ \E n \in Names : join_worker(k, n, t)
    \/ \E t \in Tokens : resolve(t) \/ falls_silent(t) \/ leave_begin(t) \/ leave(t)
    \/ \E n \in Names : kick(n)
    \/ \E o \in Owners :
         \/ lifecycle_close(o) \/ lifecycle_rotate_passwords(o)
         \/ \E wp, ap \in Passwords : _apply_room_bootstrap(o, wp, ap)
         \/ set_worker_password(o) \/ set_admin_password(o) \/ bootstrap_refused(o)
         \/ save_room_auth(o) \/ save_room_auth_write(o)
    \/ restart

RoomSpec == RoomInit /\ [][RoomNext]_roomVars

-----------------------------------------------------------------------------
Ages == {"fresh", "silent", "expired"}

TokenRec == [st : {"unissued", "held", "revoked", "lost"},
             name : Names \cup {NoName}, gen : 0 .. MaxGeneration, age : Ages]
FailRec == [recent : 0 .. JoinFailLimit, streak : 0 .. JoinFailBackoffAfter,
            blocked : BOOLEAN]
OwnerRec == [at : {"idle", "rotate", "set_worker", "set_admin", "collect",
                   "collect_admin", "write"},
             boot : BOOLEAN, wp : Hashes, ap : Hashes, overtaken : BOOLEAN]

(* Every variable has its type (the fields of Room, room.py:66).           *)
RoomTypeOK ==
    /\ tokens \in [Tokens -> TokenRec]
    /\ nodes \in [Names -> Tokens \cup {NoToken}]
    /\ generation \in 0 .. MaxGeneration
    /\ worker_pw \in Hashes /\ admin_pw \in Hashes
    /\ fails \in [RateKeys -> FailRec]
    /\ leaving \subseteq Tokens
    /\ owner \in [Owners -> OwnerRec]
    /\ disk \in [wp : Hashes, ap : Hashes]
    /\ stale \in BOOLEAN
    /\ ends \in [Owners -> SUBSET Passwords]
    /\ ended \subseteq Passwords
    /\ guesses \in [RateKeys -> 0 .. JoinFailLimit]

(* kick finds a worker by the entry of its name: the entry of every worker *)
(* whose token opens the room is that token, and no entry leads to a token *)
(* that was revoked or that has another name (_nodes, room.py:82).         *)
NodesIndexed ==
    /\ \A t \in Live : nodes[tokens[t].name] = t
    /\ \A n \in Names : nodes[n] # NoToken =>
          tokens[nodes[n]].st = "held" /\ tokens[nodes[n]].name = n

(* What the registry sees of the tokens. *)
TokenLife == [t \in Tokens |-> IF token_alive(t) THEN "alive"
                               ELSE IF tokens[t].st = "unissued" THEN "unissued" ELSE "ended"]
TokenHolder == [t \in Tokens |-> tokens[t].name]

(* The tokens of a room, through takeovers, kicks, closings and crashes,   *)
(* behave as TokenRegistry says (join, resolve, leave, kick, the lifecycle *)
(* methods and load_room_auth of room.py and room_persist.py).             *)
Registry == INSTANCE TokenRegistry WITH life <- TokenLife, holder <- TokenHolder
ImplementsRegistry == Registry!RegistrySpec

(* A client is held off only for its guesses at the passwords in force     *)
(* since it was last let in: whatever closings, rotations, requests that   *)
(* fail half way and restarts come between, no failure counts that was     *)
(* made at passwords that were replaced or ended (the calls of             *)
(* _clear_join_failures_unlocked, room.py:227).                            *)
PenaltyEarned ==
    \A k \in RateKeys :
        /\ fails[k].blocked => guesses[k] >= JoinFailBackoffAfter
        /\ fails[k].recent <= guesses[k]

(* A password whose end was confirmed to an owner opens the room no more,  *)
(* not after a crash either, while no older save went over a newer one and *)
(* no bootstrap was refused after it had set passwords (room_close,        *)
(* server.py:2698, and _persist_room_meta, server.py:1583).                *)
EndedStaysEnded == ~stale => (InForce \cup {disk.wp, disk.ap}) \cap ended = {}

(* When no request of an owner is under way, a restart would change no     *)
(* password, with the same two exceptions: no order of closings, rotations *)
(* and requests that fail half way leaves the row behind.                  *)
RowIsCurrent ==
    (\A o \in Owners : owner[o] = IdleOwner) /\ ~stale
        => disk.wp = worker_pw /\ disk.ap = admin_pw

(* The same without exceptions: the row is authoritative across a restart  *)
(* of the host, as server.py:1585 says.  A bootstrap whose threshold is    *)
(* refused and two overlapping saves break it.                             *)
RowIsAuthoritative ==
    (\A o \in Owners : owner[o] = IdleOwner) => disk.wp = worker_pw /\ disk.ap = admin_pw
=============================================================================
