----------------------------- MODULE RoomProofs -----------------------------
(***************************************************************************)
(* The safety properties of Room and its refinement of TokenRegistry, for  *)
(* any tokens, names, passwords and owners; then those of LocalAgent,      *)
(* whose room's part are steps of Room, for any threads and agents.        *)
(***************************************************************************)
EXTENDS LocalAgent, FiniteSetTheorems, TLAPS

-----------------------------------------------------------------------------
(* Room: types.                                                            *)

LEMMA Bounds ==
  /\ {Capacity, JoinFailLimit, JoinFailBackoffAfter, MaxGeneration} \subseteq Nat
  /\ JoinFailBackoffAfter <= JoinFailLimit
  BY RoomAssumption

LEMMA RecordsTyped ==
  RoomTypeOK =>
    /\ tokens \in [Tokens -> TokenRec]
    /\ fails \in [RateKeys -> FailRec]
    /\ owner \in [Owners -> OwnerRec]
  BY DEF RoomTypeOK

LEMMA SomeRecords ==
  /\ NoFailures \in FailRec
  /\ IdleOwner \in OwnerRec
  /\ Unissued \in TokenRec
  BY RoomAssumption DEF NoFailures, FailRec, IdleOwner, OwnerRec, Unissued, TokenRec, Hashes, Ages

LEMMA InitTyped == RoomInit => RoomTypeOK
<1> SUFFICES ASSUME RoomInit PROVE RoomTypeOK
  OBVIOUS
<1>1. /\ tokens \in [Tokens -> TokenRec]
      /\ fails \in [RateKeys -> FailRec]
      /\ owner \in [Owners -> OwnerRec]
  BY SomeRecords DEF RoomInit
<1>2. nodes \in [Names -> Tokens \cup {NoToken}] /\ generation \in 0 .. MaxGeneration
  BY Bounds DEF RoomInit
<1>3. /\ worker_pw \in Hashes /\ admin_pw \in Hashes
      /\ leaving \subseteq Tokens
      /\ disk \in [wp : Hashes, ap : Hashes]
      /\ stale \in BOOLEAN
      /\ ends \in [Owners -> SUBSET Passwords]
      /\ ended \subseteq Passwords
  BY DEF RoomInit, Hashes
<1>4. guesses \in [RateKeys -> 0 .. JoinFailLimit]
  BY Bounds DEF RoomInit
<1> QED BY <1>1, <1>2, <1>3, <1>4 DEF RoomTypeOK

LEMMA OverIs ==
  ASSUME NEW t \in Tokens, NEW st
  PROVE  Over(t, st).st = st /\ Over(t, st).name = tokens[t].name
  BY DEF Over, Unissued

LEMMA OverTyped ==
  ASSUME RoomTypeOK, NEW t \in Tokens, NEW st \in {"unissued", "held", "revoked", "lost"}
  PROVE  Over(t, st) \in TokenRec
<1>1. tokens[t].name \in Names \cup {NoName}
  BY RecordsTyped DEF TokenRec
<1> QED BY <1>1, SomeRecords DEF Over, TokenRec

LEMMA GuessesTyped ==
  ASSUME RoomTypeOK,
         \/ GuessesInForce
         \/ \E k \in RateKeys : \E i \in {0, Capped(guesses[k], JoinFailLimit)} :
              guesses' = [guesses EXCEPT ![k] = i]
  PROVE  guesses' \in [RateKeys -> 0 .. JoinFailLimit]
<1>1. guesses \in [RateKeys -> 0 .. JoinFailLimit] /\ 0 \in 0 .. JoinFailLimit
  BY Bounds DEF RoomTypeOK
<1>2. \A i \in 0 .. JoinFailLimit : Capped(i, JoinFailLimit) \in 0 .. JoinFailLimit
  BY Bounds DEF Capped
<1> QED BY <1>1, <1>2 DEF GuessesInForce

LEMMA JoinTyped ==
  ASSUME RoomTypeOK, NEW k \in RateKeys,
         \/ join_fails(k)
         \/ _prune_fails(k)
         \/ \E t \in Tokens : join_admin(k, t) \/ \E n \in Names : join_worker(k, n, t)
  PROVE  RoomTypeOK'
<1>0. fails[k] \in FailRec
  BY RecordsTyped
<1>1. CASE join_fails(k)
  <2>1. _record_fail(fails[k]) \in FailRec
    BY <1>0, Bounds DEF _record_fail, Capped, FailRec
  <2>2. fails' \in [RateKeys -> FailRec]
    BY <1>1, <2>1, RecordsTyped DEF join_fails
  <2>3. guesses' \in [RateKeys -> 0 .. JoinFailLimit]
    BY <1>1, GuessesTyped DEF join_fails
  <2> QED BY <1>1, <2>2, <2>3 DEF join_fails, RoomTypeOK, history
<1>2. CASE _prune_fails(k)
  <2>1. /\ [fails[k] EXCEPT !.blocked = FALSE] \in FailRec
        /\ [fails[k] EXCEPT !.recent = 0] \in FailRec
    <3>1. 0 \in 0 .. JoinFailLimit /\ FALSE \in BOOLEAN
      BY Bounds
    <3> QED BY <1>0, <3>1 DEF FailRec
  <2>2. fails' \in [RateKeys -> FailRec]
    BY <1>2, <2>1, RecordsTyped DEF _prune_fails
  <2> QED BY <1>2, <2>2 DEF _prune_fails, RoomTypeOK, history
<1>3. generation \in 0 .. MaxGeneration /\ "fresh" \in Ages /\ "held" \in {"held"}
  BY DEF RoomTypeOK, Ages
<1>4. CASE \E t \in Tokens : join_admin(k, t)
  <2> PICK t \in Tokens : join_admin(k, t)
    BY <1>4
  <2>1. [st |-> "held", name |-> NoName, gen |-> generation, age |-> "fresh"] \in TokenRec
    BY <1>3 DEF TokenRec
  <2>2. tokens' \in [Tokens -> TokenRec]
    BY <2>1, RecordsTyped DEF join_admin
  <2>3. fails' \in [RateKeys -> FailRec]
    BY RecordsTyped, SomeRecords DEF join_admin
  <2>4. guesses' \in [RateKeys -> 0 .. JoinFailLimit]
    BY GuessesTyped DEF join_admin
  <2> QED BY <2>2, <2>3, <2>4 DEF join_admin, RoomTypeOK, history
<1>5. CASE \E t \in Tokens, n \in Names : join_worker(k, n, t)
  <2> PICK t \in Tokens, n \in Names : join_worker(k, n, t)
    BY <1>5
  <2>1. [st |-> "held", name |-> n, gen |-> generation, age |-> "fresh"] \in TokenRec
    BY <1>3 DEF TokenRec
  <2>2. \A x \in Tokens : Over(x, "revoked") \in TokenRec /\ tokens[x] \in TokenRec
    BY OverTyped, RecordsTyped
  <2>3. tokens' \in [Tokens -> TokenRec]
    BY <2>1, <2>2 DEF join_worker
  <2>4. fails' \in [RateKeys -> FailRec]
    BY RecordsTyped, SomeRecords DEF join_worker
  <2>5. nodes' \in [Names -> Tokens \cup {NoToken}]
    BY DEF join_worker, RoomTypeOK
  <2>6. guesses' \in [RateKeys -> 0 .. JoinFailLimit]
    BY GuessesTyped DEF join_worker
  <2> QED BY <2>3, <2>4, <2>5, <2>6 DEF join_worker, RoomTypeOK, history
<1> QED BY <1>1, <1>2, <1>4, <1>5

LEMMA TokenTyped ==
  ASSUME RoomTypeOK, NEW t \in Tokens,
         resolve(t) \/ falls_silent(t) \/ leave_begin(t) \/ leave(t)
  PROVE  RoomTypeOK'
<1>1. CASE resolve(t) \/ falls_silent(t)
  <2>1. \A a \in Ages : [tokens[t] EXCEPT !.age = a] \in TokenRec
    BY RecordsTyped DEF TokenRec
  <2>2. tokens' \in [Tokens -> TokenRec]
    BY <1>1, <2>1, RecordsTyped DEF resolve, falls_silent, SetTokens, Ages
  <2> QED BY <1>1, <2>2
          DEF resolve, falls_silent, SetTokens, RoomTypeOK, history
<1>2. CASE leave_begin(t)
  BY <1>2 DEF leave_begin, RoomTypeOK, history
<1>3. CASE leave(t)
  <2>1. tokens' \in [Tokens -> TokenRec]
    BY <1>3, OverTyped, RecordsTyped DEF leave
  <2> QED BY <1>3, <2>1 DEF leave, RoomTypeOK, history
<1> QED BY <1>1, <1>2, <1>3

LEMMA KickTyped ==
  ASSUME RoomTypeOK, NEW n \in Names, kick(n)
  PROVE  RoomTypeOK'
<1>1. nodes[n] \in Tokens
  BY DEF kick, RoomTypeOK
<1>2. tokens' \in [Tokens -> TokenRec]
  BY <1>1, OverTyped, RecordsTyped DEF kick
<1> QED BY <1>2 DEF kick, RoomTypeOK, history

LEMMA RevokeTyped ==
  ASSUME RoomTypeOK, _revoke_all
  PROVE  /\ tokens' \in [Tokens -> TokenRec]
         /\ nodes' \in [Names -> Tokens \cup {NoToken}]
         /\ generation' \in 0 .. MaxGeneration
<1>1. \A t \in Tokens : Over(t, "revoked") \in TokenRec /\ tokens[t] \in TokenRec
  BY OverTyped, RecordsTyped
<1>2. generation' \in 0 .. MaxGeneration
  BY Bounds DEF _revoke_all, RoomTypeOK
<1> QED BY <1>1, <1>2 DEF _revoke_all

LEMMA ClearTyped == _clear_join_failures => fails' \in [RateKeys -> FailRec]
  BY SomeRecords DEF _clear_join_failures

LEMMA EndingTyped ==
  ASSUME RoomTypeOK, NEW o \in Owners, NEW old \in SUBSET Hashes, NEW W,
         Ending(o) \/ Replacing(o, old, W)
  PROVE  ends' \in [Owners -> SUBSET Passwords] /\ ended' \subseteq Passwords
<1>1. InForce \in SUBSET Passwords /\ old \ {NoPassword} \in SUBSET Passwords
  BY DEF InForce, RoomTypeOK, Hashes
<1>2. CASE Ending(o)
  BY <1>1, <1>2 DEF Ending, RoomTypeOK
<1>3. CASE Replacing(o, old, W)
  BY <1>1, <1>3 DEF Replacing, RoomTypeOK
<1> QED BY <1>2, <1>3

LEMMA EndsTyped ==
  ASSUME RoomTypeOK, NEW o \in Owners, Ends(o)
  PROVE  owner' \in [Owners -> OwnerRec]
<1>1. \A x \in Owners : owner[x] \in OwnerRec
  BY RecordsTyped
<1>2. \A x \in Owners, b \in BOOLEAN : [owner[x] EXCEPT !.overtaken = b] \in OwnerRec
  BY <1>1 DEF OwnerRec
<1>3. \A x \in Owners : (owner[x].overtaken \/ owner[x].at \in {"collect_admin", "write"})
                          \in BOOLEAN
  OBVIOUS
<1> QED BY <1>2, <1>3, SomeRecords DEF Ends

LEMMA OwnerTyped ==
  ASSUME RoomTypeOK, NEW o \in Owners,
         \/ lifecycle_close(o)
         \/ lifecycle_rotate_passwords(o)
         \/ \E wp, ap \in Passwords : _apply_room_bootstrap(o, wp, ap)
         \/ set_worker_password(o)
         \/ set_admin_password(o)
         \/ bootstrap_refused(o)
         \/ save_room_auth(o)
         \/ save_room_auth_write(o)
  PROVE  RoomTypeOK'
<1>0. /\ owner[o] \in OwnerRec
      /\ \A x \in Owners : owner[x] \in OwnerRec
  BY RecordsTyped
<1>p. /\ NoPassword \in Hashes /\ Passwords \subseteq Hashes
      /\ owner[o].wp \in Hashes /\ owner[o].ap \in Hashes
      /\ InForce \in SUBSET Hashes /\ {worker_pw} \in SUBSET Hashes /\ {admin_pw} \in SUBSET Hashes
      /\ worker_pw \in Hashes /\ admin_pw \in Hashes
  BY <1>0 DEF Hashes, OwnerRec, InForce, RoomTypeOK
<1>a. /\ [IdleOwner EXCEPT !.at = "collect"] \in OwnerRec
      /\ [IdleOwner EXCEPT !.at = "collect", !.boot = TRUE] \in OwnerRec
  BY SomeRecords DEF OwnerRec
<1>b. \A c \in {"rotate", "set_worker"}, wp, ap \in Hashes :
         [IdleOwner EXCEPT !.at = c, !.boot = TRUE, !.wp = wp, !.ap = ap] \in OwnerRec
  BY SomeRecords DEF OwnerRec
<1>c. [owner[o] EXCEPT !.at = "set_admin"] \in OwnerRec
  BY <1>0 DEF OwnerRec
<1>d. /\ [owner[o] EXCEPT !.at = "collect_admin", !.wp = worker_pw] \in OwnerRec
      /\ [owner[o] EXCEPT !.at = "write", !.ap = admin_pw] \in OwnerRec
  BY <1>0, <1>p DEF OwnerRec
<1>1. CASE lifecycle_close(o)
  <2>1. owner' \in [Owners -> OwnerRec]
    BY <1>1, <1>a, RecordsTyped DEF lifecycle_close
  <2>2. ends' \in [Owners -> SUBSET Passwords] /\ ended' \subseteq Passwords
    BY <1>1, <1>p, EndingTyped DEF lifecycle_close
  <2>3. fails' \in [RateKeys -> FailRec]
    BY <1>1, ClearTyped DEF lifecycle_close
  <2>4. /\ tokens' \in [Tokens -> TokenRec]
        /\ nodes' \in [Names -> Tokens \cup {NoToken}]
        /\ generation' \in 0 .. MaxGeneration
    BY <1>1, RevokeTyped DEF lifecycle_close
  <2>6. guesses' \in [RateKeys -> 0 .. JoinFailLimit]
    BY <1>1, GuessesTyped DEF lifecycle_close
  <2> QED BY <1>1, <1>p, <2>1, <2>2, <2>3, <2>4, <2>6 DEF lifecycle_close, RoomTypeOK
<1>2. CASE lifecycle_rotate_passwords(o)
  <2>1. /\ tokens' \in [Tokens -> TokenRec]
        /\ nodes' \in [Names -> Tokens \cup {NoToken}]
        /\ generation' \in 0 .. MaxGeneration
    BY <1>2, RevokeTyped DEF lifecycle_rotate_passwords
  <2>2. owner' \in [Owners -> OwnerRec]
    BY <1>2, <1>a, RecordsTyped, SomeRecords DEF lifecycle_rotate_passwords
  <2>3. ends' \in [Owners -> SUBSET Passwords] /\ ended' \subseteq Passwords
    BY <1>2, <1>p, EndingTyped DEF lifecycle_rotate_passwords, RoomTypeOK
  <2>4. fails' \in [RateKeys -> FailRec]
    BY <1>2, ClearTyped, RecordsTyped DEF lifecycle_rotate_passwords
  <2>5. worker_pw' \in Hashes /\ admin_pw' \in Hashes
    BY <1>2, <1>p DEF lifecycle_rotate_passwords
  <2>6. guesses' \in [RateKeys -> 0 .. JoinFailLimit]
    BY <1>2, GuessesTyped DEF lifecycle_rotate_passwords
  <2> QED BY <1>2, <2>1, <2>2, <2>3, <2>4, <2>5, <2>6 DEF lifecycle_rotate_passwords, RoomTypeOK
<1>3. CASE \E wp, ap \in Passwords : _apply_room_bootstrap(o, wp, ap)
  <2> PICK wp \in Passwords, ap \in Passwords : _apply_room_bootstrap(o, wp, ap)
    BY <1>3
  <2> DEFINE c == IF has_password THEN "rotate" ELSE "set_worker"
  <2>0. [IdleOwner EXCEPT !.at = c, !.boot = TRUE, !.wp = wp, !.ap = ap] \in OwnerRec
    <3>1. c \in {"rotate", "set_worker"} /\ wp \in Hashes /\ ap \in Hashes
      BY <1>p
    <3> HIDE DEF c
    <3> QED BY <1>b, <3>1
  <2>1. owner' \in [Owners -> OwnerRec]
    BY <2>0, RecordsTyped DEF _apply_room_bootstrap
  <2> QED BY <2>1 DEF _apply_room_bootstrap, RoomTypeOK, memory, history
<1>4. CASE set_worker_password(o)
  <2>1. owner' \in [Owners -> OwnerRec]
    BY <1>4, <1>c, RecordsTyped, SomeRecords DEF set_worker_password
  <2>2. ends' \in [Owners -> SUBSET Passwords] /\ ended' \subseteq Passwords
    BY <1>4, <1>p, EndingTyped DEF set_worker_password, RoomTypeOK
  <2>3. fails' \in [RateKeys -> FailRec]
    BY <1>4, ClearTyped, RecordsTyped DEF set_worker_password
  <2>4. worker_pw' \in Hashes
    BY <1>4, <1>p DEF set_worker_password
  <2>6. guesses' \in [RateKeys -> 0 .. JoinFailLimit]
    BY <1>4, GuessesTyped DEF set_worker_password
  <2> QED BY <1>4, <2>1, <2>2, <2>3, <2>4, <2>6 DEF set_worker_password, RoomTypeOK
<1>5. CASE set_admin_password(o)
  <2>1. owner' \in [Owners -> OwnerRec]
    BY <1>5, <1>a, RecordsTyped DEF set_admin_password
  <2>2. ends' \in [Owners -> SUBSET Passwords] /\ ended' \subseteq Passwords
    BY <1>5, <1>p, EndingTyped DEF set_admin_password
  <2>3. fails' \in [RateKeys -> FailRec]
    BY <1>5, ClearTyped DEF set_admin_password
  <2>4. admin_pw' \in Hashes
    BY <1>5, <1>p DEF set_admin_password
  <2>6. guesses' \in [RateKeys -> 0 .. JoinFailLimit]
    BY <1>5, GuessesTyped DEF set_admin_password
  <2> QED BY <1>5, <2>1, <2>2, <2>3, <2>4, <2>6 DEF set_admin_password, RoomTypeOK
<1>6. CASE bootstrap_refused(o)
  <2>1. owner' \in [Owners -> OwnerRec]
    BY <1>6, EndsTyped DEF bootstrap_refused
  <2> QED BY <1>6, <2>1 DEF bootstrap_refused, RoomTypeOK, memory
<1>7. CASE save_room_auth(o)
  <2>1. owner' \in [Owners -> OwnerRec]
    BY <1>7, <1>d, RecordsTyped DEF save_room_auth
  <2> QED BY <1>7, <2>1 DEF save_room_auth, RoomTypeOK, memory, history
<1>8. CASE save_room_auth_write(o)
  <2>1. owner' \in [Owners -> OwnerRec]
    BY <1>8, EndsTyped DEF save_room_auth_write
  <2>2. disk' \in [wp : Hashes, ap : Hashes] /\ stale' \in BOOLEAN
    BY <1>8, <1>0, <1>p DEF save_room_auth_write, OwnerRec
  <2>3. ends' \in [Owners -> SUBSET Passwords] /\ ended' \subseteq Passwords
    BY <1>8 DEF save_room_auth_write, RoomTypeOK
  <2> QED BY <1>8, <2>1, <2>2, <2>3 DEF save_room_auth_write, RoomTypeOK, memory
<1> QED BY <1>1, <1>2, <1>3, <1>4, <1>5, <1>6, <1>7, <1>8

LEMMA RestartTyped ==
  ASSUME RoomTypeOK, restart
  PROVE  RoomTypeOK'
<1>1. \A t \in Tokens : Over(t, "lost") \in TokenRec /\ tokens[t] \in TokenRec
  BY OverTyped, RecordsTyped
<1>2. tokens' \in [Tokens -> TokenRec]
  BY <1>1 DEF restart
<1>3. owner' \in [Owners -> OwnerRec] /\ fails' \in [RateKeys -> FailRec]
  BY SomeRecords, ClearTyped DEF restart
<1>4. generation' \in 0 .. MaxGeneration
  BY Bounds DEF restart
<1>5. guesses' \in [RateKeys -> 0 .. JoinFailLimit]
  BY GuessesTyped DEF restart
<1> QED BY <1>2, <1>3, <1>4, <1>5 DEF restart, RoomTypeOK

LEMMA TypeStep == RoomTypeOK /\ [RoomNext]_roomVars => RoomTypeOK'
<1> SUFFICES ASSUME RoomTypeOK, [RoomNext]_roomVars PROVE RoomTypeOK'
  OBVIOUS
<1>1. CASE UNCHANGED roomVars
  BY <1>1 DEF roomVars, memory, history, RoomTypeOK
<1>2. CASE RoomNext
  BY <1>2, JoinTyped, TokenTyped, KickTyped, OwnerTyped, RestartTyped DEF RoomNext
<1> QED BY <1>1, <1>2

(* Every variable of the room keeps its type, whatever the owners, the     *)
(* machines and crashes do (class Room, room.py:66).                       *)
THEOREM RoomTypes == RoomSpec => []RoomTypeOK
  BY InitTyped, TypeStep, PTL DEF RoomSpec

-----------------------------------------------------------------------------
(* Tokens and the index of their names.                                    *)

(* A token nobody was handed yet is blank, and who is leaving was handed   *)
(* the token: no step invents a token.                                     *)
IssuedOnly ==
    /\ \A t \in Tokens : tokens[t].st = "unissued" => tokens[t] = Unissued
    /\ \A t \in leaving : tokens[t].st # "unissued"

(* What the steps of the room may do to its tokens. *)
Untouched == UNCHANGED <<tokens, nodes, generation, leaving>>
AllRevoked == _revoke_all /\ UNCHANGED leaving

LEMMA TokenSteps ==
  ASSUME [RoomNext]_roomVars
  PROVE  \/ Untouched \/ AllRevoked \/ restart
         \/ \E k \in RateKeys, t \in Tokens : join_admin(k, t)
         \/ \E k \in RateKeys, t \in Tokens, n \in Names : join_worker(k, n, t)
         \/ \E t \in Tokens : resolve(t) \/ falls_silent(t) \/ leave_begin(t) \/ leave(t)
         \/ \E n \in Names : kick(n)
<1>1. CASE UNCHANGED roomVars
  BY <1>1 DEF roomVars, memory, Untouched
<1>2. ASSUME NEW k \in RateKeys, join_fails(k) \/ _prune_fails(k)
      PROVE  Untouched
  BY <1>2 DEF join_fails, _prune_fails, Untouched
<1>3. ASSUME NEW o \in Owners, lifecycle_close(o) \/ lifecycle_rotate_passwords(o)
      PROVE  AllRevoked
  BY <1>3 DEF lifecycle_close, lifecycle_rotate_passwords, AllRevoked
<1>4. ASSUME NEW o \in Owners,
             \/ \E wp, ap \in Passwords : _apply_room_bootstrap(o, wp, ap)
             \/ bootstrap_refused(o) \/ save_room_auth(o) \/ save_room_auth_write(o)
      PROVE  Untouched
  BY <1>4 DEF _apply_room_bootstrap, bootstrap_refused, save_room_auth, save_room_auth_write,
              memory, Untouched
<1>5. ASSUME NEW o \in Owners, set_worker_password(o) \/ set_admin_password(o)
      PROVE  Untouched
  BY <1>5 DEF set_worker_password, set_admin_password, Untouched
<1> QED BY <1>1, <1>2, <1>3, <1>4, <1>5 DEF RoomNext

LEMMA JoinTokens ==
  ASSUME NEW k \in RateKeys, NEW n \in Names, NEW t \in Tokens, join_worker(k, n, t)
  PROVE  /\ tokens'[t] = [st |-> "held", name |-> n, gen |-> generation, age |-> "fresh"]
         /\ \A x \in Tokens \ {t} : x \notin Taken(n) => tokens'[x] = tokens[x]
         /\ \A x \in Tokens \ {t} : x \in Taken(n) => tokens'[x] = Over(x, "revoked")
         /\ \A x \in Tokens \ {t} : x \in Taken(n) => tokens'[x].st = "revoked"
         /\ tokens'[t].st = "held"
<1>1. tokens' = [x \in Tokens |->
          CASE x = t -> [st |-> "held", name |-> n, gen |-> generation, age |-> "fresh"]
            [] x \in Taken(n) -> Over(x, "revoked")
            [] OTHER -> tokens[x]]
  BY DEF join_worker
<1>2. t \notin Taken(n)
  BY DEF join_worker, Taken, Live, token_alive
<1>3. tokens'[t] = [st |-> "held", name |-> n, gen |-> generation, age |-> "fresh"]
  BY <1>1, <1>2
<1>4. ASSUME NEW x \in Tokens \ {t}
      PROVE  /\ x \notin Taken(n) => tokens'[x] = tokens[x]
             /\ x \in Taken(n) => tokens'[x] = Over(x, "revoked")
  BY <1>1
<1> QED BY <1>3, <1>4, OverIs

LEMMA IssuedStep ==
  ASSUME RoomTypeOK, IssuedOnly, [RoomNext]_roomVars
  PROVE  IssuedOnly'
<1>0. \A t \in Tokens : tokens[t] \in TokenRec
  BY RecordsTyped
<1>1. CASE Untouched
  BY <1>1 DEF Untouched, IssuedOnly
<1>2. CASE AllRevoked
  BY <1>2 DEF AllRevoked, _revoke_all, IssuedOnly, Over, Unissued, RoomTypeOK
<1>3. CASE restart
  BY <1>3 DEF restart, IssuedOnly, Over, Unissued
<1>4. CASE \E k \in RateKeys, t \in Tokens : join_admin(k, t)
  BY <1>4 DEF join_admin, IssuedOnly, RoomTypeOK
<1>5. CASE \E k \in RateKeys, t \in Tokens, n \in Names : join_worker(k, n, t)
  <2> PICK k \in RateKeys, t \in Tokens, n \in Names : join_worker(k, n, t)
    BY <1>5
  <2>1. /\ tokens'[t].st = "held" /\ leaving' = leaving
        /\ \A x \in Tokens \ {t} : tokens'[x] = tokens[x] \/ tokens'[x].st = "revoked"
    <3>1. \A x \in Tokens \ {t} : x \notin Taken(n) => tokens'[x] = tokens[x]
      BY JoinTokens
    <3>2. \A x \in Tokens \ {t} : x \in Taken(n) => tokens'[x].st = "revoked"
      BY JoinTokens
    <3>3. tokens'[t].st = "held"
      BY JoinTokens
    <3>4. leaving' = leaving
      BY DEF join_worker
    <3> QED BY <3>1, <3>2, <3>3, <3>4
  <2> QED BY <2>1 DEF IssuedOnly, RoomTypeOK
<1>6. CASE \E t \in Tokens : resolve(t) \/ falls_silent(t)
  <2>1. \A t \in Tokens : tokens'[t].st = tokens[t].st /\ (tokens[t].st # "held" => tokens'[t] = tokens[t])
    BY <1>0, <1>6 DEF resolve, falls_silent, SetTokens, token_alive, RoomTypeOK, TokenRec
  <2> QED BY <1>6, <2>1 DEF resolve, falls_silent, SetTokens, IssuedOnly, RoomTypeOK
<1>7. CASE \E t \in Tokens : leave_begin(t)
  BY <1>7 DEF leave_begin, token_alive, IssuedOnly
<1>8. CASE \E t \in Tokens : leave(t)
  BY <1>8 DEF leave, IssuedOnly, Over, Unissued, RoomTypeOK
<1>9. CASE \E n \in Names : kick(n)
  BY <1>9 DEF kick, IssuedOnly, Over, Unissued, RoomTypeOK
<1> QED BY TokenSteps, <1>1, <1>2, <1>3, <1>4, <1>5, <1>6, <1>7, <1>8, <1>9

LEMMA IndexStep ==
  ASSUME RoomTypeOK, IssuedOnly, NodesIndexed, [RoomNext]_roomVars
  PROVE  NodesIndexed'
<1>0. /\ \A t \in Tokens : tokens[t] \in TokenRec
      /\ tokens \in [Tokens -> TokenRec]
      /\ nodes \in [Names -> Tokens \cup {NoToken}]
      /\ NoToken \notin Tokens /\ NoName \notin Names
  BY RecordsTyped, RoomAssumption DEF RoomTypeOK
<1> USE DEF Live, token_alive
<1>1. CASE Untouched
  BY <1>1 DEF Untouched, NodesIndexed
<1>2. CASE AllRevoked \/ restart
  <2>1. \A t \in Tokens : tokens'[t].st # "held"
    BY <1>2, OverIs DEF AllRevoked, _revoke_all, restart
  <2>2. \A n \in Names : nodes'[n] = NoToken
    BY <1>2 DEF AllRevoked, _revoke_all, restart
  <2> QED BY <2>1, <2>2 DEF NodesIndexed
<1>4. ASSUME NEW k \in RateKeys, NEW t \in Tokens, join_admin(k, t)
      PROVE  NodesIndexed'
  BY <1>0, <1>4 DEF join_admin, NodesIndexed
<1>5. ASSUME NEW k \in RateKeys, NEW t \in Tokens, NEW n \in Names, join_worker(k, n, t)
      PROVE  NodesIndexed'
  <2>1. /\ tokens'[t].name = n /\ tokens'[t].st = "held" /\ nodes'[n] = t
        /\ \A m \in Names \ {n} : nodes'[m] = nodes[m]
        /\ generation' = generation
    <3>1. tokens'[t] = [st |-> "held", name |-> n, gen |-> generation, age |-> "fresh"]
      BY <1>5, JoinTokens
    <3>2. nodes' = [nodes EXCEPT ![n] = t] /\ generation' = generation
      BY <1>5 DEF join_worker
    <3> QED BY <1>0, <3>1, <3>2
  <2>2. \A x \in Tokens \ {t} : x \in Taken(n) => tokens'[x].st = "revoked"
    BY <1>5, JoinTokens
  <2>3. \A x \in Tokens \ {t} : x \notin Taken(n) => tokens'[x] = tokens[x]
    BY <1>5, JoinTokens
  <2>4. \A x \in Tokens \ {t} : x \in Live' => x \in Live \ Taken(n)
    BY <2>1, <2>2, <2>3
  <2>5. \A x \in Live' : nodes'[tokens'[x].name] = x
    BY <2>1, <2>3, <2>4 DEF NodesIndexed, Taken
  <2>6. tokens[t].st # "held"
    BY <1>5 DEF join_worker
  <2>7. ASSUME NEW m \in Names, nodes'[m] # NoToken
        PROVE  tokens'[nodes'[m]].st = "held" /\ tokens'[nodes'[m]].name = m
    <3>1. CASE m = n
      BY <2>1, <3>1
    <3>2. CASE m # n
      <4>1. nodes[m] # NoToken /\ nodes'[m] = nodes[m]
        BY <2>1, <2>7, <3>2
      <4>2. nodes[m] \in Tokens /\ tokens[nodes[m]].st = "held" /\ tokens[nodes[m]].name = m
        BY <1>0, <4>1 DEF NodesIndexed
      <4>3. nodes[m] # t /\ nodes[m] \notin Taken(n)
        BY <2>6, <3>2, <4>2 DEF Taken
      <4> QED BY <2>3, <4>1, <4>2, <4>3
    <3> QED BY <3>1, <3>2
  <2> QED BY <2>5, <2>7 DEF NodesIndexed
<1>6. ASSUME NEW t \in Tokens, resolve(t) \/ falls_silent(t)
      PROVE  NodesIndexed'
  <2>1. /\ nodes' = nodes /\ generation' = generation
        /\ \A x \in Tokens : /\ tokens'[x].st = tokens[x].st /\ tokens'[x].name = tokens[x].name
                             /\ tokens'[x].gen = tokens[x].gen
                             /\ x \in Live' => x \in Live
    BY <1>0, <1>6 DEF resolve, falls_silent, SetTokens, TokenRec, Ages
  <2>2. ASSUME NEW x \in Live' PROVE nodes'[tokens'[x].name] = x
    <3>1. x \in Tokens /\ x \in Live
      BY <2>1
    <3>2. nodes[tokens[x].name] = x
      BY <3>1 DEF NodesIndexed
    <3> QED BY <2>1, <3>1, <3>2
  <2>3. ASSUME NEW n \in Names, nodes'[n] # NoToken
        PROVE  tokens'[nodes'[n]].st = "held" /\ tokens'[nodes'[n]].name = n
    <3>1. nodes[n] \in Tokens /\ tokens[nodes[n]].st = "held" /\ tokens[nodes[n]].name = n
      BY <1>0, <2>1, <2>3 DEF NodesIndexed
    <3> QED BY <2>1, <3>1
  <2> QED BY <2>2, <2>3 DEF NodesIndexed
<1>7. ASSUME NEW t \in Tokens, leave_begin(t)
      PROVE  NodesIndexed'
  BY <1>7 DEF leave_begin, NodesIndexed
<1>8. ASSUME NEW t \in Tokens, leave(t)
      PROVE  NodesIndexed'
  <2>1. /\ tokens'[t].st = "revoked" /\ generation' = generation
        /\ \A x \in Tokens \ {t} : tokens'[x] = tokens[x]
        /\ \A n \in Names : nodes'[n] = IF nodes[n] = t THEN NoToken ELSE nodes[n]
    BY <1>0, <1>8 DEF leave, Over, Unissued
  <2> QED BY <1>0, <2>1 DEF NodesIndexed
<1>9. ASSUME NEW n \in Names, kick(n)
      PROVE  NodesIndexed'
  <2> DEFINE t == nodes[n]
  <2>1. t \in Tokens /\ tokens[t].st = "held" /\ tokens[t].name = n
    BY <1>0, <1>9 DEF kick, NodesIndexed
  <2>2. /\ tokens'[t].st = "revoked" /\ generation' = generation
        /\ \A x \in Tokens \ {t} : tokens'[x] = tokens[x]
        /\ nodes'[n] = NoToken
        /\ \A m \in Names \ {n} : nodes'[m] = nodes[m]
    BY <1>0, <1>9, <2>1 DEF kick, Over, Unissued
  <2> HIDE DEF t
  <2>3. ASSUME NEW x \in Live' PROVE nodes'[tokens'[x].name] = x
    <3>1. x # t /\ tokens'[x] = tokens[x] /\ x \in Live
      BY <2>2, <2>3
    <3>2. nodes[tokens[x].name] = x /\ tokens[x].name \in Names
      BY <3>1 DEF NodesIndexed
    <3>3. tokens[x].name # n
      BY <3>1, <3>2 DEF t
    <3> QED BY <2>2, <3>1, <3>2, <3>3
  <2>4. ASSUME NEW m \in Names, nodes'[m] # NoToken
        PROVE  tokens'[nodes'[m]].st = "held" /\ tokens'[nodes'[m]].name = m
    <3>1. m # n /\ nodes'[m] = nodes[m]
      BY <2>2, <2>4
    <3>2. nodes[m] \in Tokens /\ tokens[nodes[m]].st = "held" /\ tokens[nodes[m]].name = m
      BY <1>0, <2>4, <3>1 DEF NodesIndexed
    <3> QED BY <2>1, <2>2, <3>1, <3>2
  <2> QED BY <2>3, <2>4 DEF NodesIndexed
<1> QED BY TokenSteps, <1>1, <1>2, <1>4, <1>5, <1>6, <1>7, <1>8, <1>9

-----------------------------------------------------------------------------
(* The room implements the registry of tokens.                             *)

RegistryInv == RoomTypeOK /\ IssuedOnly /\ NodesIndexed

LEMMA Lives ==
  /\ \A t \in Tokens : TokenLife[t] = "alive" <=> token_alive(t)
  /\ \A t \in Tokens : TokenLife[t] = "unissued" <=> tokens[t].st = "unissued"
  /\ \A t \in Tokens : TokenLife[t] \in {"unissued", "alive", "ended"}
  /\ \A t \in Tokens : TokenHolder[t] = tokens[t].name
  /\ TokenLife = [t \in Tokens |-> TokenLife[t]]
  /\ TokenHolder = [t \in Tokens |-> TokenHolder[t]]
  BY DEF TokenLife, TokenHolder, token_alive

LEMMA LivesNext ==
  /\ \A t \in Tokens : TokenLife'[t] = "alive" <=> token_alive(t)'
  /\ \A t \in Tokens : TokenLife'[t] = "unissued" <=> tokens'[t].st = "unissued"
  /\ \A t \in Tokens : TokenLife'[t] \in {"unissued", "alive", "ended"}
  /\ \A t \in Tokens : TokenHolder'[t] = tokens'[t].name
  /\ TokenLife' = [t \in Tokens |-> TokenLife'[t]]
  /\ TokenHolder' = [t \in Tokens |-> TokenHolder'[t]]
  BY DEF TokenLife, TokenHolder, token_alive

LEMMA RegistryInits == RoomInit => Registry!RegistryInit
  BY DEF RoomInit, Registry!RegistryInit, Unissued, TokenLife, TokenHolder, token_alive

(* Where tokens only end, the registry ends those or stutters. *)
LEMMA OnlyEnds ==
  ASSUME \A t \in Tokens : tokens'[t].name = tokens[t].name,
         \A t \in Tokens : \/ TokenLife'[t] = TokenLife[t]
                           \/ TokenLife[t] = "alive" /\ TokenLife'[t] = "ended"
  PROVE  [Registry!RegistryNext]_(Registry!registryVars)
<1> DEFINE D == {t \in Tokens : TokenLife[t] # TokenLife'[t]}
<1>0. TokenHolder' = TokenHolder
  BY Lives, LivesNext
<1>1. CASE D = {}
  <2>1. TokenLife' = TokenLife
    BY <1>1, Lives, LivesNext
  <2> QED BY <1>0, <2>1 DEF Registry!registryVars
<1>2. CASE D # {}
  <2>1. TokenLife' = [t \in Tokens |-> IF t \in D THEN "ended" ELSE TokenLife[t]]
    BY Lives, LivesNext
  <2>2. \A t \in D : TokenLife[t] = "alive"
    OBVIOUS
  <2>3. D \in SUBSET Tokens
    OBVIOUS
  <2> HIDE DEF D
  <2>4. Registry!End(D)
    BY <1>0, <1>2, <2>1, <2>2 DEF Registry!End
  <2> QED BY <2>3, <2>4 DEF Registry!RegistryNext
<1> QED BY <1>1, <1>2

LEMMA RegistryStep ==
  ASSUME RegistryInv, [RoomNext]_roomVars
  PROVE  [Registry!RegistryNext]_(Registry!registryVars)
<1>0. /\ RoomTypeOK /\ IssuedOnly
      /\ \A t \in Tokens : tokens[t] \in TokenRec
      /\ NoName \notin Names
  BY RecordsTyped, RoomAssumption DEF RegistryInv
<1>1. CASE Untouched
  <2>1. TokenLife' = TokenLife /\ TokenHolder' = TokenHolder
    BY <1>1 DEF Untouched, TokenLife, TokenHolder, token_alive
  <2> QED BY <2>1 DEF Registry!registryVars
<1>2. CASE AllRevoked \/ restart
  <2>1. \A t \in Tokens : /\ tokens'[t].name = tokens[t].name
                          /\ tokens'[t].st # "held"
                          /\ tokens[t].st = "unissued" <=> tokens'[t].st = "unissued"
    BY <1>0, <1>2, OverIs DEF AllRevoked, _revoke_all, restart
  <2>2. \A t \in Tokens : ~token_alive(t)'
    BY <2>1 DEF token_alive
  <2>3. \A t \in Tokens : \/ TokenLife'[t] = TokenLife[t]
                          \/ TokenLife[t] = "alive" /\ TokenLife'[t] = "ended"
    BY <2>1, <2>2, Lives, LivesNext
  <2> QED BY <2>1, <2>3, OnlyEnds
<1>3. ASSUME NEW k \in RateKeys, NEW t \in Tokens, join_admin(k, t)
      PROVE  [Registry!RegistryNext]_(Registry!registryVars)
  <2>1. tokens[t] = Unissued /\ tokens[t].st = "unissued"
    BY <1>0, <1>3 DEF join_admin, IssuedOnly
  <2>2. /\ tokens'[t] = [st |-> "held", name |-> NoName, gen |-> generation, age |-> "fresh"]
        /\ \A x \in Tokens \ {t} : tokens'[x] = tokens[x]
        /\ generation' = generation
    BY <1>0, <1>3 DEF join_admin, RoomTypeOK
  <2>3. token_alive(t)' /\ \A x \in Tokens \ {t} : token_alive(x)' <=> token_alive(x)
    BY <2>2 DEF token_alive
  <2>4. TokenLife' = [TokenLife EXCEPT ![t] = "alive"]
    BY <2>2, <2>3 DEF TokenLife
  <2>5. TokenHolder' = TokenHolder
    BY <2>1, <2>2 DEF TokenHolder, Unissued
  <2>6. Registry!IssueToAdmin(t)
    BY <2>1, <2>4, <2>5, Lives DEF Registry!IssueToAdmin
  <2> QED BY <2>6 DEF Registry!RegistryNext
<1>4. ASSUME NEW k \in RateKeys, NEW t \in Tokens, NEW n \in Names, join_worker(k, n, t)
      PROVE  [Registry!RegistryNext]_(Registry!registryVars)
  <2>1. Taken(n) = Registry!AliveOf(n) /\ Live = Registry!AliveWorkers
    BY Lives DEF Taken, Live, Registry!AliveOf, Registry!AliveWorkers
  <2>2. /\ tokens[t].st = "unissued" /\ generation' = generation
        /\ Cardinality(Live \ Taken(n)) < Capacity
    BY <1>4 DEF join_worker
  <2>3. /\ tokens'[t] = [st |-> "held", name |-> n, gen |-> generation, age |-> "fresh"]
        /\ \A x \in Tokens \ {t} : x \notin Taken(n) => tokens'[x] = tokens[x]
        /\ \A x \in Tokens \ {t} : x \in Taken(n) => tokens'[x] = Over(x, "revoked")
    BY <1>4, JoinTokens
  <2>4. \A x \in Tokens \ {t} : x \in Taken(n) =>
           tokens'[x].st = "revoked" /\ tokens'[x].name = tokens[x].name
    BY <2>3, OverIs
  <2>5. TokenLife'[t] = "alive" /\ TokenHolder'[t] = n
    BY <2>2, <2>3 DEF TokenLife, TokenHolder, token_alive
  <2>6. \A x \in Tokens \ {t} :
           TokenLife'[x] = IF x \in Taken(n) THEN "ended" ELSE TokenLife[x]
    BY <2>2, <2>3, <2>4 DEF TokenLife, token_alive
  <2>7. TokenLife' = [[x \in Tokens |-> IF x \in Taken(n) THEN "ended" ELSE TokenLife[x]]
                        EXCEPT ![t] = "alive"]
    BY <2>5, <2>6, LivesNext
  <2>8. \A x \in Tokens \ {t} : TokenHolder'[x] = TokenHolder[x]
    BY <2>3, <2>4, Lives, LivesNext
  <2>9. TokenHolder' = [TokenHolder EXCEPT ![t] = n]
    BY <2>5, <2>8, Lives, LivesNext
  <2>10. Cardinality(Live \ Taken(n)) = Registry!Cardinality(Live \ Taken(n))
    BY DEF Cardinality, Registry!Cardinality
  <2>11. Registry!IssueToWorker(t, n)
    BY <2>1, <2>2, <2>7, <2>9, <2>10, Lives DEF Registry!IssueToWorker
  <2> QED BY <2>11 DEF Registry!RegistryNext
<1>5. ASSUME NEW t \in Tokens, resolve(t) \/ falls_silent(t)
      PROVE  [Registry!RegistryNext]_(Registry!registryVars)
  <2>1. /\ \A x \in Tokens : tokens'[x].name = tokens[x].name
        /\ \A x \in Tokens : tokens'[x].st = tokens[x].st
        /\ \A x \in Tokens : token_alive(x)' => token_alive(x)
    BY <1>0, <1>5 DEF resolve, falls_silent, SetTokens, token_alive, TokenRec, Ages, RoomTypeOK
  <2>2. \A x \in Tokens : tokens[x].st = "unissued" => ~token_alive(x)
    BY DEF token_alive
  <2>3. \A x \in Tokens : \/ TokenLife'[x] = TokenLife[x]
                          \/ TokenLife[x] = "alive" /\ TokenLife'[x] = "ended"
    BY <2>1, <2>2, Lives, LivesNext
  <2> QED BY <2>1, <2>3, OnlyEnds
<1>6. ASSUME NEW t \in Tokens, leave_begin(t)
      PROVE  [Registry!RegistryNext]_(Registry!registryVars)
  <2>1. TokenLife' = TokenLife /\ TokenHolder' = TokenHolder
    BY <1>6 DEF leave_begin, TokenLife, TokenHolder, token_alive
  <2> QED BY <2>1 DEF Registry!registryVars
<1>7. ASSUME NEW t \in Tokens, tokens[t].st # "unissued", generation' = generation,
             tokens' = [tokens EXCEPT ![t] = Over(t, "revoked")]
      PROVE  [Registry!RegistryNext]_(Registry!registryVars)
  <2>1. /\ tokens'[t].st = "revoked" /\ tokens'[t].name = tokens[t].name
        /\ \A x \in Tokens \ {t} : tokens'[x] = tokens[x]
    BY <1>0, <1>7, OverIs DEF RoomTypeOK
  <2>2. ~token_alive(t)' /\ \A x \in Tokens \ {t} : token_alive(x)' <=> token_alive(x)
    BY <1>7, <2>1 DEF token_alive
  <2>3. \A x \in Tokens : \/ TokenLife'[x] = TokenLife[x]
                          \/ TokenLife[x] = "alive" /\ TokenLife'[x] = "ended"
    BY <1>7, <2>1, <2>2, Lives, LivesNext
  <2>4. \A x \in Tokens : tokens'[x].name = tokens[x].name
    BY <2>1
  <2> QED BY <2>3, <2>4, OnlyEnds
<1>8. ASSUME NEW t \in Tokens, leave(t)
      PROVE  [Registry!RegistryNext]_(Registry!registryVars)
  BY <1>0, <1>7, <1>8 DEF leave, IssuedOnly
<1>9. ASSUME NEW n \in Names, kick(n)
      PROVE  [Registry!RegistryNext]_(Registry!registryVars)
  <2>1. nodes[n] \in Tokens /\ tokens[nodes[n]].st = "held"
    BY <1>9 DEF kick, RegistryInv, NodesIndexed, RoomTypeOK
  <2> QED BY <1>7, <1>9, <2>1 DEF kick
<1> QED BY TokenSteps, <1>1, <1>2, <1>3, <1>4, <1>5, <1>6, <1>8, <1>9

LEMMA RegistryInvHolds == RoomSpec => []RegistryInv
<1>1. RoomInit => RegistryInv
  BY InitTyped DEF RegistryInv, RoomInit, IssuedOnly, NodesIndexed, Live, token_alive, Unissued
<1>2. RegistryInv /\ [RoomNext]_roomVars => RegistryInv'
  BY TypeStep, IssuedStep, IndexStep DEF RegistryInv
<1> QED BY <1>1, <1>2, PTL DEF RoomSpec

(* The index that kick trusts is right: every worker whose token opens the *)
(* room is found under its name, and no entry leads to a token that was    *)
(* revoked or belongs to another name, whatever takeovers, kicks and       *)
(* leaves cross each other (_nodes, room.py:82).                           *)
THEOREM IndexHolds == RoomSpec => []NodesIndexed
  BY RegistryInvHolds, PTL DEF RegistryInv

(* The room implements the registry of tokens, for any capacity and any    *)
(* number of machines: no token comes back, a name has one token that      *)
(* opens the room, and the live workers never exceed the capacity, through *)
(* takeovers, kicks, closings and crashes (room.py, room_persist.py).      *)
THEOREM RoomImplementsRegistry == RoomSpec => ImplementsRegistry
<1>1. RegistryInv /\ [RoomNext]_roomVars => [Registry!RegistryNext]_(Registry!registryVars)
  BY RegistryStep
<1> QED BY <1>1, RegistryInits, RegistryInvHolds, PTL
        DEF RoomSpec, ImplementsRegistry, Registry!RegistrySpec

-----------------------------------------------------------------------------
(* Penalties.                                                              *)

(* Nothing that is remembered of a client outlives the guesses it was      *)
(* counted for; of the streak that makes the next backoff, which           *)
(* PenaltyEarned does not mention, this must hold too.                     *)
Earned(f, i) == /\ f.blocked => i >= JoinFailBackoffAfter
                /\ f.recent <= i
                /\ f.streak <= i
PenaltyInv == \A k \in RateKeys : Earned(fails[k], guesses[k])

LEMMA RecordFailEarned ==
  ASSUME NEW f \in FailRec, NEW i \in 0 .. JoinFailLimit, Earned(f, i)
  PROVE  Earned(_record_fail(f), Capped(i, JoinFailLimit))
<1> DEFINE g == _record_fail(f)
<1> DEFINE j == Capped(i, JoinFailLimit)
<1>1. /\ f.recent \in Nat /\ f.streak \in Nat
      /\ i \in Nat /\ i <= JoinFailLimit
      /\ JoinFailLimit \in Nat /\ JoinFailBackoffAfter \in Nat
  BY Bounds DEF FailRec
<1>2. /\ g.recent = Capped(f.recent, JoinFailLimit)
      /\ g.streak = Capped(f.streak, JoinFailBackoffAfter)
      /\ g.blocked => g.streak >= JoinFailBackoffAfter
  BY DEF _record_fail
<1>3. j = Capped(i, JoinFailLimit)
  OBVIOUS
<1> HIDE DEF g, j
<1>4. g.recent <= j /\ g.streak <= j
  BY <1>1, <1>2, <1>3, Bounds DEF Earned, Capped
<1>5. g.streak \in Nat /\ j \in Nat
  BY <1>1, <1>2, <1>3 DEF Capped
<1>6. g.blocked => j >= JoinFailBackoffAfter
  BY <1>1, <1>2, <1>4, <1>5
<1> QED BY <1>4, <1>6 DEF Earned, g, j

(* Failures that were cleared are earned by any number of guesses, and by  *)
(* the same guesses as before where the passwords stay.                    *)
LEMMA ForcePenalty ==
  ASSUME RoomTypeOK, PenaltyInv, GuessesInForce,
         \/ _clear_join_failures
         \/ UNCHANGED <<fails, worker_pw, admin_pw>>
  PROVE  PenaltyInv'
<1>1. \A k \in RateKeys : guesses'[k] \in Nat
  BY GuessesTyped, Bounds
<1>2. \A i \in Nat : Earned(NoFailures, i)
  BY Bounds DEF Earned, NoFailures
<1>3. CASE _clear_join_failures
  BY <1>1, <1>2, <1>3 DEF _clear_join_failures, PenaltyInv
<1>4. CASE UNCHANGED <<fails, worker_pw, admin_pw>>
  BY <1>4 DEF GuessesInForce, PenaltyInv
<1> QED BY <1>3, <1>4

LEMMA PenaltyStep ==
  ASSUME RoomTypeOK, PenaltyInv, [RoomNext]_roomVars
  PROVE  PenaltyInv'
<1>0. /\ \A k \in RateKeys : fails[k] \in FailRec /\ guesses[k] \in 0 .. JoinFailLimit
      /\ fails \in [RateKeys -> FailRec] /\ guesses \in [RateKeys -> 0 .. JoinFailLimit]
  BY RecordsTyped DEF RoomTypeOK
<1>1. Earned(NoFailures, 0)
  BY Bounds DEF Earned, NoFailures
<1>2. CASE UNCHANGED <<fails, guesses>>
  BY <1>2 DEF PenaltyInv
<1>3. ASSUME NEW k \in RateKeys, join_fails(k)
      PROVE  PenaltyInv'
  <2>1. Earned(_record_fail(fails[k]), Capped(guesses[k], JoinFailLimit))
    BY <1>0, RecordFailEarned DEF PenaltyInv
  <2> QED BY <1>0, <1>3, <2>1 DEF join_fails, PenaltyInv
<1>4. ASSUME NEW k \in RateKeys, _prune_fails(k)
      PROVE  PenaltyInv'
  <2>1. /\ Earned([fails[k] EXCEPT !.blocked = FALSE], guesses[k])
        /\ Earned([fails[k] EXCEPT !.recent = 0], guesses[k])
    BY <1>0, Bounds DEF Earned, PenaltyInv, FailRec
  <2>2. \/ fails' = [fails EXCEPT ![k] = [fails[k] EXCEPT !.blocked = FALSE]]
        \/ fails' = [fails EXCEPT ![k] = [fails[k] EXCEPT !.recent = 0]]
    BY <1>4 DEF _prune_fails
  <2>3. guesses' = guesses
    BY <1>4 DEF _prune_fails
  <2> QED BY <1>0, <2>1, <2>2, <2>3 DEF PenaltyInv
<1>5. ASSUME NEW k \in RateKeys, NEW t \in Tokens,
             join_admin(k, t) \/ \E n \in Names : join_worker(k, n, t)
      PROVE  PenaltyInv'
  <2>1. /\ fails' = [fails EXCEPT ![k] = NoFailures]
        /\ guesses' = [guesses EXCEPT ![k] = 0]
    BY <1>5 DEF join_admin, join_worker
  <2> QED BY <1>0, <1>1, <2>1 DEF PenaltyInv
<1>6. ASSUME NEW t \in Tokens, resolve(t) \/ falls_silent(t) \/ leave_begin(t) \/ leave(t)
      PROVE  UNCHANGED <<fails, guesses>>
  BY <1>6 DEF resolve, falls_silent, SetTokens, leave_begin, leave
<1>7. ASSUME NEW n \in Names, kick(n)
      PROVE  UNCHANGED <<fails, guesses>>
  BY <1>7 DEF kick
<1>8. ASSUME NEW o \in Owners, \/ lifecycle_close(o) \/ lifecycle_rotate_passwords(o)
                               \/ set_worker_password(o) \/ set_admin_password(o)
      PROVE  PenaltyInv'
  <2>1. GuessesInForce
    BY <1>8 DEF lifecycle_close, lifecycle_rotate_passwords, set_worker_password,
                set_admin_password
  <2>2. \/ _clear_join_failures
        \/ UNCHANGED <<fails, worker_pw, admin_pw>>
    BY <1>8 DEF lifecycle_close, lifecycle_rotate_passwords, set_worker_password,
                set_admin_password
  <2> QED BY <2>1, <2>2, ForcePenalty
<1>9. ASSUME NEW o \in Owners,
             \/ \E wp, ap \in Passwords : _apply_room_bootstrap(o, wp, ap)
             \/ bootstrap_refused(o) \/ save_room_auth(o) \/ save_room_auth_write(o)
      PROVE  UNCHANGED <<fails, guesses>>
  BY <1>9 DEF _apply_room_bootstrap, bootstrap_refused, save_room_auth, save_room_auth_write,
              memory
<1>10. CASE restart
  BY <1>10, ForcePenalty DEF restart
<1>11. CASE UNCHANGED roomVars
  BY <1>2, <1>11 DEF roomVars, memory
<1> QED BY <1>2, <1>3, <1>4, <1>5, <1>6, <1>7, <1>8, <1>9, <1>10, <1>11 DEF RoomNext

(* Nobody is held off for guesses at passwords that are gone: however      *)
(* closings, rotations and restarts fall between the guesses, a backoff    *)
(* and the failures of the minute are covered by guesses at those in force *)
(* (the calls of _clear_join_failures_unlocked, room.py:227).              *)
THEOREM PenaltiesEarned == RoomSpec => []PenaltyEarned
<1>1. RoomInit => PenaltyInv
  BY Bounds DEF RoomInit, PenaltyInv, Earned, NoFailures
<1>2. RoomTypeOK /\ PenaltyInv /\ [RoomNext]_roomVars => PenaltyInv'
  BY PenaltyStep
<1>3. PenaltyInv => PenaltyEarned
  BY DEF PenaltyInv, Earned, PenaltyEarned
<1> QED BY <1>1, <1>2, <1>3, RoomTypes, PTL DEF RoomSpec

-----------------------------------------------------------------------------
(* The saved row, and passwords that have ended.                           *)

(* One bootstrap runs at a time, from the check of has_password on.        *)
BootstrapInv ==
    /\ \A o \in Owners : owner[o].at \in {"rotate", "set_worker", "set_admin"} => owner[o].boot
    /\ \A o, x \in Owners : owner[o].boot /\ owner[x].boot => o = x
    /\ \A o \in Owners : owner[o].at = "set_worker" => ~has_password
    /\ \A o \in Owners :
         owner[o].at = "set_admin" => worker_pw = NoPassword \/ worker_pw # admin_pw

(* The save of o will write, or has read so far, what is in force. *)
Fresh(o) ==
    \/ owner[o].at \in {"set_admin", "collect"}
    \/ owner[o].at = "collect_admin" /\ owner[o].wp = worker_pw
    \/ owner[o].at = "write" /\ owner[o].wp = worker_pw /\ owner[o].ap = admin_pw
SomeFresh == \E o \in Owners : Fresh(o)

(* Whoever changed the passwords last saves them, unless it is refused:    *)
(* until then the row may be behind, and so may the other saves.           *)
RowInv ==
    /\ \A o \in Owners :
         owner[o].at \in {"collect_admin", "write"} /\ ~owner[o].overtaken => SomeFresh
    /\ ~stale => SomeFresh \/ (disk.wp = worker_pw /\ disk.ap = admin_pw)

Saving(o) == owner[o].at \in {"collect", "collect_admin", "write"}

(* No password that ended is in force, in the row, or on its way there.    *)
(* While the row is behind this holds of the requests under way only, and  *)
(* it is they that bring the row back.                                     *)
EndedInv ==
    /\ ~stale => InForce \cap ended = {} /\ {disk.wp, disk.ap} \cap ended = {}
    /\ \A o \in Owners : Saving(o) => InForce \cap ended = {}
    /\ \A o \in Owners : owner[o].at = "set_admin" => worker_pw \notin ended
    /\ \A o \in Owners : ends[o] \cap InForce = {}
    /\ \A o \in Owners : owner[o].at \in {"collect_admin", "write"} /\ ~owner[o].overtaken =>
         owner[o].wp \notin ended \cup ends[o]
    /\ \A o \in Owners : owner[o].at = "write" /\ ~owner[o].overtaken =>
         owner[o].ap \notin ended \cup ends[o]

(* What the owners' steps do, thread by thread. *)
Others(o) == \A x \in Owners \ {o} : owner'[x] = owner[x]
Saved == UNCHANGED <<disk, stale>>

LEMMA OwnerSteps ==
  ASSUME [RoomNext]_roomVars
  PROVE  \/ UNCHANGED <<worker_pw, admin_pw, owner, disk, history>>
         \/ restart
         \/ \E o \in Owners :
              \/ lifecycle_close(o) \/ lifecycle_rotate_passwords(o)
              \/ \E wp, ap \in Passwords : _apply_room_bootstrap(o, wp, ap)
              \/ set_worker_password(o) \/ set_admin_password(o) \/ bootstrap_refused(o)
              \/ save_room_auth(o) \/ save_room_auth_write(o)
<1>1. CASE UNCHANGED roomVars
  BY <1>1 DEF roomVars, memory
<1>2. ASSUME NEW k \in RateKeys,
             \/ join_fails(k) \/ _prune_fails(k)
             \/ \E t \in Tokens : join_admin(k, t) \/ \E n \in Names : join_worker(k, n, t)
      PROVE  UNCHANGED <<worker_pw, admin_pw, owner, disk, history>>
  BY <1>2 DEF join_fails, _prune_fails, join_admin, join_worker
<1>3. ASSUME NEW t \in Tokens, resolve(t) \/ falls_silent(t) \/ leave_begin(t) \/ leave(t)
      PROVE  UNCHANGED <<worker_pw, admin_pw, owner, disk, history>>
  BY <1>3 DEF resolve, falls_silent, SetTokens, leave_begin, leave
<1>4. ASSUME NEW n \in Names, kick(n)
      PROVE  UNCHANGED <<worker_pw, admin_pw, owner, disk, history>>
  BY <1>4 DEF kick
<1> QED BY <1>1, <1>2, <1>3, <1>4 DEF RoomNext

LEMMA CloseEffect ==
  ASSUME RoomTypeOK, NEW o \in Owners, lifecycle_close(o)
  PROVE  /\ owner[o].at = "idle" /\ Others(o) /\ Saved /\ ended' = ended
         /\ owner'[o].at = "collect" /\ ~owner'[o].boot
         /\ worker_pw' = NoPassword /\ admin_pw' = NoPassword
         /\ \A x \in Owners \ {o} : ends'[x] = ends[x]
<1>1. /\ owner[o] = IdleOwner
      /\ owner' = [owner EXCEPT ![o] = [IdleOwner EXCEPT !.at = "collect"]]
      /\ worker_pw' = NoPassword /\ admin_pw' = NoPassword /\ Saved
      /\ ends' = [ends EXCEPT ![o] = InForce] /\ ended' = ended
  BY DEF lifecycle_close, Ending, Saved
<1>2. owner'[o] = [IdleOwner EXCEPT !.at = "collect"] /\ Others(o)
  BY <1>1, RecordsTyped DEF Others
<1>3. owner[o].at = "idle" /\ owner'[o].at = "collect" /\ ~owner'[o].boot
  BY <1>1, <1>2 DEF IdleOwner
<1> QED BY <1>1, <1>2, <1>3 DEF RoomTypeOK

LEMMA BootstrapEffect ==
  ASSUME RoomTypeOK, NEW o \in Owners, NEW wp \in Passwords, NEW ap \in Passwords,
         _apply_room_bootstrap(o, wp, ap)
  PROVE  /\ owner[o].at = "idle" /\ Others(o) /\ \A x \in Owners : ~owner[x].boot
         /\ owner'[o].at \in {"rotate", "set_worker"} /\ owner'[o].boot
         /\ owner'[o].at = "set_worker" => ~has_password
         /\ owner'[o].wp = wp /\ owner'[o].ap = ap
         /\ UNCHANGED <<worker_pw, admin_pw, disk, history>>
<1> DEFINE c == IF has_password THEN "rotate" ELSE "set_worker"
<1>1. /\ owner[o] = IdleOwner /\ \A x \in Owners : ~owner[x].boot
      /\ owner' = [owner EXCEPT ![o] =
                     [IdleOwner EXCEPT !.at = c, !.boot = TRUE, !.wp = wp, !.ap = ap]]
      /\ UNCHANGED <<worker_pw, admin_pw, disk, history>>
  BY DEF _apply_room_bootstrap, BootstrapRuns, memory
<1>2. c \in {"rotate", "set_worker"} /\ (c = "set_worker" => ~has_password)
  OBVIOUS
<1> HIDE DEF c
<1>3. /\ owner'[o] = [IdleOwner EXCEPT !.at = c, !.boot = TRUE, !.wp = wp, !.ap = ap]
      /\ Others(o)
  BY <1>1, RecordsTyped DEF Others
<1>4. owner[o].at = "idle"
  BY <1>1 DEF IdleOwner
<1>5. owner'[o].at = c /\ owner'[o].wp = wp /\ owner'[o].ap = ap
  BY <1>3 DEF IdleOwner
<1>6. owner'[o].boot
  BY <1>3 DEF IdleOwner
<1> QED BY <1>1, <1>2, <1>3, <1>4, <1>5, <1>6

LEMMA RotateEffect ==
  ASSUME RoomTypeOK, NEW o \in Owners, lifecycle_rotate_passwords(o)
  PROVE  /\ owner[o].at = "rotate" /\ Others(o) /\ Saved
         /\ \/ /\ owner'[o].at = "idle" /\ ~owner'[o].boot
               /\ UNCHANGED <<worker_pw, admin_pw, ends, ended>>
            \/ /\ owner'[o].at = "collect" /\ owner'[o].boot
               /\ worker_pw' = owner[o].wp /\ admin_pw' = owner[o].ap
               /\ Replacing(o, InForce, {owner[o].wp, owner[o].ap})
<1>1. /\ owner[o].at = "rotate" /\ Saved
      /\ \/ /\ owner' = [owner EXCEPT ![o] = IdleOwner]
            /\ UNCHANGED <<worker_pw, admin_pw, ends, ended>>
         \/ /\ owner' = [owner EXCEPT ![o] = [IdleOwner EXCEPT !.at = "collect", !.boot = TRUE]]
            /\ worker_pw' = owner[o].wp /\ admin_pw' = owner[o].ap
            /\ Replacing(o, InForce, {owner[o].wp, owner[o].ap})
  BY DEF lifecycle_rotate_passwords, Saved
<1>2. Others(o)
  BY <1>1, RecordsTyped DEF Others
<1>3. \/ owner'[o] = IdleOwner /\ UNCHANGED <<worker_pw, admin_pw, ends, ended>>
      \/ /\ owner'[o] = [IdleOwner EXCEPT !.at = "collect", !.boot = TRUE]
         /\ worker_pw' = owner[o].wp /\ admin_pw' = owner[o].ap
         /\ Replacing(o, InForce, {owner[o].wp, owner[o].ap})
  BY <1>1, RecordsTyped
<1>4. IdleOwner.at = "idle" /\ ~IdleOwner.boot
  BY DEF IdleOwner
<1>5. /\ [IdleOwner EXCEPT !.at = "collect", !.boot = TRUE].at = "collect"
      /\ [IdleOwner EXCEPT !.at = "collect", !.boot = TRUE].boot
  BY DEF IdleOwner
<1> QED BY <1>1, <1>2, <1>3, <1>4, <1>5

LEMMA SetWorkerEffect ==
  ASSUME RoomTypeOK, NEW o \in Owners, set_worker_password(o)
  PROVE  /\ owner[o].at = "set_worker" /\ Others(o) /\ Saved /\ admin_pw' = admin_pw
         /\ \/ /\ owner'[o].at = "idle" /\ ~owner'[o].boot
               /\ UNCHANGED <<worker_pw, ends, ended>>
            \/ /\ owner'[o].at = "set_admin" /\ owner'[o].boot = owner[o].boot
               /\ worker_pw' = owner[o].wp /\ worker_pw' # admin_pw
               /\ Replacing(o, {worker_pw}, {owner[o].wp})
<1>1. /\ owner[o].at = "set_worker" /\ Saved /\ admin_pw' = admin_pw
      /\ \/ /\ owner' = [owner EXCEPT ![o] = IdleOwner]
            /\ UNCHANGED <<worker_pw, ends, ended>>
         \/ /\ owner' = [owner EXCEPT ![o] = [owner[o] EXCEPT !.at = "set_admin"]]
            /\ worker_pw' = owner[o].wp /\ worker_pw' # admin_pw
            /\ Replacing(o, {worker_pw}, {owner[o].wp})
  BY DEF set_worker_password, Saved
<1>2. Others(o)
  BY <1>1, RecordsTyped DEF Others
<1>3. owner[o] \in OwnerRec
  BY RecordsTyped
<1> QED BY <1>1, <1>2, <1>3, RecordsTyped DEF IdleOwner, OwnerRec

LEMMA SetAdminEffect ==
  ASSUME RoomTypeOK, NEW o \in Owners, set_admin_password(o)
  PROVE  /\ owner[o].at = "set_admin" /\ Others(o) /\ Saved /\ worker_pw' = worker_pw
         /\ owner'[o].at = "collect" /\ owner'[o].boot /\ admin_pw' = owner[o].ap
         /\ Replacing(o, {admin_pw}, {owner[o].ap})
<1>1. /\ owner[o].at = "set_admin" /\ Saved /\ worker_pw' = worker_pw
      /\ owner' = [owner EXCEPT ![o] = [IdleOwner EXCEPT !.at = "collect", !.boot = TRUE]]
      /\ admin_pw' = owner[o].ap
      /\ Replacing(o, {admin_pw}, {owner[o].ap})
  BY DEF set_admin_password, Saved
<1>2. Others(o)
  BY <1>1, RecordsTyped DEF Others
<1> QED BY <1>1, <1>2, RecordsTyped DEF IdleOwner

LEMMA EndsEffect ==
  ASSUME RoomTypeOK, NEW o \in Owners, Ends(o)
  PROVE  /\ owner'[o].at = "idle" /\ ~owner'[o].boot
         /\ \A x \in Owners \ {o} :
              /\ owner'[x].at = owner[x].at /\ owner'[x].boot = owner[x].boot
              /\ owner'[x].wp = owner[x].wp /\ owner'[x].ap = owner[x].ap
              /\ owner[x].at \in {"collect_admin", "write"} => owner'[x].overtaken
<1>1. owner'[o] = IdleOwner
  BY DEF Ends
<1>2. ASSUME NEW x \in Owners \ {o}
      PROVE  /\ owner'[x].at = owner[x].at /\ owner'[x].boot = owner[x].boot
             /\ owner'[x].wp = owner[x].wp /\ owner'[x].ap = owner[x].ap
             /\ owner[x].at \in {"collect_admin", "write"} => owner'[x].overtaken
  <2>1. owner'[x] = [owner[x] EXCEPT !.overtaken = @ \/ owner[x].at \in {"collect_admin", "write"}]
    BY DEF Ends
  <2>2. owner[x] \in OwnerRec
    BY RecordsTyped
  <2> QED BY <2>1, <2>2 DEF OwnerRec
<1> QED BY <1>1, <1>2 DEF IdleOwner

LEMMA SaveEffect ==
  ASSUME RoomTypeOK, NEW o \in Owners, save_room_auth(o)
  PROVE  /\ Others(o) /\ UNCHANGED <<worker_pw, admin_pw, disk, history>>
         /\ owner'[o].boot = owner[o].boot /\ owner'[o].overtaken = owner[o].overtaken
         /\ \/ /\ owner[o].at = "collect" /\ owner'[o].at = "collect_admin"
               /\ owner'[o].wp = worker_pw
            \/ /\ owner[o].at = "collect_admin" /\ owner'[o].at = "write"
               /\ owner'[o].wp = owner[o].wp /\ owner'[o].ap = admin_pw
<1>1. /\ UNCHANGED <<worker_pw, admin_pw, disk, history>>
      /\ \/ /\ owner[o].at = "collect"
            /\ owner' = [owner EXCEPT
                  ![o] = [owner[o] EXCEPT !.at = "collect_admin", !.wp = worker_pw]]
         \/ /\ owner[o].at = "collect_admin"
            /\ owner' = [owner EXCEPT ![o] = [owner[o] EXCEPT !.at = "write", !.ap = admin_pw]]
  BY DEF save_room_auth, memory
<1>2. Others(o)
  BY <1>1, RecordsTyped DEF Others
<1>3. owner[o] \in OwnerRec
  BY RecordsTyped
<1>4. \/ /\ owner[o].at = "collect"
         /\ owner'[o] = [owner[o] EXCEPT !.at = "collect_admin", !.wp = worker_pw]
      \/ /\ owner[o].at = "collect_admin"
         /\ owner'[o] = [owner[o] EXCEPT !.at = "write", !.ap = admin_pw]
  BY <1>1, RecordsTyped
<1>5. owner'[o].boot = owner[o].boot /\ owner'[o].overtaken = owner[o].overtaken
  BY <1>3, <1>4 DEF OwnerRec
<1>6. \/ /\ owner[o].at = "collect" /\ owner'[o].at = "collect_admin"
         /\ owner'[o].wp = worker_pw
      \/ /\ owner[o].at = "collect_admin" /\ owner'[o].at = "write"
         /\ owner'[o].wp = owner[o].wp /\ owner'[o].ap = admin_pw
  BY <1>3, <1>4 DEF OwnerRec
<1> QED BY <1>1, <1>2, <1>5, <1>6

LEMMA RestartEffect ==
  ASSUME restart
  PROVE  /\ \A o \in Owners : owner'[o].at = "idle" /\ ~owner'[o].boot /\ ends'[o] = {}
         /\ worker_pw' = disk.wp /\ admin_pw' = disk.ap
         /\ UNCHANGED <<disk, stale, ended>>
  BY DEF restart, IdleOwner

LEMMA BootstrapStep ==
  ASSUME RoomTypeOK, BootstrapInv, [RoomNext]_roomVars
  PROVE  BootstrapInv'
<1> USE DEF BootstrapInv, has_password, Others
<1>1. CASE UNCHANGED <<worker_pw, admin_pw, owner, disk, history>>
  BY <1>1
<1>2. CASE restart
  BY <1>2, RestartEffect
<1>3. ASSUME NEW o \in Owners, lifecycle_close(o)
      PROVE  BootstrapInv'
  BY <1>3, CloseEffect
<1>4. ASSUME NEW o \in Owners, NEW wp \in Passwords, NEW ap \in Passwords,
             _apply_room_bootstrap(o, wp, ap)
      PROVE  BootstrapInv'
  BY <1>4, BootstrapEffect
<1>5. ASSUME NEW o \in Owners, lifecycle_rotate_passwords(o)
      PROVE  BootstrapInv'
  <2>1. \A x \in Owners \ {o} :
           /\ ~owner[x].boot /\ owner'[x] = owner[x]
           /\ owner[x].at \notin {"rotate", "set_worker", "set_admin"}
    BY <1>5, RotateEffect
  <2>2. \A x \in Owners \ {o} : ~owner'[x].boot
    BY <2>1
  <2>3. owner'[o].at \in {"rotate", "set_worker", "set_admin"} => owner'[o].boot
    BY <1>5, RotateEffect
  <2>4. owner'[o].at # "set_worker"
    BY <1>5, RotateEffect
  <2>5. owner'[o].at = "set_admin" => worker_pw' # admin_pw'
    BY <1>5, RotateEffect
  <2> QED BY <2>1, <2>2, <2>3, <2>4, <2>5
<1>6. ASSUME NEW o \in Owners, set_worker_password(o)
      PROVE  BootstrapInv'
  <2>1. \A x \in Owners \ {o} :
           /\ ~owner[x].boot /\ owner'[x] = owner[x]
           /\ owner[x].at \notin {"rotate", "set_worker", "set_admin"}
    BY <1>6, SetWorkerEffect
  <2>2. \A x \in Owners \ {o} : ~owner'[x].boot
    BY <2>1
  <2>3. owner'[o].at \in {"rotate", "set_worker", "set_admin"} => owner'[o].boot
    BY <1>6, SetWorkerEffect
  <2>4. owner'[o].at # "set_worker"
    BY <1>6, SetWorkerEffect
  <2>5. owner'[o].at = "set_admin" => worker_pw' # admin_pw'
    BY <1>6, SetWorkerEffect
  <2> QED BY <2>1, <2>2, <2>3, <2>4, <2>5
<1>7. ASSUME NEW o \in Owners, set_admin_password(o)
      PROVE  BootstrapInv'
  <2>1. \A x \in Owners \ {o} :
           /\ ~owner[x].boot /\ owner'[x] = owner[x]
           /\ owner[x].at \notin {"rotate", "set_worker", "set_admin"}
    BY <1>7, SetAdminEffect
  <2>2. \A x \in Owners \ {o} : ~owner'[x].boot
    BY <2>1
  <2>3. owner'[o].at \in {"rotate", "set_worker", "set_admin"} => owner'[o].boot
    BY <1>7, SetAdminEffect
  <2>4. owner'[o].at # "set_worker"
    BY <1>7, SetAdminEffect
  <2>5. owner'[o].at = "set_admin" => worker_pw' # admin_pw'
    BY <1>7, SetAdminEffect
  <2> QED BY <2>1, <2>2, <2>3, <2>4, <2>5
<1>8. ASSUME NEW o \in Owners, bootstrap_refused(o) \/ save_room_auth_write(o)
      PROVE  BootstrapInv'
  <2>1. Ends(o) /\ UNCHANGED <<worker_pw, admin_pw>>
    BY <1>8 DEF bootstrap_refused, save_room_auth_write, memory
  <2> QED BY <2>1, EndsEffect
<1>9. ASSUME NEW o \in Owners, save_room_auth(o)
      PROVE  BootstrapInv'
  BY <1>9, SaveEffect
<1> QED BY OwnerSteps, <1>1, <1>2, <1>3, <1>4, <1>5, <1>6, <1>7, <1>8, <1>9

LEMMA RowStep ==
  ASSUME RoomTypeOK, BootstrapInv, RowInv, [RoomNext]_roomVars
  PROVE  RowInv'
<1> USE DEF RowInv, SomeFresh, Fresh, Others, Saved
<1>1. CASE UNCHANGED <<worker_pw, admin_pw, owner, disk, history>>
  BY <1>1 DEF history
<1>2. CASE restart
  BY <1>2, RestartEffect
<1>3. ASSUME NEW o \in Owners, lifecycle_close(o)
      PROVE  RowInv'
  BY <1>3, CloseEffect
<1>4. ASSUME NEW o \in Owners, NEW wp \in Passwords, NEW ap \in Passwords,
             _apply_room_bootstrap(o, wp, ap)
      PROVE  RowInv'
  BY <1>4, BootstrapEffect DEF history
<1>5. ASSUME NEW o \in Owners, lifecycle_rotate_passwords(o)
      PROVE  RowInv'
  BY <1>5, RotateEffect
<1>6. ASSUME NEW o \in Owners, set_worker_password(o)
      PROVE  RowInv'
  BY <1>6, SetWorkerEffect
<1>7. ASSUME NEW o \in Owners, set_admin_password(o)
      PROVE  RowInv'
  BY <1>7, SetAdminEffect
<1>8. ASSUME NEW o \in Owners, bootstrap_refused(o)
      PROVE  RowInv'
  BY <1>8, EndsEffect DEF bootstrap_refused, memory
<1>9. ASSUME NEW o \in Owners, save_room_auth(o)
      PROVE  RowInv'
  BY <1>9, SaveEffect DEF history
<1>10. ASSUME NEW o \in Owners, save_room_auth_write(o)
       PROVE  RowInv'
  BY <1>10, EndsEffect DEF save_room_auth_write, memory
<1> QED BY OwnerSteps, <1>1, <1>2, <1>3, <1>4, <1>5, <1>6, <1>7, <1>8, <1>9, <1>10

LEMMA EndedStep ==
  ASSUME RoomTypeOK, BootstrapInv, EndedInv, [RoomNext]_roomVars
  PROVE  EndedInv'
<1> USE DEF EndedInv, InForce, Saving, Others, Saved
<1>0. /\ NoPassword \notin ended /\ \A o \in Owners : NoPassword \notin ends[o]
      /\ NoPassword \notin Passwords
  BY RoomAssumption DEF RoomTypeOK
<1>1. CASE UNCHANGED <<worker_pw, admin_pw, owner, disk, history>>
  BY <1>1 DEF history
<1>2. CASE restart
  BY <1>2, RestartEffect
<1>3. ASSUME NEW o \in Owners, lifecycle_close(o)
      PROVE  EndedInv'
  <2>1. InForce' = {}
    BY <1>3, CloseEffect
  <2> QED BY <1>0, <1>3, <2>1, CloseEffect
<1>4. ASSUME NEW o \in Owners, NEW wp \in Passwords, NEW ap \in Passwords,
             _apply_room_bootstrap(o, wp, ap)
      PROVE  EndedInv'
  BY <1>4, BootstrapEffect DEF history
<1>5. ASSUME NEW o \in Owners, lifecycle_rotate_passwords(o)
      PROVE  EndedInv'
  <2>1. CASE owner'[o].at = "idle" /\ UNCHANGED <<worker_pw, admin_pw, ends, ended>>
    BY <1>5, <2>1, RotateEffect
  <2>2. CASE /\ owner'[o].at = "collect"
             /\ worker_pw' = owner[o].wp /\ admin_pw' = owner[o].ap
             /\ Replacing(o, InForce, {owner[o].wp, owner[o].ap})
    <3>1. /\ \A x \in Owners \ {o} : owner'[x] = owner[x]
          /\ \A x \in Owners : x # o => ends'[x] = ends[x] \ {worker_pw', admin_pw'}
          /\ ends'[o] = (ends[o] \cup (InForce \ {NoPassword})) \ {worker_pw', admin_pw'}
          /\ ended' = ended \ {worker_pw', admin_pw'}
      BY <1>5, <2>2, RotateEffect DEF Replacing
    <3>2. InForce' \subseteq {worker_pw', admin_pw'} /\ disk' = disk /\ stale' = stale
      BY <1>5, RotateEffect
    <3>3. InForce' \cap ended' = {} /\ \A x \in Owners : ends'[x] \cap InForce' = {}
      BY <3>1, <3>2
    <3>4. ~stale => {disk.wp, disk.ap} \cap ended' = {}
      BY <3>1
    <3>5. worker_pw' \notin ended'
      BY <3>1
    <3>6. \A x \in Owners :
            /\ owner'[x].at \in {"collect_admin", "write"} /\ ~owner'[x].overtaken =>
                 owner'[x].wp \notin ended' \cup ends'[x]
            /\ owner'[x].at = "write" /\ ~owner'[x].overtaken =>
                 owner'[x].ap \notin ended' \cup ends'[x]
      BY <2>2, <3>1
    <3> QED BY <3>2, <3>3, <3>4, <3>5, <3>6
  <2> QED BY <1>5, <2>1, <2>2, RotateEffect
<1>6. ASSUME NEW o \in Owners, set_worker_password(o)
      PROVE  EndedInv'
  <2>1. CASE owner'[o].at = "idle" /\ UNCHANGED <<worker_pw, ends, ended>>
    BY <1>6, <2>1, SetWorkerEffect
  <2>2. CASE /\ owner'[o].at = "set_admin"
             /\ worker_pw' = owner[o].wp
             /\ Replacing(o, {worker_pw}, {owner[o].wp})
    <3>1. worker_pw = NoPassword \/ admin_pw = NoPassword
      BY <1>6, SetWorkerEffect DEF BootstrapInv, has_password
    <3>2. /\ \A x \in Owners \ {o} : owner'[x] = owner[x] /\ ends'[x] = ends[x] \ {worker_pw'}
          /\ ends'[o] = (ends[o] \cup ({worker_pw} \ {NoPassword})) \ {worker_pw'}
          /\ ended' = ended \ {worker_pw'}
          /\ admin_pw' = admin_pw /\ disk' = disk /\ stale' = stale
      BY <1>6, <2>2, SetWorkerEffect DEF Replacing
    <3>3. ends'[o] \cap InForce' = {}
      BY <1>0, <3>1, <3>2
    <3>4. \A x \in Owners \ {o} : ends'[x] \cap InForce' = {}
      BY <3>2
    <3>5. /\ ~stale => InForce' \cap ended' = {} /\ {disk.wp, disk.ap} \cap ended' = {}
          /\ \A x \in Owners \ {o} : Saving(x)' => InForce' \cap ended' = {}
          /\ ~Saving(o)'
          /\ worker_pw' \notin ended'
      BY <2>2, <3>2
    <3>6. \A x \in Owners :
            /\ owner'[x].at \in {"collect_admin", "write"} /\ ~owner'[x].overtaken =>
                 owner'[x].wp \notin ended' \cup ends'[x]
            /\ owner'[x].at = "write" /\ ~owner'[x].overtaken =>
                 owner'[x].ap \notin ended' \cup ends'[x]
      BY <2>2, <3>2
    <3> QED BY <3>2, <3>3, <3>4, <3>5, <3>6
  <2> QED BY <1>6, <2>1, <2>2, SetWorkerEffect
<1>7. ASSUME NEW o \in Owners, set_admin_password(o)
      PROVE  EndedInv'
  <2>1. worker_pw = NoPassword \/ worker_pw # admin_pw
    BY <1>7, SetAdminEffect DEF BootstrapInv
  <2>2. /\ \A x \in Owners \ {o} : owner'[x] = owner[x] /\ ends'[x] = ends[x] \ {admin_pw'}
        /\ ends'[o] = (ends[o] \cup ({admin_pw} \ {NoPassword})) \ {admin_pw'}
        /\ ended' = ended \ {admin_pw'}
        /\ worker_pw' = worker_pw /\ disk' = disk /\ stale' = stale
        /\ owner[o].at = "set_admin" /\ owner'[o].at = "collect"
    BY <1>7, SetAdminEffect DEF Replacing
  <2>3. InForce' \cap ended' = {}
    BY <2>2
  <2>4. \A x \in Owners : ends'[x] \cap InForce' = {}
    BY <1>0, <2>1, <2>2
  <2>5. ~stale => {disk.wp, disk.ap} \cap ended' = {}
    BY <2>2
  <2>6. \A x \in Owners : owner'[x].at = "set_admin" => worker_pw' \notin ended'
    BY <2>2
  <2>7. \A x \in Owners :
          /\ owner'[x].at \in {"collect_admin", "write"} /\ ~owner'[x].overtaken =>
               owner'[x].wp \notin ended' \cup ends'[x]
          /\ owner'[x].at = "write" /\ ~owner'[x].overtaken =>
               owner'[x].ap \notin ended' \cup ends'[x]
    BY <2>2
  <2> QED BY <2>2, <2>3, <2>4, <2>5, <2>6, <2>7
<1>8. ASSUME NEW o \in Owners, bootstrap_refused(o)
      PROVE  EndedInv'
  BY <1>8, EndsEffect DEF bootstrap_refused, memory
<1>9. ASSUME NEW o \in Owners, save_room_auth(o)
      PROVE  EndedInv'
  BY <1>0, <1>9, SaveEffect DEF history
<1>10. ASSUME NEW o \in Owners, save_room_auth_write(o)
       PROVE  EndedInv'
  BY <1>0, <1>10, EndsEffect DEF save_room_auth_write, memory
<1> QED BY OwnerSteps, <1>1, <1>2, <1>3, <1>4, <1>5, <1>6, <1>7, <1>8, <1>9, <1>10

OwnersInv == RoomTypeOK /\ BootstrapInv /\ RowInv /\ EndedInv

LEMMA OwnersInvHolds == RoomSpec => []OwnersInv
<1>1. RoomInit => OwnersInv
  <2> SUFFICES ASSUME RoomInit PROVE OwnersInv
    OBVIOUS
  <2>1. \A o \in Owners : owner[o].at = "idle" /\ ~owner[o].boot
    BY DEF RoomInit, IdleOwner
  <2>2. BootstrapInv
    BY <2>1 DEF BootstrapInv
  <2>3. RowInv
    BY <2>1 DEF RowInv, RoomInit
  <2>4. EndedInv
    BY <2>1 DEF EndedInv, RoomInit, Saving
  <2> QED BY <2>2, <2>3, <2>4, InitTyped DEF OwnersInv
<1>2. OwnersInv /\ [RoomNext]_roomVars => OwnersInv'
  BY TypeStep, BootstrapStep, RowStep, EndedStep DEF OwnersInv
<1> QED BY <1>1, <1>2, PTL DEF RoomSpec

(* A password whose end was confirmed opens the room no more, not after a  *)
(* crash either, for any number of owners and saves that overlap, while no *)
(* older save went over a newer one and no bootstrap was refused after it  *)
(* had set passwords (room_close, server.py:2698).                         *)
THEOREM EndedForGood == RoomSpec => []EndedStaysEnded
<1>1. OwnersInv => EndedStaysEnded
  BY DEF OwnersInv, EndedInv, EndedStaysEnded
<1> QED BY <1>1, OwnersInvHolds, PTL

(* With no request under way a restart would change no password, with the  *)
(* same two exceptions (_persist_room_meta, server.py:1583).               *)
THEOREM RowKeepsUp == RoomSpec => []RowIsCurrent
<1>1. OwnersInv => RowIsCurrent
  BY DEF OwnersInv, RowInv, SomeFresh, Fresh, RowIsCurrent, IdleOwner
<1> QED BY <1>1, OwnersInvHolds, PTL

-----------------------------------------------------------------------------
(* LocalAgent: the inductive invariants.                                   *)

(* The file has a password, and every worker has it or is to look again.   *)
Reached(pw) == config = pw /\ \A a \in Up : proc[a].cfg = pw \/ proc[a].unseen

(* A request that has written its password and is still to be answered.    *)
Holding(o) == launch[o].at \in {"answer", "stop", "start"} /\ launch[o].claim

(* A request counts on a password only when it brings one. *)
Claims == \A o \in Threads : launch[o].claim => launch[o].pw # NoPassword

CredInv ==
    ~lost => /\ handed => Reached(worker_pw)
             /\ \A o \in Threads : Holding(o) => Reached(launch[o].pw)

(* A start that has been decided on over a list that shows everything: by  *)
(* then nothing else runs, is asked for or is about to be.                 *)
There == {a \in Agents : proc[a].at # "none"}
Alone(o) == launch[o].at \in {"provision", "start"} /\ ~launch[o].blind

SecondInv ==
    ~blind => /\ \A a, b \in There : a = b
              /\ \A o \in Threads : Alone(o) => There = {}
              /\ \A o, x \in Threads : Alone(o) /\ Alone(x) => o = x

-----------------------------------------------------------------------------
(* Types.                                                                  *)

LEMMA Basics ==
  /\ NoPassword \in Hashes /\ Passwords \subseteq Hashes /\ MaxEvents \in Nat
  /\ Owners \subseteq Threads /\ Retriers \subseteq Threads
  /\ IdleLaunch \in LaunchRec /\ IdleLaunch.at = "idle" /\ ~IdleLaunch.claim
  /\ NoProcess \in AgentRec /\ NoProcess.at = "none" /\ ~NoProcess.unseen
  BY LocalAssumption DEF Hashes, Threads, IdleLaunch, LaunchRec, NoProcess, AgentRec

LEMMA LaunchTyped ==
  ASSUME LocalTypeOK, NEW o \in Threads
  PROVE  /\ launch[o] \in LaunchRec /\ launch[o].pw \in Hashes
         /\ launch[o].at \in {"idle", "room", "look", "deliver", "provision", "stop",
                              "start", "answer"}
         /\ launch[o].boot \in BOOLEAN /\ launch[o].claim \in BOOLEAN
         /\ launch[o].blind \in BOOLEAN
  BY DEF LocalTypeOK, LaunchRec

LEMMA AgentTyped ==
  ASSUME LocalTypeOK, NEW a \in Agents
  PROVE  /\ proc[a] \in AgentRec /\ proc[a].cfg \in Hashes
         /\ proc[a].at \in {"none", "prompt", "load", "up", "reload", "save"}
         /\ proc[a].unseen \in BOOLEAN /\ proc[a].moved \in BOOLEAN
  BY DEF LocalTypeOK, AgentRec

LEMMA ThereIs == There = Running \cup Asked
  BY DEF There, Running, Asked

(* One call of a thread goes on, the others stay where they are. *)
OtherCalls(o) == \A x \in Threads \ {o} : launch'[x] = launch[x]
OtherAgents(a) == \A b \in Agents \ {a} : proc'[b] = proc[b]

LEMMA SetLaunch ==
  ASSUME LocalTypeOK, NEW o \in Threads, NEW n \in LaunchRec,
         launch' = [launch EXCEPT ![o] = n]
  PROVE  launch'[o] = n /\ OtherCalls(o) /\ launch' \in [Threads -> LaunchRec]
  BY DEF LocalTypeOK, OtherCalls

(* Where a call is, of what it is for and what it has seen. *)
LEMMA AtTyped ==
  ASSUME LocalTypeOK, NEW o \in Threads,
         NEW place \in {"idle", "room", "look", "deliver", "provision", "stop", "start", "answer"}
  PROVE  LET n == [launch[o] EXCEPT !.at = place]
         IN  /\ n \in LaunchRec /\ n.at = place /\ n.pw = launch[o].pw
             /\ n.claim = launch[o].claim /\ n.blind = launch[o].blind
  BY LaunchTyped DEF LaunchRec

LEMMA OwnerEffect ==
  ASSUME LocalTypeOK, Claims, NEW o \in Owners, owner_step(o)
  PROVE  /\ [RoomNext]_roomVars /\ Claims'
         /\ launch' \in [Threads -> LaunchRec]
         /\ \A x \in Threads : \/ launch'[x] = launch[x]
                               \/ launch'[x].at \in {"idle", "room", "look"}
         /\ handed' = (handed /\ worker_pw' = worker_pw)
         /\ UNCHANGED <<config, proc, lost, blind, events>>
<1>0. o \in Threads
  BY Basics
<1>1. /\ handed' = (handed /\ worker_pw' = worker_pw)
      /\ UNCHANGED <<config, proc, lost, blind, events>>
  BY DEF owner_step
<1>2. [RoomNext]_roomVars
  BY DEF owner_step, RoomStep, RoomNext
<1>3. launch \in [Threads -> LaunchRec]
  BY DEF LocalTypeOK
<1>4. ASSUME NEW n \in LaunchRec, n.at \in {"idle", "room", "look"},
             n.claim => n.pw # NoPassword, launch' = [launch EXCEPT ![o] = n]
      PROVE  /\ launch' \in [Threads -> LaunchRec] /\ Claims'
             /\ \A x \in Threads : \/ launch'[x] = launch[x]
                                   \/ launch'[x].at \in {"idle", "room", "look"}
  BY <1>0, <1>4, SetLaunch DEF OtherCalls, Claims
<1>5. CASE launch' = launch
  BY <1>1, <1>2, <1>3, <1>5 DEF Claims
<1>6. CASE \E wp \in Passwords, contributes \in BOOLEAN : BodyOf(o, wp, contributes)
  <2>1. PICK wp \in Passwords, contributes \in BOOLEAN : BodyOf(o, wp, contributes)
    BY <1>6
  <2> DEFINE n == [IdleLaunch EXCEPT !.at = "room", !.pw = wp, !.boot = TRUE, !.claim = TRUE]
  <2>2. n \in LaunchRec /\ n.at = "room" /\ n.pw # NoPassword
    BY Basics, RoomAssumption DEF LaunchRec
  <2>3. launch' = launch \/ launch' = [launch EXCEPT ![o] = n]
    BY <2>1 DEF BodyOf
  <2> HIDE DEF n
  <2> QED BY <1>1, <1>2, <1>3, <1>4, <2>2, <2>3 DEF Claims
<1>7. CASE Follows(o)
  <2> DEFINE n == [launch[o] EXCEPT !.at = "look"]
  <2>0. launch[o].claim => launch[o].pw # NoPassword
    BY <1>0 DEF Claims
  <2>1. n \in LaunchRec /\ n.at = "look" /\ (n.claim => n.pw # NoPassword)
    BY <1>0, <2>0, LaunchTyped DEF LaunchRec
  <2>2. \/ launch' = launch
        \/ launch' = [launch EXCEPT ![o] = n]
        \/ launch' = [launch EXCEPT ![o] = IdleLaunch]
    BY <1>7 DEF Follows
  <2> HIDE DEF n
  <2> QED BY <1>1, <1>2, <1>3, <1>4, <2>1, <2>2, Basics DEF Claims
<1> QED BY <1>5, <1>6, <1>7 DEF owner_step

LEMMA AskEffect ==
  ASSUME LocalTypeOK, NEW o \in Threads, NEW pw \in Hashes, local_agent_start(o, pw)
  PROVE  /\ launch' \in [Threads -> LaunchRec] /\ OtherCalls(o) /\ launch'[o].at = "look"
         /\ launch'[o].claim => launch'[o].pw # NoPassword
         /\ events' \in 0 .. MaxEvents
         /\ UNCHANGED <<roomVars, config, proc, handed, lost, blind>>
<1> DEFINE n == [IdleLaunch EXCEPT !.at = "look", !.pw = pw, !.claim = pw # NoPassword]
<1>1. n \in LaunchRec /\ n.at = "look" /\ (n.claim => n.pw # NoPassword)
  BY Basics DEF LaunchRec
<1>2. /\ launch' = [launch EXCEPT ![o] = n]
      /\ events < MaxEvents /\ events' = events + 1
      /\ UNCHANGED <<roomVars, config, proc, handed, lost, blind>>
  BY DEF local_agent_start, Occurs
<1> HIDE DEF n
<1>3. events' \in 0 .. MaxEvents
  BY <1>2, Basics DEF LocalTypeOK
<1> QED BY <1>1, <1>2, <1>3, SetLaunch

LEMMA LookEffect ==
  ASSUME LocalTypeOK, NEW o \in Threads, look(o)
  PROVE  /\ launch[o].at = "look"
         /\ launch' \in [Threads -> LaunchRec] /\ OtherCalls(o)
         /\ launch'[o].at \in {"idle", "deliver", "provision", "start"}
         /\ launch'[o].at = "start" => launch'[o].pw = NoPassword
         /\ launch'[o].at \in {"provision", "start"} => launch'[o].blind = Unseen(o)
         /\ \/ launch'[o].pw = launch[o].pw /\ launch'[o].claim = launch[o].claim
            \/ launch'[o].at = "idle" /\ ~launch'[o].claim
         /\ UNCHANGED <<roomVars, config, proc, handed, lost, blind, events>>
<1>1. Unseen(o) \in BOOLEAN
  BY DEF Unseen
<1> DEFINE place == IF launch[o].pw = NoPassword THEN "start" ELSE "provision"
           d == [launch[o] EXCEPT !.at = "deliver"]
           n == [launch[o] EXCEPT !.at = place, !.blind = Unseen(o)]
<1>2. /\ launch[o].at = "look"
      /\ \/ launch' = [launch EXCEPT ![o] = IdleLaunch]
         \/ launch' = [launch EXCEPT ![o] = d]
         \/ launch' = [launch EXCEPT ![o] = n]
      /\ UNCHANGED <<roomVars, config, proc, handed, lost, blind, events>>
  BY DEF look
<1>3. /\ n \in LaunchRec /\ n.at = place /\ n.pw = launch[o].pw /\ n.claim = launch[o].claim
      /\ n.blind = Unseen(o)
  BY <1>1, LaunchTyped DEF LaunchRec
<1>4. /\ d \in LaunchRec /\ d.at = "deliver" /\ d.pw = launch[o].pw /\ d.claim = launch[o].claim
  BY AtTyped
<1>5. place \in {"provision", "start"} /\ (place = "start" => launch[o].pw = NoPassword)
  OBVIOUS
<1> HIDE DEF d, n, place
<1> QED BY <1>2, <1>3, <1>4, <1>5, SetLaunch, Basics

LEMMA NoticedIs ==
  ASSUME NEW ps \in [Agents -> AgentRec]
  PROVE  /\ Noticed(ps) \in [Agents -> AgentRec]
         /\ \A a \in Agents :
              /\ Noticed(ps)[a].at = ps[a].at /\ Noticed(ps)[a].cfg = ps[a].cfg
              /\ ps[a].at \notin {"none", "prompt"} => Noticed(ps)[a].unseen
<1>1. ASSUME NEW a \in Agents
      PROVE  /\ Noticed(ps)[a] \in AgentRec
             /\ Noticed(ps)[a].at = ps[a].at /\ Noticed(ps)[a].cfg = ps[a].cfg
             /\ ps[a].at \notin {"none", "prompt"} => Noticed(ps)[a].unseen
  <2>1. ps[a] \in AgentRec
    OBVIOUS
  <2>2. CASE ps[a].at \in {"none", "prompt"}
    <3>1. Noticed(ps)[a] = ps[a]
      BY <2>2 DEF Noticed
    <3> QED BY <2>1, <2>2, <3>1
  <2>3. CASE ps[a].at \notin {"none", "prompt"}
    <3> DEFINE back == ps[a].at = "reload"
               n == [ps[a] EXCEPT !.unseen = TRUE, !.moved = back]
    <3>1. Noticed(ps)[a] = n
      BY <2>3 DEF Noticed
    <3>2. back \in BOOLEAN
      OBVIOUS
    <3> HIDE DEF back
    <3>3. n \in AgentRec /\ n.at = ps[a].at /\ n.cfg = ps[a].cfg /\ n.unseen
      BY <2>1, <3>2 DEF AgentRec
    <3> QED BY <3>1, <3>3
  <2> QED BY <2>2, <2>3
<1> QED BY <1>1 DEF Noticed

LEMMA WriteEffect ==
  ASSUME LocalTypeOK, NEW o \in Threads, _write_local_agent_config(o)
  PROVE  /\ launch[o].at \in {"deliver", "provision"} /\ launch' \in [Threads -> LaunchRec]
         /\ launch'[o].at \in {"idle", "start", "answer", "stop"}
         /\ launch'[o].at = "start" => launch[o].at = "provision"
         /\ \A x \in Threads :
              /\ launch'[x].claim => launch[x].claim
              /\ \/ launch'[x].pw = launch[x].pw /\ launch'[x].blind = launch[x].blind
                 \/ launch'[x].at = "idle"
              /\ launch'[x].at = "idle" => ~launch'[x].claim \/ launch'[x].pw = launch[x].pw
              /\ x # o => launch'[x].at = launch[x].at /\ launch'[x].pw = launch[x].pw
         /\ \A a \in Agents : proc'[a].at = proc[a].at
         /\ proc' \in [Agents -> AgentRec] /\ config' \in Hashes
         /\ lost' \in BOOLEAN /\ handed' \in BOOLEAN
         /\ \/ /\ launch'[o].at = "idle" /\ UNCHANGED <<config, proc, handed, lost>>
            \/ /\ config' = launch[o].pw
               /\ \A a \in Agents : proc[a].at \notin {"none", "prompt"} => proc'[a].unseen
               /\ handed' => launch[o].pw = worker_pw
               /\ \A x \in Threads : x # o /\ launch'[x].claim => launch[x].pw = launch[o].pw
         /\ UNCHANGED <<roomVars, blind, events>>
<1>1. PICK written \in BOOLEAN, ok \in BOOLEAN :
         /\ ok => written
         /\ config' = IF written THEN launch[o].pw ELSE config
         /\ proc' = IF written THEN Noticed(proc) ELSE proc
         /\ lost' = (lost /\ ~written)
         /\ handed' = (handed /\ (written => launch[o].pw = worker_pw))
         /\ launch' = [x \in Threads |->
              IF x # o THEN [launch[x] EXCEPT
                                !.claim = @ /\ (written => launch[x].pw = launch[o].pw)]
              ELSE IF ~ok THEN IdleLaunch
              ELSE [launch[o] EXCEPT !.at = IF @ = "provision" THEN "start"
                                            ELSE IF launch[o].boot THEN "answer" ELSE "stop"]]
  BY DEF _write_local_agent_config
<1>2. /\ launch[o].at \in {"deliver", "provision"} /\ UNCHANGED <<roomVars, blind, events>>
  BY DEF _write_local_agent_config
<1>3. proc \in [Agents -> AgentRec] /\ config \in Hashes /\ handed \in BOOLEAN /\ lost \in BOOLEAN
  BY DEF LocalTypeOK
<1>4. /\ \A a \in Agents : proc'[a].at = proc[a].at
      /\ proc' \in [Agents -> AgentRec]
      /\ written => \A a \in Agents : proc[a].at \notin {"none", "prompt"} => proc'[a].unseen
  BY <1>1, <1>3, NoticedIs
<1>5. ASSUME NEW x \in Threads, x # o
      PROVE  /\ launch'[x] \in LaunchRec /\ (launch'[x].claim => launch[x].claim)
             /\ launch'[x].at = launch[x].at /\ launch'[x].pw = launch[x].pw
             /\ launch'[x].blind = launch[x].blind
             /\ written /\ launch'[x].claim => launch[x].pw = launch[o].pw
  <2> DEFINE c == launch[x].claim /\ (written => launch[x].pw = launch[o].pw)
             n == [launch[x] EXCEPT !.claim = c]
  <2>1. launch'[x] = n
    BY <1>1, <1>5
  <2>2. /\ c \in BOOLEAN /\ (c => launch[x].claim)
        /\ c /\ written => launch[x].pw = launch[o].pw
    BY LaunchTyped
  <2> HIDE DEF c
  <2>3. /\ n \in LaunchRec /\ n.claim = c /\ n.at = launch[x].at /\ n.pw = launch[x].pw
        /\ n.blind = launch[x].blind
    BY <2>2, LaunchTyped DEF LaunchRec
  <2> QED BY <2>1, <2>2, <2>3
<1>6. CASE ~ok
  <2>1. launch'[o] = IdleLaunch
    BY <1>1, <1>6
  <2>2. launch' \in [Threads -> LaunchRec]
    BY <1>1, <1>5, <2>1, Basics
  <2>3. lost' \in BOOLEAN /\ handed' \in BOOLEAN /\ config' \in Hashes
    BY <1>1, <1>3, LaunchTyped
  <2>4. \/ /\ launch'[o].at = "idle" /\ UNCHANGED <<config, proc, handed, lost>>
        \/ /\ config' = launch[o].pw
           /\ \A a \in Agents : proc[a].at \notin {"none", "prompt"} => proc'[a].unseen
           /\ handed' => launch[o].pw = worker_pw
           /\ \A x \in Threads : x # o /\ launch'[x].claim => launch[x].pw = launch[o].pw
    BY <1>1, <1>3, <1>4, <1>5, <2>1, Basics
  <2> QED BY <1>2, <1>4, <1>5, <2>1, <2>2, <2>3, <2>4, Basics
<1>7. CASE ok
  <2> DEFINE place == IF launch[o].at = "provision" THEN "start"
                      ELSE IF launch[o].boot THEN "answer" ELSE "stop"
             n == [launch[o] EXCEPT !.at = place]
  <2>1. launch'[o] = n /\ written
    BY <1>1, <1>7
  <2>2. place \in {"start", "answer", "stop"} /\ (place = "start" => launch[o].at = "provision")
    BY <1>2
  <2> HIDE DEF place
  <2>3. /\ n \in LaunchRec /\ n.at = place /\ n.pw = launch[o].pw
        /\ n.claim = launch[o].claim /\ n.blind = launch[o].blind
    BY <2>2, LaunchTyped DEF LaunchRec
  <2> HIDE DEF n
  <2>4. launch' \in [Threads -> LaunchRec]
    BY <1>1, <1>5, <2>1, <2>3
  <2>5. lost' \in BOOLEAN /\ handed' \in BOOLEAN /\ config' \in Hashes
    BY <1>1, <1>3, LaunchTyped
  <2>6. /\ config' = launch[o].pw
        /\ \A a \in Agents : proc[a].at \notin {"none", "prompt"} => proc'[a].unseen
        /\ handed' => launch[o].pw = worker_pw
        /\ \A x \in Threads : x # o /\ launch'[x].claim => launch[x].pw = launch[o].pw
    BY <1>1, <1>4, <1>5, <2>1
  <2> QED BY <1>2, <1>4, <1>5, <2>1, <2>2, <2>3, <2>4, <2>5, <2>6
<1> QED BY <1>6, <1>7

(* A request is answered. *)
LEMMA AnsweredEffect ==
  ASSUME LocalTypeOK, NEW o \in Threads, Answered(o)
  PROVE  /\ launch' \in [Threads -> LaunchRec] /\ OtherCalls(o)
         /\ launch'[o] = IdleLaunch /\ handed' \in BOOLEAN
         /\ handed' => handed \/ (launch[o].claim /\ launch[o].pw = worker_pw)
  BY SetLaunch, LaunchTyped, Basics DEF Answered, LocalTypeOK

(* Some of the agents that run are stopped. *)
StoppedOnly(stopped) ==
    proc' = [a \in Agents |-> IF a \in stopped THEN NoProcess ELSE proc[a]]

LEMMA StopEffect ==
  ASSUME LocalTypeOK, NEW o \in Threads, _stop_packaged_local_agent(o)
  PROVE  /\ launch[o].at = "stop" /\ launch' \in [Threads -> LaunchRec] /\ OtherCalls(o)
         /\ proc' \in [Agents -> AgentRec] /\ handed' \in BOOLEAN
         /\ \A a \in Agents : proc'[a] = proc[a] \/ proc'[a] = NoProcess
         /\ \/ /\ launch'[o] = IdleLaunch
               /\ handed' => handed \/ (launch[o].claim /\ launch[o].pw = worker_pw)
            \/ /\ launch'[o].at = "start" /\ launch'[o].pw = launch[o].pw
               /\ launch'[o].claim = launch[o].claim /\ handed' = handed
               /\ \E a \in There : proc'[a] = NoProcess
         /\ UNCHANGED <<roomVars, config, lost, blind, events>>
<1>1. PICK stopped \in SUBSET Running :
         /\ StoppedOnly(stopped)
         /\ IF stopped = {} THEN Answered(o)
            ELSE /\ launch' = [launch EXCEPT ![o].at = "start"]
                 /\ UNCHANGED handed
  BY DEF _stop_packaged_local_agent, StoppedOnly
<1>2. launch[o].at = "stop" /\ UNCHANGED <<roomVars, config, lost, blind, events>>
  BY DEF _stop_packaged_local_agent
<1>3. /\ proc' \in [Agents -> AgentRec]
      /\ \A a \in Agents : proc'[a] = proc[a] \/ proc'[a] = NoProcess
  BY <1>1, Basics DEF StoppedOnly, LocalTypeOK
<1>4. CASE stopped = {}
  BY <1>1, <1>2, <1>3, <1>4, AnsweredEffect
<1>5. CASE stopped # {}
  <2> DEFINE n == [launch[o] EXCEPT !.at = "start"]
  <2>1. n \in LaunchRec /\ n.at = "start" /\ n.pw = launch[o].pw /\ n.claim = launch[o].claim
    BY AtTyped
  <2>2. launch' = [launch EXCEPT ![o] = n] /\ handed' = handed
    BY <1>1, <1>5
  <2> HIDE DEF n
  <2>3. launch' \in [Threads -> LaunchRec] /\ OtherCalls(o) /\ launch'[o] = n
    BY <2>1, <2>2, SetLaunch
  <2>4. PICK a \in stopped : TRUE
    BY <1>5
  <2>5. a \in There /\ proc'[a] = NoProcess
    BY <1>1, <2>4 DEF StoppedOnly, There, Running
  <2> QED BY <1>2, <1>3, <2>1, <2>2, <2>3, <2>5 DEF LocalTypeOK
<1> QED BY <1>4, <1>5

LEMMA StartEffect ==
  ASSUME LocalTypeOK, NEW o \in Threads, start(o)
  PROVE  /\ launch[o].at = "start" /\ launch' \in [Threads -> LaunchRec] /\ OtherCalls(o)
         /\ launch'[o] = IdleLaunch /\ handed' \in BOOLEAN /\ blind' \in BOOLEAN
         /\ handed' => handed \/ (launch[o].claim /\ launch[o].pw = worker_pw)
         /\ proc' \in [Agents -> AgentRec]
         /\ \/ UNCHANGED <<proc, blind>>
            \/ \E a \in Agents : /\ proc[a].at = "none" /\ proc'[a].at = "prompt"
                                 /\ OtherAgents(a)
                                 /\ blind' = (blind \/ launch[o].blind)
         /\ UNCHANGED <<roomVars, config, lost, events>>
<1>1. /\ launch' \in [Threads -> LaunchRec] /\ OtherCalls(o)
      /\ launch'[o] = IdleLaunch /\ handed' \in BOOLEAN
      /\ handed' => handed \/ (launch[o].claim /\ launch[o].pw = worker_pw)
      /\ launch[o].at = "start" /\ UNCHANGED <<roomVars, config, lost, events>>
  BY AnsweredEffect DEF start
<1>2. CASE UNCHANGED <<proc, blind>>
  BY <1>1, <1>2 DEF LocalTypeOK
<1>3. ASSUME NEW a \in Agents, proc[a] = NoProcess, proc' = [proc EXCEPT ![a].at = "prompt"],
             blind' = (blind \/ launch[o].blind)
      PROVE  /\ proc[a].at = "none" /\ proc'[a].at = "prompt" /\ OtherAgents(a)
             /\ proc' \in [Agents -> AgentRec] /\ blind' \in BOOLEAN
  <2> DEFINE n == [proc[a] EXCEPT !.at = "prompt"]
  <2>1. n \in AgentRec /\ n.at = "prompt"
    BY AgentTyped DEF AgentRec
  <2>2. proc' = [proc EXCEPT ![a] = n]
    BY <1>3
  <2> HIDE DEF n
  <2>3. proc'[a] = n /\ OtherAgents(a) /\ proc' \in [Agents -> AgentRec]
    BY <2>1, <2>2 DEF OtherAgents, LocalTypeOK
  <2>4. blind' \in BOOLEAN
    BY <1>3, LaunchTyped DEF LocalTypeOK
  <2> QED BY <1>3, <2>1, <2>3, <2>4, Basics
<1> QED BY <1>1, <1>2, <1>3 DEF start

(* A step of one agent. *)
AgentStep(a) ==
    \/ ConfigReloadGate(a) \/ Load(a) \/ ReloadRotatedCredentials(a) \/ TryReload(a)
    \/ JoinAsync(a) \/ SaveEndpoints(a) \/ exits(a)

LEMMA AgentEffect ==
  ASSUME LocalTypeOK, NEW a \in Agents, AgentStep(a)
  PROVE  /\ proc' \in [Agents -> AgentRec] /\ config' \in Hashes /\ lost' \in BOOLEAN
         /\ \A b \in Agents : proc'[b].at # "none" => proc[b].at # "none"
         /\ (~lost' => ~lost) /\ \A pw : ~lost' /\ Reached(pw) => Reached(pw)'
         /\ UNCHANGED <<roomVars, launch, handed, blind, events>>
<1>0. /\ proc \in [Agents -> AgentRec] /\ config \in Hashes /\ lost \in BOOLEAN
      /\ proc[a] \in AgentRec
  BY DEF LocalTypeOK
<1>1. ASSUME NEW n \in AgentRec, Becomes(a, n), proc[a].at # "none",
             n.at \in {"up", "reload", "save"} =>
               n.cfg = config \/ n.unseen \/ (proc[a].at \in {"up", "reload", "save"}
                                                /\ n.cfg = proc[a].cfg
                                                /\ n.unseen = proc[a].unseen)
      PROVE  /\ proc' \in [Agents -> AgentRec] /\ config' \in Hashes /\ lost' \in BOOLEAN
             /\ \A b \in Agents : proc'[b].at # "none" => proc[b].at # "none"
             /\ (~lost' => ~lost) /\ \A pw : ~lost' /\ Reached(pw) => Reached(pw)'
             /\ UNCHANGED <<roomVars, launch, handed, blind, events>>
  <2>1. /\ proc' = [proc EXCEPT ![a] = n]
        /\ UNCHANGED <<roomVars, launch, config, handed, lost, blind, events>>
    BY <1>1 DEF Becomes
  <2>2. /\ proc'[a] = n /\ \A b \in Agents \ {a} : proc'[b] = proc[b]
        /\ proc' \in [Agents -> AgentRec]
    BY <1>0, <2>1
  <2>3. ASSUME NEW pw, Reached(pw)
        PROVE  Reached(pw)'
    <3>1. config' = pw /\ config = pw
      BY <2>1, <2>3 DEF Reached
    <3>2. ASSUME NEW b \in Agents, proc'[b].at \in {"up", "reload", "save"}
          PROVE  proc'[b].cfg = pw \/ proc'[b].unseen
      BY <1>1, <2>2, <2>3, <3>1, <3>2 DEF Reached, Up
    <3> QED BY <3>1, <3>2 DEF Reached, Up
  <2> QED BY <1>0, <1>1, <2>1, <2>2, <2>3
<1>2. CASE ConfigReloadGate(a)
  <2> DEFINE n == [NoProcess EXCEPT !.at = "load"]
  <2>1. n \in AgentRec /\ n.at = "load"
    BY Basics DEF AgentRec
  <2>2. (Becomes(a, n) \/ Becomes(a, NoProcess)) /\ proc[a].at = "prompt"
    BY <1>2 DEF ConfigReloadGate
  <2> HIDE DEF n
  <2> QED BY <1>1, <2>1, <2>2, Basics
<1>3. CASE Load(a)
  <2> DEFINE n == [proc[a] EXCEPT !.at = "up", !.cfg = config]
  <2>1. n \in AgentRec /\ n.cfg = config
    BY <1>0 DEF AgentRec
  <2>2. (Becomes(a, n) \/ Becomes(a, NoProcess)) /\ proc[a].at = "load"
    BY <1>3 DEF Load
  <2> HIDE DEF n
  <2> QED BY <1>1, <2>1, <2>2, Basics
<1>4. CASE ReloadRotatedCredentials(a)
  <2> DEFINE n == [proc[a] EXCEPT !.at = "reload", !.moved = FALSE]
  <2>1. n \in AgentRec /\ n.cfg = proc[a].cfg /\ n.unseen = proc[a].unseen
    BY <1>0 DEF AgentRec
  <2>2. Becomes(a, n) /\ proc[a].at = "up"
    BY <1>4 DEF ReloadRotatedCredentials
  <2> HIDE DEF n
  <2> QED BY <1>1, <2>1, <2>2
<1>5. CASE TryReload(a)
  <2> DEFINE n == [proc[a] EXCEPT !.at = "up", !.cfg = config, !.unseen = proc[a].moved,
                                  !.moved = FALSE]
             k == [proc[a] EXCEPT !.at = "up", !.moved = FALSE]
  <2>1. n \in AgentRec /\ n.cfg = config
    BY <1>0, AgentTyped DEF AgentRec
  <2>2. k \in AgentRec /\ k.cfg = proc[a].cfg /\ k.unseen = proc[a].unseen
    BY <1>0 DEF AgentRec
  <2>3. (Becomes(a, n) \/ Becomes(a, k)) /\ proc[a].at = "reload"
    BY <1>5 DEF TryReload
  <2> HIDE DEF n, k
  <2> QED BY <1>1, <2>1, <2>2, <2>3
<1>6. CASE JoinAsync(a)
  <2> DEFINE n == [proc[a] EXCEPT !.at = "save"]
  <2>1. n \in AgentRec /\ n.cfg = proc[a].cfg /\ n.unseen = proc[a].unseen
    BY <1>0 DEF AgentRec
  <2>2. Becomes(a, n) /\ proc[a].at = "up"
    BY <1>6 DEF JoinAsync
  <2> HIDE DEF n
  <2> QED BY <1>1, <2>1, <2>2
<1>7. CASE exits(a)
  <2>1. Becomes(a, NoProcess) /\ proc[a].at # "none"
    BY <1>7 DEF exits, Running
  <2> QED BY <1>1, <2>1, Basics
<1>8. CASE SaveEndpoints(a)
  <2> DEFINE n == [proc[a] EXCEPT !.at = "up"]
             up == [proc EXCEPT ![a] = n]
  <2>1. /\ proc[a].at = "save" /\ UNCHANGED <<roomVars, launch, handed, blind, events>>
        /\ \/ /\ proc' = Noticed(up) /\ config' = proc[a].cfg
              /\ lost' = (lost \/ config # proc[a].cfg)
           \/ proc' = up /\ UNCHANGED <<config, lost>>
    BY <1>8 DEF SaveEndpoints
  <2>2. n \in AgentRec /\ n.at = "up" /\ n.cfg = proc[a].cfg /\ n.unseen = proc[a].unseen
    BY <1>0 DEF AgentRec
  <2>3. config' \in Hashes /\ lost' \in BOOLEAN /\ (~lost' => ~lost /\ config' = config)
    BY <1>0, <2>1, AgentTyped
  <2> HIDE DEF n
  <2>4. /\ up \in [Agents -> AgentRec] /\ up[a] = n /\ \A b \in Agents \ {a} : up[b] = proc[b]
    BY <1>0, <2>2
  <2> HIDE DEF up
  <2>5. /\ proc' \in [Agents -> AgentRec]
        /\ \A b \in Agents : /\ proc'[b].at = up[b].at /\ proc'[b].cfg = up[b].cfg
                             /\ \/ proc'[b].unseen = up[b].unseen
                                \/ proc'[b].unseen \/ up[b].at \in {"none", "prompt"}
    BY <2>1, <2>4, NoticedIs
  <2>6. ASSUME NEW pw, Reached(pw), ~lost'
        PROVE  Reached(pw)'
    <3>1. config' = pw
      BY <2>3, <2>6 DEF Reached
    <3>2. ASSUME NEW b \in Agents, proc'[b].at \in {"up", "reload", "save"}
          PROVE  proc'[b].cfg = pw \/ proc'[b].unseen
      BY <2>1, <2>2, <2>4, <2>5, <2>6, <3>2 DEF Reached, Up
    <3> QED BY <3>1, <3>2 DEF Reached, Up
  <2>7. \A b \in Agents : proc'[b].at # "none" => proc[b].at # "none"
    BY <2>1, <2>2, <2>4, <2>5
  <2> QED BY <2>1, <2>3, <2>5, <2>6, <2>7
<1> QED BY <1>2, <1>3, <1>4, <1>5, <1>6, <1>7, <1>8 DEF AgentStep

LEMMA HostRestartEffect ==
  ASSUME LocalTypeOK, host_restarts
  PROVE  /\ restart /\ launch' = [o \in Threads |-> IdleLaunch]
         /\ config' \in Hashes /\ lost' = lost /\ handed' \in BOOLEAN /\ blind' \in BOOLEAN
         /\ handed' => handed /\ config' = config /\ worker_pw' = worker_pw
         /\ config' = config =>
              \A a \in Agents : proc'[a].at \in {"up", "reload", "save"} => proc'[a] = proc[a]
         /\ proc' \in [Agents -> AgentRec] /\ events' \in 0 .. MaxEvents
         /\ \/ blind' = blind /\ \A a \in Agents : proc'[a].at = proc[a].at
            \/ \E a \in Agents : /\ proc'[a].at = "prompt"
                                 /\ \A b \in Agents \ {a} : proc'[b].at = proc[b].at
                                 /\ blind' = (blind \/ Running \cup Asked # {})
<1>1. PICK pw \in {config} \cup {launch[o].pw : o \in {x \in Threads :
                                   launch[x].at \in {"deliver", "provision"}}} :
         /\ config' = pw
         /\ handed' = (handed /\ pw = config /\ worker_pw' = worker_pw)
         /\ LET after == IF pw = config THEN proc ELSE Noticed(proc)
            IN \/ proc' = after /\ UNCHANGED blind
               \/ /\ has_password'
                  /\ pw # NoPassword
                  /\ \E a \in Agents :
                       /\ proc[a] = NoProcess
                       /\ proc' = [after EXCEPT ![a].at = "prompt"]
                  /\ blind' = (blind \/ Running \cup Asked # {})
  BY DEF host_restarts
<1>2. /\ restart /\ launch' = [o \in Threads |-> IdleLaunch] /\ lost' = lost
      /\ events < MaxEvents /\ events' = events + 1
  BY DEF host_restarts, Occurs
<1>3. /\ proc \in [Agents -> AgentRec] /\ config \in Hashes /\ handed \in BOOLEAN
      /\ blind \in BOOLEAN /\ events \in 0 .. MaxEvents
  BY DEF LocalTypeOK
<1>4. events' \in 0 .. MaxEvents /\ config' \in Hashes
  BY <1>1, <1>2, <1>3, Basics, LaunchTyped
<1> DEFINE after == IF pw = config THEN proc ELSE Noticed(proc)
<1>5. /\ after \in [Agents -> AgentRec] /\ \A a \in Agents : after[a].at = proc[a].at
      /\ pw = config => after = proc
  BY <1>3, NoticedIs
<1>7. ASSUME NEW a \in Agents, proc' = [after EXCEPT ![a].at = "prompt"],
             blind' = (blind \/ Running \cup Asked # {})
      PROVE  /\ proc' \in [Agents -> AgentRec] /\ proc'[a].at = "prompt"
             /\ \A b \in Agents \ {a} : proc'[b] = after[b]
  <2> HIDE DEF after
  <2> DEFINE n == [after[a] EXCEPT !.at = "prompt"]
  <2>1. n \in AgentRec /\ n.at = "prompt"
    BY <1>5 DEF AgentRec
  <2>2. proc' = [after EXCEPT ![a] = n]
    BY <1>7
  <2> HIDE DEF n
  <2> QED BY <1>5, <2>1, <2>2
<1>8. \/ proc' = after /\ UNCHANGED blind
      \/ \E a \in Agents : /\ proc' = [after EXCEPT ![a].at = "prompt"]
                           /\ blind' = (blind \/ Running \cup Asked # {})
  BY <1>1
<1> HIDE DEF after
<1>9. ASSUME NEW a \in Agents, proc' = [after EXCEPT ![a].at = "prompt"],
             blind' = (blind \/ Running \cup Asked # {})
      PROVE  /\ proc' \in [Agents -> AgentRec] /\ blind' \in BOOLEAN
             /\ config' = config =>
                  \A b \in Agents : proc'[b].at \in {"up", "reload", "save"} => proc'[b] = proc[b]
             /\ proc'[a].at = "prompt" /\ \A b \in Agents \ {a} : proc'[b].at = proc[b].at
  <2>1. blind' \in BOOLEAN
    BY <1>3, <1>9
  <2> QED BY <1>1, <1>5, <1>7, <1>9, <2>1
<1>10. handed' \in BOOLEAN /\ (handed' => handed /\ config' = config /\ worker_pw' = worker_pw)
  BY <1>1, <1>3
<1>11. /\ proc' \in [Agents -> AgentRec] /\ blind' \in BOOLEAN
       /\ config' = config =>
            \A b \in Agents : proc'[b].at \in {"up", "reload", "save"} => proc'[b] = proc[b]
  BY <1>1, <1>3, <1>5, <1>8, <1>9
<1>12. \/ blind' = blind /\ \A a \in Agents : proc'[a].at = proc[a].at
       \/ \E a \in Agents : /\ proc'[a].at = "prompt"
                            /\ \A b \in Agents \ {a} : proc'[b].at = proc[b].at
                            /\ blind' = (blind \/ Running \cup Asked # {})
  BY <1>5, <1>8, <1>9
<1> QED BY <1>2, <1>4, <1>10, <1>11, <1>12

-----------------------------------------------------------------------------
(* Every step keeps the types, and its room's part is a step of Room.      *)

TypedInv == LocalTypeOK /\ Claims

LEMMA LocalInitTyped == LocalInit => TypedInv
<1> SUFFICES ASSUME LocalInit PROVE TypedInv
  OBVIOUS
<1>1. RoomTypeOK
  BY InitTyped DEF LocalInit
<1>2. /\ launch = [o \in Threads |-> IdleLaunch] /\ proc = [a \in Agents |-> NoProcess]
      /\ config = NoPassword /\ handed = FALSE /\ lost = FALSE /\ blind = FALSE /\ events = 0
  BY DEF LocalInit
<1>3. launch \in [Threads -> LaunchRec] /\ proc \in [Agents -> AgentRec] /\ Claims
  BY <1>2, Basics DEF Claims
<1>4. config \in Hashes /\ events \in 0 .. MaxEvents
  BY <1>2, Basics
<1> QED BY <1>1, <1>2, <1>3, <1>4 DEF LocalTypeOK, TypedInv

(* The steps of the calls and of the agents leave the room alone. *)
Call(o) ==
    \/ \E pw \in Hashes : local_agent_start(o, pw)
    \/ look(o) \/ _write_local_agent_config(o) \/ answer(o)
    \/ _stop_packaged_local_agent(o) \/ start(o)

LEMMA LocalSteps ==
  LocalNext =>
    \/ \E o \in Owners : owner_step(o)
    \/ \E o \in Threads : Call(o)
    \/ \E a \in Agents : AgentStep(a)
    \/ host_restarts
  BY DEF LocalNext, Call, AgentStep

LEMMA CallTyped ==
  ASSUME TypedInv, NEW o \in Threads, Call(o)
  PROVE  /\ UNCHANGED roomVars /\ launch' \in [Threads -> LaunchRec]
         /\ config' \in Hashes /\ proc' \in [Agents -> AgentRec]
         /\ handed' \in BOOLEAN /\ lost' \in BOOLEAN /\ blind' \in BOOLEAN
         /\ events' \in 0 .. MaxEvents /\ Claims'
<1>0. /\ LocalTypeOK /\ Claims
      /\ config \in Hashes /\ proc \in [Agents -> AgentRec]
      /\ handed \in BOOLEAN /\ lost \in BOOLEAN /\ blind \in BOOLEAN
      /\ events \in 0 .. MaxEvents
  BY DEF TypedInv, LocalTypeOK
<1>1. ASSUME NEW pw \in Hashes, local_agent_start(o, pw)
      PROVE  /\ UNCHANGED <<roomVars, config, proc, handed, lost, blind>>
             /\ launch' \in [Threads -> LaunchRec]
             /\ events' \in 0 .. MaxEvents /\ Claims'
  BY <1>0, <1>1, AskEffect DEF Claims, OtherCalls
<1>2. CASE look(o)
  BY <1>0, <1>2, LookEffect DEF Claims, OtherCalls
<1>3. CASE _write_local_agent_config(o)
  BY <1>0, <1>3, WriteEffect DEF Claims
<1>4. CASE answer(o)
  <2>1. Answered(o) /\ UNCHANGED <<roomVars, config, proc, lost, blind, events>>
    BY <1>4 DEF answer
  <2> QED BY <1>0, <2>1, AnsweredEffect, Basics DEF Claims, OtherCalls
<1>5. CASE _stop_packaged_local_agent(o)
  BY <1>0, <1>5, StopEffect, Basics DEF Claims, OtherCalls
<1>6. CASE start(o)
  BY <1>0, <1>6, StartEffect, Basics DEF Claims, OtherCalls
<1> QED BY <1>0, <1>1, <1>2, <1>3, <1>4, <1>5, <1>6 DEF Call

LEMMA LocalTypeStep ==
  TypedInv /\ [LocalNext]_localVars => TypedInv' /\ [RoomNext]_roomVars
<1> SUFFICES ASSUME TypedInv, [LocalNext]_localVars PROVE TypedInv' /\ [RoomNext]_roomVars
  OBVIOUS
<1>0. /\ LocalTypeOK /\ Claims /\ RoomTypeOK
      /\ launch \in [Threads -> LaunchRec]
      /\ config \in Hashes /\ proc \in [Agents -> AgentRec]
      /\ handed \in BOOLEAN /\ lost \in BOOLEAN /\ blind \in BOOLEAN
      /\ events \in 0 .. MaxEvents
  BY DEF TypedInv, LocalTypeOK
<1>1. ASSUME [RoomNext]_roomVars,
             launch' \in [Threads -> LaunchRec],
             config' \in Hashes, proc' \in [Agents -> AgentRec],
             handed' \in BOOLEAN, lost' \in BOOLEAN, blind' \in BOOLEAN,
             events' \in 0 .. MaxEvents, Claims'
      PROVE  TypedInv' /\ [RoomNext]_roomVars
  <2>1. RoomTypeOK'
    BY <1>0, <1>1, TypeStep
  <2> QED BY <1>1, <2>1 DEF TypedInv, LocalTypeOK
<1>2. CASE UNCHANGED localVars
  <2>1. UNCHANGED <<launch, config, proc, handed, lost, blind, events>> /\ UNCHANGED roomVars
    BY <1>2 DEF localVars
  <2> QED BY <1>0, <1>1, <2>1 DEF Claims
<1>3. ASSUME NEW o \in Owners, owner_step(o)
      PROVE  TypedInv' /\ [RoomNext]_roomVars
  <2>1. /\ [RoomNext]_roomVars /\ Claims' /\ launch' \in [Threads -> LaunchRec]
        /\ handed' = (handed /\ worker_pw' = worker_pw)
        /\ UNCHANGED <<config, proc, lost, blind, events>>
    BY <1>0, <1>3, OwnerEffect
  <2> QED BY <1>0, <1>1, <2>1
<1>4. ASSUME NEW o \in Threads, Call(o)
      PROVE  TypedInv' /\ [RoomNext]_roomVars
  BY <1>1, <1>4, CallTyped
<1>5. ASSUME NEW a \in Agents, AgentStep(a)
      PROVE  TypedInv' /\ [RoomNext]_roomVars
  <2>1. /\ proc' \in [Agents -> AgentRec] /\ config' \in Hashes /\ lost' \in BOOLEAN
        /\ UNCHANGED <<launch, handed, blind, events>> /\ UNCHANGED roomVars
    BY <1>0, <1>5, AgentEffect
  <2> QED BY <1>0, <1>1, <2>1 DEF Claims
<1>6. CASE host_restarts
  <2>1. /\ restart /\ launch' = [o \in Threads |-> IdleLaunch]
        /\ config' \in Hashes /\ lost' = lost /\ handed' \in BOOLEAN /\ blind' \in BOOLEAN
        /\ proc' \in [Agents -> AgentRec] /\ events' \in 0 .. MaxEvents
    BY <1>0, <1>6, HostRestartEffect
  <2>2. [RoomNext]_roomVars
    BY <2>1 DEF RoomNext
  <2>3. launch' \in [Threads -> LaunchRec] /\ Claims'
    BY <2>1, Basics DEF Claims
  <2> QED BY <1>0, <1>1, <2>1, <2>2, <2>3
<1> QED BY <1>2, <1>3, <1>4, <1>5, <1>6, LocalSteps

LEMMA TypedHolds == LocalSpec => []TypedInv
  BY LocalInitTyped, LocalTypeStep, PTL DEF LocalSpec

(* Every variable keeps its type, whatever requests, prompts, agents and   *)
(* restarts of the Host interleave (_launch_local_agent, server.py:443).   *)
THEOREM LocalTypes == LocalSpec => []LocalTypeOK
  BY TypedHolds, PTL DEF TypedInv

(* The room that hands its password to the agent of its own machine is     *)
(* still the room: what owners and restarts do to it here are steps of     *)
(* Room, so the theorems above hold of it (the bootstrap and rotation      *)
(* handlers of server.py).                                                 *)
THEOREM LocalRunsTheRoom == LocalSpec => RoomSpec
<1>1. LocalInit => RoomInit
  BY DEF LocalInit
<1> QED BY <1>1, TypedHolds, LocalTypeStep, PTL DEF LocalSpec, RoomSpec

-----------------------------------------------------------------------------
(* The password reaches the agents.                                        *)

(* What must be shown of a step: everything is as it was, or more.         *)
LEMMA CredKept ==
  ASSUME ~lost' => /\ handed' => Reached(worker_pw)'
                   /\ \A o \in Threads : Holding(o)' => Reached(launch[o].pw)'
  PROVE  CredInv'
  BY DEF CredInv

(* A step that leaves the file alone and stops agents at most. *)
LEMMA StillReached ==
  ASSUME NEW pw, Reached(pw), config' = config,
         \A a \in Agents : proc'[a].at \in {"up", "reload", "save"} => proc'[a] = proc[a]
  PROVE  Reached(pw)'
  BY DEF Reached, Up

LEMMA CallKeeps ==
  ASSUME TypedInv, CredInv, NEW o \in Threads, UNCHANGED <<roomVars, config, lost>>,
         \A a \in Agents : proc'[a].at \in {"up", "reload", "save"} => proc'[a] = proc[a],
         handed' => handed \/ (Holding(o) /\ launch[o].pw = worker_pw),
         \A x \in Threads : Holding(x)' => Holding(x) /\ launch'[x].pw = launch[x].pw
  PROVE  CredInv'
<1>1. worker_pw' = worker_pw
  BY DEF roomVars, memory
<1>2. ASSUME ~lost', handed'
      PROVE  Reached(worker_pw)'
  <2>1. PICK p : p = worker_pw
    OBVIOUS
  <2>2. Reached(p)
    BY <1>2, <2>1 DEF CredInv
  <2>3. Reached(p)'
    BY <2>2, StillReached
  <2> QED BY <1>1, <2>1, <2>3 DEF Reached
<1>3. ASSUME ~lost', NEW x \in Threads, Holding(x)'
      PROVE  Reached(launch[x].pw)'
  <2>1. PICK p : p = launch[x].pw
    OBVIOUS
  <2>2. Reached(p) /\ launch'[x].pw = p
    BY <1>3, <2>1 DEF CredInv
  <2>3. Reached(p)'
    BY <2>2, StillReached
  <2> QED BY <2>2, <2>3 DEF Reached
<1> QED BY <1>2, <1>3, CredKept

LEMMA CallCred ==
  ASSUME TypedInv, CredInv, NEW o \in Threads, Call(o)
  PROVE  CredInv'
<1>0. LocalTypeOK /\ Claims
  BY DEF TypedInv
<1>1. ASSUME NEW pw \in Hashes, local_agent_start(o, pw)
      PROVE  CredInv'
  <2>1. /\ OtherCalls(o) /\ launch'[o].at = "look"
        /\ UNCHANGED <<roomVars, config, proc, handed, lost, blind>>
    BY <1>0, <1>1, AskEffect
  <2>2. \A x \in Threads : Holding(x)' => Holding(x) /\ launch'[x].pw = launch[x].pw
    BY <2>1 DEF Holding, OtherCalls
  <2> QED BY <2>1, <2>2, CallKeeps
<1>2. CASE look(o)
  <2>1. /\ OtherCalls(o)
        /\ launch'[o].at \in {"idle", "deliver", "provision", "start"}
        /\ launch'[o].at = "start" => launch'[o].pw = NoPassword
        /\ \/ launch'[o].pw = launch[o].pw /\ launch'[o].claim = launch[o].claim
           \/ launch'[o].at = "idle" /\ ~launch'[o].claim
        /\ UNCHANGED <<roomVars, config, proc, handed, lost, blind>>
    BY <1>0, <1>2, LookEffect
  <2>2. launch[o].claim => launch[o].pw # NoPassword
    BY <1>0 DEF Claims
  <2>3. \A x \in Threads : Holding(x)' => Holding(x) /\ launch'[x].pw = launch[x].pw
    BY <2>1, <2>2 DEF Holding, OtherCalls
  <2> QED BY <2>1, <2>3, CallKeeps
<1>3. CASE _write_local_agent_config(o)
  <2>1. /\ launch'[o].at \in {"idle", "start", "answer", "stop"}
        /\ \A x \in Threads :
              /\ launch'[x].claim => launch[x].claim
              /\ launch'[x].pw = launch[x].pw \/ launch'[x].at = "idle"
              /\ x # o => launch'[x].at = launch[x].at /\ launch'[x].pw = launch[x].pw
        /\ \A a \in Agents : proc'[a].at = proc[a].at
        /\ \/ /\ launch'[o].at = "idle" /\ UNCHANGED <<config, proc, handed, lost>>
           \/ /\ config' = launch[o].pw
              /\ \A a \in Agents : proc[a].at \notin {"none", "prompt"} => proc'[a].unseen
              /\ handed' => launch[o].pw = worker_pw
              /\ \A x \in Threads : x # o /\ launch'[x].claim => launch[x].pw = launch[o].pw
        /\ UNCHANGED roomVars
    BY <1>0, <1>3, WriteEffect
  <2>2. CASE launch'[o].at = "idle" /\ UNCHANGED <<config, proc, handed, lost>>
    <3>1. \A x \in Threads : Holding(x)' => Holding(x) /\ launch'[x].pw = launch[x].pw
      BY <2>1, <2>2 DEF Holding
    <3> QED BY <2>1, <2>2, <3>1, CallKeeps
  <2>3. CASE /\ config' = launch[o].pw
             /\ \A a \in Agents : proc[a].at \notin {"none", "prompt"} => proc'[a].unseen
             /\ handed' => launch[o].pw = worker_pw
             /\ \A x \in Threads : x # o /\ launch'[x].claim => launch[x].pw = launch[o].pw
    <3>1. PICK p : p = launch[o].pw
      OBVIOUS
    <3>2. Reached(p)'
      BY <2>1, <2>3, <3>1 DEF Reached, Up
    <3>3. worker_pw' = worker_pw
      BY <2>1 DEF roomVars, memory
    <3>4. handed' => worker_pw' = p
      BY <2>3, <3>1, <3>3
    <3>5. \A x \in Threads : Holding(x)' => launch'[x].pw = p
      BY <2>1, <2>3, <3>1 DEF Holding
    <3> QED BY <3>2, <3>4, <3>5, CredKept DEF Reached
  <2> QED BY <2>1, <2>2, <2>3
<1>4. ASSUME launch'[o] = IdleLaunch, OtherCalls(o), UNCHANGED <<roomVars, config, lost>>,
             launch[o].at \in {"answer", "stop", "start"},
             \A a \in Agents : proc'[a].at \in {"up", "reload", "save"} => proc'[a] = proc[a],
             handed' => handed \/ (launch[o].claim /\ launch[o].pw = worker_pw)
      PROVE  CredInv'
  <2>1. \A x \in Threads : Holding(x)' => Holding(x) /\ launch'[x].pw = launch[x].pw
    BY <1>4, Basics DEF Holding, OtherCalls
  <2>2. handed' => handed \/ (Holding(o) /\ launch[o].pw = worker_pw)
    BY <1>4 DEF Holding
  <2> QED BY <1>4, <2>1, <2>2, CallKeeps
<1>5. CASE answer(o)
  <2>1. launch[o].at = "answer" /\ Answered(o) /\ UNCHANGED <<roomVars, config, proc, lost>>
    BY <1>5 DEF answer
  <2>2. /\ launch'[o] = IdleLaunch /\ OtherCalls(o)
        /\ handed' => handed \/ (launch[o].claim /\ launch[o].pw = worker_pw)
    BY <1>0, <2>1, AnsweredEffect
  <2> QED BY <1>4, <2>1, <2>2
<1>6. CASE _stop_packaged_local_agent(o)
  <2>1. /\ launch[o].at = "stop" /\ OtherCalls(o)
        /\ \A a \in Agents : proc'[a] = proc[a] \/ proc'[a] = NoProcess
        /\ UNCHANGED <<roomVars, config, lost>>
        /\ \/ /\ launch'[o] = IdleLaunch
              /\ handed' => handed \/ (launch[o].claim /\ launch[o].pw = worker_pw)
           \/ /\ launch'[o].at = "start" /\ launch'[o].pw = launch[o].pw
              /\ launch'[o].claim = launch[o].claim /\ handed' = handed
    BY <1>0, <1>6, StopEffect
  <2>2. \A a \in Agents : proc'[a].at \in {"up", "reload", "save"} => proc'[a] = proc[a]
    BY <2>1, Basics
  <2>3. CASE launch'[o] = IdleLaunch
             /\ (handed' => handed \/ (launch[o].claim /\ launch[o].pw = worker_pw))
    BY <1>4, <2>1, <2>2, <2>3
  <2>4. CASE /\ launch'[o].at = "start" /\ launch'[o].pw = launch[o].pw
             /\ launch'[o].claim = launch[o].claim /\ handed' = handed
    <3>1. \A x \in Threads : Holding(x)' => Holding(x) /\ launch'[x].pw = launch[x].pw
      BY <2>1, <2>4 DEF Holding, OtherCalls
    <3> QED BY <2>1, <2>2, <2>4, <3>1, CallKeeps
  <2> QED BY <2>1, <2>3, <2>4
<1>7. CASE start(o)
  <2>1. /\ launch[o].at = "start" /\ OtherCalls(o) /\ launch'[o] = IdleLaunch
        /\ handed' => handed \/ (launch[o].claim /\ launch[o].pw = worker_pw)
        /\ \/ proc' = proc
           \/ \E a \in Agents : proc'[a].at = "prompt" /\ OtherAgents(a)
        /\ UNCHANGED <<roomVars, config, lost>>
    BY <1>0, <1>7, StartEffect
  <2>2. \A a \in Agents : proc'[a].at \in {"up", "reload", "save"} => proc'[a] = proc[a]
    BY <2>1 DEF OtherAgents
  <2> QED BY <1>4, <2>1, <2>2
<1> QED BY <1>1, <1>2, <1>3, <1>5, <1>6, <1>7 DEF Call

LEMMA CredStep ==
  ASSUME TypedInv, CredInv, [LocalNext]_localVars
  PROVE  CredInv'
<1>0. LocalTypeOK /\ Claims
  BY DEF TypedInv
<1>1. CASE UNCHANGED localVars
  BY <1>1 DEF localVars, roomVars, memory, CredInv, Reached, Holding, Up
<1>2. ASSUME NEW o \in Owners, owner_step(o)
      PROVE  CredInv'
  <2>1. /\ \A x \in Threads : launch'[x] = launch[x] \/ launch'[x].at \in {"idle", "room", "look"}
        /\ handed' = (handed /\ worker_pw' = worker_pw)
        /\ UNCHANGED <<config, proc, lost>>
    BY <1>0, <1>2, OwnerEffect
  <2>2. \A x \in Threads : Holding(x)' => Holding(x) /\ launch'[x].pw = launch[x].pw
    BY <2>1 DEF Holding
  <2> QED BY <2>1, <2>2 DEF CredInv, Reached, Up
<1>3. ASSUME NEW a \in Agents, AgentStep(a)
      PROVE  CredInv'
  <2>1. /\ (~lost' => ~lost) /\ \A pw : ~lost' /\ Reached(pw) => Reached(pw)'
        /\ UNCHANGED <<launch, handed>> /\ UNCHANGED roomVars
    BY <1>0, <1>3, AgentEffect
  <2>2. worker_pw' = worker_pw
    BY <2>1 DEF roomVars, memory
  <2>3. ASSUME ~lost', handed'
        PROVE  Reached(worker_pw)'
    <3>1. PICK p : p = worker_pw
      OBVIOUS
    <3>2. Reached(p)
      BY <2>1, <2>3, <3>1 DEF CredInv
    <3>3. Reached(p)'
      BY <2>1, <2>3, <3>2
    <3> QED BY <2>2, <3>1, <3>3 DEF Reached
  <2>4. ASSUME ~lost', NEW x \in Threads, Holding(x)'
        PROVE  Reached(launch[x].pw)'
    <3>1. PICK p : p = launch[x].pw
      OBVIOUS
    <3>2. Reached(p) /\ launch'[x].pw = p
      BY <2>1, <2>4, <3>1 DEF CredInv, Holding
    <3>3. Reached(p)'
      BY <2>1, <2>4, <3>2
    <3> QED BY <3>2, <3>3 DEF Reached
  <2> QED BY <2>3, <2>4, CredKept
<1>4. CASE host_restarts
  <2>1. /\ launch' = [o \in Threads |-> IdleLaunch] /\ lost' = lost
        /\ handed' => handed /\ config' = config /\ worker_pw' = worker_pw
        /\ config' = config =>
              \A a \in Agents : proc'[a].at \in {"up", "reload", "save"} => proc'[a] = proc[a]
    BY <1>0, <1>4, HostRestartEffect
  <2>2. \A o \in Threads : ~Holding(o)'
    BY <2>1, Basics DEF Holding
  <2>3. ASSUME ~lost', handed'
        PROVE  Reached(worker_pw)'
    <3>1. PICK p : p = worker_pw
      OBVIOUS
    <3>2. Reached(p)
      BY <2>1, <2>3, <3>1 DEF CredInv
    <3>3. Reached(p)'
      BY <2>1, <2>3, <3>2, StillReached
    <3> QED BY <2>1, <2>3, <3>1, <3>3 DEF Reached
  <2> QED BY <2>2, <2>3, CredKept
<1> QED BY <1>1, <1>2, <1>3, <1>4, CallCred, LocalSteps

-----------------------------------------------------------------------------
(* Two agents.                                                             *)

LEMMA SecondKept ==
  ASSUME ~blind' => /\ \A a, b \in There' : a = b
                    /\ \A o \in Threads : Alone(o)' => There' = {}
                    /\ \A o, x \in Threads : Alone(o)' /\ Alone(x)' => o = x
  PROVE  SecondInv'
  BY DEF SecondInv

(* A step that adds no agent and decides on no start. *)
LEMMA FewerKept ==
  ASSUME SecondInv, ~blind' => ~blind,
         \A a \in Agents : proc'[a].at # "none" => proc[a].at # "none",
         \A o \in Threads : Alone(o)' => Alone(o)
  PROVE  SecondInv'
<1>1. There' \subseteq There
  BY DEF There
<1> QED BY <1>1, SecondKept DEF SecondInv

LEMMA CallSecond ==
  ASSUME TypedInv, SecondInv, NEW o \in Threads, Call(o)
  PROVE  SecondInv'
<1>0. LocalTypeOK /\ Claims
  BY DEF TypedInv
<1>1. ASSUME NEW pw \in Hashes, local_agent_start(o, pw)
      PROVE  SecondInv'
  <2>1. OtherCalls(o) /\ launch'[o].at = "look" /\ UNCHANGED <<proc, blind>>
    BY <1>0, <1>1, AskEffect
  <2>2. \A x \in Threads : Alone(x)' => Alone(x)
    BY <2>1 DEF Alone, OtherCalls
  <2> QED BY <2>1, <2>2, FewerKept
<1>2. CASE look(o)
  <2>1. /\ OtherCalls(o) /\ UNCHANGED <<proc, blind>>
        /\ launch'[o].at \in {"provision", "start"} => launch'[o].blind = Unseen(o)
    BY <1>0, <1>2, LookEffect
  <2>2. There' = There
    BY <2>1 DEF There
  <2>3. CASE Alone(o)'
    <3>1. ~Unseen(o)
      BY <2>1, <2>3 DEF Alone
    <3>2. There = {} /\ \A x \in Threads \ {o} : ~Alone(x)
      BY <3>1, ThereIs DEF Unseen, Alone
    <3>3. \A x \in Threads \ {o} : ~Alone(x)'
      BY <2>1, <3>2 DEF Alone, OtherCalls
    <3> QED BY <2>2, <3>2, <3>3, SecondKept
  <2>4. CASE ~Alone(o)'
    <3>1. \A x \in Threads : Alone(x)' => Alone(x)
      BY <2>1, <2>4 DEF Alone, OtherCalls
    <3> QED BY <2>1, <3>1, FewerKept
  <2> QED BY <2>3, <2>4
<1>3. CASE _write_local_agent_config(o)
  <2>1. /\ launch[o].at \in {"deliver", "provision"}
        /\ launch'[o].at \in {"idle", "start", "answer", "stop"}
        /\ launch'[o].at = "start" => launch[o].at = "provision"
        /\ \A x \in Threads :
              /\ launch'[x].blind = launch[x].blind \/ launch'[x].at = "idle"
              /\ x # o => launch'[x].at = launch[x].at
        /\ \A a \in Agents : proc'[a].at = proc[a].at
        /\ UNCHANGED blind
    BY <1>0, <1>3, WriteEffect
  <2>2. \A x \in Threads : Alone(x)' => Alone(x)
    BY <2>1 DEF Alone
  <2> QED BY <2>1, <2>2, FewerKept
<1>4. CASE answer(o)
  <2>1. Answered(o) /\ UNCHANGED <<proc, blind>>
    BY <1>4 DEF answer
  <2>2. launch'[o] = IdleLaunch /\ OtherCalls(o)
    BY <1>0, <2>1, AnsweredEffect
  <2>3. \A x \in Threads : Alone(x)' => Alone(x)
    BY <2>2, Basics DEF Alone, OtherCalls
  <2> QED BY <2>1, <2>3, FewerKept
<1>5. CASE _stop_packaged_local_agent(o)
  <2>1. /\ OtherCalls(o) /\ blind' = blind
        /\ \A a \in Agents : proc'[a] = proc[a] \/ proc'[a] = NoProcess
        /\ \/ launch'[o] = IdleLaunch
           \/ \E a \in There : proc'[a] = NoProcess
    BY <1>0, <1>5, StopEffect
  <2>2. \A a \in Agents : proc'[a].at # "none" => proc[a].at # "none"
    BY <2>1, Basics
  <2>3. CASE launch'[o] = IdleLaunch
    <3>1. \A x \in Threads : Alone(x)' => Alone(x)
      BY <2>1, <2>3, Basics DEF Alone, OtherCalls
    <3> QED BY <2>1, <2>2, <3>1, FewerKept
  <2>4. ASSUME NEW a \in There, proc'[a] = NoProcess, ~blind
        PROVE  There' = {} /\ \A x \in Threads \ {o} : ~Alone(x)'
    <3>1. \A b \in There : b = a
      BY <2>4 DEF SecondInv
    <3>2. There' = {}
      BY <2>2, <2>4, <3>1, Basics DEF There
    <3>3. \A x \in Threads \ {o} : ~Alone(x)
      BY <2>4 DEF SecondInv
    <3> QED BY <2>1, <3>2, <3>3 DEF Alone, OtherCalls
  <2>5. CASE \E a \in There : proc'[a] = NoProcess
    BY <2>1, <2>4, <2>5, SecondKept
  <2> QED BY <2>1, <2>3, <2>5
<1>6. CASE start(o)
  <2>1. /\ launch[o].at = "start" /\ OtherCalls(o) /\ launch'[o] = IdleLaunch
        /\ \/ UNCHANGED <<proc, blind>>
           \/ \E a \in Agents : /\ proc[a].at = "none" /\ proc'[a].at = "prompt"
                                /\ OtherAgents(a)
                                /\ blind' = (blind \/ launch[o].blind)
    BY <1>0, <1>6, StartEffect
  <2>2. \A x \in Threads : Alone(x)' => Alone(x) /\ x # o
    BY <2>1, Basics DEF Alone, OtherCalls
  <2>3. CASE UNCHANGED <<proc, blind>>
    BY <2>2, <2>3, FewerKept
  <2>4. ASSUME NEW a \in Agents, proc[a].at = "none", proc'[a].at = "prompt", OtherAgents(a),
               blind' = (blind \/ launch[o].blind)
        PROVE  SecondInv'
    <3>1. ASSUME ~blind'
          PROVE  There' = {a} /\ \A x \in Threads : ~Alone(x)'
      <4>1. ~blind /\ Alone(o)
        BY <2>1, <2>4, <3>1 DEF Alone
      <4>2. There = {} /\ \A x \in Threads : Alone(x) => x = o
        BY <4>1 DEF SecondInv
      <4>3. There' = {a}
        BY <2>4, <4>2 DEF There, OtherAgents
      <4> QED BY <2>2, <4>2, <4>3
    <3> QED BY <3>1, SecondKept
  <2> QED BY <2>1, <2>3, <2>4
<1> QED BY <1>1, <1>2, <1>3, <1>4, <1>5, <1>6 DEF Call

LEMMA SecondStep ==
  ASSUME TypedInv, SecondInv, [LocalNext]_localVars
  PROVE  SecondInv'
<1>0. LocalTypeOK /\ Claims
  BY DEF TypedInv
<1>1. CASE UNCHANGED localVars
  BY <1>1 DEF localVars, SecondInv, There, Alone
<1>2. ASSUME NEW o \in Owners, owner_step(o)
      PROVE  SecondInv'
  <2>1. /\ \A x \in Threads : launch'[x] = launch[x] \/ launch'[x].at \in {"idle", "room", "look"}
        /\ UNCHANGED <<proc, blind>>
    BY <1>0, <1>2, OwnerEffect
  <2>2. \A x \in Threads : Alone(x)' => Alone(x)
    BY <2>1 DEF Alone
  <2> QED BY <2>1, <2>2, FewerKept
<1>3. ASSUME NEW a \in Agents, AgentStep(a)
      PROVE  SecondInv'
  <2>1. /\ \A b \in Agents : proc'[b].at # "none" => proc[b].at # "none"
        /\ UNCHANGED <<launch, blind>>
    BY <1>0, <1>3, AgentEffect
  <2> QED BY <2>1, FewerKept DEF Alone
<1>4. CASE host_restarts
  <2>1. /\ launch' = [o \in Threads |-> IdleLaunch]
        /\ \/ blind' = blind /\ \A a \in Agents : proc'[a].at = proc[a].at
           \/ \E a \in Agents : /\ proc'[a].at = "prompt"
                                /\ \A b \in Agents \ {a} : proc'[b].at = proc[b].at
                                /\ blind' = (blind \/ Running \cup Asked # {})
    BY <1>0, <1>4, HostRestartEffect
  <2>2. \A x \in Threads : ~Alone(x)'
    BY <2>1, Basics DEF Alone
  <2>3. CASE blind' = blind /\ \A a \in Agents : proc'[a].at = proc[a].at
    BY <2>2, <2>3, FewerKept
  <2>4. ASSUME NEW a \in Agents, proc'[a].at = "prompt",
               \A b \in Agents \ {a} : proc'[b].at = proc[b].at,
               blind' = (blind \/ Running \cup Asked # {}), ~blind'
        PROVE  There' = {a}
    <3>1. There = {}
      BY <2>4, ThereIs
    <3> QED BY <2>4, <3>1 DEF There
  <2> QED BY <2>1, <2>2, <2>3, <2>4, SecondKept
<1> QED BY <1>1, <1>2, <1>3, <1>4, CallSecond, LocalSteps

-----------------------------------------------------------------------------
(* The theorems.                                                           *)

LocalInv == TypedInv /\ CredInv /\ SecondInv

LEMMA LocalInvHolds == LocalSpec => []LocalInv
<1>1. LocalInit => LocalInv
  <2> SUFFICES ASSUME LocalInit PROVE LocalInv
    OBVIOUS
  <2>1. \A o \in Threads : launch[o] = IdleLaunch
    BY DEF LocalInit
  <2>2. \A a \in Agents : proc[a] = NoProcess
    BY DEF LocalInit
  <2>3. ~handed /\ \A o \in Threads : ~Holding(o) /\ ~Alone(o)
    BY <2>1, Basics DEF LocalInit, Holding, Alone
  <2>4. There = {}
    BY <2>2, Basics DEF There
  <2> QED BY <2>3, <2>4, LocalInitTyped DEF LocalInv, CredInv, SecondInv
<1>2. LocalInv /\ [LocalNext]_localVars => LocalInv'
  BY LocalTypeStep, CredStep, SecondStep DEF LocalInv
<1> QED BY <1>1, <1>2, PTL DEF LocalSpec

(* Once a request has handed the password in force over, every worker that *)
(* runs joins with it or has a write of the file to take up, for any       *)
(* number of requests, agents and rotations that overlap, unless an agent  *)
(* saved an older password over it (_launch_local_agent, server.py:443,    *)
(* ConfigReloadGate.cs:36).                                                *)
THEOREM CredentialsHold == LocalSpec => []CredentialsReach
<1>1. LocalInv => CredentialsReach
  BY DEF LocalInv, CredInv, Reached, CredentialsReach
<1> QED BY <1>1, LocalInvHolds, PTL

(* However many threads ask for the agent, two agents or prompts for them  *)
(* exist at once only after a start that was decided on without seeing     *)
(* the other (_local_agent_process_running, server.py:530).                *)
THEOREM SecondHolds == LocalSpec => []SecondOnlyUnseen
<1>1. LocalInv => SecondOnlyUnseen
  <2> SUFFICES ASSUME LocalInv, ~blind
               PROVE  ~(Cardinality(There) > 1)
    BY ThereIs DEF SecondOnlyUnseen
  <2>1. \A a, b \in There : a = b
    BY DEF LocalInv, SecondInv
  <2>2. CASE There = {}
    BY <2>2, FS_EmptySet
  <2>3. ASSUME NEW a \in There
        PROVE  ~(Cardinality(There) > 1)
    <3>1. There = {a}
      BY <2>1
    <3>2. Cardinality({a}) = 1
      BY FS_Singleton
    <3> QED BY <3>1, <3>2
  <2> QED BY <2>2, <2>3
<1> QED BY <1>1, LocalInvHolds, PTL
=============================================================================
