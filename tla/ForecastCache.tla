--------------------------- MODULE ForecastCache ---------------------------
(***************************************************************************)
(* The table of node forecasts, src/server/forecast_cache.py.              *)
(*                                                                         *)
(* Each method of class ForecastCache holds the cache's lock throughout,   *)
(* so each is one action on the variable cache.  Of an entry's many fields *)
(* three decide who gets a job: the node's state, its inflight counter,    *)
(* and whether it proved to run the room's model.  Temperatures, power     *)
(* and penalties only order the candidates and are left out.               *)
(***************************************************************************)
EXTENDS Naturals

CONSTANTS NoEntry   \* the table has no row for the node

VARIABLE cache  \* _nodes: node -> its row

States == {"JOINING", "WARMING_UP", "READY", "AT_RISK", "STALE", "INACTIVE"}

(* model is 0 while model_ready is False, otherwise the model_generation   *)
(* the node reported when it became True (counted from 1).                 *)
Row(state, inflight, model) ==
    [state |-> state, inflight |-> inflight, model |-> model]

Rows == [state : States, inflight : Nat, model : 0 .. 1]

ASSUME CacheAssumption == NoEntry \notin Rows

Known(n) == cache[n] # NoEntry

(* put() keeps the live counter and takes all else from the forecast. *)
put(n, row) ==
    cache' = [cache EXCEPT
      ![n] = IF Known(n) THEN [row EXCEPT !.inflight = cache[n].inflight]
                         ELSE row]

mark_inactive(n) == cache' = [cache EXCEPT ![n] = Row("INACTIVE", 0, 0)]

mark_joining(n) == cache' = [cache EXCEPT ![n] = Row("JOINING", 0, 0)]

mark_warming_up(n, model) ==
    cache' = [cache EXCEPT
      ![n] = Row("WARMING_UP", IF Known(n) THEN @.inflight ELSE 0, model)]

reset_model_readiness ==
    cache' = [n \in DOMAIN cache |->
                IF Known(n) THEN [cache[n] EXCEPT !.model = 0] ELSE NoEntry]

(* adjust_inflight(n, 1) and adjust_inflight(n, -1); the counter stops at  *)
(* zero and a node without a row is ignored.                               *)
IncInflight(n) ==
    cache' = IF Known(n) THEN [cache EXCEPT ![n].inflight = @ + 1] ELSE cache

DecInflight(n) ==
    cache' = IF Known(n) /\ cache[n].inflight > 0
               THEN [cache EXCEPT ![n].inflight = @ - 1] ELSE cache

(* The next state of a node: base is what its samples allow, level places  *)
(* the predicted temperature above the threshold ("hot"), below the        *)
(* threshold less the hysteresis ("cool") or in between ("band"), and      *)
(* dwelt says that MIN_DWELL_S passed since the last change of state.      *)
apply_hysteresis(prev, base, level, dwelt) ==
    IF base # "READY" THEN base
    ELSE IF prev = "AT_RISK"
      THEN IF level = "cool" /\ dwelt THEN "READY" ELSE "AT_RISK"
      ELSE IF level = "hot" /\ (prev # "READY" \/ dwelt) THEN "AT_RISK" ELSE "READY"
=============================================================================
