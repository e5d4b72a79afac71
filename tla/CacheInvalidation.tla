--------------------------- MODULE CacheInvalidation ---------------------------
(***************************************************************************)
(* What an invalidation of the observation cache is worth: OperationalCache *)
(* with the last change that came before the last invalidation of each     *)
(* view (ApplyIngress, DeleteIngress, a saved or removed environment, a    *)
(* topology asked for with fresh=true).                                    *)
(***************************************************************************)
EXTENDS OperationalCache

VARIABLE flushed

HInit == Init /\ flushed = [k \in Key |-> None]
HNext == \/ Work /\ UNCHANGED flushed
         \/ \E keys \in Resources :
              /\ Invalidate(keys)
              /\ flushed' = [k \in Key |-> IF k \in keys THEN live ELSE flushed[k]]
HSpec == HInit /\ [][HNext]_<<vars, flushed>>

\* "target invalidation did not force reload" (operational_cache_test.go): what
\* the cache keeps for a view was read after the view's last invalidation.
InvalidationForcesReload ==
    \A v \in View : entry[v] # None => entry[v] >= flushed[v]
===============================================================================
