----------------------------- MODULE CacheLayer -----------------------------
(***************************************************************************)
(* CacheLayerService (src/modules/cache): the thin wrapper over Redis that *)
(* the identity and the PBAC services share.  A key is represented by the  *)
(* time at which Redis drops it; the stored value is kept by the module    *)
(* that owns the key when it can vary.                                     *)
(***************************************************************************)
EXTENDS Naturals

CONSTANT Never                  \* expiry of a key stored without a TTL

ASSUME NeverAssumption == Never \notin Nat

Absent == 0                     \* the clock starts at 1, so 0 is long past
Expiry == Nat \cup {Never}

\* set(): a falsy ttlSeconds takes the branch without setex, so a TTL of
\* zero stores the key for ever instead of not at all.
SetEx(time, ttl) == IF ttl = 0 THEN Never ELSE time + ttl

\* get(): the value is returned as long as Redis has not dropped the key.
Hit(expiry, time) == \/ expiry = Never
                     \/ expiry # Never /\ time < expiry
=============================================================================
