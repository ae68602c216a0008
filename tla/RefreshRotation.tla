--------------------------- MODULE RefreshRotation ---------------------------
(***************************************************************************)
(* What refresh-token rotation promises, with the handlers, Redis, the     *)
(* clock and the broker left out.  A session is opened once, revoked once  *)
(* and never reinstated.  A request claims a session while it is active,   *)
(* and only a claim on a session revoked meanwhile buys its successor: one *)
(* claim, one successor.  It does not promise that a session is claimed    *)
(* once: see RotatedOnce in Identity.                                      *)
(***************************************************************************)
CONSTANTS Jti, Request

VARIABLES
  status,       \* of each session: "none", "active" or "revoked"
  claims        \* pairs <<r, j>>: request r found session j active

vars == <<status, claims>>

Init == /\ status = [j \in Jti |-> "none"]
        /\ claims = {}

\* Registration and login open a session out of nothing.
Open(j) ==
  /\ status[j] = "none"
  /\ status' = [status EXCEPT ![j] = "active"]
  /\ UNCHANGED claims

Claim(r, j) ==
  /\ status[j] = "active"
  /\ claims' = claims \cup {<<r, j>>}
  /\ UNCHANGED status

Revoke(j) ==
  /\ status[j] = "active"
  /\ status' = [status EXCEPT ![j] = "revoked"]
  /\ UNCHANGED claims

\* A claim on the revoked session j is spent on its successor k.
Exchange(r, j, k) ==
  /\ <<r, j>> \in claims /\ status[j] = "revoked"
  /\ status[k] = "none"
  /\ status' = [status EXCEPT ![k] = "active"]
  /\ claims' = claims \ {<<r, j>>}

\* Requests that fail, or a process that restarts.
Drop(lost) ==
  /\ claims' = claims \ lost
  /\ UNCHANGED status

Next ==
  \/ \E j \in Jti : Open(j) \/ Revoke(j)
  \/ \E r \in Request, j \in Jti :
       \/ Claim(r, j)
       \/ \E k \in Jti : Exchange(r, j, k)
  \/ \E lost \in SUBSET claims : Drop(lost)

Spec == Init /\ [][Next]_vars
=============================================================================
