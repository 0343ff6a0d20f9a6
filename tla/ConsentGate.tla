----------------------------- MODULE ConsentGate -----------------------------
(***************************************************************************)
(* The consent of one execution as the coordinator sees it: which states   *)
(* the consent and the session go through together.  A session runs only   *)
(* from an attested consent, which it spends, and neither a spent nor an   *)
(* invalidated consent ever becomes usable again.                          *)
(***************************************************************************)
VARIABLES
  consent,   \* the state of the consent
  status     \* the status of the session

vars == <<consent, status>>

Init == consent = "pending" /\ status = "awaiting_confirmation"

Reopen ==
  /\ consent = "expired" /\ status = "awaiting_confirmation"
  /\ consent' = "pending"
  /\ UNCHANGED status

Attest ==
  /\ consent = "pending" /\ status = "awaiting_confirmation"
  /\ consent' = "attested"
  /\ status' = "approved"

\* Expiry or invalidation takes the session back to the confirmation.
Lapse ==
  /\ status \in {"awaiting_confirmation", "approved"}
  /\ \/ consent \in {"pending", "attested"} /\ consent' = "expired"
     \/ consent \in {"pending", "attested", "expired"}
        /\ consent' = "invalidated"
  /\ status' = "awaiting_confirmation"

Consume ==
  /\ consent = "attested" /\ status = "approved"
  /\ consent' = "consumed"
  /\ status' = "running"

\* A cancel ends a session whose consent is no longer usable.
Cancel ==
  /\ consent \in {"consumed", "invalidated"}
  /\ status' = "cancelled"
  /\ UNCHANGED consent

Next == Reopen \/ Attest \/ Lapse \/ Consume \/ Cancel

Spec == Init /\ [][Next]_vars

=============================================================================
