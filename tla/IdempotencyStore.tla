-------------------------- MODULE IdempotencyStore --------------------------
(***************************************************************************)
(* One record of PostgresIdempotencyStore, of one scope and key.  A record *)
(* is its status together with the submitted flag of its result, the only  *)
(* field claim and the duplicate handler read.                             *)
(*                                                                         *)
(*   ABSENT            no row                                              *)
(*   PENDING           claimed, outcome not recorded; never expires        *)
(*   COMPLETED         submitted = true                                    *)
(*   FAILED_UNSENT     FAILED with submitted = false                       *)
(*   FAILED_SUBMITTED  FAILED with submitted = true (operator decision)    *)
(***************************************************************************)

KeyStates == {"ABSENT", "PENDING", "COMPLETED", "FAILED_UNSENT", "FAILED_SUBMITTED"}

\* Variant: a PENDING record is taken over, as if its claim had expired.
Claimable_Expiring(k) == k \in {"ABSENT", "FAILED_UNSENT", "PENDING"}

\* The WHERE guard of claim's upsert: a fresh insert, or a record that says
\* FAILED and not submitted.
Claimable(k) == k \in {"ABSENT", "FAILED_UNSENT"}

\* claim: test and reserve in one statement.
Claim(k) == IF Claimable(k) THEN "PENDING" ELSE k
=============================================================================
