-------------------------------- MODULE Auth --------------------------------
(***************************************************************************)
(* The auth envelope of a request and its validation, src/auth/validate.ts.*)
(* A signature is the triple it was computed for: HMAC-SHA256 stands for   *)
(* the fact that two triples do not share one.  Checks are written as the  *)
(* code makes them, a sequence whose first failing member decides.         *)
(***************************************************************************)
EXTENDS Integers, Sequences

CONSTANT ClockSkew  \* CLOCK_SKEW_MS

ASSUME AuthAssumption == ClockSkew \in Nat

Check(holds, answer) == [holds |-> holds, answer |-> answer]

\* The answer of the first check that fails, or the one for none.
Outcome(checks, allHold) ==
  IF \A i \in DOMAIN checks : checks[i].holds
  THEN allHold
  ELSE checks[CHOOSE i \in DOMAIN checks :
                /\ ~checks[i].holds
                /\ \A j \in 1..(i - 1) : checks[j].holds].answer

\* AuthEnvelopeSchema: a token of 32 characters or more, a positive ttl.
WellFormed(auth) == auth.longEnough /\ auth.ttl > 0

\* computeSignature over task_id|issued_at|ttl.
Signature(id, auth) == <<id, auth.issued, auth.ttl>>

\* validateAuth: freshness is checked in every deployment, the signature
\* only where it is not switched off.
ValidateAuth(auth, id, now, skip, secret) ==
  Outcome(<<Check(WellFormed(auth), "invalid_format"),
            Check(now <= auth.issued + auth.ttl, "expired"),
            Check(auth.issued <= now + ClockSkew, "issued_in_future"),
            Check(skip \/ secret, "missing_auth_secret"),
            Check(skip \/ auth.signature = Signature(id, auth),
                  "invalid_signature")>>, "valid")

=============================================================================
