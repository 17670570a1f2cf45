------------------------------ MODULE Failover ------------------------------
(***************************************************************************)
(* The endpoint rotation of the agent                                      *)
(* (agent/src/metrics/failover_client.cpp). Heartbeats and metric sends    *)
(* share one strike counter. m_failovers only counts and is left out.      *)
(***************************************************************************)
EXTENDS Naturals

CONSTANTS
    NumEndpoints,   \* m_endpoints.size(); never 0, the constructor adds one
    MaxStrikes      \* kMaxStrikes

ASSUME FailoverAssumption ==
    /\ NumEndpoints \in Nat \ {0}
    /\ MaxStrikes \in Nat \ {0}

VARIABLES
    current,        \* m_current
    strikes         \* m_strikes

failoverVars == <<current, strikes>>

Endpoint == 0 .. NumEndpoints - 1

FailoverTypeOK ==
    /\ current \in Endpoint
    /\ strikes \in 0 .. MaxStrikes - 1

FailoverInit ==
    /\ current = 0
    /\ strikes = 0

(* Mutant: the strikes are reset but the endpoint is never rotated.        *)
OnSendFailure_stuck ==
    /\ strikes' = IF strikes + 1 < MaxStrikes THEN strikes + 1 ELSE 0
    /\ UNCHANGED current

OnSendFailure ==
    IF strikes + 1 < MaxStrikes
      THEN /\ strikes' = strikes + 1
           /\ UNCHANGED current
      ELSE /\ strikes' = 0
           /\ current' = (current + 1) % NumEndpoints

OnSendSuccess ==
    /\ strikes' = 0
    /\ UNCHANGED current
=============================================================================
