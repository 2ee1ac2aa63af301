--------------------------- MODULE OutboxContract ---------------------------
(***************************************************************************)
(* What the outbox promises to the application that enqueued a message,    *)
(* free of claims, workers and the reaper: a queued message is settled     *)
(* once, a message reported as sent has reached WhatsApp, and WhatsApp     *)
(* gets a second copy only of a message left in doubt, one whose sender    *)
(* vanished between issuing the request and recording its outcome.         *)
(***************************************************************************)
EXTENDS Naturals

CONSTANT Message

VARIABLES
  phase,   \* what the status API lets the application see
  copies,  \* how often WhatsApp got the message
  doubt    \* the message is in doubt

contract == <<phase, copies, doubt>>

ContractInit ==
  /\ phase \in [Message -> {"none", "queued"}]
  /\ copies = [m \in Message |-> 0]
  /\ doubt = [m \in Message |-> FALSE]

Submit(S) ==
  /\ \A m \in S : phase[m] = "none"
  /\ phase' = [m \in Message |-> IF m \in S THEN "queued" ELSE phase[m]]
  /\ UNCHANGED <<copies, doubt>>

\* WhatsApp may get a message late, even after it was settled as failed.
Deliver(m) ==
  /\ phase[m] # "none"
  /\ copies[m] = 0 \/ doubt[m]
  /\ copies' = [copies EXCEPT ![m] = @ + 1]
  /\ UNCHANGED <<phase, doubt>>

Settle(m, outcome) ==
  /\ phase[m] = "queued"
  /\ outcome = "sent" => copies[m] > 0
  /\ phase' = [phase EXCEPT ![m] = outcome]
  /\ UNCHANGED <<copies, doubt>>

LeaveInDoubt(S) ==
  /\ \A m \in S : phase[m] = "queued"
  /\ doubt' = [m \in Message |-> doubt[m] \/ m \in S]
  /\ UNCHANGED <<phase, copies>>

ContractNext ==
  \/ \E S \in SUBSET Message : Submit(S) \/ LeaveInDoubt(S)
  \/ \E m \in Message : Deliver(m) \/ Settle(m, "sent") \/ Settle(m, "failed")

ContractSpec == ContractInit /\ [][ContractNext]_contract
=============================================================================
