----------------------------- MODULE FireProtocol -----------------------------
(***************************************************************************)
(* What the fire -> order boundary promises, without its journal, ledger,   *)
(* processes and crashes (the module docstring of                           *)
(* src/execution/trigger_order_bridge.py): of all the fires of a decision   *)
(* at most one comes to own the order id, only the owner may send the       *)
(* order, it does so at most once, and the verdict on a fire is given once. *)
(* A fire that owns no order id is only ever ABORTED, one that owns it      *)
(* never is.                                                                *)
(***************************************************************************)
CONSTANTS Key, DecisionOf

VARIABLES
    owners,     \* the fires that own the order id of their decision
    sent,       \* the fires whose order was handed to the broker
    verdict     \* Key -> "OPEN" or the final state of the fire

protocolVars == <<owners, sent, verdict>>

ProtocolInit ==
    /\ owners = {}
    /\ sent = {}
    /\ verdict = [k \in Key |-> "OPEN"]

Claim(k) ==
    /\ verdict[k] = "OPEN"
    /\ \A j \in owners : DecisionOf[j] # DecisionOf[k]
    /\ owners' = owners \cup {k}
    /\ UNCHANGED <<sent, verdict>>

(* A recovery may have given up on the fire (UNCERTAIN) in the meantime.     *)
Send(k) ==
    /\ k \in owners \ sent
    /\ sent' = sent \cup {k}
    /\ UNCHANGED <<owners, verdict>>

Conclude(k, v) ==
    /\ verdict[k] = "OPEN"
    /\ IF k \in owners THEN v \in {"COMMITTED", "UNCERTAIN"} ELSE v = "ABORTED"
    /\ verdict' = [verdict EXCEPT ![k] = v]
    /\ UNCHANGED <<owners, sent>>

ProtocolNext ==
    \E k \in Key :
        \/ Claim(k) \/ Send(k)
        \/ \E v \in {"COMMITTED", "UNCERTAIN", "ABORTED"} : Conclude(k, v)

ProtocolSpec == ProtocolInit /\ [][ProtocolNext]_protocolVars
=============================================================================
