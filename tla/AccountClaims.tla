--------------------------- MODULE AccountClaims ---------------------------
(***************************************************************************)
(* What comments and ASSUMPTIONS.md say of an account and the code does    *)
(* not do: they describe an earlier design, in which a dispute could be    *)
(* partial and repeated.  README.md describes the code as it is.           *)
(***************************************************************************)
EXTENDS Account

(* The outcome of msg if it were the next call.                            *)
After(msg) == Processed(account, msg)

OfType(type) == {msg \in InputMessage : msg.transaction_type = type}

(* "A Resolved transaction can be re-disputed" (ASSUMPTIONS.md:20, and the *)
(* comment at src/service/mod.rs:1037).                                    *)
ResolvedCanBeRedisputed ==
  \A msg \in OfType("Dispute") :
    ~ account.locked /\ msg.transaction_id \in account.resolves
      => ProcessResult(account, msg) = "Ok"

(* "Effective dispute amount = min(requested, available)" and "Effective   *)
(* resolve/chargeback amount = min(requested, disputedAmount)"             *)
(* (ASSUMPTIONS.md:24 and 27; the docs of process_dispute, process_resolve *)
(* and process_chargeback in account.rs say the same).                     *)
EffectiveAmountIsRequested ==
  \A msg \in OfType("Dispute") \cup OfType("Resolve") \cup OfType("Chargeback") :
    ProcessResult(account, msg) = "Ok" =>
      LET moved   == CASE msg.transaction_type = "Dispute"
                            -> After(msg).held - account.held
                       [] msg.transaction_type = "Resolve"
                            -> account.held - After(msg).held
                       [] msg.transaction_type = "Chargeback"
                            -> account.total - After(msg).total
          movable == IF msg.transaction_type = "Dispute"
                     THEN account.available ELSE StoredAmount(account, msg)
      IN  moved <= msg.amount /\ moved <= movable

=============================================================================
