------------------------- MODULE MCCommissionLedger -------------------------
(* Small instances of CommissionLedger for TLC. *)
EXTENDS CommissionLedger, TLC

CONSTANTS i1, u1, u2, closer, setter

OneRecipient == (u1 :> closer)
CloserAndSetter == (u1 :> closer @@ u2 :> setter)

\* Planned dates: the first installment is due at time 0.
DueAtOnce == [i \in Installments |-> 0]

CloserHold(h) == [role |-> closer, hold |-> h]
AnyHold(h) == [role |-> AnyRole, hold |-> h]

OneTerm == {CloserHold(0)}
HeldTerm == {CloserHold(1)}
RoleAndDefault == {CloserHold(0), AnyHold(1)}

Symmetric == Permutations(Workers)
=============================================================================
