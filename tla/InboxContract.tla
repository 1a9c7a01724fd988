---------------------------- MODULE InboxContract ----------------------------
(* What the webhook inbox promises of each accepted delivery, whatever the
   receivers, the queue, the runs and the crashes do: its effect comes after it
   was accepted, it is marked done only once its effect is there, and nothing
   forgets an accepted delivery or undoes an effect.                           *)

CONSTANT Deliveries

VARIABLES
    state,      \* none, pending, rejected (an error is recorded) or done
    applied     \* deliveries whose effect is committed

Init ==
    /\ state = [d \in Deliveries |-> "none"]
    /\ applied = {}

Accept(d) ==
    /\ state[d] = "none"
    /\ state' = [state EXCEPT ![d] = "pending"]
    /\ UNCHANGED applied

Apply(d) ==
    /\ state[d] # "none"
    /\ applied' = applied \cup {d}
    /\ UNCHANGED state

Finish(d) ==
    /\ state[d] = "pending"
    /\ d \in applied
    /\ state' = [state EXCEPT ![d] = "done"]
    /\ UNCHANGED applied

Reject(d) ==
    /\ state[d] # "none"
    /\ state' = [state EXCEPT ![d] = "rejected"]
    /\ UNCHANGED applied

\* Replayed by an administrator.
Reopen(d) ==
    /\ state[d] # "none"
    /\ state' = [state EXCEPT ![d] = "pending"]
    /\ UNCHANGED applied

Next == \E d \in Deliveries : Accept(d) \/ Apply(d) \/ Finish(d) \/ Reject(d) \/ Reopen(d)

Spec == Init /\ [][Next]_<<state, applied>>
==============================================================================
