------------------------------ MODULE MCIntegrations ------------------------------
EXTENDS Integrations

CONSTANTS k1, k2, r1, r2

\* The two share the text of their first chunk; the second has a line to cut and a rest
\* that is noise.
TwoTranscripts == r1 :> <<2, 0, 2, 4>> @@ r2 :> <<2, 2, 11>>
TwoInvitations == r1 :> <<k1, k2>> @@ r2 :> <<k2>>

Symmetric == Permutations(Users) \cup Permutations(Refreshers) \cup Permutations(Learners)

\* Accounts and transcripts share no state but the bounds, so a behaviour that works on both
\* is explored from each side alone.
OneSideAtATime ==
    \/ honoured = <<>>
    \/ sending = {} /\ \A r \in Recordings : inbox[r] = NoRow
===============================================================================
