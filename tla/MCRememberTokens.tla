-------------------------- MODULE MCRememberTokens --------------------------
\* RememberTokens for TLC.
EXTENDS RememberTokens, TLC

CONSTANTS u1

\* Every browser is a device of u1, so browsers are interchangeable.
MCOwnerOf == [b \in Browsers |-> u1]

SlotSymmetry == Permutations(Requests) \cup Permutations(Browsers)

\* Each browser has at most one request in flight.
OneAtATime ==
    \A q, p \in Requests : q # p /\ flight'[q] # Idle /\ flight'[p] # Idle =>
        flight'[q].browser # flight'[p].browser
=============================================================================
