-------------------------- MODULE MCPasswordReset --------------------------
\* PasswordReset for TLC.
EXTENDS PasswordReset, TLC

SlotSymmetry == Permutations(Calls) \cup Permutations(Ids) \cup Permutations(Subjects)

\* The application serialises issue per subject: it starts only while no other
\* call for that subject is between two statements.  The store does not.
IssueAlone ==
    \A c \in Calls : call[c] = Idle /\ call'[c].at = "insert" =>
        \A d \in Calls : call[d] = Idle \/ call[d].subject # call'[c].subject
=============================================================================
