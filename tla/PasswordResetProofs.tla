------------------------ MODULE PasswordResetProofs ------------------------
(***************************************************************************)
(* Proofs about the password-reset store, for every number of subjects,    *)
(* ids, concurrent calls and secrets.                                      *)
(***************************************************************************)
EXTENDS PasswordReset, FiniteSetTheorems, TLAPS

\* The table is finite, and so is every subject's part of it.
FiniteTable == IsFiniteSet(table)

\* The state is well typed after every statement of every call.
THEOREM ResetTypeCorrect == Spec => []TypeOK
<1>1. Init => TypeOK
  BY ResetConstants DEF Init, TypeOK, Idle, Secret
<1>2. TypeOK /\ [Next]_vars => TypeOK'
  <2> SUFFICES ASSUME TypeOK, [Next]_vars PROVE TypeOK'
    OBVIOUS
  <2> USE ResetConstants DEF TypeOK
  <2>1. ASSUME NEW c \in Calls, NEW s \in Subjects, IssueClear(c, s) PROVE TypeOK'
    <3>1. drawn' \in Secret
      BY <2>1 DEF IssueClear, Secret
    <3>2. call'[c] \in Issuing
      BY <2>1, <3>1 DEF IssueClear, Issuing
    <3> QED
      BY <2>1, <3>1, <3>2 DEF IssueClear, Secret, RowsOf
  <2>2. ASSUME NEW c \in Calls, NEW id \in Ids, IssueInsert(c, id) PROVE TypeOK'
    <3>1. call[c] \in Issuing
      BY <2>2 DEF IssueInsert, Issuing, Spending, Idle
    <3>2. [id |-> id, secret |-> call[c].secret, subject |-> call[c].subject] \in Row
      BY <3>1 DEF Row, Issuing
    <3> QED
      BY <2>2, <3>1, <3>2 DEF IssueInsert, Row
  <2>3. ASSUME NEW c \in Calls, NEW id \in Ids, IssueCollide(c, id) PROVE TypeOK'
    <3>1. call[c] \in Issuing /\ call[c].draws < IssueAttempts
      BY <2>3 DEF IssueCollide, Issuing, Spending, Idle
    <3>2. [at |-> "insert", subject |-> call[c].subject, secret |-> call[c].secret,
           draws |-> call[c].draws + 1] \in Issuing
      BY <3>1 DEF Issuing
    <3> QED
      BY <2>3, <3>2 DEF IssueCollide
  <2>4. ASSUME NEW c \in Calls, IssueGiveUp(c) \/ Fail(c) PROVE TypeOK'
    BY <2>4 DEF IssueGiveUp, Fail
  <2>5. ASSUME NEW c \in Calls, ConsumeSpend(c) PROVE TypeOK'
    <3>1. call[c] \in Spending
      BY <2>5 DEF ConsumeSpend, Issuing, Spending, Idle
    <3> QED
      BY <2>5, <3>1 DEF ConsumeSpend, Spending
  <2>6. ASSUME NEW c \in Calls, NEW p \in Plaintext, ConsumeRead(c, p) PROVE TypeOK'
    <3>1. PICK r \in table : /\ Live(p, r)
                             /\ call' = [call EXCEPT ![c] =
                                  [at |-> "spend", subject |-> r.subject, secret |-> p.secret]]
      BY <2>6 DEF ConsumeRead
    <3>2. [at |-> "spend", subject |-> r.subject, secret |-> p.secret] \in Spending
      BY <3>1 DEF Live, Row, Spending
    <3> QED
      BY <2>6, <3>1, <3>2 DEF ConsumeRead
  <2>7. ASSUME NEW s \in Subjects, RevokeAllFor(s) PROVE TypeOK'
    BY <2>7 DEF RevokeAllFor
  <2>8. CASE SweepExpired
    BY <2>8 DEF SweepExpired
  <2>9. ASSUME NEW r \in table, Expire(r) PROVE TypeOK'
    BY <2>9 DEF Expire, Row
  <2>10. CASE UNCHANGED vars
    BY <2>10 DEF vars
  <2> QED
    BY <2>1, <2>2, <2>3, <2>4, <2>5, <2>6, <2>7, <2>8, <2>9, <2>10 DEF Next
<1> QED
  BY <1>1, <1>2, PTL DEF Spec

\* A statement that only deletes rows and answers nobody keeps the account.
LEMMA DeletingKeepsAccount ==
    ASSUME FiniteTable, TypeOK, RedemptionsAccounted,
           table' \subseteq table, UNCHANGED <<inserted, answered>>
    PROVE  FiniteTable' /\ RedemptionsAccounted'
<1>1. FiniteTable'
  BY FS_Subset DEF FiniteTable
<1>2. ASSUME NEW s \in Subjects
      PROVE  answered'[s] + Cardinality(RowsOf(s)') <= inserted'[s]
  <2>1. RowsOf(s)' \subseteq RowsOf(s) /\ IsFiniteSet(RowsOf(s))
    BY FS_Subset DEF RowsOf, FiniteTable
  <2>2. /\ Cardinality(RowsOf(s)') <= Cardinality(RowsOf(s))
        /\ Cardinality(RowsOf(s)') \in Nat /\ Cardinality(RowsOf(s)) \in Nat
    BY <2>1, FS_Subset, FS_CardinalityType
  <2> QED
    BY <2>2 DEF RedemptionsAccounted, TypeOK
<1> QED
  BY <1>1, <1>2 DEF RedemptionsAccounted

\* The row issue writes is the one the account is credited with.
LEMMA InsertKeepsAccount ==
    ASSUME FiniteTable, TypeOK, RedemptionsAccounted,
           NEW c \in Calls, NEW id \in Ids, IssueInsert(c, id)
    PROVE  FiniteTable' /\ RedemptionsAccounted'
<1> DEFINE new == [id |-> id, secret |-> call[c].secret, subject |-> call[c].subject]
<1>1. /\ table' = table \cup {new} /\ answered' = answered
      /\ inserted' = [inserted EXCEPT ![new.subject] = @ + 1]
  BY DEF IssueInsert
<1>2. call[c] \in Issuing
  BY DEF IssueInsert, TypeOK, Issuing, Spending, Idle
<1>3. new.subject \in Subjects
  BY <1>2 DEF Issuing
<1>4. FiniteTable'
  BY <1>1, FS_AddElement DEF FiniteTable
<1> HIDE DEF new
<1>5. ASSUME NEW s \in Subjects
      PROVE  answered'[s] + Cardinality(RowsOf(s)') <= inserted'[s]
  <2>1. IsFiniteSet(RowsOf(s)) /\ Cardinality(RowsOf(s)) \in Nat
    BY FS_Subset, FS_CardinalityType DEF RowsOf, FiniteTable
  <2>2. CASE s = new.subject
    <3>1. RowsOf(s)' = RowsOf(s) \cup {new}
      BY <1>1, <2>2 DEF RowsOf
    <3>2. /\ Cardinality(RowsOf(s)') <= Cardinality(RowsOf(s)) + 1
          /\ Cardinality(RowsOf(s)') \in Nat
      <4>1. /\ IsFiniteSet(RowsOf(s) \cup {new})
            /\ \/ Cardinality(RowsOf(s) \cup {new}) = Cardinality(RowsOf(s))
               \/ Cardinality(RowsOf(s) \cup {new}) = Cardinality(RowsOf(s)) + 1
        BY <2>1, FS_AddElement
      <4>2. Cardinality(RowsOf(s)') = Cardinality(RowsOf(s) \cup {new})
        BY <3>1
      <4> QED
        BY <2>1, <4>1, <4>2
    <3>3. inserted'[s] = inserted[s] + 1
      BY <1>1, <2>2 DEF TypeOK
    <3> QED
      BY <1>1, <2>1, <3>2, <3>3 DEF RedemptionsAccounted, TypeOK
  <2>3. CASE s # new.subject
    <3>1. RowsOf(s)' = RowsOf(s) /\ inserted'[s] = inserted[s]
      BY <1>1, <2>3 DEF RowsOf, TypeOK
    <3> QED
      BY <1>1, <3>1 DEF RedemptionsAccounted
  <2> QED
    BY <2>2, <2>3
<1> QED
  BY <1>4, <1>5 DEF RedemptionsAccounted

\* A spend that answers Some took at least one row off the account.
LEMMA SpendKeepsAccount ==
    ASSUME FiniteTable, TypeOK, RedemptionsAccounted,
           NEW c \in Calls, ConsumeSpend(c)
    PROVE  FiniteTable' /\ RedemptionsAccounted'
<1> DEFINE t == call[c].subject
<1>1. call[c] \in Spending
  BY DEF ConsumeSpend, TypeOK, Issuing, Spending, Idle
<1>2. t \in Subjects
  BY <1>1 DEF Spending
<1>3. table' = table \ RowsOf(t) /\ inserted' = inserted
  BY DEF ConsumeSpend
<1>4. CASE RowsOf(t) = {}
  <2>1. answered' = answered
    BY <1>4 DEF ConsumeSpend
  <2> QED
    BY <1>3, <2>1, DeletingKeepsAccount
<1>5. CASE RowsOf(t) # {}
  <2>1. answered' = [answered EXCEPT ![t] = @ + 1]
    BY <1>5 DEF ConsumeSpend
  <2>2. FiniteTable'
    BY <1>3, FS_Subset DEF FiniteTable
  <2> HIDE DEF t
  <2>3. ASSUME NEW s \in Subjects
        PROVE  answered'[s] + Cardinality(RowsOf(s)') <= inserted'[s]
    <3>1. IsFiniteSet(RowsOf(s)) /\ Cardinality(RowsOf(s)) \in Nat
      BY FS_Subset, FS_CardinalityType DEF RowsOf, FiniteTable
    <3>2. CASE s = t
      <4>1. RowsOf(s)' = {} /\ Cardinality({}) = 0
        BY <1>3, <3>2, FS_EmptySet DEF RowsOf
      <4>2. Cardinality(RowsOf(s)) # 0
        BY <1>5, <3>1, <3>2, FS_EmptySet
      <4>3. answered'[s] = answered[s] + 1
        BY <2>1, <3>2 DEF TypeOK
      <4> QED
        BY <1>3, <3>1, <4>1, <4>2, <4>3 DEF RedemptionsAccounted, TypeOK
    <3>3. CASE s # t
      <4>1. RowsOf(s)' = RowsOf(s)
        BY <1>3, <3>3 DEF RowsOf
      <4>2. answered'[s] = answered[s]
        BY <2>1, <3>3 DEF TypeOK
      <4> QED
        BY <1>3, <4>1, <4>2 DEF RedemptionsAccounted
    <3> QED
      BY <3>2, <3>3
  <2> QED
    BY <2>2, <2>3 DEF RedemptionsAccounted
<1> QED
  BY <1>4, <1>5

\* However the calls interleave, consume answers Some for a subject no more
\* often than issue wrote rows for it, less the rows still armed.
THEOREM RedemptionsAccountedCorrect == Spec => []RedemptionsAccounted
<1>1. Init => FiniteTable /\ RedemptionsAccounted
  <2> SUFFICES ASSUME Init PROVE FiniteTable /\ RedemptionsAccounted
    OBVIOUS
  <2>1. table = {} /\ \A s \in Subjects : RowsOf(s) = {}
    BY DEF Init, RowsOf
  <2>2. IsFiniteSet({}) /\ Cardinality({}) = 0
    BY FS_EmptySet
  <2> QED
    BY <2>1, <2>2 DEF Init, FiniteTable, RedemptionsAccounted
<1>2. TypeOK /\ FiniteTable /\ RedemptionsAccounted /\ [Next]_vars
        => FiniteTable' /\ RedemptionsAccounted'
  <2> SUFFICES ASSUME TypeOK, FiniteTable, RedemptionsAccounted, [Next]_vars
               PROVE  FiniteTable' /\ RedemptionsAccounted'
    OBVIOUS
  <2>1. ASSUME NEW c \in Calls, NEW s \in Subjects, IssueClear(c, s)
        PROVE  FiniteTable' /\ RedemptionsAccounted'
    BY <2>1, DeletingKeepsAccount DEF IssueClear
  <2>2. ASSUME NEW c \in Calls, NEW id \in Ids, IssueInsert(c, id)
        PROVE  FiniteTable' /\ RedemptionsAccounted'
    BY <2>2, InsertKeepsAccount
  <2>3. ASSUME NEW c \in Calls, ConsumeSpend(c)
        PROVE  FiniteTable' /\ RedemptionsAccounted'
    BY <2>3, SpendKeepsAccount
  <2>4. ASSUME NEW c \in Calls, NEW id \in Ids, IssueCollide(c, id)
        PROVE  FiniteTable' /\ RedemptionsAccounted'
    BY <2>4, DeletingKeepsAccount DEF IssueCollide
  <2>5. ASSUME NEW c \in Calls, IssueGiveUp(c) \/ Fail(c)
        PROVE  FiniteTable' /\ RedemptionsAccounted'
    BY <2>5, DeletingKeepsAccount DEF IssueGiveUp, Fail
  <2>6. ASSUME NEW c \in Calls, NEW p \in Plaintext, ConsumeRead(c, p)
        PROVE  FiniteTable' /\ RedemptionsAccounted'
    BY <2>6, DeletingKeepsAccount DEF ConsumeRead
  <2>7. ASSUME NEW s \in Subjects, RevokeAllFor(s)
        PROVE  FiniteTable' /\ RedemptionsAccounted'
    BY <2>7, DeletingKeepsAccount DEF RevokeAllFor
  <2>8. CASE SweepExpired
    BY <2>8, DeletingKeepsAccount DEF SweepExpired
  <2>9. ASSUME NEW r \in table, Expire(r)
        PROVE  FiniteTable' /\ RedemptionsAccounted'
    BY <2>9, DeletingKeepsAccount DEF Expire
  <2>10. CASE UNCHANGED vars
    BY <2>10, DeletingKeepsAccount DEF vars
  <2> QED
    BY <2>1, <2>2, <2>3, <2>4, <2>5, <2>6, <2>7, <2>8, <2>9, <2>10 DEF Next
<1> QED
  BY <1>1, <1>2, ResetTypeCorrect, PTL DEF Spec

\* Every row was minted, and a spend in progress read its subject off a minted
\* row holding the secret it presented.
MintedInv == table \subseteq minted /\ SpendsOwnLink

\* A spend in progress names the subject its link was minted for, whatever was
\* deleted, issued again or expired since the read.
THEOREM SpendsOwnLinkCorrect == Spec => []SpendsOwnLink
<1>1. Init => MintedInv
  BY DEF Init, MintedInv, SpendsOwnLink, Idle
<1>2. TypeOK /\ MintedInv /\ [Next]_vars => MintedInv'
  <2> SUFFICES ASSUME TypeOK, MintedInv, [Next]_vars PROVE MintedInv'
    OBVIOUS
  <2> USE DEF MintedInv, SpendsOwnLink, TypeOK
  <2>1. ASSUME NEW c \in Calls, NEW s \in Subjects, IssueClear(c, s) PROVE MintedInv'
    BY <2>1 DEF IssueClear
  <2>2. ASSUME NEW c \in Calls, NEW id \in Ids, IssueInsert(c, id) PROVE MintedInv'
    BY <2>2 DEF IssueInsert, Idle
  <2>3. ASSUME NEW c \in Calls, ConsumeSpend(c) PROVE MintedInv'
    BY <2>3 DEF ConsumeSpend, Idle
  <2>4. ASSUME NEW c \in Calls, NEW id \in Ids, IssueCollide(c, id) PROVE MintedInv'
    <3>1. call[c] \in Issuing
      BY <2>4 DEF IssueCollide, Issuing, Spending, Idle
    <3>2. ASSUME NEW d \in Calls, call'[d].at = "spend" PROVE call'[d] = call[d]
      BY <2>4, <3>1, <3>2 DEF IssueCollide, Issuing
    <3> QED
      BY <2>4, <3>2 DEF IssueCollide
  <2>5. ASSUME NEW c \in Calls, IssueGiveUp(c) \/ Fail(c) PROVE MintedInv'
    BY <2>5 DEF IssueGiveUp, Fail, Idle
  <2>6. ASSUME NEW c \in Calls, NEW p \in Plaintext, ConsumeRead(c, p) PROVE MintedInv'
    <3>1. PICK r \in table : /\ Live(p, r)
                             /\ call' = [call EXCEPT ![c] =
                                  [at |-> "spend", subject |-> r.subject, secret |-> p.secret]]
      BY <2>6 DEF ConsumeRead
    <3> QED
      BY <2>6, <3>1 DEF ConsumeRead, Live
  <2>7. ASSUME NEW s \in Subjects, RevokeAllFor(s) PROVE MintedInv'
    BY <2>7 DEF RevokeAllFor
  <2>8. CASE SweepExpired
    BY <2>8 DEF SweepExpired
  <2>9. ASSUME NEW r \in table, Expire(r) PROVE MintedInv'
    BY <2>9 DEF Expire
  <2>10. CASE UNCHANGED vars
    BY <2>10 DEF vars
  <2> QED
    BY <2>1, <2>2, <2>3, <2>4, <2>5, <2>6, <2>7, <2>8, <2>9, <2>10 DEF Next
<1>3. MintedInv => SpendsOwnLink
  BY DEF MintedInv
<1> QED
  BY <1>1, <1>2, <1>3, ResetTypeCorrect, PTL DEF Spec
=============================================================================
