--------------------------- MODULE PasswordReset ---------------------------
(***************************************************************************)
(* The password-reset store of src/auth/flows/reset/store.rs.              *)
(*                                                                         *)
(* Every method is a handful of single statements, each sent to the pool on *)
(* its own: no transaction spans two of them.  A call is therefore a small  *)
(* process, and the other calls run between its statements.                *)
(*                                                                         *)
(* A link is an id and a secret.  Secrets are serial numbers, so no two     *)
(* links share one; an id may be drawn again once its row is gone.          *)
(***************************************************************************)
EXTENDS Integers, FiniteSets

CONSTANTS Subjects,
          Ids,
          Calls,          \* concurrent calls of the store's methods
          IssueAttempts,  \* ISSUE_ATTEMPTS
          MaxSecrets,     \* bound: how many secrets are drawn
          Faults          \* which of {"error", "expire", "revoke"} a run admits

ASSUME ResetConstants ==
    /\ IssueAttempts \in Nat \ {0}
    /\ MaxSecrets \in Nat
    /\ Faults \subseteq {"error", "expire", "revoke"}

VARIABLES table,     \* the rows of arcature_password_resets, a set of records
          expired,   \* secrets whose row's deadline has passed
          call,      \* where each call stands
          drawn,     \* how many secrets were drawn
          minted,    \* history: every link written to the table
          redeemed,  \* history: per secret, how often consume answered Some
          inserted,  \* history: rows inserted per subject
          answered   \* history: Some answers per subject

vars == <<table, expired, call, drawn, minted, redeemed, inserted, answered>>

Secret == 1..MaxSecrets

Row == [id : Ids, secret : Secret, subject : Subjects]

\* What a client may present: any id, with any secret drawn or never drawn.
Plaintext == [id : Ids, secret : 0..MaxSecrets]

Issuing == [at : {"insert"}, subject : Subjects, secret : Secret, draws : 0..IssueAttempts]
Spending == [at : {"spend"}, subject : Subjects, secret : Secret]
Idle == [at |-> "idle"]

RowsOf(s) == {r \in table : r.subject = s}

Init ==
    /\ table = {} /\ expired = {} /\ minted = {}
    /\ call = [c \in Calls |-> Idle]
    /\ drawn = 0
    /\ redeemed = [x \in Secret |-> 0]
    /\ inserted = [s \in Subjects |-> 0]
    /\ answered = [s \in Subjects |-> 0]
-----------------------------------------------------------------------------
\* issue, up to and including its DELETE_FOR.  A deadline that does not fit or
\* an entropy failure before it returns Err and changes nothing.
IssueClear(c, s) ==
    /\ call[c] = Idle
    /\ drawn < MaxSecrets
    /\ drawn' = drawn + 1
    /\ table' = table \ RowsOf(s)
    /\ call' = [call EXCEPT ![c] = [at |-> "insert", subject |-> s, secret |-> drawn', draws |-> 0]]
    /\ UNCHANGED <<expired, minted, redeemed, inserted, answered>>

\* One round of issue's loop whose INSERT_NEW writes the row.  The answer may
\* be lost on its way back: the caller then has an Err and no plaintext, but
\* the row is there all the same, and so is its entry in `minted'.
IssueInsert(c, id) ==
    /\ call[c].at = "insert"
    /\ call[c].draws < IssueAttempts
    /\ \A r \in table : r.id # id
    /\ LET new == [id |-> id, secret |-> call[c].secret, subject |-> call[c].subject] IN
       /\ table' = table \cup {new}
       /\ minted' = minted \cup {new}
       /\ inserted' = [inserted EXCEPT ![new.subject] = @ + 1]
    /\ call' = [call EXCEPT ![c] = Idle]
    /\ UNCHANGED <<expired, drawn, redeemed, answered>>

\* A round whose id is taken: ON CONFLICT DO NOTHING, and another draw.
IssueCollide(c, id) ==
    /\ call[c].at = "insert"
    /\ call[c].draws < IssueAttempts
    /\ \E r \in table : r.id = id
    /\ call' = [call EXCEPT ![c] = [at |-> "insert", subject |-> call[c].subject,
                                    secret |-> call[c].secret, draws |-> call[c].draws + 1]]
    /\ UNCHANGED <<table, expired, drawn, minted, redeemed, inserted, answered>>

\* Every draw was taken: Err(IdCollision), with the old links already gone.
IssueGiveUp(c) ==
    /\ call[c].at = "insert"
    /\ call[c].draws = IssueAttempts
    /\ call' = [call EXCEPT ![c] = Idle]
    /\ UNCHANGED <<table, expired, drawn, minted, redeemed, inserted, answered>>
-----------------------------------------------------------------------------
\* Mutant: the row is looked up by its public id alone.
LiveIgnoringSecret(p, r) == r.id = p.id /\ r.secret \notin expired

\* FIND_LIVE and the digest comparison after it: the row with the presented
\* id, not past its deadline, holding the digest of the presented secret.
Live(p, r) == r.id = p.id /\ r.secret \notin expired /\ r.secret = p.secret

\* consume, up to its read.  Every other outcome of the read is Ok(None).
ConsumeRead(c, p) ==
    /\ call[c] = Idle
    /\ \E r \in table :
        /\ Live(p, r)
        /\ call' = [call EXCEPT ![c] = [at |-> "spend", subject |-> r.subject, secret |-> p.secret]]
    /\ UNCHANGED <<table, expired, drawn, minted, redeemed, inserted, answered>>

\* Mutant: the answer is Some whatever the delete affected.
SpendUnchecked(c) ==
    /\ call[c].at = "spend"
    /\ LET s == call[c].subject IN
       /\ table' = table \ RowsOf(s)
       /\ redeemed' = [redeemed EXCEPT ![call[c].secret] = @ + 1]
       /\ answered' = [answered EXCEPT ![s] = @ + 1]
    /\ call' = [call EXCEPT ![c] = Idle]
    /\ UNCHANGED <<expired, drawn, minted, inserted>>

\* The spend: DELETE_FOR the subject, and Some if it affected a row at all.
ConsumeSpend(c) ==
    /\ call[c].at = "spend"
    /\ LET s == call[c].subject IN
       /\ table' = table \ RowsOf(s)
       /\ IF RowsOf(s) = {}
          THEN UNCHANGED <<redeemed, answered>>
          ELSE /\ redeemed' = [redeemed EXCEPT ![call[c].secret] = @ + 1]
               /\ answered' = [answered EXCEPT ![s] = @ + 1]
    /\ call' = [call EXCEPT ![c] = Idle]
    /\ UNCHANGED <<expired, drawn, minted, inserted>>
-----------------------------------------------------------------------------
RevokeAllFor(s) ==
    /\ "revoke" \in Faults
    /\ table' = table \ RowsOf(s)
    /\ UNCHANGED <<expired, call, drawn, minted, redeemed, inserted, answered>>

SweepExpired ==
    /\ "expire" \in Faults
    /\ table' = {r \in table : r.secret \notin expired}
    /\ UNCHANGED <<expired, call, drawn, minted, redeemed, inserted, answered>>

\* The server clock passes a row's deadline.
Expire(r) ==
    /\ "expire" \in Faults
    /\ r.secret \notin expired
    /\ expired' = expired \cup {r.secret}
    /\ UNCHANGED <<table, call, drawn, minted, redeemed, inserted, answered>>

\* A statement fails, the OS has no randomness, or the request is dropped: the
\* call ends where it stands and undoes nothing.  A spend may have taken effect
\* with its answer lost: the rows are gone and nobody was told Some.
Fail(c) ==
    /\ "error" \in Faults
    /\ call[c] # Idle
    /\ \/ UNCHANGED table
       \/ call[c].at = "spend" /\ table' = table \ RowsOf(call[c].subject)
    /\ call' = [call EXCEPT ![c] = Idle]
    /\ UNCHANGED <<expired, drawn, minted, redeemed, inserted, answered>>

Next ==
    \/ \E c \in Calls, s \in Subjects : IssueClear(c, s)
    \/ \E c \in Calls, id \in Ids : IssueInsert(c, id) \/ IssueCollide(c, id)
    \/ \E c \in Calls : IssueGiveUp(c) \/ ConsumeSpend(c) \/ Fail(c)
    \/ \E c \in Calls, p \in Plaintext : ConsumeRead(c, p)
    \/ \E s \in Subjects : RevokeAllFor(s)
    \/ SweepExpired
    \/ \E r \in table : Expire(r)

Spec == Init /\ [][Next]_vars
-----------------------------------------------------------------------------
\* Type correctness; issue never goes past its ISSUE_ATTEMPTS draws.
TypeOK ==
    /\ table \subseteq Row /\ minted \subseteq Row
    /\ expired \subseteq Secret
    /\ call \in [Calls -> Issuing \cup Spending \cup {Idle}]
    /\ drawn \in 0..MaxSecrets
    /\ redeemed \in [Secret -> Nat]
    /\ inserted \in [Subjects -> Nat]
    /\ answered \in [Subjects -> Nat]

\* No subject is let through more resets than links were written for it, less
\* the ones still armed, however consume, issue, revoke_all_for and the sweep
\* interleave: each Some answer of consume removed at least one row nobody
\* else's Some had removed.
RedemptionsAccounted ==
    \A s \in Subjects : answered[s] + Cardinality(RowsOf(s)) <= inserted[s]

\* Whatever else runs, consume answers Some only for a link that was minted,
\* and never for one whose id was drawn again for another subject: the spend in
\* progress names the subject its secret was minted for.
SpendsOwnLink ==
    \A c \in Calls : call[c].at = "spend" =>
        \E r \in minted : r.secret = call[c].secret /\ r.subject = call[c].subject

\* consume's promise that the link is single-use: no plaintext is answered
\* Some twice.  It takes calls of issue that overlap no other call for the
\* subject, because the spend deletes by subject and not by link.
SingleUse == \A x \in Secret : redeemed[x] <= 1

\* issue's promise that asking again disarms the previous mail: a subject has
\* at most one row.  It takes calls of issue that do not overlap each other,
\* because the delete and the insert are two statements.
OneArmedLink == \A s \in Subjects : Cardinality(RowsOf(s)) <= 1
=============================================================================
