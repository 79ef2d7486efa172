------------------------------ MODULE ApiTokens ------------------------------
(***************************************************************************)
(* The table of personal API tokens (tokens/store.rs): issuing under a      *)
(* random id that may collide, authenticating, revoking, expiring.         *)
(*                                                                         *)
(* A plaintext is an id and a secret; the row keeps the secret's digest.    *)
(* Digests of different secrets differ, so a secret stands for its digest.  *)
(***************************************************************************)
EXTENDS Integers, FiniteSets

CONSTANTS TokenIds,        \* the values ID_BYTES random bytes take
          Owners,          \* tokenable ids
          Issuers,         \* calls of issue in flight at once
          IssueAttempts,   \* ISSUE_ATTEMPTS
          MaxSecrets,      \* bound: tokens asked for
          MaxTokenTime     \* bound: ticks

ASSUME TokenConstants ==
    IssueAttempts \in Nat \ {0} /\ MaxSecrets \in Nat /\ MaxTokenTime \in Nat

VARIABLES tokenTime,
          tokens,     \* the table: the row of each id
          issuing,    \* each call of issue
          secrets,    \* secrets drawn so far
          plaintexts, \* what issue returned, and to whom, until when
          cut         \* history: secrets whose rows were revoked

tokenVars == <<tokenTime, tokens, issuing, secrets, plaintexts, cut>>

NoRow == [absent |-> TRUE]
TokenRow(secret, owner, expires) ==
    [absent |-> FALSE, secret |-> secret, owner |-> owner, expires |-> expires]

TokenInit ==
    /\ tokenTime = 0
    /\ tokens = [i \in TokenIds |-> NoRow]
    /\ issuing = [c \in Issuers |-> [at |-> "idle"]]
    /\ secrets = 0
    /\ plaintexts = {}
    /\ cut = {}
-----------------------------------------------------------------------------
\* A caller asks for a token: its secret is drawn once, before any attempt.
AskToken(c, owner, expires) ==
    /\ issuing[c].at = "idle"
    /\ secrets < MaxSecrets
    /\ secrets' = secrets + 1
    /\ issuing' = [issuing EXCEPT ![c] =
        [at |-> "try", attempts |-> 0, row |-> TokenRow(secrets + 1, owner, expires)]]
    /\ UNCHANGED <<tokenTime, tokens, plaintexts, cut>>

\* Mutant: INSERT_NEW writes over the row it conflicts with.
InsertOver(id, row) == [tokens EXCEPT ![id] = row]

\* INSERT_NEW: nothing is written where the id exists.
InsertNew(id, row) == [tokens EXCEPT ![id] = IF @ = NoRow THEN row ELSE @]

\* One attempt of issue: an id is drawn and the row inserted; rows_affected tells
\* whether it was.
IssueToken(c, id) ==
    LET call == issuing[c]
        written == InsertNew(id, call.row)
    IN  /\ call.at = "try"
        /\ tokens' = written
        /\ IF written[id] = call.row
           THEN /\ plaintexts' = plaintexts \cup {[id |-> id, row |-> call.row]}
                /\ issuing' = [issuing EXCEPT ![c] = [at |-> "idle"]]
           ELSE /\ issuing' = [issuing EXCEPT ![c] =
                    IF call.attempts + 1 = IssueAttempts THEN [at |-> "idle"]
                    ELSE [call EXCEPT !.attempts = @ + 1]]
                /\ UNCHANGED plaintexts
        /\ UNCHANGED <<tokenTime, secrets, cut>>

\* The insert commits and its answer is lost, or the request is dropped: a row
\* nobody holds the plaintext of.
IssueLost(c, id) ==
    /\ issuing[c].at = "try"
    /\ tokens' = InsertNew(id, issuing[c].row)
    /\ issuing' = [issuing EXCEPT ![c] = [at |-> "idle"]]
    /\ UNCHANGED <<tokenTime, secrets, plaintexts, cut>>

Removed(ids) == [i \in TokenIds |-> IF i \in ids THEN NoRow ELSE tokens[i]]
SecretsOf(ids) == {tokens[i].secret : i \in {j \in ids : tokens[j] # NoRow}}

\* revoke, with whatever id the caller was shown by find or list_for.
Revoke(id) ==
    /\ tokens[id] # NoRow
    /\ tokens' = Removed({id})
    /\ cut' = cut \cup SecretsOf({id})
    /\ UNCHANGED <<tokenTime, issuing, secrets, plaintexts>>

\* revoke_all_for.
RevokeAllFor(owner) ==
    LET ids == {i \in TokenIds : tokens[i] # NoRow /\ tokens[i].owner = owner}
    IN  /\ ids # {}
        /\ tokens' = Removed(ids)
        /\ cut' = cut \cup SecretsOf(ids)
        /\ UNCHANGED <<tokenTime, issuing, secrets, plaintexts>>

\* sweep_expired.
SweepTokens ==
    LET ids == {i \in TokenIds : tokens[i] # NoRow /\ tokens[i].expires <= tokenTime}
    IN  /\ ids # {}
        /\ tokens' = Removed(ids)
        /\ UNCHANGED <<tokenTime, issuing, secrets, plaintexts, cut>>

TokenTick ==
    /\ tokenTime < MaxTokenTime
    /\ tokenTime' = tokenTime + 1
    /\ UNCHANGED <<tokens, issuing, secrets, plaintexts, cut>>

TokenNext ==
    \/ \E c \in Issuers :
        \/ \E o \in Owners, e \in 0..MaxTokenTime : AskToken(c, o, e)
        \/ \E i \in TokenIds : IssueToken(c, i) \/ IssueLost(c, i)
    \/ \E i \in TokenIds : Revoke(i)
    \/ \E o \in Owners : RevokeAllFor(o)
    \/ SweepTokens
    \/ TokenTick

TokenSpec == TokenInit /\ [][TokenNext]_tokenVars
-----------------------------------------------------------------------------
\* authenticate: the live row of the presented id, when its digest matches; the
\* set is empty where the code answers None.
Authenticate(id, secret) ==
    IF tokens[id] # NoRow /\ tokens[id].expires > tokenTime /\ tokens[id].secret = secret
    THEN {tokens[id].owner} ELSE {}

\* A plaintext authenticates, as the owner it was issued to and nobody else,
\* exactly until it expires or its own row is revoked: not a moment less when
\* another issue draws the same id, and not through a row issued later under it.
PlaintextStands ==
    \A p \in plaintexts :
        Authenticate(p.id, p.row.secret) =
            IF p.row.expires > tokenTime /\ p.row.secret \notin cut THEN {p.row.owner} ELSE {}
=============================================================================
