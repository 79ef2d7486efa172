--------------------------- MODULE JobQueueProofs ---------------------------
(***************************************************************************)
(* JobQueue, for every set of jobs and workers, every batch size and every *)
(* number of claims: types, the lock columns, and that each claim ends     *)
(* once and only through its own token.                                    *)
(*                                                                         *)
(* Whatever statement runs, it does one of three things to the table: it   *)
(* keeps every lock, it closes the claims of a set of running rows, or it  *)
(* claims.  The lemma StepShapes says so once; the invariants are then     *)
(* shown to survive the three shapes.                                      *)
(***************************************************************************)
EXTENDS JobQueue, TLAPS

\* No lock changes hands.
Keeps ==
    /\ row' \in [Jobs -> Row]
    /\ \A j \in Jobs :
          /\ (row'[j].status = "running") <=> (row[j].status = "running")
          /\ row'[j].token = row[j].token
          /\ row'[j].owner = row[j].owner
          /\ row[j].status = "running" => row'[j].attempts = row[j].attempts
    /\ UNCHANGED <<lastToken, claims, ends>>

\* The claims of the rows in S end.
Closes(S, how) ==
    /\ S \subseteq Jobs /\ how \in How
    /\ row' \in [Jobs -> Row]
    /\ \A j \in S : /\ row[j].status = "running"
                    /\ row'[j].status # "running"
                    /\ row'[j].token = NoToken
                    /\ row'[j].owner = Nobody
    /\ \A j \in Jobs \ S : row'[j] = row[j]
    /\ ends' = ends \cup {Ended(j, row[j].token, how) : j \in S}
    /\ UNCHANGED <<lastToken, claims>>

\* A claim, with the rows it writes spelled out.
Claiming(w, S) ==
    /\ w \in Workers /\ S \subseteq Jobs
    /\ row' \in [Jobs -> Row]
    /\ \A j \in S : /\ row[j].status = "pending"
                    /\ row'[j].status = "running"
                    /\ row'[j].token = lastToken + 1
                    /\ row'[j].owner = w
                    /\ row'[j].attempts = row[j].attempts + 1
    /\ \A j \in Jobs \ S : row'[j] = row[j]
    /\ lastToken' = lastToken + 1
    /\ claims' = claims \cup {[job |-> j, token |-> lastToken + 1] : j \in S}
    /\ ends' = ends

\* What a claim and the two sweeps make of one row.
LEMMA ClaimedRowFacts ==
    ASSUME NEW r \in Row, NEW w \in Workers, NEW t \in Nat
    PROVE  /\ ClaimedRow(r, w, t) \in Row
           /\ ClaimedRow(r, w, t).status = "running"
           /\ ClaimedRow(r, w, t).token = t
           /\ ClaimedRow(r, w, t).owner = w
           /\ ClaimedRow(r, w, t).attempts = r.attempts + 1
  BY DEF ClaimedRow, Row, Status, ErrorKind

SweptDead(r) == [Unlocked(r) EXCEPT !.status = "dead", !.kind = "exhausted"]
SweptRequeued(r) == [Unlocked(r) EXCEPT !.status = "pending", !.due = TRUE]

LEMMA SweptFacts ==
    ASSUME NEW r \in Row
    PROVE  /\ SweptDead(r) \in Row
           /\ SweptDead(r).status = "dead"
           /\ SweptDead(r).token = NoToken
           /\ SweptDead(r).owner = Nobody
           /\ SweptRequeued(r) \in Row
           /\ SweptRequeued(r).status = "pending"
           /\ SweptRequeued(r).token = NoToken
           /\ SweptRequeued(r).owner = Nobody
  BY DEF SweptDead, SweptRequeued, Unlocked, Row, Status, ErrorKind, NoToken

\* A claim is a claim.
LEMMA ClaimShape ==
    ASSUME QueueTypeOK, NEW w \in Workers, NEW S \in SUBSET Jobs, Claim(w, S)
    PROVE  Claiming(w, S)
<1> USE DEF QueueTypeOK
<1>1. /\ S \subseteq Jobs /\ lastToken + 1 \in Nat
      /\ row' = [j \in Jobs |-> IF j \in S THEN ClaimedRow(row[j], w, lastToken + 1)
                                          ELSE row[j]]
  BY DEF Claim
<1>2. row' \in [Jobs -> Row]
  BY <1>1, ClaimedRowFacts
<1>3. \A j \in S : row'[j] = ClaimedRow(row[j], w, lastToken + 1)
  BY <1>1
<1>4. \A j \in S : /\ row'[j].status = "running"
                   /\ row'[j].token = lastToken + 1
                   /\ row'[j].owner = w
                   /\ row'[j].attempts = row[j].attempts + 1
  BY <1>1, <1>3, ClaimedRowFacts
<1> QED BY <1>1, <1>2, <1>4 DEF Claim, Claiming, Claimable

\* A completion or a release closes the claim it names.
LEMMA CompletionShape ==
    ASSUME QueueTypeOK, NEW j \in Jobs, NEW t
    PROVE  /\ MarkSucceeded(j, t) => Closes({j}, "succeeded")
           /\ MarkRetry(j, t) => Closes({j}, "retry")
           /\ \A kind \in ErrorKind : MarkDead(j, t, kind) => Closes({j}, "dead")
           /\ ReleaseClaim(j, t) => Closes({j}, "released")
<1> USE DEF QueueTypeOK, Fenced, Unlocked, Row, Status, NoToken
<1>1. ASSUME MarkSucceeded(j, t) PROVE Closes({j}, "succeeded")
  BY <1>1 DEF MarkSucceeded, Closes, How, ErrorKind
<1>2. ASSUME MarkRetry(j, t) PROVE Closes({j}, "retry")
  BY <1>2 DEF MarkRetry, Closes, How, ErrorKind
<1>3. ASSUME NEW kind \in ErrorKind, MarkDead(j, t, kind) PROVE Closes({j}, "dead")
  BY <1>3 DEF MarkDead, Closes, How
<1>4. ASSUME ReleaseClaim(j, t) PROVE Closes({j}, "released")
  BY <1>4 DEF ReleaseClaim, Closes, How
<1> QED BY <1>1, <1>2, <1>3, <1>4

\* A sweep closes the claims of the rows it takes.
LEMMA SweepShape ==
    ASSUME QueueTypeOK, NEW S \in SUBSET Jobs, SweepDead(S) \/ SweepRequeue(S)
    PROVE  Closes(S, "swept")
<1> USE DEF QueueTypeOK
<1>1. CASE SweepDead(S)
  <2>1. row' = [j \in Jobs |-> IF j \in S THEN SweptDead(row[j]) ELSE row[j]]
    BY <1>1 DEF SweepDead, SweptDead
  <2>2. row' \in [Jobs -> Row]
    BY <2>1, SweptFacts
  <2>3. \A j \in S : row'[j].status # "running" /\ row'[j].token = NoToken
                                               /\ row'[j].owner = Nobody
    BY <2>1, SweptFacts
  <2>4. \A j \in Jobs \ S : row'[j] = row[j]
    BY <2>1
  <2> QED BY <1>1, <2>2, <2>3, <2>4 DEF SweepDead, Closes, Expired, How
<1>2. CASE SweepRequeue(S)
  <2>1. row' = [j \in Jobs |-> IF j \in S THEN SweptRequeued(row[j]) ELSE row[j]]
    BY <1>2 DEF SweepRequeue, SweptRequeued
  <2>2. row' \in [Jobs -> Row]
    BY <2>1, SweptFacts
  <2>3. \A j \in S : row'[j].status # "running" /\ row'[j].token = NoToken
                                               /\ row'[j].owner = Nobody
    BY <2>1, SweptFacts
  <2>4. \A j \in Jobs \ S : row'[j] = row[j]
    BY <2>1
  <2> QED BY <1>2, <2>2, <2>3, <2>4 DEF SweepRequeue, Closes, Expired, How
<1> QED BY <1>1, <1>2

\* A cancel closes the claim of a running row.
LEMMA CancelShape ==
    ASSUME QueueTypeOK, LockedIffRunning, NEW j \in Jobs, Cancel(j)
    PROVE  Keeps \/ Closes({j}, "cancelled")
<1> USE DEF QueueTypeOK
<1>1. CASE row[j].status = "running"
  BY <1>1 DEF Cancel, Closes, Unlocked, Row, Status, How, NoToken
<1>2. CASE row[j].status # "running"
  BY <1>2 DEF Cancel, Keeps, LockedIffRunning, Unlocked, Row, Status, NoToken
<1> QED BY <1>1, <1>2

\* The other statements, and time, keep every lock.
LEMMA OtherShapes ==
    ASSUME QueueTypeOK, LockedIffRunning, NEW j \in Jobs
    PROVE  /\ \A due \in BOOLEAN : Enqueue(j, due) => Keeps
           /\ RequeueDead(j) => Keeps
           /\ ComesDue(j) => Keeps
           /\ LeaseLapses(j) => Keeps
           /\ \A t : Heartbeat(j, t) => Keeps
<1> USE DEF QueueTypeOK
<1>1. ASSUME NEW due \in BOOLEAN, Enqueue(j, due) PROVE Keeps
  BY <1>1 DEF Enqueue, Keeps, LockedIffRunning, EmptyRow, Row, Status, ErrorKind, NoToken
<1>2. ASSUME RequeueDead(j) PROVE Keeps
  BY <1>2 DEF RequeueDead, Keeps, LockedIffRunning, Unlocked, Row, Status, ErrorKind, NoToken
<1>3. ASSUME ComesDue(j) PROVE Keeps
  BY <1>3 DEF ComesDue, Keeps, Row
<1>4. ASSUME LeaseLapses(j) PROVE Keeps
  BY <1>4 DEF LeaseLapses, Keeps, Row
<1>5. ASSUME NEW t, Heartbeat(j, t) PROVE Keeps
  BY <1>5 DEF Heartbeat, Keeps, Fenced, Row
<1> QED BY <1>1, <1>2, <1>3, <1>4, <1>5

\* Every step of the table is one of the three shapes.
LEMMA StepShapes ==
    ASSUME QueueTypeOK, LockedIffRunning, [QueueNext]_queueVars
    PROVE  \/ Keeps
           \/ \E S, how : Closes(S, how)
           \/ \E w, S : Claiming(w, S)
<1>1. ASSUME NEW j \in Jobs, NEW t \in 1..lastToken, Present(j, t)
      PROVE  Keeps \/ \E S, how : Closes(S, how)
  BY <1>1, CompletionShape, OtherShapes DEF Present
<1>2. CASE UNCHANGED queueVars
  BY <1>2 DEF queueVars, Keeps, QueueTypeOK
<1> QED BY <1>1, <1>2, ClaimShape, SweepShape, CancelShape, OtherShapes DEF QueueNext

\* Ends and claims carry issued tokens only, and only claims end: with it the
\* checked invariants are inductive.
HistoryInv ==
    /\ \A c \in claims : c.token <= lastToken
    /\ \A e \in ends : [job |-> e.job, token |-> e.token] \in claims

QueueInv ==
    /\ QueueTypeOK
    /\ LockedIffRunning
    /\ HistoryInv
    /\ ClaimsAccounted
    /\ OneEndPerClaim

LEMMA QueueInvInit == QueueInit => QueueInv
  BY QueueConstants DEF QueueInit, QueueInv, QueueTypeOK, LockedIffRunning, HistoryInv,
     ClaimsAccounted, OneEndPerClaim, EmptyRow, Row, NoToken, Status, ErrorKind

\* A step that keeps the locks keeps the invariant.
LEMMA KeepsInv == QueueInv /\ Keeps => QueueInv'
<1> SUFFICES ASSUME QueueInv, Keeps PROVE QueueInv'
  OBVIOUS
<1> USE DEF QueueInv, QueueTypeOK
<1>1. QueueTypeOK'
  BY DEF Keeps
<1>2. LockedIffRunning'
  BY DEF Keeps, LockedIffRunning, Row
<1>3. HistoryInv' /\ OneEndPerClaim'
  BY DEF Keeps, HistoryInv, OneEndPerClaim
<1>4. ClaimsAccounted'
  BY DEF Keeps, ClaimsAccounted, Fenced, Claims
<1> QED BY <1>1, <1>2, <1>3, <1>4

\* A step that ends claims ends each of them for the first time.
LEMMA ClosesInv ==
    ASSUME NEW S, NEW how, QueueInv, Closes(S, how)
    PROVE  QueueInv'
<1> USE DEF QueueInv, QueueTypeOK
<1>1. \A j \in S : /\ j \in Jobs
                   /\ row[j].token \in Nat \ {0}
                   /\ [job |-> j, token |-> row[j].token] \in claims
                   /\ Fenced(j, row[j].token)
  BY DEF Closes, LockedIffRunning, Fenced, Row, NoToken
<1>2. \A j \in S : Ended(j, row[j].token, how) \in Ends
  BY <1>1 DEF Closes, Ended, Ends
<1>3. \A j \in S : ~ \E e \in ends : e.job = j /\ e.token = row[j].token
  <2> TAKE j \in S
  <2> DEFINE c == [job |-> j, token |-> row[j].token]
  <2>1. c \in claims /\ c.job = j /\ c.token = row[j].token /\ Fenced(c.job, c.token)
    BY <1>1
  <2> HIDE DEF c
  <2> QED BY <2>1 DEF ClaimsAccounted
<1>4. QueueTypeOK'
  BY <1>2 DEF Closes
<1>5. LockedIffRunning'
  BY DEF Closes, LockedIffRunning, Row, NoToken
<1>6. HistoryInv'
  BY <1>1 DEF Closes, HistoryInv, Ended
<1>7. OneEndPerClaim'
  <2> SUFFICES ASSUME NEW e \in ends', NEW f \in ends', e.job = f.job, e.token = f.token
               PROVE  e = f
    BY DEF OneEndPerClaim
  <2>1. CASE e \in ends /\ f \in ends
    BY <2>1 DEF OneEndPerClaim
  <2>2. CASE e \notin ends \/ f \notin ends
    BY <1>3, <2>2 DEF Closes, Ended
  <2> QED BY <2>1, <2>2
<1>8. ClaimsAccounted'
  <2> SUFFICES ASSUME NEW c \in claims
               PROVE  Fenced(c.job, c.token)' <=>
                        ~ \E e \in ends' : e.job = c.job /\ e.token = c.token
    BY DEF ClaimsAccounted, Closes
  <2> c.job \in Jobs /\ c.token \in Nat \ {0}
    BY DEF Claims
  <2>1. CASE c.job \notin S
    <3>1. Fenced(c.job, c.token)' <=> Fenced(c.job, c.token)
      BY <2>1 DEF Closes, Fenced
    <3>2. \A e \in ends' : e.job = c.job => e \in ends
      BY <2>1 DEF Closes, Ended
    <3> QED BY <3>1, <3>2 DEF ClaimsAccounted, Closes
  <2>2. CASE c.job \in S
    <3>1. ~Fenced(c.job, c.token)'
      BY <2>2 DEF Closes, Fenced
    <3>2. CASE Fenced(c.job, c.token)
      <4>1. /\ Ended(c.job, row[c.job].token, how) \in ends'
            /\ Ended(c.job, row[c.job].token, how).job = c.job
            /\ Ended(c.job, row[c.job].token, how).token = c.token
        BY <2>2, <3>2 DEF Closes, Ended, Fenced
      <4> QED BY <3>1, <4>1
    <3>3. CASE ~Fenced(c.job, c.token)
      BY <3>1, <3>3 DEF ClaimsAccounted, Closes
    <3> QED BY <3>2, <3>3
  <2> QED BY <2>1, <2>2
<1> QED BY <1>4, <1>5, <1>6, <1>7, <1>8

\* A claim takes a fresh token, so none of its claims can have ended.
LEMMA ClaimingInv ==
    ASSUME NEW w, NEW S, QueueInv, Claiming(w, S)
    PROVE  QueueInv'
<1> USE DEF QueueInv, QueueTypeOK
<1>1. QueueTypeOK'
  BY DEF Claiming, Claims
<1>2. LockedIffRunning'
  <2> SUFFICES ASSUME NEW j \in Jobs
               PROVE  /\ (row'[j].status = "running") <=> (row'[j].token # NoToken)
                      /\ (row'[j].status = "running") <=> (row'[j].owner # Nobody)
                      /\ row'[j].token <= lastToken'
                      /\ row'[j].status = "running" => row'[j].attempts > 0
                      /\ row'[j].status = "running" =>
                            [job |-> j, token |-> row'[j].token] \in claims'
    BY DEF LockedIffRunning
  <2>1. CASE j \in S
    BY <2>1, QueueConstants DEF Claiming, Row, NoToken
  <2>2. CASE j \notin S
    BY <2>2 DEF Claiming, LockedIffRunning, Row
  <2> QED BY <2>1, <2>2
<1>3. HistoryInv'
  BY DEF Claiming, HistoryInv, Claims
<1>4. OneEndPerClaim'
  BY DEF Claiming, OneEndPerClaim
<1>5. ClaimsAccounted'
  <2> SUFFICES ASSUME NEW c \in claims'
               PROVE  Fenced(c.job, c.token)' <=>
                        ~ \E e \in ends : e.job = c.job /\ e.token = c.token
    BY DEF ClaimsAccounted, Claiming
  <2>1. CASE c \in claims
    <3>1. c.job \in Jobs /\ c.token \in Nat /\ c.token <= lastToken
      BY <2>1 DEF Claims, HistoryInv
    <3>2. Fenced(c.job, c.token)' <=> Fenced(c.job, c.token)
      BY <3>1 DEF Claiming, Fenced
    <3> QED BY <2>1, <3>2 DEF ClaimsAccounted
  <2>2. CASE c \notin claims
    <3>1. c.job \in S /\ c.token = lastToken + 1
      BY <2>2 DEF Claiming
    <3>2. Fenced(c.job, c.token)'
      BY <3>1 DEF Claiming, Fenced
    <3>3. \A e \in ends : e.token <= lastToken /\ e.token \in Nat
      BY DEF HistoryInv, Ends
    <3> QED BY <3>1, <3>2, <3>3
  <2> QED BY <2>1, <2>2
<1> QED BY <1>1, <1>2, <1>3, <1>4, <1>5

LEMMA QueueInvStep == QueueInv /\ [QueueNext]_queueVars => QueueInv'
  BY StepShapes, KeepsInv, ClosesInv, ClaimingInv DEF QueueInv

THEOREM QueueInvariant == QueueSpec => []QueueInv
  BY QueueInvInit, QueueInvStep, PTL DEF QueueSpec

\* The table keeps its types.
THEOREM QueueTypeCorrect == QueueSpec => []QueueTypeOK
<1>1. QueueInv => QueueTypeOK
  BY DEF QueueInv
<1> QED BY <1>1, QueueInvariant, PTL

\* A row is locked exactly while it runs, under a token some claim issued.
THEOREM LocksCorrect == QueueSpec => []LockedIffRunning
<1>1. QueueInv => LockedIffRunning
  BY DEF QueueInv
<1> QED BY <1>1, QueueInvariant, PTL

\* Every claim is live in its row or has ended, and never both.
THEOREM ClaimsAccountedCorrect == QueueSpec => []ClaimsAccounted
<1>1. QueueInv => ClaimsAccounted
  BY DEF QueueInv
<1> QED BY <1>1, QueueInvariant, PTL

\* No claim ends twice: a late completion of a swept, released or cancelled
\* claim changes nothing.
THEOREM OneEnd == QueueSpec => []OneEndPerClaim
<1>1. QueueInv => OneEndPerClaim
  BY DEF QueueInv
<1> QED BY <1>1, QueueInvariant, PTL

\* A running row never passes straight to another claim.
THEOREM NoStealingCorrect == QueueSpec => NoStealing
<1> DEFINE A == \A j \in Jobs :
                  row[j].status = "running" /\ row'[j].status = "running" =>
                      /\ row'[j].token = row[j].token
                      /\ row'[j].owner = row[j].owner
                      /\ row'[j].attempts = row[j].attempts
<1>1. QueueInv /\ [QueueNext]_queueVars => A
  <2> SUFFICES ASSUME QueueInv, [QueueNext]_queueVars, NEW j \in Jobs,
                      row[j].status = "running", row'[j].status = "running"
               PROVE  /\ row'[j].token = row[j].token
                      /\ row'[j].owner = row[j].owner
                      /\ row'[j].attempts = row[j].attempts
    OBVIOUS
  <2>1. CASE Keeps
    BY <2>1 DEF Keeps
  <2>2. ASSUME NEW S, NEW how, Closes(S, how) PROVE row'[j] = row[j]
    BY <2>2 DEF Closes
  <2>3. ASSUME NEW w, NEW S, Claiming(w, S) PROVE row'[j] = row[j]
    BY <2>3 DEF Claiming
  <2> QED BY <2>1, <2>2, <2>3, StepShapes DEF QueueInv
<1> QED BY <1>1, QueueInvariant, PTL DEF QueueSpec, NoStealing

\* 'succeeded' and 'cancelled' are final; 'dead' is left only by requeue_dead.
THEOREM TerminalIsFinalCorrect == QueueSpec => TerminalIsFinal
<1> DEFINE A == \A j \in Jobs :
                  /\ row[j].status \in {"succeeded", "cancelled"} => row'[j] = row[j]
                  /\ row[j].status = "dead" /\ row'[j] # row[j] =>
                        /\ row'[j].status = "pending"
                        /\ row'[j].attempts = 0
<1>1. QueueTypeOK /\ [QueueNext]_queueVars => A
  <2> SUFFICES ASSUME QueueTypeOK, [QueueNext]_queueVars, NEW i \in Jobs,
                      row[i].status \in {"succeeded", "cancelled", "dead"},
                      row'[i] # row[i]
               PROVE  row[i].status = "dead" /\ row'[i].status = "pending"
                                             /\ row'[i].attempts = 0
    OBVIOUS
  <2> USE DEF QueueTypeOK
  <2>1. ASSUME NEW j \in Jobs, NEW due \in BOOLEAN, Enqueue(j, due) PROVE FALSE
    BY <2>1 DEF Enqueue
  <2>2. ASSUME NEW w \in Workers, NEW S \in SUBSET Jobs, Claim(w, S) PROVE FALSE
    BY <2>2 DEF Claim, Claimable
  <2>3. ASSUME NEW j \in Jobs, NEW t \in 1..lastToken, Present(j, t) PROVE FALSE
    BY <2>3 DEF Present, MarkSucceeded, MarkRetry, MarkDead, Heartbeat, ReleaseClaim, Fenced
  <2>4. ASSUME NEW S \in SUBSET Jobs, SweepDead(S) \/ SweepRequeue(S) PROVE FALSE
    BY <2>4 DEF SweepDead, SweepRequeue, Expired
  <2>5. ASSUME NEW j \in Jobs, Cancel(j) PROVE FALSE
    BY <2>5 DEF Cancel
  <2>6. ASSUME NEW j \in Jobs, RequeueDead(j)
        PROVE  row[i].status = "dead" /\ row'[i].status = "pending" /\ row'[i].attempts = 0
    BY <2>6 DEF RequeueDead, Unlocked, Row
  <2>7. ASSUME NEW j \in Jobs, ComesDue(j) \/ LeaseLapses(j) PROVE FALSE
    BY <2>7 DEF ComesDue, LeaseLapses
  <2>8. CASE UNCHANGED queueVars
    BY <2>8 DEF queueVars
  <2> QED BY <2>1, <2>2, <2>3, <2>4, <2>5, <2>6, <2>7, <2>8 DEF QueueNext
<1> QED BY <1>1, QueueTypeCorrect, PTL DEF QueueSpec, TerminalIsFinal
=============================================================================
