----------------------------- MODULE WebProofs -----------------------------
(***************************************************************************)
(* Proofs about what a request meets, for any users, requests, pages,       *)
(* readers and bounds: sessions, API tokens, Inertia pages, locales,        *)
(* remember-me tokens, client addresses.                                   *)
(*                                                                         *)
(* Sessions.  NoFixation and SignedOutStays speak of the table only; what   *)
(* comes into it are copies that requests took earlier.  The invariant says *)
(* of every copy what it says of the records (Admissible), and that the record    *)
(* and the copies of one id are of one user (UserFixed).                   *)
(*                                                                         *)
(* API tokens.  PlaintextStands does not say what keeps two rows from       *)
(* sharing a secret.  The invariant does: a secret is drawn once, belongs   *)
(* to one call of issue until that call writes its row, then to that row,   *)
(* and is not drawn again after the row is gone.                           *)
(*                                                                         *)
(* Pages.  A prop may be left out of a page when the client named it as     *)
(* held; the invariant says that it has the value, also of the requests     *)
(* that are still on their way.                                            *)
(*                                                                         *)
(* Locales.  Every kept response is in the locale that was negotiated for   *)
(* some reader of the same key.                                            *)
(*                                                                         *)
(* Remember-me tokens.  CookieOnlyAdvances needs to know that a new cookie  *)
(* on its way is newer than every cookie of its series that a browser holds *)
(* or a request carries, and that no second one is on its way (Latest): so  *)
(* nothing rotates the series again before it is delivered.                *)
(*                                                                         *)
(* Client addresses.  The invariant says where in the header the client     *)
(* stands, what is behind it, and which lines there can be read (Traced):   *)
(* the walk from the right ends there, or among the proxies behind it when  *)
(* lines that cannot be read hide the rest.                                *)
(***************************************************************************)
EXTENDS Sessions, ApiTokens, Inertia, Locales, RememberTokens, ClientAddress,
        TLAPS

(***************************************************************************)
(* Sessions                                                                *)
(***************************************************************************)
Data == [user : Users \cup {Nobody}, authAt : Int, stamp : Nat,
         confirmed : Users \cup {Nobody}, confirmedAt : Nat, flash : BOOLEAN]

Held == [at : {"loaded", "guest", "user"}, sid : 0..MaxSid, data : Data,
         modified : BOOLEAN, work : Nat]

Saved == [absent : {FALSE}, data : Data]

SessionTypeOK ==
    /\ sessionTime \in Nat /\ visits \in Nat /\ issued \in 0..MaxSid
    /\ records \in [1..MaxSid -> {Missing} \cup Saved]
    /\ password \in [Users -> Nat]
    /\ visit \in [SessionRequests -> {NoVisit} \cup Held]
    /\ verified \in [Users -> Int]
    /\ presented \subseteq 1..issued /\ signedOut \subseteq 1..issued

\* What a record or a copy of session s may say: no sign-in under an id that was
\* presented without one, nothing of a session that was signed out, and no
\* confirmation later than the user's last.
Admissible(s, d) ==
    /\ s <= issued
    /\ s \in presented => d.user = Nobody
    /\ s \notin signedOut \ held
    /\ d.confirmed # Nobody => d.confirmedAt <= verified[d.confirmed]

\* The record and the copies of one session are of one user.
UserFixed ==
    \A q \in SessionRequests : (visit[q] # NoVisit /\ visit[q].sid # 0) =>
        /\ \A p \in SessionRequests : (visit[p] # NoVisit /\ visit[p].sid = visit[q].sid)
                                      => visit[p].data.user = visit[q].data.user
        /\ records[visit[q].sid] # Missing
              => records[visit[q].sid].data.user = visit[q].data.user

RecordsFit == \A s \in 1..MaxSid : records[s] # Missing => Admissible(s, records[s].data)

CopiesFit ==
    \A q \in SessionRequests : visit[q] # NoVisit =>
        /\ Admissible(visit[q].sid, visit[q].data)
        /\ visit[q].at = "user" => visit[q].data.user # Nobody

VerifiedBefore == \A u \in Users : verified[u] <= sessionTime

SessionInv == SessionTypeOK /\ VerifiedBefore /\ RecordsFit /\ CopiesFit /\ UserFixed
-----------------------------------------------------------------------------
LEMMA CopyFacts ==
    /\ NoVisit \notin Held /\ NoVisit.at = "none"
    /\ \A v \in Held : v.sid \in 0..MaxSid /\ v.data \in Data
    /\ Missing \notin Saved
    /\ \A r \in Saved : r.data \in Data
    /\ Empty \in Data /\ Empty.user = Nobody /\ Empty.confirmed = Nobody
    /\ \A d \in Data : Stored(d) \in Saved /\ Stored(d).data = d
  <1>1. \A v \in Held : v.at # "none"
    BY DEF Held
  <1>2. NoVisit.at = "none"
    BY DEF NoVisit
  <1>3. \A r \in Saved : r.absent = FALSE /\ r.data \in Data
    BY DEF Saved
  <1>4. Missing.absent = TRUE
    BY DEF Missing
  <1>5. Empty \in Data /\ Empty.user = Nobody /\ Empty.confirmed = Nobody
    BY DEF Empty, Data
  <1>6. \A d \in Data : Stored(d) \in Saved /\ Stored(d).data = d
    BY DEF Stored, Saved
  <1>7. \A v \in Held : v.sid \in 0..MaxSid /\ v.data \in Data
    BY DEF Held
  <1> QED BY <1>1, <1>2, <1>3, <1>4, <1>5, <1>6, <1>7

\* What the handlers make of a copy is a copy.
LEMMA CopyUpdates ==
  ASSUME NEW v \in Held, NEW d \in Data
  PROVE  /\ [v EXCEPT !.at = "guest", !.sid = 0, !.data = Empty] \in Held
         /\ [v EXCEPT !.at = "guest"] \in Held
         /\ Touched(v, d) \in Held
         /\ \A a \in {"guest", "user"} : [Touched(v, d) EXCEPT !.at = a, !.sid = 0] \in Held
  <1> DEFINE Sids == 0..MaxSid
  <1>0. /\ 0 \in Sids /\ Empty \in Data
        /\ \A w \in Held : w.work \in Nat /\ w.work + 1 \in Nat
    BY SessionConstants, CopyFacts DEF Held
  <1> HIDE DEF Sids
  <1>1. \A w \in Held, e \in Data : [w EXCEPT !.at = "guest", !.sid = 0, !.data = e] \in Held
    BY <1>0 DEF Held, Sids
  <1>2. [v EXCEPT !.at = "guest"] \in Held
    BY DEF Held
  <1>4. \A n \in Nat : [v EXCEPT !.data = d, !.modified = TRUE, !.work = n] \in Held
    BY DEF Held
  <1>5. Touched(v, d) = [v EXCEPT !.data = d, !.modified = TRUE, !.work = v.work + 1]
    BY DEF Touched, Held
  <1>6. \A w \in Held, a \in {"guest", "user"} : [w EXCEPT !.at = a, !.sid = 0] \in Held
    BY <1>0 DEF Held, Sids
  <1> QED BY <1>0, <1>1, <1>2, <1>4, <1>5, <1>6

LEMMA SessionInvInit == SessionInit => SessionInv
  <1> SUFFICES ASSUME SessionInit PROVE SessionInv
    OBVIOUS
  <1> USE SessionConstants
  <1> DEFINE old(u) == [Empty EXCEPT !.user = u]
  <1>0. \A u \in Users : old(u) \in Data /\ old(u).confirmed = Nobody
    BY CopyFacts DEF Data
  <1>1. /\ records \in [1..MaxSid -> {Missing} \cup Saved]
        /\ issued \in 0..MaxSid
        /\ \A s \in 1..MaxSid : records[s] # Missing =>
                s <= issued /\ records[s].data.confirmed = Nobody
    <2>1. CASE issued = 0 /\ records = [s \in 1..MaxSid |-> Missing]
      BY <2>1
    <2>2. CASE issued = 1 /\ \E u \in Users :
                 records = [s \in 1..MaxSid |-> IF s = 1 THEN Stored(old(u)) ELSE Missing]
      <3>0. PICK u \in Users :
                 records = [s \in 1..MaxSid |-> IF s = 1 THEN Stored(old(u)) ELSE Missing]
        BY <2>2
      <3> HIDE DEF old
      <3>1. /\ Stored(old(u)) \in Saved
            /\ Stored(old(u)).data.confirmed = Nobody
        BY <1>0, CopyFacts
      <3>2. \A s \in 1..MaxSid : records[s] = IF s = 1 THEN Stored(old(u)) ELSE Missing
        BY <3>0
      <3>3. records \in [1..MaxSid -> {Missing} \cup Saved]
        BY <3>0, <3>1
      <3>4. \A s \in 1..MaxSid : records[s] # Missing => s = 1
        BY <3>2
      <3>5. \A s \in 1..MaxSid : records[s] # Missing => records[s].data.confirmed = Nobody
        BY <3>1, <3>2, <3>4
      <3>6. issued \in 0..MaxSid /\ \A s \in 1..MaxSid : s = 1 => s <= issued
        BY <2>2
      <3> QED BY <3>3, <3>4, <3>5, <3>6
    <2> QED BY <2>1, <2>2 DEF SessionInit
  <1>2. SessionTypeOK
    <2>1. visit \in [SessionRequests -> {NoVisit} \cup Held]
      BY DEF SessionInit
    <2>2. password \in [Users -> Nat] /\ verified \in [Users -> Int]
      BY DEF SessionInit
    <2> QED BY <1>1, <2>1, <2>2 DEF SessionInit, SessionTypeOK
  <1>3. VerifiedBefore
    BY DEF SessionInit, VerifiedBefore
  <1>4. RecordsFit
    BY <1>1 DEF SessionInit, Admissible, RecordsFit
  <1>5. CopiesFit /\ UserFixed
    BY DEF SessionInit, CopiesFit, UserFixed
  <1> QED BY <1>2, <1>3, <1>4, <1>5 DEF SessionInv

\* Confirmations that were no later than a verification stay so.
LEMMA VerifiedLater ==
  ASSUME SessionTypeOK, verified' \in [Users -> Int],
         \A u \in Users : verified[u] <= verified'[u]
  PROVE  \A d \in Data : (d.confirmed # Nobody => d.confirmedAt <= verified[d.confirmed])
                     => (d.confirmed # Nobody => d.confirmedAt <= verified'[d.confirmed])
  BY DEF SessionTypeOK, Data

\* A request goes on, or ends, with its copy of the same session or with data for
\* one yet to be created, and rows may be deleted on the way.
LEMMA CopyMoves ==
  ASSUME SessionInv, NEW q \in SessionRequests, NEW new \in {NoVisit} \cup Held,
         visit' = [visit EXCEPT ![q] = new],
         new # NoVisit =>
            /\ new.sid = 0 \/ /\ visit[q] # NoVisit /\ new.sid = visit[q].sid
                              /\ new.data.user = visit[q].data.user
            /\ new.at = "user" => new.data.user # Nobody
            /\ new.data.confirmed # Nobody => new.data.confirmedAt <= verified'[new.data.confirmed],
         records' \in [1..MaxSid -> {Missing} \cup Saved],
         \A s \in 1..MaxSid : records'[s] = records[s] \/ records'[s] = Missing,
         visits' \in Nat, password' \in [Users -> Nat], verified' \in [Users -> Int],
         \A u \in Users : verified[u] <= verified'[u] /\ verified'[u] <= sessionTime,
         UNCHANGED <<sessionTime, issued, presented, signedOut, held>>
  PROVE  SessionInv'
  <1> USE SessionConstants, CopyFacts
  <1>1. SessionTypeOK'
    BY DEF SessionInv, SessionTypeOK
  <1>2. /\ visit'[q] = new
        /\ \A p \in SessionRequests : p # q => visit'[p] = visit[p]
    BY DEF SessionInv, SessionTypeOK
  <1>3. RecordsFit'
    <2>1. \A s \in 1..MaxSid : records[s] # Missing => records[s].data \in Data
      BY DEF SessionInv, SessionTypeOK
    <2> SUFFICES ASSUME NEW s \in 1..MaxSid, records'[s] # Missing
                 PROVE  Admissible(s, records[s].data)'
      BY DEF RecordsFit
    <2>2. records'[s] = records[s] /\ Admissible(s, records[s].data) /\ records[s].data \in Data
      BY <2>1 DEF SessionInv, RecordsFit
    <2> QED BY <2>2, VerifiedLater DEF Admissible, SessionInv
  <1>4. CopiesFit'
    <2> SUFFICES ASSUME NEW p \in SessionRequests, visit'[p] # NoVisit
                 PROVE  /\ Admissible(visit[p].sid, visit[p].data)'
                        /\ visit'[p].at = "user" => visit'[p].data.user # Nobody
      BY DEF CopiesFit
    <2>1. visit[p] # NoVisit => visit[p].data \in Data
      BY DEF SessionInv, SessionTypeOK, Held
    <2>2. CASE p # q
      <3>1. /\ visit'[p] = visit[p] /\ visit[p].data \in Data
            /\ Admissible(visit[p].sid, visit[p].data)
            /\ visit'[p].at = "user" => visit'[p].data.user # Nobody
        BY <2>1, <2>2, <1>2 DEF SessionInv, CopiesFit
      <3>2. visit[p].data.confirmed # Nobody
                => visit[p].data.confirmedAt <= verified'[visit[p].data.confirmed]
        BY <3>1, VerifiedLater DEF Admissible, SessionInv
      <3>3. Admissible(visit[p].sid, visit[p].data)'
        BY <3>1, <3>2 DEF Admissible
      <3> QED BY <3>1, <3>3
    <2>3. CASE p = q /\ new.sid = 0
      BY <2>3, <1>2 DEF Admissible, SessionInv, SessionTypeOK
    <2>4. CASE p = q /\ new.sid # 0
      <3>1. /\ Admissible(visit[q].sid, visit[q].data)
            /\ new.sid = visit[q].sid /\ new.data.user = visit[q].data.user
        BY <2>4, <1>2 DEF SessionInv, CopiesFit
      <3> QED BY <3>1, <2>4, <1>2 DEF Admissible
    <2> QED BY <2>2, <2>3, <2>4
  <1>8. UserFixed'
    <2> SUFFICES ASSUME NEW p \in SessionRequests, visit'[p] # NoVisit, visit'[p].sid # 0
                 PROVE  /\ \A r \in SessionRequests :
                              (visit'[r] # NoVisit /\ visit'[r].sid = visit'[p].sid)
                              => visit'[r].data.user = visit'[p].data.user
                        /\ records'[visit'[p].sid] # Missing
                              => records'[visit'[p].sid].data.user = visit'[p].data.user
      BY DEF UserFixed
    <2>1. \A r \in SessionRequests : (visit'[r] # NoVisit /\ visit'[r].sid # 0) =>
              /\ visit[r] # NoVisit /\ visit[r].sid = visit'[r].sid
              /\ visit[r].data.user = visit'[r].data.user
      BY <1>2
    <2>2. visit'[p].sid \in 1..MaxSid
      BY <1>1 DEF SessionTypeOK, Held
    <2> QED BY <2>1, <2>2 DEF SessionInv, UserFixed
  <1> QED BY <1>1, <1>3, <1>4, <1>8 DEF SessionInv, VerifiedBefore

\* A request reads a record: its copy is the record's, and the id counts as
\* presented when nobody is signed in under it.
LEMMA LoadKeeps ==
  ASSUME SessionInv, NEW q \in SessionRequests, NEW sid \in 0..MaxSid, LoadSession(q, sid)
  PROVE  SessionInv'
  <1> USE SessionConstants, CopyFacts
  <1>0. /\ visit[q] = NoVisit /\ sid \in 0..issued /\ visits' = visits + 1
        /\ UNCHANGED <<sessionTime, records, issued, password, signedOut, held, verified>>
    BY DEF LoadSession
  <1>1. CASE sid = 0 \/ records[sid] = Missing
    <2>1. Visit(0, Empty) \in Held /\ Visit(0, Empty).sid = 0 /\ Visit(0, Empty).at = "loaded"
          /\ Visit(0, Empty).data = Empty
      BY DEF Visit, Held
    <2>2. visit' = [visit EXCEPT ![q] = Visit(0, Empty)] /\ presented' = presented
      BY <1>1 DEF LoadSession
    <2>3. /\ visits' \in Nat /\ password' \in [Users -> Nat] /\ verified' \in [Users -> Int]
          /\ records' \in [1..MaxSid -> {Missing} \cup Saved] /\ records' = records
          /\ \A u \in Users : verified[u] <= verified'[u] /\ verified'[u] <= sessionTime
      BY <1>0 DEF SessionInv, SessionTypeOK, VerifiedBefore
    <2> DEFINE v == Visit(0, Empty)
    <2> HIDE DEF v
    <2>4. /\ v \in {NoVisit} \cup Held /\ v.sid = 0 /\ ~(v.at = "user")
          /\ ~(v.data.confirmed # Nobody) /\ visit' = [visit EXCEPT ![q] = v]
      BY <2>1, <2>2 DEF v
    <2> QED BY <1>0, <2>2, <2>3, <2>4, CopyMoves
  <1>2. CASE sid # 0 /\ records[sid] # Missing
    <2> DEFINE d == records[sid].data
               v == Visit(sid, d)
    <2>0. sid \in 1..MaxSid
      BY <1>2
    <2>1. sid \in 1..MaxSid /\ d \in Data /\ Admissible(sid, d)
      BY <1>2, <2>0 DEF SessionInv, SessionTypeOK, RecordsFit
    <2>2. v \in Held /\ v.sid = sid /\ v.at = "loaded" /\ v.data = d
      BY <2>1 DEF Visit, Held
    <2>3. /\ visit' = [visit EXCEPT ![q] = v]
          /\ presented' = IF d.user = Nobody THEN presented \cup {sid} ELSE presented
      BY <1>2 DEF LoadSession
    <2> HIDE DEF v
    <2>4. visit'[q] = v /\ \A p \in SessionRequests : p # q => visit'[p] = visit[p]
      BY <2>3 DEF SessionInv, SessionTypeOK
    <2>5. SessionTypeOK'
      <3>1. presented' \subseteq 1..issued'
        BY <1>0, <2>0, <2>3 DEF SessionInv, SessionTypeOK
      <3> QED BY <1>0, <2>2, <2>3, <3>1 DEF SessionInv, SessionTypeOK
    <2>6. \A p \in SessionRequests : (visit[p] # NoVisit /\ visit[p].sid = sid)
                                     => visit[p].data.user = d.user
      BY <1>2, <2>1 DEF SessionInv, UserFixed
    <2>7. RecordsFit'
      BY <1>0, <2>1, <2>3 DEF SessionInv, RecordsFit, Admissible
    <2>8. CopiesFit'
      <3> SUFFICES ASSUME NEW p \in SessionRequests, visit'[p] # NoVisit
                   PROVE  /\ Admissible(visit[p].sid, visit[p].data)'
                          /\ visit'[p].at = "user" => visit'[p].data.user # Nobody
        BY DEF CopiesFit
      <3>1. CASE p = q
        <4>1. Admissible(visit[p].sid, visit[p].data)'
          BY <3>1, <1>0, <2>1, <2>2, <2>3, <2>4 DEF Admissible
        <4> QED BY <4>1, <3>1, <2>2, <2>4
      <3>2. CASE p # q
        <4>1. visit'[p] = visit[p] /\ Admissible(visit[p].sid, visit[p].data)
              /\ (visit[p].at = "user" => visit[p].data.user # Nobody)
          BY <3>2, <2>4 DEF SessionInv, CopiesFit
        <4>2. Admissible(visit[p].sid, visit[p].data)'
          BY <4>1, <1>0, <2>3, <2>6 DEF Admissible
        <4> QED BY <4>1, <4>2
      <3> QED BY <3>1, <3>2
    <2>9. UserFixed'
      <3>1. \A p \in SessionRequests :
              (visit'[p] # NoVisit /\ visit'[p].sid # 0) =>
                 /\ visit'[p].sid \in 1..MaxSid
                 /\ \/ p # q /\ visit'[p] = visit[p]
                    \/ p = q /\ visit'[p].sid = sid /\ visit'[p].data = d
        BY <2>2, <2>4, <2>5 DEF SessionTypeOK, Held
      <3> QED BY <3>1, <2>6, <1>0, <1>2 DEF SessionInv, UserFixed
    <2> QED BY <1>0, <2>5, <2>7, <2>8, <2>9 DEF SessionInv, VerifiedBefore
  <1> QED BY <1>1, <1>2

\* The row goes with the copy.  Another request's copy is what held remembers.
LEMMA FlushKeeps ==
  ASSUME SessionInv, NEW q \in SessionRequests, visit[q] # NoVisit, Flush(q),
         UNCHANGED <<sessionTime, visits, issued, password, verified, presented>>
  PROVE  SessionInv'
  <1> USE SessionConstants, CopyFacts
  <1> DEFINE sid == visit[q].sid
             v == [visit[q] EXCEPT !.at = "guest", !.sid = 0, !.data = Empty]
  <1>0. visit[q] \in Held /\ Admissible(sid, visit[q].data)
    BY DEF SessionInv, SessionTypeOK, CopiesFit
  <1>1. visit[q] \in Held /\ sid \in 0..issued
    BY <1>0 DEF SessionInv, SessionTypeOK, Admissible
  <1>2. v \in Held /\ v.sid = 0 /\ v.data = Empty /\ v.at = "guest"
    BY <1>1, CopyUpdates DEF Held
  <1>3. /\ visit' = [visit EXCEPT ![q] = v]
        /\ records' = [s \in 1..MaxSid |-> IF s = sid THEN Missing ELSE records[s]]
        /\ signedOut' = signedOut \cup ({sid} \ {0})
        /\ held' = IF Copies(q, sid) # {} THEN held \cup ({sid} \ {0}) ELSE held
    BY DEF Flush
  <1> HIDE DEF v
  <1>4. visit'[q] = v /\ \A p \in SessionRequests : p # q => visit'[p] = visit[p]
    BY <1>3 DEF SessionInv, SessionTypeOK
  <1>5. /\ records' \in [1..MaxSid -> {Missing} \cup Saved]
        /\ \A s \in 1..MaxSid : records'[s] # Missing => s # sid /\ records'[s] = records[s]
    <2> DEFINE row(s) == IF s = sid THEN Missing ELSE records[s]
    <2>1. \A s \in 1..MaxSid : records[s] \in {Missing} \cup Saved
      BY DEF SessionInv, SessionTypeOK
    <2>2. \A s \in 1..MaxSid : row(s) \in {Missing} \cup Saved /\ (row(s) # Missing => s # sid /\ row(s) = records[s])
      BY <2>1
    <2>3. records' = [s \in 1..MaxSid |-> row(s)]
      BY <1>3
    <2> HIDE DEF row
    <2> QED BY <2>2, <2>3
  <1>6. SessionTypeOK'
    <2>0. signedOut \subseteq 1..issued /\ issued \in Nat
      BY DEF SessionInv, SessionTypeOK
    <2>1. signedOut' \subseteq 1..issued'
      <3>1. \A s \in signedOut' : s \in signedOut \/ (s = sid /\ s # 0)
        BY <1>3
      <3>2. sid \in 0..issued
        BY <1>1
      <3>3. issued' = issued
        OBVIOUS
      <3> HIDE DEF sid
      <3>4. sid # 0 => sid \in 1..issued
        BY <3>2, <2>0
      <3> QED BY <2>0, <3>1, <3>3, <3>4
    <2>2. visit' \in [SessionRequests -> {NoVisit} \cup Held]
      BY <1>2, <1>3 DEF SessionInv, SessionTypeOK
    <2> QED BY <1>5, <2>1, <2>2 DEF SessionInv, SessionTypeOK
  <1>7. /\ \A s : s # sid /\ s \notin signedOut \ held => s \notin signedOut' \ held'
        /\ \A p \in SessionRequests : (p # q /\ visit[p] # NoVisit /\ sid # 0 /\ visit[p].sid = sid)
                                       => sid \in held'
    BY <1>3 DEF Copies
  <1>8. RecordsFit'
    <2> SUFFICES ASSUME NEW s \in 1..MaxSid, records'[s] # Missing
                 PROVE  Admissible(s, records[s].data)'
      BY DEF RecordsFit
    <2> QED BY <1>5, <1>7 DEF SessionInv, RecordsFit, Admissible
  <1>9. CopiesFit'
    <2> SUFFICES ASSUME NEW p \in SessionRequests, visit'[p] # NoVisit
                 PROVE  /\ Admissible(visit[p].sid, visit[p].data)'
                        /\ visit'[p].at = "user" => visit'[p].data.user # Nobody
      BY DEF CopiesFit
    <2>1. CASE p = q
      <3>1. 0 \notin signedOut' /\ 0 \notin presented' /\ 0 <= issued'
        BY <1>6 DEF SessionTypeOK
      <3>2. Admissible(visit[p].sid, visit[p].data)'
        BY <2>1, <1>2, <1>4, <3>1 DEF Admissible
      <3> QED BY <2>1, <1>2, <1>4, <3>2
    <2>2. CASE p # q
      <3>1. visit'[p] = visit[p] /\ Admissible(visit[p].sid, visit[p].data)
            /\ (visit[p].at = "user" => visit[p].data.user # Nobody)
        BY <2>2, <1>4 DEF SessionInv, CopiesFit
      <3>2. 0 \notin signedOut'
        BY <1>6 DEF SessionTypeOK
      <3>3. visit[p].sid \notin signedOut' \ held'
        BY <2>2, <3>1, <3>2, <1>7 DEF Admissible
      <3>4. Admissible(visit[p].sid, visit[p].data)'
        BY <3>1, <3>3 DEF Admissible
      <3> QED BY <3>1, <3>4
    <2> QED BY <2>1, <2>2
  <1>10. UserFixed'
    <2>1. \A p \in SessionRequests :
            (visit'[p] # NoVisit /\ visit'[p].sid # 0) =>
               visit'[p].sid \in 1..MaxSid /\ p # q /\ visit'[p] = visit[p]
      BY <1>2, <1>4, <1>6 DEF SessionTypeOK, Held
    <2>2. UserFixed
      BY DEF SessionInv
    <2> SUFFICES ASSUME NEW p \in SessionRequests, visit'[p] # NoVisit, visit'[p].sid # 0
                 PROVE  /\ \A r \in SessionRequests :
                              (visit'[r] # NoVisit /\ visit'[r].sid = visit'[p].sid)
                              => visit'[r].data.user = visit'[p].data.user
                        /\ records'[visit'[p].sid] # Missing
                              => records'[visit'[p].sid].data.user = visit'[p].data.user
      BY DEF UserFixed
    <2> QED BY <2>1, <2>2, <1>5 DEF UserFixed
  <1> QED BY <1>6, <1>8, <1>9, <1>10 DEF SessionInv, VerifiedBefore

\* A handler that only changes its copy, and verifications that are as late as now.
LEMMA HandlerMoves ==
  ASSUME SessionInv, NEW q \in SessionRequests, NEW new \in {NoVisit} \cup Held,
         visit' = [visit EXCEPT ![q] = new],
         new # NoVisit =>
            /\ new.sid = 0 \/ /\ visit[q] # NoVisit /\ new.sid = visit[q].sid
                              /\ new.data.user = visit[q].data.user
            /\ new.at = "user" => new.data.user # Nobody
            /\ new.data.confirmed # Nobody => new.data.confirmedAt <= verified[new.data.confirmed],
         records' = records \/ records' = [s \in 1..MaxSid |-> IF s = visit[q].sid THEN Missing ELSE records[s]],
         password' \in [Users -> Nat],
         UNCHANGED <<sessionTime, visits, issued, verified, presented, signedOut, held>>
  PROVE  SessionInv'
  <1>1. /\ records \in [1..MaxSid -> {Missing} \cup Saved] /\ visits \in Nat
        /\ verified \in [Users -> Int]
        /\ \A u \in Users : verified[u] <= sessionTime
    BY DEF SessionInv, SessionTypeOK, VerifiedBefore
  <1>2. /\ records' \in [1..MaxSid -> {Missing} \cup Saved]
        /\ \A s \in 1..MaxSid : records'[s] = records[s] \/ records'[s] = Missing
    BY <1>1
  <1>3. /\ visits' \in Nat /\ verified' \in [Users -> Int]
        /\ \A u \in Users : verified[u] <= verified'[u] /\ verified'[u] <= sessionTime
    BY <1>1
  <1>4. new # NoVisit =>
            /\ new.sid = 0 \/ /\ visit[q] # NoVisit /\ new.sid = visit[q].sid
                              /\ new.data.user = visit[q].data.user
            /\ new.at = "user" => new.data.user # Nobody
            /\ new.data.confirmed # Nobody => new.data.confirmedAt <= verified'[new.data.confirmed]
    OBVIOUS
  <1> QED BY <1>2, <1>3, <1>4, CopyMoves

\* What a copy in hand says of its user and its confirmation.
LEMMA InHand ==
  ASSUME SessionInv, NEW q \in SessionRequests, visit[q].at \in {"loaded", "guest", "user"}
  PROVE  /\ visit[q] # NoVisit /\ visit[q] \in Held /\ visit[q].data \in Data
         /\ visit[q].sid \in 0..issued /\ Admissible(visit[q].sid, visit[q].data)
         /\ visit[q].data.user \in Users \cup {Nobody}
         /\ visit[q].at = "user" => visit[q].data.user \in Users
         /\ visit[q].data.confirmed # Nobody
                => visit[q].data.confirmedAt <= verified[visit[q].data.confirmed]
  <1>1. visit[q] # NoVisit
    BY CopyFacts
  <1>2. visit[q] \in Held /\ visit[q].data \in Data /\ visit[q].sid \in 0..MaxSid
    BY <1>1, CopyFacts DEF SessionInv, SessionTypeOK
  <1>3. visit[q].data.user \in Users \cup {Nobody}
    BY <1>2 DEF Data
  <1>4. Admissible(visit[q].sid, visit[q].data) /\ (visit[q].at = "user" => visit[q].data.user # Nobody)
    BY <1>1 DEF SessionInv, CopiesFit
  <1>5. visit[q].sid \in 0..issued
    BY <1>2, <1>4, SessionConstants DEF Admissible, SessionInv, SessionTypeOK
  <1> QED BY <1>1, <1>2, <1>3, <1>4, <1>5 DEF Admissible

\* What the handlers make of a session's data is data; only a sign-in changes the user.
LEMMA DataUpdates ==
  ASSUME NEW d \in Data, NEW u \in Users, NEW t \in Nat, NEW n \in Nat
  PROVE  /\ [d EXCEPT !.user = u, !.authAt = t, !.stamp = n] \in Data
         /\ [d EXCEPT !.stamp = n] \in Data
         /\ [d EXCEPT !.confirmed = u, !.confirmedAt = t] \in Data
         /\ [d EXCEPT !.confirmed = Nobody, !.confirmedAt = 0] \in Data
  <1>0. t \in Int
    OBVIOUS
  <1>1. \A a \in Int : [d EXCEPT !.user = u, !.authAt = a, !.stamp = n] \in Data
    BY DEF Data
  <1>2. [d EXCEPT !.stamp = n] \in Data
    BY DEF Data
  <1>3. [d EXCEPT !.confirmed = u, !.confirmedAt = t] \in Data
    BY DEF Data
  <1>4. [d EXCEPT !.confirmed = Nobody, !.confirmedAt = 0] \in Data
    BY DEF Data
  <1> QED BY <1>0, <1>1, <1>2, <1>3, <1>4

\* Signing in and cycling: the row of the old id goes, the data waits for a new one.
LEMMA CycleKeeps ==
  ASSUME SessionInv, NEW q \in SessionRequests, NEW d \in Data, NEW at \in {"guest", "user"},
         visit[q].at \in {"guest", "user"}, Cycle(q, d, at), at = "user" => d.user # Nobody,
         d.confirmed # Nobody => d.confirmedAt <= verified[d.confirmed]
  PROVE  SessionInv'
  <1> DEFINE v == [Touched(visit[q], d) EXCEPT !.at = at, !.sid = 0]
  <1>1. visit[q] \in Held
    BY InHand
  <1>2. v \in Held
    BY <1>1, CopyUpdates
  <1>3. v.sid = 0 /\ v.at = at /\ v.data = d
    BY <1>1 DEF Touched, Held
  <1>4. /\ visit' = [visit EXCEPT ![q] = v]
        /\ records' = [s \in 1..MaxSid |-> IF s = visit[q].sid THEN Missing ELSE records[s]]
        /\ password' \in [Users -> Nat]
        /\ UNCHANGED <<sessionTime, visits, issued, verified, presented, signedOut, held>>
    BY DEF Cycle, SessionInv, SessionTypeOK
  <1> HIDE DEF v
  <1> QED BY <1>2, <1>3, <1>4, HandlerMoves

\* A handler changes the data of its copy, of the same user.
LEMMA TouchKeeps ==
  ASSUME SessionInv, NEW q \in SessionRequests, NEW d \in Data,
         visit[q].at \in {"guest", "user"}, visit' = [visit EXCEPT ![q] = Touched(@, d)],
         d.user = visit[q].data.user,
         d.confirmed # Nobody => d.confirmedAt <= verified[d.confirmed],
         password' \in [Users -> Nat],
         UNCHANGED <<sessionTime, visits, records, issued, verified, presented, signedOut, held>>
  PROVE  SessionInv'
  <1> DEFINE v == Touched(visit[q], d)
  <1>1. visit[q] \in Held /\ visit[q] # NoVisit
        /\ (visit[q].at = "user" => visit[q].data.user \in Users)
    BY InHand
  <1>2. v \in Held
    BY <1>1, CopyUpdates
  <1>3. v.sid = visit[q].sid /\ v.at = visit[q].at /\ v.data = d
    BY <1>1 DEF Touched, Held
  <1>4. visit' = [visit EXCEPT ![q] = v]
    OBVIOUS
  <1> HIDE DEF v
  <1> QED BY <1>1, <1>2, <1>3, <1>4, HandlerMoves, SessionConstants

\* load_user leaves the request with its session's user and confirmation.
LEMMA GoesOnKeeps ==
  ASSUME SessionInv, NEW q \in SessionRequests, visit[q].at = "loaded",
         NEW at \in {"guest", "user"}, NEW e \in Data,
         e.user = visit[q].data.user, at = "user" => e.user # Nobody,
         e.confirmed = visit[q].data.confirmed, e.confirmedAt = visit[q].data.confirmedAt,
         visit' = [visit EXCEPT ![q] = GoesOn(visit[q], at, e)],
         UNCHANGED <<sessionTime, visits, issued, password, verified, presented,
                     records, signedOut, held>>
  PROVE  SessionInv'
  <1> DEFINE d == visit[q].data
             v == GoesOn(visit[q], at, e)
  <1>1. /\ visit[q] # NoVisit /\ visit[q] \in Held /\ d \in Data
        /\ d.confirmed # Nobody => d.confirmedAt <= verified[d.confirmed]
    BY InHand
  <1>2. v \in Held
    <2>1. CASE e = d
      BY <1>1, <2>1 DEF GoesOn, Held
    <2>2. CASE e # d
      BY <1>1, <2>2 DEF GoesOn, Held
    <2> QED BY <2>1, <2>2
  <1>3. v.sid = visit[q].sid /\ v.at = at /\ v.data = e
    BY <1>1 DEF Held, GoesOn
  <1>4. password' \in [Users -> Nat]
    BY DEF SessionInv, SessionTypeOK
  <1> HIDE DEF v
  <1>5. /\ v.sid = visit[q].sid /\ v.data.user = visit[q].data.user
        /\ v.at = "user" => v.data.user # Nobody
        /\ v.data.confirmed # Nobody => v.data.confirmedAt <= verified[v.data.confirmed]
    BY <1>1, <1>3
  <1>6. visit' = [visit EXCEPT ![q] = v]
    BY DEF v
  <1> QED BY <1>1, <1>2, <1>4, <1>5, <1>6, HandlerMoves

\* load_user: the session is flushed, or the request goes on as a guest or as its user.
LEMMA LoadUserKeeps ==
  ASSUME SessionInv, NEW q \in SessionRequests, LoadUser(q)
  PROVE  SessionInv'
  <1> DEFINE d == visit[q].data
  <1>1. /\ visit[q].at = "loaded"
        /\ UNCHANGED <<sessionTime, visits, issued, password, verified, presented>>
    BY DEF LoadUser
  <1>2. /\ visit[q] # NoVisit /\ visit[q] \in Held /\ d \in Data
        /\ d.user \in Users \cup {Nobody}
    BY <1>1, InHand
  <1>3. sessionTime \in Int /\ (d.user # Nobody => password[d.user] \in Nat)
    BY <1>2 DEF SessionInv, SessionTypeOK
  <1>4. /\ Dated(d) \in Data /\ Dated(d).user = d.user /\ Dated(d).confirmed = d.confirmed
        /\ Dated(d).confirmedAt = d.confirmedAt
    BY <1>2, <1>3 DEF Dated, Data
  <1>5. d.user # Nobody =>
        /\ Bound(d) \in Data /\ Bound(d).user = d.user /\ Bound(d).confirmed = d.confirmed
        /\ Bound(d).confirmedAt = d.confirmedAt
    BY <1>3, <1>4 DEF Bound, Data
  <1>6. CASE Flush(q)
    BY <1>1, <1>2, <1>6, FlushKeeps
  <1>7. CASE ~Flush(q)
    <2>1. /\ UNCHANGED <<records, signedOut, held>>
          /\ \/ visit' = [visit EXCEPT ![q] = GoesOn(@, "guest", d)]
             \/ d.user # Nobody /\ visit' = [visit EXCEPT ![q] = GoesOn(@, "user", Bound(d))]
             \/ visit' = [visit EXCEPT ![q] = GoesOn(@, "guest", Dated(d))]
      BY <1>7 DEF LoadUser
    <2> HIDE DEF d
    <2>2. CASE visit' = [visit EXCEPT ![q] = GoesOn(@, "guest", d)]
      BY <1>1, <1>2, <2>1, <2>2, GoesOnKeeps DEF d
    <2>3. CASE d.user # Nobody /\ visit' = [visit EXCEPT ![q] = GoesOn(@, "user", Bound(d))]
      BY <1>1, <1>5, <2>1, <2>3, GoesOnKeeps DEF d
    <2>4. CASE visit' = [visit EXCEPT ![q] = GoesOn(@, "guest", Dated(d))]
      BY <1>1, <1>4, <2>1, <2>4, GoesOnKeeps DEF d
    <2> QED BY <2>1, <2>2, <2>3, <2>4
  <1> QED BY <1>6, <1>7

\* The password is proved now: the confirmation and the history move together.
LEMMA VerifiedKeeps ==
  ASSUME SessionInv, NEW q \in SessionRequests, RecordVerified(q)
  PROVE  SessionInv'
  <1> DEFINE u == visit[q].data.user
             d == [visit[q].data EXCEPT !.confirmed = u, !.confirmedAt = sessionTime]
             v == Touched(visit[q], d)
  <1>1. /\ visit[q].at = "user" /\ visit' = [visit EXCEPT ![q] = v]
        /\ verified' = [verified EXCEPT ![u] = sessionTime]
        /\ UNCHANGED <<sessionTime, visits, records, issued, password, signedOut, held, presented>>
    BY DEF RecordVerified, Working
  <1>2. visit[q] # NoVisit /\ visit[q] \in Held /\ visit[q].data \in Data /\ u \in Users
    BY <1>1, InHand
  <1>3. /\ sessionTime \in Nat /\ verified \in [Users -> Int] /\ visits' \in Nat
        /\ records' \in [1..MaxSid -> {Missing} \cup Saved] /\ password' \in [Users -> Nat]
        /\ \A w \in Users : verified[w] <= sessionTime
    BY <1>1 DEF SessionInv, SessionTypeOK, VerifiedBefore
  <1>4. d \in Data
    BY <1>2, <1>3, DataUpdates
  <1>5. d.user = u /\ d.confirmed = u /\ d.confirmedAt = sessionTime
    BY <1>2 DEF Data
  <1> HIDE DEF d
  <1>6. v \in Held
    BY <1>2, <1>4, CopyUpdates
  <1>7. v.sid = visit[q].sid /\ v.at = "user" /\ v.data = d
    BY <1>1, <1>2 DEF Touched, Held
  <1>8. /\ verified' \in [Users -> Int] /\ verified'[u] = sessionTime
        /\ \A w \in Users : verified[w] <= verified'[w] /\ verified'[w] <= sessionTime
    BY <1>1, <1>2, <1>3
  <1>9. /\ v.sid = visit[q].sid /\ v.data.user = visit[q].data.user
        /\ v.data.user # Nobody
        /\ v.data.confirmed # Nobody => v.data.confirmedAt <= verified'[v.data.confirmed]
    BY <1>2, <1>3, <1>5, <1>7, <1>8, SessionConstants
  <1>10. \A s \in 1..MaxSid : records'[s] = records[s]
    BY <1>1
  <1> HIDE DEF v, u
  <1> QED BY <1>1, <1>2, <1>3, <1>6, <1>8, <1>9, <1>10, CopyMoves

\* A save writes the copy under its own id, which fits it, or under an id nobody has.
LEMMA SaveKeeps ==
  ASSUME SessionInv, NEW q \in SessionRequests, NEW s \in 1..MaxSid,
         visit[q].at \in {"guest", "user"},
         visit' = [visit EXCEPT ![q] = NoVisit],
         records' = [records EXCEPT ![s] = Stored(visit[q].data)],
         \/ s = visit[q].sid /\ issued' = issued
         \/ visit[q].sid = 0 /\ s = issued + 1 /\ issued' = s,
         UNCHANGED <<sessionTime, visits, password, signedOut, held, verified, presented>>
  PROVE  SessionInv'
  <1> USE SessionConstants, CopyFacts
  <1> DEFINE d == visit[q].data
  <1>1. /\ visit[q] # NoVisit /\ d \in Data /\ Admissible(visit[q].sid, d)
    BY InHand
  <1>2. /\ issued \in Nat /\ issued <= issued' /\ issued' \in 0..MaxSid /\ s <= issued'
        /\ presented \subseteq 1..issued /\ signedOut \subseteq 1..issued
    BY <1>1 DEF SessionInv, SessionTypeOK, Admissible
  <1>3. /\ presented \subseteq 1..issued' /\ signedOut \subseteq 1..issued'
    BY <1>2
  <1>4. /\ records' \in [1..MaxSid -> {Missing} \cup Saved]
        /\ records'[s] = Stored(d) /\ \A t \in 1..MaxSid : t # s => records'[t] = records[t]
    BY <1>1 DEF SessionInv, SessionTypeOK
  <1>5. \A p \in SessionRequests : visit'[p] # NoVisit => p # q /\ visit'[p] = visit[p] /\ visit[p] # NoVisit
    BY DEF SessionInv, SessionTypeOK
  <1>6. SessionTypeOK'
    <2>1. visit' \in [SessionRequests -> {NoVisit} \cup Held]
      BY DEF SessionInv, SessionTypeOK
    <2> QED BY <1>2, <1>3, <1>4, <2>1 DEF SessionInv, SessionTypeOK
  <1>7. /\ s \in presented => d.user = Nobody
        /\ s \notin signedOut \ held
        /\ d.confirmed # Nobody => d.confirmedAt <= verified[d.confirmed]
    BY <1>1, <1>2 DEF Admissible
  <1>8. RecordsFit'
    <2> SUFFICES ASSUME NEW t \in 1..MaxSid, records'[t] # Missing
                 PROVE  Admissible(t, records[t].data)'
      BY DEF RecordsFit
    <2>1. CASE t = s
      BY <2>1, <1>1, <1>2, <1>4, <1>7 DEF Admissible
    <2>2. CASE t # s
      <3>1. records'[t] = records[t] /\ Admissible(t, records[t].data)
        BY <2>2, <1>4 DEF SessionInv, RecordsFit
      <3> QED BY <3>1, <1>2 DEF Admissible
    <2> QED BY <2>1, <2>2
  <1>9. CopiesFit'
    <2> SUFFICES ASSUME NEW p \in SessionRequests, visit'[p] # NoVisit
                 PROVE  /\ Admissible(visit[p].sid, visit[p].data)'
                        /\ visit'[p].at = "user" => visit'[p].data.user # Nobody
      BY DEF CopiesFit
    <2>1. /\ visit'[p] = visit[p] /\ Admissible(visit[p].sid, visit[p].data)
          /\ visit[p].sid \in 0..MaxSid
          /\ visit[p].at = "user" => visit[p].data.user # Nobody
      BY <1>5 DEF SessionInv, SessionTypeOK, CopiesFit
    <2>2. Admissible(visit[p].sid, visit[p].data)'
      BY <2>1, <1>2 DEF Admissible
    <2> QED BY <2>1, <2>2
  <1>10. UserFixed'
    <2> SUFFICES ASSUME NEW p \in SessionRequests, visit'[p] # NoVisit, visit'[p].sid # 0
                 PROVE  /\ \A r \in SessionRequests :
                              (visit'[r] # NoVisit /\ visit'[r].sid = visit'[p].sid)
                              => visit'[r].data.user = visit'[p].data.user
                        /\ records'[visit'[p].sid] # Missing
                              => records'[visit'[p].sid].data.user = visit'[p].data.user
      BY DEF UserFixed
    <2>1. UserFixed /\ visit'[p] = visit[p] /\ visit[p] # NoVisit
      BY <1>5 DEF SessionInv
    <2>2. visit[p].sid \in 1..MaxSid /\ visit[p].sid <= issued
      BY <2>1 DEF SessionInv, SessionTypeOK, CopiesFit, Admissible
    <2>3. \A r \in SessionRequests :
              (visit'[r] # NoVisit /\ visit'[r].sid = visit'[p].sid)
              => visit'[r].data.user = visit'[p].data.user
      BY <2>1, <1>5 DEF UserFixed
    <2>4. records'[visit'[p].sid] # Missing
              => records'[visit'[p].sid].data.user = visit'[p].data.user
      <3>1. CASE visit[p].sid = s
        <4>1. visit[q].sid = visit[p].sid /\ visit[q].sid # 0
          BY <3>1, <2>2, <1>2
        <4>2. d.user = visit[p].data.user
          BY <4>1, <2>1, <1>1 DEF UserFixed
        <4> QED BY <4>2, <3>1, <2>1, <1>1, <1>4
      <3>2. CASE visit[p].sid # s
        BY <3>2, <2>1, <2>2, <1>4 DEF UserFixed
      <3> QED BY <3>1, <3>2
    <2> QED BY <2>3, <2>4
  <1> QED BY <1>6, <1>8, <1>9, <1>10 DEF SessionInv, VerifiedBefore

\* The response is made or the request is lost.
LEMMA EndKeeps ==
  ASSUME SessionInv, NEW q \in SessionRequests, Respond(q) \/ DropRequest(q)
  PROVE  SessionInv'
  <1> USE SessionConstants
  <1>1. visit' = [visit EXCEPT ![q] = NoVisit]
        /\ UNCHANGED <<sessionTime, visits, password, signedOut, held, verified, presented>>
    BY DEF Respond, DropRequest
  <1>2. CASE UNCHANGED <<records, issued>>
    <2>1. password' \in [Users -> Nat]
      BY <1>1 DEF SessionInv, SessionTypeOK
    <2> QED BY <1>1, <1>2, <2>1, HandlerMoves
  <1>3. CASE ~UNCHANGED <<records, issued>>
    <2>1. Respond(q)
      BY <1>3 DEF DropRequest
    <2>2. visit[q].at \in {"guest", "user"} /\ visit[q].sid \in 0..issued
      BY <2>1, InHand DEF Respond
    <2>3. issued \in 0..MaxSid
      BY DEF SessionInv, SessionTypeOK
    <2>4. CASE visit[q].sid # 0
      <3>1. visit[q].sid \in 1..MaxSid
        BY <2>2, <2>3, <2>4
      <3>2. issued' = issued /\ records' = [records EXCEPT ![visit[q].sid] = Stored(visit[q].data)]
        BY <1>3, <2>1, <2>4 DEF Respond
      <3> QED BY <1>1, <2>2, <3>1, <3>2, SaveKeeps
    <2>5. CASE visit[q].sid = 0
      <3>1. /\ issued < MaxSid /\ issued' = issued + 1
            /\ records' = [records EXCEPT ![issued + 1] = Stored(visit[q].data)]
        BY <1>3, <2>1, <2>5 DEF Respond
      <3>2. issued + 1 \in 1..MaxSid
        BY <2>3, <3>1
      <3> QED BY <1>1, <2>2, <2>5, <3>1, <3>2, SaveKeeps
    <2> QED BY <2>4, <2>5
  <1> QED BY <1>2, <1>3

\* Rows may go, and time may pass, at any moment.
LEMMA OutsideKeeps ==
  ASSUME SessionInv, SessionTick \/ \E sid \in 1..MaxSid : SweepExpired(sid)
  PROVE  SessionInv'
  <1> USE CopyFacts
  <1>1. /\ sessionTime' \in Nat /\ sessionTime <= sessionTime'
        /\ UNCHANGED <<visits, issued, password, visit, signedOut, held, verified, presented>>
    BY DEF SessionTick, SweepExpired, SessionInv, SessionTypeOK
  <1>2. /\ records' \in [1..MaxSid -> {Missing} \cup Saved]
        /\ \A s \in 1..MaxSid : records'[s] # Missing => records'[s] = records[s]
    BY DEF SessionTick, SweepExpired, SessionInv, SessionTypeOK
  <1>3. SessionTypeOK'
    BY <1>1, <1>2 DEF SessionInv, SessionTypeOK
  <1>4. VerifiedBefore'
    BY <1>1 DEF SessionInv, SessionTypeOK, VerifiedBefore
  <1>5. RecordsFit'
    BY <1>1, <1>2 DEF SessionInv, RecordsFit, Admissible
  <1>6. CopiesFit'
    BY <1>1 DEF SessionInv, CopiesFit, Admissible
  <1>7. UserFixed'
    <2>1. \A q \in SessionRequests : (visit[q] # NoVisit /\ visit[q].sid # 0) => visit[q].sid \in 1..MaxSid
      BY DEF SessionInv, SessionTypeOK
    <2> QED BY <1>1, <1>2, <2>1 DEF SessionInv, UserFixed
  <1> QED BY <1>3, <1>4, <1>5, <1>6, <1>7 DEF SessionInv

LEMMA SessionInvStep == SessionInv /\ [SessionNext]_sessionVars => SessionInv'
  <1> SUFFICES ASSUME SessionInv, [SessionNext]_sessionVars PROVE SessionInv'
    OBVIOUS
  <1>0. /\ sessionTime \in Nat /\ password \in [Users -> Nat]
    BY DEF SessionInv, SessionTypeOK
  <1>1. ASSUME NEW q \in SessionRequests, NEW sid \in 0..MaxSid, LoadSession(q, sid)
        PROVE  SessionInv'
    BY <1>1, LoadKeeps
  <1>2. ASSUME NEW q \in SessionRequests, LoadUser(q) PROVE SessionInv'
    BY <1>2, LoadUserKeeps
  <1>3. ASSUME NEW q \in SessionRequests, Logout(q) PROVE SessionInv'
    BY <1>3, FlushKeeps, InHand DEF Logout
  <1>4. ASSUME NEW q \in SessionRequests, ChangePassword(q) PROVE SessionInv'
    <2> DEFINE e == visit[q].data
               d == [e EXCEPT !.stamp = password[e.user] + 1]
    <2>1. /\ visit[q].at = "user" /\ visit' = [visit EXCEPT ![q] = Touched(@, d)]
          /\ password' = [password EXCEPT ![e.user] = @ + 1]
          /\ UNCHANGED <<sessionTime, visits, records, issued, verified, presented, signedOut, held>>
      BY <1>4 DEF ChangePassword, Working
    <2>2. /\ e \in Data /\ e.user \in Users
          /\ e.confirmed # Nobody => e.confirmedAt <= verified[e.confirmed]
      BY <2>1, InHand
    <2>3. password[e.user] + 1 \in Nat /\ password' \in [Users -> Nat]
      BY <1>0, <2>1, <2>2
    <2>4. d \in Data
      BY <2>2, <2>3, DataUpdates
    <2>5. d.user = e.user /\ d.confirmed = e.confirmed /\ d.confirmedAt = e.confirmedAt
      BY <2>2 DEF Data
    <2> HIDE DEF d
    <2> QED BY <2>1, <2>2, <2>3, <2>4, <2>5, TouchKeeps
  <1>5. ASSUME NEW q \in SessionRequests, RecordVerified(q) PROVE SessionInv'
    BY <1>5, VerifiedKeeps
  <1>6. ASSUME NEW q \in SessionRequests, Regenerate(q) PROVE SessionInv'
    <2>1. visit[q].at \in {"guest", "user"} /\ Cycle(q, visit[q].data, visit[q].at)
      BY <1>6 DEF Regenerate, Working
    <2> QED BY <2>1, InHand, CycleKeeps, SessionConstants
  <1>7. ASSUME NEW q \in SessionRequests, ForgetConfirmed(q) PROVE SessionInv'
    <2> DEFINE e == visit[q].data
               d == [e EXCEPT !.confirmed = Nobody, !.confirmedAt = 0]
    <2>1. /\ visit[q].at \in {"guest", "user"} /\ visit' = [visit EXCEPT ![q] = Touched(@, d)]
          /\ UNCHANGED <<sessionTime, visits, records, issued, password, verified, presented, signedOut, held>>
      BY <1>7 DEF ForgetConfirmed, Working
    <2>2. e \in Data
      BY <2>1, InHand
    <2>3. d \in Data /\ d.user = e.user /\ d.confirmed = Nobody
      BY <2>2 DEF Data
    <2> HIDE DEF d
    <2> QED BY <1>0, <2>1, <2>3, TouchKeeps
  <1>8. ASSUME NEW q \in SessionRequests, ToggleFlash(q) PROVE SessionInv'
    <2> DEFINE e == visit[q].data
               d == Flashed(e)
    <2>1. /\ visit[q].at \in {"guest", "user"} /\ visit' = [visit EXCEPT ![q] = Touched(@, d)]
          /\ UNCHANGED <<sessionTime, visits, records, issued, password, verified, presented, signedOut, held>>
      BY <1>8 DEF ToggleFlash, Working
    <2>2. e \in Data /\ (e.confirmed # Nobody => e.confirmedAt <= verified[e.confirmed])
      BY <2>1, InHand
    <2>3. d \in Data
      BY <2>2 DEF Flashed, Data
    <2>4. d.user = e.user /\ d.confirmed = e.confirmed /\ d.confirmedAt = e.confirmedAt
      BY <2>2 DEF Flashed, Data
    <2> HIDE DEF d
    <2> QED BY <1>0, <2>1, <2>2, <2>3, <2>4, TouchKeeps
  <1>9. ASSUME NEW q \in SessionRequests, Respond(q) \/ DropRequest(q) PROVE SessionInv'
    BY <1>9, EndKeeps
  <1>10. ASSUME NEW q \in SessionRequests, NEW u \in Users, Login(q, u) PROVE SessionInv'
    <2> DEFINE e == visit[q].data
               d == SignedIn(e, u)
    <2>1. visit[q].at \in {"guest", "user"} /\ Cycle(q, d, "user")
      BY <1>10 DEF Login, Working
    <2>2. e \in Data /\ (e.confirmed # Nobody => e.confirmedAt <= verified[e.confirmed])
      BY <2>1, InHand
    <2>3. password[u] \in Nat
      BY <1>0
    <2>4. d \in Data
      <3> DEFINE n == IF password[u] = 0 THEN e.stamp ELSE password[u]
      <3>1. n \in Nat
        BY <2>2, <2>3 DEF Data
      <3>2. d = [e EXCEPT !.user = u, !.authAt = sessionTime, !.stamp = n]
        BY <2>2 DEF SignedIn, Data
      <3> HIDE DEF n, d
      <3> QED BY <1>0, <2>2, <3>1, <3>2, DataUpdates
    <2>5. d.user = u /\ d.confirmed = e.confirmed /\ d.confirmedAt = e.confirmedAt
      BY <2>2 DEF SignedIn, Data
    <2> HIDE DEF d
    <2>6. d.user # Nobody
      BY <2>5, SessionConstants
    <2> QED BY <2>1, <2>2, <2>4, <2>5, <2>6, CycleKeeps
  <1>11. CASE SessionTick \/ \E sid \in 1..MaxSid : SweepExpired(sid)
    BY <1>11, OutsideKeeps
  <1>12. CASE UNCHANGED sessionVars
    BY <1>12 DEF sessionVars, SessionInv, SessionTypeOK, VerifiedBefore, RecordsFit, CopiesFit,
                 UserFixed, Admissible
  <1> QED BY <1>1, <1>2, <1>3, <1>4, <1>5, <1>6, <1>7, <1>8, <1>9, <1>10, <1>11, <1>12 DEF SessionNext

\* The histories name ids of the table.
LEMMA IdsInTable == SessionInv => presented \subseteq 1..MaxSid /\ signedOut \subseteq 1..MaxSid
  <1>1. SessionInv => issued \in 0..MaxSid /\ presented \subseteq 1..issued /\ signedOut \subseteq 1..issued
    BY DEF SessionInv, SessionTypeOK
  <1> QED BY <1>1, SessionConstants

\* The invariant of the table and of the copies in hand.
THEOREM SessionInvariant == SessionSpec => []SessionInv
  BY SessionInvInit, SessionInvStep, PTL DEF SessionSpec

\* An id that was presented by somebody not signed in never carries a sign-in.
THEOREM NoFixationCorrect == SessionSpec => []NoFixation
<1>1. SessionInv => NoFixation
  BY IdsInTable DEF SessionInv, RecordsFit, Admissible, NoFixation
<1> QED BY SessionInvariant, <1>1, PTL

\* A session that was signed out stays out, unless another request held a copy.
THEOREM SignedOutCorrect == SessionSpec => []SignedOutStays
<1>1. SessionInv => SignedOutStays
  BY IdsInTable DEF SessionInv, RecordsFit, Admissible, SignedOutStays
<1> QED BY SessionInvariant, <1>1, PTL

\* Whoever is let past a confirmation typed the password within the window.
THEOREM FreshCorrect == SessionSpec => []FreshMeansVerified
<1>1. SessionInv => FreshMeansVerified
  <2> SUFFICES ASSUME SessionInv, NEW q \in SessionRequests, visit[q].at = "user",
                      IsFresh(visit[q].data, visit[q].data.user, sessionTime)
               PROVE  /\ verified[visit[q].data.user] >= 0
                      /\ sessionTime - verified[visit[q].data.user] < ConfirmWindow
    BY DEF FreshMeansVerified
  <2> DEFINE u == visit[q].data.user
             t == visit[q].data.confirmedAt
  <2>1. u \in Users /\ visit[q].data \in Data /\ visit[q].data.confirmed = u
        /\ sessionTime - t \in 0..(ConfirmWindow - 1)
    BY InHand DEF IsFresh
  <2>2. u # Nobody /\ t \in Nat
    BY <2>1, SessionConstants DEF Data
  <2>3. t <= verified[u]
    BY <2>1, <2>2, InHand
  <2>4. sessionTime \in Nat /\ verified[u] \in Int
    BY <2>1 DEF SessionInv, SessionTypeOK
  <2> HIDE DEF u, t
  <2>5. verified[u] >= 0 /\ sessionTime - verified[u] < ConfirmWindow
    BY <2>1, <2>2, <2>3, <2>4, SessionConstants
  <2> QED BY <2>5 DEF u
<1> QED BY SessionInvariant, <1>1, PTL

(***************************************************************************)
(* API tokens                                                              *)
(***************************************************************************)
Rows == [absent : {FALSE}, secret : Nat, owner : Owners, expires : Nat]

Trying(c) == issuing[c].at = "try"

TokenTypeOK ==
    /\ tokenTime \in Nat /\ secrets \in Nat
    /\ tokens \in [TokenIds -> {NoRow} \cup Rows]
    /\ issuing \in [Issuers -> [at : {"idle"}] \cup [at : {"try"}, attempts : Nat, row : Rows]]
    /\ plaintexts \subseteq [id : TokenIds, row : Rows]
    /\ cut \subseteq Nat

\* Secrets in use were drawn.
Drawn ==
    /\ \A i \in TokenIds : tokens[i] # NoRow => tokens[i].secret <= secrets
    /\ \A c \in Issuers : Trying(c) => issuing[c].row.secret <= secrets
    /\ \A p \in plaintexts : p.row.secret <= secrets
    /\ \A s \in cut : s <= secrets

\* No two rows share a secret, and no row has one that was revoked.
RowsApart ==
    /\ \A i, j \in TokenIds :
        (tokens[i] # NoRow /\ tokens[j] # NoRow /\ tokens[i].secret = tokens[j].secret) => i = j
    /\ \A i \in TokenIds : tokens[i] # NoRow => tokens[i].secret \notin cut

\* The secret of a call that is still trying is nobody else's.
CallsApart ==
    \A c \in Issuers : Trying(c) =>
        /\ \A d \in Issuers : (Trying(d) /\ issuing[d].row.secret = issuing[c].row.secret) => d = c
        /\ \A i \in TokenIds : tokens[i] # NoRow => tokens[i].secret # issuing[c].row.secret
        /\ \A p \in plaintexts : p.row.secret # issuing[c].row.secret
        /\ issuing[c].row.secret \notin cut

\* The row of a plaintext is there until it expires or is revoked, and nothing else
\* is ever found under the plaintext's id and secret.
RowStands ==
    \A p \in plaintexts :
        /\ tokens[p.id] = p.row \/ p.row.secret \in cut \/ p.row.expires <= tokenTime
        /\ \A i \in TokenIds : (tokens[i] # NoRow /\ tokens[i].secret = p.row.secret)
                               => i = p.id /\ tokens[i] = p.row

TokenInv == TokenTypeOK /\ Drawn /\ RowsApart /\ CallsApart /\ RowStands
-----------------------------------------------------------------------------
LEMMA RowFacts == /\ NoRow \notin Rows
                  /\ \A b \in Rows : b # NoRow /\ b.secret \in Nat /\ b.expires \in Nat /\ b.owner \in Owners
  <1>1. \A b \in Rows : b.secret \in Nat /\ b.expires \in Nat /\ b.owner \in Owners
    BY DEF Rows
  <1>2. DOMAIN NoRow = {"absent"}
    BY DEF NoRow
  <1>3. \A b \in Rows : "secret" \in DOMAIN b
    BY DEF Rows
  <1>4. "secret" \notin {"absent"}
    OBVIOUS
  <1>5. \A b \in Rows : b # NoRow
    BY <1>2, <1>3, <1>4
  <1>6. QED
    BY <1>1, <1>5

LEMMA TokenInitInv == TokenInit => TokenInv
  <1> SUFFICES ASSUME TokenInit PROVE TokenInv
    OBVIOUS
  <1>1. TokenTypeOK
    <2>1. tokens \in [TokenIds -> {NoRow} \cup Rows]
      BY DEF TokenInit
    <2>2. issuing \in [Issuers -> [at : {"idle"}] \cup [at : {"try"}, attempts : Nat, row : Rows]]
      BY DEF TokenInit
    <2>3. plaintexts \subseteq [id : TokenIds, row : Rows] /\ cut \subseteq Nat
      BY DEF TokenInit
    <2>4. tokenTime \in Nat /\ secrets \in Nat
      BY DEF TokenInit
    <2>5. QED
      BY <2>1, <2>2, <2>3, <2>4 DEF TokenTypeOK
  <1>2. /\ \A i \in TokenIds : tokens[i] = NoRow
        /\ \A c \in Issuers : ~Trying(c)
        /\ plaintexts = {} /\ cut = {}
    BY DEF TokenInit, Trying
  <1>3. Drawn /\ RowsApart /\ CallsApart /\ RowStands
    BY <1>2 DEF Drawn, RowsApart, CallsApart, RowStands
  <1>4. QED
    BY <1>1, <1>3 DEF TokenInv

\* A new call with the next secret.
LEMMA AskKeeps ==
  ASSUME TokenInv, NEW c \in Issuers, NEW o \in Owners, NEW e \in Nat, AskToken(c, o, e)
  PROVE  TokenInv'
  <1> DEFINE new == TokenRow(secrets + 1, o, e)
  <1>0. /\ secrets' = secrets + 1 /\ secrets \in Nat
        /\ issuing' = [issuing EXCEPT ![c] = [at |-> "try", attempts |-> 0, row |-> new]]
        /\ UNCHANGED <<tokenTime, tokens, plaintexts, cut>>
    BY DEF AskToken, TokenInv, TokenTypeOK
  <1>1. new \in Rows /\ new.secret = secrets + 1
    BY <1>0 DEF TokenRow, Rows
  <1> HIDE DEF new
  <1>2. TokenTypeOK'
    BY <1>0, <1>1 DEF TokenInv, TokenTypeOK
  <1>3. /\ Trying(c)' /\ issuing'[c].row = new
        /\ \A d \in Issuers : d # c => issuing'[d] = issuing[d]
    BY <1>0 DEF TokenInv, TokenTypeOK, Trying
  <1>4. \A d \in Issuers : Trying(d) => issuing[d].row.secret \in Nat
    BY RowFacts DEF TokenInv, TokenTypeOK, Trying
  <1>5. /\ \A i \in TokenIds : tokens[i] # NoRow => tokens[i].secret \in Nat
        /\ \A p \in plaintexts : p.row.secret \in Nat
        /\ cut \subseteq Nat
    BY RowFacts DEF TokenInv, TokenTypeOK
  <1>6. Drawn'
    BY <1>0, <1>1, <1>3, <1>4, <1>5 DEF TokenInv, Drawn, Trying
  <1>7. CallsApart'
    <2> SUFFICES ASSUME NEW d \in Issuers, Trying(d)'
                 PROVE  /\ \A f \in Issuers : (Trying(f)' /\ issuing'[f].row.secret = issuing'[d].row.secret) => f = d
                        /\ \A i \in TokenIds : tokens[i] # NoRow => tokens[i].secret # issuing'[d].row.secret
                        /\ \A p \in plaintexts : p.row.secret # issuing'[d].row.secret
                        /\ issuing'[d].row.secret \notin cut
      BY <1>0 DEF CallsApart
    <2>1. CASE d = c
      BY <2>1, <1>0, <1>1, <1>3, <1>4, <1>5 DEF TokenInv, Drawn, Trying
    <2>2. CASE d # c
      BY <2>2, <1>0, <1>1, <1>3, <1>4, <1>5 DEF TokenInv, Drawn, CallsApart, Trying
    <2> QED BY <2>1, <2>2
  <1>8. RowsApart' /\ RowStands'
    BY <1>0 DEF TokenInv, RowsApart, RowStands
  <1> QED BY <1>2, <1>6, <1>7, <1>8 DEF TokenInv

\* A call that ends, or goes on trying with the same row, disturbs nothing.
LEMMA CallMoves ==
  ASSUME TokenInv, NEW c \in Issuers, NEW next, Trying(c),
         next \in [at : {"idle"}] \/ (next \in [at : {"try"}, attempts : Nat, row : Rows] /\ next.row = issuing[c].row),
         issuing' = [issuing EXCEPT ![c] = next],
         UNCHANGED <<tokenTime, tokens, secrets, plaintexts, cut>>
  PROVE  TokenInv'
  <1>1. TokenTypeOK'
    BY DEF TokenInv, TokenTypeOK
  <1>2. /\ \A d \in Issuers : Trying(d)' => Trying(d) /\ issuing'[d].row = issuing[d].row
    BY DEF TokenInv, TokenTypeOK, Trying
  <1>3. Drawn'
    BY <1>2 DEF TokenInv, Drawn
  <1>4. CallsApart'
    BY <1>2 DEF TokenInv, CallsApart
  <1>5. RowsApart' /\ RowStands'
    BY DEF TokenInv, RowsApart, RowStands
  <1> QED BY <1>1, <1>3, <1>4, <1>5 DEF TokenInv

\* A call writes its row under a free id, and its answer is given or lost.
LEMMA InsertKeeps ==
  ASSUME TokenInv, NEW c \in Issuers, NEW id \in TokenIds, Trying(c), tokens[id] = NoRow,
         tokens' = [tokens EXCEPT ![id] = issuing[c].row],
         issuing' = [issuing EXCEPT ![c] = [at |-> "idle"]],
         plaintexts' = plaintexts \/ plaintexts' = plaintexts \cup {[id |-> id, row |-> issuing[c].row]},
         UNCHANGED <<tokenTime, secrets, cut>>
  PROVE  TokenInv'
  <1> DEFINE new == issuing[c].row
  <1>0. new \in Rows /\ new # NoRow
    BY RowFacts DEF TokenInv, TokenTypeOK, Trying
  <1>1. TokenTypeOK'
    BY <1>0 DEF TokenInv, TokenTypeOK
  <1>2. /\ \A d \in Issuers : Trying(d)' => d # c /\ Trying(d) /\ issuing'[d] = issuing[d]
        /\ tokens'[id] = new /\ \A i \in TokenIds : i # id => tokens'[i] = tokens[i]
        /\ \A p \in plaintexts' : p \in plaintexts \/ p = [id |-> id, row |-> new]
    BY DEF TokenInv, TokenTypeOK, Trying
  <1>3. /\ new.secret <= secrets /\ new.secret \notin cut
        /\ \A d \in Issuers : (Trying(d) /\ issuing[d].row.secret = new.secret) => d = c
        /\ \A i \in TokenIds : tokens[i] # NoRow => tokens[i].secret # new.secret
        /\ \A p \in plaintexts : p.row.secret # new.secret
    BY DEF TokenInv, Drawn, CallsApart
  <1> HIDE DEF new
  <1>4. Drawn'
    BY <1>2, <1>3 DEF TokenInv, Drawn
  <1>5. RowsApart'
    BY <1>0, <1>2, <1>3 DEF TokenInv, RowsApart
  <1>6. CallsApart'
    BY <1>0, <1>2, <1>3 DEF TokenInv, CallsApart
  <1>7. RowStands'
    <2> SUFFICES ASSUME NEW p \in plaintexts'
                 PROVE  /\ tokens'[p.id] = p.row \/ p.row.secret \in cut \/ p.row.expires <= tokenTime
                        /\ \A i \in TokenIds : (tokens'[i] # NoRow /\ tokens'[i].secret = p.row.secret)
                                               => i = p.id /\ tokens'[i] = p.row
      BY DEF RowStands
    <2>1. CASE p = [id |-> id, row |-> new]
      BY <2>1, <1>0, <1>2, <1>3
    <2>2. CASE p \in plaintexts
      <3>1. /\ tokens[p.id] = p.row \/ p.row.secret \in cut \/ p.row.expires <= tokenTime
            /\ \A i \in TokenIds : (tokens[i] # NoRow /\ tokens[i].secret = p.row.secret)
                                   => i = p.id /\ tokens[i] = p.row
            /\ p.id \in TokenIds /\ p.row # NoRow
        BY <2>2, RowFacts DEF TokenInv, RowStands, TokenTypeOK
      <3>2. p.row.secret # new.secret
        BY <2>2, <1>3
      <3> QED BY <3>1, <3>2, <1>2
    <2> QED BY <2>1, <2>2, <1>2
  <1> QED BY <1>1, <1>4, <1>5, <1>6, <1>7 DEF TokenInv

\* Rows go, each of them revoked or expired.
LEMMA RemoveKeeps ==
  ASSUME TokenInv, NEW ids \in SUBSET TokenIds, tokens' = Removed(ids),
         \/ cut' = cut \cup SecretsOf(ids)
         \/ cut' = cut /\ \A i \in ids : tokens[i] # NoRow => tokens[i].expires <= tokenTime,
         UNCHANGED <<tokenTime, issuing, secrets, plaintexts>>
  PROVE  TokenInv'
  <1>0. /\ \A i \in ids : tokens'[i] = NoRow
        /\ \A i \in TokenIds : i \notin ids => tokens'[i] = tokens[i]
        /\ tokens' \in [TokenIds -> {NoRow} \cup Rows]
    BY DEF Removed, TokenInv, TokenTypeOK
  <1>1. /\ cut \subseteq cut'
        /\ \A s \in cut' : s \in cut \/ \E i \in ids : tokens[i] # NoRow /\ tokens[i].secret = s
    BY DEF SecretsOf
  <1>2. \A i \in ids : tokens[i] # NoRow => tokens[i].secret \in cut' \/ tokens[i].expires <= tokenTime
    BY DEF SecretsOf
  <1>3. \A i \in TokenIds : tokens[i] # NoRow => tokens[i] \in Rows /\ tokens[i].secret \in Nat
    BY RowFacts DEF TokenInv, TokenTypeOK
  <1>4. cut' \subseteq Nat
    BY <1>1, <1>3 DEF TokenInv, TokenTypeOK
  <1>5. TokenTypeOK'
    BY <1>0, <1>4 DEF TokenInv, TokenTypeOK
  <1>6. Drawn'
    BY <1>0, <1>1 DEF TokenInv, Drawn, Trying
  <1>7. RowsApart'
    <2>1. \A i, j \in TokenIds :
            (tokens'[i] # NoRow /\ tokens'[j] # NoRow /\ tokens'[i].secret = tokens'[j].secret) => i = j
      BY <1>0 DEF TokenInv, RowsApart
    <2>2. \A i \in TokenIds : tokens'[i] # NoRow => tokens'[i].secret \notin cut'
      BY <1>0, <1>1 DEF TokenInv, RowsApart
    <2> QED BY <2>1, <2>2 DEF RowsApart
  <1>8. CallsApart'
    BY <1>0, <1>1 DEF TokenInv, CallsApart, Trying
  <1>9. RowStands'
    <2> SUFFICES ASSUME NEW p \in plaintexts
                 PROVE  /\ tokens'[p.id] = p.row \/ p.row.secret \in cut' \/ p.row.expires <= tokenTime
                        /\ \A i \in TokenIds : (tokens'[i] # NoRow /\ tokens'[i].secret = p.row.secret)
                                               => i = p.id /\ tokens'[i] = p.row
      BY DEF RowStands
    <2>1. p.id \in TokenIds /\ p.row # NoRow
      BY RowFacts DEF TokenInv, TokenTypeOK
    <2>2. /\ tokens[p.id] = p.row \/ p.row.secret \in cut \/ p.row.expires <= tokenTime
          /\ \A i \in TokenIds : (tokens[i] # NoRow /\ tokens[i].secret = p.row.secret)
                                 => i = p.id /\ tokens[i] = p.row
      BY DEF TokenInv, RowStands
    <2>3. tokens'[p.id] = p.row \/ p.row.secret \in cut' \/ p.row.expires <= tokenTime
      BY <2>1, <2>2, <1>0, <1>1, <1>2
    <2> QED BY <2>2, <2>3, <1>0
  <1> QED BY <1>5, <1>6, <1>7, <1>8, <1>9 DEF TokenInv

LEMMA TokenStepInv == TokenInv /\ [TokenNext]_tokenVars => TokenInv'
  <1> SUFFICES ASSUME TokenInv, [TokenNext]_tokenVars PROVE TokenInv'
    OBVIOUS
  <1>1. CASE \E c \in Issuers : \E o \in Owners, e \in 0..MaxTokenTime : AskToken(c, o, e)
    BY <1>1, AskKeeps, TokenConstants
  <1>2. CASE \E c \in Issuers : \E i \in TokenIds : IssueToken(c, i) \/ IssueLost(c, i)
    <2> PICK c \in Issuers, id \in TokenIds : IssueToken(c, id) \/ IssueLost(c, id)
      BY <1>2
    <2>0. Trying(c) /\ UNCHANGED <<tokenTime, secrets, cut>>
          /\ tokens' = InsertNew(id, issuing[c].row)
      BY DEF IssueToken, IssueLost, Trying
    <2>1. /\ issuing[c] \in [at : {"try"}, attempts : Nat, row : Rows]
          /\ tokens \in [TokenIds -> {NoRow} \cup Rows]
          /\ issuing[c].row \in Rows /\ issuing[c].row # NoRow
      BY <2>0, RowFacts DEF TokenInv, TokenTypeOK, Trying
    <2>2. tokens[id] # NoRow => tokens[id] # issuing[c].row
      BY <2>0 DEF TokenInv, CallsApart
    <2>3. CASE tokens[id] = NoRow
      <3>1. InsertNew(id, issuing[c].row) = [tokens EXCEPT ![id] = issuing[c].row]
        BY <2>3 DEF InsertNew
      <3>2. InsertNew(id, issuing[c].row)[id] = issuing[c].row
        BY <3>1, <2>1
      <3>3. /\ issuing' = [issuing EXCEPT ![c] = [at |-> "idle"]]
            /\ plaintexts' = plaintexts \/ plaintexts' = plaintexts \cup {[id |-> id, row |-> issuing[c].row]}
        BY <3>2 DEF IssueToken, IssueLost
      <3> QED BY <3>1, <3>3, <2>0, <2>3, InsertKeeps
    <2>4. CASE tokens[id] # NoRow
      <3>1. InsertNew(id, issuing[c].row) = tokens
        BY <2>4, <2>1 DEF InsertNew
      <3>2. tokens' = tokens /\ InsertNew(id, issuing[c].row)[id] # issuing[c].row
        BY <3>1, <2>0, <2>2, <2>4
      <3>3. plaintexts' = plaintexts
        BY <3>2 DEF IssueToken, IssueLost
      <3> DEFINE again == [issuing[c] EXCEPT !.attempts = @ + 1]
      <3>4. again \in [at : {"try"}, attempts : Nat, row : Rows] /\ again.row = issuing[c].row
        BY <2>1
      <3>5. \/ issuing' = [issuing EXCEPT ![c] = [at |-> "idle"]]
            \/ issuing' = [issuing EXCEPT ![c] = again]
        BY <3>2 DEF IssueToken, IssueLost
      <3> HIDE DEF again
      <3>6. [at |-> "idle"] \in [at : {"idle"}]
        OBVIOUS
      <3> QED BY <3>2, <3>3, <3>4, <3>5, <3>6, <2>0, CallMoves
    <2> QED BY <2>3, <2>4
  <1>3. CASE \E i \in TokenIds : Revoke(i)
    BY <1>3, RemoveKeeps DEF Revoke
  <1>4. CASE \E o \in Owners : RevokeAllFor(o)
    <2> PICK o \in Owners : RevokeAllFor(o)
      BY <1>4
    <2> DEFINE ids == {i \in TokenIds : tokens[i] # NoRow /\ tokens[i].owner = o}
    <2>1. ids \in SUBSET TokenIds /\ tokens' = Removed(ids) /\ cut' = cut \cup SecretsOf(ids)
          /\ UNCHANGED <<tokenTime, issuing, secrets, plaintexts>>
      BY DEF RevokeAllFor
    <2> QED BY <2>1, RemoveKeeps
  <1>5. CASE SweepTokens
    <2> DEFINE ids == {i \in TokenIds : tokens[i] # NoRow /\ tokens[i].expires <= tokenTime}
    <2>1. ids \in SUBSET TokenIds /\ tokens' = Removed(ids) /\ cut' = cut
          /\ (\A i \in ids : tokens[i] # NoRow => tokens[i].expires <= tokenTime)
          /\ UNCHANGED <<tokenTime, issuing, secrets, plaintexts>>
      BY <1>5 DEF SweepTokens
    <2> HIDE DEF ids
    <2> QED BY <2>1, RemoveKeeps
  <1>6. CASE TokenTick
    <2>1. tokenTime' = tokenTime + 1 /\ tokenTime \in Nat
          /\ UNCHANGED <<tokens, issuing, secrets, plaintexts, cut>>
      BY <1>6 DEF TokenTick, TokenInv, TokenTypeOK
    <2>2. TokenTypeOK' /\ Drawn' /\ RowsApart' /\ CallsApart'
      BY <2>1 DEF TokenInv, TokenTypeOK, Drawn, RowsApart, CallsApart, Trying
    <2>3. \A p \in plaintexts : p.row.expires \in Nat
      BY RowFacts DEF TokenInv, TokenTypeOK
    <2>4. RowStands'
      BY <2>1, <2>3 DEF TokenInv, RowStands
    <2> QED BY <2>2, <2>4 DEF TokenInv
  <1>7. CASE UNCHANGED tokenVars
    BY <1>7 DEF tokenVars, TokenInv, TokenTypeOK, Drawn, RowsApart, CallsApart, RowStands, Trying
  <1> QED BY <1>1, <1>2, <1>3, <1>4, <1>5, <1>6, <1>7 DEF TokenNext

LEMMA InvStands == TokenInv => PlaintextStands
  <1> SUFFICES ASSUME TokenInv, NEW p \in plaintexts
               PROVE  Authenticate(p.id, p.row.secret) =
                        IF p.row.expires > tokenTime /\ p.row.secret \notin cut THEN {p.row.owner} ELSE {}
    BY DEF PlaintextStands
  <1>1. /\ p.id \in TokenIds /\ p.row # NoRow /\ p.row.expires \in Nat /\ tokenTime \in Nat
    BY RowFacts DEF TokenInv, TokenTypeOK
  <1>2. /\ tokens[p.id] = p.row \/ p.row.secret \in cut \/ p.row.expires <= tokenTime
        /\ (tokens[p.id] # NoRow /\ tokens[p.id].secret = p.row.secret) => tokens[p.id] = p.row
    BY <1>1 DEF TokenInv, RowStands
  <1>3. tokens[p.id] = p.row => p.row.secret \notin cut
    BY <1>1 DEF TokenInv, RowsApart
  <1> QED BY <1>1, <1>2, <1>3 DEF Authenticate

\* What issue hands out authenticates, as its owner and nobody else, exactly until it
\* expires or is revoked: through collisions of ids, redraws, lost answers and rows
\* issued later under the same id.
THEOREM PlaintextStandsCorrect == TokenSpec => []PlaintextStands
  <1>1. TokenSpec => []TokenInv
    BY TokenInitInv, TokenStepInv, PTL DEF TokenSpec
  <1> QED BY <1>1, InvStands, PTL

(***************************************************************************)
(* Inertia pages                                                           *)
(***************************************************************************)
Clients == [component : Components, have : SUBSET PropKeys, awaited : SUBSET PropKeys,
            rescued : SUBSET PropKeys, once : SUBSET PropKeys, stored : SUBSET PropKeys,
            version : Nat]

Asked == [at : {"sent"}, get : BOOLEAN, partial : BOOLEAN, component : Components, only : SUBSET PropKeys,
          except : SUBSET PropKeys, held : SUBSET PropKeys, version : Nat]

PagesOK ==
    pages \in [Components -> [PropKeys -> PropShapes \cup {NoProp}]] /\ version \in Nat

InertiaTypeOK ==
    /\ PagesOK
    /\ client \in Clients
    /\ request \in [Slots -> {NoRequest} \cup Asked]

\* What the client says it holds, now or in a request on its way, it has the value of.
HeldIsStored ==
    /\ client.once \subseteq client.stored
    /\ \A s \in Slots : request[s] # NoRequest => request[s].held \subseteq client.stored

InertiaInv == InertiaTypeOK /\ HeldIsStored /\ PageComplete
-----------------------------------------------------------------------------
\* The kinds a page's props have.
LEMMA KindFacts ==
  ASSUME PagesOK, NEW c \in Components, NEW k \in KeysOf(c)
  PROVE  k \in PropKeys /\ pages[c][k].kind \in Kinds
  <1>1. k \in PropKeys /\ pages[c][k] \in PropShapes
    BY DEF KeysOf, PagesOK
  <1> QED BY <1>1, InertiaConstants

LEMMA RequestFacts == NoRequest \notin Asked
  <1>1. NoRequest.at = "none" /\ \A r \in Asked : r.at = "sent"
    BY DEF NoRequest, Asked
  <1> QED BY <1>1

\* A full answer: every prop is in it, announced, rescued or withheld, or optional.
LEMMA FullAnswer ==
  ASSUME PagesOK, NEW c \in Components, NEW req, NEW failing, ~PartialFor(req, c),
         NEW k \in KeysOf(c)
  PROVE  \/ k \in Page(req, c, failing).sent \cup Page(req, c, failing).announced
                     \cup Page(req, c, failing).rescued
         \/ Withheld(req, c, k)
         \/ pages[c][k].kind = "optional"
  <1>1. pages[c][k].kind \in Kinds
    BY KindFacts
  <1>2. CASE Withheld(req, c, k)
    BY <1>2
  <1>3. CASE ~Withheld(req, c, k) /\ pages[c][k].kind \in {"always", "eager"}
    <2>1. Plan(req, c, k) = "ready"
      BY <1>3 DEF Plan
    <2> QED BY <2>1 DEF Page, Planned
  <1>4. CASE ~Withheld(req, c, k) /\ pages[c][k].kind = "lazy"
    <2>1. Plan(req, c, k) = "invoke"
      BY <1>4 DEF Plan
    <2> QED BY <2>1 DEF Page, Planned
  <1>5. CASE ~Withheld(req, c, k) /\ pages[c][k].kind = "deferred"
    <2>1. Plan(req, c, k) = "announce"
      BY <1>5 DEF Plan
    <2> QED BY <2>1 DEF Page, Planned
  <1> QED BY <1>1, <1>2, <1>3, <1>4, <1>5 DEF Kinds

\* The parts of an answer are keys of the page; what it lists as once it carries, or
\* withholds because the client named it.
LEMMA PageFacts ==
  ASSUME NEW c, NEW req, NEW failing, failing \subseteq PropKeys
  PROVE  LET page == Page(req, c, failing)
         IN  /\ page.component = c /\ page.rescued = failing
             /\ page.sent \subseteq PropKeys /\ page.announced \subseteq PropKeys
             /\ page.once \subseteq PropKeys
             /\ \A k \in page.once : k \in page.sent \/ k \in req.held
             /\ \A k \in KeysOf(c) : Withheld(req, c, k) => k \in page.once /\ k \in req.held
  BY DEF Page, Planned, KeysOf, OnceListed, Withheld

\* The document the client loads first, or again, is complete.
LEMMA DocumentComplete ==
  ASSUME PagesOK, NEW c \in Components
  PROVE  /\ Document(c) \in Clients
         /\ Document(c).component = c
         /\ Document(c).once \subseteq Document(c).stored
         /\ \A k \in KeysOf(c) : \/ k \in Document(c).have \cup Document(c).awaited
                                 \/ pages[c][k].kind = "optional"
  <1> DEFINE req == [partial |-> FALSE, held |-> {}]
             page == Page(req, c, {})
  <1>1. /\ page.component = c /\ page.rescued = {}
        /\ page.sent \subseteq PropKeys /\ page.announced \subseteq PropKeys /\ page.once \subseteq PropKeys
        /\ \A k \in page.once : k \in page.sent \/ k \in req.held
        /\ \A k \in KeysOf(c) : Withheld(req, c, k) => k \in req.held
    BY PageFacts
  <1>2. req.held = {} /\ ~PartialFor(req, c)
    BY DEF PartialFor
  <1>3. \A k \in KeysOf(c) : k \in page.sent \cup page.announced \/ pages[c][k].kind = "optional"
    BY <1>1, <1>2, FullAnswer
  <1>4. Document(c) = [component |-> c, have |-> page.sent, awaited |-> page.announced,
                       rescued |-> {}, once |-> page.once, stored |-> page.once \cap page.sent,
                       version |-> version]
    BY <1>1 DEF Document, Shown
  <1> HIDE DEF page, req
  <1>5. page.once \subseteq page.once \cap page.sent
    BY <1>1, <1>2
  <1>6. version \in Nat
    BY DEF PagesOK
  <1> QED BY <1>1, <1>3, <1>4, <1>5, <1>6 DEF Clients

\* A request leaves with what the client holds.
LEMMA AsksKeeps ==
  ASSUME InertiaInv, NEW slot \in Slots, NEW r \in Asked, r.held = client.once,
         request' = [request EXCEPT ![slot] = r],
         UNCHANGED <<pages, version, client>>
  PROVE  InertiaInv'
  <1>0. client \in Clients /\ request \in [Slots -> {NoRequest} \cup Asked]
    BY DEF InertiaInv, InertiaTypeOK
  <1>3. InertiaTypeOK'
    BY <1>0 DEF InertiaInv, InertiaTypeOK, PagesOK
  <1>4. HeldIsStored'
    BY <1>0 DEF InertiaInv, HeldIsStored
  <1>5. PageComplete'
    BY DEF InertiaInv, PageComplete, KeysOf
  <1> QED BY <1>3, <1>4, <1>5 DEF InertiaInv

LEMMA AsksFacts ==
  ASSUME InertiaInv, NEW get \in BOOLEAN, NEW partial \in BOOLEAN,
         NEW only \in SUBSET PropKeys, NEW except \in SUBSET PropKeys
  PROVE  /\ Asks(get, partial, only, except) \in Asked
         /\ Asks(get, partial, only, except).held = client.once
  <1>1. client \in Clients
    BY DEF InertiaInv, InertiaTypeOK
  <1>2. client.component \in Components /\ client.once \subseteq PropKeys /\ client.version \in Nat
    BY <1>1 DEF Clients
  <1> QED BY <1>2 DEF Asks, Asked

\* An answer that is merged into the page, or replaces it.
LEMMA MergedComplete ==
  ASSUME InertiaInv, NEW slot \in Slots, NEW c \in Components, NEW failing \in SUBSET PropKeys,
         request[slot] # NoRequest,
         ~(request[slot].partial /\ request[slot].component # client.component)
  PROVE  LET next == Merged(request[slot], Page(request[slot], c, failing))
         IN  /\ next \in Clients /\ next.component = c
             /\ client.stored \subseteq next.stored /\ next.once \subseteq next.stored
             /\ \A k \in KeysOf(c) : \/ k \in next.have \cup next.awaited \cup next.rescued
                                     \/ pages[c][k].kind = "optional"
  <1> DEFINE req == request[slot]
             page == Page(req, c, failing)
             next == Merged(req, page)
  <1>0. /\ client.component \in Components /\ client.have \subseteq PropKeys
        /\ client.awaited \subseteq PropKeys /\ client.rescued \subseteq PropKeys
        /\ client.once \subseteq PropKeys /\ client.stored \subseteq PropKeys
        /\ client.version \in Nat
    BY DEF InertiaInv, InertiaTypeOK, Clients
  <1>1. req.held \subseteq client.stored /\ client.once \subseteq client.stored
    BY DEF InertiaInv, HeldIsStored
  <1>2. /\ page.component = c /\ page.rescued = failing
        /\ page.sent \subseteq PropKeys /\ page.announced \subseteq PropKeys
        /\ page.once \subseteq PropKeys
        /\ \A k \in page.once : k \in page.sent \/ k \in req.held
        /\ \A k \in KeysOf(c) : Withheld(req, c, k) => k \in page.once /\ k \in req.held
    BY PageFacts
  <1>3. CASE req.partial /\ req.component = c
    <2>1. client.component = c
      BY <1>3
    <2>2. next = [component |-> c, have |-> client.have \cup page.sent,
                  awaited |-> client.awaited \ (page.sent \cup page.rescued),
                  rescued |-> (client.rescued \cup page.rescued) \ page.sent,
                  once |-> client.once \cup page.once,
                  stored |-> client.stored \cup (page.once \cap page.sent),
                  version |-> client.version]
      BY <1>2, <1>3 DEF Merged, Shown
    <2>3. \A k \in KeysOf(c) : \/ k \in client.have \cup client.awaited \cup client.rescued
                               \/ pages[c][k].kind = "optional"
      BY <2>1 DEF InertiaInv, PageComplete
    <2> HIDE DEF next, page, req
    <2>4. next \in Clients
      BY <1>0, <1>2, <2>2 DEF Clients
    <2>5. client.stored \subseteq next.stored /\ next.once \subseteq next.stored /\ next.component = c
      BY <1>1, <1>2, <2>2
    <2>6. \A k \in KeysOf(c) : \/ k \in next.have \cup next.awaited \cup next.rescued
                               \/ pages[c][k].kind = "optional"
      BY <2>2, <2>3
    <2> QED BY <2>4, <2>5, <2>6 DEF next, page, req
  <1>4. CASE ~(req.partial /\ req.component = c)
    <2>1. ~PartialFor(req, c)
      BY <1>4 DEF PartialFor
    <2>2. next = [component |-> c, have |-> page.sent \cup (page.once \cap client.stored),
                  awaited |-> page.announced, rescued |-> page.rescued, once |-> page.once,
                  stored |-> client.stored \cup (page.once \cap page.sent),
                  version |-> client.version]
      BY <1>2, <1>4 DEF Merged, Shown
    <2>3. \A k \in KeysOf(c) : \/ k \in page.sent \cup page.announced \cup page.rescued
                               \/ Withheld(req, c, k) \/ pages[c][k].kind = "optional"
      BY <2>1, FullAnswer DEF InertiaInv, InertiaTypeOK
    <2> HIDE DEF next, page, req
    <2>4. next \in Clients
      BY <1>0, <1>2, <2>2 DEF Clients
    <2>5. client.stored \subseteq next.stored /\ next.once \subseteq next.stored /\ next.component = c
      BY <1>1, <1>2, <2>2
    <2>6. \A k \in KeysOf(c) : \/ k \in next.have \cup next.awaited \cup next.rescued
                               \/ pages[c][k].kind = "optional"
      BY <1>1, <1>2, <2>2, <2>3
    <2> QED BY <2>4, <2>5, <2>6 DEF next, page, req
  <1> QED BY <1>3, <1>4

\* The client is left with a complete page and its requests with props it has stored.
LEMMA ClientKeeps ==
  ASSUME InertiaInv, UNCHANGED <<pages, version>>, NEW c \in Components,
         client' \in Clients, client'.component = c, client'.once \subseteq client'.stored,
         \A k \in KeysOf(c) : \/ k \in client'.have \cup client'.awaited \cup client'.rescued
                              \/ pages[c][k].kind = "optional",
         \A s \in Slots : request'[s] # NoRequest =>
                             request'[s] = request[s] /\ client.stored \subseteq client'.stored,
         request' \in [Slots -> {NoRequest} \cup Asked]
  PROVE  InertiaInv'
  <1>1. InertiaTypeOK'
    BY DEF InertiaInv, InertiaTypeOK, PagesOK
  <1>2. HeldIsStored'
    BY DEF InertiaInv, HeldIsStored
  <1>3. PageComplete'
    BY DEF PageComplete, KeysOf
  <1> QED BY <1>1, <1>2, <1>3 DEF InertiaInv

LEMMA InertiaInvStep == InertiaInv /\ [InertiaNext]_inertiaVars => InertiaInv'
  <1> SUFFICES ASSUME InertiaInv, [InertiaNext]_inertiaVars PROVE InertiaInv'
    OBVIOUS
  <1>0. /\ client \in Clients /\ request \in [Slots -> {NoRequest} \cup Asked]
        /\ "visit" \in Slots /\ "background" \in Slots
        /\ client.component \in Components /\ client.once \subseteq client.stored
        /\ version \in Nat
        /\ \A k \in KeysOf(client.component) :
              \/ k \in client.have \cup client.awaited \cup client.rescued
              \/ pages[client.component][k].kind = "optional"
    BY DEF InertiaInv, InertiaTypeOK, PagesOK, HeldIsStored, PageComplete, Slots, Clients
  <1>1. ASSUME NEW get \in BOOLEAN, VisitPage(get) PROVE InertiaInv'
    <2>1. {} \in SUBSET PropKeys
      OBVIOUS
    <2>2. Asks(get, FALSE, {}, {}) \in Asked /\ Asks(get, FALSE, {}, {}).held = client.once
      BY <2>1, AsksFacts
    <2> QED BY <1>0, <1>1, <2>2, AsksKeeps DEF VisitPage
  <1>2. CASE LoadDeferred
    <2>1. client.awaited \in SUBSET PropKeys
      BY <1>0 DEF Clients
    <2>2. {} \in SUBSET PropKeys
      OBVIOUS
    <2>3. /\ Asks(TRUE, TRUE, client.awaited, {}) \in Asked
          /\ Asks(TRUE, TRUE, client.awaited, {}).held = client.once
      BY <2>1, <2>2, AsksFacts
    <2> QED BY <1>0, <1>2, <2>3, AsksKeeps DEF LoadDeferred
  <1>3. CASE Deploy
    <2>1. version' \in Nat /\ UNCHANGED <<pages, client, request>>
      BY <1>0, <1>3 DEF Deploy
    <2> QED BY <2>1 DEF InertiaInv, InertiaTypeOK, PagesOK, HeldIsStored, PageComplete, KeysOf
  <1>4. ASSUME NEW only \in SUBSET PropKeys, NEW except \in SUBSET PropKeys, Reload(only, except)
        PROVE  InertiaInv'
    <2>1. Asks(TRUE, TRUE, only, except) \in Asked /\ Asks(TRUE, TRUE, only, except).held = client.once
      BY AsksFacts
    <2> QED BY <1>0, <1>4, <2>1, AsksKeeps DEF Reload
  <1>5. ASSUME NEW s \in Slots, AnswerLost(s) PROVE InertiaInv'
    <2>1. request' = [request EXCEPT ![s] = NoRequest] /\ UNCHANGED <<pages, version, client>>
      BY <1>5 DEF AnswerLost
    <2>2. /\ request' \in [Slots -> {NoRequest} \cup Asked]
          /\ \A t \in Slots : request'[t] # NoRequest => request'[t] = request[t]
      BY <1>0, <2>1
    <2> QED BY <1>0, <2>1, <2>2, ClientKeeps
  <1>6. ASSUME NEW s \in Slots, NEW c \in Components, VersionConflict(s, c) PROVE InertiaInv'
    <2>1. /\ client' = Document(c) /\ request' = [t \in Slots |-> NoRequest]
          /\ UNCHANGED <<pages, version>>
      BY <1>6 DEF VersionConflict
    <2>2. PagesOK
      BY DEF InertiaInv, InertiaTypeOK
    <2> QED BY <2>1, <2>2, DocumentComplete, ClientKeeps
  <1>7. ASSUME NEW s \in Slots, NEW c \in Components, NEW failing \in SUBSET PropKeys,
               Answer(s, c, failing)
        PROVE  InertiaInv'
    <2>1. /\ request[s] # NoRequest /\ UNCHANGED <<pages, version>>
          /\ request' = [request EXCEPT ![s] = NoRequest]
      BY <1>7 DEF Answer
    <2>2. /\ request' \in [Slots -> {NoRequest} \cup Asked]
          /\ \A t \in Slots : request'[t] # NoRequest => request'[t] = request[t]
      BY <1>0, <2>1
    <2>3. CASE request[s].partial /\ request[s].component # client.component
      <3>1. client' = client
        BY <1>7, <2>3 DEF Answer
      <3> QED BY <1>0, <2>1, <2>2, <3>1, ClientKeeps
    <2>4. CASE ~(request[s].partial /\ request[s].component # client.component)
      <3>1. client' = Merged(request[s], Page(request[s], c, failing))
        BY <1>7, <2>4 DEF Answer
      <3> QED BY <2>1, <2>2, <2>4, <3>1, MergedComplete, ClientKeeps
    <2> QED BY <2>3, <2>4
  <1>8. ASSUME NEW k \in PropKeys, OnceExpires(k) PROVE InertiaInv'
    <2>1. client' = [client EXCEPT !.once = @ \ {k}] /\ UNCHANGED <<pages, version, request>>
      BY <1>8 DEF OnceExpires
    <2>2. /\ client' \in Clients /\ client'.component = client.component
          /\ client'.have = client.have /\ client'.awaited = client.awaited
          /\ client'.rescued = client.rescued /\ client'.stored = client.stored
          /\ client'.once \subseteq client.once
      BY <1>0, <2>1 DEF Clients
    <2> QED BY <1>0, <2>1, <2>2, ClientKeeps
  <1>9. CASE UNCHANGED inertiaVars
    BY <1>9 DEF inertiaVars, InertiaInv, InertiaTypeOK, PagesOK, HeldIsStored, PageComplete, KeysOf
  <1> QED BY <1>1, <1>2, <1>3, <1>4, <1>5, <1>6, <1>7, <1>8, <1>9 DEF InertiaNext

\* The client is never short of a prop without knowing it.
THEOREM PageCorrect == InertiaSpec => []PageComplete
<1>1. InertiaInit => InertiaInv
  <2> SUFFICES ASSUME InertiaInit PROVE InertiaInv
    OBVIOUS
  <2>1. PICK c \in Components : client = Document(c)
    BY DEF InertiaInit
  <2>2. /\ pages \in [Components -> [PropKeys -> PropShapes \cup {NoProp}]] /\ version \in Nat
        /\ request \in [Slots -> {NoRequest} \cup Asked] /\ \A s \in Slots : request[s] = NoRequest
    BY DEF InertiaInit
  <2>3. PagesOK
    BY <2>2 DEF PagesOK
  <2> QED BY <2>1, <2>2, <2>3, DocumentComplete DEF InertiaInv, InertiaTypeOK, HeldIsStored, PageComplete
<1>2. InertiaInv => PageComplete
  BY DEF InertiaInv
<1> QED BY InertiaInvStep, <1>1, <1>2, PTL DEF InertiaSpec

(***************************************************************************)
(* Locales                                                                 *)
(***************************************************************************)
\* A kept response varies on what the application and the layer said, and is in a
\* locale negotiated for the reader it was made for.
KeptAsNegotiated ==
    \A url \in Chosen : \A e \in stored[url] :
        /\ e.vary = EnsureVary(appVary) /\ "*" \notin e.vary
        /\ \E r \in Readers :
            /\ e.key = Varied(e.vary, r)
            /\ \E tag \in had[r] : e.locale = ResolveLocale(url, tag, asked[r].header)

IsOn(f, S) == f = [x \in S |-> f[x]]

AsHad == IsOn(asked, Readers) /\ IsOn(had, Readers) /\ \A r \in Readers : asked[r].session \in had[r]

LocaleInv ==
    /\ IsOn(stored, Chosen) /\ IsOn(got, Readers) /\ AsHad
    /\ KeptAsNegotiated /\ CachedInOwnLocale
-----------------------------------------------------------------------------
\* Readers a response is shared by are readers it is right for.
LEMMA SameKeySameLocale ==
  ASSUME AsHad, NEW vary, vary = EnsureVary(appVary), "*" \notin vary,
         NEW r \in Readers, NEW s \in Readers, Varied(vary, r) = Varied(vary, s),
         "session" \notin named \/ "Cookie" \in appVary
  PROVE  \A url : \A tag \in had[r] : \E own \in had[s] :
            ResolveLocale(url, tag, asked[r].header) = ResolveLocale(url, own, asked[s].header)
  <1> SUFFICES ASSUME NEW url, NEW tag \in had[r]
               PROVE  \E own \in had[s] :
                        ResolveLocale(url, tag, asked[r].header) = ResolveLocale(url, own, asked[s].header)
    OBVIOUS
  <1>1. "Accept-Language" \in vary /\ ("Cookie" \in appVary => "Cookie" \in vary)
    BY DEF EnsureVary
  <1>2. asked[r].header = asked[s].header
    BY <1>1 DEF Varied
  <1>3. CASE "Cookie" \in appVary
    <2>1. r = s
      BY <1>1, <1>3 DEF Varied
    <2> QED BY <2>1
  <1>4. CASE "session" \notin named
    <2>1. Offered(url, tag, asked[r].header) = Offered(url, asked[s].session, asked[s].header)
      BY <1>2, <1>4 DEF Offered
    <2>2. asked[s].session \in had[s]
      BY DEF AsHad
    <2> QED BY <2>1, <2>2 DEF ResolveLocale
  <1> QED BY <1>3, <1>4

\* What is negotiated depends on the catalogs, the default and the named keys alone.
LEMMA NegotiationFixed ==
  ASSUME UNCHANGED <<registered, fallback, named>>
  PROVE  \A u, s, h : ResolveLocale(u, s, h)' = ResolveLocale(u, s, h)
  <1>1. \A t : Registered(t)' = Registered(t)
    BY DEF Registered
  <1>2. \A h : Usable(h)' = Usable(h)
    BY <1>1 DEF Usable
  <1>3. \A h : MatchAcceptLanguage(h)' = MatchAcceptLanguage(h)
    BY <1>1, <1>2 DEF MatchAcceptLanguage
  <1>4. \A u, s, h : Offered(u, s, h)' = Offered(u, s, h)
    BY <1>1, <1>3 DEF Offered
  <1> QED BY <1>4 DEF ResolveLocale

LEMMA OriginKeeps ==
  ASSUME LocaleInv, NEW r \in Readers, NEW url \in Chosen, Origin(r, url)
  PROVE  LocaleInv'
  <1> DEFINE locale == ResolveLocale(url, asked[r].session, asked[r].header)
             vary == EnsureVary(appVary)
             e == [vary |-> vary, locale |-> locale, key |-> Varied(vary, r)]
  <1>1. /\ got' = [got EXCEPT ![r] = [url |-> url, locale |-> locale]]
        /\ stored' = IF "*" \in vary THEN stored ELSE [stored EXCEPT ![url] = @ \cup {e}]
        /\ UNCHANGED <<registered, fallback, named, asked, had, appVary>>
    BY DEF Origin
  <1>2. \A u, s, h : ResolveLocale(u, s, h)' = ResolveLocale(u, s, h)
    BY <1>1, NegotiationFixed
  <1>3. e.vary = vary /\ e.locale = locale /\ e.key = Varied(vary, r)
    OBVIOUS
  <1> HIDE DEF e
  <1>4. IsOn(stored, Chosen)' /\ IsOn(got, Readers)' /\ AsHad'
    BY <1>1 DEF LocaleInv, IsOn, AsHad
  <1>5. \A u \in Chosen : \A f \in stored'[u] : f \in stored[u] \/ (u = url /\ f = e /\ "*" \notin vary)
    BY <1>1 DEF LocaleInv, IsOn
  <1>r. asked[r].session \in had[r]
    BY DEF LocaleInv, AsHad
  <1>6. KeptAsNegotiated'
    <2> SUFFICES ASSUME NEW u \in Chosen, NEW f \in stored'[u]
                 PROVE  /\ f.vary = EnsureVary(appVary') /\ "*" \notin f.vary
                        /\ \E s \in Readers :
                            /\ f.key = Varied(f.vary, s)'
                            /\ \E tag \in had'[s] :
                                f.locale = ResolveLocale(u, tag, asked[s].header)'
      BY DEF KeptAsNegotiated, EnsureVary
    <2>1. \A s \in Readers : /\ Varied(f.vary, s)' = Varied(f.vary, s)
                             /\ \A tag : ResolveLocale(u, tag, asked[s].header)'
                                           = ResolveLocale(u, tag, asked[s].header)
      BY <1>1, <1>2 DEF Varied
    <2>2. CASE f \in stored[u]
      BY <2>1, <2>2, <1>1 DEF LocaleInv, KeptAsNegotiated
    <2>3. CASE u = url /\ f = e /\ "*" \notin vary
      BY <2>1, <2>3, <1>1, <1>3, <1>r
    <2> QED BY <2>2, <2>3, <1>5
  <1>7. CachedInOwnLocale'
    <2>1. \A s \in Readers : OwnLocale(s) => OwnLocale(s)'
      BY <1>1, <1>2, <1>r DEF LocaleInv, IsOn, OwnLocale
    <2> QED BY <2>1, <1>1 DEF LocaleInv, CachedInOwnLocale
  <1> QED BY <1>4, <1>6, <1>7 DEF LocaleInv

\* What is kept stays right while readers send the same headers.
LEMMA KeptStays ==
  ASSUME UNCHANGED <<registered, fallback, named, appVary, stored>>, LocaleInv,
         \A s \in Readers : asked'[s].header = asked[s].header /\ had[s] \subseteq had'[s]
  PROVE  KeptAsNegotiated'
  <1>1. \A u, s, h : ResolveLocale(u, s, h)' = ResolveLocale(u, s, h)
    BY NegotiationFixed
  <1>2. \A vary : \A s \in Readers : Varied(vary, s)' = Varied(vary, s)
    BY DEF Varied
  <1> SUFFICES ASSUME NEW u \in Chosen, NEW f \in stored[u]
               PROVE  /\ f.vary = EnsureVary(appVary') /\ "*" \notin f.vary
                      /\ \E s \in Readers :
                          /\ f.key = Varied(f.vary, s)'
                          /\ \E tag \in had'[s] : f.locale = ResolveLocale(u, tag, asked[s].header)'
    BY DEF KeptAsNegotiated, EnsureVary
  <1>3. /\ f.vary = EnsureVary(appVary) /\ "*" \notin f.vary
        /\ \E s \in Readers :
            /\ f.key = Varied(f.vary, s)
            /\ \E tag \in had[s] : f.locale = ResolveLocale(u, tag, asked[s].header)
    BY DEF LocaleInv, KeptAsNegotiated
  <1>4. PICK s \in Readers : /\ f.key = Varied(f.vary, s)
                             /\ \E tag \in had[s] : f.locale = ResolveLocale(u, tag, asked[s].header)
    BY <1>3
  <1>5. PICK tag \in had[s] : f.locale = ResolveLocale(u, tag, asked[s].header)
    BY <1>4
  <1>6. tag \in had'[s] /\ f.locale = ResolveLocale(u, tag, asked[s].header)'
    BY <1>1, <1>5
  <1> QED BY <1>2, <1>3, <1>4, <1>6

LEMMA CacheHitKeeps ==
  ASSUME LocaleInv, NEW r \in Readers, NEW url \in Chosen, CacheHit(r, url)
  PROVE  LocaleInv'
  <1>1. PICK e \in stored[url] :
            /\ e.key = Varied(e.vary, r)
            /\ got' = [got EXCEPT ![r] = [url |-> url, locale |-> e.locale]]
            /\ UNCHANGED <<registered, fallback, named, asked, had, appVary, stored>>
    BY DEF CacheHit
  <1>2. \A u, s, h : ResolveLocale(u, s, h)' = ResolveLocale(u, s, h)
    BY <1>1, NegotiationFixed
  <1>3. IsOn(stored, Chosen)' /\ IsOn(got, Readers)' /\ AsHad'
    BY <1>1 DEF LocaleInv, IsOn, AsHad
  <1>4. KeptAsNegotiated'
    BY <1>1, KeptStays
  <1>5. CachedInOwnLocale'
    <2> SUFFICES ASSUME "session" \notin named \/ "Cookie" \in appVary, NEW s \in Readers
                 PROVE  OwnLocale(s)'
      BY <1>1 DEF CachedInOwnLocale
    <2>1. CASE s # r
      <3>1. got'[s] = got[s] /\ OwnLocale(s)
        BY <2>1, <1>1 DEF LocaleInv, IsOn, CachedInOwnLocale
      <3> QED BY <3>1, <1>1, <1>2 DEF OwnLocale
    <2>2. CASE s = r
      <3>1. got'[s].url = url /\ got'[s].locale = e.locale
        BY <2>2, <1>1 DEF LocaleInv, IsOn
      <3>2. PICK p \in Readers : /\ e.key = Varied(e.vary, p)
                                 /\ \E tag \in had[p] : e.locale = ResolveLocale(url, tag, asked[p].header)
        BY DEF LocaleInv, KeptAsNegotiated
      <3>3. PICK tag \in had[p] : e.locale = ResolveLocale(url, tag, asked[p].header)
        BY <3>2
      <3>4. e.vary = EnsureVary(appVary) /\ "*" \notin e.vary /\ AsHad
        BY DEF LocaleInv, KeptAsNegotiated
      <3>5. \E own \in had[r] : e.locale = ResolveLocale(url, own, asked[r].header)
        <4>1. Varied(e.vary, p) = Varied(e.vary, r)
          BY <1>1, <3>2
        <4>2. \A u : \A x \in had[p] : \E own \in had[r] :
                ResolveLocale(u, x, asked[p].header) = ResolveLocale(u, own, asked[r].header)
          BY <3>4, <4>1, SameKeySameLocale
        <4> QED BY <3>3, <4>2
      <3> QED BY <2>2, <3>1, <3>5, <1>1, <1>2 DEF OwnLocale
    <2> QED BY <2>1, <2>2
  <1> QED BY <1>3, <1>4, <1>5 DEF LocaleInv

\* A switch of the session's locale changes neither what a cache looks at nor what was
\* negotiated before it.
LEMMA SwitchKeeps ==
  ASSUME LocaleInv, NEW r \in Readers, NEW t \in Chosen, SwitchLocale(r, t)
  PROVE  LocaleInv'
  <1>1. /\ asked' = [asked EXCEPT ![r] = [header |-> @.header, session |-> t]]
        /\ had' = [had EXCEPT ![r] = @ \cup {t}]
        /\ UNCHANGED <<registered, fallback, named, appVary, stored, got>>
    BY DEF SwitchLocale
  <1>2. \A u, s, h : ResolveLocale(u, s, h)' = ResolveLocale(u, s, h)
    BY <1>1, NegotiationFixed
  <1>3. \A s \in Readers : asked'[s].header = asked[s].header /\ had[s] \subseteq had'[s]
    BY <1>1 DEF LocaleInv, AsHad, IsOn
  <1>4. IsOn(stored, Chosen)' /\ IsOn(got, Readers)' /\ AsHad'
    BY <1>1 DEF LocaleInv, IsOn, AsHad
  <1>6. KeptAsNegotiated'
    BY <1>1, <1>3, KeptStays
  <1>7. CachedInOwnLocale'
    <2>1. \A s \in Readers : OwnLocale(s) => OwnLocale(s)'
      BY <1>1, <1>2, <1>3 DEF OwnLocale
    <2> QED BY <2>1, <1>1 DEF LocaleInv, CachedInOwnLocale
  <1> QED BY <1>4, <1>6, <1>7 DEF LocaleInv

LEMMA LocaleInvStep == LocaleInv /\ [LocaleNext]_localeVars => LocaleInv'
  <1> SUFFICES ASSUME LocaleInv, [LocaleNext]_localeVars PROVE LocaleInv'
    OBVIOUS
  <1>1. CASE UNCHANGED localeVars
    <2>1. UNCHANGED <<registered, fallback, named, asked, had, appVary, stored, got>>
      BY <1>1 DEF localeVars
    <2>2. \A u, s, h : ResolveLocale(u, s, h)' = ResolveLocale(u, s, h)
      BY <2>1, NegotiationFixed
    <2>3. IsOn(stored, Chosen)' /\ IsOn(got, Readers)' /\ AsHad'
      BY <2>1 DEF LocaleInv, IsOn, AsHad
    <2>4. KeptAsNegotiated'
      BY <2>1, KeptStays
    <2>5. CachedInOwnLocale'
      BY <2>1, <2>2 DEF LocaleInv, CachedInOwnLocale, OwnLocale
    <2> QED BY <2>3, <2>4, <2>5 DEF LocaleInv
  <1> QED BY <1>1, OriginKeeps, CacheHitKeeps, SwitchKeeps DEF LocaleNext

\* No reader is served another reader's language out of a shared cache, unless the
\* application keeps the locale in the session without saying so.
THEOREM LocaleCorrect == LocaleSpec => []CachedInOwnLocale
<1>1. LocaleInit => LocaleInv
  BY DEF LocaleInit, LocaleInv, IsOn, AsHad, KeptAsNegotiated, CachedInOwnLocale, OwnLocale
<1>2. LocaleInv => CachedInOwnLocale
  BY DEF LocaleInv
<1> QED BY LocaleInvStep, <1>1, <1>2, PTL DEF LocaleSpec

(***************************************************************************)
(* Remember-me tokens                                                      *)
(***************************************************************************)
\* A cookie of secrets drawn so far; a request that carries one; a response that does.
Given == [series : 1..drawn, secret : 1..drawn]
Carries(f) == f.at \in {"sent", "rotating", "cascading"}
Delivers(f) == f.at = "replied" /\ f.cookie # NoCookie

FlightOK(f) ==
    /\ f.at \in {"idle", "sent", "rotating", "cascading", "replied"}
    /\ Carries(f) => f.cookie \in Given /\ f.browser \in Browsers
    /\ f.at = "replied" => f.cookie \in Given \cup {NoCookie} /\ f.browser \in Browsers

\* Nothing speaks of a secret not drawn yet; series is the key of the table.
RememberTypes ==
    /\ drawn \in Nat
    /\ \A r \in table : r.series \in 1..drawn /\ r.secret \in 1..drawn
    /\ \A r1, r2 \in table : r1.series = r2.series => r1 = r2
    /\ jar = [b \in Browsers |-> jar[b]]
    /\ \A b \in Browsers : jar[b] \in Given \cup {NoCookie}
    /\ flight = [q \in Requests |-> flight[q]]
    /\ \A q \in Requests : FlightOK(flight[q])
    /\ revoked \subseteq 1..drawn
    /\ successor \subseteq (1..drawn) \X (1..drawn) \X (1..drawn)

\* A replacement is younger than what it replaces, and the row has gone on to it.
SecretsRetired ==
    \A z \in successor : /\ z[2] < z[3]
                         /\ \A r \in table : r.series = z[1] => r.secret >= z[3]

\* A new cookie on its way is the row's secret, and nobody holds it or sends it yet.
LatestOf(q) ==
    LET k == flight[q].cookie
    IN  /\ \A r \in table : r.series = k.series => r.secret = k.secret
        /\ \A b \in Browsers : jar[b].series = k.series => jar[b].secret < k.secret
        /\ \A p \in Requests : Carries(flight[p]) /\ flight[p].cookie.series = k.series
                                 => flight[p].cookie.secret < k.secret
        /\ \A p \in Requests \ {q} : Delivers(flight[p]) => flight[p].cookie.series # k.series

Latest == \A q \in Requests : Delivers(flight[q]) => LatestOf(q)

RememberInv == RememberTypes /\ SecretsRetired /\ OneReplacement /\ RevokedStaysGone /\ Latest

\* The two kinds of cookie do not overlap.
LEMMA GivenFacts ==
  ASSUME drawn \in Nat, NEW k \in Given
  PROVE  /\ k.series \in 1..drawn /\ k.secret \in 1..drawn /\ k # NoCookie
         /\ k.series \in Nat /\ k.secret \in Nat /\ k.series # 0
  BY DEF Given, NoCookie

\* A step that draws nothing and delivers nothing: rows go or keep their secret, cookies
\* go, and a request moves on with the cookie it has, or takes its browser's.
LEMMA NothingNew ==
  ASSUME RememberInv, drawn' = drawn, successor' = successor,
         \A r \in table' : \E o \in table : o.series = r.series /\ o.secret = r.secret,
         \A r1, r2 \in table' : r1.series = r2.series => r1 = r2,
         jar' = [b \in Browsers |-> jar'[b]], \A b \in Browsers : jar'[b] \in {jar[b], NoCookie},
         flight' = [q \in Requests |-> flight'[q]],
         \A q \in Requests :
            \/ flight'[q] = flight[q]
            \/ /\ FlightOK(flight'[q]) /\ ~Delivers(flight'[q])
               /\ Carries(flight'[q]) =>
                    \/ Carries(flight[q]) /\ flight'[q].cookie = flight[q].cookie
                    \/ \E b \in Browsers : jar[b] # NoCookie /\ flight'[q].cookie = jar[b],
         revoked' \subseteq 1..drawn, RevokedStaysGone'
  PROVE  RememberInv'
  <1>t. /\ RememberTypes /\ SecretsRetired /\ OneReplacement /\ Latest
    BY DEF RememberInv
  <1>g. Given' = Given
    BY DEF Given
  <1>f. \A q \in Requests : FlightOK(flight[q]) /\ FlightOK(flight'[q])
    BY <1>t DEF RememberTypes
  <1>1. RememberTypes'
    <2>1. \A r \in table' : r.series \in 1..drawn' /\ r.secret \in 1..drawn'
      BY <1>t DEF RememberTypes
    <2>2. \A b \in Browsers : jar'[b] \in Given' \cup {NoCookie}
      BY <1>t, <1>g DEF RememberTypes
    <2>3. \A q \in Requests : FlightOK(flight[q])' 
      BY <1>f, <1>g DEF FlightOK, Carries
    <2> QED BY <1>t, <2>1, <2>2, <2>3 DEF RememberTypes
  <1>2. SecretsRetired'
    BY <1>t DEF SecretsRetired
  <1>3. OneReplacement'
    BY <1>t DEF OneReplacement
  <1>4. Latest'
    <2> SUFFICES ASSUME NEW q \in Requests, Delivers(flight'[q])
                 PROVE  LatestOf(q)'
      BY DEF Latest, Delivers
    <2>1. flight'[q] = flight[q] /\ LatestOf(q)
      BY <1>t DEF Latest
    <2>2. PICK k : k = flight[q].cookie
      OBVIOUS
    <2>k. k \in Given
      BY <2>1, <2>2, <1>f DEF FlightOK, Delivers
    <2>3. k.series \in Nat \ {0} /\ k.secret \in Nat
      BY <2>k, <1>t, GivenFacts DEF RememberTypes
    <2>4. \A r \in table' : r.series = k.series => r.secret = k.secret
      BY <2>1, <2>2 DEF LatestOf
    <2>5. \A b \in Browsers : jar'[b].series = k.series => jar'[b].secret < k.secret
      BY <2>1, <2>2, <2>3 DEF LatestOf, NoCookie
    <2>6. \A p \in Requests : Carries(flight'[p]) /\ flight'[p].cookie.series = k.series
                                 => flight'[p].cookie.secret < k.secret
      BY <2>1, <2>2 DEF LatestOf
    <2>7. \A p \in Requests \ {q} : Delivers(flight'[p]) => flight'[p].cookie.series # k.series
      BY <2>1, <2>2 DEF LatestOf
    <2> QED BY <2>1, <2>2, <2>4, <2>5, <2>6, <2>7 DEF LatestOf, Carries, Delivers
  <1> QED BY <1>1, <1>2, <1>3, <1>4 DEF RememberInv

\* A request's own move, where the rest of the store stays.
LEMMA RequestMoves ==
  ASSUME RememberInv, NEW q \in Requests, NEW f, FlightOK(f), ~Delivers(f),
         Carries(f) => \/ Carries(flight[q]) /\ f.cookie = flight[q].cookie
                       \/ \E b \in Browsers : jar[b] # NoCookie /\ f.cookie = jar[b],
         flight' = [flight EXCEPT ![q] = f],
         UNCHANGED <<table, jar, drawn, successor, revoked>>
  PROVE  RememberInv'
  <1>1. /\ RevokedStaysGone /\ RememberTypes
    BY DEF RememberInv
  <1>2. RevokedStaysGone' /\ revoked' \subseteq 1..drawn
    BY <1>1 DEF RevokedStaysGone, RememberTypes
  <1>3. /\ flight' = [p \in Requests |-> flight'[p]]
        /\ \A p \in Requests : flight'[p] = IF p = q THEN f ELSE flight[p]
    BY <1>1 DEF RememberTypes
  <1>4. /\ \A r1, r2 \in table' : r1.series = r2.series => r1 = r2
        /\ jar' = [b \in Browsers |-> jar'[b]]
    BY <1>1 DEF RememberTypes
  <1> QED BY <1>2, <1>3, <1>4, NothingNew

\* Rows are deleted and recorded as revoked, or none is.
LEMMA RowsGo ==
  ASSUME RememberInv, NEW gone \in SUBSET table, table' = table \ gone,
         revoked' \in {revoked, revoked \cup {r.series : r \in gone}},
         jar' = [b \in Browsers |-> jar'[b]], \A b \in Browsers : jar'[b] \in {jar[b], NoCookie},
         \/ flight' = flight
         \/ \E q \in Requests : \E f : /\ FlightOK(f) /\ ~Carries(f) /\ ~Delivers(f)
                                       /\ flight' = [flight EXCEPT ![q] = f],
         UNCHANGED <<drawn, successor>>
  PROVE  RememberInv'
  <1>1. RevokedStaysGone /\ RememberTypes
    BY DEF RememberInv
  <1>2. revoked' \subseteq 1..drawn
    BY <1>1 DEF RememberTypes
  <1>3. RevokedStaysGone'
    <2> SUFFICES ASSUME NEW r \in table, r \notin gone PROVE r.series \notin revoked'
      BY DEF RevokedStaysGone
    <2>1. \A o \in gone : o.series # r.series
      BY <1>1 DEF RememberTypes
    <2> QED BY <1>1, <2>1 DEF RevokedStaysGone
  <1>4. flight' = [p \in Requests |-> flight'[p]]
    BY <1>1 DEF RememberTypes
  <1>5. \A p \in Requests : \/ flight'[p] = flight[p]
                            \/ FlightOK(flight'[p]) /\ ~Delivers(flight'[p]) /\ ~Carries(flight'[p])
    BY <1>1 DEF RememberTypes
  <1>6. \A r1, r2 \in table' : r1.series = r2.series => r1 = r2
    BY <1>1 DEF RememberTypes
  <1>7. \A r \in table' : \E o \in table : o.series = r.series /\ o.secret = r.secret
    OBVIOUS
  <1> QED BY <1>2, <1>3, <1>4, <1>5, <1>6, <1>7, NothingNew

\* What a larger count of secrets makes of the types.
LEMMA DrawnGrows ==
  ASSUME drawn \in Nat, drawn' = drawn + 1
  PROVE  /\ Given \subseteq Given' /\ 1..drawn \subseteq 1..drawn'
         /\ drawn' \in 1..drawn' /\ drawn' \notin 1..drawn
         /\ \A f : FlightOK(f) => FlightOK(f)'
  BY DEF Given, FlightOK, Carries

LEMMA IssueKeeps ==
  ASSUME RememberInv, NEW b \in Browsers, NEW q \in Requests, Issue(b, q)
  PROVE  RememberInv'
  <1>t. /\ RememberTypes /\ SecretsRetired /\ OneReplacement /\ RevokedStaysGone /\ Latest
    BY DEF RememberInv
  <1>n. PICK n : n = drawn + 1
    OBVIOUS
  <1> DEFINE row == [series |-> n, secret |-> n, previous |-> 0, recent |-> FALSE, subject |-> OwnerOf[b]]
             new == [series |-> n, secret |-> n]
             f == [at |-> "replied", browser |-> b, outcome |-> "accepted", cookie |-> new]
  <1>0. /\ drawn' = n /\ table' = table \cup {row} /\ flight' = [flight EXCEPT ![q] = f]
        /\ UNCHANGED <<jar, successor, revoked>>
    BY <1>n DEF Issue, Step
  <1>1. drawn \in Nat /\ n \in Nat /\ n > drawn /\ n \notin 1..drawn
    BY <1>n, <1>t DEF RememberTypes
  <1>2. /\ row.series = n /\ row.secret = n /\ new.series = n /\ new.secret = n
        /\ f.at = "replied" /\ f.cookie = new /\ f.browser = b
    OBVIOUS
  <1>3. /\ Given \subseteq Given' /\ 1..drawn \subseteq 1..drawn' /\ n \in 1..drawn'
        /\ \A g : FlightOK(g) => FlightOK(g)'
    BY <1>n, <1>0, <1>1, DrawnGrows
  <1>4. new \in Given' /\ FlightOK(f)' /\ ~Carries(f)
    <2>1. new \in Given'
      BY <1>0, <1>3 DEF Given
    <2> QED BY <2>1 DEF FlightOK, Carries
  <1>f. /\ flight' = [p \in Requests |-> flight'[p]] /\ flight'[q] = f
        /\ \A p \in Requests \ {q} : flight'[p] = flight[p]
    BY <1>0, <1>t DEF RememberTypes
  <1> HIDE DEF row, new, f
  <1>5. RememberTypes'
    <2>1. \A r \in table' : r.series \in 1..drawn' /\ r.secret \in 1..drawn'
      BY <1>t, <1>0, <1>2, <1>3 DEF RememberTypes
    <2>2. \A r1, r2 \in table' : r1.series = r2.series => r1 = r2
      BY <1>t, <1>0, <1>1, <1>2 DEF RememberTypes
    <2>3. jar' = [c \in Browsers |-> jar'[c]] /\ \A c \in Browsers : jar'[c] \in Given' \cup {NoCookie}
      BY <1>t, <1>0, <1>3 DEF RememberTypes
    <2>4. \A p \in Requests : FlightOK(flight[p])'
      <3> SUFFICES ASSUME NEW p \in Requests PROVE FlightOK(flight[p])'
        OBVIOUS
      <3>1. CASE p = q
        BY <3>1, <1>f, <1>4 DEF FlightOK, Carries
      <3>2. CASE p # q
        <4>1. FlightOK(flight[p])
          BY <1>t DEF RememberTypes
        <4>2. flight'[p] = flight[p]
          BY <3>2, <1>f
        <4> QED BY <4>1, <4>2, <1>3 DEF FlightOK, Carries
      <3> QED BY <3>1, <3>2
    <2>5. revoked' \subseteq 1..drawn' /\ successor' \subseteq (1..drawn') \X (1..drawn') \X (1..drawn')
      BY <1>t, <1>0, <1>3 DEF RememberTypes
    <2> QED BY <1>t, <1>0, <1>1, <1>f, <2>1, <2>2, <2>3, <2>4, <2>5 DEF RememberTypes
  <1>6. SecretsRetired'
    <2>1. \A z \in successor : z[1] \in 1..drawn /\ z[1] # n
      BY <1>t, <1>1 DEF RememberTypes
    <2> QED BY <1>t, <1>0, <1>2, <2>1 DEF SecretsRetired
  <1>7. OneReplacement' /\ RevokedStaysGone'
    <2>1. n \notin revoked
      BY <1>t, <1>1 DEF RememberTypes
    <2> QED BY <1>t, <1>0, <1>2, <2>1 DEF OneReplacement, RevokedStaysGone
  <1>8. Latest'
    <2> SUFFICES ASSUME NEW p \in Requests, Delivers(flight'[p]) PROVE LatestOf(p)'
      BY DEF Latest, Delivers
    <2>j. \A c \in Browsers : jar[c].series # n
      <3> SUFFICES ASSUME NEW c \in Browsers PROVE jar[c].series # n
        OBVIOUS
      <3>1. jar[c] \in Given \/ jar[c].series = 0
        BY <1>t DEF RememberTypes, NoCookie
      <3> QED BY <3>1, <1>1, GivenFacts
    <2>c. \A x \in Requests \ {q} : Carries(flight[x]) \/ Delivers(flight[x])
                                       => flight[x].cookie.series # n
      <3> SUFFICES ASSUME NEW x \in Requests \ {q}, Carries(flight[x]) \/ Delivers(flight[x])
                   PROVE  flight[x].cookie.series # n
        OBVIOUS
      <3>1. flight[x].cookie \in Given
        BY <1>t DEF RememberTypes, FlightOK, Delivers
      <3> QED BY <3>1, <1>1, GivenFacts
    <2>1. CASE p = q
      <3>1. \A r \in table' : r.series = n => r.secret = n
        BY <1>t, <1>0, <1>1, <1>2 DEF RememberTypes
      <3>2. \A x \in Requests : Carries(flight'[x]) => flight'[x].cookie.series # n
        BY <2>c, <1>f, <1>4
      <3>3. \A x \in Requests \ {q} : Delivers(flight'[x]) => flight'[x].cookie.series # n
        BY <2>c, <1>f
      <3>4. flight'[q].cookie.series = n /\ flight'[q].cookie.secret = n /\ jar' = jar
        BY <1>0, <1>2, <1>f
      <3> QED BY <2>1, <2>j, <3>1, <3>2, <3>3, <3>4 DEF LatestOf, Carries, Delivers
    <2>2. CASE p # q
      <3>1. flight'[p] = flight[p] /\ Delivers(flight[p]) /\ LatestOf(p)
        BY <2>2, <1>f, <1>t DEF Latest
      <3>2. PICK h : h = flight[p].cookie
        OBVIOUS
      <3>3. h.series # n
        BY <3>1, <3>2, <2>2, <2>c
      <3>4. \A o \in table' : o.series = h.series => o.secret = h.secret
        BY <3>1, <3>2, <3>3, <1>0, <1>2 DEF LatestOf
      <3>5. \A x \in Requests : Carries(flight'[x]) /\ flight'[x].cookie.series = h.series
                                  => flight'[x].cookie.secret < h.secret
        BY <3>1, <3>2, <1>f, <1>4 DEF LatestOf
      <3>6. \A x \in Requests \ {p} : Delivers(flight'[x]) => flight'[x].cookie.series # h.series
        BY <3>1, <3>2, <3>3, <1>f, <1>2 DEF LatestOf
      <3>7. \A c \in Browsers : jar'[c].series = h.series => jar'[c].secret < h.secret
        BY <3>1, <3>2, <1>0 DEF LatestOf
      <3> QED BY <3>1, <3>2, <3>4, <3>5, <3>6, <3>7 DEF LatestOf, Carries, Delivers
    <2> QED BY <2>1, <2>2
  <1> QED BY <1>5, <1>6, <1>7, <1>8 DEF RememberInv

LEMMA RotateKeeps ==
  ASSUME RememberInv, NEW q \in Requests, RotateWin(q)
  PROVE  RememberInv'
  <1>t. /\ RememberTypes /\ SecretsRetired /\ OneReplacement /\ RevokedStaysGone /\ Latest
    BY DEF RememberInv
  <1>n. PICK n : n = drawn + 1
    OBVIOUS
  <1>k. PICK k : k = flight[q].cookie
    OBVIOUS
  <1>b. PICK b : b = flight[q].browser
    OBVIOUS
  <1>1. PICK r \in Unrotated(k) :
           /\ drawn' = n
           /\ table' = Replaced(r, Rotated(r, n))
           /\ successor' = successor \cup {<<r.series, k.secret, n>>}
           /\ flight' = [flight EXCEPT ![q] = [at |-> "replied", browser |-> b, outcome |-> "accepted",
                                               cookie |-> [series |-> r.series, secret |-> n]]]
           /\ UNCHANGED <<jar, revoked>>
    BY <1>n, <1>k, <1>b DEF RotateWin, Reply, Step
  <1> DEFINE row == Rotated(r, n)
             new == [series |-> r.series, secret |-> n]
             f == [at |-> "replied", browser |-> b, outcome |-> "accepted", cookie |-> new]
             z == <<r.series, k.secret, n>>
  <1>2. r \in table /\ r.series = k.series /\ r.secret = k.secret
    BY <1>1 DEF Unrotated
  <1>3. Carries(flight[q]) /\ k \in Given /\ b \in Browsers
    BY <1>t, <1>k, <1>b DEF RotateWin, Carries, RememberTypes, FlightOK
  <1>4. /\ drawn \in Nat /\ n \in Nat /\ n > drawn /\ n \notin 1..drawn
        /\ k.series \in 1..drawn /\ k.secret \in 1..drawn
    BY <1>n, <1>t, <1>3, GivenFacts DEF RememberTypes
  <1>5. row.series = k.series /\ row.secret = n /\ table' = (table \ {r}) \cup {row}
    BY <1>1, <1>2 DEF Rotated, Replaced
  <1>6. new.series = k.series /\ new.secret = n /\ f.at = "replied" /\ f.cookie = new /\ f.browser = b
    BY <1>2
  <1>7. z[1] = k.series /\ z[2] = k.secret /\ z[3] = n
    BY <1>2
  <1>8. /\ Given \subseteq Given' /\ 1..drawn \subseteq 1..drawn' /\ n \in 1..drawn'
        /\ \A g : FlightOK(g) => FlightOK(g)'
    BY <1>n, <1>1, <1>4, DrawnGrows
  <1>9. new \in Given' /\ FlightOK(f)'
    <2>1. new \in Given'
      BY <1>2, <1>4, <1>8 DEF Given
    <2> QED BY <2>1, <1>3 DEF FlightOK, Carries
  <1>z. z \in (1..drawn') \X (1..drawn') \X (1..drawn') /\ successor' = successor \cup {z}
    BY <1>1, <1>2, <1>4, <1>8
  <1>f. /\ flight' = [p \in Requests |-> flight'[p]] /\ flight'[q] = f
        /\ \A p \in Requests \ {q} : flight'[p] = flight[p]
    BY <1>1, <1>t DEF RememberTypes
  <1> HIDE DEF row, new, f, z
  <1>10. RememberTypes'
    <2>1. \A o \in table' : o.series \in 1..drawn' /\ o.secret \in 1..drawn'
      BY <1>t, <1>4, <1>5, <1>8 DEF RememberTypes
    <2>2. \A r1, r2 \in table' : r1.series = r2.series => r1 = r2
      BY <1>t, <1>2, <1>5 DEF RememberTypes
    <2>3. \A c \in Browsers : jar'[c] \in Given' \cup {NoCookie}
      BY <1>t, <1>1, <1>8 DEF RememberTypes
    <2>4. \A p \in Requests : FlightOK(flight[p])'
      <3> SUFFICES ASSUME NEW p \in Requests PROVE FlightOK(flight[p])'
        OBVIOUS
      <3>1. CASE p = q
        BY <3>1, <1>f, <1>9 DEF FlightOK, Carries
      <3>2. CASE p # q
        <4>1. FlightOK(flight[p])
          BY <1>t DEF RememberTypes
        <4>2. flight'[p] = flight[p]
          BY <3>2, <1>f
        <4> QED BY <4>1, <4>2, <1>8 DEF FlightOK, Carries
      <3> QED BY <3>1, <3>2
    <2>5. revoked' \subseteq 1..drawn' /\ successor' \subseteq (1..drawn') \X (1..drawn') \X (1..drawn')
      <3>1. successor \subseteq (1..drawn') \X (1..drawn') \X (1..drawn')
        BY <1>t, <1>8 DEF RememberTypes
      <3> QED BY <1>t, <1>1, <1>8, <1>z, <3>1 DEF RememberTypes
    <2> QED BY <1>t, <1>1, <1>4, <1>f, <2>1, <2>2, <2>3, <2>4, <2>5 DEF RememberTypes
  <1>11. SecretsRetired'
    <2>1. \A y \in successor : y[1] \in 1..drawn /\ y[3] \in 1..drawn
      BY <1>t DEF RememberTypes
    <2>2. \A o \in table \ {r} : o.series # k.series
      BY <1>t, <1>2 DEF RememberTypes
    <2>3. \A y \in successor : y[2] < y[3] /\ \A o \in table' : o.series = y[1] => o.secret >= y[3]
      BY <1>t, <1>4, <1>5, <2>1 DEF SecretsRetired
    <2>4. z[2] < z[3] /\ \A o \in table' : o.series = z[1] => o.secret >= z[3]
      BY <1>4, <1>5, <1>7, <2>2
    <2> QED BY <1>z, <2>3, <2>4 DEF SecretsRetired
  <1>12. OneReplacement'
    <2>1. \A y \in successor : ~(y[1] = k.series /\ y[2] = k.secret)
      <3> SUFFICES ASSUME NEW y \in successor, y[1] = k.series, y[2] = k.secret PROVE FALSE
        OBVIOUS
      <3>1. y[2] < y[3] /\ k.secret >= y[3] /\ y[3] \in Nat
        BY <1>t, <1>2 DEF SecretsRetired, RememberTypes
      <3> QED BY <3>1, <1>4
    <2> QED BY <1>t, <1>z, <1>7, <2>1 DEF OneReplacement
  <1>13. RevokedStaysGone'
    BY <1>t, <1>1, <1>2, <1>5 DEF RevokedStaysGone
  <1>14. Latest'
    <2> SUFFICES ASSUME NEW p \in Requests, Delivers(flight'[p]) PROVE LatestOf(p)'
      BY DEF Latest, Delivers
    <2>d. ASSUME NEW x \in Requests \ {q}, Delivers(flight[x]) PROVE flight[x].cookie.series # k.series
      <3> SUFFICES ASSUME flight[x].cookie.series = k.series PROVE FALSE
        OBVIOUS
      <3>1. LatestOf(x)
        BY <2>d, <1>t DEF Latest
      <3>2. k.secret = flight[x].cookie.secret
        BY <3>1, <1>2 DEF LatestOf
      <3>3. k.secret < flight[x].cookie.secret
        BY <3>1, <1>3, <1>k DEF LatestOf
      <3> QED BY <3>2, <3>3, <1>4
    <2>1. CASE p = q
      <3>1. \A o \in table' : o.series = k.series => o.secret = n
        BY <1>t, <1>2, <1>5 DEF RememberTypes
      <3>2. \A c \in Browsers : jar[c].series = k.series => jar[c].secret < n
        <4> SUFFICES ASSUME NEW c \in Browsers, jar[c].series = k.series PROVE jar[c].secret < n
          OBVIOUS
        <4>1. jar[c] \in Given
          BY <1>t, <1>4 DEF RememberTypes, NoCookie
        <4>2. jar[c].secret \in 1..drawn
          BY <4>1, <1>4, GivenFacts
        <4> QED BY <4>2, <1>4
      <3>3. \A x \in Requests : Carries(flight'[x]) /\ flight'[x].cookie.series = k.series
                                  => flight'[x].cookie.secret < n
        <4> SUFFICES ASSUME NEW x \in Requests, Carries(flight'[x]) PROVE flight'[x].cookie.secret < n
          OBVIOUS
        <4>1. x # q
          BY <1>f, <1>6 DEF Carries
        <4>2. flight'[x] = flight[x]
          BY <4>1, <1>f
        <4>3. flight[x].cookie \in Given
          BY <4>2, <1>t DEF RememberTypes, FlightOK
        <4>4. flight[x].cookie.secret \in 1..drawn
          BY <4>3, <1>4, GivenFacts
        <4> QED BY <4>2, <4>4, <1>4
      <3>4. \A x \in Requests \ {q} : Delivers(flight'[x]) => flight'[x].cookie.series # k.series
        BY <2>d, <1>f
      <3>5. flight'[q].cookie = new /\ jar' = jar
        BY <1>1, <1>6, <1>f
      <3> QED BY <2>1, <3>1, <3>2, <3>3, <3>4, <3>5, <1>6 DEF LatestOf, Carries, Delivers
    <2>2. CASE p # q
      <3>1. flight'[p] = flight[p] /\ Delivers(flight[p]) /\ LatestOf(p)
        BY <2>2, <1>f, <1>t DEF Latest
      <3>2. PICK h : h = flight[p].cookie
        OBVIOUS
      <3>3. h.series # k.series
        BY <3>1, <3>2, <2>2, <2>d
      <3>4. \A o \in table' : o.series = h.series => o.secret = h.secret
        BY <3>1, <3>2, <3>3, <1>5 DEF LatestOf
      <3>5. \A x \in Requests : Carries(flight'[x]) /\ flight'[x].cookie.series = h.series
                                  => flight'[x].cookie.secret < h.secret
        BY <3>1, <3>2, <1>f, <1>6 DEF LatestOf, Carries
      <3>6. \A x \in Requests \ {p} : Delivers(flight'[x]) => flight'[x].cookie.series # h.series
        BY <3>1, <3>2, <3>3, <1>f, <1>6 DEF LatestOf
      <3>7. \A c \in Browsers : jar'[c].series = h.series => jar'[c].secret < h.secret
        BY <3>1, <3>2, <1>1 DEF LatestOf
      <3> QED BY <3>1, <3>2, <3>4, <3>5, <3>6, <3>7 DEF LatestOf, Carries, Delivers
    <2> QED BY <2>1, <2>2
  <1> QED BY <1>10, <1>11, <1>12, <1>13, <1>14 DEF RememberInv

\* What a browser may find in its jar once a response arrived.
LEMMA ReceiveJar ==
  ASSUME RememberInv, NEW q \in Requests, Receive(q)
  PROVE  /\ jar' = [b \in Browsers |-> jar'[b]]
         /\ \A c \in Browsers \ {flight[q].browser} : jar'[c] = jar[c]
         /\ flight[q].browser \in Browsers
         /\ \/ jar'[flight[q].browser] \in {jar[flight[q].browser], NoCookie}
            \/ Delivers(flight[q]) /\ jar'[flight[q].browser] = flight[q].cookie
  <1>1. flight[q].browser \in Browsers /\ flight[q].at = "replied"
    BY DEF RememberInv, RememberTypes, FlightOK, Receive
  <1> QED BY <1>1 DEF Receive, RememberInv, RememberTypes, Delivers

LEMMA ReceiveKeeps ==
  ASSUME RememberInv, NEW q \in Requests, Receive(q)
  PROVE  RememberInv'
  <1>t. /\ RememberTypes /\ SecretsRetired /\ OneReplacement /\ RevokedStaysGone /\ Latest
    BY DEF RememberInv
  <1>k. PICK k : k = flight[q].cookie
    OBVIOUS
  <1>b. PICK b : b = flight[q].browser
    OBVIOUS
  <1>1. /\ flight' = [flight EXCEPT ![q] = Idle]
        /\ UNCHANGED <<table, drawn, successor, revoked>>
    BY DEF Receive, Step
  <1>2. FlightOK(Idle) /\ ~Carries(Idle) /\ ~Delivers(Idle)
    BY DEF Idle, FlightOK, Carries, Delivers
  <1>3. /\ jar' = [c \in Browsers |-> jar'[c]] /\ b \in Browsers
        /\ \A c \in Browsers \ {b} : jar'[c] = jar[c]
        /\ \/ jar'[b] \in {jar[b], NoCookie}
           \/ Delivers(flight[q]) /\ jar'[b] = k
    BY <1>k, <1>b, ReceiveJar
  <1>4. CASE jar'[b] \in {jar[b], NoCookie}
    <2>1. \A c \in Browsers : jar'[c] \in {jar[c], NoCookie}
      BY <1>3, <1>4
    <2>2. {} \in SUBSET table /\ table' = table \ {} /\ revoked' = revoked
      BY <1>1
    <2>3. UNCHANGED <<drawn, successor>>
      BY <1>1
    <2> QED BY <1>1, <1>2, <1>3, <2>1, <2>2, <2>3, RowsGo
  <1>5. CASE Delivers(flight[q]) /\ jar'[b] = k
    <2>1. LatestOf(q) /\ k \in Given
      BY <1>t, <1>k, <1>5 DEF Latest, RememberTypes, FlightOK, Delivers
    <2>g. Given' = Given
      BY <1>1 DEF Given
    <2>f. /\ flight' = [p \in Requests |-> flight'[p]] /\ flight'[q] = Idle
          /\ \A p \in Requests \ {q} : flight'[p] = flight[p]
      BY <1>1, <1>t DEF RememberTypes
    <2>2. RememberTypes'
      <3>1. \A c \in Browsers : jar'[c] \in Given' \cup {NoCookie}
        BY <1>t, <1>3, <1>5, <2>1, <2>g DEF RememberTypes
      <3>2. \A p \in Requests : FlightOK(flight'[p])
        BY <1>t, <1>2, <2>f DEF RememberTypes
      <3>3. \A p \in Requests : FlightOK(flight[p])'
        BY <3>2, <2>g DEF FlightOK, Carries
      <3> QED BY <1>t, <1>1, <1>3, <2>f, <3>1, <3>3 DEF RememberTypes
    <2>3. SecretsRetired' /\ OneReplacement' /\ RevokedStaysGone'
      BY <1>t, <1>1 DEF SecretsRetired, OneReplacement, RevokedStaysGone
    <2>4. Latest'
      <3> SUFFICES ASSUME NEW p \in Requests, Delivers(flight'[p]) PROVE LatestOf(p)'
        BY DEF Latest, Delivers
      <3>1. p # q
        BY <2>f, <1>2
      <3>2. flight'[p] = flight[p] /\ Delivers(flight[p]) /\ LatestOf(p)
        BY <3>1, <2>f, <1>t DEF Latest
      <3>3. PICK h : h = flight[p].cookie
        OBVIOUS
      <3>4. h.series # k.series
        BY <2>1, <3>1, <3>2, <3>3, <1>k DEF LatestOf
      <3>5. \A c \in Browsers : jar'[c].series = h.series => jar'[c].secret < h.secret
        BY <3>2, <3>3, <3>4, <1>3, <1>5 DEF LatestOf
      <3>6. \A x \in Requests : Carries(flight'[x]) /\ flight'[x].cookie.series = h.series
                                  => flight'[x].cookie.secret < h.secret
        BY <3>2, <3>3, <2>f, <1>2 DEF LatestOf
      <3>7. \A x \in Requests \ {p} : Delivers(flight'[x]) => flight'[x].cookie.series # h.series
        BY <3>2, <3>3, <2>f, <1>2 DEF LatestOf
      <3>8. \A r \in table' : r.series = h.series => r.secret = h.secret
        BY <3>2, <3>3, <1>1 DEF LatestOf
      <3> QED BY <3>2, <3>3, <3>5, <3>6, <3>7, <3>8 DEF LatestOf, Carries, Delivers
    <2> QED BY <2>2, <2>3, <2>4 DEF RememberInv
  <1> QED BY <1>3, <1>4, <1>5

\* The moves of one request that give nothing out.
LEMMA FlightSteps ==
  ASSUME RememberInv, NEW q \in Requests,
         \/ \E b \in Browsers : Send(b, q)
         \/ PresentMiss(q) \/ PresentRead(q) \/ RotateLose(q) \/ Lose(q) \/ Fail(q)
  PROVE  RememberInv'
  <1>t. RememberTypes
    BY DEF RememberInv
  <1>q. FlightOK(flight[q])
    BY <1>t DEF RememberTypes
  <1>i. FlightOK(Idle) /\ ~Carries(Idle) /\ ~Delivers(Idle)
    BY DEF Idle, FlightOK, Carries, Delivers
  <1> DEFINE said(o) == [at |-> "replied", browser |-> flight[q].browser, outcome |-> o,
                         cookie |-> NoCookie]
             on(a, s) == [at |-> a, browser |-> flight[q].browser, cookie |-> flight[q].cookie,
                          subject |-> s]
  <1>s. ASSUME NEW o, Carries(flight[q])
        PROVE  FlightOK(said(o)) /\ ~Carries(said(o)) /\ ~Delivers(said(o))
    BY <1>q, <1>s DEF FlightOK, Carries, Delivers
  <1>o. ASSUME NEW a \in {"rotating", "cascading"}, NEW s, Carries(flight[q])
        PROVE  /\ FlightOK(on(a, s)) /\ ~Delivers(on(a, s))
               /\ on(a, s).cookie = flight[q].cookie
    BY <1>q, <1>o DEF FlightOK, Carries, Delivers
  <1>1. CASE \E b \in Browsers : Send(b, q)
    <2>1. PICK b \in Browsers : Send(b, q)
      BY <1>1
    <2> DEFINE f == [at |-> "sent", browser |-> b, cookie |-> jar[b]]
    <2>2. /\ flight' = [flight EXCEPT ![q] = f] /\ jar[b] # NoCookie
          /\ UNCHANGED <<table, jar, drawn, successor, revoked>>
      BY <2>1 DEF Send, Step
    <2>3. jar[b] \in Given
      BY <1>t, <2>2 DEF RememberTypes
    <2>4. FlightOK(f) /\ ~Delivers(f) /\ f.cookie = jar[b]
      BY <2>3 DEF FlightOK, Carries, Delivers
    <2> HIDE DEF f
    <2> QED BY <2>2, <2>4, RequestMoves
  <1>2. CASE PresentMiss(q)
    <2>1. /\ flight' = [flight EXCEPT ![q] = said("unrecognised")] /\ Carries(flight[q])
          /\ UNCHANGED <<table, jar, drawn, successor, revoked>>
      BY <1>2 DEF PresentMiss, Reply, Step, Carries
    <2>2. FlightOK(said("unrecognised")) /\ ~Carries(said("unrecognised")) /\ ~Delivers(said("unrecognised"))
      BY <2>1, <1>s
    <2> HIDE DEF said
    <2> QED BY <2>1, <2>2, RequestMoves
  <1>3. CASE PresentRead(q)
    <2>1. /\ Carries(flight[q]) /\ UNCHANGED <<table, jar, drawn, successor, revoked>>
          /\ \/ flight' = [flight EXCEPT ![q] = said("accepted")]
             \/ \E a \in {"rotating", "cascading"} : \E s : flight' = [flight EXCEPT ![q] = on(a, s)]
      <3>1. PICK r \in Found(flight[q].cookie) :
              \/ flight' = [flight EXCEPT ![q] = said("accepted")]
              \/ flight' = [flight EXCEPT ![q] = on("rotating", r.subject)]
              \/ flight' = [flight EXCEPT ![q] = on("cascading", r.subject)]
        BY <1>3 DEF PresentRead, Reply, Step
      <3> HIDE DEF said, on
      <3> QED BY <1>3, <3>1 DEF PresentRead, Carries
    <2>2. CASE flight' = [flight EXCEPT ![q] = said("accepted")]
      <3>1. FlightOK(said("accepted")) /\ ~Carries(said("accepted")) /\ ~Delivers(said("accepted"))
        BY <2>1, <1>s
      <3> HIDE DEF said, on
      <3> QED BY <2>1, <2>2, <3>1, RequestMoves
    <2>3. ASSUME NEW a \in {"rotating", "cascading"}, NEW s, flight' = [flight EXCEPT ![q] = on(a, s)]
          PROVE  RememberInv'
      <3>1. FlightOK(on(a, s)) /\ ~Delivers(on(a, s)) /\ on(a, s).cookie = flight[q].cookie
        BY <2>1, <1>o
      <3> HIDE DEF said, on
      <3> QED BY <2>1, <2>3, <3>1, RequestMoves
    <2> HIDE DEF said, on
    <2> QED BY <2>1, <2>2, <2>3
  <1>4. CASE RotateLose(q)
    <2>1. /\ flight' = [flight EXCEPT ![q] = said("accepted")] /\ Carries(flight[q])
          /\ UNCHANGED <<table, jar, drawn, successor, revoked>>
      BY <1>4 DEF RotateLose, Reply, Step, Carries
    <2>2. FlightOK(said("accepted")) /\ ~Carries(said("accepted")) /\ ~Delivers(said("accepted"))
      BY <2>1, <1>s
    <2> HIDE DEF said
    <2> QED BY <2>1, <2>2, RequestMoves
  <1>5. CASE Lose(q) \/ Fail(q)
    <2>1. /\ flight' = [flight EXCEPT ![q] = Idle]
          /\ UNCHANGED <<table, jar, drawn, successor, revoked>>
      BY <1>5 DEF Lose, Fail, Step
    <2> QED BY <2>1, <1>i, RequestMoves
  <1> QED BY <1>1, <1>2, <1>3, <1>4, <1>5

\* Every way a row leaves the table.
LEMMA DeleteSteps ==
  ASSUME RememberInv,
         \/ \E q \in Requests : Cascade(q)
         \/ \E b \in Browsers : SignOut(b)
         \/ \E s \in Subjects : SignOutEverywhere(s)
         \/ SweepRemembered
  PROVE  RememberInv'
  <1>t. RememberTypes
    BY DEF RememberInv
  <1>j. jar' = jar => /\ jar' = [b \in Browsers |-> jar'[b]]
                      /\ \A b \in Browsers : jar'[b] \in {jar[b], NoCookie}
    BY <1>t DEF RememberTypes
  <1>1. CASE \E q \in Requests : Cascade(q)
    <2>1. PICK q \in Requests : Cascade(q)
      BY <1>1
    <2>s. PICK s : s = flight[q].subject
      OBVIOUS
    <2>2. PICK f : f = [at |-> "replied", browser |-> flight[q].browser, outcome |-> "theft",
                        cookie |-> NoCookie]
      OBVIOUS
    <2>3. FlightOK(f) /\ ~Carries(f) /\ ~Delivers(f)
      BY <1>t, <2>1, <2>2 DEF Cascade, RememberTypes, FlightOK, Carries, Delivers
    <2>4. /\ RowsOf(s) \in SUBSET table /\ table' = table \ RowsOf(s)
          /\ revoked' = revoked \cup {r.series : r \in RowsOf(s)}
          /\ flight' = [flight EXCEPT ![q] = f] /\ UNCHANGED <<jar, drawn, successor>>
      BY <2>1, <2>2, <2>s DEF Cascade, RowsOf, SeriesOf, Reply, Step
    <2> HIDE DEF RowsOf
    <2> QED BY <2>3, <2>4, <1>j, RowsGo
  <1>2. CASE \E b \in Browsers : SignOut(b)
    <2>1. PICK b \in Browsers : SignOut(b)
      BY <1>2
    <2>2. PICK gone : gone = {r \in table : r.series = jar[b].series}
      OBVIOUS
    <2>3. /\ gone \in SUBSET table /\ table' = table \ gone
          /\ revoked' = revoked \cup {r.series : r \in gone}
          /\ jar' = [jar EXCEPT ![b] = NoCookie] /\ UNCHANGED <<flight, drawn, successor>>
      BY <2>1, <2>2 DEF SignOut
    <2>4. /\ jar' = [c \in Browsers |-> jar'[c]]
          /\ \A c \in Browsers : jar'[c] \in {jar[c], NoCookie}
      BY <1>t, <2>3 DEF RememberTypes
    <2> QED BY <2>3, <2>4, RowsGo
  <1>3. CASE \E s \in Subjects : SignOutEverywhere(s)
    <2>1. PICK s \in Subjects : SignOutEverywhere(s)
      BY <1>3
    <2>2. /\ RowsOf(s) \in SUBSET table /\ table' = table \ RowsOf(s)
          /\ revoked' = revoked \cup {r.series : r \in RowsOf(s)}
          /\ UNCHANGED <<jar, flight, drawn, successor>>
      BY <2>1 DEF SignOutEverywhere, RowsOf, SeriesOf
    <2> QED BY <2>2, <1>j, RowsGo
  <1>4. CASE SweepRemembered
    <2>1. PICK gone : gone = {r \in table : r.series \in expired}
      OBVIOUS
    <2>2. /\ gone \in SUBSET table /\ table' = table \ gone
          /\ revoked' = revoked \cup {r.series : r \in gone}
          /\ UNCHANGED <<jar, flight, drawn, successor>>
      BY <1>4, <2>1 DEF SweepRemembered
    <2> QED BY <2>2, <1>j, RowsGo
  <1> QED BY <1>1, <1>2, <1>3, <1>4

\* A lapsed grace period changes no secret.
LEMMA LapseKeeps ==
  ASSUME RememberInv, NEW r \in table, GraceLapses(r)
  PROVE  RememberInv'
  <1>t. /\ RememberTypes /\ RevokedStaysGone
    BY DEF RememberInv
  <1>1. PICK new : new = [r EXCEPT !.recent = FALSE]
    OBVIOUS
  <1>2. /\ table' = (table \ {r}) \cup {new}
        /\ UNCHANGED <<jar, flight, drawn, successor, revoked>>
    BY <1>1 DEF GraceLapses, Replaced
  <1>3. new.series = r.series /\ new.secret = r.secret
    BY <1>1
  <1>4. \A o \in table' : \E p \in table : p.series = o.series /\ p.secret = o.secret
    BY <1>2, <1>3
  <1>5. \A r1, r2 \in table' : r1.series = r2.series => r1 = r2
    BY <1>t, <1>2, <1>3 DEF RememberTypes
  <1>6. RevokedStaysGone'
    BY <1>t, <1>2, <1>3 DEF RevokedStaysGone
  <1>7. /\ jar' = [b \in Browsers |-> jar'[b]] /\ flight' = [q \in Requests |-> flight'[q]]
        /\ revoked' \subseteq 1..drawn
    BY <1>t, <1>2 DEF RememberTypes
  <1> QED BY <1>2, <1>4, <1>5, <1>6, <1>7, NothingNew

LEMMA RememberStep ==
  ASSUME RememberInv, [Next]_vars
  PROVE  RememberInv'
  <1>1. CASE \E b \in Browsers, q \in Requests : Issue(b, q)
    BY <1>1, IssueKeeps
  <1>2. CASE \E q \in Requests : RotateWin(q)
    BY <1>2, RotateKeeps
  <1>3. CASE \E q \in Requests : Receive(q)
    BY <1>3, ReceiveKeeps
  <1>4. CASE \E q \in Requests : \/ \E b \in Browsers : Send(b, q)
                                 \/ PresentMiss(q) \/ PresentRead(q) \/ RotateLose(q)
                                 \/ Lose(q) \/ Fail(q)
    BY <1>4, FlightSteps
  <1>5. CASE \/ \E q \in Requests : Cascade(q)
             \/ \E b \in Browsers : SignOut(b)
             \/ \E s \in Subjects : SignOutEverywhere(s)
             \/ SweepRemembered
    BY <1>5, DeleteSteps
  <1>6. CASE \E r \in table : GraceLapses(r)
    BY <1>6, LapseKeeps
  <1>7. CASE (\E r \in table : Expire(r)) \/ UNCHANGED vars
    <2>1. UNCHANGED <<table, jar, flight, drawn, successor, revoked>>
      BY <1>7 DEF Expire, vars
    <2> QED BY <2>1 DEF RememberInv, RememberTypes, SecretsRetired, OneReplacement,
                RevokedStaysGone, Latest, LatestOf, FlightOK, Carries, Delivers, Given
  <1> QED BY <1>1, <1>2, <1>3, <1>4, <1>5, <1>6, <1>7 DEF Next

\* No step moves a cookie back within its series.
LEMMA JarStep ==
  ASSUME RememberInv, [Next]_vars, NEW b \in Browsers,
         jar[b] # NoCookie, jar'[b] # NoCookie, jar'[b].series = jar[b].series
  PROVE  jar'[b].secret >= jar[b].secret
  <1>t. RememberTypes /\ Latest
    BY DEF RememberInv
  <1>1. jar[b] \in Given /\ drawn \in Nat
    BY <1>t DEF RememberTypes
  <1>2. jar[b].series \in 1..drawn /\ jar[b].secret \in Nat
    BY <1>1, GivenFacts
  <1>3. CASE jar'[b] = jar[b]
    BY <1>2, <1>3
  <1>5. ASSUME NEW c \in Browsers, SignOut(c)
        PROVE  jar'[b] = jar[b]
    BY <1>t, <1>5 DEF SignOut, RememberTypes
  <1>6. ASSUME NEW q \in Requests, Receive(q), jar'[b] # jar[b]
        PROVE  jar'[b].secret >= jar[b].secret
    <2>1. Delivers(flight[q]) /\ jar'[b] = flight[q].cookie
      BY <1>6, ReceiveJar
    <2>2. LatestOf(q) /\ flight[q].cookie \in Given
      BY <1>t, <2>1 DEF Latest, RememberTypes, FlightOK, Delivers
    <2>3. jar[b].secret < flight[q].cookie.secret /\ flight[q].cookie.secret \in Nat
      BY <1>1, <2>1, <2>2, GivenFacts DEF LatestOf
    <2> QED BY <1>2, <2>1, <2>3
  <1>7. CASE UNCHANGED jar
    BY <1>3, <1>7
  <1>8. \/ \E c \in Browsers : SignOut(c)
        \/ \E q \in Requests : Receive(q)
        \/ UNCHANGED jar
    BY DEF Next, vars, Issue, Send, PresentMiss, PresentRead, RotateWin, RotateLose, Cascade, Lose, Fail,
           SignOutEverywhere, GraceLapses, Expire, SweepRemembered
  <1> QED BY <1>3, <1>5, <1>6, <1>7, <1>8

LEMMA RememberStart ==
  ASSUME Init
  PROVE  RememberInv
  <1>1. FlightOK(Idle) /\ ~Delivers(Idle)
    BY DEF Idle, FlightOK, Carries, Delivers
  <1>2. RememberTypes
    BY <1>1 DEF Init, RememberTypes
  <1> QED BY <1>1, <1>2 DEF Init, RememberInv, SecretsRetired, OneReplacement, RevokedStaysGone, Latest

\* The inductive invariant of the rotation.
THEOREM RememberInvariant == Spec => []RememberInv
  BY RememberStart, RememberStep, PTL DEF Spec

\* ROTATE's compare-and-swap forks no series.
THEOREM ReplacementCorrect == Spec => []OneReplacement
  <1>1. RememberInv => OneReplacement
    BY DEF RememberInv
  <1> QED BY <1>1, RememberInvariant, PTL

\* No statement of present brings a deleted row back.
THEOREM RevokedCorrect == Spec => []RevokedStaysGone
  <1>1. RememberInv => RevokedStaysGone
    BY DEF RememberInv
  <1> QED BY <1>1, RememberInvariant, PTL

\* In whatever order responses arrive, a browser's cookie only moves forward.
THEOREM AdvanceCorrect == Spec => CookieOnlyAdvances
  <1>1. RememberInv /\ [Next]_vars =>
          [\A b \in Browsers :
             jar[b] # NoCookie /\ jar'[b] # NoCookie /\ jar'[b].series = jar[b].series
                 => jar'[b].secret >= jar[b].secret]_vars
    BY JarStep
  <1> QED BY <1>1, RememberInvariant, PTL DEF Spec, CookieOnlyAdvances

(***************************************************************************)
(* Client addresses                                                        *)
(***************************************************************************)
\* An address as its host may write it.
NamedBy(addr, hosts) == \E h \in hosts : addr \in Written(h)

\* The host the request is put down to stands at w (past the end: it is the holder),
\* trusted proxies stand behind it.
StandsAt(w) ==
    /\ IF w = Len(header) + 1 THEN holder = who
       ELSE header[w].addr \in Written(who) /\ holder \in proxies
    /\ \A i \in (w + 1)..Len(header) : NamedBy(header[i].addr, proxies)
    /\ Trusted(who) /\ w # 1 => header[w - 1].addr = Junk

\* From n on every line can be read, or none can up to some entry past n and then
\* every one.
ReadableFrom(n) ==
    \/ \A i \in DOMAIN header : i >= n => header[i].readable
    \/ \E m \in DOMAIN header :
          /\ m >= n
          /\ \A i \in 1..m : ~header[i].readable
          /\ \A i \in (m + 1)..Len(header) : header[i].readable

Traced == \E w \in 1..(Len(header) + 1) :
    StandsAt(w) /\ ReadableFrom(IF Trusted(who) THEN w - 1 ELSE w)

\* What may stand in the header.
AnyAddress == [fam : Families \cup {"mapped", "none"}, bits : Nat]

AddressTypes ==
    /\ header \in Seq([addr : AnyAddress, readable : BOOLEAN])
    /\ holder \in Hosts /\ who \in Hosts /\ proxies \subseteq Hosts
    /\ \A p \in proxies : Trusted(p)

AddressInv == AddressTypes /\ (clientIp = Unresolved => Traced) /\ ClientIsReal

LEMMA AddressForms ==
  /\ Junk \in AnyAddress /\ Hosts \subseteq AnyAddress
  /\ \A h \in Hosts : Written(h) \subseteq AnyAddress
  <1>1. Junk \in AnyAddress
    BY DEF Junk, AnyAddress
  <1>2. Hosts \subseteq AnyAddress
    BY AddressConstants DEF AnyAddress
  <1>3. ASSUME NEW h \in Hosts, NEW a \in Written(h) PROVE a \in AnyAddress
    <2>1. h \in AnyAddress
      BY <1>2
    <2>2. [h EXCEPT !.fam = "mapped"] \in AnyAddress
      BY <2>1 DEF AnyAddress
    <2> QED BY <2>1, <2>2 DEF Written
  <1> QED BY <1>1, <1>2, <1>3

LEMMA MaxIs ==
  ASSUME NEW S \in SUBSET Int, NEW x \in S, \A y \in S : x >= y
  PROVE  Max(S) = x
  <1>1. \A z \in S : (\A y \in S : z >= y) => z = x
    OBVIOUS
  <1>2. Max(S) \in S /\ \A y \in S : Max(S) >= y
    BY Zenon DEF Max
  <1> QED BY <1>1, <1>2

LEMMA MinIs ==
  ASSUME NEW S \in SUBSET Int, NEW x \in S, \A y \in S : x =< y
  PROVE  Min(S) = x
  <1>1. \A z \in S : (\A y \in S : z =< y) => z = x
    OBVIOUS
  <1>2. Min(S) \in S /\ \A y \in S : Min(S) =< y
    BY Zenon DEF Min
  <1> QED BY <1>1, <1>2

\* An address is the same host, and as much trusted, in either form.
LEMMA WrittenFacts ==
  ASSUME NEW h \in Hosts, NEW a \in Written(h)
  PROVE  Canonical(a) = h /\ a # Junk /\ h # Junk /\ (Trusted(a) <=> Trusted(h)) /\ h \in Written(h)
  <1>1. h \in [fam : Families, bits : Nat]
    BY AddressConstants
  <1>2. h.fam \in {"v4", "v6"} /\ h = [fam |-> h.fam, bits |-> h.bits]
    BY <1>1 DEF Families
  <1>3. h # Junk /\ Canonical(h) = h
    BY <1>2 DEF Junk, Canonical
  <1>4. CASE a = h
    BY <1>3, <1>4 DEF Written
  <1>5. CASE a # h
    <2>1. h.fam = "v4" /\ a = [fam |-> "mapped", bits |-> h.bits]
      BY <1>2, <1>5 DEF Written
    <2>2. a.fam = "mapped" /\ a # Junk
      BY <2>1 DEF Junk
    <2>3. Canonical(a) = [fam |-> "v4", bits |-> h.bits]
      BY <2>1, <2>2 DEF Canonical
    <2>4. Canonical(a) = h
      BY <1>2, <2>1, <2>3
    <2> QED BY <1>3, <2>2, <2>4 DEF Trusted, NetContains, Written
  <1> QED BY <1>4, <1>5

\* What the walk finds when it ends at a trusted run of entries from n on.
LEMMA Resolves ==
  ASSUME AddressTypes, NEW peer, Trusted(peer), NEW stop \in Nat, NEW n \in 1..(Len(header) + 1),
         stop < n,
         stop # 0 => stop \in Chain /\ (header[stop].addr = Junk \/ ~Trusted(header[stop].addr)),
         \A i \in Chain : i > stop => /\ i >= n
                                     /\ header[i].addr # Junk /\ Trusted(header[i].addr),
         n # Len(header) + 1 => n \in Chain
  PROVE  ResolveClient(peer) =
            Canonical(IF stop # 0 /\ header[stop].addr # Junk THEN header[stop].addr
                      ELSE IF n = Len(header) + 1 THEN peer ELSE header[n].addr)
  <1> DEFINE stops == {i \in Chain : header[i].addr = Junk \/ ~Trusted(header[i].addr)}
             passed == {i \in Chain : i > stop}
  <1>l. PICK len : len = Len(header)
    OBVIOUS
  <1>1. /\ len \in Nat /\ stop \in Nat /\ n \in 1..(len + 1) /\ stop < n
        /\ \A i \in Chain : i \in Int /\ i >= 1 /\ i <= len
        /\ \A i \in Chain : i > stop => i >= n
        /\ \A i \in stops : i \in Chain /\ ~(i > stop)
        /\ stop # 0 => stop \in stops
        /\ n # len + 1 => n \in Chain
    BY <1>l DEF Chain, AddressTypes
  <1>2. Stop = stop
    <2> HIDE DEF stops
    <2>1. {0} \cup stops \in SUBSET Int /\ stop \in {0} \cup stops
      BY <1>1
    <2>2. \A y \in {0} \cup stops : stop >= y
      BY <1>1
    <2>3. Max({0} \cup stops) = stop
      BY <2>1, <2>2, MaxIs
    <2> QED BY <2>3 DEF Stop, stops
  <1>3. Nearest(peer) = IF n = Len(header) + 1 THEN peer ELSE header[n].addr
    <2>1. CASE n = Len(header) + 1
      <3>1. passed = {}
        BY <1>1, <1>l, <2>1
      <3> QED BY <2>1, <3>1, <1>2 DEF Nearest
    <2>2. CASE n # Len(header) + 1
      <3>1. n \in passed /\ passed \in SUBSET Int /\ \A y \in passed : n =< y
        BY <1>1, <1>l, <2>2
      <3> HIDE DEF passed
      <3>2. Min(passed) = n /\ passed # {}
        BY <3>1, MinIs
      <3> QED BY <2>2, <3>2, <1>2 DEF Nearest, passed
    <2> QED BY <2>1, <2>2
  <1> QED BY <1>2, <1>3 DEF ResolveClient

LEMMA ServeKeeps ==
  ASSUME AddressInv, NEW peer \in Written(holder), Serve(peer)
  PROVE  AddressInv'
  <1>t. AddressTypes /\ Traced
    BY DEF AddressInv, Serve
  <1>n. Len(header) \in Nat /\ DOMAIN header = 1..Len(header)
    BY <1>t DEF AddressTypes
  <1> DEFINE L == Len(header)
  <1>w. PICK w \in 1..(Len(header) + 1) :
           StandsAt(w) /\ ReadableFrom(IF Trusted(who) THEN w - 1 ELSE w)
    BY <1>t DEF Traced
  <1>h. holder \in Hosts /\ who \in Hosts /\ \A p \in proxies : p \in Hosts /\ Trusted(p)
    BY <1>t DEF AddressTypes
  <1>p. Canonical(peer) = holder /\ (Trusted(peer) <=> Trusted(holder))
    BY <1>h, WrittenFacts
  <1>b. \A i \in (w + 1)..L : /\ header[i].addr # Junk /\ Trusted(header[i].addr)
                              /\ Canonical(header[i].addr) \in proxies
    BY <1>w, <1>h, WrittenFacts DEF StandsAt, NamedBy
  <1>a. w <= L => /\ header[w].addr # Junk /\ Canonical(header[w].addr) = who
                  /\ Trusted(header[w].addr) <=> Trusted(who)
                  /\ holder \in proxies /\ Trusted(peer)
    BY <1>n, <1>w, <1>h, <1>p, WrittenFacts DEF StandsAt
  <1>e. w = L + 1 => holder = who
    BY <1>w DEF StandsAt
  <1>s. Trusted(who) /\ w # 1 => header[w - 1].addr = Junk
    BY <1>w DEF StandsAt
  <1>u. clientIp' = ResolveClient(peer) /\ UNCHANGED <<trusted, holder, header, who, proxies>>
    BY DEF Serve
  <1> HIDE DEF L
  <1>1. \/ ResolveClient(peer) = who
        \/ ResolveClient(peer) \in proxies /\ \E i \in DOMAIN header : ~header[i].readable
    <2>1. CASE ~Trusted(peer)
      <3>1. ResolveClient(peer) = holder /\ w = L + 1
        BY <2>1, <1>p, <1>a, <1>w, <1>n DEF ResolveClient, L
      <3> QED BY <3>1, <1>e
    <2>2. ASSUME Trusted(peer), NEW n, n = (IF Trusted(who) THEN w - 1 ELSE w),
                 \A i \in DOMAIN header : i >= n => header[i].readable
          PROVE  ResolveClient(peer) = who
      <3>c. \A i \in DOMAIN header : i >= n => i \in Chain
        BY <2>2 DEF Chain
      <3>d. \A i \in Chain : i \in 1..L
        BY <1>n DEF Chain, L
      <3>1. CASE ~Trusted(who)
        <4>1. w \in 1..L
          BY <3>1, <2>2, <1>e, <1>p, <1>w, <1>n DEF L
        <4>2. w \in Chain /\ ~Trusted(header[w].addr) /\ header[w].addr # Junk
          BY <3>1, <3>c, <2>2, <4>1, <1>n, <1>a DEF L
        <4>3. w + 1 \in 1..(Len(header) + 1) /\ w \in Nat /\ w < w + 1 /\ w # 0
          BY <4>1, <1>n DEF L
        <4>4. \A i \in Chain : i > w => /\ i >= w + 1
                                       /\ header[i].addr # Junk /\ Trusted(header[i].addr)
          BY <3>d, <4>1, <1>b, <1>n DEF L
        <4>5. w + 1 # Len(header) + 1 => w + 1 \in Chain
          BY <3>c, <3>1, <2>2, <4>1, <1>n DEF L
        <4>6. ResolveClient(peer) = Canonical(header[w].addr)
          BY <1>t, <2>2, <4>2, <4>3, <4>4, <4>5, Resolves
        <4> QED BY <4>6, <1>a, <4>1
      <3>2. CASE Trusted(who)
        <4>1. w - 1 \in Nat /\ w - 1 < w /\ w \in 1..(Len(header) + 1) /\ n = w - 1
          BY <1>w, <2>2, <3>2
        <4>2. w - 1 # 0 => w - 1 \in Chain /\ header[w - 1].addr = Junk
          BY <1>s, <1>n, <4>1, <3>c, <3>2
        <4>3. \A i \in Chain : i > w - 1 => /\ i >= w
                                           /\ header[i].addr # Junk /\ Trusted(header[i].addr)
          BY <3>d, <4>1, <1>a, <1>b, <1>n, <3>2 DEF L
        <4>4. w # Len(header) + 1 => w \in Chain
          BY <3>c, <4>1, <1>n
        <4>5. ResolveClient(peer) = Canonical(IF w = Len(header) + 1 THEN peer ELSE header[w].addr)
          BY <1>t, <2>2, <4>1, <4>2, <4>3, <4>4, Resolves
        <4> QED BY <4>5, <4>1, <1>a, <1>e, <1>p, <1>n DEF L
      <3> QED BY <3>1, <3>2
    <2>3. ASSUME Trusted(peer), NEW m \in DOMAIN header,
                 m >= (IF Trusted(who) THEN w - 1 ELSE w),
                 \A i \in 1..m : ~header[i].readable,
                 \A i \in (m + 1)..Len(header) : header[i].readable
          PROVE  ResolveClient(peer) \in proxies \cup {who} /\ ~header[m].readable
      <3>1. m \in 1..Len(header) /\ ~header[m].readable
        BY <2>3, <1>n
      <3>2. \A i \in DOMAIN header : i \in Chain <=> i > m
        BY <2>3, <1>n, <3>1 DEF Chain
      <3>d. \A i \in Chain : i \in 1..Len(header)
        BY <1>n DEF Chain
      <3>3. m + 1 \in 1..(Len(header) + 1) /\ 0 \in Nat /\ 0 < m + 1
        BY <3>1, <1>n
      <3>4. \A i \in Chain : i > 0 => /\ i >= m + 1
                                     /\ header[i].addr # Junk /\ Trusted(header[i].addr)
        <4> SUFFICES ASSUME NEW i \in Chain
                     PROVE  i >= m + 1 /\ header[i].addr # Junk /\ Trusted(header[i].addr)
          OBVIOUS
        <4>1. i \in 1..Len(header) /\ i >= m + 1
          BY <3>d, <3>2, <3>1, <1>n
        <4>2. (i = w /\ Trusted(who)) \/ i \in (w + 1)..Len(header)
          BY <4>1, <2>3, <3>1, <1>w, <1>n
        <4> QED BY <4>1, <4>2, <1>a, <1>b DEF L
      <3>5. m + 1 # Len(header) + 1 => m + 1 \in Chain
        BY <3>2, <3>1, <1>n
      <3>6. ResolveClient(peer) = Canonical(IF m + 1 = Len(header) + 1 THEN peer ELSE header[m + 1].addr)
        BY <1>t, <2>3, <3>3, <3>4, <3>5, Resolves
      <3>7. CASE m + 1 = Len(header) + 1
        <4>1. ResolveClient(peer) = holder
          BY <3>6, <3>7, <1>p
        <4> QED BY <4>1, <3>1, <1>a, <1>e, <1>w, <1>n DEF L
      <3>8. CASE m + 1 # Len(header) + 1
        <4>1. m + 1 \in 1..Len(header) /\ m + 1 >= w
          BY <3>1, <3>8, <2>3, <1>w, <1>n
        <4>2. Canonical(header[m + 1].addr) \in proxies \cup {who}
          <5>1. CASE m + 1 = w
            BY <5>1, <4>1, <1>a DEF L
          <5>2. CASE m + 1 # w
            BY <5>2, <4>1, <1>b, <1>w, <1>n DEF L
          <5> QED BY <5>1, <5>2
        <4> QED BY <4>2, <3>1, <3>6, <3>8
      <3> QED BY <3>7, <3>8
    <2>4. CASE Trusted(peer)
      <3>1. PICK n : n = (IF Trusted(who) THEN w - 1 ELSE w)
        OBVIOUS
      <3>2. ReadableFrom(n)
        BY <3>1, <1>w
      <3>3. CASE \A i \in DOMAIN header : i >= n => header[i].readable
        BY <2>4, <3>1, <3>3, <2>2
      <3>4. CASE \E m \in DOMAIN header :
                    /\ m >= n
                    /\ \A i \in 1..m : ~header[i].readable
                    /\ \A i \in (m + 1)..Len(header) : header[i].readable
        BY <2>4, <3>1, <3>4, <2>3
      <3> QED BY <3>2, <3>3, <3>4 DEF ReadableFrom
    <2> QED BY <2>1, <2>4
  <1>2. AddressTypes'
    BY <1>t, <1>u DEF AddressTypes, Trusted
  <1>3. ClientIsReal'
    BY <1>1, <1>u DEF ClientIsReal
  <1>4. clientIp' # Unresolved
    BY <1>1, <1>u, <1>h, WrittenFacts DEF Unresolved, Written
  <1> QED BY <1>2, <1>3, <1>4 DEF AddressInv

\* What a proxy makes of the header.
LEMMA AddedFacts ==
  ASSUME AddressTypes, NEW proxy \in Hosts, NEW entry \in Written(holder) \cup {Junk},
         Proxied(proxy, entry)
  PROVE  /\ header' \in Seq([addr : AnyAddress, readable : BOOLEAN])
         /\ Len(header) \in Nat /\ Len(header') = Len(header) + 1
         /\ DOMAIN header = 1..Len(header) /\ DOMAIN header' = 1..(Len(header) + 1)
         /\ \A i \in 1..Len(header) : header'[i].addr = header[i].addr
         /\ header'[Len(header) + 1].addr = entry
         /\ \/ /\ \A i \in 1..Len(header) : header'[i].readable = header[i].readable
               /\ header'[Len(header) + 1].readable
            \/ \A i \in 1..(Len(header) + 1) : header'[i].readable
            \/ \A i \in 1..(Len(header) + 1) : ~header'[i].readable
  <1> DEFINE Entry == [addr : AnyAddress, readable : BOOLEAN]
             e == [addr |-> entry, readable |-> TRUE]
             added == Append(header, e)
  <1>1. header \in Seq(Entry) /\ holder \in Hosts
    BY DEF AddressTypes
  <1>2. e \in Entry /\ e.addr = entry /\ e.readable = TRUE
    <2>1. entry \in AnyAddress
      BY <1>1, AddressForms
    <2> QED BY <2>1
  <1>3. header' = added \/ header' = Joined(added)
    BY DEF Proxied
  <1> HIDE DEF Entry, e
  <1>4. /\ added \in Seq(Entry) /\ Len(header) \in Nat /\ Len(added) = Len(header) + 1
        /\ DOMAIN header = 1..Len(header) /\ DOMAIN added = 1..(Len(header) + 1)
        /\ \A i \in 1..Len(header) : added[i] = header[i]
        /\ added[Len(header) + 1] = e
    BY <1>1, <1>2
  <1> HIDE DEF added
  <1>5. CASE header' = added
    <2>1. header'[Len(header) + 1].readable
      BY <1>2, <1>4, <1>5
    <2> QED BY <2>1, <1>2, <1>4, <1>5 DEF Entry
  <1>6. CASE header' = Joined(added)
    <2>1. PICK R \in BOOLEAN : R = (\A i \in DOMAIN added : added[i].readable)
      OBVIOUS
    <2>2. header' = [i \in 1..(Len(header) + 1) |-> [addr |-> added[i].addr, readable |-> R]]
      BY <1>4, <1>6, <2>1 DEF Joined
    <2>3. \A i \in 1..(Len(header) + 1) : [addr |-> added[i].addr, readable |-> R] \in Entry
      <3> SUFFICES ASSUME NEW i \in 1..(Len(header) + 1)
                   PROVE  [addr |-> added[i].addr, readable |-> R] \in Entry
        OBVIOUS
      <3>1. added[i] \in Entry
        BY <1>4
      <3> QED BY <3>1 DEF Entry
    <2>4. header' \in [1..(Len(header) + 1) -> Entry]
      BY <2>2, <2>3
    <2>5. Len(header) + 1 \in Nat
      BY <1>4
    <2>6. header' \in Seq(Entry) /\ Len(header') = Len(header) + 1
      BY <2>4, <2>5
    <2>7. \A i \in 1..(Len(header) + 1) : header'[i].addr = added[i].addr /\ header'[i].readable = R
      BY <2>2
    <2>8. DOMAIN header' = 1..(Len(header) + 1)
      BY <2>2
    <2>9. /\ \A i \in 1..Len(header) : i \in 1..(Len(header) + 1)
          /\ Len(header) + 1 \in 1..(Len(header) + 1)
      BY <1>4
    <2>10. (\A i \in 1..(Len(header) + 1) : header'[i].readable)
           \/ (\A i \in 1..(Len(header) + 1) : ~header'[i].readable)
      <3>1. CASE R = TRUE
        BY <3>1, <2>7, Zenon
      <3>2. CASE R = FALSE
        BY <3>2, <2>7, Zenon
      <3> QED BY <3>1, <3>2
    <2>11. /\ \A i \in 1..Len(header) : header'[i].addr = header[i].addr
           /\ header'[Len(header) + 1].addr = entry
      BY <1>2, <1>4, <2>7, <2>9
    <2> QED BY <1>4, <2>6, <2>8, <2>10, <2>11 DEF Entry
  <1> QED BY <1>3, <1>5, <1>6

LEMMA ProxiedKeeps ==
  ASSUME AddressInv, NEW proxy \in Hosts, NEW entry \in Written(holder) \cup {Junk},
         Proxied(proxy, entry)
  PROVE  AddressInv'
  <1>t. AddressTypes /\ Traced
    BY DEF AddressInv, Proxied
  <1>n. PICK n : n = Len(header) + 1
    OBVIOUS
  <1>1. /\ header' \in Seq([addr : AnyAddress, readable : BOOLEAN])
        /\ n \in Nat /\ n >= 1 /\ Len(header) = n - 1 /\ Len(header') = n
        /\ DOMAIN header = 1..(n - 1) /\ DOMAIN header' = 1..n
        /\ \A i \in 1..(n - 1) : header'[i].addr = header[i].addr
        /\ header'[n].addr = entry
    <2>1. /\ header' \in Seq([addr : AnyAddress, readable : BOOLEAN])
          /\ Len(header) \in Nat /\ Len(header') = Len(header) + 1
          /\ DOMAIN header = 1..Len(header) /\ DOMAIN header' = 1..(Len(header) + 1)
          /\ \A i \in 1..Len(header) : header'[i].addr = header[i].addr
          /\ header'[Len(header) + 1].addr = entry
      BY <1>t, AddedFacts
    <2>2. n \in Nat /\ n >= 1 /\ Len(header) = n - 1
      BY <2>1, <1>n
    <2> QED BY <2>1, <2>2, <1>n
  <1>r. \/ /\ \A i \in 1..(n - 1) : header'[i].readable = header[i].readable
           /\ header'[n].readable
        \/ \A i \in 1..n : header'[i].readable
        \/ \A i \in 1..n : ~header'[i].readable
    BY <1>t, <1>n, <1>1, AddedFacts
  <1>2. /\ clientIp = Unresolved /\ clientIp' = Unresolved /\ Trusted(proxy) /\ trusted' = trusted
        /\ holder' = proxy /\ who' = (IF entry = Junk THEN proxy ELSE who)
        /\ proxies' = proxies \cup {proxy}
    BY DEF Proxied
  <1>3. \A a : Trusted(a)' <=> Trusted(a)
    BY <1>2 DEF Trusted
  <1>4. AddressTypes'
    <2>1. \A q \in proxies' : Trusted(q)
      BY <1>t, <1>2 DEF AddressTypes
    <2>2. \A q \in proxies' : Trusted(q)'
      BY <2>1, <1>3
    <2> QED BY <1>t, <1>1, <1>2, <2>2 DEF AddressTypes
  <1>5. Traced'
    <2>1. CASE entry = Junk
      <3>1. who' = proxy /\ Trusted(who)'
        BY <2>1, <1>2 DEF Trusted
      <3>2. n + 1 \in 1..(Len(header') + 1) /\ n + 1 = Len(header') + 1 /\ (n + 1) - 1 = n
        BY <1>1
      <3>3. StandsAt(n + 1)'
        BY <1>1, <1>2, <2>1, <3>1, <3>2 DEF StandsAt
      <3>4. ReadableFrom(n)'
        BY <1>1, <1>r DEF ReadableFrom
      <3> QED BY <3>1, <3>2, <3>3, <3>4 DEF Traced
    <2>2. CASE entry # Junk
      <3>w. PICK w \in 1..(Len(header) + 1) :
               StandsAt(w) /\ ReadableFrom(IF Trusted(who) THEN w - 1 ELSE w)
        BY <1>t DEF Traced
      <3>k. PICK k : k = (IF Trusted(who) THEN w - 1 ELSE w)
        OBVIOUS
      <3>0. entry \in Written(holder) /\ who' = who /\ (Trusted(who)' <=> Trusted(who))
        BY <2>2, <1>2 DEF Trusted
      <3>1. w \in 1..n /\ k \in 0..n
        BY <3>w, <3>k, <1>1
      <3>2. /\ IF w = n THEN holder = who ELSE header[w].addr \in Written(who) /\ holder \in proxies
            /\ \A i \in (w + 1)..(n - 1) : NamedBy(header[i].addr, proxies)
            /\ Trusted(who) /\ w # 1 => header[w - 1].addr = Junk
        BY <3>w, <1>1 DEF StandsAt
      <3>3. header'[w].addr \in Written(who) /\ proxy \in proxies'
        BY <3>0, <3>1, <3>2, <1>1, <1>2
      <3>4. \A i \in (w + 1)..n : NamedBy(header'[i].addr, proxies')
        <4> SUFFICES ASSUME NEW i \in (w + 1)..n PROVE NamedBy(header'[i].addr, proxies')
          OBVIOUS
        <4>1. CASE i = n
          <5>1. holder \in proxies
            BY <4>1, <3>1, <3>2, <1>1
          <5> QED BY <4>1, <5>1, <3>0, <1>1, <1>2 DEF NamedBy
        <4>2. CASE i # n
          <5>1. i \in (w + 1)..(n - 1) /\ i \in 1..(n - 1)
            BY <4>2, <3>1, <1>1
          <5>2. NamedBy(header[i].addr, proxies) /\ header'[i].addr = header[i].addr
            BY <5>1, <3>2, <1>1
          <5> QED BY <5>2, <1>2 DEF NamedBy
        <4> QED BY <4>1, <4>2
      <3>5. Trusted(who) /\ w # 1 => header'[w - 1].addr = Junk
        BY <3>1, <3>2, <1>1
      <3>6. w # n + 1 /\ w \in 1..(Len(header') + 1)
        BY <3>1, <1>1
      <3>7. StandsAt(w)'
        BY <3>0, <3>3, <3>4, <3>5, <3>6, <1>1, <1>2 DEF StandsAt, NamedBy, Written
      <3>8. ReadableFrom(k)'
        <4>1. CASE /\ \A i \in 1..(n - 1) : header'[i].readable = header[i].readable
                   /\ header'[n].readable
          <5>1. ReadableFrom(k)
            BY <3>w, <3>k
          <5>2. CASE \A i \in DOMAIN header : i >= k => header[i].readable
            BY <5>2, <4>1, <1>1 DEF ReadableFrom
          <5>3. CASE \E m \in DOMAIN header :
                        /\ m >= k
                        /\ \A i \in 1..m : ~header[i].readable
                        /\ \A i \in (m + 1)..Len(header) : header[i].readable
            <6>1. PICK m \in 1..(n - 1) : /\ m >= k
                                          /\ \A i \in 1..m : ~header[i].readable
                                          /\ \A i \in (m + 1)..(n - 1) : header[i].readable
              BY <5>3, <1>1
            <6>2. m \in DOMAIN header' /\ \A i \in 1..m : ~header'[i].readable
              BY <6>1, <4>1, <1>1
            <6>3. \A i \in (m + 1)..n : header'[i].readable
              BY <6>1, <4>1, <1>1
            <6> QED BY <6>1, <6>2, <6>3, <1>1 DEF ReadableFrom
          <5> QED BY <5>1, <5>2, <5>3 DEF ReadableFrom
        <4>2. CASE \A i \in 1..n : header'[i].readable
          BY <4>2, <1>1 DEF ReadableFrom
        <4>3. CASE \A i \in 1..n : ~header'[i].readable
          <5>1. n \in DOMAIN header' /\ n >= k /\ (n + 1)..Len(header') = {}
            BY <3>1, <1>1
          <5> QED BY <4>3, <5>1 DEF ReadableFrom
        <4> QED BY <1>r, <4>1, <4>2, <4>3
      <3>9. k = (IF Trusted(who)' THEN w - 1 ELSE w)
        BY <3>0, <3>k
      <3> QED BY <3>6, <3>7, <3>8, <3>9 DEF Traced
    <2> QED BY <2>1, <2>2
  <1>6. ClientIsReal'
    BY <1>2 DEF ClientIsReal, Unresolved
  <1> QED BY <1>4, <1>5, <1>6 DEF AddressInv

LEMMA AddressStart == AddressInit => AddressInv
  <1> SUFFICES ASSUME AddressInit PROVE AddressInv
    OBVIOUS
  <1>1. /\ holder \in Hosts /\ who = holder /\ proxies = {} /\ clientIp = Unresolved
        /\ header \in IF Trusted(holder) THEN {<<>>} ELSE Forgery
    BY DEF AddressInit
  <1> DEFINE Entry == [addr : AnyAddress, readable : BOOLEAN]
  <1>3. header \in Seq(Entry)
    <2>1. CASE header = <<>>
      BY <2>1
    <2>2. CASE header \in Forgery
      <3>1. PICK n \in 0..MaxForged : header \in [1..n -> [addr : Hosts \cup {Junk}, readable : BOOLEAN]]
        BY <2>2 DEF Forgery
      <3>2. [addr : Hosts \cup {Junk}, readable : BOOLEAN] \subseteq Entry
        BY AddressForms
      <3> HIDE DEF Entry
      <3>3. header \in [1..n -> Entry]
        BY <3>1, <3>2
      <3>4. n \in Nat
        BY AddressConstants
      <3> QED BY <3>3, <3>4
    <2> QED BY <1>1, <2>1, <2>2
  <1>4. AddressTypes
    BY <1>1, <1>3 DEF AddressTypes
  <1>5. PICK len \in Nat : len = Len(header) /\ DOMAIN header = 1..len
    BY <1>3
  <1>6. Trusted(holder) => len = 0
    BY <1>1, <1>5
  <1>7. len + 1 \in 1..(Len(header) + 1) /\ len + 1 = Len(header) + 1
    BY <1>5
  <1>8. StandsAt(len + 1)
    BY <1>1, <1>5, <1>6, <1>7 DEF StandsAt
  <1>9. ReadableFrom(IF Trusted(who) THEN (len + 1) - 1 ELSE len + 1)
    BY <1>1, <1>5, <1>6 DEF ReadableFrom
  <1>10. Traced
    BY <1>7, <1>8, <1>9 DEF Traced
  <1> QED BY <1>1, <1>4, <1>10 DEF AddressInv, ClientIsReal

\* A request is put down to the last host on its way that is not a trusted proxy,
\* however long its header is and whatever was forged in it.
THEOREM ClientCorrect == AddressSpec => []ClientIsReal
  <1>1. AddressInv /\ [AddressNext]_addressVars => AddressInv'
    <2> SUFFICES ASSUME AddressInv, [AddressNext]_addressVars PROVE AddressInv'
      OBVIOUS
    <2>1. CASE UNCHANGED addressVars
      BY <2>1 DEF addressVars, AddressInv, AddressTypes, Traced, StandsAt, ReadableFrom, Trusted,
                  ClientIsReal
    <2> QED BY <2>1, ServeKeeps, ProxiedKeeps DEF AddressNext
  <1>2. AddressInv => ClientIsReal
    BY DEF AddressInv
  <1> QED BY <1>1, <1>2, AddressStart, PTL DEF AddressSpec
=============================================================================
