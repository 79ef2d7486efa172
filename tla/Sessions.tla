------------------------------ MODULE Sessions ------------------------------
(***************************************************************************)
(* Sessions and sign-in: the session store of auth/session_store, the login *)
(* and logout of AuthManager and the checks of load_user (auth/extract.rs), *)
(* and password confirmation (auth/flows/confirm.rs).                      *)
(*                                                                         *)
(* A request reads its session's record once, works on the copy, and writes *)
(* it back when its response is made; requests of one browser overlap.      *)
(* The middleware that loads and saves is a library (tower-sessions).      *)
(***************************************************************************)
EXTENDS Integers, FiniteSets

CONSTANTS Users,
          MaxSid,           \* bound: session ids issued, 1..MaxSid
          SessionRequests,  \* requests in flight at once
          AbsoluteMax,      \* absolute_max_age, in ticks
          ConfirmWindow,    \* PasswordConfirmation::window
          MaxSessionTime,   \* bound: ticks
          MaxVisits,        \* bound: requests ever made
          MaxWork,          \* bound: what one request does to its session
          MaxPassword       \* bound: password changes of a user

Nobody == "nobody"

ASSUME SessionConstants ==
    /\ Nobody \notin Users
    /\ MaxSid \in Nat \ {0} /\ AbsoluteMax \in Nat /\ ConfirmWindow \in Nat
    /\ MaxSessionTime \in Nat /\ MaxVisits \in Nat
    /\ MaxWork \in Nat /\ MaxPassword \in Nat

VARIABLES sessionTime,
          records,      \* the table: each id's record
          issued,       \* ids created so far
          password,     \* each user's stored_credential, 0 for one that has none
          visit,        \* each request in flight
          visits,       \* requests made
          signedOut,    \* history: ids flushed by a request
          held,         \* history: ids flushed while another request held a copy
          verified,     \* history: when each user last proved the password
          presented     \* history: ids a request without a user came in with

sessionVars == <<sessionTime, records, issued, password, visit, visits, signedOut, held,
                 verified, presented>>

\* The keys of a record's data the code reads back: -1 and 0 where there is no
\* time and no credential.
Empty == [user |-> Nobody, authAt |-> -1, stamp |-> 0, confirmed |-> Nobody, confirmedAt |-> 0,
          flash |-> FALSE]

Missing == [absent |-> TRUE]
Stored(r) == [absent |-> FALSE, data |-> r]

\* A request: its id (0 until one is created), its copy, and what it did to it.
NoVisit == [at |-> "none"]
Visit(sid, data) == [at |-> "loaded", sid |-> sid, data |-> data, modified |-> FALSE, work |-> 0]

\* The request is still running, as a guest or as a user.
Working(q, as) == visit[q].at \in as /\ visit[q].work < MaxWork

\* The handler changes the request's copy of the session.
Touched(v, data) == [v EXCEPT !.data = data, !.modified = TRUE, !.work = @ + 1]

\* The table is empty, or holds a session of an earlier version.
SessionInit ==
    /\ sessionTime = 0
    /\ \/ issued = 0 /\ records = [s \in 1..MaxSid |-> Missing]
       \/ issued = 1 /\ \E u \in Users :
            records = [s \in 1..MaxSid |->
                IF s = 1 THEN Stored([Empty EXCEPT !.user = u]) ELSE Missing]
    /\ password \in [Users -> {0, 1}]
    /\ visit = [q \in SessionRequests |-> NoVisit]
    /\ visits = 0
    /\ signedOut = {}
    /\ held = {}
    /\ verified = [u \in Users |-> -1]
    /\ presented = {}
-----------------------------------------------------------------------------
\* The request's first read of its session: the record of the id its cookie
\* names, or a new session when there is none.
LoadSession(q, sid) ==
    /\ visit[q] = NoVisit
    /\ sid \in 0..issued
    /\ visits < MaxVisits
    /\ visits' = visits + 1
    /\ visit' = [visit EXCEPT ![q] =
        IF sid = 0 \/ records[sid] = Missing THEN Visit(0, Empty)
        ELSE Visit(sid, records[sid].data)]
    /\ presented' = IF sid # 0 /\ records[sid] # Missing /\ records[sid].data.user = Nobody
                    THEN presented \cup {sid} ELSE presented
    /\ UNCHANGED <<sessionTime, records, issued, password, signedOut, held, verified>>

Copies(q, sid) == {p \in SessionRequests \ {q} : visit[p] # NoVisit /\ visit[p].sid = sid}

\* Session::flush: the copy is cleared and the row deleted at once.
Flush(q) ==
    LET sid == visit[q].sid
    IN  /\ visit' = [visit EXCEPT ![q] = [@ EXCEPT !.at = "guest", !.sid = 0, !.data = Empty]]
        /\ records' = [s \in 1..MaxSid |-> IF s = sid THEN Missing ELSE records[s]]
        /\ signedOut' = signedOut \cup ({sid} \ {0})
        /\ held' = IF Copies(q, sid) # {} THEN held \cup ({sid} \ {0}) ELSE held

\* What load_user refuses: a sign-in past its absolute age, or by another
\* credential than the row has now.
TooOld(d) == d.authAt # -1 /\ sessionTime - d.authAt > AbsoluteMax
Moved(d) == password[d.user] # 0 /\ d.stamp # 0 /\ d.stamp # password[d.user]
Spent(d) == TooOld(d) \/ Moved(d)

\* What it binds to a session an earlier version wrote: the time, before it
\* loads the user, and the credential, if the user has one.
Dated(d) == [d EXCEPT !.authAt = IF @ = -1 THEN sessionTime ELSE @]
Bound(d) == [Dated(d) EXCEPT !.stamp = IF @ = 0 THEN password[d.user] ELSE @]

\* The request goes on with what load_user left in the session.
GoesOn(v, at, data) == [v EXCEPT !.at = at, !.data = data, !.modified = @ \/ data # v.data]

\* load_user: nobody is bound; a sign-in it refuses; one it accepts; or the
\* application finds no such user any more, and the session is left as it is.
LoadUser(q) ==
    LET d == visit[q].data
        As(at, data) == /\ visit' = [visit EXCEPT ![q] = GoesOn(@, at, data)]
                        /\ UNCHANGED <<records, signedOut, held>>
    IN  /\ visit[q].at = "loaded"
        /\ \/ d.user = Nobody /\ As("guest", d)
           \/ d.user # Nobody /\ Spent(d) /\ Flush(q)
           \/ d.user # Nobody /\ ~Spent(d) /\ As("user", Bound(d))
           \/ d.user # Nobody /\ ~TooOld(d) /\ As("guest", Dated(d))
        /\ UNCHANGED <<sessionTime, visits, issued, password, verified, presented>>

\* The user, the time and, if there is one, the credential a sign-in binds to the
\* session's data.
SignedIn(d, u) ==
    [d EXCEPT !.user = u, !.authAt = sessionTime,
              !.stamp = IF password[u] = 0 THEN @ ELSE password[u]]

\* Mutant: the user is bound to the id the request came with.
LoginKeepsId(q, u) ==
    /\ Working(q, {"guest", "user"})
    /\ visit' = [visit EXCEPT ![q] = [Touched(@, SignedIn(@.data, u)) EXCEPT !.at = "user"]]
    /\ UNCHANGED <<sessionTime, visits, records, issued, password, signedOut, held, verified, presented>>

\* Session::cycle_id: the row of the old id is deleted, and the data is left for a
\* session yet to be created.
Cycle(q, data, at) ==
    /\ records' = [s \in 1..MaxSid |-> IF s = visit[q].sid THEN Missing ELSE records[s]]
    /\ visit' = [visit EXCEPT ![q] = [Touched(@, data) EXCEPT !.at = at, !.sid = 0]]
    /\ UNCHANGED <<sessionTime, visits, issued, password, signedOut, held, verified, presented>>

\* LoginBuilder: the id is cycled, and the user, the time and the credential bound.
Login(q, u) ==
    /\ Working(q, {"guest", "user"})
    /\ Cycle(q, SignedIn(visit[q].data, u), "user")

\* AuthManager::regenerate.
Regenerate(q) ==
    /\ Working(q, {"guest", "user"})
    /\ Cycle(q, visit[q].data, visit[q].at)

\* Mutant: logging out empties the session and leaves its row to expire.
LogoutKeepsRow(q) ==
    /\ visit[q].at = "user"
    /\ visit' = [visit EXCEPT ![q] = [@ EXCEPT !.at = "guest", !.sid = 0, !.data = Empty]]
    /\ signedOut' = signedOut \cup ({visit[q].sid} \ {0})
    /\ UNCHANGED <<sessionTime, visits, records, issued, password, held, verified, presented>>

\* AuthManager::logout.
Logout(q) ==
    /\ visit[q].at = "user"
    /\ Flush(q)
    /\ UNCHANGED <<sessionTime, visits, issued, password, verified, presented>>

\* The password changes, and the session that changed it is rebound
\* (rebind_credential) so that it is not the one signed out.
ChangePassword(q) ==
    LET u == visit[q].data.user
    IN  /\ Working(q, {"user"})
        /\ password[u] \in 1..(MaxPassword - 1)
        /\ password' = [password EXCEPT ![u] = @ + 1]
        /\ visit' = [visit EXCEPT ![q] = Touched(@, [@.data EXCEPT !.stamp = password[u] + 1])]
        /\ UNCHANGED <<sessionTime, visits, records, issued, signedOut, held, verified, presented>>

\* PasswordConfirmation::record_verified.
RecordVerified(q) ==
    LET u == visit[q].data.user
    IN  /\ Working(q, {"user"})
        /\ visit' = [visit EXCEPT ![q] =
            Touched(@, [@.data EXCEPT !.confirmed = u, !.confirmedAt = sessionTime])]
        /\ verified' = [verified EXCEPT ![u] = sessionTime]
        /\ UNCHANGED <<sessionTime, visits, records, issued, password, signedOut, held, presented>>

\* PasswordConfirmation::forget, of a confirmation there is.
ForgetConfirmed(q) ==
    /\ Working(q, {"guest", "user"})
    /\ visit[q].data.confirmed # Nobody
    /\ visit' = [visit EXCEPT ![q] =
        Touched(@, [@.data EXCEPT !.confirmed = Nobody, !.confirmedAt = 0])]
    /\ UNCHANGED <<sessionTime, visits, records, issued, password, signedOut, held, verified, presented>>

\* The data with a flash message where there was none, or without it.
Flashed(d) == [d EXCEPT !.flash = ~@]

\* Flash::add, and the extractor that takes the messages out.
ToggleFlash(q) ==
    /\ Working(q, {"guest", "user"})
    /\ visit' = [visit EXCEPT ![q] = Touched(@, Flashed(@.data))]
    /\ UNCHANGED <<sessionTime, visits, records, issued, password, signedOut, held, verified, presented>>

\* The response is made: a modified session is saved, an upsert under its id, or
\* created under a new one unless there is nothing in it.  create draws ids until
\* one is free (INSERT_NEW writes over no row); when it gives up the response is
\* an error and nothing is saved, as in DropRequest.
Respond(q) ==
    /\ visit[q].at \in {"guest", "user"}
    /\ visit' = [visit EXCEPT ![q] = NoVisit]
    /\ IF ~visit[q].modified \/ (visit[q].sid = 0 /\ visit[q].data = Empty) THEN UNCHANGED <<records, issued>>
       ELSE IF visit[q].sid # 0
       THEN /\ records' = [records EXCEPT ![visit[q].sid] = Stored(visit[q].data)]
            /\ UNCHANGED issued
       ELSE /\ issued < MaxSid
            /\ issued' = issued + 1
            /\ records' = [records EXCEPT ![issued + 1] = Stored(visit[q].data)]
    /\ UNCHANGED <<sessionTime, visits, password, signedOut, held, verified, presented>>

\* The request ends in a server error or is dropped: nothing is saved.
DropRequest(q) ==
    /\ visit[q] # NoVisit
    /\ visit' = [visit EXCEPT ![q] = NoVisit]
    /\ UNCHANGED <<sessionTime, visits, records, issued, password, signedOut, held, verified, presented>>

\* A record expires, or the sweep takes it.
SweepExpired(sid) ==
    /\ records[sid] # Missing
    /\ records' = [records EXCEPT ![sid] = Missing]
    /\ UNCHANGED <<sessionTime, visits, issued, password, visit, signedOut, held, verified, presented>>

SessionTick ==
    /\ sessionTime < MaxSessionTime
    /\ sessionTime' = sessionTime + 1
    /\ UNCHANGED <<records, issued, password, visit, visits, signedOut, held, verified, presented>>

SessionNext ==
    \/ \E q \in SessionRequests :
        \/ \E sid \in 0..MaxSid : LoadSession(q, sid)
        \/ LoadUser(q) \/ Logout(q) \/ ChangePassword(q) \/ RecordVerified(q)
        \/ Regenerate(q) \/ ForgetConfirmed(q) \/ ToggleFlash(q) \/ Respond(q) \/ DropRequest(q)
        \/ \E u \in Users : Login(q, u)
    \/ \E sid \in 1..MaxSid : SweepExpired(sid)
    \/ SessionTick

SessionSpec == SessionInit /\ [][SessionNext]_sessionVars
-----------------------------------------------------------------------------
\* Mutant: a confirmation is good for whoever is signed in.
ConfirmedByAnyone(data, subject, now) ==
    data.confirmed # Nobody /\ now - data.confirmedAt \in 0..(ConfirmWindow - 1)

\* PasswordConfirmation::state_of: the same subject, and strictly inside the window.
IsFresh(data, subject, now) ==
    data.confirmed = subject /\ now - data.confirmedAt \in 0..(ConfirmWindow - 1)

\* An id that anybody held before signing in never carries a sign-in: whatever
\* requests overlap, the session of a user is under an id made for it.
NoFixation ==
    \A s \in presented : records[s] # Missing => records[s].data.user = Nobody

\* A session that was signed out (or flushed for its age or its credential) does
\* not come back, unless another request held a copy of it at that moment and
\* saved it afterwards.
SignedOutStays ==
    \A s \in signedOut \ held : records[s] = Missing

\* The same with no exception: what logging out is expected to do.
SignedOutAlways ==
    \A s \in signedOut : records[s] = Missing \/ records[s].data.user = Nobody

\* A request that is let past a confirmation belongs to a user who typed the
\* password within the window, through sign-ins as somebody else on the same
\* session, saves of older copies, and sign-outs.
FreshMeansVerified ==
    \A q \in SessionRequests :
        (visit[q].at = "user" /\ IsFresh(visit[q].data, visit[q].data.user, sessionTime))
        => /\ verified[visit[q].data.user] >= 0
           /\ sessionTime - verified[visit[q].data.user] < ConfirmWindow
=============================================================================
