--------------------------- MODULE RememberTokens ---------------------------
(***************************************************************************)
(* The rotating remember-me tokens of src/auth/flows/remember/store.rs,    *)
(* with the browsers that hold them.                                       *)
(*                                                                         *)
(* A series is a row; each accepted use of its cookie replaces the row's   *)
(* secret.  present is two statements (a read, then the rotation or the     *)
(* theft cascade), and a browser keeps the old cookie until a response with *)
(* a replacement arrives, so a request may carry a secret that has been     *)
(* retired meanwhile.  Every presenter here is the browser the token was    *)
(* issued to.                                                              *)
(***************************************************************************)
EXTENDS Integers, FiniteSets

CONSTANTS Subjects,
          Browsers,     \* each holds at most one remember-me cookie
          Requests,     \* requests in flight at once, over all browsers
          OwnerOf,      \* the subject who uses a browser
          MaxDrawn,     \* bound: how many secrets are drawn
          Faults        \* which of AllFaults a run admits

AllFaults == {"lapse", "lose", "expire", "signout", "revoke", "error"}

ASSUME RememberConstants ==
    /\ OwnerOf \in [Browsers -> Subjects]
    /\ MaxDrawn \in Nat
    /\ Faults \subseteq AllFaults

VARIABLES table,     \* the rows of arcature_remember_tokens
          jar,       \* the cookie each browser holds
          flight,    \* where each request stands
          drawn,     \* how many secrets were drawn
          expired,   \* series past their deadline
          successor, \* history: the replacements handed out, <<series, presented, new>>
          revoked,   \* history: series deleted by a sign-out, a cascade or the sweep
          accepted,  \* history: requests answered Accepted off a revoked series
          accused    \* history: subjects reported as Theft

vars == <<table, jar, flight, drawn, expired, successor, revoked, accepted, accused>>

Secret == 1..MaxDrawn

\* A series is named by the secret it was issued with; previous is 0 until the
\* first rotation; recent says rotated_at is later than the grace cutoff.
Row == [series : Secret, secret : Secret, previous : 0..MaxDrawn,
        recent : BOOLEAN, subject : Subjects]

Cookie == [series : Secret, secret : Secret]
NoCookie == [series |-> 0, secret |-> 0]

Idle == [at |-> "idle"]

\* A request carries its cookie from "sent" to the read, which decides between
\* the rotation, the cascade and an answer; the answer travels as "replied".
Sent == [at : {"sent"}, browser : Browsers, cookie : Cookie]
Rotating == [at : {"rotating"}, browser : Browsers, cookie : Cookie, subject : Subjects]
Cascading == [at : {"cascading"}, browser : Browsers, cookie : Cookie, subject : Subjects]
Replied == [at : {"replied"}, browser : Browsers, outcome : {"accepted", "unrecognised", "theft"},
            cookie : Cookie \cup {NoCookie}]

RowsOf(s) == {r \in table : r.subject = s}
SeriesOf(s) == {r.series : r \in RowsOf(s)}

Init ==
    /\ table = {} /\ expired = {} /\ successor = {} /\ revoked = {}
    /\ accepted = {} /\ accused = {}
    /\ jar = [b \in Browsers |-> NoCookie]
    /\ flight = [q \in Requests |-> Idle]
    /\ drawn = 0

Step(q, to) == flight' = [flight EXCEPT ![q] = to]

Reply(q, outcome, cookie) ==
    Step(q, [at |-> "replied", browser |-> flight[q].browser, outcome |-> outcome,
             cookie |-> cookie])
-----------------------------------------------------------------------------
\* issue at a login of browser b, which may still hold an older cookie: a new
\* row beside the subject's others, its plaintext on its way as the response.
\* A series that is taken is drawn again; giving up after ISSUE_ATTEMPTS, and a
\* statement that fails, insert nothing.  An insert that went through with its
\* answer lost is Issue followed by Lose.
Issue(b, q) ==
    /\ flight[q] = Idle
    /\ drawn < MaxDrawn
    /\ drawn' = drawn + 1
    /\ table' = table \cup {[series |-> drawn', secret |-> drawn', previous |-> 0,
                             recent |-> FALSE, subject |-> OwnerOf[b]]}
    /\ Step(q, [at |-> "replied", browser |-> b, outcome |-> "accepted",
                cookie |-> [series |-> drawn', secret |-> drawn']])
    /\ UNCHANGED <<jar, expired, successor, revoked, accepted, accused>>

\* A browser sends a request with the cookie it holds.
Send(b, q) ==
    /\ flight[q] = Idle
    /\ jar[b] # NoCookie
    /\ Step(q, [at |-> "sent", browser |-> b, cookie |-> jar[b]])
    /\ UNCHANGED <<table, jar, drawn, expired, successor, revoked, accepted, accused>>
-----------------------------------------------------------------------------
\* FIND_LIVE: the row of the presented series, unless its deadline has passed.
Found(k) == {r \in table : r.series = k.series /\ r.series \notin expired}

\* The read of present finds no live row: Unrecognised.
PresentMiss(q) ==
    /\ flight[q].at = "sent"
    /\ Found(flight[q].cookie) = {}
    /\ Reply(q, "unrecognised", NoCookie)
    /\ UNCHANGED <<table, jar, drawn, expired, successor, revoked, accepted, accused>>

\* The read of present finds the row: the current secret goes on to rotate, the
\* retired one inside the grace window is accepted, and anything else cascades.
PresentRead(q) ==
    /\ flight[q].at = "sent"
    /\ \E r \in Found(flight[q].cookie) :
        LET k == flight[q].cookie
            to(at) == [at |-> at, browser |-> flight[q].browser, cookie |-> k,
                       subject |-> r.subject]
        IN CASE k.secret = r.secret -> Step(q, to("rotating"))
             [] k.secret # r.secret /\ k.secret = r.previous /\ r.recent ->
                    Reply(q, "accepted", NoCookie)
             [] OTHER -> Step(q, to("cascading"))
    /\ UNCHANGED <<table, jar, drawn, expired, successor, revoked, accepted, accused>>

\* Mutant: the rotation is a write and not a compare-and-swap.
UnrotatedAny(k) == {r \in table : r.series = k.series}

\* The row ROTATE may update: the series still holding the secret that was read.
Unrotated(k) == {r \in table : r.series = k.series /\ r.secret = k.secret}

\* The table once an update turned row r into new.
Replaced(r, new) == (table \ {r}) \cup {new}

\* What ROTATE writes: the new secret, and the one just used as the previous.
Rotated(r, x) == [series |-> r.series, secret |-> x, previous |-> r.secret,
                  recent |-> TRUE, subject |-> r.subject]

\* rotate: ROTATE affected the row, and the answer carries the new cookie.
RotateWin(q) ==
    /\ flight[q].at = "rotating"
    /\ drawn < MaxDrawn
    /\ \E r \in Unrotated(flight[q].cookie) :
        /\ drawn' = drawn + 1
        /\ table' = Replaced(r, Rotated(r, drawn'))
        /\ successor' = successor \cup {<<r.series, flight[q].cookie.secret, drawn'>>}
        /\ Reply(q, "accepted", [series |-> r.series, secret |-> drawn'])
    /\ UNCHANGED <<jar, expired, revoked, accepted, accused>>

\* Mutant: the write falls back to an insert, as an upsert would.
RotateLoseInserts(q) ==
    /\ flight[q].at = "rotating"
    /\ Unrotated(flight[q].cookie) = {}
    /\ drawn < MaxDrawn
    /\ drawn' = drawn + 1
    /\ table' = {r \in table : r.series # flight[q].cookie.series} \cup
          {[series |-> flight[q].cookie.series, secret |-> drawn', previous |-> 0,
            recent |-> FALSE, subject |-> flight[q].subject]}
    /\ Reply(q, "accepted", NoCookie)
    /\ UNCHANGED <<jar, expired, successor, revoked, accepted, accused>>

\* rotate: ROTATE affected no row.  Accepted, with no replacement, whatever the
\* reason the row was not there to update.
RotateLose(q) ==
    /\ flight[q].at = "rotating"
    /\ Unrotated(flight[q].cookie) = {}
    /\ accepted' = IF flight[q].cookie.series \in revoked
                   THEN accepted \cup {flight[q].cookie} ELSE accepted
    /\ Reply(q, "accepted", NoCookie)
    /\ UNCHANGED <<table, jar, drawn, expired, successor, revoked, accused>>

\* The theft cascade: DELETE_FOR the subject, then Theft.
Cascade(q) ==
    /\ flight[q].at = "cascading"
    /\ LET s == flight[q].subject IN
       /\ table' = table \ RowsOf(s)
       /\ revoked' = revoked \cup SeriesOf(s)
       /\ accused' = accused \cup {s}
    /\ Reply(q, "theft", NoCookie)
    /\ UNCHANGED <<jar, drawn, expired, successor, accepted>>
-----------------------------------------------------------------------------
\* The response arrives.  A replacement is set, Unrecognised and Theft clear
\* the cookie, Accepted without one leaves it alone.
Receive(q) ==
    /\ flight[q].at = "replied"
    /\ LET b == flight[q].browser IN
       jar' = [jar EXCEPT ![b] =
                 CASE flight[q].outcome \in {"unrecognised", "theft"} -> NoCookie
                   [] flight[q].outcome = "accepted" /\ flight[q].cookie # NoCookie ->
                        flight[q].cookie
                   [] OTHER -> @]
    /\ Step(q, Idle)
    /\ UNCHANGED <<table, drawn, expired, successor, revoked, accepted, accused>>

\* The response is lost on the way.
Lose(q) ==
    /\ "lose" \in Faults
    /\ flight[q].at = "replied"
    /\ Step(q, Idle)
    /\ UNCHANGED <<table, jar, drawn, expired, successor, revoked, accepted, accused>>

\* present fails on a statement, or its request is dropped, between the two.
Fail(q) ==
    /\ "error" \in Faults
    /\ flight[q].at \in {"sent", "rotating", "cascading"}
    /\ Step(q, Idle)
    /\ UNCHANGED <<table, jar, drawn, expired, successor, revoked, accepted, accused>>

\* revoke: an ordinary sign-out, by series and whatever the secret.
SignOut(b) ==
    /\ "signout" \in Faults
    /\ jar[b] # NoCookie
    /\ LET gone == {r \in table : r.series = jar[b].series} IN
       /\ table' = table \ gone
       /\ revoked' = revoked \cup {r.series : r \in gone}
    /\ jar' = [jar EXCEPT ![b] = NoCookie]
    /\ UNCHANGED <<flight, drawn, expired, successor, accepted, accused>>

\* revoke_all_for: sign out everywhere.
SignOutEverywhere(s) ==
    /\ "revoke" \in Faults
    /\ table' = table \ RowsOf(s)
    /\ revoked' = revoked \cup SeriesOf(s)
    /\ UNCHANGED <<jar, flight, drawn, expired, successor, accepted, accused>>

\* A minute passes since the last rotation of a series.
GraceLapses(r) ==
    /\ "lapse" \in Faults
    /\ r.recent
    /\ table' = Replaced(r, [r EXCEPT !.recent = FALSE])
    /\ UNCHANGED <<jar, flight, drawn, expired, successor, revoked, accepted, accused>>

\* A token's deadline passes.
Expire(r) ==
    /\ "expire" \in Faults
    /\ r.series \notin expired
    /\ expired' = expired \cup {r.series}
    /\ UNCHANGED <<table, jar, flight, drawn, successor, revoked, accepted, accused>>

\* sweep_expired: DELETE_EXPIRED.
SweepRemembered ==
    /\ "expire" \in Faults
    /\ LET gone == {r \in table : r.series \in expired} IN
       /\ table' = table \ gone
       /\ revoked' = revoked \cup {r.series : r \in gone}
    /\ UNCHANGED <<jar, flight, drawn, expired, successor, accepted, accused>>

Next ==
    \/ \E b \in Browsers : SignOut(b)
    \/ \E b \in Browsers, q \in Requests : Issue(b, q) \/ Send(b, q)
    \/ \E q \in Requests : \/ PresentMiss(q) \/ PresentRead(q)
                           \/ RotateWin(q) \/ RotateLose(q) \/ Cascade(q)
                           \/ Receive(q) \/ Lose(q) \/ Fail(q)
    \/ \E s \in Subjects : SignOutEverywhere(s)
    \/ \E r \in table : GraceLapses(r) \/ Expire(r)
    \/ SweepRemembered

Spec == Init /\ [][Next]_vars
-----------------------------------------------------------------------------
\* Type correctness; series is the primary key of the table.
TypeOK ==
    /\ table \subseteq Row
    /\ \A r1, r2 \in table : r1.series = r2.series => r1 = r2
    /\ jar \in [Browsers -> Cookie \cup {NoCookie}]
    /\ flight \in [Requests -> {Idle} \cup Sent \cup Rotating \cup Cascading \cup Replied]
    /\ drawn \in 0..MaxDrawn
    /\ expired \subseteq Secret /\ revoked \subseteq Secret
    /\ successor \subseteq Secret \X Secret \X Secret
    /\ accepted \subseteq Cookie
    /\ accused \subseteq Subjects

\* The compare-and-swap of ROTATE hands out at most one replacement for any
\* secret, however many requests presented it at once: of twenty tabs one gets
\* the new cookie, and the series never forks.
OneReplacement ==
    \A x, y \in successor : x[1] = y[1] /\ x[2] = y[2] => x[3] = y[3]

\* Responses may arrive in any order and cookies still move forward: within a
\* series no response replaces a cookie by an older one, because a secret is
\* rotated only by a request that carried it and so after it was delivered.
CookieOnlyAdvances ==
    [][\A b \in Browsers :
          jar[b] # NoCookie /\ jar'[b] # NoCookie /\ jar'[b].series = jar[b].series
              => jar'[b].secret >= jar[b].secret]_vars

\* A row that a sign-out, a cascade or the sweep deleted stays deleted: the
\* rotation of a request that read it earlier is an update and inserts nothing.
RevokedStaysGone == \A r \in table : r.series \notin revoked

\* A browser that awaits each response before its next request, and whose
\* responses arrive, is never reported as a theft, whatever lapses, expires or
\* is revoked meanwhile and however many other devices its owner has.
NoFalseTheft == accused = {}

\* rotate's reading of rows_affected = 0: a request answered Accepted without a
\* replacement lost to another rotation of the series, never to its deletion.
LostToRotation == accepted = {}
=============================================================================
