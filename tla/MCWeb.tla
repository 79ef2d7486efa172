-------------------------------- MODULE MCWeb --------------------------------
(***************************************************************************)
(* What a request meets, for TLC: whom it is put down to, its session, its  *)
(* API token, its locale, and the page it is answered with.  They share no  *)
(* state, so a behaviour is of one of them: its focus.  The others stay in  *)
(* one of their initial states.                                            *)
(***************************************************************************)
EXTENDS Sessions, ApiTokens, Inertia, ClientAddress, Locales, TLC

VARIABLE focus

webVars == <<sessionVars, tokenVars, inertiaVars, addressVars, localeVars, focus>>

Shape(kind, once, rescue) == [kind |-> kind, once |-> once, rescue |-> rescue]
MCShapes == {Shape("eager", FALSE, FALSE), Shape("always", FALSE, FALSE),
             Shape("lazy", TRUE, FALSE), Shape("optional", FALSE, FALSE),
             Shape("deferred", FALSE, TRUE), Shape("deferred", TRUE, FALSE)}

Addr(fam, bits) == [fam |-> fam, bits |-> bits]
MCHosts == {Addr("v4", 0), Addr("v4", 3), Addr("v6", 1)}
MCListed == {[addr |-> Addr("v4", 1), prefix |-> 1], [addr |-> Addr("mapped", 3), prefix |-> 2],
             [addr |-> Addr("v6", 0), prefix |-> 2], [addr |-> Addr("v4", 2), prefix |-> 0],
             [addr |-> Addr("mapped", 0), prefix |-> 3]}

Tag(lang, region) == [lang |-> lang, region |-> region]
MCTags == {Tag("en", ""), Tag("fr", ""), Tag("fr", "CA")}
MCChosen == {NoTag, Tag("fr", "CA")}
MCOrder == [t \in MCTags |-> IF t.lang = "en" THEN 1 ELSE IF t.region = "" THEN 2 ELSE 3]
Weighted(tag, q) == [tag |-> tag, q |-> q]
MCHeaders == {<<>>,
              <<Weighted(Tag("fr", "CA"), 1), Weighted(Tag("en", ""), 2)>>,
              <<Weighted(Wildcard, 2), Weighted(Tag("de", ""), 2), Weighted(Tag("fr", ""), 0),
                Weighted(Tag("en", ""), 1)>>}

\* Out of focus.
NoSessions == SessionInit /\ issued = 0 /\ password = [u \in Users |-> 0]

NoPages ==
    /\ pages = [c \in {"none"} |-> [k \in PropKeys |-> NoProp]]
    /\ version = 0
    /\ client = [component |-> "none"]
    /\ request = [s \in Slots |-> NoRequest]

NoAddresses ==
    trusted = {} /\ holder = Junk /\ header = <<>> /\ who = Junk /\ proxies = {} /\ clientIp = Junk

NoLocales ==
    /\ registered = {} /\ fallback = NoTag /\ named = {} /\ appVary = {}
    /\ asked = <<>> /\ had = <<>> /\ stored = <<>>
    /\ got = [r \in Readers |-> [url |-> NoTag, locale |-> NoTag]]

\* In focus: every user stores a credential; or none does, and there is a session of an
\* earlier version.
SomeSessions == SessionInit /\ \A u \in Users : password[u] = 1 - issued

\* In focus: every user stores a credential, and there is a session of an earlier version.
OldSessions == SessionInit /\ issued = 1 /\ \A u \in Users : password[u] = 1

\* In focus: one of the two pages has at most one prop, eager or once.
SomePages ==
    /\ InertiaInit
    /\ \E c \in Components, k \in PropKeys :
        /\ pages[c][k] = NoProp
        /\ \A j \in PropKeys : pages[c][j].once \/ pages[c][j].kind \in {"none", "eager"}

\* In focus: the first catalog is the default, a session's key comes with one for the
\* URL, and Vary says one thing, or Cookie and one more.
SomeLocales ==
    /\ LocaleInit
    /\ fallback = FirstOf(registered)
    /\ named # {"session"}
    /\ \A x, y \in appVary \ {"Cookie"} : x = y

WebInit ==
    /\ TokenInit
    /\ \/ focus = "session" /\ SomeSessions /\ NoPages /\ NoAddresses /\ NoLocales
       \/ focus = "old" /\ OldSessions /\ NoPages /\ NoAddresses /\ NoLocales
       \/ focus = "token" /\ NoSessions /\ NoPages /\ NoAddresses /\ NoLocales
       \/ focus = "page" /\ NoSessions /\ SomePages /\ NoAddresses /\ NoLocales
       \/ focus = "address" /\ NoSessions /\ NoPages /\ AddressInit /\ NoLocales
       \/ focus = "locale" /\ NoSessions /\ NoPages /\ NoAddresses /\ SomeLocales

WebNext ==
    /\ UNCHANGED focus
    /\ \/ focus \in {"session", "old"} /\ SessionNext
          /\ (focus = "old" => visits' < MaxVisits)
          /\ UNCHANGED <<tokenVars, inertiaVars, addressVars, localeVars>>
       \/ focus = "token" /\ TokenNext
          /\ UNCHANGED <<sessionVars, inertiaVars, addressVars, localeVars>>
       \/ focus = "page" /\ InertiaNext
          /\ UNCHANGED <<sessionVars, tokenVars, addressVars, localeVars>>
       \/ focus = "address" /\ AddressNext
          /\ UNCHANGED <<sessionVars, tokenVars, inertiaVars, localeVars>>
       \/ focus = "locale" /\ LocaleNext
          /\ UNCHANGED <<sessionVars, tokenVars, inertiaVars, addressVars>>

WebSpec == WebInit /\ [][WebNext]_webVars

\* Sets of parts that never meet are given the same values, so that two permutations
\* are enough for all of them.
WebSymmetry == Permutations(Users) \cup Permutations(SessionRequests)
=============================================================================
