------------------------------- MODULE Locales -------------------------------
(***************************************************************************)
(* Locale negotiation (i18n/negotiate.rs) in front of a shared cache that   *)
(* follows Vary.  A locale is a language and a region ("" for none); an     *)
(* Accept-Language header is the sequence of the ranges that are left of it *)
(* once it is cut to MAX_ACCEPT_LANGUAGE_LEN, with their weight.            *)
(* The cache is external.                                                  *)
(***************************************************************************)
EXTENDS Integers, Sequences

CONSTANTS Readers,
          Tags,            \* the locales there are: [lang, region]
          Chosen,          \* the tags a URL's parameter or a session may name, or NoTag
          Order,           \* the catalogs' order, on Tags
          Headers,         \* the Accept-Language headers readers send
          MaxCandidates    \* MAX_CANDIDATES

ASSUME LocaleConstants ==
    /\ Order \in [Tags -> Nat]
    /\ MaxCandidates \in Nat

VARIABLES registered,   \* the locales with a catalog
          fallback,     \* the default among them
          named,        \* of "query" and "session", what the application named a key for
          asked,        \* what each reader's requests carry: [header, session]
          had,          \* history: the session locales each reader has had
          appVary,      \* the Vary tokens the application's own response has, with
                        \* "opaque" for a line that is not text
          stored,       \* the shared cache: per URL, the responses it keeps
          got           \* the last locale each reader was answered in, and the URL

localeVars == <<registered, fallback, named, asked, had, appVary, stored, got>>

NoTag == [lang |-> "none", region |-> ""]
Wildcard == [lang |-> "*", region |-> ""]

\* The first of a set of locales in the catalogs' order.
FirstOf(tags) == CHOOSE t \in tags : \A u \in tags : Order[t] <= Order[u]

\* registered: an exact match, else a locale of the same language.
Registered(tag) ==
    LET same == {t \in registered : t.lang = tag.lang}
    IN  IF tag \in registered THEN tag ELSE IF same # {} THEN FirstOf(same) ELSE NoTag

\* accept_language_candidates: of the first ranges, without wildcards and those of
\* weight 0, the ones with a registered locale; and the first of the highest weight.
Usable(header) ==
    {i \in DOMAIN header : /\ i <= MaxCandidates
                           /\ header[i].tag # Wildcard
                           /\ header[i].q > 0
                           /\ Registered(header[i].tag) # NoTag}

Foremost(header, ranges) ==
    LET before(i, j) == header[i].q > header[j].q \/ (header[i].q = header[j].q /\ i <= j)
    IN  CHOOSE i \in ranges : \A j \in ranges : before(i, j)

\* match_accept_language.
MatchAcceptLanguage(header) ==
    IF Usable(header) = {} THEN NoTag
    ELSE Registered(header[Foremost(header, Usable(header))].tag)

\* What the URL, the session, the header and the default say, in the order they count.
Offered(url, session, header) ==
    <<IF "query" \in named THEN Registered(url) ELSE NoTag,
      IF "session" \in named THEN Registered(session) ELSE NoTag,
      MatchAcceptLanguage(header), fallback>>

FirstSaid(choices) ==
    choices[CHOOSE i \in DOMAIN choices :
                choices[i] # NoTag /\ \A j \in 1..(i - 1) : choices[j] = NoTag]

\* resolve: the first of them that says anything.
ResolveLocale(url, session, header) == FirstSaid(Offered(url, session, header))

\* Mutant: the layer's Vary replaces the application's.
VaryReplaced(tokens) == IF "*" \in tokens THEN tokens ELSE {"Accept-Language"}

\* ensure_vary_accept_language: nothing to do, or one line in place of all the
\* lines there were, without those it could not read.
EnsureVary(tokens) ==
    IF tokens \cap {"*", "Accept-Language"} # {} THEN tokens
    ELSE (tokens \ {"opaque"}) \cup {"Accept-Language"}
-----------------------------------------------------------------------------
LocaleInit ==
    /\ registered \in SUBSET Tags \ {{}}
    /\ fallback \in registered
    /\ named \in SUBSET {"query", "session"}
    /\ asked \in [Readers -> [header : Headers, session : {NoTag}]]
    /\ had = [r \in Readers |-> {NoTag}]
    /\ appVary \in SUBSET {"Cookie", "Accept-Language", "*", "opaque"}
    /\ stored = [u \in Chosen |-> {}]
    /\ got = [r \in Readers |-> [url |-> NoTag, locale |-> NoTag]]

\* The fields of a request that Vary names; a cookie is the reader's own.
Varied(vary, r) ==
    <<IF "Accept-Language" \in vary THEN asked[r].header ELSE <<>>,
      IF "Cookie" \in vary THEN r ELSE "any">>

\* LocaleMiddleware::call, and annotate: the answer is in the negotiated locale, with
\* Vary.  The cache on the way keeps it unless it varies on everything.
Origin(r, url) ==
    LET locale == ResolveLocale(url, asked[r].session, asked[r].header)
        vary == EnsureVary(appVary)
    IN  /\ got' = [got EXCEPT ![r] = [url |-> url, locale |-> locale]]
        /\ stored' = IF "*" \in vary THEN stored
                     ELSE [stored EXCEPT ![url] = @ \cup {[vary |-> vary, locale |-> locale,
                                                           key |-> Varied(vary, r)]}]
        /\ UNCHANGED <<registered, fallback, named, asked, had, appVary>>

\* The cache answers a request that a kept response fits.
CacheHit(r, url) ==
    \E e \in stored[url] :
        /\ e.key = Varied(e.vary, r)
        /\ got' = [got EXCEPT ![r] = [url |-> url, locale |-> e.locale]]
        /\ UNCHANGED <<registered, fallback, named, asked, had, appVary, stored>>

\* The reader picks another language, which the application keeps in the session:
\* the cookie stays the same.
SwitchLocale(r, tag) ==
    /\ "session" \in named
    /\ asked' = [asked EXCEPT ![r] = [header |-> @.header, session |-> tag]]
    /\ had' = [had EXCEPT ![r] = @ \cup {tag}]
    /\ UNCHANGED <<registered, fallback, named, appVary, stored, got>>

LocaleNext ==
    \E r \in Readers, t \in Chosen : Origin(r, t) \/ CacheHit(r, t) \/ SwitchLocale(r, t)

LocaleSpec == LocaleInit /\ [][LocaleNext]_localeVars
-----------------------------------------------------------------------------
\* What reader r is answered in was negotiated for r, by the session as it is or
\* as it was.
OwnLocale(r) ==
    got[r].locale = NoTag \/
        \E tag \in had[r] : got[r].locale = ResolveLocale(got[r].url, tag, asked[r].header)

\* No reader is served the page of another reader's language out of a shared cache,
\* in an application that keeps no locale in the session, or says Vary: Cookie itself.
\* A reader who switched may still be served the language it had.
CachedInOwnLocale ==
    "session" \notin named \/ "Cookie" \in appVary => \A r \in Readers : OwnLocale(r)

\* The same of every application, as the module's documentation of Vary has it ("without
\* it a shared cache ... serves the French page to the next English reader").  It does
\* not hold: a locale taken from the session is announced with Accept-Language alone.
AlwaysInOwnLocale == \A r \in Readers : OwnLocale(r)
=============================================================================
