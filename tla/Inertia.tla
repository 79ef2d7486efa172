------------------------------- MODULE Inertia -------------------------------
(***************************************************************************)
(* Inertia pages (inertia/props.rs, request.rs, render.rs): which props a   *)
(* response carries, announces for later or leaves out because the client   *)
(* holds them, and what a client that follows the protocol is left with.    *)
(*                                                                         *)
(* The client is external: it makes visits and partial reloads, loads what  *)
(* was announced as deferred in requests of their own that run beside the   *)
(* visits, and merges the answers.  A prop is its key; values and nested    *)
(* paths are left out.                                                     *)
(***************************************************************************)
EXTENDS Integers, FiniteSets

CONSTANTS Components,
          PropKeys,
          PropShapes,    \* the props pages are made of: [kind, once, rescue]
          MaxDeploys     \* bound: changes of the asset version

Kinds == {"eager", "always", "lazy", "optional", "deferred"}

ASSUME InertiaConstants ==
    /\ PropShapes \subseteq [kind : Kinds, once : BOOLEAN, rescue : BOOLEAN]
    /\ MaxDeploys \in Nat

VARIABLES pages,     \* the props each component is rendered with
          version,   \* the server's asset version
          client,    \* the page the client shows
          request    \* the visit and the background load in flight

inertiaVars == <<pages, version, client, request>>

NoProp == [kind |-> "none", once |-> FALSE, rescue |-> FALSE]
NoRequest == [at |-> "none"]
Slots == {"visit", "background"}

\* The keys a page has, and those of them that are remembered by the client.
KeysOf(component) == {k \in PropKeys : pages[component][k] # NoProp}
-----------------------------------------------------------------------------
\* Mutant: a partial reload stays one whatever component is rendered.
PartialForAny(req, component) == req.partial

\* partial_for: the reload is partial only for the component the client shows.
PartialFor(req, component) == req.partial /\ req.component = component

\* included: selected by only (all, when it is empty) and not by except.
Included(req, key) == (req.only = {} \/ key \in req.only) /\ key \notin req.except

\* holds_once.
Withheld(req, component, key) == pages[component][key].once /\ key \in req.held

\* plan_page: what becomes of a prop: its value is put in ("ready"), it is resolved
\* ("invoke"), announced, or nothing.
Plan(req, component, key) ==
    LET kind == pages[component][key].kind
        full == ~PartialFor(req, component)
    IN  IF Withheld(req, component, key) THEN "nothing"
        ELSE CASE kind = "always" -> "ready"
               [] kind = "eager" -> IF full \/ Included(req, key) THEN "ready" ELSE "nothing"
               [] kind = "lazy" -> IF full \/ Included(req, key) THEN "invoke" ELSE "nothing"
               [] kind = "optional" -> IF ~full /\ Included(req, key) THEN "invoke" ELSE "nothing"
               [] kind = "deferred" -> IF full THEN "announce"
                                       ELSE IF Included(req, key) THEN "invoke" ELSE "nothing"

Planned(req, component, action) == {k \in KeysOf(component) : Plan(req, component, k) = action}

\* Mutant: only the once props that are in the response are listed in it.
OnceSent(req, component, sent) ==
    {k \in KeysOf(component) : pages[component][k].once /\ k \in sent}

\* The once props apply lists: those sent, and those withheld.
OnceListed(req, component, sent) ==
    {k \in KeysOf(component) :
        pages[component][k].once /\ (k \in sent \/ Withheld(req, component, k))}

\* resolve, when the resolvers in failing fail: none may but those of rescued props.
Page(req, component, failing) ==
    LET sent == Planned(req, component, "ready")
                \cup (Planned(req, component, "invoke") \ failing)
    IN  [component |-> component, sent |-> sent,
         announced |-> Planned(req, component, "announce"),
         rescued |-> failing,
         once |-> OnceListed(req, component, sent)]
-----------------------------------------------------------------------------
\* The client: the page it shows, the props it has, those it waits for, those that
\* were rescued, the once props it names as held, those whose value it has stored, and
\* the version of its assets.
Shown(page, have, awaited, rescued, once, stored, v) ==
    [component |-> page.component, have |-> have, awaited |-> awaited,
     rescued |-> rescued, once |-> once, stored |-> stored \cup (page.once \cap page.sent),
     version |-> v]

\* The first answer, a document: nothing is held, nothing is partial.
Document(component) ==
    LET page == Page([partial |-> FALSE, held |-> {}], component, {})
    IN  Shown(page, page.sent, page.announced, {}, page.once, {}, version)

InertiaInit ==
    /\ pages \in [Components -> [PropKeys -> PropShapes \cup {NoProp}]]
    /\ version = 0
    /\ \E c \in Components : client = Document(c)
    /\ request = [s \in Slots |-> NoRequest]

Asks(get, partial, only, except) ==
    [at |-> "sent", get |-> get, partial |-> partial, component |-> client.component,
     only |-> only, except |-> except, held |-> client.once, version |-> client.version]

\* A link is followed, or a form is sent: the visit in flight is cancelled.
VisitPage(get) ==
    /\ request' = [request EXCEPT !["visit"] = Asks(get, FALSE, {}, {})]
    /\ UNCHANGED <<pages, version, client>>

\* router.reload of some props.
Reload(only, except) ==
    /\ request["visit"] = NoRequest
    /\ request' = [request EXCEPT !["visit"] = Asks(TRUE, TRUE, only, except)]
    /\ UNCHANGED <<pages, version, client>>

\* The announced props are asked for.
LoadDeferred ==
    /\ request["background"] = NoRequest
    /\ client.awaited # {}
    /\ request' = [request EXCEPT !["background"] = Asks(TRUE, TRUE, client.awaited, {})]
    /\ UNCHANGED <<pages, version, client>>

\* What the client makes of a page: the answer to its partial reload is added to what
\* it shows; another page replaces it, with the once props that are listed kept.
Merged(req, page) ==
    IF req.partial /\ req.component = page.component
    THEN Shown(page, client.have \cup page.sent,
               client.awaited \ (page.sent \cup page.rescued),
               (client.rescued \cup page.rescued) \ page.sent,
               client.once \cup page.once, client.stored, client.version)
    ELSE Shown(page, page.sent \cup (page.once \cap client.stored), page.announced,
               page.rescued, page.once, client.stored, client.version)

\* The server renders a component (the one asked for, or another: a sign-in page, a
\* redirect) at the client's version, or at any version if the request is no GET.  The
\* client drops the answer to a partial reload of a page it has left.
Answer(slot, component, failing) ==
    LET req == request[slot]
    IN  /\ req # NoRequest
        /\ req.get => req.version = version
        /\ failing \subseteq {k \in Planned(req, component, "invoke") : pages[component][k].rescue}
        /\ client' = IF req.partial /\ req.component # client.component THEN client
                     ELSE Merged(req, Page(req, component, failing))
        /\ request' = [request EXCEPT ![slot] = NoRequest]
        /\ UNCHANGED <<pages, version>>

\* version_mismatch_response: a GET from older assets is answered 409, and the client
\* loads the document again, whatever else it was loading.
VersionConflict(slot, component) ==
    /\ request[slot] # NoRequest
    /\ request[slot].get /\ request[slot].version # version
    /\ client' = Document(component)
    /\ request' = [s \in Slots |-> NoRequest]
    /\ UNCHANGED <<pages, version>>

\* A resolver fails, or the answer is lost: the client keeps what it has.
AnswerLost(slot) ==
    /\ request[slot] # NoRequest
    /\ request' = [request EXCEPT ![slot] = NoRequest]
    /\ UNCHANGED <<pages, version, client>>

\* A remembered prop expires on the client: it is not named as held any more.
OnceExpires(key) ==
    /\ key \in client.once
    /\ client' = [client EXCEPT !.once = @ \ {key}]
    /\ UNCHANGED <<pages, version, request>>

Deploy ==
    /\ version < MaxDeploys
    /\ version' = version + 1
    /\ UNCHANGED <<pages, client, request>>

InertiaNext ==
    \/ VisitPage(TRUE) \/ VisitPage(FALSE) \/ LoadDeferred \/ Deploy
    \/ \E only \in SUBSET PropKeys : Reload(only, {})
    \/ \E only \in SUBSET PropKeys, except \in PropKeys : Reload(only, {except})
    \/ \E s \in Slots :
        \/ AnswerLost(s)
        \/ \E c \in Components :
            \/ VersionConflict(s, c)
            \/ \E failing \in SUBSET PropKeys : Answer(s, c, failing)
    \/ \E k \in PropKeys : OnceExpires(k)

InertiaSpec == InertiaInit /\ [][InertiaNext]_inertiaVars
-----------------------------------------------------------------------------
\* The client is never short of a prop without knowing it: every prop of the page it
\* shows is there, or announced and awaited, or reported as rescued, or optional;
\* after partial reloads answered with another page, once props withheld, background
\* loads that arrive late, failures and deploys.
PageComplete ==
    \A k \in KeysOf(client.component) :
        \/ k \in client.have \cup client.awaited \cup client.rescued
        \/ pages[client.component][k].kind = "optional"
=============================================================================
