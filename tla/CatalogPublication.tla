------------------------- MODULE CatalogPublication -------------------------
(***************************************************************************)
(* Publication of the catalog's services and what they are executed with:  *)
(* catalog_core's publication, readiness, provider_mapping, provider_apply,*)
(* provider_snapshot and storefront_projection behind                      *)
(* routers/api_catalog_core.py.                                            *)
(*                                                                         *)
(* An administrator confirms what a page showed in a request made later;   *)
(* meanwhile others edit, publish, map and discover.  Every request is one *)
(* transaction that takes sqlite's write lock at once (db.py:60-74), and   *)
(* the discovery keeps it while it awaits the provider's answer; any other *)
(* request of the same process then waits for the lock inside the event    *)
(* loop, which stops until sqlite gives up.                                *)
(*                                                                         *)
(* Contents are abstract: `details' stands for every field of the service's*)
(* row but its status (complete: with a target policy), an item for an     *)
(* identity (provider, account, external id), `title' for the names along  *)
(* the path of a section.  One provider account; accounts, once mapped or  *)
(* used, stay.  The copies in the legacy table are in LegacyBridge.        *)
(***************************************************************************)
EXTENDS Naturals, Sequences

CONSTANTS
    Services, Sections, Titles, Prices, Items, Admins,
    Complete, Incomplete,   \* contents of a service's row
    None,                   \* no price, no source, no snapshot, nothing shown
    Home,                   \* bound: the section where services are created
    MaxEdits                \* bound: edits and successful discoveries

ASSUME PublicationAssumption == Home \in Sections /\ MaxEdits \in Nat

Details == Complete \cup Incomplete

VARIABLES
    service,        \* rows of services with their active price and source
    title,          \* names of the sections
    mappings,       \* provider_service_mappings in order of creation
    latest,         \* items of the latest successful snapshot
    event,          \* event_type of the service's latest publication row
    published,      \* contents of its latest row of type publish
    page,           \* what each administrator's open page shows
    lock,           \* the database's write lock
    edits           \* of the bound only

catalog == <<service, title, mappings, latest, event, published, page, edits>>
vars == <<catalog, lock>>

Closed == [kind |-> "closed"]

\* As create_service leaves them.
Created == [status : {"draft", "active", "archived"}, details : Details,
            section : {Home}, price : {None}, source : {None}]

Init ==
    /\ service \in [Services -> Created]
    /\ title \in [Sections -> Titles]
    /\ mappings = <<>>
    /\ latest = None
    /\ event = [s \in Services |-> "none"]
    /\ published = [s \in Services |-> None]
    /\ page = [a \in Admins |-> Closed]
    /\ lock = "free"
    /\ edits = 0

-----------------------------------------------------------------------------
(* What the code computes from the tables. *)

Content(s) ==
    [details |-> service[s].details, price |-> service[s].price,
     source |-> service[s].source, section |-> service[s].section,
     path |-> title[service[s].section]]

\* Mutant: where the service hangs is left out.
FingerprintWithoutPlace(c) == [c EXCEPT !.path = None, !.section = None]

Fingerprint(c) == c

\* Ready with the given source.
Ready(s, source) ==
    /\ service[s].status # "archived"
    /\ service[s].details \in Complete
    /\ service[s].price # None
    /\ source # None

Active == {m \in DOMAIN mappings : mappings[m].active}

CanPublish(s) ==
    /\ service[s].status = "active"
    /\ Ready(s, service[s].source)
    /\ \A m \in Active : mappings[m].service = s => mappings[m].item = service[s].source

CanApply(m) ==
    /\ m \in Active
    /\ latest # None
    /\ mappings[m].item \in latest
    /\ Ready(mappings[m].service, mappings[m].item)

\* What customers are shown of s: the current content, never the published one.
Storefront(s) ==
    IF event[s] = "publish" /\ service[s].status = "active" /\ Ready(s, service[s].source)
    THEN Content(s) ELSE None

-----------------------------------------------------------------------------
(* Edits. *)

Edit == edits < MaxEdits /\ edits' = edits + 1

\* update_service, archive_service, restore_service, delete_service: none of
\* them unpublishes or ends a mapping.
UpdateService(s) ==
    /\ Edit
    /\ \E status \in {"draft", "active", "archived"}, d \in Details :
          service' = [service EXCEPT ![s].status = status, ![s].details = d]
    /\ UNCHANGED <<title, mappings, latest, event, published, page>>

MoveService(s) ==
    /\ Edit
    /\ \E n \in Sections : service' = [service EXCEPT ![s].section = n]
    /\ UNCHANGED <<title, mappings, latest, event, published, page>>

RenameSection(n) ==
    /\ Edit
    /\ \E t \in Titles : title' = [title EXCEPT ![n] = t]
    /\ UNCHANGED <<service, mappings, latest, event, published, page>>

ChangePrice(s) ==
    /\ Edit
    /\ \E p \in Prices : service' = [service EXCEPT ![s].price = p]
    /\ UNCHANGED <<title, mappings, latest, event, published, page>>

ChangeExecutionSource(s) ==
    /\ Edit
    /\ \E i \in Items : service' = [service EXCEPT ![s].source = i]
    /\ UNCHANGED <<title, mappings, latest, event, published, page>>

-----------------------------------------------------------------------------
(* Mappings. *)

Ended(m) == [mappings EXCEPT ![m].active = FALSE]

\* Mutant: the mapping the service already has is not looked for.
FreeToMapAlways(s, i) == TRUE

FreeToMap(s, i) == \A m \in Active : mappings[m].service = s => mappings[m].item = i

CreateOrChangeMapping(s, i) ==
    LET new == [service |-> s, item |-> i, active |-> TRUE]
        previous == {m \in Active : mappings[m].item = i}
    IN
    /\ Edit
    /\ service[s].status # "archived"
    /\ \A m \in previous : mappings[m].service # s
    /\ FreeToMap(s, i)
    /\ mappings' = Append([m \in DOMAIN mappings |->
                              IF m \in previous THEN Ended(m)[m] ELSE mappings[m]], new)
    /\ UNCHANGED <<service, title, latest, event, published, page>>

\* end_mapping and end_mapping_for_soldium.
EndMapping(m) ==
    /\ Edit
    /\ m \in Active
    /\ mappings' = Ended(m)
    /\ UNCHANGED <<service, title, latest, event, published, page>>

-----------------------------------------------------------------------------
(* Publication. *)

PreviewPublication(a, s) ==
    /\ CanPublish(s)
    /\ page' = [page EXCEPT ![a] = [kind |-> "publish", service |-> s, shown |-> Content(s)]]
    /\ UNCHANGED <<service, title, mappings, latest, event, published, edits>>

\* Mutant: an equal fingerprint of the latest publish row is enough.
UnchangedSinceLastPublish(s) ==
    published[s] # None /\ Fingerprint(published[s]) = Fingerprint(Content(s))

AlreadyPublished(s) ==
    /\ event[s] = "publish"
    /\ Fingerprint(published[s]) = Fingerprint(Content(s))

Published(S) ==
    LET new == {s \in S : ~AlreadyPublished(s)} IN
    /\ event' = [s \in Services |-> IF s \in new THEN "publish" ELSE event[s]]
    /\ published' = [s \in Services |-> IF s \in new THEN Content(s) ELSE published[s]]

\* A concurrent change is refused; the page then stays as it is.
Publish(a) ==
    LET s == page[a].service IN
    /\ page[a].kind = "publish"
    /\ CanPublish(s)
    /\ Fingerprint(page[a].shown) = Fingerprint(Content(s))
    /\ Published({s})
    /\ page' = [page EXCEPT ![a] = Closed]
    /\ UNCHANGED <<service, title, mappings, latest, edits>>

\* A request without a fingerprint, which publish() accepts.  With several
\* services: publish_pilot, which previews and publishes in one transaction,
\* all of them or none.
PublishUnseen(S) ==
    /\ \A s \in S : CanPublish(s)
    /\ Published(S)
    /\ UNCHANGED <<service, title, mappings, latest, page, edits>>

\* order_contract_republish: the legacy contract is copied to the service,
\* which is unpublished and published anew; any failure undoes everything.
Republish(s, d) ==
    /\ Edit
    /\ service' = [service EXCEPT ![s].details = d]
    /\ UNCHANGED <<title, mappings, latest, page>>
    /\ CanPublish(s)'
    /\ event' = [event EXCEPT ![s] = "publish"]
    /\ published' = [published EXCEPT ![s] = Content(s)']

Unpublish(s) ==
    /\ event[s] = "publish"
    /\ event' = [event EXCEPT ![s] = "unpublish"]
    /\ UNCHANGED <<service, title, mappings, latest, published, page, edits>>

-----------------------------------------------------------------------------
(* From a mapping to the source of execution. *)

PreviewApply(a, m) ==
    /\ CanApply(m)
    /\ page' = [page EXCEPT ![a] =
                   [kind |-> "apply", mapping |-> m,
                    service |-> mappings[m].service, proposed |-> mappings[m].item,
                    current |-> service[mappings[m].service].source]]
    /\ UNCHANGED <<service, title, mappings, latest, event, published, edits>>

\* Mutant: the source found is not compared with the one shown.
AsExpectedAlways(shown, found) == TRUE

AsExpected(shown, found) == shown = found

Apply(a) ==
    LET m == page[a].mapping
        s == mappings[m].service
    IN
    /\ page[a].kind = "apply"
    /\ CanApply(m)
    /\ AsExpected(page[a].current, service[s].source)
    /\ service' = [service EXCEPT ![s].source = mappings[m].item]
    /\ page' = [page EXCEPT ![a] = Closed]
    /\ UNCHANGED <<title, mappings, latest, event, published, edits>>

-----------------------------------------------------------------------------
(* Discovery of the provider's items, holding the lock. *)

StartDiscovery == lock = "free" /\ lock' = "discovering" /\ UNCHANGED catalog

\* Another request reaches BEGIN IMMEDIATE: the event loop is blocked.
RequestBlocks == lock = "discovering" /\ lock' = "blocked" /\ UNCHANGED catalog

\* Mutant: sqlite waits for the lock for ever.
BusyTimeoutNever == lock = "blocked" /\ UNCHANGED vars

\* "database is locked": the request fails and the loop goes on.
BusyTimeout == lock = "blocked" /\ lock' = "discovering" /\ UNCHANGED catalog

\* discovered_at has whole seconds, and ties are broken by random ids: a
\* snapshot taken within a second of the last one may not become the latest.
ItemsFound ==
    /\ lock = "discovering"
    /\ lock' = "free"
    /\ Edit
    /\ latest' \in {latest} \cup SUBSET Items
    /\ UNCHANGED <<service, title, mappings, event, published, page>>

\* No answer, an unreadable one, or one with an id twice.
DiscoveryFails == lock = "discovering" /\ lock' = "free" /\ UNCHANGED catalog

-----------------------------------------------------------------------------
Request ==
    \/ \E s \in Services : \/ UpdateService(s)
                           \/ MoveService(s)
                           \/ ChangePrice(s)
                           \/ ChangeExecutionSource(s)
                           \/ Unpublish(s)
    \/ \E n \in Sections : RenameSection(n)
    \/ \E s \in Services, i \in Items : CreateOrChangeMapping(s, i)
    \/ \E m \in DOMAIN mappings : EndMapping(m)
    \/ \E a \in Admins, s \in Services : PreviewPublication(a, s)
    \/ \E a \in Admins : Publish(a)
    \/ \E S \in (SUBSET Services) \ {{}} : PublishUnseen(S)
    \/ \E s \in Services, d \in Complete : Republish(s, d)
    \/ \E a \in Admins, m \in DOMAIN mappings : PreviewApply(a, m)
    \/ \E a \in Admins : Apply(a)

Next ==
    \/ lock = "free" /\ Request /\ UNCHANGED lock
    \/ StartDiscovery
    \/ RequestBlocks
    \/ BusyTimeout
    \/ ItemsFound
    \/ DiscoveryFails

\* sqlite's timeout passes, and the fetch has a timeout of its own: between two
\* requests that block it the event loop always gets to see it ended.
Fairness ==
    /\ WF_vars(BusyTimeout)
    /\ SF_vars(ItemsFound \/ DiscoveryFails)

Spec == Init /\ [][Next]_vars /\ Fairness

-----------------------------------------------------------------------------
\* The rows are well formed; in particular neither a service nor an item has
\* two active mappings, so that the unique indexes of schema.py are never what
\* refuses a request (provider_mapping.py:253-270 answers before them).
ContentType == [details : Details, price : Prices \cup {None}, source : Items \cup {None},
                section : Sections, path : Titles]

CatalogTypeOK ==
    /\ service \in [Services -> [status : {"draft", "active", "archived"}, details : Details,
                                 section : Sections, price : Prices \cup {None},
                                 source : Items \cup {None}]]
    /\ title \in [Sections -> Titles]
    /\ mappings \in Seq([service : Services, item : Items, active : BOOLEAN])
    /\ \A m, n \in Active :
          m # n => mappings[m].service # mappings[n].service /\ mappings[m].item # mappings[n].item
    /\ latest = None \/ latest \subseteq Items
    /\ event \in [Services -> {"none", "publish", "unpublish"}]
    /\ \A s \in Services : IF event[s] = "none" THEN published[s] = None
                                                ELSE published[s] \in ContentType
    /\ lock \in {"free", "discovering", "blocked"}
    /\ edits \in 0 .. MaxEdits

\* The administrator's page closes on success, and only then.
Confirmed(a, kind) == page[a].kind = kind /\ page'[a] = Closed

\* When publishing from a page succeeds, what the page showed is what history
\* says was published and what customers see, whether the answer was that it
\* was published or that nothing had changed (publication.py:348-372).
PublishedAsPreviewed ==
    [][\A a \in Admins, s \in Services :
          Confirmed(a, "publish") /\ page[a].service = s =>
          /\ event'[s] = "publish"
          /\ published'[s] = page[a].shown
          /\ Storefront(s)' = page[a].shown]_vars

\* When applying a mapping from a page succeeds, the source the page showed has
\* given way to the item it showed, for the service it showed, which that item
\* is mapped to all the same; no other service is touched
\* (provider_apply.py:192-262).
SourceAsConfirmed ==
    [][\A a \in Admins : Confirmed(a, "apply") =>
          LET s == page[a].service IN
          /\ service[s].source = page[a].current
          /\ service' = [service EXCEPT ![s].source = page[a].proposed]
          /\ \E m \in Active : mappings[m].service = s /\ mappings[m].item = page[a].proposed]_vars

\* However many requests run into the lock a discovery holds, it ends, and the
\* catalog is open again (api_catalog_core.py:650-656, db.py:60-74).
DiscoveryEnds == lock # "free" ~> lock = "free"
=============================================================================
