----------------------- MODULE CatalogPublicationProofs -----------------------
(***************************************************************************)
(* What administrators confirm is what their pages showed, for any sets of *)
(* services, sections, prices, items and administrators and any number of  *)
(* edits: CatalogTypeOK, PublishedAsPreviewed and SourceAsConfirmed.       *)
(*                                                                         *)
(* PubInv is inductive.  To the types of the tables it adds PagesOK: a     *)
(* page that shows a mapping goes on naming its service and its item,      *)
(* since mappings are ended and never rewritten.  Without it an apply      *)
(* could reach a service other than the one its page showed.               *)
(***************************************************************************)
EXTENDS CatalogPublication, SequenceTheorems, TLAPS

MappingType == [service : Services, item : Items, active : BOOLEAN]

RowsOK ==
    /\ service \in [Services -> [status : {"draft", "active", "archived"}, details : Details,
                                 section : Sections, price : Prices \cup {None},
                                 source : Items \cup {None}]]
    /\ title \in [Sections -> Titles]
    /\ latest = None \/ latest \subseteq Items
    /\ lock \in {"free", "discovering", "blocked"}
    /\ edits \in 0 .. MaxEdits

OneToOne ==
    \A m, n \in Active :
       m # n => mappings[m].service # mappings[n].service /\ mappings[m].item # mappings[n].item

MappingsOK == mappings \in Seq(MappingType) /\ OneToOne

HistoryOK ==
    /\ event \in [Services -> {"none", "publish", "unpublish"}]
    /\ \A s \in Services : IF event[s] = "none" THEN published[s] = None
                                                ELSE published[s] \in ContentType

PageType ==
    {Closed} \cup [kind : {"publish"}, service : Services, shown : ContentType]
             \cup [kind : {"apply"}, mapping : Nat, service : Services, proposed : Items,
                   current : Items \cup {None}]

PagesOK ==
    /\ page \in [Admins -> PageType]
    /\ published \in [Services -> ContentType \cup {None}]
    /\ \A a \in Admins : page[a].kind = "apply" =>
          /\ page[a].mapping \in DOMAIN mappings
          /\ mappings[page[a].mapping].service = page[a].service
          /\ mappings[page[a].mapping].item = page[a].proposed

PubInv == RowsOK /\ MappingsOK /\ HistoryOK /\ PagesOK

LEMMA InvGivesTypes == PubInv => CatalogTypeOK
BY DEF PubInv, RowsOK, MappingsOK, OneToOne, HistoryOK, CatalogTypeOK, MappingType

-----------------------------------------------------------------------------
\* A sequence whose elements are replaced one by one has the same length.
LEMMA Rewritten ==
    ASSUME NEW T, NEW q \in Seq(T), NEW r \in [DOMAIN q -> T]
    PROVE  r \in Seq(T) /\ Len(r) = Len(q) /\ DOMAIN r = DOMAIN q
<1>1. DOMAIN q = 1 .. Len(q) /\ Len(q) \in Nat
  BY LenProperties
<1>2. r \in [1 .. Len(q) -> T]
  BY <1>1
<1>3. r \in Seq(T)
  BY <1>1, <1>2, SeqDef
<1>4. DOMAIN r = 1 .. Len(r) /\ Len(r) \in Nat
  BY <1>3, LenProperties
<1>5. 1 .. Len(r) = 1 .. Len(q)
  BY <1>1, <1>2, <1>4
<1>6. Len(r) = Len(q)
  BY <1>1, <1>4, <1>5
<1>7. QED
  BY <1>1, <1>3, <1>4, <1>6

\* What the tables hold of a service is a content.
LEMMA ContentTyped ==
    ASSUME RowsOK
    PROVE  \A s \in Services : Content(s) \in ContentType
BY DEF RowsOK, Content, ContentType

-----------------------------------------------------------------------------
LEMMA PubInitially == ASSUME Init PROVE PubInv
<1>1. RowsOK
  BY PublicationAssumption DEF Init, RowsOK, Created
<1>2. MappingsOK
  BY DEF Init, MappingsOK, OneToOne, Active
<1>3. HistoryOK /\ PagesOK
  BY DEF Init, HistoryOK, PagesOK, PageType, Closed
<1>4. QED
  BY <1>1, <1>2, <1>3 DEF PubInv

-----------------------------------------------------------------------------
(* The steps.  Most of them leave three of the conjuncts alone.            *)

LEMMA RestKept ==
    ASSUME PubInv, UNCHANGED <<mappings, event, published, page>>
    PROVE  MappingsOK' /\ HistoryOK' /\ PagesOK'
<1>1. MappingsOK'
  BY DEF PubInv, MappingsOK, OneToOne, Active
<1>2. HistoryOK'
  BY DEF PubInv, HistoryOK
<1>3. PagesOK'
  BY DEF PubInv, PagesOK
<1>4. QED
  BY <1>1, <1>2, <1>3

\* Edits of services and sections, and discoveries.
LEMMA EditKeepsInv ==
    ASSUME PubInv, UNCHANGED lock,
           \/ \E s \in Services : \/ UpdateService(s)
                                  \/ MoveService(s)
                                  \/ ChangePrice(s)
                                  \/ ChangeExecutionSource(s)
           \/ \E n \in Sections : RenameSection(n)
    PROVE  PubInv'
<1>1. RowsOK /\ edits' \in 0 .. MaxEdits
  <2>1. Edit
    BY DEF UpdateService, MoveService, ChangePrice, ChangeExecutionSource, RenameSection
  <2>2. QED
    BY <2>1, PublicationAssumption DEF PubInv, RowsOK, Edit
<1>2. latest' = latest /\ UNCHANGED <<mappings, event, published, page>>
  BY DEF UpdateService, MoveService, ChangePrice, ChangeExecutionSource, RenameSection
<1>3. title' \in [Sections -> Titles]
  BY <1>1
  DEF RowsOK, UpdateService, MoveService, ChangePrice, ChangeExecutionSource, RenameSection
<1>4. service' \in [Services -> [status : {"draft", "active", "archived"}, details : Details,
                                 section : Sections, price : Prices \cup {None},
                                 source : Items \cup {None}]]
  <2>1. CASE \E s \in Services : UpdateService(s)
    BY <1>1, <2>1 DEF RowsOK, UpdateService
  <2>2. CASE \E s \in Services : MoveService(s)
    BY <1>1, <2>2 DEF RowsOK, MoveService
  <2>3. CASE \E s \in Services : ChangePrice(s)
    BY <1>1, <2>3 DEF RowsOK, ChangePrice
  <2>4. CASE \E s \in Services : ChangeExecutionSource(s)
    BY <1>1, <2>4 DEF RowsOK, ChangeExecutionSource
  <2>5. CASE \E n \in Sections : RenameSection(n)
    BY <1>1, <2>5 DEF RowsOK, RenameSection
  <2>6. QED
    BY <2>1, <2>2, <2>3, <2>4, <2>5
<1>5. RowsOK'
  BY <1>1, <1>2, <1>3, <1>4 DEF RowsOK
<1>6. QED
  BY <1>2, <1>5, RestKept DEF PubInv

\* Discovery changes the lock and the latest snapshot only.
LEMMA DiscoveryKeepsInv ==
    ASSUME PubInv,
           StartDiscovery \/ RequestBlocks \/ BusyTimeout \/ ItemsFound \/ DiscoveryFails
    PROVE  PubInv'
<1>1. UNCHANGED <<service, title, mappings, event, published, page>>
  BY DEF StartDiscovery, RequestBlocks, BusyTimeout, ItemsFound, DiscoveryFails, catalog
<1>2. /\ edits' \in 0 .. MaxEdits
      /\ lock' \in {"free", "discovering", "blocked"}
      /\ latest' = None \/ latest' \subseteq Items
  BY PublicationAssumption
  DEF PubInv, RowsOK, StartDiscovery, RequestBlocks, BusyTimeout, ItemsFound, DiscoveryFails,
      catalog, Edit
<1>3. RowsOK'
  BY <1>1, <1>2 DEF PubInv, RowsOK
<1>4. QED
  BY <1>1, <1>3, RestKept DEF PubInv

-----------------------------------------------------------------------------
\* Pages go on naming what their mapping holds, whatever becomes of it.
LEMMA PagesKept ==
    ASSUME PubInv, UNCHANGED <<page, published>>,
           \A m \in DOMAIN mappings : /\ m \in DOMAIN mappings'
                                      /\ mappings'[m].service = mappings[m].service
                                      /\ mappings'[m].item = mappings[m].item
    PROVE  PagesOK'
BY DEF PubInv, PagesOK

LEMMA EndMappingKeepsInv ==
    ASSUME PubInv, UNCHANGED lock, NEW m \in DOMAIN mappings, EndMapping(m)
    PROVE  PubInv'
<1>1. /\ mappings \in Seq(MappingType) /\ m \in Active
      /\ mappings' = [mappings EXCEPT ![m].active = FALSE]
      /\ UNCHANGED <<service, title, latest, event, published, page>>
  BY DEF PubInv, MappingsOK, EndMapping, Ended
<1>2. \A n \in DOMAIN mappings : mappings[n] \in MappingType
  BY <1>1, LenProperties
<1>3. mappings' \in [DOMAIN mappings -> MappingType]
  BY <1>1, <1>2, LenProperties DEF MappingType
<1>4. mappings' \in Seq(MappingType) /\ DOMAIN mappings' = DOMAIN mappings
  BY <1>1, <1>3, Rewritten
<1>5. \A n \in DOMAIN mappings : /\ mappings'[n].service = mappings[n].service
                                 /\ mappings'[n].item = mappings[n].item
                                 /\ mappings'[n].active => mappings[n].active
  BY <1>1, <1>2 DEF MappingType
<1>6. OneToOne'
  BY <1>4, <1>5 DEF PubInv, MappingsOK, OneToOne, Active
<1>7. PagesOK'
  BY <1>1, <1>4, <1>5, PagesKept
<1>8. RowsOK' /\ HistoryOK'
  BY <1>1, PublicationAssumption DEF PubInv, RowsOK, HistoryOK, EndMapping, Edit
<1>9. QED
  BY <1>4, <1>6, <1>7, <1>8 DEF PubInv, MappingsOK

\* The item leaves the service it was mapped to, and comes to a service that
\* has no mapping to another one.
LEMMA MappingKeepsInv ==
    ASSUME PubInv, UNCHANGED lock, NEW s \in Services, NEW i \in Items,
           CreateOrChangeMapping(s, i)
    PROVE  PubInv'
<1> DEFINE previous == {m \in Active : mappings[m].item = i}
           new == [service |-> s, item |-> i, active |-> TRUE]
           old == [m \in DOMAIN mappings |->
                     IF m \in previous THEN Ended(m)[m] ELSE mappings[m]]
           last == Len(mappings) + 1
<1>1. /\ mappings \in Seq(MappingType)
      /\ mappings' = Append(old, new)
      /\ \A m \in previous : mappings[m].service # s
      /\ FreeToMap(s, i)
      /\ UNCHANGED <<service, title, latest, event, published, page>>
  BY DEF PubInv, MappingsOK, CreateOrChangeMapping
<1>2. \A m \in DOMAIN mappings : mappings[m] \in MappingType
  BY <1>1, LenProperties
<1>3. \A m \in DOMAIN mappings : /\ old[m] \in MappingType
                                 /\ old[m].service = mappings[m].service
                                 /\ old[m].item = mappings[m].item
                                 /\ old[m].active => mappings[m].active /\ m \notin previous
  BY <1>2 DEF Ended, MappingType, Active
<1>4. old \in Seq(MappingType) /\ Len(old) = Len(mappings) /\ DOMAIN old = DOMAIN mappings
  <2>1. old \in [DOMAIN mappings -> MappingType]
    BY <1>3
  <2>2. QED
    BY <1>1, <2>1, Rewritten
<1>5. /\ mappings' \in Seq(MappingType)
      /\ DOMAIN mappings' = DOMAIN mappings \cup {last} /\ last \notin DOMAIN mappings
      /\ mappings'[last] = new
      /\ \A m \in DOMAIN mappings : mappings'[m] = old[m]
  <2>1. new \in MappingType
    BY DEF MappingType
  <2>2. /\ Append(old, new) \in Seq(MappingType)
        /\ Len(Append(old, new)) = last
        /\ \A m \in 1 .. Len(mappings) : Append(old, new)[m] = old[m]
        /\ Append(old, new)[last] = new
    BY <1>4, <2>1, AppendProperties
  <2>3. /\ DOMAIN mappings = 1 .. Len(mappings) /\ Len(mappings) \in Nat
        /\ DOMAIN Append(old, new) = 1 .. last
    BY <1>1, <2>2, LenProperties
  <2>4. QED
    BY <1>1, <2>2, <2>3
<1>6. ASSUME NEW m \in DOMAIN mappings, mappings'[m].active
      PROVE  /\ m \in Active
             /\ mappings'[m].service = mappings[m].service /\ mappings[m].service # s
             /\ mappings'[m].item = mappings[m].item /\ mappings[m].item # i
  <2>1. m \in Active /\ m \notin previous
    BY <1>3, <1>5, <1>6 DEF Active
  <2>2. mappings[m].item # i
    BY <2>1
  <2>3. mappings[m].service # s
    BY <1>1, <2>1, <2>2 DEF FreeToMap
  <2>4. QED
    BY <1>3, <1>5, <2>1, <2>2, <2>3
<1>7. OneToOne'
  <2> SUFFICES ASSUME NEW m \in Active', NEW n \in Active', m # n
               PROVE  mappings'[m].service # mappings'[n].service
                      /\ mappings'[m].item # mappings'[n].item
    BY DEF OneToOne
  <2>1. m \in DOMAIN mappings' /\ mappings'[m].active /\ n \in DOMAIN mappings' /\ mappings'[n].active
    BY DEF Active
  <2>2. CASE m \in DOMAIN mappings /\ n \in DOMAIN mappings
    BY <1>6, <2>1, <2>2 DEF PubInv, MappingsOK, OneToOne
  <2>3. CASE m = last
    <3>1. n \in DOMAIN mappings /\ mappings'[m].service = s /\ mappings'[m].item = i
      BY <1>5, <2>1, <2>3
    <3>2. QED
      BY <1>6, <2>1, <3>1
  <2>4. CASE n = last
    <3>1. m \in DOMAIN mappings /\ mappings'[n].service = s /\ mappings'[n].item = i
      BY <1>5, <2>1, <2>4
    <3>2. QED
      BY <1>6, <2>1, <3>1
  <2>5. QED
    BY <1>5, <2>1, <2>2, <2>3, <2>4
<1>8. PagesOK'
  BY <1>1, <1>3, <1>5, PagesKept
<1>9. RowsOK' /\ HistoryOK'
  BY <1>1, PublicationAssumption DEF PubInv, RowsOK, HistoryOK, CreateOrChangeMapping, Edit
<1>10. QED
  BY <1>5, <1>7, <1>8, <1>9 DEF PubInv, MappingsOK

-----------------------------------------------------------------------------
\* What publishing leaves of a service: a content it can be published with.
LEMMA PublishedKeepsHistory ==
    ASSUME PubInv, NEW S \in SUBSET Services, Published(S)
    PROVE  HistoryOK' /\ published' \in [Services -> ContentType \cup {None}]
<1>1. \A s \in Services : Content(s) \in ContentType
  BY ContentTyped DEF PubInv
<1>2. event' \in [Services -> {"none", "publish", "unpublish"}]
  BY DEF PubInv, HistoryOK, Published
<1>3. ASSUME NEW s \in Services
      PROVE  \/ event'[s] = "publish" /\ published'[s] = Content(s)
             \/ event'[s] = event[s] /\ published'[s] = published[s]
  BY DEF Published
<1>4. published' \in [Services -> ContentType \cup {None}]
  BY <1>1 DEF PubInv, PagesOK, Published
<1>5. HistoryOK'
  BY <1>1, <1>2, <1>3 DEF PubInv, HistoryOK
<1>6. QED
  BY <1>4, <1>5

LEMMA PublicationKeepsInv ==
    ASSUME PubInv, UNCHANGED lock,
           \/ \E s \in Services : Unpublish(s)
           \/ \E a \in Admins : Publish(a)
           \/ \E S \in (SUBSET Services) \ {{}} : PublishUnseen(S)
    PROVE  PubInv'
<1>1. UNCHANGED <<service, title, mappings, latest, edits>>
  BY DEF Unpublish, Publish, PublishUnseen
<1>2. RowsOK' /\ MappingsOK'
  BY <1>1 DEF PubInv, RowsOK, MappingsOK, OneToOne, Active
<1>3. HistoryOK' /\ published' \in [Services -> ContentType \cup {None}]
  <2>1. CASE \E s \in Services : Unpublish(s)
    BY <2>1 DEF PubInv, HistoryOK, PagesOK, Unpublish
  <2>2. ASSUME NEW a \in Admins, Publish(a)
        PROVE  \E S \in SUBSET Services : Published(S)
    <3>1. page[a].kind = "publish" /\ page[a] \in PageType
      BY <2>2 DEF Publish, PubInv, PagesOK
    <3>2. page[a].service \in Services
      BY <3>1 DEF PageType, Closed
    <3>3. QED
      BY <2>2, <3>2 DEF Publish
  <2>3. CASE \E a \in Admins : Publish(a)
    BY <2>2, <2>3, PublishedKeepsHistory
  <2>4. CASE \E S \in (SUBSET Services) \ {{}} : PublishUnseen(S)
    BY <2>4, PublishedKeepsHistory DEF PublishUnseen
  <2>5. QED
    BY <2>1, <2>3, <2>4
<1>4. page' \in [Admins -> PageType] /\ \A a \in Admins : page'[a] \in {page[a], Closed}
  BY DEF PubInv, PagesOK, PageType, Unpublish, Publish, PublishUnseen
<1>5. PagesOK'
  BY <1>1, <1>3, <1>4 DEF PubInv, PagesOK, Closed
<1>6. QED
  BY <1>2, <1>3, <1>5 DEF PubInv

LEMMA RepublishKeepsInv ==
    ASSUME PubInv, UNCHANGED lock, NEW s \in Services, NEW d \in Complete, Republish(s, d)
    PROVE  PubInv'
<1>1. RowsOK'
  <2>1. service' = [service EXCEPT ![s].details = d] /\ d \in Details /\ Edit
        /\ UNCHANGED <<title, latest, lock>>
    BY DEF Republish, Details
  <2>2. edits' \in 0 .. MaxEdits
    BY <2>1, PublicationAssumption DEF PubInv, RowsOK, Edit
  <2>3. QED
    BY <2>1, <2>2 DEF PubInv, RowsOK
<1>2. Content(s)' \in ContentType
  BY <1>1 DEF RowsOK, Content, ContentType
<1>3. MappingsOK'
  BY DEF PubInv, MappingsOK, OneToOne, Active, Republish
<1>4. HistoryOK' /\ published' \in [Services -> ContentType \cup {None}]
  BY <1>2 DEF PubInv, HistoryOK, PagesOK, Republish
<1>5. PagesOK'
  BY <1>4 DEF PubInv, PagesOK, Republish
<1>6. QED
  BY <1>1, <1>3, <1>4, <1>5 DEF PubInv

-----------------------------------------------------------------------------
LEMMA PreviewPublicationKeepsInv ==
    ASSUME PubInv, UNCHANGED lock, NEW a \in Admins, NEW s \in Services, PreviewPublication(a, s)
    PROVE  PubInv'
<1> DEFINE new == [kind |-> "publish", service |-> s, shown |-> Content(s)]
<1>1. page' = [page EXCEPT ![a] = new] /\ new \in PageType
  BY ContentTyped DEF PreviewPublication, PubInv, PageType
<1>2. RowsOK' /\ MappingsOK' /\ HistoryOK'
  BY DEF PubInv, RowsOK, MappingsOK, OneToOne, Active, HistoryOK, PreviewPublication
<1>3. PagesOK'
  BY <1>1 DEF PubInv, PagesOK, PreviewPublication
<1>4. QED
  BY <1>2, <1>3 DEF PubInv

LEMMA PreviewApplyKeepsInv ==
    ASSUME PubInv, UNCHANGED lock, NEW a \in Admins, NEW m \in DOMAIN mappings, PreviewApply(a, m)
    PROVE  PubInv'
<1> DEFINE new == [kind |-> "apply", mapping |-> m, service |-> mappings[m].service,
                   proposed |-> mappings[m].item,
                   current |-> service[mappings[m].service].source]
<1>1. m \in Nat /\ mappings[m] \in MappingType
  BY LenProperties DEF PubInv, MappingsOK
<1>2. service[mappings[m].service].source \in Items \cup {None}
  BY <1>1 DEF PubInv, RowsOK, MappingType
<1>3. page' = [page EXCEPT ![a] = new] /\ new \in PageType
  BY <1>1, <1>2 DEF PreviewApply, PageType, MappingType
<1>4. RowsOK' /\ MappingsOK' /\ HistoryOK'
  BY DEF PubInv, RowsOK, MappingsOK, OneToOne, Active, HistoryOK, PreviewApply
<1>5. PagesOK'
  BY <1>3 DEF PubInv, PagesOK, PreviewApply
<1>6. QED
  BY <1>4, <1>5 DEF PubInv

LEMMA ApplyKeepsInv ==
    ASSUME PubInv, UNCHANGED lock, NEW a \in Admins, Apply(a)
    PROVE  PubInv'
<1> DEFINE m == page[a].mapping
<1>1. m \in DOMAIN mappings
  BY DEF PubInv, PagesOK, Apply
<1>2. mappings[m] \in MappingType
  BY <1>1, LenProperties DEF PubInv, MappingsOK
<1>3. RowsOK'
  BY <1>2 DEF PubInv, RowsOK, MappingType, Apply
<1>4. MappingsOK' /\ HistoryOK'
  BY DEF PubInv, MappingsOK, OneToOne, Active, HistoryOK, Apply
<1>5. page' \in [Admins -> PageType] /\ \A b \in Admins : page'[b] \in {page[b], Closed}
  BY DEF PubInv, PagesOK, PageType, Apply
<1>6. PagesOK'
  BY <1>5 DEF PubInv, PagesOK, Closed, Apply
<1>7. QED
  BY <1>3, <1>4, <1>6 DEF PubInv

-----------------------------------------------------------------------------
LEMMA PubStep == ASSUME PubInv, [Next]_vars PROVE PubInv'
<1>1. CASE UNCHANGED vars
  BY <1>1, RestKept DEF vars, catalog, PubInv, RowsOK
<1>2. CASE lock = "free" /\ Request /\ UNCHANGED lock
  BY <1>2, EditKeepsInv, EndMappingKeepsInv, MappingKeepsInv, PublicationKeepsInv,
     RepublishKeepsInv, PreviewPublicationKeepsInv, PreviewApplyKeepsInv, ApplyKeepsInv
  DEF Request
<1>3. CASE StartDiscovery \/ RequestBlocks \/ BusyTimeout \/ ItemsFound \/ DiscoveryFails
  BY <1>3, DiscoveryKeepsInv
<1>4. QED
  BY <1>1, <1>2, <1>3 DEF Next

\* The tables keep their types, and mappings stay one-to-one, through any number
\* of edits, mappings, publications and applies (provider_mapping.py:215-326).
THEOREM TypesCorrect == Spec => []CatalogTypeOK
BY InvGivesTypes, PubInitially, PubStep, PTL DEF Spec

-----------------------------------------------------------------------------
\* A page that shows something closes only when it is confirmed.
LEMMA ClosedByConfirming ==
    ASSUME PubInv, [Next]_vars, NEW a \in Admins, page[a].kind # "closed", page'[a] = Closed
    PROVE  \/ page[a].kind = "publish" /\ Publish(a)
           \/ page[a].kind = "apply" /\ Apply(a)
<1>1. page'[a] # page[a] /\ page'[a].kind = "closed"
  BY DEF Closed
<1>2. page \in [Admins -> PageType]
  BY DEF PubInv, PagesOK
<1>3. \/ \E b \in Admins, s \in Services : PreviewPublication(b, s)
      \/ \E b \in Admins : Publish(b)
      \/ \E b \in Admins, m \in DOMAIN mappings : PreviewApply(b, m)
      \/ \E b \in Admins : Apply(b)
  BY <1>1 DEF Next, Request, UpdateService, MoveService, RenameSection, ChangePrice,
     ChangeExecutionSource, CreateOrChangeMapping, EndMapping, PublishUnseen, Republish,
     Unpublish, StartDiscovery, RequestBlocks, BusyTimeout, ItemsFound, DiscoveryFails,
     vars, catalog
<1>4. ~ \E b \in Admins, s \in Services : PreviewPublication(b, s)
  BY <1>1, <1>2 DEF PreviewPublication
<1>5. ~ \E b \in Admins, m \in DOMAIN mappings : PreviewApply(b, m)
  BY <1>1, <1>2 DEF PreviewApply
<1>6. CASE \E b \in Admins : Publish(b)
  BY <1>1, <1>2, <1>6 DEF Publish
<1>7. CASE \E b \in Admins : Apply(b)
  BY <1>1, <1>2, <1>7 DEF Apply
<1>8. QED
  BY <1>3, <1>4, <1>5, <1>6, <1>7

\* Publishing from a page leaves in the history and in the storefront what the
\* page showed, whatever else was edited while it was open (publication.py:338-435).
THEOREM PublishesWhatWasShown == Spec => PublishedAsPreviewed
<1>1. ASSUME PubInv, [Next]_vars, NEW a \in Admins, NEW s \in Services,
             Confirmed(a, "publish"), page[a].service = s
      PROVE  /\ event'[s] = "publish"
             /\ published'[s] = page[a].shown
             /\ Storefront(s)' = page[a].shown
  <2>1. Publish(a)
    BY <1>1, ClosedByConfirming DEF Confirmed
  <2>2. /\ CanPublish(s) /\ page[a].shown = Content(s) /\ Published({s})
        /\ UNCHANGED <<service, title>>
    BY <1>1, <2>1 DEF Publish, Fingerprint
  <2>3. event'[s] = "publish" /\ published'[s] = Content(s)
    BY <2>2 DEF Published, AlreadyPublished, Fingerprint
  <2>4. Storefront(s)' = Content(s)
    BY <2>2, <2>3 DEF Storefront, CanPublish, Ready, Content
  <2>5. QED
    BY <2>2, <2>3, <2>4
<1>2. ASSUME PubInv, [Next]_vars
      PROVE  [\A a \in Admins, s \in Services :
                 Confirmed(a, "publish") /\ page[a].service = s =>
                    /\ event'[s] = "publish"
                    /\ published'[s] = page[a].shown
                    /\ Storefront(s)' = page[a].shown]_vars
  BY <1>1, <1>2
<1>3. QED
  BY <1>2, PubInitially, PubStep, PTL DEF Spec, PublishedAsPreviewed

\* Applying a mapping from a page replaces the source the page showed by the item
\* it showed, for the service it showed (provider_apply.py:192-269).
THEOREM AppliesWhatWasShown == Spec => SourceAsConfirmed
<1>1. ASSUME PubInv, [Next]_vars, NEW a \in Admins, Confirmed(a, "apply")
      PROVE  LET s == page[a].service IN
             /\ service[s].source = page[a].current
             /\ service' = [service EXCEPT ![s].source = page[a].proposed]
             /\ \E m \in Active : mappings[m].service = s /\ mappings[m].item = page[a].proposed
  <2>1. page[a].kind = "apply" /\ Apply(a)
    BY <1>1, ClosedByConfirming DEF Confirmed
  <2>2. /\ mappings[page[a].mapping].service = page[a].service
        /\ mappings[page[a].mapping].item = page[a].proposed
    BY <1>1, <2>1 DEF PubInv, PagesOK
  <2>3. page[a].mapping \in Active
    BY <2>1 DEF Apply, CanApply
  <2>4. QED
    BY <2>1, <2>2, <2>3 DEF Apply, AsExpected
<1>2. ASSUME PubInv, [Next]_vars
      PROVE  [\A a \in Admins : Confirmed(a, "apply") =>
                 LET s == page[a].service IN
                 /\ service[s].source = page[a].current
                 /\ service' = [service EXCEPT ![s].source = page[a].proposed]
                 /\ \E m \in Active : mappings[m].service = s
                                      /\ mappings[m].item = page[a].proposed]_vars
  BY <1>1, <1>2
<1>3. QED
  BY <1>2, PubInitially, PubStep, PTL DEF Spec, SourceAsConfirmed
=============================================================================
