---------------------------- MODULE CatalogTree ----------------------------
(***************************************************************************)
(* The catalog's tree of sections and services (catalog_core/service.py    *)
(* over catalog_core/repository.py, table soldium_catalog_entries).        *)
(*                                                                         *)
(* Every request of the administrators is one BEGIN IMMEDIATE transaction  *)
(* (db.catalog_transaction), so it is one step here; what matters is the   *)
(* long sequences of requests of several administrators, each made from a  *)
(* page that may be old: any request on any entry may come at any time.    *)
(*                                                                         *)
(* An entry stands for its row and for the node or service it points to.   *)
(* Entries are numbers because the SQL breaks ties of sort_order by the    *)
(* (random) id.  Names are left out; of a service's status the tree only   *)
(* reads whether it is archived.                                           *)
(***************************************************************************)
EXTENDS Naturals, FiniteSets, SequencesExt

CONSTANTS Nodes, Services,     \* the ids sections and services may get
          MaxEntries           \* bound on the entries, which are never deleted

Root == 0                      \* parent_entry_id IS NULL

ASSUME TreeAssumption ==
    /\ Nodes \subseteq Nat \ {Root}
    /\ Services \subseteq Nat \ {Root}
    /\ Nodes \cap Services = {}
    /\ MaxEntries \in Nat

Ids == Nodes \cup Services

VARIABLES
    entries,        \* the rows of soldium_catalog_entries
    parent,         \* parent_entry_id
    sortOrder,      \* sort_order
    archived        \* the entries whose node or service is archived

vars == <<entries, parent, sortOrder, archived>>

Init ==
    /\ entries = {}
    /\ parent = [e \in Ids |-> Root]
    /\ sortOrder = [e \in Ids |-> 0]
    /\ archived = {}

-----------------------------------------------------------------------------
Children(p) == {e \in entries : parent[e] = p}

\* ORDER BY sort_order ASC, id ASC
Precedes(a, b) == \/ sortOrder[a] < sortOrder[b]
                  \/ sortOrder[a] = sortOrder[b] /\ a < b

\* Mutant: the rows come back in the order of their ids.
ListedById(es) == SetToSortSeq(es, <)

Listed(es) == SetToSortSeq(es, Precedes)

NextSortOrder(p) ==
    IF Children(p) = {} THEN 0 ELSE Max({sortOrder[e] : e \in Children(p)}) + 1

\* Everything under e, e included: the smallest set that holds e and, with an
\* entry, its children.
ClosedUnder(S) == \A x \in entries : parent[x] \in S => x \in S

\* Mutant: only the direct children are looked at.
DescendantsOneLevel(e) == {e} \cup Children(e)

Descendants(e) ==
    {x \in entries : \A S \in SUBSET entries : (e \in S /\ ClosedUnder(S)) => x \in S}

CanHost(p) == p = Root \/ p \in (entries \cap Nodes) \ archived

\* The positions 0, 1, 2, ... given to the ids of a list.
Renumbered(ids) ==
    [e \in Ids |-> IF Contains(ids, e) THEN IndexFirstSubSeq(<<e>>, ids) - 1
                                       ELSE sortOrder[e]]

\* e put before or after x, or last, in a list that does not hold it.
Inserted(ids, e, side, x) ==
    IF side = "last" THEN Append(ids, e)
    ELSE InsertAt(ids, IndexFirstSubSeq(<<x>>, ids) + (IF side = "after" THEN 1 ELSE 0), e)

Places(es) == {<<"last", Root>>} \cup ({"before", "after"} \X es)

-----------------------------------------------------------------------------
\* The customers' menu (CatalogStorefrontBackend.navigation_tree) of a set of
\* services on sale: the sections on the way up from a service are kept, then the
\* menu is built from the top through the kept sections that are not archived.

\* Mutant: only the section itself and the one above it.
AncestorsOneLevel(e) == {e, parent[e]} \cap entries

Ancestors(e) ==
    {a \in entries : \A S \in SUBSET entries :
        (e \in S /\ \A x \in S : parent[x] \in S \cup {Root}) => a \in S}

Kept(onSale) == UNION {Ancestors(parent[s]) : s \in {s \in onSale : parent[s] # Root}}

\* The smallest set that holds the kept live sections at the top and, with a
\* section, the kept live sections in it.
MenuSections(onSale) ==
    LET live == Kept(onSale) \ archived IN
    {n \in live : \A S \in SUBSET entries :
        (\A x \in live : parent[x] \in S \cup {Root} => x \in S) => n \in S}

MenuItems(onSale) == {s \in onSale : parent[s] \in MenuSections(onSale) \cup {Root}}

-----------------------------------------------------------------------------
Insert(e, p) ==
    /\ e \notin entries /\ Cardinality(entries) < MaxEntries
    /\ CanHost(p)
    /\ entries' = entries \cup {e}
    /\ parent' = [parent EXCEPT ![e] = p]
    /\ sortOrder' = [sortOrder EXCEPT ![e] = NextSortOrder(p)]

CreateNode(n, p) == Insert(n, p) /\ UNCHANGED archived

\* A service may be created archived.
CreateService(s, p) == Insert(s, p) /\ archived' \in {archived, archived \cup {s}}

ArchiveNode(n) ==
    /\ n \in entries
    /\ Children(n) = {}
    /\ archived' = archived \cup {n}
    /\ UNCHANGED <<entries, parent, sortOrder>>

\* update_service, archive_service, delete_service, restore_service: where the
\* service hangs is not looked at.
SetServiceStatus(s) ==
    /\ s \in entries
    /\ archived' \in {archived \cup {s}, archived \ {s}}
    /\ UNCHANGED <<entries, parent, sortOrder>>

\* move_node and move_service: among all the new siblings, archived ones too,
\* which are all renumbered; the old siblings keep their numbers.
Move(e, p) ==
    LET siblings == Children(p) \ {e} IN
    /\ e \in entries
    /\ p # e
    /\ CanHost(p)
    /\ e \in Nodes => p \notin Descendants(e)
    /\ \E place \in Places(siblings) :
          sortOrder' = Renumbered(Inserted(Listed(siblings), e, place[1], place[2]))
    /\ parent' = [parent EXCEPT ![e] = p]
    /\ UNCHANGED <<entries, archived>>

\* reorder_entry: among the siblings that are not archived, and only those are
\* renumbered, so that an archived sibling may end up with the number of another.
Reorder(e) ==
    LET live == Children(parent[e]) \ archived
        ids == Listed(live)
        at == IndexFirstSubSeq(<<e>>, ids)
    IN
    /\ e \in entries \ archived
    /\ \/ at > 1 /\ sortOrder' = Renumbered(Inserted(Remove(ids, e), e, "before", ids[at - 1]))
       \/ at < Len(ids) /\ sortOrder' = Renumbered(Inserted(Remove(ids, e), e, "after", ids[at + 1]))
       \/ \E place \in Places(live \ {e}) \ {<<"last", Root>>} :
             sortOrder' = Renumbered(Inserted(Remove(ids, e), e, place[1], place[2]))
    /\ UNCHANGED <<entries, parent, archived>>

Next ==
    \/ \E n \in Nodes, p \in entries \cup {Root} : CreateNode(n, p)
    \/ \E s \in Services, p \in entries \cup {Root} : CreateService(s, p)
    \/ \E n \in Nodes : ArchiveNode(n)
    \/ \E s \in Services : SetServiceStatus(s)
    \/ \E e \in Ids, p \in entries \cup {Root} : Move(e, p)
    \/ \E e \in Ids : Reorder(e)

Spec == Init /\ [][Next]_vars

-----------------------------------------------------------------------------
\* The rows are well formed: an entry hangs at the top or under a row, never
\* under a service (the CHECKs and foreign keys of schema.py:44-64).
TreeTypeOK ==
    /\ entries \subseteq Ids
    /\ parent \in [Ids -> Nodes \cup {Root}]
    /\ archived \subseteq entries

\* Every entry is shown: it hangs under sections that exist and are not
\* archived, and going up from it ends at the top.  The second conjunct says
\* that no group of entries hangs only from itself: get_tree attaches from the
\* top and would lose such a group for good (service.py:926-946).
HostsAreLive ==
    \A e \in entries : parent[e] = Root \/ parent[e] \in (entries \cap Nodes) \ archived
NoLoop == \A S \in SUBSET entries : S # {} => \E e \in S : parent[e] \notin S
Forest == TreeTypeOK /\ HostsAreLive /\ NoLoop

\* Whatever live services are on sale, customers find each of them in the menu,
\* however their sections were moved and archived: the walk up keeps enough
\* sections for the walk down (storefront_gateway.py:386-392, 417-467).
MenuIsComplete ==
    \A onSale \in SUBSET ((entries \cap Services) \ archived) : MenuItems(onSale) = onSale

\* A request moves at most one entry: of any two others that stay side by side,
\* the one the administrators' tree lists first stays first, whatever ties of
\* sort_order the archived siblings left behind (list_all_entries_hydrated:
\* sort_order, then entry id), and the one with the smaller number keeps the
\* smaller number.  The second conjunct is what customers have: their menu sorts
\* services by sort_order and breaks ties by name (_services_under), so that only
\* services that shared a number may change places (_move_entry, reorder_entry).
Shown(e) == e \in entries \ archived
OthersKeepTheirOrder ==
    [][\E m \in Ids : \A a, b \in Ids \ {m} :
          (/\ Shown(a) /\ Shown(b) /\ parent[a] = parent[b]
           /\ Shown(a)' /\ Shown(b)' /\ parent'[a] = parent'[b])
          => /\ Precedes(a, b) <=> Precedes(a, b)'
             /\ sortOrder[a] < sortOrder[b] => sortOrder'[a] < sortOrder'[b]]_vars
=============================================================================
