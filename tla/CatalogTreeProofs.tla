------------------------- MODULE CatalogTreeProofs -------------------------
(***************************************************************************)
(* The tree of sections and services never loses an entry, for any sets of *)
(* ids: Forest is an invariant of CatalogTree's specification.             *)
(*                                                                         *)
(* Forest is inductive.  The only step that can close a loop is a move of *)
(* a section, and NoLoop after it follows from NoLoop before it, applied   *)
(* not to the group S that would hang from itself but to what is left of S *)
(* once everything under the moved section is taken away: the new parent   *)
(* is still in it, and every parent in it is an old one.                   *)
(***************************************************************************)
EXTENDS CatalogTree, TLAPS

\* A parent that may take entries is the top, or a section that exists and is
\* not archived (_assert_parent_can_host_children).
LEMMA HostIsLive ==
    ASSUME NEW p, CanHost(p)
    PROVE  p = Root \/ p \in (entries \cap Nodes) \ archived
BY DEF CanHost

\* A section is among its own descendants, and with a child's parent the child is
\* (descendant_entry_ids).
LEMMA DescendantsClosed ==
    ASSUME NEW e \in entries
    PROVE  /\ e \in Descendants(e)
           /\ \A x \in entries : parent[x] \in Descendants(e) => x \in Descendants(e)
<1>1. e \in Descendants(e)
  BY DEF Descendants
<1>2. ASSUME NEW x \in entries, parent[x] \in Descendants(e)
      PROVE  x \in Descendants(e)
  <2>1. ASSUME NEW S \in SUBSET entries, e \in S, ClosedUnder(S)
        PROVE  x \in S
    <3>1. parent[x] \in S
      BY <1>2, <2>1 DEF Descendants
    <3>2. QED
      BY <3>1, <2>1 DEF ClosedUnder
  <2>2. QED
    BY <2>1 DEF Descendants
<1>3. QED
  BY <1>1, <1>2

\* A new entry hangs under an old one or at the top, so it closes no loop
\* (create_node, create_service).
LEMMA InsertKeepsNoLoop ==
    ASSUME Forest, NEW e \in Ids, NEW p, Insert(e, p)
    PROVE  NoLoop'
<1> SUFFICES ASSUME NEW S \in SUBSET (entries'), S # {}
             PROVE  \E x \in S : parent'[x] \notin S
  BY DEF NoLoop
<1>1. parent' = [parent EXCEPT ![e] = p] /\ entries' = entries \cup {e} /\ e \notin entries
  BY DEF Insert
<1>2. parent \in [Ids -> Nodes \cup {Root}] /\ entries \subseteq Ids
  BY DEF Forest, TreeTypeOK
<1>3. \A x \in entries : parent'[x] = parent[x]
  BY <1>1, <1>2
<1>4. Root \notin Ids
  BY TreeAssumption DEF Ids, Root
<1>5. p \notin {e}
  BY HostIsLive, <1>1, <1>4 DEF Insert
<1>6. CASE S \cap entries = {}
  <2>1. S = {e}
    BY <1>1, <1>6
  <2>2. parent'[e] = p
    BY <1>1, <1>2
  <2>3. QED
    BY <2>1, <2>2, <1>5
<1>7. CASE S \cap entries # {}
  <2>1. PICK x \in S \cap entries : parent[x] \notin S \cap entries
    BY <1>7 DEF Forest, NoLoop
  <2>2. parent[x] # e
    BY <2>1, <1>1, <1>4 DEF Forest, HostsAreLive
  <2>3. parent[x] \notin S
    BY <2>1, <2>2, <1>1
  <2>4. QED
    BY <2>1, <2>3, <1>3
<1>8. QED
  BY <1>6, <1>7

\* A move never closes a loop (_move_entry, its check of the descendants).
LEMMA MoveKeepsNoLoop ==
    ASSUME Forest, NEW e \in Ids, NEW p \in entries \cup {Root}, Move(e, p)
    PROVE  NoLoop'
<1> SUFFICES ASSUME NEW S \in SUBSET (entries'), S # {},
                    \A x \in S : parent'[x] \in S
             PROVE  FALSE
  BY DEF NoLoop
<1>1. /\ e \in entries /\ p # e /\ CanHost(p) /\ (e \in Nodes => p \notin Descendants(e))
      /\ parent' = [parent EXCEPT ![e] = p] /\ entries' = entries
  BY DEF Move
<1>2. parent \in [Ids -> Nodes \cup {Root}] /\ entries \subseteq Ids
  BY DEF Forest, TreeTypeOK
<1>3. parent'[e] = p /\ \A x \in entries \ {e} : parent'[x] = parent[x]
  BY <1>1, <1>2
<1>4. CASE e \notin S
  <2>1. \A x \in S : parent[x] \in S
    BY <1>1, <1>3, <1>4
  <2>2. QED
    BY <2>1, <1>1 DEF Forest, NoLoop
<1>5. CASE e \in S /\ e \in Nodes
  <2> DEFINE T == S \ Descendants(e)
  <2>1. p \in T
    BY <1>1, <1>3, <1>5
  <2>2. ASSUME NEW x \in T PROVE parent[x] \in T
    <3>1. x # e /\ x \in entries
      BY <1>1, DescendantsClosed
    <3>2. parent[x] \in S
      BY <3>1, <1>3
    <3>3. parent[x] \notin Descendants(e)
      BY <3>1, <1>1, DescendantsClosed
    <3>4. QED
      BY <3>2, <3>3
  <2>3. T \in SUBSET entries /\ T # {}
    BY <2>1, <1>1
  <2>4. QED
    BY <2>2, <2>3 DEF Forest, NoLoop
<1>6. CASE e \in S /\ e \notin Nodes
  \* A service takes no entries: without it the rest of S hangs from itself.
  <2>1. \A x \in entries : parent[x] # e
    BY <1>2, <1>6, TreeAssumption DEF Ids, Root
  <2>2. p \in S \ {e}
    BY <1>1, <1>3, <1>6
  <2>3. \A x \in S \ {e} : parent[x] \in S \ {e}
    BY <1>1, <1>3, <2>1
  <2>4. S \ {e} \in SUBSET entries /\ S \ {e} # {}
    BY <2>2, <1>1
  <2>5. QED
    BY <2>3, <2>4 DEF Forest, NoLoop
<1>7. QED
  BY <1>4, <1>5, <1>6

LEMMA TreeInitially == ASSUME Init PROVE Forest
BY DEF Init, Forest, TreeTypeOK, HostsAreLive, NoLoop

\* Every request keeps the tree whole.
LEMMA TreeStep == ASSUME Forest, [Next]_vars PROVE Forest'
<1>1. ASSUME NEW e \in Ids, NEW p \in entries \cup {Root}, Insert(e, p),
             archived' \in {archived, archived \cup {e}}, e \in Nodes => archived' = archived
      PROVE  Forest'
  <2>1. p \in Nodes \cup {Root}
    BY <1>1, HostIsLive DEF Insert
  <2>2. TreeTypeOK'
    BY <1>1, <2>1 DEF Forest, TreeTypeOK, Insert
  <2>3. HostsAreLive'
    <3> SUFFICES ASSUME NEW x \in entries'
                 PROVE  parent'[x] = Root \/ parent'[x] \in (entries' \cap Nodes) \ archived'
      BY DEF HostsAreLive
    <3>1. parent'[x] = Root \/ parent'[x] \in (entries \cap Nodes) \ archived
      BY <1>1, HostIsLive DEF Insert, Forest, TreeTypeOK, HostsAreLive
    <3>2. e \notin entries
      BY <1>1 DEF Insert
    <3>3. QED
      BY <1>1, <3>1, <3>2 DEF Insert
  <2>4. NoLoop'
    BY <1>1, InsertKeepsNoLoop
  <2>5. QED
    BY <2>2, <2>3, <2>4 DEF Forest
<1>2. ASSUME NEW n \in Nodes, ArchiveNode(n) PROVE Forest'
  <2>1. /\ \A x \in entries : parent[x] # n
        /\ n \in entries /\ archived' = archived \cup {n}
        /\ entries' = entries /\ parent' = parent
    BY <1>2 DEF ArchiveNode, Children
  <2>2. QED
    BY <2>1 DEF Forest, TreeTypeOK, HostsAreLive, NoLoop
<1>3. ASSUME NEW s \in Services, SetServiceStatus(s) PROVE Forest'
  <2>1. s \notin Nodes
    BY TreeAssumption
  <2>2. /\ s \in entries /\ archived' \in {archived \cup {s}, archived \ {s}}
        /\ entries' = entries /\ parent' = parent
    BY <1>3 DEF SetServiceStatus
  <2>3. QED
    BY <2>1, <2>2 DEF Forest, TreeTypeOK, HostsAreLive, NoLoop
<1>4. ASSUME NEW e \in Ids, NEW p \in entries \cup {Root}, Move(e, p) PROVE Forest'
  <2>1. /\ e \in entries /\ CanHost(p) /\ parent' = [parent EXCEPT ![e] = p]
        /\ entries' = entries /\ archived' = archived
    BY <1>4 DEF Move
  <2>2. p = Root \/ p \in (entries \cap Nodes) \ archived
    BY <2>1, HostIsLive
  <2>3. TreeTypeOK'
    BY <2>1, <2>2 DEF Forest, TreeTypeOK
  <2>4. HostsAreLive'
    BY <2>1, <2>2 DEF Forest, TreeTypeOK, HostsAreLive
  <2>5. NoLoop'
    BY <1>4, MoveKeepsNoLoop
  <2>6. QED
    BY <2>3, <2>4, <2>5 DEF Forest
<1>5. ASSUME NEW e \in Ids, Reorder(e) PROVE Forest'
  BY <1>5 DEF Reorder, Forest, TreeTypeOK, HostsAreLive, NoLoop
<1>6. CASE UNCHANGED vars
  BY <1>6 DEF vars, Forest, TreeTypeOK, HostsAreLive, NoLoop
<1>7. ASSUME NEW n \in Nodes, NEW p \in entries \cup {Root}, CreateNode(n, p) PROVE Forest'
  BY <1>1, <1>7 DEF CreateNode, Ids
<1>8. ASSUME NEW s \in Services, NEW p \in entries \cup {Root}, CreateService(s, p) PROVE Forest'
  BY <1>1, <1>8, TreeAssumption DEF CreateService, Ids
<1>9. QED
  BY <1>2, <1>3, <1>4, <1>5, <1>6, <1>7, <1>8 DEF Next

\* No request, nor any sequence of requests, hides an entry from the tree: every
\* entry hangs under live sections up to the top (service.py:1016-1079).
THEOREM TreeIsForest == Spec => []Forest
BY TreeInitially, TreeStep, PTL DEF Spec

\* The walk up from a live section meets live sections only, and each section it
\* meets hangs at the top or from one it meets too (ancestor_entry_ids).
LEMMA AncestorsAreLive ==
    ASSUME Forest, NEW e \in (entries \cap Nodes) \ archived
    PROVE  /\ e \in Ancestors(e)
           /\ Ancestors(e) \subseteq (entries \cap Nodes) \ archived
           /\ \A x \in Ancestors(e) : parent[x] \in Ancestors(e) \cup {Root}
<1> DEFINE Live == (entries \cap Nodes) \ archived
<1>1. e \in Ancestors(e)
  BY DEF Ancestors
<1>2. Ancestors(e) \subseteq Live
  <2>1. Live \in SUBSET entries /\ e \in Live
    OBVIOUS
  <2>2. \A x \in Live : parent[x] \in Live \cup {Root}
    BY DEF Forest, HostsAreLive
  <2>3. QED
    BY <2>1, <2>2 DEF Ancestors
<1>3. ASSUME NEW x \in Ancestors(e), parent[x] # Root
      PROVE  parent[x] \in Ancestors(e)
  <2>1. x \in entries /\ parent[x] \in entries
    BY <1>2, <1>3 DEF Forest, HostsAreLive
  <2>2. ASSUME NEW S \in SUBSET entries, e \in S, \A y \in S : parent[y] \in S \cup {Root}
        PROVE  parent[x] \in S
    <3>1. x \in S
      BY <2>2, <1>3 DEF Ancestors
    <3>2. QED
      BY <3>1, <2>2, <1>3
  <2>3. QED
    BY <2>1, <2>2 DEF Ancestors
<1>4. QED
  BY <1>1, <1>2, <1>3

\* In a forest the walk down reaches every section the walk up has kept: of the
\* ancestors it does not reach, one would hang from a section it reaches.
LEMMA ForestShowsAll == ASSUME Forest PROVE MenuIsComplete
<1> SUFFICES ASSUME NEW onSale \in SUBSET ((entries \cap Services) \ archived),
                    NEW s \in onSale, parent[s] # Root
             PROVE  parent[s] \in MenuSections(onSale)
  BY DEF MenuIsComplete, MenuItems
<1> DEFINE home == parent[s]
           above == Ancestors(home)
<1>1. home \in (entries \cap Nodes) \ archived
  BY DEF Forest, HostsAreLive
<1>2. /\ home \in above
      /\ above \subseteq (entries \cap Nodes) \ archived
      /\ \A x \in above : parent[x] \in above \cup {Root}
  BY <1>1, AncestorsAreLive
<1>3. above \subseteq Kept(onSale) \ archived
  BY <1>2 DEF Kept
<1>4. ASSUME NEW S \in SUBSET entries,
             \A x \in Kept(onSale) \ archived : parent[x] \in S \cup {Root} => x \in S,
             home \notin S
      PROVE  FALSE
  <2>1. above \ S \in SUBSET entries /\ above \ S # {}
    BY <1>2, <1>4
  <2>2. PICK x \in above \ S : parent[x] \notin above \ S
    BY <2>1 DEF Forest, NoLoop
  <2>3. parent[x] \in S \cup {Root}
    BY <2>2, <1>2
  <2>4. QED
    BY <2>2, <2>3, <1>3, <1>4
<1>5. QED
  BY <1>2, <1>3, <1>4 DEF MenuSections

\* Customers find every service on sale in the menu, whatever the tree has been
\* through (storefront_gateway.py:354-476).
THEOREM MenuShowsEveryService == Spec => []MenuIsComplete
BY TreeIsForest, ForestShowsAll, PTL
=============================================================================
