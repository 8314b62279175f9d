---------------------------- MODULE LegacyBridge ----------------------------
(***************************************************************************)
(* The legacy table smm_services, which the bot sells from, and the        *)
(* catalog's services that were imported from it.                          *)
(*                                                                         *)
(* The import (legacy_migration, legacy_migration_import) plans on one     *)
(* connection and writes, later, in one transaction; it leaves a bridge    *)
(* from each row to its service.  From then on the catalog writes through: *)
(* a change of a bridged service changes its row in the same transaction   *)
(* (legacy_write_through).  The other way there is nothing: the old page   *)
(* and the synchronization with the providers (smm_services) change the    *)
(* row alone.                                                              *)
(*                                                                         *)
(* A bridged service goes by the id of its row: the bridge is one-to-one,  *)
(* the service's id being computed from the row's.  A price is what it     *)
(* rounds to in thousandths, the catalog's precision.  Names and           *)
(* fulfillment modes are treated like limits and left out; so are          *)
(* services without a bridge, which write nothing through, and the         *)
(* sections, which are in CatalogTree.  The providers and the accounts in  *)
(* use stay.  Orders, publications, a price of zero and the approved       *)
(* counts and fingerprint can only make the import fail.                   *)
(***************************************************************************)
EXTENDS Naturals, FiniteSets

CONSTANTS
    Rows,           \* catalog_ids with a place in the shop (platform_key)
    Skus,           \* what providers offer: (provider_slug, external_service_id)
    Stubs,          \* [Skus -> catalog_id of the row a synchronization makes for it]
    Accounts,       \* the providers' accounts
    Prices, Limits,
    None,           \* no row, service, plan, price that can be imported, known account
    MaxWrites       \* bound: changes of rows and services

Ids == Rows \cup {Stubs[k] : k \in Skus}

RowType == [active : BOOLEAN, price : Prices, sku : Skus,
            account : Accounts \cup {None}, limits : Limits]

ServiceType == [status : {"draft", "active", "archived"}, price : Prices \ {None},
                source : {None} \cup [sku : Skus, account : Accounts], limits : Limits]

ASSUME BridgeAssumption ==
    /\ \A k \in Skus : Stubs[k] \notin Rows
    /\ \A k, l \in Skus : Stubs[k] = Stubs[l] => k = l
    /\ None \notin RowType \cup ServiceType \cup Accounts
    /\ MaxWrites \in Nat

VARIABLES
    row,            \* smm_services, by catalog_id
    svc,            \* the services with a bridge, by the row's catalog_id
    plan,           \* the migration under way: the rows it has read
    writes          \* of the bound only

vars == <<row, svc, plan, writes>>

Init ==
    /\ row \in [Ids -> {None} \cup RowType]
    /\ \A i \in Ids : (row[i] = None) = (i \notin Rows)
    /\ svc = [i \in Ids |-> None]
    /\ plan = None
    /\ writes = 0

Write == writes < MaxWrites /\ writes' = writes + 1

Existing == {i \in Ids : row[i] # None}
Bridged == {i \in Ids : svc[i] # None}

-----------------------------------------------------------------------------
(* The import. *)

\* Mutant: rows that were never placed in the shop are taken too.
ImportableUnplaced(i) == row[i] # None /\ row[i].active /\ row[i].price # None

\* Active, placed, and with a price that is not blocked.
Importable(i) == i \in Rows /\ row[i].active /\ row[i].price # None

\* An unknown account leaves the service without a source.
SourceOf(r) == IF r.account = None THEN None ELSE [sku |-> r.sku, account |-> r.account]

\* run_preflight: on a catalog without bridges, or with all of them.
Preflight ==
    LET candidates == {i \in Ids : Importable(i)} IN
    /\ plan = None
    /\ candidates # {}
    /\ Cardinality(Bridged) \in {0, Cardinality(candidates)}
    /\ plan' = [read |-> [i \in candidates |-> row[i]], existing |-> Existing]
    /\ UNCHANGED <<row, svc, writes>>

Imported(r) == [status |-> "active", price |-> r.price, source |-> SourceOf(r),
                limits |-> r.limits]

\* _verify_existing_service
Verified(i, r) == svc[i].price = r.price /\ svc[i].source = SourceOf(r)

\* execute_legacy_migration: what was planned, not what the rows are now; of the
\* rows themselves the reconciliation only looks at which there are.
Import ==
    LET planned == DOMAIN plan.read IN
    /\ plan # None
    /\ \A i \in planned \cap Bridged : Verified(i, plan.read[i])
    /\ Existing = plan.existing
    /\ Bridged \subseteq planned
    /\ svc' = [i \in Ids |-> IF i \in planned \ Bridged THEN Imported(plan.read[i]) ELSE svc[i]]
    /\ plan' = None
    /\ UNCHANGED <<row, writes>>

\* A conflict, an error or a failed reconciliation: everything is rolled back.
ImportFails == plan # None /\ plan' = None /\ UNCHANGED <<row, svc, writes>>

-----------------------------------------------------------------------------
(* The catalog's changes of a bridged service, with their write-through.   *)

\* Mutant: a draft is on sale in the legacy shop.
StatusNotArchived(status) == status # "archived"

StatusToIsActive(status) == status = "active"

Given(new, old) == IF new = None THEN old ELSE new

\* update_service: the fields given are written, changed or not.
UpdateService(i) ==
    /\ Write
    /\ i \in Bridged
    /\ \E status \in {"draft", "active", "archived", None}, l \in Limits \cup {None} :
          /\ <<status, l>> # <<None, None>>
          /\ svc' = [svc EXCEPT ![i].status = Given(status, @), ![i].limits = Given(l, @)]
          /\ row' = [row EXCEPT
                ![i].active = IF status = None THEN @ ELSE StatusToIsActive(status),
                ![i].limits = Given(l, @)]
    /\ UNCHANGED plan

\* change_price: the current price is not written again, so that saving it does
\* not repair a row that differs.
ChangePrice(i) ==
    /\ Write
    /\ i \in Bridged
    /\ \E p \in Prices \ {None, svc[i].price} :
          /\ svc' = [svc EXCEPT ![i].price = p]
          /\ row' = [row EXCEPT ![i].price = p]
    /\ UNCHANGED plan

\* change_execution_source: likewise.
ChangeExecutionSource(i) ==
    /\ Write
    /\ i \in Bridged
    /\ \E k \in Skus, a \in Accounts :
          /\ svc[i].source # [sku |-> k, account |-> a]
          /\ svc' = [svc EXCEPT ![i].source = [sku |-> k, account |-> a]]
          /\ row' = [row EXCEPT ![i].sku = k, ![i].account = a]
    /\ UNCHANGED plan

-----------------------------------------------------------------------------
(* Changes of the rows alone. *)

\* PATCH /services: the bridge is not looked at.
PatchService(i) ==
    /\ Write
    /\ i \in Existing
    /\ \E b \in BOOLEAN, p \in Prices :
          row' = [row EXCEPT ![i].active = b, ![i].price = p]
    /\ UNCHANGED <<svc, plan>>

\* The offers without a row that make the row i.
Stubbed(i, offered) ==
    {k \in offered : Stubs[k] = i /\ \A j \in Existing : row[j].sku # k}

\* What the offers leave of the row i.
Synced(i, offered, account, limits, price) ==
    IF i \in Existing
    THEN IF row[i].sku \in offered
         THEN [row[i] EXCEPT !.account = account[row[i].sku], !.limits = limits[row[i].sku]]
         ELSE row[i]
    ELSE IF Stubbed(i, offered) = {} THEN None
         ELSE LET k == CHOOSE k \in Stubbed(i, offered) : TRUE IN
              [active |-> FALSE, price |-> price[k], sku |-> k,
               account |-> account[k], limits |-> limits[k]]

\* sync_from_provider: every row with the SKU takes the limits and the account
\* of the offer, which is that of the last account to offer it; an offer that no
\* row has becomes an inactive one.
SyncFromProvider ==
    /\ Write
    /\ \E offered \in (SUBSET Skus) \ {{}} :
       \E account \in [offered -> Accounts], limits \in [offered -> Limits],
          price \in [offered -> Prices] :
          row' = [i \in Ids |-> Synced(i, offered, account, limits, price)]
    /\ UNCHANGED <<svc, plan>>

-----------------------------------------------------------------------------
Next ==
    \/ Preflight
    \/ Import
    \/ ImportFails
    \/ \E i \in Ids : UpdateService(i)
    \/ \E i \in Ids : ChangePrice(i)
    \/ \E i \in Ids : ChangeExecutionSource(i)
    \/ \E i \in Ids : PatchService(i)
    \/ SyncFromProvider

Spec == Init /\ [][Next]_vars

-----------------------------------------------------------------------------
\* The tables are well formed: a bridge leads from a row that was placed in the
\* shop to a service with a price; the rows a synchronization makes stay what
\* they are, so that its ids are free whenever it needs them.
BridgeTypeOK ==
    /\ row \in [Ids -> {None} \cup RowType]
    /\ svc \in [Ids -> {None} \cup ServiceType]
    /\ Bridged \subseteq Rows
    /\ Rows \subseteq Existing
    /\ \A k \in Skus : row[Stubs[k]] # None => row[Stubs[k]].sku = k
    /\ writes \in 0 .. MaxWrites

Fields == {"status", "price", "source", "limits"}

\* The row r and the service v agree in f.
Agree(f, r, v) ==
    \/ f = "status" /\ (r.active <=> v.status = "active")
    \/ f = "price"  /\ r.price = v.price
    \/ f = "source" /\ v.source \in {None, SourceOf(r)}
    \/ f = "limits" /\ r.limits = v.limits

\* What the catalog says of a bridged service the legacy shop sells: a field the
\* catalog changes agrees from then on, even when it had drifted, and no change
\* of the catalog makes another field drift; an imported service agrees with its
\* row unless the row was changed after the plan was read.  Only the old page
\* and the synchronization make a row differ (legacy_write_through.py:157-261).
DriftComesFromLegacy ==
    [][\A i \in Ids, f \in Fields :
          svc'[i] # None /\ svc'[i] # svc[i] =>
             \/ Agree(f, row'[i], svc'[i])
             \/ svc[i] # None /\ svc'[i][f] = svc[i][f] /\ ~Agree(f, row[i], svc[i])
             \/ svc[i] = None /\ row[i] # plan.read[i]]_vars
=============================================================================
