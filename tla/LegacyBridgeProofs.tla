-------------------------- MODULE LegacyBridgeProofs --------------------------
(***************************************************************************)
(* The catalog never makes a service differ from its row in the legacy     *)
(* shop, for any sets of rows, offers, accounts, prices and limits:        *)
(* BridgeTypeOK and DriftComesFromLegacy.                                  *)
(*                                                                         *)
(* BridgeInv is inductive.  To the types of the tables it adds PlanOK: a   *)
(* plan holds rows that were active, placed and priced when it was read,   *)
(* so that what is imported agrees with a row unless the row has changed.  *)
(***************************************************************************)
EXTENDS LegacyBridge, TLAPS

PlanOK ==
    plan # None =>
       /\ DOMAIN plan.read \subseteq Rows
       /\ \A i \in DOMAIN plan.read : /\ plan.read[i] \in RowType
                                      /\ plan.read[i].active
                                      /\ plan.read[i].price # None

BridgeInv == BridgeTypeOK /\ PlanOK

LEMMA IdsOfRows == Rows \subseteq Ids /\ \A k \in Skus : Stubs[k] \in Ids \ Rows
BY BridgeAssumption DEF Ids

\* A row that exists, or a service with a bridge, is one.
LEMMA Present ==
    ASSUME BridgeTypeOK, NEW i \in Ids
    PROVE  /\ row[i] # None => row[i] \in RowType
           /\ svc[i] # None => svc[i] \in ServiceType
BY DEF BridgeTypeOK

\* The source a row stands for.
LEMMA SourceTyped ==
    ASSUME NEW r \in RowType
    PROVE  SourceOf(r) \in {None} \cup [sku : Skus, account : Accounts]
BY DEF SourceOf, RowType

LEMMA BridgeInitially == ASSUME Init PROVE BridgeInv
<1>1. /\ row \in [Ids -> {None} \cup RowType] /\ svc \in [Ids -> {None} \cup ServiceType]
      /\ Bridged = {} /\ plan = None /\ writes \in 0 .. MaxWrites
  BY BridgeAssumption DEF Init, Bridged
<1>2. Rows \subseteq Existing /\ \A k \in Skus : row[Stubs[k]] = None
  BY IdsOfRows DEF Init, Existing
<1>3. QED
  BY <1>1, <1>2 DEF BridgeInv, BridgeTypeOK, PlanOK

-----------------------------------------------------------------------------
LEMMA PreflightKeepsInv == ASSUME BridgeInv, Preflight PROVE BridgeInv'
<1>1. UNCHANGED <<row, svc, writes>>
  BY DEF Preflight
<1>2. BridgeTypeOK'
  BY <1>1 DEF BridgeInv, BridgeTypeOK, Bridged, Existing
<1>3. /\ plan' = [read |-> [i \in {j \in Ids : Importable(j)} |-> row[i]], existing |-> Existing]
      /\ \A i \in Ids : Importable(i) => i \in Rows /\ row[i] # None
  BY DEF Preflight, BridgeInv, BridgeTypeOK, Importable, Existing
<1>4. PlanOK'
  BY <1>3, Present DEF PlanOK, BridgeInv, Importable
<1>5. QED
  BY <1>2, <1>4 DEF BridgeInv

\* A service that is imported is one, and agrees with the row that was read.
LEMMA ImportedService ==
    ASSUME NEW r \in RowType, r.price # None
    PROVE  Imported(r) \in ServiceType
BY SourceTyped DEF Imported, ServiceType, RowType

LEMMA ImportKeepsInv == ASSUME BridgeInv, Import PROVE BridgeInv'
<1> DEFINE planned == DOMAIN plan.read
<1>1. /\ svc' = [i \in Ids |-> IF i \in planned \ Bridged THEN Imported(plan.read[i])
                                                          ELSE svc[i]]
      /\ plan # None /\ plan' = None /\ UNCHANGED <<row, writes>>
  BY DEF Import
<1>2. planned \subseteq Rows /\ \A i \in planned : Imported(plan.read[i]) \in ServiceType
  BY <1>1, ImportedService DEF BridgeInv, PlanOK
<1>3. svc' \in [Ids -> {None} \cup ServiceType]
  BY <1>1, <1>2 DEF BridgeInv, BridgeTypeOK
<1>4. Bridged' \subseteq Rows
  BY <1>1, <1>2 DEF BridgeInv, BridgeTypeOK, Bridged
<1>5. BridgeTypeOK'
  BY <1>1, <1>3, <1>4 DEF BridgeInv, BridgeTypeOK, Existing
<1>6. QED
  BY <1>1, <1>5 DEF BridgeInv, PlanOK

-----------------------------------------------------------------------------
\* Changes of a row that exists, and of its service if there is one.
LEMMA ChangeKeepsInv ==
    ASSUME BridgeInv, Write, UNCHANGED plan,
           NEW i \in Existing, NEW r \in RowType, row' = [row EXCEPT ![i] = r],
           i \notin Rows => r.sku = row[i].sku,
           \/ svc' = svc
           \/ i \in Bridged /\ \E s \in ServiceType : svc' = [svc EXCEPT ![i] = s]
    PROVE  BridgeInv'
<1>1. row' \in [Ids -> {None} \cup RowType] /\ svc' \in [Ids -> {None} \cup ServiceType]
  BY DEF BridgeInv, BridgeTypeOK, Existing
<1>2. Bridged' = Bridged /\ Existing' = Existing
  BY BridgeAssumption DEF BridgeInv, BridgeTypeOK, Existing, Bridged
<1>3. \A k \in Skus : row'[Stubs[k]] # None => row'[Stubs[k]].sku = k
  BY IdsOfRows DEF BridgeInv, BridgeTypeOK, Existing
<1>4. writes' \in 0 .. MaxWrites
  BY BridgeAssumption DEF BridgeInv, BridgeTypeOK, Write
<1>5. QED
  BY <1>1, <1>2, <1>3, <1>4 DEF BridgeInv, BridgeTypeOK, PlanOK

\* What update_service makes of a service and of its row.
UpdatedService(v, status, l) == [v EXCEPT !.status = Given(status, @), !.limits = Given(l, @)]
UpdatedRow(r, status, l) ==
    [r EXCEPT !.active = IF status = None THEN @ ELSE StatusToIsActive(status),
              !.limits = Given(l, @)]

LEMMA UpdatedTyped ==
    ASSUME NEW v \in ServiceType, NEW r \in RowType,
           NEW status \in {"draft", "active", "archived", None}, NEW l \in Limits \cup {None}
    PROVE  UpdatedService(v, status, l) \in ServiceType /\ UpdatedRow(r, status, l) \in RowType
BY DEF UpdatedService, UpdatedRow, Given, StatusToIsActive, ServiceType, RowType

LEMMA UpdateSteps ==
    ASSUME BridgeInv, NEW i \in Ids, UpdateService(i)
    PROVE  /\ i \in Bridged /\ i \in Existing /\ svc[i] \in ServiceType /\ row[i] \in RowType
           /\ \E status \in {"draft", "active", "archived", None}, l \in Limits \cup {None} :
                 /\ svc' = [svc EXCEPT ![i] = UpdatedService(svc[i], status, l)]
                 /\ row' = [row EXCEPT ![i] = UpdatedRow(row[i], status, l)]
<1>1. i \in Bridged /\ i \in Existing /\ svc[i] \in ServiceType /\ row[i] \in RowType
  BY Present DEF UpdateService, BridgeInv, BridgeTypeOK, Bridged, Existing
<1>2. PICK status \in {"draft", "active", "archived", None}, l \in Limits \cup {None} :
          /\ svc' = [svc EXCEPT ![i].status = Given(status, @), ![i].limits = Given(l, @)]
          /\ row' = [row EXCEPT
                ![i].active = IF status = None THEN @ ELSE StatusToIsActive(status),
                ![i].limits = Given(l, @)]
  BY DEF UpdateService
<1>3. /\ svc' = [svc EXCEPT ![i] = UpdatedService(svc[i], status, l)]
      /\ row' = [row EXCEPT ![i] = UpdatedRow(row[i], status, l)]
  BY <1>1, <1>2 DEF BridgeInv, BridgeTypeOK, UpdatedService, UpdatedRow
<1>4. QED
  BY <1>1, <1>3

LEMMA UpdateKeepsInv == ASSUME BridgeInv, NEW i \in Ids, UpdateService(i) PROVE BridgeInv'
<1>1. i \in Rows /\ Write /\ UNCHANGED plan
  BY DEF UpdateService, BridgeInv, BridgeTypeOK
<1>2. /\ i \in Bridged /\ i \in Existing
      /\ \E s \in ServiceType, r \in RowType :
            svc' = [svc EXCEPT ![i] = s] /\ row' = [row EXCEPT ![i] = r]
  BY UpdateSteps, UpdatedTyped
<1>3. QED
  BY <1>1, <1>2, ChangeKeepsInv

LEMMA PriceKeepsInv == ASSUME BridgeInv, NEW i \in Ids, ChangePrice(i) PROVE BridgeInv'
<1>1. /\ i \in Rows /\ i \in Bridged /\ i \in Existing /\ Write /\ UNCHANGED plan
      /\ svc[i] \in ServiceType /\ row[i] \in RowType
  BY Present DEF ChangePrice, BridgeInv, BridgeTypeOK, Bridged, Existing
<1>2. PICK p \in Prices \ {None} : /\ svc' = [svc EXCEPT ![i] = [svc[i] EXCEPT !.price = p]]
                                   /\ row' = [row EXCEPT ![i] = [row[i] EXCEPT !.price = p]]
  BY DEF ChangePrice
<1>3. [svc[i] EXCEPT !.price = p] \in ServiceType /\ [row[i] EXCEPT !.price = p] \in RowType
  BY <1>1 DEF ServiceType, RowType
<1>4. QED
  BY <1>1, <1>2, <1>3, ChangeKeepsInv

LEMMA SourceKeepsInv ==
    ASSUME BridgeInv, NEW i \in Ids, ChangeExecutionSource(i) PROVE BridgeInv'
<1>1. /\ i \in Rows /\ i \in Bridged /\ i \in Existing /\ Write /\ UNCHANGED plan
      /\ svc[i] \in ServiceType /\ row[i] \in RowType
  BY Present DEF ChangeExecutionSource, BridgeInv, BridgeTypeOK, Bridged, Existing
<1>2. PICK k \in Skus, a \in Accounts :
          /\ svc' = [svc EXCEPT ![i].source = [sku |-> k, account |-> a]]
          /\ row' = [row EXCEPT ![i].sku = k, ![i].account = a]
  BY DEF ChangeExecutionSource
<1> DEFINE s == [svc[i] EXCEPT !.source = [sku |-> k, account |-> a]]
           r == [row[i] EXCEPT !.sku = k, !.account = a]
<1>3. svc' = [svc EXCEPT ![i] = s] /\ row' = [row EXCEPT ![i] = r]
  BY <1>1, <1>2 DEF BridgeInv, BridgeTypeOK
<1>4. s \in ServiceType /\ r \in RowType
  BY <1>1 DEF ServiceType, RowType
<1>5. QED
  BY <1>1, <1>3, <1>4, ChangeKeepsInv

LEMMA PatchKeepsInv == ASSUME BridgeInv, NEW i \in Ids, PatchService(i) PROVE BridgeInv'
<1>1. i \in Existing /\ row[i] \in RowType /\ Write /\ UNCHANGED <<svc, plan>>
  BY Present DEF PatchService, BridgeInv, Existing
<1>2. PICK b \in BOOLEAN, p \in Prices : row' = [row EXCEPT ![i].active = b, ![i].price = p]
  BY DEF PatchService
<1> DEFINE r == [row[i] EXCEPT !.active = b, !.price = p]
<1>3. row' = [row EXCEPT ![i] = r] /\ r \in RowType /\ r.sku = row[i].sku
  BY <1>1, <1>2 DEF BridgeInv, BridgeTypeOK, RowType
<1>4. QED
  BY <1>1, <1>3, ChangeKeepsInv

-----------------------------------------------------------------------------
\* A synchronization changes no SKU of a row, and makes stubs only.
LEMMA SyncKeepsInv == ASSUME BridgeInv, SyncFromProvider PROVE BridgeInv'
<1>0. PICK offered \in SUBSET Skus :
         \E account \in [offered -> Accounts], limits \in [offered -> Limits],
            price \in [offered -> Prices] :
            row' = [i \in Ids |-> Synced(i, offered, account, limits, price)]
  BY DEF SyncFromProvider
<1>1. PICK account \in [offered -> Accounts], limits \in [offered -> Limits],
           price \in [offered -> Prices] :
         row' = [i \in Ids |-> Synced(i, offered, account, limits, price)]
  BY <1>0
<1>2. Write /\ UNCHANGED <<svc, plan>>
  BY DEF SyncFromProvider
<1>3. ASSUME NEW i \in Existing
      PROVE  row'[i] \in RowType /\ row'[i].sku = row[i].sku
  <2>1. i \in Ids /\ row[i] \in RowType
    BY Present DEF Existing, BridgeInv
  <2>2. row'[i] = IF row[i].sku \in offered
                  THEN [row[i] EXCEPT !.account = account[row[i].sku],
                                      !.limits = limits[row[i].sku]]
                  ELSE row[i]
    BY <1>1, <2>1 DEF Synced
  <2>3. CASE row[i].sku \in offered
    <3>1. account[row[i].sku] \in Accounts /\ limits[row[i].sku] \in Limits
      BY <2>3
    <3>2. QED
      BY <2>1, <2>2, <2>3, <3>1 DEF RowType
  <2>4. CASE row[i].sku \notin offered
    BY <2>1, <2>2, <2>4
  <2>5. QED
    BY <2>3, <2>4
<1>4. ASSUME NEW i \in Ids, i \notin Existing
      PROVE  \/ row'[i] = None
             \/ row'[i] \in RowType /\ row'[i].sku \in Skus /\ Stubs[row'[i].sku] = i
  <2> DEFINE new == Stubbed(i, offered)
             k == CHOOSE k \in new : TRUE
  <2>1. row'[i] = IF new = {} THEN None
                  ELSE [active |-> FALSE, price |-> price[k], sku |-> k,
                        account |-> account[k], limits |-> limits[k]]
    BY <1>1, <1>4 DEF Synced
  <2>2. CASE new = {}
    BY <2>1, <2>2
  <2>3. CASE new # {}
    <3>1. k \in new
      BY <2>3
    <3>2. k \in offered /\ k \in Skus /\ Stubs[k] = i
      BY <3>1 DEF Stubbed
    <3>3. price[k] \in Prices /\ account[k] \in Accounts /\ limits[k] \in Limits
      BY <3>2
    <3> HIDE DEF k, new
    <3>4. QED
      BY <2>1, <2>3, <3>2, <3>3 DEF RowType
  <2>4. QED
    BY <2>2, <2>3
<1>5. row' \in [Ids -> {None} \cup RowType]
  <2>1. row' = [i \in Ids |-> row'[i]]
    BY <1>1
  <2>2. \A i \in Ids : row'[i] \in {None} \cup RowType
    BY <1>3, <1>4
  <2>3. QED
    BY <2>1, <2>2
<1>6. Rows \subseteq Existing'
  BY <1>3, IdsOfRows, BridgeAssumption DEF BridgeInv, BridgeTypeOK, Existing
<1>7. ASSUME NEW k \in Skus, row'[Stubs[k]] # None
      PROVE  row'[Stubs[k]].sku = k
  <2>1. Stubs[k] \in Ids
    BY IdsOfRows
  <2>2. CASE Stubs[k] \in Existing
    BY <1>3, <2>2 DEF BridgeInv, BridgeTypeOK, Existing
  <2>3. CASE Stubs[k] \notin Existing
    BY <1>4, <1>7, <2>1, <2>3, BridgeAssumption
  <2>4. QED
    BY <2>2, <2>3
<1>8. writes' \in 0 .. MaxWrites
  BY <1>2, BridgeAssumption DEF BridgeInv, BridgeTypeOK, Write
<1>9. QED
  BY <1>2, <1>5, <1>6, <1>7, <1>8 DEF BridgeInv, BridgeTypeOK, Bridged, PlanOK

-----------------------------------------------------------------------------
LEMMA BridgeStep == ASSUME BridgeInv, [Next]_vars PROVE BridgeInv'
<1>1. CASE UNCHANGED vars
  BY <1>1 DEF vars, BridgeInv, BridgeTypeOK, Bridged, Existing, PlanOK
<1>2. CASE ImportFails
  BY <1>2 DEF ImportFails, BridgeInv, BridgeTypeOK, Bridged, Existing, PlanOK
<1>3. QED
  BY <1>1, <1>2, PreflightKeepsInv, ImportKeepsInv, UpdateKeepsInv, PriceKeepsInv,
     SourceKeepsInv, PatchKeepsInv, SyncKeepsInv DEF Next

\* Bridges lead from placed rows to priced services, and the ids of stubs stay
\* free for synchronizations, through any imports, changes and synchronizations
\* (legacy_migration_import.py:470-590, smm_services.py:442-556).
THEOREM BridgeTypesCorrect == Spec => []BridgeTypeOK
<1>1. BridgeInv => BridgeTypeOK
  BY DEF BridgeInv
<1>2. QED
  BY <1>1, BridgeInitially, BridgeStep, PTL DEF Spec

-----------------------------------------------------------------------------
(* Drift. *)

\* The conclusion of DriftComesFromLegacy for one service.
NoDriftOfCatalog(i) ==
    \A f \in Fields :
       \/ Agree(f, row'[i], svc'[i])
       \/ svc[i] # None /\ svc'[i][f] = svc[i][f] /\ ~Agree(f, row[i], svc[i])
       \/ svc[i] = None /\ row[i] # plan.read[i]

LEMMA ImportDrift ==
    ASSUME BridgeInv, Import, NEW i \in Ids, svc'[i] # svc[i]
    PROVE  NoDriftOfCatalog(i)
<1>1. /\ i \in DOMAIN plan.read /\ svc[i] = None /\ svc'[i] = Imported(plan.read[i])
      /\ row' = row /\ plan # None
  BY DEF Import, Bridged
<1>2. plan.read[i] \in RowType /\ plan.read[i].active
  BY <1>1 DEF BridgeInv, PlanOK
<1>3. CASE row[i] = plan.read[i]
  <2>1. /\ svc'[i].status = "active" /\ svc'[i].price = row'[i].price
        /\ svc'[i].source = SourceOf(row'[i]) /\ svc'[i].limits = row'[i].limits
        /\ row'[i].active
    BY <1>1, <1>2, <1>3 DEF Imported, RowType
  <2>2. \A f \in Fields : Agree(f, row'[i], svc'[i])
    BY <2>1 DEF Agree, Fields
  <2>3. QED
    BY <2>2 DEF NoDriftOfCatalog
<1>4. CASE row[i] # plan.read[i]
  BY <1>1, <1>4 DEF NoDriftOfCatalog
<1>5. QED
  BY <1>3, <1>4

LEMMA UpdateDrift ==
    ASSUME BridgeInv, NEW i \in Ids, UpdateService(i) PROVE NoDriftOfCatalog(i)
<1>1. svc[i] # None /\ svc[i] \in ServiceType /\ row[i] \in RowType
  BY UpdateSteps DEF Bridged
<1>2. PICK status \in {"draft", "active", "archived", None}, l \in Limits \cup {None} :
          /\ svc' = [svc EXCEPT ![i] = UpdatedService(svc[i], status, l)]
          /\ row' = [row EXCEPT ![i] = UpdatedRow(row[i], status, l)]
  BY UpdateSteps
<1>3. svc'[i] = UpdatedService(svc[i], status, l) /\ row'[i] = UpdatedRow(row[i], status, l)
  BY <1>2 DEF BridgeInv, BridgeTypeOK
<1>4. /\ svc'[i].status = Given(status, svc[i].status)
      /\ svc'[i].limits = Given(l, svc[i].limits)
      /\ svc'[i].price = svc[i].price /\ svc'[i].source = svc[i].source
      /\ row'[i].active = IF status = None THEN row[i].active ELSE StatusToIsActive(status)
      /\ row'[i].limits = Given(l, row[i].limits)
      /\ row'[i].price = row[i].price /\ row'[i].sku = row[i].sku
      /\ row'[i].account = row[i].account
  BY <1>1, <1>3 DEF UpdatedService, UpdatedRow, ServiceType, RowType
<1>5. \/ Agree("status", row'[i], svc'[i])
      \/ svc'[i].status = svc[i].status /\ ~Agree("status", row[i], svc[i])
  BY <1>4 DEF Agree, Given, StatusToIsActive
<1>6. \/ Agree("limits", row'[i], svc'[i])
      \/ svc'[i].limits = svc[i].limits /\ ~Agree("limits", row[i], svc[i])
  BY <1>4 DEF Agree, Given
<1>7. /\ Agree("price", row'[i], svc'[i]) <=> Agree("price", row[i], svc[i])
      /\ Agree("source", row'[i], svc'[i]) <=> Agree("source", row[i], svc[i])
  BY <1>4 DEF Agree, SourceOf
<1>8. QED
  BY <1>1, <1>4, <1>5, <1>6, <1>7 DEF NoDriftOfCatalog, Fields

LEMMA PriceDrift ==
    ASSUME BridgeInv, NEW i \in Ids, ChangePrice(i) PROVE NoDriftOfCatalog(i)
<1>1. svc[i] # None /\ svc[i] \in ServiceType /\ row[i] \in RowType
  BY Present DEF ChangePrice, BridgeInv, BridgeTypeOK, Bridged, Existing
<1>2. PICK p \in Prices \ {None} : /\ svc'[i] = [svc[i] EXCEPT !.price = p]
                                   /\ row'[i] = [row[i] EXCEPT !.price = p]
  BY DEF ChangePrice, BridgeInv, BridgeTypeOK
<1>3. /\ svc'[i].price = row'[i].price
      /\ svc'[i].status = svc[i].status /\ row'[i].active = row[i].active
      /\ svc'[i].source = svc[i].source /\ row'[i].sku = row[i].sku
      /\ row'[i].account = row[i].account
      /\ svc'[i].limits = svc[i].limits /\ row'[i].limits = row[i].limits
  BY <1>1, <1>2 DEF ServiceType, RowType
<1>4. /\ Agree("price", row'[i], svc'[i])
      /\ Agree("status", row'[i], svc'[i]) <=> Agree("status", row[i], svc[i])
      /\ Agree("source", row'[i], svc'[i]) <=> Agree("source", row[i], svc[i])
      /\ Agree("limits", row'[i], svc'[i]) <=> Agree("limits", row[i], svc[i])
  BY <1>3 DEF Agree, SourceOf
<1>5. QED
  BY <1>1, <1>3, <1>4 DEF NoDriftOfCatalog, Fields

LEMMA SourceDrift ==
    ASSUME BridgeInv, NEW i \in Ids, ChangeExecutionSource(i) PROVE NoDriftOfCatalog(i)
<1>1. svc[i] # None /\ svc[i] \in ServiceType /\ row[i] \in RowType
  BY Present DEF ChangeExecutionSource, BridgeInv, BridgeTypeOK, Bridged, Existing
<1>2. PICK k \in Skus, a \in Accounts :
          /\ svc' = [svc EXCEPT ![i].source = [sku |-> k, account |-> a]]
          /\ row' = [row EXCEPT ![i].sku = k, ![i].account = a]
  BY DEF ChangeExecutionSource
<1>3. /\ svc'[i].source = [sku |-> k, account |-> a]
      /\ row'[i].sku = k /\ row'[i].account = a
      /\ svc'[i].status = svc[i].status /\ row'[i].active = row[i].active
      /\ svc'[i].price = svc[i].price /\ row'[i].price = row[i].price
      /\ svc'[i].limits = svc[i].limits /\ row'[i].limits = row[i].limits
  BY <1>1, <1>2 DEF ServiceType, RowType, BridgeInv, BridgeTypeOK
<1>4. /\ Agree("source", row'[i], svc'[i])
      /\ Agree("status", row'[i], svc'[i]) <=> Agree("status", row[i], svc[i])
      /\ Agree("price", row'[i], svc'[i]) <=> Agree("price", row[i], svc[i])
      /\ Agree("limits", row'[i], svc'[i]) <=> Agree("limits", row[i], svc[i])
  BY <1>3, BridgeAssumption DEF Agree, SourceOf
<1>5. QED
  BY <1>1, <1>3, <1>4 DEF NoDriftOfCatalog, Fields

\* A step that changes a service is the import, or the catalog's change of it.
LEMMA ChangedByCatalog ==
    ASSUME BridgeInv, [Next]_vars, NEW i \in Ids, svc'[i] # svc[i]
    PROVE  Import \/ UpdateService(i) \/ ChangePrice(i) \/ ChangeExecutionSource(i)
<1>1. svc' # svc
  OBVIOUS
<1>2. \/ Import
      \/ \E j \in Ids : UpdateService(j) \/ ChangePrice(j) \/ ChangeExecutionSource(j)
  BY <1>1 DEF Next, Preflight, ImportFails, PatchService, SyncFromProvider, vars
<1>3. ASSUME NEW j \in Ids, UpdateService(j) \/ ChangePrice(j) \/ ChangeExecutionSource(j)
      PROVE  \E v : svc' = [svc EXCEPT ![j] = v]
  BY <1>3 DEF UpdateService, ChangePrice, ChangeExecutionSource
<1>4. \A j \in Ids : (\E v : svc' = [svc EXCEPT ![j] = v]) => j = i
  OBVIOUS
<1>5. QED
  BY <1>2, <1>3, <1>4

\* Only the old page and synchronizations make a row differ from its service: a
\* change of the catalog makes the field it writes agree and leaves the others
\* as they were (legacy_write_through.py:157-261).
THEOREM CatalogNeverDrifts == Spec => DriftComesFromLegacy
<1>1. ASSUME BridgeInv, [Next]_vars
      PROVE  \A i \in Ids, f \in Fields :
                svc'[i] # None /\ svc'[i] # svc[i] =>
                   \/ Agree(f, row'[i], svc'[i])
                   \/ svc[i] # None /\ svc'[i][f] = svc[i][f] /\ ~Agree(f, row[i], svc[i])
                   \/ svc[i] = None /\ row[i] # plan.read[i]
  <2>1. ASSUME NEW i \in Ids, svc'[i] # svc[i]
        PROVE  NoDriftOfCatalog(i)
    BY <1>1, <2>1, ChangedByCatalog, ImportDrift, UpdateDrift, PriceDrift, SourceDrift
  <2>2. QED
    BY <2>1 DEF NoDriftOfCatalog
<1>2. BridgeInv /\ [Next]_vars
         => [\A i \in Ids, f \in Fields :
                svc'[i] # None /\ svc'[i] # svc[i] =>
                   \/ Agree(f, row'[i], svc'[i])
                   \/ svc[i] # None /\ svc'[i][f] = svc[i][f] /\ ~Agree(f, row[i], svc[i])
                   \/ svc[i] = None /\ row[i] # plan.read[i]]_vars
  BY <1>1
<1>3. QED
  BY <1>2, BridgeInitially, BridgeStep, PTL DEF Spec, DriftComesFromLegacy
=============================================================================
