------------------------- MODULE SnapshotRepository -------------------------
(***************************************************************************)
(* The snapshot in Postgres: the tables with their foreign keys and unique *)
(* indexes, the transaction that deletes and re-inserts all of them for    *)
(* every save, and the ledger of model calls, whose rows hang on runs and  *)
(* run events that each save deletes.  Saves follow one another; a ledger  *)
(* write is a statement of its own, on another connection.                 *)
(* One organisation.  Ids are numbers; a value that may be absent is {} or *)
(* {v} in the snapshot, and 0 (null) or v in a row.                        *)
(***************************************************************************)
EXTENDS Integers, Sequences, FiniteSets, SequencesExt, FiniteSetsExt

CONSTANTS
  Changes,      \* what requests and workers do to the store
  MaxChanges, MaxFaults

VARIABLES
  snap,      \* the store's snapshot, in memory
  queue,     \* snapshots waiting to be saved, oldest first
  db,        \* committed rows: table -> set of rows
  tx,        \* the save under way: its phase, its rows, the ledger rows it read, its view
  pending,   \* ledger writes not yet made
  hist       \* ids and faults used, refusals, the last save, what the ledger and memory were told

vars == <<snap, queue, db, tx, pending, hist>>

Null == 0
nullable(o) == IF o = {} THEN Null ELSE CHOOSE v \in o : TRUE
optional(v) == IF v = Null THEN {} ELSE {v}

-----------------------------------------------------------------------------
(* The schema: for each table its foreign keys and its unique indexes.     *)
(* Every row also belongs to its org, whose row is never deleted.          *)

Ref(column, table, onDelete) == [column |-> column, table |-> table, onDelete |-> onDelete]
Table(refs, uniques) == [refs |-> refs, uniques |-> uniques]

principals      == Table({}, {{"external"}})
modelPolicies   == Table({}, {{"name"}})
runtimeProfiles == Table({}, {{"name"}})
budgetPolicies  == Table({}, {{"name"}})
(* An org has one agent: no two rows may agree on no column at all.        *)
agents == Table({Ref("principalId", "principals", "restrict"),
                 Ref("defaultModelPolicyId", "modelPolicies", "restrict"),
                 Ref("defaultRuntimeProfileId", "runtimeProfiles", "restrict")}, {{}, {"principalId"}})
capabilityProfiles == Table({Ref("agentId", "agents", "cascade"),
                             Ref("runtimeProfileId", "runtimeProfiles", "restrict"),
                             Ref("modelPolicyId", "modelPolicies", "restrict")}, {{"agentId", "capabilityKind"}})
places == Table({}, {{"external"}})
accessBundles == Table({Ref("budgetPolicyId", "budgetPolicies", "restrict")}, {{"name"}})
accessBundlePlaces == Table({Ref("accessBundleId", "accessBundles", "cascade"),
                             Ref("placeId", "places", "cascade")}, {{"accessBundleId", "placeId"}})
memorySources == Table({Ref("placeId", "places", "set null")}, {{"contentHash"}})
memoryChunks  == Table({Ref("sourceId", "memorySources", "cascade"), Ref("placeId", "places", "set null")}, {})
grants == Table({Ref("accessBundleId", "accessBundles", "cascade")}, {{"accessBundleId", "capability", "resource"}})
runs == Table({Ref("agentId", "agents", "restrict"), Ref("requesterPrincipalId", "principals", "restrict"),
               Ref("placeScopeId", "places", "restrict"), Ref("modelPolicyId", "modelPolicies", "restrict"),
               Ref("runtimeProfileId", "runtimeProfiles", "restrict")}, {})
runEvents == Table({Ref("runId", "runs", "cascade")}, {})
approvals == Table({Ref("runId", "runs", "cascade"), Ref("requestedByPrincipalId", "principals", "restrict"),
                    Ref("decidedByPrincipalId", "principals", "restrict")}, {{"runId", "action", "payloadHash"}})
connectorInstalls  == Table({Ref("installedByPrincipalId", "principals", "set null")}, {{"external"}})
credentialMetadata == Table({Ref("connectorInstallId", "connectorInstalls", "set null")}, {})
auditEvents == Table({Ref("actorPrincipalId", "principals", "set null"), Ref("runId", "runs", "set null")}, {})
ingressDeliveries  == Table({Ref("runId", "runs", "set null"), Ref("approvalId", "approvals", "set null")}, {{"key"}})
outboundDeliveries == Table({Ref("runId", "runs", "set null"), Ref("approvalId", "approvals", "set null")}, {{"key"}})
modelUsage == Table({Ref("runId", "runs", "cascade"), Ref("runEventId", "runEvents", "set null"),
                     Ref("modelPolicyId", "modelPolicies", "set null")}, {})

schema ==
  [ principals |-> principals, modelPolicies |-> modelPolicies, runtimeProfiles |-> runtimeProfiles,
    budgetPolicies |-> budgetPolicies, agents |-> agents, capabilityProfiles |-> capabilityProfiles,
    places |-> places, accessBundles |-> accessBundles, accessBundlePlaces |-> accessBundlePlaces,
    memorySources |-> memorySources, memoryChunks |-> memoryChunks,
    grants |-> grants, runs |-> runs, runEvents |-> runEvents, approvals |-> approvals,
    connectorInstalls |-> connectorInstalls, credentialMetadata |-> credentialMetadata,
    auditEvents |-> auditEvents, ingressDeliveries |-> ingressDeliveries,
    outboundDeliveries |-> outboundDeliveries, modelUsage |-> modelUsage ]
Tables == DOMAIN schema

-----------------------------------------------------------------------------
(* Postgres.  A statement that is refused has no result ({}).              *)

RECURSIVE Cascade(_, _, _)
Cascade(refs, d, gone) ==
  LET more == UNION {{<<t, row.id>> : row \in {x \in d[t] : \E ref \in refs[t] :
                        ref.onDelete = "cascade" /\ <<ref.table, x[ref.column]>> \in gone}} : t \in DOMAIN refs}
  IN  IF more \subseteq gone THEN gone ELSE Cascade(refs, d, gone \cup more)

Delete(refs, d, t) ==
  LET gone == Cascade(refs, d, {<<t, row.id>> : row \in d[t]})
      kept == [u \in DOMAIN refs |-> {row \in d[u] : <<u, row.id>> \notin gone}]
      Dangling(u, row) == {ref \in refs[u] : <<ref.table, row[ref.column]>> \in gone}
      Nulled(u, row) == [c \in DOMAIN row |-> IF \E ref \in Dangling(u, row) : ref.column = c THEN Null ELSE row[c]]
  IN  IF d[t] = {} THEN {d}
      ELSE IF \E u \in DOMAIN refs : \E row \in kept[u] : \E ref \in Dangling(u, row) : ref.onDelete = "restrict" THEN {}
      ELSE {[u \in DOMAIN refs |-> {Nulled(u, row) : row \in kept[u]}]}

Resolves(d, refs, row) ==
  \A ref \in refs : row[ref.column] = Null \/ \E target \in d[ref.table] : target.id = row[ref.column]
Clash(uniques, a, b) ==
  a.id = b.id \/ \E u \in uniques : \A c \in u : a[c] # Null /\ a[c] = b[c]
Insert(table, d, t, rows) ==
  LET all == d[t] \cup rows
  IN  IF rows = {} THEN {d}
      ELSE IF /\ \A row \in rows : Resolves(d, table.refs, row)
              /\ \A a \in rows, b \in all : a = b \/ ~Clash(table.uniques, a, b)
        THEN {[d EXCEPT ![t] = all]} ELSE {}

-----------------------------------------------------------------------------
(* Snapshot to rows and back *)

principalToRow(p)  == [id |-> p.id, external |-> nullable(p.external)]
principalFromRow(r) == [id |-> r.id, external |-> optional(r.external)]

bundleRows(s) ==
  {[id |-> b.id, name |-> b.name, budgetPolicyId |-> b.budgetPolicyId] : b \in s.accessBundles}
bundlePlaceRows(s) ==
  UNION {{[id |-> <<b.id, p>>, accessBundleId |-> b.id, placeId |-> p] : p \in b.attachedPlaceIds} : b \in s.accessBundles}
grantRows(s) ==
  UNION {{[id |-> g.id, accessBundleId |-> b.id, capability |-> g.capability, resource |-> g.resource] : g \in b.grants}
         : b \in s.accessBundles}
accessBundlesFromRows(rows) ==
  {[id |-> b.id, name |-> b.name, budgetPolicyId |-> b.budgetPolicyId,
    attachedPlaceIds |-> {r.placeId : r \in {x \in rows.accessBundlePlaces : x.accessBundleId = b.id}},
    grants |-> {[id |-> r.id, capability |-> r.capability, resource |-> r.resource]
                : r \in {x \in rows.grants : x.accessBundleId = b.id}}] : b \in rows.accessBundles}

connectorInstallToRow(i) ==
  [id |-> i.id, external |-> nullable(i.external), installedByPrincipalId |-> nullable(i.installedByPrincipalId)]
connectorInstallFromRow(r) ==
  [id |-> r.id, external |-> optional(r.external), installedByPrincipalId |-> optional(r.installedByPrincipalId)]
credentialToRow(c)   == [id |-> c.id, connectorInstallId |-> nullable(c.connectorInstallId)]
credentialFromRow(r) == [id |-> r.id, connectorInstallId |-> optional(r.connectorInstallId)]

(* What a run was asked to do has no columns of its own.                   *)
runMetadataFromSnapshot(run) ==
  {<<"capability", c>> : c \in run.capability} \cup {<<"resource", r>> : r \in run.resource}
(* The resource is read only for runs with a capability.                   *)
runIntentFromMetadata_Capability(metadata) ==
  [capability |-> {m[2] : m \in {x \in metadata : x[1] = "capability"}}, resource |-> {}]
runIntentFromMetadata(metadata) ==
  [capability |-> {m[2] : m \in {x \in metadata : x[1] = "capability"}},
   resource   |-> {m[2] : m \in {x \in metadata : x[1] = "resource"}}]
runToRow(run) ==
  [id |-> run.id, agentId |-> run.agentId, requesterPrincipalId |-> run.requesterPrincipalId,
   placeScopeId |-> run.placeScopeId, modelPolicyId |-> run.modelPolicyId,
   runtimeProfileId |-> run.runtimeProfileId, metadata |-> runMetadataFromSnapshot(run)]
runFromRow(r) ==
  [id |-> r.id, agentId |-> r.agentId, requesterPrincipalId |-> r.requesterPrincipalId,
   placeScopeId |-> r.placeScopeId, modelPolicyId |-> r.modelPolicyId,
   runtimeProfileId |-> r.runtimeProfileId, capability |-> runIntentFromMetadata(r.metadata).capability,
   resource |-> runIntentFromMetadata(r.metadata).resource]

approvalToRow(a)   == [a EXCEPT !.decidedByPrincipalId = nullable(@)]
approvalFromRow(r) == [r EXCEPT !.decidedByPrincipalId = optional(@)]
auditEventToRow(e) == [id |-> e.id, actorPrincipalId |-> nullable(e.actorPrincipalId), runId |-> nullable(e.runId)]
auditEventFromRow(r) == [id |-> r.id, actorPrincipalId |-> optional(r.actorPrincipalId), runId |-> optional(r.runId)]
deliveryToRow(x) == [x EXCEPT !.runId = nullable(@), !.approvalId = nullable(@)]
ingressDeliveryFromRow(r)  == [r EXCEPT !.runId = optional(@), !.approvalId = optional(@)]
outboundDeliveryFromRow(r) == [r EXCEPT !.runId = optional(@), !.approvalId = optional(@)]

assertWritableSnapshot(s) == s.agent.handle = "@bek" /\ s.org.primaryAgentId = s.agent.id

snapshotToRows(s) ==
  [ principals |-> {principalToRow(p) : p \in s.principals}, modelPolicies |-> s.modelPolicies,
    runtimeProfiles |-> s.runtimeProfiles, budgetPolicies |-> s.budgetPolicies, agents |-> {s.agent},
    capabilityProfiles |-> s.capabilityProfiles, places |-> s.places,
    accessBundles |-> bundleRows(s), accessBundlePlaces |-> bundlePlaceRows(s), grants |-> grantRows(s),
    runs |-> {runToRow(r) : r \in s.runs}, runEvents |-> s.events,
    approvals |-> {approvalToRow(a) : a \in s.approvals},
    connectorInstalls |-> {connectorInstallToRow(i) : i \in s.connectorInstalls},
    credentialMetadata |-> {credentialToRow(c) : c \in s.credentials},
    auditEvents |-> {auditEventToRow(e) : e \in s.auditEvents},
    ingressDeliveries |-> {deliveryToRow(x) : x \in s.ingressDeliveries},
    outboundDeliveries |-> {deliveryToRow(x) : x \in s.outboundDeliveries} ]

(* What the snapshot has and no row is made from.                          *)
inMemoryOnly == {"memorySources", "memoryChunks", "agentIdentities", "agentIdentityBindings"}

(* Rows that do not have exactly the one @bek agent the org points at are  *)
(* no snapshot.                                                            *)
rowsToSnapshot(org, rows) ==
  { [ org |-> org, principals |-> {principalFromRow(r) : r \in rows.principals}, agent |-> agent,
      capabilityProfiles |-> rows.capabilityProfiles, places |-> rows.places,
      accessBundles |-> accessBundlesFromRows(rows), modelPolicies |-> rows.modelPolicies,
      runtimeProfiles |-> rows.runtimeProfiles, budgetPolicies |-> rows.budgetPolicies,
      connectorInstalls |-> {connectorInstallFromRow(r) : r \in rows.connectorInstalls},
      credentials |-> {credentialFromRow(r) : r \in rows.credentialMetadata},
      runs |-> {runFromRow(r) : r \in rows.runs}, events |-> rows.runEvents,
      approvals |-> {approvalFromRow(r) : r \in rows.approvals},
      auditEvents |-> {auditEventFromRow(r) : r \in rows.auditEvents},
      ingressDeliveries |-> {ingressDeliveryFromRow(r) : r \in rows.ingressDeliveries},
      outboundDeliveries |-> {outboundDeliveryFromRow(r) : r \in rows.outboundDeliveries},
      agentIdentities |-> {}, agentIdentityBindings |-> {}, memorySources |-> {}, memoryChunks |-> {} ]
    : agent \in {a \in rows.agents : Cardinality(rows.agents) = 1 /\ a.handle = "@bek" /\ org.primaryAgentId = a.id} }

-----------------------------------------------------------------------------
(* saveSnapshot: one transaction *)

(* Parents before the rows that hang on them.                              *)
deleteOrder_Principals ==
  <<"principals", "outboundDeliveries", "ingressDeliveries", "auditEvents", "approvals", "runEvents", "runs",
    "credentialMetadata", "connectorInstalls", "grants", "accessBundlePlaces", "capabilityProfiles",
    "agents", "accessBundles", "places", "budgetPolicies", "runtimeProfiles", "modelPolicies">>
deleteOrder ==
  <<"outboundDeliveries", "ingressDeliveries", "auditEvents", "approvals", "runEvents", "runs",
    "credentialMetadata", "connectorInstalls", "grants", "accessBundlePlaces", "capabilityProfiles",
    "agents", "accessBundles", "places", "budgetPolicies", "runtimeProfiles", "modelPolicies", "principals">>
insertOrder ==
  <<"principals", "modelPolicies", "runtimeProfiles", "budgetPolicies", "connectorInstalls",
    "credentialMetadata", "agents", "capabilityProfiles", "places", "accessBundles", "accessBundlePlaces",
    "grants", "runs", "runEvents", "approvals", "auditEvents", "ingressDeliveries", "outboundDeliveries">>

Each(Do(_, _), d, tables) == FoldLeft(LAMBDA ds, t : UNION {Do(x, t) : x \in ds}, {d}, tables)
deleteCurrentSnapshotRows(d) ==
  LET refs == [t \in Tables |-> schema[t].refs]
  IN  Each(LAMBDA x, t : Delete(refs, x, t), d, deleteOrder)
insertSnapshotRows(d, rows) ==
  LET tables == schema
  IN  Each(LAMBDA x, t : Insert(tables[t], x, t, rows[t]), d, insertOrder)

(* The ledger is not carried over a save.                                  *)
preserveModelUsageRowsForSnapshot_None(rows, existing) == {}
preserveModelUsageRowsForSnapshot(rows, existing) ==
  LET Ids(t) == {row.id : row \in rows[t]}
  IN  {[u EXCEPT !.runEventId = IF @ \in Ids("runEvents") THEN @ ELSE Null,
                 !.modelPolicyId = IF @ \in Ids("modelPolicies") THEN @ ELSE Null]
       : u \in {x \in existing : x.runId \in Ids("runs")}}
readPreservedModelUsageRows(d, rows) == preserveModelUsageRowsForSnapshot(rows, d.modelUsage)
(* on conflict do nothing                                                  *)
restoreModelUsageRows(d, kept) ==
  Insert(modelUsage, d, "modelUsage", {u \in kept : \A x \in d.modelUsage : x.id # u.id})

NoTx == [phase |-> "idle"]

SaveBegin ==
  /\ tx.phase = "idle" /\ queue # <<>> /\ ~hist.error
  /\ assertWritableSnapshot(Head(queue))
  /\ LET rows == snapshotToRows(Head(queue))
     IN  tx' = [phase |-> "read", rows |-> rows, kept |-> readPreservedModelUsageRows(db, rows)]
  /\ UNCHANGED <<snap, queue, db, pending, hist>>

SaveRefused(result) ==
  /\ result = {} /\ tx' = NoTx /\ queue' = Tail(queue)
  /\ hist' = [hist EXCEPT !.error = TRUE, !.badSaves = @ \cup {Head(queue)}]
  /\ UNCHANGED <<snap, db, pending>>

(* The deletes.  From here on a write that refers to one of the deleted    *)
(* rows waits for the transaction; until here it did not.                  *)
SaveDelete ==
  /\ tx.phase = "read"
  /\ LET result == deleteCurrentSnapshotRows(db)
     IN  \/ SaveRefused(result)
         \/ \E d \in result :
              /\ tx' = [phase |-> "deleted", rows |-> tx.rows, kept |-> tx.kept, view |-> d]
              /\ UNCHANGED <<snap, queue, db, pending, hist>>

(* recordChange, flushChanges: after a refused save the ones that wait are *)
(* skipped, until a request has flushed and got the error.                 *)
SaveSkipped ==
  /\ tx.phase = "idle" /\ hist.error
  /\ \/ queue # <<>> /\ queue' = Tail(queue) /\ UNCHANGED hist
     \/ hist' = [hist EXCEPT !.error = FALSE] /\ UNCHANGED queue
  /\ UNCHANGED <<snap, db, tx, pending>>

(* The org row (upsertOrgRow), the inserts, the ledger rows read before,   *)
(* and the commit.  A request that waited for this save then writes the    *)
(* ledger, all of what is pending; another one did not wait for any.       *)
SaveCommit ==
  /\ tx.phase = "deleted"
  /\ LET result == UNION {restoreModelUsageRows(d, tx.kept) : d \in insertSnapshotRows(tx.view, tx.rows)}
     IN  \/ SaveRefused(result)
         \/ \E d \in result, flushing \in BOOLEAN :
              /\ db' = d /\ tx' = NoTx /\ queue' = Tail(queue)
              /\ hist' = [hist EXCEPT !.committed = Head(queue), !.flushing = @ \/ flushing,
                            !.calls = {c \in @ : \E r \in Head(queue).runs : r.id = c.runId}]
              /\ UNCHANGED <<snap, pending>>

-----------------------------------------------------------------------------
(* The ledger of model calls *)

(* A completed call's run event is what the ledger row is made from: one   *)
(* row for a worker event, however often it is projected or written.       *)
modelUsageWriteFromRunEvent(event, run) ==
  [id |-> event.workerEventId, runId |-> event.runId, runEventId |-> {event.id}, modelPolicyId |-> {run.modelPolicyId}]
modelUsageInputToRow(input) ==
  [input EXCEPT !.runEventId = nullable(@), !.modelPolicyId = nullable(@)]

(* on conflict do update: every column is the new write's                  *)
modelUsageUpdateSet(row) == [row EXCEPT !.id = row.id]
recordUsage(d, input) ==
  LET row == modelUsageInputToRow(input)
  IN  Insert(modelUsage, [d EXCEPT !.modelUsage = {u \in @ : u.id # row.id}], "modelUsage",
             {IF \E u \in d.modelUsage : u.id = row.id THEN modelUsageUpdateSet(row) ELSE row})

(* The statement, when no save holds the rows it refers to.                *)
RecordUsage ==
  /\ hist.flushing /\ pending # <<>> /\ tx.phase # "deleted"
  /\ LET row == Head(pending)
     IN  \/ /\ recordUsage(db, row) = {}
            /\ hist' = [hist EXCEPT !.flushing = FALSE, !.refused = @ \cup {row.id}]
            /\ UNCHANGED <<db, pending>>
         \/ \E d \in recordUsage(db, row) :
              /\ db' = d
              /\ \/ /\ pending' = Tail(pending)
                    /\ hist' = [hist EXCEPT !.flushing = Len(pending) > 1,
                                  !.calls = IF tx.phase = "read" THEN @ ELSE @ \cup {[id |-> row.id, runId |-> row.runId]}]
                 \* written, but the answer is lost: it stays pending
                 \/ /\ hist.faults < MaxFaults /\ UNCHANGED pending
                    /\ hist' = [hist EXCEPT !.flushing = FALSE, !.faults = @ + 1]
  /\ UNCHANGED <<snap, queue, tx>>

(* A write that waited for a save: the rows it refers to were deleted and  *)
(* inserted anew, which its own check of them may not see.                 *)
RecordUsageWaited ==
  /\ hist.flushing /\ pending # <<>> /\ tx.phase = "deleted"
  /\ hist' = [hist EXCEPT !.flushing = FALSE, !.refused = @ \cup {Head(pending).id}]
  /\ UNCHANGED <<snap, queue, db, tx, pending>>

summarizeModelUsageRows(rows) ==
  {[runId |-> r, calls |-> Cardinality({u \in rows : u.runId = r})] : r \in {u.runId : u \in rows}}
modelUsageTotalsFromSummaries(summaries) ==
  [runs |-> Cardinality(summaries), modelCalls |-> MapThenSumSet(LAMBDA x : x.calls, summaries)]
readModelUsageTotals(d) == modelUsageTotalsFromSummaries(summarizeModelUsageRows(d.modelUsage))

-----------------------------------------------------------------------------
(* Changes of the store; each saves the snapshot it leaves.  {} is a throw. *)

(* assignOptional: the row found keeps its id, and what the input omits.   *)
Upsert(rows, row, same, optionals) ==
  LET Assigned(x) == [f \in DOMAIN row |-> IF f = "id" \/ (f \in optionals /\ row[f] = {}) THEN x[f] ELSE row[f]]
  IN  IF same = {} THEN rows \cup {row} ELSE (rows \ same) \cup {Assigned(x) : x \in same}
findRun(s, id) == {r \in s.runs : r.id = id}

upsertConnectorInstall(s, id, c) ==
  {[s EXCEPT !.connectorInstalls =
      Upsert(@, [id |-> id, external |-> c.external, installedByPrincipalId |-> c.by],
             {x \in @ : c.external # {} /\ x.external = c.external}, {"installedByPrincipalId"})]}
upsertCredential(s, id, c) ==
  IF c.install # {} /\ \A i \in s.connectorInstalls : {i.id} # c.install THEN {}
  ELSE {[s EXCEPT !.credentials =
           Upsert(@, [id |-> id, connectorInstallId |-> c.install],
                  {x \in @ : c.install # {} /\ x.connectorInstallId = c.install}, {})]}
recordAuditEvent(s, id, c) ==
  IF (\E a \in c.actor : \A p \in s.principals : p.id # a) \/ (\E r \in c.run : findRun(s, r) = {}) THEN {}
  ELSE {[s EXCEPT !.auditEvents = @ \cup {[id |-> id, actorPrincipalId |-> c.actor, runId |-> c.run]}]}
upsertApprovalRequest(s, id, c) ==
  {[s EXCEPT !.approvals = {a \in @ : a.id # c.approval} \cup
      {[id |-> c.approval, runId |-> r.id, action |-> c.action, payloadHash |-> c.payload,
        requestedByPrincipalId |-> r.requesterPrincipalId, decidedByPrincipalId |-> c.by]}] : r \in findRun(s, c.run)}
appendRunEvent(s, id, c) ==
  {[s EXCEPT !.events = @ \cup {[id |-> id, runId |-> r.id, workerEventId |-> c.event]}] : r \in findRun(s, c.run)}

(* The store's other operations, at the rows they add or remove.           *)
createPlace(s, id, c) ==
  IF \E p \in s.places : p.external = c.external THEN {} ELSE {[s EXCEPT !.places = @ \cup {[id |-> id, external |-> c.external]}]}
deletePlace(s, id, c) ==
  IF (\A p \in s.places : p.id # c.place) \/ \E r \in s.runs : r.placeScopeId = c.place THEN {}
  ELSE {[s EXCEPT !.places = {p \in @ : p.id # c.place},
                  !.accessBundles = {[b EXCEPT !.attachedPlaceIds = @ \ {c.place}] : b \in @}]}
(* An attached place may be named by its external id, and is kept as named. *)
createAccessBundle(s, id, c) ==
  IF \E a \in c.places : \A p \in s.places : a \notin {p.id, p.external} THEN {}
  ELSE {[s EXCEPT !.accessBundles = @ \cup {[id |-> id, name |-> c.name, budgetPolicyId |-> 1,
                                             attachedPlaceIds |-> c.places, grants |-> {}]}]}
(* updateAccessBundle, updateModelPolicy, updateRuntimeProfile: no look at  *)
(* the other rows' names.                                                  *)
updateName(s, c) ==
  {[s EXCEPT ![c.of] = {IF x = row THEN [x EXCEPT !.name = c.name] ELSE x : x \in @}]
     : row \in {x \in s[c.of] : x.id = c.row}}
createGrant(s, id, c) ==
  IF \E b \in s.accessBundles : b.id = c.bundle /\ \A g \in b.grants : g.resource # c.resource
    THEN {[s EXCEPT !.accessBundles = {IF b.id = c.bundle
             THEN [b EXCEPT !.grants = @ \cup {[id |-> id, capability |-> 1, resource |-> c.resource]}] ELSE b : b \in @}]}
    ELSE {}
(* The requester is taken as it is given.                                  *)
createRun(s, id, c) ==
  {[s EXCEPT !.runs = @ \cup {[id |-> id, agentId |-> s.agent.id, requesterPrincipalId |-> c.requester,
                               placeScopeId |-> p.id, modelPolicyId |-> s.agent.defaultModelPolicyId,
                               runtimeProfileId |-> s.agent.defaultRuntimeProfileId,
                               capability |-> c.capability, resource |-> c.resource]}]
     : p \in {x \in s.places : x.id = c.place}}
Delivery(id, c) == [id |-> id, key |-> c.key, runId |-> c.run, approvalId |-> {}]
recordIngressDelivery(s, id, c) ==
  {[s EXCEPT !.ingressDeliveries = Upsert(@, Delivery(id, c), {x \in @ : x.key = c.key}, {"runId", "approvalId"})]}
enqueueOutboundDelivery(s, id, c) ==
  {[s EXCEPT !.outboundDeliveries = Upsert(@, Delivery(id, c), {x \in @ : x.key = c.key}, {"runId", "approvalId"})]}

(* The memory API: a source of a place there is, a chunk of a source there *)
(* is, with its place.                                                     *)
recordMemorySource(s, id, c) ==
  IF \E a \in c.place : \A p \in s.places : p.id # a THEN {}
  ELSE {[s EXCEPT !.memorySources = @ \cup {[id |-> id, placeId |-> c.place]}]}
recordMemoryChunks(s, id, c) ==
  {[s EXCEPT !.memoryChunks = @ \cup {[id |-> id, sourceId |-> m.id, placeId |-> m.placeId]}]
     : m \in {x \in s.memorySources : x.id = c.source}}

Changed(c, id) ==
  CASE c.kind = "install"      -> upsertConnectorInstall(snap, id, c)
    [] c.kind = "credential"   -> upsertCredential(snap, id, c)
    [] c.kind = "audit"        -> recordAuditEvent(snap, id, c)
    [] c.kind = "approval"     -> upsertApprovalRequest(snap, id, c)
    [] c.kind = "event"        -> appendRunEvent(snap, id, c)
    [] c.kind = "place"        -> createPlace(snap, id, c)
    [] c.kind = "delete_place" -> deletePlace(snap, id, c)
    [] c.kind = "bundle"       -> createAccessBundle(snap, id, c)
    [] c.kind = "name"         -> updateName(snap, c)
    [] c.kind = "grant"        -> createGrant(snap, id, c)
    [] c.kind = "run"          -> createRun(snap, id, c)
    [] c.kind = "ingress"      -> recordIngressDelivery(snap, id, c)
    [] c.kind = "outbound"     -> enqueueOutboundDelivery(snap, id, c)
    [] c.kind = "memory source" -> recordMemorySource(snap, id, c)
    [] c.kind = "memory chunk"  -> recordMemoryChunks(snap, id, c)

(* A run event of a completed model call also leaves a ledger write, when  *)
(* the store does (recordWorkerEvent).                                     *)
Change(c) ==
  /\ hist.next < 10 + MaxChanges
  /\ \E s \in Changed(c, hist.next) :
       /\ snap' = s /\ queue' = Append(queue, s)
       /\ pending' = IF c.kind # "event" \/ c.event = 0 THEN pending
                     ELSE LET run == CHOOSE r \in s.runs : r.id = c.run
                              e   == CHOOSE x \in s.events : x.id = hist.next
                          IN  Append(pending, modelUsageWriteFromRunEvent(e, run))
  /\ hist' = [hist EXCEPT !.next = @ + 1]
  /\ UNCHANGED <<db, tx>>

(* DrizzleMemoryRepository: statements of their own, outside any save.     *)
memorySourceToRow(m)   == [m EXCEPT !.placeId = nullable(@)]
memoryChunkToRow(m)    == [m EXCEPT !.placeId = nullable(@)]
rowToMemoryChunk(row)  == [row EXCEPT !.placeId = optional(@)]
(* on conflict on the id do update, on any other unique index fail         *)
upsertSource(d, m) ==
  Insert(memorySources, [d EXCEPT !.memorySources = {x \in @ : x.id # m.id}], "memorySources", {memorySourceToRow(m)})
insertChunks(d, m) ==
  Insert(memoryChunks, d, "memoryChunks", {memoryChunkToRow(x) : x \in {y \in {m} : \A r \in d.memoryChunks : r.id # y.id}})
listChunks(d) == {rowToMemoryChunk(row) : row \in d.memoryChunks}
deleteSource(d, id) == {[d EXCEPT !.memorySources = {x \in @ : x.id # id}, !.memoryChunks = {x \in @ : x.sourceId # id}]}

Memory(c) ==
  /\ hist.next < 10 + MaxChanges /\ tx.phase # "deleted"
  /\ \/ /\ c.kind = "source"
        /\ db' \in upsertSource(db, [id |-> c.source, placeId |-> c.place, contentHash |-> c.source])
        /\ hist' = [hist EXCEPT !.next = @ + 1]
     \/ /\ c.kind = "chunk"
        /\ LET m == [id |-> hist.next, sourceId |-> c.source, placeId |-> c.place]
           IN  db' \in insertChunks(db, m) /\ hist' = [hist EXCEPT !.next = @ + 1, !.chunks = @ \cup {m}]
     \/ /\ c.kind = "forget"
        /\ db' \in deleteSource(db, c.source) /\ hist' = [hist EXCEPT !.next = @ + 1]
  /\ UNCHANGED <<snap, queue, tx, pending>>

readSnapshot(d) == rowsToSnapshot(snap.org, d)

(* createPostgresStoreHandle, after a crash that leaves what was committed. *)
Restart ==
  /\ hist.faults < MaxFaults
  /\ snap' \in readSnapshot(db)
  /\ queue' = <<>> /\ tx' = NoTx /\ pending' = <<>>
  /\ hist' = [hist EXCEPT !.faults = @ + 1, !.flushing = FALSE, !.error = FALSE]
  /\ UNCHANGED db

Seed ==
  [ org |-> [primaryAgentId |-> 1], principals |-> {[id |-> 1, external |-> {}], [id |-> 2, external |-> {1}]},
    agent |-> [id |-> 1, handle |-> "@bek", principalId |-> 1, defaultModelPolicyId |-> 1, defaultRuntimeProfileId |-> 1],
    capabilityProfiles |-> {[id |-> 1, agentId |-> 1, runtimeProfileId |-> 1, modelPolicyId |-> 1, capabilityKind |-> 1]},
    places |-> {[id |-> 1, external |-> 101]},
    accessBundles |-> {[id |-> 1, name |-> 1, budgetPolicyId |-> 1, attachedPlaceIds |-> {1},
                        grants |-> {[id |-> 1, capability |-> 1, resource |-> 1]}]},
    modelPolicies |-> {[id |-> 1, name |-> 1]}, runtimeProfiles |-> {[id |-> n, name |-> n] : n \in 1..2},
    budgetPolicies |-> {[id |-> 1, name |-> 1]}, connectorInstalls |-> {}, credentials |-> {},
    runs |-> {[id |-> 1, agentId |-> 1, requesterPrincipalId |-> 2, placeScopeId |-> 1, modelPolicyId |-> 1,
               runtimeProfileId |-> 1, capability |-> {}, resource |-> {}]},
    events |-> {}, approvals |-> {}, auditEvents |-> {}, ingressDeliveries |-> {}, outboundDeliveries |-> {},
    agentIdentities |-> {}, agentIdentityBindings |-> {}, memorySources |-> {}, memoryChunks |-> {} ]

Init ==
  /\ snap = Seed /\ queue = <<Seed>> /\ tx = NoTx /\ pending = <<>>
  /\ db = [t \in Tables |-> IF t \in DOMAIN snapshotToRows(Seed) THEN snapshotToRows(Seed)[t] ELSE {}]
  /\ hist = [next |-> 10, faults |-> 0, refused |-> {}, badSaves |-> {}, committed |-> Seed, calls |-> {},
             flushing |-> FALSE, error |-> FALSE, chunks |-> {}]

MemoryKinds == {"source", "chunk", "forget"}
Next ==
  \/ \E c \in {x \in Changes : x.kind \notin MemoryKinds} : Change(c)
  \/ \E c \in {x \in Changes : x.kind \in MemoryKinds} : Memory(c)
  \/ SaveBegin \/ SaveDelete \/ SaveCommit \/ SaveSkipped \/ RecordUsage \/ RecordUsageWaited \/ Restart

Spec == Init /\ [][Next]_vars

-----------------------------------------------------------------------------
(* The rows of the last save read back as the snapshot that was saved,     *)
(* whatever changes, failed saves, restarts and ledger writes came before: *)
(* nothing a row is made from is dropped by its columns, by a foreign      *)
(* key's action or by the order of the statements.  What no row is made    *)
(* from, the memory API's sources and chunks among it, reads back empty.   *)
SavedReadsBack ==
  LET read == rowsToSnapshot(snap.org, db)
  IN  /\ Cardinality(read) = 1
      /\ \A s \in read : \A f \in DOMAIN s : s[f] = IF f \in inMemoryOnly THEN {} ELSE hist.committed[f]

(* A model call whose ledger row was written while no save was between its *)
(* reading of the ledger and its deletes is counted once ever after: every *)
(* save deletes the runs the row hangs on, and puts it back.  (A row       *)
(* written in between is deleted with its run.)                            *)
LedgerKept ==
  /\ \A c \in hist.calls : Cardinality({u \in db.modelUsage : u.id = c.id /\ u.runId = c.runId}) = 1
  /\ readModelUsageTotals(db).modelCalls >= Cardinality(hist.calls)

(* A foreign key or a unique index refuses a save only for what the store  *)
(* lets through and the tables do not: two bundles or two runtime profiles *)
(* of one name, a bundle attached to a place by its external id, a second  *)
(* approval of one action and payload of a run, and a run or an install    *)
(* whose requester or installer is no principal.  Whatever else happened,  *)
(* the store's snapshot can be saved.                                      *)
SavableSaves ==
  \A s \in hist.badSaves :
    \/ \E t \in {"accessBundles", "runtimeProfiles"} : \E a, b \in s[t] : a # b /\ a.name = b.name
    \/ \E b \in s.accessBundles : \E p \in b.attachedPlaceIds : \A x \in s.places : x.id # p
    \/ \E a, b \in s.approvals : a # b /\ a.runId = b.runId /\ a.action = b.action /\ a.payloadHash = b.payloadHash
    \/ \E r \in s.runs : \A p \in s.principals : p.id # r.requesterPrincipalId
    \/ \E i \in s.connectorInstalls : \E by \in i.installedByPrincipalId : \A p \in s.principals : p.id # by

(* "The API buffers model-usage writes until after run-event persistence   *)
(* has flushed, so model_usage.run_event_id does not race its foreign-keyed *)
(* run_events row": no ledger write is refused for the event it names.     *)
UsageNeverRefused == hist.refused = {}

(* "persisted chunks flow straight into ACL-before-injection retrieval": a *)
(* stored chunk is read with the place it was stored for, while that place *)
(* exists.                                                                 *)
ChunksKeepPlace ==
  \A m \in hist.chunks, x \in listChunks(db) :
    (x.id = m.id /\ \A p \in m.placeId : \E r \in db.places : r.id = p) => x = m

=============================================================================
