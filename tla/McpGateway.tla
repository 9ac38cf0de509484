----------------------------- MODULE McpGateway -----------------------------
(***************************************************************************)
(* packages/mcp-gateway/src/index.ts: one tool of one MCP server, as seen  *)
(* by one tenant.  The schemas a server presents are cached or quarantined; *)
(* a request is built against the active schema and executed later, after  *)
(* an approval perhaps, against whatever is active then.                   *)
(*                                                                         *)
(* A JSON schema is [type, props, required, additional, items]; a value is *)
(* [kind, fields, elems].  `additional' is a schema, or AnyValue (true or  *)
(* absent), or NoValue (false).                                            *)
(***************************************************************************)
EXTENDS Integers, Sequences, FiniteSets, SequencesExt, Functions

CONSTANTS
  ToolSchemas,  \* what a server may present: [input (a JSON schema), risk, text]
  Inputs,       \* inputs an agent may ask for
  Outputs,      \* what a tool may answer
  Grant,        \* the grant of the tool: [decision, risk, requiresApproval]
  RequestIds,   \* ids a request may be given
  MaxPresented, \* bound: schemas presented
  MaxSent       \* bound: calls that reach the transport

VARIABLES
  server,    \* status of the server: "pending", "active", "disabled"
  cache,     \* the ToolSchemaCache: [active, quarantined]
  allowed,   \* whether the tenant's allowlist has an entry that has not expired
  request,   \* the proxy request at hand
  approval,  \* approval records by request id: [status, input] (input: what was shown)
  sent       \* calls that reached the transport, with what came back

vars == <<server, cache, allowed, request, approval, sent>>

AnyValue == [type |-> "any"]
NoValue  == [type |-> "none"]
NoSchema == [input |-> NoValue, risk |-> "", text |-> ""]
NoRequest == [id |-> "", state |-> "none"]

Leaf == {"boolean", "integer", "null", "number", "string"}

RECURSIVE ValidateJsonSchemaShape(_)
ValidateJsonSchemaShape(schema) ==
  CASE schema.type \in Leaf -> TRUE
    [] schema.type = "array" -> ValidateJsonSchemaShape(schema.items)
    [] schema.type = "object" ->
         /\ \A name \in DOMAIN schema.props : ValidateJsonSchemaShape(schema.props[name])
         /\ schema.additional \in {AnyValue, NoValue} \/ ValidateJsonSchemaShape(schema.additional)
    [] OTHER -> FALSE

RECURSIVE ValidateJsonSchemaValue(_, _)
ValidateJsonSchemaObject(value, schema) ==
  /\ value.kind = "object"
  /\ schema.required \subseteq DOMAIN value.fields
  /\ \A name \in DOMAIN value.fields :
       IF name \in DOMAIN schema.props
       THEN ValidateJsonSchemaValue(value.fields[name], schema.props[name])
       ELSE CASE schema.additional = NoValue -> FALSE
              [] schema.additional = AnyValue -> TRUE
              [] OTHER -> ValidateJsonSchemaValue(value.fields[name], schema.additional)
ValidateJsonSchemaArray(value, schema) ==
  /\ value.kind = "array"
  /\ \A i \in DOMAIN value.elems : ValidateJsonSchemaValue(value.elems[i], schema.items)
ValidateJsonSchemaValue(value, schema) ==
  CASE schema.type = "object" -> ValidateJsonSchemaObject(value, schema)
    [] schema.type = "array" -> ValidateJsonSchemaArray(value, schema)
    [] schema.type = "number" -> value.kind \in {"integer", "number"}
    [] OTHER -> value.kind = schema.type

ValidateJsonSchemaInput(value, schema) ==
  ValidateJsonSchemaShape(schema) /\ ValidateJsonSchemaValue(value, schema)

-----------------------------------------------------------------------------
(* Drift *)

(* The kinds of change between two object schemas; only their own level and the
   properties as wholes are looked at. *)
DiffToolSchemas(cached, presented) ==
  LET old == DOMAIN cached.props
      new == DOMAIN presented.props
  IN    (IF old \ new # {} THEN {"property_removed"} ELSE {})
   \cup (IF new \ old # {} THEN {"property_added"} ELSE {})
   \cup (IF \E n \in old \cap new : cached.props[n] # presented.props[n]
         THEN {"property_changed"} ELSE {})
   \cup (IF presented.required \ cached.required # {} THEN {"required_added"} ELSE {})
   \cup (IF cached.required \ presented.required # {} THEN {"required_removed"} ELSE {})
   \cup (IF cached.additional # NoValue /\ presented.additional = NoValue
         THEN {"additional_properties_tightened"} ELSE {})
   \cup (IF cached.additional = NoValue /\ presented.additional # NoValue
         THEN {"additional_properties_relaxed"} ELSE {})

IsBreakingSchemaChange_RequiredIsFine(kind) ==
  kind \in {"property_removed", "property_changed", "additional_properties_tightened"}

IsBreakingSchemaChange(kind) ==
  kind \in {"property_removed", "property_changed", "required_added",
            "additional_properties_tightened"}

DetectToolSchemaDrift(cached, presented) ==
  LET changes == DiffToolSchemas(cached.input, presented.input)
                   \cup (IF cached.text # presented.text THEN {"description_changed"} ELSE {})
  IN CASE changes = {} -> "none"
       [] \E kind \in changes : IsBreakingSchemaChange(kind) -> "breaking"
       [] OTHER -> "compatible"

-----------------------------------------------------------------------------
(* Risk *)

RiskOrder == <<"read_internal", "write_draft", "write_external", "privileged">>

HighestRisk(left, right) ==
  IF SelectInSeq(RiskOrder, LAMBDA r : r = left) >= SelectInSeq(RiskOrder, LAMBDA r : r = right)
  THEN left ELSE right

RequiresApprovalForRisk(risk) == risk \in {"write_external", "privileged"}

(* A schema has a risk of its own, given or read from its words. *)
RequestRisk(schema) == HighestRisk(Grant.risk, schema.risk)

RequiresApproval(schema) ==
  \/ Grant.requiresApproval \/ Grant.decision = "ask"
  \/ RequiresApprovalForRisk(RequestRisk(schema))

-----------------------------------------------------------------------------

Init ==
  /\ server = "pending"
  /\ cache = [active |-> NoSchema, quarantined |-> <<>>, presented |-> 0, trusted |-> {}]
  /\ allowed = FALSE
  /\ request = NoRequest
  /\ approval = [id \in RequestIds |-> [status |-> "none"]]
  /\ sent = <<>>

Register(status) ==
  /\ server' = status
  /\ UNCHANGED <<cache, allowed, request, approval, sent>>

Upsert_TrustsCompatible(schema) ==
  /\ cache.presented < MaxPresented
  /\ LET quarantines == \/ ~ValidateJsonSchemaShape(schema.input)
                        \/ /\ cache.active # NoSchema /\ cache.active # schema
                           /\ DetectToolSchemaDrift(cache.active, schema) = "breaking"
     IN cache' = IF quarantines
                 THEN [cache EXCEPT !.quarantined = Append(@, schema), !.presented = @ + 1]
                 ELSE [cache EXCEPT !.active = schema, !.presented = @ + 1,
                                    !.trusted = IF @ = {} THEN {schema} ELSE @]
  /\ UNCHANGED <<server, allowed, request, approval, sent>>

(* The server presents a schema: the first good one is cached, any other than the
   active one waits for review.  (Two schemas have one hash when they are equal.) *)
Upsert(schema) ==
  /\ cache.presented < MaxPresented
  /\ LET quarantines == \/ ~ValidateJsonSchemaShape(schema.input)
                        \/ cache.active \notin {NoSchema, schema}
     IN cache' = IF quarantines
                 THEN [cache EXCEPT !.quarantined = Append(@, schema), !.presented = @ + 1]
                 ELSE [cache EXCEPT !.active = schema, !.presented = @ + 1,
                                    !.trusted = @ \cup {schema}]
  /\ UNCHANGED <<server, allowed, request, approval, sent>>

(* An administrator approves a quarantined schema, by its hash. *)
ApproveSchema(schema) ==
  /\ schema \in ToSet(cache.quarantined)
  /\ cache' = [cache EXCEPT !.active = schema, !.trusted = @ \cup {schema},
                            !.quarantined = SelectSeq(@, LAMBDA q : q # schema)]
  /\ UNCHANGED <<server, allowed, request, approval, sent>>

(* Allow and revoke an entry, or let it expire. *)
SetAllowed(yes) ==
  /\ allowed # yes /\ allowed' = yes
  /\ UNCHANGED <<server, cache, request, approval, sent>>

CreateMcpProxyRequest(id, input) ==
  /\ request.state = "none"
  /\ Grant.decision # "deny" /\ server = "active" /\ cache.active # NoSchema
  /\ ValidateJsonSchemaInput(input, cache.active.input)
  /\ request' = [id |-> id, state |-> "made", input |-> input, schema |-> cache.active,
                 needsApproval |-> RequiresApproval(cache.active)]
  /\ approval' = IF RequiresApproval(cache.active) /\ approval[id].status = "none"
                 THEN [approval EXCEPT ![id] = [status |-> "pending"]]
                 ELSE approval
  /\ UNCHANGED <<server, cache, allowed, sent>>

DecideMcpApproval(id, status) ==
  /\ approval[id].status = "pending"
  /\ approval' = [approval EXCEPT ![id].status = status]
  /\ UNCHANGED <<server, cache, allowed, request, sent>>

ValidateExecutableRequest_AnyHash ==
  CASE server # "active" -> "server_unavailable"
    [] ~ValidateJsonSchemaInput(request.input, cache.active.input) -> "invalid_input"
    [] OTHER -> ""

(* Why an execution is blocked, or "". *)
ValidateExecutableRequest ==
  CASE server # "active" -> "server_unavailable"
    [] request.schema # cache.active -> "schema_mismatch"
    [] ~ValidateJsonSchemaInput(request.input, cache.active.input) -> "invalid_input"
    [] OTHER -> ""

ValidateMcpApproval ==
  CASE ~request.needsApproval -> ""
    [] approval[request.id].status \in {"none", "pending"} -> "approval_required"
    [] approval[request.id].status = "approved" -> ""
    [] OTHER -> "approval_not_approved"

Blocked ==
  \/ ValidateExecutableRequest # "" \/ ~allowed \/ ValidateMcpApproval # ""

BlockExecution ==
  /\ request.state = "made" /\ Blocked
  /\ request' = NoRequest
  /\ UNCHANGED <<server, cache, allowed, approval, sent>>

(* The call goes out; the result comes back in another step, or an error does. *)
SendToTransport ==
  /\ request.state = "made" /\ ~Blocked /\ Len(sent) < MaxSent
  /\ request' = [request EXCEPT !.state = "sent"]
  /\ sent' = Append(sent, [schema |-> cache.active, made |-> request.schema, output |-> [kind |-> "null"]])
  /\ UNCHANGED <<server, cache, allowed, approval>>

IsSensitiveMcpOutputFieldName(name) == name = "token"

Redacted == [kind |-> "string", text |-> "[redacted]"]

RECURSIVE RedactUnknownMcpOutput(_)
RedactUnknownMcpOutput(value) ==
  CASE value.kind = "string" -> IF value.text = "credential" THEN Redacted ELSE value
    [] value.kind = "array" ->
         [value EXCEPT !.elems = [i \in DOMAIN @ |-> RedactUnknownMcpOutput(@[i])]]
    [] value.kind = "object" ->
         [value EXCEPT !.fields = [n \in DOMAIN @ |->
            IF IsSensitiveMcpOutputFieldName(n) THEN Redacted
            ELSE RedactUnknownMcpOutput(@[n])]]
    [] OTHER -> value

TransportAnswers(output) ==
  /\ request.state = "sent"
  /\ request' = NoRequest
  /\ sent' = [sent EXCEPT ![Len(sent)].output = RedactUnknownMcpOutput(output)]
  /\ UNCHANGED <<server, cache, allowed, approval>>

TransportFails ==
  /\ request.state = "sent"
  /\ request' = NoRequest
  /\ UNCHANGED <<server, cache, allowed, approval, sent>>

Next ==
  \/ \E status \in {"active", "disabled"} : Register(status)
  \/ \E schema \in ToolSchemas : Upsert(schema) \/ ApproveSchema(schema)
  \/ \E yes \in BOOLEAN : SetAllowed(yes)
  \/ \E id \in RequestIds, input \in Inputs : CreateMcpProxyRequest(id, input)
  \/ \E id \in RequestIds, status \in {"approved", "denied"} : DecideMcpApproval(id, status)
  \/ BlockExecution
  \/ SendToTransport
  \/ \E output \in Outputs : TransportAnswers(output)
  \/ TransportFails

Spec == Init /\ [][Next]_vars

-----------------------------------------------------------------------------
(* Properties *)

(* No call reaches a server under a schema it changed to on its own: the schema
   is the first one it presented or one an administrator approved, and the one
   the request was made, classified and perhaps approved under, however
   presenting, reviewing, disabling and requesting interleave. *)
ReviewedSchemasOnly ==
  \A i \in DOMAIN sent : sent[i].schema \in cache.trusted /\ sent[i].made = sent[i].schema

(* Where additional properties are forbidden, a drift the reviewer is told is
   compatible breaks no call: an input that is good under the active schema is
   good under the one in quarantine. *)
CompatibleKeepsInputs ==
  \A i \in DOMAIN cache.quarantined :
    LET old == cache.active
        new == cache.quarantined[i]
    IN /\ old # NoSchema /\ old.input.type = "object" /\ old.input.additional = NoValue
       /\ new.input.type = "object" /\ ValidateJsonSchemaShape(new.input)
       /\ DetectToolSchemaDrift(old, new) \in {"none", "compatible"}
       => \A input \in Inputs : ValidateJsonSchemaInput(input, old.input)
                                  => ValidateJsonSchemaInput(input, new.input)
=============================================================================
