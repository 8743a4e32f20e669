---------------------------- MODULE ClientAccess ----------------------------
(***************************************************************************)
(* Who may use what: the Gateway's middleware (gateway/app/main.py) and    *)
(* the MCP server (mcp/auth.py, mcp/server.py) in front of it, both with a *)
(* TokenStore of their own on the same registry.                           *)
(*                                                                         *)
(* An MCP client opens a session once and then calls tools.  A tool call   *)
(* looks the token up again and is forwarded to the Gateway with the       *)
(* client's own token, where it is looked up a third time.  The registry   *)
(* may change between any two of these.                                    *)
(*                                                                         *)
(* Module ClientRegistry shows that a call of a TokenStore answers with    *)
(* the registry as it was at one moment of the call, or is unavailable;    *)
(* here the call is that moment.  The registry gives the scopes each key   *)
(* has: none for a key that is unknown, disabled or revoked.               *)
(***************************************************************************)
EXTENDS Naturals

CONSTANTS
  Keys, Capabilities,
  Requests,
  NoCapability,  \* of a route that uses no engine: GET /v1/models
  Unreadable,    \* no valid registry, or a read of it fails
  MaxChanges     \* bound on changes of the registry

Scopes == Capabilities \cup {"gateway", "mcp"}

\* The scopes a client in the registry can have.
ScopeSets ==
  {sc \in SUBSET Scopes :
     sc \cap {"gateway", "mcp"} # {} /\ ("mcp" \in sc => "gateway" \in sc)}

Registries == [Keys -> ScopeSets \cup {{}}]

ASSUME AccessAssumption ==
  /\ MaxChanges \in Nat
  /\ NoCapability \notin Capabilities
  /\ Unreadable \notin Registries

VARIABLES
  registry,  \* what a look at it would find
  session,   \* the scopes a key had when its MCP session was opened, if it was
  req,       \* the requests
  changes,
  seen       \* history: the registries there were since the request was made

vars == <<registry, session, req, changes, seen>>

-----------------------------------------------------------------------------

\* TokenStore.authenticate succeeds with the scopes of the key.
Authenticates(k) ==
  /\ registry # Unreadable
  /\ registry[k] # {}

\* The table of the middleware: what a route asks for.
Required(cap) == {"gateway"} \cup ({cap} \ {NoCapability})

\* verify_token, when FastMCP sees the token of a new session.
OpenSession(k) ==
  /\ Authenticates(k)
  /\ {"mcp", "gateway"} \subseteq registry[k]
  /\ session' = [session EXCEPT ![k] = registry[k]]
  /\ UNCHANGED <<registry, req, changes, seen>>

Made(r, pc, via, k, cap) ==
  /\ req[r].pc = "new"
  /\ req' = [req EXCEPT ![r] =
               [pc |-> pc, via |-> via, key |-> k, cap |-> cap, listed |-> {}]]
  /\ seen' = [seen EXCEPT ![r] = {registry}]
  /\ UNCHANGED <<registry, session, changes>>

\* A client's request reaches the Gateway.
SendRest(r, k, cap) == Made(r, "gateway", "rest", k, cap)

\* A client with a session calls one of the tools, each for one capability.
CallTool(r, k, cap) ==
  /\ session[k] # {}
  /\ cap # NoCapability
  /\ Made(r, "tool", "mcp", k, cap)

Moves(r, pc) ==
  /\ req' = [req EXCEPT ![r].pc = pc]
  /\ UNCHANGED <<registry, session, changes, seen>>

ToolScopes(r) == {"mcp", "gateway", req[r].cap}

\* Mutant of CurrentClient: the scopes of the session are trusted.
CurrentClientOfSession(r) == ToolScopes(r) \subseteq session[req[r].key]

\* current_client: the token is looked up again for every tool call.
CurrentClient(r) ==
  /\ Authenticates(req[r].key)
  /\ ToolScopes(r) \subseteq registry[req[r].key]

\* The tool goes on to decode its arguments, or raises PermissionError.
Recheck(r) ==
  /\ req[r].pc = "tool"
  /\ Moves(r, IF CurrentClient(r) THEN "checked" ELSE "denied")

\* A payload that is not base64, or is too large.
BadPayload(r) ==
  /\ req[r].pc = "checked"
  /\ Moves(r, "failed")

\* GatewayClient posts to the route of the tool, with the client's token.
Forward(r) ==
  /\ req[r].pc = "checked"
  /\ Moves(r, "gateway")

\* The scopes of the identity are enough for the route.
Admits(r) ==
  /\ Authenticates(req[r].key)
  /\ Required(req[r].cap) \subseteq registry[req[r].key]

\* Mutant of Listed: the transports are listed too.
ListedScopes(r) == IF req[r].cap = NoCapability THEN registry[req[r].key] ELSE {}

\* list_models names the models of the scopes the middleware has found.
Listed(r) ==
  IF req[r].cap = NoCapability THEN Capabilities \cap registry[req[r].key] ELSE {}

\* authenticate_client lets the request through.
Admit(r) ==
  /\ req[r].pc = "gateway"
  /\ Admits(r)
  /\ req' = [req EXCEPT ![r].pc = "admitted", ![r].listed = Listed(r)]
  /\ UNCHANGED <<registry, session, changes, seen>>

\* 503 without a registry, 401 without an identity, 403 without the scopes.
Deny(r) ==
  /\ req[r].pc = "gateway"
  /\ ~Admits(r)
  /\ Moves(r, "denied")

\* The handler has answered (module LeaseClient), or the tool's call to the
\* Gateway has timed out.
Finish(r) ==
  /\ req[r].pc = "admitted"
  /\ Moves(r, "finished")

\* An administrator's command comes into force, or the file is damaged or
\* repaired.
Change ==
  /\ changes < MaxChanges
  /\ changes' = changes + 1
  /\ registry' \in (Registries \cup {Unreadable}) \ {registry}
  /\ seen' = [r \in Requests |->
                IF req[r].pc \in {"tool", "checked", "gateway"}
                THEN seen[r] \cup {registry'} ELSE seen[r]]
  /\ UNCHANGED <<session, req>>

-----------------------------------------------------------------------------

Init ==
  /\ registry \in Registries
  /\ session = [k \in Keys |-> {}]
  /\ \E k \in Keys :
       req = [r \in Requests |->
                [pc |-> "new", via |-> "rest", key |-> k, cap |-> NoCapability, listed |-> {}]]
  /\ changes = 0
  /\ seen = [r \in Requests |-> {}]

RequestStep(r) ==
  Recheck(r) \/ BadPayload(r) \/ Forward(r) \/ Admit(r) \/ Deny(r) \/ Finish(r)

Next ==
  \/ Change
  \/ \E k \in Keys : OpenSession(k)
  \/ \E r \in Requests :
       \/ RequestStep(r)
       \/ \E k \in Keys, cap \in Capabilities \cup {NoCapability} :
            SendRest(r, k, cap) \/ CallTool(r, k, cap)

Spec == Init /\ [][Next]_vars

-----------------------------------------------------------------------------
(* Properties.                                                             *)

Stages == {"new", "tool", "checked", "gateway", "admitted", "denied", "failed", "finished"}

TypeOK ==
  /\ registry \in Registries \cup {Unreadable}
  /\ session \in [Keys -> SUBSET Scopes]
  /\ req \in [Requests ->
       [pc : Stages, via : {"rest", "mcp"}, key : Keys,
        cap : Capabilities \cup {NoCapability}, listed : SUBSET Capabilities]]
  /\ changes \in Nat
  /\ seen \in [Requests -> SUBSET (Registries \cup {Unreadable})]

\* Since the request was made there was a registry that gave its key these scopes.
Granted(r, scopes) ==
  \E g \in seen[r] \ {Unreadable} : scopes \subseteq g[req[r].key]

\* Access is never older than the request: what is admitted, by whichever way
\* and however old its session, was granted by a registry that was in force
\* after the request was made.
AdmittedIsAuthorized ==
  \A r \in Requests : req[r].pc \in {"admitted", "finished"} =>
    /\ Granted(r, Required(req[r].cap) \cup req[r].listed)
    /\ req[r].via = "mcp" => Granted(r, {"mcp"})

=============================================================================
