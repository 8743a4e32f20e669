------------------------- MODULE ClientAccessProofs -------------------------
(***************************************************************************)
(* Theorems about ClientAccess, for all sets of keys, capabilities and     *)
(* requests and any number of changes of the registry.                     *)
(*                                                                         *)
(* AdmittedIsAuthorized is about requests that were admitted; to be        *)
(* inductive it needs what is known of them on the way.  The present       *)
(* registry counts among those seen, so that a check made now is a grant;  *)
(* and a tool call that passed its check carries the grant of mcp along.   *)
(***************************************************************************)
EXTENDS ClientAccess, TLAPS

Present(r) ==
  req[r].pc \in {"tool", "checked", "gateway"} => registry \in seen[r]

Checked(r) ==
  req[r].via = "mcp" /\ req[r].pc \in {"checked", "gateway"} => Granted(r, {"mcp"})

Authorized(r) ==
  req[r].pc \in {"admitted", "finished"} =>
    /\ Granted(r, Required(req[r].cap) \cup req[r].listed)
    /\ req[r].via = "mcp" => Granted(r, {"mcp"})

RequestInv(r) == Present(r) /\ Checked(r) /\ Authorized(r)

AccessInv == TypeOK /\ \A r \in Requests : RequestInv(r)

-----------------------------------------------------------------------------

\* What was granted stays granted while the history of the request grows and
\* its key is the same: the history is only added to.
LEMMA GrantsStay ==
  ASSUME NEW r \in Requests, NEW scopes,
         seen[r] \subseteq seen'[r], req'[r].key = req[r].key,
         Granted(r, scopes)
  PROVE  Granted(r, scopes)'
  BY DEF Granted

\* A look at the registry that finds the scopes is a grant.
LEMMA LookIsGrant ==
  ASSUME NEW r \in Requests, NEW scopes,
         registry \in seen[r], registry # Unreadable,
         scopes \subseteq registry[req[r].key]
  PROVE  Granted(r, scopes)
  BY DEF Granted

\* The variables of ClientAccess keep their types: every handler writes what
\* it has read from a valid registry.
LEMMA TypeStep == TypeOK /\ [Next]_vars => TypeOK'
<1> SUFFICES ASSUME TypeOK, [Next]_vars PROVE TypeOK'
  OBVIOUS
<1> USE DEF TypeOK, Stages
<1>1. CASE Change
  BY <1>1 DEF Change
<1>2. ASSUME NEW k \in Keys, OpenSession(k) PROVE TypeOK'
  BY <1>2 DEF OpenSession, Authenticates, Registries, ScopeSets
<1>3. ASSUME NEW r \in Requests, NEW k \in Keys, NEW cap \in Capabilities \cup {NoCapability},
             SendRest(r, k, cap) \/ CallTool(r, k, cap)
      PROVE  TypeOK'
  BY <1>3 DEF SendRest, CallTool, Made
<1>4. ASSUME NEW r \in Requests, Recheck(r) \/ BadPayload(r) \/ Forward(r) \/ Deny(r) \/ Finish(r)
      PROVE  TypeOK'
  BY <1>4 DEF Recheck, BadPayload, Forward, Deny, Finish, Moves
<1>5. ASSUME NEW r \in Requests, Admit(r) PROVE TypeOK'
  <2>1. Listed(r) \in SUBSET Capabilities
    BY DEF Listed
  <2> QED
    BY <1>5, <2>1 DEF Admit
<1>6. CASE UNCHANGED vars
  BY <1>6 DEF vars
<1> QED
  BY <1>1, <1>2, <1>3, <1>4, <1>5, <1>6 DEF Next, RequestStep

\* A request that a step leaves alone keeps what is known of it, as long as
\* the registry stays or is noted in its history.
LEMMA Untouched ==
  ASSUME TypeOK, NEW r \in Requests, RequestInv(r),
         req'[r] = req[r], seen[r] \subseteq seen'[r],
         req[r].pc \in {"tool", "checked", "gateway"} => registry' \in seen'[r]
  PROVE  RequestInv(r)'
<1>1. Present(r)'
  BY DEF Present
<1>2. Checked(r)'
  BY GrantsStay DEF RequestInv, Checked
<1>3. Authorized(r)'
  BY GrantsStay DEF RequestInv, Authorized
<1> QED
  BY <1>1, <1>2, <1>3 DEF RequestInv

\* Every step of the Gateway, of the MCP server and of the administrator keeps
\* what is known of every request.
LEMMA RequestStepInv ==
  ASSUME AccessInv, Next, NEW q \in Requests
  PROVE  RequestInv(q)'
<1> USE DEF AccessInv
<1>0. RequestInv(q)
  OBVIOUS
<1>1. CASE Change
  <2>1. seen[q] \subseteq seen'[q] /\ req'[q] = req[q]
    BY <1>1 DEF Change, TypeOK
  <2>2. req[q].pc \in {"tool", "checked", "gateway"} => registry' \in seen'[q]
    BY <1>1 DEF Change, TypeOK
  <2> QED
    BY <1>0, <2>1, <2>2, Untouched
<1>2. ASSUME NEW k \in Keys, OpenSession(k) PROVE RequestInv(q)'
  <2>1. req'[q] = req[q] /\ seen'[q] = seen[q] /\ registry' = registry
    BY <1>2 DEF OpenSession
  <2> QED
    BY <1>0, <2>1, Untouched DEF RequestInv, Present
<1>3. ASSUME NEW r \in Requests, NEW k \in Keys, NEW cap \in Capabilities \cup {NoCapability},
             SendRest(r, k, cap) \/ CallTool(r, k, cap)
      PROVE  RequestInv(q)'
  <2>1. CASE q = r
    <3>1. req'[q].pc \in {"gateway", "tool"} /\ seen'[q] = {registry} /\ registry' = registry
          /\ (req'[q].pc = "gateway" => req'[q].via = "rest")
      BY <1>3, <2>1 DEF SendRest, CallTool, Made, TypeOK
    <3> QED
      BY <3>1 DEF RequestInv, Present, Checked, Authorized
  <2>2. CASE q # r
    <3>1. req'[q] = req[q] /\ seen'[q] = seen[q] /\ registry' = registry
      BY <1>3, <2>2 DEF SendRest, CallTool, Made, TypeOK
    <3> QED
      BY <1>0, <3>1, Untouched DEF RequestInv, Present
  <2> QED
    BY <2>1, <2>2
<1>4. ASSUME NEW r \in Requests, RequestStep(r) PROVE RequestInv(q)'
  <2>0. registry' = registry /\ seen' = seen
    BY <1>4 DEF RequestStep, Recheck, BadPayload, Forward, Admit, Deny, Finish, Moves
  <2>1. CASE q # r
    <3>1. req'[q] = req[q]
      BY <1>4, <2>1 DEF RequestStep, Recheck, BadPayload, Forward, Admit, Deny, Finish,
                        Moves, TypeOK
    <3> QED
      BY <1>0, <2>0, <3>1, Untouched DEF RequestInv, Present
  <2>2. CASE q = r
    <3>1. CASE Recheck(r)
      <4>1. /\ req'[q].pc = IF CurrentClient(q) THEN "checked" ELSE "denied"
            /\ req'[q].key = req[q].key /\ req[q].pc = "tool"
        BY <3>1, <2>2 DEF Recheck, Moves, TypeOK
      <4>2. registry \in seen[q]
        BY <1>0, <4>1 DEF RequestInv, Present
      <4>3. CurrentClient(q) => Granted(q, {"mcp"})
        BY <4>2, LookIsGrant DEF CurrentClient, Authenticates, ToolScopes
      <4>4. CurrentClient(q) => Granted(q, {"mcp"})'
        BY <4>1, <4>3, <2>0, GrantsStay
      <4> QED
        BY <4>1, <4>2, <4>4, <2>0 DEF RequestInv, Present, Checked, Authorized
    <3>2. CASE BadPayload(r) \/ Deny(r)
      <4>1. req'[q].pc \in {"failed", "denied"}
        BY <3>2, <2>2 DEF BadPayload, Deny, Moves, TypeOK
      <4> QED
        BY <4>1 DEF RequestInv, Present, Checked, Authorized
    <3>3. CASE Forward(r)
      <4>1. /\ req'[q].pc = "gateway" /\ req'[q].key = req[q].key
            /\ req'[q].via = req[q].via /\ req[q].pc = "checked"
        BY <3>3, <2>2 DEF Forward, Moves, TypeOK
      <4>2. req[q].via = "mcp" => Granted(q, {"mcp"})
        BY <1>0, <4>1 DEF RequestInv, Checked
      <4>3. req'[q].via = "mcp" => Granted(q, {"mcp"})'
        BY <4>1, <4>2, <2>0, GrantsStay
      <4> QED
        BY <1>0, <4>1, <4>3, <2>0 DEF RequestInv, Present, Checked, Authorized
    <3>4. CASE Admit(r)
      <4>1. /\ req'[q].pc = "admitted" /\ req'[q].key = req[q].key /\ req'[q].cap = req[q].cap
            /\ req'[q].via = req[q].via /\ req'[q].listed = Listed(q)
            /\ req[q].pc = "gateway" /\ Admits(q)
        BY <3>4, <2>2 DEF Admit, TypeOK
      <4>2. registry \in seen[q] /\ (req[q].via = "mcp" => Granted(q, {"mcp"}))
        BY <1>0, <4>1 DEF RequestInv, Present, Checked
      <4>3. Required(req[q].cap) \cup Listed(q) \subseteq registry[req[q].key]
        BY <4>1 DEF Admits, Listed
      <4>4. Granted(q, Required(req[q].cap) \cup Listed(q))
        BY <4>1, <4>2, <4>3, LookIsGrant DEF Admits, Authenticates
      <4>5. Granted(q, Required(req[q].cap) \cup req[q].listed)'
        BY <4>1, <4>4, <2>0 DEF Granted, Required
      <4>6. req'[q].via = "mcp" => Granted(q, {"mcp"})'
        BY <4>1, <4>2, <2>0, GrantsStay
      <4> QED
        BY <4>1, <4>5, <4>6 DEF RequestInv, Present, Checked, Authorized
    <3>5. CASE Finish(r)
      <4>1. /\ req'[q].pc = "finished" /\ req'[q].key = req[q].key /\ req'[q].cap = req[q].cap
            /\ req'[q].via = req[q].via /\ req'[q].listed = req[q].listed
            /\ req[q].pc = "admitted"
        BY <3>5, <2>2 DEF Finish, Moves, TypeOK
      <4> QED
        BY <1>0, <4>1, <2>0 DEF RequestInv, Present, Checked, Authorized, Granted
    <3> QED
      BY <1>4, <2>2, <3>1, <3>2, <3>3, <3>4, <3>5 DEF RequestStep
  <2> QED
    BY <2>1, <2>2
<1> QED
  BY <1>1, <1>2, <1>3, <1>4 DEF Next

-----------------------------------------------------------------------------

\* The inductive invariant holds initially and is kept by every step.
LEMMA AccessInvHolds == Spec => []AccessInv
<1>1. Init => AccessInv
  BY DEF Init, AccessInv, TypeOK, Stages, Registries, ScopeSets, RequestInv, Present,
         Checked, Authorized
<1>2. AccessInv /\ [Next]_vars => AccessInv'
  <2> SUFFICES ASSUME AccessInv, [Next]_vars PROVE AccessInv'
    OBVIOUS
  <2>1. TypeOK'
    BY TypeStep DEF AccessInv
  <2>2. ASSUME NEW q \in Requests PROVE RequestInv(q)'
    <3>1. CASE Next
      BY <3>1, RequestStepInv
    <3>2. CASE UNCHANGED vars
      BY <3>2 DEF AccessInv, vars, RequestInv, Present, Checked, Authorized, Granted
    <3> QED
      BY <3>1, <3>2
  <2> QED
    BY <2>1, <2>2 DEF AccessInv
<1> QED
  BY <1>1, <1>2, PTL DEF Spec

\* What the two servers hold is always well formed: sessions and requests carry
\* scopes and capabilities of the registry's vocabulary.
THEOREM AccessTypes == Spec => []TypeOK
<1>1. AccessInv => TypeOK
  BY DEF AccessInv
<1> QED
  BY <1>1, AccessInvHolds, PTL

\* No access is older than its request: whatever the Gateway admits was granted
\* by a registry in force since the request, or the tool call, was made.
THEOREM AccessIsCurrent == Spec => []AdmittedIsAuthorized
<1>1. AccessInv => AdmittedIsAuthorized
  BY DEF AccessInv, RequestInv, Authorized, AdmittedIsAuthorized
<1> QED
  BY <1>1, AccessInvHolds, PTL

=============================================================================
