----------------------------- MODULE AccessControl ----------------------------
(***************************************************************************)
(* What a caller may do and what a node may do, as pure operators: the     *)
(* claims a request has (api/middleware/auth.py), the capabilities that    *)
(* its roles give it (api/middleware/rbac.py), and the tools in the        *)
(* manifest of each node of the graph (agent/tools/manifests.py).  The     *)
(* request's status is what the dependency of a route decides before the   *)
(* route's body runs.                                                      *)
(***************************************************************************)
EXTENDS Naturals

ROLE_CAPABILITIES ==
  [user     |-> {"query"},
   operator |-> {"query", "ingest", "settings"},
   admin    |-> {"query", "ingest", "settings", "eval", "audit"}]

Manifest == [Planner |-> {}, Retriever |-> {"ai_search_read"}, Synthesizer |-> {}]

(* The Authorization header: absent, of another scheme, or with a token.   *)
Authorization == {"absent", "malformed", "bearer"}

NoRoles == {}

(* Mutant: the scheme of the header is not looked at. *)
validate_any(auth_enabled, authorization) ==
  IF ~auth_enabled THEN {"admin"}
  ELSE IF authorization # "absent" THEN {"user"} ELSE NoRoles

(* The roles in the claims; none stands for the exception that is the 401. *)
(* No token is looked into yet: _validate_jwt gives every one the same.    *)
validate_token(auth_enabled, authorization) ==
  IF ~auth_enabled THEN {"admin"}
  ELSE IF authorization = "bearer" THEN {"user"} ELSE NoRoles

(* The union over the roles; a role the table does not have gives nothing. *)
get_capabilities(roles) ==
  UNION {ROLE_CAPABILITIES[role] : role \in roles \cap DOMAIN ROLE_CAPABILITIES}

require_capability(capability, auth_enabled, authorization) ==
  LET roles == validate_token(auth_enabled, authorization) IN
  IF roles = NoRoles THEN 401
  ELSE IF capability \notin get_capabilities(roles) THEN 403 ELSE 200

check_capability(node, tool) == tool \in Manifest[node]

===============================================================================
